\* One crash, a user without a row, and no other failure
SPECIFICATION FairSpec
CONSTANTS
    Tickets = {"a"}
    Users = {"ann", "bob"}
    Registered = {"ann"}
    RequestIds = {1, 2}
    Requests <- TwoUsers
    MaxQuantity = 2
    TotalStock <- MCTotalStock
    MaxPerUser <- MCMaxPerUser
    MaxRetryCount = 5
    BatchSize = 1
    Sessions = {}
    Faults = {}
    Reopening = FALSE
    MaxCrashes = 1
CHECK_DEADLOCK FALSE
PROPERTIES
    AcceptedServed
    QueueDrains
