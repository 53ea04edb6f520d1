\* Every failure, and the sale may be opened again at any time
SPECIFICATION Spec
CONSTANTS
    Tickets = {"a"}
    Users = {"ann", "bob"}
    Registered = {"ann", "bob"}
    RequestIds = {1, 2}
    Requests <- TwiceAnn
    MaxQuantity = 2
    TotalStock <- MCTotalStock
    MaxPerUser <- MCMaxPerUser
    MaxRetryCount = 2
    BatchSize = 2
    Sessions = {}
    Faults = {"redis", "lostPublish", "db"}
    Reopening = TRUE
    MaxCrashes = 1
CHECK_DEADLOCK FALSE
INVARIANTS
    UserLimit
    LedgerBalanced
PROPERTIES
    QueueDelivers
