\* OpenForSale is called again during the sale
SPECIFICATION Spec
CONSTANTS
    Tickets = {"a"}
    Users = {"ann", "bob"}
    Registered = {"ann", "bob"}
    RequestIds = {1, 2, 3}
    Requests <- OneTicket
    MaxQuantity = 2
    TotalStock <- MCTotalStock
    MaxPerUser <- MCMaxPerUser
    MaxRetryCount = 3
    BatchSize = 2
    Sessions = {}
    Faults = {}
    Reopening = TRUE
    MaxCrashes = 0
CHECK_DEADLOCK FALSE
INVARIANTS
    AcceptedFits
