\* XADD is applied and its reply is lost
SPECIFICATION Spec
CONSTANTS
    Tickets = {"a"}
    Users = {"ann", "bob"}
    Registered = {"ann", "bob"}
    RequestIds = {1, 2}
    Requests <- TwiceAnn
    MaxQuantity = 2
    TotalStock <- MCTotalStock
    MaxPerUser <- MCMaxPerUser
    MaxRetryCount = 3
    BatchSize = 2
    Sessions = {}
    Faults = {"lostPublish"}
    Reopening = FALSE
    MaxCrashes = 0
CHECK_DEADLOCK FALSE
INVARIANTS
    NoTicketOnError
