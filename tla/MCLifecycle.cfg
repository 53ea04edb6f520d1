\* One session confirms, cancels and deletes while orders arrive
SPECIFICATION Spec
CONSTANTS
    Tickets = {"a"}
    Users = {"ann", "bob"}
    Registered = {"ann", "bob"}
    RequestIds = {1, 2, 3}
    Requests <- OneTicket
    MaxQuantity = 2
    TotalStock <- MCTotalStock
    MaxPerUser <- MCMaxPerUser
    MaxRetryCount = 2
    BatchSize = 2
    Sessions = {"s1"}
    Faults = {"db"}
    Reopening = FALSE
    MaxCrashes = 1
CHECK_DEADLOCK FALSE
INVARIANTS
    StoredFits
    LedgerBalanced
    StocksReconcile
PROPERTIES
    LedgerIsBoxOffice
