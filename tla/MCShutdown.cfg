\* One process that is stopped or killed at any point, and its successor
SPECIFICATION GoroutineSpec
CONSTANTS
    Tickets = {"a"}
    Users = {"ann"}
    Registered = {"ann"}
    RequestIds = {1}
    Requests <- OneOrder
    MaxQuantity = 2
    TotalStock <- MCTotalStock
    MaxPerUser <- MCMaxPerUser
    MaxRetryCount = 5
    BatchSize = 1
    Sessions = {"s1", "s2"}
    Faults = {"redis", "lostPublish", "db"}
    Reopening = FALSE
    MaxCrashes = 1
CHECK_DEADLOCK FALSE
INVARIANTS
    ShutdownTypeOK
PROPERTIES
    ShutdownIsACrash
    SettledStays
    DrainedLeaksNothing
    SubscriptionEnds
    ServedOrStopped
    DrainsOrStopped
