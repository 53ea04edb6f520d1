\* Two sessions close the same order
SPECIFICATION Spec
CONSTANTS
    Tickets = {"a"}
    Users = {"ann", "bob"}
    Registered = {"ann", "bob"}
    RequestIds = {1, 2}
    Requests <- TwiceAnn
    MaxQuantity = 2
    TotalStock <- MCTotalStock
    MaxPerUser <- MCMaxPerUser
    MaxRetryCount = 3
    BatchSize = 2
    Sessions = {"s1", "s2"}
    Faults = {}
    Reopening = FALSE
    MaxCrashes = 0
CHECK_DEADLOCK FALSE
PROPERTIES
    ClosedStaysClosed
