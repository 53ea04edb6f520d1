\* Redis and database errors and two crashes, against three requests for one ticket type
SPECIFICATION Spec
CONSTANTS
    Tickets = {"a"}
    Users = {"ann", "bob"}
    Registered = {"ann", "bob"}
    RequestIds = {1, 2, 3}
    Requests <- OneTicket
    MaxQuantity = 2
    TotalStock <- MCTotalStock
    MaxPerUser <- MCMaxPerUser
    MaxRetryCount = 3
    BatchSize = 2
    Sessions = {}
    Faults = {"redis", "db"}
    Reopening = FALSE
    MaxCrashes = 2
CHECK_DEADLOCK FALSE
INVARIANTS
    TypeOK
    StockConserved
    NoShortfall
    AcceptedTracked
    StocksReconcile
PROPERTIES
    FrontIsBoxOffice
