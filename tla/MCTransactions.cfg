\* Three clients, two connections, two orders that do not both fit
SPECIFICATION Spec
CONSTANTS
    Tickets = {"a"}
    Users = {"ann", "bob"}
    Registered = {"ann", "bob"}
    RequestIds = {1, 2}
    Requests <- TwoOrders
    MaxQuantity = 2
    TotalStock <- MCTotalStock
    MaxPerUser <- MCMaxPerUser
    Clients = {c1, c2, c3}
    MaxConns = 2
    NoJob = NoJob
INVARIANTS
    TypeOK
    WritesCurrent
    NoStandstill
    NoLostUnits
PROPERTIES
    TransactionsAreAtomic
    OnlyReclosingUnbalances
