\* Three orders and a buffer of two
SPECIFICATION FairSpec
CONSTANTS
    Messages = {m1, m2, m3}
    BufferSize = 2
CHECK_DEADLOCK FALSE
INVARIANTS
    TypeOK
    OneCopy
    NoOrderLost
PROPERTIES
    QueueDelivers
    Dispatched
    LeavesWhenCancelled
