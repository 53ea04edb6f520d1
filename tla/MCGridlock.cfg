\* Three orders and a buffer of one
SPECIFICATION FairSpec
CONSTANTS
    Messages = {m1, m2, m3}
    BufferSize = 1
CHECK_DEADLOCK FALSE
PROPERTIES
    Dispatched
