SPECIFICATION FairSpec
CONSTANTS
    OutCapacity = 3
    Sizes = {1, 2, 4}
    SockCapacity = 2
    MaxBytes = 7
    MaxFailures = 2
INVARIANTS
    TypeOK
    SentInOrder
    NothingLost
    FlushDurable
    SentOnce
PROPERTIES
    CallsReturn
CHECK_DEADLOCK FALSE
