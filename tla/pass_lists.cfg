SPECIFICATION FairSpec
CONSTANTS
    Senders = {s1}
    Receivers = {s1, r1, r2}
    Nobody = nobody
    Batch = 2
    Counts = {0, 5}
    QueueLen = 2
    MaxLists = 3
    MaxRecvs = 5
    MaxFailures = 2
INVARIANTS
    TypeOK
    NoLeak
    NothingForeign
PROPERTIES
    ImplementsChannel
    ListsArrive
    SendsReturn
CHECK_DEADLOCK FALSE
