SPECIFICATION Spec
CONSTANTS
    Senders = {s1, s2}
    Receivers = {r1}
    Nobody = nobody
    Batch = 2
    Counts = {3}
    QueueLen = 2
    MaxLists = 2
    MaxRecvs = 2
    MaxFailures = 0
INVARIANTS
    NoLeak
CHECK_DEADLOCK FALSE
