SPECIFICATION ProcessSpec
CONSTANTS
    Objs = {o1, o2, o3}
    Classes = {"socket", "file", "epoll"}
    Numbers = {0, 1, 2}
    MaxFiles = 3
    Maps = {m1, m2}
    Sizes = {1, 2}
    MaxRegions = 2
    Streams = {m1, m2}
    Capacities <- MCCapacities
    MaxBytes = 3
    Bounds <- MCBounds
INVARIANTS
    ProcessTypeOK
    Exclusive
    LeadsToOwnFile
    NoLeak
    WatchedOwned
    MappingsOwned
    BuffersOwned
    OutputFollows
    InputFollows
SYMMETRY Places
CHECK_DEADLOCK FALSE
