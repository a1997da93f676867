SPECIFICATION StringSpec
CONSTANTS
    InCapacity = 3
    OutCapacity = 1
    Sizes = {2}
    Junk = {0}
    MaxBytes = 6
    MaxRead = 6
    MaxFailures = 1
    Nuls = {3, 4, 6}
    MaxStrings = 3
INVARIANTS
    SkipsTerminator
CHECK_DEADLOCK FALSE
