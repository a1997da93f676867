SPECIFICATION StringFairSpec
CONSTANTS
    InCapacity = 3
    OutCapacity = 0
    Sizes = {1, 2, 4}
    Junk = {0}
    MaxBytes = 7
    MaxRead = 7
    MaxFailures = 2
    Nuls = {2, 5, 6}
    MaxStrings = 3
INVARIANTS
    StringTypeOK
    ReadInOrder
    NothingDropped
    WholeSkipsTerminator
PROPERTIES
    ReadReturns
CHECK_DEADLOCK FALSE
