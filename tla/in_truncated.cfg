SPECIFICATION Spec
CONSTANTS
    InCapacity = 3
    OutCapacity = 0
    Sizes = {2}
    Junk = {0}
    MaxBytes = 4
    MaxRead = 4
    MaxFailures = 0
INVARIANTS
    ReadReceived
CHECK_DEADLOCK FALSE
