SPECIFICATION Spec
CONSTANTS
    OutCapacity = 3
    Sizes = {1, 4}
    SockCapacity = 2
    MaxBytes = 6
    MaxFailures = 1
INVARIANTS
    InsertionOrder
CHECK_DEADLOCK FALSE
