SPECIFICATION FairSpec
CONSTANTS
    OutCapacity = 3
    InCapacity = 2
    SockCapacity = 2
    InsertSizes = {1, 2, 3}
    ExtractSizes = {1, 3}
    MaxBytes = 4
    MaxStream = 6
    MaxRead = 5
    MaxSendFailures = 1
    MaxRecvFailures = 1
PROPERTIES
    ImplementsStream
    FlushedIsRead
CHECK_DEADLOCK FALSE
