\* Three messages of nine bytes, two bytes to a header and to a buffer.
SPECIFICATION FairSpec
CONSTANTS
    b1 = b1
    b2 = b2
    b3 = b3
    b4 = b4
    Buffer <- FourBuffers
    Capacity = 2
    PoolMax = 1
    MaxBytes = 9
    Lengths <- EmptyLongEmpty
    HEADER_LEN = 2
INVARIANT SessionOK
PROPERTIES StreamSpec EveryMessageHandled
CHECK_DEADLOCK FALSE
