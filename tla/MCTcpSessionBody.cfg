\* A message with a body is not whole.
SPECIFICATION Spec
CONSTANTS
    b1 = b1
    b2 = b2
    b3 = b3
    b4 = b4
    Buffer <- FourBuffers
    Capacity = 2
    PoolMax = 1
    MaxBytes = 5
    Lengths <- OneEach
    HEADER_LEN = 2
INVARIANT BodyIsRead
CHECK_DEADLOCK FALSE
