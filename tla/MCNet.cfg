\* Four buffers of three bytes, a pool of two, seven bytes.  Two messages made for one byte,
\* of at most three; memory for two comes with every copy, and a length of three is one too
\* many for its field.  Pools of no, two and three contexts; an index that may be beyond them.
SPECIFICATION MCSpec
CONSTANTS
    Buffer = {b1, b2, b3, b4}
    Capacity = 3
    PoolMax = 2
    MaxBytes = 7
    Msg = {m1, m2}
    MaxSize = 2
    Sizes = {1}
    Amounts = {1, 2}
    MaxText = 3
    Width = 3
    PoolSizes = {0, 2, 3}
    IndexRange = 5
INVARIANTS StreamIntact BodyRoundTrip EvenSpread
PROPERTY ServesUntilStopped
