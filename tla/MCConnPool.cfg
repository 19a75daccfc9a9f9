\* Two holders and three addresses; connections expire, break and are cleared.  Two
\* RedisConn objects, three contexts and two databases.
SPECIFICATION MCSpec
CONSTANTS
    NoConn = NoConn
    Holder = {h1, h2}
    Addr = {c1, c2, c3}
    MaxIdle = 2
    MaxNow = 3
    MaxBreaks = 2
    Object = {o1, o2}
    Database = {0, 1}
INVARIANTS Exclusive PoolAccounted ContextsAccounted RightDatabase
PROPERTIES FreshestFirst LeaseSpec SafeGrabReturns
