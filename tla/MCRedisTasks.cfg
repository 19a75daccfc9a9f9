\* Two keys and two threads: a GET goes to the thread of its SET.  A SELECT may be refused.
\* No connection expires.
SPECIFICATION MCSpec
CONSTANTS
    c1 = c1
    c2 = c2
    NoConn = NoConn
    NullTask = NullTask
    NoTask = NoTask
    MaxTask = 2
    Landing = {0, 1}
    ThreadSize = 2
    IdxModulus = 4
    Addr <- TwoAddr
    MaxIdle = 1
    MaxNow = 0
    Pushes = 3
INVARIANTS GetSeesSet PrintsWhole
PROPERTY EverythingEnds
CHECK_DEADLOCK FALSE
