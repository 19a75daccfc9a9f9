\* Three keys and two threads, as odd as the five keys of the program: a GET goes to the
\* other thread than its SET, behind the SETs of the keys next to it.
SPECIFICATION MCSpec
CONSTANTS
    c1 = c1
    c2 = c2
    NoConn = NoConn
    NullTask = NullTask
    NoTask = NoTask
    MaxTask = 3
    Landing = {1}
    ThreadSize = 2
    IdxModulus = 4
    Addr <- TwoAddr
    MaxIdle = 1
    MaxNow = 1
    Pushes = 1
SYMMETRY AddrSymmetry
INVARIANT GetsStayBehind
CHECK_DEADLOCK FALSE
