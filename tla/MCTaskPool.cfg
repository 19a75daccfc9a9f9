\* Two submitters, three tasks and two workers, with null submissions and a
\* counter that wraps.
SPECIFICATION Spec
CONSTANTS
    s1 = s1
    s2 = s2
    k1 = k1
    k2 = k2
    k3 = k3
    NullTask = NullTask
    NoTask = NoTask
    Submitter <- TwoSubmitters
    Task <- ThreeTasks
    N = 2
    IdxModulus = 4
    MaxDraws = 4
INVARIANT EachOnceInOrder
PROPERTY LanesSpec
CHECK_DEADLOCK FALSE
