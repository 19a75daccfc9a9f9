\* One submitter, two tasks among seven draws, and three workers under the fairness
\* of the program, with a counter of width 4 that wraps.
SPECIFICATION FairSpec
CONSTANTS
    s1 = s1
    s2 = s2
    k1 = k1
    k2 = k2
    k3 = k3
    NullTask = NullTask
    NoTask = NoTask
    Submitter <- OneSubmitter
    Task <- TwoTasks
    N = 3
    IdxModulus = 4
    MaxDraws = 7
INVARIANT RoundRobin
PROPERTY TasksMoveOn
CHECK_DEADLOCK FALSE
