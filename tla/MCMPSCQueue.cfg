\* Three producers, three items, four addresses: addresses are used again.
SPECIFICATION MCSpec
CONSTANTS
    p1 = p1
    p2 = p2
    p3 = p3
    m1 = m1
    m2 = m2
    m3 = m3
    a1 = a1
    a2 = a2
    a3 = a3
    a4 = a4
    NULL = NULL
    Producer <- ThreeProducers
    Item <- ThreeItems
    Addr <- FourNodes
    Sender <- TwoProducers
    Node <- TwoItems
    Dummy = a1
    MaxSent = 4
INVARIANT NodesOwned
PROPERTIES QueueSpec EverythingComesOut IntrusiveSpec
CHECK_DEADLOCK FALSE
