SPECIFICATION Spec
CONSTANTS
    s1 = s1
    e1 = e1
    l1 = l1
    l2 = l2
    l3 = l3
    drop = drop
    deny = deny
    None = None
    Source = {s1}
    Edge = {e1}
    LeaseId = {l1, l2, l3}
    Action = {drop, deny}
    Brokers = {"source", "relationship"}
    TTL = {1, 2}
    MaxTime = 2
    MaxEdgeFaults = 1
    MaxStoreFaults = 1
SYMMETRY PairSymmetry
CHECK_DEADLOCK FALSE
INVARIANT TypeOK
INVARIANT SettledSourceIsLifted
INVARIANT FencedOffByLater
