SPECIFICATION Spec
CONSTANTS
    s1 = s1
    e1 = e1
    l1 = l1
    l2 = l2
    l3 = l3
    drop = drop
    deny = deny
    None = None
    Source = {}
    Edge = {e1}
    LeaseId = {l1, l2}
    Action = {drop}
    Brokers = {"relationship"}
    TTL = {1}
    MaxTime = 2
    MaxEdgeFaults = 0
    MaxStoreFaults = 0
SYMMETRY PairSymmetry
CHECK_DEADLOCK FALSE
INVARIANT RevertedEdgePasses
