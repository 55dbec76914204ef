\* The tick loop and the proposal applier apply, the tick loop sweeps; nothing fails.
CONSTANTS
    t1 = t1 drop = drop limit = limit p1 = p1 p2 = p2
    l1 = l1 l2 = l2 l3 = l3 None = None
    Target = {t1}
    Action = {drop, limit}
    OrderedAction = {drop, limit}
    StrongAction = {drop}
    Level = {"soft", "block"}
    Param = {p1, p2}
    LeaseId = {l1, l2, l3}
    TTL = {1}
    Prereq <- PrereqLimit
    MaxRenewals = 1
    Applier = {"tick", "proposal"}
    BlindPasses = FALSE
    MaxTime = 2
    MaxPepFaults = 0
    MaxStoreFaults = 0
    MaxRestarts = 0
SPECIFICATION Spec
SYMMETRY BrokerSymmetry
CHECK_DEADLOCK FALSE
INVARIANTS TypeOK NoWeakerBesideStronger EnforcementLeased OneActivePerTuple RenewalsBounded
