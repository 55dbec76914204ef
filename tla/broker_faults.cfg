\* Errors of the maps and of the journal, a restart into either mode, blind passes.
CONSTANTS
    t1 = t1 drop = drop limit = limit p1 = p1 p2 = p2
    l1 = l1 l2 = l2 l3 = l3 None = None
    Target = {t1}
    Action = {limit}
    OrderedAction = {limit}
    StrongAction = {}
    Level = {"soft", "hard"}
    Param = {p1}
    LeaseId = {l1, l2}
    TTL = {1}
    Prereq <- PrereqNone
    MaxRenewals = 1
    Applier = {"tick", "proposal"}
    BlindPasses = TRUE
    MaxTime = 1
    MaxPepFaults = 1
    MaxStoreFaults = 2
    MaxRestarts = 1
SPECIFICATION FairSpec
CHECK_DEADLOCK FALSE
INVARIANTS NoDryRunLeaseInRealMode
PROPERTIES LifecycleSpec ExpiredLeaseSettles ExpiredEnforcementEnds
