SPECIFICATION FairSpec
CONSTANTS
    s1 = s1
    s2 = s2
    s3 = s3
    c1 = c1
    c2 = c2
    e1 = e1
    e2 = e2
    CPU = {c1, c2}
    Source = {s1, s2, s3}
    V4 = {s1}
    Packets <- MCPackets
    Slot = {e1, e2}
    None = None
    Scopes <- MCScopes
    U64 = 64
CHECK_DEADLOCK FALSE
INVARIANTS
    TypeOK
    CountersBounded
    RatesReal
PROPERTY FlowsDrain
