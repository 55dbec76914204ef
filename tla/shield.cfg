SPECIFICATION Spec
CONSTANTS
    c1 = c1
    c2 = c2
    s1 = s1
    s2 = s2
    s3 = s3
    None = None
    NSEC = 3
    U64 = 64
    CPU = {c1, c2}
    Source = {s1, s2, s3}
    V4 = {s1, s3}
    Port = {1}
    Cidr <- MCCidr
    Limits <- MCLimits
    Scopes <- MCScopes
    MaxRate = 2
    MaxBurst = 2
    StateCapacity = 1
SYMMETRY CpuSymmetry
CHECK_DEADLOCK FALSE
INVARIANTS
    TypeOK
    DroppedHasCause
    PassedIsPermitted
    ChargedWhenLimited
    RateHonoured
    TokensCapped
PROPERTY RefusedOnlyOverLimit
