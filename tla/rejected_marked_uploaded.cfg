\* An explicit refusal of a whole batch.
CONSTANTS
    r1 = r1 r2 = r2 r3 = r3 r4 = r4
    Receipt = {r1, r2, r3}
    Rejects = {r3}
    BatchSize = 2
    Retention = 1
    MaxTime = 2
    MaxStoreFaults = 1
    MaxRestarts = 1
SPECIFICATION Spec
CHECK_DEADLOCK FALSE
INVARIANTS UploadedIsAccepted
