\* Four receipts, two of which Forge never accepts: with batches of two they can
\* fill the batch ahead of an acceptable one.
CONSTANTS
    r1 = r1 r2 = r2 r3 = r3 r4 = r4
    Receipt = {r1, r2, r3, r4}
    Rejects = {r3, r4}
    BatchSize = 2
    Retention = 0
    MaxTime = 1
    MaxStoreFaults = 1
    MaxRestarts = 1
SPECIFICATION FairSpec
CHECK_DEADLOCK FALSE
INVARIANTS TypeOK NoReceiptLost
PROPERTIES QueueDrains
