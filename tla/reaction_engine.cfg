SPECIFICATION FairSpec
CONSTANTS
    flood = flood
    Rules = {flood}
    Threshold = 2
    Window = 2
    Tolerance = 1
    Counts = {0, 1, 2}
    Dedupe = 3
    AckTimeout = 1
    MaxTime = 3
    MaxDelay = 2
    MaxRestarts = 1
    Scopes <- MCScopes
CHECK_DEADLOCK FALSE
INVARIANTS TypeOK ActiveUntilOver
PROPERTIES DetectionsEarned AlertsSpaced OverdueEscalates DetectionAlerted
