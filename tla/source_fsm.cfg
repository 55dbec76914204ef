SPECIFICATION FairSpec
CONSTANTS
    Profiles <- MCProfiles
    Scopes <- MCScopes
    Severities = {0, 1, 2, 3}
    Drops = {0, 1}
    Credits = {1}
    MaxStrikes = 5
    MaxStreak = 3
CHECK_DEADLOCK FALSE
INVARIANT TypeOK
PROPERTIES EscalationEarned BlockRunsItsTime LimitedSourceRecovers
