SPECIFICATION FairSpec
CONSTANTS
    Profiles <- MCProfiles
    Scopes <- ManualScopes
    Severities = {0, 1, 2, 3}
    Drops = {0, 1}
    Credits = {1}
    MaxStrikes = 5
    MaxStreak = 3
CHECK_DEADLOCK FALSE
PROPERTY QuietSourceReleased
