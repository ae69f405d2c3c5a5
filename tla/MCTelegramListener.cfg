SPECIFICATION FairSpec
CONSTANTS
    MaxRetries = 3
    MaxResets = 3
INVARIANT ClientsBounded
PROPERTY ListensOrEnds
CHECK_DEADLOCK FALSE
