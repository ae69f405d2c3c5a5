CONSTANTS
    Threshold = 3
    Cooldown = 2
    MaxPlans = 4
    MaxFailures = 8
SPECIFICATION FairSpec
INVARIANTS SpillBounded PauseNotProlonged
PROPERTIES OpensOnStreakOnly PauseEnds
