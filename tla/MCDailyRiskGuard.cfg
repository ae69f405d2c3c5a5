CONSTANTS
    MaxTrades = 4
    MaxLoss = 3
    MaxStreak = 2
    Interval = 2
    DayLength = 4
    Losses = {0, 1, 2}
    MaxDeals = 4
    MaxCrashes = 1
SPECIFICATION FairSpec
INVARIANTS BlocksInTime
PROPERTIES LastsUntilMidnight BlockEnds
