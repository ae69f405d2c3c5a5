SPECIFICATION FairSpec
CONSTANTS
    g1 = g1
    g2 = g2
    None = None
    Groups = {g1}
    MaxTickets = 2
    Prices = {2, 4}
    SignalSl <- OneStop
    ZoneSl <- ZoneStops
    SlMode <- SignalMode
    FixedPips = 1
    GroupTrailing <- TrailOne
    BeOnPartial <- Yes
    CloseStrategy <- CloseHighest
    ReplyLock = 1
    BeTrigger = 0
    BeLock = 0
    Trailing = 0
    TakeProfit <- Target
    PartialPercent = 0
    Lots = 1
    MaxDeferred = 1
    MaxOrders = 2
    MaxCrashes = 1
    MaxDbFaults = 1
INVARIANT RoutesAgree
INVARIANT TableMatchesGroups
INVARIANT RowStopNeverAhead
 
 
 
