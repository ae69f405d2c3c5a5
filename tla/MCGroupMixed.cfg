SPECIFICATION Spec
CONSTANTS
    g1 = g1
    g2 = g2
    None = None
    Groups = {g1, g2}
    MaxTickets = 2
    Prices = {2, 3}
    SignalSl <- OneStop
    ZoneSl <- ZoneStops
    SlMode <- MixedMode
    FixedPips = 1
    GroupTrailing <- MixedTrailing
    BeOnPartial <- Yes
    CloseStrategy <- MixedStrategy
    ReplyLock = 1
    BeTrigger = 1
    BeLock = 0
    Trailing = 1
    TakeProfit <- Target
    PartialPercent = 50
    Lots = 2
    MaxDeferred = 1
    MaxOrders = 1
    MaxCrashes = 0
    MaxDbFaults = 0
INVARIANT TypeOK
INVARIANT RoutesAgree
 
