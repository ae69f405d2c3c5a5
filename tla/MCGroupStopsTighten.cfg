SPECIFICATION Spec
CONSTANTS
    g1 = g1
    g2 = g2
    None = None
    Groups = {g1}
    MaxTickets = 2
    Prices = {2, 3, 4}
    SignalSl <- OneStop
    ZoneSl <- ZoneStops
    SlMode <- SignalMode
    FixedPips = 1
    GroupTrailing <- TrailTwo
    BeOnPartial <- Yes
    CloseStrategy <- CloseHighest
    ReplyLock = 1
    BeTrigger = 0
    BeLock = 0
    Trailing = 0
    TakeProfit <- Target
    PartialPercent = 0
    Lots = 1
    MaxDeferred = 1
    MaxOrders = 2
    MaxCrashes = 0
    MaxDbFaults = 0
PROPERTY GroupStopsTighten
