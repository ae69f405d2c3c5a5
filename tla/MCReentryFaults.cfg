CONSTANTS
    s1 = s1
    s2 = s2
    Signals = {s1}
    Levels = {0, 1}
    Prices = {0, 2, 4}
    Side <- MCSide
    LevelPrice <- MCLevelPrice
    StopLoss <- MCStopLoss
    Immediate <- MCImmediate
    Spread = 0
    SignalTtl = 1
    Debounce = 1
    Tolerance = 0
    MinSlDistance = 0
    MaxReentryDistance = 1
    DbFaultAt = {"order", "register", "plans", "status", "expire"}
    MaxArrivals = 2
    MaxCrashes = 1
    MaxDbFaults = 1
    None = None
SPECIFICATION FairSpec
 
PROPERTIES RowCloses RegistryDrains
