CONSTANTS
    s1 = s1
    s2 = s2
    Signals = {s1}
    Levels = {0, 1, 2}
    Prices <- MCPrices
    Side <- MCSide
    LevelPrice <- MCLevelPrice
    StopLoss <- MCStopLoss
    Immediate <- MCImmediate
    Spread = 0
    SignalTtl = 2
    Debounce = 1
    Tolerance = 0
    MinSlDistance = 0
    MaxReentryDistance = 0
    DbFaultAt = {}
    MaxArrivals = 2
    MaxCrashes = 1
    MaxDbFaults = 0
    None = None
SPECIFICATION Spec
INVARIANTS TableNeverAhead OpenIsDurable TableMatchesMemory
PROPERTIES NoEntryOnSettledLevel TriggerNeedsCrossing DurableLifecycle
