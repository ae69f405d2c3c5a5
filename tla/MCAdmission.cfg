SPECIFICATION Spec
CONSTANTS
    m1 = m1
    m2 = m2
    gold = gold
    silver = silver
    None = None
    Messages <- MCMessages
    Texts <- MCTexts
    Symbol <- MCSymbol
    Peers <- MCPeers
    Ttl = 2
    MaxOpen = 2
    MaxSame = 1
    MaxCorrelated = 1
    Entries = 1
    MaxTime = 2
    MaxOrders = 3
    MaxDeliveries = 3
    MaxFaults = 1
SYMMETRY MCSymmetry
INVARIANTS OncePerWindow  
CHECK_DEADLOCK FALSE
