SPECIFICATION PlansSpec
CONSTANTS
    Signals <- MCSignals
    Channels <- MCChannels
    Quotes = {0, 85, 91, 95, 105}
    FixedLots = {1, 7, 19}
    LotMin = 1
    LotMax = 20
    LotStep = 1
    Tolerances = {3, 5}
INVARIANTS SentBounded DeferredNeverRest
PROPERTY NeverShrinks
CHECK_DEADLOCK FALSE
