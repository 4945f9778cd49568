\* Two assets, six kinds of market rows, two events or one round trip.
\* A book that refused, whose ledger is torn or whose events are used up stops.
SPECIFICATION Spec
CONSTANTS
    a = a
    b = b
    Assets = {a, b}
    SectorOf <- OneSector
    BetaOf <- Betas
    Users = {"paper", "intents", "backtest"}
    Limits <- SmallLimits
    Buffer <- Tenth
    Horizons = {1, 2}
    CostRate <- Tenth
    RowsOf <- MarketRows
    Wishes <- Weights
    Returns <- Moves
    MaxTime = 1
    MaxEvents = 2
    Faults <- AnyFault
INVARIANTS FlatBookIsReached OnlyVolumeRefuses BufferSuffices BookIsPersisted
PROPERTIES IneligibleOnlyUnwinds
CHECK_DEADLOCK FALSE
