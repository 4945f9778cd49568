\* An order and two cancellations that may aim at it.
\* The system may stop: clients, the operator and the clock are bounded.
CONSTANTS
    p1 = p1  p2 = p2  o1 = o1  o2 = o2  k1 = k1  k2 = k2  f1 = f1
    real = real  test = test  NoName = NoName
    Notional <- NotionalOfEach
    MaxDaily <- DailyLimits
    Procs = {p1}
    OrderIds = {o1}
    CancelIds = {k1, k2}
    ForeignIds = {}
    Configs = {real}
    SubmitConfigs = {real}
    Exact <- OnlyItself
    Alike <- OnlyItself
    MaxPreflight = 0
    MatchSeconds = 1
    FutureSkew = 0
    MaxFlight = 1
    DayLength = 3
    MaxClock = 2
    MaxRegress = 0
    MaxReconciliations = 1
    MaxMarkers = 1
    MaxReleases = 0
SYMMETRY Symmetry
SPECIFICATION Spec
INVARIANTS
    CancelsDoNotOverlap
    AcceptanceIsTrue
CHECK_DEADLOCK FALSE
