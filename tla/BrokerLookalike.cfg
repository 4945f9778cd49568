\* Two orders with the same fields, and orders placed outside the adapter.
\* The system may stop: clients, the operator and the clock are bounded.
CONSTANTS
    p1 = p1  p2 = p2  o1 = o1  o2 = o2  k1 = k1  k2 = k2  f1 = f1
    real = real  test = test  NoName = NoName
    Notional <- NotionalOfEach
    MaxDaily <- DailyLimits
    Procs = {p1}
    OrderIds = {o1, o2}
    CancelIds = {}
    ForeignIds = {f1}
    Configs = {real}
    SubmitConfigs = {real}
    Exact <- AllAlike
    Alike <- AllAlike
    MaxPreflight = 0
    MatchSeconds = 1
    FutureSkew = 0
    MaxFlight = 1
    DayLength = 3
    MaxClock = 2
    MaxRegress = 0
    MaxReconciliations = 1
    MaxMarkers = 0
    MaxReleases = 0
SYMMETRY Symmetry
SPECIFICATION Spec
INVARIANTS
    MatchStartsAtAttempt
CHECK_DEADLOCK FALSE
