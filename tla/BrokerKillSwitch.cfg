\* Two processes, one order and a foreign one of the same symbol and side, two
\* engagements and one release; the clock steps back once.
\* The system may stop: clients, the operator and the clock are bounded.
CONSTANTS
    p1 = p1  p2 = p2  o1 = o1  o2 = o2  k1 = k1  k2 = k2  f1 = f1
    real = real  test = test  NoName = NoName
    Notional <- NotionalOfEach
    MaxDaily <- DailyLimits
    Procs = {p1, p2}
    OrderIds = {o1}
    CancelIds = {}
    ForeignIds = {f1}
    Configs = {real}
    SubmitConfigs = {real}
    Exact <- OnlyItself
    Alike <- AllAlike
    MaxPreflight = 0
    MatchSeconds = 2
    FutureSkew = 0
    MaxFlight = 1
    DayLength = 3
    MaxClock = 2
    MaxRegress = 1
    MaxReconciliations = 1
    MaxMarkers = 2
    MaxReleases = 1
SYMMETRY Symmetry
SPECIFICATION Spec
INVARIANTS
    RejectionIsTrue
PROPERTIES
    KeepsLifecycle
    KillSwitchBlocksOrders
    ReleaseIsSafe
    EngagementOverlapsNoMutation
    TornLedgerBlocksMutations
CHECK_DEADLOCK FALSE
