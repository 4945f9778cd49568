\* Two orders, each under either of two configs with different limits, filled at
\* any time, and a clock that steps back once.
\* The system may stop: clients and the clock are bounded.
CONSTANTS
    p1 = p1  o1 = o1  o2 = o2  f1 = f1
    real = real  test = test  NoName = NoName
    Notional <- NotionalOfEach
    MaxDaily <- DailyLimits
    Quantity <- QuantityOfEach
    Holding = 0
    MaxPosition <- PositionLimits
    MaxOpen <- OpenLimits
    Procs = {p1}
    OrderIds = {o1, o2}
    CancelIds = {}
    ForeignIds = {}
    Configs = {real, test}
    SubmitConfigs = {real, test}
    Exact <- OnlyItself
    Alike <- OnlyItself
    MaxPreflight = 1
    MatchSeconds = 2
    FutureSkew = 0
    MaxFlight = 1
    DayLength = 3
    MaxClock = 3
    MaxRegress = 1
    MaxReconciliations = 1
    MaxMarkers = 0
    MaxReleases = 0
SYMMETRY Symmetry
SPECIFICATION AccountSpec
INVARIANTS
    SentOnceAfterAttempt
    OneOrderOutstanding
    DailyExposureWithinLimit
PROPERTIES
    OrdersFitTheAccount
CHECK_DEADLOCK FALSE
