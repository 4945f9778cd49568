\* Seven sessions, two assets, at most one late bar. A run ends.
CONSTANTS
    a1 = a1
    a2 = a2
    Assets = {a1, a2}
    Slowest = 7
    Delays <- SomeDelays
    MaxLate = 1
    Horizons = {1, 2}
    Embargoes = {0, 1}
    Periods = {1, 2}
    ScopeEnds = {3, 4}
    Cutoffs <- SomeCutoffs
    RevealEnds = {5, 6, 7}
    TextTimes <- SomeTexts
    Modes <- BothModes
SPECIFICATION Spec
INVARIANTS
    FeaturesAreKnown
    SnapshotsAreCausal
    HoldoutIsApart
    DevelopmentIsBlind
    ReplayKeepsPhase
CHECK_DEADLOCK FALSE
