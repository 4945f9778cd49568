\* Two runs of one name, the second with its name given; one edit of each file.
\* A run ends, and then nothing happens.
CONSTANTS
    r1 = r1
    r2 = r2
    t1 = t1
    t2 = t2
    n1 = n1
    Runs = {r1, r2}
    Names = {n1}
    BaseOf <- SameName
    Explicit = {r2}
    Target <- BothEnds
    Texts = {t1, t2}
    Source <- Mixed
    BatchSize = 1
    MaxEdits = 1
    Faults <- EveryFault
SPECIFICATION Spec
INVARIANTS
    OwnDirectories
    FinalManifestHolds
    CapturedIsUsed
    CompleteRunsAgree
    GenerationsAreKept
CHECK_DEADLOCK FALSE
