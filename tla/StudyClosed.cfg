SPECIFICATION Spec
CONSTANTS
    p1 = p1
    p2 = p2
    s1 = s1
    s2 = s2
    h1 = h1
    h2 = h2
    h3 = h3
    c1 = c1
    c2 = c2
    NoName = NoName
    Procs = {p1, p2}
    Studies = {s1}
    Holdouts = {h1}
    Overlap <- SomeOverlap
    Sessions = {c1}
    Budget = 1
    Commands <- Proposals
    Faults <- NoFault
    MaxRuns = 0
SYMMETRY Symmetry
PROPERTIES ClosedStudiesStay
