SPECIFICATION Spec
CONSTANTS
    p1 = p1
    p2 = p2
    Publisher = {p1, p2}
    Ring = {3}
    ReplayMax = 2
    MaxId = 3
    MaxLost = 1
    MaxTrims = 1
    MaxOutages = 1
INVARIANTS
    ResumeSafety
PROPERTY CatchesUp
CHECK_DEADLOCK FALSE
