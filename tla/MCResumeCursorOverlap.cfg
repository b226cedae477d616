SPECIFICATION Safe
CONSTANTS
    p1 = p1
    p2 = p2
    Publisher = {p1}
    Ring = {}
    ReplayMax = 2
    MaxId = 4
    MaxLost = 1
    MaxTrims = 0
    MaxOutages = 0
INVARIANTS
    OverlapIsHarmless
CHECK_DEADLOCK FALSE
