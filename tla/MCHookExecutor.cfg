SPECIFICATION MCSpec
CONSTANTS
    h1 = h1
    h2 = h2
    u1 = u1
    e1 = e1
    w1 = w1
    w2 = w2
    Hook = {h1, h2}
    User = {u1}
    Maker <- MCMaker
    Event = {e1}
    Messages = {e1}
    Worker = {w1, w2}
    MaxAttempts = 2
    MaxFaults = 1
    MaxTurns = 2
    Fetcher = {w1, w2}
    MaxAsked = 3
    MaxFlips = 1
    MaxPreviewFaults = 1
SYMMETRY ReplicaSymmetry
INVARIANTS
    CallsBounded ResultIsLastAnswer DispatchSafety PreviewSafety
PROPERTY FinalAnswerIsLast
CHECK_DEADLOCK FALSE
