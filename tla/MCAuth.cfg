SPECIFICATION Spec
CONSTANTS
    Jti = {1, 2, 3}
    h1 = h1
    h2 = h2
    Handler = {h1, h2}
    MaxTime = 1
    MaxTrouble = 2
    MaxFaults = 1
    Request = {h1, h2}
    MaxTries = 2
    Skew = 1
    MaxStep = 2
    Budgets <- MCBudgets
    Account = {a1, a2}
    Replica = {h1, h2}
    MaxLinks = 2
    MaxTokens = 3
    MaxLosses = 1
SYMMETRY Symmetry
INVARIANTS
    SessionSafety CodeSafety ConnectionSafety
PROPERTY AuthSteps
CHECK_DEADLOCK FALSE
