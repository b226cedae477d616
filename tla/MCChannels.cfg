SPECIFICATION Spec
CONSTANTS
    Ws = w
    Channel = {c1}
    Default = {}
    Conversation = {c1}
    Socket = {k1}
    Request = {a1}
    MaxRemovals = 2
    MaxDrops = 1
    Message = {1, 2, 3}
    Deleter = {d1, d2}
    Budgets <- MCBudgets
    None = none
    l1 = l1
    l2 = l2
    n1 = n1
    n2 = n2
    Link = {l1, l2}
    Node = {n1, n2}
    Placements <- MCPlacements
    PresenceBudgets <- MCPresenceBudgets
INVARIANTS
      PresenceSafety
 
CHECK_DEADLOCK FALSE
