CONSTANTS
    u1 = u1  u2 = u2
    ca = ca  cb = cb  cc = cc
    n1 = n1  n2 = n2
    User = {u1, u2}
    Conn = {ca, cb, cc}
    Node = {n1, n2}
    UserOf <- MCUserOf
    Settings <- MCSettings
    MaxJoins = 3
    MaxFaults = 1
SPECIFICATION HuddleSpec
CHECK_DEADLOCK FALSE

    
PROPERTY MembershipHeals
