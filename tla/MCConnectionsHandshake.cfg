SPECIFICATION Safe
CONSTANTS
    c1 = c1
    c2 = c2
    u1 = u1
    Conn = {c1}
    User = {u1}
    UserOf <- MCUserOf
    Spared = {}
    Consumer = consumer
    Cap = 2
    MaxSends = 0
INVARIANTS
    RevokedIsClosed
CHECK_DEADLOCK FALSE
