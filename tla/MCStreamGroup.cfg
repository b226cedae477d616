SPECIFICATION Spec
CONSTANTS
    s1 = s1
    s2 = s2
    e1 = e1
    e2 = e2
    c1 = c1
    c2 = c2
    Stream = {s1}
    Entry = {e1, e2}
    StreamOf <- MCOneStream
    Garbled = {e2}
    Consumer = {c1, c2}
    MaxDeliveries = 2
    MaxFaults = 2
    MaxLapses = 1
INVARIANTS
    AckedIsAccountedFor WorkIsBounded
PROPERTY EventuallySettled
