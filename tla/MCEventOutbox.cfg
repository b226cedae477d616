SPECIFICATION Spec
CONSTANTS
    q1 = q1
    r1 = r1
    r2 = r2
    Event <- MCEvent
    Durable <- MCDurable
    Request <- MCRequest
    Relay <- MCRelay
    EventsOf <- MCEventsOf
    Batch = 1
    MaxFaults = 1
    MaxLapses = 1
INVARIANTS
    PublishedIsEmitted EmissionIsBounded
PROPERTY ImplementsAtLeastOnce
