SPECIFICATION Spec
CONSTANTS
    AppEvent = {e1, e2}
    Poster = {p1, p2}
    MaxSends = 2
    MaxSwitches = 1
    Caller = {u1, u2}
    Scribe = {k1, k2}
    MaxEntries = 4
    MaxBatch = 2
    MaxLogFaults = 1
    Runner = {r1, r2}
    StepKinds <- MCStepKinds
    MaxLapses = 1
    MaxRevisions = 1
    MaxRunFaults = 1
INVARIANTS
     CallLogSafety WorkflowSafety
 
CHECK_DEADLOCK FALSE
