CONSTANTS
    Observations = {o1}
    Executors = {e1, e2}
    Requesters = {q1, q2}
    Nobody = Nobody
    MaxFaults = 1
    MaxRenewals = 1
    Stalls = TRUE
SPECIFICATION Spec
SYMMETRY WriterSymmetry
INVARIANTS TypeOK BeliefsHold 
PROPERTIES RecordKept ImplementsLifecycle
CHECK_DEADLOCK FALSE
