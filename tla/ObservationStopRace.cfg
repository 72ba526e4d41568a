CONSTANTS
    Observations = {o1}
    Executors = {e1}
    Requesters = {q1}
    Nobody = Nobody
    MaxFaults = 0
    MaxRenewals = 0
    Stalls = FALSE
SPECIFICATION Spec
INVARIANTS StopEndsInFinalization
CHECK_DEADLOCK FALSE
