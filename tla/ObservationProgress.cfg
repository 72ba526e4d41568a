CONSTANTS
    Observations = {o1}
    Executors = {e1, e2}
    Requesters = {q1}
    Nobody = Nobody
    MaxFaults = 1
    MaxRenewals = 1
    Stalls = FALSE
SPECIFICATION FairSpec
INVARIANT HealthyRunsAreNotLost
PROPERTIES EventuallyTerminal
CHECK_DEADLOCK FALSE
