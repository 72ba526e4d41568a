SPECIFICATION FairSpec
CONSTANTS
    c1 = c1
    c2 = c2
    c3 = c3
    o1 = o1
    f1 = f1
    x1 = x1
    Facts = {f1, x1}
    Exec = {x1}
    Images = {"sha256"}
    Observations = {o1}
    Callers = {c1, c2, c3}
    JobOf <- SameAndOther
    Tracers = {t1}
    MaxReads = 2
    MaxAttempts = 2
    MaxProvenance = 2
    MaxMarkers = 2
    MaxRuns = 2
    MaxFaults = 1
INVARIANTS
    NothingLost
    AppliedExactlyOnce
    ConfidenceEarned
 
CHECK_DEADLOCK FALSE
