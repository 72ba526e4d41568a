SPECIFICATION FairSpec
CONSTANTS
    Appliers = {a1}
    s1 = s1
    s2 = s2
    s3 = s3
    d1 = d1
    d2 = d2
    Specs = {s1}
    DigestOf <- MCDigestOf
    TargetOf <- MCTargetOf
    None = None
    Artifacts <- PodLockAndBinding
    BarePod = TRUE
    MaxConflictRetries = 1
    MaxProposalRV = 1
    MaxEdits = 1
    MaxFaults = 2
INVARIANTS
    OutcomeTruthful
PROPERTIES EveryRunEnds DependencyOrder
CHECK_DEADLOCK FALSE
