SPECIFICATION Spec
CONSTANTS
    Appliers = {a1}
    s1 = s1
    s2 = s2
    s3 = s3
    d1 = d1
    d2 = d2
    Specs = {s1, s2}
    DigestOf <- MCDigestOf
    TargetOf <- MCTargetOf
    None = None
    Artifacts <- SeccompAndBinding
    BarePod = FALSE
    MaxConflictRetries = 1
    MaxProposalRV = 2
    MaxEdits = 1
    MaxFaults = 2
INVARIANTS
    TypeOK
    WritesAreRecorded
    AttemptsTruthful
    LateMutationBounded
CHECK_DEADLOCK FALSE
