SPECIFICATION RSpec
CONSTANTS
    Appliers = {a1}
    Rollbackers = {b1, b2}
    s1 = s1
    d1 = d1
    Specs = {s1}
    DigestOf <- MCDigestOf
    TargetOf <- MCTargetOf
    None = None
    Artifacts <- PodLockAndBinding
    BarePod = FALSE
    MaxConflictRetries = 0
    MaxProposalRV = 1
    MaxEdits = 1
    MaxFaults = 1
    MaxEpoch = 1
INVARIANTS
    RollbackTruthful
PROPERTIES
    InvertsOnlyOwn
    PoliciesGoLast
CONSTRAINT OneDisturbance
SYMMETRY Symmetry
CHECK_DEADLOCK FALSE
