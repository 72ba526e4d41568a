SPECIFICATION Spec
CONSTANTS
    Binary = "app"
    TargetNamespace = "ns"
    TargetContainer = "app"
    Options <- MCOptions
    Startup <- MCStartup
    Syscalls = {"openat", "bind"}
    Merged = {"read", "write"}
    MaxFaults = 1
INVARIANTS
    ReplacementStartupCovered
    
    FailureLeavesNothing
    ImportedAuthorityOnly
    EvidenceReplays
PROPERTY CommandEnds
CHECK_DEADLOCK FALSE
