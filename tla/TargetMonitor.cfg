CONSTANTS
    Pods = {p1, p2}
    Workloads = {w1, w2}
    Revisions = {}
    Images = {i1, i2}
    Unknown = Unknown
    Observed = w1
    Grace = 1
    MaxPolls = 4
SPECIFICATION Spec
SYMMETRY PodSymmetry
INVARIANTS HistoryReplays EndExplained
CHECK_DEADLOCK FALSE
