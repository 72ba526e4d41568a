SPECIFICATION Spec
CONSTANTS
  p1 = p1
  p2 = p2
  Procs = {p1}
  Candidates = {"c1"}
  Contexts = {"x"}
  MaxVerifications = 1
  MaxOps = 3
  MaxEdits = 0
  MaxFaults = 0
CHECK_DEADLOCK FALSE
INVARIANT ReplicaIsVerifiable
