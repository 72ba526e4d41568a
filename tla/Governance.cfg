SPECIFICATION Spec
CONSTANTS
  p1 = p1
  p2 = p2
  Procs = {p1, p2}
  Candidates = {"c1"}
  Contexts = {"x", "y"}
  MaxVerifications = 1
  MaxOps = 4
  MaxEdits = 1
  MaxFaults = 1
SYMMETRY Symmetry
CHECK_DEADLOCK FALSE
INVARIANTS
  GateAcceptsOnlySeen
  
  LeftoverPodsAreUnknown
PROPERTY DecisionsAreKept
