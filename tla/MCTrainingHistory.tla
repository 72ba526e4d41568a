--------------------------- MODULE MCTrainingHistory ---------------------------
(* Instances of TrainingHistory for TLC: two callers present the facts of   *)
(* one observation in different orders, a third presents other facts.       *)
EXTENDS TrainingHistory, TLC

CONSTANTS c1, c2, c3, o1, f1, x1

Job(facts) == [obs |-> o1, scope |-> "BINARY", state |-> "COMPLETED", facts |-> facts]
SameAndOther == (c1 :> Job(<<f1, x1>>)) @@ (c2 :> Job(<<f1, f1>>)) @@ (c3 :> Job(<<>>))
=============================================================================
