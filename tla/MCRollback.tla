------------------------------ MODULE MCRollback ------------------------------
(* Instances of Rollback for TLC.                                           *)
EXTENDS Rollback, TLC

CONSTANTS s1, d1

MCDigestOf == s1 :> d1
MCTargetOf == s1 :> "t1"
PodLockAndBinding == {"podlock", "patched-manifest"}
Symmetry == Permutations(Rollbackers)

\* Bound: one edit or one failing request, not both.
OneDisturbance == used.edits + used.faults =< 1
=============================================================================
