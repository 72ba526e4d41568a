--------------------------- MODULE MCGovernedApply ---------------------------
(* Instances of GovernedApply for TLC.  Two specs share their artifacts and *)
(* differ in the canonical target, which the v1 candidate digest leaves     *)
(* out; the third renders other artifacts.                                  *)
EXTENDS GovernedApply, TLC

CONSTANTS s1, s2, s3, d1, d2

MCDigestOf == (s1 :> d1) @@ (s2 :> d1) @@ (s3 :> d2)
MCTargetOf == (s1 :> "t1") @@ (s2 :> "t2") @@ (s3 :> "t1")
SeccompAndBinding == {"spo-seccompprofile", "patched-manifest"}
PodLockAndBinding == {"podlock", "networkpolicy", "patched-manifest"}
Symmetry == Permutations(Appliers)
=============================================================================
