---------------------------- MODULE MCTargetMonitor ----------------------------
(* Small instances of TargetMonitor for TLC.                                *)
EXTENDS TargetMonitor, TLC

PodSymmetry == Permutations(Pods)

==============================================================================
