----------------------- MODULE MCObservationExecution -------------------------
(* Small instances of ObservationExecution for TLC.                         *)
EXTENDS ObservationExecution, TLC

\* Processes, operators and observations are interchangeable in every safety
\* property: none of them is singled out by name.
WriterSymmetry == Permutations(Executors) \cup Permutations(Requesters)
InstanceSymmetry == Permutations(Executors) \cup Permutations(Observations)

==============================================================================
