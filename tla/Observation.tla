----------------------------- MODULE Observation -----------------------------
(***************************************************************************)
(* The Observation aggregate of internal/observation/domain: the durable   *)
(* document an executor, an operator and the recovery scan all write, and  *)
(* the domain operations that compute one document from another.           *)
(*                                                                         *)
(* Data kept: everything a transition reads or a property tells apart.     *)
(* Data abstracted: timestamps are the flag "was it set"; the per-source   *)
(* results of one write are the worst attribution among them; the target   *)
(* history is the flag "some change was appended"; provenance is sealed    *)
(* exactly when the document becomes terminal, so it has no field.         *)
(***************************************************************************)
EXTENDS Naturals

CONSTANTS
    Executors,  \* identities of executor processes (NewExecutorID: one per process)
    Nobody      \* the empty executor identity

ASSUME NobodyAssumption == Nobody \notin Executors

ExecutionState ==
    {"REQUESTED", "STARTING", "RUNNING", "COMPLETING", "COMPLETED", "FAILED"}

TargetReasons == {"TARGET_REVISION_CHANGED", "TARGET_UNAVAILABLE"}

CompletionReason ==
    {"COMPLETED", "STOPPED_BY_REQUEST", "EXECUTOR_LOST", "BACKEND_FAILURE"}
        \cup TargetReasons

\* The empty string of the code: no completion, no failure, no result yet.
None == "NONE"

FailureStage == {"TARGET_BINDING", "GADGET_ATTACH", "EXECUTOR_LOSS"}
AttributionState == {"COMPLETED", "FAILED"}

NoClaim == [executor |-> Nobody, generation |-> 0]
Claim == [executor : Executors \cup {Nobody}, generation : Nat]

\* A StopIntent is nil or carries the claim that was current when it was made.
NoStop == [requested |-> FALSE, fence |-> NoClaim]
StopIntent == [requested : BOOLEAN, fence : Claim]

Document ==
    [state : ExecutionState \cup {"ABSENT"}, completion : CompletionReason \cup {None},
     started : BOOLEAN, stop : StopIntent, failure : FailureStage \cup {None},
     bound : BOOLEAN, changes : BOOLEAN, result : AttributionState \cup {None},
     claim : Claim]

Absent ==
    [state |-> "ABSENT", completion |-> None, started |-> FALSE, stop |-> NoStop,
     failure |-> None, bound |-> FALSE, changes |-> FALSE, result |-> None,
     claim |-> NoClaim]

NewObservation == [Absent EXCEPT !.state = "REQUESTED"]

Terminal == {"COMPLETED", "FAILED"}
Frozen(d) == d.state \in Terminal

validExecutionTransition(from, to) ==
    \/ from = "REQUESTED"  /\ to = "STARTING"
    \/ from = "STARTING"   /\ to \in {"RUNNING", "COMPLETING", "FAILED"}
    \/ from = "RUNNING"    /\ to = "COMPLETING"
    \/ from = "COMPLETING" /\ to \in Terminal

\* Broken variant: the completion is taken from the state argument.
TransitionSwapped(d, next, reason) ==
    [d EXCEPT !.state = next,
              !.started = @ \/ next = "RUNNING",
              !.completion = IF next \in Terminal THEN next ELSE @]

Transition(d, next, reason) ==
    [d EXCEPT !.state = next,
              !.started = @ \/ next = "RUNNING",
              !.completion = IF next \in Terminal THEN reason ELSE @]

Bind(d) == [d EXCEPT !.bound = TRUE]

RecordFailure(d, stage) == [d EXCEPT !.failure = stage]

RecordSourceResult(d, attribution) == [d EXCEPT !.result = attribution]

AppendTargetChange(d, changed) == [d EXCEPT !.changes = @ \/ changed]

CanRequestStop(d) == d.state \in {"REQUESTED", "STARTING", "RUNNING"}

\* An intent made before any claim carries the empty claim: it is unbound.
RequestStop(d) ==
    [d EXCEPT !.stop = [requested |-> TRUE, fence |-> d.claim]]

\* ClaimObservation's document: STARTING under a new, first generation.
Claimed(d, e) ==
    [Transition(d, "STARTING", None) EXCEPT
        !.claim = [executor |-> e, generation |-> d.claim.generation + 1]]

\* TerminalizeExecutorLost's document.  It does not go through Transition:
\* the recovery path leaves the graph of validExecutionTransition.
ExecutorLost(d) ==
    [d EXCEPT !.state = "FAILED", !.completion = "EXECUTOR_LOST",
              !.failure = "EXECUTOR_LOSS"]

==============================================================================
