------------------------- MODULE ObservationLifecycle -------------------------
(***************************************************************************)
(* What the durable Observation record promises, with nobody's stale reads *)
(* in sight: every write is one atomic, legal domain step of the CURRENT   *)
(* record.  ObservationExecution, where every writer reads, computes and   *)
(* then compares-and-sets, is shown to implement this specification.       *)
(***************************************************************************)
EXTENDS Observation

CONSTANT Observations

VARIABLES
    rec,        \* rec[o]: the persisted document of observation o
    expired     \* expired[o]: the lease of o's claim has run out

vars == <<rec, expired>>

Init ==
    /\ rec = [o \in Observations |-> Absent]
    /\ expired = [o \in Observations |-> FALSE]

Write(o, d) == rec' = [rec EXCEPT ![o] = d]

\* A claim is held and the record may still change.
Held(o) == rec[o].claim # NoClaim /\ ~Frozen(rec[o])

------------------------------------------------------------------------------

Create(o) ==
    /\ rec[o].state = "ABSENT"
    /\ Write(o, NewObservation)
    /\ UNCHANGED expired

Acquire(o, e) ==
    /\ rec[o].state = "REQUESTED"
    /\ rec[o].claim = NoClaim
    /\ Write(o, Claimed(rec[o], e))
    /\ expired' = [expired EXCEPT ![o] = FALSE]

\* Stop is intent, never a lifecycle transition, and is recorded once.
Stop(o) ==
    /\ CanRequestStop(rec[o])
    /\ ~rec[o].stop.requested
    /\ Write(o, RequestStop(rec[o]))
    /\ UNCHANGED expired

BindTargets(o) ==
    /\ rec[o].state = "STARTING" /\ ~rec[o].bound
    /\ Write(o, Bind(rec[o]))
    /\ UNCHANGED expired

Run(o) ==
    /\ rec[o].state = "STARTING" /\ rec[o].bound
    /\ Write(o, Transition(rec[o], "RUNNING", None))
    /\ UNCHANGED expired

Diagnose(o, stage) ==
    /\ rec[o].state = "STARTING"
    /\ Write(o, RecordFailure(rec[o], stage))
    /\ UNCHANGED expired

Fail(o) ==
    /\ rec[o].state = "STARTING" /\ rec[o].failure # None
    /\ Write(o, Transition(rec[o], "FAILED", "BACKEND_FAILURE"))
    /\ UNCHANGED expired

\* Results exist only for a window that was opened, and are not revised.
Record(o, attribution, changed) ==
    /\ rec[o].state \in {"RUNNING", "COMPLETING"} /\ rec[o].started
    /\ rec[o].result \in {None, attribution}
    /\ rec[o].state = "COMPLETING" => ~changed
    /\ Write(o, RecordSourceResult(AppendTargetChange(rec[o], changed), attribution))
    /\ UNCHANGED expired

\* Finalization starts with results in hand, or because a stop was requested.
Finish(o) ==
    /\ rec[o].state \in {"STARTING", "RUNNING"}
    /\ rec[o].stop.requested \/ (rec[o].state = "RUNNING" /\ rec[o].result # None)
    /\ Write(o, Transition(rec[o], "COMPLETING", None))
    /\ UNCHANGED expired

\* A completion reason states no more than the recorded evidence supports.
Supported(d, reason) ==
    \/ reason = "STOPPED_BY_REQUEST" /\ (d.stop.requested \/ d.result = "COMPLETED")
    \/ reason = "BACKEND_FAILURE" /\ d.result = "FAILED"
    \/ reason = "COMPLETED" /\ d.result = "COMPLETED"
    \/ reason \in TargetReasons /\ d.result = "COMPLETED" /\ d.changes

Complete(o, reason) ==
    /\ rec[o].state = "COMPLETING"
    /\ Supported(rec[o], reason)
    /\ Write(o, Transition(rec[o], "COMPLETED", reason))
    /\ UNCHANGED expired

Renew(o) == Held(o) /\ expired' = [expired EXCEPT ![o] = FALSE] /\ UNCHANGED rec
Expire(o) == Held(o) /\ expired' = [expired EXCEPT ![o] = TRUE] /\ UNCHANGED rec

\* Recovery transfers no authority: it only closes an expired claim's record.
Lose(o) ==
    /\ Held(o) /\ expired[o]
    /\ Write(o, ExecutorLost(rec[o]))
    /\ UNCHANGED expired

Next ==
    \E o \in Observations :
        \/ Create(o) \/ Stop(o) \/ BindTargets(o) \/ Run(o) \/ Fail(o) \/ Finish(o)
        \/ Renew(o) \/ Expire(o) \/ Lose(o)
        \/ \E e \in Executors : Acquire(o, e)
        \/ \E stage \in {"TARGET_BINDING", "GADGET_ATTACH"} : Diagnose(o, stage)
        \/ \E a \in AttributionState, c \in BOOLEAN : Record(o, a, c)
        \/ \E reason \in CompletionReason : Complete(o, reason)

Spec == Init /\ [][Next]_vars

==============================================================================
