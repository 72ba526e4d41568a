----------------------------- MODULE TargetMonitor -----------------------------
(***************************************************************************)
(* The polling target monitor of a running observation: it resolves the    *)
(* workload's Pods on every tick, compares the snapshot with the previous  *)
(* one, and hands the decision to the Runner over a channel of capacity    *)
(* one that drops when full.  The Runner appends the events to the target  *)
(* history and ends its window on a terminal decision.                     *)
(*                                                                         *)
(* A snapshot maps Pod UIDs to what was resolved for the observed          *)
(* container: the workload UID owning the Pod, its revision and its image  *)
(* digest, each possibly unknown.                                          *)
(***************************************************************************)
EXTENDS Naturals, Sequences, FiniteSets

CONSTANTS
    Pods,           \* Pod UIDs
    Workloads,      \* UIDs that workloads of the observed name have had
    Revisions, Images,
    Unknown,        \* a revision or digest that was not established
    Observed,       \* the workload UID the observation was requested for
    Grace,          \* ticks of absence that are tolerated
    MaxPolls        \* bound: ticks of the monitor

ASSUME MonitorAssumption ==
    /\ Observed \in Workloads
    /\ Unknown \notin Revisions \cup Images
    /\ Unknown \notin {"COMPLETED", "TARGET_REVISION_CHANGED", "TARGET_UNAVAILABLE"}
    /\ Grace \in Nat /\ MaxPolls \in Nat

Target == [workload : Workloads, revision : Revisions \cup {Unknown},
           image : Images \cup {Unknown}]

VARIABLES
    cluster,    \* Running Pods of the workload name, as the API server has them
    initial,    \* the snapshot bound when the observation started
    previous,   \* the monitor's last snapshot
    absent,     \* ticks since absentSince, counting that tick; 0 when unset
    polls,      \* ticks so far
    decisions,  \* the channel between monitor and Runner
    dropped,    \* the channel was full when a decision was emitted
    history,    \* decisions whose events the Runner has taken
    reason      \* why the window ended, Unknown while it is open

vars == <<cluster, initial, previous, absent, polls, decisions, dropped, history, reason>>

Empty == [p \in {} |-> Unknown]
KeepOnly(s, S) == [p \in S |-> s[p]]

\* ResolveObservationTargets keeps the Running Pods of the very workload that
\* was requested, UID included; Pods that fail to resolve are skipped.
Resolve(pods, skipped) ==
    KeepOnly(pods, {p \in DOMAIN pods \ skipped : pods[p].workload = Observed})

------------------------------------------------------------------------------
(* CompareObservationTargets                                                *)

Changed(old, new) == old # Unknown /\ new # Unknown /\ old # new

\* observationTargetKey: the same Pod under the same workload UID.
Kept(prev, cur) ==
    {p \in DOMAIN prev \cap DOMAIN cur : prev[p].workload = cur[p].workload}

Recreated(prev, cur, p) ==
    \E q \in DOMAIN cur : cur[q].workload # prev[p].workload

\* One event per Pod that went, came, or changed in place; a revision change
\* hides an image change of the same Pod.
Events(prev, cur) ==
    LET kept == Kept(prev, cur)
        gone == DOMAIN prev \ kept
        revised == {p \in kept : Changed(prev[p].revision, cur[p].revision)}
        repulled == {p \in kept \ revised : Changed(prev[p].image, cur[p].image)}
        recreated == {p \in gone : Recreated(prev, cur, p)}
    IN  [kind : {"WORKLOAD_REVISION_CHANGED"}, pod : revised \cup recreated]
        \cup [kind : {"IMAGE_CHANGED"}, pod : repulled]
        \cup [kind : {"POD_REMOVED"}, pod : gone \ recreated]
        \cup [kind : {"POD_ADDED"}, pod : DOMAIN cur \ kept]

BoundaryKinds == {"WORKLOAD_REVISION_CHANGED", "IMAGE_CHANGED"}

\* Broken variant: losing any Pod counts as losing the target.
StopReasonOnAnyLoss(prev, cur) ==
    IF \E event \in Events(prev, cur) : event.kind \in BoundaryKinds
        THEN "TARGET_REVISION_CHANGED"
    ELSE IF DOMAIN prev \ DOMAIN cur # {} THEN "TARGET_UNAVAILABLE"
    ELSE Unknown

StopReason(prev, cur) ==
    IF \E event \in Events(prev, cur) : event.kind \in BoundaryKinds
        THEN "TARGET_REVISION_CHANGED"
    ELSE IF DOMAIN cur = {} /\ DOMAIN prev # {} THEN "TARGET_UNAVAILABLE"
    ELSE Unknown

CompareObservationTargets(prev, cur) ==
    [events |-> Events(prev, cur), reason |-> StopReason(prev, cur)]

------------------------------------------------------------------------------

Init ==
    /\ \E S \in (SUBSET Pods) \ {{}}, t \in Target :
        t.workload = Observed /\ cluster = [p \in S |-> t]
    /\ initial = cluster /\ previous = cluster
    /\ absent = 0 /\ polls = 0
    /\ decisions = <<>> /\ dropped = FALSE /\ history = <<>>
    /\ reason = Unknown

\* The cluster moves on between ticks: Pods of this name come, go and restart.
\* Nobody looks at it any more once the window is closed.
PodAppears(p, t) ==
    /\ reason = Unknown
    /\ p \notin DOMAIN cluster
    /\ cluster' = [q \in DOMAIN cluster \cup {p} |-> IF q = p THEN t ELSE cluster[q]]
    /\ UNCHANGED <<initial, previous, absent, polls, decisions, dropped, history, reason>>

PodDisappears(p) ==
    /\ reason = Unknown
    /\ p \in DOMAIN cluster
    /\ cluster' = KeepOnly(cluster, DOMAIN cluster \ {p})
    /\ UNCHANGED <<initial, previous, absent, polls, decisions, dropped, history, reason>>

\* A restart pulls another image or clears the digest; a rollback renumbers
\* the revision of a surviving ReplicaSet.
PodChanges(p, t) ==
    /\ reason = Unknown
    /\ p \in DOMAIN cluster
    /\ t.workload = cluster[p].workload
    /\ cluster' = [cluster EXCEPT ![p] = t]
    /\ UNCHANGED <<initial, previous, absent, polls, decisions, dropped, history, reason>>

\* Broken variant: an unread decision is replaced by the newer one.
SendLatest(decision) == decisions' = <<decision>> /\ UNCHANGED dropped

\* The select with a default branch: a full channel drops the decision.
Send(decision) ==
    IF decisions = <<>>
    THEN decisions' = <<decision>> /\ UNCHANGED dropped
    ELSE UNCHANGED decisions /\ dropped' = TRUE

Elapsed == IF absent = 0 THEN 0 ELSE absent + 1

\* A tick whose List failed; time passes all the same.
PollFails ==
    /\ reason = Unknown /\ polls < MaxPolls
    /\ polls' = polls + 1
    /\ absent' = Elapsed
    /\ UNCHANGED <<cluster, initial, previous, decisions, dropped, history, reason>>

\* at.Sub(absentSince) < grace
WithinGrace(since) == since - 1 < Grace

Poll(skipped) ==
    LET current == Resolve(cluster, skipped)
        since == IF Elapsed = 0 THEN 1 ELSE Elapsed
        decision == CompareObservationTargets(previous, current)
    IN
    /\ reason = Unknown /\ polls < MaxPolls
    /\ polls' = polls + 1
    /\ absent' = IF current = Empty THEN since ELSE 0
    /\ IF current = Empty /\ WithinGrace(since)
       THEN UNCHANGED <<previous, decisions, dropped>>
       ELSE /\ previous' = current
            /\ IF decision.events # {} \/ decision.reason # Unknown
               THEN Send(decision) ELSE UNCHANGED <<decisions, dropped>>
    /\ UNCHANGED <<cluster, initial, history, reason>>

\* The Runner's window loop takes a decision.
Take ==
    /\ reason = Unknown /\ decisions # <<>>
    /\ history' = Append(history, Head(decisions))
    /\ decisions' = <<>>
    /\ reason' = Head(decisions).reason
    /\ UNCHANGED <<cluster, initial, previous, absent, polls, dropped>>

\* The duration is over, or the run was cancelled; an unread decision is lost.
WindowCloses ==
    /\ reason = Unknown
    /\ reason' = "COMPLETED"
    /\ UNCHANGED <<cluster, initial, previous, absent, polls, decisions, dropped, history>>

Next ==
    \/ \E p \in Pods :
        PodDisappears(p) \/ \E t \in Target : PodAppears(p, t) \/ PodChanges(p, t)
    \/ PollFails \/ \E skipped \in SUBSET Pods : Poll(skipped)
    \/ Take \/ WindowCloses

Spec == Init /\ [][Next]_vars

------------------------------------------------------------------------------
(* Properties                                                               *)

Decision ==
    [events : SUBSET [kind : BoundaryKinds \cup {"POD_REMOVED", "POD_ADDED"}, pod : Pods],
     reason : {Unknown, "TARGET_REVISION_CHANGED", "TARGET_UNAVAILABLE"}]

Snapshots == UNION {[S -> Target] : S \in SUBSET Pods}

\* Every variable of the monitor model has the shape the code gives it.
TypeOK ==
    /\ {cluster, initial, previous} \subseteq Snapshots
    /\ absent \in Nat /\ polls \in Nat /\ dropped \in BOOLEAN
    /\ Len(decisions) <= 1 /\ {decisions, history} \subseteq Seq(Decision)
    /\ reason \in {Unknown, "COMPLETED", "TARGET_REVISION_CHANGED", "TARGET_UNAVAILABLE"}

\* A decision says that Pod p came or went.
Moves(decision, p) ==
    \E ev \in decision.events : ev.pod = p /\ ev.kind \in {"POD_REMOVED", "POD_ADDED"}
Adds(decision, p) == [kind |-> "POD_ADDED", pod |-> p] \in decision.events

\* The Pods present after replaying a list of decisions from the bound set:
\* the last decision that moves a Pod decides.
Replay(list) ==
    {p \in Pods :
        \/ p \in DOMAIN initial /\ \A j \in 1 .. Len(list) : ~Moves(list[j], p)
        \/ \E i \in 1 .. Len(list) :
              Adds(list[i], p) /\ \A j \in i + 1 .. Len(list) : ~Moves(list[j], p)}

\* As long as no decision was dropped, the history handed to the Runner plus
\* the decision in flight reconstruct exactly the Pods the monitor last saw,
\* through any flapping, partial resolution or grace period (Watch, emit).
HistoryReplays ==
    TypeOK /\ (~dropped => Replay(history \o decisions) = DOMAIN previous)

\* A window that ended for the target's sake has the reason in its history:
\* a revision or image boundary, or nothing left; the last decision decides.
EndExplained ==
    /\ reason = "TARGET_REVISION_CHANGED" =>
        \E ev \in history[Len(history)].events : ev.kind \in BoundaryKinds
    /\ reason = "TARGET_UNAVAILABLE" /\ ~dropped => Replay(history) = {}
==============================================================================
