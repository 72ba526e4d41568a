-------------------------- MODULE TargetMonitorProofs --------------------------
(* What the Runner can rely on from the target monitor, for any workload,     *)
(* number of Pods, ticks and grace period: unless a decision was dropped, its *)
(* target history replays to the Pods the monitor last saw, and a window that *)
(* ended for the target's sake has the reason in that history.  The invariant *)
(* follows a decision from the channel into the history, and needs that every *)
(* snapshot holds Pods of the observed workload only: otherwise a Pod could   *)
(* leave as WORKLOAD_REVISION_CHANGED and a replay would keep it.             *)
EXTENDS TargetMonitor, SequenceTheorems, TLAPS

-----------------------------------------------------------------------------
(* The invariant                                                               *)

\* Snapshots of the monitor: Resolve keeps the Pods of the observed UID only.
Resolved == \A p \in DOMAIN previous : previous[p].workload = Observed

\* What a decision says about its own reason.
Justified(d) ==
    d.reason = "TARGET_REVISION_CHANGED" => \E ev \in d.events : ev.kind \in BoundaryKinds

\* The decision that is in the channel.
InFlight ==
    decisions # <<>> =>
        /\ Justified(decisions[1])
        /\ decisions[1].reason = "TARGET_UNAVAILABLE" /\ ~dropped => Replay(history \o decisions) = {}

\* The inductive invariant.
Inv == HistoryReplays /\ Resolved /\ InFlight /\ EndExplained

-----------------------------------------------------------------------------
(* Snapshots                                                                   *)

LEMMA SnapshotFields ==
  ASSUME NEW s \in Snapshots
  PROVE  /\ DOMAIN s \in SUBSET Pods /\ s = [p \in DOMAIN s |-> s[p]]
         /\ \A p \in DOMAIN s : s[p] \in Target
BY DEF Snapshots

LEMMA SnapshotIntro ==
  ASSUME NEW S \in SUBSET Pods, NEW s \in [S -> Target]
  PROVE  s \in Snapshots
BY DEF Snapshots

LEMMA KeepOnlyType ==
  ASSUME NEW s \in Snapshots, NEW S \in SUBSET DOMAIN s
  PROVE  KeepOnly(s, S) \in Snapshots /\ DOMAIN KeepOnly(s, S) = S /\ \A p \in S : KeepOnly(s, S)[p] = s[p]
<1>1. S \in SUBSET Pods /\ \A p \in S : s[p] \in Target
  BY SnapshotFields
<1>2. KeepOnly(s, S) \in [S -> Target]
  BY <1>1 DEF KeepOnly
<1> QED BY <1>1, <1>2, SnapshotIntro DEF KeepOnly

\* What a tick resolves: Pods of the observed workload.
LEMMA ResolveType ==
  ASSUME NEW s \in Snapshots, NEW skipped
  PROVE  /\ Resolve(s, skipped) \in Snapshots
         /\ \A p \in DOMAIN Resolve(s, skipped) : Resolve(s, skipped)[p].workload = Observed
<1>1. PICK S \in SUBSET DOMAIN s : S = {p \in DOMAIN s \ skipped : s[p].workload = Observed}
  OBVIOUS
<1>2. Resolve(s, skipped) = KeepOnly(s, S)
  BY <1>1 DEF Resolve
<1> QED BY <1>1, <1>2, KeepOnlyType

-----------------------------------------------------------------------------
(* Decisions                                                                   *)

\* Between snapshots of one workload no Pod is recreated: CompareObservationTargets
\* reports every Pod that went as POD_REMOVED, and every Pod that came as POD_ADDED.
LEMMA EventsOfOneWorkload ==
  ASSUME NEW prev \in Snapshots, NEW cur \in Snapshots,
         \A p \in DOMAIN prev : prev[p].workload = Observed,
         \A p \in DOMAIN cur : cur[p].workload = Observed
  PROVE  /\ \A p : [kind |-> "POD_REMOVED", pod |-> p] \in Events(prev, cur) <=> p \in DOMAIN prev \ DOMAIN cur
         /\ \A p : [kind |-> "POD_ADDED", pod |-> p] \in Events(prev, cur) <=> p \in DOMAIN cur \ DOMAIN prev
         /\ \A ev \in Events(prev, cur) : ev = [kind |-> ev.kind, pod |-> ev.pod]
<1>1. Kept(prev, cur) = DOMAIN prev \cap DOMAIN cur
  BY DEF Kept
<1>2. \A p \in DOMAIN prev : ~Recreated(prev, cur, p)
  BY DEF Recreated
<1>3. PICK kept, gone, revised, repulled, recreated :
        /\ kept = Kept(prev, cur)
        /\ gone = DOMAIN prev \ kept
        /\ revised = {p \in kept : Changed(prev[p].revision, cur[p].revision)}
        /\ repulled = {p \in kept \ revised : Changed(prev[p].image, cur[p].image)}
        /\ recreated = {p \in gone : Recreated(prev, cur, p)}
  OBVIOUS
<1>4. Events(prev, cur) = [kind : {"WORKLOAD_REVISION_CHANGED"}, pod : revised \cup recreated]
                          \cup [kind : {"IMAGE_CHANGED"}, pod : repulled]
                          \cup [kind : {"POD_REMOVED"}, pod : gone \ recreated]
                          \cup [kind : {"POD_ADDED"}, pod : DOMAIN cur \ kept]
  BY <1>3 DEF Events
<1>5. gone \ recreated = DOMAIN prev \ DOMAIN cur /\ DOMAIN cur \ kept = DOMAIN cur \ DOMAIN prev
  BY <1>1, <1>2, <1>3
<1> QED BY <1>4, <1>5

\* Every event is one of the four kinds, about a Pod.
LEMMA EventsType ==
  ASSUME NEW prev \in Snapshots, NEW cur \in Snapshots
  PROVE  CompareObservationTargets(prev, cur) \in Decision
<1>1. DOMAIN prev \in SUBSET Pods /\ DOMAIN cur \in SUBSET Pods
  BY SnapshotFields
<1>2. Events(prev, cur) \subseteq [kind : BoundaryKinds \cup {"POD_REMOVED", "POD_ADDED"}, pod : Pods]
  BY <1>1 DEF Events, Kept, BoundaryKinds
<1>3. StopReason(prev, cur) \in {Unknown, "TARGET_REVISION_CHANGED", "TARGET_UNAVAILABLE"}
  BY DEF StopReason
<1> QED BY <1>2, <1>3 DEF CompareObservationTargets, Decision

\* The reason of a decision rests on its events, or on nothing being left.
LEMMA ReasonsAreJustified ==
  ASSUME NEW prev, NEW cur, NEW d, d = CompareObservationTargets(prev, cur)
  PROVE  Justified(d) /\ (d.reason = "TARGET_UNAVAILABLE" => DOMAIN cur = {}) /\ d.events = Events(prev, cur)
BY MonitorAssumption DEF CompareObservationTargets, StopReason, Justified

LEMMA DecisionFields ==
  ASSUME NEW d \in Decision
  PROVE  /\ d.reason \in {Unknown, "TARGET_REVISION_CHANGED", "TARGET_UNAVAILABLE"}
         /\ \A ev \in d.events : ev = [kind |-> ev.kind, pod |-> ev.pod]
BY DEF Decision

-----------------------------------------------------------------------------
(* Replaying                                                                   *)

\* One more decision: it decides for the Pods it moves, and no others.
LEMMA ReplayAppend ==
  ASSUME NEW list \in Seq(Decision), NEW d \in Decision
  PROVE  \A p \in Pods : p \in Replay(Append(list, d)) <=> IF Moves(d, p) THEN Adds(d, p) ELSE p \in Replay(list)
<1> SUFFICES ASSUME NEW p \in Pods
             PROVE  p \in Replay(Append(list, d)) <=> IF Moves(d, p) THEN Adds(d, p) ELSE p \in Replay(list)
  OBVIOUS
<1>1. PICK n \in Nat : n = Len(list)
  OBVIOUS
<1>2. PICK more : more = Append(list, d)
  OBVIOUS
<1>3. Len(more) = n + 1 /\ more[n + 1] = d /\ \A i \in 1 .. n : more[i] = list[i]
  BY <1>1, <1>2
<1>4. p \in Replay(more) <=> \/ p \in DOMAIN initial /\ \A j \in 1 .. n + 1 : ~Moves(more[j], p)
                             \/ \E i \in 1 .. n + 1 : Adds(more[i], p) /\ \A j \in i + 1 .. n + 1 : ~Moves(more[j], p)
  BY <1>3 DEF Replay
<1>5. p \in Replay(list) <=> \/ p \in DOMAIN initial /\ \A j \in 1 .. n : ~Moves(list[j], p)
                             \/ \E i \in 1 .. n : Adds(list[i], p) /\ \A j \in i + 1 .. n : ~Moves(list[j], p)
  BY <1>1 DEF Replay
<1>6. Adds(d, p) => Moves(d, p)
  BY DEF Adds, Moves
<1>7. CASE Moves(d, p)
  <2>1. \A i \in 1 .. n : n + 1 \in i + 1 .. n + 1
    OBVIOUS
  <2>2. n + 1 \in 1 .. n + 1 /\ n + 1 + 1 .. n + 1 = {}
    OBVIOUS
  <2>3. p \in Replay(more) => Adds(d, p)
    <3> SUFFICES ASSUME p \in Replay(more) PROVE Adds(d, p)
      OBVIOUS
    <3>1. PICK i \in 1 .. n + 1 : Adds(more[i], p) /\ \A j \in i + 1 .. n + 1 : ~Moves(more[j], p)
      BY <1>3, <1>4, <1>7, <2>2
    <3>2. i \notin 1 .. n
      BY <1>3, <1>7, <2>1, <3>1
    <3>3. i = n + 1
      BY <3>2
    <3> QED BY <1>3, <3>1, <3>3
  <2>4. Adds(d, p) => p \in Replay(more)
    BY <1>3, <1>4, <2>2
  <2> QED BY <1>2, <1>7, <2>3, <2>4
<1>8. CASE ~Moves(d, p)
  <2>1. ~Adds(d, p)
    BY <1>6, <1>8
  <2>2. (\A j \in 1 .. n + 1 : ~Moves(more[j], p)) <=> (\A j \in 1 .. n : ~Moves(list[j], p))
    <3>1. \A j \in 1 .. n + 1 : j \in 1 .. n \/ j = n + 1
      OBVIOUS
    <3>2. \A j \in 1 .. n : j \in 1 .. n + 1
      OBVIOUS
    <3> QED BY <1>3, <1>8, <3>1, <3>2
  <2>3. ASSUME NEW i \in 1 .. n
        PROVE  (\A j \in i + 1 .. n + 1 : ~Moves(more[j], p)) <=> (\A j \in i + 1 .. n : ~Moves(list[j], p))
    <3>1. \A j \in i + 1 .. n + 1 : j \in i + 1 .. n \/ j = n + 1
      OBVIOUS
    <3>2. \A j \in i + 1 .. n : j \in i + 1 .. n + 1 /\ j \in 1 .. n
      OBVIOUS
    <3> QED BY <1>3, <1>8, <3>1, <3>2
  <2>4. \A i \in 1 .. n + 1 : Adds(more[i], p) => i \in 1 .. n
    <3>1. \A i \in 1 .. n + 1 : i \in 1 .. n \/ i = n + 1
      OBVIOUS
    <3> QED BY <1>3, <2>1, <3>1
  <2>5. \A i \in 1 .. n : i \in 1 .. n + 1
    OBVIOUS
  <2>6. p \in Replay(more) <=> p \in Replay(list)
    BY <1>3, <1>4, <1>5, <2>2, <2>3, <2>4, <2>5
  <2> QED BY <1>2, <1>8, <2>6
<1> QED BY <1>7, <1>8

\* A decision brings the replay from one snapshot to the next.
LEMMA ReplayFollows ==
  ASSUME NEW list \in Seq(Decision), NEW prev \in Snapshots, NEW cur \in Snapshots, NEW d \in Decision,
         \A p \in DOMAIN prev : prev[p].workload = Observed,
         \A p \in DOMAIN cur : cur[p].workload = Observed,
         d.events = Events(prev, cur), Replay(list) = DOMAIN prev
  PROVE  Replay(Append(list, d)) = DOMAIN cur
<1>1. DOMAIN prev \in SUBSET Pods /\ DOMAIN cur \in SUBSET Pods
  BY SnapshotFields
<1>2. \A p : Adds(d, p) <=> p \in DOMAIN cur \ DOMAIN prev
  <2>1. \A p : [kind |-> "POD_ADDED", pod |-> p] \in Events(prev, cur) <=> p \in DOMAIN cur \ DOMAIN prev
    BY EventsOfOneWorkload
  <2> QED BY <2>1 DEF Adds
<1>3. \A p : Moves(d, p) <=> (p \in DOMAIN cur \ DOMAIN prev \/ p \in DOMAIN prev \ DOMAIN cur)
  <2> SUFFICES ASSUME NEW p
               PROVE  Moves(d, p) <=> (p \in DOMAIN cur \ DOMAIN prev \/ p \in DOMAIN prev \ DOMAIN cur)
    OBVIOUS
  <2>1. /\ [kind |-> "POD_REMOVED", pod |-> p] \in d.events <=> p \in DOMAIN prev \ DOMAIN cur
        /\ [kind |-> "POD_ADDED", pod |-> p] \in d.events <=> p \in DOMAIN cur \ DOMAIN prev
    BY EventsOfOneWorkload
  <2>2. \A ev \in d.events : ev = [kind |-> ev.kind, pod |-> ev.pod]
    BY DecisionFields
  <2>3. Moves(d, p) <=> \/ [kind |-> "POD_REMOVED", pod |-> p] \in d.events
                        \/ [kind |-> "POD_ADDED", pod |-> p] \in d.events
    <3>1. ASSUME Moves(d, p)
          PROVE  \/ [kind |-> "POD_REMOVED", pod |-> p] \in d.events
                 \/ [kind |-> "POD_ADDED", pod |-> p] \in d.events
      BY <2>2, <3>1 DEF Moves
    <3>2. \A k : [kind |-> k, pod |-> p].pod = p /\ [kind |-> k, pod |-> p].kind = k
      OBVIOUS
    <3>3. ASSUME \/ [kind |-> "POD_REMOVED", pod |-> p] \in d.events
                 \/ [kind |-> "POD_ADDED", pod |-> p] \in d.events
          PROVE  Moves(d, p)
      BY <3>2, <3>3 DEF Moves
    <3> QED BY <3>1, <3>3
  <2> QED BY <2>1, <2>3
<1>4. \A p \in Pods : p \in Replay(Append(list, d)) <=> p \in DOMAIN cur
  BY <1>2, <1>3, ReplayAppend
<1>5. Replay(Append(list, d)) \subseteq Pods
  BY DEF Replay
<1> QED BY <1>1, <1>4, <1>5

\* Snapshots without an event between them have the same Pods.
LEMMA SilenceKeeps ==
  ASSUME NEW prev \in Snapshots, NEW cur \in Snapshots,
         \A p \in DOMAIN prev : prev[p].workload = Observed,
         \A p \in DOMAIN cur : cur[p].workload = Observed,
         Events(prev, cur) = {}
  PROVE  DOMAIN cur = DOMAIN prev
<1>1. \A p : p \notin DOMAIN prev \ DOMAIN cur /\ p \notin DOMAIN cur \ DOMAIN prev
  BY EventsOfOneWorkload
<1> QED BY <1>1

-----------------------------------------------------------------------------
(* Steps                                                                       *)

LEMMA Facts ==
  ASSUME Inv
  PROVE  /\ TypeOK /\ Resolved /\ InFlight /\ EndExplained
         /\ cluster \in Snapshots /\ initial \in Snapshots /\ previous \in Snapshots
         /\ decisions \in Seq(Decision) /\ history \in Seq(Decision) /\ history \o decisions \in Seq(Decision)
         /\ ~dropped => Replay(history \o decisions) = DOMAIN previous
<1>1. TypeOK
  BY DEF Inv, HistoryReplays
<1>2. decisions \in Seq(Decision) /\ history \in Seq(Decision)
  BY <1>1 DEF TypeOK
<1>3. history \o decisions \in Seq(Decision)
  BY <1>2
<1> QED BY <1>1, <1>2, <1>3 DEF Inv, HistoryReplays, TypeOK

\* A replay depends on the bound set only.
LEMMA ReplaySame ==
  ASSUME initial' = initial, NEW list
  PROVE  Replay(list)' = Replay(list)
BY DEF Replay

\* A step that leaves monitor and Runner alone.
LEMMA ClusterStep ==
  ASSUME Inv, cluster' \in Snapshots, absent' \in Nat, polls' \in Nat,
         UNCHANGED <<initial, previous, decisions, dropped, history, reason>>
  PROVE  Inv'
<1>1. TypeOK'
  BY Facts DEF TypeOK
<1>2. Replay(history \o decisions)' = Replay(history \o decisions) /\ Replay(history)' = Replay(history)
  BY DEF Replay
<1> QED BY <1>1, <1>2, Facts DEF Inv, HistoryReplays, Resolved, InFlight, EndExplained

LEMMA PodSteps ==
  ASSUME Inv, NEW p \in Pods,
         PodDisappears(p) \/ \E t \in Target : PodAppears(p, t) \/ PodChanges(p, t)
  PROVE  Inv'
<1>1. cluster \in Snapshots /\ DOMAIN cluster \in SUBSET Pods /\ \A q \in DOMAIN cluster : cluster[q] \in Target
  BY Facts, SnapshotFields
<1>2. UNCHANGED <<initial, previous, absent, polls, decisions, dropped, history, reason>>
  BY DEF PodDisappears, PodAppears, PodChanges
<1>3. cluster' \in Snapshots
  <2>1. CASE PodDisappears(p)
    <3>1. cluster' = KeepOnly(cluster, DOMAIN cluster \ {p})
      BY <2>1 DEF PodDisappears
    <3> QED BY <1>1, <3>1, KeepOnlyType
  <2>2. ASSUME NEW t \in Target, PodAppears(p, t) PROVE cluster' \in Snapshots
    <3>1. cluster' \in [DOMAIN cluster \cup {p} -> Target]
      BY <1>1, <2>2 DEF PodAppears
    <3> QED BY <1>1, <3>1, SnapshotIntro
  <2>3. ASSUME NEW t \in Target, PodChanges(p, t) PROVE cluster' \in Snapshots
    <3>1. cluster \in [DOMAIN cluster -> Target]
      BY <1>1, SnapshotFields
    <3>2. cluster' \in [DOMAIN cluster -> Target]
      BY <2>3, <3>1 DEF PodChanges
    <3> QED BY <1>1, <3>2, SnapshotIntro
  <2> QED BY <2>1, <2>2, <2>3
<1>4. absent \in Nat /\ polls \in Nat
  BY Facts DEF TypeOK
<1> QED BY <1>2, <1>3, <1>4, ClusterStep

LEMMA PollFailsStep ==
  ASSUME Inv, PollFails
  PROVE  Inv'
<1>1. absent \in Nat /\ polls \in Nat /\ cluster \in Snapshots
  BY Facts DEF TypeOK
<1>2. absent' \in Nat /\ polls' \in Nat
  BY <1>1 DEF PollFails, Elapsed
<1> QED BY <1>1, <1>2, ClusterStep DEF PollFails

LEMMA PollStep ==
  ASSUME Inv, NEW skipped, Poll(skipped)
  PROVE  Inv'
<1>1. PICK cur : cur = Resolve(cluster, skipped)
  OBVIOUS
<1>2. cur \in Snapshots /\ \A p \in DOMAIN cur : cur[p].workload = Observed
  BY <1>1, Facts, ResolveType
<1>3. PICK d : d = CompareObservationTargets(previous, cur)
  OBVIOUS
<1>4. /\ d \in Decision /\ Justified(d) /\ d.events = Events(previous, cur)
      /\ d.reason = "TARGET_UNAVAILABLE" => DOMAIN cur = {}
  BY <1>2, <1>3, Facts, EventsType, ReasonsAreJustified
<1>5. absent \in Nat /\ polls \in Nat
  BY Facts DEF TypeOK
<1>6. /\ absent' \in Nat /\ polls' \in Nat
      /\ UNCHANGED <<cluster, initial, history, reason>> /\ reason = Unknown
  BY <1>5 DEF Poll, Elapsed
<1>7. \/ UNCHANGED <<previous, decisions, dropped>>
      \/ previous' = cur /\ d.events = {} /\ UNCHANGED <<decisions, dropped>>
      \/ previous' = cur /\ Send(d)
  BY <1>1, <1>3 DEF Poll
<1>8. CASE UNCHANGED <<previous, decisions, dropped>>
  BY <1>6, <1>8, Facts, ClusterStep
<1>9. Resolved' /\ previous' \in Snapshots
  BY <1>2, <1>7, Facts DEF Resolved
<1>10. EndExplained'
  BY <1>6, MonitorAssumption DEF EndExplained
<1>11. \A list : Replay(list)' = Replay(list)
  BY <1>6, ReplaySame
<1>12. CASE previous' = cur /\ d.events = {} /\ UNCHANGED <<decisions, dropped>>
  <2>1. DOMAIN cur = DOMAIN previous
    BY <1>2, <1>4, <1>12, Facts, SilenceKeeps DEF Resolved
  <2>2. TypeOK'
    BY <1>6, <1>9, <1>12, Facts DEF TypeOK
  <2>3. Replay(history \o decisions)' = Replay(history \o decisions)
    BY <1>6, <1>12 DEF Replay
  <2>4. HistoryReplays'
    BY <1>12, <2>1, <2>2, <2>3, Facts DEF HistoryReplays
  <2>5. InFlight'
    BY <1>12, <2>3, Facts DEF InFlight
  <2> QED BY <1>9, <1>10, <2>4, <2>5 DEF Inv
<1>13. CASE previous' = cur /\ decisions = <<>> /\ decisions' = <<d>> /\ dropped' = dropped
  <2>1. <<d>> \in Seq(Decision) /\ Len(<<d>>) = 1 /\ <<d>>[1] = d
    BY <1>4
  <2>2. TypeOK'
    BY <1>6, <1>9, <1>13, <2>1, Facts DEF TypeOK
  <2>3. history \o decisions = history /\ history \o <<d>> = Append(history, d)
    BY <1>4, <1>13, Facts
  <2>4. ~dropped => Replay(Append(history, d)) = DOMAIN cur
    <3> SUFFICES ASSUME ~dropped PROVE Replay(Append(history, d)) = DOMAIN cur
      OBVIOUS
    <3>1. history \in Seq(Decision) /\ previous \in Snapshots /\ Replay(history) = DOMAIN previous
      BY <2>3, Facts
    <3>2. \A p \in DOMAIN previous : previous[p].workload = Observed
      BY Facts DEF Resolved
    <3> QED BY <1>2, <1>4, <3>1, <3>2, ReplayFollows
  <2>5. Replay(history \o decisions)' = Replay(Append(history, d))
    BY <1>6, <1>13, <2>3 DEF Replay
  <2>6. HistoryReplays'
    BY <1>13, <2>2, <2>4, <2>5 DEF HistoryReplays
  <2>7. InFlight'
    BY <1>4, <1>13, <2>1, <2>4, <2>5 DEF InFlight
  <2> QED BY <1>9, <1>10, <2>6, <2>7 DEF Inv
<1>14. CASE previous' = cur /\ decisions' = decisions /\ dropped' = TRUE
  <2>1. TypeOK'
    BY <1>6, <1>9, <1>14, Facts DEF TypeOK
  <2>2. HistoryReplays'
    BY <1>14, <2>1 DEF HistoryReplays
  <2>3. InFlight'
    BY <1>14, Facts DEF InFlight
  <2> QED BY <1>9, <1>10, <2>2, <2>3 DEF Inv
<1> QED BY <1>7, <1>8, <1>12, <1>13, <1>14 DEF Send

LEMMA TakeStep ==
  ASSUME Inv, Take
  PROVE  Inv'
<1>1. /\ reason = Unknown /\ decisions # <<>> /\ history' = Append(history, Head(decisions))
      /\ decisions' = <<>> /\ reason' = Head(decisions).reason
      /\ UNCHANGED <<cluster, initial, previous, absent, polls, dropped>>
  BY DEF Take
<1>2. Len(decisions) <= 1 /\ decisions \in Seq(Decision) /\ history \in Seq(Decision)
  BY Facts DEF TypeOK
<1>3. PICK d \in Decision : d = decisions[1] /\ decisions = <<d>> /\ Head(decisions) = d
  <2>1. Len(decisions) = 1
    <3>1. PICK n \in Nat \ {0} : n = Len(decisions)
      BY <1>1, <1>2, EmptySeq
    <3>2. n <= 1
      BY <1>2, <3>1
    <3>3. n = 1
      BY <3>2
    <3> QED BY <3>1, <3>3
  <2>2. decisions[1] \in Decision /\ decisions = <<decisions[1]>> /\ Head(decisions) = decisions[1]
    BY <1>1, <1>2, <2>1
  <2> QED BY <2>2
<1>4. history' = history \o decisions /\ history' \in Seq(Decision) /\ history'[Len(history')] = d
  BY <1>1, <1>2, <1>3
<1>5. history' \o decisions' = history \o decisions
  BY <1>1, <1>4
<1>6. d.reason \in {Unknown, "TARGET_REVISION_CHANGED", "TARGET_UNAVAILABLE"}
  BY DecisionFields
<1>7. TypeOK'
  <2>1. <<>> \in Seq(Decision) /\ Len(<<>>) = 0
    OBVIOUS
  <2> QED BY <1>1, <1>3, <1>4, <1>6, <2>1, Facts DEF TypeOK
<1>8. Replay(history \o decisions)' = Replay(history \o decisions) /\ Replay(history)' = Replay(history \o decisions)
  BY <1>1, <1>4, <1>5 DEF Replay
<1>9. HistoryReplays'
  BY <1>1, <1>7, <1>8, Facts DEF HistoryReplays
<1>10. Justified(d) /\ (d.reason = "TARGET_UNAVAILABLE" /\ ~dropped => Replay(history \o decisions) = {})
  BY <1>1, <1>3, Facts DEF InFlight
<1>11. EndExplained'
  BY <1>1, <1>3, <1>4, <1>8, <1>10 DEF EndExplained, Justified
<1>12. Resolved' /\ InFlight'
  BY <1>1, Facts DEF Resolved, InFlight
<1> QED BY <1>9, <1>11, <1>12 DEF Inv

LEMMA WindowClosesStep ==
  ASSUME Inv, WindowCloses
  PROVE  Inv'
<1>1. reason' = "COMPLETED" /\ UNCHANGED <<cluster, initial, previous, absent, polls, decisions, dropped, history>>
  BY DEF WindowCloses
<1>2. TypeOK'
  BY <1>1, Facts DEF TypeOK
<1>3. Replay(history \o decisions)' = Replay(history \o decisions)
  BY <1>1 DEF Replay
<1>4. HistoryReplays' /\ Resolved' /\ InFlight'
  BY <1>1, <1>2, <1>3, Facts DEF HistoryReplays, Resolved, InFlight
<1>5. EndExplained'
  BY <1>1 DEF EndExplained
<1> QED BY <1>4, <1>5 DEF Inv

-----------------------------------------------------------------------------
(* Theorems                                                                    *)

LEMMA InitInv == Init => Inv
<1> SUFFICES ASSUME Init PROVE Inv
  OBVIOUS
<1>1. PICK S \in (SUBSET Pods) \ {{}}, t \in Target : t.workload = Observed /\ cluster = [p \in S |-> t]
  BY DEF Init
<1>2. /\ initial = cluster /\ previous = cluster /\ absent = 0 /\ polls = 0
      /\ decisions = <<>> /\ dropped = FALSE /\ history = <<>> /\ reason = Unknown
  BY DEF Init
<1>3. cluster \in Snapshots /\ DOMAIN cluster = S
  <2>1. cluster \in [S -> Target]
    BY <1>1
  <2> QED BY <1>1, <2>1, SnapshotIntro
<1>4. TypeOK
  <2>1. <<>> \in Seq(Decision) /\ Len(<<>>) = 0
    OBVIOUS
  <2>2. dropped \in BOOLEAN
    BY <1>2
  <2>3. /\ {cluster, initial, previous} \subseteq Snapshots /\ {decisions, history} \subseteq Seq(Decision)
        /\ reason \in {Unknown, "COMPLETED", "TARGET_REVISION_CHANGED", "TARGET_UNAVAILABLE"}
    BY <1>2, <1>3, <2>1
  <2>4. absent \in Nat /\ polls \in Nat /\ Len(decisions) <= 1
    BY <1>2, <2>1
  <2> QED BY <2>2, <2>3, <2>4 DEF TypeOK
<1>5. Replay(history \o decisions) = DOMAIN previous
  <2>1. history \o decisions = <<>> /\ Len(<<>>) = 0 /\ 1 .. 0 = {}
    BY <1>2
  <2>2. Replay(<<>>) = {p \in Pods : p \in DOMAIN initial}
    BY <2>1 DEF Replay
  <2> QED BY <1>1, <1>2, <1>3, <2>1, <2>2
<1>6. HistoryReplays
  BY <1>4, <1>5 DEF HistoryReplays
<1>7. Resolved
  BY <1>1, <1>2 DEF Resolved
<1>8. InFlight /\ EndExplained
  BY <1>2, MonitorAssumption DEF InFlight, EndExplained
<1> QED BY <1>6, <1>7, <1>8 DEF Inv

LEMMA NextInv == Inv /\ [Next]_vars => Inv'
<1> SUFFICES ASSUME Inv, [Next]_vars PROVE Inv'
  OBVIOUS
<1>1. ASSUME NEW p \in Pods, PodDisappears(p) \/ \E t \in Target : PodAppears(p, t) \/ PodChanges(p, t)
      PROVE  Inv'
  BY <1>1, PodSteps
<1>2. CASE PollFails
  BY <1>2, PollFailsStep
<1>3. ASSUME NEW skipped \in SUBSET Pods, Poll(skipped) PROVE Inv'
  BY <1>3, PollStep
<1>4. CASE Take
  BY <1>4, TakeStep
<1>5. CASE WindowCloses
  BY <1>5, WindowClosesStep
<1>6. CASE UNCHANGED vars
  <2>1. cluster \in Snapshots /\ absent \in Nat /\ polls \in Nat
    BY Facts DEF TypeOK
  <2> QED BY <1>6, <2>1, ClusterStep DEF vars
<1> QED BY <1>1, <1>2, <1>3, <1>4, <1>5, <1>6 DEF Next

LEMMA MonitorInvariant == Spec => []Inv
<1> QED BY InitInv, NextInv, PTL DEF Spec

\* Watch and emit lose nothing but what the full channel drops: the history
\* handed to the Runner and the decision in flight replay to exactly the Pods
\* of the monitor's last snapshot.
THEOREM HistoryIsReplayable == Spec => []HistoryReplays
<1>1. Inv => HistoryReplays
  BY DEF Inv
<1> QED BY <1>1, MonitorInvariant, PTL

\* A window the Runner ended with TARGET_REVISION_CHANGED has a revision or image
\* boundary in its last decision, one ended with TARGET_UNAVAILABLE a history
\* that replays to no Pod.
THEOREM EndsAreExplained == Spec => []EndExplained
<1>1. Inv => EndExplained
  BY DEF Inv
<1> QED BY <1>1, MonitorInvariant, PTL

==============================================================================
