---------------------------- MODULE RollbackProofs ----------------------------
(* Theorems about rollback composed with apply-proposal, for any number of  *)
(* appliers, rollbackers, artifacts, epochs, edits and faults.  The two      *)
(* invariants of GovernedApplyProofs survive the inverses, and a third one   *)
(* ties each rollback to its source attempt, which is frozen from the moment *)
(* it is terminal, and its RollbackAttempt to what its inverses did.         *)
EXTENDS Rollback, GovernedApplyProofs

-----------------------------------------------------------------------------
(* The invariant.                                                          *)

\* A terminal ApplyAttempt is the last thing its run wrote.
Frozen == \A a \in Appliers : attempt[a].state \in Terminal => run[a].pc \in {"done", "dead"}

\* Before the RollbackAttempt has a status.
RStarting == {"idle", "epoch", "history", "confirm", "create", "begin"}

\* Working on the inverse of Latest(r).
Inverting == {"prepare", "intent", "get", "workload", "refs", "dispatch", "absent", "reread", "result"}

\* The source was qualified, and the records to invert were chosen.
Qualified == {"history", "confirm", "create", "begin", "last"} \cup Inverting
Chosen == {"confirm", "create", "begin"} \cup Inverting

Inverses(st) == {o \in Artifacts : st.inverse[o] = "SUCCEEDED"}

\* What RollbackTruthful says of one status and the inverses that took effect.
RTrue(st, done) ==
    /\ \A o \in done : st.inverse[o] \in {"SUCCEEDED", "OUTCOME_UNKNOWN"}
    /\ Inverses(st) \subseteq done
    /\ st.state = "FAILED" => done = {}
    /\ st.state = "PARTIALLY_APPLIED" => done = Inverses(st) /\ Inverses(st) # {}
    /\ st.state = "APPLIED" => \A o \in Artifacts : st.inverse[o] \in {"NONE", "SUCCEEDED"}

\* The inverse of o is at this point: what is recorded of it, and whether it
\* took effect.
Point(r, st, done, o) ==
    /\ r.pc \in {"prepare", "intent"} => st.inverse[o] = "NONE" /\ o \notin done
    /\ r.pc \notin {"prepare", "intent"} => st.inverse[o] = "OUTCOME_UNKNOWN"
    /\ r.pc \in {"get", "workload", "refs", "dispatch"} => o \notin done
    /\ r.pc \in {"absent", "reread"} => o \in done
    /\ r.pc = "result" => /\ r.outcome \in {"SUCCEEDED", "FAILED", "OUTCOME_UNKNOWN"}
                          /\ r.outcome = "SUCCEEDED" => o \in done
                          /\ r.outcome = "FAILED" => o \notin done

\* Memory, RollbackAttempt and effects of a rollback agree.
RLedger(r, st, done) ==
    /\ r.pc \in RStarting => r.status = NoRStatus /\ st = NoRStatus /\ done = {} /\ ~r.stale
    /\ r.pc \in Chosen => r.todo # {}
    /\ r.pc \in Inverting =>
          /\ ~r.stale /\ r.status = st /\ st.state = "IN_PROGRESS"
          /\ \A o \in Artifacts \ {Latest(r)} :
                st.inverse[o] \in {"NONE", "SUCCEEDED"} /\ (o \in done <=> st.inverse[o] = "SUCCEEDED")
          /\ \A o \in r.todo \ {Latest(r)} : o \notin done
          /\ Point(r, st, done, Latest(r))
    /\ RTrue(st, done)
    /\ r.pc = "last" => RTrue(r.status, done)

\* The binding a rollback has to invert before anything else is still to do,
\* or some rollback of the same source has inverted it.
BindingFirst(r) ==
    Workload \in Succeeded(r.source) /\ r.source.mutations[Workload].attributable # 0 =>
        \/ Workload \in r.todo
        \/ \E c \in Rollbackers : rb[c].src = r.src /\ Workload \in inverted[c]

\* A policy about to be deleted was not referred to by the workload version checked.
Unreferenced(r, o, lv, vs) ==
    /\ Workload \in Artifacts /\ r.checked =< vs[Workload]
    /\ vs[Workload] = r.checked => ~References(lv[Workload], o)

\* What a rollback may rely on about its source and the object in hand.
Bound(r) ==
    /\ r.pc # "idle" => r.src \in Appliers
    /\ r.pc = "epoch" => r.source.state # ""
    /\ r.pc \in Qualified => r.source.state \in Terminal
    /\ r.source.state \in Terminal => r.src \in Appliers /\ attempt[r.src] = r.source
    /\ r.pc \in Chosen =>
          /\ \A o \in r.todo : r.source.mutations[o].attributable # 0
          /\ BindingFirst(r)
    /\ r.pc \in {"workload", "refs", "dispatch"} => r.held = SourceRecord(r).attributable
    /\ r.pc = "refs" => Latest(r) = Workload
    /\ r.pc = "dispatch" /\ WasCreated(SourceRecord(r)) /\ Latest(r) # Workload
          => Unreferenced(r, Latest(r), live, version)

RTypes ==
    /\ epoch \in 0 .. MaxEpoch
    /\ born \in [Appliers -> 0 .. MaxEpoch]
    /\ rb \in [Rollbackers -> Rollbacks]
    /\ rattempt \in [Rollbackers -> RStatus]
    /\ inverted \in [Rollbackers -> SUBSET Artifacts]

\* The inductive invariant.
RInv ==
    /\ Inv /\ Faithful /\ Frozen
    /\ RTypes
    /\ \A b \in Rollbackers : RLedger(rb[b], rattempt[b], inverted[b]) /\ Bound(rb[b])

-----------------------------------------------------------------------------
(* Values and the head of the loop.                                        *)

\* The values a rollback starts from are well typed.
LEMMA RConstants == NoRStatus \in RStatus /\ Waiting \in Rollbacks
<1>1. NoRStatus \in RStatus
  BY DEF NoRStatus, RStatus
<1> QED
  BY <1>1, Constants DEF Waiting, Rollbacks, RPCs

\* The next record to invert is of the greatest class left to do.
LEMMA LatestIsGreatest ==
    ASSUME NEW r \in Rollbacks, r.todo # {}
    PROVE  /\ Latest(r) \in r.todo /\ Latest(r) \in Artifacts
           /\ \A q \in r.todo : applyClassFor(q) =< applyClassFor(Latest(r))
<1>1. \A o \in r.todo : applyClassFor(o) \in {0, 1, 2}
  BY DEF applyClassFor
<1>2. \E o \in r.todo : \A q \in r.todo : applyClassFor(q) =< applyClassFor(o)
  <2>1. CASE \E o \in r.todo : applyClassFor(o) = 2
    BY <1>1, <2>1
  <2>2. CASE /\ ~ \E o \in r.todo : applyClassFor(o) = 2
             /\ \E o \in r.todo : applyClassFor(o) = 1
    BY <1>1, <2>2
  <2>3. CASE ~ \E o \in r.todo : applyClassFor(o) \in {1, 2}
    BY <1>1, <2>3
  <2> QED
    BY <2>1, <2>2, <2>3
<1> QED
  BY <1>2 DEF Latest, Rollbacks

\* The workload binding is inverted before anything else.
LEMMA BindingIsLatest ==
    ASSUME NEW r \in Rollbacks, Workload \in r.todo
    PROVE  Latest(r) = Workload
<1>1. Latest(r) \in r.todo /\ applyClassFor(Workload) =< applyClassFor(Latest(r))
  BY LatestIsGreatest
<1>2. applyClassFor(Workload) = 2
  BY DEF applyClassFor, Workload
<1> QED
  BY <1>1, <1>2 DEF applyClassFor, Workload

\* A rollback that ends forgets everything but its source.
LEMMA RStopIs ==
    ASSUME NEW r
    PROVE  /\ RStop(r).pc = "done" /\ RStop(r).src = r.src
           /\ RStop(r).source.state = ""
           /\ r.src \in Appliers => RStop(r) \in Rollbacks
<1>1. /\ RStop(r).pc = "done" /\ RStop(r).src = r.src /\ RStop(r).source = NoStatus
  BY DEF RStop, Waiting
<1>2. ASSUME r.src \in Appliers
      PROVE  RStop(r) \in Rollbacks
  <2>1. PICK w \in Rollbacks : w = Waiting
    BY RConstants
  <2>2. PICK a \in Appliers : a = r.src
    BY <1>2
  <2>3. [w EXCEPT !.pc = "done", !.src = a] \in Rollbacks
    BY DEF Rollbacks, RPCs
  <2> QED
    BY <2>1, <2>2, <2>3 DEF RStop
<1>3. NoStatus.state = ""
  BY DEF NoStatus
<1> QED
  BY <1>1, <1>2, <1>3

\* Ending keeps the ledger and the bindings, as long as the record is true.
LEMMA Ended ==
    ASSUME NEW r, NEW st, NEW done, r.src \in Appliers, RTrue(st, done)
    PROVE  /\ RStop(r) \in Rollbacks /\ RStop(r).src = r.src
           /\ RStop(r).pc = "done"
           /\ RLedger(RStop(r), st, done) /\ Bound(RStop(r))
<1>1. /\ RStop(r).pc = "done" /\ RStop(r).src = r.src /\ RStop(r).source.state = ""
      /\ RStop(r) \in Rollbacks
  BY RStopIs
<1>2. RLedger(RStop(r), st, done)
  BY <1>1 DEF RLedger, RStarting, Chosen, Inverting
<1>3. Bound(RStop(r))
  BY <1>1 DEF Bound, Qualified, Chosen, Inverting, Terminal
<1> QED
  BY <1>1, <1>2, <1>3

-----------------------------------------------------------------------------
(* What a rollback relies on survives the steps of everybody else.         *)

\* Terminal attempts do not change.
Settled == \A a \in Appliers : attempt[a].state \in Terminal => attempt'[a] = attempt[a]

\* What was inverted stays inverted, by a rollback of the same source.
Remembered ==
    \A c \in Rollbackers : Workload \in inverted[c] =>
        Workload \in inverted'[c] /\ rb'[c].src = rb[c].src

\* Versions only grow, and without a new version an object can only disappear.
Forward ==
    \A o \in Artifacts :
        /\ version[o] =< version'[o]
        /\ version'[o] = version[o] => live'[o] = live[o] \/ live'[o] = Absent

\* What a rollback may rely on, it may rely on after such a step.
LEMMA BoundKept ==
    ASSUME NEW r \in Rollbacks, Bound(r), Settled, Remembered, Forward,
           version \in [Artifacts -> Nat], version' \in [Artifacts -> Nat]
    PROVE  Bound(r)'
<1>1. r.source.state \in Terminal => r.src \in Appliers /\ attempt'[r.src] = r.source
  BY DEF Bound, Settled
<1>2. BindingFirst(r) => BindingFirst(r)'
  BY DEF BindingFirst, Remembered
<1>3. ASSUME NEW o, o # Workload, Unreferenced(r, o, live, version)
      PROVE  Unreferenced(r, o, live', version')
  <2>1. /\ Workload \in Artifacts /\ r.checked \in Nat
        /\ version[Workload] \in Nat /\ version'[Workload] \in Nat
    BY <1>3 DEF Unreferenced, Rollbacks
  <2>2. /\ version[Workload] =< version'[Workload]
        /\ version'[Workload] = version[Workload] =>
              live'[Workload] = live[Workload] \/ live'[Workload] = Absent
    BY <2>1 DEF Forward
  <2>3. r.checked =< version'[Workload]
    BY <1>3, <2>1, <2>2 DEF Unreferenced
  <2>4. ASSUME version'[Workload] = r.checked
        PROVE  ~References(live'[Workload], o)
    <3>1. version'[Workload] = version[Workload] /\ version[Workload] = r.checked
      BY <1>3, <2>1, <2>2, <2>4 DEF Unreferenced
    <3>2. ~References(live[Workload], o)
      BY <1>3, <3>1 DEF Unreferenced
    <3>3. CASE live'[Workload] = live[Workload]
      BY <3>2, <3>3 DEF References
    <3>4. CASE live'[Workload] = Absent
      <4>1. o # "networkpolicy"
        BY <3>2 DEF References
      <4>2. Absent.content \notin Digests
        BY ApplyConstants DEF Absent, Foreign
      <4> QED
        BY <3>4, <4>1, <4>2 DEF References
    <3> QED
      BY <2>2, <3>1, <3>3, <3>4
  <2> QED
    BY <2>1, <2>3, <2>4 DEF Unreferenced
<1> QED
  BY <1>1, <1>2, <1>3 DEF Bound, SourceRecord, Latest, WasCreated

\* A step of rollback b alone: it is enough that its own ledger and bindings
\* hold of what it becomes.
LEMMA RollbackStep ==
    ASSUME RInv, NEW b \in Rollbackers, NEW r \in Rollbacks, NEW st \in RStatus,
           NEW done \in SUBSET Artifacts, inverted[b] \subseteq done,
           RLedger(r, st, done), Bound(r),
           r.src = rb[b].src \/ inverted[b] = {},
           rb' = [rb EXCEPT ![b] = r],
           rattempt' = [rattempt EXCEPT ![b] = st],
           inverted' = [inverted EXCEPT ![b] = done],
           UNCHANGED <<run, attempt, epoch, born>>,
           Inv', Faithful', Forward
    PROVE  RInv'
<1>1. Settled /\ Frozen'
  BY DEF Settled, RInv, Frozen
<1>2. /\ rb \in [Rollbackers -> Rollbacks] /\ rattempt \in [Rollbackers -> RStatus]
      /\ inverted \in [Rollbackers -> SUBSET Artifacts]
  BY DEF RInv, RTypes
<1>3. Remembered
  BY <1>2 DEF Remembered
<1>4. RTypes'
  BY <1>2 DEF RInv, RTypes
<1>5. version \in [Artifacts -> Nat] /\ version' \in [Artifacts -> Nat]
  BY DEF RInv, Inv, Rest
<1>6. ASSUME NEW c \in Rollbackers
      PROVE  RLedger(rb'[c], rattempt'[c], inverted'[c]) /\ Bound(rb[c])'
  <2>1. CASE c = b
    <3>1. rb'[c] = r /\ rattempt'[c] = st /\ inverted'[c] = done
      BY <1>2, <2>1
    <3>2. Bound(r)'
      BY <1>1, <1>3, <1>5, BoundKept
    <3> QED
      BY <3>1, <3>2 DEF Bound, BindingFirst
  <2>2. CASE c # b
    <3>1. rb'[c] = rb[c] /\ rattempt'[c] = rattempt[c] /\ inverted'[c] = inverted[c]
      BY <1>2, <2>2
    <3>2. PICK s \in Rollbacks : s = rb[c]
      BY <1>2
    <3>3. RLedger(rb[c], rattempt[c], inverted[c]) /\ Bound(s)
      BY <3>2 DEF RInv
    <3>4. Bound(s)'
      BY <1>1, <1>3, <1>5, <3>3, BoundKept
    <3> QED
      BY <3>1, <3>2, <3>3, <3>4 DEF Bound, BindingFirst
  <2> QED
    BY <2>1, <2>2
<1> QED
  BY <1>1, <1>4, <1>6 DEF RInv

-----------------------------------------------------------------------------
(* apply-proposal and everybody around it.                                 *)

\* A step of one run leaves every other run and attempt alone; a finished run
\* takes none.  An attempt that this step writes is in progress, or the run
\* has returned.
LEMMA RunStepShape ==
    ASSUME Inv, Faithful, NEW a \in Appliers, Step(a) \/ Die(a)
    PROVE  /\ run[a].pc \notin {"done", "dead"}
           /\ \A b \in Appliers : b # a => run'[b] = run[b] /\ attempt'[b] = attempt[b]
           /\ \/ attempt' = attempt
              \/ attempt'[a].state = "IN_PROGRESS"
              \/ run'[a].pc = "done"
<1> PICK r \in Run : r = run[a]
  BY RunFacts
<1>0. /\ run \in [Appliers -> Run] /\ attempt \in [Appliers -> Status] /\ r.status \in Status
      /\ Ledger(r, attempt[a])
  BY DEF Inv, PerRun, Faithful, Telling, Run
<1>1. CASE Gate(a)
  <2>1. r.pc \in {"idle", "status1", "spec2", "status2", "spec3", "status3", "spec4", "status4"}
    BY <1>1 DEF Gate, StartRun, Preflight, ReReadSpec, Revalidate, ReadSpecBeforeBinding,
                revalidateBeforeBinding, ReadSpecBeforeMutation,
                revalidateAttemptBeforeMutation, ReadSpec, ReadStatus, At
  <2>2. attempt' = attempt /\ \E s : Become(a, s)
    BY <1>1 DEF Gate, StartRun, Preflight, ReReadSpec, Revalidate, ReadSpecBeforeBinding,
                revalidateBeforeBinding, ReadSpecBeforeMutation,
                revalidateAttemptBeforeMutation, ReadSpec, ReadStatus
  <2> QED
    BY <1>0, <2>1, <2>2 DEF Become
<1>2. CASE Readiness(a)
  <2>1. r.pc \in {"wait", "podlock"} /\ attempt' = attempt /\ \E s : Become(a, s)
    BY <1>2 DEF Readiness, waitForEnforcementReady, validatePodLockBeforeBinding, At
  <2> QED
    BY <1>0, <2>1 DEF Become
<1>3. CASE Mutation(a)
  <2>1. r.pc \in Dispatched \cup {"before"}
    BY <1>3 DEF Mutation, ReadBefore, GetBeforeMutation, WriteLive, Refetch, DeletePod,
                waitForDynamicPodGone, CreatePod, ObserveSuccess, ObserveFailure, At, Dispatched
  <2>2. attempt' = attempt /\ \E s : Become(a, s)
    BY <1>3 DEF Mutation, ReadBefore, GetBeforeMutation, WriteLive, Refetch, DeletePod,
                waitForDynamicPodGone, CreatePod, ObserveSuccess, ObserveFailure, Landed, Rejected
  <2> QED
    BY <1>0, <2>1, <2>2 DEF Become, Dispatched
<1>4. CASE Die(a)
  <2>1. r.pc \notin {"done", "dead"} /\ attempt' = attempt /\ \E s : Become(a, s)
    BY <1>4 DEF Die
  <2> QED
    BY <1>0, <2>1 DEF Become
<1>5. ASSUME NEW st \in Status, NEW ok, NEW failed, SaveStatus(a, st, ok, failed),
             \/ st.state = "IN_PROGRESS"
             \/ ok.pc = "done" /\ failed.pc = "done" /\ failed \in Run
      PROVE  /\ \A b \in Appliers : b # a => run'[b] = run[b] /\ attempt'[b] = attempt[b]
             /\ \/ attempt' = attempt
                \/ attempt'[a].state = "IN_PROGRESS"
                \/ run'[a].pc = "done"
  <2>1. /\ \E s : Become(a, s)
        /\ attempt' = attempt \/ attempt' = [attempt EXCEPT ![a] = st]
    BY <1>5 DEF SaveStatus
  <2>2. \A b \in Appliers : b # a => run'[b] = run[b] /\ attempt'[b] = attempt[b]
    BY <1>0, <2>1 DEF Become
  <2>3. CASE st.state = "IN_PROGRESS"
    BY <1>0, <2>1, <2>2, <2>3
  <2>4. CASE ok.pc = "done" /\ failed.pc = "done" /\ failed \in Run
    <3>1. [failed EXCEPT !.stale = TRUE].pc = "done"
      BY <2>4 DEF Run
    <3>2. run'[a].pc = "done"
      BY <1>0, <1>5, <2>4, <3>1 DEF SaveStatus, Become
    <3> QED
      BY <2>2, <3>2
  <2> QED
    BY <1>5, <2>3, <2>4
<1>6. CASE CreateAttempt(a)
  <2>1. r.pc = "create" /\ attempt' = attempt /\ \E s : Become(a, s)
    BY <1>6 DEF CreateAttempt, At
  <2> QED
    BY <1>0, <2>1 DEF Become
<1>7. CASE BeginAttempt(a)
  <2>1. PICK s : s = [run[a] EXCEPT !.status.state = "IN_PROGRESS"]
    OBVIOUS
  <2>2. r.pc = "begin" /\ SaveStatus(a, s.status, Continue(s), Stop(s))
    BY <1>7, <2>1 DEF BeginAttempt, At
  <2>3. s.status \in Status /\ s.status.state = "IN_PROGRESS"
    BY <1>0, <2>1 DEF Run, Status
  <2> QED
    BY <1>5, <2>2, <2>3
<1>8. CASE PersistIntent(a)
  <2>1. r.pc = "intent"
    BY <1>8 DEF PersistIntent, At
  <2>2. /\ Current(r) \in Artifacts /\ r.held \in Object /\ r.status.state = "IN_PROGRESS"
    BY <1>0, <2>1, RunFacts DEF Looping, Ledger, Run
  <2>3. PICK st : st = [r.status EXCEPT !.mutations[Current(r)] = mutationRecordFor(r.held)]
    OBVIOUS
  <2>4. st \in Status /\ st.state = "IN_PROGRESS"
    BY <1>0, <2>2, <2>3, RecordOfObject DEF Status
  <2>5. \E ok, failed : SaveStatus(a, st, ok, failed)
    BY <1>8, <2>3 DEF PersistIntent
  <2> QED
    BY <1>5, <2>1, <2>4, <2>5
<1>9. CASE PersistResult(a)
  <2>1. r.pc = "result"
    BY <1>9 DEF PersistResult, At
  <2>2. r.status.state = "IN_PROGRESS"
    BY <1>0, <2>1 DEF Looping, Dispatched, Ledger
  <2>3. \E ok, failed : SaveStatus(a, r.status, ok, failed)
    BY <1>9 DEF PersistResult
  <2> QED
    BY <1>0, <1>5, <2>1, <2>2, <2>3
<1>10. CASE PersistLast(a)
  <2>1. r.pc = "last" /\ SaveStatus(a, r.status, Stop(r), Stop(r))
    BY <1>10 DEF PersistLast, At
  <2>2. Stop(r) \in Run /\ Stop(r).pc = "done"
    BY DEF Stop, Run, PCs
  <2> QED
    BY <1>0, <1>5, <2>1, <2>2
<1> QED
  BY <1>1, <1>2, <1>3, <1>4, <1>6, <1>7, <1>8, <1>9, <1>10 DEF Step, Custody

\* Terminal attempts are frozen, and stay so.
LEMMA ApplyFreezes ==
    ASSUME Inv, Faithful, Frozen, [Next]_vars
    PROVE  Settled /\ Frozen'
<1>1. ASSUME NEW a \in Appliers, Step(a) \/ Die(a)
      PROVE  Settled /\ Frozen'
  BY <1>1, RunStepShape DEF Settled, Frozen, Terminal
<1>2. ASSUME UNCHANGED <<run, attempt>>
      PROVE  Settled /\ Frozen'
  BY <1>2 DEF Settled, Frozen
<1>3. CASE \E o \in Artifacts : Others(o)
  BY <1>2, <1>3 DEF Others, ExternalWrite, ExternalTouch, ExternalCreate, ExternalDelete, Edit,
                    Reconcile, PodGone
<1>4. CASE Review
  BY <1>2, <1>4 DEF Review, SaveProposal, Approve, Reject, ReplaceProposal, WriteProposal
<1>5. CASE UNCHANGED vars
  BY <1>2, <1>5 DEF vars
<1> QED
  BY <1>1, <1>3, <1>4, <1>5 DEF Next

\* Storing an object, deleting it, and leaving all of them alone are steps forward.
LEMMA StoringIsForward ==
    ASSUME live \in [Artifacts -> Object], version \in [Artifacts -> Nat],
           \/ \E o \in Artifacts : \E obj : Store(o, obj)
           \/ \E o \in Artifacts : live' = [live EXCEPT ![o] = Absent] /\ version' = version
           \/ live' = live /\ version' = version
    PROVE  Forward
<1>1. ASSUME NEW o \in Artifacts, NEW obj, Store(o, obj)
      PROVE  Forward
  <2>1. /\ version'[o] = version[o] + 1 /\ version[o] \in Nat
        /\ \A q \in Artifacts : q # o => version'[q] = version[q] /\ live'[q] = live[q]
        /\ \A q \in Artifacts : version[q] \in Nat
    BY <1>1 DEF Store
  <2>2. ASSUME NEW q \in Artifacts
        PROVE  /\ version[q] =< version'[q]
               /\ version'[q] = version[q] => live'[q] = live[q] \/ live'[q] = Absent
    <3>1. CASE q = o
      <4>1. version[q] =< version[q] + 1 /\ version[q] + 1 # version[q]
        BY <2>1
      <4> QED
        BY <2>1, <3>1, <4>1
    <3>2. CASE q # o
      BY <2>1, <3>2
    <3> QED
      BY <3>1, <3>2
  <2> QED
    BY <2>2 DEF Forward
<1>2. ASSUME NEW o \in Artifacts, live' = [live EXCEPT ![o] = Absent], version' = version
      PROVE  Forward
  <2>1. \A q \in Artifacts : live'[q] = live[q] \/ live'[q] = Absent
    BY <1>2
  <2> QED
    BY <1>2, <2>1 DEF Forward
<1>3. CASE live' = live /\ version' = version
  BY <1>3 DEF Forward
<1> QED
  BY <1>1, <1>2, <1>3

\* Every step of apply-proposal and its surroundings is one.
LEMMA ApplyIsForward ==
    ASSUME Inv, [Next]_vars
    PROVE  Forward
<1>0. live \in [Artifacts -> Object] /\ version \in [Artifacts -> Nat]
  BY DEF Inv, Rest
<1>1. ASSUME NEW a \in Appliers, Step(a) \/ Die(a)
      PROVE  Forward
  <2>1. CASE Gate(a) \/ Custody(a) \/ Readiness(a) \/ Die(a)
    <3>1. UNCHANGED Cluster
      BY <2>1 DEF Gate, StartRun, Preflight, ReReadSpec, Revalidate, ReadSpecBeforeBinding,
                  revalidateBeforeBinding, ReadSpecBeforeMutation,
                  revalidateAttemptBeforeMutation, ReadSpec, ReadStatus,
                  Custody, CreateAttempt, BeginAttempt, PersistIntent, PersistResult, PersistLast,
                  SaveStatus, Readiness, waitForEnforcementReady, validatePodLockBeforeBinding, Die
    <3> QED
      BY <1>0, <3>1, StoringIsForward DEF Cluster
  <2>2. CASE WriteLive(a) \/ DeletePod(a) \/ CreatePod(a)
    <3>1. run[a].pc \in Looping
      BY <2>2 DEF WriteLive, DeletePod, CreatePod, At, Looping, Dispatched
    <3>2. PICK o \in Artifacts : o = Current(run[a])
      BY <3>1, RunFacts
    <3>3. \/ \E obj, next : Landed(a, o, obj, next)
          \/ UNCHANGED Cluster
      BY <2>2, <3>2 DEF WriteLive, DeletePod, CreatePod, Rejected
    <3>4. \/ \E obj : Store(o, obj)
          \/ live' = live /\ version' = version
      BY <3>3 DEF Landed, Cluster
    <3> QED
      BY <1>0, <3>4, StoringIsForward
  <2>3. CASE \/ ReadBefore(a) \/ GetBeforeMutation(a) \/ Refetch(a) \/ waitForDynamicPodGone(a)
             \/ ObserveSuccess(a) \/ ObserveFailure(a)
    <3>1. UNCHANGED Cluster
      BY <2>3 DEF ReadBefore, GetBeforeMutation, Refetch, Rejected, waitForDynamicPodGone,
                  ObserveSuccess, ObserveFailure
    <3> QED
      BY <1>0, <3>1, StoringIsForward DEF Cluster
  <2> QED
    BY <1>1, <2>1, <2>2, <2>3 DEF Step, Mutation
<1>2. ASSUME NEW o \in Artifacts, Others(o)
      PROVE  Forward
  <2>1. \/ \E obj : Store(o, obj)
        \/ live' = [live EXCEPT ![o] = Absent] /\ version' = version
    BY <1>2 DEF Others, ExternalWrite, ExternalTouch, ExternalCreate, ExternalDelete, Edit,
                Reconcile, PodGone
  <2> QED
    BY <1>0, <2>1, StoringIsForward
<1>3. CASE Review \/ UNCHANGED vars
  <2>1. live' = live /\ version' = version
    BY <1>3 DEF Review, SaveProposal, Approve, Reject, ReplaceProposal, WriteProposal, vars
  <2> QED
    BY <1>0, <2>1, StoringIsForward
<1> QED
  BY <1>1, <1>2, <1>3 DEF Next

\* The apply side keeps what every rollback relies on.
LEMMA ApplySideStep ==
    ASSUME RInv, ApplySide
    PROVE  RInv'
<1>1. Next /\ UNCHANGED <<epoch, rb, rattempt, inverted>>
  BY DEF ApplySide
<1>2. Inv' /\ Faithful'
  BY <1>1, NextInv, NextFaithful DEF RInv
<1>3. Settled /\ Frozen' /\ Forward
  BY <1>1, ApplyFreezes, ApplyIsForward DEF RInv
<1>4. Remembered
  BY <1>1 DEF Remembered
<1>5. RTypes'
  BY <1>1 DEF RInv, RTypes, ApplySide
<1>6. version \in [Artifacts -> Nat] /\ version' \in [Artifacts -> Nat]
  BY <1>2 DEF RInv, Inv, Rest
<1>7. ASSUME NEW c \in Rollbackers
      PROVE  RLedger(rb'[c], rattempt'[c], inverted'[c]) /\ Bound(rb[c])'
  <2>1. PICK s \in Rollbacks : s = rb[c]
    BY DEF RInv, RTypes
  <2>2. RLedger(s, rattempt[c], inverted[c]) /\ Bound(s)
    BY <2>1 DEF RInv
  <2>3. Bound(s)'
    BY <1>3, <1>4, <1>6, <2>2, BoundKept
  <2> QED
    BY <1>1, <2>1, <2>2, <2>3 DEF Bound, BindingFirst
<1> QED
  BY <1>2, <1>3, <1>5, <1>7 DEF RInv

\* An activation changes the epoch only.
LEMMA EpochStep ==
    ASSUME RInv, runCustodyEpochActivate
    PROVE  RInv'
<1>1. UNCHANGED <<vars, born, rb, rattempt, inverted>> /\ epoch' \in 0 .. MaxEpoch
  BY RollbackConstants DEF runCustodyEpochActivate, RInv, RTypes
<1>2. UNCHANGED <<prop, live, version, run, attempt, touched, late, used>>
  BY <1>1 DEF vars
<1>3. Inv' /\ Faithful'
  <2>1. [Next]_vars
    BY <1>1
  <2> QED
    BY <2>1, NextInv, NextFaithful DEF RInv
<1>4. Frozen' /\ RTypes'
  BY <1>1, <1>2 DEF RInv, Frozen, RTypes
<1> QED
  BY <1>1, <1>2, <1>3, <1>4 DEF RInv, Bound, BindingFirst
-----------------------------------------------------------------------------
(* The inverses and the two invariants of the apply side.                  *)

\* A step of a rollback that leaves the cluster alone.
LEMMA QuietStep ==
    ASSUME Inv, Faithful, Fault \/ NoFault,
           UNCHANGED <<Cluster, run, attempt, History>>
    PROVE  Inv' /\ Faithful' /\ Forward
<1>1. UNCHANGED <<prop, live, version, run, attempt, touched, late>>
  BY DEF Cluster, History
<1>2. Rest'
  BY <1>1, FaultsBounded DEF Inv, Rest
<1>3. Inv'
  BY <1>1, <1>2, OutsideStep DEF Inv, PerRun
<1>4. Faithful'
  BY <1>1 DEF Faithful
<1> QED
  BY <1>1, <1>3, <1>4, StoringIsForward DEF Inv, Rest

\* An inverse that takes effect on o; no run counts its change to o any more.
LEMMA InverseStep ==
    ASSUME Inv, Faithful, Fault \/ NoFault, NEW o \in Artifacts, NEW obj \in Object,
           \/ Store(o, obj) /\ obj.uid # 0
           \/ live' = [live EXCEPT ![o] = Absent] /\ version' = version,
           touched' = [a \in Appliers |-> touched[a] \ {o}],
           UNCHANGED <<prop, run, attempt, late>>
    PROVE  Inv' /\ Faithful' /\ Forward
<1>0. /\ live \in [Artifacts -> Object] /\ version \in [Artifacts -> Nat]
      /\ WorldOK(live, version)
      /\ touched \in [Appliers -> SUBSET Artifacts]
      /\ \A a \in Appliers :
            /\ Good(run[a], attempt[a], touched[a]) /\ attempt[a] \in Status
            /\ Telling(run[a], attempt[a], touched[a], late[a], prop, live, version)
  BY DEF Inv, Rest, PerRun, Faithful
<1>1. Forward
  BY <1>0, StoringIsForward
<1>2. live' \in [Artifacts -> Object] /\ version' \in [Artifacts -> Nat]
  BY <1>0, StoreTypes, Constants
<1>3. Rest'
  BY <1>2, FaultsBounded DEF Inv, Rest
<1>4. /\ touched' \in [Appliers -> SUBSET Artifacts]
      /\ \A a \in Appliers : touched'[a] \subseteq touched[a] /\ o \notin touched'[a]
  BY <1>0
<1>5. Inv'
  BY <1>3, <1>4, OutsideStep
<1>6. CASE Store(o, obj) /\ obj.uid # 0
  <2>1. /\ version' = [version EXCEPT ![o] = @ + 1]
        /\ live' = [live EXCEPT ![o] = [obj EXCEPT !.rv = version[o] + 1]]
    BY <1>6 DEF Store
  <2>2. WorldOK(live', version')
    BY <1>0, <1>6, <2>1, StoreWorld
  <2>3. ASSUME NEW a \in Appliers
        PROVE  Telling(run[a], attempt[a], touched'[a], late[a], prop, live', version')
    <3>1. PICK t \in SUBSET touched[a] : t = touched'[a]
      BY <1>4
    <3>2. /\ Good(run[a], attempt[a], touched[a]) /\ attempt[a] \in Status
          /\ Telling(run[a], attempt[a], touched[a], late[a], prop, live, version)
          /\ o \notin t
      BY <1>0, <1>4, <3>1
    <3>3. Telling(run[a], attempt[a], t, late[a], prop, live', version')
      BY <1>0, <2>1, <3>2, StoreTelling
    <3> QED
      BY <3>1, <3>3
  <2>4. Faithful'
    BY <2>2, <2>3 DEF Faithful
  <2> QED
    BY <1>1, <1>5, <2>4
<1>7. CASE live' = [live EXCEPT ![o] = Absent] /\ version' = version
  <2>1. WorldOK(live', version')
    BY <1>0, <1>7 DEF WorldOK
  <2>2. ASSUME NEW a \in Appliers
        PROVE  Telling(run[a], attempt[a], touched'[a], late[a], prop, live', version)
    BY <1>0, <1>4, <1>7, GoneTelling
  <2>3. Faithful'
    BY <1>7, <2>1, <2>2 DEF Faithful
  <2> QED
    BY <1>1, <1>5, <2>3
<1> QED
  BY <1>1, <1>5, <1>6, <1>7

-----------------------------------------------------------------------------
(* Steps of one rollback.                                                  *)

\* The facts about rollback b every step starts from.
LEMMA RFacts ==
    ASSUME RInv, NEW b \in Rollbackers
    PROVE  /\ rb[b] \in Rollbacks /\ rattempt[b] \in RStatus /\ inverted[b] \in SUBSET Artifacts
           /\ RLedger(rb[b], rattempt[b], inverted[b]) /\ Bound(rb[b])
           /\ RTrue(rattempt[b], inverted[b])
           /\ rb[b].pc # "idle" => rb[b].src \in Appliers
           /\ rb[b].pc \in Chosen => /\ rb[b].todo # {}
                                     /\ Latest(rb[b]) \in rb[b].todo /\ Latest(rb[b]) \in Artifacts
<1>1. /\ rb[b] \in Rollbacks /\ rattempt[b] \in RStatus /\ inverted[b] \in SUBSET Artifacts
      /\ RLedger(rb[b], rattempt[b], inverted[b]) /\ Bound(rb[b])
  BY DEF RInv, RTypes
<1>2. RTrue(rattempt[b], inverted[b]) /\ (rb[b].pc # "idle" => rb[b].src \in Appliers)
  BY <1>1 DEF RLedger, Bound
<1>3. rb[b].pc \in Chosen => rb[b].todo # {}
  BY <1>1 DEF RLedger
<1> QED
  BY <1>1, <1>2, <1>3, LatestIsGreatest

\* A step that changes nothing but the rollback's memory.
LEMMA MemoryStep ==
    ASSUME RInv, NEW b \in Rollbackers, NEW r \in Rollbacks,
           RLedger(r, rattempt[b], inverted[b]), Bound(r),
           r.src = rb[b].src \/ inverted[b] = {},
           RBecome(b, r), Fault \/ NoFault,
           UNCHANGED <<Cluster, run, attempt, History, epoch, born, rattempt, inverted>>
    PROVE  RInv'
<1>1. UNCHANGED <<Cluster, run, attempt, History>> /\ UNCHANGED <<epoch, born, rattempt, inverted>>
  OBVIOUS
<1>2. Inv' /\ Faithful' /\ Forward
  BY <1>1, QuietStep DEF RInv
<1>3. /\ rattempt' = [rattempt EXCEPT ![b] = rattempt[b]]
      /\ inverted' = [inverted EXCEPT ![b] = inverted[b]]
      /\ rattempt[b] \in RStatus /\ inverted[b] \in SUBSET Artifacts
  BY DEF RInv, RTypes
<1> QED
  BY <1>1, <1>2, <1>3, RollbackStep DEF RBecome

\* A request that changes nothing, answered or not.
LEMMA AskStep ==
    ASSUME RInv, NEW b \in Rollbackers, NEW pc, NEW ok \in Rollbacks, NEW failed \in Rollbacks,
           Ask(b, pc, ok, failed),
           RLedger(ok, rattempt[b], inverted[b]), Bound(ok),
           RLedger(failed, rattempt[b], inverted[b]), Bound(failed),
           ok.src = rb[b].src \/ inverted[b] = {},
           failed.src = rb[b].src \/ inverted[b] = {}
    PROVE  RInv'
<1>1. UNCHANGED <<Cluster, run, attempt, History, epoch, born, rattempt, inverted>>
  BY DEF Ask
<1>2. CASE NoFault /\ RBecome(b, ok)
  BY <1>1, <1>2, MemoryStep
<1>3. CASE Fault /\ RBecome(b, failed)
  BY <1>1, <1>3, MemoryStep
<1> QED
  BY <1>2, <1>3 DEF Ask

\* A status write keeps the invariant when what it writes is true, whichever
\* way the request goes.
LEMMA SaveStep ==
    ASSUME RInv, NEW b \in Rollbackers, NEW st \in RStatus,
           NEW ok \in Rollbacks, NEW failed \in Rollbacks,
           SaveRollbackStatus(b, st, ok, failed),
           RLedger(ok, st, inverted[b]), Bound(ok), ok.src = rb[b].src,
           RLedger(failed, rattempt[b], inverted[b]), RLedger(failed, st, inverted[b]),
           Bound(failed), failed.src = rb[b].src, failed.pc \in {"last", "done"}
    PROVE  RInv'
<1>1. UNCHANGED <<Cluster, run, attempt, History>> /\ UNCHANGED <<epoch, born, inverted>>
  BY DEF SaveRollbackStatus
<1>2. Fault \/ NoFault
  BY DEF SaveRollbackStatus
<1>3. Inv' /\ Faithful' /\ Forward
  BY <1>1, <1>2, QuietStep DEF RInv
<1>4. /\ inverted' = [inverted EXCEPT ![b] = inverted[b]]
      /\ rattempt[b] \in RStatus /\ inverted[b] \in SUBSET Artifacts
  BY <1>1 DEF RInv, RTypes
<1>5. CASE rattempt' = [rattempt EXCEPT ![b] = st] /\ RBecome(b, ok)
  BY <1>1, <1>3, <1>4, <1>5, RollbackStep DEF RBecome
<1>6. CASE rattempt' = [rattempt EXCEPT ![b] = st] /\ RBecome(b, [failed EXCEPT !.stale = TRUE])
  <2>1. PICK s : s = [failed EXCEPT !.stale = TRUE]
    OBVIOUS
  <2>2. /\ s \in Rollbacks /\ s.pc = failed.pc /\ s.src = failed.src /\ s.source = failed.source
        /\ s.todo = failed.todo /\ s.status = failed.status
    BY <2>1 DEF Rollbacks
  <2>3. RLedger(s, st, inverted[b])
    BY <2>2 DEF RLedger, RStarting, Chosen, Inverting
  <2>4. Bound(s)
    BY <2>2 DEF Bound, Qualified, Chosen, Inverting
  <2> QED
    BY <1>1, <1>3, <1>4, <1>6, <2>1, <2>2, <2>3, <2>4, RollbackStep DEF RBecome
<1>7. CASE UNCHANGED rattempt /\ RBecome(b, failed)
  <2>1. rattempt' = [rattempt EXCEPT ![b] = rattempt[b]]
    BY <1>7 DEF RInv, RTypes
  <2> QED
    BY <1>1, <1>3, <1>4, <1>7, <2>1, RollbackStep DEF RBecome
<1> QED
  BY <1>5, <1>6, <1>7 DEF SaveRollbackStatus

\* Within one inverse: only the point it has reached changes.
LEMMA InvertingLedger ==
    ASSUME NEW r \in Rollbacks, NEW st \in RStatus, NEW done \in SUBSET Artifacts,
           RLedger(r, st, done), r.pc \in Inverting,
           NEW new \in Rollbacks, new.pc \in Inverting,
           new.todo = r.todo, new.status = r.status, new.stale = r.stale,
           NEW done2, done2 = done \/ done2 = done \cup {Latest(r)},
           Point(new, st, done2, Latest(r)),
           Latest(r) \in done2 => st.inverse[Latest(r)] = "OUTCOME_UNKNOWN"
    PROVE  RLedger(new, st, done2)
<1>1. /\ ~r.stale /\ r.status = st /\ st.state = "IN_PROGRESS" /\ r.todo # {}
      /\ \A o \in Artifacts \ {Latest(r)} :
            st.inverse[o] \in {"NONE", "SUCCEEDED"} /\ (o \in done <=> st.inverse[o] = "SUCCEEDED")
      /\ \A o \in r.todo \ {Latest(r)} : o \notin done
      /\ RTrue(st, done)
  BY DEF RLedger, Chosen
<1>2. Latest(new) = Latest(r)
  BY DEF Latest
<1>3. RTrue(st, done2)
  BY <1>1 DEF RTrue, Inverses
<1>4. new.pc \notin RStarting /\ new.pc # "last"
  BY DEF Inverting, RStarting
<1> QED
  BY <1>1, <1>2, <1>3, <1>4 DEF RLedger

\* And the bindings of a rollback that is past its choice.
LEMMA ChosenBound ==
    ASSUME NEW r \in Rollbacks, Bound(r), r.pc \in Chosen,
           NEW new \in Rollbacks, new.pc \in Chosen,
           new.src = r.src, new.source = r.source, new.todo = r.todo,
           new.pc \in {"workload", "refs", "dispatch"} => new.held = SourceRecord(r).attributable,
           new.pc = "refs" => Latest(r) = Workload,
           new.pc = "dispatch" /\ WasCreated(SourceRecord(r)) /\ Latest(r) # Workload
              => Unreferenced(new, Latest(r), live, version)
    PROVE  Bound(new)
<1>1. Latest(new) = Latest(r) /\ SourceRecord(new) = SourceRecord(r)
  BY DEF Latest, SourceRecord
<1>2. /\ r.src \in Appliers /\ r.source.state \in Terminal /\ attempt[r.src] = r.source
      /\ \A o \in r.todo : r.source.mutations[o].attributable # 0
      /\ BindingFirst(r)
  BY DEF Bound, Chosen, Qualified, Inverting
<1>3. BindingFirst(new)
  BY <1>2 DEF BindingFirst
<1> QED
  BY <1>1, <1>2, <1>3 DEF Bound, Chosen, Inverting

-----------------------------------------------------------------------------
(* Qualification.                                                          *)

\* An operator names a source attempt.
LEMMA ReadSourceStep ==
    ASSUME RInv, NEW b \in Rollbackers, ReadSource(b)
    PROVE  RInv'
<1> PICK r \in Rollbacks : r = rb[b]
  BY RFacts
<1>0. PICK a \in Appliers :
         /\ attempt[a].state # ""
         /\ Ask(b, "idle", RGoto([r EXCEPT !.src = a, !.source = attempt[a]], "epoch"),
                           RStop([r EXCEPT !.src = a, !.source = attempt[a]]))
  BY DEF ReadSource
<1>1. r.pc = "idle"
  BY <1>0 DEF Ask, RAt
<1>2. attempt[a] \in Status
  BY DEF RInv, Inv, PerRun
<1>3. PICK s : s = [r EXCEPT !.src = a, !.source = attempt[a]]
  OBVIOUS
<1>4. PICK ok : ok = RGoto(s, "epoch")
  OBVIOUS
<1>5. /\ ok \in Rollbacks /\ ok.pc = "epoch" /\ ok.src = a /\ ok.source = attempt[a]
      /\ ok.status = r.status /\ ok.stale = r.stale /\ s.src = a
  BY <1>2, <1>3, <1>4 DEF RGoto, Rollbacks, RPCs
<1>6. /\ r.status = NoRStatus /\ rattempt[b] = NoRStatus /\ inverted[b] = {} /\ ~r.stale
      /\ RTrue(rattempt[b], inverted[b])
  BY <1>1, RFacts DEF RLedger, RStarting
<1>7. RLedger(ok, rattempt[b], inverted[b])
  BY <1>5, <1>6 DEF RLedger, RStarting, Chosen, Inverting
<1>8. Bound(ok)
  BY <1>0, <1>5 DEF Bound, Qualified, Chosen, Inverting
<1>9. PICK failed \in Rollbacks : failed = RStop(s)
  BY <1>5, <1>6, Ended
<1>10. RLedger(failed, rattempt[b], inverted[b]) /\ Bound(failed)
  BY <1>5, <1>6, <1>9, Ended
<1>11. Ask(b, "idle", ok, failed)
  BY <1>0, <1>3, <1>4, <1>9
<1> QED
  BY <1>5, <1>6, <1>7, <1>8, <1>9, <1>10, <1>11, AskStep

\* A qualification step that goes on to another one keeps the ledger.
LEMMA StartingLedger ==
    ASSUME NEW r \in Rollbacks, NEW st, NEW done, RLedger(r, st, done), r.pc \in RStarting,
           NEW new \in Rollbacks, new.pc \in RStarting,
           new.status = r.status, new.stale = r.stale,
           new.pc \in {"confirm", "create", "begin"} => new.todo # {}
    PROVE  RLedger(new, st, done)
BY DEF RLedger, RStarting, Chosen, Inverting

\* The custody epoch is compared and a source in progress is refused.
LEMMA EpochCheckStep ==
    ASSUME RInv, NEW b \in Rollbackers, CustodyEpochAndHardening(b)
    PROVE  RInv'
<1> PICK r \in Rollbacks : r = rb[b]
  BY RFacts
<1>1. r.pc = "epoch"
  BY DEF CustodyEpochAndHardening, Ask, RAt
<1>2. PICK failed \in Rollbacks : failed = RStop(r)
  BY <1>1, RFacts, Ended
<1>3. RLedger(failed, rattempt[b], inverted[b]) /\ Bound(failed) /\ failed.src = r.src
  BY <1>1, <1>2, RFacts, Ended
<1>4. PICK ok : ok = RGoto(r, "history")
  OBVIOUS
<1>5. /\ ok \in Rollbacks /\ ok.pc = "history" /\ ok.src = r.src /\ ok.source = r.source
      /\ ok.status = r.status /\ ok.stale = r.stale /\ r.source \in Status
  BY <1>4 DEF RGoto, Rollbacks, RPCs
<1>6. RLedger(ok, rattempt[b], inverted[b])
  BY <1>1, <1>5, RFacts, StartingLedger DEF RStarting
<1>7. ASSUME r.source.state # "IN_PROGRESS"
      PROVE  Bound(ok)
  <2>1. r.source.state # "" /\ r.src \in Appliers
    BY <1>1, RFacts DEF Bound
  <2>2. r.source.state \in Terminal
    BY <1>5, <1>7, <2>1 DEF Status
  <2>3. attempt[r.src] = r.source
    BY <2>2, RFacts DEF Bound
  <2> QED
    BY <1>5, <2>1, <2>2, <2>3 DEF Bound, Chosen, Inverting
<1>8. \/ Ask(b, "epoch", failed, failed)
      \/ Ask(b, "epoch", ok, failed) /\ r.source.state # "IN_PROGRESS"
  BY <1>2, <1>4 DEF CustodyEpochAndHardening
<1>9. CASE Ask(b, "epoch", failed, failed)
  BY <1>3, <1>9, AskStep
<1>10. CASE Ask(b, "epoch", ok, failed) /\ r.source.state # "IN_PROGRESS"
  BY <1>3, <1>5, <1>6, <1>7, <1>10, AskStep
<1> QED
  BY <1>8, <1>9, <1>10

\* The records to invert are chosen from the attempts of earlier rollbacks.
\* A binding that is left out was inverted by one of them.
LEMMA HistoryStep ==
    ASSUME RInv, NEW b \in Rollbackers, rollbackHistory(b)
    PROVE  RInv'
<1> PICK r \in Rollbacks : r = rb[b]
  BY RFacts
<1> DEFINE completed == Descendants(b, {"SUCCEEDED"})
           unknown == Descendants(b, {"OUTCOME_UNKNOWN"})
<1>1. r.pc = "history"
  BY DEF rollbackHistory, Ask, RAt
<1>2. PICK failed \in Rollbacks : failed = RStop(r)
  BY <1>1, RFacts, Ended
<1>3. RLedger(failed, rattempt[b], inverted[b]) /\ Bound(failed) /\ failed.src = r.src
  BY <1>1, <1>2, RFacts, Ended
<1>4. PICK todo : todo = Eligible(r, completed, unknown)
  OBVIOUS
<1>5. PICK ok : ok = [r EXCEPT !.pc = "confirm", !.todo = todo]
  OBVIOUS
<1>6. ASSUME todo # {}
      PROVE  /\ todo = {o \in Succeeded(r.source) \ completed : r.source.mutations[o].attributable # 0}
             /\ todo \in SUBSET Artifacts
  BY <1>4, <1>6 DEF Eligible, Succeeded
<1>7. ASSUME todo # {}
      PROVE  /\ ok \in Rollbacks /\ ok.pc = "confirm" /\ ok.src = r.src /\ ok.source = r.source
             /\ ok.status = r.status /\ ok.stale = r.stale /\ ok.todo = todo
  BY ZenonT(60), <1>5, <1>6, <1>7 DEF Rollbacks, RPCs
<1>8. ASSUME todo # {}
      PROVE  RLedger(ok, rattempt[b], inverted[b])
  BY <1>1, <1>7, <1>8, RFacts, StartingLedger DEF RStarting
<1>9. ASSUME todo # {}
      PROVE  Bound(ok)
  <2>1. /\ r.src \in Appliers /\ r.source.state \in Terminal /\ attempt[r.src] = r.source
    BY <1>1, RFacts DEF Bound, Qualified
  <2>2. \A o \in todo : r.source.mutations[o].attributable # 0
    BY <1>6, <1>9
  <2>3. ASSUME Workload \in completed
        PROVE  \E c \in Rollbackers : rb[c].src = r.src /\ Workload \in inverted[c]
    <3>1. PICK c \in Rollbackers : /\ rb[c].src = r.src /\ Workload \in Artifacts
                                   /\ rattempt[c].inverse[Workload] = "SUCCEEDED"
      BY <2>3 DEF Descendants
    <3>2. Workload \in inverted[c]
      BY <3>1, RFacts DEF RTrue, Inverses
    <3> QED
      BY <3>1, <3>2
  <2>4. BindingFirst(ok)
    BY <1>6, <1>7, <1>9, <2>3 DEF BindingFirst
  <2> QED
    BY <1>7, <1>9, <2>1, <2>2, <2>4 DEF Bound, Inverting
<1>10. \/ Ask(b, "history", failed, failed)
       \/ Ask(b, "history", ok, failed) /\ todo # {}
  BY <1>2, <1>4, <1>5 DEF rollbackHistory
<1>11. CASE Ask(b, "history", failed, failed)
  BY <1>3, <1>11, AskStep
<1>12. CASE Ask(b, "history", ok, failed) /\ todo # {}
  BY <1>3, <1>7, <1>8, <1>9, <1>12, AskStep
<1> QED
  BY <1>10, <1>11, <1>12

\* The confirmation and the creation of the RollbackAttempt only go on.
LEMMA ConfirmStep ==
    ASSUME RInv, NEW b \in Rollbackers, ConfirmAndReRead(b) \/ CreateRollback(b)
    PROVE  RInv'
<1> PICK r \in Rollbacks : r = rb[b]
  BY RFacts
<1>1. r.pc \in {"confirm", "create"}
  BY DEF ConfirmAndReRead, CreateRollback, Ask, RAt
<1>2. PICK failed \in Rollbacks : failed = RStop(r)
  BY <1>1, RFacts, Ended
<1>3. RLedger(failed, rattempt[b], inverted[b]) /\ Bound(failed) /\ failed.src = r.src
  BY <1>1, <1>2, RFacts, Ended
<1>4. ASSUME NEW pc \in {"create", "begin"}
      PROVE  /\ RGoto(r, pc) \in Rollbacks /\ RGoto(r, pc).src = r.src
             /\ RLedger(RGoto(r, pc), rattempt[b], inverted[b]) /\ Bound(RGoto(r, pc))
  <2>1. PICK ok : ok = RGoto(r, pc)
    OBVIOUS
  <2>2. /\ ok \in Rollbacks /\ ok.pc = pc /\ ok.src = r.src /\ ok.source = r.source
        /\ ok.status = r.status /\ ok.stale = r.stale /\ ok.todo = r.todo
    BY ZenonT(60), <1>4, <2>1 DEF RGoto, Rollbacks, RPCs
  <2>3. r.todo # {} /\ r.pc \in Chosen /\ r.pc \in RStarting /\ Bound(r)
    BY <1>1, RFacts DEF Chosen, RStarting
  <2>4. RLedger(ok, rattempt[b], inverted[b])
    BY <1>4, <2>2, <2>3, RFacts, StartingLedger DEF RStarting
  <2>5. Bound(ok)
    BY <1>4, <2>2, <2>3, ChosenBound DEF Chosen
  <2> QED
    BY <2>1, <2>2, <2>4, <2>5
<1>5. \/ \E pc \in {"confirm", "create"} : Ask(b, pc, failed, failed)
      \/ \E pc \in {"confirm", "create"} : Ask(b, pc, RGoto(r, "create"), failed)
      \/ \E pc \in {"confirm", "create"} : Ask(b, pc, RGoto(r, "begin"), failed)
  BY <1>2 DEF ConfirmAndReRead, CreateRollback
<1>6. ASSUME NEW pc, Ask(b, pc, failed, failed)
      PROVE  RInv'
  BY <1>3, <1>6, AskStep
<1>7. ASSUME NEW pc, NEW x \in {"create", "begin"}, Ask(b, pc, RGoto(r, x), failed)
      PROVE  RInv'
  BY <1>3, <1>4, <1>7, AskStep
<1> QED
  BY <1>5, <1>6, <1>7

-----------------------------------------------------------------------------
(* Custody of the rollback.                                                *)

\* The first status of the RollbackAttempt.
LEMMA BeginRollbackStep ==
    ASSUME RInv, NEW b \in Rollbackers, BeginRollback(b)
    PROVE  RInv'
<1> PICK r \in Rollbacks : r = rb[b]
  BY RFacts
<1>1. PICK s : s = [r EXCEPT !.status.state = "IN_PROGRESS"]
  OBVIOUS
<1>2. r.pc = "begin" /\ SaveRollbackStatus(b, s.status, RContinue(s), RStop(s))
  BY <1>1 DEF BeginRollback, RAt
<1>3. PICK st : st = s.status
  OBVIOUS
<1>4. /\ r.status = NoRStatus /\ rattempt[b] = NoRStatus /\ inverted[b] = {} /\ ~r.stale
      /\ r.todo # {} /\ Latest(r) \in Artifacts /\ r.src \in Appliers
      /\ RTrue(rattempt[b], inverted[b])
  BY <1>2, RFacts DEF RLedger, RStarting, Chosen
<1>5. /\ s \in Rollbacks /\ s.pc = "begin" /\ s.src = r.src /\ s.source = r.source
      /\ s.todo = r.todo /\ s.stale = r.stale /\ st = [r.status EXCEPT !.state = "IN_PROGRESS"]
      /\ st \in RStatus /\ r.status \in RStatus
  BY <1>1, <1>2, <1>3 DEF Rollbacks, RStatus
<1>6. st.state = "IN_PROGRESS" /\ \A o \in Artifacts : st.inverse[o] = "NONE"
  <2>1. st.state = "IN_PROGRESS" /\ st.inverse = r.status.inverse
    BY <1>5 DEF RStatus
  <2>2. NoRStatus.inverse = [o \in Artifacts |-> "NONE"]
    BY DEF NoRStatus
  <2> QED
    BY <1>4, <2>1, <2>2
<1>7. RTrue(st, inverted[b])
  BY <1>4, <1>6 DEF RTrue, Inverses
<1>8. PICK failed \in Rollbacks : failed = RStop(s)
  BY <1>4, <1>5, Ended
<1>9. /\ RLedger(failed, rattempt[b], inverted[b]) /\ RLedger(failed, st, inverted[b])
      /\ Bound(failed) /\ failed.src = r.src /\ failed.pc = "done"
  BY <1>4, <1>5, <1>7, <1>8, Ended
<1>10. PICK ok : ok = RContinue(s)
  OBVIOUS
<1>11. ok = [s EXCEPT !.pc = "prepare"]
  BY <1>4, <1>5, <1>10 DEF RContinue, RGoto
<1>12. /\ ok \in Rollbacks /\ ok.pc = "prepare" /\ ok.src = r.src /\ ok.source = r.source
       /\ ok.todo = r.todo /\ ok.stale = r.stale /\ ok.status = st
  BY <1>3, <1>5, <1>11 DEF Rollbacks, RPCs
<1>13. Latest(ok) = Latest(r)
  BY <1>12 DEF Latest
<1>14. RLedger(ok, st, inverted[b])
  BY <1>4, <1>6, <1>7, <1>12, <1>13 DEF RLedger, RStarting, Chosen, Inverting, Point
<1>15. Bound(ok)
  BY <1>2, <1>12, RFacts, ChosenBound DEF Chosen, Inverting
<1> QED
  BY <1>2, <1>3, <1>5, <1>8, <1>9, <1>10, <1>12, <1>14, <1>15, SaveStep

\* The intent to invert is persisted before anything is dispatched.
LEMMA PersistInverseStep ==
    ASSUME RInv, NEW b \in Rollbackers, PersistInverse(b)
    PROVE  RInv'
<1> PICK r \in Rollbacks : r = rb[b]
  BY RFacts
<1>0. PICK o : o = Latest(r)
  OBVIOUS
<1>1. PICK s : s = [r EXCEPT !.status.inverse[o] = "OUTCOME_UNKNOWN"]
  OBVIOUS
<1>2. r.pc = "intent" /\ SaveRollbackStatus(b, s.status, RGoto(s, "get"), RStop(s))
  BY <1>0, <1>1 DEF PersistInverse, RAt
<1>3. PICK st : st = s.status
  OBVIOUS
<1>4. r.pc \in Inverting /\ r.pc \in Chosen /\ o \in Artifacts /\ r.src \in Appliers /\ r.todo # {}
  BY <1>0, <1>2, RFacts DEF Inverting, Chosen
<1>5. /\ ~r.stale /\ r.status = rattempt[b] /\ r.status.state = "IN_PROGRESS"
      /\ \A q \in Artifacts \ {o} :
            /\ r.status.inverse[q] \in {"NONE", "SUCCEEDED"}
            /\ q \in inverted[b] <=> r.status.inverse[q] = "SUCCEEDED"
      /\ \A q \in r.todo \ {o} : q \notin inverted[b]
      /\ o \notin inverted[b] /\ RTrue(rattempt[b], inverted[b])
  BY <1>0, <1>2, <1>4, RFacts DEF RLedger, Point
<1>6. /\ s \in Rollbacks /\ s.src = r.src /\ s.source = r.source /\ s.todo = r.todo
      /\ s.stale = r.stale /\ st = [r.status EXCEPT !.inverse[o] = "OUTCOME_UNKNOWN"]
      /\ st \in RStatus /\ r.status \in RStatus
  BY <1>1, <1>3, <1>4 DEF Rollbacks, RStatus
<1>7. /\ st.state = "IN_PROGRESS" /\ st.inverse[o] = "OUTCOME_UNKNOWN"
      /\ \A q \in Artifacts \ {o} : st.inverse[q] = r.status.inverse[q]
  BY ZenonT(60), <1>4, <1>5, <1>6 DEF RStatus
<1>8. inverted[b] \in SUBSET Artifacts
  BY RFacts
<1>9. RTrue(st, inverted[b])
  BY <1>5, <1>7, <1>8 DEF RTrue, Inverses
<1>10. PICK failed \in Rollbacks : failed = RStop(s)
  BY <1>4, <1>5, <1>6, Ended
<1>11. /\ RLedger(failed, rattempt[b], inverted[b]) /\ RLedger(failed, st, inverted[b])
       /\ Bound(failed) /\ failed.src = r.src /\ failed.pc = "done"
  BY <1>4, <1>5, <1>6, <1>9, <1>10, Ended
<1>12. PICK ok : ok = RGoto(s, "get")
  OBVIOUS
<1>13. /\ ok \in Rollbacks /\ ok.pc = "get" /\ ok.src = r.src /\ ok.source = r.source
       /\ ok.todo = r.todo /\ ok.stale = r.stale /\ ok.status = st
  BY <1>3, <1>6, <1>12 DEF RGoto, Rollbacks, RPCs
<1>14. Latest(ok) = o
  BY <1>0, <1>13 DEF Latest
<1>15. RLedger(ok, st, inverted[b])
  BY <1>4, <1>5, <1>7, <1>9, <1>13, <1>14 DEF RLedger, RStarting, Chosen, Inverting, Point
<1>16. Bound(ok)
  BY <1>4, <1>13, RFacts, ChosenBound DEF Chosen, Inverting
<1> QED
  BY <1>2, <1>3, <1>6, <1>10, <1>11, <1>12, <1>13, <1>15, <1>16, SaveStep

\* The last status write.
LEMMA PersistLastStep ==
    ASSUME RInv, NEW b \in Rollbackers, PersistLastRollback(b)
    PROVE  RInv'
<1> PICK r \in Rollbacks : r = rb[b]
  BY RFacts
<1>1. r.pc = "last" /\ SaveRollbackStatus(b, r.status, RStop(r), RStop(r))
  BY DEF PersistLastRollback, RAt
<1>2. RTrue(r.status, inverted[b]) /\ RTrue(rattempt[b], inverted[b]) /\ r.src \in Appliers
  BY <1>1, RFacts DEF RLedger
<1>3. r.status \in RStatus
  BY DEF Rollbacks
<1>4. PICK failed \in Rollbacks : failed = RStop(r)
  BY <1>2, Ended
<1>5. /\ RLedger(failed, rattempt[b], inverted[b]) /\ RLedger(failed, r.status, inverted[b])
      /\ Bound(failed) /\ failed.src = r.src /\ failed.pc = "done"
  BY <1>2, <1>4, Ended
<1> QED
  BY <1>1, <1>3, <1>4, <1>5, SaveStep

\* What is known of an inverse whose outcome is about to be recorded.
LEMMA ResultFacts ==
    ASSUME RInv, NEW b \in Rollbackers, rb[b].pc = "result"
    PROVE  /\ Latest(rb[b]) \in rb[b].todo /\ Latest(rb[b]) \in Artifacts /\ rb[b].src \in Appliers
           /\ ~rb[b].stale /\ rb[b].status = rattempt[b] /\ rattempt[b].state = "IN_PROGRESS"
           /\ \A q \in Artifacts \ {Latest(rb[b])} :
                 /\ rattempt[b].inverse[q] \in {"NONE", "SUCCEEDED"}
                 /\ q \in inverted[b] <=> rattempt[b].inverse[q] = "SUCCEEDED"
           /\ \A q \in rb[b].todo \ {Latest(rb[b])} : q \notin inverted[b]
           /\ rb[b].outcome \in {"SUCCEEDED", "FAILED", "OUTCOME_UNKNOWN"}
           /\ rb[b].outcome = "SUCCEEDED" => Latest(rb[b]) \in inverted[b]
           /\ rb[b].outcome = "FAILED" => Latest(rb[b]) \notin inverted[b]
           /\ inverted[b] \in SUBSET Artifacts /\ RTrue(rattempt[b], inverted[b])
           /\ rb[b].status \in RStatus
<1>1. rb[b].pc \in Inverting /\ rb[b].pc \in Chosen
  BY DEF Inverting, Chosen
<1>2. rb[b].status \in RStatus
  BY RFacts DEF Rollbacks
<1> QED
  BY <1>1, <1>2, RFacts DEF RLedger, Point

\* A success is recorded and the loop goes on; if it cannot be, the run ends
\* with an unknown outcome.
LEMMA SuccessStep ==
    ASSUME RInv, NEW b \in Rollbackers, PersistInverseResult(b), rb[b].outcome = "SUCCEEDED"
    PROVE  RInv'
<1> PICK r \in Rollbacks : r = rb[b]
  BY RFacts
<1>0. PICK o : o = Latest(r)
  OBVIOUS
<1>1. r.pc = "result"
  BY DEF PersistInverseResult, RAt
<1>2. /\ o \in r.todo /\ o \in Artifacts /\ r.src \in Appliers
      /\ ~r.stale /\ r.status = rattempt[b] /\ r.status.state = "IN_PROGRESS"
      /\ \A q \in Artifacts \ {o} :
            /\ r.status.inverse[q] \in {"NONE", "SUCCEEDED"}
            /\ q \in inverted[b] <=> r.status.inverse[q] = "SUCCEEDED"
      /\ \A q \in r.todo \ {o} : q \notin inverted[b]
      /\ o \in inverted[b]
      /\ inverted[b] \in SUBSET Artifacts /\ RTrue(rattempt[b], inverted[b])
      /\ r.status \in RStatus
  BY <1>0, <1>1, ResultFacts
<1>3. PICK s : s = [r EXCEPT !.outcome = ""]
  OBVIOUS
<1>4. /\ s \in Rollbacks /\ s.pc = "result" /\ s.src = r.src /\ s.source = r.source
      /\ s.todo = r.todo /\ s.stale = r.stale /\ s.status = r.status
  BY <1>1, <1>3 DEF Rollbacks
<1>5. Latest(s) = o
  BY <1>0, <1>4 DEF Latest
<1>6. PICK st : st = [r.status EXCEPT !.inverse[o] = "SUCCEEDED"]
  OBVIOUS
<1>7. /\ st \in RStatus /\ st.state = "IN_PROGRESS" /\ st.inverse[o] = "SUCCEEDED"
      /\ \A q \in Artifacts \ {o} : st.inverse[q] = r.status.inverse[q]
  BY <1>2, <1>6 DEF RStatus
<1>8. PICK next : next = [s EXCEPT !.status = st, !.todo = @ \ {o}]
  OBVIOUS
<1>9. PICK failed : failed = [s EXCEPT !.pc = "last", !.status = st,
                                       !.status.state = "OUTCOME_UNKNOWN"]
  OBVIOUS
<1>10. SaveRollbackStatus(b, st, RContinue(next), failed)
  BY <1>0, <1>3, <1>4, <1>5, <1>6, <1>8, <1>9 DEF PersistInverseResult
<1>11. \A q \in Artifacts : /\ st.inverse[q] \in {"NONE", "SUCCEEDED"}
                            /\ q \in inverted[b] <=> st.inverse[q] = "SUCCEEDED"
  BY <1>2, <1>7
<1>12. ASSUME NEW st2, st2.inverse = st.inverse,
              st2.state \in {"IN_PROGRESS", "APPLIED", "OUTCOME_UNKNOWN"}
       PROVE  RTrue(st2, inverted[b])
  BY <1>2, <1>11, <1>12 DEF RTrue, Inverses
<1>13. RTrue(st, inverted[b])
  BY <1>7, <1>12
<1>14. /\ failed \in Rollbacks /\ failed.pc = "last" /\ failed.src = r.src
       /\ failed.source = r.source
       /\ failed.status.inverse = st.inverse /\ failed.status.state = "OUTCOME_UNKNOWN"
  BY ZenonT(60), <1>4, <1>7, <1>9 DEF Rollbacks, RPCs, RStatus, Terminal
<1>15. /\ RLedger(failed, rattempt[b], inverted[b]) /\ RLedger(failed, st, inverted[b])
  <2>1. RTrue(failed.status, inverted[b])
    BY <1>12, <1>14
  <2> QED
    BY <1>2, <1>13, <1>14, <2>1 DEF RLedger, RStarting, Chosen, Inverting
<1>16. /\ r.source.state \in Terminal /\ attempt[r.src] = r.source
       /\ \A q \in r.todo : r.source.mutations[q].attributable # 0
       /\ BindingFirst(r)
  BY <1>1, RFacts DEF Bound, Qualified, Chosen, Inverting
<1>17. Bound(failed)
  BY <1>2, <1>14, <1>16 DEF Bound, Chosen, Inverting
<1>18. /\ next \in Rollbacks /\ next.pc = "result" /\ next.src = r.src /\ next.source = r.source
       /\ next.todo = r.todo \ {o} /\ next.stale = r.stale /\ next.status = st
  BY <1>4, <1>7, <1>8 DEF Rollbacks
<1>19. PICK ok : ok = RContinue(next)
  OBVIOUS
<1>20. CASE r.todo \ {o} = {}
  <2>1. ok = [next EXCEPT !.pc = "last", !.status.state = "APPLIED"]
    BY <1>18, <1>19, <1>20 DEF RContinue
  <2>2. /\ ok \in Rollbacks /\ ok.pc = "last" /\ ok.src = r.src /\ ok.source = r.source
        /\ ok.status.inverse = st.inverse /\ ok.status.state = "APPLIED"
    BY ZenonT(60), <1>7, <1>18, <2>1 DEF Rollbacks, RPCs, RStatus, Terminal
  <2>3. RTrue(ok.status, inverted[b])
    BY <1>12, <2>2
  <2>4. RLedger(ok, st, inverted[b])
    BY <1>13, <2>2, <2>3 DEF RLedger, RStarting, Chosen, Inverting
  <2>5. Bound(ok)
    BY <1>2, <1>16, <2>2 DEF Bound, Chosen, Inverting
  <2> QED
    BY <1>7, <1>10, <1>14, <1>15, <1>17, <1>19, <2>2, <2>4, <2>5, SaveStep
<1>21. CASE r.todo \ {o} # {}
  <2>1. ok = [next EXCEPT !.pc = "prepare"]
    BY <1>18, <1>19, <1>21 DEF RContinue, RGoto
  <2>2. /\ ok \in Rollbacks /\ ok.pc = "prepare" /\ ok.src = r.src /\ ok.source = r.source
        /\ ok.todo = r.todo \ {o} /\ ok.stale = r.stale /\ ok.status = st
    BY <1>18, <2>1 DEF Rollbacks, RPCs
  <2>3. PICK q : q = Latest(ok)
    OBVIOUS
  <2>4. q \in r.todo \ {o} /\ q \in Artifacts
    BY <1>21, <2>2, <2>3, LatestIsGreatest
  <2>5. q \notin inverted[b] /\ st.inverse[q] = "NONE"
    BY <1>2, <1>11, <2>4
  <2>6. RLedger(ok, st, inverted[b])
    BY <1>2, <1>7, <1>11, <1>13, <1>21, <2>2, <2>3, <2>4, <2>5
       DEF RLedger, RStarting, Chosen, Inverting, Point
  <2>7. BindingFirst(ok)
    <3>1. o = Workload => \E c \in Rollbackers : rb[c].src = r.src /\ Workload \in inverted[c]
      BY <1>2
    <3> QED
      BY <1>16, <2>2, <3>1 DEF BindingFirst
  <2>8. Bound(ok)
    BY <1>2, <1>16, <2>2, <2>7 DEF Bound, Inverting
  <2> QED
    BY <1>7, <1>10, <1>14, <1>15, <1>17, <1>19, <2>2, <2>6, <2>8, SaveStep
<1> QED
  BY <1>20, <1>21

\* Any other outcome ends the run; the state written is true of what the
\* earlier inverses did.
LEMMA NoSuccessStep ==
    ASSUME RInv, NEW b \in Rollbackers, PersistInverseResult(b), rb[b].outcome # "SUCCEEDED"
    PROVE  RInv'
<1> PICK r \in Rollbacks : r = rb[b]
  BY RFacts
<1>0. PICK o : o = Latest(r)
  OBVIOUS
<1>1. r.pc = "result"
  BY DEF PersistInverseResult, RAt
<1>2. /\ o \in r.todo /\ o \in Artifacts /\ r.src \in Appliers
      /\ r.status = rattempt[b] /\ r.status.state = "IN_PROGRESS"
      /\ \A q \in Artifacts \ {o} :
            /\ r.status.inverse[q] \in {"NONE", "SUCCEEDED"}
            /\ q \in inverted[b] <=> r.status.inverse[q] = "SUCCEEDED"
      /\ r.outcome \in {"FAILED", "OUTCOME_UNKNOWN"}
      /\ r.outcome = "FAILED" => o \notin inverted[b]
      /\ inverted[b] \in SUBSET Artifacts /\ RTrue(rattempt[b], inverted[b])
      /\ r.status \in RStatus
  BY <1>0, <1>1, ResultFacts
<1>3. PICK s : s = [r EXCEPT !.outcome = ""]
  OBVIOUS
<1>4. /\ s \in Rollbacks /\ s.src = r.src /\ s.todo = r.todo /\ s.status = r.status
  BY <1>3 DEF Rollbacks
<1>5. Latest(s) = o
  BY <1>0, <1>4 DEF Latest
<1>6. PICK recorded : recorded = [r.status EXCEPT !.inverse[o] = r.outcome]
  OBVIOUS
<1>7. /\ recorded \in RStatus /\ recorded.inverse[o] = r.outcome
      /\ \A q \in Artifacts \ {o} : recorded.inverse[q] = r.status.inverse[q]
  BY <1>2, <1>6 DEF RStatus
<1>8. PICK some : some = \E q \in Artifacts : recorded.inverse[q] = "SUCCEEDED"
  OBVIOUS
<1>9. PICK state : state = IF r.outcome = "OUTCOME_UNKNOWN" THEN "OUTCOME_UNKNOWN"
                           ELSE IF some THEN "PARTIALLY_APPLIED" ELSE "FAILED"
  OBVIOUS
<1>10. PICK st : st = [recorded EXCEPT !.state = state]
  OBVIOUS
<1>11. st \in RStatus /\ st.state = state /\ st.inverse = recorded.inverse
  BY <1>7, <1>9, <1>10 DEF RStatus, Terminal
<1>12. SaveRollbackStatus(b, st, RStop(s), RStop(s))
  BY <1>0, <1>3, <1>4, <1>5, <1>6, <1>8, <1>9, <1>10 DEF PersistInverseResult
<1>13. Inverses(st) = inverted[b] \ {o}
  BY <1>2, <1>7, <1>11 DEF Inverses
<1>14. \A q \in inverted[b] : st.inverse[q] \in {"SUCCEEDED", "OUTCOME_UNKNOWN"}
  BY <1>2, <1>7, <1>11
<1>15. CASE r.outcome = "OUTCOME_UNKNOWN"
  <2>1. RTrue(st, inverted[b])
    BY <1>9, <1>11, <1>13, <1>14, <1>15 DEF RTrue
  <2> QED
    BY <1>2, <1>4, <1>11, <1>12, <2>1, Ended, SaveStep
<1>16. CASE r.outcome = "FAILED"
  <2>1. inverted[b] = Inverses(st)
    BY <1>2, <1>13, <1>16
  <2>2. state = IF Inverses(st) # {} THEN "PARTIALLY_APPLIED" ELSE "FAILED"
    BY <1>8, <1>9, <1>11, <1>16 DEF Inverses
  <2>3. RTrue(st, inverted[b])
    BY <1>11, <1>14, <2>1, <2>2 DEF RTrue
  <2> QED
    BY <1>2, <1>4, <1>11, <1>12, <2>3, Ended, SaveStep
<1> QED
  BY <1>2, <1>15, <1>16

-----------------------------------------------------------------------------
(* One inverse.                                                            *)

\* Going on within an inverse, when the point reached fits what is recorded.
LEMMA GoesOnInverting ==
    ASSUME RInv, NEW b \in Rollbackers, rb[b].pc \in Inverting,
           NEW new \in Rollbacks, new.pc \in Inverting,
           new.src = rb[b].src, new.source = rb[b].source,
           new.todo = rb[b].todo, new.status = rb[b].status, new.stale = rb[b].stale,
           Point(new, rattempt[b], inverted[b], Latest(rb[b])),
           new.pc \in {"workload", "refs", "dispatch"} =>
               new.held = SourceRecord(rb[b]).attributable,
           new.pc = "refs" => Latest(rb[b]) = Workload,
           new.pc = "dispatch" /\ WasCreated(SourceRecord(rb[b])) /\ Latest(rb[b]) # Workload
              => Unreferenced(new, Latest(rb[b]), live, version)
    PROVE  RLedger(new, rattempt[b], inverted[b]) /\ Bound(new)
<1> PICK r \in Rollbacks : r = rb[b]
  BY RFacts
<1>1. r.pc \in Chosen /\ new.pc \in Chosen
  BY DEF Chosen
<1>2. Latest(r) \in inverted[b] => rattempt[b].inverse[Latest(r)] = "OUTCOME_UNKNOWN"
  BY RFacts DEF RLedger, Point
<1>3. RLedger(new, rattempt[b], inverted[b])
  BY <1>2, RFacts, InvertingLedger
<1>4. Bound(new)
  BY <1>1, RFacts, ChosenBound
<1> QED
  BY <1>3, <1>4

\* The outcome of an inverse is FAILED only for one that did not take effect
\* and SUCCEEDED only for one that did.
LEMMA OutcomeIs ==
    ASSUME RInv, NEW b \in Rollbackers, rb[b].pc \in Inverting \ {"prepare", "intent"},
           NEW out \in {"SUCCEEDED", "FAILED", "OUTCOME_UNKNOWN"},
           out = "SUCCEEDED" => rb[b].pc \in {"absent", "reread"},
           out = "FAILED" => rb[b].pc \in {"get", "workload", "refs", "dispatch"}
    PROVE  /\ Outcome(rb[b], out) \in Rollbacks /\ Outcome(rb[b], out).src = rb[b].src
           /\ RLedger(Outcome(rb[b], out), rattempt[b], inverted[b])
           /\ Bound(Outcome(rb[b], out))
<1> PICK r \in Rollbacks : r = rb[b]
  BY RFacts
<1>1. PICK new : new = Outcome(r, out)
  OBVIOUS
<1>2. /\ new \in Rollbacks /\ new.pc = "result" /\ new.src = r.src /\ new.source = r.source
      /\ new.todo = r.todo /\ new.status = r.status /\ new.stale = r.stale /\ new.outcome = out
  BY <1>1 DEF Outcome, Rollbacks, RPCs
<1>3. Point(r, rattempt[b], inverted[b], Latest(r))
  BY RFacts DEF RLedger
<1>4. Point(new, rattempt[b], inverted[b], Latest(r))
  BY <1>2, <1>3 DEF Point
<1>5. new.pc \in Inverting
  BY <1>2 DEF Inverting
<1> QED
  BY <1>1, <1>2, <1>4, <1>5, GoesOnInverting

\* The object is read and compared before the intent is recorded.
LEMMA PrepareStep ==
    ASSUME RInv, NEW b \in Rollbackers, prepareInverse(b)
    PROVE  RInv'
<1> PICK r \in Rollbacks : r = rb[b]
  BY RFacts
<1>0. PICK o : o = Latest(r)
  OBVIOUS
<1>1. r.pc = "prepare"
  BY DEF prepareInverse, RAt
<1>2. r.pc \in Inverting /\ r.pc \in Chosen /\ r.pc \in Qualified /\ r.src \in Appliers /\ o \in Artifacts
  BY <1>0, <1>1, RFacts DEF Inverting, Chosen, Qualified
<1>3. /\ Point(r, rattempt[b], inverted[b], o) /\ r.status = rattempt[b]
      /\ r.status.state = "IN_PROGRESS" /\ RTrue(rattempt[b], inverted[b])
  BY <1>0, <1>2, RFacts DEF RLedger
<1>4. PICK go : go = RGoto(r, "intent")
  OBVIOUS
<1>5. /\ go \in Rollbacks /\ go.pc = "intent" /\ go.src = r.src /\ go.source = r.source
      /\ go.todo = r.todo /\ go.status = r.status /\ go.stale = r.stale
  BY <1>4 DEF RGoto, Rollbacks, RPCs
<1>6. Point(go, rattempt[b], inverted[b], o)
  BY <1>1, <1>3, <1>5 DEF Point
<1>7. RLedger(go, rattempt[b], inverted[b]) /\ Bound(go)
  BY <1>0, <1>2, <1>5, <1>6, GoesOnInverting DEF Inverting
<1>8. PICK no : no = Refuse(r)
  OBVIOUS
<1>9. PICK st : st = [r.status EXCEPT !.inverse[o] = "FAILED"]
  OBVIOUS
<1>10. /\ no \in Rollbacks /\ no.pc = "last" /\ no.src = r.src /\ no.source = r.source
       /\ no.status = st /\ r.status \in RStatus
  BY <1>0, <1>2, <1>8, <1>9 DEF Refuse, Rollbacks, RPCs, RStatus
<1>11. /\ st.state = "IN_PROGRESS" /\ st.inverse[o] = "FAILED"
       /\ \A q \in Artifacts \ {o} : st.inverse[q] = r.status.inverse[q]
  BY <1>2, <1>3, <1>9, <1>10 DEF RStatus
<1>12. o \notin inverted[b] /\ inverted[b] \in SUBSET Artifacts
  BY <1>1, <1>3, RFacts DEF Point
<1>13. RTrue(st, inverted[b])
  BY <1>3, <1>11, <1>12 DEF RTrue, Inverses
<1>14. RLedger(no, rattempt[b], inverted[b])
  BY <1>3, <1>10, <1>13 DEF RLedger, RStarting, Chosen, Inverting
<1>15. Bound(no)
  <2>1. r.source.state \in Terminal /\ attempt[r.src] = r.source
    BY <1>2, RFacts DEF Bound
  <2> QED
    BY <1>2, <1>10, <2>1 DEF Bound, Chosen, Inverting
<1>16. PICK stop \in Rollbacks : stop = RStop(r)
  BY <1>2, <1>3, Ended
<1>17. RLedger(stop, rattempt[b], inverted[b]) /\ Bound(stop) /\ stop.src = r.src
  BY <1>2, <1>3, <1>16, Ended
<1>18. /\ Fault \/ NoFault
       /\ RBecome(b, go) \/ RBecome(b, no) \/ RBecome(b, stop)
       /\ UNCHANGED <<Cluster, run, attempt, History, epoch, born, rattempt, inverted>>
  BY <1>4, <1>8, <1>16 DEF prepareInverse
<1>19. CASE RBecome(b, go)
  BY <1>5, <1>7, <1>18, <1>19, MemoryStep
<1>20. CASE RBecome(b, no)
  BY <1>10, <1>14, <1>15, <1>18, <1>20, MemoryStep
<1>21. CASE RBecome(b, stop)
  BY <1>17, <1>18, <1>21, MemoryStep
<1> QED
  BY <1>18, <1>19, <1>20, <1>21

\* The object is read again, under the same guard: it is in hand at the
\* version the source left.
LEMMA GetForInverseStep ==
    ASSUME RInv, NEW b \in Rollbackers, GetForInverse(b)
    PROVE  RInv'
<1> PICK r \in Rollbacks : r = rb[b]
  BY RFacts
<1>0. PICK o : o = Latest(r)
  OBVIOUS
<1>1. r.pc = "get" /\ r.pc \in Inverting /\ r.pc \in Chosen
  BY DEF GetForInverse, Ask, RAt, Inverting, Chosen
<1>2. PICK next : next = IF WasCreated(SourceRecord(r))
                         THEN IF o = Workload THEN "dispatch" ELSE "workload"
                         ELSE IF o = Workload THEN "refs" ELSE "dispatch"
  OBVIOUS
<1>3. PICK failed \in Rollbacks : failed = Outcome(r, "FAILED")
  BY <1>1, OutcomeIs
<1>4. RLedger(failed, rattempt[b], inverted[b]) /\ Bound(failed) /\ failed.src = r.src
  BY <1>1, <1>3, OutcomeIs
<1>5. PICK ok : ok = [r EXCEPT !.pc = next, !.held = live[o].rv]
  OBVIOUS
<1>6. \/ Ask(b, "get", failed, failed)
      \/ StrictGuard(SourceRecord(r), live[o]) /\ Ask(b, "get", ok, failed)
  BY <1>0, <1>2, <1>3, <1>5 DEF GetForInverse
<1>7. o \in Artifacts /\ live[o] \in Object /\ live[o].rv \in Nat
  BY <1>0, <1>1, RFacts DEF RInv, Inv, Rest, Object
<1>8. /\ ok \in Rollbacks /\ ok.pc = next /\ ok.src = r.src /\ ok.source = r.source
      /\ ok.todo = r.todo /\ ok.status = r.status /\ ok.stale = r.stale /\ ok.held = live[o].rv
      /\ next \in {"dispatch", "workload", "refs"}
  <2>1. next \in {"dispatch", "workload", "refs"}
    BY <1>2
  <2>2. PICK v \in Nat : v = live[o].rv
    BY <1>7
  <2>3. PICK pc \in RPCs : pc = next
    BY <2>1 DEF RPCs
  <2>4. ok = [r EXCEPT !.pc = pc, !.held = v]
    BY <1>5, <2>2, <2>3
  <2>5. /\ ok \in Rollbacks /\ ok.pc = pc /\ ok.src = r.src /\ ok.source = r.source
        /\ ok.todo = r.todo /\ ok.status = r.status /\ ok.stale = r.stale /\ ok.held = v
    BY <2>4 DEF Rollbacks
  <2> QED
    BY <2>1, <2>2, <2>3, <2>5
<1>9. Point(ok, rattempt[b], inverted[b], o)
  <2>1. Point(r, rattempt[b], inverted[b], o)
    BY <1>0, <1>1, RFacts DEF RLedger
  <2> QED
    BY <1>1, <1>8, <2>1 DEF Point
<1>10. CASE Ask(b, "get", failed, failed)
  BY <1>4, <1>10, AskStep
<1>11. CASE StrictGuard(SourceRecord(r), live[o]) /\ Ask(b, "get", ok, failed)
  <2>1. ok.held = SourceRecord(r).attributable
    BY <1>8, <1>11 DEF StrictGuard
  <2>2. /\ ok.pc = "refs" => o = Workload
        /\ ~(ok.pc = "dispatch" /\ WasCreated(SourceRecord(r)) /\ o # Workload)
    BY <1>2, <1>8
  <2>3. ok.pc \in Inverting
    BY <1>8 DEF Inverting
  <2>4. RLedger(ok, rattempt[b], inverted[b]) /\ Bound(ok)
    BY <1>0, <1>1, <1>8, <1>9, <2>1, <2>2, <2>3, GoesOnInverting
  <2> QED
    BY <1>4, <1>8, <1>11, <2>4, AskStep
<1> QED
  BY <1>6, <1>10, <1>11

\* The reference checks: a policy goes on to its deletion only when the
\* workload version just read does not refer to it.
LEMMA ReferenceStep ==
    ASSUME RInv, NEW b \in Rollbackers,
           targetReferencesPolicy(b) \/ verifyRestoredReferencesReady(b)
    PROVE  RInv'
<1> PICK r \in Rollbacks : r = rb[b]
  BY RFacts
<1>0. PICK o : o = Latest(r)
  OBVIOUS
<1>1. r.pc \in {"workload", "refs"}
  BY DEF targetReferencesPolicy, verifyRestoredReferencesReady, Ask, RAt
<1>2. r.pc \in Inverting /\ r.pc \in Chosen
  BY <1>1 DEF Inverting, Chosen
<1>3. PICK failed \in Rollbacks : failed = Outcome(r, "FAILED")
  BY <1>1, <1>2, OutcomeIs
<1>4. RLedger(failed, rattempt[b], inverted[b]) /\ Bound(failed) /\ failed.src = r.src
  BY <1>1, <1>2, <1>3, OutcomeIs
<1>5. Point(r, rattempt[b], inverted[b], o) /\ r.held = SourceRecord(r).attributable
  BY <1>0, <1>1, <1>2, RFacts DEF RLedger, Bound
<1>6. ASSUME NEW pc, NEW ok \in Rollbacks, Ask(b, pc, ok, failed), ok.pc = "dispatch",
             ok.src = r.src, ok.source = r.source, ok.todo = r.todo, ok.status = r.status,
             ok.stale = r.stale, ok.held = r.held,
             WasCreated(SourceRecord(r)) /\ o # Workload => Unreferenced(ok, o, live, version)
      PROVE  RInv'
  <2>1. Point(ok, rattempt[b], inverted[b], o)
    BY <1>1, <1>5, <1>6 DEF Point
  <2>2. ok.pc \in Inverting
    BY <1>6 DEF Inverting
  <2>3. RLedger(ok, rattempt[b], inverted[b]) /\ Bound(ok)
    BY <1>0, <1>2, <1>5, <1>6, <2>1, <2>2, GoesOnInverting
  <2> QED
    BY <1>4, <1>6, <2>3, AskStep
<1>7. ASSUME NEW pc, Ask(b, pc, failed, failed)
      PROVE  RInv'
  BY <1>4, <1>7, AskStep
<1>8. CASE targetReferencesPolicy(b)
  <2>1. PICK ok : ok = [r EXCEPT !.pc = "dispatch", !.checked = version[Workload]]
    OBVIOUS
  <2>2. \/ Ask(b, "workload", failed, failed)
        \/ /\ Ask(b, "workload", ok, failed)
           /\ Workload \in Artifacts /\ ~References(live[Workload], o)
    BY <1>0, <1>3, <1>8, <2>1 DEF targetReferencesPolicy
  <2>3. ASSUME Ask(b, "workload", ok, failed), Workload \in Artifacts,
               ~References(live[Workload], o)
        PROVE  RInv'
    <3>1. PICK v \in Nat : v = version[Workload]
      BY <2>3 DEF RInv, Inv, Rest
    <3>2. /\ ok \in Rollbacks /\ ok.pc = "dispatch" /\ ok.src = r.src /\ ok.source = r.source
          /\ ok.todo = r.todo /\ ok.status = r.status /\ ok.stale = r.stale /\ ok.held = r.held
          /\ ok.checked = v
      BY ZenonT(60), <2>1, <3>1 DEF Rollbacks, RPCs
    <3>3. Unreferenced(ok, o, live, version)
      BY <2>3, <3>1, <3>2 DEF Unreferenced
    <3> QED
      BY <1>6, <2>3, <3>2, <3>3
  <2> QED
    BY <1>7, <2>2, <2>3
<1>9. CASE verifyRestoredReferencesReady(b)
  <2>1. PICK ok : ok = RGoto(r, "dispatch")
    OBVIOUS
  <2>2. \/ Ask(b, "refs", failed, failed)
        \/ Ask(b, "refs", ok, failed)
    BY <1>3, <1>9, <2>1 DEF verifyRestoredReferencesReady
  <2>3. /\ ok \in Rollbacks /\ ok.pc = "dispatch" /\ ok.src = r.src /\ ok.source = r.source
        /\ ok.todo = r.todo /\ ok.status = r.status /\ ok.stale = r.stale /\ ok.held = r.held
    BY <2>1 DEF RGoto, Rollbacks, RPCs
  <2>4. o = Workload
    <3>1. r.pc = "refs"
      BY <1>9 DEF verifyRestoredReferencesReady, Ask, RAt
    <3> QED
      BY <1>0, <3>1, RFacts DEF Bound
  <2> QED
    BY <1>6, <1>7, <2>2, <2>3, <2>4
<1> QED
  BY <1>8, <1>9

\* The inverse has taken effect, whether or not the answer arrives.
LEMMA InverseLandedStep ==
    ASSUME RInv, NEW b \in Rollbackers, rb[b].pc = "dispatch",
           NEW o, o = Latest(rb[b]), NEW obj \in Object,
           \/ Store(o, obj) /\ obj.uid # 0
           \/ live' = [live EXCEPT ![o] = Absent] /\ version' = version,
           NEW next \in Rollbacks, next.pc \in {"reread", "absent"},
           next.src = rb[b].src, next.source = rb[b].source, next.todo = rb[b].todo,
           next.status = rb[b].status, next.stale = rb[b].stale,
           InverseLanded(b, o, next)
    PROVE  RInv'
<1> PICK r \in Rollbacks : r = rb[b]
  BY RFacts
<1> PICK done : done = inverted[b] \cup {o}
  OBVIOUS
<1>1. /\ r.pc \in Inverting /\ r.pc \in Chosen /\ o \in Artifacts
      /\ inverted[b] \in SUBSET Artifacts /\ rattempt[b] \in RStatus
      /\ RLedger(r, rattempt[b], inverted[b]) /\ Bound(r)
  BY RFacts DEF Inverting, Chosen
<1>2. rattempt[b].inverse[o] = "OUTCOME_UNKNOWN"
  BY <1>1 DEF RLedger, Point
<1>3. /\ Fault \/ NoFault
      /\ RBecome(b, next) \/ RBecome(b, Outcome(r, "OUTCOME_UNKNOWN"))
      /\ inverted' = [inverted EXCEPT ![b] = done]
      /\ touched' = [a \in Appliers |-> touched[a] \ {o}]
      /\ UNCHANGED <<prop, run, attempt, late>> /\ UNCHANGED <<epoch, born, rattempt>>
  BY DEF InverseLanded
<1>4. Inv' /\ Faithful' /\ Forward
  BY <1>1, <1>3, InverseStep DEF RInv
<1>5. rattempt' = [rattempt EXCEPT ![b] = rattempt[b]] /\ done \in SUBSET Artifacts
  BY <1>1, <1>3 DEF RInv, RTypes
<1>6. ASSUME NEW new \in Rollbacks, RBecome(b, new), new.pc \in {"reread", "absent", "result"},
             new.pc = "result" => new.outcome = "OUTCOME_UNKNOWN",
             new.src = r.src, new.source = r.source, new.todo = r.todo,
             new.status = r.status, new.stale = r.stale
      PROVE  RInv'
  <2>1. Point(new, rattempt[b], done, o) /\ new.pc \in Inverting /\ new.pc \in Chosen
    BY <1>2, <1>6 DEF Point, Inverting, Chosen
  <2>2. RLedger(new, rattempt[b], done)
    BY <1>1, <1>2, <1>6, <2>1, InvertingLedger
  <2>3. Bound(new)
    BY <1>1, <1>6, <2>1, ChosenBound
  <2> QED
    BY <1>1, <1>3, <1>4, <1>5, <1>6, <2>2, <2>3, RollbackStep DEF RBecome
<1>7. CASE RBecome(b, next)
  BY <1>6, <1>7
<1>8. CASE RBecome(b, Outcome(r, "OUTCOME_UNKNOWN"))
  <2>1. PICK new : new = Outcome(r, "OUTCOME_UNKNOWN")
    OBVIOUS
  <2>2. /\ new \in Rollbacks /\ new.pc = "result" /\ new.outcome = "OUTCOME_UNKNOWN"
        /\ new.src = r.src /\ new.source = r.source /\ new.todo = r.todo
        /\ new.status = r.status /\ new.stale = r.stale
    BY <2>1 DEF Outcome, Rollbacks, RPCs
  <2> QED
    BY <1>6, <1>8, <2>1, <2>2
<1> QED
  BY <1>3, <1>7, <1>8

\* The inverse was refused, or its request failed, without an effect.
LEMMA InverseRefusedStep ==
    ASSUME RInv, NEW b \in Rollbackers, rb[b].pc = "dispatch",
           NEW out \in {"FAILED", "OUTCOME_UNKNOWN"}, InverseRefused(b, out), Fault \/ NoFault
    PROVE  RInv'
<1>1. rb[b].pc \in Inverting \ {"prepare", "intent"}
  BY DEF Inverting
<1>2. /\ Outcome(rb[b], out) \in Rollbacks /\ Outcome(rb[b], out).src = rb[b].src
      /\ RLedger(Outcome(rb[b], out), rattempt[b], inverted[b]) /\ Bound(Outcome(rb[b], out))
  BY <1>1, OutcomeIs
<1> QED
  BY <1>2, MemoryStep DEF InverseRefused

\* The update that restores the controlled content.
LEMMA UpdateInverseStep ==
    ASSUME RInv, NEW b \in Rollbackers, UpdateInverse(b)
    PROVE  RInv'
<1> PICK r \in Rollbacks : r = rb[b]
  BY RFacts
<1>0. PICK o : o = Latest(r)
  OBVIOUS
<1>1. r.pc = "dispatch" /\ r.pc \in Chosen
  BY DEF UpdateInverse, RAt, Chosen, Inverting
<1>2. PICK before : before = SourceRecord(r).before
  OBVIOUS
<1>3. PICK next : next = [r EXCEPT !.pc = "reread", !.held = version[o] + 1]
  OBVIOUS
<1>4. \/ /\ Present(o) /\ Store(o, restoreControlledState(live[o], before))
         /\ InverseLanded(b, o, next)
      \/ (Fault \/ NoFault) /\ InverseRefused(b, "FAILED")
      \/ (Fault \/ NoFault) /\ InverseRefused(b, "OUTCOME_UNKNOWN")
  BY <1>0, <1>2, <1>3 DEF UpdateInverse
<1>5. o \in Artifacts /\ live[o] \in Object /\ version[o] \in Nat /\ WorldOK(live, version)
  BY <1>0, <1>1, RFacts DEF RInv, Inv, Rest, Faithful
<1>6. CASE /\ Present(o) /\ Store(o, restoreControlledState(live[o], before))
           /\ InverseLanded(b, o, next)
  <2>1. before.content \in Digests \cup Foreign
    <3>1. r.source \in Status
      BY DEF Rollbacks
    <3> QED
      BY <1>0, <1>2, <1>5, <3>1 DEF SourceRecord, Status, Record, Snapshot
  <2>2. PICK obj : obj = restoreControlledState(live[o], before)
    OBVIOUS
  <2>3. obj \in Object /\ obj.uid = live[o].uid
    BY <1>5, <2>1, <2>2 DEF restoreControlledState, Object
  <2>4. live[o].uid # 0
    BY <1>5, <1>6 DEF WorldOK, Present
  <2>5. version[o] + 1 \in Nat
    BY <1>5
  <2>6. /\ next \in Rollbacks /\ next.pc = "reread" /\ next.src = r.src
        /\ next.source = r.source /\ next.todo = r.todo
        /\ next.status = r.status /\ next.stale = r.stale
    BY <1>3, <2>5 DEF Rollbacks, RPCs
  <2> QED
    BY <1>0, <1>1, <1>6, <2>2, <2>3, <2>4, <2>6, InverseLandedStep
<1>7. ASSUME NEW out \in {"FAILED", "OUTCOME_UNKNOWN"}, InverseRefused(b, out), Fault \/ NoFault
      PROVE  RInv'
  BY <1>1, <1>7, InverseRefusedStep
<1> QED
  BY <1>4, <1>6, <1>7

\* The deletion of what the source created; finalizers may keep the object.
LEMMA DeleteInverseStep ==
    ASSUME RInv, NEW b \in Rollbackers, DeleteInverse(b)
    PROVE  RInv'
<1> PICK r \in Rollbacks : r = rb[b]
  BY RFacts
<1>0. PICK o : o = Latest(r)
  OBVIOUS
<1>1. r.pc = "dispatch" /\ r.pc \in Chosen
  BY DEF DeleteInverse, RAt, Chosen, Inverting
<1>2. PICK next : next = [r EXCEPT !.pc = "absent", !.held = 0, !.checked = 0]
  OBVIOUS
<1>3. PICK obj : obj = [live[o] EXCEPT !.phase = "dying"]
  OBVIOUS
<1>4. \/ /\ Present(o) /\ InverseLanded(b, o, next)
         /\ \/ Store(o, obj)
            \/ live' = [live EXCEPT ![o] = Absent] /\ version' = version
      \/ (Fault \/ NoFault) /\ InverseRefused(b, "FAILED")
      \/ (Fault \/ NoFault) /\ InverseRefused(b, "OUTCOME_UNKNOWN")
  BY <1>0, <1>2, <1>3 DEF DeleteInverse
<1>5. o \in Artifacts /\ live[o] \in Object /\ WorldOK(live, version)
  BY <1>0, <1>1, RFacts DEF RInv, Inv, Rest, Faithful
<1>6. CASE /\ Present(o) /\ InverseLanded(b, o, next)
           /\ \/ Store(o, obj)
              \/ live' = [live EXCEPT ![o] = Absent] /\ version' = version
  <2>1. obj \in Object /\ obj.uid = live[o].uid
    BY <1>3, <1>5 DEF Object
  <2>2. live[o].uid # 0
    BY <1>5, <1>6 DEF WorldOK, Present
  <2>3. /\ next \in Rollbacks /\ next.pc = "absent" /\ next.src = r.src
        /\ next.source = r.source /\ next.todo = r.todo
        /\ next.status = r.status /\ next.stale = r.stale
    BY <1>2 DEF Rollbacks, RPCs
  <2> QED
    BY <1>0, <1>1, <1>6, <2>1, <2>2, <2>3, InverseLandedStep
<1>7. ASSUME NEW out \in {"FAILED", "OUTCOME_UNKNOWN"}, InverseRefused(b, out), Fault \/ NoFault
      PROVE  RInv'
  BY <1>1, <1>7, InverseRefusedStep
<1> QED
  BY <1>4, <1>6, <1>7

\* The effect is observed.
LEMMA ObserveInverseStep ==
    ASSUME RInv, NEW b \in Rollbackers, ConfirmAbsent(b) \/ RereadInverse(b)
    PROVE  RInv'
<1> PICK r \in Rollbacks : r = rb[b]
  BY RFacts
<1>1. r.pc \in {"absent", "reread"}
  BY DEF ConfirmAbsent, RereadInverse, Ask, RAt
<1>2. r.pc \in Inverting \ {"prepare", "intent"}
  BY <1>1 DEF Inverting
<1>3. \A out \in {"SUCCEEDED", "OUTCOME_UNKNOWN"} :
         /\ Outcome(r, out) \in Rollbacks /\ Outcome(r, out).src = r.src
         /\ RLedger(Outcome(r, out), rattempt[b], inverted[b]) /\ Bound(Outcome(r, out))
  BY <1>1, <1>2, OutcomeIs
<1>4. \E pc : \E out \in {"SUCCEEDED", "OUTCOME_UNKNOWN"} :
         Ask(b, pc, Outcome(r, out), Outcome(r, "OUTCOME_UNKNOWN"))
  BY DEF ConfirmAbsent, RereadInverse
<1> QED
  BY <1>3, <1>4, AskStep

\* The process dies between two requests.
LEMMA DieInRollbackStep ==
    ASSUME RInv, NEW b \in Rollbackers, DieInRollback(b)
    PROVE  RInv'
<1>1. rb[b].src \in Appliers /\ RTrue(rattempt[b], inverted[b])
  BY RFacts DEF DieInRollback
<1>2. /\ RStop(rb[b]) \in Rollbacks /\ RStop(rb[b]).src = rb[b].src
      /\ RLedger(RStop(rb[b]), rattempt[b], inverted[b]) /\ Bound(RStop(rb[b]))
  BY <1>1, Ended
<1> QED
  BY <1>2, MemoryStep DEF DieInRollback
-----------------------------------------------------------------------------
(* The specification.                                                      *)

\* The initial states satisfy the invariant.
LEMMA InitRInv == RInit => RInv
<1> SUFFICES ASSUME RInit PROVE RInv
  OBVIOUS
<1>1. Inv /\ Faithful
  BY InitInv, InitFaithful DEF RInit
<1>2. Frozen
  <2>1. ASSUME NEW a \in Appliers
        PROVE  attempt[a].state = ""
    BY DEF RInit, Init, NoStatus
  <2> QED
    BY <2>1 DEF Frozen, Terminal
<1>3. RTypes
  <2>1. 0 \in 0 .. MaxEpoch /\ epoch \in 0 .. MaxEpoch
    BY RollbackConstants DEF RInit
  <2> QED
    BY <2>1, RConstants DEF RInit, RTypes
<1>4. ASSUME NEW b \in Rollbackers
      PROVE  RLedger(rb[b], rattempt[b], inverted[b]) /\ Bound(rb[b])
  <2>1. rb[b] = Waiting /\ rattempt[b] = NoRStatus /\ inverted[b] = {}
    BY DEF RInit
  <2>2. /\ Waiting.pc = "idle" /\ Waiting.status = NoRStatus /\ ~Waiting.stale
        /\ Waiting.source = NoStatus /\ NoStatus.state = ""
    BY DEF Waiting, NoStatus
  <2>3. NoRStatus.state = "" /\ \A o \in Artifacts : NoRStatus.inverse[o] = "NONE"
    BY DEF NoRStatus
  <2>4. RTrue(NoRStatus, {})
    BY <2>3 DEF RTrue, Inverses
  <2>5. RLedger(Waiting, NoRStatus, {})
    BY <2>2, <2>4 DEF RLedger, Chosen, Inverting
  <2>6. Bound(Waiting)
    BY <2>2 DEF Bound, Qualified, Chosen, Inverting, Terminal
  <2> QED
    BY <2>1, <2>5, <2>6
<1> QED
  BY <1>1, <1>2, <1>3, <1>4 DEF RInv

\* Every step keeps it.
LEMMA NextRInv == RInv /\ [RNext]_allVars => RInv'
<1> SUFFICES ASSUME RInv, [RNext]_allVars PROVE RInv'
  OBVIOUS
<1>1. ASSUME NEW b \in Rollbackers, Qualify(b)
      PROVE  RInv'
  BY <1>1, ReadSourceStep, EpochCheckStep, HistoryStep, ConfirmStep DEF Qualify
<1>2. ASSUME NEW b \in Rollbackers, RCustody(b)
      PROVE  RInv'
  BY <1>2, ConfirmStep, BeginRollbackStep, PersistInverseStep, SuccessStep, NoSuccessStep,
     PersistLastStep DEF RCustody
<1>3. ASSUME NEW b \in Rollbackers, Invert(b)
      PROVE  RInv'
  BY <1>3, PrepareStep, GetForInverseStep, ReferenceStep, UpdateInverseStep, DeleteInverseStep,
     ObserveInverseStep DEF Invert
<1>4. CASE UNCHANGED allVars
  <2>1. UNCHANGED <<epoch, born, rb, rattempt, inverted>> /\ UNCHANGED vars
    BY <1>4 DEF allVars, rbVars
  <2>2. UNCHANGED <<prop, live, version, run, attempt, touched, late, used>>
    BY <2>1 DEF vars
  <2>3. Inv' /\ Faithful'
    BY <2>1, NextInv, NextFaithful DEF RInv
  <2>4. Frozen' /\ RTypes'
    BY <2>1, <2>2 DEF RInv, Frozen, RTypes
  <2> QED
    BY <2>1, <2>2, <2>3, <2>4 DEF RInv, Bound, BindingFirst
<1> QED
  BY <1>1, <1>2, <1>3, <1>4, ApplySideStep, EpochStep, DieInRollbackStep DEF RNext

\* Rollbacks, their sources and their RollbackAttempts always agree with each
\* other, and the apply side keeps its two invariants under the inverses.
THEOREM RollbackInvariant == RSpec => []RInv
BY InitRInv, NextRInv, PTL DEF RSpec

-----------------------------------------------------------------------------
(* What it says.                                                           *)

\* A RollbackAttempt tells the truth about the inverses that took effect,
\* whichever requests fail or lose their answer and whenever the process dies.
THEOREM RollbacksTellTheTruth == RSpec => []RollbackTruthful
<1>1. RInv => RollbackTruthful
  <2> SUFFICES ASSUME RInv PROVE RollbackTruthful
    OBVIOUS
  <2>1. RTypeOK
    BY DEF RInv, RTypes, RTypeOK, Inv, Rest, PerRun, TypeOK
  <2>2. \A b \in Rollbackers : RTrue(rattempt[b], inverted[b])
    BY RFacts
  <2> QED
    BY <2>1, <2>2 DEF RollbackTruthful, RTrue, Inverses
<1> QED
  BY <1>1, RollbackInvariant, PTL

\* The promises of apply-proposal survive the rollbacks: an inverse takes a
\* change away from every run that counts it, and writes no attempt.
THEOREM AttemptsSurviveRollback == RSpec => [](AttemptsTruthful /\ WritesAreRecorded)
<1>1. RInv => AttemptsTruthful /\ WritesAreRecorded
  <2> SUFFICES ASSUME RInv PROVE AttemptsTruthful /\ WritesAreRecorded
    OBVIOUS
  <2>1. Inv /\ Faithful
    BY DEF RInv
  <2>2. OutcomeTruthful
    BY <2>1, RunTells DEF OutcomeTruthful, Truthful
  <2>3. AttributableIsOurs
    BY <2>1, RunTells DEF AttributableIsOurs, Owned
  <2>4. WritesAreRecorded
    BY <2>1 DEF Inv, Good, WritesAreRecorded
  <2> QED
    BY <2>2, <2>3, <2>4 DEF AttemptsTruthful
<1> QED
  BY <1>1, RollbackInvariant, PTL

\* The step in which an inverse takes effect: the rollback holds the object at
\* the version its source left, and every earlier condition still stands.
LEMMA InversionShape ==
    ASSUME RInv, [RNext]_allVars, NEW b \in Rollbackers, NEW o \in inverted'[b] \ inverted[b]
    PROVE  /\ rb[b].pc = "dispatch" /\ o = Latest(rb[b])
           /\ live[o].rv = rb[b].held
<1>0. inverted \in [Rollbackers -> SUBSET Artifacts]
  BY DEF RInv, RTypes
<1>1. inverted' # inverted
  OBVIOUS
<1>2. PICK c \in Rollbackers : UpdateInverse(c) \/ DeleteInverse(c)
  <2>1. PICK c \in Rollbackers : Qualify(c) \/ RCustody(c) \/ Invert(c) \/ DieInRollback(c)
    BY <1>1 DEF RNext, ApplySide, runCustodyEpochActivate, allVars, rbVars
  <2>2. ~Qualify(c)
    BY <1>1 DEF Qualify, ReadSource, CustodyEpochAndHardening, rollbackHistory, ConfirmAndReRead, Ask
  <2>3. ~RCustody(c)
    BY <1>1 DEF RCustody, CreateRollback, BeginRollback, PersistInverse, PersistInverseResult,
                PersistLastRollback, SaveRollbackStatus, Ask
  <2>4. ~(\/ prepareInverse(c) \/ GetForInverse(c) \/ targetReferencesPolicy(c)
          \/ verifyRestoredReferencesReady(c) \/ ConfirmAbsent(c) \/ RereadInverse(c)
          \/ DieInRollback(c))
    BY <1>1 DEF prepareInverse, GetForInverse, targetReferencesPolicy,
                verifyRestoredReferencesReady, ConfirmAbsent, RereadInverse, DieInRollback, Ask
  <2> QED
    BY <2>1, <2>2, <2>3, <2>4 DEF Invert
<1>3. /\ rb[c].pc = "dispatch" /\ live[Latest(rb[c])].rv = rb[c].held
      /\ inverted' = [inverted EXCEPT ![c] = @ \cup {Latest(rb[c])}]
  BY <1>1, <1>2 DEF UpdateInverse, DeleteInverse, InverseLanded, InverseRefused, RAt
<1>4. b = c /\ o = Latest(rb[c])
  BY <1>0, <1>3
<1> QED
  BY <1>3, <1>4

\* An inverse only ever replaces the exact version its source attempt left,
\* holding the candidate that attempt applied, however long it took between
\* the guarded reads and the request and whoever else rolls back.
THEOREM OnlyOwnIsInverted == RSpec => InvertsOnlyOwn
<1> DEFINE Own ==
        \A b \in Rollbackers : \A o \in inverted'[b] \ inverted[b] :
            LET a == rb[b].src
            IN  /\ live[o].rv = attempt[a].mutations[o].attributable
                /\ live[o].content = Digest(run[a])
<1>1. RInv /\ [RNext]_allVars => [Own]_allVars
  <2> SUFFICES ASSUME RInv, [RNext]_allVars, NEW b \in Rollbackers,
                      NEW o \in inverted'[b] \ inverted[b]
               PROVE  /\ live[o].rv = attempt[rb[b].src].mutations[o].attributable
                      /\ live[o].content = Digest(run[rb[b].src])
    OBVIOUS
  <2> PICK r \in Rollbacks : r = rb[b]
    BY RFacts
  <2>1. r.pc = "dispatch" /\ o = Latest(r) /\ live[o].rv = r.held
    BY InversionShape
  <2>2. /\ r.src \in Appliers /\ attempt[r.src] = r.source
        /\ r.held = r.source.mutations[o].attributable
        /\ o \in Artifacts /\ r.source.mutations[o].attributable # 0
    BY <2>1, RFacts DEF Bound, Qualified, Chosen, Inverting, SourceRecord
  <2>3. Owned(attempt[r.src], Digest(run[r.src]), live, version)
    BY <2>2, RunTells DEF RInv
  <2> QED
    BY <2>1, <2>2, <2>3 DEF Owned
<1> QED
  BY <1>1, RollbackInvariant, PTL DEF RSpec, InvertsOnlyOwn

\* A policy is inverted after the binding on top of it, by whichever rollback
\* of the same source, and is never deleted under a reference the rollback
\* could have seen.
THEOREM BindingsGoFirst == RSpec => PoliciesGoLast
<1> DEFINE Last ==
        \A b \in Rollbackers : \A o \in (inverted'[b] \ inverted[b]) \ {Workload} :
            LET src == attempt[rb[b].src]
            IN  /\ WasCreated(src.mutations[o]) /\ References(live[Workload], o)
                      => version[Workload] > rb[b].checked
                /\ Workload \in Succeeded(src) /\ src.mutations[Workload].attributable # 0
                      => \E c \in Rollbackers : rb[c].src = rb[b].src /\ Workload \in inverted[c]
<1>1. RInv /\ [RNext]_allVars => [Last]_allVars
  <2> SUFFICES ASSUME RInv, [RNext]_allVars, NEW b \in Rollbackers,
                      NEW o \in (inverted'[b] \ inverted[b]) \ {Workload}
               PROVE  /\ /\ WasCreated(attempt[rb[b].src].mutations[o])
                         /\ References(live[Workload], o)
                         => version[Workload] > rb[b].checked
                      /\ /\ Workload \in Succeeded(attempt[rb[b].src])
                         /\ attempt[rb[b].src].mutations[Workload].attributable # 0
                         => \E c \in Rollbackers : rb[c].src = rb[b].src /\ Workload \in inverted[c]
    OBVIOUS
  <2> PICK r \in Rollbacks : r = rb[b]
    BY RFacts
  <2>1. r.pc = "dispatch" /\ o = Latest(r)
    BY InversionShape
  <2>2. /\ attempt[r.src] = r.source /\ BindingFirst(r)
        /\ WasCreated(r.source.mutations[o]) => Unreferenced(r, o, live, version)
    BY <2>1, RFacts DEF Bound, Qualified, Chosen, Inverting, SourceRecord
  <2>3. Workload \notin r.todo
    BY <2>1, BindingIsLatest
  <2>4. ASSUME WasCreated(r.source.mutations[o]), References(live[Workload], o)
        PROVE  version[Workload] > r.checked
    <3>1. /\ Workload \in Artifacts /\ r.checked =< version[Workload]
          /\ version[Workload] # r.checked
      BY <2>2, <2>4 DEF Unreferenced
    <3>2. version[Workload] \in Nat /\ r.checked \in Nat
      BY <3>1 DEF RInv, Inv, Rest, Rollbacks
    <3> QED
      BY <3>1, <3>2
  <2> QED
    BY <2>2, <2>3, <2>4 DEF BindingFirst
<1> QED
  BY <1>1, RollbackInvariant, PTL DEF RSpec, PoliciesGoLast

==============================================================================
