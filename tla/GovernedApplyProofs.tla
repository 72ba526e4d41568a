------------------------- MODULE GovernedApplyProofs -------------------------
(* Theorems about GovernedApply, for any number of runs, specs, artifacts,  *)
(* edits, faults and conflict retries.                                      *)
EXTENDS GovernedApply, FiniteSetTheorems, TLAPS

\* A mutation has been recorded and its outcome is not yet settled.
Dispatched == {"get", "write", "refetch", "delete", "gone", "recreate",
               "landed", "errored", "result"}

\* The run is working on the artifact Current(r).
Looping == Dispatched \cup {"wait", "podlock", "spec3", "status3", "spec4",
                            "status4", "before", "intent"}

\* What a run r with the durable status st and the changes t keeps true: the
\* changes are recorded durably and in memory, so that neither losing a
\* status write nor making the next one can lose a record.
Good(r, st, t) ==
    /\ r \in Run
    /\ r.pc \in Looping => r.todo # {}
    /\ t \subseteq Recorded(st)
    /\ r.pc # "dead" => t \subseteq Recorded(r.status)
    /\ r.pc \in Dispatched => Current(r) \in Recorded(st) \cap Recorded(r.status)

Rest ==
    /\ prop \in Proposal
    /\ live \in [Artifacts -> Object]
    /\ version \in [Artifacts -> Nat]
    /\ late \in [Appliers -> SUBSET Artifacts]
    /\ used \in [edits : 0 .. MaxEdits, faults : 0 .. MaxFaults]

PerRun ==
    /\ run \in [Appliers -> Run]
    /\ attempt \in [Appliers -> Status]
    /\ touched \in [Appliers -> SUBSET Artifacts]

Inv == Rest /\ PerRun /\ \A a \in Appliers : Good(run[a], attempt[a], touched[a])
-----------------------------------------------------------------------------
(* Values the model is built from.                                         *)

\* The values an empty state starts from are well typed.
LEMMA Constants ==
    /\ Absent \in Object
    /\ NoRecord \in Record
    /\ NoStatus \in Status
    /\ Nobody \in Proposal
    /\ NoAnswer \in [uid : Nat, rv : Nat]
    /\ Fresh \in Run
<1>1. Absent \in Object
  BY DEF Absent, Object, Foreign
<1>2. NoRecord \in Record
  BY DEF NoRecord, Record, mutationSnapshot, Absent, Snapshot, Foreign
<1>3. NoStatus \in Status
  BY <1>2 DEF NoStatus, Status
<1>4. Nobody \in Proposal
  BY ApplyConstants DEF Nobody, Proposal
<1>5. NoAnswer \in [uid : Nat, rv : Nat]
  BY DEF NoAnswer
<1>6. Fresh \in Run
  BY <1>1, <1>3, <1>4, <1>5 DEF Fresh, Run, PCs
<1> QED
  BY <1>1, <1>2, <1>3, <1>4, <1>5, <1>6

\* Custody of an object is a snapshot, and its record is an open one.
LEMMA RecordOfObject ==
    ASSUME NEW obj \in Object
    PROVE  /\ mutationSnapshot(obj) \in Snapshot
           /\ mutationRecordFor(obj) \in Record
           /\ mutationRecordFor(obj).result = "OUTCOME_UNKNOWN"
BY DEF mutationSnapshot, Snapshot, Object, mutationRecordFor, Record

\* A run that still has work has a current artifact, of the least class it
\* has left to do.
LEMMA CurrentIsLeast ==
    ASSUME NEW r \in Run, r.todo # {}
    PROVE  /\ Current(r) \in r.todo
           /\ \A q \in r.todo : applyClassFor(Current(r)) =< applyClassFor(q)
<1>1. \A o \in r.todo : applyClassFor(o) \in {0, 1, 2}
  BY DEF applyClassFor
<1>2. \E o \in r.todo : \A q \in r.todo : applyClassFor(o) =< applyClassFor(q)
  <2>1. CASE \E o \in r.todo : applyClassFor(o) = 0
    BY <1>1, <2>1
  <2>2. CASE /\ ~ \E o \in r.todo : applyClassFor(o) = 0
             /\ \E o \in r.todo : applyClassFor(o) = 1
    BY <1>1, <2>2
  <2>3. CASE ~ \E o \in r.todo : applyClassFor(o) \in {0, 1}
    BY <1>1, <2>3
  <2> QED
    BY <2>1, <2>2, <2>3
<1> QED
  BY <1>2 DEF Current

\* It is one of the proposal's artifacts.
LEMMA CurrentIsPlanned ==
    ASSUME NEW r \in Run, r.todo # {}
    PROVE  Current(r) \in r.todo /\ Current(r) \in Artifacts
BY CurrentIsLeast DEF Run

\* The digest a run applies is one of the candidates' digests.
LEMMA DigestIsKnown ==
    ASSUME NEW r \in Run
    PROVE  Digest(r) \in Digests
BY DEF Digest, Digests, Run, Proposal

\* Records are only ever added or closed: replacing a record by one with a
\* result keeps every other record and records the artifact.
LEMMA RecordedAfter ==
    ASSUME NEW st \in Status, NEW o \in Artifacts, NEW rec \in Record, rec.result # "NONE",
           NEW new, new = [st EXCEPT !.mutations[o] = rec]
    PROVE  /\ new \in Status
           /\ new.state = st.state
           /\ Recorded(new) = Recorded(st) \cup {o}
<1>1. new \in Status /\ new.state = st.state
  BY DEF Status
<1>2. new.mutations = [st.mutations EXCEPT ![o] = rec]
  BY DEF Status
<1>3. st.mutations \in [Artifacts -> Record]
  BY DEF Status
<1> QED
  BY <1>1, <1>2, <1>3 DEF Recorded
-----------------------------------------------------------------------------
(* What the code's continuations do to a good run.                         *)

\* Returning, failing, giving up and going on keep a run good.
LEMMA Continuations ==
    ASSUME NEW r, NEW st, NEW t, Good(r, st, t), r.pc # "dead"
    PROVE  /\ Good(Stop(r), st, t)
           /\ Good(Fail(r), st, t)
           /\ Good(Unknown(r), st, t)
           /\ Good(Continue(r), st, t)
<1>0. r \in Run /\ r.status \in Status /\ t \subseteq Recorded(st) /\ t \subseteq Recorded(r.status)
  BY DEF Good, Run
<1>1. Good(Stop(r), st, t)
  <2>1. Stop(r) \in Run /\ Stop(r).pc = "done" /\ Stop(r).status = r.status
    BY <1>0 DEF Stop, Run, PCs
  <2> QED
    BY <1>0, <2>1 DEF Good, Looping, Dispatched
<1>2. Good(Fail(r), st, t)
  <2>1. markFailure(r.status) \in Status /\ markFailure(r.status).mutations = r.status.mutations
    BY <1>0 DEF markFailure, Status, Terminal
  <2>2. Fail(r) \in Run /\ Fail(r).pc = "last" /\ Fail(r).status = markFailure(r.status)
    BY <1>0, <2>1 DEF Fail, Run, PCs
  <2>3. Recorded(Fail(r).status) = Recorded(r.status)
    BY <2>1, <2>2 DEF Recorded
  <2> QED
    BY <1>0, <2>2, <2>3 DEF Good, Looping, Dispatched
<1>3. Good(Unknown(r), st, t)
  <2>1. /\ Unknown(r) \in Run
        /\ Unknown(r).pc = "last"
        /\ Unknown(r).status.mutations = r.status.mutations
    BY <1>0 DEF Unknown, Run, PCs, Status, Terminal
  <2>2. Recorded(Unknown(r).status) = Recorded(r.status)
    BY <2>1 DEF Recorded
  <2> QED
    BY <1>0, <2>1, <2>2 DEF Good, Looping, Dispatched
<1>4. Good(Continue(r), st, t)
  <2>1. CASE r.todo = {}
    <3>1. /\ Continue(r) \in Run
          /\ Continue(r).pc = "last"
          /\ Continue(r).status.mutations = r.status.mutations
      BY <1>0, <2>1 DEF Continue, Run, PCs, Status, Terminal
    <3>2. Recorded(Continue(r).status) = Recorded(r.status)
      BY <3>1 DEF Recorded
    <3> QED
      BY <1>0, <3>1, <3>2 DEF Good, Looping, Dispatched
  <2>2. CASE r.todo # {}
    <3>1. \E pc \in {"wait", "spec4"} : Continue(r) = [r EXCEPT !.pc = pc]
      BY <2>2 DEF Continue
    <3>2. PICK pc \in {"wait", "spec4"} : Continue(r) = [r EXCEPT !.pc = pc]
      BY <3>1
    <3>3. /\ Continue(r) \in Run /\ Continue(r).pc = pc
          /\ Continue(r).todo = r.todo /\ Continue(r).status = r.status
      BY <1>0, <3>2 DEF Run, PCs
    <3> QED
      BY <1>0, <2>2, <3>2, <3>3 DEF Good, Looping, Dispatched
  <2> QED
    BY <2>1, <2>2
<1> QED
  BY <1>1, <1>2, <1>3, <1>4

\* A run whose plan, status and open mutation stay the same stays good.
LEMMA SameWork ==
    ASSUME NEW r, NEW st, NEW t, Good(r, st, t), r.pc # "dead",
           NEW new \in Run,
           new.todo = r.todo, new.status = r.status,
           new.pc \in Looping => r.todo # {},
           new.pc \in Dispatched => r.pc \in Dispatched
    PROVE  Good(new, st, t)
<1>1. Current(new) = Current(r)
  BY DEF Current
<1> QED
  BY <1>1 DEF Good

\* A step of one run that leaves it good keeps the invariant.
LEMMA OneRunStep ==
    ASSUME Inv, Rest', NEW a \in Appliers,
           NEW r, NEW st \in Status, NEW t \in SUBSET Artifacts, Good(r, st, t),
           run' = [run EXCEPT ![a] = r],
           attempt' = [attempt EXCEPT ![a] = st],
           touched' \in [Appliers -> SUBSET Artifacts], touched'[a] = t,
           \A b \in Appliers \ {a} : touched'[b] \subseteq touched[b]
    PROVE  Inv'
<1>1. PerRun'
  BY DEF Inv, PerRun, Good
<1>2. ASSUME NEW b \in Appliers
      PROVE  Good(run[b], attempt[b], touched[b])'
  <2>1. CASE b = a
    <3>1. run'[b] = r /\ attempt'[b] = st /\ touched'[b] = t
      BY <2>1 DEF Inv, PerRun
    <3> QED
      BY <3>1 DEF Good
  <2>2. CASE b # a
    <3>1. run'[b] = run[b] /\ attempt'[b] = attempt[b] /\ touched'[b] \subseteq touched[b]
      BY <2>2 DEF Inv, PerRun
    <3>2. Good(run[b], attempt[b], touched[b])
      BY DEF Inv
    <3> QED
      BY <3>1, <3>2 DEF Good
  <2> QED
    BY <2>1, <2>2
<1> QED
  BY <1>1, <1>2 DEF Inv

\* A fault is counted within its bound.
LEMMA FaultsBounded ==
    ASSUME Rest, Fault \/ NoFault
    PROVE  used' \in [edits : 0 .. MaxEdits, faults : 0 .. MaxFaults]
BY ApplyConstants DEF Rest, Fault, NoFault, CanFail

\* Steps that change nothing but one run keep the invariant.
LEMMA LocalStep ==
    ASSUME Inv, NEW a \in Appliers, NEW r, Good(r, attempt[a], touched[a]),
           Become(a, r), Fault \/ NoFault,
           UNCHANGED <<Cluster, attempt, History>>
    PROVE  Inv'
<1>1. Rest'
  BY FaultsBounded DEF Inv, Rest, Cluster, History
<1>2. /\ attempt' = [attempt EXCEPT ![a] = attempt[a]]
      /\ touched' = touched /\ touched \in [Appliers -> SUBSET Artifacts]
      /\ attempt[a] \in Status /\ touched[a] \in SUBSET Artifacts
  BY DEF Inv, PerRun, History
<1> QED
  BY <1>1, <1>2, OneRunStep DEF Become

\* A custody write keeps the invariant when the status it writes keeps the
\* records of all changes made, whichever way the request goes.
LEMMA CustodyStep ==
    ASSUME Inv, NEW a \in Appliers, NEW st \in Status, NEW ok, NEW failed,
           SaveStatus(a, st, ok, failed),
           Good(ok, st, touched[a]),
           Good(failed, attempt[a], touched[a]),
           touched[a] \subseteq Recorded(st),
           failed.pc \in {"last", "done"}
    PROVE  Inv'
<1>0. /\ touched' = touched /\ touched \in [Appliers -> SUBSET Artifacts]
      /\ attempt[a] \in Status /\ touched[a] \in SUBSET Artifacts
  BY DEF Inv, PerRun, SaveStatus, History
<1>1. Fault \/ NoFault
  BY DEF SaveStatus
<1>2. Rest'
  BY <1>1, FaultsBounded DEF Inv, Rest, SaveStatus, Cluster, History
<1>3. CASE attempt' = [attempt EXCEPT ![a] = st] /\ Become(a, ok)
  BY <1>0, <1>2, <1>3, OneRunStep DEF Become
<1>4. CASE attempt' = [attempt EXCEPT ![a] = st] /\ Become(a, [failed EXCEPT !.stale = TRUE])
  <2> DEFINE r == [failed EXCEPT !.stale = TRUE]
  <2>1. r \in Run /\ r.pc = failed.pc /\ r.status = failed.status
    BY DEF Good, Run
  <2>2. Good(r, st, touched[a])
    BY <2>1 DEF Good, Looping, Dispatched
  <2> QED
    BY <1>0, <1>2, <1>4, <2>2, OneRunStep DEF Become
<1>5. CASE UNCHANGED attempt /\ Become(a, failed)
  <2>1. attempt' = [attempt EXCEPT ![a] = attempt[a]]
    BY <1>5 DEF Inv, PerRun
  <2> QED
    BY <1>0, <1>2, <1>5, <2>1, OneRunStep DEF Become
<1> QED
  BY <1>3, <1>4, <1>5 DEF SaveStatus
-----------------------------------------------------------------------------
(* The gates.                                                              *)

\* The facts about run a every step starts from.
LEMMA RunFacts ==
    ASSUME Inv, NEW a \in Appliers
    PROVE  /\ Good(run[a], attempt[a], touched[a])
           /\ run[a] \in Run /\ run[a].status \in Status /\ run[a].read \in Proposal
           /\ attempt[a] \in Status /\ touched[a] \in SUBSET Artifacts
           /\ run[a].pc \in Looping =>
                 Current(run[a]) \in Artifacts /\ Current(run[a]) \in run[a].todo
           /\ prop \in Proposal /\ live \in [Artifacts -> Object] /\ version \in [Artifacts -> Nat]
<1>1. Good(run[a], attempt[a], touched[a]) /\ run[a] \in Run
  BY DEF Inv, PerRun
<1>2. run[a].status \in Status /\ run[a].read \in Proposal
  BY <1>1 DEF Run
<1>3. run[a].pc \in Looping => Current(run[a]) \in Artifacts /\ Current(run[a]) \in run[a].todo
  BY <1>1, CurrentIsPlanned DEF Good
<1> QED
  BY <1>1, <1>2, <1>3 DEF Inv, PerRun, Rest

\* Reading a proposal keeps the work of a run.
LEMMA Reading ==
    ASSUME NEW r, NEW st, NEW t, Good(r, st, t), r.pc # "dead", prop \in Proposal,
           NEW pc \in {"status1", "spec2", "status2", "create", "status3", "spec4", "status4", "before", "last"},
           pc \in {"status3", "spec4", "status4", "before"} => r.pc \in Looping
    PROVE  /\ Good(Seen(r, pc), st, t)
           /\ Good(Unseen(r, pc), st, t)
           /\ Seen(r, pc).pc = pc /\ Unseen(r, pc).pc = pc
<1>1. r \in Run /\ pc \notin Dispatched /\ pc \in PCs
  BY DEF Good, Dispatched, PCs
<1>2. /\ Seen(r, pc) \in Run /\ Seen(r, pc).todo = r.todo
      /\ Seen(r, pc).status = r.status /\ Seen(r, pc).pc = pc
  BY <1>1 DEF Seen, Run
<1>3. /\ Unseen(r, pc) \in Run /\ Unseen(r, pc).todo = r.todo
      /\ Unseen(r, pc).status = r.status /\ Unseen(r, pc).pc = pc
  BY <1>1, Constants DEF Unseen, Run
<1>4. pc \in Looping => r.todo # {}
  BY DEF Good, Looping, Dispatched
<1>5. Good(Seen(r, pc), st, t)
  BY <1>1, <1>2, <1>4, SameWork
<1>6. Good(Unseen(r, pc), st, t)
  BY <1>1, <1>3, <1>4, SameWork
<1> QED
  BY <1>2, <1>3, <1>5, <1>6

\* Every step of a gate keeps the invariant.
LEMMA GateStep ==
    ASSUME Inv, NEW a \in Appliers, Gate(a)
    PROVE  Inv'
<1> DEFINE r == run[a]
<1>0. /\ Good(r, attempt[a], touched[a]) /\ r \in Run /\ prop \in Proposal
  BY RunFacts
<1>1. CASE StartRun(a)
  <2>1. PICK pinned \in BOOLEAN :
           Become(a, [r EXCEPT !.pc = "status1", !.pinned = pinned, !.read = prop])
    BY <1>1 DEF StartRun
  <2> DEFINE new == [r EXCEPT !.pc = "status1", !.pinned = pinned, !.read = prop]
  <2>2. r.pc = "idle"
    BY <1>1 DEF StartRun, At
  <2>3. new \in Run /\ new.pc = "status1" /\ new.todo = r.todo /\ new.status = r.status
    BY <1>0, <2>1 DEF Run, PCs
  <2>4. Good(new, attempt[a], touched[a])
    BY <1>0, <2>2, <2>3, SameWork DEF Looping, Dispatched
  <2> QED
    BY <1>1, <2>1, <2>4, LocalStep DEF StartRun, NoFault
<1>2. CASE Preflight(a)
  <2>1. PICK plan \in SUBSET Artifacts :
           ReadStatus(a, "status1",
               /\ ValidateApprovedCandidate(run[a].read)
               /\ plan # {}
               /\ validateCompositionCompatibility(plan),
               [run[a] EXCEPT !.pc = "spec2", !.plan = plan, !.todo = plan], Stop(run[a]))
    BY <1>2 DEF Preflight
  <2> DEFINE new == [r EXCEPT !.pc = "spec2", !.plan = plan, !.todo = plan]
  <2>2. r.pc = "status1"
    BY <2>1 DEF ReadStatus, At
  <2>3. new \in Run /\ new.pc = "spec2" /\ new.status = r.status
    BY <1>0, <2>1 DEF Run, PCs
  <2>4. Good(new, attempt[a], touched[a])
    BY <1>0, <2>2, <2>3 DEF Good, Looping, Dispatched
  <2>5. Good(Stop(r), attempt[a], touched[a])
    BY <1>0, <2>2, Continuations
  <2> QED
    BY <2>1, <2>4, <2>5, LocalStep DEF ReadStatus
<1>3. CASE ReReadSpec(a)
  <2>1. r.pc = "spec2"
    BY <1>3 DEF ReReadSpec, ReadSpec, At
  <2>2. Good(Seen(r, "status2"), attempt[a], touched[a]) /\ Good(Stop(r), attempt[a], touched[a])
    BY <1>0, <2>1, Continuations, Reading
  <2> QED
    BY <1>3, <2>2, LocalStep DEF ReReadSpec, ReadSpec
<1>4. CASE Revalidate(a)
  <2>1. r.pc = "status2"
    BY <1>4 DEF Revalidate, ReadStatus, At
  <2>2. Good(Unseen(r, "create"), attempt[a], touched[a]) /\ Good(Stop(r), attempt[a], touched[a])
    BY <1>0, <2>1, Continuations, Reading
  <2> QED
    BY <1>4, <2>2, LocalStep DEF Revalidate, ReadStatus
<1>5. CASE ReadSpecBeforeBinding(a)
  <2>1. r.pc = "spec3"
    BY <1>5 DEF ReadSpecBeforeBinding, ReadSpec, At
  <2>2. Good(Seen(r, "status3"), attempt[a], touched[a]) /\ Good(Fail(r), attempt[a], touched[a])
    BY <1>0, <2>1, Continuations, Reading DEF Looping
  <2> QED
    BY <1>5, <2>2, LocalStep DEF ReadSpecBeforeBinding, ReadSpec
<1>6. CASE revalidateBeforeBinding(a)
  <2>1. r.pc = "status3"
    BY <1>6 DEF revalidateBeforeBinding, ReadStatus, At
  <2>2. /\ Good(Unseen(r, "spec4"), attempt[a], touched[a])
        /\ Good(Unseen(r, "last"), attempt[a], touched[a]) /\ Unseen(r, "last").pc = "last"
    BY <1>0, <2>1, Reading DEF Looping
  <2>3. Good(Fail(Unseen(r, "last")), attempt[a], touched[a])
    BY <2>2, Continuations
  <2> QED
    BY <1>6, <2>2, <2>3, LocalStep DEF revalidateBeforeBinding, ReadStatus
<1>7. CASE ReadSpecBeforeMutation(a)
  <2>1. r.pc = "spec4"
    BY <1>7 DEF ReadSpecBeforeMutation, ReadSpec, At
  <2>2. Good(Seen(r, "status4"), attempt[a], touched[a]) /\ Good(Fail(r), attempt[a], touched[a])
    BY <1>0, <2>1, Continuations, Reading DEF Looping
  <2>3. \/ (Fault \/ NoFault) /\ Become(a, Seen(r, "status4"))
        \/ (Fault \/ NoFault) /\ Become(a, Fail(r))
    BY <1>7 DEF ReadSpecBeforeMutation, ReadSpec
  <2> QED
    BY <1>7, <2>2, <2>3, LocalStep DEF ReadSpecBeforeMutation, ReadSpec
<1>8. CASE revalidateAttemptBeforeMutation(a)
  <2>1. r.pc = "status4"
    BY <1>8 DEF revalidateAttemptBeforeMutation, ReadStatus, At
  <2>2. /\ Good(Unseen(r, "before"), attempt[a], touched[a])
        /\ Good(Unseen(r, "last"), attempt[a], touched[a]) /\ Unseen(r, "last").pc = "last"
    BY <1>0, <2>1, Reading DEF Looping
  <2>3. Good(Fail(Unseen(r, "last")), attempt[a], touched[a])
    BY <2>2, Continuations
  <2> QED
    BY <1>8, <2>2, <2>3, LocalStep DEF revalidateAttemptBeforeMutation, ReadStatus
<1> QED
  BY <1>1, <1>2, <1>3, <1>4, <1>5, <1>6, <1>7, <1>8 DEF Gate
-----------------------------------------------------------------------------
(* Custody.                                                                *)

\* Every custody write keeps the invariant.
LEMMA CustodyKeepsRecords ==
    ASSUME Inv, NEW a \in Appliers, Custody(a)
    PROVE  Inv'
<1> DEFINE r == run[a]
<1>0. /\ Good(r, attempt[a], touched[a]) /\ r \in Run /\ r.status \in Status
      /\ attempt[a] \in Status /\ live \in [Artifacts -> Object]
      /\ r.pc \in Looping => Current(r) \in Artifacts /\ Current(r) \in r.todo
  BY RunFacts
<1>1. CASE CreateAttempt(a)
  <2>1. r.pc = "create"
    BY <1>1 DEF CreateAttempt, At
  <2>2. /\ Goto(r, "begin") \in Run /\ Goto(r, "begin").pc = "begin"
        /\ Goto(r, "begin").todo = r.todo /\ Goto(r, "begin").status = r.status
    BY <1>0 DEF Goto, Run, PCs
  <2>3. Good(Goto(r, "begin"), attempt[a], touched[a])
    BY <1>0, <2>1, <2>2, SameWork DEF Looping, Dispatched
  <2>4. Good(Stop(r), attempt[a], touched[a])
    BY <1>0, <2>1, Continuations
  <2> QED
    BY <1>1, <2>3, <2>4, LocalStep DEF CreateAttempt
<1>2. CASE BeginAttempt(a)
  <2> DEFINE new == [r EXCEPT !.status.state = "IN_PROGRESS"]
  <2>1. r.pc = "begin"
    BY <1>2 DEF BeginAttempt, At
  <2>2. /\ new \in Run /\ new.pc = "begin" /\ new.status \in Status
        /\ new.status.mutations = r.status.mutations
    BY <1>0, <2>1 DEF Run, Status
  <2>3. touched[a] \subseteq Recorded(new.status)
    BY <1>0, <2>1, <2>2 DEF Good, Recorded
  <2>4. Good(new, attempt[a], touched[a]) /\ Good(new, new.status, touched[a])
    BY <1>0, <2>1, <2>2, <2>3 DEF Good, Looping, Dispatched
  <2>5. /\ Good(Continue(new), new.status, touched[a])
        /\ Good(Stop(new), attempt[a], touched[a])
    BY <2>2, <2>4, Continuations
  <2>6. Stop(new).pc = "done"
    BY <2>2 DEF Stop, Run
  <2>7. SaveStatus(a, new.status, Continue(new), Stop(new))
    BY <1>2 DEF BeginAttempt
  <2> QED
    BY <2>2, <2>3, <2>5, <2>6, <2>7, CustodyStep
<1>3. CASE PersistIntent(a)
  <2> DEFINE o == Current(r)
             st == [r.status EXCEPT !.mutations[o] = mutationRecordFor(r.held)]
             clear == [r EXCEPT !.held = Absent]
             ok == [clear EXCEPT !.pc = "get", !.status = st]
  <2>1. r.pc = "intent"
    BY <1>3 DEF PersistIntent, At
  <2>2. o \in Artifacts /\ o \in r.todo
    BY <1>0, <2>1 DEF Looping
  <2>3. r.held \in Object
    BY <1>0 DEF Run
  <2>4. st \in Status /\ Recorded(st) = Recorded(r.status) \cup {o}
    BY <1>0, <2>2, <2>3, RecordOfObject, RecordedAfter
  <2>5. /\ clear \in Run /\ clear.pc = "intent" /\ clear.todo = r.todo /\ clear.status = r.status
        /\ ok \in Run /\ ok.pc = "get" /\ ok.todo = r.todo /\ ok.status = st
    <3>1. clear \in Run /\ clear.pc = "intent" /\ clear.todo = r.todo /\ clear.status = r.status
      BY <1>0, <2>1, Constants DEF Run
    <3>2. ok \in Run /\ ok.pc = "get" /\ ok.todo = clear.todo /\ ok.status = st
      BY <2>4, <3>1 DEF Run, PCs
    <3> QED
      BY <3>1, <3>2
  <2>6. Good(clear, attempt[a], touched[a])
    BY <1>0, <2>1, <2>2, <2>5, SameWork DEF Dispatched
  <2>7. Good(Fail(clear), attempt[a], touched[a]) /\ Fail(clear).pc = "last"
    BY <2>5, <2>6, Continuations DEF Fail, Run
  <2>8. Current(ok) = o
    BY <2>5 DEF Current
  <2>9. touched[a] \subseteq Recorded(st)
    BY <1>0, <2>1, <2>4 DEF Good
  <2>10. Good(ok, st, touched[a])
    BY <2>2, <2>4, <2>5, <2>8, <2>9 DEF Good
  <2>11. SaveStatus(a, st, ok, Fail(clear))
    BY <1>3 DEF PersistIntent
  <2> QED
    BY <2>4, <2>7, <2>9, <2>10, <2>11, CustodyStep
<1>4. CASE PersistResult(a)
  <2> DEFINE o == Current(r)
             rest == [r EXCEPT !.todo = @ \ {o}]
             ok == CASE r.status.mutations[o].result = "SUCCEEDED" -> Continue(rest)
                     [] r.status.mutations[o].result = "FAILED" -> Fail(r)
                     [] OTHER -> Unknown(r)
  <2>1. r.pc = "result"
    BY <1>4 DEF PersistResult, At
  <2>2. touched[a] \subseteq Recorded(r.status)
    BY <1>0, <2>1 DEF Good
  <2>3. Good(r, r.status, touched[a])
    BY <1>0, <2>1, <2>2 DEF Good
  <2>4. Good(Continue(rest), r.status, touched[a])
    <3> DEFINE mid == [rest EXCEPT !.pc = "begin"]
    <3>1. /\ rest \in Run /\ rest.status = r.status
          /\ mid \in Run /\ mid.status = r.status /\ mid.pc = "begin"
      BY <1>0 DEF Run, PCs
    <3>2. Good(mid, r.status, touched[a])
      BY <2>2, <3>1 DEF Good, Looping, Dispatched
    <3>3. Good(Continue(mid), r.status, touched[a])
      BY <3>1, <3>2, Continuations
    <3>4. Continue(rest) = Continue(mid)
      <4>1. mid.todo = rest.todo
        BY <3>1 DEF Run
      <4>2. Current(mid) = Current(rest)
        BY <4>1 DEF Current
      <4>3. \A pc : [mid EXCEPT !.pc = pc] = [rest EXCEPT !.pc = pc]
        BY <3>1 DEF Run
      <4>4. [mid EXCEPT !.pc = "last", !.status.state = "APPLIED"]
              = [rest EXCEPT !.pc = "last", !.status.state = "APPLIED"]
        BY <3>1 DEF Run
      <4> QED
        BY <4>1, <4>2, <4>3, <4>4 DEF Continue
    <3> QED
      BY <3>3, <3>4
  <2>5. /\ Good(Fail(r), r.status, touched[a])
        /\ Good(Unknown(r), r.status, touched[a])
        /\ Good(Unknown(r), attempt[a], touched[a])
    BY <1>0, <2>1, <2>3, Continuations
  <2>6. Good(ok, r.status, touched[a])
    BY <2>4, <2>5
  <2>7. Unknown(r).pc = "last"
    BY <1>0 DEF Unknown, Run
  <2>8. SaveStatus(a, r.status, ok, Unknown(r))
    BY <1>4 DEF PersistResult
  <2> QED
    BY <1>0, <2>2, <2>5, <2>6, <2>7, <2>8, CustodyStep
<1>5. CASE PersistLast(a)
  <2>1. r.pc = "last"
    BY <1>5 DEF PersistLast, At
  <2>2. touched[a] \subseteq Recorded(r.status)
    BY <1>0, <2>1 DEF Good
  <2>3. Good(r, r.status, touched[a])
    BY <1>0, <2>1, <2>2 DEF Good, Looping, Dispatched
  <2>4. /\ Good(Stop(r), r.status, touched[a])
        /\ Good(Stop(r), attempt[a], touched[a])
    BY <1>0, <2>1, <2>3, Continuations
  <2>5. Stop(r).pc = "done"
    BY <1>0 DEF Stop, Run
  <2>6. SaveStatus(a, r.status, Stop(r), Stop(r))
    BY <1>5 DEF PersistLast
  <2> QED
    BY <1>0, <2>2, <2>4, <2>5, <2>6, CustodyStep
<1> QED
  BY <1>1, <1>2, <1>3, <1>4, <1>5 DEF Custody

\* The readiness checks only move the run on or end it.
LEMMA ReadinessStep ==
    ASSUME Inv, NEW a \in Appliers, Readiness(a)
    PROVE  Inv'
<1> DEFINE r == run[a]
<1>0. Good(r, attempt[a], touched[a]) /\ r \in Run
  BY RunFacts
<1>1. r.pc \in {"wait", "podlock"}
  BY DEF Readiness, waitForEnforcementReady, validatePodLockBeforeBinding, At
<1>2. ASSUME NEW pc \in {"podlock", "spec3"}
      PROVE  Good(Goto(r, pc), attempt[a], touched[a])
  <2>1. /\ Goto(r, pc) \in Run /\ Goto(r, pc).pc = pc
        /\ Goto(r, pc).todo = r.todo /\ Goto(r, pc).status = r.status
    BY <1>0 DEF Goto, Run, PCs
  <2>2. r.todo # {}
    BY <1>0, <1>1 DEF Good, Looping
  <2> QED
    BY <1>0, <1>1, <2>1, <2>2, SameWork DEF Dispatched
<1>3. Good(Stop(r), attempt[a], touched[a])
  BY <1>0, <1>1, Continuations
<1>4. CASE waitForEnforcementReady(a)
  BY <1>2, <1>3, <1>4, LocalStep DEF waitForEnforcementReady
<1>5. CASE validatePodLockBeforeBinding(a)
  BY <1>2, <1>3, <1>5, LocalStep DEF validatePodLockBeforeBinding
<1> QED
  BY <1>4, <1>5 DEF Readiness
-----------------------------------------------------------------------------
(* Mutations.                                                              *)

\* A stored object is an object, whoever stores it.
LEMMA StoreTypes ==
    ASSUME NEW o \in Artifacts, NEW obj \in Object, Store(o, obj),
           live \in [Artifacts -> Object], version \in [Artifacts -> Nat]
    PROVE  live' \in [Artifacts -> Object] /\ version' \in [Artifacts -> Nat]
<1>1. version[o] + 1 \in Nat
  OBVIOUS
<1>2. [obj EXCEPT !.rv = version[o] + 1] \in Object
  BY <1>1 DEF Object
<1> QED
  BY <1>1, <1>2 DEF Store

\* A created object holds what was asked for.
LEMMA CreatedTypes ==
    ASSUME NEW o \in Artifacts, version \in [Artifacts -> Nat],
           NEW c \in Digests \cup Foreign
    PROVE  Created(o, c) \in Object
BY DEF Created, Object

\* A mutation that takes effect changes an artifact that is already recorded.
LEMMA LandedStep ==
    ASSUME Inv, NEW a \in Appliers, run[a].pc \in {"write", "delete", "recreate"},
           NEW obj \in Object, NEW next \in {"landed", "gone"},
           Landed(a, Current(run[a]), obj, next)
    PROVE  Inv'
<1> DEFINE r == run[a]
           o == Current(r)
           t == IF live' = live THEN touched[a] ELSE touched[a] \cup {o}
           answer == [uid |-> live'[o].uid, rv |-> live'[o].rv]
<1>0. /\ Good(r, attempt[a], touched[a]) /\ r \in Run /\ attempt[a] \in Status
      /\ touched[a] \in SUBSET Artifacts /\ o \in Artifacts /\ r.todo # {}
      /\ live \in [Artifacts -> Object] /\ version \in [Artifacts -> Nat]
  BY RunFacts DEF Looping, Dispatched
<1>1. live' \in [Artifacts -> Object] /\ version' \in [Artifacts -> Nat]
  BY <1>0, StoreTypes DEF Landed
<1>2. Fault \/ NoFault
  BY DEF Landed
<1>3. late' \in [Appliers -> SUBSET Artifacts]
  <2>1. late \in [Appliers -> SUBSET Artifacts]
    BY DEF Inv, Rest
  <2>2. late' = [late EXCEPT ![a] = IF live' = live \/ Authorises(prop, run[a])
                                    THEN late[a] ELSE late[a] \cup {o}]
    BY DEF Landed
  <2> QED
    BY <1>0, <2>1, <2>2
<1>4. Rest'
  BY <1>1, <1>2, <1>3, FaultsBounded DEF Inv, Rest, Landed
<1>5. /\ t \in SUBSET Artifacts
      /\ touched' \in [Appliers -> SUBSET Artifacts] /\ touched'[a] = t
      /\ \A b \in Appliers \ {a} : touched'[b] \subseteq touched[b]
  BY <1>0 DEF Landed, Inv, PerRun
<1>6. attempt' = [attempt EXCEPT ![a] = attempt[a]]
  BY DEF Landed, Inv, PerRun
<1>7. answer \in [uid : Nat, rv : Nat]
  BY <1>0, <1>1 DEF Object
<1>8. /\ t \subseteq Recorded(attempt[a]) /\ t \subseteq Recorded(r.status)
      /\ o \in Recorded(attempt[a]) /\ o \in Recorded(r.status)
  BY <1>0 DEF Good, Dispatched
<1>9. ASSUME NEW new \in Run, new.todo = r.todo, new.status = r.status, new.pc \in Dispatched
      PROVE  Good(new, attempt[a], t)
  <2>1. Current(new) = o
    BY <1>9 DEF Current
  <2> QED
    BY <1>0, <1>8, <1>9, <2>1 DEF Good, Dispatched
<1>10. CASE Become(a, [r EXCEPT !.pc = next, !.held = Absent, !.tries = 0, !.answer = answer])
  <2> DEFINE new == [r EXCEPT !.pc = next, !.held = Absent, !.tries = 0, !.answer = answer]
  <2>1. new \in Run /\ new.todo = r.todo /\ new.status = r.status /\ new.pc = next
    BY <1>0, <1>7, Constants DEF Run, PCs
  <2>2. Good(new, attempt[a], t)
    BY <1>9, <2>1 DEF Dispatched
  <2> QED
    BY <1>0, <1>4, <1>5, <1>6, <1>10, <2>2, OneRunStep DEF Become
<1>11. CASE Become(a, [r EXCEPT !.pc = "errored", !.held = Absent, !.tries = 0])
  <2> DEFINE new == [r EXCEPT !.pc = "errored", !.held = Absent, !.tries = 0]
  <2>1. new \in Run /\ new.todo = r.todo /\ new.status = r.status /\ new.pc = "errored"
    BY <1>0, Constants DEF Run, PCs
  <2>2. Good(new, attempt[a], t)
    BY <1>9, <2>1 DEF Dispatched
  <2> QED
    BY <1>0, <1>4, <1>5, <1>6, <1>11, <2>2, OneRunStep DEF Become
<1> QED
  BY <1>10, <1>11 DEF Landed

\* Within a mutation, a step of the run alone keeps the invariant.
LEMMA InsideMutation ==
    ASSUME Inv, NEW a \in Appliers, run[a].pc \in Dispatched,
           NEW new \in Run, new.todo = run[a].todo, new.status = run[a].status,
           new.pc \in Dispatched,
           Become(a, new), Fault \/ NoFault, UNCHANGED <<Cluster, attempt, History>>
    PROVE  Inv'
<1>1. Good(run[a], attempt[a], touched[a])
  BY RunFacts
<1>2. run[a].todo # {} /\ run[a].pc # "dead"
  BY <1>1 DEF Good, Looping, Dispatched
<1>3. Good(new, attempt[a], touched[a])
  BY <1>1, <1>2, SameWork
<1> QED
  BY <1>3, LocalStep

\* A refused request ends the mutation or leads to a retry.
LEMMA RejectedStep ==
    ASSUME Inv, NEW a \in Appliers, run[a].pc \in Dispatched,
           NEW next \in {"errored", "refetch"}, Rejected(a, next), Fault \/ NoFault
    PROVE  Inv'
<1> DEFINE r == run[a]
           new == [r EXCEPT !.pc = next,
                            !.held = IF next = "refetch" THEN @ ELSE Absent,
                            !.tries = IF next = "refetch" THEN @ ELSE 0]
<1>1. r \in Run
  BY RunFacts
<1>2. new \in Run /\ new.todo = r.todo /\ new.status = r.status /\ new.pc = next
  BY <1>1, Constants DEF Run, PCs
<1> QED
  BY <1>2, InsideMutation DEF Rejected, Dispatched

\* Settling the record of the open mutation keeps the run good.
LEMMA SettledRecord ==
    ASSUME NEW r, NEW st, NEW t, Good(r, st, t), r.pc \in {"landed", "errored"},
           NEW rec \in Record, rec.result # "NONE",
           NEW new, new = [r EXCEPT !.pc = "result", !.status.mutations[Current(r)] = rec]
    PROVE  Good(new, st, t)
<1> DEFINE o == Current(r)
           status == [r.status EXCEPT !.mutations[o] = rec]
<1>1. r \in Run /\ r.todo # {} /\ r.status \in Status
  BY DEF Good, Looping, Dispatched, Run
<1>2. o \in Artifacts
  BY <1>1, CurrentIsPlanned
<1>3. status \in Status /\ Recorded(status) = Recorded(r.status) \cup {o}
  BY <1>1, <1>2, RecordedAfter
<1>4. new = [r EXCEPT !.pc = "result", !.status = status]
  BY <1>1 DEF Run
<1>5. new \in Run /\ new.pc = "result" /\ new.todo = r.todo /\ new.status = status
  BY <1>1, <1>3, <1>4 DEF Run, PCs
<1>6. Current(new) = o
  BY <1>5 DEF Current
<1> QED
  BY <1>1, <1>3, <1>5, <1>6 DEF Good, Looping, Dispatched

\* Every step of a mutation keeps the invariant.
LEMMA MutationStep ==
    ASSUME Inv, NEW a \in Appliers, Mutation(a)
    PROVE  Inv'
<1> DEFINE r == run[a]
           o == Current(r)
<1>0. /\ Good(r, attempt[a], touched[a]) /\ r \in Run /\ r.status \in Status
      /\ live \in [Artifacts -> Object] /\ version \in [Artifacts -> Nat]
      /\ r.pc \in Looping => o \in Artifacts /\ o \in r.todo
  BY RunFacts
<1>00. Digest(r) \in Digests
  BY <1>0, DigestIsKnown
<1>1. CASE ReadBefore(a)
  <2> DEFINE new == [r EXCEPT !.pc = "intent", !.held = live[o]]
  <2>1. r.pc = "before"
    BY <1>1 DEF ReadBefore, At
  <2>2. o \in Artifacts /\ r.todo # {}
    BY <1>0, <2>1 DEF Looping
  <2>3. new \in Run /\ new.pc = "intent" /\ new.todo = r.todo /\ new.status = r.status
    BY <1>0, <2>2 DEF Run, PCs
  <2>4. Good(new, attempt[a], touched[a])
    <3>1. new.pc \notin Dispatched /\ r.pc # "dead"
      BY <2>1, <2>3 DEF Dispatched
    <3> QED
      BY <1>0, <2>2, <2>3, <3>1, SameWork
  <2>5. Good(Fail(r), attempt[a], touched[a])
    BY <1>0, <2>1, Continuations
  <2> QED
    BY <1>1, <2>4, <2>5, LocalStep DEF ReadBefore
<1>2. CASE GetBeforeMutation(a)
  <2>1. r.pc = "get"
    BY <1>2 DEF GetBeforeMutation, At
  <2>2. o \in Artifacts /\ r.pc \in Dispatched
    BY <1>0, <2>1 DEF Looping, Dispatched
  <2>3. ASSUME NEW pc \in {"recreate", "write", "delete", "errored"}
        PROVE  /\ Goto(r, pc) \in Run /\ Goto(r, pc).pc \in Dispatched
               /\ Goto(r, pc).todo = r.todo /\ Goto(r, pc).status = r.status
    BY <1>0 DEF Goto, Run, PCs, Dispatched
  <2>4. ASSUME NEW pc \in {"write", "delete"}
        PROVE  LET new == [r EXCEPT !.pc = pc, !.held = live[o]]
               IN  /\ new \in Run /\ new.pc \in Dispatched
                   /\ new.todo = r.todo /\ new.status = r.status
    BY <1>0, <2>2 DEF Run, PCs, Dispatched
  <2>5. /\ \/ \E pc \in {"recreate", "write", "delete", "errored"} : Become(a, Goto(r, pc))
           \/ \E pc \in {"write", "delete"} : Become(a, [r EXCEPT !.pc = pc, !.held = live[o]])
        /\ Fault \/ NoFault
        /\ UNCHANGED <<Cluster, attempt, History>>
    BY <1>2 DEF GetBeforeMutation
  <2> QED
    BY <2>2, <2>3, <2>4, <2>5, InsideMutation
<1>3. CASE WriteLive(a)
  <2>1. r.pc = "write"
    BY <1>3 DEF WriteLive, At
  <2>2. o \in Artifacts /\ r.pc \in Dispatched
    BY <1>0, <2>1 DEF Looping, Dispatched
  <2>3. Created(o, Digest(r)) \in Object
    BY <1>0, <1>00, <2>2, CreatedTypes
  <2>4. [live[o] EXCEPT !.content = Digest(r)] \in Object
    BY <1>0, <1>00, <2>2 DEF Object
  <2>5. \/ Landed(a, o, Created(o, Digest(r)), "landed")
        \/ Landed(a, o, [live[o] EXCEPT !.content = Digest(r)], "landed")
        \/ (Fault \/ NoFault) /\ Rejected(a, "errored")
        \/ (Fault \/ NoFault) /\ Rejected(a, "refetch")
    BY <1>3 DEF WriteLive
  <2> QED
    BY <2>1, <2>2, <2>3, <2>4, <2>5, LandedStep, RejectedStep
<1>4. CASE Refetch(a)
  <2> DEFINE new == [r EXCEPT !.pc = "write", !.held = live[o], !.tries = @ + 1]
  <2>1. r.pc = "refetch"
    BY <1>4 DEF Refetch, At
  <2>2. o \in Artifacts /\ r.pc \in Dispatched
    BY <1>0, <2>1 DEF Looping, Dispatched
  <2>3. new \in Run /\ new.pc \in Dispatched /\ new.todo = r.todo /\ new.status = r.status
    <3>1. r.tries + 1 \in Nat /\ live[o] \in Object
      BY <1>0, <2>2 DEF Run
    <3>2. new = [r EXCEPT !.pc = "write", !.held = live[o], !.tries = r.tries + 1]
      BY <1>0 DEF Run
    <3>3. new \in Run /\ new.pc = "write" /\ new.todo = r.todo /\ new.status = r.status
      BY <1>0, <3>1, <3>2 DEF Run, PCs
    <3> QED
      BY <3>3 DEF Dispatched
  <2>4. \/ /\ Become(a, new) /\ NoFault /\ UNCHANGED <<Cluster, attempt, History>>
        \/ (Fault \/ NoFault) /\ Rejected(a, "errored")
    BY <1>4 DEF Refetch
  <2> QED
    BY <2>2, <2>3, <2>4, InsideMutation, RejectedStep
<1>5. CASE DeletePod(a)
  <2>1. r.pc = "delete"
    BY <1>5 DEF DeletePod, At
  <2>2. o \in Artifacts /\ r.pc \in Dispatched
    BY <1>0, <2>1 DEF Looping, Dispatched
  <2>3. [live[o] EXCEPT !.phase = "dying"] \in Object
    BY <1>0, <2>2 DEF Object
  <2>4. \/ Landed(a, o, [live[o] EXCEPT !.phase = "dying"], "gone")
        \/ (Fault \/ NoFault) /\ Rejected(a, "errored")
    BY <1>5 DEF DeletePod
  <2> QED
    BY <2>1, <2>2, <2>3, <2>4, LandedStep, RejectedStep
<1>6. CASE waitForDynamicPodGone(a)
  <2>1. r.pc = "gone"
    BY <1>6 DEF waitForDynamicPodGone, At
  <2>2. r.pc \in Dispatched
    BY <2>1 DEF Dispatched
  <2>3. ASSUME NEW pc \in {"recreate", "errored"}
        PROVE  LET new == [r EXCEPT !.pc = pc, !.answer = NoAnswer]
               IN  /\ new \in Run /\ new.pc \in Dispatched
                   /\ new.todo = r.todo /\ new.status = r.status
    BY <1>0, Constants DEF Run, PCs, Dispatched
  <2>4. /\ \E pc \in {"recreate", "errored"} : Become(a, [r EXCEPT !.pc = pc, !.answer = NoAnswer])
        /\ Fault \/ NoFault
        /\ UNCHANGED <<Cluster, attempt, History>>
    BY <1>6 DEF waitForDynamicPodGone
  <2> QED
    BY <2>2, <2>3, <2>4, InsideMutation
<1>7. CASE CreatePod(a)
  <2>1. r.pc = "recreate"
    BY <1>7 DEF CreatePod, At
  <2>2. o \in Artifacts /\ r.pc \in Dispatched
    BY <1>0, <2>1 DEF Looping, Dispatched
  <2>3. Created(o, Digest(r)) \in Object
    BY <1>0, <1>00, <2>2, CreatedTypes
  <2>4. \/ Landed(a, o, Created(o, Digest(r)), "landed")
        \/ (Fault \/ NoFault) /\ Rejected(a, "errored")
    BY <1>7 DEF CreatePod
  <2> QED
    BY <2>1, <2>2, <2>3, <2>4, LandedStep, RejectedStep
<1>8. CASE ObserveSuccess(a)
  <2> DEFINE mid == [r EXCEPT !.answer = NoAnswer]
             mine == r.answer.uid = live[o].uid /\ r.answer.rv = live[o].rv
             rec == [r.status.mutations[o] EXCEPT !.result = "SUCCEEDED",
                         !.attributable = IF mine THEN live[o].rv ELSE 0]
             new == [mid EXCEPT !.pc = "result", !.status.mutations[o] = rec]
  <2>1. r.pc = "landed"
    BY <1>8 DEF ObserveSuccess, At
  <2>2. o \in Artifacts /\ r.pc \in Dispatched /\ r.pc \in Looping /\ r.todo # {}
    BY <1>0, <2>1 DEF Looping, Dispatched
  <2>3. mid \in Run /\ mid.pc = r.pc /\ mid.todo = r.todo /\ mid.status = r.status
    BY <1>0, Constants DEF Run
  <2>4. Good(mid, attempt[a], touched[a])
    BY <1>0, <2>1, <2>2, <2>3, SameWork
  <2>5. rec \in Record /\ rec.result # "NONE"
    <3>1. live[o].rv \in Nat /\ r.status.mutations[o] \in Record
      BY <1>0, <2>2 DEF Object, Status
    <3>2. (IF mine THEN live[o].rv ELSE 0) \in Nat
      BY <3>1
    <3> QED
      BY <3>1, <3>2 DEF Record
  <2>6. Current(mid) = o
    BY <2>3 DEF Current
  <2>7. Good(new, attempt[a], touched[a])
    BY <2>1, <2>3, <2>4, <2>5, <2>6, SettledRecord
  <2>8. Good(Unknown(mid), attempt[a], touched[a])
    BY <2>1, <2>3, <2>4, Continuations
  <2>9. /\ Become(a, new) \/ Become(a, Unknown(mid))
        /\ Fault \/ NoFault
        /\ UNCHANGED <<Cluster, attempt, History>>
    BY <1>8, <2>3, <2>6 DEF ObserveSuccess
  <2> QED
    BY <2>7, <2>8, <2>9, LocalStep
<1>9. CASE ObserveFailure(a)
  <2>1. r.pc = "errored"
    BY <1>9 DEF ObserveFailure, At
  <2>2. o \in Artifacts
    BY <1>0, <2>1 DEF Looping, Dispatched
  <2>3. ASSUME NEW result \in {"FAILED", "OUTCOME_UNKNOWN"}
        PROVE  Good([r EXCEPT !.pc = "result", !.status.mutations[o].result = result],
                    attempt[a], touched[a])
    <3> DEFINE rec == [r.status.mutations[o] EXCEPT !.result = result]
               new == [r EXCEPT !.pc = "result", !.status.mutations[o] = rec]
    <3>1. r.status.mutations[o] \in Record
      BY <1>0, <2>2 DEF Status
    <3>2. rec \in Record /\ rec.result # "NONE"
      BY <3>1 DEF Record
    <3>3. Good(new, attempt[a], touched[a])
      BY <1>0, <2>1, <3>2, SettledRecord
    <3>4. new = [r EXCEPT !.pc = "result", !.status.mutations[o].result = result]
      OBVIOUS
    <3> QED
      BY <3>3, <3>4
  <2>4. Good(Unknown(r), attempt[a], touched[a])
    BY <1>0, <2>1, Continuations
  <2>5. /\ \/ \E result \in {"FAILED", "OUTCOME_UNKNOWN"} :
                 Become(a, [r EXCEPT !.pc = "result", !.status.mutations[o].result = result])
           \/ Become(a, Unknown(r))
        /\ Fault \/ NoFault
        /\ UNCHANGED <<Cluster, attempt, History>>
    BY <1>9 DEF ObserveFailure
  <2> QED
    BY <2>3, <2>4, <2>5, LocalStep
<1> QED
  BY <1>1, <1>2, <1>3, <1>4, <1>5, <1>6, <1>7, <1>8, <1>9 DEF Mutation
-----------------------------------------------------------------------------
(* Deaths and everybody else.                                              *)

\* A process that dies leaves its durable status behind.
LEMMA DieStep ==
    ASSUME Inv, NEW a \in Appliers, Die(a)
    PROVE  Inv'
<1> DEFINE new == [Fresh EXCEPT !.pc = "dead", !.read = run[a].read]
<1>1. Good(run[a], attempt[a], touched[a]) /\ run[a].read \in Proposal
  BY RunFacts
<1>2. new \in Run /\ new.pc = "dead"
  BY <1>1, Constants DEF Run, PCs
<1>3. Good(new, attempt[a], touched[a])
  BY <1>1, <1>2 DEF Good, Looping, Dispatched
<1> QED
  BY <1>3, LocalStep DEF Die

\* A step that leaves every run and every attempt alone, and takes no new
\* change into account, keeps the invariant.
LEMMA OutsideStep ==
    ASSUME Inv, Rest', run' = run, attempt' = attempt,
           touched' \in [Appliers -> SUBSET Artifacts],
           \A a \in Appliers : touched'[a] \subseteq touched[a]
    PROVE  Inv'
<1>1. PerRun'
  BY DEF Inv, PerRun
<1>2. ASSUME NEW a \in Appliers
      PROVE  Good(run[a], attempt[a], touched[a])'
  BY DEF Inv, Good
<1> QED
  BY <1>1, <1>2 DEF Inv

\* Reviewers and producers write the proposal.
LEMMA ReviewStep ==
    ASSUME Inv, Review
    PROVE  Inv'
<1>0. prop \in Proposal /\ late \in [Appliers -> SUBSET Artifacts]
  BY DEF Inv, Rest
<1>1. ASSUME NEW new \in Proposal, WriteProposal(new)
      PROVE  Inv'
  <2>1. prop' \in Proposal
    BY <1>1 DEF WriteProposal, Proposal
  <2>2. late' \in [Appliers -> SUBSET Artifacts]
    BY <1>0, <1>1 DEF WriteProposal
  <2>3. Rest'
    BY <1>1, <2>1, <2>2 DEF WriteProposal, Inv, Rest
  <2> QED
    BY <1>1, <2>3, OutsideStep DEF WriteProposal, Inv, PerRun
<1>2. CASE \E s \in Specs : SaveProposal(s)
  <2>1. PICK s \in Specs : SaveProposal(s)
    BY <1>2
  <2>2. [prop EXCEPT !.spec = s] \in Proposal
    BY <1>0, <2>1 DEF Proposal
  <2> QED
    BY <1>1, <2>1, <2>2 DEF SaveProposal
<1>3. CASE Approve
  <2>1. [prop EXCEPT !.approved = DigestOf[prop.spec]] \in Proposal
    BY <1>0 DEF Proposal, Digests
  <2> QED
    BY <1>1, <1>3, <2>1 DEF Approve
<1>4. CASE Reject
  <2>1. [prop EXCEPT !.approved = None] \in Proposal
    BY <1>0 DEF Proposal
  <2> QED
    BY <1>1, <1>4, <2>1 DEF Reject
<1>5. CASE ReplaceProposal
  <2>1. prop.uid + 1 \in Nat
    BY <1>0 DEF Proposal
  <2>2. [prop EXCEPT !.uid = prop.uid + 1, !.approved = None] \in Proposal
    BY <1>0, <2>1 DEF Proposal
  <2>3. [prop EXCEPT !.uid = @ + 1, !.approved = None]
           = [prop EXCEPT !.uid = prop.uid + 1, !.approved = None]
    OBVIOUS
  <2> QED
    BY <1>1, <1>5, <2>2, <2>3 DEF ReplaceProposal
<1> QED
  BY <1>2, <1>3, <1>4, <1>5 DEF Review

\* Controllers and other clients write the live objects.
LEMMA OthersStep ==
    ASSUME Inv, NEW o \in Artifacts, Others(o)
    PROVE  Inv'
<1>0. live \in [Artifacts -> Object] /\ version \in [Artifacts -> Nat] /\ live[o] \in Object
  BY DEF Inv, Rest
<1>1. used.edits < MaxEdits => [used EXCEPT !.edits = @ + 1]
                                  \in [edits : 0 .. MaxEdits, faults : 0 .. MaxFaults]
  BY ApplyConstants DEF Inv, Rest
<1>2. [live EXCEPT ![o] = Absent] \in [Artifacts -> Object]
  BY <1>0, Constants
<1>3. ASSUME NEW obj \in Object, Edit(o, obj)
      PROVE  Inv'
  <2>1. live' \in [Artifacts -> Object] /\ version' \in [Artifacts -> Nat]
    BY <1>0, <1>3, StoreTypes DEF Edit
  <2>2. Rest'
    BY <1>1, <1>3, <2>1 DEF Edit, Inv, Rest
  <2> QED
    BY <1>3, <2>2, OutsideStep DEF Edit, Inv, PerRun
<1>4. CASE ExternalWrite(o)
  <2>1. [live[o] EXCEPT !.content = "drift"] \in Object
    BY <1>0 DEF Object, Foreign
  <2> QED
    BY <1>3, <1>4, <2>1 DEF ExternalWrite
<1>5. CASE ExternalTouch(o)
  BY <1>0, <1>3, <1>5 DEF ExternalTouch
<1>6. CASE ExternalCreate(o)
  <2>1. PICK c \in Foreign : Edit(o, Created(o, c))
    BY <1>6 DEF ExternalCreate
  <2> QED
    BY <1>0, <1>3, <2>1, CreatedTypes
<1>7. CASE ExternalDelete(o)
  <2>1. Rest'
    BY <1>1, <1>2, <1>7 DEF ExternalDelete, Inv, Rest
  <2>2. /\ touched' \in [Appliers -> SUBSET Artifacts]
        /\ \A a \in Appliers : touched'[a] \subseteq touched[a]
    BY <1>7 DEF ExternalDelete, Inv, PerRun
  <2> QED
    BY <1>7, <2>1, <2>2, OutsideStep DEF ExternalDelete
<1>8. CASE Reconcile(o)
  <2>1. [live[o] EXCEPT !.phase = "ready"] \in Object
    BY <1>0 DEF Object
  <2>2. live' \in [Artifacts -> Object] /\ version' \in [Artifacts -> Nat]
    BY <1>0, <1>8, <2>1, StoreTypes DEF Reconcile
  <2>3. Rest'
    BY <1>8, <2>2 DEF Reconcile, Inv, Rest
  <2> QED
    BY <1>8, <2>3, OutsideStep DEF Reconcile, Inv, PerRun
<1>9. CASE PodGone(o)
  <2>1. Rest'
    BY <1>2, <1>9 DEF PodGone, Inv, Rest
  <2> QED
    BY <1>9, <2>1, OutsideStep DEF PodGone, Inv, PerRun
<1> QED
  BY <1>4, <1>5, <1>6, <1>7, <1>8, <1>9 DEF Others
-----------------------------------------------------------------------------
(* The specification.                                                      *)

\* The initial states satisfy the invariant.
LEMMA InitInv == Init => Inv
<1> SUFFICES ASSUME Init PROVE Inv
  OBVIOUS
<1>1. prop \in Proposal
  BY DEF Init, Proposal
<1>2. live \in [Artifacts -> Object]
  <2>1. [uid |-> 1, rv |-> 1, content |-> "drift", phase |-> "ready"] \in Object
    BY DEF Object, Foreign
  <2> QED
    BY <2>1, Constants DEF Init
<1>3. version \in [Artifacts -> Nat]
  BY <1>2 DEF Init, Object
<1>4. late \in [Appliers -> SUBSET Artifacts] /\ touched \in [Appliers -> SUBSET Artifacts]
  BY DEF Init
<1>5. used \in [edits : 0 .. MaxEdits, faults : 0 .. MaxFaults]
  BY ApplyConstants DEF Init
<1>6. run \in [Appliers -> Run] /\ attempt \in [Appliers -> Status]
  BY Constants DEF Init
<1>7. ASSUME NEW a \in Appliers
      PROVE  Good(run[a], attempt[a], touched[a])
  <2>1. run[a] = Fresh /\ touched[a] = {}
    BY DEF Init
  <2>2. Fresh.pc = "idle"
    BY DEF Fresh
  <2> QED
    BY <2>1, <2>2, Constants DEF Good, Looping, Dispatched
<1> QED
  BY <1>1, <1>2, <1>3, <1>4, <1>5, <1>6, <1>7 DEF Inv, Rest, PerRun

\* Every step keeps the invariant.
LEMMA NextInv == Inv /\ [Next]_vars => Inv'
<1> SUFFICES ASSUME Inv, [Next]_vars PROVE Inv'
  OBVIOUS
<1>1. ASSUME NEW a \in Appliers, Step(a)
      PROVE  Inv'
  BY <1>1, GateStep, CustodyKeepsRecords, ReadinessStep, MutationStep DEF Step
<1>2. ASSUME NEW a \in Appliers, Die(a)
      PROVE  Inv'
  BY <1>2, DieStep
<1>3. ASSUME NEW o \in Artifacts, Others(o)
      PROVE  Inv'
  BY <1>3, OthersStep
<1>4. CASE Review
  BY <1>4, ReviewStep
<1>5. CASE UNCHANGED vars
  <2>1. Rest'
    BY <1>5 DEF vars, Inv, Rest
  <2> QED
    BY <1>5, <2>1, OutsideStep DEF vars, Inv, PerRun
<1> QED
  BY <1>1, <1>2, <1>3, <1>4, <1>5 DEF Next

\* Apply runs keep every variable within its type: among others a run never
\* looks for a current artifact when its plan is done, so the loop over the
\* artifacts always has one to record, mutate and settle.
THEOREM ApplyTypeCorrect == Spec => []TypeOK
<1>1. Inv => TypeOK
  BY DEF Inv, Rest, PerRun, TypeOK
<1> QED
  BY <1>1, InitInv, NextInv, PTL DEF Spec

\* Custody: whatever requests fail or lose their answer, whoever else writes
\* and whenever the process dies, a live object a run has changed is in the
\* durable record of its ApplyAttempt.
THEOREM ChangesAreRecorded == Spec => []WritesAreRecorded
<1>1. Inv => WritesAreRecorded
  BY DEF Inv, Good, WritesAreRecorded
<1> QED
  BY <1>1, InitInv, NextInv, PTL DEF Spec

-----------------------------------------------------------------------------
(* The second invariant: what a run remembers, what its attempt records and *)
(* what the history says of it agree with each other and with the cluster.  *)

\* Before the attempt has a status.
Starting == {"idle", "status1", "spec2", "status2", "create", "begin"}

\* Past the first gate and still going.
Gated == (Starting \ {"idle", "status1"}) \cup Looping \cup {"last"}

\* A mutation is recorded and its outcome not yet observed.
Open == Dispatched \ {"result"}

\* Objects exist under a version the API server has given out.
WorldOK(lv, vs) ==
    \A o \in Artifacts : lv[o] # Absent =>
        lv[o].uid # 0 /\ lv[o].rv # 0 /\ lv[o].rv =< vs[o]

\* Memory and record agree until the outcome of the open mutation is known;
\* apart from that mutation everything recorded has succeeded and is what
\* the plan no longer has to do.
Ledger(r, st) ==
    /\ r.pc \in Starting =>
          r.status = NoStatus /\ st = NoStatus /\ r.todo = r.plan /\ ~r.stale
    /\ r.pc \in Looping =>
          /\ ~r.stale /\ r.todo \subseteq r.plan
          /\ st.state = "IN_PROGRESS" /\ r.status.state = "IN_PROGRESS"
          /\ r.plan \ r.todo \subseteq Succeeded(st)
          /\ \A o \in Artifacts : o # Current(r) \/ r.pc # "result" =>
                r.status.mutations[o] = st.mutations[o]
    /\ r.pc \in Looping \ Dispatched => Recorded(st) \subseteq r.plan \ r.todo
    /\ r.pc \in Dispatched =>
          /\ Recorded(st) \subseteq (r.plan \ r.todo) \cup {Current(r)}
          /\ st.mutations[Current(r)].result = "OUTCOME_UNKNOWN"

\* What OutcomeTruthful says of one status.
Truthful(st, t) ==
    /\ st.state = "FAILED" => t = {}
    /\ st.state = "PARTIALLY_APPLIED" => Succeeded(st) # {} /\ t \subseteq Succeeded(st)
    /\ st.state = "APPLIED" => Recorded(st) = Succeeded(st) /\ t \subseteq Succeeded(st)
    /\ \A o \in t : st.mutations[o].result # "FAILED"

\* A change made by the open mutation shows: the object has a later version
\* than the recorded pre-state, or is gone although it was there.
Shows(r, t, lv, vs) ==
    LET o == Current(r)
        before == r.status.mutations[o].before
    IN  /\ r.pc = "intent" => r.held.rv =< vs[o]
        /\ r.pc \in Open => before.rv =< vs[o]
        /\ r.pc \in Open /\ o \in t =>
              /\ lv[o] = Absent => before.uid # 0
              /\ lv[o] # Absent => lv[o].rv > before.rv
              /\ lv[o].phase = "dying" => before.uid # 0
        /\ r.pc = "get" => r.held = Absent
        /\ r.pc \in {"refetch", "delete"} => r.held # Absent
        /\ r.pc \in {"write", "refetch", "delete"} /\ r.held # Absent => before.uid # 0

\* What AttributableIsOurs says of one status, for digest d.
Owned(st, d, lv, vs) ==
    \A o \in Artifacts :
        LET v == st.mutations[o].attributable
        IN  v # 0 => v =< vs[o] /\ (lv[o].rv = v => lv[o].content = d)

\* The version an answer named holds what the run wrote, as long as it lives.
Answered(r, lv, vs) ==
    r.pc = "landed" =>
        LET o == Current(r)
        IN  /\ r.answer.rv # 0 /\ r.answer.rv =< vs[o]
            /\ lv[o].rv = r.answer.rv => lv[o].content = Digest(r)

\* What run r changed since it lost its authority over proposal p.  A pinned
\* run that finds its version of the proposal still has it.
Window(r, l, p) ==
    /\ \A o, q \in l : o = q
    /\ r.pc \in Starting \cup {"before", "intent"} => l = {}
    /\ r.pc \in Dispatched => l \subseteq {Current(r)}
    /\ r.pc # "dead" /\ Authorises(p, r) => l = {}
    /\ r.pc # "idle" => r.read.rv =< p.rv
    /\ r.pc = "status1" /\ p.rv = r.read.rv => p = r.read
    /\ r.pc \in Gated /\ p.rv = r.read.rv =>
          p.approved = Digest(r) /\ DigestOf[p.spec] = Digest(r)
    /\ r.pc = "status4" /\ l # {} =>
          ~r.pinned /\ (DigestOf[r.seen.spec] = Digest(r) => p.approved # Digest(r))

\* All of it, for one run.
Telling(r, st, t, l, p, lv, vs) ==
    /\ Ledger(r, st)
    /\ Truthful(st, t)
    /\ r.pc # "dead" => Truthful(r.status, t)
    /\ Shows(r, t, lv, vs)
    /\ Owned(st, Digest(r), lv, vs)
    /\ r.pc # "dead" => Owned(r.status, Digest(r), lv, vs)
    /\ Answered(r, lv, vs)
    /\ Window(r, l, p)

Faithful ==
    /\ WorldOK(live, version)
    /\ \A a \in Appliers :
          Telling(run[a], attempt[a], touched[a], late[a], prop, live, version)
-----------------------------------------------------------------------------
(* What the continuations do to a telling run.                             *)

\* A run that ends: all that matters is that what it leaves is true.
LEMMA Ends ==
    ASSUME NEW r, NEW new, NEW st, NEW t, NEW l, NEW p, NEW lv, NEW vs,
           Window(r, l, p), r.pc \notin {"idle", "dead"},
           new.pc \in {"last", "done"}, new.pc = "last" => r.pc \in Gated,
           new.read = r.read, new.pinned = r.pinned,
           Truthful(st, t), Truthful(new.status, t),
           Owned(st, Digest(r), lv, vs), Owned(new.status, Digest(r), lv, vs)
    PROVE  Telling(new, st, t, l, p, lv, vs)
<1>1. Digest(new) = Digest(r)
  BY DEF Digest
<1>2. Ledger(new, st) /\ Shows(new, t, lv, vs) /\ Answered(new, lv, vs)
  BY DEF Ledger, Shows, Answered, Starting, Looping, Dispatched, Open
<1>3. Authorises(p, new) => Authorises(p, r)
  BY <1>1 DEF Authorises
<1>4. Window(new, l, p)
  BY <1>1, <1>3 DEF Window, Starting, Looping, Dispatched, Gated
<1> QED
  BY <1>1, <1>2, <1>4 DEF Telling

\* A run that goes on without touching its plan, its status or its gate.
LEMMA Moves ==
    ASSUME NEW r, NEW new, NEW st, NEW t, NEW l, NEW p, NEW lv, NEW vs,
           Telling(r, st, t, l, p, lv, vs), r.pc # "dead",
           new.status = r.status, new.todo = r.todo, new.plan = r.plan,
           new.stale = r.stale, new.read = r.read, new.pinned = r.pinned,
           new.pc \in {"status2", "create", "begin"} => r.pc \in Starting,
           new.pc \in {"podlock", "spec3", "status3", "spec4"} => r.pc \in Looping \ Dispatched,
           new.pc \in Open => r.pc \in Open,
           new.pc \in {"status2", "create", "begin", "podlock", "spec3", "status3", "spec4"}
                      \cup (Open \ {"get", "landed"}),
           r.pc \in Gated,
           new.pc \in {"refetch", "delete"} => new.held # Absent,
           /\ new.pc \in {"write", "refetch", "delete"}
           /\ new.held # Absent
           => new.status.mutations[Current(r)].before.uid # 0
    PROVE  Telling(new, st, t, l, p, lv, vs)
<1>1. Digest(new) = Digest(r) /\ Current(new) = Current(r)
  BY DEF Digest, Current
<1>2. Ledger(new, st)
  BY <1>1 DEF Telling, Ledger, Starting, Looping, Dispatched, Open
<1>3. Shows(new, t, lv, vs)
  BY <1>1 DEF Telling, Shows, Dispatched, Open
<1>4. Authorises(p, new) => Authorises(p, r)
  BY <1>1 DEF Authorises
<1>5. Window(new, l, p)
  <2>1. new.pc \notin {"idle", "status1", "before", "intent", "status4", "dead"}
    BY DEF Open, Dispatched
  <2>2. r.pc \notin {"idle", "dead"} /\ Window(r, l, p)
    BY DEF Telling, Gated, Starting, Looping, Dispatched
  <2>3. new.pc \in Starting => r.pc \in Starting
    BY <2>1 DEF Starting, Open, Dispatched
  <2>4. new.pc \in Dispatched => r.pc \in Dispatched
    BY DEF Open, Dispatched
  <2> QED
    BY <1>1, <1>4, <2>1, <2>2, <2>3, <2>4 DEF Window
<1>6. Answered(new, lv, vs)
  BY DEF Answered, Open, Dispatched
<1> QED
  BY <1>1, <1>2, <1>3, <1>5, <1>6 DEF Telling, Open, Dispatched

\* Outside a mutation everything recorded has succeeded, so a failure is
\* reported truthfully, and so is a success when the plan is done.
LEMMA FailureIsTruthful ==
    ASSUME NEW st \in Status, NEW t \in SUBSET Artifacts, t \subseteq Succeeded(st),
           Truthful(st, t)
    PROVE  /\ markFailure(st) \in Status
           /\ markFailure(st).mutations = st.mutations
           /\ Truthful(markFailure(st), t)
<1> PICK f : f = markFailure(st)
  OBVIOUS
<1>1. /\ f \in Status /\ f.mutations = st.mutations
      /\ f.state = IF Succeeded(st) # {} THEN "PARTIALLY_APPLIED" ELSE "FAILED"
  BY DEF markFailure, Status, Terminal
<1>2. Succeeded(f) = Succeeded(st)
  BY <1>1 DEF Succeeded
<1> QED
  BY <1>1, <1>2 DEF Truthful

\* The head of the loop, once the attempt holds what the run has in memory.
LEMMA GoesOn ==
    ASSUME NEW r, NEW x \in Run, NEW t \in SUBSET Artifacts, NEW l, NEW p, NEW lv, NEW vs,
           Window(r, l, p), r.pc \in Gated, x.read = r.read, x.pinned = r.pinned,
           ~x.stale, x.todo \subseteq x.plan, x.status.state = "IN_PROGRESS",
           x.plan \ x.todo \subseteq Succeeded(x.status),
           Recorded(x.status) \subseteq x.plan \ x.todo,
           t \subseteq Recorded(x.status), Truthful(x.status, t),
           Owned(x.status, Digest(r), lv, vs)
    PROVE  Telling(Continue(x), x.status, t, l, p, lv, vs)
<1> PICK new : new = Continue(x)
  OBVIOUS
<1>0. Digest(x) = Digest(r) /\ x.status \in Status /\ r.pc \notin {"idle", "dead"}
  BY DEF Digest, Run, Gated, Starting, Looping, Dispatched
<1>1. CASE x.todo = {}
  <2>1. /\ new.pc = "last" /\ new.read = r.read /\ new.pinned = r.pinned
        /\ new.status.state = "APPLIED" /\ new.status.mutations = x.status.mutations
        /\ new.status \in Status
    BY <1>0, <1>1 DEF Continue, Run, Status, Terminal
  <2>2. Recorded(new.status) = Recorded(x.status) /\ Succeeded(new.status) = Succeeded(x.status)
    BY <2>1 DEF Recorded, Succeeded
  <2>3. Recorded(x.status) = Succeeded(x.status)
    <3>1. Succeeded(x.status) \subseteq Recorded(x.status)
      BY DEF Succeeded, Recorded
    <3> QED
      BY <3>1
  <2>4. Truthful(new.status, t)
    BY <2>1, <2>2, <2>3 DEF Truthful
  <2>5. Owned(new.status, Digest(r), lv, vs)
    BY <2>1 DEF Owned
  <2> QED
    BY <1>0, <2>1, <2>4, <2>5, Ends
<1>2. CASE x.todo # {}
  <2>1. \E pc \in {"wait", "spec4"} : new = [x EXCEPT !.pc = pc]
    BY <1>2 DEF Continue
  <2>2. PICK pc \in {"wait", "spec4"} : new = [x EXCEPT !.pc = pc]
    BY <2>1
  <2>3. /\ new.pc = pc /\ new.read = r.read /\ new.pinned = r.pinned /\ new.status = x.status
        /\ new.todo = x.todo /\ new.plan = x.plan /\ new.stale = x.stale
    BY <2>2 DEF Run
  <2>4. Digest(new) = Digest(r)
    BY <2>3 DEF Digest
  <2>5. Ledger(new, x.status)
    BY <2>2, <2>3 DEF Ledger, Starting, Looping, Dispatched
  <2>6. Shows(new, t, lv, vs) /\ Answered(new, lv, vs)
    BY <2>2, <2>3 DEF Shows, Answered, Open, Dispatched
  <2>7. Authorises(p, new) => Authorises(p, r)
    BY <2>3, <2>4 DEF Authorises
  <2>8. Window(new, l, p)
    BY <1>0, <2>2, <2>3, <2>4, <2>7 DEF Window, Starting, Dispatched, Gated
  <2> QED
    BY <2>3, <2>4, <2>5, <2>6, <2>8 DEF Telling
<1> QED
  BY <1>1, <1>2

\* Outside a mutation, everything in memory has succeeded.
LEMMA AllSucceeded ==
    ASSUME NEW r, NEW st, NEW t, Good(r, st, t), Ledger(r, st), r.pc \in Looping \ Dispatched
    PROVE  /\ Recorded(r.status) \subseteq r.plan \ r.todo
           /\ r.plan \ r.todo \subseteq Succeeded(r.status)
           /\ t \subseteq Succeeded(r.status)
<1>1. \A o \in Artifacts : r.status.mutations[o] = st.mutations[o]
  BY DEF Ledger, Dispatched
<1>2. Recorded(r.status) = Recorded(st) /\ Succeeded(r.status) = Succeeded(st)
  BY <1>1 DEF Recorded, Succeeded
<1>3. t \subseteq Recorded(r.status)
  BY DEF Good, Looping, Dispatched
<1> QED
  BY <1>2, <1>3 DEF Ledger

\* A failure outside a mutation is reported truthfully, whatever comes of
\* the status write before it.
LEMMA FailsTelling ==
    ASSUME NEW r, NEW st, NEW t \in SUBSET Artifacts, NEW l, NEW p, NEW lv, NEW vs,
           Good(r, st, t), Telling(r, st, t, l, p, lv, vs), r.pc \in Looping \ Dispatched,
           NEW x \in Run, x.status = r.status, x.read = r.read, x.pinned = r.pinned,
           NEW st2, Truthful(st2, t), Owned(st2, Digest(r), lv, vs)
    PROVE  /\ Telling(Fail(x), st2, t, l, p, lv, vs)
           /\ Telling([Fail(x) EXCEPT !.stale = TRUE], st2, t, l, p, lv, vs)
<1> PICK new : new = Fail(x)
  OBVIOUS
<1> PICK newer : newer = [new EXCEPT !.stale = TRUE]
  OBVIOUS
<1>1. r.pc \in Gated /\ r.pc \notin {"idle", "dead"} /\ r.status \in Status
  BY DEF Gated, Looping, Dispatched, Good, Run
<1>2. t \subseteq Succeeded(r.status)
  BY AllSucceeded DEF Telling
<1>3. Truthful(r.status, t) /\ Owned(r.status, Digest(r), lv, vs) /\ Window(r, l, p)
  BY <1>1 DEF Telling
<1>4. /\ markFailure(r.status) \in Status /\ markFailure(r.status).mutations = r.status.mutations
      /\ Truthful(markFailure(r.status), t)
  BY <1>1, <1>2, <1>3, FailureIsTruthful
<1>5. Owned(markFailure(r.status), Digest(r), lv, vs)
  BY <1>3, <1>4 DEF Owned
<1>6. /\ new.pc = "last" /\ new.read = r.read /\ new.pinned = r.pinned
      /\ new.status = markFailure(r.status) /\ new \in Run
  BY <1>4 DEF Fail, Run, PCs
<1>7. /\ newer.pc = "last" /\ newer.read = r.read /\ newer.pinned = r.pinned
      /\ newer.status = markFailure(r.status)
  BY <1>6 DEF Run
<1> QED
  BY <1>1, <1>3, <1>4, <1>5, <1>6, <1>7, Ends

\* Ending as unknown claims nothing but what is settled.
LEMMA UnknownTelling ==
    ASSUME NEW r \in Run, NEW t, NEW l, NEW p, NEW lv, NEW vs,
           r.pc \in Looping, Window(r, l, p),
           Truthful(r.status, t), Owned(r.status, Digest(r), lv, vs),
           NEW x \in Run, x.status = r.status, x.read = r.read, x.pinned = r.pinned,
           NEW st2, Truthful(st2, t), Owned(st2, Digest(r), lv, vs)
    PROVE  /\ Telling(Unknown(x), st2, t, l, p, lv, vs)
           /\ Telling([Unknown(x) EXCEPT !.stale = TRUE], st2, t, l, p, lv, vs)
<1> PICK new : new = Unknown(x)
  OBVIOUS
<1> PICK newer : newer = [new EXCEPT !.stale = TRUE]
  OBVIOUS
<1>1. r.pc \in Gated /\ r.pc \notin {"idle", "dead"}
  BY DEF Gated, Looping, Dispatched
<1>2. /\ new.pc = "last" /\ new.read = r.read /\ new.pinned = r.pinned /\ new \in Run
      /\ new.status.state = "OUTCOME_UNKNOWN" /\ new.status.mutations = r.status.mutations
  BY DEF Unknown, Run, PCs, Status, Terminal
<1>3. /\ newer.pc = "last" /\ newer.read = r.read /\ newer.pinned = r.pinned
      /\ newer.status = new.status
  BY <1>2 DEF Run
<1>4. Truthful(new.status, t)
  BY <1>2 DEF Truthful
<1>5. Owned(new.status, Digest(r), lv, vs)
  BY <1>2 DEF Owned
<1> QED
  BY <1>1, <1>2, <1>3, <1>4, <1>5, Ends

\* Returning leaves everything as it is.
LEMMA StopTelling ==
    ASSUME NEW r, NEW st, NEW t, NEW l, NEW p, NEW lv, NEW vs,
           Window(r, l, p), r.pc \notin {"idle", "dead"},
           NEW x \in Run, x.read = r.read, x.pinned = r.pinned,
           Truthful(st, t), Truthful(x.status, t),
           Owned(st, Digest(r), lv, vs), Owned(x.status, Digest(r), lv, vs)
    PROVE  /\ Telling(Stop(x), st, t, l, p, lv, vs)
           /\ Telling([Stop(x) EXCEPT !.stale = TRUE], st, t, l, p, lv, vs)
<1> PICK new : new = Stop(x)
  OBVIOUS
<1> PICK newer : newer = [new EXCEPT !.stale = TRUE]
  OBVIOUS
<1>1. /\ new.pc = "done" /\ new.read = r.read /\ new.pinned = r.pinned
      /\ new.status = x.status /\ new \in Run
  BY DEF Stop, Run, PCs
<1>2. /\ newer.pc = "done" /\ newer.read = r.read /\ newer.pinned = r.pinned
      /\ newer.status = x.status
  BY <1>1 DEF Run
<1> QED
  BY <1>1, <1>2, Ends
-----------------------------------------------------------------------------
(* Shapes of steps.                                                        *)

\* A step that changes one run and its attempt.
LEMMA OneTellingStep ==
    ASSUME Inv, Faithful, NEW a \in Appliers, NEW r, NEW st,
           Telling(r, st, touched[a], late[a], prop, live, version),
           run' = [run EXCEPT ![a] = r], attempt' = [attempt EXCEPT ![a] = st],
           UNCHANGED <<Cluster, History>>
    PROVE  Faithful'
<1>1. UNCHANGED <<prop, live, version, touched, late>>
  BY DEF Cluster, History
<1>2. ASSUME NEW b \in Appliers
      PROVE  Telling(run'[b], attempt'[b], touched'[b], late'[b], prop', live', version')
  <2>1. CASE b = a
    <3>1. run'[b] = r /\ attempt'[b] = st
      BY <2>1 DEF Inv, PerRun
    <3> QED
      BY <1>1, <2>1, <3>1
  <2>2. CASE b # a
    <3>1. run'[b] = run[b] /\ attempt'[b] = attempt[b]
      BY <2>2 DEF Inv, PerRun
    <3> QED
      BY <1>1, <3>1 DEF Faithful
  <2> QED
    BY <2>1, <2>2
<1>3. WorldOK(live', version')
  BY <1>1 DEF Faithful
<1> QED
  BY <1>2, <1>3 DEF Faithful

\* A step that changes nothing but one run.
LEMMA LocalTelling ==
    ASSUME Inv, Faithful, NEW a \in Appliers, NEW r,
           Telling(r, attempt[a], touched[a], late[a], prop, live, version),
           Become(a, r), UNCHANGED <<Cluster, attempt, History>>
    PROVE  Faithful'
<1>1. attempt' = [attempt EXCEPT ![a] = attempt[a]] /\ UNCHANGED <<Cluster, History>>
  BY DEF Inv, PerRun, Cluster, History
<1> QED
  BY <1>1, OneTellingStep DEF Become

\* A custody write, whichever way the request goes.
LEMMA CustodyTelling ==
    ASSUME Inv, Faithful, NEW a \in Appliers, NEW st, NEW ok, NEW failed,
           SaveStatus(a, st, ok, failed),
           ~run[a].stale => Telling(ok, st, touched[a], late[a], prop, live, version),
           ~run[a].stale => Telling([failed EXCEPT !.stale = TRUE], st,
                                    touched[a], late[a], prop, live, version),
           Telling(failed, attempt[a], touched[a], late[a], prop, live, version)
    PROVE  Faithful'
<1>0. UNCHANGED <<Cluster, History>>
  BY DEF SaveStatus
<1>1. CASE ~run[a].stale /\ attempt' = [attempt EXCEPT ![a] = st] /\ Become(a, ok)
  BY <1>0, <1>1, OneTellingStep DEF Become
<1>2. CASE /\ ~run[a].stale /\ attempt' = [attempt EXCEPT ![a] = st]
           /\ Become(a, [failed EXCEPT !.stale = TRUE])
  BY <1>0, <1>2, OneTellingStep DEF Become
<1>3. CASE UNCHANGED attempt /\ Become(a, failed)
  <2>1. attempt' = [attempt EXCEPT ![a] = attempt[a]]
    BY <1>3 DEF Inv, PerRun
  <2> QED
    BY <1>0, <1>3, <2>1, OneTellingStep DEF Become
<1> QED
  BY <1>1, <1>2, <1>3 DEF SaveStatus

\* The facts about run a every step starts from.
LEMMA RunTells ==
    ASSUME Inv, Faithful, NEW a \in Appliers
    PROVE  /\ Telling(run[a], attempt[a], touched[a], late[a], prop, live, version)
           /\ Window(run[a], late[a], prop) /\ Ledger(run[a], attempt[a])
           /\ Truthful(attempt[a], touched[a])
           /\ Owned(attempt[a], Digest(run[a]), live, version)
           /\ run[a].pc # "dead" =>
                 /\ Truthful(run[a].status, touched[a])
                 /\ Owned(run[a].status, Digest(run[a]), live, version)
           /\ Shows(run[a], touched[a], live, version) /\ Answered(run[a], live, version)
<1>1. Telling(run[a], attempt[a], touched[a], late[a], prop, live, version)
  BY DEF Faithful
<1> QED
  BY <1>1 DEF Telling

-----------------------------------------------------------------------------
(* The gates keep the second invariant.                                    *)

\* A run starts with the proposal it has just read and nothing to answer for.
LEMMA StartTelling ==
    ASSUME Inv, Faithful, NEW a \in Appliers, StartRun(a)
    PROVE  Faithful'
<1> PICK r \in Run : r = run[a]
  BY RunFacts
<1>1. PICK pinned \in BOOLEAN :
         Become(a, [r EXCEPT !.pc = "status1", !.pinned = pinned, !.read = prop])
  BY DEF StartRun
<1> PICK new : new = [r EXCEPT !.pc = "status1", !.pinned = pinned, !.read = prop]
  OBVIOUS
<1>2. /\ new.pc = "status1" /\ new.read = prop /\ new.status = r.status
      /\ new.todo = r.todo /\ new.plan = r.plan /\ new.stale = r.stale
  BY DEF Run
<1>3. r.pc = "idle" /\ prop \in Proposal
  BY RunFacts DEF StartRun, At
<1>4. /\ r.status = NoStatus /\ attempt[a] = NoStatus /\ late[a] = {}
      /\ r.todo = r.plan /\ ~r.stale
      /\ Truthful(NoStatus, touched[a])
  BY <1>3, RunTells DEF Ledger, Window, Starting
<1>5. Owned(NoStatus, Digest(new), live, version)
  BY DEF Owned, NoStatus, NoRecord
<1>6. Ledger(new, NoStatus)
  BY <1>2, <1>4 DEF Ledger, Starting, Looping, Dispatched
<1>7. Shows(new, touched[a], live, version) /\ Answered(new, live, version)
  BY <1>2 DEF Shows, Answered, Open, Dispatched
<1>8. Window(new, {}, prop)
  BY <1>2, <1>3 DEF Window, Gated, Starting, Looping, Dispatched, Proposal
<1>9. Telling(new, NoStatus, touched[a], {}, prop, live, version)
  BY <1>2, <1>4, <1>5, <1>6, <1>7, <1>8 DEF Telling
<1> QED
  BY <1>1, <1>4, <1>9, LocalTelling DEF StartRun

\* The first gate: a run pinned to the version it read was approved in it.
LEMMA PreflightTelling ==
    ASSUME Inv, Faithful, NEW a \in Appliers, Preflight(a)
    PROVE  Faithful'
<1> PICK r \in Run : r = run[a]
  BY RunFacts
<1>1. PICK plan \in SUBSET Artifacts :
         ReadStatus(a, "status1",
             /\ ValidateApprovedCandidate(r.read)
             /\ plan # {}
             /\ validateCompositionCompatibility(plan),
             [r EXCEPT !.pc = "spec2", !.plan = plan, !.todo = plan], Stop(r))
  BY DEF Preflight
<1> PICK new : new = [r EXCEPT !.pc = "spec2", !.plan = plan, !.todo = plan]
  OBVIOUS
<1>2. /\ new.pc = "spec2" /\ new.read = r.read /\ new.status = r.status
      /\ new.todo = plan /\ new.plan = plan /\ new.stale = r.stale /\ new.pinned = r.pinned
  BY DEF Run
<1>3. r.pc = "status1"
  BY <1>1 DEF ReadStatus, At
<1>4. /\ r.status = NoStatus /\ attempt[a] = NoStatus /\ late[a] = {} /\ ~r.stale
      /\ Truthful(attempt[a], touched[a]) /\ Truthful(r.status, touched[a])
      /\ Owned(attempt[a], Digest(r), live, version) /\ Owned(r.status, Digest(r), live, version)
      /\ Window(r, late[a], prop)
  BY <1>3, RunTells DEF Ledger, Window, Starting
<1>5. Telling(Stop(r), attempt[a], touched[a], late[a], prop, live, version)
  BY <1>3, <1>4, StopTelling
<1>6. ASSUME ValidateApprovedCandidate(r.read)
      PROVE  Telling(new, attempt[a], touched[a], late[a], prop, live, version)
  <2>1. Digest(new) = Digest(r)
    BY <1>2 DEF Digest
  <2>2. prop.rv = r.read.rv => prop.approved = Digest(r) /\ DigestOf[prop.spec] = Digest(r)
    BY <1>3, <1>4, <1>6 DEF Window, ValidateApprovedCandidate, Digest
  <2>3. Window(new, late[a], prop)
    BY <1>2, <1>3, <1>4, <2>1, <2>2 DEF Window, Starting, Dispatched
  <2>4. Ledger(new, attempt[a])
    BY <1>2, <1>4 DEF Ledger, Starting, Looping, Dispatched
  <2>5. Shows(new, touched[a], live, version) /\ Answered(new, live, version)
    BY <1>2 DEF Shows, Answered, Open, Dispatched
  <2> QED
    BY <1>2, <1>4, <2>1, <2>3, <2>4, <2>5 DEF Telling
<1>7. /\ \/ ValidateApprovedCandidate(r.read) /\ Become(a, new)
         \/ Become(a, Stop(r))
      /\ UNCHANGED <<Cluster, attempt, History>>
  BY <1>1 DEF ReadStatus
<1> QED
  BY <1>5, <1>6, <1>7, LocalTelling

\* The gate before a mutation.  Spec and status are read one after the
\* other; a run that has already made a late change does not get past it.
LEMMA LastGateTelling ==
    ASSUME Inv, Faithful, NEW a \in Appliers,
           ReadSpecBeforeMutation(a) \/ revalidateAttemptBeforeMutation(a)
    PROVE  Faithful'
<1> PICK r \in Run : r = run[a]
  BY RunFacts
<1>0. /\ Telling(r, attempt[a], touched[a], late[a], prop, live, version)
      /\ Window(r, late[a], prop) /\ Ledger(r, attempt[a])
      /\ Good(r, attempt[a], touched[a]) /\ touched[a] \in SUBSET Artifacts
      /\ Truthful(attempt[a], touched[a]) /\ Owned(attempt[a], Digest(r), live, version)
      /\ prop \in Proposal
  BY RunTells, RunFacts
<1>1. r.pc \in {"spec4", "status4"}
  BY DEF ReadSpecBeforeMutation, revalidateAttemptBeforeMutation, ReadSpec, ReadStatus, At
<1>2. r.pc \in Looping \ Dispatched /\ r.pc \in Gated
  BY <1>1 DEF Gated, Looping, Dispatched
<1>3. CASE ReadSpecBeforeMutation(a)
  <2> PICK new : new = Seen(r, "status4")
    OBVIOUS
  <2>1. /\ new.pc = "status4" /\ new.read = r.read /\ new.status = r.status /\ new.seen = prop
        /\ new.todo = r.todo /\ new.plan = r.plan /\ new.stale = r.stale /\ new.pinned = r.pinned
    BY DEF Seen, Run
  <2>2. Digest(new) = Digest(r) /\ Current(new) = Current(r)
    BY <2>1 DEF Digest, Current
  <2>3. ASSUME ~(r.pinned /\ prop.rv # r.read.rv)
        PROVE  Telling(new, attempt[a], touched[a], late[a], prop, live, version)
    <3>1. Ledger(new, attempt[a])
      BY <1>0, <1>2, <2>1, <2>2 DEF Ledger, Starting, Looping, Dispatched
    <3>2. Shows(new, touched[a], live, version) /\ Answered(new, live, version)
      BY <2>1 DEF Shows, Answered, Open, Dispatched
    <3>3. Authorises(prop, new) => Authorises(prop, r)
      BY <2>1, <2>2 DEF Authorises
    <3>4. late[a] # {} => ~Authorises(prop, r)
      BY <1>0, <1>1 DEF Window
    <3>5. late[a] # {} => ~r.pinned
      BY <1>0, <1>2, <2>3, <3>4 DEF Window, Authorises
    <3>6. late[a] # {} => (DigestOf[prop.spec] = Digest(r) => prop.approved # Digest(r))
      BY <3>4, <3>5 DEF Authorises
    <3>7. Window(new, late[a], prop)
      BY <1>0, <1>1, <1>2, <2>1, <2>2, <3>3, <3>5, <3>6 DEF Window, Starting, Dispatched
    <3> QED
      BY <1>0, <1>1, <2>1, <2>2, <3>1, <3>2, <3>7 DEF Telling
  <2>4. Telling(Fail(r), attempt[a], touched[a], late[a], prop, live, version)
    BY <1>0, <1>2, FailsTelling
  <2>5. /\ \/ ~(r.pinned /\ prop.rv # r.read.rv) /\ Become(a, new)
           \/ Become(a, Fail(r))
        /\ UNCHANGED <<Cluster, attempt, History>>
    BY <1>3 DEF ReadSpecBeforeMutation, ReadSpec
  <2> QED
    BY <2>3, <2>4, <2>5, LocalTelling
<1>4. CASE revalidateAttemptBeforeMutation(a)
  <2> PICK new : new = Unseen(r, "before")
    OBVIOUS
  <2> PICK x : x = Unseen(r, "last")
    OBVIOUS
  <2>0. r.pc = "status4"
    BY <1>4 DEF revalidateAttemptBeforeMutation, ReadStatus, At
  <2>1. /\ new.pc = "before" /\ new.read = r.read /\ new.status = r.status
        /\ new.todo = r.todo /\ new.plan = r.plan /\ new.stale = r.stale /\ new.pinned = r.pinned
    BY DEF Unseen, Run
  <2>2. x \in Run /\ x.status = r.status /\ x.read = r.read /\ x.pinned = r.pinned
    BY Constants DEF Unseen, Run, PCs
  <2>3. Digest(new) = Digest(r) /\ Current(new) = Current(r)
    BY <2>1 DEF Digest, Current
  <2>4. ASSUME ValidateApprovedCandidate(r.seen), SameCandidate(r)
        PROVE  Telling(new, attempt[a], touched[a], late[a], prop, live, version)
    <3>1. Ledger(new, attempt[a])
      BY <1>0, <1>2, <2>1, <2>3 DEF Ledger, Starting, Looping, Dispatched
    <3>2. Shows(new, touched[a], live, version) /\ Answered(new, live, version)
      BY <2>1 DEF Shows, Answered, Open, Dispatched
    <3>3. late[a] = {}
      BY <1>0, <2>0, <2>4 DEF Window, ValidateApprovedCandidate, SameCandidate
    <3>4. Window(new, late[a], prop)
      BY <1>0, <1>1, <1>2, <2>1, <2>3, <3>3 DEF Window, Starting, Dispatched
    <3> QED
      BY <1>0, <1>1, <2>1, <2>3, <3>1, <3>2, <3>4 DEF Telling
  <2>5. Telling(Fail(x), attempt[a], touched[a], late[a], prop, live, version)
    BY <1>0, <1>2, <2>2, FailsTelling
  <2>6. /\ \/ ValidateApprovedCandidate(r.seen) /\ SameCandidate(r) /\ Become(a, new)
           \/ Become(a, Fail(x))
        /\ UNCHANGED <<Cluster, attempt, History>>
    BY <1>4 DEF revalidateAttemptBeforeMutation, ReadStatus
  <2> QED
    BY <2>4, <2>5, <2>6, LocalTelling
<1> QED
  BY <1>3, <1>4

\* Every step of a gate keeps the second invariant.
LEMMA GateTelling ==
    ASSUME Inv, Faithful, NEW a \in Appliers, Gate(a)
    PROVE  Faithful'
<1> PICK r \in Run : r = run[a]
  BY RunFacts
<1>0. /\ Telling(r, attempt[a], touched[a], late[a], prop, live, version)
      /\ Window(r, late[a], prop)
      /\ Good(r, attempt[a], touched[a]) /\ touched[a] \in SUBSET Artifacts
      /\ Truthful(attempt[a], touched[a]) /\ Owned(attempt[a], Digest(r), live, version)
      /\ r.pc # "dead" =>
            Truthful(r.status, touched[a]) /\ Owned(r.status, Digest(r), live, version)
  BY RunTells, RunFacts
<1>1. CASE ReReadSpec(a) \/ Revalidate(a)
  <2>1. r.pc \in {"spec2", "status2"}
    BY <1>1 DEF ReReadSpec, Revalidate, ReadSpec, ReadStatus, At
  <2>2. Telling(Stop(r), attempt[a], touched[a], late[a], prop, live, version)
    BY <1>0, <2>1, StopTelling
  <2>3. ASSUME NEW new, new = Seen(r, "status2") \/ new = Unseen(r, "create")
        PROVE  Telling(new, attempt[a], touched[a], late[a], prop, live, version)
    <3>1. /\ new.pc \in {"status2", "create"} /\ new.read = r.read /\ new.status = r.status
          /\ new.todo = r.todo /\ new.plan = r.plan /\ new.stale = r.stale /\ new.pinned = r.pinned
      BY <2>3 DEF Seen, Unseen, Run
    <3>2. new.pc \notin Open /\ r.pc \in Starting /\ r.pc \in Gated
      BY <2>1, <3>1 DEF Open, Dispatched, Starting, Gated
    <3> QED
      BY <1>0, <2>1, <3>1, <3>2, Moves
  <2>4. /\ \/ Become(a, Seen(r, "status2")) \/ Become(a, Unseen(r, "create"))
           \/ Become(a, Stop(r))
        /\ UNCHANGED <<Cluster, attempt, History>>
    BY <1>1 DEF ReReadSpec, Revalidate, ReadSpec, ReadStatus
  <2> QED
    BY <2>2, <2>3, <2>4, LocalTelling
<1>2. CASE ReadSpecBeforeBinding(a) \/ revalidateBeforeBinding(a)
  <2>1. r.pc \in {"spec3", "status3"}
    BY <1>2 DEF ReadSpecBeforeBinding, revalidateBeforeBinding, ReadSpec, ReadStatus, At
  <2>2. r.pc \in Looping \ Dispatched /\ r.pc \in Gated
    BY <2>1 DEF Gated, Looping, Dispatched
  <2>3. ASSUME NEW x, x = r \/ x = Unseen(r, "last")
        PROVE  Telling(Fail(x), attempt[a], touched[a], late[a], prop, live, version)
    <3>1. x \in Run /\ x.status = r.status /\ x.read = r.read /\ x.pinned = r.pinned
      <4>1. CASE x = r
        BY <4>1
      <4>2. CASE x = Unseen(r, "last")
        BY <4>2, Constants DEF Unseen, Run, PCs
      <4> QED
        BY <2>3, <4>1, <4>2
    <3> QED
      BY <1>0, <2>2, <3>1, FailsTelling
  <2>4. ASSUME NEW new, new = Seen(r, "status3") \/ new = Unseen(r, "spec4")
        PROVE  Telling(new, attempt[a], touched[a], late[a], prop, live, version)
    <3>1. /\ new.pc \in {"status3", "spec4"} /\ new.read = r.read /\ new.status = r.status
          /\ new.todo = r.todo /\ new.plan = r.plan /\ new.stale = r.stale /\ new.pinned = r.pinned
      BY <2>4 DEF Seen, Unseen, Run
    <3>2. new.pc \notin Open
      BY <3>1 DEF Open, Dispatched
    <3> QED
      BY <1>0, <2>1, <2>2, <3>1, <3>2, Moves
  <2>5. /\ \/ Become(a, Seen(r, "status3")) \/ Become(a, Unseen(r, "spec4"))
           \/ Become(a, Fail(r)) \/ Become(a, Fail(Unseen(r, "last")))
        /\ UNCHANGED <<Cluster, attempt, History>>
    BY <1>2 DEF ReadSpecBeforeBinding, revalidateBeforeBinding, ReadSpec, ReadStatus
  <2> QED
    BY <2>3, <2>4, <2>5, LocalTelling
<1> QED
  BY <1>1, <1>2, StartTelling, PreflightTelling, LastGateTelling DEF Gate

-----------------------------------------------------------------------------
(* Custody writes and readiness checks keep the second invariant.          *)

\* The attempt is created, then begun: memory and record start to agree.
LEMMA BeginTelling ==
    ASSUME Inv, Faithful, NEW a \in Appliers, CreateAttempt(a) \/ BeginAttempt(a)
    PROVE  Faithful'
<1> PICK r \in Run : r = run[a]
  BY RunFacts
<1>0. /\ Telling(r, attempt[a], touched[a], late[a], prop, live, version)
      /\ Window(r, late[a], prop) /\ touched[a] \in SUBSET Artifacts
      /\ Truthful(attempt[a], touched[a]) /\ Owned(attempt[a], Digest(r), live, version)
      /\ Good(r, attempt[a], touched[a])
      /\ r.status \in Status
  BY RunTells, RunFacts
<1>1. r.pc \in {"create", "begin"}
  BY DEF CreateAttempt, BeginAttempt, At
<1>2. /\ r.pc \in Starting /\ r.pc \in Gated /\ r.pc \notin {"idle", "dead"}
      /\ Truthful(r.status, touched[a]) /\ Owned(r.status, Digest(r), live, version)
  BY <1>1, RunTells DEF Starting, Gated
<1>3. /\ r.status = NoStatus /\ attempt[a] = NoStatus /\ r.todo = r.plan /\ ~r.stale
  BY <1>0, <1>2 DEF Telling, Ledger
<1>4. CASE CreateAttempt(a)
  <2> PICK new : new = Goto(r, "begin")
    OBVIOUS
  <2>1. /\ new.pc = "begin" /\ new.read = r.read /\ new.status = r.status
        /\ new.todo = r.todo /\ new.plan = r.plan /\ new.stale = r.stale /\ new.pinned = r.pinned
    BY DEF Goto, Run
  <2>2. Telling(new, attempt[a], touched[a], late[a], prop, live, version)
    BY <1>0, <1>1, <1>2, <2>1, Moves DEF Open, Dispatched
  <2>3. Telling(Stop(r), attempt[a], touched[a], late[a], prop, live, version)
    BY <1>0, <1>2, StopTelling
  <2> QED
    BY <1>4, <2>2, <2>3, LocalTelling DEF CreateAttempt
<1>5. CASE BeginAttempt(a)
  <2> PICK x : x = [r EXCEPT !.status.state = "IN_PROGRESS"]
    OBVIOUS
  <2>1. /\ x \in Run /\ x.read = r.read /\ x.pinned = r.pinned /\ x.todo = r.todo
        /\ x.plan = r.plan /\ x.stale = r.stale
        /\ x.status \in Status /\ x.status.state = "IN_PROGRESS"
        /\ x.status.mutations = r.status.mutations
    BY <1>0 DEF Run, Status
  <2>2. Recorded(x.status) = {} /\ touched[a] \subseteq Recorded(x.status)
    <3>1. Recorded(NoStatus) = {}
      BY DEF Recorded, NoStatus, NoRecord
    <3>2. Recorded(x.status) = Recorded(r.status)
      BY <2>1 DEF Recorded
    <3> QED
      BY <1>0, <1>2, <1>3, <3>1, <3>2 DEF Good
  <2>3. Truthful(x.status, touched[a])
    BY <1>2, <2>1 DEF Truthful
  <2>4. Owned(x.status, Digest(r), live, version)
    BY <1>2, <2>1 DEF Owned
  <2>5. Telling(Continue(x), x.status, touched[a], late[a], prop, live, version)
    BY <1>0, <1>2, <1>3, <2>1, <2>2, <2>3, <2>4, GoesOn
  <2>6. /\ Telling(Stop(x), attempt[a], touched[a], late[a], prop, live, version)
        /\ Telling([Stop(x) EXCEPT !.stale = TRUE], x.status,
                   touched[a], late[a], prop, live, version)
    BY <1>0, <1>2, <2>1, <2>3, <2>4, StopTelling
  <2>7. SaveStatus(a, x.status, Continue(x), Stop(x))
    BY <1>5 DEF BeginAttempt
  <2> QED
    BY <2>5, <2>6, <2>7, CustodyTelling
<1> QED
  BY <1>4, <1>5

\* A new record opens a mutation that has not changed anything yet.
LEMMA IntentTelling ==
    ASSUME Inv, Faithful, NEW a \in Appliers, PersistIntent(a)
    PROVE  Faithful'
<1> PICK r \in Run : r = run[a]
  BY RunFacts
<1> PICK o : o = Current(r)
  OBVIOUS
<1> PICK st : st = [r.status EXCEPT !.mutations[o] = mutationRecordFor(r.held)]
  OBVIOUS
<1> PICK clear : clear = [r EXCEPT !.held = Absent]
  OBVIOUS
<1> PICK ok : ok = [clear EXCEPT !.pc = "get", !.status = st]
  OBVIOUS
<1>1. r.pc = "intent"
  BY DEF PersistIntent, At
<1>2. r.pc \in Looping \ Dispatched /\ r.pc \in Gated
  BY <1>1 DEF Looping, Dispatched, Gated
<1>0. /\ Telling(r, attempt[a], touched[a], late[a], prop, live, version)
      /\ Window(r, late[a], prop) /\ Ledger(r, attempt[a]) /\ Good(r, attempt[a], touched[a])
      /\ Shows(r, touched[a], live, version)
      /\ Truthful(attempt[a], touched[a]) /\ Owned(attempt[a], Digest(r), live, version)
      /\ Truthful(r.status, touched[a]) /\ Owned(r.status, Digest(r), live, version)
      /\ r.status \in Status /\ touched[a] \in SUBSET Artifacts
      /\ o \in Artifacts /\ o \in r.todo /\ r.held \in Object
  BY <1>1, <1>2, RunTells, RunFacts DEF Run
<1>3. /\ clear \in Run /\ clear.status = r.status /\ clear.read = r.read /\ clear.pinned = r.pinned
      /\ clear.todo = r.todo /\ clear.plan = r.plan /\ clear.stale = r.stale /\ clear.held = Absent
  BY Constants DEF Run
<1>4. /\ ok.pc = "get" /\ ok.status = st /\ ok.read = r.read /\ ok.pinned = r.pinned
      /\ ok.todo = r.todo /\ ok.plan = r.plan /\ ok.stale = r.stale /\ ok.held = Absent
  BY <1>3 DEF Run
<1>5. /\ st.state = r.status.state
      /\ st.mutations = [r.status.mutations EXCEPT ![o] = mutationRecordFor(r.held)]
      /\ r.status.mutations \in [Artifacts -> Record]
  BY <1>0 DEF Status
<1>6. /\ \A q \in Artifacts : q # o => st.mutations[q] = r.status.mutations[q]
      /\ st.mutations[o] = mutationRecordFor(r.held)
  BY <1>0, <1>5
<1>7. /\ mutationRecordFor(r.held).result = "OUTCOME_UNKNOWN"
      /\ mutationRecordFor(r.held).attributable = 0
      /\ mutationRecordFor(r.held).before.rv = r.held.rv
  BY DEF mutationRecordFor, mutationSnapshot
<1>8. /\ Recorded(r.status) \subseteq r.plan \ r.todo
      /\ r.plan \ r.todo \subseteq Succeeded(r.status)
      /\ touched[a] \subseteq Succeeded(r.status)
  BY <1>0, <1>2, AllSucceeded
<1>9. o \notin Recorded(r.status) /\ Succeeded(r.status) \subseteq Recorded(r.status)
  BY <1>0, <1>8 DEF Succeeded, Recorded
<1>10. o \notin touched[a]
  BY <1>8, <1>9
<1>11. Succeeded(st) = Succeeded(r.status) /\ Recorded(st) = Recorded(r.status) \cup {o}
  BY SMTT(120), <1>0, <1>6, <1>7, <1>9 DEF Succeeded, Recorded
<1>12. Truthful(st, touched[a])
  <2>1. st.state = "IN_PROGRESS"
    BY <1>0, <1>2, <1>5 DEF Ledger
  <2> QED
    BY <1>0, <1>6, <1>7, <2>1 DEF Truthful
<1>13. Owned(st, Digest(r), live, version)
  BY <1>0, <1>6, <1>7 DEF Owned
<1>14. Digest(ok) = Digest(r) /\ Current(ok) = o
  BY <1>4 DEF Digest, Current
<1>15. Telling(ok, st, touched[a], late[a], prop, live, version)
  <2>1. Ledger(ok, st)
    <3>1. ~r.stale /\ r.todo \subseteq r.plan /\ st.state = "IN_PROGRESS"
      BY <1>0, <1>2, <1>5 DEF Ledger
    <3>2. /\ r.plan \ r.todo \subseteq Succeeded(st)
          /\ Recorded(st) \subseteq (r.plan \ r.todo) \cup {o}
      BY <1>8, <1>11
    <3>3. st.mutations[o].result = "OUTCOME_UNKNOWN"
      BY <1>6, <1>7
    <3> QED
      BY ZenonT(60), <1>4, <1>14, <3>1, <3>2, <3>3 DEF Ledger, Starting, Dispatched
  <2>2. Shows(ok, touched[a], live, version)
    <3>1. st.mutations[o].before.rv =< version[o]
      BY <1>0, <1>1, <1>6, <1>7 DEF Shows
    <3> QED
      BY <1>4, <1>10, <1>14, <3>1 DEF Shows, Dispatched
  <2>3. Authorises(prop, ok) => Authorises(prop, r)
    BY <1>4, <1>14 DEF Authorises
  <2>4. late[a] = {}
    BY <1>0, <1>1 DEF Window
  <2>5. Window(ok, late[a], prop)
    BY <1>0, <1>1, <1>2, <1>4, <1>14, <2>4 DEF Window
  <2>6. Answered(ok, live, version)
    BY <1>4 DEF Answered
  <2> QED
    BY <1>4, <1>12, <1>13, <1>14, <2>1, <2>2, <2>5, <2>6 DEF Telling
<1>16. /\ Telling(Fail(clear), attempt[a], touched[a], late[a], prop, live, version)
       /\ Telling([Fail(clear) EXCEPT !.stale = TRUE], st, touched[a], late[a], prop, live, version)
  BY <1>0, <1>2, <1>3, <1>12, <1>13, FailsTelling
<1>17. SaveStatus(a, st, ok, Fail(clear))
  BY DEF PersistIntent
<1> QED
  BY <1>15, <1>16, <1>17, CustodyTelling

\* The outcome is recorded; a success moves the plan on.
LEMMA ResultTelling ==
    ASSUME Inv, Faithful, NEW a \in Appliers, PersistResult(a)
    PROVE  Faithful'
<1> PICK r \in Run : r = run[a]
  BY RunFacts
<1> PICK o : o = Current(r)
  OBVIOUS
<1> PICK x : x = [r EXCEPT !.todo = @ \ {o}]
  OBVIOUS
<1> DEFINE result == r.status.mutations[o].result
           ok == CASE result = "SUCCEEDED" -> Continue(x)
                   [] result = "FAILED" -> Fail(r)
                   [] OTHER -> Unknown(r)
<1>1. r.pc = "result"
  BY DEF PersistResult, At
<1>2. r.pc \in Looping /\ r.pc \in Dispatched /\ r.pc \in Gated /\ r.pc \notin {"idle", "dead"}
  BY <1>1 DEF Looping, Dispatched, Gated
<1>0. /\ Window(r, late[a], prop) /\ Ledger(r, attempt[a]) /\ Good(r, attempt[a], touched[a])
      /\ Truthful(attempt[a], touched[a]) /\ Owned(attempt[a], Digest(r), live, version)
      /\ Truthful(r.status, touched[a]) /\ Owned(r.status, Digest(r), live, version)
      /\ r.status \in Status /\ touched[a] \in SUBSET Artifacts
      /\ o \in Artifacts /\ o \in r.todo
  BY <1>1, <1>2, RunTells, RunFacts
<1>3. /\ x \in Run /\ x.todo = r.todo \ {o} /\ x.status = r.status /\ x.read = r.read
      /\ x.pinned = r.pinned /\ x.plan = r.plan /\ x.stale = r.stale
  BY DEF Run
<1>4. \A q \in Artifacts : q # o => r.status.mutations[q] = attempt[a].mutations[q]
  BY <1>0, <1>2 DEF Ledger
<1>5. /\ Recorded(r.status) \subseteq (r.plan \ r.todo) \cup {o}
      /\ r.plan \ r.todo \subseteq Succeeded(r.status)
      /\ ~r.stale /\ r.todo \subseteq r.plan /\ r.status.state = "IN_PROGRESS"
      /\ touched[a] \subseteq Recorded(r.status)
  <2>1. /\ Recorded(attempt[a]) \subseteq (r.plan \ r.todo) \cup {o}
        /\ r.plan \ r.todo \subseteq Succeeded(attempt[a])
        /\ ~r.stale /\ r.todo \subseteq r.plan /\ r.status.state = "IN_PROGRESS"
    BY <1>0, <1>2 DEF Ledger
  <2>2. Recorded(r.status) \subseteq Recorded(attempt[a]) \cup {o}
    BY <1>4 DEF Recorded
  <2>3. r.plan \in SUBSET Artifacts
    BY DEF Run
  <2>4. r.plan \ r.todo \subseteq Succeeded(r.status)
    BY <1>0, <1>4, <2>1, <2>3 DEF Succeeded
  <2> QED
    BY <1>0, <1>2, <2>1, <2>2, <2>4 DEF Good
<1>6. ASSUME result = "SUCCEEDED"
      PROVE  Telling(Continue(x), r.status, touched[a], late[a], prop, live, version)
  <2>1. o \in Succeeded(r.status)
    BY <1>0, <1>6 DEF Succeeded
  <2>2. /\ x.plan \ x.todo \subseteq Succeeded(x.status)
        /\ Recorded(x.status) \subseteq x.plan \ x.todo
    BY <1>0, <1>3, <1>5, <2>1
  <2> QED
    BY <1>0, <1>2, <1>3, <1>5, <2>2, GoesOn
<1>7. ASSUME result = "FAILED"
      PROVE  Telling(Fail(r), r.status, touched[a], late[a], prop, live, version)
  <2> PICK new : new = Fail(r)
    OBVIOUS
  <2>1. o \notin touched[a]
    BY <1>0, <1>7 DEF Truthful
  <2>2. touched[a] \subseteq Succeeded(r.status)
    BY <1>5, <2>1
  <2>3. /\ markFailure(r.status).mutations = r.status.mutations
        /\ Truthful(markFailure(r.status), touched[a])
    BY <1>0, <2>2, FailureIsTruthful
  <2>4. Owned(markFailure(r.status), Digest(r), live, version)
    BY <1>0, <2>3 DEF Owned
  <2>5. /\ new.pc = "last" /\ new.read = r.read /\ new.pinned = r.pinned
        /\ new.status = markFailure(r.status)
    BY DEF Fail, Run
  <2> QED
    BY <1>0, <1>2, <2>3, <2>4, <2>5, Ends
<1>8. /\ Telling(Unknown(r), r.status, touched[a], late[a], prop, live, version)
      /\ Telling(Unknown(r), attempt[a], touched[a], late[a], prop, live, version)
      /\ Telling([Unknown(r) EXCEPT !.stale = TRUE], r.status,
                 touched[a], late[a], prop, live, version)
  BY <1>0, <1>2, UnknownTelling
<1>9. Telling(ok, r.status, touched[a], late[a], prop, live, version)
  BY <1>6, <1>7, <1>8
<1>10. SaveStatus(a, r.status, ok, Unknown(r))
  BY DEF PersistResult
<1> HIDE DEF ok
<1> QED
  BY <1>8, <1>9, <1>10, CustodyTelling

\* Every custody write keeps the second invariant.
LEMMA CustodyWritesTelling ==
    ASSUME Inv, Faithful, NEW a \in Appliers, Custody(a)
    PROVE  Faithful'
<1>1. CASE PersistLast(a)
  <2> PICK r \in Run : r = run[a]
    BY RunFacts
  <2>1. r.pc = "last"
    BY <1>1 DEF PersistLast, At
  <2>2. /\ Window(r, late[a], prop)
        /\ Truthful(attempt[a], touched[a]) /\ Owned(attempt[a], Digest(r), live, version)
        /\ Truthful(r.status, touched[a]) /\ Owned(r.status, Digest(r), live, version)
    BY <2>1, RunTells
  <2>3. /\ Telling(Stop(r), r.status, touched[a], late[a], prop, live, version)
        /\ Telling(Stop(r), attempt[a], touched[a], late[a], prop, live, version)
        /\ Telling([Stop(r) EXCEPT !.stale = TRUE], r.status,
                   touched[a], late[a], prop, live, version)
    BY <2>1, <2>2, StopTelling
  <2>4. SaveStatus(a, r.status, Stop(r), Stop(r))
    BY <1>1 DEF PersistLast
  <2> QED
    BY <2>3, <2>4, CustodyTelling
<1> QED
  BY <1>1, BeginTelling, IntentTelling, ResultTelling DEF Custody

\* The readiness checks move the run on or return.
LEMMA ReadinessTelling ==
    ASSUME Inv, Faithful, NEW a \in Appliers, Readiness(a)
    PROVE  Faithful'
<1> PICK r \in Run : r = run[a]
  BY RunFacts
<1>1. r.pc \in {"wait", "podlock"}
  BY DEF Readiness, waitForEnforcementReady, validatePodLockBeforeBinding, At
<1>2. r.pc \in Looping \ Dispatched /\ r.pc \in Gated /\ r.pc \notin {"idle", "dead"}
  BY <1>1 DEF Looping, Dispatched, Gated
<1>0. /\ Telling(r, attempt[a], touched[a], late[a], prop, live, version)
      /\ Window(r, late[a], prop)
      /\ Truthful(attempt[a], touched[a]) /\ Owned(attempt[a], Digest(r), live, version)
      /\ Truthful(r.status, touched[a]) /\ Owned(r.status, Digest(r), live, version)
  BY <1>2, RunTells
<1>3. ASSUME NEW pc \in {"podlock", "spec3"}
      PROVE  Telling(Goto(r, pc), attempt[a], touched[a], late[a], prop, live, version)
  <2> PICK new : new = Goto(r, pc)
    OBVIOUS
  <2>1. /\ new.pc = pc /\ new.read = r.read /\ new.status = r.status
        /\ new.todo = r.todo /\ new.plan = r.plan /\ new.stale = r.stale /\ new.pinned = r.pinned
    BY DEF Goto, Run
  <2> QED
    BY <1>0, <1>2, <2>1, Moves DEF Open, Dispatched
<1>4. Telling(Stop(r), attempt[a], touched[a], late[a], prop, live, version)
  BY <1>0, <1>2, StopTelling
<1>5. /\ \/ \E pc \in {"podlock", "spec3"} : Become(a, Goto(r, pc))
         \/ Become(a, Stop(r))
      /\ UNCHANGED <<Cluster, attempt, History>>
  BY DEF Readiness, waitForEnforcementReady, validatePodLockBeforeBinding
<1> QED
  BY <1>3, <1>4, <1>5, LocalTelling

-----------------------------------------------------------------------------
(* The cluster moves under a run.                                          *)

\* An object is stored under a fresh version: whatever a run claims of older
\* versions stays true, and a change it made still shows.
LEMMA StoreTelling ==
    ASSUME NEW r, NEW st, NEW t, NEW l, NEW p, NEW lv \in [Artifacts -> Object],
           NEW vs \in [Artifacts -> Nat], Good(r, st, t), st \in Status,
           Telling(r, st, t, l, p, lv, vs),
           NEW o \in Artifacts, NEW obj \in Object, NEW t2 \in SUBSET t,
           obj.phase = "dying" /\ o \in t2 =>
               lv[o].phase = "dying" \/ r.status.mutations[o].before.uid # 0
    PROVE  Telling(r, st, t2, l, p,
                   [lv EXCEPT ![o] = [obj EXCEPT !.rv = vs[o] + 1]],
                   [vs EXCEPT ![o] = @ + 1])
<1> PICK lv2 : lv2 = [lv EXCEPT ![o] = [obj EXCEPT !.rv = vs[o] + 1]]
  OBVIOUS
<1> PICK vs2 : vs2 = [vs EXCEPT ![o] = @ + 1]
  OBVIOUS
<1>1. /\ lv2[o].rv = vs[o] + 1 /\ lv2[o].phase = obj.phase
      /\ vs2[o] = vs[o] + 1 /\ vs[o] \in Nat
      /\ \A q \in Artifacts : q # o => lv2[q] = lv[q] /\ vs2[q] = vs[q]
  BY DEF Object
<1>2. lv2[o] # Absent
  BY <1>1 DEF Absent
<1>3. /\ r \in Run /\ r.status \in Status /\ r.held \in Object /\ r.answer.rv \in Nat
      /\ r.pc \in Looping => Current(r) \in Artifacts
  BY CurrentIsPlanned DEF Good, Run
<1>4. \A q \in Artifacts : /\ r.status.mutations[q].before.rv \in Nat
                           /\ r.status.mutations[q].attributable \in Nat
                           /\ st.mutations[q].attributable \in Nat
  BY <1>3 DEF Status, Record, Snapshot
<1>5. Truthful(st, t2) /\ (r.pc # "dead" => Truthful(r.status, t2))
  BY DEF Telling, Truthful
<1>6. ASSUME NEW s, \A q \in Artifacts : s.mutations[q].attributable \in Nat,
             Owned(s, Digest(r), lv, vs)
      PROVE  Owned(s, Digest(r), lv2, vs2)
  BY <1>1, <1>6 DEF Owned
<1>7. Owned(st, Digest(r), lv2, vs2) /\ (r.pc # "dead" => Owned(r.status, Digest(r), lv2, vs2))
  BY <1>4, <1>6 DEF Telling
<1>8. Answered(r, lv2, vs2)
  BY <1>1, <1>3 DEF Telling, Answered, Looping, Dispatched
<1>9. Shows(r, t2, lv2, vs2)
  <2> DEFINE c == Current(r)
             before == r.status.mutations[c].before
  <2>1. r.pc \in Open \cup {"intent"} => c \in Artifacts /\ before.rv \in Nat /\ r.held.rv \in Nat
    BY <1>3, <1>4 DEF Open, Looping, Object
  <2>2. Shows(r, t, lv, vs)
    BY DEF Telling
  <2>3. /\ r.pc = "intent" => r.held.rv =< vs2[c]
        /\ r.pc \in Open => before.rv =< vs2[c]
    BY <1>1, <2>1, <2>2 DEF Shows
  <2>4. ASSUME r.pc \in Open, c \in t2
        PROVE  /\ lv2[c] = Absent => before.uid # 0
               /\ lv2[c] # Absent => lv2[c].rv > before.rv
               /\ lv2[c].phase = "dying" => before.uid # 0
    <3>1. CASE c = o
      BY <1>1, <1>2, <2>1, <2>2, <2>4, <3>1 DEF Shows
    <3>2. CASE c # o
      BY <1>1, <2>1, <2>2, <2>4, <3>2 DEF Shows
    <3> QED
      BY <3>1, <3>2
  <2> QED
    BY <2>2, <2>3, <2>4 DEF Shows
<1> QED
  BY <1>5, <1>7, <1>8, <1>9 DEF Telling

\* An object disappears.  A run that had changed it either no longer counts
\* that change, or had deleted the object itself.
LEMMA GoneTelling ==
    ASSUME NEW r, NEW st, NEW t, NEW l, NEW p, NEW lv \in [Artifacts -> Object],
           NEW vs \in [Artifacts -> Nat], Good(r, st, t), st \in Status,
           Telling(r, st, t, l, p, lv, vs),
           NEW o \in Artifacts, NEW t2 \in SUBSET t, o \in t2 => lv[o].phase = "dying"
    PROVE  Telling(r, st, t2, l, p, [lv EXCEPT ![o] = Absent], vs)
<1> PICK lv2 : lv2 = [lv EXCEPT ![o] = Absent]
  OBVIOUS
<1>1. /\ lv2[o] = Absent /\ \A q \in Artifacts : q # o => lv2[q] = lv[q]
  OBVIOUS
<1>2. Absent.rv = 0 /\ Absent.phase = "new"
  BY DEF Absent
<1>3. r.pc \in Looping => Current(r) \in Artifacts
  BY CurrentIsPlanned DEF Good
<1>4. Truthful(st, t2) /\ (r.pc # "dead" => Truthful(r.status, t2))
  BY DEF Telling, Truthful
<1>5. ASSUME NEW s, Owned(s, Digest(r), lv, vs)
      PROVE  Owned(s, Digest(r), lv2, vs)
  BY <1>1, <1>2, <1>5 DEF Owned
<1>6. Owned(st, Digest(r), lv2, vs) /\ (r.pc # "dead" => Owned(r.status, Digest(r), lv2, vs))
  BY <1>5 DEF Telling
<1>7. Answered(r, lv2, vs)
  BY <1>1, <1>2, <1>3 DEF Telling, Answered, Looping, Dispatched
<1>8. Shows(r, t2, lv2, vs)
  <2> DEFINE c == Current(r)
             before == r.status.mutations[c].before
  <2>1. r.pc \in Open => c \in Artifacts
    BY <1>3 DEF Open, Looping
  <2>2. Shows(r, t, lv, vs)
    BY DEF Telling
  <2>3. ASSUME r.pc \in Open, c \in t2
        PROVE  /\ lv2[c] = Absent => before.uid # 0
               /\ lv2[c] # Absent => lv2[c].rv > before.rv
               /\ lv2[c].phase = "dying" => before.uid # 0
    <3>1. CASE c = o
      BY <1>1, <1>2, <2>2, <2>3, <3>1 DEF Shows
    <3>2. CASE c # o
      BY <1>1, <2>1, <2>2, <2>3, <3>2 DEF Shows
    <3> QED
      BY <3>1, <3>2
  <2> QED
    BY <2>2, <2>3 DEF Shows
<1> QED
  BY <1>4, <1>6, <1>7, <1>8 DEF Telling

\* The run's own request has taken effect, or found nothing to change.
LEMMA SentTelling ==
    ASSUME NEW r, NEW new, NEW st, NEW t, NEW l, NEW p, NEW lv, NEW vs,
           Telling(r, st, t, l, p, lv, vs), r.pc \in {"write", "delete", "recreate"},
           Current(r) \in Artifacts,
           new.status = r.status, new.todo = r.todo, new.plan = r.plan,
           new.stale = r.stale, new.read = r.read, new.pinned = r.pinned,
           new.pc \in {"landed", "gone", "errored"}, Answered(new, lv, vs),
           NEW t2, NEW l2,
           \/ t2 = t /\ l2 = l
           \/ /\ t2 = t \cup {Current(r)}
              /\ l2 = IF Authorises(p, r) THEN l ELSE l \cup {Current(r)}
              /\ lv[Current(r)] # Absent
              /\ lv[Current(r)].rv > r.status.mutations[Current(r)].before.rv
              /\ lv[Current(r)].phase = "dying" =>
                    r.status.mutations[Current(r)].before.uid # 0
    PROVE  Telling(new, st, t2, l2, p, lv, vs)
<1> DEFINE o == Current(r)
<1>1. Digest(new) = Digest(r) /\ Current(new) = o
  BY DEF Digest, Current
<1>2. /\ r.pc \in Open /\ r.pc \in Dispatched /\ r.pc \in Looping /\ r.pc \in Gated
      /\ r.pc \notin {"idle", "dead", "result"}
      /\ new.pc \in Open /\ new.pc \in Dispatched /\ new.pc \in Looping
      /\ new.pc \notin Starting /\ new.pc \notin {"result", "dead", "intent"}
  BY DEF Open, Looping, Dispatched, Gated, Starting
<1>3. Ledger(r, st)
  BY DEF Telling
<1>4. Ledger(new, st)
  BY <1>1, <1>2, <1>3 DEF Ledger
<1>5. /\ st.state = "IN_PROGRESS" /\ r.status.state = "IN_PROGRESS"
      /\ st.mutations[o].result = "OUTCOME_UNKNOWN"
      /\ r.status.mutations[o].result = "OUTCOME_UNKNOWN"
  BY <1>2, <1>3 DEF Ledger
<1>6. Truthful(st, t2) /\ Truthful(r.status, t2)
  <2>1. Truthful(st, t) /\ Truthful(r.status, t) /\ t2 \subseteq t \cup {o}
    BY <1>2 DEF Telling
  <2> QED
    BY <1>5, <2>1 DEF Truthful
<1>7. Shows(new, t2, lv, vs)
  BY <1>1, <1>2 DEF Telling, Shows
<1>8. Window(new, l2, p)
  <2>1. Window(r, l, p)
    BY DEF Telling
  <2>2. Authorises(p, new) => Authorises(p, r)
    BY <1>1 DEF Authorises
  <2>3. l \subseteq {o} /\ l2 \subseteq {o}
    BY <1>2, <2>1 DEF Window
  <2>4. Authorises(p, new) => l2 = {}
    BY <1>2, <2>1, <2>2 DEF Window
  <2>5. \A q, s \in l2 : q = s
    BY <2>3
  <2>6. /\ r.read.rv =< p.rv
        /\ p.rv = r.read.rv => p.approved = Digest(r) /\ DigestOf[p.spec] = Digest(r)
    BY <1>2, <2>1 DEF Window
  <2> QED
    BY <1>1, <1>2, <2>3, <2>4, <2>5, <2>6 DEF Window, Starting
<1> QED
  BY <1>1, <1>2, <1>4, <1>6, <1>7, <1>8 DEF Telling

\* The outcome of the open mutation is observed: a failure only when the
\* run's change does not show, a version only when it is the run's own.
LEMMA ObservedTelling ==
    ASSUME NEW r, NEW new, NEW st, NEW t, NEW l, NEW p, NEW lv, NEW vs,
           Telling(r, st, t, l, p, lv, vs), r.pc \in {"landed", "errored"},
           Current(r) \in Artifacts,
           new.status.state = r.status.state,
           \A q \in Artifacts : q # Current(r) => new.status.mutations[q] = r.status.mutations[q],
           new.todo = r.todo, new.plan = r.plan,
           new.stale = r.stale, new.read = r.read, new.pinned = r.pinned,
           new.pc = "result", t \subseteq Artifacts,
           new.status.mutations[Current(r)].result = "FAILED" => Current(r) \notin t,
           new.status.mutations[Current(r)].attributable # 0 =>
               /\ new.status.mutations[Current(r)].attributable =< vs[Current(r)]
               /\ lv[Current(r)].rv = new.status.mutations[Current(r)].attributable =>
                     lv[Current(r)].content = Digest(r)
    PROVE  Telling(new, st, t, l, p, lv, vs)
<1> DEFINE o == Current(r)
<1>1. Digest(new) = Digest(r) /\ Current(new) = o
  BY DEF Digest, Current
<1>2. /\ r.pc \in Open /\ r.pc \in Dispatched /\ r.pc \in Looping /\ r.pc \in Gated
      /\ r.pc \notin {"idle", "dead", "result"}
      /\ new.pc \notin Open /\ new.pc \in Dispatched /\ new.pc \in Looping
      /\ new.pc \notin Starting
  BY DEF Open, Looping, Dispatched, Gated, Starting
<1>3. Ledger(r, st) /\ Truthful(r.status, t) /\ Owned(r.status, Digest(r), lv, vs)
      /\ Window(r, l, p)
  BY <1>2 DEF Telling
<1>4. Ledger(new, st)
  BY <1>1, <1>2, <1>3 DEF Ledger
<1>5. Truthful(new.status, t)
  <2>1. new.status.state = "IN_PROGRESS"
    BY <1>2, <1>3 DEF Ledger
  <2> QED
    BY <1>3, <2>1 DEF Truthful
<1>6. Owned(new.status, Digest(r), lv, vs)
  BY <1>3 DEF Owned
<1>7. Shows(new, t, lv, vs) /\ Answered(new, lv, vs)
  BY <1>2 DEF Shows, Answered
<1>8. Authorises(p, new) => Authorises(p, r)
  BY <1>1 DEF Authorises
<1>9. Window(new, l, p)
  BY <1>1, <1>2, <1>3, <1>8 DEF Window
<1> QED
  BY <1>1, <1>3, <1>4, <1>5, <1>6, <1>7, <1>9 DEF Telling

-----------------------------------------------------------------------------
(* Mutations keep the second invariant.                                    *)

\* A stored object is one of the world's.
LEMMA StoreWorld ==
    ASSUME NEW lv \in [Artifacts -> Object], NEW vs \in [Artifacts -> Nat], WorldOK(lv, vs),
           NEW o \in Artifacts, NEW obj \in Object, obj.uid # 0
    PROVE  WorldOK([lv EXCEPT ![o] = [obj EXCEPT !.rv = vs[o] + 1]], [vs EXCEPT ![o] = @ + 1])
<1> PICK lv2 : lv2 = [lv EXCEPT ![o] = [obj EXCEPT !.rv = vs[o] + 1]]
  OBVIOUS
<1> PICK vs2 : vs2 = [vs EXCEPT ![o] = @ + 1]
  OBVIOUS
<1>1. /\ lv2[o].rv = vs[o] + 1 /\ lv2[o].uid = obj.uid /\ vs2[o] = vs[o] + 1 /\ vs[o] \in Nat
      /\ \A q \in Artifacts : q # o => lv2[q] = lv[q] /\ vs2[q] = vs[q]
  BY DEF Object
<1> QED
  BY <1>1 DEF WorldOK

\* A mutation that takes effect, as far as the server knows.
LEMMA LandedTelling ==
    ASSUME Inv, Faithful, NEW a \in Appliers, run[a].pc \in {"write", "delete", "recreate"},
           NEW obj \in Object, NEW next \in {"landed", "gone"},
           Landed(a, Current(run[a]), obj, next),
           next = "landed" => obj.content = Digest(run[a]),
           obj.uid # 0,
           obj.phase = "dying" =>
               run[a].status.mutations[Current(run[a])].before.uid # 0
    PROVE  Faithful'
<1> PICK r \in Run : r = run[a]
  BY RunFacts
<1> PICK o : o = Current(r)
  OBVIOUS
<1> PICK t : t = touched[a]
  OBVIOUS
<1> PICK st : st = attempt[a]
  OBVIOUS
<1>1. r.pc \in Open /\ r.pc \in Looping /\ r.pc # "dead"
  BY DEF Open, Looping, Dispatched
<1>0. /\ Telling(r, st, t, late[a], prop, live, version)
      /\ Good(r, st, t) /\ st \in Status /\ t \in SUBSET Artifacts
      /\ o \in Artifacts /\ r.status \in Status
      /\ live \in [Artifacts -> Object] /\ version \in [Artifacts -> Nat]
      /\ WorldOK(live, version)
      /\ Shows(r, t, live, version)
  BY <1>1, RunTells, RunFacts DEF Faithful
<1>2. /\ late \in [Appliers -> SUBSET Artifacts] /\ run \in [Appliers -> Run]
      /\ touched \in [Appliers -> SUBSET Artifacts]
      /\ \A b \in Appliers :
            /\ Good(run[b], attempt[b], touched[b]) /\ attempt[b] \in Status
            /\ Telling(run[b], attempt[b], touched[b], late[b], prop, live, version)
  BY DEF Inv, Rest, PerRun, Faithful
<1>3. r.status.mutations[o].before.rv \in Nat
  BY <1>0 DEF Status, Record, Snapshot
<1> DEFINE answer == [uid |-> live'[o].uid, rv |-> live'[o].rv]
<1>4. PICK new : /\ new \in {[r EXCEPT !.pc = next, !.held = Absent, !.tries = 0, !.answer = answer],
                             [r EXCEPT !.pc = "errored", !.held = Absent, !.tries = 0]}
                 /\ run' = [run EXCEPT ![a] = new]
  BY DEF Landed, Become
<1>5. /\ new.status = r.status /\ new.todo = r.todo /\ new.plan = r.plan
      /\ new.stale = r.stale /\ new.read = r.read /\ new.pinned = r.pinned
      /\ new.pc \in {next, "errored"}
      /\ new.pc = next => new.answer.rv = live'[o].rv
  <2>1. CASE new = [r EXCEPT !.pc = next, !.held = Absent, !.tries = 0, !.answer = answer]
    BY <2>1 DEF Run
  <2>2. CASE new = [r EXCEPT !.pc = "errored", !.held = Absent, !.tries = 0]
    BY <2>2 DEF Run
  <2> QED
    BY <1>4, <2>1, <2>2
<1>6. /\ prop' = prop /\ attempt' = attempt
      /\ touched' = [b \in Appliers |->
                       IF b = a THEN IF live' = live THEN t ELSE t \cup {o}
                       ELSE IF Deletes(o, obj) THEN touched[b] \ {o} ELSE touched[b]]
      /\ late' = [late EXCEPT ![a] = IF live' = live \/ Authorises(prop, r)
                                     THEN late[a] ELSE late[a] \cup {o}]
  BY DEF Landed
<1>7. /\ run'[a] = new
      /\ \A b \in Appliers \ {a} : run'[b] = run[b] /\ late'[b] = late[b]
  BY <1>2, <1>4, <1>6
<1>8. Current(new) = o /\ Digest(new) = Digest(r)
  BY <1>5 DEF Current, Digest
<1>9. CASE /\ version' = [version EXCEPT ![o] = @ + 1]
           /\ live' = [live EXCEPT ![o] = [obj EXCEPT !.rv = version[o] + 1]]
  <2>1. WorldOK(live', version')
    BY <1>0, <1>9, StoreWorld
  <2>2. /\ live'[o].rv = version[o] + 1 /\ live'[o].phase = obj.phase
        /\ live'[o].content = obj.content
        /\ version'[o] = version[o] + 1 /\ version[o] \in Nat
    BY <1>0, <1>9 DEF Object
  <2>3. live' # live
    <3>1. CASE live[o] = Absent
      BY <2>2, <3>1 DEF Absent
    <3>2. CASE live[o] # Absent
      <4>1. live[o].rv =< version[o] /\ live[o].rv \in Nat
        BY <1>0, <3>2 DEF WorldOK, Object
      <4> QED
        BY <2>2, <4>1
    <3> QED
      BY <3>1, <3>2
  <2>4. Telling(r, st, t, late[a], prop, live', version')
    <3>1. obj.phase = "dying" /\ o \in t =>
             live[o].phase = "dying" \/ r.status.mutations[o].before.uid # 0
      OBVIOUS
    <3> QED
      BY ZenonT(60), <1>0, <1>9, <3>1, StoreTelling
  <2>5. Answered(new, live', version')
    BY <1>5, <1>8, <2>2 DEF Answered
  <2>6. /\ live'[o] # Absent
        /\ live'[o].rv > r.status.mutations[o].before.rv
        /\ live'[o].phase = "dying" => r.status.mutations[o].before.uid # 0
    <3>1. r.status.mutations[o].before.rv =< version[o]
      BY <1>0, <1>1 DEF Shows
    <3> QED
      BY <1>3, <2>2, <3>1 DEF Absent
  <2>7. /\ touched'[a] = t \cup {o}
        /\ late'[a] = IF Authorises(prop, r) THEN late[a] ELSE late[a] \cup {o}
    BY <1>2, <1>6, <2>3
  <2>8. Telling(new, st, touched'[a], late'[a], prop, live', version')
    BY <1>0, <1>5, <1>8, <2>4, <2>5, <2>6, <2>7, SentTelling
  <2>9. ASSUME NEW b \in Appliers \ {a}
        PROVE  Telling(run[b], attempt[b], touched'[b], late[b], prop, live', version')
    <3>1. /\ touched'[b] \in SUBSET touched[b]
          /\ obj.phase = "dying" /\ o \in touched'[b] => live[o].phase = "dying"
      BY <1>6 DEF Deletes
    <3> QED
      BY ZenonT(60), <1>0, <1>2, <1>9, <3>1, StoreTelling
  <2>10. ASSUME NEW b \in Appliers
         PROVE  Telling(run'[b], attempt'[b], touched'[b], late'[b], prop', live', version')
    BY <1>6, <1>7, <2>8, <2>9
  <2> QED
    BY <2>1, <2>10 DEF Faithful
<1>10. CASE /\ Present(o) /\ obj.content = live[o].content /\ obj.phase = live[o].phase
            /\ live' = live /\ version' = version
  <2>1. /\ live[o] # Absent /\ live[o].rv # 0 /\ live[o].rv =< version[o]
    BY <1>0, <1>10 DEF Present, WorldOK
  <2>2. Answered(new, live, version)
    BY <1>5, <1>8, <1>10, <2>1 DEF Answered
  <2>3. touched'[a] = t /\ late'[a] = late[a]
    BY <1>2, <1>6, <1>10
  <2>4. Telling(new, st, t, late[a], prop, live, version)
    BY <1>0, <1>5, <1>8, <2>2, SentTelling
  <2>5. \A b \in Appliers \ {a} : touched'[b] = touched[b]
    BY <1>6, <1>10 DEF Deletes
  <2>6. ASSUME NEW b \in Appliers
        PROVE  Telling(run'[b], attempt'[b], touched'[b], late'[b], prop', live', version')
    <3>1. CASE b = a
      BY <1>6, <1>7, <1>10, <2>3, <2>4, <3>1
    <3>2. CASE b # a
      BY <1>2, <1>6, <1>7, <1>10, <2>5, <3>2
    <3> QED
      BY <3>1, <3>2
  <2> QED
    BY <1>0, <1>10, <2>6 DEF Faithful
<1> QED
  BY <1>9, <1>10 DEF Landed, Store

\* A refused request ends the mutation or leads to a retry.
LEMMA RejectedTelling ==
    ASSUME Inv, Faithful, NEW a \in Appliers, run[a].pc \in Open,
           NEW next \in {"errored", "refetch"}, Rejected(a, next),
           next = "refetch" => run[a].pc = "write" /\ run[a].held # Absent
    PROVE  Faithful'
<1> PICK r \in Run : r = run[a]
  BY RunFacts
<1>n. PICK new : new = [r EXCEPT !.pc = next,
                                 !.held = IF next = "refetch" THEN @ ELSE Absent,
                                 !.tries = IF next = "refetch" THEN @ ELSE 0]
  OBVIOUS
<1>0. /\ Telling(r, attempt[a], touched[a], late[a], prop, live, version)
      /\ Shows(r, touched[a], live, version)
  BY RunTells
<1>1. r.pc # "dead" /\ r.pc \in Gated
  BY DEF Open, Dispatched, Gated, Looping
<1>2. /\ new.pc = next /\ new.read = r.read /\ new.status = r.status
      /\ new.todo = r.todo /\ new.plan = r.plan /\ new.stale = r.stale /\ new.pinned = r.pinned
      /\ new.held = IF next = "refetch" THEN r.held ELSE Absent
  BY <1>n DEF Run
<1>3. /\ new.pc \in Open \ {"get", "landed"}
      /\ new.pc \notin {"status2", "create", "begin", "podlock", "spec3", "status3", "spec4",
                        "write", "delete"}
  BY <1>2 DEF Open, Dispatched
<1>4. new.pc = "refetch" => new.held # Absent /\ new.status.mutations[Current(r)].before.uid # 0
  BY <1>0, <1>2 DEF Shows
<1>5. /\ new.pc \in {"refetch", "delete"} => new.held # Absent
      /\ new.pc \in {"write", "refetch", "delete"} =>
            new.status.mutations[Current(r)].before.uid # 0
      /\ r.pc \in Open
  BY <1>3, <1>4
<1>6. Telling(new, attempt[a], touched[a], late[a], prop, live, version)
  BY <1>0, <1>1, <1>2, <1>3, <1>5, Moves
<1> QED
  BY <1>n, <1>6, LocalTelling DEF Rejected

\* The mutation's own requests: read, guarded write, retry, delete, create.
LEMMA RequestTelling ==
    ASSUME Inv, Faithful, NEW a \in Appliers,
           GetBeforeMutation(a) \/ WriteLive(a) \/ Refetch(a)
              \/ DeletePod(a) \/ waitForDynamicPodGone(a) \/ CreatePod(a)
    PROVE  Faithful'
<1> PICK r \in Run : r = run[a]
  BY RunFacts
<1> PICK o : o = Current(r)
  OBVIOUS
<1>1. r.pc \in {"get", "write", "refetch", "delete", "gone", "recreate"}
  BY DEF GetBeforeMutation, WriteLive, Refetch, DeletePod, waitForDynamicPodGone, CreatePod, At
<1>2. r.pc \in Open /\ r.pc \in Looping /\ r.pc \in Gated /\ r.pc # "dead"
  BY <1>1 DEF Open, Looping, Dispatched, Gated
<1>0. /\ Telling(r, attempt[a], touched[a], late[a], prop, live, version)
      /\ Shows(r, touched[a], live, version) /\ WorldOK(live, version)
      /\ live \in [Artifacts -> Object] /\ version \in [Artifacts -> Nat]
      /\ o \in Artifacts /\ live[o] \in Object /\ Digest(r) \in Digests
  BY <1>2, RunTells, RunFacts, DigestIsKnown DEF Faithful
<1>3. ASSUME NEW new, new.read = r.read, new.status = r.status,
             new.todo = r.todo, new.plan = r.plan, new.stale = r.stale, new.pinned = r.pinned,
             new.pc \in {"recreate", "write", "delete", "errored"},
             new.pc = "delete" => new.held # Absent,
             new.pc \in {"write", "delete"} /\ new.held # Absent =>
                 r.status.mutations[o].before.uid # 0,
             Become(a, new), UNCHANGED <<Cluster, attempt, History>>
      PROVE  Faithful'
  <2>1. /\ new.pc \in Open \ {"get", "landed"} /\ new.pc # "refetch"
        /\ new.pc \notin {"status2", "create", "begin", "podlock", "spec3", "status3", "spec4"}
    BY <1>3 DEF Open, Dispatched
  <2>2. Telling(new, attempt[a], touched[a], late[a], prop, live, version)
    BY <1>0, <1>2, <1>3, <2>1, Moves
  <2> QED
    BY <1>3, <2>2, LocalTelling
<1>4. ASSUME Rejected(a, "errored")
      PROVE  Faithful'
  BY <1>2, <1>4, RejectedTelling
<1>5. ASSUME NEW pc \in {"recreate", "write", "errored"},
             pc = "write" => r.held = Absent,
             Become(a, Goto(r, pc)), UNCHANGED <<Cluster, attempt, History>>
      PROVE  Faithful'
  <2> PICK new : new = Goto(r, pc)
    OBVIOUS
  <2>1. /\ new.pc = pc /\ new.read = r.read /\ new.status = r.status /\ new.held = r.held
        /\ new.todo = r.todo /\ new.plan = r.plan /\ new.stale = r.stale /\ new.pinned = r.pinned
    BY DEF Goto, Run
  <2> QED
    BY <1>3, <1>5, <2>1
<1>6. live[o] # Absent => live[o].uid # 0
  BY <1>0 DEF WorldOK
<1>7. CASE GetBeforeMutation(a)
  <2>1. r.pc = "get" /\ r.held = Absent
    BY <1>0, <1>7 DEF GetBeforeMutation, At, Shows
  <2>2. ASSUME NEW pc \in {"write", "delete"}, GuardHolds(r, live[o]), live[o] # Absent,
               Become(a, [r EXCEPT !.pc = pc, !.held = live[o]]),
               UNCHANGED <<Cluster, attempt, History>>
        PROVE  Faithful'
    <3> PICK new : new = [r EXCEPT !.pc = pc, !.held = live[o]]
      OBVIOUS
    <3>1. /\ new.pc = pc /\ new.read = r.read /\ new.status = r.status /\ new.held = live[o]
          /\ new.todo = r.todo /\ new.plan = r.plan /\ new.stale = r.stale /\ new.pinned = r.pinned
      BY DEF Run
    <3>2. r.status.mutations[o].before.uid # 0
      BY <1>6, <2>2 DEF GuardHolds
    <3> QED
      BY <1>3, <2>2, <3>1, <3>2
  <2>3. /\ \/ \E pc \in {"recreate", "write", "errored"} : Become(a, Goto(r, pc))
           \/ /\ live[o] # Absent /\ GuardHolds(r, live[o])
              /\ \E pc \in {"write", "delete"} : Become(a, [r EXCEPT !.pc = pc, !.held = live[o]])
        /\ UNCHANGED <<Cluster, attempt, History>>
    BY <1>7 DEF GetBeforeMutation, Present
  <2> QED
    BY <1>5, <2>1, <2>2, <2>3
<1>8. CASE WriteLive(a)
  <2>1. r.pc = "write"
    BY <1>8 DEF WriteLive, At
  <2>2. ASSUME Landed(a, o, Created(o, Digest(r)), "landed")
        PROVE  Faithful'
    <3>1. /\ Created(o, Digest(r)) \in Object /\ Created(o, Digest(r)).uid # 0
          /\ Created(o, Digest(r)).content = Digest(r) /\ Created(o, Digest(r)).phase # "dying"
      BY <1>0, CreatedTypes DEF Created
    <3> QED
      BY <2>1, <2>2, <3>1, LandedTelling
  <2>3. ASSUME r.held # Absent, live[o] # Absent,
               Landed(a, o, [live[o] EXCEPT !.content = Digest(r)], "landed")
        PROVE  Faithful'
    <3> PICK obj : obj = [live[o] EXCEPT !.content = Digest(r)]
      OBVIOUS
    <3>1. obj \in Object /\ obj.uid = live[o].uid /\ obj.content = Digest(r)
      BY <1>0 DEF Object
    <3>2. r.status.mutations[o].before.uid # 0
      BY <1>0, <2>1, <2>3 DEF Shows
    <3> QED
      BY <1>6, <2>1, <2>3, <3>1, <3>2, LandedTelling
  <2>4. ASSUME r.held # Absent, Rejected(a, "refetch")
        PROVE  Faithful'
    BY <1>2, <2>1, <2>4, RejectedTelling
  <2>5. \/ Landed(a, o, Created(o, Digest(r)), "landed")
        \/ /\ r.held # Absent /\ live[o] # Absent
           /\ Landed(a, o, [live[o] EXCEPT !.content = Digest(r)], "landed")
        \/ r.held # Absent /\ Rejected(a, "refetch")
        \/ Rejected(a, "errored")
    BY <1>8 DEF WriteLive, Present
  <2> QED
    BY <1>4, <2>2, <2>3, <2>4, <2>5
<1>9. CASE Refetch(a)
  <2>1. r.pc = "refetch"
    BY <1>9 DEF Refetch, At
  <2> PICK new : new = [r EXCEPT !.pc = "write", !.held = live[o], !.tries = @ + 1]
    OBVIOUS
  <2>2. /\ new.pc = "write" /\ new.read = r.read /\ new.status = r.status
        /\ new.todo = r.todo /\ new.plan = r.plan /\ new.stale = r.stale /\ new.pinned = r.pinned
    BY DEF Run
  <2>3. r.status.mutations[o].before.uid # 0
    BY <1>0, <2>1 DEF Shows
  <2>4. \/ Become(a, new) /\ UNCHANGED <<Cluster, attempt, History>>
        \/ Rejected(a, "errored")
    BY <1>9 DEF Refetch
  <2> QED
    BY <1>3, <1>4, <2>2, <2>3, <2>4
<1>10. CASE DeletePod(a)
  <2>1. r.pc = "delete"
    BY <1>10 DEF DeletePod, At
  <2> PICK obj : obj = [live[o] EXCEPT !.phase = "dying"]
    OBVIOUS
  <2>2. obj \in Object /\ obj.uid = live[o].uid
    BY <1>0 DEF Object
  <2>3. r.status.mutations[o].before.uid # 0
    BY <1>0, <2>1 DEF Shows
  <2>4. \/ live[o] # Absent /\ Landed(a, o, obj, "gone")
        \/ Rejected(a, "errored")
    BY <1>10 DEF DeletePod, Present
  <2> QED
    BY <1>4, <1>6, <2>1, <2>2, <2>3, <2>4, LandedTelling
<1>11. CASE waitForDynamicPodGone(a)
  <2>1. ASSUME NEW pc \in {"recreate", "errored"},
               Become(a, [r EXCEPT !.pc = pc, !.answer = NoAnswer]),
               UNCHANGED <<Cluster, attempt, History>>
        PROVE  Faithful'
    <3> PICK new : new = [r EXCEPT !.pc = pc, !.answer = NoAnswer]
      OBVIOUS
    <3>1. /\ new.pc = pc /\ new.read = r.read /\ new.status = r.status
          /\ new.todo = r.todo /\ new.plan = r.plan /\ new.stale = r.stale /\ new.pinned = r.pinned
      BY DEF Run
    <3> QED
      BY <1>3, <2>1, <3>1
  <2> QED
    BY <1>11, <2>1 DEF waitForDynamicPodGone
<1>12. CASE CreatePod(a)
  <2>1. r.pc = "recreate"
    BY <1>12 DEF CreatePod, At
  <2>2. /\ Created(o, Digest(r)) \in Object /\ Created(o, Digest(r)).uid # 0
        /\ Created(o, Digest(r)).content = Digest(r) /\ Created(o, Digest(r)).phase # "dying"
    BY <1>0, CreatedTypes DEF Created
  <2>3. Landed(a, o, Created(o, Digest(r)), "landed") \/ Rejected(a, "errored")
    BY <1>12 DEF CreatePod
  <2> QED
    BY <1>4, <2>1, <2>2, <2>3, LandedTelling
<1> QED
  BY <1>7, <1>8, <1>9, <1>10, <1>11, <1>12

\* Every step of a mutation keeps the second invariant.
LEMMA MutationTelling ==
    ASSUME Inv, Faithful, NEW a \in Appliers, Mutation(a)
    PROVE  Faithful'
<1> PICK r \in Run : r = run[a]
  BY RunFacts
<1> PICK o : o = Current(r)
  OBVIOUS
<1>0. /\ Telling(r, attempt[a], touched[a], late[a], prop, live, version)
      /\ Window(r, late[a], prop) /\ Ledger(r, attempt[a]) /\ Good(r, attempt[a], touched[a])
      /\ Shows(r, touched[a], live, version) /\ Answered(r, live, version)
      /\ Truthful(attempt[a], touched[a]) /\ Owned(attempt[a], Digest(r), live, version)
      /\ r.pc # "dead" =>
            Truthful(r.status, touched[a]) /\ Owned(r.status, Digest(r), live, version)
      /\ WorldOK(live, version) /\ touched[a] \in SUBSET Artifacts /\ r.status \in Status
      /\ live \in [Artifacts -> Object] /\ version \in [Artifacts -> Nat]
      /\ r.pc \in Looping => o \in Artifacts
  BY RunTells, RunFacts DEF Faithful
<1>1. CASE ReadBefore(a)
  <2>1. r.pc = "before"
    BY <1>1 DEF ReadBefore, At
  <2>2. r.pc \in Looping \ Dispatched /\ r.pc \in Gated
    BY <2>1 DEF Looping, Dispatched, Gated
  <2>3. PICK new : new = [r EXCEPT !.pc = "intent", !.held = live[o]]
    OBVIOUS
  <2>4. /\ new.pc = "intent" /\ new.read = r.read /\ new.status = r.status /\ new.held = live[o]
        /\ new.todo = r.todo /\ new.plan = r.plan /\ new.stale = r.stale /\ new.pinned = r.pinned
    BY <2>3 DEF Run
  <2>5. Digest(new) = Digest(r) /\ Current(new) = o
    BY <2>4 DEF Digest, Current
  <2>6. live[o].rv =< version[o]
    <3>1. version[o] \in Nat
      BY <1>0, <2>2
    <3>2. CASE live[o] = Absent
      BY <3>1, <3>2 DEF Absent
    <3>3. CASE live[o] # Absent
      BY <1>0, <2>2, <3>3 DEF WorldOK
    <3> QED
      BY <3>2, <3>3
  <2>7. Ledger(new, attempt[a])
    BY <1>0, <2>2, <2>4, <2>5 DEF Ledger, Starting, Looping, Dispatched
  <2>8. Shows(new, touched[a], live, version) /\ Answered(new, live, version)
    BY <2>4, <2>5, <2>6 DEF Shows, Answered, Open, Dispatched
  <2>9. Window(new, late[a], prop)
    BY <1>0, <2>1, <2>2, <2>4, <2>5 DEF Window, Starting, Dispatched
  <2>10. Telling(new, attempt[a], touched[a], late[a], prop, live, version)
    BY <1>0, <2>1, <2>4, <2>5, <2>7, <2>8, <2>9 DEF Telling
  <2>11. Telling(Fail(r), attempt[a], touched[a], late[a], prop, live, version)
    BY <1>0, <2>2, FailsTelling
  <2> QED
    BY <1>1, <2>3, <2>10, <2>11, LocalTelling DEF ReadBefore
<1>2. CASE ObserveSuccess(a)
  <2>1. r.pc = "landed"
    BY <1>2 DEF ObserveSuccess, At
  <2>2. r.pc \in Looping /\ r.pc # "dead"
    BY <2>1 DEF Looping, Dispatched
  <2>3. PICK mid : mid = [r EXCEPT !.answer = NoAnswer]
    OBVIOUS
  <2>4. /\ mid \in Run /\ mid.read = r.read /\ mid.status = r.status
        /\ mid.todo = r.todo /\ mid.plan = r.plan /\ mid.stale = r.stale /\ mid.pinned = r.pinned
    BY <2>3, Constants DEF Run
  <2>5. Current(mid) = o
    BY <2>4 DEF Current
  <2> DEFINE mine == r.answer.uid = live[o].uid /\ r.answer.rv = live[o].rv
             rec == [r.status.mutations[o] EXCEPT !.result = "SUCCEEDED",
                         !.attributable = IF mine THEN live[o].rv ELSE 0]
  <2>6. PICK new : new = [mid EXCEPT !.pc = "result", !.status.mutations[o] = rec]
    OBVIOUS
  <2>7. r.status.mutations[o] \in Record /\ r.status.mutations \in [Artifacts -> Record]
    BY <1>0, <2>2 DEF Status
  <2>8. rec.result = "SUCCEEDED" /\ rec.attributable = IF mine THEN live[o].rv ELSE 0
    BY <2>7 DEF Record
  <2>9. /\ new.pc = "result" /\ new.read = r.read
        /\ new.status = [r.status EXCEPT !.mutations[o] = rec]
        /\ new.todo = r.todo /\ new.plan = r.plan /\ new.stale = r.stale /\ new.pinned = r.pinned
    BY <2>4, <2>6 DEF Run
  <2>10. /\ new.status.state = r.status.state
         /\ new.status.mutations = [r.status.mutations EXCEPT ![o] = rec]
    BY <1>0, <2>9 DEF Status
  <2>11. /\ new.status.mutations[o] = rec
         /\ \A q \in Artifacts : q # o => new.status.mutations[q] = r.status.mutations[q]
    BY <1>0, <2>2, <2>7, <2>10
  <2>12. rec.attributable # 0 => /\ rec.attributable =< version[o]
                                 /\ live[o].rv = rec.attributable => live[o].content = Digest(r)
    BY <1>0, <2>1, <2>8 DEF Answered
  <2>13. Telling(new, attempt[a], touched[a], late[a], prop, live, version)
    <3>1. PICK c : c = rec
      OBVIOUS
    <3>2. /\ c.result # "FAILED" /\ new.status.mutations[Current(r)] = c
          /\ \A q \in Artifacts : q # Current(r) => new.status.mutations[q] = r.status.mutations[q]
          /\ Current(r) \in Artifacts /\ touched[a] \subseteq Artifacts
          /\ c.attributable # 0 =>
                /\ c.attributable =< version[Current(r)]
                /\ live[Current(r)].rv = c.attributable => live[Current(r)].content = Digest(r)
      BY <1>0, <2>2, <2>8, <2>11, <2>12, <3>1
    <3>3. /\ Telling(r, attempt[a], touched[a], late[a], prop, live, version)
          /\ r.pc \in {"landed", "errored"}
          /\ new.status.mutations[Current(r)].result = "FAILED" => Current(r) \notin touched[a]
          /\ new.status.mutations[Current(r)].attributable # 0 =>
                /\ new.status.mutations[Current(r)].attributable =< version[Current(r)]
                /\ live[Current(r)].rv = new.status.mutations[Current(r)].attributable =>
                      live[Current(r)].content = Digest(r)
      BY <1>0, <2>1, <3>2
    <3>4. /\ new.pc = "result" /\ new.read = r.read /\ new.status.state = r.status.state
          /\ new.todo = r.todo /\ new.plan = r.plan /\ new.stale = r.stale /\ new.pinned = r.pinned
          /\ \A q \in Artifacts : q # Current(r) => new.status.mutations[q] = r.status.mutations[q]
          /\ Current(r) \in Artifacts /\ touched[a] \subseteq Artifacts
      BY <2>9, <2>10, <3>2
    <3> HIDE DEF rec
    <3> QED
      BY <3>3, <3>4, ObservedTelling
  <2>14. Telling(Unknown(mid), attempt[a], touched[a], late[a], prop, live, version)
    BY <1>0, <2>2, <2>4, UnknownTelling
  <2>15. /\ Become(a, new) \/ Become(a, Unknown(mid))
         /\ UNCHANGED <<Cluster, attempt, History>>
    BY <1>2, <2>3, <2>4, <2>5, <2>6 DEF ObserveSuccess
  <2> QED
    BY <2>13, <2>14, <2>15, LocalTelling
<1>3. CASE ObserveFailure(a)
  <2>1. r.pc = "errored"
    BY <1>3 DEF ObserveFailure, At
  <2>2. r.pc \in Looping /\ r.pc \in Open /\ r.pc # "dead"
    BY <2>1 DEF Looping, Open, Dispatched
  <2>3. r.status.mutations[o] \in Record /\ r.status.mutations \in [Artifacts -> Record]
    BY <1>0, <2>2 DEF Status
  <2>4. mutationSnapshot(live[o]) = r.status.mutations[o].before => o \notin touched[a]
    <3>1. SUFFICES ASSUME mutationSnapshot(live[o]) = r.status.mutations[o].before, o \in touched[a]
                   PROVE  FALSE
      OBVIOUS
    <3>2. /\ r.status.mutations[o].before.uid = live[o].uid
          /\ r.status.mutations[o].before.rv = live[o].rv
      BY <3>1 DEF mutationSnapshot
    <3>3. CASE live[o] = Absent
      BY <1>0, <2>2, <3>1, <3>2, <3>3 DEF Shows, Absent
    <3>4. CASE live[o] # Absent
      <4>1. live[o].rv > r.status.mutations[o].before.rv /\ live[o].rv \in Nat
        BY <1>0, <2>2, <3>1, <3>4 DEF Shows, Object
      <4> QED
        BY <3>2, <4>1
    <3> QED
      BY <3>3, <3>4
  <2>5. ASSUME NEW result, result = "FAILED" => o \notin touched[a]
        PROVE  Telling([r EXCEPT !.pc = "result", !.status.mutations[o].result = result],
                       attempt[a], touched[a], late[a], prop, live, version)
    <3> DEFINE rec == [r.status.mutations[o] EXCEPT !.result = result]
    <3>1. PICK new : new = [r EXCEPT !.pc = "result", !.status.mutations[o] = rec]
      OBVIOUS
    <3>2. rec.result = result /\ rec.attributable = r.status.mutations[o].attributable
      BY <2>3 DEF Record
    <3>3. /\ new.pc = "result" /\ new.read = r.read
          /\ new.status = [r.status EXCEPT !.mutations[o] = rec]
          /\ new.todo = r.todo /\ new.plan = r.plan /\ new.stale = r.stale /\ new.pinned = r.pinned
      BY <3>1 DEF Run
    <3>4. /\ new.status.state = r.status.state
          /\ new.status.mutations = [r.status.mutations EXCEPT ![o] = rec]
      BY <1>0, <3>3 DEF Status
    <3>5. /\ new.status.mutations[o] = rec
          /\ \A q \in Artifacts : q # o => new.status.mutations[q] = r.status.mutations[q]
      BY <1>0, <2>2, <2>3, <3>4
    <3>6. rec.attributable # 0 => /\ rec.attributable =< version[o]
                                  /\ live[o].rv = rec.attributable => live[o].content = Digest(r)
      BY <1>0, <2>2, <3>2 DEF Owned
    <3>7. Telling(new, attempt[a], touched[a], late[a], prop, live, version)
      <4>1. PICK c : c = rec
        OBVIOUS
      <4>2. /\ c.result = "FAILED" => Current(r) \notin touched[a]
            /\ new.status.mutations[Current(r)] = c
            /\ \A q \in Artifacts : q # Current(r) => new.status.mutations[q] = r.status.mutations[q]
            /\ Current(r) \in Artifacts /\ touched[a] \subseteq Artifacts
            /\ c.attributable # 0 =>
                  /\ c.attributable =< version[Current(r)]
                  /\ live[Current(r)].rv = c.attributable => live[Current(r)].content = Digest(r)
        BY <1>0, <2>2, <2>5, <3>2, <3>5, <3>6, <4>1
      <4>3. /\ Telling(r, attempt[a], touched[a], late[a], prop, live, version)
            /\ r.pc \in {"landed", "errored"}
            /\ new.status.mutations[Current(r)].result = "FAILED" => Current(r) \notin touched[a]
            /\ new.status.mutations[Current(r)].attributable # 0 =>
                  /\ new.status.mutations[Current(r)].attributable =< version[Current(r)]
                  /\ live[Current(r)].rv = new.status.mutations[Current(r)].attributable =>
                        live[Current(r)].content = Digest(r)
        BY <1>0, <2>1, <4>2
      <4>4. /\ new.pc = "result" /\ new.read = r.read /\ new.status.state = r.status.state
            /\ new.todo = r.todo /\ new.plan = r.plan /\ new.stale = r.stale /\ new.pinned = r.pinned
            /\ \A q \in Artifacts : q # Current(r) => new.status.mutations[q] = r.status.mutations[q]
            /\ Current(r) \in Artifacts /\ touched[a] \subseteq Artifacts
        BY <3>3, <3>4, <4>2
      <4> HIDE DEF rec
      <4> QED
        BY <4>3, <4>4, ObservedTelling
    <3> QED
      BY <3>1, <3>7
  <2>6. Telling(Unknown(r), attempt[a], touched[a], late[a], prop, live, version)
    BY <1>0, <2>2, UnknownTelling
  <2>7. /\ \/ \E result \in {"FAILED", "OUTCOME_UNKNOWN"} :
                 /\ result = "FAILED" => mutationSnapshot(live[o]) = r.status.mutations[o].before
                 /\ Become(a, [r EXCEPT !.pc = "result", !.status.mutations[o].result = result])
           \/ Become(a, Unknown(r))
        /\ UNCHANGED <<Cluster, attempt, History>>
    BY <1>3 DEF ObserveFailure
  <2> QED
    BY <2>4, <2>5, <2>6, <2>7, LocalTelling
<1> QED
  BY <1>1, <1>2, <1>3, RequestTelling DEF Mutation
-----------------------------------------------------------------------------
(* Deaths and everybody else keep the second invariant.                    *)

\* A process that dies leaves a record that is true of what it did.
LEMMA DieTelling ==
    ASSUME Inv, Faithful, NEW a \in Appliers, Die(a)
    PROVE  Faithful'
<1> PICK r \in Run : r = run[a]
  BY RunFacts
<1>1. PICK new : new = [Fresh EXCEPT !.pc = "dead", !.read = r.read]
  OBVIOUS
<1>2. new.pc = "dead" /\ new.read = r.read
  BY <1>1 DEF Fresh
<1>3. Digest(new) = Digest(r)
  BY <1>2 DEF Digest
<1>4. /\ Truthful(attempt[a], touched[a]) /\ Owned(attempt[a], Digest(r), live, version)
      /\ Window(r, late[a], prop) /\ r.pc # "idle"
  BY RunTells DEF Die
<1>5. Ledger(new, attempt[a]) /\ Shows(new, touched[a], live, version)
      /\ Answered(new, live, version)
  BY <1>2 DEF Ledger, Shows, Answered, Starting, Looping, Dispatched, Open
<1>6. Window(new, late[a], prop)
  BY <1>2, <1>4 DEF Window, Starting, Dispatched, Gated, Looping
<1>7. Telling(new, attempt[a], touched[a], late[a], prop, live, version)
  BY <1>2, <1>3, <1>4, <1>5, <1>6 DEF Telling
<1> QED
  BY <1>1, <1>7, LocalTelling DEF Die

\* Others write, touch, create and delete live objects; controllers publish
\* their status and Pods go away.
LEMMA OthersTelling ==
    ASSUME Inv, Faithful, NEW o \in Artifacts, Others(o)
    PROVE  Faithful'
<1>0. /\ live \in [Artifacts -> Object] /\ version \in [Artifacts -> Nat] /\ live[o] \in Object
      /\ WorldOK(live, version)
      /\ \A a \in Appliers :
            /\ Good(run[a], attempt[a], touched[a]) /\ attempt[a] \in Status
            /\ Telling(run[a], attempt[a], touched[a], late[a], prop, live, version)
  BY DEF Inv, Rest, PerRun, Faithful
<1>1. ASSUME NEW obj \in Object, Store(o, obj), obj.uid # 0,
             obj.phase = "dying" => live[o].phase = "dying",
             UNCHANGED <<prop, run, attempt, touched, late>>
      PROVE  Faithful'
  <2>1. /\ version' = [version EXCEPT ![o] = @ + 1]
        /\ live' = [live EXCEPT ![o] = [obj EXCEPT !.rv = version[o] + 1]]
    BY <1>1 DEF Store
  <2>2. WorldOK(live', version')
    BY <1>0, <1>1, <2>1, StoreWorld
  <2>3. ASSUME NEW a \in Appliers
        PROVE  Telling(run[a], attempt[a], touched[a], late[a], prop, live', version')
    BY <1>0, <1>1, <2>1, StoreTelling
  <2> QED
    BY <1>1, <2>2, <2>3 DEF Faithful
<1>2. ASSUME live' = [live EXCEPT ![o] = Absent], version' = version,
             UNCHANGED <<prop, run, attempt, late>>,
             \A a \in Appliers : touched'[a] \in SUBSET touched[a]
                                 /\ (o \in touched'[a] => live[o].phase = "dying")
      PROVE  Faithful'
  <2>1. WorldOK(live', version')
    BY <1>0, <1>2 DEF WorldOK
  <2>2. ASSUME NEW a \in Appliers
        PROVE  Telling(run[a], attempt[a], touched'[a], late[a], prop, live', version)
    BY <1>0, <1>2, GoneTelling
  <2> QED
    BY <1>2, <2>1, <2>2 DEF Faithful
<1>3. live[o] # Absent => live[o].uid # 0
  BY <1>0 DEF WorldOK
<1>4. CASE ExternalWrite(o)
  <2>1. PICK obj : obj = [live[o] EXCEPT !.content = "drift"]
    OBVIOUS
  <2>2. obj \in Object /\ obj.uid = live[o].uid /\ obj.phase = live[o].phase
    BY <1>0, <2>1 DEF Object, Foreign
  <2> QED
    BY <1>1, <1>3, <1>4, <2>1, <2>2 DEF ExternalWrite, Edit, Present
<1>5. CASE ExternalTouch(o)
  BY <1>0, <1>1, <1>3, <1>5 DEF ExternalTouch, Edit, Present
<1>6. CASE ExternalCreate(o)
  <2>1. PICK c \in Foreign : Edit(o, Created(o, c))
    BY <1>6 DEF ExternalCreate
  <2>2. Created(o, c) \in Object /\ Created(o, c).uid # 0 /\ Created(o, c).phase = "new"
    BY <1>0, CreatedTypes DEF Created
  <2> QED
    BY <1>1, <2>1, <2>2 DEF Edit
<1>7. CASE ExternalDelete(o)
  BY <1>2, <1>7 DEF ExternalDelete, Inv, PerRun
<1>8. CASE Reconcile(o)
  <2>1. PICK obj : obj = [live[o] EXCEPT !.phase = "ready"]
    OBVIOUS
  <2>2. obj \in Object /\ obj.uid = live[o].uid /\ obj.phase = "ready"
    BY <1>0, <2>1 DEF Object
  <2> QED
    BY <1>1, <1>3, <1>8, <2>1, <2>2 DEF Reconcile, Present
<1>9. CASE PodGone(o)
  BY <1>2, <1>9 DEF PodGone
<1> QED
  BY <1>4, <1>5, <1>6, <1>7, <1>8, <1>9 DEF Others

\* The proposal is written.  A run whose late change is not forgiven by the
\* write does not get past the gate it is in: only an approval of what the
\* proposal now holds can name the run's digest again.
LEMMA ReviewTelling ==
    ASSUME Inv, Faithful, Review
    PROVE  Faithful'
<1>0. prop \in Proposal
  BY DEF Inv, Rest
<1>1. PICK new : /\ WriteProposal(new) /\ new.rv = prop.rv
                 /\ new.approved \in {prop.approved, None, DigestOf[new.spec]}
                 /\ new \in Proposal
  <2>1. CASE \E s \in Specs : SaveProposal(s)
    BY <1>0, <2>1 DEF SaveProposal, Proposal
  <2>2. CASE Approve
    <3>1. PICK new : new = [prop EXCEPT !.approved = DigestOf[prop.spec]]
      OBVIOUS
    <3>2. /\ new.rv = prop.rv /\ new.approved = DigestOf[new.spec] /\ new \in Proposal
      BY <1>0, <3>1 DEF Proposal, Digests
    <3> QED
      BY <2>2, <3>1, <3>2 DEF Approve
  <2>3. CASE Reject
    BY <1>0, <2>3 DEF Reject, Proposal
  <2>4. CASE ReplaceProposal
    <3>1. PICK new : new = [prop EXCEPT !.uid = @ + 1, !.approved = None]
      OBVIOUS
    <3>2. prop.uid + 1 \in Nat
      BY <1>0 DEF Proposal
    <3>3. new = [prop EXCEPT !.uid = prop.uid + 1, !.approved = None]
      BY <3>1
    <3>4. /\ new.rv = prop.rv /\ new.approved = None /\ new \in Proposal
      BY <1>0, <3>2, <3>3 DEF Proposal
    <3> QED
      BY <2>4, <3>1, <3>4 DEF ReplaceProposal
  <2> QED
    BY <2>1, <2>2, <2>3, <2>4 DEF Review
<1>2. /\ prop' = [new EXCEPT !.rv = @ + 1]
      /\ late' = [a \in Appliers |-> IF Authorises(prop', run[a]) THEN {} ELSE late[a]]
      /\ UNCHANGED <<live, version, run, attempt, touched>>
  BY <1>1 DEF WriteProposal
<1>3. PICK p : p = prop'
  OBVIOUS
<1>4. /\ p.rv = prop.rv + 1 /\ p.spec = new.spec /\ p.approved = new.approved /\ prop.rv \in Nat
      /\ p.approved \in {prop.approved, None, DigestOf[p.spec]}
  BY <1>0, <1>1, <1>2, <1>3 DEF Proposal
<1>5. ASSUME NEW a \in Appliers
      PROVE  Window(run[a], late'[a], p)
  <2> PICK r \in Run : r = run[a]
    BY RunFacts
  <2>0. Window(r, late[a], prop) /\ r.read.rv \in Nat
    BY RunTells, RunFacts DEF Proposal
  <2>1. /\ late'[a] \in {{}, late[a]}
        /\ late'[a] = IF Authorises(p, r) THEN {} ELSE late[a]
    BY <1>2, <1>3
  <2>2. Authorises(p, r) => late'[a] = {}
    BY <2>1
  <2>3. r.pc # "idle" => r.read.rv < p.rv
    BY <1>4, <2>0 DEF Window
  <2>4. None # Digest(r)
    BY ApplyConstants, DigestIsKnown
  <2>5. ASSUME r.pc = "status4", late'[a] # {}
        PROVE  ~r.pinned /\ (DigestOf[r.seen.spec] = Digest(r) => p.approved # Digest(r))
    <3>1. late'[a] = late[a] /\ ~Authorises(p, r)
      BY <2>1, <2>5
    <3>2. ~r.pinned /\ (DigestOf[r.seen.spec] = Digest(r) => prop.approved # Digest(r))
      BY <2>0, <2>5, <3>1 DEF Window
    <3>3. p.approved = DigestOf[p.spec] => p.approved # Digest(r)
      BY <3>1, <3>2 DEF Authorises
    <3> QED
      BY <1>4, <2>4, <3>2, <3>3
  <2>6. \A q, s \in late'[a] : q = s
    BY <2>0, <2>1 DEF Window
  <2>7. /\ r.pc \in Starting \cup {"before", "intent"} => late'[a] = {}
        /\ r.pc \in Dispatched => late'[a] \subseteq {Current(r)}
    BY <2>0, <2>1 DEF Window
  <2>8. r.pc # "idle" => r.read.rv =< p.rv /\ p.rv # r.read.rv
    BY <1>4, <2>0, <2>3
  <2> QED
    BY <2>2, <2>5, <2>6, <2>7, <2>8 DEF Window, Gated, Starting, Looping, Dispatched
<1>6. ASSUME NEW a \in Appliers
      PROVE  Telling(run[a], attempt[a], touched[a], late'[a], p, live, version)
  BY <1>5, RunTells DEF Telling
<1> QED
  BY <1>2, <1>3, <1>6 DEF Faithful
-----------------------------------------------------------------------------
(* The specification once more.                                            *)

\* The initial states satisfy the second invariant.
LEMMA InitFaithful == Init => Faithful
<1> SUFFICES ASSUME Init PROVE Faithful
  OBVIOUS
<1>1. WorldOK(live, version)
  BY DEF Init, WorldOK
<1>2. ASSUME NEW a \in Appliers
      PROVE  Telling(run[a], attempt[a], touched[a], late[a], prop, live, version)
  <2>1. run[a] = Fresh /\ attempt[a] = NoStatus /\ touched[a] = {} /\ late[a] = {}
    BY DEF Init
  <2>2. /\ Fresh.pc = "idle" /\ Fresh.status = NoStatus /\ Fresh.todo = Fresh.plan /\ ~Fresh.stale
    BY DEF Fresh
  <2>3. Ledger(Fresh, NoStatus)
    BY <2>2 DEF Ledger, Starting, Looping, Dispatched
  <2>4. Truthful(NoStatus, {})
    BY DEF Truthful, NoStatus
  <2>5. Owned(NoStatus, Digest(Fresh), live, version)
    BY DEF Owned, NoStatus, NoRecord
  <2>6. Shows(Fresh, {}, live, version) /\ Answered(Fresh, live, version)
    BY <2>2 DEF Shows, Answered, Open, Dispatched
  <2>7. Window(Fresh, {}, prop)
    BY <2>2 DEF Window, Gated, Starting, Looping, Dispatched
  <2> QED
    BY <2>1, <2>2, <2>3, <2>4, <2>5, <2>6, <2>7 DEF Telling
<1> QED
  BY <1>1, <1>2 DEF Faithful

\* Every step keeps the second invariant.
LEMMA NextFaithful == Inv /\ Faithful /\ [Next]_vars => Faithful'
<1> SUFFICES ASSUME Inv, Faithful, [Next]_vars PROVE Faithful'
  OBVIOUS
<1>1. ASSUME NEW a \in Appliers, Step(a)
      PROVE  Faithful'
  BY <1>1, GateTelling, CustodyWritesTelling, ReadinessTelling, MutationTelling DEF Step
<1>2. ASSUME NEW a \in Appliers, Die(a)
      PROVE  Faithful'
  BY <1>2, DieTelling
<1>3. ASSUME NEW o \in Artifacts, Others(o)
      PROVE  Faithful'
  BY <1>3, OthersTelling
<1>4. CASE Review
  BY <1>4, ReviewTelling
<1>5. CASE UNCHANGED vars
  BY <1>5 DEF vars, Faithful
<1> QED
  BY <1>1, <1>2, <1>3, <1>4, <1>5 DEF Next

\* What a run remembers, what its attempt records and what it did to the
\* cluster always agree.
THEOREM RunsAreFaithful == Spec => [](Inv /\ Faithful)
BY InitInv, NextInv, InitFaithful, NextFaithful, PTL DEF Spec

\* A finished ApplyAttempt tells the truth about the changes its run left,
\* and a version it claims as its own still holds its candidate, whatever
\* other runs, controllers and clients write and delete in between, whichever
\* requests fail or lose their answer and whenever the process dies.
THEOREM AttemptsTellTheTruth == Spec => []AttemptsTruthful
<1>1. Inv /\ Faithful => AttemptsTruthful
  <2> SUFFICES ASSUME Inv, Faithful PROVE AttemptsTruthful
    OBVIOUS
  <2>1. OutcomeTruthful
    BY RunTells DEF OutcomeTruthful, Truthful
  <2>2. AttributableIsOurs
    BY RunTells DEF AttributableIsOurs, Owned
  <2> QED
    BY <2>1, <2>2 DEF AttemptsTruthful
<1> QED
  BY <1>1, RunsAreFaithful, PTL

\* The same for the outcome alone.
THEOREM OutcomesAreTrue == Spec => []OutcomeTruthful
<1>1. AttemptsTruthful => OutcomeTruthful
  BY DEF AttemptsTruthful
<1> QED
  BY <1>1, AttemptsTellTheTruth, PTL

\* A run that has lost its authority changes at most one more live object,
\* however many artifacts, retries and reviewers there are.
THEOREM LateMutationsAreBounded == Spec => []LateMutationBounded
<1>1. Inv /\ Faithful => LateMutationBounded
  <2> SUFFICES ASSUME Inv, Faithful, NEW a \in Appliers
               PROVE  Cardinality(late[a]) =< 1
    BY DEF LateMutationBounded
  <2>1. \A o, q \in late[a] : o = q
    BY RunTells DEF Window
  <2>2. CASE late[a] = {}
    BY <2>2, FS_EmptySet
  <2>3. CASE late[a] # {}
    <3>1. PICK o : o \in late[a]
      BY <2>3
    <3>2. late[a] = {o}
      BY <2>1, <3>1
    <3>3. Cardinality({o}) = 1
      BY FS_Singleton
    <3> QED
      BY <3>2, <3>3
  <2> QED
    BY <2>2, <2>3
<1> QED
  BY <1>1, RunsAreFaithful, PTL

\* A run changes an object only as its current artifact, at a moment when
\* every planned artifact of a lower class is durably recorded as succeeded
\* and nothing else is open.
THEOREM ArtifactsInOrder == Spec => DependencyOrder
<1> DEFINE Ordered ==
        \A a \in Appliers, o \in Artifacts : Changes(a, o) =>
            /\ \A q \in run[a].plan :
                  applyClassFor(q) < applyClassFor(o) => q \in Succeeded(attempt[a])
            /\ Recorded(attempt[a]) \ {o} \subseteq Succeeded(attempt[a])
<1>1. Inv /\ Faithful /\ [Next]_vars => [Ordered]_vars
  <2> SUFFICES ASSUME Inv, Faithful, [Next]_vars, NEW a \in Appliers, NEW o \in Artifacts,
                      Changes(a, o)
               PROVE  /\ \A q \in run[a].plan :
                            applyClassFor(q) < applyClassFor(o) => q \in Succeeded(attempt[a])
                      /\ Recorded(attempt[a]) \ {o} \subseteq Succeeded(attempt[a])
    OBVIOUS
  <2> PICK r \in Run : r = run[a]
    BY RunFacts
  <2>1. run' # run /\ live' # live
    BY DEF Changes
  <2>2. r.pc \in Dispatched /\ o = Current(r)
    <3>1. PICK b \in Appliers : Step(b) \/ Die(b)
      BY <2>1 DEF Next, vars, Others, ExternalWrite, ExternalTouch, ExternalCreate, ExternalDelete,
                  Edit, Reconcile, PodGone, Review, SaveProposal, Approve, Reject,
                  ReplaceProposal, WriteProposal
    <3>2. \/ WriteLive(b) \/ DeletePod(b) \/ CreatePod(b)
      <4>1. ~Gate(b)
        BY <2>1 DEF Gate, StartRun, Preflight, ReReadSpec, Revalidate, ReadSpecBeforeBinding,
                    revalidateBeforeBinding, ReadSpecBeforeMutation,
                    revalidateAttemptBeforeMutation, ReadSpec, ReadStatus, Cluster
      <4>2. ~Custody(b)
        BY <2>1 DEF Custody, CreateAttempt, BeginAttempt, PersistIntent, PersistResult,
                    PersistLast, SaveStatus, Cluster
      <4>3. ~Readiness(b)
        BY <2>1 DEF Readiness, waitForEnforcementReady, validatePodLockBeforeBinding, Cluster
      <4>4. ~(\/ ReadBefore(b) \/ GetBeforeMutation(b) \/ Refetch(b) \/ waitForDynamicPodGone(b)
              \/ ObserveSuccess(b) \/ ObserveFailure(b) \/ Die(b))
        BY <2>1 DEF ReadBefore, GetBeforeMutation, Refetch, Rejected, waitForDynamicPodGone,
                    ObserveSuccess, ObserveFailure, Die, Cluster
      <4> QED
        BY <3>1, <4>1, <4>2, <4>3, <4>4 DEF Step, Mutation
    <3>3. run[b].pc \in Dispatched
      BY <3>2 DEF WriteLive, DeletePod, CreatePod, At, Dispatched
    <3>4. PICK obj, next : Landed(b, Current(run[b]), obj, next)
      BY <2>1, <3>2 DEF WriteLive, DeletePod, CreatePod, Rejected, Cluster
    <3>5. /\ \A x \in Artifacts : x # Current(run[b]) => live'[x] = live[x]
          /\ \A x \in Appliers : x # b => run'[x] = run[x]
      <4>1. live \in [Artifacts -> Object] /\ run \in [Appliers -> Run]
        BY DEF Inv, Rest, PerRun
      <4> QED
        BY <3>4, <4>1 DEF Landed, Store, Become
    <3>6. b = a /\ o = Current(run[b])
      BY <3>5 DEF Changes
    <3> QED
      BY <3>3, <3>6
  <2>3. r.pc \in Looping
    BY <2>2 DEF Looping
  <2>4. /\ Recorded(attempt[a]) \subseteq (r.plan \ r.todo) \cup {o}
        /\ r.plan \ r.todo \subseteq Succeeded(attempt[a])
    BY <2>2, <2>3, RunTells DEF Ledger
  <2>5. \A q \in r.todo : applyClassFor(o) =< applyClassFor(q)
    BY <2>2, <2>3, RunFacts, CurrentIsLeast DEF Good
  <2>6. ASSUME NEW q \in r.plan, applyClassFor(q) < applyClassFor(o)
        PROVE  q \in Succeeded(attempt[a])
    <3>1. applyClassFor(q) \in Nat /\ applyClassFor(o) \in Nat
      BY DEF applyClassFor
    <3>2. q \notin r.todo
      BY <2>5, <2>6, <3>1
    <3> QED
      BY <2>4, <3>2
  <2> QED
    BY <2>4, <2>6
<1> QED
  BY <1>1, RunsAreFaithful, PTL DEF Spec, DependencyOrder

==============================================================================
