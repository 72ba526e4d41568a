---------------------- MODULE ObservationExecutionProofs ----------------------
(***************************************************************************)
(* Proofs about ObservationExecution, for any number of observations,      *)
(* executors and operators and with no bound on faults or renewals.        *)
(*                                                                         *)
(* The first part has the types, the inductive invariant Inv and what      *)
(* follows from it.  The second shows that ObservationExecution implements *)
(* ObservationLifecycle, and that the outcomes it records are supported by *)
(* the record: Sync, an inductive invariant on top of Inv, says of every   *)
(* engaged Runner what the record looks like at its place in the program,  *)
(* and of every pending write that is not stale exactly which domain       *)
(* operation of the present record it is.  A third one, Health, shows that *)
(* executors which are left alone do not lose their runs to each other.    *)
(***************************************************************************)
EXTENDS ObservationExecution, TLAPS

------------------------------------------------------------------------------
(* Types                                                                    *)

\* The domain operations map documents to documents.
LEMMA DocumentOps ==
    ASSUME NEW d \in Document
    PROVE  /\ Bind(d) \in Document
           /\ ExecutorLost(d) \in Document
           /\ RequestStop(d) \in Document
           /\ \A e \in Executors : Claimed(d, e) \in Document
           /\ \A stage \in FailureStage \cup {None} : RecordFailure(d, stage) \in Document
           /\ \A a \in AttributionState : RecordSourceResult(d, a) \in Document
           /\ \A c \in BOOLEAN : AppendTargetChange(d, c) \in Document
           /\ \A s \in ExecutionState, reason \in CompletionReason \cup {None} :
                Transition(d, s, reason) \in Document
<1>1. Bind(d) \in Document  BY DEF Bind, Document
<1>2. ExecutorLost(d) \in Document
  BY DEF ExecutorLost, Document, ExecutionState, CompletionReason, FailureStage
<1>3. RequestStop(d) \in Document  BY DEF RequestStop, Document, StopIntent
<1>4. ASSUME NEW e \in Executors  PROVE Claimed(d, e) \in Document
  <2>1. d.claim.generation \in Nat  BY DEF Document, Claim
  <2>2. Transition(d, "STARTING", None) \in Document
    BY DEF Transition, Document, ExecutionState, Terminal
  <2>3. [executor |-> e, generation |-> d.claim.generation + 1] \in Claim
    BY <2>1 DEF Claim
  <2> QED  BY <2>2, <2>3 DEF Claimed, Document
<1>5. \A stage \in FailureStage \cup {None} : RecordFailure(d, stage) \in Document
  BY DEF RecordFailure, Document
<1>6. \A a \in AttributionState : RecordSourceResult(d, a) \in Document
  BY DEF RecordSourceResult, Document
<1>7. \A c \in BOOLEAN : AppendTargetChange(d, c) \in Document
  BY DEF AppendTargetChange, Document
<1>8. \A s \in ExecutionState, reason \in CompletionReason \cup {None} :
        Transition(d, s, reason) \in Document
  BY ZenonT(60) DEF Transition, Document
<1> QED  BY <1>1, <1>2, <1>3, <1>4, <1>5, <1>6, <1>7, <1>8

\* The constant records have their types.
LEMMA ConstantTypes ==
    /\ NoClaim \in Claim
    /\ Absent \in Document
    /\ NewObservation \in Document
    /\ Idle \in RunState
    /\ NoRenewal \in LeaseState
    /\ NoRequest \in RequestState
<1>1. NoClaim \in Claim  BY DEF NoClaim, Claim
<1>2. NoStop \in StopIntent  BY <1>1 DEF NoStop, StopIntent
<1>3. Absent \in Document  BY <1>1, <1>2 DEF Absent, Document
<1>4. NewObservation \in Document  BY <1>3 DEF NewObservation, Document, ExecutionState
<1>5. Idle \in RunState  BY <1>1, <1>3 DEF Idle, RunState, PC, Unclaimed
<1>6. NoRenewal \in LeaseState  BY <1>3 DEF NoRenewal, LeaseState
<1>7. NoRequest \in RequestState  BY <1>3 DEF NoRequest, RequestState
<1> QED  BY <1>1, <1>3, <1>4, <1>5, <1>6, <1>7

------------------------------------------------------------------------------
(* The inductive invariant.  Its heart is Pending: a write that a process  *)
(* is about to attempt was computed from an older read, and either the     *)
(* record has moved on since, and the write will be refused, or the write  *)
(* is a legal successor of the record as it is now.                        *)

\* A document is consistent by itself.
DocOK(d) ==
    /\ d.state = "ABSENT" => d = Absent
    /\ ~Frozen(d) => d.completion = None
    /\ d.claim.executor = Nobody => d.claim = NoClaim
    /\ d.claim # NoClaim => d.state \notin {"ABSENT", "REQUESTED"}

\* Writing d over the present record of o loses nothing that must survive.
WriteOK(o, d) ==
    /\ d \in Document /\ DocOK(d) /\ d.state # "ABSENT"
    /\ ~Frozen(rec[o])
    /\ rec[o].claim # NoClaim => d.claim = rec[o].claim
    /\ rec[o].stop.requested => d.stop = rec[o].stop
    /\ d.completion = "EXECUTOR_LOST" => expired[o]

Pending(o, held, d) == held <= rv[o] /\ (held = rv[o] => WriteOK(o, d))

RunOK(e, r) ==
    /\ r.pc # "idle" => r.obs \in Observations
    /\ r.granted => r.pc \in Ops
    /\ r.reason # "EXECUTOR_LOST"
    /\ r.pc \in {"recoverCAS", "claimCAS"} \cup UpdateOps \/ r.granted
        => Pending(r.obs, r.held, r.doc)
    /\ r.pc = "claimCAS" => r.doc.claim.executor = e
    /\ r.pc = "load" => r.held <= rv[r.obs]
    /\ r.pc \notin Unclaimed => r.claim.executor = e /\ rec[r.obs].claim = r.claim
    /\ r.seen \/ r.stop =>
        /\ r.pc \notin Unclaimed
        /\ rec[r.obs].stop.requested /\ rec[r.obs].stop.fence \in {NoClaim, r.claim}

LeaseOK(r, l) ==
    /\ l.pc # "off" => r.pc \in {"window", "drain"}
    /\ l.pc = "cas" => Pending(r.obs, l.held, l.doc)

ReqOK(q) == q.pc = "cas" => q.obs \in Observations /\ Pending(q.obs, q.held, q.doc)

Inv ==
    /\ TypeOK
    /\ \A o \in Observations : DocOK(rec[o])
    /\ \A e \in Executors : RunOK(e, run[e]) /\ LeaseOK(run[e], lease[e])
    /\ \A q \in Requesters : ReqOK(req[q])

\* A step that leaves the store alone keeps what other processes know.
LEMMA StoreQuiet ==
    ASSUME NEW e, NEW r, NEW l, NEW q, UNCHANGED <<rec, rv, expired>>
    PROVE  /\ RunOK(e, r) => RunOK(e, r)'
           /\ LeaseOK(r, l) => LeaseOK(r, l)'
           /\ ReqOK(q) => ReqOK(q)'
BY DEF RunOK, LeaseOK, ReqOK, Pending, WriteOK

\* A write of a legal successor keeps what every other process knows: its
\* own pending write, if any, has become stale and will be refused.
LEMMA StorePut ==
    ASSUME TypeOK, NEW o \in Observations, NEW d, WriteOK(o, d), Put(o, d),
           \A x \in Observations \ {o} : expired'[x] = expired[x],
           NEW e \in Executors, NEW r \in RunState, NEW l \in LeaseState,
           NEW q \in RequestState, RunOK(e, r), LeaseOK(r, l), ReqOK(q)
    PROVE  RunOK(e, r)' /\ LeaseOK(r, l)' /\ ReqOK(q)'
<1>1. ASSUME NEW x \in Observations, NEW held \in Nat, NEW doc, Pending(x, held, doc)
      PROVE  Pending(x, held, doc)'
  <2>1. rv[o] \in Nat  BY DEF TypeOK
  <2>2. CASE x = o
    <3>1. rv'[x] = rv[o] + 1  BY <2>2 DEF Put, TypeOK
    <3> QED  BY <1>1, <2>1, <2>2, <3>1 DEF Pending
  <2>3. CASE x # o
    <3>1. rv'[x] = rv[x] /\ rec'[x] = rec[x] /\ expired'[x] = expired[x]
      BY <2>3 DEF Put, TypeOK
    <3> QED  BY <1>1, <3>1 DEF Pending, WriteOK
  <2> QED  BY <2>2, <2>3
<1>2. ASSUME NEW x \in Observations
      PROVE  /\ \A n \in Nat : n <= rv[x] => n <= rv'[x]
             /\ rec[x].claim # NoClaim => rec'[x].claim = rec[x].claim
             /\ rec[x].stop.requested => rec'[x].stop = rec[x].stop
  <2>1. rv[x] \in Nat  BY DEF TypeOK
  <2>2. rv'[x] = IF x = o THEN rv[x] + 1 ELSE rv[x]  BY DEF Put, TypeOK
  <2>3. rec'[x] = IF x = o THEN d ELSE rec[x]  BY DEF Put, TypeOK
  <2> QED  BY <2>1, <2>2, <2>3 DEF WriteOK
<1>3. RunOK(e, r)'
  <2>1. r.held \in Nat /\ r.claim \in Claim  BY DEF RunState
  <2>2. CASE r.pc = "idle"
    BY <2>2 DEF RunOK, Unclaimed, UpdateOps, Ops, TransitionOps
  <2>3. CASE r.pc # "idle"
    <3>1. r.obs \in Observations  BY <2>3 DEF RunOK
    <3>2. r.pc \notin Unclaimed => rec[r.obs].claim # NoClaim
      BY NobodyAssumption DEF RunOK, NoClaim
    <3> QED  BY <1>1, <1>2, <2>1, <3>1, <3>2 DEF RunOK
  <2> QED  BY <2>2, <2>3
<1>4. LeaseOK(r, l)'
  <2>1. l.held \in Nat  BY DEF LeaseState
  <2>2. l.pc = "cas" => r.obs \in Observations  BY DEF LeaseOK, RunOK
  <2> QED  BY <1>1, <2>1, <2>2 DEF LeaseOK
<1>5. ReqOK(q)'
  BY <1>1 DEF ReqOK, RequestState
<1> QED  BY <1>3, <1>4, <1>5

------------------------------------------------------------------------------
(* Two shapes of executor step                                              *)

Processes == {"up", "stopping", "down"}

\* An executor moves and the store does not.
LEMMA QuietStep ==
    ASSUME Inv, NEW e \in Executors, NEW r \in RunState, NEW l \in LeaseState,
           RunOK(e, r), LeaseOK(r, l),
           run' = [run EXCEPT ![e] = r], lease' = [lease EXCEPT ![e] = l],
           UNCHANGED <<rec, rv, expired, req>>,
           proc' \in [Executors -> Processes], faults' \in Nat
    PROVE  Inv'
<1>1. TypeOK'  BY DEF Inv, TypeOK, Processes
<1>2. \A o \in Observations : DocOK(rec[o])'  BY DEF Inv
<1>3. ASSUME NEW x \in Executors  PROVE (RunOK(x, run[x]) /\ LeaseOK(run[x], lease[x]))'
  <2>1. CASE x = e
    <3>1. run'[x] = r /\ lease'[x] = l  BY <2>1 DEF Inv, TypeOK
    <3>2. RunOK(e, r)' /\ LeaseOK(r, l)'  BY StoreQuiet
    <3> QED  BY <2>1, <3>1, <3>2 DEF RunOK, LeaseOK, Pending, WriteOK
  <2>2. CASE x # e
    <3>1. run'[x] = run[x] /\ lease'[x] = lease[x]  BY <2>2 DEF Inv, TypeOK
    <3>2. RunOK(x, run[x]) /\ LeaseOK(run[x], lease[x])  BY DEF Inv
    <3> QED  BY SMTT(120), <3>1, <3>2 DEF RunOK, LeaseOK, Pending, WriteOK
  <2> QED  BY <2>1, <2>2
<1>4. ASSUME NEW q \in Requesters  PROVE ReqOK(req[q])'
  <2>1. ReqOK(req[q])  BY DEF Inv
  <2> QED  BY <2>1 DEF ReqOK, Pending, WriteOK
<1> QED  BY <1>1, <1>2, <1>3, <1>4 DEF Inv

\* The processes that do not move when a legal write lands.
LEMMA OthersAfterPut ==
    ASSUME Inv, NEW o \in Observations, NEW d, WriteOK(o, d), Put(o, d),
           \A x \in Observations \ {o} : expired'[x] = expired[x]
    PROVE  /\ \A x \in Observations : DocOK(rec[x])'
           /\ \A x \in Executors : run'[x] = run[x] /\ lease'[x] = lease[x] =>
                (RunOK(x, run[x]) /\ LeaseOK(run[x], lease[x]))'
           /\ \A q \in Requesters : req'[q] = req[q] => ReqOK(req[q])'
<1>1. \A x \in Observations : DocOK(rec[x])'
  <2>1. \A x \in Observations : rec'[x] = IF x = o THEN d ELSE rec[x]
    BY DEF Inv, TypeOK, Put
  <2> QED  BY <2>1 DEF Inv, WriteOK
<1>2. ASSUME NEW x \in Executors, run'[x] = run[x], lease'[x] = lease[x]
      PROVE  (RunOK(x, run[x]) /\ LeaseOK(run[x], lease[x]))'
  <2>1. PICK r \in RunState, l \in LeaseState : r = run[x] /\ l = lease[x]
    BY DEF Inv, TypeOK
  <2>2. RunOK(x, r) /\ LeaseOK(r, l)
    BY <2>1 DEF Inv, RunOK, LeaseOK, Pending, WriteOK
  <2>3. NoRequest \in RequestState /\ ReqOK(NoRequest)
    BY ConstantTypes DEF ReqOK, NoRequest
  <2>4. RunOK(x, r)' /\ LeaseOK(r, l)'
    BY <2>2, <2>3, StorePut DEF Inv
  <2>5. run'[x] = r /\ lease'[x] = l  BY <1>2, <2>1
  <2> QED  BY <2>4, <2>5 DEF RunOK, LeaseOK, Pending, WriteOK
<1>3. ASSUME NEW q \in Requesters, req'[q] = req[q]  PROVE ReqOK(req[q])'
  <2>1. req[q] \in RequestState /\ ReqOK(req[q])  BY DEF Inv, TypeOK
  <2>2. req[q].pc = "cas" => /\ req[q].obs \in Observations /\ req[q].held \in Nat
                             /\ Pending(req[q].obs, req[q].held, req[q].doc)
    BY <2>1 DEF ReqOK, RequestState
  <2>3. rv[o] \in Nat /\ \A x \in Observations : rv'[x] = IF x = o THEN rv[o] + 1 ELSE rv[x]
    BY DEF Inv, TypeOK, Put
  <2>4. \A x \in Observations \ {o} : rec'[x] = rec[x]
    BY DEF Inv, TypeOK, Put
  <2> QED  BY <1>3, <2>2, <2>3, <2>4 DEF ReqOK, Pending, WriteOK
<1> QED  BY <1>1, <1>2, <1>3

\* An executor's write lands.
LEMMA PutStep ==
    ASSUME Inv, NEW o \in Observations, NEW d, WriteOK(o, d), Put(o, d),
           expired' \in [Observations -> BOOLEAN],
           \A x \in Observations \ {o} : expired'[x] = expired[x],
           NEW e \in Executors, NEW r \in RunState, NEW l \in LeaseState,
           RunOK(e, r)', LeaseOK(r, l)',
           run' = [run EXCEPT ![e] = r], lease' = [lease EXCEPT ![e] = l],
           UNCHANGED req, proc' \in [Executors -> Processes], faults' \in Nat
    PROVE  Inv'
<1>1. TypeOK'
  <2>1. rec' \in [Observations -> Document]  BY DEF Inv, TypeOK, Put, WriteOK
  <2>2. rv' \in [Observations -> Nat]
    <3>1. rv \in [Observations -> Nat] /\ rv[o] + 1 \in Nat  BY DEF Inv, TypeOK
    <3> QED  BY <3>1 DEF Put
  <2> QED  BY <2>1, <2>2 DEF Inv, TypeOK, Processes
<1>2. ASSUME NEW x \in Executors  PROVE (RunOK(x, run[x]) /\ LeaseOK(run[x], lease[x]))'
  <2>1. CASE x = e
    <3>1. run'[x] = r /\ lease'[x] = l  BY <2>1 DEF Inv, TypeOK
    <3> QED  BY <2>1, <3>1 DEF RunOK, LeaseOK, Pending, WriteOK
  <2>2. CASE x # e
    <3>1. run'[x] = run[x] /\ lease'[x] = lease[x]  BY <2>2 DEF Inv, TypeOK
    <3> QED  BY <3>1, OthersAfterPut
  <2> QED  BY <2>1, <2>2
<1> QED  BY <1>1, <1>2, OthersAfterPut DEF Inv

------------------------------------------------------------------------------
(* Preservation, action by action                                           *)

\* Nothing is expected of an idle executor.
LEMMA IdleOK ==
    ASSUME NEW e \in Executors, NEW l \in LeaseState, l.pc = "off"
    PROVE  RunOK(e, Idle) /\ LeaseOK(Idle, l)
BY DEF RunOK, LeaseOK, Idle, Unclaimed, UpdateOps, TransitionOps, Ops, None

\* The Runner moves; neither the store nor the renewer does.
LEMMA LocalStep ==
    ASSUME Inv, NEW e \in Executors, NEW r \in RunState,
           RunOK(e, r), LeaseOK(r, lease[e]),
           Goto(e, r), UNCHANGED <<rec, rv, expired, lease, req>>,
           proc' \in [Executors -> Processes], faults' \in Nat
    PROVE  Inv'
<1>1. PICK l \in LeaseState : l = lease[e]  BY DEF Inv, TypeOK
<1>2. lease' = [lease EXCEPT ![e] = l]  BY <1>1 DEF Inv, TypeOK
<1>3. LeaseOK(r, l)  BY <1>1 DEF LeaseOK, Pending, WriteOK
<1> QED  BY <1>2, <1>3, QuietStep DEF Goto

\* What every action may use about the executor that takes it.
LEMMA Facts ==
    ASSUME Inv, NEW e \in Executors
    PROVE  /\ run[e] \in RunState /\ lease[e] \in LeaseState
           /\ RunOK(e, run[e]) /\ LeaseOK(run[e], lease[e])
           /\ run[e].pc \notin {"window", "drain"} => lease[e].pc = "off"
           /\ run[e].pc # "idle" =>
                /\ run[e].obs \in Observations
                /\ rec[run[e].obs] \in Document /\ DocOK(rec[run[e].obs])
                /\ rv[run[e].obs] \in Nat
           /\ proc \in [Executors -> Processes]
           /\ faults \in Nat
BY DEF Inv, TypeOK, Processes, RunOK, LeaseOK

\* A document that may be written over the record it was computed from.
LEMMA Successors ==
    ASSUME NEW o \in Observations, rec[o] \in Document, DocOK(rec[o]),
           ~Frozen(rec[o]), rec[o].state # "ABSENT"
    PROVE  /\ WriteOK(o, rec[o])
           /\ WriteOK(o, Bind(rec[o]))
           /\ \A stage \in FailureStage \cup {None} : WriteOK(o, RecordFailure(rec[o], stage))
           /\ \A a \in AttributionState : WriteOK(o, RecordSourceResult(rec[o], a))
           /\ \A a \in AttributionState, c \in BOOLEAN :
                WriteOK(o, RecordSourceResult(AppendTargetChange(rec[o], c), a))
           /\ ~rec[o].stop.requested => WriteOK(o, RequestStop(rec[o]))
           /\ rec[o].claim # NoClaim /\ expired[o] => WriteOK(o, ExecutorLost(rec[o]))
<1>1. PICK d \in Document : d = rec[o]  OBVIOUS
<1>2. /\ DocOK(d) /\ ~Frozen(d) /\ d.state # "ABSENT"
      /\ d.completion = None /\ None # "EXECUTOR_LOST"
  BY <1>1 DEF DocOK, None
<1>3. ASSUME NEW x \in Document, x.state = d.state, x.completion = d.completion,
             x.claim = d.claim, d.stop.requested => x.stop = d.stop
      PROVE  WriteOK(o, x)
  BY <1>1, <1>2, <1>3 DEF WriteOK, DocOK, Frozen
<1>4. WriteOK(o, d) /\ WriteOK(o, Bind(d))
  BY <1>3, DocumentOps DEF Bind, Document
<1>5. ASSUME NEW stage \in FailureStage \cup {None}
      PROVE  WriteOK(o, RecordFailure(d, stage))
  <2>1. PICK x \in Document : x = RecordFailure(d, stage)  BY DocumentOps
  <2>2. x.state = d.state /\ x.completion = d.completion /\ x.claim = d.claim /\ x.stop = d.stop
    BY <2>1 DEF RecordFailure, Document
  <2> QED  BY <1>3, <2>1, <2>2
<1>6. ASSUME NEW x \in Document, NEW a \in AttributionState
      PROVE  /\ RecordSourceResult(x, a) \in Document
             /\ RecordSourceResult(x, a).state = x.state
             /\ RecordSourceResult(x, a).completion = x.completion
             /\ RecordSourceResult(x, a).claim = x.claim
             /\ RecordSourceResult(x, a).stop = x.stop
  BY ZenonT(60), DocumentOps DEF RecordSourceResult, Document
<1>7. ASSUME NEW a \in AttributionState
      PROVE  WriteOK(o, RecordSourceResult(d, a))
  BY <1>3, <1>6
<1>8. ASSUME NEW a \in AttributionState, NEW c \in BOOLEAN
      PROVE  WriteOK(o, RecordSourceResult(AppendTargetChange(d, c), a))
  <2>1. PICK x \in Document : x = AppendTargetChange(d, c)  BY DocumentOps
  <2>2. x.state = d.state /\ x.completion = d.completion /\ x.claim = d.claim /\ x.stop = d.stop
    BY <2>1 DEF AppendTargetChange, Document
  <2> QED  BY <1>3, <1>6, <2>1, <2>2
<1>9. ASSUME ~d.stop.requested  PROVE WriteOK(o, RequestStop(d))
  BY <1>3, <1>9, DocumentOps DEF RequestStop, Document
<1>10. ASSUME d.claim # NoClaim, expired[o]  PROVE WriteOK(o, ExecutorLost(d))
  <2>1. PICK x \in Document : x = ExecutorLost(d)  BY DocumentOps
  <2>2. x.state = "FAILED" /\ x.claim = d.claim /\ x.stop = d.stop
    BY <2>1 DEF ExecutorLost, Document
  <2>3. WriteOK(o, x)
    BY <1>1, <1>2, <1>10, <2>2 DEF WriteOK, DocOK, Frozen, Terminal
  <2> QED  BY <2>1, <2>3
<1> QED  BY <1>1, <1>4, <1>5, <1>7, <1>8, <1>9, <1>10

\* The scan of an idle worker.
LEMMA ScanKeeps ==
    ASSUME Inv, NEW e \in Executors, Scan(e)
    PROVE  Inv'
<1>1. PICK o \in Observations : RecoverRead(e, o) \/ Start(e, o)  BY DEF Scan
<1>2. rec[o] \in Document /\ DocOK(rec[o]) /\ rv[o] \in Nat  BY DEF Inv, TypeOK
<1>3. run[e].pc = "idle" => lease[e].pc = "off" /\ lease[e] \in LeaseState  BY Facts
<1>4. proc \in [Executors -> Processes] /\ faults \in Nat  BY Facts
<1>5. CASE RecoverRead(e, o)
  <2>1. PICK x \in Document : x = ExecutorLost(rec[o])  BY <1>2, DocumentOps
  <2>2. PICK r : r = [Idle EXCEPT !.pc = "recoverCAS", !.obs = o, !.held = rv[o], !.doc = x]
    OBVIOUS
  <2>3. r \in RunState  BY <1>2, <2>1, <2>2, ConstantTypes DEF RunState, PC, Unclaimed
  <2>4. /\ ~Frozen(rec[o]) /\ rec[o].state # "ABSENT" /\ expired[o]
        /\ rec[o].claim # NoClaim
    BY <1>5 DEF RecoverRead, Listed, RecoveryEligible, LeaseLive, NoClaim
  <2>5. WriteOK(o, x)  BY <1>2, <2>1, <2>4, Successors
  <2>6. RunOK(e, r)
    BY <1>2, <2>2, <2>5 DEF RunOK, Pending, Idle, Unclaimed, UpdateOps, TransitionOps, Ops, None
  <2>7. LeaseOK(r, lease[e])  BY <1>3, <1>5 DEF LeaseOK, RecoverRead
  <2> QED  BY <1>4, <1>5, <2>1, <2>2, <2>3, <2>6, <2>7, LocalStep DEF RecoverRead
<1>6. CASE Start(e, o)
  <2>1. PICK r : r = [Idle EXCEPT !.pc = "claim", !.obs = o]  OBVIOUS
  <2>2. r \in RunState  BY <2>1, ConstantTypes DEF RunState, PC, Unclaimed
  <2>3. RunOK(e, r)
    BY <2>1 DEF RunOK, Idle, Unclaimed, UpdateOps, TransitionOps, Ops, None
  <2>4. LeaseOK(r, lease[e])  BY <1>3, <1>6 DEF LeaseOK, Start
  <2> QED  BY <1>4, <1>6, <2>1, <2>2, <2>3, <2>4, LocalStep DEF Start
<1> QED  BY <1>1, <1>5, <1>6

\* A Runner that gives up without having written.
LEMMA GiveUp ==
    ASSUME Inv, NEW e \in Executors, run[e].pc \notin {"window", "drain"},
           Goto(e, Idle), UNCHANGED <<rec, rv, expired, lease, req>>,
           proc' \in [Executors -> Processes], faults' \in Nat
    PROVE  Inv'
BY Facts, IdleOK, ConstantTypes, LocalStep

\* Faults are counted.
LEMMA FaultType == ASSUME faults \in Nat, Fault PROVE faults' \in Nat
BY DEF Fault

\* A claim is prepared from a REQUESTED record that nobody holds.
LEMMA ClaimReadKeeps ==
    ASSUME Inv, NEW e \in Executors, ClaimRead(e)
    PROVE  Inv'
<1>1. PICK o \in Observations : o = run[e].obs  BY Facts DEF ClaimRead
<1>2. rec[o] \in Document /\ DocOK(rec[o]) /\ rv[o] \in Nat  BY DEF Inv, TypeOK
<1>3. proc' \in [Executors -> Processes] /\ faults' \in Nat
  BY Facts, FaultType DEF ClaimRead
<1>4. CASE Goto(e, Idle)  BY <1>3, <1>4, GiveUp DEF ClaimRead
<1>5. CASE /\ Claimable(o)
           /\ Goto(e, [run[e] EXCEPT !.pc = "claimCAS", !.held = rv[o],
                                     !.doc = Claimed(rec[o], e)])
  <2>1. PICK x \in Document : x = Claimed(rec[o], e)  BY <1>2, DocumentOps
  <2>2. PICK r : r = [run[e] EXCEPT !.pc = "claimCAS", !.held = rv[o], !.doc = x]
    OBVIOUS
  <2>3. r \in RunState  BY ZenonT(60), <1>2, <2>1, <2>2, Facts DEF RunState, PC, Unclaimed
  <2>4. /\ rec[o].state = "REQUESTED" /\ rec[o].claim = NoClaim
        /\ rec[o].completion = None
    BY <1>2, <1>5 DEF Claimable, DocOK, Frozen, Terminal
  <2>5. /\ x.state = "STARTING" /\ x.completion = None /\ x.stop = rec[o].stop
        /\ x.claim.executor = e
    <3>1. PICK y \in Document : y = Transition(rec[o], "STARTING", None)
      BY <1>2, DocumentOps DEF ExecutionState
    <3>2. y.state = "STARTING" /\ y.completion = rec[o].completion /\ y.stop = rec[o].stop
      BY <1>2, <3>1 DEF Transition, Document, Terminal
    <3> QED  BY <2>1, <2>4, <3>1, <3>2 DEF Claimed, Document
  <2>6. WriteOK(o, x)
    BY <2>4, <2>5, NobodyAssumption DEF WriteOK, DocOK, Frozen, Terminal, None
  <2>7. RunOK(e, r)
    BY SMTT(30), <1>1, <1>2, <2>2, <2>5, <2>6, Facts
    DEF RunOK, Pending, ClaimRead, Unclaimed, UpdateOps, TransitionOps, Ops, RunState
  <2>8. LeaseOK(r, lease[e])  BY Facts DEF LeaseOK, ClaimRead
  <2> QED  BY <1>3, <1>5, <2>1, <2>2, <2>3, <2>7, <2>8, LocalStep DEF ClaimRead
<1> QED  BY <1>1, <1>4, <1>5 DEF ClaimRead

\* A write that lands and after which the executor is idle.
LEMMA LastPut ==
    ASSUME Inv, NEW e \in Executors, run[e].pc \notin {"idle", "window", "drain"},
           Pending(run[e].obs, run[e].held, run[e].doc),
           Matches(run[e].obs, run[e].held), Put(run[e].obs, run[e].doc),
           expired' \in [Observations -> BOOLEAN],
           \A x \in Observations \ {run[e].obs} : expired'[x] = expired[x],
           Goto(e, Idle), UNCHANGED <<lease, req>>,
           proc' \in [Executors -> Processes], faults' \in Nat
    PROVE  Inv'
<1>1. PICK o \in Observations, d \in Document : o = run[e].obs /\ d = run[e].doc
  BY Facts DEF RunState
<1>2. WriteOK(o, d)  BY <1>1 DEF Pending, Matches
<1>3. PICK l \in LeaseState : l = lease[e]  BY Facts
<1>4. l.pc = "off"  BY <1>3, Facts
<1>5. lease' = [lease EXCEPT ![e] = l]  BY <1>3 DEF Inv, TypeOK
<1>6. RunOK(e, Idle)' /\ LeaseOK(Idle, l)'
  BY <1>4 DEF RunOK, LeaseOK, Idle, Unclaimed, UpdateOps, TransitionOps, Ops, None
<1>7. Idle \in RunState  BY ConstantTypes
<1>8. Put(o, d)  BY <1>1
<1> QED  BY <1>1, <1>2, <1>5, <1>6, <1>7, <1>8, PutStep DEF Goto

\* Recovery writes, or finds that the record has moved.
LEMMA RecoverWriteKeeps ==
    ASSUME Inv, NEW e \in Executors, RecoverWrite(e)
    PROVE  Inv'
<1>1. /\ run[e].pc = "recoverCAS" /\ Goto(e, Idle) /\ UNCHANGED <<expired, lease, req>>
      /\ expired \in [Observations -> BOOLEAN]
      /\ proc' \in [Executors -> Processes] /\ faults' \in Nat
  BY Facts, FaultType DEF RecoverWrite, Inv, TypeOK, Processes
<1>2. Pending(run[e].obs, run[e].held, run[e].doc)  BY <1>1, Facts DEF RunOK
<1>3. CASE Matches(run[e].obs, run[e].held) /\ Put(run[e].obs, run[e].doc)
  BY <1>1, <1>2, <1>3, LastPut
<1>4. CASE UNCHANGED <<rec, rv>>  BY <1>1, <1>4, GiveUp
<1> QED  BY <1>3, <1>4 DEF RecoverWrite, Uncertain

\* The winner of a claim holds it in the record; a loser is idle again.
LEMMA ClaimWriteKeeps ==
    ASSUME Inv, NEW e \in Executors, ClaimWrite(e)
    PROVE  Inv'
<1>1. PICK o \in Observations, d \in Document : o = run[e].obs /\ d = run[e].doc
  BY Facts DEF ClaimWrite, RunState
<1>2. /\ run[e].pc = "claimCAS" /\ UNCHANGED <<proc, lease, req>>
      /\ Pending(o, run[e].held, d) /\ d.claim.executor = e
      /\ proc' \in [Executors -> Processes] /\ faults' \in Nat
      /\ rv[o] \in Nat /\ expired \in [Observations -> BOOLEAN]
  BY SMTT(120), <1>1, Facts, FaultType DEF ClaimWrite, RunOK, Inv, TypeOK
<1>3. CASE Goto(e, Idle) /\ UNCHANGED <<rec, rv, expired>>
  BY <1>2, <1>3, GiveUp
<1>4. CASE /\ Matches(o, run[e].held) /\ Put(o, d)
           /\ expired' = [expired EXCEPT ![o] = FALSE]
  <2>1. /\ expired' \in [Observations -> BOOLEAN]
        /\ \A x \in Observations \ {o} : expired'[x] = expired[x]
    BY <1>2, <1>4
  <2>2. CASE Goto(e, Idle)  BY <1>1, <1>2, <1>4, <2>1, <2>2, LastPut
  <2>3. CASE Goto(e, [run[e] EXCEPT !.pc = "load", !.claim = d.claim,
                                    !.held = rv[o] + 1, !.doc = Absent])
    <3>1. PICK r : r = [run[e] EXCEPT !.pc = "load", !.claim = d.claim,
                                      !.held = rv[o] + 1, !.doc = Absent]
      OBVIOUS
    <3>2. WriteOK(o, d)  BY <1>2, <1>4 DEF Pending, Matches
    <3>3. rec'[o] = d /\ rv'[o] = rv[o] + 1  BY <1>4 DEF Put, Inv, TypeOK
    <3>4. r \in RunState
      <4>1. d.claim \in Claim  BY <3>2 DEF WriteOK, Document
      <4>2. run[e] \in RunState /\ Absent \in Document  BY Facts, ConstantTypes
      <4>3. "load" \in PC /\ rv[o] + 1 \in Nat  BY <1>2 DEF PC, Local
      <4> QED  BY <3>1, <4>1, <4>2, <4>3 DEF RunState
    <3>5. RunOK(e, r)'
      <4>1. /\ r.pc = "load" /\ r.obs = o /\ r.granted = run[e].granted
            /\ r.reason = run[e].reason /\ r.held = rv[o] + 1 /\ r.claim = d.claim
            /\ r.seen = run[e].seen /\ r.stop = run[e].stop
        BY <1>1, <3>1, Facts DEF RunState
      <4>2. ~run[e].granted /\ run[e].reason # "EXECUTOR_LOST" /\ ~run[e].seen /\ ~run[e].stop
        BY <1>2, Facts DEF RunOK, Unclaimed, Ops, UpdateOps, TransitionOps
      <4> QED  BY <1>2, <3>3, <4>1, <4>2 DEF RunOK, Unclaimed, UpdateOps
    <3>6. PICK l \in LeaseState : l = lease[e]  BY Facts
    <3>7. l.pc = "off"  BY <1>2, <3>6, Facts
    <3>8. lease' = [lease EXCEPT ![e] = l]  BY <1>2, <3>6 DEF Inv, TypeOK
    <3>9. LeaseOK(r, l)'  BY <3>7 DEF LeaseOK
    <3>10. run' = [run EXCEPT ![e] = r]  BY <2>3, <3>1 DEF Goto
    <3> QED  BY <1>2, <1>4, <2>1, <3>2, <3>4, <3>5, <3>8, <3>9, <3>10, PutStep
  <2>4. \/ Goto(e, Idle)
        \/ Goto(e, [run[e] EXCEPT !.pc = "load", !.claim = run[e].doc.claim,
                                  !.held = rv[run[e].obs] + 1, !.doc = Absent])
    BY DEF ClaimWrite
  <2> QED  BY <1>1, <2>2, <2>3, <2>4
<1> QED  BY <1>1, <1>3, <1>4 DEF ClaimWrite

\* What the Runner knows in a state where it holds the claim.
LEMMA EngagedFacts ==
    ASSUME Inv, NEW e \in Executors, Engaged(e)
    PROVE  /\ run[e].pc # "idle" /\ run[e].claim.executor = e
           /\ rec[run[e].obs].claim = run[e].claim
           /\ rec[run[e].obs].claim # NoClaim
           /\ rec[run[e].obs].state \notin {"ABSENT", "REQUESTED"}
<1>1. run[e].pc # "idle"  BY DEF Engaged, Unclaimed
<1>2. run[e].claim.executor = e /\ rec[run[e].obs].claim = run[e].claim
  BY Facts DEF Engaged, RunOK
<1>3. run[e].claim # NoClaim  BY <1>2, NobodyAssumption DEF NoClaim
<1> QED  BY <1>1, <1>2, <1>3, Facts DEF DocOK

\* A Runner that keeps its claim and moves to a place where nothing is
\* pending: the invariant asks nothing new of it.
LEMMA Drifts ==
    ASSUME NEW e \in Executors, NEW r \in RunState, NEW s \in RunState, RunOK(e, r),
           r.pc \notin Unclaimed, s.obs = r.obs, s.claim = r.claim, ~s.granted,
           s.pc \notin Unclaimed \cup UpdateOps \cup {"load"},
           s.reason # "EXECUTOR_LOST", s.seen = r.seen, s.stop = r.stop
    PROVE  RunOK(e, s)
BY DEF RunOK, Unclaimed

\* AfterError leads to idle or to one of the two places that look for a stop.
LEMMA AfterErrorOK ==
    ASSUME Inv, NEW e \in Executors, run[e].pc \in Ops
    PROVE  AfterError(run[e]) \in RunState /\ RunOK(e, AfterError(run[e]))
<1>1. PICK r \in RunState : r = run[e]  BY Facts
<1>2. RunOK(e, r) /\ r.pc \in Ops  BY <1>1, Facts
<1>3. r.pc \notin Unclaimed /\ r.reason # "EXECUTOR_LOST"
  BY <1>2 DEF RunOK, Ops, UpdateOps, TransitionOps, Unclaimed
<1>4. CASE r.pc = "bind"
  <2>1. PICK s : s = [r EXCEPT !.pc = "bindFailed", !.granted = FALSE, !.doc = Absent, !.held = 0]
    OBVIOUS
  <2>2. s \in RunState  BY <2>1, ConstantTypes DEF RunState, PC, Local
  <2>3. RunOK(e, s)
    <3>1. s.obs = r.obs /\ s.claim = r.claim /\ ~s.granted /\ s.pc = "bindFailed"
          /\ s.reason = r.reason /\ s.seen = r.seen /\ s.stop = r.stop
      BY <2>1 DEF RunState
    <3> QED  BY <1>2, <1>3, <2>2, <3>1, Drifts DEF Unclaimed, UpdateOps
  <2> QED  BY <1>1, <1>4, <2>1, <2>2, <2>3 DEF AfterError
<1>5. CASE r.pc = "running"
  <2>1. PICK s : s = [r EXCEPT !.pc = "startFailed", !.granted = FALSE, !.doc = Absent, !.held = 0]
    OBVIOUS
  <2>2. s \in RunState  BY <2>1, ConstantTypes DEF RunState, PC, Local
  <2>3. RunOK(e, s)
    <3>1. s.obs = r.obs /\ s.claim = r.claim /\ ~s.granted /\ s.pc = "startFailed"
          /\ s.reason = r.reason /\ s.seen = r.seen /\ s.stop = r.stop
      BY <2>1 DEF RunState
    <3> QED  BY <1>2, <1>3, <2>2, <3>1, Drifts DEF Unclaimed, UpdateOps
  <2> QED  BY <1>1, <1>5, <2>1, <2>2, <2>3 DEF AfterError
<1>6. CASE r.pc \notin {"bind", "running"}
  <2>1. AfterError(run[e]) = Idle  BY <1>1, <1>6 DEF AfterError
  <2>2. RunOK(e, Idle)
    BY DEF RunOK, Idle, Unclaimed, UpdateOps, TransitionOps, Ops, None
  <2> QED  BY <2>1, <2>2, ConstantTypes
<1> QED  BY <1>4, <1>5, <1>6

\* The document of a fenced operation may be written over the record that
\* authority() has just read.
LEMMA OpDocumentOK ==
    ASSUME Inv, NEW e \in Executors, run[e].pc \in Ops,
           Authority(run[e].obs, run[e].claim, run[e].held), Permitted(run[e])
    PROVE  WriteOK(run[e].obs, OpDocument(run[e]))
<1>1. PICK r \in RunState : r = run[e]  BY Facts
<1>2. PICK o \in Observations : o = r.obs
  BY <1>1, Facts DEF Ops, UpdateOps, TransitionOps
<1>3. /\ r.held = rv[o] /\ ~Frozen(rec[o]) /\ rec[o] \in Document /\ DocOK(rec[o])
      /\ r.pc \in Ops /\ r.reason # "EXECUTOR_LOST"
  BY <1>1, <1>2, Facts DEF Authority, Matches, Ops, UpdateOps, TransitionOps, RunOK
<1>4. CASE r.pc \in UpdateOps
  <2>1. OpDocument(r) = r.doc  BY <1>4 DEF OpDocument
  <2>2. Pending(o, r.held, r.doc)  BY <1>1, <1>2, <1>4, Facts DEF RunOK
  <2> QED  BY <1>1, <1>2, <1>3, <2>1, <2>2 DEF Pending
<1>5. CASE r.pc \in TransitionOps /\ r.pc \notin UpdateOps
  <2>1. PICK next \in {"RUNNING", "FAILED", "COMPLETING", "COMPLETED"} : next = NextState[r.pc]
    BY <1>5 DEF NextState, TransitionOps
  <2>2. PICK reason \in (CompletionReason \cup {None}) \ {"EXECUTOR_LOST"} : reason = FinalReason(r)
    BY <1>3 DEF FinalReason, RunState, CompletionReason, None
  <2>3. PICK x \in Document : x = Transition(rec[o], next, reason)
    BY <1>3, DocumentOps DEF ExecutionState
  <2>4. /\ x.state = next /\ x.claim = rec[o].claim /\ x.stop = rec[o].stop
        /\ x.completion = IF next \in Terminal THEN reason ELSE rec[o].completion
    BY <1>3, <2>3 DEF Transition, Document
  <2>5. rec[o].completion = None /\ None # "EXECUTOR_LOST"  BY <1>3 DEF DocOK, None
  <2>6. WriteOK(o, x)
    BY <1>3, <2>4, <2>5 DEF WriteOK, DocOK, Frozen
  <2>7. OpDocument(r) = x  BY <1>2, <1>5, <2>1, <2>2, <2>3 DEF OpDocument
  <2> QED  BY <1>1, <1>2, <2>6, <2>7
<1> QED  BY <1>3, <1>4, <1>5 DEF Ops

\* authority() grants a fenced operation, or the operation ends in an error.
LEMMA OpReadKeeps ==
    ASSUME Inv, NEW e \in Executors, OpRead(e)
    PROVE  Inv'
<1>1. /\ run[e].pc \in Ops /\ ~run[e].granted
      /\ UNCHANGED <<rec, rv, expired, proc, lease, req>>
      /\ proc' \in [Executors -> Processes] /\ faults' \in Nat
      /\ run[e].pc \notin {"idle", "window", "drain"}
      /\ lease[e].pc = "off"
  BY Facts, FaultType DEF OpRead, Ops, UpdateOps, TransitionOps
<1>2. CASE Goto(e, AfterError(run[e]))
  <2>1. PICK r \in RunState : r = AfterError(run[e])  BY <1>1, AfterErrorOK
  <2>2. RunOK(e, r)  BY <1>1, <2>1, AfterErrorOK
  <2>3. LeaseOK(r, lease[e])  BY <1>1 DEF LeaseOK
  <2> QED  BY <1>1, <1>2, <2>1, <2>2, <2>3, LocalStep
<1>3. CASE /\ Authority(run[e].obs, run[e].claim, run[e].held) /\ Permitted(run[e])
           /\ Goto(e, [run[e] EXCEPT !.granted = TRUE, !.doc = OpDocument(run[e])])
  <2>1. PICK x : x = OpDocument(run[e])  OBVIOUS
  <2>2. WriteOK(run[e].obs, x)  BY <1>1, <1>3, <2>1, OpDocumentOK
  <2>3. x \in Document  BY <2>2 DEF WriteOK
  <2>4. PICK r : r = [run[e] EXCEPT !.granted = TRUE, !.doc = x]  OBVIOUS
  <2>5. r \in RunState  BY <2>3, <2>4, Facts DEF RunState
  <2>6. /\ r.pc = run[e].pc /\ r.obs = run[e].obs /\ r.held = run[e].held /\ r.doc = x
        /\ r.reason = run[e].reason /\ r.claim = run[e].claim
        /\ r.seen = run[e].seen /\ r.stop = run[e].stop
    BY <2>4, Facts DEF RunState
  <2>7. Pending(r.obs, r.held, r.doc)
    BY <1>1, <1>3, <2>2, <2>6, Facts DEF Pending, Authority, Matches
  <2>8. RunOK(e, r)
    <3>1. r.pc \notin {"claimCAS", "load"}
      BY <1>1, <2>6 DEF Ops, UpdateOps, TransitionOps
    <3> QED  BY <1>1, <2>6, <2>7, <3>1, Facts DEF RunOK
  <2>9. LeaseOK(r, lease[e])  BY <1>1 DEF LeaseOK
  <2> QED  BY <1>1, <1>3, <2>1, <2>4, <2>5, <2>8, <2>9, LocalStep
<1> QED  BY <1>2, <1>3 DEF OpRead

\* The compare-and-set of a fenced operation lands, is refused, or its
\* answer is lost.
LEMMA OpWriteKeeps ==
    ASSUME Inv, NEW e \in Executors, OpWrite(e)
    PROVE  Inv'
<1>1. PICK o \in Observations, r \in RunState, d \in Document :
        o = run[e].obs /\ r = run[e] /\ d = run[e].doc
  <2>1. run[e].pc # "idle"  BY DEF OpWrite, Ops, UpdateOps, TransitionOps
  <2>2. run[e].obs \in Observations /\ run[e] \in RunState  BY <2>1, Facts
  <2> QED  BY <2>2 DEF RunState
<1>2. /\ r.pc \in Ops /\ r.granted /\ UNCHANGED <<expired, proc, req>>
      /\ Pending(o, r.held, d) /\ RunOK(e, r)
      /\ proc' \in [Executors -> Processes] /\ faults' \in Nat
      /\ rv[o] \in Nat /\ expired \in [Observations -> BOOLEAN]
      /\ lease[e].pc = "off" /\ lease[e] \in LeaseState
      /\ r.pc \notin Unclaimed /\ rec[o].claim = r.claim /\ rec[o].claim # NoClaim
  <2>1. run[e].pc \in Ops /\ run[e].granted  BY DEF OpWrite
  <2>2. Engaged(e)  BY <2>1 DEF Engaged, Unclaimed, Ops, UpdateOps, TransitionOps
  <2>3. run[e].pc \notin {"idle", "window", "drain"}
    BY <2>1 DEF Ops, UpdateOps, TransitionOps
  <2> QED  BY <1>1, <2>1, <2>2, <2>3, Facts, FaultType, EngagedFacts
           DEF OpWrite, RunOK, Inv, TypeOK, Engaged
<1>3. PICK l \in LeaseState : l = lease[e]  BY <1>2
<1>4. CASE Goto(e, AfterError(run[e])) /\ UNCHANGED <<rec, rv, lease>>
  <2>1. PICK s \in RunState : s = AfterError(run[e])  BY <1>1, <1>2, AfterErrorOK
  <2>2. RunOK(e, s)  BY <1>1, <1>2, <2>1, AfterErrorOK
  <2>3. LeaseOK(s, lease[e])  BY <1>2 DEF LeaseOK
  <2> QED  BY <1>2, <1>4, <2>1, <2>2, <2>3, LocalStep
<1>5. CASE Matches(o, r.held) /\ Put(o, d)
  <2>1. WriteOK(o, d)  BY <1>2, <1>5 DEF Pending, Matches
  <2>2. rec'[o] = d /\ rv'[o] = rv[o] + 1 /\ d.claim = rec[o].claim
    BY <1>2, <1>5, <2>1 DEF Put, Inv, TypeOK, WriteOK
  <2>3. CASE Goto(e, AfterError(run[e])) /\ UNCHANGED lease
    <3>1. PICK s \in RunState : s = AfterError(run[e])  BY <1>1, <1>2, AfterErrorOK
    <3>2. RunOK(e, s)  BY <1>1, <1>2, <3>1, AfterErrorOK
    <3>3. LeaseOK(s, l)  BY <1>2, <1>3 DEF LeaseOK
    <3>4. NoRequest \in RequestState /\ ReqOK(NoRequest)
      BY ConstantTypes DEF ReqOK, NoRequest
    <3>5. RunOK(e, s)' /\ LeaseOK(s, l)'
      BY <1>2, <1>5, <2>1, <3>2, <3>3, <3>4, StorePut DEF Inv
    <3>6. lease' = [lease EXCEPT ![e] = l]  BY <1>3, <2>3 DEF Inv, TypeOK
    <3>7. run' = [run EXCEPT ![e] = s]  BY <2>3, <3>1 DEF Goto
    <3> QED  BY <1>2, <1>5, <2>1, <3>5, <3>6, <3>7, PutStep
  <2>4. CASE Goto(e, AfterWrite(run[e])) /\ StartRenewal(e)
    <3>1. PICK m \in LeaseState :
            /\ lease' = [lease EXCEPT ![e] = m]
            /\ m.pc = IF r.pc = "running" THEN "idle" ELSE "off"
      <4>1. CASE r.pc = "running"
        <5>1. PICK m : m = [NoRenewal EXCEPT !.pc = "idle"]  OBVIOUS
        <5>2. m \in LeaseState /\ m.pc = "idle"
          BY <5>1, ConstantTypes DEF LeaseState
        <5> QED  BY <1>1, <2>4, <4>1, <5>1, <5>2 DEF StartRenewal
      <4>2. CASE r.pc # "running"
        <5>1. lease' = [lease EXCEPT ![e] = l]
          BY <1>1, <1>3, <2>4, <4>2 DEF StartRenewal, Inv, TypeOK
        <5> QED  BY <1>2, <1>3, <4>2, <5>1
      <4> QED  BY <4>1, <4>2
    <3>2. CASE Successor[r.pc] = "idle"
      <4>1. AfterWrite(run[e]) = Idle  BY <1>1, <3>2 DEF AfterWrite
      <4>2. r.pc # "running"  BY <1>2, <3>2 DEF Successor, Ops, UpdateOps, TransitionOps
      <4>3. RunOK(e, Idle)' /\ LeaseOK(Idle, m)'
        BY <3>1, <4>2 DEF RunOK, LeaseOK, Idle, Unclaimed, UpdateOps, TransitionOps, Ops, None
      <4>4. Idle \in RunState /\ run' = [run EXCEPT ![e] = Idle]
        BY <2>4, <4>1, ConstantTypes DEF Goto
      <4> QED  BY <1>2, <1>5, <2>1, <3>1, <4>3, <4>4, PutStep
    <3>3. CASE Successor[r.pc] # "idle"
      <4>1. PICK next : next = Successor[r.pc]  OBVIOUS
      <4>2. /\ next \in {"attach", "window", "fail", "completing", "loadFinal", "complete",
                         "stopComplete"}
            /\ r.pc = "running" => next = "window"
        BY <1>2, <3>3, <4>1 DEF Successor, Ops, UpdateOps, TransitionOps
      <4>3. next \in PC  BY <4>2 DEF PC, Local, Ops, TransitionOps
      <4>4. PICK n \in Nat : n = rv[o] + 1  BY <1>2
      <4>5. PICK s : s = [r EXCEPT !.pc = next, !.held = n, !.doc = Absent, !.granted = FALSE]
        OBVIOUS
      <4>6. s \in RunState  BY <4>3, <4>5, ConstantTypes DEF RunState
      <4>7. /\ s.pc = next /\ s.obs = r.obs /\ s.claim = r.claim /\ ~s.granted
            /\ s.reason = r.reason /\ s.seen = r.seen /\ s.stop = r.stop
        BY <4>5 DEF RunState
      <4>8. RunOK(e, s)
        <5>1. s.pc \notin Unclaimed \cup UpdateOps \cup {"load"}
          BY <4>2, <4>7 DEF Unclaimed, UpdateOps
        <5>2. s.reason # "EXECUTOR_LOST"  BY <1>2, <4>7 DEF RunOK
        <5> QED  BY <1>2, <4>6, <4>7, <5>1, <5>2, Drifts
      <4>9. LeaseOK(s, m)  BY <3>1, <4>2, <4>7 DEF LeaseOK
      <4>10. NoRequest \in RequestState /\ ReqOK(NoRequest)
        BY ConstantTypes DEF ReqOK, NoRequest
      <4>11. RunOK(e, s)' /\ LeaseOK(s, m)'
        BY <1>2, <1>5, <2>1, <4>6, <4>8, <4>9, <4>10, StorePut DEF Inv
      <4>12. run' = [run EXCEPT ![e] = s]
        BY <1>1, <2>4, <3>3, <4>1, <4>4, <4>5 DEF Goto, AfterWrite
      <4> QED  BY <1>2, <1>5, <2>1, <3>1, <4>6, <4>11, <4>12, PutStep
    <3> QED  BY <3>2, <3>3
  <2> QED  BY <1>1, <1>5, <2>3, <2>4, <1>4 DEF OpWrite
<1> QED  BY <1>1, <1>4, <1>5 DEF OpWrite, Uncertain

\* The renewer's pending write does not depend on where in the window or the
\* drain the Runner is.
LEMMA WindowKeeps ==
    ASSUME Inv, NEW e \in Executors,
           TargetsChange(e) \/ WindowEnds(e) \/ LeaseLost(e) \/ Drain(e)
    PROVE  Inv'
<1>1. PICK r \in RunState : r = run[e]  BY Facts
<1>2. r.pc \in {"window", "drain"}
  BY <1>1 DEF TargetsChange, WindowEnds, LeaseLost, Drain, Step
<1>3. Engaged(e) /\ RunOK(e, r) /\ ~r.granted /\ r.reason # "EXECUTOR_LOST" /\ r.pc \notin Unclaimed
  BY <1>1, <1>2, Facts DEF Engaged, Unclaimed, RunOK, Ops, UpdateOps, TransitionOps
<1>4. /\ lease[e] \in LeaseState /\ LeaseOK(r, lease[e])
      /\ proc \in [Executors -> Processes] /\ faults \in Nat
  BY <1>1, Facts
<1>5. CASE TargetsChange(e)
  <2>1. PICK s : s = [r EXCEPT !.events = TRUE]  OBVIOUS
  <2>2. s \in RunState /\ s.obs = r.obs /\ s.claim = r.claim /\ ~s.granted /\ s.pc = r.pc
        /\ s.reason = r.reason /\ s.seen = r.seen /\ s.stop = r.stop
    BY <1>3, <2>1 DEF RunState
  <2>3. RunOK(e, s)
    BY <1>2, <1>3, <2>2, Drifts DEF Unclaimed, UpdateOps
  <2>4. LeaseOK(s, lease[e])  BY <1>4, <2>2 DEF LeaseOK
  <2> QED  BY <1>1, <1>4, <1>5, <2>1, <2>2, <2>3, <2>4, LocalStep DEF TargetsChange, Step
<1>6. CASE WindowEnds(e)
  <2>1. PICK reason \in CompletionReason \ {"EXECUTOR_LOST"}, ev \in BOOLEAN :
          Goto(e, [r EXCEPT !.pc = "drain", !.held = 0, !.reason = reason, !.events = ev])
    <3>1. CASE \E reason \in TargetReasons :
                Step(e, "window", [r EXCEPT !.pc = "drain", !.held = 0,
                                            !.reason = reason, !.events = TRUE])
      BY <3>1 DEF Step, TargetReasons, CompletionReason
    <3>2. CASE Step(e, "window", [r EXCEPT !.pc = "drain", !.held = 0, !.reason =
                              IF r.cancelled THEN "STOPPED_BY_REQUEST" ELSE "COMPLETED"])
      <4>1. PICK reason \in CompletionReason \ {"EXECUTOR_LOST"} :
              reason = IF r.cancelled THEN "STOPPED_BY_REQUEST" ELSE "COMPLETED"
        BY DEF CompletionReason
      <4>2. [r EXCEPT !.pc = "drain", !.held = 0, !.reason = reason]
            = [r EXCEPT !.pc = "drain", !.held = 0, !.reason = reason, !.events = r.events]
        BY DEF RunState
      <4>3. r.events \in BOOLEAN  BY DEF RunState
      <4> QED  BY <3>2, <4>1, <4>2, <4>3 DEF Step
    <3> QED  BY <1>1, <1>6, <3>1, <3>2 DEF WindowEnds
  <2>2. PICK s : s = [r EXCEPT !.pc = "drain", !.held = 0, !.reason = reason, !.events = ev]
    OBVIOUS
  <2>3. s \in RunState
    <3>1. "drain" \in PC /\ 0 \in Nat  BY DEF PC, Local
    <3> QED  BY <2>2, <3>1 DEF RunState
  <2>4. s.obs = r.obs /\ s.claim = r.claim /\ ~s.granted /\ s.pc = "drain"
        /\ s.reason = reason /\ s.seen = r.seen /\ s.stop = r.stop
    BY <1>3, <2>2 DEF RunState
  <2>5. RunOK(e, s)
    BY <1>3, <2>3, <2>4, Drifts DEF Unclaimed, UpdateOps
  <2>6. LeaseOK(s, lease[e])  BY <1>4, <2>4 DEF LeaseOK
  <2>7. UNCHANGED <<rec, rv, expired, proc, lease, req, faults>>
    BY <1>6 DEF WindowEnds, Step
  <2> QED  BY <1>4, <2>1, <2>2, <2>3, <2>5, <2>6, <2>7, LocalStep
<1>7. CASE LeaseLost(e)
  <2>1. NoRenewal \in LeaseState /\ NoRenewal.pc = "off"  BY ConstantTypes DEF NoRenewal
  <2>2. RunOK(e, Idle) /\ LeaseOK(Idle, NoRenewal) /\ Idle \in RunState
    BY <2>1, IdleOK, ConstantTypes
  <2> QED  BY <1>4, <1>7, <2>1, <2>2, QuietStep DEF LeaseLost, Step, Goto
<1>8. CASE Drain(e)
  <2>1. PICK failed \in BOOLEAN :
          Step(e, "drain", [r EXCEPT !.pc = "loadResult", !.failed = failed])
    BY <1>1, <1>8 DEF Drain
  <2>2. PICK s : s = [r EXCEPT !.pc = "loadResult", !.failed = failed]  OBVIOUS
  <2>3. s \in RunState  BY <2>2 DEF RunState, PC, Local
  <2>4. s.obs = r.obs /\ s.claim = r.claim /\ ~s.granted /\ s.pc = "loadResult"
        /\ s.reason = r.reason /\ s.seen = r.seen /\ s.stop = r.stop
    BY <1>3, <2>2 DEF RunState
  <2>5. RunOK(e, s)
    BY <1>3, <2>3, <2>4, Drifts DEF Unclaimed, UpdateOps
  <2>6. NoRenewal \in LeaseState /\ LeaseOK(s, NoRenewal)
    BY ConstantTypes DEF LeaseOK, NoRenewal
  <2> QED  BY <1>4, <1>8, <2>1, <2>2, <2>3, <2>5, <2>6, QuietStep DEF Drain, Step, Goto
<1> QED  BY <1>5, <1>6, <1>7, <1>8

\* A Runner that has read the record and is about to write: the document is
\* pending against the resourceVersion it will be fenced by.
LEMMA Prepares ==
    ASSUME Inv, NEW e \in Executors, Engaged(e), ~run[e].granted,
           run[e].pc \notin {"window", "drain"}, NEW p \in UpdateOps, NEW n \in Nat,
           NEW d \in Document, Pending(run[e].obs, n, d),
           Goto(e, [run[e] EXCEPT !.pc = p, !.held = n, !.doc = d]),
           UNCHANGED <<rec, rv, expired, lease, req>>,
           proc' \in [Executors -> Processes], faults' \in Nat
    PROVE  Inv'
<1>1. PICK r \in RunState : r = run[e]  BY Facts
<1>2. PICK s : s = [r EXCEPT !.pc = p, !.held = n, !.doc = d]  OBVIOUS
<1>3. p \in PC  BY DEF PC, Ops
<1>4. s \in RunState  BY <1>2, <1>3 DEF RunState
<1>5. /\ s.pc = p /\ s.obs = r.obs /\ s.held = n /\ s.doc = d /\ ~s.granted
      /\ s.reason = r.reason /\ s.claim = r.claim /\ s.seen = r.seen /\ s.stop = r.stop
  BY <1>1, <1>2 DEF RunState
<1>6. RunOK(e, r) /\ r.pc \notin Unclaimed /\ r.obs \in Observations
  BY <1>1, Facts, EngagedFacts DEF Engaged
<1>7. s.pc \notin {"claimCAS", "load", "idle"}  BY <1>5 DEF UpdateOps
<1>8. RunOK(e, s)
  <2>1. Pending(s.obs, s.held, s.doc)  BY <1>1, <1>5
  <2>2. s.pc \notin Unclaimed  BY <1>5 DEF UpdateOps, Unclaimed
  <2> QED  BY <1>5, <1>6, <1>7, <2>1, <2>2 DEF RunOK
<1>9. LeaseOK(s, lease[e])  BY Facts DEF LeaseOK
<1> QED  BY <1>1, <1>2, <1>4, <1>8, <1>9, LocalStep

\* A Runner that moves on with a new fence, diagnostic stage or neither.
LEMMA Passes ==
    ASSUME Inv, NEW e \in Executors, Engaged(e), ~run[e].granted,
           run[e].pc \notin {"window", "drain"}, NEW n \in Nat,
           NEW p \in (Local \cup TransitionOps) \ {"load"},
           NEW stage \in FailureStage \cup {None},
           Goto(e, [run[e] EXCEPT !.pc = p, !.held = n, !.stage = stage]),
           UNCHANGED <<rec, rv, expired, lease, req>>,
           proc' \in [Executors -> Processes], faults' \in Nat
    PROVE  Inv'
<1>1. PICK r \in RunState : r = run[e]  BY Facts
<1>2. PICK s : s = [r EXCEPT !.pc = p, !.held = n, !.stage = stage]  OBVIOUS
<1>3. p \in PC  BY DEF PC, Ops
<1>4. s \in RunState  BY <1>2, <1>3 DEF RunState
<1>5. /\ s.pc = p /\ s.obs = r.obs /\ ~s.granted
      /\ s.reason = r.reason /\ s.claim = r.claim /\ s.seen = r.seen /\ s.stop = r.stop
  BY <1>1, <1>2 DEF RunState
<1>6. RunOK(e, r) /\ r.pc \notin Unclaimed /\ r.reason # "EXECUTOR_LOST"
  BY <1>1, Facts DEF Engaged, RunOK
<1>7. s.pc \notin Unclaimed \cup UpdateOps \cup {"load"}
  BY <1>5 DEF Local, TransitionOps, Unclaimed, UpdateOps
<1>8. RunOK(e, s)  BY <1>4, <1>5, <1>6, <1>7, Drifts
<1>9. LeaseOK(s, lease[e])  BY Facts DEF LeaseOK
<1> QED  BY <1>1, <1>2, <1>4, <1>8, <1>9, LocalStep

\* The statements between the store operations of a Runner that is starting
\* or looking for a stop request.
LEMMA StartupKeeps ==
    ASSUME Inv, NEW e \in Executors,
           BindFailed(e) \/ Attach(e) \/ StartFailed(e) \/ LoadStop(e)
    PROVE  Inv'
<1>1. PICK r \in RunState : r = run[e]  BY Facts
<1>2. /\ r.pc \in {"bindFailed", "attach", "startFailed", "loadStop"}
      /\ UNCHANGED <<rec, rv, expired, lease, req, proc>>
  BY <1>1 DEF BindFailed, Attach, StartFailed, LoadStop, Step
<1>3. proc' \in [Executors -> Processes] /\ faults' \in Nat
  BY <1>2, Facts, FaultType DEF BindFailed, Attach, StartFailed, LoadStop
<1>4. Engaged(e) /\ ~run[e].granted /\ run[e].pc \notin {"window", "drain"}
  BY <1>1, <1>2, Facts DEF Engaged, Unclaimed, RunOK, Ops, UpdateOps, TransitionOps
<1>5. r.stage \in FailureStage \cup {None} /\ rv[r.obs] \in Nat /\ r.held \in Nat
  BY <1>1, <1>2, Facts DEF RunState
<1>6. CASE Goto(e, Idle)  BY <1>2, <1>3, <1>4, <1>6, GiveUp
<1>7. CASE \E p \in {"loadStop", "loadFailure", "running", "stopCompleting"}, n \in Nat,
              stage \in FailureStage \cup {None} :
                Goto(e, [r EXCEPT !.pc = p, !.held = n, !.stage = stage])
  <2>1. PICK p \in {"loadStop", "loadFailure", "running", "stopCompleting"}, n \in Nat,
             stage \in FailureStage \cup {None} :
                Goto(e, [r EXCEPT !.pc = p, !.held = n, !.stage = stage])
    BY <1>7
  <2>2. p \in (Local \cup TransitionOps) \ {"load"}  BY DEF Local, TransitionOps
  <2> QED  BY <1>1, <1>2, <1>3, <1>4, <2>1, <2>2, Passes
<1>8. Goto(e, [r EXCEPT !.pc = "running"]) =>
        Goto(e, [r EXCEPT !.pc = "running", !.held = r.held, !.stage = r.stage])
  <2>1. [r EXCEPT !.pc = "running"] = [r EXCEPT !.pc = "running", !.held = r.held, !.stage = r.stage]
    BY DEF RunState
  <2> QED  BY <2>1
<1>9. ASSUME NEW p \in {"loadStop", "stopCompleting"}, NEW n \in Nat,
             Goto(e, [r EXCEPT !.pc = p, !.held = n])
      PROVE  Goto(e, [r EXCEPT !.pc = p, !.held = n, !.stage = r.stage])
  <2>1. [r EXCEPT !.pc = p, !.held = n] = [r EXCEPT !.pc = p, !.held = n, !.stage = r.stage]
    BY DEF RunState
  <2> QED  BY <1>9, <2>1
<1>10. CASE BindFailed(e)
  <2>1. Goto(e, Idle) \/ Goto(e, [r EXCEPT !.pc = "loadStop", !.held = 0])
    BY <1>1, <1>10 DEF BindFailed, Step, LoadStopFrom
  <2> QED  BY <1>5, <1>6, <1>7, <1>9, <2>1
<1>11. CASE Attach(e)
  <2>1. \/ Goto(e, [r EXCEPT !.pc = "running"]) \/ Goto(e, [r EXCEPT !.pc = "loadStop", !.held = 0])
        \/ Goto(e, [r EXCEPT !.pc = "loadFailure", !.held = 0, !.stage = "GADGET_ATTACH"])
    BY <1>1, <1>11 DEF Attach, Step, LoadStopFrom
  <2>2. "GADGET_ATTACH" \in FailureStage \cup {None}  BY DEF FailureStage
  <2> QED  BY <1>5, <1>7, <1>8, <1>9, <2>1, <2>2
<1>12. CASE StartFailed(e)
  <2>1. Goto(e, Idle) \/ Goto(e, [r EXCEPT !.pc = "loadStop", !.held = 0])
    BY <1>1, <1>12 DEF StartFailed, Step, LoadStopFrom
  <2> QED  BY <1>5, <1>6, <1>7, <1>9, <2>1
<1>13. CASE LoadStop(e)
  <2>1. Goto(e, Idle) \/ Goto(e, [r EXCEPT !.pc = "stopCompleting", !.held = rv[r.obs]])
    BY <1>1, <1>13 DEF LoadStop, Step
  <2> QED  BY <1>5, <1>6, <1>7, <1>9, <2>1
<1> QED  BY <1>10, <1>11, <1>12, <1>13

\* The Runner re-reads the record and prepares its next update, or binds the
\* targets of the record it claimed.
LEMMA LoadKeeps ==
    ASSUME Inv, NEW e \in Executors,
           Load(e) \/ LoadFailure(e) \/ LoadResult(e) \/ LoadFinal(e)
    PROVE  Inv'
<1>1. PICK r \in RunState : r = run[e]  BY Facts
<1>2. /\ r.pc \in {"load", "loadFailure", "loadResult", "loadFinal"}
      /\ UNCHANGED <<rec, rv, expired, lease, req, proc>>
  BY <1>1 DEF Load, LoadFailure, LoadResult, LoadFinal, Reload, Step
<1>3. proc' \in [Executors -> Processes] /\ faults' \in Nat
  BY <1>2, Facts, FaultType DEF Load, LoadFailure, LoadResult, LoadFinal, Reload
<1>4. Engaged(e) /\ ~run[e].granted /\ run[e].pc \notin {"window", "drain"}
  BY <1>1, <1>2, Facts DEF Engaged, Unclaimed, RunOK, Ops, UpdateOps, TransitionOps
<1>5. PICK o \in Observations : o = r.obs  BY <1>1, <1>2, Facts
<1>6. rec[o] \in Document /\ DocOK(rec[o]) /\ rv[o] \in Nat /\ rec[o].state # "ABSENT"
  BY <1>1, <1>2, <1>4, <1>5, Facts, EngagedFacts
<1>7. /\ r.stage \in FailureStage \cup {None} /\ r.held \in Nat
      /\ r.events \in BOOLEAN /\ Attribution(r) \in AttributionState
  BY DEF RunState, Attribution, AttributionState
<1>8. CASE Goto(e, Idle)  BY <1>2, <1>3, <1>4, <1>8, GiveUp
<1>9. ASSUME NEW p \in UpdateOps, NEW n \in Nat, NEW d, ~Frozen(rec[o]), WriteOK(o, d),
             n <= rv[o], Goto(e, [r EXCEPT !.pc = p, !.held = n, !.doc = d])
      PROVE  Inv'
  <2>1. d \in Document  BY <1>9 DEF WriteOK
  <2>2. Pending(run[e].obs, n, d)  BY <1>1, <1>5, <1>9 DEF Pending
  <2> QED  BY <1>1, <1>2, <1>3, <1>4, <1>9, <2>1, <2>2, Prepares
<1>10. ASSUME NEW p \in UpdateOps, NEW d, WriteOK(o, d), ~Frozen(rec[o]),
              Goto(e, [r EXCEPT !.pc = p, !.held = rv[o], !.doc = d])
       PROVE  Inv'
  <2>1. PICK n \in Nat : n = rv[o] /\ n <= rv[o]  BY <1>6
  <2>2. Goto(e, [r EXCEPT !.pc = p, !.held = n, !.doc = d])  BY <1>10, <2>1
  <2> QED  BY <1>9, <1>10, <2>1, <2>2
<1>11. CASE Load(e)
  <2>1. r.pc = "load"  BY <1>1, <1>11 DEF Load, Step
  <2>2. r.held <= rv[o]  BY <1>1, <1>5, <2>1, Facts DEF RunOK
  <2>3. CASE ~Frozen(rec[o]) /\ Goto(e, [r EXCEPT !.pc = "bind", !.doc = Bind(rec[o])])
    <3>1. PICK d \in Document : d = Bind(rec[o])  BY <1>6, DocumentOps
    <3>2. WriteOK(o, d)  BY <1>6, <2>3, <3>1, Successors
    <3>3. [r EXCEPT !.pc = "bind", !.doc = d] = [r EXCEPT !.pc = "bind", !.held = r.held, !.doc = d]
      BY DEF RunState
    <3>4. Goto(e, [r EXCEPT !.pc = "bind", !.held = r.held, !.doc = d])
      BY <2>3, <3>1, <3>3
    <3> QED  BY <1>7, <1>9, <2>2, <2>3, <3>2, <3>4 DEF UpdateOps
  <2>4. CASE Goto(e, [r EXCEPT !.pc = "loadFailure", !.held = 0, !.stage = "TARGET_BINDING"])
    <3>1. /\ "loadFailure" \in (Local \cup TransitionOps) \ {"load"}
          /\ "TARGET_BINDING" \in FailureStage \cup {None}
      BY DEF Local, FailureStage
    <3> QED  BY <1>1, <1>2, <1>3, <1>4, <2>4, <3>1, Passes
  <2> QED  BY <1>1, <1>5, <1>8, <1>11, <2>3, <2>4 DEF Load, Step
<1>12. CASE LoadFailure(e)
  <2>1. PICK d : d = RecordFailure(rec[o], r.stage)  OBVIOUS
  <2>2. \/ Goto(e, Idle)
        \/ ~Frozen(rec[o]) /\ Goto(e, [r EXCEPT !.pc = "failure", !.held = rv[o], !.doc = d])
    BY <1>1, <1>5, <1>12, <2>1 DEF LoadFailure, Reload, Step
  <2>3. ~Frozen(rec[o]) => WriteOK(o, d)  BY <1>6, <1>7, <2>1, Successors
  <2> QED  BY <1>8, <1>10, <2>2, <2>3 DEF UpdateOps
<1>13. CASE LoadResult(e)
  <2>1. PICK d : d = RecordSourceResult(AppendTargetChange(rec[o], r.events), Attribution(r))
    OBVIOUS
  <2>2. \/ Goto(e, Idle)
        \/ ~Frozen(rec[o]) /\ Goto(e, [r EXCEPT !.pc = "result", !.held = rv[o], !.doc = d])
    BY <1>1, <1>5, <1>13, <2>1 DEF LoadResult, Reload, Step
  <2>3. ~Frozen(rec[o]) => WriteOK(o, d)  BY <1>6, <1>7, <2>1, Successors
  <2> QED  BY <1>8, <1>10, <2>2, <2>3 DEF UpdateOps
<1>14. CASE LoadFinal(e)
  <2>1. PICK d : d = RecordSourceResult(rec[o], Attribution(r))  OBVIOUS
  <2>2. \/ Goto(e, Idle)
        \/ ~Frozen(rec[o]) /\ Goto(e, [r EXCEPT !.pc = "final", !.held = rv[o], !.doc = d])
    BY <1>1, <1>5, <1>14, <2>1 DEF LoadFinal, Reload, Step
  <2>3. ~Frozen(rec[o]) => WriteOK(o, d)  BY <1>6, <1>7, <2>1, Successors
  <2> QED  BY <1>8, <1>10, <2>2, <2>3 DEF UpdateOps
<1> QED  BY <1>11, <1>12, <1>13, <1>14

\* The renewer prepares to write back the document it has just read.
LEMMA RenewReadKeeps ==
    ASSUME Inv, NEW e \in Executors, RenewRead(e)
    PROVE  Inv'
<1>1. PICK r \in RunState : r = run[e]  BY Facts
<1>2. /\ lease[e].pc \in {"idle", "again"} /\ lease[e] \in LeaseState
      /\ UNCHANGED <<rec, rv, expired, proc, run, req>>
      /\ proc' \in [Executors -> Processes] /\ faults' \in Nat
      /\ RunOK(e, r) /\ r.pc \in {"window", "drain"}
      /\ run' = [run EXCEPT ![e] = r]
  BY <1>1, Facts, FaultType DEF RenewRead, LeaseOK, Inv, TypeOK
<1>3. Engaged(e) /\ r.obs \in Observations
  BY <1>1, <1>2, Facts DEF Engaged, Unclaimed
<1>4. rec[r.obs] \in Document /\ DocOK(rec[r.obs]) /\ rv[r.obs] \in Nat
      /\ rec[r.obs].state # "ABSENT"
  BY <1>1, <1>3, Facts, EngagedFacts
<1>5. CASE lease' = [lease EXCEPT ![e] = [NoRenewal EXCEPT !.pc = "failed"]]
  <2>1. PICK l : l = [NoRenewal EXCEPT !.pc = "failed"]  OBVIOUS
  <2>2. l \in LeaseState /\ l.pc = "failed"  BY <2>1, ConstantTypes DEF LeaseState
  <2>3. LeaseOK(r, l)  BY <1>2, <2>2 DEF LeaseOK
  <2> QED  BY <1>2, <1>5, <2>1, <2>2, <2>3, QuietStep
<1>6. CASE /\ Renewable(r.obs, r.claim)
           /\ lease' = [lease EXCEPT ![e] =
                [pc |-> "cas", held |-> rv[r.obs], doc |-> rec[r.obs],
                 retry |-> lease[e].pc = "again",
                 count |-> IF lease[e].pc = "idle" THEN lease[e].count + 1 ELSE lease[e].count]]
  <2>1. PICK n \in Nat :
          n = IF lease[e].pc = "idle" THEN lease[e].count + 1 ELSE lease[e].count
    <3>1. lease[e].count \in Nat  BY <1>2 DEF LeaseState
    <3> QED  BY <3>1
  <2>2. PICK b \in BOOLEAN : b = (lease[e].pc = "again")  OBVIOUS
  <2>3. PICK l : l = [pc |-> "cas", held |-> rv[r.obs], doc |-> rec[r.obs],
                      retry |-> b, count |-> n]
    OBVIOUS
  <2>4. l \in LeaseState  BY <1>4, <2>3 DEF LeaseState
  <2>5. WriteOK(r.obs, rec[r.obs])
    BY <1>3, <1>4, <1>6, Successors DEF Renewable
  <2>6. LeaseOK(r, l)  BY <1>2, <1>4, <2>3, <2>5 DEF LeaseOK, Pending
  <2> QED  BY <1>2, <1>6, <2>1, <2>2, <2>3, <2>4, <2>6, QuietStep
<1> QED  BY <1>1, <1>5, <1>6 DEF RenewRead

\* The renewal lands, is refused, or its answer is lost.
LEMMA RenewWriteKeeps ==
    ASSUME Inv, NEW e \in Executors, RenewWrite(e)
    PROVE  Inv'
<1>1. PICK r \in RunState, k \in LeaseState : r = run[e] /\ k = lease[e]  BY Facts
<1>2. /\ k.pc = "cas" /\ UNCHANGED <<proc, run, req>>
      /\ proc' \in [Executors -> Processes] /\ faults' \in Nat
      /\ RunOK(e, r) /\ r.pc \in {"window", "drain"} /\ Pending(r.obs, k.held, k.doc)
      /\ run' = [run EXCEPT ![e] = r]
  BY <1>1, Facts, FaultType DEF RenewWrite, LeaseOK, Inv, TypeOK
<1>3. PICK o \in Observations : o = r.obs  BY <1>1, <1>2, Facts
<1>4. PICK l \in LeaseState : l.pc # "cas" /\ lease' = [lease EXCEPT ![e] = l]
  <2>1. PICK p \in {"idle", "again", "failed"} :
          lease' = [lease EXCEPT ![e] = [NoRenewal EXCEPT !.pc = p, !.count = k.count]]
    BY <1>1 DEF RenewWrite
  <2>2. PICK l : l = [NoRenewal EXCEPT !.pc = p, !.count = k.count]  OBVIOUS
  <2>3. k.count \in Nat  BY DEF LeaseState
  <2>4. l \in LeaseState  BY <2>2, <2>3, ConstantTypes DEF LeaseState
  <2>5. l.pc = p  BY <2>2, ConstantTypes DEF LeaseState
  <2> QED  BY <2>1, <2>2, <2>4, <2>5
<1>5. LeaseOK(r, l)  BY <1>2, <1>4 DEF LeaseOK
<1>6. CASE UNCHANGED <<rec, rv, expired>>
  BY <1>2, <1>4, <1>5, <1>6, QuietStep
<1>7. CASE /\ Matches(o, k.held) /\ Put(o, k.doc)
           /\ expired' = [expired EXCEPT ![o] = FALSE]
  <2>1. WriteOK(o, k.doc)  BY <1>2, <1>3, <1>7 DEF Pending, Matches
  <2>2. /\ expired' \in [Observations -> BOOLEAN]
        /\ \A x \in Observations \ {o} : expired'[x] = expired[x]
    BY <1>7 DEF Inv, TypeOK
  <2>3. NoRequest \in RequestState /\ ReqOK(NoRequest)
    BY ConstantTypes DEF ReqOK, NoRequest
  <2>4. RunOK(e, r)' /\ LeaseOK(r, l)'
    BY <1>2, <1>5, <1>7, <2>1, <2>2, <2>3, StorePut DEF Inv
  <2> QED  BY <1>2, <1>4, <1>7, <2>1, <2>2, <2>4, PutStep
<1> QED  BY <1>1, <1>3, <1>6, <1>7 DEF RenewWrite

\* The watcher sees an intent for its claim and raises the stop flag.
LEMMA WatchKeeps ==
    ASSUME Inv, NEW e \in Executors, WatchRead(e) \/ WatchStop(e)
    PROVE  Inv'
<1>1. PICK r \in RunState : r = run[e]  BY Facts
<1>2. /\ UNCHANGED <<rec, rv, expired, proc, lease, req, faults>>
      /\ proc' \in [Executors -> Processes] /\ faults' \in Nat
      /\ RunOK(e, r) /\ LeaseOK(r, lease[e])
  BY <1>1, Facts DEF WatchRead, WatchStop
<1>3. PICK seen \in BOOLEAN, stop \in BOOLEAN, cancelled \in BOOLEAN :
        Goto(e, [r EXCEPT !.seen = seen, !.stop = stop, !.cancelled = cancelled])
  <2>1. r.seen \in BOOLEAN /\ r.stop \in BOOLEAN /\ r.cancelled \in BOOLEAN  BY DEF RunState
  <2>2. CASE WatchRead(e)
    <3>1. [r EXCEPT !.seen = TRUE]
            = [r EXCEPT !.seen = TRUE, !.stop = r.stop, !.cancelled = r.cancelled]
      BY DEF RunState
    <3>2. Goto(e, [r EXCEPT !.seen = TRUE, !.stop = r.stop, !.cancelled = r.cancelled])
      BY <1>1, <2>2, <3>1 DEF WatchRead
    <3> QED  BY <2>1, <3>2
  <2>3. CASE WatchStop(e)
    <3>1. [r EXCEPT !.stop = TRUE, !.cancelled = TRUE]
            = [r EXCEPT !.seen = r.seen, !.stop = TRUE, !.cancelled = TRUE]
      BY DEF RunState
    <3>2. Goto(e, [r EXCEPT !.seen = r.seen, !.stop = TRUE, !.cancelled = TRUE])
      BY <1>1, <2>3, <3>1 DEF WatchStop
    <3> QED  BY <2>1, <3>2
  <2> QED  BY <2>2, <2>3
<1>4. PICK s : s = [r EXCEPT !.seen = seen, !.stop = stop, !.cancelled = cancelled]  OBVIOUS
<1>5. s \in RunState  BY ZenonT(60), <1>4 DEF RunState
<1>6. /\ s.pc = r.pc /\ s.obs = r.obs /\ s.held = r.held /\ s.doc = r.doc /\ s.claim = r.claim
      /\ s.granted = r.granted /\ s.reason = r.reason
  BY <1>4 DEF RunState
<1>7. /\ r.pc \notin Unclaimed
      /\ rec[r.obs].stop.requested /\ rec[r.obs].stop.fence \in {NoClaim, r.claim}
  BY <1>1, <1>2 DEF WatchRead, WatchStop, Engaged, StopRequestedForClaim, RunOK
<1>8. RunOK(e, s)  BY <1>2, <1>6, <1>7 DEF RunOK
<1>9. LeaseOK(s, lease[e])  BY <1>2, <1>6 DEF LeaseOK
<1> QED  BY <1>2, <1>3, <1>4, <1>5, <1>8, <1>9, LocalStep

\* A process fails to scan, is told to stop, ends, or is killed.
LEMMA ProcessKeeps ==
    ASSUME Inv, NEW e \in Executors, ScanFails(e) \/ Shutdown(e) \/ Exit(e) \/ Kill(e)
    PROVE  Inv'
<1>1. PICK r \in RunState, l \in LeaseState : r = run[e] /\ l = lease[e]  BY Facts
<1>2. /\ UNCHANGED <<rec, rv, expired, req>>
      /\ proc' \in [Executors -> Processes] /\ faults' \in Nat
      /\ RunOK(e, r) /\ LeaseOK(r, l)
  BY <1>1, Facts, FaultType DEF ScanFails, Shutdown, Exit, Kill, Processes
<1>3. run = [run EXCEPT ![e] = r] /\ lease = [lease EXCEPT ![e] = l]
  BY <1>1 DEF Inv, TypeOK
<1>4. CASE UNCHANGED <<run, lease>>  BY <1>2, <1>3, <1>4, QuietStep
<1>5. CASE Kill(e)
  <2>1. NoRenewal \in LeaseState /\ NoRenewal.pc = "off"  BY ConstantTypes DEF NoRenewal
  <2>2. RunOK(e, Idle) /\ LeaseOK(Idle, NoRenewal) /\ Idle \in RunState
    BY <2>1, IdleOK, ConstantTypes
  <2> QED  BY <1>2, <1>5, <2>1, <2>2, QuietStep DEF Kill
<1>6. CASE UNCHANGED lease /\ run' = [run EXCEPT ![e].cancelled = TRUE]
  <2>1. PICK s : s = [r EXCEPT !.cancelled = TRUE]  OBVIOUS
  <2>2. s \in RunState  BY <2>1 DEF RunState
  <2>3. /\ s.pc = r.pc /\ s.obs = r.obs /\ s.held = r.held /\ s.doc = r.doc /\ s.claim = r.claim
        /\ s.granted = r.granted /\ s.reason = r.reason /\ s.seen = r.seen /\ s.stop = r.stop
    BY <2>1 DEF RunState
  <2>4. RunOK(e, s) /\ LeaseOK(s, l)  BY <1>2, <2>3 DEF RunOK, LeaseOK
  <2>5. run' = [run EXCEPT ![e] = s]  BY <1>1, <1>6, <2>1
  <2> QED  BY <1>2, <1>3, <1>6, <2>2, <2>4, <2>5, QuietStep
<1> QED  BY <1>4, <1>5, <1>6 DEF ScanFails, Shutdown, Exit

\* An operator's request is prepared from what was read and may be refused.
LEMMA RequestKeeps ==
    ASSUME Inv, NEW q \in Requesters,
           RequestWrite(q) \/ \E o \in Observations : RequestRead(q, o)
    PROVE  Inv'
<1>1. UNCHANGED <<expired, proc, run, lease>> /\ faults' \in Nat
  BY FaultType DEF RequestWrite, RequestRead, Inv, TypeOK
<1>2. CASE \E o \in Observations : RequestRead(q, o)
  <2>1. PICK o \in Observations : RequestRead(q, o)  BY <1>2
  <2>2. rec[o] \in Document /\ DocOK(rec[o]) /\ rv[o] \in Nat  BY DEF Inv, TypeOK
  <2>3. PICK d \in Document : d = RequestStop(rec[o])  BY <2>2, DocumentOps
  <2>4. ~Frozen(rec[o]) /\ rec[o].state # "ABSENT" /\ ~rec[o].stop.requested
    BY <2>1 DEF RequestRead, StopEligible, CanRequestStop, Frozen, Terminal
  <2>5. WriteOK(o, d)  BY <2>2, <2>3, <2>4, Successors
  <2>6. PICK k : k = [pc |-> "cas", obs |-> o, held |-> rv[o], doc |-> d]  OBVIOUS
  <2>7. k \in RequestState  BY <2>2, <2>6 DEF RequestState
  <2>8. UNCHANGED <<rec, rv>> /\ req' = [req EXCEPT ![q] = k]
    BY <2>1, <2>3, <2>6 DEF RequestRead
  <2>9. TypeOK'  BY <1>1, <2>7, <2>8 DEF Inv, TypeOK
  <2>10. \A x \in Observations : DocOK(rec[x])'  BY <2>8 DEF Inv
  <2>11. ASSUME NEW e \in Executors  PROVE (RunOK(e, run[e]) /\ LeaseOK(run[e], lease[e]))'
    <3>1. RunOK(e, run[e]) /\ LeaseOK(run[e], lease[e])  BY Facts
    <3> QED  BY <1>1, <2>8, <3>1 DEF RunOK, LeaseOK, Pending, WriteOK
  <2>12. ASSUME NEW x \in Requesters  PROVE ReqOK(req[x])'
    <3>1. req'[x] = IF x = q THEN k ELSE req[x]  BY <2>8 DEF Inv, TypeOK
    <3>2. ReqOK(req[x])  BY DEF Inv
    <3>3. ReqOK(k)  BY <2>2, <2>5, <2>6 DEF ReqOK, Pending
    <3>4. CASE x = q
      <4>1. req'[x] = k  BY <3>1, <3>4
      <4> QED  BY <1>1, <2>8, <3>3, <4>1 DEF ReqOK, Pending, WriteOK
    <3>5. CASE x # q
      <4>1. req'[x] = req[x]  BY <3>1, <3>5
      <4> QED  BY <1>1, <2>8, <3>2, <4>1 DEF ReqOK, Pending, WriteOK
    <3> QED  BY <3>4, <3>5
  <2> QED  BY <2>9, <2>10, <2>11, <2>12 DEF Inv
<1>3. CASE RequestWrite(q)
  <2>1. PICK k \in RequestState : k = req[q]  BY DEF Inv, TypeOK
  <2>2. /\ k.pc = "cas" /\ req' = [req EXCEPT ![q] = NoRequest] /\ k.obs \in Observations
        /\ Pending(k.obs, k.held, k.doc)
    BY <1>3, <2>1 DEF RequestWrite, Inv, ReqOK
  <2>3. /\ req' \in [Requesters -> RequestState]
        /\ \A x \in Requesters : req'[x] = IF x = q THEN NoRequest ELSE req[x]
    BY <2>2, ConstantTypes DEF Inv, TypeOK
  <2>4. CASE UNCHANGED <<rec, rv>>
    <3>1. TypeOK'  BY <1>1, <2>3, <2>4 DEF Inv, TypeOK
    <3>2. \A x \in Observations : DocOK(rec[x])'  BY <2>4 DEF Inv
    <3>3. ASSUME NEW e \in Executors  PROVE (RunOK(e, run[e]) /\ LeaseOK(run[e], lease[e]))'
      <4>1. RunOK(e, run[e]) /\ LeaseOK(run[e], lease[e])  BY Facts
      <4> QED  BY <1>1, <2>4, <4>1 DEF RunOK, LeaseOK, Pending, WriteOK
    <3>4. ASSUME NEW x \in Requesters  PROVE ReqOK(req[x])'
      <4>1. ReqOK(req[x])  BY DEF Inv
      <4>2. CASE x = q  BY <2>3, <4>2 DEF ReqOK, NoRequest
      <4>3. CASE x # q
        <5>1. req'[x] = req[x]  BY <2>3, <4>3
        <5> QED  BY <1>1, <2>4, <4>1, <5>1 DEF ReqOK, Pending, WriteOK
      <4> QED  BY <4>2, <4>3
    <3> QED  BY <3>1, <3>2, <3>3, <3>4 DEF Inv
  <2>5. CASE Matches(k.obs, k.held) /\ Put(k.obs, k.doc)
    <3>1. PICK o \in Observations, d \in Document : o = k.obs /\ d = k.doc
      BY <2>2 DEF RequestState
    <3>2. WriteOK(o, d) /\ Put(o, d)  BY <2>2, <2>5, <3>1 DEF Pending, Matches
    <3>3. TypeOK'
      <4>1. rec' \in [Observations -> Document]  BY <3>2 DEF Inv, TypeOK, Put, WriteOK
      <4>2. rv' \in [Observations -> Nat]
        <5>1. rv \in [Observations -> Nat] /\ rv[o] + 1 \in Nat  BY DEF Inv, TypeOK
        <5> QED  BY <3>2, <5>1 DEF Put
      <4> QED  BY <1>1, <2>3, <4>1, <4>2 DEF Inv, TypeOK
    <3>4. /\ \A x \in Observations : DocOK(rec[x])'
          /\ \A x \in Executors : (RunOK(x, run[x]) /\ LeaseOK(run[x], lease[x]))'
          /\ \A x \in Requesters : req'[x] = req[x] => ReqOK(req[x])'
      BY <1>1, <3>2, OthersAfterPut
    <3>5. ASSUME NEW x \in Requesters  PROVE ReqOK(req[x])'
      <4>1. CASE x = q  BY <2>3, <4>1 DEF ReqOK, NoRequest
      <4>2. CASE x # q  BY <2>3, <3>4, <4>2
      <4> QED  BY <4>1, <4>2
    <3> QED  BY <3>3, <3>4, <3>5 DEF Inv
  <2> QED  BY <1>3, <2>1, <2>4, <2>5 DEF RequestWrite
<1> QED  BY <1>2, <1>3

\* A new observation, and time passing the lease of a claimed one.
LEMMA RecordKeeps ==
    ASSUME Inv, NEW o \in Observations, CreateObservation(o) \/ LeaseRunsOut(o)
    PROVE  Inv'
<1>1. UNCHANGED <<proc, run, lease, req, faults>>  BY DEF CreateObservation, LeaseRunsOut
<1>2. CASE CreateObservation(o)
  <2>1. rec[o] \in Document /\ DocOK(rec[o])  BY DEF Inv, TypeOK
  <2>2. rec[o] = Absent  BY <1>2, <2>1 DEF CreateObservation, DocOK
  <2>3. PICK d \in Document : d = NewObservation  BY ConstantTypes
  <2>4. /\ d.state = "REQUESTED" /\ d.claim = NoClaim /\ d.completion = None
        /\ rec[o].claim = NoClaim /\ ~rec[o].stop.requested /\ ~Frozen(rec[o])
    BY <2>2, <2>3 DEF NewObservation, Absent, NoStop, Frozen, Terminal
  <2>5. WriteOK(o, d)  BY <2>4 DEF WriteOK, DocOK, Frozen, Terminal, None
  <2>6. Put(o, d) /\ UNCHANGED expired  BY <1>2, <2>3 DEF CreateObservation
  <2>7. TypeOK'
    <3>1. rec' \in [Observations -> Document]  BY <2>6 DEF Inv, TypeOK, Put
    <3>2. rv' \in [Observations -> Nat]
      <4>1. rv \in [Observations -> Nat] /\ rv[o] + 1 \in Nat  BY DEF Inv, TypeOK
      <4> QED  BY <2>6, <4>1 DEF Put
    <3> QED  BY <1>1, <2>6, <3>1, <3>2 DEF Inv, TypeOK
  <2>8. /\ \A x \in Observations : DocOK(rec[x])'
        /\ \A x \in Executors : (RunOK(x, run[x]) /\ LeaseOK(run[x], lease[x]))'
        /\ \A x \in Requesters : ReqOK(req[x])'
    BY <1>1, <2>5, <2>6, OthersAfterPut
  <2> QED  BY <2>7, <2>8 DEF Inv
<1>3. CASE LeaseRunsOut(o)
  <2>1. UNCHANGED <<rec, rv>> /\ expired' = [expired EXCEPT ![o] = TRUE]
    BY <1>3 DEF LeaseRunsOut
  <2>2. TypeOK'  BY <1>1, <2>1 DEF Inv, TypeOK
  <2>3. \A x \in Observations : expired[x] => expired'[x]  BY <2>1 DEF Inv, TypeOK
  <2>4. ASSUME NEW x \in Observations, NEW n, NEW d, Pending(x, n, d)
        PROVE  Pending(x, n, d)'
    BY <2>1, <2>3, <2>4 DEF Pending, WriteOK
  <2>5. \A x \in Observations : DocOK(rec[x])'  BY <2>1 DEF Inv
  <2>6. ASSUME NEW e \in Executors  PROVE (RunOK(e, run[e]) /\ LeaseOK(run[e], lease[e]))'
    <3>1. PICK r, l : r = run[e] /\ l = lease[e]  OBVIOUS
    <3>2. RunOK(e, r) /\ LeaseOK(r, l) /\ run'[e] = r /\ lease'[e] = l  BY <1>1, <3>1, Facts
    <3>3. r.pc # "idle" => r.obs \in Observations  BY <3>2 DEF RunOK
    <3>4. RunOK(e, r)'
      <4>1. r.pc \in {"recoverCAS", "claimCAS"} \cup UpdateOps \/ r.granted => r.pc # "idle"
        BY <3>2 DEF RunOK, UpdateOps, Ops, TransitionOps
      <4> QED  BY <2>1, <2>4, <3>2, <3>3, <4>1 DEF RunOK
    <3>5. LeaseOK(r, l)'  BY <2>4, <3>2, <3>3 DEF LeaseOK
    <3> QED  BY <1>1, <3>1, <3>4, <3>5 DEF RunOK, LeaseOK, Pending, WriteOK
  <2>7. ASSUME NEW q \in Requesters  PROVE ReqOK(req[q])'
    <3>1. PICK k : k = req[q]  OBVIOUS
    <3>2. ReqOK(k) /\ req'[q] = k  BY <1>1, <3>1 DEF Inv, ReqOK, Pending, WriteOK
    <3>3. ReqOK(k)'  BY <2>4, <3>2 DEF ReqOK
    <3> QED  BY <3>2, <3>3 DEF ReqOK, Pending, WriteOK
  <2> QED  BY <2>2, <2>5, <2>6, <2>7 DEF Inv
<1> QED  BY <1>2, <1>3

------------------------------------------------------------------------------
(* The theorems                                                             *)

\* Every step of the system preserves the inductive invariant.
LEMMA NextKeeps == Inv /\ [Next]_vars => Inv'
<1> SUFFICES ASSUME Inv, [Next]_vars  PROVE Inv'  OBVIOUS
<1>1. ASSUME NEW e \in Executors, ExecutorStep(e)  PROVE Inv'
  BY <1>1, ClaimReadKeeps, ClaimWriteKeeps, RecoverWriteKeeps, OpReadKeeps, OpWriteKeeps,
     LoadKeeps, StartupKeeps, WindowKeeps, RenewReadKeeps, RenewWriteKeeps, ScanKeeps,
     WatchKeeps, ProcessKeeps
  DEF ExecutorStep, RunnerStep, RenewStep
<1>2. ASSUME UNCHANGED vars  PROVE Inv'
  <2>1. UNCHANGED <<rec, rv, expired, proc, run, lease, req, faults>>  BY <1>2 DEF vars
  <2> QED  BY SMTT(120), <2>1 DEF Inv, TypeOK, DocOK, RunOK, LeaseOK, ReqOK, Pending, WriteOK
<1> QED  BY <1>1, <1>2, RequestKeeps, RecordKeeps DEF Next

\* The initial state satisfies the inductive invariant.
LEMMA InitInv == Init => Inv
<1> SUFFICES ASSUME Init  PROVE Inv  OBVIOUS
<1>1. TypeOK  BY ConstantTypes DEF Init, TypeOK
<1>2. DocOK(Absent)  BY DEF DocOK, Absent, Frozen, Terminal, NoClaim
<1>3. \A o \in Observations : DocOK(rec[o])  BY <1>2 DEF Init
<1>4. ASSUME NEW e \in Executors  PROVE RunOK(e, run[e]) /\ LeaseOK(run[e], lease[e])
  <2>1. run[e] = Idle /\ lease[e] = NoRenewal  BY DEF Init
  <2>2. NoRenewal \in LeaseState /\ NoRenewal.pc = "off"  BY ConstantTypes DEF NoRenewal
  <2>3. RunOK(e, Idle) /\ LeaseOK(Idle, NoRenewal)  BY <2>2, IdleOK
  <2> QED  BY <2>1, <2>3 DEF RunOK, LeaseOK, Pending, WriteOK
<1>5. ASSUME NEW q \in Requesters  PROVE ReqOK(req[q])
  <2>1. req[q] = NoRequest  BY DEF Init
  <2> QED  BY <2>1 DEF ReqOK, NoRequest
<1> QED  BY <1>1, <1>3, <1>4, <1>5 DEF Inv

\* The inductive invariant holds in every reachable state.
THEOREM Invariance == Spec => []Inv
BY InitInv, NextKeeps, PTL DEF Spec

\* Type correctness, for every number of executors, observations and faults.
THEOREM TypeCorrect == Spec => []TypeOK
<1>1. Inv => TypeOK  BY DEF Inv
<1> QED  BY <1>1, Invariance, PTL

\* Mutual exclusion of execution: a Runner that believes it executes an
\* observation holds the claim persisted in its record (ClaimObservation,
\* casStatus), whatever interleaving of claims, lost answers and recovery.
THEOREM ClaimIsHeld == Spec => []ClaimHeld
<1>1. Inv => ClaimHeld  BY DEF Inv, RunOK, ClaimHeld, Engaged
<1> QED  BY <1>1, Invariance, PTL

\* The local stop flag always answers to a durable intent for this claim
\* (StopRequestedForClaim, watchDurableStop).
THEOREM StopFlagIsJustified == Spec => []StopFlagJustified
<1>1. Inv => StopFlagJustified  BY DEF Inv, RunOK, StopFlagJustified
<1> QED  BY <1>1, Invariance, PTL

\* Both together: what a process believes is what the record says.
THEOREM BeliefsDoHold == Spec => []BeliefsHold
BY ClaimIsHeld, StopFlagIsJustified, PTL DEF BeliefsHold

\* A pending write that is not refused is legal for the present record.
LEMMA PutIsLegal ==
    ASSUME Inv, NEW o \in Observations, NEW held, NEW d,
           Pending(o, held, d), Matches(o, held), Put(o, d), NEW x \in Observations
    PROVE  rec'[x] = rec[x] \/ WriteOK(x, rec'[x])
<1>1. WriteOK(o, d)  BY DEF Pending, Matches
<1>2. rec'[x] = IF x = o THEN d ELSE rec[x]  BY DEF Put, Inv, TypeOK
<1> QED  BY <1>1, <1>2

\* Every step of the system that changes a record replaces it by a legal
\* successor of the record as it is at that very moment.
LEMMA WritesAreLegal ==
    ASSUME Inv, [Next]_vars, NEW x \in Observations
    PROVE  rec'[x] = rec[x] \/ WriteOK(x, rec'[x])
<1>1. CASE UNCHANGED rec  BY <1>1
<1>2. ASSUME NEW e \in Executors,
             RecoverWrite(e) \/ ClaimWrite(e) \/ OpWrite(e), ~UNCHANGED rec
      PROVE  rec'[x] = rec[x] \/ WriteOK(x, rec'[x])
  <2>1. /\ run[e].pc \in {"recoverCAS", "claimCAS"} \cup UpdateOps \/ run[e].granted
        /\ run[e].pc # "idle"
    BY <1>2 DEF RecoverWrite, ClaimWrite, OpWrite, Ops, UpdateOps, TransitionOps
  <2>2. PICK o \in Observations, held \in Nat, d \in Document :
          o = run[e].obs /\ held = run[e].held /\ d = run[e].doc
    BY <2>1, Facts DEF RunState
  <2>3. Pending(o, held, d)  BY <2>1, <2>2, Facts DEF RunOK
  <2>4. Matches(o, held) /\ Put(o, d)
    BY <1>2, <2>2 DEF RecoverWrite, ClaimWrite, OpWrite, Uncertain
  <2> QED  BY <2>3, <2>4, PutIsLegal
<1>3. ASSUME NEW e \in Executors, RenewWrite(e), ~UNCHANGED rec
      PROVE  rec'[x] = rec[x] \/ WriteOK(x, rec'[x])
  <2>1. lease[e].pc = "cas" /\ run[e].pc # "idle"
    BY <1>3, Facts DEF RenewWrite
  <2>2. PICK o \in Observations, held \in Nat, d \in Document :
          o = run[e].obs /\ held = lease[e].held /\ d = lease[e].doc
    BY <2>1, Facts DEF LeaseState
  <2>3. Pending(o, held, d)  BY <2>1, <2>2, Facts DEF LeaseOK
  <2>4. Matches(o, held) /\ Put(o, d)  BY <1>3, <2>2 DEF RenewWrite
  <2> QED  BY <2>3, <2>4, PutIsLegal
<1>4. ASSUME NEW q \in Requesters, RequestWrite(q), ~UNCHANGED rec
      PROVE  rec'[x] = rec[x] \/ WriteOK(x, rec'[x])
  <2>1. /\ ReqOK(req[q]) /\ req[q].pc = "cas"
        /\ req[q] \in RequestState
    BY <1>4 DEF Inv, TypeOK, RequestWrite
  <2>2. PICK o \in Observations, held \in Nat, d \in Document :
          o = req[q].obs /\ held = req[q].held /\ d = req[q].doc
    BY <2>1 DEF ReqOK, RequestState
  <2>3. Pending(o, held, d)  BY <2>1, <2>2 DEF ReqOK
  <2>4. Matches(o, held) /\ Put(o, d)  BY <1>4, <2>2 DEF RequestWrite
  <2> QED  BY <2>3, <2>4, PutIsLegal
<1>5. ASSUME NEW o \in Observations, CreateObservation(o)
      PROVE  rec'[x] = rec[x] \/ WriteOK(x, rec'[x])
  <2>1. rec[o] = Absent /\ Put(o, NewObservation)
    BY <1>5 DEF CreateObservation, Inv, DocOK
  <2>2. PICK d \in Document : d = NewObservation  BY ConstantTypes
  <2>3. d.state = "REQUESTED" /\ d.claim = NoClaim /\ d.completion = None
    BY <2>2 DEF NewObservation, Absent
  <2>4. rec[o].claim = NoClaim /\ ~rec[o].stop.requested /\ ~Frozen(rec[o])
    BY <2>1 DEF Absent, NoStop, Frozen, Terminal
  <2>5. WriteOK(o, d)  BY <2>3, <2>4 DEF WriteOK, DocOK, Frozen, Terminal, None
  <2>6. rec'[x] = IF x = o THEN d ELSE rec[x]  BY <2>1, <2>2 DEF Put, Inv, TypeOK
  <2> QED  BY <2>5, <2>6
<1>6. ASSUME NEW e \in Executors, ExecutorStep(e), ~UNCHANGED rec
      PROVE  RecoverWrite(e) \/ ClaimWrite(e) \/ OpWrite(e) \/ RenewWrite(e)
  <2>1. CASE RunnerStep(e)
    BY <1>6, <2>1 DEF RunnerStep, ClaimRead, OpRead, Load, BindFailed, Attach, StartFailed,
       WindowEnds, LeaseLost, Drain, LoadFailure, LoadResult, LoadFinal, LoadStop, Reload, Step
  <2> QED
    BY <1>6, <2>1 DEF ExecutorStep, RenewStep, RenewRead, Scan, RecoverRead, Start,
       TargetsChange, Step, WatchRead, WatchStop, ScanFails, Shutdown, Exit, Kill
<1>7. ASSUME NEW q \in Requesters, NEW o \in Observations, RequestRead(q, o)
      PROVE  UNCHANGED rec
  BY <1>7 DEF RequestRead
<1>8. ASSUME NEW o \in Observations, LeaseRunsOut(o)  PROVE UNCHANGED rec
  BY <1>8 DEF LeaseRunsOut
<1> QED  BY <1>1, <1>2, <1>3, <1>4, <1>5, <1>6, <1>7, <1>8 DEF Next, vars

\* A terminal record never changes, a claim never moves, an accepted stop
\* intent is never dropped and recovery writes only under an expired lease,
\* although every write replaces the whole status (casStatus,
\* encodeStatusWithClaim, TerminalizeExecutorLost).
THEOREM RecordIsKept == Spec => RecordKept
<1>1. Inv /\ [Next]_vars
        => [\A o \in Observations :
              /\ Frozen(rec[o]) => rec'[o] = rec[o]
              /\ rec[o].claim # NoClaim => rec'[o].claim = rec[o].claim
              /\ rec[o].stop.requested => rec'[o].stop = rec[o].stop
              /\ (rec'[o].completion = "EXECUTOR_LOST" /\ rec[o].completion # "EXECUTOR_LOST")
                     => expired[o]]_vars
  BY WritesAreLegal DEF WriteOK
<1> QED  BY <1>1, Invariance, PTL DEF Spec, RecordKept

------------------------------------------------------------------------------
(* The refinement: what the record looks like where a Runner is             *)

\* A document tells a consistent story.
DocSound(d) ==
    /\ d.started => d.bound
    /\ d.result # None => d.started
    /\ d.state = "RUNNING" => d.started
    /\ d.state \in {"ABSENT", "REQUESTED", "STARTING"} => d.result = None
    /\ d.state = "FAILED" => d.failure # None
    /\ d.state = "COMPLETED" => Lifecycle!Supported(d, d.completion)

\* The record an engaged Runner works on, unless recovery has closed it.
Expected(r, d) ==
    /\ r.pc \in {"load", "bind", "bindFailed", "attach", "running", "loadFailure",
                 "failure", "fail"} => d.state = "STARTING"
    /\ r.pc \in {"attach", "running"} => d.bound
    /\ r.pc = "fail" => d.failure # None
    /\ r.pc \in {"startFailed", "loadStop", "stopCompleting"} =>
        d.state \in {"STARTING", "RUNNING"}
    /\ r.pc \in {"loadStop", "stopCompleting", "stopComplete"} => d.stop.requested
    /\ r.pc \in {"window", "drain", "loadResult", "result"} =>
        d.state = "RUNNING" /\ d.result = None
    /\ r.pc = "completing" => d.state = "RUNNING"
    /\ r.pc \in {"loadFinal", "final", "complete", "stopComplete"} => d.state = "COMPLETING"
    /\ r.pc \in {"completing", "loadFinal", "final", "complete"} =>
        d.result = Attribution(r) /\ (r.reason \in TargetReasons => d.changes)

\* What the Runner has decided by itself.
Decided(r) ==
    /\ r.pc \in {"loadFailure", "failure"} => r.stage \in {"TARGET_BINDING", "GADGET_ATTACH"}
    /\ r.pc \in {"drain", "loadResult", "result", "completing", "loadFinal", "final",
                 "complete"} =>
        /\ r.reason \in {"COMPLETED", "STOPPED_BY_REQUEST"} \cup TargetReasons
        /\ r.reason \in TargetReasons => r.events

\* The domain operation of d that the document of a pending write is.
Computed(e, r, d) ==
    /\ r.pc = "recoverCAS" => r.doc = ExecutorLost(d) /\ d.claim # NoClaim
    /\ r.pc = "claimCAS" =>
        r.doc = Claimed(d, e) /\ d.state = "REQUESTED" /\ d.claim = NoClaim
    /\ r.pc = "bind" => r.doc = Bind(d) /\ ~d.bound
    /\ r.pc = "failure" => r.doc = RecordFailure(d, r.stage)
    /\ r.pc = "result" =>
        r.doc = RecordSourceResult(AppendTargetChange(d, r.events), Attribution(r))
    /\ r.pc = "final" => r.doc = RecordSourceResult(d, Attribution(r))
    /\ r.pc \in TransitionOps /\ r.granted =>
        r.doc = Transition(d, NextState[r.pc], FinalReason(r))

RunSync(e, r) ==
    /\ r.pc \notin Unclaimed => Frozen(rec[r.obs]) \/ Expected(r, rec[r.obs])
    /\ Decided(r)
    /\ r.pc # "idle" /\ r.held = rv[r.obs] => Computed(e, r, rec[r.obs])

LeaseSync(r, l) == l.pc = "cas" /\ l.held = rv[r.obs] => l.doc = rec[r.obs]

ReqSync(q) ==
    q.pc = "cas" /\ q.held = rv[q.obs] =>
        /\ q.doc = RequestStop(rec[q.obs])
        /\ CanRequestStop(rec[q.obs]) /\ ~rec[q.obs].stop.requested

Sync ==
    /\ \A o \in Observations : DocSound(rec[o])
    /\ \A e \in Executors : RunSync(e, run[e]) /\ LeaseSync(run[e], lease[e])
    /\ \A q \in Requesters : ReqSync(req[q])

------------------------------------------------------------------------------
(* Shapes of steps                                                          *)

\* What another writer may do to a record somebody is working on.
Tolerates(c, d) ==
    \/ Frozen(d)
    \/ /\ d.state = c.state /\ d.bound = c.bound /\ d.failure = c.failure
       /\ d.result = c.result /\ d.changes = c.changes
       /\ c.stop.requested => d.stop.requested

\* A Runner's expectation survives what other writers do.
LEMMA ExpectationsSurvive ==
    ASSUME NEW r, NEW c, NEW d, Tolerates(c, d), Frozen(c) \/ Expected(r, c)
    PROVE  Frozen(d) \/ Expected(r, d)
BY DEF Tolerates, Frozen, Expected

\* Where nothing is pending, nothing is claimed about the document.
LEMMA NothingPending ==
    ASSUME NEW e, NEW r, NEW d, ~r.granted,
           r.pc \notin {"recoverCAS", "claimCAS"} \cup UpdateOps
    PROVE  Computed(e, r, d)
BY DEF Computed, UpdateOps

\* The fields that decide what is expected of a Runner.
LEMMA SameStanding ==
    ASSUME NEW e, NEW r, NEW s, RunSync(e, r), s.pc = r.pc, s.obs = r.obs,
           s.held = r.held, s.doc = r.doc, s.granted = r.granted, s.stage = r.stage,
           s.reason = r.reason, s.failed = r.failed, s.events = r.events
    PROVE  RunSync(e, s)
<1>1. Attribution(s) = Attribution(r) /\ FinalReason(s) = FinalReason(r)
  BY DEF Attribution, FinalReason
<1>2. Decided(s)  BY DEF RunSync, Decided
<1>3. \A d : Expected(r, d) => Expected(s, d)  BY <1>1 DEF Expected
<1>4. \A d : Computed(e, r, d) => Computed(e, s, d)  BY <1>1 DEF Computed
<1> QED  BY <1>2, <1>3, <1>4 DEF RunSync

\* An idle executor.
LEMMA IdleSync == ASSUME NEW e, NEW l, l.pc # "cas" PROVE RunSync(e, Idle) /\ LeaseSync(Idle, l)
BY DEF RunSync, LeaseSync, Decided, Idle, Unclaimed

\* An executor moves and the record does not.
LEMMA QuietSync ==
    ASSUME Inv, Sync, NEW e \in Executors, NEW r, NEW l, RunSync(e, r), LeaseSync(r, l),
           run' = [run EXCEPT ![e] = r], lease' = [lease EXCEPT ![e] = l],
           UNCHANGED <<rec, rv, req>>
    PROVE  Sync'
<1>1. \A o \in Observations : DocSound(rec[o])'  BY DEF Sync
<1>2. ASSUME NEW x \in Executors  PROVE (RunSync(x, run[x]) /\ LeaseSync(run[x], lease[x]))'
  <2>1. RunSync(x, run[x]) /\ LeaseSync(run[x], lease[x])  BY DEF Sync
  <2>2. CASE x = e
    <3>1. run'[x] = r /\ lease'[x] = l  BY <2>2 DEF Inv, TypeOK
    <3> QED  BY <2>2, <3>1 DEF RunSync, LeaseSync
  <2>3. CASE x # e
    <3>1. run'[x] = run[x] /\ lease'[x] = lease[x]  BY <2>3 DEF Inv, TypeOK
    <3> QED  BY <2>1, <3>1 DEF RunSync, LeaseSync
  <2> QED  BY <2>2, <2>3
<1>3. ASSUME NEW q \in Requesters  PROVE ReqSync(req[q])'
  <2>1. ReqSync(req[q])  BY DEF Sync
  <2> QED  BY <2>1 DEF ReqSync
<1> QED  BY <1>1, <1>2, <1>3 DEF Sync

\* The Runner moves; neither the record nor the renewer does.
LEMMA LocalSync ==
    ASSUME Inv, Sync, NEW e \in Executors, NEW r, RunSync(e, r),
           r.obs = run[e].obs \/ lease[e].pc = "off", Goto(e, r),
           UNCHANGED <<rec, rv, lease, req>>
    PROVE  Sync'
<1>1. PICK l : l = lease[e]  OBVIOUS
<1>2. lease' = [lease EXCEPT ![e] = l]  BY <1>1 DEF Inv, TypeOK
<1>3. LeaseSync(run[e], lease[e])  BY DEF Sync
<1>4. LeaseSync(r, l)  BY <1>1, <1>3 DEF LeaseSync
<1> QED  BY <1>2, <1>4, QuietSync DEF Goto

\* Whoever does not move when a write lands: its own pending write on that
\* record is stale from now on.
LEMMA OthersStay ==
    ASSUME Inv, Sync, NEW o \in Observations, NEW d, Put(o, d)
    PROVE  /\ \A x \in Executors :
                /\ run'[x] = run[x] /\ lease'[x] = lease[x]
                /\ run[x].pc \notin Unclaimed /\ run[x].obs = o => Tolerates(rec[o], d)
                => (RunSync(x, run[x]) /\ LeaseSync(run[x], lease[x]))'
           /\ \A q \in Requesters : req'[q] = req[q] => ReqSync(req[q])'
<1>1. \A x \in Observations : /\ rv[x] \in Nat
                              /\ rec'[x] = IF x = o THEN d ELSE rec[x]
                              /\ rv'[x] = IF x = o THEN rv[x] + 1 ELSE rv[x]
  BY DEF Inv, TypeOK, Put
<1>2. ASSUME NEW x \in Executors, run'[x] = run[x], lease'[x] = lease[x],
             run[x].pc \notin Unclaimed /\ run[x].obs = o => Tolerates(rec[o], d)
      PROVE  (RunSync(x, run[x]) /\ LeaseSync(run[x], lease[x]))'
  <2>1. PICK r, l : r = run[x] /\ l = lease[x]  OBVIOUS
  <2>2. /\ RunSync(x, r) /\ LeaseSync(r, l) /\ RunOK(x, r) /\ LeaseOK(r, l)
        /\ r \in RunState /\ l \in LeaseState
    BY <2>1, Facts DEF Sync
  <2>3. CASE r.pc = "idle"
    <3>1. l.pc = "off"  BY <2>2, <2>3 DEF LeaseOK
    <3>2. Decided(r)  BY <2>2 DEF RunSync
    <3> QED  BY <1>2, <2>1, <2>3, <3>1, <3>2 DEF RunSync, LeaseSync, Unclaimed
  <2>4. CASE r.pc # "idle" /\ r.obs # o
    <3>1. r.obs \in Observations  BY <2>2, <2>4 DEF RunOK
    <3>2. rec'[r.obs] = rec[r.obs] /\ rv'[r.obs] = rv[r.obs]  BY <1>1, <2>4, <3>1
    <3> QED  BY <1>2, <2>1, <2>2, <3>2 DEF RunSync, LeaseSync
  <2>5. CASE r.pc # "idle" /\ r.obs = o
    <3>1. rv[o] \in Nat /\ rv'[o] = rv[o] + 1 /\ rec'[o] = d  BY <1>1
    <3>2. r.pc \in {"recoverCAS", "claimCAS"} \cup UpdateOps \/ r.granted => r.held # rv'[o]
      <4>1. r.held \in Nat  BY <2>2 DEF RunState
      <4> QED  BY <2>2, <2>5, <3>1, <4>1 DEF RunOK, Pending
    <3>3. l.pc = "cas" => l.held # rv'[o]
      <4>1. l.held \in Nat  BY <2>2 DEF LeaseState
      <4> QED  BY <2>2, <2>5, <3>1, <4>1 DEF LeaseOK, Pending
    <3>4. r.held = rv'[o] => Computed(x, r, d)  BY <3>2, NothingPending
    <3>5. r.pc \notin Unclaimed => Frozen(d) \/ Expected(r, d)
      BY <1>2, <2>1, <2>2, <2>5, ExpectationsSurvive DEF RunSync
    <3>6. Decided(r)  BY <2>2 DEF RunSync
    <3> QED  BY <1>2, <2>1, <2>5, <3>1, <3>3, <3>4, <3>5, <3>6 DEF RunSync, LeaseSync
  <2> QED  BY <2>3, <2>4, <2>5
<1>3. ASSUME NEW q \in Requesters, req'[q] = req[q]  PROVE ReqSync(req[q])'
  <2>1. PICK k \in RequestState : k = req[q]  BY DEF Inv, TypeOK
  <2>2. ReqSync(k) /\ ReqOK(k)  BY <2>1 DEF Inv, Sync
  <2>3. k.pc = "cas" => k.obs \in Observations /\ k.held \in Nat /\ k.held <= rv[k.obs]
    BY <2>2 DEF ReqOK, Pending, RequestState
  <2>4. k.pc = "cas" /\ k.held = rv'[k.obs] => k.obs # o /\ rv'[k.obs] = rv[k.obs] /\ rec'[k.obs] = rec[k.obs]
    BY <1>1, <2>3
  <2> QED  BY <1>3, <2>1, <2>2, <2>4 DEF ReqSync
<1> QED  BY <1>2, <1>3

\* An executor's write lands: the others tolerate it, or have no stake in it.
LEMMA PutSync ==
    ASSUME Inv, Sync, NEW o \in Observations, NEW d, Put(o, d), DocSound(d),
           NEW e \in Executors, NEW r, NEW l, RunSync(e, r)', LeaseSync(r, l)',
           run' = [run EXCEPT ![e] = r], lease' = [lease EXCEPT ![e] = l], UNCHANGED req,
           \A x \in Executors \ {e} :
                run[x].pc \notin Unclaimed /\ run[x].obs = o => Tolerates(rec[o], d)
    PROVE  Sync'
<1>1. \A x \in Observations : DocSound(rec[x])'
  <2>1. \A x \in Observations : rec'[x] = IF x = o THEN d ELSE rec[x]
    BY DEF Inv, TypeOK, Put
  <2> QED  BY <2>1 DEF Sync
<1>2. ASSUME NEW x \in Executors  PROVE (RunSync(x, run[x]) /\ LeaseSync(run[x], lease[x]))'
  <2>1. CASE x = e
    <3>1. run'[x] = r /\ lease'[x] = l  BY <2>1 DEF Inv, TypeOK
    <3> QED  BY <2>1, <3>1 DEF RunSync, LeaseSync
  <2>2. CASE x # e
    <3>1. run'[x] = run[x] /\ lease'[x] = lease[x]  BY <2>2 DEF Inv, TypeOK
    <3> QED  BY <2>2, <3>1, OthersStay
  <2> QED  BY <2>1, <2>2
<1> QED  BY <1>1, <1>2, OthersStay DEF Sync

------------------------------------------------------------------------------
(* Steps that leave the record alone                                        *)

\* What every action may use about the executor that takes it.
LEMMA SyncFacts ==
    ASSUME Sync, NEW e \in Executors
    PROVE  RunSync(e, run[e]) /\ LeaseSync(run[e], lease[e])
BY DEF Sync

\* A Runner that gives up, or a process that ends.
LEMMA GiveUpSync ==
    ASSUME Inv, Sync, NEW e \in Executors, run[e].pc \notin {"window", "drain"},
           Goto(e, Idle), UNCHANGED <<rec, rv, lease, req>>
    PROVE  Sync'
<1>1. lease[e].pc = "off"  BY Facts
<1>2. RunSync(e, Idle)  BY <1>1, IdleSync
<1> QED  BY <1>1, <1>2, LocalSync

\* The scan prepares a recovery, or a run.
LEMMA ScanSync ==
    ASSUME Inv, Sync, NEW e \in Executors, Scan(e)
    PROVE  Sync'
<1>1. PICK o \in Observations : RecoverRead(e, o) \/ Start(e, o)  BY DEF Scan
<1>2. lease[e].pc = "off" /\ UNCHANGED <<rec, rv, lease, req>>
  BY <1>1, Facts DEF RecoverRead, Start
<1>3. CASE RecoverRead(e, o)
  <2>1. PICK r : r = [Idle EXCEPT !.pc = "recoverCAS", !.obs = o, !.held = rv[o],
                                  !.doc = ExecutorLost(rec[o])]
    OBVIOUS
  <2>2. r.pc = "recoverCAS" /\ r.obs = o /\ r.doc = ExecutorLost(rec[o]) /\ ~r.granted
    BY <2>1 DEF Idle
  <2>3. rec[o].claim # NoClaim  BY <1>3 DEF RecoverRead, RecoveryEligible, NoClaim
  <2>4. RunSync(e, r)
    BY <2>2, <2>3 DEF RunSync, Decided, Computed, Unclaimed, TransitionOps
  <2> QED  BY <1>2, <1>3, <2>1, <2>4, LocalSync DEF RecoverRead
<1>4. CASE Start(e, o)
  <2>1. PICK r : r = [Idle EXCEPT !.pc = "claim", !.obs = o]  OBVIOUS
  <2>2. r.pc = "claim" /\ ~r.granted  BY <2>1 DEF Idle
  <2>3. RunSync(e, r)
    BY <2>2 DEF RunSync, Decided, Computed, Unclaimed, TransitionOps
  <2> QED  BY <1>2, <1>4, <2>1, <2>3, LocalSync DEF Start
<1> QED  BY <1>1, <1>3, <1>4

\* A claim is computed from the record as it is read.
LEMMA ClaimReadSync ==
    ASSUME Inv, Sync, NEW e \in Executors, ClaimRead(e)
    PROVE  Sync'
<1>1. PICK o \in Observations : o = run[e].obs  BY Facts DEF ClaimRead
<1>2. run[e].pc = "claim" /\ UNCHANGED <<rec, rv, lease, req>>  BY DEF ClaimRead
<1>3. CASE Goto(e, Idle)  BY <1>2, <1>3, GiveUpSync
<1>4. CASE /\ Claimable(o)
           /\ Goto(e, [run[e] EXCEPT !.pc = "claimCAS", !.held = rv[o],
                                     !.doc = Claimed(rec[o], e)])
  <2>1. PICK r : r = [run[e] EXCEPT !.pc = "claimCAS", !.held = rv[o],
                                    !.doc = Claimed(rec[o], e)]
    OBVIOUS
  <2>2. r.pc = "claimCAS" /\ r.obs = o /\ r.doc = Claimed(rec[o], e)
    BY <1>1, <2>1, Facts DEF RunState
  <2>3. rec[o].state = "REQUESTED" /\ rec[o].claim = NoClaim
    BY <1>4 DEF Claimable, Inv, DocOK
  <2>4. RunSync(e, r)
    BY <2>2, <2>3 DEF RunSync, Decided, Computed, Unclaimed, TransitionOps
  <2> QED  BY <1>1, <1>2, <1>4, <2>1, <2>2, <2>4, LocalSync
<1> QED  BY <1>1, <1>3, <1>4 DEF ClaimRead

\* An operation that failed before or without a write.
LEMMA AfterErrorSync ==
    ASSUME NEW e, NEW r \in RunState, NEW d, r.pc \in Ops,
           Frozen(d) \/ Expected(r, d)
    PROVE  /\ \/ AfterError(r) = Idle
              \/ /\ AfterError(r).obs = r.obs /\ ~AfterError(r).granted
                 /\ AfterError(r).pc \in {"bindFailed", "startFailed"}
           /\ Decided(AfterError(r))
           /\ AfterError(r).pc \notin Unclaimed => Frozen(d) \/ Expected(AfterError(r), d)
<1>1. CASE r.pc = "bind"
  <2>1. PICK s : s = [r EXCEPT !.pc = "bindFailed", !.granted = FALSE, !.doc = Absent, !.held = 0]
    OBVIOUS
  <2>2. s.pc = "bindFailed" /\ s.obs = r.obs /\ ~s.granted  BY <2>1 DEF RunState
  <2>3. AfterError(r) = s  BY <1>1, <2>1 DEF AfterError
  <2>4. Decided(s)  BY <2>2 DEF Decided
  <2>5. Expected(r, d) => Expected(s, d)  BY <1>1, <2>2 DEF Expected
  <2> QED  BY <2>2, <2>3, <2>4, <2>5
<1>2. CASE r.pc = "running"
  <2>1. PICK s : s = [r EXCEPT !.pc = "startFailed", !.granted = FALSE, !.doc = Absent, !.held = 0]
    OBVIOUS
  <2>2. s.pc = "startFailed" /\ s.obs = r.obs /\ ~s.granted  BY <2>1 DEF RunState
  <2>3. AfterError(r) = s  BY <1>2, <2>1 DEF AfterError
  <2>4. Decided(s)  BY <2>2 DEF Decided
  <2>5. Expected(r, d) => Expected(s, d)  BY <1>2, <2>2 DEF Expected
  <2> QED  BY <2>2, <2>3, <2>4, <2>5
<1>3. CASE r.pc \notin {"bind", "running"}
  <2>1. AfterError(r) = Idle  BY <1>3 DEF AfterError
  <2> QED  BY <2>1 DEF Idle, Decided, Unclaimed
<1> QED  BY <1>1, <1>2, <1>3

\* A fenced operation reads: a transition computes its document now.
LEMMA OpReadSync ==
    ASSUME Inv, Sync, NEW e \in Executors, OpRead(e)
    PROVE  Sync'
<1>1. PICK r \in RunState : r = run[e]  BY Facts
<1>2. /\ r.pc \in Ops /\ ~r.granted /\ UNCHANGED <<rec, rv, lease, req>>
      /\ RunSync(e, r) /\ r.pc \notin Unclaimed /\ lease[e].pc = "off"
      /\ r.pc \notin {"idle", "recoverCAS", "claimCAS"}
  BY <1>1, Facts, SyncFacts DEF OpRead, Ops, UpdateOps, TransitionOps, Unclaimed
<1>3. CASE Goto(e, AfterError(r))
  <2>1. PICK s : s = AfterError(r)  OBVIOUS
  <2>2. Frozen(rec[r.obs]) \/ Expected(r, rec[r.obs])  BY <1>2 DEF RunSync
  <2>3. CASE s = Idle
    BY <1>1, <1>2, <1>3, <2>1, <2>3, IdleSync, LocalSync
  <2>4. CASE s # Idle
    <3>1. /\ s.obs = r.obs /\ ~s.granted /\ s.pc \in {"bindFailed", "startFailed"}
          /\ Decided(s) /\ (Frozen(rec[r.obs]) \/ Expected(s, rec[r.obs]))
      BY <1>2, <2>1, <2>2, <2>4, AfterErrorSync DEF Unclaimed
    <3>2. Computed(e, s, rec[s.obs])  BY <3>1, NothingPending DEF UpdateOps
    <3>3. RunSync(e, s)  BY <3>1, <3>2 DEF RunSync
    <3> QED  BY <1>2, <1>3, <2>1, <3>3, LocalSync
  <2> QED  BY <2>3, <2>4
<1>4. CASE /\ Matches(r.obs, r.held)
           /\ Goto(e, [r EXCEPT !.granted = TRUE, !.doc = OpDocument(r)])
  <2>1. PICK s : s = [r EXCEPT !.granted = TRUE, !.doc = OpDocument(r)]  OBVIOUS
  <2>2. /\ s.pc = r.pc /\ s.obs = r.obs /\ s.held = r.held /\ s.doc = OpDocument(r)
        /\ s.stage = r.stage /\ s.reason = r.reason /\ s.failed = r.failed
        /\ s.events = r.events
    BY <2>1 DEF RunState
  <2>3. Attribution(s) = Attribution(r) /\ FinalReason(s) = FinalReason(r)
    BY <2>2 DEF Attribution, FinalReason
  <2>4. Decided(s)  BY <1>2, <2>2 DEF RunSync, Decided
  <2>5. Expected(r, rec[r.obs]) => Expected(s, rec[r.obs])  BY <2>2, <2>3 DEF Expected
  <2>6. Computed(e, r, rec[r.obs])  BY <1>2, <1>4 DEF RunSync, Matches
  <2>7. Computed(e, s, rec[r.obs])
    <3>1. CASE r.pc \in UpdateOps
      <4>1. s.doc = r.doc  BY <2>2, <3>1 DEF OpDocument
      <4>2. r.pc \notin TransitionOps  BY <3>1 DEF UpdateOps, TransitionOps
      <4> QED  BY <2>2, <2>3, <2>6, <4>1, <4>2 DEF Computed
    <3>2. CASE r.pc \notin UpdateOps
      <4>1. s.doc = Transition(rec[r.obs], NextState[r.pc], FinalReason(r))
        BY <2>2, <3>2 DEF OpDocument
      <4> QED  BY <1>2, <2>2, <2>3, <3>2, <4>1 DEF Computed, UpdateOps
    <3> QED  BY <3>1, <3>2
  <2>8. RunSync(e, s)  BY <1>2, <2>2, <2>4, <2>5, <2>7 DEF RunSync
  <2> QED  BY <1>1, <1>2, <1>4, <2>1, <2>2, <2>8, LocalSync
<1> QED  BY <1>1, <1>3, <1>4 DEF OpRead, Authority

\* The flags a watcher or a shutdown raises do not matter here, and a dead
\* process expects nothing.
LEMMA ProcessSync ==
    ASSUME Inv, Sync, NEW e \in Executors,
           \/ WatchRead(e) \/ WatchStop(e) \/ ScanFails(e) \/ Shutdown(e) \/ Exit(e)
           \/ Kill(e)
    PROVE  Sync'
<1>1. PICK r \in RunState : r = run[e]  BY Facts
<1>2. RunSync(e, r) /\ UNCHANGED <<rec, rv, req>>
  BY <1>1, SyncFacts DEF WatchRead, WatchStop, ScanFails, Shutdown, Exit, Kill
<1>3. ASSUME NEW s, UNCHANGED lease, Goto(e, s), s.pc = r.pc, s.obs = r.obs,
             s.held = r.held, s.doc = r.doc, s.granted = r.granted, s.stage = r.stage,
             s.reason = r.reason, s.failed = r.failed, s.events = r.events
      PROVE  Sync'
  <2>1. RunSync(e, s)  BY <1>2, <1>3, SameStanding
  <2> QED  BY <1>1, <1>2, <1>3, <2>1, LocalSync
<1>4. CASE WatchRead(e)
  <2>1. PICK s : s = [r EXCEPT !.seen = TRUE]  OBVIOUS
  <2>2. Goto(e, s) /\ UNCHANGED lease  BY <1>1, <1>4, <2>1 DEF WatchRead
  <2> QED  BY <1>3, <2>1, <2>2 DEF RunState
<1>5. CASE WatchStop(e)
  <2>1. PICK s : s = [r EXCEPT !.stop = TRUE, !.cancelled = TRUE]  OBVIOUS
  <2>2. Goto(e, s) /\ UNCHANGED lease  BY <1>1, <1>5, <2>1 DEF WatchStop
  <2> QED  BY <1>3, <2>1, <2>2 DEF RunState
<1>6. CASE UNCHANGED <<run, lease>>
  <2>1. Goto(e, r)  BY <1>1, <1>6 DEF Goto, Inv, TypeOK
  <2> QED  BY <1>3, <1>6, <2>1
<1>7. CASE UNCHANGED lease /\ run' = [run EXCEPT ![e].cancelled = TRUE]
  <2>1. PICK s : s = [r EXCEPT !.cancelled = TRUE]  OBVIOUS
  <2>2. Goto(e, s)  BY <1>1, <1>7, <2>1 DEF Goto
  <2> QED  BY <1>3, <1>7, <2>1, <2>2 DEF RunState
<1>8. CASE Kill(e)
  <2>1. RunSync(e, Idle) /\ LeaseSync(Idle, NoRenewal)  BY IdleSync DEF NoRenewal
  <2> QED  BY <1>2, <1>8, <2>1, QuietSync DEF Kill
<1> QED  BY <1>4, <1>5, <1>6, <1>7, <1>8 DEF ScanFails, Shutdown, Exit

\* The Runner between its store operations while it is starting or stopping.
LEMMA StartupSync ==
    ASSUME Inv, Sync, NEW e \in Executors,
           BindFailed(e) \/ Attach(e) \/ StartFailed(e) \/ LoadStop(e)
    PROVE  Sync'
<1>1. PICK r \in RunState : r = run[e]  BY Facts
<1>2. /\ r.pc \in {"bindFailed", "attach", "startFailed", "loadStop"} /\ ~r.granted
      /\ UNCHANGED <<rec, rv, lease, req>>
  BY <1>1, Facts DEF BindFailed, Attach, StartFailed, LoadStop, Step, RunOK, Ops, UpdateOps,
     TransitionOps
<1>3. PICK d : d = rec[r.obs]  OBVIOUS
<1>4. Frozen(d) \/ Expected(r, d)  BY <1>1, <1>2, <1>3, SyncFacts DEF RunSync, Unclaimed
<1>5. r.stop => d.stop.requested  BY <1>1, <1>3, Facts DEF RunOK
<1>6. CASE Goto(e, Idle)  BY <1>1, <1>2, <1>6, GiveUpSync
<1>7. ASSUME NEW s, Goto(e, s), s.obs = r.obs, ~s.granted, Frozen(d) \/ Expected(s, d),
             s.pc \in {"loadStop", "stopCompleting", "running", "loadFailure"}, Decided(s)
      PROVE  Sync'
  <2>1. Computed(e, s, d)  BY <1>7, NothingPending DEF UpdateOps
  <2>2. RunSync(e, s)  BY <1>3, <1>7, <2>1 DEF RunSync
  <2> QED  BY <1>1, <1>2, <1>7, <2>2, LocalSync
<1>8. CASE Goto(e, LoadStopFrom(r)) /\ d.stop.requested /\ r.pc # "loadStop"
  <2>1. PICK s : s = [r EXCEPT !.pc = "loadStop", !.held = 0]  OBVIOUS
  <2>2. s.pc = "loadStop" /\ s.obs = r.obs /\ ~s.granted  BY <1>2, <2>1 DEF RunState
  <2>3. Decided(s)  BY <2>2 DEF Decided
  <2>4. Expected(r, d) => Expected(s, d)  BY <1>2, <1>8, <2>2 DEF Expected
  <2> QED  BY <1>4, <1>7, <1>8, <2>1, <2>2, <2>3, <2>4 DEF LoadStopFrom
<1>9. CASE BindFailed(e)
  <2>1. \/ Goto(e, Idle)
        \/ r.pc = "bindFailed" /\ (d.stop.requested \/ r.stop) /\ Goto(e, LoadStopFrom(r))
    BY <1>1, <1>3, <1>9 DEF BindFailed, Step
  <2> QED  BY <1>5, <1>6, <1>8, <2>1
<1>10. CASE StartFailed(e)
  <2>1. Goto(e, Idle) \/ (r.pc = "startFailed" /\ r.stop /\ Goto(e, LoadStopFrom(r)))
    BY <1>1, <1>10 DEF StartFailed, Step
  <2> QED  BY <1>5, <1>6, <1>8, <2>1
<1>11. CASE Attach(e)
  <2>1. r.pc = "attach"  BY <1>1, <1>11 DEF Attach, Step
  <2>2. CASE Goto(e, [r EXCEPT !.pc = "running"])
    <3>1. PICK s : s = [r EXCEPT !.pc = "running"]  OBVIOUS
    <3>2. s.pc = "running" /\ s.obs = r.obs /\ ~s.granted  BY <1>2, <3>1 DEF RunState
    <3>3. Decided(s)  BY <3>2 DEF Decided
    <3>4. Expected(r, d) => Expected(s, d)  BY <2>1, <3>2 DEF Expected
    <3> QED  BY <1>4, <1>7, <2>2, <3>1, <3>2, <3>3, <3>4
  <2>3. CASE Goto(e, [r EXCEPT !.pc = "loadFailure", !.held = 0, !.stage = "GADGET_ATTACH"])
    <3>1. PICK s : s = [r EXCEPT !.pc = "loadFailure", !.held = 0, !.stage = "GADGET_ATTACH"]
      OBVIOUS
    <3>2. s.pc = "loadFailure" /\ s.obs = r.obs /\ ~s.granted /\ s.stage = "GADGET_ATTACH"
      BY <1>2, <3>1 DEF RunState
    <3>3. Decided(s)  BY <3>2 DEF Decided
    <3>4. Expected(r, d) => Expected(s, d)  BY <2>1, <3>2 DEF Expected
    <3> QED  BY <1>4, <1>7, <2>3, <3>1, <3>2, <3>3, <3>4
  <2>4. r.stop /\ Goto(e, LoadStopFrom(r)) => Sync'  BY <1>5, <1>8, <2>1
  <2> QED  BY <1>1, <1>11, <2>2, <2>3, <2>4 DEF Attach, Step
<1>12. CASE LoadStop(e)
  <2>1. r.pc = "loadStop"  BY <1>1, <1>12 DEF LoadStop, Step
  <2>2. CASE Goto(e, [r EXCEPT !.pc = "stopCompleting", !.held = rv[r.obs]])
    <3>1. PICK s : s = [r EXCEPT !.pc = "stopCompleting", !.held = rv[r.obs]]  OBVIOUS
    <3>2. s.pc = "stopCompleting" /\ s.obs = r.obs /\ ~s.granted
      BY <1>2, <3>1 DEF RunState
    <3>3. Decided(s)  BY <3>2 DEF Decided
    <3>4. Expected(r, d) => Expected(s, d)  BY <2>1, <3>2 DEF Expected
    <3> QED  BY <1>4, <1>7, <2>2, <3>1, <3>2, <3>3, <3>4
  <2> QED  BY <1>1, <1>6, <1>12, <2>2 DEF LoadStop, Step
<1> QED  BY <1>9, <1>10, <1>11, <1>12

\* The window, its end and the drain: the record is RUNNING without results.
LEMMA WindowSync ==
    ASSUME Inv, Sync, NEW e \in Executors,
           TargetsChange(e) \/ WindowEnds(e) \/ LeaseLost(e) \/ Drain(e)
    PROVE  Sync'
<1>1. PICK r \in RunState : r = run[e]  BY Facts
<1>2. r.pc \in {"window", "drain"} /\ ~r.granted /\ UNCHANGED <<rec, rv, req>>
  BY <1>1, Facts DEF TargetsChange, WindowEnds, LeaseLost, Drain, Step, RunOK, Ops, UpdateOps,
     TransitionOps
<1>3. PICK d : d = rec[r.obs]  OBVIOUS
<1>4. (Frozen(d) \/ Expected(r, d)) /\ Decided(r)
  BY <1>1, <1>2, <1>3, SyncFacts DEF RunSync, Unclaimed
<1>5. ASSUME NEW s, s.obs = r.obs, ~s.granted, Decided(s),
             s.pc \in {"window", "drain", "loadResult"}
      PROVE  RunSync(e, s)
  <2>1. Computed(e, s, d)  BY <1>5, NothingPending DEF UpdateOps
  <2>2. Expected(r, d) => Expected(s, d)  BY <1>2, <1>5 DEF Expected
  <2> QED  BY <1>3, <1>4, <1>5, <2>1, <2>2 DEF RunSync
<1>6. CASE TargetsChange(e)
  <2>1. PICK s : s = [r EXCEPT !.events = TRUE]  OBVIOUS
  <2>2. s.pc = "window" /\ s.obs = r.obs /\ ~s.granted
    BY <1>1, <1>2, <1>6, <2>1 DEF RunState, TargetsChange, Step
  <2>3. RunSync(e, s)  BY <1>5, <2>2 DEF Decided
  <2> QED  BY <1>1, <1>2, <1>6, <2>1, <2>2, <2>3, LocalSync DEF TargetsChange, Step
<1>7. CASE WindowEnds(e)
  <2>1. CASE \E reason \in TargetReasons :
               Goto(e, [r EXCEPT !.pc = "drain", !.held = 0, !.reason = reason, !.events = TRUE])
    <3>1. PICK reason \in TargetReasons :
            Goto(e, [r EXCEPT !.pc = "drain", !.held = 0, !.reason = reason, !.events = TRUE])
      BY <2>1
    <3>2. PICK s : s = [r EXCEPT !.pc = "drain", !.held = 0, !.reason = reason, !.events = TRUE]
      OBVIOUS
    <3>3. s.pc = "drain" /\ s.obs = r.obs /\ ~s.granted /\ s.reason = reason /\ s.events
      BY <1>2, <3>2 DEF RunState
    <3>4. RunSync(e, s)  BY <1>5, <3>3 DEF Decided
    <3> QED  BY <1>1, <1>2, <1>7, <3>1, <3>2, <3>3, <3>4, LocalSync DEF WindowEnds
  <2>2. CASE Goto(e, [r EXCEPT !.pc = "drain", !.held = 0, !.reason =
                      IF r.cancelled THEN "STOPPED_BY_REQUEST" ELSE "COMPLETED"])
    <3>1. PICK reason : reason = IF r.cancelled THEN "STOPPED_BY_REQUEST" ELSE "COMPLETED"
      OBVIOUS
    <3>2. PICK s : s = [r EXCEPT !.pc = "drain", !.held = 0, !.reason = reason]  OBVIOUS
    <3>3. s.pc = "drain" /\ s.obs = r.obs /\ ~s.granted /\ s.reason = reason
      BY <1>2, <3>2 DEF RunState
    <3>4. reason \in {"COMPLETED", "STOPPED_BY_REQUEST"} /\ reason \notin TargetReasons
      BY <3>1 DEF TargetReasons
    <3>5. RunSync(e, s)  BY <1>5, <3>3, <3>4 DEF Decided
    <3> QED  BY <1>1, <1>2, <1>7, <2>2, <3>1, <3>2, <3>3, <3>5, LocalSync DEF WindowEnds
  <2> QED  BY <1>1, <1>7, <2>1, <2>2 DEF WindowEnds, Step
<1>8. CASE LeaseLost(e)
  <2>1. RunSync(e, Idle) /\ LeaseSync(Idle, NoRenewal)  BY IdleSync DEF NoRenewal
  <2> QED  BY <1>2, <1>8, <2>1, QuietSync DEF LeaseLost, Step, Goto
<1>9. CASE Drain(e)
  <2>1. PICK failed \in BOOLEAN :
          Step(e, "drain", [r EXCEPT !.pc = "loadResult", !.failed = failed])
    BY <1>1, <1>9 DEF Drain
  <2>2. PICK s : s = [r EXCEPT !.pc = "loadResult", !.failed = failed]  OBVIOUS
  <2>3. /\ s.pc = "loadResult" /\ s.obs = r.obs /\ ~s.granted
        /\ s.reason = r.reason /\ s.events = r.events /\ r.pc = "drain"
    BY <1>1, <1>2, <2>1, <2>2 DEF RunState, Step
  <2>4. RunSync(e, s)  BY <1>4, <1>5, <2>3 DEF Decided
  <2>5. LeaseSync(s, NoRenewal)  BY DEF LeaseSync, NoRenewal
  <2> QED  BY <1>2, <1>9, <2>1, <2>2, <2>4, <2>5, QuietSync DEF Drain, Step, Goto
<1> QED  BY <1>6, <1>7, <1>8, <1>9

\* The Runner computes its next document from the record it re-reads.
LEMMA LoadSync ==
    ASSUME Inv, Sync, NEW e \in Executors,
           Load(e) \/ LoadFailure(e) \/ LoadResult(e) \/ LoadFinal(e)
    PROVE  Sync'
<1>1. PICK r \in RunState : r = run[e]  BY Facts
<1>2. /\ r.pc \in {"load", "loadFailure", "loadResult", "loadFinal"} /\ ~r.granted
      /\ UNCHANGED <<rec, rv, lease, req>>
  BY <1>1, Facts DEF Load, LoadFailure, LoadResult, LoadFinal, Reload, Step, RunOK, Ops,
     UpdateOps, TransitionOps
<1>3. PICK d : d = rec[r.obs]  OBVIOUS
<1>4. (Frozen(d) \/ Expected(r, d)) /\ Decided(r)
  BY <1>1, <1>2, <1>3, SyncFacts DEF RunSync, Unclaimed
<1>5. CASE Goto(e, Idle)  BY <1>1, <1>2, <1>5, GiveUpSync
<1>6. ASSUME NEW s, Goto(e, s), s.obs = r.obs, ~s.granted, Decided(s), Computed(e, s, d),
             Frozen(d) \/ Expected(s, d)
      PROVE  Sync'
  <2>1. RunSync(e, s)  BY <1>3, <1>6 DEF RunSync
  <2> QED  BY <1>1, <1>2, <1>6, <2>1, LocalSync
<1>7. CASE Load(e)
  <2>1. r.pc = "load"  BY <1>1, <1>7 DEF Load, Step
  <2>2. CASE ~d.bound /\ Goto(e, [r EXCEPT !.pc = "bind", !.doc = Bind(d)])
    <3>1. PICK s : s = [r EXCEPT !.pc = "bind", !.doc = Bind(d)]  OBVIOUS
    <3>2. s.pc = "bind" /\ s.obs = r.obs /\ ~s.granted /\ s.doc = Bind(d)
      BY <1>2, <3>1 DEF RunState
    <3>3. Decided(s)  BY <3>2 DEF Decided
    <3>4. Computed(e, s, d)  BY <2>2, <3>2 DEF Computed, TransitionOps
    <3>5. Expected(r, d) => Expected(s, d)  BY <2>1, <3>2 DEF Expected
    <3> QED  BY <1>4, <1>6, <2>2, <3>1, <3>2, <3>3, <3>4, <3>5
  <2>3. CASE Goto(e, [r EXCEPT !.pc = "loadFailure", !.held = 0, !.stage = "TARGET_BINDING"])
    <3>1. PICK s : s = [r EXCEPT !.pc = "loadFailure", !.held = 0, !.stage = "TARGET_BINDING"]
      OBVIOUS
    <3>2. s.pc = "loadFailure" /\ s.obs = r.obs /\ ~s.granted /\ s.stage = "TARGET_BINDING"
      BY <1>2, <3>1 DEF RunState
    <3>3. Decided(s)  BY <3>2 DEF Decided
    <3>4. Computed(e, s, d)  BY <3>2, NothingPending DEF UpdateOps
    <3>5. Expected(r, d) => Expected(s, d)  BY <2>1, <3>2 DEF Expected
    <3> QED  BY <1>4, <1>6, <2>3, <3>1, <3>2, <3>3, <3>4, <3>5
  <2> QED  BY <1>1, <1>3, <1>5, <1>7, <2>2, <2>3 DEF Load, Step
<1>8. CASE LoadFailure(e)
  <2>1. PICK x, s : x = RecordFailure(d, r.stage)
                    /\ s = [r EXCEPT !.pc = "failure", !.held = rv[r.obs], !.doc = x]
    OBVIOUS
  <2>2. /\ s.pc = "failure" /\ s.obs = r.obs /\ ~s.granted /\ s.doc = x /\ s.stage = r.stage
        /\ r.pc = "loadFailure"
    BY <1>1, <1>2, <1>8, <2>1 DEF RunState, LoadFailure, Reload, Step
  <2>3. Decided(s)  BY <1>4, <2>2 DEF Decided
  <2>4. Computed(e, s, d)  BY <2>1, <2>2 DEF Computed, TransitionOps
  <2>5. Expected(r, d) => Expected(s, d)  BY <2>2 DEF Expected
  <2>6. Goto(e, Idle) \/ Goto(e, s)  BY <1>1, <1>3, <1>8, <2>1 DEF LoadFailure, Reload, Step
  <2> QED  BY <1>4, <1>5, <1>6, <2>2, <2>3, <2>4, <2>5, <2>6
<1>9. CASE LoadResult(e)
  <2>1. PICK x, s : x = RecordSourceResult(AppendTargetChange(d, r.events), Attribution(r))
                    /\ s = [r EXCEPT !.pc = "result", !.held = rv[r.obs], !.doc = x]
    OBVIOUS
  <2>2. /\ s.pc = "result" /\ s.obs = r.obs /\ ~s.granted /\ s.doc = x /\ r.pc = "loadResult"
        /\ s.reason = r.reason /\ s.events = r.events /\ s.failed = r.failed
    BY <1>1, <1>2, <1>9, <2>1 DEF RunState, LoadResult, Reload, Step
  <2>3. Decided(s)  BY <1>4, <2>2 DEF Decided
  <2>4. Attribution(s) = Attribution(r)  BY <2>2 DEF Attribution
  <2>5. Computed(e, s, d)  BY <2>1, <2>2, <2>4 DEF Computed, TransitionOps
  <2>6. Expected(r, d) => Expected(s, d)  BY <2>2 DEF Expected
  <2>7. Goto(e, Idle) \/ Goto(e, s)  BY <1>1, <1>3, <1>9, <2>1 DEF LoadResult, Reload, Step
  <2> QED  BY <1>4, <1>5, <1>6, <2>2, <2>3, <2>5, <2>6, <2>7
<1>10. CASE LoadFinal(e)
  <2>1. PICK x, s : x = RecordSourceResult(d, Attribution(r))
                    /\ s = [r EXCEPT !.pc = "final", !.held = rv[r.obs], !.doc = x]
    OBVIOUS
  <2>2. /\ s.pc = "final" /\ s.obs = r.obs /\ ~s.granted /\ s.doc = x /\ r.pc = "loadFinal"
        /\ s.reason = r.reason /\ s.events = r.events /\ s.failed = r.failed
    BY <1>1, <1>2, <1>10, <2>1 DEF RunState, LoadFinal, Reload, Step
  <2>3. Decided(s)  BY <1>4, <2>2 DEF Decided
  <2>4. Attribution(s) = Attribution(r)  BY <2>2 DEF Attribution
  <2>5. Computed(e, s, d)  BY <2>1, <2>2, <2>4 DEF Computed, TransitionOps
  <2>6. Expected(r, d) => Expected(s, d)  BY <2>2, <2>4 DEF Expected
  <2>7. Goto(e, Idle) \/ Goto(e, s)  BY <1>1, <1>3, <1>10, <2>1 DEF LoadFinal, Reload, Step
  <2> QED  BY <1>4, <1>5, <1>6, <2>2, <2>3, <2>5, <2>6, <2>7
<1> QED  BY <1>7, <1>8, <1>9, <1>10

\* The renewer will write back exactly what it has read.
LEMMA RenewReadSync ==
    ASSUME Inv, Sync, NEW e \in Executors, RenewRead(e)
    PROVE  Sync'
<1>1. PICK r : r = run[e]  OBVIOUS
<1>2. RunSync(e, r) /\ run' = [run EXCEPT ![e] = r] /\ UNCHANGED <<rec, rv, req>>
  BY <1>1, SyncFacts DEF RenewRead, Inv, TypeOK
<1>3. CASE lease' = [lease EXCEPT ![e] = [NoRenewal EXCEPT !.pc = "failed"]]
  <2>1. LeaseSync(r, [NoRenewal EXCEPT !.pc = "failed"])  BY DEF LeaseSync, NoRenewal
  <2> QED  BY <1>2, <1>3, <2>1, QuietSync
<1>4. CASE \E retry, count : lease' = [lease EXCEPT ![e] =
                [pc |-> "cas", held |-> rv[r.obs], doc |-> rec[r.obs], retry |-> retry,
                 count |-> count]]
  <2>1. PICK l : l.doc = rec[r.obs] /\ lease' = [lease EXCEPT ![e] = l]  BY <1>4
  <2>2. LeaseSync(r, l)  BY <2>1 DEF LeaseSync
  <2> QED  BY <1>2, <2>1, <2>2, QuietSync
<1> QED  BY <1>1, <1>3, <1>4 DEF RenewRead

------------------------------------------------------------------------------
(* Writes                                                                   *)

\* What each fenced write does to a record that is as its Runner expects:
\* the new document is consistent, and it is what the Runner expects next.
LEMMA OpEffect ==
    ASSUME NEW e, NEW r \in RunState, NEW c \in Document, DocSound(c), ~Frozen(c),
           r.pc \in Ops, r.pc \in TransitionOps => r.granted, Expected(r, c), Decided(r),
           Computed(e, r, c), NEW s, s.pc = Successor[r.pc], s.reason = r.reason,
           s.failed = r.failed
    PROVE  /\ DocSound(r.doc)
           /\ s.pc # "idle" => Expected(s, r.doc)
           /\ r.pc = "bind" => r.doc.state = "STARTING"
           /\ r.pc = "running" => r.doc.state = "RUNNING"
<1>0. Attribution(s) = Attribution(r) /\ Attribution(r) \in AttributionState /\ None \notin AttributionState
  BY DEF Attribution, AttributionState, None
<1>1. CASE r.pc = "bind"
  <2>1. r.doc = Bind(c) /\ c.state = "STARTING" /\ s.pc = "attach"
    BY <1>1 DEF Computed, Expected, Successor, Ops, UpdateOps
  <2>2. /\ r.doc.state = c.state /\ r.doc.bound /\ r.doc.started = c.started
        /\ r.doc.result = c.result /\ r.doc.failure = c.failure
    BY <2>1 DEF Bind, Document
  <2>3. DocSound(r.doc)  BY <2>1, <2>2 DEF DocSound
  <2>4. Expected(s, r.doc)  BY <2>1, <2>2 DEF Expected
  <2> QED  BY <1>1, <2>1, <2>2, <2>3, <2>4
<1>2. CASE r.pc = "failure"
  <2>1. r.doc = RecordFailure(c, r.stage) /\ c.state = "STARTING" /\ s.pc = "fail"
    BY <1>2 DEF Computed, Expected, Successor, Ops, UpdateOps
  <2>2. /\ r.doc.state = c.state /\ r.doc.bound = c.bound /\ r.doc.started = c.started
        /\ r.doc.result = c.result /\ r.doc.failure = r.stage
    BY <2>1 DEF RecordFailure, Document
  <2>3. r.stage # None  BY <1>2 DEF Decided, None
  <2>4. DocSound(r.doc)  BY <2>1, <2>2 DEF DocSound
  <2>5. Expected(s, r.doc)  BY <2>1, <2>2, <2>3 DEF Expected
  <2> QED  BY <1>2, <2>4, <2>5
<1>3. CASE r.pc = "result"
  <2>1. /\ r.doc = RecordSourceResult(AppendTargetChange(c, r.events), Attribution(r))
        /\ c.state = "RUNNING" /\ s.pc = "completing"
    BY <1>3 DEF Computed, Expected, Successor, Ops, UpdateOps
  <2>2. /\ r.doc.state = c.state /\ r.doc.bound = c.bound /\ r.doc.started = c.started
        /\ r.doc.result = Attribution(r) /\ r.doc.changes = (c.changes \/ r.events)
    BY <2>1 DEF RecordSourceResult, AppendTargetChange, Document
  <2>3. r.reason \in TargetReasons => r.events  BY <1>3 DEF Decided
  <2>4. DocSound(r.doc)  BY <2>1, <2>2 DEF DocSound
  <2>5. Expected(s, r.doc)  BY <1>0, <2>1, <2>2, <2>3 DEF Expected
  <2> QED  BY <1>3, <2>4, <2>5
<1>4. CASE r.pc = "final"
  <2>1. /\ r.doc = RecordSourceResult(c, Attribution(r))
        /\ c.state = "COMPLETING" /\ c.result = Attribution(r) /\ s.pc = "complete"
    BY <1>4 DEF Computed, Expected, Successor, Ops, UpdateOps
  <2>2. /\ r.doc.state = c.state /\ r.doc.bound = c.bound /\ r.doc.started = c.started
        /\ r.doc.result = Attribution(r) /\ r.doc.changes = c.changes
    BY <2>1 DEF RecordSourceResult, Document
  <2>3. DocSound(r.doc)  BY <2>1, <2>2 DEF DocSound
  <2>4. Expected(s, r.doc)  BY <1>0, <1>4, <2>1, <2>2 DEF Expected
  <2> QED  BY <1>4, <2>3, <2>4
<1>5. CASE r.pc \in TransitionOps
  <2>1. PICK next : next = NextState[r.pc]  OBVIOUS
  <2>2. PICK reason : reason = FinalReason(r)  OBVIOUS
  <2>3. r.doc = Transition(c, next, reason)  BY <1>5, <2>1, <2>2 DEF Computed
  <2>4. /\ r.doc.state = next /\ r.doc.bound = c.bound /\ r.doc.result = c.result
        /\ r.doc.failure = c.failure /\ r.doc.changes = c.changes /\ r.doc.stop = c.stop
        /\ r.doc.started = (c.started \/ next = "RUNNING")
        /\ r.doc.completion = IF next \in Terminal THEN reason ELSE c.completion
    BY <2>3 DEF Transition, Document
  <2>5. CASE r.pc = "running"
    <3>1. next = "RUNNING" /\ s.pc = "window" /\ c.bound /\ c.state = "STARTING"
      BY <2>1, <2>5 DEF NextState, TransitionOps, Successor, Ops, Expected
    <3>2. DocSound(r.doc)  BY <2>4, <3>1 DEF DocSound
    <3>3. Expected(s, r.doc)  BY <2>4, <3>1 DEF DocSound, Expected
    <3> QED  BY <2>4, <2>5, <3>1, <3>2, <3>3
  <2>6. CASE r.pc = "fail"
    <3>1. next = "FAILED" /\ s.pc = "idle" /\ c.failure # None
      BY <2>1, <2>6 DEF NextState, TransitionOps, Successor, Ops, Expected
    <3>2. DocSound(r.doc)  BY <2>4, <3>1 DEF DocSound
    <3> QED  BY <2>6, <3>1, <3>2
  <2>7. CASE r.pc = "completing"
    <3>1. /\ next = "COMPLETING" /\ s.pc = "loadFinal" /\ c.result = Attribution(r)
          /\ r.reason \in TargetReasons => c.changes
      BY <2>1, <2>7 DEF NextState, TransitionOps, Successor, Ops, Expected
    <3>2. DocSound(r.doc)  BY <2>4, <3>1 DEF DocSound
    <3>3. Expected(s, r.doc)  BY <1>0, <2>4, <3>1 DEF Expected
    <3> QED  BY <2>7, <3>2, <3>3
  <2>8. CASE r.pc = "stopCompleting"
    <3>1. next = "COMPLETING" /\ s.pc = "stopComplete" /\ c.stop.requested
      BY <2>1, <2>8 DEF NextState, TransitionOps, Successor, Ops, Expected
    <3>2. DocSound(r.doc)  BY <2>4, <3>1 DEF DocSound
    <3>3. Expected(s, r.doc)  BY <2>4, <3>1 DEF Expected
    <3> QED  BY <2>8, <3>2, <3>3
  <2>9. CASE r.pc = "stopComplete"
    <3>1. next = "COMPLETED" /\ s.pc = "idle" /\ c.stop.requested /\ reason = "STOPPED_BY_REQUEST"
      BY <2>1, <2>2, <2>9 DEF NextState, TransitionOps, Successor, Ops, Expected, FinalReason
    <3>2. Lifecycle!Supported(r.doc, r.doc.completion)
      BY <2>4, <3>1 DEF Lifecycle!Supported, Terminal
    <3>3. DocSound(r.doc)  BY <2>4, <3>1, <3>2 DEF DocSound
    <3> QED  BY <2>9, <3>1, <3>3
  <2>10. CASE r.pc = "complete"
    <3>1. /\ next = "COMPLETED" /\ s.pc = "idle" /\ c.result = Attribution(r)
          /\ r.reason \in TargetReasons => c.changes
          /\ reason = IF r.failed THEN "BACKEND_FAILURE" ELSE r.reason
          /\ r.reason \in {"COMPLETED", "STOPPED_BY_REQUEST"} \cup TargetReasons
      BY <2>1, <2>2, <2>10
      DEF NextState, TransitionOps, Successor, Ops, Expected, FinalReason, Decided
    <3>2. Lifecycle!Supported(r.doc, r.doc.completion)
      BY <2>4, <3>1 DEF Lifecycle!Supported, Lifecycle!TargetReasons, TargetReasons, Terminal,
         Attribution
    <3>3. DocSound(r.doc)  BY <2>4, <3>1, <3>2 DEF DocSound
    <3> QED  BY <2>10, <3>1, <3>3
  <2> QED  BY <1>5, <2>5, <2>6, <2>7, <2>8, <2>9, <2>10 DEF TransitionOps
<1> QED  BY <1>1, <1>2, <1>3, <1>4, <1>5 DEF Ops, UpdateOps

\* Only the holder of a claim works on its record.
LEMMA AloneOnRecord ==
    ASSUME Inv, NEW e \in Executors, NEW x \in Executors, x # e, Engaged(e), Engaged(x)
    PROVE  run[x].obs # run[e].obs
BY EngagedFacts

\* A fenced write is refused, lands, or lands without an answer.
LEMMA OpWriteSync ==
    ASSUME Inv, Sync, NEW e \in Executors, OpWrite(e)
    PROVE  Sync'
<1>1. PICK r \in RunState : r = run[e]  BY Facts
<1>2. /\ r.pc \in Ops /\ r.granted /\ UNCHANGED req /\ RunSync(e, r) /\ RunOK(e, r)
      /\ r.pc \notin Unclaimed /\ lease[e].pc = "off" /\ Engaged(e)
      /\ r.pc \notin {"idle", "recoverCAS", "claimCAS", "window", "drain"}
  BY <1>1, Facts, SyncFacts DEF OpWrite, Ops, UpdateOps, TransitionOps, Unclaimed, Engaged
<1>3. PICK o \in Observations : o = r.obs  BY <1>2 DEF RunOK
<1>4. PICK l : l = lease[e]  OBVIOUS
<1>5. ASSUME NEW s, NEW d, s = AfterError(r), s # Idle, Frozen(d) \/ Expected(r, d)
      PROVE  /\ s.obs = o /\ s.pc \in {"bindFailed", "startFailed"} /\ Decided(s)
             /\ Frozen(d) \/ Expected(s, d)
             /\ \A c : Computed(e, s, c)
  <2>1. /\ s.obs = r.obs /\ ~s.granted /\ s.pc \in {"bindFailed", "startFailed"}
        /\ Decided(s) /\ (Frozen(d) \/ Expected(s, d))
    BY <1>2, <1>5, AfterErrorSync DEF Unclaimed
  <2>2. \A c : Computed(e, s, c)  BY <2>1, NothingPending DEF UpdateOps
  <2> QED  BY <1>3, <2>1, <2>2
<1>6. CASE Goto(e, AfterError(r)) /\ UNCHANGED <<rec, rv, lease>>
  <2>1. CASE AfterError(r) = Idle
    BY <1>1, <1>2, <1>6, <2>1, GiveUpSync
  <2>2. CASE AfterError(r) # Idle
    <3>1. PICK s : s = AfterError(r)  OBVIOUS
    <3>2. Frozen(rec[o]) \/ Expected(r, rec[o])  BY <1>2, <1>3 DEF RunSync
    <3>3. RunSync(e, s)  BY <1>5, <2>2, <3>1, <3>2 DEF RunSync
    <3> QED  BY <1>2, <1>6, <3>1, <3>3, LocalSync
  <2> QED  BY <2>1, <2>2
<1>7. CASE Matches(o, r.held) /\ Put(o, r.doc)
  <2>1. /\ Computed(e, r, rec[o]) /\ WriteOK(o, r.doc)
    BY <1>2, <1>3, <1>7 DEF RunSync, Matches, RunOK, Pending
  <2>2. /\ rec[o] \in Document /\ DocSound(rec[o]) /\ ~Frozen(rec[o])
        /\ Expected(r, rec[o]) /\ Decided(r)
    BY <1>2, <1>3, <2>1 DEF Inv, TypeOK, Sync, RunSync, WriteOK
  <2>3. rec'[o] = r.doc /\ rv[o] \in Nat  BY <1>7 DEF Put, Inv, TypeOK
  <2>4. PICK t : t = [r EXCEPT !.pc = Successor[r.pc], !.held = rv[o] + 1,
                               !.doc = Absent, !.granted = FALSE]
    OBVIOUS
  <2>5. /\ t.pc = Successor[r.pc] /\ t.obs = o /\ t.reason = r.reason /\ t.failed = r.failed
        /\ t.stage = r.stage /\ t.events = r.events /\ ~t.granted
    BY <1>3, <2>4 DEF RunState
  <2>6. /\ DocSound(r.doc)
        /\ t.pc # "idle" => Expected(t, r.doc)
        /\ r.pc = "bind" => r.doc.state = "STARTING"
        /\ r.pc = "running" => r.doc.state = "RUNNING"
    BY <1>2, <2>1, <2>2, <2>5, OpEffect
  <2>7. \A x \in Executors \ {e} :
          run[x].pc \notin Unclaimed /\ run[x].obs = o => Tolerates(rec[o], r.doc)
    BY <1>1, <1>2, <1>3, AloneOnRecord DEF Engaged
  <2>8. CASE Goto(e, AfterError(r)) /\ UNCHANGED lease
    <3>1. PICK s : s = AfterError(r)  OBVIOUS
    <3>2. lease' = [lease EXCEPT ![e] = l] /\ LeaseSync(s, l)'
      BY <1>2, <1>4, <2>8 DEF Inv, TypeOK, LeaseSync
    <3>3. RunSync(e, s)'
      <4>1. CASE s = Idle
        BY <4>1 DEF RunSync, Decided, Idle, Unclaimed
      <4>2. CASE s # Idle
        <5>1. CASE r.pc = "bind"
          <6>1. s.pc = "bindFailed" /\ s.obs = o  BY <3>1, <5>1, <1>3 DEF AfterError, RunState
          <6>2. Expected(s, r.doc)  BY <2>6, <5>1, <6>1 DEF Expected
          <6>3. Decided(s) /\ Computed(e, s, rec'[o])
            BY <1>5, <2>2, <3>1, <4>2
          <6> QED  BY <2>3, <6>1, <6>2, <6>3 DEF RunSync
        <5>2. CASE r.pc = "running"
          <6>1. s.pc = "startFailed" /\ s.obs = o  BY <3>1, <5>2, <1>3 DEF AfterError, RunState
          <6>2. Expected(s, r.doc)  BY <2>6, <5>2, <6>1 DEF Expected
          <6>3. Decided(s) /\ Computed(e, s, rec'[o])
            BY <1>5, <2>2, <3>1, <4>2
          <6> QED  BY <2>3, <6>1, <6>2, <6>3 DEF RunSync
        <5>3. CASE r.pc \notin {"bind", "running"}  BY <3>1, <4>2, <5>3 DEF AfterError
        <5> QED  BY <5>1, <5>2, <5>3
      <4> QED  BY <4>1, <4>2
    <3> QED  BY <1>2, <1>7, <2>6, <2>7, <2>8, <3>1, <3>2, <3>3, PutSync DEF Goto
  <2>9. CASE Goto(e, AfterWrite(r)) /\ StartRenewal(e)
    <3>1. PICK m : lease' = [lease EXCEPT ![e] = m] /\ m.pc # "cas"
      <4>1. CASE r.pc = "running"
        <5>1. PICK m : m = [NoRenewal EXCEPT !.pc = "idle"]  OBVIOUS
        <5>2. m.pc = "idle"  BY <5>1 DEF NoRenewal
        <5> QED  BY <1>1, <2>9, <4>1, <5>1, <5>2 DEF StartRenewal
      <4>2. CASE r.pc # "running"
        <5>1. lease' = [lease EXCEPT ![e] = l]
          BY <1>1, <1>4, <2>9, <4>2 DEF StartRenewal, Inv, TypeOK
        <5> QED  BY <1>2, <1>4, <5>1
      <4> QED  BY <4>1, <4>2
    <3>2. CASE Successor[r.pc] = "idle"
      <4>1. AfterWrite(r) = Idle  BY <3>2 DEF AfterWrite
      <4>2. RunSync(e, Idle)' /\ LeaseSync(Idle, m)'
        BY <3>1 DEF RunSync, LeaseSync, Decided, Idle, Unclaimed
      <4> QED  BY <1>2, <1>7, <2>6, <2>7, <2>9, <3>1, <4>1, <4>2, PutSync DEF Goto
    <3>3. CASE Successor[r.pc] # "idle"
      <4>1. AfterWrite(r) = t  BY <1>3, <2>4, <3>3 DEF AfterWrite
      <4>2. t.pc \in {"attach", "window", "fail", "completing", "loadFinal", "complete",
                      "stopComplete"}
        BY <1>2, <2>5, <3>3 DEF Successor, Ops, UpdateOps, TransitionOps
      <4>3. Computed(e, t, r.doc)  BY <2>5, <4>2, NothingPending DEF UpdateOps
      <4>4. Decided(t)
        <5>1. t.pc \in {"completing", "loadFinal", "complete"} =>
                r.pc \in {"result", "completing", "final"}
          BY <1>2, <2>5 DEF Successor, Ops, UpdateOps, TransitionOps
        <5> QED  BY <2>2, <2>5, <4>2, <5>1 DEF Decided
      <4>5. RunSync(e, t)'
        BY <2>3, <2>5, <2>6, <4>2, <4>3, <4>4 DEF RunSync
      <4>6. LeaseSync(t, m)'  BY <3>1 DEF LeaseSync
      <4> QED  BY <1>2, <1>7, <2>6, <2>7, <2>9, <3>1, <4>1, <4>5, <4>6, PutSync DEF Goto
    <3> QED  BY <3>2, <3>3
  <2> QED  BY <1>1, <1>6, <1>7, <2>8, <2>9 DEF OpWrite
<1> QED  BY <1>1, <1>3, <1>6, <1>7 DEF OpWrite, Uncertain

\* Recovery closes the record, or finds that it has moved.
LEMMA RecoverWriteSync ==
    ASSUME Inv, Sync, NEW e \in Executors, RecoverWrite(e)
    PROVE  Sync'
<1>1. PICK r \in RunState : r = run[e]  BY Facts
<1>2. /\ r.pc = "recoverCAS" /\ UNCHANGED <<lease, req>> /\ RunSync(e, r) /\ Goto(e, Idle)
      /\ lease[e].pc = "off"
  BY <1>1, Facts, SyncFacts DEF RecoverWrite
<1>3. PICK o \in Observations : o = r.obs  BY <1>1, <1>2, Facts
<1>4. CASE UNCHANGED <<rec, rv>>  BY <1>1, <1>2, <1>4, GiveUpSync
<1>5. CASE Matches(o, r.held) /\ Put(o, r.doc)
  <2>1. r.doc = ExecutorLost(rec[o]) /\ rec[o] \in Document /\ DocSound(rec[o])
    BY <1>2, <1>3, <1>5 DEF RunSync, Computed, Matches, Inv, TypeOK, Sync
  <2>2. /\ r.doc.state = "FAILED" /\ r.doc.failure = "EXECUTOR_LOSS"
        /\ r.doc.started = rec[o].started /\ r.doc.bound = rec[o].bound
        /\ r.doc.result = rec[o].result
    BY <2>1 DEF ExecutorLost, Document
  <2>3. DocSound(r.doc)  BY <2>1, <2>2 DEF DocSound, None
  <2>4. Tolerates(rec[o], r.doc)  BY <2>2 DEF Tolerates, Frozen, Terminal
  <2>5. PICK l : l = lease[e]  OBVIOUS
  <2>6. lease' = [lease EXCEPT ![e] = l]  BY <1>2, <2>5 DEF Inv, TypeOK
  <2>7. RunSync(e, Idle)' /\ LeaseSync(Idle, l)'
    BY <1>2, <2>5 DEF RunSync, LeaseSync, Decided, Idle, Unclaimed
  <2> QED  BY <1>2, <1>5, <2>3, <2>4, <2>6, <2>7, PutSync DEF Goto
<1> QED  BY <1>1, <1>3, <1>4, <1>5 DEF RecoverWrite, Uncertain

\* Nobody works on a record that is not claimed.
LEMMA UnclaimedIsFree ==
    ASSUME Inv, NEW o \in Observations, rec[o].claim = NoClaim, NEW x \in Executors,
           run[x].pc \notin Unclaimed
    PROVE  run[x].obs # o
BY EngagedFacts DEF Engaged

\* The winner of a claim finds the record STARTING.
LEMMA ClaimWriteSync ==
    ASSUME Inv, Sync, NEW e \in Executors, ClaimWrite(e)
    PROVE  Sync'
<1>1. PICK r \in RunState : r = run[e]  BY Facts
<1>2. /\ r.pc = "claimCAS" /\ UNCHANGED <<lease, req>> /\ RunSync(e, r) /\ ~r.granted
      /\ lease[e].pc = "off"
  BY <1>1, Facts, SyncFacts DEF ClaimWrite, RunOK, Ops, UpdateOps, TransitionOps
<1>3. PICK o \in Observations : o = r.obs  BY <1>1, <1>2, Facts
<1>4. CASE Goto(e, Idle) /\ UNCHANGED <<rec, rv>>  BY <1>1, <1>2, <1>4, GiveUpSync
<1>5. CASE Matches(o, r.held) /\ Put(o, r.doc)
  <2>1. /\ r.doc = Claimed(rec[o], e) /\ rec[o].state = "REQUESTED" /\ rec[o].claim = NoClaim
        /\ rec[o] \in Document /\ DocSound(rec[o])
    BY <1>2, <1>3, <1>5 DEF RunSync, Computed, Matches, Inv, TypeOK, Sync
  <2>2. /\ r.doc.state = "STARTING" /\ r.doc.started = rec[o].started
        /\ r.doc.bound = rec[o].bound /\ r.doc.result = rec[o].result
    <3>1. PICK y \in Document : y = Transition(rec[o], "STARTING", None)
      BY <2>1, DocumentOps DEF ExecutionState
    <3>2. /\ y.state = "STARTING" /\ y.started = rec[o].started
          /\ y.bound = rec[o].bound /\ y.result = rec[o].result
      BY <2>1, <3>1 DEF Transition, Document
    <3> QED  BY <2>1, <3>1, <3>2 DEF Claimed, Document
  <2>3. DocSound(r.doc)  BY <2>1, <2>2 DEF DocSound
  <2>4. \A x \in Executors \ {e} :
          run[x].pc \notin Unclaimed /\ run[x].obs = o => Tolerates(rec[o], r.doc)
    BY <2>1, UnclaimedIsFree
  <2>5. PICK l : l = lease[e]  OBVIOUS
  <2>6. lease' = [lease EXCEPT ![e] = l]  BY <1>2, <2>5 DEF Inv, TypeOK
  <2>7. CASE Goto(e, Idle)
    <3>1. RunSync(e, Idle)' /\ LeaseSync(Idle, l)'
      BY <1>2, <2>5 DEF RunSync, LeaseSync, Decided, Idle, Unclaimed
    <3> QED  BY <1>2, <1>5, <2>3, <2>4, <2>6, <2>7, <3>1, PutSync DEF Goto
  <2>8. CASE Goto(e, [r EXCEPT !.pc = "load", !.claim = r.doc.claim,
                               !.held = rv[o] + 1, !.doc = Absent])
    <3>1. PICK s : s = [r EXCEPT !.pc = "load", !.claim = r.doc.claim,
                                 !.held = rv[o] + 1, !.doc = Absent]
      OBVIOUS
    <3>2. s.pc = "load" /\ s.obs = o /\ ~s.granted  BY <1>2, <1>3, <3>1 DEF RunState
    <3>3. rec'[o] = r.doc  BY <1>5 DEF Put, Inv, TypeOK
    <3>4. Computed(e, s, r.doc)  BY <3>2, NothingPending DEF UpdateOps
    <3>5. Expected(s, r.doc) /\ Decided(s)  BY <2>2, <3>2 DEF Expected, Decided
    <3>6. RunSync(e, s)'  BY <3>2, <3>3, <3>4, <3>5 DEF RunSync
    <3>7. LeaseSync(s, l)'  BY <1>2, <2>5 DEF LeaseSync
    <3>8. run' = [run EXCEPT ![e] = s]  BY <2>8, <3>1 DEF Goto
    <3> QED  BY <1>2, <1>5, <2>3, <2>4, <2>6, <3>6, <3>7, <3>8, PutSync
  <2> QED  BY <1>1, <1>3, <1>4, <2>7, <2>8 DEF ClaimWrite
<1> QED  BY <1>1, <1>3, <1>4, <1>5 DEF ClaimWrite

\* A renewal writes the record back unchanged, or is refused.
LEMMA RenewWriteSync ==
    ASSUME Inv, Sync, NEW e \in Executors, RenewWrite(e)
    PROVE  Sync'
<1>1. PICK r \in RunState, l \in LeaseState : r = run[e] /\ l = lease[e]  BY Facts
<1>2. /\ l.pc = "cas" /\ UNCHANGED <<run, req>> /\ RunSync(e, r) /\ LeaseSync(r, l)
      /\ RunOK(e, r) /\ r.pc \in {"window", "drain"} /\ run' = [run EXCEPT ![e] = r]
  BY <1>1, Facts, SyncFacts DEF RenewWrite, LeaseOK, Inv, TypeOK
<1>3. PICK o \in Observations : o = r.obs  BY <1>2 DEF RunOK
<1>4. PICK m : lease' = [lease EXCEPT ![e] = m] /\ m.pc # "cas"
  <2>1. PICK p \in {"idle", "failed", "again"} :
          lease' = [lease EXCEPT ![e] = [NoRenewal EXCEPT !.pc = p, !.count = lease[e].count]]
    BY DEF RenewWrite
  <2>2. PICK m : m = [NoRenewal EXCEPT !.pc = p, !.count = lease[e].count]  OBVIOUS
  <2>3. m.pc = p  BY <2>2 DEF NoRenewal
  <2> QED  BY <2>1, <2>2, <2>3
<1>5. CASE UNCHANGED <<rec, rv>>
  <2>1. LeaseSync(r, m)  BY <1>4 DEF LeaseSync
  <2> QED  BY <1>2, <1>4, <1>5, <2>1, QuietSync
<1>6. CASE Matches(o, l.held) /\ Put(o, l.doc)
  <2>1. l.doc = rec[o] /\ DocSound(rec[o])
    BY <1>2, <1>3, <1>6 DEF LeaseSync, Matches, Sync
  <2>2. Tolerates(rec[o], l.doc)  BY <2>1 DEF Tolerates
  <2>3. rec'[o] = rec[o]  BY <1>6, <2>1 DEF Put, Inv, TypeOK
  <2>4. RunSync(e, r)'
    <3>1. ~r.granted  BY <1>2 DEF RunOK, Ops, UpdateOps, TransitionOps
    <3>2. Computed(e, r, rec[o])  BY <1>2, <3>1, NothingPending DEF UpdateOps
    <3> QED  BY <1>2, <1>3, <2>3, <3>2 DEF RunSync
  <2>5. LeaseSync(r, m)'  BY <1>4 DEF LeaseSync
  <2> QED  BY <1>2, <1>4, <1>6, <2>1, <2>2, <2>4, <2>5, PutSync
<1> QED  BY <1>1, <1>3, <1>5, <1>6 DEF RenewWrite

\* A stop request adds the intent and nothing else.
LEMMA RequestSync ==
    ASSUME Inv, Sync, NEW q \in Requesters,
           RequestWrite(q) \/ \E o \in Observations : RequestRead(q, o)
    PROVE  Sync'
<1>1. UNCHANGED <<run, lease>>  BY DEF RequestWrite, RequestRead
<1>2. ASSUME NEW k, UNCHANGED <<rec, rv>>, req' = [req EXCEPT ![q] = k], ReqSync(k)
      PROVE  Sync'
  <2>1. \A o \in Observations : DocSound(rec[o])'  BY <1>2 DEF Sync
  <2>2. ASSUME NEW e \in Executors  PROVE (RunSync(e, run[e]) /\ LeaseSync(run[e], lease[e]))'
    <3>1. RunSync(e, run[e]) /\ LeaseSync(run[e], lease[e])  BY SyncFacts
    <3> QED  BY <1>1, <1>2, <3>1 DEF RunSync, LeaseSync
  <2>3. ASSUME NEW x \in Requesters  PROVE ReqSync(req[x])'
    <3>1. req'[x] = IF x = q THEN k ELSE req[x]  BY <1>2 DEF Inv, TypeOK
    <3>2. ReqSync(req[x])  BY DEF Sync
    <3>3. CASE x = q
      <4>1. req'[x] = k  BY <3>1, <3>3
      <4> QED  BY <1>2, <4>1 DEF ReqSync
    <3>4. CASE x # q
      <4>1. req'[x] = req[x]  BY <3>1, <3>4
      <4> QED  BY <1>2, <3>2, <4>1 DEF ReqSync
    <3> QED  BY <3>3, <3>4
  <2> QED  BY <2>1, <2>2, <2>3 DEF Sync
<1>3. ReqSync(NoRequest)  BY DEF ReqSync, NoRequest
<1>4. CASE \E o \in Observations : RequestRead(q, o)
  <2>1. PICK o \in Observations : RequestRead(q, o)  BY <1>4
  <2>2. PICK k : k = [pc |-> "cas", obs |-> o, held |-> rv[o], doc |-> RequestStop(rec[o])]
    OBVIOUS
  <2>3. ReqSync(k)  BY <2>1, <2>2 DEF ReqSync, RequestRead, StopEligible
  <2> QED  BY <1>2, <2>1, <2>2, <2>3 DEF RequestRead
<1>5. CASE RequestWrite(q)
  <2>1. PICK k \in RequestState : k = req[q]  BY DEF Inv, TypeOK
  <2>2. /\ k.pc = "cas" /\ req' = [req EXCEPT ![q] = NoRequest] /\ k.obs \in Observations
        /\ ReqSync(k)
    BY <1>5, <2>1 DEF RequestWrite, Inv, ReqOK, Sync
  <2>3. CASE UNCHANGED <<rec, rv>>  BY <1>2, <1>3, <2>2, <2>3
  <2>4. CASE Matches(k.obs, k.held) /\ Put(k.obs, k.doc)
    <3>0. PICK o \in Observations : o = k.obs  BY <2>2
    <3>1. PICK d : o = k.obs /\ d = k.doc  BY <3>0
    <3>2. /\ d = RequestStop(rec[o]) /\ CanRequestStop(rec[o]) /\ rec[o] \in Document
          /\ DocSound(rec[o]) /\ Put(o, d)
      BY <2>2, <2>4, <3>1 DEF ReqSync, Matches, Inv, TypeOK, Sync
    <3>3. /\ d.state = rec[o].state /\ d.bound = rec[o].bound /\ d.failure = rec[o].failure
          /\ d.result = rec[o].result /\ d.changes = rec[o].changes /\ d.stop.requested
          /\ d.started = rec[o].started /\ d.completion = rec[o].completion
          /\ d.state \notin Terminal
      BY <3>2 DEF RequestStop, Document, CanRequestStop, Terminal
    <3>4. DocSound(d)  BY <3>2, <3>3 DEF DocSound, Terminal
    <3>5. Tolerates(rec[o], d)  BY <3>3 DEF Tolerates
    <3>6. \A x \in Observations : DocSound(rec[x])'
      <4>1. \A x \in Observations : rec'[x] = IF x = o THEN d ELSE rec[x]
        BY <3>2 DEF Inv, TypeOK, Put
      <4> QED  BY <3>4, <4>1 DEF Sync
    <3>7. /\ \A x \in Executors : (RunSync(x, run[x]) /\ LeaseSync(run[x], lease[x]))'
          /\ \A x \in Requesters : req'[x] = req[x] => ReqSync(req[x])'
      BY <1>1, <3>2, <3>5, OthersStay
    <3>8. \A x \in Requesters : ReqSync(req[x])'
      <4>1. \A x \in Requesters : req'[x] = IF x = q THEN NoRequest ELSE req[x]
        BY <2>2 DEF Inv, TypeOK
      <4>2. NoRequest.pc # "cas"  BY DEF NoRequest
      <4>3. ASSUME NEW x \in Requesters  PROVE ReqSync(req[x])'
        <5>1. CASE x = q  BY <4>1, <4>2, <5>1 DEF ReqSync
        <5>2. CASE x # q  BY <3>7, <4>1, <5>2
        <5> QED  BY <5>1, <5>2
      <4> QED  BY <4>3
    <3> QED  BY <3>6, <3>7, <3>8 DEF Sync
  <2> QED  BY <1>5, <2>1, <2>3, <2>4 DEF RequestWrite
<1> QED  BY <1>4, <1>5

\* A new observation; time passing.
LEMMA RecordSync ==
    ASSUME Inv, Sync, NEW o \in Observations, CreateObservation(o) \/ LeaseRunsOut(o)
    PROVE  Sync'
<1>1. UNCHANGED <<run, lease, req>>  BY DEF CreateObservation, LeaseRunsOut
<1>2. CASE CreateObservation(o)
  <2>1. rec[o] = Absent /\ Put(o, NewObservation)
    BY <1>2 DEF CreateObservation, Inv, DocOK
  <2>2. DocSound(NewObservation)  BY DEF DocSound, NewObservation, Absent
  <2>3. \A x \in Executors : run[x].pc \notin Unclaimed => run[x].obs # o
    BY <2>1, UnclaimedIsFree DEF Absent
  <2>4. \A x \in Observations : DocSound(rec[x])'
    <3>1. \A x \in Observations : rec'[x] = IF x = o THEN NewObservation ELSE rec[x]
      BY <2>1 DEF Inv, TypeOK, Put
    <3> QED  BY <2>2, <3>1 DEF Sync
  <2> QED  BY <1>1, <2>1, <2>3, <2>4, OthersStay DEF Sync
<1>3. CASE LeaseRunsOut(o)
  <2>1. UNCHANGED <<rec, rv>>  BY <1>3 DEF LeaseRunsOut
  <2> QED  BY <1>1, <2>1 DEF Sync, RunSync, LeaseSync, ReqSync
<1> QED  BY <1>2, <1>3

------------------------------------------------------------------------------
(* The second invariant and what follows from it                            *)

\* Every step preserves what Runners expect of the record.
LEMMA NextSync == Inv /\ Sync /\ [Next]_vars => Sync'
<1> SUFFICES ASSUME Inv, Sync, [Next]_vars  PROVE Sync'  OBVIOUS
<1>1. ASSUME NEW e \in Executors, ExecutorStep(e)  PROVE Sync'
  BY <1>1, ClaimReadSync, ClaimWriteSync, RecoverWriteSync, OpReadSync, OpWriteSync, LoadSync,
     StartupSync, WindowSync, RenewReadSync, RenewWriteSync, ScanSync, ProcessSync
  DEF ExecutorStep, RunnerStep, RenewStep
<1>2. ASSUME UNCHANGED vars  PROVE Sync'
  BY <1>2 DEF vars, Sync, RunSync, LeaseSync, ReqSync
<1> QED  BY <1>1, <1>2, RequestSync, RecordSync DEF Next

\* It holds initially.
LEMMA InitSync == Init => Sync
<1> SUFFICES ASSUME Init  PROVE Sync  OBVIOUS
<1>1. DocSound(Absent)  BY DEF DocSound, Absent
<1>2. ASSUME NEW e \in Executors  PROVE RunSync(e, run[e]) /\ LeaseSync(run[e], lease[e])
  <2>1. run[e] = Idle /\ lease[e] = NoRenewal  BY DEF Init
  <2>2. RunSync(e, Idle) /\ LeaseSync(Idle, NoRenewal)  BY IdleSync DEF NoRenewal
  <2> QED  BY <2>1, <2>2 DEF RunSync, LeaseSync
<1>3. ASSUME NEW q \in Requesters  PROVE ReqSync(req[q])
  <2>1. req[q] = NoRequest  BY DEF Init
  <2> QED  BY <2>1 DEF ReqSync, NoRequest
<1> QED  BY <1>1, <1>2, <1>3 DEF Sync, Init

\* Every Runner finds the record as its place in the program supposes, and
\* every write that is not stale is a domain operation of the present record.
THEOREM Synchronised == Spec => []Sync
<1>1. Init => Inv /\ Sync  BY InitInv, InitSync
<1>2. (Inv /\ Sync) /\ [Next]_vars => (Inv /\ Sync)'  BY NextKeeps, NextSync
<1> QED  BY <1>1, <1>2, PTL DEF Spec

\* The terminal outcome claims no more than the record supports: results only
\* for a bound, opened window, a reason that agrees with the recorded
\* attribution, target history and stop intent, a diagnostic with every
\* failure (Runner.Run, RecordSourceResult, Transition).
THEOREM OutcomesAreSupported == Spec => []OutcomeSupported
<1>1. Sync => OutcomeSupported
  <2> SUFFICES ASSUME Sync, NEW o \in Observations
               PROVE  LET d == rec[o] IN
                 /\ d.result # None => d.bound /\ d.started
                 /\ d.state = "FAILED" => d.failure # None
                 /\ d.state = "COMPLETED" =>
                     \/ /\ d.completion = "STOPPED_BY_REQUEST"
                        /\ d.stop.requested \/ d.result = "COMPLETED"
                     \/ d.completion = "BACKEND_FAILURE" /\ d.result = "FAILED"
                     \/ d.completion = "COMPLETED" /\ d.result = "COMPLETED"
                     \/ d.completion \in TargetReasons /\ d.result = "COMPLETED" /\ d.changes
    BY DEF OutcomeSupported
  <2>1. DocSound(rec[o])  BY DEF Sync
  <2> QED
    BY <2>1 DEF DocSound, Lifecycle!Supported, Lifecycle!TargetReasons, TargetReasons
<1> QED  BY <1>1, Synchronised, PTL

------------------------------------------------------------------------------
(* Refinement                                                               *)

\* The two specifications speak of the same documents.
LEMMA SameDomain ==
    /\ Lifecycle!Absent = Absent /\ Lifecycle!NewObservation = NewObservation
    /\ Lifecycle!NoClaim = NoClaim /\ Lifecycle!None = None
    /\ Lifecycle!CompletionReason = CompletionReason
    /\ Lifecycle!TargetReasons = TargetReasons
    /\ Lifecycle!AttributionState = AttributionState
    /\ \A d : /\ Lifecycle!Frozen(d) = Frozen(d) /\ Lifecycle!Bind(d) = Bind(d)
              /\ Lifecycle!RequestStop(d) = RequestStop(d)
              /\ Lifecycle!CanRequestStop(d) = CanRequestStop(d)
              /\ Lifecycle!ExecutorLost(d) = ExecutorLost(d)
    /\ \A d, e : Lifecycle!Claimed(d, e) = Claimed(d, e)
    /\ \A d, x : /\ Lifecycle!RecordFailure(d, x) = RecordFailure(d, x)
                 /\ Lifecycle!RecordSourceResult(d, x) = RecordSourceResult(d, x)
                 /\ Lifecycle!AppendTargetChange(d, x) = AppendTargetChange(d, x)
    /\ \A d, s, x : Lifecycle!Transition(d, s, x) = Transition(d, s, x)
<1>1. Lifecycle!NoClaim = NoClaim /\ Lifecycle!None = None /\ Lifecycle!Terminal = Terminal
  BY DEF Lifecycle!NoClaim, NoClaim, Lifecycle!None, None, Lifecycle!Terminal, Terminal
<1>2. Lifecycle!NoStop = NoStop  BY <1>1 DEF Lifecycle!NoStop, NoStop
<1>3. Lifecycle!Absent = Absent  BY <1>1, <1>2 DEF Lifecycle!Absent, Absent
<1>4. Lifecycle!NewObservation = NewObservation
  BY <1>3 DEF Lifecycle!NewObservation, NewObservation
<1>5. Lifecycle!TargetReasons = TargetReasons /\ Lifecycle!AttributionState = AttributionState
  BY DEF Lifecycle!TargetReasons, TargetReasons, Lifecycle!AttributionState, AttributionState
<1>6. Lifecycle!CompletionReason = CompletionReason
  BY <1>5 DEF Lifecycle!CompletionReason, CompletionReason
<1>7. \A d : /\ Lifecycle!Frozen(d) = Frozen(d) /\ Lifecycle!Bind(d) = Bind(d)
             /\ Lifecycle!RequestStop(d) = RequestStop(d)
             /\ Lifecycle!CanRequestStop(d) = CanRequestStop(d)
             /\ Lifecycle!ExecutorLost(d) = ExecutorLost(d)
  BY <1>1 DEF Lifecycle!Frozen, Frozen, Lifecycle!Bind, Bind, Lifecycle!RequestStop,
     RequestStop, Lifecycle!CanRequestStop, CanRequestStop, Lifecycle!ExecutorLost, ExecutorLost
<1>8. \A d, s, x : Lifecycle!Transition(d, s, x) = Transition(d, s, x)
  BY <1>1 DEF Lifecycle!Transition, Transition
<1>9. \A d, e : Lifecycle!Claimed(d, e) = Claimed(d, e)
  BY <1>1, <1>8 DEF Lifecycle!Claimed, Claimed
<1>10. \A d, x : /\ Lifecycle!RecordFailure(d, x) = RecordFailure(d, x)
                 /\ Lifecycle!RecordSourceResult(d, x) = RecordSourceResult(d, x)
                 /\ Lifecycle!AppendTargetChange(d, x) = AppendTargetChange(d, x)
  BY DEF Lifecycle!RecordFailure, RecordFailure, Lifecycle!RecordSourceResult,
     RecordSourceResult, Lifecycle!AppendTargetChange, AppendTargetChange
<1> QED  BY <1>1, <1>3, <1>4, <1>5, <1>6, <1>7, <1>8, <1>9, <1>10

\* Each fenced write is one step of the lifecycle.
LEMMA OpIsLifecycleStep ==
    ASSUME Inv, Sync, NEW e \in Executors, run[e].pc \in Ops, run[e].granted,
           Matches(run[e].obs, run[e].held), Put(run[e].obs, run[e].doc), UNCHANGED expired
    PROVE  Lifecycle!Next
<1>1. PICK r \in RunState : r = run[e]  BY Facts
<1>2. /\ RunSync(e, r) /\ RunOK(e, r) /\ r.pc \notin Unclaimed /\ r.pc # "idle"
      /\ r.pc \in Ops /\ r.granted
  BY <1>1, Facts, SyncFacts DEF Ops, UpdateOps, TransitionOps, Unclaimed
<1>3. PICK o \in Observations : o = r.obs  BY <1>2 DEF RunOK
<1>4. /\ Computed(e, r, rec[o]) /\ WriteOK(o, r.doc)
      /\ rec' = [rec EXCEPT ![o] = r.doc]
  BY <1>1, <1>2, <1>3 DEF RunSync, Matches, RunOK, Pending, Put
<1>5. /\ rec[o] \in Document /\ DocSound(rec[o]) /\ Expected(r, rec[o]) /\ Decided(r)
  BY <1>2, <1>3, <1>4 DEF Inv, TypeOK, Sync, RunSync, WriteOK
<1>6. CASE r.pc = "bind"
  <2>1. Lifecycle!BindTargets(o)
    BY <1>4, <1>5, <1>6, SameDomain
    DEF Computed, Expected, Lifecycle!BindTargets, Lifecycle!Write
  <2> QED  BY <2>1 DEF Lifecycle!Next
<1>7. CASE r.pc = "failure"
  <2>1. r.stage \in {"TARGET_BINDING", "GADGET_ATTACH"}  BY <1>5, <1>7 DEF Decided
  <2>2. Lifecycle!Diagnose(o, r.stage)
    BY <1>4, <1>5, <1>7, SameDomain
    DEF Computed, Expected, Lifecycle!Diagnose, Lifecycle!Write
  <2> QED  BY <2>1, <2>2 DEF Lifecycle!Next
<1>8. Attribution(r) \in AttributionState /\ Attribution(r) # None /\ r.events \in BOOLEAN
  BY DEF Attribution, AttributionState, None, RunState
<1>9. CASE r.pc = "result"
  <2>1. /\ r.doc = RecordSourceResult(AppendTargetChange(rec[o], r.events), Attribution(r))
        /\ rec[o].state = "RUNNING" /\ rec[o].result = None /\ rec[o].started
    BY <1>4, <1>5, <1>9 DEF Computed, Expected, DocSound
  <2>2. Lifecycle!Record(o, Attribution(r), r.events)
    BY <1>4, <2>1, SameDomain DEF Lifecycle!Record, Lifecycle!Write
  <2> QED  BY <1>8, <2>2, SameDomain DEF Lifecycle!Next
<1>10. CASE r.pc = "final"
  <2>1. /\ r.doc = RecordSourceResult(rec[o], Attribution(r))
        /\ rec[o].state = "COMPLETING" /\ rec[o].result = Attribution(r) /\ rec[o].started
    BY <1>4, <1>5, <1>8, <1>10 DEF Computed, Expected, DocSound
  <2>2. AppendTargetChange(rec[o], FALSE) = rec[o]
    BY <1>5 DEF AppendTargetChange, Document
  <2>3. Lifecycle!Record(o, Attribution(r), FALSE)
    BY <1>4, <2>1, <2>2, SameDomain DEF Lifecycle!Record, Lifecycle!Write
  <2> QED  BY <1>8, <2>3, SameDomain DEF Lifecycle!Next
<1>11. ASSUME r.pc \in TransitionOps
       PROVE  rec' = [rec EXCEPT ![o] = Transition(rec[o], NextState[r.pc], FinalReason(r))]
  BY <1>2, <1>4, <1>11 DEF Computed
<1>12. CASE r.pc = "running"
  <2>1. NextState[r.pc] = "RUNNING" /\ FinalReason(r) = None
    BY <1>12 DEF NextState, TransitionOps, FinalReason
  <2>2. rec[o].state = "STARTING" /\ rec[o].bound  BY <1>5, <1>12 DEF Expected
  <2>3. Lifecycle!Run(o)
    BY <1>11, <1>12, <2>1, <2>2, SameDomain DEF TransitionOps, Lifecycle!Run, Lifecycle!Write
  <2> QED  BY <2>3 DEF Lifecycle!Next
<1>13. CASE r.pc = "fail"
  <2>1. NextState[r.pc] = "FAILED" /\ FinalReason(r) = "BACKEND_FAILURE"
    BY <1>13 DEF NextState, TransitionOps, FinalReason
  <2>2. rec[o].state = "STARTING" /\ rec[o].failure # None  BY <1>5, <1>13 DEF Expected
  <2>3. Lifecycle!Fail(o)
    BY <1>11, <1>13, <2>1, <2>2, SameDomain DEF TransitionOps, Lifecycle!Fail, Lifecycle!Write
  <2> QED  BY <2>3 DEF Lifecycle!Next
<1>14. CASE r.pc \in {"completing", "stopCompleting"}
  <2>1. NextState[r.pc] = "COMPLETING" /\ FinalReason(r) = None
    BY <1>14 DEF NextState, TransitionOps, FinalReason
  <2>2. /\ rec[o].state \in {"STARTING", "RUNNING"}
        /\ rec[o].stop.requested \/ (rec[o].state = "RUNNING" /\ rec[o].result # None)
    BY <1>5, <1>8, <1>14 DEF Expected
  <2>3. Lifecycle!Finish(o)
    BY <1>11, <1>14, <2>1, <2>2, SameDomain DEF TransitionOps, Lifecycle!Finish, Lifecycle!Write
  <2> QED  BY <2>3 DEF Lifecycle!Next
<1>15. CASE r.pc \in {"complete", "stopComplete"}
  <2>1. PICK reason : reason = FinalReason(r)  OBVIOUS
  <2>2. NextState[r.pc] = "COMPLETED" /\ rec[o].state = "COMPLETING"
    BY <1>5, <1>15 DEF NextState, TransitionOps, Expected
  <2>3. Lifecycle!Supported(rec[o], reason) /\ reason \in CompletionReason
    <3>1. CASE r.pc = "stopComplete"
      <4>1. reason = "STOPPED_BY_REQUEST" /\ rec[o].stop.requested
        BY <1>5, <2>1, <3>1 DEF FinalReason, Expected
      <4> QED  BY <4>1 DEF Lifecycle!Supported, CompletionReason
    <3>2. CASE r.pc = "complete"
      <4>1. /\ reason = IF r.failed THEN "BACKEND_FAILURE" ELSE r.reason
            /\ rec[o].result = Attribution(r) /\ (r.reason \in TargetReasons => rec[o].changes)
            /\ r.reason \in {"COMPLETED", "STOPPED_BY_REQUEST"} \cup TargetReasons
        BY <1>5, <2>1, <3>2 DEF FinalReason, Expected, Decided
      <4> QED
        BY <4>1 DEF Lifecycle!Supported, Lifecycle!TargetReasons, TargetReasons, Attribution,
           CompletionReason
    <3> QED  BY <1>15, <3>1, <3>2
  <2>4. Lifecycle!Complete(o, reason)
    BY <1>11, <1>15, <2>1, <2>2, <2>3, SameDomain
    DEF TransitionOps, Lifecycle!Complete, Lifecycle!Write
  <2> QED  BY <2>3, <2>4, SameDomain DEF Lifecycle!Next
<1> QED
  BY <1>2, <1>6, <1>7, <1>9, <1>10, <1>12, <1>13, <1>14, <1>15 DEF Ops, UpdateOps, TransitionOps

\* A step of an executor is a step of the lifecycle or leaves the record and
\* its lease alone.
LEMMA ExecutorRefines ==
    ASSUME Inv, Sync, NEW e \in Executors, ExecutorStep(e)
    PROVE  Lifecycle!Next \/ UNCHANGED <<rec, expired>>
<1>1. PICK r \in RunState, l \in LeaseState : r = run[e] /\ l = lease[e]  BY Facts
<1>2. RunSync(e, r) /\ RunOK(e, r) /\ LeaseSync(r, l) /\ LeaseOK(r, l)
  BY <1>1, Facts, SyncFacts
<1>3. CASE OpWrite(e)
  BY <1>3, OpIsLifecycleStep DEF OpWrite, Uncertain
<1>4. CASE RecoverWrite(e)
  <2>1. r.pc = "recoverCAS" /\ UNCHANGED expired  BY <1>1, <1>4 DEF RecoverWrite
  <2>2. PICK o \in Observations : o = r.obs  BY <1>2, <2>1 DEF RunOK
  <2>3. CASE Matches(o, r.held) /\ Put(o, r.doc)
    <3>1. /\ r.doc = ExecutorLost(rec[o]) /\ rec[o].claim # NoClaim /\ WriteOK(o, r.doc)
          /\ rec[o] \in Document
      BY <1>2, <2>1, <2>2, <2>3 DEF RunSync, Computed, Matches, RunOK, Pending, Inv, TypeOK
    <3>2. r.doc.completion = "EXECUTOR_LOST"  BY <3>1 DEF ExecutorLost, Document
    <3>3. expired[o] /\ ~Frozen(rec[o])  BY <3>1, <3>2 DEF WriteOK
    <3>4. Lifecycle!Lose(o)
      BY <2>1, <2>3, <3>1, <3>3, SameDomain
      DEF Put, Lifecycle!Lose, Lifecycle!Held, Lifecycle!Write
    <3> QED  BY <3>4 DEF Lifecycle!Next
  <2> QED  BY <1>1, <1>4, <2>1, <2>2, <2>3 DEF RecoverWrite, Uncertain
<1>5. CASE ClaimWrite(e)
  <2>1. r.pc = "claimCAS"  BY <1>1, <1>5 DEF ClaimWrite
  <2>2. PICK o \in Observations : o = r.obs  BY <1>2, <2>1 DEF RunOK
  <2>3. CASE /\ Matches(o, r.held) /\ Put(o, r.doc)
             /\ expired' = [expired EXCEPT ![o] = FALSE]
    <3>1. r.doc = Claimed(rec[o], e) /\ rec[o].state = "REQUESTED" /\ rec[o].claim = NoClaim
      BY <1>2, <2>1, <2>2, <2>3 DEF RunSync, Computed, Matches
    <3>2. Lifecycle!Acquire(o, e)
      BY <2>3, <3>1, SameDomain DEF Put, Lifecycle!Acquire, Lifecycle!Write
    <3> QED  BY <3>2 DEF Lifecycle!Next
  <2> QED  BY <1>1, <1>5, <2>2, <2>3 DEF ClaimWrite
<1>6. CASE RenewWrite(e)
  <2>1. l.pc = "cas" /\ r.pc \in {"window", "drain"}
    BY <1>1, <1>2, <1>6 DEF RenewWrite, LeaseOK
  <2>2. PICK o \in Observations : o = r.obs  BY <1>2, <2>1 DEF RunOK
  <2>3. CASE /\ Matches(o, l.held) /\ Put(o, l.doc)
             /\ expired' = [expired EXCEPT ![o] = FALSE]
    <3>1. l.doc = rec[o] /\ WriteOK(o, l.doc)
      BY <1>2, <2>1, <2>2, <2>3 DEF LeaseSync, Matches, LeaseOK, Pending
    <3>2. rec' = rec  BY <2>3, <3>1 DEF Put, Inv, TypeOK
    <3>3. rec[o].claim # NoClaim  BY <1>1, <2>1, <2>2, EngagedFacts DEF Engaged, Unclaimed
    <3>4. Lifecycle!Renew(o)
      BY <2>3, <3>1, <3>2, <3>3, SameDomain DEF WriteOK, Lifecycle!Renew, Lifecycle!Held
    <3> QED  BY <3>4 DEF Lifecycle!Next
  <2> QED  BY <1>1, <1>6, <2>2, <2>3 DEF RenewWrite
<1>7. CASE RunnerStep(e)
  BY <1>3, <1>4, <1>5, <1>7 DEF RunnerStep, ClaimRead, OpRead, Load, BindFailed, Attach,
     StartFailed, WindowEnds, LeaseLost, Drain, LoadFailure, LoadResult, LoadFinal, LoadStop,
     Reload, Step
<1> QED
  BY <1>6, <1>7 DEF ExecutorStep, RenewStep, RenewRead, Scan, RecoverRead, Start,
     TargetsChange, Step, WatchRead, WatchStop, ScanFails, Shutdown, Exit, Kill

\* Every step of the system is a step of the lifecycle or a stutter.
LEMMA StepRefines == Inv /\ Sync /\ [Next]_vars => [Lifecycle!Next]_(Lifecycle!vars)
<1> SUFFICES ASSUME Inv, Sync, [Next]_vars  PROVE Lifecycle!Next \/ UNCHANGED <<rec, expired>>
  BY DEF Lifecycle!vars
<1>1. ASSUME NEW o \in Observations, CreateObservation(o)  PROVE Lifecycle!Next
  <2>1. Lifecycle!Create(o)
    BY <1>1, SameDomain DEF CreateObservation, Put, Lifecycle!Create, Lifecycle!Write
  <2> QED  BY <2>1 DEF Lifecycle!Next
<1>2. ASSUME NEW o \in Observations, LeaseRunsOut(o)  PROVE Lifecycle!Next
  <2>1. Lifecycle!Expire(o)
    BY <1>2, SameDomain DEF LeaseRunsOut, Lifecycle!Expire, Lifecycle!Held
  <2> QED  BY <2>1 DEF Lifecycle!Next
<1>3. ASSUME NEW q \in Requesters, RequestWrite(q)
      PROVE  Lifecycle!Next \/ UNCHANGED <<rec, expired>>
  <2>1. PICK k \in RequestState : k = req[q]  BY DEF Inv, TypeOK
  <2>2. k.pc = "cas" /\ k.obs \in Observations /\ ReqSync(k) /\ UNCHANGED expired
    BY <1>3, <2>1 DEF RequestWrite, Inv, ReqOK, Sync
  <2>3. CASE Matches(k.obs, k.held) /\ Put(k.obs, k.doc)
    <3>1. PICK o \in Observations : o = k.obs  BY <2>2
    <3>2. /\ k.doc = RequestStop(rec[o]) /\ CanRequestStop(rec[o]) /\ ~rec[o].stop.requested
      BY <2>2, <2>3, <3>1 DEF ReqSync, Matches
    <3>3. Lifecycle!Stop(o)
      BY <2>2, <2>3, <3>1, <3>2, SameDomain DEF Put, Lifecycle!Stop, Lifecycle!Write
    <3> QED  BY <3>3 DEF Lifecycle!Next
  <2> QED  BY <1>3, <2>1, <2>2, <2>3 DEF RequestWrite
<1>4. ASSUME NEW q \in Requesters, NEW o \in Observations, RequestRead(q, o)
      PROVE  UNCHANGED <<rec, expired>>
  BY <1>4 DEF RequestRead
<1>5. CASE UNCHANGED vars  BY <1>5 DEF vars
<1> QED  BY <1>1, <1>2, <1>3, <1>4, <1>5, ExecutorRefines DEF Next

\* The executors, renewers, recoveries and operators, each acting on reads
\* that may be stale, implement the atomic lifecycle of the record: every
\* write that the resourceVersion lets through is one legal domain step of
\* the record as it is at that moment (casStatus, authority, ClaimObservation,
\* TerminalizeExecutorLost, RequestStop).
THEOREM RefinesLifecycle == Spec => ImplementsLifecycle
<1>1. Init => Lifecycle!Init  BY SameDomain DEF Init, Lifecycle!Init
<1> QED  BY <1>1, StepRefines, Invariance, Synchronised, PTL
         DEF Spec, ImplementsLifecycle, Lifecycle!Spec

------------------------------------------------------------------------------
(* Healthy runs are not written off.  Without stalls, faults and stops a   *)
(* claimed record that is not terminal has a Runner at work on it, which   *)
(* holds the record's present version wherever its next write needs it:    *)
(* no operation of it is refused, so it never leaves the record behind for *)
(* the lease to run out on.                                                *)

Calm == ~Stalls /\ faults = 0
Healthy(o) == Calm /\ ~rec[o].stop.requested

\* Where the Runner holds the resourceVersion it will write against.
Fenced == {"load", "attach"} \cup Ops

\* Where an operation was refused, or a stop is carried out.
OffTrack == {"bindFailed", "startFailed", "loadStop", "stopCompleting", "stopComplete"}

RunHealthy(r, l) ==
    r.pc # "idle" /\ Healthy(r.obs) =>
        /\ r.pc # "recoverCAS"
        /\ r.pc \notin Unclaimed =>
            /\ ~Frozen(rec[r.obs]) /\ r.pc \notin OffTrack
            /\ r.pc \in Fenced => r.held = rv[r.obs]
            /\ r.pc = "load" => ~rec[r.obs].bound
            /\ l.pc \notin {"again", "failed"}
            /\ l.pc = "cas" => l.held = rv[r.obs]

RecHealthy(o) ==
    Healthy(o) =>
        /\ rec[o].completion # "EXECUTOR_LOST"
        /\ rec[o].state \in {"ABSENT", "REQUESTED"} => ~rec[o].bound
        /\ rec[o].claim # NoClaim /\ ~Frozen(rec[o]) =>
            ~expired[o] /\ \E e \in Executors : Engaged(e) /\ run[e].obs = o

Health ==
    /\ \A o \in Observations : RecHealthy(o)
    /\ \A e \in Executors : RunHealthy(run[e], lease[e]) /\ (Calm => proc[e] # "stopping")

\* A fault ends the promise.
LEMMA FaultsEndHealth ==
    ASSUME ~Calm'
    PROVE  Health'
<1>1. \A o : ~Healthy(o)'  BY DEF Healthy
<1> QED  BY <1>1 DEF Health, RecHealthy, RunHealthy

\* A record with a stop intent keeps it, so health does not come back.
LEMMA HealthIsLost ==
    ASSUME Inv, [Next]_vars, UNCHANGED faults, NEW o \in Observations, Healthy(o)'
    PROVE  Healthy(o)
BY WritesAreLegal DEF WriteOK, Healthy, Calm

\* What every action may use about the executor that takes it.
LEMMA HealthFacts ==
    ASSUME Inv, Health, NEW e \in Executors
    PROVE  /\ RunHealthy(run[e], lease[e])
           /\ Engaged(e) /\ Healthy(run[e].obs) => ~expired[run[e].obs]
<1>1. RunHealthy(run[e], lease[e])  BY DEF Health
<1>2. ASSUME Engaged(e), Healthy(run[e].obs)  PROVE ~expired[run[e].obs]
  <2>1. run[e].pc # "idle" /\ rec[run[e].obs].claim # NoClaim  BY <1>2, EngagedFacts
  <2>2. run[e].obs \in Observations  BY <2>1, Facts
  <2>3. ~Frozen(rec[run[e].obs])  BY <1>1, <1>2, <2>1 DEF RunHealthy, Engaged
  <2> QED  BY <1>2, <2>1, <2>2, <2>3 DEF Health, RecHealthy
<1> QED  BY <1>1, <1>2

\* An executor moves and the record does not: a Runner on a healthy record
\* stays with it.
LEMMA QuietHealth ==
    ASSUME Inv, Health, NEW e \in Executors, NEW r, NEW l,
           run' = [run EXCEPT ![e] = r], lease' = [lease EXCEPT ![e] = l],
           UNCHANGED <<rec, rv, expired, faults, proc>>, RunHealthy(r, l),
           run[e].pc \notin Unclaimed /\ Healthy(run[e].obs) =>
                r.pc \notin Unclaimed /\ r.obs = run[e].obs
    PROVE  Health'
<1>1. \A x \in Executors : /\ run'[x] = IF x = e THEN r ELSE run[x]
                           /\ lease'[x] = IF x = e THEN l ELSE lease[x]
  BY DEF Inv, TypeOK
<1>2. Calm' = Calm /\ \A o : Healthy(o)' = Healthy(o)  BY DEF Calm, Healthy
<1>3. ASSUME NEW x \in Executors
      PROVE  RunHealthy(run[x], lease[x])' /\ (Calm => proc[x] # "stopping")'
  <2>1. RunHealthy(run[x], lease[x]) /\ (Calm => proc[x] # "stopping")  BY DEF Health
  <2>2. CASE x = e
    <3>1. run'[x] = r /\ lease'[x] = l  BY <1>1, <2>2
    <3> QED  BY <1>2, <2>1, <3>1 DEF RunHealthy
  <2>3. CASE x # e
    <3>1. run'[x] = run[x] /\ lease'[x] = lease[x]  BY <1>1, <2>3
    <3> QED  BY <1>2, <2>1, <3>1 DEF RunHealthy
  <2> QED  BY <2>2, <2>3
<1>4. ASSUME NEW o \in Observations  PROVE RecHealthy(o)'
  <2>1. SUFFICES ASSUME Healthy(o)
                 PROVE  /\ rec[o].completion # "EXECUTOR_LOST"
                        /\ rec[o].state \in {"ABSENT", "REQUESTED"} => ~rec[o].bound
                        /\ rec[o].claim # NoClaim /\ ~Frozen(rec[o]) =>
                            ~expired[o] /\ \E x \in Executors : Engaged(x)' /\ run'[x].obs = o
    BY <1>2 DEF RecHealthy
  <2>2. ASSUME NEW x \in Executors, Engaged(x), run[x].obs = o
        PROVE  Engaged(x)' /\ run'[x].obs = o
    <3>1. CASE x = e  BY <1>1, <2>1, <2>2, <3>1 DEF Engaged
    <3>2. CASE x # e  BY <1>1, <2>2, <3>2 DEF Engaged
    <3> QED  BY <3>1, <3>2
  <2> QED  BY <2>1, <2>2 DEF Health, RecHealthy
<1> QED  BY <1>3, <1>4 DEF Health

\* The Runner moves and the renewer does not.
LEMMA LocalHealth ==
    ASSUME Inv, Health, NEW e \in Executors, NEW r, Goto(e, r),
           UNCHANGED <<rec, rv, expired, faults, proc, lease>>, RunHealthy(r, lease[e]),
           run[e].pc \notin Unclaimed /\ Healthy(run[e].obs) =>
                r.pc \notin Unclaimed /\ r.obs = run[e].obs
    PROVE  Health'
<1>1. PICK l : l = lease[e]  OBVIOUS
<1>2. lease' = [lease EXCEPT ![e] = l]  BY <1>1 DEF Inv, TypeOK
<1> QED  BY <1>1, <1>2, QuietHealth DEF Goto

\* Nothing is promised of a Runner whose record is not healthy.
LEMMA UnhealthyIsFree ==
    ASSUME Inv, Health, NEW e \in Executors, NEW r, NEW l,
           run' = [run EXCEPT ![e] = r], lease' = [lease EXCEPT ![e] = l],
           UNCHANGED <<rec, rv, expired, faults, proc>>,
           ~Healthy(run[e].obs), r = Idle \/ r.obs = run[e].obs
    PROVE  Health'
<1>1. RunHealthy(r, l)  BY DEF RunHealthy, Idle
<1> QED  BY <1>1, QuietHealth

\* A write lands on o: nobody else works on it, as long as it is healthy.
LEMMA PutHealth ==
    ASSUME Inv, Health, [Next]_vars, NEW o \in Observations, NEW d, Put(o, d),
           NEW e \in Executors, NEW r, NEW l, run[e].obs = o,
           run' = [run EXCEPT ![e] = r], lease' = [lease EXCEPT ![e] = l],
           UNCHANGED <<faults, proc>>, \A x \in Observations \ {o} : expired'[x] = expired[x],
           \A x \in Executors \ {e} : Healthy(o)' /\ run[x].pc \notin Unclaimed => run[x].obs # o,
           RunHealthy(r, l)', RecHealthy(o)'
    PROVE  Health'
<1>1. \A x \in Executors : /\ run'[x] = IF x = e THEN r ELSE run[x]
                           /\ lease'[x] = IF x = e THEN l ELSE lease[x]
  BY DEF Inv, TypeOK
<1>2. \A x \in Observations \ {o} : rec'[x] = rec[x] /\ rv'[x] = rv[x] /\ expired'[x] = expired[x]
  BY DEF Put, Inv, TypeOK
<1>3. Calm' = Calm /\ \A x \in Observations \ {o} : Healthy(x)' = Healthy(x)
  BY <1>2 DEF Calm, Healthy
<1>4. ASSUME NEW x \in Executors
      PROVE  RunHealthy(run[x], lease[x])' /\ (Calm => proc[x] # "stopping")'
  <2>1. RunHealthy(run[x], lease[x]) /\ (Calm => proc[x] # "stopping")  BY DEF Health
  <2>2. CASE x = e
    <3>1. run'[x] = r /\ lease'[x] = l  BY <1>1, <2>2
    <3> QED  BY <1>3, <2>1, <3>1 DEF RunHealthy
  <2>3. CASE x # e
    <3>1. run'[x] = run[x] /\ lease'[x] = lease[x]  BY <1>1, <2>3
    <3>2. CASE run[x].pc = "idle"  BY <1>3, <2>1, <3>1, <3>2 DEF RunHealthy
    <3>3. CASE run[x].pc # "idle" /\ run[x].obs # o
      <4>1. run[x].obs \in Observations \ {o}  BY <3>3, Facts
      <4> QED  BY <1>2, <1>3, <2>1, <3>1, <4>1 DEF RunHealthy
    <3>4. CASE run[x].pc # "idle" /\ run[x].obs = o
      <4>1. Healthy(o)' => Healthy(o)  BY HealthIsLost
      <4>2. Healthy(o)' => run[x].pc \in Unclaimed  BY <2>3, <3>4
      <4> QED  BY <1>3, <2>1, <3>1, <3>4, <4>1, <4>2 DEF RunHealthy
    <3> QED  BY <3>2, <3>3, <3>4
  <2> QED  BY <2>2, <2>3
<1>5. ASSUME NEW y \in Observations, y # o  PROVE RecHealthy(y)'
  <2>1. RecHealthy(y) /\ (Healthy(y)' = Healthy(y))
    BY <1>3, <1>5 DEF Health
  <2>2. rec'[y] = rec[y] /\ expired'[y] = expired[y]  BY <1>2, <1>5
  <2>3. ASSUME NEW x \in Executors, Engaged(x), run[x].obs = y
        PROVE  Engaged(x)' /\ run'[x].obs = y
    BY <1>1, <1>5, <2>3 DEF Engaged
  <2> QED  BY <2>1, <2>2, <2>3 DEF RecHealthy
<1> QED  BY <1>4, <1>5 DEF Health

\* Scanning and claiming: recovery has nothing to read of a healthy record.
LEMMA ScanHealth ==
    ASSUME Inv, Health, Calm, NEW e \in Executors, Scan(e) \/ ClaimRead(e), UNCHANGED faults
    PROVE  Health'
<1>1. CASE Scan(e)
  <2>1. PICK o \in Observations : RecoverRead(e, o) \/ Start(e, o)  BY <1>1 DEF Scan
  <2>2. run[e].pc = "idle" /\ UNCHANGED <<rec, rv, expired, faults, proc, lease>>
    BY <2>1 DEF RecoverRead, Start
  <2>3. CASE RecoverRead(e, o)
    <3>1. PICK r : r = [Idle EXCEPT !.pc = "recoverCAS", !.obs = o, !.held = rv[o],
                                    !.doc = ExecutorLost(rec[o])]
      OBVIOUS
    <3>2. r.obs = o /\ r.pc = "recoverCAS"  BY <3>1 DEF Idle
    <3>3. ~Healthy(o)
      <4>1. rec[o].claim # NoClaim /\ ~Frozen(rec[o]) /\ expired[o]
        BY <2>3 DEF RecoverRead, RecoveryEligible, NoClaim, LeaseLive
      <4> QED  BY <4>1 DEF Health, RecHealthy
    <3>4. RunHealthy(r, lease[e])  BY <3>2, <3>3 DEF RunHealthy
    <3> QED  BY <2>2, <2>3, <3>1, <3>4, LocalHealth DEF RecoverRead, Unclaimed
  <2>4. CASE Start(e, o)
    <3>1. PICK r : r = [Idle EXCEPT !.pc = "claim", !.obs = o]  OBVIOUS
    <3>2. r.pc = "claim"  BY <3>1 DEF Idle
    <3>3. RunHealthy(r, lease[e])  BY <3>2 DEF RunHealthy, Unclaimed
    <3> QED  BY <2>2, <2>4, <3>1, <3>3, LocalHealth DEF Start, Unclaimed
  <2> QED  BY <2>1, <2>3, <2>4
<1>2. CASE ClaimRead(e)
  <2>1. run[e].pc = "claim" /\ UNCHANGED <<rec, rv, expired, faults, proc, lease>>
    BY <1>2 DEF ClaimRead
  <2>2. PICK r : Goto(e, r) /\ r.pc \in {"idle", "claimCAS"}
    <3>1. Idle.pc = "idle"  BY DEF Idle
    <3>2. PICK s : s = [run[e] EXCEPT !.pc = "claimCAS", !.held = rv[run[e].obs],
                                      !.doc = Claimed(rec[run[e].obs], e)]
      OBVIOUS
    <3>3. s.pc = "claimCAS"  BY <3>2, Facts DEF RunState
    <3> QED  BY <1>2, <3>1, <3>2, <3>3 DEF ClaimRead
  <2>3. RunHealthy(r, lease[e])  BY <2>2 DEF RunHealthy, Unclaimed
  <2> QED  BY <2>1, <2>2, <2>3, LocalHealth DEF Unclaimed
<1> QED  BY <1>1, <1>2

\* Steps that abandon an executor's local state, or would.
LEMMA ProcessHealth ==
    ASSUME Inv, Health, Calm, NEW e \in Executors, UNCHANGED faults,
           ScanFails(e) \/ Shutdown(e) \/ Exit(e) \/ Kill(e)
    PROVE  Health'
<1>1. ~Fault  BY DEF Fault, Calm
<1>2. proc[e] # "stopping"  BY DEF Health
<1> QED  BY <1>1, <1>2 DEF ScanFails, Shutdown, Exit, Kill

\* The winner of a claim holds the version it wrote.
LEMMA ClaimWriteHealth ==
    ASSUME Inv, Sync, Inv', Health, Calm, [Next]_vars, NEW e \in Executors, ClaimWrite(e), UNCHANGED faults
    PROVE  Health'
<1>1. PICK r \in RunState : r = run[e]  BY Facts
<1>2. /\ r.pc = "claimCAS" /\ UNCHANGED <<lease, req, proc>> /\ RunSync(e, r) /\ ~Fault
      /\ lease[e].pc = "off"
  BY <1>1, Facts, SyncFacts DEF ClaimWrite, Fault, Calm
<1>3. PICK o \in Observations : o = r.obs  BY <1>1, <1>2, Facts
<1>4. CASE Goto(e, Idle) /\ UNCHANGED <<rec, rv, expired>>
  <2>1. RunHealthy(Idle, lease[e])  BY DEF RunHealthy, Idle
  <2> QED  BY <1>1, <1>2, <1>4, <2>1, LocalHealth DEF Unclaimed
<1>5. CASE /\ Matches(o, r.held) /\ Put(o, r.doc) /\ expired' = [expired EXCEPT ![o] = FALSE]
           /\ Goto(e, [r EXCEPT !.pc = "load", !.claim = r.doc.claim,
                                !.held = rv[o] + 1, !.doc = Absent])
  <2>1. /\ r.doc = Claimed(rec[o], e) /\ rec[o].state = "REQUESTED" /\ rec[o].claim = NoClaim
        /\ rec[o] \in Document
    BY <1>2, <1>3, <1>5 DEF RunSync, Computed, Matches, Inv, TypeOK
  <2>2. r.doc.state = "STARTING" /\ r.doc.bound = rec[o].bound
    <3>1. PICK y \in Document : y = Transition(rec[o], "STARTING", None)
      BY <2>1, DocumentOps DEF ExecutionState
    <3>2. y.state = "STARTING" /\ y.bound = rec[o].bound
      BY <2>1, <3>1 DEF Transition, Document
    <3> QED  BY <2>1, <3>1, <3>2 DEF Claimed, Document
  <2>3. PICK s : s = [r EXCEPT !.pc = "load", !.claim = r.doc.claim,
                               !.held = rv[o] + 1, !.doc = Absent]
    OBVIOUS
  <2>4. s.pc = "load" /\ s.obs = o /\ s.held = rv[o] + 1  BY <1>3, <2>3 DEF RunState
  <2>5. rec'[o] = r.doc /\ rv'[o] = rv[o] + 1 /\ expired'[o] = FALSE
    BY <1>5 DEF Put, Inv, TypeOK
  <2>6. Healthy(o)' => ~rec[o].bound  BY <2>1, HealthIsLost DEF Health, RecHealthy
  <2>7. ~Frozen(rec'[o]) /\ rec'[o].completion # "EXECUTOR_LOST"
    <3>1. DocOK(rec[o])'  BY DEF Inv
    <3> QED  BY <2>2, <2>5, <3>1 DEF DocOK, Frozen, Terminal, None
  <2>8. RunHealthy(s, lease[e])'
    BY <1>2, <2>2, <2>4, <2>5, <2>6, <2>7 DEF RunHealthy, OffTrack, Unclaimed
  <2>9. run' = [run EXCEPT ![e] = s] /\ run'[e] = s  BY <1>1, <1>5, <2>3 DEF Goto, Inv, TypeOK
  <2>10. RecHealthy(o)'
    <3>1. Engaged(e)' /\ run'[e].obs = o  BY <2>4, <2>9 DEF Engaged, Unclaimed
    <3> QED  BY <2>2, <2>5, <2>7, <3>1 DEF RecHealthy
  <2>11. \A x \in Executors \ {e} : run[x].pc \notin Unclaimed => run[x].obs # o
    BY <2>1, UnclaimedIsFree
  <2>12. PICK l : l = lease[e]  OBVIOUS
  <2>13. lease' = [lease EXCEPT ![e] = l] /\ RunHealthy(s, l)'
    BY <1>2, <2>8, <2>12 DEF Inv, TypeOK, RunHealthy
  <2>14. \A x \in Observations \ {o} : expired'[x] = expired[x]  BY <1>5 DEF Inv, TypeOK
  <2> QED  BY ZenonT(60), <1>1, <1>2, <1>3, <1>5, <2>9, <2>10, <2>11, <2>13, <2>14, PutHealth
<1> QED  BY <1>1, <1>2, <1>3, <1>4, <1>5 DEF ClaimWrite

\* Recovery holds nothing of a healthy record.
LEMMA RecoverWriteHealth ==
    ASSUME Inv, Sync, Health, Calm, [Next]_vars, NEW e \in Executors, RecoverWrite(e), UNCHANGED faults
    PROVE  Health'
<1>1. PICK r \in RunState : r = run[e]  BY Facts
<1>2. /\ r.pc = "recoverCAS" /\ UNCHANGED <<lease, req, proc, expired>> /\ ~Fault /\ Goto(e, Idle)
  BY <1>1 DEF RecoverWrite, Fault, Calm
<1>3. PICK o \in Observations : o = r.obs  BY <1>1, <1>2, Facts
<1>4. RunHealthy(Idle, lease[e]) /\ ~Healthy(o)
  BY <1>1, <1>2, <1>3, HealthFacts DEF RunHealthy, Idle
<1>5. CASE UNCHANGED <<rec, rv>>  BY <1>1, <1>2, <1>4, <1>5, LocalHealth DEF Unclaimed
<1>6. CASE Put(o, r.doc)
  <2>1. ~Healthy(o)'  BY <1>4, HealthIsLost
  <2>2. PICK l : l = lease[e]  OBVIOUS
  <2>3. lease' = [lease EXCEPT ![e] = l]  BY <1>2, <2>2 DEF Inv, TypeOK
  <2>4. RunHealthy(Idle, l)' /\ RecHealthy(o)'  BY <2>1 DEF RunHealthy, RecHealthy, Idle
  <2> QED  BY <1>1, <1>2, <1>3, <1>6, <2>1, <2>3, <2>4, PutHealth DEF Goto
<1> QED  BY <1>1, <1>2, <1>3, <1>5, <1>6 DEF RecoverWrite

\* A healthy operation is granted: its Runner has the version, the claim and
\* the lease, and asks for what the record's state allows.
LEMMA Granted ==
    ASSUME Inv, Sync, Health, NEW e \in Executors, run[e].pc \in Ops, Healthy(run[e].obs)
    PROVE  Authority(run[e].obs, run[e].claim, run[e].held) /\ Permitted(run[e])
<1>1. PICK r \in RunState : r = run[e]  BY Facts
<1>2. Engaged(e) /\ r.pc \notin Unclaimed
  BY <1>1 DEF Engaged, Ops, UpdateOps, TransitionOps, Unclaimed
<1>3. PICK o \in Observations : o = r.obs  BY <1>1, <1>2, Facts, EngagedFacts
<1>4. PICK d \in Document : d = rec[o]  BY DEF Inv, TypeOK
<1>5. ~Frozen(d) /\ r.held = rv[o] /\ r.pc \notin OffTrack
  BY <1>1, <1>2, <1>3, <1>4, HealthFacts, EngagedFacts DEF RunHealthy, Fenced
<1>6. Authority(o, r.claim, r.held)
  BY <1>1, <1>2, <1>3, <1>4, <1>5, HealthFacts, EngagedFacts DEF Authority, Matches, LeaseLive
<1>7. Expected(r, d) /\ Computed(e, r, d)
  BY <1>1, <1>2, <1>3, <1>4, <1>5, SyncFacts, EngagedFacts DEF RunSync
<1>8. Permitted(r)
  <2>1. CASE r.pc = "bind"
    <3>1. r.doc = Bind(d)  BY <1>7, <2>1 DEF Computed
    <3>2. r.doc.state = d.state /\ r.doc.changes = d.changes  BY <3>1 DEF Bind, Document
    <3> QED  BY <1>3, <1>4, <2>1, <3>2 DEF Permitted, UpdateOps
  <2>2. CASE r.pc = "failure"
    <3>1. r.doc = RecordFailure(d, r.stage)  BY <1>7, <2>2 DEF Computed
    <3>2. r.doc.state = d.state /\ r.doc.changes = d.changes  BY <3>1 DEF RecordFailure, Document
    <3> QED  BY <1>3, <1>4, <2>2, <3>2 DEF Permitted, UpdateOps
  <2>3. CASE r.pc = "result"
    <3>1. PICK x : x = AppendTargetChange(d, r.events)  OBVIOUS
    <3>2. x \in Document /\ x.state = d.state /\ (d.changes => x.changes)
      <4>1. r.events \in BOOLEAN  BY DEF RunState
      <4>2. x \in Document  BY <3>1, <4>1, DocumentOps
      <4>3. x.state = d.state /\ (d.changes => x.changes)
        BY <3>1 DEF AppendTargetChange, Document
      <4> QED  BY <4>2, <4>3
    <3>3. r.doc = RecordSourceResult(x, Attribution(r))  BY <1>7, <2>3, <3>1 DEF Computed
    <3>4. r.doc.state = x.state /\ r.doc.changes = x.changes
      BY <3>2, <3>3 DEF RecordSourceResult, Document
    <3> QED  BY <1>3, <1>4, <2>3, <3>2, <3>4 DEF Permitted, UpdateOps
  <2>4. CASE r.pc = "final"
    <3>1. r.doc = RecordSourceResult(d, Attribution(r))  BY <1>7, <2>4 DEF Computed
    <3>2. r.doc.state = d.state /\ r.doc.changes = d.changes
      BY <3>1 DEF RecordSourceResult, Document
    <3> QED  BY <1>3, <1>4, <2>4, <3>2 DEF Permitted, UpdateOps
  <2>5. CASE r.pc \in {"running", "fail", "completing", "complete"}
    <3>1. /\ r.pc \in {"running", "fail"} => d.state = "STARTING"
          /\ r.pc = "completing" => d.state = "RUNNING"
          /\ r.pc = "complete" => d.state = "COMPLETING"
      BY <1>7, <2>5 DEF Expected
    <3>2. /\ NextState["running"] = "RUNNING" /\ NextState["fail"] = "FAILED"
          /\ NextState["completing"] = "COMPLETING" /\ NextState["complete"] = "COMPLETED"
      BY DEF NextState, TransitionOps
    <3>3. validExecutionTransition(d.state, NextState[r.pc])
      BY <2>5, <3>1, <3>2 DEF validExecutionTransition, Terminal
    <3> QED  BY <1>3, <1>4, <2>5, <3>3 DEF Permitted, UpdateOps
  <2> QED  BY <1>1, <1>5, <2>1, <2>2, <2>3, <2>4, <2>5 DEF Ops, UpdateOps, TransitionOps, OffTrack
<1> QED  BY <1>1, <1>3, <1>6, <1>8

\* What an error leaves of a Runner.
LEMMA ErrorKeepsRecord ==
    ASSUME NEW r \in RunState
    PROVE  AfterError(r) = Idle \/ AfterError(r).obs = r.obs
BY DEF AfterError, RunState

LEMMA OpReadHealth ==
    ASSUME Inv, Sync, Health, Calm, NEW e \in Executors, OpRead(e), UNCHANGED faults
    PROVE  Health'
<1>1. PICK r \in RunState : r = run[e]  BY Facts
<1>2. /\ r.pc \in Ops /\ ~Fault /\ UNCHANGED <<rec, rv, expired, faults, proc, lease>>
      /\ r.pc \notin Unclaimed
  BY <1>1 DEF OpRead, Fault, Calm, Ops, UpdateOps, TransitionOps, Unclaimed
<1>3. PICK l : l = lease[e]  OBVIOUS
<1>4. lease' = [lease EXCEPT ![e] = l]  BY <1>2, <1>3 DEF Inv, TypeOK
<1>5. CASE ~Healthy(r.obs)
  <2>1. PICK s : Goto(e, s) /\ (s = Idle \/ s.obs = r.obs)
    <3>1. PICK y : y = [r EXCEPT !.granted = TRUE, !.doc = OpDocument(r)]  OBVIOUS
    <3>2. y.obs = r.obs  BY <3>1 DEF RunState
    <3> QED  BY <1>1, <1>2, <3>1, <3>2, ErrorKeepsRecord DEF OpRead
  <2> QED  BY <1>1, <1>2, <1>4, <1>5, <2>1, UnhealthyIsFree DEF Goto
<1>6. CASE Healthy(r.obs)
  <2>1. PICK s : s = [r EXCEPT !.granted = TRUE, !.doc = OpDocument(r)]  OBVIOUS
  <2>2. Goto(e, s)  BY <1>1, <1>2, <1>6, <2>1, Granted DEF OpRead
  <2>3. s.pc = r.pc /\ s.obs = r.obs /\ s.held = r.held  BY <2>1 DEF RunState
  <2>4. RunHealthy(s, lease[e])  BY <1>1, <2>3, HealthFacts DEF RunHealthy
  <2> QED  BY <1>1, <1>2, <2>2, <2>3, <2>4, LocalHealth
<1> QED  BY <1>5, <1>6

\* The document a healthy operation writes is terminal exactly when the
\* Runner is done with it.
LEMMA DocumentOfOp ==
    ASSUME NEW e, NEW r \in RunState, NEW d \in Document, ~Frozen(d), r.pc \in Ops \ OffTrack,
           r.granted, Computed(e, r, d)
    PROVE  Frozen(r.doc) <=> Successor[r.pc] = "idle"
<1>1. CASE r.pc = "bind"
  <2>1. r.doc = Bind(d) /\ Successor[r.pc] = "attach"
    BY <1>1 DEF Computed, Successor, Ops, UpdateOps
  <2> QED  BY <2>1 DEF Bind, Document, Frozen
<1>2. CASE r.pc = "failure"
  <2>1. r.doc = RecordFailure(d, r.stage) /\ Successor[r.pc] = "fail"
    BY <1>2 DEF Computed, Successor, Ops, UpdateOps
  <2> QED  BY <2>1 DEF RecordFailure, Document, Frozen
<1>3. CASE r.pc = "result"
  <2>1. PICK x : x = AppendTargetChange(d, r.events)  OBVIOUS
  <2>2. x \in Document /\ x.state = d.state
    <3>1. r.events \in BOOLEAN  BY DEF RunState
    <3>2. x \in Document  BY <2>1, <3>1, DocumentOps
    <3> QED  BY <2>1, <3>2 DEF AppendTargetChange, Document
  <2>3. r.doc = RecordSourceResult(x, Attribution(r)) /\ Successor[r.pc] = "completing"
    BY <1>3, <2>1 DEF Computed, Successor, Ops, UpdateOps
  <2> QED  BY <2>2, <2>3 DEF RecordSourceResult, Document, Frozen
<1>4. CASE r.pc = "final"
  <2>1. r.doc = RecordSourceResult(d, Attribution(r)) /\ Successor[r.pc] = "complete"
    BY <1>4 DEF Computed, Successor, Ops, UpdateOps
  <2> QED  BY <2>1 DEF RecordSourceResult, Document, Frozen
<1>5. CASE r.pc \in {"running", "fail", "completing", "complete"}
  <2>1. r.doc = Transition(d, NextState[r.pc], FinalReason(r))
    BY <1>5 DEF Computed, TransitionOps
  <2>2. r.doc.state = NextState[r.pc]  BY <2>1 DEF Transition, Document
  <2>3. /\ NextState["running"] = "RUNNING" /\ NextState["fail"] = "FAILED"
        /\ NextState["completing"] = "COMPLETING" /\ NextState["complete"] = "COMPLETED"
    BY DEF NextState, TransitionOps
  <2>4. /\ Successor["running"] = "window" /\ Successor["fail"] = "idle"
        /\ Successor["completing"] = "loadFinal" /\ Successor["complete"] = "idle"
    BY DEF Successor, Ops, TransitionOps
  <2> QED  BY <1>5, <2>2, <2>3, <2>4 DEF Frozen, Terminal
<1> QED  BY <1>1, <1>2, <1>3, <1>4, <1>5 DEF Ops, UpdateOps, TransitionOps, OffTrack

LEMMA OpWriteHealth ==
    ASSUME Inv, Sync, Inv', Health, Calm, [Next]_vars, NEW e \in Executors, OpWrite(e), UNCHANGED faults
    PROVE  Health'
<1>1. PICK r \in RunState : r = run[e]  BY Facts
<1>2. /\ r.pc \in Ops /\ r.granted /\ ~Fault /\ UNCHANGED <<expired, proc>>
      /\ r.pc \notin Unclaimed /\ Engaged(e) /\ lease[e].pc = "off"
  BY <1>1, Facts DEF OpWrite, Fault, Calm, Ops, UpdateOps, TransitionOps, Unclaimed, Engaged
<1>3. PICK o \in Observations : o = r.obs  BY <1>1, <1>2, Facts, EngagedFacts
<1>4. PICK l : lease' = [lease EXCEPT ![e] = l] /\ l.pc \in {"off", "idle"}
  <2>1. PICK k : k = [NoRenewal EXCEPT !.pc = "idle"]  OBVIOUS
  <2>2. k.pc = "idle"  BY <2>1 DEF NoRenewal
  <2>3. lease = [lease EXCEPT ![e] = lease[e]]  BY DEF Inv, TypeOK
  <2>4. PICK m : m = lease[e]  OBVIOUS
  <2> QED  BY <1>2, <2>1, <2>2, <2>3, <2>4 DEF OpWrite, StartRenewal
<1>5. CASE UNCHANGED <<rec, rv>> /\ ~Healthy(o)
  <2>1. PICK s : Goto(e, s) /\ (s = Idle \/ s.obs = o)
    <3>1. PICK y : y = AfterWrite(r)  OBVIOUS
    <3>2. y = Idle \/ y.obs = r.obs  BY <3>1 DEF AfterWrite, RunState
    <3> QED  BY <1>1, <1>2, <1>3, <3>1, <3>2, ErrorKeepsRecord DEF OpWrite
  <2> QED  BY <1>1, <1>2, <1>3, <1>4, <1>5, <2>1, UnhealthyIsFree DEF Goto
<1>6. CASE Put(o, r.doc) /\ Goto(e, AfterWrite(r))
  <2>1. PICK s : s = AfterWrite(r)  OBVIOUS
  <2>2. /\ s.pc = Successor[r.pc]
        /\ s.pc # "idle" => s.obs = o /\ s.held = rv[o] + 1
    BY <1>3, <2>1 DEF AfterWrite, RunState, Idle
  <2>3. rec'[o] = r.doc /\ rv'[o] = rv[o] + 1 /\ expired'[o] = expired[o]
    BY <1>2, <1>6 DEF Put, Inv, TypeOK
  <2>4. run' = [run EXCEPT ![e] = s] /\ run'[e] = s  BY <1>6, <2>1 DEF Goto, Inv, TypeOK
  <2>5. \A x \in Executors \ {e} : run[x].pc \notin Unclaimed => run[x].obs # o
    BY <1>1, <1>2, <1>3, AloneOnRecord DEF Engaged
  <2>6. ASSUME Healthy(o)'
        PROVE  /\ rec'[o].completion # "EXECUTOR_LOST" /\ ~expired[o]
               /\ rec'[o].state \notin {"ABSENT", "REQUESTED"}
               /\ Frozen(rec'[o]) <=> s.pc = "idle"
               /\ s.pc \notin {"load"} \cup OffTrack
               /\ s.pc # "idle" => s.pc \notin Unclaimed
    <3>1. Healthy(o)  BY <2>6, HealthIsLost
    <3>2. ~Frozen(rec[o]) /\ r.pc \notin OffTrack /\ r.held = rv[o] /\ ~expired[o]
      BY <1>1, <1>2, <1>3, <3>1, HealthFacts, EngagedFacts DEF RunHealthy, Fenced
    <3>3. Computed(e, r, rec[o]) /\ WriteOK(o, r.doc) /\ rec[o] \in Document
      BY <1>1, <1>2, <1>3, <3>2, Facts, SyncFacts, EngagedFacts DEF RunSync, RunOK, Pending
    <3>4. Frozen(rec'[o]) <=> s.pc = "idle"
      BY <1>2, <2>2, <2>3, <3>2, <3>3, DocumentOfOp
    <3>5. rec'[o].claim # NoClaim /\ DocOK(rec'[o])
      BY <1>1, <1>2, <1>3, <2>3, <3>3, EngagedFacts DEF WriteOK
    <3>6. s.pc \notin {"load"} \cup OffTrack /\ (s.pc # "idle" => s.pc \notin Unclaimed)
      BY <1>2, <2>2, <3>2 DEF Successor, OffTrack, Ops, UpdateOps, TransitionOps, Unclaimed
    <3> QED  BY <2>3, <3>2, <3>3, <3>4, <3>5, <3>6 DEF WriteOK, DocOK
  <2>7. RunHealthy(s, l)'
    BY <1>4, <2>2, <2>3, <2>6 DEF RunHealthy, Unclaimed
  <2>8. RecHealthy(o)'
    <3>1. Healthy(o)' /\ s.pc # "idle" => Engaged(e)' /\ run'[e].obs = o
      BY <2>2, <2>4, <2>6 DEF Engaged
    <3> QED  BY <2>3, <2>6, <3>1 DEF RecHealthy
  <2> QED  BY <1>1, <1>2, <1>3, <1>4, <1>6, <2>4, <2>5, <2>7, <2>8, PutHealth
<1>7. Healthy(o) => Matches(o, r.held)
  BY <1>1, <1>2, <1>3, HealthFacts, EngagedFacts DEF RunHealthy, Fenced, Matches
<1> QED  BY <1>1, <1>2, <1>3, <1>5, <1>6, <1>7 DEF OpWrite

\* Runner.Run between its operations: on a healthy record it only moves on.
LEMMA StepHealth ==
    ASSUME Inv, Health, NEW e \in Executors, NEW r, NEW l, Step(e, run[e].pc, r), UNCHANGED faults,
           lease' = [lease EXCEPT ![e] = l], run[e].pc \notin Unclaimed,
           r = Idle \/ r.obs = run[e].obs,
           Healthy(run[e].obs) =>
              /\ r.obs = run[e].obs /\ r.pc \notin Unclaimed \cup OffTrack \cup {"load"}
              /\ r.pc \in Fenced => r.held = rv[run[e].obs]
              /\ l.pc \in {"off", "idle"} \/ l = lease[e]
    PROVE  Health'
<1>1. run' = [run EXCEPT ![e] = r] /\ UNCHANGED <<rec, rv, expired, proc>>  BY DEF Step, Goto
<1>2. CASE ~Healthy(run[e].obs)  BY <1>1, <1>2, UnhealthyIsFree
<1>3. CASE Healthy(run[e].obs)
  <2>1. run[e].pc # "idle"  BY DEF Unclaimed
  <2>2. RunHealthy(run[e], lease[e])  BY HealthFacts
  <2>3. RunHealthy(r, l)  BY <1>3, <2>1, <2>2 DEF RunHealthy, Unclaimed
  <2> QED  BY <1>1, <1>3, <2>3, QuietHealth
<1> QED  BY <1>2, <1>3

\* The renewer stays as it is.
LEMMA SameLease ==
    ASSUME Inv, UNCHANGED lease, NEW e \in Executors
    PROVE  \E l : l = lease[e] /\ lease' = [lease EXCEPT ![e] = l]
BY DEF Inv, TypeOK

LEMMA StartupHealth ==
    ASSUME Inv, Sync, Health, Calm, NEW e \in Executors, UNCHANGED faults,
           Load(e) \/ BindFailed(e) \/ Attach(e) \/ StartFailed(e)
    PROVE  Health'
<1>1. PICK r \in RunState : r = run[e]  BY Facts
<1>2. /\ ~Fault /\ UNCHANGED lease /\ RunHealthy(r, lease[e])
      /\ r.pc \in {"load", "bindFailed", "attach", "startFailed"}
  BY <1>1, HealthFacts DEF Fault, Calm, Load, BindFailed, Attach, StartFailed, Step
<1>3. PICK l : l = lease[e] /\ lease' = [lease EXCEPT ![e] = l]  BY <1>2, SameLease
<1>4. /\ r.pc \notin Unclaimed /\ r.pc # "idle"
      /\ Healthy(r.obs) => /\ r.pc \in {"load", "attach"} /\ r.held = rv[r.obs]
                           /\ ~Frozen(rec[r.obs]) /\ ~r.stop
                           /\ r.pc = "load" => ~rec[r.obs].bound
  <2>1. r.pc \notin Unclaimed /\ r.pc # "idle"  BY <1>2 DEF Unclaimed
  <2>2. r.stop => rec[r.obs].stop.requested  BY <1>1, Facts DEF RunOK
  <2> QED  BY <1>2, <2>1, <2>2 DEF RunHealthy, OffTrack, Fenced, Healthy
<1>5. LoadStopFrom(r).obs = r.obs  BY DEF LoadStopFrom, RunState
<1>6. CASE Load(e)
  <2>1. PICK s : s = [r EXCEPT !.pc = "bind", !.doc = Bind(rec[r.obs])]  OBVIOUS
  <2>2. PICK t : t = [r EXCEPT !.pc = "loadFailure", !.held = 0, !.stage = "TARGET_BINDING"]  OBVIOUS
  <2>3. /\ s.pc = "bind" /\ s.obs = r.obs /\ s.held = r.held
        /\ t.pc = "loadFailure" /\ t.obs = r.obs
    BY <2>1, <2>2 DEF RunState
  <2>4. PICK y : /\ Step(e, "load", y) /\ y \in {s, t, Idle}
                 /\ Healthy(r.obs) => y \in {s, t}
    <3>1. r.pc = "load"  BY <1>1, <1>6 DEF Load, Step
    <3>2. Healthy(r.obs) => ~(Frozen(rec[r.obs]) \/ rec[r.obs].bound)  BY <1>4, <3>1
    <3>3. \/ Step(e, "load", IF Frozen(rec[r.obs]) \/ rec[r.obs].bound THEN Idle ELSE s)
          \/ Step(e, "load", t)
      BY <1>1, <1>2, <1>6, <2>1, <2>2 DEF Load
    <3> QED  BY <3>2, <3>3
  <2>5. r.pc = "load"  BY <1>1, <2>4 DEF Step
  <2>6. Healthy(r.obs) =>
          /\ y.obs = r.obs /\ y.pc \notin Unclaimed \cup OffTrack \cup {"load"}
          /\ y.pc \in Fenced => y.held = rv[r.obs]
    BY <1>4, <2>3, <2>4 DEF Unclaimed, OffTrack, Fenced, Ops, UpdateOps, TransitionOps
  <2> QED  BY <1>1, <1>3, <1>4, <2>3, <2>4, <2>5, <2>6, StepHealth
<1>7. CASE BindFailed(e) \/ StartFailed(e)
  <2>1. PICK y \in {LoadStopFrom(r), Idle} : Step(e, r.pc, y)
    BY <1>1, <1>2, <1>7 DEF BindFailed, StartFailed, Step
  <2>2. ~Healthy(r.obs)  BY <1>1, <1>4, <1>7 DEF BindFailed, StartFailed, Step
  <2> QED  BY <1>1, <1>3, <1>4, <1>5, <2>1, <2>2, StepHealth
<1>8. CASE Attach(e)
  <2>1. PICK s : s = [r EXCEPT !.pc = "running"]  OBVIOUS
  <2>2. PICK t : t = [r EXCEPT !.pc = "loadFailure", !.held = 0, !.stage = "GADGET_ATTACH"]  OBVIOUS
  <2>3. /\ s.pc = "running" /\ s.obs = r.obs /\ s.held = r.held
        /\ t.pc = "loadFailure" /\ t.obs = r.obs
    BY <2>1, <2>2 DEF RunState
  <2>4. PICK y : /\ Step(e, "attach", y) /\ y \in {s, t, LoadStopFrom(r)}
                 /\ Healthy(r.obs) => y \in {s, t}
    BY <1>1, <1>4, <1>8, <2>1, <2>2 DEF Attach
  <2>5. r.pc = "attach"  BY <1>1, <2>4 DEF Step
  <2>6. Healthy(r.obs) =>
          /\ y.obs = r.obs /\ y.pc \notin Unclaimed \cup OffTrack \cup {"load"}
          /\ y.pc \in Fenced => y.held = rv[r.obs]
    BY <1>4, <2>3, <2>4 DEF Unclaimed, OffTrack, Fenced, Ops, UpdateOps, TransitionOps
  <2> QED  BY <1>1, <1>3, <1>4, <1>5, <2>3, <2>4, <2>5, <2>6, StepHealth
<1> QED  BY <1>6, <1>7, <1>8

LEMMA WindowHealth ==
    ASSUME Inv, Health, Calm, NEW e \in Executors, UNCHANGED faults,
           TargetsChange(e) \/ WindowEnds(e) \/ LeaseLost(e) \/ Drain(e)
    PROVE  Health'
<1>1. PICK r \in RunState : r = run[e]  BY Facts
<1>2. /\ r.pc \in {"window", "drain"} /\ RunHealthy(r, lease[e])
      /\ r.pc \notin Unclaimed /\ r.pc # "idle"
  BY <1>1, HealthFacts DEF TargetsChange, WindowEnds, LeaseLost, Drain, Step, Unclaimed
<1>3. NoRenewal.pc = "off"  BY DEF NoRenewal
<1>4. CASE LeaseLost(e)
  <2>1. ~Healthy(r.obs) /\ Step(e, "window", Idle) /\ lease' = [lease EXCEPT ![e] = NoRenewal]
    BY <1>2, <1>4 DEF LeaseLost, RunHealthy
  <2>2. r.pc = "window"  BY <1>1, <2>1 DEF Step
  <2> QED  BY <1>1, <1>2, <2>1, <2>2, StepHealth
<1>5. CASE Drain(e)
  <2>1. PICK b \in BOOLEAN : Step(e, "drain", [r EXCEPT !.pc = "loadResult", !.failed = b])
    BY <1>1, <1>5 DEF Drain
  <2>2. PICK y : y = [r EXCEPT !.pc = "loadResult", !.failed = b]  OBVIOUS
  <2>3. y.pc = "loadResult" /\ y.obs = r.obs  BY <2>2 DEF RunState
  <2>4. y.pc \notin Unclaimed \cup OffTrack \cup {"load"} \cup Fenced
    BY <2>3 DEF Unclaimed, OffTrack, Fenced, Ops, UpdateOps, TransitionOps
  <2>5. r.pc = "drain" /\ lease' = [lease EXCEPT ![e] = NoRenewal]  BY <1>1, <1>5, <2>1 DEF Step, Drain
  <2> QED  BY <1>1, <1>2, <1>3, <2>1, <2>2, <2>3, <2>4, <2>5, StepHealth
<1>6. CASE TargetsChange(e) \/ WindowEnds(e)
  <2>1. PICK y : Step(e, "window", y) /\ y.pc \in {"window", "drain"} /\ y.obs = r.obs
    <3>1. CASE TargetsChange(e)
      <4>1. PICK y : y = [r EXCEPT !.events = TRUE]  OBVIOUS
      <4>2. y.pc = r.pc /\ y.obs = r.obs  BY <4>1 DEF RunState
      <4> QED  BY <1>1, <1>2, <3>1, <4>1, <4>2 DEF TargetsChange
    <3>2. CASE WindowEnds(e)
      <4>1. PICK reason, b : Step(e, "window", [r EXCEPT !.pc = "drain", !.held = 0,
                                                         !.reason = reason, !.events = b])
        <5>1. r = [r EXCEPT !.events = r.events]  BY DEF RunState
        <5>2. \A x : [r EXCEPT !.pc = "drain", !.held = 0, !.reason = x]
                       = [r EXCEPT !.pc = "drain", !.held = 0, !.reason = x, !.events = r.events]
          BY DEF RunState
        <5> QED  BY <1>1, <3>2, <5>2, Zenon DEF WindowEnds
      <4>2. PICK y : y = [r EXCEPT !.pc = "drain", !.held = 0, !.reason = reason, !.events = b]
        OBVIOUS
      <4>3. y.pc = "drain" /\ y.obs = r.obs  BY <4>2 DEF RunState
      <4> QED  BY <4>1, <4>2, <4>3
    <3> QED  BY <1>6, <3>1, <3>2
  <2>2. UNCHANGED lease  BY <1>6 DEF TargetsChange, WindowEnds
  <2>3. PICK l : l = lease[e] /\ lease' = [lease EXCEPT ![e] = l]  BY <2>2, SameLease
  <2>4. y.pc \notin Unclaimed \cup OffTrack \cup {"load"} \cup Fenced
    BY <2>1 DEF Unclaimed, OffTrack, Fenced, Ops, UpdateOps, TransitionOps
  <2>5. r.pc = "window"  BY <1>1, <2>1 DEF Step
  <2> QED  BY <1>1, <1>2, <2>1, <2>3, <2>4, <2>5, StepHealth
<1> QED  BY <1>4, <1>5, <1>6

\* A reload takes the present version.
LEMMA LoadHealth ==
    ASSUME Inv, Health, Calm, NEW e \in Executors, UNCHANGED faults,
           LoadFailure(e) \/ LoadResult(e) \/ LoadFinal(e) \/ LoadStop(e)
    PROVE  Health'
<1>1. PICK r \in RunState : r = run[e]  BY Facts
<1>2. PICK l : l = lease[e] /\ lease' = [lease EXCEPT ![e] = l]
  BY SameLease DEF LoadFailure, LoadResult, LoadFinal, LoadStop, Reload
<1>3. ~Fault  BY DEF Fault, Calm
<1>4. CASE LoadFailure(e) \/ LoadResult(e) \/ LoadFinal(e)
  <2>1. PICK from, next, d : /\ from \in {"loadFailure", "loadResult", "loadFinal"}
                             /\ next \in {"failure", "result", "final"}
                             /\ Reload(e, from, next, d)
    BY <1>4 DEF LoadFailure, LoadResult, LoadFinal
  <2>2. PICK s : s = [r EXCEPT !.pc = next, !.held = rv[r.obs], !.doc = d]  OBVIOUS
  <2>3. s.pc = next /\ s.obs = r.obs /\ s.held = rv[r.obs]  BY <2>2 DEF RunState
  <2>4. PICK y \in {s, Idle} : Step(e, from, y) /\ (~Frozen(rec[r.obs]) => y = s)
    BY <1>1, <1>3, <2>1, <2>2 DEF Reload
  <2>5. r.pc = from /\ r.pc \notin Unclaimed /\ r.pc # "idle"
    BY <1>1, <2>1, <2>4 DEF Step, Unclaimed
  <2>6. Healthy(r.obs) => y = s  BY <1>1, <2>4, <2>5, HealthFacts DEF RunHealthy
  <2>7. s.pc \notin Unclaimed \cup OffTrack \cup {"load"}
    BY <2>1, <2>3 DEF Unclaimed, OffTrack
  <2> QED  BY <1>1, <1>2, <2>3, <2>4, <2>5, <2>6, <2>7, StepHealth
<1>5. CASE LoadStop(e)
  <2>1. PICK s : s = [r EXCEPT !.pc = "stopCompleting", !.held = rv[r.obs]]  OBVIOUS
  <2>2. s.obs = r.obs /\ Step(e, "loadStop", s)  BY <1>1, <1>3, <1>5, <2>1 DEF LoadStop, RunState
  <2>3. r.pc = "loadStop"  BY <1>1, <2>2 DEF Step
  <2>4. r.pc \notin Unclaimed /\ ~Healthy(r.obs)
    BY <1>1, <2>3, HealthFacts DEF RunHealthy, OffTrack, Unclaimed
  <2> QED  BY <1>1, <1>2, <2>2, <2>3, <2>4, StepHealth
<1> QED  BY <1>4, <1>5

\* A renewal of a healthy run is granted, and nobody writes in between.
LEMMA RenewHealth ==
    ASSUME Inv, Sync, Health, Calm, [Next]_vars, NEW e \in Executors, UNCHANGED faults,
           RenewRead(e) \/ RenewWrite(e)
    PROVE  Health'
<1>1. PICK r \in RunState, l \in LeaseState : r = run[e] /\ l = lease[e]  BY Facts
<1>2. /\ ~Fault /\ UNCHANGED <<run, proc>> /\ run' = [run EXCEPT ![e] = r]
      /\ r.pc \in {"window", "drain"} /\ r.pc \notin Unclaimed /\ Engaged(e)
  BY <1>1, Facts DEF RenewRead, RenewWrite, Fault, Calm, LeaseOK, Unclaimed, Engaged, Inv, TypeOK
<1>3. PICK o \in Observations : o = r.obs  BY <1>1, <1>2, Facts, EngagedFacts
<1>4. /\ Healthy(o) => ~Frozen(rec[o]) /\ ~expired[o] /\ (l.pc = "cas" => l.held = rv[o])
      /\ rec[o].claim = r.claim /\ rec[o].claim # NoClaim
      /\ rec[o].state \notin {"ABSENT", "REQUESTED"} /\ r.pc \notin OffTrack \cup Fenced \cup {"load"}
  BY <1>1, <1>2, <1>3, HealthFacts, EngagedFacts
  DEF RunHealthy, OffTrack, Fenced, Ops, UpdateOps, TransitionOps
<1>5. ASSUME NEW m, lease' = [lease EXCEPT ![e] = m], UNCHANGED <<rec, rv, expired>>,
             Healthy(o) => m.pc \notin {"again", "failed"} /\ (m.pc = "cas" => m.held = rv[o])
      PROVE  Health'
  <2>1. RunHealthy(r, m)  BY <1>2, <1>3, <1>4, <1>5 DEF RunHealthy, Unclaimed
  <2> QED  BY <1>1, <1>2, <1>5, <2>1, QuietHealth
<1>6. CASE RenewRead(e)
  <2>1. PICK m : m = [pc |-> "cas", held |-> rv[o], doc |-> rec[o], retry |-> l.pc = "again",
                      count |-> IF l.pc = "idle" THEN l.count + 1 ELSE l.count]
    OBVIOUS
  <2>2. m.pc = "cas" /\ m.held = rv[o]  BY <2>1
  <2>3. Healthy(o) => Renewable(o, r.claim)  BY <1>4 DEF Renewable, LeaseLive
  <2>4. \/ lease' = [lease EXCEPT ![e] = m]
        \/ ~Healthy(o) /\ lease' = [lease EXCEPT ![e] = [NoRenewal EXCEPT !.pc = "failed"]]
    BY <1>1, <1>2, <1>3, <1>6, <2>1, <2>3 DEF RenewRead
  <2>5. UNCHANGED <<rec, rv, expired>>  BY <1>6 DEF RenewRead
  <2> QED  BY <1>5, <2>2, <2>4, <2>5
<1>7. CASE RenewWrite(e)
  <2>1. l.pc = "cas" /\ LeaseSync(r, l)  BY <1>1, <1>7, SyncFacts DEF RenewWrite
  <2>2. PICK m : m = [NoRenewal EXCEPT !.pc = "idle", !.count = l.count]  OBVIOUS
  <2>3. m.pc = "idle"  BY <2>2 DEF NoRenewal
  <2>4. CASE ~Matches(o, l.held)
    <3>1. ~Healthy(o)  BY <1>4, <2>1, <2>4 DEF Matches
    <3>2. UNCHANGED <<rec, rv, expired>> /\ \E k : lease' = [lease EXCEPT ![e] = k]
      BY <1>1, <1>2, <1>3, <1>7, <2>4 DEF RenewWrite
    <3> QED  BY <1>5, <3>1, <3>2
  <2>5. CASE Matches(o, l.held)
    <3>1. /\ Put(o, l.doc) /\ expired' = [expired EXCEPT ![o] = FALSE]
          /\ lease' = [lease EXCEPT ![e] = m]
      BY <1>1, <1>2, <1>3, <1>7, <2>2, <2>5 DEF RenewWrite
    <3>2. l.doc = rec[o]  BY <1>3, <2>1, <2>5 DEF LeaseSync, Matches
    <3>3. rec'[o] = rec[o] /\ expired'[o] = FALSE  BY <3>1, <3>2 DEF Put, Inv, TypeOK
    <3>4. Healthy(o)' => Healthy(o)  BY HealthIsLost
    <3>5. RunHealthy(r, m)'
      BY <1>2, <1>3, <1>4, <2>3, <3>3, <3>4 DEF RunHealthy, Unclaimed
    <3>6. RecHealthy(o)'
      <4>1. Engaged(e)' /\ run'[e].obs = o  BY <1>1, <1>2, <1>3 DEF Engaged
      <4>2. RecHealthy(o)  BY DEF Health
      <4> QED  BY <1>4, <3>3, <3>4, <4>1, <4>2 DEF RecHealthy
    <3>7. \A x \in Executors \ {e} : run[x].pc \notin Unclaimed => run[x].obs # o
      BY <1>1, <1>2, <1>3, AloneOnRecord DEF Engaged
    <3>8. \A x \in Observations \ {o} : expired'[x] = expired[x]  BY <3>1 DEF Inv, TypeOK
    <3> QED  BY ZenonT(60), <1>1, <1>2, <1>3, <3>1, <3>5, <3>6, <3>7, <3>8, PutHealth
  <2> QED  BY <2>4, <2>5
<1> QED  BY <1>6, <1>7

\* The watcher marks the Runner and moves nothing.
LEMMA WatchHealth ==
    ASSUME Inv, Health, NEW e \in Executors, WatchRead(e) \/ WatchStop(e)
    PROVE  Health'
<1>1. PICK r \in RunState : r = run[e]  BY Facts
<1>2. UNCHANGED <<rec, rv, expired, faults, proc, lease>>  BY DEF WatchRead, WatchStop
<1>3. PICK s : Goto(e, s) /\ s.pc = r.pc /\ s.obs = r.obs /\ s.held = r.held
  <2>1. PICK y : y = [r EXCEPT !.seen = TRUE]  OBVIOUS
  <2>2. PICK z : z = [r EXCEPT !.stop = TRUE, !.cancelled = TRUE]  OBVIOUS
  <2>3. y.pc = r.pc /\ y.obs = r.obs /\ y.held = r.held  BY <2>1 DEF RunState
  <2>4. z.pc = r.pc /\ z.obs = r.obs /\ z.held = r.held  BY <2>2 DEF RunState
  <2> QED  BY <1>1, <2>1, <2>2, <2>3, <2>4 DEF WatchRead, WatchStop
<1>4. RunHealthy(s, lease[e])  BY <1>1, <1>3, HealthFacts DEF RunHealthy
<1> QED  BY <1>1, <1>2, <1>3, <1>4, LocalHealth

\* Steps that move no executor: requests, new observations, time.
LEMMA RecordHealth ==
    ASSUME Inv, Sync, Health, Calm, [Next]_vars, UNCHANGED faults,
           \/ \E q \in Requesters : RequestWrite(q) \/ \E o \in Observations : RequestRead(q, o)
           \/ \E o \in Observations : CreateObservation(o) \/ LeaseRunsOut(o)
    PROVE  Health'
<1>1. UNCHANGED <<run, lease, proc>>  BY DEF RequestWrite, RequestRead, CreateObservation, LeaseRunsOut
<1>2. Calm' = Calm  BY DEF Calm
<1>3. ASSUME NEW o \in Observations, RecHealthy(o)',
             Healthy(o)' => \A x \in Executors : run[x].pc \notin Unclaimed => run[x].obs # o,
             \A x \in Observations \ {o} : rec'[x] = rec[x] /\ rv'[x] = rv[x] /\ expired'[x] = expired[x]
      PROVE  Health'
  <2>1. \A x \in Observations \ {o} : Healthy(x)' = Healthy(x)  BY <1>2, <1>3 DEF Healthy
  <2>2. \A e \in Executors : Engaged(e)' = Engaged(e)  BY <1>1 DEF Engaged
  <2>3. ASSUME NEW x \in Observations  PROVE RecHealthy(x)'
    <3>1. CASE x = o  BY <1>3, <3>1
    <3>2. CASE x # o
      <4>1. RecHealthy(x)  BY DEF Health
      <4> QED  BY <1>1, <1>3, <2>1, <2>2, <3>2, <4>1 DEF RecHealthy
    <3> QED  BY <3>1, <3>2
  <2>4. ASSUME NEW e \in Executors
        PROVE  RunHealthy(run[e], lease[e])' /\ (Calm => proc[e] # "stopping")'
    <3>1. RunHealthy(run[e], lease[e]) /\ (Calm => proc[e] # "stopping")  BY DEF Health
    <3>2. CASE run[e].pc = "idle"  BY <1>1, <1>2, <3>1, <3>2 DEF RunHealthy
    <3>3. CASE run[e].pc # "idle" /\ run[e].obs # o
      <4>1. run[e].obs \in Observations \ {o}  BY <3>3, Facts
      <4> QED  BY <1>1, <1>2, <1>3, <2>1, <3>1, <4>1 DEF RunHealthy
    <3>4. CASE run[e].pc # "idle" /\ run[e].obs = o
      <4>1. Healthy(o)' => Healthy(o)  BY HealthIsLost
      <4> QED  BY <1>1, <1>2, <1>3, <3>1, <3>4, <4>1 DEF RunHealthy
    <3> QED  BY <3>2, <3>3, <3>4
  <2> QED  BY <2>3, <2>4 DEF Health
<1>4. CASE UNCHANGED <<rec, rv, expired>>
  <2>1. \A o : Healthy(o)' = Healthy(o)  BY <1>2, <1>4 DEF Healthy
  <2>2. \A e : Engaged(e)' = Engaged(e)  BY <1>1 DEF Engaged
  <2>3. \A o \in Observations : RecHealthy(o)'  BY <1>1, <1>4, <2>1, <2>2 DEF Health, RecHealthy
  <2>4. \A e \in Executors : RunHealthy(run[e], lease[e])'
    BY <1>1, <1>4, <2>1 DEF Health, RunHealthy
  <2> QED  BY <1>1, <1>2, <2>3, <2>4 DEF Health
<1>5. ASSUME NEW q \in Requesters, RequestWrite(q), ~UNCHANGED <<rec, rv>>  PROVE Health'
  <2>1. PICK k \in RequestState : k = req[q]  BY DEF Inv, TypeOK
  <2>2. k.obs \in Observations /\ Matches(k.obs, k.held) /\ Put(k.obs, k.doc) /\ UNCHANGED expired
    BY <1>5, <2>1 DEF RequestWrite, Inv, ReqOK
  <2>3. PICK o \in Observations : o = k.obs  BY <2>2
  <2>4. k.doc = RequestStop(rec[o]) /\ rec[o] \in Document
    BY <1>5, <2>1, <2>2, <2>3 DEF RequestWrite, Sync, ReqSync, Matches, Inv, TypeOK
  <2>5. k.doc.stop.requested  BY <2>4 DEF RequestStop, Document
  <2>6. \A x \in Observations : rec'[x] = IF x = o THEN k.doc ELSE rec[x]
    BY <2>2, <2>3 DEF Put, Inv, TypeOK
  <2>7. ~Healthy(o)'  BY <2>5, <2>6 DEF Healthy
  <2>8. \A x \in Observations \ {o} : rec'[x] = rec[x] /\ rv'[x] = rv[x] /\ expired'[x] = expired[x]
    BY <2>2, <2>3 DEF Put, Inv, TypeOK
  <2> QED  BY <1>3, <2>7, <2>8 DEF RecHealthy
<1>6. ASSUME NEW o \in Observations, CreateObservation(o)  PROVE Health'
  <2>1. rec[o] = Absent /\ Put(o, NewObservation) /\ UNCHANGED expired
    BY <1>6 DEF CreateObservation, Inv, DocOK
  <2>2. rec'[o] = NewObservation  BY <2>1 DEF Put, Inv, TypeOK
  <2>3. RecHealthy(o)'
    BY <2>2 DEF RecHealthy, NewObservation, Absent, None
  <2>4. \A x \in Executors : run[x].pc \notin Unclaimed => run[x].obs # o
    BY <2>1, UnclaimedIsFree DEF Absent
  <2>5. \A x \in Observations \ {o} : rec'[x] = rec[x] /\ rv'[x] = rv[x] /\ expired'[x] = expired[x]
    BY <2>1 DEF Put, Inv, TypeOK
  <2> QED  BY <1>3, <2>3, <2>4, <2>5
<1>7. ASSUME NEW o \in Observations, LeaseRunsOut(o)  PROVE Health'
  <2>1. ~Healthy(o)
    <3>1. /\ rec[o].claim # NoClaim /\ ~Frozen(rec[o])
          /\ Stalls \/ \A e \in Executors : Engaged(e) => run[e].obs # o
      BY <1>7 DEF LeaseRunsOut
    <3> QED  BY <3>1 DEF Health, RecHealthy, Calm
  <2>2. ~Healthy(o)'  BY <2>1, HealthIsLost
  <2>3. \A x \in Observations \ {o} : rec'[x] = rec[x] /\ rv'[x] = rv[x] /\ expired'[x] = expired[x]
    BY <1>7 DEF LeaseRunsOut, Inv, TypeOK
  <2> QED  BY <1>3, <2>2, <2>3 DEF RecHealthy
<1>8. ASSUME NEW q \in Requesters, RequestWrite(q) \/ \E o \in Observations : RequestRead(q, o),
             UNCHANGED <<rec, rv>>
      PROVE  UNCHANGED <<rec, rv, expired>>
  BY <1>8 DEF RequestWrite, RequestRead
<1>9. ASSUME NEW q \in Requesters, NEW o \in Observations, RequestRead(q, o)
      PROVE  UNCHANGED <<rec, rv>>
  BY <1>9 DEF RequestRead
<1> QED  BY <1>4, <1>5, <1>6, <1>7, <1>8, <1>9

LEMMA NextHealth == Inv /\ Sync /\ Health /\ [Next]_vars => Health'
<1> SUFFICES ASSUME Inv, Sync, Health, [Next]_vars  PROVE Health'  OBVIOUS
<1>1. Inv'  BY NextKeeps
<1>2. UNCHANGED faults \/ Fault
  <2>1. ASSUME NEW e \in Executors, ExecutorStep(e)  PROVE UNCHANGED faults \/ Fault
    <3>1. CASE RunnerStep(e)
      BY <3>1 DEF RunnerStep, ClaimRead, ClaimWrite, RecoverWrite, OpRead, OpWrite, Load, BindFailed,
         Attach, StartFailed, WindowEnds, LeaseLost, Drain, LoadFailure, LoadResult, LoadFinal,
         LoadStop, Reload
    <3> QED
      BY <2>1, <3>1 DEF ExecutorStep, RenewStep, RenewRead, RenewWrite, Scan, RecoverRead, Start,
         TargetsChange, WatchRead, WatchStop, ScanFails, Shutdown, Exit, Kill
  <2> QED  BY <2>1 DEF Next, vars, CreateObservation, LeaseRunsOut, RequestWrite, RequestRead
<1>3. CASE ~Calm'  BY <1>3, FaultsEndHealth
<1>4. CASE Calm'
  <2>1. faults \in Nat  BY DEF Inv, TypeOK
  <2>2. UNCHANGED faults /\ Calm  BY <1>2, <1>4, <2>1 DEF Fault, Calm
  <2>3. ASSUME NEW e \in Executors, ExecutorStep(e)  PROVE Health'
    BY <1>1, <2>2, <2>3, ScanHealth, ProcessHealth, ClaimWriteHealth, RecoverWriteHealth,
       OpReadHealth, OpWriteHealth, StartupHealth, WindowHealth, LoadHealth, RenewHealth, WatchHealth
    DEF ExecutorStep, RunnerStep, RenewStep
  <2>4. ASSUME UNCHANGED vars  PROVE Health'
    BY <2>4 DEF vars, Health, RecHealthy, RunHealthy, Healthy, Calm, Engaged
  <2> QED  BY <2>2, <2>3, <2>4, RecordHealth DEF Next
<1> QED  BY <1>3, <1>4

LEMMA InitHealth == Init => Health
<1> SUFFICES ASSUME Init  PROVE Health  OBVIOUS
<1>1. ASSUME NEW o \in Observations  PROVE RecHealthy(o)
  <2>1. rec[o] = Absent  BY DEF Init
  <2> QED  BY <2>1 DEF RecHealthy, Absent, None
<1>2. ASSUME NEW e \in Executors
      PROVE  RunHealthy(run[e], lease[e]) /\ proc[e] # "stopping"
  <2>1. run[e] = Idle /\ proc[e] = "up"  BY DEF Init
  <2> QED  BY <2>1 DEF RunHealthy, Idle
<1> QED  BY <1>1, <1>2 DEF Health

\* As long as no lease runs out under its Runner, no request fails and nobody
\* asks for a stop, no run is written off, for any number of executors that
\* scan, claim, renew and recover at the same time (RecoveryEligible,
\* TerminalizeExecutorLost, authority, RenewLease).
THEOREM HealthyRunsSurvive == Spec => []HealthyRunsAreNotLost
<1>1. Init => Inv /\ Sync /\ Health  BY InitInv, InitSync, InitHealth
<1>2. (Inv /\ Sync /\ Health) /\ [Next]_vars => (Inv /\ Sync /\ Health)'
  BY NextKeeps, NextSync, NextHealth
<1>3. Health => HealthyRunsAreNotLost
  BY DEF Health, RecHealthy, Healthy, Calm, HealthyRunsAreNotLost
<1> QED  BY <1>1, <1>2, <1>3, PTL DEF Spec

==============================================================================
