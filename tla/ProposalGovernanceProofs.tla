---------------------- MODULE ProposalGovernanceProofs ----------------------
(* What the governance of a Proposal guarantees for any number of callers,    *)
(* candidates, contexts, calls, edits and faults: the apply gate accepts only *)
(* what a human saw, decisions and the last approval are kept, verification   *)
(* facts belong to the approval beside them, and a leftover verifier Pod      *)
(* makes its experiment UNKNOWN.  The invariant says three things: an object  *)
(* a caller holds is the stored one as long as the resourceVersions agree;    *)
(* the stored status is coherent with the decisions taken; an experiment      *)
(* knows every Pod it may have left.                                          *)
EXTENDS ProposalGovernance, FiniteSetTheorems, TLAPS

-----------------------------------------------------------------------------
(* The invariant.  Its parts are predicates of one object or one call and of   *)
(* the values they depend on, so that a step is a change of their arguments.   *)

States == {"", "Draft", "Reviewed", "Approved", "Rejected"}
Results == {"VERIFIED", "NOT_VERIFIED", "UNKNOWN"}
Profiles == {"approved", "drifted"}
Roles == {"twin", "control"}

Snaps == [uid : Nat, digest : Digests \cup {NoDigest}, ctx : Contexts \cup {None}]
FactRecords == [id : 0..MaxOps, uid : Nat, digest : Digests, result : Results, ranOn : Profiles \cup {None}]
Statuses == [state : States, digest : Digests \cup {NoDigest}, ctx : Contexts \cup {None},
             actor : {"", "user"}, snap : Snaps, facts : SUBSET FactRecords]
Objects == [uid : Nat, rv : Nat, spec : AllSpecs \cup {NoSpec}, status : Statuses]
Runs == [id : 0..MaxOps, result : Results, twin : Exits \cup {None}, control : Exits \cup {None},
         failed : BOOLEAN, ranOn : Profiles \cup {None}, known : SUBSET Roles, uncertain : SUBSET Roles]

SavePcs == {"saveGet", "saveCreate", "saveDraft", "saveUpdate", "saveConverge"}
DecisionPcs == {"govCheck", "govGet", "govPut"}
StartPcs == {"createTwin", "createControl", "validatePair", "waitPods"}
EndPcs == {"revalidate", "appendGet", "appendPut"}
ExperimentPcs == StartPcs \cup {"cleanup"} \cup EndPcs
Pcs == {"idle"} \cup SavePcs \cup DecisionPcs \cup ExperimentPcs
HoldingPcs == {"saveDraft", "saveUpdate", "govPut"} \cup ExperimentPcs
Decisions == {"review", "approve", "reject"}

Calls == [pc : Pcs, spec : AllSpecs \cup {NoSpec}, seen : Objects, exp : Nat, op : Decisions \cup {None},
          got : Objects, run : Runs]

Types ==
  /\ obj \in Objects
  /\ pr \in [Procs -> Calls]
  /\ rev \in Nat
  /\ prof \in Profiles
  /\ pods \in [Procs -> SUBSET Roles]
  /\ ops \in 0..MaxOps

\* The resourceVersion names the version: whoever holds h holds the stored
\* object o as long as the two versions agree.
Holds(h, o, n) ==
  /\ h.uid # 0 /\ h.rv <= n
  /\ (o.uid # 0 /\ o.rv = h.rv) => o = h

\* An approval was given by a human who saw its candidate.
Endorsed(t, E) ==
  /\ t.digest \in Digests
  /\ \E e \in E : /\ e.digest = t.digest
                  /\ e.actor = t.actor
                  /\ e.actor = "user" => e.ctx = t.ctx

\* The facts beside an approval of object u.
FactsOK(t, u) ==
  /\ IsFiniteSet(t.facts) /\ Cardinality(t.facts) <= MaxVerifications
  /\ \A f \in t.facts : /\ t.state = "Approved" /\ f.uid = u /\ f.digest = t.digest
                        /\ f.result # "UNKNOWN" => f.ranOn = "approved"

StatusOK(t, u, n, l, E) ==
  /\ t.snap = l
  /\ t.snap = NoSnap \/ (t.snap.digest \in Digests /\ t.snap.uid <= n)
  /\ t.state \in {"", "Draft", "Reviewed"} => t.snap = NoSnap
  /\ t.state = "Approved" => Endorsed(t, E)
  /\ FactsOK(t, u)

ObjectOK(o, n, l, E) ==
  o.uid # 0 =>
    /\ o.uid <= o.rv /\ o.rv <= n
    /\ o.spec \in AllSpecs
    /\ StatusOK(o.status, o.uid, n, l, E)

\* A decision: the human saw a version, and the command that is about to write
\* has checked what it read against it.
DecisionOK(c, o, n) ==
  /\ c.pc \in DecisionPcs =>
       /\ Holds(c.seen, o, n) /\ c.op \in Decisions
       /\ c.exp \in {0, c.seen.rv}
  /\ c.pc = "govPut" =>
       /\ c.got.spec \in AllSpecs
       /\ c.exp # 0 => c.got = c.seen
       /\ c.op = "review" => c.got.status.state \in {"", "Draft"}
       /\ c.op = "approve" => CandidateDigest(c.seen.spec) = CandidateDigest(c.got.spec)

\* An experiment, for a profile pf and its own Pods pd.
RunOK(c, pf, pd) ==
  /\ c.pc \in ExperimentPcs => c.got.status.state = "Approved"
  /\ c.pc \in StartPcs => c.run.uncertain = {} /\ c.run.result = "UNKNOWN"
  /\ c.pc \in StartPcs \cup {"cleanup"} => pd \subseteq c.run.known \cup c.run.uncertain
  /\ c.pc \in EndPcs => pd \subseteq c.run.uncertain
  /\ c.pc \in ExperimentPcs /\ c.run.uncertain # {} => c.run.result = "UNKNOWN"
  /\ c.pc \in ExperimentPcs \ {"createTwin"} /\ c.run.result # "UNKNOWN" => c.run.ranOn # None
  /\ c.pc \in {"createControl", "validatePair", "waitPods"} => c.run.ranOn # None
  /\ c.run.ranOn = "drifted" => pf = "drifted"
  /\ c.pc \in {"appendGet", "appendPut"} /\ c.run.result # "UNKNOWN" => c.run.ranOn = "approved"
  /\ c.pc = "appendPut" => Cardinality(c.got.status.facts) < MaxVerifications

SaveOK(c) ==
  /\ c.pc \in {"saveGet", "saveCreate", "saveUpdate"} => c.spec \in AllSpecs
  /\ c.pc = "saveDraft" => c.got.status = NewStatus("", NoSnap)

CallOK(c, o, n, pf, pd) ==
  /\ c.pc \in HoldingPcs => Holds(c.got, o, n)
  /\ SaveOK(c)
  /\ DecisionOK(c, o, n)
  /\ RunOK(c, pf, pd)

Governed ==
  /\ ObjectOK(obj, rev, last, endorsed)
  /\ \A p \in Procs : CallOK(pr[p], obj, rev, prof, pods[p])

\* The inductive invariant.
Inv == Types /\ Governed

-----------------------------------------------------------------------------
(* Values                                                                      *)

\* What the specs hold.
LEMMA SpecFields ==
  ASSUME NEW s \in AllSpecs
  PROVE  /\ s.version \in {V1, V2} /\ s.cand \in Candidates /\ s.ctx \in Contexts \cup {None}
         /\ CandidateDigest(s) \in Digests
BY DEF AllSpecs, CandidateDigest, CandidateDigestV1, CandidateDigestV2, Digests

LEMMA NoSnapType == NoSnap \in Snaps
BY DEF NoSnap, Snaps, NoDigest

\* A fresh status has its type.
LEMMA NewStatusType ==
  ASSUME NEW s \in States, NEW snap \in Snaps
  PROVE  NewStatus(s, snap) \in Statuses
BY DEF NewStatus, Statuses, NoDigest

LEMMA NewStatusFields ==
  ASSUME NEW s, NEW snap
  PROVE  /\ NewStatus(s, snap).state = s /\ NewStatus(s, snap).snap = snap
         /\ NewStatus(s, snap).facts = {} /\ NewStatus(s, snap).actor = ""
BY DEF NewStatus

LEMMA BlankFields == NewStatus("", NoSnap).state = "" /\ NewStatus("", NoSnap).snap = NoSnap
<1>1. PICK s, n : s = "" /\ n = NoSnap
  OBVIOUS
<1>2. NewStatus(s, n).state = s /\ NewStatus(s, n).snap = n
  BY NewStatusFields
<1> QED BY <1>1, <1>2

LEMMA AbsentType == Absent \in Objects
<1>1. NewStatus("", NoSnap) \in Statuses
  BY NoSnapType, NewStatusType DEF States
<1>2. NoSpec \in AllSpecs \cup {NoSpec}
  OBVIOUS
<1> QED BY <1>1, <1>2 DEF Absent, Objects

LEMMA NoRunType == NoRun \in Runs
BY BoundsAssumption DEF NoRun, Runs, Results

\* A caller that is doing nothing satisfies the invariant whatever the world is.
LEMMA IdleOK ==
  ASSUME NEW o, NEW n, NEW pf, NEW pd
  PROVE  Idle \in Calls /\ CallOK(Idle, o, n, pf, pd)
<1>1. /\ Idle.pc = "idle" /\ Idle.run = NoRun /\ Idle.run.ranOn = None
  BY DEF Idle, NoRun
<1>2. Idle \in Calls
  BY AbsentType, NoRunType DEF Idle, Calls, Pcs
<1>3. /\ Idle.pc \notin HoldingPcs /\ Idle.pc \notin SavePcs /\ Idle.pc \notin DecisionPcs
      /\ Idle.pc \notin ExperimentPcs
  BY <1>1 DEF HoldingPcs, SavePcs, DecisionPcs, ExperimentPcs, StartPcs, EndPcs
<1>4. SaveOK(Idle)
  BY <1>3 DEF SaveOK, SavePcs
<1>5. DecisionOK(Idle, o, n)
  BY <1>3 DEF DecisionOK, DecisionPcs
<1>6. RunOK(Idle, pf, pd)
  BY <1>1 DEF RunOK, StartPcs, EndPcs, ExperimentPcs, None
<1> QED BY <1>2, <1>3, <1>4, <1>5, <1>6 DEF CallOK

-----------------------------------------------------------------------------
(* Steps                                                                       *)

\* What a step may do to the object, the revision and the profile: nothing, a
\* write under a fresh revision, or a deletion; the profile may drift.
WorldStep(o, n, pf, o2, n2, pf2) ==
  /\ \/ o2 = o /\ n2 = n
     \/ o2.rv = n + 1 /\ n2 = n + 1
     \/ o2.uid = 0 /\ n2 = n
  /\ pf2 \in {pf, "drifted"}

\* A held version stays what it says it is.
LEMMA HoldsKept ==
  ASSUME NEW h \in Objects, NEW o \in Objects, NEW n \in Nat, NEW o2 \in Objects, NEW n2 \in Nat,
         NEW pf, NEW pf2, Holds(h, o, n), WorldStep(o, n, pf, o2, n2, pf2)
  PROVE  Holds(h, o2, n2)
<1>1. h.rv \in Nat
  BY DEF Objects
<1> QED BY <1>1 DEF Holds, WorldStep

LEMMA CallFields ==
  ASSUME NEW c \in Calls
  PROVE  /\ c.pc \in Pcs /\ c.spec \in AllSpecs \cup {NoSpec} /\ c.seen \in Objects /\ c.exp \in Nat
         /\ c.op \in Decisions \cup {None} /\ c.got \in Objects /\ c.run \in Runs
BY DEF Calls

LEMMA RunFields ==
  ASSUME NEW r \in Runs
  PROVE  /\ r.id \in 0..MaxOps /\ r.result \in Results /\ r.twin \in Exits \cup {None} /\ r.control \in Exits \cup {None}
         /\ r.failed \in BOOLEAN /\ r.ranOn \in Profiles \cup {None} /\ r.known \in SUBSET Roles
         /\ r.uncertain \in SUBSET Roles
BY DEF Runs

LEMMA ObjectFields ==
  ASSUME NEW o \in Objects
  PROVE  /\ o.uid \in Nat /\ o.rv \in Nat /\ o.spec \in AllSpecs \cup {NoSpec} /\ o.status \in Statuses
BY DEF Objects

LEMMA StatusFields ==
  ASSUME NEW t \in Statuses
  PROVE  /\ t.state \in States /\ t.digest \in Digests \cup {NoDigest} /\ t.ctx \in Contexts \cup {None}
         /\ t.actor \in {"", "user"} /\ t.snap \in Snaps /\ t.facts \in SUBSET FactRecords
BY DEF Statuses

\* A call that does not move keeps its invariant.
LEMMA CallKept ==
  ASSUME NEW c \in Calls, NEW o \in Objects, NEW n \in Nat, NEW o2 \in Objects, NEW n2 \in Nat,
         NEW pf \in Profiles, NEW pf2 \in Profiles, NEW pd,
         CallOK(c, o, n, pf, pd), WorldStep(o, n, pf, o2, n2, pf2)
  PROVE  CallOK(c, o2, n2, pf2, pd)
<1>0. c.got \in Objects /\ c.seen \in Objects
  BY CallFields
<1>1. c.pc \in HoldingPcs => Holds(c.got, o2, n2)
  BY <1>0, HoldsKept DEF CallOK
<1>2. DecisionOK(c, o2, n2)
  BY <1>0, HoldsKept DEF CallOK, DecisionOK
<1>3. RunOK(c, pf2, pd)
  <2>1. c.run.ranOn = "drifted" => pf2 = "drifted"
    BY DEF CallOK, RunOK, WorldStep
  <2> QED BY <2>1 DEF CallOK, RunOK
<1> QED BY <1>1, <1>2, <1>3 DEF CallOK

\* A step of caller p that leaves it at d.
LEMMA CallStep ==
  ASSUME Inv, NEW p \in Procs, NEW d \in Calls, NEW s \in SUBSET Roles,
         pr' = [pr EXCEPT ![p] = d], pods' = [pods EXCEPT ![p] = s],
         obj' \in Objects, rev' \in Nat, prof' \in Profiles, ops' \in 0..MaxOps,
         WorldStep(obj, rev, prof, obj', rev', prof'),
         ObjectOK(obj', rev', last', endorsed'),
         CallOK(d, obj', rev', prof', s)
  PROVE  Inv'
<1> USE DEF Inv, Types
<1>1. pr' \in [Procs -> Calls] /\ pods' \in [Procs -> SUBSET Roles]
  OBVIOUS
<1>2. ASSUME NEW q \in Procs PROVE CallOK(pr'[q], obj', rev', prof', pods'[q])
  <2>1. CASE q = p
    <3>1. pr'[q] = d /\ pods'[q] = s
      BY <2>1
    <3> QED BY <3>1
  <2>2. CASE q # p
    <3>1. pr'[q] = pr[q] /\ pods'[q] = pods[q] /\ pr[q] \in Calls
      BY <2>2
    <3>2. CallOK(pr[q], obj, rev, prof, pods[q])
      BY DEF Governed
    <3> QED BY <3>1, <3>2, CallKept
  <2> QED BY <2>1, <2>2
<1>3. Governed'
  BY <1>2 DEF Governed
<1> QED BY <1>1, <1>3

\* A step of caller p that only moves the call.
LEMMA QuietStep ==
  ASSUME Inv, NEW p \in Procs, NEW d \in Calls, pr' = [pr EXCEPT ![p] = d],
         UNCHANGED <<obj, rev, prof, pods, last, endorsed>>, ops' \in 0..MaxOps,
         CallOK(d, obj, rev, prof, pods[p])
  PROVE  Inv'
<1>1. /\ obj \in Objects /\ rev \in Nat /\ prof \in Profiles /\ pods \in [Procs -> SUBSET Roles]
      /\ ObjectOK(obj, rev, last, endorsed)
  BY DEF Inv, Types, Governed
<1>2. pods' = [pods EXCEPT ![p] = pods[p]] /\ pods[p] \in SUBSET Roles
  BY <1>1
<1>3. /\ obj' = obj /\ rev' = rev /\ prof' = prof /\ last' = last /\ endorsed' = endorsed
  OBVIOUS
<1>4. WorldStep(obj, rev, prof, obj', rev', prof')
  BY <1>3 DEF WorldStep
<1>5. ObjectOK(obj', rev', last', endorsed') /\ CallOK(d, obj', rev', prof', pods[p])
  BY <1>1, <1>3
<1> QED BY <1>1, <1>2, <1>3, <1>4, <1>5, CallStep

\* The end of a call that wrote nothing.
LEMMA QuietReturn ==
  ASSUME Inv, NEW p \in Procs, Return(p), UNCHANGED <<obj, rev, prof, pods, ops, last, endorsed>>
  PROVE  Inv'
<1>1. Idle \in Calls /\ CallOK(Idle, obj, rev, prof, pods[p])
  BY IdleOK
<1>2. ops' \in 0..MaxOps
  BY DEF Inv, Types
<1>3. pr' = [pr EXCEPT ![p] = Idle]
  BY DEF Return
<1>4. UNCHANGED <<obj, rev, prof, pods, last, endorsed>>
  OBVIOUS
<1> QED BY <1>1, <1>2, <1>3, <1>4, QuietStep

\* The end of a call that wrote spec s and status t.
LEMMA WriteReturn ==
  ASSUME Inv, NEW p \in Procs, NEW s \in AllSpecs, NEW t \in Statuses,
         Exists, Write(s, t), Return(p), UNCHANGED <<prof, pods, ops>>,
         StatusOK(t, obj.uid, rev + 1, last', endorsed')
  PROVE  Inv'
<1>1. /\ obj \in Objects /\ rev \in Nat /\ prof \in Profiles /\ pods \in [Procs -> SUBSET Roles]
      /\ ops \in 0..MaxOps /\ ObjectOK(obj, rev, last, endorsed)
  BY DEF Inv, Types, Governed
<1>2. rev' = rev + 1 /\ rev' \in Nat
  BY <1>1 DEF Write
<1>3. PICK o : o = [obj EXCEPT !.rv = rev + 1, !.spec = s, !.status = t]
  OBVIOUS
<1>4. obj' = o
  BY <1>3 DEF Write
<1>5. o \in Objects /\ o.uid = obj.uid /\ o.rv = rev + 1 /\ o.spec = s /\ o.status = t
  <2>1. rev + 1 \in Nat /\ s \in AllSpecs \cup {NoSpec}
    BY <1>1
  <2>2. PICK k \in Nat : k = rev + 1
    BY <2>1
  <2>3. o = [obj EXCEPT !.rv = k, !.spec = s, !.status = t]
    BY <1>3, <2>2
  <2>4. o \in Objects /\ o.uid = obj.uid /\ o.rv = k /\ o.spec = s /\ o.status = t
    BY <1>1, <2>1, <2>3 DEF Objects
  <2> QED BY <2>2, <2>4
<1>6. obj.uid <= rev + 1
  BY <1>1, ObjectFields DEF ObjectOK, Exists
<1>7. ObjectOK(o, rev + 1, last', endorsed')
  BY <1>1, <1>5, <1>6 DEF ObjectOK
<1>8. WorldStep(obj, rev, prof, obj', rev', prof')
  BY <1>2, <1>4, <1>5 DEF WorldStep
<1>9. pods' = [pods EXCEPT ![p] = pods[p]] /\ pods[p] \in SUBSET Roles
  BY <1>1
<1>10. Idle \in Calls /\ CallOK(Idle, obj', rev', prof', pods[p])
  BY IdleOK
<1>11. pr' = [pr EXCEPT ![p] = Idle]
  BY DEF Return
<1>12. ObjectOK(obj', rev', last', endorsed') /\ obj' \in Objects /\ prof' \in Profiles /\ ops' \in 0..MaxOps
  BY <1>1, <1>2, <1>4, <1>5, <1>7
<1> QED BY <1>2, <1>8, <1>9, <1>10, <1>11, <1>12, CallStep

-----------------------------------------------------------------------------
(* Save                                                                        *)

\* The stored object's status stays coherent when the revision grows.
LEMMA StatusLater ==
  ASSUME NEW t \in Statuses, NEW u, NEW n \in Nat, NEW l, NEW E, StatusOK(t, u, n, l, E)
  PROVE  StatusOK(t, u, n + 1, l, E)
<1>1. t.snap.uid \in Nat
  BY DEF Statuses, Snaps
<1>2. t.snap.uid <= n => t.snap.uid <= n + 1
  BY <1>1
<1> QED BY <1>2, Zenon DEF StatusOK

\* A new status without facts.
LEMMA NoFactsOK ==
  ASSUME NEW s, NEW snap, NEW u
  PROVE  FactsOK(NewStatus(s, snap), u)
<1>1. NewStatus(s, snap).facts = {}
  BY DEF NewStatus
<1>2. IsFiniteSet({}) /\ Cardinality({}) = 0
  BY FS_EmptySet
<1> QED BY <1>1, <1>2, BoundsAssumption DEF FactsOK

LEMMA SaveBeginStep ==
  ASSUME Inv, NEW p \in Procs, SaveBegin(p)
  PROVE  Inv'
<1>1. PICK s \in AllSpecs :
        /\ Begin(p, IF ValidateProposalSpec(s) THEN [Idle EXCEPT !.pc = "saveGet", !.spec = s] ELSE Idle)
        /\ UNCHANGED <<obj, rev, prof, pods, edits, faults, last, endorsed, answer>>
  BY DEF SaveBegin
<1>2. UNCHANGED <<obj, rev, prof, pods, last, endorsed>>
  BY <1>1
<1>3. ops' \in 0..MaxOps
  BY <1>1, BoundsAssumption DEF Inv, Types, Begin
<1>4. PICK d : d = IF ValidateProposalSpec(s) THEN [Idle EXCEPT !.pc = "saveGet", !.spec = s] ELSE Idle
  OBVIOUS
<1>5. pr' = [pr EXCEPT ![p] = d]
  BY <1>1, <1>4 DEF Begin
<1>6. d \in Calls /\ CallOK(d, obj, rev, prof, pods[p])
  <2>0. Idle \in Calls /\ CallOK(Idle, obj, rev, prof, pods[p])
    BY IdleOK
  <2>1. CASE ~ValidateProposalSpec(s)
    BY <1>4, <2>0, <2>1
  <2>2. CASE ValidateProposalSpec(s)
    <3>1. d \in Calls /\ d.pc = "saveGet" /\ d.spec = s /\ d.run = Idle.run
      BY <1>4, <2>0, <2>2 DEF Calls, Pcs, SavePcs
    <3>2. d.run.ranOn = None
      BY <3>1 DEF Idle, NoRun
    <3>3. d.pc \notin HoldingPcs /\ d.pc \notin DecisionPcs /\ d.pc \notin ExperimentPcs
      BY <3>1 DEF HoldingPcs, DecisionPcs, ExperimentPcs, StartPcs, EndPcs
    <3>4. SaveOK(d)
      BY <3>1 DEF SaveOK
    <3>5. DecisionOK(d, obj, rev)
      BY <3>1, <3>3 DEF DecisionOK
    <3>6. RunOK(d, prof, pods[p])
      BY <3>1, <3>2, <3>3 DEF RunOK, ExperimentPcs, StartPcs, EndPcs, None
    <3> QED BY <3>1, <3>3, <3>4, <3>5, <3>6 DEF CallOK
  <2> QED BY <2>1, <2>2
<1> QED BY <1>2, <1>3, <1>5, <1>6, QuietStep

\* What caller p knows of its own call and of the object.
LEMMA Knows ==
  ASSUME Inv, NEW p \in Procs
  PROVE  /\ pr[p] \in Calls /\ CallOK(pr[p], obj, rev, prof, pods[p]) /\ pods[p] \in SUBSET Roles
         /\ obj \in Objects /\ rev \in Nat /\ prof \in Profiles /\ ops \in 0..MaxOps
         /\ ObjectOK(obj, rev, last, endorsed)
BY DEF Inv, Types, Governed

\* A caller that just read the object holds it.
LEMMA HoldsNow ==
  ASSUME NEW o \in Objects, NEW n, NEW l, NEW E, ObjectOK(o, n, l, E), o.uid # 0
  PROVE  Holds(o, o, n) /\ o.spec \in AllSpecs
BY DEF Holds, ObjectOK

LEMMA SaveGetStep ==
  ASSUME Inv, NEW p \in Procs, SaveGet(p)
  PROVE  Inv'
<1>1. PICK c \in Calls : c = pr[p]
  BY Knows
<1>2. PICK l : l = IF Exists THEN "saveUpdate" ELSE "saveCreate"
  OBVIOUS
<1>3. PICK d : d = [c EXCEPT !.got = obj, !.pc = l]
  OBVIOUS
<1>4. pr' = [pr EXCEPT ![p] = d]
  BY <1>1, <1>2, <1>3 DEF SaveGet, ReadTo
<1>5. d \in Calls /\ d.pc = l /\ d.got = obj /\ d.spec = c.spec /\ d.run = c.run
  BY ZenonT(60), <1>1, <1>2, <1>3, Knows DEF Calls, Pcs, SavePcs
<1>6. c.pc = "saveGet" /\ CallOK(c, obj, rev, prof, pods[p])
  BY <1>1, Knows DEF SaveGet
<1>7. d.pc = "saveUpdate" => Holds(d.got, obj, rev)
  BY <1>2, <1>5, Knows, HoldsNow DEF Exists
<1>8. CallOK(d, obj, rev, prof, pods[p])
  <2>1. d.pc \in {"saveUpdate", "saveCreate"}
    BY <1>2, <1>5
  <2>2. d.pc \in HoldingPcs => Holds(d.got, obj, rev)
    BY <1>7, <2>1 DEF HoldingPcs, ExperimentPcs, StartPcs, EndPcs
  <2>3. SaveOK(d)
    BY <1>5, <1>6, <2>1 DEF CallOK, SaveOK
  <2>4. DecisionOK(d, obj, rev)
    BY <2>1 DEF DecisionOK, DecisionPcs
  <2>5. RunOK(d, prof, pods[p])
    BY <1>5, <1>6, <2>1 DEF CallOK, RunOK, ExperimentPcs, StartPcs, EndPcs
  <2> QED BY <2>2, <2>3, <2>4, <2>5 DEF CallOK
<1>9. UNCHANGED <<obj, rev, prof, pods, last, endorsed>> /\ ops' \in 0..MaxOps
  BY Knows DEF SaveGet
<1> QED BY <1>4, <1>5, <1>8, <1>9, QuietStep

\* A caller that goes to the end of a Save or to a place where it holds nothing.
LEMMA ConvergeStep ==
  ASSUME Inv, NEW p \in Procs, pr[p].pc \in SavePcs, Goto(p, "saveConverge"),
         UNCHANGED <<obj, rev, prof, pods, ops, last, endorsed>>
  PROVE  Inv'
<1>1. PICK c \in Calls : c = pr[p]
  BY Knows
<1>2. PICK d : d = [c EXCEPT !.pc = "saveConverge"]
  OBVIOUS
<1>3. pr' = [pr EXCEPT ![p] = d]
  BY <1>1, <1>2 DEF Goto
<1>4. d \in Calls /\ d.pc = "saveConverge" /\ d.run = c.run
  BY <1>1, <1>2 DEF Calls, Pcs, SavePcs
<1>5. RunOK(d, prof, pods[p])
  <2>1. RunOK(c, prof, pods[p])
    BY <1>1, Knows DEF CallOK
  <2> QED BY <1>4, <2>1 DEF RunOK, ExperimentPcs, StartPcs, EndPcs
<1>6. CallOK(d, obj, rev, prof, pods[p])
  BY <1>4, <1>5 DEF CallOK, SaveOK, DecisionOK, DecisionPcs, HoldingPcs, ExperimentPcs, StartPcs, EndPcs
<1>7. UNCHANGED <<obj, rev, prof, pods, last, endorsed>> /\ ops' \in 0..MaxOps
  BY Knows
<1> QED BY <1>3, <1>4, <1>6, <1>7, QuietStep

LEMMA SaveCreateStep ==
  ASSUME Inv, NEW p \in Procs, SaveCreate(p)
  PROVE  Inv'
<1>1. CASE Exists
  <2>1. Goto(p, "saveConverge") /\ pr[p].pc \in SavePcs
    BY <1>1 DEF SaveCreate, SavePcs
  <2>2. UNCHANGED <<obj, rev, prof, pods, ops, last, endorsed>>
    BY <1>1 DEF SaveCreate
  <2> QED BY <2>1, <2>2, ConvergeStep
<1>2. CASE ~Exists
  <2>1. PICK c \in Calls : c = pr[p]
    BY Knows
  <2>2. PICK k \in Nat : k = rev + 1
    BY Knows
  <2>3. PICK o : o = [uid |-> k, rv |-> k, spec |-> c.spec, status |-> NewStatus("", NoSnap)]
    OBVIOUS
  <2>4. PICK d : d = [c EXCEPT !.got = o, !.pc = "saveDraft"]
    OBVIOUS
  <2>5. /\ obj' = o /\ rev' = k /\ last' = NoSnap /\ pr' = [pr EXCEPT ![p] = d]
        /\ UNCHANGED <<prof, pods, ops, edits, faults, endorsed, answer>>
    BY <1>2, <2>1, <2>2, <2>3, <2>4 DEF SaveCreate
  <2>6. c.pc = "saveCreate" /\ CallOK(c, obj, rev, prof, pods[p]) /\ c.spec \in AllSpecs
    BY <2>1, Knows DEF SaveCreate, CallOK, SaveOK
  <2>7. NewStatus("", NoSnap) \in Statuses
    BY NoSnapType, NewStatusType DEF States
  <2>8. o \in Objects /\ o.uid = k /\ o.rv = k /\ o.spec = c.spec /\ o.status = NewStatus("", NoSnap)
    BY <2>3, <2>6, <2>7 DEF Objects
  <2>9. d \in Calls /\ d.pc = "saveDraft" /\ d.got = o /\ d.run = c.run
    BY <2>4, <2>8 DEF Calls, Pcs, SavePcs
  <2>10. k # 0 /\ k <= k
    BY <2>2, Knows
  <2>11. StatusOK(o.status, o.uid, k, NoSnap, endorsed)
    <3>1. o.status.snap = NoSnap /\ o.status.state = ""
      BY <2>8, BlankFields
    <3>2. FactsOK(o.status, o.uid)
      BY <2>8, NoFactsOK
    <3> QED BY <3>1, <3>2 DEF StatusOK
  <2>12. ObjectOK(o, k, NoSnap, endorsed)
    BY <2>6, <2>8, <2>10, <2>11 DEF ObjectOK
  <2>13. CallOK(d, o, k, prof, pods[p])
    <3>1. Holds(d.got, o, k)
      BY <2>8, <2>9, <2>10 DEF Holds
    <3>2. SaveOK(d)
      BY <2>8, <2>9 DEF SaveOK
    <3>3. DecisionOK(d, o, k)
      BY <2>9 DEF DecisionOK, DecisionPcs
    <3>4. RunOK(d, prof, pods[p])
      BY <2>6, <2>9 DEF CallOK, RunOK, ExperimentPcs, StartPcs, EndPcs
    <3> QED BY <3>1, <3>2, <3>3, <3>4 DEF CallOK
  <2>14. WorldStep(obj, rev, prof, obj', rev', prof')
    BY <2>2, <2>5, <2>8 DEF WorldStep
  <2>15. /\ obj' \in Objects /\ rev' \in Nat /\ prof' \in Profiles /\ ops' \in 0..MaxOps
         /\ ObjectOK(obj', rev', last', endorsed') /\ CallOK(d, obj', rev', prof', pods[p])
    BY <2>5, <2>8, <2>12, <2>13, Knows
  <2>16. pods' = [pods EXCEPT ![p] = pods[p]] /\ pods[p] \in SUBSET Roles
    BY <2>5 DEF Inv, Types
  <2> QED BY <2>5, <2>9, <2>14, <2>15, <2>16, CallStep
<1> QED BY <1>1, <1>2

\* An accepted write finds the version the caller holds.
LEMMA AllowedMeansHeld ==
  ASSUME Inv, NEW p \in Procs, pr[p].pc \in HoldingPcs, UpdateAllowed(p)
  PROVE  /\ Exists /\ obj = pr[p].got /\ obj.spec \in AllSpecs /\ obj.status \in Statuses
         /\ StatusOK(obj.status, obj.uid, rev, last, endorsed)
<1>1. Holds(pr[p].got, obj, rev)
  BY Knows DEF CallOK
<1>2. Exists /\ obj = pr[p].got
  BY <1>1 DEF Holds, UpdateAllowed, Exists
<1>3. obj.spec \in AllSpecs /\ StatusOK(obj.status, obj.uid, rev, last, endorsed)
  BY <1>2, Knows DEF ObjectOK, Exists
<1>4. obj.status \in Statuses
  BY Knows, ObjectFields
<1> QED BY <1>2, <1>3, <1>4

LEMMA SaveDraftStep ==
  ASSUME Inv, NEW p \in Procs, SaveDraft(p)
  PROVE  Inv'
<1>1. CASE ~UpdateAllowed(p)
  <2>1. Return(p) /\ UNCHANGED <<obj, rev, prof, pods, ops, last, endorsed>>
    BY <1>1 DEF SaveDraft
  <2> QED BY <2>1, QuietReturn
<1>2. CASE UpdateAllowed(p)
  <2>1. pr[p].pc \in HoldingPcs /\ pr[p].pc = "saveDraft"
    BY DEF SaveDraft, HoldingPcs
  <2>2. /\ Exists /\ obj = pr[p].got /\ obj.spec \in AllSpecs
        /\ StatusOK(obj.status, obj.uid, rev, last, endorsed)
    BY <1>2, <2>1, AllowedMeansHeld
  <2>3. obj.status = NewStatus("", NoSnap)
    BY <2>1, <2>2, Knows DEF CallOK, SaveOK
  <2>4. last = NoSnap
    BY <2>2, <2>3, BlankFields DEF StatusOK
  <2>5. PICK t : t = NewStatus("Draft", NoSnap)
    OBVIOUS
  <2>6. t \in Statuses
    BY <2>5, NoSnapType, NewStatusType DEF States
  <2>7. StatusOK(t, obj.uid, rev + 1, last, endorsed)
    <3>1. t.snap = NoSnap /\ t.state = "Draft"
      BY <2>5 DEF NewStatus
    <3>2. FactsOK(t, obj.uid)
      BY <2>5, NoFactsOK
    <3> QED BY <2>4, <3>1, <3>2 DEF StatusOK
  <2>8. Write(obj.spec, t) /\ Return(p) /\ UNCHANGED <<prof, pods, ops, last, endorsed>>
    BY <1>2, <2>5 DEF SaveDraft, setStatus
  <2>9. StatusOK(t, obj.uid, rev + 1, last', endorsed') /\ UNCHANGED <<prof, pods, ops>>
    BY <2>7, <2>8
  <2> QED BY <2>2, <2>6, <2>8, <2>9, WriteReturn
<1> QED BY <1>1, <1>2

LEMMA SaveUpdateStep ==
  ASSUME Inv, NEW p \in Procs, SaveUpdate(p)
  PROVE  Inv'
<1>0. pr[p].pc \in HoldingPcs /\ pr[p].pc \in SavePcs /\ pr[p].pc = "saveUpdate"
  BY DEF SaveUpdate, HoldingPcs, SavePcs
<1>1. CASE UpdateAllowed(p) /\ Write(pr[p].spec, pr[p].got.status) /\ Return(p)
  <2>1. /\ Exists /\ obj = pr[p].got /\ obj.spec \in AllSpecs /\ obj.status \in Statuses
        /\ StatusOK(obj.status, obj.uid, rev, last, endorsed)
    BY <1>0, <1>1, AllowedMeansHeld
  <2>2. pr[p].spec \in AllSpecs
    BY <1>0, Knows DEF CallOK, SaveOK
  <2>3. StatusOK(obj.status, obj.uid, rev + 1, last, endorsed)
    BY <2>1, Knows, StatusLater
  <2>4. Write(pr[p].spec, obj.status)
    BY <1>1, <2>1
  <2>5. UNCHANGED <<prof, pods, ops>> /\ StatusOK(obj.status, obj.uid, rev + 1, last', endorsed')
    BY <2>3 DEF SaveUpdate
  <2> QED BY <1>1, <2>1, <2>2, <2>4, <2>5, WriteReturn
<1>2. CASE ~Exists /\ Return(p) /\ UNCHANGED <<obj, rev>>
  <2>1. UNCHANGED <<obj, rev, prof, pods, ops, last, endorsed>>
    BY <1>2 DEF SaveUpdate
  <2> QED BY <1>2, <2>1, QuietReturn
<1>3. CASE Exists /\ ~UpdateAllowed(p) /\ Goto(p, "saveConverge") /\ UNCHANGED <<obj, rev>>
  <2>1. UNCHANGED <<obj, rev, prof, pods, ops, last, endorsed>>
    BY <1>3 DEF SaveUpdate
  <2> QED BY <1>0, <1>3, <2>1, ConvergeStep
<1> QED BY <1>1, <1>2, <1>3 DEF SaveUpdate

LEMMA ConvergeReturnStep ==
  ASSUME Inv, NEW p \in Procs, convergeAfterProposalWriteRace(p)
  PROVE  Inv'
<1>1. Return(p) /\ UNCHANGED <<obj, rev, prof, pods, ops, last, endorsed>>
  BY DEF convergeAfterProposalWriteRace
<1> QED BY <1>1, QuietReturn

-----------------------------------------------------------------------------
(* Decisions                                                                   *)

\* A call that moves within a decision keeps its run; these are the conjuncts
\* that its new place leaves to show.
LEMMA DecisionCall ==
  ASSUME NEW c \in Calls, NEW d \in Calls, NEW o \in Objects, NEW n \in Nat, NEW pf \in Profiles, NEW pd,
         RunOK(c, pf, pd), d.run = c.run, d.pc \in DecisionPcs,
         d.pc = "govPut" => Holds(d.got, o, n), DecisionOK(d, o, n)
  PROVE  CallOK(d, o, n, pf, pd)
<1>1. d.pc \in HoldingPcs => Holds(d.got, o, n)
  BY DEF DecisionPcs, HoldingPcs, ExperimentPcs, StartPcs, EndPcs
<1>2. SaveOK(d)
  BY DEF DecisionPcs, SaveOK
<1>3. RunOK(d, pf, pd)
  BY DEF DecisionPcs, RunOK, ExperimentPcs, StartPcs, EndPcs
<1> QED BY <1>1, <1>2, <1>3 DEF CallOK

LEMMA DecisionBeginStep ==
  ASSUME Inv, NEW p \in Procs, DecisionBegin(p)
  PROVE  Inv'
<1>1. PICK op \in {"review", "approve", "reject"}, web \in BOOLEAN :
        /\ Exists
        /\ Begin(p, [Idle EXCEPT !.pc = IF web THEN "govCheck" ELSE "govGet", !.op = op,
                                 !.seen = obj, !.exp = IF web THEN obj.rv ELSE 0])
        /\ UNCHANGED <<obj, rev, prof, pods, edits, faults, last, endorsed, answer>>
  BY DEF DecisionBegin
<1>2. UNCHANGED <<obj, rev, prof, pods, last, endorsed>>
  BY <1>1
<1>3. ops' \in 0..MaxOps
  BY <1>1, BoundsAssumption DEF Inv, Types, Begin
<1>4. PICK l : l = IF web THEN "govCheck" ELSE "govGet"
  OBVIOUS
<1>5. PICK x : x = IF web THEN obj.rv ELSE 0
  OBVIOUS
<1>6. PICK d : d = [Idle EXCEPT !.pc = l, !.op = op, !.seen = obj, !.exp = x]
  OBVIOUS
<1>7. pr' = [pr EXCEPT ![p] = d]
  BY <1>1, <1>4, <1>5, <1>6 DEF Begin
<1>8. obj \in Objects /\ rev \in Nat /\ prof \in Profiles /\ ObjectOK(obj, rev, last, endorsed)
  BY Knows
<1>9. x \in Nat /\ x \in {0, obj.rv} /\ l \in {"govCheck", "govGet"}
  BY <1>4, <1>5, <1>8, ObjectFields
<1>10. Idle \in Calls /\ RunOK(Idle, prof, pods[p])
  BY IdleOK DEF CallOK
<1>11. d \in Calls /\ d.pc = l /\ d.op = op /\ d.seen = obj /\ d.exp = x /\ d.run = Idle.run
  BY <1>6, <1>8, <1>9, <1>10 DEF Calls, Pcs, DecisionPcs, Decisions
<1>12. Holds(obj, obj, rev)
  BY <1>1, <1>8, HoldsNow DEF Exists
<1>13. DecisionOK(d, obj, rev)
  BY <1>9, <1>11, <1>12 DEF DecisionOK, Decisions
<1>14. d.pc \in DecisionPcs /\ d.pc # "govPut"
  BY <1>9, <1>11 DEF DecisionPcs
<1>15. CallOK(d, obj, rev, prof, pods[p])
  BY <1>8, <1>10, <1>11, <1>13, <1>14, DecisionCall
<1> QED BY <1>2, <1>3, <1>7, <1>11, <1>15, QuietStep

\* A caller that goes on to read the object it will decide on.
LEMMA ToGovGet ==
  ASSUME Inv, NEW p \in Procs, pr[p].pc \in DecisionPcs, Goto(p, "govGet"),
         UNCHANGED <<obj, rev, prof, pods, ops, last, endorsed>>
  PROVE  Inv'
<1>1. PICK c \in Calls : c = pr[p]
  BY Knows
<1>2. PICK d : d = [c EXCEPT !.pc = "govGet"]
  OBVIOUS
<1>3. pr' = [pr EXCEPT ![p] = d]
  BY <1>1, <1>2 DEF Goto
<1>4. /\ d \in Calls /\ d.pc = "govGet" /\ d.run = c.run /\ d.seen = c.seen /\ d.exp = c.exp /\ d.op = c.op
  BY <1>1, <1>2 DEF Calls, Pcs, DecisionPcs
<1>5. c.pc \in DecisionPcs /\ DecisionOK(c, obj, rev) /\ RunOK(c, prof, pods[p])
  BY <1>1, Knows DEF CallOK
<1>6. DecisionOK(d, obj, rev) /\ d.pc \in DecisionPcs /\ d.pc # "govPut"
  BY <1>4, <1>5 DEF DecisionOK, DecisionPcs
<1>7. obj \in Objects /\ rev \in Nat /\ prof \in Profiles
  BY Knows
<1>8. CallOK(d, obj, rev, prof, pods[p])
  BY <1>4, <1>5, <1>6, <1>7, DecisionCall
<1>9. UNCHANGED <<obj, rev, prof, pods, last, endorsed>> /\ ops' \in 0..MaxOps
  BY Knows
<1> QED BY <1>3, <1>4, <1>8, <1>9, QuietStep

LEMMA GovCheckStep ==
  ASSUME Inv, NEW p \in Procs, handleGovernanceProposal(p)
  PROVE  Inv'
<1>1. UNCHANGED <<obj, rev, prof, pods, ops, last, endorsed>> /\ pr[p].pc \in DecisionPcs
  BY DEF handleGovernanceProposal, DecisionPcs
<1>2. Goto(p, "govGet") \/ Return(p)
  BY DEF handleGovernanceProposal
<1> QED BY <1>1, <1>2, ToGovGet, QuietReturn

LEMMA GovGetStep ==
  ASSUME Inv, NEW p \in Procs, GovernanceGet(p)
  PROVE  Inv'
<1> DEFINE ok == /\ Exists
                 /\ pr[p].exp # 0 => obj.rv = pr[p].exp
                 /\ pr[p].op = "review" => statusFromObject(obj).state = "Draft"
                 /\ pr[p].op = "approve" => approvable(p)
<1>1. UNCHANGED <<obj, rev, prof, pods, ops, last, endorsed>> /\ pr[p].pc = "govGet"
  BY DEF GovernanceGet
<1>2. IF ok THEN ReadTo(p, "govPut") ELSE Return(p)
  BY DEF GovernanceGet
<1>3. CASE ~ok
  BY <1>1, <1>2, <1>3, QuietReturn
<1>4. CASE ok
  <2>1. PICK c \in Calls : c = pr[p]
    BY Knows
  <2>2. PICK d : d = [c EXCEPT !.got = obj, !.pc = "govPut"]
    OBVIOUS
  <2>3. pr' = [pr EXCEPT ![p] = d]
    BY <1>2, <1>4, <2>1, <2>2 DEF ReadTo
  <2>4. obj \in Objects /\ rev \in Nat /\ prof \in Profiles /\ ObjectOK(obj, rev, last, endorsed)
    BY Knows
  <2>5. /\ d \in Calls /\ d.pc = "govPut" /\ d.run = c.run /\ d.seen = c.seen /\ d.exp = c.exp /\ d.op = c.op
        /\ d.got = obj
    BY <2>1, <2>2, <2>4 DEF Calls, Pcs, DecisionPcs
  <2>6. c.pc = "govGet" /\ DecisionOK(c, obj, rev) /\ RunOK(c, prof, pods[p])
    BY <1>1, <2>1, Knows DEF CallOK
  <2>7. Holds(obj, obj, rev) /\ obj.spec \in AllSpecs
    BY <1>4, <2>4, HoldsNow DEF Exists
  <2>8. Holds(c.seen, obj, rev) /\ c.op \in Decisions /\ c.exp \in {0, c.seen.rv}
    BY <2>6 DEF DecisionOK, DecisionPcs
  <2>9. c.exp # 0 => obj = c.seen
    BY <1>4, <2>1, <2>8 DEF Holds, Exists
  <2>10. c.op = "review" => obj.status.state \in {"", "Draft"}
    BY <1>4, <2>1, <2>4 DEF statusFromObject, Objects, Statuses
  <2>11. c.op = "approve" => CandidateDigest(c.seen.spec) = CandidateDigest(obj.spec)
    BY <1>4, <2>1 DEF approvable
  <2>12. DecisionOK(d, obj, rev)
    BY <2>5, <2>7, <2>8, <2>9, <2>10, <2>11 DEF DecisionOK
  <2>13. d.pc \in DecisionPcs
    BY <2>5 DEF DecisionPcs
  <2>14. CallOK(d, obj, rev, prof, pods[p])
    BY <2>4, <2>5, <2>6, <2>7, <2>12, <2>13, DecisionCall
  <2>15. UNCHANGED <<obj, rev, prof, pods, last, endorsed>> /\ ops' \in 0..MaxOps
    BY <1>1, Knows
  <2> QED BY <2>3, <2>5, <2>14, <2>15, QuietStep
<1> QED BY <1>3, <1>4

\* A status with no facts that is neither blank, draft nor reviewed.
LEMMA DecidedStatus ==
  ASSUME NEW t \in Statuses, NEW u, NEW n \in Nat, NEW E, t.facts = {},
         t.state \in {"Approved", "Rejected"},
         t.snap = NoSnap \/ (t.snap.digest \in Digests /\ t.snap.uid <= n),
         t.state = "Approved" => Endorsed(t, E)
  PROVE  StatusOK(t, u, n, t.snap, E)
<1>1. IsFiniteSet({}) /\ Cardinality({}) = 0
  BY FS_EmptySet
<1>2. FactsOK(t, u)
  BY <1>1, BoundsAssumption DEF FactsOK
<1> QED BY <1>2 DEF StatusOK

LEMMA GovPutStep ==
  ASSUME Inv, NEW p \in Procs, GovernancePut(p)
  PROVE  Inv'
<1>0. UNCHANGED <<prof, pods, ops>> /\ pr[p].pc = "govPut" /\ pr[p].pc \in HoldingPcs /\ pr[p].pc \in DecisionPcs
  BY DEF GovernancePut, HoldingPcs, DecisionPcs
<1>1. CASE Exists /\ ~UpdateAllowed(p) /\ (Goto(p, "govGet") \/ Return(p)) /\ UNCHANGED <<obj, rev, last, endorsed>>
  <2>1. UNCHANGED <<obj, rev, prof, pods, ops, last, endorsed>>
    BY <1>0, <1>1
  <2> QED BY <1>0, <1>1, <2>1, ToGovGet, QuietReturn
<1>2. CASE ~Exists /\ Return(p) /\ UNCHANGED <<obj, rev, last, endorsed>>
  <2>1. UNCHANGED <<obj, rev, prof, pods, ops, last, endorsed>>
    BY <1>0, <1>2
  <2> QED BY <1>2, <2>1, QuietReturn
<1>3. CASE UpdateAllowed(p) /\ Return(p)
  <2>1. /\ Exists /\ obj = pr[p].got /\ obj.spec \in AllSpecs /\ obj.status \in Statuses
        /\ StatusOK(obj.status, obj.uid, rev, last, endorsed)
    BY <1>0, <1>3, AllowedMeansHeld
  <2>2. DecisionOK(pr[p], obj, rev) /\ pr[p].op \in Decisions /\ rev \in Nat /\ obj \in Objects
    BY <1>0, Knows DEF CallOK, DecisionOK
  <2>3. /\ setStatus(CASE pr[p].op = "review" -> reviewedStatus(p)
                       [] pr[p].op = "approve" -> approvedStatus(p)
                       [] pr[p].op = "reject" -> rejectedStatus(p))
        /\ last' = IF pr[p].op = "approve" THEN approvedStatus(p).snap ELSE last
        /\ endorsed' = IF pr[p].op = "approve"
                       THEN endorsed \cup {[digest |-> CandidateDigest(pr[p].seen.spec),
                                            ctx |-> ReviewContextDigest(pr[p].seen.spec), actor |-> actorOf(p)]}
                       ELSE endorsed
    BY <1>3 DEF GovernancePut, UpdateAllowed
  <2>4. obj.status.actor \in {"", "user"} /\ obj.status.snap \in Snaps
    BY <2>1, StatusFields
  <2>5. CASE pr[p].op = "review"
    <3>1. PICK t : t = reviewedStatus(p)
      OBVIOUS
    <3>2. Write(obj.spec, t) /\ last' = last /\ endorsed' = endorsed
      BY <2>3, <2>5, <3>1 DEF setStatus
    <3>3. NewStatus("Reviewed", NoSnap) \in Statuses
      BY NoSnapType, NewStatusType DEF States
    <3>4. PICK r \in Statuses : r = NewStatus("Reviewed", NoSnap)
      BY <3>3
    <3>5. r.state = "Reviewed" /\ r.snap = NoSnap /\ r.facts = {}
      BY <3>4, NewStatusFields
    <3>6. t = [r EXCEPT !.actor = obj.status.actor]
      BY <2>1, <3>1, <3>4 DEF reviewedStatus
    <3>7. t \in Statuses /\ t.state = "Reviewed" /\ t.snap = NoSnap /\ t.facts = {}
      BY <2>4, <3>4, <3>5, <3>6 DEF Statuses
    <3>8. last = NoSnap
      <4>1. obj.status.state \in {"", "Draft"}
        BY <1>0, <2>1, <2>2, <2>5 DEF DecisionOK
      <4> QED BY <2>1, <4>1 DEF StatusOK
    <3>9. FactsOK(t, obj.uid)
      <4>1. IsFiniteSet({}) /\ Cardinality({}) = 0
        BY FS_EmptySet
      <4> QED BY <3>7, <4>1, BoundsAssumption DEF FactsOK
    <3>10. StatusOK(t, obj.uid, rev + 1, last', endorsed')
      BY <3>2, <3>7, <3>8, <3>9 DEF StatusOK
    <3> QED BY <1>0, <1>3, <2>1, <3>2, <3>7, <3>10, WriteReturn
  <2>6. CASE pr[p].op = "reject"
    <3>1. PICK t : t = rejectedStatus(p)
      OBVIOUS
    <3>2. Write(obj.spec, t) /\ last' = last /\ endorsed' = endorsed
      BY <2>3, <2>6, <3>1 DEF setStatus
    <3>3. NewStatus("Rejected", obj.status.snap) \in Statuses
      BY <2>4, NewStatusType DEF States
    <3>4. PICK r \in Statuses : r = NewStatus("Rejected", obj.status.snap)
      BY <3>3
    <3>5. r.state = "Rejected" /\ r.snap = obj.status.snap /\ r.facts = {}
      BY <3>4 DEF NewStatus
    <3>6. t = [r EXCEPT !.actor = obj.status.actor]
      BY <2>1, <3>1, <3>4 DEF rejectedStatus
    <3>7. t \in Statuses /\ t.state = "Rejected" /\ t.snap = obj.status.snap /\ t.facts = {}
      BY <2>4, <3>4, <3>5, <3>6 DEF Statuses
    <3>8. StatusOK(obj.status, obj.uid, rev + 1, last, endorsed)
      BY <2>1, <2>2, StatusLater
    <3>9. t.snap = last /\ (t.snap = NoSnap \/ (t.snap.digest \in Digests /\ t.snap.uid <= rev + 1))
      BY <3>7, <3>8 DEF StatusOK
    <3>10. StatusOK(t, obj.uid, rev + 1, t.snap, endorsed)
      <4>1. rev + 1 \in Nat
        BY <2>2
      <4>2. t.state \in {"Approved", "Rejected"} /\ t.state # "Approved"
        BY <3>7
      <4> QED BY <3>7, <3>9, <4>1, <4>2, DecidedStatus
    <3>11. StatusOK(t, obj.uid, rev + 1, last', endorsed')
      BY <3>2, <3>9, <3>10
    <3> QED BY <1>0, <1>3, <2>1, <3>2, <3>7, <3>11, WriteReturn
  <2>7. CASE pr[p].op = "approve"
    <3>1. PICK t : t = approvedStatus(p)
      OBVIOUS
    <3>2. PICK a : a = actorOf(p)
      OBVIOUS
    <3>3. PICK e : e = [digest |-> CandidateDigest(pr[p].seen.spec),
                        ctx |-> ReviewContextDigest(pr[p].seen.spec), actor |-> a]
      OBVIOUS
    <3>4. Write(obj.spec, t) /\ last' = t.snap /\ endorsed' = endorsed \cup {e}
      BY <2>3, <2>7, <3>1, <3>2, <3>3 DEF setStatus
    <3>5. PICK s : s = [uid |-> obj.uid, digest |-> CandidateDigest(obj.spec), ctx |-> ReviewContextDigest(obj.spec)]
      OBVIOUS
    <3>6. /\ CandidateDigest(obj.spec) \in Digests /\ ReviewContextDigest(obj.spec) \in Contexts \cup {None}
          /\ obj.uid \in Nat /\ a \in {"", "user"}
      BY <2>1, <2>2, <3>2, SpecFields, ObjectFields DEF ReviewContextDigest, actorOf
    <3>7. s \in Snaps /\ s.uid = obj.uid /\ s.digest = CandidateDigest(obj.spec) /\ s.ctx = ReviewContextDigest(obj.spec)
      BY <3>5, <3>6 DEF Snaps
    <3>8. PICK r \in Statuses : r = NewStatus("Approved", s)
      BY <3>7, NewStatusType DEF States
    <3>9. r.state = "Approved" /\ r.snap = s /\ r.facts = {}
      BY <3>8, NewStatusFields
    <3>10. t = [r EXCEPT !.digest = s.digest, !.ctx = s.ctx, !.actor = a]
      BY <2>1, <3>1, <3>2, <3>5, <3>8 DEF approvedStatus
    <3>11. /\ t \in Statuses /\ t.state = "Approved" /\ t.snap = s /\ t.facts = {}
           /\ t.digest = s.digest /\ t.ctx = s.ctx /\ t.actor = a
      BY <3>6, <3>7, <3>8, <3>9, <3>10 DEF Statuses
    <3>12. CandidateDigest(pr[p].seen.spec) = CandidateDigest(obj.spec) /\ (pr[p].exp # 0 => obj = pr[p].seen)
      BY <1>0, <2>1, <2>2, <2>7 DEF DecisionOK
    <3>13. /\ e.digest = t.digest /\ e.actor = t.actor
           /\ e.actor = "user" => e.ctx = t.ctx
      <4>1. a = "user" => pr[p].exp # 0
        BY <3>2 DEF actorOf
      <4>2. /\ e.digest = CandidateDigest(pr[p].seen.spec) /\ e.ctx = ReviewContextDigest(pr[p].seen.spec)
            /\ e.actor = a
        BY <3>3
      <4> QED BY <3>7, <3>11, <3>12, <4>1, <4>2
    <3>14. Endorsed(t, endorsed')
      BY <3>4, <3>6, <3>7, <3>11, <3>13 DEF Endorsed
    <3>15. StatusOK(t, obj.uid, rev + 1, t.snap, endorsed')
      <4>1. rev + 1 \in Nat /\ t.state \in {"Approved", "Rejected"}
        BY <2>2, <3>11
      <4>2. t.snap.digest \in Digests /\ t.snap.uid <= rev + 1
        <5>1. obj.uid <= rev + 1
          <6>1. obj.uid <= obj.rv /\ obj.rv <= rev /\ obj.uid \in Nat /\ obj.rv \in Nat
            BY <2>1, Knows, ObjectFields DEF ObjectOK, Exists
          <6> QED BY <2>2, <6>1
        <5> QED BY <3>6, <3>7, <3>11, <5>1
      <4> QED BY <3>11, <3>14, <4>1, <4>2, DecidedStatus
    <3>16. StatusOK(t, obj.uid, rev + 1, last', endorsed')
      BY <3>4, <3>15
    <3> QED BY <1>0, <1>3, <2>1, <3>4, <3>11, <3>16, WriteReturn
  <2> QED BY <2>2, <2>5, <2>6, <2>7 DEF Decisions
<1> QED BY <1>1, <1>2, <1>3 DEF GovernancePut

-----------------------------------------------------------------------------
(* Verification                                                                *)

LEMMA HandleVerificationStep ==
  ASSUME Inv, NEW p \in Procs, handleSeccompVerification(p)
  PROVE  Inv'
<1>1. Begin(p, Idle) /\ UNCHANGED <<obj, rev, prof, pods, last, endorsed>>
  BY DEF handleSeccompVerification
<1>2. ops' \in 0..MaxOps /\ pr' = [pr EXCEPT ![p] = Idle]
  BY <1>1, BoundsAssumption DEF Inv, Types, Begin
<1>3. Idle \in Calls /\ CallOK(Idle, obj, rev, prof, pods[p])
  BY IdleOK
<1> QED BY <1>1, <1>2, <1>3, QuietStep

\* A call that is at a place of an experiment: what is left to show.
LEMMA ExperimentCall ==
  ASSUME NEW d \in Calls, NEW o, NEW n, NEW pf, NEW pd, d.pc \in ExperimentPcs,
         Holds(d.got, o, n), RunOK(d, pf, pd)
  PROVE  CallOK(d, o, n, pf, pd)
BY DEF CallOK, SaveOK, DecisionOK, DecisionPcs, ExperimentPcs, StartPcs, EndPcs

\* A step of an experiment: the call keeps the version it holds, and the rest
\* of the world, the Pods apart, stays as it is.
LEMMA ExperimentStep ==
  ASSUME Inv, NEW p \in Procs, NEW l \in ExperimentPcs, NEW r \in Runs, NEW s \in SUBSET Roles, NEW d,
         pr[p].pc \in ExperimentPcs,
         d = [pr[p] EXCEPT !.pc = l, !.run = r],
         pr' = [pr EXCEPT ![p] = d], pods' = [pods EXCEPT ![p] = s],
         UNCHANGED <<obj, rev, prof, ops, last, endorsed>>,
         RunOK(d, prof, s)
  PROVE  Inv'
<1>1. PICK c \in Calls : c = pr[p]
  BY Knows
<1>2. d \in Calls /\ d.pc = l /\ d.got = c.got
  BY <1>1 DEF Calls, Pcs
<1>3. Holds(c.got, obj, rev)
  BY <1>1, Knows DEF CallOK, HoldingPcs
<1>4. CallOK(d, obj, rev, prof, s)
  BY <1>2, <1>3, ExperimentCall
<1>5. WorldStep(obj, rev, prof, obj', rev', prof')
  BY DEF WorldStep
<1>6. /\ obj' \in Objects /\ rev' \in Nat /\ prof' \in Profiles /\ ops' \in 0..MaxOps
      /\ ObjectOK(obj', rev', last', endorsed') /\ CallOK(d, obj', rev', prof', s)
  BY <1>4, Knows
<1> QED BY <1>2, <1>5, <1>6, CallStep

LEMMA ExperimentBeginStep ==
  ASSUME Inv, NEW p \in Procs, ExperimentBegin(p)
  PROVE  Inv'
<1>1. PICK r : r = [NoRun EXCEPT !.id = ops]
  OBVIOUS
<1>2. PICK d : d = [Idle EXCEPT !.pc = "createTwin", !.got = obj, !.run = r]
  OBVIOUS
<1>3. /\ Exists /\ ValidateApprovedCandidate(obj.spec, statusFromObject(obj))
      /\ Begin(p, d) /\ pods' = [pods EXCEPT ![p] = {}]
      /\ UNCHANGED <<obj, rev, prof, last, endorsed>>
  BY <1>1, <1>2 DEF ExperimentBegin
<1>4. ops' \in 0..MaxOps /\ pr' = [pr EXCEPT ![p] = d]
  BY <1>3, BoundsAssumption DEF Inv, Types, Begin
<1>5. obj \in Objects /\ rev \in Nat /\ prof \in Profiles /\ ObjectOK(obj, rev, last, endorsed) /\ ops \in 0..MaxOps
  BY Knows
<1>6. r \in Runs /\ r.uncertain = {} /\ r.result = "UNKNOWN" /\ r.ranOn = None
  BY <1>1, <1>5, NoRunType DEF Runs, NoRun
<1>7. Idle \in Calls
  BY IdleOK
<1>8. d \in Calls /\ d.pc = "createTwin" /\ d.got = obj /\ d.run = r
  BY <1>2, <1>5, <1>6, <1>7 DEF Calls, Pcs, ExperimentPcs, StartPcs
<1>9. obj.status.state = "Approved"
  <2>1. statusFromObject(obj).state = "Approved"
    BY <1>3 DEF ValidateApprovedCandidate, validateApprovedCandidateV1, validateApprovedCandidateV2
  <2> QED BY <1>5, <2>1 DEF statusFromObject, Objects, Statuses
<1>10. RunOK(d, prof, {})
  BY <1>6, <1>8, <1>9 DEF RunOK, ExperimentPcs, StartPcs, EndPcs, None
<1>11. CallOK(d, obj, rev, prof, {})
  <2>1. Holds(obj, obj, rev)
    BY <1>3, <1>5, HoldsNow DEF Exists
  <2>2. d.pc \in ExperimentPcs
    BY <1>8 DEF ExperimentPcs, StartPcs
  <2> QED BY <1>8, <1>10, <2>1, <2>2, ExperimentCall
<1>12. WorldStep(obj, rev, prof, obj', rev', prof')
  BY <1>3 DEF WorldStep
<1>13. /\ obj' \in Objects /\ rev' \in Nat /\ prof' \in Profiles
       /\ ObjectOK(obj', rev', last', endorsed') /\ CallOK(d, obj', rev', prof', {})
  BY <1>3, <1>5, <1>11
<1>14. {} \in SUBSET Roles
  OBVIOUS
<1> QED BY <1>3, <1>4, <1>8, <1>12, <1>13, <1>14, CallStep

\* Creating one of the two Pods: it is known, or its creation is uncertain and
\* the experiment has failed.
LEMMA CreatePodStep ==
  ASSUME Inv, NEW p \in Procs, NEW role \in Roles, NEW next \in {"createControl", "validatePair"},
         pr[p].pc \in {"createTwin", "createControl"},
         role = "twin" <=> pr[p].pc = "createTwin",
         createPod(p, role, next), UNCHANGED <<obj, rev, prof, ops, last, endorsed>>
  PROVE  Inv'
<1>1. PICK c \in Calls : c = pr[p]
  BY Knows
<1>2. PICK r \in Runs : r = c.run
  BY <1>1, CallFields
<1>3. RunOK(c, prof, pods[p]) /\ prof \in Profiles /\ pods[p] \in SUBSET Roles
  BY <1>1, Knows DEF CallOK
<1>4. c.pc \in StartPcs /\ c.pc \in ExperimentPcs
  BY <1>1 DEF StartPcs, ExperimentPcs
<1>5. /\ c.got.status.state = "Approved" /\ r.uncertain = {} /\ r.result = "UNKNOWN"
      /\ pods[p] \subseteq r.known /\ (r.ranOn = "drifted" => prof = "drifted")
      /\ (role # "twin" => r.ranOn # None)
  BY <1>1, <1>2, <1>3, <1>4 DEF RunOK, Roles
<1>6. CASE /\ pods' = [pods EXCEPT ![p] = @ \cup {role}]
           /\ pr' = [pr EXCEPT ![p].run.known = @ \cup {role}, ![p].pc = next,
                               ![p].run.ranOn = IF role = "twin" THEN prof ELSE @]
  <2>1. PICK x : x = IF role = "twin" THEN prof ELSE r.ranOn
    OBVIOUS
  <2>2. PICK q : q = [r EXCEPT !.known = @ \cup {role}, !.ranOn = x]
    OBVIOUS
  <2>3. PICK d : d = [c EXCEPT !.pc = next, !.run = q]
    OBVIOUS
  <2>4. pr' = [pr EXCEPT ![p] = d]
    BY ZenonT(60), <1>1, <1>2, <1>6, <2>1, <2>2, <2>3 DEF Calls, Runs
  <2>5. x \in Profiles /\ (x = "drifted" => prof = "drifted") /\ x # None
    BY <1>3, <1>5, <2>1, <1>2, RunFields DEF Profiles, None
  <2>6. /\ q \in Runs /\ q.known = r.known \cup {role} /\ q.uncertain = r.uncertain /\ q.result = r.result
        /\ q.ranOn = x
    BY <1>2, <2>2, <2>5 DEF Runs
  <2>7. d.pc = next /\ d.run = q /\ d.got = c.got
    BY <1>1, <2>3 DEF Calls
  <2>8. PICK s \in SUBSET Roles : s = pods[p] \cup {role}
    BY <1>3
  <2>9. RunOK(d, prof, s)
    BY <1>5, <2>5, <2>6, <2>7, <2>8 DEF RunOK, ExperimentPcs, StartPcs, EndPcs
  <2>10. pods' = [pods EXCEPT ![p] = s]
    BY <1>6, <2>8 DEF Inv, Types
  <2>11. next \in ExperimentPcs /\ d = [pr[p] EXCEPT !.pc = next, !.run = q] /\ pr[p].pc \in ExperimentPcs
    BY <1>1, <1>4, <2>3 DEF ExperimentPcs, StartPcs
  <2> QED BY <2>4, <2>6, <2>8, <2>9, <2>10, <2>11, ExperimentStep
<1>7. CASE /\ \E lost \in {{}, {role}} : pods' = [pods EXCEPT ![p] = @ \cup lost]
           /\ pr' = [pr EXCEPT ![p].run.failed = TRUE, ![p].run.uncertain = {role}, ![p].pc = "cleanup"]
  <2>1. PICK lost \in {{}, {role}} : pods' = [pods EXCEPT ![p] = @ \cup lost]
    BY <1>7
  <2>2. PICK q : q = [r EXCEPT !.failed = TRUE, !.uncertain = {role}]
    OBVIOUS
  <2>3. PICK d : d = [c EXCEPT !.pc = "cleanup", !.run = q]
    OBVIOUS
  <2>4. pr' = [pr EXCEPT ![p] = d]
    BY ZenonT(60), <1>1, <1>2, <1>7, <2>2, <2>3 DEF Calls, Runs
  <2>5. /\ q \in Runs /\ q.known = r.known /\ q.uncertain = {role} /\ q.result = "UNKNOWN" /\ q.ranOn = r.ranOn
    BY <1>2, <1>5, <2>2 DEF Runs
  <2>6. d.pc = "cleanup" /\ d.run = q /\ d.got = c.got
    BY <1>1, <2>3 DEF Calls
  <2>7. PICK s \in SUBSET Roles : s = pods[p] \cup lost
    BY <1>3, <2>1
  <2>8. s \subseteq q.known \cup q.uncertain
    BY <1>5, <2>1, <2>5, <2>7
  <2>9. RunOK(d, prof, s)
    BY <1>5, <2>5, <2>6, <2>8 DEF RunOK, ExperimentPcs, StartPcs, EndPcs
  <2>10. pods' = [pods EXCEPT ![p] = s]
    BY <2>1, <2>7 DEF Inv, Types
  <2>11. "cleanup" \in ExperimentPcs /\ d = [pr[p] EXCEPT !.pc = "cleanup", !.run = q] /\ pr[p].pc \in ExperimentPcs
    BY <1>1, <1>4, <2>3 DEF ExperimentPcs, StartPcs
  <2> QED BY <2>4, <2>5, <2>7, <2>9, <2>10, <2>11, ExperimentStep
<1> QED BY <1>6, <1>7 DEF createPod

LEMMA CreateStep ==
  ASSUME Inv, NEW p \in Procs, CreateTwin(p) \/ CreateControl(p)
  PROVE  Inv'
<1>1. CASE CreateTwin(p)
  <2>1. /\ createPod(p, "twin", "createControl") /\ UNCHANGED <<obj, rev, prof, ops, last, endorsed>>
        /\ pr[p].pc = "createTwin"
    BY <1>1 DEF CreateTwin
  <2>2. "twin" \in Roles
    BY DEF Roles
  <2> QED BY <2>1, <2>2, CreatePodStep
<1>2. CASE CreateControl(p)
  <2>1. /\ createPod(p, "control", "validatePair") /\ UNCHANGED <<obj, rev, prof, ops, last, endorsed>>
        /\ pr[p].pc = "createControl"
    BY <1>2 DEF CreateControl
  <2>2. "control" \in Roles
    BY DEF Roles
  <2> QED BY <2>1, <2>2, CreatePodStep
<1> QED BY <1>1, <1>2

LEMMA ValidatePairStep ==
  ASSUME Inv, NEW p \in Procs, ValidatePair(p)
  PROVE  Inv'
<1>1. PICK ok \in BOOLEAN : pr' = [pr EXCEPT ![p].run.failed = ~ok, ![p].pc = IF ok THEN "waitPods" ELSE "cleanup"]
  BY DEF ValidatePair
<1>2. UNCHANGED <<obj, rev, prof, ops, last, endorsed>> /\ pods' = pods /\ pr[p].pc = "validatePair"
  BY DEF ValidatePair
<1>3. PICK c \in Calls : c = pr[p]
  BY Knows
<1>4. PICK r \in Runs : r = c.run
  BY CallFields
<1>5. PICK l : l = IF ok THEN "waitPods" ELSE "cleanup"
  OBVIOUS
<1>6. PICK q : q = [r EXCEPT !.failed = ~ok]
  OBVIOUS
<1>7. PICK d : d = [c EXCEPT !.pc = l, !.run = q]
  OBVIOUS
<1>8. pr' = [pr EXCEPT ![p] = d]
  BY <1>1, <1>3, <1>4, <1>5, <1>6, <1>7 DEF Calls, Runs
<1>9. /\ q \in Runs /\ q.known = r.known /\ q.uncertain = r.uncertain /\ q.result = r.result /\ q.ranOn = r.ranOn
  BY <1>4, <1>6 DEF Runs
<1>10. d.pc = l /\ d.run = q /\ d.got = c.got /\ l \in {"waitPods", "cleanup"}
  BY <1>3, <1>5, <1>7 DEF Calls
<1>11. RunOK(c, prof, pods[p]) /\ pods[p] \in SUBSET Roles /\ c.pc = "validatePair"
  BY <1>2, <1>3, Knows DEF CallOK
<1>12. RunOK(d, prof, pods[p])
  BY <1>4, <1>9, <1>10, <1>11 DEF RunOK, ExperimentPcs, StartPcs, EndPcs
<1>13. pods' = [pods EXCEPT ![p] = pods[p]]
  BY <1>2 DEF Inv, Types
<1>14. l \in ExperimentPcs /\ d = [pr[p] EXCEPT !.pc = l, !.run = q] /\ pr[p].pc \in ExperimentPcs
  BY <1>2, <1>3, <1>7, <1>10 DEF ExperimentPcs, StartPcs
<1> QED BY <1>2, <1>8, <1>9, <1>11, <1>12, <1>13, <1>14, ExperimentStep

LEMMA WaitPodsStep ==
  ASSUME Inv, NEW p \in Procs, WaitPods(p)
  PROVE  Inv'
<1>1. UNCHANGED <<obj, rev, prof, ops, last, endorsed>> /\ pods' = pods /\ pr[p].pc = "waitPods"
  BY DEF WaitPods
<1>2. PICK c \in Calls : c = pr[p]
  BY Knows
<1>3. PICK r \in Runs : r = c.run
  BY CallFields
<1>4. RunOK(c, prof, pods[p]) /\ pods[p] \in SUBSET Roles /\ c.pc = "waitPods"
  BY <1>1, <1>2, Knows DEF CallOK
<1>5. pods' = [pods EXCEPT ![p] = pods[p]]
  BY <1>1 DEF Inv, Types
<1>6. CASE \E t \in Exits, k \in {"Success", "Inconclusive"} :
             pr' = [pr EXCEPT ![p].run.result = probeResult(t, k), ![p].run.twin = t,
                              ![p].run.control = k, ![p].pc = "cleanup"]
  <2>1. PICK t \in Exits, k \in {"Success", "Inconclusive"} :
             pr' = [pr EXCEPT ![p].run.result = probeResult(t, k), ![p].run.twin = t,
                              ![p].run.control = k, ![p].pc = "cleanup"]
    BY <1>6
  <2>2. PICK v : v = probeResult(t, k)
    OBVIOUS
  <2>3. v \in Results
    BY <2>2 DEF probeResult, Results, Exits
  <2>4. PICK q : q = [r EXCEPT !.result = v, !.twin = t, !.control = k]
    OBVIOUS
  <2>5. PICK d : d = [c EXCEPT !.pc = "cleanup", !.run = q]
    OBVIOUS
  <2>6. pr' = [pr EXCEPT ![p] = d]
    BY ZenonT(60), <1>2, <1>3, <2>1, <2>2, <2>4, <2>5 DEF Calls, Runs
  <2>7. /\ q \in Runs /\ q.known = r.known /\ q.uncertain = r.uncertain /\ q.ranOn = r.ranOn
    BY <1>3, <2>3, <2>4 DEF Runs, Exits
  <2>8. d.pc = "cleanup" /\ d.run = q /\ d.got = c.got
    BY <1>2, <2>5 DEF Calls
  <2>9. RunOK(d, prof, pods[p])
    BY <1>3, <1>4, <2>7, <2>8 DEF RunOK, ExperimentPcs, StartPcs, EndPcs
  <2>10. "cleanup" \in ExperimentPcs /\ d = [pr[p] EXCEPT !.pc = "cleanup", !.run = q] /\ pr[p].pc \in ExperimentPcs
    BY <1>1, <1>2, <2>5 DEF ExperimentPcs, StartPcs
  <2> QED BY <1>1, <1>4, <1>5, <2>6, <2>7, <2>9, <2>10, ExperimentStep
<1>7. CASE pr' = [pr EXCEPT ![p].run.failed = TRUE, ![p].pc = "cleanup"]
  <2>1. PICK q : q = [r EXCEPT !.failed = TRUE]
    OBVIOUS
  <2>2. PICK d : d = [c EXCEPT !.pc = "cleanup", !.run = q]
    OBVIOUS
  <2>3. pr' = [pr EXCEPT ![p] = d]
    BY <1>2, <1>3, <1>7, <2>1, <2>2 DEF Calls, Runs
  <2>4. /\ q \in Runs /\ q.known = r.known /\ q.uncertain = r.uncertain /\ q.ranOn = r.ranOn /\ q.result = r.result
    BY <1>3, <2>1 DEF Runs
  <2>5. d.pc = "cleanup" /\ d.run = q /\ d.got = c.got
    BY <1>2, <2>2 DEF Calls
  <2>6. RunOK(d, prof, pods[p])
    BY <1>3, <1>4, <2>4, <2>5 DEF RunOK, ExperimentPcs, StartPcs, EndPcs
  <2>7. "cleanup" \in ExperimentPcs /\ d = [pr[p] EXCEPT !.pc = "cleanup", !.run = q] /\ pr[p].pc \in ExperimentPcs
    BY <1>1, <1>2, <2>2 DEF ExperimentPcs, StartPcs
  <2> QED BY <1>1, <1>4, <1>5, <2>3, <2>4, <2>6, <2>7, ExperimentStep
<1> QED BY ZenonT(60), <1>6, <1>7 DEF WaitPods

LEMMA CleanupStep ==
  ASSUME Inv, NEW p \in Procs, Cleanup(p)
  PROVE  Inv'
<1>1. UNCHANGED <<obj, rev, prof, ops, last, endorsed>> /\ pr[p].pc = "cleanup"
  BY DEF Cleanup
<1>2. PICK stuck \in SUBSET cleanedUp(p) :
        /\ pods' = [pods EXCEPT ![p] = @ \ (cleanedUp(p) \ stuck)]
        /\ pr' = [pr EXCEPT ![p].pc = "revalidate", ![p].run.failed = IF stuck # {} THEN TRUE ELSE @, ![p].run.uncertain = @ \cup stuck,
                            ![p].run.result = IF stuck # {} THEN "UNKNOWN" ELSE @]
  BY DEF Cleanup
<1>3. PICK c \in Calls : c = pr[p]
  BY Knows
<1>4. PICK r \in Runs : r = c.run
  BY CallFields
<1>5. RunOK(c, prof, pods[p]) /\ pods[p] \in SUBSET Roles /\ c.pc = "cleanup"
  BY <1>1, <1>3, Knows DEF CallOK
<1>6. r.known \in SUBSET Roles /\ r.uncertain \in SUBSET Roles /\ r.result \in Results /\ cleanedUp(p) = r.known
  BY <1>3, <1>4, RunFields DEF cleanedUp
<1>7. PICK v : v = IF stuck # {} THEN "UNKNOWN" ELSE r.result
  OBVIOUS
<1>8. PICK b : b = IF stuck # {} THEN TRUE ELSE r.failed
  OBVIOUS
<1>8a. PICK u \in SUBSET Roles : u = r.uncertain \cup stuck
  BY <1>2, <1>6
<1>9. PICK q : q = [r EXCEPT !.failed = b, !.uncertain = u, !.result = v]
  OBVIOUS
<1>10. PICK d : d = [c EXCEPT !.pc = "revalidate", !.run = q]
  OBVIOUS
<1>11. pr' = [pr EXCEPT ![p] = d]
  <2>0. r.failed \in BOOLEAN
    BY <1>4, RunFields
  <2>1. CASE stuck = {}
    <3>1. pr' = [pr EXCEPT ![p].pc = "revalidate", ![p].run.failed = @, ![p].run.uncertain = @ \cup stuck,
                           ![p].run.result = @]
      BY <1>2, <2>1
    <3>2. v = r.result /\ b = r.failed
      BY <1>7, <1>8, <2>1
    <3> QED BY ZenonT(60), <1>3, <1>4, <1>8a, <1>9, <1>10, <3>1, <3>2 DEF Calls, Runs
  <2>2. CASE stuck # {}
    <3>1. pr' = [pr EXCEPT ![p].pc = "revalidate", ![p].run.failed = TRUE, ![p].run.uncertain = @ \cup stuck,
                           ![p].run.result = "UNKNOWN"]
      BY <1>2, <2>2
    <3>2. v = "UNKNOWN" /\ b = TRUE
      BY <1>7, <1>8, <2>2
    <3> QED BY ZenonT(60), <1>3, <1>4, <1>8a, <1>9, <1>10, <3>1, <3>2 DEF Calls, Runs
  <2> QED BY <2>1, <2>2
<1>12. v \in Results /\ (stuck # {} => v = "UNKNOWN") /\ (v # "UNKNOWN" => v = r.result)
  BY <1>6, <1>7 DEF Results
<1>13. /\ q \in Runs /\ q.uncertain = r.uncertain \cup stuck /\ q.ranOn = r.ranOn /\ q.result = v
  <2>1. b \in BOOLEAN
    BY <1>4, <1>8, RunFields, Zenon
  <2>2. q \in Runs /\ q.uncertain = u /\ q.ranOn = r.ranOn /\ q.result = v
    BY <1>4, <1>9, <1>12, <2>1 DEF Runs
  <2> QED BY <1>8a, <2>2
<1>14. d.pc = "revalidate" /\ d.run = q /\ d.got = c.got
  BY <1>3, <1>10 DEF Calls
<1>15. PICK s \in SUBSET Roles : s = pods[p] \ (r.known \ stuck)
  BY <1>5
<1>16. s \subseteq q.uncertain
  <2>1. pods[p] \subseteq r.known \cup r.uncertain
    BY <1>4, <1>5 DEF RunOK
  <2> QED BY <1>13, <1>15, <2>1
<1>17. /\ c.got.status.state = "Approved" /\ (r.uncertain # {} => r.result = "UNKNOWN")
       /\ (r.result # "UNKNOWN" => r.ranOn # None) /\ (r.ranOn = "drifted" => prof = "drifted")
  BY <1>4, <1>5 DEF RunOK, ExperimentPcs
<1>18. RunOK(d, prof, s)
  <2>1. q.uncertain # {} => q.result = "UNKNOWN"
    BY <1>12, <1>13, <1>17
  <2>2. q.result # "UNKNOWN" => q.ranOn # None
    BY <1>12, <1>13, <1>17
  <2> QED BY <1>13, <1>14, <1>16, <1>17, <2>1, <2>2 DEF RunOK, ExperimentPcs, StartPcs, EndPcs
<1>19. pods' = [pods EXCEPT ![p] = s]
  BY <1>2, <1>6, <1>15 DEF Inv, Types
<1>20. "revalidate" \in ExperimentPcs /\ d = [pr[p] EXCEPT !.pc = "revalidate", !.run = q] /\ pr[p].pc \in ExperimentPcs
  BY <1>1, <1>3, <1>10 DEF ExperimentPcs, EndPcs
<1> QED BY <1>1, <1>11, <1>13, <1>15, <1>18, <1>19, <1>20, ExperimentStep

LEMMA RevalidateStep ==
  ASSUME Inv, NEW p \in Procs, Revalidate(p)
  PROVE  Inv'
<1>1. UNCHANGED <<obj, rev, prof, ops, last, endorsed>> /\ pods' = pods /\ pr[p].pc = "revalidate"
  BY DEF Revalidate
<1>2. PICK c \in Calls : c = pr[p]
  BY Knows
<1>3. PICK r \in Runs : r = c.run
  BY CallFields
<1>4. RunOK(c, prof, pods[p]) /\ pods[p] \in SUBSET Roles /\ c.pc = "revalidate" /\ prof \in Profiles
  BY <1>1, <1>2, Knows DEF CallOK
<1>5. PICK v : v = IF r.failed \/ ~stillBound(p) THEN "UNKNOWN" ELSE r.result
  OBVIOUS
<1>6. PICK q : q = [r EXCEPT !.result = v]
  OBVIOUS
<1>7. PICK d : d = [c EXCEPT !.pc = "appendGet", !.run = q]
  OBVIOUS
<1>8. pr' = [pr EXCEPT ![p] = d]
  BY <1>2, <1>3, <1>5, <1>6, <1>7 DEF Revalidate, Calls, Runs
<1>9. v \in Results /\ (v # "UNKNOWN" => v = r.result /\ prof = "approved")
  BY <1>3, <1>5, RunFields DEF Results, stillBound, readExactSPOProfile
<1>10. /\ q \in Runs /\ q.uncertain = r.uncertain /\ q.ranOn = r.ranOn /\ q.result = v
  BY <1>3, <1>6, <1>9 DEF Runs
<1>11. d.pc = "appendGet" /\ d.run = q /\ d.got = c.got
  BY <1>2, <1>7 DEF Calls
<1>12. /\ c.got.status.state = "Approved" /\ (r.uncertain # {} => r.result = "UNKNOWN")
       /\ (r.result # "UNKNOWN" => r.ranOn # None) /\ (r.ranOn = "drifted" => prof = "drifted")
       /\ pods[p] \subseteq r.uncertain /\ r.ranOn \in Profiles \cup {None}
  BY <1>3, <1>4, RunFields DEF RunOK, ExperimentPcs, EndPcs
<1>13. RunOK(d, prof, pods[p])
  <2>1. q.uncertain # {} => q.result = "UNKNOWN"
    BY <1>9, <1>10, <1>12
  <2>2. q.result # "UNKNOWN" => q.ranOn = "approved"
    BY <1>9, <1>10, <1>12 DEF Profiles
  <2>3. q.result # "UNKNOWN" => q.ranOn # None
    BY <2>2 DEF None
  <2> QED BY <1>10, <1>11, <1>12, <2>1, <2>2, <2>3 DEF RunOK, ExperimentPcs, StartPcs, EndPcs
<1>14. pods' = [pods EXCEPT ![p] = pods[p]]
  BY <1>1 DEF Inv, Types
<1>15. "appendGet" \in ExperimentPcs /\ d = [pr[p] EXCEPT !.pc = "appendGet", !.run = q] /\ pr[p].pc \in ExperimentPcs
  BY <1>1, <1>2, <1>7 DEF ExperimentPcs, EndPcs
<1> QED BY <1>1, <1>4, <1>8, <1>10, <1>13, <1>14, <1>15, ExperimentStep

LEMMA AppendGetStep ==
  ASSUME Inv, NEW p \in Procs, AppendGet(p)
  PROVE  Inv'
<1>1. UNCHANGED <<obj, rev, prof, pods, ops, last, endorsed>> /\ pr[p].pc = "appendGet"
  BY DEF AppendGet
<1>2. CASE Return(p)
  BY <1>1, <1>2, QuietReturn
<1>3. CASE /\ Goto(p, "appendPut") /\ Exists /\ obj.rv = pr[p].got.rv
           /\ Cardinality(obj.status.facts) < MaxVerifications
  <2>1. PICK c \in Calls : c = pr[p]
    BY Knows
  <2>2. PICK d : d = [c EXCEPT !.pc = "appendPut"]
    OBVIOUS
  <2>3. pr' = [pr EXCEPT ![p] = d]
    BY <1>3, <2>1, <2>2 DEF Goto
  <2>4. d.pc = "appendPut" /\ d.run = c.run /\ d.got = c.got /\ d \in Calls
    BY <2>1, <2>2 DEF Calls, Pcs, ExperimentPcs, EndPcs
  <2>5. CallOK(c, obj, rev, prof, pods[p]) /\ c.pc = "appendGet"
    BY <1>1, <2>1, Knows
  <2>6. Holds(c.got, obj, rev) /\ obj = c.got
    BY <1>3, <2>1, <2>5 DEF CallOK, HoldingPcs, ExperimentPcs, EndPcs, Holds, Exists
  <2>7. RunOK(d, prof, pods[p])
    BY <1>3, <2>4, <2>5, <2>6 DEF CallOK, RunOK, ExperimentPcs, StartPcs, EndPcs
  <2>8. CallOK(d, obj, rev, prof, pods[p])
    <3>1. d.pc \in ExperimentPcs
      BY <2>4 DEF ExperimentPcs, EndPcs
    <3> QED BY <2>4, <2>6, <2>7, <3>1, ExperimentCall
  <2>9. UNCHANGED <<obj, rev, prof, pods, last, endorsed>> /\ ops' \in 0..MaxOps
    BY <1>1, Knows
  <2> QED BY <2>3, <2>4, <2>8, <2>9, QuietStep
<1> QED BY <1>2, <1>3 DEF AppendGet

LEMMA AppendPutStep ==
  ASSUME Inv, NEW p \in Procs, AppendPut(p)
  PROVE  Inv'
<1>1. UNCHANGED <<prof, pods, ops, last, endorsed>> /\ pr[p].pc = "appendPut" /\ Return(p)
  BY DEF AppendPut
<1>2. CASE ~UpdateAllowed(p)
  <2>1. UNCHANGED <<obj, rev, prof, pods, ops, last, endorsed>>
    BY <1>1, <1>2 DEF AppendPut
  <2> QED BY <1>1, <2>1, QuietReturn
<1>3. CASE UpdateAllowed(p)
  <2>1. PICK c \in Calls : c = pr[p]
    BY Knows
  <2>2. PICK r \in Runs : r = c.run
    BY CallFields
  <2>3. pr[p].pc \in HoldingPcs
    BY <1>1 DEF HoldingPcs, ExperimentPcs, EndPcs
  <2>4. /\ Exists /\ obj = c.got /\ obj.spec \in AllSpecs /\ obj.status \in Statuses
        /\ StatusOK(obj.status, obj.uid, rev, last, endorsed)
    BY <1>3, <2>1, <2>3, AllowedMeansHeld
  <2>5. RunOK(c, prof, pods[p]) /\ c.pc = "appendPut" /\ rev \in Nat /\ obj \in Objects
    BY <1>1, <2>1, Knows DEF CallOK
  <2>6. PICK s \in Statuses : s = obj.status
    BY <2>4
  <2>7. /\ s.state = "Approved" /\ (r.result # "UNKNOWN" => r.ranOn = "approved")
        /\ Cardinality(s.facts) < MaxVerifications
    BY <2>2, <2>4, <2>5, <2>6 DEF RunOK, ExperimentPcs, EndPcs
  <2>8. StatusOK(s, obj.uid, rev + 1, last, endorsed)
    BY <2>4, <2>5, <2>6, StatusLater
  <2>9. PICK f : f = [id |-> r.id, uid |-> obj.uid, digest |-> s.digest, result |-> r.result, ranOn |-> r.ranOn]
    OBVIOUS
  <2>10. PICK t : t = [s EXCEPT !.facts = s.facts \cup {f}]
    OBVIOUS
  <2>11. Write(obj.spec, t)
    BY <1>3, <2>1, <2>2, <2>4, <2>6, <2>9, <2>10 DEF AppendPut, setStatus
  <2>12. s.digest \in Digests
    BY <2>7, <2>8 DEF StatusOK, Endorsed
  <2>13. f \in FactRecords /\ f.uid = obj.uid /\ f.digest = s.digest /\ f.result = r.result /\ f.ranOn = r.ranOn
    <3>1. obj.uid \in Nat
      BY <2>5, ObjectFields
    <3> QED BY <2>2, <2>9, <2>12, <3>1, RunFields DEF FactRecords
  <2>14. /\ t \in Statuses /\ t.state = s.state /\ t.digest = s.digest /\ t.ctx = s.ctx /\ t.actor = s.actor
         /\ t.snap = s.snap /\ t.facts = s.facts \cup {f}
    BY <2>10, <2>13 DEF Statuses
  <2>15. FactsOK(t, obj.uid)
    <3>1. IsFiniteSet(s.facts) /\ FactsOK(s, obj.uid)
      BY <2>8 DEF StatusOK, FactsOK
    <3>2. /\ IsFiniteSet(s.facts \cup {f})
          /\ Cardinality(s.facts \cup {f}) \in {Cardinality(s.facts), Cardinality(s.facts) + 1}
      BY <3>1, FS_AddElement
    <3>3. Cardinality(s.facts) \in Nat
      BY <3>1, FS_CardinalityType
    <3>4. Cardinality(s.facts \cup {f}) <= MaxVerifications
      BY <2>7, <3>2, <3>3, BoundsAssumption
    <3>5. \A g \in t.facts : /\ t.state = "Approved" /\ g.uid = obj.uid /\ g.digest = t.digest
                             /\ g.result # "UNKNOWN" => g.ranOn = "approved"
      BY <2>7, <2>13, <2>14, <3>1 DEF FactsOK
    <3> QED BY <2>14, <3>2, <3>4, <3>5 DEF FactsOK
  <2>16. StatusOK(t, obj.uid, rev + 1, last, endorsed)
    BY <2>8, <2>14, <2>15 DEF StatusOK, Endorsed
  <2>17. StatusOK(t, obj.uid, rev + 1, last', endorsed') /\ UNCHANGED <<prof, pods, ops>>
    BY <1>1, <2>16
  <2> QED BY <1>1, <2>4, <2>11, <2>14, <2>17, WriteReturn
<1> QED BY <1>2, <1>3

-----------------------------------------------------------------------------
(* The cluster, and the whole                                                  *)

LEMMA DisturbStep ==
  ASSUME Inv, Disturb
  PROVE  Inv'
<1>1. /\ obj \in Objects /\ rev \in Nat /\ prof \in Profiles /\ ops \in 0..MaxOps /\ pods \in [Procs -> SUBSET Roles]
      /\ pr \in [Procs -> Calls] /\ ObjectOK(obj, rev, last, endorsed)
      /\ \A p \in Procs : CallOK(pr[p], obj, rev, prof, pods[p])
  BY DEF Inv, Types, Governed
<1>2. UNCHANGED <<pr, pods, ops, endorsed>>
  BY DEF Disturb
<1>3. SUFFICES /\ obj' \in Objects /\ rev' \in Nat /\ prof' \in Profiles
               /\ ObjectOK(obj', rev', last', endorsed')
               /\ WorldStep(obj, rev, prof, obj', rev', prof')
  <2>1. \A p \in Procs : CallOK(pr[p], obj', rev', prof', pods[p])
    BY <1>1, <1>3, CallKept
  <2> QED BY <1>1, <1>2, <1>3, <2>1 DEF Inv, Types, Governed
<1>4. CASE obj' = Absent /\ UNCHANGED <<rev, prof>>
  <2>1. Absent.uid = 0
    BY DEF Absent
  <2> QED BY <1>1, <1>4, <2>1, AbsentType DEF ObjectOK, WorldStep
<1>5. CASE Exists /\ (\E s \in AllSpecs : Write(s, obj.status)) /\ UNCHANGED <<prof, last>>
  <2>1. PICK s \in AllSpecs : Write(s, obj.status)
    BY <1>5
  <2>2. PICK k \in Nat : k = rev + 1
    BY <1>1
  <2>3. PICK o : o = [obj EXCEPT !.rv = k, !.spec = s, !.status = obj.status]
    OBVIOUS
  <2>4. obj' = o /\ rev' = k
    BY <2>1, <2>2, <2>3 DEF Write
  <2>5. obj.status \in Statuses
    BY <1>1, ObjectFields
  <2>6. o \in Objects /\ o.uid = obj.uid /\ o.rv = k /\ o.spec = s /\ o.status = obj.status
    BY <1>1, <2>3, <2>5 DEF Objects
  <2>7. obj.uid <= obj.rv /\ obj.rv <= rev /\ StatusOK(obj.status, obj.uid, rev, last, endorsed)
    BY <1>1, <1>5 DEF ObjectOK, Exists
  <2>8. StatusOK(obj.status, obj.uid, k, last, endorsed)
    BY <1>1, <2>2, <2>5, <2>7, StatusLater
  <2>9. obj.uid <= k
    BY <1>1, <2>2, <2>7, ObjectFields
  <2>10. ObjectOK(o, k, last, endorsed)
    BY <2>6, <2>8, <2>9 DEF ObjectOK
  <2>11. WorldStep(obj, rev, prof, o, k, prof)
    BY <2>2, <2>6 DEF WorldStep
  <2> QED BY <1>1, <1>2, <1>5, <2>4, <2>6, <2>10, <2>11
<1>6. CASE prof' = "drifted" /\ UNCHANGED <<obj, rev, last>>
  BY <1>1, <1>2, <1>6 DEF WorldStep, Profiles
<1> QED BY <1>4, <1>5, <1>6 DEF Disturb

LEMMA InitInv == Init => Inv
<1> SUFFICES ASSUME Init PROVE Inv
  OBVIOUS
<1>1. Absent.uid = 0
  BY DEF Absent
<1>2. ObjectOK(obj, rev, last, endorsed)
  BY <1>1 DEF Init, ObjectOK
<1>3. \A p \in Procs : pr[p] = Idle
  BY DEF Init
<1>4. \A p \in Procs : CallOK(pr[p], obj, rev, prof, pods[p])
  BY <1>3, IdleOK
<1>5. Idle \in Calls
  BY IdleOK
<1>6. Types
  BY <1>5, AbsentType, BoundsAssumption DEF Init, Types, Profiles
<1> QED BY <1>2, <1>4, <1>6 DEF Inv, Governed

LEMMA NextInv == Inv /\ [Next]_vars => Inv'
<1> SUFFICES ASSUME Inv, [Next]_vars PROVE Inv'
  OBVIOUS
<1>1. CASE UNCHANGED vars
  BY <1>1 DEF vars, Inv, Types, Governed
<1>2. CASE Disturb
  BY <1>2, DisturbStep
<1>3. ASSUME NEW p \in Procs,
             \/ SaveBegin(p) \/ SaveGet(p) \/ SaveCreate(p) \/ SaveDraft(p) \/ SaveUpdate(p)
             \/ convergeAfterProposalWriteRace(p)
      PROVE  Inv'
  BY <1>3, SaveBeginStep, SaveGetStep, SaveCreateStep, SaveDraftStep, SaveUpdateStep, ConvergeReturnStep
<1>4. ASSUME NEW p \in Procs,
             DecisionBegin(p) \/ handleGovernanceProposal(p) \/ GovernanceGet(p) \/ GovernancePut(p)
      PROVE  Inv'
  BY <1>4, DecisionBeginStep, GovCheckStep, GovGetStep, GovPutStep
<1>5. ASSUME NEW p \in Procs,
             \/ handleSeccompVerification(p)
             \/ ExperimentBegin(p) \/ CreateTwin(p) \/ CreateControl(p) \/ ValidatePair(p) \/ WaitPods(p) \/ Cleanup(p)
             \/ Revalidate(p) \/ AppendGet(p) \/ AppendPut(p)
      PROVE  Inv'
  BY <1>5, HandleVerificationStep, ExperimentBeginStep, CreateStep, ValidatePairStep, WaitPodsStep, CleanupStep,
     RevalidateStep, AppendGetStep, AppendPutStep
<1> QED BY <1>1, <1>2, <1>3, <1>4, <1>5 DEF Next

\* The invariant holds in every reachable state.
THEOREM GovernanceInvariant == Spec => []Inv
<1>1. Init => Inv
  BY InitInv
<1>2. Inv /\ [Next]_vars => Inv'
  BY NextInv
<1> QED BY <1>1, <1>2, PTL DEF Spec

-----------------------------------------------------------------------------
(* Properties                                                                  *)

\* The stored object, when there is one.
LEMMA Stored ==
  ASSUME Inv, Exists
  PROVE  /\ obj \in Objects /\ obj.status \in Statuses /\ rev \in Nat
         /\ obj.uid <= obj.rv /\ obj.rv <= rev /\ obj.spec \in AllSpecs
         /\ StatusOK(obj.status, obj.uid, rev, last, endorsed)
<1>1. obj \in Objects /\ rev \in Nat /\ ObjectOK(obj, rev, last, endorsed)
  BY DEF Inv, Types, Governed
<1>2. obj.status \in Statuses
  BY <1>1, ObjectFields
<1> QED BY <1>1, <1>2 DEF ObjectOK, Exists

LEMMA InvGate == Inv => GateAcceptsOnlySeen
<1> SUFFICES ASSUME Inv, Exists, ValidateApprovedCandidate(obj.spec, statusFromObject(obj))
             PROVE  \E e \in endorsed : /\ e.digest = CandidateDigest(obj.spec)
                                        /\ e.actor = obj.status.actor
                                        /\ e.actor = "user" => e.ctx = obj.status.ctx
  BY DEF GateAcceptsOnlySeen
<1>1. PICK s \in Statuses : s = obj.status
  BY Stored
<1>2. PICK t : t = statusFromObject(obj)
  OBVIOUS
<1>3. t.state = "Approved" /\ t.digest = CandidateDigest(obj.spec)
  BY <1>2 DEF ValidateApprovedCandidate, validateApprovedCandidateV1, validateApprovedCandidateV2
<1>4. t = s
  <2>1. s.state = "" => t.state = "Draft"
    BY <1>1, <1>2 DEF statusFromObject, Statuses
  <2> QED BY <1>1, <1>2, <1>3, <2>1 DEF statusFromObject
<1>5. StatusOK(s, obj.uid, rev, last, endorsed)
  BY <1>1, Stored
<1>6. Endorsed(s, endorsed)
  BY <1>3, <1>4, <1>5 DEF StatusOK
<1> QED BY <1>1, <1>3, <1>4, <1>6 DEF Endorsed

\* What the apply gate accepts was approved by a human who had seen that
\* candidate, for any number of callers whose reads and writes interleave with
\* edits and deletions (ValidateApprovedCandidate, SetApprovalStateByVersion).
THEOREM GateAcceptsOnlyWhatWasSeen == Spec => []GateAcceptsOnlySeen
<1>1. Inv => GateAcceptsOnlySeen
  BY InvGate
<1> QED BY <1>1, GovernanceInvariant, PTL

LEMMA InvTypeOK == Inv => TypeOK
<1> SUFFICES ASSUME Inv PROVE TypeOK
  OBVIOUS
<1>1. prof \in {"approved", "drifted"} /\ pods \in [Procs -> SUBSET {"twin", "control"}]
  BY DEF Inv, Types, Profiles, Roles
<1>2. ASSUME Exists
      PROVE  /\ obj.rv >= obj.uid /\ obj.rv <= rev
             /\ obj.spec \in AllSpecs
             /\ obj.status \in [state : {"", "Draft", "Reviewed", "Approved", "Rejected"},
                                digest : Digests \cup {NoDigest}, ctx : Contexts \cup {None},
                                actor : {"", "user"}, snap : ApprovalSnapshots \cup {NoSnap}, facts : SUBSET obj.status.facts]
             /\ obj.status.facts \subseteq Facts
             /\ Cardinality(obj.status.facts) <= MaxVerifications
  <2>1. PICK s \in Statuses : s = obj.status
    BY <1>2, Stored
  <2>2. /\ obj \in Objects /\ rev \in Nat /\ obj.uid <= obj.rv /\ obj.rv <= rev /\ obj.spec \in AllSpecs
        /\ StatusOK(s, obj.uid, rev, last, endorsed)
    BY <1>2, <2>1, Stored
  <2>3. obj.uid \in Nat /\ obj.rv \in Nat
    BY <2>2, ObjectFields
  <2>4. s.snap \in ApprovalSnapshots \cup {NoSnap}
    <3>1. s.snap = NoSnap \/ (s.snap.digest \in Digests /\ s.snap.uid <= rev)
      BY <2>2 DEF StatusOK
    <3>2. s.snap \in Snaps
      BY StatusFields
    <3> QED BY <2>2, <3>1, <3>2 DEF Snaps, ApprovalSnapshots
  <2>5. FactsOK(s, obj.uid)
    BY <2>2 DEF StatusOK
  <2>6. s.facts \subseteq Facts
    <3> SUFFICES ASSUME NEW f \in s.facts PROVE f \in Facts
      OBVIOUS
    <3>1. f \in FactRecords
      BY StatusFields
    <3>2. f.uid = obj.uid
      BY <2>5 DEF FactsOK
    <3>3. f.uid \in 0..rev
      BY <2>2, <2>3, <3>2
    <3> QED BY <3>1, <3>3 DEF FactRecords, Facts, Results, Profiles
  <2>7. s \in [state : {"", "Draft", "Reviewed", "Approved", "Rejected"},
               digest : Digests \cup {NoDigest}, ctx : Contexts \cup {None},
               actor : {"", "user"}, snap : ApprovalSnapshots \cup {NoSnap}, facts : SUBSET s.facts]
    BY <2>4 DEF Statuses, States
  <2>8. Cardinality(s.facts) <= MaxVerifications
    BY <2>5 DEF FactsOK
  <2> QED BY <2>1, <2>2, <2>3, <2>6, <2>7, <2>8
<1> QED BY <1>1, <1>2 DEF TypeOK

\* Every verification fact in the status belongs to the approval beside it, a
\* conclusive one to a twin that ran under the approved profile, and the status
\* never holds more of them than it has room for (AppendSeccompVerification).
THEOREM FactsBelongToTheirApproval == Spec => []FactsBelongToApproval
<1>1. Inv => FactsBelongToApproval
  <2>1. ASSUME Inv, Exists
        PROVE  \A f \in obj.status.facts :
                 /\ obj.status.state = "Approved" /\ f.uid = obj.uid /\ f.digest = obj.status.digest
                 /\ f.result # "UNKNOWN" => f.ranOn = "approved"
    BY <2>1, Stored DEF StatusOK, FactsOK
  <2> QED BY <2>1, InvTypeOK DEF FactsBelongToApproval
<1> QED BY <1>1, GovernanceInvariant, PTL

\* An experiment that ended leaves a Pod behind only when the creation or the
\* deletion of that Pod failed, and then reports UNKNOWN (Run's deferred
\* clean-up).
THEOREM LeftoversAreUnknown == Spec => []LeftoverPodsAreUnknown
<1>1. Inv => LeftoverPodsAreUnknown
  <2> SUFFICES ASSUME Inv, NEW p \in Procs, pr[p].pc \in {"revalidate", "appendGet", "appendPut"}, pods[p] # {}
               PROVE  pods[p] \subseteq pr[p].run.uncertain /\ pr[p].run.result = "UNKNOWN"
    BY DEF LeftoverPodsAreUnknown
  <2>1. RunOK(pr[p], prof, pods[p]) /\ pr[p].pc \in EndPcs /\ pr[p].pc \in ExperimentPcs
    BY Knows DEF CallOK, EndPcs, ExperimentPcs
  <2>2. pods[p] \subseteq pr[p].run.uncertain
    BY <2>1 DEF RunOK
  <2>3. pr[p].run.uncertain # {}
    BY <2>2
  <2> QED BY <2>1, <2>2, <2>3 DEF RunOK
<1> QED BY <1>1, GovernanceInvariant, PTL

\* What one step may do to a decision.
DecisionStep ==
  (Exists /\ obj'.uid = obj.uid /\ obj.status.state \in {"Approved", "Rejected"})
     => obj'.status.state \in {"Approved", "Rejected"}

\* A write that keeps the status, or that decides, keeps a decision.
LEMMA WriteKeeps ==
  ASSUME Inv, NEW s, NEW t, Write(s, t),
         obj.status.state \in {"Approved", "Rejected"} => t.state \in {"Approved", "Rejected"}
  PROVE  DecisionStep
<1>1. obj \in Objects
  BY DEF Inv, Types
<1>2. obj'.status = t
  BY <1>1 DEF Write, Objects
<1> QED BY <1>2 DEF DecisionStep

LEMMA StepKeepsDecision == Inv /\ [Next]_vars => DecisionStep
<1> SUFFICES ASSUME Inv, [Next]_vars PROVE DecisionStep
  OBVIOUS
<1>0. CASE obj' = obj
  BY <1>0 DEF DecisionStep
<1>1. ASSUME NEW p \in Procs, SaveCreate(p) PROVE DecisionStep
  BY <1>0, <1>1 DEF SaveCreate, DecisionStep
<1>2. ASSUME NEW p \in Procs, SaveDraft(p) PROVE DecisionStep
  <2>1. CASE UpdateAllowed(p)
    <3>1. pr[p].pc = "saveDraft" /\ pr[p].pc \in HoldingPcs
      BY <1>2 DEF SaveDraft, HoldingPcs
    <3>2. obj = pr[p].got
      BY <2>1, <3>1, AllowedMeansHeld
    <3>3. obj.status = NewStatus("", NoSnap)
      BY <3>1, <3>2, Knows DEF CallOK, SaveOK
    <3>4. obj.status.state = ""
      BY <3>3, BlankFields
    <3> QED BY <3>4 DEF DecisionStep
  <2>2. CASE ~UpdateAllowed(p)
    BY <1>0, <1>2, <2>2 DEF SaveDraft
  <2> QED BY <2>1, <2>2
<1>3. ASSUME NEW p \in Procs, SaveUpdate(p) PROVE DecisionStep
  <2>1. CASE UpdateAllowed(p) /\ Write(pr[p].spec, pr[p].got.status)
    <3>1. pr[p].pc \in HoldingPcs
      BY <1>3 DEF SaveUpdate, HoldingPcs
    <3>2. obj = pr[p].got
      BY <2>1, <3>1, AllowedMeansHeld
    <3> QED BY <2>1, <3>2, WriteKeeps
  <2> QED BY <1>0, <1>3, <2>1 DEF SaveUpdate
<1>4. ASSUME NEW p \in Procs, GovernancePut(p) PROVE DecisionStep
  <2>0. pr[p].pc = "govPut" /\ pr[p].pc \in HoldingPcs
    BY <1>4 DEF GovernancePut, HoldingPcs
  <2>1. CASE /\ UpdateAllowed(p)
             /\ setStatus(CASE pr[p].op = "review" -> reviewedStatus(p)
                       [] pr[p].op = "approve" -> approvedStatus(p)
                       [] pr[p].op = "reject" -> rejectedStatus(p))
    <3>1. obj = pr[p].got /\ pr[p].op \in Decisions /\ DecisionOK(pr[p], obj, rev)
      BY <2>0, <2>1, AllowedMeansHeld, Knows DEF CallOK, DecisionOK, DecisionPcs
    <3>2. CASE pr[p].op = "review"
      <4>1. obj.status.state \in {"", "Draft"}
        BY <2>0, <3>1, <3>2 DEF DecisionOK
      <4> QED BY <4>1 DEF DecisionStep
    <3>3. CASE pr[p].op = "approve"
      <4>1. approvedStatus(p).state = "Approved"
        BY DEF approvedStatus, NewStatus
      <4>2. Write(obj.spec, approvedStatus(p))
        BY <2>1, <3>3 DEF setStatus
      <4> QED BY <4>1, <4>2, WriteKeeps
    <3>4. CASE pr[p].op = "reject"
      <4>1. rejectedStatus(p).state = "Rejected"
        BY DEF rejectedStatus, NewStatus
      <4>2. Write(obj.spec, rejectedStatus(p))
        BY <2>1, <3>4 DEF setStatus
      <4> QED BY <4>1, <4>2, WriteKeeps
    <3> QED BY <3>1, <3>2, <3>3, <3>4 DEF Decisions
  <2> QED BY <1>0, <1>4, <2>1 DEF GovernancePut
<1>5. ASSUME NEW p \in Procs, AppendPut(p) PROVE DecisionStep
  <2>1. CASE UpdateAllowed(p)
    <3>1. pr[p].pc \in HoldingPcs
      BY <1>5 DEF AppendPut, HoldingPcs, ExperimentPcs, EndPcs
    <3>2. obj = pr[p].got /\ obj.status \in Statuses
      BY <2>1, <3>1, AllowedMeansHeld
    <3>3. PICK f : Write(obj.spec, [obj.status EXCEPT !.facts = @ \cup {f}])
      BY <1>5, <2>1, <3>2 DEF AppendPut, setStatus
    <3>4. [obj.status EXCEPT !.facts = @ \cup {f}].state = obj.status.state
      BY <3>2 DEF Statuses
    <3> QED BY <3>3, <3>4, WriteKeeps
  <2>2. CASE ~UpdateAllowed(p)
    BY <1>0, <1>5, <2>2 DEF AppendPut
  <2> QED BY <2>1, <2>2
<1>6. CASE Disturb
  <2>1. CASE Exists /\ obj' = Absent
    <3>1. Absent.uid = 0
      BY DEF Absent
    <3> QED BY <2>1, <3>1 DEF DecisionStep, Exists
  <2>2. CASE \E s \in AllSpecs : Write(s, obj.status)
    BY <2>2, WriteKeeps
  <2> QED BY <1>0, <1>6, <2>1, <2>2 DEF Disturb
<1>7. ASSUME NEW p \in Procs,
             \/ SaveBegin(p) \/ SaveGet(p) \/ convergeAfterProposalWriteRace(p)
             \/ DecisionBegin(p) \/ handleGovernanceProposal(p) \/ GovernanceGet(p)
             \/ handleSeccompVerification(p)
             \/ ExperimentBegin(p) \/ CreateTwin(p) \/ CreateControl(p) \/ ValidatePair(p) \/ WaitPods(p) \/ Cleanup(p)
             \/ Revalidate(p) \/ AppendGet(p)
      PROVE  obj' = obj
  BY <1>7 DEF SaveBegin, SaveGet, convergeAfterProposalWriteRace, DecisionBegin, handleGovernanceProposal,
     GovernanceGet, handleSeccompVerification, ExperimentBegin, CreateTwin, CreateControl, ValidatePair, WaitPods,
     Cleanup, Revalidate, AppendGet
<1>8. CASE UNCHANGED vars
  BY <1>0, <1>8 DEF vars
<1> QED BY <1>0, <1>1, <1>2, <1>3, <1>4, <1>5, <1>6, <1>7, <1>8 DEF Next

\* No review, Draft status, stale write, overwriting Save or verification undoes
\* a decision, and the last approval snapshot is always the latest successful
\* approval of this object (setStatus under resourceVersion, MarkReviewed).
THEOREM DecisionsStay == Spec => DecisionsAreKept
<1>1. Inv => (Exists => obj.status.snap = last)
  <2>1. ASSUME Inv, Exists PROVE obj.status.snap = last
    BY <2>1, Stored DEF StatusOK
  <2> QED BY <2>1
<1>2. Inv /\ [Next]_vars => [DecisionStep]_vars
  BY StepKeepsDecision
<1> QED BY <1>1, <1>2, GovernanceInvariant, PTL DEF Spec, DecisionsAreKept, DecisionStep

==============================================================================
