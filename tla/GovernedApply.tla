---------------------------- MODULE GovernedApply ----------------------------
(***************************************************************************)
(* apply-proposal: several operators run applyproposal.Run against one     *)
(* SecurityProfileProposal and the same live objects.  A run passes two    *)
(* approval gates, creates a durable ApplyAttempt, and then, artifact by   *)
(* artifact in dependency order, re-validates the approval, records the    *)
(* live pre-state, dispatches one guarded mutation and records its         *)
(* outcome.  Every API request is a step of its own; between two of them   *)
(* reviewers decide, producers save a new candidate, controllers and other *)
(* clients write the live objects, answers get lost and processes die.     *)
(*                                                                         *)
(* A request that fails has either taken effect already or never will.     *)
(* The rendered artifacts of a candidate are named by the candidate's      *)
(* digest, and a resourceVersion by a number that only grows.              *)
(***************************************************************************)
EXTENDS Naturals, FiniteSets

CONSTANTS
    Appliers,          \* processes, each running apply-proposal once
    Specs,             \* proposal specs a producer may save
    DigestOf,          \* CandidateDigest: artifacts, container and binary
    TargetOf,          \* the canonical target binding, outside the v1 digest
    None,              \* no approved digest
    Artifacts,         \* slugs the proposal carries
    BarePod,           \* the patched manifest is a Pod without an owner
    MaxConflictRetries,
    MaxProposalRV,     \* bound: writes of the proposal
    MaxEdits,          \* bound: writes of live objects by others
    MaxFaults          \* bound: failed requests, lost answers, dead processes

Slugs == {"podlock", "networkpolicy", "spo-seccompprofile", "patched-manifest"}
Digests == {DigestOf[s] : s \in Specs}

\* Live content that no candidate renders; an unowned SeccompProfile lacks
\* this project's ownership annotations.
Foreign == {"drift", "unowned"}

ASSUME ApplyConstants ==
    /\ Specs # {}
    /\ Artifacts \subseteq Slugs
    /\ BarePod \in BOOLEAN
    /\ {MaxConflictRetries, MaxProposalRV, MaxEdits, MaxFaults} \subseteq Nat
    /\ Digests \cap (Foreign \cup {None}) = {}

VARIABLES
    prop,      \* the proposal: spec, approved digest, UID, resourceVersion
    live,      \* artifact -> live object
    version,   \* artifact -> last resourceVersion the API server gave out
    run,       \* applier -> the locals of its Run
    attempt,   \* applier -> its durable ApplyAttempt
    touched,   \* history: artifacts a run changed and nobody else has deleted
    late,      \* history: artifacts changed since the run lost its authority
    used       \* external edits and faults so far

vars == <<prop, live, version, run, attempt, touched, late, used>>
-----------------------------------------------------------------------------
(* Live objects.                                                           *)

\* phase: a new object, one whose controller has published its status
\* (status.localhostProfile of a SeccompProfile), a Pod being terminated.
Object == [uid : Nat, rv : Nat, content : Digests \cup Foreign,
           phase : {"new", "ready", "dying"}]
Absent == [uid |-> 0, rv |-> 0, content |-> "drift", phase |-> "new"]
Present(o) == live[o] # Absent

\* What custody keeps of an object: identity, version and controlled content.
mutationSnapshot(obj) == [uid |-> obj.uid, rv |-> obj.rv, content |-> obj.content]
Snapshot == [uid : Nat, rv : Nat, content : Digests \cup Foreign]

\* Replace live[o] by obj under a fresh resourceVersion.
Store(o, obj) ==
    /\ version' = [version EXCEPT ![o] = @ + 1]
    /\ live' = [live EXCEPT ![o] = [obj EXCEPT !.rv = version[o] + 1]]

Created(o, content) ==
    [uid |-> version[o] + 1, rv |-> 0, content |-> content, phase |-> "new"]
-----------------------------------------------------------------------------
(* Custody.                                                                *)

NoRecord == [result |-> "NONE", before |-> mutationSnapshot(Absent), attributable |-> 0]
Record == [result : {"NONE", "SUCCEEDED", "FAILED", "OUTCOME_UNKNOWN"},
           before : Snapshot, attributable : Nat]
Terminal == {"APPLIED", "PARTIALLY_APPLIED", "FAILED", "OUTCOME_UNKNOWN"}
Status == [state : {"", "IN_PROGRESS"} \cup Terminal, mutations : [Artifacts -> Record]]
NoStatus == [state |-> "", mutations |-> [o \in Artifacts |-> NoRecord]]

\* Mutant: the record is appended without a result.
mutationRecordForUnset(obj) ==
    [result |-> "", before |-> mutationSnapshot(obj), attributable |-> 0]

mutationRecordFor(obj) ==
    [result |-> "OUTCOME_UNKNOWN", before |-> mutationSnapshot(obj), attributable |-> 0]

Succeeded(st) == {o \in Artifacts : st.mutations[o].result = "SUCCEEDED"}
Recorded(st) == {o \in Artifacts : st.mutations[o].result # "NONE"}

\* hasSuccessfulMutation turns a failure into a partial application.
markFailure(st) ==
    [st EXCEPT !.state = IF Succeeded(st) # {} THEN "PARTIALLY_APPLIED" ELSE "FAILED"]
-----------------------------------------------------------------------------
(* Runs.                                                                   *)

PCs == {"idle", "status1", "spec2", "status2", "create", "begin",
        "wait", "podlock", "spec3", "status3", "spec4", "status4", "before",
        "intent", "get", "write", "refetch", "delete", "gone", "recreate",
        "landed", "errored", "result", "last", "done", "dead"}

Proposal == [spec : Specs, approved : Digests \cup {None}, uid : Nat, rv : Nat]

Run == [pc : PCs, pinned : BOOLEAN,
        read : Proposal,           \* what Gate 1 read
        seen : Proposal,           \* the spec the current gate has read
        todo : SUBSET Artifacts,   \* plan entries not yet recorded as succeeded
        plan : SUBSET Artifacts,
        status : Status,           \* attemptStatus
        stale : BOOLEAN,           \* attemptObj misses a write whose answer was lost
        held : Object,             \* the object the next request is based on
        tries : Nat, answer : [uid : Nat, rv : Nat]]

NoAnswer == [uid |-> 0, rv |-> 0]
Nobody == [spec |-> CHOOSE s \in Specs : TRUE, approved |-> None, uid |-> 0, rv |-> 0]
Fresh == [pc |-> "idle", pinned |-> FALSE, read |-> Nobody, seen |-> Nobody,
          todo |-> {}, plan |-> {}, status |-> NoStatus, stale |-> FALSE,
          held |-> Absent, tries |-> 0, answer |-> NoAnswer]

applyClassFor(o) ==
    CASE o \in {"spo-seccompprofile", "podlock"} -> 0
      [] o = "patched-manifest" -> 2
      [] OTHER -> 1

\* A plan has at most one artifact of a class: PodLock and SeccompProfile
\* together are rejected.
validateCompositionCompatibility(plan) ==
    ~ {"podlock", "spo-seccompprofile"} \subseteq plan

Current(r) == CHOOSE o \in r.todo : \A q \in r.todo : applyClassFor(o) =< applyClassFor(q)
Digest(r) == DigestOf[r.read.spec]

\* The head of the loop: the next artifact, or finalisation.
Continue(r) ==
    IF r.todo = {} THEN [r EXCEPT !.pc = "last", !.status.state = "APPLIED"]
    ELSE IF applyClassFor(Current(r)) = 2 THEN [r EXCEPT !.pc = "wait"]
    ELSE [r EXCEPT !.pc = "spec4"]

Stop(r) == [r EXCEPT !.pc = "done"]
Fail(r) == [r EXCEPT !.pc = "last", !.status = markFailure(@)]
Unknown(r) == [r EXCEPT !.pc = "last", !.status.state = "OUTCOME_UNKNOWN"]
Goto(r, pc) == [r EXCEPT !.pc = pc]

CanFail == used.faults < MaxFaults
Fault == CanFail /\ used' = [used EXCEPT !.faults = @ + 1]
NoFault == UNCHANGED used

At(a, pc) == run[a].pc = pc
Become(a, r) == run' = [run EXCEPT ![a] = r]
Cluster == <<prop, live, version>>
History == <<touched, late>>

Init ==
    /\ prop \in [spec : Specs, approved : Digests \cup {None}, uid : {1}, rv : {1}]
    /\ live \in [Artifacts -> {Absent,
                   [uid |-> 1, rv |-> 1, content |-> "drift", phase |-> "ready"]}]
    /\ version = [o \in Artifacts |-> live[o].rv]
    /\ run = [a \in Appliers |-> Fresh]
    /\ attempt = [a \in Appliers |-> NoStatus]
    /\ touched = [a \in Appliers |-> {}]
    /\ late = [a \in Appliers |-> {}]
    /\ used = [edits |-> 0, faults |-> 0]
-----------------------------------------------------------------------------
(* The proposal and its reviewers.  Each write is one compare-and-swap on  *)
(* the proposal's resourceVersion.                                         *)

\* Does the approval in proposal p still cover what run r is applying?
Authorises(p, r) ==
    /\ DigestOf[p.spec] = Digest(r)
    /\ p.approved = Digest(r)
    /\ r.pinned => p.rv = r.read.rv

WriteProposal(new) ==
    /\ prop.rv < MaxProposalRV
    /\ prop' = [new EXCEPT !.rv = @ + 1]
    /\ late' = [a \in Appliers |-> IF Authorises(prop', run[a]) THEN {} ELSE late[a]]
    /\ UNCHANGED <<live, version, run, attempt, touched, used>>

\* Save keeps the status: an approval survives, bound to the old digest.
SaveProposal(s) == s # prop.spec /\ WriteProposal([prop EXCEPT !.spec = s])

\* Approving needs the digest of the spec in the object being written.
Approve == prop.approved # DigestOf[prop.spec]
           /\ WriteProposal([prop EXCEPT !.approved = DigestOf[prop.spec]])
Reject == prop.approved # None /\ WriteProposal([prop EXCEPT !.approved = None])

\* Deleted and created again under its name.
ReplaceProposal == WriteProposal([prop EXCEPT !.uid = @ + 1, !.approved = None])
-----------------------------------------------------------------------------
(* Everybody else who writes the live objects.                             *)

Edit(o, obj) ==
    /\ used.edits < MaxEdits
    /\ used' = [used EXCEPT !.edits = @ + 1]
    /\ Store(o, obj)
    /\ UNCHANGED <<prop, run, attempt, touched, late>>

ExternalWrite(o) == Present(o) /\ Edit(o, [live[o] EXCEPT !.content = "drift"])
ExternalTouch(o) == Present(o) /\ Edit(o, live[o])
ExternalCreate(o) == ~Present(o) /\ \E c \in Foreign : Edit(o, Created(o, c))
ExternalDelete(o) ==
    /\ Present(o) /\ used.edits < MaxEdits
    /\ used' = [used EXCEPT !.edits = @ + 1]
    /\ live' = [live EXCEPT ![o] = Absent]
    /\ touched' = [a \in Appliers |-> touched[a] \ {o}]
    /\ UNCHANGED <<prop, version, run, attempt, late>>

\* The backend controller publishes the object's status.
Reconcile(o) ==
    /\ o # "networkpolicy" /\ Present(o) /\ live[o].phase = "new"
    /\ Store(o, [live[o] EXCEPT !.phase = "ready"])
    /\ UNCHANGED <<prop, run, attempt, touched, late, used>>

\* The kubelet finishes a termination.
PodGone(o) ==
    /\ live[o].phase = "dying"
    /\ live' = [live EXCEPT ![o] = Absent]
    /\ UNCHANGED <<prop, version, run, attempt, touched, late, used>>
-----------------------------------------------------------------------------
(* The approval gates: each reads the spec, then the status.               *)

\* A gate's first request; a failed one is handled by refuse.
ReadSpec(a, pc, next, refuse) ==
    /\ At(a, pc)
    /\ \/ NoFault /\ Become(a, next)
       \/ Fault /\ Become(a, refuse)
    /\ UNCHANGED <<Cluster, attempt, History>>

ValidateApprovedCandidate(seen) == prop.approved = DigestOf[seen.spec]

ReadStatus(a, pc, accepted, next, refuse) ==
    /\ At(a, pc)
    /\ \/ accepted /\ NoFault /\ Become(a, next)
       \/ ~accepted /\ NoFault /\ Become(a, refuse)
       \/ Fault /\ Become(a, refuse)
    /\ UNCHANGED <<Cluster, attempt, History>>

Seen(r, pc) == [r EXCEPT !.pc = pc, !.seen = prop]
Unseen(r, pc) == [r EXCEPT !.pc = pc, !.seen = Nobody]

\* Gate 1.  With an expected resourceVersion the run is pinned to the
\* version it was asked to apply.
StartRun(a) ==
    /\ At(a, "idle")
    /\ \E pinned \in BOOLEAN :
          Become(a, [run[a] EXCEPT !.pc = "status1", !.pinned = pinned, !.read = prop])
    /\ UNCHANGED <<Cluster, attempt, History, used>>

\* The plan is fixed here: what --skip and --restart leave of the artifacts.
Preflight(a) ==
    \E plan \in SUBSET Artifacts :
        ReadStatus(a, "status1",
            /\ ValidateApprovedCandidate(run[a].read)
            /\ plan # {}
            /\ validateCompositionCompatibility(plan),
            [run[a] EXCEPT !.pc = "spec2", !.plan = plan, !.todo = plan],
            Stop(run[a]))

\* Gate 2, after the operator's confirmation.
ReReadSpec(a) == ReadSpec(a, "spec2", Seen(run[a], "status2"), Stop(run[a]))

SameCandidate(r) ==
    /\ r.seen.uid = r.read.uid
    /\ TargetOf[r.seen.spec] = TargetOf[r.read.spec]
    /\ DigestOf[r.seen.spec] = Digest(r)

Revalidate(a) ==
    ReadStatus(a, "status2",
        ValidateApprovedCandidate(run[a].seen) /\ SameCandidate(run[a]),
        Unseen(run[a], "create"), Stop(run[a]))

\* Gate 3, between the readiness wait and the workload binding.
ReadSpecBeforeBinding(a) == ReadSpec(a, "spec3", Seen(run[a], "status3"), Fail(run[a]))
revalidateBeforeBinding(a) ==
    ReadStatus(a, "status3",
        ValidateApprovedCandidate(run[a].seen) /\ DigestOf[run[a].seen.spec] = Digest(run[a]),
        Unseen(run[a], "spec4"), Fail(Unseen(run[a], "last")))

\* Mutant: the expected resourceVersion is only compared at the start.
ReadSpecUnpinned(a) ==
    ReadSpec(a, "spec4",
        IF prop.uid # run[a].read.uid THEN Fail(run[a]) ELSE Seen(run[a], "status4"),
        Fail(run[a]))

\* Gate 4, before every mutation.
ReadSpecBeforeMutation(a) ==
    ReadSpec(a, "spec4",
        IF \/ prop.uid # run[a].read.uid
           \/ run[a].pinned /\ prop.rv # run[a].read.rv
        THEN Fail(run[a]) ELSE Seen(run[a], "status4"), Fail(run[a]))
revalidateAttemptBeforeMutation(a) ==
    ReadStatus(a, "status4",
        ValidateApprovedCandidate(run[a].seen) /\ SameCandidate(run[a]),
        Unseen(run[a], "before"), Fail(Unseen(run[a], "last")))
-----------------------------------------------------------------------------
(* Custody writes.  UpdateStatus carries the resourceVersion of the last   *)
(* answer, so after a lost answer every later write conflicts.             *)

\* Persist st; continue as ok, or as failed when the request returns an error.
SaveStatus(a, st, ok, failed) ==
    /\ \/ /\ ~run[a].stale /\ NoFault
          /\ attempt' = [attempt EXCEPT ![a] = st]
          /\ Become(a, ok)
       \/ /\ ~run[a].stale /\ Fault
          /\ attempt' = [attempt EXCEPT ![a] = st]
          /\ Become(a, [failed EXCEPT !.stale = TRUE])
       \/ /\ \/ run[a].stale /\ NoFault
             \/ Fault
          /\ UNCHANGED attempt
          /\ Become(a, failed)
    /\ UNCHANGED <<Cluster, History>>

\* The ApplyAttempt object, still without a status.
CreateAttempt(a) ==
    /\ At(a, "create")
    /\ \/ NoFault /\ Become(a, Goto(run[a], "begin"))
       \/ Fault /\ Become(a, Stop(run[a]))
    /\ UNCHANGED <<Cluster, attempt, History>>

BeginAttempt(a) ==
    /\ At(a, "begin")
    /\ LET r == [run[a] EXCEPT !.status.state = "IN_PROGRESS"]
       IN  SaveStatus(a, r.status, Continue(r), Stop(r))

\* Mutant: the mutation is dispatched on an unsaved record.
PersistIntentLater(a) ==
    /\ At(a, "intent")
    /\ LET r == run[a]
           st == [r.status EXCEPT !.mutations[Current(r)] = mutationRecordFor(r.held)]
       IN  Become(a, [r EXCEPT !.held = Absent, !.pc = "get", !.status = st])
    /\ NoFault /\ UNCHANGED <<Cluster, attempt, History>>

\* The record is appended and persisted before the mutation is dispatched;
\* when that fails it is dropped again and the run ends.
PersistIntent(a) ==
    /\ At(a, "intent")
    /\ LET r == run[a]
           st == [r.status EXCEPT !.mutations[Current(r)] = mutationRecordFor(r.held)]
           clear == [r EXCEPT !.held = Absent]
       IN  SaveStatus(a, st, [clear EXCEPT !.pc = "get", !.status = st], Fail(clear))

\* Mutant: a failed artifact does not stop the sequence.
PersistResultAndGoOn(a) ==
    /\ At(a, "result")
    /\ LET r == run[a]
           o == Current(r)
       IN  SaveStatus(a, r.status,
             IF r.status.mutations[o].result = "SUCCEEDED"
                   \/ (r.status.mutations[o].result = "FAILED" /\ r.todo # {o})
             THEN Continue([r EXCEPT !.todo = @ \ {o}]) ELSE Unknown(r), Unknown(r))

\* The outcome of the mutation.  SUCCEEDED continues the loop, FAILED ends
\* the run as a failure; an unsaved or unknown outcome ends it as unknown.
PersistResult(a) ==
    /\ At(a, "result")
    /\ LET r == run[a]
           o == Current(r)
       IN  SaveStatus(a, r.status,
             CASE r.status.mutations[o].result = "SUCCEEDED" ->
                    Continue([r EXCEPT !.todo = @ \ {o}])
               [] r.status.mutations[o].result = "FAILED" -> Fail(r)
               [] OTHER -> Unknown(r),
             Unknown(r))

\* The last status write: the run returns whatever comes of it.
PersistLast(a) ==
    /\ At(a, "last")
    /\ SaveStatus(a, run[a].status, Stop(run[a]), Stop(run[a]))
-----------------------------------------------------------------------------
(* Readiness of what the workload binding refers to.                       *)

seccompProfileReady(r) ==
    "spo-seccompprofile" \in r.plan =>
        /\ live["spo-seccompprofile"].content = Digest(r)
        /\ live["spo-seccompprofile"].phase = "ready"

\* Polling: ready, drifted, or out of time.  A profile that is merely not
\* ready yet is polled again.  Errors and time-outs return at once, without
\* a status write.
waitForEnforcementReady(a) ==
    /\ At(a, "wait")
    /\ LET ready == seccompProfileReady(run[a])
       IN  \/ ready /\ NoFault /\ Become(a, Goto(run[a], "podlock"))
           \/ ~ready /\ NoFault /\ Become(a, Stop(run[a]))
           \/ Fault /\ Become(a, Stop(run[a]))
    /\ UNCHANGED <<Cluster, attempt, History>>

validatePodLockBeforeBinding(a) ==
    /\ At(a, "podlock")
    /\ LET same == "podlock" \in run[a].plan =>
                       Present("podlock") /\ live["podlock"].content = Digest(run[a])
       IN  \/ same /\ NoFault /\ Become(a, Goto(run[a], "spec3"))
           \/ ~same /\ NoFault /\ Become(a, Stop(run[a]))
           \/ Fault /\ Become(a, Stop(run[a]))
    /\ UNCHANGED <<Cluster, attempt, History>>
-----------------------------------------------------------------------------
(* One mutation.                                                           *)

ReadBefore(a) ==
    /\ At(a, "before")
    /\ \/ NoFault /\ Become(a, [run[a] EXCEPT !.pc = "intent", !.held = live[Current(run[a])]])
       \/ Fault /\ Become(a, Fail(run[a]))
    /\ UNCHANGED <<Cluster, attempt, History>>

\* The first GET of the mutation checks the guard and, for a cluster-scoped
\* profile, the ownership marker.  An absent object goes to Create whatever
\* the guard says.
GuardHolds(r, obj) ==
    LET before == r.status.mutations[Current(r)].before
    IN  before.uid = obj.uid /\ before.rv = obj.rv

checkGovernedOwnership(o, obj) == o = "spo-seccompprofile" => obj.content # "unowned"

IsPod(o) == BarePod /\ o = "patched-manifest"

GetBeforeMutation(a) ==
    /\ At(a, "get")
    /\ LET r == run[a]
           o == Current(r)
           obj == live[o]
           admitted == GuardHolds(r, obj) /\ checkGovernedOwnership(o, obj)
       IN  \/ /\ ~Present(o) /\ NoFault
              /\ Become(a, Goto(r, IF IsPod(o) THEN "recreate" ELSE "write"))
           \/ /\ Present(o) /\ admitted /\ NoFault
              /\ Become(a, [r EXCEPT !.pc = IF IsPod(o) THEN "delete" ELSE "write",
                                     !.held = obj])
           \/ Present(o) /\ ~admitted /\ NoFault /\ Become(a, Goto(r, "errored"))
           \/ Fault /\ Become(a, Goto(r, "errored"))
    /\ UNCHANGED <<Cluster, attempt, History>>

\* Storing obj begins the deletion of o: what others had changed goes with it.
Deletes(o, obj) == obj.phase = "dying" /\ live[o].phase # "dying"

\* The request leaves obj as the live object o; the answer arrives or not.
\* An update that changes nothing may leave the resourceVersion alone.
Landed(a, o, obj, next) ==
    /\ \/ Store(o, obj)
       \/ /\ Present(o) /\ obj.content = live[o].content /\ obj.phase = live[o].phase
          /\ UNCHANGED <<live, version>>
    /\ LET new == live'[o]
           answer == [uid |-> new.uid, rv |-> new.rv]
       IN  \/ NoFault /\ Become(a, [run[a] EXCEPT !.pc = next, !.held = Absent,
                                                 !.tries = 0, !.answer = answer])
           \/ Fault /\ Become(a, [run[a] EXCEPT !.pc = "errored", !.held = Absent, !.tries = 0])
    /\ touched' = [b \in Appliers |->
                      IF b = a THEN IF live' = live THEN touched[a] ELSE touched[a] \cup {o}
                      ELSE IF Deletes(o, obj) THEN touched[b] \ {o} ELSE touched[b]]
    /\ late' = [late EXCEPT ![a] = IF live' = live \/ Authorises(prop, run[a]) THEN @ ELSE @ \cup {o}]
    /\ UNCHANGED <<prop, attempt>>

\* The request returns an error and changed nothing.
Rejected(a, next) ==
    /\ Become(a, [run[a] EXCEPT !.pc = next,
                                !.held = IF next = "refetch" THEN @ ELSE Absent,
                                !.tries = IF next = "refetch" THEN @ ELSE 0])
    /\ UNCHANGED <<Cluster, attempt, History>>

\* Create or Update outside the Pod path.
WriteLive(a) ==
    /\ At(a, "write")
    /\ LET r == run[a]
           o == Current(r)
           conflict == r.held # Absent /\ Present(o) /\ live[o].rv # r.held.rv
       IN  \/ /\ r.held = Absent /\ ~Present(o)
              /\ Landed(a, o, Created(o, Digest(r)), "landed")
           \/ /\ r.held # Absent /\ Present(o) /\ ~conflict
              /\ Landed(a, o, [live[o] EXCEPT !.content = Digest(r)], "landed")
           \/ (r.held # Absent) # Present(o) /\ NoFault /\ Rejected(a, "errored")
           \/ /\ conflict /\ NoFault
              /\ Rejected(a, IF r.tries < MaxConflictRetries THEN "refetch" ELSE "errored")
           \/ Fault /\ Rejected(a, "errored")

\* After a conflict: fetch again and retry, on the new version.
Refetch(a) ==
    /\ At(a, "refetch")
    /\ LET o == Current(run[a])
       IN  \/ /\ Present(o) /\ NoFault
              /\ Become(a, [run[a] EXCEPT !.pc = "write", !.held = live[o], !.tries = @ + 1])
              /\ UNCHANGED <<Cluster, attempt, History>>
           \/ ~Present(o) /\ NoFault /\ Rejected(a, "errored")
           \/ Fault /\ Rejected(a, "errored")

\* A bare Pod is deleted under its UID, awaited, and created again.
DeletePod(a) ==
    /\ At(a, "delete")
    /\ LET r == run[a]
           o == Current(r)
           same == Present(o) /\ live[o].uid = r.held.uid
       IN  \/ same /\ Landed(a, o, [live[o] EXCEPT !.phase = "dying"], "gone")
           \/ ~same /\ NoFault /\ Rejected(a, "errored")
           \/ Fault /\ Rejected(a, "errored")

\* Mutant: the wait for the Pod to go has no deadline.
waitForPodForever(a) ==
    /\ At(a, "gone") /\ ~Present(Current(run[a]))
    /\ NoFault /\ Become(a, [run[a] EXCEPT !.pc = "recreate", !.answer = NoAnswer])
    /\ UNCHANGED <<Cluster, attempt, History>>

\* Gone; or still there, under another UID or when the time is up.
waitForDynamicPodGone(a) ==
    /\ At(a, "gone")
    /\ LET o == Current(run[a])
       IN  \/ ~Present(o) /\ NoFault /\ Become(a, [run[a] EXCEPT !.pc = "recreate", !.answer = NoAnswer])
           \/ Present(o) /\ NoFault /\ Become(a, [run[a] EXCEPT !.pc = "errored", !.answer = NoAnswer])
           \/ Fault /\ Become(a, [run[a] EXCEPT !.pc = "errored", !.answer = NoAnswer])
    /\ UNCHANGED <<Cluster, attempt, History>>

CreatePod(a) ==
    /\ At(a, "recreate")
    /\ LET o == Current(run[a])
       IN  \/ ~Present(o) /\ Landed(a, o, Created(o, Digest(run[a])), "landed")
           \/ Present(o) /\ NoFault /\ Rejected(a, "errored")
           \/ Fault /\ Rejected(a, "errored")

\* Mutant: whatever is read back is attributed to this mutation.
ObserveSuccessUnmatched(a) ==
    /\ At(a, "landed")
    /\ LET r == [run[a] EXCEPT !.answer = NoAnswer]
           o == Current(r)
           rec == [r.status.mutations[o] EXCEPT !.result = "SUCCEEDED", !.attributable = live[o].rv]
       IN  Become(a, [r EXCEPT !.pc = "result", !.status.mutations[o] = rec])
    /\ NoFault /\ UNCHANGED <<Cluster, attempt, History>>

\* The mutation succeeded.  Its resourceVersion is attributable only when
\* the object read back is the one the answer described.
ObserveSuccess(a) ==
    /\ At(a, "landed")
    /\ LET r == [run[a] EXCEPT !.answer = NoAnswer]
           o == Current(r)
           mine == /\ run[a].answer.uid = live[o].uid
                   /\ run[a].answer.rv = live[o].rv
           rec == [r.status.mutations[o] EXCEPT !.result = "SUCCEEDED",
                       !.attributable = IF mine THEN live[o].rv ELSE 0]
       IN  \/ /\ Present(o) /\ NoFault
              /\ Become(a, [r EXCEPT !.pc = "result", !.status.mutations[o] = rec])
           \/ ~Present(o) /\ NoFault /\ Become(a, Unknown(r))
           \/ Fault /\ Become(a, Unknown(r))
    /\ UNCHANGED <<Cluster, attempt, History>>

\* Mutant: an error answer means the mutation did not happen.
ObserveFailureTrusting(a) ==
    /\ At(a, "errored")
    /\ Become(a, [run[a] EXCEPT !.pc = "result",
                                !.status.mutations[Current(run[a])].result = "FAILED"])
    /\ NoFault /\ UNCHANGED <<Cluster, attempt, History>>

\* The mutation failed: it is FAILED only when the live object is exactly
\* the recorded pre-state.
ObserveFailure(a) ==
    /\ At(a, "errored")
    /\ LET r == run[a]
           o == Current(r)
           same == mutationSnapshot(live[o]) = r.status.mutations[o].before
       IN  \/ /\ NoFault
              /\ Become(a, [r EXCEPT !.pc = "result",
                      !.status.mutations[o].result = IF same THEN "FAILED" ELSE "OUTCOME_UNKNOWN"])
           \/ Fault /\ Become(a, Unknown(r))
    /\ UNCHANGED <<Cluster, attempt, History>>

\* The process dies between two requests.
Die(a) ==
    /\ run[a].pc \notin {"idle", "done", "dead"}
    /\ Fault /\ Become(a, [Fresh EXCEPT !.pc = "dead", !.read = run[a].read])
    /\ UNCHANGED <<Cluster, attempt, History>>
-----------------------------------------------------------------------------
Gate(a) == \/ StartRun(a) \/ Preflight(a) \/ ReReadSpec(a) \/ Revalidate(a)
           \/ ReadSpecBeforeBinding(a) \/ revalidateBeforeBinding(a)
           \/ ReadSpecBeforeMutation(a) \/ revalidateAttemptBeforeMutation(a)
Custody(a) == \/ CreateAttempt(a) \/ BeginAttempt(a) \/ PersistIntent(a)
              \/ PersistResult(a) \/ PersistLast(a)
Readiness(a) == waitForEnforcementReady(a) \/ validatePodLockBeforeBinding(a)
Mutation(a) == \/ ReadBefore(a) \/ GetBeforeMutation(a) \/ WriteLive(a) \/ Refetch(a)
               \/ DeletePod(a) \/ waitForDynamicPodGone(a) \/ CreatePod(a)
               \/ ObserveSuccess(a) \/ ObserveFailure(a)
Step(a) == Gate(a) \/ Custody(a) \/ Readiness(a) \/ Mutation(a)

Others(o) == \/ ExternalWrite(o) \/ ExternalTouch(o) \/ ExternalCreate(o)
             \/ ExternalDelete(o) \/ Reconcile(o) \/ PodGone(o)
Review == (\E s \in Specs : SaveProposal(s)) \/ Approve \/ Reject \/ ReplaceProposal

Next == \/ \E a \in Appliers : Step(a) \/ Die(a)
        \/ \E o \in Artifacts : Others(o)
        \/ Review

Spec == Init /\ [][Next]_vars

\* A process that can send its next request or whose timer has run out goes on.
FairSpec == Spec /\ \A a \in Appliers : WF_vars(Step(a))
-----------------------------------------------------------------------------
(* Properties.                                                             *)

TypeOK ==
    /\ prop \in Proposal
    /\ live \in [Artifacts -> Object]
    /\ version \in [Artifacts -> Nat]
    /\ run \in [Appliers -> Run]
    /\ attempt \in [Appliers -> Status]
    /\ touched \in [Appliers -> SUBSET Artifacts]
    /\ late \in [Appliers -> SUBSET Artifacts]
    /\ used \in [edits : 0 .. MaxEdits, faults : 0 .. MaxFaults]

\* Once the approval no longer covers the candidate a run is applying (or,
\* for a run pinned to a resourceVersion, once the proposal has been written
\* at all), the run changes at most one more live object: the one whose gate
\* it had already passed.  The window stays that small although every gate
\* reads spec and status in two requests, conflicts are retried, and the
\* binding waits for a controller.
LateMutationBounded == \A a \in Appliers : Cardinality(late[a]) =< 1

\* Custody (ADR-0024): a run never changes a live object unless its
\* ApplyAttempt durably holds a record of that mutation, whatever status
\* writes failed or lost their answer.
WritesAreRecorded == \A a \in Appliers : touched[a] \subseteq Recorded(attempt[a])

\* What a finished ApplyAttempt says is true of the cluster: FAILED means
\* the run left no change behind, PARTIALLY_APPLIED that every change it left
\* is recorded as SUCCEEDED and some mutation is, APPLIED that all are; and
\* no change is left by a mutation recorded as FAILED.  (A created object
\* that someone deletes before the run reads it back leaves no change.)
OutcomeTruthful ==
    \A a \in Appliers :
        LET st == attempt[a]
        IN  /\ st.state = "FAILED" => touched[a] = {}
            /\ st.state = "PARTIALLY_APPLIED" =>
                  Succeeded(st) # {} /\ touched[a] \subseteq Succeeded(st)
            /\ st.state = "APPLIED" => Recorded(st) = Succeeded(st) /\ touched[a] \subseteq Succeeded(st)
            /\ \A o \in touched[a] : st.mutations[o].result # "FAILED"

\* A live object still at the version an attempt claims as its own holds the
\* candidate that attempt applied: what rollback restores from is never
\* someone else's write.
AttributableIsOurs ==
    \A a \in Appliers, o \in Artifacts :
        LET rec == attempt[a].mutations[o]
        IN  rec.attributable # 0 /\ live[o].rv = rec.attributable =>
                live[o].content = Digest(run[a])

\* An attempt tells the truth about outcomes and about whose version is whose.
AttemptsTruthful == OutcomeTruthful /\ AttributableIsOurs

\* Run a changes live object o in this step.
Changes(a, o) == run'[a] # run[a] /\ live'[o] # live[o]

\* Dependency order and fail-stop (ADR-0007): an artifact is only written
\* when every planned artifact of a lower class is durably SUCCEEDED and no
\* other record is open or failed; the workload binding comes last.
DependencyOrder ==
    [][\A a \in Appliers, o \in Artifacts : Changes(a, o) =>
          /\ \A q \in run[a].plan :
                applyClassFor(q) < applyClassFor(o) => q \in Succeeded(attempt[a])
          /\ Recorded(attempt[a]) \ {o} \subseteq Succeeded(attempt[a])]_vars

\* Every run that was started returns or dies: neither a controller that
\* never reconciles, nor a Pod that never goes, nor endless conflicts, nor a
\* status object it can no longer write keeps it waiting.
EveryRunEnds ==
    \A a \in Appliers : run[a].pc = "status1" ~> run[a].pc \in {"done", "dead"}
=============================================================================
