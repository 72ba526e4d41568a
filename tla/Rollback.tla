------------------------------- MODULE Rollback -------------------------------
(***************************************************************************)
(* rollback, composed with apply-proposal: operators run rollback.Run      *)
(* against the ApplyAttempts that GovernedApply leaves behind, while other *)
(* runs, controllers and clients keep writing the same live objects.  A    *)
(* rollback qualifies its source, creates a RollbackAttempt, and inverts   *)
(* the attributable mutations in reverse order, one guarded request each.  *)
(***************************************************************************)
EXTENDS GovernedApply

CONSTANTS
    Rollbackers,       \* processes, each running rollback once
    MaxEpoch           \* bound: activations of the custody epoch

ASSUME RollbackConstants == MaxEpoch \in Nat \ {0}

VARIABLES
    epoch,     \* custody epoch published on the ApplyAttempt CRD, 0 if none
    born,      \* applier -> the epoch its ApplyAttempt was created under
    rb,        \* rollbacker -> the locals of its Run
    rattempt,  \* rollbacker -> its durable RollbackAttempt
    inverted   \* history: rollbacker -> artifacts its inverses changed

rbVars == <<epoch, born, rb, rattempt, inverted>>
allVars == <<vars, rbVars>>
-----------------------------------------------------------------------------
(* Runs of rollback.                                                       *)

\* status keeps, per source mutation, the result of its inverse.
RStatus == [state : {"", "IN_PROGRESS"} \cup Terminal,
            inverse : [Artifacts -> {"NONE", "SUCCEEDED", "FAILED", "OUTCOME_UNKNOWN"}]]
NoRStatus == [state |-> "", inverse |-> [o \in Artifacts |-> "NONE"]]

RPCs == {"idle", "epoch", "history", "confirm", "create", "begin",
         "prepare", "intent", "get", "workload", "refs", "dispatch", "absent",
         "reread", "result", "last", "done"}

Rollbacks ==
    [pc : RPCs, src : Appliers \cup {None}, source : Status,
     todo : SUBSET Artifacts,   \* eligible records not yet inverted
     status : RStatus, stale : BOOLEAN,
     held : Nat,                \* resourceVersion of the object in hand
     checked : Nat,             \* workload version the reference check saw
     outcome : {"", "SUCCEEDED", "FAILED", "OUTCOME_UNKNOWN"}]
Waiting == [pc |-> "idle", src |-> None, source |-> NoStatus, todo |-> {},
            status |-> NoRStatus, stale |-> FALSE, held |-> 0, checked |-> 0,
            outcome |-> ""]

RAt(b, pc) == rb[b].pc = pc
RBecome(b, r) == rb' = [rb EXCEPT ![b] = r]
RStop(r) == [Waiting EXCEPT !.pc = "done", !.src = r.src]
RGoto(r, pc) == [r EXCEPT !.pc = pc]

\* A request that changes nothing: it is answered with ok, or it fails.
Ask(b, pc, ok, failed) ==
    /\ RAt(b, pc)
    /\ \/ NoFault /\ RBecome(b, ok)
       \/ Fault /\ RBecome(b, failed)
    /\ UNCHANGED <<Cluster, run, attempt, History, epoch, born, rattempt, inverted>>

\* Reverse apply order: the workload binding first.
Latest(r) == CHOOSE o \in r.todo : \A q \in r.todo : applyClassFor(q) =< applyClassFor(o)
SourceRecord(r) == r.source.mutations[Latest(r)]
WasCreated(rec) == rec.before.uid = 0
Workload == "patched-manifest"

\* The head of the loop: the next inverse or the end.
RContinue(r) ==
    IF r.todo = {} THEN [r EXCEPT !.pc = "last", !.status.state = "APPLIED"]
    ELSE RGoto(r, "prepare")
-----------------------------------------------------------------------------
(* Qualification of the source.                                            *)

\* An operator names an attempt that exists.
ReadSource(b) ==
    \E a \in Appliers :
        LET r == [rb[b] EXCEPT !.src = a, !.source = attempt[a]]
        IN  /\ attempt[a].state # ""
            /\ Ask(b, "idle", RGoto(r, "epoch"), RStop(r))

\* An attempt without an epoch, of an older one, or in progress is refused.
CustodyEpochAndHardening(b) ==
    LET r == rb[b]
    IN  Ask(b, "epoch",
            IF epoch # 0 /\ born[r.src] = epoch /\ r.source.state # "IN_PROGRESS"
            THEN RGoto(r, "history") ELSE RStop(r),
            RStop(r))

Descendants(b, results) ==
    {o \in Artifacts : \E c \in Rollbackers :
        c # b /\ rb[c].src = rb[b].src /\ rattempt[c].inverse[o] \in results}

\* The records to invert, {} when the request is refused: a bare-Pod
\* replacement, an open inverse of unknown outcome, or nothing left.
Eligible(r, completed, unknown) ==
    LET open == Succeeded(r.source) \ completed
        pod == /\ IsPod(Workload)
               /\ r.source.mutations[Workload].result # "NONE"
               /\ ~WasCreated(r.source.mutations[Workload])
    IN  IF pod \/ open \cap unknown # {} THEN {}
        ELSE {o \in open : r.source.mutations[o].attributable # 0}

rollbackHistory(b) ==
    LET r == rb[b]
        todo == Eligible(r, Descendants(b, {"SUCCEEDED"}), Descendants(b, {"OUTCOME_UNKNOWN"}))
    IN  Ask(b, "history",
            IF todo = {} THEN RStop(r) ELSE [r EXCEPT !.pc = "confirm", !.todo = todo],
            RStop(r))

\* The operator confirms and the source is read again.
ConfirmAndReRead(b) ==
    LET r == rb[b]
    IN  Ask(b, "confirm",
            IF attempt[r.src] = r.source THEN RGoto(r, "create") ELSE RStop(r), RStop(r))
-----------------------------------------------------------------------------
(* Custody of the rollback.                                                *)

\* Persist st; like SaveStatus of an ApplyAttempt.
SaveRollbackStatus(b, st, ok, failed) ==
    /\ \/ /\ ~rb[b].stale /\ NoFault
          /\ rattempt' = [rattempt EXCEPT ![b] = st]
          /\ RBecome(b, ok)
       \/ /\ ~rb[b].stale /\ Fault
          /\ rattempt' = [rattempt EXCEPT ![b] = st]
          /\ RBecome(b, [failed EXCEPT !.stale = TRUE])
       \/ /\ \/ rb[b].stale /\ NoFault
             \/ Fault
          /\ UNCHANGED rattempt
          /\ RBecome(b, failed)
    /\ UNCHANGED <<Cluster, run, attempt, History, epoch, born, inverted>>

CreateRollback(b) == Ask(b, "create", RGoto(rb[b], "begin"), RStop(rb[b]))

BeginRollback(b) ==
    /\ RAt(b, "begin")
    /\ LET r == [rb[b] EXCEPT !.status.state = "IN_PROGRESS"]
       IN  SaveRollbackStatus(b, r.status, RContinue(r), RStop(r))

\* A refused preparation is recorded as FAILED, best effort; the attempt
\* stays IN_PROGRESS.
Refuse(r) == [r EXCEPT !.pc = "last", !.status.inverse[Latest(r)] = "FAILED"]

\* Mutant: the intent is kept in memory only.
PersistInverseLater(b) ==
    /\ RAt(b, "intent")
    /\ LET r == [rb[b] EXCEPT !.status.inverse[Latest(rb[b])] = "OUTCOME_UNKNOWN"]
       IN  NoFault /\ RBecome(b, RGoto(r, "get"))
    /\ UNCHANGED <<Cluster, run, attempt, History, epoch, born, rattempt, inverted>>

PersistInverse(b) ==
    /\ RAt(b, "intent")
    /\ LET r == [rb[b] EXCEPT !.status.inverse[Latest(rb[b])] = "OUTCOME_UNKNOWN"]
       IN  SaveRollbackStatus(b, r.status, RGoto(r, "get"), RStop(r))

\* The outcome of one inverse.  A failure that could not be saved, or that
\* could, ends the run; so does a success that could not be saved.
PersistInverseResult(b) ==
    /\ RAt(b, "result")
    /\ LET r == [rb[b] EXCEPT !.outcome = ""]
           o == Latest(r)
           out == rb[b].outcome
           recorded == [r.status EXCEPT !.inverse[o] = out]
           some == \E q \in Artifacts : recorded.inverse[q] = "SUCCEEDED"
           failed == [recorded EXCEPT !.state =
                         IF out = "OUTCOME_UNKNOWN" THEN "OUTCOME_UNKNOWN"
                         ELSE IF some THEN "PARTIALLY_APPLIED" ELSE "FAILED"]
           unknown == [r EXCEPT !.pc = "last", !.status = recorded,
                                !.status.state = "OUTCOME_UNKNOWN"]
       IN  IF out = "SUCCEEDED"
           THEN SaveRollbackStatus(b, recorded,
                   RContinue([r EXCEPT !.status = recorded, !.todo = @ \ {o}]), unknown)
           ELSE SaveRollbackStatus(b, failed, RStop(r), RStop(r))

PersistLastRollback(b) ==
    /\ RAt(b, "last")
    /\ SaveRollbackStatus(b, rb[b].status, RStop(rb[b]), RStop(rb[b]))
-----------------------------------------------------------------------------
(* One inverse.                                                            *)

\* rollbackGVR knows no Pods.
Supported(o) == ~IsPod(o)

\* Mutant: only the identity is compared.
UIDGuard(rec, obj) == WasCreated(rec) \/ obj.uid = rec.before.uid

\* recordUID and AttributableAfterRV against the object; a version that
\* matches has the content observed after the apply.
StrictGuard(rec, obj) ==
    /\ obj.rv = rec.attributable
    /\ WasCreated(rec) \/ obj.uid = rec.before.uid

\* Only a SeccompProfile is cluster-scoped: the server first prepares a
\* controlled client and asks for authorization.
ClusterScoped(o) == o = "spo-seccompprofile"

\* A missing client or a failed read is recorded, a denial is not.
prepareInverse(b) ==
    /\ RAt(b, "prepare")
    /\ LET r == rb[b]
           o == Latest(r)
       IN  \/ /\ NoFault
              /\ RBecome(b, IF Supported(o) /\ Present(o) /\ StrictGuard(SourceRecord(r), live[o])
                            THEN RGoto(r, "intent") ELSE Refuse(r))
           \/ Fault /\ RBecome(b, Refuse(r))
           \/ ClusterScoped(o) /\ Fault /\ RBecome(b, RStop(r))
    /\ UNCHANGED <<Cluster, run, attempt, History, epoch, born, rattempt, inverted>>

Outcome(r, out) ==
    [r EXCEPT !.pc = "result", !.outcome = out, !.held = 0, !.checked = 0]

\* executeInverse reads the object again under the same guard.
GetForInverse(b) ==
    LET r == rb[b]
        o == Latest(r)
        next == IF WasCreated(SourceRecord(r))
                THEN IF o = Workload THEN "dispatch" ELSE "workload"
                ELSE IF o = Workload THEN "refs" ELSE "dispatch"
    IN  Ask(b, "get",
            IF Present(o) /\ StrictGuard(SourceRecord(r), live[o])
            THEN [r EXCEPT !.pc = next, !.held = live[o].rv] ELSE Outcome(r, "FAILED"),
            Outcome(r, "FAILED"))

\* A binding the project rendered refers to its enforcement policies; the
\* selector of a generated NetworkPolicy always matches its workload.
References(obj, o) == o = "networkpolicy" \/ obj.content \in Digests

\* Mutant: the policy is deleted without looking at the workload.
ReferencesUnchecked(b) ==
    LET r == rb[b]
    IN  Ask(b, "workload",
            [r EXCEPT !.pc = "dispatch", !.checked = version[Workload]], Outcome(r, "FAILED"))

\* A policy is deleted only when the governed workload can be read and does
\* not refer to it.
targetReferencesPolicy(b) ==
    LET r == rb[b]
        o == Latest(r)
    IN  Ask(b, "workload",
            IF /\ Workload \in Artifacts /\ Present(Workload)
               /\ ~References(live[Workload], o)
            THEN [r EXCEPT !.pc = "dispatch", !.checked = version[Workload]]
            ELSE Outcome(r, "FAILED"),
            Outcome(r, "FAILED"))

\* Restoring a binding needs the profile it refers to installed, and never
\* combines PodLock with a seccomp profile (a record of this project does not).
verifyRestoredReferencesReady(b) ==
    LET r == rb[b]
        seccomp == "spo-seccompprofile" \in Artifacts /\ SourceRecord(r).before.content \in Digests
    IN  Ask(b, "refs",
            IF seccomp => live["spo-seccompprofile"].phase = "ready"
            THEN RGoto(r, "dispatch") ELSE Outcome(r, "FAILED"),
            Outcome(r, "FAILED"))

\* The inverse takes effect on o; the answer arrives or not.
InverseLanded(b, o, next) ==
    /\ \/ NoFault /\ RBecome(b, next)
       \/ Fault /\ RBecome(b, Outcome(rb[b], "OUTCOME_UNKNOWN"))
    /\ inverted' = [inverted EXCEPT ![b] = @ \cup {o}]
    /\ touched' = [a \in Appliers |-> touched[a] \ {o}]
    /\ UNCHANGED <<prop, run, attempt, late, epoch, born, rattempt>>

InverseRefused(b, out) ==
    /\ RBecome(b, Outcome(rb[b], out))
    /\ UNCHANGED <<Cluster, run, attempt, History, epoch, born, rattempt, inverted>>

\* Only the controlled content goes back; the rest of the object stays.
restoreControlledState(obj, before) == [obj EXCEPT !.content = before.content]

\* Update with the version just read: no retry on conflict.
UpdateInverse(b) ==
    /\ RAt(b, "dispatch")
    /\ LET r == rb[b]
           o == Latest(r)
           before == SourceRecord(r).before
           same == Present(o) /\ live[o].rv = r.held
       IN  /\ ~WasCreated(SourceRecord(r))
           /\ \/ /\ same /\ Store(o, restoreControlledState(live[o], before))
                 /\ InverseLanded(b, o, [r EXCEPT !.pc = "reread", !.held = version[o] + 1])
              \/ ~same /\ NoFault /\ InverseRefused(b, IF Present(o) THEN "FAILED" ELSE "OUTCOME_UNKNOWN")
              \/ Fault /\ InverseRefused(b, "OUTCOME_UNKNOWN")

\* Delete with UID and resourceVersion preconditions; finalizers may keep
\* the object for a while.
DeleteInverse(b) ==
    /\ RAt(b, "dispatch")
    /\ LET r == rb[b]
           o == Latest(r)
           same == Present(o) /\ live[o].rv = r.held
       IN  /\ WasCreated(SourceRecord(r))
           /\ \/ /\ same
                 /\ \/ live' = [live EXCEPT ![o] = Absent] /\ UNCHANGED version
                    \/ Store(o, [live[o] EXCEPT !.phase = "dying"])
                 /\ InverseLanded(b, o, [r EXCEPT !.pc = "absent", !.held = 0, !.checked = 0])
              \/ ~same /\ NoFault /\ InverseRefused(b, IF Present(o) THEN "FAILED" ELSE "OUTCOME_UNKNOWN")
              \/ Fault /\ InverseRefused(b, "OUTCOME_UNKNOWN")

\* Polling for absence: gone, or time is up.
ConfirmAbsent(b) ==
    LET r == rb[b]
    IN  Ask(b, "absent",
            Outcome(r, IF Present(Latest(r)) THEN "OUTCOME_UNKNOWN" ELSE "SUCCEEDED"),
            Outcome(r, "OUTCOME_UNKNOWN"))

\* The object is read back; a different version leaves the outcome unknown.
RereadInverse(b) ==
    LET r == rb[b]
        o == Latest(r)
    IN  Ask(b, "reread",
            Outcome(r, IF Present(o) /\ live[o].rv = r.held THEN "SUCCEEDED" ELSE "OUTCOME_UNKNOWN"),
            Outcome(r, "OUTCOME_UNKNOWN"))

DieInRollback(b) ==
    /\ rb[b].pc \notin {"idle", "done"}
    /\ Fault /\ RBecome(b, RStop(rb[b]))
    /\ UNCHANGED <<Cluster, run, attempt, History, epoch, born, rattempt, inverted>>
-----------------------------------------------------------------------------
\* custody-epoch activate publishes a fresh epoch after probing the CRD.
runCustodyEpochActivate ==
    /\ epoch < MaxEpoch
    /\ epoch' = epoch + 1
    /\ UNCHANGED <<vars, born, rb, rattempt, inverted>>

\* apply-proposal and everybody around it; a new ApplyAttempt copies the
\* current epoch.
ApplySide ==
    /\ Next
    /\ born' = [a \in Appliers |-> IF run[a].pc = "create" /\ run'[a].pc = "begin"
                                   THEN epoch ELSE born[a]]
    /\ UNCHANGED <<epoch, rb, rattempt, inverted>>

Qualify(b) == \/ ReadSource(b) \/ CustodyEpochAndHardening(b) \/ rollbackHistory(b)
              \/ ConfirmAndReRead(b)
RCustody(b) == \/ CreateRollback(b) \/ BeginRollback(b) \/ PersistInverse(b)
               \/ PersistInverseResult(b) \/ PersistLastRollback(b)
Invert(b) == \/ prepareInverse(b) \/ GetForInverse(b)
             \/ targetReferencesPolicy(b) \/ verifyRestoredReferencesReady(b)
             \/ UpdateInverse(b) \/ DeleteInverse(b)
             \/ ConfirmAbsent(b) \/ RereadInverse(b)

RInit ==
    /\ Init
    /\ epoch \in 0 .. 1
    /\ born = [a \in Appliers |-> 0]
    /\ rb = [b \in Rollbackers |-> Waiting]
    /\ rattempt = [b \in Rollbackers |-> NoRStatus]
    /\ inverted = [b \in Rollbackers |-> {}]

RNext == \/ ApplySide
         \/ runCustodyEpochActivate
         \/ \E b \in Rollbackers : Qualify(b) \/ RCustody(b) \/ Invert(b) \/ DieInRollback(b)

RSpec == RInit /\ [][RNext]_allVars
-----------------------------------------------------------------------------
(* Properties.                                                             *)

RTypeOK ==
    /\ TypeOK
    /\ epoch \in 0 .. MaxEpoch
    /\ born \in [Appliers -> 0 .. MaxEpoch]
    /\ rb \in [Rollbackers -> Rollbacks]
    /\ rattempt \in [Rollbackers -> RStatus]
    /\ inverted \in [Rollbackers -> SUBSET Artifacts]

\* ADR-0025, strict custody: an inverse only ever replaces the exact version
\* its source attempt left, holding the candidate that attempt applied; a
\* later apply, a controller's write or an operator's edit is never undone
\* by a rollback, however long it took between its two guarded reads and the
\* request.  In particular two operators never both invert one mutation,
\* although neither sees the other's RollbackAttempt when both read the
\* history first.
InvertsOnlyOwn ==
    [][\A b \in Rollbackers : \A o \in inverted'[b] \ inverted[b] :
          LET a == rb[b].src
          IN  /\ live[o].rv = attempt[a].mutations[o].attributable
              /\ live[o].content = Digest(run[a])]_allVars

\* What a RollbackAttempt says is true: every inverse that took effect has a
\* durable record, which is never FAILED; SUCCEEDED is only written for an
\* inverse that took effect; FAILED as a state means no change at all and
\* APPLIED that every recorded inverse succeeded.
RollbackTruthful ==
    RTypeOK /\ \A b \in Rollbackers :
        LET st == rattempt[b]
            succeeded == {o \in Artifacts : st.inverse[o] = "SUCCEEDED"}
        IN  /\ \A o \in inverted[b] : st.inverse[o] \in {"SUCCEEDED", "OUTCOME_UNKNOWN"}
            /\ succeeded \subseteq inverted[b]
            /\ st.state = "FAILED" => inverted[b] = {}
            /\ st.state = "PARTIALLY_APPLIED" => inverted[b] = succeeded /\ succeeded # {}
            /\ st.state = "APPLIED" => \A o \in Artifacts : st.inverse[o] \in {"NONE", "SUCCEEDED"}

\* ADR-0025, the order in which a policy goes.  It is not deleted while the
\* governed workload refers to it, unless the reference was written after the
\* rollback looked; and, across the composition, the binding its source
\* applied on top of it has been inverted before, by this rollback or another,
\* or was not attributable to the source, so that it was never eligible.
PoliciesGoLast ==
    [][\A b \in Rollbackers : \A o \in (inverted'[b] \ inverted[b]) \ {Workload} :
          LET src == attempt[rb[b].src]
          IN  /\ WasCreated(src.mutations[o]) /\ References(live[Workload], o)
                    => version[Workload] > rb[b].checked
              /\ Workload \in Succeeded(src) /\ src.mutations[Workload].attributable # 0
                    => \E c \in Rollbackers : rb[c].src = rb[b].src /\ Workload \in inverted[c]]_allVars
=============================================================================
