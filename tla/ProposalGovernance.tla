------------------------- MODULE ProposalGovernance -------------------------
(* The governance of one SecurityProfileProposal: generators that save it      *)
(* (internal/proposal/store.go Save), humans that review, approve and reject   *)
(* it through the command line or the Operations Center, and the seccomp       *)
(* verification that runs a twin and a control Pod and appends what it saw.    *)
(* The API server serialises writes by resourceVersion; every read and every   *)
(* write is one step, so the steps of two calls interleave.  A digest is       *)
(* injective: it is represented by the content it covers.  Actors' names,      *)
(* reasons and time stamps are left out, except that a decision of the command *)
(* line records no actor.                                                      *)
EXTENDS Naturals, FiniteSets

CONSTANTS
  Procs,          \* concurrent callers: generators, reviewers, verifiers
  Candidates,     \* contents a candidate digest covers
  Contexts,       \* provenance and qualification of a candidate-v2 proposal
  MaxVerifications, \* the store keeps 256 facts
  MaxOps,         \* bound: calls begun
  MaxEdits,       \* bound: deletions, manual edits and profile drifts
  MaxFaults       \* bound: failing verifier Pod calls

ASSUME BoundsAssumption ==
  MaxVerifications \in Nat /\ MaxOps \in Nat /\ MaxEdits \in Nat /\ MaxFaults \in Nat

VARIABLES
  obj,            \* the SecurityProfileProposal, or Absent
  pr,             \* what each caller is doing
  rev,            \* the API server's revision: fresh UIDs and resourceVersions
  prof,           \* the SPO SeccompProfile on the node
  pods,           \* verifier Pods of each caller
  ops, edits, faults,
  last,           \* history: the latest successful approval of this object
  endorsed,       \* history: what humans looked at and then approved
  answer          \* history: the verification handler's last refusal

vars == <<obj, pr, rev, prof, pods, ops, edits, faults, last, endorsed, answer>>

None == "none"
V1 == "candidate-v1"
V2 == "candidate-v2"

\* Spec: a strict v1 or v2 representation; `hybrid` mixes the fields of both.
\* Every v1 spec here carries an SPO SeccompProfile, every v2 spec a subject.
AllSpecs == [version : {V1}, cand : Candidates, ctx : {None}, hybrid : BOOLEAN]
         \cup [version : {V2}, cand : Candidates, ctx : Contexts, hybrid : BOOLEAN]

ValidateProposalSpec(s) == ~s.hybrid
SPOSeccompProfile(s) == s.version = V1 \/ s.hybrid
Subject(s) == s.version = V2 \/ s.hybrid

CandidateDigestV1(s) == <<V1, s.cand>>
CandidateDigestV2(s) == <<V2, s.cand>>
CandidateDigest(s) == IF s.version = V2 THEN CandidateDigestV2(s) ELSE CandidateDigestV1(s)
ReviewContextDigest(s) == s.ctx
NoDigest == <<None, None>>

Digests == {V1, V2} \X Candidates

ApprovalSnapshots == [uid : 0..rev, digest : Digests, ctx : Contexts \cup {None}]

Facts == [id : 0..MaxOps, uid : 0..rev, digest : Digests,
          result : {"VERIFIED", "NOT_VERIFIED", "UNKNOWN"}, ranOn : {"approved", "drifted", None}]

NoSpec == [version |-> None, cand |-> None, ctx |-> None, hybrid |-> FALSE]
NoSnap == [uid |-> 0, digest |-> NoDigest, ctx |-> None]
NoRun == [id |-> 0, result |-> "UNKNOWN", twin |-> None, control |-> None, failed |-> FALSE, ranOn |-> None,
          known |-> {}, uncertain |-> {}]

NewStatus(state, snap) ==
  [state |-> state, digest |-> NoDigest, ctx |-> None, actor |-> "", snap |-> snap, facts |-> {}]

Absent == [uid |-> 0, rv |-> 0, spec |-> NoSpec, status |-> NewStatus("", NoSnap)]
Exists == obj.uid # 0

\* statusFromObject: a missing or blank status means Draft.
statusFromObject(o) == IF o.status.state = "" THEN [o.status EXCEPT !.state = "Draft"] ELSE o.status

validateApprovedCandidateV1(s, t) ==
  /\ t.state = "Approved"
  /\ t.digest = CandidateDigest(s)

validateApprovedCandidateV2(s, t) ==
  /\ t.state = "Approved"
  /\ ValidateProposalSpec(s)
  /\ t.digest = CandidateDigest(s)
  /\ t.ctx = ReviewContextDigest(s)

ValidateApprovedCandidate(s, t) ==
  IF s.version = V2 THEN validateApprovedCandidateV2(s, t) ELSE validateApprovedCandidateV1(s, t)

Idle == [pc |-> "idle", spec |-> NoSpec, seen |-> Absent, exp |-> 0, op |-> None, got |-> Absent, run |-> NoRun]

Begin(p, rec) ==
  /\ pr[p].pc = "idle"
  /\ ops < MaxOps
  /\ ops' = ops + 1
  /\ pr' = [pr EXCEPT ![p] = rec]

Goto(p, l) == pr' = [pr EXCEPT ![p].pc = l]
Return(p) == pr' = [pr EXCEPT ![p] = Idle]
ReadTo(p, l) == pr' = [pr EXCEPT ![p].got = obj, ![p].pc = l]

\* A write the API server accepts: the object is the version the caller read.
UpdateAllowed(p) == Exists /\ obj.rv = pr[p].got.rv

Write(spec, status) ==
  /\ rev' = rev + 1
  /\ obj' = [obj EXCEPT !.rv = rev + 1, !.spec = spec, !.status = status]

\* setStatus: UpdateStatus of the object the caller holds.
setStatus(status) == Write(obj.spec, status)

-----------------------------------------------------------------------------
(* Save                                                                       *)

SaveBegin(p) ==
  \E s \in AllSpecs :
    /\ Begin(p, IF ValidateProposalSpec(s) THEN [Idle EXCEPT !.pc = "saveGet", !.spec = s] ELSE Idle)
    /\ UNCHANGED <<obj, rev, prof, pods, edits, faults, last, endorsed, answer>>

SaveGet(p) ==
  /\ pr[p].pc = "saveGet"
  /\ ReadTo(p, IF Exists THEN "saveUpdate" ELSE "saveCreate")
  /\ UNCHANGED <<obj, rev, prof, pods, ops, edits, faults, last, endorsed, answer>>

SaveCreate(p) ==
  /\ pr[p].pc = "saveCreate"
  /\ IF Exists
     THEN Goto(p, "saveConverge") /\ UNCHANGED <<obj, rev, last>>
     ELSE LET o == [uid |-> rev + 1, rv |-> rev + 1, spec |-> pr[p].spec, status |-> NewStatus("", NoSnap)]
          IN /\ obj' = o
             /\ rev' = rev + 1
             /\ last' = NoSnap
             /\ pr' = [pr EXCEPT ![p].got = o, ![p].pc = "saveDraft"]
  /\ UNCHANGED <<prof, pods, ops, edits, faults, endorsed, answer>>

\* The status subresource needs a second write after Create; when somebody
\* wrote in between, Save reports an error and leaves the status as it is.
SaveDraft(p) ==
  /\ pr[p].pc = "saveDraft"
  /\ IF UpdateAllowed(p) THEN setStatus(NewStatus("Draft", NoSnap)) ELSE UNCHANGED <<obj, rev>>
  /\ Return(p)
  /\ UNCHANGED <<prof, pods, ops, edits, faults, last, endorsed, answer>>

\* Mutant: an overwrite starts the approval again.
SaveUpdateResets(p) ==
  /\ pr[p].pc = "saveUpdate"
  /\ \/ UpdateAllowed(p) /\ Write(pr[p].spec, NewStatus("Draft", pr[p].got.status.snap)) /\ Return(p)
     \/ ~Exists /\ Return(p) /\ UNCHANGED <<obj, rev>>
     \/ Exists /\ ~UpdateAllowed(p) /\ Goto(p, "saveConverge") /\ UNCHANGED <<obj, rev>>
  /\ UNCHANGED <<prof, pods, ops, edits, faults, last, endorsed, answer>>

\* An update carries the status it read; NotFound is an error, Conflict a race.
SaveUpdate(p) ==
  /\ pr[p].pc = "saveUpdate"
  /\ \/ UpdateAllowed(p) /\ Write(pr[p].spec, pr[p].got.status) /\ Return(p)
     \/ ~Exists /\ Return(p) /\ UNCHANGED <<obj, rev>>
     \/ Exists /\ ~UpdateAllowed(p) /\ Goto(p, "saveConverge") /\ UNCHANGED <<obj, rev>>
  /\ UNCHANGED <<prof, pods, ops, edits, faults, last, endorsed, answer>>

\* A fresh read decides whether the race ended with the wanted spec; either
\* answer ends the call and neither writes.
convergeAfterProposalWriteRace(p) ==
  /\ pr[p].pc = "saveConverge"
  /\ Return(p)
  /\ UNCHANGED <<obj, rev, prof, pods, ops, edits, faults, last, endorsed, answer>>

-----------------------------------------------------------------------------
(* Review, approve, reject                                                    *)

\* A human reads the proposal, in `review` or in the browser, and then issues
\* one decision: through the command line, with the digest that was shown, or
\* through the Operations Center, with the resourceVersion too.
DecisionBegin(p) ==
  \E op \in {"review", "approve", "reject"}, web \in BOOLEAN :
    /\ Exists
    /\ ValidateProposalSpec(obj.spec)
    /\ Begin(p, [Idle EXCEPT !.pc = IF web THEN "govCheck" ELSE "govGet", !.op = op,
                             !.seen = obj, !.exp = IF web THEN obj.rv ELSE 0])
    /\ UNCHANGED <<obj, rev, prof, pods, edits, faults, last, endorsed, answer>>

\* handleGovernanceProposal reads spec and status and compares both versions
\* with the one the browser sent before it calls the store.
handleGovernanceProposal(p) ==
  /\ pr[p].pc = "govCheck"
  /\ IF Exists /\ obj.rv = pr[p].exp /\ ValidateProposalSpec(obj.spec) THEN Goto(p, "govGet") ELSE Return(p)
  /\ UNCHANGED <<obj, rev, prof, pods, ops, edits, faults, last, endorsed, answer>>

\* Mutant: the digest the reviewer asserted is not compared.
ApproveUnseen(p) == (obj.spec.version = V2) => ValidateProposalSpec(obj.spec)

\* The Get of MarkReviewedByVersion and of SetApprovalStateByVersion, with the
\* early returns that follow it; the write comes in a later step.
approvable(p) ==
  /\ (obj.spec.version = V2) => ValidateProposalSpec(obj.spec)
  /\ CandidateDigest(pr[p].seen.spec) = CandidateDigest(obj.spec)

GovernanceGet(p) ==
  /\ pr[p].pc = "govGet"
  /\ IF /\ Exists
        /\ pr[p].exp # 0 => obj.rv = pr[p].exp
        /\ pr[p].op = "review" => statusFromObject(obj).state = "Draft"
        /\ pr[p].op = "approve" => approvable(p)
     THEN ReadTo(p, "govPut")
     ELSE Return(p)
  /\ UNCHANGED <<obj, rev, prof, pods, ops, edits, faults, last, endorsed, answer>>

actorOf(p) == IF pr[p].exp # 0 THEN "user" ELSE ""

\* Approval binds the candidate digest and, for v2, the review context, both
\* computed from the object that was read; it starts a fresh status.
approvedStatus(p) ==
  LET o == pr[p].got
      snap == [uid |-> o.uid, digest |-> CandidateDigest(o.spec), ctx |-> ReviewContextDigest(o.spec)]
  IN [NewStatus("Approved", snap) EXCEPT !.digest = snap.digest, !.ctx = snap.ctx, !.actor = actorOf(p)]

\* Rejection clears the active digests and keeps the last approval snapshot.
rejectedStatus(p) == [NewStatus("Rejected", pr[p].got.status.snap) EXCEPT !.actor = pr[p].got.status.actor]
reviewedStatus(p) == [NewStatus("Reviewed", NoSnap) EXCEPT !.actor = pr[p].got.status.actor]

GovernancePut(p) ==
  /\ pr[p].pc = "govPut"
  /\ \/ /\ UpdateAllowed(p)
        /\ setStatus(CASE pr[p].op = "review" -> reviewedStatus(p)
                       [] pr[p].op = "approve" -> approvedStatus(p)
                       [] pr[p].op = "reject" -> rejectedStatus(p))
        /\ last' = IF pr[p].op = "approve" THEN approvedStatus(p).snap ELSE last
        /\ endorsed' = IF pr[p].op = "approve"
                       THEN endorsed \cup {[digest |-> CandidateDigest(pr[p].seen.spec),
                                            ctx |-> ReviewContextDigest(pr[p].seen.spec), actor |-> actorOf(p)]}
                       ELSE endorsed
        /\ Return(p)
     \/ \* RetryOnConflict: read again, or give up after the last try.
        /\ Exists /\ ~UpdateAllowed(p)
        /\ Goto(p, "govGet") \/ Return(p)
        /\ UNCHANGED <<obj, rev, last, endorsed>>
     \/ ~Exists /\ Return(p) /\ UNCHANGED <<obj, rev, last, endorsed>>
  /\ UNCHANGED <<prof, pods, ops, edits, faults, answer>>

-----------------------------------------------------------------------------
(* Seccomp behavioural verification                                           *)

\* readExactSPOProfile: the live profile is the approved artifact, materialised.
readExactSPOProfile == prof = "approved"

\* The Pod the request names: gone or replaced, not declaring the profile, not
\* ready or on another image, or running as it should.
Targets == {"gone", "notLocalhost", "notReady", "otherImage", "eligible"}
validateTargetPod(t) == t \notin {"notLocalhost", "notReady", "otherImage"}

\* resolveTargetWorkload needs the subject only a candidate-v2 spec carries.
resolveTargetWorkload(s, replica) == Subject(s) /\ replica

\* The refusals of handleSeccompVerification in the order of the code, for a
\* request whose resourceVersion is fresh or not, for a target Pod that is or
\* is not a replica of the workload.
verificationAnswer(fresh, target, replica) ==
  IF ~Exists THEN "NOT_FOUND"
  ELSE IF ~ValidateProposalSpec(obj.spec) THEN "MALFORMED_OBJECT"
  ELSE IF ~fresh THEN "CONFLICT"
  ELSE IF ~ValidateApprovedCandidate(obj.spec, statusFromObject(obj)) THEN "APPROVAL_REQUIRED"
  ELSE IF ~SPOSeccompProfile(obj.spec) THEN "UNSUPPORTED_BACKEND"
  ELSE IF target = "gone" THEN "TARGET_DRIFT"
  ELSE IF ~validateTargetPod(target) \/ ~replica THEN "TARGET_NOT_ELIGIBLE"
  ELSE IF ~resolveTargetWorkload(obj.spec, replica) THEN "REPLICA_REFUSED"
  ELSE IF ~readExactSPOProfile THEN "PROFILE_NOT_MATERIALIZED"
  ELSE "ACCEPTED"

handleSeccompVerification(p) ==
  \E fresh, replica \in BOOLEAN, target \in Targets :
    /\ Begin(p, Idle)
    /\ LET a == verificationAnswer(fresh, target, replica)
       IN answer' = IF a \in {"REPLICA_REFUSED", "ACCEPTED"} THEN a ELSE "REFUSED"
    /\ UNCHANGED <<obj, rev, prof, pods, edits, faults, last, endorsed>>

Exits == {"EPERM", "Success", "Inconclusive"}

\* A caller of Run and AppendSeccompVerification: it holds the approved
\* candidate, the Proposal's UID and resourceVersion, and the exact profile.
ExperimentBegin(p) ==
  /\ Exists /\ SPOSeccompProfile(obj.spec)
  /\ ValidateProposalSpec(obj.spec)
  /\ ValidateApprovedCandidate(obj.spec, statusFromObject(obj))
  /\ readExactSPOProfile
  /\ Begin(p, [Idle EXCEPT !.pc = "createTwin", !.got = obj,
                           !.run = [NoRun EXCEPT !.id = ops]])
  /\ pods' = [pods EXCEPT ![p] = {}]
  /\ UNCHANGED <<obj, rev, prof, edits, faults, last, endorsed, answer>>

\* Create answers with a UID; a failing call may have created the Pod all the
\* same, and then its UID stays unknown to the caller.
createPod(p, role, next) ==
  \/ /\ pods' = [pods EXCEPT ![p] = @ \cup {role}]
     /\ pr' = [pr EXCEPT ![p].run.known = @ \cup {role}, ![p].pc = next,
                         ![p].run.ranOn = IF role = "twin" THEN prof ELSE @]
     /\ UNCHANGED faults
  \/ /\ faults < MaxFaults /\ faults' = faults + 1
     /\ \E lost \in {{}, {role}} : pods' = [pods EXCEPT ![p] = @ \cup lost]
     /\ pr' = [pr EXCEPT ![p].run.failed = TRUE, ![p].run.uncertain = {role}, ![p].pc = "cleanup"]

CreateTwin(p) ==
  /\ pr[p].pc = "createTwin"
  /\ createPod(p, "twin", "createControl")
  /\ UNCHANGED <<obj, rev, prof, ops, edits, last, endorsed, answer>>

CreateControl(p) ==
  /\ pr[p].pc = "createControl"
  /\ createPod(p, "control", "validatePair")
  /\ UNCHANGED <<obj, rev, prof, ops, edits, last, endorsed, answer>>

\* The admitted Pods are compared again: admission may have changed them.
ValidatePair(p) ==
  /\ pr[p].pc = "validatePair"
  /\ \E ok \in BOOLEAN : pr' = [pr EXCEPT ![p].run.failed = ~ok, ![p].pc = IF ok THEN "waitPods" ELSE "cleanup"]
  /\ UNCHANGED <<obj, rev, prof, pods, ops, edits, faults, last, endorsed, answer>>

probeResult(twin, control) ==
  CASE twin = "EPERM" /\ control = "Success" -> "VERIFIED"
    [] twin = "Success" /\ control = "Success" -> "NOT_VERIFIED"
    [] control # "Success" \/ twin = "Inconclusive" -> "UNKNOWN"

\* Both Pods terminate, or a read fails, the Pod is replaced, or time is up.
WaitPods(p) ==
  /\ pr[p].pc = "waitPods"
  /\ \/ \E t \in Exits, c \in {"Success", "Inconclusive"} : pr' = [pr EXCEPT ![p].run.result = probeResult(t, c), ![p].run.twin = t,
                                                ![p].run.control = c, ![p].pc = "cleanup"]
                            /\ UNCHANGED faults
     \/ /\ faults < MaxFaults /\ faults' = faults + 1
        /\ pr' = [pr EXCEPT ![p].run.failed = TRUE, ![p].pc = "cleanup"]
  /\ UNCHANGED <<obj, rev, prof, pods, ops, edits, last, endorsed, answer>>

\* Mutant: the clean-up covers the Pods only when both were created.
CleanupPair(p) == IF Cardinality(pr[p].run.known) = 2 THEN pr[p].run.known ELSE {}
cleanedUp(p) == pr[p].run.known

\* deletePodAndWait for every Pod whose UID is known; a deletion that cannot be
\* confirmed turns the result into UNKNOWN.
Cleanup(p) ==
  /\ pr[p].pc = "cleanup"
  /\ \E stuck \in SUBSET cleanedUp(p) :
       /\ faults + Cardinality(stuck) <= MaxFaults
       /\ faults' = faults + Cardinality(stuck)
       /\ pods' = [pods EXCEPT ![p] = @ \ (cleanedUp(p) \ stuck)]
       /\ pr' = [pr EXCEPT ![p].pc = "revalidate", ![p].run.failed = IF stuck # {} THEN TRUE ELSE @, ![p].run.uncertain = @ \cup stuck,
                           ![p].run.result = IF stuck # {} THEN "UNKNOWN" ELSE @]
  /\ UNCHANGED <<obj, rev, prof, ops, edits, last, endorsed, answer>>

\* Mutant: the profile is not read again after the experiment.
StillBoundSkippingProfile(p) == Exists /\ obj.rv = pr[p].got.rv

\* Every input is read again after the run: Proposal, approval and profile.
stillBound(p) == Exists /\ obj.rv = pr[p].got.rv /\ readExactSPOProfile

Revalidate(p) ==
  /\ pr[p].pc = "revalidate"
  /\ pr' = [pr EXCEPT ![p].pc = "appendGet",
                      ![p].run.result = IF pr[p].run.failed \/ ~stillBound(p) THEN "UNKNOWN" ELSE @]
  /\ UNCHANGED <<obj, rev, prof, pods, ops, edits, faults, last, endorsed, answer>>

\* A conclusive fact carries the exits it was drawn from.
ValidateForPersistence(r) ==
  /\ r.result = "VERIFIED" => r.twin = "EPERM" /\ r.control = "Success"
  /\ r.result = "NOT_VERIFIED" => r.twin = "Success" /\ r.control = "Success"

\* AppendSeccompVerification: read, compare version, approval and identity, and
\* append one fact, without a retry.
AppendGet(p) ==
  /\ pr[p].pc = "appendGet"
  /\ IF /\ Exists /\ ValidateForPersistence(pr[p].run)
        /\ obj.rv = pr[p].got.rv
        /\ \A f \in obj.status.facts : f.id # pr[p].run.id
        /\ Cardinality(obj.status.facts) < MaxVerifications
     THEN Goto(p, "appendPut")
     ELSE Return(p)
  /\ UNCHANGED <<obj, rev, prof, pods, ops, edits, faults, last, endorsed, answer>>

AppendPut(p) ==
  LET f == [id |-> pr[p].run.id, uid |-> pr[p].got.uid, digest |-> pr[p].got.status.digest,
            result |-> pr[p].run.result, ranOn |-> pr[p].run.ranOn]
  IN /\ pr[p].pc = "appendPut"
     /\ IF UpdateAllowed(p)
        THEN setStatus([pr[p].got.status EXCEPT !.facts = @ \cup {f}])
        ELSE UNCHANGED <<obj, rev>>
     /\ Return(p)
     /\ UNCHANGED <<prof, pods, ops, edits, faults, last, endorsed, answer>>

-----------------------------------------------------------------------------
(* The rest of the cluster                                                    *)

\* External: somebody deletes the Proposal, edits its spec by hand, or changes
\* the SeccompProfile the operator materialises.
Disturb ==
  /\ edits < MaxEdits
  /\ edits' = edits + 1
  /\ \/ Exists /\ obj' = Absent /\ last' = NoSnap /\ UNCHANGED <<rev, prof>>
     \/ Exists /\ (\E s \in AllSpecs : Write(s, obj.status)) /\ UNCHANGED <<prof, last>>
     \/ prof = "approved" /\ prof' = "drifted" /\ UNCHANGED <<obj, rev, last>>
  /\ UNCHANGED <<pr, pods, ops, faults, endorsed, answer>>

Init ==
  /\ obj = Absent
  /\ pr = [p \in Procs |-> Idle]
  /\ rev = 0
  /\ prof = "approved"
  /\ pods = [p \in Procs |-> {}]
  /\ ops = 0 /\ edits = 0 /\ faults = 0
  /\ last = NoSnap
  /\ endorsed = {}
  /\ answer = None

Next ==
  \/ \E p \in Procs :
       \/ SaveBegin(p) \/ SaveGet(p) \/ SaveCreate(p) \/ SaveDraft(p) \/ SaveUpdate(p)
       \/ convergeAfterProposalWriteRace(p)
       \/ DecisionBegin(p) \/ handleGovernanceProposal(p) \/ GovernanceGet(p) \/ GovernancePut(p)
       \/ handleSeccompVerification(p)
       \/ ExperimentBegin(p) \/ CreateTwin(p) \/ CreateControl(p) \/ ValidatePair(p) \/ WaitPods(p) \/ Cleanup(p)
       \/ Revalidate(p) \/ AppendGet(p) \/ AppendPut(p)
  \/ Disturb

Spec == Init /\ [][Next]_vars

-----------------------------------------------------------------------------
(* Properties                                                                 *)

\* The Proposal, its approval and its verification history keep their shape; a
\* snapshot always names a candidate, and the history stays within its bound.
TypeOK ==
  /\ Exists => /\ obj.rv >= obj.uid /\ obj.rv <= rev
               /\ obj.spec \in AllSpecs
               /\ obj.status \in [state : {"", "Draft", "Reviewed", "Approved", "Rejected"},
                                  digest : Digests \cup {NoDigest}, ctx : Contexts \cup {None},
                                  actor : {"", "user"}, snap : ApprovalSnapshots \cup {NoSnap}, facts : SUBSET obj.status.facts]
               /\ obj.status.facts \subseteq Facts
               /\ Cardinality(obj.status.facts) <= MaxVerifications
  /\ prof \in {"approved", "drifted"}
  /\ pods \in [Procs -> SUBSET {"twin", "control"}]

\* What the apply gate accepts was approved by a human who had seen exactly
\* that candidate, however saves, edits, deletions and decisions interleave;
\* an approval given in the Operations Center also saw that review context
\* (ValidateApprovedCandidate after SetApprovalStateByVersion).
GateAcceptsOnlySeen ==
  (Exists /\ ValidateApprovedCandidate(obj.spec, statusFromObject(obj))) =>
    \E e \in endorsed : /\ e.digest = CandidateDigest(obj.spec)
                        /\ e.actor = obj.status.actor
                        /\ e.actor = "user" => e.ctx = obj.status.ctx

\* A decision is never undone by a review, by the Draft status of a Save or by
\* a stale status write: only another decision replaces it (setStatus under
\* resourceVersion, MarkReviewed's Draft test).  And lastApprovalSnapshot is
\* always the latest successful approval of this very object: rejection,
\* overwriting Save and verification keep it (types.go, Status).
DecisionsAreKept ==
  /\ [](Exists => obj.status.snap = last)
  /\ [][(Exists /\ obj'.uid = obj.uid /\ obj.status.state \in {"Approved", "Rejected"})
           => obj'.status.state \in {"Approved", "Rejected"}]_vars

\* Every verification fact in the status belongs to the approval beside it: the
\* same Proposal UID and the same approved candidate digest, under decisions
\* that race with a running experiment (AppendSeccompVerification); a
\* conclusive one comes from a twin Pod that ran under the approved profile,
\* although the profile may drift meanwhile; and there are never more of them
\* than the status has room for (TypeOK).
FactsBelongToApproval ==
  TypeOK /\ (Exists => \A f \in obj.status.facts :
                          /\ obj.status.state = "Approved" /\ f.uid = obj.uid /\ f.digest = obj.status.digest
                          /\ f.result # "UNKNOWN" => f.ranOn = "approved")

\* An experiment that ended leaves a verifier Pod behind only when the creation
\* or deletion of that very Pod failed, and then its result is UNKNOWN (Run's deferred clean-up).
LeftoverPodsAreUnknown ==
  \A p \in Procs : (pr[p].pc \in {"revalidate", "appendGet", "appendPut"} /\ pods[p] # {}) =>
                     pods[p] \subseteq pr[p].run.uncertain /\ pr[p].run.result = "UNKNOWN"

\* The verification of the currently approved candidate is not refused for a
\* running replica of its own workload: "A probe/API timeout still produces a
\* durable UNKNOWN when proposal authority is readable and unchanged"
\* (seccomp_verification_api.go).
ReplicaIsVerifiable == answer # "REPLICA_REFUSED"
=============================================================================
