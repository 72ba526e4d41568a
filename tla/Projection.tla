----------------------------- MODULE Projection -----------------------------
(***************************************************************************)
(* What the Operations Center shows of one workload: the discovery of its  *)
(* Pods (internal/workload/discovery.go), the association of proposals     *)
(* with it (internal/association) and the sections of the security         *)
(* projection (internal/projection/projection.go), as operators on what    *)
(* the reads returned.  Workbench.tla makes the reads, one request at a    *)
(* time, against a cluster that changes in between.                        *)
(*                                                                         *)
(* A Pod is a record [uid, image, owner]: its UID, the digest of its image *)
(* (0: no immutable digest is known) and the UID in its controlling owner  *)
(* reference.  All Pods name the same owner object, the selected workload. *)
(***************************************************************************)
EXTENDS Integers, FiniteSets, FiniteSetsExt

\* A Pod name under which there is no Pod.
Gone == [uid |-> 0, image |-> 0, owner |-> 0]

Live(pods) == {p \in DOMAIN pods : pods[p] # Gone}

\* The states a section or an observation of an optional backend can have.
\* PERMISSION_DENIED stands for the failures that no code tells apart here.
ReadFailures == {"NOT_FOUND", "PERMISSION_DENIED"}
States == {"AVAILABLE", "NOT_AVAILABLE", "EMPTY", "UNKNOWN"} \cup ReadFailures

(***************************************************************************)
(* Discovery.                                                              *)
(***************************************************************************)
\* The workload UID the listed Pods belong to, or 0.  The first Pod whose
\* owner is looked up decides for all that name the same owner: the cache is
\* keyed by group, kind and name, not by the UID of the reference.  The list
\* is sorted by name.
resolveOwner(pods, current) ==
    IF Live(pods) # {} /\ pods[Min(Live(pods))].owner = current THEN current ELSE 0

\* The Pods whose container is a governed target.
targetPods(pods, uid) == IF uid = 0 THEN {} ELSE Live(pods)

(***************************************************************************)
(* Sections.                                                               *)
(***************************************************************************)
sectionFromError(failure) == failure

\* The declarations, read from some of the Pods that carry the target.
declaredFromPods(relevant, read) ==
    IF relevant = {} THEN "NOT_FOUND" ELSE IF read = relevant THEN "AVAILABLE" ELSE "UNKNOWN"

\* NetworkPolicies: EMPTY until one selects a Pod that was read.
materializedNetworkPolicies(selects) == IF selects THEN "AVAILABLE" ELSE "EMPTY"

\* One optional backend over several Pods; "NONE" before the first of them.
summarizeOptional(summary, state) ==
    IF summary \in {"NONE", state} THEN state ELSE "UNKNOWN"

\* An object of an optional backend makes an empty section available.
addOptionalMaterialized(section, lock, profile) ==
    IF section = "EMPTY" /\ "AVAILABLE" \in {lock, profile} THEN "AVAILABLE" ELSE section

(***************************************************************************)
(* Proposals.  A record says whether the object can be interpreted,        *)
(* whether its target binding is the selected target, the digest of its    *)
(* candidate and the one its approval names (0: none), and the Pod,        *)
(* workload and digest of a recorded twin-Pod verification (Pod 0: none).  *)
(***************************************************************************)
AssociateProposal(q) == q.readable /\ q.bound

ValidateApprovedCandidate(q) == q.approved # 0 /\ q.approved = q.digest

\* Mutant for ProjectionNotOverstated: excluded proposals do not count.
AttributedOnly(listed) ==
    IF {q \in listed : AssociateProposal(q)} = {} THEN "EMPTY" ELSE "AVAILABLE"

\* Attributed proposals and excluded ones decide the governance section.
governanceProjection(listed) ==
    LET shown == {q \in listed : AssociateProposal(q)}
    IN  IF listed = {} THEN "EMPTY" ELSE IF shown = listed THEN "AVAILABLE" ELSE "UNKNOWN"

\* The approved digest and the Pod of the fact are the current ones: the fact
\* is reported WITHIN_RECORDED_VALIDITY.  The validity period has not passed.
WithinRecordedValidity(q, uids) ==
    /\ ValidateApprovedCandidate(q)
    /\ q.approved = q.fact.digest
    /\ q.fact.pod \in uids

\* The facts about the selected workload that are reported as valid.
behavioralVerificationProjection(uids, uid, listed) ==
    {q \in listed : /\ AssociateProposal(q)
                    /\ uid # 0 /\ q.fact.wl = uid
                    /\ WithinRecordedValidity(q, uids)}
=============================================================================
