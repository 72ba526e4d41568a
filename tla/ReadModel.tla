------------------------------ MODULE ReadModel ------------------------------
(***************************************************************************)
(* The collections the Operations Center serves page by page               *)
(* (workbench_read_model.go) and the lineage of a workload: which          *)
(* proposals stem from observations of it, and which attempts from a       *)
(* proposal (workbench_lineage.go), as operators on what was read.         *)
(*                                                                         *)
(* Objects have a number for a name, id, and are listed in its order.  An  *)
(* observation is a record [id, wl, image]; a proposal also says from      *)
(* which observations it was derived (from); an attempt names the uid of   *)
(* the proposal it applies, and a rollback also that of its source.        *)
(***************************************************************************)
EXTENDS Projection

CONSTANT PageLimit      \* workbenchReadModelLimit, and Limit of a list call

\* A page of a list, and what remains: the API server continues in the state
\* of the objects (rv) that the first page was read from.
page(rv, after) ==
    {x \in rv : x.id > after /\ Cardinality({y \in rv : after < y.id /\ y.id < x.id}) < PageLimit}
lastOf(objects, after) == Max({x.id : x \in objects} \cup {after})
GetContinue(rv, after) == {x \in rv : x.id > lastOf(page(rv, after), after)} # {}

(***************************************************************************)
(* Continuations handed to clients: a position in a list, sealed with the  *)
(* scope it is for.  seen is a history variable: what the client has been  *)
(* shown with the pages so far.                                            *)
(***************************************************************************)
NoToken == [kind |-> "none", scope |-> <<>>, after |-> 0, rv |-> {}, seen |-> {}]

\* The environment headers and the selector.
collectionContinuationScope(q) == <<q.header, q.want.wl, q.want.image>>

sealCollectionContinuation(kind, scope, rv, after, seen) ==
    [kind |-> kind, scope |-> scope, rv |-> rv, after |-> lastOf(page(rv, after), after),
     seen |-> seen]

\* Mutant for PagesFollow: any continuation of the server is accepted.
AnyContinuation(token, scope) == TRUE

openCollectionContinuation(token, scope) == token.scope = scope

\* A selector names a workload by name and UID.
parseReadModelSelector(t) == t.wl # 0

(***************************************************************************)
(* What a collection shows for a selector t.                               *)
(***************************************************************************)
observationProjection(o, rec) == [id |-> o, wl |-> rec.wl, image |-> rec.image]

selectorMatches(x, t) == x.wl = t.wl /\ t.image \in {0, x.image}

\* The subject of a candidate names kind, name, container and image, and no
\* workload UID.
proposalMatches(x, t) == x.bound /\ t.image \in {0, x.image}

\* An object that is not a valid proposal is excluded and counted.
proposalProjection(x) == x.readable

shownOf(kind, objects, t) ==
    {x \in objects : IF kind = "observations" THEN selectorMatches(x, t)
                     ELSE proposalProjection(x) /\ proposalMatches(x, t)}

(***************************************************************************)
(* Lineage.                                                                *)
(***************************************************************************)
sameWorkloadIdentity(a, b) == a = b

\* Mutant for LineageExact: the first observation stands for all.
ClassifiedByFirst(x, known, wl) ==
    IF x.from = {} \/ ~\A o \in x.from : \E y \in known : y.id = o THEN "INSUFFICIENT_PROVENANCE"
    ELSE IF \E y \in known : y.id = Min(x.from) /\ y.wl = wl THEN "EXACT" ELSE "NOT_ASSOCIATED"

\* known: the observations that were read.  Where one is unknown and two others
\* differ, the order of the provenance decides between two reasons to exclude.
classifyProposalLineage(x, known, wl) ==
    LET of == {y.wl : y \in {z \in known : z.id \in x.from}}
        unknown == x.from \ {y.id : y \in known}
        mixed == \E a, b \in of : ~sameWorkloadIdentity(a, b)
    IN  IF x.from = {} \/ unknown # {} THEN "INSUFFICIENT_PROVENANCE"
        ELSE IF mixed THEN "MIXED_IDENTITY"
        ELSE IF \E a \in of : sameWorkloadIdentity(a, wl) THEN "EXACT" ELSE "NOT_ASSOCIATED"

\* The proposals of a page that are the selected workload's.
handleWorkloadPolicy(objects, known, wl) ==
    {x \in objects : proposalProjection(x) /\ classifyProposalLineage(x, known, wl) = "EXACT"}

\* The apply attempts of a proposal, or the rollbacks of an apply attempt.
decodeLineageApply(objects, name, uid) ==
    {a \in objects : a.source = 0 /\ a.proposalName = name /\ a.proposal = uid}
decodeLineageRollback(objects, uid) == {a \in objects : a.source = uid}
=============================================================================
