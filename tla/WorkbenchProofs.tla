--------------------------- MODULE WorkbenchProofs ---------------------------
(* What the Operations Center guarantees for any number of concurrent         *)
(* requests, users, Pods, observations, proposals and attempts: capability    *)
(* checks are answered for the one who asked, actions are on the selected     *)
(* target, slots are those of the reads in progress, and a projection, a page *)
(* or a lineage says no more and no less than what was read.  The invariant   *)
(* says of every request what it holds at its place in the handler, and of    *)
(* every shared discovery whose it is.                                        *)
EXTENDS Workbench, FiniteSetTheorems, WellFoundedInduction, TLAPS

-----------------------------------------------------------------------------
(* Types                                                                       *)

Caps == DOMAIN capabilityRules
Pod == [uid : Nat, image : Nat, owner : Nat]
Target == [name : Pods, wl : Nat, pod : Nat, image : Nat]
ObsObject == [id : Obs, wl : Nat, image : Nat]
Objects == ObsObject \cup Proposal \cup Attempt
Scopes == {<<>>} \cup (Headers \X Nat \X Nat)
Token == [kind : Kinds \cup {"none"}, scope : Scopes, after : Nat, rv : SUBSET Objects,
          seen : SUBSET Objects]

Discovering == {"gate", "lead", "wait", "woken"}
Pcs == Calls \cup ReadSteps \cup Discovering \cup {"idle", "select", "enter", "register", "admit", "done"}

Request ==
    [kind : Kinds, user : Users, header : Headers, body : Namespaces,
     pick : {"none", "target", "image"}, obs : Nat, uid : Nat, versioned : BOOLEAN,
     follow : BOOLEAN, pc : Pcs, connected : BOOLEAN, ns : Namespaces, want : Target,
     token : Token, authenticated : BOOLEAN, stage : Nat, leader : Requests \cup {Nobody},
     caps : SUBSET Caps, failed : BOOLEAN, passed : SUBSET Caps, pod : Pod, wl : Nat,
     answer : Answers, held : SUBSET Rules, live : SUBSET Pod]

View ==
    [listed : [Pods -> Pod], uid : Nat, queue : SUBSET Pods, read : SUBSET Pods,
     failure : ReadFailures \cup {"none"}, declared : States, materialized : States,
     locks : States \cup {"NONE"}, profiles : States \cup {"NONE"}, governance : States,
     fresh : SUBSET Proposal, known : SUBSET ObsObject, rv : SUBSET Objects, after : Nat,
     shown : SUBSET Objects, complete : BOOLEAN, found : SUBSET Pods, existing : SUBSET Objects,
     before : SUBSET Objects]

Keys == Users \X Namespaces \X Nat
Flight ==
    [open : BOOLEAN, shared : BOOLEAN, key : Keys \cup {Nobody}, done : Nat, granted : SUBSET Rules,
     failed : BOOLEAN, held : [Subjects -> SUBSET Rules]]

Observed ==
    [state : {"none", "REQUESTED", "RUNNING", "COMPLETED", "FAILED"}, ns : {Home}, wl : Nat,
     pod : Nat, image : Nat, stop : BOOLEAN, by : Requests \cup {Nobody}]

-----------------------------------------------------------------------------
(* The invariant                                                               *)

\* The seen part of a continuation is what its position and selector say.
TokenOK(t) ==
    /\ IsFiniteSet(t.rv)
    /\ t.kind \in Collections =>
          t.seen = shownOf(t.kind, {x \in t.rv : x.id =< t.after},
                           [wl |-> t.scope[2], image |-> t.scope[3]])

World ==
    /\ mode \in {"proxy", "local"} /\ session \in {"none", "here", "elsewhere"}
    /\ stops \in [Obs -> {"none", "registered", "cancelled"}]
    /\ rbac \in [Subjects -> SUBSET Rules]
    /\ pods \in [Pods -> Pod]
    /\ workload \in [uid : Nat, viaReplicaSet : BOOLEAN]
    /\ obs \in [Obs -> Observed]
    /\ proposals \in SUBSET Proposal /\ IsFiniteSet(proposals)
    /\ attempts \in SUBSET Attempt /\ IsFiniteSet(attempts)
    /\ UIDsName(proposals, attempts)
    /\ offered \in SUBSET Target
    /\ issued \in SUBSET Token /\ \A t \in issued : t.kind \in Kinds /\ TokenOK(t)
    /\ turmoil \in Turmoil
    /\ changes \in Nat

\* Which handlers take which steps.
Place(q) ==
    /\ q.answer = "none" <=> q.pc # "done"
    /\ q.kind \in {"stop", "status", "generate"} => q.obs \in Obs
    /\ q.pc = "register" => q.obs \in Obs
    /\ q.pc \in Discovering => q.kind \notin Reads \ Lineage
    /\ q.pc = "admit" => q.kind \in Lineage
    /\ q.pc = "observation" => q.kind \in {"stop", "status", "generate"}
    /\ q.pc = "intent" => q.kind = "stop"
    /\ q.pc \in {"pod", "replicaSet"} => q.kind \in {"start", "generate"}
    /\ q.pc \in {"create", "register"} => q.kind = "start"
    /\ q.pc \in {"load", "save"} => q.kind = "generate"
    /\ q.pc = "run" => q.kind \in {"apply", "rollback"}
    /\ q.pc \in {"list", "owner"} => q.kind \in {"workloads", "detail", "projection", "policy"}
    /\ q.pc = "object" => q.kind = "detail"
    /\ q.pc \in {"readPods", "policies", "optional", "proposals"} => q.kind = "projection"
    /\ q.pc = "page" => q.kind \in Collections
    /\ q.pc = "get" => q.kind \in {"observation", "proposal", "attempts", "attempt", "rollbacks"}
    /\ q.pc = "get" /\ q.kind = "attempts" => q.uid # 0
    /\ q.pc = "attemptList" => q.kind \in {"attempts", "rollbacks"}
    /\ q.pc \in {"identities", "policyPage"} => q.kind = "policy"

\* What a discovery has told the request, it was told about its own user.
Authorised(q) == \A c \in q.caps \cup q.passed : capabilityRules[c] \subseteq q.held

\* The observation is of what was selected, and so was a Pod that lived.
Generated(q) ==
    /\ obs[q.obs].wl = q.want.wl /\ obs[q.obs].image = q.want.image
    /\ \E p \in q.live : p.uid = q.want.pod /\ p.image = q.want.image

OnSelection(q) ==
    /\ q.pc \notin {"idle", "done"} => LivePods \subseteq q.live
    /\ q.pc = "replicaSet" => q.pod \in q.live /\ workload.viaReplicaSet
    /\ q.pc = "create" => /\ q.pod \in q.live /\ TargetMatches(q)
                          /\ ~workload.viaReplicaSet => q.pod.owner = q.wl
    /\ q.kind = "generate" /\ Bound(q) =>
          /\ q.pc \in {"observation", "pod", "replicaSet", "load", "save"} =>
                Valid(q.want) /\ q.want.image # 0
          /\ q.pc \in {"pod", "replicaSet", "load", "save"} \/ q.answer = "OK" =>
                obs[q.obs].state = "COMPLETED" /\ obs[q.obs].pod = q.want.pod
          /\ q.pc \in {"load", "save"} \/ q.answer = "OK" => Generated(q)

\* Before the first read.
Unread == Calls \cup Discovering \cup
          {"idle", "select", "enter", "register", "admit", "list", "page", "get"}

Sections(v) ==
    /\ v.declared = "AVAILABLE" => v.read = targetPods(v.listed, v.uid)
    /\ v.locks = "NONE" => v.found = {} /\ v.queue = v.read
    /\ v.locks = "AVAILABLE" => v.found = v.read \ v.queue
    /\ v.materialized = "EMPTY" => v.found = {}
    /\ v.queue \subseteq v.read /\ v.read # {}

Projected(q, v) ==
    /\ q.pc \in Unread => v = NoView
    /\ q.pc \in {"owner", "readPods", "policies", "optional", "proposals"} =>
          /\ Live(v.listed) # {} /\ \A p \in Live(v.listed) : v.listed[p] \in q.live
          /\ v.fresh = {}
    /\ q.pc = "owner" => v = [NoView EXCEPT !.listed = v.listed]
    /\ q.pc = "readPods" => v.queue # {} /\ v.found = {} /\ v.locks = "NONE"
    /\ q.pc = "policies" => v.read # {} /\ v.found = {} /\ v.locks = "NONE"
    /\ q.pc \in {"optional", "proposals"} => Sections(v)
    /\ q.pc = "optional" => v.queue # {}
    /\ q.pc = "proposals" => v.queue = {}
    /\ q.kind = "projection" /\ q.answer = "OK" =>
          /\ v.governance = "EMPTY" => v.existing = {}
          /\ v.governance = "AVAILABLE" /\ Cardinality(v.existing) <= PageLimit =>
                 \A x \in v.existing : AssociateProposal(x)
          /\ v.declared = "AVAILABLE" => v.read = targetPods(v.listed, v.uid)
          /\ v.locks = "AVAILABLE" => v.found = v.read
          /\ v.materialized = "EMPTY" => v.found = {}
    /\ \A x \in v.fresh : /\ x.fact.wl = v.uid /\ x.fact.digest = x.digest
                          /\ \E p \in q.live : p.uid = x.fact.pod

Paged(q, v) ==
    /\ q.token # NoToken => q.token.kind = q.kind /\ TokenOK(q.token)
    /\ q.kind \in Collections /\ q.answer = "OK" =>
          /\ v.shown \cap q.token.seen = {}
          /\ v.complete => v.shown \cup q.token.seen = shownOf(q.kind, v.rv, q.want)

\* An object shown for an observation says what the observation says.
Sound(objects) ==
    \A y \in objects : y \in ObsObject /\ obs[y.id].state # "none" /\ obs[y.id].wl = y.wl
Ids(objects) == {y.id : y \in objects}

\* All of a proposal's observations are of the workload.
Ours(x, wl) == x.from # {} /\ \A o \in x.from : o \in Obs /\ obs[o].state # "none" /\ obs[o].wl = wl

Lined(q, v) ==
    /\ q.pc = "identities" =>
          /\ Sound(v.before) /\ Sound(v.known) /\ (v.before # {} => q.ns = Home)
          /\ v.after = 0 => v.known = {}
          /\ v.after # 0 => /\ IsFiniteSet(v.rv) /\ Sound(v.rv) /\ Ids(v.before) \subseteq Ids(v.rv)
                            /\ {x \in v.rv : x.id =< v.after} \subseteq v.known
    /\ q.pc = "policyPage" => /\ Sound(v.before) /\ Sound(v.known)
                              /\ Ids(v.before) \subseteq Ids(v.known)
    /\ q.pc = "attemptList" /\ q.kind = "attempts" =>
          /\ v.before \subseteq attempts
          /\ \A a \in v.before : a.proposal = q.uid => a.proposalName = q.obs
    /\ q.answer = "OK" /\ q.kind = "policy" =>
          /\ \A x \in v.shown : Ours(x, q.want.wl)
          /\ Sound(v.before)
          /\ v.complete /\ q.token = NoToken =>
                \A x \in v.existing :
                    x.readable /\ Ours(x, q.want.wl) /\ x.from \subseteq Ids(v.before) => x \in v.shown
    /\ q.answer = "OK" /\ q.kind = "attempts" =>
          /\ \A a \in v.shown : a.proposal = q.uid
          /\ v.complete /\ q.token = NoToken =>
                {a \in v.before : a.source = 0 /\ a.proposal = q.uid} \subseteq v.shown
    /\ q.answer = "OK" /\ q.kind = "rollbacks" => \A a \in v.shown : a.source = q.uid

Good(q, v) ==
    /\ q \in Request /\ v \in View
    /\ Place(q) /\ Authorised(q) /\ OnSelection(q) /\ Projected(q, v) /\ Paged(q, v) /\ Lined(q, v)

\* The observation x was started by request q.
StartedBy(x, q) ==
    /\ q.pc # "idle"
    /\ Valid(q.want) =>
          \E p \in q.live :
              /\ p.uid = q.want.pod /\ p.uid = x.pod /\ x.wl = q.want.wl
              /\ q.want.image \in {0, p.image}
              /\ ~workload.viaReplicaSet => p.owner = x.wl
Started == \A o \in Obs : obs[o].by \in Requests => StartedBy(obs[o], req[obs[o].by])

\* A shared discovery is led by a request that asks the same, and found out
\* nothing that was not granted meanwhile.
Led(r, q, f) ==
    /\ f \in Flight
    /\ f.shared => /\ f.open /\ q.pc = "lead" /\ f.key = authorityProjectionKey(q)
                   /\ f.granted \subseteq f.held[<<q.user, q.ns>>]
                   /\ \A s \in Subjects : rbac[s] \subseteq f.held[s]
    /\ q.pc = "lead" => f.shared /\ q.leader = r
    /\ f.open => q.pc \in {"select", "lead"}
Follows(q) ==
    q.pc = "wait" => /\ q.leader \in Requests /\ flight[q.leader].shared
                     /\ flight[q.leader].key = authorityProjectionKey(q)
Flights == \A r \in Requests : Led(r, req[r], flight[r]) /\ Follows(req[r])

Readers == {r \in Requests : req[r].pc \in ReadSteps}
Slots == slots \in Nat /\ IsFiniteSet(Readers) /\ slots = Cardinality(Readers) /\ slots =< MaxReads

Domains ==
    /\ req = [r \in Requests |-> req[r]] /\ view = [r \in Requests |-> view[r]]
    /\ flight = [r \in Requests |-> flight[r]]

\* The inductive invariant.
Inv ==
    /\ Domains /\ World /\ Slots /\ Started /\ Flights
    /\ \A r \in Requests : Good(req[r], view[r])

-----------------------------------------------------------------------------
(* Numbers                                                                     *)

LEMMA LeastNat ==
    ASSUME NEW S \in SUBSET Nat, S # {}
    PROVE  \E x \in S : \A y \in S : x =< y
<1> DEFINE R == OpToRel(<, Nat)
<1>1. IsWellFoundedOn(R, Nat)  BY NatLessThanWellFounded
<1>2. \A x, y \in Nat : x < y => <<x, y>> \in R  BY DEF OpToRel
<1> HIDE DEF R
<1>3. PICK x \in S : \A y \in S : ~(<<y, x>> \in R)  BY <1>1, WFMin
<1>4. x \in Nat /\ \A y \in S : y \in Nat /\ ~(y < x)  BY <1>2, <1>3
<1>5. \A y \in S : x =< y  BY <1>4
<1> QED  BY <1>5

LEMMA MinOf ==
    ASSUME NEW S \in SUBSET Nat, S # {}
    PROVE  Min(S) \in S /\ Min(S) \in Nat /\ \A y \in S : Min(S) =< y
BY LeastNat DEF Min

\* By the smallest set without a greatest element.
LEMMA GreatestNat ==
    ASSUME NEW S \in SUBSET Nat, IsFiniteSet(S), S # {}
    PROVE  \E x \in S : \A y \in S : x >= y
<1> DEFINE Bounded(T) == \E x \in T : \A y \in T : x >= y
           Bad == {n \in Nat : \E T \in SUBSET Nat :
                      IsFiniteSet(T) /\ T # {} /\ Cardinality(T) = n /\ ~Bounded(T)}
<1>1. SUFFICES ASSUME Bad # {}  PROVE FALSE
  <2>1. Cardinality(S) \in Nat  BY FS_CardinalityType
  <2> QED  BY <2>1
<1>2. PICK n \in Bad : \A m \in Bad : n =< m
  <2>1. Bad \in SUBSET Nat  OBVIOUS
  <2> HIDE DEF Bad
  <2> QED  BY <1>1, <2>1, LeastNat
<1>3. PICK T \in SUBSET Nat : IsFiniteSet(T) /\ T # {} /\ Cardinality(T) = n /\ ~Bounded(T)
  OBVIOUS
<1>4. PICK x \in T : TRUE  BY <1>3
<1> DEFINE U == T \ {x}
<1>5. IsFiniteSet(U) /\ Cardinality(U) = n - 1 /\ n \in Nat /\ Cardinality(U) \in Nat
  BY <1>3, <1>4, FS_RemoveElement, FS_CardinalityType
<1>6. U # {}  BY <1>3, <1>4
<1>7. Bounded(U)
  <2>1. SUFFICES ASSUME ~Bounded(U)  PROVE FALSE  OBVIOUS
  <2>2. Cardinality(U) \in Bad  BY <1>3, <1>5, <1>6, <2>1
  <2> QED  BY SMTT(30), <1>2, <1>5, <2>2
<1>8. PICK z \in U : \A y \in U : z >= y  BY <1>7
<1>9. Bounded(T)
  <2>1. CASE z >= x  BY <1>4, <1>8, <2>1
  <2>2. CASE ~(z >= x)
    <3>1. \A y \in T : x >= y  BY <1>3, <1>4, <1>8, <2>2
    <3> QED  BY <1>4, <3>1
  <2> QED  BY <2>1, <2>2
<1> QED  BY <1>3, <1>9

LEMMA MaxOf ==
    ASSUME NEW S \in SUBSET Nat, IsFiniteSet(S), S # {}
    PROVE  Max(S) \in S /\ Max(S) \in Nat /\ \A y \in S : Max(S) >= y
BY GreatestNat DEF Max

-----------------------------------------------------------------------------
(* Pages                                                                       *)

LEMMA ObjectIds == \A x \in Objects : x.id \in Nat /\ x.id > 0
<1>1. \A o \in Obs : o \in Nat /\ o > 0  BY WorkbenchAssumption
<1>2. \A x \in ObsObject : x.id \in Nat /\ x.id > 0  BY <1>1 DEF ObsObject
<1>3. \A x \in Proposal : x.id \in Nat /\ x.id > 0  BY DEF Proposal
<1>4. \A x \in Attempt : x.id \in Nat /\ x.id > 0  BY DEF Attempt
<1> QED  BY <1>2, <1>3, <1>4 DEF Objects

LEMMA IdsFinite ==
    ASSUME NEW S \in SUBSET Objects, IsFiniteSet(S)
    PROVE  IsFiniteSet(Ids(S)) /\ Ids(S) \in SUBSET Nat
<1> DEFINE f == [x \in S |-> x.id]
<1>1. f \in Surjection(S, Ids(S))  BY DEF Surjection, Ids
<1>2. Ids(S) \in SUBSET Nat  BY ObjectIds DEF Ids
<1> QED  BY <1>1, <1>2, FS_Surjection

\* A page is what lies between two positions, and the last one leaves nothing.
LEMMA PageIs ==
    ASSUME NEW rv \in SUBSET Objects, IsFiniteSet(rv), NEW after \in Nat
    PROVE  /\ lastOf(page(rv, after), after) \in Nat
           /\ lastOf(page(rv, after), after) >= after
           /\ page(rv, after) = {x \in rv : after < x.id /\ x.id =< lastOf(page(rv, after), after)}
           /\ ~GetContinue(rv, after) => \A x \in rv : x.id =< lastOf(page(rv, after), after)
<1> DEFINE P == page(rv, after)
           S == {x.id : x \in P} \cup {after}
           last == lastOf(P, after)
           Below(x) == {y \in rv : after < y.id /\ y.id < x.id}
<1>1. P \subseteq rv /\ P = {x \in rv : x.id > after /\ Cardinality(Below(x)) < PageLimit}
  BY DEF page
<1> HIDE DEF P
<1>2. P \in SUBSET Objects /\ IsFiniteSet(P)  BY <1>1, FS_Subset
<1>3. IsFiniteSet(S) /\ S \in SUBSET Nat /\ S # {}
  <2>1. IsFiniteSet(Ids(P)) /\ Ids(P) \in SUBSET Nat  BY <1>2, IdsFinite
  <2> QED  BY <2>1, FS_AddElement DEF Ids
<1>4. last \in S /\ last \in Nat /\ \A y \in S : last >= y
  BY <1>3, MaxOf DEF lastOf
<1>5. last >= after  BY <1>4
<1> HIDE DEF last
<1>6. ASSUME NEW x \in rv, after < x.id, x.id =< last  PROVE x \in P
  <2>1. PICK z \in P : z.id = last
    <3>1. last # after  BY <1>4, <1>6, ObjectIds
    <3> QED  BY <1>4, <3>1
  <2>2. Below(x) \in SUBSET Below(z)  BY <1>1, <1>6, <2>1, ObjectIds
  <2>3. IsFiniteSet(Below(z)) /\ IsFiniteSet(Below(x)) /\ Cardinality(Below(x)) =< Cardinality(Below(z))
    <3>1. IsFiniteSet(Below(z))  BY FS_Subset
    <3> HIDE DEF Below
    <3> QED  BY <2>2, <3>1, FS_Subset
  <2>4. Cardinality(Below(x)) \in Nat /\ Cardinality(Below(z)) \in Nat /\ PageLimit \in Nat
    <3> HIDE DEF Below
    <3> QED  BY <2>3, FS_CardinalityType, WorkbenchAssumption
  <2>5. Cardinality(Below(z)) < PageLimit  BY <1>1, <2>1
  <2>6. Cardinality(Below(x)) < PageLimit
    <3> HIDE DEF Below
    <3> QED  BY <2>3, <2>4, <2>5
  <2> QED  BY <1>1, <1>6, <2>6
<1>7. ASSUME NEW x \in P  PROVE x \in rv /\ after < x.id /\ x.id =< last
  BY <1>1, <1>4, <1>7, ObjectIds
<1>8. P = {x \in rv : after < x.id /\ x.id =< last}  BY <1>1, <1>6, <1>7
<1>9. ASSUME ~GetContinue(rv, after)  PROVE \A x \in rv : x.id =< last
  <2>1. {x \in rv : x.id > last} = {}  BY <1>9 DEF GetContinue, P, last
  <2> QED  BY <1>4, <2>1, ObjectIds
<1> QED  BY <1>4, <1>5, <1>8, <1>9 DEF P, last

\* The first page of something is not empty.
LEMMA FirstPage ==
    ASSUME NEW rv \in SUBSET Objects, IsFiniteSet(rv), rv # {}
    PROVE  page(rv, 0) # {}
<1>1. IsFiniteSet(Ids(rv)) /\ Ids(rv) \in SUBSET Nat /\ Ids(rv) # {}  BY IdsFinite DEF Ids
<1>2. PICK x \in rv : \A y \in rv : x.id =< y.id
  <2>1. PICK n \in Ids(rv) : \A m \in Ids(rv) : n =< m  BY <1>1, LeastNat
  <2> QED  BY <2>1 DEF Ids
<1>3. {y \in rv : 0 < y.id /\ y.id < x.id} = {}  BY <1>2, ObjectIds
<1>4. Cardinality({y \in rv : 0 < y.id /\ y.id < x.id}) < PageLimit
  <2>1. PageLimit \in Nat \ {0}  BY WorkbenchAssumption
  <2> QED  BY <1>3, <2>1, FS_EmptySet
<1> QED  BY <1>4, ObjectIds DEF page

\* What fits on one page is on it.
LEMMA OnePage ==
    ASSUME NEW rv \in SUBSET Objects, IsFiniteSet(rv), Cardinality(rv) <= PageLimit
    PROVE  page(rv, 0) = rv
<1> SUFFICES ASSUME NEW x \in rv  PROVE x \in page(rv, 0)  BY DEF page
<1> DEFINE B == {y \in rv : 0 < y.id /\ y.id < x.id}
<1>1. B \in SUBSET rv /\ B # rv /\ x.id > 0  BY ObjectIds
<1>2. Cardinality(B) < Cardinality(rv)
  <2> HIDE DEF B
  <2>1. Cardinality(B) =< Cardinality(rv) /\ Cardinality(rv) # Cardinality(B)  BY <1>1, FS_Subset
  <2>2. Cardinality(B) \in Nat /\ Cardinality(rv) \in Nat  BY <1>1, FS_Subset, FS_CardinalityType
  <2> QED  BY <2>1, <2>2
<1>3. Cardinality(B) < PageLimit
  <2>1. PageLimit \in Nat  BY WorkbenchAssumption
  <2>2. Cardinality(B) \in Nat /\ Cardinality(rv) \in Nat
    <3> HIDE DEF B
    <3> QED  BY <1>1, FS_Subset, FS_CardinalityType
  <2> HIDE DEF B
  <2> QED  BY <1>2, <2>1, <2>2
<1> QED  BY <1>1, <1>3 DEF page

-----------------------------------------------------------------------------
(* Steps of one request                                                        *)

\* What the requests under way rely on: observations keep what they are of, and
\* completed ones all of it; Pods, attempts and the kind of owner stay.
Kept ==
    /\ pods' = pods /\ workload'.viaReplicaSet = workload.viaReplicaSet
    /\ attempts \subseteq attempts'
    /\ \A o \in Obs : obs[o].state # "none" =>
          /\ obs'[o].state # "none" /\ obs'[o].wl = obs[o].wl /\ obs'[o].pod = obs[o].pod
          /\ obs[o].state = "COMPLETED" => obs'[o].state = "COMPLETED" /\ obs'[o].image = obs[o].image

\* And what the observations' starters do.
Held ==
    /\ workload'.viaReplicaSet = workload.viaReplicaSet
    /\ \A o \in Obs : obs'[o].by = obs[o].by /\ obs'[o].wl = obs[o].wl /\ obs'[o].pod = obs[o].pod

LEMMA SoundKept ==
    ASSUME Kept, NEW S, Sound(S)
    PROVE  Sound(S)'
<1> SUFFICES ASSUME NEW y \in S
             PROVE  y \in ObsObject /\ obs'[y.id].state # "none" /\ obs'[y.id].wl = y.wl
  BY DEF Sound
<1>1. y \in ObsObject /\ obs[y.id].state # "none" /\ obs[y.id].wl = y.wl  BY DEF Sound
<1>2. y.id \in Obs  BY <1>1 DEF ObsObject
<1> QED  BY <1>1, <1>2 DEF Kept

LEMMA OursKept ==
    ASSUME Kept, NEW x, NEW wl
    PROVE  Ours(x, wl) => Ours(x, wl)'
BY DEF Kept, Ours

\* Seen from what is read: an observation that exists is of one workload.
LEMMA OursBack ==
    ASSUME Kept, NEW x, NEW wl, NEW S, Sound(S), x.from \subseteq Ids(S), Ours(x, wl)'
    PROVE  Ours(x, wl)
<1>1. \A o \in x.from : o \in Obs /\ obs[o].state # "none"
  BY DEF Sound, Ids, ObsObject
<1> QED  BY <1>1 DEF Kept, Ours

LEMMA LinedKept ==
    ASSUME Kept, NEW q, NEW v, Lined(q, v)
    PROVE  Lined(q, v)'
<1>1. q.pc = "identities" =>
          /\ Sound(v.before)' /\ Sound(v.known)' /\ (v.before # {} => q.ns = Home)
          /\ v.after = 0 => v.known = {}
          /\ v.after # 0 => /\ IsFiniteSet(v.rv) /\ Sound(v.rv)' /\ Ids(v.before) \subseteq Ids(v.rv)
                            /\ {x \in v.rv : x.id =< v.after} \subseteq v.known
  BY SoundKept DEF Lined
<1>2. q.pc = "policyPage" => /\ Sound(v.before)' /\ Sound(v.known)'
                             /\ Ids(v.before) \subseteq Ids(v.known)
  BY SoundKept DEF Lined
<1>3. q.pc = "attemptList" /\ q.kind = "attempts" =>
          /\ v.before \subseteq attempts'
          /\ \A a \in v.before : a.proposal = q.uid => a.proposalName = q.obs
  BY DEF Lined, Kept
<1>4. q.answer = "OK" /\ q.kind = "policy" =>
          /\ \A x \in v.shown : Ours(x, q.want.wl)'
          /\ Sound(v.before)'
          /\ v.complete /\ q.token = NoToken =>
                \A x \in v.existing :
                    x.readable /\ Ours(x, q.want.wl)' /\ x.from \subseteq Ids(v.before) => x \in v.shown
  <2> SUFFICES ASSUME q.answer = "OK", q.kind = "policy"
               PROVE  /\ \A x \in v.shown : Ours(x, q.want.wl)'
                      /\ Sound(v.before)'
                      /\ v.complete /\ q.token = NoToken =>
                            \A x \in v.existing :
                                x.readable /\ Ours(x, q.want.wl)' /\ x.from \subseteq Ids(v.before)
                                    => x \in v.shown
    OBVIOUS
  <2>1. Sound(v.before) /\ \A x \in v.shown : Ours(x, q.want.wl)  BY DEF Lined
  <2>2. \A x : x.from \subseteq Ids(v.before) /\ Ours(x, q.want.wl)' => Ours(x, q.want.wl)
    BY <2>1, OursBack
  <2>3. \A x \in v.shown : Ours(x, q.want.wl)'  BY <2>1, OursKept
  <2>4. Sound(v.before)'  BY <2>1, SoundKept
  <2> QED  BY <2>2, <2>3, <2>4 DEF Lined
<1>5. q.answer = "OK" /\ q.kind = "attempts" =>
          /\ \A a \in v.shown : a.proposal = q.uid
          /\ v.complete /\ q.token = NoToken =>
                {a \in v.before : a.source = 0 /\ a.proposal = q.uid} \subseteq v.shown
  BY DEF Lined
<1>6. q.answer = "OK" /\ q.kind = "rollbacks" => \A a \in v.shown : a.source = q.uid
  BY DEF Lined
<1> QED  BY <1>1, <1>2, <1>3, <1>4, <1>5, <1>6 DEF Lined, Ids

LEMMA SelectionKept ==
    ASSUME Kept, NEW q, OnSelection(q), Place(q)
    PROVE  OnSelection(q)'
<1>1. LivePods' = LivePods  BY DEF Kept, LivePods
<1>2. workload'.viaReplicaSet = workload.viaReplicaSet  BY DEF Kept
<1>3. (TargetMatches(q)' <=> TargetMatches(q)) /\ (Bound(q)' <=> Bound(q)) /\ (Valid(q.want)' <=> Valid(q.want))
  BY DEF TargetMatches, Bound, Valid, NoTarget
<1>4. ASSUME q.kind = "generate", obs[q.obs].state = "COMPLETED"
      PROVE  /\ obs'[q.obs].state = "COMPLETED" /\ obs'[q.obs].pod = obs[q.obs].pod
             /\ obs'[q.obs].wl = obs[q.obs].wl /\ obs'[q.obs].image = obs[q.obs].image
  <2>1. q.obs \in Obs  BY <1>4 DEF Place
  <2> QED  BY <1>4, <2>1 DEF Kept
<1>5. ASSUME q.kind = "generate", Bound(q)
      PROVE  /\ q.pc \in {"observation", "pod", "replicaSet", "load", "save"} =>
                   Valid(q.want) /\ q.want.image # 0
             /\ q.pc \in {"pod", "replicaSet", "load", "save"} \/ q.answer = "OK" =>
                   obs'[q.obs].state = "COMPLETED" /\ obs'[q.obs].pod = q.want.pod
             /\ q.pc \in {"load", "save"} \/ q.answer = "OK" => Generated(q)'
  <2>1. /\ q.pc \in {"observation", "pod", "replicaSet", "load", "save"} =>
               Valid(q.want) /\ q.want.image # 0
        /\ q.pc \in {"pod", "replicaSet", "load", "save"} \/ q.answer = "OK" =>
               obs[q.obs].state = "COMPLETED" /\ obs[q.obs].pod = q.want.pod
        /\ q.pc \in {"load", "save"} \/ q.answer = "OK" => Generated(q)
    BY <1>5 DEF OnSelection
  <2>2. (Generated(q) /\ obs[q.obs].state = "COMPLETED") => Generated(q)'
    BY <1>4, <1>5 DEF Generated
  <2> QED  BY <1>4, <1>5, <2>1, <2>2
<1>6. /\ q.pc \notin {"idle", "done"} => LivePods' \subseteq q.live
      /\ q.pc = "replicaSet" => q.pod \in q.live /\ workload'.viaReplicaSet
      /\ q.pc = "create" => /\ q.pod \in q.live /\ TargetMatches(q)'
                            /\ ~workload'.viaReplicaSet => q.pod.owner = q.wl
  BY <1>1, <1>2, <1>3 DEF OnSelection
<1> QED  BY <1>3, <1>5, <1>6 DEF OnSelection

LEMMA GoodKept ==
    ASSUME Kept, NEW q, NEW v, Good(q, v)
    PROVE  Good(q, v)'
<1>1. OnSelection(q)' /\ Lined(q, v)'  BY LinedKept, SelectionKept DEF Good
<1>2. Projected(q, v)' <=> Projected(q, v)
  BY DEF Projected, Sections, NoView, Unread
<1>3. Paged(q, v)' <=> Paged(q, v)  BY DEF Paged, TokenOK
<1>4. (q \in Request /\ v \in View /\ Place(q) /\ Authorised(q))'
  BY DEF Good, Place, Authorised
<1> QED  BY <1>1, <1>2, <1>3, <1>4 DEF Good

LEMMA AtRequest ==
    ASSUME Inv, NEW r \in Requests, NEW q, req' = [req EXCEPT ![r] = q]
    PROVE  /\ req' = [x \in Requests |-> req'[x]] /\ req'[r] = q
           /\ \A x \in Requests \ {r} : req'[x] = req[x]
BY DEF Inv, Domains

LEMMA AtView ==
    ASSUME Inv, NEW r \in Requests, NEW v, view' = [view EXCEPT ![r] = v]
    PROVE  /\ view' = [x \in Requests |-> view'[x]] /\ view'[r] = v
           /\ \A x \in Requests \ {r} : view'[x] = view[x]
BY DEF Inv, Domains

LEMMA StartedByKept ==
    ASSUME NEW x, NEW y, NEW p, NEW q, StartedBy(x, p), q.pc # "idle", q.want = p.want,
           p.live \subseteq q.live, y.pod = x.pod, y.wl = x.wl,
           workload'.viaReplicaSet = workload.viaReplicaSet
    PROVE  StartedBy(y, q)'
<1>1. Valid(q.want)' => Valid(p.want)  BY DEF Valid
<1>2. CASE ~Valid(q.want)'  BY <1>2 DEF StartedBy
<1>3. CASE Valid(q.want)'
  <2>1. PICK z \in p.live : /\ z.uid = p.want.pod /\ z.uid = x.pod /\ x.wl = p.want.wl
                            /\ p.want.image \in {0, z.image}
                            /\ ~workload.viaReplicaSet => z.owner = x.wl
    BY <1>1, <1>3 DEF StartedBy
  <2>2. /\ z \in q.live /\ z.uid = q.want.pod /\ z.uid = y.pod /\ y.wl = q.want.wl
        /\ q.want.image \in {0, z.image}
        /\ ~workload'.viaReplicaSet => z.owner = y.wl
    BY <2>1
  <2> QED  BY <2>2 DEF StartedBy
<1> QED  BY <1>2, <1>3

LEMMA StartedKept ==
    ASSUME Inv, NEW r \in Requests, NEW q, req' = [req EXCEPT ![r] = q], Held, q.pc # "idle",
           req[r].pc = "idle" \/ (q.want = req[r].want /\ req[r].live \subseteq q.live)
    PROVE  Started'
<1> SUFFICES ASSUME NEW o \in Obs, obs'[o].by \in Requests
             PROVE  StartedBy(obs[o], req[obs[o].by])'
  BY DEF Started
<1> DEFINE y == obs[o].by
<1>1. /\ obs'[o].by = y /\ y \in Requests /\ obs'[o].wl = obs[o].wl /\ obs'[o].pod = obs[o].pod
      /\ workload'.viaReplicaSet = workload.viaReplicaSet
  BY DEF Held
<1>2. StartedBy(obs[o], req[y])  BY <1>1 DEF Inv, Started
<1>3. /\ req'[y].pc # "idle" /\ req'[y].want = req[y].want /\ req[y].live \subseteq req'[y].live
  BY <1>1, <1>2, AtRequest DEF StartedBy
<1> QED  BY <1>1, <1>2, <1>3 DEF StartedBy, Valid

LEMMA FlightsKept ==
    ASSUME Inv, NEW r \in Requests, NEW q, req' = [req EXCEPT ![r] = q],
           flight' = flight, rbac' = rbac,
           req[r].pc \notin {"select", "lead"}, q.pc \notin {"select", "lead", "wait"}
    PROVE  Flights'
<1> SUFFICES ASSUME NEW x \in Requests
             PROVE  Led(x, req[x], flight[x])' /\ Follows(req[x])'
  BY DEF Flights
<1>1. Led(x, req[x], flight[x]) /\ Follows(req[x])  BY DEF Inv, Flights
<1>2. CASE x # r
  <2>1. req'[x] = req[x]  BY <1>2, AtRequest
  <2> QED  BY <1>1, <2>1 DEF Led, Follows, authorityProjectionKey
<1>3. CASE x = r
  <2>1. req'[x] = q  BY <1>3, AtRequest
  <2>2. ~flight[x].open /\ ~flight[x].shared  BY <1>1, <1>3 DEF Led
  <2> QED  BY <1>1, <1>3, <2>1, <2>2 DEF Led, Follows
<1> QED  BY <1>2, <1>3

LEMMA SlotsKept ==
    ASSUME Inv, NEW r \in Requests, NEW q, req' = [req EXCEPT ![r] = q],
           \/ slots' = slots /\ (q.pc \in ReadSteps <=> req[r].pc \in ReadSteps)
           \/ /\ slots < MaxReads /\ slots' = slots + 1
              /\ req[r].pc \notin ReadSteps /\ q.pc \in ReadSteps
           \/ slots' = slots - 1 /\ req[r].pc \in ReadSteps /\ q.pc \notin ReadSteps
    PROVE  Slots'
<1>1. req'[r] = q /\ \A x \in Requests \ {r} : req'[x] = req[x]  BY AtRequest
<1>2. /\ slots \in Nat /\ MaxReads \in Nat /\ IsFiniteSet(Readers) /\ slots = Cardinality(Readers)
      /\ slots =< MaxReads
  BY WorkbenchAssumption DEF Inv, Slots
<1>3. CASE slots' = slots /\ (q.pc \in ReadSteps <=> req[r].pc \in ReadSteps)
  <2>1. Readers' = Readers  BY <1>1, <1>3 DEF Readers
  <2> QED  BY <1>2, <1>3, <2>1 DEF Slots
<1>4. CASE /\ slots < MaxReads /\ slots' = slots + 1
           /\ req[r].pc \notin ReadSteps /\ q.pc \in ReadSteps
  <2>1. Readers' = Readers \cup {r} /\ r \notin Readers  BY <1>1, <1>4 DEF Readers
  <2>2. IsFiniteSet(Readers') /\ Cardinality(Readers') = Cardinality(Readers) + 1
    BY <1>2, <2>1, FS_AddElement
  <2> QED  BY <1>2, <1>4, <2>2 DEF Slots
<1>5. CASE slots' = slots - 1 /\ req[r].pc \in ReadSteps /\ q.pc \notin ReadSteps
  <2>1. Readers' = Readers \ {r} /\ r \in Readers  BY <1>1, <1>5 DEF Readers
  <2>2. IsFiniteSet(Readers') /\ Cardinality(Readers') = Cardinality(Readers) - 1
    BY <1>2, <2>1, FS_RemoveElement
  <2>3. Cardinality(Readers') \in Nat  BY <2>2, FS_CardinalityType
  <2> QED  BY <1>2, <1>5, <2>2, <2>3 DEF Slots
<1> QED  BY <1>3, <1>4, <1>5

\* A step of one request.
LEMMA Steps ==
    ASSUME Inv, NEW r \in Requests, NEW q, NEW v,
           req' = [req EXCEPT ![r] = q], view' = [view EXCEPT ![r] = v],
           Kept, World', Good(q, v), Started',
           Flights', flight' = [x \in Requests |-> flight'[x]], q.pc # "idle",
           \/ slots' = slots /\ (q.pc \in ReadSteps <=> req[r].pc \in ReadSteps)
           \/ /\ slots < MaxReads /\ slots' = slots + 1
              /\ req[r].pc \notin ReadSteps /\ q.pc \in ReadSteps
           \/ slots' = slots - 1 /\ req[r].pc \in ReadSteps /\ q.pc \notin ReadSteps
    PROVE  Inv'
<1>3. Slots'  BY SlotsKept
<1>4. Domains'  BY AtRequest, AtView DEF Inv, Domains
<1>5. ASSUME NEW x \in Requests  PROVE Good(req[x], view[x])'
  <2>1. CASE x = r
    <3>1. req'[x] = q /\ view'[x] = v  BY <2>1, AtRequest, AtView
    <3>2. Good(q, v)'  BY GoodKept
    <3> QED  BY <3>1, <3>2
  <2>2. CASE x # r
    <3>1. PICK p : p = req[x]  OBVIOUS
    <3>2. PICK w : w = view[x]  OBVIOUS
    <3>3. req'[x] = p /\ view'[x] = w  BY <2>2, <3>1, <3>2, AtRequest, AtView
    <3>4. Good(p, w)  BY <3>1, <3>2 DEF Inv
    <3>5. Good(p, w)'  BY <3>4, GoodKept
    <3> QED  BY <3>3, <3>5
  <2> QED  BY <2>1, <2>2
<1> QED  BY <1>3, <1>4, <1>5 DEF Inv

\* One that starts no observation.
LEMMA Moves ==
    ASSUME Inv, NEW r \in Requests, NEW q, NEW v,
           req' = [req EXCEPT ![r] = q], view' = [view EXCEPT ![r] = v],
           Kept, Held, World', Good(q, v),
           Flights', flight' = [x \in Requests |-> flight'[x]], q.pc # "idle",
           req[r].pc = "idle" \/ (q.want = req[r].want /\ req[r].live \subseteq q.live),
           \/ slots' = slots /\ (q.pc \in ReadSteps <=> req[r].pc \in ReadSteps)
           \/ /\ slots < MaxReads /\ slots' = slots + 1
              /\ req[r].pc \notin ReadSteps /\ q.pc \in ReadSteps
           \/ slots' = slots - 1 /\ req[r].pc \in ReadSteps /\ q.pc \notin ReadSteps
    PROVE  Inv'
<1>1. Started'  BY StartedKept
<1> QED  BY <1>1, Steps

\* A step of one request that leaves the discoveries alone.
LEMMA Local ==
    ASSUME Inv, NEW r \in Requests, NEW q, NEW v,
           req' = [req EXCEPT ![r] = q], view' = [view EXCEPT ![r] = v],
           Kept, Held, World', Good(q, v),
           flight' = flight, rbac' = rbac,
           req[r].pc \notin {"select", "lead"}, q.pc \notin {"idle", "select", "lead", "wait"},
           req[r].pc = "idle" \/ (q.want = req[r].want /\ req[r].live \subseteq q.live),
           \/ slots' = slots /\ (q.pc \in ReadSteps <=> req[r].pc \in ReadSteps)
           \/ /\ slots < MaxReads /\ slots' = slots + 1
              /\ req[r].pc \notin ReadSteps /\ q.pc \in ReadSteps
           \/ slots' = slots - 1 /\ req[r].pc \in ReadSteps /\ q.pc \notin ReadSteps
    PROVE  Inv'
<1>1. Flights'  BY FlightsKept
<1>2. flight' = [x \in Requests |-> flight'[x]]  BY DEF Inv, Domains
<1> QED  BY <1>1, <1>2, Moves

\* The cluster is as it was.
LEMMA Quiet ==
    ASSUME Inv, UNCHANGED <<mode, session, changes>>, UNCHANGED cluster,
           stops' = stops \/ stops' \in [Obs -> {"none", "registered", "cancelled"}]
    PROVE  World' /\ Kept /\ Held /\ rbac' = rbac
<1>1. UNCHANGED <<mode, session, rbac, pods, workload, obs, proposals, attempts, offered, issued,
                  turmoil, changes>>
  BY DEF cluster
<1>2. World'  BY <1>1 DEF Inv, World, UIDsName, TokenOK
<1>3. Kept /\ Held  BY <1>1 DEF Kept, Held
<1> QED  BY <1>1, <1>2, <1>3

LEMMA SameView ==
    ASSUME Inv, NEW r \in Requests, view' = view
    PROVE  view' = [view EXCEPT ![r] = view[r]]
BY DEF Inv, Domains

\* Who asks, and for what, stays the same while a request is handled.
SameClient(q, p) ==
    /\ q.kind = p.kind /\ q.user = p.user /\ q.header = p.header /\ q.body = p.body /\ q.obs = p.obs
    /\ q.uid = p.uid /\ q.versioned = p.versioned /\ q.ns = p.ns /\ q.want = p.want
    /\ q.token = p.token /\ q.authenticated = p.authenticated /\ q.live = p.live

LEMMA GotoIs ==
    ASSUME NEW p \in Request, NEW pc \in Pcs, NEW q, q = [p EXCEPT !.pc = pc]
    PROVE  /\ q \in Request /\ SameClient(q, p) /\ q.pc = pc
           /\ q.caps = p.caps /\ q.passed = p.passed /\ q.held = p.held /\ q.answer = p.answer
           /\ q.pod = p.pod /\ q.wl = p.wl
BY DEF Request, SameClient

LEMMA GoneIs == Gone \in Pod /\ Gone.uid = 0
BY DEF Gone, Pod

LEMMA ClosedIs ==
    ASSUME NEW p \in Request, NEW a \in Answers, NEW q, q = Closed(p, a)
    PROVE  /\ q \in Request /\ SameClient(q, p) /\ q.pc = "done" /\ q.answer = a
           /\ q.caps = {} /\ q.passed = p.passed /\ q.held = p.held
<1>1. "done" \in Pcs  BY DEF Pcs
<1> QED  BY ZenonT(60), <1>1, GoneIs DEF Request, SameClient, Closed

LEMMA InvIs ==
    ASSUME Inv, NEW r \in Requests
    PROVE  /\ req[r] \in Request /\ view[r] \in View /\ Good(req[r], view[r])
           /\ Place(req[r]) /\ Authorised(req[r]) /\ OnSelection(req[r]) /\ Projected(req[r], view[r])
           /\ Paged(req[r], view[r]) /\ Lined(req[r], view[r])
BY DEF Inv, Good

LEMMA PlaceKept ==
    ASSUME NEW p, NEW q, SameClient(q, p), Place(p), q.pc = "done", q.answer # "none"
    PROVE  Place(q)
BY DEF Place, SameClient, Discovering

\* The answers of these handlers say something of what was read.
Telling == {"generate", "projection", "policy", "attempts", "rollbacks"} \cup Collections

LEMMA ClosedGood ==
    ASSUME Inv, NEW r \in Requests, NEW p \in Request, SameClient(p, req[r]),
           \A c \in p.passed : capabilityRules[c] \subseteq p.held,
           NEW a \in Answers \ {"none"}, NEW v \in View,
           v = view[r] \/ v.fresh = {}, a = "OK" => p.kind \notin Telling
    PROVE  Good(Closed(p, a), v)
<1>1. SameClient(p, req[r])  OBVIOUS
<1>2. PICK q : q = Closed(p, a)  OBVIOUS
<1>3. /\ q \in Request /\ SameClient(q, p) /\ q.pc = "done" /\ q.answer = a
      /\ q.caps = {} /\ q.passed = p.passed /\ q.held = p.held
  BY <1>2, ClosedIs
<1>0. SameClient(q, req[r])  BY <1>1, <1>3 DEF SameClient
<1>4. Place(q)  BY <1>0, <1>3, InvIs, PlaceKept
<1>5. Authorised(q)  BY <1>3 DEF Authorised
<1>6. OnSelection(q)  BY <1>3 DEF OnSelection, SameClient, Telling
<1>7. Projected(q, v)
  <2>1. Projected(req[r], view[r])  BY InvIs
  <2>2. "done" \notin Unread  BY DEF Unread, Calls, Discovering
  <2>3. \A x \in v.fresh : /\ x.fact.wl = v.uid /\ x.fact.digest = x.digest
                           /\ \E y \in q.live : y.uid = x.fact.pod
    BY <1>0, <2>1 DEF Projected, SameClient
  <2> QED  BY <1>3, <2>2, <2>3 DEF Projected, SameClient, Telling
<1>8. Paged(q, v)
  BY <1>0, <1>3, InvIs DEF Paged, SameClient, Telling
<1>9. Lined(q, v)  BY <1>3 DEF Lined, SameClient, Telling
<1> QED  BY <1>2, <1>3, <1>4, <1>5, <1>6, <1>7, <1>8, <1>9 DEF Good

\* A handler ends with such an answer.
LEMMA Quits ==
    ASSUME Inv, NEW r \in Requests, NEW a \in Answers \ {"none"}, NEW v \in View,
           Answered(r, a), view' = [view EXCEPT ![r] = v],
           v = view[r] \/ v.fresh = {}, a = "OK" => req[r].kind \notin Telling,
           Kept, Held, World', flight' = flight, rbac' = rbac,
           req[r].pc \notin {"select", "lead"},
           \/ slots' = slots /\ req[r].pc \notin ReadSteps
           \/ slots' = slots - 1 /\ req[r].pc \in ReadSteps
    PROVE  Inv'
<1>1. PICK p \in Request : p = req[r]  BY InvIs
<1>2. PICK q : q = Closed(p, a)  OBVIOUS
<1>3. q \in Request /\ SameClient(q, p) /\ q.pc = "done"  BY <1>2, ClosedIs
<1>4. req' = [req EXCEPT ![r] = q]  BY <1>1, <1>2 DEF Answered, Become
<1>5. Good(q, v)
  <2>1. SameClient(p, req[r]) /\ \A c \in p.passed : capabilityRules[c] \subseteq p.held
    BY <1>1, InvIs DEF SameClient, Authorised
  <2> QED  BY <1>1, <1>2, <2>1, ClosedGood
<1>6. "done" \notin ReadSteps  BY DEF ReadSteps
<1>7. q.want = req[r].want /\ req[r].live \subseteq q.live  BY <1>1, <1>3 DEF SameClient
<1>8. \/ slots' = slots /\ (q.pc \in ReadSteps <=> req[r].pc \in ReadSteps)
      \/ slots' = slots - 1 /\ req[r].pc \in ReadSteps /\ q.pc \notin ReadSteps
  BY <1>3, <1>6
<1>9. q.pc \notin {"idle", "select", "lead", "wait"}  BY <1>3
<1> QED  BY <1>4, <1>5, <1>7, <1>8, <1>9, Local

\* The same where nothing else happens.
LEMMA QuietlyQuits ==
    ASSUME Inv, NEW r \in Requests, NEW a \in Answers \ {"none"}, Answered(r, a),
           UNCHANGED <<mode, session, flight, view, changes>>, UNCHANGED cluster,
           stops' = stops \/ stops' \in [Obs -> {"none", "registered", "cancelled"}],
           a = "OK" => req[r].kind \notin Telling,
           req[r].pc \notin {"select", "lead"},
           \/ slots' = slots /\ req[r].pc \notin ReadSteps
           \/ slots' = slots - 1 /\ req[r].pc \in ReadSteps
    PROVE  Inv'
<1>1. World' /\ Kept /\ Held /\ rbac' = rbac  BY Quiet
<1>2. view' = [view EXCEPT ![r] = view[r]] /\ view[r] \in View  BY SameView, InvIs
<1>3. flight' = flight  OBVIOUS
<1> QED  BY <1>1, <1>2, <1>3, Quits

\* Before it has read anything a request has an empty view.
LEMMA UnreadGood ==
    ASSUME Inv, NEW r \in Requests, NEW q \in Request, SameClient(q, req[r]),
           req[r].pc \in Unread, q.pc \in Unread, q.answer = "none",
           Place(q), Authorised(q), OnSelection(q)
    PROVE  Good(q, view[r])
<1>1. view[r] \in View /\ view[r] = NoView /\ Paged(req[r], view[r])
  BY InvIs DEF Projected
<1>2. NoView.fresh = {}  BY DEF NoView
<1>3. Projected(q, view[r])
  BY <1>1, <1>2 DEF Projected, Unread, Calls, Discovering
<1>4. Paged(q, view[r])  BY <1>1 DEF Paged, SameClient
<1>5. Lined(q, view[r])  BY DEF Lined, Unread, Calls, Discovering
<1> QED  BY <1>1, <1>3, <1>4, <1>5 DEF Good

\* Nothing is said yet about the selected target.
LEMMA PlainSelection ==
    ASSUME Inv, NEW r \in Requests, NEW q, SameClient(q, req[r]),
           req[r].pc \notin {"idle", "done"}, q.pc \notin {"replicaSet", "create"}, q.answer = "none",
           q.kind = "generate" => q.pc \notin {"observation", "pod", "load", "save"} \/ ~Bound(q)
    PROVE  OnSelection(q)
<1>1. LivePods \subseteq req[r].live  BY InvIs DEF OnSelection
<1> QED  BY <1>1 DEF OnSelection, SameClient

\* A request goes on to its next step, before any read.
LEMMA Proceeds ==
    ASSUME Inv, NEW r \in Requests, NEW q \in Request, req' = [req EXCEPT ![r] = q],
           SameClient(q, req[r]), req[r].pc \in Unread, q.pc \in Unread, q.answer = "none",
           req[r].pc \notin {"idle", "select", "lead"}, req[r].pc \notin ReadSteps,
           q.pc \notin {"idle", "select", "lead", "wait"},
           Place(q), Authorised(q), OnSelection(q),
           UNCHANGED <<mode, session, flight, view, stops, changes>>, UNCHANGED cluster,
           \/ slots' = slots /\ q.pc \notin ReadSteps
           \/ slots < MaxReads /\ slots' = slots + 1 /\ q.pc \in ReadSteps
    PROVE  Inv'
<1>1. World' /\ Kept /\ Held /\ rbac' = rbac  BY Quiet
<1>2. view' = [view EXCEPT ![r] = view[r]]  BY SameView
<1>3. Good(q, view[r])  BY UnreadGood
<1>4. q.want = req[r].want /\ req[r].live \subseteq q.live  BY DEF SameClient
<1> QED  BY <1>1, <1>2, <1>3, <1>4, Local

-----------------------------------------------------------------------------
(* Arrival and capability discovery                                            *)

LEMMA Unmoved ==
    ASSUME Inv, req' = req, view' = view, slots' = slots, Kept, Held, World', Flights',
           flight' = [x \in Requests |-> flight'[x]]
    PROVE  Inv'
<1>1. Started'
  <2> SUFFICES ASSUME NEW o \in Obs, obs'[o].by \in Requests
               PROVE  StartedBy(obs[o], req[obs[o].by])'
    BY DEF Started
  <2>1. /\ obs'[o].by = obs[o].by /\ obs'[o].wl = obs[o].wl /\ obs'[o].pod = obs[o].pod
        /\ workload'.viaReplicaSet = workload.viaReplicaSet
    BY DEF Held
  <2>2. StartedBy(obs[o], req[obs[o].by])  BY <2>1 DEF Inv, Started
  <2> QED  BY <2>1, <2>2 DEF StartedBy, Valid
<1>2. Slots' /\ Domains'  BY DEF Inv, Slots, Domains, Readers
<1>3. ASSUME NEW x \in Requests  PROVE Good(req[x], view[x])'
  <2>1. PICK p : p = req[x]  OBVIOUS
  <2>2. PICK w : w = view[x]  OBVIOUS
  <2>3. Good(p, w)'  BY <2>1, <2>2, GoodKept DEF Inv
  <2> QED  BY <2>1, <2>2, <2>3
<1> QED  BY <1>1, <1>2, <1>3 DEF Inv

LEMMA OpenKeeps ==
    ASSUME Inv, Open
    PROVE  Inv'
<1>1. /\ UNCHANGED <<mode, req, flight, view, slots, stops, faults, changes>>
      /\ UNCHANGED <<rbac, pods, workload, obs, proposals, attempts, offered, issued, turmoil>>
  BY DEF Open, cluster
<1>2. session' \in {"here", "elsewhere"}  BY DEF Open, Inv, World, Turmoil
<1>3. World'  BY <1>1, <1>2 DEF Inv, World, UIDsName, TokenOK
<1>4. Kept /\ Held  BY <1>1 DEF Kept, Held
<1>5. Flights'  BY <1>1 DEF Inv, Flights, Led, Follows, authorityProjectionKey
<1>6. flight' = [x \in Requests |-> flight'[x]]  BY <1>1 DEF Inv, Domains
<1> QED  BY <1>1, <1>3, <1>4, <1>5, <1>6, Unmoved

LEMMA FlightIs ==
    ASSUME Inv, NEW r \in Requests
    PROVE  Led(r, req[r], flight[r]) /\ Follows(req[r]) /\ flight[r] \in Flight
BY DEF Inv, Flights, Led

LEMMA AtFlight ==
    ASSUME Inv, NEW r \in Requests, NEW f, flight' = [flight EXCEPT ![r] = f]
    PROVE  /\ flight' = [x \in Requests |-> flight'[x]] /\ flight'[r] = f
           /\ \A x \in Requests \ {r} : flight'[x] = flight[x]
BY DEF Inv, Domains

\* One flight changes; if requests wait for it, it stays for them.
LEMMA FlightsChange ==
    ASSUME Inv, NEW r \in Requests, NEW q, NEW f,
           req' = [req EXCEPT ![r] = q], flight' = [flight EXCEPT ![r] = f], rbac' = rbac,
           flight[r].shared => f.shared /\ f.key = flight[r].key,
           Led(r, q, f), q.pc = "wait" => Follows(q)'
    PROVE  Flights'
<1> SUFFICES ASSUME NEW x \in Requests
             PROVE  Led(x, req[x], flight[x])' /\ Follows(req[x])'
  BY DEF Flights
<1>1. Led(x, req[x], flight[x]) /\ Follows(req[x])  BY FlightIs
<1>2. CASE x # r
  <2>1. req'[x] = req[x] /\ flight'[x] = flight[x]  BY <1>2, AtRequest, AtFlight
  <2>2. Led(x, req[x], flight[x])'  BY <1>1, <2>1 DEF Led, authorityProjectionKey
  <2>3. ASSUME req[x].pc = "wait"  PROVE Follows(req[x])'
    <3>1. /\ req[x].leader \in Requests /\ flight[req[x].leader].shared
          /\ flight[req[x].leader].key = authorityProjectionKey(req[x])
      BY <1>1, <2>3 DEF Follows
    <3>2. flight'[req[x].leader].shared /\ flight'[req[x].leader].key = flight[req[x].leader].key
      BY <3>1, AtFlight
    <3> QED  BY <2>1, <3>1, <3>2 DEF Follows, authorityProjectionKey
  <2> QED  BY <2>1, <2>2, <2>3 DEF Follows
<1>3. CASE x = r
  <2>1. req'[x] = q /\ flight'[x] = f  BY <1>3, AtRequest, AtFlight
  <2>2. Led(r, q, f)'  BY DEF Led, authorityProjectionKey
  <2>3. Follows(q)'  BY DEF Follows
  <2> QED  BY <1>3, <2>1, <2>2, <2>3 DEF Led, Follows, authorityProjectionKey
<1> QED  BY <1>2, <1>3

LEMMA NoFlightIs ==
    /\ NoFlight \in Flight /\ ~NoFlight.shared /\ ~NoFlight.open
    /\ [NoFlight EXCEPT !.open = TRUE] \in Flight
    /\ [NoFlight EXCEPT !.open = TRUE].open /\ ~[NoFlight EXCEPT !.open = TRUE].shared
<1>1. [s \in Subjects |-> {}] \in [Subjects -> SUBSET Rules]  OBVIOUS
<1> QED  BY <1>1 DEF NoFlight, Flight

LEMMA NoTargetIs == NoTarget \in Target
<1>1. Min(Pods) \in Pods  BY WorkbenchAssumption, MinOf
<1> QED  BY <1>1 DEF NoTarget, Target

LEMMA NoTokenIs == NoToken \in Token
BY DEF NoToken, Token, Scopes

LEMMA WantsAreTargets ==
    ASSUME Inv, NEW q \in Request, NEW want \in Wants(q)
    PROVE  want \in Target
<1>1. offered \in SUBSET Target  BY DEF Inv, World
<1>2. \A t \in Target : [t EXCEPT !.image = 0] \in Target  BY DEF Target
<1>3. q.pick \in {"none", "target", "image"}  BY DEF Request
<1> QED  BY <1>1, <1>2, <1>3, NoTargetIs DEF Wants

LEMMA AcceptedGood ==
    ASSUME Inv, NEW r \in Requests, req[r].pc = "idle",
           NEW want \in Wants(req[r]), NEW token \in Tokens(req[r])
    PROVE  /\ Good(Accepted(req[r], want, token), view[r])
           /\ Accepted(req[r], want, token).pc \in {"select", "enter"}
<1>1. PICK p \in Request : p = req[r]  BY InvIs
<1>2. PICK q : q = Accepted(p, want, token)  OBVIOUS
<1>3. want \in Target  BY <1>1, WantsAreTargets
<1>4. token \in Token /\ (token # NoToken => token.kind = p.kind /\ TokenOK(token))
  BY <1>1, NoTokenIs DEF Tokens, Inv, World
<1>5. LivePods \subseteq Pod  BY DEF LivePods, Live, Inv, World
<1>6. p.header # NoHeader => p.header.ns \in Namespaces  BY DEF Request, Headers
<1>7. Home \in Namespaces /\ {"select", "enter"} \subseteq Pcs  BY DEF Namespaces, Pcs
<1>8. /\ q \in Request /\ q.pc \in {"select", "enter"} /\ q.answer = p.answer /\ q.kind = p.kind
      /\ q.obs = p.obs /\ q.token = token /\ q.live = LivePods /\ q.caps = p.caps
      /\ q.passed = p.passed /\ q.held = p.held
  <2>1. (mode = "proxy" \/ p.header # NoHeader) \in BOOLEAN  OBVIOUS
  <2> QED  BY ZenonT(60), <1>2, <1>3, <1>4, <1>5, <1>6, <1>7, <2>1 DEF Accepted, Request
<1>9. p.answer = "none"  BY <1>1, InvIs DEF Place
<1>10. Place(q)  BY <1>1, <1>8, <1>9, InvIs DEF Place, Discovering
<1>11. Authorised(q)  BY <1>1, <1>8, InvIs DEF Authorised
<1>12. OnSelection(q)  BY <1>8, <1>9 DEF OnSelection
<1>13. view[r] = NoView /\ view[r] \in View  BY InvIs DEF Projected, Unread
<1>14. NoView.fresh = {}  BY DEF NoView
<1>15. Projected(q, view[r])  BY <1>8, <1>9, <1>13, <1>14 DEF Projected
<1>16. Paged(q, view[r])  BY <1>4, <1>8, <1>9 DEF Paged
<1>17. Lined(q, view[r])  BY <1>8, <1>9 DEF Lined
<1> QED  BY <1>1, <1>2, <1>8, <1>10, <1>11, <1>12, <1>13, <1>15, <1>16, <1>17 DEF Good

LEMMA ServeHTTPKeeps ==
    ASSUME Inv, NEW r \in Requests, ServeHTTP(r)
    PROVE  Inv'
<1>1. /\ UNCHANGED <<mode, session, view, slots, stops, changes>> /\ UNCHANGED cluster
      /\ req[r].pc = "idle"
      /\ flight' = IF req'[r].pc = "select"
                   THEN [flight EXCEPT ![r] = [NoFlight EXCEPT !.open = TRUE]]
                   ELSE flight
  BY DEF ServeHTTP, At
<1>2. ASSUME NEW a \in {"REJECTED", "UNAUTHENTICATED", "STALE_CONTEXT"}, Answered(r, a)  PROVE Inv'
  <2>1. PICK q : q = Closed(req[r], a)  OBVIOUS
  <2>2. req' = [req EXCEPT ![r] = q]  BY <1>2, <2>1 DEF Answered, Become
  <2>3. a \in Answers \ {"none"} /\ a # "OK"  BY DEF Answers
  <2>4. q.pc = "done"  BY <2>1, <2>3, InvIs, ClosedIs
  <2>5. flight' = flight  BY <1>1, <2>2, <2>4, AtRequest
  <2>6. "idle" \notin ReadSteps  BY DEF ReadSteps
  <2> QED  BY <1>1, <1>2, <2>3, <2>5, <2>6, QuietlyQuits
<1>3. ASSUME NEW want \in Wants(req[r]), NEW token \in Tokens(req[r]),
             Become(r, Accepted(req[r], want, token))
      PROVE  Inv'
  <2>1. PICK q : q = Accepted(req[r], want, token)  OBVIOUS
  <2>2. req' = [req EXCEPT ![r] = q]  BY <1>3, <2>1 DEF Become
  <2>3. Good(q, view[r]) /\ q.pc \in {"select", "enter"}  BY <1>1, <2>1, AcceptedGood
  <2>4. World' /\ Kept /\ Held /\ rbac' = rbac  BY <1>1, Quiet
  <2>5. req'[r] = q  BY <2>2, AtRequest
  <2>6. view' = [view EXCEPT ![r] = view[r]]  BY <1>1, SameView
  <2>7. "idle" \notin ReadSteps /\ "select" \notin ReadSteps /\ "enter" \notin ReadSteps  BY DEF ReadSteps
  <2>8. CASE q.pc = "enter"
    <3>1. flight' = flight  BY <1>1, <2>5, <2>8
    <3> QED  BY <1>1, <2>2, <2>3, <2>4, <2>6, <2>7, <2>8, <3>1, Local
  <2>9. CASE q.pc = "select"
    <3>1. PICK f : f = [NoFlight EXCEPT !.open = TRUE]  OBVIOUS
    <3>2. f \in Flight /\ f.open /\ ~f.shared  BY <3>1, NoFlightIs
    <3>3. flight' = [flight EXCEPT ![r] = f]  BY <1>1, <2>5, <2>9, <3>1
    <3>4. ~flight[r].shared  BY <1>1, FlightIs DEF Led
    <3>5. Led(r, q, f)  BY <2>9, <3>2 DEF Led
    <3>6. Flights'  BY <2>2, <2>4, <2>9, <3>3, <3>4, <3>5, FlightsChange
    <3>7. flight' = [x \in Requests |-> flight'[x]]  BY <3>3, AtFlight
    <3> QED  BY <1>1, <2>2, <2>3, <2>4, <2>6, <2>7, <2>9, <3>6, <3>7, Moves
  <2> QED  BY <2>3, <2>8, <2>9
<1> QED  BY <1>2, <1>3 DEF ServeHTTP

LEMMA DiscoverCapabilitiesKeeps ==
    ASSUME Inv, NEW r \in Requests, DiscoverCapabilities(r)
    PROVE  Inv'
<1> DEFINE rule == ReviewOrder[flight[r].done + 1]
<1>1. PICK g \in Flight : g = flight[r]  BY FlightIs
<1>2. /\ UNCHANGED <<mode, session, req, view, slots, stops, changes>> /\ UNCHANGED cluster
  BY DEF DiscoverCapabilities
<1>3. PICK f : /\ flight' = [flight EXCEPT ![r] = f]
               /\ \/ f = [g EXCEPT !.done = @ + 1,
                                   !.granted = IF Permitted(r, rule) THEN @ \cup {rule} ELSE @]
                  \/ f = [g EXCEPT !.failed = TRUE]
  <2>1. flight = [x \in Requests |-> flight[x]]  BY DEF Inv, Domains
  <2>2. CASE flight' = [flight EXCEPT ![r].failed = TRUE]
    <3>1. PICK f : f = [g EXCEPT !.failed = TRUE]  OBVIOUS
    <3>2. flight' = [flight EXCEPT ![r] = f]  BY <1>1, <2>1, <2>2, <3>1
    <3> QED  BY <3>1, <3>2
  <2>3. CASE flight' = [flight EXCEPT ![r].done = @ + 1,
                            ![r].granted = IF Permitted(r, rule) THEN @ \cup {rule} ELSE @]
    <3>1. PICK granted : granted = IF Permitted(r, rule) THEN g.granted \cup {rule} ELSE g.granted
      OBVIOUS
    <3>2. PICK f : f = [g EXCEPT !.done = g.done + 1, !.granted = granted]  OBVIOUS
    <3>3. flight' = [flight EXCEPT ![r] = f]
      <4> HIDE DEF rule
      <4> QED  BY <1>1, <2>1, <2>3, <3>1, <3>2 DEF Flight
    <3> QED  BY <3>1, <3>2, <3>3
  <2> QED  BY <2>2, <2>3 DEF DiscoverCapabilities
<1>4. <<req[r].user, req[r].ns>> \in Subjects /\ rbac \in [Subjects -> SUBSET Rules]
  BY InvIs DEF Request, Subjects, Inv, World
<1>5. Permitted(r, rule) => rule \in Rules /\ rule \in rbac[<<req[r].user, req[r].ns>>]
  BY <1>4 DEF Permitted
<1> HIDE DEF rule
<1>6. /\ f \in Flight /\ f.open = g.open /\ f.shared = g.shared /\ f.key = g.key /\ f.held = g.held
      /\ \A x \in f.granted : x \in g.granted \/ x \in rbac[<<req[r].user, req[r].ns>>]
  <2>1. g.done + 1 \in Nat  BY DEF Flight
  <2>2. CASE f = [g EXCEPT !.done = @ + 1,
                           !.granted = IF Permitted(r, rule) THEN @ \cup {rule} ELSE @]
    BY <1>5, <2>1, <2>2 DEF Flight
  <2>3. CASE f = [g EXCEPT !.failed = TRUE]
    BY <2>3 DEF Flight
  <2> QED  BY <1>3, <2>2, <2>3
<1>7. Led(r, req[r], g)  BY <1>1, FlightIs
<1>8. Led(r, req[r], f)  BY <1>4, <1>6, <1>7 DEF Led
<1>9. req' = [req EXCEPT ![r] = req[r]]  BY <1>2 DEF Inv, Domains
<1>10. World' /\ Kept /\ Held /\ rbac' = rbac  BY <1>2, Quiet
<1>11. ASSUME req[r].pc = "wait"  PROVE Follows(req[r])'
  <2>1. ~g.open  BY <1>7, <1>11 DEF Led
  <2> QED  BY <1>1, <2>1 DEF DiscoverCapabilities
<1>12. PICK q : q = req[r]  OBVIOUS
<1>13. q.pc = "wait" => Follows(q)'  BY <1>2, <1>11, <1>12 DEF Follows, authorityProjectionKey
<1>14. Flights'  BY <1>1, <1>3, <1>6, <1>8, <1>9, <1>10, <1>12, <1>13, FlightsChange
<1>15. flight' = [x \in Requests |-> flight'[x]]  BY <1>3, AtFlight
<1> QED  BY <1>2, <1>10, <1>14, <1>15, Unmoved

LEMMA SelectNamespaceKeeps ==
    ASSUME Inv, NEW r \in Requests, SelectNamespace(r)
    PROVE  Inv'
<1>1. /\ req[r].pc = "select" /\ flight' = [flight EXCEPT ![r] = NoFlight]
      /\ UNCHANGED <<mode, session, view, slots, stops, changes>> /\ UNCHANGED cluster
  BY DEF SelectNamespace, At
<1>2. World' /\ Kept /\ Held /\ rbac' = rbac  BY <1>1, Quiet
<1>3. view' = [view EXCEPT ![r] = view[r]] /\ view[r] \in View  BY <1>1, SameView, InvIs
<1>4. "select" \in Unread /\ "enter" \in Unread /\ "enter" \in Pcs  BY DEF Unread, Pcs
<1>5. ~({"select", "enter", "done"} \cap ReadSteps # {})  BY DEF ReadSteps
<1>6. PICK p \in Request : p = req[r]  BY InvIs
<1>7. SameClient(p, p) /\ p.answer = "none" /\ \A c \in p.passed : capabilityRules[c] \subseteq p.held
  BY <1>1, <1>6, InvIs DEF SameClient, Place, Authorised
<1>8. PICK q : /\ req' = [req EXCEPT ![r] = q]
               /\ \/ \E a \in {"UNAVAILABLE", "STALE_CONTEXT"} : q = Closed(p, a)
                  \/ q = [p EXCEPT !.pc = "enter"]
  BY <1>6 DEF SelectNamespace, Answered, Goto, Become
<1>9. Good(q, view[r]) /\ SameClient(q, p) /\ q.pc \in {"done", "enter"}
  <2>1. ASSUME NEW a \in {"UNAVAILABLE", "STALE_CONTEXT"}, q = Closed(p, a)
        PROVE  Good(q, view[r]) /\ SameClient(q, p) /\ q.pc = "done"
    <3>1. a \in Answers \ {"none"} /\ a # "OK"  BY DEF Answers
    <3> QED  BY <1>3, <1>6, <1>7, <2>1, <3>1, ClosedGood, ClosedIs
  <2>2. ASSUME q = [p EXCEPT !.pc = "enter"]
        PROVE  Good(q, view[r]) /\ SameClient(q, p) /\ q.pc = "enter"
    <3>1. /\ q \in Request /\ SameClient(q, p) /\ q.pc = "enter" /\ q.caps = p.caps
          /\ q.passed = p.passed /\ q.held = p.held /\ q.answer = p.answer
      BY <1>4, <2>2, GotoIs
    <3>2. Place(q)  BY <1>6, <1>7, <3>1, InvIs DEF Place, SameClient, Discovering
    <3>3. Authorised(q)  BY <1>6, <3>1, InvIs DEF Authorised
    <3>4. OnSelection(q)  BY <1>1, <1>6, <1>7, <3>1, PlainSelection
    <3> QED  BY <1>1, <1>4, <1>6, <1>7, <3>1, <3>2, <3>3, <3>4, UnreadGood
  <2> QED  BY <1>8, <2>1, <2>2
<1>10. ~flight[r].shared  BY <1>1, FlightIs DEF Led
<1>11. Led(r, q, NoFlight)  BY <1>9, NoFlightIs DEF Led
<1>12. Flights'  BY <1>1, <1>2, <1>8, <1>9, <1>10, <1>11, FlightsChange
<1>13. flight' = [x \in Requests |-> flight'[x]]  BY <1>1, AtFlight
<1>14. q.want = req[r].want /\ req[r].live \subseteq q.live  BY <1>6, <1>9 DEF SameClient
<1> QED  BY <1>1, <1>2, <1>3, <1>5, <1>8, <1>9, <1>12, <1>13, <1>14, Moves

LEMMA DoKeeps ==
    ASSUME Inv, NEW r \in Requests, Do(r)
    PROVE  Inv'
<1> DEFINE key == authorityProjectionKey(req[r])
<1>1. /\ req[r].pc = "gate"
      /\ UNCHANGED <<mode, session, view, slots, stops, changes>> /\ UNCHANGED cluster
  BY DEF Do, At
<1>2. World' /\ Kept /\ Held /\ rbac' = rbac  BY <1>1, Quiet
<1>3. view' = [view EXCEPT ![r] = view[r]]  BY <1>1, SameView
<1>4. {"gate", "lead", "wait"} \subseteq Unread /\ {"lead", "wait"} \subseteq Pcs
  BY DEF Unread, Pcs, Discovering
<1>5. {"gate", "lead", "wait"} \cap ReadSteps = {}  BY DEF ReadSteps
<1>6. PICK p \in Request : p = req[r]  BY InvIs
<1>7. p.answer = "none"  BY <1>1, <1>6, InvIs DEF Place
<1>8. ASSUME NEW q, NEW pc \in {"lead", "wait"}, NEW y \in Requests, q = [p EXCEPT !.pc = pc, !.leader = y]
      PROVE  /\ Good(q, view[r]) /\ q.pc = pc /\ q.leader = y /\ SameClient(q, p)
  <2>1. /\ q \in Request /\ SameClient(q, p) /\ q.pc = pc /\ q.caps = p.caps /\ q.leader = y
        /\ q.passed = p.passed /\ q.held = p.held /\ q.answer = p.answer
    BY <1>4, <1>8 DEF Request, SameClient
  <2>2. Place(q)  BY <1>1, <1>6, <1>7, <2>1, InvIs DEF Place, SameClient, Discovering
  <2>3. Authorised(q)  BY <1>6, <2>1, InvIs DEF Authorised
  <2>4. OnSelection(q)  BY <1>1, <1>6, <1>7, <2>1, PlainSelection
  <2> QED  BY <1>1, <1>4, <1>6, <1>7, <2>1, <2>2, <2>3, <2>4, UnreadGood
<1>9. ~flight[r].open /\ ~flight[r].shared /\ flight[r] \in Flight  BY <1>1, FlightIs DEF Led
<1>10. ASSUME NEW y \in Requests, flight[y].shared, flight[y].key = key,
              Become(r, [req[r] EXCEPT !.pc = "wait", !.leader = y]), flight' = flight
       PROVE  Inv'
  <2>1. PICK q : q = [p EXCEPT !.pc = "wait", !.leader = y]  OBVIOUS
  <2>2. req' = [req EXCEPT ![r] = q]  BY <1>6, <1>10, <2>1 DEF Become
  <2>3. Good(q, view[r]) /\ q.pc = "wait" /\ q.leader = y /\ SameClient(q, p)  BY <1>8, <2>1
  <2>4. flight' = [flight EXCEPT ![r] = flight[r]]  BY <1>10 DEF Inv, Domains
  <2>5. Led(r, q, flight[r])  BY <1>9, <2>3 DEF Led
  <2>6. Follows(q)'
    BY <1>6, <1>10, <2>3 DEF Follows, SameClient, authorityProjectionKey
  <2>7. Flights'  BY <1>2, <1>9, <2>2, <2>4, <2>5, <2>6, FlightsChange
  <2>8. flight' = [x \in Requests |-> flight'[x]]  BY <2>4, AtFlight
  <2>9. q.want = req[r].want /\ req[r].live \subseteq q.live  BY <1>6, <2>3 DEF SameClient
  <2> QED  BY <1>1, <1>2, <1>3, <1>5, <2>2, <2>3, <2>7, <2>8, <2>9, Moves
<1>11. ASSUME Become(r, [req[r] EXCEPT !.pc = "lead", !.leader = r]),
              flight' = [flight EXCEPT ![r] = [NoFlight EXCEPT !.open = TRUE, !.shared = TRUE,
                                                   !.key = key, !.held = rbac]]
       PROVE  Inv'
  <2>1. PICK q : q = [p EXCEPT !.pc = "lead", !.leader = r]  OBVIOUS
  <2>2. req' = [req EXCEPT ![r] = q]  BY <1>6, <1>11, <2>1 DEF Become
  <2>3. Good(q, view[r]) /\ q.pc = "lead" /\ q.leader = r /\ SameClient(q, p)  BY <1>8, <2>1
  <2>4. PICK f : f = [NoFlight EXCEPT !.open = TRUE, !.shared = TRUE, !.key = key, !.held = rbac]
    OBVIOUS
  <2>5. key \in Keys /\ key = authorityProjectionKey(q)
    <3>1. p.user \in Users /\ p.ns \in Namespaces /\ p.header \in Headers  BY DEF Request
    <3>2. p.header.version \in Nat  BY <3>1 DEF Headers, NoHeader
    <3> QED  BY <1>6, <2>3, <3>1, <3>2 DEF authorityProjectionKey, Keys, SameClient
  <2>6. f \in Flight /\ f.open /\ f.shared /\ f.key = key /\ f.held = rbac /\ f.granted = {}
    <3>1. rbac \in [Subjects -> SUBSET Rules]  BY DEF Inv, World
    <3> HIDE DEF key
    <3> QED  BY <2>4, <2>5, <3>1 DEF Flight, NoFlight
  <2>7. Led(r, q, f)  BY <2>3, <2>5, <2>6 DEF Led
  <2>8. flight' = [flight EXCEPT ![r] = f]  BY <1>11, <2>4
  <2>9. Flights'  BY <1>2, <1>9, <2>2, <2>3, <2>7, <2>8, FlightsChange
  <2>10. flight' = [x \in Requests |-> flight'[x]]  BY <2>8, AtFlight
  <2>11. q.want = req[r].want /\ req[r].live \subseteq q.live  BY <1>6, <2>3 DEF SameClient
  <2> QED  BY <1>1, <1>2, <1>3, <1>5, <2>2, <2>3, <2>9, <2>10, <2>11, Moves
<1> QED  BY <1>10, <1>11 DEF Do

LEMMA DeliverKeeps ==
    ASSUME Inv, NEW r \in Requests, Deliver(r)
    PROVE  Inv'
<1>1. PICK f \in Flight : f = flight[r]  BY FlightIs
<1> DEFINE Woken(q) == [req[q] EXCEPT !.pc = "woken", !.leader = Nobody, !.failed = f.failed,
                            !.caps = Granted(f.granted),
                            !.held = @ \cup f.held[<<req[q].user, req[q].ns>>]]
<1>2. /\ req[r].pc = "lead" /\ flight' = [flight EXCEPT ![r] = NoFlight]
      /\ UNCHANGED <<mode, session, view, slots, stops, changes>> /\ UNCHANGED cluster
      /\ req' = [q \in Requests |-> IF q \in Joined(r) THEN Woken(q) ELSE req[q]]
  BY <1>1 DEF Deliver, At
<1>3. World' /\ Kept /\ Held /\ rbac' = rbac  BY <1>2, Quiet
<1>4. /\ f.shared /\ f.key = authorityProjectionKey(req[r])
      /\ f.granted \subseteq f.held[<<req[r].user, req[r].ns>>] /\ r \in Joined(r)
  BY <1>1, <1>2, FlightIs DEF Led, Joined
<1>5. ASSUME NEW x \in Joined(r)
      PROVE  /\ x \in Requests /\ req[x].pc \in {"lead", "wait"} /\ (req[x].pc = "lead" => x = r)
             /\ authorityProjectionKey(req[x]) = f.key
  <2>1. x \in Requests /\ req[x].pc \in {"lead", "wait"} /\ req[x].leader = r  BY DEF Joined
  <2>2. req[x].pc = "lead" => x = r  BY <2>1, FlightIs DEF Led
  <2>3. req[x].pc = "wait" => authorityProjectionKey(req[x]) = f.key
    BY <1>1, <2>1, FlightIs DEF Follows
  <2> QED  BY <1>4, <2>1, <2>2, <2>3
<1>6. ASSUME NEW x \in Joined(r)
      PROVE  /\ Good(Woken(x), view[x]) /\ Woken(x).pc = "woken" /\ SameClient(Woken(x), req[x])
  <2>1. PICK p \in Request : p = req[x]  BY <1>5, InvIs
  <2>2. PICK h : h = f.held[<<p.user, p.ns>>]  OBVIOUS
  <2>3. PICK caps : caps = Granted(f.granted)  OBVIOUS
  <2>4. PICK w : w = [p EXCEPT !.pc = "woken", !.leader = Nobody, !.failed = f.failed, !.caps = caps,
                          !.held = @ \cup h]
    OBVIOUS
  <2>5. caps \subseteq Caps /\ \A c \in caps : capabilityRules[c] \subseteq f.granted
    BY <2>3 DEF Granted, Caps
  <2>6. p.user = req[r].user /\ p.ns = req[r].ns  BY <1>4, <1>5, <2>1 DEF authorityProjectionKey
  <2>7. h \subseteq Rules /\ f.granted \subseteq h
    <3>1. <<p.user, p.ns>> \in Subjects  BY DEF Request, Subjects
    <3> QED  BY <1>4, <2>2, <2>6, <3>1 DEF Flight
  <2>8. "woken" \in Pcs /\ f.failed \in BOOLEAN  BY DEF Pcs, Discovering, Flight
  <2>9. /\ w \in Request /\ SameClient(w, p) /\ w.pc = "woken" /\ w.caps = caps /\ w.answer = p.answer
        /\ w.passed = p.passed /\ w.held = p.held \cup h
    BY <2>4, <2>5, <2>7, <2>8 DEF Request, SameClient
  <2>10. p.answer = "none" /\ p.pc \in {"lead", "wait"}  BY <1>5, <2>1, InvIs DEF Place
  <2>11. Place(w)  BY <1>5, <2>1, <2>9, <2>10, InvIs DEF Place, SameClient, Discovering
  <2>12. Authorised(w)
    <3>1. Authorised(p)  BY <1>5, <2>1, InvIs
    <3> QED  BY <2>5, <2>7, <2>9, <3>1 DEF Authorised
  <2>13. OnSelection(w)  BY <1>5, <2>1, <2>9, <2>10, PlainSelection
  <2>14. {"lead", "wait", "woken"} \subseteq Unread  BY DEF Unread, Discovering
  <2>15. Good(w, view[x])
    BY <1>5, <2>1, <2>9, <2>10, <2>11, <2>12, <2>13, <2>14, UnreadGood
  <2> QED  BY <2>1, <2>2, <2>3, <2>4, <2>9, <2>15
<1>7. \A x \in Requests : req'[x] = IF x \in Joined(r) THEN Woken(x) ELSE req[x]  BY <1>2
<1> HIDE DEF Woken
<1>8. \A x \in Requests : SameClient(req'[x], req[x]) /\ (req[x].pc # "idle" => req'[x].pc # "idle")
  BY <1>6, <1>7 DEF SameClient
<1>9. Started'
  <2> SUFFICES ASSUME NEW o \in Obs, obs'[o].by \in Requests
               PROVE  StartedBy(obs[o], req[obs[o].by])'
    BY DEF Started
  <2>1. PICK y \in Requests : y = obs[o].by /\ obs'[o].by = y  BY <1>3 DEF Held
  <2>2. /\ obs'[o].wl = obs[o].wl /\ obs'[o].pod = obs[o].pod
        /\ workload'.viaReplicaSet = workload.viaReplicaSet
    BY <1>3 DEF Held
  <2>3. StartedBy(obs[o], req[y])  BY <2>1 DEF Inv, Started
  <2>4. req'[y].want = req[y].want /\ req'[y].live = req[y].live
    BY <1>8 DEF SameClient
  <2> QED  BY <1>8, <2>1, <2>2, <2>3, <2>4 DEF StartedBy, Valid
<1>10. Slots'
  <2>1. {"lead", "wait", "woken"} \cap ReadSteps = {}  BY DEF ReadSteps
  <2>2. Readers' = Readers  BY <1>5, <1>6, <1>7, <2>1 DEF Readers
  <2> QED  BY <1>2, <2>2 DEF Inv, Slots
<1>11. flight' = [x \in Requests |-> flight'[x]] /\ flight'[r] = NoFlight
       /\ \A x \in Requests \ {r} : flight'[x] = flight[x]
  BY <1>2, AtFlight
<1>12. Domains'  BY <1>2, <1>7, <1>11 DEF Inv, Domains
<1>13. Flights'
  <2> SUFFICES ASSUME NEW x \in Requests
               PROVE  Led(x, req[x], flight[x])' /\ Follows(req[x])'
    BY DEF Flights
  <2>1. Led(x, req[x], flight[x]) /\ Follows(req[x])  BY FlightIs
  <2>2. CASE x = r
    <3>1. req'[x].pc = "woken"  BY <1>4, <1>6, <1>7, <2>2
    <3> QED  BY <1>11, <2>2, <3>1, NoFlightIs DEF Led, Follows
  <2>3. CASE x # r /\ x \in Joined(r)
    <3>1. req'[x].pc = "woken" /\ req[x].pc = "wait"  BY <1>5, <1>6, <1>7, <2>3
    <3>2. ~flight[x].open /\ ~flight[x].shared  BY <2>1, <3>1 DEF Led
    <3> QED  BY <1>11, <2>1, <2>3, <3>1, <3>2 DEF Led, Follows
  <2>4. CASE x # r /\ x \notin Joined(r)
    <3>1. req'[x] = req[x] /\ flight'[x] = flight[x]  BY <1>7, <1>11, <2>4
    <3>2. Led(x, req[x], flight[x])'  BY <1>3, <2>1, <3>1 DEF Led, authorityProjectionKey
    <3>3. ASSUME req[x].pc = "wait"  PROVE Follows(req[x])'
      <4>1. req[x].leader \in Requests /\ req[x].leader # r
        BY <2>1, <2>4, <3>3 DEF Follows, Joined
      <4> QED  BY <1>11, <2>1, <3>1, <4>1 DEF Follows, authorityProjectionKey
    <3> QED  BY <3>1, <3>2, <3>3 DEF Follows
  <2> QED  BY <2>2, <2>3, <2>4
<1>14. ASSUME NEW x \in Requests  PROVE Good(req[x], view[x])'
  <2>1. PICK p : p = req'[x]  OBVIOUS
  <2>2. PICK w : w = view[x]  OBVIOUS
  <2>3. Good(p, w)  BY <1>6, <1>7, <2>1, <2>2, InvIs
  <2>4. Good(p, w)'  BY <1>3, <2>3, GoodKept
  <2> QED  BY <1>2, <2>1, <2>2, <2>4
<1> QED  BY <1>3, <1>9, <1>10, <1>12, <1>13, <1>14 DEF Inv

LEMMA AbandonKeeps ==
    ASSUME Inv, NEW r \in Requests, Abandon(r)
    PROVE  Inv'
<1>1. PICK a \in {"ERROR", "DENIED"} : Answered(r, a)  BY DEF Abandon
<1>2. a \in Answers \ {"none"} /\ a # "OK"  BY DEF Answers
<1>3. "wait" \notin ReadSteps  BY DEF ReadSteps
<1> QED  BY <1>1, <1>2, <1>3, QuietlyQuits DEF Abandon, At

-----------------------------------------------------------------------------
(* The handlers of changes                                                     *)

LEMMA BegunIs ==
    ASSUME NEW p \in Request, p.kind \notin Reads \ Lineage, p.kind # "capabilities",
           NEW q, q = Begun(p)
    PROVE  \/ \E a \in {"INVALID", "STALE_CONTEXT", "PRECONDITION_REQUIRED"} : q = Closed(p, a)
           \/ \E pc \in {"pod", "observation", "load", "admit", "run"} :
                 /\ q = [p EXCEPT !.pc = pc]
                 /\ pc = "pod" => p.kind = "start"
                 /\ pc = "observation" => p.kind \in {"stop", "status", "generate"}
                 /\ pc = "load" => p.kind = "generate" /\ ~Bound(p)
                 /\ pc = "admit" => p.kind \in Lineage
                 /\ pc = "run" => p.kind \in {"apply", "rollback"}
                 /\ p.kind = "generate" /\ Bound(p) => Valid(p.want) /\ p.want.image # 0
<1>1. p.kind \in {"start", "stop", "status", "generate", "apply", "rollback"} \cup Lineage
  BY DEF Request, Kinds
<1>2. CASE p.kind = "start"  BY <1>2 DEF Begun
<1>3. CASE p.kind = "stop"
  <2>1. CASE p.authenticated /\ p.header.ns # p.body  BY <1>3, <2>1 DEF Begun
  <2>2. CASE ~p.authenticated /\ p.body # p.ns  BY <1>3, <2>2 DEF Begun
  <2>3. CASE ~(p.authenticated /\ p.header.ns # p.body) /\ ~(~p.authenticated /\ p.body # p.ns)
    BY <1>3, <2>3 DEF Begun
  <2> QED  BY <2>1, <2>2, <2>3
<1>4. CASE p.kind = "status"  BY <1>4 DEF Begun
<1>5. CASE p.kind = "generate"
  <2>0. q = IF p.body # p.ns \/ (Bound(p) /\ (~Valid(p.want) \/ p.want.image = 0))
            THEN Closed(p, "INVALID")
            ELSE [p EXCEPT !.pc = IF Bound(p) THEN "observation" ELSE "load"]
    BY <1>5 DEF Begun, Lineage
  <2>1. CASE p.body # p.ns \/ (Bound(p) /\ (~Valid(p.want) \/ p.want.image = 0))
    BY <2>0, <2>1 DEF Bound, Valid
  <2>2. CASE ~(p.body # p.ns \/ (Bound(p) /\ (~Valid(p.want) \/ p.want.image = 0)))
    <3>1. q = [p EXCEPT !.pc = IF Bound(p) THEN "observation" ELSE "load"]
      BY <2>0, <2>2 DEF Bound, Valid
    <3> QED  BY <1>5, <2>2, <3>1 DEF Bound, Valid
  <2> QED  BY <2>1, <2>2
<1>6. CASE p.kind \in Lineage
  <2>1. p.kind \notin {"start", "stop", "status", "generate"}  BY <1>6 DEF Lineage
  <2>2. q = [p EXCEPT !.pc = "admit"]  BY <1>6, <2>1 DEF Begun
  <2> QED  BY <1>6, <2>1, <2>2
<1>7. CASE p.kind \in {"apply", "rollback"}
  <2>1. p.kind \notin Lineage  BY <1>7 DEF Lineage
  <2>2. q = IF p.versioned THEN [p EXCEPT !.pc = "run"] ELSE Closed(p, "PRECONDITION_REQUIRED")
    BY <1>7, <2>1 DEF Begun
  <2> QED  BY <1>7, <2>1, <2>2
<1> QED  BY <1>1, <1>2, <1>3, <1>4, <1>5, <1>6, <1>7

\* Places before the first call, and of the calls that change something.
Writing == Calls \cup Discovering \cup {"enter", "register", "admit"}

LEMMA WritingIs == Writing \subseteq Unread /\ Writing \subseteq Pcs /\ Writing \cap ReadSteps = {}
BY DEF Writing, Unread, Pcs, Calls, Discovering, ReadSteps

LEMMA BegunKeeps ==
    ASSUME Inv, NEW r \in Requests, req[r].pc \in {"enter", "woken"},
           NEW p \in Request, SameClient(p, req[r]), p.answer = "none", Authorised(p),
           p.kind \notin Reads \ Lineage, p.kind # "capabilities", Become(r, Begun(p)),
           UNCHANGED <<mode, session, flight, view, slots, stops, changes>>, UNCHANGED cluster
    PROVE  Inv'
<1>1. PICK q : q = Begun(p)  OBVIOUS
<1>2. req' = [req EXCEPT ![r] = q]  BY <1>1 DEF Become
<1>3. World' /\ Kept /\ Held /\ rbac' = rbac  BY Quiet
<1>4. view' = [view EXCEPT ![r] = view[r]] /\ view[r] \in View  BY SameView, InvIs
<1>5. {"enter", "woken", "pod", "observation", "load", "admit", "run"} \subseteq Writing
  BY DEF Writing, Calls, Discovering
<1>6. ASSUME NEW a \in {"INVALID", "STALE_CONTEXT", "PRECONDITION_REQUIRED"}, q = Closed(p, a)
      PROVE  Inv'
  <2>1. a \in Answers \ {"none"} /\ a # "OK"  BY DEF Answers
  <2>2. SameClient(q, p) /\ q.pc = "done"  BY <1>6, <2>1, ClosedIs
  <2>3. \A c \in p.passed : capabilityRules[c] \subseteq p.held  BY DEF Authorised
  <2>4. Good(q, view[r])  BY <1>4, <1>6, <2>1, <2>3, ClosedGood
  <2>5. q.want = req[r].want /\ req[r].live \subseteq q.live  BY <2>2 DEF SameClient
  <2>6. "done" \notin ReadSteps /\ "enter" \notin ReadSteps /\ "woken" \notin ReadSteps
    BY DEF ReadSteps
  <2>7. flight' = flight /\ slots' = slots  OBVIOUS
  <2> QED  BY <1>2, <1>3, <1>4, <2>2, <2>4, <2>5, <2>6, <2>7, Local
<1>7. ASSUME NEW pc \in {"pod", "observation", "load", "admit", "run"},
             q = [p EXCEPT !.pc = pc],
             pc = "pod" => p.kind = "start",
             pc = "observation" => p.kind \in {"stop", "status", "generate"},
             pc = "load" => p.kind = "generate" /\ ~Bound(p),
             pc = "admit" => p.kind \in Lineage,
             pc = "run" => p.kind \in {"apply", "rollback"},
             p.kind = "generate" /\ Bound(p) => Valid(p.want) /\ p.want.image # 0
      PROVE  Inv'
  <2>1. /\ q \in Request /\ SameClient(q, p) /\ q.pc = pc /\ q.caps = p.caps
        /\ q.passed = p.passed /\ q.held = p.held /\ q.answer = p.answer
    BY <1>5, <1>7, WritingIs, GotoIs
  <2>2. SameClient(q, req[r])  BY <2>1 DEF SameClient
  <2>3. Place(q)  BY <1>7, <2>1, <2>2, InvIs DEF Place, SameClient, Discovering
  <2>4. Authorised(q)  BY <2>1 DEF Authorised
  <2>5. OnSelection(q)
    <3>1. LivePods \subseteq q.live  BY <2>2, InvIs DEF OnSelection, SameClient
    <3>2. (Bound(q) <=> Bound(p)) /\ (Valid(q.want) <=> Valid(p.want))
      BY <2>1 DEF Bound, Valid, SameClient
    <3> QED  BY <1>7, <2>1, <3>1, <3>2 DEF OnSelection, SameClient
  <2>6. q.pc \in Unread /\ req[r].pc \in Unread /\ q.pc \notin ReadSteps /\ req[r].pc \notin ReadSteps
    BY <1>5, <1>7, <2>1, WritingIs
  <2> QED  BY <1>2, <2>1, <2>2, <2>3, <2>4, <2>5, <2>6, Proceeds
<1> QED  BY <1>1, <1>6, <1>7, BegunIs

\* A request goes on without having read or learnt anything.
LEMMA GoesOn ==
    ASSUME Inv, NEW r \in Requests, NEW pc \in Unread, pc \in Pcs, Goto(r, pc),
           req[r].pc \in Writing, req[r].pc \notin {"lead"},
           pc \notin {"idle", "select", "lead", "wait", "replicaSet", "create"},
           Place([req[r] EXCEPT !.pc = pc]),
           req[r].kind = "generate" => pc \notin {"observation", "pod", "load", "save"} \/ ~Bound(req[r]),
           UNCHANGED <<mode, session, flight, view, stops, changes>>, UNCHANGED cluster,
           \/ slots' = slots /\ pc \notin ReadSteps
           \/ slots < MaxReads /\ slots' = slots + 1 /\ pc \in ReadSteps
    PROVE  Inv'
<1>1. PICK p \in Request : p = req[r]  BY InvIs
<1>2. PICK q : q = [p EXCEPT !.pc = pc]  OBVIOUS
<1>3. req' = [req EXCEPT ![r] = q]  BY <1>1, <1>2 DEF Goto, Become
<1>4. /\ q \in Request /\ SameClient(q, p) /\ q.pc = pc /\ q.caps = p.caps
      /\ q.passed = p.passed /\ q.held = p.held /\ q.answer = p.answer
  BY <1>2, GotoIs
<1>5. p.pc \notin {"idle", "done", "select"}  BY <1>1 DEF Writing, Calls, Discovering
<1>6. q.answer = "none" /\ Place(q)  BY <1>1, <1>2, <1>4, <1>5, InvIs DEF Place
<1>7. Authorised(q)  BY <1>1, <1>4, InvIs DEF Authorised
<1>8. Bound(q) <=> Bound(p)  BY <1>4 DEF Bound, SameClient
<1>9. OnSelection(q)  BY <1>1, <1>4, <1>5, <1>6, <1>8, PlainSelection DEF SameClient
<1>10. req[r].pc \in Unread /\ req[r].pc \notin ReadSteps  BY WritingIs
<1> QED  BY <1>1, <1>3, <1>4, <1>5, <1>6, <1>7, <1>9, <1>10, Proceeds

LEMMA AcquireKeeps ==
    ASSUME Inv, NEW r \in Requests, workbenchAcquireRead(r), req[r].pc \in {"enter", "admit"},
           req[r].pc = "enter" => req[r].kind \in Reads \ Lineage,
           req[r].kind = "attempts" => req[r].uid # 0,
           UNCHANGED <<mode, session, flight, view, stops, changes>>, UNCHANGED cluster
    PROVE  Inv'
<1> DEFINE pc == FirstStep(req[r].kind)
<1>1. CASE slots' = slots + 1 /\ slots < MaxReads /\ Goto(r, pc)
  <2>1. req[r].kind \in Reads /\ (req[r].pc = "admit" => req[r].kind \in Lineage)
    BY InvIs DEF Place, Reads
  <2>2. /\ pc \in {"list", "page", "get"}
        /\ pc = "list" => req[r].kind \in {"workloads", "detail", "projection", "policy"}
        /\ pc = "page" => req[r].kind \in Collections
        /\ pc = "get" => req[r].kind \in {"observation", "proposal", "attempts", "attempt", "rollbacks"}
    BY <2>1 DEF FirstStep, Reads, Lineage, Collections
  <2> HIDE DEF pc
  <2>3. pc \in Unread /\ pc \in Pcs /\ pc \in ReadSteps  BY <2>2 DEF Unread, Pcs, ReadSteps
  <2>4. PICK q : q = [req[r] EXCEPT !.pc = pc]  OBVIOUS
  <2>5. /\ SameClient(q, req[r]) /\ q.pc = pc /\ q.answer = req[r].answer
    BY <2>3, <2>4, GotoIs, InvIs
  <2>6. Place(q)  BY <2>2, <2>5, InvIs DEF Place, SameClient, Discovering
  <2>7. req[r].pc \in Writing  BY DEF Writing
  <2> QED  BY <1>1, <2>2, <2>3, <2>4, <2>6, <2>7, GoesOn
<1>2. CASE slots' = slots /\ Answered(r, "BUSY")
  <2>1. "BUSY" \in Answers \ {"none"} /\ req[r].pc \notin ReadSteps  BY DEF Answers, ReadSteps
  <2> QED  BY <1>2, <2>1, QuietlyQuits
<1> QED  BY <1>1, <1>2 DEF workbenchAcquireRead

LEMMA EnterKeeps ==
    ASSUME Inv, NEW r \in Requests, Enter(r)
    PROVE  Inv'
<1>1. /\ req[r].pc = "enter" /\ UNCHANGED <<mode, session, flight, view, stops, changes>>
      /\ UNCHANGED cluster
  BY DEF Enter, At
<1>2. ASSUME NEW a \in {"INVALID", "NOT_IMPLEMENTED", "UNAUTHENTICATED"}, Answered(r, a), slots' = slots
      PROVE  Inv'
  <2>1. a \in Answers \ {"none"} /\ a # "OK" /\ "enter" \notin ReadSteps  BY DEF Answers, ReadSteps
  <2> QED  BY <1>1, <1>2, <2>1, QuietlyQuits
<1>3. ASSUME Goto(r, "gate"), slots' = slots, req[r].kind \notin Reads \ Lineage  PROVE Inv'
  <2>1. "gate" \in Unread /\ "gate" \in Pcs /\ "gate" \notin ReadSteps  BY DEF Unread, Pcs, Discovering, ReadSteps
  <2>2. PICK q : q = [req[r] EXCEPT !.pc = "gate"]  OBVIOUS
  <2>3. SameClient(q, req[r]) /\ q.pc = "gate" /\ q.answer = req[r].answer
    BY <2>1, <2>2, GotoIs, InvIs
  <2>4. Place(q)  BY <1>1, <1>3, <2>3, InvIs DEF Place, SameClient, Discovering
  <2>5. req[r].pc \in Writing  BY <1>1 DEF Writing
  <2> QED  BY <1>1, <1>3, <2>1, <2>2, <2>4, <2>5, GoesOn
<1>4. ASSUME workbenchAcquireRead(r), req[r].kind \in Reads \ Lineage  PROVE Inv'
  <2>1. req[r].kind # "attempts"  BY <1>4 DEF Lineage
  <2> QED  BY <1>1, <1>4, <2>1, AcquireKeeps
<1>5. ASSUME Become(r, Begun(req[r])), slots' = slots, req[r].kind \notin Reads \ Lineage,
             req[r].kind # "capabilities"
      PROVE  Inv'
  <2>1. SameClient(req[r], req[r]) /\ req[r].answer = "none" /\ Authorised(req[r]) /\ req[r] \in Request
    BY <1>1, InvIs DEF SameClient, Place
  <2> QED  BY <1>1, <1>5, <2>1, BegunKeeps
<1>6. CASE req[r].kind \in Reads \ Lineage
  BY <1>2, <1>4, <1>6 DEF Enter
<1>7. CASE req[r].kind \notin Reads \ Lineage
  BY <1>2, <1>3, <1>5, <1>7 DEF Enter
<1> QED  BY <1>6, <1>7

LEMMA AuthorizeKeeps ==
    ASSUME Inv, NEW r \in Requests, Authorize(r)
    PROVE  Inv'
<1> DEFINE need == checks(req[r].kind)
           rec == [req[r] EXCEPT !.passed = @ \cup {need[req[r].stage]}, !.caps = {}]
<1>1. /\ req[r].pc = "woken" /\ UNCHANGED <<mode, session, flight, view, slots, stops, changes>>
      /\ UNCHANGED cluster
  BY DEF Authorize, At
<1>2. "woken" \in Writing /\ "woken" \in Unread /\ "woken" \notin ReadSteps
  BY WritingIs DEF Writing, Discovering
<1>3. ASSUME NEW a \in {"ERROR", "OK", "DENIED"}, Answered(r, a), a = "OK" => req[r].kind = "capabilities"
      PROVE  Inv'
  <2>1. a \in Answers \ {"none"} /\ (a = "OK" => req[r].kind \notin Telling)
    BY <1>3 DEF Answers, Telling, Collections
  <2> QED  BY <1>1, <1>2, <1>3, <2>1, QuietlyQuits
<1>4. ASSUME req[r].kind # "capabilities", capabilityAllowed(req[r], need[req[r].stage]),
             Become(r, IF req[r].stage < Len(need) THEN [rec EXCEPT !.pc = "gate", !.stage = @ + 1]
                       ELSE Begun(rec))
      PROVE  Inv'
  <2>1. PICK p \in Request : p = req[r]  BY InvIs
  <2>2. PICK c : c = need[p.stage]  OBVIOUS
  <2>3. c \in p.caps /\ c \in Caps  BY <1>4, <2>1, <2>2 DEF capabilityAllowed, Request
  <2>4. PICK w : w = [p EXCEPT !.passed = @ \cup {c}, !.caps = {}]  OBVIOUS
  <2>5. /\ w \in Request /\ SameClient(w, p) /\ w.answer = p.answer /\ w.held = p.held /\ w.caps = {}
        /\ w.passed = p.passed \cup {c} /\ w.stage = p.stage /\ w.kind = p.kind
    BY ZenonT(60), <2>3, <2>4 DEF Request, SameClient
  <2>6. p.answer = "none" /\ p.kind \notin Reads \ Lineage  BY <1>1, <2>1, InvIs DEF Place, Discovering
  <2>7. Authorised(w)
    <3>1. Authorised(p)  BY <2>1, InvIs
    <3> QED  BY <2>3, <2>5, <3>1 DEF Authorised
  <2>8. CASE Become(r, Begun(w))
    BY <1>1, <1>4, <2>1, <2>5, <2>6, <2>7, <2>8, BegunKeeps
  <2>9. CASE Become(r, [w EXCEPT !.pc = "gate", !.stage = @ + 1])
    <3>1. PICK q : q = [w EXCEPT !.pc = "gate", !.stage = @ + 1]  OBVIOUS
    <3>2. /\ q \in Request /\ SameClient(q, w) /\ q.answer = w.answer /\ q.held = w.held
          /\ q.caps = w.caps /\ q.passed = w.passed /\ q.pc = "gate"
      <4>1. "gate" \in Pcs /\ w.stage + 1 \in Nat  BY <2>5 DEF Pcs, Discovering, Request
      <4> QED  BY <2>5, <3>1, <4>1 DEF Request, SameClient
    <3>3. SameClient(q, p)  BY <2>5, <3>2 DEF SameClient
    <3>4. Place(q)  BY <2>1, <2>5, <2>6, <3>2, <3>3, InvIs DEF Place, SameClient, Discovering
    <3>5. Authorised(q)  BY <2>7, <3>2 DEF Authorised
    <3>6. q.answer = "none"  BY <2>5, <2>6, <3>2
    <3>7. OnSelection(q)  BY <1>1, <2>1, <3>2, <3>3, <3>6, PlainSelection
    <3>8. "gate" \in Unread /\ "gate" \notin ReadSteps  BY DEF Unread, Discovering, ReadSteps
    <3>9. req' = [req EXCEPT ![r] = q]  BY <2>9, <3>1 DEF Become
    <3> QED  BY <1>1, <1>2, <2>1, <3>2, <3>3, <3>4, <3>5, <3>6, <3>7, <3>8, <3>9, Proceeds
  <2> QED  BY <1>4, <2>1, <2>2, <2>4, <2>5, <2>8, <2>9
<1> HIDE DEF need, rec
<1>5. \/ \E a \in {"ERROR", "OK", "DENIED"} : Answered(r, a) /\ (a = "OK" => req[r].kind = "capabilities")
      \/ /\ req[r].kind # "capabilities" /\ capabilityAllowed(req[r], need[req[r].stage])
         /\ Become(r, IF req[r].stage < Len(need) THEN [rec EXCEPT !.pc = "gate", !.stage = @ + 1]
                      ELSE Begun(rec))
  BY DEF Authorize, need, rec
<1> QED  BY <1>3, <1>4, <1>5

LEMMA AdmitKeeps ==
    ASSUME Inv, NEW r \in Requests, Admit(r)
    PROVE  Inv'
<1>1. /\ req[r].pc = "admit" /\ UNCHANGED <<mode, session, flight, view, stops, changes>>
      /\ UNCHANGED cluster
  BY DEF Admit, At
<1>2. ASSUME NEW a \in {"INVALID", "CONFLICT"}, Answered(r, a), slots' = slots  PROVE Inv'
  <2>1. a \in Answers \ {"none"} /\ a # "OK" /\ "admit" \notin ReadSteps  BY DEF Answers, ReadSteps
  <2> QED  BY <1>1, <1>2, <2>1, QuietlyQuits
<1>3. ASSUME workbenchAcquireRead(r), req[r].kind = "attempts" => req[r].uid # 0  PROVE Inv'
  BY <1>1, <1>3, AcquireKeeps
<1> QED  BY <1>2, <1>3 DEF Admit

LEMMA FailsKeeps ==
    ASSUME Inv, NEW r \in Requests, NEW pc \in Calls, Fails(r, pc)
    PROVE  Inv'
<1>1. "ERROR" \in Answers \ {"none"}  BY DEF Answers
<1>2. req[r].pc = pc /\ pc \notin ReadSteps /\ pc \notin {"select", "lead"}
  BY DEF Fails, At, Calls, ReadSteps
<1> QED  BY <1>1, <1>2, QuietlyQuits DEF Fails

LEMMA ObservedIs ==
    ASSUME Inv, NEW o \in Obs
    PROVE  obs[o] \in Observed /\ obs[o].wl \in Nat /\ obs[o].pod \in Nat /\ obs[o].image \in Nat
BY DEF Inv, World, Observed

\* An observation changes, but not what it is of.
LEMMA ObservationStep ==
    ASSUME Inv, NEW o \in Obs, NEW x \in Observed, obs' = [obs EXCEPT ![o] = x],
           x.by = obs[o].by, x.wl = obs[o].wl, x.pod = obs[o].pod, x.state # "none",
           obs[o].state # "COMPLETED",
           stops' = stops \/ stops' \in [Obs -> {"none", "registered", "cancelled"}],
           UNCHANGED <<mode, session, rbac, pods, workload, proposals, attempts, offered, issued,
                       turmoil, changes>>
    PROVE  World' /\ Kept /\ Held
<1>1. obs \in [Obs -> Observed]  BY DEF Inv, World
<1>2. obs' \in [Obs -> Observed] /\ obs'[o] = x /\ \A y \in Obs \ {o} : obs'[y] = obs[y]  BY <1>1
<1>3. World'  BY <1>2 DEF Inv, World, UIDsName, TokenOK
<1>4. Kept /\ Held  BY <1>2 DEF Kept, Held
<1> QED  BY <1>3, <1>4

LEMMA GetObservationKeeps ==
    ASSUME Inv, NEW r \in Requests, GetObservation(r)
    PROVE  Inv'
<1>1. /\ req[r].pc = "observation" /\ UNCHANGED <<mode, session, flight, view, slots, changes>>
      /\ UNCHANGED cluster
  BY DEF GetObservation, At
<1>2. req[r].obs \in Obs /\ req[r].kind \in {"stop", "status", "generate"}  BY <1>1, InvIs DEF Place
<1>3. stops' = stops \/ stops' \in [Obs -> {"none", "registered", "cancelled"}]
  BY <1>2 DEF GetObservation, Inv, World
<1>4. "observation" \notin ReadSteps /\ "observation" \in Writing /\ "observation" \in Unread
  BY DEF ReadSteps, Writing, Calls, Unread
<1>5. ASSUME NEW a \in {"NOT_FOUND", "CONFLICT", "TARGET_CHANGED", "OK"}, Answered(r, a),
             a = "OK" => req[r].kind # "generate"
      PROVE  Inv'
  <2>1. a \in Answers \ {"none"} /\ (a = "OK" => req[r].kind \notin Telling)
    BY <1>2, <1>5 DEF Answers, Telling, Collections
  <2> QED  BY <1>1, <1>3, <1>4, <1>5, <2>1, QuietlyQuits
<1>6. ASSUME req[r].kind = "stop", req[r].authenticated, Goto(r, "intent")  PROVE Inv'
  <2>1. "intent" \in Unread /\ "intent" \in Pcs /\ "intent" \notin ReadSteps
    BY DEF Unread, Pcs, Calls, ReadSteps
  <2>2. PICK q : q = [req[r] EXCEPT !.pc = "intent"]  OBVIOUS
  <2>3. SameClient(q, req[r]) /\ q.pc = "intent" /\ q.answer = req[r].answer
    BY <2>1, <2>2, GotoIs, InvIs
  <2>4. Place(q)  BY <1>1, <1>6, <2>3, InvIs DEF Place, SameClient, Discovering
  <2>5. stops' = stops  BY <1>6 DEF GetObservation
  <2> QED  BY <1>1, <1>4, <1>6, <2>1, <2>2, <2>4, <2>5, GoesOn
<1>7. ASSUME req[r].kind = "generate", obs[req[r].obs].state = "COMPLETED",
             obs[req[r].obs].pod = req[r].want.pod, Become(r, [req[r] EXCEPT !.pc = "pod"])
      PROVE  Inv'
  <2>1. "pod" \in Unread /\ "pod" \in Pcs /\ "pod" \notin ReadSteps
    BY DEF Unread, Pcs, Calls, ReadSteps
  <2>2. PICK p \in Request : p = req[r]  BY InvIs
  <2>3. PICK q : q = [p EXCEPT !.pc = "pod"]  OBVIOUS
  <2>4. req' = [req EXCEPT ![r] = q]  BY <1>7, <2>2, <2>3 DEF Become
  <2>5. /\ q \in Request /\ SameClient(q, p) /\ q.pc = "pod" /\ q.caps = p.caps
        /\ q.passed = p.passed /\ q.held = p.held /\ q.answer = p.answer
    BY <2>1, <2>3, GotoIs
  <2>6. p.answer = "none"  BY <1>1, <2>2, InvIs DEF Place
  <2>7. Place(q)  BY <1>7, <2>2, <2>5, <2>6, InvIs DEF Place, SameClient, Discovering
  <2>8. Authorised(q)  BY <2>2, <2>5, InvIs DEF Authorised
  <2>9. OnSelection(q)
    <3>1. OnSelection(p) /\ p.pc = "observation" /\ (Bound(q) <=> Bound(p)) /\ (Valid(q.want) <=> Valid(p.want))
      BY <1>1, <2>2, <2>5, InvIs DEF Bound, Valid, SameClient
    <3> QED  BY <1>7, <2>2, <2>5, <2>6, <3>1 DEF OnSelection, SameClient
  <2>10. stops' = stops  BY <1>7 DEF GetObservation
  <2> QED  BY <1>1, <1>4, <2>1, <2>2, <2>4, <2>5, <2>6, <2>7, <2>8, <2>9, <2>10, Proceeds
<1>8. \/ \E a \in {"NOT_FOUND", "CONFLICT", "TARGET_CHANGED", "OK"} :
            Answered(r, a) /\ (a = "OK" => req[r].kind # "generate")
      \/ req[r].kind = "stop" /\ req[r].authenticated /\ Goto(r, "intent")
      \/ /\ req[r].kind = "generate" /\ obs[req[r].obs].state = "COMPLETED"
         /\ obs[req[r].obs].pod = req[r].want.pod /\ Become(r, [req[r] EXCEPT !.pc = "pod"])
  BY <1>2 DEF GetObservation, Answered
<1> QED  BY <1>5, <1>6, <1>7, <1>8

LEMMA requestDurableStopKeeps ==
    ASSUME Inv, NEW r \in Requests, requestDurableStop(r)
    PROVE  Inv'
<1>1. /\ req[r].pc = "intent"
      /\ UNCHANGED <<mode, session, flight, view, slots, stops, rbac, pods, workload,
                     proposals, attempts, offered, issued, turmoil, changes>>
  BY DEF requestDurableStop, At
<1>2. req[r].kind = "stop" /\ req[r].obs \in Obs  BY <1>1, InvIs DEF Place
<1>3. "intent" \notin ReadSteps  BY DEF ReadSteps
<1>4. PICK a \in {"OK", "INVALID", "ERROR", "STOP_NOT_ELIGIBLE"} :
        /\ Answered(r, a)
        /\ \/ CanRequestStop(req[r].obs) /\ obs' = [obs EXCEPT ![req[r].obs].stop = TRUE]
           \/ obs' = obs
  BY DEF requestDurableStop
<1>5. a \in Answers \ {"none"} /\ (a = "OK" => req[r].kind \notin Telling)
  BY <1>2 DEF Answers, Telling, Collections
<1>6. World' /\ Kept /\ Held
  <2>1. CASE obs' = obs  BY <1>1, <2>1, Quiet DEF cluster
  <2>2. CASE CanRequestStop(req[r].obs) /\ obs' = [obs EXCEPT ![req[r].obs].stop = TRUE]
    <3>1. PICK o \in Obs : o = req[r].obs  BY <1>2
    <3>2. PICK y \in Observed : y = obs[o]  BY ObservedIs
    <3>3. PICK x : x = [y EXCEPT !.stop = TRUE]  OBVIOUS
    <3>4. x \in Observed /\ x.by = y.by /\ x.wl = y.wl /\ x.pod = y.pod /\ x.state = y.state
      BY <3>3 DEF Observed
    <3>5. obs' = [obs EXCEPT ![o] = x]  BY <2>2, <3>1, <3>2, <3>3
    <3>6. y.state \in {"REQUESTED", "RUNNING"}  BY <2>2, <3>1, <3>2 DEF CanRequestStop
    <3> QED  BY <1>1, <3>2, <3>4, <3>5, <3>6, ObservationStep
  <2> QED  BY <1>4, <2>1, <2>2
<1>7. view' = [view EXCEPT ![r] = view[r]] /\ view[r] \in View  BY <1>1, SameView, InvIs
<1> QED  BY <1>1, <1>3, <1>4, <1>5, <1>6, <1>7, Quits

\* The Pod that was found is the selected one.
LEMMA ResolvedKeeps ==
    ASSUME Inv, NEW r \in Requests, req[r].pc \in {"pod", "replicaSet"},
           NEW p \in Request, SameClient(p, req[r]), p.answer = "none", Authorised(p),
           p.pod \in p.live, ~workload.viaReplicaSet => p.pod.owner = p.wl,
           Become(r, Resolved(p)),
           UNCHANGED <<mode, session, flight, view, slots, stops, changes>>, UNCHANGED cluster
    PROVE  Inv'
<1>1. PICK q : q = Resolved(p)  OBVIOUS
<1>2. req' = [req EXCEPT ![r] = q]  BY <1>1 DEF Become
<1>3. World' /\ Kept /\ Held /\ rbac' = rbac  BY Quiet
<1>4. view' = [view EXCEPT ![r] = view[r]] /\ view[r] \in View  BY SameView, InvIs
<1>5. {"pod", "replicaSet", "create", "load"} \subseteq Writing  BY DEF Writing, Calls
<1>6. p.kind \in {"start", "generate"} /\ OnSelection(req[r])  BY InvIs DEF Place, SameClient
<1>7. CASE q = Closed(p, "TARGET_CHANGED")
  <2>1. "TARGET_CHANGED" \in Answers \ {"none"}  BY DEF Answers
  <2>2. SameClient(q, p) /\ q.pc = "done"  BY <1>7, <2>1, ClosedIs
  <2>3. \A c \in p.passed : capabilityRules[c] \subseteq p.held  BY DEF Authorised
  <2>4. Good(q, view[r])  BY <1>4, <1>7, <2>1, <2>3, ClosedGood
  <2>5. q.want = req[r].want /\ req[r].live \subseteq q.live  BY <2>2 DEF SameClient
  <2>6. "done" \notin ReadSteps /\ req[r].pc \notin ReadSteps  BY DEF ReadSteps
  <2>7. flight' = flight /\ slots' = slots  OBVIOUS
  <2> QED  BY <1>2, <1>3, <1>4, <2>2, <2>4, <2>5, <2>6, <2>7, Local
<1>8. ASSUME NEW pc \in {"create", "load"}, q = [p EXCEPT !.pc = pc], TargetMatches(p),
             pc = "create" => p.kind = "start",
             pc = "load" => /\ p.kind = "generate" /\ obs[p.obs].wl = p.want.wl
                            /\ obs[p.obs].image = p.want.image
      PROVE  Inv'
  <2>1. /\ q \in Request /\ SameClient(q, p) /\ q.pc = pc /\ q.caps = p.caps /\ q.pod = p.pod /\ q.wl = p.wl
        /\ q.passed = p.passed /\ q.held = p.held /\ q.answer = p.answer
    BY <1>5, <1>8, WritingIs, GotoIs
  <2>2. SameClient(q, req[r])  BY <2>1 DEF SameClient
  <2>3. Place(q)  BY <1>8, <2>1, <2>2, InvIs DEF Place, SameClient, Discovering
  <2>4. Authorised(q)  BY <2>1 DEF Authorised
  <2>5. OnSelection(q)
    <3>1. LivePods \subseteq q.live  BY <1>6, <2>2 DEF OnSelection, SameClient
    <3>2. TargetMatches(q)  BY <1>8, <2>1 DEF TargetMatches, SameClient
    <3>3. CASE pc = "create"
      BY <1>8, <2>1, <3>1, <3>2, <3>3 DEF OnSelection, SameClient
    <3>4. CASE pc = "load" /\ Bound(q)
      <4>1. Bound(req[r]) /\ req[r].kind = "generate" /\ p.want = req[r].want /\ p.obs = req[r].obs
        BY <1>8, <2>2, <3>4 DEF Bound, SameClient
      <4>2. /\ p.want.wl # 0 /\ p.want.image # 0 /\ Valid(p.want)
            /\ obs[p.obs].state = "COMPLETED" /\ obs[p.obs].pod = p.want.pod
        BY <1>6, <4>1 DEF OnSelection, Valid
      <4>3. p.want # NoTarget  BY <4>2 DEF NoTarget
      <4>4. p.want.pod = p.pod.uid /\ p.want.image = p.pod.image  BY <1>8, <4>2, <4>3 DEF TargetMatches
      <4>5. Generated(q)  BY <1>8, <2>1, <3>4, <4>4 DEF Generated, SameClient
      <4>6. q.want = p.want /\ q.obs = p.obs /\ q.kind = "generate"  BY <2>2, <4>1 DEF SameClient
      <4> QED  BY <2>1, <3>1, <3>4, <4>2, <4>5, <4>6 DEF OnSelection
    <3>5. CASE pc = "load" /\ ~Bound(q)
      BY <2>1, <3>1, <3>5 DEF OnSelection
    <3> QED  BY <3>3, <3>4, <3>5
  <2>6. q.pc \in Unread /\ req[r].pc \in Unread /\ q.pc \notin ReadSteps /\ req[r].pc \notin ReadSteps
    BY <1>5, <1>8, <2>1, WritingIs
  <2> QED  BY <1>2, <1>8, <2>1, <2>2, <2>3, <2>4, <2>5, <2>6, Proceeds
<1>9. \/ q = Closed(p, "TARGET_CHANGED")
      \/ \E pc \in {"create", "load"} :
            /\ q = [p EXCEPT !.pc = pc] /\ TargetMatches(p)
            /\ pc = "create" => p.kind = "start"
            /\ pc = "load" => /\ p.kind = "generate" /\ obs[p.obs].wl = p.want.wl
                              /\ obs[p.obs].image = p.want.image
  BY <1>1, <1>6 DEF Resolved, TargetMatches
<1> QED  BY <1>7, <1>8, <1>9

LEMMA GetPodKeeps ==
    ASSUME Inv, NEW r \in Requests, GetPod(r)
    PROVE  Inv'
<1>1. /\ req[r].pc = "pod" /\ UNCHANGED <<mode, session, flight, view, slots, stops, changes>>
      /\ UNCHANGED cluster
  BY DEF GetPod, At
<1>2. PICK p \in Request : p = req[r]  BY InvIs
<1>3. PICK x \in Pod : x = pods[p.want.name]  BY DEF Request, Target, Inv, World
<1>4. PICK w : w = [p EXCEPT !.pod = x, !.wl = x.owner]  OBVIOUS
<1>5. /\ w \in Request /\ SameClient(w, p) /\ w.pc = p.pc /\ w.pod = x /\ w.wl = x.owner
      /\ w.caps = p.caps /\ w.passed = p.passed /\ w.held = p.held /\ w.answer = p.answer
  <2>1. x.owner \in Nat  BY DEF Pod
  <2> QED  BY <1>4, <2>1 DEF Request, SameClient
<1>6. p.answer = "none" /\ Authorised(w)  BY <1>1, <1>2, <1>5, InvIs DEF Place, Authorised
<1>7. ASSUME x # Gone  PROVE x \in p.live
  <2>1. p.want.name \in Pods /\ pods \in [Pods -> Pod]  BY DEF Request, Target, Inv, World
  <2>2. x \in LivePods  BY <1>3, <1>7, <2>1 DEF LivePods, Live
  <2> QED  BY <1>1, <1>2, <2>2, InvIs DEF OnSelection
<1>8. CASE Answered(r, "NOT_FOUND")
  <2>1. "NOT_FOUND" \in Answers \ {"none"} /\ "pod" \notin ReadSteps  BY DEF Answers, ReadSteps
  <2> QED  BY <1>1, <1>8, <2>1, QuietlyQuits
<1>9. CASE x # Gone /\ ~workload.viaReplicaSet /\ Become(r, Resolved(w))
  <2>1. w.pod \in w.live /\ w.pod.owner = w.wl  BY <1>5, <1>7, <1>9 DEF SameClient
  <2> QED  BY <1>1, <1>2, <1>5, <1>6, <1>9, <2>1, ResolvedKeeps
<1>10. CASE x # Gone /\ workload.viaReplicaSet /\ Become(r, [w EXCEPT !.pc = "replicaSet"])
  <2>1. PICK q : q = [w EXCEPT !.pc = "replicaSet"]  OBVIOUS
  <2>2. "replicaSet" \in Unread /\ "replicaSet" \in Pcs /\ "replicaSet" \notin ReadSteps
        /\ "pod" \in Unread /\ "pod" \notin ReadSteps
    BY DEF Unread, Pcs, Calls, ReadSteps
  <2>3. /\ q \in Request /\ SameClient(q, w) /\ q.pc = "replicaSet" /\ q.caps = w.caps /\ q.pod = x
        /\ q.passed = w.passed /\ q.held = w.held /\ q.answer = "none"
    BY <1>5, <1>6, <2>1, <2>2, GotoIs
  <2>4. SameClient(q, p)  BY <1>5, <2>3 DEF SameClient
  <2>5. Place(q)  BY <1>1, <1>2, <2>3, <2>4, InvIs DEF Place, SameClient, Discovering
  <2>6. Authorised(q)  BY <1>6, <2>3 DEF Authorised
  <2>7. OnSelection(q)
    <3>1. OnSelection(p) /\ p.pc = "pod"  BY <1>1, <1>2, InvIs
    <3>2. (Bound(q) <=> Bound(p)) /\ (Valid(q.want) <=> Valid(p.want))  BY <2>4 DEF Bound, Valid, SameClient
    <3> QED  BY <1>7, <1>10, <2>3, <2>4, <3>1, <3>2 DEF OnSelection, SameClient
  <2>8. req' = [req EXCEPT ![r] = q]  BY <1>10, <2>1 DEF Become
  <2> QED  BY <1>1, <1>2, <2>2, <2>3, <2>4, <2>5, <2>6, <2>7, <2>8, Proceeds
<1>11. \/ Answered(r, "NOT_FOUND")
       \/ x # Gone /\ ~workload.viaReplicaSet /\ Become(r, Resolved(w))
       \/ x # Gone /\ workload.viaReplicaSet /\ Become(r, [w EXCEPT !.pc = "replicaSet"])
  BY <1>2, <1>3, <1>4 DEF GetPod, Answered
<1> QED  BY <1>8, <1>9, <1>10, <1>11

LEMMA GetReplicaSetKeeps ==
    ASSUME Inv, NEW r \in Requests, GetReplicaSet(r)
    PROVE  Inv'
<1>1. /\ req[r].pc = "replicaSet" /\ UNCHANGED <<mode, session, flight, view, slots, stops, changes>>
      /\ UNCHANGED cluster
  BY DEF GetReplicaSet, At
<1>2. PICK p \in Request : p = req[r]  BY InvIs
<1>3. PICK w : w = [p EXCEPT !.wl = workload.uid]  OBVIOUS
<1>4. /\ w \in Request /\ SameClient(w, p) /\ w.pod = p.pod
      /\ w.caps = p.caps /\ w.passed = p.passed /\ w.held = p.held /\ w.answer = p.answer
  <2>1. workload.uid \in Nat  BY DEF Inv, World
  <2> QED  BY <1>3, <2>1 DEF Request, SameClient
<1>5. p.answer = "none" /\ Authorised(w)  BY <1>1, <1>2, <1>4, InvIs DEF Place, Authorised
<1>6. w.pod \in w.live /\ workload.viaReplicaSet
  BY <1>1, <1>2, <1>4, InvIs DEF OnSelection, SameClient
<1>7. Become(r, Resolved(w))  BY <1>2, <1>3 DEF GetReplicaSet
<1> QED  BY <1>1, <1>2, <1>4, <1>5, <1>6, <1>7, ResolvedKeeps

\* A new observation is of what its starter selected.
LEMMA CreatedKeeps ==
    ASSUME Inv, NEW r \in Requests, req[r].pc = "create", NEW o \in Obs, obs[o].state = "none",
           NEW x \in Observed, obs' = [obs EXCEPT ![o] = x],
           x.by = r, x.wl = req[r].wl, x.pod = req[r].pod.uid,
           NEW q, req' = [req EXCEPT ![r] = q], Good(q, view[r]), q.pc \in {"done", "register"},
           q.want = req[r].want, q.live = req[r].live,
           UNCHANGED <<mode, session, flight, view, slots, stops, rbac, pods, workload,
                       proposals, attempts, offered, issued, turmoil, changes>>
    PROVE  Inv'
<1>1. obs \in [Obs -> Observed]  BY DEF Inv, World
<1>2. obs' \in [Obs -> Observed] /\ obs'[o] = x /\ \A y \in Obs \ {o} : obs'[y] = obs[y]  BY <1>1
<1>3. World'  BY <1>2 DEF Inv, World, UIDsName, TokenOK
<1>4. Kept  BY <1>2 DEF Kept
<1>5. Started'
  <2> SUFFICES ASSUME NEW z \in Obs, obs'[z].by \in Requests
               PROVE  StartedBy(obs[z], req[obs[z].by])'
    BY DEF Started
  <2>1. CASE z = o
    <3>1. obs'[z] = x /\ req'[r] = q  BY <1>2, <2>1, AtRequest
    <3>2. ASSUME Valid(req[r].want)
          PROVE  LET p == req[r].pod IN
                 /\ p \in req[r].live /\ p.uid = req[r].want.pod /\ p.uid = x.pod /\ x.wl = req[r].want.wl
                 /\ req[r].want.image \in {0, p.image}
                 /\ ~workload.viaReplicaSet => p.owner = x.wl
      <4>1. req[r].want # NoTarget  BY <3>2 DEF Valid, NoTarget
      <4>2. OnSelection(req[r])  BY InvIs
      <4> QED  BY <4>1, <4>2 DEF OnSelection, TargetMatches
    <3> QED  BY <3>1, <3>2 DEF StartedBy, Valid
  <2>2. CASE z # o
    <3>1. obs'[z] = obs[z]  BY <1>2, <2>2
    <3>2. PICK y \in Requests : y = obs[z].by  BY <3>1
    <3>3. StartedBy(obs[z], req[y])  BY <3>2 DEF Inv, Started
    <3>4. req'[y].want = req[y].want /\ req'[y].live = req[y].live
          /\ (req[y].pc # "idle" => req'[y].pc # "idle")
      BY AtRequest
    <3>5. req[y].pc # "idle" /\ workload'.viaReplicaSet = workload.viaReplicaSet  BY <3>3 DEF StartedBy
    <3>6. PICK a : a = req'[y]  OBVIOUS
    <3>7. PICK b : b = obs'[z]  OBVIOUS
    <3>8. StartedBy(b, a)'
      <4>1. a.pc # "idle" /\ a.want = req[y].want /\ req[y].live \subseteq a.live  BY <3>4, <3>5, <3>6
      <4>2. b.pod = obs[z].pod /\ b.wl = obs[z].wl  BY <3>1, <3>7
      <4> QED  BY <3>3, <3>5, <4>1, <4>2, StartedByKept
    <3>9. b = obs'[z] /\ a = req'[obs'[z].by]  BY <3>1, <3>2, <3>6, <3>7
    <3> QED  BY <3>8, <3>9
  <2> QED  BY <2>1, <2>2
<1>6. Flights'  BY FlightsKept
<1>7. flight' = [y \in Requests |-> flight'[y]]  BY DEF Inv, Domains
<1>8. view' = [view EXCEPT ![r] = view[r]]  BY SameView
<1>9. q.pc \notin ReadSteps /\ req[r].pc \notin ReadSteps  BY DEF ReadSteps
<1>10. slots' = slots  OBVIOUS
<1> QED  BY <1>3, <1>4, <1>5, <1>6, <1>7, <1>8, <1>9, <1>10, Steps

LEMMA CreateObservationKeeps ==
    ASSUME Inv, NEW r \in Requests, CreateObservation(r)
    PROVE  Inv'
<1> DEFINE free == {o \in Obs : obs[o].state = "none"}
<1>1. /\ req[r].pc = "create"
      /\ UNCHANGED <<mode, session, flight, view, slots, stops, rbac, pods, workload,
                     proposals, attempts, offered, issued, turmoil, changes>>
  BY DEF CreateObservation, At
<1>2. PICK p \in Request : p = req[r]  BY InvIs
<1>3. p.kind = "start" /\ p.answer = "none"  BY <1>1, <1>2, InvIs DEF Place
<1>4. CASE Answered(r, "ERROR") /\ obs' = obs
  <2>1. "ERROR" \in Answers \ {"none"} /\ "create" \notin ReadSteps  BY DEF Answers, ReadSteps
  <2>2. UNCHANGED cluster  BY <1>1, <1>4 DEF cluster
  <2> QED  BY <1>1, <1>4, <2>1, <2>2, QuietlyQuits
<1>5. ASSUME NEW o \in Obs, o = Min(free), free # {},
             obs' = [obs EXCEPT ![o] = [NoObservation EXCEPT !.state = "REQUESTED", !.wl = p.wl,
                                                             !.pod = p.pod.uid, !.by = r]],
             \/ \E a \in {"OK", "ERROR"} : Answered(r, a)
             \/ Become(r, [p EXCEPT !.pc = "register", !.obs = o])
      PROVE  Inv'
  <2>1. PICK x : x = [NoObservation EXCEPT !.state = "REQUESTED", !.wl = p.wl, !.pod = p.pod.uid, !.by = r]
    OBVIOUS
  <2>2. /\ x \in Observed /\ x.by = r /\ x.wl = p.wl /\ x.pod = p.pod.uid
    <3>1. p.pod.uid \in Nat /\ p.wl \in Nat  BY DEF Request, Pod
    <3> QED  BY <2>1, <3>1 DEF NoObservation, Observed
  <2>3. obs[o].state = "none"
    <3>1. free \in SUBSET Nat  BY WorkbenchAssumption
    <3>2. o \in free  BY <1>5, <3>1, MinOf
    <3> QED  BY <3>2
  <2>4. obs' = [obs EXCEPT ![o] = x]  BY <1>5, <2>1
  <2> HIDE DEF free
  <2>5. ASSUME NEW a \in {"OK", "ERROR"}, Answered(r, a)  PROVE Inv'
    <3>1. PICK q : q = Closed(p, a)  OBVIOUS
    <3>2. a \in Answers \ {"none"} /\ (a = "OK" => p.kind \notin Telling)
      BY <1>3 DEF Answers, Telling, Collections
    <3>3. SameClient(q, p) /\ q.pc = "done"  BY <3>1, <3>2, ClosedIs
    <3>4. SameClient(p, req[r]) /\ (\A c \in p.passed : capabilityRules[c] \subseteq p.held) /\ view[r] \in View
      BY <1>2, InvIs DEF SameClient, Authorised
    <3>5. Good(q, view[r])  BY <3>1, <3>2, <3>4, ClosedGood
    <3>6. req' = [req EXCEPT ![r] = q]  BY <1>2, <2>5, <3>1 DEF Answered, Become
    <3>7. q.want = req[r].want /\ q.live = req[r].live  BY <1>2, <3>3 DEF SameClient
    <3> QED  BY <1>1, <1>2, <2>2, <2>3, <2>4, <3>3, <3>5, <3>6, <3>7, CreatedKeeps
  <2>6. ASSUME Become(r, [p EXCEPT !.pc = "register", !.obs = o])  PROVE Inv'
    <3>1. PICK q : q = [p EXCEPT !.pc = "register", !.obs = o]  OBVIOUS
    <3>2. "register" \in Pcs /\ o \in Nat  BY WorkbenchAssumption DEF Pcs
    <3>3. /\ q \in Request /\ q.pc = "register" /\ q.obs = o /\ q.kind = "start" /\ q.answer = "none"
          /\ q.want = p.want /\ q.live = p.live /\ q.token = p.token /\ q.caps = p.caps
          /\ q.passed = p.passed /\ q.held = p.held
      BY <1>3, <3>1, <3>2 DEF Request
    <3>4. Place(q)  BY <3>3 DEF Place, Discovering
    <3>5. Authorised(q)  BY <1>2, <3>3, InvIs DEF Authorised
    <3>6. OnSelection(q)
      <4>1. LivePods \subseteq p.live  BY <1>1, <1>2, InvIs DEF OnSelection
      <4> QED  BY <3>3, <4>1 DEF OnSelection
    <3>7. "create" \in Unread /\ "register" \in Unread  BY DEF Unread, Calls
    <3>8. view[r] = NoView /\ view[r] \in View /\ NoView.fresh = {}
      BY ZenonT(60), <1>1, <3>7, InvIs DEF Projected, NoView
    <3>9. Projected(q, view[r])  BY <3>3, <3>8 DEF Projected
    <3>10. Paged(q, view[r])
      <4>1. Paged(p, view[r])  BY <1>2, InvIs
      <4> QED  BY <1>3, <3>3, <4>1 DEF Paged
    <3>11. Lined(q, view[r])  BY <3>3 DEF Lined
    <3>12. Good(q, view[r])  BY <3>3, <3>4, <3>5, <3>6, <3>8, <3>9, <3>10, <3>11 DEF Good
    <3>13. req' = [req EXCEPT ![r] = q]  BY <2>6, <3>1 DEF Become
    <3> QED  BY <1>1, <1>2, <2>2, <2>3, <2>4, <3>3, <3>12, <3>13, CreatedKeeps
  <2> QED  BY <1>5, <2>5, <2>6
<1>6. free # {} => Min(free) \in Obs
  <2>1. free \in SUBSET Nat /\ free \subseteq Obs  BY WorkbenchAssumption
  <2> HIDE DEF free
  <2> QED  BY <2>1, MinOf
<1>7. \/ Answered(r, "ERROR") /\ obs' = obs
      \/ /\ free # {}
         /\ obs' = [obs EXCEPT ![Min(free)] = [NoObservation EXCEPT !.state = "REQUESTED", !.wl = p.wl,
                                                                    !.pod = p.pod.uid, !.by = r]]
         /\ \/ \E a \in {"OK", "ERROR"} : Answered(r, a)
            \/ Become(r, [p EXCEPT !.pc = "register", !.obs = Min(free)])
  BY <1>2 DEF CreateObservation, Answered
<1> QED  BY <1>4, <1>5, <1>6, <1>7

LEMMA RegisterKeeps ==
    ASSUME Inv, NEW r \in Requests, Register(r)
    PROVE  Inv'
<1>1. /\ req[r].pc = "register" /\ UNCHANGED <<mode, session, flight, view, slots, changes>>
      /\ UNCHANGED cluster /\ Answered(r, "OK")
  BY DEF Register, At
<1>2. req[r].kind = "start" /\ req[r].obs \in Obs  BY <1>1, InvIs DEF Place
<1>3. stops' = stops \/ stops' \in [Obs -> {"none", "registered", "cancelled"}]
  BY <1>2 DEF Register, Inv, World
<1>4. "OK" \in Answers \ {"none"} /\ req[r].kind \notin Telling /\ "register" \notin ReadSteps
  BY <1>2 DEF Answers, Telling, Collections, ReadSteps
<1> QED  BY <1>1, <1>3, <1>4, QuietlyQuits

LEMMA LoadObservationKeeps ==
    ASSUME Inv, NEW r \in Requests, LoadObservation(r)
    PROVE  Inv'
<1>1. /\ req[r].pc = "load" /\ UNCHANGED <<mode, session, flight, view, slots, stops, changes>>
      /\ UNCHANGED cluster
  BY DEF LoadObservation, At
<1>2. req[r].kind = "generate"  BY <1>1, InvIs DEF Place
<1>3. ASSUME NEW a \in {"NOT_FOUND", "CONFLICT"}, Answered(r, a)  PROVE Inv'
  <2>1. a \in Answers \ {"none"} /\ a # "OK" /\ "load" \notin ReadSteps  BY DEF Answers, ReadSteps
  <2> QED  BY <1>1, <1>3, <2>1, QuietlyQuits
<1>4. ASSUME Goto(r, "save")  PROVE Inv'
  <2>1. PICK p \in Request : p = req[r]  BY InvIs
  <2>2. PICK q : q = [p EXCEPT !.pc = "save"]  OBVIOUS
  <2>3. {"load", "save"} \subseteq Unread /\ "save" \in Pcs /\ {"load", "save"} \cap ReadSteps = {}
    BY DEF Unread, Pcs, Calls, ReadSteps
  <2>4. p.answer = "none"  BY <1>1, <2>1, InvIs DEF Place
  <2>5. /\ q \in Request /\ SameClient(q, p) /\ q.pc = "save" /\ q.caps = p.caps
        /\ q.passed = p.passed /\ q.held = p.held /\ q.answer = "none"
    BY <2>2, <2>3, <2>4, GotoIs
  <2>6. Place(q)  BY <1>2, <2>1, <2>5, InvIs DEF Place, SameClient, Discovering
  <2>7. Authorised(q)  BY <2>1, <2>5, InvIs DEF Authorised
  <2>8. OnSelection(q)
    <3>1. OnSelection(p) /\ p.pc = "load"  BY <1>1, <2>1, InvIs
    <3>2. (Bound(q) <=> Bound(p)) /\ (Valid(q.want) <=> Valid(p.want)) /\ (Generated(q) <=> Generated(p))
      BY <2>5 DEF Bound, Valid, Generated, SameClient
    <3> QED  BY <2>5, <3>1, <3>2 DEF OnSelection, SameClient
  <2>9. req' = [req EXCEPT ![r] = q]  BY <1>4, <2>1, <2>2 DEF Goto, Become
  <2> QED  BY <1>1, <2>1, <2>3, <2>5, <2>6, <2>7, <2>8, <2>9, Proceeds
<1> QED  BY <1>3, <1>4 DEF LoadObservation

\* A UID that no proposal has or had.
LEMMA FreshUIDIs ==
    ASSUME Inv
    PROVE  /\ FreshProposalUID \in Nat
           /\ \A q \in proposals : q.uid # FreshProposalUID
           /\ \A a \in attempts : a.proposal # FreshProposalUID
<1> DEFINE P == {q.uid : q \in proposals}
           A == {a.proposal : a \in attempts}
           S == P \cup A \cup {0}
<1>1. /\ proposals \in SUBSET Proposal /\ IsFiniteSet(proposals)
      /\ attempts \in SUBSET Attempt /\ IsFiniteSet(attempts)
  BY DEF Inv, World
<1>2. IsFiniteSet(P)
  <2>1. [q \in proposals |-> q.uid] \in Surjection(proposals, P)  BY DEF Surjection
  <2> QED  BY <1>1, <2>1, FS_Surjection
<1>3. IsFiniteSet(A)
  <2>1. [a \in attempts |-> a.proposal] \in Surjection(attempts, A)  BY DEF Surjection
  <2> QED  BY <1>1, <2>1, FS_Surjection
<1>4. P \in SUBSET Nat /\ A \in SUBSET Nat  BY <1>1 DEF Proposal, Attempt
<1>5. IsFiniteSet(S) /\ S \in SUBSET Nat /\ S # {}
  <2>1. IsFiniteSet(P \cup A)
    <3> HIDE DEF P, A
    <3> QED  BY <1>2, <1>3, FS_Union
  <2>2. IsFiniteSet(S)
    <3> HIDE DEF P, A
    <3> QED  BY <2>1, FS_AddElement
  <2> QED  BY <1>4, <2>2
<1>6. Max(S) \in Nat /\ \A y \in S : Max(S) >= y
  <2> HIDE DEF S
  <2> QED  BY <1>5, MaxOf
<1>7. FreshProposalUID = 1 + Max(S)  BY DEF FreshProposalUID
<1>8. \A y \in S : y \in Nat /\ y # FreshProposalUID
  <2> HIDE DEF S
  <2> QED  BY <1>5, <1>6, <1>7
<1>9. FreshProposalUID \in Nat
  <2> HIDE DEF S
  <2> QED  BY <1>6, <1>7
<1> QED  BY <1>8, <1>9

LEMMA SaveProposalKeeps ==
    ASSUME Inv, NEW r \in Requests, SaveProposal(r)
    PROVE  Inv'
<1> DEFINE new == [id |-> req[r].obs, uid |-> FreshProposalUID, readable |-> TRUE, bound |-> TRUE,
                   image |-> obs[req[r].obs].image, from |-> {req[r].obs}, digest |-> 1, approved |-> 0,
                   fact |-> [pod |-> 0, wl |-> 0, digest |-> 0]]
<1>1. /\ req[r].pc = "save"
      /\ UNCHANGED <<mode, session, flight, view, slots, stops, rbac, pods, workload, obs,
                     attempts, offered, issued, turmoil, changes>>
  BY DEF SaveProposal, At
<1>2. req[r].kind = "generate" /\ req[r].obs \in Obs  BY <1>1, InvIs DEF Place
<1>3. PICK a \in {"NO_CANDIDATE", "ERROR", "OK", "CONFLICT"} :
        Answered(r, a) /\ (proposals' = proposals \/ proposals' = proposals \cup {new})
  BY DEF SaveProposal
<1>4. a \in Answers \ {"none"}  BY DEF Answers
<1>5. new \in Proposal /\ new.uid = FreshProposalUID
  <2>1. req[r].obs \in Nat \ {0} /\ obs[req[r].obs].image \in Nat
    BY <1>2, ObservedIs, WorkbenchAssumption
  <2>2. FreshProposalUID \in Nat  BY FreshUIDIs
  <2> QED  BY <2>1, <2>2 DEF Proposal
<1> HIDE DEF new
<1>6. World'
  <2>1. CASE proposals' = proposals  BY <1>1, <2>1 DEF Inv, World, UIDsName, TokenOK
  <2>2. CASE proposals' = proposals \cup {new}
    <3>1. proposals' \in SUBSET Proposal /\ IsFiniteSet(proposals')
      BY <1>5, <2>2, FS_AddElement DEF Inv, World
    <3>2. UIDsName(proposals, attempts)'
      <4>1. UIDsName(proposals, attempts)  BY DEF Inv, World
      <4> QED  BY <1>1, <1>5, <2>2, <4>1, FreshUIDIs DEF UIDsName
    <3> QED  BY <1>1, <3>1, <3>2 DEF Inv, World, TokenOK
  <2> QED  BY <1>3, <2>1, <2>2
<1>7. Kept /\ Held  BY <1>1 DEF Kept, Held
<1>8. view' = [view EXCEPT ![r] = view[r]] /\ view[r] \in View  BY <1>1, SameView, InvIs
<1>9. "save" \notin ReadSteps /\ "done" \notin ReadSteps  BY DEF ReadSteps
<1>10. CASE a # "OK"
  BY <1>1, <1>3, <1>4, <1>6, <1>7, <1>8, <1>9, <1>10, Quits
<1>11. CASE a = "OK"
  <2>1. PICK p \in Request : p = req[r]  BY InvIs
  <2>2. PICK q : q = Closed(p, a)  OBVIOUS
  <2>3. /\ q \in Request /\ SameClient(q, p) /\ q.pc = "done" /\ q.answer = "OK"
        /\ q.caps = {} /\ q.passed = p.passed /\ q.held = p.held
    BY <1>4, <1>11, <2>2, ClosedIs
  <2>4. Place(q)  BY <2>1, <2>3, InvIs, PlaceKept
  <2>5. Authorised(q)  BY <2>1, <2>3, InvIs DEF Authorised
  <2>6. OnSelection(q)
    <3>1. OnSelection(p) /\ p.pc = "save"  BY <1>1, <2>1, InvIs
    <3>2. (Bound(q) <=> Bound(p)) /\ (Generated(q) <=> Generated(p))
      BY <2>3 DEF Bound, Generated, SameClient
    <3> QED  BY <2>3, <3>1, <3>2 DEF OnSelection, SameClient
  <2>7. view[r] = NoView /\ NoView.fresh = {}
    BY <1>1, InvIs DEF Projected, NoView, Unread, Calls
  <2>8. "done" \notin Unread  BY DEF Unread, Calls, Discovering
  <2>9. q.kind = "generate"  BY <1>2, <2>1, <2>3 DEF SameClient
  <2>10. Projected(q, view[r])  BY <2>3, <2>7, <2>8, <2>9 DEF Projected
  <2>11. Paged(q, view[r])
    BY <2>1, <2>3, <2>9, InvIs DEF Paged, SameClient, Collections
  <2>12. Lined(q, view[r])  BY <2>3, <2>9 DEF Lined
  <2>13. Good(q, view[r])  BY <1>8, <2>3, <2>4, <2>5, <2>6, <2>10, <2>11, <2>12 DEF Good
  <2>14. req' = [req EXCEPT ![r] = q]  BY <1>3, <2>1, <2>2 DEF Answered, Become
  <2>15. q.want = req[r].want /\ req[r].live \subseteq q.live  BY <2>1, <2>3 DEF SameClient
  <2> QED  BY <1>1, <1>6, <1>7, <1>8, <1>9, <2>3, <2>13, <2>14, <2>15, Local
<1> QED  BY <1>10, <1>11

LEMMA RunKeeps ==
    ASSUME Inv, NEW r \in Requests, Run(r)
    PROVE  Inv'
<1> DEFINE from == {y \in (IF req[r].kind = "apply" THEN proposals ELSE ApplyAttempts) : y.id = req[r].obs}
           Of(x) == IF req[r].kind = "apply"
                    THEN [id |-> 60 + req[r].obs, uid |-> 60 + x.uid, source |-> 0,
                          proposalName |-> x.id, proposal |-> x.uid]
                    ELSE [id |-> 70 + req[r].obs, uid |-> 70 + x.uid, source |-> x.uid,
                          proposalName |-> x.proposalName, proposal |-> x.proposal]
           new == {Of(x) : x \in from}
<1>1. /\ req[r].pc = "run"
      /\ UNCHANGED <<mode, session, flight, view, slots, stops, rbac, pods, workload, obs,
                     proposals, offered, issued, turmoil, changes>>
  BY DEF Run, At
<1>2. req[r].kind \in {"apply", "rollback"} /\ req[r].obs \in Nat  BY <1>1, InvIs DEF Place, Request
<1>3. PICK a \in {"OK", "FAILED"} :
        Answered(r, a) /\ (attempts' = attempts \/ attempts' = attempts \cup new)
  BY DEF Run
<1>4. a \in Answers \ {"none"} /\ req[r].kind \notin Telling /\ "run" \notin ReadSteps
  BY <1>2 DEF Answers, Telling, Collections, ReadSteps
<1>5. /\ proposals \in SUBSET Proposal /\ IsFiniteSet(proposals)
      /\ attempts \in SUBSET Attempt /\ IsFiniteSet(attempts) /\ UIDsName(proposals, attempts)
  BY DEF Inv, World
<1>6. ASSUME NEW x \in from
      PROVE  Of(x) \in Attempt /\ \A p \in proposals : Of(x).proposal = p.uid => Of(x).proposalName = p.id
  <2>1. CASE req[r].kind = "apply"
    <3>1. x \in proposals /\ x.uid \in Nat /\ x.id \in Nat  BY <1>5, <2>1 DEF Proposal
    <3>2. Of(x) = [id |-> 60 + req[r].obs, uid |-> 60 + x.uid, source |-> 0,
                   proposalName |-> x.id, proposal |-> x.uid]
      BY <2>1
    <3>3. 60 + req[r].obs \in Nat \ {0} /\ 60 + x.uid \in Nat  BY <1>2, <3>1
    <3> QED  BY <1>5, <3>1, <3>2, <3>3 DEF Attempt, UIDsName
  <2>2. CASE req[r].kind # "apply"
    <3>1. /\ x \in attempts /\ x.uid \in Nat /\ x.proposalName \in Nat /\ x.proposal \in Nat
      BY <1>5, <2>2 DEF Attempt, ApplyAttempts
    <3>2. Of(x) = [id |-> 70 + req[r].obs, uid |-> 70 + x.uid, source |-> x.uid,
                   proposalName |-> x.proposalName, proposal |-> x.proposal]
      BY <2>2
    <3>3. 70 + req[r].obs \in Nat \ {0} /\ 70 + x.uid \in Nat  BY <1>2, <3>1
    <3> QED  BY <1>5, <3>1, <3>2, <3>3 DEF Attempt, UIDsName
  <2> QED  BY <2>1, <2>2
<1>7. IsFiniteSet(from)
  <2>1. from \subseteq proposals \/ from \subseteq attempts  BY DEF ApplyAttempts
  <2> HIDE DEF from
  <2> QED  BY <1>5, <2>1, FS_Subset
<1> HIDE DEF from, Of
<1>8. new \in SUBSET Attempt /\ IsFiniteSet(new)
  <2>1. [x \in from |-> Of(x)] \in Surjection(from, new)  BY DEF Surjection
  <2> QED  BY <1>6, <1>7, <2>1, FS_Surjection
<1>9. \A b \in new, p \in proposals : b.proposal = p.uid => b.proposalName = p.id  BY <1>6
<1> HIDE DEF new
<1>10. World'
  <2>1. attempts' \in SUBSET Attempt /\ IsFiniteSet(attempts')  BY <1>3, <1>5, <1>8, FS_Union
  <2>2. UIDsName(proposals, attempts)'  BY <1>1, <1>3, <1>5, <1>9 DEF UIDsName
  <2> QED  BY <1>1, <2>1, <2>2 DEF Inv, World, TokenOK
<1>11. Kept /\ Held  BY <1>1, <1>3 DEF Kept, Held
<1>12. view' = [view EXCEPT ![r] = view[r]] /\ view[r] \in View  BY <1>1, SameView, InvIs
<1> QED  BY <1>1, <1>3, <1>4, <1>10, <1>11, <1>12, Quits

-----------------------------------------------------------------------------
(* The handlers of reads                                                       *)

\* A read goes on with its next call.
LEMMA ReadsOn ==
    ASSUME Inv, NEW r \in Requests, req[r].pc \in ReadSteps, NEW pc \in ReadSteps, NEW q,
           q = [req[r] EXCEPT !.pc = pc], req' = [req EXCEPT ![r] = q],
           NEW v \in View, view' = [view EXCEPT ![r] = v],
           SameClient(q, req[r]) /\ q.pc = pc /\ q.answer = "none" =>
               Place(q) /\ Projected(q, v) /\ Lined(q, v),
           UNCHANGED <<mode, session, flight, slots, stops, changes>>, UNCHANGED cluster
    PROVE  Inv'
<1>1. PICK p \in Request : p = req[r]  BY InvIs
<1>2. pc \in Pcs /\ pc \notin {"idle", "done", "select", "lead", "wait", "replicaSet", "create"}
      /\ pc \notin {"observation", "pod", "load", "save"}
      /\ p.pc \notin {"idle", "done", "select", "lead"}
  BY <1>1 DEF Pcs, ReadSteps
<1>3. /\ q \in Request /\ SameClient(q, p) /\ q.pc = pc /\ q.caps = p.caps
      /\ q.passed = p.passed /\ q.held = p.held /\ q.answer = p.answer
  BY <1>1, <1>2, GotoIs
<1>4. q.answer = "none"  BY <1>1, <1>2, <1>3, InvIs DEF Place
<1>5. Place(q) /\ Projected(q, v) /\ Lined(q, v)  BY <1>1, <1>3, <1>4
<1>6. Authorised(q)  BY <1>1, <1>3, InvIs DEF Authorised
<1>7. OnSelection(q)  BY <1>1, <1>2, <1>3, <1>4, PlainSelection
<1>8. Paged(q, v)
  <2>1. Paged(p, view[r])  BY <1>1, InvIs
  <2> QED  BY <1>3, <1>4, <2>1 DEF Paged, SameClient
<1>9. Good(q, v)  BY <1>3, <1>5, <1>6, <1>7, <1>8 DEF Good
<1>10. World' /\ Kept /\ Held /\ rbac' = rbac  BY Quiet
<1>11. q.want = req[r].want /\ req[r].live \subseteq q.live  BY <1>1, <1>3 DEF SameClient
<1>12. flight' = flight /\ slots' = slots  OBVIOUS
<1> QED  BY <1>1, <1>2, <1>3, <1>9, <1>10, <1>11, <1>12, Local

LEMMA Stays ==
    ASSUME Inv, NEW r \in Requests, req' = req
    PROVE  req' = [req EXCEPT ![r] = [req[r] EXCEPT !.pc = req[r].pc]]
<1>1. PICK p \in Request : p = req[r]  BY InvIs
<1>2. [p EXCEPT !.pc = p.pc] = p  BY DEF Request
<1> QED  BY <1>1, <1>2 DEF Inv, Domains

\* A read ends with an answer that tells what it has read.
LEMMA Tells ==
    ASSUME Inv, NEW r \in Requests, req[r].pc \in ReadSteps, Exit(r, "OK"), NEW q,
           q = Closed(req[r], "OK"), NEW v \in View, view' = [view EXCEPT ![r] = v],
           req[r].kind # "generate",
           SameClient(q, req[r]) /\ q.pc = "done" /\ q.answer = "OK" =>
               Projected(q, v) /\ Paged(q, v) /\ Lined(q, v),
           World', Kept, Held, flight' = flight, rbac' = rbac
    PROVE  Inv'
<1>1. PICK p \in Request : p = req[r]  BY InvIs
<1>2. "OK" \in Answers  BY DEF Answers
<1>3. /\ q \in Request /\ SameClient(q, p) /\ q.pc = "done" /\ q.answer = "OK"
      /\ q.caps = {} /\ q.passed = p.passed /\ q.held = p.held
  BY <1>1, <1>2, ClosedIs
<1>4. Projected(q, v) /\ Paged(q, v) /\ Lined(q, v)  BY <1>1, <1>3
<1>5. Place(q)  BY <1>1, <1>3, InvIs, PlaceKept
<1>6. Authorised(q)  BY <1>1, <1>3, InvIs DEF Authorised
<1>7. OnSelection(q)  BY <1>1, <1>3 DEF OnSelection, SameClient
<1>8. Good(q, v)  BY <1>3, <1>4, <1>5, <1>6, <1>7 DEF Good
<1>9. req' = [req EXCEPT ![r] = q] /\ slots' = slots - 1  BY DEF Exit, Answered, Become
<1>10. q.want = req[r].want /\ req[r].live \subseteq q.live  BY <1>1, <1>3 DEF SameClient
<1>11. "done" \notin ReadSteps /\ req[r].pc \notin {"select", "lead"}  BY DEF ReadSteps
<1> QED  BY <1>3, <1>8, <1>9, <1>10, <1>11, Local

LEMMA NoViewIs ==
    /\ NoView \in View /\ NoView.fresh = {} /\ NoView.queue = {} /\ NoView.read = {} /\ NoView.found = {}
    /\ NoView.locks = "NONE" /\ NoView.known = {} /\ NoView.after = 0 /\ NoView.existing = {}
    /\ Live(NoView.listed) = {}
<1>1. [p \in Pods |-> Gone] \in [Pods -> Pod]  BY GoneIs
<1>2. /\ {} \in SUBSET Pods /\ {} \in SUBSET Proposal /\ {} \in SUBSET ObsObject
      /\ {} \in SUBSET Objects /\ 0 \in Nat /\ FALSE \in BOOLEAN
  OBVIOUS
<1>3. {"NOT_AVAILABLE", "EMPTY"} \subseteq States  BY DEF States
<1>4. NoView \in View  BY <1>1, <1>2, <1>3 DEF NoView, View
<1> QED  BY <1>4 DEF NoView, Live

LEMMA ReadFailsKeeps ==
    ASSUME Inv, NEW r \in Requests, ReadFails(r)
    PROVE  Inv'
<1>1. "ERROR" \in Answers \ {"none"}  BY DEF Answers
<1>2. req[r].pc \in ReadSteps /\ req[r].pc \notin {"select", "lead"}
  BY DEF ReadFails, FailingSteps, ReadSteps
<1> QED  BY <1>1, <1>2, QuietlyQuits DEF ReadFails, Exit

LEMMA ListPodsKeeps ==
    ASSUME Inv, NEW r \in Requests, ListPods(r)
    PROVE  Inv'
<1> DEFINE listed == IF req[r].ns = Home THEN pods ELSE NoView.listed
<1>1. /\ req[r].pc = "list" /\ UNCHANGED <<mode, session, flight, stops, changes>>
      /\ UNCHANGED cluster
  BY DEF ListPods, At
<1>2. "list" \in ReadSteps /\ "owner" \in ReadSteps /\ "list" \in Unread  BY DEF ReadSteps, Unread
<1>3. CASE Live(listed) = {}
  <2>1. PICK a \in {"OK", "NOT_FOUND"} : /\ Exit(r, a) /\ view' = view
                                         /\ a = "OK" => req[r].kind = "workloads"
    BY <1>3 DEF ListPods
  <2>2. a \in Answers \ {"none"} /\ (a = "OK" => req[r].kind \notin Telling)
    BY <2>1 DEF Answers, Telling, Collections
  <2> QED  BY <1>1, <1>2, <2>1, <2>2, QuietlyQuits DEF Exit
<1>4. CASE Live(listed) # {}
  <2>1. listed = pods  BY <1>4, NoViewIs
  <2>2. pods \in [Pods -> Pod]  BY DEF Inv, World
  <2>3. PICK v : v = [NoView EXCEPT !.listed = pods]  OBVIOUS
  <2>4. /\ v \in View /\ v.fresh = {} /\ v.listed = pods /\ v = [NoView EXCEPT !.listed = v.listed]
    BY <2>2, <2>3, NoViewIs DEF View
  <2>5. PICK q : q = [req[r] EXCEPT !.pc = "owner"]  OBVIOUS
  <2>6. req' = [req EXCEPT ![r] = q] /\ view' = [view EXCEPT ![r] = v] /\ slots' = slots
    BY <1>4, <2>1, <2>3, <2>5 DEF ListPods, Goto, Become, Look
  <2>7. ASSUME SameClient(q, req[r]), q.pc = "owner", q.answer = "none"
        PROVE  Place(q) /\ Projected(q, v) /\ Lined(q, v)
    <3>1. Place(q)  BY <1>1, <2>7, InvIs DEF Place, SameClient, Discovering
    <3>2. ASSUME NEW p \in Live(pods)  PROVE pods[p] \in q.live
      <4>1. pods[p] \in LivePods  BY DEF LivePods
      <4> QED  BY <1>1, <2>7, <4>1, InvIs DEF OnSelection, SameClient
    <3>3. "owner" \notin Unread  BY DEF Unread, Calls, Discovering
    <3>4. Projected(q, v)  BY <1>4, <2>1, <2>4, <2>7, <3>2, <3>3 DEF Projected
    <3>5. Lined(q, v)  BY <2>7 DEF Lined
    <3> QED  BY <3>1, <3>4, <3>5
  <2> QED  BY <1>1, <1>2, <2>4, <2>5, <2>6, <2>7, ReadsOn
<1> QED  BY <1>3, <1>4

LEMMA ObservationObjectsAre ==
    ASSUME Inv, NEW q
    PROVE  /\ ObservationObjects(q) \in SUBSET ObsObject /\ IsFiniteSet(ObservationObjects(q))
           /\ Sound(ObservationObjects(q))
           /\ ObservationObjects(q) # {} => q.ns = Home
           /\ q.ns = Home => \A o \in Obs : obs[o].state # "none" => o \in Ids(ObservationObjects(q))
<1> DEFINE S == {x \in Obs : obs[x].state # "none" /\ obs[x].ns = q.ns}
           O == {observationProjection(o, obs[o]) : o \in S}
<1>1. O = ObservationObjects(q)  BY DEF ObservationObjects
<1>2. IsFiniteSet(S)  BY WorkbenchAssumption, FS_Subset
<1>3. [o \in S |-> observationProjection(o, obs[o])] \in Surjection(S, O)  BY DEF Surjection
<1>4. IsFiniteSet(O)
  <2> HIDE DEF S, O
  <2> QED  BY <1>2, <1>3, FS_Surjection
<1>5. ASSUME NEW o \in S
      PROVE  LET x == observationProjection(o, obs[o]) IN
             x \in ObsObject /\ x.id = o /\ x.wl = obs[o].wl /\ obs[o].state # "none" /\ q.ns = Home
  <2>1. obs[o].wl \in Nat /\ obs[o].image \in Nat  BY ObservedIs
  <2>2. obs[o].ns = Home  BY ObservedIs DEF Observed
  <2> QED  BY <2>1, <2>2 DEF observationProjection, ObsObject
<1>6. \A y \in O : y \in ObsObject /\ obs[y.id].state # "none" /\ obs[y.id].wl = y.wl /\ q.ns = Home
  BY <1>5
<1>7. ASSUME q.ns = Home, NEW o \in Obs, obs[o].state # "none"  PROVE o \in Ids(O)
  <2>1. o \in S  BY <1>7, ObservedIs DEF Observed
  <2> QED  BY <1>5, <2>1 DEF Ids
<1> HIDE DEF O
<1> QED  BY <1>1, <1>4, <1>6, <1>7 DEF Sound

LEMMA DiscoverKeeps ==
    ASSUME Inv, NEW r \in Requests, Discover(r)
    PROVE  Inv'
<1> DEFINE uid == resolveOwner(view[r].listed, workload.uid)
<1>1. /\ req[r].pc = "owner"
      /\ UNCHANGED <<mode, session, flight, stops, rbac, pods, workload, obs, proposals, attempts, issued,
                     turmoil, changes>>
  BY DEF Discover, At
<1>2. "owner" \in ReadSteps /\ "owner" \notin {"select", "lead"}  BY DEF ReadSteps
<1>3. PICK w \in View : w = view[r]  BY InvIs
<1>4. /\ req[r].kind \in {"workloads", "detail", "projection", "policy"}
      /\ Live(w.listed) # {} /\ (\A p \in Live(w.listed) : w.listed[p] \in req[r].live)
      /\ w.fresh = {} /\ w = [NoView EXCEPT !.listed = w.listed]
  BY <1>1, <1>3, InvIs DEF Place, Projected
<1>5. uid \in Nat /\ w.listed \in [Pods -> Pod] /\ Live(w.listed) \subseteq Pods
  BY <1>3 DEF resolveOwner, View, Live, Inv, World
<1> HIDE DEF uid
<1>6. CASE Exit(r, "OK") /\ req[r].kind = "workloads" /\ view' = view
           /\ offered' = offered \cup Shown(w.listed, uid)
  <2>1. Shown(w.listed, uid) \subseteq Target
    BY <1>5 DEF Shown, targetPods, Target, Pod
  <2>2. World'  BY <1>1, <1>6, <2>1 DEF Inv, World, UIDsName, TokenOK
  <2>3. Kept /\ Held  BY <1>1 DEF Kept, Held
  <2>4. "OK" \in Answers \ {"none"} /\ req[r].kind \notin Telling
    BY <1>6 DEF Answers, Telling, Collections
  <2>5. view' = [view EXCEPT ![r] = view[r]] /\ view[r] \in View  BY <1>6, SameView, InvIs
  <2> QED  BY <1>1, <1>2, <1>6, <2>2, <2>3, <2>4, <2>5, Quits DEF Exit
<1>7. CASE Exit(r, "NOT_FOUND") /\ offered' = offered /\ view' = view
  <2>1. "NOT_FOUND" \in Answers \ {"none"}  BY DEF Answers
  <2>2. UNCHANGED cluster  BY <1>1, <1>7 DEF cluster
  <2> QED  BY <1>1, <1>2, <1>7, <2>1, <2>2, QuietlyQuits DEF Exit
<1>8. CASE /\ req[r].kind # "workloads" /\ uid # 0 /\ offered' = offered /\ slots' = slots
           /\ Goto(r, AfterDiscovery(req[r].kind))
           /\ Look(r, [w EXCEPT !.uid = uid, !.queue = targetPods(w.listed, uid),
                           !.before = ObservationObjects(req[r])])
  <2>1. PICK B \in SUBSET ObsObject : B = ObservationObjects(req[r])  BY ObservationObjectsAre
  <2>2. PICK v : v = [w EXCEPT !.uid = uid, !.queue = Live(w.listed), !.before = B]  OBVIOUS
  <2>3. targetPods(w.listed, uid) = Live(w.listed)  BY <1>8 DEF targetPods
  <2>4. B \in SUBSET Objects  BY DEF Objects
  <2>5. /\ v \in View /\ v.listed = w.listed /\ v.uid = uid /\ v.queue = Live(w.listed) /\ v.before = B
        /\ v.fresh = w.fresh /\ v.read = w.read /\ v.found = w.found /\ v.locks = w.locks
        /\ v.known = w.known /\ v.after = w.after
    BY <1>5, <2>2, <2>4 DEF View
  <2>6. /\ w.found = {} /\ w.locks = "NONE" /\ w.known = {} /\ w.after = 0
    BY <1>4, NoViewIs DEF NoView
  <2>7. PICK pc \in {"object", "readPods", "identities"} :
          /\ pc = AfterDiscovery(req[r].kind)
          /\ pc = "object" => req[r].kind = "detail"
          /\ pc = "readPods" => req[r].kind = "projection"
          /\ pc = "identities" => req[r].kind = "policy"
    BY <1>4, <1>8 DEF AfterDiscovery
  <2>8. PICK q : q = [req[r] EXCEPT !.pc = pc]  OBVIOUS
  <2>9. req' = [req EXCEPT ![r] = q] /\ view' = [view EXCEPT ![r] = v]
    BY <1>8, <2>1, <2>2, <2>3, <2>7, <2>8 DEF Goto, Become, Look
  <2>10. pc \in ReadSteps /\ pc \notin Unread  BY DEF ReadSteps, Unread, Calls, Discovering
  <2>11. ASSUME SameClient(q, req[r]), q.pc = pc, q.answer = "none"
         PROVE  Place(q) /\ Projected(q, v) /\ Lined(q, v)
    <3>1. Place(q)  BY <2>7, <2>11, InvIs DEF Place, SameClient, Discovering
    <3>2. Projected(q, v)
      BY <1>4, <2>5, <2>6, <2>10, <2>11 DEF Projected, SameClient
    <3>3. Sound(v.before) /\ (v.before # {} => q.ns = Home)
      BY <2>1, <2>5, <2>11, ObservationObjectsAre DEF SameClient
    <3>4. Sound(v.known)  BY <2>5, <2>6 DEF Sound
    <3>5. Lined(q, v)  BY <2>5, <2>6, <2>11, <3>3, <3>4 DEF Lined
    <3> QED  BY <3>1, <3>2, <3>5
  <2>12. UNCHANGED cluster  BY <1>1, <1>8 DEF cluster
  <2>13. UNCHANGED <<mode, session, flight, slots, stops, changes>>  BY <1>1, <1>8
  <2>14. v \in View /\ req[r].pc \in ReadSteps  BY <1>1, <1>2, <2>5
  <2> QED  BY <2>8, <2>9, <2>10, <2>11, <2>12, <2>13, <2>14, ReadsOn
<1>9. \/ Exit(r, "OK") /\ req[r].kind = "workloads" /\ view' = view
           /\ offered' = offered \cup Shown(w.listed, uid)
      \/ Exit(r, "NOT_FOUND") /\ offered' = offered /\ view' = view
      \/ /\ req[r].kind # "workloads" /\ uid # 0 /\ offered' = offered /\ slots' = slots
         /\ Goto(r, AfterDiscovery(req[r].kind))
         /\ Look(r, [w EXCEPT !.uid = uid, !.queue = targetPods(w.listed, uid),
                         !.before = ObservationObjects(req[r])])
  BY <1>3 DEF Discover, uid, resolveGovernedTarget
<1> QED  BY <1>6, <1>7, <1>8, <1>9

LEMMA handleWorkloadDetailKeeps ==
    ASSUME Inv, NEW r \in Requests, handleWorkloadDetail(r)
    PROVE  Inv'
<1>1. PICK a \in {"OK", "NOT_FOUND"} : Exit(r, a)  BY DEF handleWorkloadDetail
<1>2. /\ req[r].pc = "object" /\ UNCHANGED <<mode, session, flight, view, stops, changes>>
      /\ UNCHANGED cluster
  BY DEF handleWorkloadDetail, At
<1>3. req[r].kind = "detail"  BY <1>2, InvIs DEF Place
<1>4. a \in Answers \ {"none"} /\ req[r].kind \notin Telling /\ "object" \in ReadSteps
  BY <1>3 DEF Answers, Telling, Collections, ReadSteps
<1> QED  BY <1>1, <1>2, <1>4, QuietlyQuits DEF Exit

LEMMA ReadPodKeeps ==
    ASSUME Inv, NEW r \in Requests, ReadPod(r)
    PROVE  Inv'
<1>1. /\ req[r].pc = "readPods" /\ UNCHANGED <<mode, session, flight, stops, changes>>
      /\ UNCHANGED cluster
  BY DEF ReadPod, At
<1>2. "readPods" \in ReadSteps /\ "policies" \in ReadSteps /\ "readPods" \notin Unread /\ "policies" \notin Unread
  BY DEF ReadSteps, Unread, Calls, Discovering
<1>3. PICK w \in View : w = view[r]  BY InvIs
<1>4. /\ req[r].kind = "projection" /\ Live(w.listed) # {} /\ w.fresh = {}
      /\ (\A x \in Live(w.listed) : w.listed[x] \in req[r].live)
      /\ w.queue # {} /\ w.found = {} /\ w.locks = "NONE"
  BY <1>1, <1>3, InvIs DEF Place, Projected
<1>5. PICK p : p = Min(w.queue)  OBVIOUS
<1>6. p \in w.queue /\ w.queue \subseteq Pods /\ p \in Pods
  <2>1. w.queue \in SUBSET Nat /\ w.queue \subseteq Pods  BY WorkbenchAssumption DEF View
  <2> QED  BY <1>4, <1>5, <2>1, MinOf
<1>7. PICK v : /\ view' = [view EXCEPT ![r] = v]
               /\ \/ v = [w EXCEPT !.queue = w.queue \ {p}, !.read = w.read \cup {p}]
                  \/ \E why \in ReadFailures :
                        v = [w EXCEPT !.queue = w.queue \ {p},
                                      !.failure = IF w.failure = "none" THEN why ELSE w.failure]
  BY <1>3, <1>5 DEF ReadPod, Look, ReadFailures
<1>8. /\ v \in View /\ v.listed = w.listed /\ v.fresh = {} /\ v.found = {} /\ v.locks = "NONE"
      /\ v.queue = w.queue \ {p} /\ v.uid = w.uid
  <2>1. CASE v = [w EXCEPT !.queue = w.queue \ {p}, !.read = w.read \cup {p}]
    <3>1. w.queue \ {p} \in SUBSET Pods /\ w.read \cup {p} \in SUBSET Pods  BY <1>6 DEF View
    <3> QED  BY <1>4, <2>1, <3>1 DEF View
  <2>2. ASSUME NEW why \in ReadFailures,
               v = [w EXCEPT !.queue = w.queue \ {p},
                             !.failure = IF w.failure = "none" THEN why ELSE w.failure]
        PROVE  /\ v \in View /\ v.listed = w.listed /\ v.fresh = {} /\ v.found = {} /\ v.locks = "NONE"
               /\ v.queue = w.queue \ {p} /\ v.uid = w.uid
    <3>1. w.queue \ {p} \in SUBSET Pods  BY <1>6
    <3>2. PICK f \in ReadFailures \cup {"none"} : f = IF w.failure = "none" THEN why ELSE w.failure
      BY DEF View
    <3>3. v = [w EXCEPT !.queue = w.queue \ {p}, !.failure = f]  BY <2>2, <3>2
    <3> QED  BY <1>4, <3>1, <3>3 DEF View
  <2> QED  BY <1>7, <2>1, <2>2
<1>9. view'[r] = v  BY <1>7, AtView
<1>10. \/ v.queue # {} /\ req' = req /\ slots' = slots
       \/ v.queue = {} /\ v.read = {} /\ Exit(r, "ERROR")
       \/ v.queue = {} /\ v.read # {} /\ Goto(r, "policies") /\ slots' = slots
  BY <1>3, <1>5, <1>8, <1>9 DEF ReadPod
<1>11. CASE v.queue # {} /\ req' = req /\ slots' = slots
  <2>1. PICK q : q = [req[r] EXCEPT !.pc = req[r].pc]  OBVIOUS
  <2>2. req' = [req EXCEPT ![r] = q]  BY <1>11, <2>1, Stays
  <2>3. ASSUME SameClient(q, req[r]), q.pc = "readPods", q.answer = "none"
        PROVE  Place(q) /\ Projected(q, v) /\ Lined(q, v)
    <3>1. Place(q)  BY <1>1, <2>3, InvIs DEF Place, SameClient, Discovering
    <3>2. Projected(q, v)  BY <1>2, <1>4, <1>8, <1>11, <2>3 DEF Projected, SameClient
    <3>3. Lined(q, v)  BY <2>3 DEF Lined
    <3> QED  BY <3>1, <3>2, <3>3
  <2>4. UNCHANGED <<mode, session, flight, slots, stops, changes>>  BY <1>1, <1>11
  <2> QED  BY <1>1, <1>2, <1>7, <1>8, <2>1, <2>2, <2>3, <2>4, ReadsOn
<1>12. CASE v.read = {} /\ Exit(r, "ERROR")
  <2>1. "ERROR" \in Answers \ {"none"}  BY DEF Answers
  <2>2. World' /\ Kept /\ Held /\ rbac' = rbac  BY <1>1, Quiet
  <2>3. Answered(r, "ERROR") /\ slots' = slots - 1  BY <1>12 DEF Exit
  <2>4. flight' = flight /\ req[r].pc \notin {"select", "lead"} /\ req[r].pc \in ReadSteps  BY <1>1, <1>2
  <2> QED  BY <1>7, <1>8, <2>1, <2>2, <2>3, <2>4, Quits
<1>13. CASE v.read # {} /\ Goto(r, "policies") /\ slots' = slots
  <2>1. PICK q : q = [req[r] EXCEPT !.pc = "policies"]  OBVIOUS
  <2>2. req' = [req EXCEPT ![r] = q]  BY <1>13, <2>1 DEF Goto, Become
  <2>3. ASSUME SameClient(q, req[r]), q.pc = "policies", q.answer = "none"
        PROVE  Place(q) /\ Projected(q, v) /\ Lined(q, v)
    <3>1. Place(q)  BY <1>1, <2>3, InvIs DEF Place, SameClient, Discovering
    <3>2. Projected(q, v)  BY <1>2, <1>4, <1>8, <1>13, <2>3 DEF Projected, SameClient
    <3>3. Lined(q, v)  BY <2>3 DEF Lined
    <3> QED  BY <3>1, <3>2, <3>3
  <2>4. UNCHANGED <<mode, session, flight, slots, stops, changes>>  BY <1>1, <1>13
  <2> QED  BY <1>1, <1>2, <1>7, <1>8, <2>1, <2>2, <2>3, <2>4, ReadsOn
<1> QED  BY <1>10, <1>11, <1>12, <1>13

LEMMA ListNetworkPoliciesKeeps ==
    ASSUME Inv, NEW r \in Requests, ListNetworkPolicies(r)
    PROVE  Inv'
<1>1. /\ req[r].pc = "policies" /\ UNCHANGED <<mode, session, flight, slots, stops, changes>>
      /\ UNCHANGED cluster
  BY DEF ListNetworkPolicies, At
<1>2. "optional" \in ReadSteps /\ "policies" \in ReadSteps /\ "optional" \notin Unread
  BY DEF ReadSteps, Unread, Calls, Discovering
<1>3. PICK w \in View : w = view[r]  BY InvIs
<1>4. /\ req[r].kind = "projection" /\ Live(w.listed) # {} /\ w.fresh = {}
      /\ (\A x \in Live(w.listed) : w.listed[x] \in req[r].live)
      /\ w.read # {} /\ w.found = {} /\ w.locks = "NONE"
  BY <1>1, <1>3, InvIs DEF Place, Projected
<1>5. PICK d : d = declaredFromPods(targetPods(w.listed, w.uid), w.read)  OBVIOUS
<1>6. d \in States /\ (d = "AVAILABLE" => w.read = targetPods(w.listed, w.uid))
  BY <1>5 DEF declaredFromPods, States, ReadFailures
<1>7. PICK m \in States : view' = [view EXCEPT ![r] = [w EXCEPT !.queue = w.read, !.declared = d, !.materialized = m]]
  <2>1. \A s \in BOOLEAN : materializedNetworkPolicies(s) \in States
    BY DEF materializedNetworkPolicies, States
  <2>2. sectionFromError("PERMISSION_DENIED") \in States  BY DEF sectionFromError, States, ReadFailures
  <2>3. PICK u : u = [w EXCEPT !.queue = w.read, !.declared = d]  OBVIOUS
  <2>4. \A m : [u EXCEPT !.materialized = m] = [w EXCEPT !.queue = w.read, !.declared = d, !.materialized = m]
    BY <2>3 DEF View
  <2>5. \E m \in States : view' = [view EXCEPT ![r] = [u EXCEPT !.materialized = m]]
    BY <1>3, <1>5, <2>1, <2>2, <2>3 DEF ListNetworkPolicies, Look
  <2> QED  BY <2>4, <2>5
<1>8. PICK v : v = [w EXCEPT !.queue = w.read, !.declared = d, !.materialized = m]  OBVIOUS
<1>9. /\ v \in View /\ v.listed = w.listed /\ v.fresh = {} /\ v.found = {} /\ v.locks = "NONE"
      /\ v.queue = w.read /\ v.read = w.read /\ v.uid = w.uid /\ v.declared = d
  BY <1>4, <1>6, <1>8 DEF View
<1>10. Sections(v)  BY <1>4, <1>6, <1>9 DEF Sections
<1>11. PICK q : q = [req[r] EXCEPT !.pc = "optional"]  OBVIOUS
<1>12. req' = [req EXCEPT ![r] = q]  BY <1>11 DEF ListNetworkPolicies, Goto, Become
<1>13. ASSUME SameClient(q, req[r]), q.pc = "optional", q.answer = "none"
       PROVE  Place(q) /\ Projected(q, v) /\ Lined(q, v)
  <2>1. Place(q)  BY <1>1, <1>13, InvIs DEF Place, SameClient, Discovering
  <2>2. Projected(q, v)  BY <1>2, <1>4, <1>9, <1>10, <1>13 DEF Projected, SameClient
  <2>3. Lined(q, v)  BY <1>13 DEF Lined
  <2> QED  BY <2>1, <2>2, <2>3
<1>14. view' = [view EXCEPT ![r] = v]  BY <1>7, <1>8
<1> QED  BY <1>1, <1>2, <1>9, <1>11, <1>12, <1>13, <1>14, ReadsOn

LEMMA ReadOptionalKeeps ==
    ASSUME Inv, NEW r \in Requests, ReadOptional(r)
    PROVE  Inv'
<1>1. /\ req[r].pc = "optional" /\ UNCHANGED <<mode, session, flight, slots, stops, changes>>
      /\ UNCHANGED cluster
  BY DEF ReadOptional, At
<1>2. {"optional", "proposals"} \subseteq ReadSteps /\ {"optional", "proposals"} \cap Unread = {}
  BY DEF ReadSteps, Unread, Calls, Discovering
<1>3. PICK w \in View : w = view[r]  BY InvIs
<1>4. /\ req[r].kind = "projection" /\ Live(w.listed) # {} /\ w.fresh = {}
      /\ (\A x \in Live(w.listed) : w.listed[x] \in req[r].live)
      /\ w.queue # {} /\ Sections(w)
  BY <1>1, <1>3, InvIs DEF Place, Projected
<1>5. PICK p : p = Min(w.queue)  OBVIOUS
<1>6. p \in w.queue /\ w.queue \subseteq Pods /\ p \in Pods
  <2>1. w.queue \in SUBSET Nat /\ w.queue \subseteq Pods  BY WorkbenchAssumption DEF View
  <2> QED  BY <1>4, <1>5, <2>1, MinOf
<1>7. PICK lock \in {"AVAILABLE"} \cup ReadFailures, profile \in {"AVAILABLE"} \cup ReadFailures :
        view' = [view EXCEPT ![r] = [w EXCEPT !.queue = w.queue \ {p},
                    !.locks = summarizeOptional(w.locks, lock),
                    !.profiles = summarizeOptional(w.profiles, profile),
                    !.materialized = addOptionalMaterialized(w.materialized, lock, profile),
                    !.found = IF lock = "AVAILABLE" THEN w.found \cup {p} ELSE w.found]]
  BY <1>3, <1>5 DEF ReadOptional, Look
<1>8. PICK l : l = summarizeOptional(w.locks, lock)  OBVIOUS
<1>9. PICK k : k = summarizeOptional(w.profiles, profile)  OBVIOUS
<1>10. PICK m : m = addOptionalMaterialized(w.materialized, lock, profile)  OBVIOUS
<1>11. PICK f : f = IF lock = "AVAILABLE" THEN w.found \cup {p} ELSE w.found  OBVIOUS
<1>12. PICK v : v = [w EXCEPT !.queue = w.queue \ {p}, !.locks = l, !.profiles = k, !.materialized = m, !.found = f]
  OBVIOUS
<1>13. /\ l \in States /\ l # "NONE" /\ k \in States
       /\ l = "AVAILABLE" => lock = "AVAILABLE" /\ w.locks \in {"NONE", "AVAILABLE"}
  BY <1>8, <1>9 DEF summarizeOptional, States, ReadFailures
<1>14. m \in States /\ (m = "EMPTY" => w.materialized = "EMPTY" /\ lock # "AVAILABLE")
  BY <1>10 DEF addOptionalMaterialized, States, View
<1>15. /\ v \in View /\ v.listed = w.listed /\ v.fresh = {} /\ v.found = f /\ v.locks = l
       /\ v.queue = w.queue \ {p} /\ v.read = w.read /\ v.uid = w.uid /\ v.declared = w.declared
       /\ v.materialized = m
  <2>1. f \in SUBSET Pods /\ w.queue \ {p} \in SUBSET Pods  BY <1>6, <1>11 DEF View
  <2> QED  BY <1>4, <1>12, <1>13, <1>14, <2>1 DEF View
<1>16. Sections(v)
  <2>1. w.locks = "NONE" => w.found = {} /\ w.queue = w.read  BY <1>4 DEF Sections
  <2>2. w.locks = "AVAILABLE" => w.found = w.read \ w.queue  BY <1>4 DEF Sections
  <2>3. w.queue \subseteq w.read /\ w.read # {} /\ (w.materialized = "EMPTY" => w.found = {})
        /\ (w.declared = "AVAILABLE" => w.read = targetPods(w.listed, w.uid))
    BY <1>4 DEF Sections
  <2>4. v.locks = "AVAILABLE" => v.found = v.read \ v.queue
    BY <1>6, <1>11, <1>13, <1>15, <2>1, <2>2, <2>3
  <2>5. v.materialized = "EMPTY" => v.found = {}  BY <1>11, <1>14, <1>15, <2>3
  <2> QED  BY <1>13, <1>15, <2>3, <2>4, <2>5 DEF Sections
<1>17. view' = [view EXCEPT ![r] = v]  BY <1>7, <1>8, <1>9, <1>10, <1>11, <1>12
<1>18. PICK pc \in {"optional", "proposals"} :
         /\ req' = [req EXCEPT ![r] = [req[r] EXCEPT !.pc = pc]]
         /\ pc = "optional" => w.queue # {p}
         /\ pc = "proposals" => w.queue = {p}
  <2>1. CASE w.queue = {p}  BY <1>3, <1>5, <2>1 DEF ReadOptional, Goto, Become
  <2>2. CASE w.queue # {p}
    <3>1. req' = req  BY <1>3, <1>5, <2>2 DEF ReadOptional
    <3> QED  BY <1>1, <2>2, <3>1, Stays
  <2> QED  BY <2>1, <2>2
<1>19. PICK q : q = [req[r] EXCEPT !.pc = pc]  OBVIOUS
<1>20. (pc = "optional" => v.queue # {}) /\ (pc = "proposals" => v.queue = {})  BY <1>6, <1>15, <1>18
<1>21. ASSUME SameClient(q, req[r]), q.pc = pc, q.answer = "none"
       PROVE  Place(q) /\ Projected(q, v) /\ Lined(q, v)
  <2>1. Place(q)  BY <1>1, <1>4, <1>21, InvIs DEF Place, SameClient, Discovering
  <2>2. Projected(q, v)  BY <1>2, <1>4, <1>15, <1>16, <1>20, <1>21 DEF Projected, SameClient
  <2>3. Lined(q, v)  BY <1>21 DEF Lined
  <2> QED  BY <2>1, <2>2, <2>3
<1>22. req[r].pc \in ReadSteps /\ pc \in ReadSteps /\ req' = [req EXCEPT ![r] = q]  BY <1>1, <1>2, <1>18, <1>19
<1> QED  BY ZenonT(60), <1>1, <1>15, <1>17, <1>19, <1>21, <1>22, ReadsOn

LEMMA ProposalObjectsAre ==
    ASSUME Inv, NEW q
    PROVE  /\ ProposalObjects(q) \in SUBSET Proposal /\ ProposalObjects(q) \in SUBSET Objects
           /\ IsFiniteSet(ProposalObjects(q)) /\ ProposalObjects(q) \subseteq proposals
BY FS_EmptySet DEF ProposalObjects, Objects, Inv, World

LEMMA loadProposalsKeeps ==
    ASSUME Inv, NEW r \in Requests, loadProposals(r)
    PROVE  Inv'
<1>1. /\ req[r].pc = "proposals" /\ UNCHANGED <<mode, session, flight, stops, changes>>
      /\ UNCHANGED cluster /\ Exit(r, "OK")
  BY DEF loadProposals, At
<1>2. "proposals" \in ReadSteps /\ "done" \notin Unread  BY DEF ReadSteps, Unread, Calls, Discovering
<1>3. PICK w \in View : w = view[r]  BY InvIs
<1>4. /\ req[r].kind = "projection" /\ Live(w.listed) # {} /\ w.fresh = {}
      /\ (\A x \in Live(w.listed) : w.listed[x] \in req[r].live)
      /\ w.queue = {} /\ Sections(w)
  BY <1>1, <1>3, InvIs DEF Place, Projected
<1>5. PICK E \in SUBSET Proposal : E = ProposalObjects(req[r])  BY ProposalObjectsAre
<1>6. E \in SUBSET Objects /\ IsFiniteSet(E)  BY <1>5, ProposalObjectsAre
<1>7. PICK P \in SUBSET E : P = page(E, 0)  BY DEF page
<1>8. PICK U : U = {w.listed[p].uid : p \in targetPods(w.listed, w.uid)}  OBVIOUS
<1>9. \A u \in U : \E x \in req[r].live : x.uid = u  BY <1>4, <1>8 DEF targetPods
<1>10. PICK v : /\ view' = [view EXCEPT ![r] = v]
                /\ \/ v = [w EXCEPT !.governance = governanceProjection(P),
                               !.fresh = behavioralVerificationProjection(U, w.uid, P), !.existing = E]
                   \/ v = [w EXCEPT !.governance = sectionFromError("PERMISSION_DENIED")]
  <2> DEFINE objects == ProposalObjects(req[r])
             uids == {view[r].listed[p].uid : p \in targetPods(view[r].listed, view[r].uid)}
  <2>1. \/ view' = [view EXCEPT ![r] =
                       [view[r] EXCEPT !.governance = governanceProjection(page(objects, 0)),
                           !.fresh = behavioralVerificationProjection(uids, view[r].uid, page(objects, 0)),
                           !.existing = objects]]
        \/ view' = [view EXCEPT ![r] = [view[r] EXCEPT !.governance = sectionFromError("PERMISSION_DENIED")]]
    BY Zenon DEF loadProposals, Look
  <2>2. objects = E /\ uids = U /\ page(objects, 0) = P  BY <1>3, <1>5, <1>7, <1>8
  <2> HIDE DEF objects, uids
  <2> QED  BY <1>3, <2>1, <2>2
<1>11. /\ v \in View /\ v.listed = w.listed /\ v.found = w.found /\ v.locks = w.locks /\ v.read = w.read
       /\ v.uid = w.uid /\ v.declared = w.declared /\ v.materialized = w.materialized
       /\ v.governance = "EMPTY" => v.existing = {}
       /\ v.governance = "AVAILABLE" /\ Cardinality(v.existing) <= PageLimit =>
              \A x \in v.existing : AssociateProposal(x)
       /\ \A x \in v.fresh : x.fact.wl = w.uid /\ x.fact.digest = x.digest /\ x.fact.pod \in U
  <2>1. CASE v = [w EXCEPT !.governance = governanceProjection(P),
                      !.fresh = behavioralVerificationProjection(U, w.uid, P), !.existing = E]
    <3>1. PICK g : g = governanceProjection(P)  OBVIOUS
    <3>2. PICK F : F = behavioralVerificationProjection(U, w.uid, P)  OBVIOUS
    <3>3. g \in States /\ F \in SUBSET Proposal
      BY <3>1, <3>2 DEF governanceProjection, behavioralVerificationProjection, States
    <3>4. v = [w EXCEPT !.governance = g, !.fresh = F, !.existing = E]  BY <2>1, <3>1, <3>2
    <3>5. /\ v \in View /\ v.listed = w.listed /\ v.found = w.found /\ v.locks = w.locks /\ v.read = w.read
          /\ v.uid = w.uid /\ v.declared = w.declared /\ v.materialized = w.materialized
          /\ v.governance = g /\ v.fresh = F /\ v.existing = E
      BY <1>6, <3>3, <3>4 DEF View
    <3>6. g = "EMPTY" => E = {}
      <4>1. g = "EMPTY" => P = {}  BY <3>1 DEF governanceProjection
      <4> QED  BY <1>6, <1>7, <4>1, FirstPage
    <3>7. g = "AVAILABLE" /\ Cardinality(E) <= PageLimit => \A x \in E : AssociateProposal(x)
      <4>1. g = "AVAILABLE" => \A x \in P : AssociateProposal(x)
        BY <3>1 DEF governanceProjection
      <4>2. Cardinality(E) <= PageLimit => P = E  BY <1>6, <1>7, OnePage
      <4> QED  BY <4>1, <4>2
    <3>8. \A x \in F : x.fact.wl = w.uid /\ x.fact.digest = x.digest /\ x.fact.pod \in U
      BY <3>2 DEF behavioralVerificationProjection, WithinRecordedValidity, ValidateApprovedCandidate
    <3> QED  BY <3>5, <3>6, <3>7, <3>8
  <2>2. CASE v = [w EXCEPT !.governance = sectionFromError("PERMISSION_DENIED")]
    <3>1. "PERMISSION_DENIED" \in States  BY DEF States, ReadFailures
    <3> QED  BY <1>4, <2>2, <3>1 DEF View, sectionFromError
  <2> QED  BY <1>10, <2>1, <2>2
<1>12. PICK q : q = Closed(req[r], "OK")  OBVIOUS
<1>13. ASSUME SameClient(q, req[r]), q.pc = "done", q.answer = "OK"
       PROVE  Projected(q, v) /\ Paged(q, v) /\ Lined(q, v)
  <2>1. \A x \in v.fresh : \E y \in q.live : y.uid = x.fact.pod  BY <1>9, <1>11, <1>13 DEF SameClient
  <2>2. /\ v.declared = "AVAILABLE" => v.read = targetPods(v.listed, v.uid)
        /\ v.locks = "AVAILABLE" => v.found = v.read
        /\ v.materialized = "EMPTY" => v.found = {}
    BY <1>4, <1>11 DEF Sections
  <2>3. Projected(q, v)  BY <1>2, <1>11, <1>13, <2>1, <2>2 DEF Projected
  <2>4. q.kind = "projection"  BY <1>4, <1>13 DEF SameClient
  <2>5. Paged(q, v)
    <3>1. Paged(req[r], view[r])  BY InvIs
    <3> QED  BY <1>13, <2>4, <3>1 DEF Paged, SameClient, Collections
  <2>6. Lined(q, v)  BY <1>13, <2>4 DEF Lined
  <2> QED  BY <2>3, <2>5, <2>6
<1>14. World' /\ Kept /\ Held /\ rbac' = rbac  BY <1>1, Quiet
<1>15. flight' = flight /\ req[r].pc \in ReadSteps /\ req[r].kind # "generate" /\ v \in View
  BY <1>1, <1>2, <1>4, <1>11
<1>16. Exit(r, "OK") /\ view' = [view EXCEPT ![r] = v]  BY <1>1, <1>10
<1> QED  BY <1>12, <1>13, <1>14, <1>15, <1>16, Tells

\* What a collection shows depends on the selector's workload and image.
LEMMA SelectorIs ==
    ASSUME NEW kind, NEW S, NEW t, NEW u, u.wl = t.wl, u.image = t.image
    PROVE  shownOf(kind, S, u) = shownOf(kind, S, t)
BY DEF shownOf, selectorMatches, proposalMatches

\* A page shows what comes next, and the last one the rest.
LEMMA PageShows ==
    ASSUME NEW rv \in SUBSET Objects, IsFiniteSet(rv), NEW after \in Nat, NEW kind, NEW t,
           NEW seen, seen = shownOf(kind, {x \in rv : x.id =< after}, t),
           NEW shown, shown = shownOf(kind, page(rv, after), t)
    PROVE  /\ shown \cap seen = {} /\ shown \in SUBSET Objects
           /\ ~GetContinue(rv, after) => shown \cup seen = shownOf(kind, rv, t)
           /\ seen \cup shown = shownOf(kind, {x \in rv : x.id =< lastOf(page(rv, after), after)}, t)
<1> DEFINE Fits(x) == IF kind = "observations" THEN selectorMatches(x, t)
                      ELSE proposalProjection(x) /\ proposalMatches(x, t)
<1>1. \A S : shownOf(kind, S, t) = {x \in S : Fits(x)}  BY DEF shownOf
<1> HIDE DEF Fits
<1>2. PICK last \in Nat : last = lastOf(page(rv, after), after)  BY PageIs
<1>3. /\ last >= after /\ page(rv, after) = {x \in rv : after < x.id /\ x.id =< last}
      /\ ~GetContinue(rv, after) => \A x \in rv : x.id =< last
  BY <1>2, PageIs
<1>4. \A x \in rv : x.id \in Nat  BY ObjectIds
<1>5. \A x : x \in seen <=> x \in rv /\ Fits(x) /\ x.id =< after  BY <1>1
<1>6. \A x : x \in shown <=> x \in rv /\ Fits(x) /\ after < x.id /\ x.id =< last  BY <1>1, <1>3
<1>7. shown \cap seen = {} /\ shown \in SUBSET Objects  BY <1>4, <1>5, <1>6
<1>8. seen \cup shown = {x \in {y \in rv : y.id =< last} : Fits(x)}  BY <1>3, <1>4, <1>5, <1>6
<1>9. ASSUME ~GetContinue(rv, after)  PROVE shown \cup seen = {x \in rv : Fits(x)}
  <2>1. \A x \in rv : x.id =< last  BY <1>3, <1>9
  <2> QED  BY <1>8, <2>1
<1> QED  BY <1>1, <1>2, <1>7, <1>8, <1>9

\* A further continuation has been given.
LEMMA Issues ==
    ASSUME Inv, NEW more, NEW next, more => next \in Token /\ next.kind \in Kinds /\ TokenOK(next),
           issued' = IF more THEN issued \cup {next} ELSE issued,
           UNCHANGED <<mode, session, stops, rbac, pods, workload, obs, proposals, attempts, offered,
                       turmoil, changes>>
    PROVE  World' /\ Kept /\ Held
<1>1. issued' \in SUBSET Token /\ \A t \in issued' : t.kind \in Kinds /\ TokenOK(t)  BY DEF Inv, World
<1>2. World'  BY <1>1 DEF Inv, World, UIDsName, TokenOK
<1> QED  BY <1>2 DEF Kept, Held

LEMMA ListPageKeeps ==
    ASSUME Inv, NEW r \in Requests, ListPage(r)
    PROVE  Inv'
<1> DEFINE scope == collectionContinuationScope(req[r])
           invalid == \/ ~parseReadModelSelector(req[r].want)
                      \/ req[r].token # NoToken /\ ~openCollectionContinuation(req[r].token, scope)
           first == IF req[r].kind = "observations" THEN ObservationObjects(req[r]) ELSE ProposalObjects(req[r])
<1>1. /\ req[r].pc = "page"
      /\ UNCHANGED <<mode, session, flight, stops, rbac, pods, workload, obs, proposals, attempts,
                     offered, turmoil, changes>>
  BY DEF ListPage, At
<1>2. "page" \in ReadSteps /\ "done" \notin Unread  BY DEF ReadSteps, Unread, Calls, Discovering
<1>3. PICK p \in Request : p = req[r]  BY InvIs
<1>4. p.kind \in Collections  BY <1>1, <1>3, InvIs DEF Place
<1>5. CASE invalid
  <2>1. Exit(r, "INVALID") /\ view' = view /\ issued' = issued  BY <1>5 DEF ListPage
  <2>2. UNCHANGED cluster  BY <1>1, <2>1 DEF cluster
  <2>3. "INVALID" \in Answers \ {"none"}  BY DEF Answers
  <2> QED  BY <1>1, <1>2, <2>1, <2>2, <2>3, QuietlyQuits DEF Exit
<1>6. CASE ~invalid
  <2>1. PICK rv : rv = IF p.token = NoToken THEN first ELSE p.token.rv  OBVIOUS
  <2>2. PICK shown : shown = shownOf(p.kind, page(rv, p.token.after), p.want)  OBVIOUS
  <2>3. PICK more : more = GetContinue(rv, p.token.after)  OBVIOUS
  <2>4. PICK next : next = sealCollectionContinuation(p.kind, scope, rv, p.token.after, p.token.seen \cup shown)
    OBVIOUS
  <2>5. PICK v : v = [NoView EXCEPT !.shown = shown, !.complete = ~more, !.rv = rv]  OBVIOUS
  <2>6. /\ Exit(r, "OK") /\ view' = [view EXCEPT ![r] = v]
        /\ issued' = IF more THEN issued \cup {next} ELSE issued
    <3>1. /\ Exit(r, "OK")
          /\ view' = [view EXCEPT ![r] =
                 [NoView EXCEPT !.shown = shownOf(req[r].kind, page(IF req[r].token = NoToken THEN first ELSE req[r].token.rv, req[r].token.after), req[r].want),
                     !.complete = ~GetContinue(IF req[r].token = NoToken THEN first ELSE req[r].token.rv, req[r].token.after),
                     !.rv = IF req[r].token = NoToken THEN first ELSE req[r].token.rv]]
      BY <1>6, Zenon DEF ListPage, Look
    <3>2. issued' = IF GetContinue(IF req[r].token = NoToken THEN first ELSE req[r].token.rv, req[r].token.after)
                    THEN issued \cup {sealCollectionContinuation(req[r].kind, scope,
                            IF req[r].token = NoToken THEN first ELSE req[r].token.rv, req[r].token.after,
                            req[r].token.seen \cup
                              shownOf(req[r].kind, page(IF req[r].token = NoToken THEN first ELSE req[r].token.rv, req[r].token.after), req[r].want))}
                    ELSE issued
      BY <1>6, Zenon DEF ListPage
    <3> HIDE DEF scope, first
    <3> QED  BY <1>3, <2>1, <2>2, <2>3, <2>4, <2>5, <3>1, <3>2
  <2>7. rv \in SUBSET Objects /\ IsFiniteSet(rv) /\ p.token.after \in Nat /\ p.token.seen \in SUBSET Objects
    <3>1. p.token \in Token  BY DEF Request
    <3>2. first \in SUBSET Objects /\ IsFiniteSet(first)
      BY <1>3, ObservationObjectsAre, ProposalObjectsAre DEF Objects
    <3>3. p.token # NoToken => IsFiniteSet(p.token.rv)  BY <1>3, InvIs DEF Paged, TokenOK
    <3> HIDE DEF first
    <3> QED  BY <2>1, <3>1, <3>2, <3>3 DEF Token
  <2>8. p.token.seen = shownOf(p.kind, {x \in rv : x.id =< p.token.after}, p.want)
    <3>1. CASE p.token = NoToken
      <4>1. p.token.seen = {} /\ p.token.after = 0  BY <3>1 DEF NoToken
      <4>2. {x \in rv : x.id =< p.token.after} = {}  BY <2>7, <4>1, ObjectIds
      <4> QED  BY <4>1, <4>2 DEF shownOf
    <3>2. CASE p.token # NoToken
      <4>1. p.token.kind = p.kind /\ TokenOK(p.token)  BY <1>3, <3>2, InvIs DEF Paged
      <4>2. p.token.scope = <<p.header, p.want.wl, p.want.image>>
        BY <1>3, <1>6, <3>2 DEF openCollectionContinuation, collectionContinuationScope
      <4>3. p.token.scope[2] = p.want.wl /\ p.token.scope[3] = p.want.image  BY <4>2
      <4>4. rv = p.token.rv  BY <2>1, <3>2
      <4>5. p.token.seen = shownOf(p.kind, {x \in rv : x.id =< p.token.after},
                                   [wl |-> p.want.wl, image |-> p.want.image])
        BY <1>4, <4>1, <4>3, <4>4 DEF TokenOK
      <4> QED  BY <4>5, SelectorIs
    <3> QED  BY <3>1, <3>2
  <2>9. /\ shown \cap p.token.seen = {} /\ shown \in SUBSET Objects
        /\ ~more => shown \cup p.token.seen = shownOf(p.kind, rv, p.want)
        /\ p.token.seen \cup shown =
               shownOf(p.kind, {x \in rv : x.id =< lastOf(page(rv, p.token.after), p.token.after)}, p.want)
    BY <2>2, <2>3, <2>7, <2>8, PageShows
  <2>10. next \in Token /\ next.kind \in Kinds /\ TokenOK(next)
    <3>1. PICK last \in Nat : last = lastOf(page(rv, p.token.after), p.token.after)  BY <2>7, PageIs
    <3>2. next = [kind |-> p.kind, scope |-> <<p.header, p.want.wl, p.want.image>>, rv |-> rv,
                  after |-> last, seen |-> p.token.seen \cup shown]
      BY <1>3, <2>4, <3>1 DEF sealCollectionContinuation, collectionContinuationScope
    <3>3. p.kind \in Kinds /\ p.header \in Headers /\ p.want.wl \in Nat /\ p.want.image \in Nat
      BY DEF Request, Target
    <3>4. next.scope \in Scopes  BY <3>2, <3>3 DEF Scopes
    <3>5. next \in Token  BY <2>7, <2>9, <3>2, <3>3, <3>4 DEF Token
    <3>6. p.token.seen \cup shown = shownOf(p.kind, {x \in rv : x.id =< last},
                                            [wl |-> p.want.wl, image |-> p.want.image])
      BY <2>9, <3>1, SelectorIs
    <3>7. next.scope[2] = p.want.wl /\ next.scope[3] = p.want.image  BY <3>2
    <3> QED  BY <2>7, <3>2, <3>3, <3>5, <3>6, <3>7 DEF TokenOK
  <2>11. World' /\ Kept /\ Held  BY <1>1, <2>6, <2>10, Issues
  <2>12. v \in View /\ v.fresh = {} /\ v.shown = shown /\ v.rv = rv /\ v.complete = ~more
    <3>1. (~more) \in BOOLEAN  OBVIOUS
    <3> QED  BY ZenonT(60), <2>5, <2>7, <2>9, <3>1, NoViewIs DEF View
  <2>13. PICK q : q = Closed(req[r], "OK")  OBVIOUS
  <2>14. ASSUME SameClient(q, req[r]), q.pc = "done", q.answer = "OK"
         PROVE  Projected(q, v) /\ Paged(q, v) /\ Lined(q, v)
    <3>1. q.kind = p.kind /\ q.token = p.token /\ q.want = p.want  BY <1>3, <2>14 DEF SameClient
    <3>2. Projected(q, v)  BY <1>2, <1>4, <2>12, <2>14, <3>1 DEF Projected, Collections
    <3>3. Paged(p, view[r])  BY <1>3, InvIs
    <3>4. Paged(q, v)  BY <1>4, <2>9, <2>12, <3>1, <3>3 DEF Paged
    <3>5. Lined(q, v)  BY <1>4, <2>14, <3>1 DEF Lined, Collections
    <3> QED  BY <3>2, <3>4, <3>5
  <2>15. req[r].pc \in ReadSteps /\ req[r].kind # "generate"  BY <1>1, <1>2, <1>3, <1>4 DEF Collections
  <2>16. Exit(r, "OK") /\ view' = [view EXCEPT ![r] = v] /\ flight' = flight /\ rbac' = rbac  BY <1>1, <2>6
  <2>17. v \in View  BY <2>12
  <2> QED  BY <2>11, <2>13, <2>14, <2>15, <2>16, <2>17, Tells
<1> QED  BY <1>5, <1>6

LEMMA GetNamedKeeps ==
    ASSUME Inv, NEW r \in Requests, GetNamed(r)
    PROVE  Inv'
<1> DEFINE objects == CASE req[r].kind = "observation"              -> ObservationObjects(req[r])
                        [] req[r].kind \in {"proposal", "attempts"} -> ProposalObjects(req[r])
                        [] req[r].kind = "rollbacks"                -> ApplyAttempts
                        [] req[r].kind = "attempt"                  -> attempts
           named == {x \in objects : x.id = req[r].obs}
<1>1. /\ req[r].pc = "get" /\ UNCHANGED <<mode, session, flight, stops, changes>>
      /\ UNCHANGED cluster
  BY DEF GetNamed, At
<1>2. /\ "get" \in ReadSteps /\ "attemptList" \in ReadSteps /\ "attemptList" \notin Unread
  BY DEF ReadSteps, Unread, Calls, Discovering
<1>3. /\ req[r].kind \in {"observation", "proposal", "attempts", "attempt", "rollbacks"}
      /\ req[r].kind = "attempts" => req[r].uid # 0
  BY <1>1, InvIs DEF Place
<1>4. attempts \in SUBSET Objects /\ UIDsName(proposals, attempts)  BY DEF Inv, World, Objects
<1>5. PICK v : v = [NoView EXCEPT !.before = attempts]  OBVIOUS
<1>6. v \in View /\ v.fresh = {} /\ v.before = attempts  BY <1>4, <1>5, NoViewIs DEF View
<1>7. view' = [view EXCEPT ![r] = v]  BY <1>5 DEF GetNamed, Look
<1>8. World' /\ Kept /\ Held /\ rbac' = rbac  BY <1>1, Quiet
<1>9. \/ \E a \in {"INVALID", "NOT_FOUND", "CONFLICT", "MALFORMED_OBJECT", "OK"} :
            Exit(r, a) /\ (a = "OK" => req[r].kind \notin {"attempts", "rollbacks"})
      \/ /\ req[r].kind \in {"attempts", "rollbacks"} /\ Goto(r, "attemptList") /\ slots' = slots
         /\ named # {} /\ (req[r].uid # 0 => \A x \in named : x.uid = req[r].uid)
  <2> HIDE DEF objects
  <2>1. objects = CASE req[r].kind = "observation"              -> ObservationObjects(req[r])
                    [] req[r].kind \in {"proposal", "attempts"} -> ProposalObjects(req[r])
                    [] req[r].kind = "rollbacks"                -> ApplyAttempts
                    [] req[r].kind = "attempt"                  -> attempts
    BY DEF objects
  <2>2. IF req[r].kind \in {"attempt", "rollbacks"} /\ req[r].uid = 0
        THEN Exit(r, "INVALID") /\ UNCHANGED faults
        ELSE /\ CallReturns(r)
             /\ IF named = {} THEN Exit(r, "NOT_FOUND")
                ELSE IF req[r].uid # 0 /\ \E x \in named : x.uid # req[r].uid THEN Exit(r, "CONFLICT")
                ELSE IF req[r].kind \in {"attempts", "rollbacks"} THEN Goto(r, "attemptList") /\ UNCHANGED slots
                ELSE Exit(r, IF req[r].kind = "proposal" /\ ~\A x \in named : proposalProjection(x)
                             THEN "MALFORMED_OBJECT" ELSE "OK")
    BY <2>1, Zenon DEF GetNamed
  <2> HIDE DEF named
  <2>3. PICK b \in {"MALFORMED_OBJECT", "OK"} :
          b = IF req[r].kind = "proposal" /\ ~\A x \in named : proposalProjection(x)
              THEN "MALFORMED_OBJECT" ELSE "OK"
    OBVIOUS
  <2> QED  BY <2>2, <2>3
<1>10. CASE \E a \in {"INVALID", "NOT_FOUND", "CONFLICT", "MALFORMED_OBJECT", "OK"} :
               Exit(r, a) /\ (a = "OK" => req[r].kind \notin {"attempts", "rollbacks"})
  <2>1. PICK a \in {"INVALID", "NOT_FOUND", "CONFLICT", "MALFORMED_OBJECT", "OK"} :
          Exit(r, a) /\ (a = "OK" => req[r].kind \notin {"attempts", "rollbacks"})
    BY <1>10
  <2>2. a \in Answers \ {"none"}  BY DEF Answers
  <2>3. a = "OK" => req[r].kind \notin Telling  BY <1>3, <2>1 DEF Telling, Collections
  <2>4. Answered(r, a) /\ slots' = slots - 1  BY <2>1 DEF Exit
  <2>5. flight' = flight /\ req[r].pc \notin {"select", "lead"} /\ req[r].pc \in ReadSteps  BY <1>1, <1>2
  <2> QED  BY <1>6, <1>7, <1>8, <2>2, <2>3, <2>4, <2>5, Quits
<1>11. CASE /\ req[r].kind \in {"attempts", "rollbacks"} /\ Goto(r, "attemptList") /\ slots' = slots
            /\ named # {} /\ (req[r].uid # 0 => \A x \in named : x.uid = req[r].uid)
  <2>1. PICK q : q = [req[r] EXCEPT !.pc = "attemptList"]  OBVIOUS
  <2>2. req' = [req EXCEPT ![r] = q]  BY <1>11, <2>1 DEF Goto, Become
  <2>3. ASSUME req[r].kind = "attempts", NEW a \in attempts, a.proposal = req[r].uid
        PROVE  a.proposalName = req[r].obs
    <3>1. objects = ProposalObjects(req[r])  BY <2>3
    <3>2. PICK x \in named : x.uid = req[r].uid  BY <1>3, <1>11, <2>3
    <3>3. x \in proposals /\ x.id = req[r].obs  BY <3>1, <3>2, ProposalObjectsAre
    <3> QED  BY <1>4, <2>3, <3>2, <3>3 DEF UIDsName
  <2>4. ASSUME SameClient(q, req[r]), q.pc = "attemptList", q.answer = "none"
        PROVE  Place(q) /\ Projected(q, v) /\ Lined(q, v)
    <3>1. Place(q)  BY <1>1, <1>11, <2>4, InvIs DEF Place, SameClient, Discovering
    <3>2. Projected(q, v)  BY <1>2, <1>6, <2>4 DEF Projected
    <3>3. Lined(q, v)  BY <1>6, <2>3, <2>4 DEF Lined, SameClient
    <3> QED  BY <3>1, <3>2, <3>3
  <2>5. UNCHANGED <<mode, session, flight, slots, stops, changes>>  BY <1>1, <1>11
  <2>6. req[r].pc \in ReadSteps  BY <1>1, <1>2
  <2> QED  BY <1>1, <1>2, <1>6, <1>7, <2>1, <2>2, <2>4, <2>5, <2>6, ReadsOn
<1> QED  BY <1>9, <1>10, <1>11

\* The continuations of the other lists say nothing of what was shown.
LEMMA PlainToken ==
    ASSUME NEW kind \in Kinds \ Collections, NEW rv \in SUBSET Objects, IsFiniteSet(rv), NEW after \in Nat,
           NEW t, t = sealCollectionContinuation(kind, <<>>, rv, after, {})
    PROVE  t \in Token /\ t.kind \in Kinds /\ TokenOK(t)
<1>1. PICK last \in Nat : last = lastOf(page(rv, after), after)  BY PageIs
<1>2. t = [kind |-> kind, scope |-> <<>>, rv |-> rv, after |-> last, seen |-> {}]
  BY <1>1 DEF sealCollectionContinuation
<1> QED  BY <1>2 DEF Token, TokenOK, Scopes

\* The list a continuation belongs to, or else a new one.
LEMMA ListIs ==
    ASSUME Inv, NEW r \in Requests, NEW now \in SUBSET Objects, IsFiniteSet(now),
           NEW rv, rv = IF req[r].token = NoToken THEN now ELSE req[r].token.rv
    PROVE  /\ rv \in SUBSET Objects /\ IsFiniteSet(rv) /\ req[r].token.after \in Nat
           /\ page(rv, req[r].token.after) \subseteq rv
           /\ req[r].token = NoToken /\ ~GetContinue(rv, req[r].token.after) =>
                 rv = now /\ page(rv, req[r].token.after) = now
<1>1. req[r].token \in Token  BY InvIs DEF Request
<1>2. req[r].token # NoToken => IsFiniteSet(req[r].token.rv)  BY InvIs DEF Paged, TokenOK
<1>3. rv \in SUBSET Objects /\ IsFiniteSet(rv) /\ req[r].token.after \in Nat  BY <1>1, <1>2 DEF Token
<1>4. page(rv, req[r].token.after) \subseteq rv  BY DEF page
<1>5. ASSUME req[r].token = NoToken, ~GetContinue(rv, req[r].token.after)
      PROVE  rv = now /\ page(rv, req[r].token.after) = now
  <2>1. rv = now /\ req[r].token.after = 0  BY <1>5 DEF NoToken
  <2>2. page(now, 0) = {x \in now : 0 < x.id /\ x.id =< lastOf(page(now, 0), 0)}  BY PageIs
  <2>3. \A x \in now : x.id =< lastOf(page(now, 0), 0)  BY <1>5, <2>1, PageIs
  <2> QED  BY <2>1, <2>2, <2>3, ObjectIds
<1> QED  BY <1>3, <1>4, <1>5

LEMMA ListAttemptsKeeps ==
    ASSUME Inv, NEW r \in Requests, ListAttempts(r)
    PROVE  Inv'
<1>1. /\ req[r].pc = "attemptList"
      /\ UNCHANGED <<mode, session, flight, stops, rbac, pods, workload, obs, proposals, attempts,
                     offered, turmoil, changes>>
  BY DEF ListAttempts, At
<1>2. "attemptList" \in ReadSteps /\ "done" \notin Unread  BY DEF ReadSteps, Unread, Calls, Discovering
<1>3. PICK p \in Request : p = req[r]  BY InvIs
<1>4. p.kind \in {"attempts", "rollbacks"} /\ p.kind \in Kinds \ Collections
  BY <1>1, <1>3, InvIs DEF Place, Kinds, Reads, Lineage, Collections
<1>5. PICK now : now = IF p.kind = "attempts" THEN ApplyAttempts ELSE attempts \ ApplyAttempts  OBVIOUS
<1>6. PICK rv : rv = IF p.token = NoToken THEN now ELSE p.token.rv  OBVIOUS
<1>7. PICK read : read = page(rv, p.token.after)  OBVIOUS
<1>8. PICK shown : shown = IF p.kind = "attempts" THEN decodeLineageApply(read, p.obs, p.uid)
                           ELSE decodeLineageRollback(read, p.uid)
  OBVIOUS
<1>9. PICK more \in BOOLEAN : more = GetContinue(rv, p.token.after)  BY DEF GetContinue
<1>10. PICK next : next = sealCollectionContinuation(p.kind, <<>>, rv, p.token.after, {})  OBVIOUS
<1>11. PICK w \in View : w = view[r]  BY InvIs
<1>12. PICK v : v = [w EXCEPT !.shown = shown, !.complete = ~more]  OBVIOUS
<1>13. /\ Exit(r, "OK") /\ view' = [view EXCEPT ![r] = v]
       /\ issued' = IF more THEN issued \cup {next} ELSE issued
  <2> DEFINE now0 == IF req[r].kind = "attempts" THEN ApplyAttempts ELSE attempts \ ApplyAttempts
             rv0 == IF req[r].token = NoToken THEN now0 ELSE req[r].token.rv
             shown0 == IF req[r].kind = "attempts"
                       THEN decodeLineageApply(page(rv0, req[r].token.after), req[r].obs, req[r].uid)
                       ELSE decodeLineageRollback(page(rv0, req[r].token.after), req[r].uid)
  <2>1. /\ Exit(r, "OK")
        /\ view' = [view EXCEPT ![r] = [view[r] EXCEPT !.shown = shown0,
                                            !.complete = ~GetContinue(rv0, req[r].token.after)]]
        /\ issued' = IF GetContinue(rv0, req[r].token.after)
                     THEN issued \cup {sealCollectionContinuation(req[r].kind, <<>>, rv0, req[r].token.after, {})}
                     ELSE issued
    BY Zenon DEF ListAttempts, Look
  <2>2. now0 = now  BY <1>3, <1>5
  <2>3. rv0 = rv  BY <1>3, <1>6, <2>2
  <2>4. shown0 = shown  BY <1>3, <1>7, <1>8, <2>3
  <2> HIDE DEF now0, rv0, shown0
  <2> QED  BY <1>3, <1>9, <1>10, <1>11, <1>12, <2>1, <2>3, <2>4
<1>14. now \in SUBSET Objects /\ IsFiniteSet(now)
  <2>1. attempts \in SUBSET Objects /\ IsFiniteSet(attempts)  BY DEF Inv, World, Objects
  <2>2. now \subseteq attempts  BY <1>5 DEF ApplyAttempts
  <2> QED  BY <2>1, <2>2, FS_Subset
<1>15. /\ rv \in SUBSET Objects /\ IsFiniteSet(rv) /\ p.token.after \in Nat /\ read \subseteq rv
       /\ p.token = NoToken /\ ~more => rv = now /\ read = now
  BY <1>3, <1>6, <1>7, <1>9, <1>14, ListIs
<1>16. next \in Token /\ next.kind \in Kinds /\ TokenOK(next)  BY <1>4, <1>10, <1>15, PlainToken
<1>17. World' /\ Kept /\ Held  BY <1>1, <1>13, <1>16, Issues
<1>18. shown \subseteq read /\ shown \in SUBSET Objects
  BY <1>8, <1>15 DEF decodeLineageApply, decodeLineageRollback
<1>19. v \in View /\ v.shown = shown /\ v.complete = ~more /\ v.fresh = w.fresh /\ v.before = w.before
       /\ v.uid = w.uid
  <2>1. (~more) \in BOOLEAN  OBVIOUS
  <2> QED  BY <1>12, <1>18, <2>1 DEF View
<1>20. PICK q : q = Closed(req[r], "OK")  OBVIOUS
<1>21. ASSUME SameClient(q, req[r]), q.pc = "done", q.answer = "OK"
       PROVE  Projected(q, v) /\ Paged(q, v) /\ Lined(q, v)
  <2>1. q.kind = p.kind /\ q.token = p.token /\ q.uid = p.uid /\ q.obs = p.obs /\ q.live = p.live
    BY <1>3, <1>21 DEF SameClient
  <2>2. Projected(q, v)
    <3>1. Projected(p, w)  BY <1>3, <1>11, InvIs
    <3> QED  BY <1>2, <1>4, <1>19, <1>21, <2>1, <3>1 DEF Projected
  <2>3. Paged(q, v)
    <3>1. Paged(p, w)  BY <1>3, <1>11, InvIs
    <3> QED  BY <1>4, <2>1, <3>1 DEF Paged
  <2>4. p.kind = "rollbacks" => \A a \in shown : a.source = p.uid  BY <1>8 DEF decodeLineageRollback
  <2>5. p.kind = "attempts" => \A a \in shown : a.proposal = p.uid  BY <1>8 DEF decodeLineageApply
  <2>6. ASSUME p.kind = "attempts", ~more, p.token = NoToken, NEW a \in w.before, a.source = 0,
               a.proposal = p.uid
        PROVE  a \in shown
    <3>1. a \in attempts /\ a.proposalName = p.obs  BY <1>1, <1>3, <1>11, <2>6, InvIs DEF Lined
    <3>2. a \in read  BY <1>5, <1>15, <2>6, <3>1 DEF ApplyAttempts
    <3> QED  BY <1>8, <2>6, <3>1, <3>2 DEF decodeLineageApply
  <2>7. Lined(q, v)  BY <1>4, <1>19, <1>21, <2>1, <2>4, <2>5, <2>6 DEF Lined
  <2> QED  BY <2>2, <2>3, <2>7
<1>22. req[r].pc \in ReadSteps /\ req[r].kind # "generate" /\ v \in View  BY <1>1, <1>2, <1>3, <1>4, <1>19
<1>23. flight' = flight /\ rbac' = rbac  BY <1>1
<1> QED  BY <1>13, <1>17, <1>20, <1>21, <1>22, <1>23, Tells

LEMMA exactObservationIdentitiesKeeps ==
    ASSUME Inv, NEW r \in Requests, exactObservationIdentities(r)
    PROVE  Inv'
<1>1. /\ req[r].pc = "identities" /\ UNCHANGED <<mode, session, flight, slots, stops, changes>>
      /\ UNCHANGED cluster
  BY DEF exactObservationIdentities, At
<1>2. {"identities", "policyPage"} \subseteq ReadSteps /\ {"identities", "policyPage"} \cap Unread = {}
  BY DEF ReadSteps, Unread, Calls, Discovering
<1>3. PICK p \in Request : p = req[r]  BY InvIs
<1>4. PICK w \in View : w = view[r]  BY InvIs
<1>5. p.kind = "policy"  BY <1>1, <1>3, InvIs DEF Place
<1>6. /\ Sound(w.before) /\ Sound(w.known) /\ (w.before # {} => p.ns = Home)
      /\ w.after = 0 => w.known = {}
      /\ w.after # 0 => /\ IsFiniteSet(w.rv) /\ Sound(w.rv) /\ Ids(w.before) \subseteq Ids(w.rv)
                        /\ {x \in w.rv : x.id =< w.after} \subseteq w.known
  <2>1. Lined(p, w) /\ p.pc = "identities"  BY <1>1, <1>3, <1>4, InvIs
  <2> QED  BY <2>1 DEF Lined
<1>7. PICK rv : rv = IF w.after = 0 THEN ObservationObjects(p) ELSE w.rv  OBVIOUS
<1>8. PICK read : read = page(rv, w.after)  OBVIOUS
<1>9. PICK last : last = lastOf(read, w.after)  OBVIOUS
<1>10. PICK v : v = [w EXCEPT !.rv = rv, !.known = w.known \cup read, !.after = last]  OBVIOUS
<1>11. view' = [view EXCEPT ![r] = v]
  <2> DEFINE rv0 == IF view[r].after = 0 THEN ObservationObjects(req[r]) ELSE view[r].rv
  <2>1. view' = [view EXCEPT ![r] = [view[r] EXCEPT !.rv = rv0,
                    !.known = view[r].known \cup page(rv0, view[r].after),
                    !.after = lastOf(page(rv0, view[r].after), view[r].after)]]
    BY DEF exactObservationIdentities, Look
  <2>2. rv0 = rv  BY <1>3, <1>4, <1>7
  <2> HIDE DEF rv0
  <2> QED  BY <1>4, <1>8, <1>9, <1>10, <2>1, <2>2
<1>12. /\ rv \in SUBSET Objects /\ IsFiniteSet(rv) /\ Sound(rv) /\ Ids(w.before) \subseteq Ids(rv)
       /\ w.after \in Nat
  <2>1. CASE w.after = 0
    <3>1. ASSUME NEW y \in w.before  PROVE y.id \in Ids(rv)
      <4>1. y \in ObsObject /\ obs[y.id].state # "none" /\ p.ns = Home  BY <1>6 DEF Sound
      <4>2. y.id \in Obs  BY <4>1 DEF ObsObject
      <4> QED  BY <1>7, <2>1, <4>1, <4>2, ObservationObjectsAre
    <3>2. rv = ObservationObjects(p)  BY <1>7, <2>1
    <3>3. rv \in SUBSET ObsObject /\ IsFiniteSet(rv) /\ Sound(rv)  BY <3>2, ObservationObjectsAre
    <3> QED  BY <2>1, <3>1, <3>3 DEF Objects, Ids
  <2>2. CASE w.after # 0  BY <1>6, <1>7, <2>2 DEF View
  <2> QED  BY <2>1, <2>2
<1>13. /\ last \in Nat /\ last >= w.after /\ read = {x \in rv : w.after < x.id /\ x.id =< last}
       /\ ~GetContinue(rv, w.after) => \A x \in rv : x.id =< last
  BY <1>8, <1>9, <1>12, PageIs
<1>14. read \in SUBSET ObsObject /\ Sound(w.known \cup read)  BY <1>6, <1>12, <1>13 DEF Sound
<1>15. {x \in rv : x.id =< last} \subseteq w.known \cup read
  <2>1. \A x \in rv : x.id \in Nat /\ x.id > 0  BY <1>12, ObjectIds
  <2>2. CASE w.after = 0  BY <1>13, <2>1, <2>2
  <2>3. CASE w.after # 0
    <3>1. \A x \in rv : x.id =< w.after => x \in w.known  BY <1>6, <1>7, <2>3
    <3> QED  BY <1>12, <1>13, <2>1, <3>1
  <2> QED  BY <2>2, <2>3
<1>16. last = 0 => w.known \cup read = {}
  <2>1. \A x \in rv : x.id \in Nat /\ x.id > 0  BY <1>12, ObjectIds
  <2> QED  BY <1>6, <1>12, <1>13, <2>1
<1>17. /\ v \in View /\ v.rv = rv /\ v.known = w.known \cup read /\ v.after = last
       /\ v.before = w.before /\ v.fresh = w.fresh /\ v.uid = w.uid
  <2>1. w.known \cup read \in SUBSET ObsObject  BY <1>14 DEF View
  <2> QED  BY <1>10, <1>12, <1>13, <2>1 DEF View
<1>18. PICK pc \in {"identities", "policyPage"} :
         /\ req' = [req EXCEPT ![r] = [req[r] EXCEPT !.pc = pc]]
         /\ pc = "policyPage" => ~GetContinue(rv, w.after)
  <2>1. \/ req' = req
        \/ Goto(r, "policyPage") /\ ~GetContinue(rv, w.after)
    <3> DEFINE rv0 == IF view[r].after = 0 THEN ObservationObjects(req[r]) ELSE view[r].rv
    <3>1. IF GetContinue(rv0, view[r].after) THEN UNCHANGED req ELSE Goto(r, "policyPage")
      BY DEF exactObservationIdentities
    <3>2. rv0 = rv  BY <1>3, <1>4, <1>7
    <3> HIDE DEF rv0
    <3> QED  BY <1>4, <3>1, <3>2
  <2>2. CASE req' = req
    <3>1. req' = [req EXCEPT ![r] = [req[r] EXCEPT !.pc = "identities"]]  BY <1>1, <2>2, Stays
    <3> QED  BY <3>1
  <2> QED  BY <2>1, <2>2 DEF Goto, Become
<1>19. PICK q : q = [req[r] EXCEPT !.pc = pc]  OBVIOUS
<1>20. ASSUME SameClient(q, req[r]), q.pc = pc, q.answer = "none"
       PROVE  Place(q) /\ Projected(q, v) /\ Lined(q, v)
  <2>1. q.kind = "policy" /\ q.ns = p.ns /\ q.live = p.live  BY <1>3, <1>5, <1>20 DEF SameClient
  <2>2. Place(q)  BY <1>1, <1>20, <2>1, InvIs DEF Place, SameClient, Discovering
  <2>3. Projected(q, v)
    <3>1. Projected(p, w)  BY <1>3, <1>4, InvIs
    <3> QED  BY <1>2, <1>17, <1>20, <2>1, <3>1 DEF Projected
  <2>4. pc = "policyPage" => Ids(w.before) \subseteq Ids(w.known \cup read)
    <3>1. pc = "policyPage" => rv \subseteq w.known \cup read  BY <1>13, <1>15, <1>18
    <3> QED  BY <1>12, <3>1 DEF Ids
  <2>5. Lined(q, v)  BY <1>6, <1>12, <1>14, <1>15, <1>16, <1>17, <1>20, <2>1, <2>4 DEF Lined
  <2> QED  BY <2>2, <2>3, <2>5
<1>21. req[r].pc \in ReadSteps /\ pc \in ReadSteps /\ req' = [req EXCEPT ![r] = q] /\ v \in View
  BY <1>1, <1>2, <1>17, <1>18, <1>19
<1> QED  BY <1>1, <1>11, <1>19, <1>20, <1>21, ReadsOn

\* Exactly associated proposals are those of the workload.
LEMMA ExactIsOurs ==
    ASSUME NEW x, NEW S, NEW wl, Sound(S), classifyProposalLineage(x, S, wl) = "EXACT"
    PROVE  Ours(x, wl)
<1>1. /\ x.from # {} /\ x.from \subseteq Ids(S)
      /\ \A y, z \in S : y.id \in x.from /\ z.id \in x.from => y.wl = z.wl
      /\ \E y \in S : y.id \in x.from /\ y.wl = wl
  BY DEF classifyProposalLineage, sameWorkloadIdentity, Ids
<1>2. ASSUME NEW o \in x.from  PROVE o \in Obs /\ obs[o].state # "none" /\ obs[o].wl = wl
  <2>1. PICK y \in S : y.id = o  BY <1>1 DEF Ids
  <2>2. y.wl = wl  BY <1>1, <2>1
  <2> QED  BY <2>1, <2>2 DEF Sound, ObsObject
<1> QED  BY <1>1, <1>2 DEF Ours

LEMMA OursIsExact ==
    ASSUME NEW x, NEW S, NEW wl, Sound(S), Ours(x, wl), x.from \subseteq Ids(S)
    PROVE  classifyProposalLineage(x, S, wl) = "EXACT"
<1>1. \A y \in S : y.id \in x.from => y.wl = wl  BY DEF Sound, Ours
<1>2. PICK o \in x.from : TRUE  BY DEF Ours
<1>3. PICK z \in S : z.id = o  BY <1>2 DEF Ids
<1>4. {y.wl : y \in {u \in S : u.id \in x.from}} = {wl}  BY <1>1, <1>2, <1>3
<1>5. x.from \ Ids(S) = {} /\ x.from # {}  BY <1>2
<1> QED  BY <1>4, <1>5 DEF classifyProposalLineage, sameWorkloadIdentity, Ids

LEMMA ListPolicyPageKeeps ==
    ASSUME Inv, NEW r \in Requests, ListPolicyPage(r)
    PROVE  Inv'
<1>1. /\ req[r].pc = "policyPage"
      /\ UNCHANGED <<mode, session, flight, stops, rbac, pods, workload, obs, proposals, attempts,
                     offered, turmoil, changes>>
  BY DEF ListPolicyPage, At
<1>2. "policyPage" \in ReadSteps /\ "done" \notin Unread  BY DEF ReadSteps, Unread, Calls, Discovering
<1>3. PICK p \in Request : p = req[r]  BY InvIs
<1>4. PICK w \in View : w = view[r]  BY InvIs
<1>5. p.kind = "policy" /\ p.kind \in Kinds \ Collections
  BY <1>1, <1>3, InvIs DEF Place, Kinds, Reads, Lineage, Collections
<1>6. Sound(w.before) /\ Sound(w.known) /\ Ids(w.before) \subseteq Ids(w.known)
  <2>1. Lined(p, w) /\ p.pc = "policyPage"  BY <1>1, <1>3, <1>4, InvIs
  <2> QED  BY <2>1 DEF Lined
<1>7. PICK now : now = ProposalObjects(p)  OBVIOUS
<1>8. PICK rv : rv = IF p.token = NoToken THEN now ELSE p.token.rv  OBVIOUS
<1>9. PICK more \in BOOLEAN : more = GetContinue(rv, p.token.after)  BY DEF GetContinue
<1>10. PICK read : read = page(rv, p.token.after)  OBVIOUS
<1>11. PICK shown : shown = handleWorkloadPolicy(read, w.known, p.want.wl)  OBVIOUS
<1>12. PICK next : next = sealCollectionContinuation(p.kind, <<>>, rv, p.token.after, {})  OBVIOUS
<1>13. PICK v : v = [w EXCEPT !.existing = rv, !.complete = ~more, !.rv = {}, !.after = 0, !.shown = shown]
  OBVIOUS
<1>14. /\ Exit(r, "OK") /\ view' = [view EXCEPT ![r] = v]
       /\ issued' = IF more THEN issued \cup {next} ELSE issued
  <2> DEFINE rv0 == IF req[r].token = NoToken THEN ProposalObjects(req[r]) ELSE req[r].token.rv
  <2>1. /\ Exit(r, "OK")
        /\ view' = [view EXCEPT ![r] = [view[r] EXCEPT !.existing = rv0,
                       !.complete = ~GetContinue(rv0, req[r].token.after), !.rv = {}, !.after = 0,
                       !.shown = handleWorkloadPolicy(page(rv0, req[r].token.after), view[r].known, req[r].want.wl)]]
        /\ issued' = IF GetContinue(rv0, req[r].token.after)
                     THEN issued \cup {sealCollectionContinuation(req[r].kind, <<>>, rv0, req[r].token.after, {})}
                     ELSE issued
    BY Zenon DEF ListPolicyPage, Look
  <2>2. rv0 = rv  BY <1>3, <1>7, <1>8
  <2> HIDE DEF rv0
  <2> QED  BY <1>3, <1>4, <1>9, <1>10, <1>11, <1>12, <1>13, <2>1, <2>2
<1>15. now \in SUBSET Objects /\ IsFiniteSet(now)  BY <1>7, ProposalObjectsAre
<1>16. /\ rv \in SUBSET Objects /\ IsFiniteSet(rv) /\ p.token.after \in Nat /\ read \subseteq rv
       /\ p.token = NoToken /\ ~more => rv = now /\ read = now
  BY <1>3, <1>8, <1>9, <1>10, <1>15, ListIs
<1>17. next \in Token /\ next.kind \in Kinds /\ TokenOK(next)  BY <1>5, <1>12, <1>16, PlainToken
<1>18. World' /\ Kept /\ Held  BY <1>1, <1>14, <1>17, Issues
<1>19. /\ shown \subseteq read /\ shown \in SUBSET Objects
       /\ \A x \in shown : Ours(x, p.want.wl)
  <2>1. \A x \in shown : x \in read /\ classifyProposalLineage(x, w.known, p.want.wl) = "EXACT"
    BY <1>11 DEF handleWorkloadPolicy
  <2> QED  BY <1>6, <1>16, <2>1, ExactIsOurs
<1>20. /\ v \in View /\ v.shown = shown /\ v.complete = ~more /\ v.existing = rv /\ v.fresh = w.fresh
       /\ v.before = w.before /\ v.uid = w.uid
  <2>1. (~more) \in BOOLEAN /\ {} \in SUBSET Objects  OBVIOUS
  <2> QED  BY <1>13, <1>16, <1>19, <2>1 DEF View
<1>21. ASSUME ~more, p.token = NoToken, NEW x \in rv, x.readable, Ours(x, p.want.wl),
              x.from \subseteq Ids(w.before)
       PROVE  x \in shown
  <2>1. x \in read  BY <1>16, <1>21
  <2>2. classifyProposalLineage(x, w.known, p.want.wl) = "EXACT"  BY <1>6, <1>21, OursIsExact
  <2> QED  BY <1>11, <1>21, <2>1, <2>2 DEF handleWorkloadPolicy, proposalProjection
<1>22. PICK q : q = Closed(req[r], "OK")  OBVIOUS
<1>23. ASSUME SameClient(q, req[r]), q.pc = "done", q.answer = "OK"
       PROVE  Projected(q, v) /\ Paged(q, v) /\ Lined(q, v)
  <2>1. q.kind = "policy" /\ q.token = p.token /\ q.want = p.want /\ q.live = p.live
    BY <1>3, <1>5, <1>23 DEF SameClient
  <2>2. Projected(q, v)
    <3>1. Projected(p, w)  BY <1>3, <1>4, InvIs
    <3> QED  BY <1>2, <1>20, <1>23, <2>1, <3>1 DEF Projected
  <2>3. Paged(q, v)
    <3>1. Paged(p, w)  BY <1>3, <1>4, InvIs
    <3> QED  BY <1>5, <2>1, <3>1 DEF Paged
  <2>4. Lined(q, v)  BY <1>6, <1>19, <1>20, <1>21, <1>23, <2>1 DEF Lined
  <2> QED  BY <2>2, <2>3, <2>4
<1>24. req[r].pc \in ReadSteps /\ req[r].kind # "generate" /\ v \in View  BY <1>1, <1>2, <1>3, <1>5, <1>20
<1>25. flight' = flight /\ rbac' = rbac  BY <1>1
<1> QED  BY <1>14, <1>18, <1>22, <1>23, <1>24, <1>25, Tells

-----------------------------------------------------------------------------
(* The cluster and the clients meanwhile                                       *)

\* A request goes on as it was, its client connected or not, and further Pods
\* have lived since it arrived.
Wider(q, p) ==
    /\ q \in Request /\ p.live \subseteq q.live
    /\ q.kind = p.kind /\ q.user = p.user /\ q.header = p.header /\ q.obs = p.obs /\ q.uid = p.uid
    /\ q.ns = p.ns /\ q.want = p.want /\ q.token = p.token /\ q.authenticated = p.authenticated
    /\ q.pc = p.pc /\ q.answer = p.answer /\ q.leader = p.leader /\ q.caps = p.caps
    /\ q.passed = p.passed /\ q.held = p.held /\ q.pod = p.pod /\ q.wl = p.wl

LEMMA WiderGood ==
    ASSUME NEW p, NEW q, NEW v, Good(p, v), Wider(q, p),
           q.pc \notin {"idle", "done"} => LivePods' \subseteq q.live,
           UNCHANGED <<workload, obs, attempts>>
    PROVE  Good(q, v)'
<1>1. Place(q)'  BY DEF Good, Place, Wider
<1>2. Authorised(q)'  BY DEF Good, Authorised, Wider
<1>3. OnSelection(q)'
  <2>1. OnSelection(p)  BY DEF Good
  <2>2. /\ q.pc = "replicaSet" => q.pod \in q.live /\ workload.viaReplicaSet
        /\ q.pc = "create" => /\ q.pod \in q.live /\ TargetMatches(q)
                              /\ ~workload.viaReplicaSet => q.pod.owner = q.wl
    BY <2>1 DEF OnSelection, Wider, TargetMatches
  <2>3. (Bound(q) <=> Bound(p)) /\ (Valid(q.want) <=> Valid(p.want)) /\ (Generated(p) => Generated(q))
    BY DEF Bound, Valid, Generated, Wider
  <2>4. q.kind = "generate" /\ Bound(q) =>
          /\ q.pc \in {"observation", "pod", "replicaSet", "load", "save"} =>
                Valid(q.want) /\ q.want.image # 0
          /\ q.pc \in {"pod", "replicaSet", "load", "save"} \/ q.answer = "OK" =>
                obs[q.obs].state = "COMPLETED" /\ obs[q.obs].pod = q.want.pod
          /\ q.pc \in {"load", "save"} \/ q.answer = "OK" => Generated(q)
    BY <2>1, <2>3 DEF OnSelection, Wider
  <2>5. /\ (TargetMatches(q)' <=> TargetMatches(q)) /\ (Bound(q)' <=> Bound(q))
        /\ (Valid(q.want)' <=> Valid(q.want)) /\ (Generated(q)' <=> Generated(q))
    BY DEF TargetMatches, Bound, Valid, Generated, NoTarget
  <2> QED  BY <2>2, <2>4, <2>5 DEF OnSelection
<1>4. Projected(q, v)'
  <2>1. Projected(p, v)  BY DEF Good
  <2>2. \A x \in v.fresh : /\ x.fact.wl = v.uid /\ x.fact.digest = x.digest
                           /\ \E y \in q.live : y.uid = x.fact.pod
    BY <2>1 DEF Projected, Wider
  <2>3. q.pc \in {"owner", "readPods", "policies", "optional", "proposals"} =>
          /\ Live(v.listed) # {} /\ \A x \in Live(v.listed) : v.listed[x] \in q.live
          /\ v.fresh = {}
    BY <2>1 DEF Projected, Wider
  <2> QED  BY ZenonT(60), <2>1, <2>2, <2>3 DEF Projected, Wider, Sections, NoView, Unread
<1>5. Paged(q, v)'  BY DEF Good, Paged, Wider, TokenOK
<1>6. Lined(q, v)'  BY DEF Good, Lined, Wider, Sound, Ours, Ids
<1> QED  BY <1>1, <1>2, <1>3, <1>4, <1>5, <1>6 DEF Good, Wider

LEMMA Widen ==
    ASSUME Inv, req' = [x \in Requests |-> req'[x]],
           \A x \in Requests : /\ Wider(req'[x], req[x])
                               /\ req[x].pc \notin {"idle", "done"} => LivePods' \subseteq req'[x].live,
           UNCHANGED <<flight, view, slots, rbac, workload, obs, attempts>>, World'
    PROVE  Inv'
<1>1. ASSUME NEW x \in Requests  PROVE Good(req[x], view[x])'
  <2>1. PICK p : p = req[x]  OBVIOUS
  <2>2. PICK q : q = req'[x]  OBVIOUS
  <2>3. PICK v : v = view[x]  OBVIOUS
  <2>4. Good(p, v) /\ Wider(q, p)  BY <2>1, <2>2, <2>3, InvIs
  <2>5. q.pc \notin {"idle", "done"} => LivePods' \subseteq q.live  BY <2>1, <2>2, <2>4 DEF Wider
  <2>6. Good(q, v)'  BY <2>4, <2>5, WiderGood
  <2> QED  BY <2>2, <2>3, <2>6
<1>2. Started'
  <2> SUFFICES ASSUME NEW o \in Obs, obs'[o].by \in Requests
               PROVE  StartedBy(obs[o], req[obs[o].by])'
    BY DEF Started
  <2>1. obs'[o] = obs[o] /\ workload' = workload  OBVIOUS
  <2>2. StartedBy(obs[o], req[obs[o].by])  BY <2>1 DEF Inv, Started
  <2>3. Wider(req'[obs[o].by], req[obs[o].by])  BY <2>1
  <2>4. PICK q : q = req'[obs[o].by]  OBVIOUS
  <2>5. /\ q.pc # "idle" /\ q.want = req[obs[o].by].want /\ req[obs[o].by].live \subseteq q.live
    BY <2>2, <2>3, <2>4 DEF Wider, StartedBy
  <2>6. PICK x : x = obs[o]  OBVIOUS
  <2>7. StartedBy(x, q)'  BY <2>1, <2>2, <2>5, <2>6, StartedByKept
  <2> QED  BY <2>1, <2>4, <2>6, <2>7
<1>3. Flights'
  <2> SUFFICES ASSUME NEW x \in Requests
               PROVE  Led(x, req[x], flight[x])' /\ Follows(req[x])'
    BY DEF Flights
  <2>1. Led(x, req[x], flight[x]) /\ Follows(req[x])  BY FlightIs
  <2>2. Wider(req'[x], req[x])  OBVIOUS
  <2> QED  BY <2>1, <2>2 DEF Led, Follows, Wider, authorityProjectionKey
<1>4. Slots'
  <2>1. Readers' = Readers  BY DEF Readers, Wider
  <2> QED  BY <2>1 DEF Inv, Slots
<1>5. Domains'  BY DEF Inv, Domains
<1> QED  BY <1>1, <1>2, <1>3, <1>4, <1>5 DEF Inv

LEMMA ChangePodKeeps ==
    ASSUME Inv, NEW p \in Pods, ChangePod(p)
    PROVE  Inv'
<1>1. /\ changes' = changes + 1
      /\ UNCHANGED <<mode, session, flight, view, slots, stops, rbac, workload, obs, proposals,
                     attempts, offered, issued, turmoil, faults>>
  BY DEF ChangePod, Change
<1>2. changes \in Nat /\ workload.uid \in Nat /\ pods \in [Pods -> Pod]  BY DEF Inv, World
<1>3. PICK new \in Pod : pods' = [pods EXCEPT ![p] = new] /\ Witness({new} \ {Gone})
  <2>1. FreshUID \in Nat  BY <1>2 DEF FreshUID
  <2>2. [uid : {FreshUID}, image : {0, 1}, owner : {workload.uid}] \subseteq Pod  BY <1>2, <2>1 DEF Pod
  <2>3. [pods[p] EXCEPT !.image = 2] \in Pod  BY <1>2 DEF Pod
  <2> QED  BY <2>2, <2>3, GoneIs DEF ChangePod
<1>4. pods' \in [Pods -> Pod] /\ pods'[p] = new /\ \A x \in Pods \ {p} : pods'[x] = pods[x]  BY <1>2, <1>3
<1>5. World'  BY <1>1, <1>4 DEF Inv, World, UIDsName, TokenOK
<1>6. PICK N \in SUBSET Pod : N = {new} \ {Gone}  OBVIOUS
<1>7. LivePods' \subseteq LivePods \cup N
  <2>1. Live(pods') = {x \in Pods : pods'[x] # Gone} /\ Live(pods) = {x \in Pods : pods[x] # Gone}
    BY <1>2, <1>4 DEF Live
  <2> QED  BY <1>4, <1>6, <2>1 DEF LivePods
<1>8. req' = [x \in Requests |-> IF Active(x) THEN [req[x] EXCEPT !.live = @ \cup N] ELSE req[x]]
  BY <1>3, <1>6 DEF Witness
<1>9. ASSUME NEW x \in Requests
      PROVE  /\ Wider(req'[x], req[x])
             /\ req[x].pc \notin {"idle", "done"} => LivePods' \subseteq req'[x].live
  <2>1. PICK q \in Request : q = req[x]  BY InvIs
  <2>2. CASE Active(x)
    <3>1. req'[x] = [q EXCEPT !.live = q.live \cup N]  BY <1>8, <2>1, <2>2
    <3>2. q.live \cup N \in SUBSET Pod  BY DEF Request
    <3>3. Wider(req'[x], q) /\ req'[x].live = q.live \cup N  BY <3>1, <3>2 DEF Wider, Request
    <3>4. LivePods \subseteq q.live  BY <2>1, <2>2, InvIs DEF Active, OnSelection
    <3> QED  BY <1>7, <2>1, <3>3, <3>4
  <2>3. CASE ~Active(x)
    <3>1. req'[x] = q  BY <1>8, <2>1, <2>3
    <3> QED  BY <2>1, <2>3, <3>1 DEF Wider, Active
  <2> QED  BY <2>2, <2>3
<1>10. req' = [x \in Requests |-> req'[x]]  BY <1>8
<1> QED  BY <1>1, <1>5, <1>9, <1>10, Widen

LEMMA DisconnectKeeps ==
    ASSUME Inv, NEW r \in Requests, Disconnect(r)
    PROVE  Inv'
<1>1. UNCHANGED <<mode, session, flight, view, slots, stops, changes>> /\ UNCHANGED cluster
  BY DEF Disconnect
<1>2. World' /\ Kept  BY <1>1, Quiet
<1>3. UNCHANGED <<pods, workload, obs, attempts, rbac>>  BY <1>1 DEF cluster
<1>4. LivePods' = LivePods  BY <1>3 DEF LivePods
<1>5. PICK q \in Request : q = req[r]  BY InvIs
<1>6. PICK c : c = [q EXCEPT !.connected = FALSE]  OBVIOUS
<1>7. Wider(c, q)  BY <1>6 DEF Wider, Request
<1>8. req' = [req EXCEPT ![r] = c]  BY <1>5, <1>6 DEF Disconnect, Become
<1>9. ASSUME NEW x \in Requests
      PROVE  /\ Wider(req'[x], req[x])
             /\ req[x].pc \notin {"idle", "done"} => LivePods' \subseteq req'[x].live
  <2>1. Wider(req'[x], req[x])
    <3>1. CASE x = r  BY <1>5, <1>7, <1>8, <3>1, AtRequest
    <3>2. CASE x # r
      <4>1. req'[x] = req[x]  BY <1>8, <3>2, AtRequest
      <4> QED  BY <4>1, InvIs DEF Wider
    <3> QED  BY <3>1, <3>2
  <2>2. req[x].pc \notin {"idle", "done"} => LivePods \subseteq req[x].live  BY InvIs DEF OnSelection
  <2> QED  BY <1>4, <2>1, <2>2 DEF Wider
<1>10. req' = [x \in Requests |-> req'[x]]  BY <1>8, AtRequest
<1> QED  BY <1>1, <1>2, <1>3, <1>9, <1>10, Widen

LEMMA RecreateWorkloadKeeps ==
    ASSUME Inv, RecreateWorkload
    PROVE  Inv'
<1>1. /\ changes' = changes + 1 /\ workload' = [workload EXCEPT !.uid = @ + 1]
      /\ UNCHANGED <<mode, session, req, flight, view, slots, stops, rbac, pods, obs, proposals,
                     attempts, offered, issued, turmoil, faults>>
  BY DEF RecreateWorkload, Change
<1>2. changes \in Nat /\ workload \in [uid : Nat, viaReplicaSet : BOOLEAN]  BY DEF Inv, World
<1>3. /\ workload' \in [uid : Nat, viaReplicaSet : BOOLEAN]
      /\ workload'.viaReplicaSet = workload.viaReplicaSet /\ changes' \in Nat
  BY <1>1, <1>2
<1>4. World'  BY <1>1, <1>3 DEF Inv, World, UIDsName, TokenOK
<1>5. Kept /\ Held  BY <1>1, <1>3 DEF Kept, Held
<1>6. Flights'  BY <1>1 DEF Inv, Flights, Led, Follows, authorityProjectionKey
<1>7. flight' = [x \in Requests |-> flight'[x]]  BY <1>1 DEF Inv, Domains
<1> QED  BY <1>1, <1>4, <1>5, <1>6, <1>7, Unmoved

LEMMA ChangeRoleKeeps ==
    ASSUME Inv, NEW c \in turmoil.grants, ChangeRole(c[1], c[2])
    PROVE  Inv'
<1>1. c \in Subjects \X Rules  BY DEF Inv, World, Turmoil
<1>2. PICK s \in Subjects : s = c[1]  BY <1>1
<1>3. PICK rule \in Rules : rule = c[2]  BY <1>1
<1>4. /\ changes' = changes + 1
      /\ rbac' = [rbac EXCEPT ![s] = IF rule \in @ THEN @ \ {rule} ELSE @ \cup {rule}]
      /\ flight' = [r \in Requests |->
                       IF flight[r].shared THEN [flight[r] EXCEPT !.held[s] = @ \cup rbac'[s]]
                       ELSE flight[r]]
      /\ UNCHANGED <<mode, session, req, view, slots, stops, pods, workload, obs, proposals, attempts,
                     offered, issued, turmoil, faults>>
  BY <1>2, <1>3 DEF ChangeRole, Change
<1>5. changes \in Nat /\ rbac \in [Subjects -> SUBSET Rules]  BY DEF Inv, World
<1>6. rbac' \in [Subjects -> SUBSET Rules] /\ \A x \in Subjects \ {s} : rbac'[x] = rbac[x]  BY <1>4, <1>5
<1>7. World'
  <2>1. changes' \in Nat  BY <1>4, <1>5
  <2>2. UNCHANGED <<mode, session, stops, pods, workload, obs, proposals, attempts, offered, issued, turmoil>>
    BY <1>4
  <2> QED  BY <1>6, <2>1, <2>2 DEF Inv, World, UIDsName, TokenOK
<1>8. Kept /\ Held  BY <1>4 DEF Kept, Held
<1>9. ASSUME NEW x \in Requests
      PROVE  /\ Led(x, req[x], flight[x])'
             /\ flight'[x].shared = flight[x].shared /\ flight'[x].key = flight[x].key
  <2>1. PICK f \in Flight : f = flight[x]  BY FlightIs
  <2>2. Led(x, req[x], f)  BY <2>1, FlightIs
  <2>3. CASE ~f.shared
    <3>1. flight'[x] = f  BY <1>4, <2>1, <2>3
    <3> QED  BY <1>4, <2>1, <2>2, <2>3, <3>1 DEF Led, authorityProjectionKey
  <2>4. CASE f.shared
    <3>1. flight'[x] = [f EXCEPT !.held[s] = @ \cup rbac'[s]]  BY <1>4, <2>1, <2>4
    <3>2. PICK h : h = [f.held EXCEPT ![s] = @ \cup rbac'[s]]  OBVIOUS
    <3>3. f.held \in [Subjects -> SUBSET Rules]  BY DEF Flight
    <3>4. /\ h \in [Subjects -> SUBSET Rules] /\ h[s] = f.held[s] \cup rbac'[s]
          /\ \A y \in Subjects \ {s} : h[y] = f.held[y]
      BY <1>6, <3>2, <3>3
    <3>5. flight'[x] = [f EXCEPT !.held = h]  BY <3>1, <3>2
    <3>6. /\ flight'[x] \in Flight /\ flight'[x].held = h /\ flight'[x].shared = f.shared
          /\ flight'[x].key = f.key /\ flight'[x].open = f.open /\ flight'[x].granted = f.granted
      BY <3>4, <3>5 DEF Flight
    <3>7. \A y \in Subjects : rbac'[y] \subseteq h[y] /\ f.held[y] \subseteq h[y]
      BY <1>6, <2>2, <2>4, <3>4 DEF Led
    <3>8. <<req[x].user, req[x].ns>> \in Subjects  BY InvIs DEF Request, Subjects
    <3>9. f.granted \subseteq h[<<req[x].user, req[x].ns>>]  BY <2>2, <2>4, <3>7, <3>8 DEF Led
    <3> QED  BY <1>4, <2>1, <2>2, <2>4, <3>6, <3>7, <3>9 DEF Led, authorityProjectionKey
  <2> QED  BY <2>3, <2>4
<1>10. Flights'
  <2> SUFFICES ASSUME NEW x \in Requests
               PROVE  Led(x, req[x], flight[x])' /\ Follows(req[x])'
    BY DEF Flights
  <2>1. Follows(req[x])  BY FlightIs
  <2> QED  BY <1>4, <1>9, <2>1 DEF Follows, authorityProjectionKey
<1>11. flight' = [x \in Requests |-> flight'[x]]  BY <1>4
<1> QED  BY <1>4, <1>7, <1>8, <1>10, <1>11, Unmoved

LEMMA ExecuteObservationKeeps ==
    ASSUME Inv, NEW o \in Obs, ExecuteObservation(o)
    PROVE  Inv'
<1> DEFINE at == {p \in Pods : pods[p].uid = obs[o].pod}
<1>1. UNCHANGED <<mode, session, req, flight, view, slots, rbac, pods, workload, proposals,
                  attempts, offered, issued, turmoil, changes, faults>>
  BY DEF ExecuteObservation
<1>2. PICK old \in Observed : old = obs[o]  BY ObservedIs
<1>3. old.state \in {"REQUESTED", "RUNNING"}  BY <1>2 DEF ExecuteObservation
<1>4. PICK x : x = CASE old.state = "REQUESTED" /\ at # {} ->
                           [old EXCEPT !.state = "RUNNING", !.image = pods[Min(at)].image]
                     [] old.state = "RUNNING"              -> [old EXCEPT !.state = "COMPLETED"]
                     [] OTHER                              -> [old EXCEPT !.state = "FAILED"]
  OBVIOUS
<1>5. obs' = [obs EXCEPT ![o] = x]  BY <1>2, <1>4 DEF ExecuteObservation
<1>6. x \in Observed /\ x.by = old.by /\ x.wl = old.wl /\ x.pod = old.pod /\ x.state # "none"
  <2>1. CASE old.state = "REQUESTED" /\ at # {}
    <3>1. at \in SUBSET Nat /\ at \subseteq Pods  BY WorkbenchAssumption
    <3>2. Min(at) \in Pods
      <4> HIDE DEF at
      <4> QED  BY <2>1, <3>1, MinOf
    <3>3. PICK i \in Nat : i = pods[Min(at)].image  BY <3>2 DEF Inv, World, Pod
    <3>4. x = [old EXCEPT !.state = "RUNNING", !.image = i]  BY <1>4, <2>1, <3>3
    <3> QED  BY <3>4 DEF Observed
  <2>2. CASE ~(old.state = "REQUESTED" /\ at # {})
    <3>1. \E s \in {"COMPLETED", "FAILED"} : x = [old EXCEPT !.state = s]
      <4> HIDE DEF at
      <4> QED  BY <1>3, <1>4, <2>2
    <3> QED  BY <3>1 DEF Observed
  <2> QED  BY <2>1, <2>2
<1>7. stops' = stops \/ stops' \in [Obs -> {"none", "registered", "cancelled"}]
  BY DEF ExecuteObservation, Inv, World
<1>8. World' /\ Kept /\ Held
  <2>1. x.by = obs[o].by /\ x.wl = obs[o].wl /\ x.pod = obs[o].pod /\ obs[o].state # "COMPLETED"
    BY <1>2, <1>3, <1>6
  <2> QED  BY <1>1, <1>5, <1>6, <1>7, <2>1, ObservationStep
<1>9. Flights'  BY <1>1 DEF Inv, Flights, Led, Follows, authorityProjectionKey
<1>10. flight' = [y \in Requests |-> flight'[y]]  BY <1>1 DEF Inv, Domains
<1> QED  BY <1>1, <1>8, <1>9, <1>10, Unmoved

LEMMA GovernKeeps ==
    ASSUME Inv, NEW q \in proposals, Govern(q)
    PROVE  Inv'
<1>1. /\ changes' = changes + 1
      /\ UNCHANGED <<mode, session, req, flight, view, slots, stops, rbac, pods, workload, obs,
                     attempts, offered, issued, turmoil, faults>>
  BY DEF Govern, Change
<1>2. /\ changes \in Nat /\ proposals \in SUBSET Proposal /\ IsFiniteSet(proposals)
      /\ attempts \in SUBSET Attempt /\ UIDsName(proposals, attempts)
  BY DEF Inv, World
<1>3. q \in Proposal  BY <1>2
<1>4. PICK new \in Proposal :
        /\ proposals' = (proposals \ {q}) \cup {new}
        /\ new.id = q.id /\ new.uid \in {q.uid, FreshProposalUID}
  <2>1. PICK new \in {[q EXCEPT !.approved = IF @ = q.digest THEN 0 ELSE q.digest],
                      [q EXCEPT !.digest = @ + 1],
                      [q EXCEPT !.uid = FreshProposalUID, !.approved = 0,
                                !.fact = [pod |-> 0, wl |-> 0, digest |-> 0]]} :
          proposals' = (proposals \ {q}) \cup {new}
    BY DEF Govern
  <2>2. new \in Proposal /\ new.id = q.id /\ new.uid \in {q.uid, FreshProposalUID}
    <3>1. CASE new = [q EXCEPT !.approved = IF @ = q.digest THEN 0 ELSE q.digest]
      <4>1. PICK d \in Nat : d = IF q.approved = q.digest THEN 0 ELSE q.digest  BY <1>3 DEF Proposal
      <4>2. new = [q EXCEPT !.approved = d]  BY <3>1, <4>1
      <4> QED  BY <1>3, <4>2 DEF Proposal
    <3>2. CASE new = [q EXCEPT !.digest = @ + 1]
      <4>1. PICK d \in Nat : d = q.digest + 1  BY <1>3 DEF Proposal
      <4>2. new = [q EXCEPT !.digest = d]  BY <3>2, <4>1
      <4> QED  BY <1>3, <4>2 DEF Proposal
    <3>3. CASE new = [q EXCEPT !.uid = FreshProposalUID, !.approved = 0,
                               !.fact = [pod |-> 0, wl |-> 0, digest |-> 0]]
      <4>1. PICK u \in Nat : u = FreshProposalUID  BY FreshUIDIs
      <4>2. new = [q EXCEPT !.uid = u, !.approved = 0, !.fact = [pod |-> 0, wl |-> 0, digest |-> 0]]
        BY <3>3, <4>1
      <4> QED  BY <1>3, <4>1, <4>2 DEF Proposal
    <3> QED  BY <2>1, <3>1, <3>2, <3>3
  <2> QED  BY <2>1, <2>2
<1>5. proposals' \in SUBSET Proposal /\ IsFiniteSet(proposals')
  <2>1. IsFiniteSet(proposals \ {q})  BY <1>2, FS_Subset
  <2>2. IsFiniteSet((proposals \ {q}) \cup {new})  BY <2>1, FS_AddElement
  <2> QED  BY <1>2, <1>4, <2>2
<1>6. UIDsName(proposals, attempts)'
  <2>1. ASSUME NEW x \in proposals', NEW y \in proposals', x.uid = y.uid  PROVE x.id = y.id
    BY <1>2, <1>4, <2>1, FreshUIDIs DEF UIDsName
  <2>2. ASSUME NEW a \in attempts, NEW x \in proposals', a.proposal = x.uid  PROVE a.proposalName = x.id
    BY <1>2, <1>4, <2>2, FreshUIDIs DEF UIDsName
  <2> QED  BY <1>1, <2>1, <2>2 DEF UIDsName
<1>7. World'
  <2>1. changes' \in Nat  BY <1>1, <1>2
  <2>2. UNCHANGED <<mode, session, stops, rbac, pods, workload, obs, attempts, offered, issued, turmoil>>
    BY <1>1
  <2> QED  BY <1>5, <1>6, <2>1, <2>2 DEF Inv, World, TokenOK
<1>8. Kept /\ Held  BY <1>1 DEF Kept, Held
<1>9. Flights'  BY <1>1 DEF Inv, Flights, Led, Follows, authorityProjectionKey
<1>10. flight' = [x \in Requests |-> flight'[x]]  BY <1>1 DEF Inv, Domains
<1> QED  BY <1>1, <1>7, <1>8, <1>9, <1>10, Unmoved

-----------------------------------------------------------------------------
(* The invariant holds                                                         *)

LEMMA IdleGood ==
    ASSUME NEW input \in Inputs, NEW q, q = IdleRequest(input),
           input.kind \in {"stop", "status", "generate"} => input.obs \in Obs
    PROVE  Good(q, NoView) /\ q.pc = "idle"
<1>1. /\ q.pc = "idle" /\ q.answer = "none" /\ q.kind = input.kind /\ q.obs = input.obs
      /\ q.caps = {} /\ q.passed = {} /\ q.token = NoToken
  BY DEF IdleRequest
<1>2. q \in Request
  <2>1. /\ input.kind \in Kinds /\ input.user \in Users /\ input.header \in Headers
        /\ input.body \in Namespaces /\ input.pick \in {"none", "target", "image"}
        /\ input.obs \in Nat /\ input.uid \in Nat /\ input.versioned \in BOOLEAN
        /\ input.follow \in BOOLEAN
    BY DEF Inputs
  <2>2. "idle" \in Pcs /\ Home \in Namespaces /\ "none" \in Answers  BY DEF Pcs, Namespaces, Answers
  <2>3. NoTarget \in Target /\ NoToken \in Token /\ Gone \in Pod  BY NoTargetIs, NoTokenIs, GoneIs
  <2> QED  BY <2>1, <2>2, <2>3 DEF IdleRequest, Request
<1>3. Place(q)  BY <1>1 DEF Place, Discovering
<1>4. Authorised(q)  BY <1>1 DEF Authorised
<1>5. OnSelection(q)  BY <1>1 DEF OnSelection
<1>6. Projected(q, NoView)  BY <1>1, NoViewIs DEF Projected
<1>7. Paged(q, NoView) /\ Lined(q, NoView)  BY <1>1 DEF Paged, Lined
<1> QED  BY <1>1, <1>2, <1>3, <1>4, <1>5, <1>6, <1>7, NoViewIs DEF Good

LEMMA InitHolds == Init => Inv
<1> SUFFICES ASSUME Init  PROVE Inv  OBVIOUS
<1>1. PICK s \in Scenarios :
        /\ mode = s.mode
        /\ req = [r \in Requests |-> IdleRequest(s.inputs[r])]
        /\ workload = [uid |-> 1, viaReplicaSet |-> s.viaReplicaSet]
        /\ obs = [o \in Obs |->
                     IF o = Min(Obs)
                     THEN [NoObservation EXCEPT !.wl = 1, !.pod = Min(Pods),
                               !.image = IF s.earlier THEN 2 ELSE 1,
                               !.state = IF s.completed THEN "COMPLETED" ELSE "RUNNING"]
                     ELSE IF s.earlier
                     THEN [NoObservation EXCEPT !.wl = IF o = Max(Obs) THEN 1 ELSE 7,
                               !.pod = o, !.image = 1, !.state = "COMPLETED"]
                     ELSE NoObservation]
        /\ proposals = s.proposals /\ attempts = s.attempts /\ turmoil = s.turmoil
  BY DEF Init
<1>2. /\ s \in Scenario /\ IsFiniteSet(s.proposals) /\ IsFiniteSet(s.attempts)
      /\ UIDsName(s.proposals, s.attempts)
      /\ \A r \in Requests : s.inputs[r].kind \in {"stop", "status", "generate"} => s.inputs[r].obs \in Obs
  BY ScenarioAssumption
<1>3. /\ session = "none" /\ flight = [r \in Requests |-> NoFlight] /\ view = [r \in Requests |-> NoView]
      /\ slots = 0 /\ stops = [o \in Obs |-> "none"] /\ rbac = InitialGrants
      /\ pods = [p \in Pods |-> [uid |-> p, image |-> 1, owner |-> 1]]
      /\ offered = {[name |-> p, wl |-> 1, pod |-> p, image |-> 1] : p \in Pods}
      /\ issued = {} /\ changes = 0
  BY DEF Init
<1>4. ASSUME NEW r \in Requests  PROVE Good(req[r], view[r]) /\ req[r].pc = "idle"
  <2>1. s.inputs[r] \in Inputs  BY <1>2 DEF Scenario
  <2> QED  BY <1>1, <1>2, <1>3, <2>1, IdleGood
<1>5. ASSUME NEW o \in Obs  PROVE obs[o] \in Observed /\ obs[o].by = Nobody
  <2>1. o \in Nat /\ Min(Pods) \in Nat  BY WorkbenchAssumption, MinOf
  <2>2. NoObservation \in Observed /\ NoObservation.by = Nobody  BY DEF NoObservation, Observed
  <2>3. CASE o = Min(Obs)
    <3>1. PICK i \in Nat : i = IF s.earlier THEN 2 ELSE 1  OBVIOUS
    <3>2. PICK st \in {"RUNNING", "COMPLETED"} : st = IF s.completed THEN "COMPLETED" ELSE "RUNNING"
      OBVIOUS
    <3>3. obs[o] = [NoObservation EXCEPT !.wl = 1, !.pod = Min(Pods), !.image = i, !.state = st]
      BY <1>1, <2>3, <3>1, <3>2
    <3>4. PICK n \in Observed : n = NoObservation  BY <2>2
    <3>5. PICK wl \in Nat : wl = 1  OBVIOUS
    <3>6. PICK pod \in Nat : pod = Min(Pods)  BY <2>1
    <3>7. PICK y : y = [n EXCEPT !.wl = wl, !.pod = pod, !.image = i, !.state = st]  OBVIOUS
    <3>8. y \in Observed /\ y.by = n.by  BY <3>7 DEF Observed
    <3>9. y = obs[o]  BY <3>3, <3>4, <3>5, <3>6, <3>7
    <3> QED  BY <2>2, <3>4, <3>8, <3>9
  <2>4. CASE o # Min(Obs) /\ s.earlier
    <3>1. PICK wl \in Nat : wl = IF o = Max(Obs) THEN 1 ELSE 7  OBVIOUS
    <3>2. obs[o] = [NoObservation EXCEPT !.wl = wl, !.pod = o, !.image = 1, !.state = "COMPLETED"]
      BY <1>1, <2>4, <3>1
    <3>3. PICK n \in Observed : n = NoObservation  BY <2>2
    <3>4. PICK i \in Nat : i = 1  OBVIOUS
    <3>5. PICK st \in {"RUNNING", "COMPLETED"} : st = "COMPLETED"  OBVIOUS
    <3>6. PICK y : y = [n EXCEPT !.wl = wl, !.pod = o, !.image = i, !.state = st]  OBVIOUS
    <3>7. y \in Observed /\ y.by = n.by  BY <2>1, <3>6 DEF Observed
    <3>8. y = obs[o]  BY <3>2, <3>3, <3>4, <3>5, <3>6
    <3> QED  BY <2>2, <3>3, <3>7, <3>8
  <2>5. CASE o # Min(Obs) /\ ~s.earlier  BY <1>1, <2>2, <2>5
  <2> QED  BY <2>3, <2>4, <2>5
<1>6. World
  <2>1. mode \in {"proxy", "local"} /\ workload \in [uid : Nat, viaReplicaSet : BOOLEAN]
    BY <1>1, <1>2 DEF Scenario
  <2>2. pods \in [Pods -> Pod] /\ offered \in SUBSET Target
    BY <1>3, WorkbenchAssumption DEF Pod, Target
  <2>3. obs \in [Obs -> Observed]
    <3>1. obs = [o \in Obs |-> obs[o]]  BY <1>1
    <3> QED  BY <1>5, <3>1
  <2>4. proposals \in SUBSET Proposal /\ attempts \in SUBSET Attempt /\ turmoil \in Turmoil
    BY <1>1, <1>2 DEF Scenario
  <2>5. IsFiniteSet(proposals) /\ IsFiniteSet(attempts) /\ UIDsName(proposals, attempts)  BY <1>1, <1>2
  <2>6. rbac \in [Subjects -> SUBSET Rules]  BY <1>3, ScenarioAssumption
  <2>7. stops \in [Obs -> {"none", "registered", "cancelled"}]  BY <1>3
  <2>8. session \in {"none", "here", "elsewhere"} /\ issued = {} /\ changes \in Nat  BY <1>3
  <2> QED  BY <2>1, <2>2, <2>3, <2>4, <2>5, <2>6, <2>7, <2>8 DEF World
<1>7. Slots
  <2>1. Readers = {}  BY <1>4 DEF Readers, ReadSteps
  <2> QED  BY <1>3, <2>1, FS_EmptySet, WorkbenchAssumption DEF Slots
<1>8. Started  BY <1>5, WorkbenchAssumption DEF Started
<1>9. Flights
  <2>1. \A r \in Requests : flight[r] = NoFlight  BY <1>3
  <2> QED  BY <1>4, <2>1, NoFlightIs DEF Flights, Led, Follows
<1>10. Domains  BY <1>1, <1>3 DEF Domains
<1> QED  BY <1>4, <1>6, <1>7, <1>8, <1>9, <1>10 DEF Inv

LEMMA HandleKeeps ==
    ASSUME Inv, NEW r \in Requests, Handle(r)
    PROVE  Inv'
<1>1. CASE DiscoverCapabilities(r)  BY <1>1, DiscoverCapabilitiesKeeps
<1>2. CASE SelectNamespace(r)  BY <1>2, SelectNamespaceKeeps
<1>3. CASE Enter(r)  BY <1>3, EnterKeeps
<1>4. CASE Do(r)  BY <1>4, DoKeeps
<1>5. CASE Deliver(r)  BY <1>5, DeliverKeeps
<1>6. CASE Abandon(r)  BY <1>6, AbandonKeeps
<1>7. CASE Authorize(r)  BY <1>7, AuthorizeKeeps
<1>8. CASE \E pc \in Calls : Fails(r, pc)  BY <1>8, FailsKeeps
<1>9. CASE GetObservation(r)  BY <1>9, GetObservationKeeps
<1>10. CASE requestDurableStop(r)  BY <1>10, requestDurableStopKeeps
<1>11. CASE GetPod(r)  BY <1>11, GetPodKeeps
<1>12. CASE GetReplicaSet(r)  BY <1>12, GetReplicaSetKeeps
<1>13. CASE CreateObservation(r)  BY <1>13, CreateObservationKeeps
<1>14. CASE Register(r)  BY <1>14, RegisterKeeps
<1>15. CASE LoadObservation(r)  BY <1>15, LoadObservationKeeps
<1>16. CASE SaveProposal(r)  BY <1>16, SaveProposalKeeps
<1>17. CASE Run(r)  BY <1>17, RunKeeps
<1>18. CASE ReadFails(r)  BY <1>18, ReadFailsKeeps
<1>19. CASE ListPods(r)  BY <1>19, ListPodsKeeps
<1>20. CASE Discover(r)  BY <1>20, DiscoverKeeps
<1>21. CASE handleWorkloadDetail(r)  BY <1>21, handleWorkloadDetailKeeps
<1>22. CASE ReadPod(r)  BY <1>22, ReadPodKeeps
<1>23. CASE ListNetworkPolicies(r)  BY <1>23, ListNetworkPoliciesKeeps
<1>24. CASE ReadOptional(r)  BY <1>24, ReadOptionalKeeps
<1>25. CASE loadProposals(r)  BY <1>25, loadProposalsKeeps
<1>26. CASE Admit(r)  BY <1>26, AdmitKeeps
<1>27. CASE ListPage(r)  BY <1>27, ListPageKeeps
<1>28. CASE GetNamed(r)  BY <1>28, GetNamedKeeps
<1>29. CASE ListAttempts(r)  BY <1>29, ListAttemptsKeeps
<1>30. CASE exactObservationIdentities(r)  BY <1>30, exactObservationIdentitiesKeeps
<1>31. CASE ListPolicyPage(r)  BY <1>31, ListPolicyPageKeeps
<1> QED
  BY <1>1, <1>2, <1>3, <1>4, <1>5, <1>6, <1>7, <1>8, <1>9, <1>10, <1>11, <1>12, <1>13, <1>14, <1>15,
     <1>16, <1>17, <1>18, <1>19, <1>20, <1>21, <1>22, <1>23, <1>24, <1>25, <1>26, <1>27, <1>28, <1>29,
     <1>30, <1>31 DEF Handle

LEMMA Stutter ==
    ASSUME Inv, UNCHANGED vars
    PROVE  Inv'
<1>1. /\ UNCHANGED <<mode, session, req, flight, view, slots, stops, changes>>
      /\ UNCHANGED cluster
  BY DEF vars, cluster
<1>2. World' /\ Kept /\ Held /\ rbac' = rbac  BY <1>1, Quiet
<1>3. Flights'  BY <1>1, <1>2 DEF Inv, Flights, Led, Follows, authorityProjectionKey
<1>4. flight' = [x \in Requests |-> flight'[x]]  BY <1>1 DEF Inv, Domains
<1> QED  BY <1>1, <1>2, <1>3, <1>4, Unmoved

LEMMA NextKeeps ==
    ASSUME Inv, [Next]_vars
    PROVE  Inv'
<1>1. CASE Open  BY <1>1, OpenKeeps
<1>2. ASSUME NEW r \in Requests, ServeHTTP(r)  PROVE Inv'  BY <1>2, ServeHTTPKeeps
<1>3. ASSUME NEW r \in Requests, Handle(r)  PROVE Inv'  BY <1>3, HandleKeeps
<1>4. ASSUME NEW r \in Requests, Disconnect(r)  PROVE Inv'  BY <1>4, DisconnectKeeps
<1>5. ASSUME NEW p \in Pods, ChangePod(p)  PROVE Inv'  BY <1>5, ChangePodKeeps
<1>6. CASE RecreateWorkload  BY <1>6, RecreateWorkloadKeeps
<1>7. ASSUME NEW c \in turmoil.grants, ChangeRole(c[1], c[2])  PROVE Inv'  BY <1>7, ChangeRoleKeeps
<1>8. ASSUME NEW o \in Obs, ExecuteObservation(o)  PROVE Inv'  BY <1>8, ExecuteObservationKeeps
<1>9. ASSUME NEW q \in proposals, Govern(q)  PROVE Inv'  BY <1>9, GovernKeeps
<1>10. CASE UNCHANGED vars  BY <1>10, Stutter
<1> QED
  BY <1>1, <1>2, <1>3, <1>4, <1>5, <1>6, <1>7, <1>8, <1>9, <1>10 DEF Next

-----------------------------------------------------------------------------
(* What the server guarantees                                                  *)

(* Every reachable state of the server satisfies the invariant: what each      *)
(* request holds at its step of its handler, whose each shared discovery is,   *)
(* who started each observation, and that slots are those of the reads.        *)
THEOREM Invariance == Spec => []Inv
<1>1. Init => Inv  BY InitHolds
<1>2. Inv /\ [Next]_vars => Inv'  BY NextKeeps
<1> QED  BY <1>1, <1>2, PTL DEF Spec

(* GrantsWereHeld: every capability a request's handler was let through with   *)
(* was answered for the request's own user and namespace, although the         *)
(* reviews are shared between concurrent requests (coalescer.go) and roles     *)
(* change meanwhile.                                                           *)
THEOREM GrantsWereHeldAlways == Spec => []GrantsWereHeld
<1>1. Inv => GrantsWereHeld
  <2> SUFFICES ASSUME Inv, NEW r \in Requests, NEW c \in DOMAIN capabilityRules, c \in req[r].passed
               PROVE  capabilityRules[c] \subseteq req[r].held
    BY DEF GrantsWereHeld
  <2> QED  BY InvIs DEF Authorised
<1> QED  BY <1>1, Invariance, PTL

(* ActsOnSelection: an observation that a caller started with a selected       *)
(* target is of that Pod and workload, and a proposal generated for one comes  *)
(* from a completed observation of exactly that target, although Pods are      *)
(* replaced between the reads of the handler (observation_api.go).             *)
THEOREM ActsOnSelectionAlways == Spec => []ActsOnSelection
<1>1. Inv => StartedOnSelection
  <2> SUFFICES ASSUME Inv, NEW o \in Obs, obs[o].by \in Requests, Valid(req[obs[o].by].want)
               PROVE  LET q == req[obs[o].by] IN
                      \E p \in q.live :
                          /\ p.uid = q.want.pod /\ p.uid = obs[o].pod /\ obs[o].wl = q.want.wl
                          /\ q.want.image \in {0, p.image}
                          /\ ~workload.viaReplicaSet => p.owner = obs[o].wl
    BY DEF StartedOnSelection
  <2>1. StartedBy(obs[o], req[obs[o].by])  BY DEF Inv, Started
  <2> QED  BY <2>1 DEF StartedBy
<1>2. Inv => ProposalFromSelection
  <2> SUFFICES ASSUME Inv, NEW r \in Requests, req[r].kind = "generate", req[r].answer = "OK", Bound(req[r])
               PROVE  LET q == req[r] IN
                      /\ obs[q.obs].state = "COMPLETED" /\ obs[q.obs].pod = q.want.pod
                      /\ obs[q.obs].wl = q.want.wl /\ obs[q.obs].image = q.want.image
                      /\ \E p \in q.live : p.uid = q.want.pod /\ p.image = q.want.image
    BY DEF ProposalFromSelection
  <2>1. /\ obs[req[r].obs].state = "COMPLETED" /\ obs[req[r].obs].pod = req[r].want.pod
        /\ Generated(req[r])
    BY InvIs DEF OnSelection
  <2> QED  BY <2>1 DEF Generated
<1>3. Inv => ActsOnSelection  BY <1>1, <1>2 DEF ActsOnSelection
<1> QED  BY <1>3, Invariance, PTL

(* SlotsMatchReads: the read semaphore (workbenchAcquireRead) counts exactly   *)
(* the reads in progress, whichever way the others ended, and never exceeds    *)
(* its capacity; with it the types of the state.                               *)
THEOREM SlotsMatchReadsAlways == Spec => []SlotsMatchReads
<1>1. Inv => TypeOK
  <2> SUFFICES ASSUME Inv  PROVE TypeOK  OBVIOUS
  <2>1. ASSUME NEW r \in Requests
        PROVE  /\ req[r].kind \in Kinds /\ req[r].answer \in Answers
               /\ req[r].pc \in Calls \cup ReadSteps \cup
                     {"idle", "select", "enter", "gate", "lead", "wait", "woken", "register", "admit", "done"}
               /\ req[r].answer = "none" <=> req[r].pc # "done"
               /\ view[r].governance \in States /\ view[r].declared \in States
    <3>1. req[r] \in Request /\ view[r] \in View /\ Place(req[r])  BY InvIs
    <3>2. req[r].pc \in Pcs /\ req[r].kind \in Kinds /\ req[r].answer \in Answers  BY <3>1 DEF Request
    <3>3. view[r].governance \in States /\ view[r].declared \in States  BY <3>1 DEF View
    <3>4. req[r].answer = "none" <=> req[r].pc # "done"  BY <3>1 DEF Place
    <3> QED  BY <3>2, <3>3, <3>4 DEF Pcs, Discovering
  <2>2. slots \in Nat  BY DEF Inv, Slots
  <2>3. \A o \in Obs : stops[o] \in {"none", "registered", "cancelled"}  BY DEF Inv, World
  <2> QED  BY <2>1, <2>2, <2>3 DEF TypeOK, Inv, World
<1>2. Inv => SlotsMatchReads  BY <1>1 DEF SlotsMatchReads, Inv, Slots, Readers
<1> QED  BY <1>2, Invariance, PTL

(* ProjectionNotOverstated: the sections of a workload's projection claim no   *)
(* more than the reads support, and a verification shown as current is about   *)
(* a Pod that lived and the candidate that was approved, although each section *)
(* is read by another call (workbench_projection.go).                          *)
THEOREM ProjectionNotOverstatedAlways == Spec => []ProjectionNotOverstated
<1>1. ASSUME Inv, NEW r \in Requests, req[r].kind = "projection", req[r].answer = "OK"
      PROVE  LET v == view[r] IN
             /\ v.governance = "EMPTY" => v.existing = {}
             /\ v.governance = "AVAILABLE" /\ Cardinality(v.existing) <= PageLimit =>
                    \A q \in v.existing : AssociateProposal(q)
             /\ v.declared = "AVAILABLE" => v.read = targetPods(v.listed, v.uid)
             /\ v.locks = "AVAILABLE" => v.found = v.read
             /\ v.materialized = "EMPTY" => v.found = {}
  BY <1>1, InvIs DEF Projected
<1>2. Inv => SectionsNotOverstated  BY <1>1 DEF SectionsNotOverstated
<1>3. ASSUME Inv, NEW r \in Requests, NEW q \in view[r].fresh
      PROVE  /\ q.fact.wl = view[r].uid /\ q.fact.digest = q.digest
             /\ \E p \in req[r].live : p.uid = q.fact.pod
  BY <1>3, InvIs DEF Projected
<1>4. Inv => FreshMeansCurrent  BY <1>3 DEF FreshMeansCurrent
<1>5. Inv => ProjectionNotOverstated  BY <1>2, <1>4 DEF ProjectionNotOverstated
<1> QED  BY <1>5, Invariance, PTL

(* PagesFollow: following the continuations of a collection shows each object  *)
(* that matches and existed at the first page once, and no other, for every    *)
(* page limit and whatever changes between the pages                           *)
(* (workbench_read_model.go).                                                  *)
THEOREM PagesFollowAlways == Spec => []PagesFollow
<1>1. ASSUME Inv, NEW r \in Requests, req[r].kind \in Collections, req[r].answer = "OK"
      PROVE  LET q == req[r]
                 v == view[r]
             IN  /\ v.shown \cap q.token.seen = {}
                 /\ v.complete => v.shown \cup q.token.seen = shownOf(q.kind, v.rv, q.want)
  BY <1>1, InvIs DEF Paged
<1>2. Inv => PagesFollow  BY <1>1 DEF PagesFollow
<1> QED  BY <1>2, Invariance, PTL

(* LineageExact: a policy answer names the proposals of the selected workload  *)
(* and no other, and the attempts and rollbacks shown are those of the object  *)
(* with the given UID, although the observations, the proposals and the        *)
(* attempts are listed at different times (workbench_lineage.go).              *)
THEOREM LineageExactAlways == Spec => []LineageExact
<1> DEFINE ours(x, wl) == x.from # {} /\ \A o \in x.from : obs[o].wl = wl
<1>1. ASSUME Inv, NEW r \in Requests, req[r].answer = "OK", req[r].kind = "policy"
      PROVE  LET q == req[r]
                 v == view[r]
             IN  /\ \A x \in v.shown : ours(x, q.want.wl)
                 /\ v.complete /\ q.token = NoToken =>
                        \A x \in v.existing :
                            x.readable /\ ours(x, q.want.wl) /\ x.from \subseteq {y.id : y \in v.before}
                                => x \in v.shown
  <2>1. /\ \A x \in view[r].shown : Ours(x, req[r].want.wl)
        /\ Sound(view[r].before)
        /\ view[r].complete /\ req[r].token = NoToken =>
              \A x \in view[r].existing :
                  x.readable /\ Ours(x, req[r].want.wl) /\ x.from \subseteq Ids(view[r].before)
                      => x \in view[r].shown
    BY <1>1, InvIs DEF Lined
  <2>2. \A x : Ours(x, req[r].want.wl) => ours(x, req[r].want.wl)  BY DEF Ours
  <2>3. ASSUME NEW x, ours(x, req[r].want.wl), x.from \subseteq Ids(view[r].before)
        PROVE  Ours(x, req[r].want.wl)
    <3>1. \A o \in Ids(view[r].before) : o \in Obs /\ obs[o].state # "none"
      BY <2>1 DEF Sound, Ids, ObsObject
    <3> QED  BY <2>3, <3>1 DEF Ours
  <2>4. Ids(view[r].before) = {y.id : y \in view[r].before}  BY DEF Ids
  <2> HIDE DEF ours
  <2> QED  BY <2>1, <2>2, <2>3, <2>4
<1>2. ASSUME Inv, NEW r \in Requests, req[r].answer = "OK", req[r].kind = "attempts"
      PROVE  /\ \A a \in view[r].shown : a.proposal = req[r].uid
             /\ view[r].complete /\ req[r].token = NoToken =>
                   {a \in view[r].before : a.source = 0 /\ a.proposal = req[r].uid} \subseteq view[r].shown
  BY <1>2, InvIs DEF Lined
<1>3. ASSUME Inv, NEW r \in Requests, req[r].answer = "OK", req[r].kind = "rollbacks"
      PROVE  \A a \in view[r].shown : a.source = req[r].uid
  BY <1>3, InvIs DEF Lined
<1>4. Inv => LineageExact  BY <1>1, <1>2, <1>3 DEF LineageExact
<1> QED  BY <1>4, Invariance, PTL

==============================================================================
