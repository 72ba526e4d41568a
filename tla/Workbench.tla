------------------------------ MODULE Workbench -----------------------------
(***************************************************************************)
(* The Operations Center server (cmd/landlock-genprof, command "ui"):      *)
(* concurrent HTTP requests over one Kubernetes cluster.                   *)
(*                                                                         *)
(* The server runs in one of two modes.  Behind a trusted proxy every      *)
(* request carries a signed identity, acts through clients that            *)
(* impersonate it, and is bound to the namespace of the server; started    *)
(* locally it acts with the kubeconfig's credentials, in the namespace of  *)
(* the environment session a request names, or in the server's own.        *)
(*                                                                         *)
(* A request that changes something first has its capabilities discovered: *)
(* one access review per rule, shared by concurrent requests of the same   *)
(* identity, namespace and session (internal/authz/coalescer.go).  Then    *)
(* it starts or stops an observation, generates a proposal, or runs apply  *)
(* or rollback; a read takes a slot of the read semaphore and assembles    *)
(* the workload's projection, a page of a collection or the lineage of a   *)
(* workload in many API calls (Projection.tla, ReadModel.tla).             *)
(* Meanwhile Pods are replaced, roles change, observations complete,       *)
(* decisions are made, calls fail and clients disconnect.                  *)
(***************************************************************************)
EXTENDS ReadModel, Sequences

CONSTANTS
    Requests,       \* the requests that may arrive
    Scenarios,      \* bound: how the server runs, what is requested of it,
                    \* and what changes in the meantime
    AllowedUsers,   \* the identities on the proxy mode's allowlist
    Stranger,       \* an identity that is not
    LocalUser,      \* the identity of the local kubeconfig
    Home,           \* the server's namespace, where the workload lives
    Abroad,         \* another namespace
    InitialGrants,  \* the roles to begin with
    Pods,           \* Pod names of the workload, numbers in list order
    Obs,            \* observation IDs
    Nobody,
    MaxReads,       \* workbenchMaxConcurrentReads
    MaxChanges,     \* bound: changes made to the cluster by others
    MaxFaults       \* bound: failing calls and disconnecting clients

ASSUME WorkbenchAssumption ==
    /\ Pods # {} /\ Pods \subseteq Nat
    /\ {MaxReads, PageLimit} \subseteq Nat \ {0}
    /\ {MaxChanges, MaxFaults} \subseteq Nat
    /\ Nobody \notin Requests
    /\ Obs \subseteq Nat \ {0} /\ Obs # {} /\ IsFiniteSet(Obs)

VARIABLES
    mode,       \* "proxy" or "local"
    session,    \* the environment session: "none", "here" or "elsewhere"
    req,        \* the requests
    flight,     \* per leading request, the capability discovery it computes
    view,       \* per request, the projection it assembles
    slots,      \* used slots of the read semaphore
    stops,      \* observationAPI.stop of local mode: per observation "none",
                \* "registered", or "cancelled" once its function was called
    rbac,       \* per user and namespace, the rules that are granted
    pods,       \* the Pods of the workload
    workload,   \* [uid, viaReplicaSet]: the workload object
    obs,        \* the observations
    proposals,  \* the proposals in the server's namespace
    attempts,   \* the apply and the rollback attempts there
    offered,    \* history: the targets some inventory has shown
    issued,     \* the continuations that clients have been given
    turmoil,    \* bound: what may happen: a record of Pods, grants and so on
    changes, faults

cluster == <<rbac, pods, workload, obs, proposals, attempts, offered, issued, turmoil>>
vars == <<mode, session, req, flight, view, slots, stops, rbac, pods, workload, obs,
          proposals, attempts, offered, issued, turmoil, changes, faults>>

Namespaces == {Home, Abroad}
Users == AllowedUsers \cup {Stranger, LocalUser}
Subjects == Users \X Namespaces

(***************************************************************************)
(* Capabilities, those the modelled handlers ask for, and their rules.     *)
(***************************************************************************)
capabilityRules ==
    [operate  |-> {"observations.create", "observations/status.update"},
     view     |-> {"observations.list"},
     workload |-> {"pods.list"},
     proposal |-> {"proposals.list"},
     history  |-> {"attempts.list"},    \* and three more lists
     generate |-> {"proposals.create"},
     apply    |-> {"applyattempts.create"},
     rollback |-> {"rollbackattempts.create"}]

Rules == UNION {capabilityRules[c] : c \in DOMAIN capabilityRules}

\* The order of the reviews: capabilities are sorted by name.
ReviewOrder ==
    <<"attempts.list", "observations.create", "observations/status.update", "observations.list",
      "applyattempts.create", "proposals.create", "proposals.list", "rollbackattempts.create",
      "pods.list">>

Granted(rules) == {c \in DOMAIN capabilityRules : capabilityRules[c] \subseteq rules}

\* What a handler checks, in order.
checks(kind) ==
    CASE kind \in {"start", "stop"} -> <<"operate">>
      [] kind = "status"            -> <<"view">>
      [] kind = "generate"          -> <<"operate", "generate">>
      [] kind = "apply"             -> <<"apply">>
      [] kind = "rollback"          -> <<"rollback">>
      [] kind = "policy"            -> <<"workload", "proposal">>
      [] kind = "attempts"          -> <<"proposal", "history">>
      [] kind \in {"attempt", "rollbacks"} -> <<"history">>
      [] OTHER                      -> <<>>

\* The first call of an apply or a rollback.
checksRule(kind) == IF kind = "apply" THEN "applyattempts.create" ELSE "rollbackattempts.create"

Collections == {"observations", "proposals"}
Lineage == {"policy", "attempts", "attempt", "rollbacks"}
Reads == {"workloads", "detail", "projection", "observation", "proposal"} \cup Collections \cup Lineage
Kinds == Reads \cup {"start", "stop", "status", "generate", "apply", "rollback", "capabilities"}

(***************************************************************************)
(* Requests.                                                               *)
(***************************************************************************)
\* No expected target: ExpectedTargetIdentity is absent or incomplete.
NoTarget == [name |-> Min(Pods), wl |-> 0, pod |-> 0, image |-> 0]
Valid(t) == t.wl # 0 /\ t.pod # 0

\* The X-Environment-* headers; namespace Nobody: no session is named.
NoHeader == [ns |-> Nobody, version |-> 0]

\* What the client of a request sends; pick says which part of a target it
\* names: "none", "target" (workload and Pod) or "image" (the image as well),
\* obs and uid which object, and follow whether it continues a list.
Input(kind, user, header, body, pick, o) ==
    [kind |-> kind, user |-> user, header |-> header, body |-> body, pick |-> pick, obs |-> o,
     uid |-> 0, versioned |-> FALSE, follow |-> FALSE]

Headers == {NoHeader} \cup [ns : Namespaces, version : Nat]
Inputs == [kind : Kinds, user : Users, header : Headers, body : Namespaces,
           pick : {"none", "target", "image"}, obs : Nat, uid : Nat, versioned : BOOLEAN,
           follow : BOOLEAN]

\* A UID names one object for ever.
UIDsName(ps, as) ==
    /\ \A p, q \in ps : p.uid = q.uid => p.id = q.id
    /\ \A a \in as, p \in ps : a.proposal = p.uid => a.proposalName = p.id

Proposal == [id : Nat \ {0}, uid : Nat, readable : BOOLEAN, bound : BOOLEAN, image : Nat,
             from : SUBSET Nat, digest : Nat, approved : Nat, fact : [pod : Nat, wl : Nat, digest : Nat]]
Attempt == [id : Nat \ {0}, uid : Nat, source : Nat, proposalName : Nat, proposal : Nat]
Turmoil == [pods : SUBSET Pods, workload : BOOLEAN, proposals : BOOLEAN,
            grants : SUBSET (Subjects \X Rules), sessions : SUBSET {"here", "elsewhere"},
            executor : BOOLEAN]
Scenario == [mode : {"proxy", "local"}, viaReplicaSet : BOOLEAN, completed : BOOLEAN,
             earlier : BOOLEAN, proposals : SUBSET Proposal, attempts : SUBSET Attempt,
             inputs : [Requests -> Inputs], turmoil : Turmoil]

\* A cluster holds finitely many objects, and who names an observation names
\* one of Obs, which may not exist.
ASSUME ScenarioAssumption ==
    /\ InitialGrants \in [Subjects -> SUBSET Rules]
    /\ \A s \in Scenarios :
          /\ s \in Scenario
          /\ IsFiniteSet(s.proposals) /\ IsFiniteSet(s.attempts)
          /\ UIDsName(s.proposals, s.attempts)
          /\ \A r \in Requests :
                s.inputs[r].kind \in {"stop", "status", "generate"} => s.inputs[r].obs \in Obs

IdleRequest(input) ==
    [kind |-> input.kind, user |-> input.user, header |-> input.header, body |-> input.body,
     pick |-> input.pick, obs |-> input.obs, uid |-> input.uid, versioned |-> input.versioned,
     follow |-> input.follow,
     pc |-> "idle", connected |-> TRUE, ns |-> Home, want |-> NoTarget, token |-> NoToken,
     authenticated |-> FALSE,
     stage |-> 1, leader |-> Nobody, caps |-> {}, failed |-> FALSE, passed |-> {}, pod |-> Gone,
     wl |-> 0, answer |-> "none",
     held |-> {}, live |-> {}]      \* history variables

NoFlight == [open |-> FALSE, shared |-> FALSE, key |-> Nobody, done |-> 0, granted |-> {},
             failed |-> FALSE, held |-> [s \in Subjects |-> {}]]

NoView == [listed |-> [p \in Pods |-> Gone], uid |-> 0, queue |-> {}, read |-> {},
           failure |-> "none", declared |-> "NOT_AVAILABLE", materialized |-> "NOT_AVAILABLE",
           locks |-> "NONE", profiles |-> "NONE", governance |-> "EMPTY", fresh |-> {},
           known |-> {}, rv |-> {}, after |-> 0, shown |-> {}, complete |-> FALSE,
           found |-> {}, existing |-> {}, before |-> {}]      \* history variables

NoObservation == [state |-> "none", ns |-> Home, wl |-> 0, pod |-> 0, image |-> 0,
                  stop |-> FALSE, by |-> Nobody]

\* A UID no proposal has or had when it was applied.
FreshProposalUID == 1 + Max({q.uid : q \in proposals} \cup {a.proposal : a \in attempts} \cup {0})

Frozen(o) == obs[o].state \in {"COMPLETED", "FAILED"}
CanRequestStop(o) == obs[o].state \in {"REQUESTED", "RUNNING"}

Active(r) == req[r].pc \notin {"idle", "done"}
At(r, pc) == req[r].pc = pc

\* r's record becomes rec.
Become(r, rec) == req' = [req EXCEPT ![r] = rec]
Goto(r, pc) == Become(r, [req[r] EXCEPT !.pc = pc])

\* The handler answers and forgets what it has read.
Closed(rec, a) ==
    [rec EXCEPT !.pc = "done", !.answer = a, !.pod = Gone, !.wl = 0, !.caps = {}, !.stage = 1,
                !.failed = FALSE, !.leader = Nobody]
Answered(r, a) == Become(r, Closed(req[r], a))

\* A call to the API server fails, or the client of r has gone and cancelled it.
CallFails(r) ==
    \/ ~req[r].connected /\ UNCHANGED faults
    \/ req[r].connected /\ faults < MaxFaults /\ faults' = faults + 1
CallReturns(r) == req[r].connected /\ UNCHANGED faults

\* The impersonated client of r is allowed the call now.
Permitted(r, rule) == rule \in rbac[<<req[r].user, req[r].ns>>]

Init ==
    /\ \E s \in Scenarios :
          /\ mode = s.mode
          /\ req = [r \in Requests |-> IdleRequest(s.inputs[r])]
          /\ workload = [uid |-> 1, viaReplicaSet |-> s.viaReplicaSet]
          /\ obs = [o \in Obs |->
                       IF o = Min(Obs)
                       THEN [NoObservation EXCEPT !.wl = 1, !.pod = Min(Pods),
                                 !.image = IF s.earlier THEN 2 ELSE 1,
                                 !.state = IF s.completed THEN "COMPLETED" ELSE "RUNNING"]
                       ELSE IF s.earlier
                       THEN [NoObservation EXCEPT !.wl = IF o = Max(Obs) THEN 1 ELSE 7,
                                 !.pod = o, !.image = 1, !.state = "COMPLETED"]
                       ELSE NoObservation]
          /\ proposals = s.proposals
          /\ attempts = s.attempts
          /\ turmoil = s.turmoil
    /\ session = "none"
    /\ flight = [r \in Requests |-> NoFlight]
    /\ view = [r \in Requests |-> NoView]
    /\ slots = 0
    /\ stops = [o \in Obs |-> "none"]
    /\ rbac = InitialGrants
    /\ pods = [p \in Pods |-> [uid |-> p, image |-> 1, owner |-> 1]]
    /\ offered = {[name |-> p, wl |-> 1, pod |-> p, image |-> 1] : p \in Pods}
    /\ issued = {}
    /\ changes = 0
    /\ faults = 0

(***************************************************************************)
(* A request arrives (ServeHTTP).                                          *)
(***************************************************************************)
\* FromRequest: one signed, recent identity that the allowlist permits.
FromRequest(user) == user \in AllowedUsers

\* forEnvironmentRequest, and behind the proxy the comparison with the
\* server's namespace and cluster; a selection always has context version 2.
StaleContext(h) ==
    \/ session = "none"
    \/ mode = "proxy" /\ (h.version # 2 \/ h.ns # Home \/ session # "here")

\* A client selects among the targets that an inventory has shown it.
Wants(q) ==
    CASE q.pick = "none"   -> {NoTarget}
      [] q.pick = "target" -> {[t EXCEPT !.image = 0] : t \in offered}
      [] q.pick = "image"  -> offered

\* The Pods that have existed since a request arrived.
LivePods == {pods[p] : p \in Live(pods)}

\* It follows a continuation that the server has given.
Tokens(q) == IF q.follow THEN {t \in issued : t.kind = q.kind} ELSE {NoToken}

\* The request as the handler of its mode sees it.
Accepted(q, want, token) ==
    LET selecting == mode = "local" /\ q.header # NoHeader
    IN  [q EXCEPT !.pc = IF selecting THEN "select" ELSE "enter", !.want = want,
                  !.token = token, !.authenticated = mode = "proxy" \/ q.header # NoHeader,
                  !.ns = IF selecting THEN q.header.ns ELSE Home,
                  !.live = LivePods]

ServeHTTP(r) ==
    LET q == req[r]
        known == mode = "proxy" => FromRequest(q.user)
        stale == q.header # NoHeader /\ StaleContext(q.header)
    IN  /\ At(r, "idle")
        /\ \/ Answered(r, "REJECTED")   \* Host, Origin, method or body
           \/ ~known /\ Answered(r, "UNAUTHENTICATED")
           \/ known /\ stale /\ Answered(r, "STALE_CONTEXT")
           \/ known /\ ~stale /\ \E want \in Wants(q), token \in Tokens(q) :
                  Become(r, Accepted(q, want, token))
        /\ flight' = IF req'[r].pc = "select"
                     THEN [flight EXCEPT ![r] = [NoFlight EXCEPT !.open = TRUE]]
                     ELSE flight
        /\ UNCHANGED <<mode, session, view, slots, stops, faults, changes>> /\ UNCHANGED cluster

\* POST /api/v09/environments opens a session on a cluster of the kubeconfig.
Open ==
    /\ session = "none"
    /\ session' \in turmoil.sessions
    /\ UNCHANGED <<mode, req, flight, view, slots, stops, faults, changes>> /\ UNCHANGED cluster

(***************************************************************************)
(* Capability discovery, one review at a time, and its coalescing.         *)
(***************************************************************************)
\* The reviews of a selection use the context of their request; those of a
\* shared flight are detached from it.
DiscoverCapabilities(r) ==
    LET f == flight[r]
        rule == ReviewOrder[f.done + 1]
    IN  /\ f.open /\ ~f.failed /\ f.done < Len(ReviewOrder)
        /\ \/ /\ f.shared \/ req[r].connected
              /\ flight' = [flight EXCEPT ![r].done = @ + 1,
                                ![r].granted = IF Permitted(r, rule) THEN @ \cup {rule} ELSE @]
              /\ UNCHANGED faults
           \/ /\ IF f.shared THEN faults < MaxFaults /\ faults' = faults + 1 ELSE CallFails(r)
              /\ flight' = [flight EXCEPT ![r].failed = TRUE]
        /\ UNCHANGED <<mode, session, req, view, slots, stops, changes>> /\ UNCHANGED cluster

Discovered(f) == f.open /\ (f.failed \/ f.done = Len(ReviewOrder))

\* The local mode lets Kubernetes authorize the selected namespace first.
SelectNamespace(r) ==
    /\ At(r, "select") /\ Discovered(flight[r])
    /\ IF flight[r].failed \/ Granted(flight[r].granted) = {} THEN Answered(r, "UNAVAILABLE")
       ELSE IF req[r].header.version # 2 THEN Answered(r, "STALE_CONTEXT")
       ELSE Goto(r, "enter")
    /\ flight' = [flight EXCEPT ![r] = NoFlight]
    /\ UNCHANGED <<mode, session, view, slots, stops, faults, changes>> /\ UNCHANGED cluster

\* Mutant for GrantsWereHeld: the key leaves out who asks.
KeyWithoutUser(q) == <<q.ns, q.header.version>>

\* Server and kubeconfig are the same for all requests of one mode.
authorityProjectionKey(q) == <<q.user, q.ns, q.header.version>>

Do(r) ==
    LET key == authorityProjectionKey(req[r])
        leaders == {q \in Requests : flight[q].open /\ flight[q].shared /\ flight[q].key = key}
    IN  /\ At(r, "gate")
        /\ \/ \E q \in leaders :
                 /\ Become(r, [req[r] EXCEPT !.pc = "wait", !.leader = q])
                 /\ UNCHANGED flight
           \/ /\ leaders = {}
              /\ Become(r, [req[r] EXCEPT !.pc = "lead", !.leader = r])
              /\ flight' = [flight EXCEPT ![r] = [NoFlight EXCEPT !.open = TRUE, !.shared = TRUE,
                                                      !.key = key, !.held = rbac]]
        /\ UNCHANGED <<mode, session, view, slots, stops, faults, changes>> /\ UNCHANGED cluster

\* Mutant for EveryRequestAnswered: done is not closed, the leader just goes on.
LeaderOnly(r) == {r}

Joined(r) == {q \in Requests : req[q].pc \in {"lead", "wait"} /\ req[q].leader = r}

\* The leader removes the flight and closes done.
Deliver(r) ==
    LET f == flight[r]
    IN  /\ At(r, "lead") /\ Discovered(f)
        /\ req' = [q \in Requests |->
                      IF q \in Joined(r)
                      THEN [req[q] EXCEPT !.pc = "woken", !.leader = Nobody, !.failed = f.failed,
                                !.caps = Granted(f.granted),
                                !.held = @ \cup f.held[<<req[q].user, req[q].ns>>]]
                      ELSE req[q]]
        /\ flight' = [flight EXCEPT ![r] = NoFlight]
        /\ UNCHANGED <<mode, session, view, slots, stops, faults, changes>> /\ UNCHANGED cluster

\* A waiting request whose client is gone is denied.
Abandon(r) ==
    /\ At(r, "wait") /\ ~req[r].connected
    /\ Answered(r, IF req[r].kind = "capabilities" THEN "ERROR" ELSE "DENIED")
    /\ UNCHANGED <<mode, session, flight, view, slots, stops, faults, changes>>
    /\ UNCHANGED cluster

(***************************************************************************)
(* The handlers of changes, and of an observation's status.                *)
(***************************************************************************)
Bound(rec) == rec.authenticated \/ rec.want # NoTarget

\* What a handler does, once allowed, before its first call.
Begun(rec) ==
    LET outside == rec.body # rec.ns
        to(pc) == [rec EXCEPT !.pc = pc]
    IN  CASE rec.kind = "start" ->
                 IF outside \/ (rec.authenticated /\ ~Valid(rec.want))
                 THEN Closed(rec, "INVALID") ELSE to("pod")
          [] rec.kind = "stop" ->
                 CASE rec.authenticated /\ rec.header.ns # rec.body -> Closed(rec, "STALE_CONTEXT")
                   [] ~rec.authenticated /\ outside                 -> Closed(rec, "INVALID")
                   [] OTHER                                         -> to("observation")
          [] rec.kind = "status" -> to("observation")
          [] rec.kind = "generate" ->
                 IF outside \/ (Bound(rec) /\ (~Valid(rec.want) \/ rec.want.image = 0))
                 THEN Closed(rec, "INVALID")
                 ELSE to(IF Bound(rec) THEN "observation" ELSE "load")
          [] rec.kind \in Lineage -> to("admit")
          [] OTHER -> IF rec.versioned THEN to("run") ELSE Closed(rec, "PRECONDITION_REQUIRED")

\* The first call of a read.
FirstStep(kind) ==
    CASE kind \in {"workloads", "detail", "projection", "policy"} -> "list"
      [] kind \in Collections                                     -> "page"
      [] OTHER                                                    -> "get"

\* Mutant for SlotsMatchReads: one read too many.
AcquireOneMore(r) ==
    IF slots <= MaxReads
    THEN slots' = slots + 1 /\ Goto(r, FirstStep(req[r].kind))
    ELSE slots' = slots /\ Answered(r, "BUSY")

workbenchAcquireRead(r) ==
    IF slots < MaxReads
    THEN slots' = slots + 1 /\ Goto(r, FirstStep(req[r].kind))
    ELSE slots' = slots /\ Answered(r, "BUSY")

\* The handler that mux selects.
Enter(r) ==
    LET q == req[r]
    IN  /\ At(r, "enter")
        /\ IF q.kind \in Reads \ Lineage
           THEN IF q.kind = "detail" /\ ~parseReadModelSelector(q.want)
                THEN Answered(r, "INVALID") /\ UNCHANGED slots
                ELSE workbenchAcquireRead(r)
           ELSE /\ CASE q.kind = "capabilities" ->
                          IF mode = "proxy" THEN Goto(r, "gate") ELSE Answered(r, "NOT_IMPLEMENTED")
                     [] q.kind \in {"apply", "rollback"} /\ ~q.authenticated ->
                          Answered(r, "UNAUTHENTICATED")
                     [] OTHER -> IF q.authenticated THEN Goto(r, "gate") ELSE Become(r, Begun(q))
                /\ UNCHANGED slots
        /\ UNCHANGED <<mode, session, flight, view, stops, faults, changes>>
        /\ UNCHANGED cluster

capabilityAllowed(q, c) == ~q.failed /\ c \in q.caps

\* The discovery has returned; proposal generation asks twice.
Authorize(r) ==
    LET q == req[r]
        need == checks(q.kind)
        rec == [q EXCEPT !.passed = @ \cup {need[q.stage]}, !.caps = {}]
    IN  /\ At(r, "woken")
        /\ CASE q.kind = "capabilities" -> Answered(r, IF q.failed THEN "ERROR" ELSE "OK")
             [] q.kind # "capabilities" /\ ~capabilityAllowed(q, need[q.stage]) ->
                    Answered(r, "DENIED")
             [] OTHER -> Become(r, IF q.stage < Len(need)
                                   THEN [rec EXCEPT !.pc = "gate", !.stage = @ + 1]
                                   ELSE Begun(rec))
        /\ UNCHANGED <<mode, session, flight, view, slots, stops, faults, changes>>
        /\ UNCHANGED cluster

\* A lineage read, once allowed.  The namespace of a policy's selector is the
\* session's, and the cluster is known, as it is with an identity or a session.
Admit(r) ==
    /\ At(r, "admit")
    /\ IF \/ req[r].kind = "policy" /\ ~parseReadModelSelector(req[r].want)
          \/ req[r].kind = "attempts" /\ req[r].uid = 0
       THEN Answered(r, "INVALID") /\ UNCHANGED slots
       ELSE IF req[r].kind = "policy" /\ (req[r].body # req[r].ns \/ ~req[r].authenticated)
       THEN Answered(r, "CONFLICT") /\ UNCHANGED slots
       ELSE workbenchAcquireRead(r)
    /\ UNCHANGED <<mode, session, flight, view, stops, faults, changes>> /\ UNCHANGED cluster

\* A call that r's handler cannot do without fails.
Fails(r, pc) ==
    /\ At(r, pc) /\ CallFails(r) /\ Answered(r, "ERROR")
    /\ UNCHANGED <<mode, session, flight, view, slots, stops, changes>> /\ UNCHANGED cluster

GetObservation(r) ==
    LET q == req[r]
        o == obs[q.obs]
    IN  /\ At(r, "observation") /\ CallReturns(r)
        /\ CASE o.state = "none" \/ o.ns # q.body -> Answered(r, "NOT_FOUND")
             [] OTHER ->
                CASE q.kind = "stop" /\ q.authenticated -> Goto(r, "intent")
                  [] q.kind = "generate" ->
                        Become(r, IF o.state # "COMPLETED" THEN Closed(q, "CONFLICT")
                                  ELSE IF o.pod # q.want.pod THEN Closed(q, "TARGET_CHANGED")
                                  ELSE [q EXCEPT !.pc = "pod"])
                  [] OTHER -> Answered(r, "OK")
        \* stopObservation: the function registered in this server, if any.
        /\ stops' = IF /\ q.kind = "stop" /\ ~q.authenticated /\ o.ns = q.body
                       /\ stops[q.obs] = "registered" /\ ~Frozen(q.obs)
                    THEN [stops EXCEPT ![q.obs] = "cancelled"] ELSE stops
        /\ UNCHANGED <<mode, session, flight, view, slots, changes>> /\ UNCHANGED cluster

requestDurableStop(r) ==
    LET o == req[r].obs
        allowed == Permitted(r, "observations/status.update")
    IN  /\ At(r, "intent") /\ CallReturns(r)
        /\ IF req[r].body = req[r].ns /\ allowed /\ CanRequestStop(o)
           THEN Answered(r, "OK") /\ obs' = [obs EXCEPT ![o].stop = TRUE]
           ELSE /\ Answered(r, IF req[r].body # req[r].ns THEN "INVALID"
                               ELSE IF ~allowed THEN "ERROR" ELSE "STOP_NOT_ELIGIBLE")
                /\ UNCHANGED obs
        /\ UNCHANGED <<mode, session, flight, view, slots, stops, rbac, pods, workload,
                       proposals, attempts, offered, issued, turmoil, changes>>

\* Mutant for ActsOnSelection: the Pod is found by name and not compared.
NamedPodMatches(rec) == rec.want = NoTarget \/ rec.want.wl = rec.wl

\* The comparison of ResolveCurrentTarget.
TargetMatches(rec) ==
    \/ rec.want = NoTarget
    \/ /\ rec.want.wl = rec.wl /\ rec.want.pod = rec.pod.uid
       /\ rec.want.image \in {0, rec.pod.image}

\* Then a start creates; generateBound also compares the frozen observation.
Resolved(rec) ==
    LET o == obs[rec.obs]
        same == o.wl = rec.want.wl /\ o.image # 0 /\ o.image = rec.want.image
    IN  IF ~TargetMatches(rec) THEN Closed(rec, "TARGET_CHANGED")
        ELSE IF rec.kind = "start" THEN [rec EXCEPT !.pc = "create"]
        ELSE IF same THEN [rec EXCEPT !.pc = "load"] ELSE Closed(rec, "TARGET_CHANGED")

\* ResolveWorkloadIdentity takes the UID from the Pod's owner reference, or
\* looks the ReplicaSet up by name and takes it from there.
GetPod(r) ==
    LET p == pods[req[r].want.name]
        rec == [req[r] EXCEPT !.pod = p, !.wl = p.owner]
    IN  /\ At(r, "pod") /\ CallReturns(r)
        /\ Become(r, CASE req[r].ns # Home \/ p = Gone -> Closed(req[r], "NOT_FOUND")
                       [] OTHER -> IF workload.viaReplicaSet
                                   THEN [rec EXCEPT !.pc = "replicaSet"] ELSE Resolved(rec))
        /\ UNCHANGED <<mode, session, flight, view, slots, stops, changes>> /\ UNCHANGED cluster

GetReplicaSet(r) ==
    /\ At(r, "replicaSet") /\ CallReturns(r)
    /\ Become(r, Resolved([req[r] EXCEPT !.wl = workload.uid]))
    /\ UNCHANGED <<mode, session, flight, view, slots, stops, changes>> /\ UNCHANGED cluster

\* CreateObservation; the answer to the call may be lost.
CreateObservation(r) ==
    LET q == req[r]
        free == {o \in Obs : obs[o].state = "none"}
        new == [NoObservation EXCEPT !.state = "REQUESTED", !.wl = q.wl, !.pod = q.pod.uid, !.by = r]
    IN  /\ At(r, "create")
        /\ IF Permitted(r, "observations.create")
           THEN /\ free # {}   \* bound: identifiers
                /\ obs' = [obs EXCEPT ![Min(free)] = new]
                /\ \/ /\ CallReturns(r)
                      /\ Become(r, IF mode = "proxy" THEN Closed(q, "OK")
                                   ELSE [q EXCEPT !.pc = "register", !.obs = Min(free)])
                   \/ CallFails(r) /\ Answered(r, "ERROR")
           ELSE CallReturns(r) /\ Answered(r, "ERROR") /\ UNCHANGED obs
        /\ UNCHANGED <<mode, session, flight, view, slots, stops, rbac, pods, workload,
                       proposals, attempts, offered, issued, turmoil, changes>>

\* Without an executor the server runs the observation itself.  An API object
\* made for one request takes its map of functions with it.
Register(r) ==
    /\ At(r, "register")
    /\ stops' = IF req[r].authenticated THEN stops ELSE [stops EXCEPT ![req[r].obs] = "registered"]
    /\ Answered(r, "OK")
    /\ UNCHANGED <<mode, session, flight, view, slots, faults, changes>> /\ UNCHANGED cluster

\* Generate loads the observation again.
LoadObservation(r) ==
    LET o == obs[req[r].obs]
    IN  /\ At(r, "load") /\ CallReturns(r)
        /\ CASE o.state = "none" \/ o.ns # req[r].body -> Answered(r, "NOT_FOUND")
             [] OTHER -> IF o.state = "COMPLETED" THEN Goto(r, "save") ELSE Answered(r, "CONFLICT")
        /\ UNCHANGED <<mode, session, flight, view, slots, stops, changes>> /\ UNCHANGED cluster

\* The contribution to the history, and the proposal derived from it.
SaveProposal(r) ==
    LET new == [id |-> req[r].obs, uid |-> FreshProposalUID, readable |-> TRUE, bound |-> TRUE,
                image |-> obs[req[r].obs].image, from |-> {req[r].obs}, digest |-> 1, approved |-> 0,
                fact |-> [pod |-> 0, wl |-> 0, digest |-> 0]]
    IN  /\ At(r, "save") /\ CallReturns(r)
        /\ \/ Answered(r, "NO_CANDIDATE") /\ UNCHANGED proposals
           \/ /\ ~Permitted(r, "proposals.create") /\ Answered(r, "ERROR") /\ UNCHANGED proposals
           \/ /\ Permitted(r, "proposals.create")
              /\ IF \E q \in proposals : q.id = new.id
                 THEN /\ \/ Answered(r, "OK")         \* the same candidate
                         \/ Answered(r, "CONFLICT")
                      /\ UNCHANGED proposals
                 ELSE Answered(r, "OK") /\ proposals' = proposals \cup {new}
        /\ UNCHANGED <<mode, session, flight, view, slots, stops, rbac, pods, workload, obs,
                       attempts, offered, issued, turmoil, changes>>

ApplyAttempts == {a \in attempts : a.source = 0}

\* applyproposal.Run and rollbackapp.Run (GovernedApply, Rollback) create an
\* attempt as the requester and go on from there, with success or not.
Run(r) ==
    LET q == req[r]
        new == {IF q.kind = "apply"
                THEN [id |-> 60 + q.obs, uid |-> 60 + x.uid, source |-> 0, proposalName |-> x.id,
                      proposal |-> x.uid]
                ELSE [id |-> 70 + q.obs, uid |-> 70 + x.uid, source |-> x.uid,
                      proposalName |-> x.proposalName, proposal |-> x.proposal]
                  : x \in {y \in (IF q.kind = "apply" THEN proposals ELSE ApplyAttempts) : y.id = q.obs}}
    IN  /\ At(r, "run") /\ CallReturns(r)
        /\ \/ /\ Permitted(r, checksRule(q.kind)) /\ new # {}
              /\ attempts' = attempts \cup new
              /\ Answered(r, "OK") \/ Answered(r, "FAILED")
           \/ Answered(r, "FAILED") /\ UNCHANGED attempts
        /\ UNCHANGED <<mode, session, flight, view, slots, stops, rbac, pods, workload, obs,
                       proposals, offered, issued, turmoil, changes>>

(***************************************************************************)
(* The handlers of reads.  Every exit releases the slot.                   *)
(***************************************************************************)
ReadSteps == {"list", "owner", "object", "readPods", "policies", "optional", "proposals",
              "page", "get", "attemptList", "identities", "policyPage"}
FailingSteps == {"list", "owner", "object", "page", "get", "attemptList", "identities", "policyPage"}

Exit(r, a) == Answered(r, a) /\ slots' = slots - 1

Look(r, rec) == view' = [view EXCEPT ![r] = rec]

\* What a list of the session's namespace returns.
ProposalObjects(q) == IF q.ns = Home THEN proposals ELSE {}
ObservationObjects(q) ==
    {observationProjection(o, obs[o]) : o \in {x \in Obs : obs[x].state # "none" /\ obs[x].ns = q.ns}}

ReadFails(r) ==
    /\ req[r].pc \in FailingSteps /\ CallFails(r) /\ Exit(r, "ERROR")
    /\ UNCHANGED <<mode, session, flight, view, stops, changes>> /\ UNCHANGED cluster

ListPods(r) ==
    LET listed == IF req[r].ns = Home THEN pods ELSE NoView.listed
    IN  /\ At(r, "list") /\ CallReturns(r)
        /\ IF Live(listed) = {}
           THEN Exit(r, IF req[r].kind = "workloads" THEN "OK" ELSE "NOT_FOUND") /\ UNCHANGED view
           ELSE /\ Goto(r, "owner") /\ UNCHANGED slots
                /\ Look(r, [NoView EXCEPT !.listed = listed])
        /\ UNCHANGED <<mode, session, flight, stops, changes>> /\ UNCHANGED cluster

Shown(listed, uid) ==
    {[name |-> p, wl |-> uid, pod |-> listed[p].uid, image |-> listed[p].image]
        : p \in targetPods(listed, uid)}

\* The selected target is found; only a projection is selected by name alone.
resolveGovernedTarget(q, uid) == uid # 0 /\ (q.kind # "projection" => uid = q.want.wl)

AfterDiscovery(kind) ==
    CASE kind = "detail"     -> "object"
      [] kind = "projection" -> "readPods"
      [] kind = "policy"     -> "identities"

Discover(r) ==
    LET q == req[r]
        v == view[r]
        uid == resolveOwner(v.listed, workload.uid)
    IN  /\ At(r, "owner") /\ CallReturns(r)
        /\ CASE q.kind = "workloads" ->
                  Exit(r, "OK") /\ offered' = offered \cup Shown(v.listed, uid) /\ UNCHANGED view
             [] q.kind # "workloads" /\ ~resolveGovernedTarget(q, uid) ->
                  Exit(r, "NOT_FOUND") /\ UNCHANGED <<offered, view>>
             [] OTHER ->
                  /\ Goto(r, AfterDiscovery(q.kind))
                  /\ Look(r, [v EXCEPT !.uid = uid, !.queue = targetPods(v.listed, uid),
                                  !.before = ObservationObjects(q)])
                  /\ UNCHANGED <<offered, slots>>
        /\ UNCHANGED <<mode, session, flight, stops, rbac, pods, workload, obs, proposals, attempts, issued,
                       turmoil, changes>>

handleWorkloadDetail(r) ==
    /\ At(r, "object") /\ CallReturns(r)
    /\ Exit(r, IF workload.uid = req[r].want.wl THEN "OK" ELSE "NOT_FOUND")
    /\ UNCHANGED <<mode, session, flight, view, stops, changes>> /\ UNCHANGED cluster

\* Project reads the Pods by name again; the first failure is remembered.
ReadPod(r) ==
    LET v == view[r]
        p == Min(v.queue)
        rest == v.queue \ {p}
        read == [v EXCEPT !.queue = rest, !.read = @ \cup {p}]
        lost(why) == [v EXCEPT !.queue = rest, !.failure = IF @ = "none" THEN why ELSE @]
    IN  /\ At(r, "readPods")
        /\ \/ /\ CallReturns(r)
              /\ Look(r, IF pods[p] = Gone THEN lost("NOT_FOUND") ELSE read)
           \/ CallFails(r) /\ Look(r, lost("PERMISSION_DENIED"))
        /\ LET new == view'[r]
           IN  IF rest # {} THEN UNCHANGED <<req, slots>>
               ELSE IF new.read = {} THEN Exit(r, "ERROR")
               ELSE Goto(r, "policies") /\ UNCHANGED slots
        /\ UNCHANGED <<mode, session, flight, stops, changes>> /\ UNCHANGED cluster

ListNetworkPolicies(r) ==
    LET v == [view[r] EXCEPT !.queue = view[r].read,
                  !.declared = declaredFromPods(targetPods(view[r].listed, view[r].uid), view[r].read)]
    IN  /\ At(r, "policies")
        /\ \/ /\ CallReturns(r)
              /\ \E selects \in BOOLEAN :
                    Look(r, [v EXCEPT !.materialized = materializedNetworkPolicies(selects)])
           \/ CallFails(r) /\ Look(r, [v EXCEPT !.materialized = sectionFromError("PERMISSION_DENIED")])
        /\ Goto(r, "optional")
        /\ UNCHANGED <<mode, session, flight, slots, stops, changes>> /\ UNCHANGED cluster

\* The Landlock and seccomp profiles of one Pod.
ReadOptional(r) ==
    LET v == view[r]
        p == Min(v.queue)
    IN  /\ At(r, "optional")
        /\ \E lock, profile \in {"AVAILABLE"} \cup ReadFailures :
              /\ IF "PERMISSION_DENIED" \in {lock, profile} THEN CallFails(r) ELSE CallReturns(r)
              /\ Look(r, [v EXCEPT !.queue = @ \ {p},
                              !.locks = summarizeOptional(@, lock),
                              !.profiles = summarizeOptional(@, profile),
                              !.materialized = addOptionalMaterialized(@, lock, profile),
                              !.found = IF lock = "AVAILABLE" THEN @ \cup {p} ELSE @])
        /\ IF v.queue = {p} THEN Goto(r, "proposals") ELSE UNCHANGED req
        /\ UNCHANGED <<mode, session, flight, slots, stops, changes>> /\ UNCHANGED cluster

\* The proposals are listed last and decide two sections.
loadProposals(r) ==
    LET v == view[r]
        uids == {v.listed[p].uid : p \in targetPods(v.listed, v.uid)}
        existing == ProposalObjects(req[r])
    IN  /\ At(r, "proposals")
        /\ \/ /\ CallReturns(r)
              /\ Look(r, [v EXCEPT !.governance = governanceProjection(page(existing, 0)),
                              !.fresh = behavioralVerificationProjection(uids, v.uid, page(existing, 0)),
                              !.existing = existing])
           \/ CallFails(r) /\ Look(r, [v EXCEPT !.governance = sectionFromError("PERMISSION_DENIED")])
        /\ Exit(r, "OK")
        /\ UNCHANGED <<mode, session, flight, stops, changes>> /\ UNCHANGED cluster

\* One page of a collection; its continuation is sealed for the next.
ListPage(r) ==
    LET q == req[r]
        scope == collectionContinuationScope(q)
        invalid == \/ ~parseReadModelSelector(q.want)
                   \/ q.token # NoToken /\ ~openCollectionContinuation(q.token, scope)
        first == IF q.kind = "observations" THEN ObservationObjects(q) ELSE ProposalObjects(q)
        rv == IF q.token = NoToken THEN first ELSE q.token.rv
        shown == shownOf(q.kind, page(rv, q.token.after), q.want)
        more == GetContinue(rv, q.token.after)
        next == sealCollectionContinuation(q.kind, scope, rv, q.token.after, q.token.seen \cup shown)
    IN  /\ At(r, "page")
        /\ IF invalid
           THEN Exit(r, "INVALID") /\ UNCHANGED <<view, issued, faults>>
           ELSE /\ CallReturns(r) /\ Exit(r, "OK")
                /\ Look(r, [NoView EXCEPT !.shown = shown, !.complete = ~more, !.rv = rv])
                /\ issued' = IF more THEN issued \cup {next} ELSE issued
        /\ UNCHANGED <<mode, session, flight, stops, rbac, pods, workload, obs, proposals, attempts,
                       offered, turmoil, changes>>

\* One object by name, and by UID if one is given; the attempts that name it
\* are then listed.
GetNamed(r) ==
    LET q == req[r]
        objects == CASE q.kind = "observation"              -> ObservationObjects(q)
                     [] q.kind \in {"proposal", "attempts"} -> ProposalObjects(q)
                     [] q.kind = "rollbacks"                -> ApplyAttempts
                     [] q.kind = "attempt"                  -> attempts
        named == {x \in objects : x.id = q.obs}
    IN  /\ At(r, "get")
        /\ IF q.kind \in {"attempt", "rollbacks"} /\ q.uid = 0
           THEN Exit(r, "INVALID") /\ UNCHANGED faults
           ELSE /\ CallReturns(r)
                /\ IF named = {} THEN Exit(r, "NOT_FOUND")
                   ELSE IF q.uid # 0 /\ \E x \in named : x.uid # q.uid THEN Exit(r, "CONFLICT")
                   ELSE IF q.kind \in {"attempts", "rollbacks"} THEN Goto(r, "attemptList") /\ UNCHANGED slots
                   ELSE Exit(r, IF q.kind = "proposal" /\ ~\A x \in named : proposalProjection(x)
                                THEN "MALFORMED_OBJECT" ELSE "OK")
        /\ Look(r, [NoView EXCEPT !.before = attempts])
        /\ UNCHANGED <<mode, session, flight, stops, changes>> /\ UNCHANGED cluster

\* The lists of attempts, continued from where the client says.
ListAttempts(r) ==
    LET q == req[r]
        now == IF q.kind = "attempts" THEN ApplyAttempts ELSE attempts \ ApplyAttempts
        rv == IF q.token = NoToken THEN now ELSE q.token.rv
        read == page(rv, q.token.after)
        shown == IF q.kind = "attempts" THEN decodeLineageApply(read, q.obs, q.uid)
                 ELSE decodeLineageRollback(read, q.uid)
        more == GetContinue(rv, q.token.after)
    IN  /\ At(r, "attemptList") /\ CallReturns(r) /\ Exit(r, "OK")
        /\ Look(r, [view[r] EXCEPT !.shown = shown, !.complete = ~more])
        /\ issued' = IF more THEN issued \cup {sealCollectionContinuation(q.kind, <<>>, rv, q.token.after, {})}
                     ELSE issued
        /\ UNCHANGED <<mode, session, flight, stops, rbac, pods, workload, obs, proposals, attempts,
                       offered, turmoil, changes>>

\* The observations of the namespace, all pages of them.
exactObservationIdentities(r) ==
    LET v == view[r]
        rv == IF v.after = 0 THEN ObservationObjects(req[r]) ELSE v.rv
        read == page(rv, v.after)
    IN  /\ At(r, "identities") /\ CallReturns(r)
        /\ Look(r, [v EXCEPT !.rv = rv, !.known = @ \cup read, !.after = lastOf(read, @)])
        /\ IF GetContinue(rv, v.after) THEN UNCHANGED req ELSE Goto(r, "policyPage")
        /\ UNCHANGED <<mode, session, flight, slots, stops, changes>> /\ UNCHANGED cluster

\* Then one page of proposals, classified by the observations they stem from.
ListPolicyPage(r) ==
    LET q == req[r]
        v == view[r]
        rv == IF q.token = NoToken THEN ProposalObjects(q) ELSE q.token.rv
        more == GetContinue(rv, q.token.after)
    IN  /\ At(r, "policyPage") /\ CallReturns(r) /\ Exit(r, "OK")
        /\ Look(r, [v EXCEPT !.existing = rv, !.complete = ~more, !.rv = {}, !.after = 0,
                       !.shown = handleWorkloadPolicy(page(rv, q.token.after), v.known, q.want.wl)])
        /\ issued' = IF more THEN issued \cup {sealCollectionContinuation(q.kind, <<>>, rv, q.token.after, {})}
                     ELSE issued
        /\ UNCHANGED <<mode, session, flight, stops, rbac, pods, workload, obs, proposals, attempts,
                       offered, turmoil, changes>>

(***************************************************************************)
(* The cluster meanwhile.                                                  *)
(***************************************************************************)
Change == changes < MaxChanges /\ changes' = changes + 1
FreshUID == 10 + changes

\* Every request under way sees what lives from now on.
Witness(now) ==
    req' = [r \in Requests |-> IF Active(r) THEN [req[r] EXCEPT !.live = @ \cup now] ELSE req[r]]

\* A Pod is replaced or created, its image is changed in place, or it goes.
ChangePod(p) ==
    /\ Change /\ p \in turmoil.pods
    /\ \E new \in [uid : {FreshUID}, image : {0, 1}, owner : {workload.uid}]
                     \cup {[pods[p] EXCEPT !.image = 2], Gone} :
          /\ new # pods[p] /\ (pods[p] = Gone => new.uid = FreshUID)
          /\ pods' = [pods EXCEPT ![p] = new]
          /\ Witness({new} \ {Gone})
    /\ UNCHANGED <<mode, session, flight, view, slots, stops, rbac, workload, obs, proposals,
                   attempts, offered, issued, turmoil, faults>>

\* The workload is deleted and created again; its old Pods are still there.
RecreateWorkload ==
    /\ Change /\ turmoil.workload
    /\ workload' = [workload EXCEPT !.uid = @ + 1]
    /\ UNCHANGED <<mode, session, req, flight, view, slots, stops, rbac, pods, obs, proposals,
                   attempts, offered, issued, turmoil, faults>>

\* A grant is given or withdrawn.
ChangeRole(s, rule) ==
    /\ Change
    /\ rbac' = [rbac EXCEPT ![s] = IF rule \in @ THEN @ \ {rule} ELSE @ \cup {rule}]
    /\ flight' = [r \in Requests |->
                     IF flight[r].shared THEN [flight[r] EXCEPT !.held[s] = @ \cup rbac'[s]]
                     ELSE flight[r]]
    /\ UNCHANGED <<mode, session, req, view, slots, stops, pods, workload, obs, proposals, attempts,
                   offered, issued, turmoil, faults>>

\* An executor or the server's own runner binds the Pod's image and completes
\* the observation (ObservationExecution).
ExecuteObservation(o) ==
    LET at == {p \in Pods : pods[p].uid = obs[o].pod}
    IN  /\ obs' = [obs EXCEPT ![o] =
                      CASE @.state = "REQUESTED" /\ at # {} ->
                               [@ EXCEPT !.state = "RUNNING", !.image = pods[Min(at)].image]
                        [] @.state = "RUNNING"              -> [@ EXCEPT !.state = "COMPLETED"]
                        [] OTHER                            -> [@ EXCEPT !.state = "FAILED"]]
        /\ turmoil.executor /\ obs[o].state \in {"REQUESTED", "RUNNING"}
        /\ stops' = IF obs'[o].state = "RUNNING" THEN stops ELSE [stops EXCEPT ![o] = "none"]
        /\ UNCHANGED <<mode, session, req, flight, view, slots, rbac, pods, workload, proposals,
                       attempts, offered, issued, turmoil, changes, faults>>

\* A proposal is approved or its approval withdrawn, its candidate replaced, or
\* it is deleted and created again under its name.
Govern(q) ==
    /\ Change /\ turmoil.proposals
    /\ \E new \in {[q EXCEPT !.approved = IF @ = q.digest THEN 0 ELSE q.digest],
                   [q EXCEPT !.digest = @ + 1],
                   [q EXCEPT !.uid = FreshProposalUID, !.approved = 0, !.fact = [pod |-> 0, wl |-> 0, digest |-> 0]]} :
          proposals' = (proposals \ {q}) \cup {new}
    /\ UNCHANGED <<mode, session, req, flight, view, slots, stops, rbac, pods, workload, obs,
                   attempts, offered, issued, turmoil, faults>>

\* The client of r goes away; its context is cancelled.
Disconnect(r) ==
    /\ Active(r) /\ req[r].connected
    /\ faults < MaxFaults /\ faults' = faults + 1
    /\ Become(r, [req[r] EXCEPT !.connected = FALSE])
    /\ UNCHANGED <<mode, session, flight, view, slots, stops, changes>> /\ UNCHANGED cluster

Calls == {"observation", "intent", "pod", "replicaSet", "create", "load", "save", "run"}

\* What the server does for a request it has accepted.
Handle(r) ==
    \/ DiscoverCapabilities(r) \/ SelectNamespace(r) \/ Enter(r)
    \/ Do(r) \/ Deliver(r) \/ Abandon(r) \/ Authorize(r)
    \/ \E pc \in Calls : Fails(r, pc)
    \/ GetObservation(r) \/ requestDurableStop(r)
    \/ GetPod(r) \/ GetReplicaSet(r) \/ CreateObservation(r) \/ Register(r)
    \/ LoadObservation(r) \/ SaveProposal(r) \/ Run(r)
    \/ ReadFails(r) \/ ListPods(r) \/ Discover(r) \/ handleWorkloadDetail(r)
    \/ ReadPod(r) \/ ListNetworkPolicies(r) \/ ReadOptional(r) \/ loadProposals(r)
    \/ Admit(r) \/ ListPage(r) \/ GetNamed(r) \/ ListAttempts(r)
    \/ exactObservationIdentities(r) \/ ListPolicyPage(r)

Next ==
    \/ Open
    \/ \E r \in Requests : ServeHTTP(r) \/ Handle(r) \/ Disconnect(r)
    \/ \E p \in Pods : ChangePod(p)
    \/ RecreateWorkload
    \/ \E c \in turmoil.grants : ChangeRole(c[1], c[2])
    \/ \E o \in Obs : ExecuteObservation(o)
    \/ \E q \in proposals : Govern(q)

\* The Go scheduler runs every handler; a call to the API server returns or
\* fails, since reads carry a deadline and the others the client's timeout.
Spec == Init /\ [][Next]_vars /\ \A r \in Requests : WF_vars(Handle(r))

(***************************************************************************)
(* Properties.                                                             *)
(***************************************************************************)
Answers ==
    {"none", "OK", "REJECTED", "UNAUTHENTICATED", "STALE_CONTEXT", "UNAVAILABLE", "BUSY", "DENIED",
     "NOT_IMPLEMENTED", "INVALID", "PRECONDITION_REQUIRED", "NOT_FOUND", "CONFLICT",
     "STOP_NOT_ELIGIBLE", "TARGET_CHANGED", "NO_CANDIDATE", "MALFORMED_OBJECT", "FAILED", "ERROR"}

(* Types: every request is at a step of its handler or answered, an        *)
(* observation is registered or not, and the read semaphore never holds a  *)
(* negative number of slots.                                               *)
TypeOK ==
    /\ mode \in {"proxy", "local"} /\ session \in {"none", "here", "elsewhere"}
    /\ slots \in Nat
    /\ \A r \in Requests :
          /\ req[r].kind \in Kinds /\ req[r].answer \in Answers
          /\ req[r].pc \in Calls \cup ReadSteps \cup
                {"idle", "select", "enter", "gate", "lead", "wait", "woken", "register", "admit", "done"}
          /\ req[r].answer = "none" <=> req[r].pc # "done"
          /\ view[r].governance \in States /\ view[r].declared \in States
    /\ \A o \in Obs : stops[o] \in {"none", "registered", "cancelled"}

(* A capability check that a request passed was answered for its own user  *)
(* and in its own namespace: every rule of the capability was granted to   *)
(* that user there at some time since the discovery that answered the      *)
(* check began, also when another request led that discovery.              *)
GrantsWereHeld ==
    \A r \in Requests, c \in DOMAIN capabilityRules :
        c \in req[r].passed => capabilityRules[c] \subseteq req[r].held

(* An observation started with an identity of the caller observes the Pod  *)
(* and the workload that the caller had selected from an inventory: the    *)
(* Pod of that UID, and of that image if one was given, lived since the    *)
(* request arrived, and it belonged to that workload where the owner is    *)
(* read from the Pod.  A replaced Pod of the same name is never observed   *)
(* in its place.                                                           *)
StartedOnSelection ==
    \A o \in Obs :
        LET q == req[obs[o].by]
        IN  obs[o].by \in Requests /\ Valid(q.want) =>
                \E p \in q.live :
                    /\ p.uid = q.want.pod /\ p.uid = obs[o].pod /\ obs[o].wl = q.want.wl
                    /\ q.want.image \in {0, p.image}
                    /\ ~workload.viaReplicaSet => p.owner = obs[o].wl

(* A proposal generated for a selected target comes from a completed       *)
(* observation of exactly that Pod, workload and image, and the Pod was    *)
(* running that image at some time since the request arrived.              *)
ProposalFromSelection ==
    \A r \in Requests :
        LET q == req[r]
        IN  q.kind = "generate" /\ q.answer = "OK" /\ Bound(q) =>
                /\ obs[q.obs].state = "COMPLETED" /\ obs[q.obs].pod = q.want.pod
                /\ obs[q.obs].wl = q.want.wl /\ obs[q.obs].image = q.want.image
                /\ \E p \in q.live : p.uid = q.want.pod /\ p.image = q.want.image

(* What a caller selected is what the server acts on, now and later.       *)
ActsOnSelection == StartedOnSelection /\ ProposalFromSelection

(* Slots of the read semaphore are held by the reads in progress and by    *)
(* nothing else, whichever way the earlier ones ended, and there are never *)
(* more of them than workbenchMaxConcurrentReads.                          *)
SlotsMatchReads ==
    /\ TypeOK
    /\ slots = Cardinality({r \in Requests : req[r].pc \in ReadSteps})
    /\ slots <= MaxReads

(* A projection never claims more than its reads support: governance is    *)
(* EMPTY only if no proposal existed, and AVAILABLE only if all that were  *)
(* in reach were attributed; declarations are AVAILABLE only if every Pod  *)
(* that carried the target was read; Landlock profiles only if each of     *)
(* these Pods had one, and the materialized section is not EMPTY then.     *)
SectionsNotOverstated ==
    \A r \in Requests :
        LET v == view[r]
        IN  req[r].kind = "projection" /\ req[r].answer = "OK" =>
                /\ v.governance = "EMPTY" => v.existing = {}
                /\ v.governance = "AVAILABLE" /\ Cardinality(v.existing) <= PageLimit =>
                       \A q \in v.existing : AssociateProposal(q)
                /\ v.declared = "AVAILABLE" => v.read = targetPods(v.listed, v.uid)
                /\ v.locks = "AVAILABLE" => v.found = v.read
                /\ v.materialized = "EMPTY" => v.found = {}

(* A behavioural verification reported as within its recorded validity is  *)
(* about a Pod that lived while the projection was assembled and about the *)
(* workload shown, and the candidate it verified was the approved one when *)
(* the proposals were read: not a fact of a replaced Pod, nor of a         *)
(* candidate that has been replaced since.                                 *)
FreshMeansCurrent ==
    \A r \in Requests : \A q \in view[r].fresh :
        /\ q.fact.wl = view[r].uid /\ q.fact.digest = q.digest
        /\ \E p \in req[r].live : p.uid = q.fact.pod

(* A projection overstates neither what it read nor how fresh it is.       *)
ProjectionNotOverstated == SectionsNotOverstated /\ FreshMeansCurrent

(* The pages a client gets by following the continuations of a collection  *)
(* list every object that its selector matches and that existed when the   *)
(* first page was read, each of them once, whatever has changed since; no  *)
(* page of another selector or environment is mixed in.                    *)
PagesFollow ==
    \A r \in Requests :
        LET q == req[r]
            v == view[r]
        IN  q.kind \in Collections /\ q.answer = "OK" =>
                /\ v.shown \cap q.token.seen = {}
                /\ v.complete => v.shown \cup q.token.seen = shownOf(q.kind, v.rv, q.want)

(* The lineage shown is exact.  A policy answer names only proposals all   *)
(* of whose observations are of the selected workload, and a complete one  *)
(* none less of those whose observations existed when it began to read;    *)
(* the attempts shown for a proposal, or the rollbacks for an attempt, are *)
(* those of the object with that UID, not of an earlier one of its name.   *)
LineageExact ==
    \A r \in Requests :
        LET q == req[r]
            v == view[r]
            ours(x) == /\ x.from # {} /\ \A o \in x.from : obs[o].wl = q.want.wl
        IN  q.answer = "OK" =>
                /\ q.kind = "policy" =>
                       /\ \A x \in v.shown : ours(x)
                       /\ v.complete /\ q.token = NoToken =>
                              \A x \in v.existing :
                                  x.readable /\ ours(x) /\ x.from \subseteq {y.id : y \in v.before}
                                      => x \in v.shown
                /\ q.kind = "attempts" =>
                       /\ \A a \in v.shown : a.proposal = q.uid
                       /\ v.complete /\ q.token = NoToken =>
                              {a \in v.before : a.source = 0 /\ a.proposal = q.uid} \subseteq v.shown
                /\ q.kind = "rollbacks" => \A a \in v.shown : a.source = q.uid

(* Every request is answered: also one that waits for a discovery led by   *)
(* another request, whose client may disconnect in the meantime.           *)
EveryRequestAnswered ==
    \A r \in Requests : Active(r) ~> At(r, "done")
=============================================================================
