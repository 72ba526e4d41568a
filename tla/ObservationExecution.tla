------------------------ MODULE ObservationExecution --------------------------
(***************************************************************************)
(* How an Observation is really executed: executor processes that scan,    *)
(* recover, claim and run observations; inside each, the Runner, its lease *)
(* renewer and the durable-stop watcher, which run concurrently; operators *)
(* that request a stop through the API; and the Kubernetes status          *)
(* subresource all of them write with a resourceVersion compare-and-set.   *)
(*                                                                         *)
(* Every store operation of the code is a Get, checks on what was read,    *)
(* and one UpdateStatus, so every operation is (at least) two steps here.  *)
(* Wall-clock time is abstracted to "this lease has run out".              *)
(***************************************************************************)
EXTENDS Observation

CONSTANTS
    Observations,   \* names of Observation objects
    Requesters,     \* operators that may ask for a stop
    MaxFaults,      \* bound: crashes, shutdowns, API errors, lost answers, failed resolutions
    MaxRenewals,    \* bound: lease renewals per run
    Stalls          \* may a lease run out although its runner is still at work?

ASSUME BoundsAssumption ==
    MaxFaults \in Nat /\ MaxRenewals \in Nat /\ Stalls \in BOOLEAN

VARIABLES
    rec,        \* rec[o]: the persisted document
    rv,         \* rv[o]: its metadata.resourceVersion
    expired,    \* expired[o]: status.execution.leaseExpiry has passed
    proc,       \* proc[e]: the executor process
    run,        \* run[e]: its worker loop and the active Runner.Run
    lease,      \* lease[e]: the lease renewal goroutine of that run
    req,        \* req[q]: a stop request in flight
    faults      \* faults spent

vars == <<rec, rv, expired, proc, run, lease, req, faults>>

------------------------------------------------------------------------------
(* Program counters                                                         *)

UpdateOps == {"bind", "failure", "result", "final"}
TransitionOps ==
    {"running", "fail", "completing", "complete", "stopCompleting", "stopComplete"}
Ops == UpdateOps \cup TransitionOps

\* Before the claim is held the Runner has no authority over the record.
Unclaimed == {"idle", "recoverCAS", "claim", "claimCAS"}
Local ==
    {"load", "bindFailed", "attach", "startFailed", "window", "drain",
     "loadFailure", "loadStop", "loadResult", "loadFinal"}
PC == Unclaimed \cup Local \cup Ops

\* The statement that follows a successful write.
Successor ==
    [op \in Ops |->
        CASE op = "bind"       -> "attach"
          [] op = "running"    -> "window"
          [] op = "failure"    -> "fail"
          [] op = "result"     -> "completing"
          [] op = "completing" -> "loadFinal"
          [] op = "final"      -> "complete"
          [] op = "stopCompleting" -> "stopComplete"
          [] op \in {"fail", "complete", "stopComplete"} -> "idle"]

\* The state a TransitionExecution asks for.
NextState ==
    [op \in TransitionOps |->
        CASE op = "running" -> "RUNNING"
          [] op = "fail"    -> "FAILED"
          [] op \in {"completing", "stopCompleting"} -> "COMPLETING"
          [] op \in {"complete", "stopComplete"}     -> "COMPLETED"]

Idle ==
    [pc |-> "idle", obs |-> Nobody, claim |-> NoClaim, held |-> 0, doc |-> Absent,
     granted |-> FALSE, cancelled |-> FALSE, seen |-> FALSE, stop |-> FALSE,
     stage |-> None, reason |-> None, failed |-> FALSE, events |-> FALSE]

NoRenewal == [pc |-> "off", held |-> 0, doc |-> Absent, retry |-> FALSE, count |-> 0]

NoRequest == [pc |-> "idle", obs |-> Nobody, held |-> 0, doc |-> Absent]

Engaged(e) == run[e].pc \notin Unclaimed

Init ==
    /\ rec = [o \in Observations |-> Absent]
    /\ rv = [o \in Observations |-> 0]
    /\ expired = [o \in Observations |-> FALSE]
    /\ proc = [e \in Executors |-> "up"]
    /\ run = [e \in Executors |-> Idle]
    /\ lease = [e \in Executors |-> NoRenewal]
    /\ req = [q \in Requesters |-> NoRequest]
    /\ faults = 0

------------------------------------------------------------------------------
(* The API server                                                           *)

\* Broken variant: the last writer wins.
MatchesAnything(o, held) == TRUE

\* UpdateStatus succeeds only against the resourceVersion it names.
Matches(o, held) == rv[o] = held

Put(o, d) ==
    /\ rec' = [rec EXCEPT ![o] = d]
    /\ rv' = [rv EXCEPT ![o] = @ + 1]

\* A write whose answer is lost, or that never arrived.
Uncertain(o, held, d) ==
    \/ Matches(o, held) /\ Put(o, d)
    \/ UNCHANGED <<rec, rv>>

Fault == faults < MaxFaults /\ faults' = faults + 1

LeaseLive(o) == ~expired[o]

Goto(e, r) == run' = [run EXCEPT ![e] = r]

CreateObservation(o) ==
    /\ rec[o].state = "ABSENT"
    /\ Put(o, NewObservation)
    /\ UNCHANGED <<expired, proc, run, lease, req, faults>>

\* Time passes the lease of a claimed record that nobody renewed.
LeaseRunsOut(o) ==
    /\ rec[o].claim # NoClaim /\ ~Frozen(rec[o]) /\ ~expired[o]
    /\ Stalls \/ \A e \in Executors : Engaged(e) => run[e].obs # o
    /\ expired' = [expired EXCEPT ![o] = TRUE]
    /\ UNCHANGED <<rec, rv, proc, run, lease, req, faults>>

------------------------------------------------------------------------------
(* Worker loop: scan, recovery, claim                                       *)

\* Broken variant: recovery only looks at observations that opened a window.
ListedAfterStart(o) == rec[o].state \in {"RUNNING", "COMPLETING"}

Listed(o) == rec[o].state \notin {"ABSENT", "REQUESTED"} \cup Terminal

RecoveryEligible(o) ==
    /\ ~Frozen(rec[o])
    /\ rec[o].claim.executor # Nobody
    /\ ~LeaseLive(o)

RecoverRead(e, o) ==
    /\ proc[e] = "up" /\ run[e].pc = "idle"
    /\ Listed(o) /\ RecoveryEligible(o)
    /\ Goto(e, [Idle EXCEPT !.pc = "recoverCAS", !.obs = o, !.held = rv[o],
                            !.doc = ExecutorLost(rec[o])])
    /\ UNCHANGED <<rec, rv, expired, proc, lease, req, faults>>

\* A lost race is ignored; any other error ends the process.
RecoverWrite(e) ==
    LET r == run[e] IN
    /\ r.pc = "recoverCAS"
    /\ Goto(e, Idle)
    /\ \/ /\ IF Matches(r.obs, r.held) THEN Put(r.obs, r.doc) ELSE UNCHANGED <<rec, rv>>
          /\ UNCHANGED <<proc, faults>>
       \/ /\ Fault
          /\ Uncertain(r.obs, r.held, r.doc)
          /\ proc' = [proc EXCEPT ![e] = "down"]
    /\ UNCHANGED <<expired, lease, req>>

\* A failing List or cluster identity lookup makes the worker return.
ScanFails(e) ==
    /\ proc[e] = "up" /\ run[e].pc = "idle"
    /\ Fault
    /\ proc' = [proc EXCEPT ![e] = "down"]
    /\ UNCHANGED <<rec, rv, expired, run, lease, req>>

\* nextRequested picked o from a List; the Runner starts on it.
Start(e, o) ==
    /\ proc[e] = "up" /\ run[e].pc = "idle"
    /\ rec[o].state = "REQUESTED"
    /\ Goto(e, [Idle EXCEPT !.pc = "claim", !.obs = o])
    /\ UNCHANGED <<rec, rv, expired, proc, lease, req, faults>>

Claimable(o) == rec[o].state = "REQUESTED" /\ rec[o].claim.executor = Nobody

ClaimRead(e) ==
    LET o == run[e].obs IN
    /\ run[e].pc = "claim"
    /\ \/ /\ Claimable(o)
          /\ Goto(e, [run[e] EXCEPT !.pc = "claimCAS", !.held = rv[o],
                                    !.doc = Claimed(rec[o], e)])
          /\ UNCHANGED faults
       \/ ~Claimable(o) /\ Goto(e, Idle) /\ UNCHANGED faults
       \/ Fault /\ Goto(e, Idle)
    /\ UNCHANGED <<rec, rv, expired, proc, lease, req>>

\* The winner holds the claim and the resourceVersion of its own write.
ClaimWrite(e) ==
    LET r == run[e]
        o == run[e].obs
        Win == Put(o, r.doc) /\ expired' = [expired EXCEPT ![o] = FALSE]
    IN
    /\ r.pc = "claimCAS"
    /\ \/ /\ Matches(o, r.held) /\ Win
          /\ Goto(e, [r EXCEPT !.pc = "load", !.claim = r.doc.claim,
                               !.held = rv[o] + 1, !.doc = Absent])
          /\ UNCHANGED faults
       \/ /\ ~Matches(o, r.held) /\ Goto(e, Idle)
          /\ UNCHANGED <<rec, rv, expired, faults>>
       \/ /\ Fault /\ Goto(e, Idle)
          /\ (Matches(o, r.held) /\ Win) \/ UNCHANGED <<rec, rv, expired>>
    /\ UNCHANGED <<proc, lease, req>>

------------------------------------------------------------------------------
(* Fenced store operations: UpdateExecutorStatus and TransitionExecution    *)

\* authority(): the caller's resourceVersion, its claim, a live lease.
Authority(o, claim, held) ==
    /\ Matches(o, held)
    /\ rec[o].claim = claim
    /\ ~Frozen(rec[o])
    /\ LeaseLive(o)

\* Broken variant: a failed source does not change the reason.
FinalReasonOfWindow(r) ==
    CASE r.pc = "fail"         -> "BACKEND_FAILURE"
      [] r.pc = "complete"     -> r.reason
      [] r.pc = "stopComplete" -> "STOPPED_BY_REQUEST"
      [] OTHER                 -> None

\* BackendFailure replaces the reason the window ended with.
FinalReason(r) ==
    CASE r.pc = "fail"         -> "BACKEND_FAILURE"
      [] r.pc = "complete"     -> IF r.failed THEN "BACKEND_FAILURE" ELSE r.reason
      [] r.pc = "stopComplete" -> "STOPPED_BY_REQUEST"
      [] OTHER                 -> None

\* An update may not move the state or drop target history; a transition
\* must follow the domain graph.
Permitted(r) ==
    LET d == rec[r.obs] IN
    IF r.pc \in UpdateOps
    THEN r.doc.state = d.state /\ (d.changes => r.doc.changes)
    ELSE validExecutionTransition(d.state, NextState[r.pc])

\* An update writes the caller's document, a transition the one just read.
OpDocument(r) ==
    IF r.pc \in UpdateOps THEN r.doc
    ELSE Transition(rec[r.obs], NextState[r.pc], FinalReason(r))

\* What the Runner does when a store operation returns an error: two places
\* look for a stop request first, everywhere else Run returns and the record
\* is left as it is.
AfterError(r) ==
    CASE r.pc = "bind" -> [r EXCEPT !.pc = "bindFailed", !.granted = FALSE,
                                    !.doc = Absent, !.held = 0]
      [] r.pc = "running" -> [r EXCEPT !.pc = "startFailed", !.granted = FALSE,
                                       !.doc = Absent, !.held = 0]
      [] OTHER -> Idle

\* Broken variant: the resourceVersion of the write is not kept.
AfterWriteStale(r) ==
    IF Successor[r.pc] = "idle" THEN Idle
    ELSE [r EXCEPT !.pc = Successor[r.pc], !.doc = Absent, !.granted = FALSE]

AfterWrite(r) ==
    IF Successor[r.pc] = "idle" THEN Idle
    ELSE [r EXCEPT !.pc = Successor[r.pc], !.held = rv[r.obs] + 1,
                   !.doc = Absent, !.granted = FALSE]

\* The lease renewer starts after RUNNING is durable.
StartRenewal(e) ==
    lease' = IF run[e].pc = "running"
             THEN [lease EXCEPT ![e] = [NoRenewal EXCEPT !.pc = "idle"]]
             ELSE lease

OpRead(e) ==
    LET r == run[e] IN
    /\ r.pc \in Ops /\ ~r.granted
    /\ \/ /\ Authority(r.obs, r.claim, r.held) /\ Permitted(r)
          /\ Goto(e, [r EXCEPT !.granted = TRUE, !.doc = OpDocument(r)])
          /\ UNCHANGED faults
       \/ /\ ~(Authority(r.obs, r.claim, r.held) /\ Permitted(r))
          /\ Goto(e, AfterError(r))
          /\ UNCHANGED faults
       \/ Fault /\ Goto(e, AfterError(r))
    /\ UNCHANGED <<rec, rv, expired, proc, lease, req>>

OpWrite(e) ==
    LET r == run[e] IN
    /\ r.pc \in Ops /\ r.granted
    /\ \/ /\ Matches(r.obs, r.held) /\ Put(r.obs, r.doc)
          /\ Goto(e, AfterWrite(r)) /\ StartRenewal(e)
          /\ UNCHANGED faults
       \/ /\ ~Matches(r.obs, r.held)
          /\ Goto(e, AfterError(r))
          /\ UNCHANGED <<rec, rv, lease, faults>>
       \/ /\ Fault /\ Uncertain(r.obs, r.held, r.doc)
          /\ Goto(e, AfterError(r))
          /\ UNCHANGED lease
    /\ UNCHANGED <<expired, proc, req>>

------------------------------------------------------------------------------
(* Runner.Run between its store operations                                  *)

\* A local step of the Runner: the store is only read.
Step(e, from, r) ==
    /\ run[e].pc = from
    /\ Goto(e, r)
    /\ UNCHANGED <<rec, rv, expired, proc, req>>

\* The document is read now but fenced by the resourceVersion of the claim.
Load(e) ==
    LET r == run[e]
        d == rec[run[e].obs]
    IN
    /\ \/ /\ Step(e, "load", IF Frozen(d) \/ d.bound THEN Idle
                             ELSE [r EXCEPT !.pc = "bind", !.doc = Bind(d)])
          /\ UNCHANGED faults
       \/ /\ Step(e, "load", [r EXCEPT !.pc = "loadFailure", !.held = 0,
                                       !.stage = "TARGET_BINDING"])
          /\ UNCHANGED faults
       \/ Fault /\ Step(e, "load", Idle)
    /\ UNCHANGED lease

LoadStopFrom(r) == [r EXCEPT !.pc = "loadStop", !.held = 0]

BindFailed(e) ==
    LET r == run[e] IN
    /\ \/ /\ Step(e, "bindFailed", IF rec[r.obs].stop.requested \/ r.stop
                                   THEN LoadStopFrom(r) ELSE Idle)
          /\ UNCHANGED faults
       \/ Fault /\ Step(e, "bindFailed", IF r.stop THEN LoadStopFrom(r) ELSE Idle)
    /\ UNCHANGED lease

\* Sources attach, or one reports an error, the startup deadline passes or
\* the context is cancelled.
Attach(e) ==
    LET r == run[e] IN
    /\ \/ Step(e, "attach", [r EXCEPT !.pc = "running"])
       \/ Step(e, "attach", IF r.stop THEN LoadStopFrom(r)
                            ELSE [r EXCEPT !.pc = "loadFailure", !.held = 0,
                                           !.stage = "GADGET_ATTACH"])
    /\ UNCHANGED <<lease, faults>>

StartFailed(e) ==
    LET r == run[e] IN
    /\ Step(e, "startFailed", IF r.stop THEN LoadStopFrom(r) ELSE Idle)
    /\ UNCHANGED <<lease, faults>>

\* The monitor reports changes that do not end the window.
TargetsChange(e) ==
    LET r == run[e] IN
    /\ ~r.events
    /\ Step(e, "window", [r EXCEPT !.events = TRUE])
    /\ UNCHANGED <<lease, faults>>

\* The window ends: a terminal target change, or deadline or cancellation.
\* Any cancelled context counts as a stop request here.
WindowEnds(e) ==
    LET r == run[e] IN
    /\ \/ \E reason \in TargetReasons :
            Step(e, "window", [r EXCEPT !.pc = "drain", !.held = 0,
                                        !.reason = reason, !.events = TRUE])
       \/ Step(e, "window", [r EXCEPT !.pc = "drain", !.held = 0, !.reason =
                             IF r.cancelled THEN "STOPPED_BY_REQUEST" ELSE "COMPLETED"])
    /\ UNCHANGED <<lease, faults>>

\* A failed renewal abandons the run without any further write.
LeaseLost(e) ==
    /\ lease[e].pc = "failed"
    /\ Step(e, "window", Idle)
    /\ lease' = [lease EXCEPT ![e] = NoRenewal]
    /\ UNCHANGED faults

\* Sources return, with or without an error, and the renewer is joined.
Drain(e) ==
    /\ lease[e].pc \notin {"cas", "again"}
    /\ \E failed \in BOOLEAN :
        Step(e, "drain", [run[e] EXCEPT !.pc = "loadResult", !.failed = failed])
    /\ lease' = [lease EXCEPT ![e] = NoRenewal]
    /\ UNCHANGED faults

Attribution(r) == IF r.failed THEN "FAILED" ELSE "COMPLETED"

\* Re-read the record and compute the next document from it; a frozen record
\* refuses every domain mutation.
Reload(e, from, next, d) ==
    LET r == run[e] IN
    /\ \/ /\ Step(e, from, IF Frozen(rec[r.obs]) THEN Idle
                           ELSE [r EXCEPT !.pc = next, !.held = rv[r.obs], !.doc = d])
          /\ UNCHANGED faults
       \/ Fault /\ Step(e, from, Idle)
    /\ UNCHANGED lease

LoadFailure(e) ==
    Reload(e, "loadFailure", "failure", RecordFailure(rec[run[e].obs], run[e].stage))

\* A source with more facts than a result may carry counts as a fault.
LoadResult(e) ==
    Reload(e, "loadResult", "result",
           RecordSourceResult(AppendTargetChange(rec[run[e].obs], run[e].events),
                              Attribution(run[e])))

LoadFinal(e) ==
    Reload(e, "loadFinal", "final",
           RecordSourceResult(rec[run[e].obs], Attribution(run[e])))

LoadStop(e) ==
    LET r == run[e] IN
    /\ \/ /\ Step(e, "loadStop", [r EXCEPT !.pc = "stopCompleting", !.held = rv[r.obs]])
          /\ UNCHANGED faults
       \/ Fault /\ Step(e, "loadStop", Idle)
    /\ UNCHANGED lease

------------------------------------------------------------------------------
(* The lease renewer, concurrent with the window and the drain              *)

Renewable(o, claim) ==
    /\ rec[o].claim = claim
    /\ ~Frozen(rec[o])
    /\ LeaseLive(o)

\* RenewLease re-reads: the resourceVersion it was given is not used.
RenewRead(e) ==
    LET l == lease[e]
        o == run[e].obs
    IN
    /\ \/ l.pc = "idle" /\ l.count < MaxRenewals
       \/ l.pc = "again"
    /\ \/ /\ Renewable(o, run[e].claim)
          /\ lease' = [lease EXCEPT ![e] =
                [pc |-> "cas", held |-> rv[o], doc |-> rec[o], retry |-> l.pc = "again",
                 count |-> IF l.pc = "idle" THEN l.count + 1 ELSE l.count]]
          /\ UNCHANGED faults
       \/ /\ ~Renewable(o, run[e].claim)
          /\ lease' = [lease EXCEPT ![e] = [NoRenewal EXCEPT !.pc = "failed"]]
          /\ UNCHANGED faults
       \/ Fault /\ lease' = [lease EXCEPT ![e] = [NoRenewal EXCEPT !.pc = "failed"]]
    /\ UNCHANGED <<rec, rv, expired, proc, run, req>>

\* One resourceVersion race is forgiven, after a fresh read.
RenewWrite(e) ==
    LET l == lease[e]
        o == run[e].obs
        Extend == Put(o, l.doc) /\ expired' = [expired EXCEPT ![o] = FALSE]
        Become(pc) == lease' = [lease EXCEPT ![e] =
                                  [NoRenewal EXCEPT !.pc = pc, !.count = l.count]]
    IN
    /\ l.pc = "cas"
    /\ \/ Matches(o, l.held) /\ Extend /\ Become("idle") /\ UNCHANGED faults
       \/ /\ ~Matches(o, l.held)
          /\ Become(IF l.retry THEN "failed" ELSE "again")
          /\ UNCHANGED <<rec, rv, expired, faults>>
       \/ /\ Fault /\ Become("failed")
          /\ (Matches(o, l.held) /\ Extend) \/ UNCHANGED <<rec, rv, expired>>
    /\ UNCHANGED <<proc, run, req>>

------------------------------------------------------------------------------
(* Durable stop: the API records intent, the watcher consumes it            *)

\* Broken variant: a second request replaces the recorded intent.
StopEligibleAgain(o) ==
    CanRequestStop(rec[o]) /\ (rec[o].claim.executor # Nobody => LeaseLive(o))

StopEligible(o) ==
    /\ CanRequestStop(rec[o])
    /\ ~rec[o].stop.requested
    /\ rec[o].claim.executor # Nobody => LeaseLive(o)

RequestRead(q, o) ==
    /\ req[q].pc = "idle"
    /\ StopEligible(o)
    /\ req' = [req EXCEPT ![q] = [pc |-> "cas", obs |-> o, held |-> rv[o],
                                  doc |-> RequestStop(rec[o])]]
    /\ UNCHANGED <<rec, rv, expired, proc, run, lease, faults>>

\* A conflict is reported to the operator, who may ask again.
RequestWrite(q) ==
    LET r == req[q] IN
    /\ r.pc = "cas"
    /\ req' = [req EXCEPT ![q] = NoRequest]
    /\ \/ /\ IF Matches(r.obs, r.held) THEN Put(r.obs, r.doc) ELSE UNCHANGED <<rec, rv>>
          /\ UNCHANGED faults
       \/ Fault /\ UNCHANGED <<rec, rv>>
    /\ UNCHANGED <<expired, proc, run, lease>>

\* Broken variant: the fence is checked but not that an intent exists.
StopRequestedUnread(o, claim) ==
    /\ ~Frozen(rec[o]) /\ rec[o].claim = claim /\ LeaseLive(o)
    /\ rec[o].stop.fence \in {NoClaim, claim}

\* StopRequestedForClaim: only the live holder of the claim consumes an
\* intent, and only one that is unbound or made under this very claim.
StopRequestedForClaim(o, claim) ==
    /\ ~Frozen(rec[o])
    /\ rec[o].claim = claim
    /\ LeaseLive(o)
    /\ rec[o].stop.requested
    /\ rec[o].stop.fence \in {NoClaim, claim}

WatchRead(e) ==
    LET r == run[e] IN
    /\ Engaged(e) /\ ~r.cancelled /\ ~r.seen
    /\ StopRequestedForClaim(r.obs, r.claim)
    /\ Goto(e, [r EXCEPT !.seen = TRUE])
    /\ UNCHANGED <<rec, rv, expired, proc, lease, req, faults>>

WatchStop(e) ==
    LET r == run[e] IN
    /\ r.seen /\ ~r.stop
    /\ Goto(e, [r EXCEPT !.stop = TRUE, !.cancelled = TRUE])
    /\ UNCHANGED <<rec, rv, expired, proc, lease, req, faults>>

------------------------------------------------------------------------------
(* Processes                                                                *)

\* The worker's context is cancelled; it cancels the active run and waits.
Shutdown(e) ==
    /\ proc[e] = "up"
    /\ Fault
    /\ proc' = [proc EXCEPT ![e] = "stopping"]
    /\ run' = IF run[e].pc \in {"idle", "recoverCAS"} THEN run
              ELSE [run EXCEPT ![e].cancelled = TRUE]
    /\ UNCHANGED <<rec, rv, expired, lease, req>>

Exit(e) ==
    /\ proc[e] = "stopping" /\ run[e].pc = "idle"
    /\ proc' = [proc EXCEPT ![e] = "down"]
    /\ UNCHANGED <<rec, rv, expired, run, lease, req, faults>>

\* A crash, or a shutdown whose wait ran out: everything local is lost.
Kill(e) ==
    /\ proc[e] # "down"
    /\ IF proc[e] = "stopping" THEN UNCHANGED faults ELSE Fault
    /\ proc' = [proc EXCEPT ![e] = "down"]
    /\ run' = [run EXCEPT ![e] = Idle]
    /\ lease' = [lease EXCEPT ![e] = NoRenewal]
    /\ UNCHANGED <<rec, rv, expired, req>>

------------------------------------------------------------------------------

\* What a live process does as long as it is scheduled.
RunnerStep(e) ==
    \/ ClaimRead(e) \/ ClaimWrite(e) \/ RecoverWrite(e)
    \/ OpRead(e) \/ OpWrite(e)
    \/ Load(e) \/ BindFailed(e) \/ Attach(e) \/ StartFailed(e)
    \/ WindowEnds(e) \/ LeaseLost(e) \/ Drain(e)
    \/ LoadFailure(e) \/ LoadResult(e) \/ LoadFinal(e) \/ LoadStop(e)

RenewStep(e) == RenewRead(e) \/ RenewWrite(e)

Scan(e) == \E o \in Observations : RecoverRead(e, o) \/ Start(e, o)

ExecutorStep(e) ==
    \/ RunnerStep(e) \/ RenewStep(e) \/ Scan(e)
    \/ TargetsChange(e) \/ WatchRead(e) \/ WatchStop(e)
    \/ ScanFails(e) \/ Shutdown(e) \/ Exit(e) \/ Kill(e)

Next ==
    \/ \E e \in Executors : ExecutorStep(e)
    \/ \E o \in Observations : CreateObservation(o) \/ LeaseRunsOut(o)
    \/ \E q \in Requesters : RequestWrite(q) \/ \E o \in Observations : RequestRead(q, o)

Spec == Init /\ [][Next]_vars

------------------------------------------------------------------------------
(* Fairness: a live process keeps being scheduled, a window has a deadline, *)
(* sources honour cancellation, and clocks advance past an abandoned lease. *)
(* Nothing obliges operators to ask, leases to stall or faults to happen.   *)

Fairness ==
    /\ \A e \in Executors : WF_vars(RunnerStep(e)) /\ WF_vars(RenewStep(e)) /\ WF_vars(Scan(e))
    /\ \A o \in Observations : WF_vars(LeaseRunsOut(o))

FairSpec == Spec /\ Fairness

------------------------------------------------------------------------------
(* Properties                                                               *)

RunState ==
    [pc : PC, obs : Observations \cup {Nobody}, claim : Claim, held : Nat,
     doc : Document, granted : BOOLEAN, cancelled : BOOLEAN, seen : BOOLEAN,
     stop : BOOLEAN, stage : FailureStage \cup {None},
     reason : CompletionReason \cup {None}, failed : BOOLEAN, events : BOOLEAN]

LeaseState ==
    [pc : {"off", "idle", "cas", "again", "failed"}, held : Nat, doc : Document,
     retry : BOOLEAN, count : Nat]

RequestState ==
    [pc : {"idle", "cas"}, obs : Observations \cup {Nobody}, held : Nat, doc : Document]

\* Every variable of the executor model has the shape the code gives it.
TypeOK ==
    /\ rec \in [Observations -> Document]
    /\ rv \in [Observations -> Nat]
    /\ expired \in [Observations -> BOOLEAN]
    /\ proc \in [Executors -> {"up", "stopping", "down"}]
    /\ run \in [Executors -> RunState]
    /\ lease \in [Executors -> LeaseState]
    /\ req \in [Requesters -> RequestState]
    /\ faults \in Nat

\* Whoever believes it is executing an observation holds the claim persisted
\* in the record, so no two processes execute the same one, however claims,
\* lost answers, expiries and recovery interleave (ClaimObservation).
ClaimHeld ==
    \A e \in Executors : Engaged(e) =>
        /\ run[e].claim.executor = e
        /\ rec[run[e].obs].claim = run[e].claim

\* What no write may do to a record, whatever older read it was computed from
\* (encodeStatusWithClaim rewrites the whole status): a terminal record never
\* changes again (casStatus, Frozen); a claim never moves to another executor
\* or generation; a durable stop intent, once accepted, survives; and recovery
\* never takes a record whose lease is live at the moment of the write, even
\* when the holder renews between recovery's read and its write
\* (TerminalizeExecutorLost against RenewLease).
RecordKept ==
    [][\A o \in Observations :
        /\ Frozen(rec[o]) => rec'[o] = rec[o]
        /\ rec[o].claim # NoClaim => rec'[o].claim = rec[o].claim
        /\ rec[o].stop.requested => rec'[o].stop = rec[o].stop
        /\ (rec'[o].completion = "EXECUTOR_LOST" /\ rec[o].completion # "EXECUTOR_LOST")
               => expired[o]]_vars

\* The local stop flag is raised only for an intent that is in the record
\* and was unbound or made under the flag holder's own claim
\* (StopRequestedForClaim, watchDurableStop).
StopFlagJustified ==
    \A e \in Executors : run[e].seen \/ run[e].stop =>
        LET d == rec[run[e].obs] IN
        d.stop.requested /\ d.stop.fence \in {NoClaim, run[e].claim}

\* What a process believes of its claim and of a stop is what the record says.
BeliefsHold == ClaimHeld /\ StopFlagJustified

\* The terminal outcome claims no more than the record supports: results
\* exist only for a bound, opened window; a completion reason agrees with
\* the recorded attribution, target history and stop intent; a failure
\* always carries its diagnostic (Runner.Run's result and failure writes).
OutcomeSupported ==
    \A o \in Observations :
        LET d == rec[o] IN
        /\ d.result # None => d.bound /\ d.started
        /\ d.state = "FAILED" => d.failure # None
        /\ d.state = "COMPLETED" =>
            \/ /\ d.completion = "STOPPED_BY_REQUEST"
               /\ d.stop.requested \/ d.result = "COMPLETED"
            \/ d.completion = "BACKEND_FAILURE" /\ d.result = "FAILED"
            \/ d.completion = "COMPLETED" /\ d.result = "COMPLETED"
            \/ d.completion \in TargetReasons /\ d.result = "COMPLETED" /\ d.changes

\* The record and its expired lease, without versions, processes and reads.
Lifecycle == INSTANCE ObservationLifecycle WITH rec <- rec, expired <- expired

\* Every write to the record, whatever stale read it was computed from, is
\* one atomic legal step of the lifecycle on the current record.
ImplementsLifecycle == Lifecycle!Spec

\* Every requested observation reaches a terminal record as long as one
\* executor process survives: through the runner, or through lease expiry
\* and recovery when a run was abandoned.
EventuallyTerminal ==
    \A o \in Observations : (rec[o].state = "REQUESTED") ~> Frozen(rec[o])

\* When no lease runs out under its runner, no request fails and nobody asks
\* for a stop, no run is written off as EXECUTOR_LOST: the runner's own
\* writes and renewals, and the other executor's scans and claims, do not get
\* in each other's way.
HealthyRunsAreNotLost ==
    \A o \in Observations :
        ~Stalls /\ faults = 0 /\ ~rec[o].stop.requested => rec[o].completion # "EXECUTOR_LOST"

\* docs/product/operations-center/ux-v09/observation-lifecycle.md:20-23: an
\* accepted stop ends with the executor freezing the record; an observation
\* with a stop intent is not written off while its executor is healthy.
StopEndsInFinalization ==
    \A o \in Observations :
        rec[o].stop.requested => rec[o].completion # "EXECUTOR_LOST"
==============================================================================
