---------------------------- MODULE TrainingHistory ----------------------------
(***************************************************************************)
(* TrainingHistory records and contribution receipts (internal/history).   *)
(* Tracers fold training runs into a record; callers of ApplyContribution  *)
(* move the facts of a completed observation into a record exactly once,   *)
(* with two objects and no transaction: a receipt goes PREPARED, the       *)
(* record takes facts, provenance and a marker in one write, the receipt   *)
(* goes COMMITTED, and the marker is removed.  Every request may fail, lose *)
(* its answer or be the last one of its process.                           *)
(***************************************************************************)
EXTENDS Naturals, FiniteSets, Sequences, SequencesExt

CONSTANTS
    Facts, Exec,       \* behaviour facts, and the exec facts among them
    Images,            \* image identities of training runs; "" is unknown
    Observations,
    Callers,           \* processes that contribute an observation
    JobOf,             \* caller -> the observation as it presents it
    Tracers,           \* processes that run trace --history
    MaxReads,          \* receiptInitializationReadAttempts, convergence reads
    MaxAttempts,       \* attempts of a read and compare-and-swap loop
    MaxProvenance, MaxMarkers,   \* capacity of a population's metadata
    MaxRuns,           \* bound: training runs
    MaxFaults          \* bound: failed requests, lost answers, deaths

VARIABLES
    hist,      \* record name -> TrainingHistory
    receipts,  \* observation -> ObservationContributionReceipt
    call,      \* caller -> locals of ApplyContribution
    save,      \* tracer -> locals of saveWithPopulationMerge
    log,       \* history: record name, image -> the runs merged into that population, in order
    effects,   \* history: observation -> merges of its facts
    faults

vars == <<hist, receipts, call, save, log, effects, faults>>
-----------------------------------------------------------------------------
(* Records.                                                                *)

Names == {"v2", "legacy", "container"}
Known == CHOOSE i \in Images : i # ""

\* A population: runs counted, how many of them saw each fact, the facts
\* recorded, the observations listed as provenance, and pending markers.
Population == [there : BOOLEAN, runs : Nat, seen : [Facts -> Nat], facts : SUBSET Facts,
               contributions : SUBSET Observations, markers : SUBSET Observations]
NoPopulation == [there |-> FALSE, runs |-> 0, seen |-> [f \in Facts |-> 0], facts |-> {},
                 contributions |-> {}, markers |-> {}]

\* runsRecorded counts the runs of qualified populations, unless the record
\* holds data from before populations existed.
Record == [rv : Nat, legacyFacts : BOOLEAN, runsRecorded : Nat, populations : [Images -> Population]]
NoRecord == [rv |-> 0, legacyFacts |-> FALSE, runsRecorded |-> 0,
             populations |-> [i \in Images |-> NoPopulation]]
LegacyRecord == [NoRecord EXCEPT !.rv = 1, !.legacyFacts = TRUE, !.runsRecorded = 1]
Exists(r) == r.rv # 0

Qualified(image) == image # ""

\* fromUnstructured validates the identity of every population it decodes.
Readable(r) == \A i \in Images : r.populations[i].there => Qualified(i)

\* The locator of a binary population; a container population has its own.
RecordName(scope) ==
    IF scope = "CONTAINER" THEN "container"
    ELSE IF Exists(hist["v2"]) THEN "v2"
    ELSE IF Exists(hist["legacy"]) THEN "legacy" ELSE "v2"

Bump(m, f, run) == IF f \in run THEN m[f] + 1 ELSE m[f]

mergeBehaviorIntoPopulation(p, run) ==
    [p EXCEPT !.there = TRUE, !.runs = @ + 1, !.facts = @ \cup run,
              !.seen = [f \in Facts |-> Bump(@, f, run)]]

mergePopulation(r, image, run) ==
    LET legacy == \/ r.legacyFacts
                  \/ r.runsRecorded > 0 /\ \A i \in Images : ~r.populations[i].there
        merged == [r EXCEPT !.populations[image] = mergeBehaviorIntoPopulation(@, run)]
    IN  IF legacy THEN merged
        ELSE [merged EXCEPT !.runsRecorded = merged.populations[Known].runs]

\* addContributionFacts, the provenance entry and the marker: one write.
addContribution(p, o, facts) ==
    [p EXCEPT !.there = TRUE, !.facts = @ \cup facts,
              !.contributions = @ \cup {o}, !.markers = @ \cup {o}]

\* Mutant: two recorded runs and one sighting are enough.
confidenceByCount(seen, runs) == IF runs >= 2 /\ seen >= 1 THEN "high" ELSE "low"

confidenceForHistory(seen, runs) ==
    CASE seen > runs -> "low"
      [] runs >= 2 /\ seen = runs -> "high"
      [] runs >= 2 /\ seen * 2 >= runs /\ seen < runs -> "medium"
      [] OTHER -> "low"

\* Facts are deduplicated and sorted before they are digested.
normalize(facts) == Range(facts)
contentDigest(facts) == normalize(facts)

\* Exec facts are provenance only.
ContributionFromObservation(job) == SelectSeq(job.facts, LAMBDA f : f \notin Exec)
Digest(c) == contentDigest(ContributionFromObservation(JobOf[c]))
Contributed(c) == Range(ContributionFromObservation(JobOf[c]))

\* Only a frozen, completed observation contributes.
EligibleForContribution(job) == job.state = "COMPLETED"

\* One known image identity; whoever presents an observation presents the
\* scope its spec has.
ASSUME HistoryAssumption ==
    /\ \E i \in Images : i # "" /\ Images \subseteq {i, ""}
    /\ \A c \in Callers : JobOf[c].obs \in Observations /\ Contributed(c) \subseteq Facts
    /\ \A c, d \in Callers : JobOf[c].obs = JobOf[d].obs => JobOf[c].scope = JobOf[d].scope
    /\ MaxReads \in Nat /\ MaxAttempts \in Nat /\ MaxRuns \in Nat /\ MaxFaults \in Nat
-----------------------------------------------------------------------------
(* Receipts and locals.                                                    *)

\* "created": the object exists and its status is not set yet.
Receipt == [state : {"none", "created", "PREPARED", "COMMITTED"}, rv : Nat,
            digest : SUBSET Facts]
NoReceipt == [state |-> "none", rv |-> 0, digest |-> {}]

Call == [pc : {"idle", "receipt", "create", "init", "read", "confirm", "write",
               "commitRead", "commitWrite", "commitAgain", "cleanRead", "cleanWrite"},
         name : Names, held : Record, rv : Nat, reads : Nat, attempts : Nat,
         corrupt : BOOLEAN]    \* the call ended with errProvenanceWithoutMarker
NoCall == [pc |-> "idle", name |-> "v2", held |-> NoRecord, rv |-> 0, reads |-> 0,
           attempts |-> 0, corrupt |-> FALSE]

Save == [pc : {"idle", "read", "write"}, image : Images, run : SUBSET Facts, name : Names,
         held : Record, attempts : Nat,
         report : {<<>>} \cup (Nat \X [Facts -> {"low", "medium", "high"}])]
NoSave == [pc |-> "idle", image |-> Known, run |-> {}, name |-> "v2", held |-> NoRecord,
           attempts |-> 0, report |-> <<>>]

Obs(c) == JobOf[c].obs
Become(c, r) == call' = [call EXCEPT ![c] = r]
Goto(r, pc) == [r EXCEPT !.pc = pc, !.reads = 0]
\* Every result and error but one: the next call starts from scratch.
Return == NoCall

NoFault == UNCHANGED faults
Fault == faults < MaxFaults /\ faults' = faults + 1

Init ==
    /\ hist \in {[n \in Names |-> NoRecord], [[n \in Names |-> NoRecord] EXCEPT !["legacy"] = LegacyRecord]}
    /\ receipts = [o \in Observations |-> NoReceipt]
    /\ call = [c \in Callers |-> NoCall]
    /\ save = [t \in Tracers |-> NoSave]
    /\ log = [n \in Names |-> [i \in Images |-> <<>>]]
    /\ effects = [o \in Observations |-> 0]
    /\ faults = 0
-----------------------------------------------------------------------------
(* trace --history.                                                        *)

StartRun(t) ==
    /\ save[t].pc = "idle"
    /\ \E run \in SUBSET (Facts \ Exec), i \in Images :
          save' = [save EXCEPT ![t] = [NoSave EXCEPT !.pc = "read", !.run = run, !.image = i]]
    /\ \A n \in Names, i \in Images : Len(log[n][i]) < MaxRuns
    /\ UNCHANGED <<hist, receipts, call, log, effects, faults>>

SaveRead(t) ==
    /\ save[t].pc = "read"
    /\ LET s == save[t]
           n == RecordName("BINARY")
       IN  save' = [save EXCEPT ![t] =
             IF Readable(hist[n]) THEN [s EXCEPT !.pc = "write", !.name = n, !.held = hist[n]]
             ELSE NoSave]
    /\ UNCHANGED <<hist, receipts, call, log, effects, faults>>

\* The confidence reported comes from the record the server returned.
Report(p) == <<p.runs, [f \in Facts |-> confidenceForHistory(p.seen[f], p.runs)]>>

\* Create or update under the version that was read; a conflict (or
\* AlreadyExists) starts over from the reads.  The answer may be lost.
SaveWrite(t) ==
    LET s == save[t]
        same == hist[s.name].rv = s.held.rv
        new == [mergePopulation(s.held, s.image, s.run) EXCEPT !.rv = hist[s.name].rv + 1]
        again == IF s.attempts + 1 < MaxAttempts
                 THEN [s EXCEPT !.pc = "read", !.attempts = @ + 1, !.held = NoRecord] ELSE NoSave
    IN  /\ s.pc = "write"
        /\ \/ /\ same
              /\ hist' = [hist EXCEPT ![s.name] = new]
              /\ log' = [log EXCEPT ![s.name][s.image] = Append(@, s.run)]
              /\ \/ /\ NoFault
                    /\ save' = [save EXCEPT ![t] =
                         IF Readable(new) THEN [NoSave EXCEPT !.report = Report(new.populations[s.image])]
                         ELSE NoSave]
                 \/ Fault /\ save' = [save EXCEPT ![t] = NoSave]
           \/ /\ ~same /\ NoFault
              /\ save' = [save EXCEPT ![t] = again]
              /\ UNCHANGED <<hist, log>>
        /\ UNCHANGED <<receipts, call, effects>>

SaveFails(t) ==
    /\ save[t].pc # "idle" /\ Fault
    /\ save' = [save EXCEPT ![t] = NoSave]
    /\ UNCHANGED <<hist, receipts, call, log, effects>>
-----------------------------------------------------------------------------
(* ApplyContribution.                                                      *)

Begin(c) ==
    /\ call[c].pc = "idle" /\ EligibleForContribution(JobOf[c])
    /\ Become(c, [NoCall EXCEPT !.pc = "receipt", !.name = RecordName(JobOf[c].scope)])
    /\ UNCHANGED <<hist, receipts, save, log, effects, faults>>

\* Polling a receipt while its status is not set.
GetAfterInitialization(c) ==
    /\ call[c].pc = "receipt"
    /\ LET r == call[c]
           x == receipts[Obs(c)]
       IN  Become(c,
             CASE x.state = "none" -> Goto(r, "create")
               [] x.state = "created" ->
                    IF r.reads + 1 < MaxReads THEN [r EXCEPT !.reads = @ + 1] ELSE Return
               [] OTHER -> IF x.digest # Digest(c) THEN Return
                           ELSE IF x.state = "COMMITTED" THEN Return
                           ELSE Goto([r EXCEPT !.rv = x.rv], "read"))
    /\ UNCHANGED <<hist, receipts, save, log, effects, faults>>

\* Write the receipt; the caller goes on with next or never hears of it.
PutReceipt(c, x, next) ==
    /\ receipts' = [receipts EXCEPT ![Obs(c)] = x]
    /\ \/ NoFault /\ Become(c, next)
       \/ Fault /\ Become(c, Return)
    /\ UNCHANGED <<hist, save, log, effects>>

CreatePrepared(c) ==
    /\ call[c].pc = "create"
    /\ \/ /\ receipts[Obs(c)].state = "none"
          /\ PutReceipt(c, [state |-> "created", rv |-> 1, digest |-> Digest(c)], Goto(call[c], "init"))
       \/ /\ receipts[Obs(c)].state # "none"
          /\ Become(c, Goto(call[c], "receipt"))
          /\ UNCHANGED <<hist, receipts, save, log, effects, faults>>

\* The status subresource is written by a second request.
InitReceipt(c) ==
    /\ call[c].pc = "init"
    /\ PutReceipt(c, [receipts[Obs(c)] EXCEPT !.state = "PREPARED", !.rv = 2],
                  [Goto(call[c], "read") EXCEPT !.rv = 2])

\* Mutants: neither marker nor provenance is looked at; a marker is an error.
ReadHistoryUnchecked(c) ==
    /\ call[c].pc = "read"
    /\ Become(c, [Goto(call[c], "write") EXCEPT !.held = hist[call[c].name]])
    /\ UNCHANGED <<hist, receipts, save, log, effects, faults>>
ReadHistoryRefusingMarker(c) ==
    /\ call[c].pc = "read"
    /\ LET x == hist[call[c].name]
       IN  Become(c, IF Obs(c) \in x.populations[Known].markers THEN Return
                     ELSE IF Obs(c) \in x.populations[Known].contributions THEN Goto(call[c], "confirm")
                     ELSE [Goto(call[c], "write") EXCEPT !.held = x])
    /\ UNCHANGED <<hist, receipts, save, log, effects, faults>>

\* The head of applyHistoryEffect: marker, capacities, provenance.
ReadHistory(c) ==
    /\ call[c].pc = "read"
    /\ LET r == call[c]
           x == hist[r.name]
           p == x.populations[Known]
           o == Obs(c)
           full == Cardinality(p.contributions) >= MaxProvenance \/ Cardinality(p.markers) >= MaxMarkers
       IN  Become(c, IF ~Readable(x) THEN Return
                     ELSE IF o \in p.markers THEN Goto(r, "commitRead")
                     ELSE IF full THEN Return
                     ELSE IF o \in p.contributions THEN Goto(r, "confirm")
                     ELSE [Goto(r, "write") EXCEPT !.held = x])
    /\ UNCHANGED <<hist, receipts, save, log, effects, faults>>

\* Provenance without a marker: a committed receipt explains it, anything
\* else is reported as corruption.
ConfirmReceipt(c) ==
    /\ call[c].pc = "confirm"
    /\ LET r == call[c]
           x == receipts[Obs(c)]
       IN  Become(c,
             CASE x.state = "COMMITTED" -> IF x.digest = Digest(c) THEN Goto(r, "commitRead") ELSE Return
               [] x.state = "PREPARED" /\ r.reads + 1 < MaxReads -> [r EXCEPT !.reads = @ + 1]
               [] OTHER -> [NoCall EXCEPT !.corrupt = TRUE])
    /\ UNCHANGED <<hist, receipts, save, log, effects, faults>>

\* Mutant: the write does not carry the version that was read.
PutHistoryBlind(c, new, next, again) ==
    /\ hist' = [hist EXCEPT ![call[c].name] = [new EXCEPT !.rv = hist[call[c].name].rv + 1]]
    /\ NoFault /\ Become(c, next)
    /\ UNCHANGED <<receipts, save, log>>

\* One write of a read and compare-and-swap loop on the record.
PutHistory(c, new, next, again) ==
    LET r == call[c]
        same == hist[r.name].rv = r.held.rv
        stored == [new EXCEPT !.rv = hist[r.name].rv + 1]
        retry == [Goto(r, again) EXCEPT !.attempts = @ + 1, !.held = NoRecord]
    IN  /\ \/ /\ same /\ hist' = [hist EXCEPT ![r.name] = stored]
              /\ \/ NoFault /\ Become(c, next)
                 \/ Fault /\ Become(c, Return)
           \/ /\ ~same /\ UNCHANGED hist /\ NoFault
              /\ Become(c, IF r.attempts + 1 < MaxAttempts THEN retry ELSE Return)
        /\ UNCHANGED <<receipts, save, log>>

WriteHistory(c) ==
    LET r == call[c]
        o == Obs(c)
    IN  /\ r.pc = "write"
        /\ PutHistory(c, [r.held EXCEPT !.populations[Known] = addContribution(@, o, Contributed(c))],
                      [Goto(r, "commitRead") EXCEPT !.held = NoRecord, !.attempts = 0],
                      "read")
        /\ effects' = [effects EXCEPT ![o] = IF hist' = hist THEN @ ELSE @ + 1]

CommitRead(c) ==
    /\ call[c].pc = "commitRead"
    /\ LET x == receipts[Obs(c)]
       IN  Become(c, CASE x.state = "created" -> Return
                       [] x.state = "COMMITTED" ->
                            IF x.digest = Digest(c) THEN Goto(call[c], "cleanRead") ELSE Return
                       [] OTHER -> Goto(call[c], "commitWrite"))
    /\ UNCHANGED <<hist, receipts, save, log, effects, faults>>

\* The write carries the version the receipt had when the call began.
CommitWrite(c) ==
    /\ call[c].pc = "commitWrite"
    /\ \/ /\ receipts[Obs(c)].rv = call[c].rv
          /\ PutReceipt(c, [receipts[Obs(c)] EXCEPT !.state = "COMMITTED", !.rv = @ + 1],
                        Goto(call[c], "cleanRead"))
       \/ /\ receipts[Obs(c)].rv # call[c].rv
          /\ Become(c, Goto(call[c], "commitAgain"))
          /\ UNCHANGED <<hist, receipts, save, log, effects, faults>>

\* A conflict is benign when the receipt is committed with this content.
CommitAfterConflict(c) ==
    /\ call[c].pc = "commitAgain"
    /\ LET x == receipts[Obs(c)]
       IN  Become(c, IF x.state = "COMMITTED" /\ x.digest = Digest(c)
                     THEN Goto(call[c], "cleanRead") ELSE Return)
    /\ UNCHANGED <<hist, receipts, save, log, effects, faults>>

CleanRead(c) ==
    /\ call[c].pc = "cleanRead"
    /\ LET r == call[c]
           x == hist[r.name]
       IN  Become(c, IF ~Readable(x) \/ ~x.populations[Known].there THEN Return
                     ELSE IF Obs(c) \notin x.populations[Known].markers THEN Return
                     ELSE [Goto(r, "cleanWrite") EXCEPT !.held = x])
    /\ UNCHANGED <<hist, receipts, save, log, effects, faults>>

cleanupContributionMarker(c) ==
    LET r == call[c]
    IN  /\ r.pc = "cleanWrite"
        /\ PutHistory(c, [r.held EXCEPT !.populations[Known].markers = @ \ {Obs(c)}],
                      Return, "cleanRead")
        /\ UNCHANGED effects

\* A request fails without effect, or the process dies between two.
CallFails(c) ==
    /\ call[c].pc # "idle" /\ Fault
    /\ Become(c, Return)
    /\ UNCHANGED <<hist, receipts, save, log, effects>>
-----------------------------------------------------------------------------
Contribute(c) ==
    \/ Begin(c) \/ GetAfterInitialization(c) \/ CreatePrepared(c) \/ InitReceipt(c)
    \/ ReadHistory(c) \/ ConfirmReceipt(c) \/ WriteHistory(c)
    \/ CommitRead(c) \/ CommitWrite(c) \/ CommitAfterConflict(c)
    \/ CleanRead(c) \/ cleanupContributionMarker(c)

Trace(t) == SaveRead(t) \/ SaveWrite(t)

Next ==
    \/ \E c \in Callers : Contribute(c) \/ CallFails(c)
    \/ \E t \in Tracers : StartRun(t) \/ Trace(t) \/ SaveFails(t)

Spec == Init /\ [][Next]_vars

\* Callers retry: generate-proposal applies the contribution on every call,
\* and an operator repeats a call that failed.
FairSpec == Spec /\ \A c \in Callers : WF_vars(Contribute(c))
-----------------------------------------------------------------------------
(* Properties.                                                             *)

TypeOK ==
    /\ hist \in [Names -> Record]
    /\ receipts \in [Observations -> Receipt]
    /\ call \in [Callers -> Call]
    /\ DOMAIN save = Tracers
    /\ \A t \in Tracers : save[t].pc \in {"idle", "read", "write"} /\ save[t].held \in Record
    /\ log \in [Names -> [Images -> Seq(SUBSET Facts)]]
    /\ effects \in [Observations -> Nat]

\* The population a contribution of c goes to.
Holding(c) == {n \in Names : Obs(c) \in hist[n].populations[Known].contributions}

\* Exactly once, across retries, duplicates and crashes: the facts of an
\* observation are merged at most once, into one record, with the content
\* its receipt is bound to; the receipt is COMMITTED only when they are
\* there, and until then a marker lets the next call recover.  A concurrent
\* equivalent call is never mistaken for corruption on the way: none ends
\* with errProvenanceWithoutMarker.
AppliedExactlyOnce ==
    \A c \in Callers :
        LET o == Obs(c)
            x == receipts[o]
        IN  /\ effects[o] =< 1 /\ Cardinality(Holding(c)) = effects[o]
            /\ x.state = "COMMITTED" => effects[o] = 1
            /\ ~call[c].corrupt
            /\ \A n \in Holding(c) :
                  /\ x.digest \subseteq hist[n].populations[Known].facts
                  /\ x.state # "COMMITTED" => o \in hist[n].populations[Known].markers

Times(runs, f) == Cardinality({k \in DOMAIN runs : f \in runs[k]})

\* The callers whose content was merged into the record named n: the receipt
\* of their observation is bound to it.
Contributors(n) == {c \in Callers : n \in Holding(c) /\ Digest(c) = receipts[Obs(c)].digest}
ContributedTo(n) == UNION {Contributed(c) : c \in Contributors(n)}

\* No lost update: although contributions, marker cleanups and training runs
\* rewrite the same object from what they read, every run that was merged is
\* counted, once, in the population of its image, and every fact of a
\* population comes from a merged run or a listed observation.
NothingLost ==
    TypeOK /\ \A n \in Names, i \in Images :
        LET p == hist[n].populations[i]
        IN  /\ p.runs = Len(log[n][i])
            /\ \A f \in Facts : p.seen[f] = Times(log[n][i], f)
            /\ p.facts = {f \in Facts : Times(log[n][i], f) > 0}
                         \cup (IF i = Known THEN ContributedTo(n) ELSE {})

\* "high" is reported only for a fact that every run counted in the report
\* saw, and the report counts the reporting run; contributed facts raise no
\* confidence.
ConfidenceEarned ==
    \A t \in Tracers : save[t].report # <<>> =>
        \E n \in Names, i \in Images : \E k \in DOMAIN log[n][i] :
            /\ save[t].report[1] = k
            /\ \A f \in Facts : save[t].report[2][f] = "high" =>
                  k >= 2 /\ \A j \in 1 .. k : f \in log[n][i][j]

\* A prepared contribution is committed, whatever fails on the way, as long
\* as its callers retry.
PreparedIsCommitted ==
    \A o \in Observations : receipts[o].state = "PREPARED" ~> receipts[o].state = "COMMITTED"
=============================================================================
