------------------------ MODULE TrainingHistoryProofs ------------------------
(* What the training history guarantees for any number of records' runs,      *)
(* observations, callers, tracers and faults: an observation's facts are      *)
(* merged exactly once, no merged run or fact is lost, and no confidence is   *)
(* reported that the runs do not bear out.  The invariant ties the two        *)
(* objects of a contribution together: provenance in the record an            *)
(* observation belongs to says that its facts were merged, and a marker       *)
(* stays beside it until the receipt is COMMITTED.                            *)
EXTENDS TrainingHistory, FiniteSetTheorems, TLAPS

-----------------------------------------------------------------------------
(* The invariant                                                               *)

Types ==
    /\ hist \in [Names -> Record]
    /\ receipts \in [Observations -> Receipt]
    /\ call \in [Callers -> Call]
    /\ save \in [Tracers -> Save]
    /\ log \in [Names -> [Images -> Seq(SUBSET Facts)]]
    /\ effects \in [Observations -> Nat]

\* The record of a binary population never changes its name: a legacy record
\* keeps new ones from being made.
Home(scope, legacy) == IF scope = "CONTAINER" THEN "container" ELSE IF Exists(legacy) THEN "legacy" ELSE "v2"
HomeOf(c) == Home(JobOf[c].scope, hist["legacy"])

OneBinaryRecord == Exists(hist["legacy"]) => ~Exists(hist["v2"])

\* Whoever holds h holds the stored record x as long as the versions agree.
Holds(h, x) == h.rv <= x.rv /\ (h.rv = x.rv => h = x)

\* The receipt x of observation o, the merges e of its facts and the
\* population p they belong to.
Linked(o, x, e, p) ==
    /\ e \in {0, 1}
    /\ x.state \in {"none", "created"} => e = 0
    /\ x.state = "PREPARED" <=> x.rv = 2
    /\ x.state = "COMMITTED" => e = 1
    /\ o \in p.contributions <=> e = 1
    /\ o \in p.markers => e = 1
    /\ e = 1 => x.digest \subseteq p.facts
    /\ e = 1 /\ x.state # "COMMITTED" => o \in p.markers

ContributionOK(c) ==
    /\ Linked(Obs(c), receipts[Obs(c)], effects[Obs(c)], hist[HomeOf(c)].populations[Known])
    /\ \A n \in Names \ {HomeOf(c)} : Obs(c) \notin hist[n].populations[Known].contributions

BoundPcs == {"read", "confirm", "write", "commitRead", "commitWrite", "commitAgain", "cleanRead", "cleanWrite"}
MergedPcs == {"confirm", "commitRead", "commitWrite", "commitAgain", "cleanRead", "cleanWrite"}
CommittedPcs == {"confirm", "cleanRead", "cleanWrite"}

\* A call of observation o with content d whose record is stored as h.
CallOK(r, o, d, home, x, e, h) ==
    /\ ~r.corrupt
    /\ r.pc # "idle" => r.name = home
    /\ r.pc = "init" => x.state = "created" /\ x.digest = d
    /\ r.pc \in BoundPcs => x.state \in {"PREPARED", "COMMITTED"} /\ x.digest = d /\ r.rv = 2
    /\ r.pc \in MergedPcs => e = 1
    /\ r.pc \in CommittedPcs => x.state = "COMMITTED"
    /\ r.pc \in {"write", "cleanWrite"} => Holds(r.held, h)
    /\ r.pc = "write" => o \notin r.held.populations[Known].contributions

CallerOK(c) ==
    CallOK(call[c], Obs(c), Digest(c), HomeOf(c), receipts[Obs(c)], effects[Obs(c)], hist[HomeOf(c)])

\* Only the creator of a receipt sets its status.
OneInitializer ==
    \A c, d \in Callers : (call[c].pc = "init" /\ call[d].pc = "init" /\ Obs(c) = Obs(d)) => c = d

TracerOK(t) ==
    save[t].pc = "write" => /\ save[t].name = Home("BINARY", hist["legacy"])
                            /\ Holds(save[t].held, hist[save[t].name])

\* A report rests on the first k runs of a population.
Earned(report, runs) ==
    \E k \in DOMAIN runs :
        /\ report[1] = k
        /\ \A f \in Facts : report[2][f] = "high" => k >= 2 /\ \A j \in 1 .. k : f \in runs[j]

ReportOK(t) == save[t].report # <<>> => \E n \in Names, i \in Images : Earned(save[t].report, log[n][i])

\* A population p counts the runs of a log, and holds their facts and g.
Counted(p, runs, g) ==
    /\ p.runs = Len(runs)
    /\ \A f \in Facts : p.seen[f] = Times(runs, f)
    /\ p.facts = {f \in Facts : Times(runs, f) > 0} \cup g

Given(n, i) == IF i = Known THEN ContributedTo(n) ELSE {}

Ledger ==
    /\ OneBinaryRecord
    /\ \A c \in Callers : ContributionOK(c) /\ CallerOK(c)
    /\ OneInitializer
    /\ \A t \in Tracers : TracerOK(t) /\ ReportOK(t)
    /\ \A n \in Names, i \in Images : Counted(hist[n].populations[i], log[n][i], Given(n, i))

\* The inductive invariant.
Inv == Types /\ Ledger

-----------------------------------------------------------------------------
(* Values                                                                      *)

LEMMA KnownImage == Known \in Images /\ Known # ""
BY HistoryAssumption DEF Known

LEMMA ObsType ==
  ASSUME NEW c \in Callers
  PROVE  Obs(c) \in Observations /\ Digest(c) = Contributed(c) /\ Digest(c) \in SUBSET Facts
BY HistoryAssumption DEF Obs, Digest, Contributed, contentDigest, normalize

LEMMA NoRecordType == NoRecord \in Record /\ NoRecord.rv = 0
<1>1. NoPopulation \in Population
  BY DEF NoPopulation, Population
<1> QED BY <1>1 DEF NoRecord, Record

LEMMA LegacyRecordType ==
  /\ LegacyRecord \in Record /\ LegacyRecord.rv = 1
  /\ LegacyRecord.populations = NoRecord.populations
BY NoRecordType DEF LegacyRecord, Record

LEMMA NoCallType == NoCall \in Call /\ NoCall.pc = "idle" /\ ~NoCall.corrupt
BY NoRecordType DEF NoCall, Call, Names

LEMMA NoSaveType == NoSave \in Save /\ NoSave.pc = "idle" /\ NoSave.report = <<>>
BY NoRecordType, KnownImage DEF NoSave, Save, Names

LEMMA RecordFields ==
  ASSUME NEW r \in Record
  PROVE  /\ r.rv \in Nat /\ r.legacyFacts \in BOOLEAN /\ r.runsRecorded \in Nat
         /\ r.populations \in [Images -> Population] /\ r.populations[Known] \in Population
BY KnownImage DEF Record

LEMMA PopulationFields ==
  ASSUME NEW p \in Population
  PROVE  /\ p.there \in BOOLEAN /\ p.runs \in Nat /\ p.seen \in [Facts -> Nat] /\ p.facts \in SUBSET Facts
         /\ p.contributions \in SUBSET Observations /\ p.markers \in SUBSET Observations
BY DEF Population

LEMMA CallFields ==
  ASSUME NEW r \in Call
  PROVE  /\ r.name \in Names /\ r.held \in Record /\ r.rv \in Nat /\ r.reads \in Nat /\ r.attempts \in Nat
         /\ r.corrupt \in BOOLEAN
BY DEF Call

LEMMA SaveFields ==
  ASSUME NEW s \in Save
  PROVE  /\ s.pc \in {"idle", "read", "write"} /\ s.image \in Images /\ s.run \in SUBSET Facts /\ s.name \in Names
         /\ s.held \in Record /\ s.attempts \in Nat
BY DEF Save

\* Home yields the name of a record.
LEMMA HomeType ==
  ASSUME NEW c
  PROVE  HomeOf(c) \in Names /\ Home("BINARY", hist["legacy"]) \in Names
BY DEF HomeOf, Home, Names

\* What the code computes is the home.
LEMMA RecordNameIsHome ==
  ASSUME Inv, NEW scope
  PROVE  RecordName(scope) = Home(scope, hist["legacy"])
BY DEF Inv, Ledger, OneBinaryRecord, RecordName, Home

-----------------------------------------------------------------------------
(* What survives a change                                                      *)

\* A receipt only moves on, and its content is fixed when it is created.
Advances(x, x2) ==
    /\ x.state \in {"PREPARED", "COMMITTED"} => x2.state \in {"PREPARED", "COMMITTED"}
    /\ x.state = "COMMITTED" => x2.state = "COMMITTED"
    /\ x.state # "none" => x2.digest = x.digest

\* A call that does not move is not disturbed by others.
LEMMA CallKept ==
  ASSUME NEW r \in Call, NEW o, NEW d, NEW home, NEW x \in Receipt, NEW x2 \in Receipt, NEW e, NEW e2,
         NEW h \in Record, NEW h2 \in Record,
         CallOK(r, o, d, home, x, e, h), Advances(x, x2), e = 1 => e2 = 1,
         h2 = h \/ h2.rv = h.rv + 1,
         r.pc = "init" => x2 = x
  PROVE  CallOK(r, o, d, home, x2, e2, h2)
<1>1. r.held \in Record /\ r.held.rv \in Nat /\ h.rv \in Nat
  BY CallFields, RecordFields
<1>2. Holds(r.held, h) => Holds(r.held, h2)
  BY <1>1 DEF Holds
<1>3. r.pc \in BoundPcs => x2.state \in {"PREPARED", "COMMITTED"} /\ x2.digest = d /\ r.rv = 2
  BY DEF CallOK, Advances
<1>4. r.pc \in CommittedPcs => x2.state = "COMMITTED"
  BY DEF CallOK, Advances
<1> QED BY <1>2, <1>3, <1>4 DEF CallOK

\* What a write of a population may not do to an observation it is not about.
Keeps(o, p, p2) ==
    /\ o \in p2.contributions <=> o \in p.contributions
    /\ p.facts \subseteq p2.facts
    /\ o \in p2.markers <=> o \in p.markers

LEMMA LinkedKept ==
  ASSUME NEW o, NEW x, NEW e, NEW p, NEW p2, Linked(o, x, e, p), Keeps(o, p, p2)
  PROVE  Linked(o, x, e, p2)
BY DEF Linked, Keeps

\* Where the facts of an observation are.
LEMMA HoldingIs ==
  ASSUME Inv, NEW c \in Callers, NEW n \in Names
  PROVE  n \in Holding(c) <=> (n = HomeOf(c) /\ effects[Obs(c)] = 1)
BY DEF Inv, Ledger, ContributionOK, Linked, Holding

-----------------------------------------------------------------------------
(* Steps that move one call                                                    *)

\* What caller c knows.
LEMMA Knows ==
  ASSUME Inv, NEW c \in Callers
  PROVE  /\ call[c] \in Call /\ receipts[Obs(c)] \in Receipt /\ hist[HomeOf(c)] \in Record
         /\ Obs(c) \in Observations /\ HomeOf(c) \in Names
         /\ CallOK(call[c], Obs(c), Digest(c), HomeOf(c), receipts[Obs(c)], effects[Obs(c)], hist[HomeOf(c)])
         /\ Linked(Obs(c), receipts[Obs(c)], effects[Obs(c)], hist[HomeOf(c)].populations[Known])
<1>1. Obs(c) \in Observations /\ HomeOf(c) \in Names
  BY ObsType, HomeType
<1> QED BY <1>1 DEF Inv, Types, Ledger, CallerOK, ContributionOK

\* A step of caller c that only moves the call.
LEMMA QuietStep ==
  ASSUME Inv, NEW c \in Callers, NEW d \in Call, call' = [call EXCEPT ![c] = d],
         UNCHANGED <<hist, receipts, save, log, effects>>, d.pc # "init",
         CallOK(d, Obs(c), Digest(c), HomeOf(c), receipts[Obs(c)], effects[Obs(c)], hist[HomeOf(c)])
  PROVE  Inv'
<1>1. Types /\ Ledger
  BY DEF Inv
<1>2. /\ hist' = hist /\ receipts' = receipts /\ save' = save /\ log' = log /\ effects' = effects
  OBVIOUS
<1>3. call' \in [Callers -> Call]
  BY <1>1 DEF Types
<1>4. Types'
  BY <1>1, <1>2, <1>3 DEF Types
<1>5. OneBinaryRecord' /\ \A t \in Tracers : TracerOK(t)' /\ ReportOK(t)'
  BY <1>1, <1>2 DEF Ledger, OneBinaryRecord, TracerOK, ReportOK
<1>6. \A b \in Callers : ContributionOK(b)'
  BY <1>1, <1>2 DEF Ledger, ContributionOK, HomeOf
<1>7. ASSUME NEW b \in Callers PROVE CallerOK(b)'
  <2>1. HomeOf(b)' = HomeOf(b)
    BY <1>2 DEF HomeOf
  <2>2. CASE b = c
    <3>1. call'[b] = d
      BY <1>1, <2>2 DEF Types
    <3> QED BY <1>2, <2>1, <2>2, <3>1 DEF CallerOK
  <2>3. CASE b # c
    <3>1. call'[b] = call[b] /\ CallerOK(b)
      BY <1>1, <2>3 DEF Types, Ledger
    <3> QED BY <1>2, <2>1, <3>1 DEF CallerOK
  <2> QED BY <2>2, <2>3
<1>8. OneInitializer'
  <2> SUFFICES ASSUME NEW a \in Callers, NEW b \in Callers, call'[a].pc = "init", call'[b].pc = "init", Obs(a) = Obs(b)
               PROVE  a = b
    BY DEF OneInitializer
  <2>1. a # c /\ b # c
    BY <1>1 DEF Types
  <2>2. call[a].pc = "init" /\ call[b].pc = "init"
    BY <1>1, <2>1 DEF Types
  <2> QED BY <1>1, <2>2 DEF Ledger, OneInitializer
<1>9. ASSUME NEW n \in Names, NEW i \in Images
      PROVE  Counted(hist'[n].populations[i], log'[n][i], Given(n, i)')
  <2>1. Given(n, i)' = Given(n, i)
    BY <1>2 DEF Given, ContributedTo, Contributors, Holding
  <2>2. Counted(hist[n].populations[i], log[n][i], Given(n, i))
    BY <1>1 DEF Ledger
  <2> QED BY <1>2, <2>1, <2>2
<1>10. Ledger'
  BY <1>5, <1>6, <1>7, <1>8, <1>9 DEF Ledger
<1> QED BY <1>4, <1>10 DEF Inv

\* A call that is over satisfies everything.
LEMMA IdleOK ==
  ASSUME NEW o, NEW d, NEW home, NEW x, NEW e, NEW h
  PROVE  NoCall \in Call /\ NoCall.pc # "init" /\ CallOK(NoCall, o, d, home, x, e, h)
BY NoCallType DEF CallOK, BoundPcs, MergedPcs, CommittedPcs

LEMMA QuietReturn ==
  ASSUME Inv, NEW c \in Callers, Become(c, Return), UNCHANGED <<hist, receipts, save, log, effects>>
  PROVE  Inv'
<1>1. call' = [call EXCEPT ![c] = NoCall]
  BY DEF Become, Return
<1>2. /\ NoCall \in Call /\ NoCall.pc # "init"
      /\ CallOK(NoCall, Obs(c), Digest(c), HomeOf(c), receipts[Obs(c)], effects[Obs(c)], hist[HomeOf(c)])
  BY IdleOK
<1> QED BY <1>1, <1>2, QuietStep

\* Where a call goes with Goto.
LEMMA GotoFields ==
  ASSUME NEW r \in Call,
         NEW l \in {"idle", "receipt", "create", "init", "read", "confirm", "write",
                    "commitRead", "commitWrite", "commitAgain", "cleanRead", "cleanWrite"}
  PROVE  /\ Goto(r, l) \in Call /\ Goto(r, l).pc = l /\ Goto(r, l).name = r.name /\ Goto(r, l).rv = r.rv
         /\ Goto(r, l).held = r.held /\ Goto(r, l).corrupt = r.corrupt /\ Goto(r, l).attempts = r.attempts
BY DEF Goto, Call

LEMMA BeginStep ==
  ASSUME Inv, NEW c \in Callers, Begin(c)
  PROVE  Inv'
<1>1. PICK n : n = RecordName(JobOf[c].scope)
  OBVIOUS
<1>2. n = HomeOf(c) /\ n \in Names
  BY <1>1, RecordNameIsHome, HomeType DEF HomeOf
<1>3. PICK d : d = [NoCall EXCEPT !.pc = "receipt", !.name = n]
  OBVIOUS
<1>4. call' = [call EXCEPT ![c] = d] /\ UNCHANGED <<hist, receipts, save, log, effects>>
  BY <1>1, <1>3 DEF Begin, Become
<1>5. d \in Call /\ d.pc = "receipt" /\ d.name = n /\ ~d.corrupt
  BY <1>2, <1>3, NoCallType DEF Call
<1>6. CallOK(d, Obs(c), Digest(c), HomeOf(c), receipts[Obs(c)], effects[Obs(c)], hist[HomeOf(c)])
  BY <1>2, <1>5 DEF CallOK, BoundPcs, MergedPcs, CommittedPcs
<1> QED BY <1>4, <1>5, <1>6, QuietStep

LEMMA GetStep ==
  ASSUME Inv, NEW c \in Callers, GetAfterInitialization(c)
  PROVE  Inv'
<1>1. PICK r \in Call : r = call[c]
  BY Knows
<1>2. PICK x \in Receipt : x = receipts[Obs(c)]
  BY Knows
<1>3. r.pc = "receipt" /\ UNCHANGED <<hist, receipts, save, log, effects>>
  BY <1>1 DEF GetAfterInitialization
<1>4. /\ CallOK(r, Obs(c), Digest(c), HomeOf(c), x, effects[Obs(c)], hist[HomeOf(c)])
      /\ Linked(Obs(c), x, effects[Obs(c)], hist[HomeOf(c)].populations[Known])
  BY <1>1, <1>2, Knows
<1>5. r.name = HomeOf(c) /\ ~r.corrupt
  BY <1>3, <1>4 DEF CallOK
<1>6. x.state \in {"none", "created", "PREPARED", "COMMITTED"} /\ x.rv \in Nat
  BY <1>2 DEF Receipt
<1>7. \/ Become(c, Return)
      \/ Become(c, Goto(r, "create"))
      \/ Become(c, [r EXCEPT !.reads = @ + 1])
      \/ /\ x.state = "PREPARED" /\ x.digest = Digest(c)
         /\ Become(c, Goto([r EXCEPT !.rv = x.rv], "read"))
  BY <1>1, <1>2, <1>6 DEF GetAfterInitialization
<1>8. CASE Become(c, Goto(r, "create"))
  <2>1. PICK d \in Call : d = Goto(r, "create") /\ d.pc = "create" /\ d.name = r.name /\ d.corrupt = r.corrupt
    BY <1>1, GotoFields
  <2>2. CallOK(d, Obs(c), Digest(c), HomeOf(c), receipts[Obs(c)], effects[Obs(c)], hist[HomeOf(c)])
    BY <1>5, <2>1 DEF CallOK, BoundPcs, MergedPcs, CommittedPcs
  <2>3. call' = [call EXCEPT ![c] = d] /\ d.pc # "init"
    BY <1>8, <2>1 DEF Become
  <2> QED BY <1>3, <2>2, <2>3, QuietStep
<1>9. CASE Become(c, [r EXCEPT !.reads = @ + 1])
  <2>1. r.reads + 1 \in Nat
    BY <1>1, CallFields
  <2>2. PICK d : d = [r EXCEPT !.reads = @ + 1]
    OBVIOUS
  <2>3. d \in Call /\ d.pc = "receipt" /\ d.name = r.name /\ d.corrupt = r.corrupt
    BY <1>1, <1>3, <2>1, <2>2 DEF Call
  <2>4. CallOK(d, Obs(c), Digest(c), HomeOf(c), receipts[Obs(c)], effects[Obs(c)], hist[HomeOf(c)])
    BY <1>5, <2>3 DEF CallOK, BoundPcs, MergedPcs, CommittedPcs
  <2>5. call' = [call EXCEPT ![c] = d] /\ d.pc # "init"
    BY <1>9, <2>2, <2>3 DEF Become
  <2> QED BY <1>3, <2>3, <2>4, <2>5, QuietStep
<1>10. CASE /\ x.state = "PREPARED" /\ x.digest = Digest(c)
            /\ Become(c, Goto([r EXCEPT !.rv = x.rv], "read"))
  <2>1. PICK q : q = [r EXCEPT !.rv = x.rv]
    OBVIOUS
  <2>2. x.rv = 2
    BY <1>4, <1>10 DEF Linked
  <2>3. q \in Call /\ q.name = r.name /\ q.corrupt = r.corrupt /\ q.rv = 2
    BY <1>1, <2>1, <2>2 DEF Call
  <2>4. PICK d \in Call : d = Goto(q, "read") /\ d.pc = "read" /\ d.name = q.name /\ d.corrupt = q.corrupt /\ d.rv = q.rv
    BY <2>3, GotoFields
  <2>5. CallOK(d, Obs(c), Digest(c), HomeOf(c), receipts[Obs(c)], effects[Obs(c)], hist[HomeOf(c)])
    BY <1>2, <1>5, <1>10, <2>3, <2>4 DEF CallOK, BoundPcs, MergedPcs, CommittedPcs
  <2>6. call' = [call EXCEPT ![c] = d] /\ d.pc # "init"
    BY <1>10, <2>1, <2>4 DEF Become
  <2> QED BY <1>3, <2>5, <2>6, QuietStep
<1> QED BY <1>3, <1>7, <1>8, <1>9, <1>10, QuietReturn

\* A bound call that goes on to l within the protocol.
LEMMA BoundMove ==
  ASSUME Inv, NEW c \in Callers, call[c].pc \in BoundPcs, NEW l \in MergedPcs \ {"cleanWrite"},
         Become(c, Goto(call[c], l)), UNCHANGED <<hist, receipts, save, log, effects>>,
         effects[Obs(c)] = 1,
         l \in CommittedPcs => receipts[Obs(c)].state = "COMMITTED"
  PROVE  Inv'
<1>1. PICK r \in Call : r = call[c]
  BY Knows
<1>2. PICK d \in Call : d = Goto(r, l) /\ d.pc = l /\ d.name = r.name /\ d.corrupt = r.corrupt /\ d.rv = r.rv
  BY <1>1, GotoFields DEF MergedPcs
<1>3. CallOK(r, Obs(c), Digest(c), HomeOf(c), receipts[Obs(c)], effects[Obs(c)], hist[HomeOf(c)])
  BY <1>1, Knows
<1>4. /\ ~r.corrupt /\ r.name = HomeOf(c) /\ r.rv = 2
      /\ receipts[Obs(c)].state \in {"PREPARED", "COMMITTED"} /\ receipts[Obs(c)].digest = Digest(c)
  BY <1>1, <1>3 DEF CallOK, BoundPcs
<1>5. CallOK(d, Obs(c), Digest(c), HomeOf(c), receipts[Obs(c)], effects[Obs(c)], hist[HomeOf(c)])
  BY <1>2, <1>4 DEF CallOK, BoundPcs, MergedPcs, CommittedPcs
<1>6. call' = [call EXCEPT ![c] = d] /\ d.pc # "init"
  BY <1>1, <1>2 DEF Become, MergedPcs
<1> QED BY <1>5, <1>6, QuietStep

\* A bound call that has read the record x it belongs to and goes on to write.
LEMMA HoldMove ==
  ASSUME Inv, NEW c \in Callers, call[c].pc \in BoundPcs, NEW l \in {"write", "cleanWrite"},
         Become(c, [Goto(call[c], l) EXCEPT !.held = hist[call[c].name]]),
         UNCHANGED <<hist, receipts, save, log, effects>>,
         l = "write" => Obs(c) \notin hist[call[c].name].populations[Known].contributions,
         l = "cleanWrite" => effects[Obs(c)] = 1 /\ receipts[Obs(c)].state = "COMMITTED"
  PROVE  Inv'
<1>1. PICK r \in Call : r = call[c]
  BY Knows
<1>2. PICK q \in Call : q = Goto(r, l) /\ q.pc = l /\ q.name = r.name /\ q.corrupt = r.corrupt /\ q.rv = r.rv
  BY <1>1, GotoFields
<1>3. CallOK(r, Obs(c), Digest(c), HomeOf(c), receipts[Obs(c)], effects[Obs(c)], hist[HomeOf(c)])
  BY <1>1, Knows
<1>4. /\ ~r.corrupt /\ r.name = HomeOf(c) /\ r.rv = 2
      /\ receipts[Obs(c)].state \in {"PREPARED", "COMMITTED"} /\ receipts[Obs(c)].digest = Digest(c)
  BY <1>1, <1>3 DEF CallOK, BoundPcs
<1>5. PICK h \in Record : h = hist[HomeOf(c)]
  BY Knows
<1>6. PICK d : d = [q EXCEPT !.held = h]
  OBVIOUS
<1>7. d \in Call /\ d.pc = l /\ d.name = r.name /\ d.corrupt = r.corrupt /\ d.rv = r.rv /\ d.held = h
  BY <1>2, <1>6 DEF Call
<1>8. Holds(d.held, hist[HomeOf(c)])
  BY <1>5, <1>7, RecordFields DEF Holds
<1>9. CallOK(d, Obs(c), Digest(c), HomeOf(c), receipts[Obs(c)], effects[Obs(c)], hist[HomeOf(c)])
  BY <1>1, <1>4, <1>5, <1>7, <1>8 DEF CallOK, BoundPcs, MergedPcs, CommittedPcs
<1>10. call' = [call EXCEPT ![c] = d] /\ d.pc # "init"
  BY <1>1, <1>2, <1>4, <1>5, <1>6, <1>7 DEF Become
<1> QED BY <1>7, <1>9, <1>10, QuietStep

LEMMA ReadHistoryStep ==
  ASSUME Inv, NEW c \in Callers, ReadHistory(c)
  PROVE  Inv'
<1>1. UNCHANGED <<hist, receipts, save, log, effects>> /\ call[c].pc = "read" /\ call[c].pc \in BoundPcs
  BY DEF ReadHistory, BoundPcs
<1>2. call[c].name = HomeOf(c)
  BY <1>1, Knows DEF CallOK
<1>3. PICK p : p = hist[HomeOf(c)].populations[Known]
  OBVIOUS
<1>4. Linked(Obs(c), receipts[Obs(c)], effects[Obs(c)], p)
  BY <1>3, Knows
<1>5. \/ Become(c, Return)
      \/ Obs(c) \in p.markers /\ Become(c, Goto(call[c], "commitRead"))
      \/ Obs(c) \notin p.markers /\ Obs(c) \in p.contributions /\ Become(c, Goto(call[c], "confirm"))
      \/ Obs(c) \notin p.contributions /\ Become(c, [Goto(call[c], "write") EXCEPT !.held = hist[call[c].name]])
  BY <1>2, <1>3 DEF ReadHistory
<1>6. CASE Obs(c) \notin p.markers /\ Obs(c) \in p.contributions /\ Become(c, Goto(call[c], "confirm"))
  <2>1. effects[Obs(c)] = 1 /\ receipts[Obs(c)].state = "COMMITTED"
    BY <1>4, <1>6 DEF Linked
  <2>2. "confirm" \in MergedPcs \ {"cleanWrite"}
    BY DEF MergedPcs
  <2> QED BY <1>1, <1>6, <2>1, <2>2, BoundMove
<1>7. CASE Obs(c) \notin p.contributions /\ Become(c, [Goto(call[c], "write") EXCEPT !.held = hist[call[c].name]])
  BY <1>1, <1>2, <1>3, <1>7, HoldMove
<1>8. CASE Obs(c) \in p.markers /\ Become(c, Goto(call[c], "commitRead"))
  <2>1. effects[Obs(c)] = 1
    BY <1>4, <1>8 DEF Linked
  <2>2. "commitRead" \in MergedPcs \ {"cleanWrite"} /\ "commitRead" \notin CommittedPcs
    BY DEF MergedPcs, CommittedPcs
  <2> QED BY <1>1, <1>8, <2>1, <2>2, BoundMove
<1> QED BY <1>1, <1>5, <1>6, <1>7, <1>8, QuietReturn

\* What a bound call knows of its receipt.
LEMMA BoundReceipt ==
  ASSUME Inv, NEW c \in Callers, call[c].pc \in BoundPcs
  PROVE  /\ receipts[Obs(c)].state \in {"PREPARED", "COMMITTED"} /\ receipts[Obs(c)].digest = Digest(c)
         /\ call[c].rv = 2 /\ call[c].name = HomeOf(c)
         /\ call[c].pc \in MergedPcs => effects[Obs(c)] = 1
         /\ call[c].pc \in CommittedPcs => receipts[Obs(c)].state = "COMMITTED"
BY Knows DEF CallOK, BoundPcs

\* The place of a call that has committed is reached from a COMMITTED receipt.
LEMMA CommittedMeansMerged ==
  ASSUME Inv, NEW c \in Callers, receipts[Obs(c)].state = "COMMITTED"
  PROVE  effects[Obs(c)] = 1
BY Knows DEF Linked

LEMMA ConfirmStep ==
  ASSUME Inv, NEW c \in Callers, ConfirmReceipt(c)
  PROVE  Inv'
<1>1. UNCHANGED <<hist, receipts, save, log, effects>> /\ call[c].pc = "confirm"
  BY DEF ConfirmReceipt
<1>2. call[c].pc \in BoundPcs /\ receipts[Obs(c)].state = "COMMITTED" /\ effects[Obs(c)] = 1
  BY <1>1, Knows DEF CallOK, BoundPcs, CommittedPcs, MergedPcs
<1>3. Become(c, Return) \/ Become(c, Goto(call[c], "commitRead"))
  BY <1>2 DEF ConfirmReceipt
<1>4. "commitRead" \in MergedPcs \ {"cleanWrite"} /\ "commitRead" \notin CommittedPcs
  BY DEF MergedPcs, CommittedPcs
<1> QED BY <1>1, <1>2, <1>3, <1>4, BoundMove, QuietReturn

LEMMA CommitReadStep ==
  ASSUME Inv, NEW c \in Callers, CommitRead(c)
  PROVE  Inv'
<1>1. UNCHANGED <<hist, receipts, save, log, effects>> /\ call[c].pc = "commitRead"
  BY DEF CommitRead
<1>2. call[c].pc \in BoundPcs /\ effects[Obs(c)] = 1
  BY <1>1, Knows DEF CallOK, BoundPcs, MergedPcs
<1>3. /\ "commitWrite" \in MergedPcs \ {"cleanWrite"} /\ "commitWrite" \notin CommittedPcs
      /\ "cleanRead" \in MergedPcs \ {"cleanWrite"}
  BY DEF MergedPcs, CommittedPcs
<1>4. \/ Become(c, Return)
      \/ receipts[Obs(c)].state = "COMMITTED" /\ Become(c, Goto(call[c], "cleanRead"))
      \/ Become(c, Goto(call[c], "commitWrite"))
  BY DEF CommitRead
<1> QED BY <1>1, <1>2, <1>3, <1>4, BoundMove, QuietReturn

LEMMA CommitAgainStep ==
  ASSUME Inv, NEW c \in Callers, CommitAfterConflict(c)
  PROVE  Inv'
<1>1. UNCHANGED <<hist, receipts, save, log, effects>> /\ call[c].pc = "commitAgain"
  BY DEF CommitAfterConflict
<1>2. call[c].pc \in BoundPcs /\ effects[Obs(c)] = 1
  BY <1>1, Knows DEF CallOK, BoundPcs, MergedPcs
<1>3. "cleanRead" \in MergedPcs \ {"cleanWrite"}
  BY DEF MergedPcs
<1>4. \/ Become(c, Return)
      \/ receipts[Obs(c)].state = "COMMITTED" /\ Become(c, Goto(call[c], "cleanRead"))
  BY DEF CommitAfterConflict
<1> QED BY <1>1, <1>2, <1>3, <1>4, BoundMove, QuietReturn

LEMMA CleanReadStep ==
  ASSUME Inv, NEW c \in Callers, CleanRead(c)
  PROVE  Inv'
<1>1. UNCHANGED <<hist, receipts, save, log, effects>> /\ call[c].pc = "cleanRead"
  BY DEF CleanRead
<1>2. call[c].pc \in BoundPcs /\ effects[Obs(c)] = 1 /\ receipts[Obs(c)].state = "COMMITTED"
  BY <1>1, Knows DEF CallOK, BoundPcs, MergedPcs, CommittedPcs
<1>3. Become(c, Return) \/ Become(c, [Goto(call[c], "cleanWrite") EXCEPT !.held = hist[call[c].name]])
  BY DEF CleanRead
<1> QED BY <1>1, <1>2, <1>3, HoldMove, QuietReturn

LEMMA CallFailsStep ==
  ASSUME Inv, NEW c \in Callers, CallFails(c)
  PROVE  Inv'
<1>1. Become(c, Return) /\ UNCHANGED <<hist, receipts, save, log, effects>>
  BY DEF CallFails
<1> QED BY <1>1, QuietReturn

-----------------------------------------------------------------------------
(* Steps that write a receipt                                                  *)

LEMMA ReceiptStep ==
  ASSUME Inv, NEW c \in Callers, NEW x \in Receipt, NEW d \in Call,
         receipts' = [receipts EXCEPT ![Obs(c)] = x], call' = [call EXCEPT ![c] = d],
         UNCHANGED <<hist, save, log, effects>>,
         Advances(receipts[Obs(c)], x),
         Linked(Obs(c), x, effects[Obs(c)], hist[HomeOf(c)].populations[Known]),
         CallOK(d, Obs(c), Digest(c), HomeOf(c), x, effects[Obs(c)], hist[HomeOf(c)]),
         \A b \in Callers \ {c} : Obs(b) = Obs(c) => call[b].pc # "init"
  PROVE  Inv'
<1>1. Types /\ Ledger
  BY DEF Inv
<1>2. /\ hist' = hist /\ save' = save /\ log' = log /\ effects' = effects
  OBVIOUS
<1>3. call' \in [Callers -> Call] /\ receipts' \in [Observations -> Receipt]
  BY <1>1, ObsType DEF Types
<1>4. Types'
  BY <1>1, <1>2, <1>3 DEF Types
<1>5. OneBinaryRecord' /\ \A t \in Tracers : TracerOK(t)' /\ ReportOK(t)'
  BY <1>1, <1>2 DEF Ledger, OneBinaryRecord, TracerOK, ReportOK
<1>6. ASSUME NEW b \in Callers
      PROVE  /\ HomeOf(b)' = HomeOf(b) /\ Obs(b) \in Observations
             /\ Obs(b) = Obs(c) => receipts'[Obs(b)] = x /\ HomeOf(b) = HomeOf(c)
             /\ Obs(b) # Obs(c) => receipts'[Obs(b)] = receipts[Obs(b)]
  <2>1. Obs(b) \in Observations
    BY ObsType
  <2>2. Obs(b) = Obs(c) => HomeOf(b) = HomeOf(c)
    BY HistoryAssumption DEF Obs, HomeOf
  <2> QED BY <1>1, <1>2, <2>1, <2>2 DEF HomeOf, Types
<1>7. ASSUME NEW b \in Callers PROVE ContributionOK(b)'
  <2>1. ContributionOK(b)
    BY <1>1 DEF Ledger
  <2>2. CASE Obs(b) = Obs(c)
    BY <1>2, <1>6, <2>1, <2>2 DEF ContributionOK
  <2>3. CASE Obs(b) # Obs(c)
    BY <1>2, <1>6, <2>1, <2>3 DEF ContributionOK
  <2> QED BY <2>2, <2>3
<1>8. ASSUME NEW b \in Callers PROVE CallerOK(b)'
  <2>1. CASE b = c
    <3>1. call'[b] = d
      BY <1>1, <2>1 DEF Types
    <3>2. receipts'[Obs(b)] = x /\ HomeOf(b)' = HomeOf(c)
      BY <1>6, <2>1
    <3> QED BY <1>2, <2>1, <3>1, <3>2 DEF CallerOK
  <2>2. CASE b # c
    <3>1. call'[b] = call[b] /\ CallerOK(b)
      BY <1>1, <2>2 DEF Types, Ledger
    <3>2. CASE Obs(b) # Obs(c)
      BY <1>2, <1>6, <3>1, <3>2 DEF CallerOK
    <3>3. CASE Obs(b) = Obs(c)
      <4>1. /\ call[b] \in Call /\ receipts[Obs(b)] \in Receipt /\ hist[HomeOf(b)] \in Record
            /\ CallOK(call[b], Obs(b), Digest(b), HomeOf(b), receipts[Obs(b)], effects[Obs(b)], hist[HomeOf(b)])
        BY Knows
      <4>2. Advances(receipts[Obs(b)], x) /\ call[b].pc # "init"
        BY <2>2, <3>3
      <4>3. CallOK(call[b], Obs(b), Digest(b), HomeOf(b), x, effects[Obs(b)], hist[HomeOf(b)])
        BY <4>1, <4>2, CallKept
      <4> QED BY <1>2, <1>6, <3>1, <3>3, <4>3 DEF CallerOK
    <3> QED BY <3>2, <3>3
  <2> QED BY <2>1, <2>2
<1>9. OneInitializer'
  <2> SUFFICES ASSUME NEW a \in Callers, NEW b \in Callers, call'[a].pc = "init", call'[b].pc = "init", Obs(a) = Obs(b), a # b
               PROVE  FALSE
    BY DEF OneInitializer
  <2>1. \A q \in Callers \ {c} : call'[q] = call[q]
    BY <1>1 DEF Types
  <2>2. CASE a = c
    BY <2>1, <2>2
  <2>3. CASE b = c
    BY <2>1, <2>3
  <2>4. CASE a # c /\ b # c
    BY <1>1, <2>1, <2>4 DEF Ledger, OneInitializer
  <2> QED BY <2>2, <2>3, <2>4
<1>10. ASSUME NEW n \in Names, NEW i \in Images
       PROVE  Counted(hist'[n].populations[i], log'[n][i], Given(n, i)')
  <2>1. \A b \in Callers : Holding(b)' = Holding(b)
    BY <1>2 DEF Holding
  <2>2. ASSUME NEW b \in Callers, n \in Holding(b) PROVE receipts'[Obs(b)].digest = receipts[Obs(b)].digest
    <3>1. effects[Obs(b)] = 1
      BY <2>2, HoldingIs
    <3>2. receipts[Obs(b)].state # "none"
      BY <3>1, Knows DEF Linked
    <3> QED BY <1>6, <3>2 DEF Advances
  <2>3. Contributors(n)' = Contributors(n)
    BY <2>1, <2>2 DEF Contributors
  <2>4. Given(n, i)' = Given(n, i)
    BY <2>3 DEF Given, ContributedTo
  <2>5. Counted(hist[n].populations[i], log[n][i], Given(n, i))
    BY <1>1 DEF Ledger
  <2> QED BY <1>2, <2>4, <2>5
<1>11. Ledger'
  BY <1>5, <1>7, <1>8, <1>9, <1>10 DEF Ledger
<1> QED BY <1>4, <1>11 DEF Inv

\* The caller hears of the write, or not.
LEMMA PutReceiptStep ==
  ASSUME Inv, NEW c \in Callers, NEW x \in Receipt, NEW d \in Call, PutReceipt(c, x, d),
         Advances(receipts[Obs(c)], x),
         Linked(Obs(c), x, effects[Obs(c)], hist[HomeOf(c)].populations[Known]),
         CallOK(d, Obs(c), Digest(c), HomeOf(c), x, effects[Obs(c)], hist[HomeOf(c)]),
         \A b \in Callers \ {c} : Obs(b) = Obs(c) => call[b].pc # "init"
  PROVE  Inv'
<1>1. receipts' = [receipts EXCEPT ![Obs(c)] = x] /\ UNCHANGED <<hist, save, log, effects>>
  BY DEF PutReceipt
<1>2. call' = [call EXCEPT ![c] = d] \/ call' = [call EXCEPT ![c] = NoCall]
  BY DEF PutReceipt, Become, Return
<1>3. NoCall \in Call /\ CallOK(NoCall, Obs(c), Digest(c), HomeOf(c), x, effects[Obs(c)], hist[HomeOf(c)])
  BY IdleOK
<1> QED BY <1>1, <1>2, <1>3, ReceiptStep

LEMMA CreateStep ==
  ASSUME Inv, NEW c \in Callers, CreatePrepared(c)
  PROVE  Inv'
<1>1. PICK r \in Call : r = call[c]
  BY Knows
<1>2. /\ r.pc = "create" /\ r.name = HomeOf(c) /\ ~r.corrupt
      /\ Linked(Obs(c), receipts[Obs(c)], effects[Obs(c)], hist[HomeOf(c)].populations[Known])
  BY <1>1, Knows DEF CreatePrepared, CallOK
<1>3. CASE /\ receipts[Obs(c)].state = "none"
           /\ PutReceipt(c, [state |-> "created", rv |-> 1, digest |-> Digest(c)], Goto(call[c], "init"))
  <2>1. PICK x : x = [state |-> "created", rv |-> 1, digest |-> Digest(c)]
    OBVIOUS
  <2>2. x \in Receipt /\ x.state = "created" /\ x.rv = 1 /\ x.digest = Digest(c)
    BY <2>1, ObsType DEF Receipt
  <2>3. PICK d \in Call : d = Goto(r, "init") /\ d.pc = "init" /\ d.name = r.name /\ d.corrupt = r.corrupt
    BY <1>1, GotoFields
  <2>4. PutReceipt(c, x, d)
    BY <1>1, <1>3, <2>1, <2>3
  <2>5. Advances(receipts[Obs(c)], x)
    BY <1>3 DEF Advances
  <2>6. effects[Obs(c)] = 0
    BY <1>2, <1>3 DEF Linked
  <2>7. Linked(Obs(c), x, effects[Obs(c)], hist[HomeOf(c)].populations[Known])
    BY <1>2, <2>2, <2>6 DEF Linked
  <2>8. CallOK(d, Obs(c), Digest(c), HomeOf(c), x, effects[Obs(c)], hist[HomeOf(c)])
    BY <1>2, <2>2, <2>3 DEF CallOK, BoundPcs, MergedPcs, CommittedPcs
  <2>9. \A b \in Callers \ {c} : Obs(b) = Obs(c) => call[b].pc # "init"
    BY <1>3, Knows DEF CallOK
  <2> QED BY <2>2, <2>4, <2>5, <2>7, <2>8, <2>9, PutReceiptStep
<1>4. CASE /\ Become(c, Goto(call[c], "receipt"))
           /\ UNCHANGED <<hist, receipts, save, log, effects, faults>>
  <2>1. PICK d \in Call : d = Goto(r, "receipt") /\ d.pc = "receipt" /\ d.name = r.name /\ d.corrupt = r.corrupt
    BY <1>1, GotoFields
  <2>2. CallOK(d, Obs(c), Digest(c), HomeOf(c), receipts[Obs(c)], effects[Obs(c)], hist[HomeOf(c)])
    BY <1>2, <2>1 DEF CallOK, BoundPcs, MergedPcs, CommittedPcs
  <2>3. call' = [call EXCEPT ![c] = d] /\ d.pc # "init" /\ UNCHANGED <<hist, receipts, save, log, effects>>
    BY <1>1, <1>4, <2>1 DEF Become
  <2> QED BY <2>2, <2>3, QuietStep
<1> QED BY <1>3, <1>4 DEF CreatePrepared

LEMMA InitReceiptStep ==
  ASSUME Inv, NEW c \in Callers, InitReceipt(c)
  PROVE  Inv'
<1>1. PICK r \in Call : r = call[c]
  BY Knows
<1>2. PICK y \in Receipt : y = receipts[Obs(c)]
  BY Knows
<1>3. /\ r.pc = "init" /\ r.name = HomeOf(c) /\ ~r.corrupt /\ y.state = "created" /\ y.digest = Digest(c)
      /\ Linked(Obs(c), y, effects[Obs(c)], hist[HomeOf(c)].populations[Known])
  BY <1>1, <1>2, Knows DEF InitReceipt, CallOK
<1>4. PICK x : x = [y EXCEPT !.state = "PREPARED", !.rv = 2]
  OBVIOUS
<1>5. x \in Receipt /\ x.state = "PREPARED" /\ x.rv = 2 /\ x.digest = Digest(c)
  BY <1>2, <1>3, <1>4 DEF Receipt
<1>6. PICK q \in Call : q = Goto(r, "read") /\ q.pc = "read" /\ q.name = r.name /\ q.corrupt = r.corrupt
  BY <1>1, GotoFields
<1>7. PICK d : d = [q EXCEPT !.rv = 2]
  OBVIOUS
<1>8. d \in Call /\ d.pc = "read" /\ d.name = r.name /\ d.corrupt = r.corrupt /\ d.rv = 2
  BY <1>6, <1>7 DEF Call
<1>9. PutReceipt(c, x, d)
  BY <1>1, <1>2, <1>4, <1>6, <1>7 DEF InitReceipt
<1>10. Advances(receipts[Obs(c)], x)
  BY <1>2, <1>3, <1>5 DEF Advances
<1>11. Linked(Obs(c), x, effects[Obs(c)], hist[HomeOf(c)].populations[Known])
  BY <1>3, <1>5 DEF Linked
<1>12. CallOK(d, Obs(c), Digest(c), HomeOf(c), x, effects[Obs(c)], hist[HomeOf(c)])
  BY <1>3, <1>5, <1>8 DEF CallOK, BoundPcs, MergedPcs, CommittedPcs
<1>13. \A b \in Callers \ {c} : Obs(b) = Obs(c) => call[b].pc # "init"
  BY <1>1, <1>3 DEF Inv, Ledger, OneInitializer
<1> QED BY <1>5, <1>8, <1>9, <1>10, <1>11, <1>12, <1>13, PutReceiptStep

LEMMA CommitWriteStep ==
  ASSUME Inv, NEW c \in Callers, CommitWrite(c)
  PROVE  Inv'
<1>0. call[c].pc = "commitWrite" /\ call[c].pc \in BoundPcs /\ effects[Obs(c)] = 1
  BY Knows DEF CommitWrite, CallOK, BoundPcs, MergedPcs
<1>1. CASE /\ receipts[Obs(c)].rv = call[c].rv
           /\ PutReceipt(c, [receipts[Obs(c)] EXCEPT !.state = "COMMITTED", !.rv = @ + 1], Goto(call[c], "cleanRead"))
  <2>1. PICK r \in Call : r = call[c]
    BY Knows
  <2>2. PICK y \in Receipt : y = receipts[Obs(c)]
    BY Knows
  <2>3. /\ y.digest = Digest(c) /\ r.rv = 2 /\ r.name = HomeOf(c) /\ ~r.corrupt /\ y.rv = 2
        /\ Linked(Obs(c), y, effects[Obs(c)], hist[HomeOf(c)].populations[Known])
    BY <1>0, <1>1, <2>1, <2>2, BoundReceipt, Knows DEF CallOK
  <2>4. PICK x : x = [y EXCEPT !.state = "COMMITTED", !.rv = 3]
    OBVIOUS
  <2>5. x \in Receipt /\ x.state = "COMMITTED" /\ x.rv = 3 /\ x.digest = Digest(c)
    BY <2>2, <2>3, <2>4 DEF Receipt
  <2>6. x = [receipts[Obs(c)] EXCEPT !.state = "COMMITTED", !.rv = @ + 1]
    BY <2>2, <2>3, <2>4 DEF Receipt
  <2>7. PICK d \in Call : d = Goto(r, "cleanRead") /\ d.pc = "cleanRead" /\ d.name = r.name
                          /\ d.corrupt = r.corrupt /\ d.rv = r.rv
    BY <2>1, GotoFields
  <2>8. PutReceipt(c, x, d)
    BY <1>1, <2>1, <2>6, <2>7
  <2>9. y.state = "PREPARED"
    BY <2>3 DEF Linked
  <2>10. Advances(receipts[Obs(c)], x)
    BY <2>2, <2>3, <2>5 DEF Advances
  <2>11. Linked(Obs(c), x, effects[Obs(c)], hist[HomeOf(c)].populations[Known])
    BY <1>0, <2>3, <2>5 DEF Linked
  <2>12. CallOK(d, Obs(c), Digest(c), HomeOf(c), x, effects[Obs(c)], hist[HomeOf(c)])
    BY <1>0, <2>3, <2>5, <2>7 DEF CallOK, BoundPcs, MergedPcs, CommittedPcs
  <2>13. \A b \in Callers \ {c} : Obs(b) = Obs(c) => call[b].pc # "init"
    BY <2>2, <2>9, Knows DEF CallOK
  <2> QED BY <2>5, <2>8, <2>10, <2>11, <2>12, <2>13, PutReceiptStep
<1>2. CASE Become(c, Goto(call[c], "commitAgain")) /\ UNCHANGED <<hist, receipts, save, log, effects, faults>>
  <2>1. "commitAgain" \in MergedPcs \ {"cleanWrite"} /\ "commitAgain" \notin CommittedPcs
    BY DEF MergedPcs, CommittedPcs
  <2> QED BY <1>0, <1>2, <2>1, BoundMove
<1> QED BY <1>1, <1>2 DEF CommitWrite

-----------------------------------------------------------------------------
(* Counting runs                                                               *)

RunSets == SUBSET Facts

\* How often a fact was seen, and what one more run adds to it.
LEMMA TimesAppend ==
  ASSUME NEW runs \in Seq(RunSets), NEW run \in RunSets, NEW f
  PROVE  /\ Times(runs, f) \in Nat
         /\ Times(Append(runs, run), f) = IF f \in run THEN Times(runs, f) + 1 ELSE Times(runs, f)
<1>1. PICK n \in Nat : n = Len(runs) /\ DOMAIN runs = 1 .. n
  OBVIOUS
<1>2. PICK A : A = {k \in DOMAIN runs : f \in runs[k]}
  OBVIOUS
<1>3. PICK more : more = Append(runs, run)
  OBVIOUS
<1>4. /\ DOMAIN more = 1 .. (n + 1) /\ more[n + 1] = run
      /\ \A k \in 1 .. n : more[k] = runs[k]
  BY <1>1, <1>3
<1>5. PICK B : B = {k \in DOMAIN more : f \in more[k]}
  OBVIOUS
<1>6. IsFiniteSet(1 .. n)
  BY <1>1, FS_Interval
<1>7. IsFiniteSet(A) /\ Cardinality(A) \in Nat
  <2>1. A \subseteq 1 .. n
    BY <1>1, <1>2
  <2> QED BY <1>6, <2>1, FS_Subset, FS_CardinalityType
<1>8. n + 1 \notin A
  BY <1>1, <1>2
<1>9. B = IF f \in run THEN A \cup {n + 1} ELSE A
  BY <1>1, <1>2, <1>4, <1>5
<1>10. Cardinality(A \cup {n + 1}) = Cardinality(A) + 1
  BY <1>7, <1>8, FS_AddElement
<1>11. Times(runs, f) = Cardinality(A) /\ Times(Append(runs, run), f) = Cardinality(B)
  BY <1>2, <1>3, <1>5 DEF Times
<1> QED BY <1>7, <1>9, <1>10, <1>11

\* A fact seen as often as there are runs was seen by every run.
LEMMA SeenByAll ==
  ASSUME NEW runs \in Seq(SUBSET Facts), NEW f, Times(runs, f) = Len(runs)
  PROVE  \A j \in DOMAIN runs : f \in runs[j]
<1>1. PICK n \in Nat : n = Len(runs) /\ DOMAIN runs = 1 .. n
  OBVIOUS
<1>2. PICK A : A = {k \in DOMAIN runs : f \in runs[k]}
  OBVIOUS
<1>3. A \subseteq 1 .. n
  BY <1>1, <1>2
<1>4. IsFiniteSet(1 .. n) /\ Cardinality(1 .. n) = n
  <2>1. PICK a \in Int : a = 1
    OBVIOUS
  <2>2. n \in Int
    BY <1>1
  <2>3. IsFiniteSet(a .. n) /\ Cardinality(a .. n) = IF a > n THEN 0 ELSE n - a + 1
    BY <2>1, <2>2, FS_Interval, Zenon
  <2> QED BY <1>1, <2>1, <2>3
<1>5. Cardinality(A) = n
  BY <1>1, <1>2 DEF Times
<1>6. A = 1 .. n
  BY <1>3, <1>4, <1>5, FS_Subset
<1> QED BY <1>1, <1>2, <1>6

LEMMA MergeRun ==
  ASSUME NEW p \in Population, NEW run \in SUBSET Facts, NEW q, q = mergeBehaviorIntoPopulation(p, run)
  PROVE  /\ q \in Population /\ q.runs = p.runs + 1 /\ q.facts = p.facts \cup run
         /\ \A f \in Facts : q.seen[f] = IF f \in run THEN p.seen[f] + 1 ELSE p.seen[f]
         /\ q.contributions = p.contributions /\ q.markers = p.markers
<1>1. PICK s : s = [f \in Facts |-> IF f \in run THEN p.seen[f] + 1 ELSE p.seen[f]]
  OBVIOUS
<1>2. p.runs \in Nat /\ p.seen \in [Facts -> Nat] /\ p.facts \in SUBSET Facts
  BY PopulationFields
<1>3. s \in [Facts -> Nat]
  BY <1>1, <1>2
<1>4. q = [p EXCEPT !.there = TRUE, !.runs = p.runs + 1, !.facts = p.facts \cup run, !.seen = s]
  BY <1>1 DEF mergeBehaviorIntoPopulation, Bump, Population
<1>5. p.runs + 1 \in Nat /\ p.facts \cup run \in SUBSET Facts
  BY <1>2
<1>6. /\ q \in Population /\ q.runs = p.runs + 1 /\ q.facts = p.facts \cup run /\ q.seen = s
      /\ q.contributions = p.contributions /\ q.markers = p.markers
  BY <1>3, <1>4, <1>5 DEF Population
<1> QED BY <1>1, <1>6

\* One more run, counted once.
LEMMA CountedMore ==
  ASSUME NEW p \in Population, NEW run \in SUBSET Facts, NEW runs \in Seq(SUBSET Facts), NEW g,
         NEW q, q = mergeBehaviorIntoPopulation(p, run), Counted(p, runs, g)
  PROVE  Counted(q, Append(runs, run), g)
<1>1. /\ q.runs = p.runs + 1 /\ q.facts = p.facts \cup run
      /\ \A f \in Facts : q.seen[f] = IF f \in run THEN p.seen[f] + 1 ELSE p.seen[f]
  BY MergeRun
<1>2. \A f \in Facts : /\ Times(runs, f) \in Nat
                       /\ Times(Append(runs, run), f) = IF f \in run THEN Times(runs, f) + 1 ELSE Times(runs, f)
  <2>1. runs \in Seq(RunSets) /\ run \in RunSets
    BY DEF RunSets
  <2> QED BY <2>1, TimesAppend
<1>3. Len(Append(runs, run)) = Len(runs) + 1
  OBVIOUS
<1>4. q.runs = Len(Append(runs, run))
  BY <1>1, <1>3 DEF Counted
<1>5. \A f \in Facts : q.seen[f] = Times(Append(runs, run), f)
  BY <1>1, <1>2 DEF Counted
<1>6. {f \in Facts : Times(Append(runs, run), f) > 0} = {f \in Facts : Times(runs, f) > 0} \cup run
  BY <1>2
<1>7. q.facts = {f \in Facts : Times(Append(runs, run), f) > 0} \cup g
  BY <1>1, <1>6 DEF Counted
<1> QED BY <1>4, <1>5, <1>7 DEF Counted

\* The record a run is merged into.
LEMMA MergeRecord ==
  ASSUME NEW r \in Record, NEW i \in Images, NEW run \in SUBSET Facts, NEW m, m = mergePopulation(r, i, run)
  PROVE  /\ m \in Record
         /\ m.populations[i] = mergeBehaviorIntoPopulation(r.populations[i], run)
         /\ \A j \in Images \ {i} : m.populations[j] = r.populations[j]
<1>1. r.populations \in [Images -> Population] /\ r.populations[i] \in Population
  BY RecordFields
<1>2. PICK q \in Population : q = mergeBehaviorIntoPopulation(r.populations[i], run)
  BY <1>1, MergeRun
<1>3. PICK P : P = [r.populations EXCEPT ![i] = q]
  OBVIOUS
<1>4. P \in [Images -> Population] /\ P[i] = q /\ \A j \in Images \ {i} : P[j] = r.populations[j]
  BY <1>1, <1>3
<1>5. PICK w : w = [r EXCEPT !.populations = P]
  OBVIOUS
<1>6. w \in Record /\ w.populations = P
  BY <1>4, <1>5 DEF Record
<1>7. w = [r EXCEPT !.populations[i] = mergeBehaviorIntoPopulation(@, run)]
  BY <1>2, <1>3, <1>5 DEF Record
<1>8. P[Known].runs \in Nat
  BY <1>4, KnownImage, PopulationFields
<1>9. m = w \/ m = [w EXCEPT !.runsRecorded = P[Known].runs]
  BY <1>6, <1>7 DEF mergePopulation
<1>10. m \in Record /\ m.populations = P
  BY <1>6, <1>8, <1>9 DEF Record
<1> QED BY <1>2, <1>4, <1>10

\* A report that was earned stays so when runs are added.
LEMMA EarnedLater ==
  ASSUME NEW report, NEW runs \in Seq(SUBSET Facts), NEW run \in SUBSET Facts, Earned(report, runs)
  PROVE  Earned(report, Append(runs, run))
<1>1. PICK k \in DOMAIN runs :
        /\ report[1] = k
        /\ \A f \in Facts : report[2][f] = "high" => k >= 2 /\ \A j \in 1 .. k : f \in runs[j]
  BY DEF Earned
<1>2. k \in DOMAIN Append(runs, run) /\ \A j \in 1 .. k : Append(runs, run)[j] = runs[j]
  OBVIOUS
<1> QED BY <1>1, <1>2 DEF Earned

\* The report of a population that counts its runs is earned.
LEMMA ReportEarned ==
  ASSUME NEW p \in Population, NEW runs \in Seq(SUBSET Facts), NEW g, Counted(p, runs, g), runs # <<>>
  PROVE  Report(p) \in Nat \X [Facts -> {"low", "medium", "high"}] /\ Earned(Report(p), runs)
<1>1. p.runs = Len(runs) /\ p.runs \in Nat /\ p.seen \in [Facts -> Nat]
  BY PopulationFields DEF Counted
<1>2. PICK v : v = [f \in Facts |-> confidenceForHistory(p.seen[f], p.runs)]
  OBVIOUS
<1>3. \A f \in Facts : /\ confidenceForHistory(p.seen[f], p.runs) \in {"low", "medium", "high"}
                       /\ confidenceForHistory(p.seen[f], p.runs) = "high" => p.runs >= 2 /\ p.seen[f] = p.runs
  BY <1>1 DEF confidenceForHistory
<1>4. v \in [Facts -> {"low", "medium", "high"}]
  BY <1>2, <1>3
<1>5. Report(p) = <<p.runs, v>> /\ Report(p)[1] = p.runs /\ Report(p)[2] = v
  BY <1>2 DEF Report
<1>6. p.runs \in DOMAIN runs /\ DOMAIN runs = 1 .. p.runs
  BY <1>1
<1>7. ASSUME NEW f \in Facts, v[f] = "high" PROVE p.runs >= 2 /\ \A j \in 1 .. p.runs : f \in runs[j]
  <2>1. p.runs >= 2 /\ p.seen[f] = p.runs
    BY <1>2, <1>3, <1>7
  <2>2. Times(runs, f) = Len(runs)
    BY <1>1, <2>1 DEF Counted
  <2> QED BY <1>6, <2>1, <2>2, SeenByAll
<1> QED BY <1>1, <1>4, <1>5, <1>6, <1>7 DEF Earned

-----------------------------------------------------------------------------
(* Steps that write a record                                                   *)

\* A record that is written is the home of its populations already.
AtHome(n) == (n = "legacy" => Exists(hist["legacy"])) /\ (n = "v2" => ~Exists(hist["legacy"]))

LEMMA HomeIsAtHome ==
  ASSUME NEW c
  PROVE  AtHome(HomeOf(c)) /\ AtHome(Home("BINARY", hist["legacy"]))
BY DEF AtHome, HomeOf, Home

LEMMA HomeKept ==
  ASSUME Inv, NEW n \in Names, NEW h \in Record, hist' = [hist EXCEPT ![n] = h], h.rv = hist[n].rv + 1, AtHome(n)
  PROVE  /\ OneBinaryRecord'
         /\ \A scope : Home(scope, hist'["legacy"]) = Home(scope, hist["legacy"])
         /\ \A c : HomeOf(c)' = HomeOf(c)
<1>1. hist \in [Names -> Record] /\ {"legacy", "v2"} \subseteq Names /\ OneBinaryRecord
  BY DEF Inv, Types, Names, Ledger
<1>2. hist[n].rv \in Nat
  BY <1>1, RecordFields
<1>3. h.rv # 0
  BY <1>2
<1>4. /\ n = "legacy" => hist'["legacy"] = h
      /\ n # "legacy" => hist'["legacy"] = hist["legacy"]
      /\ n # "v2" => hist'["v2"] = hist["v2"]
  BY <1>1
<1>5. Exists(hist'["legacy"]) <=> Exists(hist["legacy"])
  BY <1>3, <1>4 DEF AtHome, Exists
<1>6. OneBinaryRecord'
  BY <1>1, <1>4, <1>5 DEF OneBinaryRecord, AtHome
<1>7. \A scope : Home(scope, hist'["legacy"]) = Home(scope, hist["legacy"])
  BY <1>5 DEF Home
<1> QED BY <1>6, <1>7 DEF HomeOf

LEMMA RecordStep ==
  ASSUME Inv, NEW n \in Names, NEW h \in Record, hist' = [hist EXCEPT ![n] = h], h.rv = hist[n].rv + 1, AtHome(n),
         receipts' = receipts,
         call' \in [Callers -> Call], save' \in [Tracers -> Save],
         log' \in [Names -> [Images -> Seq(SUBSET Facts)]], effects' \in [Observations -> Nat],
         \A b \in Callers : effects[Obs(b)] = 1 => effects'[Obs(b)] = 1,
         \A b \in Callers : \/ call'[b] = call[b]
                            \/ /\ call'[b].pc # "init"
                               /\ CallOK(call'[b], Obs(b), Digest(b), HomeOf(b), receipts[Obs(b)], effects'[Obs(b)],
                                         hist'[HomeOf(b)]),
         \A b \in Callers :
            /\ Linked(Obs(b), receipts[Obs(b)], effects'[Obs(b)], hist'[HomeOf(b)].populations[Known])
            /\ \A m \in Names \ {HomeOf(b)} : Obs(b) \notin hist'[m].populations[Known].contributions,
         \A t \in Tracers : save'[t] = save[t] \/ save'[t].pc # "write",
         \A t \in Tracers : ReportOK(t)',
         \A m \in Names, i \in Images : Counted(hist'[m].populations[i], log'[m][i], Given(m, i)')
  PROVE  Inv'
<1>1. Types /\ Ledger
  BY DEF Inv
<1>2. /\ OneBinaryRecord' /\ \A c : HomeOf(c)' = HomeOf(c)
      /\ Home("BINARY", hist'["legacy"]) = Home("BINARY", hist["legacy"])
  BY HomeKept
<1>3. hist' \in [Names -> Record]
  BY <1>1 DEF Types
<1>4. Types'
  BY <1>1, <1>3 DEF Types
<1>5. \A m \in Names : hist[m] \in Record /\ hist'[m] \in Record /\ (hist'[m] = hist[m] \/ hist'[m].rv = hist[m].rv + 1)
  BY <1>1, <1>3 DEF Types
<1>6. ASSUME NEW b \in Callers PROVE ContributionOK(b)'
  <2>1. HomeOf(b)' = HomeOf(b)
    BY <1>2
  <2> QED BY <2>1 DEF ContributionOK
<1>7. ASSUME NEW b \in Callers PROVE CallerOK(b)'
  <2>1. HomeOf(b)' = HomeOf(b)
    BY <1>2
  <2>2. CASE call'[b] = call[b]
    <3>1. /\ call[b] \in Call /\ receipts[Obs(b)] \in Receipt /\ hist[HomeOf(b)] \in Record /\ HomeOf(b) \in Names
          /\ CallOK(call[b], Obs(b), Digest(b), HomeOf(b), receipts[Obs(b)], effects[Obs(b)], hist[HomeOf(b)])
      BY Knows
    <3>2. Advances(receipts[Obs(b)], receipts[Obs(b)])
      BY DEF Advances
    <3>3. /\ hist'[HomeOf(b)] \in Record
          /\ hist'[HomeOf(b)] = hist[HomeOf(b)] \/ hist'[HomeOf(b)].rv = hist[HomeOf(b)].rv + 1
      BY <1>5, <3>1
    <3>4. CallOK(call[b], Obs(b), Digest(b), HomeOf(b), receipts[Obs(b)], effects'[Obs(b)], hist'[HomeOf(b)])
      BY <3>1, <3>2, <3>3, CallKept
    <3> QED BY <2>1, <2>2, <3>4 DEF CallerOK
  <2>3. CASE CallOK(call'[b], Obs(b), Digest(b), HomeOf(b), receipts[Obs(b)], effects'[Obs(b)], hist'[HomeOf(b)])
    BY <2>1, <2>3 DEF CallerOK
  <2> QED BY <2>2, <2>3
<1>8. OneInitializer'
  BY <1>1 DEF Ledger, OneInitializer
<1>9. ASSUME NEW t \in Tracers PROVE TracerOK(t)'
  <2>1. CASE save'[t].pc # "write"
    BY <2>1 DEF TracerOK
  <2>2. CASE save'[t] = save[t] /\ save[t].pc = "write"
    <3>1. save[t] \in Save /\ TracerOK(t)
      BY <1>1 DEF Types, Ledger
    <3>2. PICK m \in Names : m = save[t].name
      BY <3>1, SaveFields
    <3>3. save[t].held \in Record /\ save[t].held.rv \in Nat /\ hist[m].rv \in Nat
      BY <1>5, <3>1, SaveFields, RecordFields
    <3>4. m = Home("BINARY", hist["legacy"]) /\ Holds(save[t].held, hist[m])
      BY <2>2, <3>1, <3>2 DEF TracerOK
    <3>5. Holds(save[t].held, hist'[m])
      <4>1. hist'[m] = hist[m] \/ hist'[m].rv = hist[m].rv + 1
        BY <1>5
      <4> QED BY <3>3, <3>4, <4>1 DEF Holds
    <3> QED BY <1>2, <2>2, <3>2, <3>4, <3>5 DEF TracerOK
  <2> QED BY <2>1, <2>2
<1>10. Ledger'
  BY <1>2, <1>6, <1>7, <1>8, <1>9 DEF Ledger
<1> QED BY <1>4, <1>10 DEF Inv

\* A population that keeps what is known of every observation keeps the links.
LEMMA LinksKept ==
  ASSUME Inv, NEW n \in Names, NEW h \in Record, hist' = [hist EXCEPT ![n] = h], NEW b \in Callers,
         Keeps(Obs(b), hist[n].populations[Known], h.populations[Known])
  PROVE  /\ Linked(Obs(b), receipts[Obs(b)], effects[Obs(b)], hist'[HomeOf(b)].populations[Known])
         /\ \A m \in Names \ {HomeOf(b)} : Obs(b) \notin hist'[m].populations[Known].contributions
<1>1. hist \in [Names -> Record] /\ HomeOf(b) \in Names
  BY HomeType DEF Inv, Types
<1>2. /\ Linked(Obs(b), receipts[Obs(b)], effects[Obs(b)], hist[HomeOf(b)].populations[Known])
      /\ \A m \in Names \ {HomeOf(b)} : Obs(b) \notin hist[m].populations[Known].contributions
  BY DEF Inv, Ledger, ContributionOK
<1>3. \A m \in Names : hist'[m] = IF m = n THEN h ELSE hist[m]
  BY <1>1
<1>4. Linked(Obs(b), receipts[Obs(b)], effects[Obs(b)], hist'[HomeOf(b)].populations[Known])
  <2>1. CASE HomeOf(b) = n
    BY <1>1, <1>2, <1>3, <2>1, LinkedKept
  <2>2. CASE HomeOf(b) # n
    BY <1>1, <1>2, <1>3, <2>2
  <2> QED BY <2>1, <2>2
<1>5. \A m \in Names \ {HomeOf(b)} : Obs(b) \notin hist'[m].populations[Known].contributions
  BY <1>2, <1>3 DEF Keeps
<1> QED BY <1>4, <1>5

\* The callers whose content a record holds stay when provenance and receipts do.
LEMMA ContributorsKept ==
  ASSUME hist \in [Names -> Record], NEW n \in Names, NEW h \in Record, hist' = [hist EXCEPT ![n] = h],
         receipts' = receipts, h.populations[Known].contributions = hist[n].populations[Known].contributions
  PROVE  \A m \in Names, i \in Images : Given(m, i)' = Given(m, i)
<1>1. \A m \in Names : hist'[m].populations[Known].contributions = hist[m].populations[Known].contributions
  OBVIOUS
<1>2. \A c : Holding(c)' = Holding(c)
  BY <1>1 DEF Holding
<1>3. \A m : Contributors(m)' = Contributors(m)
  BY <1>2 DEF Contributors
<1> QED BY <1>3 DEF Given, ContributedTo

\* A step of tracer t that only moves it.
LEMMA TracerMoves ==
  ASSUME Inv, NEW t \in Tracers, NEW e \in Save, save' = [save EXCEPT ![t] = e],
         UNCHANGED <<hist, receipts, call, log, effects>>,
         e.report \in {<<>>, save[t].report},
         e.pc = "write" => e.name = Home("BINARY", hist["legacy"]) /\ Holds(e.held, hist[e.name])
  PROVE  Inv'
<1>1. Types /\ Ledger
  BY DEF Inv
<1>2. /\ hist' = hist /\ receipts' = receipts /\ call' = call /\ log' = log /\ effects' = effects
  OBVIOUS
<1>3. save' \in [Tracers -> Save] /\ save'[t] = e /\ \A u \in Tracers \ {t} : save'[u] = save[u]
  BY <1>1 DEF Types
<1>4. Types'
  BY <1>1, <1>2, <1>3 DEF Types
<1>5. OneBinaryRecord' /\ OneInitializer'
  BY <1>1, <1>2 DEF Ledger, OneBinaryRecord, OneInitializer
<1>6. \A c \in Callers : ContributionOK(c)' /\ CallerOK(c)'
  BY <1>1, <1>2 DEF Ledger, ContributionOK, CallerOK, HomeOf
<1>7. ASSUME NEW u \in Tracers PROVE TracerOK(u)' /\ ReportOK(u)'
  <2>1. TracerOK(u) /\ ReportOK(u)
    BY <1>1 DEF Ledger
  <2>2. CASE u = t
    BY <1>2, <1>3, <2>1, <2>2 DEF TracerOK, ReportOK
  <2>3. CASE u # t
    BY <1>2, <1>3, <2>1, <2>3 DEF TracerOK, ReportOK
  <2> QED BY <2>2, <2>3
<1>8. ASSUME NEW n \in Names, NEW i \in Images
      PROVE  Counted(hist'[n].populations[i], log'[n][i], Given(n, i)')
  <2>1. Given(n, i)' = Given(n, i)
    BY <1>2 DEF Given, ContributedTo, Contributors, Holding
  <2>2. Counted(hist[n].populations[i], log[n][i], Given(n, i))
    BY <1>1 DEF Ledger
  <2> QED BY <1>2, <2>1, <2>2
<1>9. Ledger'
  BY <1>5, <1>6, <1>7, <1>8 DEF Ledger
<1> QED BY <1>4, <1>9 DEF Inv

LEMMA SaveWriteStep ==
  ASSUME Inv, NEW t \in Tracers, SaveWrite(t)
  PROVE  Inv'
<1>0. Types /\ Ledger
  BY DEF Inv
<1>1. PICK s \in Save : s = save[t]
  BY <1>0 DEF Types
<1>2. PICK n \in Names : n = s.name
  BY <1>1, SaveFields
<1>3. PICK i \in Images : i = s.image
  BY <1>1, SaveFields
<1>4. s.pc = "write" /\ receipts' = receipts /\ call' = call /\ effects' = effects
  BY <1>1 DEF SaveWrite
<1>5. n = Home("BINARY", hist["legacy"]) /\ Holds(s.held, hist[n])
  BY <1>0, <1>1, <1>2, <1>4 DEF Ledger, TracerOK
<1>6. PICK new : new = [mergePopulation(s.held, s.image, s.run) EXCEPT !.rv = hist[s.name].rv + 1]
  OBVIOUS
<1>7. PICK again : again = IF s.attempts + 1 < MaxAttempts
                           THEN [s EXCEPT !.pc = "read", !.attempts = @ + 1, !.held = NoRecord] ELSE NoSave
  OBVIOUS
<1>8. CASE /\ hist[n].rv = s.held.rv
           /\ hist' = [hist EXCEPT ![n] = new]
           /\ log' = [log EXCEPT ![n][i] = Append(@, s.run)]
           /\ \/ save' = [save EXCEPT ![t] =
                            IF Readable(new) THEN [NoSave EXCEPT !.report = Report(new.populations[s.image])]
                            ELSE NoSave]
              \/ save' = [save EXCEPT ![t] = NoSave]
  <2>1. s.held = hist[n] /\ hist[n] \in Record /\ s.run \in SUBSET Facts
    BY <1>0, <1>1, <1>5, <1>8, SaveFields DEF Holds, Types
  <2>2. PICK r \in Record : r = hist[n]
    BY <2>1
  <2>3. PICK run \in SUBSET Facts : run = s.run
    BY <2>1
  <2>4. PICK m : m = mergePopulation(r, i, run)
    OBVIOUS
  <2>5. /\ m \in Record /\ m.populations[i] = mergeBehaviorIntoPopulation(r.populations[i], run)
        /\ \A j \in Images \ {i} : m.populations[j] = r.populations[j]
    BY <2>2, <2>3, <2>4, MergeRecord
  <2>6. PICK k \in Nat : k = r.rv + 1
    BY <2>2, RecordFields
  <2>7. new = [m EXCEPT !.rv = k]
    BY <1>2, <1>3, <1>6, <2>1, <2>2, <2>3, <2>4, <2>6
  <2>8. new \in Record /\ new.rv = k /\ new.populations = m.populations
    BY <2>5, <2>7 DEF Record
  <2>9. AtHome(n)
    BY <1>5, HomeIsAtHome
  <2>10. r.populations \in [Images -> Population] /\ r.populations[i] \in Population
    BY <2>2, RecordFields
  <2>11. PICK q : q = mergeBehaviorIntoPopulation(r.populations[i], run)
    OBVIOUS
  <2>12. /\ q \in Population /\ q.facts = r.populations[i].facts \cup run
         /\ q.contributions = r.populations[i].contributions /\ q.markers = r.populations[i].markers
    BY <2>10, <2>11, MergeRun
  <2>13. new.populations[i] = q /\ \A j \in Images \ {i} : new.populations[j] = r.populations[j]
    BY <2>5, <2>8, <2>11
  <2>14. /\ new.populations[Known].contributions = r.populations[Known].contributions
         /\ new.populations[Known].markers = r.populations[Known].markers
         /\ r.populations[Known].facts \subseteq new.populations[Known].facts
    <3>1. CASE i = Known
      BY <2>12, <2>13, <3>1
    <3>2. CASE i # Known
      BY <2>13, <3>2, KnownImage
    <3> QED BY <3>1, <3>2
  <2>15. \A b \in Callers : Keeps(Obs(b), hist[n].populations[Known], new.populations[Known])
    BY <2>2, <2>14 DEF Keeps
  <2>16. \A b \in Callers :
            /\ Linked(Obs(b), receipts[Obs(b)], effects[Obs(b)], hist'[HomeOf(b)].populations[Known])
            /\ \A a \in Names \ {HomeOf(b)} : Obs(b) \notin hist'[a].populations[Known].contributions
    BY <1>8, <2>8, <2>15, LinksKept
  <2>17. \A a \in Names, j \in Images : Given(a, j)' = Given(a, j)
    BY <1>0, <1>4, <1>8, <2>2, <2>8, <2>14, ContributorsKept DEF Types
  <2>18. log[n] \in [Images -> Seq(SUBSET Facts)] /\ log[n][i] \in Seq(SUBSET Facts)
    BY <1>0 DEF Types
  <2>19. PICK runs \in Seq(SUBSET Facts) : runs = log[n][i]
    BY <2>18
  <2>20. PICK more : more = Append(runs, run)
    OBVIOUS
  <2>21. more \in Seq(SUBSET Facts) /\ more # <<>>
    BY <2>3, <2>19, <2>20
  <2>22. log' = [log EXCEPT ![n] = [log[n] EXCEPT ![i] = more]]
    BY <1>0, <1>8, <2>3, <2>19, <2>20 DEF Types
  <2>23. /\ log' \in [Names -> [Images -> Seq(SUBSET Facts)]] /\ log'[n][i] = more
         /\ \A a \in Names, j \in Images : (a # n \/ j # i) => log'[a][j] = log[a][j]
    BY <1>0, <2>18, <2>21, <2>22 DEF Types
  <2>24. Counted(q, more, Given(n, i))
    <3>1. Counted(r.populations[i], runs, Given(n, i))
      BY <1>0, <2>2, <2>19 DEF Ledger
    <3> QED BY <2>3, <2>10, <2>11, <2>19, <2>20, <3>1, CountedMore
  <2>25. ASSUME NEW a \in Names, NEW j \in Images
         PROVE  Counted(hist'[a].populations[j], log'[a][j], Given(a, j)')
    <3>0. Counted(hist[a].populations[j], log[a][j], Given(a, j)) /\ Given(a, j)' = Given(a, j)
      BY <1>0, <2>17 DEF Ledger
    <3>1. CASE a = n /\ j = i
      <4>1. hist'[a].populations[j] = q
        BY <1>0, <1>8, <2>13, <3>1 DEF Types
      <4> QED BY <2>23, <2>24, <3>0, <3>1, <4>1
    <3>2. CASE a # n \/ j # i
      <4>1. hist'[a].populations[j] = hist[a].populations[j]
        BY <1>0, <1>8, <2>2, <2>13, <3>2 DEF Types
      <4> QED BY <2>23, <3>0, <3>2, <4>1
    <3> QED BY <3>1, <3>2
  <2>26. PICK e : /\ save' = [save EXCEPT ![t] = e]
                  /\ e = NoSave \/ e = [NoSave EXCEPT !.report = Report(q)]
    BY <1>3, <1>8, <2>13
  <2>27. Report(q) \in Nat \X [Facts -> {"low", "medium", "high"}] /\ Earned(Report(q), more)
    BY <2>12, <2>21, <2>24, ReportEarned
  <2>28. e \in Save /\ e.pc = "idle" /\ e.report \in {<<>>, Report(q)}
    BY <2>26, <2>27, NoSaveType DEF Save
  <2>29. save' \in [Tracers -> Save] /\ save'[t] = e /\ \A u \in Tracers \ {t} : save'[u] = save[u]
    BY <1>0, <2>26, <2>28 DEF Types
  <2>30. ASSUME NEW u \in Tracers PROVE ReportOK(u)'
    <3>1. CASE u = t
      <4>1. CASE e.report = <<>>
        BY <2>29, <3>1, <4>1 DEF ReportOK
      <4>2. CASE e.report = Report(q)
        <5>1. Earned(save'[u].report, log'[n][i])
          BY <2>23, <2>27, <2>29, <3>1, <4>2
        <5> QED BY <5>1 DEF ReportOK
      <4> QED BY <2>28, <4>1, <4>2
    <3>2. CASE u # t
      <4>1. save'[u] = save[u] /\ ReportOK(u)
        BY <1>0, <2>29, <3>2 DEF Ledger
      <4>2. CASE save[u].report = <<>>
        BY <4>1, <4>2 DEF ReportOK
      <4>3. CASE save[u].report # <<>>
        <5>1. PICK a \in Names, j \in Images : Earned(save[u].report, log[a][j])
          BY <4>1, <4>3 DEF ReportOK
        <5>2. Earned(save[u].report, log'[a][j])
          <6>1. CASE a = n /\ j = i
            BY <2>3, <2>19, <2>20, <2>23, <5>1, <6>1, EarnedLater
          <6>2. CASE a # n \/ j # i
            BY <2>23, <5>1, <6>2
          <6> QED BY <6>1, <6>2
        <5> QED BY <4>1, <5>2 DEF ReportOK
      <4> QED BY <4>2, <4>3
    <3> QED BY <3>1, <3>2
  <2>31. \A u \in Tracers : save'[u] = save[u] \/ save'[u].pc # "write"
    BY <2>28, <2>29
  <2>32. /\ call' \in [Callers -> Call] /\ effects' \in [Observations -> Nat]
         /\ \A b \in Callers : effects[Obs(b)] = 1 => effects'[Obs(b)] = 1
         /\ \A b \in Callers : call'[b] = call[b]
         /\ \A b \in Callers :
              /\ Linked(Obs(b), receipts[Obs(b)], effects'[Obs(b)], hist'[HomeOf(b)].populations[Known])
              /\ \A a \in Names \ {HomeOf(b)} : Obs(b) \notin hist'[a].populations[Known].contributions
    BY <1>0, <1>4, <2>16 DEF Types
  <2>33. hist' = [hist EXCEPT ![n] = new] /\ new.rv = hist[n].rv + 1
    BY <1>8, <2>2, <2>6, <2>8
  <2> QED BY <1>4, <2>8, <2>9, <2>23, <2>25, <2>29, <2>30, <2>31, <2>32, <2>33, RecordStep
<1>9. CASE save' = [save EXCEPT ![t] = again] /\ UNCHANGED <<hist, log>>
  <2>1. s.attempts + 1 \in Nat
    BY <1>1, SaveFields
  <2>2. again \in Save /\ again.pc # "write" /\ again.report \in {<<>>, save[t].report}
    BY <1>1, <1>7, <2>1, NoSaveType, NoRecordType DEF Save
  <2>3. UNCHANGED <<hist, receipts, call, log, effects>>
    BY <1>4, <1>9
  <2> QED BY <1>9, <2>2, <2>3, TracerMoves
<1> QED BY <1>1, <1>2, <1>3, <1>4, <1>6, <1>7, <1>8, <1>9 DEF SaveWrite

LEMMA TracerStep ==
  ASSUME Inv, NEW t \in Tracers, StartRun(t) \/ SaveRead(t) \/ SaveFails(t)
  PROVE  Inv'
<1>0. save[t] \in Save
  BY DEF Inv, Types
<1>1. UNCHANGED <<hist, receipts, call, log, effects>>
  BY DEF StartRun, SaveRead, SaveFails
<1>2. CASE StartRun(t)
  <2>1. PICK run \in SUBSET (Facts \ Exec), i \in Images :
          save' = [save EXCEPT ![t] = [NoSave EXCEPT !.pc = "read", !.run = run, !.image = i]]
    BY <1>2 DEF StartRun
  <2>2. PICK e : e = [NoSave EXCEPT !.pc = "read", !.run = run, !.image = i]
    OBVIOUS
  <2>3. run \in SUBSET Facts
    BY <2>1
  <2>4. e \in Save /\ e.pc = "read" /\ e.report = <<>>
    BY <2>2, <2>3, NoSaveType DEF Save
  <2>5. save' = [save EXCEPT ![t] = e] /\ e.report \in {<<>>, save[t].report}
    BY <2>1, <2>2, <2>4
  <2> QED BY <1>1, <2>4, <2>5, TracerMoves
<1>3. CASE SaveRead(t)
  <2>1. PICK n : n = RecordName("BINARY")
    OBVIOUS
  <2>2. n = Home("BINARY", hist["legacy"]) /\ n \in Names
    BY <2>1, RecordNameIsHome, HomeType
  <2>3. PICK h \in Record : h = hist[n]
    BY <2>2 DEF Inv, Types
  <2>4. PICK s \in Save : s = save[t]
    BY <1>0
  <2>5. PICK e : /\ save' = [save EXCEPT ![t] = e]
                 /\ e = NoSave \/ e = [s EXCEPT !.pc = "write", !.name = n, !.held = h]
    BY <1>3, <2>1, <2>3, <2>4 DEF SaveRead
  <2>6. /\ e \in Save /\ e.report \in {<<>>, save[t].report}
        /\ e.pc = "write" => e.name = n /\ e.held = h
    BY <2>2, <2>3, <2>4, <2>5, NoSaveType DEF Save
  <2>7. Holds(h, h)
    BY <2>3, RecordFields DEF Holds
  <2> QED BY <1>1, <2>2, <2>3, <2>5, <2>6, <2>7, TracerMoves
<1>4. CASE SaveFails(t)
  <2>1. save' = [save EXCEPT ![t] = NoSave]
    BY <1>4 DEF SaveFails
  <2> QED BY <1>1, <2>1, NoSaveType, TracerMoves
<1> QED BY <1>2, <1>3, <1>4

\* One write of ApplyContribution to its record: conflict, or new stored.
LEMMA PutHistoryCases ==
  ASSUME Inv, NEW c \in Callers, call[c].pc \in {"write", "cleanWrite"}, NEW new \in Record, NEW next, NEW again,
         PutHistory(c, new, next, again)
  PROVE  /\ receipts' = receipts /\ save' = save /\ log' = log
         /\ call[c].name = HomeOf(c)
         /\ \/ /\ hist[HomeOf(c)] = call[c].held
               /\ hist' = [hist EXCEPT ![HomeOf(c)] = [new EXCEPT !.rv = hist[HomeOf(c)].rv + 1]]
               /\ Become(c, next) \/ Become(c, Return)
            \/ /\ hist' = hist
               /\ Become(c, [Goto(call[c], again) EXCEPT !.attempts = @ + 1, !.held = NoRecord]) \/ Become(c, Return)
<1>1. call[c].name = HomeOf(c) /\ Holds(call[c].held, hist[HomeOf(c)])
  BY Knows DEF CallOK
<1> QED BY <1>1 DEF PutHistory, Holds

\* A retry goes back to reading, or gives up.
LEMMA RetryStep ==
  ASSUME Inv, NEW c \in Callers, NEW l \in {"read", "cleanRead"},
         call[c].pc = IF l = "read" THEN "write" ELSE "cleanWrite",
         Become(c, [Goto(call[c], l) EXCEPT !.attempts = @ + 1, !.held = NoRecord]),
         UNCHANGED <<hist, receipts, save, log, effects>>
  PROVE  Inv'
<1>1. PICK r \in Call : r = call[c]
  BY Knows
<1>2. PICK q \in Call : q = Goto(r, l) /\ q.pc = l /\ q.name = r.name /\ q.corrupt = r.corrupt /\ q.rv = r.rv
  BY <1>1, GotoFields
<1>3. CallOK(r, Obs(c), Digest(c), HomeOf(c), receipts[Obs(c)], effects[Obs(c)], hist[HomeOf(c)])
  BY <1>1, Knows
<1>4. PICK d : d = [q EXCEPT !.attempts = @ + 1, !.held = NoRecord]
  OBVIOUS
<1>5. q.attempts + 1 \in Nat
  BY <1>2, CallFields
<1>6. d \in Call /\ d.pc = l /\ d.name = r.name /\ d.corrupt = r.corrupt /\ d.rv = r.rv
  BY <1>2, <1>4, <1>5, NoRecordType DEF Call
<1>7. CallOK(d, Obs(c), Digest(c), HomeOf(c), receipts[Obs(c)], effects[Obs(c)], hist[HomeOf(c)])
  BY <1>1, <1>3, <1>6 DEF CallOK, BoundPcs, MergedPcs, CommittedPcs
<1>8. call' = [call EXCEPT ![c] = d] /\ d.pc # "init"
  BY <1>1, <1>2, <1>4, <1>6 DEF Become
<1> QED BY <1>6, <1>7, <1>8, QuietStep

LEMMA CleanupStep ==
  ASSUME Inv, NEW c \in Callers, cleanupContributionMarker(c)
  PROVE  Inv'
<1>0. Types /\ Ledger
  BY DEF Inv
<1>1. PICK r \in Call : r = call[c]
  BY Knows
<1>2. PICK h \in Record : h = r.held
  BY <1>1, CallFields
<1>3. PICK p \in Population : p = h.populations[Known]
  BY <1>2, RecordFields
<1>4. PICK q : q = [p EXCEPT !.markers = p.markers \ {Obs(c)}]
  OBVIOUS
<1>5. /\ q \in Population /\ q.contributions = p.contributions /\ q.facts = p.facts
      /\ q.markers = p.markers \ {Obs(c)} /\ q.runs = p.runs /\ q.seen = p.seen
  BY <1>3, <1>4 DEF Population
<1>6. PICK P : P = [h.populations EXCEPT ![Known] = q]
  OBVIOUS
<1>7. P \in [Images -> Population] /\ P[Known] = q /\ \A i \in Images \ {Known} : P[i] = h.populations[i]
  BY <1>2, <1>5, <1>6, KnownImage, RecordFields
<1>8. PICK new : new = [h EXCEPT !.populations = P]
  OBVIOUS
<1>9. new \in Record /\ new.populations = P
  BY <1>2, <1>7, <1>8 DEF Record
<1>10. new = [r.held EXCEPT !.populations[Known].markers = @ \ {Obs(c)}]
  BY <1>2, <1>3, <1>4, <1>6, <1>8, KnownImage DEF Record, Population
<1>11. r.pc = "cleanWrite" /\ PutHistory(c, new, Return, "cleanRead") /\ effects' = effects
  BY <1>1, <1>10 DEF cleanupContributionMarker
<1>12. /\ receipts' = receipts /\ save' = save /\ log' = log
       /\ \/ /\ hist[HomeOf(c)] = r.held
             /\ hist' = [hist EXCEPT ![HomeOf(c)] = [new EXCEPT !.rv = hist[HomeOf(c)].rv + 1]]
             /\ Become(c, Return)
          \/ /\ hist' = hist
             /\ Become(c, [Goto(call[c], "cleanRead") EXCEPT !.attempts = @ + 1, !.held = NoRecord]) \/ Become(c, Return)
  BY <1>1, <1>9, <1>11, PutHistoryCases
<1>13. CASE /\ hist' = hist
            /\ Become(c, [Goto(call[c], "cleanRead") EXCEPT !.attempts = @ + 1, !.held = NoRecord]) \/ Become(c, Return)
  <2>1. UNCHANGED <<hist, receipts, save, log, effects>>
    BY <1>11, <1>12, <1>13
  <2> QED BY <1>1, <1>11, <1>13, <2>1, RetryStep, QuietReturn
<1>14. CASE /\ hist[HomeOf(c)] = r.held
            /\ hist' = [hist EXCEPT ![HomeOf(c)] = [new EXCEPT !.rv = hist[HomeOf(c)].rv + 1]]
            /\ Become(c, Return)
  <2>1. PICK n \in Names : n = HomeOf(c)
    BY HomeType
  <2>2. PICK k \in Nat : k = hist[n].rv + 1
    BY <1>2, <1>14, <2>1, RecordFields
  <2>3. PICK x : x = [new EXCEPT !.rv = k]
    OBVIOUS
  <2>4. x \in Record /\ x.rv = k /\ x.populations = P
    BY <1>9, <2>2, <2>3 DEF Record
  <2>5. hist' = [hist EXCEPT ![n] = x] /\ x.rv = hist[n].rv + 1 /\ hist[n] = h
    BY <1>2, <1>14, <2>1, <2>2, <2>3, <2>4
  <2>6. AtHome(n)
    BY <2>1, HomeIsAtHome
  <2>7. call' = [call EXCEPT ![c] = NoCall]
    BY <1>14 DEF Become, Return
  <2>8. call' \in [Callers -> Call] /\ call'[c] = NoCall /\ \A b \in Callers \ {c} : call'[b] = call[b]
    BY <1>0, <2>7, NoCallType DEF Types
  <2>9. ASSUME NEW b \in Callers
        PROVE  \/ call'[b] = call[b]
               \/ /\ call'[b].pc # "init"
                  /\ CallOK(call'[b], Obs(b), Digest(b), HomeOf(b), receipts[Obs(b)], effects'[Obs(b)], hist'[HomeOf(b)])
    BY <2>8, IdleOK
  <2>10. /\ receipts[Obs(c)].state = "COMMITTED" /\ effects[Obs(c)] = 1
         /\ Linked(Obs(c), receipts[Obs(c)], effects[Obs(c)], p)
    BY <1>1, <1>2, <1>3, <1>11, <2>1, <2>5, Knows DEF CallOK, CommittedPcs, MergedPcs
  <2>11. hist'[n] = x /\ x.populations[Known] = q /\ \A m \in Names \ {n} : hist'[m] = hist[m]
    BY <1>0, <1>7, <2>4, <2>5 DEF Types
  <2>12. ASSUME NEW b \in Callers
         PROVE  /\ Linked(Obs(b), receipts[Obs(b)], effects[Obs(b)], hist'[HomeOf(b)].populations[Known])
                /\ \A m \in Names \ {HomeOf(b)} : Obs(b) \notin hist'[m].populations[Known].contributions
    <3>1. CASE Obs(b) # Obs(c)
      <4>1. Keeps(Obs(b), hist[n].populations[Known], x.populations[Known])
        BY <1>3, <1>5, <2>5, <2>11, <3>1 DEF Keeps
      <4> QED BY <2>4, <2>5, <4>1, LinksKept
    <3>2. CASE Obs(b) = Obs(c)
      <4>1. HomeOf(b) = n
        BY <2>1, <3>2, HistoryAssumption DEF Obs, HomeOf
      <4>2. Linked(Obs(b), receipts[Obs(b)], effects[Obs(b)], q)
        BY <1>5, <2>10, <3>2 DEF Linked
      <4>3. \A m \in Names \ {n} : Obs(b) \notin hist[m].populations[Known].contributions
        BY <1>0, <4>1 DEF Ledger, ContributionOK
      <4> QED BY <2>11, <4>1, <4>2, <4>3
    <3> QED BY <3>1, <3>2
  <2>13. \A m \in Names, i \in Images : Given(m, i)' = Given(m, i)
    BY <1>0, <1>3, <1>5, <1>12, <2>4, <2>5, <2>11, ContributorsKept DEF Types
  <2>14. ASSUME NEW m \in Names, NEW i \in Images
         PROVE  Counted(hist'[m].populations[i], log'[m][i], Given(m, i)')
    <3>1. Counted(hist[m].populations[i], log[m][i], Given(m, i)) /\ Given(m, i)' = Given(m, i) /\ log' = log
      BY <1>0, <1>12, <2>13 DEF Ledger
    <3>2. CASE m = n /\ i = Known
      <4>1. hist'[m].populations[i] = q /\ hist[m].populations[i] = p
        BY <1>3, <2>5, <2>11, <3>2
      <4> QED BY <1>5, <3>1, <4>1 DEF Counted
    <3>3. CASE m # n \/ i # Known
      <4>1. hist'[m].populations[i] = hist[m].populations[i]
        BY <1>7, <2>4, <2>5, <2>11, <3>3
      <4> QED BY <3>1, <4>1
    <3> QED BY <3>2, <3>3
  <2>15. /\ save' \in [Tracers -> Save] /\ log' \in [Names -> [Images -> Seq(SUBSET Facts)]]
         /\ effects' \in [Observations -> Nat] /\ \A b \in Callers : effects[Obs(b)] = 1 => effects'[Obs(b)] = 1
         /\ \A t \in Tracers : save'[t] = save[t]
         /\ \A b \in Callers :
              /\ Linked(Obs(b), receipts[Obs(b)], effects'[Obs(b)], hist'[HomeOf(b)].populations[Known])
              /\ \A m \in Names \ {HomeOf(b)} : Obs(b) \notin hist'[m].populations[Known].contributions
    BY <1>0, <1>11, <1>12, <2>12 DEF Types
  <2>16. \A t \in Tracers : ReportOK(t)'
    BY <1>0, <1>12 DEF Ledger, ReportOK
  <2> QED BY <1>12, <2>4, <2>5, <2>6, <2>8, <2>9, <2>14, <2>15, <2>16, RecordStep
<1> QED BY <1>12, <1>13, <1>14

\* A write that lists observation o in the record n adds the content of its
\* callers to what n was given, and changes no other record.
LEMMA GivenMore ==
  ASSUME Inv, NEW c \in Callers, NEW n \in Names, NEW h \in Record, hist' = [hist EXCEPT ![n] = h],
         receipts' = receipts, receipts[Obs(c)].digest = Digest(c),
         h.populations[Known].contributions = hist[n].populations[Known].contributions \cup {Obs(c)}
  PROVE  /\ \A m \in Names, i \in Images : (m # n \/ i # Known) => Given(m, i)' = Given(m, i)
         /\ Given(n, Known)' = Given(n, Known) \cup Contributed(c)
<1>1. hist \in [Names -> Record]
  BY DEF Inv, Types
<1>2. hist'[n] = h /\ \A m \in Names \ {n} : hist'[m] = hist[m]
  BY <1>1
<1>3. \A b \in Callers, m \in Names \ {n} : m \in Holding(b)' <=> m \in Holding(b)
  BY <1>2 DEF Holding
<1>4. \A b \in Callers : n \in Holding(b)' <=> (n \in Holding(b) \/ Obs(b) = Obs(c))
  BY <1>2 DEF Holding
<1>5. \A m \in Names \ {n} : Contributors(m)' = Contributors(m)
  BY <1>3 DEF Contributors
<1>6. \A m \in Names, i \in Images : (m # n \/ i # Known) => Given(m, i)' = Given(m, i)
  BY <1>5 DEF Given, ContributedTo
<1>7. \A b \in Callers :
        b \in Contributors(n)' <=> (b \in Contributors(n) \/ (Obs(b) = Obs(c) /\ Digest(b) = Digest(c)))
  BY <1>4 DEF Contributors
<1>8. \A b \in Callers : Digest(b) = Contributed(b)
  BY ObsType
<1>9. c \in Contributors(n)' /\ Contributors(n) \subseteq Callers /\ Contributors(n)' \subseteq Callers
  BY <1>7 DEF Contributors
<1>10. ContributedTo(n)' = ContributedTo(n) \cup Contributed(c)
  <2>1. ASSUME NEW f \in ContributedTo(n)' PROVE f \in ContributedTo(n) \cup Contributed(c)
    <3>1. PICK b \in Contributors(n)' : f \in Contributed(b)
      BY <2>1 DEF ContributedTo
    <3>2. CASE b \in Contributors(n)
      BY <3>1, <3>2 DEF ContributedTo
    <3>3. CASE b \notin Contributors(n)
      BY <1>7, <1>8, <1>9, <3>1, <3>3
    <3> QED BY <3>2, <3>3
  <2>2. ASSUME NEW f \in ContributedTo(n) \cup Contributed(c) PROVE f \in ContributedTo(n)'
    <3>1. PICK b \in Contributors(n)' : f \in Contributed(b)
      <4>1. CASE f \in Contributed(c)
        BY <1>9, <4>1
      <4>2. CASE f \in ContributedTo(n)
        <5>1. PICK b \in Contributors(n) : f \in Contributed(b)
          BY <4>2 DEF ContributedTo
        <5> QED BY <1>7, <1>9, <5>1
      <4> QED BY <4>1, <4>2
    <3> QED BY <3>1 DEF ContributedTo
  <2> QED BY <2>1, <2>2
<1> QED BY <1>6, <1>10 DEF Given

LEMMA WriteHistoryStep ==
  ASSUME Inv, NEW c \in Callers, WriteHistory(c)
  PROVE  Inv'
<1>0. Types /\ Ledger
  BY DEF Inv
<1>1. PICK r \in Call : r = call[c]
  BY Knows
<1>2. PICK h \in Record : h = r.held
  BY <1>1, CallFields
<1>3. PICK p \in Population : p = h.populations[Known]
  BY <1>2, RecordFields
<1>4. Obs(c) \in Observations /\ Digest(c) = Contributed(c) /\ Contributed(c) \in SUBSET Facts
  BY ObsType
<1>5. PICK q : q = addContribution(p, Obs(c), Contributed(c))
  OBVIOUS
<1>6. /\ q \in Population /\ q.contributions = p.contributions \cup {Obs(c)} /\ q.facts = p.facts \cup Contributed(c)
      /\ q.markers = p.markers \cup {Obs(c)} /\ q.runs = p.runs /\ q.seen = p.seen
  BY <1>3, <1>4, <1>5 DEF addContribution, Population
<1>7. PICK P : P = [h.populations EXCEPT ![Known] = q]
  OBVIOUS
<1>8. P \in [Images -> Population] /\ P[Known] = q /\ \A i \in Images \ {Known} : P[i] = h.populations[i]
  BY <1>2, <1>6, <1>7, KnownImage, RecordFields
<1>9. PICK new : new = [h EXCEPT !.populations = P]
  OBVIOUS
<1>10. new \in Record /\ new.populations = P
  BY <1>2, <1>8, <1>9 DEF Record
<1>11. new = [r.held EXCEPT !.populations[Known] = addContribution(@, Obs(c), Contributed(c))]
  BY <1>2, <1>3, <1>5, <1>7, <1>9, KnownImage DEF Record
<1>12. PICK g \in Call : g = Goto(r, "commitRead") /\ g.pc = "commitRead" /\ g.name = r.name /\ g.rv = r.rv /\ g.corrupt = r.corrupt
  BY GotoFields
<1>13. PICK d : d = [g EXCEPT !.held = NoRecord, !.attempts = 0]
  OBVIOUS
<1>14. d \in Call /\ d.pc = "commitRead" /\ d.name = r.name /\ d.rv = r.rv /\ d.corrupt = r.corrupt
  BY <1>12, <1>13, NoRecordType DEF Call
<1>15. /\ r.pc = "write" /\ PutHistory(c, new, d, "read")
       /\ effects' = [effects EXCEPT ![Obs(c)] = IF hist' = hist THEN @ ELSE @ + 1]
  BY <1>1, <1>11, <1>12, <1>13 DEF WriteHistory
<1>16. /\ receipts' = receipts /\ save' = save /\ log' = log
       /\ \/ /\ hist[HomeOf(c)] = r.held
             /\ hist' = [hist EXCEPT ![HomeOf(c)] = [new EXCEPT !.rv = hist[HomeOf(c)].rv + 1]]
             /\ Become(c, d) \/ Become(c, Return)
          \/ /\ hist' = hist
             /\ Become(c, [Goto(call[c], "read") EXCEPT !.attempts = @ + 1, !.held = NoRecord]) \/ Become(c, Return)
  BY <1>1, <1>10, <1>15, PutHistoryCases
<1>17. CASE /\ hist' = hist
            /\ Become(c, [Goto(call[c], "read") EXCEPT !.attempts = @ + 1, !.held = NoRecord]) \/ Become(c, Return)
  <2>1. effects' = effects
    BY <1>0, <1>15, <1>17 DEF Types
  <2>2. UNCHANGED <<hist, receipts, save, log, effects>>
    BY <1>16, <1>17, <2>1
  <2> QED BY <1>1, <1>15, <1>17, <2>2, RetryStep, QuietReturn
<1>18. CASE /\ hist[HomeOf(c)] = r.held
            /\ hist' = [hist EXCEPT ![HomeOf(c)] = [new EXCEPT !.rv = hist[HomeOf(c)].rv + 1]]
            /\ Become(c, d) \/ Become(c, Return)
  <2>1. PICK n \in Names : n = HomeOf(c)
    BY HomeType
  <2>2. PICK k \in Nat : k = hist[n].rv + 1 /\ k # hist[n].rv
    <3>1. hist[n] = h /\ h.rv \in Nat
      BY <1>2, <1>18, <2>1, RecordFields
    <3> QED BY <3>1
  <2>3. PICK x : x = [new EXCEPT !.rv = k]
    OBVIOUS
  <2>4. x \in Record /\ x.rv = k /\ x.populations = P
    BY <1>10, <2>2, <2>3 DEF Record
  <2>5. hist' = [hist EXCEPT ![n] = x] /\ x.rv = hist[n].rv + 1 /\ hist[n] = h
    BY <1>2, <1>18, <2>1, <2>2, <2>3, <2>4
  <2>6. AtHome(n)
    BY <2>1, HomeIsAtHome
  <2>7. /\ CallOK(r, Obs(c), Digest(c), n, receipts[Obs(c)], effects[Obs(c)], h)
        /\ Linked(Obs(c), receipts[Obs(c)], effects[Obs(c)], p)
    BY <1>1, <1>3, <2>1, <2>5, Knows
  <2>8. Obs(c) \notin p.contributions
    BY <1>2, <1>3, <1>15, <2>7 DEF CallOK
  <2>9. effects[Obs(c)] = 0 /\ receipts[Obs(c)].state = "PREPARED" /\ receipts[Obs(c)].digest = Digest(c) /\ r.rv = 2
        /\ r.name = n /\ ~r.corrupt
    BY <1>15, <2>7, <2>8 DEF CallOK, Linked, BoundPcs
  <2>10. hist'[n] = x /\ x.populations[Known] = q /\ \A m \in Names \ {n} : hist'[m] = hist[m]
    BY <1>0, <1>8, <2>4, <2>5 DEF Types
  <2>11. hist' # hist
    BY <2>2, <2>4, <2>10
  <2>12. effects' = [effects EXCEPT ![Obs(c)] = effects[Obs(c)] + 1]
    BY <1>15, <2>11
  <2>13. /\ effects' \in [Observations -> Nat] /\ effects'[Obs(c)] = 1
         /\ \A o \in Observations \ {Obs(c)} : effects'[o] = effects[o]
    BY <1>0, <1>4, <2>9, <2>12 DEF Types
  <2>14. PICK e \in Call : call' = [call EXCEPT ![c] = e] /\ (e = d \/ e = NoCall)
    BY <1>14, <1>18, NoCallType DEF Become, Return
  <2>15. CallOK(e, Obs(c), Digest(c), n, receipts[Obs(c)], 1, x) /\ e.pc # "init"
    <3>1. CallOK(d, Obs(c), Digest(c), n, receipts[Obs(c)], 1, x)
      BY <1>14, <2>9 DEF CallOK, BoundPcs, MergedPcs, CommittedPcs
    <3> QED BY <1>14, <2>14, <3>1, IdleOK
  <2>16. call' \in [Callers -> Call] /\ call'[c] = e /\ \A b \in Callers \ {c} : call'[b] = call[b]
    BY <1>0, <2>14 DEF Types
  <2>17. ASSUME NEW b \in Callers
         PROVE  \/ call'[b] = call[b]
                \/ /\ call'[b].pc # "init"
                   /\ CallOK(call'[b], Obs(b), Digest(b), HomeOf(b), receipts[Obs(b)], effects'[Obs(b)], hist'[HomeOf(b)])
    BY <2>1, <2>10, <2>13, <2>15, <2>16
  <2>18. ASSUME NEW b \in Callers
         PROVE  /\ Linked(Obs(b), receipts[Obs(b)], effects'[Obs(b)], hist'[HomeOf(b)].populations[Known])
                /\ \A m \in Names \ {HomeOf(b)} : Obs(b) \notin hist'[m].populations[Known].contributions
    <3>1. CASE Obs(b) # Obs(c)
      <4>1. Keeps(Obs(b), hist[n].populations[Known], x.populations[Known])
        BY <1>3, <1>6, <2>5, <2>10, <3>1 DEF Keeps
      <4>2. effects'[Obs(b)] = effects[Obs(b)]
        BY <2>13, <3>1, ObsType
      <4> QED BY <2>4, <2>5, <4>1, <4>2, LinksKept
    <3>2. CASE Obs(b) = Obs(c)
      <4>1. HomeOf(b) = n
        BY <2>1, <3>2, HistoryAssumption DEF Obs, HomeOf
      <4>2. Linked(Obs(b), receipts[Obs(b)], 1, q)
        BY <1>4, <1>6, <2>7, <2>9, <3>2 DEF Linked
      <4>3. \A m \in Names \ {n} : Obs(b) \notin hist[m].populations[Known].contributions
        BY <1>0, <4>1 DEF Ledger, ContributionOK
      <4> QED BY <2>10, <2>13, <3>2, <4>1, <4>2, <4>3
    <3> QED BY <3>1, <3>2
  <2>19. /\ \A m \in Names, i \in Images : (m # n \/ i # Known) => Given(m, i)' = Given(m, i)
         /\ Given(n, Known)' = Given(n, Known) \cup Contributed(c)
    <3>1. x.populations[Known].contributions = hist[n].populations[Known].contributions \cup {Obs(c)}
      BY <1>3, <1>6, <2>5, <2>10
    <3> QED BY <1>16, <2>4, <2>5, <2>9, <3>1, GivenMore
  <2>20. ASSUME NEW m \in Names, NEW i \in Images
         PROVE  Counted(hist'[m].populations[i], log'[m][i], Given(m, i)')
    <3>1. Counted(hist[m].populations[i], log[m][i], Given(m, i)) /\ log' = log
      BY <1>0, <1>16 DEF Ledger
    <3>2. CASE m = n /\ i = Known
      <4>1. hist'[m].populations[i] = q /\ hist[m].populations[i] = p
        BY <1>3, <2>5, <2>10, <3>2
      <4> QED BY <1>6, <2>19, <3>1, <3>2, <4>1 DEF Counted
    <3>3. CASE m # n \/ i # Known
      <4>1. hist'[m].populations[i] = hist[m].populations[i]
        BY <1>8, <2>4, <2>5, <2>10, <3>3
      <4> QED BY <2>19, <3>1, <3>3, <4>1
    <3> QED BY <3>2, <3>3
  <2>21. /\ save' \in [Tracers -> Save] /\ log' \in [Names -> [Images -> Seq(SUBSET Facts)]]
         /\ \A b \in Callers : effects[Obs(b)] = 1 => effects'[Obs(b)] = 1
         /\ \A t \in Tracers : save'[t] = save[t]
    BY <1>0, <1>16, <2>13, ObsType DEF Types
  <2>22. \A t \in Tracers : ReportOK(t)'
    BY <1>0, <1>16 DEF Ledger, ReportOK
  <2> QED BY <1>16, <2>4, <2>5, <2>6, <2>13, <2>16, <2>17, <2>18, <2>20, <2>21, <2>22, RecordStep
<1> QED BY <1>16, <1>17, <1>18

-----------------------------------------------------------------------------
(* Theorems                                                                    *)

LEMMA InitInv == Init => Inv
<1> SUFFICES ASSUME Init PROVE Inv
  OBVIOUS
<1>1. \A n \in Names : hist[n] \in Record /\ hist[n].populations = NoRecord.populations
  BY NoRecordType, LegacyRecordType DEF Init
<1>2. NoReceipt \in Receipt /\ NoReceipt.state = "none" /\ NoReceipt.rv = 0
  BY DEF NoReceipt, Receipt
<1>3. \A n \in Names, i \in Images : log[n][i] = <<>> /\ hist[n].populations[i] = NoPopulation
  BY <1>1 DEF Init, NoRecord
<1>4. <<>> \in Seq(SUBSET Facts)
  OBVIOUS
<1>5. Types
  <2>1. hist \in [Names -> Record]
    BY <1>1, NoRecordType, LegacyRecordType DEF Init
  <2> QED BY <1>2, <1>4, <2>1, NoCallType, NoSaveType DEF Init, Types
<1>6. OneBinaryRecord
  <2>1. hist["v2"] = NoRecord
    BY DEF Init, Names
  <2> QED BY <2>1, NoRecordType DEF OneBinaryRecord, Exists
<1>7. \A c \in Callers, n \in Names : Obs(c) \in Observations /\ Obs(c) \notin hist[n].populations[Known].contributions
  <2>1. NoPopulation.contributions = {}
    BY DEF NoPopulation
  <2> QED BY <1>3, <2>1, KnownImage, ObsType
<1>8. ASSUME NEW c \in Callers PROVE ContributionOK(c) /\ CallerOK(c)
  <2>1. HomeOf(c) \in Names /\ Obs(c) \in Observations
    BY HomeType, ObsType
  <2>2. receipts[Obs(c)] = NoReceipt /\ effects[Obs(c)] = 0 /\ call[c] = NoCall
    BY <2>1 DEF Init
  <2>3. hist[HomeOf(c)].populations[Known] = NoPopulation
    BY <1>3, <2>1, KnownImage
  <2>4. Linked(Obs(c), NoReceipt, 0, NoPopulation)
    BY <1>2 DEF Linked, NoPopulation
  <2>5. ContributionOK(c)
    BY <1>7, <2>2, <2>3, <2>4 DEF ContributionOK
  <2> QED BY <2>2, <2>5, IdleOK DEF CallerOK
<1>9. OneInitializer
  BY NoCallType DEF Init, OneInitializer
<1>10. \A t \in Tracers : TracerOK(t) /\ ReportOK(t)
  BY NoSaveType DEF Init, TracerOK, ReportOK
<1>11. ASSUME NEW n \in Names, NEW i \in Images
       PROVE  Counted(hist[n].populations[i], log[n][i], Given(n, i))
  <2>1. Contributors(n) = {}
    BY <1>7 DEF Contributors, Holding
  <2>2. Given(n, i) = {}
    BY <2>1 DEF Given, ContributedTo
  <2>3. \A f : Times(<<>>, f) = 0
    <3>1. \A f : {k \in DOMAIN <<>> : f \in <<>>[k]} = {}
      OBVIOUS
    <3> QED BY <3>1, FS_EmptySet DEF Times
  <2>4. Counted(NoPopulation, <<>>, {})
    BY <2>3 DEF Counted, NoPopulation
  <2> QED BY <1>3, <2>2, <2>4
<1>12. Ledger
  BY <1>6, <1>8, <1>9, <1>10, <1>11 DEF Ledger
<1> QED BY <1>5, <1>12 DEF Inv

LEMMA NextInv == Inv /\ [Next]_vars => Inv'
<1> SUFFICES ASSUME Inv, [Next]_vars PROVE Inv'
  OBVIOUS
<1>1. ASSUME NEW c \in Callers, Contribute(c) PROVE Inv'
  BY <1>1, BeginStep, GetStep, CreateStep, InitReceiptStep, ReadHistoryStep, ConfirmStep, WriteHistoryStep,
     CommitReadStep, CommitWriteStep, CommitAgainStep, CleanReadStep, CleanupStep DEF Contribute
<1>2. ASSUME NEW c \in Callers, CallFails(c) PROVE Inv'
  BY <1>2, CallFailsStep
<1>3. ASSUME NEW t \in Tracers, StartRun(t) \/ Trace(t) \/ SaveFails(t) PROVE Inv'
  BY <1>3, TracerStep, SaveWriteStep DEF Trace
<1>4. CASE UNCHANGED vars
  BY <1>4 DEF vars, Inv, Types, Ledger, OneBinaryRecord, ContributionOK, CallerOK, HomeOf, OneInitializer,
     TracerOK, ReportOK, Given, ContributedTo, Contributors, Holding
<1> QED BY <1>1, <1>2, <1>3, <1>4 DEF Next

\* The invariant holds in every reachable state of the history: internal/history
\* keeps record, receipt and the callers' locals tied together under every
\* interleaving of contributions, training runs, lost answers and deaths.
THEOREM HistoryInvariant == Spec => []Inv
<1> QED BY InitInv, NextInv, PTL DEF Spec

\* No merged run and no contributed fact is lost, and none is counted twice,
\* although mergePopulation, applyHistoryEffect and cleanupContributionMarker
\* each rewrite the whole record from what they read.
THEOREM NoRunIsLost == Spec => []NothingLost
<1>1. Inv => NothingLost
  <2> SUFFICES ASSUME Inv PROVE NothingLost
    OBVIOUS
  <2>1. Types /\ Ledger
    BY DEF Inv
  <2>2. TypeOK
    <3>1. \A t \in Tracers : save[t].pc \in {"idle", "read", "write"} /\ save[t].held \in Record
      BY <2>1, SaveFields DEF Types
    <3> QED BY <2>1, <3>1 DEF Types, TypeOK
  <2>3. ASSUME NEW n \in Names, NEW i \in Images
        PROVE  LET p == hist[n].populations[i]
               IN  /\ p.runs = Len(log[n][i])
                   /\ \A f \in Facts : p.seen[f] = Times(log[n][i], f)
                   /\ p.facts = {f \in Facts : Times(log[n][i], f) > 0}
                                \cup (IF i = Known THEN ContributedTo(n) ELSE {})
    BY <2>1 DEF Ledger, Counted, Given
  <2> QED BY <2>2, <2>3 DEF NothingLost
<1> QED BY <1>1, HistoryInvariant, PTL

\* ApplyContribution merges an observation exactly once, whatever callers,
\* retries and deaths there are: the merges are as many as the records that
\* list it, a COMMITTED receipt has its facts in the record, and an unfinished
\* one left a marker to recover from.
THEOREM ContributionsAreAppliedOnce == Spec => []AppliedExactlyOnce
<1>1. Inv => AppliedExactlyOnce
  <2> SUFFICES ASSUME Inv, NEW c \in Callers
               PROVE  /\ effects[Obs(c)] =< 1 /\ Cardinality(Holding(c)) = effects[Obs(c)]
                      /\ receipts[Obs(c)].state = "COMMITTED" => effects[Obs(c)] = 1
                      /\ ~call[c].corrupt
                      /\ \A n \in Holding(c) :
                            /\ receipts[Obs(c)].digest \subseteq hist[n].populations[Known].facts
                            /\ receipts[Obs(c)].state # "COMMITTED" => Obs(c) \in hist[n].populations[Known].markers
    BY DEF AppliedExactlyOnce
  <2>1. /\ Linked(Obs(c), receipts[Obs(c)], effects[Obs(c)], hist[HomeOf(c)].populations[Known])
        /\ HomeOf(c) \in Names /\ ~call[c].corrupt
    BY Knows DEF CallOK
  <2>2. \A n \in Holding(c) : n = HomeOf(c) /\ effects[Obs(c)] = 1
    BY HoldingIs DEF Holding
  <2>3. Cardinality(Holding(c)) = effects[Obs(c)]
    <3>1. CASE effects[Obs(c)] = 0
      <4>1. Holding(c) = {}
        BY <2>2, <3>1
      <4> QED BY <3>1, <4>1, FS_EmptySet
    <3>2. CASE effects[Obs(c)] = 1
      <4>1. Holding(c) = {HomeOf(c)}
        BY <2>1, <2>2, <3>2, HoldingIs
      <4> QED BY <3>2, <4>1, FS_Singleton
    <3> QED BY <2>1, <3>1, <3>2 DEF Linked
  <2> QED BY <2>1, <2>2, <2>3 DEF Linked
<1> QED BY <1>1, HistoryInvariant, PTL

\* confidenceForHistory never overstates: "high" in a report of trace --history
\* means at least two merged runs, all of which saw the fact.
THEOREM ReportsAreEarned == Spec => []ConfidenceEarned
<1>1. Inv => ConfidenceEarned
  BY DEF Inv, Ledger, ReportOK, Earned, ConfidenceEarned
<1> QED BY <1>1, HistoryInvariant, PTL

==============================================================================
