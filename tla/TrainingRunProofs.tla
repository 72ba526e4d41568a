------------------------- MODULE TrainingRunProofs --------------------------
(* Proofs about TrainingRun: what one run of the trace command captures,    *)
(* publishes and leaves behind, for every set of flag combinations, owners, *)
(* SPO objects and gadget records.                                          *)
(*                                                                          *)
(* The properties speak of a published proposal and of what processes did.  *)
(* Between the two lie the tracer, which hands its events over once         *)
(* (Handover), and the pipeline, each stage of which is a function of the   *)
(* stage before it (Pipeline).  Inv follows the events from the gadgets     *)
(* (Captures) to the proposal (Proposal); the last sections show what the   *)
(* operators of Capture make of the events, with no step involved.          *)
EXTENDS TrainingRun, SequenceTheorems, TLAPS

Scope == "BinaryCommFiltered"

Tracing == {"start", "detect", "select", "restart", "waitGone", "create", "await"}
Processed == {"history", "import", "import2", "write", "publish", "done"}

Types ==
    /\ opt \in Options /\ faults \in 0..MaxFaults
    /\ pc \in Tracing \cup {"process", "failed"} \cup Processed
    /\ gadget \in [Gadgets -> {"none", "starting", "attached", "failed", "initfailed", "broken"}]
    /\ ready \in BOOLEAN /\ window \in {"open", "closed"} /\ rollout \in {"no", "ours", "theirs"}
    /\ pods \in [Pods -> {"none", "running", "terminating", "gone"}]
    /\ recording \in Recordings /\ profile \in SourceProfiles
    /\ files \subseteq {Artifacts[i] : i \in 1..Len(Artifacts)}
    /\ result.sent \in BOOLEAN /\ result.err \in BOOLEAN

(* The tracer has returned, and without an error.                           *)
Delivered == result.sent /\ ~result.err

(* No gadget runs before the tracer is started; the channel closes when     *)
(* every gadget signalled; a pod is restarted after that.                   *)
Attachment ==
    /\ pc \in {"start", "detect"} =>
         (\A g \in Gadgets : gadget[g] = "none") /\ ~ready /\ ~result.sent /\ window = "open"
    /\ ready => \A g \in Gadgets : Signalled(g)
    /\ pc \in {"restart", "waitGone", "create"} => ready

(* What the tracer returned without an error is what the gadgets captured   *)
(* until the window closed, and nothing went wrong in any of them.          *)
Handover ==
    /\ Delivered => /\ Broken = {} /\ window = "closed"
                    /\ captured \subseteq result.events
                    /\ result.events \subseteq captured \cup SeccompEvents(Syscalls)
    /\ pc \in {"process"} \cup Processed => Delivered

(* Before the tracer returned without an error nothing is left behind.      *)
Nothing ==
    /\ ~Delivered => files = {} /\ doc = NoDocument
    /\ (~Delivered \/ pc \in Tracing \cup {"process", "history"}) => hist = [runs |-> 0, syscalls |-> {}]
    /\ hist.runs \in 0..1
    /\ pc # "done" => published = NoProposal

(* A bare pod is missing only while it is being replaced.                   *)
BarePod ==
    opt.owner = "none" =>
        /\ rollout = "no"
        /\ \/ pc \in {"waitGone", "create", "failed"}
           \/ pods["resolved"] = "running" \/ pods["replacement"] = "running"

(* Every event comes from a record, and a replacement this run caused runs  *)
(* only when every gadget has signalled: what it does as it starts is       *)
(* captured, unless a gadget broke.                                         *)
Captures ==
    /\ performed \subseteq Records
    /\ captured \subseteq UNION {Decode(r, Scope) : r \in performed}
    /\ (rollout = "ours" \/ (pods["replacement"] = "running" /\ rollout # "theirs")) => ready
    /\ (opt.restart /\ rollout # "theirs" /\ Broken = {}) =>
          \A r \in performed \cap Startup : Decode(r, Scope) \subseteq captured

(* The events the rest of the command works on.                             *)
Kept == IF opt.source = "spo" THEN dropSyscallObservations(result.events) ELSE result.events

Pipeline ==
    /\ pc = "process" => events = result.events
    /\ pc \in Processed => events = Kept /\ behavior = Synthesize(events, result.archs)
    /\ opt.source = "spo" => hist.syscalls = {} /\ \A e \in doc.events : e.mode # "syscall"
    /\ (pc \in {"publish", "done"} /\ "events" \in files) => doc = EncodeEvents(events, result.archs)

(* Where seccomp authority comes from, once that is resolved.               *)
Sourced ==
    \/ /\ opt.source = "internal"
       /\ seccompSrc.has = (behavior.syscalls # {})
       /\ seccompSrc.profile.allow = SeccompProfile(behavior.syscalls, behavior.archs).allow
    \/ /\ opt.source = "spo"
       /\ seccompSrc.has = TRUE /\ seccompSrc.profile.allow = Merged
       /\ seccompSrc.provenance.source = "spo" /\ imported.state = "Disabled"

Authority ==
    /\ opt.source = "spo" => profile.partial \/ profile.names = Merged
    /\ pc = "import2" => opt.source = "spo"
    /\ pc \in {"write", "publish", "done"} => Sourced

(* The proposal is rendered from the same profile and source.               *)
Proposal ==
    pc = "done" =>
        /\ published.podLock = PodLockProfile(behavior.filesystem)
        /\ published.network = NetworkPolicy(behavior.network)
        /\ published.manifest = ToSecurityContext(behavior.capabilities, LocalhostProfile)
        /\ published.spo.name = LocalhostProfile
        /\ published.spo.profile = seccompSrc.profile
        /\ published.spo.provenance = seccompSrc.provenance

Inv == /\ Types /\ Attachment /\ Handover /\ Nothing /\ BarePod
       /\ Captures /\ Pipeline /\ Authority /\ Proposal

(***************************************************************************)
(* What a step leaves alone                                                *)
(***************************************************************************)

(* The gadgets' state decides which of them broke.                          *)
LEMMA BrokenKept ==
    ASSUME gadget' = gadget
    PROVE  Broken' = Broken /\ \A g \in Gadgets : Signalled(g)' = Signalled(g)
BY DEF Broken, Signalled

(* Once the capture is over, steps of the command leave the tracer and the  *)
(* cluster's pods alone.                                                    *)
LEMMA TracerKept ==
    ASSUME Inv, UNCHANGED <<opt, gadget, ready, window, result, captured, pods, rollout, performed>>,
           pc' \in {"process", "failed"} \cup Processed,
           pc' # "failed" => Delivered /\ pc \notin {"waitGone", "create", "failed"}
    PROVE  Attachment' /\ Handover' /\ BarePod' /\ Captures'
<1>1. Broken' = Broken /\ \A g \in Gadgets : Signalled(g)' = Signalled(g)
  BY BrokenKept
<1>2. Delivered' = Delivered
  BY DEF Delivered
<1>3. Attachment'
  BY <1>1 DEF Inv, Attachment, Processed
<1>4. Handover'
  BY <1>1, <1>2 DEF Inv, Handover, Processed
<1>5. BarePod'
  BY DEF Inv, BarePod, Processed
<1>6. Captures'
  BY <1>1 DEF Inv, Captures
<1> QED
  BY <1>3, <1>4, <1>5, <1>6

(* Steps of the tracer and of the cluster leave the command's data alone.   *)
LEMMA DataKept ==
    ASSUME Inv, UNCHANGED <<opt, pc, result, behavior, events, hist, seccompSrc, imported, files, doc, published>>
    PROVE  Nothing' /\ Pipeline' /\ Proposal' /\ (profile' = profile => Authority')
<1>1. Delivered' = Delivered /\ LocalhostProfile' = LocalhostProfile /\ Kept' = Kept
  BY DEF Delivered, LocalhostProfile, GovernedProfileName, TraceTarget, UsesSelector, Kept
<1>2. Nothing'
  BY <1>1 DEF Inv, Nothing
<1>3. Pipeline'
  BY <1>1 DEF Inv, Pipeline
<1>4. Proposal'
  BY <1>1 DEF Inv, Proposal
<1>5. profile' = profile => Authority'
  BY DEF Inv, Authority, Sourced
<1> QED
  BY <1>2, <1>3, <1>4, <1>5

(* Nor do the steps of the command before the tracer's events are taken.    *)
LEMMA DataWaits ==
    ASSUME Inv, pc \in Tracing, pc' \in Tracing \cup {"failed"},
           UNCHANGED <<opt, result, profile, behavior, events, hist, seccompSrc, imported, files, doc, published>>
    PROVE  Nothing' /\ Pipeline' /\ Proposal' /\ Authority'
<1>1. Delivered' = Delivered
  BY DEF Delivered
<1>2. pc # "done" /\ pc' \notin {"done", "process", "history", "import2", "write", "publish"} \cup Processed
  BY DEF Tracing, Processed
<1>3. Nothing'
  BY <1>1, <1>2 DEF Inv, Nothing
<1>4. Pipeline'
  BY <1>2 DEF Inv, Pipeline
<1>5. Proposal'
  BY <1>2 DEF Proposal
<1>6. Authority'
  BY <1>2 DEF Inv, Authority
<1> QED
  BY <1>3, <1>4, <1>5, <1>6

(***************************************************************************)
(* Types                                                                   *)
(***************************************************************************)

LEMMA ArtifactsLen == Len(Artifacts) \in Nat
BY DEF Artifacts

(* Whatever is written is one of the artifacts.                             *)
LEMMA WritesArtifacts ==
    ASSUME NEW n \in 0..Len(Artifacts)
    PROVE  WriteUpTo(n) \subseteq {Artifacts[i] : i \in 1..Len(Artifacts)}
BY ArtifactsLen DEF WriteUpTo

(* Steps of the command up to the tracer's result.                          *)
LEMMA EarlyTypes ==
    ASSUME Types, Start \/ PreTarget \/ Select \/ Restart \/ waitForPodGone \/ Recreate \/ TakeResult
    PROVE  Types'
<1>1. CASE Start
  <2>1. UNCHANGED <<opt, faults, ready, window, result, rollout, pods, recording, profile, files>>
    BY <1>1 DEF Start, cluster, pipeline
  <2>2. pc' \in Tracing \cup {"process", "failed"} \cup Processed
    BY <1>1 DEF Start, Tracing
  <2>3. gadget' \in [Gadgets -> {"none", "starting", "attached", "failed", "initfailed", "broken"}]
    BY <1>1 DEF Start, Types
  <2> QED BY <2>1, <2>2, <2>3 DEF Types
<1>2. CASE PreTarget
  <2>1. UNCHANGED <<opt, faults, ready, window, result, rollout, pods, recording, profile, files>>
    BY <1>2 DEF PreTarget, cluster, pipeline
  <2>2. pc' \in Tracing \cup {"process", "failed"} \cup Processed
    BY <1>2 DEF PreTarget, Fail, Tracing
  <2>3. gadget' \in [Gadgets -> {"none", "starting", "attached", "failed", "initfailed", "broken"}]
    BY <1>2 DEF PreTarget, Types
  <2> QED BY <2>1, <2>2, <2>3 DEF Types
<1>3. CASE Select
  <2>1. UNCHANGED <<opt, faults, gadget, ready, window, result, rollout, pods, recording, profile, files>>
    BY <1>3 DEF Select, cluster, tracer
  <2>2. pc' \in Tracing \cup {"process", "failed"} \cup Processed
    BY <1>3 DEF Select, Tracing
  <2> QED BY <2>1, <2>2 DEF Types
<1>4. CASE Restart
  <2>1. UNCHANGED <<opt, faults, gadget, ready, window, result, recording, profile, files>>
    BY <1>4 DEF Restart, pipeline, tracer
  <2>2. pc' \in Tracing \cup {"process", "failed"} \cup Processed
    BY <1>4 DEF Restart, restartBarePod, rolloutRestart, Fail, Tracing
  <2>3. pods' \in [Pods -> {"none", "running", "terminating", "gone"}] /\ rollout' \in {"no", "ours", "theirs"}
    BY <1>4 DEF Restart, restartBarePod, rolloutRestart, Types
  <2> QED BY <2>1, <2>2, <2>3 DEF Types
<1>5. CASE waitForPodGone
  <2>1. UNCHANGED <<opt, faults, gadget, ready, window, result, rollout, pods, recording, profile, files>>
    BY <1>5 DEF waitForPodGone, cluster, tracer, pipeline
  <2>2. pc' \in Tracing \cup {"process", "failed"} \cup Processed
    BY <1>5 DEF waitForPodGone, Tracing
  <2> QED BY <2>1, <2>2 DEF Types
<1>6. CASE Recreate
  <2>1. UNCHANGED <<opt, faults, gadget, ready, window, result, rollout, recording, profile, files>>
    BY <1>6 DEF Recreate, pipeline, tracer
  <2>2. pc' \in Tracing \cup {"process", "failed"} \cup Processed
    BY <1>6 DEF Recreate, Tracing
  <2>3. pods' \in [Pods -> {"none", "running", "terminating", "gone"}]
    BY <1>6 DEF Recreate, Types
  <2> QED BY <2>1, <2>2, <2>3 DEF Types
<1>7. CASE TakeResult
  <2>1. UNCHANGED <<opt, faults, gadget, ready, window, result, rollout, pods, recording, profile, files>>
    BY <1>7 DEF TakeResult, cluster, tracer
  <2>2. pc' \in Tracing \cup {"process", "failed"} \cup Processed
    BY <1>7 DEF TakeResult, Tracing
  <2> QED BY <2>1, <2>2 DEF Types
<1> QED
  BY <1>1, <1>2, <1>3, <1>4, <1>5, <1>6, <1>7

(* Steps of the command that work on the events.                            *)
LEMMA LateTypes ==
    ASSUME Types, \/ processTraceEvents \/ recordHistory \/ resolveInternal \/ ImportReadsRecording
                  \/ ImportReadsProfile \/ WriteFiles \/ publishProposal \/ Stopped
    PROVE  Types'
<1>1. UNCHANGED <<opt, gadget, ready, window, result, rollout, pods, performed, captured, recording, profile>>
  BY DEF processTraceEvents, recordHistory, resolveInternal, ImportReadsRecording, ImportReadsProfile,
         WriteFiles, publishProposal, Stopped, tracer, cluster
<1>2. pc' \in {"failed"} \cup Processed
  BY DEF processTraceEvents, recordHistory, resolveInternal, ImportReadsRecording, ImportReadsProfile,
         WriteFiles, publishProposal, Stopped, Fail, Processed
<1>3. faults' \in 0..MaxFaults
  BY TrainingAssumption
     DEF Types, processTraceEvents, recordHistory, resolveInternal, ImportReadsRecording, ImportReadsProfile,
         WriteFiles, publishProposal, Stopped
<1>4. files' \subseteq {Artifacts[i] : i \in 1..Len(Artifacts)}
  <2>1. CASE WriteFiles
    <3>1. PICK n \in 0..Len(Artifacts) : files' = WriteUpTo(n)
      <4>1. Len(Artifacts) - 1 \in 0..Len(Artifacts) /\ Len(Artifacts) \in 0..Len(Artifacts)
        BY DEF Artifacts
      <4> QED BY <2>1, <4>1 DEF WriteFiles
    <3> QED BY <3>1, WritesArtifacts
  <2>2. CASE Stopped
    BY <2>2, WritesArtifacts DEF Stopped, Types
  <2>3. CASE ~WriteFiles /\ ~Stopped
    BY <2>3 DEF Types, processTraceEvents, recordHistory, resolveInternal, ImportReadsRecording,
                ImportReadsProfile, publishProposal
  <2> QED BY <2>1, <2>2, <2>3
<1> QED
  BY <1>1, <1>2, <1>3, <1>4 DEF Types

(* Steps of the tracer and of the cluster.                                  *)
LEMMA AroundTypes ==
    ASSUME Types, \/ OnReady \/ DurationEnds \/ TraceReturns
                  \/ \E g \in Gadgets : GadgetAttaches(g) \/ GadgetFails(g)
                  \/ \E p \in Pods, r \in Startup \cup opt.steady : Perform(p, r)
                  \/ PodTerminates \/ ControllerReplaces \/ Evicted
                  \/ SPOMerges \/ RecordingDeleted \/ SourceEnabled
    PROVE  Types'
<1>1. CASE OnReady \/ DurationEnds \/ TraceReturns
  <2>1. UNCHANGED <<opt, pc, faults, gadget, rollout, pods, recording, profile, files>>
    BY <1>1 DEF OnReady, DurationEnds, TraceReturns, cluster, pipeline
  <2>2. ready' \in BOOLEAN /\ window' \in {"open", "closed"}
    BY <1>1 DEF OnReady, DurationEnds, TraceReturns, Types
  <2>3. result'.sent \in BOOLEAN /\ result'.err \in BOOLEAN
    <3>1. CASE TraceReturns
      BY <3>1 DEF TraceReturns
    <3>2. CASE OnReady \/ DurationEnds
      BY <3>2 DEF OnReady, DurationEnds, Types
    <3> QED BY <1>1, <3>1, <3>2
  <2> QED BY <2>1, <2>2, <2>3 DEF Types
<1>2. ASSUME NEW g \in Gadgets, GadgetAttaches(g) \/ GadgetFails(g) PROVE Types'
  <2>1. UNCHANGED <<opt, pc, ready, window, result, rollout, pods, recording, profile, files>>
    BY <1>2 DEF GadgetAttaches, GadgetFails, cluster, pipeline
  <2>2. faults' \in 0..MaxFaults
    BY <1>2, TrainingAssumption DEF GadgetAttaches, GadgetFails, Types
  <2>3. gadget' \in [Gadgets -> {"none", "starting", "attached", "failed", "initfailed", "broken"}]
    BY <1>2 DEF GadgetAttaches, GadgetFails, Types
  <2> QED BY <2>1, <2>2, <2>3 DEF Types
<1>3. ASSUME NEW p \in Pods, NEW r \in Startup \cup opt.steady, Perform(p, r) PROVE Types'
  BY <1>3 DEF Perform, Types, pipeline
<1>4. CASE PodTerminates \/ ControllerReplaces \/ Evicted
  <2>1. UNCHANGED <<opt, pc, gadget, ready, window, result, recording, profile, files>>
    BY <1>4 DEF PodTerminates, ControllerReplaces, Evicted, tracer, pipeline
  <2>2. faults' \in 0..MaxFaults /\ rollout' \in {"no", "ours", "theirs"}
    BY <1>4, TrainingAssumption DEF PodTerminates, ControllerReplaces, Evicted, Types
  <2>3. pods' \in [Pods -> {"none", "running", "terminating", "gone"}]
    BY <1>4 DEF PodTerminates, ControllerReplaces, Evicted, Types
  <2> QED BY <2>1, <2>2, <2>3 DEF Types
<1>5. CASE SPOMerges \/ RecordingDeleted \/ SourceEnabled
  <2>1. UNCHANGED <<opt, pc, gadget, ready, window, result, rollout, pods, files>>
    BY <1>5 DEF SPOMerges, RecordingDeleted, SourceEnabled, tracer, pipeline
  <2>2. faults' \in 0..MaxFaults
    BY <1>5, TrainingAssumption DEF SPOMerges, RecordingDeleted, SourceEnabled, Types
  <2>3. recording' \in Recordings
    <3>1. PICK k \in Recordings : k = recording
      BY DEF Types
    <3>2. [k EXCEPT !.unmerged = FALSE] \in Recordings /\ NoRecording \in Recordings
      BY DEF Recordings, NoRecording
    <3> QED BY <1>5, <3>1, <3>2 DEF SPOMerges, RecordingDeleted, SourceEnabled
  <2>4. profile' \in SourceProfiles
    <3>1. CASE SPOMerges
      <4>1. PICK k \in SourceProfiles : k = profile
        BY DEF Types
      <4>2. PICK c \in Labels :
              /\ c = (IF recording.mergeStrategy = "Containers" THEN "" ELSE k.labels.container)
              /\ profile' = [k EXCEPT !.partial = FALSE, !.names = Merged, !.labels.container = c]
        <5>1. k.labels.container \in Labels  BY DEF SourceProfiles
        <5>2. PICK c \in Labels : c = (IF recording.mergeStrategy = "Containers" THEN "" ELSE k.labels.container)
          <6>1. CASE recording.mergeStrategy = "Containers"  BY <6>1 DEF Labels
          <6>2. CASE recording.mergeStrategy # "Containers"  BY <5>1, <6>2
          <6> QED BY <6>1, <6>2
        <5>3. profile' = [k EXCEPT !.partial = FALSE, !.names = Merged, !.labels.container = c]
          BY <3>1, <4>1, <5>2, Zenon DEF SPOMerges
        <5> QED BY <5>2, <5>3
      <4>3. [k.labels EXCEPT !.container = c] \in [ns : Labels, id : Labels, container : Labels]
        BY DEF SourceProfiles
      <4>4. profile' = [present |-> k.present, state |-> k.state, partial |-> FALSE,
                        labels |-> [k.labels EXCEPT !.container = c], fields |-> k.fields, names |-> Merged]
        BY <4>2 DEF SourceProfiles
      <4> QED BY <4>3, <4>4, TrainingAssumption DEF SourceProfiles
    <3>2. CASE RecordingDeleted \/ SourceEnabled
      BY <3>2 DEF RecordingDeleted, SourceEnabled, Types, SourceProfiles
    <3> QED BY <1>5, <3>1, <3>2
  <2> QED BY <2>1, <2>2, <2>3, <2>4 DEF Types
<1> QED
  BY <1>1, <1>2, <1>3, <1>4, <1>5

(***************************************************************************)
(* The command's steps up to the tracer's result                           *)
(***************************************************************************)

(* The tracer starts, or nothing happens at all.                            *)
LEMMA StartsKept ==
    ASSUME Inv, Start \/ PreTarget
    PROVE  Inv'
<1>1. Types'
  BY EarlyTypes DEF Inv
<1>2. /\ pc \in {"start", "detect"} /\ pc' \in {"detect", "await", "select", "failed"}
      /\ pc' = "detect" => \A g \in Gadgets : gadget'[g] = gadget[g]
      /\ \A g \in Gadgets : gadget'[g] \in {gadget[g], "starting"}
      /\ UNCHANGED <<opt, ready, window, result, captured, cluster, pipeline>>
  BY DEF Start, PreTarget, Fail
<1>3. /\ UNCHANGED <<pods, rollout, performed, profile, behavior, events, hist, seccompSrc, imported,
                     files, doc, published>>
      /\ pc \in Tracing /\ pc' \in Tracing \cup {"failed"}
  BY <1>2 DEF cluster, pipeline, Tracing
<1>4. Nothing' /\ Pipeline' /\ Proposal' /\ Authority'
  BY <1>2, <1>3, DataWaits
<1>5. /\ \A g \in Gadgets : gadget[g] = "none"
      /\ ~ready /\ ~result.sent /\ window = "open"
  BY <1>2 DEF Inv, Attachment
<1>6. Broken = {} /\ ~Delivered'
  BY <1>2, <1>5 DEF Broken, Delivered
<1>7. Attachment'
  BY <1>2, <1>5 DEF Attachment
<1>8. Handover'
  BY <1>2, <1>6 DEF Handover, Processed
<1>9. BarePod'
  BY <1>2, <1>3 DEF Inv, BarePod
<1>10. Captures'
  BY <1>2, <1>3, <1>6 DEF Inv, Captures
<1> QED
  BY <1>1, <1>4, <1>7, <1>8, <1>9, <1>10 DEF Inv

(* The restart begins when the tracer is ready; a result may come first.    *)
LEMMA SelectKept ==
    ASSUME Inv, Select \/ TakeResult
    PROVE  Inv'
<1>1. Types'
  BY EarlyTypes DEF Inv
<1>2. /\ pc \in {"select", "await"} /\ UNCHANGED <<opt, tracer, cluster>>
      /\ UNCHANGED <<behavior, hist, recRead, seccompSrc, imported, files, doc, published>>
  BY DEF Select, TakeResult
<1>3. UNCHANGED <<gadget, ready, window, result, captured, pods, rollout, performed, profile>>
  BY <1>2 DEF tracer, cluster
<1>4. CASE pc' \in {"process", "failed"}
  <2>1. /\ result.sent /\ pc' = (IF result.err THEN "failed" ELSE "process")
        /\ pc' = "process" => events' = result.events
    BY <1>4 DEF Select, TakeResult
  <2>2. pc' # "failed" => Delivered
    BY <2>1 DEF Delivered
  <2>3. Attachment' /\ Handover' /\ BarePod' /\ Captures'
    BY <1>2, <1>3, <1>4, <2>2, TracerKept
  <2>4. Delivered' = Delivered /\ pc \in Tracing /\ pc # "done"
    BY <1>2, <1>3 DEF Delivered, Tracing
  <2>5. Nothing'
    BY <1>2, <1>4, <2>4 DEF Inv, Nothing, Tracing
  <2>6. Pipeline'
    BY <1>2, <1>3, <1>4, <2>1 DEF Inv, Pipeline, Processed
  <2>7. Proposal' /\ Authority'
    BY <1>2, <1>3, <1>4 DEF Inv, Proposal, Authority
  <2> QED
    BY <1>1, <2>3, <2>5, <2>6, <2>7 DEF Inv
<1>5. CASE pc' \notin {"process", "failed"}
  <2>1. pc = "select" /\ pc' = "restart" /\ ready /\ events' = events
    BY <1>5 DEF Select, TakeResult
  <2>2. pc \in Tracing /\ pc' \in Tracing \cup {"failed"}
    BY <2>1 DEF Tracing
  <2>3. Nothing' /\ Pipeline' /\ Proposal' /\ Authority'
    BY <1>2, <1>3, <2>1, <2>2, DataWaits
  <2>4. Broken' = Broken /\ Delivered' = Delivered /\ \A g \in Gadgets : Signalled(g)' = Signalled(g)
    BY <1>3, BrokenKept DEF Delivered
  <2>5. Attachment'
    BY <1>3, <2>1, <2>4 DEF Inv, Attachment
  <2>6. Handover'
    BY <1>3, <2>1, <2>4 DEF Inv, Handover, Processed
  <2>7. BarePod'
    BY <1>2, <1>3, <2>1 DEF Inv, BarePod
  <2>8. Captures'
    BY <1>2, <1>3, <2>4 DEF Inv, Captures
  <2> QED
    BY <1>1, <2>3, <2>5, <2>6, <2>7, <2>8 DEF Inv
<1> QED
  BY <1>4, <1>5

(* A pod is deleted, awaited and created again, or its owner rolled out.    *)
LEMMA RestartKept ==
    ASSUME Inv, Restart \/ waitForPodGone \/ Recreate
    PROVE  Inv'
<1>1. Types'
  BY EarlyTypes DEF Inv
<1>2. /\ pc \in {"restart", "waitGone", "create"} /\ pc' \in {"waitGone", "create", "await", "failed"}
      /\ UNCHANGED <<opt, tracer, performed, recording, profile, pipeline>>
  BY DEF Restart, waitForPodGone, Recreate, restartBarePod, rolloutRestart, Fail, cluster
<1>3. /\ UNCHANGED <<gadget, ready, window, result, captured>>
      /\ UNCHANGED <<behavior, events, hist, seccompSrc, imported, files, doc, published>>
      /\ pc \in Tracing /\ pc' \in Tracing \cup {"failed"}
  BY <1>2 DEF tracer, pipeline, Tracing
<1>4. Nothing' /\ Pipeline' /\ Proposal' /\ Authority'
  BY <1>2, <1>3, DataWaits
<1>5. Broken' = Broken /\ Delivered' = Delivered /\ \A g \in Gadgets : Signalled(g)' = Signalled(g)
  BY <1>3, BrokenKept DEF Delivered
<1>6. ready
  BY <1>2 DEF Inv, Attachment
<1>7. Attachment'
  BY <1>2, <1>3, <1>5, <1>6 DEF Inv, Attachment
<1>8. Handover'
  BY <1>2, <1>3, <1>5 DEF Inv, Handover, Processed
<1>9. BarePod'
  <2>1. CASE Restart
    <3>1. opt.owner = "none" => /\ rollout' = rollout
                                /\ pc' \in {"waitGone", "failed"}
      BY <2>1 DEF Restart, restartBarePod, Fail
    <3> QED BY <1>2, <3>1 DEF Inv, BarePod
  <2>2. CASE waitForPodGone
    <3>1. pc' \in {"create", "failed"} /\ rollout' = rollout
      BY <2>2 DEF waitForPodGone, cluster
    <3> QED BY <1>2, <3>1 DEF Inv, BarePod
  <2>3. CASE Recreate
    <3>1. pods'["replacement"] = "running" /\ rollout' = rollout
      BY <2>3 DEF Recreate, Inv, Types, Pods
    <3> QED BY <1>2, <3>1 DEF Inv, BarePod
  <2> QED BY <2>1, <2>2, <2>3
<1>10. Captures'
  <2>1. rollout' # "theirs" => rollout # "theirs"
    BY DEF Restart, waitForPodGone, Recreate, restartBarePod, rolloutRestart, cluster
  <2> QED BY <1>2, <1>3, <1>5, <1>6, <2>1 DEF Inv, Captures
<1> QED
  BY <1>1, <1>4, <1>7, <1>8, <1>9, <1>10 DEF Inv

(***************************************************************************)
(* The command's steps on the events                                       *)
(***************************************************************************)

(* What is left without the syscalls has none.                              *)
LEMMA DroppedSyscalls ==
    ASSUME NEW E, NEW e \in dropSyscallObservations(E)
    PROVE  e \in E /\ e.mode # "syscall"
BY DEF dropSyscallObservations, ToObservation

LEMMA SynthesizedSyscalls ==
    ASSUME NEW E, NEW A, \A e \in E : e.mode # "syscall"
    PROVE  Synthesize(E, A).syscalls = {}
BY DEF Synthesize

(* The steps from "process" on keep what the tracer and the cluster hold.   *)
LEMMA LateFrame ==
    ASSUME Inv, \/ processTraceEvents \/ recordHistory \/ resolveInternal \/ ImportReadsRecording
                \/ ImportReadsProfile \/ WriteFiles \/ publishProposal
    PROVE  /\ Types' /\ Attachment' /\ Handover' /\ BarePod' /\ Captures'
           /\ UNCHANGED <<opt, result, profile>> /\ Delivered /\ Delivered'
           /\ pc \in {"process"} \cup Processed /\ pc # "done" /\ pc' \in {"failed"} \cup Processed
<1>1. Types'
  BY LateTypes DEF Inv
<1>2. UNCHANGED <<opt, gadget, ready, window, result, rollout, pods, performed, captured, profile>>
  BY DEF processTraceEvents, recordHistory, resolveInternal, ImportReadsRecording, ImportReadsProfile,
         WriteFiles, publishProposal, tracer, cluster
<1>3. /\ pc \in {"process", "history", "import", "import2", "write", "publish"}
      /\ pc' \in {"failed", "history", "import", "import2", "write", "publish", "done"}
  BY DEF processTraceEvents, recordHistory, resolveInternal, ImportReadsRecording, ImportReadsProfile,
         WriteFiles, publishProposal, Fail
<1>4. Delivered
  BY <1>3 DEF Inv, Handover, Processed
<1>5. Attachment' /\ Handover' /\ BarePod' /\ Captures'
  <2>1. /\ pc' \in {"process", "failed"} \cup Processed
        /\ pc \notin {"waitGone", "create", "failed"}
    BY <1>3 DEF Processed
  <2> QED BY <1>2, <1>4, <2>1, TracerKept
<1>6. Delivered'
  BY <1>2, <1>4 DEF Delivered
<1>7. pc \in {"process"} \cup Processed /\ pc # "done" /\ pc' \in {"failed"} \cup Processed
  BY <1>3 DEF Processed
<1> QED
  BY <1>1, <1>2, <1>4, <1>5, <1>6, <1>7

LEMMA ProcessKept ==
    ASSUME Inv, processTraceEvents
    PROVE  Inv'
<1>1. /\ Types' /\ Attachment' /\ Handover' /\ BarePod' /\ Captures'
      /\ UNCHANGED <<opt, result, profile>> /\ Delivered /\ Delivered'
  BY LateFrame
<1>2. /\ pc = "process" /\ pc' \in {"failed", "history", "import"}
      /\ UNCHANGED <<hist, recRead, seccompSrc, imported, files, doc, published>>
      /\ pc' # "failed" => /\ behavior' = Synthesize(events', result.archs)
                           /\ events' = (IF opt.source = "spo" THEN dropSyscallObservations(events) ELSE events)
  BY DEF processTraceEvents
<1>3. events = result.events
  BY <1>2 DEF Inv, Pipeline
<1>4. Nothing'
  BY <1>1, <1>2 DEF Inv, Nothing
<1>5. Pipeline'
  <2>1. pc' \in Processed => events' = Kept' /\ behavior' = Synthesize(events', result'.archs)
    BY <1>1, <1>2, <1>3 DEF Kept, Processed
  <2> QED BY <1>1, <1>2, <2>1 DEF Inv, Pipeline
<1>6. Authority' /\ Proposal'
  BY <1>1, <1>2 DEF Inv, Authority, Proposal
<1> QED
  BY <1>1, <1>4, <1>5, <1>6 DEF Inv

(* A run with an SPO source has no syscalls of its own.                     *)
LEMMA NoOwnSyscalls ==
    ASSUME Inv, pc \in Processed, opt.source = "spo"
    PROVE  (\A e \in events : e.mode # "syscall") /\ behavior.syscalls = {}
<1>1. events = dropSyscallObservations(result.events) /\ behavior = Synthesize(events, result.archs)
  BY DEF Inv, Pipeline, Kept
<1>2. \A e \in events : e.mode # "syscall"
  BY <1>1, DroppedSyscalls
<1> QED
  BY <1>1, <1>2, SynthesizedSyscalls

LEMMA HistoryKept ==
    ASSUME Inv, recordHistory
    PROVE  Inv'
<1>1. /\ Types' /\ Attachment' /\ Handover' /\ BarePod' /\ Captures'
      /\ UNCHANGED <<opt, result, profile>> /\ Delivered /\ Delivered'
  BY LateFrame
<1>2. /\ pc = "history" /\ pc' = "import"
      /\ UNCHANGED <<behavior, events, recRead, seccompSrc, imported, files, doc, published>>
      /\ hist' = [runs |-> hist.runs + 1, syscalls |-> hist.syscalls \cup behavior.syscalls]
  BY DEF recordHistory
<1>3. hist = [runs |-> 0, syscalls |-> {}]
  BY <1>2 DEF Inv, Nothing
<1>4. hist'.runs = 1 /\ hist'.syscalls = behavior.syscalls
  BY <1>2, <1>3
<1>5. Nothing'
  BY <1>1, <1>2, <1>4 DEF Inv, Nothing, Tracing
<1>6. Pipeline'
  <2>1. pc \in Processed /\ pc' \in Processed /\ Kept' = Kept
    BY <1>1, <1>2 DEF Processed, Kept
  <2>2. opt.source = "spo" => hist'.syscalls = {}
    BY <1>4, <2>1, NoOwnSyscalls
  <2> QED BY <1>1, <1>2, <2>1, <2>2 DEF Inv, Pipeline
<1>7. Authority' /\ Proposal'
  BY <1>1, <1>2 DEF Inv, Authority, Proposal
<1> QED
  BY <1>1, <1>5, <1>6, <1>7 DEF Inv

(* Three steps resolve where seccomp authority comes from.                  *)
LEMMA ImportKept ==
    ASSUME Inv, resolveInternal \/ ImportReadsRecording \/ ImportReadsProfile
    PROVE  Inv'
<1>1. /\ Types' /\ Attachment' /\ Handover' /\ BarePod' /\ Captures'
      /\ UNCHANGED <<opt, result, profile>> /\ Delivered /\ Delivered'
  BY LateFrame
<1>2. /\ pc \in {"import", "import2"} /\ pc' \in {"import2", "write", "failed"}
      /\ UNCHANGED <<behavior, events, hist, files, doc, published>>
  BY DEF resolveInternal, ImportReadsRecording, ImportReadsProfile, Fail
<1>3. Nothing'
  BY <1>1, <1>2 DEF Inv, Nothing, Tracing
<1>4. Pipeline'
  <2>1. pc \in Processed /\ Kept' = Kept
    BY <1>1, <1>2 DEF Processed, Kept
  <2> QED BY <1>1, <1>2, <2>1 DEF Inv, Pipeline, Processed
<1>5. pc' = "write" => Sourced'
  <2>1. CASE resolveInternal
    BY <2>1 DEF resolveInternal, Sourced
  <2>2. CASE ImportReadsRecording
    BY <2>2 DEF ImportReadsRecording
  <2>3. CASE ImportReadsProfile
    <3>1. SUFFICES ASSUME pc' = "write" PROVE Sourced'
      OBVIOUS
    <3>2. /\ Snapshot(recRead, profile, opt.src) /\ imported' = profile /\ UNCHANGED opt
          /\ seccompSrc' = [kind |-> "spo", has |-> TRUE,
                            profile |-> [default |-> "SCMP_ACT_ERRNO", archs |-> {}, allow |-> profile.names],
                            provenance |-> SPOSeccompProvenance(opt.src)]
      BY <2>3, <3>1 DEF ImportReadsProfile, Fail
    <3>3. profile.state = "Disabled" /\ ~profile.partial
      BY <3>2 DEF Snapshot, checkInert, checkComplete
    <3>4. opt.source = "spo"
      BY <2>3 DEF ImportReadsProfile, Inv, Authority
    <3> QED BY <3>2, <3>3, <3>4 DEF Inv, Authority, Sourced, SPOSeccompProvenance
  <2> QED BY <2>1, <2>2, <2>3
<1>6. Authority' /\ Proposal'
  <2>1. pc' = "import2" => opt.source = "spo"
    BY DEF resolveInternal, ImportReadsRecording, ImportReadsProfile, Fail
  <2> QED BY <1>1, <1>2, <1>5, <2>1 DEF Inv, Authority, Proposal
<1> QED
  BY <1>1, <1>3, <1>4, <1>6 DEF Inv

LEMMA WriteKept ==
    ASSUME Inv, WriteFiles
    PROVE  Inv'
<1>1. /\ Types' /\ Attachment' /\ Handover' /\ BarePod' /\ Captures'
      /\ UNCHANGED <<opt, result, profile>> /\ Delivered /\ Delivered'
  BY LateFrame
<1>2. /\ pc = "write" /\ pc' \in {"publish", "failed"}
      /\ UNCHANGED <<behavior, events, hist, recRead, seccompSrc, imported, published>>
      /\ doc' = IF "events" \in files' THEN EncodeEvents(events, result.archs) ELSE doc
  BY DEF WriteFiles
<1>3. Nothing'
  BY <1>1, <1>2 DEF Inv, Nothing, Tracing
<1>4. Pipeline'
  <2>1. pc \in Processed /\ Kept' = Kept
    BY <1>1, <1>2 DEF Processed, Kept
  <2>2. opt.source = "spo" => \A e \in doc'.events : e.mode # "syscall"
    <3>1. CASE "events" \in files'
      BY <1>2, <2>1, <3>1, NoOwnSyscalls DEF EncodeEvents
    <3>2. CASE "events" \notin files'
      BY <1>2, <3>2 DEF Inv, Pipeline
    <3> QED BY <3>1, <3>2
  <2> QED BY <1>1, <1>2, <2>1, <2>2 DEF Inv, Pipeline, Processed
<1>5. Authority' /\ Proposal'
  BY <1>1, <1>2 DEF Inv, Authority, Proposal, Sourced
<1> QED
  BY <1>1, <1>3, <1>4, <1>5 DEF Inv

LEMMA PublishKept ==
    ASSUME Inv, publishProposal
    PROVE  Inv'
<1>1. /\ Types' /\ Attachment' /\ Handover' /\ BarePod' /\ Captures'
      /\ UNCHANGED <<opt, result, profile>> /\ Delivered /\ Delivered'
  BY LateFrame
<1>2. /\ pc = "publish" /\ pc' \in {"done", "failed"}
      /\ UNCHANGED <<behavior, events, hist, recRead, seccompSrc, imported, files, doc>>
      /\ pc' # "done" => published' = published
  BY DEF publishProposal, Fail
<1>3. Nothing'
  BY <1>1, <1>2 DEF Inv, Nothing, Tracing
<1>4. Pipeline'
  <2>1. pc \in Processed /\ Kept' = Kept
    BY <1>1, <1>2 DEF Processed, Kept
  <2> QED BY <1>1, <1>2, <2>1 DEF Inv, Pipeline, Processed
<1>5. Authority'
  BY <1>1, <1>2 DEF Inv, Authority, Sourced
<1>6. Proposal'
  <2>1. SUFFICES ASSUME pc' = "done" PROVE Proposal'
    BY DEF Proposal
  <2>2. /\ published'.podLock = PodLockProfile(behavior.filesystem)
        /\ published'.network = NetworkPolicy(behavior.network)
        /\ published'.manifest = ToSecurityContext(behavior.capabilities, LocalhostProfile)
        /\ published'.spo = [name |-> IF seccompSrc.has THEN GovernedProfileName ELSE <<>>,
                             profile |-> seccompSrc.profile, provenance |-> seccompSrc.provenance]
    BY <2>1 DEF publishProposal, Fail
  <2>3. /\ published'.spo.name = LocalhostProfile
        /\ published'.spo.profile = seccompSrc.profile
        /\ published'.spo.provenance = seccompSrc.provenance
    BY <2>2 DEF LocalhostProfile
  <2>4. LocalhostProfile' = LocalhostProfile
    BY <1>1, <1>2 DEF LocalhostProfile, GovernedProfileName, TraceTarget, UsesSelector
  <2> QED BY <1>2, <2>2, <2>3, <2>4 DEF Proposal
<1> QED
  BY <1>1, <1>3, <1>4, <1>5, <1>6 DEF Inv

(* A command that is stopped leaves what it has written.                    *)
LEMMA StoppedKept ==
    ASSUME Inv, Stopped
    PROVE  Inv'
<1>1. /\ pc' = "failed" /\ pc # "done"
      /\ UNCHANGED <<opt, tracer, cluster, behavior, events, hist, recRead, seccompSrc, imported, doc, published>>
      /\ pc # "write" => files' = files
  BY DEF Stopped, Fail, Running
<1>2. UNCHANGED <<gadget, ready, window, result, captured, pods, rollout, performed, profile>>
  BY <1>1 DEF tracer, cluster
<1>3. Types'
  BY LateTypes DEF Inv
<1>4. Attachment' /\ Handover' /\ BarePod' /\ Captures'
  BY <1>1, <1>2, TracerKept
<1>5. Nothing'
  <2>1. Delivered' = Delivered /\ (pc = "write" => Delivered)
    BY <1>2 DEF Delivered, Inv, Handover, Processed
  <2> QED BY <1>1, <2>1 DEF Inv, Nothing, Tracing
<1>6. Pipeline' /\ Authority' /\ Proposal'
  BY <1>1, <1>2 DEF Inv, Pipeline, Authority, Proposal, Processed
<1> QED
  BY <1>3, <1>4, <1>5, <1>6 DEF Inv

(***************************************************************************)
(* The tracer                                                              *)
(***************************************************************************)

(* A gadget attaches only while none has failed; it fails only before the   *)
(* tracer returned.                                                         *)
LEMMA GadgetKept ==
    ASSUME Inv, NEW g \in Gadgets, GadgetAttaches(g) \/ GadgetFails(g)
    PROVE  Inv'
<1>1. /\ UNCHANGED <<opt, pc, ready, window, result, captured, cluster, pipeline>>
      /\ gadget[g] \in {"starting", "attached"}
      /\ \/ gadget[g] = "starting" /\ gadget'[g] = "attached" /\ Broken = {} /\ window = "open"
         \/ gadget'[g] \in {"broken", "failed", "initfailed"} /\ ~result.sent
      /\ gadget[g] = "attached" => gadget'[g] = "broken"
      /\ \A h \in Gadgets : h # g => gadget'[h] = gadget[h]
  BY DEF GadgetAttaches, GadgetFails, Inv, Types
<1>2. UNCHANGED <<pods, rollout, performed, profile, behavior, events, hist, seccompSrc, imported,
                  files, doc, published>>
  BY <1>1 DEF cluster, pipeline
<1>3. Types'
  BY AroundTypes DEF Inv
<1>4. Nothing' /\ Pipeline' /\ Proposal' /\ Authority'
  BY <1>1, <1>2, DataKept
<1>5. pc \notin {"start", "detect"}
  BY <1>1 DEF Inv, Attachment
<1>6. \A h \in Gadgets : Signalled(h) => Signalled(h)'
  BY <1>1 DEF Signalled
<1>7. Attachment'
  BY <1>1, <1>5, <1>6 DEF Inv, Attachment
<1>8. ~Delivered /\ ~Delivered'
  BY <1>1 DEF Delivered, Inv, Handover
<1>9. Handover'
  BY <1>1, <1>8 DEF Inv, Handover
<1>10. BarePod'
  BY <1>1, <1>2 DEF Inv, BarePod
<1>11. Broken' = {} => Broken = {}
  BY <1>1 DEF Broken
<1>12. Captures'
  BY <1>1, <1>2, <1>11 DEF Inv, Captures
<1> QED
  BY <1>3, <1>4, <1>7, <1>9, <1>10, <1>12 DEF Inv

LEMMA ReadyKept ==
    ASSUME Inv, OnReady \/ DurationEnds
    PROVE  Inv'
<1>1. /\ UNCHANGED <<opt, pc, gadget, result, captured, cluster, pipeline>>
      /\ ready' # ready => ready' /\ \A g \in Gadgets : Signalled(g)
      /\ ready => ready'
      /\ window' # window => window' = "closed" /\ pc \notin {"start", "detect"}
  BY DEF OnReady, DurationEnds, Inv, Types
<1>2. UNCHANGED <<pods, rollout, performed, profile, behavior, events, hist, seccompSrc, imported,
                  files, doc, published>>
  BY <1>1 DEF cluster, pipeline
<1>3. Types'
  BY AroundTypes DEF Inv
<1>4. Nothing' /\ Pipeline' /\ Proposal' /\ Authority'
  BY <1>1, <1>2, DataKept
<1>5. Broken' = Broken /\ Delivered' = Delivered /\ \A g \in Gadgets : Signalled(g)' = Signalled(g)
  BY <1>1, BrokenKept DEF Delivered
<1>6. Attachment'
  <2>1. pc \in {"start", "detect"} => ready' = ready
    <3>1. pc \in {"start", "detect"} => \A g \in Gadgets : ~Signalled(g)
      BY DEF Inv, Attachment, Signalled
    <3> QED BY <1>1, <3>1 DEF Gadgets
  <2> QED BY <1>1, <1>5, <2>1 DEF Inv, Attachment
<1>7. Handover'
  BY <1>1, <1>5 DEF Inv, Handover
<1>8. BarePod'
  BY <1>1, <1>2 DEF Inv, BarePod
<1>9. Captures'
  BY <1>1, <1>2, <1>5 DEF Inv, Captures
<1> QED
  BY <1>3, <1>4, <1>6, <1>7, <1>8, <1>9 DEF Inv

(* The tracer hands over what was captured, or an error and nothing.        *)
LEMMA ReturnKept ==
    ASSUME Inv, TraceReturns
    PROVE  Inv'
<1>1. PICK err \in BOOLEAN, flush \in SUBSET SeccompEvents(Syscalls) :
        /\ Broken # {} => err
        /\ result'.sent /\ result'.err = err
        /\ ~err => result'.events = captured \cup flush
  <2>1. PICK flush \in SUBSET SeccompEvents(Syscalls) :
          flush = IF gadget["seccomp"] = "attached" THEN SeccompEvents(Syscalls) ELSE {}
    OBVIOUS
  <2> QED BY <2>1 DEF TraceReturns
<1>2. /\ UNCHANGED <<opt, pc, gadget, ready, window, captured, cluster, pipeline>>
      /\ ~result.sent /\ pc \notin {"start", "detect"}
      /\ window = "closed" \/ Broken # {}
  BY DEF TraceReturns
<1>3. UNCHANGED <<pods, rollout, performed, profile, behavior, events, hist, seccompSrc, imported,
                  files, doc, published>>
  BY <1>2 DEF cluster, pipeline
<1>4. Types'
  BY AroundTypes DEF Inv
<1>5. ~Delivered /\ (Delivered' <=> ~err)
  BY <1>1, <1>2 DEF Delivered
<1>6. pc \in Tracing \cup {"failed"} /\ pc \notin {"process"} \cup Processed /\ pc # "done"
  BY <1>5 DEF Inv, Handover, Types, Tracing, Processed
<1>7. Broken' = Broken /\ \A g \in Gadgets : Signalled(g)' = Signalled(g)
  BY <1>2, BrokenKept
<1>8. Attachment'
  BY <1>2, <1>7 DEF Inv, Attachment
<1>9. Handover'
  BY <1>1, <1>2, <1>5, <1>6, <1>7 DEF Handover
<1>10. Nothing'
  BY <1>2, <1>3, <1>5 DEF Inv, Nothing
<1>11. Pipeline'
  <2>1. pc' \notin {"process", "publish", "done"} \cup Processed
    BY <1>2, <1>6 DEF Processed
  <2> QED BY <1>2, <1>3, <2>1 DEF Inv, Pipeline
<1>12. Authority' /\ Proposal'
  BY <1>2, <1>3, <1>6 DEF Inv, Authority, Proposal, Sourced
<1>13. BarePod'
  BY <1>2, <1>3 DEF Inv, BarePod
<1>14. Captures'
  BY <1>2, <1>3, <1>7 DEF Inv, Captures
<1> QED
  BY <1>4, <1>8, <1>9, <1>10, <1>11, <1>12, <1>13, <1>14 DEF Inv

(***************************************************************************)
(* The cluster                                                             *)
(***************************************************************************)

(* What a process does while every gadget listens is captured.              *)
LEMMA PerformKept ==
    ASSUME Inv, NEW p \in Pods, NEW r \in Startup \cup opt.steady, Perform(p, r)
    PROVE  Inv'
<1>1. /\ UNCHANGED <<opt, pc, gadget, ready, window, result, pods, rollout, profile, pipeline>>
      /\ window = "open" /\ performed' = performed \cup {r}
      /\ captured' = IF gadget[r.g] = "attached" /\ Matches(p)
                     THEN captured \cup Decode(r, Scope) ELSE captured
      /\ r \in Startup => p = "replacement" /\ pods["replacement"] = "running"
  BY DEF Perform, Scope
<1>2. UNCHANGED <<behavior, events, hist, seccompSrc, imported, files, doc, published>>
  BY <1>1 DEF pipeline
<1>3. Types'
  BY AroundTypes DEF Inv
<1>4. Nothing' /\ Pipeline' /\ Proposal' /\ Authority'
  BY <1>1, <1>2, DataKept
<1>5. Broken' = Broken /\ Delivered' = Delivered /\ \A g \in Gadgets : Signalled(g)' = Signalled(g)
  BY <1>1, BrokenKept DEF Delivered
<1>6. Attachment'
  BY <1>1, <1>5 DEF Inv, Attachment
<1>7. Handover'
  BY <1>1, <1>5 DEF Inv, Handover
<1>8. BarePod'
  BY <1>1 DEF Inv, BarePod
<1>9. Captures'
  <2>1. r \in Records
    BY TrainingAssumption DEF Inv, Types
  <2>2. performed' \subseteq Records /\ captured \subseteq captured'
    BY <1>1, <2>1 DEF Inv, Captures
  <2>3. captured' \subseteq UNION {Decode(q, Scope) : q \in performed'}
    <3>1. captured' \subseteq captured \cup Decode(r, Scope)
      BY <1>1
    <3> QED BY <1>1, <3>1 DEF Inv, Captures
  <2>4. ASSUME opt.restart, rollout # "theirs", Broken = {}, NEW q \in performed' \cap Startup
        PROVE  Decode(q, Scope) \subseteq captured'
    <3>1. CASE q = r
      <4>1. ready /\ p = "replacement"
        BY <1>1, <2>4, <3>1 DEF Inv, Captures
      <4>2. r.g \in Gadgets
        BY <2>1 DEF Records, Gadgets
      <4>3. gadget[r.g] = "attached"
        BY <2>4, <4>1, <4>2 DEF Inv, Attachment, Signalled, Broken
      <4>4. Matches(p)
        BY <2>4 DEF Matches, UsesSelector
      <4> QED BY <1>1, <3>1, <4>3, <4>4
    <3>2. CASE q # r
      BY <1>1, <2>2, <2>4, <3>2 DEF Inv, Captures
    <3> QED BY <3>1, <3>2
  <2> QED BY <1>1, <1>5, <2>2, <2>3, <2>4 DEF Inv, Captures
<1> QED
  BY <1>3, <1>4, <1>6, <1>7, <1>8, <1>9 DEF Inv

(* Pods go and come; an owner is rolled out by somebody else.               *)
LEMMA PodsKept ==
    ASSUME Inv, PodTerminates \/ ControllerReplaces \/ Evicted
    PROVE  Inv'
<1>1. UNCHANGED <<opt, pc, tracer, performed, profile, pipeline>>
  BY DEF PodTerminates, ControllerReplaces, Evicted
<1>2. UNCHANGED <<gadget, ready, window, result, captured, behavior, events, hist, seccompSrc, imported,
                  files, doc, published>>
  BY <1>1 DEF tracer, pipeline
<1>3. Types'
  BY AroundTypes DEF Inv
<1>4. Nothing' /\ Pipeline' /\ Proposal' /\ Authority'
  BY <1>1, <1>2, DataKept
<1>5. Broken' = Broken /\ Delivered' = Delivered /\ \A g \in Gadgets : Signalled(g)' = Signalled(g)
  BY <1>2, BrokenKept DEF Delivered
<1>6. Attachment' /\ Handover'
  BY <1>1, <1>2, <1>5 DEF Inv, Attachment, Handover
<1>7. BarePod' /\ Captures'
  <2>1. CASE PodTerminates
    <3>1. /\ rollout' = rollout /\ pods'["replacement"] = pods["replacement"]
          /\ rollout = "no" => pods["resolved"] = "terminating"
      BY <2>1 DEF PodTerminates, Inv, Types, Pods
    <3>2. BarePod'
      BY <1>1, <3>1 DEF Inv, BarePod
    <3>3. Captures'
      BY <1>1, <1>2, <1>5, <3>1 DEF Inv, Captures
    <3> QED BY <3>2, <3>3
  <2>2. CASE ControllerReplaces
    <3>1. /\ rollout' = rollout /\ rollout # "no" /\ pods'["replacement"] = "running"
          /\ pods'["resolved"] = pods["resolved"] /\ rollout \in {"no", "ours", "theirs"}
      BY <2>2 DEF ControllerReplaces, Inv, Types, Pods
    <3>2. BarePod'
      BY <1>1, <3>1 DEF Inv, BarePod
    <3>3. Captures'
      BY <1>1, <1>2, <1>5, <3>1 DEF Inv, Captures
    <3> QED BY <3>2, <3>3
  <2>3. CASE Evicted
    <3>1. rollout' = "theirs" /\ opt.owner # "none" /\ pods' = pods
      BY <2>3 DEF Evicted
    <3>2. BarePod'
      BY <1>1, <3>1 DEF BarePod
    <3>3. Captures'
      BY <1>1, <1>2, <1>5, <3>1 DEF Inv, Captures
    <3> QED BY <3>2, <3>3
  <2> QED BY <2>1, <2>2, <2>3
<1> QED
  BY <1>3, <1>4, <1>6, <1>7 DEF Inv

(* SPO's objects move on: a profile is a fragment or the merged one.        *)
LEMMA SPOKept ==
    ASSUME Inv, SPOMerges \/ RecordingDeleted \/ SourceEnabled
    PROVE  Inv'
<1>1. UNCHANGED <<opt, pc, tracer, pods, rollout, performed, pipeline>>
  BY DEF SPOMerges, RecordingDeleted, SourceEnabled
<1>2. UNCHANGED <<gadget, ready, window, result, captured, behavior, events, hist, seccompSrc, imported,
                  files, doc, published>>
  BY <1>1 DEF tracer, pipeline
<1>3. Types'
  BY AroundTypes DEF Inv
<1>4. Nothing' /\ Pipeline' /\ Proposal'
  BY <1>1, <1>2, DataKept
<1>5. Broken' = Broken /\ Delivered' = Delivered /\ \A g \in Gadgets : Signalled(g)' = Signalled(g)
  BY <1>2, BrokenKept DEF Delivered
<1>6. Attachment' /\ Handover' /\ BarePod' /\ Captures'
  BY <1>1, <1>2, <1>5 DEF Inv, Attachment, Handover, BarePod, Captures
<1>7. Authority'
  <2>1. Sourced' = Sourced
    BY <1>1, <1>2 DEF Sourced
  <2>2. opt.source = "spo" => profile'.partial \/ profile'.names = Merged
    <3>1. CASE SPOMerges
      BY <3>1 DEF SPOMerges, Inv, Types, SourceProfiles
    <3>2. CASE RecordingDeleted
      BY <3>2 DEF RecordingDeleted, Inv, Authority
    <3>3. CASE SourceEnabled
      BY <3>3 DEF SourceEnabled, Inv, Types, SourceProfiles, Authority
    <3> QED BY <3>1, <3>2, <3>3
  <2> QED BY <1>1, <2>1, <2>2 DEF Inv, Authority
<1> QED
  BY <1>3, <1>4, <1>6, <1>7 DEF Inv

(***************************************************************************)
(* The invariant                                                           *)
(***************************************************************************)

LEMMA InitHolds ==
    ASSUME Init PROVE Inv
<1>1. /\ opt \in Options /\ pc = "start" /\ faults = MaxFaults
      /\ gadget = [g \in Gadgets |-> "none"] /\ ready = FALSE /\ window = "open"
      /\ result = NoResult /\ captured = {}
      /\ pods = [resolved |-> "running", replacement |-> "none"] /\ rollout = "no" /\ performed = {}
      /\ recording = opt.recording /\ profile = opt.profile
      /\ hist = [runs |-> 0, syscalls |-> {}] /\ files = {} /\ doc = NoDocument /\ published = NoProposal
  BY DEF Init
<1>2. ~result.sent /\ result.sent \in BOOLEAN /\ result.err \in BOOLEAN
  BY <1>1 DEF NoResult
<1>3. Types
  <2>1. pods \in [Pods -> {"none", "running", "terminating", "gone"}]
    BY <1>1 DEF Pods
  <2>2. pc \in Tracing
    BY <1>1 DEF Tracing
  <2>3. gadget \in [Gadgets -> {"none", "starting", "attached", "failed", "initfailed", "broken"}]
    BY <1>1
  <2>4. faults \in 0..MaxFaults /\ recording \in Recordings /\ profile \in SourceProfiles
    BY <1>1, TrainingAssumption
  <2> QED BY <1>1, <1>2, <2>1, <2>2, <2>3, <2>4 DEF Types
<1>4. Attachment
  BY <1>1, <1>2 DEF Attachment
<1>5. ~Delivered
  BY <1>2 DEF Delivered
<1>6. Handover
  BY <1>1, <1>5 DEF Handover, Processed
<1>7. Nothing
  BY <1>1 DEF Nothing
<1>8. BarePod
  BY <1>1 DEF BarePod
<1>9. Captures
  BY <1>1 DEF Captures
<1>10. Pipeline
  BY <1>1 DEF Pipeline, Processed, NoDocument
<1>11. Authority /\ Proposal
  BY <1>1, TrainingAssumption DEF Authority, Proposal
<1> QED
  BY <1>3, <1>4, <1>6, <1>7, <1>8, <1>9, <1>10, <1>11 DEF Inv

LEMMA StepHolds ==
    ASSUME Inv, [Next]_vars PROVE Inv'
<1>1. CASE Command
  BY <1>1, StartsKept, SelectKept, RestartKept, ProcessKept, HistoryKept, ImportKept, WriteKept, PublishKept
     DEF Command
<1>2. CASE Stopped
  BY <1>2, StoppedKept
<1>3. CASE OnReady \/ DurationEnds \/ TraceReturns
  BY <1>3, ReadyKept, ReturnKept
<1>4. ASSUME NEW g \in Gadgets, GadgetAttaches(g) \/ GadgetFails(g) PROVE Inv'
  BY <1>4, GadgetKept
<1>5. ASSUME NEW p \in Pods, NEW r \in Startup \cup opt.steady, Perform(p, r) PROVE Inv'
  BY <1>5, PerformKept
<1>6. CASE PodTerminates \/ ControllerReplaces \/ Evicted
  BY <1>6, PodsKept
<1>7. CASE SPOMerges \/ RecordingDeleted \/ SourceEnabled
  BY <1>7, SPOKept
<1>8. CASE UNCHANGED vars
  <2>1. UNCHANGED <<opt, pc, faults, gadget, ready, window, result, captured, pods, rollout, performed,
                    recording, profile, behavior, events, hist, recRead, seccompSrc, imported, files, doc,
                    published>>
    BY <1>8 DEF vars, tracer, cluster, pipeline
  <2>2. Nothing' /\ Pipeline' /\ Proposal' /\ Authority'
    BY <2>1, DataKept
  <2>3. Broken' = Broken /\ Delivered' = Delivered /\ \A g \in Gadgets : Signalled(g)' = Signalled(g)
    BY <2>1, BrokenKept DEF Delivered
  <2>4. Types'
    BY <2>1 DEF Inv, Types
  <2>5. Attachment' /\ Handover' /\ BarePod' /\ Captures'
    BY <2>1, <2>3 DEF Inv, Attachment, Handover, BarePod, Captures
  <2> QED BY <2>2, <2>4, <2>5 DEF Inv
<1> QED
  BY <1>1, <1>2, <1>3, <1>4, <1>5, <1>6, <1>7, <1>8 DEF Next

(* The inductive invariant of a run of the trace command: every variable    *)
(* has its type, the tracer's events reach the proposal through the stages  *)
(* of runTrace, and nothing is left behind before they were handed over.    *)
THEOREM RunInvariant == Spec => []Inv
<1>1. Init => Inv
  BY InitHolds
<1>2. Inv /\ [Next]_vars => Inv'
  BY StepHolds
<1> QED
  BY <1>1, <1>2, PTL DEF Spec

(* A proposal is published by the last step.                                *)
LEMMA PublishedIsDone ==
    ASSUME Inv, Published PROVE pc = "done"
BY DEF Inv, Nothing, Published, NoProposal

(* FailureLeavesNothing: a gadget's error keeps runTrace from leaving a     *)
(* proposal, a file or a recorded run, and restartBarePod's deletion is     *)
(* made good before the command reports success, in every interleaving of   *)
(* the six gadgets, the pods and the command.                               *)
THEOREM NothingIsLeftAfterAFailure == Spec => []FailureLeavesNothing
<1>1. Inv => FailureLeavesNothing
  <2>1. SUFFICES ASSUME Inv PROVE FailureLeavesNothing
    OBVIOUS
  <2>2. TypeOK
    BY <2>1 DEF Inv, Types, Nothing, TypeOK, Tracing, Processed
  <2>3. Broken # {} => ~Delivered
    BY <2>1 DEF Inv, Handover
  <2>4. Broken # {} => ~Published /\ files = {} /\ hist.runs = 0
    <3>1. SUFFICES ASSUME Broken # {} PROVE ~Published /\ files = {} /\ hist.runs = 0
      OBVIOUS
    <3>2. files = {} /\ hist = [runs |-> 0, syscalls |-> {}] /\ pc # "done"
      BY <2>1, <2>3, <3>1 DEF Inv, Nothing, Handover, Processed
    <3> QED BY <2>1, <3>2, PublishedIsDone
  <2>5. (pc = "done" /\ opt.owner = "none") => pods.resolved = "running" \/ pods.replacement = "running"
    BY <2>1 DEF Inv, BarePod
  <2> QED BY <2>2, <2>4, <2>5 DEF FailureLeavesNothing
<1> QED
  BY <1>1, RunInvariant, PTL

(* ImportedAuthorityOnly: the seccomp authority of a proposal is the        *)
(* completed, inert profile SPO recorded, or what this tool observed, never *)
(* a mix, although spoimport reads the two SPO objects in two requests.     *)
THEOREM OnlyImportedAuthority == Spec => []ImportedAuthorityOnly
<1>1. Inv => ImportedAuthorityOnly
  <2>1. SUFFICES ASSUME Inv PROVE ImportedAuthorityOnly
    OBVIOUS
  <2>2. opt.source = "spo" => hist.syscalls = {} /\ \A e \in doc.events : e.mode # "syscall"
    BY <2>1 DEF Inv, Pipeline
  <2>3. ASSUME Published
        PROVE  /\ published.manifest.localhostProfile = published.spo.name
               /\ published.spo.name = LocalhostProfile
               /\ published.spo.profile = seccompSrc.profile
               /\ published.spo.provenance = seccompSrc.provenance /\ Sourced
    <3>1. pc = "done"
      BY <2>1, <2>3, PublishedIsDone
    <3> QED BY <2>1, <3>1 DEF Inv, Proposal, Authority, ToSecurityContext
  <2>4. ASSUME Published, opt.source = "spo"
        PROVE  /\ published.spo.profile.allow = Merged
               /\ published.spo.provenance.source = "spo"
               /\ imported.state = "Disabled"
    BY <2>3, <2>4 DEF Sourced
  <2>5. LocalhostProfile = <<>> <=> ~seccompSrc.has
    BY DEF LocalhostProfile, GovernedProfileName
  <2>6. ASSUME Published
        PROVE  published.spo.name = <<>> <=> (opt.source = "internal" /\ published.spo.profile.allow = {})
    <3>1. CASE opt.source = "spo"
      BY <2>3, <2>5, <2>6, <3>1 DEF Sourced
    <3>2. CASE opt.source # "spo"
      <4>1. /\ seccompSrc.has = (behavior.syscalls # {})
            /\ seccompSrc.profile.allow = SeccompProfile(behavior.syscalls, behavior.archs).allow
            /\ opt.source = "internal"
        BY <2>3, <2>6, <3>2 DEF Sourced
      <4>2. SeccompProfile(behavior.syscalls, behavior.archs).allow = {} <=> behavior.syscalls = {}
        BY DEF SeccompProfile, runtimeBaselineSyscalls
      <4>3. seccompSrc.has <=> behavior.syscalls # {}
        BY <4>1
      <4> QED BY <2>3, <2>5, <2>6, <4>1, <4>2, <4>3
    <3> QED BY <3>1, <3>2
  <2> QED BY <2>2, <2>3, <2>4, <2>6 DEF ImportedAuthorityOnly
<1> QED
  BY <1>1, RunInvariant, PTL

(***************************************************************************)
(* What a record becomes                                                   *)
(***************************************************************************)

FromOpen(r, e) ==
    /\ r.g = "open" /\ Own(r) /\ r.path # NoPath
    /\ e = Event(r, "openat", r.path, 0, modeFromOpenFlags(r.acc), r.dir, r.trunc)
FromExec(r, e) ==
    /\ r.g = "exec" /\ Own(r)
    /\ \E p \in {r.path, r.file} : p # NoPath /\ e = Event(r, "execve", p, 0, "exec", FALSE, FALSE)
FromConnect(r, e) ==
    /\ r.g = "connect" /\ Own(r) /\ r.port # 0
    /\ e = Event(r, "connect", NoPath, r.port, "egress", FALSE, FALSE)
FromBind(r, e) ==
    /\ r.g = "bind" /\ Own(r) /\ r.port # 0
    /\ e = Event(r, "bind", NoPath, r.port, "ingress", FALSE, FALSE)
FromCapability(r, e) ==
    /\ r.g = "capabilities" /\ r.comm = Binary /\ r.name # ""
    /\ e = Event(r, r.name, NoPath, 0, "capability", FALSE, FALSE)

(* A handler lets through what the traced binary did.                       *)
LEMMA ScopeIsOwn ==
    ASSUME NEW r
    PROVE  /\ Admitted(r, Scope) <=> Own(r)
           /\ commAdmits(Scope, expectedCommFor(Scope), r.comm) <=> r.comm = Binary
BY BinaryAssumption DEF Admitted, Own, commAdmits, expectedCommFor, Scope

LEMMA DecodeIs ==
    ASSUME NEW r \in Records, NEW e
    PROVE  e \in Decode(r, Scope) <=>
               \/ FromOpen(r, e) \/ FromExec(r, e) \/ FromConnect(r, e)
               \/ FromBind(r, e) \/ FromCapability(r, e)
<1>1. r.g \in {"open", "exec", "connect", "bind", "capabilities"}
  BY DEF Records
<1>2. CASE r.g = "open"
  <2>1. Decode(r, Scope) = OpenEvents(r, Scope)
    BY <1>2 DEF Decode
  <2>2. e \in OpenEvents(r, Scope) <=> FromOpen(r, e)
    BY <1>2, ScopeIsOwn DEF OpenEvents, FromOpen
  <2> QED BY <1>2, <2>1, <2>2 DEF FromExec, FromConnect, FromBind, FromCapability
<1>3. CASE r.g = "exec"
  <2>1. Decode(r, Scope) = ExecEvents(r, Scope)
    BY <1>3 DEF Decode
  <2>2. e \in ExecEvents(r, Scope) <=> FromExec(r, e)
    BY <1>3, ScopeIsOwn DEF ExecEvents, FromExec
  <2> QED BY <1>3, <2>1, <2>2 DEF FromOpen, FromConnect, FromBind, FromCapability
<1>4. CASE r.g = "connect"
  <2>1. Decode(r, Scope) = ConnectEvents(r, Scope)
    BY <1>4 DEF Decode
  <2>2. e \in ConnectEvents(r, Scope) <=> FromConnect(r, e)
    BY <1>4, ScopeIsOwn DEF ConnectEvents, FromConnect
  <2> QED BY <1>4, <2>1, <2>2 DEF FromOpen, FromExec, FromBind, FromCapability
<1>5. CASE r.g = "bind"
  <2>1. Decode(r, Scope) = BindEvents(r, Scope)
    BY <1>5 DEF Decode
  <2>2. e \in BindEvents(r, Scope) <=> FromBind(r, e)
    BY <1>5, ScopeIsOwn DEF BindEvents, FromBind
  <2> QED BY <1>5, <2>1, <2>2 DEF FromOpen, FromExec, FromConnect, FromCapability
<1>6. CASE r.g = "capabilities"
  <2>1. Decode(r, Scope) = CapabilityEvents(r, Scope)
    BY <1>6 DEF Decode
  <2>2. e \in CapabilityEvents(r, Scope) <=> FromCapability(r, e)
    BY <1>6, ScopeIsOwn DEF CapabilityEvents, FromCapability
  <2> QED BY <1>6, <2>1, <2>2 DEF FromOpen, FromExec, FromConnect, FromBind
<1> QED
  BY <1>1, <1>2, <1>3, <1>4, <1>5, <1>6

(* Where the events of a published run come from.                           *)
LEMMA EventOrigin ==
    ASSUME Inv, pc \in Processed, NEW e \in events
    PROVE  \/ e \in SeccompEvents(Syscalls)
           \/ \E r \in performed : e \in Decode(r, Scope)
<1>1. e \in result.events
  <2>1. events = Kept
    BY DEF Inv, Pipeline
  <2> QED BY <2>1, DroppedSyscalls DEF Kept
<1>2. e \in captured \cup SeccompEvents(Syscalls)
  BY <1>1 DEF Inv, Handover
<1> QED
  BY <1>2 DEF Inv, Captures

(***************************************************************************)
(* The evidence file                                                       *)
(***************************************************************************)

(* An event is its fields: nothing is lost in a file that keeps them all.   *)
Shaped(e) ==
    e = [id |-> e.id, syscall |-> e.syscall, path |-> e.path, port |-> e.port, mode |-> e.mode,
         isDir |-> e.isDir, truncate |-> e.truncate, timestamp |-> e.timestamp, prov |-> e.prov]

LEMMA ShapedEvent ==
    ASSUME NEW r, NEW s, NEW p, NEW n, NEW m, NEW d, NEW t
    PROVE  Shaped(Event(r, s, p, n, m, d, t))
BY DEF Shaped, Event

LEMMA EventsAreShaped ==
    ASSUME Inv, pc \in Processed, NEW e \in events
    PROVE  Shaped(e)
<1>1. CASE e \in SeccompEvents(Syscalls)
  BY <1>1 DEF SeccompEvents, Shaped
<1>2. ASSUME NEW r \in performed, e \in Decode(r, Scope) PROVE Shaped(e)
  <2>1. r \in Records
    BY DEF Inv, Captures
  <2>2. \E s, p, n, m, d, t : e = Event(r, s, p, n, m, d, t)
    <3>1. \/ FromOpen(r, e) \/ FromExec(r, e) \/ FromConnect(r, e)
          \/ FromBind(r, e) \/ FromCapability(r, e)
      BY <1>2, <2>1, DecodeIs
    <3>2. CASE FromOpen(r, e)        BY <3>2, Zenon DEF FromOpen
    <3>3. CASE FromExec(r, e)        BY <3>3, Zenon DEF FromExec
    <3>4. CASE FromConnect(r, e)     BY <3>4, Zenon DEF FromConnect
    <3>5. CASE FromBind(r, e)        BY <3>5, Zenon DEF FromBind
    <3>6. CASE FromCapability(r, e)  BY <3>6, Zenon DEF FromCapability
    <3> QED BY <3>1, <3>2, <3>3, <3>4, <3>5, <3>6
  <2> QED
    BY <2>2, ShapedEvent, Zenon
<1> QED
  BY <1>1, <1>2, EventOrigin

(* What EncodeEvents writes of one event, and what DecodeEvents reads.      *)
Encoded(e) ==
    [syscall |-> e.syscall, path |-> e.path, port |-> e.port, mode |-> e.mode,
     isDir |-> e.isDir, truncate |-> e.truncate, timestamp |-> e.timestamp,
     provenanceId |-> e.prov, id |-> e.id]
Decoded(d) ==
    [id |-> d.id, syscall |-> d.syscall, path |-> d.path, port |-> d.port, mode |-> d.mode,
     isDir |-> d.isDir, truncate |-> d.truncate, timestamp |-> d.timestamp, prov |-> d.provenanceId]

LEMMA EvidenceRoundTrip ==
    ASSUME NEW E, NEW A, \A e \in E : Shaped(e)
    PROVE  /\ DecodeEvents(EncodeEvents(E, A)) = E
           /\ Decodes(EncodeEvents(E, A))
           /\ EncodeEvents(E, A).architectures = A
<1>1. EncodeEvents(E, A).events = {Encoded(e) : e \in E}
  BY DEF EncodeEvents, Encoded
<1>2. DecodeEvents(EncodeEvents(E, A)) = {Decoded(d) : d \in {Encoded(e) : e \in E}}
  BY <1>1 DEF DecodeEvents, Decoded
<1>3. \A e \in E : Decoded(Encoded(e)) = e
  BY DEF Decoded, Encoded, Shaped
<1>4. DecodeEvents(EncodeEvents(E, A)) = E
  BY <1>2, <1>3
<1>5. Decodes(EncodeEvents(E, A))
  <2>1. EncodeEvents(E, A).sources = {e.prov : e \in E}
    BY DEF EncodeEvents
  <2>2. \A d \in EncodeEvents(E, A).events : d.provenanceId \in EncodeEvents(E, A).sources
    BY <1>1, <2>1 DEF Encoded
  <2> QED BY <2>2 DEF Decodes, EncodeEvents
<1> QED
  BY <1>4, <1>5 DEF EncodeEvents

(* EvidenceReplays: writeEventsJSON loses nothing the synthesis looks at,   *)
(* so the profile of a published proposal can be computed again from the    *)
(* evidence file alone.                                                     *)
THEOREM EvidenceIsEnough == Spec => []EvidenceReplays
<1>1. Inv => EvidenceReplays
  <2>1. SUFFICES ASSUME Inv, Published, "events" \in files
                 PROVE  /\ Decodes(doc)
                        /\ EvidenceGroups(DecodeEvents(doc)) = EvidenceGroups(events)
                        /\ PodLockProfile(Synthesize(DecodeEvents(doc), doc.architectures).filesystem) = published.podLock
                        /\ Synthesize(DecodeEvents(doc), doc.architectures) = behavior
    BY DEF EvidenceReplays
  <2>2. pc = "done" /\ pc \in Processed
    BY <2>1, PublishedIsDone DEF Processed
  <2>3. doc = EncodeEvents(events, result.archs) /\ behavior = Synthesize(events, result.archs)
    BY <2>1, <2>2 DEF Inv, Pipeline
  <2>4. DecodeEvents(doc) = events /\ Decodes(doc) /\ doc.architectures = result.archs
    BY <2>1, <2>2, <2>3, EventsAreShaped, EvidenceRoundTrip
  <2>5. published.podLock = PodLockProfile(behavior.filesystem)
    BY <2>1, <2>2 DEF Inv, Proposal
  <2> QED BY <2>3, <2>4, <2>5
<1> QED
  BY <1>1, RunInvariant, PTL

(***************************************************************************)
(* What synthesis makes of the events                                      *)
(***************************************************************************)

(* A right is granted on a directory the path lies in.                      *)
LEMMA DirectoryIsPrefix ==
    ASSUME NEW p \in Paths, NEW b
    PROVE  IsPrefixOf(aggregationDir(p, b), p.seg)
<1>1. p.seg \in Seq(STRING)
  BY DEF Paths
<1> DEFINE dir == IF b \/ p.seg = <<>> THEN p.seg ELSE SubSeq(p.seg, 1, Len(p.seg) - 1)
           n == IF Len(dir) > maxAggregationDepth THEN maxAggregationDepth ELSE Len(dir)
<1>2. /\ dir \in Seq(STRING) /\ Len(dir) \in Nat /\ Len(dir) =< Len(p.seg)
      /\ \A i \in 1..Len(dir) : dir[i] = p.seg[i]
  <2>1. CASE b \/ p.seg = <<>>
    BY <1>1, <2>1
  <2>2. CASE ~(b \/ p.seg = <<>>)
    <3>1. Len(p.seg) \in Nat /\ Len(p.seg) # 0
      BY <1>1, <2>2
    <3>2. dir = SubSeq(p.seg, 1, Len(p.seg) - 1)
      BY <2>2
    <3> HIDE DEF dir
    <3>0. PICK k \in Nat : k = Len(p.seg) /\ k # 0
      BY <3>1
    <3>3. PICK m \in Int : m = Len(p.seg) - 1 /\ m \in Nat /\ Len(p.seg) = m + 1
      BY <3>0
    <3>4. \A i \in 1..m : p.seg[i] \in STRING
      BY <1>1, <3>0, <3>3
    <3>5. /\ dir \in Seq(STRING) /\ Len(dir) = (IF 1 =< m THEN m - 1 + 1 ELSE 0)
          /\ \A i \in 1..(m - 1 + 1) : dir[i] = p.seg[1 + i - 1]
      BY <3>2, <3>3, <3>4, SubSeqProperties
    <3>6. Len(dir) = m
      BY <3>3, <3>5
    <3>7. \A i \in 1..m : dir[i] = p.seg[i]
      BY <3>3, <3>5
    <3> QED BY <3>0, <3>3, <3>5, <3>6, <3>7
  <2> QED BY <2>1, <2>2
<1>3. n \in Nat /\ n =< Len(dir)
  BY <1>2 DEF maxAggregationDepth
<1>4. aggregationDir(p, b) = SubSeq(dir, 1, n)
  BY DEF aggregationDir
<1> HIDE DEF n
<1>5. PICK k \in Nat : k = n /\ k =< Len(dir)
  BY <1>3
<1> HIDE DEF dir
<1>6. Len(SubSeq(dir, 1, k)) = k /\ \A i \in 1..k : SubSeq(dir, 1, k)[i] = dir[i]
  BY <1>2, <1>5
<1>7. SubSeq(p.seg, 1, k) = SubSeq(dir, 1, k)
  <2>1. \A i \in 1..k : p.seg[i] \in STRING /\ dir[i] \in STRING /\ dir[i] = p.seg[i]
    BY <1>1, <1>2, <1>5
  <2>2. /\ SubSeq(p.seg, 1, k) \in Seq(STRING) /\ Len(SubSeq(p.seg, 1, k)) = k
        /\ \A i \in 1..k : SubSeq(p.seg, 1, k)[i] = p.seg[i]
    BY <1>1, <1>2, <1>5, <2>1
  <2>3. SubSeq(dir, 1, k) \in Seq(STRING)
    BY <1>2, <1>5, <2>1
  <2> QED
    BY <1>6, <2>1, <2>2, <2>3, SeqEqual
<1> QED
  BY <1>1, <1>2, <1>4, <1>5, <1>6, <1>7 DEF IsPrefixOf

Aggregated(F, d) == {e \in F : aggregationDir(e.path, e.isDir) = d}
Perms(S) == collapsePermissions(rightsFor(S))
Categories == {"readOnly", "readExec", "readWrite", "readWriteExec"}

LEMMA PermsAre ==
    ASSUME NEW S
    PROVE  /\ "read" \in Perms(S) <=> \E e \in S : e.mode \in {"read", "read_write"}
           /\ "write" \in Perms(S) <=> \E e \in S : e.mode \in {"write", "read_write"} \/ e.truncate
           /\ "execute" \in Perms(S) <=> \E e \in S : e.mode = "exec"
<1>1. /\ "ReadFile" \in rightsFor(S) <=> \E e \in S : e.mode \in {"read", "read_write"} /\ ~e.isDir
      /\ "ReadDir" \in rightsFor(S) <=> \E e \in S : e.mode \in {"read", "read_write"} /\ e.isDir
      /\ "WriteFile" \in rightsFor(S) <=> \E e \in S : e.mode \in {"write", "read_write"}
      /\ "Execute" \in rightsFor(S) <=> \E e \in S : e.mode = "exec"
      /\ "Truncate" \in rightsFor(S) <=> \E e \in S : e.truncate
  BY DEF rightsFor
<1>2. /\ "read" \in Perms(S) <=> "ReadFile" \in rightsFor(S) \/ "ReadDir" \in rightsFor(S)
      /\ "write" \in Perms(S) <=> "WriteFile" \in rightsFor(S) \/ "Truncate" \in rightsFor(S)
      /\ "execute" \in Perms(S) <=> "Execute" \in rightsFor(S)
  BY DEF Perms, collapsePermissions
<1> QED
  BY <1>1, <1>2

(* A directory is in the category its rights call for.                      *)
LEMMA PodLockIs ==
    ASSUME NEW F, NEW c \in Categories, NEW d
    PROVE  d \in PodLockProfile(FileAccessesFromCandidate(LandlockSynthesize(F)))[c] <=>
               /\ Aggregated(F, d) # {}
               /\ categoryFor(Perms(Aggregated(F, d))) = c
<1> DEFINE dirs == {aggregationDir(e.path, e.isDir) : e \in F}
           fs == FileAccessesFromCandidate(LandlockSynthesize(F))
           Rule(x) == [path |-> x, rights |-> rightsFor(Aggregated(F, x))]
           Access(x) == [path |-> x, perms |-> Perms(Aggregated(F, x))]
           Collapsed(r) == [path |-> r.path, perms |-> collapsePermissions(r.rights)]
<1>1. LandlockSynthesize(F) = {Rule(x) : x \in dirs}
  BY DEF LandlockSynthesize, Aggregated
<1>2. fs = {Collapsed(r) : r \in {Rule(x) : x \in dirs}}
  BY <1>1 DEF FileAccessesFromCandidate
<1>3. \A x : Collapsed(Rule(x)) = Access(x)
  BY DEF Perms
<1>4. \A x : Access(x).path = x /\ Access(x).perms = Perms(Aggregated(F, x))
  OBVIOUS
<1>5. PodLockProfile(fs)[c] = {a.path : a \in {x \in fs : categoryFor(x.perms) = c}}
  BY DEF PodLockProfile, Categories
<1>6. d \in dirs <=> Aggregated(F, d) # {}
  BY DEF Aggregated
<1> HIDE DEF dirs, fs, Rule, Access, Collapsed
<1>7. \A a : a \in fs <=> \E x \in dirs : a = Access(x)
  BY <1>2, <1>3
<1>8. d \in PodLockProfile(fs)[c] <=> \E a \in fs : a.path = d /\ categoryFor(a.perms) = c
  BY <1>5
<1>9. (\E a \in fs : a.path = d /\ categoryFor(a.perms) = c) <=>
        d \in dirs /\ categoryFor(Perms(Aggregated(F, d))) = c
  BY <1>4, <1>7
<1> QED
  BY <1>6, <1>8, <1>9 DEF fs

(* Synthesis of the filesystem, read off the events.                        *)
LEMMA FilesystemIs ==
    ASSUME Inv, pc = "done", NEW c \in Categories, NEW d
    PROVE  d \in published.podLock[c] <=>
               /\ Aggregated(FilesystemEvents(events), d) # {}
               /\ categoryFor(Perms(Aggregated(FilesystemEvents(events), d))) = c
<1>1. published.podLock = PodLockProfile(behavior.filesystem) /\ behavior = Synthesize(events, result.archs)
  BY DEF Inv, Proposal, Pipeline, Processed
<1>2. behavior.filesystem = FileAccessesFromCandidate(LandlockSynthesize(FilesystemEvents(events)))
  BY <1>1 DEF Synthesize, SynthesizeCandidate
<1> QED
  BY <1>1, <1>2, PodLockIs

(* The fields of an event, by the handler that made it.                     *)
LEMMA OpenFields ==
    ASSUME NEW r, NEW e, FromOpen(r, e)
    PROVE  /\ e.path = r.path /\ e.isDir = r.dir /\ e.truncate = r.trunc
           /\ e.mode = modeFromOpenFlags(r.acc) /\ e.syscall = "openat"
           /\ e.mode \in {"read", "write", "read_write"}
           /\ e.mode = "write" <=> r.acc = 1
           /\ e.mode = "read_write" <=> r.acc = 2
BY DEF FromOpen, Event, modeFromOpenFlags

LEMMA ExecFields ==
    ASSUME NEW r, NEW e, FromExec(r, e)
    PROVE  /\ e.path \in {r.path, r.file} /\ e.isDir = FALSE /\ e.truncate = FALSE
           /\ e.mode = "exec" /\ e.syscall = "execve"
BY DEF FromExec, Event

LEMMA OtherFields ==
    ASSUME NEW r, NEW e
    PROVE  /\ FromConnect(r, e) => e.mode = "egress" /\ e.syscall = "connect" /\ e.port = r.port
           /\ FromBind(r, e) => e.mode = "ingress" /\ e.syscall = "bind" /\ e.port = r.port
           /\ FromCapability(r, e) => e.mode = "capability" /\ e.syscall = r.name
<1>1. CASE FromConnect(r, e)
  <2>1. e = Event(r, "connect", NoPath, r.port, "egress", FALSE, FALSE) /\ r.g = "connect"
    BY <1>1, Zenon DEF FromConnect
  <2>2. e.mode = "egress" /\ e.syscall = "connect" /\ e.port = r.port
    BY <2>1 DEF Event
  <2> QED BY <2>1, <2>2, Zenon DEF FromBind, FromCapability
<1>2. CASE FromBind(r, e)
  <2>1. e = Event(r, "bind", NoPath, r.port, "ingress", FALSE, FALSE) /\ r.g = "bind"
    BY <1>2, Zenon DEF FromBind
  <2>2. e.mode = "ingress" /\ e.syscall = "bind" /\ e.port = r.port
    BY <2>1 DEF Event
  <2> QED BY <2>1, <2>2, Zenon DEF FromConnect, FromCapability
<1>3. CASE FromCapability(r, e)
  <2>1. e = Event(r, r.name, NoPath, 0, "capability", FALSE, FALSE) /\ r.g = "capabilities"
    BY <1>3, Zenon DEF FromCapability
  <2>2. e.mode = "capability" /\ e.syscall = r.name
    BY <2>1 DEF Event
  <2> QED BY <2>1, <2>2, Zenon DEF FromConnect, FromBind
<1> QED
  BY <1>1, <1>2, <1>3

(* A filesystem event comes from an open or an exec of the traced binary.   *)
LEMMA FilesystemOrigin ==
    ASSUME Inv, pc \in Processed, NEW e \in FilesystemEvents(events)
    PROVE  \E r \in performed : r \in Records /\ (FromOpen(r, e) \/ FromExec(r, e))
<1>1. e \in events /\ e.mode \notin {"syscall", "capability"} /\ e.syscall \notin {"connect", "bind"}
  BY DEF FilesystemEvents
<1>2. e \notin SeccompEvents(Syscalls)
  BY <1>1 DEF SeccompEvents
<1>3. PICK r \in performed : e \in Decode(r, Scope)
  BY <1>1, <1>2, EventOrigin
<1>4. r \in Records
  BY DEF Inv, Captures
<1>5. ~FromConnect(r, e) /\ ~FromBind(r, e) /\ ~FromCapability(r, e)
  BY <1>1, OtherFields
<1> QED
  BY <1>3, <1>4, <1>5, DecodeIs

LEMMA RecordFields ==
    ASSUME NEW r \in Records
    PROVE  r.path \in Paths /\ r.file \in Paths
BY DEF Records

(* The permissions a directory gets, and what uses them.                    *)
RightsOn(d) == Perms(Aggregated(FilesystemEvents(events), d))
WroteIn(r, d) == Own(r) /\ r.g = "open" /\ IsPrefixOf(d, r.path.seg) /\ (r.acc \in {1, 2} \/ r.trunc)
RanIn(r, d) == Own(r) /\ r.g = "exec" /\ (IsPrefixOf(d, r.path.seg) \/ IsPrefixOf(d, r.file.seg))

(* A right on a directory was used in it.                                   *)
LEMMA RightsWereUsed ==
    ASSUME Inv, pc = "done", NEW d
    PROVE  /\ "write" \in RightsOn(d) => \E r \in performed : WroteIn(r, d)
           /\ "read" \in RightsOn(d) => \E r \in performed : Own(r) /\ r.g = "open" /\ IsPrefixOf(d, r.path.seg)
           /\ "execute" \in RightsOn(d) => \E r \in performed : RanIn(r, d)
<1> DEFINE P == RightsOn(d)
           In(r) == IsPrefixOf(d, r.path.seg)
<1>1. pc \in Processed
  BY DEF Processed
<1>2. ASSUME NEW e \in Aggregated(FilesystemEvents(events), d)
      PROVE  \E r \in performed :
                (FromOpen(r, e) /\ In(r)) \/ (FromExec(r, e) /\ (In(r) \/ IsPrefixOf(d, r.file.seg)))
  <2>1. e \in FilesystemEvents(events) /\ aggregationDir(e.path, e.isDir) = d
    BY DEF Aggregated
  <2>2. PICK r \in performed : r \in Records /\ (FromOpen(r, e) \/ FromExec(r, e))
    BY <1>1, <2>1, FilesystemOrigin
  <2>3. r.path \in Paths /\ r.file \in Paths
    BY <2>2, RecordFields
  <2>4. CASE FromOpen(r, e)
    <3>1. e.path = r.path
      BY <2>4, OpenFields
    <3> QED BY <2>1, <2>3, <2>4, <3>1, DirectoryIsPrefix
  <2>5. CASE FromExec(r, e)
    <3>1. e.path \in {r.path, r.file}
      BY <2>5, ExecFields
    <3> QED BY <2>1, <2>3, <2>5, <3>1, DirectoryIsPrefix
  <2> QED BY <2>2, <2>4, <2>5
<1>3. "write" \in P => \E r \in performed : WroteIn(r, d)
  <2>1. SUFFICES ASSUME "write" \in P
                 PROVE  \E r \in performed : WroteIn(r, d)
    OBVIOUS
  <2>2. PICK e \in Aggregated(FilesystemEvents(events), d) : e.mode \in {"write", "read_write"} \/ e.truncate
    BY <2>1, PermsAre DEF RightsOn
  <2>3. PICK r \in performed :
            (FromOpen(r, e) /\ In(r)) \/ (FromExec(r, e) /\ (In(r) \/ IsPrefixOf(d, r.file.seg)))
    BY <1>2
  <2>4. ~FromExec(r, e)
    BY <2>2, ExecFields
  <2>5. FromOpen(r, e) /\ In(r)
    BY <2>3, <2>4
  <2>6. r.acc \in {1, 2} \/ r.trunc
    BY <2>2, <2>5, OpenFields
  <2> QED BY <2>5, <2>6 DEF FromOpen, WroteIn
<1>4. "read" \in P => \E r \in performed : Own(r) /\ r.g = "open" /\ In(r)
  <2>1. SUFFICES ASSUME "read" \in P PROVE \E r \in performed : Own(r) /\ r.g = "open" /\ In(r)
    OBVIOUS
  <2>2. PICK e \in Aggregated(FilesystemEvents(events), d) : e.mode \in {"read", "read_write"}
    BY <2>1, PermsAre DEF RightsOn
  <2>3. PICK r \in performed :
            (FromOpen(r, e) /\ In(r)) \/ (FromExec(r, e) /\ (In(r) \/ IsPrefixOf(d, r.file.seg)))
    BY <1>2
  <2>4. ~FromExec(r, e)
    BY <2>2, ExecFields
  <2> QED BY <2>3, <2>4 DEF FromOpen
<1>5. "execute" \in P => \E r \in performed : RanIn(r, d)
  <2>1. SUFFICES ASSUME "execute" \in P
                 PROVE  \E r \in performed : RanIn(r, d)
    OBVIOUS
  <2>2. PICK e \in Aggregated(FilesystemEvents(events), d) : e.mode = "exec"
    BY <2>1, PermsAre DEF RightsOn
  <2>3. PICK r \in performed :
            (FromOpen(r, e) /\ In(r)) \/ (FromExec(r, e) /\ (In(r) \/ IsPrefixOf(d, r.file.seg)))
    BY <1>2
  <2>4. ~FromOpen(r, e)
    BY <2>2, OpenFields
  <2> QED BY <2>3, <2>4 DEF FromExec, RanIn
<1> QED
  BY <1>3, <1>4, <1>5

(* Ports and capabilities, read off the events.                             *)
LEMMA NetworkIs ==
    ASSUME Inv, pc = "done", NEW n
    PROVE  /\ n \in published.network.ingress <=>
                \E e \in events : /\ e.mode \notin {"syscall", "capability"} /\ e.syscall = "bind"
                                  /\ e.port = n /\ n # 0 /\ n < ephemeralPortStart
           /\ n \in published.network.egress <=>
                \E e \in events : /\ e.mode \notin {"syscall", "capability"} /\ e.syscall = "connect"
                                  /\ e.port = n /\ n # 0
           /\ n \in published.manifest.add <=> \E e \in events : e.mode = "capability" /\ e.syscall = n
<1>1. /\ published.network = NetworkPolicy(behavior.network)
      /\ published.manifest = ToSecurityContext(behavior.capabilities, LocalhostProfile)
      /\ behavior = Synthesize(events, result.archs)
  BY DEF Inv, Proposal, Pipeline, Processed
<1> DEFINE net == {e \in events : /\ e.mode \notin {"syscall", "capability"}
                                  /\ e.syscall \in {"connect", "bind"} /\ e.port # 0
                                  /\ e.syscall = "bind" => e.port < ephemeralPortStart}
           Port(e) == [port |-> e.port, dir |-> IF e.syscall = "bind" THEN "ingress" ELSE "egress"]
<1>2. behavior.network = {Port(e) : e \in net} /\ behavior.capabilities = {e.syscall : e \in {x \in events : x.mode = "capability"}}
  BY <1>1 DEF Synthesize
<1>3. \A e \in net : /\ Port(e).port = e.port
                     /\ Port(e).dir = "ingress" <=> e.syscall = "bind"
                     /\ Port(e).dir = "egress" <=> e.syscall = "connect"
  OBVIOUS
<1>4. /\ published.network.ingress = {a.port : a \in {x \in behavior.network : x.dir = "ingress"}}
      /\ published.network.egress = {a.port : a \in {x \in behavior.network : x.dir = "egress"}}
      /\ published.manifest.add = behavior.capabilities
  BY <1>1 DEF NetworkPolicy, ToSecurityContext
<1> HIDE DEF Port
<1>5. /\ n \in published.network.ingress <=> \E e \in net : e.syscall = "bind" /\ e.port = n
      /\ n \in published.network.egress <=> \E e \in net : e.syscall = "connect" /\ e.port = n
  BY <1>2, <1>3, <1>4
<1>6. n \in published.manifest.add <=> \E e \in events : e.mode = "capability" /\ e.syscall = n
  BY <1>2, <1>4
<1> QED
  BY <1>5, <1>6

(* A network event or a capability comes from its own handler.              *)
LEMMA OtherOrigin ==
    ASSUME Inv, pc = "done", NEW e \in events
    PROVE  /\ (e.mode \notin {"syscall", "capability"} /\ e.syscall = "bind") =>
                 \E r \in performed : Own(r) /\ r.g = "bind" /\ r.port = e.port
           /\ (e.mode \notin {"syscall", "capability"} /\ e.syscall = "connect") =>
                 \E r \in performed : Own(r) /\ r.g = "connect" /\ r.port = e.port
           /\ e.mode = "capability" => \E r \in performed : r.comm = Binary /\ r.name = e.syscall
<1>1. CASE e \in SeccompEvents(Syscalls)
  <2>1. e.mode = "syscall"
    BY <1>1 DEF SeccompEvents
  <2> QED BY <2>1
<1>2. CASE e \notin SeccompEvents(Syscalls)
  <2>1. PICK r \in performed : e \in Decode(r, Scope)
    BY <1>2, EventOrigin DEF Processed
  <2>2. \/ FromOpen(r, e) \/ FromExec(r, e) \/ FromConnect(r, e)
        \/ FromBind(r, e) \/ FromCapability(r, e)
    BY <2>1, DecodeIs DEF Inv, Captures
  <2>3. CASE FromOpen(r, e)
    BY <2>3, OpenFields
  <2>4. CASE FromExec(r, e)
    BY <2>4, ExecFields
  <2>5. CASE FromConnect(r, e)
    <3>1. Own(r) /\ r.g = "connect"
      BY <2>5, Zenon DEF FromConnect
    <3> QED BY <2>5, <3>1, OtherFields
  <2>6. CASE FromBind(r, e)
    <3>1. Own(r) /\ r.g = "bind"
      BY <2>6, Zenon DEF FromBind
    <3> QED BY <2>6, <3>1, OtherFields
  <2>7. CASE FromCapability(r, e)
    <3>1. r.comm = Binary
      BY <2>7, Zenon DEF FromCapability
    <3> QED BY <2>7, <3>1, OtherFields
  <2> QED BY <2>2, <2>3, <2>4, <2>5, <2>6, <2>7
<1> QED
  BY <1>1, <1>2

LEMMA CategoryIs ==
    ASSUME NEW P
    PROVE  /\ categoryFor(P) \in {"readWrite", "readWriteExec"} <=> "write" \in P
           /\ categoryFor(P) \in {"readExec", "readWriteExec"} <=> "execute" \in P
           /\ categoryFor(P) = "readOnly" => "read" \in P
           /\ "read" \in P => categoryFor(P) \in Categories
           /\ categoryFor(P) = "none" => "write" \notin P /\ "execute" \notin P
BY DEF categoryFor, Categories

(* GrantsWereUsed: Synthesize and the exporters grant no right, port or     *)
(* capability that the traced binary did not use in the window, whatever    *)
(* other processes of the container did and however the gadgets, the        *)
(* restart and the faults interleave.                                       *)
THEOREM EveryGrantWasUsed == Spec => []GrantsWereUsed
<1>1. Inv => GrantsWereUsed
  <2>1. SUFFICES ASSUME Inv, Published PROVE GrantsWereUsed
    BY DEF GrantsWereUsed
  <2>2. pc = "done"
    BY <2>1, PublishedIsDone
  <2>3. \A d : \A c \in Categories : d \in published.podLock[c] => categoryFor(RightsOn(d)) = c
    BY <2>1, <2>2, FilesystemIs DEF RightsOn
  <2>4. \A d \in published.podLock.readWrite \cup published.podLock.readWriteExec :
            \E r \in performed : WroteIn(r, d)
    <3>1. TAKE d \in published.podLock.readWrite \cup published.podLock.readWriteExec
    <3>2. categoryFor(RightsOn(d)) \in {"readWrite", "readWriteExec"}
      BY <2>3 DEF Categories
    <3>3. "write" \in RightsOn(d)
      BY <3>2, CategoryIs
    <3> QED BY <2>1, <2>2, <3>3, RightsWereUsed
  <2>5. \A d \in published.podLock.readExec \cup published.podLock.readWriteExec :
            \E r \in performed : RanIn(r, d)
    <3>1. TAKE d \in published.podLock.readExec \cup published.podLock.readWriteExec
    <3>2. categoryFor(RightsOn(d)) \in {"readExec", "readWriteExec"}
      BY <2>3 DEF Categories
    <3>3. "execute" \in RightsOn(d)
      BY <3>2, CategoryIs
    <3> QED BY <2>1, <2>2, <3>3, RightsWereUsed
  <2>6. \A d \in published.podLock.readOnly : \E r \in performed : Own(r) /\ r.g = "open" /\ IsPrefixOf(d, r.path.seg)
    <3>1. TAKE d \in published.podLock.readOnly
    <3>2. categoryFor(RightsOn(d)) = "readOnly"
      BY <2>3 DEF Categories
    <3>3. "read" \in RightsOn(d)
      BY <3>2, CategoryIs
    <3> QED BY <2>1, <2>2, <3>3, RightsWereUsed
  <2>7. /\ \A n \in published.network.ingress : \E r \in performed : Own(r) /\ r.g = "bind" /\ r.port = n
        /\ \A n \in published.network.egress : \E r \in performed : Own(r) /\ r.g = "connect" /\ r.port = n
        /\ \A n \in published.manifest.add : \E r \in performed : r.name = n /\ r.comm = Binary
    BY <2>1, <2>2, NetworkIs, OtherOrigin
  <2> QED BY <2>4, <2>5, <2>6, <2>7 DEF GrantsWereUsed, WroteIn, RanIn
<1> QED
  BY <1>1, RunInvariant, PTL

(***************************************************************************)
(* What the replacement did as it started                                  *)
(***************************************************************************)

(* Its events reach the synthesis.                                          *)
LEMMA StartupReachesSynthesis ==
    ASSUME Inv, pc = "done", opt.restart, rollout # "theirs",
           NEW r \in performed \cap Startup, NEW e \in Decode(r, Scope)
    PROVE  e \in events
<1>1. Delivered /\ Broken = {} /\ captured \subseteq result.events
  BY DEF Inv, Handover, Processed
<1>2. e \in result.events
  BY <1>1 DEF Inv, Captures
<1>3. e.mode # "syscall"
  <2>1. r \in Records
    BY DEF Inv, Captures
  <2>2. \/ FromOpen(r, e) \/ FromExec(r, e) \/ FromConnect(r, e)
        \/ FromBind(r, e) \/ FromCapability(r, e)
    BY <2>1, DecodeIs
  <2>3. CASE FromOpen(r, e)
    BY <2>3, OpenFields
  <2>4. CASE FromExec(r, e)
    BY <2>4, ExecFields
  <2>5. CASE FromConnect(r, e) \/ FromBind(r, e) \/ FromCapability(r, e)
    BY <2>5, OtherFields
  <2> QED BY <2>2, <2>3, <2>4, <2>5
<1>4. ToObservation(e) # "syscall"
  BY <1>3 DEF ToObservation
<1>5. events = Kept
  BY DEF Inv, Pipeline, Processed
<1> QED
  BY <1>2, <1>4, <1>5 DEF Kept, dropSyscallObservations

(* A filesystem event is granted on a directory above its path.             *)
GrantedOn(seg, cs) == \E c \in cs : \E d \in published.podLock[c] : IsPrefixOf(d, seg)

LEMMA FilesystemGranted ==
    ASSUME Inv, pc = "done", NEW e \in FilesystemEvents(events), e.path \in Paths
    PROVE  /\ e.mode \in {"read", "read_write"} => GrantedOn(e.path.seg, Categories)
           /\ (e.mode \in {"write", "read_write"} \/ e.truncate) =>
                 GrantedOn(e.path.seg, {"readWrite", "readWriteExec"})
           /\ e.mode = "exec" => GrantedOn(e.path.seg, {"readExec", "readWriteExec"})
<1> DEFINE d == aggregationDir(e.path, e.isDir)
           S == Aggregated(FilesystemEvents(events), d)
           c == categoryFor(Perms(S))
<1>1. e \in S
  BY DEF Aggregated
<1>2. IsPrefixOf(d, e.path.seg)
  BY DirectoryIsPrefix
<1> HIDE DEF d
<1>3. c \in Categories => d \in published.podLock[c]
  BY <1>1, FilesystemIs
<1>4. /\ e.mode \in {"read", "read_write"} => "read" \in Perms(S)
      /\ (e.mode \in {"write", "read_write"} \/ e.truncate) => "write" \in Perms(S)
      /\ e.mode = "exec" => "execute" \in Perms(S)
  BY <1>1, PermsAre
<1>5. /\ "read" \in Perms(S) => c \in Categories
      /\ "write" \in Perms(S) => c \in {"readWrite", "readWriteExec"}
      /\ "execute" \in Perms(S) => c \in {"readExec", "readWriteExec"}
  BY CategoryIs
<1>6. {"readWrite", "readWriteExec"} \subseteq Categories /\ {"readExec", "readWriteExec"} \subseteq Categories
  BY DEF Categories
<1> HIDE DEF S, c
<1> QED
  BY <1>2, <1>3, <1>4, <1>5, <1>6 DEF GrantedOn

(* ReplacementStartupCovered: no pod is restarted before all six gadgets    *)
(* listen, the filter matches the replacement, and synthesis drops nothing  *)
(* a profile can express, so the published proposal permits what the        *)
(* replacement's binary did as it started.                                  *)
THEOREM StartupIsCovered == Spec => []ReplacementStartupCovered
<1>1. Inv => ReplacementStartupCovered
  <2>1. SUFFICES ASSUME Inv, Published, opt.restart, rollout # "theirs",
                        NEW r \in performed \cap Startup, Own(r), Representable(r)
                 PROVE  Permits(r)
    BY DEF ReplacementStartupCovered
  <2>2. pc = "done"
    BY <2>1, PublishedIsDone
  <2>3. r \in Records /\ r.path \in Paths /\ r.file \in Paths
    BY <2>1, RecordFields DEF Inv, Captures
  <2>4. \A e \in Decode(r, Scope) : e \in events
    BY <2>1, <2>2, StartupReachesSynthesis
  <2>5. CASE r.g = "open"
    <3> DEFINE e == Event(r, "openat", r.path, 0, modeFromOpenFlags(r.acc), r.dir, r.trunc)
    <3>1. r.path.abs
      BY <2>1, <2>5 DEF Representable
    <3>2. FromOpen(r, e)
      BY <2>1, <2>5, <3>1 DEF FromOpen, NoPath
    <3> HIDE DEF e
    <3>3. e \in events
      BY <2>3, <2>4, <3>2, DecodeIs
    <3>4. /\ e.path = r.path /\ e.syscall = "openat" /\ e.truncate = r.trunc
          /\ e.mode \in {"read", "write", "read_write"}
          /\ e.mode = "write" <=> r.acc = 1
          /\ e.mode = "read_write" <=> r.acc = 2
      BY <3>2, OpenFields
    <3>5. e \in FilesystemEvents(events)
      BY <3>1, <3>3, <3>4 DEF FilesystemEvents
    <3>6. /\ r.acc # 1 => GrantedOn(r.path.seg, Categories)
          /\ (r.acc \in {1, 2} \/ r.trunc) => GrantedOn(r.path.seg, {"readWrite", "readWriteExec"})
      BY <2>1, <2>2, <2>3, <3>4, <3>5, FilesystemGranted
    <3>7. /\ r.acc # 1 => \E d \in UNION {published.podLock[c] : c \in Categories} : IsPrefixOf(d, r.path.seg)
          /\ (r.acc \in {1, 2} \/ r.trunc) =>
                \E d \in UNION {published.podLock[c] : c \in {"readWrite", "readWriteExec"}} : IsPrefixOf(d, r.path.seg)
      BY <3>6 DEF GrantedOn
    <3> QED BY <2>5, <3>7 DEF Permits, Categories
  <2>6. CASE r.g = "exec"
    <3>1. ASSUME NEW p \in {r.path, r.file}
          PROVE  GrantedOn(p.seg, {"readExec", "readWriteExec"})
      <4> DEFINE e == Event(r, "execve", p, 0, "exec", FALSE, FALSE)
      <4>1. p.abs /\ p \in Paths
        BY <2>1, <2>3, <2>6 DEF Representable
      <4>2. FromExec(r, e)
        <5>1. p # NoPath
          BY <4>1 DEF NoPath
        <5> QED BY <2>1, <2>6, <5>1, Zenon DEF FromExec
      <4>3. e.path = p /\ e.syscall = "execve" /\ e.mode = "exec"
        BY DEF Event
      <4> HIDE DEF e
      <4>4. e \in events
        BY <2>3, <2>4, <4>2, DecodeIs
      <4>5. e \in FilesystemEvents(events)
        BY <4>1, <4>3, <4>4 DEF FilesystemEvents
      <4> QED BY <2>1, <2>2, <4>1, <4>3, <4>5, FilesystemGranted
    <3>2. \A p \in {r.path, r.file} :
            \E d \in UNION {published.podLock[c] : c \in {"readExec", "readWriteExec"}} : IsPrefixOf(d, p.seg)
      BY <3>1 DEF GrantedOn
    <3> QED BY <2>6, <3>2 DEF Permits
  <2>7. CASE r.g = "bind"
    <3> DEFINE e == Event(r, "bind", NoPath, r.port, "ingress", FALSE, FALSE)
    <3>1. r.port # 0
      BY <2>1, <2>7 DEF Representable
    <3>2. FromBind(r, e)
      BY <2>1, <2>7, <3>1 DEF FromBind
    <3> HIDE DEF e
    <3>3. e \in events /\ e.mode = "ingress" /\ e.syscall = "bind" /\ e.port = r.port
      BY <2>3, <2>4, <3>2, DecodeIs, OtherFields
    <3>4. r.port < ephemeralPortStart => r.port \in published.network.ingress
      BY <2>1, <2>2, <3>1, <3>3, NetworkIs
    <3>5. r.port < ephemeralPortStart \/ r.port >= ephemeralPortStart
      BY <2>3 DEF Records, ephemeralPortStart
    <3> QED BY <2>7, <3>4, <3>5 DEF Permits
  <2>8. CASE r.g = "connect"
    <3> DEFINE e == Event(r, "connect", NoPath, r.port, "egress", FALSE, FALSE)
    <3>1. r.port # 0
      BY <2>1, <2>8 DEF Representable
    <3>2. FromConnect(r, e)
      BY <2>1, <2>8, <3>1 DEF FromConnect
    <3> HIDE DEF e
    <3>3. e \in events /\ e.mode = "egress" /\ e.syscall = "connect" /\ e.port = r.port
      BY <2>3, <2>4, <3>2, DecodeIs, OtherFields
    <3>4. r.port \in published.network.egress
      BY <2>1, <2>2, <3>1, <3>3, NetworkIs
    <3> QED BY <2>8, <3>4 DEF Permits
  <2>9. CASE r.g = "capabilities"
    <3> DEFINE e == Event(r, r.name, NoPath, 0, "capability", FALSE, FALSE)
    <3>1. r.name # "" /\ r.comm = Binary
      BY <2>1, <2>9 DEF Representable, Own
    <3>2. FromCapability(r, e)
      BY <2>9, <3>1 DEF FromCapability
    <3> HIDE DEF e
    <3>3. e \in events /\ e.mode = "capability" /\ e.syscall = r.name
      BY <2>3, <2>4, <3>2, DecodeIs, OtherFields
    <3>4. r.name \in published.manifest.add
      BY <2>1, <2>2, <3>3, NetworkIs
    <3> QED BY <2>9, <3>4 DEF Permits
  <2> QED BY <2>3, <2>5, <2>6, <2>7, <2>8, <2>9 DEF Records
<1> QED
  BY <1>1, RunInvariant, PTL

==============================================================================
