----------------------------- MODULE TrainingRun -----------------------------
(* One run of `landlock-genprof trace` (cmd/landlock-genprof/trace.go):     *)
(* resolve the pod, start six gadgets (internal/tracer), with --restart     *)
(* wait until they listen and restart the target (internal/k8s), synthesise *)
(* a profile from what they captured, fold it into the history, resolve     *)
(* where seccomp authority comes from, write the files and publish the      *)
(* proposal.                                                                *)
(*                                                                          *)
(* Around it move: the workload, whose processes do things a gadget sees    *)
(* or misses; the controllers that replace pods; SPO, which finishes and    *)
(* deletes recordings; and faults (a failed request, a failing gadget, an   *)
(* interrupted command), at most MaxFaults of them.                         *)
EXTENDS Capture, SPOImport

CONSTANTS Options,     \* flag combinations, owners, SPO objects, and the gadget records of
                       \* what the pod's processes do at any time (steady)
          Startup,     \* gadget records of what a process does when it starts
          Syscalls,    \* syscalls the container makes (advise_seccomp)
          Merged,      \* syscalls of the source profile once SPO merged it
          MaxFaults

(* The gadgets report records, SPO's objects have their schema's shape, and *)
(* a source profile that is not a fragment holds the merged syscalls.       *)
ASSUME TrainingAssumption ==
    /\ MaxFaults \in Nat /\ Startup \subseteq Records /\ Merged \subseteq STRING
    /\ \A o \in Options : /\ o.restart \in BOOLEAN /\ o.steady \subseteq Records
                          /\ o.recording \in Recordings /\ o.profile \in SourceProfiles
                          /\ o.source = "spo" => o.profile.partial \/ o.profile.names = Merged

VARIABLES opt,         \* traceOptions, and what the cluster holds: owner, recording, profile, steady
          pc,          \* where runTrace is
          gadget,      \* state of each gadget's goroutine
          ready,       \* the channel onReady closes
          window,      \* tracer.Trace's Duration
          result,      \* resultCh
          pods,        \* the pod that was resolved and its replacement
          rollout,     \* the owner replaces its pods: "no", "ours" (--restart) or "theirs"
          performed,   \* what processes did before the window closed
          captured,    \* tracer.Trace's events
          behavior, events,   \* what the rest of runTrace works on
          hist,        \* the TrainingHistory: runs, and syscalls it describes
          recording, profile, recRead,   \* SPO's objects; the recording as read
          seccompSrc, imported,          \* resolveSeccompSource; SPO's profile when it was read
          files, doc,  \* files written, and the content of the evidence file
          published, faults

tracer == <<gadget, ready, window, result, captured>>
cluster == <<pods, rollout, performed, recording, profile>>
pipeline == <<behavior, events, hist, recRead, seccompSrc, imported, files, doc, published>>
vars == <<opt, pc, faults, tracer, cluster, pipeline>>

Gadgets == {"open", "exec", "connect", "bind", "seccomp", "capabilities"}
Pods == {"resolved", "replacement"}

NoResult == [sent |-> FALSE, err |-> FALSE, events |-> {}, archs |-> {}]
NoSource == [kind |-> "none", profile |-> SeccompProfile({}, {}), has |-> FALSE,
             provenance |-> InternalSeccompProvenance]
NoProposal == [name |-> "none"]

(***************************************************************************)
(* internal/k8s                                                            *)
(***************************************************************************)

KeepsStableName(owner) == owner \in {"none", "StatefulSet"}

(* Only the owners Restart knows; a Job's pod is refused.                   *)
DetectOwner(owner) == owner \in {"none", "Deployment", "StatefulSet", "DaemonSet"}

(* The pod runs and its owner is one DetectOwner knows; a Job's pod cannot   *)
(* be traced at all.                                                        *)
Resolve == pods.resolved = "running" /\ DetectOwner(opt.owner)

(* What the proposal is about: the workload, whatever pod was named.        *)
governedTargetFor(owner) ==
    [kind |-> IF owner = "none" THEN "Pod" ELSE owner, name |-> IF owner = "none" THEN "pod" ELSE "workload"]

(* With --restart a Deployment's or DaemonSet's run takes the workload's    *)
(* name: the pod that was resolved is about to disappear.                   *)
UsesSelector == opt.restart /\ ~KeepsStableName(opt.owner)
TraceTarget == IF UsesSelector THEN "workload" ELSE "pod"

(* Mutant: the filter always names the pod that was resolved.               *)
MatchesByPodName(p) == p = "resolved" \/ KeepsStableName(opt.owner)

(* The gadgets filter by selector or by pod name, never by both.            *)
Matches(p) == UsesSelector \/ p = "resolved" \/ KeepsStableName(opt.owner)

(* A pod called like the one that was resolved exists.                      *)
NamedPodExists ==
    pods.resolved # "gone" \/ (pods.replacement = "running" /\ KeepsStableName(opt.owner))

(***************************************************************************)
(* The command's own steps                                                 *)
(***************************************************************************)

(* Flags that name SPO material with an internal source, or leave it        *)
(* unnamed with an SPO source, are refused before anything is contacted.    *)
validateSeccompSourceFlags(o) ==
    CASE o.source = "internal" -> o.src.recording = "" /\ o.src.profile = ""
      [] o.source = "spo" -> /\ o.src.recording # "" /\ o.src.profile # ""
                             /\ "seccomp" \notin o.outs
                             /\ (o.src.mode = "merged-provenance") = (o.src.recordingNamespace # "")
      [] OTHER -> FALSE

Running == pc \notin {"done", "failed"}

Fail == pc' = "failed"

Start ==
    /\ pc = "start"
    /\ pc' = IF validateSeccompSourceFlags(opt) /\ Resolve
             THEN IF opt.restart THEN "detect" ELSE "await" ELSE "failed"
    /\ gadget' = [g \in Gadgets |-> IF pc' = "await" THEN "starting" ELSE gadget[g]]
    /\ UNCHANGED <<opt, faults, ready, window, result, captured, cluster, pipeline>>

(* traceWithRestart decides what to target before it starts the tracer.     *)
PreTarget ==
    /\ pc = "detect"
    /\ IF pods.resolved # "gone" /\ DetectOwner(opt.owner)
       THEN pc' = "select" /\ gadget' = [g \in Gadgets |-> "starting"]
       ELSE Fail /\ UNCHANGED gadget
    /\ UNCHANGED <<opt, faults, ready, window, result, captured, cluster, pipeline>>

(* Mutant: only readiness is awaited.                                       *)
SelectReady ==
    /\ pc = "select" /\ ready
    /\ pc' = "restart"
    /\ UNCHANGED <<opt, faults, tracer, cluster, pipeline>>

(* The select: whichever of ready and the tracer's result comes first.      *)
Select ==
    /\ pc = "select"
    /\ \/ ready /\ pc' = "restart"
       \/ result.sent /\ pc' = IF result.err THEN "failed" ELSE "process"
    /\ events' = IF pc' = "process" THEN result.events ELSE events
    /\ UNCHANGED <<opt, faults, tracer, cluster, behavior, hist, recRead, seccompSrc, imported, files, doc, published>>

(* A bare pod is deleted, awaited and created again; every other owner gets *)
(* the rollout annotation.                                                  *)
restartBarePod == pc' = "waitGone" /\ pods' = [pods EXCEPT !.resolved = "terminating"] /\ UNCHANGED rollout
rolloutRestart == pc' = "await" /\ rollout' = (IF rollout = "no" THEN "ours" ELSE rollout) /\ UNCHANGED pods

Restart ==
    /\ pc = "restart"
    /\ \/ ~NamedPodExists /\ Fail /\ UNCHANGED <<pods, rollout>>
       \/ NamedPodExists /\ opt.owner = "none" /\ restartBarePod
       \/ NamedPodExists /\ opt.owner # "none" /\ rolloutRestart
    /\ UNCHANGED <<opt, faults, tracer, performed, recording, profile, pipeline>>

waitForPodGone ==
    /\ pc = "waitGone"
    /\ pc' = IF pods.resolved = "gone" THEN "create" ELSE "failed"   \* the deletion budget ran out
    /\ UNCHANGED <<opt, faults, tracer, cluster, pipeline>>

Recreate ==
    /\ pc = "create"
    /\ pc' = "await"
    /\ pods' = [pods EXCEPT !.replacement = "running"]
    /\ UNCHANGED <<opt, faults, tracer, rollout, performed, recording, profile, pipeline>>

TakeResult ==
    /\ pc = "await" /\ result.sent
    /\ pc' = IF result.err THEN "failed" ELSE "process"
    /\ events' = IF result.err THEN events ELSE result.events
    /\ UNCHANGED <<opt, faults, tracer, cluster, behavior, hist, recRead, seccompSrc, imported, files, doc, published>>

(* In SPO mode our own syscalls are dropped before anything sees them. One  *)
(* event without a usable timestamp fails the run.                          *)
processTraceEvents ==
    /\ pc = "process"
    /\ LET kept == IF opt.source = "spo" THEN dropSyscallObservations(events) ELSE events IN
       /\ events' = kept
       /\ pc' = IF InvalidTimestamp(kept) THEN "failed" ELSE IF opt.history THEN "history" ELSE "import"
       /\ behavior' = IF InvalidTimestamp(kept) THEN NoBehavior ELSE Synthesize(kept, result.archs)
    /\ UNCHANGED <<opt, faults, tracer, cluster, hist, recRead, seccompSrc, imported, files, doc, published>>

(* TrainingHistory models the merge; here it counts the run.                *)
recordHistory ==
    /\ pc = "history"
    /\ hist' = [runs |-> hist.runs + 1, syscalls |-> hist.syscalls \cup behavior.syscalls]
    /\ pc' = "import"
    /\ UNCHANGED <<opt, faults, tracer, cluster, behavior, events, recRead, seccompSrc, imported, files, doc, published>>

(* resolveSeccompSource. SPO's two objects are read by two requests, and    *)
(* there is no fallback to internal synthesis.                              *)
resolveInternal ==
    /\ pc = "import" /\ opt.source = "internal"
    /\ seccompSrc' = [kind |-> "internal", has |-> behavior.syscalls # {},
                      profile |-> SeccompProfile(behavior.syscalls, behavior.archs),
                      provenance |-> InternalSeccompProvenance]
    /\ pc' = "write"
    /\ UNCHANGED <<opt, faults, tracer, cluster, behavior, events, hist, recRead, imported, files, doc, published>>

ImportReadsRecording ==
    /\ pc = "import" /\ opt.source = "spo"
    /\ recRead' = recording
    /\ pc' = IF recording.present \/ opt.src.mode = "merged-provenance" THEN "import2" ELSE "failed"
    /\ UNCHANGED <<opt, faults, tracer, cluster, behavior, events, hist, seccompSrc, imported, files, doc, published>>

ImportReadsProfile ==
    /\ pc = "import2"
    /\ imported' = profile
    /\ IF Snapshot(recRead, profile, opt.src)
       THEN /\ seccompSrc' = [kind |-> "spo", has |-> TRUE,
                              profile |-> [default |-> "SCMP_ACT_ERRNO", archs |-> {}, allow |-> profile.names],
                              provenance |-> SPOSeccompProvenance(opt.src)]
            /\ pc' = "write"
       ELSE Fail /\ UNCHANGED seccompSrc
    /\ UNCHANGED <<opt, faults, tracer, cluster, behavior, events, hist, recRead, files, doc, published>>

(* The path of the governed profile: its name comes from the target of the  *)
(* run, never from the object SPO generated.                                *)
GovernedProfileName == <<TargetNamespace, TraceTarget, TargetContainer>>

LocalhostProfile == IF seccompSrc.has THEN GovernedProfileName ELSE <<>>

Artifacts == <<"profile", "candidate", "events", "network", "seccomp", "seccompProfile",
               "capabilities", "securityContext", "report", "patchedManifest">>

(* Each optional artifact is skipped when its domain is empty.              *)
writeNetworkPolicy == behavior.network # {}
writeSeccompProfile == behavior.syscalls # {}
writeSeccompProfileCR == seccompSrc.has
writeCapabilitiesProfile == behavior.capabilities # {}
writeSecurityContext == behavior.capabilities # {} \/ LocalhostProfile # <<>>
writePatchedManifest == behavior.capabilities # {} \/ LocalhostProfile # <<>>

Writes(a) ==
    /\ a \in opt.outs \cup {"profile"}
    /\ CASE a = "network" -> writeNetworkPolicy
         [] a = "seccomp" -> writeSeccompProfile
         [] a = "seccompProfile" -> writeSeccompProfileCR
         [] a = "capabilities" -> writeCapabilitiesProfile
         [] a = "securityContext" -> writeSecurityContext
         [] a = "patchedManifest" -> writePatchedManifest
         [] OTHER -> TRUE

(* writePatchedManifest and publishProposal read the live object: the owner *)
(* by name after a restart that replaced the pod, else the pod itself.      *)
PatchedManifest == UsesSelector \/ (NamedPodExists /\ DetectOwner(opt.owner))

(* The files are written in order; the run stops at the first one that      *)
(* cannot be written.                                                       *)
WriteUpTo(n) == {Artifacts[i] : i \in {j \in 1..n : Writes(Artifacts[j])}}

WriteFiles ==
    /\ pc = "write"
    /\ LET stuck == Writes("patchedManifest") /\ ~PatchedManifest
           n == IF stuck THEN Len(Artifacts) - 1 ELSE Len(Artifacts)
       IN  /\ files' = WriteUpTo(n)
           /\ pc' = IF stuck THEN "failed" ELSE "publish"
    /\ doc' = IF "events" \in files' THEN EncodeEvents(events, result.archs) ELSE doc
    /\ UNCHANGED <<opt, faults, tracer, cluster, behavior, events, hist, recRead, seccompSrc, imported, published>>

(* Mandatory: a run that cannot publish fails. Every artifact is rendered   *)
(* again from the same profile; the manifest is composed even when only the *)
(* PodLock label is added.                                                  *)
publishProposal ==
    /\ pc = "publish"
    /\ IF PatchedManifest
       THEN /\ published' = [name |-> TraceTarget, podLock |-> PodLockProfile(behavior.filesystem),
                             network |-> NetworkPolicy(behavior.network),
                             manifest |-> ToSecurityContext(behavior.capabilities, LocalhostProfile),
                             label |-> TraceTarget, binding |-> governedTargetFor(opt.owner),
                             spo |-> [name |-> IF seccompSrc.has THEN GovernedProfileName ELSE <<>>,
                                      profile |-> seccompSrc.profile, provenance |-> seccompSrc.provenance]]
            /\ pc' = "done"
       ELSE Fail /\ UNCHANGED published
    /\ UNCHANGED <<opt, faults, tracer, cluster, behavior, events, hist, recRead, seccompSrc, imported, files, doc>>

(* Any request of the command fails, a file cannot be written, or the       *)
(* command is interrupted: whatever was done stays done.                    *)
Stopped ==
    /\ Running /\ faults > 0
    /\ faults' = faults - 1
    /\ Fail
    /\ \E n \in 0..Len(Artifacts) : files' = IF pc = "write" THEN WriteUpTo(n) ELSE files
    /\ UNCHANGED <<opt, tracer, cluster, behavior, events, hist, recRead, seccompSrc, imported, doc, published>>

Command == Start \/ PreTarget \/ Select \/ Restart \/ waitForPodGone \/ Recreate \/ TakeResult
           \/ processTraceEvents \/ recordHistory \/ resolveInternal \/ ImportReadsRecording
           \/ ImportReadsProfile \/ WriteFiles \/ publishProposal

(***************************************************************************)
(* tracer.Trace: six gadgets under one deadline                            *)
(***************************************************************************)

(* OnInit signals readiness when it returns, whether it subscribed or       *)
(* failed; a gadget that fails before OnInit never signals.                 *)
Signalled(g) == gadget[g] \in {"attached", "initfailed", "broken"}
Broken == {g \in Gadgets : gadget[g] \in {"failed", "initfailed", "broken"}}

GadgetAttaches(g) ==
    /\ Running /\ gadget[g] = "starting" /\ window = "open" /\ Broken = {}
    /\ gadget' = [gadget EXCEPT ![g] = "attached"]
    /\ UNCHANGED <<opt, pc, faults, ready, window, result, captured, cluster, pipeline>>

GadgetFails(g) ==
    /\ Running /\ faults > 0 /\ gadget[g] \in {"starting", "attached"} /\ ~result.sent
    /\ \E s \in IF gadget[g] = "attached" THEN {"broken"} ELSE {"failed", "initfailed"} :
          gadget' = [gadget EXCEPT ![g] = s]
    /\ faults' = faults - 1
    /\ UNCHANGED <<opt, pc, ready, window, result, captured, cluster, pipeline>>

(* Mutant: the first signal closes the channel.                             *)
OnReadyFirst ==
    /\ Running /\ opt.restart /\ ~ready
    /\ \E g \in Gadgets : Signalled(g)
    /\ ready' = TRUE
    /\ UNCHANGED <<opt, pc, faults, gadget, window, result, captured, cluster, pipeline>>

(* The goroutine that waits for the six signals and closes the channel.     *)
OnReady ==
    /\ Running /\ opt.restart /\ ~ready
    /\ \A g \in Gadgets : Signalled(g)
    /\ ready' = TRUE
    /\ UNCHANGED <<opt, pc, faults, gadget, window, result, captured, cluster, pipeline>>

DurationEnds ==
    /\ Running /\ window = "open" /\ pc \notin {"start", "detect"}
    /\ window' = "closed"
    /\ UNCHANGED <<opt, pc, faults, gadget, ready, result, captured, cluster, pipeline>>

(* Mutant: the events of the gadgets that worked are returned.              *)
TraceReturnsPartial ==
    /\ Running /\ ~result.sent /\ pc \notin {"start", "detect"}
    /\ window = "closed" \/ Broken # {}
    /\ result' = [sent |-> TRUE, err |-> Broken = Gadgets, events |-> captured, archs |-> {}]
    /\ UNCHANGED <<opt, pc, faults, gadget, ready, window, captured, cluster, pipeline>>

(* g.Wait: the first error cancels the others and drops every event. What   *)
(* a gadget still attaching returns when its context ends is the gadget     *)
(* runtime's business: an error or not. advise_seccomp flushes as it stops. *)
TraceReturns ==
    /\ Running /\ ~result.sent /\ pc \notin {"start", "detect"}
    /\ window = "closed" \/ Broken # {}
    /\ \E err \in BOOLEAN :
          LET flush == IF gadget["seccomp"] = "attached" THEN SeccompEvents(Syscalls) ELSE {}
          IN  /\ Broken # {} => err
              /\ err => Broken # {} \/ \E g \in Gadgets : gadget[g] = "starting"
              /\ result' = [sent |-> TRUE, err |-> err,
                            events |-> IF err THEN {} ELSE captured \cup flush,
                            archs |-> IF err \/ flush = {} THEN {} ELSE {"SCMP_ARCH_X86_64"}]
    /\ UNCHANGED <<opt, pc, faults, gadget, ready, window, captured, cluster, pipeline>>

(***************************************************************************)
(* The workload, its controllers and SPO (external)                        *)
(***************************************************************************)

(* A process does something while the window is open: what a starting       *)
(* process does happens whether or not a gadget listens; of everything else *)
(* only what a gadget reports matters. The gadget's handler runs when it is *)
(* attached and its filter matches the pod.                                 *)
Perform(p, r) ==
    /\ Running /\ window = "open" /\ r \notin performed
    /\ IF r \in Startup THEN p = "replacement" /\ pods[p] = "running"
       ELSE p = "resolved" /\ pods[p] # "gone" /\ gadget[r.g] = "attached"
    /\ performed' = performed \cup {r}
    /\ captured' = IF gadget[r.g] = "attached" /\ Matches(p)
                   THEN captured \cup Decode(r, "BinaryCommFiltered") ELSE captured
    /\ UNCHANGED <<opt, pc, faults, gadget, ready, window, result, pods, rollout, recording, profile, pipeline>>

PodTerminates ==
    /\ Running
    /\ \/ pods.resolved = "terminating"
       \/ rollout # "no" /\ pods.resolved = "running" /\ (opt.owner = "Deployment" => pods.replacement = "running")
    /\ pods' = [pods EXCEPT !.resolved = "gone"]
    /\ UNCHANGED <<opt, pc, faults, tracer, rollout, performed, recording, profile, pipeline>>

ControllerReplaces ==
    /\ Running /\ rollout # "no" /\ pods.replacement = "none"
    /\ opt.owner = "Deployment" \/ pods.resolved = "gone"
    /\ pods' = [pods EXCEPT !.replacement = "running"]
    /\ UNCHANGED <<opt, pc, faults, tracer, rollout, performed, recording, profile, pipeline>>

(* The pod is evicted, or its owner rolled out, by somebody else.           *)
Evicted ==
    /\ Running /\ faults > 0 /\ opt.owner # "none" /\ rollout = "no"
    /\ faults' = faults - 1
    /\ rollout' = "theirs"
    /\ UNCHANGED <<opt, pc, tracer, pods, performed, recording, profile, pipeline>>

(* SPO finishes the merge, and the recording is deleted. The command reads  *)
(* nothing of SPO before the capture is over, so earlier moves are the same *)
(* as these.                                                                *)
SPOMerges ==
    /\ Running /\ result.sent /\ opt.source = "spo" /\ profile.partial
    /\ profile' = [profile EXCEPT !.partial = FALSE, !.names = Merged,
                                  !.labels.container = IF recording.mergeStrategy = "Containers" THEN ""
                                                       ELSE profile.labels.container]
    /\ recording' = [recording EXCEPT !.unmerged = FALSE]
    /\ UNCHANGED <<opt, pc, faults, tracer, pods, rollout, performed, pipeline>>

RecordingDeleted ==
    /\ Running /\ result.sent /\ opt.source = "spo" /\ recording.present /\ ~recording.unmerged
    /\ recording' = NoRecording
    /\ UNCHANGED <<opt, pc, faults, tracer, pods, rollout, performed, profile, pipeline>>

(* Somebody enables the source profile: SPO starts to enforce it.           *)
SourceEnabled ==
    /\ Running /\ result.sent /\ opt.source = "spo" /\ profile.state = "Disabled" /\ faults > 0
    /\ profile' = [profile EXCEPT !.state = "Enabled"]
    /\ faults' = faults - 1
    /\ UNCHANGED <<opt, pc, tracer, pods, rollout, performed, recording, pipeline>>

Init ==
    /\ opt \in Options
    /\ pc = "start" /\ faults = MaxFaults
    /\ gadget = [g \in Gadgets |-> "none"] /\ ready = FALSE /\ window = "open"
    /\ result = NoResult /\ captured = {}
    /\ pods = [resolved |-> "running", replacement |-> "none"] /\ rollout = "no" /\ performed = {}
    /\ recording = opt.recording /\ profile = opt.profile
    /\ behavior = NoBehavior /\ events = {} /\ hist = [runs |-> 0, syscalls |-> {}]
    /\ recRead = NoRecording /\ seccompSrc = NoSource /\ imported = NoSourceProfile
    /\ files = {} /\ doc = NoDocument /\ published = NoProposal

Next ==
    \/ Command \/ Stopped
    \/ OnReady \/ DurationEnds \/ TraceReturns
    \/ \E g \in Gadgets : GadgetAttaches(g) \/ GadgetFails(g)
    \/ \E p \in Pods, r \in Startup \cup opt.steady : Perform(p, r)
    \/ PodTerminates \/ ControllerReplaces \/ Evicted
    \/ SPOMerges \/ RecordingDeleted \/ SourceEnabled

(* The command's goroutines run, and the Duration timer fires.              *)
Fairness == WF_vars(Command) /\ WF_vars(OnReady) /\ WF_vars(DurationEnds) /\ WF_vars(TraceReturns)

Spec == Init /\ [][Next]_vars /\ Fairness

(***************************************************************************)
(* Properties                                                              *)
(***************************************************************************)

TypeOK ==
    /\ opt \in Options /\ faults \in 0..MaxFaults
    /\ pc \in {"start", "detect", "select", "restart", "waitGone", "create", "await", "process",
               "history", "import", "import2", "write", "publish", "done", "failed"}
    /\ gadget \in [Gadgets -> {"none", "starting", "attached", "failed", "initfailed", "broken"}]
    /\ ready \in BOOLEAN /\ window \in {"open", "closed"} /\ rollout \in {"no", "ours", "theirs"}
    /\ pods \in [Pods -> {"none", "running", "terminating", "gone"}]
    /\ files \subseteq {Artifacts[i] : i \in 1..Len(Artifacts)}
    /\ hist.runs \in 0..1
    /\ recording \in Recordings

Published == published.name # "none"

(* What a published profile lets a process do.                              *)
Permits(r) ==
    LET granted(cs) == UNION {published.podLock[c] : c \in cs}
        Under(path, dirs) == \E d \in dirs : IsPrefixOf(d, path.seg)
        read == granted({"readOnly", "readExec", "readWrite", "readWriteExec"})
        write == granted({"readWrite", "readWriteExec"})
    IN  CASE r.g = "open" -> /\ (r.acc # 1) => Under(r.path, read)
                             /\ (r.acc \in {1, 2} \/ r.trunc) => Under(r.path, write)
          [] r.g = "exec" -> \A p \in {r.path, r.file} : Under(p, granted({"readExec", "readWriteExec"}))
          [] r.g = "bind" -> r.port >= ephemeralPortStart \/ r.port \in published.network.ingress
          [] r.g = "connect" -> r.port \in published.network.egress
          [] r.g = "capabilities" -> r.name \in published.manifest.add

Own(r) == r.errno = 0 /\ r.comm = Binary

(* What the handlers and the synthesis keep: an absolute path (both, for an *)
(* exec), a port, a capability's name.                                      *)
Representable(r) ==
    CASE r.g = "open" -> r.path.abs
      [] r.g = "exec" -> r.path.abs /\ r.file.abs
      [] r.g \in {"connect", "bind"} -> r.port # 0
      [] r.g = "capabilities" -> r.name # ""

(* A run with --restart exists to see the startup: whatever the traced      *)
(* binary of the pod this run restarted did before the window closed, and   *)
(* that a profile can express, is permitted by the proposal that is         *)
(* published, because no pod is restarted before all six gadgets listen and *)
(* the filter matches the replacement.                                      *)
ReplacementStartupCovered ==
    (Published /\ opt.restart) =>
        \A r \in performed \cap Startup :
            (rollout # "theirs" /\ Own(r) /\ Representable(r)) => Permits(r)

(* Least privilege: every right the proposal grants was used, without an    *)
(* error, by the traced binary in a pod of the target; another process of   *)
(* the container or a failed call never widens it.                          *)
GrantsWereUsed ==
    Published =>
        LET used == {r \in performed : Own(r)}
            opens == {r \in used : r.g = "open"}
            In(r, d) == IsPrefixOf(d, r.path.seg)
            writable == published.podLock.readWrite \cup published.podLock.readWriteExec
            executable == published.podLock.readExec \cup published.podLock.readWriteExec
        IN  /\ \A d \in writable : \E r \in opens : In(r, d) /\ (r.acc \in {1, 2} \/ r.trunc)
            /\ \A d \in executable : \E r \in used : r.g = "exec" /\ (In(r, d) \/ IsPrefixOf(d, r.file.seg))
            /\ \A d \in published.podLock.readOnly : \E r \in opens : In(r, d)
            /\ \A n \in published.network.ingress : \E r \in used : r.g = "bind" /\ r.port = n
            /\ \A n \in published.network.egress : \E r \in used : r.g = "connect" /\ r.port = n
            /\ \A n \in published.manifest.add : \E r \in performed : r.name = n /\ r.comm = Binary

(* What the command leaves behind fits what it reports.  A capture one      *)
(* gadget of which reported an error is never turned into a proposal, a     *)
(* file or a run of the history: the others' events are dropped with it.  A *)
(* command that reports success leaves a pod of the target's name in the    *)
(* cluster: a bare pod that was deleted and could not be created again is   *)
(* always reported as a failure.                                            *)
FailureLeavesNothing ==
    /\ TypeOK
    /\ Broken # {} => ~Published /\ files = {} /\ hist.runs = 0
    /\ (pc = "done" /\ opt.owner = "none") => pods.resolved = "running" \/ pods.replacement = "running"

(* With an SPO source no syscall this tool observed reaches the history,    *)
(* the evidence file or the proposal, and what the proposal carries is the  *)
(* completed, inert profile of this target, although SPO's two objects are  *)
(* read in two requests while SPO merges and deletes.  With either source   *)
(* the manifest references exactly the seccomp profile that is published    *)
(* with it, and none when this tool observed no syscall (an imported        *)
(* profile that allows nothing is still a profile).                         *)
ImportedAuthorityOnly ==
    /\ opt.source = "spo" =>
        /\ hist.syscalls = {}
        /\ \A e \in doc.events : e.mode # "syscall"
        /\ Published => /\ published.spo.profile.allow = Merged
                        /\ published.spo.provenance.source = "spo"
                        /\ imported.state = "Disabled"
    /\ Published => /\ published.manifest.localhostProfile = published.spo.name
                    /\ (published.spo.name = <<>>) =
                          (opt.source = "internal" /\ published.spo.profile.allow = {})

(* The evidence file is enough to repeat the run: it decodes, it gives the  *)
(* same groups of evidence, and synthesis from it gives the profile the     *)
(* proposal was rendered from.                                              *)
EvidenceReplays ==
    (Published /\ "events" \in files) =>
        /\ Decodes(doc)
        /\ EvidenceGroups(DecodeEvents(doc)) = EvidenceGroups(events)
        /\ PodLockProfile(Synthesize(DecodeEvents(doc), doc.architectures).filesystem) = published.podLock
        /\ Synthesize(DecodeEvents(doc), doc.architectures) = behavior

(* The command ends: a gadget that never signals readiness cannot make      *)
(* traceWithRestart wait for ever, since its error arrives on the other     *)
(* channel.                                                                 *)
CommandEnds == <>(pc \in {"done", "failed"})
=============================================================================
