------------------------------- MODULE Capture -------------------------------
(* What a training run does to data, without the steps that move it: the    *)
(* gadget handlers of internal/tracer turn what the kernel reports into     *)
(* events, ToObservation classifies them, internal/policy and               *)
(* internal/landlock synthesise a profile, and the exporters render it.     *)
(*                                                                          *)
(* The slice of events is a set of occurrences (two events of one call      *)
(* differ in their id): its order reaches nothing but the numbering of the  *)
(* provenance sources in the evidence file. Confidence tiers are left out:  *)
(* they annotate the artifacts and decide nothing (TrainingHistory models   *)
(* the tiers that a recorded history assigns).                              *)
EXTENDS Integers, Sequences, FiniteSets

CONSTANT Binary      \* comm of opts.binary's base name, cut to 15 bytes

(* --binary is required, and the base name of a path is never empty.        *)
ASSUME BinaryAssumption == Binary # ""

(* A path is its segments and whether it starts with a slash.               *)
Paths == [abs : BOOLEAN, seg : Seq(STRING)]
NoPath == [abs |-> FALSE, seg |-> <<>>]
At(seg) == [abs |-> TRUE, seg |-> seg]
IsPrefixOf(s, t) == Len(s) <= Len(t) /\ SubSeq(t, 1, Len(s)) = s

(***************************************************************************)
(* internal/tracer: from gadget data to events                             *)
(***************************************************************************)

(* One gadget record: the fields its data source carries. acc is the low    *)
(* two bits of flags_raw, ts says whether timestamp_raw converts.           *)
Records == [g : {"open", "exec", "connect", "bind", "capabilities"}, errno : Nat, comm : STRING,
            path : Paths, file : Paths, acc : 0..3, dir : BOOLEAN, trunc : BOOLEAN,
            port : Nat, name : STRING, ts : {"ok", "bad"}]
Raw(g, comm, path, acc, trunc, port, name) ==
    [g |-> g, errno |-> 0, comm |-> comm, path |-> path, file |-> path, acc |-> acc,
     dir |-> FALSE, trunc |-> trunc, port |-> port, name |-> name, ts |-> "ok"]

expectedCommFor(scope) == IF scope = "ContainerScoped" THEN "" ELSE Binary

(* Mutant: every process of the container is recorded.                      *)
commAdmitsAll(scope, expected, actual) == TRUE

commAdmits(scope, expected, actual) ==
    scope = "ContainerScoped" \/ expected = "" \/ actual = expected

modeFromOpenFlags(acc) == CASE acc = 1 -> "write" [] acc = 2 -> "read_write" [] OTHER -> "read"

(* An accessor error, a value over 2^63-1 or a bad clock leave the zero     *)
(* time and a diagnostic, never a wrapped timestamp.                        *)
timestampFromRaw(r) == IF r.ts = "ok" THEN "set" ELSE "zero"

Event(r, syscall, path, port, mode, isDir, truncate) ==
    [id |-> <<r, 1>>, syscall |-> syscall, path |-> path, port |-> port, mode |-> mode,
     isDir |-> isDir, truncate |-> truncate, timestamp |-> timestampFromRaw(r), prov |-> r.g]

Admitted(r, scope) == r.errno = 0 /\ commAdmits(scope, expectedCommFor(scope), r.comm)

OpenEvents(r, scope) ==
    IF Admitted(r, scope) /\ r.path # NoPath
    THEN {Event(r, "openat", r.path, 0, modeFromOpenFlags(r.acc), r.dir, r.trunc)}
    ELSE {}

(* trace_exec reports the image that runs and, for a script, the file that  *)
(* was named: both need the execute right.                                  *)
ExecEvents(r, scope) ==
    {Event(r, "execve", p, 0, "exec", FALSE, FALSE) :
        p \in {q \in {r.path, r.file} : Admitted(r, scope) /\ q # NoPath}}

ConnectEvents(r, scope) ==
    {Event(r, "connect", NoPath, p, "egress", FALSE, FALSE) :
        p \in {q \in {r.port} : Admitted(r, scope) /\ q # 0}}

BindEvents(r, scope) ==
    {Event(r, "bind", NoPath, p, "ingress", FALSE, FALSE) :
        p \in {q \in {r.port} : Admitted(r, scope) /\ q # 0}}

(* trace_capabilities has no error field: a denied check counts.            *)
CapabilityEvents(r, scope) ==
    {Event(r, n, NoPath, 0, "capability", FALSE, FALSE) :
        n \in {q \in {r.name} : commAdmits(scope, expectedCommFor(scope), r.comm) /\ q # ""}}

(* advise_seccomp reports once, when it is stopped, every syscall of the    *)
(* container, whichever process made it; its events carry no timestamp.     *)
SeccompEvents(names) ==
    {[id |-> <<n>>, syscall |-> n, path |-> NoPath, port |-> 0, mode |-> "syscall",
      isDir |-> FALSE, truncate |-> FALSE, timestamp |-> "zero", prov |-> "seccomp"] : n \in names}

Decode(r, scope) ==
    CASE r.g = "open"         -> OpenEvents(r, scope)
      [] r.g = "exec"         -> ExecEvents(r, scope)
      [] r.g = "connect"      -> ConnectEvents(r, scope)
      [] r.g = "bind"         -> BindEvents(r, scope)
      [] r.g = "capabilities" -> CapabilityEvents(r, scope)

(* The canonical classifier. The mode is looked at before the syscall's     *)
(* name: advise_seccomp reports a syscall called "bind" too.                *)
ToObservation(e) ==
    IF e.path.abs /\ e.mode \in {"read", "write", "read_write", "exec"} THEN "filesystem"
    ELSE IF e.mode \in {"capability", "syscall"} THEN e.mode
    ELSE IF e.syscall \in {"connect", "bind"} \/ e.mode \in {"egress", "ingress"} THEN "network"
    ELSE "other"

(* Mutant: what the gadget saw is kept in SPO mode.                         *)
dropNothing(events) == events

dropSyscallObservations(events) == {e \in events : ToObservation(e) # "syscall"}

(***************************************************************************)
(* internal/landlock and internal/policy: from observations to a profile   *)
(***************************************************************************)

maxAggregationDepth == 3
ephemeralPortStart == 32768

aggregationDir(path, isDir) ==
    LET dir == IF isDir \/ path.seg = <<>> THEN path.seg ELSE SubSeq(path.seg, 1, Len(path.seg) - 1)
    IN  SubSeq(dir, 1, IF Len(dir) > maxAggregationDepth THEN maxAggregationDepth ELSE Len(dir))

(* The rights of one directory, from the events aggregated under it.        *)
rightsFor(evs) ==
    {"ReadFile" : e \in {x \in evs : x.mode \in {"read", "read_write"} /\ ~x.isDir}}
    \cup {"ReadDir" : e \in {x \in evs : x.mode \in {"read", "read_write"} /\ x.isDir}}
    \cup {"WriteFile" : e \in {x \in evs : x.mode \in {"write", "read_write"}}}
    \cup {"Execute" : e \in {x \in evs : x.mode = "exec"}}
    \cup {"Truncate" : e \in {x \in evs : x.truncate}}

LandlockSynthesize(fsEvents) ==
    {[path |-> d, rights |-> rightsFor({e \in fsEvents : aggregationDir(e.path, e.isDir) = d})] :
        d \in {aggregationDir(e.path, e.isDir) : e \in fsEvents}}

(* Both syntheses skip the other domains and every relative path.           *)
FilesystemEvents(events) ==
    {e \in events : /\ e.mode \notin {"syscall", "capability"}
                    /\ e.syscall \notin {"connect", "bind"}
                    /\ e.path.abs}

SynthesizeCandidate(events) == LandlockSynthesize(FilesystemEvents(events))

collapsePermissions(rights) ==
    {"read" : r \in rights \cap {"ReadFile", "ReadDir"}}
    \cup {"write" : r \in rights \cap {"WriteFile", "Truncate"}}
    \cup {"execute" : r \in rights \cap {"Execute"}}

FileAccessesFromCandidate(rules) ==
    {[path |-> r.path, perms |-> collapsePermissions(r.rights)] : r \in rules}

(* A bind to an ephemeral port is an outgoing socket's, not a service's.    *)
Synthesize(events, architectures) ==
    LET net == {e \in events : /\ e.mode \notin {"syscall", "capability"}
                               /\ e.syscall \in {"connect", "bind"} /\ e.port # 0
                               /\ e.syscall = "bind" => e.port < ephemeralPortStart}
    IN  [filesystem   |-> FileAccessesFromCandidate(SynthesizeCandidate(events)),
         network      |-> {[port |-> e.port, dir |-> IF e.syscall = "bind" THEN "ingress" ELSE "egress"] : e \in net},
         syscalls     |-> {e.syscall : e \in {x \in events : x.mode = "syscall"}},
         archs        |-> architectures,
         capabilities |-> {e.syscall : e \in {x \in events : x.mode = "capability"}}]

NoBehavior == Synthesize({}, {})

(* processTraceEvents: one event of another kind than syscall without a     *)
(* timestamp stops the run, before the adapter would refuse it.             *)
InvalidTimestamp(events) ==
    \E e \in events : ToObservation(e) # "syscall" /\ e.timestamp = "zero"

(* BuildGraphFromObservations: one group of evidence per proposition, and   *)
(* none for an event of no kind (a relative path).                          *)
EvidenceGroups(events) ==
    LET Proposition(e) == <<ToObservation(e), e.path, e.mode, e.syscall, e.port>>
        known == {e \in events : ToObservation(e) # "other"}
    IN  {{e \in known : Proposition(e) = p} : p \in {Proposition(e) : e \in known}}

(***************************************************************************)
(* internal/exporter: the artifacts                                        *)
(***************************************************************************)

categoryFor(perms) ==
    IF "execute" \in perms THEN IF "write" \in perms THEN "readWriteExec" ELSE "readExec"
    ELSE IF "write" \in perms THEN "readWrite"
    ELSE IF "read" \in perms THEN "readOnly" ELSE "none"

PodLockProfile(fs) ==
    [c \in {"readOnly", "readExec", "readWrite", "readWriteExec"} |->
        {a.path : a \in {x \in fs : categoryFor(x.perms) = c}}]

(* An empty list of ports leaves its direction out of policyTypes, which    *)
(* would otherwise deny it all.                                             *)
NetworkPolicy(net) ==
    [ingress     |-> {a.port : a \in {x \in net : x.dir = "ingress"}},
     egress      |-> {a.port : a \in {x \in net : x.dir = "egress"}},
     policyTypes |-> {a.dir : a \in net}]

runtimeBaselineSyscalls ==
    {"capget", "capset", "chdir", "fstatfs", "futex", "setgid", "setgroups", "setuid", "statx"}

SeccompProfile(names, archs) ==
    [default |-> "SCMP_ACT_ERRNO", archs |-> archs,
     allow |-> IF names = {} THEN {} ELSE names \cup runtimeBaselineSyscalls]

(* With no capability observed the fragment has no capabilities at all,     *)
(* not an empty add list under drop ALL.                                    *)
ToSecurityContext(capabilities, localhostProfile) ==
    [dropAll |-> capabilities # {}, add |-> capabilities, localhostProfile |-> localhostProfile]

(***************************************************************************)
(* internal/evidence: the file a run can be replayed from                  *)
(***************************************************************************)

(* Mutant: the version 1 fields only.                                        *)
EncodeWithoutTruncate(events, architectures) ==
    [version |-> "v2", source |-> "landlock-genprof", recordTime |-> "set", architectures |-> architectures,
     sources |-> {e.prov : e \in events},
     events  |-> {[syscall |-> e.syscall, path |-> e.path, port |-> e.port, mode |-> e.mode,
                   isDir |-> e.isDir, truncate |-> FALSE, timestamp |-> e.timestamp,
                   provenanceId |-> e.prov, id |-> e.id] : e \in events}]

(* writeEventsJSON and Encode: a version 2 document. Provenance sources are *)
(* numbered by their first use.                                             *)
EncodeEvents(events, architectures) ==
    [version |-> "v2", source |-> "landlock-genprof", recordTime |-> "set", architectures |-> architectures,
     sources |-> {e.prov : e \in events},
     events  |-> {[syscall |-> e.syscall, path |-> e.path, port |-> e.port, mode |-> e.mode,
                   isDir |-> e.isDir, truncate |-> e.truncate, timestamp |-> e.timestamp,
                   provenanceId |-> e.prov, id |-> e.id] : e \in events}]

NoDocument == [version |-> "none", source |-> "", recordTime |-> "zero", architectures |-> {},
               sources |-> {}, events |-> {}]

(* Decode refuses an unknown version, incomplete run metadata and an event  *)
(* that names a provenance source the document does not have.               *)
Decodes(doc) ==
    \/ doc.version = "v1"
    \/ /\ doc.version = "v2" /\ doc.source # "" /\ doc.recordTime # "zero"
       /\ \A e \in doc.events : e.provenanceId # "" => e.provenanceId \in doc.sources

(* FromJSON, and reconstructSemantic for a version 2 document.              *)
DecodeEvents(doc) ==
    {[id |-> e.id, syscall |-> e.syscall, path |-> e.path, port |-> e.port, mode |-> e.mode,
      isDir |-> e.isDir, truncate |-> e.truncate, timestamp |-> e.timestamp, prov |-> e.provenanceId] :
        e \in doc.events}
=============================================================================
