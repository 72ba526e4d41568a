---------------------------- MODULE MCTrainingRun ----------------------------
(* Instances of TrainingRun for TLC: every owner with and without --restart, *)
(* both seccomp sources, and a workload that opens, executes, binds and uses *)
(* a capability, next to another process and to calls that fail.             *)
EXTENDS TrainingRun, TLC

NoSrc == [mode |-> "strong-lineage", recording |-> "", profile |-> "", recordingNamespace |-> ""]
StrongSrc == [NoSrc EXCEPT !.recording = "rec", !.profile = "sp"]
MergedSrc == [StrongSrc EXCEPT !.mode = "merged-provenance", !.recordingNamespace = "recns"]

Fields == {"defaultAction", "syscalls", "state", "names", "action"}
Recorded == [present |-> TRUE, disable |-> TRUE, mergeStrategy |-> "None", unmerged |-> FALSE]
Merging == [Recorded EXCEPT !.mergeStrategy = "Containers", !.unmerged = TRUE]
Final == [present |-> TRUE, state |-> "Disabled", partial |-> FALSE, fields |-> Fields, names |-> {"read", "write"},
          labels |-> [ns |-> "ns", id |-> "rec", container |-> "app"]]
Fragment == [Final EXCEPT !.partial = TRUE, !.names = {"read"}, !.labels.ns = "recns"]

Conf == At(<<"etc", "app", "conf.d", "x", "y">>)
MCStartup == {Raw("open", "app", Conf, 0, FALSE, 0, ""), Raw("bind", "app", NoPath, 0, FALSE, 8080, "")}

Truncates == Raw("open", "app", At(<<"data", "log">>), 0, TRUE, 0, "")
OtherProcess == Raw("open", "sh", At(<<"root", "key">>), 1, FALSE, 0, "")
Chowns == Raw("capabilities", "app", NoPath, 0, FALSE, 0, "CHOWN")
NoTimestamp == [Raw("open", "app", At(<<"tmp", "t">>), 2, FALSE, 0, "") EXCEPT !.ts = "bad"]
Connects == Raw("connect", "app", NoPath, 0, FALSE, 5432, "")
Refused == [Raw("connect", "app", NoPath, 0, FALSE, 443, "") EXCEPT !.errno = 111]
Script == [Raw("exec", "app", At(<<"usr", "bin", "py">>), 0, FALSE, 0, "") EXCEPT !.file = At(<<"data", "run">>)]

O(restart, owner, history, outs, steady) ==
    [restart |-> restart, owner |-> owner, source |-> "internal", src |-> NoSrc, history |-> history,
     outs |-> outs, recording |-> NoRecording, profile |-> NoSourceProfile, steady |-> steady]
S(o, src, rec, prof) == [o EXCEPT !.source = "spo", !.src = src, !.recording = rec, !.profile = prof]

MCOptions ==
    {O(TRUE, "Deployment", TRUE, {"events", "seccomp", "patchedManifest"}, {Truncates, OtherProcess, Script, Chowns}),
     O(TRUE, "none", FALSE, {"events"}, {Refused, Connects, NoTimestamp}),
     O(TRUE, "StatefulSet", FALSE, {}, {Truncates, Refused}),
     O(TRUE, "Job", FALSE, {}, {}),
     O(FALSE, "Deployment", FALSE, {"events", "patchedManifest"}, {Truncates, OtherProcess, Script, Chowns}),
     [O(FALSE, "none", FALSE, {}, {}) EXCEPT !.src = StrongSrc],
     S(O(FALSE, "none", TRUE, {"events"}, {Connects, OtherProcess}), StrongSrc, Recorded, Final),
     S(O(TRUE, "DaemonSet", FALSE, {}, {Script}), MergedSrc, Merging, Fragment),
     S(O(FALSE, "none", FALSE, {}, {Chowns}), MergedSrc, Merging, Fragment)}
=============================================================================
