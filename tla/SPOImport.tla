------------------------------ MODULE SPOImport ------------------------------
(* internal/spoimport: importing a SeccompProfile that the security-        *)
(* profiles-operator (SPO, external) recorded, as the seccomp authority of  *)
(* a training run. The gates are operators over the two objects as they     *)
(* were read; TrainingRun reads them in two requests.                       *)
EXTENDS FiniteSets

CONSTANTS TargetNamespace, TargetContainer

(* spec.disableProfileAfterRecording, spec.mergeStrategy, and the           *)
(* finalizer that stays while partial profiles are outstanding.             *)
Recordings == [present : BOOLEAN, disable : BOOLEAN, mergeStrategy : {"None", "Containers"},
               unmerged : BOOLEAN]
NoRecording == [present |-> FALSE, disable |-> FALSE, mergeStrategy |-> "None", unmerged |-> FALSE]

(* labels.* = "" when the label is absent; fields are the keys of spec and  *)
(* of its rules.                                                            *)
Labels == STRING \cup {""}
SourceProfiles == [present : BOOLEAN, state : {"Disabled", "Enabled"}, partial : BOOLEAN,
                   labels : [ns : Labels, id : Labels, container : Labels],
                   fields : SUBSET STRING, names : SUBSET STRING]
NoSourceProfile == [present |-> FALSE, state |-> "Disabled", partial |-> FALSE,
                    labels |-> [ns |-> "", id |-> "", container |-> ""],
                    fields |-> {}, names |-> {}]

supportedSpecFields == {"defaultAction", "architectures", "syscalls", "state", "names", "action"}

(* The source as the flags name it: mode, recording and its namespace.      *)
validateRequest(src) ==
    /\ src.mode \in {"strong-lineage", "merged-provenance"}
    /\ src.recording # "" /\ src.profile # ""
    /\ src.mode = "merged-provenance" => src.recordingNamespace # ""

(* An enforcing source means SPO already applies what nobody reviewed.      *)
checkInert(recording, profile) ==
    /\ recording.present => recording.disable
    /\ profile.state = "Disabled"

(* A fragment of an unfinished merge is never imported.                     *)
checkComplete(recording, profile, src) ==
    /\ ~profile.partial
    /\ (recording.present /\ src.mode # "merged-provenance") => ~recording.unmerged

checkMergedProvenance(recording, profile, src) ==
    /\ profile.labels.ns = src.recordingNamespace
    /\ profile.labels.id = src.recording
    /\ profile.labels.container = ""
    /\ recording.present => recording.mergeStrategy = "Containers"

checkLineage(profile, src) ==
    profile.labels = [ns |-> TargetNamespace, id |-> src.recording, container |-> TargetContainer]

(* A field that cannot be represented is refused, never dropped.            *)
enforcementContent(profile) ==
    /\ profile.fields \subseteq supportedSpecFields
    /\ "defaultAction" \in profile.fields

(* A recording that is gone is expected after a merge and an error          *)
(* otherwise (Import, Snapshot).                                            *)
Snapshot(recording, profile, src) ==
    /\ validateRequest(src)
    /\ profile.present
    /\ recording.present \/ src.mode = "merged-provenance"
    /\ checkInert(recording, profile)
    /\ checkComplete(recording, profile, src)
    /\ IF src.mode = "strong-lineage" THEN checkLineage(profile, src)
       ELSE checkMergedProvenance(recording, profile, src)
    /\ enforcementContent(profile)

InternalSeccompProvenance == [source |-> "internal", origin |-> "observed", recording |-> "", container |-> ""]

(* Merged provenance records no contributor: SPO's union does not keep it.  *)
SPOSeccompProvenance(src) ==
    [source |-> "spo", origin |-> "derived", recording |-> src.recording,
     container |-> IF src.mode = "strong-lineage" THEN TargetContainer ELSE "unavailable"]
=============================================================================
