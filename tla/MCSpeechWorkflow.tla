-------------------------- MODULE MCSpeechWorkflow --------------------------
(***************************************************************************)
(* Instances of SpeechWorkflow for TLC.                                    *)
(***************************************************************************)
EXTENDS SpeechWorkflow

(* The four stages of speechStageDefinitions and their dependencies.       *)
SpeechStages == {"separate", "diarize", "transcribe", "resolve"}

SpeechDeps ==
    [s \in SpeechStages |->
        CASE s = "transcribe" -> {"separate"}
          [] s = "resolve" -> {"transcribe", "diarize"}
          [] OTHER -> {}]

OneAttempt == [s \in SpeechStages |-> 1]

(* A single stage, for leases, deferrals and faults.                       *)
SingleStage == {"separate"}
SingleDeps == [s \in SingleStage |-> {}]
TwoAttempts == [s \in SingleStage |-> 2]
=============================================================================
