-------------------------- MODULE WorkflowPipeline --------------------------
(***************************************************************************)
(* What a workflow job promises to the rest of VoiceVerse, without leases, *)
(* attempts, queues or workers: the output of each stage is committed at   *)
(* most once, only after the outputs it depends on, and only while the job *)
(* has no verdict; the verdict is final, and it is "succeeded" exactly     *)
(* when every stage has committed.  SpeechWorkflow, SourcePreparation and  *)
(* TranslationGeneration are shown to implement this specification.        *)
(***************************************************************************)
CONSTANTS Stages,   \* stages of the job
          Deps      \* Deps[s]: the stages whose outputs s reads

VARIABLES committed,  \* the stages whose output is committed
          verdict     \* "open", "succeeded" or "failed"

vars == <<committed, verdict>>

Init ==
    /\ committed = {}
    /\ verdict = "open"

(* Stage s commits its output; the last one gives the job its verdict.     *)
Commit(s) ==
    /\ verdict = "open"
    /\ s \in Stages \ committed
    /\ Deps[s] \subseteq committed
    /\ committed' = committed \cup {s}
    /\ verdict' = IF committed' = Stages THEN "succeeded" ELSE "open"

(* Some stage has failed for good, and the job with it.                    *)
GiveUp ==
    /\ verdict = "open"
    /\ verdict' = "failed"
    /\ UNCHANGED committed

Next == GiveUp \/ \E s \in Stages : Commit(s)

Spec == Init /\ [][Next]_vars
=============================================================================
