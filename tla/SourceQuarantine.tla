-------------------------- MODULE SourceQuarantine --------------------------
(***************************************************************************)
(* What secure ingest promises to the rest of VoiceVerse, without upload   *)
(* requests, leases or queues: a source movie stays in quarantine until    *)
(* its one scan reaches a verdict on a stored object; the verdict is       *)
(* final, and nothing but a clean verdict releases the source to the       *)
(* processing pipeline.  MediaIngest is shown to implement it.             *)
(***************************************************************************)
VARIABLES stored,   \* the object is complete in storage
          verdict,  \* "none", "clean", "infected" or "error"
          released  \* the preparation workflow exists

vars == <<stored, verdict, released>>

Init ==
    /\ stored = FALSE
    /\ verdict = "none"
    /\ released = FALSE

Store ==
    /\ stored' = TRUE
    /\ UNCHANGED <<verdict, released>>

(* The verdict is given once; a clean one releases the source with it.     *)
Decide ==
    /\ stored
    /\ verdict = "none"
    /\ verdict' \in {"clean", "infected", "error"}
    /\ released' = (verdict' = "clean")
    /\ UNCHANGED stored

Next == Store \/ Decide

Spec == Init /\ [][Next]_vars
=============================================================================
