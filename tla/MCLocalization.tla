--------------------------- MODULE MCLocalization ---------------------------
(***************************************************************************)
(* LocalizationEditor for TLC: editors, tracks and generations are alike.  *)
(***************************************************************************)
EXTENDS LocalizationEditor, TLC

Alike == Permutations(Editors) \cup Permutations(Tracks)
             \cup Permutations(Generations)
=============================================================================
