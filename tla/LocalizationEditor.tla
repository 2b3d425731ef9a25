------------------------- MODULE LocalizationEditor -------------------------
(***************************************************************************)
(* The web editor of a localization workspace over the server of module    *)
(* Localization: users type into forms made from a page that grows old,    *)
(* review translations on it, restore revisions from the history dialog    *)
(* and ask for generations.  Between what a user reads and what the user   *)
(* sends lie the edits of the others; a request for a generation or its    *)
(* answer may be lost, or late.  The workspace of a track is mounted anew  *)
(* when its user changes the target language or reloads, and then knows    *)
(* nothing of what was asked for in the one before.                        *)
(*                                                                         *)
(* One user's window is followed.  The others act on what they have just   *)
(* read: an edit is accepted only under the counter in force, so one made  *)
(* from an older page is either refused or, to the server, the same.  Of   *)
(* the window only the item in use is kept: what it showed when it was     *)
(* last read and the revisions that text typed into it was made from.      *)
(* Whether the user types, reviews or restores is seen when the user does. *)
(* A page, or a history, is read in one step.                              *)
(***************************************************************************)
EXTENDS Localization, FiniteSets

CONSTANTS
    Closed,       \* a window that shows no item
    Idle,         \* no generation asked for since the workspace was opened
    MaxAstray     \* bound on the requests that are astray at a time

ASSUME EditorAssumption == MaxAstray \in Nat

VARIABLES
    window,       \* the item in use by the user that is followed
    request,      \* request[u]: generationRequestKeys and generationId
    left          \* requests, not yet over, of workspaces left by their users

editorVars == <<window, request, left>>
vars == <<serverVars, editorVars>>

(* A request that is watched, or of which no answer was heard.             *)
Request == [key : Generations, track : Tracks, answered : BOOLEAN]

LeftRequest == [user : Editors, key : Generations, track : Tracks]

(* Having no request under way is no request.                              *)
ASSUME IdleAssumption == Idle \notin Request

Init ==
    /\ ServerInit
    /\ window = Closed
    /\ request = [u \in Editors |-> Idle]
    /\ left = {}

-----------------------------------------------------------------------------
(* Reading                                                                 *)

(* What a user sees of an item: a translation with the source text beside  *)
(* it and its review state.                                                *)
Shown(i) ==
    CASE i.kind = "scene" -> <<scene.selected>>
      [] i.kind = "source" -> <<source[i.dialogue].selected>>
      [] i.kind = "glossary" -> <<glossary[i.track][i.entry].selected>>
      [] i.kind = "translation" ->
           <<translation[i.track][i.dialogue].selected,
             source[i.dialogue].selected,
             translation[i.track][i.dialogue].state>>

(* The revisions of what is shown; a text is made from these.              *)
Revisions(shown) == IF Len(shown) = 3 THEN SubSeq(shown, 1, 2) ELSE shown

(* Mutant of Key: the row is keyed by the translation alone.               *)
KeyOfTarget(shown) == SubSeq(shown, 1, 1)

(* The key React keeps a form by when its page is read again.  A row is    *)
(* keyed by both of its revisions; that a source text is also given up     *)
(* when the translation beside it changes is left out.                     *)
Key(shown) == IF Len(shown) = 3 THEN SubSeq(shown, 1, 2) ELSE shown

IsStale(v) == v.version # Version(v.item)

(* Item i as it is read now.                                               *)
Look(i) == [item |-> i, version |-> Version(i), shown |-> Shown(i),
            base |-> Revisions(Shown(i))]

(* The user turns to item i: the first one, or leaving one that is stale.  *)
Open(i) ==
    /\ Found(i)
    /\ window # Closed => IsStale(window)
    /\ window' = Look(i)
    /\ UNCHANGED <<serverVars, request, left>>

(* The page, the glossary or the history is read again: after an edit,     *)
(* when a generation has succeeded, or by "Reload latest".  A form whose   *)
(* key has changed is made anew and its text is gone; any other keeps its  *)
(* text, now under the counter just read.                                  *)
Refresh ==
    /\ window # Closed
    /\ LET now == Look(window.item)
       IN  /\ <<now.version, now.shown>> # <<window.version, window.shown>>
           /\ window' = IF Key(window.shown) # Key(now.shown) THEN Closed
                        ELSE [now EXCEPT !.base = window.base]
    /\ UNCHANGED <<serverVars, request, left>>

-----------------------------------------------------------------------------
(* Editing: what was sent from view v of an item and accepted              *)

(* The window and the views the others have just got.                      *)
Views == {Look(i) : i \in {j \in Items : Found(j)}}
             \cup (IF window = Closed THEN {} ELSE {window})

(* An edit of the user's closes the window; its answer may be lost.        *)
Sent(v) ==
    /\ \/ UNCHANGED window
       \/ v = window /\ window' = Closed
    /\ UNCHANGED <<request, left>>

SaveScene(v) ==
    /\ v.item = Scene
    /\ UpdateScene(v.version)
    /\ Sent(v)

SaveSource(v) ==
    /\ v.item.kind = "source"
    /\ UpdateSource(v.version, v.item.dialogue)
    /\ Sent(v)

SaveTarget(v) ==
    /\ v.item.kind = "translation"
    /\ UpdateTranslation(v.version, v.item.track, v.item.dialogue)
    /\ Sent(v)

(* targetUsesOlderSource, for the row as it is shown.                      *)
ShowsOlderSource(v) ==
    translation[v.item.track][v.item.dialogue].sources[v.shown[1]] # v.shown[2]

ChangeState(v, to) ==
    /\ v.item.kind = "translation"
    /\ v.version > 0
    /\ ~ShowsOlderSource(v)
    /\ <<v.shown[3], to>> \in Transitions
    /\ SetState(v.version, v.item.track, v.item.dialogue, to)
    /\ Sent(v)

SaveEntry(v) ==
    /\ v.item.kind = "glossary"
    /\ UpdateEntry(v.version, v.item.track, v.item.entry)
    /\ Sent(v)

AddEntry(t, e) == CreateEntry(t, e) /\ UNCHANGED editorVars

(* The history dialog restores a revision that it does not show as active. *)
Restore(v) ==
    /\ CASE v.item.kind = "scene" -> SelectScene(v.version)
         [] v.item.kind = "source" -> SelectSource(v.version, v.item.dialogue)
         [] v.item.kind = "translation" ->
              SelectTranslation(v.version, v.item.track, v.item.dialogue)
         [] v.item.kind = "glossary" ->
              SelectEntry(v.version, v.item.track, v.item.entry)
    /\ Sent(v)

LaunchTrack(t) == CreateTrack(t) /\ UNCHANGED editorVars

-----------------------------------------------------------------------------
(* Asking for generations                                                  *)

(* A new idempotency key is a random one: nobody has used it.              *)
IsFresh(g) ==
    /\ generation[g].status = "absent"
    /\ \A u \in Editors : request[u] # Idle => request[u].key # g
    /\ \A l \in left : l.key # g

(* Mutant of KeyFor: every request makes a key of its own.                 *)
KeyOfItsOwn(u, t, g) ==
    /\ request[u] # Idle => ~request[u].answered
    /\ IsFresh(g)

(* The key of a request for track t by u: a new one, or that of the last   *)
(* request of this workspace if it was not answered.  The button is        *)
(* disabled while the generation that is watched is active.                *)
KeyFor(u, t, g) ==
    \/ request[u] = Idle /\ IsFresh(g)
    \/ request[u] = [key |-> g, track |-> t, answered |-> FALSE]

Unanswered == {u \in Editors : request[u] # Idle /\ ~request[u].answered}

(* How many requests are without an answer, or of a workspace that was     *)
(* left.                                                                   *)
Astray == Cardinality(Unanswered) + Cardinality(left)

(* The request, of which no answer may be heard: it is lost, or its answer *)
(* will be, or it is still on its way.                                     *)
GenerateScene(u, t, g) ==
    /\ t \in tracks
    /\ KeyFor(u, t, g)
    /\ \/ /\ RequestGeneration(u, g, t)
          /\ request' = [request EXCEPT ![u] =
               IF generation'[g].status = "open"
               THEN [key |-> g, track |-> t, answered |-> TRUE] ELSE Idle]
       \/ /\ u \in Unanswered \/ Astray < MaxAstray
          /\ request' = [request EXCEPT ![u] =
               [key |-> g, track |-> t, answered |-> FALSE]]
          /\ UNCHANGED serverVars
    /\ UNCHANGED <<window, left>>

(* A request that was given up arrives, and nobody hears of it.            *)
ArrivesLate(u, t, g) ==
    /\ \/ request[u] = [key |-> g, track |-> t, answered |-> FALSE]
       \/ [user |-> u, key |-> g, track |-> t] \in left
    /\ RequestGeneration(u, g, t)
    /\ UNCHANGED editorVars

(* The user chooses another target language, or reloads: the key and the   *)
(* generation that is watched are gone, and of the user who is followed    *)
(* the window.                                                             *)
LeaveWorkspace(u) ==
    /\ request[u] # Idle
    /\ u \in Unanswered \/ Astray < MaxAstray
    /\ left' = left \cup
         {[user |-> u, key |-> request[u].key, track |-> request[u].track]}
    /\ request' = [request EXCEPT ![u] = Idle]
    /\ window' \in {window, Closed}
    /\ UNCHANGED serverVars

(* The watched request is over with its generation: polling shows the end, *)
(* and until it does the button only stays disabled.  One that was left no *)
(* longer matters.                                                         *)
GenerationEnds(g) ==
    /\ CommitGeneration(g) \/ FailGeneration(g)
    /\ request' = [u \in Editors |->
         IF request[u] # Idle /\ request[u].key = g /\ request[u].answered
         THEN Idle ELSE request[u]]
    /\ left' = {l \in left : l.key # g}
    /\ UNCHANGED window

-----------------------------------------------------------------------------
Next ==
    \/ \E t \in Tracks :
         \/ LaunchTrack(t)
         \/ \E e \in Entries : AddEntry(t, e)
    \/ \E g \in Generations : GenerationEnds(g)
    \/ \E i \in Items : Open(i)
    \/ Refresh
    \/ \E v \in Views :
         \/ SaveScene(v) \/ SaveSource(v) \/ SaveTarget(v) \/ SaveEntry(v)
         \/ \E to \in EditorStates : ChangeState(v, to)
         \/ Restore(v)
    \/ \E u \in Editors :
         \/ LeaveWorkspace(u)
         \/ \E t \in Tracks, g \in Generations :
              GenerateScene(u, t, g) \/ ArrivesLate(u, t, g)

Spec == Init /\ [][Next]_vars

-----------------------------------------------------------------------------
(* Properties                                                              *)

(* An edit that the server would accept replaces what its editor saw.  The *)
(* counter stands for everything the item shows: while it is the one that  *)
(* was read, so are the revision in force, its review state and, beside a  *)
(* translation, the source text; and a text that was kept while its page   *)
(* was read again was made from the revisions shown now.  The one          *)
(* exception: a line without a translation has no counter that a change of *)
(* its source could move.                                                  *)
NoBlindEdit ==
    window # Closed /\ window.version > 0 /\ ~IsStale(window)
        => /\ window.shown = Shown(window.item)
           /\ window.base = Revisions(window.shown)

(* Its user has left the workspace in which it was asked for.              *)
Forgotten(g) == \E l \in left : l.key = g

(* Generations do not compete: of those requested for the same             *)
(* translations of a track one at most commits, and a user who clicks      *)
(* again after a lost answer has one generation at work, not two, however  *)
(* late the first request arrives.  A workspace knows of its own requests  *)
(* only: a generation whose user has chosen another language, or reloaded, *)
(* goes on beside the one that is asked for next.                          *)
GenerationsDoNotCompete ==
    /\ OneCommitPerSnapshot
    /\ \A u \in Editors :
         Cardinality({g \in Generations : /\ generation[g].status = "open"
                                          /\ generation[g].createdBy = u
                                          /\ ~Forgotten(g)}) <= 1
=============================================================================
