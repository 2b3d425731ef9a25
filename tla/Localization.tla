---------------------------- MODULE Localization ----------------------------
(***************************************************************************)
(* The localization workspace of a project, for one scene, as the server   *)
(* keeps it: append-only revisions of the scene, of each source line, of   *)
(* each line's translation into each target language and of each glossary  *)
(* entry; for each of them a selection row with the revision in force and  *)
(* a counter; and generations that translate the scene from a snapshot of  *)
(* all these selections.                                                   *)
(*                                                                         *)
(* Every edit, request and commit is one Serializable transaction, hence   *)
(* one action.  Who calls them, and from what they read when, is the       *)
(* subject of LocalizationEditor; how a generation gets to its end is that *)
(* of TranslationGeneration.                                               *)
(*                                                                         *)
(* A revision is the number it has within its parent; its text is left     *)
(* out, and with it what an edit may be refused for besides its counter.   *)
(***************************************************************************)
EXTENDS Naturals, Sequences

CONSTANTS
    Dialogues,    \* the lines of the scene
    Tracks,       \* target languages configured for the project
    Entries,      \* glossary entries a track may get
    Editors,      \* users
    Generations,  \* idempotency keys of generation requests
    MaxEdits      \* bound on successful edits

ASSUME LocalizationAssumption == MaxEdits \in Nat

VARIABLES
    tracks,      \* the tracks that have been created
    scene,       \* the scene's revisions and selection
    source,      \* source[d]: those of a line's source text
    translation, \* translation[t][d]: those of its translation into t
    glossary,    \* glossary[t][e]: those of a glossary entry
    generation,  \* translation_generations, with their snapshots
    edits        \* successful edits so far

textVars == <<scene, source, translation, glossary>>
serverVars == <<tracks, textVars, generation, edits>>

EditorStates == {"draft", "in_review", "approved"}

(* count: revisions appended; selected: the one in force; version: the     *)
(* selection's counter, 0 without a selection row.                         *)
Selection == [count : Nat, selected : Nat, version : Nat]
NoSelection == [count |-> 0, selected |-> 0, version |-> 0]
FirstSelection == [count |-> 1, selected |-> 1, version |-> 1]

(* sources[n]: the source revision the n-th revision is a translation of.  *)
Translation == [sources : Seq(Nat), selected : Nat, version : Nat,
                state : EditorStates]
NoTranslation == [sources |-> <<>>, selected |-> 0, version |-> 0, state |-> "draft"]

Items == [kind : {"scene"}]
    \cup [kind : {"source"}, dialogue : Dialogues]
    \cup [kind : {"translation"}, track : Tracks, dialogue : Dialogues]
    \cup [kind : {"glossary"}, track : Tracks, entry : Entries]

Snapshot == [scene : Nat, sources : [Dialogues -> Nat],
             targets : [Dialogues -> Nat \X Nat], glossary : [Entries -> Nat]]

Generation == [status : {"open", "succeeded", "failed"}, track : Tracks,
               createdBy : Editors, snapshot : Snapshot]

(* A selection points at a revision of its own parent.                     *)
TypeOK ==
    /\ tracks \in SUBSET Tracks
    /\ scene \in Selection /\ scene.selected <= scene.count
    /\ source \in [Dialogues -> Selection]
    /\ \A d \in Dialogues : source[d].selected <= source[d].count
    /\ translation \in [Tracks -> [Dialogues -> Translation]]
    /\ \A t \in Tracks, d \in Dialogues :
         translation[t][d].selected <= Len(translation[t][d].sources)
    /\ glossary \in [Tracks -> [Entries -> Selection]]
    /\ \A t \in Tracks, e \in Entries : glossary[t][e].selected <= glossary[t][e].count
    /\ generation \in [Generations -> [status : {"absent"}] \cup Generation]
    /\ \A g \in Generations :
         generation[g].status # "absent" => generation[g].track \in tracks
    /\ edits \in 0 .. MaxEdits

(* Speech analysis has succeeded; nothing has been localized.              *)
ServerInit ==
    /\ tracks = {}
    /\ scene = NoSelection
    /\ source = [d \in Dialogues |-> NoSelection]
    /\ translation = [t \in Tracks |-> [d \in Dialogues |-> NoTranslation]]
    /\ glossary = [t \in Tracks |-> [e \in Entries |-> NoSelection]]
    /\ generation = [g \in Generations |-> [status |-> "absent"]]
    /\ edits = 0

(* The first track bootstraps the workspace: the scene, its lines and      *)
(* their first revisions.                                                  *)
CreateTrack(t) ==
    /\ t \notin tracks
    /\ tracks' = tracks \cup {t}
    /\ scene' = IF tracks = {} THEN FirstSelection ELSE scene
    /\ source' = IF tracks = {} THEN [d \in Dialogues |-> FirstSelection] ELSE source
    /\ UNCHANGED <<translation, glossary, generation, edits>>

-----------------------------------------------------------------------------
(* Edits                                                                   *)

Version(i) ==
    CASE i.kind = "scene" -> scene.version
      [] i.kind = "source" -> source[i.dialogue].version
      [] i.kind = "translation" -> translation[i.track][i.dialogue].version
      [] i.kind = "glossary" -> glossary[i.track][i.entry].version

(* It is found: its selection exists or, for a translation, its track.     *)
Found(i) == IF i.kind = "translation" THEN i.track \in tracks ELSE Version(i) > 0

(* An edit of i carries the counter its editor has read, and is refused    *)
(* unless that is still the selection's.                                   *)
Accepts(i, expected) ==
    /\ Found(i)
    /\ expected = Version(i)
    /\ edits < MaxEdits
    /\ edits' = edits + 1
    /\ UNCHANGED <<tracks, generation>>

Scene == [kind |-> "scene"]
Source(d) == [kind |-> "source", dialogue |-> d]
Target(t, d) == [kind |-> "translation", track |-> t, dialogue |-> d]
Entry(t, e) == [kind |-> "glossary", track |-> t, entry |-> e]

Appended(s) ==
    [count |-> s.count + 1, selected |-> s.count + 1, version |-> s.version + 1]

(* An old revision that is selected again.                                 *)
Reselected(s) ==
    {[s EXCEPT !.selected = n, !.version = @ + 1] : n \in 1 .. s.count \ {s.selected}}

UpdateScene(expected) ==
    /\ Accepts(Scene, expected)
    /\ scene' = Appended(scene)
    /\ UNCHANGED <<source, translation, glossary>>

SelectScene(expected) ==
    /\ Accepts(Scene, expected)
    /\ scene' \in Reselected(scene)
    /\ UNCHANGED <<source, translation, glossary>>

(* A translation whose review state changes.                               *)
WithState(x, to) == [x EXCEPT !.state = to, !.version = @ + 1]

(* A translation whose old revision is selected again.                     *)
WithRevision(x, n) ==
    [x EXCEPT !.selected = n, !.version = @ + 1, !.state = "draft"]

(* Mutant of Reopened: the translation keeps its counter.                  *)
ReopenedQuietly(d) ==
    [t \in Tracks |-> [translation[t] EXCEPT ![d].state = "draft"]]

(* Mutant of Reopened: approved work is not touched.                       *)
ReopenedUnlessApproved(d) ==
    [t \in Tracks |->
        IF translation[t][d].state # "in_review" THEN translation[t]
        ELSE [translation[t] EXCEPT ![d] = WithState(@, "draft")]]

(* After a change of d's source every translation of d is a draft again,   *)
(* under a new counter.                                                    *)
Reopened(d) ==
    [t \in Tracks |->
        IF translation[t][d].version = 0 THEN translation[t]
        ELSE [translation[t] EXCEPT ![d] = WithState(@, "draft")]]

UpdateSource(expected, d) ==
    /\ Accepts(Source(d), expected)
    /\ source' = [source EXCEPT ![d] = Appended(@)]
    /\ translation' = Reopened(d)
    /\ UNCHANGED <<scene, glossary>>

SelectSource(expected, d) ==
    /\ Accepts(Source(d), expected)
    /\ \E s \in Reselected(source[d]) : source' = [source EXCEPT ![d] = s]
    /\ translation' = Reopened(d)
    /\ UNCHANGED <<scene, glossary>>

(* A new translation of source revision s: the first creates the selection.*)
Translated(x, s) ==
    [sources |-> Append(x.sources, s), selected |-> Len(x.sources) + 1,
     version |-> x.version + 1, state |-> "draft"]

UpdateTranslation(expected, t, d) ==
    /\ Accepts(Target(t, d), expected)
    /\ translation' =
         [translation EXCEPT ![t][d] = Translated(@, source[d].selected)]
    /\ UNCHANGED <<scene, source, glossary>>

SelectTranslation(expected, t, d) ==
    /\ Accepts(Target(t, d), expected)
    /\ \E n \in DOMAIN translation[t][d].sources \ {translation[t][d].selected} :
         translation' = [translation EXCEPT ![t][d] = WithRevision(@, n)]
    /\ UNCHANGED <<scene, source, glossary>>

Transitions ==
    {<<"draft", "in_review">>, <<"in_review", "draft">>,
     <<"in_review", "approved">>, <<"approved", "draft">>}

IsOfActiveSource(x, d) == x.sources[x.selected] = source[d].selected

SetState(expected, t, d, to) ==
    LET x == translation[t][d]
    IN  /\ Accepts(Target(t, d), expected)
        /\ x.version > 0
        /\ <<x.state, to>> \in Transitions
        /\ to = "draft" \/ IsOfActiveSource(x, d)
        /\ translation' = [translation EXCEPT ![t][d] = WithState(@, to)]
        /\ UNCHANGED <<scene, source, glossary>>

CreateEntry(t, e) ==
    /\ t \in tracks
    /\ glossary[t][e] = NoSelection
    /\ edits < MaxEdits
    /\ edits' = edits + 1
    /\ glossary' = [glossary EXCEPT ![t][e] = FirstSelection]
    /\ UNCHANGED <<tracks, scene, source, translation, generation>>

UpdateEntry(expected, t, e) ==
    /\ Accepts(Entry(t, e), expected)
    /\ glossary' = [glossary EXCEPT ![t][e] = Appended(@)]
    /\ UNCHANGED <<scene, source, translation>>

SelectEntry(expected, t, e) ==
    /\ Accepts(Entry(t, e), expected)
    /\ \E s \in Reselected(glossary[t][e]) : glossary' = [glossary EXCEPT ![t][e] = s]
    /\ UNCHANGED <<scene, source, translation>>

-----------------------------------------------------------------------------
(* Generations                                                             *)

(* The selections a generation for track t works on.                       *)
Selections(t) ==
    [scene |-> scene.selected,
     sources |-> [d \in Dialogues |-> source[d].selected],
     targets |-> [d \in Dialogues |->
                    <<translation[t][d].selected, translation[t][d].version>>],
     glossary |-> [e \in Entries |-> glossary[t][e].selected]]

(* The request with its snapshot; a repeated key finds the generation.     *)
RequestGeneration(u, g, t) ==
    /\ t \in tracks
    /\ \/ /\ generation[g].status = "absent"
          /\ generation' = [generation EXCEPT ![g] =
               [status |-> "open", track |-> t, createdBy |-> u,
                snapshot |-> Selections(t)]]
       \/ /\ generation[g].status # "absent"
          /\ UNCHANGED generation
    /\ UNCHANGED <<tracks, textVars, edits>>

(* Mutant of Current: the translations in force are not compared.          *)
InputCurrent(g) ==
    LET now == Selections(generation[g].track)
    IN  now = [generation[g].snapshot EXCEPT !.targets = now.targets]

(* assertSelectionsCurrent and assertTargetSelectionCurrent.               *)
Current(g) == generation[g].snapshot = Selections(generation[g].track)

(* A generation commits a revision of every line, in one transaction.      *)
CommitGeneration(g) ==
    LET t == generation[g].track
    IN  /\ generation[g].status = "open"
        /\ Current(g)
        /\ generation' = [generation EXCEPT ![g].status = "succeeded"]
        /\ translation' = [translation EXCEPT ![t] =
             [d \in Dialogues |->
                Translated(@[d], generation[g].snapshot.sources[d])]]
        /\ UNCHANGED <<tracks, scene, source, glossary, edits>>

(* It fails: on stale input at the latest, or for reasons of its own.      *)
FailGeneration(g) ==
    /\ generation[g].status = "open"
    /\ generation' = [generation EXCEPT ![g].status = "failed"]
    /\ UNCHANGED <<tracks, textVars, edits>>

-----------------------------------------------------------------------------
(* Properties                                                              *)

(* A translation in review or approved is one of the source text in force, *)
(* in every track: no change of the source, undo of a translation or late  *)
(* generation leaves an approval on a text nobody compared.                *)
ReviewedIsCurrent ==
    /\ TypeOK
    /\ \A t \in Tracks, d \in Dialogues :
         translation[t][d].state # "draft" => IsOfActiveSource(translation[t][d], d)

(* Of the generations that were requested for the same translations of a   *)
(* track, one at most commits: the others would overwrite its result.      *)
OneCommitPerSnapshot ==
    \A g, h \in Generations :
        /\ generation[g].status = "succeeded"
        /\ generation[h].status = "succeeded"
        /\ generation[g].track = generation[h].track
        /\ g # h
        => \A d \in Dialogues :
             generation[g].snapshot.targets[d] # generation[h].snapshot.targets[d]
=============================================================================
