------------------------- MODULE LocalizationProofs -------------------------
(***************************************************************************)
(* Proofs about Localization under the editor of LocalizationEditor, for   *)
(* any scene, any number of languages, editors and generations.            *)
(***************************************************************************)
EXTENDS LocalizationEditor, FiniteSetTheorems, TLAPS

(* A selection that points at a revision of its own parent.                *)
ValidSelections == {s \in Selection : s.selected <= s.count}

(* A translation without a selection row has not been reviewed.            *)
Translations == {x \in Translation : /\ x.selected <= Len(x.sources)
                                     /\ x.version = 0 => x.state = "draft"}

SelectionsInv ==
    /\ tracks \in SUBSET Tracks
    /\ edits \in 0 .. MaxEdits
    /\ scene \in ValidSelections
    /\ source \in [Dialogues -> ValidSelections]
    /\ glossary \in [Tracks -> [Entries -> ValidSelections]]

GenerationsInv ==
    /\ generation \in [Generations -> [status : {"absent"}] \cup Generation]
    /\ \A g \in Generations :
         generation[g].status # "absent" => generation[g].track \in tracks

(* The bootstrap gives every line its first source revision: until then    *)
(* there is no translation that could have been reviewed.                  *)
ReviewInv ==
    /\ translation \in [Tracks -> [Dialogues -> Translations]]
    /\ \A t \in Tracks, d \in Dialogues :
         translation[t][d].state # "draft" =>
           t \in tracks /\ IsOfActiveSource(translation[t][d], d)

LocalizationInv == SelectionsInv /\ GenerationsInv /\ ReviewInv

-----------------------------------------------------------------------------
LEMMA InvImpliesTypeOK == LocalizationInv => TypeOK
BY DEF LocalizationInv, SelectionsInv, GenerationsInv, ReviewInv, TypeOK, ValidSelections,
       Translations

LEMMA FirstSelections == NoSelection \in ValidSelections /\ FirstSelection \in ValidSelections
BY DEF NoSelection, FirstSelection, ValidSelections, Selection

LEMMA AppendedIsSelection ==
    ASSUME NEW s \in ValidSelections PROVE Appended(s) \in ValidSelections
BY DEF Appended, ValidSelections, Selection

LEMMA ReselectedIsSelection ==
    ASSUME NEW s \in ValidSelections, NEW r \in Reselected(s) PROVE r \in ValidSelections
<1>1. PICK n \in 1 .. s.count : r = [s EXCEPT !.selected = n, !.version = @ + 1]
  BY DEF Reselected
<1>2. r = [count |-> s.count, selected |-> n, version |-> s.version + 1]
  BY <1>1 DEF ValidSelections, Selection
<1> QED
  BY <1>2 DEF ValidSelections, Selection

(* A new translation is a draft, of its first counter or a later one.      *)
LEMMA TranslatedIsDraft ==
    ASSUME NEW x \in Translations, NEW s \in Nat
    PROVE  Translated(x, s) \in Translations /\ Translated(x, s).state = "draft"
<1>1. Append(x.sources, s) \in Seq(Nat) /\ Len(Append(x.sources, s)) = Len(x.sources) + 1
  BY DEF Translations, Translation
<1>2. Len(x.sources) \in Nat
  BY DEF Translations, Translation
<1> QED
  BY <1>1, <1>2 DEF Translated, Translations, Translation, EditorStates

LEMMA SelectionsAreSnapshot ==
    ASSUME LocalizationInv, NEW t \in Tracks PROVE Selections(t) \in Snapshot
BY DEF LocalizationInv, SelectionsInv, ReviewInv, Selections, Snapshot, ValidSelections,
       Selection, Translations, Translation

(* A change of the review state under a new counter.                       *)
LEMMA StateIsChanged ==
    ASSUME NEW x \in Translations, NEW to \in EditorStates
    PROVE  /\ WithState(x, to) \in Translations
           /\ WithState(x, to).state = to
           /\ WithState(x, to).selected = x.selected
           /\ WithState(x, to).sources = x.sources
<1> DEFINE y == WithState(x, to)
           z == [x EXCEPT !.state = to]
<1>1. x \in Translation /\ x.selected <= Len(x.sources)
  BY DEF Translations
<1>2. /\ z \in Translation
      /\ z.sources = x.sources /\ z.selected = x.selected /\ z.version = x.version
      /\ z.state = to
  BY <1>1 DEF Translation
<1>3. y = [z EXCEPT !.version = x.version + 1]
  BY Zenon DEF WithState
<1> HIDE DEF y, z
<1>4. /\ y \in Translation
      /\ y.sources = z.sources /\ y.selected = z.selected /\ y.version = x.version + 1
      /\ y.state = z.state
  BY <1>1, <1>2, <1>3 DEF Translation
<1>5. y.version # 0
  BY <1>1, <1>4 DEF Translation
<1> QED
  BY <1>1, <1>2, <1>4, <1>5 DEF Translations, y

(* An old revision that is selected again is a draft.                      *)
LEMMA RevisionIsSelected ==
    ASSUME NEW x \in Translations, NEW n \in DOMAIN x.sources
    PROVE  WithRevision(x, n) \in Translations /\ WithRevision(x, n).state = "draft"
<1> DEFINE y == WithRevision(x, n)
           w == [x EXCEPT !.selected = n]
           z == [w EXCEPT !.version = x.version + 1]
<1>1. x \in Translation /\ n \in Nat /\ n <= Len(x.sources)
  BY DEF Translations, Translation
<1>2. /\ w \in Translation
      /\ w.sources = x.sources /\ w.selected = n
  BY <1>1 DEF Translation
<1>3. /\ z \in Translation
      /\ z.sources = x.sources /\ z.selected = n
  <2> HIDE DEF w
  <2> QED
    BY <1>1, <1>2 DEF Translation
<1>4. y = [z EXCEPT !.state = "draft"]
  BY Zenon DEF WithRevision
<1> HIDE DEF y, w, z
<1>5. /\ y \in Translation
      /\ y.sources = z.sources /\ y.selected = z.selected /\ y.state = "draft"
  BY <1>3, <1>4 DEF Translation, EditorStates
<1> QED
  BY <1>1, <1>3, <1>5 DEF Translations, y

(* Every translation of a line is a draft once its source has changed.     *)
LEMMA ReopenedAreDrafts ==
    ASSUME LocalizationInv, NEW d \in Dialogues
    PROVE  /\ Reopened(d) \in [Tracks -> [Dialogues -> Translations]]
           /\ \A t \in Tracks : Reopened(d)[t][d].state = "draft"
           /\ \A t \in Tracks, c \in Dialogues \ {d} : Reopened(d)[t][c] = translation[t][c]
<1> SUFFICES ASSUME NEW t \in Tracks
             PROVE  /\ Reopened(d)[t] \in [Dialogues -> Translations]
                    /\ Reopened(d)[t][d].state = "draft"
                    /\ \A c \in Dialogues \ {d} : Reopened(d)[t][c] = translation[t][c]
  BY DEF Reopened
<1>1. /\ translation[t] \in [Dialogues -> Translations]
      /\ translation[t][d] \in Translations
  BY DEF LocalizationInv, ReviewInv
<1>2. CASE translation[t][d].version = 0
  BY <1>1, <1>2 DEF Reopened, Translations
<1>3. CASE translation[t][d].version # 0
  <2> DEFINE r == WithState(translation[t][d], "draft")
  <2>1. r \in Translations /\ r.state = "draft"
    BY <1>1, StateIsChanged DEF EditorStates
  <2>2. Reopened(d)[t] = [translation[t] EXCEPT ![d] = r]
    BY <1>3 DEF Reopened
  <2> HIDE DEF r
  <2>3. \A c \in Dialogues :
          Reopened(d)[t][c] = IF c = d THEN r ELSE translation[t][c]
    BY <1>1, <2>2
  <2>4. \A c \in Dialogues : Reopened(d)[t][c] \in Translations
    BY <1>1, <2>1, <2>3
  <2>5. Reopened(d)[t] = [c \in Dialogues |-> Reopened(d)[t][c]]
    BY <1>1, <2>2
  <2> QED
    BY <2>1, <2>3, <2>4, <2>5
<1> QED
  BY <1>2, <1>3

-----------------------------------------------------------------------------
(* An analyzed project has no localization yet.                            *)
LEMMA InitInv == Init => LocalizationInv
<1> SUFFICES ASSUME Init PROVE LocalizationInv
  OBVIOUS
<1>1. NoTranslation \in Translations /\ NoTranslation.state = "draft"
  BY DEF NoTranslation, Translations, Translation, EditorStates
<1>2. SelectionsInv
  BY FirstSelections, LocalizationAssumption DEF Init, ServerInit, SelectionsInv
<1>3. GenerationsInv
  BY DEF Init, ServerInit, GenerationsInv
<1>4. ReviewInv
  BY <1>1 DEF Init, ServerInit, ReviewInv
<1> QED
  BY <1>2, <1>3, <1>4 DEF LocalizationInv

(* An accepted edit keeps the invariant if what it leaves in review is of  *)
(* the source it leaves in force.                                          *)
LEMMA EditKeepsInv ==
    ASSUME LocalizationInv, edits < MaxEdits, edits' = edits + 1,
           UNCHANGED <<tracks, generation>>,
           scene' \in ValidSelections,
           source' \in [Dialogues -> ValidSelections],
           glossary' \in [Tracks -> [Entries -> ValidSelections]],
           translation' \in [Tracks -> [Dialogues -> Translations]],
           \A t \in Tracks, d \in Dialogues :
             translation'[t][d].state # "draft" =>
               /\ t \in tracks
               /\ translation'[t][d].sources[translation'[t][d].selected]
                    = source'[d].selected
    PROVE  LocalizationInv'
<1>1. SelectionsInv'
  BY LocalizationAssumption DEF LocalizationInv, SelectionsInv
<1>2. GenerationsInv'
  BY DEF LocalizationInv, GenerationsInv
<1>3. ReviewInv'
  BY DEF ReviewInv, IsOfActiveSource
<1> QED
  BY <1>1, <1>2, <1>3 DEF LocalizationInv

(* The scene and the glossary have no part in what is reviewed.            *)
LEMMA SceneEdited ==
    ASSUME LocalizationInv, NEW expected, UpdateScene(expected) \/ SelectScene(expected)
    PROVE  LocalizationInv'
<1>1. scene' \in ValidSelections
  BY AppendedIsSelection, ReselectedIsSelection
     DEF UpdateScene, SelectScene, LocalizationInv, SelectionsInv
<1> QED
  BY <1>1, EditKeepsInv DEF UpdateScene, SelectScene, Accepts, LocalizationInv,
     SelectionsInv, ReviewInv, IsOfActiveSource

LEMMA EntryEdited ==
    ASSUME LocalizationInv, NEW expected, NEW t \in Tracks, NEW e \in Entries,
           CreateEntry(t, e) \/ UpdateEntry(expected, t, e) \/ SelectEntry(expected, t, e)
    PROVE  LocalizationInv'
<1>1. \E s \in ValidSelections : glossary' = [glossary EXCEPT ![t][e] = s]
  BY FirstSelections, AppendedIsSelection, ReselectedIsSelection
     DEF CreateEntry, UpdateEntry, SelectEntry, LocalizationInv, SelectionsInv
<1>2. glossary' \in [Tracks -> [Entries -> ValidSelections]]
  BY <1>1 DEF LocalizationInv, SelectionsInv
<1> QED
  BY <1>2, EditKeepsInv DEF CreateEntry, UpdateEntry, SelectEntry, Accepts,
     LocalizationInv, SelectionsInv, ReviewInv, IsOfActiveSource

(* A change of a source reopens all of its translations.                   *)
LEMMA SourceEdited ==
    ASSUME LocalizationInv, NEW expected, NEW d \in Dialogues,
           UpdateSource(expected, d) \/ SelectSource(expected, d)
    PROVE  LocalizationInv'
<1>1. PICK s \in ValidSelections : source' = [source EXCEPT ![d] = s]
  BY AppendedIsSelection, ReselectedIsSelection
     DEF UpdateSource, SelectSource, LocalizationInv, SelectionsInv
<1>2. translation' = Reopened(d)
  BY DEF UpdateSource, SelectSource
<1>3. source' \in [Dialogues -> ValidSelections]
  BY <1>1 DEF LocalizationInv, SelectionsInv
<1>4. ASSUME NEW t \in Tracks, NEW c \in Dialogues, translation'[t][c].state # "draft"
      PROVE  /\ t \in tracks
             /\ translation'[t][c].sources[translation'[t][c].selected]
                  = source'[c].selected
  <2>1. c # d
    BY <1>2, <1>4, ReopenedAreDrafts
  <2>2. translation'[t][c] = translation[t][c] /\ source'[c] = source[c]
    BY <1>1, <1>2, <2>1, ReopenedAreDrafts DEF LocalizationInv, SelectionsInv
  <2> QED
    BY <1>4, <2>2 DEF LocalizationInv, ReviewInv, IsOfActiveSource
<1> QED
  BY <1>2, <1>3, <1>4, ReopenedAreDrafts, EditKeepsInv
     DEF UpdateSource, SelectSource, Accepts, LocalizationInv, SelectionsInv

(* A new text or an old one is a draft; a review is one of the source in   *)
(* force.                                                                  *)
LEMMA TargetEdited ==
    ASSUME LocalizationInv, NEW expected, NEW t \in Tracks, NEW d \in Dialogues,
           NEW to \in EditorStates,
           \/ UpdateTranslation(expected, t, d)
           \/ SelectTranslation(expected, t, d)
           \/ SetState(expected, t, d, to)
    PROVE  LocalizationInv'
<1> DEFINE x == translation[t][d]
<1>1. x \in Translations /\ source[d].selected \in Nat
  BY DEF LocalizationInv, ReviewInv, SelectionsInv, ValidSelections, Selection
<1>2. \E y \in Translations :
        /\ translation' = [translation EXCEPT ![t][d] = y]
        /\ y.state # "draft" => /\ t \in tracks
                                /\ y.sources[y.selected] = source[d].selected
  <2>1. CASE UpdateTranslation(expected, t, d)
    BY <1>1, <2>1, TranslatedIsDraft DEF UpdateTranslation
  <2>2. CASE SelectTranslation(expected, t, d)
    BY <1>1, <2>2, RevisionIsSelected DEF SelectTranslation
  <2>3. CASE SetState(expected, t, d, to)
    <3>1. translation' = [translation EXCEPT ![t][d] = WithState(x, to)]
      BY <2>3 DEF SetState
    <3>2. WithState(x, to) \in Translations /\ WithState(x, to).state = to
      BY <1>1, StateIsChanged
    <3>3. to # "draft" => x.sources[x.selected] = source[d].selected
      BY <2>3 DEF SetState, IsOfActiveSource
    <3>4. t \in tracks
      BY <2>3 DEF SetState, Accepts, Found, Target
    <3>5. /\ WithState(x, to).sources = x.sources
          /\ WithState(x, to).selected = x.selected
      BY <1>1, StateIsChanged
    <3> HIDE DEF x
    <3> QED
      BY <3>1, <3>2, <3>3, <3>4, <3>5
  <2> QED
    BY <2>1, <2>2, <2>3
<1>3. PICK y \in Translations :
        /\ translation' = [translation EXCEPT ![t][d] = y]
        /\ y.state # "draft" => /\ t \in tracks
                                /\ y.sources[y.selected] = source[d].selected
  BY <1>2
<1>4. /\ translation' \in [Tracks -> [Dialogues -> Translations]]
      /\ \A u \in Tracks, c \in Dialogues :
           translation'[u][c] = IF u = t /\ c = d THEN y ELSE translation[u][c]
  BY <1>3 DEF LocalizationInv, ReviewInv
<1>5. /\ edits < MaxEdits /\ edits' = edits + 1
      /\ UNCHANGED <<tracks, generation, scene, source, glossary>>
  BY DEF UpdateTranslation, SelectTranslation, SetState, Accepts
<1>6. \A u \in Tracks, c \in Dialogues :
        translation'[u][c].state # "draft" =>
          /\ u \in tracks
          /\ translation'[u][c].sources[translation'[u][c].selected] = source'[c].selected
  BY <1>3, <1>4, <1>5 DEF LocalizationInv, ReviewInv, IsOfActiveSource
<1> QED
  BY <1>4, <1>5, <1>6, EditKeepsInv DEF LocalizationInv, SelectionsInv

(* The first track gives the lines their sources; nothing was reviewed.    *)
LEMMA TrackCreated ==
    ASSUME LocalizationInv, NEW t \in Tracks, CreateTrack(t) PROVE LocalizationInv'
<1>1. SelectionsInv'
  BY FirstSelections DEF CreateTrack, LocalizationInv, SelectionsInv
<1>2. GenerationsInv'
  BY DEF CreateTrack, LocalizationInv, GenerationsInv
<1>3. ReviewInv'
  <2>1. CASE tracks = {}
    BY <2>1 DEF CreateTrack, LocalizationInv, ReviewInv
  <2>2. CASE tracks # {}
    BY <2>2 DEF CreateTrack, LocalizationInv, ReviewInv, IsOfActiveSource
  <2> QED
    BY <2>1, <2>2
<1> QED
  BY <1>1, <1>2, <1>3 DEF LocalizationInv

(* A request takes a snapshot of what is in force.                         *)
LEMMA GenerationRequested ==
    ASSUME LocalizationInv, NEW u \in Editors, NEW g \in Generations, NEW t \in Tracks,
           RequestGeneration(u, g, t)
    PROVE  LocalizationInv'
<1> DEFINE new == [status |-> "open", track |-> t, createdBy |-> u,
                   snapshot |-> Selections(t)]
<1>1. new \in Generation /\ new.track = t
  BY SelectionsAreSnapshot DEF Generation
<1>2. t \in tracks /\ (generation' = [generation EXCEPT ![g] = new] \/ UNCHANGED generation)
  BY DEF RequestGeneration
<1> HIDE DEF new
<1>3. GenerationsInv'
  BY <1>1, <1>2 DEF RequestGeneration, LocalizationInv, GenerationsInv
<1>4. SelectionsInv' /\ ReviewInv'
  BY DEF RequestGeneration, textVars, LocalizationInv, SelectionsInv, ReviewInv,
         IsOfActiveSource
<1> QED
  BY <1>3, <1>4 DEF LocalizationInv

(* A result is a draft of the whole scene.                                 *)
LEMMA GenerationEnded ==
    ASSUME LocalizationInv, NEW g \in Generations, CommitGeneration(g) \/ FailGeneration(g)
    PROVE  LocalizationInv'
<1>1. generation[g] \in Generation /\ generation[g].track \in tracks /\ tracks \subseteq Tracks
  BY DEF CommitGeneration, FailGeneration, LocalizationInv, GenerationsInv, SelectionsInv
<1>2. PICK status \in {"succeeded", "failed"} :
        generation' = [generation EXCEPT ![g].status = status]
  BY DEF CommitGeneration, FailGeneration
<1> DEFINE ended == [generation[g] EXCEPT !.status = status]
<1>3. ended \in Generation /\ ended.track = generation[g].track
  BY <1>1 DEF Generation
<1>4. generation' = [generation EXCEPT ![g] = ended]
  BY <1>2
<1> HIDE DEF ended
<1>5. GenerationsInv'
  BY <1>1, <1>3, <1>4 DEF CommitGeneration, FailGeneration, textVars, LocalizationInv,
                          GenerationsInv
<1>6. SelectionsInv'
  BY DEF CommitGeneration, FailGeneration, textVars, LocalizationInv, SelectionsInv
<1>7. ReviewInv'
  <2>1. CASE FailGeneration(g)
    BY <2>1 DEF FailGeneration, textVars, LocalizationInv, ReviewInv, IsOfActiveSource
  <2>2. CASE CommitGeneration(g)
    <3> DEFINE t == generation[g].track
               Result(d) == Translated(translation[t][d], generation[g].snapshot.sources[d])
    <3>1. \A d \in Dialogues : generation[g].snapshot.sources[d] \in Nat
      BY <1>1 DEF Generation, Snapshot
    <3>2. \A d \in Dialogues : translation[t][d] \in Translations
      BY <1>1 DEF LocalizationInv, ReviewInv
    <3>3. \A d \in Dialogues : Result(d) \in Translations /\ Result(d).state = "draft"
      BY <3>1, <3>2, TranslatedIsDraft
    <3>4. translation' = [translation EXCEPT ![t] = [d \in Dialogues |-> Result(d)]]
      BY <2>2 DEF CommitGeneration
    <3>5. UNCHANGED <<tracks, source>>
      BY <2>2 DEF CommitGeneration
    <3> HIDE DEF Result
    <3>6. \A u \in Tracks, d \in Dialogues :
            translation'[u][d] = IF u = t THEN Result(d) ELSE translation[u][d]
      BY <1>1, <3>4 DEF LocalizationInv, ReviewInv
    <3>7. translation' \in [Tracks -> [Dialogues -> Translations]]
      BY <1>1, <3>3, <3>4 DEF LocalizationInv, ReviewInv
    <3> QED
      BY <3>3, <3>5, <3>6, <3>7 DEF LocalizationInv, ReviewInv, IsOfActiveSource
  <2> QED
    BY <2>1, <2>2
<1> QED
  BY <1>5, <1>6, <1>7 DEF LocalizationInv

LEMMA ServerUntouched ==
    ASSUME LocalizationInv, UNCHANGED serverVars PROVE LocalizationInv'
BY DEF serverVars, textVars, LocalizationInv, SelectionsInv, GenerationsInv, ReviewInv,
       IsOfActiveSource

(* The window shows an item of the workspace.                              *)
WindowInv == window # Closed => window.item \in Items

LEMMA ViewsAreOfItems ==
    ASSUME WindowInv, NEW v \in Views PROVE v.item \in Items
BY DEF WindowInv, Views, Look

(* What the server does in a step.                                         *)
EditStep ==
    \/ \E expected : UpdateScene(expected) \/ SelectScene(expected)
    \/ \E expected : \E d \in Dialogues : UpdateSource(expected, d) \/ SelectSource(expected, d)
    \/ \E expected : \E t \in Tracks, d \in Dialogues, to \in EditorStates :
         \/ UpdateTranslation(expected, t, d)
         \/ SelectTranslation(expected, t, d)
         \/ SetState(expected, t, d, to)
    \/ \E expected : \E t \in Tracks, e \in Entries :
         CreateEntry(t, e) \/ UpdateEntry(expected, t, e) \/ SelectEntry(expected, t, e)

ServerStep ==
    \/ EditStep
    \/ \E t \in Tracks : CreateTrack(t)
    \/ \E u \in Editors, g \in Generations, t \in Tracks : RequestGeneration(u, g, t)
    \/ \E g \in Generations : CommitGeneration(g) \/ FailGeneration(g)
    \/ UNCHANGED serverVars

(* What is sent from a view is an edit of its item.                        *)
LEMMA SentIsEdit ==
    ASSUME NEW v, v.item \in Items,
           \/ SaveScene(v) \/ SaveSource(v) \/ SaveTarget(v) \/ SaveEntry(v)
           \/ \E to \in EditorStates : ChangeState(v, to)
           \/ Restore(v)
    PROVE  EditStep
<1> DEFINE i == v.item
<1>1. /\ i.kind \in {"scene", "source", "translation", "glossary"}
      /\ i.kind \in {"source", "translation"} => i.dialogue \in Dialogues
      /\ i.kind \in {"translation", "glossary"} => i.track \in Tracks
      /\ i.kind = "glossary" => i.entry \in Entries
  BY DEF Items
<1>2. \A expected : \A d \in Dialogues :
        UpdateSource(expected, d) \/ SelectSource(expected, d) => EditStep
  BY DEF EditStep
<1>3. \A expected : \A t \in Tracks, d \in Dialogues, to \in EditorStates :
        \/ UpdateTranslation(expected, t, d) \/ SelectTranslation(expected, t, d)
        \/ SetState(expected, t, d, to)
        => EditStep
  BY DEF EditStep
<1>4. \A expected : \A t \in Tracks, e \in Entries :
        UpdateEntry(expected, t, e) \/ SelectEntry(expected, t, e) => EditStep
  BY DEF EditStep
<1>5. CASE SaveScene(v)
  BY <1>5 DEF SaveScene, EditStep
<1>6. CASE SaveSource(v)
  <2>1. i.kind = "source" /\ UpdateSource(v.version, i.dialogue)
    BY <1>6 DEF SaveSource
  <2> HIDE DEF i
  <2> QED
    BY <1>1, <1>2, <2>1
<1>7. CASE SaveTarget(v)
  <2>1. i.kind = "translation" /\ UpdateTranslation(v.version, i.track, i.dialogue)
    BY <1>7 DEF SaveTarget
  <2>2. "draft" \in EditorStates
    BY DEF EditorStates
  <2> HIDE DEF i
  <2> QED
    BY <1>1, <1>3, <2>1, <2>2
<1>8. CASE SaveEntry(v)
  <2>1. i.kind = "glossary" /\ UpdateEntry(v.version, i.track, i.entry)
    BY <1>8 DEF SaveEntry
  <2> HIDE DEF i
  <2> QED
    BY <1>1, <1>4, <2>1
<1>9. ASSUME NEW to \in EditorStates, ChangeState(v, to) PROVE EditStep
  <2>1. i.kind = "translation" /\ SetState(v.version, i.track, i.dialogue, to)
    BY <1>9 DEF ChangeState
  <2> HIDE DEF i
  <2> QED
    BY <1>1, <1>3, <2>1
<1>10. CASE Restore(v)
  <2>1. \/ SelectScene(v.version)
        \/ i.kind = "source" /\ SelectSource(v.version, i.dialogue)
        \/ i.kind = "translation" /\ SelectTranslation(v.version, i.track, i.dialogue)
        \/ i.kind = "glossary" /\ SelectEntry(v.version, i.track, i.entry)
    BY <1>1, <1>10 DEF Restore
  <2>2. "draft" \in EditorStates
    BY DEF EditorStates
  <2>3. SelectScene(v.version) => EditStep
    BY DEF EditStep
  <2> HIDE DEF i
  <2> QED
    BY <1>1, <1>2, <1>3, <1>4, <2>1, <2>2, <2>3
<1> QED
  BY <1>5, <1>6, <1>7, <1>8, <1>9, <1>10

(* What a step does to the window.                                         *)
WindowStep ==
    \/ window' \in {window, Closed}
    \/ UNCHANGED serverVars /\ \E i \in Items : window' = Look(i)
    \/ UNCHANGED serverVars /\ Refresh

LEMMA StepParts == WindowInv /\ [Next]_vars => ServerStep /\ WindowStep
<1> SUFFICES ASSUME WindowInv, [Next]_vars PROVE ServerStep /\ WindowStep
  OBVIOUS
<1> USE DEF ServerStep, WindowStep
<1>1. ASSUME NEW t \in Tracks, LaunchTrack(t) PROVE ServerStep /\ WindowStep
  BY <1>1 DEF LaunchTrack, editorVars
<1>2. ASSUME NEW t \in Tracks, NEW e \in Entries, AddEntry(t, e)
      PROVE  ServerStep /\ WindowStep
  BY <1>2 DEF AddEntry, EditStep, editorVars
<1>3. ASSUME NEW g \in Generations, GenerationEnds(g) PROVE ServerStep /\ WindowStep
  BY <1>3 DEF GenerationEnds
<1>4. ASSUME NEW i \in Items, Open(i) PROVE ServerStep /\ WindowStep
  BY <1>4 DEF Open
<1>5. CASE Refresh
  <2>1. UNCHANGED serverVars
    BY <1>5 DEF Refresh
  <2> QED
    BY <1>5, <2>1
<1>6. ASSUME NEW v \in Views,
             \/ SaveScene(v) \/ SaveSource(v) \/ SaveTarget(v) \/ SaveEntry(v)
             \/ \E to \in EditorStates : ChangeState(v, to)
             \/ Restore(v)
      PROVE  ServerStep /\ WindowStep
  <2>1. window' \in {window, Closed}
    BY <1>6 DEF SaveScene, SaveSource, SaveTarget, SaveEntry, ChangeState, Restore, Sent
  <2> QED
    BY <1>6, <2>1, ViewsAreOfItems, SentIsEdit
<1>7. ASSUME NEW u \in Editors, NEW t \in Tracks, NEW g \in Generations,
             GenerateScene(u, t, g) \/ ArrivesLate(u, t, g)
      PROVE  ServerStep /\ WindowStep
  BY <1>7 DEF GenerateScene, ArrivesLate, editorVars
<1>8. ASSUME NEW u \in Editors, LeaveWorkspace(u) PROVE ServerStep /\ WindowStep
  BY <1>8 DEF LeaveWorkspace
<1>9. CASE UNCHANGED vars
  BY <1>9 DEF vars, editorVars
<1> QED
  BY <1>1, <1>2, <1>3, <1>4, <1>5, <1>6, <1>7, <1>8, <1>9 DEF Next

(* Every step of the server keeps its part of the invariant.               *)
LEMMA ServerStepKeepsInv == LocalizationInv /\ ServerStep => LocalizationInv'
BY SceneEdited, SourceEdited, TargetEdited, EntryEdited, TrackCreated,
   GenerationRequested, GenerationEnded, ServerUntouched DEF ServerStep, EditStep

(* Every step keeps the window on an item.                                 *)
LEMMA WindowStepKeepsInv == WindowInv /\ WindowStep => WindowInv'
<1> SUFFICES ASSUME WindowInv, WindowStep PROVE WindowInv'
  OBVIOUS
<1>1. CASE window' \in {window, Closed}
  BY <1>1 DEF WindowInv
<1>2. CASE \E i \in Items : window' = Look(i)
  BY <1>2 DEF WindowInv, Look
<1>3. CASE Refresh
  <2> DEFINE now == Look(window.item)
  <2>1. [now EXCEPT !.base = window.base].item = window.item
    BY DEF Look
  <2>2. window # Closed /\ window' \in {Closed, [now EXCEPT !.base = window.base]}
    BY <1>3 DEF Refresh
  <2> QED
    BY <2>1, <2>2 DEF WindowInv
<1> QED
  BY <1>1, <1>2, <1>3 DEF WindowStep

EditorInv == LocalizationInv /\ WindowInv

LEMMA Invariance == Spec => []EditorInv
<1>1. Init => EditorInv
  BY InitInv DEF Init, EditorInv, WindowInv
<1>2. EditorInv /\ [Next]_vars => EditorInv'
  BY StepParts, ServerStepKeepsInv, WindowStepKeepsInv DEF EditorInv
<1> QED
  BY <1>1, <1>2, PTL DEF Spec

(* Whoever edits what when, and however late a generation comes: what is   *)
(* in review or approved is a translation of the source text in force.     *)
THEOREM ReviewedIsCurrentHolds == Spec => []ReviewedIsCurrent
<1>1. EditorInv => ReviewedIsCurrent
  BY InvImpliesTypeOK DEF EditorInv, LocalizationInv, ReviewInv, ReviewedIsCurrent
<1> QED
  BY <1>1, Invariance, PTL

-----------------------------------------------------------------------------
(* Counters                                                                *)

(* Before the bootstrap nothing has a counter; no translation has one      *)
(* before its track exists.                                                *)
WorkspaceInv ==
    /\ tracks = {} => scene.version = 0 /\ \A d \in Dialogues : source[d].version = 0
    /\ \A t \in Tracks, d \in Dialogues : translation[t][d].version # 0 => t \in tracks

(* A selection is left alone or moves its counter up.                      *)
Advances(s, r) == r = s \/ r.version > s.version

CountersAdvance ==
    /\ Advances(scene, scene')
    /\ \A d \in Dialogues : Advances(source[d], source'[d])
    /\ \A t \in Tracks, e \in Entries : Advances(glossary[t][e], glossary'[t][e])
    /\ \A t \in Tracks, d \in Dialogues :
         /\ Advances(translation[t][d], translation'[t][d])
         /\ translation'[t][d].version = translation[t][d].version
              /\ translation[t][d].version # 0 => source'[d] = source[d]

ServerKeeps == WorkspaceInv' /\ CountersAdvance

LEMMA NewRevisionAdvances ==
    /\ \A s \in ValidSelections : Appended(s).version = s.version + 1
    /\ \A s \in ValidSelections : \A r \in Reselected(s) : r.version = s.version + 1
    /\ \A x \in Translations : \A n : Translated(x, n).version = x.version + 1
    /\ \A x \in Translations : \A to : WithState(x, to).version = x.version + 1
    /\ \A x \in Translations : \A n : WithRevision(x, n).version = x.version + 1
<1>1. \A s \in ValidSelections : Appended(s).version = s.version + 1
  BY DEF Appended
<1>2. \A s \in ValidSelections : \A r \in Reselected(s) : r.version = s.version + 1
  BY DEF Reselected, ValidSelections, Selection
<1>3. \A x \in Translations : \A n : Translated(x, n).version = x.version + 1
  BY DEF Translated
<1>4. \A x \in Translations : \A to : WithState(x, to).version = x.version + 1
  BY DEF WithState, Translations, Translation
<1>5. \A x \in Translations : \A n : WithRevision(x, n).version = x.version + 1
  BY DEF WithRevision, Translations, Translation
<1> QED
  BY <1>1, <1>2, <1>3, <1>4, <1>5

(* An accepted edit is one of an item with a counter, or of a translation  *)
(* into a track that exists.                                               *)
LEMMA EditAdvances ==
    ASSUME LocalizationInv, WorkspaceInv, EditStep PROVE ServerKeeps
<1> USE NewRevisionAdvances DEF Advances, ServerKeeps, Accepts, Found
<1>0. /\ tracks \in SUBSET Tracks
      /\ scene \in ValidSelections /\ scene.version \in Nat
      /\ \A d \in Dialogues : source[d] \in ValidSelections /\ source[d].version \in Nat
      /\ \A t \in Tracks, e \in Entries :
           glossary[t][e] \in ValidSelections /\ glossary[t][e].version \in Nat
      /\ \A t \in Tracks, d \in Dialogues :
           translation[t][d] \in Translations /\ translation[t][d].version \in Nat
      /\ source \in [Dialogues -> ValidSelections]
      /\ translation \in [Tracks -> [Dialogues -> Translations]]
      /\ glossary \in [Tracks -> [Entries -> ValidSelections]]
  BY DEF LocalizationInv, SelectionsInv, ReviewInv, ValidSelections, Selection, Translations,
         Translation
<1>1. ASSUME NEW expected, UpdateScene(expected) \/ SelectScene(expected)
      PROVE  ServerKeeps
  BY <1>0, <1>1 DEF UpdateScene, SelectScene, Scene, Version, WorkspaceInv, CountersAdvance
<1>2. ASSUME NEW expected, NEW d \in Dialogues,
             UpdateSource(expected, d) \/ SelectSource(expected, d)
      PROVE  ServerKeeps
  <2>1. /\ source[d].version > 0
        /\ translation' = Reopened(d) /\ UNCHANGED <<tracks, scene, glossary>>
    BY <1>2 DEF UpdateSource, SelectSource, Source, Version
  <2>2. PICK s : source' = [source EXCEPT ![d] = s] /\ s.version = source[d].version + 1
    BY <1>0, <1>2 DEF UpdateSource, SelectSource
  <2>3. \A c \in Dialogues : Advances(source[c], source'[c])
    BY <1>0, <2>2
  <2>4. ASSUME NEW t \in Tracks, NEW c \in Dialogues
        PROVE  /\ Advances(translation[t][c], translation'[t][c])
               /\ translation'[t][c].version = translation[t][c].version
                    /\ translation[t][c].version # 0 => source'[c] = source[c]
               /\ translation'[t][c].version # 0 => translation[t][c].version # 0
    <3>1. CASE translation[t][d].version = 0
      <4>1. translation'[t] = translation[t]
        BY <2>1, <3>1 DEF Reopened
      <4>2. CASE c = d
        BY <3>1, <4>1, <4>2
      <4>3. CASE c # d
        BY <1>0, <2>2, <4>1, <4>3
      <4> QED
        BY <4>2, <4>3
    <3>2. CASE translation[t][d].version # 0
      <4>1. translation'[t] = [translation[t] EXCEPT ![d] = WithState(@, "draft")]
        BY <2>1, <3>2 DEF Reopened
      <4>2. WithState(translation[t][d], "draft").version = translation[t][d].version + 1
        BY <1>0
      <4>3. CASE c = d
        BY <1>0, <3>2, <4>1, <4>2, <4>3
      <4>4. CASE c # d
        BY <1>0, <2>2, <4>1, <4>4
      <4> QED
        BY <4>3, <4>4
    <3> QED
      BY <3>1, <3>2
  <2>5. tracks # {}
    BY <2>1 DEF WorkspaceInv
  <2> QED
    BY <2>1, <2>3, <2>4, <2>5 DEF WorkspaceInv, CountersAdvance
<1>3. ASSUME NEW expected, NEW t \in Tracks, NEW d \in Dialogues, NEW to \in EditorStates,
             \/ UpdateTranslation(expected, t, d)
             \/ SelectTranslation(expected, t, d)
             \/ SetState(expected, t, d, to)
      PROVE  ServerKeeps
  <2>1. t \in tracks /\ UNCHANGED <<tracks, scene, source, glossary>>
    BY <1>3 DEF UpdateTranslation, SelectTranslation, SetState, Target
  <2>2. PICK y : /\ translation' = [translation EXCEPT ![t][d] = y]
                 /\ \/ y = Translated(translation[t][d], source[d].selected)
                    \/ \E n : y = WithRevision(translation[t][d], n)
                    \/ y = WithState(translation[t][d], to)
    <3>1. CASE UpdateTranslation(expected, t, d)
      BY <3>1 DEF UpdateTranslation
    <3>2. CASE SelectTranslation(expected, t, d)
      BY <3>2 DEF SelectTranslation
    <3>3. CASE SetState(expected, t, d, to)
      BY <3>3 DEF SetState
    <3> QED
      BY <1>3, <3>1, <3>2, <3>3
  <2>3. \A u \in Tracks, c \in Dialogues :
          translation'[u][c] = IF u = t /\ c = d THEN y ELSE translation[u][c]
    BY <1>0, <2>2
  <2>4. translation[t][d].version \in Nat /\ y.version > translation[t][d].version
    <3>1. translation[t][d] \in Translations /\ translation[t][d].version \in Nat
      BY <1>0
    <3>2. y.version = translation[t][d].version + 1
      BY <2>2, <3>1
    <3> QED
      BY <3>1, <3>2
  <2>5. \A u \in Tracks, c \in Dialogues : Advances(translation[u][c], translation'[u][c])
    BY <2>3, <2>4
  <2>6. \A u \in Tracks, c \in Dialogues : translation'[u][c].version # 0 => u \in tracks
    BY <2>1, <2>3 DEF WorkspaceInv
  <2> QED
    BY <2>1, <2>5, <2>6 DEF WorkspaceInv, CountersAdvance
<1>4. ASSUME NEW expected, NEW t \in Tracks, NEW e \in Entries,
             CreateEntry(t, e) \/ UpdateEntry(expected, t, e) \/ SelectEntry(expected, t, e)
      PROVE  ServerKeeps
  <2>1. UNCHANGED <<tracks, scene, source, translation>>
    BY <1>4 DEF CreateEntry, UpdateEntry, SelectEntry
  <2>2. NoSelection.version = 0 /\ FirstSelection.version = 1
    BY DEF NoSelection, FirstSelection
  <2>3. PICK s : /\ glossary' = [glossary EXCEPT ![t][e] = s]
                 /\ \/ s = FirstSelection /\ glossary[t][e] = NoSelection
                    \/ s = Appended(glossary[t][e])
                    \/ s \in Reselected(glossary[t][e])
    <3>1. CASE CreateEntry(t, e)
      BY <3>1 DEF CreateEntry
    <3>2. CASE UpdateEntry(expected, t, e)
      BY <3>2 DEF UpdateEntry
    <3>3. CASE SelectEntry(expected, t, e)
      BY <3>3 DEF SelectEntry
    <3> QED
      BY <1>4, <3>1, <3>2, <3>3
  <2>4. \A u \in Tracks, c \in Entries :
          glossary'[u][c] = IF u = t /\ c = e THEN s ELSE glossary[u][c]
    BY <1>0, <2>3
  <2>5. glossary[t][e].version \in Nat /\ s.version > glossary[t][e].version
    <3>1. glossary[t][e] \in ValidSelections /\ glossary[t][e].version \in Nat
      BY <1>0
    <3>2. s.version = glossary[t][e].version + 1
      BY <2>2, <2>3, <3>1
    <3> QED
      BY <3>1, <3>2
  <2>6. \A u \in Tracks, c \in Entries : Advances(glossary[u][c], glossary'[u][c])
    BY <2>4, <2>5
  <2> QED
    BY <2>1, <2>6 DEF WorkspaceInv, CountersAdvance
<1> QED
  BY <1>1, <1>2, <1>3, <1>4 DEF EditStep

(* So do the bootstrap and a committed result; a request has no effect.    *)
LEMMA ServerStepAdvances ==
    LocalizationInv /\ WorkspaceInv /\ ServerStep => ServerKeeps
<1> SUFFICES ASSUME LocalizationInv, WorkspaceInv, ServerStep PROVE ServerKeeps
  OBVIOUS
<1>1. ASSUME NEW t \in Tracks, CreateTrack(t) PROVE ServerKeeps
  <2>1. FirstSelection.version = 1 /\ tracks' # {}
    BY <1>1 DEF CreateTrack, FirstSelection
  <2>2. CASE tracks = {}
    BY <1>1, <2>1, <2>2 DEF CreateTrack, WorkspaceInv, ServerKeeps, CountersAdvance, Advances
  <2>3. CASE tracks # {}
    BY <1>1, <2>1, <2>3 DEF CreateTrack, WorkspaceInv, ServerKeeps, CountersAdvance, Advances
  <2> QED
    BY <2>2, <2>3
<1>2. ASSUME UNCHANGED <<tracks, textVars>> PROVE ServerKeeps
  BY <1>2 DEF textVars, WorkspaceInv, ServerKeeps, CountersAdvance, Advances
<1>3. ASSUME NEW g \in Generations, CommitGeneration(g) PROVE ServerKeeps
  <2> DEFINE t == generation[g].track
             Result(d) == Translated(translation[t][d], generation[g].snapshot.sources[d])
  <2>1. t \in tracks /\ t \in Tracks
    BY <1>3 DEF CommitGeneration, LocalizationInv, GenerationsInv, SelectionsInv
  <2>2. /\ translation \in [Tracks -> [Dialogues -> Translations]]
        /\ \A u \in Tracks, d \in Dialogues : translation[u][d].version \in Nat
    BY DEF LocalizationInv, ReviewInv, Translations, Translation
  <2>3. \A d \in Dialogues : Result(d).version = translation[t][d].version + 1
    BY <2>1, <2>2, NewRevisionAdvances
  <2>4. translation' = [translation EXCEPT ![t] = [d \in Dialogues |-> Result(d)]]
    BY <1>3 DEF CommitGeneration
  <2>5. UNCHANGED <<tracks, scene, source, glossary>>
    BY <1>3 DEF CommitGeneration
  <2> HIDE DEF Result
  <2>6. \A u \in Tracks, d \in Dialogues :
          translation'[u][d] = IF u = t THEN Result(d) ELSE translation[u][d]
    BY <2>1, <2>2, <2>4
  <2> HIDE DEF t
  <2> QED
    BY <2>1, <2>2, <2>3, <2>5, <2>6 DEF WorkspaceInv, ServerKeeps, CountersAdvance, Advances
<1> QED
  BY <1>1, <1>2, <1>3, EditAdvances
     DEF ServerStep, RequestGeneration, FailGeneration, serverVars

(* Hence whatever an item shows changes only with its counter.             *)
LEMMA CounterStandsForShown ==
    ASSUME LocalizationInv, LocalizationInv', CountersAdvance, NEW i \in Items
    PROVE  /\ Version(i) \in Nat /\ Version(i)' \in Nat
           /\ Version(i)' # Version(i) => Version(i)' > Version(i)
           /\ Version(i)' = Version(i) /\ Version(i) # 0 => Shown(i)' = Shown(i)
<1>0. /\ scene.version \in Nat
      /\ \A d \in Dialogues : source[d].version \in Nat
      /\ \A t \in Tracks, e \in Entries : glossary[t][e].version \in Nat
      /\ \A t \in Tracks, d \in Dialogues : translation[t][d].version \in Nat
      /\ scene'.version \in Nat
      /\ \A d \in Dialogues : source'[d].version \in Nat
      /\ \A t \in Tracks, e \in Entries : glossary'[t][e].version \in Nat
      /\ \A t \in Tracks, d \in Dialogues : translation'[t][d].version \in Nat
  BY DEF LocalizationInv, SelectionsInv, ReviewInv, ValidSelections, Selection, Translations,
         Translation
<1> USE DEF Version, Shown, CountersAdvance, Advances
<1>1. CASE i.kind = "scene"
  BY <1>0, <1>1
<1>2. CASE i.kind = "source"
  <2>1. i.dialogue \in Dialogues
    BY <1>2 DEF Items
  <2> QED
    BY <1>0, <1>2, <2>1
<1>3. CASE i.kind = "translation"
  <2>1. i.track \in Tracks /\ i.dialogue \in Dialogues
    BY <1>3 DEF Items
  <2> QED
    BY <1>0, <1>3, <2>1
<1>4. CASE i.kind = "glossary"
  <2>1. i.track \in Tracks /\ i.entry \in Entries
    BY <1>4 DEF Items
  <2> QED
    BY <1>0, <1>4, <2>1
<1> QED
  BY <1>1, <1>2, <1>3, <1>4 DEF Items

(* The window was read under a counter that was in force, and shows what   *)
(* it stood for; a text in it was made from the revisions it shows.        *)
ViewInv ==
    window # Closed =>
      /\ window.version \in Nat
      /\ window.version <= Version(window.item)
      /\ window.base = Revisions(window.shown)
      /\ window.version > 0 /\ window.version = Version(window.item)
           => window.shown = Shown(window.item)

LEMMA ViewKept ==
    ASSUME EditorInv, LocalizationInv', ViewInv, CountersAdvance, window' = window
    PROVE  ViewInv'
<1> SUFFICES ASSUME window # Closed
             PROVE  /\ window.version \in Nat
                    /\ window.version <= Version(window.item)'
                    /\ window.base = Revisions(window.shown)
                    /\ window.version > 0 /\ window.version = Version(window.item)'
                         => window.shown = Shown(window.item)'
  BY DEF ViewInv, Revisions
<1>1. window.item \in Items
  BY DEF EditorInv, WindowInv
<1>2. /\ Version(window.item) \in Nat /\ Version(window.item)' \in Nat
      /\ Version(window.item)' # Version(window.item)
           => Version(window.item)' > Version(window.item)
      /\ Version(window.item)' = Version(window.item) /\ Version(window.item) # 0
           => Shown(window.item)' = Shown(window.item)
  BY <1>1, CounterStandsForShown DEF EditorInv
<1> QED
  BY <1>2 DEF ViewInv

(* A page that is read anew stands for what is in force; a form that       *)
(* survives it was made from the same revisions.                           *)
LEMMA ViewRead ==
    ASSUME EditorInv, ViewInv, UNCHANGED serverVars,
           Refresh \/ \E i \in Items : window' = Look(i)
    PROVE  ViewInv'
<1> DEFINE Faithful(v) ==
             /\ v.version = Version(v.item)
             /\ v.shown = Shown(v.item)
             /\ v.base = Revisions(v.shown)
<1>1. \A i \in Items : Version(i) \in Nat
  BY DEF EditorInv, LocalizationInv, SelectionsInv, ReviewInv, ValidSelections, Selection,
         Translations, Translation, Items, Version
<1>2. \A i : Look(i).item = i /\ Faithful(Look(i))
  BY DEF Look
<1>3. window' = Closed \/ (window'.item \in Items /\ Faithful(window'))
  <2>1. CASE \E i \in Items : window' = Look(i)
    BY <1>2, <2>1
  <2>2. CASE Refresh /\ window' # Closed
    <3> DEFINE now == Look(window.item)
    <3>1. /\ window # Closed
          /\ Key(window.shown) = Key(now.shown)
          /\ window' = [now EXCEPT !.base = window.base]
      BY <2>2 DEF Refresh
    <3>2. /\ window'.item = window.item
          /\ window'.version = Version(window.item)
          /\ window'.shown = Shown(window.item)
          /\ window'.base = window.base
      BY <3>1 DEF Look
    <3>3. now.shown = Shown(window.item)
      BY DEF Look
    <3>4. window.base = Revisions(Shown(window.item))
      BY <3>1, <3>3 DEF ViewInv, Key, Revisions
    <3> QED
      BY <3>1, <3>2, <3>4 DEF EditorInv, WindowInv
  <2> QED
    BY <2>1, <2>2
<1>4. \A i : Version(i)' = Version(i) /\ Shown(i)' = Shown(i)
  BY DEF serverVars, textVars, Version, Shown
<1> QED
  BY <1>1, <1>3, <1>4 DEF ViewInv

CounterInv == EditorInv /\ WorkspaceInv /\ ViewInv

LEMMA CounterInvariance == Spec => []CounterInv
<1>1. Init => CounterInv
  <2> SUFFICES ASSUME Init PROVE CounterInv
    OBVIOUS
  <2>1. EditorInv /\ ViewInv
    BY InitInv DEF Init, EditorInv, WindowInv, ViewInv
  <2>2. WorkspaceInv
    BY DEF Init, ServerInit, WorkspaceInv, NoSelection, NoTranslation
  <2> QED
    BY <2>1, <2>2 DEF CounterInv
<1>2. CounterInv /\ [Next]_vars => CounterInv'
  <2> SUFFICES ASSUME CounterInv, [Next]_vars PROVE CounterInv'
    OBVIOUS
  <2>1. EditorInv /\ WorkspaceInv /\ ViewInv
    BY DEF CounterInv
  <2>2. ServerStep /\ WindowStep
    BY <2>1, StepParts DEF EditorInv
  <2>3. EditorInv'
    BY <2>1, <2>2, ServerStepKeepsInv, WindowStepKeepsInv DEF EditorInv
  <2>4. WorkspaceInv' /\ CountersAdvance
    BY <2>1, <2>2, ServerStepAdvances DEF EditorInv, ServerKeeps
  <2>5. ViewInv'
    <3>1. CASE window' = window
      BY <2>1, <2>3, <2>4, <3>1, ViewKept DEF EditorInv
    <3>2. CASE window' = Closed
      BY <3>2 DEF ViewInv
    <3>3. CASE UNCHANGED serverVars /\ (Refresh \/ \E i \in Items : window' = Look(i))
      BY <2>1, <3>3, ViewRead
    <3> QED
      BY <2>2, <3>1, <3>2, <3>3 DEF WindowStep
  <2> QED
    BY <2>3, <2>4, <2>5 DEF CounterInv
<1> QED
  BY <1>1, <1>2, PTL DEF Spec

(* No edit is blind: while the counter that was read is in force, so is    *)
(* all that was read with it, and a text that was kept was made from it.   *)
THEOREM NoBlindEditHolds == Spec => []NoBlindEdit
<1>1. CounterInv => NoBlindEdit
  BY DEF CounterInv, ViewInv, NoBlindEdit, IsStale
<1> QED
  BY <1>1, CounterInvariance, PTL

-----------------------------------------------------------------------------
(* Generations                                                             *)

(* Once a generation has committed, the counters have left its snapshot.   *)
CommittedInv ==
    \A g \in Generations : generation[g].status = "succeeded" =>
      \A d \in Dialogues :
        generation[g].snapshot.targets[d][2]
          < translation[generation[g].track][d].version

(* User u's workspace knows generation g by its key.                       *)
Knows(u, g) == request[u] # Idle /\ request[u].key = g

(* A generation that is open is the one its user's request names, or that  *)
(* user has left the workspace of it.                                      *)
WatchedInv ==
    /\ request \in [Editors -> {Idle} \cup Request]
    /\ \A g \in Generations :
         generation[g].status = "open" => Knows(generation[g].createdBy, g) \/ Forgotten(g)

GenerationStep ==
    \/ UNCHANGED <<generation, request, left>>
    \/ \E u \in Editors, t \in Tracks, g \in Generations :
         GenerateScene(u, t, g) \/ ArrivesLate(u, t, g)
    \/ \E u \in Editors : LeaveWorkspace(u)
    \/ \E g \in Generations : GenerationEnds(g)

LEMMA EditsLeaveGenerations == EditStep => UNCHANGED generation
<1>1. \A expected : UpdateScene(expected) \/ SelectScene(expected) => UNCHANGED generation
  BY DEF UpdateScene, SelectScene, Accepts
<1>2. \A expected, d : UpdateSource(expected, d) \/ SelectSource(expected, d)
                        => UNCHANGED generation
  BY DEF UpdateSource, SelectSource, Accepts
<1>3. \A expected, t, d : UpdateTranslation(expected, t, d) \/ SelectTranslation(expected, t, d)
                           => UNCHANGED generation
  BY DEF UpdateTranslation, SelectTranslation, Accepts
<1>4. \A expected, t, d, to : SetState(expected, t, d, to) => UNCHANGED generation
  BY DEF SetState, Accepts
<1>5. \A expected, t, e : \/ CreateEntry(t, e) \/ UpdateEntry(expected, t, e)
                          \/ SelectEntry(expected, t, e)
                          => UNCHANGED generation
  BY DEF CreateEntry, UpdateEntry, SelectEntry, Accepts
<1> QED
  BY <1>1, <1>2, <1>3, <1>4, <1>5 DEF EditStep

LEMMA NextIsGenerationStep == WindowInv /\ [Next]_vars => GenerationStep
<1> SUFFICES ASSUME WindowInv, [Next]_vars PROVE GenerationStep
  OBVIOUS
<1>1. ASSUME NEW v \in Views,
             \/ SaveScene(v) \/ SaveSource(v) \/ SaveTarget(v) \/ SaveEntry(v)
             \/ \E to \in EditorStates : ChangeState(v, to)
             \/ Restore(v)
      PROVE  GenerationStep
  <2>1. UNCHANGED generation
    BY <1>1, ViewsAreOfItems, SentIsEdit, EditsLeaveGenerations
  <2>2. UNCHANGED <<request, left>>
    BY <1>1 DEF SaveScene, SaveSource, SaveTarget, SaveEntry, ChangeState, Restore, Sent
  <2> QED
    BY <2>1, <2>2 DEF GenerationStep
<1>2. ASSUME NEW t \in Tracks, LaunchTrack(t) \/ \E e \in Entries : AddEntry(t, e)
      PROVE  GenerationStep
  BY <1>2 DEF GenerationStep, LaunchTrack, AddEntry, CreateTrack, CreateEntry, editorVars
<1>3. ASSUME Refresh \/ \E i \in Items : Open(i) PROVE GenerationStep
  BY <1>3 DEF GenerationStep, Refresh, Open, serverVars
<1>4. CASE UNCHANGED vars
  BY <1>4 DEF GenerationStep, vars, serverVars, editorVars
<1> QED
  BY <1>1, <1>2, <1>3, <1>4 DEF Next, GenerationStep

GenerationInv == CounterInv /\ OneCommitPerSnapshot /\ CommittedInv /\ WatchedInv

(* Counters only move up: what has left a snapshot does not come back.     *)
LEMMA CommittedStays ==
    ASSUME CounterInv, CountersAdvance, CounterInv', CommittedInv,
           NEW g \in Generations, generation[g].status = "succeeded",
           NEW d \in Dialogues
    PROVE  generation[g].snapshot.targets[d][2]
             < translation'[generation[g].track][d].version
<1> DEFINE t == generation[g].track
           n == generation[g].snapshot.targets[d][2]
<1>1. t \in Tracks /\ n \in Nat
  BY DEF CounterInv, EditorInv, LocalizationInv, GenerationsInv, Generation, Snapshot
<1>2. translation[t][d].version \in Nat /\ translation'[t][d].version \in Nat
  BY <1>1 DEF CounterInv, EditorInv, LocalizationInv, ReviewInv, Translations, Translation
<1>3. translation'[t][d].version >= translation[t][d].version
  BY <1>1, <1>2 DEF CountersAdvance, Advances
<1>4. n < translation[t][d].version
  BY DEF CommittedInv
<1> HIDE DEF n, t
<1> QED
  BY <1>1, <1>2, <1>3, <1>4 DEF n, t

(* A step that commits nothing.                                            *)
LEMMA NothingCommitted ==
    ASSUME CounterInv, CountersAdvance, CounterInv', CommittedInv, OneCommitPerSnapshot,
           \A g \in Generations :
             generation'[g].status = "succeeded" => generation'[g] = generation[g]
    PROVE  CommittedInv' /\ OneCommitPerSnapshot'
<1>1. CommittedInv'
  BY CommittedStays DEF CommittedInv
<1>2. OneCommitPerSnapshot'
  BY DEF OneCommitPerSnapshot
<1> QED
  BY <1>1, <1>2

(* A generation commits on the counters of its snapshot, which no earlier  *)
(* one has left behind, and leaves them.                                   *)
LEMMA OneCommitted ==
    ASSUME CounterInv, CountersAdvance, CounterInv', CommittedInv, OneCommitPerSnapshot,
           NEW g \in Generations, CommitGeneration(g)
    PROVE  CommittedInv' /\ OneCommitPerSnapshot'
<1> DEFINE t == generation[g].track
           new == [generation[g] EXCEPT !.status = "succeeded"]
<1>1. /\ generation[g] \in Generation /\ t \in Tracks
      /\ generation \in [Generations -> [status : {"absent"}] \cup Generation]
      /\ translation \in [Tracks -> [Dialogues -> Translations]]
  BY DEF CounterInv, EditorInv, LocalizationInv, GenerationsInv, ReviewInv,
     CommitGeneration, Generation
<1>2. new.track = t /\ new.snapshot = generation[g].snapshot /\ new.status = "succeeded"
  BY <1>1 DEF Generation
<1>3. generation' = [generation EXCEPT ![g] = new]
  BY DEF CommitGeneration
<1> HIDE DEF new
<1>4. /\ generation'[g] = new
      /\ \A h \in Generations \ {g} : generation'[h] = generation[h]
  BY <1>1, <1>3
<1>5. ASSUME NEW d \in Dialogues
      PROVE  generation[g].snapshot.targets[d][2] = translation[t][d].version
  BY <1>5 DEF CommitGeneration, Current, Selections
<1>6. ASSUME NEW d \in Dialogues
      PROVE  translation'[t][d].version = translation[t][d].version + 1
  BY <1>1 DEF CommitGeneration, Translated
<1>7. ASSUME NEW d \in Dialogues
      PROVE  translation[t][d].version \in Nat
  BY <1>1 DEF Translations, Translation
<1>8. CommittedInv'
  <2>1. ASSUME NEW d \in Dialogues
        PROVE  new.snapshot.targets[d][2] < translation'[t][d].version
    BY <1>2, <1>5, <1>6, <1>7
  <2>2. ASSUME NEW h \in Generations \ {g}, generation[h].status = "succeeded",
               NEW d \in Dialogues
        PROVE  generation[h].snapshot.targets[d][2]
                 < translation'[generation[h].track][d].version
    BY <2>2, CommittedStays
  <2> HIDE DEF t
  <2> QED
    BY <1>2, <1>4, <2>1, <2>2 DEF CommittedInv
<1>9. ASSUME NEW h \in Generations \ {g}, generation[h].status = "succeeded",
             generation[h].track = t, NEW d \in Dialogues
      PROVE  generation[h].snapshot.targets[d] # generation[g].snapshot.targets[d]
  <2>1. generation[h].snapshot.targets[d][2] < translation[t][d].version
    BY <1>9 DEF CommittedInv
  <2>2. generation[g].snapshot.targets[d][2] = translation[t][d].version
    BY <1>5
  <2> HIDE DEF t
  <2> QED
    BY <1>7, <2>1, <2>2
<1>10. OneCommitPerSnapshot'
  <2> HIDE DEF t
  <2> QED
    BY <1>2, <1>4, <1>9 DEF OneCommitPerSnapshot
<1> QED
  BY <1>8, <1>10

(* A request is answered by its own generation, and a new one is made only *)
(* by a user whose last one is over.                                       *)
LEMMA WatchedAfterRequest ==
    ASSUME CounterInv, WatchedInv, NEW u \in Editors, NEW t \in Tracks,
           NEW g \in Generations, GenerateScene(u, t, g)
    PROVE  /\ WatchedInv'
           /\ \A h \in Generations :
                generation'[h].status = "succeeded" => generation'[h] = generation[h]
<1> USE DEF Knows, Forgotten
<1> DEFINE new == [status |-> "open", track |-> t, createdBy |-> u,
                   snapshot |-> Selections(t)]
           heard == [key |-> g, track |-> t, answered |-> TRUE]
           unheard == [key |-> g, track |-> t, answered |-> FALSE]
<1>1. /\ generation \in [Generations -> [status : {"absent"}] \cup Generation]
      /\ request \in [Editors -> {Idle} \cup Request]
  BY DEF CounterInv, EditorInv, LocalizationInv, GenerationsInv, WatchedInv
<1>2. /\ heard \in Request /\ unheard \in Request
      /\ heard.key = g /\ unheard.key = g
      /\ heard # Idle /\ unheard # Idle
  <2>1. heard \in Request /\ unheard \in Request
    BY DEF Request
  <2> QED
    BY <2>1, IdleAssumption
<1>3. new.status = "open" /\ new.createdBy = u
  OBVIOUS
<1>4. \/ generation' = [generation EXCEPT ![g] = new]
      \/ UNCHANGED generation
  BY DEF GenerateScene, RequestGeneration, serverVars
<1>5. request[u] = Idle \/ request[u].key = g
  BY <1>2 DEF GenerateScene, KeyFor
<1>6. \/ request' = [request EXCEPT ![u] = heard]
      \/ request' = [request EXCEPT ![u] = unheard]
      \/ request' = [request EXCEPT ![u] = Idle] /\ generation'[g].status # "open"
  BY DEF GenerateScene
<1> HIDE DEF new, heard, unheard
<1>7. request' \in [Editors -> {Idle} \cup Request]
  BY <1>1, <1>2, <1>6
<1>8. \A v \in Editors \ {u} : request'[v] = request[v]
  BY <1>1, <1>6
<1>9. generation'[g].status = "open" => request'[u] # Idle /\ request'[u].key = g
  BY <1>1, <1>2, <1>6
<1> left' = left
  BY DEF GenerateScene
<1>10. /\ \A h \in Generations \ {g} : generation'[h] = generation[h]
       /\ generation'[g] \in {generation[g], new}
  BY <1>1, <1>4
<1>11. ASSUME NEW h \in Generations, generation'[h].status = "open"
       PROVE  Knows(generation[h].createdBy, h)' \/ Forgotten(h)'
  <2>1. CASE h = g /\ generation'[g] = new
    BY <1>3, <1>9, <1>11, <2>1
  <2>2. CASE generation'[h] = generation[h] /\ ~Forgotten(h)
    <3>1. generation[h].createdBy \in Editors
      BY <1>1, <1>11, <2>2 DEF Generation
    <3>2. Knows(generation[h].createdBy, h)
      BY <1>11, <2>2 DEF WatchedInv
    <3>3. CASE generation[h].createdBy = u
      BY <1>5, <1>9, <1>11, <2>2, <3>2, <3>3
    <3>4. CASE generation[h].createdBy # u
      BY <1>8, <2>2, <3>1, <3>2, <3>4
    <3> QED
      BY <3>3, <3>4
  <2> QED
    BY <1>10, <2>1, <2>2
<1> QED
  BY <1>3, <1>7, <1>10, <1>11 DEF WatchedInv

(* A request that arrives late is the one its user still knows of, or one  *)
(* of a workspace that was left.                                           *)
LEMMA WatchedAfterArrival ==
    ASSUME CounterInv, WatchedInv, NEW u \in Editors, NEW t \in Tracks,
           NEW g \in Generations, ArrivesLate(u, t, g)
    PROVE  /\ WatchedInv'
           /\ \A h \in Generations :
                generation'[h].status = "succeeded" => generation'[h] = generation[h]
<1> DEFINE new == [status |-> "open", track |-> t, createdBy |-> u,
                   snapshot |-> Selections(t)]
<1>1. generation \in [Generations -> [status : {"absent"}] \cup Generation]
  BY DEF CounterInv, EditorInv, LocalizationInv, GenerationsInv
<1>2. Knows(u, g) \/ Forgotten(g)
  <2>1. CASE request[u] = [key |-> g, track |-> t, answered |-> FALSE]
    <3>1. request[u] \in Request /\ request[u].key = g
      BY <2>1 DEF Request
    <3>2. request[u] # Idle
      BY <3>1, IdleAssumption
    <3> QED
      BY <3>1, <3>2 DEF Knows
  <2>2. CASE [user |-> u, key |-> g, track |-> t] \in left
    BY <2>2 DEF Forgotten
  <2> QED
    BY <2>1, <2>2 DEF ArrivesLate
<1>3. UNCHANGED <<request, left>>
  BY DEF ArrivesLate, editorVars
<1>4. new.status = "open" /\ new.createdBy = u
  OBVIOUS
<1>5. \/ generation' = [generation EXCEPT ![g] = new]
      \/ UNCHANGED generation
  BY DEF ArrivesLate, RequestGeneration
<1> HIDE DEF new
<1>6. /\ \A h \in Generations \ {g} : generation'[h] = generation[h]
      /\ generation'[g] \in {generation[g], new}
  BY <1>1, <1>5
<1> QED
  BY <1>2, <1>3, <1>4, <1>6 DEF WatchedInv, Knows, Forgotten

(* What a user leaves behind is known by nobody, and forgotten.            *)
LEMMA WatchedAfterLeaving ==
    ASSUME WatchedInv, NEW u \in Editors, LeaveWorkspace(u)
    PROVE  WatchedInv'
<1> DEFINE l == [user |-> u, key |-> request[u].key, track |-> request[u].track]
<1>1. /\ request \in [Editors -> {Idle} \cup Request]
      /\ request' = [request EXCEPT ![u] = Idle]
      /\ left' = left \cup {l}
      /\ UNCHANGED generation
  BY DEF WatchedInv, LeaveWorkspace, serverVars
<1>2. l.key = request[u].key
  OBVIOUS
<1> HIDE DEF l
<1>3. ASSUME NEW g \in Generations, generation[g].status = "open"
      PROVE  (Knows(generation[g].createdBy, g) \/ Forgotten(g))'
  <2>1. CASE Forgotten(g)
    BY <1>1, <2>1 DEF Forgotten
  <2>2. CASE Knows(generation[g].createdBy, g) /\ generation[g].createdBy = u
    BY <1>1, <1>2, <2>2 DEF Knows, Forgotten
  <2>3. CASE Knows(generation[g].createdBy, g) /\ generation[g].createdBy # u
    BY <1>1, <2>3 DEF Knows
  <2> QED
    BY <1>3, <2>1, <2>2, <2>3 DEF WatchedInv
<1> QED
  BY <1>1, <1>3 DEF WatchedInv

LEMMA WatchedAfterEnd ==
    ASSUME CounterInv, WatchedInv, NEW g \in Generations, GenerationEnds(g)
    PROVE  WatchedInv'
<1>1. request \in [Editors -> {Idle} \cup Request]
  BY DEF WatchedInv
<1>2. /\ \A h \in Generations \ {g} : generation'[h] = generation[h]
      /\ generation'[g].status # "open"
  BY DEF GenerationEnds, CommitGeneration, FailGeneration, CounterInv, EditorInv,
     LocalizationInv, GenerationsInv, Generation
<1>3. request' \in [Editors -> {Idle} \cup Request]
  BY <1>1 DEF GenerationEnds
<1>4. ASSUME NEW h \in Generations \ {g}, generation[h].status = "open"
      PROVE  (Knows(generation[h].createdBy, h) \/ Forgotten(h))'
  <2>1. generation'[h].createdBy = generation[h].createdBy
    BY <1>2
  <2>2. generation[h].createdBy \in Editors
    BY <1>4 DEF CounterInv, EditorInv, LocalizationInv, GenerationsInv, Generation
  <2>3. CASE Knows(generation[h].createdBy, h)
    BY <2>1, <2>2, <2>3 DEF GenerationEnds, Knows
  <2>4. CASE Forgotten(h)
    BY <2>4 DEF GenerationEnds, Forgotten
  <2> QED
    BY <1>4, <2>3, <2>4 DEF WatchedInv
<1> QED
  BY <1>2, <1>3, <1>4 DEF WatchedInv

LEMMA GenerationInvariance == Spec => []GenerationInv
<1>1. Init => OneCommitPerSnapshot /\ CommittedInv /\ WatchedInv
  BY DEF Init, ServerInit, OneCommitPerSnapshot, CommittedInv, WatchedInv
<1>2. CounterInv /\ CounterInv' /\ GenerationInv /\ [Next]_vars => GenerationInv'
  <2> SUFFICES ASSUME CounterInv, CounterInv', GenerationInv, [Next]_vars
               PROVE  GenerationInv'
    OBVIOUS
  <2>1. EditorInv /\ WorkspaceInv /\ CommittedInv /\ WatchedInv /\ OneCommitPerSnapshot
    BY DEF CounterInv, GenerationInv
  <2>2. CountersAdvance
    <3>1. LocalizationInv /\ WindowInv
      BY <2>1 DEF EditorInv
    <3>2. ServerStep
      BY <3>1, StepParts
    <3> QED
      BY <2>1, <3>1, <3>2, ServerStepAdvances DEF ServerKeeps
  <2>3. GenerationStep
    BY <2>1, NextIsGenerationStep DEF EditorInv
  <2>4. ASSUME \/ UNCHANGED <<generation, request, left>>
               \/ \E u \in Editors : LeaveWorkspace(u)
        PROVE  GenerationInv'
    <3>1. UNCHANGED generation
      BY <2>4 DEF LeaveWorkspace, serverVars
    <3>2. CommittedInv' /\ OneCommitPerSnapshot'
      BY <2>1, <2>2, <3>1, NothingCommitted
    <3>3. WatchedInv'
      <4>1. CASE UNCHANGED <<generation, request, left>>
        BY <2>1, <4>1 DEF WatchedInv, Knows, Forgotten
      <4> QED
        BY <2>1, <2>4, <4>1, WatchedAfterLeaving
    <3> QED
      BY <3>2, <3>3 DEF GenerationInv
  <2>5. ASSUME NEW u \in Editors, NEW t \in Tracks, NEW g \in Generations,
               GenerateScene(u, t, g) \/ ArrivesLate(u, t, g)
        PROVE  GenerationInv'
    <3>1. /\ WatchedInv'
          /\ \A h \in Generations :
               generation'[h].status = "succeeded" => generation'[h] = generation[h]
      BY <2>1, <2>5, WatchedAfterRequest, WatchedAfterArrival
    <3>2. CommittedInv' /\ OneCommitPerSnapshot'
      BY <2>1, <2>2, <3>1, NothingCommitted
    <3> QED
      BY <3>1, <3>2 DEF GenerationInv
  <2>6. ASSUME NEW g \in Generations, GenerationEnds(g)
        PROVE  GenerationInv'
    <3>1. WatchedInv'
      BY <2>1, <2>6, WatchedAfterEnd
    <3>2. CASE CommitGeneration(g)
      BY <2>1, <2>2, <3>1, <3>2, OneCommitted DEF GenerationInv
    <3>3. CASE FailGeneration(g)
      <4>1. \A h \in Generations :
              generation'[h].status = "succeeded" => generation'[h] = generation[h]
        BY <3>3 DEF FailGeneration, CounterInv, EditorInv, LocalizationInv,
           GenerationsInv, Generation
      <4>2. CommittedInv' /\ OneCommitPerSnapshot'
        BY <2>1, <2>2, <4>1, NothingCommitted
      <4> QED
        BY <3>1, <4>2 DEF GenerationInv
    <3> QED
      BY <2>6, <3>2, <3>3 DEF GenerationEnds
  <2> QED
    BY <2>3, <2>4, <2>5, <2>6 DEF GenerationStep
<1> QED
  BY <1>1, <1>2, CounterInvariance, PTL DEF Spec, GenerationInv

(* Of the generations requested for the same translations one at most      *)
(* commits, and a user has one at work at most that was asked for in the   *)
(* workspace on the screen, whatever is lost or late: a click after a lost *)
(* answer sends the key again.                                             *)
THEOREM GenerationsDoNotCompeteHolds == Spec => []GenerationsDoNotCompete
<1>1. GenerationInv => GenerationsDoNotCompete
  <2> SUFFICES ASSUME GenerationInv, NEW u \in Editors
               PROVE  Cardinality({g \in Generations : /\ generation[g].status = "open"
                                                       /\ generation[g].createdBy = u
                                                       /\ ~Forgotten(g)}) <= 1
    BY DEF GenerationInv, GenerationsDoNotCompete
  <2> DEFINE G == {g \in Generations : /\ generation[g].status = "open"
                                       /\ generation[g].createdBy = u
                                       /\ ~Forgotten(g)}
  <2>1. \A g \in G : g = request[u].key
    BY DEF GenerationInv, WatchedInv, Knows
  <2>2. G = {} \/ G = {request[u].key}
    BY <2>1
  <2> HIDE DEF G
  <2>3. Cardinality(G) \in {0, 1}
    <3>1. G = {} => Cardinality(G) = 0
      BY FS_EmptySet
    <3>2. G = {request[u].key} => Cardinality(G) = 1
      BY FS_Singleton, Zenon
    <3> QED
      BY <2>2, <3>1, <3>2
  <2>4. Cardinality(G) <= 1
    BY <2>3
  <2> QED
    BY <2>4 DEF G
<1> QED
  BY <1>1, GenerationInvariance, PTL

=============================================================================
