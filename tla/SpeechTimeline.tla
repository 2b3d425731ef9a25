--------------------------- MODULE SpeechTimeline ---------------------------
(***************************************************************************)
(* The pure algorithms between a diarization, a transcript and the         *)
(* editor's scenes: the executor orders and checks what its provider       *)
(* returned, the reader checks what the executor published, the            *)
(* persistence marks turns that speakers share, the resolver gives every   *)
(* word to a turn and cuts dialogues, and the partitioner cuts scenes.     *)
(*                                                                         *)
(* Times are small naturals for microseconds, speakers and labels numbers. *)
(* An interval is half open.  The place of a row in its list is what the   *)
(* code keeps as its ordinal or sequence number.                           *)
(***************************************************************************)
EXTENDS SequencesExt, Integers

CONSTANTS
    Duration,        \* of the source audio
    Tolerance,       \* nearestTurnToleranceUs
    SilenceBoundary, \* LOCALIZATION_SCENE_SILENCE_BOUNDARY_US
    SceneDuration,   \* LOCALIZATION_SCENE_MAX_DURATION_US
    SceneDialogues   \* LOCALIZATION_SCENE_MAX_DIALOGUES

ASSUME TimelineAssumption ==
    /\ {Duration, SilenceBoundary, SceneDuration, SceneDialogues} \subseteq Nat \ {0}
    /\ Tolerance \in Nat

Meets(a, b) == a.start < b.end /\ b.start < a.end
Overlap(a, b) == IF Meets(a, b)
                 THEN Min({a.end, b.end}) - Max({a.start, b.start}) ELSE 0

Earlier(a, b) == a.start < b.start \/ (a.start = b.start /\ a.end < b.end)
Tied(a, b) == a.start = b.start /\ a.end = b.end
CompareInterval(a, b) == Earlier(a, b) \/ (Tied(a, b) /\ a.ordinal < b.ordinal)

Ordered(rows) == SortSeq(rows, CompareInterval)
Positive(row) == row.start < row.end
Disjoint(rows) == \A i \in 2 .. Len(rows) : rows[i - 1].end <= rows[i].start
SpeakersOf(rows) == {rows[i].speaker : i \in DOMAIN rows}
LengthOf(rows, s) ==
    MapThenSumSet(LAMBDA i : rows[i].end - rows[i].start,
                  {i \in DOMAIN rows : rows[i].speaker = s})

-----------------------------------------------------------------------------
(* The executor: _normalize_diarization                                    *)

ProviderBefore(a, b) == Earlier(a, b) \/ (Tied(a, b) /\ a.speaker < b.speaker)

Published(result) ==
    /\ \A list \in {result.turns, result.exclusive} :
         \A i \in DOMAIN list : list[i].end <= Duration
    /\ Disjoint(SortSeq(result.exclusive, ProviderBefore))

Labels(result) ==
    LET all == result.turns \o result.exclusive
        first(s) == Min({all[i].start : i \in {j \in DOMAIN all : all[j].speaker = s}})
        total(s) == LengthOf(IF s \in SpeakersOf(result.turns) THEN result.turns
                             ELSE result.exclusive, s)
        before(s, t) == \/ first(s) < first(t)
                        \/ first(s) = first(t) /\ total(s) > total(t)
                        \/ first(s) = first(t) /\ total(s) = total(t) /\ s < t
    IN  SetToSortSeq(SpeakersOf(all), before)

DiarizationManifest(result) ==
    LET labels == Labels(result)
        key(s) == CHOOSE k \in DOMAIN labels : labels[k] = s
        normalized(turns) ==
            LET sorted == SortSeq(turns, ProviderBefore)
            IN  [i \in DOMAIN sorted |->
                   [start |-> sorted[i].start, end |-> sorted[i].end,
                    speaker |-> key(sorted[i].speaker), ordinal |-> i]]
    IN  [speakers |-> DOMAIN labels, turns |-> normalized(result.turns),
         exclusive |-> normalized(result.exclusive)]

(* What the reader of the control plane accepts.                           *)
Readable(manifest) ==
    /\ \A list \in {manifest.turns, manifest.exclusive} :
         /\ \A i \in DOMAIN list :
              Positive(list[i]) /\ list[i].end <= Duration
                /\ list[i].speaker \in manifest.speakers
         /\ \A i \in 2 .. Len(list) : ~Earlier(list[i], list[i - 1])
    /\ Disjoint(manifest.exclusive)
    /\ manifest.speakers = SpeakersOf(manifest.turns) \cup SpeakersOf(manifest.exclusive)

(* A transcript is a sequence of segments, each with its words.  The       *)
(* executor checks what its provider returned ...                          *)
TranscriptPublished(transcript) ==
    \A i \in DOMAIN transcript :
      LET segment == transcript[i]
          words == segment.words
      IN  /\ segment.end <= Duration
          /\ i > 1 => transcript[i - 1].end <= segment.start
          /\ \A j \in DOMAIN words :
               /\ segment.start <= words[j].start /\ words[j].end <= segment.end
               /\ j > 1 => words[j - 1].end <= words[j].start

(* ... and the reader what it published, from the previous end on.         *)
TranscriptReadable(transcript) ==
    LET endOf(rows, i, base) == IF i = 0 THEN base ELSE rows[i].end
    IN  \A i \in DOMAIN transcript :
          LET segment == transcript[i]
              words == segment.words
          IN  /\ endOf(transcript, i - 1, 0) <= segment.start
              /\ Positive(segment) /\ segment.end <= Duration
              /\ \A j \in DOMAIN words :
                   /\ endOf(words, j - 1, segment.start) <= words[j].start
                   /\ Positive(words[j]) /\ words[j].end <= segment.end

-----------------------------------------------------------------------------
(* Persistence: overlappingTurnFlags                                       *)

(* The boundaries reached furthest by a speaker, and by any other one.     *)
Update(bounds, c) ==
    LET better(b) == IF c.position > b.position THEN c ELSE b
        contender == IF Len(bounds) = 2 THEN better(bounds[2]) ELSE c
    IN  IF bounds = <<>> THEN <<c>>
        ELSE IF bounds[1].speaker = c.speaker
             THEN <<better(bounds[1])>> \o Tail(bounds)
             ELSE IF contender.position > bounds[1].position
                  THEN <<contender, bounds[1]>>
                  ELSE <<bounds[1], contender>>

(* One pass: the turns that start before another speaker's boundary.       *)
See(seen, t) ==
    LET shared == \E b \in ToSet(seen.bounds) :
                     b.speaker # t.speaker /\ b.position > t.start
    IN  [bounds |-> Update(seen.bounds, [speaker |-> t.speaker, position |-> t.end]),
         flagged |-> IF shared THEN seen.flagged \cup {t.ordinal} ELSE seen.flagged]

Pass(turns) == FoldLeft(See, [bounds |-> <<>>, flagged |-> {}], turns).flagged

(* The pass from the end is the same one in mirrored time.                 *)
Mirrored(turns) == [i \in DOMAIN turns |->
    LET t == turns[Len(turns) + 1 - i] IN [t EXCEPT !.start = -t.end, !.end = -t.start]]

OverlappingTurns(turns) == Pass(turns) \cup Pass(Mirrored(turns))

-----------------------------------------------------------------------------
(* Persistence, and what the resolver reads of it                          *)

(* The turns with their marks.                                             *)
Marked(turns) ==
    LET shared == OverlappingTurns(turns)
    IN  [i \in DOMAIN turns |->
           [start |-> turns[i].start, end |-> turns[i].end, speaker |-> turns[i].speaker,
            ordinal |-> turns[i].ordinal, overlapping |-> turns[i].ordinal \in shared]]

(* Both lists of turns are rows of one table, with ids in this order; a    *)
(* speaker is the cluster with its number as ordinal.                      *)
TurnRows(manifest) ==
    LET rows(turns, exclusive, before) ==
            [i \in DOMAIN turns |->
               [start |-> turns[i].start, end |-> turns[i].end,
                speaker |-> turns[i].speaker, ordinal |-> turns[i].ordinal,
                exclusive |-> exclusive, id |-> before + i,
                overlapping |-> ~exclusive /\ turns[i].overlapping]]
    IN  rows(Marked(manifest.turns), FALSE, 0)
        \o rows(manifest.exclusive, TRUE, Len(manifest.turns))

(* They come back cluster by cluster.                                      *)
ReadTurns(manifest) ==
    LET earlier(a, b) == a.start < b.start \/ (a.start = b.start /\ a.id < b.id)
        turnsOf(k) == SortSeq(SelectSeq(TurnRows(manifest), LAMBDA t : t.speaker = k),
                              earlier)
    IN  FlattenSeq([k \in manifest.speakers |-> turnsOf(k)])

(* Segments and words are two tables.                                      *)
TranscriptRows(transcript) ==
    LET words(i) == [j \in DOMAIN transcript[i].words |->
                       [start |-> transcript[i].words[j].start,
                        end |-> transcript[i].words[j].end, ordinal |-> j, segment |-> i]]
    IN  [segments |-> [i \in DOMAIN transcript |->
                         [start |-> transcript[i].start, end |-> transcript[i].end,
                          ordinal |-> i]],
         words |-> FlattenSeq([i \in DOMAIN transcript |-> words(i)])]

ReadTranscript(transcript) ==
    LET rows == TranscriptRows(transcript)
        segments == Ordered(rows.segments)
        wordsOf(i) == Ordered(SelectSeq(rows.words,
                                        LAMBDA w : w.segment = segments[i].ordinal))
        spans(words) == [j \in DOMAIN words |->
                           [start |-> words[j].start, end |-> words[j].end]]
    IN  [i \in DOMAIN segments |->
           [start |-> segments[i].start, end |-> segments[i].end,
            words |-> spans(wordsOf(i))]]

-----------------------------------------------------------------------------
(* The resolver: TimelineMaterializerService                               *)

(* The turns it accepts ...                                                *)
Resolvable(speakers, rows) ==
    /\ \A i \in DOMAIN rows :
         Positive(rows[i]) /\ ~(rows[i].exclusive /\ rows[i].overlapping)
    /\ speakers = SpeakersOf(rows)

(* ... and the transcripts.                                                *)
Accepted(transcript) ==
    /\ \A i \in DOMAIN transcript :
         LET words == transcript[i].words
         IN  /\ Positive(transcript[i])
             /\ Disjoint(words)
             /\ \A j \in DOMAIN words :
                  /\ Positive(words[j])
                  /\ transcript[i].start <= words[j].start
                  /\ words[j].end <= transcript[i].end
    /\ Disjoint(transcript)

Units(transcript) ==
    LET unit(i, row, words) ==
            [start |-> row.start, end |-> row.end, segment |-> i, words |-> words]
        units(i) == LET words == transcript[i].words
                    IN  IF words = <<>> THEN <<unit(i, transcript[i], 0)>>
                        ELSE [j \in DOMAIN words |-> unit(i, words[j], 1)]
    IN  FlattenSeq([i \in DOMAIN transcript |-> units(i)])

Unresolved == [method |-> "UNRESOLVED", turn |-> 0, speaker |-> 0]
AssignedTo(method, turn) ==
    [method |-> method, turn |-> turn.ordinal, speaker |-> turn.speaker]

BestOverlap(turns, unit) ==
    CHOOSE t \in turns : \A u \in turns \ {t} :
        \/ Overlap(t, unit) > Overlap(u, unit)
        \/ Overlap(t, unit) = Overlap(u, unit) /\ CompareInterval(t, u)

LastOf(turns) ==
    {t \in turns : \A u \in turns \ {t} :
        u.end < t.end \/ (u.end = t.end /\ CompareInterval(t, u))}

(* Mutant of LatestEnded: a turn that ended before an earlier unit is      *)
(* forgotten.                                                              *)
LatestOfUnit(latest, ended) == LastOf(ended)

(* The turn that ended last, as a set of one turn at most.                 *)
LatestEnded(latest, ended) == LastOf(latest \cup ended)

(* Whose word a unit is, given the turns it may overlap, the last one that *)
(* ended before it and the first one that begins after it.                 *)
Assignment(active, latest, upcoming, unit) ==
    LET overlaps == {t \in active : Overlap(t, unit) > 0}
        before == {t \in latest : unit.start - t.end <= Tolerance}
        after == {t \in upcoming : t.start - unit.end <= Tolerance}
        nearer == {t \in before : \A u \in after : unit.start - t.end <= u.start - unit.end}
        nearest == IF nearer # {} THEN nearer ELSE after
    IN  IF overlaps # {} THEN AssignedTo("MAXIMUM_OVERLAP", BestOverlap(overlaps, unit))
        ELSE IF nearest # {} THEN AssignedTo("NEAREST_TURN", CHOOSE t \in nearest : TRUE)
        ELSE Unresolved

(* assign: the cursor over the exclusive turns moves on with every unit.   *)
Assign(turns, cursor, unit) ==
    LET next == Max({cursor.next}
                    \cup {i + 1 : i \in {j \in DOMAIN turns : turns[j].start < unit.end}})
        entered == cursor.active \cup {turns[i] : i \in cursor.next .. next - 1}
        ended == {t \in entered : t.end <= unit.start}
        active == entered \ ended
        latest == LatestEnded(cursor.latest, ended)
        upcoming == {turns[i] : i \in {next} \cap DOMAIN turns}
    IN  [next |-> next, active |-> active, latest |-> latest,
         units |-> Append(cursor.units,
                     [unit |-> unit, to |-> Assignment(active, latest, upcoming, unit)])]

Prolong(dialogue, unit) == [dialogue EXCEPT !.end = unit.end, !.words = @ + unit.words]

(* groupAssignedUnits: neighbours of a segment with one assignment.        *)
Group(dialogues, assigned) ==
    LET unit == assigned.unit
        joins == /\ dialogues # <<>>
                 /\ Last(dialogues).segment = unit.segment
                 /\ Last(dialogues).to = assigned.to
    IN  IF joins THEN [dialogues EXCEPT ![Len(dialogues)] = Prolong(@, unit)]
        ELSE Append(dialogues, [start |-> unit.start, end |-> unit.end,
                                segment |-> unit.segment, words |-> unit.words,
                                to |-> assigned.to])

Stretch(interval, t) == [interval EXCEPT !.end = Max({@, t.end})]

(* mergeMarkedOverlapIntervals                                             *)
Merge(intervals, t) ==
    IF ~t.overlapping THEN intervals
    ELSE IF intervals # <<>> /\ t.start <= Last(intervals).end
    THEN [intervals EXCEPT ![Len(intervals)] = Stretch(@, t)]
    ELSE Append(intervals, [start |-> t.start, end |-> t.end])

ExclusiveTurns(rows) == Ordered(SelectSeq(rows, LAMBDA t : t.exclusive))
RegularTurns(rows) == Ordered(SelectSeq(rows, LAMBDA t : ~t.exclusive))

MarkedIntervals(turns) == FoldLeft(Merge, <<>>, turns)

(* hasOverlap: the cursor passes what ended before the dialogue.           *)
MarkOverlap(intervals, cursor, dialogue) ==
    LET next == Max({cursor.next}
                    \cup {i + 1 : i \in {j \in DOMAIN intervals :
                                           intervals[j].end <= dialogue.start}})
    IN  [next |-> next,
         overlaps |-> Append(cursor.overlaps,
                        next <= Len(intervals) /\ Meets(intervals[next], dialogue))]

AssignedUnits(turns, units) ==
    LET assign(cursor, unit) == Assign(turns, cursor, unit)
    IN  FoldLeft(assign, [next |-> 1, active |-> {}, latest |-> {}, units |-> <<>>],
                 units).units

Dialogues(turns, transcript) ==
    FoldLeft(Group, <<>>, AssignedUnits(turns, Units(transcript)))

Overlaps(turns, dialogues) ==
    LET intervals == MarkedIntervals(turns)
        mark(cursor, dialogue) == MarkOverlap(intervals, cursor, dialogue)
    IN  FoldLeft(mark, [next |-> 1, overlaps |-> <<>>], dialogues).overlaps

(* The exclusive turns of a speaker, if any, are the evidence for it.      *)
EvidenceTurns(rows) ==
    LET exclusive == ExclusiveTurns(rows)
    IN  exclusive \o SelectSeq(RegularTurns(rows),
                               LAMBDA t : t.speaker \notin SpeakersOf(exclusive))

FirstOf(turns, s) ==
    Min({turns[i].start : i \in {j \in DOMAIN turns : turns[j].speaker = s}})

(* canonicalClusterOrder                                                   *)
CharacterOrder(speakers, turns) ==
    LET before(s, t) ==
            LET appear == FirstOf(turns, s) - FirstOf(turns, t)
                speak == LengthOf(turns, t) - LengthOf(turns, s)
            IN  \/ appear < 0
                \/ appear = 0 /\ speak < 0
                \/ appear = 0 /\ speak = 0 /\ s < t
    IN  SetToSortSeq(speakers, before)

(* The characters in their order; none of them has a dialogue yet.         *)
Characters(speakers, rows) ==
    LET turns == EvidenceTurns(rows)
        order == CharacterOrder(speakers, turns)
    IN  [k \in DOMAIN order |->
           [speaker |-> order[k], first |-> FirstOf(turns, order[k]),
            segments |-> 0, duration |-> 0, words |-> 0]]

(* Mutant of Credit: a dialogue counts as one word.                        *)
CreditOnce(characters, dialogue) ==
    [k \in DOMAIN characters |->
       IF characters[k].speaker # dialogue.to.speaker THEN characters[k]
       ELSE [characters[k] EXCEPT !.segments = @ + 1, !.words = @ + 1,
                                  !.duration = @ + (dialogue.end - dialogue.start)]]

(* A dialogue counts for the character of its turn's speaker.              *)
Credit(characters, dialogue) ==
    [k \in DOMAIN characters |->
       IF characters[k].speaker # dialogue.to.speaker THEN characters[k]
       ELSE [characters[k] EXCEPT !.segments = @ + 1, !.words = @ + dialogue.words,
                                  !.duration = @ + (dialogue.end - dialogue.start)]]

(* persistCharacters: the rows of the characters, with what they have      *)
(* said, and those of the dialogues, each with the row of its character.   *)
(* It throws if a dialogue's turn is of a speaker without character.       *)
CharacterRows(speakers, rows, dialogues) ==
    FoldLeft(Credit, Characters(speakers, rows), dialogues)

DialogueRows(characters, dialogues) ==
    LET of(d) == {k \in DOMAIN characters : characters[k].speaker = d.to.speaker}
    IN  [i \in DOMAIN dialogues |->
           [turn |-> dialogues[i].to.turn, characters |-> of(dialogues[i])]]

-----------------------------------------------------------------------------
(* The editor's scenes: partitionLocalizationScenes                        *)

Single(dialogue) == [start |-> dialogue.start, end |-> dialogue.end, dialogues |-> <<dialogue>>]

(* Mutant of Joins: the length limit is compared with the dialogue alone.  *)
JoinsLong(scene, dialogue) ==
    /\ dialogue.start - Last(scene.dialogues).end < SilenceBoundary
    /\ dialogue.end - dialogue.start <= SceneDuration
    /\ Len(scene.dialogues) < SceneDialogues

Joins(scene, dialogue) ==
    /\ dialogue.start - Last(scene.dialogues).end < SilenceBoundary
    /\ dialogue.end - scene.start <= SceneDuration
    /\ Len(scene.dialogues) < SceneDialogues

Extend(scene, dialogue) ==
    [scene EXCEPT !.end = Max({@, dialogue.end}), !.dialogues = Append(@, dialogue)]

AddDialogue(scenes, dialogue) ==
    IF scenes # <<>> /\ Joins(Last(scenes), dialogue)
    THEN [scenes EXCEPT ![Len(scenes)] = Extend(@, dialogue)]
    ELSE Append(scenes, Single(dialogue))

Scenes(dialogues) == FoldLeft(AddDialogue, <<>>, dialogues)
-----------------------------------------------------------------------------
(* What they promise                                                       *)

Gap(t, unit) == IF t.end <= unit.start THEN unit.start - t.end ELSE t.start - unit.end

(* The turn that a unit belongs to, among all turns of the source: the one *)
(* it overlaps most, else the nearest within the tolerance, and of two     *)
(* that are equally good the earlier one.                                  *)
Belongs(unit, to, turns) ==
    LET rival(t) == turns \ {t}
        alone == \A t \in turns : Overlap(t, unit) = 0
    IN  \/ \E t \in turns :
             /\ to = AssignedTo("MAXIMUM_OVERLAP", t)
             /\ Overlap(t, unit) > 0
             /\ \A u \in rival(t) :
                  \/ Overlap(u, unit) < Overlap(t, unit)
                  \/ Overlap(u, unit) = Overlap(t, unit) /\ t.start < u.start
        \/ \E t \in turns :
             /\ to = AssignedTo("NEAREST_TURN", t)
             /\ alone /\ Gap(t, unit) <= Tolerance
             /\ \A u \in rival(t) :
                  \/ Gap(u, unit) > Gap(t, unit)
                  \/ Gap(u, unit) = Gap(t, unit) /\ t.start < u.start
        \/ /\ to = Unresolved
           /\ alone /\ \A t \in turns : Gap(t, unit) > Tolerance

(* Every unit is in one dialogue of its segment, with the turn it belongs  *)
(* to; dialogues are in order, and as long as they can be.                 *)
WordsAreAssigned(turns, transcript) ==
    LET dialogues == Dialogues(turns, transcript)
    IN  /\ \A unit \in ToSet(Units(transcript)) :
             LET own == {i \in DOMAIN dialogues :
                           /\ dialogues[i].segment = unit.segment
                           /\ dialogues[i].start <= unit.start
                           /\ unit.end <= dialogues[i].end}
             IN  /\ Cardinality(own) = 1
                 /\ \A i \in own : Belongs(unit, dialogues[i].to, ToSet(turns))
        /\ Disjoint(dialogues)
        /\ \A i \in 2 .. Len(dialogues) :
             \/ dialogues[i - 1].segment # dialogues[i].segment
             \/ dialogues[i - 1].to # dialogues[i].to

(* A dialogue overlaps if it meets a turn that meets another speaker's.    *)
OverlapsAreMarked(turns, dialogues) ==
    LET shared(t) == \E u \in ToSet(turns) : u.speaker # t.speaker /\ Meets(u, t)
        overlaps == Overlaps(Marked(turns), dialogues)
    IN  \A i \in DOMAIN dialogues :
          overlaps[i]
            <=> \E t \in ToSet(turns) : shared(t) /\ Meets(t, dialogues[i])

(* One representation of the turns: characters are numbered as speakers.   *)
CharactersFollowSpeakers(manifest) ==
    LET characters == Characters(manifest.speakers, ReadTurns(manifest))
    IN  manifest.turns = <<>> \/ manifest.exclusive = <<>> =>
          \A k \in DOMAIN characters : characters[k].speaker = k

(* The database gives back the two lists of the manifest, the first one    *)
(* with its marks, and the resolver accepts them.                          *)
SurvivesStorage(manifest) ==
    LET rows == ReadTurns(manifest)
        read(turns) == [i \in DOMAIN turns |->
                          [start |-> turns[i].start, end |-> turns[i].end,
                           speaker |-> turns[i].speaker, ordinal |-> turns[i].ordinal]]
        marks(turns) == [i \in DOMAIN turns |-> turns[i].overlapping]
    IN  /\ Resolvable(manifest.speakers, rows)
        /\ read(RegularTurns(rows)) = manifest.turns
        /\ marks(RegularTurns(rows)) = marks(Marked(manifest.turns))
        /\ read(ExclusiveTurns(rows)) = manifest.exclusive

(* Every resolved dialogue has one character, whose row counts the words   *)
(* of the transcript that are in its dialogues.                            *)
CharactersAddUp(manifest, transcript) ==
    LET rows == ReadTurns(manifest)
        dialogues == Dialogues(ExclusiveTurns(rows), transcript)
        characters == CharacterRows(manifest.speakers, rows, dialogues)
        stored == DialogueRows(characters, dialogues)
        speech(k) == {i \in DOMAIN dialogues : k \in stored[i].characters}
        said(k) == {u \in ToSet(Units(transcript)) :
                      \E i \in speech(k) : /\ dialogues[i].segment = u.segment
                                           /\ dialogues[i].start <= u.start
                                           /\ u.end <= dialogues[i].end}
    IN  /\ \A i \in DOMAIN dialogues :
             IF dialogues[i].to = Unresolved THEN stored[i].characters = {}
             ELSE /\ Cardinality(stored[i].characters) = 1
                  /\ \E t \in ToSet(manifest.exclusive) :
                       /\ t.ordinal = stored[i].turn
                       /\ \A k \in stored[i].characters : characters[k].speaker = t.speaker
        /\ \A k \in DOMAIN characters :
             /\ characters[k].segments = Cardinality(speech(k))
             /\ characters[k].words = Cardinality({u \in said(k) : u.words = 1})
             /\ characters[k].duration =
                  MapThenSumSet(LAMBDA i : dialogues[i].end - dialogues[i].start, speech(k))

(* Scenes are the dialogues in order, within their limits, and end where   *)
(* the next dialogue comes after a silence or has no room.                 *)
AreScenes(scenes, dialogues) ==
    LET first(s) == Head(s.dialogues)
        room(s, d) == /\ Len(s.dialogues) < SceneDialogues
                      /\ d.end - first(s).start <= SceneDuration
    IN  /\ FlattenSeq([i \in DOMAIN scenes |-> scenes[i].dialogues]) = dialogues
        /\ Disjoint(scenes)
        /\ \A s \in ToSet(scenes) :
             /\ s.start = first(s).start /\ s.end = Last(s.dialogues).end
             /\ Len(s.dialogues) <= SceneDialogues
             /\ Len(s.dialogues) = 1 \/ s.end - s.start <= SceneDuration
             /\ \A j \in 2 .. Len(s.dialogues) :
                  Gap(s.dialogues[j - 1], s.dialogues[j]) < SilenceBoundary
        /\ \A i \in 2 .. Len(scenes) :
             \/ scenes[i].start - scenes[i - 1].end >= SilenceBoundary
             \/ ~room(scenes[i - 1], first(scenes[i]))
=============================================================================
