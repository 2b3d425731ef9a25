------------------------ MODULE MCArtifactExecution ------------------------
(***************************************************************************)
(* ArtifactExecution for TLC: a preparation, a separation and a            *)
(* transcription of the same source, and the characters; and the           *)
(* algorithms of SpeechTimeline for all small diarizations, transcripts    *)
(* and dialogues.                                                          *)
(***************************************************************************)
EXTENDS ArtifactExecution, SpeechTimeline, TLC

CONSTANTS prepare, separate, transcribe, materialize

Files == (prepare :> 2) @@ (separate :> 2) @@ (transcribe :> 0)
            @@ (materialize :> 0)

Alike == Permutations(Calls) \cup Permutations(Versions)

-----------------------------------------------------------------------------
(* Inputs of the algorithms                                                *)

Intervals(end) == {i \in [start : 0 .. end - 1, end : 1 .. end] : Positive(i)}
Turns(end, speakers) ==
    {t \in [start : 0 .. end - 1, end : 1 .. end, speaker : 1 .. speakers] : Positive(t)}

(* Lists of up to n of the elements, each of which may follow the last.    *)
Lists(n, elements, Follows(_, _)) ==
    LET lists[k \in 0 .. n] ==
          IF k = 0 THEN {<<>>}
          ELSE lists[k - 1] \cup
               {Append(p[1], p[2]) : p \in
                  {p \in lists[k - 1] \X elements :
                     p[1] = <<>> \/ Follows(Last(p[1]), p[2])}}
    IN  lists[n]

Anyhow(a, b) == TRUE
After(a, b) == a.end <= b.start

Ascending(turns) == \A i \in 2 .. Len(turns) : turns[i - 1].start <= turns[i].start
Numbered(turns) == [i \in DOMAIN turns |->
    [start |-> turns[i].start, end |-> turns[i].end, speaker |-> turns[i].speaker,
     ordinal |-> i]]

Result(turns, exclusive) == [turns |-> turns, exclusive |-> exclusive]

(* Whatever a provider may return, in any order, also beyond the end.      *)
Late == [start |-> 3, end |-> 5, speaker |-> 1]
Returned == LET lists == Lists(2, Turns(3, 2) \cup {Late}, Anyhow)
            IN  {Result(r, e) : r \in lists, e \in lists}

Exclusive == {DiarizationManifest(Result(<<>>, e)) :
                e \in Lists(3, Turns(4, 2), After)}

Segment(first, last, words) == [start |-> first, end |-> last, words |-> words]
Transcripts == LET lists == BoundedSeq(Intervals(4), 3)
               IN  {[i \in DOMAIN l |-> Segment(l[i].start, l[i].end, <<>>)] : l \in lists}
                   \cup {<<Segment(0, 4, l)>> : l \in lists}

Spoken == LET words == Lists(2, Intervals(3), Anyhow)
              segments == {Segment(i.start, i.end, w) : i \in Intervals(3), w \in words}
              late == Segment(3, 5, <<>>)
          IN  Lists(2, segments \cup {late}, Anyhow)

(* The algorithms have no state: they are evaluated before the first call. *)
Before == \A c \in Calls : call[c] = None
Quiet == Before /\ faults = 0

-----------------------------------------------------------------------------
(* Properties                                                              *)

(* What the executor publishes, the reader accepts, whatever the provider  *)
(* returned in whatever order, and the database gives back to the          *)
(* resolver, which accepts it; and every word counts for the character of  *)
(* its turn.                                                               *)
TimelineFollowsEvidence ==
    Quiet =>
      /\ \A result \in Returned : Published(result) =>
           LET manifest == DiarizationManifest(result)
           IN  /\ Readable(manifest)
               /\ SurvivesStorage(manifest)
               /\ CharactersFollowSpeakers(manifest)
      /\ \A transcript \in Spoken : TranscriptPublished(transcript) =>
           /\ TranscriptReadable(transcript)
           /\ ReadTranscript(transcript) = transcript
           /\ Accepted(transcript)
      /\ \A transcript \in Transcripts : Accepted(transcript) =>
           \A manifest \in Exclusive : CharactersAddUp(manifest, transcript)

(* Every word has the turn it belongs to, from cursors that never go back, *)
(* and no word is lost or said twice in the dialogues; and a dialogue is   *)
(* marked as overlapping exactly if it meets speech that two speakers      *)
(* share, which two sweeps over the turns find.                            *)
DialoguesFollowTurns ==
    Quiet =>
      /\ \A transcript \in Transcripts : Accepted(transcript) =>
           \A turns \in BoundedSeq(Turns(4, 2), 3) : Disjoint(turns) =>
             WordsAreAssigned(Numbered(turns), transcript)
      /\ \A turns \in BoundedSeq(Turns(3, 3), 4) : Ascending(turns) =>
           \A dialogues \in BoundedSeq(Intervals(3), 2) : Disjoint(dialogues) =>
             OverlapsAreMarked(Numbered(turns), dialogues)

(* The editor's scenes cut the dialogues of a movie at silences and at the *)
(* two limits, and nowhere else, and lose none.                            *)
ScenesPartitionDialogues ==
    Quiet => \A dialogues \in BoundedSeq(Intervals(7), 4) : Disjoint(dialogues) =>
               AreScenes(Scenes(dialogues), dialogues)
=============================================================================
