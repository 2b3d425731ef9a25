# VoiceVerse AI: specifications and proofs

TLA+ specifications of VoiceVerse AI: of its control plane (the NestJS service
in `src/apps/api`), of the executors it calls (`src/services/ai`) and of the two
parts of the web application that keep state (`src/apps/web`); the TLC
configurations that check them on small instances; and TLAPS proofs, for all
instances, of the safety properties of every module with state and of the
algorithms that turn words into dialogues and scenes. Every definition
is translated from the source; `PROJECT.json` names the lines each one stands
for.

## 1. The system

A user uploads a film. It is quarantined until it has been scanned for malware,
then transcoded into the sources speech analysis needs, then analysed by a
graph of model stages, then divided into scenes and translated, by models and by
editors. PostgreSQL holds all durable state. Work is handed over by a
*transactional outbox*: the transaction that makes work due also writes an
outbox event; a relay copies events into BullMQ queues (Redis); workers take
deliveries, claim the work by a compare-and-set on its row under a lease, call an
executor, and settle it in one transaction. A loop in every worker process
replays and times out what was left behind.

### Components, their state and operations

| component (source under `src/`) | state | operations | what makes it correct |
|---|---|---|---|
| Media ingest (`apps/api/.../media-ingest.service.ts`) | multipart upload, video, provider's upload and object | create, sign parts, complete, abort, status | a completed upload is stored, described by the manifest of the request that completed it, and never leaves quarantine without a verdict of its own scan |
| Malware scan worker (`.../media-scan-worker.service.ts`) | scan attempt, video verdict | deliver, claim, reclaim, verdict, fail, heartbeat, recovery | one owner; a verdict is final; every scan settles |
| Source preparation (`.../media-processing-worker.service.ts`, `.../source-preparation-*.ts`) | job, stage, attempts, events | initialize, claim, reclaim in place, complete, fail, heartbeat, recovery, reconcile | one result; rows agree although nothing locks the job; every clean source is prepared or has failed for good, and gets its speech job |
| Speech workflow (`.../speech-workflow-coordinator.service.ts`, `.../speech-processing-worker.service.ts`) | job, stages, attempts, outputs, project selection | claim, complete and unlock, fail and cancel, capacity deferral, heartbeat, recovery | dependency order, one output per stage, one final verdict that agrees with the stages |
| Outbox relay, queue publisher (`.../outbox-relay.service.ts`, `queue-publisher.service.ts`) | outbox events, BullMQ jobs | lease a batch, publish, acknowledge, retry | at-least-once delivery of every committed event |
| Localization (`.../localization.service.ts`) | tracks, revisions, selections, review states | create track, edit, undo, review, glossary, request a generation | optimistic concurrency that misses nothing an editor saw; reviews on the source in force |
| Translation generation worker (`.../translation-generation-worker.service.ts`) | generation row, snapshot | claim, commit, fail and re-queue, heartbeat, recovery | one result, of current selections only |
| Worker runtime loop (`worker-runtime.service.ts`) | none | starts consumers, runs reconcilers, recoveries and the relay in a fixed order | every step runs again and again, whatever a pass throws |
| Executors (`services/ai`, Python), manifest reader | objects in the store, slots of the limiter | admit, compute, upload parts and manifest; read, verify, register | conditional immutable writes: what is registered is what is stored, and a manifest stands for its parts |
| Timeline materializer, partitioner, overlap marks (`.../timeline-materializer.service.ts`, `localization-partitioner.ts`, `speech-analysis-persistence.service.ts`) | none: pure functions | words to turns, turns to dialogues, dialogues to scenes | nothing is lost, invented or reordered at any boundary |
| Web upload client (`apps/web/.../multipart-upload.ts`) | checkpoint in the browser | project, upload, parts, complete; pause, resume, drop a file | the checkpoint names only what the server has; a user who tries again gets through |
| Web localization editor (`apps/web/src/features/localization`) | forms over a page that grows old, generation request keys | open, type, save, review, restore, generate, poll, change the language | no edit is blind; generations do not compete |
| Queries, projects, identity, studio pages | little or none | | see section 7 |

### What is hard about it

* BullMQ delivers at least once: an attempt may be delivered twice, to two
  workers that are both alive, or its delivery may be lost.
* Leases expire under live handlers. A handler that was slow goes on after
  recovery has given its work to another.
* Database transactions alternate with calls of an object store, a scanner and
  model executors, which may succeed without the caller learning it.
* The stages of a job run concurrently, fail concurrently, and one failure
  cancels the others in whatever state they are.
* Editors and generations act on what they read some time ago, and a form may
  keep text while the page around it is read again.
* A user starts again beside what is still under way, and a part of the page that
  is mounted anew forgets what it asked for.
* A call outlives the lease, the attempt or the browser's promise it was made
  for: an executor goes on after its worker gave up, a transfer after its upload
  has failed, and each still writes.
* An exception in one step of a worker's loop skips the steps after it.
* Intervals touch, nest and tie.
* Budgets (attempts, reclaims, capacity deferrals) have a last unit.

`PROJECT.json` lists these hazards with the line where each bites and the
properties that watch it.

## 2. Modules

| module | what it is |
|---|---|
| `WorkflowPipeline` | abstract: what any workflow job promises: outputs committed at most once, in dependency order, and a final verdict |
| `SpeechWorkflow` | the speech job for an arbitrary stage graph, with outbox, relays, deliveries, handlers, leases, recovery and faults; implements `WorkflowPipeline` |
| `SpeechWorkflowProofs` | its theorems |
| `MCSpeechWorkflow` | stage graphs and budgets for TLC |
| `SourcePreparation` | the preparation job and its hand-over to speech analysis; implements `WorkflowPipeline` |
| `SourcePreparationProofs` | its theorems |
| `SourceQuarantine` | abstract: a source is stored once and leaves quarantine once, by the verdict of its scan |
| `MediaScan` | the scan of one source |
| `MediaScanProofs` | its theorems |
| `MediaIngest` | upload requests racing each other and the provider; it has the scan of `MediaScan` as a component and implements `SourceQuarantine` |
| `MediaIngestProofs` | its theorems; those of `MediaScanProofs` are instantiated |
| `UploadClient` | the browser's upload of one file against the server and provider as it sees them |
| `UploadClientProofs` | its theorems |
| `ArtifactExecution` | attempts, the calls of executors they lead to, and the objects these leave |
| `ArtifactExecutionProofs` | its theorems, and those about `SpeechTimeline` |
| `SpeechTimeline` | the pure algorithms from a diarization and a transcript to dialogues and scenes, with their promises |
| `MCArtifactExecution` | attempts, calls and all small timelines for TLC |
| `Localization` | the server's side of one scene: tracks, revisions, selections, reviews and generation snapshots |
| `LocalizationEditor`, `MCLocalization` | the web editor of that scene over `Localization` |
| `LocalizationProofs` | the theorems about both |
| `TranslationGeneration` | the life of a generation row under the worker's loop; implements `WorkflowPipeline` with one stage |
| `TranslationGenerationProofs` | its theorems |

`WorkflowPipeline` is instantiated by three modules; `MediaIngest` instantiates
`MediaScan` and `SourceQuarantine`; `LocalizationEditor` extends `Localization`;
`MCArtifactExecution` extends `ArtifactExecution` and `SpeechTimeline`. No module
uses a `RECURSIVE` operator.

### Correspondence of state and actions

**SpeechWorkflow.** `job`, `stage[s]`, `attempt[a]` are the `status` columns of
`workflow_jobs`, `workflow_stages`, `workflow_stage_attempts`; `lease` and
`expired` stand for `lease_token` and for `leased_until` having passed;
`outputs` for the persisted results; `event`, `eventLease` for the outbox row;
`batch`, `sent` for what a relay holds in memory; `waiting`, `handlers` for
BullMQ and the processes. Each transaction of the coordinator is an action
(`Claim`, `Complete`, `Fail`, `DeferForCapacity`, `Heartbeat`, `TimeOut`,
`ReplayDelivery`); what a process does between two of them is the `phase` of a
handler. `Init` is what `SpeechAnalysisInitializer.initialize` commits. The
coordinator's transactions take the job row's lock, which is why each is atomic.

**SourcePreparation.** The same shape without a job lock and with in-place
reclaims (one per attempt), the verdict that starts it, the reconciler that
starts speech jobs for sources that were prepared before analysis was enabled.

**MediaScan, MediaIngest.** The service holds no lock between its reads, its
calls and its writes, so each of them is a step of a request: a completion reads,
claims `COMPLETING`, calls the provider, verifies by HEAD, and writes; an abort
reads, calls, writes. The provider's upload and object are variables of their
own, and its calls may fail after they took effect.

**UploadClient.** `checkpoint` is the entry in `localStorage`, `run[r]` an attempt
(a call of `uploadMovie`) with its own copy of the checkpoint, the parts not yet
taken and those in flight. Signing, each transfer, each save of the checkpoint
and the completion are steps of their own. `runConcurrent` rejects with the
first failed part and does not stop the other workers: they are the `flight` of
a failed run, and they still save their run's copy over that of the next
attempt. Live attempts overlap too: the file area takes a drop while an upload
is under way (`upload-dialog.tsx:245`), which sets the dialog's phase to idle and
so enables the button, and so does the end of any attempt. `Begin` is therefore
possible beside live attempts, up to the number of `Runs`; it then counts among
the faults. `controller` is the one that the Pause button aborts: the last
attempt's, until any attempt ends and its `finally` clears it. The story ends
with the first attempt that reports the movie uploaded; that a user may then
drop the same file for another project is not part of it. The server's steps are those of `MediaIngest` taken at once; its
responses may be lost after they took effect.

**ArtifactExecution.** `call` are the executions, in their worker and in the
executor; `store[a][p]` is the object at the attempt's key, written at most once
(`If-None-Match: *`; an upload that finds the same content is a success and one
that finds another is a conflict); `active` counts the limiter's slots. The
content of an object is reduced to what its checksum would tell apart. A
preparation is reclaimed under the keys of the call before it, a speech attempt
is called again only after a 429, and `owner` says whose result the attempt will
take. `asyncio.gather` returns with the first failed part and leaves the others
in their threads, which may write after the executor has answered. The attempt's
end (`Records`) and its artifact rows (`Rows`) are written in one transaction,
which does nothing for a worker that is no longer the owner.

**SpeechTimeline.** Operators on sequences of intervals: `Published` and
`Labels` (executor), the checks of the reader, the marks of overlapping turns
(persistence), assignment and grouping of words, the characters and what they
are credited with (materializer), the rows that are written and the order in
which the next stage reads them back (persistence), scenes (partitioner). They
have no state; `MCArtifactExecution` evaluates them, in the initial states of its
run, on every diarization, transcript and list of dialogues within its
bounds, against promises that are stated without the algorithms:
`WordsAreAssigned` (every word is in one dialogue, with the turn that overlaps it
most or, within the tolerance, the nearest), `OverlapsAreMarked` (a dialogue is
marked exactly if it meets speech that two speakers share), `AreScenes` (scenes
are the dialogues in order, and break exactly where a limit or a silence demands
it), and, between them, that each boundary accepts what the one before has let
through (`SurvivesStorage` and the checks of manifests) and that characters are
credited with the words of their dialogues (`CharactersAddUp`).

**Localization, LocalizationEditor.** A revision is its number within its
parent; a selection is the number in force plus its counter. Every service
method is a `Serializable` transaction, hence an action of `Localization`; what
is accepted depends on the counter the caller sends. `LocalizationEditor` is the
caller: `window` is what one user's page shows of the item in use (counter,
revisions, review state), together with the revisions its text was typed from.
Reading the page again (`Refresh`) keeps the text exactly if React keeps the
form, that is, if its key is unchanged. The other users act on what they have
just read: an edit made from an older page is refused, or is the same to the
server. `request[u]` is what the workspace of a track holds: the idempotency key of a
request until that has been answered, then the generation that is watched. Both
are gone when the user chooses another target language, which mounts the
workspace of another track (`localization-editor.tsx:249`), or reloads
(`LeaveWorkspace`); the request goes into `left`, since it may be on its way or
its generation at work. A request of which no answer was heard may reach the
server at any later time, or never (`ArrivesLate`).

**TranslationGeneration.** All attempts share one row; `Release` puts it back in
the queue together with the event of the next attempt. `closing` holds the
tokens a recovery pass has read and not yet acted on. `pass` is the step at which
the loop of one worker process is: replay, read, close, relay; an executor that
is not ready skips the recovery, an exception the rest of the pass. The other
processes take the same steps at any time or never.

Time is a choice everywhere: a lease may expire, a back-off may end, whenever it
has begun.

## 3. Runs

Distinct states are those of the configurations as they stand.

| run | states | shows |
|---|---|---|
| `speech_dag` | 86,103 | the production graph of stages (two concurrent branches, a fan-in, a tail): `DependenciesFirst`, `VerdictMatchesStages`, `TerminalIsFinal`, `ImplementsPipeline` |
| `speech_leases` | 114,464 | one stage, two attempts, a deferral, a fault: `TypeOK`, `StageHasItsAttempt`, `OneOutputPerStage`, `OneOwnerPerStage`, `RetryFollowsFailure`, `JobFinishes` |
| `speech_deferral` | violation | finding 1 |
| `media_scan` | 10,181 | two tries, one reclaim, two faults: `VideoFollowsScan`, `OneScanOwner`, `ScanIsFinal`, `ScanSettles` |
| `media_ingest` | 674,791 | two concurrent requests with different part lists, one of the wrong size: `ObjectMatchesManifest`, `CompletedIsStored`, `VerdictIsFromScan`, `ImplementsQuarantine` |
| `media_abort` | violation | finding 2 |
| `media_recompletion` | violation | finding 3 |
| `source_preparation` | 39,815 | two attempts with a reclaim each, two faults, analysis enabled at any time: `StageFollowsAttempts`, `OneResult`, `BudgetIsUsed`, `ImplementsPipeline`, `PreparationSettles` |
| `artifact_execution` | 711,666 | a preparation, a separation, a transcription and the local character stage through three calls, one slot, two releases, two faults: `RegisteredIsStored`, `ManifestIsMarker`, `OnlyReleasesConflict`, `SaturatedIsBusy`; and, on all small inputs, `TimelineFollowsEvidence`, `DialoguesFollowTurns`, `ScenesPartitionDialogues` |
| `upload_client` | 1,585,462 | four parts in batches of three with two transfers at a time, two overlapping attempts, live or given up, three faults: `CheckpointIsTrue`, `ProjectsAreAccounted`, `UploadFinishes` |
| `localization` | 2,316,260 | two editors, one of them with an aging window, two tracks, two generations, three edits, a glossary entry, a lost or late request or a workspace that is left: `ReviewedIsCurrent`, `NoBlindEdit`, `GenerationsDoNotCompete` |
| `translation_generation` | 668,820 | three attempts, two faults, a followed loop: `QueuedHasItsEvent`, `OneResult`, `ImplementsPipeline`, `GenerationSettles` |

Type invariants are conjuncts of the first property of a run (`TypeOK` of
`ObjectMatchesManifest`, `StageFollowsAttempts`, `SaturatedIsBusy`,
`CheckpointIsTrue`, `ReviewedIsCurrent`, `QueuedHasItsEvent`), and so is what belongs together: one
owner of a claim in `OneResult`, one commit per snapshot in
`GenerationsDoNotCompete`.

Every property of a passing run is violated by at least one plausible bug: the
definitions commented "Mutant of" in the modules, listed in `PROJECT.json`.

### Why the bounds are enough

* `MaxAttempts` 2 or 3, `MaxRecoveries` 1, `MaxDeferrals` 1 are the smallest
  budgets with a unit left, a last unit and none. `speech_dag` has budget 1: its
  questions are about stages failing beside each other, and any failure is final;
  retries are the subject of `speech_leases`.
* `Concurrency` 2 has the zombie of an old lease beside the owner of the new one;
  a third handler of one attempt would repeat the second's role.
* `MaxFaults` bounds crashes, stalls, lost deliveries and refused calls. One or
  two suffice for a fault and a fault of its repair. Expiring leases, duplicated
  replays and late handlers are not faults and are unbounded.
* Two requests in `MediaIngest` are one overtaking another; a completion needs
  five steps, so the interleavings are many.
* `MaxEdits` 3 has a translation, its review or approval, and a change of the
  source; or an edit of each of two tracks and one that invalidates both. One
  line (`Dialogues`) is enough as no transaction but a generation's commit
  touches two; the theorems of section 5 hold for any number of lines and edits.
  `MaxAstray` 1 is a request without an answer and its retry, which it may outrun
  or follow; or a generation that was left behind beside the one asked for next;
  or the first of these turning into the second, when the user leaves before the
  answer. With one scene, a user's requests for several scenes of a track,
  which have a key each, do not occur.
* Four parts in batches of three with two transfers at a time have a full batch,
  whose third part waits in the queue until a worker takes it, a partial one,
  and transfers left over from a failed attempt, one of which takes a part from
  that queue. Two `Runs` are two live attempts, or one beside what another has
  left running; a third attempt begins when one of them is over. `MaxFaults` 3
  are a second attempt beside the first and what goes wrong for each, or a pause
  or abort before it. Five `Projects` are more than three faults can make a
  client create (four), so the bound never stops a creation.
* Three calls with one slot have an owner, a zombie and a refused one; the
  versions are the one of the first call and a release during it.
* Timelines of `Duration` 4 have intervals that touch, nest, tie, leave gaps
  below, at and above the tolerance, and limits that are met exactly.
* Tokens are drawn from a counter that the budgets bound, since every claim
  consumes an attempt, a reclaim or a deferral.

`CHECK_DEADLOCK FALSE` throughout: a job that has ended, a scene whose edits are
used up, may stop.

### Fairness

Weak fairness, never strong, of: the relay's and the recovery queries' steps
(the runtime loop repeats them for ever), timers (back-offs and, for a lease
nobody renews, expiry), consumers taking a waiting delivery, and handlers
ending one way or another (executor calls have timeouts). No fairness of
heartbeats, faults, user requests or a lease's expiry under a live handler.

In `TranslationGeneration` the first of these is derived: the only fairness is
that the followed loop takes its next step, and recovery and relay happen
because the loop comes around to them, although passes are cut short by exceptions
(`PassThrows`) or go without recovery (`PassIsUnready`); the mutant in which an
exception ends the loop (`AfterErrorEnds`) violates `GenerationSettles`. What
remains assumed, there and elsewhere, is that only a finite number of passes
is cut short: `worker-runtime.service.ts:49` runs the relay last, so an error that
persists in an earlier step starves every publication; and that the executors
become ready, for their recoveries are skipped until then.

In `UploadClient`: calls and transfers end (they have no timeout of their own, the
browser's network stack ends them), and a user whose upload has not finished and
has no attempt under way tries again; nothing makes a user start a second one
beside it. Pauses, closed windows and starts beside a live attempt are among the
faults, of which there are finitely many. `UploadFinishes` exempts the states in which the checkpoint itself
stops every attempt; they are the first two observations below.

## 4. Findings

1. **Capacity rejection before acknowledgement** (`speech_deferral`).
   `deferForCapacity` requires the attempt's event to be `PUBLISHED`. A 429 that
   comes back before the relay has recorded the publication, or after recovery has
   set the event back to `PENDING`, rolls the deferral back; the attempt stays
   running until its lease expires and a semantic attempt is spent, which the
   comment above the function and ADR 0010 exclude.
2. **Abort over a completion** (`media_abort`). `abort` writes `ABORTED`
   unconditionally after its provider call; a completion that committed in
   between is overwritten although object and scan exist.
3. **Second completion resets a verdict** (`media_recompletion`).
   `finalizeUpload` writes unconditionally; the slower of two completions of the
   same upload sets an already scanned video back to `PENDING`.

Observations that contradict no stated intention, and are therefore not
findings. On uploads:

* No code sets an upload to `EXPIRED`. A checkpoint that names one past its
  expiry stops every attempt, for signing answers 409 each time.
* A leftover transfer of a failed attempt may save its shorter copy of the
  checkpoint. If the upload is `COMPLETING` by then, the next attempt asks for
  signatures, which are given for `INITIATED` uploads only, and cannot go on.
* A leftover transfer of an aborted upload may save its checkpoint over that of
  the replacement, at the price of another project.

* A file that is dropped once more during an upload lets the user start a second
  attempt beside the first. If the first is waiting for `POST /projects`, there is
  no checkpoint yet, and the second creates another project
  (`ProjectsAreAccounted` counts this as a loss). Later they share the project
  and the upload.
* When one of two attempts ends, the dialog forgets the controller of the other,
  which can then not be paused.

On executions: a preparation that is reclaimed in place after a release of the
executor meets the objects of the release before and conflicts with them, which
spends the attempt. The comment at `media-processing-worker.service.ts:155` keeps
the namespace so that a lost response can be reconciled; the model has that
conflict as the only one there is (`OnlyReleasesConflict`).

On generations: the workspace of a track forgets its keys and the generation it
watches when the user changes the target language and comes back, or reloads.
The button is enabled again, and a second generation of the same scene, or one
for another language, goes to work beside the first. `GenerationsDoNotCompete`
therefore promises one open generation per user only of those the present
workspaces know of. That at most one of the two commits holds in any case, as
the server compares selections.

On localization: `listScenes` reads a page by several queries outside a
transaction, so that a page may pair texts that were never in force together
(the model reads a page in one step); saving a line's source, or a colleague's
change of it, gives the row a new key and silently drops target text that was
not saved; a line that was approved when a generation was requested, and still
is when it commits, gets the generated text as a draft; the first manual
translation of a line may be recorded against a source revision its editor has
not seen, for there is no selection yet whose counter the change of the source
could have moved (hence the exception in `NoBlindEdit`).

Elsewhere: recovery may replay attempt 1's event while the back-off of attempt 2
runs, so that the generation is retried at once; the exhaustion branch of the
generation's `claim` is unreachable (a consequence of `QueuedHasItsEvent`); a
video whose upload was aborted over its completion is not covered by the replay
of lost scan deliveries.

## 5. Proofs

### The speech workflow

`SpeechWorkflowProofs` proves, for every stage graph, budgets, number of
workers, relays and faults that satisfy the assumptions of `SpeechWorkflow`
(`StagesAssumption`, `BoundsAssumption`, `RelayAssumption`):

| theorem | property |
|---|---|
| `TypeCorrect` | `TypeOK` |
| `DependenciesFirstHolds` | `DependenciesFirst` |
| `StageHasItsAttemptHolds` | `StageHasItsAttempt` |
| `VerdictMatchesStagesHolds` | `VerdictMatchesStages` |
| `OneOutputPerStageHolds` | `OneOutputPerStage` |
| `RetryFollowsFailureHolds` | `RetryFollowsFailure` |
| `OneOwnerPerStageHolds` | `OneOwnerPerStage` |
| `TerminalIsFinalHolds` | `TerminalIsFinal` |
| `PipelineRefinement` | `ImplementsPipeline` |

The argument: `WorkflowInv`, the conjunction of `TypeOK`, `InFlight`,
`BlockedIsFresh`, `DependenciesFirst`, `VerdictMatchesStages`,
`OneOutputPerStage` and `RetryFollowsFailure`, is inductive (`Invariance`). None
of the parts is inductive alone. That a completion may unlock the next stage
needs that the stage was never begun (`BlockedIsFresh`); that a late completion
cannot add a second output needs that a stage in flight has exactly one live
attempt, of the matching status, and any other stage has none (`InFlight`),
which in turn relies on a failed job having no stage in flight
(`VerdictMatchesStages`). `OneOwnerPerStage` needs a second invariant on tokens,
`UniqueClaims` (tokens are below the counter, and no two handlers were given the
same one), on top of the first. The action property and the refinement follow
step by step from `WorkflowInv`.

The TLC runs check the properties on the graphs the application uses; the
theorems say that nothing in them depends on that graph, so that adding a stage
or a retry does not endanger them. Apart from their types,
events, relays and BullMQ do not occur in the inductive invariant: safety
depends on the rows and on the locks alone, whatever is lost or duplicated.

### Localization

`LocalizationProofs` proves for every number of lines, languages, users, glossary
entries, generations, edits, lost answers and workspaces that are left
(`LocalizationAssumption`, `EditorAssumption`, `IdleAssumption`):

| theorem | property |
|---|---|
| `ReviewedIsCurrentHolds` | `ReviewedIsCurrent` |
| `NoBlindEditHolds` | `NoBlindEdit` |
| `GenerationsDoNotCompeteHolds` | `GenerationsDoNotCompete` |

`ReviewedIsCurrent` is almost inductive (`ReviewInv`): a change of a source
makes drafts of exactly the translations that have a selection row, so those
without one must be drafts already, and a track whose creation bootstraps the
sources must find nothing under review. `NoBlindEdit` rests on a fact about all
of the server's transactions, `ServerStepAdvances`: each selection is left as it
is or its counter goes up, and a line's source does not change under a
translation whose counter stays. Hence whatever an item shows changes only with
its counter (`CounterStandsForShown`), which turns "the counter I read is in
force" into "what I saw is in force" (`ViewInv`). A refreshed form is covered
because React's key of a form is the very list of revisions its text was made
from (`ViewRead`). The bootstrap is again the delicate case: it gives sources a
counter without touching translations, and must find none (`WorkspaceInv`).

`GenerationsDoNotCompete` uses the same fact about counters (`GenerationInv`). A
commit moves the counter of every translation of its snapshot (`CommittedInv`),
so the snapshot of any other generation that shares one of them cannot commit
any more. A generation that is open is the one named by the request of the user
who asked for it, or one whose request was left behind (`WatchedInv`). A
request whose answer was lost is repeated under its key, a workspace takes a new
key only when it knows of no generation, and a late request is one that is still
known or was left, so that it cannot open a generation beside the one known. `IdleAssumption` says that the value for "no request" is not a request.

### Translation generations

`TranslationGenerationProofs` proves for every attempt budget, number of
concurrent deliveries and of faults (`GenerationAssumption`):

| theorem | property |
|---|---|
| `QueuedHasItsEventHolds` | `QueuedHasItsEvent` |
| `OneResultHolds` | `OneResult` |
| `PipelineRefinement` | `ImplementsPipeline` |

The inductive invariant (`GenerationInv`) says that the tokens of handlers are
distinct and were drawn, that the results are those of one claim exactly when
the row has succeeded, and that the events are those of the attempts made and of
the one that is due. A release is the only step that moves an attempt's event
into existence (`ReleaseKeepsRow`); deliveries, replays, crashes and the loop's
passes change nothing the invariant speaks of (`RowUntouched`). With the attempt
left that a queued row has, `ClaimNothing` never fails a generation, which is
why every failure comes from a running row and the refinement holds.

### Source preparation

`SourcePreparationProofs` proves for every number of attempts, reclaims,
concurrent deliveries and faults (`PreparationAssumption`):

| theorem | property |
|---|---|
| `StageFollowsAttemptsHolds` | `StageFollowsAttempts` |
| `OneResultHolds` | `OneResult` |
| `BudgetIsUsedHolds` | `BudgetIsUsed` |
| `PipelineHolds` | `ImplementsPipeline` |

Nothing locks the job here, so the argument is about attempts: at most one is
live, and it is live exactly while the stage is in flight (`StageInFlight`);
those before it have failed (`Ordered`); tokens are drawn once per attempt
(`TokensDrawn`). Every step is one of few moves of the rows (`Moves`), and the
moves keep `RowsInv`. The compare-and-set on the attempt is what serializes
them: only a step that finds the attempt running, under the token in its row,
moves job, stage and project, and the attempt with them.

### Scan, upload and quarantine

`MediaScanProofs` proves for every budget of tries and reclaims, number of
deliveries and faults (`ScanAssumption`), and `MediaIngestProofs` for every set of
requests and manifests as well (`ManifestAssumption`, `BudgetAssumption`):

| theorem | property |
|---|---|
| `MediaScanProofs.VideoFollowsScanHolds` | `VideoFollowsScan` |
| `MediaScanProofs.OneScanOwnerHolds` | `OneScanOwner` |
| `MediaScanProofs.ScanIsFinalHolds` | `ScanIsFinal` |
| `MediaIngestProofs.ObjectMatchesManifestHolds` | `ObjectMatchesManifest` |
| `MediaIngestProofs.CompletedIsStoredHolds` | `CompletedIsStored` |
| `MediaIngestProofs.VerdictIsFromScanHolds` | `VerdictIsFromScan` |
| `MediaIngestProofs.QuarantineHolds` | `ImplementsQuarantine` |

For a scan alone, `ScanInv` has the types, the tokens (`TokensDrawn`) and
`VideoFollowsScan` itself. With the uploads around it `VideoFollowsScan` is
false, since a late completion writes the video after its verdict (finding 3),
and what is left (`VerdictIsFromScan`) is: a verdict the video does show is the
scan's. The lemmas about the scan's steps are therefore stated without it
(`ScanSafe`, `StepMoves`) and hold for both; `MediaIngestProofs` takes them from
`ScanP == INSTANCE MediaScanProofs`, whose assumption is a lemma here
(`Budgets`).

`IngestInv` says of an upload what its requests rely on between their steps:
that the provider assembles once, from the manifest that was persisted
(`AssembledOnce`), that a request which goes on to the provider has persisted
that very manifest or comes too late to assemble anything, and that one which
has verified the object has found it of the right size (`RequestSound`). Nothing
is said of an `ABORTED` upload, which may have an object after all (finding 2);
the quarantine is therefore stated, and implemented, by the object and its scan
and not by the upload's status.

### Executions and their artifacts

`ArtifactExecutionProofs` proves for every set of attempts, of calls, any number
of parts, releases, capacity and faults (`ExecutionAssumption`, and
`NoneAssumption`: the value for "nothing" is no content, answer or call):

| theorem | property |
|---|---|
| `RegisteredIsStoredHolds` | `RegisteredIsStored` |
| `ManifestIsMarkerHolds` | `ManifestIsMarker` |
| `OnlyReleasesConflictHolds` | `OnlyReleasesConflict` |
| `SaturatedIsBusyHolds` | `SaturatedIsBusy` |

`ExecutionInv` tells from the phase of a call what it has stored
(`CallsConsistent`): in particular, that it reaches the manifest with all parts
stored as it produced them, whether by itself or by another with the same
content. Objects are written once (`WriteOnce`), so what was true of storage
stays true, whatever the calls left behind by others still write. Conflicts need
`OneRuns`: of two calls of one speech attempt one was refused before it produced
anything, hence the only prefix with two writers is that of a preparation; and
`ObjectsHaveCalls`: an object that differs comes from a call, which was of
another release. `SlotsCounted` says that the limiter's counter is the number of
executions under way; it needs that their set is finite, which is proved along
with it.

### The timeline

`ArtifactExecutionProofs` proves of the algorithms of `SpeechTimeline`, for lists of
any length, any times, numbers of speakers, tolerance and limits
(`TimelineAssumption`: all but the tolerance are positive):

| theorem | what it establishes |
|---|---|
| `EveryUnitBelongs` | for exclusive turns that do not meet and words in order, `AssignedUnits` gives every word to the turn it belongs to |
| `WordsBelong` | for any transcript the resolver accepts, `WordsAreAssigned` |
| `SharedSpeechIsMarked` | for regular turns in the order of their start, `OverlapsAreMarked` |
| `ScenesAreCut` | for dialogues that do not meet, `AreScenes` |
| `TimelineIsRight` | the three composed: `WordsBelong` gives what the other two assume of dialogues |
| `PublishedTranscriptIsAccepted` | a transcript of positive intervals that the executor lets through is accepted by the reader and by the resolver |
| `DialoguesFollowTurnsHolds` | `DialoguesFollowTurns` |
| `ScenesPartitionDialoguesHolds` | `ScenesPartitionDialogues` |

The hypotheses are what the boundary before guarantees: positive intervals (the
schemas of the manifests), exclusive turns and segments that do not meet
(`Readable`, `Accepted`), turns in the order of their start and numbered in it.

The algorithms are folds. The library's induction theorems take a predicate as a
parameter, which the provers here cannot instantiate, so induction is proved once
for *sets* of naturals from the well-foundedness of `<` (`Least`, `InductionTo`), and
`FoldRuns` turns a fold into a function on the prefixes of its sequence, each
value one step after the one before. What remains for each algorithm is the
invariant of its loop:

* *Scenes.* The scenes so far hold the dialogues so far, in order; each is within
  its limits; between two of them there is a silence or no room (`ScenesSoFar`).
* *Assignment.* The turns before the cursor are those that begin before the end
  of the last unit; `active` are those of them that end after the last unit's
  start, and `latest` is the last to have ended (`Reached`). It follows that all
  turns a unit overlaps are active, and that the two candidates for the nearest
  turn are `latest` and the one at the cursor, although neither was looked for.
  As exclusive turns do not meet, the order of their starts is that of their
  ends.
* *Grouping.* Every unit so far is in one dialogue, which has its segment and
  its assignment and ends with its last unit; neighbours differ (`Grouped`).
* *Marks.* The two boundaries kept by a sweep are the furthest end reached by any
  speaker and the furthest by another one: each is attained by a turn seen, and
  bounds all turns of its speaker, or of all the rest (`Attained`, `Bounded`).
  Hence "another speaker's boundary lies beyond my start" means that a turn of
  another speaker does. The sweep from the end is the same one in mirrored time,
  so one proof serves both; of two turns that meet each is found by one sweep.
* *Merging and the second cursor.* The intervals cover exactly the marked
  turns' time and are apart (`Merged`), so an interval the cursor has passed
  cannot meet a later dialogue.

### The upload client

`UploadClientProofs` proves for every set of parts and attempts, batch size,
number of projects and faults (`UploadAssumption`, `NoneAssumption`):

| theorem | property |
|---|---|
| `CheckpointIsTrueHolds` | `CheckpointIsTrue` |
| `ProjectsAreAccountedHolds` | `ProjectsAreAccounted` |

The checkpoint is true because every copy that may yet be saved over it is:
those of failed attempts with transfers in flight, and the parts that have
arrived and are not yet in a copy (`RunsSound`). None is invalidated by what
others do, as the server only adds to what it has until an abort (`Grows`), and
what a checkpoint says of an aborted upload is no claim. `ProjectsAreAccounted`
bounds the projects by the losses; being inductive takes the projects that will
be created without another loss (`Accounts`): one by each live attempt that has
none (`Creating`), and, while there is no such attempt and the checkpoint leads
to no usable project (`Adrift`), one by the attempt that begins next. The first
attempt moves the account from the one to the other; another that begins beside
it, still without a checkpoint, is a loss; the creation moves it to the projects
there are. A step that does not create leaves the account as it is, unless it
takes a usable checkpoint away (`AccountsStay`), and those that do are exactly
the losses named in the property's comment.

The proof found an error in the model: the answers of the status query were the
arms of a `CASE` whose guards overlapped, which leaves open the arm that is
taken. They now exclude each other.

### Only model-checked

* Liveness (`JobFinishes`, `ScanSettles`, `PreparationSettles`, `GenerationSettles`,
  `UploadFinishes`), which is out of the prover's reach.
* `TimelineFollowsEvidence`: the executor's ordering of turns and labels, the order
  in which the database returns rows, and the counts of the characters. They are
  stated with `SortSeq` and `SetToSortSeq`, whose definition the prover does not
  expand, so nothing about a list sorted by them can be proved. Its part on
  transcripts that are published and accepted is `PublishedTranscriptIsAccepted`.
* The three findings, which are counterexamples.

Every other property of a passing run is stated by one of the theorems above.

## 6. Plan

What is left, in this order.

1. Two windows that share one upload checkpoint; a localization page whose
   queries are read one after the other.
2. The loop with the parts of all components, so that the assumption about
   exceptions in one part is stated for the others as well.
3. Proofs of the sorted lists, which need a definition of sorting that the
   provers can expand: that what is stored is what is read back, and that
   characters add up.

## 7. Not modelled

* What an executor computes, and the schemas of its manifests: an execution
  succeeds, or fails with a retryable or a fatal error. What the reader verifies
  of the stored objects is in `ArtifactExecution`.
* Texts, names, authorization, tenancy, audit rows. An edit that would not change
  the text is refused by the code and is left out. That two glossary entries of
  a track have no common term is the work of a database trigger and an index.
* The expiry of signed URLs; two windows uploading the same file (they share
  the checkpoint, as attempts of one window do, but each has its own dialog and
  controller); another file dropped during an upload, which has a checkpoint of
  its own; more than two attempts under way at once; ETags that depend on more than the bytes of a part, as they
  do under `aws:kms`.
* Lineage, confidences and the word counts of a track in the result persistence,
  copied field by field inside the completion's transaction.
* Metrics, health checks, configuration parsing, read-only queries.
* Projects and identity: single transactions on single rows.
* The studio pages and the presentation of the web user interface.
