------------------------- MODULE ArtifactExecution -------------------------
(***************************************************************************)
(* The execution of one attempt and the objects it leaves: a worker of the *)
(* control plane claims the attempt and calls a Python executor; this one  *)
(* downloads, computes and uploads parts and then the manifest, every key  *)
(* of the attempt's own prefix written at most once; the worker verifies   *)
(* the objects and registers them with the attempt.                        *)
(*                                                                         *)
(* Calls outlive their lease: the worker that gives up does not stop the   *)
(* executor.  A preparation is reclaimed in place, under the same keys; a  *)
(* speech attempt is called again only after a refusal for capacity.       *)
(* Leases, budgets and deliveries are those of SourcePreparation and       *)
(* SpeechWorkflow, of which the owner of an attempt is what is left here.  *)
(*                                                                         *)
(* The content of an output is what its checksum and metadata tell apart:  *)
(* the executor's version for a preparation, which is deterministic, the   *)
(* call itself for a model's output, nothing for the resolved characters.  *)
(***************************************************************************)
EXTENDS Naturals, FiniteSets

CONSTANTS
    Media,      \* attempts at source preparation
    Speech,     \* attempts of the separation, transcription, diarization
    Local,      \* attempts at character identification, without executor
    Stems,      \* Stems[a]: audio files the attempt uploads beside its manifest
    Calls,      \* executions; each is made once
    Versions,   \* releases of the executor
    None,
    Capacity,   \* speech_max_concurrency
    MaxFaults   \* bound on faults

ASSUME ExecutionAssumption ==
    /\ Media \cap Speech = {} /\ Media \cap Local = {} /\ Speech \cap Local = {}
    /\ Stems \in [Media \cup Speech \cup Local -> Nat]
    /\ \A a \in Local : Stems[a] = 0
    /\ Capacity \in Nat \ {0}
    /\ MaxFaults \in Nat

Attempts == Media \cup Speech \cup Local

VARIABLES
    status,     \* status of the attempt
    owner,      \* the call whose worker holds the attempt's lease
    registered, \* content of the artifact rows, None without rows
    store,      \* store[a][p]: object p under the attempt's prefix
    call,       \* calls, in their worker and in the executor
    active,     \* slots of the limiter that are taken
    deployed,   \* release that takes new calls
    faults      \* faults injected so far

attemptVars == <<status, owner, registered>>
vars == <<attemptVars, store, call, active, deployed, faults>>

Manifest == 0
Parts(a) == 1 .. Stems[a]
Objects(a) == {Manifest} \cup Parts(a)

Contents == Calls \cup Versions \cup {"resolved"}
Failures == {"conflict", "retryable", "fatal"}
CallRecord == [
    attempt : Attempts,
    worker : {"waiting", "verified", "gone"},
    phase : {"sent", "executing", "uploading", "marking", "answered", "dead"},
    content : Contents \cup {None},
    pending : SUBSET Nat,
    failures : SUBSET (Nat \X Failures),
    answer : Failures \cup {None, "done", "saturated"}]

(* Nothing is no content, no answer and no call.                           *)
ASSUME NoneAssumption ==
    /\ None \notin Contents \cup Failures \cup {"done", "saturated"}
    /\ None \notin CallRecord

TypeOK ==
    /\ status \in [Attempts -> {"queued", "running", "succeeded", "failed"}]
    /\ owner \in [Attempts -> Calls \cup {None}]
    /\ registered \in [Attempts -> Contents \cup {None}]
    /\ \A a \in Attempts : store[a] \in [Objects(a) -> Contents \cup {None}]
    /\ \A c \in Calls : call[c] # None => call[c] \in CallRecord
    /\ active \in 0 .. Capacity
    /\ deployed \in Versions
    /\ faults \in 0 .. MaxFaults

Init ==
    /\ status = [a \in Attempts |-> "queued"]
    /\ owner = [a \in Attempts |-> None]
    /\ registered = [a \in Attempts |-> None]
    /\ store = [a \in Attempts |-> [p \in Objects(a) |-> None]]
    /\ call = [c \in Calls |-> None]
    /\ active = 0
    /\ deployed \in Versions
    /\ faults = 0

Fault == faults < MaxFaults /\ faults' = faults + 1

In(c, phase) == call[c] # None /\ call[c].phase = phase

-----------------------------------------------------------------------------
(* The attempt is claimed                                                  *)

(* What is asked of the executor under the prefix of the attempt.          *)
Request(a) ==
    [attempt |-> a, worker |-> "waiting", phase |-> "sent", content |-> None,
     pending |-> {}, failures |-> {}, answer |-> None]

(* The characters call nobody: what the worker has resolved it stores.     *)
Resolved(a) == [Request(a) EXCEPT !.phase = "marking", !.content = "resolved"]

Starts(c, a) ==
    /\ call[c] = None
    /\ call' = [call EXCEPT ![c] = IF a \in Local THEN Resolved(a) ELSE Request(a)]
    /\ status' = [status EXCEPT ![a] = "running"]
    /\ owner' = [owner EXCEPT ![a] = c]
    /\ UNCHANGED <<registered, store, active, deployed>>

Claim(c, a) ==
    /\ status[a] = "queued"
    /\ Starts(c, a)
    /\ UNCHANGED faults

(* Only a preparation is taken over by another delivery when its lease has *)
(* expired, with the prefix of the first.                                  *)
Reclaim(c, a) ==
    /\ a \in Media
    /\ status[a] = "running"
    /\ Starts(c, a)
    /\ Fault

(* The others end with their lease, and a preparation does after its last  *)
(* recovery.                                                               *)
TimeOut(a) ==
    /\ status[a] = "running"
    /\ Fault
    /\ status' = [status EXCEPT ![a] = "failed"]
    /\ owner' = [owner EXCEPT ![a] = None]
    /\ UNCHANGED <<registered, store, call, active, deployed>>

-----------------------------------------------------------------------------
(* The executor                                                            *)

(* Mutant of Freed: a slot is kept by an execution that fails.             *)
FreedIfDone(c, answer) ==
    IF call[c].attempt \in Speech /\ answer = "done" THEN active - 1 ELSE active

(* The slot is given back however the execution ends.                      *)
Freed(c, answer) == IF call[c].attempt \in Speech THEN active - 1 ELSE active

Answers(c, answer) ==
    /\ call' = [call EXCEPT ![c].phase = "answered", ![c].answer = answer]
    /\ active' = Freed(c, answer)

ContentOf(c) == IF call[c].attempt \in Media THEN deployed ELSE c

(* Execution begins if there is room; preparations are not counted.        *)
Admit(c) ==
    /\ In(c, "sent")
    /\ call[c].attempt \in Speech => active < Capacity
    /\ active' = IF call[c].attempt \in Speech THEN active + 1 ELSE active
    /\ call' = [call EXCEPT ![c].phase = "executing", ![c].content = ContentOf(c)]
    /\ UNCHANGED <<attemptVars, store, deployed, faults>>

(* A refusal: nothing has been written under the prefix.                   *)
Replies(c, answer) ==
    /\ In(c, "sent")
    /\ call' = [call EXCEPT ![c].phase = "answered", ![c].answer = answer]
    /\ UNCHANGED <<attemptVars, store, active, deployed, faults>>

(* The request is not authorized, or too large (4xx); or the executor is   *)
(* not configured for it (503).                                            *)
Forbidden(c) == Replies(c, "fatal") \/ Replies(c, "retryable")

ProviderNotReady(c) == call[c].attempt \in Speech /\ Replies(c, "retryable")

(* Another model serves than the one the attempt names, or the input is    *)
(* beyond the limits.                                                      *)
ModelMismatch(c) == call[c].attempt \in Speech /\ Replies(c, "fatal")
InputTooLarge(c) == call[c].attempt \in Speech /\ Replies(c, "fatal")

Saturated(c) ==
    /\ call[c].attempt \in Speech
    /\ active = Capacity
    /\ Replies(c, "saturated")

(* An execution that fails has its workspace removed, and its slot freed.  *)
Fails(c, answer) ==
    /\ In(c, "executing")
    /\ Answers(c, answer)
    /\ UNCHANGED <<attemptVars, store, deployed, faults>>

(* Scratch space is not available (507).                                   *)
NoWorkspace(c) == Fails(c, "retryable")

(* The input is not in storage or not what its row says (4xx); or it could *)
(* not be read or written to scratch space (5xx).                          *)
DownloadFails(c) == Fails(c, "fatal") \/ Fails(c, "retryable")

(* The deadline of the model passes (504) or it fails (502).               *)
ProviderFails(c) == call[c].attempt \in Speech /\ Fails(c, "retryable")

(* What the model has written is not what it says, or breaks the timeline  *)
(* (5xx), or is too large (413).                                           *)
OutputInvalid(c) ==
    /\ call[c].attempt \in Speech
    /\ Fails(c, "retryable") \/ Fails(c, "fatal")

(* A source without usable streams, or beyond the limits (4xx).            *)
SourceRejected(c) == call[c].attempt \in Media /\ Fails(c, "fatal")

(* The tools fail or run into their deadline (422, 5xx).                   *)
TranscodingFails(c) ==
    /\ call[c].attempt \in Media
    /\ Fails(c, "retryable") \/ Fails(c, "fatal")

(* Mutant of Produce: the manifest is uploaded together with the parts.    *)
ProduceAll(c) ==
    /\ In(c, "executing")
    /\ call' = [call EXCEPT ![c].phase = "uploading",
                            ![c].pending = Objects(call[c].attempt)]
    /\ UNCHANGED <<attemptVars, store, active, deployed, faults>>

(* The outputs are validated and hashed, and their uploads begin.          *)
Produce(c) ==
    /\ In(c, "executing")
    /\ call' = [call EXCEPT ![c].phase = "uploading",
                            ![c].pending = Parts(call[c].attempt)]
    /\ UNCHANGED <<attemptVars, store, active, deployed, faults>>

(* A conditional PUT: what is there stays.                                 *)
Written(c, p) ==
    [store EXCEPT ![call[c].attempt][p] = IF @ = None THEN call[c].content ELSE @]

(* The key is free, or its object equals the one to upload.                *)
Matches(c, p) == store[call[c].attempt][p] \in {None, call[c].content}

(* The end of one upload: stored or found; refused because another object  *)
(* is there; or failed, with or without effect.                            *)
Puts(c, p, result) ==
    \/ /\ result = "stored"
       /\ Matches(c, p)
       /\ store' = Written(c, p)
       /\ UNCHANGED faults
    \/ /\ result = "conflict"
       /\ ~Matches(c, p)
       /\ UNCHANGED <<store, faults>>
    \/ /\ result = "retryable"
       /\ store' \in {store, Written(c, p)}
       /\ Fault

UploadPart(c, p, result) ==
    /\ In(c, "uploading")
    /\ p \in call[c].pending
    /\ Puts(c, p, result)
    /\ call' = [call EXCEPT ![c].pending = @ \ {p},
                            ![c].failures = IF result = "stored" THEN @
                                            ELSE @ \cup {<<p, result>>}]
    /\ UNCHANGED <<attemptVars, active, deployed>>

(* Speech waits for all its uploads, then the failure of the first part    *)
(* is the answer.                                                          *)
UploadsDrained(c) ==
    /\ In(c, "uploading")
    /\ call[c].attempt \in Speech
    /\ call[c].pending = {}
    /\ \E f \in call[c].failures :
         /\ \A g \in call[c].failures : f[1] <= g[1]
         /\ Answers(c, f[2])
    /\ UNCHANGED <<attemptVars, store, deployed, faults>>

(* A preparation ends with the first failure.                              *)
UploadsAbandoned(c) ==
    /\ In(c, "uploading")
    /\ call[c].attempt \in Media
    /\ \E f \in call[c].failures : Answers(c, f[2])
    /\ UNCHANGED <<attemptVars, store, deployed, faults>>

(* An upload that the failed preparation has left running in its thread.   *)
StrayUpload(c, p) ==
    /\ In(c, "answered")
    /\ p \in call[c].pending
    /\ store' \in {store, Written(c, p)}
    /\ call' = [call EXCEPT ![c].pending = @ \ {p}]
    /\ UNCHANGED <<attemptVars, active, deployed, faults>>

PartsStored(c) ==
    /\ In(c, "uploading")
    /\ call[c].pending = {}
    /\ call[c].failures = {}
    /\ call' = [call EXCEPT ![c].phase = "marking"]
    /\ UNCHANGED <<attemptVars, store, active, deployed, faults>>

(* The manifest marks the outputs as complete, and the executor answers.   *)
Mark(c, result) ==
    /\ In(c, "marking")
    /\ Puts(c, Manifest, result)
    /\ Answers(c, IF result = "stored" THEN "done" ELSE result)
    /\ UNCHANGED <<attemptVars, deployed>>

(* The executor dies with all it does; new ones start.                     *)
Crash ==
    /\ Fault
    /\ call' = [c \in Calls |->
         IF call[c] = None \/ call[c].attempt \in Local THEN call[c]
         ELSE [call[c] EXCEPT !.pending = {},
                              !.phase = IF @ = "answered" THEN @ ELSE "dead"]]
    /\ active' = 0
    /\ UNCHANGED <<attemptVars, store, deployed>>

(* A release is rolled out: executions under way go on.                    *)
Deploy(v) ==
    /\ v # deployed
    /\ deployed' = v
    /\ Fault
    /\ UNCHANGED <<attemptVars, store, call, active>>

-----------------------------------------------------------------------------
(* The worker                                                              *)

Owns(c) == LET a == call[c].attempt IN status[a] = "running" /\ owner[a] = c

(* The attempt gets the status if its lease is still the call's.           *)
Records(c, to) ==
    LET a == call[c].attempt
    IN  /\ status' = IF Owns(c) THEN [status EXCEPT ![a] = to] ELSE status
        /\ owner' = IF Owns(c) THEN [owner EXCEPT ![a] = None] ELSE owner

Settles(c, to) == Records(c, to) /\ call' = [call EXCEPT ![c].worker = "gone"]

(* The worker does not find the input of its attempt, or not as audio or   *)
(* evidence it can use, and asks nobody for anything.                      *)
InputMissing(c) ==
    /\ In(c, IF call[c].attempt \in Local THEN "marking" ELSE "sent")
    /\ call[c].worker = "waiting"
    /\ Fault
    /\ Records(c, "failed")
    /\ call' = [call EXCEPT ![c].worker = "gone", ![c].phase = "dead"]
    /\ UNCHANGED <<registered, store, active, deployed>>

(* The request times out, is aborted with the lease or loses its           *)
(* connection, or the response is unusable; or storage or database refuse  *)
(* the worker.                                                             *)
GiveUp(c) ==
    /\ call[c] # None
    /\ call[c].worker # "gone"
    /\ IF call[c].phase = "dead" THEN UNCHANGED faults ELSE Fault
    /\ Settles(c, "failed")
    /\ UNCHANGED <<registered, store, active, deployed>>

Hears(c, answers) ==
    /\ In(c, "answered")
    /\ call[c].worker = "waiting"
    /\ call[c].answer \in answers
    /\ UNCHANGED <<store, active, deployed, faults>>

(* Mutant of Deferrable: whatever may be retried is retried in place.      *)
DeferrableAny == {"saturated", "retryable"}

(* The answers after which the attempt is queued again as it is.           *)
Deferrable == {"saturated"}

Defer(c) ==
    /\ Hears(c, Deferrable)
    /\ Settles(c, "queued")
    /\ UNCHANGED registered

(* Any failure, and a refusal beyond the limit of deferrals.               *)
HearFailure(c) ==
    /\ Hears(c, Failures \cup {"saturated"})
    /\ Settles(c, "failed")
    /\ UNCHANGED registered

(* Every object of the answer is looked up; its metadata name the content. *)
Verified(c) ==
    \A p \in Objects(call[c].attempt) :
        store[call[c].attempt][p] = call[c].content

VerificationFails(c) ==
    /\ Hears(c, {"done"})
    /\ ~Verified(c)
    /\ Settles(c, "failed")
    /\ UNCHANGED registered

(* The answer is not what was asked for: other model, artifacts or formats *)
(* than the attempt's.                                                     *)
ContractBroken(c) ==
    /\ call[c].phase = "answered"
    /\ call[c].answer = "done"
    /\ call[c].worker = "waiting"
    /\ call[c].attempt \in Speech
    /\ Fault
    /\ Settles(c, "failed")
    /\ UNCHANGED <<registered, store, active, deployed>>

(* The manifest of a speech attempt is larger than the worker reads, or    *)
(* not one of this attempt, input, model and duration.                     *)
ManifestRejected(c) ==
    /\ call[c].phase = "answered"
    /\ call[c].answer = "done"
    /\ call[c].worker = "waiting"
    /\ call[c].attempt \in Speech
    /\ Verified(c)
    /\ Fault
    /\ Settles(c, "failed")
    /\ UNCHANGED <<registered, store, active, deployed>>

(* The memory for manifests is taken by others: a finished run fails.      *)
ReadRefused(c) ==
    /\ Hears(c, {"done"})
    /\ call[c].attempt \in Speech
    /\ Verified(c)
    /\ Settles(c, "failed")
    /\ UNCHANGED registered

(* The manifest of a speech attempt is read as well, and is the one of the *)
(* answer.                                                                 *)
Verify(c) ==
    /\ Hears(c, {"done"})
    /\ Verified(c)
    /\ call' = [call EXCEPT ![c].worker = "verified"]
    /\ UNCHANGED attemptVars

(* The rows of the artifacts, with what was verified.                      *)
Rows(c) == [registered EXCEPT ![call[c].attempt] = call[c].content]

(* Mutant of Register: the rows are written whoever owns the attempt.      *)
RegisterUnowned(c) ==
    /\ call[c] # None
    /\ call[c].worker = "verified"
    /\ Settles(c, "succeeded")
    /\ registered' = Rows(c)
    /\ UNCHANGED <<store, active, deployed, faults>>

(* Attempt and artifact rows in one transaction, for the owner alone.      *)
Register(c) ==
    /\ call[c] # None
    /\ call[c].worker = "verified"
    /\ Settles(c, "succeeded")
    /\ registered' = IF Owns(c) THEN Rows(c) ELSE registered
    /\ UNCHANGED <<store, active, deployed, faults>>

-----------------------------------------------------------------------------
Results == {"stored", "conflict", "retryable"}

Refused(c) ==
    \/ Forbidden(c)
    \/ ProviderNotReady(c)
    \/ ModelMismatch(c)
    \/ InputTooLarge(c)
    \/ Saturated(c)

Failed(c) ==
    \/ NoWorkspace(c)
    \/ DownloadFails(c)
    \/ ProviderFails(c)
    \/ OutputInvalid(c)
    \/ SourceRejected(c)
    \/ TranscodingFails(c)
    \/ UploadsDrained(c)
    \/ UploadsAbandoned(c)

Executor(c) ==
    \/ Refused(c)
    \/ Failed(c)
    \/ Admit(c)
    \/ Produce(c)
    \/ \E p \in Objects(call[c].attempt), result \in Results : UploadPart(c, p, result)
    \/ \E p \in Objects(call[c].attempt) : StrayUpload(c, p)
    \/ PartsStored(c)
    \/ \E result \in Results : Mark(c, result)

Worker(c) ==
    \/ InputMissing(c)
    \/ GiveUp(c)
    \/ Defer(c)
    \/ HearFailure(c)
    \/ VerificationFails(c)
    \/ ContractBroken(c)
    \/ ManifestRejected(c)
    \/ ReadRefused(c)
    \/ Verify(c)
    \/ Register(c)

Next ==
    \/ \E c \in Calls, a \in Attempts : Claim(c, a) \/ Reclaim(c, a)
    \/ \E c \in Calls : call[c] # None /\ (Executor(c) \/ Worker(c))
    \/ \E a \in Attempts : TimeOut(a)
    \/ Crash
    \/ \E v \in Versions : Deploy(v)

Spec == Init /\ [][Next]_vars

-----------------------------------------------------------------------------
(* Properties                                                              *)

(* The rows of a finished attempt describe what is in storage, for good:   *)
(* no zombie, stray upload or other release changes an object after it has *)
(* been verified.                                                          *)
RegisteredIsStored ==
    \A a \in Attempts :
        registered[a] # None =>
            /\ status[a] = "succeeded"
            /\ \A p \in Objects(a) : store[a][p] = registered[a]

(* "The manifest is uploaded last and therefore acts as the immutable      *)
(* completeness marker": where there is one, every part it lists is there  *)
(* and is the part it lists, though several executions share the prefix.   *)
ManifestIsMarker ==
    \A a \in Attempts :
        store[a][Manifest] # None =>
            \A p \in Parts(a) : store[a][p] = store[a][Manifest]

Conflicts(k) == k.answer = "conflict" \/ \E f \in k.failures : f[2] = "conflict"

(* An upload meets a different object only if two releases have prepared   *)
(* the same attempt.  Otherwise a preparation that is called again finds   *)
(* its own objects, and a model runs once at most per prefix.              *)
OnlyReleasesConflict ==
    \A c \in Calls :
        call[c] # None /\ Conflicts(call[c]) =>
            /\ call[c].attempt \in Media
            /\ \E d \in Calls :
                 /\ call[d] # None
                 /\ call[d].attempt = call[c].attempt
                 /\ call[d].content \notin {None, call[c].content}

(* The limiter refuses a call only while Capacity executions are running:  *)
(* no way for one to end, crash or fail keeps its slot or gives it back    *)
(* twice.                                                                  *)
SaturatedIsBusy ==
    /\ TypeOK
    /\ active = Cardinality({c \in Calls :
         /\ call[c] # None
         /\ call[c].attempt \in Speech
         /\ call[c].phase \in {"executing", "uploading", "marking"}})
=============================================================================
