---------------------------- MODULE UploadClient ----------------------------
(***************************************************************************)
(* The browser's side of an upload: uploadMovie runs the calls of one      *)
(* attempt and keeps in localStorage a checkpoint from which the next      *)
(* attempt, after a pause, an error or a closed window, goes on.           *)
(*                                                                         *)
(* An attempt that fails rejects at once and leaves its other transfers    *)
(* running, each of which still saves the attempt's own copy of the        *)
(* checkpoint; the user's next attempt overlaps with them.  So may two     *)
(* live attempts: a file dropped during an upload makes the dialog idle,   *)
(* and the same file again goes on from the same checkpoint.               *)
(*                                                                         *)
(* The server is the one of MediaIngest, seen through its responses, with  *)
(* its steps taken at once.  A project has one upload; the idempotency key *)
(* is stored with the project and stands for it.  The ETag of a part is    *)
(* taken to depend on its bytes alone, as it does without aws:kms.         *)
(***************************************************************************)
EXTENDS Naturals, FiniteSets

CONSTANTS
    Runs,         \* attempts alive at a time, with the transfers they left
    Projects,     \* bound on the projects: 1, 2, ...
    PartCount,
    BatchSize,    \* parts signed by one call
    Concurrency,  \* transfers of an attempt at a time
    None,
    MaxFaults     \* bound on faults, pauses and starts beside a live attempt

ASSUME UploadAssumption ==
    /\ {PartCount, BatchSize, Concurrency} \subseteq Nat \ {0}
    /\ Projects \subseteq Nat \ {0} /\ None \notin Projects \cup Runs
    /\ MaxFaults \in Nat

Parts == 1 .. PartCount

VARIABLES
    upload,     \* server: state of the project's upload, "absent" projects
    stored,     \* provider: parts of the multipart upload
    expired,    \* uploads that are past expiresAt
    checkpoint, \* localStorage
    run,        \* the attempts
    controller, \* the attempt that the dialog can pause
    faults,     \* faults injected so far
    losses      \* events that make an attempt miss the client's project

serverVars == <<upload, stored, expired>>
vars == <<serverVars, checkpoint, run, controller, faults, losses>>

Checkpoint == [project : Projects \cup {None}, upload : BOOLEAN, parts : SUBSET Parts]
NewCheckpoint == [project |-> None, upload |-> FALSE, parts |-> {}]

(* Having no entry in the browser's storage is no checkpoint.              *)
ASSUME NoneAssumption == None \notin Checkpoint

Live == {"starting", "signing", "transferring", "completing"}

(* copy: the attempt's checkpoint; queue, flight: parts not yet taken by a *)
(* worker of runConcurrent, and those being transferred; arrived: those of *)
(* them that the provider has, and the client has not heard of it.         *)
Run == [phase : Live \cup {"idle", "done", "failed"}, copy : Checkpoint,
        queue : SUBSET Parts, flight : SUBSET Parts, arrived : SUBSET Parts,
        paused : BOOLEAN]

IdleRun == [phase |-> "idle", copy |-> NewCheckpoint, queue |-> {},
            flight |-> {}, arrived |-> {}, paused |-> FALSE]

TypeOK ==
    /\ upload \in [Projects -> {"absent", "none", "initiated", "completing",
                                "completed", "aborted"}]
    /\ stored \in [Projects -> SUBSET Parts]
    /\ expired \in SUBSET Projects
    /\ checkpoint \in Checkpoint \cup {None}
    /\ run \in [Runs -> Run]
    /\ controller \in Runs \cup {None}
    /\ faults \in 0 .. MaxFaults /\ losses \in Nat

Init ==
    /\ upload = [p \in Projects |-> "absent"]
    /\ stored = [p \in Projects |-> {}]
    /\ expired = {}
    /\ checkpoint = None
    /\ run = [r \in Runs |-> IdleRun]
    /\ controller = None
    /\ faults = 0
    /\ losses = 0

Fault == faults < MaxFaults /\ faults' = faults + 1
LossIf(missed) == losses' = IF missed THEN losses + 1 ELSE losses
NoLoss == LossIf(FALSE)
NoFault == UNCHANGED <<faults, losses>>

In(r, phase) == run[r].phase = phase
Project(r) == run[r].copy.project
Finished == \E r \in Runs : In(r, "done")

(* No attempt is under way; transfers of earlier ones may be.              *)
AtRest == \A r \in Runs : run[r].phase \notin Live

(* Attempts that will create a project, each.                              *)
Creating == {r \in Runs : In(r, "starting") /\ Project(r) = None}

(* The next attempt goes on with a project from this checkpoint.           *)
Usable(c) == c # None /\ c.project # None /\ upload[c.project] # "aborted"

(* The first n of a set of parts.                                          *)
FirstOf(n, S) == {p \in S : Cardinality({q \in S : q < p}) < n}

-----------------------------------------------------------------------------
(* The dialog                                                              *)

(* Start or continue.  The button that an upload disables is enabled by a  *)
(* drop and by the end of any attempt: others may be under way.  Which of  *)
(* the unused runs it takes makes no difference.                           *)
Begin(r) ==
    /\ In(r, "idle")
    /\ r = CHOOSE q \in Runs : In(q, "idle")
    /\ ~Finished
    /\ run' = [run EXCEPT ![r] =
         [IdleRun EXCEPT !.phase = "starting",
                         !.copy = IF checkpoint = None THEN NewCheckpoint
                                  ELSE checkpoint]]
    /\ controller' = r
    /\ IF AtRest THEN UNCHANGED faults ELSE Fault
    /\ LossIf(checkpoint = None /\ Creating # {})
    /\ UNCHANGED <<serverVars, checkpoint>>

GoesOn(r, phase) == run' = [run EXCEPT ![r].phase = phase] /\ UNCHANGED controller

(* An attempt without transfers ends, and the dialog lets go of the        *)
(* controller that it has, were it another attempt's.                      *)
Ends(r, phase) ==
    /\ run' = [run EXCEPT ![r] = [IdleRun EXCEPT !.phase = phase]]
    /\ controller' = None

Fails(r) == Ends(r, "idle")

(* Pause aborts the signal of the attempt: its transfers end, whether they *)
(* have arrived or not; a call to the server goes on.                      *)
Pause(r) ==
    /\ controller = r
    /\ ~run[r].paused
    /\ Fault
    /\ IF run[r].flight = {}
       THEN run' = [run EXCEPT ![r].paused = TRUE] /\ UNCHANGED controller
       ELSE Fails(r)
    /\ NoLoss
    /\ UNCHANGED <<serverVars, checkpoint>>

(* The window is closed or reloaded.                                       *)
CloseWindow ==
    /\ ~AtRest
    /\ Fault
    /\ run' = [r \in Runs |-> IF In(r, "done") THEN run[r] ELSE IdleRun]
    /\ controller' = None
    /\ NoLoss
    /\ UNCHANGED <<serverVars, checkpoint>>

-----------------------------------------------------------------------------
(* The calls of an attempt                                                 *)

(* A call fails without effect.                                            *)
CallFails(r) ==
    /\ run[r].phase \in Live \ {"transferring"}
    /\ Fault
    /\ Fails(r)
    /\ NoLoss
    /\ UNCHANGED <<serverVars, checkpoint>>

(* The attempt's copy is saved, over whatever another attempt has saved.   *)
Saved(copy) ==
    /\ checkpoint' = copy
    /\ LossIf(Usable(checkpoint) /\ ~Usable(copy))
    /\ UNCHANGED faults

(* The storage refuses it.                                                 *)
Refused(missed) == Fault /\ LossIf(missed) /\ UNCHANGED checkpoint

Takes(r, copy) == run' = [run EXCEPT ![r].copy = copy] /\ UNCHANGED controller

(* Mutant of SavesProject: the project is saved with the upload.           *)
SavesProjectLate(r, copy) ==
    Takes(r, copy) /\ UNCHANGED <<checkpoint, faults, losses>>

SavesProject(r, copy) == Takes(r, copy) /\ (Saved(copy) \/ Refused(TRUE))

(* A call that has its effect, and its response is lost.                   *)
Unheard(r) == Fails(r) /\ UNCHANGED checkpoint

EnsureProject(r) ==
    /\ r \in Creating
    /\ \E p \in Projects :
         /\ upload[p] = "absent"
         /\ \A q \in Projects : q < p => upload[q] # "absent"
         /\ upload' = [upload EXCEPT ![p] = "none"]
         /\ \/ SavesProject(r, [run[r].copy EXCEPT !.project = p])
            \/ Unheard(r) /\ Fault /\ LossIf(TRUE)
    /\ UNCHANGED <<stored, expired>>

(* The key finds the upload of an earlier call, whatever its state.        *)
EnsureMultipartUpload(r) ==
    LET copy == [run[r].copy EXCEPT !.upload = TRUE]
    IN  /\ In(r, "starting")
        /\ Project(r) # None
        /\ ~run[r].copy.upload
        /\ upload' = [upload EXCEPT ![Project(r)] = IF @ = "none" THEN "initiated" ELSE @]
        /\ \/ Takes(r, copy) /\ (Saved(copy) \/ Refused(FALSE))
           \/ Unheard(r) /\ Fault /\ NoLoss
        /\ UNCHANGED <<stored, expired>>

(* What there is to do for an attempt that has all its parts, or has not.  *)
Remaining(r) == IF run[r].copy.parts = Parts THEN "completing" ELSE "signing"

(* Mutant of Forgets: the checkpoint of an aborted upload is kept.         *)
ForgetsCompleted(status) == status = "completed"

(* The states of an upload in which its checkpoint is removed.             *)
Forgets(status) == status \notin {"initiated", "completing"}

CheckStatus(r) ==
    LET status == upload[Project(r)]
    IN  /\ In(r, "starting")
        /\ run[r].copy.upload
        /\ checkpoint' = IF Forgets(status) THEN None ELSE checkpoint
        /\ LossIf(status = "aborted" /\ Usable(checkpoint) /\ checkpoint' = None)
        /\ CASE status = "completed" -> Ends(r, "done")
             [] status = "aborted" -> Fails(r)
             [] OTHER -> GoesOn(r, Remaining(r))
        /\ UNCHANGED <<serverVars, faults>>

(* The server signs for an upload that is INITIATED and in time.           *)
SignParts(r) ==
    LET batch == FirstOf(BatchSize, Parts \ run[r].copy.parts)
        taken == FirstOf(Concurrency, batch)
        p == Project(r)
    IN  /\ In(r, "signing")
        /\ IF ~run[r].paused /\ upload[p] = "initiated" /\ p \notin expired
           THEN /\ run' = [run EXCEPT ![r].phase = "transferring",
                                       ![r].queue = batch \ taken, ![r].flight = taken]
                /\ UNCHANGED controller
           ELSE Fails(r)
        /\ UNCHANGED <<serverVars, checkpoint>>
        /\ NoFault

-----------------------------------------------------------------------------
(* Transfers, also those of an attempt that has failed                     *)

Open(p) == upload[p] \in {"initiated", "completing"}

(* Mutant of Stores: a part counts although its transfer had no effect.    *)
StoresMaybe(r, p) == stored' \in {stored, [stored EXCEPT ![Project(r)] = @ \cup {p}]}

Stores(r, p) == stored' = [stored EXCEPT ![Project(r)] = @ \cup {p}]

PartArrives(r, p) ==
    /\ p \in run[r].flight \ run[r].arrived
    /\ Open(Project(r))
    /\ Stores(r, p)
    /\ run' = [run EXCEPT ![r].arrived = @ \cup {p}]
    /\ UNCHANGED <<upload, expired, checkpoint, controller>>
    /\ NoFault

(* A rejected attempt is over when its last transfer is.                   *)
Kept(x) == IF x.phase = "failed" /\ x.flight = {} THEN IdleRun ELSE x

(* The worker of a part takes the next one.                                *)
TakeNext(r, p, copy) ==
    LET next == FirstOf(1, run[r].queue)
        x == [run[r] EXCEPT !.copy = copy, !.arrived = @ \ {p},
                            !.flight = (@ \ {p}) \cup next, !.queue = @ \ next]
    IN  run' = [run EXCEPT ![r] = Kept(x)]

SavePart(r, p) ==
    LET copy == [run[r].copy EXCEPT !.parts = @ \cup {p}]
    IN  /\ p \in run[r].arrived
        /\ TakeNext(r, p, copy)
        /\ Saved(copy) \/ Refused(FALSE)
        /\ UNCHANGED <<serverVars, controller>>

(* The third try of a part fails, or its response is lost, or the provider *)
(* has closed the upload.  The worker ends, and with it the attempt; the   *)
(* others go on, as long as there is one.                                  *)
TransferFails(r, p) ==
    /\ p \in run[r].flight
    /\ IF p \in run[r].arrived \/ Open(Project(r)) THEN Fault ELSE UNCHANGED faults
    /\ LET x == [run[r] EXCEPT !.phase = "failed", !.flight = @ \ {p},
                               !.arrived = @ \ {p}]
       IN  run' = [run EXCEPT ![r] = Kept(x)]
    /\ controller' = IF run[r].phase \in Live THEN None ELSE controller
    /\ NoLoss
    /\ UNCHANGED <<serverVars, checkpoint>>

(* The batch is over: the next one, or completion.                         *)
FinishBatch(r) ==
    /\ In(r, "transferring")
    /\ run[r].flight = {}
    /\ GoesOn(r, Remaining(r))
    /\ UNCHANGED <<serverVars, checkpoint>>
    /\ NoFault

-----------------------------------------------------------------------------
(* Completion                                                              *)

Completable(p) == Open(p) /\ p \notin expired

(* The manifest is persisted and the provider assembles the object; the    *)
(* checkpoint is removed on the answer.                                    *)
Complete(r) ==
    LET p == Project(r)
    IN  /\ In(r, "completing")
        /\ upload[p] = "completed" \/ (Completable(p) /\ stored[p] = Parts)
        /\ upload' = [upload EXCEPT ![p] = "completed"]
        /\ \/ Ends(r, "done") /\ checkpoint' = None /\ NoFault
           \/ Unheard(r) /\ Fault /\ NoLoss
        /\ UNCHANGED <<stored, expired>>

(* The provider fails after the manifest has been persisted.               *)
CompletionFails(r) ==
    LET p == Project(r)
    IN  /\ In(r, "completing")
        /\ Completable(p)
        /\ IF stored[p] = Parts THEN Fault ELSE UNCHANGED faults
        /\ upload' = [upload EXCEPT ![p] = "completing"]
        /\ Unheard(r) /\ NoLoss
        /\ UNCHANGED <<stored, expired>>

CompletionRefused(r) ==
    LET p == Project(r)
    IN  /\ In(r, "completing")
        /\ upload[p] # "completed"
        /\ ~Completable(p)
        /\ Unheard(r)
        /\ UNCHANGED serverVars
        /\ NoFault

-----------------------------------------------------------------------------
(* The server on its own                                                   *)

Abort(p) ==
    /\ Open(p)
    /\ Fault
    /\ LossIf(checkpoint # None /\ checkpoint.project = p)
    /\ upload' = [upload EXCEPT ![p] = "aborted"]
    /\ stored' = [stored EXCEPT ![p] = {}]
    /\ UNCHANGED <<expired, checkpoint, run, controller>>

Expire(p) ==
    /\ Open(p)
    /\ p \notin expired
    /\ Fault /\ NoLoss
    /\ expired' = expired \cup {p}
    /\ UNCHANGED <<upload, stored, checkpoint, run, controller>>

-----------------------------------------------------------------------------
Step(r) ==
    \/ EnsureProject(r)
    \/ EnsureMultipartUpload(r)
    \/ CheckStatus(r)
    \/ SignParts(r)
    \/ \E p \in Parts :
         PartArrives(r, p) \/ SavePart(r, p) \/ TransferFails(r, p)
    \/ FinishBatch(r)
    \/ Complete(r)
    \/ CompletionFails(r)
    \/ CompletionRefused(r)

Next ==
    \/ \E r \in Runs : Begin(r) \/ Pause(r) \/ CallFails(r) \/ Step(r)
    \/ CloseWindow
    \/ \E p \in Projects : Abort(p) \/ Expire(p)

Spec == Init /\ [][Next]_vars

(* Calls and transfers end, and a user with no attempt under way tries     *)
(* again.                                                                  *)
FairSpec ==
    /\ Spec
    /\ \A r \in Runs : WF_vars(Step(r))
    /\ WF_vars(AtRest /\ \E r \in Runs : Begin(r))

-----------------------------------------------------------------------------
(* Properties                                                              *)

(* What the next attempt trusts: the checkpoint, and every copy of it that *)
(* an attempt or a transfer left behind may still save, names an upload of *)
(* its project and only parts that this upload has.                        *)
CheckpointIsTrue ==
    /\ TypeOK
    /\ \A c \in {checkpoint} \cup {run[r].copy : r \in Runs} :
         c # None /\ c.project # None =>
           /\ upload[c.project] # "absent"
           /\ c.upload => upload[c.project] # "none"
           /\ upload[c.project] # "aborted" => c.parts \subseteq stored[c.project]

(* Attempts create another project only for a loss: a creation whose       *)
(* answer is lost, a project that the storage refuses, the upload of the   *)
(* checkpoint aborted elsewhere, an older attempt with an aborted upload   *)
(* that saves its copy over a usable checkpoint or removes it, and an      *)
(* upload begun anew, by a drop, before the project of the attempt under   *)
(* way is known.  Any other pause, failure, closed window or overlap of    *)
(* attempts goes on with the project there is.                             *)
ProjectsAreAccounted ==
    Cardinality({p \in Projects : upload[p] # "absent"}) <= 1 + losses

(* The two ways in which a checkpoint stops every later attempt: nothing   *)
(* moves an upload that is past its time to EXPIRED, and a COMPLETING one  *)
(* is refused new signatures although a transfer that was left behind has  *)
(* shortened the checkpoint meanwhile.                                     *)
Stopped ==
    /\ checkpoint # None
    /\ checkpoint.project # None
    /\ \/ checkpoint.project \in expired
       \/ upload[checkpoint.project] = "completing" /\ checkpoint.parts # Parts

(* After finitely many faults and pauses, a user who tries again has the   *)
(* movie uploaded, unless the checkpoint stops every attempt.              *)
UploadFinishes == <>[](Finished \/ Stopped)
=============================================================================
