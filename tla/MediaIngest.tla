---------------------------- MODULE MediaIngest ----------------------------
(***************************************************************************)
(* The multipart upload of a project's source movie and the scan it leads  *)
(* to.  Requests of the API run concurrently: each reads the upload, talks *)
(* to the object store outside any transaction, and writes.  The scan of   *)
(* the video is MediaScan, whose variables this module shares.             *)
(*                                                                         *)
(* A project has one video and a video one upload (unique indexes), so     *)
(* there is one upload row.  Idempotency keys only select the reply of a   *)
(* create that changes nothing, and signing parts changes nothing either.  *)
(***************************************************************************)
EXTENDS Naturals, FiniteSets

CONSTANTS
    Requests,   \* requests the API may serve at once
    Manifests,  \* part lists a client may complete the upload with
    WrongSize,  \* those that assemble to an object of another size
    None,       \* no manifest, no object
    MaxTries, MaxRecoveries, Concurrency, MaxFaults   \* see MediaScan

ASSUME ManifestAssumption == WrongSize \subseteq Manifests /\ None \notin Manifests

(* ScanAssumption of MediaScan, of the constants passed on to it.          *)
ASSUME BudgetAssumption ==
    /\ MaxTries \in Nat \ {0}
    /\ MaxRecoveries \in Nat
    /\ Concurrency \in Nat
    /\ MaxFaults \in Nat

VARIABLES
    upload,     \* multipart_uploads.status, "absent" without a row
    manifest,   \* multipart_upload_parts
    provider,   \* the provider's multipart upload: "none", "open", "gone"
    object,     \* what the object store holds under the storage key
    request,    \* request[r]: where request r is and the manifest it brings
    ingest, security, prepared, scan, lease, issued, expired, recoveries,
    event, job, tries, handlers, closing, faults      \* see MediaScan

Scan == INSTANCE MediaScan

storeVars == <<provider, object>>
rowVars == <<upload, manifest>>
uploadVars == <<rowVars, storeVars, request>>
videoVars == <<ingest, security, prepared>>
scanVars == <<scan, lease, issued, expired, recoveries>>
queueVars == <<job, tries>>
quarantineVars == <<videoVars, scanVars, event, queueVars, handlers, closing, faults>>
vars == <<uploadVars, quarantineVars>>

Phases == {"idle", "allocated", "accepted", "persisted", "answered", "verified",
           "mismatch", "aborting", "dropped"}
Idle == [phase |-> "idle", manifest |-> None]

TypeOK ==
    /\ upload \in {"absent", "initiated", "completing", "completed", "aborted", "failed"}
    /\ manifest \in Manifests \cup {None}
    /\ provider \in {"none", "open", "gone"}
    /\ object \in Manifests \cup {None}
    /\ request \in [Requests -> [phase : Phases, manifest : Manifests \cup {None}]]
    /\ ingest \in {"absent", "uploading", "uploaded", "aborted", "failed"}
    /\ Scan!TypeOK

(* A project without a video.  security has no meaning before it has one.  *)
Init ==
    /\ upload = "absent"
    /\ manifest = None
    /\ provider = "none"
    /\ object = None
    /\ request = [r \in Requests |-> Idle]
    /\ ingest = "absent"
    /\ security = "pending"
    /\ prepared = FALSE
    /\ scan = "absent"
    /\ lease = 0
    /\ issued = 0
    /\ expired = FALSE
    /\ recoveries = 0
    /\ event = "absent"
    /\ job = "none"
    /\ tries = 0
    /\ handlers = {}
    /\ closing = {}
    /\ faults = 0

Moves(r, from, to) ==
    /\ request[r].phase = from
    /\ request' = [request EXCEPT ![r].phase = to]

Ends(r, from) ==
    /\ request[r].phase = from
    /\ request' = [request EXCEPT ![r] = Idle]

-----------------------------------------------------------------------------
(* Create                                                                  *)

(* Neither the key nor the project has an upload: the provider opens one.  *)
Allocate(r) ==
    /\ upload = "absent"
    /\ Moves(r, "idle", "allocated")
    /\ UNCHANGED <<rowVars, storeVars, quarantineVars>>

(* The rows are created, unless another create was first: then the unique  *)
(* index refuses them and the request aborts its own provider upload.      *)
Create(r) ==
    /\ Ends(r, "allocated")
    /\ IF upload = "absent"
       THEN /\ upload' = "initiated"
            /\ provider' = "open"
            /\ ingest' = "uploading"
            /\ security' = "pending"
       ELSE UNCHANGED <<upload, provider, ingest, security>>
    /\ UNCHANGED <<manifest, object, prepared, scanVars, event,
                   queueVars, handlers, closing, faults>>

-----------------------------------------------------------------------------
(* Complete                                                                *)

AcceptsParts == upload \in {"initiated", "completing"}

(* The upload is read outside any transaction, and found writable.         *)
Accept(r, m) ==
    /\ request[r] = Idle
    /\ AcceptsParts
    /\ request' = [request EXCEPT ![r] = [phase |-> "accepted", manifest |-> m]]
    /\ UNCHANGED <<rowVars, storeVars, quarantineVars>>

(* Mutant of Differs: the persisted manifest is not compared.              *)
NeverDiffers(m) == FALSE

Differs(m) == manifest \notin {None, m}

(* Under the row lock the manifest is persisted, or compared with the one  *)
(* persisted before; whatever the status, except COMPLETED, it becomes     *)
(* COMPLETING.                                                             *)
PersistManifest(r) ==
    LET m == request[r].manifest
    IN  /\ request[r].phase = "accepted"
        /\ \/ /\ upload = "completed"
              /\ Moves(r, "accepted", "persisted")
              /\ UNCHANGED rowVars
           \/ /\ upload # "completed"
              /\ Differs(m)
              /\ Ends(r, "accepted")
              /\ UNCHANGED rowVars
           \/ /\ upload # "completed"
              /\ ~Differs(m)
              /\ Moves(r, "accepted", "persisted")
              /\ upload' = "completing"
              /\ manifest' = IF manifest = None THEN m ELSE manifest
        /\ UNCHANGED <<storeVars, quarantineVars>>

(* The provider assembles the object; its reply may be lost.               *)
Assemble(r) ==
    /\ provider = "open"
    /\ Moves(r, "persisted", "answered")
    /\ provider' = "gone"
    /\ object' = request[r].manifest
    /\ UNCHANGED <<rowVars, quarantineVars>>

(* The provider refuses, or the call fails on its way.                     *)
NotAssembled(r) ==
    /\ Moves(r, "persisted", "answered")
    /\ UNCHANGED <<rowVars, storeVars, quarantineVars>>

(* Mutant of Sized: the size of the stored object is not looked at.        *)
SizedAnyhow(o) == TRUE

Sized(o) == o \notin WrongSize

(* Whatever the provider answered, a HEAD of the object decides.           *)
Head(r) ==
    /\ object # None
    /\ Moves(r, "answered", IF Sized(object) THEN "verified" ELSE "mismatch")
    /\ UNCHANGED <<rowVars, storeVars, quarantineVars>>

(* The object is not there, or cannot be asked for: 503, to be retried.    *)
HeadFails(r) ==
    /\ Ends(r, "answered")
    /\ UNCHANGED <<rowVars, storeVars, quarantineVars>>

RejectSize(r) ==
    /\ Ends(r, "mismatch")
    /\ upload' = "failed"
    /\ ingest' = "failed"
    /\ UNCHANGED <<manifest, storeVars, security, prepared, scanVars, event,
                   queueVars, handlers, closing, faults>>

(* The upload is completed and the video waits for its first scan, which   *)
(* is created with its command unless it exists.  Nothing is compared with *)
(* the state the rows are in.                                              *)
Finalize(r) ==
    /\ Ends(r, "verified")
    /\ upload' = "completed"
    /\ ingest' = "uploaded"
    /\ security' = "pending"
    /\ scan' = IF scan = "absent" THEN "queued" ELSE scan
    /\ event' = IF event = "absent" THEN "pending" ELSE event
    /\ UNCHANGED <<manifest, storeVars, prepared, lease, issued, expired,
                   recoveries, queueVars, handlers, closing, faults>>

-----------------------------------------------------------------------------
(* Abort                                                                   *)

(* The upload is read outside any transaction, and is not completed.       *)
AcceptAbort(r) ==
    /\ upload \notin {"absent", "aborted", "completed"}
    /\ Moves(r, "idle", "aborting")
    /\ UNCHANGED <<rowVars, storeVars, quarantineVars>>

(* The provider's upload is aborted as far as that is possible.            *)
AbortAtProvider(r) ==
    /\ Moves(r, "aborting", "dropped")
    /\ provider' \in {provider, "gone"}
    /\ UNCHANGED <<object, rowVars, quarantineVars>>

Abort(r) ==
    /\ Ends(r, "dropped")
    /\ upload' = "aborted"
    /\ ingest' = "aborted"
    /\ UNCHANGED <<manifest, storeVars, security, prepared, scanVars, event,
                   queueVars, handlers, closing, faults>>

-----------------------------------------------------------------------------
(* The API process dies, or the database fails the request.                *)
RequestDies(r) ==
    /\ request[r] # Idle
    /\ faults < MaxFaults
    /\ faults' = faults + 1
    /\ request' = [request EXCEPT ![r] = Idle]
    /\ UNCHANGED <<rowVars, storeVars, videoVars, scanVars, event,
                   queueVars, handlers, closing>>

Next ==
    \/ \E r \in Requests :
         \/ Allocate(r)
         \/ Create(r)
         \/ \E m \in Manifests : Accept(r, m)
         \/ PersistManifest(r)
         \/ Assemble(r)
         \/ NotAssembled(r)
         \/ Head(r)
         \/ HeadFails(r)
         \/ RejectSize(r)
         \/ Finalize(r)
         \/ AcceptAbort(r)
         \/ AbortAtProvider(r)
         \/ Abort(r)
         \/ RequestDies(r)
    \/ Scan!Next /\ UNCHANGED uploadVars

Spec == Init /\ [][Next]_vars

-----------------------------------------------------------------------------
(* Properties                                                              *)

(* The object in storage is assembled from the manifest that the database  *)
(* keeps, however many completions with different parts race or are        *)
(* retried, before and after an abort.                                     *)
ObjectMatchesManifest ==
    /\ TypeOK
    /\ object # None => object = manifest

(* An upload that is completed has its object, of the declared size, in    *)
(* storage and its scan in the database: no lost reply, refused call or    *)
(* concurrent abort completes an upload whose bytes are not there.         *)
CompletedIsStored ==
    upload = "completed" =>
        /\ object \notin WrongSize \cup {None}
        /\ scan # "absent"
        /\ event # "absent"

(* A verdict shown on the video is the verdict of its scan, even though    *)
(* late completions write the same column.                                 *)
VerdictIsFromScan == security \in Scan!Verdicts => scan = security

(* Ingest implements the quarantine: one final verdict on a stored object, *)
(* and no release to the pipeline but with a clean one, whatever uploads,  *)
(* aborts, zombies and recoveries do to the rows in between.               *)
Quarantine == INSTANCE SourceQuarantine WITH
    stored <- object # None,
    verdict <- IF scan \in Scan!Settled THEN scan ELSE "none",
    released <- prepared

ImplementsQuarantine == Quarantine!Spec

(* "A completed upload cannot be aborted." (the refusal of abort)          *)
CompletionIsNotAborted == [][(upload = "completed") => upload' # "aborted"]_vars

(* "Multipart create, part signing, completion, status, and abort are      *)
(* idempotent" (milestone 1): a repeated completion leaves a verdict that  *)
(* has been given as it is.                                                *)
CompletionKeepsVerdict ==
    [][(security \in Scan!Verdicts) => security' = security]_vars
=============================================================================
