----------------------------- MODULE MediaScan -----------------------------
(***************************************************************************)
(* The malware scan of one uploaded source: its attempt row and the        *)
(* video's security status in PostgreSQL, the outbox event and BullMQ job  *)
(* that deliver it, the handlers of the scan worker and the recovery pass. *)
(*                                                                         *)
(* A handler reads the rows, claims the attempt by compare-and-set, scans, *)
(* and settles the attempt by compare-and-set on its lease: four steps,    *)
(* with anything in between.  Time is a choice, as in SpeechWorkflow.      *)
(***************************************************************************)
EXTENDS Naturals, FiniteSets

CONSTANTS
    MaxTries,       \* attempts of the BullMQ job
    MaxRecoveries,  \* MAX_SCAN_LEASE_RECOVERIES
    Concurrency,    \* deliveries the workers process at once
    MaxFaults       \* bound on crashes, stalls and lost deliveries

ASSUME ScanAssumption ==
    /\ MaxTries \in Nat \ {0}
    /\ MaxRecoveries \in Nat
    /\ Concurrency \in Nat
    /\ MaxFaults \in Nat

VARIABLES
    ingest,     \* videos.ingest_status
    security,   \* videos.security_status
    prepared,   \* the source-preparation workflow exists
    scan,       \* malware_scan_attempts.status, "absent" without a row
    lease,      \* lease_token, 0 for null
    issued,     \* the tokens drawn so far
    expired,    \* leased_until of the running attempt has passed
    recoveries, \* recovery_count
    event,      \* outbox event media.scan.requested, "absent" without one
    job,        \* the BullMQ job of that event
    tries,      \* its attemptsMade
    handlers,   \* deliveries being processed
    closing,    \* tokens a recovery pass has read as exhausted, with
                \* leased_until still before its cutoff
    faults      \* faults injected so far

scanVars == <<scan, lease, issued, expired, recoveries>>
videoVars == <<ingest, security, prepared>>
queueVars == <<job, tries>>
vars == <<videoVars, scanVars, event, queueVars, handlers, closing, faults>>

Verdicts == {"clean", "infected"}
ScanStatuses == {"absent", "queued", "running", "error"} \cup Verdicts
SecurityStatuses == {"pending", "scanning", "error"} \cup Verdicts

(* A handler that has read the rows ("read") holds the lease it saw and    *)
(* the job's attemptsMade; one that has claimed ("scanning") its token.    *)
(* locked: BullMQ still counts the delivery as active.                     *)
Handlers == [phase : {"read", "scanning"}, reclaim : BOOLEAN, token : Nat,
             made : 0 .. MaxTries, locked : BOOLEAN]

TypeOK ==
    /\ security \in SecurityStatuses
    /\ prepared \in BOOLEAN
    /\ scan \in ScanStatuses
    /\ lease \in Nat
    /\ issued \in Nat
    /\ expired \in BOOLEAN
    /\ recoveries \in 0 .. MaxRecoveries
    /\ event \in {"absent", "pending", "published"}
    /\ job \in {"none", "waiting", "active", "delayed"}
    /\ tries \in 0 .. (MaxTries - 1)
    /\ handlers \in SUBSET Handlers
    /\ closing \in SUBSET Nat
    /\ faults \in 0 .. MaxFaults

(* The state finalizeUpload commits.                                       *)
Init ==
    /\ ingest = "uploaded"
    /\ security = "pending"
    /\ prepared = FALSE
    /\ scan = "queued"
    /\ lease = 0
    /\ issued = 0
    /\ expired = FALSE
    /\ recoveries = 0
    /\ event = "pending"
    /\ job = "none"
    /\ tries = 0
    /\ handlers = {}
    /\ closing = {}
    /\ faults = 0

Fault == faults < MaxFaults /\ faults' = faults + 1

-----------------------------------------------------------------------------
(* Delivery                                                                *)

(* The relay puts the command on the queue; a job of the same id that      *)
(* BullMQ has not finished makes that a no-op.  A relay that dies before   *)
(* it marks the event leaves it to be leased again.                        *)
Publish ==
    /\ event = "pending"
    /\ \/ event' = "published" /\ UNCHANGED faults
       \/ Fault /\ UNCHANGED event
    /\ IF job = "none" THEN job' = "waiting" /\ tries' = 0
                       ELSE UNCHANGED queueVars
    /\ UNCHANGED <<videoVars, scanVars, handlers, closing>>

(* The exponential back-off of a failed delivery ends.                     *)
RetryDue ==
    /\ job = "delayed"
    /\ job' = "waiting"
    /\ UNCHANGED <<videoVars, scanVars, event, tries, handlers, closing, faults>>

(* Mutant of Reclaimable: the number of reclaims is not bounded.           *)
ReclaimableAgain == scan = "running" /\ expired

Reclaimable == scan = "running" /\ expired /\ recoveries < MaxRecoveries

(* The rows a handler reads make it claim the attempt: it is queued, or    *)
(* its lease has expired and may be reclaimed.                             *)
Eligible == security \notin Verdicts /\ (scan = "queued" \/ Reclaimable)

Take ==
    /\ job = "waiting"
    /\ Cardinality(handlers) < Concurrency
    /\ Eligible
    /\ job' = "active"
    /\ handlers' = handlers \cup
         {[phase |-> "read", reclaim |-> scan = "running", token |-> lease,
           made |-> tries, locked |-> TRUE]}
    /\ UNCHANGED <<videoVars, scanVars, event, tries, closing, faults>>

(* A duplicate delivery of an owned or settled attempt is acknowledged.    *)
TakeNothing ==
    /\ job = "waiting"
    /\ Cardinality(handlers) < Concurrency
    /\ ~Eligible
    /\ job' = "none"
    /\ UNCHANGED <<videoVars, scanVars, event, tries, handlers, closing, faults>>

(* The handler returns: BullMQ completes the job if it is still its own.   *)
Return(h) ==
    /\ handlers' = handlers \ {h}
    /\ job' = IF h.locked THEN "none" ELSE job
    /\ UNCHANGED tries

(* The handler throws: BullMQ retries the job or, after MaxTries, drops it.*)
Throw(h) ==
    /\ handlers' = handlers \ {h}
    /\ IF h.locked /\ h.made + 1 < MaxTries
       THEN job' = "delayed" /\ tries' = h.made + 1
       ELSE job' = (IF h.locked THEN "none" ELSE job) /\ UNCHANGED tries

-----------------------------------------------------------------------------
(* Claiming and settling                                                   *)

(* Mutant of Claims: the attempt is claimed by its id alone.               *)
ClaimsById(h) == scan # "absent"

(* The claim's compare-and-set on what the handler has read.               *)
Claims(h) ==
    IF h.reclaim THEN Reclaimable /\ lease = h.token ELSE scan = "queued"

Claim(h) ==
    /\ h.phase = "read"
    /\ Claims(h)
    /\ scan' = "running"
    /\ issued' = issued + 1
    /\ lease' = issued + 1
    /\ expired' = FALSE
    /\ recoveries' = IF h.reclaim THEN recoveries + 1 ELSE recoveries
    /\ security' = "scanning"
    /\ handlers' = (handlers \ {h}) \cup
         {[h EXCEPT !.phase = "scanning", !.token = issued + 1]}
    /\ UNCHANGED <<ingest, prepared, event, queueVars, closing, faults>>

ClaimLost(h) ==
    /\ h.phase = "read"
    /\ ~Claims(h)
    /\ Return(h)
    /\ UNCHANGED <<videoVars, scanVars, event, closing, faults>>

(* Mutant of Owns: settled by id and status, without the lease.            *)
OwnsRunning(h) == scan = "running"

Owns(h) == scan = "running" /\ lease = h.token

(* Mutant of Settle: a scan to be retried leaves the video as it is.       *)
SettleVerdict(status, video) ==
    /\ scan' = status
    /\ lease' = 0
    /\ expired' = FALSE
    /\ security' = IF status = "queued" THEN security ELSE video
    /\ UNCHANGED <<issued, recoveries>>

(* The attempt leaves RUNNING, and the video follows it.                   *)
Settle(status, video) ==
    /\ scan' = status
    /\ lease' = 0
    /\ expired' = FALSE
    /\ security' = video
    /\ UNCHANGED <<issued, recoveries>>

(* The scan ends with a verdict; a clean one starts source preparation in  *)
(* the same transaction.                                                   *)
Verdict(h, verdict) ==
    /\ h.phase = "scanning"
    /\ Owns(h)
    /\ Settle(verdict, verdict)
    /\ prepared' = (prepared \/ verdict = "clean")
    /\ Return(h)
    /\ UNCHANGED <<ingest, event, closing, faults>>

(* Mutant of LeaseLost: the video is written before the lease is checked.  *)
LeaseLostLate(h) ==
    /\ h.phase = "scanning"
    /\ ~Owns(h)
    /\ Return(h)
    /\ security' \in Verdicts
    /\ UNCHANGED <<ingest, prepared, scanVars, event, closing, faults>>

(* A scan that ends, well or badly, after its lease was lost settles       *)
(* nothing, and the delivery is acknowledged.                              *)
LeaseLost(h) ==
    /\ h.phase = "scanning"
    /\ ~Owns(h)
    /\ Return(h)
    /\ UNCHANGED <<videoVars, scanVars, event, closing, faults>>

WillRetry(h) == h.made + 1 < MaxTries

(* The scan fails: for good, or to be retried by BullMQ while tries remain.*)
ScanFails(h) ==
    /\ h.phase = "scanning"
    /\ Owns(h)
    /\ \/ Settle("error", "error") /\ Return(h)
       \/ WillRetry(h) /\ Settle("queued", "pending") /\ Throw(h)
       \/ ~WillRetry(h) /\ Settle("error", "error") /\ Throw(h)
    /\ UNCHANGED <<ingest, prepared, event, closing, faults>>

-----------------------------------------------------------------------------
(* Leases and recovery                                                     *)

(* A heartbeat pushes leased_until ahead of every cutoff taken before it:  *)
(* the reads of handlers about to reclaim the lease, and of recovery.      *)
Heartbeat(h) ==
    /\ h.phase = "scanning"
    /\ Owns(h)
    /\ expired
    /\ expired' = FALSE
    /\ handlers' = {IF g.reclaim /\ g.phase = "read" THEN [g EXCEPT !.token = 0]
                                                     ELSE g : g \in handlers}
    /\ closing' = closing \ {lease}
    /\ UNCHANGED <<videoVars, scan, lease, issued, recoveries, event, queueVars,
                   faults>>

(* Time passes: no heartbeat has reached the row for a lease's length.     *)
LeaseExpires ==
    /\ scan = "running"
    /\ ~expired
    /\ expired' = TRUE
    /\ UNCHANGED <<videoVars, scan, lease, issued, recoveries, event, queueVars,
                   handlers, closing, faults>>

(* Mutant of Stranded: only expired leases are looked for.                 *)
StrandedRunning == Reclaimable /\ security = "scanning"

(* Work a recovery pass finds without a delivery of its own.               *)
Stranded ==
    \/ scan = "queued" /\ security = "pending"
    \/ Reclaimable /\ security = "scanning"

(* Recovery, first query: the command of a stranded attempt is pending     *)
(* again once the cooldown after its publication is over.                  *)
Replay ==
    /\ event = "published"
    /\ ingest = "uploaded"
    /\ Stranded
    /\ event' = "pending"
    /\ UNCHANGED <<videoVars, scanVars, queueVars, handlers, closing, faults>>

(* Recovery, second query: a lease that expired with no reclaim left.      *)
ReadExhausted ==
    /\ scan = "running"
    /\ expired
    /\ recoveries >= MaxRecoveries
    /\ ingest = "uploaded"
    /\ security = "scanning"
    /\ lease \notin closing
    /\ closing' = closing \cup {lease}
    /\ UNCHANGED <<videoVars, scanVars, event, queueVars, handlers, faults>>

(* Recovery, later: the attempt it read is closed, if nothing has moved it.*)
CloseExhausted(token) ==
    /\ \/ /\ scan = "running"
          /\ lease = token
          /\ Settle("error", IF security = "scanning" THEN "error" ELSE security)
       \/ /\ ~(scan = "running" /\ lease = token)
          /\ UNCHANGED <<scanVars, security>>
    /\ closing' = closing \ {token}
    /\ UNCHANGED <<ingest, prepared, event, queueVars, handlers, faults>>

-----------------------------------------------------------------------------
(* Faults                                                                  *)

(* The worker dies.  BullMQ finds the job stalled and queues it again, or  *)
(* drops it.                                                               *)
HandlerCrashes(h) ==
    /\ Fault
    /\ handlers' = handlers \ {h}
    /\ job' \in IF h.locked THEN {"waiting", "none"} ELSE {job}
    /\ UNCHANGED <<videoVars, scanVars, event, tries, closing>>

(* A live handler misses its lock renewal: its job counts as stalled, too. *)
DeliveryStalls(h) ==
    /\ h.locked
    /\ Fault
    /\ handlers' = (handlers \ {h}) \cup {[h EXCEPT !.locked = FALSE]}
    /\ job' \in {"waiting", "none"}
    /\ UNCHANGED <<videoVars, scanVars, event, tries, closing>>

(* Redis loses the job.                                                    *)
DeliveryLost ==
    /\ job \in {"waiting", "delayed"}
    /\ Fault
    /\ job' = "none"
    /\ UNCHANGED <<videoVars, scanVars, event, tries, handlers, closing>>

-----------------------------------------------------------------------------
(* What a handler does next, short of a fault.                             *)
Proceed(h) ==
    \/ Claim(h)
    \/ ClaimLost(h)
    \/ \E verdict \in Verdicts : Verdict(h, verdict)
    \/ LeaseLost(h)
    \/ ScanFails(h)

Next ==
    \/ Publish
    \/ RetryDue
    \/ Take
    \/ TakeNothing
    \/ \E h \in handlers :
         \/ Proceed(h)
         \/ Heartbeat(h)
         \/ HandlerCrashes(h)
         \/ DeliveryStalls(h)
    \/ LeaseExpires
    \/ Replay
    \/ ReadExhausted
    \/ \E token \in closing : CloseExhausted(token)
    \/ DeliveryLost

Spec == Init /\ [][Next]_vars

Owner(h) == h.phase = "scanning" /\ Owns(h)

(* The relay and recovery loops run for ever, timers fire, idle workers    *)
(* take deliveries and a handler ends, whatever the others do; a lease     *)
(* nobody renews expires.                                                  *)
Fairness ==
    /\ WF_vars(Publish)
    /\ WF_vars(RetryDue)
    /\ WF_vars(Take)
    /\ WF_vars(TakeNothing)
    /\ WF_vars(\E h \in handlers : Owner(h) /\ Proceed(h))
    /\ WF_vars(\E h \in handlers : ~Owner(h) /\ Proceed(h))
    /\ WF_vars((~\E h \in handlers : Owner(h)) /\ LeaseExpires)
    /\ WF_vars(Replay)
    /\ WF_vars(ReadExhausted)
    /\ WF_vars(\E token \in closing : CloseExhausted(token))

FairSpec == Spec /\ Fairness

-----------------------------------------------------------------------------
(* Properties                                                              *)

Settled == Verdicts \cup {"error"}

(* The video's security status is the state of its scan through retries,   *)
(* reclaims and the recovery's late closing: what the rest of the system   *)
(* reads is never ahead of the scan nor left behind by it.                 *)
VideoFollowsScan ==
    security = CASE scan = "queued" -> "pending"
                 [] scan = "running" -> "scanning"
                 [] OTHER -> scan

(* Duplicated deliveries, zombies and reclaims share one attempt row, and  *)
(* yet one handler at most is able to settle it.                           *)
OneScanOwner ==
    \A g, h \in handlers :
        Owner(g) /\ Owner(h) => g = h

(* A scan that is settled stays so: no zombie, late recovery or replayed   *)
(* delivery changes a verdict or reopens a scan closed in error.           *)
ScanIsFinal == [][(scan \in Settled) => scan' = scan /\ security' = security]_vars

(* Whatever finite number of crashes and lost deliveries, every uploaded   *)
(* source gets a verdict or a terminal error: none is in quarantine for    *)
(* ever.                                                                   *)
ScanSettles == <>(scan \in Settled)
=============================================================================
