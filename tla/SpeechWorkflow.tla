--------------------------- MODULE SpeechWorkflow ---------------------------
(***************************************************************************)
(* One speech-analysis job: the rows PostgreSQL keeps of it, the           *)
(* coordinator's transactions on them, the outbox relay, the BullMQ        *)
(* queues and the handlers of the worker process.                          *)
(*                                                                         *)
(* Every coordinator transaction locks the job row first (lockJob), so a   *)
(* transaction is one action.  What is not atomic in the code is not       *)
(* atomic here: a claim, the executor's work, and the transaction that     *)
(* settles it; the recovery's read of expired leases and its later         *)
(* compare-and-set; the relay's lease, publication and acknowledgement.    *)
(*                                                                         *)
(* Time is a choice: a lease may expire, a back-off may end, whenever.     *)
(***************************************************************************)
EXTENDS Naturals, FiniteSets

CONSTANTS
    Stages,        \* the stages of the job
    Deps,          \* Deps[s]: the stages s depends on
    MaxAttempts,   \* MaxAttempts[s]: attempt budget of s
    MaxDeferrals,  \* MAX_CAPACITY_DEFERRALS_PER_ATTEMPT
    Concurrency,   \* deliveries the workers process at once
    Relays,        \* outbox relay processes
    NoRelay,       \* no relay: a null lease_id
    BatchLimit,    \* limit of relayBatch
    MaxFaults      \* bound on crashes, lost deliveries and refused calls

ASSUME StagesAssumption ==
    /\ Stages # {}
    /\ Deps \in [Stages -> SUBSET Stages]
    /\ MaxAttempts \in [Stages -> Nat \ {0}]
ASSUME BoundsAssumption ==
    /\ MaxDeferrals \in Nat
    /\ Concurrency \in Nat
    /\ BatchLimit \in Nat
    /\ MaxFaults \in Nat
ASSUME RelayAssumption == NoRelay \notin Relays

(* An attempt is a stage and an attempt number within the stage's budget.  *)
Attempts == UNION {{s} \X (1 .. MaxAttempts[s]) : s \in Stages}

First(s) == <<s, 1>>
Successor(a) == <<a[1], a[2] + 1>>

VARIABLES
    job,        \* workflow_jobs.status
    project,    \* projects.status, as far as this job changes it
    selected,   \* the analysis is the project's selected one
    stage,      \* workflow_stages.status
    ready,      \* stages whose ready_at has passed
    attempt,    \* workflow_stage_attempts.status, "absent" without a row
    lease,      \* lease_token, 0 for null
    issued,     \* the tokens drawn so far (uuidv7: never drawn twice)
    expired,    \* running attempts whose leased_until has passed
    deferrals,  \* recovery_count
    outputs,    \* outputs[s]: the attempts whose results are persisted
    event,      \* outbox event of the attempt's command, "absent" without one
    eventLease, \* its lease_id
    batch,      \* batch[r]: events relay r has leased and not yet settled
    sent,       \* sent[r]: those of them it has put on their queue
    waiting,    \* attempts with a delivery waiting in BullMQ
    handlers,   \* deliveries being processed
    expiredRead,\* rows read by recovery passes, not yet settled and with
                \* leased_until still before the cutoff they were read with
    faults      \* faults injected so far

workflowVars == <<job, project, selected, stage, ready, attempt, lease,
                  issued, expired, deferrals, outputs>>
outboxVars == <<event, eventLease>>
relayVars == <<batch, sent>>
deliveryVars == <<waiting, handlers>>
vars == <<workflowVars, outboxVars, relayVars, deliveryVars, expiredRead, faults>>

JobStatuses == {"queued", "running", "succeeded", "failed"}
StageStatuses == {"blocked", "queued", "running", "retry_wait", "succeeded",
                  "failed", "canceled"}
AttemptStatuses == {"absent", "queued", "running", "succeeded", "failed",
                    "timed_out", "canceled"}
(* "delayed" stands for a pending or failed row with available_at ahead.   *)
EventStatuses == {"absent", "delayed", "pending", "publishing", "published"}

(* A handler holds the claim it made.  "retryable" and "fatal": the work   *)
(* has failed and fail() is about to run.  locked: BullMQ still counts the *)
(* delivery as active.                                                     *)
Handlers == [attempt : Attempts, token : Nat,
             phase : {"executing", "retryable", "fatal"}, locked : BOOLEAN]

TypeOK ==
    /\ job \in JobStatuses
    /\ project \in {"processing", "failed"}
    /\ selected \in BOOLEAN
    /\ stage \in [Stages -> StageStatuses]
    /\ ready \in SUBSET Stages
    /\ attempt \in [Attempts -> AttemptStatuses]
    /\ lease \in [Attempts -> Nat]
    /\ issued \in [Attempts -> Nat]
    /\ expired \in SUBSET Attempts
    /\ deferrals \in [Attempts -> 0 .. MaxDeferrals]
    /\ outputs \in [Stages -> SUBSET Attempts]
    /\ event \in [Attempts -> EventStatuses]
    /\ eventLease \in [Attempts -> Relays \cup {NoRelay}]
    /\ batch \in [Relays -> SUBSET Attempts]
    /\ sent \in [Relays -> SUBSET Attempts]
    /\ waiting \in SUBSET Attempts
    /\ handlers \in SUBSET Handlers
    /\ expiredRead \in SUBSET (Attempts \X Nat)
    /\ faults \in 0 .. MaxFaults

-----------------------------------------------------------------------------
(* The state the initializer commits: every stage and dependency, and for  *)
(* each root stage a first attempt with its command in the outbox.         *)
Roots == {s \in Stages : Deps[s] = {}}

Init ==
    /\ job = "queued"
    /\ project = "processing"
    /\ selected = FALSE
    /\ stage = [s \in Stages |-> IF s \in Roots THEN "queued" ELSE "blocked"]
    /\ ready = Roots
    /\ attempt = [a \in Attempts |->
                    IF a[1] \in Roots /\ a[2] = 1 THEN "queued" ELSE "absent"]
    /\ lease = [a \in Attempts |-> 0]
    /\ issued = [a \in Attempts |-> 0]
    /\ expired = {}
    /\ deferrals = [a \in Attempts |-> 0]
    /\ outputs = [s \in Stages |-> {}]
    /\ event = [a \in Attempts |->
                    IF a[1] \in Roots /\ a[2] = 1 THEN "pending" ELSE "absent"]
    /\ eventLease = [a \in Attempts |-> NoRelay]
    /\ batch = [r \in Relays |-> {}]
    /\ sent = [r \in Relays |-> {}]
    /\ waiting = {}
    /\ handlers = {}
    /\ expiredRead = {}
    /\ faults = 0

JobActive == job \in {"queued", "running"}

(* Mutant of OwnsLease: the attempt is updated by its id alone.            *)
OwnsUnchecked(a, token) == attempt[a] \notin {"absent", "queued"}

(* The compare-and-set every settling transaction makes on the attempt.    *)
OwnsLease(a, token) == attempt[a] = "running" /\ lease[a] = token

Fault == faults < MaxFaults /\ faults' = faults + 1

-----------------------------------------------------------------------------
(* Claiming                                                                *)

Claimable(a) ==
    /\ attempt[a] = "queued"
    /\ JobActive
    /\ stage[a[1]] \in {"queued", "retry_wait"}
    /\ a[1] \in ready

(* A delivery is taken off its queue, the executor reports ready and the   *)
(* attempt is claimed under a fresh lease.                                 *)
Claim(a) ==
    /\ a \in waiting
    /\ Cardinality(handlers) < Concurrency
    /\ Claimable(a)
    /\ attempt' = [attempt EXCEPT ![a] = "running"]
    /\ issued' = [issued EXCEPT ![a] = @ + 1]
    /\ lease' = [lease EXCEPT ![a] = issued[a] + 1]
    /\ stage' = [stage EXCEPT ![a[1]] = "running"]
    /\ job' = "running"
    /\ waiting' = waiting \ {a}
    /\ handlers' = handlers \cup
         {[attempt |-> a, token |-> issued[a] + 1,
           phase |-> "executing", locked |-> TRUE]}
    /\ UNCHANGED <<project, selected, ready, expired, deferrals, outputs,
                   outboxVars, relayVars, expiredRead, faults>>

(* The claim finds the attempt not claimable and the delivery is dropped.  *)
ClaimNothing(a) ==
    /\ a \in waiting
    /\ Cardinality(handlers) < Concurrency
    /\ ~Claimable(a)
    /\ waiting' = waiting \ {a}
    /\ UNCHANGED <<workflowVars, outboxVars, relayVars, handlers, expiredRead,
                   faults>>

(* The readiness handshake fails before the claim: the delivery fails and  *)
(* BullMQ, with one attempt per job, removes it.                           *)
ExecutorNotReady(a) ==
    /\ a \in waiting
    /\ Cardinality(handlers) < Concurrency
    /\ Fault
    /\ waiting' = waiting \ {a}
    /\ UNCHANGED <<workflowVars, outboxVars, relayVars, handlers, expiredRead>>

-----------------------------------------------------------------------------
(* Completion                                                              *)

(* Mutant of Unlocked: one finished dependency is enough.                  *)
UnlockedByAny(s) == {t \in Stages : stage[t] = "blocked" /\ s \in Deps[t]}

(* The blocked stages that become ready once s has succeeded.              *)
Unlocked(s) ==
    {t \in Stages : /\ stage[t] = "blocked"
                    /\ \A d \in Deps[t] : d = s \/ stage[d] = "succeeded"}

(* Mutant of LastStage: the stages are counted before s is updated.        *)
LastStageStale(s) == \A t \in Stages : stage[t] = "succeeded"

LastStage(s) == \A t \in Stages \ {s} : stage[t] = "succeeded"

(* The executor's verified result is committed together with the stages it *)
(* unlocks and, for the last stage, with the job's success and selection.  *)
Complete(h) ==
    LET a == h.attempt
        s == h.attempt[1]
        firsts == {First(t) : t \in Unlocked(s)}
    IN  /\ h.phase = "executing"
        /\ JobActive
        /\ OwnsLease(a, h.token)
        /\ attempt' = [b \in Attempts |-> CASE b = a -> "succeeded"
                                            [] b \in firsts -> "queued"
                                            [] OTHER -> attempt[b]]
        /\ lease' = [lease EXCEPT ![a] = 0]
        /\ expired' = expired \ {a}
        /\ outputs' = [outputs EXCEPT ![s] = @ \cup {a}]
        /\ stage' = [t \in Stages |-> CASE t = s -> "succeeded"
                                        [] t \in Unlocked(s) -> "queued"
                                        [] OTHER -> stage[t]]
        /\ ready' = ready \cup Unlocked(s)
        /\ event' = [b \in Attempts |->
                        IF b \in firsts THEN "pending" ELSE event[b]]
        /\ job' = IF LastStage(s) THEN "succeeded" ELSE job
        /\ selected' = (selected \/ LastStage(s))
        /\ handlers' = handlers \ {h}
        /\ UNCHANGED <<project, issued, deferrals, eventLease, relayVars,
                       waiting, expiredRead, faults>>

(* The handler's work has failed; fail() is still to be called.            *)
TurnTo(h, phase) ==
    handlers' = (handlers \ {h}) \cup {[h EXCEPT !.phase = phase]}

(* Completion is refused: the job is terminal, which is final, or the      *)
(* lease is lost, which counts as retryable.                               *)
CompletionRefused(h) ==
    /\ h.phase = "executing"
    /\ \/ ~JobActive /\ TurnTo(h, "fatal")
       \/ JobActive /\ ~OwnsLease(h.attempt, h.token) /\ TurnTo(h, "retryable")
    /\ UNCHANGED <<workflowVars, outboxVars, relayVars, waiting, expiredRead,
                   faults>>

(* The executor or the persistence of its result raises an error, or a     *)
(* heartbeat that lost the lease aborts the request.                       *)
WorkFails(h) ==
    /\ h.phase = "executing"
    /\ \E phase \in {"retryable", "fatal"} : TurnTo(h, phase)
    /\ UNCHANGED <<workflowVars, outboxVars, relayVars, waiting, expiredRead,
                   faults>>

-----------------------------------------------------------------------------
(* Failure                                                                 *)

(* Mutant of ScheduleRetry: the failed attempt is left running.            *)
RetryBeside(a, status) ==
    /\ attempt' = [attempt EXCEPT ![Successor(a)] = "queued"]
    /\ expired' = expired \ {a}
    /\ stage' = [stage EXCEPT ![a[1]] = "retry_wait"]
    /\ ready' = ready \ {a[1]}
    /\ event' = [event EXCEPT ![Successor(a)] = "delayed"]
    /\ UNCHANGED <<job, project, lease>>

(* A new attempt is queued behind an exponential back-off.                 *)
ScheduleRetry(a, status) ==
    /\ attempt' = [attempt EXCEPT ![a] = status, ![Successor(a)] = "queued"]
    /\ lease' = [lease EXCEPT ![a] = 0]
    /\ expired' = expired \ {a}
    /\ stage' = [stage EXCEPT ![a[1]] = "retry_wait"]
    /\ ready' = ready \ {a[1]}
    /\ event' = [event EXCEPT ![Successor(a)] = "delayed"]
    /\ UNCHANGED <<job, project>>

(* Mutant of Siblings: running stages are left to end by themselves.       *)
SiblingsNotRunning(s) ==
    {t \in Stages \ {s} : JobActive /\ stage[t] \in {"blocked", "queued", "retry_wait"}}

(* The stages cancelSiblingStages cancels when stage s fails the job.      *)
Siblings(s) ==
    {t \in Stages \ {s} : /\ JobActive
                          /\ stage[t] \in {"blocked", "queued", "retry_wait",
                                           "running"}}

(* Mutant of CanceledWith: a sibling's running attempt is not canceled.    *)
QueuedWith(s) ==
    {b \in Attempts : b[1] \in Siblings(s) /\ attempt[b] = "queued"}

(* Their live attempts, canceled with them.                                *)
CanceledWith(s) ==
    {b \in Attempts : b[1] \in Siblings(s) /\ attempt[b] \in {"queued", "running"}}

(* The stage fails for good and, while the job is active, the job with it. *)
FailStage(a, status) ==
    LET s == a[1]
    IN  /\ attempt' = [b \in Attempts |-> CASE b = a -> status
                                            [] b \in CanceledWith(s) -> "canceled"
                                            [] OTHER -> attempt[b]]
        /\ lease' = [b \in Attempts |->
                        IF b = a \/ b \in CanceledWith(s) THEN 0 ELSE lease[b]]
        /\ expired' = expired \ ({a} \cup CanceledWith(s))
        /\ stage' = [t \in Stages |-> CASE t = s -> "failed"
                                        [] t \in Siblings(s) -> "canceled"
                                        [] OTHER -> stage[t]]
        /\ job' = IF JobActive THEN "failed" ELSE job
        /\ project' = IF JobActive THEN "failed" ELSE project
        /\ UNCHANGED <<ready, event>>

(* Mutant of MayRetry: the last attempt of the budget is retried as well.  *)
MayRetryOnceMore(a, retryable) ==
    JobActive /\ retryable /\ a[2] <= MaxAttempts[a[1]]

MayRetry(a, retryable) ==
    JobActive /\ retryable /\ a[2] < MaxAttempts[a[1]]

(* The transaction of fail(), without what its caller does.                *)
FailAttempt(a, owned, retryable, status) ==
    /\ \/ owned /\ MayRetry(a, retryable) /\ ScheduleRetry(a, status)
       \/ owned /\ ~MayRetry(a, retryable) /\ FailStage(a, status)
       \/ /\ ~owned
          /\ UNCHANGED <<attempt, lease, expired, stage, ready, event, job,
                         project>>
    /\ UNCHANGED <<selected, issued, deferrals, outputs, eventLease>>

(* The handler reports its failure and the delivery is done.               *)
Fail(h) ==
    /\ h.phase # "executing"
    /\ FailAttempt(h.attempt, OwnsLease(h.attempt, h.token),
                   h.phase = "retryable", "failed")
    /\ handlers' = handlers \ {h}
    /\ UNCHANGED <<relayVars, waiting, expiredRead, faults>>

-----------------------------------------------------------------------------
(* Capacity deferral: the executor answered 429 before doing any work      *)

(* Mutant of MayDefer: one deferral too many.                              *)
MayDeferOnceMore(h) ==
    /\ JobActive
    /\ OwnsLease(h.attempt, h.token)
    /\ deferrals[h.attempt] <= MaxDeferrals

MayDefer(h) ==
    /\ JobActive
    /\ OwnsLease(h.attempt, h.token)
    /\ deferrals[h.attempt] < MaxDeferrals

(* The same attempt goes back to the queue behind a delay, through the     *)
(* published outbox event that delivered it.                               *)
DeferForCapacity(h) ==
    LET a == h.attempt
    IN  /\ h.phase = "executing"
        /\ MayDefer(h)
        /\ event[a] = "published"
        /\ attempt' = [attempt EXCEPT ![a] = "queued"]
        /\ lease' = [lease EXCEPT ![a] = 0]
        /\ expired' = expired \ {a}
        /\ deferrals' = [deferrals EXCEPT ![a] = @ + 1]
        /\ stage' = [stage EXCEPT ![a[1]] = "retry_wait"]
        /\ ready' = ready \ {a[1]}
        /\ event' = [event EXCEPT ![a] = "delayed"]
        /\ eventLease' = [eventLease EXCEPT ![a] = NoRelay]
        /\ handlers' = handlers \ {h}
        /\ UNCHANGED <<job, project, selected, issued, outputs, relayVars,
                       waiting, expiredRead, faults>>

(* SpeechAttemptDeliveryOutboxMissing: the event is not PUBLISHED, the     *)
(* transaction is rolled back and the error leaves the handler.            *)
DeferralRolledBack(h) ==
    /\ h.phase = "executing"
    /\ MayDefer(h)
    /\ event[h.attempt] # "published"
    /\ handlers' = handlers \ {h}
    /\ UNCHANGED <<workflowVars, outboxVars, relayVars, waiting, expiredRead,
                   faults>>

(* deferForCapacity returns false; the ordinary failure path follows.      *)
DeferralRefused(h) ==
    /\ h.phase = "executing"
    /\ ~MayDefer(h)
    /\ TurnTo(h, "retryable")
    /\ UNCHANGED <<workflowVars, outboxVars, relayVars, waiting, expiredRead,
                   faults>>

-----------------------------------------------------------------------------
(* Leases, heartbeats and recovery                                         *)

(* A heartbeat that still owns the lease pushes leased_until ahead, beyond *)
(* the cutoff of any recovery pass that has already read the row.          *)
Heartbeat(h) ==
    /\ OwnsLease(h.attempt, h.token)
    /\ h.attempt \in expired
    /\ expired' = expired \ {h.attempt}
    /\ expiredRead' = {e \in expiredRead : e[1] # h.attempt}
    /\ UNCHANGED <<job, project, selected, stage, ready, attempt, lease,
                   issued, deferrals, outputs, outboxVars, relayVars,
                   deliveryVars, faults>>

(* Time passes: no heartbeat has reached the row for a lease's length.     *)
LeaseExpires(a) ==
    /\ attempt[a] = "running"
    /\ a \notin expired
    /\ expired' = expired \cup {a}
    /\ UNCHANGED <<job, project, selected, stage, ready, attempt, lease,
                   issued, deferrals, outputs, outboxVars, relayVars,
                   deliveryVars, expiredRead, faults>>

(* Time passes: the back-off of a waiting stage ends.                      *)
BackoffEnds(s) ==
    /\ stage[s] = "retry_wait"
    /\ s \notin ready
    /\ ready' = ready \cup {s}
    /\ UNCHANGED <<job, project, selected, stage, attempt, lease, issued,
                   expired, deferrals, outputs, outboxVars, relayVars,
                   deliveryVars, expiredRead, faults>>

(* Mutant of ReplayDelivery: only first attempts are looked for.           *)
ReplayFirst(a) ==
    /\ event[a] = "published"
    /\ Claimable(a)
    /\ stage[a[1]] = "queued"
    /\ event' = [event EXCEPT ![a] = "pending"]
    /\ eventLease' = [eventLease EXCEPT ![a] = NoRelay]
    /\ UNCHANGED <<workflowVars, relayVars, deliveryVars, expiredRead, faults>>

(* Recovery, first query: a published command whose attempt is still       *)
(* queued after the cooldown is made pending again.                        *)
ReplayDelivery(a) ==
    /\ event[a] = "published"
    /\ Claimable(a)
    /\ event' = [event EXCEPT ![a] = "pending"]
    /\ eventLease' = [eventLease EXCEPT ![a] = NoRelay]
    /\ UNCHANGED <<workflowVars, relayVars, deliveryVars, expiredRead, faults>>

(* Recovery, second query: the attempts whose lease has expired are read.  *)
ExpiredRows ==
    {<<a, lease[a]>> : a \in {b \in expired : /\ attempt[b] = "running"
                                              /\ stage[b[1]] = "running"
                                              /\ job = "running"}}

ReadExpired ==
    /\ ExpiredRows \ expiredRead # {}
    /\ expiredRead' = expiredRead \cup ExpiredRows
    /\ UNCHANGED <<workflowVars, outboxVars, relayVars, deliveryVars, faults>>

(* Recovery, later: each row it read is failed as TIMED_OUT if its token   *)
(* is still the one read and its leased_until still before the cutoff, that*)
(* is, if no heartbeat has taken it out of expiredRead.                    *)
TimeOut(e) ==
    /\ FailAttempt(e[1], OwnsLease(e[1], e[2]), TRUE, "timed_out")
    /\ expiredRead' = expiredRead \ {e}
    /\ UNCHANGED <<relayVars, deliveryVars, faults>>

-----------------------------------------------------------------------------
(* The outbox relay                                                        *)

(* Time passes: available_at of a delayed event is reached.                *)
EventDue(a) ==
    /\ event[a] = "delayed"
    /\ event' = [event EXCEPT ![a] = "pending"]
    /\ UNCHANGED <<workflowVars, eventLease, relayVars, deliveryVars,
                   expiredRead, faults>>

(* Relay r leases a batch of due events; a publication whose lease has     *)
(* expired is due as well, whoever holds it.                               *)
LeaseBatch(r, B) ==
    /\ batch[r] = {}
    /\ B # {}
    /\ Cardinality(B) <= BatchLimit
    /\ \A a \in B : event[a] \in {"pending", "publishing"}
    /\ event' = [a \in Attempts |-> IF a \in B THEN "publishing" ELSE event[a]]
    /\ eventLease' = [a \in Attempts |-> IF a \in B THEN r ELSE eventLease[a]]
    /\ batch' = [batch EXCEPT ![r] = B]
    /\ UNCHANGED <<workflowVars, sent, deliveryVars, expiredRead, faults>>

(* A job of the same deterministic id that BullMQ has not finished makes   *)
(* the addition a no-op.                                                   *)
Enqueued(a) ==
    a \in waiting \/ \E h \in handlers : h.attempt = a /\ h.locked

Publish(r, a) ==
    /\ a \in batch[r]
    /\ sent[r] = {}
    /\ sent' = [sent EXCEPT ![r] = {a}]
    /\ waiting' = IF Enqueued(a) THEN waiting ELSE waiting \cup {a}
    /\ UNCHANGED <<workflowVars, outboxVars, batch, handlers, expiredRead,
                   faults>>

HoldsEvent(r, a) == event[a] = "publishing" /\ eventLease[a] = r

(* The settling compare-and-set on lease_id and status.                    *)
SettleEvent(r, a, status) ==
    /\ \/ /\ HoldsEvent(r, a)
          /\ event' = [event EXCEPT ![a] = status]
          /\ eventLease' = [eventLease EXCEPT ![a] = NoRelay]
       \/ /\ ~HoldsEvent(r, a)
          /\ UNCHANGED outboxVars
    /\ batch' = [batch EXCEPT ![r] = @ \ {a}]
    /\ sent' = [sent EXCEPT ![r] = @ \ {a}]

MarkPublished(r, a) ==
    /\ a \in sent[r]
    /\ SettleEvent(r, a, "published")
    /\ UNCHANGED <<workflowVars, deliveryVars, expiredRead, faults>>

(* Publication or its acknowledgement raises an error: the event becomes   *)
(* FAILED and is due again after a back-off.                               *)
PublishFails(r, a) ==
    /\ a \in batch[r]
    /\ sent[r] \subseteq {a}
    /\ Fault
    /\ SettleEvent(r, a, "delayed")
    /\ UNCHANGED <<workflowVars, deliveryVars, expiredRead>>

-----------------------------------------------------------------------------
(* Faults of the processes and of Redis                                    *)

(* The worker process dies.  BullMQ either detects the stalled delivery    *)
(* and queues it again, or drops it.                                       *)
HandlerCrashes(h) ==
    /\ Fault
    /\ handlers' = handlers \ {h}
    /\ \/ UNCHANGED waiting
       \/ h.locked /\ waiting' = waiting \cup {h.attempt}
    /\ UNCHANGED <<workflowVars, outboxVars, relayVars, expiredRead>>

(* A live handler misses its BullMQ lock renewal: the delivery is handed   *)
(* out a second time while the first is still being processed.             *)
DeliveryStalls(h) ==
    /\ h.locked
    /\ Fault
    /\ handlers' = (handlers \ {h}) \cup {[h EXCEPT !.locked = FALSE]}
    /\ waiting' = waiting \cup {h.attempt}
    /\ UNCHANGED <<workflowVars, outboxVars, relayVars, expiredRead>>

(* Redis loses a waiting delivery.                                         *)
DeliveryLost(a) ==
    /\ a \in waiting
    /\ Fault
    /\ waiting' = waiting \ {a}
    /\ UNCHANGED <<workflowVars, outboxVars, relayVars, handlers, expiredRead>>

(* A relay process dies and forgets its batch; the leases remain.          *)
RelayCrashes(r) ==
    /\ batch[r] # {}
    /\ Fault
    /\ batch' = [batch EXCEPT ![r] = {}]
    /\ sent' = [sent EXCEPT ![r] = {}]
    /\ UNCHANGED <<workflowVars, outboxVars, deliveryVars, expiredRead>>

-----------------------------------------------------------------------------
Answer(h) ==
    \/ Complete(h)
    \/ CompletionRefused(h)
    \/ WorkFails(h)
    \/ DeferForCapacity(h)
    \/ DeferralRolledBack(h)
    \/ DeferralRefused(h)

Next ==
    \/ \E a \in Attempts :
         \/ Claim(a)
         \/ ClaimNothing(a)
         \/ ExecutorNotReady(a)
         \/ LeaseExpires(a)
         \/ ReplayDelivery(a)
         \/ EventDue(a)
         \/ DeliveryLost(a)
    \/ \E h \in handlers :
         \/ Answer(h)
         \/ Fail(h)
         \/ Heartbeat(h)
         \/ HandlerCrashes(h)
         \/ DeliveryStalls(h)
    \/ \E s \in Stages : BackoffEnds(s)
    \/ ReadExpired
    \/ \E e \in expiredRead : TimeOut(e)
    \/ \E r \in Relays :
         \/ \E B \in SUBSET Attempts : LeaseBatch(r, B)
         \/ \E a \in Attempts :
              Publish(r, a) \/ MarkPublished(r, a) \/ PublishFails(r, a)
         \/ RelayCrashes(r)

Spec == Init /\ [][Next]_vars

(***************************************************************************)
(* Fairness.  The relay loop and its recovery queries run for ever, timers *)
(* fire, idle consumers take deliveries, and an executor call ends, with a *)
(* result or by its HTTP timeout.  A lease without a living handler is not *)
(* renewed.  Faults are never fair.                                        *)
(***************************************************************************)
Abandoned(a) == ~\E h \in handlers : h.attempt = a /\ OwnsLease(a, h.token)

Fairness ==
    /\ \A a \in Attempts :
         /\ WF_vars(Claim(a))
         /\ WF_vars(ClaimNothing(a))
         /\ WF_vars(EventDue(a))
         /\ WF_vars(ReplayDelivery(a))
         /\ WF_vars(Abandoned(a) /\ LeaseExpires(a))
         /\ WF_vars(\E r \in Relays, B \in SUBSET Attempts :
                      a \in B /\ LeaseBatch(r, B))
         /\ WF_vars(\E h \in handlers : h.attempt = a /\ (Answer(h) \/ Fail(h)))
         /\ \A r \in Relays : WF_vars(Publish(r, a)) /\ WF_vars(MarkPublished(r, a))
    /\ \A s \in Stages : WF_vars(BackoffEnds(s))
    /\ WF_vars(ReadExpired)
    /\ WF_vars(\E e \in expiredRead : TimeOut(e))

FairSpec == Spec /\ Fairness

-----------------------------------------------------------------------------
(* Properties                                                              *)

Live == {"queued", "running"}
LiveAttempts(s) == {a \in Attempts : a[1] = s /\ attempt[a] \in Live}
FinalStage == {"succeeded", "failed", "canceled"}

(* A stage leaves "blocked", other than by cancellation, only after every  *)
(* stage it depends on has succeeded, and those stay succeeded: unlocking, *)
(* retries and late failures never run a stage on missing inputs.          *)
DependenciesFirst ==
    \A s \in Stages : stage[s] \notin {"blocked", "canceled"} =>
        \A d \in Deps[s] : stage[d] = "succeeded"

(* A stage's status and its attempts agree after any interleaving of       *)
(* claims, failures, deferrals and recovery: exactly one live attempt      *)
(* while the stage is in flight and none otherwise, so that no queued      *)
(* attempt is hidden by its stage and no stage waits for nothing.          *)
StageHasItsAttempt ==
    \A s \in Stages :
        CASE stage[s] = "running" ->
               \E a \in Attempts : LiveAttempts(s) = {a} /\ attempt[a] = "running"
          [] stage[s] \in {"queued", "retry_wait"} ->
               \E a \in Attempts : LiveAttempts(s) = {a} /\ attempt[a] = "queued"
          [] OTHER -> LiveAttempts(s) = {}

(* The job's status is the verdict on its stages: it has succeeded, and    *)
(* the analysis is selected, exactly when all stages have; it has failed,  *)
(* and the project with it, exactly when one stage has, and then every     *)
(* stage is final: the failure of a stage leaves nothing running.          *)
VerdictMatchesStages ==
    /\ (job = "succeeded") <=> (\A s \in Stages : stage[s] = "succeeded")
    /\ selected <=> (job = "succeeded")
    /\ (job = "failed") <=> (\E s \in Stages : stage[s] = "failed")
    /\ (project = "failed") <=> (job = "failed")
    /\ job = "failed" => \A s \in Stages : stage[s] \in FinalStage

(* The results of at most one attempt of a stage are ever persisted, and   *)
(* only those of the attempt that succeeded: a handler whose lease was     *)
(* taken away commits nothing, however late it ends.                       *)
OneOutputPerStage ==
    \A s \in Stages :
        /\ outputs[s] = {a \in Attempts : a[1] = s /\ attempt[a] = "succeeded"}
        /\ \A a, b \in outputs[s] : a = b
        /\ outputs[s] # {} <=> stage[s] = "succeeded"

(* Of all the handlers still working for a stage, one at most can settle   *)
(* it: duplicated deliveries and zombies of expired leases own nothing.    *)
OneOwnerPerStage ==
    \A g, h \in handlers :
        /\ g.attempt[1] = h.attempt[1]
        /\ OwnsLease(g.attempt, g.token)
        /\ OwnsLease(h.attempt, h.token)
        => g = h

(* An attempt is created only after its predecessor has failed or timed    *)
(* out: no retry runs beside the attempt it replaces or after a success.   *)
RetryFollowsFailure ==
    \A a \in Attempts : attempt[a] # "absent" =>
        \A n \in 1 .. (a[2] - 1) : attempt[<<a[1], n>>] \in {"failed", "timed_out"}

(* A terminal status is never left: the late completion of a stage never   *)
(* revives a failed job, and no late failure takes a success back.         *)
TerminalIsFinal ==
    [][/\ job \in {"succeeded", "failed"} => job' = job
       /\ \A s \in Stages : stage[s] \in FinalStage => stage'[s] = stage[s]
       /\ \A a \in Attempts :
            attempt[a] \notin Live \cup {"absent"} => attempt'[a] = attempt[a]
      ]_vars

(* The job implements the pipeline that the rest of the system relies on:  *)
(* outputs are committed once, in dependency order, never after a verdict. *)
Pipeline == INSTANCE WorkflowPipeline WITH
    committed <- {s \in Stages : stage[s] = "succeeded"},
    verdict <- IF job \in {"succeeded", "failed"} THEN job ELSE "open"

ImplementsPipeline == Pipeline!Spec

(* Whatever finite number of crashes, lost deliveries and refused calls,   *)
(* the job reaches a verdict: recovery and the outbox lose no attempt.     *)
JobFinishes == <>(job \in {"succeeded", "failed"})

(* A capacity rejection precedes any execution, so an attempt that still   *)
(* has deferrals left goes back to its queue and is not spent: "it can     *)
(* safely return the same immutable attempt to the delivery queue without  *)
(* consuming a semantic model attempt" (comment on deferForCapacity).      *)
DeferralReturnsAttempt ==
    [][\A h \in handlers : DeferForCapacity(h) \/ DeferralRolledBack(h)
         => attempt'[h.attempt] = "queued"]_vars
=============================================================================
