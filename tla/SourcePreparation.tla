------------------------- MODULE SourcePreparation -------------------------
(***************************************************************************)
(* Preparation of a clean source: the job with its single stage and the    *)
(* attempts in PostgreSQL, the outbox commands, the handlers of the media  *)
(* worker, and the two reconcilers before and after it.                    *)
(*                                                                         *)
(* Unlike the speech coordinator this worker locks no job row.  Each of    *)
(* its transactions stands or falls with a compare-and-set on one attempt, *)
(* which makes it one action here; and an expired lease is first reclaimed *)
(* in place, by another delivery of the same attempt, then timed out.      *)
(* Time is a choice, as in SpeechWorkflow.                                 *)
(***************************************************************************)
EXTENDS Naturals, FiniteSets

CONSTANTS
    MaxAttempts,    \* max_attempts of the stage
    MaxRecoveries,  \* MAX_LEASE_RECOVERIES_PER_ATTEMPT
    Concurrency,    \* deliveries the workers process at once
    MaxFaults       \* bound on crashes, stalls and lost deliveries

ASSUME PreparationAssumption ==
    /\ MaxAttempts \in Nat \ {0}
    /\ MaxRecoveries \in Nat
    /\ Concurrency \in Nat
    /\ MaxFaults \in Nat

Attempts == 1 .. MaxAttempts

VARIABLES
    job,        \* workflow_jobs.status, "absent" without a row
    stage,      \* workflow_stages.status
    ready,      \* ready_at has passed
    attempt,    \* workflow_stage_attempts.status, "absent" without a row
    lease,      \* lease_token, 0 for null
    issued,     \* the tokens drawn so far
    expired,    \* running attempts whose leased_until has passed
    recoveries, \* recovery_count
    artifacts,  \* attempts whose artifacts and probe are persisted
    project,    \* projects.status, as far as this job changes it
    enabled,    \* the deployment runs speech analysis
    speech,     \* the speech-analysis job exists
    event,      \* outbox event of an attempt's command
    waiting,    \* attempts with a delivery waiting in BullMQ
    handlers,   \* deliveries being processed
    closing,    \* rows a recovery pass has read as exhausted, with
                \* leased_until still before its cutoff
    faults      \* faults injected so far

jobVars == <<job, stage, ready, project>>
attemptVars == <<attempt, lease, issued, expired, recoveries>>
resultVars == <<artifacts, enabled, speech>>
deliveryVars == <<waiting, handlers>>
vars == <<jobVars, attemptVars, resultVars, event, deliveryVars, closing, faults>>

Terminal == {"succeeded", "failed"}
Handlers == [attempt : Attempts, token : Nat,
             phase : {"executing", "retryable", "fatal"}, locked : BOOLEAN]

TypeOK ==
    /\ job \in {"absent", "queued", "running"} \cup Terminal
    /\ stage \in {"absent", "queued", "running", "retry_wait"} \cup Terminal
    /\ ready \in BOOLEAN
    /\ project \in {"ingesting", "processing", "failed"}
    /\ attempt \in [Attempts -> {"absent", "queued", "running", "succeeded",
                                 "failed", "timed_out"}]
    /\ lease \in [Attempts -> Nat]
    /\ issued \in [Attempts -> Nat]
    /\ expired \in SUBSET Attempts
    /\ recoveries \in [Attempts -> 0 .. MaxRecoveries]
    /\ artifacts \in SUBSET Attempts
    /\ enabled \in BOOLEAN
    /\ speech \in BOOLEAN
    /\ event \in [Attempts -> {"absent", "delayed", "pending", "published"}]
    /\ waiting \in SUBSET Attempts
    /\ handlers \in SUBSET Handlers
    /\ closing \in SUBSET (Attempts \X Nat)
    /\ faults \in 0 .. MaxFaults

(* A clean video without a workflow: the scan's verdict is about to create *)
(* it, or was given before the workflow tables existed.                    *)
Init ==
    /\ job = "absent"
    /\ stage = "absent"
    /\ ready = FALSE
    /\ project = "ingesting"
    /\ attempt = [a \in Attempts |-> "absent"]
    /\ lease = [a \in Attempts |-> 0]
    /\ issued = [a \in Attempts |-> 0]
    /\ expired = {}
    /\ recoveries = [a \in Attempts |-> 0]
    /\ artifacts = {}
    /\ enabled \in BOOLEAN
    /\ speech = FALSE
    /\ event = [a \in Attempts |-> "absent"]
    /\ waiting = {}
    /\ handlers = {}
    /\ closing = {}
    /\ faults = 0

Fault == faults < MaxFaults /\ faults' = faults + 1

(* Mutant of OwnsLease: the attempt is updated by its id alone.            *)
OwnsUnchecked(a, token) == attempt[a] \notin {"absent", "queued"}

(* The compare-and-set every settling transaction makes on the attempt.    *)
OwnsLease(a, token) == attempt[a] = "running" /\ lease[a] = token

-----------------------------------------------------------------------------
(* Before and after the job                                                *)

(* The verdict's transaction or the reconciler creates the workflow; every *)
(* row is an upsert on a business key, so a second run changes nothing.    *)
Initialize ==
    /\ job = "absent"
    /\ job' = "queued"
    /\ stage' = "queued"
    /\ ready' = TRUE
    /\ attempt' = [attempt EXCEPT ![1] = "queued"]
    /\ event' = [event EXCEPT ![1] = "pending"]
    /\ project' = "processing"
    /\ UNCHANGED <<lease, issued, expired, recoveries, resultVars, deliveryVars,
                   closing, faults>>

(* Speech analysis is switched on in a deployment.                         *)
Enable ==
    /\ ~enabled
    /\ enabled' = TRUE
    /\ UNCHANGED <<jobVars, attemptVars, artifacts, speech, event, deliveryVars,
                   closing, faults>>

(* Mutant of LacksSpeech: preparations that a retry finished are missed.   *)
LacksSpeechOfFirst == job = "succeeded" /\ 1 \in artifacts /\ ~speech

(* What the speech reconciler looks for: a finished preparation with its   *)
(* artifacts and no speech job.                                            *)
LacksSpeech == job = "succeeded" /\ artifacts # {} /\ ~speech

ReconcileSpeech ==
    /\ enabled
    /\ LacksSpeech
    /\ speech' = TRUE
    /\ UNCHANGED <<jobVars, attemptVars, artifacts, enabled, event, deliveryVars,
                   closing, faults>>

-----------------------------------------------------------------------------
(* Delivery                                                                *)

EventDue(a) ==
    /\ event[a] = "delayed"
    /\ event' = [event EXCEPT ![a] = "pending"]
    /\ UNCHANGED <<jobVars, attemptVars, resultVars, deliveryVars, closing, faults>>

BackoffEnds ==
    /\ stage = "retry_wait"
    /\ ~ready
    /\ ready' = TRUE
    /\ UNCHANGED <<job, stage, project, attemptVars, resultVars, event,
                   deliveryVars, closing, faults>>

(* A job of the same id that BullMQ has not finished makes it a no-op.     *)
Enqueued(a) == a \in waiting \/ \E h \in handlers : h.attempt = a /\ h.locked

(* The relay enqueues the command; one that dies before it marks the event *)
(* leaves it to be leased again.                                           *)
Publish(a) ==
    /\ event[a] = "pending"
    /\ \/ event' = [event EXCEPT ![a] = "published"] /\ UNCHANGED faults
       \/ Fault /\ UNCHANGED event
    /\ waiting' = IF Enqueued(a) THEN waiting ELSE waiting \cup {a}
    /\ UNCHANGED <<jobVars, attemptVars, resultVars, handlers, closing>>

-----------------------------------------------------------------------------
(* Claiming                                                                *)

Claimable(a) ==
    /\ attempt[a] = "queued"
    /\ stage \in {"queued", "retry_wait"}
    /\ job \in {"queued", "running"}

Reclaimable(a) ==
    /\ attempt[a] = "running"
    /\ a \in expired
    /\ recoveries[a] < MaxRecoveries
    /\ stage = "running"
    /\ job = "running"

(* The claiming handler holds a fresh token.                               *)
Takes(a) ==
    /\ a \in waiting
    /\ Cardinality(handlers) < Concurrency
    /\ attempt' = [attempt EXCEPT ![a] = "running"]
    /\ issued' = [issued EXCEPT ![a] = @ + 1]
    /\ lease' = [lease EXCEPT ![a] = issued[a] + 1]
    /\ expired' = expired \ {a}
    /\ stage' = "running"
    /\ job' = "running"
    /\ waiting' = waiting \ {a}
    /\ handlers' = handlers \cup
         {[attempt |-> a, token |-> issued[a] + 1,
           phase |-> "executing", locked |-> TRUE]}
    /\ UNCHANGED <<ready, project, resultVars, event, closing, faults>>

Claim(a) ==
    /\ Claimable(a)
    /\ Takes(a)
    /\ UNCHANGED recoveries

(* The attempt keeps its identity and its output namespace, so that the    *)
(* executor finds what the lost handler has already written.               *)
Reclaim(a) ==
    /\ Reclaimable(a)
    /\ Takes(a)
    /\ recoveries' = [recoveries EXCEPT ![a] = @ + 1]

(* A duplicate delivery of an owned or settled attempt is dropped.         *)
ClaimNothing(a) ==
    /\ a \in waiting
    /\ Cardinality(handlers) < Concurrency
    /\ ~Claimable(a)
    /\ ~Reclaimable(a)
    /\ waiting' = waiting \ {a}
    /\ UNCHANGED <<jobVars, attemptVars, resultVars, event, handlers, closing,
                   faults>>

-----------------------------------------------------------------------------
(* Settling                                                                *)

(* The rows of the artifacts, and of the probe with its streams and the    *)
(* one that was selected.                                                  *)
Persists(a) == artifacts' = artifacts \cup {a}

(* The verified artifacts, the probe and, when enabled, the speech job are *)
(* committed with the success.                                             *)
Complete(h) ==
    LET a == h.attempt
    IN  /\ h.phase = "executing"
        /\ OwnsLease(a, h.token)
        /\ attempt' = [attempt EXCEPT ![a] = "succeeded"]
        /\ lease' = [lease EXCEPT ![a] = 0]
        /\ expired' = expired \ {a}
        /\ Persists(a)
        /\ speech' = (speech \/ enabled)
        /\ stage' = "succeeded"
        /\ job' = "succeeded"
        /\ handlers' = handlers \ {h}
        /\ UNCHANGED <<ready, project, issued, recoveries, enabled, event,
                       waiting, closing, faults>>

(* The preconditions, the executor, the verification of its artifacts or   *)
(* the completing transaction fail; fail is still to be called.            *)
WorkFails(h) ==
    /\ h.phase = "executing"
    /\ \E phase \in {"retryable", "fatal"} :
         handlers' = (handlers \ {h}) \cup {[h EXCEPT !.phase = phase]}
    /\ UNCHANGED <<jobVars, attemptVars, resultVars, event, waiting, closing, faults>>

(* Mutant of MayRetry: one attempt too few.                                *)
MayRetryOnceLess(a, retryable) == retryable /\ a + 1 < MaxAttempts

MayRetry(a, retryable) == retryable /\ a < MaxAttempts

(* A new attempt is queued behind an exponential back-off.                 *)
ScheduleRetry(a, status) ==
    /\ attempt' = [attempt EXCEPT ![a] = status, ![a + 1] = "queued"]
    /\ event' = [event EXCEPT ![a + 1] = "delayed"]
    /\ stage' = "retry_wait"
    /\ ready' = FALSE
    /\ UNCHANGED <<job, project>>

(* Mutant of FailJob: the job is left as it is.                            *)
FailStageOnly(a, status) ==
    /\ attempt' = [attempt EXCEPT ![a] = status]
    /\ stage' = "failed"
    /\ UNCHANGED <<job, project, ready, event>>

FailJob(a, status) ==
    /\ attempt' = [attempt EXCEPT ![a] = status]
    /\ stage' = "failed"
    /\ job' = "failed"
    /\ project' = "failed"
    /\ UNCHANGED <<ready, event>>

FailAttempt(a, owned, retryable, status) ==
    /\ \/ /\ owned
          /\ IF MayRetry(a, retryable) THEN ScheduleRetry(a, status)
                                       ELSE FailJob(a, status)
          /\ lease' = [lease EXCEPT ![a] = 0]
          /\ expired' = expired \ {a}
       \/ /\ ~owned
          /\ UNCHANGED <<jobVars, attempt, lease, expired, event>>
    /\ UNCHANGED <<issued, recoveries, resultVars>>

Fail(h) ==
    /\ h.phase # "executing"
    /\ FailAttempt(h.attempt, OwnsLease(h.attempt, h.token),
                   h.phase = "retryable", "failed")
    /\ handlers' = handlers \ {h}
    /\ UNCHANGED <<waiting, closing, faults>>

-----------------------------------------------------------------------------
(* Leases and recovery                                                     *)

(* leased_until moves ahead of the cutoff of every pass that read the row. *)
Heartbeat(h) ==
    /\ OwnsLease(h.attempt, h.token)
    /\ h.attempt \in expired
    /\ expired' = expired \ {h.attempt}
    /\ closing' = {e \in closing : e[1] # h.attempt}
    /\ UNCHANGED <<jobVars, attempt, lease, issued, recoveries, resultVars, event,
                   deliveryVars, faults>>

LeaseExpires(a) ==
    /\ attempt[a] = "running"
    /\ a \notin expired
    /\ expired' = expired \cup {a}
    /\ UNCHANGED <<jobVars, attempt, lease, issued, recoveries, resultVars, event,
                   deliveryVars, closing, faults>>

Stranded(a) == (Claimable(a) /\ ready) \/ Reclaimable(a)

(* Recovery, first query: the command of a stranded attempt is pending     *)
(* again once the cooldown after its publication is over.                  *)
Replay(a) ==
    /\ event[a] = "published"
    /\ Stranded(a)
    /\ event' = [event EXCEPT ![a] = "pending"]
    /\ UNCHANGED <<jobVars, attemptVars, resultVars, deliveryVars, closing, faults>>

(* Recovery, second query: leases that expired with no reclaim left.       *)
ExhaustedRows ==
    {<<a, lease[a]>> : a \in {b \in expired : /\ attempt[b] = "running"
                                              /\ recoveries[b] >= MaxRecoveries
                                              /\ stage = "running"
                                              /\ job = "running"}}

ReadExhausted ==
    /\ ExhaustedRows \ closing # {}
    /\ closing' = closing \cup ExhaustedRows
    /\ UNCHANGED <<jobVars, attemptVars, resultVars, event, deliveryVars, faults>>

(* Recovery, later: what it read is timed out if nothing has moved it.     *)
TimeOut(e) ==
    /\ FailAttempt(e[1], OwnsLease(e[1], e[2]), TRUE, "timed_out")
    /\ closing' = closing \ {e}
    /\ UNCHANGED <<deliveryVars, faults>>

-----------------------------------------------------------------------------
(* Faults                                                                  *)

(* The worker dies or cannot record its failure; BullMQ queues the stalled *)
(* delivery again, or drops it.                                            *)
HandlerCrashes(h) ==
    /\ Fault
    /\ handlers' = handlers \ {h}
    /\ \/ UNCHANGED waiting
       \/ h.locked /\ waiting' = waiting \cup {h.attempt}
    /\ UNCHANGED <<jobVars, attemptVars, resultVars, event, closing>>

(* A live handler misses its lock renewal: its job counts as stalled, too. *)
DeliveryStalls(h) ==
    /\ h.locked
    /\ Fault
    /\ handlers' = (handlers \ {h}) \cup {[h EXCEPT !.locked = FALSE]}
    /\ waiting' \in {waiting, waiting \cup {h.attempt}}
    /\ UNCHANGED <<jobVars, attemptVars, resultVars, event, closing>>

(* Redis loses a waiting delivery.                                         *)
DeliveryLost(a) ==
    /\ a \in waiting
    /\ Fault
    /\ waiting' = waiting \ {a}
    /\ UNCHANGED <<jobVars, attemptVars, resultVars, event, handlers, closing>>

-----------------------------------------------------------------------------
Proceed(h) == Complete(h) \/ WorkFails(h) \/ Fail(h)

Next ==
    \/ Initialize
    \/ Enable
    \/ ReconcileSpeech
    \/ BackoffEnds
    \/ ReadExhausted
    \/ \E a \in Attempts :
         \/ EventDue(a)
         \/ Publish(a)
         \/ Claim(a)
         \/ Reclaim(a)
         \/ ClaimNothing(a)
         \/ LeaseExpires(a)
         \/ Replay(a)
         \/ DeliveryLost(a)
    \/ \E h \in handlers :
         \/ Proceed(h)
         \/ Heartbeat(h)
         \/ HandlerCrashes(h)
         \/ DeliveryStalls(h)
    \/ \E e \in closing : TimeOut(e)

Spec == Init /\ [][Next]_vars

(* The relay and recovery loops run for ever, timers fire, idle workers    *)
(* take deliveries, handlers end and a lease nobody renews expires.        *)
Abandoned(a) == ~\E h \in handlers : h.attempt = a /\ OwnsLease(a, h.token)

Fairness ==
    /\ WF_vars(Initialize)
    /\ WF_vars(ReconcileSpeech)
    /\ WF_vars(BackoffEnds)
    /\ WF_vars(ReadExhausted)
    /\ WF_vars(\E e \in closing : TimeOut(e))
    /\ \A a \in Attempts :
         /\ WF_vars(EventDue(a))
         /\ WF_vars(Publish(a))
         /\ WF_vars(Claim(a))
         /\ WF_vars(Reclaim(a))
         /\ WF_vars(ClaimNothing(a))
         /\ WF_vars(Abandoned(a) /\ LeaseExpires(a))
         /\ WF_vars(Replay(a))
         /\ WF_vars(\E h \in handlers : h.attempt = a /\ Proceed(h))

FairSpec == Spec /\ Fairness

-----------------------------------------------------------------------------
(* Properties                                                              *)

Live == {a \in Attempts : attempt[a] \in {"queued", "running"}}

(* Job, stage, project and attempts agree, without a lock on the job: one  *)
(* live attempt while the stage is in flight, the stage's verdict for the  *)
(* job, and no attempt before its predecessors have failed or timed out,   *)
(* or with more reclaims than it is allowed.                               *)
StageFollowsAttempts ==
    /\ TypeOK
    /\ CASE stage = "running" -> \E a \in Attempts : Live = {a} /\ attempt[a] = "running"
         [] stage \in {"queued", "retry_wait"} ->
              \E a \in Attempts : Live = {a} /\ attempt[a] = "queued"
         [] OTHER -> Live = {}
    /\ (job \in Terminal \/ stage \in Terminal) => job = stage
    /\ (project = "failed") <=> (job = "failed")
    /\ \A a \in Attempts : attempt[a] # "absent" =>
         \A b \in 1 .. (a - 1) : attempt[b] \in {"failed", "timed_out"}

(* One handler at most can settle an attempt, although a reclaim gives the *)
(* same attempt a second handler while the first may be alive; and the     *)
(* artifacts are those of the one attempt that succeeded, from which alone *)
(* speech analysis starts.                                                 *)
OneResult ==
    /\ \A g, h \in handlers :
         OwnsLease(g.attempt, g.token) /\ OwnsLease(h.attempt, h.token) => g = h
    /\ artifacts = {a \in Attempts : attempt[a] = "succeeded"}
    /\ Cardinality(artifacts) <= 1
    /\ speech => artifacts # {}

(* Preparation implements the pipeline with a single stage: one output, no *)
(* output after a verdict, and a verdict that is final.                    *)
Pipeline == INSTANCE WorkflowPipeline WITH
    Stages <- {"source_media_preparation"},
    Deps <- [s \in {"source_media_preparation"} |-> {}],
    committed <- IF stage = "succeeded" THEN {"source_media_preparation"} ELSE {},
    verdict <- IF job \in Terminal THEN job ELSE "open"

ImplementsPipeline == Pipeline!Spec

(* The retry budget is used to the end: a lease that no reclaim saved and  *)
(* recovery timed out fails the job only with the last attempt.            *)
BudgetIsUsed ==
    [][\A a \in Attempts :
         attempt[a] = "running" /\ attempt'[a] = "timed_out" /\ job' = "failed"
           => a = MaxAttempts]_vars

(* Every clean source is prepared or fails for good, whatever finite       *)
(* number of crashes and lost deliveries; and where speech analysis is     *)
(* enabled, before or after, a prepared source gets its speech job.        *)
PreparationSettles ==
    /\ <>(job \in Terminal)
    /\ (job = "succeeded" /\ enabled) ~> speech
=============================================================================
