------------------------ MODULE TranslationGeneration ------------------------
(***************************************************************************)
(* The life of one scene-translation generation: its row in PostgreSQL,    *)
(* the outbox events that wake a worker for it (one from the request and   *)
(* one for each retry), the handlers of the translation worker and the     *)
(* recovery pass.                                                          *)
(*                                                                         *)
(* All attempts share the row: a retry puts the row itself back in the     *)
(* queue, and any delivery, of whatever event, claims whatever attempt is  *)
(* next.  That the committed selections are those of the snapshot is the   *)
(* subject of Localization.  Time is a choice, as in SpeechWorkflow.       *)
(*                                                                         *)
(* The loop of one worker process is followed step by step, for it is what *)
(* must bring the generation to its end: recovery and relay take turns,    *)
(* and an exception skips the rest of a pass.  The loops of the other      *)
(* processes take the same steps at any time, or never.                    *)
(***************************************************************************)
EXTENDS Naturals, FiniteSets

CONSTANTS
    MaxAttempts,  \* max_attempts of the row
    Concurrency,  \* deliveries the workers process at once
    MaxFaults     \* bound on crashes, stalls and lost deliveries

ASSUME GenerationAssumption ==
    /\ MaxAttempts \in Nat \ {0}
    /\ Concurrency \in Nat
    /\ MaxFaults \in Nat

(* Event n is there to start attempt n, and has a BullMQ job of its own.   *)
Events == 1 .. MaxAttempts

VARIABLES
    status,    \* translation_generations.status
    attempts,  \* attempt_count
    lease,     \* lease_token (and execution_id), 0 for null
    issued,    \* the tokens drawn so far
    expired,   \* leased_until has passed
    results,   \* the claims whose revisions are persisted
    event,     \* the outbox events
    waiting,   \* events with a delivery waiting in BullMQ
    handlers,  \* deliveries being processed
    closing,   \* tokens a recovery pass has read as expired, with
               \* leased_until still before its cutoff
    faults,    \* faults injected so far
    pass       \* the step at which the loop of the followed process is

rowVars == <<status, attempts, lease, issued, expired, results>>
vars == <<rowVars, event, waiting, handlers, closing, faults, pass>>

Terminal == {"succeeded", "failed"}
Handlers == [event : Events, token : Nat,
             phase : {"executing", "retryable", "fatal"}, locked : BOOLEAN]

TypeOK ==
    /\ status \in {"queued", "running"} \cup Terminal
    /\ attempts \in 0 .. MaxAttempts
    /\ lease \in Nat
    /\ issued \in Nat
    /\ expired \in BOOLEAN
    /\ results \in SUBSET Nat
    /\ event \in [Events -> {"absent", "delayed", "pending", "published"}]
    /\ waiting \in SUBSET Events
    /\ handlers \in SUBSET Handlers
    /\ closing \in SUBSET Nat
    /\ faults \in 0 .. MaxFaults
    /\ pass \in {"replay", "read", "close", "relay", "ended"}

(* The state createGenerationTransaction commits.                          *)
Init ==
    /\ status = "queued"
    /\ attempts = 0
    /\ lease = 0
    /\ issued = 0
    /\ expired = FALSE
    /\ results = {}
    /\ event = [n \in Events |-> IF n = 1 THEN "pending" ELSE "absent"]
    /\ waiting = {}
    /\ handlers = {}
    /\ closing = {}
    /\ faults = 0
    /\ pass = "replay"

Fault == faults < MaxFaults /\ faults' = faults + 1

-----------------------------------------------------------------------------
(* Delivery                                                                *)

(* The back-off of a retry ends.                                           *)
EventDue(n) ==
    /\ event[n] = "delayed"
    /\ event' = [event EXCEPT ![n] = "pending"]
    /\ UNCHANGED <<rowVars, waiting, handlers, closing, faults>>

(* A job of the same id that BullMQ has not finished makes it a no-op.     *)
Enqueued(n) == n \in waiting \/ \E h \in handlers : h.event = n /\ h.locked

(* The relay enqueues the command; one that dies before it marks the event *)
(* leaves it to be leased again.                                           *)
Publish(n) ==
    /\ event[n] = "pending"
    /\ \/ event' = [event EXCEPT ![n] = "published"] /\ UNCHANGED faults
       \/ Fault /\ UNCHANGED event
    /\ waiting' = IF Enqueued(n) THEN waiting ELSE waiting \cup {n}
    /\ UNCHANGED <<rowVars, handlers, closing>>

(* Redis refuses the command: the event has failed until a back-off ends.  *)
PublishFails(n) ==
    /\ event[n] = "pending"
    /\ Fault
    /\ event' = [event EXCEPT ![n] = "delayed"]
    /\ UNCHANGED <<rowVars, waiting, handlers, closing>>

-----------------------------------------------------------------------------
(* Claiming and settling                                                   *)

Claimable == status = "queued" /\ attempts < MaxAttempts

(* The executor reports ready, and the row is claimed by compare-and-set.  *)
Claim(n) ==
    /\ n \in waiting
    /\ Cardinality(handlers) < Concurrency
    /\ Claimable
    /\ status' = "running"
    /\ attempts' = attempts + 1
    /\ issued' = issued + 1
    /\ lease' = issued + 1
    /\ expired' = FALSE
    /\ waiting' = waiting \ {n}
    /\ handlers' = handlers \cup
         {[event |-> n, token |-> issued + 1, phase |-> "executing", locked |-> TRUE]}
    /\ UNCHANGED <<results, event, closing, faults>>

(* Nothing to claim; a queued row without a budget would be failed.        *)
ClaimNothing(n) ==
    /\ n \in waiting
    /\ Cardinality(handlers) < Concurrency
    /\ ~Claimable
    /\ status' = IF status = "queued" THEN "failed" ELSE status
    /\ waiting' = waiting \ {n}
    /\ UNCHANGED <<attempts, lease, issued, expired, results, event, handlers,
                   closing, faults>>

(* Mutant of Owns: by id alone; the handler has been claimed for once.     *)
OwnsUnchecked(token) == status # "queued"

Owns(token) == status = "running" /\ lease = token

(* The revisions of all lines and the success are committed together,      *)
(* under a lease that is still running.                                    *)
Complete(h) ==
    /\ h.phase = "executing"
    /\ Owns(h.token)
    /\ ~expired
    /\ status' = "succeeded"
    /\ lease' = 0
    /\ results' = results \cup {h.token}
    /\ handlers' = handlers \ {h}
    /\ UNCHANGED <<attempts, issued, expired, event, waiting, closing, faults>>

(* The snapshot is broken or stale or the executor refuses (fatal); the    *)
(* executor is out of order, the lease is lost or the transaction conflicts*)
(* with an edit (retryable).                                               *)
WorkFails(h) ==
    /\ h.phase = "executing"
    /\ \E phase \in {"retryable", "fatal"} :
         handlers' = (handlers \ {h}) \cup {[h EXCEPT !.phase = phase]}
    /\ UNCHANGED <<rowVars, event, waiting, closing, faults>>

(* Mutant of MayRetry: a retry more than the budget has.                   *)
MayRetryOnceMore(retryable) == retryable /\ attempts <= MaxAttempts

MayRetry(retryable) == retryable /\ attempts < MaxAttempts

(* The row goes back to the queue, with an event behind a back-off, or it  *)
(* has failed.                                                             *)
Release(retryable) ==
    /\ IF MayRetry(retryable)
       THEN /\ status' = "queued"
            /\ event' = [event EXCEPT ![attempts + 1] = "delayed"]
       ELSE /\ status' = "failed"
            /\ UNCHANGED event
    /\ lease' = 0
    /\ expired' = FALSE
    /\ UNCHANGED <<attempts, issued, results>>

Fail(h) ==
    /\ h.phase # "executing"
    /\ IF Owns(h.token) /\ ~expired THEN Release(h.phase = "retryable")
                                    ELSE UNCHANGED <<rowVars, event>>
    /\ handlers' = handlers \ {h}
    /\ UNCHANGED <<waiting, closing, faults>>

-----------------------------------------------------------------------------
(* Leases and recovery                                                     *)

(* leased_until moves ahead of the cutoff of every pass that read the row. *)
Heartbeat(h) ==
    /\ Owns(h.token)
    /\ expired
    /\ expired' = FALSE
    /\ closing' = closing \ {h.token}
    /\ UNCHANGED <<status, attempts, lease, issued, results, event, waiting,
                   handlers, faults>>

LeaseExpires ==
    /\ status = "running"
    /\ ~expired
    /\ expired' = TRUE
    /\ UNCHANGED <<status, attempts, lease, issued, results, event, waiting,
                   handlers, closing, faults>>

(* Mutant of Stranded: a first command is never taken to be lost.          *)
StrandedRetry(n) == n > 1 /\ event[n] = "published" /\ status = "queued"

Stranded(n) == event[n] = "published" /\ status = "queued"

(* Recovery, first query: commands of a queued generation published long   *)
(* enough ago are pending again, those of earlier attempts, too.           *)
Replay(n) ==
    /\ Stranded(n)
    /\ event' = [event EXCEPT ![n] = "pending"]
    /\ UNCHANGED <<rowVars, waiting, handlers, closing, faults>>

(* Recovery, second query: the lease has expired.                          *)
ReadExpired ==
    /\ status = "running"
    /\ expired
    /\ lease \notin closing
    /\ closing' = closing \cup {lease}
    /\ UNCHANGED <<rowVars, event, waiting, handlers, faults>>

(* Recovery, later: the claim it read is failed if nothing has moved it.   *)
TimeOut(token) ==
    /\ IF Owns(token) THEN Release(TRUE) ELSE UNCHANGED <<rowVars, event>>
    /\ closing' = closing \ {token}
    /\ UNCHANGED <<waiting, handlers, faults>>

-----------------------------------------------------------------------------
(* The loop of the followed process                                        *)

(* A pass begins with the replay, by which time every command that was     *)
(* lost has become old enough.                                             *)
PassReplays ==
    /\ pass = "replay"
    /\ event' = [n \in Events |-> IF Stranded(n) THEN "pending" ELSE event[n]]
    /\ pass' = "read"
    /\ UNCHANGED <<rowVars, waiting, handlers, closing, faults>>

PassReads ==
    /\ pass = "read"
    /\ closing' = IF status = "running" /\ expired THEN closing \cup {lease} ELSE closing
    /\ pass' = "close"
    /\ UNCHANGED <<rowVars, event, waiting, handlers, faults>>

PassCloses ==
    /\ pass = "close"
    /\ \/ \E token \in closing : TimeOut(token) /\ UNCHANGED pass
       \/ /\ closing = {}
          /\ pass' = "relay"
          /\ UNCHANGED <<rowVars, event, waiting, handlers, closing, faults>>

(* The relay comes last; with nothing left to publish the next pass begins.*)
PassRelays ==
    /\ pass = "relay"
    /\ \/ \E n \in Events : Publish(n) /\ UNCHANGED pass
       \/ /\ \A n \in Events : event[n] # "pending"
          /\ pass' = "replay"
          /\ UNCHANGED <<rowVars, event, waiting, handlers, closing, faults>>

(* The executor is not ready: this pass recovers nothing.                  *)
PassIsUnready ==
    /\ pass = "replay"
    /\ Fault
    /\ pass' = "relay"
    /\ UNCHANGED <<rowVars, event, waiting, handlers, closing>>

(* Mutant of AfterError: the exception is caught outside of the loop.      *)
AfterErrorEnds == "ended"

AfterError == "replay"

(* A step throws, here or in another component's part of the pass, or the  *)
(* process restarts: the rest of the pass is skipped.                      *)
PassThrows ==
    /\ pass # "ended"
    /\ Fault
    /\ pass' = AfterError
    /\ UNCHANGED <<rowVars, event, waiting, handlers, closing>>

Pass == PassReplays \/ PassReads \/ PassCloses \/ PassRelays

-----------------------------------------------------------------------------
(* Faults                                                                  *)

(* The worker dies or cannot record its failure; BullMQ queues the stalled *)
(* delivery again, or drops it.                                            *)
HandlerCrashes(h) ==
    /\ Fault
    /\ handlers' = handlers \ {h}
    /\ \/ UNCHANGED waiting
       \/ h.locked /\ waiting' = waiting \cup {h.event}
    /\ UNCHANGED <<rowVars, event, closing>>

(* A live handler misses its lock renewal: its job counts as stalled, too. *)
DeliveryStalls(h) ==
    /\ h.locked
    /\ Fault
    /\ handlers' = (handlers \ {h}) \cup {[h EXCEPT !.locked = FALSE]}
    /\ waiting' \in {waiting, waiting \cup {h.event}}
    /\ UNCHANGED <<rowVars, event, closing>>

(* Redis loses a delivery, or the executor is not ready for it.            *)
DeliveryLost(n) ==
    /\ n \in waiting
    /\ Fault
    /\ waiting' = waiting \ {n}
    /\ UNCHANGED <<rowVars, event, handlers, closing>>

-----------------------------------------------------------------------------
Proceed(h) == Complete(h) \/ WorkFails(h) \/ Fail(h)

Others ==
    \/ \E n \in Events :
         \/ EventDue(n)
         \/ Publish(n)
         \/ PublishFails(n)
         \/ Claim(n)
         \/ ClaimNothing(n)
         \/ Replay(n)
         \/ DeliveryLost(n)
    \/ \E h \in handlers :
         \/ Proceed(h)
         \/ Heartbeat(h)
         \/ HandlerCrashes(h)
         \/ DeliveryStalls(h)
    \/ LeaseExpires
    \/ ReadExpired
    \/ \E token \in closing : TimeOut(token)

Next ==
    \/ Others /\ UNCHANGED pass
    \/ Pass
    \/ PassIsUnready
    \/ PassThrows

Spec == Init /\ [][Next]_vars

(* The followed loop runs for ever, timers fire, idle workers take         *)
(* deliveries, handlers end and a lease nobody renews expires.             *)
Abandoned == ~\E h \in handlers : Owns(h.token)

Fairness ==
    /\ \A n \in Events :
         /\ WF_vars(EventDue(n) /\ UNCHANGED pass)
         /\ WF_vars(Claim(n) /\ UNCHANGED pass)
         /\ WF_vars(ClaimNothing(n) /\ UNCHANGED pass)
         /\ WF_vars((\E h \in handlers : h.event = n /\ Proceed(h)) /\ UNCHANGED pass)
    /\ WF_vars(Abandoned /\ LeaseExpires /\ UNCHANGED pass)
    /\ WF_vars(Pass)

FairSpec == Spec /\ Fairness

-----------------------------------------------------------------------------
(* Properties                                                              *)

(* A queued generation can be brought to its end: it has an attempt left,  *)
(* so that the exhaustion test of claim never fails a generation that fail *)
(* has put back, and the event of that attempt; a retry's event is new, so *)
(* that its deduplication key never refuses the transaction.               *)
QueuedHasItsEvent ==
    /\ TypeOK
    /\ status = "queued" => attempts < MaxAttempts /\ event[attempts + 1] # "absent"
    /\ \A n \in Events :
         n > attempts + (IF status = "queued" THEN 1 ELSE 0) => event[n] = "absent"

(* One handler at most can settle the generation, although several events  *)
(* deliver it and a lease that recovery took away may have a live handler; *)
(* and the revisions of one claim at most are persisted, exactly when the  *)
(* generation has succeeded.                                               *)
OneResult ==
    /\ \A g, h \in handlers : Owns(g.token) /\ Owns(h.token) => g = h
    /\ Cardinality(results) <= 1
    /\ (results # {}) <=> (status = "succeeded")

(* A generation implements the pipeline with a single stage: one result,   *)
(* none after a failure, and an outcome that is final.                     *)
Pipeline == INSTANCE WorkflowPipeline WITH
    Stages <- {"translation"},
    Deps <- [s \in {"translation"} |-> {}],
    committed <- IF results # {} THEN {"translation"} ELSE {},
    verdict <- IF status \in Terminal THEN status ELSE "open"

ImplementsPipeline == Pipeline!Spec

(* Whatever finite number of crashes, lost deliveries and passes of the    *)
(* loop cut short by an exception, a generation that was requested         *)
(* succeeds or fails.                                                      *)
GenerationSettles == <>(status \in Terminal)
=============================================================================
