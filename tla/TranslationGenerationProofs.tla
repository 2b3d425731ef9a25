--------------------- MODULE TranslationGenerationProofs ---------------------
(***************************************************************************)
(* Proofs about TranslationGeneration, for any attempt budget, number of   *)
(* concurrent deliveries and bound on faults.                              *)
(***************************************************************************)
EXTENDS TranslationGeneration, FiniteSetTheorems, TLAPS

(* No two handlers hold the same token: each was drawn by a claim of its   *)
(* own.  A running row has been claimed.                                   *)
UniqueClaims ==
    /\ \A h \in handlers : h.token \in 1 .. issued
    /\ \A g, h \in handlers : g.token = h.token => g = h
    /\ status = "running" => attempts # 0

(* The revisions are those of one claim, and there with the success.       *)
ResultsFollowStatus ==
    IF status = "succeeded" THEN \E t \in Nat : results = {t} ELSE results = {}

(* A queued row has an attempt left and its event; no event is early.      *)
EventsFollowAttempts ==
    /\ status = "queued" => attempts < MaxAttempts /\ event[attempts + 1] # "absent"
    /\ \A n \in Events :
         n > attempts + (IF status = "queued" THEN 1 ELSE 0) => event[n] = "absent"

GenerationInv ==
    /\ TypeOK
    /\ UniqueClaims
    /\ ResultsFollowStatus
    /\ EventsFollowAttempts

-----------------------------------------------------------------------------
(* The request leaves a row and the event of its first attempt.            *)
LEMMA InitInv == Init => GenerationInv
<1> SUFFICES ASSUME Init PROVE GenerationInv
  OBVIOUS
<1> USE GenerationAssumption DEF Init, Events
<1>1. TypeOK
  <2>1. event \in [Events -> {"absent", "delayed", "pending", "published"}]
    OBVIOUS
  <2>2. status = "queued" /\ attempts \in 0 .. MaxAttempts /\ faults \in 0 .. MaxFaults
    OBVIOUS
  <2>3. lease \in Nat /\ issued \in Nat /\ expired \in BOOLEAN
    OBVIOUS
  <2> QED
    BY <2>1, <2>2, <2>3 DEF TypeOK
<1>2. UniqueClaims /\ ResultsFollowStatus
  BY DEF UniqueClaims, ResultsFollowStatus
<1>3. EventsFollowAttempts
  BY DEF EventsFollowAttempts
<1> QED
  BY <1>1, <1>2, <1>3 DEF GenerationInv

(* Releasing a claimed row keeps the part of the invariant that the row    *)
(* and the events carry; a retry gets an event that did not exist.         *)
LEMMA ReleaseKeepsRow ==
    ASSUME GenerationInv, status = "running", NEW retryable \in BOOLEAN,
           Release(retryable)
    PROVE  /\ status' \in {"queued", "failed"}
           /\ attempts' = attempts /\ issued' = issued /\ results' = results
           /\ lease' = 0 /\ expired' = FALSE
           /\ event' \in [Events -> {"absent", "delayed", "pending", "published"}]
           /\ status' = "queued" =>
                attempts < MaxAttempts /\ event'[attempts + 1] # "absent"
           /\ \A n \in Events :
                n > attempts + (IF status' = "queued" THEN 1 ELSE 0)
                  => event'[n] = "absent"
           /\ status' = "queued" => event[attempts + 1] = "absent"
<1> USE GenerationAssumption
    DEF GenerationInv, TypeOK, EventsFollowAttempts, Release, MayRetry, Events
<1>1. CASE MayRetry(retryable)
  <2>1. attempts + 1 \in Events
    BY <1>1
  <2> QED
    BY <1>1, <2>1
<1>2. CASE ~MayRetry(retryable)
  BY <1>2
<1> QED
  BY <1>1, <1>2

(* A step that leaves the row alone, loses or keeps handlers and changes   *)
(* only events that exist.                                                 *)
LEMMA RowUntouched ==
    ASSUME GenerationInv, UNCHANGED <<status, attempts, lease, issued, results>>,
           expired' \in BOOLEAN, waiting' \in SUBSET Events,
           closing' \in SUBSET Nat, faults' \in 0 .. MaxFaults,
           pass' \in {"replay", "read", "close", "relay", "ended"},
           handlers' \in SUBSET Handlers,
           \A h \in handlers' : \E g \in handlers : g.token = h.token,
           \A g, h \in handlers' : g.token = h.token => g = h,
           event' \in [Events -> {"absent", "delayed", "pending", "published"}],
           \A n \in Events : event'[n] = "absent" <=> event[n] = "absent"
    PROVE  GenerationInv'
<1>1. TypeOK'
  BY DEF GenerationInv, TypeOK
<1>2. UniqueClaims'
  BY DEF GenerationInv, UniqueClaims
<1>3. ResultsFollowStatus'
  BY DEF GenerationInv, ResultsFollowStatus
<1>4. EventsFollowAttempts'
  BY GenerationAssumption DEF GenerationInv, TypeOK, EventsFollowAttempts, Events
<1> QED
  BY <1>1, <1>2, <1>3, <1>4 DEF GenerationInv

(* Releasing or leaving alone what a settled or timed-out claim holds.     *)
LEMMA ReleaseKeepsInv ==
    ASSUME GenerationInv, NEW retryable \in BOOLEAN, NEW token,
           \/ Owns(token) /\ Release(retryable)
           \/ UNCHANGED <<rowVars, event>>,
           waiting' = waiting, faults' = faults,
           pass' = pass, handlers' \in SUBSET handlers, closing' \in SUBSET Nat
    PROVE  GenerationInv'
<1>1. CASE Owns(token) /\ Release(retryable)
  <2>1. status = "running"
    BY <1>1 DEF Owns
  <2>2. TypeOK'
    <3>1. /\ status' \in {"queued", "failed"}
          /\ attempts' = attempts /\ issued' = issued /\ results' = results
          /\ lease' = 0 /\ expired' = FALSE
          /\ event' \in [Events -> {"absent", "delayed", "pending", "published"}]
      BY <1>1, <2>1, ReleaseKeepsRow
    <3>2. handlers' \in SUBSET Handlers
      BY DEF GenerationInv, TypeOK
    <3> QED
      BY <3>1, <3>2 DEF GenerationInv, TypeOK, Terminal
  <2>3. UniqueClaims' /\ ResultsFollowStatus'
    BY <1>1, <2>1, ReleaseKeepsRow
       DEF GenerationInv, UniqueClaims, ResultsFollowStatus
  <2>4. EventsFollowAttempts'
    BY <1>1, <2>1, ReleaseKeepsRow DEF EventsFollowAttempts
  <2> QED
    BY <2>2, <2>3, <2>4 DEF GenerationInv
<1>2. CASE UNCHANGED <<rowVars, event>>
  BY <1>2, RowUntouched DEF rowVars, GenerationInv, TypeOK, UniqueClaims
<1> QED
  BY <1>1, <1>2

(* Every step keeps the invariant.                                         *)
LEMMA NextInv == GenerationInv /\ [Next]_vars => GenerationInv'
<1> SUFFICES ASSUME GenerationInv, [Next]_vars PROVE GenerationInv'
  OBVIOUS
<1> USE GenerationAssumption DEF rowVars, Fault
<1>1. ASSUME NEW n \in Events, EventDue(n), UNCHANGED pass PROVE GenerationInv'
  BY <1>1, RowUntouched DEF EventDue, GenerationInv, TypeOK, UniqueClaims
<1>2. ASSUME NEW n \in Events, Publish(n), pass' \in {pass, "replay"} PROVE GenerationInv'
  BY <1>2, RowUntouched DEF Publish, GenerationInv, TypeOK, UniqueClaims
<1>3. ASSUME NEW n \in Events, PublishFails(n), UNCHANGED pass PROVE GenerationInv'
  BY <1>3, RowUntouched DEF PublishFails, GenerationInv, TypeOK, UniqueClaims
<1>4. ASSUME NEW n \in Events, Claim(n), UNCHANGED pass PROVE GenerationInv'
  <2> DEFINE new == [event |-> n, token |-> issued + 1,
                     phase |-> "executing", locked |-> TRUE]
  <2>1. new \in Handlers
    BY DEF GenerationInv, TypeOK, Handlers
  <2>2. handlers' = handlers \cup {new}
    BY <1>4 DEF Claim
  <2>3. TypeOK'
    <3>1. attempts' \in 0 .. MaxAttempts /\ issued' \in Nat /\ lease' \in Nat
      BY <1>4 DEF Claim, Claimable, GenerationInv, TypeOK
    <3>2. handlers' \in SUBSET Handlers /\ waiting' \in SUBSET Events
      BY <1>4, <2>1, <2>2 DEF Claim, GenerationInv, TypeOK
    <3>3. /\ status' = "running" /\ expired' = FALSE
          /\ UNCHANGED <<results, event, closing, faults, pass>>
      BY <1>4 DEF Claim
    <3> QED
      BY <3>1, <3>2, <3>3 DEF GenerationInv, TypeOK
  <2>4. UniqueClaims'
    <3>1. attempts' # 0 /\ issued' = issued + 1 /\ issued \in Nat
      BY <1>4 DEF Claim, Claimable, GenerationInv, TypeOK
    <3>2. new.token = issued + 1
      OBVIOUS
    <3>3. \A h \in handlers : h.token \in 1 .. issued /\ h.token # issued + 1
      BY <3>1 DEF GenerationInv, UniqueClaims
    <3>4. \A h \in handlers' : h.token \in 1 .. issued'
      BY <2>2, <3>1, <3>2, <3>3
    <3>5. \A g, h \in handlers' : g.token = h.token => g = h
      BY <2>2, <3>2, <3>3 DEF GenerationInv, UniqueClaims
    <3> QED
      BY <3>1, <3>4, <3>5 DEF UniqueClaims
  <2>5. ResultsFollowStatus'
    BY <1>4 DEF Claim, Claimable, GenerationInv, ResultsFollowStatus
  <2>6. EventsFollowAttempts'
    BY <1>4 DEF Claim, Claimable, GenerationInv, TypeOK, EventsFollowAttempts, Events
  <2> QED
    BY <2>3, <2>4, <2>5, <2>6 DEF GenerationInv
<1>5. ASSUME NEW n \in Events, ClaimNothing(n), UNCHANGED pass PROVE GenerationInv'
  <2>1. UNCHANGED status
    BY <1>5 DEF ClaimNothing, Claimable, GenerationInv, EventsFollowAttempts
  <2> QED
    BY <1>5, <2>1, RowUntouched DEF ClaimNothing, GenerationInv, TypeOK, UniqueClaims
<1>6. ASSUME NEW n \in Events, Replay(n), UNCHANGED pass PROVE GenerationInv'
  BY <1>6, RowUntouched DEF Replay, Stranded, GenerationInv, TypeOK, UniqueClaims
<1>7. ASSUME NEW n \in Events, DeliveryLost(n), UNCHANGED pass PROVE GenerationInv'
  BY <1>7, RowUntouched DEF DeliveryLost, GenerationInv, TypeOK, UniqueClaims
<1>8. ASSUME NEW h \in handlers, Complete(h), UNCHANGED pass PROVE GenerationInv'
  <2>1. TypeOK'
    BY <1>8 DEF Complete, Owns, GenerationInv, TypeOK, Terminal, UniqueClaims
  <2>2. UniqueClaims'
    BY <1>8 DEF Complete, GenerationInv, UniqueClaims
  <2>3. ResultsFollowStatus'
    <3>1. h.token \in Nat /\ results = {}
      BY <1>8 DEF Complete, Owns, GenerationInv, TypeOK, UniqueClaims, ResultsFollowStatus
    <3> QED
      BY <1>8, <3>1 DEF Complete, ResultsFollowStatus
  <2>4. EventsFollowAttempts'
    BY <1>8 DEF Complete, Owns, GenerationInv, TypeOK, EventsFollowAttempts, Events
  <2> QED
    BY <2>1, <2>2, <2>3, <2>4 DEF GenerationInv
<1>9. ASSUME NEW h \in handlers, WorkFails(h), UNCHANGED pass PROVE GenerationInv'
  <2>1. PICK phase \in {"retryable", "fatal"} :
          handlers' = (handlers \ {h}) \cup {[h EXCEPT !.phase = phase]}
    BY <1>9 DEF WorkFails
  <2>2. [h EXCEPT !.phase = phase] \in Handlers /\ [h EXCEPT !.phase = phase].token = h.token
    BY DEF GenerationInv, TypeOK, Handlers
  <2> QED
    BY <1>9, <2>1, <2>2, RowUntouched DEF WorkFails, GenerationInv, TypeOK, UniqueClaims
<1>10. ASSUME NEW h \in handlers, Fail(h), UNCHANGED pass PROVE GenerationInv'
  BY <1>10, ReleaseKeepsInv DEF Fail, GenerationInv, TypeOK
<1>11. ASSUME NEW h \in handlers, Heartbeat(h), UNCHANGED pass PROVE GenerationInv'
  BY <1>11, RowUntouched DEF Heartbeat, GenerationInv, TypeOK, UniqueClaims
<1>12. ASSUME NEW h \in handlers, HandlerCrashes(h), UNCHANGED pass PROVE GenerationInv'
  <2>1. h.event \in Events
    BY DEF GenerationInv, TypeOK, Handlers
  <2> QED
    BY <1>12, <2>1, RowUntouched DEF HandlerCrashes, GenerationInv, TypeOK, UniqueClaims
<1>13. ASSUME NEW h \in handlers, DeliveryStalls(h), UNCHANGED pass PROVE GenerationInv'
  <2>1. [h EXCEPT !.locked = FALSE] \in Handlers /\ [h EXCEPT !.locked = FALSE].token = h.token
    BY DEF GenerationInv, TypeOK, Handlers
  <2>2. h.event \in Events
    BY DEF GenerationInv, TypeOK, Handlers
  <2>3. waiting' \in SUBSET Events
    BY <1>13, <2>2 DEF DeliveryStalls, GenerationInv, TypeOK
  <2>4. handlers' = (handlers \ {h}) \cup {[h EXCEPT !.locked = FALSE]}
    BY <1>13 DEF DeliveryStalls
  <2>5. handlers' \in SUBSET Handlers
    BY <2>1, <2>4 DEF GenerationInv, TypeOK
  <2>6. /\ \A i \in handlers' : \E g \in handlers : g.token = i.token
        /\ \A g, i \in handlers' : g.token = i.token => g = i
    BY <2>1, <2>4 DEF GenerationInv, UniqueClaims
  <2>7. faults' \in 0 .. MaxFaults /\ UNCHANGED <<rowVars, event, closing, pass>>
    BY <1>13 DEF DeliveryStalls, GenerationInv, TypeOK
  <2> QED
    BY <2>3, <2>5, <2>6, <2>7, RowUntouched DEF GenerationInv, TypeOK
<1>14. CASE LeaseExpires /\ UNCHANGED pass
  BY <1>14, RowUntouched DEF LeaseExpires, GenerationInv, TypeOK, UniqueClaims
<1>15. CASE ReadExpired /\ UNCHANGED pass
  BY <1>15, RowUntouched DEF ReadExpired, GenerationInv, TypeOK, UniqueClaims
<1>16. ASSUME NEW token \in closing, TimeOut(token), UNCHANGED pass PROVE GenerationInv'
  BY <1>16, ReleaseKeepsInv DEF TimeOut, GenerationInv, TypeOK
<1>17. CASE PassReplays
  BY <1>17, RowUntouched DEF PassReplays, Stranded, GenerationInv, TypeOK, UniqueClaims
<1>18. CASE PassReads
  BY <1>18, RowUntouched DEF PassReads, GenerationInv, TypeOK, UniqueClaims
<1>19. CASE PassCloses
  <2>1. CASE \E token \in closing : TimeOut(token) /\ UNCHANGED pass
    BY <2>1, <1>16
  <2>2. CASE closing = {} /\ pass' = "relay"
             /\ UNCHANGED <<rowVars, event, waiting, handlers, closing, faults>>
    BY <2>2, RowUntouched DEF GenerationInv, TypeOK, UniqueClaims
  <2> QED
    BY <1>19, <2>1, <2>2 DEF PassCloses
<1>20. CASE PassRelays
  <2>1. CASE \E n \in Events : Publish(n) /\ UNCHANGED pass
    BY <2>1, <1>2
  <2>2. CASE pass' = "replay"
             /\ UNCHANGED <<rowVars, event, waiting, handlers, closing, faults>>
    BY <2>2, RowUntouched DEF GenerationInv, TypeOK, UniqueClaims
  <2> QED
    BY <1>20, <2>1, <2>2 DEF PassRelays
<1>21. CASE PassIsUnready \/ PassThrows
  <2>1. /\ pass' \in {"replay", "relay"}
        /\ faults' \in 0 .. MaxFaults
        /\ UNCHANGED <<rowVars, event, waiting, handlers, closing>>
    BY <1>21 DEF PassIsUnready, PassThrows, AfterError, GenerationInv, TypeOK
  <2> QED
    BY <2>1, RowUntouched DEF GenerationInv, TypeOK, UniqueClaims
<1>22. CASE UNCHANGED vars
  BY <1>22, RowUntouched DEF vars, GenerationInv, TypeOK, UniqueClaims
<1> QED
  BY <1>1, <1>2, <1>3, <1>4, <1>5, <1>6, <1>7, <1>8, <1>9, <1>10, <1>11, <1>12, <1>13,
     <1>14, <1>15, <1>16, <1>17, <1>18, <1>19, <1>20, <1>21, <1>22
     DEF Next, Others, Proceed, Pass

(* The invariant of every state of the generation's life.                  *)
LEMMA Invariance == Spec => []GenerationInv
BY InitInv, NextInv, PTL DEF Spec

-----------------------------------------------------------------------------
(* Whatever is lost, replayed or cut short, a queued generation has an     *)
(* attempt left and the event that starts it.                              *)
THEOREM QueuedHasItsEventHolds == Spec => []QueuedHasItsEvent
<1>1. GenerationInv => QueuedHasItsEvent
  BY DEF GenerationInv, EventsFollowAttempts, QueuedHasItsEvent
<1> QED
  BY <1>1, Invariance, PTL

(* One handler at most can settle the generation and one claim's revisions *)
(* at most are persisted, exactly when it has succeeded.                   *)
THEOREM OneResultHolds == Spec => []OneResult
<1>1. GenerationInv => OneResult
  <2> SUFFICES ASSUME GenerationInv PROVE OneResult
    OBVIOUS
  <2>1. \A g, h \in handlers : Owns(g.token) /\ Owns(h.token) => g = h
    BY DEF GenerationInv, UniqueClaims, Owns
  <2>2. Cardinality(results) <= 1
    <3>1. CASE results = {}
      BY <3>1, FS_EmptySet
    <3>2. ASSUME NEW t \in Nat, results = {t} PROVE Cardinality(results) <= 1
      BY <3>2, FS_Singleton
    <3> QED
      BY <3>1, <3>2 DEF GenerationInv, ResultsFollowStatus
  <2>3. (results # {}) <=> (status = "succeeded")
    BY DEF GenerationInv, ResultsFollowStatus
  <2> QED
    BY <2>1, <2>2, <2>3 DEF OneResult
<1> QED
  BY <1>1, Invariance, PTL

-----------------------------------------------------------------------------
(* What a step does to the outcome: a handler commits its result, the row  *)
(* moves without one before it is final, or nothing is to be seen.         *)
LEMMA OutcomeSteps ==
    GenerationInv /\ [Next]_vars =>
      \/ \E h \in handlers : Complete(h)
      \/ /\ status \in {"queued", "running"}
         /\ status' \in {"queued", "running", "failed"}
         /\ results' = results
      \/ UNCHANGED <<status, results>>
<1> DEFINE Effect ==
      \/ \E h \in handlers : Complete(h)
      \/ /\ status \in {"queued", "running"}
         /\ status' \in {"queued", "running", "failed"}
         /\ results' = results
      \/ UNCHANGED <<status, results>>
<1> SUFFICES ASSUME GenerationInv, [Next]_vars PROVE Effect
  OBVIOUS
<1>1. ASSUME NEW n \in Events,
             EventDue(n) \/ Publish(n) \/ PublishFails(n) \/ Claim(n) \/ ClaimNothing(n)
               \/ Replay(n) \/ DeliveryLost(n)
      PROVE  Effect
  BY <1>1 DEF EventDue, Publish, PublishFails, Claim, ClaimNothing, Claimable, Replay,
              DeliveryLost, rowVars
<1>2. ASSUME NEW h \in handlers,
             WorkFails(h) \/ Heartbeat(h) \/ HandlerCrashes(h) \/ DeliveryStalls(h)
      PROVE  Effect
  BY <1>2 DEF WorkFails, Heartbeat, HandlerCrashes, DeliveryStalls, rowVars
<1>3. ASSUME NEW retryable \in BOOLEAN, status = "running", Release(retryable)
      PROVE  Effect
  BY <1>3 DEF Release
<1>4. ASSUME NEW h \in handlers, Fail(h) PROVE Effect
  BY <1>3, <1>4 DEF Fail, Owns, rowVars
<1>5. ASSUME NEW token \in closing, TimeOut(token) PROVE Effect
  BY <1>3, <1>5 DEF TimeOut, Owns, rowVars
<1>6. CASE LeaseExpires \/ ReadExpired \/ PassReplays \/ PassReads \/ PassIsUnready
           \/ PassThrows \/ UNCHANGED vars
  BY <1>6 DEF LeaseExpires, ReadExpired, PassReplays, PassReads, PassIsUnready, PassThrows,
              vars, rowVars
<1>7. CASE PassCloses
  BY <1>5, <1>7 DEF PassCloses, rowVars
<1>8. CASE PassRelays
  BY <1>1, <1>8 DEF PassRelays, rowVars
<1> QED
  BY <1>1, <1>2, <1>4, <1>5, <1>6, <1>7, <1>8 DEF Next, Others, Proceed, Pass

(* Every step is a step of the pipeline or leaves it unchanged.            *)
LEMMA StepImplements ==
    GenerationInv /\ [Next]_vars => [Pipeline!Next]_(Pipeline!vars)
<1> SUFFICES ASSUME GenerationInv, [Next]_vars PROVE Pipeline!Next \/ UNCHANGED Pipeline!vars
  OBVIOUS
<1>1. ASSUME NEW h \in handlers, Complete(h) PROVE Pipeline!Commit("translation")
  <2>1. status = "running" /\ results = {}
    BY <1>1 DEF Complete, Owns, GenerationInv, ResultsFollowStatus
  <2>2. status' = "succeeded" /\ results' # {}
    BY <1>1 DEF Complete
  <2> QED
    BY <2>1, <2>2 DEF Pipeline!Commit, Terminal
<1>2. CASE /\ status \in {"queued", "running"}
           /\ status' \in {"queued", "running", "failed"}
           /\ results' = results
  <2>1. CASE status' = "failed"
    BY <1>2, <2>1 DEF Pipeline!Next, Pipeline!GiveUp, Terminal
  <2>2. CASE status' # "failed"
    BY <1>2, <2>2 DEF Pipeline!vars, Terminal
  <2> QED
    BY <2>1, <2>2
<1>3. CASE UNCHANGED <<status, results>>
  BY <1>3 DEF Pipeline!vars
<1> QED
  BY <1>1, <1>2, <1>3, OutcomeSteps DEF Pipeline!Next

(* A generation implements the pipeline of a single stage: one result,     *)
(* none after a failure, and an outcome that is final.                     *)
THEOREM PipelineRefinement == Spec => ImplementsPipeline
<1>1. Init => Pipeline!Init
  BY DEF Init, Pipeline!Init, Terminal
<1> QED
  BY <1>1, StepImplements, Invariance, PTL DEF Spec, ImplementsPipeline, Pipeline!Spec
=============================================================================
