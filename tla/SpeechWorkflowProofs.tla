------------------------ MODULE SpeechWorkflowProofs ------------------------
(***************************************************************************)
(* Proofs about SpeechWorkflow, for any dependency graph, attempt budgets, *)
(* number of relays and of concurrent deliveries.                          *)
(***************************************************************************)
EXTENDS SpeechWorkflow, TLAPS

-----------------------------------------------------------------------------
(* Attempts                                                                *)

(* An attempt is a pair of a stage and a number within its budget.         *)
LEMMA AttemptParts ==
    ASSUME NEW a \in Attempts
    PROVE  /\ a[1] \in Stages
           /\ a[2] \in 1 .. MaxAttempts[a[1]]
           /\ a = <<a[1], a[2]>>
BY StagesAssumption DEF Attempts

(* Every number within the budget of a stage makes an attempt.             *)
LEMMA MakeAttempt ==
    ASSUME NEW s \in Stages, NEW n \in 1 .. MaxAttempts[s]
    PROVE  <<s, n>> \in Attempts
BY StagesAssumption DEF Attempts

-----------------------------------------------------------------------------
(* Type correctness                                                        *)

(* The state that the initializer commits has the declared types.          *)
LEMMA InitTypeOK == Init => TypeOK
<1> SUFFICES ASSUME Init PROVE TypeOK
  OBVIOUS
<1> USE DEF Init, TypeOK
<1>1. stage \in [Stages -> StageStatuses] /\ ready \in SUBSET Stages
  BY DEF StageStatuses, Roots
<1>2. attempt \in [Attempts -> AttemptStatuses] /\ event \in [Attempts -> EventStatuses]
  BY DEF AttemptStatuses, EventStatuses
<1>3. deferrals \in [Attempts -> 0 .. MaxDeferrals] /\ faults \in 0 .. MaxFaults
  BY BoundsAssumption
<1> QED
  BY <1>1, <1>2, <1>3 DEF JobStatuses

(* What a failing attempt does to the types: every status it writes is one *)
(* of the legal statuses.                                                  *)
LEMMA FailAttemptTypeOK ==
    ASSUME TypeOK, NEW a \in Attempts, NEW owned \in BOOLEAN,
           NEW retryable \in BOOLEAN, NEW status \in {"failed", "timed_out"},
           FailAttempt(a, owned, retryable, status)
    PROVE  /\ job' \in JobStatuses
           /\ project' \in {"processing", "failed"}
           /\ stage' \in [Stages -> StageStatuses]
           /\ ready' \in SUBSET Stages
           /\ attempt' \in [Attempts -> AttemptStatuses]
           /\ lease' \in [Attempts -> Nat]
           /\ expired' \in SUBSET Attempts
           /\ event' \in [Attempts -> EventStatuses]
<1> USE DEF TypeOK
<1>1. CASE ScheduleRetry(a, status)
  BY <1>1 DEF ScheduleRetry, StageStatuses, AttemptStatuses, EventStatuses
<1>2. CASE FailStage(a, status)
  BY <1>2 DEF FailStage, StageStatuses, AttemptStatuses, JobStatuses
<1>3. CASE UNCHANGED <<attempt, lease, expired, stage, ready, event, job, project>>
  BY <1>3
<1> QED
  BY <1>1, <1>2, <1>3 DEF FailAttempt

(* A handler works on an attempt, under a token that is a number.          *)
LEMMA HandlerParts ==
    ASSUME TypeOK, NEW h \in handlers
    PROVE  /\ h.attempt \in Attempts
           /\ h.attempt[1] \in Stages
           /\ h.token \in Nat
           /\ h \in Handlers
BY AttemptParts DEF TypeOK, Handlers

(* Every step preserves the types.                                         *)
LEMMA NextTypeOK == TypeOK /\ [Next]_vars => TypeOK'
<1> SUFFICES ASSUME TypeOK, [Next]_vars PROVE TypeOK'
  OBVIOUS
<1> USE DEF workflowVars, outboxVars, relayVars, deliveryVars, Fault
<1>1. ASSUME NEW a \in Attempts, Claim(a) PROVE TypeOK'
  <2>1. [attempt |-> a, token |-> issued[a] + 1,
         phase |-> "executing", locked |-> TRUE] \in Handlers
    BY DEF TypeOK, Handlers
  <2>2. a[1] \in Stages
    BY AttemptParts
  <2>3. handlers' \in SUBSET Handlers
    BY <1>1, <2>1 DEF TypeOK, Claim
  <2>4. /\ attempt' \in [Attempts -> AttemptStatuses]
        /\ stage' \in [Stages -> StageStatuses]
        /\ lease' \in [Attempts -> Nat] /\ issued' \in [Attempts -> Nat]
        /\ job' \in JobStatuses /\ waiting' \in SUBSET Attempts
    BY <1>1, <2>2 DEF TypeOK, Claim, JobStatuses, StageStatuses, AttemptStatuses
  <2> QED
    BY <1>1, <2>3, <2>4 DEF TypeOK, Claim
<1>2. ASSUME NEW a \in Attempts, ClaimNothing(a) PROVE TypeOK'
  BY <1>2 DEF TypeOK, ClaimNothing
<1>3. ASSUME NEW a \in Attempts, ExecutorNotReady(a) PROVE TypeOK'
  BY <1>3, BoundsAssumption DEF TypeOK, ExecutorNotReady
<1>4. ASSUME NEW a \in Attempts, LeaseExpires(a) PROVE TypeOK'
  BY <1>4 DEF TypeOK, LeaseExpires
<1>5. ASSUME NEW a \in Attempts, ReplayDelivery(a) PROVE TypeOK'
  BY <1>5 DEF TypeOK, ReplayDelivery, EventStatuses
<1>6. ASSUME NEW a \in Attempts, EventDue(a) PROVE TypeOK'
  BY <1>6 DEF TypeOK, EventDue, EventStatuses
<1>7. ASSUME NEW a \in Attempts, DeliveryLost(a) PROVE TypeOK'
  BY <1>7, BoundsAssumption DEF TypeOK, DeliveryLost
<1>8. ASSUME NEW h \in handlers, Complete(h) PROVE TypeOK'
  <2>1. h.attempt \in Attempts /\ h.attempt[1] \in Stages
    BY HandlerParts
  <2>2. ready \cup Unlocked(h.attempt[1]) \in SUBSET Stages
    BY DEF TypeOK, Unlocked
  <2> QED
    BY <1>8, <2>1, <2>2 DEF TypeOK, Complete, JobStatuses, StageStatuses,
                            AttemptStatuses, EventStatuses
<1>9. ASSUME NEW h \in handlers, NEW phase \in {"retryable", "fatal"}, TurnTo(h, phase)
      PROVE  handlers' \in SUBSET Handlers
  <2>1. [h EXCEPT !.phase = phase] \in Handlers
    BY HandlerParts DEF Handlers
  <2> QED
    BY <1>9, <2>1 DEF TypeOK, TurnTo
<1>10. ASSUME NEW h \in handlers, CompletionRefused(h) PROVE TypeOK'
  <2>1. handlers' \in SUBSET Handlers
    BY <1>9, <1>10 DEF CompletionRefused
  <2> QED
    BY <1>10, <2>1 DEF TypeOK, CompletionRefused
<1>11. ASSUME NEW h \in handlers, WorkFails(h) PROVE TypeOK'
  <2>1. handlers' \in SUBSET Handlers
    BY <1>9, <1>11 DEF WorkFails
  <2> QED
    BY <1>11, <2>1 DEF TypeOK, WorkFails
<1>12. ASSUME NEW h \in handlers, DeferForCapacity(h) PROVE TypeOK'
  BY <1>12, HandlerParts, BoundsAssumption
     DEF TypeOK, DeferForCapacity, MayDefer, StageStatuses, AttemptStatuses, EventStatuses
<1>13. ASSUME NEW h \in handlers, DeferralRolledBack(h) PROVE TypeOK'
  BY <1>13 DEF TypeOK, DeferralRolledBack
<1>14. ASSUME NEW h \in handlers, DeferralRefused(h) PROVE TypeOK'
  <2>1. handlers' \in SUBSET Handlers
    BY <1>9, <1>14 DEF DeferralRefused
  <2> QED
    BY <1>14, <2>1 DEF TypeOK, DeferralRefused
<1>15. ASSUME NEW a \in Attempts, NEW owned \in BOOLEAN, NEW retryable \in BOOLEAN,
              NEW status \in {"failed", "timed_out"},
              FailAttempt(a, owned, retryable, status),
              handlers' \in SUBSET Handlers, expiredRead' \in SUBSET (Attempts \X Nat),
              UNCHANGED <<relayVars, waiting, faults>>
       PROVE  TypeOK'
  <2>1. UNCHANGED <<selected, issued, deferrals, outputs, eventLease>>
    BY <1>15 DEF FailAttempt
  <2> QED
    BY <1>15, <2>1, FailAttemptTypeOK DEF TypeOK
<1>16. ASSUME NEW h \in handlers, Fail(h) PROVE TypeOK'
  <2>1. OwnsLease(h.attempt, h.token) \in BOOLEAN /\ (h.phase = "retryable") \in BOOLEAN
    BY DEF OwnsLease
  <2>2. handlers' \in SUBSET Handlers /\ expiredRead' \in SUBSET (Attempts \X Nat)
    BY <1>16 DEF Fail, TypeOK
  <2> QED
    BY <1>15, <1>16, <2>1, <2>2, HandlerParts DEF Fail
<1>17. ASSUME NEW e \in expiredRead, TimeOut(e) PROVE TypeOK'
  <2>1. OwnsLease(e[1], e[2]) \in BOOLEAN /\ e[1] \in Attempts
    BY DEF OwnsLease, TypeOK
  <2>2. handlers' \in SUBSET Handlers /\ expiredRead' \in SUBSET (Attempts \X Nat)
    BY <1>17 DEF TimeOut, TypeOK
  <2> QED
    BY <1>15, <1>17, <2>1, <2>2 DEF TimeOut
<1>18. ASSUME NEW h \in handlers, Heartbeat(h) PROVE TypeOK'
  BY <1>18 DEF TypeOK, Heartbeat
<1>19. ASSUME NEW h \in handlers, HandlerCrashes(h) PROVE TypeOK'
  BY <1>19, HandlerParts, BoundsAssumption DEF TypeOK, HandlerCrashes
<1>20. ASSUME NEW h \in handlers, DeliveryStalls(h) PROVE TypeOK'
  <2>1. [h EXCEPT !.locked = FALSE] \in Handlers
    BY HandlerParts DEF Handlers
  <2>2. handlers' \in SUBSET Handlers
    BY <1>20, <2>1 DEF TypeOK, DeliveryStalls
  <2>3. waiting' \in SUBSET Attempts /\ faults' \in 0 .. MaxFaults
    BY <1>20, HandlerParts, BoundsAssumption DEF TypeOK, DeliveryStalls
  <2> QED
    BY <1>20, <2>2, <2>3 DEF TypeOK, DeliveryStalls
<1>21. ASSUME NEW s \in Stages, BackoffEnds(s) PROVE TypeOK'
  BY <1>21 DEF TypeOK, BackoffEnds
<1>22. ASSUME ReadExpired PROVE TypeOK'
  <2>1. ExpiredRows \in SUBSET (Attempts \X Nat)
    BY DEF ExpiredRows, TypeOK
  <2> QED
    BY <1>22, <2>1 DEF TypeOK, ReadExpired
<1>23. ASSUME NEW r \in Relays, NEW B \in SUBSET Attempts, LeaseBatch(r, B) PROVE TypeOK'
  BY <1>23 DEF TypeOK, LeaseBatch, EventStatuses
<1>24. ASSUME NEW r \in Relays, NEW a \in Attempts, Publish(r, a) PROVE TypeOK'
  BY <1>24 DEF TypeOK, Publish
<1>25. ASSUME NEW r \in Relays, NEW a \in Attempts, MarkPublished(r, a) PROVE TypeOK'
  BY <1>25 DEF TypeOK, MarkPublished, SettleEvent, EventStatuses
<1>26. ASSUME NEW r \in Relays, NEW a \in Attempts, PublishFails(r, a) PROVE TypeOK'
  BY <1>26, BoundsAssumption DEF TypeOK, PublishFails, SettleEvent, EventStatuses
<1>27. ASSUME NEW r \in Relays, RelayCrashes(r) PROVE TypeOK'
  BY <1>27, BoundsAssumption DEF TypeOK, RelayCrashes
<1>28. CASE UNCHANGED vars
  BY <1>28 DEF TypeOK, vars
<1> QED
  BY <1>1, <1>2, <1>3, <1>4, <1>5, <1>6, <1>7, <1>8, <1>10, <1>11, <1>12, <1>13,
     <1>14, <1>16, <1>17, <1>18, <1>19, <1>20, <1>21, <1>22, <1>23, <1>24, <1>25,
     <1>26, <1>27, <1>28 DEF Next, Answer

(* The rows, the outbox, the queues and the handlers keep their types: in  *)
(* particular no attempt is deferred more often than its limit allows, and *)
(* no row is created beyond a stage's attempt budget.                      *)
THEOREM TypeCorrect == Spec => []TypeOK
<1>1. Init => TypeOK
  BY InitTypeOK
<1>2. TypeOK /\ [Next]_vars => TypeOK'
  BY NextTypeOK
<1> QED
  BY <1>1, <1>2, PTL DEF Spec

-----------------------------------------------------------------------------
(***************************************************************************)
(* The inductive invariant.  StageHasItsAttempt in the form the induction  *)
(* uses: one live attempt per stage, in the status its stage asks for.     *)
(***************************************************************************)
InFlight ==
    /\ \A a, b \in Attempts :
         attempt[a] \in Live /\ attempt[b] \in Live /\ a[1] = b[1] => a = b
    /\ \A a \in Attempts : attempt[a] = "running" => stage[a[1]] = "running"
    /\ \A a \in Attempts :
         attempt[a] = "queued" => stage[a[1]] \in {"queued", "retry_wait"}
    /\ \A s \in Stages : stage[s] = "running" =>
         \E a \in Attempts : a[1] = s /\ attempt[a] = "running"
    /\ \A s \in Stages : stage[s] \in {"queued", "retry_wait"} =>
         \E a \in Attempts : a[1] = s /\ attempt[a] = "queued"

(* A blocked stage has no attempt yet, not even an ended one.              *)
BlockedIsFresh ==
    \A a \in Attempts : stage[a[1]] = "blocked" => attempt[a] = "absent"

WorkflowInv ==
    /\ TypeOK
    /\ InFlight
    /\ BlockedIsFresh
    /\ DependenciesFirst
    /\ VerdictMatchesStages
    /\ OneOutputPerStage
    /\ RetryFollowsFailure

(* What the invariant reads of the state.                                  *)
verdictVars == <<job, project, selected, stage, attempt, outputs>>

(* The two forms of the property say the same.                             *)
LEMMA InFlightIsStageHasItsAttempt ==
    ASSUME TypeOK PROVE InFlight <=> StageHasItsAttempt
<1> USE DEF TypeOK, Live, LiveAttempts
<1>1. ASSUME InFlight, NEW s \in Stages PROVE
        CASE stage[s] = "running" ->
               \E a \in Attempts : LiveAttempts(s) = {a} /\ attempt[a] = "running"
          [] stage[s] \in {"queued", "retry_wait"} ->
               \E a \in Attempts : LiveAttempts(s) = {a} /\ attempt[a] = "queued"
          [] OTHER -> LiveAttempts(s) = {}
  <2>1. CASE stage[s] = "running"
    <3>1. PICK a \in Attempts : a[1] = s /\ attempt[a] = "running"
      BY <1>1, <2>1 DEF InFlight
    <3>2. LiveAttempts(s) = {a}
      BY <1>1, <3>1 DEF InFlight
    <3> QED
      BY <2>1, <3>1, <3>2
  <2>2. CASE stage[s] \in {"queued", "retry_wait"}
    <3>1. PICK a \in Attempts : a[1] = s /\ attempt[a] = "queued"
      BY <1>1, <2>2 DEF InFlight
    <3>2. LiveAttempts(s) = {a}
      BY <1>1, <3>1 DEF InFlight
    <3> QED
      BY <2>2, <3>1, <3>2
  <2>3. CASE stage[s] \notin {"running", "queued", "retry_wait"}
    <3>1. LiveAttempts(s) = {}
      BY <1>1, <2>3 DEF InFlight
    <3> QED
      BY <2>3, <3>1
  <2> QED
    BY <2>1, <2>2, <2>3
<1>2. ASSUME StageHasItsAttempt, NEW a \in Attempts, attempt[a] \in Live
      PROVE  /\ LiveAttempts(a[1]) = {a}
             /\ stage[a[1]] = "running" => attempt[a] = "running"
             /\ stage[a[1]] # "running" =>
                  attempt[a] = "queued" /\ stage[a[1]] \in {"queued", "retry_wait"}
  <2>1. a[1] \in Stages /\ a \in LiveAttempts(a[1])
    BY <1>2, AttemptParts
  <2> DEFINE s == a[1]
  <2>2. CASE stage[s] = "running"
    <3>1. \E b \in Attempts : LiveAttempts(s) = {b} /\ attempt[b] = "running"
      BY <1>2, <2>1, <2>2 DEF StageHasItsAttempt
    <3> QED
      BY <2>1, <2>2, <3>1
  <2>3. CASE stage[s] \in {"queued", "retry_wait"}
    <3>1. \E b \in Attempts : LiveAttempts(s) = {b} /\ attempt[b] = "queued"
      BY <1>2, <2>1, <2>3 DEF StageHasItsAttempt
    <3> QED
      BY <2>1, <2>3, <3>1
  <2>4. CASE stage[s] \notin {"running", "queued", "retry_wait"}
    BY <1>2, <2>1, <2>4 DEF StageHasItsAttempt
  <2> QED
    BY <2>2, <2>3, <2>4
<1>3. ASSUME StageHasItsAttempt, NEW s \in Stages
      PROVE  /\ stage[s] = "running" =>
                  \E a \in Attempts : a[1] = s /\ attempt[a] = "running"
             /\ stage[s] \in {"queued", "retry_wait"} =>
                  \E a \in Attempts : a[1] = s /\ attempt[a] = "queued"
  BY <1>3 DEF StageHasItsAttempt
<1>4. StageHasItsAttempt => InFlight
  BY <1>2, <1>3 DEF InFlight
<1> QED
  BY <1>1, <1>4 DEF StageHasItsAttempt

(* The state that the initializer commits satisfies the invariant.         *)
LEMMA InitWorkflowInv == Init => WorkflowInv
<1> SUFFICES ASSUME Init PROVE WorkflowInv
  OBVIOUS
<1>1. TypeOK
  BY InitTypeOK
<1> USE DEF Init, Roots
<1>2. InFlight
  <2>1. ASSUME NEW s \in Roots PROVE <<s, 1>> \in Attempts
    BY StagesAssumption, MakeAttempt
  <2>2. ASSUME NEW a \in Attempts PROVE a[1] \in Stages /\ a = <<a[1], a[2]>>
    BY AttemptParts
  <2> QED
    BY <2>1, <2>2 DEF InFlight, Live
<1>3. BlockedIsFresh /\ RetryFollowsFailure
  BY AttemptParts DEF BlockedIsFresh, RetryFollowsFailure
<1>4. DependenciesFirst
  BY StagesAssumption DEF DependenciesFirst
<1>5. VerdictMatchesStages
  BY StagesAssumption DEF VerdictMatchesStages
<1>6. OneOutputPerStage
  BY DEF OneOutputPerStage
<1> QED
  BY <1>1, <1>2, <1>3, <1>4, <1>5, <1>6 DEF WorkflowInv

(* What the transactions that settle an attempt rely on: its stage is      *)
(* running, has no other live attempt, and the job has no verdict.         *)
LEMMA RunningAttempt ==
    ASSUME WorkflowInv, NEW a \in Attempts, attempt[a] = "running"
    PROVE  /\ a[1] \in Stages
           /\ stage[a[1]] = "running"
           /\ JobActive
           /\ \A b \in Attempts : b[1] = a[1] /\ b # a => attempt[b] \notin Live
<1>1. a[1] \in Stages
  BY AttemptParts
<1>2. stage[a[1]] = "running"
  BY DEF WorkflowInv, InFlight
<1>3. \A b \in Attempts : b[1] = a[1] /\ b # a => attempt[b] \notin Live
  BY DEF WorkflowInv, InFlight, Live
<1>4. JobActive
  BY <1>1, <1>2 DEF WorkflowInv, VerdictMatchesStages, JobActive, TypeOK, JobStatuses, FinalStage
<1> QED
  BY <1>1, <1>2, <1>3, <1>4

(* The attempts before an attempt are attempts.                            *)
LEMMA Predecessors ==
    ASSUME NEW a \in Attempts, NEW n \in 1 .. (a[2] - 1)
    PROVE  <<a[1], n>> \in Attempts
<1>1. a[1] \in Stages /\ a[2] \in 1 .. MaxAttempts[a[1]] /\ MaxAttempts[a[1]] \in Nat
  BY AttemptParts, StagesAssumption
<1>2. n \in 1 .. MaxAttempts[a[1]]
  BY <1>1
<1> QED
  BY <1>1, <1>2, MakeAttempt

(* Steps that create no attempt and change no failed one.                  *)
LEMMA RetryFollowsFailureKept ==
    ASSUME RetryFollowsFailure,
           \A b \in Attempts : attempt[b] = "absent" => attempt'[b] = "absent",
           \A b \in Attempts :
             attempt[b] \in {"failed", "timed_out"} => attempt'[b] = attempt[b]
    PROVE  RetryFollowsFailure'
BY Predecessors DEF RetryFollowsFailure

(* A claim keeps the invariant.                                            *)
LEMMA ClaimKeepsInv ==
    ASSUME WorkflowInv, TypeOK', NEW a \in Attempts, Claim(a)
    PROVE  WorkflowInv'
<1> USE DEF WorkflowInv, Claim, Claimable, TypeOK
<1>1. a[1] \in Stages
  BY AttemptParts
<1>2. InFlight'
  BY <1>1, AttemptParts DEF InFlight, Live
<1>3. BlockedIsFresh'
  BY <1>1, AttemptParts DEF BlockedIsFresh
<1>4. DependenciesFirst'
  BY <1>1, StagesAssumption DEF DependenciesFirst
<1>5. VerdictMatchesStages'
  BY <1>1 DEF VerdictMatchesStages, JobActive
<1>6. OneOutputPerStage'
  BY <1>1, AttemptParts DEF OneOutputPerStage
<1>7. RetryFollowsFailure'
  BY <1>1, RetryFollowsFailureKept
<1> QED
  BY <1>2, <1>3, <1>4, <1>5, <1>6, <1>7

(* A capacity deferral keeps the invariant.                                *)
LEMMA DeferKeepsInv ==
    ASSUME WorkflowInv, TypeOK', NEW h \in handlers, DeferForCapacity(h)
    PROVE  WorkflowInv'
<1> DEFINE a == h.attempt
<1>1. /\ a \in Attempts
      /\ attempt[a] = "running"
      /\ attempt' = [attempt EXCEPT ![a] = "queued"]
      /\ stage' = [stage EXCEPT ![a[1]] = "retry_wait"]
      /\ UNCHANGED <<job, project, selected, outputs>>
  BY HandlerParts DEF WorkflowInv, DeferForCapacity, MayDefer, OwnsLease
<1>2. /\ a[1] \in Stages
      /\ stage[a[1]] = "running"
      /\ JobActive
      /\ \A b \in Attempts : b[1] = a[1] /\ b # a => attempt[b] \notin Live
  BY <1>1, RunningAttempt
<1> HIDE DEF a
<1> USE DEF WorkflowInv, TypeOK
<1>3. InFlight'
  BY <1>1, <1>2, AttemptParts DEF InFlight, Live
<1>4. BlockedIsFresh'
  BY <1>1, <1>2, AttemptParts DEF BlockedIsFresh
<1>5. DependenciesFirst'
  BY <1>1, <1>2, StagesAssumption DEF DependenciesFirst
<1>6. VerdictMatchesStages'
  BY <1>1, <1>2 DEF VerdictMatchesStages, JobActive
<1>7. OneOutputPerStage'
  BY <1>1, <1>2, AttemptParts DEF OneOutputPerStage
<1>8. RetryFollowsFailure'
  BY <1>1, RetryFollowsFailureKept
<1> QED
  BY <1>3, <1>4, <1>5, <1>6, <1>7, <1>8

(* The attempt that a retry queues has never existed.                      *)
LEMMA SuccessorIsNew ==
    ASSUME WorkflowInv, NEW a \in Attempts, attempt[a] = "running",
           a[2] < MaxAttempts[a[1]]
    PROVE  /\ Successor(a) \in Attempts
           /\ Successor(a)[1] = a[1] /\ Successor(a)[2] = a[2] + 1
           /\ \A b \in Attempts : b[1] = a[1] /\ b[2] > a[2] => attempt[b] = "absent"
<1>1. a[1] \in Stages /\ a[2] \in 1 .. MaxAttempts[a[1]] /\ a = <<a[1], a[2]>>
  BY AttemptParts
<1>2. MaxAttempts[a[1]] \in Nat
  BY <1>1, StagesAssumption
<1>3. Successor(a) \in Attempts /\ Successor(a)[1] = a[1] /\ Successor(a)[2] = a[2] + 1
  BY <1>1, <1>2, MakeAttempt DEF Successor
<1>4. ASSUME NEW b \in Attempts, b[1] = a[1], b[2] > a[2], attempt[b] # "absent"
      PROVE FALSE
  <2>1. b[2] \in Nat /\ a[2] \in 1 .. (b[2] - 1)
    BY <1>1, <1>2, <1>4, AttemptParts
  <2>2. attempt[<<a[1], a[2]>>] \in {"failed", "timed_out"}
    BY <1>4, <2>1 DEF WorkflowInv, RetryFollowsFailure
  <2> QED
    BY <1>1, <2>2
<1> QED
  BY <1>3, <1>4

(* Scheduling a retry keeps the invariant.                                 *)
LEMMA RetryKeepsInv ==
    ASSUME WorkflowInv, TypeOK', NEW a \in Attempts, attempt[a] = "running",
           a[2] < MaxAttempts[a[1]], NEW status \in {"failed", "timed_out"},
           ScheduleRetry(a, status), UNCHANGED <<selected, outputs>>
    PROVE  WorkflowInv'
<1> DEFINE n == Successor(a)
<1>1. /\ attempt' = [attempt EXCEPT ![a] = status, ![n] = "queued"]
      /\ stage' = [stage EXCEPT ![a[1]] = "retry_wait"]
      /\ UNCHANGED <<job, project, selected, outputs>>
  BY DEF ScheduleRetry
<1>2. /\ a[1] \in Stages
      /\ stage[a[1]] = "running"
      /\ JobActive
      /\ \A b \in Attempts : b[1] = a[1] /\ b # a => attempt[b] \notin Live
  BY RunningAttempt
<1>3. /\ n \in Attempts
      /\ n[1] = a[1] /\ n[2] = a[2] + 1
      /\ \A b \in Attempts : b[1] = a[1] /\ b[2] > a[2] => attempt[b] = "absent"
  BY SuccessorIsNew
<1>4. a[2] \in Nat /\ n # a /\ n[2] - 1 = a[2] /\ attempt[n] = "absent"
  BY <1>2, <1>3, AttemptParts
<1> HIDE DEF n
<1> USE DEF WorkflowInv, TypeOK
<1>5. InFlight'
  <2>1. \A b \in Attempts : b # a /\ b # n => attempt'[b] = attempt[b]
    BY <1>1
  <2>2. attempt'[a] = status /\ attempt'[n] = "queued"
    BY <1>1, <1>3, <1>4
  <2>3. \A b \in Attempts : b[1] = a[1] /\ b # n => attempt'[b] \notin Live
    BY <1>2, <2>1, <2>2 DEF Live
  <2>4. \A s \in Stages : s # a[1] => stage'[s] = stage[s]
    BY <1>1
  <2>5. stage'[a[1]] = "retry_wait"
    BY <1>1, <1>2
  <2>6. \A b \in Attempts : b[1] \in Stages
    BY AttemptParts
  <2>7. \A b, c \in Attempts :
          attempt'[b] \in Live /\ attempt'[c] \in Live /\ b[1] = c[1] => b = c
    BY <1>3, <2>1, <2>2, <2>3 DEF InFlight, Live
  <2>8. \A b \in Attempts :
          /\ attempt'[b] = "running" => stage'[b[1]] = "running"
          /\ attempt'[b] = "queued" => stage'[b[1]] \in {"queued", "retry_wait"}
    BY <1>3, <2>1, <2>2, <2>3, <2>4, <2>5, <2>6 DEF InFlight, Live
  <2>9. \A s \in Stages : stage'[s] = "running" =>
          \E b \in Attempts : b[1] = s /\ attempt'[b] = "running"
    <3>1. ASSUME NEW s \in Stages, stage'[s] = "running"
          PROVE  \E b \in Attempts : b[1] = s /\ attempt'[b] = "running"
      <4>1. s # a[1] /\ stage[s] = "running"
        BY <2>4, <2>5, <3>1
      <4>2. PICK b \in Attempts : b[1] = s /\ attempt[b] = "running"
        BY <4>1 DEF InFlight
      <4> QED
        BY <1>3, <2>1, <4>1, <4>2
    <3> QED
      BY <3>1
  <2>10. \A s \in Stages : stage'[s] \in {"queued", "retry_wait"} =>
          \E b \in Attempts : b[1] = s /\ attempt'[b] = "queued"
    BY <1>3, <2>1, <2>2, <2>4 DEF InFlight
  <2> QED
    BY <2>7, <2>8, <2>9, <2>10 DEF InFlight
<1>6. BlockedIsFresh'
  BY <1>1, <1>2, <1>3, AttemptParts DEF BlockedIsFresh
<1>7. DependenciesFirst'
  BY <1>1, <1>2, StagesAssumption DEF DependenciesFirst
<1>8. VerdictMatchesStages'
  BY <1>1, <1>2 DEF VerdictMatchesStages, JobActive
<1>9. OneOutputPerStage'
  BY <1>1, <1>2, <1>3, <1>4, AttemptParts DEF OneOutputPerStage
<1>10. RetryFollowsFailure'
  <2>1. ASSUME NEW b \in Attempts, attempt'[b] # "absent", NEW i \in 1 .. (b[2] - 1)
        PROVE  attempt'[<<b[1], i>>] \in {"failed", "timed_out"}
    <3>1. <<b[1], i>> \in Attempts
      BY Predecessors
    <3>2. CASE b # n
      <4>1. attempt[b] # "absent"
        BY <1>1, <2>1, <3>2
      <4>2. attempt[<<b[1], i>>] \in {"failed", "timed_out"}
        BY <4>1 DEF RetryFollowsFailure
      <4> QED
        BY <1>1, <1>4, <3>1, <4>2
    <3>3. CASE b = n /\ i = a[2]
      <4>1. <<b[1], i>> = a
        BY <1>3, <3>3, AttemptParts
      <4> QED
        BY <1>1, <1>3, <1>4, <4>1
    <3>4. CASE b = n /\ i # a[2]
      <4>1. i \in 1 .. (a[2] - 1)
        <5>1. b[2] - 1 = a[2]
          BY <1>4, <3>4
        <5>2. i \in 1 .. a[2] /\ i # a[2]
          BY <2>1, <3>4, <5>1
        <5> QED
          BY <1>4, <5>2
      <4>2. attempt[<<a[1], i>>] \in {"failed", "timed_out"}
        BY <4>1 DEF RetryFollowsFailure
      <4>3. <<a[1], i>> \in Attempts /\ <<a[1], i>> # a /\ <<a[1], i>> # n
        BY <1>3, <1>4, <3>1, <3>4, <4>2
      <4>4. attempt'[<<a[1], i>>] = attempt[<<a[1], i>>]
        BY <1>1, <4>3
      <4> QED
        BY <1>3, <3>4, <4>2, <4>4
    <3> QED
      BY <3>2, <3>3, <3>4
  <2> QED
    BY <2>1 DEF RetryFollowsFailure
<1> QED
  BY <1>5, <1>6, <1>7, <1>8, <1>9, <1>10

Unfinished == {"blocked", "queued", "retry_wait", "running"}

(* The effect of a stage's final failure, in the terms of the invariant.   *)
LEMMA FailStageEffect ==
    ASSUME WorkflowInv, NEW a \in Attempts, attempt[a] = "running",
           NEW status \in {"failed", "timed_out"}, FailStage(a, status)
    PROVE  /\ job' = "failed" /\ project' = "failed"
           /\ \A t \in Stages :
                stage'[t] = IF t = a[1] THEN "failed"
                            ELSE IF stage[t] \in Unfinished THEN "canceled" ELSE stage[t]
           /\ \A b \in Attempts :
                attempt'[b] = IF b = a THEN status
                              ELSE IF /\ b[1] # a[1]
                                      /\ stage[b[1]] \in Unfinished
                                      /\ attempt[b] \in Live
                                   THEN "canceled" ELSE attempt[b]
<1>1. a[1] \in Stages /\ JobActive
  BY RunningAttempt
<1> QED
  BY <1>1, AttemptParts DEF FailStage, CanceledWith, Siblings, Live, Unfinished

(* The final failure of a stage keeps the invariant.                       *)
LEMMA FailStageKeepsInv ==
    ASSUME WorkflowInv, TypeOK', NEW a \in Attempts, attempt[a] = "running",
           NEW status \in {"failed", "timed_out"},
           FailStage(a, status), UNCHANGED <<selected, outputs>>
    PROVE  WorkflowInv'
<1> DEFINE s == a[1]
<1>1. /\ s \in Stages
      /\ stage[s] = "running"
      /\ JobActive
      /\ \A b \in Attempts : b[1] = s /\ b # a => attempt[b] \notin Live
  BY RunningAttempt
<1>2. job' = "failed" /\ project' = "failed" /\ UNCHANGED <<selected, outputs>>
  BY FailStageEffect
<1>3. \A t \in Stages :
        stage'[t] = IF t = s THEN "failed"
                    ELSE IF stage[t] \in Unfinished THEN "canceled" ELSE stage[t]
  BY FailStageEffect
<1>4. \A b \in Attempts :
        attempt'[b] = IF b = a THEN status
                      ELSE IF b[1] # s /\ stage[b[1]] \in Unfinished /\ attempt[b] \in Live
                           THEN "canceled" ELSE attempt[b]
  BY FailStageEffect
<1> HIDE DEF s
<1>5. \A t \in Stages : stage'[t] \in FinalStage /\ (stage'[t] = "succeeded" <=> stage[t] = "succeeded")
  BY <1>1, <1>3 DEF WorkflowInv, TypeOK, StageStatuses, FinalStage, Unfinished
<1>6. \A b \in Attempts : /\ attempt'[b] \notin Live
                          /\ attempt'[b] = "succeeded" <=> attempt[b] = "succeeded"
  BY <1>1, <1>4, AttemptParts DEF WorkflowInv, InFlight, Live, Unfinished, s
<1> USE DEF WorkflowInv
<1>7. InFlight'
  BY <1>5, <1>6, AttemptParts DEF InFlight, FinalStage, Live
<1>8. BlockedIsFresh'
  BY <1>5, AttemptParts DEF BlockedIsFresh, FinalStage
<1>9. DependenciesFirst'
  BY <1>1, <1>3, <1>5, StagesAssumption DEF DependenciesFirst, Unfinished
<1>10. VerdictMatchesStages'
  BY <1>1, <1>2, <1>3, <1>5 DEF VerdictMatchesStages, JobActive
<1>11. OneOutputPerStage'
  BY <1>2, <1>5, <1>6 DEF OneOutputPerStage
<1>12. RetryFollowsFailure'
  BY <1>4, RetryFollowsFailureKept DEF Live
<1> QED
  BY <1>7, <1>8, <1>9, <1>10, <1>11, <1>12

(* The effect of a completion, in the terms of the invariant.              *)
LEMMA CompleteEffect ==
    ASSUME WorkflowInv, NEW h \in handlers, Complete(h)
    PROVE  /\ h.attempt \in Attempts
           /\ h.attempt[1] \in Stages
           /\ attempt[h.attempt] = "running"
           /\ stage[h.attempt[1]] = "running"
           /\ JobActive
           /\ \A b \in Attempts : b[1] = h.attempt[1] /\ b # h.attempt => attempt[b] \notin Live
           /\ \A t \in Stages :
                stage'[t] = IF t = h.attempt[1] THEN "succeeded"
                            ELSE IF t \in Unlocked(h.attempt[1]) THEN "queued" ELSE stage[t]
           /\ \A b \in Attempts :
                attempt'[b] = IF b = h.attempt THEN "succeeded"
                              ELSE IF b[1] \in Unlocked(h.attempt[1]) /\ b[2] = 1
                                   THEN "queued" ELSE attempt[b]
           /\ outputs' = [outputs EXCEPT ![h.attempt[1]] = @ \cup {h.attempt}]
           /\ job' = IF LastStage(h.attempt[1]) THEN "succeeded" ELSE job
           /\ selected' = (selected \/ LastStage(h.attempt[1]))
           /\ project' = project
<1> DEFINE a == h.attempt
           s == h.attempt[1]
<1>1. a \in Attempts /\ attempt[a] = "running"
  BY HandlerParts DEF WorkflowInv, Complete, OwnsLease
<1>2. /\ s \in Stages /\ stage[s] = "running" /\ JobActive
      /\ \A b \in Attempts : b[1] = s /\ b # a => attempt[b] \notin Live
  BY <1>1, RunningAttempt
<1>3. \A b \in Attempts :
        b \in {First(t) : t \in Unlocked(s)} <=> b[1] \in Unlocked(s) /\ b[2] = 1
  BY AttemptParts DEF First
<1>4. attempt' = [b \in Attempts |-> CASE b = a -> "succeeded"
                    [] b \in {First(t) : t \in Unlocked(s)} -> "queued"
                    [] OTHER -> attempt[b]]
  BY DEF Complete
<1>5. stage' = [t \in Stages |-> CASE t = s -> "succeeded"
                  [] t \in Unlocked(s) -> "queued"
                  [] OTHER -> stage[t]]
  BY DEF Complete
<1>6. /\ outputs' = [outputs EXCEPT ![s] = @ \cup {a}]
      /\ job' = IF LastStage(s) THEN "succeeded" ELSE job
      /\ selected' = (selected \/ LastStage(s))
      /\ project' = project
  BY DEF Complete
<1>7. a[1] = s /\ s \notin Unlocked(s)
  BY <1>2 DEF Unlocked
<1> HIDE DEF a, s
<1>8. \A b \in Attempts :
        attempt'[b] = IF b = a THEN "succeeded"
                      ELSE IF b[1] \in Unlocked(s) /\ b[2] = 1 THEN "queued" ELSE attempt[b]
  BY <1>3, <1>4, <1>7
<1>9. \A t \in Stages :
        stage'[t] = IF t = s THEN "succeeded"
                    ELSE IF t \in Unlocked(s) THEN "queued" ELSE stage[t]
  BY <1>5, <1>7
<1> QED
  BY <1>1, <1>2, <1>6, <1>8, <1>9 DEF a, s

(* A completion, with all it unlocks, keeps the invariant.                 *)
LEMMA CompleteKeepsInv ==
    ASSUME WorkflowInv, TypeOK', NEW h \in handlers, Complete(h)
    PROVE  WorkflowInv'
<1> DEFINE a == h.attempt
           s == h.attempt[1]
           U == Unlocked(h.attempt[1])
<1>1. /\ a \in Attempts /\ s \in Stages /\ a[1] = s
      /\ attempt[a] = "running" /\ stage[s] = "running" /\ JobActive
      /\ \A b \in Attempts : b[1] = s /\ b # a => attempt[b] \notin Live
  BY CompleteEffect
<1>2. \A t \in Stages :
        stage'[t] = IF t = s THEN "succeeded" ELSE IF t \in U THEN "queued" ELSE stage[t]
  BY CompleteEffect
<1>3. \A b \in Attempts :
        attempt'[b] = IF b = a THEN "succeeded"
                      ELSE IF b[1] \in U /\ b[2] = 1 THEN "queued" ELSE attempt[b]
  BY CompleteEffect
<1>4. /\ outputs' = [outputs EXCEPT ![s] = @ \cup {a}]
      /\ job' = IF LastStage(s) THEN "succeeded" ELSE job
      /\ selected' = (selected \/ LastStage(s))
      /\ project' = project
  BY CompleteEffect
<1>5. \A t \in U : /\ t \in Stages /\ t # s /\ stage[t] = "blocked"
                   /\ \A d \in Deps[t] : d = s \/ stage[d] = "succeeded"
                   /\ <<t, 1>> \in Attempts
  BY <1>1, MakeAttempt, StagesAssumption DEF Unlocked
<1>6. \A b \in Attempts : b[1] \in U => attempt[b] = "absent"
  BY <1>5 DEF WorkflowInv, BlockedIsFresh
<1>7. \A b \in Attempts : b[1] \in Stages /\ b = <<b[1], b[2]>>
  BY AttemptParts
<1> HIDE DEF a, s, U
<1> USE DEF WorkflowInv
<1>8. InFlight'
  <2>1. \A b, c \in Attempts :
          attempt'[b] \in Live /\ attempt'[c] \in Live /\ b[1] = c[1] => b = c
    BY <1>1, <1>3, <1>6, <1>7 DEF InFlight, Live
  <2>2. \A b \in Attempts :
          /\ attempt'[b] = "running" => stage'[b[1]] = "running"
          /\ attempt'[b] = "queued" => stage'[b[1]] \in {"queued", "retry_wait"}
    BY <1>1, <1>2, <1>3, <1>5, <1>6, <1>7 DEF InFlight, Live
  <2>3. ASSUME NEW t \in Stages, stage'[t] = "running"
        PROVE  \E b \in Attempts : b[1] = t /\ attempt'[b] = "running"
    BY <1>1, <1>2, <1>3, <1>6, <2>3 DEF InFlight
  <2>4. ASSUME NEW t \in Stages, stage'[t] \in {"queued", "retry_wait"}
        PROVE  \E b \in Attempts : b[1] = t /\ attempt'[b] = "queued"
    <3>1. CASE t \in U
      <4>1. <<t, 1>> \in Attempts /\ <<t, 1>>[1] = t /\ <<t, 1>> # a
        BY <1>1, <1>5, <3>1
      <4> QED
        BY <1>3, <3>1, <4>1
    <3>2. CASE t \notin U
      <4>1. stage[t] \in {"queued", "retry_wait"} /\ t # s
        BY <1>2, <2>4, <3>2
      <4>2. PICK b \in Attempts : b[1] = t /\ attempt[b] = "queued"
        BY <4>1 DEF InFlight
      <4> QED
        BY <1>1, <1>3, <3>2, <4>1, <4>2
    <3> QED
      BY <3>1, <3>2
  <2> QED
    BY <2>1, <2>2, <2>3, <2>4 DEF InFlight
<1>9. BlockedIsFresh'
  BY <1>1, <1>2, <1>3, <1>7 DEF BlockedIsFresh
<1>10. DependenciesFirst'
  BY <1>1, <1>2, <1>5, StagesAssumption DEF DependenciesFirst
<1>11. VerdictMatchesStages'
  <2>1. LastStage(s) <=> \A t \in Stages : stage'[t] = "succeeded"
    BY <1>1, <1>2, <1>5 DEF LastStage
  <2>2. ~\E t \in Stages : stage'[t] = "failed"
    BY <1>1, <1>2 DEF VerdictMatchesStages, JobActive
  <2> QED
    BY <1>1, <1>4, <2>1, <2>2 DEF VerdictMatchesStages, JobActive, TypeOK
<1>12. OneOutputPerStage'
  <2>1. outputs[s] = {} /\ \A b \in Attempts : b[1] = s => attempt[b] # "succeeded"
    BY <1>1 DEF OneOutputPerStage
  <2>2. outputs'[s] = {a} /\ \A t \in Stages : t # s => outputs'[t] = outputs[t]
    BY <1>1, <1>4, <2>1 DEF TypeOK
  <2>3. \A b \in Attempts : b # a => (attempt'[b] = "succeeded" <=> attempt[b] = "succeeded")
    BY <1>3, <1>6
  <2>4. \A t \in Stages : t # s => (stage'[t] = "succeeded" <=> stage[t] = "succeeded")
    BY <1>2, <1>5
  <2>5. attempt'[a] = "succeeded" /\ stage'[s] = "succeeded"
    BY <1>1, <1>2, <1>3
  <2>6. ASSUME NEW t \in Stages, t # s
        PROVE  outputs'[t] = {b \in Attempts : b[1] = t /\ attempt'[b] = "succeeded"}
    BY <1>1, <2>2, <2>3, <2>6 DEF OneOutputPerStage
  <2>7. outputs'[s] = {b \in Attempts : b[1] = s /\ attempt'[b] = "succeeded"}
    BY <1>1, <2>1, <2>2, <2>3, <2>5
  <2> QED
    BY <2>2, <2>4, <2>5, <2>6, <2>7 DEF OneOutputPerStage
<1>13. RetryFollowsFailure'
  <2>1. ASSUME NEW b \in Attempts, attempt'[b] # "absent", NEW i \in 1 .. (b[2] - 1)
        PROVE  attempt'[<<b[1], i>>] \in {"failed", "timed_out"}
    <3>1. <<b[1], i>> \in Attempts
      BY Predecessors
    <3>2. attempt[b] # "absent"
      <4>1. b[2] # 1
        OBVIOUS
      <4> QED
        BY <1>1, <1>3, <2>1, <4>1
    <3>3. attempt[<<b[1], i>>] \in {"failed", "timed_out"}
      BY <3>2 DEF RetryFollowsFailure
    <3>4. <<b[1], i>> # a /\ <<b[1], i>>[1] \notin U
      BY <1>1, <1>6, <3>1, <3>3
    <3> QED
      BY <1>3, <3>1, <3>3, <3>4
  <2> QED
    BY <2>1 DEF RetryFollowsFailure
<1> QED
  BY <1>8, <1>9, <1>10, <1>11, <1>12, <1>13

(* A failure, reported by a handler or by the recovery.                    *)
LEMMA FailAttemptKeepsInv ==
    ASSUME WorkflowInv, TypeOK', NEW a \in Attempts, NEW token, NEW retryable,
           NEW status \in {"failed", "timed_out"},
           FailAttempt(a, OwnsLease(a, token), retryable, status)
    PROVE  WorkflowInv'
<1>1. UNCHANGED <<selected, outputs>>
  BY DEF FailAttempt
<1>2. CASE /\ OwnsLease(a, token)
           /\ MayRetry(a, retryable)
           /\ ScheduleRetry(a, status)
  BY <1>1, <1>2, RetryKeepsInv DEF OwnsLease, MayRetry
<1>3. CASE OwnsLease(a, token) /\ FailStage(a, status)
  BY <1>1, <1>3, FailStageKeepsInv DEF OwnsLease
<1>4. CASE UNCHANGED <<attempt, lease, expired, stage, ready, event, job, project>>
  BY <1>1, <1>4 DEF WorkflowInv, InFlight, BlockedIsFresh, DependenciesFirst,
                    VerdictMatchesStages, OneOutputPerStage, RetryFollowsFailure
<1> QED
  BY <1>2, <1>3, <1>4 DEF FailAttempt

(* So does a step that changes nothing the invariant reads.                *)
LEMMA UnchangedKeepsInv ==
    ASSUME WorkflowInv, TypeOK', UNCHANGED verdictVars
    PROVE  WorkflowInv'
BY DEF verdictVars, WorkflowInv, InFlight, BlockedIsFresh, DependenciesFirst,
       VerdictMatchesStages, OneOutputPerStage, RetryFollowsFailure

(* The steps that neither claim nor settle an attempt.                     *)
QuietStep ==
    \/ \E a \in Attempts : \/ ClaimNothing(a) \/ ExecutorNotReady(a) \/ LeaseExpires(a)
                          \/ ReplayDelivery(a) \/ EventDue(a) \/ DeliveryLost(a)
    \/ \E h \in handlers : \/ CompletionRefused(h) \/ WorkFails(h) \/ DeferralRolledBack(h)
                          \/ DeferralRefused(h) \/ Heartbeat(h) \/ HandlerCrashes(h)
                          \/ DeliveryStalls(h)
    \/ \E s \in Stages : BackoffEnds(s)
    \/ ReadExpired
    \/ \E r \in Relays :
         \/ \E B \in SUBSET Attempts : LeaseBatch(r, B)
         \/ \E a \in Attempts : Publish(r, a) \/ MarkPublished(r, a) \/ PublishFails(r, a)
         \/ RelayCrashes(r)
    \/ UNCHANGED vars

(* Quiet steps change nothing that the invariant reads.                    *)
LEMMA QuietStepIsQuiet == QuietStep => UNCHANGED verdictVars
BY DEF QuietStep, verdictVars, vars, workflowVars, ClaimNothing, ExecutorNotReady,
       LeaseExpires, ReplayDelivery, EventDue, DeliveryLost, CompletionRefused, WorkFails,
       DeferralRolledBack, DeferralRefused, Heartbeat, HandlerCrashes, DeliveryStalls,
       BackoffEnds, ReadExpired, LeaseBatch, Publish, MarkPublished, PublishFails,
       RelayCrashes

(* Every step claims, settles or is quiet.                                 *)
LEMMA NextCases ==
    ASSUME [Next]_vars
    PROVE  \/ \E a \in Attempts : Claim(a)
           \/ \E h \in handlers : Complete(h) \/ DeferForCapacity(h) \/ Fail(h)
           \/ \E e \in expiredRead : TimeOut(e)
           \/ QuietStep
BY DEF Next, Answer, QuietStep

(* Every step keeps the invariant.                                         *)
LEMMA NextKeepsInv == WorkflowInv /\ [Next]_vars => WorkflowInv'
<1> SUFFICES ASSUME WorkflowInv, [Next]_vars PROVE WorkflowInv'
  OBVIOUS
<1>1. TypeOK /\ TypeOK'
  BY NextTypeOK DEF WorkflowInv
<1>2. ASSUME NEW a \in Attempts, Claim(a) PROVE WorkflowInv'
  BY <1>1, <1>2, ClaimKeepsInv
<1>3. ASSUME NEW h \in handlers, Complete(h) PROVE WorkflowInv'
  BY <1>1, <1>3, CompleteKeepsInv
<1>4. ASSUME NEW h \in handlers, DeferForCapacity(h) PROVE WorkflowInv'
  BY <1>1, <1>4, DeferKeepsInv
<1>5. ASSUME NEW h \in handlers, Fail(h) PROVE WorkflowInv'
  <2>1. h.attempt \in Attempts
    BY <1>1, HandlerParts
  <2>2. FailAttempt(h.attempt, OwnsLease(h.attempt, h.token), h.phase = "retryable", "failed")
    BY <1>5 DEF Fail
  <2> QED
    BY <1>1, <2>1, <2>2, FailAttemptKeepsInv
<1>6. ASSUME NEW e \in expiredRead, TimeOut(e) PROVE WorkflowInv'
  <2>1. e[1] \in Attempts
    BY <1>1 DEF TypeOK
  <2>2. FailAttempt(e[1], OwnsLease(e[1], e[2]), TRUE, "timed_out")
    BY <1>6 DEF TimeOut
  <2> QED
    BY <1>1, <2>1, <2>2, FailAttemptKeepsInv
<1>7. CASE QuietStep
  BY <1>1, <1>7, QuietStepIsQuiet, UnchangedKeepsInv
<1> QED
  BY <1>2, <1>3, <1>4, <1>5, <1>6, <1>7, NextCases

(* The invariant holds of every run of the job.                            *)
THEOREM Invariance == Spec => []WorkflowInv
<1>1. Init => WorkflowInv
  BY InitWorkflowInv
<1>2. WorkflowInv /\ [Next]_vars => WorkflowInv'
  BY NextKeepsInv
<1> QED
  BY <1>1, <1>2, PTL DEF Spec

(* No stage is ever queued or run before the stages it depends on have     *)
(* succeeded, and those are never taken back.                              *)
THEOREM DependenciesFirstHolds == Spec => []DependenciesFirst
<1>1. WorkflowInv => DependenciesFirst
  BY DEF WorkflowInv
<1> QED
  BY <1>1, Invariance, PTL

(* A stage in flight has exactly one live attempt, whose status is the     *)
(* stage's; any other stage has none.                                      *)
THEOREM StageHasItsAttemptHolds == Spec => []StageHasItsAttempt
<1>1. WorkflowInv => StageHasItsAttempt
  BY InFlightIsStageHasItsAttempt DEF WorkflowInv
<1> QED
  BY <1>1, Invariance, PTL

(* The status of the job, the selection of the analysis and the status of  *)
(* the project agree with the stages.                                      *)
THEOREM VerdictMatchesStagesHolds == Spec => []VerdictMatchesStages
<1>1. WorkflowInv => VerdictMatchesStages
  BY DEF WorkflowInv
<1> QED
  BY <1>1, Invariance, PTL

(* However often a stage is delivered, retried or timed out, the results   *)
(* of one attempt at most are persisted: those of the one that succeeded.  *)
THEOREM OneOutputPerStageHolds == Spec => []OneOutputPerStage
<1>1. WorkflowInv => OneOutputPerStage
  BY DEF WorkflowInv
<1> QED
  BY <1>1, Invariance, PTL

(* An attempt exists only if those before it have failed or timed out.     *)
THEOREM RetryFollowsFailureHolds == Spec => []RetryFollowsFailure
<1>1. WorkflowInv => RetryFollowsFailure
  BY DEF WorkflowInv
<1> QED
  BY <1>1, Invariance, PTL

-----------------------------------------------------------------------------
(* One owner per stage                                                     *)

(* No two handlers hold the same claim, and none a claim not yet drawn.    *)
UniqueClaims ==
    \A g, h \in handlers :
        /\ h.token <= issued[h.attempt]
        /\ g.attempt = h.attempt /\ g.token = h.token => g = h

(* Claims stay unique: a claim draws a token never drawn before.           *)
LEMMA NextKeepsClaims == TypeOK /\ UniqueClaims /\ [Next]_vars => UniqueClaims'
<1> SUFFICES ASSUME TypeOK, UniqueClaims, [Next]_vars PROVE UniqueClaims'
  OBVIOUS
<1>1. ASSUME NEW a \in Attempts, Claim(a) PROVE UniqueClaims'
  <2> DEFINE new == [attempt |-> a, token |-> issued[a] + 1,
                     phase |-> "executing", locked |-> TRUE]
  <2>1. handlers' = handlers \cup {new} /\ new.attempt = a /\ new.token = issued[a] + 1
    BY <1>1 DEF Claim
  <2>2. /\ issued[a] \in Nat /\ issued'[a] = issued[a] + 1
        /\ \A b \in Attempts : b # a => issued'[b] = issued[b]
    BY <1>1 DEF Claim, TypeOK
  <2>3. \A h \in handlers : h.attempt \in Attempts /\ h.token \in Nat
    BY HandlerParts
  <2> HIDE DEF new
  <2>4. \A h \in handlers : /\ h.token <= issued'[h.attempt]
                            /\ h.attempt = a => h.token # issued[a] + 1
    BY <2>2, <2>3 DEF UniqueClaims
  <2> QED
    BY <2>1, <2>2, <2>4 DEF UniqueClaims
<1>2. ASSUME NEW h \in handlers, NEW k, k.attempt = h.attempt, k.token = h.token,
             handlers' = (handlers \ {h}) \cup {k}, UNCHANGED issued
      PROVE  UniqueClaims'
  BY <1>2 DEF UniqueClaims
<1>3. ASSUME NEW h \in handlers,
             CompletionRefused(h) \/ WorkFails(h) \/ DeferralRefused(h)
      PROVE  UniqueClaims'
  <2>1. PICK phase \in {"retryable", "fatal"} : TurnTo(h, phase)
    BY <1>3 DEF CompletionRefused, WorkFails, DeferralRefused
  <2>2. UNCHANGED issued
    BY <1>3 DEF CompletionRefused, WorkFails, DeferralRefused, workflowVars
  <2>3. [h EXCEPT !.phase = phase].attempt = h.attempt
        /\ [h EXCEPT !.phase = phase].token = h.token
    BY HandlerParts DEF Handlers
  <2> QED
    BY <1>2, <2>1, <2>2, <2>3 DEF TurnTo
<1>4. ASSUME NEW h \in handlers, DeliveryStalls(h) PROVE UniqueClaims'
  <2>1. [h EXCEPT !.locked = FALSE].attempt = h.attempt
        /\ [h EXCEPT !.locked = FALSE].token = h.token
    BY HandlerParts DEF Handlers
  <2> QED
    BY <1>2, <1>4, <2>1 DEF DeliveryStalls, workflowVars
<1>5. ASSUME handlers' \in SUBSET handlers, UNCHANGED issued PROVE UniqueClaims'
  BY <1>5 DEF UniqueClaims
<1>6. ASSUME NEW h \in handlers, \/ Complete(h) \/ DeferForCapacity(h) \/ DeferralRolledBack(h)
                                 \/ Fail(h) \/ Heartbeat(h) \/ HandlerCrashes(h)
      PROVE  UniqueClaims'
  BY <1>5, <1>6 DEF Complete, DeferForCapacity, DeferralRolledBack, Fail, FailAttempt,
                    Heartbeat, HandlerCrashes, workflowVars, deliveryVars
<1>7. ASSUME NEW a \in Attempts, \/ ClaimNothing(a) \/ ExecutorNotReady(a) \/ LeaseExpires(a)
                                 \/ ReplayDelivery(a) \/ EventDue(a) \/ DeliveryLost(a)
      PROVE  UniqueClaims'
  BY <1>5, <1>7 DEF ClaimNothing, ExecutorNotReady, LeaseExpires, ReplayDelivery,
                    EventDue, DeliveryLost, workflowVars, deliveryVars
<1>8. ASSUME NEW e \in expiredRead, TimeOut(e) PROVE UniqueClaims'
  BY <1>5, <1>8 DEF TimeOut, FailAttempt, deliveryVars
<1>9. ASSUME NEW r \in Relays, NEW a \in Attempts,
             Publish(r, a) \/ MarkPublished(r, a) \/ PublishFails(r, a)
      PROVE  UniqueClaims'
  BY <1>5, <1>9 DEF Publish, MarkPublished, PublishFails, workflowVars, deliveryVars
<1>10. ASSUME NEW r \in Relays, RelayCrashes(r) \/ \E B \in SUBSET Attempts : LeaseBatch(r, B)
       PROVE  UniqueClaims'
  BY <1>5, <1>10 DEF RelayCrashes, LeaseBatch, workflowVars, deliveryVars
<1>11. ASSUME ReadExpired \/ UNCHANGED vars \/ \E s \in Stages : BackoffEnds(s)
       PROVE  UniqueClaims'
  BY <1>5, <1>11 DEF ReadExpired, BackoffEnds, vars, workflowVars, deliveryVars
<1> QED
  BY <1>1, <1>3, <1>4, <1>6, <1>7, <1>8, <1>9, <1>10, <1>11 DEF Next, Answer

(* However a delivery is duplicated or a lease taken over, one handler at  *)
(* most is able to settle a stage.                                         *)
THEOREM OneOwnerPerStageHolds == Spec => []OneOwnerPerStage
<1>1. Init => UniqueClaims
  BY DEF Init, UniqueClaims
<1>2. TypeOK /\ UniqueClaims /\ [Next]_vars => UniqueClaims'
  BY NextKeepsClaims
<1>3. WorkflowInv /\ UniqueClaims => OneOwnerPerStage
  <2> SUFFICES ASSUME WorkflowInv, UniqueClaims, NEW g \in handlers, NEW h \in handlers,
                      g.attempt[1] = h.attempt[1],
                      OwnsLease(g.attempt, g.token), OwnsLease(h.attempt, h.token)
               PROVE  g = h
    BY DEF OneOwnerPerStage
  <2>1. g.attempt \in Attempts /\ h.attempt \in Attempts
    BY HandlerParts DEF WorkflowInv
  <2>2. g.attempt = h.attempt
    BY <2>1 DEF WorkflowInv, InFlight, Live, OwnsLease
  <2> QED
    BY <2>2 DEF UniqueClaims, OwnsLease
<1> QED
  BY <1>1, <1>2, <1>3, Invariance, TypeCorrect, PTL DEF Spec

-----------------------------------------------------------------------------
(* Final statuses and the refinement                                       *)

(* The five ways in which a step of the job changes its verdict variables. *)
LEMMA StepEffects ==
    ASSUME WorkflowInv, [Next]_vars
    PROVE  \/ \E a \in Attempts : Claim(a)
           \/ \E h \in handlers : Complete(h)
           \/ \E h \in handlers : DeferForCapacity(h)
           \/ \E a \in Attempts, status \in {"failed", "timed_out"} :
                /\ attempt[a] = "running"
                /\ UNCHANGED <<selected, outputs>>
                /\ \/ a[2] < MaxAttempts[a[1]] /\ ScheduleRetry(a, status)
                   \/ FailStage(a, status)
           \/ UNCHANGED verdictVars
<1> DEFINE Failure(a, status) ==
             /\ attempt[a] = "running"
             /\ UNCHANGED <<selected, outputs>>
             /\ \/ a[2] < MaxAttempts[a[1]] /\ ScheduleRetry(a, status)
                \/ FailStage(a, status)
<1>1. ASSUME NEW a \in Attempts, NEW token, NEW retryable,
             NEW status \in {"failed", "timed_out"},
             FailAttempt(a, OwnsLease(a, token), retryable, status)
      PROVE  Failure(a, status) \/ UNCHANGED verdictVars
  BY <1>1 DEF FailAttempt, OwnsLease, MayRetry, verdictVars
<1>2. ASSUME NEW h \in handlers, Fail(h)
      PROVE  Failure(h.attempt, "failed") \/ UNCHANGED verdictVars
  <2>1. h.attempt \in Attempts
    BY HandlerParts DEF WorkflowInv
  <2>2. FailAttempt(h.attempt, OwnsLease(h.attempt, h.token), h.phase = "retryable", "failed")
    BY <1>2 DEF Fail
  <2> QED
    BY <1>1, <2>1, <2>2
<1>3. ASSUME NEW e \in expiredRead, TimeOut(e)
      PROVE  Failure(e[1], "timed_out") \/ UNCHANGED verdictVars
  <2>1. e[1] \in Attempts
    BY DEF WorkflowInv, TypeOK
  <2>2. FailAttempt(e[1], OwnsLease(e[1], e[2]), TRUE, "timed_out")
    BY <1>3 DEF TimeOut
  <2> QED
    BY <1>1, <2>1, <2>2
<1>4. \A h \in handlers : h.attempt \in Attempts
  BY HandlerParts DEF WorkflowInv
<1>5. \A e \in expiredRead : e[1] \in Attempts
  BY DEF WorkflowInv, TypeOK
<1> HIDE DEF Failure
<1>6. \/ \E a \in Attempts : Claim(a)
      \/ \E h \in handlers : Complete(h) \/ DeferForCapacity(h)
      \/ \E a \in Attempts, status \in {"failed", "timed_out"} : Failure(a, status)
      \/ UNCHANGED verdictVars
  BY <1>2, <1>3, <1>4, <1>5, NextCases, QuietStepIsQuiet
<1> QED
  BY <1>6 DEF Failure

FinalStays ==
    /\ job \in {"succeeded", "failed"} => job' = job
    /\ \A s \in Stages : stage[s] \in FinalStage => stage'[s] = stage[s]
    /\ \A a \in Attempts :
         attempt[a] \notin Live \cup {"absent"} => attempt'[a] = attempt[a]

(* No step changes a final status.                                         *)
LEMMA StepKeepsFinal == WorkflowInv /\ [Next]_vars => FinalStays
<1> SUFFICES ASSUME WorkflowInv, [Next]_vars PROVE FinalStays
  OBVIOUS
<1> USE DEF FinalStays, FinalStage, Live
<1>1. ASSUME NEW a \in Attempts, Claim(a) PROVE FinalStays
  BY <1>1, AttemptParts DEF Claim, Claimable, JobActive, WorkflowInv, TypeOK
<1>2. ASSUME NEW h \in handlers, Complete(h) PROVE FinalStays
  <2>1. \A t \in Unlocked(h.attempt[1]) : stage[t] = "blocked"
    BY DEF Unlocked
  <2>2. \A b \in Attempts : b[1] \in Unlocked(h.attempt[1]) => attempt[b] = "absent"
    BY <2>1 DEF WorkflowInv, BlockedIsFresh
  <2>3. job \notin {"succeeded", "failed"}
    BY <1>2 DEF Complete, JobActive
  <2> QED
    BY <1>2, <2>1, <2>2, <2>3, CompleteEffect
<1>3. ASSUME NEW h \in handlers, DeferForCapacity(h) PROVE FinalStays
  <2>1. h.attempt \in Attempts /\ attempt[h.attempt] = "running"
    BY <1>3, HandlerParts DEF WorkflowInv, DeferForCapacity, MayDefer, OwnsLease
  <2>2. h.attempt[1] \in Stages /\ stage[h.attempt[1]] = "running"
    BY <2>1, RunningAttempt
  <2> QED
    BY <1>3, <2>1, <2>2 DEF DeferForCapacity, WorkflowInv, TypeOK
<1>4. ASSUME NEW a \in Attempts, attempt[a] = "running", a[2] < MaxAttempts[a[1]],
             NEW status, ScheduleRetry(a, status)
      PROVE  FinalStays
  <2>1. a[1] \in Stages /\ stage[a[1]] = "running"
    BY <1>4, RunningAttempt
  <2>2. a[1] \in Stages /\ a[2] \in Nat
    BY AttemptParts
  <2>3. attempt[Successor(a)] = "absent"
    BY <1>4, <2>2, SuccessorIsNew
  <2> QED
    BY <1>4, <2>1, <2>3 DEF ScheduleRetry, WorkflowInv, TypeOK
<1>5. ASSUME NEW a \in Attempts, attempt[a] = "running",
             NEW status \in {"failed", "timed_out"}, FailStage(a, status)
      PROVE  FinalStays
  <2>1. a[1] \in Stages /\ stage[a[1]] = "running" /\ JobActive
    BY <1>5, RunningAttempt
  <2> QED
    BY <1>5, <2>1, FailStageEffect DEF Unfinished, JobActive
<1>6. CASE UNCHANGED verdictVars
  BY <1>6 DEF verdictVars
<1> QED
  BY <1>1, <1>2, <1>3, <1>4, <1>5, <1>6, StepEffects

(* A terminal job, stage or attempt is never changed again, whatever late  *)
(* completions, failures, recoveries and deliveries arrive.                *)
THEOREM TerminalIsFinalHolds == Spec => TerminalIsFinal
<1>1. WorkflowInv /\ [Next]_vars =>
        [/\ job \in {"succeeded", "failed"} => job' = job
         /\ \A s \in Stages : stage[s] \in FinalStage => stage'[s] = stage[s]
         /\ \A a \in Attempts :
              attempt[a] \notin Live \cup {"absent"} => attempt'[a] = attempt[a]]_vars
  BY StepKeepsFinal DEF FinalStays
<1> QED
  BY <1>1, Invariance, PTL DEF Spec, TerminalIsFinal

-----------------------------------------------------------------------------
Committed == {s \in Stages : stage[s] = "succeeded"}
Verdict == IF job \in {"succeeded", "failed"} THEN job ELSE "open"

(* Every step is a step of the pipeline or leaves it unchanged.            *)
LEMMA StepImplements ==
    WorkflowInv /\ [Next]_vars => [Pipeline!Next]_(Pipeline!vars)
<1> SUFFICES ASSUME WorkflowInv, [Next]_vars PROVE Pipeline!Next \/ UNCHANGED Pipeline!vars
  OBVIOUS
<1>1. ASSUME Committed' = Committed, Verdict' = Verdict PROVE UNCHANGED Pipeline!vars
  BY <1>1 DEF Pipeline!vars, Committed, Verdict
<1>2. ASSUME NEW a \in Attempts, Claim(a) PROVE UNCHANGED Pipeline!vars
  <2>1. Committed' = Committed /\ Verdict' = Verdict
    BY <1>2, AttemptParts
       DEF Committed, Verdict, Claim, Claimable, JobActive, WorkflowInv, TypeOK
  <2> QED
    BY <1>1, <2>1
<1>3. ASSUME NEW a \in Attempts, attempt[a] = "running", UNCHANGED job,
             stage' = [stage EXCEPT ![a[1]] = "retry_wait"]
      PROVE  UNCHANGED Pipeline!vars
  <2>1. a[1] \in Stages /\ stage[a[1]] = "running"
    BY <1>3, RunningAttempt
  <2>2. Committed' = Committed /\ Verdict' = Verdict
    BY <1>3, <2>1 DEF Committed, Verdict, WorkflowInv, TypeOK
  <2> QED
    BY <1>1, <2>2
<1>4. ASSUME NEW h \in handlers, DeferForCapacity(h) PROVE UNCHANGED Pipeline!vars
  <2>1. h.attempt \in Attempts
    BY HandlerParts DEF WorkflowInv
  <2> QED
    BY <1>3, <1>4, <2>1 DEF DeferForCapacity, MayDefer, OwnsLease
<1>5. ASSUME NEW h \in handlers, Complete(h) PROVE Pipeline!Commit(h.attempt[1])
  <2> DEFINE s == h.attempt[1]
  <2>1. /\ s \in Stages /\ stage[s] = "running" /\ JobActive
        /\ \A t \in Stages :
             stage'[t] = IF t = s THEN "succeeded"
                         ELSE IF t \in Unlocked(s) THEN "queued" ELSE stage[t]
        /\ job' = IF LastStage(s) THEN "succeeded" ELSE job
    BY <1>5, CompleteEffect
  <2> HIDE DEF s
  <2>2. \A t \in Unlocked(s) : stage[t] = "blocked"
    BY DEF Unlocked
  <2>3. s \in Stages \ Committed /\ Committed' = Committed \cup {s}
    BY <2>1, <2>2 DEF Committed
  <2>4. Deps[s] \subseteq Committed
    BY <2>1, StagesAssumption DEF WorkflowInv, DependenciesFirst, Committed
  <2>5. LastStage(s) <=> Committed' = Stages
    BY <2>1, <2>3 DEF LastStage, Committed
  <2>6. Verdict = "open" /\ Verdict' = IF Committed' = Stages THEN "succeeded" ELSE "open"
    BY <2>1, <2>5 DEF Verdict, JobActive
  <2> QED
    BY <2>3, <2>4, <2>6 DEF Pipeline!Commit, Committed, Verdict, s
<1>6. ASSUME NEW a \in Attempts, attempt[a] = "running",
             NEW status \in {"failed", "timed_out"}, FailStage(a, status)
      PROVE  Pipeline!GiveUp
  <2>1. a[1] \in Stages /\ stage[a[1]] = "running" /\ JobActive
    BY <1>6, RunningAttempt
  <2>2. Committed' = Committed
    BY <1>6, <2>1, FailStageEffect DEF Committed, Unfinished
  <2>3. Verdict = "open" /\ Verdict' = "failed"
    BY <1>6, <2>1, FailStageEffect DEF Verdict, JobActive
  <2> QED
    BY <2>2, <2>3 DEF Pipeline!GiveUp, Committed, Verdict
<1>7. ASSUME UNCHANGED verdictVars PROVE UNCHANGED Pipeline!vars
  BY <1>7 DEF verdictVars, Pipeline!vars
<1>8. \A h \in handlers : h.attempt[1] \in Stages
  BY HandlerParts DEF WorkflowInv
<1> QED
  BY <1>2, <1>3, <1>4, <1>5, <1>6, <1>7, <1>8, StepEffects DEF Pipeline!Next, ScheduleRetry

(* The job implements the abstract pipeline: seen from outside, it commits *)
(* stages in dependency order until its one verdict, and nothing else.     *)
THEOREM PipelineRefinement == Spec => ImplementsPipeline
<1>1. Init => Pipeline!Init
  BY DEF Init, Pipeline!Init
<1>2. WorkflowInv /\ [Next]_vars => [Pipeline!Next]_(Pipeline!vars)
  BY StepImplements
<1> QED
  BY <1>1, <1>2, Invariance, PTL DEF Spec, ImplementsPipeline, Pipeline!Spec
=============================================================================
