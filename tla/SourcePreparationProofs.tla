----------------------- MODULE SourcePreparationProofs -----------------------
(***************************************************************************)
(* Proofs about SourcePreparation, for any number of attempts, reclaims,   *)
(* deliveries at once and any bound on faults, and that it implements      *)
(* WorkflowPipeline with a single stage.                                   *)
(***************************************************************************)
EXTENDS SourcePreparation, FiniteSetTheorems, TLAPS

(* A token is drawn once per attempt and given to one handler.             *)
TokensDrawn ==
    /\ \A h \in handlers : h.token <= issued[h.attempt]
    /\ \A g, h \in handlers : g.attempt = h.attempt /\ g.token = h.token => g = h

(* One attempt is live while the stage is in flight, none otherwise.       *)
StageInFlight ==
    /\ stage = "running" => \E a \in Attempts : Live = {a} /\ attempt[a] = "running"
    /\ stage \in {"queued", "retry_wait"} =>
         \E a \in Attempts : Live = {a} /\ attempt[a] = "queued"
    /\ stage \notin {"running", "queued", "retry_wait"} => Live = {}

(* Attempts follow each other.                                             *)
Ordered ==
    \A a \in Attempts : attempt[a] # "absent" =>
        \A b \in 1 .. (a - 1) : attempt[b] \in {"failed", "timed_out"}

VerdictsAgree ==
    /\ (job \in Terminal \/ stage \in Terminal) => job = stage
    /\ (project = "failed") <=> (job = "failed")

NothingYet ==
    /\ job = "absent" <=> stage = "absent"
    /\ job = "absent" => \A a \in Attempts : attempt[a] = "absent"

OutputOfSuccess ==
    /\ artifacts = {a \in Attempts : attempt[a] = "succeeded"}
    /\ speech => artifacts # {}

RowsInv ==
    /\ StageInFlight
    /\ Ordered
    /\ VerdictsAgree
    /\ NothingYet
    /\ OutputOfSuccess

PreparationInv == TypeOK /\ TokensDrawn /\ RowsInv

-----------------------------------------------------------------------------
(* What a step does to the rows                                            *)

rows == <<job, stage, project, attempt, artifacts, speech>>

Starts ==
    /\ job = "absent"
    /\ job' = "queued" /\ stage' = "queued" /\ project' = "processing"
    /\ attempt' = [attempt EXCEPT ![1] = "queued"]
    /\ UNCHANGED <<artifacts, speech>>

Runs(a) ==
    /\ \/ attempt[a] = "queued" /\ stage \in {"queued", "retry_wait"}
       \/ attempt[a] = "running"
    /\ job' = "running" /\ stage' = "running"
    /\ attempt' = [attempt EXCEPT ![a] = "running"]
    /\ UNCHANGED <<project, artifacts, speech>>

Succeeds(a) ==
    /\ attempt[a] = "running"
    /\ attempt' = [attempt EXCEPT ![a] = "succeeded"]
    /\ job' = "succeeded" /\ stage' = "succeeded"
    /\ artifacts' = artifacts \cup {a}
    /\ UNCHANGED project

Ends(a, status) ==
    /\ attempt[a] = "running"
    /\ \/ /\ a < MaxAttempts
          /\ attempt' = [attempt EXCEPT ![a] = status, ![a + 1] = "queued"]
          /\ stage' = "retry_wait"
          /\ UNCHANGED <<job, project, artifacts, speech>>
       \/ /\ attempt' = [attempt EXCEPT ![a] = status]
          /\ status = "timed_out" => a = MaxAttempts
          /\ stage' = "failed" /\ job' = "failed" /\ project' = "failed"
          /\ UNCHANGED <<artifacts, speech>>

Speaks ==
    /\ artifacts # {}
    /\ speech' = TRUE
    /\ UNCHANGED <<job, stage, project, attempt, artifacts>>

Moves ==
    \/ UNCHANGED rows
    \/ Starts
    \/ \E a \in Attempts :
         \/ Runs(a)
         \/ Succeeds(a)
         \/ \E status \in {"failed", "timed_out"} : Ends(a, status)
    \/ Speaks

LEMMA FailAttemptMoves ==
    ASSUME TypeOK, NEW a \in Attempts, NEW owned, NEW retryable \in BOOLEAN,
           NEW status \in {"failed", "timed_out"}, FailAttempt(a, owned, retryable, status),
           owned => attempt[a] = "running", status = "timed_out" => retryable
    PROVE  Moves
<1>1. UNCHANGED <<artifacts, speech>>
  BY DEF FailAttempt, resultVars
<1>2. CASE owned /\ MayRetry(a, retryable) /\ ScheduleRetry(a, status)
  BY <1>1, <1>2 DEF MayRetry, ScheduleRetry, Ends, Moves
<1>3. CASE owned /\ ~MayRetry(a, retryable) /\ FailJob(a, status)
  <2>1. status = "timed_out" => ~(a < MaxAttempts)
    BY <1>3, Zenon DEF MayRetry
  <2>2. ~(a < MaxAttempts) => a = MaxAttempts
    BY PreparationAssumption DEF Attempts
  <2> QED
    BY <1>1, <1>3, <2>1, <2>2 DEF FailJob, Ends, Moves
<1>4. CASE ~owned /\ UNCHANGED <<jobVars, attempt, lease, expired, event>>
  BY <1>1, <1>4 DEF jobVars, Moves, rows
<1> QED
  BY <1>2, <1>3, <1>4 DEF FailAttempt

LEMMA StepMoves ==
    ASSUME TypeOK, [Next]_vars
    PROVE  Moves
<1>1. CASE Initialize
  BY <1>1 DEF Initialize, resultVars, Starts, Moves
<1>2. CASE ReconcileSpeech
  BY <1>2 DEF ReconcileSpeech, LacksSpeech, jobVars, attemptVars, Speaks, Moves
<1>3. CASE Enable \/ BackoffEnds \/ ReadExhausted \/ UNCHANGED vars
  BY <1>3 DEF Enable, BackoffEnds, ReadExhausted, vars, jobVars, attemptVars, resultVars,
              Moves, rows
<1>4. ASSUME NEW a \in Attempts, Claim(a) \/ Reclaim(a)
      PROVE  Moves
  <2>1. /\ Takes(a)
        /\ \/ attempt[a] = "queued" /\ stage \in {"queued", "retry_wait"}
           \/ attempt[a] = "running"
    BY <1>4 DEF Claim, Reclaim, Claimable, Reclaimable
  <2> QED
    BY <2>1 DEF Takes, resultVars, Runs, Moves
<1>5. ASSUME NEW a \in Attempts,
             \/ EventDue(a) \/ Publish(a) \/ ClaimNothing(a) \/ LeaseExpires(a) \/ Replay(a)
             \/ DeliveryLost(a)
      PROVE  Moves
  BY <1>5 DEF EventDue, Publish, ClaimNothing, LeaseExpires, Replay, DeliveryLost, jobVars,
              attemptVars, resultVars, Moves, rows
<1>6. ASSUME NEW h \in handlers, Complete(h)
      PROVE  Moves
  <2>1. h.attempt \in Attempts
    BY DEF TypeOK, Handlers
  <2> QED
    BY <1>6, <2>1 DEF Complete, OwnsLease, Persists, Succeeds, Moves
<1>7. ASSUME NEW h \in handlers,
             WorkFails(h) \/ Heartbeat(h) \/ HandlerCrashes(h) \/ DeliveryStalls(h)
      PROVE  Moves
  BY <1>7 DEF WorkFails, Heartbeat, HandlerCrashes, DeliveryStalls, jobVars, attemptVars,
              resultVars, Moves, rows
<1>8. ASSUME NEW h \in handlers, Fail(h)
      PROVE  Moves
  <2>1. h.attempt \in Attempts
    BY DEF TypeOK, Handlers
  <2>2. FailAttempt(h.attempt, OwnsLease(h.attempt, h.token), h.phase = "retryable", "failed")
    BY <1>8 DEF Fail
  <2>3. OwnsLease(h.attempt, h.token) => attempt[h.attempt] = "running"
    BY DEF OwnsLease
  <2> QED
    BY <2>1, <2>2, <2>3, FailAttemptMoves
<1>9. ASSUME NEW e \in closing, TimeOut(e)
      PROVE  Moves
  <2>1. e[1] \in Attempts
    BY DEF TypeOK
  <2>2. FailAttempt(e[1], OwnsLease(e[1], e[2]), TRUE, "timed_out")
    BY <1>9 DEF TimeOut
  <2>3. OwnsLease(e[1], e[2]) => attempt[e[1]] = "running"
    BY DEF OwnsLease
  <2> QED
    BY <2>1, <2>2, <2>3, FailAttemptMoves
<1> QED
  BY <1>1, <1>2, <1>3, <1>4, <1>5, <1>6, <1>7, <1>8, <1>9 DEF Next, Proceed

-----------------------------------------------------------------------------
(* The rows agree after every step                                         *)

(* A running attempt is the live one and the last, and there is no verdict.*)
LEMMA RunningAttempt ==
    ASSUME TypeOK, RowsInv, NEW a \in Attempts, attempt[a] = "running"
    PROVE  /\ stage = "running" /\ Live = {a} /\ job \notin Terminal /\ job # "absent"
           /\ project # "failed"
           /\ \A b \in Attempts : b > a => attempt[b] = "absent"
           /\ \A b \in Attempts : b < a => attempt[b] \in {"failed", "timed_out"}
           /\ artifacts = {}
<1>1. a \in Live
  BY DEF Live
<1>2. stage = "running" /\ Live = {a}
  <2>1. stage \in {"running", "queued", "retry_wait"}
    BY <1>1 DEF RowsInv, StageInFlight
  <2>2. stage \notin {"queued", "retry_wait"}
    BY <1>1 DEF RowsInv, StageInFlight, Live
  <2> QED
    BY <1>1, <2>1, <2>2 DEF RowsInv, StageInFlight
<1>3. job \notin Terminal /\ job # "absent" /\ project # "failed"
  BY <1>2 DEF RowsInv, VerdictsAgree, NothingYet, Terminal
<1>4. ASSUME NEW b \in Attempts, b > a PROVE attempt[b] = "absent"
  <2>1. a \in 1 .. (b - 1)
    BY <1>4 DEF Attempts
  <2> QED
    BY <2>1 DEF RowsInv, Ordered
<1>5. ASSUME NEW b \in Attempts, b < a PROVE attempt[b] \in {"failed", "timed_out"}
  <2>1. b \in 1 .. (a - 1)
    BY <1>5 DEF Attempts
  <2> QED
    BY <2>1 DEF RowsInv, Ordered
<1>6. artifacts = {}
  <2>1. \A b \in Attempts : attempt[b] # "succeeded"
    <3>1. \A b \in Attempts : b < a \/ b = a \/ b > a
      BY DEF Attempts
    <3> QED
      BY <1>4, <1>5, <3>1
  <2> QED
    BY <2>1 DEF RowsInv, OutputOfSuccess
<1> QED
  BY <1>2, <1>3, <1>4, <1>5, <1>6

(* Equal rows give equal conjuncts.                                        *)
LEMMA SameRows == RowsInv /\ UNCHANGED rows => RowsInv'
BY DEF RowsInv, rows, StageInFlight, Live, Ordered, VerdictsAgree, NothingYet,
       OutputOfSuccess

LEMMA StartsKeepsRows ==
    ASSUME TypeOK, RowsInv, Starts
    PROVE  RowsInv'
<1>1. 1 \in Attempts /\ \A a \in Attempts : attempt[a] = "absent"
  BY PreparationAssumption DEF Starts, RowsInv, NothingYet, Attempts
<1>2. \A a \in Attempts : attempt'[a] = IF a = 1 THEN "queued" ELSE "absent"
  BY <1>1 DEF Starts, TypeOK
<1>3. Live' = {1}
  BY <1>1, <1>2 DEF Live
<1>4. StageInFlight'
  BY <1>1, <1>2, <1>3 DEF StageInFlight, Starts
<1>5. Ordered'
  <2>1. \A a \in Attempts : attempt'[a] # "absent" => a = 1
    BY <1>2
  <2>2. 1 .. (1 - 1) = {}
    OBVIOUS
  <2> QED
    BY <2>1, <2>2 DEF Ordered
<1>6. VerdictsAgree' /\ NothingYet'
  BY DEF Starts, VerdictsAgree, NothingYet, Terminal
<1>7. OutputOfSuccess'
  BY <1>1, <1>2 DEF Starts, RowsInv, OutputOfSuccess
<1> QED
  BY <1>4, <1>5, <1>6, <1>7 DEF RowsInv

(* The attempt that is live goes on or ends; the others are as they were.  *)
LEMMA RunsKeepsRows ==
    ASSUME TypeOK, RowsInv, NEW a \in Attempts, Runs(a)
    PROVE  RowsInv'
<1>1. /\ Live = {a} /\ attempt[a] \in {"queued", "running"}
      /\ job \notin Terminal /\ job # "absent" /\ project # "failed"
  <2>1. CASE attempt[a] = "running"
    BY <2>1, RunningAttempt
  <2>2. CASE attempt[a] = "queued" /\ stage \in {"queued", "retry_wait"}
    <3>1. a \in Live
      BY <2>2 DEF Live
    <3>2. Live = {a}
      BY <2>2, <3>1 DEF RowsInv, StageInFlight
    <3>3. job \notin Terminal /\ job # "absent" /\ project # "failed"
      BY <2>2 DEF RowsInv, VerdictsAgree, NothingYet, Terminal
    <3> QED
      BY <2>2, <3>2, <3>3
  <2> QED
    BY <2>1, <2>2 DEF Runs
<1>2. \A b \in Attempts : attempt'[b] = IF b = a THEN "running" ELSE attempt[b]
  BY DEF Runs, TypeOK
<1>3. Live' = Live
  BY <1>1, <1>2 DEF Live
<1>4. StageInFlight'
  BY <1>1, <1>2, <1>3 DEF StageInFlight, Runs
<1>5. Ordered'
  <2> SUFFICES ASSUME NEW b \in Attempts, attempt'[b] # "absent", NEW d \in 1 .. (b - 1)
               PROVE  attempt'[d] \in {"failed", "timed_out"}
    BY DEF Ordered
  <2>1. attempt[b] # "absent"
    BY <1>1, <1>2
  <2>2. attempt[d] \in {"failed", "timed_out"} /\ d \in Attempts
    BY <2>1, PreparationAssumption DEF RowsInv, Ordered, Attempts
  <2> QED
    BY <1>1, <1>2, <2>2
<1>6. VerdictsAgree' /\ NothingYet'
  BY <1>1 DEF Runs, VerdictsAgree, NothingYet, Terminal
<1>7. OutputOfSuccess'
  BY <1>1, <1>2 DEF Runs, RowsInv, OutputOfSuccess
<1> QED
  BY <1>4, <1>5, <1>6, <1>7 DEF RowsInv

LEMMA SucceedsKeepsRows ==
    ASSUME TypeOK, RowsInv, NEW a \in Attempts, Succeeds(a)
    PROVE  RowsInv'
<1>1. attempt[a] = "running"
  BY DEF Succeeds
<1>2. /\ Live = {a} /\ job # "absent" /\ project # "failed"
      /\ \A b \in Attempts : b > a => attempt[b] = "absent"
  BY <1>1, RunningAttempt
<1>3. \A b \in Attempts : attempt'[b] = IF b = a THEN "succeeded" ELSE attempt[b]
  BY DEF Succeeds, TypeOK
<1>4. Live' = {}
  BY <1>2, <1>3 DEF Live
<1>5. StageInFlight' /\ VerdictsAgree' /\ NothingYet'
  BY <1>2, <1>4 DEF Succeeds, StageInFlight, VerdictsAgree, NothingYet, Terminal
<1>6. Ordered'
  <2> SUFFICES ASSUME NEW b \in Attempts, attempt'[b] # "absent", NEW d \in 1 .. (b - 1)
               PROVE  attempt'[d] \in {"failed", "timed_out"}
    BY DEF Ordered
  <2>1. attempt[b] # "absent"
    BY <1>1, <1>3
  <2>2. attempt[d] \in {"failed", "timed_out"} /\ d \in Attempts
    BY <2>1, PreparationAssumption DEF RowsInv, Ordered, Attempts
  <2> QED
    BY <1>1, <1>3, <2>2
<1>7. OutputOfSuccess'
  BY <1>3 DEF Succeeds, RowsInv, OutputOfSuccess
<1> QED
  BY <1>5, <1>6, <1>7 DEF RowsInv

LEMMA EndsKeepsRows ==
    ASSUME TypeOK, RowsInv, NEW a \in Attempts, NEW status \in {"failed", "timed_out"},
           Ends(a, status)
    PROVE  RowsInv'
<1>1. attempt[a] = "running" /\ UNCHANGED <<artifacts, speech>>
  BY DEF Ends
<1>2. /\ Live = {a} /\ job \notin Terminal /\ job # "absent" /\ project # "failed"
      /\ \A b \in Attempts : b > a => attempt[b] = "absent"
      /\ artifacts = {}
  BY <1>1, RunningAttempt
<1>3. CASE /\ a < MaxAttempts
           /\ attempt' = [attempt EXCEPT ![a] = status, ![a + 1] = "queued"]
           /\ stage' = "retry_wait"
           /\ UNCHANGED <<job, project, artifacts, speech>>
  <2>1. a + 1 \in Attempts /\ a + 1 # a /\ a \in Nat
    BY <1>3, PreparationAssumption DEF Attempts
  <2>2. \A b \in Attempts : attempt'[b] = IF b = a THEN status
                                          ELSE IF b = a + 1 THEN "queued" ELSE attempt[b]
    BY <1>3, <2>1 DEF TypeOK
  <2>3. Live' = {a + 1}
    BY <1>2, <2>1, <2>2 DEF Live
  <2>4. StageInFlight'
    BY <1>3, <2>1, <2>2, <2>3 DEF StageInFlight
  <2>5. VerdictsAgree' /\ NothingYet'
    BY <1>2, <1>3 DEF VerdictsAgree, NothingYet, Terminal
  <2>6. Ordered'
    <3> SUFFICES ASSUME NEW b \in Attempts, attempt'[b] # "absent", NEW d \in 1 .. (b - 1)
                 PROVE  attempt'[d] \in {"failed", "timed_out"}
      BY DEF Ordered
    <3>1. d \in Attempts /\ d < b
      BY PreparationAssumption DEF Attempts
    <3>2. CASE b = a + 1
      <4>1. d = a \/ d \in 1 .. (a - 1)
        BY <2>1, <3>2
      <4>2. d \in 1 .. (a - 1) => attempt[d] \in {"failed", "timed_out"}
        BY <1>1 DEF RowsInv, Ordered
      <4> QED
        BY <2>1, <2>2, <3>1, <3>2, <4>1, <4>2
    <3>3. CASE b # a + 1
      <4>1. attempt[b] # "absent"
        BY <1>1, <2>2, <3>3
      <4>2. attempt[d] \in {"failed", "timed_out"}
        BY <4>1 DEF RowsInv, Ordered
      <4>3. d # a + 1
        BY <1>2, <2>1, <4>2
      <4> QED
        BY <1>1, <2>2, <3>1, <4>2, <4>3
    <3> QED
      BY <3>2, <3>3
  <2>7. OutputOfSuccess'
    BY <1>1, <1>2, <2>2 DEF RowsInv, OutputOfSuccess
  <2> QED
    BY <2>4, <2>5, <2>6, <2>7 DEF RowsInv
<1>4. CASE /\ attempt' = [attempt EXCEPT ![a] = status]
           /\ stage' = "failed" /\ job' = "failed" /\ project' = "failed"
           /\ UNCHANGED <<artifacts, speech>>
  <2>1. \A b \in Attempts : attempt'[b] = IF b = a THEN status ELSE attempt[b]
    BY <1>4 DEF TypeOK
  <2>2. Live' = {}
    BY <1>2, <2>1 DEF Live
  <2>3. StageInFlight' /\ VerdictsAgree' /\ NothingYet'
    BY <1>2, <1>4, <2>2 DEF StageInFlight, VerdictsAgree, NothingYet, Terminal
  <2>4. Ordered'
    <3> SUFFICES ASSUME NEW b \in Attempts, attempt'[b] # "absent", NEW d \in 1 .. (b - 1)
                 PROVE  attempt'[d] \in {"failed", "timed_out"}
      BY DEF Ordered
    <3>1. attempt[b] # "absent"
      BY <1>1, <2>1
    <3>2. attempt[d] \in {"failed", "timed_out"} /\ d \in Attempts
      BY <3>1, PreparationAssumption DEF RowsInv, Ordered, Attempts
    <3> QED
      BY <2>1, <3>2
  <2>5. OutputOfSuccess'
    BY <1>1, <1>2, <2>1 DEF RowsInv, OutputOfSuccess
  <2> QED
    BY <2>3, <2>4, <2>5 DEF RowsInv
<1> QED
  BY <1>3, <1>4 DEF Ends

LEMMA MovesKeepRows ==
    ASSUME TypeOK, RowsInv, Moves
    PROVE  RowsInv'
<1>1. CASE Speaks
  BY <1>1 DEF Speaks, RowsInv, StageInFlight, Live, Ordered, VerdictsAgree, NothingYet,
              OutputOfSuccess
<1> QED
  BY <1>1, SameRows, StartsKeepsRows, RunsKeepsRows, SucceedsKeepsRows, EndsKeepsRows
     DEF Moves

-----------------------------------------------------------------------------
(* Types and tokens                                                        *)

LEMMA ReplacedKeepsTokens ==
    ASSUME TypeOK, TokensDrawn, NEW h \in handlers, NEW g \in Handlers,
           g.attempt = h.attempt, g.token = h.token,
           handlers' = (handlers \ {h}) \cup {g}, issued' = issued
    PROVE  TokensDrawn' /\ handlers' \in SUBSET Handlers
<1>1. \A f \in handlers' : f = g \/ (f \in handlers /\ f # h)
  OBVIOUS
<1>2. \A f \in handlers' : f.token <= issued'[f.attempt]
  BY <1>1 DEF TokensDrawn
<1>3. ASSUME NEW d \in handlers', NEW f \in handlers', d.attempt = f.attempt,
             d.token = f.token
      PROVE  d = f
  BY <1>1, <1>3 DEF TokensDrawn
<1> QED
  BY <1>2, <1>3 DEF TokensDrawn, TypeOK

LEMMA GoneKeepsTokens ==
    ASSUME TypeOK, TokensDrawn, NEW h, handlers' = handlers \ {h}, issued' = issued
    PROVE  TokensDrawn' /\ handlers' \in SUBSET Handlers
BY DEF TokensDrawn, TypeOK

LEMMA SameHandlers ==
    ASSUME TypeOK, TokensDrawn, handlers' = handlers, issued' = issued
    PROVE  TokensDrawn' /\ handlers' \in SUBSET Handlers
BY DEF TokensDrawn, TypeOK

LEMMA TakesKeepsTypes ==
    ASSUME TypeOK, TokensDrawn, NEW a \in Attempts, Claim(a) \/ Reclaim(a)
    PROVE  TypeOK' /\ TokensDrawn'
<1> DEFINE new == [attempt |-> a, token |-> issued[a] + 1, phase |-> "executing",
                   locked |-> TRUE]
<1>1. Takes(a)
  BY DEF Claim, Reclaim
<1>2. issued[a] \in Nat /\ issued' = [issued EXCEPT ![a] = issued[a] + 1]
  BY <1>1 DEF TypeOK, Takes
<1>3. handlers' = handlers \cup {new} /\ new \in Handlers
  BY <1>1, <1>2 DEF Takes, Handlers
<1>4. /\ new.attempt = a /\ new.token = issued[a] + 1
  OBVIOUS
<1> HIDE DEF new
<1>5. recoveries' \in [Attempts -> 0 .. MaxRecoveries]
  <2>1. CASE Claim(a)
    BY <2>1 DEF Claim, TypeOK
  <2>2. CASE Reclaim(a)
    <3>1. recoveries[a] + 1 \in 0 .. MaxRecoveries
      BY <2>2, PreparationAssumption DEF Reclaim, Reclaimable, TypeOK
    <3> QED
      BY <2>2, <3>1 DEF Reclaim, TypeOK
  <2> QED
    BY <2>1, <2>2
<1>6. issued' \in [Attempts -> Nat] /\ \A b \in Attempts : issued'[b] >= issued[b]
  BY <1>2 DEF TypeOK
<1>7. lease' \in [Attempts -> Nat] /\ expired' \in SUBSET Attempts
      /\ waiting' \in SUBSET Attempts
  BY <1>1, <1>2 DEF Takes, TypeOK
<1>8. attempt' \in [Attempts -> {"absent", "queued", "running", "succeeded", "failed",
                                 "timed_out"}]
  BY <1>1 DEF Takes, TypeOK
<1>9. TypeOK'
  BY <1>1, <1>3, <1>5, <1>6, <1>7, <1>8 DEF Takes, TypeOK, resultVars
<1>10. TokensDrawn'
  <2>1. \A h \in handlers : /\ h.attempt \in Attempts /\ h.token \in Nat
                           /\ h.token <= issued[h.attempt]
    BY DEF TypeOK, Handlers, TokensDrawn
  <2>2. \A h \in handlers' : h = new \/ h \in handlers
    BY <1>3
  <2>3. \A h \in handlers' : h.token <= issued'[h.attempt]
    <3>1. issued'[a] = issued[a] + 1
      BY <1>2 DEF TypeOK
    <3>2. \A h \in handlers : issued[h.attempt] \in Nat /\ issued'[h.attempt] \in Nat
                              /\ issued'[h.attempt] >= issued[h.attempt]
      BY <1>6, <2>1 DEF TypeOK
    <3> QED
      BY <1>2, <1>4, <2>1, <2>2, <3>1, <3>2
  <2>4. \A h \in handlers : ~(h.attempt = new.attempt /\ h.token = new.token)
    BY <1>2, <1>4, <2>1
  <2>5. ASSUME NEW g \in handlers', NEW h \in handlers', g.attempt = h.attempt,
               g.token = h.token
        PROVE  g = h
    BY <2>2, <2>4, <2>5 DEF TokensDrawn
  <2> QED
    BY <2>3, <2>5 DEF TokensDrawn
<1> QED
  BY <1>9, <1>10

LEMMA FailAttemptTyped ==
    ASSUME TypeOK, NEW a \in Attempts, NEW owned, NEW retryable \in BOOLEAN,
           NEW status \in {"failed", "timed_out"}, FailAttempt(a, owned, retryable, status)
    PROVE  /\ job' \in {"absent", "queued", "running"} \cup Terminal
           /\ stage' \in {"absent", "queued", "running", "retry_wait"} \cup Terminal
           /\ ready' \in BOOLEAN
           /\ project' \in {"ingesting", "processing", "failed"}
           /\ attempt' \in [Attempts -> {"absent", "queued", "running", "succeeded",
                                         "failed", "timed_out"}]
           /\ lease' \in [Attempts -> Nat]
           /\ expired' \in SUBSET Attempts
           /\ event' \in [Attempts -> {"absent", "delayed", "pending", "published"}]
           /\ UNCHANGED <<issued, recoveries, artifacts, enabled, speech>>
<1>1. UNCHANGED <<issued, recoveries, artifacts, enabled, speech>>
  BY DEF FailAttempt, resultVars
<1>2. CASE /\ owned
           /\ IF MayRetry(a, retryable) THEN ScheduleRetry(a, status) ELSE FailJob(a, status)
           /\ lease' = [lease EXCEPT ![a] = 0]
           /\ expired' = expired \ {a}
  <2>1. ScheduleRetry(a, status) \/ FailJob(a, status)
    BY <1>2
  <2>2. lease' \in [Attempts -> Nat] /\ expired' \in SUBSET Attempts
    BY <1>2 DEF TypeOK
  <2> QED
    BY <1>1, <2>1, <2>2 DEF ScheduleRetry, FailJob, TypeOK, Terminal
<1>3. CASE ~owned /\ UNCHANGED <<jobVars, attempt, lease, expired, event>>
  BY <1>1, <1>3 DEF jobVars, TypeOK
<1> QED
  BY <1>2, <1>3 DEF FailAttempt

LEMMA SettlesKeepsTypes ==
    ASSUME TypeOK, TokensDrawn,
           (\E h \in handlers : Complete(h) \/ Fail(h)) \/ (\E e \in closing : TimeOut(e))
    PROVE  TypeOK' /\ TokensDrawn'
<1>1. ASSUME NEW h \in handlers, Complete(h) PROVE TypeOK' /\ TokensDrawn'
  <2>1. h.attempt \in Attempts
    BY DEF TypeOK, Handlers
  <2>2. /\ attempt' \in [Attempts -> {"absent", "queued", "running", "succeeded", "failed",
                                      "timed_out"}]
        /\ lease' \in [Attempts -> Nat]
    BY <1>1 DEF Complete, TypeOK
  <2>3. speech' \in BOOLEAN /\ expired' \in SUBSET Attempts /\ artifacts' \in SUBSET Attempts
    BY <1>1, <2>1 DEF Complete, Persists, TypeOK
  <2>4. TokensDrawn' /\ handlers' \in SUBSET Handlers
    BY <1>1, GoneKeepsTokens DEF Complete
  <2>5. stage' = "succeeded" /\ job' = "succeeded"
        /\ UNCHANGED <<ready, project, issued, recoveries, enabled, event, waiting, closing,
                       faults>>
    BY <1>1 DEF Complete
  <2> QED
    BY <2>2, <2>3, <2>4, <2>5 DEF TypeOK, Terminal
<1>2. ASSUME NEW h \in handlers, Fail(h) PROVE TypeOK' /\ TokensDrawn'
  <2>1. h.attempt \in Attempts
    BY DEF TypeOK, Handlers
  <2>2. FailAttempt(h.attempt, OwnsLease(h.attempt, h.token), h.phase = "retryable", "failed")
    BY <1>2 DEF Fail
  <2>3. handlers' = handlers \ {h} /\ UNCHANGED <<waiting, closing, faults>>
    BY <1>2 DEF Fail
  <2>4. UNCHANGED issued
    BY <2>1, <2>2, FailAttemptTyped
  <2>5. TokensDrawn' /\ handlers' \in SUBSET Handlers
    BY <2>3, <2>4, GoneKeepsTokens
  <2> QED
    BY <2>1, <2>2, <2>3, <2>5, FailAttemptTyped DEF TypeOK
<1>3. ASSUME NEW e \in closing, TimeOut(e) PROVE TypeOK' /\ TokensDrawn'
  <2>1. e[1] \in Attempts
    BY DEF TypeOK
  <2>2. FailAttempt(e[1], OwnsLease(e[1], e[2]), TRUE, "timed_out")
    BY <1>3 DEF TimeOut
  <2>3. closing' = closing \ {e} /\ UNCHANGED <<waiting, handlers, faults>>
    BY <1>3 DEF TimeOut, deliveryVars
  <2>4. UNCHANGED issued
    BY <2>1, <2>2, FailAttemptTyped
  <2>5. TokensDrawn' /\ handlers' \in SUBSET Handlers
    BY <2>3, <2>4, SameHandlers
  <2> QED
    BY <2>1, <2>2, <2>3, <2>5, FailAttemptTyped DEF TypeOK
<1> QED
  BY <1>1, <1>2, <1>3

LEMMA HandlerStepKeepsTypes ==
    ASSUME TypeOK, TokensDrawn, NEW h \in handlers,
           WorkFails(h) \/ Heartbeat(h) \/ HandlerCrashes(h) \/ DeliveryStalls(h)
    PROVE  TypeOK' /\ TokensDrawn'
<1>1. h \in Handlers /\ h.attempt \in Attempts
  BY DEF TypeOK, Handlers
<1>2. CASE WorkFails(h)
  <2>1. PICK phase \in {"retryable", "fatal"} :
          handlers' = (handlers \ {h}) \cup {[h EXCEPT !.phase = phase]}
    BY <1>2 DEF WorkFails
  <2> DEFINE new == [h EXCEPT !.phase = phase]
  <2>2. new \in Handlers /\ new.attempt = h.attempt /\ new.token = h.token
    BY <1>1, <2>1 DEF Handlers
  <2>3. UNCHANGED issued
    BY <1>2 DEF WorkFails, attemptVars
  <2> HIDE DEF new
  <2>4. TokensDrawn' /\ handlers' \in SUBSET Handlers
    BY <2>1, <2>2, <2>3, ReplacedKeepsTokens DEF new
  <2> QED
    BY <1>2, <2>4 DEF WorkFails, TypeOK, jobVars, attemptVars, resultVars
<1>3. CASE Heartbeat(h)
  <2>1. TokensDrawn' /\ handlers' \in SUBSET Handlers
    BY <1>3, SameHandlers DEF Heartbeat, deliveryVars
  <2>2. closing' \in SUBSET (Attempts \X Nat) /\ expired' \in SUBSET Attempts
    BY <1>3 DEF Heartbeat, TypeOK
  <2> QED
    BY <1>3, <2>1, <2>2 DEF Heartbeat, TypeOK, jobVars, resultVars, deliveryVars
<1>4. CASE HandlerCrashes(h) \/ DeliveryStalls(h)
  <2>1. faults' \in 0 .. MaxFaults
    BY <1>4, PreparationAssumption DEF HandlerCrashes, DeliveryStalls, Fault, TypeOK
  <2>2. waiting' \in SUBSET Attempts
    BY <1>1, <1>4 DEF HandlerCrashes, DeliveryStalls, TypeOK
  <2>3. UNCHANGED issued
    BY <1>4 DEF HandlerCrashes, DeliveryStalls, attemptVars
  <2>4. TokensDrawn' /\ handlers' \in SUBSET Handlers
    <3>1. CASE HandlerCrashes(h)
      BY <2>3, <3>1, GoneKeepsTokens DEF HandlerCrashes
    <3>2. CASE DeliveryStalls(h)
      <4> DEFINE new == [h EXCEPT !.locked = FALSE]
      <4>1. new \in Handlers /\ new.attempt = h.attempt /\ new.token = h.token
        BY <1>1 DEF Handlers
      <4>2. handlers' = (handlers \ {h}) \cup {new}
        BY <3>2 DEF DeliveryStalls
      <4> HIDE DEF new
      <4> QED
        BY <2>3, <4>1, <4>2, ReplacedKeepsTokens
    <3> QED
      BY <1>4, <3>1, <3>2
  <2>5. UNCHANGED <<jobVars, attemptVars, resultVars, event, closing>>
    BY <1>4 DEF HandlerCrashes, DeliveryStalls
  <2> QED
    BY <2>1, <2>2, <2>4, <2>5 DEF TypeOK, jobVars, attemptVars, resultVars
<1> QED
  BY <1>2, <1>3, <1>4

LEMMA OtherStepKeepsTypes ==
    ASSUME TypeOK, TokensDrawn,
           \/ Initialize \/ Enable \/ ReconcileSpeech \/ BackoffEnds \/ ReadExhausted
           \/ \E a \in Attempts :
                \/ EventDue(a) \/ Publish(a) \/ ClaimNothing(a) \/ LeaseExpires(a)
                \/ Replay(a) \/ DeliveryLost(a)
           \/ UNCHANGED vars
    PROVE  TypeOK' /\ TokensDrawn'
<1>1. handlers' = handlers /\ issued' = issued
  BY DEF Initialize, Enable, ReconcileSpeech, BackoffEnds, ReadExhausted, EventDue, Publish,
         ClaimNothing, LeaseExpires, Replay, DeliveryLost, vars, attemptVars, deliveryVars
<1>2. TokensDrawn' /\ handlers' \in SUBSET Handlers
  BY <1>1, SameHandlers
<1>3. CASE Initialize
  BY <1>1, <1>2, <1>3 DEF Initialize, TypeOK, resultVars, deliveryVars
<1>4. CASE Enable \/ ReconcileSpeech \/ BackoffEnds
  BY <1>1, <1>2, <1>4 DEF Enable, ReconcileSpeech, BackoffEnds, TypeOK, jobVars, attemptVars,
                          resultVars, deliveryVars
<1>5. CASE ReadExhausted
  <2>1. ExhaustedRows \subseteq Attempts \X Nat
    BY DEF ExhaustedRows, TypeOK
  <2>2. closing' \in SUBSET (Attempts \X Nat)
    BY <1>5, <2>1 DEF ReadExhausted, TypeOK
  <2> QED
    BY <1>2, <1>5, <2>2 DEF ReadExhausted, TypeOK, jobVars, attemptVars, resultVars,
                            deliveryVars
<1>6. ASSUME NEW a \in Attempts, EventDue(a) \/ Replay(a) PROVE TypeOK'
  <2>1. event' \in [Attempts -> {"absent", "delayed", "pending", "published"}]
    BY <1>6 DEF EventDue, Replay, TypeOK
  <2> QED
    BY <1>2, <1>6, <2>1 DEF EventDue, Replay, TypeOK, jobVars, attemptVars, resultVars,
                            deliveryVars
<1>7. ASSUME NEW a \in Attempts, Publish(a) PROVE TypeOK'
  <2>1. /\ event' \in [Attempts -> {"absent", "delayed", "pending", "published"}]
        /\ faults' \in 0 .. MaxFaults
    BY <1>7, PreparationAssumption DEF Publish, Fault, TypeOK
  <2>2. waiting' \in SUBSET Attempts
    BY <1>7 DEF Publish, TypeOK
  <2> QED
    BY <1>2, <1>7, <2>1, <2>2 DEF Publish, TypeOK, jobVars, attemptVars, resultVars
<1>8. ASSUME NEW a \in Attempts, ClaimNothing(a) \/ LeaseExpires(a) PROVE TypeOK'
  <2>1. waiting' \in SUBSET Attempts /\ expired' \in SUBSET Attempts
    BY <1>8 DEF ClaimNothing, LeaseExpires, TypeOK, attemptVars, deliveryVars
  <2> QED
    BY <1>2, <1>8, <2>1 DEF ClaimNothing, LeaseExpires, TypeOK, jobVars, attemptVars,
                            resultVars, deliveryVars
<1>9. ASSUME NEW a \in Attempts, DeliveryLost(a) PROVE TypeOK'
  <2>1. waiting' \in SUBSET Attempts /\ faults' \in 0 .. MaxFaults
    BY <1>9, PreparationAssumption DEF DeliveryLost, Fault, TypeOK
  <2> QED
    BY <1>2, <1>9, <2>1 DEF DeliveryLost, TypeOK, jobVars, attemptVars, resultVars
<1>10. CASE UNCHANGED vars
  BY <1>2, <1>10 DEF vars, TypeOK, jobVars, attemptVars, resultVars, deliveryVars
<1> QED
  BY <1>2, <1>3, <1>4, <1>5, <1>6, <1>7, <1>8, <1>9, <1>10

LEMMA NextKeepsTypes ==
    ASSUME TypeOK, TokensDrawn, [Next]_vars
    PROVE  TypeOK' /\ TokensDrawn'
BY TakesKeepsTypes, SettlesKeepsTypes, HandlerStepKeepsTypes, OtherStepKeepsTypes
   DEF Next, Proceed

-----------------------------------------------------------------------------
LEMMA InitInv == Init => PreparationInv
<1> SUFFICES ASSUME Init PROVE PreparationInv
  OBVIOUS
<1>1. TypeOK
  <2>1. recoveries \in [Attempts -> 0 .. MaxRecoveries] /\ faults \in 0 .. MaxFaults
    BY PreparationAssumption DEF Init
  <2> QED
    BY <2>1 DEF Init, TypeOK
<1>2. TokensDrawn
  BY DEF Init, TokensDrawn
<1>3. \A a \in Attempts : attempt[a] = "absent"
  BY DEF Init
<1>4. Live = {}
  BY <1>3 DEF Live
<1>5. StageInFlight /\ Ordered /\ OutputOfSuccess
  BY <1>3, <1>4 DEF Init, StageInFlight, Ordered, OutputOfSuccess
<1>6. VerdictsAgree /\ NothingYet
  BY <1>3 DEF Init, VerdictsAgree, NothingYet, Terminal
<1> QED
  BY <1>1, <1>2, <1>5, <1>6 DEF PreparationInv, RowsInv

LEMMA NextInv == PreparationInv /\ [Next]_vars => PreparationInv'
<1> SUFFICES ASSUME PreparationInv, [Next]_vars PROVE PreparationInv'
  OBVIOUS
<1>1. TypeOK' /\ TokensDrawn'
  BY NextKeepsTypes DEF PreparationInv
<1>2. RowsInv'
  BY StepMoves, MovesKeepRows DEF PreparationInv
<1> QED
  BY <1>1, <1>2 DEF PreparationInv

-----------------------------------------------------------------------------
(* The inductive invariant holds in every state.                           *)
THEOREM Invariance == Spec => []PreparationInv
  BY InitInv, NextInv, PTL DEF Spec

(* Job, stage, project and attempts agree in every state, for any number   *)
(* of attempts, though no transaction locks the job.                       *)
THEOREM StageFollowsAttemptsHolds == Spec => []StageFollowsAttempts
<1>1. PreparationInv => StageFollowsAttempts
  <2> SUFFICES ASSUME PreparationInv PROVE StageFollowsAttempts
    OBVIOUS
  <2>1. TypeOK /\ Ordered /\ VerdictsAgree /\ StageInFlight
    BY DEF PreparationInv, RowsInv
  <2>2. (CASE stage = "running" -> \E a \in Attempts : Live = {a} /\ attempt[a] = "running"
           [] stage \in {"queued", "retry_wait"} ->
                \E a \in Attempts : Live = {a} /\ attempt[a] = "queued"
           [] OTHER -> Live = {})
    BY <2>1 DEF StageInFlight
  <2> QED
    BY <2>1, <2>2 DEF StageFollowsAttempts, Ordered, VerdictsAgree
<1> QED
  BY <1>1, Invariance, PTL

(* An attempt is settled once, by the one handler whose token its row has, *)
(* and what it produced is all there is.                                   *)
THEOREM OneResultHolds == Spec => []OneResult
<1>1. PreparationInv => OneResult
  <2> SUFFICES ASSUME PreparationInv PROVE OneResult
    OBVIOUS
  <2>1. TypeOK /\ TokensDrawn /\ RowsInv
    BY DEF PreparationInv
  <2>2. ASSUME NEW g \in handlers, NEW h \in handlers,
               OwnsLease(g.attempt, g.token), OwnsLease(h.attempt, h.token)
        PROVE  g = h
    <3>1. g.attempt \in Attempts /\ h.attempt \in Attempts
      BY <2>1 DEF TypeOK, Handlers
    <3>2. Live = {g.attempt} /\ Live = {h.attempt}
      BY <2>1, <2>2, <3>1, RunningAttempt DEF OwnsLease
    <3>3. g.attempt = h.attempt
      BY <3>2
    <3> QED
      BY <2>1, <2>2, <3>3 DEF OwnsLease, TokensDrawn
  <2>3. Cardinality(artifacts) <= 1
    <3>1. \A a, b \in artifacts : a = b
      <4> SUFFICES ASSUME NEW a \in artifacts, NEW b \in artifacts, a # b PROVE FALSE
        OBVIOUS
      <4>1. /\ a \in Attempts /\ attempt[a] = "succeeded"
            /\ b \in Attempts /\ attempt[b] = "succeeded"
        BY <2>1 DEF RowsInv, OutputOfSuccess
      <4>2. a \in 1 .. (b - 1) \/ b \in 1 .. (a - 1)
        BY <4>1, PreparationAssumption DEF Attempts
      <4> QED
        BY <2>1, <4>1, <4>2 DEF RowsInv, Ordered
    <3>2. CASE artifacts = {}
      BY <3>2, FS_EmptySet
    <3>3. CASE artifacts # {}
      <4>1. PICK a \in artifacts : artifacts = {a}
        BY <3>1, <3>3
      <4> QED
        BY <4>1, FS_Singleton
    <3> QED
      BY <3>2, <3>3
  <2> QED
    BY <2>1, <2>2, <2>3 DEF OneResult, RowsInv, OutputOfSuccess
<1> QED
  BY <1>1, Invariance, PTL

(* A lease that recovery times out fails the job with the last attempt     *)
(* only.                                                                   *)
THEOREM BudgetIsUsedHolds == Spec => BudgetIsUsed
<1>1. ASSUME PreparationInv, Next, NEW a \in Attempts, attempt[a] = "running",
             attempt'[a] = "timed_out", job' = "failed"
      PROVE  a = MaxAttempts
  <2>1. /\ TypeOK /\ RowsInv /\ Moves
        /\ Live = {a} /\ job \notin Terminal
    BY <1>1, StepMoves, RunningAttempt DEF PreparationInv
  <2>2. PICK b \in Attempts, status \in {"failed", "timed_out"} : Ends(b, status)
    BY <1>1, <2>1 DEF Moves, rows, Starts, Runs, Succeeds, Speaks, Terminal
  <2>3. b = a
    BY <2>1, <2>2 DEF Ends, Live
  <2> QED
    BY <1>1, <2>1, <2>2, <2>3 DEF Ends, TypeOK, Terminal
<1>2. PreparationInv /\ [Next]_vars =>
        [\A a \in Attempts :
           attempt[a] = "running" /\ attempt'[a] = "timed_out" /\ job' = "failed"
             => a = MaxAttempts]_vars
  BY <1>1
<1> QED
  BY <1>2, Invariance, PTL DEF Spec, BudgetIsUsed

-----------------------------------------------------------------------------
(* The refinement                                                          *)

LEMMA InitRefines == Init => Pipeline!Init
BY DEF Init, Pipeline!Init, Terminal

(* The success of an attempt is the commit of the only stage, the failure  *)
(* of the last one gives up, and nothing else shows.                       *)
LEMMA NextRefines ==
    ASSUME PreparationInv, [Next]_vars
    PROVE  [Pipeline!Next]_(Pipeline!vars)
<1> USE DEF Terminal, Pipeline!vars
<1>1. TypeOK /\ RowsInv /\ Moves
  BY StepMoves DEF PreparationInv
<1>2. ASSUME NEW a \in Attempts, Succeeds(a)
      PROVE  Pipeline!Commit("source_media_preparation")
  <2>1. stage = "running" /\ job \notin Terminal
    BY <1>1, <1>2, RunningAttempt DEF Succeeds
  <2> QED
    BY <1>2, <2>1 DEF Succeeds, Pipeline!Commit
<1>3. ASSUME NEW a \in Attempts, NEW status \in {"failed", "timed_out"}, Ends(a, status)
      PROVE  [Pipeline!Next]_(Pipeline!vars)
  <2>1. stage = "running" /\ job \notin Terminal
    BY <1>1, <1>3, RunningAttempt DEF Ends
  <2>2. CASE stage' = "retry_wait" /\ UNCHANGED job
    BY <2>1, <2>2
  <2>3. CASE stage' = "failed" /\ job' = "failed"
    BY <2>1, <2>3 DEF Pipeline!Next, Pipeline!GiveUp
  <2> QED
    BY <1>3, <2>2, <2>3 DEF Ends
<1>4. ASSUME NEW a \in Attempts, Runs(a)
      PROVE  UNCHANGED (Pipeline!vars)
  <2>1. stage # "succeeded" /\ job \notin Terminal
    <3>1. CASE attempt[a] = "running"
      BY <1>1, <3>1, RunningAttempt
    <3>2. CASE stage \in {"queued", "retry_wait"}
      BY <1>1, <3>2 DEF RowsInv, VerdictsAgree
    <3> QED
      BY <1>4, <3>1, <3>2 DEF Runs
  <2> QED
    BY <1>4, <2>1 DEF Runs
<1>5. CASE UNCHANGED rows \/ Starts \/ Speaks
  <2>1. CASE Starts
    BY <1>1, <2>1 DEF Starts, RowsInv, NothingYet
  <2>2. CASE UNCHANGED <<job, stage>>
    BY <2>2
  <2> QED
    BY <1>5, <2>1, <2>2 DEF rows, Speaks
<1> QED
  BY <1>1, <1>2, <1>3, <1>4, <1>5 DEF Moves, Pipeline!Next

(* Preparation is a pipeline of one stage: one output, one final verdict.  *)
THEOREM PipelineHolds == Spec => ImplementsPipeline
<1>1. PreparationInv /\ [Next]_vars => [Pipeline!Next]_(Pipeline!vars)
  BY NextRefines
<1> QED
  BY <1>1, InitRefines, Invariance, PTL DEF Spec, ImplementsPipeline, Pipeline!Spec

=============================================================================
