--------------------------- MODULE MediaScanProofs ---------------------------
(***************************************************************************)
(* Proofs about MediaScan, for any budgets of tries and recoveries, any    *)
(* number of deliveries at once and any bound on faults.                   *)
(***************************************************************************)
EXTENDS MediaScan, TLAPS

Scanning(h) == h.phase = "scanning"

(* A token is drawn once and given to one handler.                         *)
TokensDrawn ==
    /\ \A h \in handlers : Scanning(h) => h.token <= issued
    /\ \A g, h \in handlers :
         Scanning(g) /\ Scanning(h) /\ g.token = h.token => g = h

(* What the handlers and recovery keep true of rows that others write too. *)
ScanSafe == TypeOK /\ TokensDrawn

ScanInv == ScanSafe /\ scan # "absent" /\ VideoFollowsScan

-----------------------------------------------------------------------------
(* A handler that goes leaves the other tokens as they are.                *)
LEMMA GoneKeepsTokens ==
    ASSUME TokensDrawn, NEW h, handlers' = handlers \ {h}, issued' = issued
    PROVE  TokensDrawn'
BY DEF TokensDrawn, Scanning

LEMMA ReturnTyped ==
    ASSUME TypeOK, NEW h \in handlers, Return(h)
    PROVE  /\ handlers' \in SUBSET Handlers
           /\ handlers' = handlers \ {h}
           /\ job' \in {"none", "waiting", "active", "delayed"}
           /\ tries' \in 0 .. (MaxTries - 1)
BY DEF TypeOK, Return

LEMMA ThrowTyped ==
    ASSUME TypeOK, NEW h \in handlers, Throw(h)
    PROVE  /\ handlers' \in SUBSET Handlers
           /\ handlers' = handlers \ {h}
           /\ job' \in {"none", "waiting", "active", "delayed"}
           /\ tries' \in 0 .. (MaxTries - 1)
<1>1. h.made \in 0 .. MaxTries
  BY DEF TypeOK, Handlers
<1> QED
  BY <1>1, ScanAssumption DEF TypeOK, Throw

LEMMA TakeKeepsSafe ==
    ASSUME ScanSafe, Take
    PROVE  ScanSafe'
<1> DEFINE new == [phase |-> "read", reclaim |-> scan = "running", token |-> lease,
                   made |-> tries, locked |-> TRUE]
<1>1. new \in Handlers /\ ~Scanning(new)
  BY ScanAssumption DEF ScanSafe, TypeOK, Handlers, Scanning
<1>2. handlers' = handlers \cup {new}
  BY DEF Take
<1>3. TypeOK'
  BY <1>1, <1>2 DEF ScanSafe, TypeOK, Take, scanVars, videoVars
<1>4. TokensDrawn'
  <2>1. issued' = issued
    BY DEF Take, scanVars
  <2>2. \A h \in handlers' : Scanning(h) => h \in handlers
    BY <1>1, <1>2
  <2> QED
    BY <2>1, <2>2 DEF ScanSafe, TokensDrawn
<1> QED
  BY <1>3, <1>4 DEF ScanSafe

LEMMA ClaimKeepsSafe ==
    ASSUME ScanSafe, NEW h \in handlers, Claim(h)
    PROVE  ScanSafe'
<1> DEFINE new == [h EXCEPT !.phase = "scanning", !.token = issued + 1]
<1>1. h \in Handlers /\ issued \in Nat
  BY DEF ScanSafe, TypeOK
<1>2. new \in Handlers /\ new.token = issued + 1
  <2>1. issued + 1 \in Nat
    BY <1>1
  <2> QED
    BY <1>1, <2>1 DEF Handlers
<1>3. handlers' = (handlers \ {h}) \cup {new} /\ issued' = issued + 1
  BY DEF Claim
<1> HIDE DEF new
<1>4. recoveries' \in 0 .. MaxRecoveries
  <2>1. recoveries \in 0 .. MaxRecoveries
    BY DEF ScanSafe, TypeOK
  <2>2. recoveries' = recoveries \/ (recoveries' = recoveries + 1 /\ recoveries < MaxRecoveries)
    BY DEF Claim, Claims, Reclaimable
  <2> QED
    BY <2>1, <2>2, ScanAssumption
<1>5. TypeOK'
  <2>1. handlers' \in SUBSET Handlers
    BY <1>2, <1>3 DEF ScanSafe, TypeOK
  <2>2. scan' \in ScanStatuses /\ security' \in SecurityStatuses /\ expired' \in BOOLEAN
    BY DEF Claim, ScanStatuses, SecurityStatuses
  <2>3. lease' \in Nat /\ issued' \in Nat
    BY <1>1 DEF Claim
  <2>4. UNCHANGED <<prepared, event, job, tries, closing, faults>>
    BY DEF Claim, queueVars
  <2> QED
    BY <1>4, <2>1, <2>2, <2>3, <2>4 DEF ScanSafe, TypeOK
<1>6. TokensDrawn'
  <2>1. \A g \in handlers : Scanning(g) => g.token \in Nat /\ g.token <= issued
    BY DEF ScanSafe, TypeOK, Handlers, TokensDrawn
  <2>2. \A g \in handlers' : g = new \/ g \in handlers
    BY <1>3
  <2>3. \A g \in handlers' : Scanning(g) => g.token <= issued'
    BY <1>1, <1>2, <1>3, <2>1, <2>2
  <2>4. \A g \in handlers : Scanning(g) => g.token # new.token
    BY <1>1, <1>2, <2>1
  <2>5. ASSUME NEW f \in handlers', NEW g \in handlers', Scanning(f), Scanning(g),
               f.token = g.token
        PROVE  f = g
    BY <2>2, <2>4, <2>5 DEF ScanSafe, TokensDrawn
  <2> QED
    BY <2>3, <2>5 DEF TokensDrawn
<1> QED
  BY <1>5, <1>6 DEF ScanSafe

LEMMA SettleTyped ==
    ASSUME TypeOK, NEW status \in ScanStatuses, NEW video \in SecurityStatuses,
           Settle(status, video)
    PROVE  /\ scan' \in ScanStatuses /\ security' \in SecurityStatuses
           /\ lease' \in Nat /\ issued' = issued /\ expired' \in BOOLEAN
           /\ recoveries' = recoveries
BY DEF TypeOK, Settle

(* Steps that end a handler, with or without settling the scan.            *)
LEMMA EndKeepsSafe ==
    ASSUME ScanSafe, NEW h \in handlers,
           ClaimLost(h) \/ LeaseLost(h) \/ ScanFails(h)
             \/ (\E verdict \in Verdicts : Verdict(h, verdict))
    PROVE  ScanSafe'
<1>1. TypeOK
  BY DEF ScanSafe
<1>2. Return(h) \/ Throw(h)
  BY DEF ClaimLost, LeaseLost, ScanFails, Verdict
<1>3. /\ handlers' \in SUBSET Handlers
      /\ handlers' = handlers \ {h}
      /\ job' \in {"none", "waiting", "active", "delayed"}
      /\ tries' \in 0 .. (MaxTries - 1)
  BY <1>1, <1>2, ReturnTyped, ThrowTyped
<1>4. /\ scan' \in ScanStatuses /\ security' \in SecurityStatuses
      /\ lease' \in Nat /\ issued' = issued /\ expired' \in BOOLEAN
      /\ recoveries' = recoveries
  <2>1. CASE ClaimLost(h) \/ LeaseLost(h)
    BY <1>1, <2>1 DEF ClaimLost, LeaseLost, TypeOK, scanVars, videoVars
  <2>2. CASE ScanFails(h)
    <3>1. Settle("error", "error") \/ Settle("queued", "pending")
      BY <2>2 DEF ScanFails
    <3> QED
      BY <1>1, <3>1, SettleTyped DEF ScanStatuses, SecurityStatuses
  <2>3. ASSUME NEW verdict \in Verdicts, Verdict(h, verdict)
        PROVE  /\ scan' \in ScanStatuses /\ security' \in SecurityStatuses
               /\ lease' \in Nat /\ issued' = issued /\ expired' \in BOOLEAN
               /\ recoveries' = recoveries
    <3>1. Settle(verdict, verdict)
      BY <2>3 DEF Verdict
    <3> QED
      BY <1>1, <3>1, SettleTyped DEF ScanStatuses, SecurityStatuses
  <2> QED
    BY <2>1, <2>2, <2>3
<1>5. /\ prepared' \in BOOLEAN /\ event' = event /\ closing' = closing /\ faults' = faults
  BY <1>1 DEF ClaimLost, LeaseLost, ScanFails, Verdict, TypeOK, videoVars
<1>6. TypeOK'
  BY <1>1, <1>3, <1>4, <1>5 DEF TypeOK
<1>7. TokensDrawn'
  BY <1>3, <1>4, GoneKeepsTokens DEF ScanSafe
<1> QED
  BY <1>6, <1>7 DEF ScanSafe

(* A heartbeat changes what handlers about to reclaim have read, only.     *)
LEMMA HeartbeatKeepsSafe ==
    ASSUME ScanSafe, NEW h \in handlers, Heartbeat(h)
    PROVE  ScanSafe'
<1> DEFINE Read(g) == IF g.reclaim /\ g.phase = "read" THEN [g EXCEPT !.token = 0] ELSE g
<1>1. handlers' = {Read(g) : g \in handlers}
  BY DEF Heartbeat
<1>2. \A g \in handlers : Read(g) \in Handlers /\ (Scanning(Read(g)) => Read(g) = g)
  BY DEF ScanSafe, TypeOK, Handlers, Scanning
<1>3. \A g \in handlers' : g \in Handlers /\ (Scanning(g) => g \in handlers)
  BY <1>1, <1>2
<1>4. TypeOK'
  BY <1>3 DEF ScanSafe, TypeOK, Heartbeat, videoVars, queueVars
<1>5. TokensDrawn'
  <2>1. issued' = issued
    BY DEF Heartbeat
  <2> QED
    BY <1>3, <2>1 DEF ScanSafe, TokensDrawn
<1> QED
  BY <1>4, <1>5 DEF ScanSafe

LEMMA FaultKeepsSafe ==
    ASSUME ScanSafe, NEW h \in handlers, HandlerCrashes(h) \/ DeliveryStalls(h)
    PROVE  ScanSafe'
<1>1. faults' \in 0 .. MaxFaults
  BY ScanAssumption DEF HandlerCrashes, DeliveryStalls, Fault, ScanSafe, TypeOK
<1>2. CASE HandlerCrashes(h)
  <2>1. handlers' = handlers \ {h} /\ issued' = issued
    BY <1>2 DEF HandlerCrashes, scanVars
  <2>2. job' \in {"none", "waiting", "active", "delayed"}
    BY <1>2 DEF HandlerCrashes, ScanSafe, TypeOK
  <2>3. TypeOK'
    BY <1>1, <1>2, <2>1, <2>2 DEF HandlerCrashes, ScanSafe, TypeOK, scanVars, videoVars
  <2> QED
    BY <2>1, <2>3, GoneKeepsTokens DEF ScanSafe
<1>3. CASE DeliveryStalls(h)
  <2> DEFINE new == [h EXCEPT !.locked = FALSE]
  <2>1. h \in Handlers
    BY DEF ScanSafe, TypeOK
  <2>2. new \in Handlers /\ new.token = h.token /\ (Scanning(new) <=> Scanning(h))
    BY <2>1 DEF Handlers, Scanning
  <2>3. handlers' = (handlers \ {h}) \cup {new} /\ issued' = issued
    BY <1>3 DEF DeliveryStalls, scanVars
  <2>4. TypeOK'
    BY <1>1, <1>3, <2>2, <2>3 DEF DeliveryStalls, ScanSafe, TypeOK, scanVars, videoVars
  <2>5. TokensDrawn'
    <3>1. \A g \in handlers' : g = new \/ (g \in handlers /\ g # h)
      BY <2>3
    <3>2. \A g \in handlers' : Scanning(g) => g.token <= issued'
      BY <2>2, <2>3, <3>1 DEF ScanSafe, TokensDrawn
    <3>3. \A g \in handlers : Scanning(g) /\ Scanning(h) /\ g.token = h.token => g = h
      BY DEF ScanSafe, TokensDrawn
    <3>4. ASSUME NEW f \in handlers', NEW g \in handlers', Scanning(f), Scanning(g),
                 f.token = g.token
          PROVE  f = g
      BY <2>2, <3>1, <3>3, <3>4 DEF ScanSafe, TokensDrawn
    <3> QED
      BY <3>2, <3>4 DEF TokensDrawn
  <2> QED
    BY <2>4, <2>5 DEF ScanSafe
<1> QED
  BY <1>2, <1>3

(* Steps of the relay, the queue, time and recovery: no handler changes.   *)
LEMMA OthersKeepSafe ==
    ASSUME ScanSafe,
           \/ Publish \/ RetryDue \/ TakeNothing \/ LeaseExpires \/ Replay
           \/ ReadExhausted \/ DeliveryLost
           \/ \E token \in closing : CloseExhausted(token)
    PROVE  ScanSafe'
<1>1. handlers' = handlers /\ issued' = issued
  BY DEF Publish, RetryDue, TakeNothing, LeaseExpires, Replay, ReadExhausted, DeliveryLost,
         CloseExhausted, Settle, scanVars
<1>2. TokensDrawn'
  BY <1>1 DEF ScanSafe, TokensDrawn
<1>3. CASE Publish
  <2>1. event' \in {"pending", "published"} /\ faults' \in 0 .. MaxFaults
    BY <1>3, ScanAssumption DEF Publish, Fault, ScanSafe, TypeOK
  <2>2. job' \in {"none", "waiting", "active", "delayed"} /\ tries' \in 0 .. (MaxTries - 1)
    BY <1>3, ScanAssumption DEF Publish, queueVars, ScanSafe, TypeOK
  <2>3. TypeOK'
    BY <1>3, <2>1, <2>2 DEF Publish, ScanSafe, TypeOK, scanVars, videoVars
  <2> QED
    BY <1>2, <2>3 DEF ScanSafe
<1>4. CASE RetryDue \/ TakeNothing
  <2>1. TypeOK'
    BY <1>4 DEF RetryDue, TakeNothing, ScanSafe, TypeOK, scanVars, videoVars
  <2> QED
    BY <1>2, <2>1 DEF ScanSafe
<1>5. CASE LeaseExpires \/ Replay
  <2>1. TypeOK'
    BY <1>5 DEF LeaseExpires, Replay, ScanSafe, TypeOK, scanVars, videoVars, queueVars
  <2> QED
    BY <1>2, <2>1 DEF ScanSafe
<1>6. CASE ReadExhausted
  <2>1. closing' \in SUBSET Nat
    BY <1>6 DEF ReadExhausted, ScanSafe, TypeOK
  <2>2. TypeOK'
    BY <1>6, <2>1 DEF ReadExhausted, ScanSafe, TypeOK, scanVars, videoVars, queueVars
  <2> QED
    BY <1>2, <2>2 DEF ScanSafe
<1>7. CASE DeliveryLost
  <2>1. faults' \in 0 .. MaxFaults
    BY <1>7, ScanAssumption DEF DeliveryLost, Fault, ScanSafe, TypeOK
  <2>2. TypeOK'
    BY <1>7, <2>1 DEF DeliveryLost, ScanSafe, TypeOK, scanVars, videoVars
  <2> QED
    BY <1>2, <2>2 DEF ScanSafe
<1>8. ASSUME NEW token \in closing, CloseExhausted(token) PROVE ScanSafe'
  <2>1. /\ scan' \in ScanStatuses /\ security' \in SecurityStatuses
        /\ lease' \in Nat /\ expired' \in BOOLEAN /\ recoveries' \in 0 .. MaxRecoveries
    <3>1. CASE Settle("error", IF security = "scanning" THEN "error" ELSE security)
      BY <3>1 DEF Settle, ScanSafe, TypeOK, ScanStatuses, SecurityStatuses
    <3>2. CASE UNCHANGED <<scanVars, security>>
      BY <3>2 DEF ScanSafe, TypeOK, scanVars
    <3> QED
      BY <1>8, <3>1, <3>2 DEF CloseExhausted
  <2>2. TypeOK'
    BY <1>1, <1>8, <2>1 DEF CloseExhausted, ScanSafe, TypeOK, queueVars
  <2> QED
    BY <1>2, <2>2 DEF ScanSafe
<1> QED
  BY <1>3, <1>4, <1>5, <1>6, <1>7, <1>8

LEMMA NextKeepsSafe == ScanSafe /\ Next => ScanSafe'
<1> SUFFICES ASSUME ScanSafe, Next PROVE ScanSafe'
  OBVIOUS
<1>1. ASSUME NEW h \in handlers, Proceed(h) PROVE ScanSafe'
  BY <1>1, ClaimKeepsSafe, EndKeepsSafe DEF Proceed
<1> QED
  BY <1>1, TakeKeepsSafe, HeartbeatKeepsSafe, FaultKeepsSafe, OthersKeepSafe DEF Next

LEMMA UnchangedKeepsSafe == ScanSafe /\ UNCHANGED vars => ScanSafe'
BY DEF ScanSafe, TypeOK, TokensDrawn, vars, scanVars, videoVars, queueVars

-----------------------------------------------------------------------------
(* How a step can change the scan.                                         *)
Moves ==
    \/ scan' = scan /\ security' = security /\ prepared' = prepared
    \/ /\ scan \in {"queued", "running"}
       /\ scan' = "running" /\ security' = "scanning" /\ prepared' = prepared
    \/ /\ scan = "running"
       /\ scan' = "queued" /\ security' = "pending" /\ prepared' = prepared
    \/ /\ scan = "running"
       /\ scan' \in Verdicts /\ security' = scan'
       /\ prepared' = (prepared \/ scan' = "clean")
    \/ /\ scan = "running"
       /\ scan' = "error" /\ prepared' = prepared
       /\ security' \in {"error", security}
       /\ security = "scanning" => security' = "error"

LEMMA StepMoves ==
    ASSUME [Next]_vars
    PROVE  Moves
<1>1. ASSUME NEW h \in handlers, Claim(h) PROVE Moves
  BY <1>1 DEF Claim, Claims, Reclaimable, Moves
<1>2. ASSUME NEW h \in handlers, ClaimLost(h) \/ LeaseLost(h) PROVE Moves
  BY <1>2 DEF ClaimLost, LeaseLost, scanVars, videoVars, Moves
<1>3. ASSUME NEW h \in handlers, NEW verdict \in Verdicts, Verdict(h, verdict) PROVE Moves
  <2>1. /\ scan = "running" /\ scan' = verdict /\ security' = verdict
        /\ prepared' = (prepared \/ verdict = "clean")
    BY <1>3 DEF Verdict, Owns, Settle
  <2> QED
    BY <2>1 DEF Moves
<1>4. ASSUME NEW h \in handlers, ScanFails(h) PROVE Moves
  <2>1. /\ scan = "running" /\ prepared' = prepared
        /\ Settle("error", "error") \/ Settle("queued", "pending")
    BY <1>4 DEF ScanFails, Owns
  <2> QED
    BY <2>1 DEF Settle, Moves
<1>5. ASSUME NEW h \in handlers, Heartbeat(h) \/ HandlerCrashes(h) \/ DeliveryStalls(h)
      PROVE  Moves
  BY <1>5 DEF Heartbeat, HandlerCrashes, DeliveryStalls, scanVars, videoVars, Moves
<1>6. ASSUME NEW token \in closing, CloseExhausted(token) PROVE Moves
  <2>1. prepared' = prepared
    BY <1>6 DEF CloseExhausted
  <2>2. CASE /\ scan = "running"
             /\ Settle("error", IF security = "scanning" THEN "error" ELSE security)
    BY <2>1, <2>2 DEF Settle, Moves
  <2>3. CASE UNCHANGED <<scanVars, security>>
    BY <2>1, <2>3 DEF scanVars, Moves
  <2> QED
    BY <1>6, <2>2, <2>3 DEF CloseExhausted
<1>7. CASE \/ Publish \/ RetryDue \/ Take \/ TakeNothing \/ LeaseExpires \/ Replay
           \/ ReadExhausted \/ DeliveryLost \/ UNCHANGED vars
  BY <1>7 DEF Publish, RetryDue, Take, TakeNothing, LeaseExpires, Replay, ReadExhausted,
              DeliveryLost, vars, scanVars, videoVars, Moves
<1> QED
  BY <1>1, <1>2, <1>3, <1>4, <1>5, <1>6, <1>7 DEF Next, Proceed

(* The command of a scan is published and replayed, but not taken back;    *)
(* the upload is not the scan's to change.                                 *)
LEMMA CommandStays ==
    ASSUME [Next]_vars
    PROVE  ingest' = ingest /\ (event # "absent" => event' # "absent")
<1>1. ASSUME NEW h \in handlers, Proceed(h) PROVE ingest' = ingest /\ event' = event
  BY <1>1 DEF Proceed, Claim, ClaimLost, Verdict, LeaseLost, ScanFails, videoVars
<1>2. ASSUME NEW h \in handlers, Heartbeat(h) \/ HandlerCrashes(h) \/ DeliveryStalls(h)
      PROVE  ingest' = ingest /\ event' = event
  BY <1>2 DEF Heartbeat, HandlerCrashes, DeliveryStalls, videoVars
<1>3. CASE \/ Publish \/ RetryDue \/ Take \/ TakeNothing \/ LeaseExpires \/ Replay
           \/ ReadExhausted \/ DeliveryLost \/ UNCHANGED vars
           \/ \E token \in closing : CloseExhausted(token)
  BY <1>3 DEF Publish, RetryDue, Take, TakeNothing, LeaseExpires, Replay, ReadExhausted,
              DeliveryLost, CloseExhausted, vars, videoVars
<1> QED
  BY <1>1, <1>2, <1>3 DEF Next

LEMMA MovesKeepFollowing ==
    ASSUME scan # "absent", VideoFollowsScan, Moves
    PROVE  scan' # "absent" /\ VideoFollowsScan'
BY DEF VideoFollowsScan, Moves, Verdicts

LEMMA InitInv == Init => ScanInv
<1> SUFFICES ASSUME Init PROVE ScanInv
  OBVIOUS
<1>1. TypeOK
  <2>1. recoveries \in 0 .. MaxRecoveries /\ tries \in 0 .. (MaxTries - 1)
        /\ faults \in 0 .. MaxFaults
    BY ScanAssumption DEF Init
  <2> QED
    BY <2>1 DEF Init, TypeOK, SecurityStatuses, ScanStatuses
<1>2. TokensDrawn
  BY DEF Init, TokensDrawn
<1>3. scan # "absent" /\ VideoFollowsScan
  BY DEF Init, VideoFollowsScan
<1> QED
  BY <1>1, <1>2, <1>3 DEF ScanInv, ScanSafe

LEMMA NextInv == ScanInv /\ [Next]_vars => ScanInv'
<1> SUFFICES ASSUME ScanInv, [Next]_vars PROVE ScanInv'
  OBVIOUS
<1>1. ScanSafe'
  BY NextKeepsSafe, UnchangedKeepsSafe DEF ScanInv
<1>2. scan' # "absent" /\ VideoFollowsScan'
  BY StepMoves, MovesKeepFollowing DEF ScanInv
<1> QED
  BY <1>1, <1>2 DEF ScanInv

-----------------------------------------------------------------------------
(* The inductive invariant holds in every state.                           *)
THEOREM Invariance == Spec => []ScanInv
  BY InitInv, NextInv, PTL DEF Spec

(* The types of the rows, the queue and the handlers.                      *)
THEOREM TypeCorrect == Spec => []TypeOK
<1>1. ScanInv => TypeOK
  BY DEF ScanInv, ScanSafe
<1> QED
  BY <1>1, Invariance, PTL

(* The status of the video is the status of its scan, in every state that  *)
(* claims, verdicts, retries and the recovery's closing can lead to.       *)
THEOREM VideoFollowsScanHolds == Spec => []VideoFollowsScan
<1>1. ScanInv => VideoFollowsScan
  BY DEF ScanInv
<1> QED
  BY <1>1, Invariance, PTL

(* Whatever deliveries, reclaims and zombies there are, one handler at     *)
(* most holds the lease: tokens are drawn once.                            *)
THEOREM OneScanOwnerHolds == Spec => []OneScanOwner
<1>1. ScanInv => OneScanOwner
  BY DEF ScanInv, ScanSafe, TokensDrawn, Scanning, OneScanOwner, Owner, Owns
<1> QED
  BY <1>1, Invariance, PTL

(* No step changes the outcome of a settled scan, nor what the video shows *)
(* of it: handlers settle by compare-and-set on the running row.           *)
THEOREM ScanIsFinalHolds == Spec => ScanIsFinal
<1>1. [Next]_vars => [(scan \in Settled) => scan' = scan /\ security' = security]_vars
  BY StepMoves DEF Moves, Settled, Verdicts
<1> QED
  BY <1>1, PTL DEF Spec, ScanIsFinal
=============================================================================
