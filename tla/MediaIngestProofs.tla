-------------------------- MODULE MediaIngestProofs --------------------------
(***************************************************************************)
(* Proofs about MediaIngest, for any requests, manifests and budgets, and  *)
(* that it implements SourceQuarantine.  What its scan steps do is taken   *)
(* from MediaScanProofs, of which the instance ScanP is.                   *)
(***************************************************************************)
EXTENDS MediaIngest, TLAPS

ScanP == INSTANCE MediaScanProofs

(* Before its rows exist, an upload has left nothing anywhere.             *)
NothingYet ==
    upload = "absent" =>
        /\ object = None
        /\ manifest = None
        /\ provider = "none"
        /\ \A r \in Requests : request[r].phase \in {"idle", "allocated"}

(* The provider's upload becomes an object once, from the manifest kept.   *)
AssembledOnce == object # None => provider = "gone" /\ object = manifest

(* What a request relies on between two of its steps.                      *)
RequestSound(r) ==
    LET q == request[r]
    IN  /\ q.phase \in {"accepted", "persisted"} => q.manifest \in Manifests
        /\ q.phase = "persisted" /\ provider = "open" => q.manifest = manifest
        /\ q.phase = "verified" => object # None /\ Sized(object)

RequestsSound == \A r \in Requests : RequestSound(r)

ScannedIsStored == scan # "absent" => object # None

ReleasedIsClean == prepared => scan = "clean"

UploadInv == NothingYet /\ AssembledOnce /\ RequestsSound

ScanPart ==
    /\ ScannedIsStored
    /\ ReleasedIsClean
    /\ CompletedIsStored
    /\ VerdictIsFromScan

IngestInv ==
    /\ TypeOK
    /\ ScanP!TokensDrawn
    /\ UploadInv
    /\ ScanPart

-----------------------------------------------------------------------------
(* The scan of MediaIngest is the one MediaScanProofs is about.            *)
LEMMA Budgets == ScanP!ScanAssumption
BY BudgetAssumption DEF ScanP!ScanAssumption

LEMMA SameType == Scan!TypeOK <=> ScanP!TypeOK
BY DEF Scan!TypeOK, ScanP!TypeOK, Scan!SecurityStatuses, ScanP!SecurityStatuses,
       Scan!ScanStatuses, ScanP!ScanStatuses, Scan!Verdicts, ScanP!Verdicts, Scan!Handlers,
       ScanP!Handlers

LEMMA SameSteps ==
    ASSUME Scan!Next
    PROVE  ScanP!Next
<1> USE DEF Scan!videoVars, ScanP!videoVars, Scan!scanVars, ScanP!scanVars, Scan!queueVars,
            ScanP!queueVars, Scan!Fault, ScanP!Fault, Scan!Verdicts, ScanP!Verdicts,
            Scan!Reclaimable, ScanP!Reclaimable
<1>1. Scan!Publish => ScanP!Publish
  BY DEF Scan!Publish, ScanP!Publish
<1>2. Scan!RetryDue => ScanP!RetryDue
  BY DEF Scan!RetryDue, ScanP!RetryDue
<1>3. Scan!Take => ScanP!Take
  BY DEF Scan!Take, ScanP!Take, Scan!Eligible, ScanP!Eligible, Scan!Cardinality,
         ScanP!Cardinality
<1>4. Scan!TakeNothing => ScanP!TakeNothing
  BY DEF Scan!TakeNothing, ScanP!TakeNothing, Scan!Eligible, ScanP!Eligible,
         Scan!Cardinality, ScanP!Cardinality
<1>5. ASSUME NEW h \in handlers, Scan!Proceed(h) PROVE ScanP!Proceed(h)
  <2>1. Scan!Claim(h) => ScanP!Claim(h)
    BY DEF Scan!Claim, ScanP!Claim, Scan!Claims, ScanP!Claims
  <2>2. Scan!ClaimLost(h) => ScanP!ClaimLost(h)
    BY DEF Scan!ClaimLost, ScanP!ClaimLost, Scan!Claims, ScanP!Claims, Scan!Return,
           ScanP!Return
  <2>3. ASSUME NEW verdict \in Scan!Verdicts, Scan!Verdict(h, verdict)
        PROVE  verdict \in ScanP!Verdicts /\ ScanP!Verdict(h, verdict)
    BY <2>3 DEF Scan!Verdict, ScanP!Verdict, Scan!Owns, ScanP!Owns, Scan!Settle, ScanP!Settle,
                Scan!Return, ScanP!Return
  <2>4. Scan!LeaseLost(h) => ScanP!LeaseLost(h)
    BY DEF Scan!LeaseLost, ScanP!LeaseLost, Scan!Owns, ScanP!Owns, Scan!Return, ScanP!Return
  <2>5. Scan!ScanFails(h) => ScanP!ScanFails(h)
    BY DEF Scan!ScanFails, ScanP!ScanFails, Scan!Owns, ScanP!Owns, Scan!Settle, ScanP!Settle,
           Scan!Return, ScanP!Return, Scan!Throw, ScanP!Throw, Scan!WillRetry, ScanP!WillRetry
  <2> QED
    BY <1>5, <2>1, <2>2, <2>3, <2>4, <2>5 DEF Scan!Proceed, ScanP!Proceed
<1>6. ASSUME NEW h \in handlers, Scan!Heartbeat(h) PROVE ScanP!Heartbeat(h)
  BY <1>6 DEF Scan!Heartbeat, ScanP!Heartbeat, Scan!Owns, ScanP!Owns
<1>7. ASSUME NEW h \in handlers, Scan!HandlerCrashes(h) PROVE ScanP!HandlerCrashes(h)
  BY <1>7 DEF Scan!HandlerCrashes, ScanP!HandlerCrashes
<1>8. ASSUME NEW h \in handlers, Scan!DeliveryStalls(h) PROVE ScanP!DeliveryStalls(h)
  BY <1>8 DEF Scan!DeliveryStalls, ScanP!DeliveryStalls
<1>9. Scan!LeaseExpires => ScanP!LeaseExpires
  BY DEF Scan!LeaseExpires, ScanP!LeaseExpires
<1>10. Scan!Replay => ScanP!Replay
  BY DEF Scan!Replay, ScanP!Replay, Scan!Stranded, ScanP!Stranded
<1>11. Scan!ReadExhausted => ScanP!ReadExhausted
  BY DEF Scan!ReadExhausted, ScanP!ReadExhausted
<1>12. ASSUME NEW token \in closing, Scan!CloseExhausted(token)
       PROVE  ScanP!CloseExhausted(token)
  BY <1>12 DEF Scan!CloseExhausted, ScanP!CloseExhausted, Scan!Settle, ScanP!Settle
<1>13. Scan!DeliveryLost => ScanP!DeliveryLost
  BY DEF Scan!DeliveryLost, ScanP!DeliveryLost
<1> QED
  BY <1>1, <1>2, <1>3, <1>4, <1>5, <1>6, <1>7, <1>8, <1>9, <1>10, <1>11, <1>12, <1>13
     DEF Scan!Next, ScanP!Next

LEMMA ScanStepMoves ==
    ASSUME Scan!Next
    PROVE  /\ ScanP!Moves
           /\ ingest' = ingest
           /\ event # "absent" => event' # "absent"
<1>1. ScanP!Next
  BY SameSteps
<1> QED
  BY <1>1, Budgets, ScanP!StepMoves, ScanP!CommandStays

-----------------------------------------------------------------------------
(* What steps of requests have in common.                                  *)
RequestType == [Requests -> [phase : Phases, manifest : Manifests \cup {None}]]

LEMMA MovesRequest ==
    ASSUME TypeOK, NEW r \in Requests, NEW from, NEW to \in Phases, Moves(r, from, to)
    PROVE  /\ request' \in RequestType
           /\ request[r].phase = from
           /\ request'[r].phase = to /\ request'[r].manifest = request[r].manifest
           /\ \A s \in Requests \ {r} : request'[s] = request[s]
<1>1. request \in RequestType /\ request[r] \in [phase : Phases, manifest : Manifests \cup {None}]
  BY DEF TypeOK, RequestType
<1>2. request[r].phase = from /\ request' = [request EXCEPT ![r].phase = to]
  BY DEF Moves
<1>3. request'[r] = [request[r] EXCEPT !.phase = to]
  BY <1>1, <1>2 DEF RequestType
<1>4. request'[r] \in [phase : Phases, manifest : Manifests \cup {None}]
  BY <1>1, <1>3
<1> QED
  BY <1>1, <1>2, <1>3, <1>4 DEF RequestType

LEMMA IdleRequest == Idle \in [phase : Phases, manifest : Manifests \cup {None}]
BY DEF Idle, Phases

LEMMA EndsRequest ==
    ASSUME TypeOK, NEW r \in Requests, NEW from, Ends(r, from)
    PROVE  /\ request' \in RequestType
           /\ request[r].phase = from
           /\ request'[r] = Idle
           /\ \A s \in Requests \ {r} : request'[s] = request[s]
BY IdleRequest DEF TypeOK, RequestType, Ends

LEMMA IdleSound ==
    ASSUME NEW r \in Requests, request'[r] = Idle
    PROVE  RequestSound(r)' /\ request'[r].phase = "idle"
BY DEF RequestSound, Idle

(* The rows of the video and its scan are as they were.                    *)
LEMMA QuarantineKept ==
    ASSUME TypeOK, ScanP!TokensDrawn, UNCHANGED quarantineVars
    PROVE  /\ Scan!TypeOK' /\ ScanP!TokensDrawn'
           /\ UNCHANGED <<ingest, security, prepared, scan, event>>
<1>1. UNCHANGED <<ingest, security, prepared, scan, lease, issued, expired, recoveries, event,
                  job, tries, handlers, closing, faults>>
  BY DEF quarantineVars, videoVars, scanVars, queueVars
<1>2. Scan!TypeOK
  BY DEF TypeOK
<1> QED
  BY <1>1, <1>2 DEF Scan!TypeOK, ScanP!TokensDrawn

(* A step of a request that writes nothing but itself.                     *)
LEMMA RequestStep ==
    ASSUME IngestInv, NEW r \in Requests, request' \in RequestType,
           \A s \in Requests \ {r} : request'[s] = request[s],
           UNCHANGED <<rowVars, storeVars, quarantineVars>>,
           RequestSound(r)',
           upload = "absent" => request'[r].phase \in {"idle", "allocated"}
    PROVE  IngestInv'
<1>1. UNCHANGED <<upload, manifest, provider, object>> /\ UNCHANGED quarantineVars
  BY DEF rowVars, storeVars
<1>2. /\ Scan!TypeOK' /\ ScanP!TokensDrawn'
      /\ UNCHANGED <<ingest, security, prepared, scan, event>>
  BY <1>1, QuarantineKept DEF IngestInv
<1>3. TypeOK'
  BY <1>1, <1>2 DEF IngestInv, TypeOK, RequestType
<1>4. NothingYet' /\ AssembledOnce'
  BY <1>1 DEF IngestInv, UploadInv, NothingYet, AssembledOnce
<1>5. RequestsSound'
  BY <1>1 DEF IngestInv, UploadInv, RequestsSound, RequestSound
<1>6. ScanPart'
  BY <1>1, <1>2 DEF IngestInv, ScanPart, ScannedIsStored, ReleasedIsClean, CompletedIsStored,
                    VerdictIsFromScan
<1> QED
  BY <1>2, <1>3, <1>4, <1>5, <1>6 DEF IngestInv, UploadInv

LEMMA AskingKeepsInv ==
    ASSUME IngestInv, NEW r \in Requests,
           \/ Allocate(r) \/ NotAssembled(r) \/ Head(r) \/ HeadFails(r) \/ AcceptAbort(r)
           \/ \E m \in Manifests : Accept(r, m)
    PROVE  IngestInv'
<1>1. TypeOK /\ RequestSound(r)
  BY DEF IngestInv, UploadInv, RequestsSound
<1>2. upload = "absent" => request[r].phase \in {"idle", "allocated"}
  BY DEF IngestInv, UploadInv, NothingYet
<1>3. UNCHANGED <<rowVars, storeVars, quarantineVars>>
  BY DEF Allocate, NotAssembled, Head, HeadFails, AcceptAbort, Accept
<1>4. UNCHANGED <<upload, manifest, provider, object>>
  BY <1>3 DEF rowVars, storeVars
<1>5. CASE Allocate(r)
  <2>1. Moves(r, "idle", "allocated") /\ "allocated" \in Phases
    BY <1>5 DEF Allocate, Phases
  <2>2. RequestSound(r)'
    BY <1>1, <2>1, MovesRequest DEF RequestSound
  <2> QED
    BY <1>1, <1>3, <2>1, <2>2, MovesRequest, RequestStep
<1>6. CASE NotAssembled(r)
  <2>1. Moves(r, "persisted", "answered") /\ "answered" \in Phases
    BY <1>6 DEF NotAssembled, Phases
  <2>2. RequestSound(r)'
    BY <1>1, <2>1, MovesRequest DEF RequestSound
  <2> QED
    BY <1>1, <1>2, <1>3, <2>1, <2>2, MovesRequest, RequestStep
<1>7. CASE Head(r)
  <2>1. PICK to \in {"verified", "mismatch"} :
          /\ Moves(r, "answered", to)
          /\ object # None
          /\ to = "verified" => Sized(object)
    BY <1>7 DEF Head
  <2>2. to \in Phases
    BY <2>1 DEF Phases
  <2>3. Sized(object)' <=> Sized(object)
    BY <1>4 DEF Sized
  <2>4. RequestSound(r)'
    BY <1>1, <1>4, <2>1, <2>2, <2>3, MovesRequest DEF RequestSound
  <2> QED
    BY <1>1, <1>2, <1>3, <2>1, <2>2, <2>4, MovesRequest, RequestStep
<1>8. CASE HeadFails(r)
  <2>1. Ends(r, "answered")
    BY <1>8 DEF HeadFails
  <2> QED
    BY <1>1, <1>3, <2>1, EndsRequest, IdleSound, RequestStep
<1>9. CASE AcceptAbort(r)
  <2>1. Moves(r, "idle", "aborting") /\ "aborting" \in Phases /\ upload # "absent"
    BY <1>9 DEF AcceptAbort, Phases
  <2>2. RequestSound(r)'
    BY <1>1, <2>1, MovesRequest DEF RequestSound
  <2> QED
    BY <1>1, <1>3, <2>1, <2>2, MovesRequest, RequestStep
<1>10. ASSUME NEW m \in Manifests, Accept(r, m) PROVE IngestInv'
  <2>1. /\ request' = [request EXCEPT ![r] = [phase |-> "accepted", manifest |-> m]]
        /\ upload # "absent"
    BY <1>10 DEF Accept, AcceptsParts
  <2>2. [phase |-> "accepted", manifest |-> m]
          \in [phase : Phases, manifest : Manifests \cup {None}]
    BY DEF Phases
  <2>3. /\ request' \in RequestType
        /\ request'[r] = [phase |-> "accepted", manifest |-> m]
        /\ \A s \in Requests \ {r} : request'[s] = request[s]
    BY <1>1, <2>1, <2>2 DEF TypeOK, RequestType
  <2>4. RequestSound(r)'
    BY <2>3 DEF RequestSound
  <2> QED
    BY <1>3, <2>1, <2>3, <2>4, RequestStep
<1> QED
  BY <1>5, <1>6, <1>7, <1>8, <1>9, <1>10

(* The rows change; what is stored and who asks for what does not.         *)
LEMMA RowsStep ==
    ASSUME IngestInv, NEW r \in Requests, NEW from, Ends(r, from),
           upload' # "absent", UNCHANGED <<manifest, provider, object>>
    PROVE  UploadInv'
<1>1. /\ request'[r] = Idle
      /\ \A s \in Requests \ {r} : request'[s] = request[s]
  BY EndsRequest DEF IngestInv
<1>2. RequestSound(r)'
  BY <1>1, IdleSound
<1>3. RequestsSound'
  BY <1>1, <1>2 DEF IngestInv, UploadInv, RequestsSound, RequestSound
<1>4. NothingYet' /\ AssembledOnce'
  BY DEF IngestInv, UploadInv, NothingYet, AssembledOnce
<1> QED
  BY <1>3, <1>4 DEF UploadInv

LEMMA CreateKeepsInv ==
    ASSUME IngestInv, NEW r \in Requests, Create(r)
    PROVE  IngestInv'
<1>1. TypeOK
  BY DEF IngestInv
<1>2. /\ Ends(r, "allocated")
      /\ UNCHANGED <<manifest, object, prepared, scan, lease, issued, expired, recoveries,
                     event, job, tries, handlers, closing, faults>>
  BY DEF Create, scanVars, queueVars
<1>3. CASE upload # "absent"
  <2>1. UNCHANGED <<upload, provider, ingest, security>>
    BY <1>3 DEF Create
  <2>2. UNCHANGED <<rowVars, storeVars, quarantineVars>>
    BY <1>2, <2>1 DEF rowVars, storeVars, quarantineVars, videoVars, scanVars, queueVars
  <2> QED
    BY <1>1, <1>2, <1>3, <2>2, EndsRequest, IdleSound, RequestStep
<1>4. CASE upload = "absent"
  <2>1. upload' = "initiated" /\ provider' = "open" /\ ingest' = "uploading"
        /\ security' = "pending"
    BY <1>4 DEF Create
  <2>2. /\ object = None /\ manifest = None
        /\ \A s \in Requests : request[s].phase \in {"idle", "allocated"}
    BY <1>4 DEF IngestInv, UploadInv, NothingYet
  <2>3. /\ request' \in RequestType /\ request'[r] = Idle
        /\ \A s \in Requests \ {r} : request'[s] = request[s]
    BY <1>1, <1>2, EndsRequest
  <2>4. \A s \in Requests : request'[s].phase \in {"idle", "allocated"}
    BY <2>2, <2>3 DEF Idle
  <2>5. UploadInv'
    BY <1>2, <2>1, <2>2, <2>4
       DEF UploadInv, NothingYet, AssembledOnce, RequestsSound, RequestSound
  <2>6. Scan!TypeOK'
    BY <1>1, <1>2, <2>1 DEF TypeOK, Scan!TypeOK, Scan!SecurityStatuses
  <2>7. TypeOK'
    BY <1>1, <1>2, <2>1, <2>3, <2>6 DEF TypeOK, RequestType
  <2>8. ScanP!TokensDrawn'
    BY <1>2 DEF IngestInv, ScanP!TokensDrawn
  <2>9. ScanPart'
    BY <1>2, <2>1 DEF IngestInv, ScanPart, ScannedIsStored, ReleasedIsClean,
                      CompletedIsStored, VerdictIsFromScan, Scan!Verdicts
  <2> QED
    BY <2>5, <2>7, <2>8, <2>9 DEF IngestInv
<1> QED
  BY <1>3, <1>4

LEMMA PersistKeepsInv ==
    ASSUME IngestInv, NEW r \in Requests, PersistManifest(r)
    PROVE  IngestInv'
<1> DEFINE m == request[r].manifest
<1>1. TypeOK /\ RequestSound(r) /\ request[r].phase = "accepted"
  BY DEF IngestInv, UploadInv, RequestsSound, PersistManifest
<1>2. m \in Manifests /\ m # None
  BY <1>1, ManifestAssumption DEF RequestSound
<1>3. UNCHANGED <<provider, object>> /\ UNCHANGED quarantineVars
  BY DEF PersistManifest, storeVars
<1>4. upload # "absent"
  BY <1>1 DEF IngestInv, UploadInv, NothingYet
<1>5. CASE Ends(r, "accepted") /\ UNCHANGED rowVars
  <2>1. UNCHANGED <<rowVars, storeVars, quarantineVars>>
    BY <1>3, <1>5 DEF storeVars
  <2> QED
    BY <1>1, <1>4, <1>5, <2>1, EndsRequest, IdleSound, RequestStep
<1>6. CASE upload = "completed" /\ Moves(r, "accepted", "persisted") /\ UNCHANGED rowVars
  <2>1. provider = "gone"
    BY <1>6 DEF IngestInv, UploadInv, AssembledOnce, ScanPart, CompletedIsStored
  <2>2. /\ request' \in RequestType
        /\ request'[r].phase = "persisted" /\ request'[r].manifest = m
        /\ \A s \in Requests \ {r} : request'[s] = request[s]
    BY <1>1, <1>6, MovesRequest DEF Phases
  <2>3. RequestSound(r)'
    BY <1>2, <1>3, <2>1, <2>2 DEF RequestSound
  <2>4. UNCHANGED <<rowVars, storeVars, quarantineVars>>
    BY <1>3, <1>6 DEF storeVars
  <2> QED
    BY <1>4, <2>2, <2>3, <2>4, RequestStep
<1>7. CASE /\ upload # "completed"
           /\ ~Differs(m)
           /\ Moves(r, "accepted", "persisted")
           /\ upload' = "completing"
           /\ manifest' = IF manifest = None THEN m ELSE manifest
  <2>1. /\ request' \in RequestType
        /\ request'[r].phase = "persisted" /\ request'[r].manifest = m
        /\ \A s \in Requests \ {r} : request'[s] = request[s]
    BY <1>1, <1>7, MovesRequest DEF Phases
  <2>2. manifest' = m /\ manifest \in {None, m}
    BY <1>7 DEF Differs
  <2>3. RequestSound(r)'
    BY <1>2, <2>1, <2>2 DEF RequestSound
  <2>4. ASSUME NEW s \in Requests \ {r} PROVE RequestSound(s)'
    <3>1. RequestSound(s)
      BY DEF IngestInv, UploadInv, RequestsSound
    <3>2. request[s].phase = "persisted" /\ provider = "open" => request[s].manifest = m
      BY <2>2, <3>1, ManifestAssumption DEF RequestSound
    <3>3. Sized(object)' <=> Sized(object)
      BY <1>3 DEF Sized
    <3> QED
      BY <1>3, <2>1, <2>2, <3>1, <3>2, <3>3 DEF RequestSound
  <2>5. RequestsSound'
    BY <2>3, <2>4 DEF RequestsSound
  <2>6. AssembledOnce'
    BY <1>2, <1>3, <2>2 DEF IngestInv, UploadInv, AssembledOnce
  <2>7. NothingYet'
    BY <1>7 DEF NothingYet
  <2>8. /\ Scan!TypeOK' /\ ScanP!TokensDrawn'
        /\ UNCHANGED <<ingest, security, prepared, scan, event>>
    BY <1>3, QuarantineKept DEF IngestInv
  <2>9. TypeOK'
    BY <1>1, <1>2, <1>3, <1>7, <2>1, <2>2, <2>8 DEF TypeOK, RequestType
  <2>10. ScanPart'
    BY <1>3, <1>7, <2>8 DEF IngestInv, ScanPart, ScannedIsStored, ReleasedIsClean,
                            CompletedIsStored, VerdictIsFromScan, Scan!Verdicts
  <2> QED
    BY <2>5, <2>6, <2>7, <2>8, <2>9, <2>10 DEF IngestInv, UploadInv
<1> QED
  BY <1>5, <1>6, <1>7 DEF PersistManifest

LEMMA AssembleKeepsInv ==
    ASSUME IngestInv, NEW r \in Requests, Assemble(r)
    PROVE  IngestInv'
<1>1. TypeOK /\ RequestSound(r)
  BY DEF IngestInv, UploadInv, RequestsSound
<1>2. /\ provider = "open" /\ provider' = "gone" /\ object' = request[r].manifest
      /\ UNCHANGED <<upload, manifest>> /\ UNCHANGED quarantineVars
      /\ Moves(r, "persisted", "answered")
  BY DEF Assemble, rowVars
<1>3. /\ request' \in RequestType /\ request[r].phase = "persisted"
      /\ request'[r].phase = "answered"
      /\ \A s \in Requests \ {r} : request'[s] = request[s]
  BY <1>1, <1>2, MovesRequest DEF Phases
<1>4. object' = manifest /\ object' \in Manifests /\ object = None
  BY <1>1, <1>2, <1>3 DEF RequestSound, IngestInv, UploadInv, AssembledOnce
<1>5. upload # "absent" /\ upload # "completed" /\ scan = "absent"
  BY <1>2, <1>4 DEF IngestInv, UploadInv, NothingYet, ScanPart, CompletedIsStored,
                    ScannedIsStored
<1>6. NothingYet' /\ AssembledOnce'
  BY <1>2, <1>4, <1>5 DEF NothingYet, AssembledOnce
<1>7. RequestsSound'
  <2>1. RequestSound(r)'
    BY <1>3 DEF RequestSound
  <2>2. ASSUME NEW s \in Requests \ {r} PROVE RequestSound(s)'
    <3>1. RequestSound(s)
      BY DEF IngestInv, UploadInv, RequestsSound
    <3> QED
      BY <1>2, <1>3, <1>4, <3>1 DEF RequestSound
  <2> QED
    BY <2>1, <2>2 DEF RequestsSound
<1>8. /\ Scan!TypeOK' /\ ScanP!TokensDrawn'
      /\ UNCHANGED <<ingest, security, prepared, scan, event>>
  BY <1>2, QuarantineKept DEF IngestInv
<1>9. TypeOK'
  BY <1>1, <1>2, <1>3, <1>4, <1>8 DEF TypeOK, RequestType
<1>10. ScanPart'
  BY <1>2, <1>5, <1>8 DEF IngestInv, ScanPart, ScannedIsStored, ReleasedIsClean,
                          CompletedIsStored, VerdictIsFromScan, Scan!Verdicts
<1> QED
  BY <1>6, <1>7, <1>8, <1>9, <1>10 DEF IngestInv, UploadInv

LEMMA RejectionKeepsInv ==
    ASSUME IngestInv, NEW r \in Requests, RejectSize(r) \/ Abort(r)
    PROVE  IngestInv'
<1>1. PICK from \in {"mismatch", "dropped"} : Ends(r, from)
  BY DEF RejectSize, Abort
<1>2. /\ upload' \in {"failed", "aborted"} /\ ingest' \in {"failed", "aborted"}
      /\ UNCHANGED <<manifest, provider, object, security, prepared, scan, lease, issued,
                     expired, recoveries, event, job, tries, handlers, closing, faults>>
  BY DEF RejectSize, Abort, storeVars, scanVars, queueVars
<1>3. UploadInv'
  BY <1>1, <1>2, RowsStep
<1>4. request' \in RequestType
  BY <1>1, EndsRequest DEF IngestInv
<1>5. Scan!TypeOK'
  BY <1>2 DEF IngestInv, TypeOK, Scan!TypeOK
<1>6. TypeOK'
  BY <1>2, <1>4, <1>5 DEF IngestInv, TypeOK, RequestType
<1>7. ScanP!TokensDrawn'
  BY <1>2 DEF IngestInv, ScanP!TokensDrawn
<1>8. ScanPart'
  BY <1>2 DEF IngestInv, ScanPart, ScannedIsStored, ReleasedIsClean, CompletedIsStored,
              VerdictIsFromScan
<1> QED
  BY <1>3, <1>6, <1>7, <1>8 DEF IngestInv

LEMMA FinalizeKeepsInv ==
    ASSUME IngestInv, NEW r \in Requests, Finalize(r)
    PROVE  IngestInv'
<1>1. Ends(r, "verified") /\ RequestSound(r) /\ TypeOK
  BY DEF Finalize, IngestInv, UploadInv, RequestsSound
<1>2. /\ upload' = "completed" /\ ingest' = "uploaded" /\ security' = "pending"
      /\ scan' = (IF scan = "absent" THEN "queued" ELSE scan)
      /\ event' = (IF event = "absent" THEN "pending" ELSE event)
      /\ UNCHANGED <<manifest, provider, object, prepared, lease, issued, expired,
                     recoveries, job, tries, handlers, closing, faults>>
  BY DEF Finalize, storeVars, queueVars
<1>3. object # None /\ object \notin WrongSize
  BY <1>1 DEF RequestSound, Ends, Sized
<1>4. UploadInv'
  BY <1>1, <1>2, RowsStep
<1>5. request' \in RequestType
  BY <1>1, EndsRequest
<1>6. Scan!TypeOK'
  <2>1. /\ scan' \in Scan!ScanStatuses /\ security' \in Scan!SecurityStatuses
        /\ event' \in {"absent", "pending", "published"}
    BY <1>1, <1>2 DEF TypeOK, Scan!TypeOK, Scan!ScanStatuses, Scan!SecurityStatuses
  <2> QED
    BY <1>1, <1>2, <2>1 DEF TypeOK, Scan!TypeOK
<1>7. TypeOK'
  BY <1>1, <1>2, <1>5, <1>6 DEF TypeOK, RequestType
<1>8. ScanP!TokensDrawn'
  BY <1>2 DEF IngestInv, ScanP!TokensDrawn
<1>9. ScanPart'
  BY <1>2, <1>3 DEF IngestInv, ScanPart, ScannedIsStored, ReleasedIsClean,
                    CompletedIsStored, VerdictIsFromScan, Scan!Verdicts
<1> QED
  BY <1>4, <1>7, <1>8, <1>9 DEF IngestInv

LEMMA AbortAtProviderKeepsInv ==
    ASSUME IngestInv, NEW r \in Requests, AbortAtProvider(r)
    PROVE  IngestInv'
<1>1. TypeOK
  BY DEF IngestInv
<1>2. /\ Moves(r, "aborting", "dropped") /\ provider' \in {provider, "gone"}
      /\ UNCHANGED <<object, upload, manifest>> /\ UNCHANGED quarantineVars
  BY DEF AbortAtProvider, rowVars
<1>3. /\ request' \in RequestType /\ request[r].phase = "aborting"
      /\ request'[r].phase = "dropped"
      /\ \A s \in Requests \ {r} : request'[s] = request[s]
  BY <1>1, <1>2, MovesRequest DEF Phases
<1>4. upload # "absent"
  BY <1>3 DEF IngestInv, UploadInv, NothingYet
<1>5. NothingYet' /\ AssembledOnce'
  BY <1>2, <1>4 DEF IngestInv, UploadInv, NothingYet, AssembledOnce
<1>6. RequestsSound'
  <2>1. RequestSound(r)'
    BY <1>3 DEF RequestSound
  <2>2. ASSUME NEW s \in Requests \ {r} PROVE RequestSound(s)'
    <3>1. RequestSound(s)
      BY DEF IngestInv, UploadInv, RequestsSound
    <3>2. Sized(object)' <=> Sized(object)
      BY <1>2 DEF Sized
    <3> QED
      BY <1>2, <1>3, <3>1, <3>2 DEF RequestSound
  <2> QED
    BY <2>1, <2>2 DEF RequestsSound
<1>7. /\ Scan!TypeOK' /\ ScanP!TokensDrawn'
      /\ UNCHANGED <<ingest, security, prepared, scan, event>>
  BY <1>2, QuarantineKept DEF IngestInv
<1>8. TypeOK'
  BY <1>1, <1>2, <1>3, <1>7 DEF TypeOK, RequestType
<1>9. ScanPart'
  BY <1>2, <1>7 DEF IngestInv, ScanPart, ScannedIsStored, ReleasedIsClean,
                    CompletedIsStored, VerdictIsFromScan, Scan!Verdicts
<1> QED
  BY <1>5, <1>6, <1>7, <1>8, <1>9 DEF IngestInv, UploadInv

LEMMA DeathKeepsInv ==
    ASSUME IngestInv, NEW r \in Requests, RequestDies(r)
    PROVE  IngestInv'
<1>1. TypeOK
  BY DEF IngestInv
<1>2. /\ request' = [request EXCEPT ![r] = Idle]
      /\ faults < MaxFaults /\ faults' = faults + 1
      /\ UNCHANGED <<upload, manifest, provider, object, ingest, security, prepared, scan,
                     lease, issued, expired, recoveries, event, job, tries, handlers,
                     closing>>
  BY DEF RequestDies, rowVars, storeVars, videoVars, scanVars, queueVars
<1>3. /\ request' \in RequestType /\ request'[r] = Idle
      /\ \A s \in Requests \ {r} : request'[s] = request[s]
  BY <1>1, <1>2, IdleRequest DEF TypeOK, RequestType
<1>4. RequestsSound'
  <2>1. RequestSound(r)'
    BY <1>3, IdleSound
  <2> QED
    BY <1>2, <1>3, <2>1 DEF IngestInv, UploadInv, RequestsSound, RequestSound
<1>5. NothingYet' /\ AssembledOnce'
  BY <1>2, <1>3 DEF IngestInv, UploadInv, NothingYet, AssembledOnce, Idle
<1>6. Scan!TypeOK'
  <2>1. faults' \in 0 .. MaxFaults
    BY <1>1, <1>2, BudgetAssumption DEF TypeOK, Scan!TypeOK
  <2> QED
    BY <1>1, <1>2, <2>1 DEF TypeOK, Scan!TypeOK
<1>7. TypeOK'
  BY <1>1, <1>2, <1>3, <1>6 DEF TypeOK, RequestType
<1>8. ScanP!TokensDrawn'
  BY <1>2 DEF IngestInv, ScanP!TokensDrawn
<1>9. ScanPart'
  BY <1>2 DEF IngestInv, ScanPart, ScannedIsStored, ReleasedIsClean, CompletedIsStored,
              VerdictIsFromScan
<1> QED
  BY <1>4, <1>5, <1>7, <1>8, <1>9 DEF IngestInv, UploadInv

LEMMA ScanKeepsInv ==
    ASSUME IngestInv, Scan!Next, UNCHANGED uploadVars
    PROVE  IngestInv'
<1>1. UNCHANGED <<upload, manifest, provider, object, request>>
  BY DEF uploadVars, rowVars, storeVars
<1>2. UploadInv'
  BY <1>1 DEF IngestInv, UploadInv, NothingYet, AssembledOnce, RequestsSound, RequestSound
<1>3. ScanP!TypeOK' /\ ScanP!TokensDrawn'
  <2>1. ScanP!ScanSafe /\ ScanP!Next
    BY SameType, SameSteps DEF IngestInv, TypeOK, ScanP!ScanSafe
  <2>2. ScanP!ScanSafe'
    BY <2>1, Budgets, ScanP!NextKeepsSafe
  <2> QED
    BY <2>2 DEF ScanP!ScanSafe
<1>4. Scan!TypeOK'
  BY <1>3 DEF Scan!TypeOK, ScanP!TypeOK, Scan!SecurityStatuses, ScanP!SecurityStatuses,
              Scan!ScanStatuses, ScanP!ScanStatuses, Scan!Verdicts, ScanP!Verdicts,
              Scan!Handlers, ScanP!Handlers
<1>5. ScanP!Moves /\ ingest' = ingest /\ (event # "absent" => event' # "absent")
  BY ScanStepMoves
<1>6. TypeOK'
  BY <1>1, <1>4, <1>5 DEF IngestInv, TypeOK
<1>7. ScanPart'
  <2>1. /\ scan' # "absent" => scan # "absent"
        /\ scan # "absent" => scan' # "absent"
    BY <1>5 DEF ScanP!Moves, ScanP!Verdicts
  <2>2. ScannedIsStored' /\ CompletedIsStored'
    BY <1>1, <1>5, <2>1 DEF IngestInv, ScanPart, ScannedIsStored, CompletedIsStored
  <2>3. ReleasedIsClean'
    BY <1>5 DEF IngestInv, ScanPart, ReleasedIsClean, ScanP!Moves, ScanP!Verdicts
  <2>4. VerdictIsFromScan'
    BY <1>5 DEF IngestInv, ScanPart, VerdictIsFromScan, ScanP!Moves, ScanP!Verdicts,
                Scan!Verdicts
  <2> QED
    BY <2>2, <2>3, <2>4 DEF ScanPart
<1> QED
  BY <1>2, <1>3, <1>6, <1>7 DEF IngestInv

-----------------------------------------------------------------------------
LEMMA InitInv == Init => IngestInv
<1> SUFFICES ASSUME Init PROVE IngestInv
  OBVIOUS
<1>1. Scan!TypeOK
  <2>1. recoveries \in 0 .. MaxRecoveries /\ tries \in 0 .. (MaxTries - 1)
        /\ faults \in 0 .. MaxFaults
    BY BudgetAssumption DEF Init
  <2> QED
    BY <2>1 DEF Init, Scan!TypeOK, Scan!SecurityStatuses, Scan!ScanStatuses
<1>2. TypeOK
  BY <1>1, IdleRequest DEF Init, TypeOK
<1>3. ScanP!TokensDrawn
  BY DEF Init, ScanP!TokensDrawn
<1>4. UploadInv
  BY DEF Init, UploadInv, NothingYet, AssembledOnce, RequestsSound, RequestSound, Idle
<1>5. ScanPart
  BY DEF Init, ScanPart, ScannedIsStored, ReleasedIsClean, CompletedIsStored,
         VerdictIsFromScan, Scan!Verdicts
<1> QED
  BY <1>2, <1>3, <1>4, <1>5 DEF IngestInv

LEMMA NextInv == IngestInv /\ [Next]_vars => IngestInv'
<1> SUFFICES ASSUME IngestInv, [Next]_vars PROVE IngestInv'
  OBVIOUS
<1>1. CASE Next
  BY <1>1, AskingKeepsInv, CreateKeepsInv, PersistKeepsInv, AssembleKeepsInv,
     RejectionKeepsInv, FinalizeKeepsInv, AbortAtProviderKeepsInv, DeathKeepsInv,
     ScanKeepsInv DEF Next
<1>2. CASE UNCHANGED vars
  <2>1. UNCHANGED <<upload, manifest, provider, object, request>> /\ UNCHANGED quarantineVars
    BY <1>2 DEF vars, uploadVars, rowVars, storeVars
  <2>2. /\ Scan!TypeOK' /\ ScanP!TokensDrawn'
        /\ UNCHANGED <<ingest, security, prepared, scan, event>>
    BY <2>1, QuarantineKept DEF IngestInv
  <2>3. TypeOK'
    BY <2>1, <2>2 DEF IngestInv, TypeOK
  <2>4. UploadInv'
    BY <2>1 DEF IngestInv, UploadInv, NothingYet, AssembledOnce, RequestsSound, RequestSound
  <2>5. ScanPart'
    BY <2>1, <2>2 DEF IngestInv, ScanPart, ScannedIsStored, ReleasedIsClean,
                      CompletedIsStored, VerdictIsFromScan
  <2> QED
    BY <2>2, <2>3, <2>4, <2>5 DEF IngestInv
<1> QED
  BY <1>1, <1>2

-----------------------------------------------------------------------------
(* The inductive invariant holds in every state.                           *)
THEOREM Invariance == Spec => []IngestInv
  BY InitInv, NextInv, PTL DEF Spec

(* The types of the rows, the requests, the store and the scan.            *)
THEOREM TypeCorrect == Spec => []TypeOK
<1>1. IngestInv => TypeOK
  BY DEF IngestInv
<1> QED
  BY <1>1, Invariance, PTL

(* The object in storage is the one of the manifest in the database: the   *)
(* provider assembles an upload once, and every request that can still ask *)
(* it to has compared its parts with the ones persisted.                   *)
THEOREM ObjectMatchesManifestHolds == Spec => []ObjectMatchesManifest
<1>1. IngestInv => ObjectMatchesManifest
  BY DEF IngestInv, UploadInv, AssembledOnce, ObjectMatchesManifest
<1> QED
  BY <1>1, Invariance, PTL

(* A completed upload has its object and its scan, whatever requests raced *)
(* it: who completes it has seen the object.                               *)
THEOREM CompletedIsStoredHolds == Spec => []CompletedIsStored
<1>1. IngestInv => CompletedIsStored
  BY DEF IngestInv, ScanPart
<1> QED
  BY <1>1, Invariance, PTL

(* A verdict that the video shows is the one of its scan.                  *)
THEOREM VerdictIsFromScanHolds == Spec => []VerdictIsFromScan
<1>1. IngestInv => VerdictIsFromScan
  BY DEF IngestInv, ScanPart
<1> QED
  BY <1>1, Invariance, PTL

(* Handlers, late completions and recovery write the rows of the scan, and *)
(* yet one handler at most holds its lease.                                *)
THEOREM OneScanOwnerHolds == Spec => []ScanP!OneScanOwner
<1>1. IngestInv => ScanP!OneScanOwner
  BY DEF IngestInv, ScanP!TokensDrawn, ScanP!Scanning, ScanP!OneScanOwner, ScanP!Owner,
         ScanP!Owns
<1> QED
  BY <1>1, Invariance, PTL

-----------------------------------------------------------------------------
(* The refinement                                                          *)

LEMMA InitRefines == Init => Quarantine!Init
BY DEF Init, Quarantine!Init, Scan!Settled, Scan!Verdicts

(* A request stores the object, or does what the quarantine does not see.  *)
LEMMA UploadRefines ==
    ASSUME NEW r \in Requests,
           \/ Allocate(r) \/ Create(r) \/ (\E m \in Manifests : Accept(r, m))
           \/ PersistManifest(r) \/ Assemble(r) \/ NotAssembled(r) \/ Head(r)
           \/ HeadFails(r) \/ RejectSize(r) \/ Finalize(r) \/ AcceptAbort(r)
           \/ AbortAtProvider(r) \/ Abort(r) \/ RequestDies(r),
           IngestInv
    PROVE  [Quarantine!Next]_(Quarantine!vars)
<1>1. prepared' = prepared
  BY DEF Allocate, Create, Accept, PersistManifest, Assemble, NotAssembled, Head, HeadFails,
         RejectSize, Finalize, AcceptAbort, AbortAtProvider, Abort, RequestDies,
         quarantineVars, videoVars
<1>2. scan' = scan \/ (scan = "absent" /\ scan' = "queued")
  BY DEF Allocate, Create, Accept, PersistManifest, Assemble, NotAssembled, Head, HeadFails,
         RejectSize, Finalize, AcceptAbort, AbortAtProvider, Abort, RequestDies,
         quarantineVars, scanVars
<1>3. object' = object \/ object' # None
  <2>1. CASE Assemble(r)
    <3>1. request[r].phase = "persisted" /\ object' = request[r].manifest
      BY <2>1 DEF Assemble, Moves
    <3>2. RequestSound(r)
      BY DEF IngestInv, UploadInv, RequestsSound
    <3> QED
      BY <3>1, <3>2, ManifestAssumption DEF RequestSound
  <2>2. CASE ~Assemble(r)
    BY <2>2 DEF Allocate, Create, Accept, PersistManifest, NotAssembled, Head, HeadFails,
         RejectSize, Finalize, AcceptAbort, AbortAtProvider, Abort, RequestDies, storeVars
  <2> QED
    BY <2>1, <2>2
<1>4. (IF scan' \in Scan!Settled THEN scan' ELSE "none")
        = (IF scan \in Scan!Settled THEN scan ELSE "none")
  BY <1>2 DEF Scan!Settled, Scan!Verdicts
<1> QED
  BY <1>1, <1>3, <1>4 DEF Quarantine!Next, Quarantine!Store, Quarantine!vars, Scan!Settled,
                          Scan!Verdicts

(* A scan that is settled decides: its object is stored, and preparation   *)
(* exists with a clean verdict only.                                       *)
LEMMA ScanRefines ==
    ASSUME IngestInv, Scan!Next, UNCHANGED uploadVars
    PROVE  [Quarantine!Next]_(Quarantine!vars)
<1>1. object' = object
  BY DEF uploadVars, storeVars
<1>2. ScanP!Moves
  BY ScanStepMoves
<1>3. CASE scan' \in Scan!Settled /\ scan \notin Scan!Settled
  <2>1. scan = "running" /\ scan' \in {"clean", "infected", "error"}
    BY <1>2, <1>3 DEF ScanP!Moves, ScanP!Verdicts, Scan!Settled, Scan!Verdicts
  <2>2. object # None /\ prepared = FALSE
    BY <2>1 DEF IngestInv, ScanPart, ScannedIsStored, ReleasedIsClean, TypeOK, Scan!TypeOK
  <2>3. prepared' = (scan' = "clean")
    BY <1>2, <1>3, <2>1, <2>2 DEF ScanP!Moves, ScanP!Verdicts
  <2> QED
    BY <1>1, <1>3, <2>1, <2>2, <2>3
       DEF Quarantine!Next, Quarantine!Decide, Scan!Settled, Scan!Verdicts
<1>4. CASE ~(scan' \in Scan!Settled /\ scan \notin Scan!Settled)
  <2>1. prepared' = prepared
    BY <1>2, <1>4 DEF ScanP!Moves, ScanP!Verdicts, Scan!Settled, Scan!Verdicts
  <2>2. (IF scan' \in Scan!Settled THEN scan' ELSE "none")
          = (IF scan \in Scan!Settled THEN scan ELSE "none")
    BY <1>2, <1>4 DEF ScanP!Moves, ScanP!Verdicts, Scan!Settled, Scan!Verdicts
  <2> QED
    BY <1>1, <2>1, <2>2 DEF Quarantine!vars, Scan!Settled, Scan!Verdicts
<1> QED
  BY <1>3, <1>4

LEMMA NextRefines == IngestInv /\ [Next]_vars => [Quarantine!Next]_(Quarantine!vars)
<1> SUFFICES ASSUME IngestInv, [Next]_vars PROVE [Quarantine!Next]_(Quarantine!vars)
  OBVIOUS
<1>1. CASE Next
  BY <1>1, UploadRefines, ScanRefines DEF Next
<1>2. CASE UNCHANGED vars
  <2>1. UNCHANGED <<object, scan, prepared>>
    BY <1>2 DEF vars, uploadVars, storeVars, quarantineVars, videoVars, scanVars
  <2> QED
    BY <2>1 DEF Quarantine!vars, Scan!Settled, Scan!Verdicts
<1> QED
  BY <1>1, <1>2

(* Whatever requests, handlers and recovery do to the rows, a source gets  *)
(* one final verdict, on a stored object, and is released with a clean one *)
(* alone: ingest is a quarantine.                                          *)
THEOREM QuarantineHolds == Spec => ImplementsQuarantine
<1>1. Init => Quarantine!Init
  BY InitRefines
<1>2. IngestInv /\ [Next]_vars => [Quarantine!Next]_(Quarantine!vars)
  BY NextRefines
<1> QED
  BY <1>1, <1>2, Invariance, PTL DEF Spec, ImplementsQuarantine, Quarantine!Spec
=============================================================================
