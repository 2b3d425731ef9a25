----------------------- MODULE ArtifactExecutionProofs -----------------------
(***************************************************************************)
(* Proofs about ArtifactExecution, for any attempts, numbers of parts,     *)
(* calls, releases, capacity and bound on faults; and about the algorithms *)
(* of SpeechTimeline, for any turns, words and dialogues.                  *)
(*                                                                         *)
(* A fold is followed from one prefix of its sequence to the next          *)
(* (FoldRuns): what holds of the empty prefix, and of each with the one    *)
(* before, holds of the whole.                                             *)
(***************************************************************************)
EXTENDS MCArtifactExecution, WellFoundedInduction, FiniteSetTheorems, SequenceTheorems, TLAPS

Typed ==
    /\ TypeOK
    /\ call \in [Calls -> CallRecord \cup {None}]
    /\ store = [a \in Attempts |-> store[a]]

StoredPart(c, p) == store[call[c].attempt][p] = call[c].content

(* What is known of a call from its phase: content exists from the start   *)
(* of the execution on; parts are uploaded before the manifest, which is   *)
(* reached with all of them stored.                                        *)
CallConsistent(c) ==
    LET k == call[c]
    IN  /\ k.phase \in {"executing", "uploading", "marking"} \/ k.answer = "done" =>
             k.content # None
        /\ k.phase # "answered" => k.answer = None
        /\ k.phase \in {"sent", "executing", "marking"} => k.failures = {}
        /\ k.phase = "sent" => k.content = None
        /\ k.answer = "saturated" => k.content = None
        /\ k.answer = "done" => k.failures = {}
        /\ k.pending \subseteq Parts(k.attempt)
        /\ k.phase = "uploading" =>
             \A p \in Parts(k.attempt) :
                 p \in k.pending \/ (\E f \in k.failures : f[1] = p) \/ StoredPart(c, p)
        /\ k.phase = "marking" \/ k.answer = "done" =>
             \A p \in Parts(k.attempt) : StoredPart(c, p)
        /\ k.answer = "done" => StoredPart(c, Manifest)
        /\ k.worker = "verified" => k.answer = "done"

CallsConsistent == \A c \in Calls : call[c] # None => CallConsistent(c)

Turned(c) == call[c].phase = "answered" /\ call[c].answer = "saturated"

Waiting(a, c) == status[a] = "queued" \/ (status[a] = "running" /\ owner[a] # c)

(* Of two calls of one speech attempt one was refused; all have been when  *)
(* the attempt is queued, and all others when it runs.                     *)
OneRuns ==
    \A c \in Calls : call[c] # None /\ call[c].attempt \notin Media =>
      /\ Waiting(call[c].attempt, c) => Turned(c)
      /\ \A d \in Calls \ {c} :
           call[d] # None /\ call[d].attempt = call[c].attempt => Turned(c) \/ Turned(d)

(* Every object was produced by a call of its attempt.                     *)
ObjectsHaveCalls ==
    \A a \in Attempts : \A p \in Objects(a) :
        store[a][p] # None =>
          \E c \in Calls : /\ call[c] # None
                           /\ call[c].attempt = a
                           /\ call[c].content = store[a][p]

(* The executions that hold a slot of the limiter.                         *)
Running == {c \in Calls : /\ call[c] # None
                          /\ call[c].attempt \in Speech
                          /\ call[c].phase \in {"executing", "uploading", "marking"}}

SlotsCounted == IsFiniteSet(Running) /\ active = Cardinality(Running)

ExecutionInv ==
    /\ Typed
    /\ CallsConsistent
    /\ OneRuns
    /\ ObjectsHaveCalls
    /\ SlotsCounted
    /\ ManifestIsMarker
    /\ RegisteredIsStored
    /\ OnlyReleasesConflict

-----------------------------------------------------------------------------
(* The kinds of steps: the actions of Next, with those that do the same    *)
(* taken together.                                                         *)

Refuses(c) ==
    \E answer \in {"fatal", "retryable", "saturated"} :
        /\ answer = "saturated" => call[c].attempt \in Speech
        /\ Replies(c, answer)

Breaks(c) == \E answer \in {"fatal", "retryable"} : Fails(c, answer)

Leaves(c) ==
    \E to \in {"failed", "queued"} :
        /\ to = "queued" => Turned(c)
        /\ Settles(c, to)
        /\ UNCHANGED <<registered, store, active, deployed>>
        /\ faults' = faults \/ Fault

Acts(c) ==
    \/ Refuses(c)
    \/ Admit(c)
    \/ Breaks(c)
    \/ Produce(c)
    \/ \E p \in Objects(call[c].attempt), result \in Results : UploadPart(c, p, result)
    \/ UploadsDrained(c)
    \/ UploadsAbandoned(c)
    \/ \E p \in Objects(call[c].attempt) : StrayUpload(c, p)
    \/ PartsStored(c)
    \/ \E result \in Results : Mark(c, result)
    \/ InputMissing(c)
    \/ Leaves(c)
    \/ Verify(c)
    \/ Register(c)

LEMMA KindsOfSteps ==
    ASSUME Next
    PROVE  \/ \E c \in Calls, a \in Attempts : Claim(c, a) \/ Reclaim(c, a)
           \/ \E c \in Calls : call[c] # None /\ Acts(c)
           \/ \E a \in Attempts : TimeOut(a)
           \/ Crash
           \/ \E v \in Versions : Deploy(v)
<1>1. ASSUME NEW c \in Calls, call[c] # None, Executor(c) PROVE Acts(c)
  <2>1. CASE Refused(c)
    <3>1. Refuses(c)
      BY <2>1 DEF Refused, Forbidden, ProviderNotReady, ModelMismatch, InputTooLarge,
                  Saturated, Refuses
    <3> QED
      BY <3>1 DEF Acts
  <2>2. CASE Failed(c)
    <3>1. Breaks(c) \/ UploadsDrained(c) \/ UploadsAbandoned(c)
      BY <2>2 DEF Failed, NoWorkspace, DownloadFails, ProviderFails, OutputInvalid,
                  SourceRejected, TranscodingFails, Breaks
    <3> QED
      BY <3>1 DEF Acts
  <2> QED
    BY <1>1, <2>1, <2>2 DEF Executor, Acts
<1>2. ASSUME NEW c \in Calls, call[c] # None, Worker(c) PROVE Acts(c)
  <2>1. CASE GiveUp(c) \/ HearFailure(c) \/ VerificationFails(c) \/ ContractBroken(c)
               \/ ManifestRejected(c) \/ ReadRefused(c)
    <3>1. /\ Settles(c, "failed")
          /\ UNCHANGED <<registered, store, active, deployed>>
          /\ faults' = faults \/ Fault
      BY <2>1 DEF GiveUp, HearFailure, VerificationFails, ContractBroken,
                  ManifestRejected, ReadRefused, Hears
    <3>2. Leaves(c)
      BY <3>1 DEF Leaves
    <3> QED
      BY <3>2 DEF Acts
  <2>2. CASE Defer(c)
    <3>1. Leaves(c)
      BY <2>2 DEF Defer, Hears, In, Deferrable, Leaves, Turned
    <3> QED
      BY <3>1 DEF Acts
  <2> QED
    BY <1>2, <2>1, <2>2 DEF Worker, Acts
<1> QED
  BY <1>1, <1>2 DEF Next
-----------------------------------------------------------------------------
(* What a step does to the calls and to the objects                        *)

LEMMA RecordOfCall ==
    ASSUME Typed, NEW c \in Calls, call[c] # None
    PROVE  /\ call[c] \in CallRecord
           /\ call[c].attempt \in Attempts
           /\ store[call[c].attempt] \in
                [Objects(call[c].attempt) -> Contents \cup {None}]
  BY DEF Typed, TypeOK, CallRecord

(* A write changes one object of the call's attempt, and only if it was    *)
(* not there.                                                              *)
LEMMA WriteOnce ==
    ASSUME Typed, NEW c \in Calls, call[c] # None,
           NEW q \in Objects(call[c].attempt),
           store' \in {store, Written(c, q)}
    PROVE  /\ \A a \in Attempts : store'[a] \in [Objects(a) -> Contents \cup {None}]
           /\ store' = [a \in Attempts |-> store'[a]]
           /\ \A a \in Attempts : \A p \in Objects(a) :
                \/ store'[a][p] = store[a][p]
                \/ /\ a = call[c].attempt /\ p = q
                   /\ store[a][p] = None
                   /\ store'[a][p] = call[c].content
<1>1. call[c].content \in Contents \cup {None} /\ call[c].attempt \in Attempts
  BY RecordOfCall DEF CallRecord
<1>2. CASE store' = store
  BY <1>2 DEF Typed, TypeOK
<1>3. CASE store' = Written(c, q)
  BY <1>1, <1>3 DEF Written, Typed, TypeOK
<1> QED
  BY <1>2, <1>3

LEMMA PutsWrites ==
    ASSUME Typed, NEW c \in Calls, call[c] # None,
           NEW q \in Objects(call[c].attempt), NEW result, Puts(c, q, result)
    PROVE  /\ store' \in {store, Written(c, q)}
           /\ result = "stored" => store'[call[c].attempt][q] = call[c].content
           /\ result = "conflict" => ~Matches(c, q)
           /\ faults' \in 0 .. MaxFaults
<1>1. call[c].attempt \in Attempts
  BY RecordOfCall
<1>2. faults' \in 0 .. MaxFaults
  BY ExecutionAssumption DEF Puts, Fault, Typed, TypeOK
<1>3. CASE result = "stored"
  BY <1>1, <1>2, <1>3 DEF Puts, Written, Matches, Typed, TypeOK
<1>4. CASE result # "stored"
  BY <1>2, <1>4 DEF Puts
<1> QED
  BY <1>3, <1>4

LEMMA CallsOfAct ==
    ASSUME Typed, NEW c \in Calls, call[c] # None, Acts(c)
    PROVE  /\ call' \in [Calls -> CallRecord \cup {None}]
           /\ \A d \in Calls \ {c} : call'[d] = call[d]
           /\ call'[c] \in CallRecord /\ call'[c] # None
           /\ call'[c].attempt = call[c].attempt
           /\ call'[c].content = call[c].content \/ call[c].phase = "sent"
<1> DEFINE Good(k) == /\ k \in CallRecord
                      /\ k.attempt = call[c].attempt
                      /\ k.content = call[c].content \/ call[c].phase = "sent"
<1>1. SUFFICES \E k : Good(k) /\ call' = [call EXCEPT ![c] = k]
  BY NoneAssumption DEF Typed
<1>2. call[c] \in CallRecord /\ call \in [Calls -> CallRecord \cup {None}]
  BY RecordOfCall DEF Typed
<1>3. Failures \subseteq Failures \cup {None, "done", "saturated"}
  OBVIOUS
<1>4. CASE \E answer \in Failures \cup {"done", "saturated"} :
             call' = [call EXCEPT ![c].phase = "answered", ![c].answer = answer]
  <2> PICK answer \in Failures \cup {"done", "saturated"} :
             call' = [call EXCEPT ![c].phase = "answered", ![c].answer = answer]
    BY <1>4
  <2> DEFINE k == [call[c] EXCEPT !.phase = "answered", !.answer = answer]
  <2>1. Good(k)
    BY <1>2 DEF CallRecord
  <2>2. call' = [call EXCEPT ![c] = k]
    BY <1>2
  <2> QED
    BY <1>1, <2>1, <2>2
<1>5. CASE \E answer \in {"fatal", "retryable"} : Answers(c, answer)
  BY <1>4, <1>5 DEF Answers, Failures
<1>6. CASE Refuses(c)
  BY <1>4, <1>6 DEF Refuses, Replies, Failures
<1>7. CASE Breaks(c)
  BY <1>5, <1>7 DEF Breaks, Fails
<1>8. CASE UploadsDrained(c) \/ UploadsAbandoned(c)
  <2>1. PICK f \in call[c].failures : Answers(c, f[2])
    BY <1>8 DEF UploadsDrained, UploadsAbandoned
  <2>2. f[2] \in Failures
    BY <1>2 DEF CallRecord
  <2> QED
    BY <1>4, <2>1, <2>2 DEF Answers
<1>9. CASE \E result \in Results : Mark(c, result)
  <2>1. PICK result \in Results : Mark(c, result)
    BY <1>9
  <2> QED
    BY <1>4, <2>1 DEF Mark, Answers, Results, Failures
<1>10. CASE Admit(c)
  <2> DEFINE k == [call[c] EXCEPT !.phase = "executing", !.content = ContentOf(c)]
  <2>1. ContentOf(c) \in Contents
    BY DEF ContentOf, Contents, Typed, TypeOK
  <2>2. call' = [call EXCEPT ![c] = k] /\ call[c].phase = "sent"
    BY <1>2, <1>10 DEF Admit, In
  <2>3. Good(k)
    BY <1>2, <2>1, <2>2 DEF CallRecord
  <2> QED
    BY <1>1, <2>2, <2>3
<1>11. CASE Produce(c)
  <2> DEFINE k == [call[c] EXCEPT !.phase = "uploading", !.pending = Parts(call[c].attempt)]
  <2>1. Parts(call[c].attempt) \in SUBSET Nat
    BY DEF Parts
  <2>2. call' = [call EXCEPT ![c] = k]
    BY <1>2, <1>11 DEF Produce
  <2>3. Good(k)
    BY <1>2, <2>1 DEF CallRecord
  <2> QED
    BY <1>1, <2>2, <2>3
<1>12. CASE \E p \in Objects(call[c].attempt), result \in Results : UploadPart(c, p, result)
  <2> PICK p \in Objects(call[c].attempt), result \in Results : UploadPart(c, p, result)
    BY <1>12
  <2> DEFINE F == IF result = "stored" THEN call[c].failures
                  ELSE call[c].failures \cup {<<p, result>>}
             k == [call[c] EXCEPT !.pending = @ \ {p}, !.failures = F]
  <2>1. F \in SUBSET (Nat \X Failures)
    <3>1. call[c].failures \in SUBSET (Nat \X Failures)
      BY <1>2 DEF CallRecord
    <3>2. call[c].pending \in SUBSET Nat
      BY <1>2 DEF CallRecord
    <3>3. p \in Nat /\ (result # "stored" => result \in Failures)
      BY <3>2 DEF UploadPart, Results, Failures
    <3> QED
      BY <3>1, <3>3
  <2>2. call' = [call EXCEPT ![c] = k]
    BY <1>2 DEF UploadPart
  <2>3. Good(k)
    BY <1>2, <2>1 DEF CallRecord
  <2> QED
    BY <1>1, <2>2, <2>3
<1>13. CASE \E p \in Objects(call[c].attempt) : StrayUpload(c, p)
  <2> PICK p \in Objects(call[c].attempt) : StrayUpload(c, p)
    BY <1>13
  <2> DEFINE k == [call[c] EXCEPT !.pending = @ \ {p}]
  <2>1. call' = [call EXCEPT ![c] = k]
    BY <1>2 DEF StrayUpload
  <2>2. Good(k)
    BY <1>2 DEF CallRecord
  <2> QED
    BY <1>1, <2>1, <2>2
<1>14. CASE PartsStored(c)
  <2> DEFINE k == [call[c] EXCEPT !.phase = "marking"]
  <2>1. call' = [call EXCEPT ![c] = k] /\ Good(k)
    BY <1>2, <1>14 DEF PartsStored, CallRecord
  <2> QED
    BY <1>1, <2>1
<1>15. CASE InputMissing(c)
  <2> DEFINE k == [call[c] EXCEPT !.worker = "gone", !.phase = "dead"]
  <2>1. call' = [call EXCEPT ![c] = k] /\ Good(k)
    BY <1>2, <1>15 DEF InputMissing, CallRecord
  <2> QED
    BY <1>1, <2>1
<1>16. CASE Leaves(c) \/ Register(c)
  <2> DEFINE k == [call[c] EXCEPT !.worker = "gone"]
  <2>1. call' = [call EXCEPT ![c] = k] /\ Good(k)
    BY <1>2, <1>16 DEF Leaves, Register, Settles, CallRecord
  <2> QED
    BY <1>1, <2>1
<1>17. CASE Verify(c)
  <2> DEFINE k == [call[c] EXCEPT !.worker = "verified"]
  <2>1. call' = [call EXCEPT ![c] = k] /\ Good(k)
    BY <1>2, <1>17 DEF Verify, CallRecord
  <2> QED
    BY <1>1, <2>1
<1> QED
  BY <1>6, <1>7, <1>8, <1>9, <1>10, <1>11, <1>12, <1>13, <1>14, <1>15, <1>16, <1>17
     DEF Acts

(* Only the call that marks its outputs writes a manifest.                 *)
LEMMA WritesOfAct ==
    ASSUME Typed, CallsConsistent, NEW c \in Calls, call[c] # None, Acts(c)
    PROVE  /\ \A a \in Attempts : store'[a] \in [Objects(a) -> Contents \cup {None}]
           /\ store' = [a \in Attempts |-> store'[a]]
           /\ \A a \in Attempts : \A p \in Objects(a) :
                \/ store'[a][p] = store[a][p]
                \/ /\ a = call[c].attempt
                   /\ p = Manifest => call[c].phase = "marking"
                   /\ store[a][p] = None
                   /\ store'[a][p] = call[c].content
<1> DEFINE Once ==
      /\ \A a \in Attempts : store'[a] \in [Objects(a) -> Contents \cup {None}]
      /\ store' = [a \in Attempts |-> store'[a]]
      /\ \A a \in Attempts : \A p \in Objects(a) :
           \/ store'[a][p] = store[a][p]
           \/ /\ a = call[c].attempt
              /\ p = Manifest => call[c].phase = "marking"
              /\ store[a][p] = None
              /\ store'[a][p] = call[c].content
<1>1. CallConsistent(c) /\ Manifest \in Objects(call[c].attempt)
  BY DEF CallsConsistent, Objects
<1>2. CASE UNCHANGED store
  BY <1>2 DEF Typed, TypeOK
<1>3. ASSUME NEW q \in Parts(call[c].attempt), store' \in {store, Written(c, q)}
      PROVE  Once
  <2>1. q \in Objects(call[c].attempt) /\ q # Manifest
    BY DEF Objects, Parts, Manifest
  <2> QED
    BY <1>3, <2>1, WriteOnce
<1>4. CASE call[c].phase = "marking" /\ store' \in {store, Written(c, Manifest)}
  BY <1>1, <1>4, WriteOnce
<1>5. CASE \E p \in Objects(call[c].attempt), result \in Results : UploadPart(c, p, result)
  <2> PICK p \in Objects(call[c].attempt), result \in Results : UploadPart(c, p, result)
    BY <1>5
  <2>1. p \in Parts(call[c].attempt)
    BY <1>1 DEF UploadPart, CallConsistent
  <2>2. store' \in {store, Written(c, p)}
    BY PutsWrites DEF UploadPart
  <2> QED
    BY <1>3, <2>1, <2>2
<1>6. CASE \E p \in Objects(call[c].attempt) : StrayUpload(c, p)
  <2> PICK p \in Objects(call[c].attempt) : StrayUpload(c, p)
    BY <1>6
  <2>1. p \in Parts(call[c].attempt) /\ store' \in {store, Written(c, p)}
    BY <1>1 DEF StrayUpload, CallConsistent
  <2> QED
    BY <1>3, <2>1
<1>7. CASE \E result \in Results : Mark(c, result)
  <2> PICK result \in Results : Mark(c, result)
    BY <1>7
  <2>1. store' \in {store, Written(c, Manifest)} /\ call[c].phase = "marking"
    BY <1>1, PutsWrites DEF Mark, In
  <2> QED
    BY <1>4, <2>1
<1>8. CASE \/ Refuses(c) \/ Admit(c) \/ Breaks(c) \/ Produce(c) \/ UploadsDrained(c)
           \/ UploadsAbandoned(c) \/ PartsStored(c) \/ InputMissing(c) \/ Leaves(c)
           \/ Verify(c) \/ Register(c)
  <2>1. UNCHANGED store
    BY <1>8 DEF Refuses, Replies, Admit, Breaks, Fails, Produce, UploadsDrained,
                UploadsAbandoned, PartsStored, InputMissing, Leaves, Verify, Hears, Register
  <2> QED
    BY <1>2, <2>1
<1> QED
  BY <1>5, <1>6, <1>7, <1>8 DEF Acts

(* A call changes the status of its own attempt only, and only while its   *)
(* worker owns it; rows appear with the success, for what was verified.    *)
LEMMA StatusOfAct ==
    ASSUME Typed, NEW c \in Calls, call[c] # None, Acts(c)
    PROVE  /\ status' \in [Attempts -> {"queued", "running", "succeeded", "failed"}]
           /\ owner' \in [Attempts -> Calls \cup {None}]
           /\ registered' \in [Attempts -> Contents \cup {None}]
           /\ deployed' = deployed
           /\ faults' \in 0 .. MaxFaults
           /\ \A a \in Attempts :
                \/ /\ status'[a] = status[a] /\ registered'[a] = registered[a]
                   /\ owner'[a] = owner[a]
                \/ /\ a = call[c].attempt
                   /\ status[a] = "running" /\ status'[a] # "running"
                   /\ owner[a] = c
                   /\ status'[a] = "queued" => Turned(c)
                   /\ registered'[a] = registered[a]
                \/ /\ a = call[c].attempt
                   /\ status[a] = "running" /\ status'[a] = "succeeded"
                   /\ owner[a] = c
                   /\ call[c].worker = "verified"
                   /\ registered'[a] = call[c].content
<1>1. call[c].attempt \in Attempts /\ call[c].content \in Contents \cup {None}
  BY RecordOfCall DEF CallRecord
<1>2. ASSUME faults' = faults \/ Fault
      PROVE  faults' \in 0 .. MaxFaults
  BY <1>2, ExecutionAssumption DEF Typed, TypeOK, Fault
<1>3. CASE UNCHANGED <<attemptVars, deployed>> /\ (faults' = faults \/ Fault)
  BY <1>2, <1>3 DEF Typed, TypeOK, attemptVars
<1>4. CASE \E result \in Results : Mark(c, result)
  <2>1. faults' = faults \/ Fault
    BY <1>4 DEF Mark, Puts
  <2> QED
    BY <1>3, <1>4, <2>1 DEF Mark, attemptVars
<1>5. CASE \E p \in Objects(call[c].attempt), result \in Results : UploadPart(c, p, result)
  <2>1. faults' = faults \/ Fault
    BY <1>5 DEF UploadPart, Puts
  <2> QED
    BY <1>3, <1>5, <2>1 DEF UploadPart, attemptVars
<1>6. CASE \/ Refuses(c) \/ Admit(c) \/ Breaks(c) \/ Produce(c) \/ UploadsDrained(c)
           \/ UploadsAbandoned(c) \/ PartsStored(c) \/ Verify(c)
           \/ \E p \in Objects(call[c].attempt) : StrayUpload(c, p)
  <2>1. UNCHANGED <<attemptVars, deployed, faults>>
    BY <1>6 DEF Refuses, Replies, Admit, Breaks, Fails, Produce, UploadsDrained,
                UploadsAbandoned, PartsStored, Verify, Hears, StrayUpload
  <2> QED
    BY <1>3, <2>1
<1>7. ASSUME NEW to \in {"queued", "succeeded", "failed"}, Records(c, to),
             to = "queued" => Turned(c)
      PROVE  /\ status' \in [Attempts -> {"queued", "running", "succeeded", "failed"}]
             /\ owner' \in [Attempts -> Calls \cup {None}]
             /\ \A a \in Attempts :
                  \/ status'[a] = status[a] /\ owner'[a] = owner[a]
                  \/ /\ a = call[c].attempt
                     /\ status[a] = "running" /\ status'[a] # "running"
                     /\ owner[a] = c
                     /\ status'[a] = "queued" => Turned(c)
  BY <1>1, <1>7 DEF Records, Owns, Typed, TypeOK
<1>8. CASE Leaves(c)
  <2>1. PICK to \in {"failed", "queued"} :
           /\ to = "queued" => Turned(c)
           /\ Records(c, to)
           /\ UNCHANGED <<registered, deployed>>
           /\ faults' = faults \/ Fault
    BY <1>8 DEF Leaves, Settles
  <2>2. to \in {"queued", "succeeded", "failed"}
    OBVIOUS
  <2>3. registered' = registered /\ deployed' = deployed /\ faults' \in 0 .. MaxFaults
    BY <1>2, <2>1
  <2>4. registered' \in [Attempts -> Contents \cup {None}]
    BY <2>3 DEF Typed, TypeOK
  <2> QED
    BY <1>7, <2>1, <2>2, <2>3, <2>4
<1>9. CASE InputMissing(c)
  <2>1. Records(c, "failed") /\ UNCHANGED <<registered, deployed>> /\ Fault
    BY <1>9 DEF InputMissing
  <2>2. "failed" \in {"queued", "succeeded", "failed"} /\ "failed" # "queued"
    OBVIOUS
  <2>3. registered' = registered /\ deployed' = deployed /\ faults' \in 0 .. MaxFaults
    BY <1>2, <2>1
  <2>4. registered' \in [Attempts -> Contents \cup {None}]
    BY <2>3 DEF Typed, TypeOK
  <2> QED
    BY <1>7, <2>1, <2>2, <2>3, <2>4
<1>10. CASE Register(c)
  BY <1>1, <1>10 DEF Register, Settles, Records, Rows, Owns, Typed, TypeOK
<1> QED
  BY <1>4, <1>5, <1>6, <1>8, <1>9, <1>10 DEF Acts

Grows ==
    \A a \in Attempts : \A p \in Objects(a) :
        store[a][p] # None => store'[a][p] = store[a][p]

(* What is known of a call stays true while others write.                  *)
LEMMA UntouchedCall ==
    ASSUME Typed, Grows, NEW d \in Calls, call[d] # None, CallConsistent(d),
           call'[d] = call[d]
    PROVE  CallConsistent(d)'
<1>1. call[d].attempt \in Attempts
  BY RecordOfCall
<1>2. ASSUME NEW p \in Objects(call[d].attempt), call[d].content # None, StoredPart(d, p)
      PROVE  StoredPart(d, p)'
  BY <1>1, <1>2 DEF StoredPart, Grows
<1>3. Manifest \in Objects(call[d].attempt)
      /\ Parts(call[d].attempt) \subseteq Objects(call[d].attempt)
  BY DEF Objects
<1> QED
  BY <1>2, <1>3 DEF CallConsistent

LEMMA GrowsByAct ==
    ASSUME Typed, CallsConsistent, NEW c \in Calls, call[c] # None, Acts(c)
    PROVE  Grows
  BY WritesOfAct DEF Grows

(* The end of the uploads: with all parts stored the call goes on to the   *)
(* manifest, and with the manifest it is done.                             *)
LEMMA CallAfterAct ==
    ASSUME Typed, CallsConsistent, NEW c \in Calls, call[c] # None, Acts(c)
    PROVE  CallConsistent(c)'
<1> DEFINE a == call[c].attempt
<1>1. /\ call[c] \in CallRecord /\ a \in Attempts /\ CallConsistent(c)
      /\ call \in [Calls -> CallRecord \cup {None}]
  BY RecordOfCall DEF CallsConsistent, Typed
<1>2. Manifest \in Objects(a) /\ Parts(a) \subseteq Objects(a) /\ Manifest \notin Parts(a)
  BY DEF Objects, Manifest, Parts
<1>3. Grows
  BY GrowsByAct
<1>4. ASSUME NEW p \in Objects(a), call[c].content # None, StoredPart(c, p),
             call'[c].attempt = a, call'[c].content = call[c].content
      PROVE  StoredPart(c, p)'
  BY <1>1, <1>3, <1>4 DEF StoredPart, Grows
<1>n. None \notin Failures \cup {"done", "saturated"}
  BY NoneAssumption
<1>5. CASE Refuses(c)
  <2>1. PICK answer \in {"fatal", "retryable", "saturated"} : Replies(c, answer)
    BY <1>5 DEF Refuses
  <2>2. /\ call'[c].phase = "answered" /\ call'[c].answer = answer
        /\ call'[c].content = call[c].content /\ call'[c].pending = call[c].pending
        /\ call'[c].attempt = a /\ call'[c].worker = call[c].worker
        /\ call[c].phase = "sent"
    BY <1>1, <2>1 DEF Replies, In, CallRecord
  <2> QED
    BY <1>1, <2>2 DEF CallConsistent
<1>6. ASSUME NEW answer \in Failures, Answers(c, answer),
             call[c].phase # "answered" PROVE CallConsistent(c)'
  <2>1. /\ call'[c].phase = "answered" /\ call'[c].answer = answer
        /\ call'[c].content = call[c].content /\ call'[c].pending = call[c].pending
        /\ call'[c].attempt = a /\ call'[c].worker = call[c].worker
    BY <1>1, <1>6 DEF Answers, CallRecord
  <2>2. answer # "done" /\ answer # "saturated"
    BY DEF Failures
  <2>3. call[c].worker # "verified"
    BY <1>1, <1>6, <1>n DEF CallConsistent
  <2> QED
    BY <1>1, <2>1, <2>2, <2>3 DEF CallConsistent
<1>7. CASE Breaks(c) \/ UploadsDrained(c) \/ UploadsAbandoned(c)
  <2>1. \E answer \in Failures : Answers(c, answer)
    BY <1>1, <1>7 DEF Breaks, Fails, Failures, UploadsDrained, UploadsAbandoned, CallRecord
  <2>2. call[c].phase # "answered"
    BY <1>7 DEF Breaks, Fails, UploadsDrained, UploadsAbandoned, In
  <2> QED
    BY <1>6, <2>1, <2>2
<1>8. CASE \E result \in Results : Mark(c, result)
  <2> PICK result \in Results : Mark(c, result)
    BY <1>8
  <2>1. call[c].phase = "marking"
    BY DEF Mark, In
  <2>2. CASE result # "stored"
    <3>1. result \in Failures /\ Answers(c, result)
      BY <2>2 DEF Mark, Results, Failures
    <3> QED
      BY <1>6, <2>1, <3>1
  <2>3. CASE result = "stored"
    <3>1. /\ call'[c].phase = "answered" /\ call'[c].answer = "done"
          /\ call'[c].content = call[c].content /\ call'[c].pending = call[c].pending
          /\ call'[c].attempt = a /\ call'[c].worker = call[c].worker
          /\ call'[c].failures = call[c].failures
      BY <1>1, <2>3 DEF Mark, Answers, CallRecord
    <3>2. store'[a][Manifest] = call[c].content
      BY <1>2, <2>3, PutsWrites DEF Mark
    <3>3. /\ call[c].content # None /\ call[c].failures = {}
          /\ \A p \in Parts(a) : StoredPart(c, p)
      BY <1>1, <2>1 DEF CallConsistent
    <3>4. \A p \in Parts(a) : StoredPart(c, p)'
      BY <1>2, <1>4, <3>1, <3>3
    <3>5. StoredPart(c, Manifest)'
      BY <3>1, <3>2 DEF StoredPart
    <3> QED
      BY <1>1, <3>1, <3>3, <3>4, <3>5 DEF CallConsistent
  <2> QED
    BY <2>2, <2>3
<1>9. CASE Admit(c)
  <2>1. /\ call'[c].phase = "executing" /\ call'[c].content = ContentOf(c)
        /\ call'[c].answer = call[c].answer /\ call'[c].pending = call[c].pending
        /\ call'[c].attempt = a /\ call'[c].worker = call[c].worker
        /\ call'[c].failures = call[c].failures /\ call[c].phase = "sent"
    BY <1>1, <1>9 DEF Admit, In, CallRecord
  <2>2. ContentOf(c) # None
    BY NoneAssumption DEF ContentOf, Contents, Typed, TypeOK
  <2> QED
    BY <1>1, <1>n, <2>1, <2>2 DEF CallConsistent
<1>10. CASE Produce(c)
  <2>1. /\ call'[c].phase = "uploading" /\ call'[c].content = call[c].content
        /\ call'[c].answer = call[c].answer /\ call'[c].pending = Parts(a)
        /\ call'[c].attempt = a /\ call'[c].worker = call[c].worker
        /\ call'[c].failures = call[c].failures /\ call[c].phase = "executing"
    BY <1>1, <1>10 DEF Produce, In, CallRecord
  <2> QED
    BY <1>1, <1>n, <2>1 DEF CallConsistent
<1>11. CASE \E p \in Objects(call[c].attempt), result \in Results : UploadPart(c, p, result)
  <2> PICK q \in Objects(call[c].attempt), result \in Results : UploadPart(c, q, result)
    BY <1>11
  <2>1. /\ call'[c].phase = call[c].phase /\ call'[c].content = call[c].content
        /\ call'[c].answer = call[c].answer /\ call'[c].pending = call[c].pending \ {q}
        /\ call'[c].attempt = a /\ call'[c].worker = call[c].worker
        /\ call'[c].failures = IF result = "stored" THEN call[c].failures
                               ELSE call[c].failures \cup {<<q, result>>}
        /\ call[c].phase = "uploading"
    BY <1>1 DEF UploadPart, In, CallRecord
  <2>2. ASSUME NEW p \in Parts(a)
        PROVE  \/ p \in call'[c].pending
               \/ \E f \in call'[c].failures : f[1] = p
               \/ StoredPart(c, p)'
    <3>1. CASE p = q /\ result = "stored"
      <4>1. store'[a][p] = call[c].content
        BY <3>1, PutsWrites DEF UploadPart
      <4> QED
        BY <2>1, <4>1 DEF StoredPart
    <3>2. CASE p = q /\ result # "stored"
      <4>1. <<q, result>> \in call'[c].failures
        BY <2>1, <3>2
      <4>2. <<q, result>>[1] = p
        BY <3>2
      <4> QED
        BY <4>1, <4>2
    <3>3. CASE p # q
      <4>1. p \in call[c].pending \/ (\E f \in call[c].failures : f[1] = p) \/ StoredPart(c, p)
        BY <1>1, <2>1 DEF CallConsistent
      <4>2. CASE StoredPart(c, p)
        BY <1>1, <1>2, <1>4, <2>1, <4>2 DEF CallConsistent
      <4>3. CASE p \in call[c].pending \/ \E f \in call[c].failures : f[1] = p
        BY <2>1, <3>3, <4>3
      <4> QED
        BY <4>1, <4>2, <4>3
    <3> QED
      BY <3>1, <3>2, <3>3
  <2> QED
    BY <1>1, <1>n, <2>1, <2>2 DEF CallConsistent
<1>12. CASE \E p \in Objects(call[c].attempt) : StrayUpload(c, p)
  <2> PICK q \in Objects(call[c].attempt) : StrayUpload(c, q)
    BY <1>12
  <2>1. /\ call'[c].phase = call[c].phase /\ call'[c].content = call[c].content
        /\ call'[c].answer = call[c].answer /\ call'[c].pending = call[c].pending \ {q}
        /\ call'[c].attempt = a /\ call'[c].worker = call[c].worker
        /\ call'[c].failures = call[c].failures /\ call[c].phase = "answered"
    BY <1>1 DEF StrayUpload, In, CallRecord
  <2>2. ASSUME call[c].answer = "done", NEW p \in Objects(a) PROVE StoredPart(c, p)'
    BY <1>1, <1>2, <1>4, <2>1, <2>2 DEF CallConsistent, Objects
  <2> QED
    BY <1>1, <1>2, <2>1, <2>2 DEF CallConsistent
<1>13. CASE PartsStored(c)
  <2>1. /\ call'[c].phase = "marking" /\ call'[c].content = call[c].content
        /\ call'[c].answer = call[c].answer /\ call'[c].pending = call[c].pending
        /\ call'[c].attempt = a /\ call'[c].worker = call[c].worker
        /\ call'[c].failures = call[c].failures
        /\ call[c].phase = "uploading" /\ call[c].pending = {} /\ call[c].failures = {}
    BY <1>1, <1>13 DEF PartsStored, In, CallRecord
  <2>2. call[c].content # None /\ \A p \in Parts(a) : StoredPart(c, p)
    BY <1>1, <2>1 DEF CallConsistent
  <2>3. \A p \in Parts(a) : StoredPart(c, p)'
    BY <1>2, <1>4, <2>1, <2>2
  <2> QED
    BY <1>1, <1>n, <2>1, <2>2, <2>3 DEF CallConsistent
<1>14. CASE InputMissing(c)
  <2>1. /\ call'[c].phase = "dead" /\ call'[c].content = call[c].content
        /\ call'[c].answer = call[c].answer /\ call'[c].pending = call[c].pending
        /\ call'[c].attempt = a /\ call'[c].worker = "gone"
        /\ call[c].phase \in {"sent", "marking"}
    BY <1>1, <1>14 DEF InputMissing, In, CallRecord
  <2> QED
    BY <1>1, <1>n, <2>1 DEF CallConsistent
<1>15. CASE Leaves(c) \/ Register(c) \/ Verify(c)
  <2>1. /\ call'[c].phase = call[c].phase /\ call'[c].content = call[c].content
        /\ call'[c].answer = call[c].answer /\ call'[c].pending = call[c].pending
        /\ call'[c].attempt = a /\ call'[c].failures = call[c].failures
        /\ \/ call'[c].worker = "gone"
           \/ call'[c].worker = "verified" /\ call[c].answer = "done"
    BY <1>1, <1>15 DEF Leaves, Register, Settles, Verify, Hears, CallRecord
  <2>2. ASSUME NEW p \in Objects(a), call[c].content # None, StoredPart(c, p)
        PROVE  StoredPart(c, p)'
    BY <1>4, <2>1, <2>2
  <2> QED
    BY <1>1, <1>2, <2>1, <2>2 DEF CallConsistent
<1> QED
  BY <1>5, <1>7, <1>8, <1>9, <1>10, <1>11, <1>12, <1>13, <1>14, <1>15 DEF Acts

LEMMA ConsistentAfterAct ==
    ASSUME Typed, CallsConsistent, NEW c \in Calls, call[c] # None, Acts(c)
    PROVE  CallsConsistent'
<1> SUFFICES ASSUME NEW d \in Calls, call'[d] # None PROVE CallConsistent(d)'
  BY DEF CallsConsistent
<1>1. CASE d = c
  BY <1>1, CallAfterAct
<1>2. CASE d # c
  <2>1. call'[d] = call[d] /\ call[d] # None /\ CallConsistent(d)
    BY <1>2, CallsOfAct DEF CallsConsistent
  <2> QED
    BY <2>1, GrowsByAct, UntouchedCall
<1> QED
  BY <1>1, <1>2

(* A slot is taken with the execution and given back with its end.         *)
Slotted(k) == k.phase \in {"executing", "uploading", "marking"}

LEMMA SlotOfAct ==
    ASSUME Typed, NEW c \in Calls, call[c] # None, Acts(c)
    PROVE  IF call[c].attempt \notin Speech THEN active' = active
           ELSE \/ active' = active /\ (Slotted(call[c]) <=> Slotted(call'[c]))
                \/ /\ ~Slotted(call[c]) /\ Slotted(call'[c])
                   /\ active < Capacity /\ active' = active + 1
                \/ /\ Slotted(call[c]) /\ ~Slotted(call'[c])
                   /\ active' = active - 1
<1>1. call[c] \in CallRecord /\ call \in [Calls -> CallRecord \cup {None}]
  BY RecordOfCall DEF Typed
<1>2. CASE \E answer : Answers(c, answer) /\ Slotted(call[c])
  <2>1. call'[c].phase = "answered" /\ active' = Freed(c, "done")
    BY <1>1, <1>2 DEF Answers, Freed, CallRecord
  <2> QED
    BY <1>2, <2>1 DEF Freed, Slotted
<1>3. CASE Breaks(c) \/ UploadsDrained(c) \/ UploadsAbandoned(c)
           \/ \E result \in Results : Mark(c, result)
  <2>1. Slotted(call[c])
    BY <1>3 DEF Breaks, Fails, UploadsDrained, UploadsAbandoned, Mark, In, Slotted
  <2>2. \E answer : Answers(c, answer)
    BY <1>3 DEF Breaks, Fails, UploadsDrained, UploadsAbandoned, Mark
  <2> QED
    BY <1>2, <2>1, <2>2
<1>4. CASE Admit(c)
  <2>1. call[c].phase = "sent" /\ call'[c].phase = "executing"
    BY <1>1, <1>4 DEF Admit, In, CallRecord
  <2> QED
    BY <1>4, <2>1 DEF Admit, Slotted
<1>5. CASE Refuses(c)
  <2>1. call[c].phase = "sent" /\ call'[c].phase = "answered" /\ active' = active
    BY <1>1, <1>5 DEF Refuses, Replies, In, CallRecord
  <2> QED
    BY <2>1 DEF Slotted
<1>6. CASE Produce(c) \/ PartsStored(c)
  <2>1. /\ call[c].phase \in {"executing", "uploading"} /\ active' = active
        /\ call'[c].phase \in {"uploading", "marking"}
    BY <1>1, <1>6 DEF Produce, PartsStored, In, CallRecord
  <2> QED
    BY <2>1 DEF Slotted
<1>7. CASE InputMissing(c)
  <2>1. call'[c].phase = "dead" /\ active' = active
        /\ (call[c].attempt \notin Local => call[c].phase = "sent")
    BY <1>1, <1>7 DEF InputMissing, In, CallRecord
  <2>2. call[c].attempt \in Speech => call[c].attempt \notin Local
    BY ExecutionAssumption
  <2> QED
    BY <2>1, <2>2 DEF Slotted
<1>8. CASE \/ \E p \in Objects(call[c].attempt), result \in Results : UploadPart(c, p, result)
           \/ \E p \in Objects(call[c].attempt) : StrayUpload(c, p)
  <2>1. active' = active /\ call'[c].phase = call[c].phase
    BY <1>1, <1>8 DEF UploadPart, StrayUpload, CallRecord
  <2> QED
    BY <2>1 DEF Slotted
<1>9. CASE Leaves(c) \/ Verify(c) \/ Register(c)
  <2>1. active' = active /\ call'[c].phase = call[c].phase
    BY <1>1, <1>9 DEF Leaves, Verify, Hears, Register, Settles, CallRecord
  <2> QED
    BY <2>1 DEF Slotted
<1> QED
  BY <1>3, <1>4, <1>5, <1>6, <1>7, <1>8, <1>9 DEF Acts

LEMMA SlotsAfterAct ==
    ASSUME Typed, SlotsCounted, NEW c \in Calls, call[c] # None, Acts(c)
    PROVE  SlotsCounted' /\ active' \in 0 .. Capacity
<1>1. active \in 0 .. Capacity /\ Capacity \in Nat
  BY ExecutionAssumption DEF Typed, TypeOK
<1>2. \A d \in Calls \ {c} : d \in Running' <=> d \in Running
  BY CallsOfAct DEF Running
<1>3. c \in Running' <=> call[c].attempt \in Speech /\ Slotted(call'[c])
  BY CallsOfAct DEF Running, Slotted
<1>4. c \in Running <=> call[c].attempt \in Speech /\ Slotted(call[c])
  BY DEF Running, Slotted
<1>5. Running \subseteq Calls /\ Running' \subseteq Calls
  BY DEF Running
<1>6. CASE active' = active /\ (c \in Running' <=> c \in Running)
  <2>1. Running' = Running
    BY <1>2, <1>5, <1>6
  <2> QED
    BY <1>1, <1>6, <2>1 DEF SlotsCounted
<1>7. CASE c \in Running' /\ c \notin Running /\ active < Capacity /\ active' = active + 1
  <2>1. Running' = Running \cup {c}
    BY <1>2, <1>5, <1>7
  <2>2. IsFiniteSet(Running') /\ Cardinality(Running') = Cardinality(Running) + 1
    BY <1>7, <2>1, FS_AddElement DEF SlotsCounted
  <2> QED
    BY <1>1, <1>7, <2>2 DEF SlotsCounted
<1>8. CASE c \notin Running' /\ c \in Running /\ active' = active - 1
  <2>1. Running' = Running \ {c}
    BY <1>2, <1>5, <1>8
  <2>2. IsFiniteSet(Running') /\ Cardinality(Running') = Cardinality(Running) - 1
    BY <1>8, <2>1, FS_RemoveElement DEF SlotsCounted
  <2>3. Cardinality(Running') \in Nat
    BY <2>2, FS_CardinalityType
  <2> QED
    BY <1>1, <1>8, <2>2, <2>3 DEF SlotsCounted
<1> QED
  BY <1>3, <1>4, <1>6, <1>7, <1>8, SlotOfAct

(* A call meets a conflict when it uploads and finds another object.       *)
LEMMA ConflictOfAct ==
    ASSUME Typed, CallsConsistent, NEW c \in Calls, call[c] # None, Acts(c),
           ~Conflicts(call[c]), Conflicts(call'[c])
    PROVE  /\ call[c].content # None
           /\ call'[c].content = call[c].content
           /\ ~Turned(c)
           /\ \E p \in Objects(call[c].attempt) : ~Matches(c, p)
<1>1. /\ call[c] \in CallRecord /\ call \in [Calls -> CallRecord \cup {None}]
      /\ CallConsistent(c)
  BY RecordOfCall DEF Typed, CallsConsistent
<1>2. CASE \E p \in Objects(call[c].attempt), result \in Results : UploadPart(c, p, result)
  <2> PICK q \in Objects(call[c].attempt), result \in Results : UploadPart(c, q, result)
    BY <1>2
  <2>1. /\ call'[c].content = call[c].content /\ call'[c].answer = call[c].answer
        /\ call'[c].failures = IF result = "stored" THEN call[c].failures
                               ELSE call[c].failures \cup {<<q, result>>}
        /\ call[c].phase = "uploading"
    BY <1>1 DEF UploadPart, In, CallRecord
  <2>2. result = "conflict"
    BY <2>1 DEF Conflicts
  <2>3. ~Matches(c, q)
    BY <2>2, PutsWrites DEF UploadPart
  <2> QED
    BY <1>1, <2>1, <2>3 DEF CallConsistent, Turned
<1>3. CASE \E result \in Results : Mark(c, result)
  <2> PICK result \in Results : Mark(c, result)
    BY <1>3
  <2>1. /\ call'[c].content = call[c].content /\ call'[c].failures = call[c].failures
        /\ call'[c].answer = IF result = "stored" THEN "done" ELSE result
        /\ call[c].phase = "marking"
    BY <1>1 DEF Mark, Answers, In, CallRecord
  <2>2. result = "conflict"
    BY <2>1 DEF Conflicts, Results
  <2>3. Manifest \in Objects(call[c].attempt) /\ ~Matches(c, Manifest)
    BY <2>2, PutsWrites DEF Mark, Objects
  <2> QED
    BY <1>1, <2>1, <2>3 DEF CallConsistent, Turned
<1>4. CASE \E f \in call[c].failures : Answers(c, f[2])
  <2>1. PICK f \in call[c].failures : Answers(c, f[2])
    BY <1>4
  <2>2. call'[c].failures = call[c].failures /\ call'[c].answer = f[2]
    BY <1>1, <2>1 DEF Answers, CallRecord
  <2> QED
    BY <2>2 DEF Conflicts
<1>5. CASE UploadsDrained(c) \/ UploadsAbandoned(c)
  BY <1>4, <1>5 DEF UploadsDrained, UploadsAbandoned
<1>6. CASE \/ Refuses(c) \/ Breaks(c)
  <2>1. PICK answer \in {"fatal", "retryable", "saturated"} :
           call' = [call EXCEPT ![c].phase = "answered", ![c].answer = answer]
    BY <1>6 DEF Refuses, Replies, Breaks, Fails, Answers
  <2>2. call'[c].failures = call[c].failures /\ call'[c].answer # "conflict"
    BY <1>1, <2>1 DEF CallRecord
  <2> QED
    BY <2>2 DEF Conflicts
<1>7. CASE \/ Admit(c) \/ Produce(c) \/ PartsStored(c) \/ InputMissing(c) \/ Leaves(c)
           \/ Verify(c) \/ Register(c)
           \/ \E p \in Objects(call[c].attempt) : StrayUpload(c, p)
  <2>1. call'[c].failures = call[c].failures /\ call'[c].answer = call[c].answer
    BY <1>1, <1>7 DEF Admit, Produce, PartsStored, InputMissing, Leaves, Verify, Register,
                      Settles, StrayUpload, CallRecord
  <2> QED
    BY <2>1 DEF Conflicts
<1> QED
  BY <1>2, <1>3, <1>5, <1>6, <1>7 DEF Acts

(* The acts of a call keep the invariant.                                  *)
LEMMA ActKeepsInv ==
    ASSUME ExecutionInv, NEW c \in Calls, call[c] # None, Acts(c)
    PROVE  ExecutionInv'
<1> DEFINE b == call[c].attempt
<1>1. Typed /\ CallsConsistent /\ CallConsistent(c) /\ SlotsCounted /\ OneRuns
  BY DEF ExecutionInv, CallsConsistent
<1>2. b \in Attempts
  BY <1>1, RecordOfCall
<1>3. Grows
  BY <1>1, GrowsByAct
<1>4. Typed'
  <2>1. \A d \in Calls : call'[d] # None => call'[d] \in CallRecord
    BY <1>1, CallsOfAct
  <2>2. deployed' \in Versions
    BY <1>1, StatusOfAct DEF Typed, TypeOK
  <2>3. active' \in 0 .. Capacity
    BY <1>1, SlotsAfterAct
  <2>4. /\ \A a \in Attempts : store'[a] \in [Objects(a) -> Contents \cup {None}]
        /\ store' = [a \in Attempts |-> store'[a]]
    BY <1>1, WritesOfAct
  <2>5. /\ status' \in [Attempts -> {"queued", "running", "succeeded", "failed"}]
        /\ owner' \in [Attempts -> Calls \cup {None}]
        /\ registered' \in [Attempts -> Contents \cup {None}]
        /\ faults' \in 0 .. MaxFaults
    BY <1>1, StatusOfAct
  <2> QED
    BY <1>1, CallsOfAct, <2>1, <2>2, <2>3, <2>4, <2>5 DEF Typed, TypeOK
<1>5. CallsConsistent' /\ SlotsCounted'
  BY <1>1, ConsistentAfterAct, SlotsAfterAct
<1>6. ASSUME NEW d \in Calls, call[d] # None
      PROVE  /\ call'[d] # None /\ call'[d].attempt = call[d].attempt
             /\ call[d].content # None => call'[d].content = call[d].content
             /\ Turned(d) => Turned(d)'
  <2>1. CASE d # c
    <3>1. call'[d] = call[d]
      BY <1>1, <2>1, CallsOfAct
    <3> QED
      BY <1>6, <3>1 DEF Turned
  <2>2. CASE d = c
    <3>1. call[c].content # None => call[c].phase # "sent"
      BY <1>1 DEF CallConsistent
    <3>2. ASSUME Turned(c) PROVE Turned(c)'
      <4>1. call[c].phase = "answered" /\ call[c] \in CallRecord
            /\ call \in [Calls -> CallRecord \cup {None}]
        BY <1>1, <3>2, RecordOfCall DEF Turned, Typed
      <4>2. \/ \E p \in Objects(b) : StrayUpload(c, p)
            \/ Leaves(c) \/ Verify(c) \/ Register(c)
        BY <4>1 DEF Acts, Refuses, Replies, Admit, Breaks, Fails, Produce, UploadPart,
             UploadsDrained, UploadsAbandoned, PartsStored, Mark, InputMissing, In
      <4>3. call'[c].phase = call[c].phase /\ call'[c].answer = call[c].answer
        BY <4>1, <4>2 DEF StrayUpload, Leaves, Verify, Register, Settles, CallRecord
      <4> QED
        BY <3>2, <4>3 DEF Turned
    <3> QED
      BY <1>1, <2>2, <3>1, <3>2, CallsOfAct
  <2> QED
    BY <2>1, <2>2
<1>7. \A d \in Calls : call'[d] # None => call[d] # None
  BY <1>1, CallsOfAct
<1>8. OneRuns'
  <2> SUFFICES ASSUME NEW d \in Calls, call'[d] # None, call'[d].attempt \notin Media
               PROVE  /\ Waiting(call[d].attempt, d)' => Turned(d)'
                      /\ \A e \in Calls \ {d} :
                           call'[e] # None /\ call'[e].attempt = call'[d].attempt =>
                             Turned(d)' \/ Turned(e)'
    BY DEF OneRuns
  <2>1. call[d] # None /\ call'[d].attempt = call[d].attempt
    BY <1>6, <1>7
  <2>2. ASSUME NEW e \in Calls \ {d}, call'[e] # None, call'[e].attempt = call'[d].attempt
        PROVE  Turned(d)' \/ Turned(e)'
    <3>1. call[e] # None /\ call'[e].attempt = call[e].attempt
      BY <1>6, <1>7, <2>2
    <3>2. Turned(d) \/ Turned(e)
      BY <1>1, <2>1, <2>2, <3>1 DEF OneRuns
    <3> QED
      BY <1>6, <2>1, <3>1, <3>2
  <2>3. ASSUME Waiting(call[d].attempt, d)' PROVE Turned(d)'
    <3>1. call[d].attempt \in Attempts /\ call'[d].attempt = call[d].attempt
      BY <1>1, <2>1, RecordOfCall
    <3>2. CASE Waiting(call[d].attempt, d)
      BY <1>1, <1>6, <2>1, <3>2 DEF OneRuns
    <3>3. CASE ~Waiting(call[d].attempt, d)
      <4>1. status'[call[d].attempt] # status[call[d].attempt]
            \/ owner'[call[d].attempt] # owner[call[d].attempt]
        BY <2>3, <3>1, <3>3 DEF Waiting
      <4>2. /\ status[call[d].attempt] = "running" /\ owner[call[d].attempt] = c
            /\ status'[call[d].attempt] = "queued" /\ Turned(c)
        BY <1>1, <2>3, <3>1, <4>1, StatusOfAct DEF Waiting
      <4>3. d = c
        BY <3>3, <4>2 DEF Waiting
      <4> QED
        BY <1>6, <4>2, <4>3
    <3> QED
      BY <3>2, <3>3
  <2> QED
    BY <2>1, <2>2, <2>3
<1>9. ObjectsHaveCalls'
  <2> SUFFICES ASSUME NEW a \in Attempts, NEW p \in Objects(a), store'[a][p] # None
               PROVE  \E d \in Calls : /\ call'[d] # None /\ call'[d].attempt = a
                                       /\ call'[d].content = store'[a][p]
    BY DEF ObjectsHaveCalls
  <2>1. CASE store'[a][p] = store[a][p]
    <3>1. PICK d \in Calls : call[d] # None /\ call[d].attempt = a
                             /\ call[d].content = store[a][p]
      BY <2>1 DEF ExecutionInv, ObjectsHaveCalls
    <3> QED
      BY <1>6, <2>1, <3>1
  <2>2. CASE store'[a][p] # store[a][p]
    <3>1. a = b /\ store'[a][p] = call[c].content
      BY <1>1, <2>2, WritesOfAct
    <3> QED
      BY <1>6, <3>1
  <2> QED
    BY <2>1, <2>2
<1>10. ManifestIsMarker'
  <2> SUFFICES ASSUME NEW a \in Attempts, store'[a][Manifest] # None, NEW p \in Parts(a)
               PROVE  store'[a][p] = store'[a][Manifest]
    BY DEF ManifestIsMarker
  <2>1. Manifest \in Objects(a) /\ p \in Objects(a)
    BY DEF Objects
  <2>2. CASE store'[a][Manifest] = store[a][Manifest]
    <3>1. store[a][p] = store[a][Manifest]
      BY <2>2 DEF ExecutionInv, ManifestIsMarker
    <3> QED
      BY <1>3, <2>1, <2>2, <3>1 DEF Grows
  <2>3. CASE store'[a][Manifest] # store[a][Manifest]
    <3>1. a = b /\ store'[a][Manifest] = call[c].content /\ call[c].phase = "marking"
      BY <1>1, <2>1, <2>3, WritesOfAct
    <3>2. store[a][p] = call[c].content /\ call[c].content # None
      BY <1>1, <3>1 DEF CallConsistent, StoredPart
    <3> QED
      BY <1>3, <2>1, <3>1, <3>2 DEF Grows
  <2> QED
    BY <2>2, <2>3
<1>11. RegisteredIsStored'
  <2> SUFFICES ASSUME NEW a \in Attempts, registered'[a] # None
               PROVE  /\ status'[a] = "succeeded"
                      /\ \A p \in Objects(a) : store'[a][p] = registered'[a]
    BY DEF RegisteredIsStored
  <2>1. CASE registered'[a] = registered[a]
    <3>1. status[a] = "succeeded" /\ \A p \in Objects(a) : store[a][p] = registered[a]
      BY <2>1 DEF ExecutionInv, RegisteredIsStored
    <3>2. status'[a] = "succeeded"
      BY <1>1, <3>1, StatusOfAct
    <3> QED
      BY <1>3, <2>1, <3>1, <3>2 DEF Grows
  <2>2. CASE registered'[a] # registered[a]
    <3>1. /\ a = b /\ status'[a] = "succeeded" /\ registered'[a] = call[c].content
          /\ call[c].worker = "verified"
      BY <1>1, <2>2, StatusOfAct
    <3>2. call[c].content # None /\ \A p \in Objects(a) : StoredPart(c, p)
      BY <1>1, <3>1 DEF CallConsistent, Objects
    <3> QED
      BY <1>3, <3>1, <3>2 DEF Grows, StoredPart
  <2> QED
    BY <2>1, <2>2
<1>12. OnlyReleasesConflict'
  <2> SUFFICES ASSUME NEW d \in Calls, call'[d] # None, Conflicts(call'[d])
               PROVE  /\ call'[d].attempt \in Media
                      /\ \E e \in Calls : /\ call'[e] # None
                                          /\ call'[e].attempt = call'[d].attempt
                                          /\ call'[e].content \notin {None, call'[d].content}
    BY DEF OnlyReleasesConflict
  <2>1. call[d] # None /\ call'[d].attempt = call[d].attempt
    BY <1>6, <1>7
  <2>2. CASE Conflicts(call[d])
    <3>1. call[d].attempt \in Media
      BY <2>1, <2>2 DEF ExecutionInv, OnlyReleasesConflict
    <3>2. PICK e \in Calls : /\ call[e] # None /\ call[e].attempt = call[d].attempt
                             /\ call[e].content \notin {None, call[d].content}
      BY <2>1, <2>2 DEF ExecutionInv, OnlyReleasesConflict
    <3>3. call[d].phase # "sent"
      BY <1>1, <2>1, <2>2, NoneAssumption
         DEF Conflicts, CallsConsistent, CallConsistent, Failures
    <3>4. call'[d].content = call[d].content
      BY <1>1, <2>1, <3>3, CallsOfAct
    <3> QED
      BY <1>6, <2>1, <3>1, <3>2, <3>4
  <2>3. CASE ~Conflicts(call[d])
    <3>1. d = c /\ \E p \in Objects(b) : ~Matches(c, p) /\ call[c].content # None
                   /\ call'[c].content = call[c].content /\ ~Turned(c)
      BY <1>1, <2>1, <2>3, ConflictOfAct, CallsOfAct
    <3>2. PICK p \in Objects(b) : ~Matches(c, p)
      BY <3>1
    <3>3. store[b][p] # None /\ store[b][p] # call[c].content
      BY <3>2 DEF Matches
    <3>4. PICK e \in Calls : /\ call[e] # None /\ call[e].attempt = b
                             /\ call[e].content = store[b][p]
      BY <1>2, <3>3 DEF ExecutionInv, ObjectsHaveCalls
    <3>5. ~Turned(e)
      BY <1>1, <3>3, <3>4 DEF Turned, CallsConsistent, CallConsistent
    <3>6. b \in Media
      BY <1>1, <3>1, <3>3, <3>4, <3>5 DEF OneRuns
    <3> QED
      BY <1>6, <2>1, <3>1, <3>3, <3>4, <3>6
  <2> QED
    BY <2>2, <2>3
<1> QED
  BY <1>4, <1>5, <1>8, <1>9, <1>10, <1>11, <1>12 DEF ExecutionInv

(* A new call has done nothing yet; the characters' starts with what it    *)
(* has to store, which is no part.                                         *)
LEMMA StartKeepsInv ==
    ASSUME ExecutionInv, NEW c \in Calls, NEW a \in Attempts, Claim(c, a) \/ Reclaim(c, a)
    PROVE  ExecutionInv'
<1> DEFINE k == IF a \in Local THEN Resolved(a) ELSE Request(a)
<1>1. /\ Typed /\ CallsConsistent /\ OneRuns /\ ObjectsHaveCalls /\ SlotsCounted
      /\ ManifestIsMarker /\ RegisteredIsStored /\ OnlyReleasesConflict
      /\ call \in [Calls -> CallRecord \cup {None}]
  BY DEF ExecutionInv, Typed
<1>2. /\ call[c] = None /\ call' = [call EXCEPT ![c] = k]
      /\ status' = [status EXCEPT ![a] = "running"]
      /\ owner' = [owner EXCEPT ![a] = c]
      /\ UNCHANGED <<registered, store, active, deployed>>
      /\ status[a] = "queued" \/ (status[a] = "running" /\ a \in Media)
      /\ faults' = faults \/ Fault
  BY DEF Claim, Reclaim, Starts
<1>3. /\ k.attempt = a /\ k.worker = "waiting" /\ k.pending = {} /\ k.failures = {}
      /\ k.answer = None
      /\ IF a \in Local THEN k.phase = "marking" /\ k.content = "resolved"
                        ELSE k.phase = "sent" /\ k.content = None
  BY DEF Resolved, Request
<1>4. k \in CallRecord
  BY DEF Resolved, Request, CallRecord, Contents
<1>5. k # None
  BY <1>4, NoneAssumption
<1>6. call'[c] = k /\ \A d \in Calls \ {c} : call'[d] = call[d]
  BY <1>1, <1>2
<1>7. Typed'
  <2>1. faults' \in 0 .. MaxFaults
    BY <1>1, <1>2, ExecutionAssumption DEF Typed, TypeOK, Fault
  <2>2. call' \in [Calls -> CallRecord \cup {None}]
        /\ \A d \in Calls : call'[d] # None => call'[d] \in CallRecord
    BY <1>1, <1>2, <1>4
  <2> QED
    BY <1>1, <1>2, <2>1, <2>2 DEF Typed, TypeOK
<1>8. CallsConsistent'
  <2> SUFFICES ASSUME NEW d \in Calls, call'[d] # None PROVE CallConsistent(d)'
    BY DEF CallsConsistent
  <2>1. CASE d = c
    <3>1. a \in Local => Parts(a) = {}
      BY ExecutionAssumption DEF Parts
    <3>2. None \notin {"done", "saturated", "resolved"}
      BY NoneAssumption DEF Contents
    <3> QED
      BY <1>3, <1>6, <2>1, <3>1, <3>2 DEF CallConsistent
  <2>2. CASE d # c
    <3>1. call'[d] = call[d] /\ call[d] # None /\ CallConsistent(d)
      BY <1>1, <1>6, <2>2 DEF CallsConsistent
    <3> QED
      BY <1>2, <3>1 DEF CallConsistent, StoredPart
  <2> QED
    BY <2>1, <2>2
<1>9. OneRuns'
  <2>1. ASSUME NEW d \in Calls \ {c}, call'[d] # None, call'[d].attempt = a, a \notin Media
        PROVE  Turned(d)'
    <3>1. call'[d] = call[d]
      BY <1>6
    <3>2. Turned(d)
      BY <1>1, <1>2, <2>1, <3>1 DEF OneRuns, Waiting
    <3> QED
      BY <3>1, <3>2 DEF Turned
  <2> SUFFICES ASSUME NEW d \in Calls, call'[d] # None, call'[d].attempt \notin Media
               PROVE  /\ Waiting(call[d].attempt, d)' => Turned(d)'
                      /\ \A e \in Calls \ {d} :
                           call'[e] # None /\ call'[e].attempt = call'[d].attempt =>
                             Turned(d)' \/ Turned(e)'
    BY DEF OneRuns
  <2>2. CASE d = c
    <3>1. call'[d].attempt = a
      BY <1>3, <1>6, <2>2
    <3>2. ~Waiting(call[d].attempt, d)'
      BY <1>1, <1>2, <2>2, <3>1 DEF Waiting, Typed, TypeOK
    <3> QED
      BY <2>1, <2>2, <3>1, <3>2
  <2>3. CASE d # c /\ call'[d].attempt = a
    BY <2>1, <2>3
  <2>4. CASE d # c /\ call'[d].attempt # a
    <3>1. call'[d] = call[d]
      BY <1>6, <2>4
    <3>2. call[d].attempt \in Attempts
      BY <1>1, <3>1, RecordOfCall
    <3>3. status'[call[d].attempt] = status[call[d].attempt]
          /\ owner'[call[d].attempt] = owner[call[d].attempt]
      BY <1>1, <1>2, <2>4, <3>1, <3>2 DEF Typed, TypeOK
    <3>4. \A e \in Calls : call'[e].attempt = call'[d].attempt => call'[e] = call[e]
      BY <1>3, <1>6, <2>4
    <3> QED
      BY <1>1, <3>1, <3>3, <3>4 DEF OneRuns, Waiting, Turned
  <2> QED
    BY <2>2, <2>3, <2>4
<1>10. ObjectsHaveCalls'
  <2>1. \A d \in Calls : call[d] # None => call'[d] = call[d]
    BY <1>2, <1>6
  <2> QED
    BY <1>1, <1>2, <2>1 DEF ObjectsHaveCalls
<1>11. SlotsCounted'
  <2>1. c \notin Running' /\ c \notin Running
    BY <1>2, <1>3, <1>6, ExecutionAssumption DEF Running
  <2>2. Running' = Running
    BY <1>6, <2>1 DEF Running
  <2> QED
    BY <1>1, <1>2, <2>2 DEF SlotsCounted
<1>12. ManifestIsMarker'
  BY <1>1, <1>2 DEF ManifestIsMarker
<1>13. RegisteredIsStored'
  BY <1>1, <1>2 DEF RegisteredIsStored, Typed, TypeOK
<1>14. OnlyReleasesConflict'
  <2>1. ~Conflicts(k)
    BY <1>3, NoneAssumption DEF Conflicts, Failures
  <2>2. \A d \in Calls : call[d] # None => call'[d] = call[d]
    BY <1>2, <1>6
  <2>3. \A d \in Calls : call'[d] # None /\ Conflicts(call'[d]) =>
           call[d] # None /\ call'[d] = call[d]
    BY <1>6, <2>1
  <2> QED
    BY <1>1, <2>2, <2>3 DEF OnlyReleasesConflict
<1> QED
  BY <1>1, <1>7, <1>8, <1>9, <1>10, <1>11, <1>12, <1>13, <1>14 DEF ExecutionInv

LEMMA TimeOutKeepsInv ==
    ASSUME ExecutionInv, NEW a \in Attempts, TimeOut(a)
    PROVE  ExecutionInv'
<1>1. /\ status[a] = "running"
      /\ status' = [status EXCEPT ![a] = "failed"]
      /\ owner' = [owner EXCEPT ![a] = None]
      /\ UNCHANGED <<registered, store, call, active, deployed>>
  BY DEF TimeOut
<1>2. Typed'
  <2>1. faults' \in 0 .. MaxFaults
    BY ExecutionAssumption DEF TimeOut, Fault, ExecutionInv, Typed, TypeOK
  <2> QED
    BY <1>1, <2>1 DEF ExecutionInv, Typed, TypeOK
<1>3. CallsConsistent' /\ ObjectsHaveCalls' /\ SlotsCounted' /\ ManifestIsMarker'
      /\ OnlyReleasesConflict'
  BY <1>1 DEF ExecutionInv, CallsConsistent, CallConsistent, StoredPart, ObjectsHaveCalls,
              SlotsCounted, Running, ManifestIsMarker, OnlyReleasesConflict
<1>4. OneRuns'
  <2>1. \A c \in Calls : Waiting(call[c].attempt, c)' => Waiting(call[c].attempt, c)
    BY <1>1 DEF Waiting, ExecutionInv, Typed, TypeOK
  <2> QED
    BY <1>1, <2>1 DEF ExecutionInv, OneRuns, Turned
<1>5. RegisteredIsStored'
  BY <1>1 DEF ExecutionInv, RegisteredIsStored, Typed, TypeOK
<1> QED
  BY <1>2, <1>3, <1>4, <1>5 DEF ExecutionInv

(* A crash forgets what an execution was about to do, never what it did.   *)
LEMMA CrashKeepsInv ==
    ASSUME ExecutionInv, Crash
    PROVE  ExecutionInv'
<1>1. /\ Typed /\ CallsConsistent /\ OneRuns /\ ObjectsHaveCalls /\ SlotsCounted
      /\ ManifestIsMarker /\ RegisteredIsStored /\ OnlyReleasesConflict
  BY DEF ExecutionInv
<1>2. active' = 0 /\ UNCHANGED <<attemptVars, store, deployed>> /\ faults' \in 0 .. MaxFaults
  <2>1. active' = 0 /\ UNCHANGED <<attemptVars, store, deployed>>
    BY DEF Crash
  <2>2. faults < MaxFaults /\ faults' = faults + 1
    BY DEF Crash, Fault
  <2>3. faults \in 0 .. MaxFaults
    BY <1>1 DEF Typed, TypeOK
  <2> QED
    BY <2>1, <2>2, <2>3, ExecutionAssumption
<1>3. ASSUME NEW c \in Calls, call[c] # None
      PROVE  /\ call'[c] \in CallRecord /\ call'[c] # None
             /\ call'[c].attempt = call[c].attempt /\ call'[c].content = call[c].content
             /\ call'[c].worker = call[c].worker /\ call'[c].failures = call[c].failures
             /\ call'[c].answer = call[c].answer
             /\ call'[c].pending \in {call[c].pending, {}}
             /\ IF call[c].attempt \in Local \/ call[c].phase = "answered"
                THEN call'[c].phase = call[c].phase ELSE call'[c].phase = "dead"
             /\ call[c].attempt \in Local => call'[c] = call[c]
  <2>1. call[c] \in CallRecord
    BY <1>1, <1>3, RecordOfCall
  <2>2. call'[c] = IF call[c].attempt \in Local THEN call[c]
                   ELSE [call[c] EXCEPT !.pending = {},
                           !.phase = IF @ = "answered" THEN @ ELSE "dead"]
    BY <1>3 DEF Crash
  <2>3. CASE call[c].attempt \in Local
    BY <1>3, <2>1, <2>2, <2>3
  <2>4. CASE call[c].attempt \notin Local
    <3>1. call'[c] = [call[c] EXCEPT !.pending = {},
                        !.phase = IF call[c].phase = "answered" THEN "answered" ELSE "dead"]
      BY <2>2, <2>4
    <3>2. call'[c] \in CallRecord
      BY <2>1, <3>1 DEF CallRecord
    <3>3. call'[c] # None
      BY <3>2, NoneAssumption
    <3>4. /\ call'[c].attempt = call[c].attempt /\ call'[c].content = call[c].content
          /\ call'[c].worker = call[c].worker /\ call'[c].failures = call[c].failures
          /\ call'[c].answer = call[c].answer /\ call'[c].pending = {}
          /\ call'[c].phase = IF call[c].phase = "answered" THEN "answered" ELSE "dead"
      BY <2>1, <3>1 DEF CallRecord
    <3> QED
      BY <2>4, <3>2, <3>3, <3>4
  <2> QED
    BY <2>3, <2>4
<1>4. \A c \in Calls : call[c] = None => call'[c] = None
  BY DEF Crash
<1>5. call' \in [Calls -> CallRecord \cup {None}]
  <2>1. call' = [c \in Calls |-> call'[c]]
    BY DEF Crash
  <2> QED
    BY <1>3, <1>4, <2>1
<1>6. Typed'
  <2>1. active' \in 0 .. Capacity
    BY <1>2, ExecutionAssumption
  <2> QED
    BY <1>1, <1>2, <1>3, <1>4, <1>5, <2>1 DEF Typed, TypeOK, attemptVars
<1>7. CallsConsistent'
  <2> SUFFICES ASSUME NEW c \in Calls, call'[c] # None PROVE CallConsistent(c)'
    BY DEF CallsConsistent
  <2>1. call[c] # None /\ CallConsistent(c)
    BY <1>1, <1>4 DEF CallsConsistent
  <2>2. \A p : StoredPart(c, p)' <=> StoredPart(c, p)
    BY <1>2, <1>3, <2>1 DEF StoredPart
  <2>3. CASE call'[c].phase = call[c].phase
    <3>1. CASE call'[c].pending = call[c].pending
      BY <1>3, <2>1, <2>2, <2>3, <3>1 DEF CallConsistent
    <3>2. CASE call'[c].pending # call[c].pending
      <4>1. call'[c].pending = {} /\ call[c].phase \in {"answered", "dead"}
        BY <1>3, <2>1, <3>2, <2>3
      <4> QED
        BY <1>3, <2>1, <2>2, <2>3, <4>1 DEF CallConsistent
    <3> QED
      BY <3>1, <3>2
  <2>4. CASE call'[c].phase = "dead" /\ call[c].phase # "answered"
    <3>1. call'[c].answer = None /\ call[c].worker # "verified"
      BY <1>3, <2>1, <2>4, NoneAssumption DEF CallConsistent
    <3>2. None \notin {"done", "saturated"}
      BY NoneAssumption
    <3> QED
      BY <1>3, <2>1, <2>4, <3>1, <3>2 DEF CallConsistent
  <2> QED
    BY <1>3, <2>1, <2>3, <2>4
<1>8. OneRuns'
  <2>1. \A c \in Calls : call[c] # None /\ Turned(c) => Turned(c)'
    BY <1>3 DEF Turned
  <2>2. \A c \in Calls : call'[c] # None => /\ call[c] # None
                                           /\ call'[c].attempt = call[c].attempt
    BY <1>3, <1>4
  <2> SUFFICES ASSUME NEW c \in Calls, call'[c] # None, call'[c].attempt \notin Media
               PROVE  /\ Waiting(call[c].attempt, c)' => Turned(c)'
                      /\ \A d \in Calls \ {c} :
                           call'[d] # None /\ call'[d].attempt = call'[c].attempt =>
                             Turned(c)' \/ Turned(d)'
    BY DEF OneRuns
  <2>3. call[c] # None /\ call[c].attempt = call'[c].attempt
    BY <2>2
  <2>4. /\ Waiting(call[c].attempt, c) => Turned(c)
        /\ \A d \in Calls \ {c} :
             call[d] # None /\ call[d].attempt = call[c].attempt => Turned(c) \/ Turned(d)
    BY <1>1, <2>3 DEF OneRuns
  <2>5. Waiting(call[c].attempt, c)' => Waiting(call[c].attempt, c)
    BY <1>2, <2>3 DEF Waiting, attemptVars
  <2>6. ASSUME NEW d \in Calls \ {c}, call'[d] # None, call'[d].attempt = call'[c].attempt
        PROVE  Turned(c)' \/ Turned(d)'
    <3>1. call[d] # None /\ call[d].attempt = call[c].attempt
      BY <2>2, <2>3, <2>6
    <3> QED
      BY <2>1, <2>3, <2>4, <3>1
  <2> QED
    BY <2>1, <2>3, <2>4, <2>5, <2>6
<1>9. ObjectsHaveCalls'
  BY <1>1, <1>2, <1>3 DEF ObjectsHaveCalls
<1>10. SlotsCounted'
  <2>1. \A c \in Calls : call'[c] # None /\ call'[c].attempt \in Speech =>
           call'[c].phase \in {"answered", "dead"}
    BY <1>3, <1>4, ExecutionAssumption
  <2>2. Running' = {}
    BY <2>1 DEF Running
  <2> QED
    BY <1>2, <2>2, FS_EmptySet DEF SlotsCounted
<1>11. ManifestIsMarker' /\ RegisteredIsStored'
  BY <1>1, <1>2 DEF ManifestIsMarker, RegisteredIsStored, attemptVars
<1>12. OnlyReleasesConflict'
  BY <1>1, <1>3, <1>4 DEF OnlyReleasesConflict, Conflicts
<1> QED
  BY <1>6, <1>7, <1>8, <1>9, <1>10, <1>11, <1>12 DEF ExecutionInv

LEMMA InitInv == Init => ExecutionInv
<1> SUFFICES ASSUME Init PROVE ExecutionInv
  OBVIOUS
<1>1. \A c \in Calls : call[c] = None
  BY DEF Init
<1>2. \A a \in Attempts : \A p \in Objects(a) : store[a][p] = None
  BY DEF Init
<1>3. Typed
  <2>1. active \in 0 .. Capacity /\ faults \in 0 .. MaxFaults /\ deployed \in Versions
    BY ExecutionAssumption DEF Init
  <2>2. \A a \in Attempts : store[a] \in [Objects(a) -> Contents \cup {None}]
    BY DEF Init
  <2>3. call \in [Calls -> CallRecord \cup {None}] /\ store = [a \in Attempts |-> store[a]]
    BY DEF Init
  <2>4. /\ status \in [Attempts -> {"queued", "running", "succeeded", "failed"}]
        /\ owner \in [Attempts -> Calls \cup {None}]
        /\ registered \in [Attempts -> Contents \cup {None}]
    BY DEF Init
  <2> QED
    BY <1>1, <2>1, <2>2, <2>3, <2>4 DEF Typed, TypeOK
<1>4. SlotsCounted
  <2>1. Running = {}
    BY <1>1 DEF Running
  <2> QED
    BY <2>1, FS_EmptySet DEF SlotsCounted, Init
<1>5. ManifestIsMarker /\ ObjectsHaveCalls
  BY <1>2 DEF ManifestIsMarker, ObjectsHaveCalls, Objects
<1>6. RegisteredIsStored
  BY DEF Init, RegisteredIsStored
<1> QED
  BY <1>1, <1>3, <1>4, <1>5, <1>6
     DEF ExecutionInv, CallsConsistent, OneRuns, OnlyReleasesConflict

LEMMA NextInv == ExecutionInv /\ [Next]_vars => ExecutionInv'
<1> SUFFICES ASSUME ExecutionInv, [Next]_vars PROVE ExecutionInv'
  OBVIOUS
<1>1. CASE Next
  <2>1. ASSUME NEW v \in Versions, Deploy(v) PROVE ExecutionInv'
    <3>1. faults' \in 0 .. MaxFaults
      BY <2>1, ExecutionAssumption DEF Deploy, Fault, ExecutionInv, Typed, TypeOK
    <3>2. deployed' \in Versions /\ UNCHANGED <<status, owner, registered, store, call, active>>
      BY <2>1 DEF Deploy, attemptVars
    <3>3. Typed'
      BY <3>1, <3>2 DEF ExecutionInv, Typed, TypeOK
    <3> QED
      BY <3>2, <3>3 DEF ExecutionInv, CallsConsistent, CallConsistent, StoredPart,
        ObjectsHaveCalls, SlotsCounted, Running, ManifestIsMarker, OnlyReleasesConflict,
        OneRuns, Waiting, Turned, RegisteredIsStored
  <2> QED
    BY <1>1, <2>1, KindsOfSteps, StartKeepsInv, ActKeepsInv, TimeOutKeepsInv, CrashKeepsInv
<1>2. CASE UNCHANGED vars
  <2>1. UNCHANGED <<status, owner, registered, store, call, active, deployed, faults>>
    BY <1>2 DEF vars, attemptVars
  <2>2. Typed'
    BY <2>1 DEF ExecutionInv, Typed, TypeOK
  <2>3. CallsConsistent' /\ ObjectsHaveCalls' /\ ManifestIsMarker' /\ RegisteredIsStored'
    BY <2>1 DEF ExecutionInv, CallsConsistent, CallConsistent, StoredPart, ObjectsHaveCalls,
                ManifestIsMarker, RegisteredIsStored
  <2>4. OneRuns' /\ SlotsCounted' /\ OnlyReleasesConflict'
    BY <2>1 DEF ExecutionInv, OneRuns, Waiting, Turned, SlotsCounted, Running,
                OnlyReleasesConflict
  <2> QED
    BY <2>2, <2>3, <2>4 DEF ExecutionInv
<1> QED
  BY <1>1, <1>2

-----------------------------------------------------------------------------
(* The inductive invariant holds in every state.                           *)
THEOREM Invariance == Spec => []ExecutionInv
  BY InitInv, NextInv, PTL DEF Spec

(* The rows of a finished attempt describe what is in storage, for good:   *)
(* the worker registers what it has verified, and the conditional PUT of   *)
(* the executor leaves verified objects as they are.                       *)
THEOREM RegisteredIsStoredHolds == Spec => []RegisteredIsStored
<1>1. ExecutionInv => RegisteredIsStored
  BY DEF ExecutionInv
<1> QED
  BY <1>1, Invariance, PTL

(* Where there is a manifest, the parts it lists are there and are the     *)
(* ones it lists, however many executions share the prefix of the attempt. *)
THEOREM ManifestIsMarkerHolds == Spec => []ManifestIsMarker
<1>1. ExecutionInv => ManifestIsMarker
  BY DEF ExecutionInv
<1> QED
  BY <1>1, Invariance, PTL

(* Only two releases that prepared the same attempt can meet each other's  *)
(* objects: a speech attempt is called again only after a refusal.         *)
THEOREM OnlyReleasesConflictHolds == Spec => []OnlyReleasesConflict
<1>1. ExecutionInv => OnlyReleasesConflict
  BY DEF ExecutionInv
<1> QED
  BY <1>1, Invariance, PTL

(* The limiter counts the executions that are under way, for any capacity  *)
(* and number of calls: no end of one keeps or returns a slot twice.       *)
THEOREM SaturatedIsBusyHolds == Spec => []SaturatedIsBusy
<1>1. ExecutionInv => SaturatedIsBusy
  BY DEF ExecutionInv, Typed, SlotsCounted, Running, SaturatedIsBusy
<1> QED
  BY <1>1, Invariance, PTL

-----------------------------------------------------------------------------
(* Induction, from the least element of a set of naturals                  *)

LEMMA LessIsWellFounded == IsWellFoundedOn({p \in Nat \X Nat : p[1] < p[2]}, Nat)
BY NatLessThanWellFounded DEF OpToRel

LEMMA Least ==
    ASSUME NEW T \in SUBSET Nat, T # {}
    PROVE  \E m \in T : \A k \in T : m <= k
<1> DEFINE R == {p \in Nat \X Nat : p[1] < p[2]}
<1>1. IsWellFoundedOn(R, Nat)
  BY LessIsWellFounded
<1>2. \E m \in T : \A k \in T : <<k, m>> \notin R
  <2> HIDE DEF R
  <2> QED BY <1>1, WFMin
<1>3. \A k, m \in T : <<k, m>> \notin R => m <= k
  <2> SUFFICES ASSUME NEW k \in T, NEW m \in T, ~(m <= k) PROVE <<k, m>> \in R
    OBVIOUS
  <2>1. k \in Nat /\ m \in Nat /\ k < m
    OBVIOUS
  <2>2. <<k, m>> \in Nat \X Nat /\ <<k, m>>[1] < <<k, m>>[2]
    BY <2>1
  <2> QED BY <2>2
<1> HIDE DEF R
<1> QED BY <1>2, <1>3

LEMMA Induction ==
    ASSUME NEW S, 0 \in S, \A n \in Nat : n \in S => n + 1 \in S
    PROVE  \A n \in Nat : n \in S
<1> DEFINE T == {n \in Nat : n \notin S}
<1> SUFFICES ASSUME T # {} PROVE FALSE
  OBVIOUS
<1>1. PICK m \in T : \A k \in T : m <= k
  <2> HIDE DEF T
  <2>1. T \in SUBSET Nat BY DEF T
  <2> QED BY <2>1, Least
<1>2. m # 0 /\ m \in Nat
  OBVIOUS
<1>3. m - 1 \in Nat /\ m - 1 \in S
  BY <1>1, <1>2
<1> QED BY <1>2, <1>3

LEMMA InductionTo ==
    ASSUME NEW N \in Nat, NEW S, 0 \in S, \A n \in 0 .. N - 1 : n \in S => n + 1 \in S
    PROVE  \A n \in 0 .. N : n \in S
<1> DEFINE T == {n \in Nat : n <= N => n \in S}
<1>1. 0 \in T /\ \A n \in Nat : n \in T => n + 1 \in T
  OBVIOUS
<1>2. \A n \in Nat : n \in T
  <2> HIDE DEF T
  <2> QED BY <1>1, Induction
<1> QED BY <1>2

LEMMA Greatest ==
    ASSUME NEW N \in Nat, NEW T \in SUBSET (0 .. N), T # {}
    PROVE  /\ Max(T) \in T
           /\ \A k \in T : k <= Max(T)
<1> DEFINE D == {N - k : k \in T}
<1>1. D \in SUBSET Nat /\ D # {}
  <2>1. \A k \in T : k \in Int /\ N - k \in Nat
    OBVIOUS
  <2> QED BY <2>1
<1>2. PICK d \in D : \A k \in D : d <= k
  <2> HIDE DEF D
  <2> QED BY <1>1, Least
<1>3. PICK m \in T : d = N - m
  BY <1>2
<1>4. \A k \in T : m >= k
  BY <1>2, <1>3
<1> HIDE DEF D
<1> QED BY <1>3, <1>4 DEF Max

-----------------------------------------------------------------------------
(* Folds                                                                   *)

(* The recursive function of a fold over 1 .. N, as far as it has states.  *)
Folds(g, St, base, N, step) ==
    /\ g[{}] = base
    /\ \A s \in SUBSET (1 .. N) :
         s # {} /\ g[s \ {Max(s)}] \in St => g[s] = step[<<Max(s), g[s \ {Max(s)}]>>]

(* Its values for the prefixes of a sequence.                              *)
Runs(h, base, N, step, last) ==
    /\ h[0] = base
    /\ \A k \in 1 .. N : h[k] = step[<<k, h[k - 1]>>]
    /\ h[N] = last

LEMMA FoldExists ==
    ASSUME NEW St, NEW base \in St, NEW N \in Nat, NEW step \in [(1 .. N) \X St -> St]
    PROVE  \E g \in [SUBSET (1 .. N) -> St] : Folds(g, St, base, N, step)
<1> DEFINE Fits(g, n) ==
             \A s \in SUBSET (1 .. n) :
               g[s] = IF s = {} THEN base ELSE step[<<Max(s), g[s \ {Max(s)}]>>]
           P(n) == \E g \in [SUBSET (1 .. n) -> St] : Fits(g, n)
           S == {n \in 0 .. N : P(n)}
<1>1. 0 \in S
  <2>1. Fits([s \in SUBSET (1 .. 0) |-> base], 0)
    OBVIOUS
  <2>2. [s \in SUBSET (1 .. 0) |-> base] \in [SUBSET (1 .. 0) -> St]
    OBVIOUS
  <2>3. P(0)
    <3> HIDE DEF Fits
    <3> QED BY <2>1, <2>2
  <2> HIDE DEF P
  <2> QED BY <2>3
<1>2. ASSUME NEW n \in 0 .. N - 1, n \in S PROVE n + 1 \in S
  <2>1. PICK f \in [SUBSET (1 .. n) -> St] : Fits(f, n)
    BY <1>2
  <2> DEFINE rest(s) == s \ {n + 1}
             g == [s \in SUBSET (1 .. n + 1) |->
                     IF n + 1 \in s THEN step[<<n + 1, f[rest(s)]>>] ELSE f[s]]
  <2>2. \A s \in SUBSET (1 .. n + 1) : rest(s) \in SUBSET (1 .. n)
    OBVIOUS
  <2>3. g \in [SUBSET (1 .. n + 1) -> St]
    <3>1. \A s \in SUBSET (1 .. n + 1) : n + 1 \notin s => s \in SUBSET (1 .. n)
      OBVIOUS
    <3>2. n + 1 \in 1 .. N
      OBVIOUS
    <3>3. \A s \in SUBSET (1 .. n + 1) : step[<<n + 1, f[rest(s)]>>] \in St
      <4> HIDE DEF rest
      <4> QED BY <2>2, <3>2
    <3> HIDE DEF rest
    <3> QED BY <3>1, <3>3
  <2>4. ASSUME NEW s \in SUBSET (1 .. n + 1)
        PROVE  g[s] = IF s = {} THEN base ELSE step[<<Max(s), g[s \ {Max(s)}]>>]
    <3>1. CASE n + 1 \in s
      <4>1. Max(s) = n + 1
        <5>1. s \in SUBSET (0 .. n + 1) /\ s # {}
          BY <3>1
        <5>2. Max(s) \in s /\ \A k \in s : k <= Max(s)
          BY <5>1, n + 1 \in Nat, Greatest
        <5>3. Max(s) \in 1 .. n + 1 /\ n + 1 <= Max(s)
          BY <5>2, <3>1
        <5> QED BY <5>3
      <4>2. g[rest(s)] = f[rest(s)]
        <5>1. rest(s) \in SUBSET (1 .. n + 1) /\ n + 1 \notin rest(s)
          OBVIOUS
        <5> HIDE DEF rest
        <5> QED BY <5>1
      <4>3. g[s] = step[<<n + 1, f[rest(s)]>>]
        BY <3>1
      <4> HIDE DEF g
      <4> QED BY <4>1, <4>2, <4>3, <3>1
    <3>2. CASE n + 1 \notin s
      <4>1. s \in SUBSET (1 .. n) /\ g[s] = f[s]
        BY <3>2
      <4>2. g[s \ {Max(s)}] = f[s \ {Max(s)}]
        <5>1. s \ {Max(s)} \in SUBSET (1 .. n + 1) /\ n + 1 \notin s \ {Max(s)}
          BY <3>2
        <5> QED BY <5>1
      <4>3. f[s] = IF s = {} THEN base ELSE step[<<Max(s), f[s \ {Max(s)}]>>]
        BY <2>1, <4>1
      <4> HIDE DEF g
      <4> QED BY <4>1, <4>2, <4>3
    <3> QED BY <3>1, <3>2
  <2>5. P(n + 1)
    <3>1. Fits(g, n + 1)
      <4> HIDE DEF g
      <4> QED BY <2>4
    <3> HIDE DEF g, Fits
    <3> QED BY <3>1, <2>3
  <2> HIDE DEF P
  <2> QED BY <2>5
<1>3. N \in S
  <2> HIDE DEF S
  <2> QED BY <1>1, <1>2, InductionTo
<1>4. PICK g \in [SUBSET (1 .. N) -> St] : Fits(g, N)
  BY <1>3
<1>5. {} \in SUBSET (1 .. N)
  OBVIOUS
<1>6. Folds(g, St, base, N, step)
  BY <1>4, <1>5 DEF Folds
<1> QED BY <1>6

LEMMA MaxOfPart ==
    ASSUME NEW N \in Nat, NEW s \in SUBSET (1 .. N), s # {}
    PROVE  Max(s) \in 1 .. N /\ s \ {Max(s)} \in SUBSET (1 .. N)
<1>1. s \in SUBSET (0 .. N)
  OBVIOUS
<1>2. Max(s) \in s
  BY <1>1, Greatest
<1> QED BY <1>2

LEMMA MaxOfPrefix ==
    ASSUME NEW N \in Nat, NEW k \in 1 .. N
    PROVE  /\ Max(1 .. k) = k
           /\ (1 .. k) \ {k} = 1 .. k - 1
           /\ 1 .. k \in SUBSET (1 .. N)
           /\ 1 .. k # {}
<1>1. k \in Nat /\ 1 .. k \in SUBSET (0 .. k) /\ k \in 1 .. k
  OBVIOUS
<1>2. Max(1 .. k) \in 1 .. k /\ k <= Max(1 .. k)
  BY <1>1, Greatest
<1>3. Max(1 .. k) = k
  BY <1>2
<1> QED BY <1>1, <1>3

LEMMA FoldRuns ==
    ASSUME NEW St, NEW base \in St, NEW N \in Nat, NEW step \in [(1 .. N) \X St -> St],
           NEW iter, Folds(iter, St, base, N, step)
    PROVE  \E h \in [0 .. N -> St] : Runs(h, base, N, step, iter[1 .. N])
<1> DEFINE h == [k \in 0 .. N |-> iter[1 .. k]]
           S == {k \in 0 .. N : iter[1 .. k] \in St}
<1>1. ASSUME NEW k \in 1 .. N, iter[1 .. k - 1] \in St
      PROVE  iter[1 .. k] = step[<<k, iter[1 .. k - 1]>>]
  BY <1>1, MaxOfPrefix DEF Folds
<1>2. 0 \in S
  <2>1. 1 .. 0 = {}
    OBVIOUS
  <2> QED BY <2>1 DEF Folds
<1>3. ASSUME NEW k \in 0 .. N - 1, k \in S PROVE k + 1 \in S
  <2>1. k + 1 \in 1 .. N /\ k + 1 - 1 = k /\ iter[1 .. k] \in St
    BY <1>3
  <2>2. iter[1 .. k + 1] = step[<<k + 1, iter[1 .. k]>>]
    BY <1>1, <2>1
  <2>3. iter[1 .. k + 1] \in St
    BY <2>1, <2>2
  <2> QED BY <2>1, <2>3
<1>4. \A k \in 0 .. N : iter[1 .. k] \in St
  <2>1. \A k \in 0 .. N : k \in S
    <3> HIDE DEF S
    <3> QED BY <1>2, <1>3, InductionTo
  <2> QED BY <2>1
<1>5. h \in [0 .. N -> St] /\ h[0] = base /\ iter[1 .. N] = h[N]
  <2>1. 1 .. 0 = {}
    OBVIOUS
  <2> QED BY <1>4, <2>1 DEF Folds
<1>6. ASSUME NEW k \in 1 .. N PROVE h[k] = step[<<k, h[k - 1]>>]
  <2>1. k - 1 \in 0 .. N /\ k \in 0 .. N
    OBVIOUS
  <2> QED BY <1>1, <1>4, <2>1
<1> HIDE DEF h
<1>7. Runs(h, base, N, step, iter[1 .. N])
  BY <1>5, <1>6 DEF Runs
<1> QED BY <1>5, <1>7

-----------------------------------------------------------------------------
(* Concatenation of a sequence of sequences                                *)

Concats(f, ss) == f[0] = <<>> /\ \A k \in 1 .. Len(ss) : f[k] = f[k - 1] \o ss[k]

LEMMA ConcatsStep ==
    ASSUME NEW ss, Len(ss) \in Nat, NEW f, Concats(f, ss), NEW k \in Nat, k < Len(ss)
    PROVE  f[k + 1] = f[k] \o ss[k + 1]
<1>1. PICK i \in 1 .. Len(ss) : i = k + 1
  OBVIOUS
<1>2. i - 1 = k
  BY <1>1
<1>3. f[i] = f[i - 1] \o ss[i]
  BY DEF Concats
<1> QED BY <1>1, <1>2, <1>3

Agree(ss, tt, m) == \A k \in 1 .. m : ss[k] = tt[k]

LEMMA ConcatsAgree ==
    ASSUME NEW ss, NEW tt, NEW m \in Nat, Len(ss) \in Nat, Len(tt) \in Nat,
           m <= Len(ss), m <= Len(tt), Agree(ss, tt, m),
           NEW f, Concats(f, ss), NEW g, Concats(g, tt)
    PROVE  f[m] = g[m]
<1> DEFINE A == {k \in 0 .. m : f[k] = g[k]}
<1>1. 0 \in A
  BY DEF Concats
<1>2. ASSUME NEW k \in 0 .. m - 1, k \in A PROVE k + 1 \in A
  <2>1. k \in Nat /\ k < Len(ss) /\ k < Len(tt) /\ k + 1 \in 1 .. m
    OBVIOUS
  <2>2. f[k + 1] = f[k] \o ss[k + 1] /\ g[k + 1] = g[k] \o tt[k + 1]
    BY <2>1, ConcatsStep
  <2>3. f[k + 1] = g[k + 1]
    BY <1>2, <2>1, <2>2 DEF Agree
  <2> QED BY <2>1, <2>3
<1>3. \A k \in 0 .. m : k \in A
  <2> HIDE DEF A
  <2> QED BY <1>1, <1>2, InductionTo
<1> QED BY <1>3

Flattens(f, ss, S) ==
    /\ Concats(f, ss)
    /\ \A k \in 0 .. Len(ss) : f[k] \in Seq(S)
    /\ f[Len(ss)] = FlattenSeq(ss)

LEMMA FlattenSteps ==
    ASSUME NEW S, NEW ss \in Seq(Seq(S))
    PROVE  \E f : Flattens(f, ss, S)
<1> DEFINE N == Len(ss)
           none == <<>>
           St == Seq(S)
           step == [p \in (1 .. N) \X St |-> p[2] \o ss[p[1]]]
<1>1. N \in Nat /\ none \in St /\ \A k \in 1 .. N : ss[k] \in St
  OBVIOUS
<1>2. step \in [(1 .. N) \X St -> St]
  <2>1. \A k \in 1 .. N, x \in St : x \o ss[k] \in St
    BY <1>1
  <2> HIDE DEF St, N
  <2> QED BY <2>1
<1>3. \A k \in 1 .. N, x \in St : step[<<k, x>>] = x \o ss[k]
  <2> HIDE DEF St, N
  <2> QED OBVIOUS
<1>4. PICK f \in [0 .. N -> St] : Concats(f, ss)
  <2> HIDE DEF N, St, none, step
  <2>1. PICK g \in [SUBSET (1 .. N) -> St] : Folds(g, St, none, N, step)
    BY <1>1, <1>2, FoldExists
  <2>2. PICK f \in [0 .. N -> St] : Runs(f, none, N, step, g[1 .. N])
    BY <1>1, <1>2, <2>1, FoldRuns
  <2>3. ASSUME NEW k \in 1 .. N PROVE f[k] = f[k - 1] \o ss[k]
    <3>1. k - 1 \in 0 .. N
      BY <1>1
    <3> QED BY <1>3, <2>2, <3>1 DEF Runs
  <2>4. Concats(f, ss)
    BY <2>2, <2>3 DEF Concats, Runs, none, N
  <2> QED BY <2>4
<1>5. CASE N = 0
  <2>1. ss = <<>> /\ FlattenSeq(ss) = ss
    BY <1>5 DEF FlattenSeq
  <2>2. f[0] = FlattenSeq(ss)
    BY <1>4, <2>1 DEF Concats
  <2> QED BY <1>4, <1>5, <2>2 DEF Flattens
<1>6. CASE N # 0
  <2> DEFINE Body(g) == [i \in 1 .. Len(ss) |-> IF i = 1 THEN ss[i] ELSE g[i - 1] \o ss[i]]
             h == CHOOSE g : g = Body(g)
             w == [k \in 0 .. N |-> IF k = 0 THEN none ELSE h[k]]
  <2>1. \E g : g = Body(g)
    <3> DEFINE g == [i \in 1 .. N |-> f[i]]
    <3>1. ASSUME NEW i \in 1 .. N PROVE g[i] = IF i = 1 THEN ss[i] ELSE g[i - 1] \o ss[i]
      <4>1. f[i] = f[i - 1] \o ss[i]
        BY <1>4 DEF Concats
      <4>2. CASE i = 1
        <5>1. f[i] = none \o ss[i] /\ ss[i] \in Seq(S)
          <6>1. i - 1 = 0 /\ f[0] = none
            BY <1>4, <4>2 DEF Concats
          <6> HIDE DEF none, N
          <6> QED BY <1>1, <4>1, <6>1
        <5>2. none \o ss[i] = ss[i]
          BY <5>1, ConcatEmptySeq
        <5> QED BY <4>2, <5>1, <5>2
      <4>3. CASE i # 1
        <5>1. i - 1 \in 1 .. N /\ g[i - 1] = f[i - 1]
          BY <4>3, <1>1
        <5> QED BY <4>1, <4>3, <5>1
      <4> QED BY <4>2, <4>3
    <3>2. g = Body(g)
      <4>1. g = [i \in 1 .. N |-> g[i]]
        OBVIOUS
      <4> HIDE DEF g
      <4> QED BY <3>1, <4>1
    <3> QED BY <3>2
  <2>2. h = Body(h)
    BY <2>1, Zenon
  <2>3. FlattenSeq(ss) = h[N]
    BY <1>6, Zenon DEF FlattenSeq
  <2> HIDE DEF h
  <2>4. Concats(w, ss)
    <3>1. w[0] = <<>>
      BY <1>1
    <3>2. ASSUME NEW k \in 1 .. N PROVE w[k] = w[k - 1] \o ss[k]
      <4>1. w[k] = h[k]
        BY <1>1
      <4>2. h[k] = IF k = 1 THEN ss[k] ELSE h[k - 1] \o ss[k]
        BY <2>2
      <4>3. CASE k = 1
        <5>1. w[k - 1] = none /\ ss[k] \in Seq(S)
          BY <4>3, <1>1
        <5>2. none \o ss[k] = ss[k]
          BY <5>1, ConcatEmptySeq
        <5> QED BY <4>1, <4>2, <4>3, <5>1, <5>2
      <4>4. CASE k # 1
        <5>1. w[k - 1] = h[k - 1]
          BY <4>4, <1>1
        <5> QED BY <4>1, <4>2, <4>4, <5>1
      <4> QED BY <4>3, <4>4
    <3> HIDE DEF w
    <3> QED BY <3>1, <3>2 DEF Concats
  <2>5. w[N] = h[N]
    BY <1>1, <1>6
  <2>6. f[N] = w[N]
    <3>1. N <= Len(ss) /\ Len(ss) \in Nat /\ Agree(ss, ss, N)
      BY <1>1 DEF Agree
    <3> HIDE DEF w, N
    <3> QED BY <1>1, <1>4, <2>4, <3>1, ConcatsAgree
  <2> QED BY <1>4, <2>3, <2>5, <2>6 DEF Flattens
<1> QED BY <1>5, <1>6

LEMMA FlattenAppend ==
    ASSUME NEW S, NEW ss \in Seq(Seq(S)), NEW s \in Seq(S)
    PROVE  FlattenSeq(Append(ss, s)) = FlattenSeq(ss) \o s
<1> DEFINE n == Len(ss)
           tt == Append(ss, s)
<1>1. /\ tt \in Seq(Seq(S)) /\ Len(tt) = n + 1 /\ n \in Nat /\ tt[n + 1] = s
      /\ \A k \in 1 .. n : tt[k] = ss[k]
  OBVIOUS
<1> HIDE DEF tt
<1>2. PICK f : Flattens(f, tt, S)
  BY <1>1, FlattenSteps
<1>3. PICK g : Flattens(g, ss, S)
  BY FlattenSteps
<1>4. f[n] = g[n]
  <2> HIDE DEF n
  <2>1. n <= Len(tt) /\ n <= Len(ss) /\ Len(tt) \in Nat /\ Len(ss) \in Nat
    BY <1>1 DEF n
  <2>2. Concats(f, tt) /\ Concats(g, ss) /\ Agree(tt, ss, n) /\ n \in Nat
    BY <1>1, <1>2, <1>3 DEF Agree, Flattens
  <2> QED BY <2>1, <2>2, ConcatsAgree
<1>5. f[n + 1] = f[n] \o s
  <2>1. n < Len(tt) /\ Len(tt) \in Nat
    BY <1>1
  <2> HIDE DEF n
  <2>2. f[n + 1] = f[n] \o tt[n + 1]
    BY <1>1, <1>2, <2>1, ConcatsStep DEF Flattens
  <2> QED BY <1>1, <2>2
<1> QED BY <1>1, <1>2, <1>3, <1>4, <1>5 DEF tt, Flattens

LEMMA ConcatAppend ==
    ASSUME NEW S, NEW a \in Seq(S), NEW b \in Seq(S), NEW e \in S
    PROVE  a \o Append(b, e) = Append(a \o b, e)
<1> DEFINE c == <<e>>
<1>1. Append(b, e) = b \o c /\ Append(a \o b, e) = (a \o b) \o c
  BY AppendIsConcat, ConcatProperties
<1>2. c \in Seq(S)
  OBVIOUS
<1> HIDE DEF c
<1>3. (a \o b) \o c = a \o (b \o c)
  BY <1>2, ConcatAssociative
<1> QED BY <1>1, <1>3

LEMMA FlattenLast ==
    ASSUME NEW S, NEW ss \in Seq(Seq(S)), ss # <<>>, NEW tt \in Seq(Seq(S)),
           NEW e \in S, Len(tt) = Len(ss), \A k \in 1 .. Len(ss) - 1 : tt[k] = ss[k],
           tt[Len(ss)] = Append(ss[Len(ss)], e)
    PROVE  FlattenSeq(tt) = Append(FlattenSeq(ss), e)
<1> DEFINE n == Len(ss)
<1>1. n \in Nat \ {0} /\ n - 1 \in Nat /\ ss[n] \in Seq(S)
  OBVIOUS
<1>2. PICK f : Flattens(f, tt, S)
  BY FlattenSteps
<1>3. PICK g : Flattens(g, ss, S)
  BY FlattenSteps
<1>4. f[n - 1] = g[n - 1] /\ g[n - 1] \in Seq(S)
  <2> DEFINE m == n - 1
  <2>1. m \in Nat /\ m <= Len(ss) /\ m <= Len(tt) /\ Len(ss) \in Nat /\ Len(tt) \in Nat
    BY <1>1
  <2>2. Agree(tt, ss, m)
    BY DEF Agree
  <2>3. g[m] \in Seq(S)
    <3>1. m \in 0 .. n
      BY <1>1
    <3> QED BY <1>3, <3>1 DEF Flattens
  <2> HIDE DEF m
  <2>4. f[m] = g[m]
    BY <1>2, <1>3, <2>1, <2>2, ConcatsAgree DEF Flattens
  <2> QED BY <2>3, <2>4 DEF m
<1>5. f[n] = g[n - 1] \o Append(ss[n], e) /\ g[n] = g[n - 1] \o ss[n]
  <2>1. n \in 1 .. Len(ss) /\ n \in 1 .. Len(tt)
    BY <1>1
  <2>2. f[n] = f[n - 1] \o tt[n] /\ g[n] = g[n - 1] \o ss[n]
    BY <1>2, <1>3, <2>1 DEF Concats, Flattens
  <2> QED BY <1>4, <2>2
<1>6. g[n - 1] \o Append(ss[n], e) = Append(g[n - 1] \o ss[n], e)
  <2> HIDE DEF n
  <2>1. \A a, b \in Seq(S) : a \o Append(b, e) = Append(a \o b, e)
    BY ConcatAppend
  <2> QED BY <1>1, <1>4, <2>1, Zenon
<1> QED BY <1>1, <1>2, <1>3, <1>5, <1>6 DEF Flattens

LEMMA MaxOfTwo ==
    ASSUME NEW a \in Int, NEW b \in Int
    PROVE  Max({a, b}) = IF a >= b THEN a ELSE b
BY DEF Max

LEMMA MinOfTwo ==
    ASSUME NEW a \in Int, NEW b \in Int
    PROVE  Min({a, b}) = IF a <= b THEN a ELSE b
BY DEF Min

Timed(D) == \A d \in D : d.start \in Nat /\ d.end \in Nat /\ d.start < d.end

SceneOf(D) == [start : Nat, end : Nat, dialogues : Seq(D)]

LEMMA SceneExtended ==
    ASSUME NEW D, Timed(D), NEW scene \in SceneOf(D), NEW d \in D
    PROVE  /\ Extend(scene, d) \in SceneOf(D)
           /\ Extend(scene, d).start = scene.start
           /\ Extend(scene, d).end = IF scene.end >= d.end THEN scene.end ELSE d.end
           /\ Extend(scene, d).dialogues = Append(scene.dialogues, d)
<1>1. d.end \in Nat /\ scene.end \in Nat
  BY DEF Timed, SceneOf
<1>2. Max({scene.end, d.end}) = IF scene.end >= d.end THEN scene.end ELSE d.end
  BY <1>1, MaxOfTwo
<1>3. Append(scene.dialogues, d) \in Seq(D)
  BY DEF SceneOf
<1> QED BY <1>1, <1>2, <1>3 DEF Extend, SceneOf

LEMMA SceneAdded ==
    ASSUME NEW D, Timed(D), NEW scenes \in Seq(SceneOf(D)), NEW d \in D
    PROVE  AddDialogue(scenes, d) \in Seq(SceneOf(D))
<1>1. CASE scenes # <<>> /\ Joins(Last(scenes), d)
  <2>1. Len(scenes) \in 1 .. Len(scenes) /\ scenes[Len(scenes)] \in SceneOf(D)
    BY <1>1
  <2> QED BY <1>1, <2>1, SceneExtended DEF AddDialogue
<1>2. CASE ~(scenes # <<>> /\ Joins(Last(scenes), d))
  <2>1. Single(d) \in SceneOf(D)
    BY DEF Single, SceneOf, Timed
  <2> QED BY <1>2, <2>1 DEF AddDialogue
<1> QED BY <1>1, <1>2

LEMMA SceneSteps ==
    ASSUME NEW D, Timed(D), NEW ds \in Seq(D)
    PROVE  \E h \in [0 .. Len(ds) -> Seq(SceneOf(D))] :
             /\ h[0] = <<>>
             /\ \A k \in 1 .. Len(ds) : h[k] = AddDialogue(h[k - 1], ds[k])
             /\ Scenes(ds) = h[Len(ds)]
<1> DEFINE N == Len(ds)
           none == <<>>
           St == Seq(SceneOf(D))
           step == [p \in (1 .. N) \X St |-> AddDialogue(p[2], ds[p[1]])]
           Body(g) == [s \in SUBSET DOMAIN ds |->
                         IF s = {} THEN none
                         ELSE AddDialogue(g[s \ {Max(s)}], ds[Max(s)])]
           iter == CHOOSE g : g = Body(g)
<1>1. N \in Nat /\ DOMAIN ds = 1 .. N /\ none \in St
  OBVIOUS
<1>2. step \in [(1 .. N) \X St -> St]
  <2>1. \A k \in 1 .. N, x \in St : AddDialogue(x, ds[k]) \in St
    <3>1. \A k \in 1 .. N : ds[k] \in D
      OBVIOUS
    <3> QED BY <3>1, SceneAdded
  <2> HIDE DEF St, N
  <2> QED BY <2>1
<1>3. \A k \in 1 .. N, x \in St : step[<<k, x>>] = AddDialogue(x, ds[k])
  <2> HIDE DEF St, N
  <2> QED OBVIOUS
<1> HIDE DEF St, N, step, none
<1>4. \E g : g = Body(g)
  <2>1. PICK g \in [SUBSET (1 .. N) -> St] :
          Folds(g, St, none, N, step)
    BY <1>1, <1>2, FoldExists
  <2>2. g = [s \in SUBSET (1 .. N) |-> g[s]]
    OBVIOUS
  <2>3. g = Body(g)
    BY <1>1, <1>3, <2>1, <2>2, MaxOfPart DEF Folds
  <2> QED BY <2>3
<1>5. iter = Body(iter)
  BY <1>4, Zenon
<1>6. Scenes(ds) = iter[1 .. N]
  <2>1. Scenes(ds) = iter[DOMAIN ds]
    BY Zenon DEF none, Scenes, FoldLeft, MapThenFoldSet
  <2> QED BY <1>1, <2>1
<1> HIDE DEF iter
<1>7. Folds(iter, St, none, N, step)
  BY <1>1, <1>3, <1>5, MaxOfPart DEF Folds
<1>8. PICK h \in [0 .. N -> St] : Runs(h, none, N, step, iter[1 .. N])
  BY <1>1, <1>2, <1>7, FoldRuns
<1>9. \A k \in 1 .. N : h[k - 1] \in St
  BY <1>1
<1> QED BY <1>3, <1>6, <1>8, <1>9 DEF N, St, none, Runs

(* What is known of a scene, of two neighbours, and of the scenes of the   *)
(* dialogues up to the last one.                                           *)
SceneIsCut(s) ==
    /\ s.dialogues # <<>>
    /\ s.start = Head(s.dialogues).start /\ s.end = Last(s.dialogues).end
    /\ Len(s.dialogues) <= SceneDialogues
    /\ Len(s.dialogues) = 1 \/ s.end - s.start <= SceneDuration
    /\ \A j \in 2 .. Len(s.dialogues) :
         Gap(s.dialogues[j - 1], s.dialogues[j]) < SilenceBoundary

CutBetween(s, t) ==
    /\ s.end <= t.start
    /\ \/ t.start - s.end >= SilenceBoundary
       \/ ~(/\ Len(s.dialogues) < SceneDialogues
            /\ Head(t.dialogues).end - Head(s.dialogues).start <= SceneDuration)

DialoguesOf(scenes) == [i \in DOMAIN scenes |-> scenes[i].dialogues]

ScenesSoFar(D, scenes, dialogues) ==
    /\ scenes \in Seq(SceneOf(D))
    /\ scenes = <<>> <=> dialogues = <<>>
    /\ FlattenSeq(DialoguesOf(scenes)) = dialogues
    /\ \A i \in 1 .. Len(scenes) : SceneIsCut(scenes[i])
    /\ \A i \in 1 .. Len(scenes) - 1 : CutBetween(scenes[i], scenes[i + 1])
    /\ scenes # <<>> => Last(Last(scenes).dialogues) = Last(dialogues)

LEMMA DialoguesOfScenes ==
    ASSUME NEW D, NEW scenes \in Seq(SceneOf(D))
    PROVE  /\ DialoguesOf(scenes) \in Seq(Seq(D))
           /\ Len(DialoguesOf(scenes)) = Len(scenes)
           /\ \A i \in 1 .. Len(scenes) : DialoguesOf(scenes)[i] = scenes[i].dialogues
<1> DEFINE n == Len(scenes)
<1>1. n \in Nat /\ DOMAIN scenes = 1 .. n
  OBVIOUS
<1>2. \A i \in 1 .. n : scenes[i].dialogues \in Seq(D)
  <2>1. \A i \in 1 .. n : scenes[i] \in SceneOf(D)
    OBVIOUS
  <2> QED BY <2>1 DEF SceneOf
<1>3. DialoguesOf(scenes) = [i \in 1 .. n |-> scenes[i].dialogues]
  BY <1>1 DEF DialoguesOf
<1> HIDE DEF n
<1>4. DialoguesOf(scenes) \in Seq(Seq(D)) /\ Len(DialoguesOf(scenes)) = n
  BY <1>1, <1>2, <1>3
<1> QED BY <1>3, <1>4 DEF n

LEMMA SceneIsExtended ==
    ASSUME NEW D, Timed(D), NEW s \in SceneOf(D), SceneIsCut(s), NEW d \in D,
           Last(s.dialogues).end <= d.start, Joins(s, d)
    PROVE  /\ SceneIsCut(Extend(s, d))
           /\ Head(Extend(s, d).dialogues) = Head(s.dialogues)
           /\ Last(Extend(s, d).dialogues) = d
<1> DEFINE l == s.dialogues
           n == Len(l)
           e == Extend(s, d)
<1>1. l \in Seq(D) /\ l # <<>> /\ n \in Nat \ {0} /\ l[n] \in D /\ l[1] \in D
  BY DEF SceneOf, SceneIsCut
<1>2. /\ d.start \in Nat /\ d.end \in Nat /\ d.start < d.end
      /\ l[n].start \in Nat /\ l[n].end \in Nat /\ l[1].start \in Nat
  BY <1>1 DEF Timed
<1>3. e.start = s.start /\ e.end = d.end /\ e.dialogues = Append(l, d)
  <2>1. s.end = l[n].end /\ l[n].end <= d.start
    BY DEF SceneIsCut, Last
  <2>2. ~(s.end >= d.end)
    BY <1>2, <2>1
  <2> HIDE DEF l, n
  <2> QED BY <2>2, SceneExtended DEF l
<1>4. /\ Append(l, d) # <<>> /\ Len(Append(l, d)) = n + 1
      /\ Head(Append(l, d)) = Head(l) /\ Last(Append(l, d)) = d
      /\ \A j \in 1 .. n : Append(l, d)[j] = l[j]
      /\ Append(l, d)[n + 1] = d
  BY <1>1 DEF Last
<1>5. Head(l) = l[1] /\ s.start = l[1].start
  BY <1>1 DEF SceneIsCut
<1>6. d.start - l[n].end < SilenceBoundary /\ d.end - s.start <= SceneDuration /\ n < SceneDialogues
  BY DEF Joins, Last
<1>7. ASSUME NEW j \in 2 .. n + 1
      PROVE  Gap(Append(l, d)[j - 1], Append(l, d)[j]) < SilenceBoundary
  <2>1. CASE j = n + 1
    <3>1. j - 1 = n /\ n \in 1 .. n
      BY <2>1, <1>1
    <3>2. Append(l, d)[j - 1] = l[n] /\ Append(l, d)[j] = d
      BY <2>1, <3>1, <1>4, Zenon
    <3>3. l[n].end <= d.start
      BY DEF Last
    <3> QED BY <3>2, <3>3, <1>6 DEF Gap
  <2>2. CASE j # n + 1
    <3>1. j \in 2 .. n /\ j - 1 \in 1 .. n /\ j \in 1 .. n
      BY <2>2, <1>1
    <3>2. Append(l, d)[j - 1] = l[j - 1] /\ Append(l, d)[j] = l[j]
      BY <3>1, <1>4, Zenon
    <3>3. Gap(l[j - 1], l[j]) < SilenceBoundary
      BY <3>1 DEF SceneIsCut
    <3> QED BY <3>2, <3>3
  <2> QED BY <2>1, <2>2
<1>8. n + 1 <= SceneDialogues
  <2>1. SceneDialogues \in Nat
    BY TimelineAssumption
  <2> QED BY <1>1, <1>6, <2>1
<1> HIDE DEF l, n, e
<1>9. SceneIsCut(e)
  BY <1>2, <1>3, <1>4, <1>5, <1>6, <1>7, <1>8 DEF SceneIsCut
<1> QED BY <1>3, <1>4, <1>9 DEF l, e

LEMMA ScenesGrow ==
    ASSUME NEW D, Timed(D), NEW scenes, NEW dialogues \in Seq(D),
           ScenesSoFar(D, scenes, dialogues), NEW d \in D,
           dialogues # <<>> => Last(dialogues).end <= d.start
    PROVE  ScenesSoFar(D, AddDialogue(scenes, d), Append(dialogues, d))
<1> DEFINE n == Len(scenes)
           new == AddDialogue(scenes, d)
           all == Append(dialogues, d)
<1>1. scenes \in Seq(SceneOf(D)) /\ n \in Nat /\ \A i \in 1 .. n : scenes[i] \in SceneOf(D)
  BY DEF ScenesSoFar
<1>2. new \in Seq(SceneOf(D))
  BY <1>1, SceneAdded
<1>3. all # <<>> /\ Last(all) = d
  BY AppendProperties DEF Last
<1>4. DialoguesOf(scenes) \in Seq(Seq(D)) /\ DialoguesOf(new) \in Seq(Seq(D))
  BY <1>1, <1>2, DialoguesOfScenes
<1>5. CASE scenes # <<>> /\ Joins(scenes[n], d)
  <2> DEFINE e == Extend(scenes[n], d)
  <2>1. n \in 1 .. n /\ n # 0 /\ scenes[n] \in SceneOf(D) /\ SceneIsCut(scenes[n])
    BY <1>1, <1>5 DEF ScenesSoFar
  <2>2. Last(scenes[n].dialogues).end <= d.start
    BY <1>5 DEF ScenesSoFar, Last
  <2>3. /\ SceneIsCut(e) /\ Head(e.dialogues) = Head(scenes[n].dialogues)
        /\ Last(e.dialogues) = d
    BY <2>1, <2>2, <1>5, SceneIsExtended
  <2>4. /\ new = [scenes EXCEPT ![n] = e] /\ Len(new) = n /\ new[n] = e
        /\ \A i \in 1 .. n - 1 : new[i] = scenes[i]
    BY <1>1, <1>5, <2>1 DEF AddDialogue, Last
  <2>5. FlattenSeq(DialoguesOf(new)) = all
    <3> DEFINE ss == DialoguesOf(scenes)
               tt == DialoguesOf(new)
    <3>1. Len(ss) = n /\ Len(tt) = n /\ \A i \in 1 .. n : ss[i] = scenes[i].dialogues /\ tt[i] = new[i].dialogues
      BY <1>1, <1>2, <2>4, DialoguesOfScenes
    <3> HIDE DEF ss, tt
    <3>2. tt[n] = Append(ss[n], d)
      <4>1. e.dialogues = Append(scenes[n].dialogues, d)
        BY <2>1, SceneExtended
      <4> HIDE DEF e
      <4> QED BY <2>1, <2>4, <3>1, <4>1
    <3>3. \A k \in 1 .. n - 1 : tt[k] = ss[k]
      <4> SUFFICES ASSUME NEW k \in 1 .. n - 1 PROVE tt[k] = ss[k]
        OBVIOUS
      <4>1. k \in 1 .. n
        BY <1>1
      <4> HIDE DEF n
      <4> QED BY <2>4, <3>1, <4>1
    <3>5. ss # <<>>
      BY <2>1, <3>1
    <3> HIDE DEF n
    <3>4. FlattenSeq(tt) = Append(FlattenSeq(ss), d)
      BY <1>4, <3>1, <3>2, <3>3, <3>5, FlattenLast DEF ss, tt
    <3> QED BY <3>4 DEF ss, tt, ScenesSoFar
  <2>6. \A i \in 1 .. n : SceneIsCut(new[i])
    <3> SUFFICES ASSUME NEW i \in 1 .. n PROVE SceneIsCut(new[i])
      OBVIOUS
    <3>1. CASE i = n
      BY <2>3, <2>4, <3>1
    <3>2. CASE i # n
      <4>1. i \in 1 .. n - 1
        BY <1>1, <3>2
      <4> QED BY <2>4, <4>1 DEF ScenesSoFar
    <3> QED BY <3>1, <3>2
  <2>7. ASSUME NEW i \in 1 .. n - 1 PROVE CutBetween(new[i], new[i + 1])
    <3>1. CutBetween(scenes[i], scenes[i + 1])
      BY DEF ScenesSoFar
    <3>2. new[i] = scenes[i]
      BY <2>4
    <3>3. CASE i + 1 = n
      <4>1. CutBetween(scenes[i], scenes[n])
        BY <3>1, <3>3
      <4>2. CutBetween(scenes[i], e)
        BY <2>1, <2>3, <4>1, SceneExtended DEF CutBetween
      <4> QED BY <2>4, <3>2, <3>3, <4>2
    <3>4. CASE i + 1 # n
      <4>1. new[i + 1] = scenes[i + 1]
        BY <1>1, <2>4, <3>4
      <4> QED BY <3>1, <3>2, <4>1
    <3> QED BY <3>3, <3>4
  <2>8. new # <<>> /\ Last(Last(new).dialogues) = d
    BY <1>2, <2>1, <2>3, <2>4 DEF Last
  <2>9. ScenesSoFar(D, new, all)
    <3> HIDE DEF new, all, n, e
    <3> QED BY <1>2, <1>3, <2>4, <2>5, <2>6, <2>7, <2>8 DEF ScenesSoFar
  <2> QED BY <2>9
<1>6. CASE ~(scenes # <<>> /\ Joins(scenes[n], d))
  <2> DEFINE s == Single(d)
  <2>1. /\ s.start = d.start /\ s.end = d.end /\ s.dialogues = <<d>>
        /\ s \in SceneOf(D)
    BY DEF Single, SceneOf, Timed
  <2>2. /\ new = Append(scenes, s) /\ Len(new) = n + 1 /\ new[n + 1] = s
        /\ \A i \in 1 .. n : new[i] = scenes[i]
    BY <1>1, <1>6, <2>1 DEF AddDialogue, Last
  <2>3. SceneIsCut(s)
    <3>1. SceneDialogues \in Nat \ {0}
      BY TimelineAssumption
    <3> HIDE DEF s
    <3> QED BY <2>1, <3>1 DEF SceneIsCut, Last
  <2>4. FlattenSeq(DialoguesOf(new)) = all
    <3>1. DialoguesOf(new) = Append(DialoguesOf(scenes), <<d>>)
      <4> DEFINE ss == DialoguesOf(scenes)
                 tt == DialoguesOf(new)
      <4>1. /\ ss \in Seq(Seq(D)) /\ Len(ss) = n /\ tt \in Seq(Seq(D)) /\ Len(tt) = n + 1
            /\ \A i \in 1 .. n : ss[i] = scenes[i].dialogues
            /\ \A i \in 1 .. n + 1 : tt[i] = new[i].dialogues
        BY <1>1, <1>2, <2>2, DialoguesOfScenes
      <4>2. tt[n + 1] = <<d>>
        <5>1. n + 1 \in 1 .. n + 1
          BY <1>1
        <5> HIDE DEF n, s, ss, tt
        <5> QED BY <2>1, <2>2, <4>1, <5>1
      <4>3. \A i \in 1 .. n : tt[i] = ss[i]
        <5> SUFFICES ASSUME NEW i \in 1 .. n PROVE tt[i] = ss[i]
          OBVIOUS
        <5>1. i \in 1 .. n + 1
          BY <1>1
        <5> HIDE DEF n, s, ss, tt
        <5> QED BY <2>2, <4>1, <5>1
      <4> HIDE DEF ss, tt
      <4>4. <<d>> \in Seq(D)
        OBVIOUS
      <4>5. PICK x \in Seq(D) : x = <<d>>
        BY <4>4
      <4>6. tt = Append(ss, x)
        <5>1. /\ Append(ss, x) \in Seq(Seq(D)) /\ Len(Append(ss, x)) = n + 1
              /\ Append(ss, x)[n + 1] = x /\ \A i \in 1 .. n : Append(ss, x)[i] = ss[i]
          BY <4>1, AppendProperties
        <5>2. \A i \in 1 .. n + 1 : tt[i] = Append(ss, x)[i]
          <6>1. \A i \in 1 .. n + 1 : i \in 1 .. n \/ i = n + 1
            BY <1>1
          <6> HIDE DEF n
          <6> QED BY <4>2, <4>3, <4>5, <5>1, <6>1
        <5> HIDE DEF n
        <5> QED BY <4>1, <5>1, <5>2, SeqEqual
      <4> QED BY <4>5, <4>6 DEF ss, tt
    <3>2. FlattenSeq(DialoguesOf(new)) = FlattenSeq(DialoguesOf(scenes)) \o <<d>>
      <4>1. <<d>> \in Seq(D)
        OBVIOUS
      <4> QED BY <1>4, <3>1, <4>1, FlattenAppend
    <3>3. dialogues \o <<d>> = Append(dialogues, d)
      BY AppendIsConcat
    <3> QED BY <3>2, <3>3 DEF ScenesSoFar
  <2>5. \A i \in 1 .. n + 1 : SceneIsCut(new[i])
    BY <1>1, <2>2, <2>3 DEF ScenesSoFar
  <2>6. ASSUME NEW i \in 1 .. n PROVE CutBetween(new[i], new[i + 1])
    <3>1. CASE i = n
      <4> DEFINE t == scenes[n]
                 l == t.dialogues
      <4>1. t \in SceneOf(D) /\ SceneIsCut(t) /\ scenes # <<>> /\ ~Joins(t, d)
        BY <1>1, <1>6, <3>1 DEF ScenesSoFar
      <4>2. Last(l) = Last(dialogues) /\ dialogues # <<>>
        BY <4>1 DEF ScenesSoFar, Last
      <4>3. t.end = Last(l).end /\ t.end <= d.start /\ t.start = Head(l).start
        BY <4>1, <4>2 DEF SceneIsCut
      <4>4. /\ d.start \in Nat /\ d.end \in Nat /\ t.start \in Nat /\ t.end \in Nat
            /\ Len(l) \in Nat
        BY <4>1 DEF SceneOf, Timed
      <4>5. /\ SilenceBoundary \in Nat /\ SceneDuration \in Nat /\ SceneDialogues \in Nat
        BY TimelineAssumption
      <4>6. \/ d.start - t.end >= SilenceBoundary \/ ~(d.end - t.start <= SceneDuration)
            \/ ~(Len(l) < SceneDialogues)
        <5>1. ~(/\ d.start - Last(l).end < SilenceBoundary
                /\ d.end - t.start <= SceneDuration
                /\ Len(l) < SceneDialogues)
          BY <4>1 DEF Joins
        <5> HIDE DEF l, t
        <5> QED BY <5>1, <4>3, <4>4, <4>5
      <4>7. Head(s.dialogues) = d
        BY <2>1
      <4> HIDE DEF s
      <4>8. CutBetween(t, s)
        BY <2>1, <4>3, <4>6, <4>7 DEF CutBetween
      <4> QED BY <2>2, <3>1, <4>8
    <3>2. CASE i # n
      <4>1. i \in 1 .. n - 1 /\ i + 1 \in 1 .. n
        BY <1>1, <3>2
      <4>2. new[i] = scenes[i] /\ new[i + 1] = scenes[i + 1]
        BY <2>2, <4>1
      <4>3. CutBetween(scenes[i], scenes[i + 1])
        BY <4>1 DEF ScenesSoFar
      <4> QED BY <4>2, <4>3
    <3> QED BY <3>1, <3>2
  <2>7. new # <<>> /\ Last(Last(new).dialogues) = d
    <3>1. Last(new) = s /\ new # <<>>
      BY <1>1, <1>2, <2>2 DEF Last
    <3>2. Last(<<d>>) = d
      BY DEF Last
    <3> QED BY <2>1, <3>1, <3>2
  <2>8. Len(new) - 1 = n
    BY <1>1, <2>2
  <2>9. ScenesSoFar(D, new, all)
    <3> HIDE DEF new, all, n, s
    <3> QED BY <1>2, <1>3, <2>2, <2>4, <2>5, <2>6, <2>7, <2>8 DEF ScenesSoFar
  <2> QED BY <2>9
<1> QED BY <1>5, <1>6

(* Scenes: whatever dialogues follow each other without meeting, the       *)
(* scenes are these dialogues in order, cut at silences and at the two     *)
(* limits and nowhere else.                                                *)
THEOREM ScenesAreCut ==
    ASSUME NEW D, Timed(D), NEW dialogues \in Seq(D), Disjoint(dialogues)
    PROVE  AreScenes(Scenes(dialogues), dialogues)
<1> DEFINE N == Len(dialogues)
           upTo(k) == SubSeq(dialogues, 1, k)
<1>1. N \in Nat
  OBVIOUS
<1>2. PICK h : /\ h[0] = <<>>
               /\ \A k \in 1 .. N : h[k] = AddDialogue(h[k - 1], dialogues[k])
               /\ Scenes(dialogues) = h[N]
  BY SceneSteps
<1>3. ScenesSoFar(D, h[N], upTo(N))
  <2> DEFINE S == {k \in 0 .. N : ScenesSoFar(D, h[k], upTo(k))}
  <2>1. 0 \in S
    <3>1. upTo(0) = <<>>
      BY SubSeqEmpty
    <3>2. ScenesSoFar(D, <<>>, <<>>)
      <4>1. DialoguesOf(<<>>) = <<>>
        BY DEF DialoguesOf
      <4>2. FlattenSeq(<<>>) = <<>>
        BY DEF FlattenSeq
      <4> QED BY <4>1, <4>2 DEF ScenesSoFar
    <3>3. ScenesSoFar(D, h[0], upTo(0))
      BY <1>2, <3>1, <3>2, Zenon
    <3> QED BY <1>1, <3>3
  <2>2. ASSUME NEW k \in 0 .. N - 1, k \in S PROVE k + 1 \in S
    <3>1. PICK j \in 1 .. N : j = k + 1
      BY <1>1
    <3>2. j - 1 = k /\ k \in 0 .. N
      BY <3>1
    <3>3. h[j] = AddDialogue(h[k], dialogues[j]) /\ dialogues[j] \in D
      BY <1>2, <3>2
    <3>4. upTo(k) \in Seq(D) /\ upTo(j) = Append(upTo(k), dialogues[j])
      BY <3>1, <3>2
    <3>5. upTo(k) # <<>> => Last(upTo(k)).end <= dialogues[j].start
      <4> SUFFICES ASSUME upTo(k) # <<>> PROVE Last(upTo(k)).end <= dialogues[j].start
        OBVIOUS
      <4>1. k # 0
        BY SubSeqEmpty
      <4>2. Last(upTo(k)) = dialogues[k]
        BY <1>1, <4>1, <3>2 DEF Last
      <4>3. j \in 2 .. N
        BY <3>1, <4>1
      <4>4. dialogues[j - 1].end <= dialogues[j].start
        BY <4>3 DEF Disjoint
      <4> QED BY <3>2, <4>2, <4>4
    <3>6. ScenesSoFar(D, h[k], upTo(k))
      BY <2>2
    <3> HIDE DEF upTo
    <3>7. ScenesSoFar(D, h[j], upTo(j))
      BY <3>3, <3>4, <3>5, <3>6, ScenesGrow
    <3> QED BY <3>1, <3>7
  <2>3. \A k \in 0 .. N : k \in S
    <3> HIDE DEF S
    <3> QED BY <1>1, <2>1, <2>2, InductionTo
  <2>4. N \in 0 .. N
    BY <1>1
  <2> QED BY <2>3, <2>4
<1>4. upTo(N) = dialogues
  OBVIOUS
<1> DEFINE scenes == Scenes(dialogues)
           n == Len(scenes)
<1>5. ScenesSoFar(D, scenes, dialogues)
  BY <1>2, <1>3, <1>4
<1> HIDE DEF scenes
<1>6. n \in Nat /\ DOMAIN scenes = 1 .. n
  BY <1>5 DEF ScenesSoFar
<1>7. \A i \in 2 .. n : CutBetween(scenes[i - 1], scenes[i])
  <2> SUFFICES ASSUME NEW i \in 2 .. n PROVE CutBetween(scenes[i - 1], scenes[i])
    OBVIOUS
  <2>1. PICK j \in 1 .. n - 1 : j = i - 1 /\ j + 1 = i
    BY <1>6
  <2>2. CutBetween(scenes[j], scenes[j + 1])
    BY <1>5 DEF ScenesSoFar
  <2> QED BY <2>1, <2>2
<1>8. \A s \in ToSet(scenes) : SceneIsCut(s)
  BY <1>5, <1>6 DEF ScenesSoFar, ToSet
<1>9. FlattenSeq([i \in DOMAIN scenes |-> scenes[i].dialogues]) = dialogues
  BY <1>5 DEF ScenesSoFar, DialoguesOf
<1>10. AreScenes(scenes, dialogues)
  <2> HIDE DEF n
  <2>1. Disjoint(scenes)
    BY <1>7 DEF Disjoint, CutBetween, n
  <2>2. \A i \in 2 .. Len(scenes) :
          \/ scenes[i].start - scenes[i - 1].end >= SilenceBoundary
          \/ ~(/\ Len(scenes[i - 1].dialogues) < SceneDialogues
               /\ Head(scenes[i].dialogues).end - Head(scenes[i - 1].dialogues).start
                    <= SceneDuration)
    BY <1>7 DEF CutBetween, n
  <2> QED BY <1>8, <1>9, <2>1, <2>2 DEF AreScenes, SceneIsCut
<1> QED BY <1>10 DEF scenes

-----------------------------------------------------------------------------
(* Words: the resolver's assignment                                        *)

TurnOf(Sp, O) == [start : Nat, end : Nat, speaker : Sp, ordinal : O]

(* The turns of the resolver: intervals that follow each other.            *)
Line(rows) ==
    /\ \A i \in 1 .. Len(rows) :
         rows[i].start \in Nat /\ rows[i].end \in Nat /\ rows[i].start < rows[i].end
    /\ Disjoint(rows)

LEMMA LineAscends ==
    ASSUME NEW R, NEW rows \in Seq(R), Line(rows)
    PROVE  \A j \in 1 .. Len(rows) : \A i \in 1 .. j - 1 : rows[i].end <= rows[j].start
<1> DEFINE N == Len(rows)
           S == {j \in 0 .. N : \A i \in 1 .. j - 1 : rows[i].end <= rows[j].start}
<1>1. N \in Nat /\ \A i \in 1 .. N :
        rows[i].start \in Nat /\ rows[i].end \in Nat /\ rows[i].start < rows[i].end
  BY DEF Line
<1>2. 0 \in S
  BY <1>1
<1>3. ASSUME NEW j \in 0 .. N - 1, j \in S PROVE j + 1 \in S
  <2> HIDE DEF N
  <2>1. ASSUME NEW i \in 1 .. j PROVE rows[i].end <= rows[j + 1].start
    <3>1. PICK k \in 2 .. N : k = j + 1
      BY <1>1
    <3>2. k - 1 = j /\ j \in 1 .. N /\ k \in 1 .. N /\ i \in 1 .. N
      BY <1>1, <3>1
    <3>3. rows[k - 1].end <= rows[k].start
      BY <3>1 DEF Line, Disjoint, N
    <3>4. rows[j].end <= rows[k].start
      BY <3>2, <3>3
    <3>5. i = j \/ rows[i].end <= rows[j].start
      BY <1>3, <3>2
    <3>6. /\ rows[i].end \in Nat /\ rows[j].start \in Nat /\ rows[j].end \in Nat
          /\ rows[k].start \in Nat /\ rows[j].start < rows[j].end
      BY <1>1, <3>2
    <3>7. rows[i].end <= rows[k].start
      BY <3>4, <3>5, <3>6
    <3> QED BY <3>1, <3>7
  <2>2. j + 1 \in 0 .. N /\ \A i \in 1 .. (j + 1) - 1 : i \in 1 .. j
    BY <1>1
  <2> QED BY <2>1, <2>2
<1>4. \A j \in 0 .. N : j \in S
  <2> HIDE DEF S
  <2> QED BY <1>1, <1>2, <1>3, InductionTo
<1> QED BY <1>1, <1>4

LEMMA LineOrders ==
    ASSUME NEW R, NEW rows \in Seq(R), Line(rows), NEW t \in ToSet(rows), NEW u \in ToSet(rows)
    PROVE  /\ t.start \in Nat /\ t.end \in Nat /\ t.start < t.end
           /\ t = u \/ t.end <= u.start \/ u.end <= t.start
<1>1. PICK i \in 1 .. Len(rows) : t = rows[i]
  BY DEF ToSet
<1>2. PICK j \in 1 .. Len(rows) : u = rows[j]
  BY DEF ToSet
<1>3. i = j \/ i \in 1 .. j - 1 \/ j \in 1 .. i - 1
  OBVIOUS
<1>4. t = u \/ t.end <= u.start \/ u.end <= t.start
  BY <1>1, <1>2, <1>3, LineAscends
<1> QED BY <1>1, <1>4 DEF Line

(* The last of some of the turns, and of turns in two steps.               *)
LEMMA LastOfTurns ==
    ASSUME NEW R, NEW rows \in Seq(R), Line(rows), NEW A \in SUBSET ToSet(rows), A # {}
    PROVE  \E t \in A : LastOf(A) = {t} /\ \A u \in A \ {t} : u.end <= t.start
<1> DEFINE I == {i \in 1 .. Len(rows) : rows[i] \in A}
           t == rows[Max(I)]
<1>1. I \in SUBSET (0 .. Len(rows)) /\ I # {} /\ Len(rows) \in Nat
  BY DEF ToSet
<1>2. Max(I) \in I /\ \A k \in I : k <= Max(I)
  <2> HIDE DEF I
  <2> QED BY <1>1, Greatest
<1>3. t \in A
  BY <1>2
<1>4. ASSUME NEW u \in A \ {t} PROVE u.end <= t.start
  <2>1. PICK i \in I : rows[i] = u
    BY DEF ToSet
  <2>2. i \in 1 .. Max(I) - 1 /\ Max(I) \in 1 .. Len(rows)
    <3>1. i # Max(I) /\ i <= Max(I)
      BY <1>2, <2>1
    <3> QED BY <1>2, <3>1
  <2> HIDE DEF I
  <2> QED BY <2>1, <2>2, LineAscends
<1>5. \A u \in A : /\ u.start \in Nat /\ u.end \in Nat /\ u.start < u.end
  <2> HIDE DEF t, I
  <2> QED BY LineOrders
<1> HIDE DEF t
<1>6. \A u \in A \ {t} : u.end < t.end
  BY <1>3, <1>4, <1>5
<1>7. LastOf(A) = {t}
  BY <1>3, <1>5, <1>6 DEF LastOf
<1> QED BY <1>3, <1>4, <1>7

LEMMA LastOfNone == LastOf({}) = {}
BY DEF LastOf

LEMMA LastOfBoth ==
    ASSUME NEW R, NEW rows \in Seq(R), Line(rows),
           NEW A \in SUBSET ToSet(rows), NEW B \in SUBSET ToSet(rows)
    PROVE  LastOf(LastOf(A) \cup B) = LastOf(A \cup B)
<1>1. CASE A = {}
  BY <1>1, LastOfNone
<1>2. CASE A # {}
  <2>1. PICK a \in A : LastOf(A) = {a} /\ \A u \in A \ {a} : u.end <= a.start
    BY <1>2, LastOfTurns
  <2>2. {a} \cup B \in SUBSET ToSet(rows) /\ A \cup B \in SUBSET ToSet(rows)
    OBVIOUS
  <2>3. PICK x \in {a} \cup B : /\ LastOf({a} \cup B) = {x}
                                /\ \A u \in ({a} \cup B) \ {x} : u.end <= x.start
    BY <2>2, LastOfTurns
  <2>4. PICK y \in A \cup B : /\ LastOf(A \cup B) = {y}
                              /\ \A u \in (A \cup B) \ {y} : u.end <= y.start
    BY <2>2, LastOfTurns
  <2>5. x = y
    <3>1. \A u \in A \cup B : u.start \in Nat /\ u.end \in Nat /\ u.start < u.end
      BY LineOrders
    <3>2. CASE y \in {a} \cup B
      BY <2>3, <2>4, <3>1, <3>2
    <3>3. CASE y \notin {a} \cup B
      <4>1. y \in A \ {a}
        BY <2>4, <3>3
      <4>2. y.end <= a.start /\ a.end <= y.start
        BY <2>1, <2>4, <4>1
      <4> QED BY <3>1, <4>1, <4>2
    <3> QED BY <3>2, <3>3
  <2> QED BY <2>1, <2>3, <2>4, <2>5
<1> QED BY <1>1, <1>2

Span(t) == t.start \in Nat /\ t.end \in Nat /\ t.start < t.end

LEMMA OverlapIs ==
    ASSUME NEW t, Span(t), NEW u, Span(u)
    PROVE  /\ Overlap(t, u) \in 0 .. u.end
           /\ Overlap(t, u) > 0 <=> Meets(t, u)
<1>1. t.start \in Int /\ t.end \in Int /\ u.start \in Int /\ u.end \in Int
  BY DEF Span
<1>2. /\ Min({t.end, u.end}) = IF t.end <= u.end THEN t.end ELSE u.end
      /\ Max({t.start, u.start}) = IF t.start >= u.start THEN t.start ELSE u.start
  BY <1>1, MinOfTwo, MaxOfTwo
<1> QED BY <1>2 DEF Overlap, Meets, Span

(* Of some turns that follow each other, the one a unit overlaps most.     *)
Beats(t, u, unit) ==
    \/ Overlap(t, unit) > Overlap(u, unit)
    \/ Overlap(t, unit) = Overlap(u, unit) /\ CompareInterval(t, u)

LEMMA BestOverlapIs ==
    ASSUME NEW R, NEW rows \in Seq(R), Line(rows), NEW A \in SUBSET ToSet(rows), A # {},
           NEW unit, Span(unit)
    PROVE  LET t == BestOverlap(A, unit)
           IN  t \in A /\ \A u \in A \ {t} : Beats(t, u, unit)
<1> DEFINE w(t) == Overlap(t, unit)
           W == {w(t) : t \in A}
<1>0. \A t \in A : Span(t) /\ w(t) \in 0 .. unit.end
  <2>1. \A t \in A : Span(t)
    BY LineOrders DEF Span
  <2> QED BY <2>1, OverlapIs
<1>1. unit.end \in Nat
  BY DEF Span
<1>2. PICK b \in A : \A u \in A : w(u) <= w(b)
  <2>1. W \in SUBSET (0 .. unit.end) /\ W # {}
    BY <1>0
  <2>2. Max(W) \in W /\ \A k \in W : k <= Max(W)
    <3> HIDE DEF W
    <3> QED BY <1>1, <2>1, Greatest
  <2> HIDE DEF w
  <2> QED BY <2>2
<1> DEFINE I == {i \in 1 .. Len(rows) : rows[i] \in A /\ w(rows[i]) = w(b)}
<1>3. PICK i \in I : \A k \in I : i <= k
  <2>1. I \in SUBSET Nat /\ I # {}
    BY DEF ToSet
  <2> HIDE DEF I
  <2> QED BY <2>1, Least
<1> DEFINE t == rows[i]
<1>4. t \in A /\ w(t) = w(b)
  OBVIOUS
<1>5. ASSUME NEW u \in A \ {t} PROVE Beats(t, u, unit)
  <2>1. w(u) \in Nat /\ w(t) \in Nat /\ w(u) <= w(t)
    BY <1>0, <1>2, <1>4
  <2>2. CASE w(u) = w(t)
    <3>1. PICK k \in 1 .. Len(rows) : rows[k] = u
      BY DEF ToSet
    <3>2. k \in I
      BY <1>4, <2>2, <3>1
    <3>3. i <= k /\ i # k
      BY <1>3, <3>1, <3>2
    <3>4. i \in 1 .. k - 1
      BY <3>3
    <3>5. t.end <= u.start
      BY <3>1, <3>4, LineAscends
    <3>6. Span(t) /\ Span(u)
      BY <1>0, <1>4
    <3> HIDE DEF t, I
    <3>7. t.start < u.start
      BY <3>5, <3>6 DEF Span
    <3> QED BY <2>2, <3>7 DEF Beats, CompareInterval, Earlier
  <2>3. CASE w(u) # w(t)
    <3> HIDE DEF t, I
    <3> QED BY <2>1, <2>3 DEF Beats
  <2> QED BY <2>2, <2>3
<1> HIDE DEF t, I
<1>6. t \in A /\ \A u \in A \ {t} :
        \/ Overlap(t, unit) > Overlap(u, unit)
        \/ Overlap(t, unit) = Overlap(u, unit) /\ CompareInterval(t, u)
  BY <1>4, <1>5 DEF Beats
<1>7. BestOverlap(A, unit) \in A /\ \A u \in A \ {BestOverlap(A, unit)} :
        \/ Overlap(BestOverlap(A, unit), unit) > Overlap(u, unit)
        \/ Overlap(BestOverlap(A, unit), unit) = Overlap(u, unit)
             /\ CompareInterval(BestOverlap(A, unit), u)
  BY <1>6, Zenon DEF BestOverlap
<1> QED BY <1>7 DEF Beats

(* The turns at hand for a unit: those it overlaps, the last before it and *)
(* the first after it.                                                     *)
Overlapped(turns, unit) == {t \in ToSet(turns) : t.start < unit.end /\ t.end > unit.start}
Over(turns, unit) == {t \in ToSet(turns) : t.end <= unit.start}
Yet(turns, unit) == {t \in ToSet(turns) : t.start >= unit.end}

LEMMA UnitBelongs ==
    ASSUME NEW R, NEW turns \in Seq(R), Line(turns), NEW unit, Span(unit),
           NEW current, current = Overlapped(turns, unit),
           NEW latest, latest = LastOf(Over(turns, unit)),
           NEW upcoming, upcoming \subseteq Yet(turns, unit),
           \A u \in Yet(turns, unit) : \E x \in upcoming : x = u \/ x.end <= u.start,
           \A x, y \in upcoming : x = y
    PROVE  Belongs(unit, Assignment(current, latest, upcoming, unit), ToSet(turns))
<1> DEFINE T == ToSet(turns)
           overlaps == {t \in current : Overlap(t, unit) > 0}
           before == {t \in latest : unit.start - t.end <= Tolerance}
           after == {t \in upcoming : t.start - unit.end <= Tolerance}
           nearer == {t \in before : \A u \in after : unit.start - t.end <= u.start - unit.end}
           nearest == IF nearer # {} THEN nearer ELSE after
           to == Assignment(current, latest, upcoming, unit)
<1>1. /\ unit.start \in Nat /\ unit.end \in Nat /\ unit.start < unit.end /\ Tolerance \in Nat
  BY TimelineAssumption DEF Span
<1>2. \A t \in T : t.start \in Nat /\ t.end \in Nat /\ t.start < t.end
  BY LineOrders
<1>3. \A t, u \in T : t = u \/ t.end <= u.start \/ u.end <= t.start
  BY LineOrders
<1>4. /\ overlaps = current
      /\ \A t \in T : /\ Overlap(t, unit) \in Nat
                      /\ t \in current <=> Overlap(t, unit) > 0
  <2>1. \A t \in T : /\ Overlap(t, unit) \in 0 .. unit.end
                     /\ Overlap(t, unit) > 0 <=> Meets(t, unit)
    BY <1>2, OverlapIs DEF Span
  <2>2. \A t \in T : t \in current <=> Meets(t, unit)
    BY <1>1, <1>2 DEF Overlapped, Meets
  <2>3. current \subseteq T
    BY DEF Overlapped
  <2> QED BY <2>1, <2>2, <2>3, <1>1
<1>5. to = IF overlaps # {} THEN AssignedTo("MAXIMUM_OVERLAP", BestOverlap(overlaps, unit))
           ELSE IF nearest # {} THEN AssignedTo("NEAREST_TURN", CHOOSE t \in nearest : TRUE)
           ELSE Unresolved
  BY Zenon DEF Assignment
<1>6. CASE current # {}
  <2> DEFINE t == BestOverlap(current, unit)
  <2>1. t \in current /\ \A u \in current \ {t} : Beats(t, u, unit)
    <3>1. current \in SUBSET T
      BY DEF Overlapped
    <3> QED BY <1>6, <3>1, BestOverlapIs
  <2>2. to = AssignedTo("MAXIMUM_OVERLAP", t)
    <3> HIDE DEF overlaps, nearest, to
    <3> QED BY <1>4, <1>5, <1>6
  <2> HIDE DEF t, to, overlaps
  <2>3. t \in T /\ Overlap(t, unit) > 0
    BY <1>4, <2>1 DEF Overlapped
  <2>4. ASSUME NEW u \in T \ {t}
        PROVE  \/ Overlap(u, unit) < Overlap(t, unit)
               \/ Overlap(u, unit) = Overlap(t, unit) /\ t.start < u.start
    <3>0. Overlap(u, unit) \in Nat /\ Overlap(t, unit) \in Nat
      BY <1>4, <2>3
    <3>1. CASE u \in current
      <4>1. Beats(t, u, unit)
        BY <2>1, <3>1
      <4>2. t.start # u.start
        BY <1>2, <1>3, <2>3
      <4> QED BY <1>2, <2>3, <3>0, <4>1, <4>2 DEF Beats, CompareInterval, Earlier, Tied
    <3>2. CASE u \notin current
      BY <1>4, <2>3, <3>0, <3>2
    <3> QED BY <3>1, <3>2
  <2> QED BY <2>2, <2>3, <2>4 DEF Belongs, to
<1>7. CASE current = {}
  <2> DEFINE L == Over(turns, unit)
             A == Yet(turns, unit)
  <2>1. \A t \in T : Overlap(t, unit) = 0
    BY <1>4, <1>7
  <2>2. \A t \in T : t \in L \/ t \in A
    BY <1>1, <1>2, <1>7 DEF Overlapped, Over, Yet
  <2>3. \A t \in L : t \in T /\ t.end <= unit.start /\ Gap(t, unit) = unit.start - t.end
    BY DEF Over, Gap
  <2>4. \A t \in A : t \in T /\ t.start >= unit.end /\ Gap(t, unit) = t.start - unit.end
    BY <1>1, <1>2 DEF Yet, Gap
  <2>5. \A l \in latest : l \in L /\ \A u \in L \ {l} : u.end <= l.start
    <3>1. CASE L = {}
      BY <3>1, LastOfNone
    <3>2. CASE L # {}
      <4>1. L \in SUBSET T
        BY DEF Over
      <4>2. PICK x \in L : LastOf(L) = {x} /\ \A u \in L \ {x} : u.end <= x.start
        <5> HIDE DEF L
        <5> QED BY <3>2, <4>1, LastOfTurns
      <4> QED BY <4>2
    <3> QED BY <3>1, <3>2
  <2>6. L # {} => latest # {}
    <3> SUFFICES ASSUME L # {} PROVE latest # {}
      OBVIOUS
    <3>1. L \in SUBSET T
      BY DEF Over
    <3>2. PICK x \in L : LastOf(L) = {x}
      <4> HIDE DEF L
      <4> QED BY <3>1, LastOfTurns
    <3> QED BY <3>2
  <2>7. overlaps = {}
    BY <1>4, <1>7
  <2> HIDE DEF L, A, overlaps, to
  <2>8. \A x \in after : x \in A /\ x \in T
    BY <2>4 DEF A
  <2>9. \A x \in nearer : x \in latest /\ x \in L /\ x \in T
    BY <2>3, <2>5
  <2>10. CASE nearest # {}
    <3> DEFINE t == CHOOSE x \in nearest : TRUE
    <3>1. t \in nearest
      BY <2>10
    <3>2. to = AssignedTo("NEAREST_TURN", t)
      <4> HIDE DEF nearest
      <4> QED BY <1>5, <2>7, <2>10
    <3> HIDE DEF t
    <3>3. t \in T /\ Gap(t, unit) <= Tolerance
      BY <2>3, <2>4, <2>8, <2>9, <3>1
    <3>4. ASSUME NEW u \in T \ {t}
          PROVE  \/ Gap(u, unit) > Gap(t, unit)
                 \/ Gap(u, unit) = Gap(t, unit) /\ t.start < u.start
      <4>0. /\ t.start \in Nat /\ t.end \in Nat /\ t.start < t.end
            /\ u.start \in Nat /\ u.end \in Nat /\ u.start < u.end
        BY <1>2, <3>3
      <4>1. CASE nearer # {}
        <5>1. t \in nearer
          BY <3>1, <4>1
        <5>2. CASE u \in L
          <6>1. u.end <= t.start
            BY <2>5, <2>9, <5>1, <5>2
          <6>2. Gap(u, unit) = unit.start - u.end /\ Gap(t, unit) = unit.start - t.end
            BY <2>3, <2>9, <5>1, <5>2
          <6> QED BY <1>1, <4>0, <6>1, <6>2
        <5>3. CASE u \in A
          <6>1. PICK x \in upcoming : x = u \/ x.end <= u.start
            BY <5>3 DEF A
          <6>2. x \in A /\ x \in T /\ x.start \in Nat /\ x.end \in Nat /\ x.start < x.end
            BY <1>2, <2>4 DEF A
          <6>3. /\ Gap(u, unit) = u.start - unit.end
                /\ Gap(t, unit) = unit.start - t.end
                /\ t.end <= unit.start /\ u.start >= unit.end
            BY <2>3, <2>4, <2>9, <5>1, <5>3
          <6>4. x.start <= u.start
            BY <4>0, <6>1, <6>2
          <6>5. CASE x \in after
            <7>1. unit.start - t.end <= x.start - unit.end
              BY <5>1, <6>5
            <7> QED BY <1>1, <4>0, <6>2, <6>3, <6>4, <7>1
          <6>6. CASE x \notin after
            <7>1. ~(x.start - unit.end <= Tolerance)
              BY <6>6
            <7>2. unit.start - t.end <= Tolerance
              BY <5>1
            <7> QED BY <1>1, <4>0, <6>2, <6>3, <6>4, <7>1, <7>2
          <6> QED BY <6>5, <6>6
        <5> QED BY <2>2, <5>2, <5>3
      <4>2. CASE nearer = {}
        <5>1. t \in after /\ t \in upcoming /\ t \in A
          BY <2>8, <3>1, <4>2
        <5>2. Gap(t, unit) = t.start - unit.end
          BY <2>4, <5>1
        <5>3. CASE u \in L
          <6>1. PICK l \in latest : l \in L
            BY <2>5, <2>6, <5>3
          <6>2. u = l \/ u.end <= l.start
            BY <2>5, <5>3, <6>1
          <6>3. /\ Gap(u, unit) = unit.start - u.end
                /\ l.start \in Nat /\ l.end \in Nat /\ l.start < l.end
            BY <1>2, <2>3, <5>3, <6>1
          <6>4. unit.start - l.end > t.start - unit.end
            <7>1. CASE l \in before
              <8>1. PICK x \in after : ~(unit.start - l.end <= x.start - unit.end)
                BY <4>2, <6>1, <7>1
              <8>2. x = t
                BY <5>1, <8>1
              <8> QED BY <1>1, <4>0, <6>3, <8>1, <8>2
            <7>2. CASE l \notin before
              <8>1. ~(unit.start - l.end <= Tolerance)
                BY <6>1, <7>2
              <8>2. t.start - unit.end <= Tolerance
                BY <5>1
              <8> QED BY <1>1, <4>0, <6>3, <8>1, <8>2
            <7> QED BY <7>1, <7>2
          <6> QED BY <1>1, <4>0, <5>2, <6>2, <6>3, <6>4
        <5>4. CASE u \in A
          <6>1. t.end <= u.start
            <7>1. PICK x \in upcoming : x = u \/ x.end <= u.start
              BY <5>4 DEF A
            <7>2. x = t
              BY <5>1
            <7> QED BY <7>1, <7>2
          <6>2. Gap(u, unit) = u.start - unit.end
            BY <2>4, <5>4
          <6> QED BY <1>1, <4>0, <5>2, <6>1, <6>2
        <5> QED BY <2>2, <5>3, <5>4
      <4> QED BY <4>1, <4>2
    <3> QED BY <2>1, <3>2, <3>3, <3>4 DEF Belongs, to
  <2>11. CASE nearest = {}
    <3>1. to = Unresolved
      <4> HIDE DEF nearest
      <4> QED BY <1>5, <2>7, <2>11
    <3>2. before = {} /\ after = {}
      BY <2>11
    <3>3. ASSUME NEW u \in T PROVE Gap(u, unit) > Tolerance
      <4>0. u.start \in Nat /\ u.end \in Nat /\ u.start < u.end
        BY <1>2
      <4>1. CASE u \in L
        <5>1. PICK l \in latest : l \in L
          BY <2>5, <2>6, <4>1
        <5>2. u = l \/ u.end <= l.start
          BY <2>5, <4>1, <5>1
        <5>3. l.start \in Nat /\ l.end \in Nat /\ l.start < l.end
          BY <1>2, <2>3, <5>1
        <5>4. ~(unit.start - l.end <= Tolerance)
          BY <3>2, <5>1
        <5>5. Gap(u, unit) = unit.start - u.end
          BY <2>3, <4>1
        <5> QED BY <1>1, <4>0, <5>2, <5>3, <5>4, <5>5
      <4>2. CASE u \in A
        <5>1. PICK x \in upcoming : x = u \/ x.end <= u.start
          BY <4>2 DEF A
        <5>2. x.start \in Nat /\ x.end \in Nat /\ x.start < x.end
          BY <1>2, <2>4 DEF A
        <5>3. ~(x.start - unit.end <= Tolerance)
          BY <3>2
        <5>4. Gap(u, unit) = u.start - unit.end
          BY <2>4, <4>2
        <5> QED BY <1>1, <4>0, <5>1, <5>2, <5>3, <5>4
      <4> QED BY <2>2, <4>1, <4>2
    <3> QED BY <2>1, <3>1, <3>3 DEF Belongs, to
  <2> QED BY <2>10, <2>11
<1> QED BY <1>6, <1>7

(* The cursor of the resolver, and where it is after a unit.               *)
Assignees(T) ==
    {Unresolved} \cup {AssignedTo(m, t) : m \in {"MAXIMUM_OVERLAP", "NEAREST_TURN"}, t \in T}

CursorOf(turns, U) ==
    [next : 1 .. Len(turns) + 1, active : SUBSET ToSet(turns), latest : SUBSET ToSet(turns),
     units : Seq([unit : U, to : Assignees(ToSet(turns))])]

Ended(turns, x) == {t \in ToSet(turns) : t.end <= x}

Reached(turns, c, from, to) ==
    /\ \A j \in 1 .. Len(turns) : j < c.next <=> turns[j].start < to
    /\ c.active = {t \in ToSet(turns) : t.start < to /\ t.end > from}
    /\ c.latest = LastOf(Ended(turns, from))

Spans(U) == \A u \in U : Span(u)

NextTurn(turns, cursor, unit) ==
    Max({cursor.next} \cup {i + 1 : i \in {j \in DOMAIN turns : turns[j].start < unit.end}})

LEMMA NextTurnIs ==
    ASSUME NEW R, NEW turns \in Seq(R), NEW cursor, cursor.next \in 1 .. Len(turns) + 1, NEW unit
    PROVE  LET next == NextTurn(turns, cursor, unit)
           IN  /\ next \in 1 .. Len(turns) + 1 /\ cursor.next <= next
               /\ \A j \in 1 .. Len(turns) : turns[j].start < unit.end => j < next
               /\ \/ next = cursor.next
                  \/ next - 1 \in 1 .. Len(turns) /\ turns[next - 1].start < unit.end
<1> DEFINE n == Len(turns)
           J == {j \in DOMAIN turns : turns[j].start < unit.end}
           X == {cursor.next} \cup {i + 1 : i \in J}
<1>1. n \in Nat /\ DOMAIN turns = 1 .. n
  OBVIOUS
<1>2. J \subseteq 1 .. n
  BY <1>1
<1>3. X \in SUBSET (0 .. n + 1) /\ X # {} /\ n + 1 \in Nat /\ \A x \in X : x \in 1 .. n + 1
  <2> HIDE DEF J, n
  <2>1. \A i \in J : i + 1 \in 1 .. n + 1 /\ i + 1 \in 0 .. n + 1
    BY <1>1, <1>2
  <2>2. cursor.next \in 1 .. n + 1 /\ cursor.next \in 0 .. n + 1
    BY <1>1 DEF n
  <2> QED BY <1>1, <2>1, <2>2
<1>4. Max(X) \in X /\ \A k \in X : k <= Max(X)
  <2> HIDE DEF X, n
  <2> QED BY <1>3, Greatest
<1>5. NextTurn(turns, cursor, unit) = Max(X)
  BY DEF NextTurn
<1>6. ASSUME NEW j \in 1 .. n, turns[j].start < unit.end PROVE j < Max(X)
  <2>1. j \in J
    BY <1>1, <1>6
  <2>2. j + 1 <= Max(X)
    BY <2>1, <1>4
  <2>3. Max(X) \in 1 .. n + 1
    BY <1>3, <1>4
  <2> HIDE DEF X, n
  <2> QED BY <2>2, <2>3
<1>7. Max(X) = cursor.next \/ (Max(X) - 1 \in 1 .. n /\ turns[Max(X) - 1].start < unit.end)
  <2>1. CASE \E i \in J : Max(X) = i + 1
    <3>1. PICK i \in J : Max(X) = i + 1
      BY <2>1
    <3>2. Max(X) - 1 = i
      BY <1>2, <3>1
    <3> HIDE DEF X
    <3> QED BY <1>1, <3>1, <3>2
  <2> QED BY <1>4, <2>1
<1> HIDE DEF X, n
<1>8. /\ Max(X) \in 1 .. n + 1 /\ cursor.next <= Max(X)
      /\ \A j \in 1 .. n : turns[j].start < unit.end => j < Max(X)
      /\ Max(X) = cursor.next \/ (Max(X) - 1 \in 1 .. n /\ turns[Max(X) - 1].start < unit.end)
  <2>1. cursor.next \in X
    BY DEF X
  <2> QED BY <1>3, <1>4, <1>6, <1>7, <2>1
<1> QED BY <1>5, <1>8, Zenon DEF n

Entered(turns, cursor, next) == cursor.active \cup {turns[i] : i \in cursor.next .. next - 1}

LEMMA AssignIs ==
    ASSUME NEW turns, NEW cursor, NEW unit
    PROVE  LET next == NextTurn(turns, cursor, unit)
               entered == Entered(turns, cursor, next)
               ended == {t \in entered : t.end <= unit.start}
               current == entered \ ended
               latest == LastOf(cursor.latest \cup ended)
               upcoming == {turns[i] : i \in {next} \cap DOMAIN turns}
           IN  Assign(turns, cursor, unit) =
                 [next |-> next, active |-> current, latest |-> latest,
                  units |-> Append(cursor.units,
                              [unit |-> unit, to |-> Assignment(current, latest, upcoming, unit)])]
BY Zenon DEF Assign, NextTurn, Entered, LatestEnded

LEMMA AssignmentIsTyped ==
    ASSUME NEW R, NEW turns \in Seq(R), Line(turns), NEW unit, Span(unit),
           NEW current \in SUBSET ToSet(turns), NEW latest \in SUBSET ToSet(turns),
           NEW upcoming \in SUBSET ToSet(turns)
    PROVE  Assignment(current, latest, upcoming, unit) \in Assignees(ToSet(turns))
<1> DEFINE overlaps == {t \in current : Overlap(t, unit) > 0}
           before == {t \in latest : unit.start - t.end <= Tolerance}
           after == {t \in upcoming : t.start - unit.end <= Tolerance}
           nearer == {t \in before : \A u \in after : unit.start - t.end <= u.start - unit.end}
           nearest == IF nearer # {} THEN nearer ELSE after
           to == Assignment(current, latest, upcoming, unit)
<1>1. to = IF overlaps # {} THEN AssignedTo("MAXIMUM_OVERLAP", BestOverlap(overlaps, unit))
           ELSE IF nearest # {} THEN AssignedTo("NEAREST_TURN", CHOOSE t \in nearest : TRUE)
           ELSE Unresolved
  BY Zenon DEF Assignment
<1>2. overlaps # {} => BestOverlap(overlaps, unit) \in ToSet(turns)
  <2>1. overlaps \in SUBSET ToSet(turns)
    OBVIOUS
  <2>2. overlaps # {} => BestOverlap(overlaps, unit) \in overlaps
    <3> HIDE DEF overlaps
    <3> QED BY <2>1, BestOverlapIs
  <2> QED BY <2>1, <2>2
<1>3. nearest # {} => (CHOOSE t \in nearest : TRUE) \in ToSet(turns)
  <2>1. nearest \in SUBSET ToSet(turns)
    OBVIOUS
  <2>2. nearest # {} => (CHOOSE t \in nearest : TRUE) \in nearest
    <3> HIDE DEF nearest
    <3> QED OBVIOUS
  <2> QED BY <2>1, <2>2
<1>4. /\ Unresolved \in Assignees(ToSet(turns))
      /\ \A t \in ToSet(turns) : /\ AssignedTo("MAXIMUM_OVERLAP", t) \in Assignees(ToSet(turns))
                                /\ AssignedTo("NEAREST_TURN", t) \in Assignees(ToSet(turns))
  BY DEF Assignees
<1> HIDE DEF overlaps, nearest, to
<1>5. to \in Assignees(ToSet(turns))
  BY <1>1, <1>2, <1>3, <1>4
<1> QED BY <1>5 DEF to

LEMMA AssignIsTyped ==
    ASSUME NEW R, NEW turns \in Seq(R), Line(turns), NEW U, Spans(U),
           NEW cursor \in CursorOf(turns, U), NEW unit \in U
    PROVE  Assign(turns, cursor, unit) \in CursorOf(turns, U)
<1> DEFINE T == ToSet(turns)
           next == NextTurn(turns, cursor, unit)
           entered == Entered(turns, cursor, next)
           ended == {t \in entered : t.end <= unit.start}
           current == entered \ ended
           latest == LastOf(cursor.latest \cup ended)
           upcoming == {turns[i] : i \in {next} \cap DOMAIN turns}
           to == Assignment(current, latest, upcoming, unit)
<1>1. /\ cursor.next \in 1 .. Len(turns) + 1 /\ cursor.active \subseteq T /\ cursor.latest \subseteq T
      /\ cursor.units \in Seq([unit : U, to : Assignees(T)])
  BY DEF CursorOf
<1>2. next \in 1 .. Len(turns) + 1
  BY <1>1, NextTurnIs
<1>3. entered \in SUBSET T
  <2>1. \A i \in cursor.next .. next - 1 : i \in DOMAIN turns
    <3> HIDE DEF next
    <3> QED BY <1>1, <1>2
  <2> QED BY <1>1, <2>1 DEF Entered, ToSet
<1>4. current \in SUBSET T /\ latest \in SUBSET T /\ upcoming \in SUBSET T
  <2>1. upcoming \in SUBSET T
    BY DEF ToSet
  <2>2. latest \in SUBSET T
    <3> HIDE DEF entered
    <3> QED BY <1>1, <1>3 DEF LastOf
  <2> QED BY <1>3, <2>1, <2>2
<1>5. to \in Assignees(T)
  <2>1. Span(unit)
    BY DEF Spans
  <2> HIDE DEF current, latest, upcoming
  <2> QED BY <1>4, <2>1, AssignmentIsTyped
<1>6. Assign(turns, cursor, unit) =
        [next |-> next, active |-> current, latest |-> latest,
         units |-> Append(cursor.units, [unit |-> unit, to |-> to])]
  BY AssignIs, Zenon
<1> HIDE DEF next, current, latest, to
<1>7. Append(cursor.units, [unit |-> unit, to |-> to]) \in Seq([unit : U, to : Assignees(T)])
  BY <1>1, <1>5
<1> QED BY <1>2, <1>4, <1>6, <1>7 DEF CursorOf

(* A step of the cursor, and the assignment it makes.                      *)
LEMMA AssignReaches ==
    ASSUME NEW R, NEW turns \in Seq(R), Line(turns), NEW U, Spans(U),
           NEW cursor \in CursorOf(turns, U), NEW unit \in U,
           NEW from \in Nat, NEW upto \in Nat, from <= upto, upto <= unit.start,
           Reached(turns, cursor, from, upto)
    PROVE  LET new == Assign(turns, cursor, unit)
           IN  /\ Reached(turns, new, unit.start, unit.end)
               /\ \E to : /\ new.units = Append(cursor.units, [unit |-> unit, to |-> to])
                          /\ Belongs(unit, to, ToSet(turns))
<1> DEFINE T == ToSet(turns)
           n == Len(turns)
           next == NextTurn(turns, cursor, unit)
           entered == Entered(turns, cursor, next)
           ended == {t \in entered : t.end <= unit.start}
           current == entered \ ended
           latest == LastOf(cursor.latest \cup ended)
           upcoming == {turns[i] : i \in {next} \cap DOMAIN turns}
           to == Assignment(current, latest, upcoming, unit)
           new == Assign(turns, cursor, unit)
<1>1. new = [next |-> next, active |-> current, latest |-> latest,
             units |-> Append(cursor.units, [unit |-> unit, to |-> to])]
  BY AssignIs, Zenon
<1>2. cursor.next \in 1 .. n + 1 /\ n \in Nat /\ DOMAIN turns = 1 .. n
  BY DEF CursorOf
<1>3. unit.start \in Nat /\ unit.end \in Nat /\ unit.start < unit.end
  BY DEF Spans, Span
<1>4. /\ next \in 1 .. n + 1 /\ cursor.next <= next
      /\ \A j \in 1 .. n : turns[j].start < unit.end => j < next
      /\ next = cursor.next \/ (next - 1 \in 1 .. n /\ turns[next - 1].start < unit.end)
  BY <1>2, NextTurnIs
<1>5. \A t \in T : t.start \in Nat /\ t.end \in Nat /\ t.start < t.end
  BY LineOrders
<1>6. \A i \in 1 .. n : turns[i] \in T
  BY DEF ToSet
<1> HIDE DEF next
<1>7. ASSUME NEW j \in 1 .. n PROVE j < next <=> turns[j].start < unit.end
  <2> SUFFICES ASSUME j < next PROVE turns[j].start < unit.end
    BY <1>4
  <2>0. turns[j].start \in Nat /\ turns[j].end \in Nat /\ turns[j].start < turns[j].end
    BY <1>5, <1>6
  <2>1. CASE j < cursor.next
    <3>1. turns[j].start < upto
      BY <2>1 DEF Reached
    <3> QED BY <1>3, <2>0, <3>1
  <2>2. CASE ~(j < cursor.next)
    <3>1. PICK k \in 1 .. n : k = next - 1 /\ turns[k].start < unit.end
      BY <1>2, <1>4, <2>2
    <3>2. j = k \/ j \in 1 .. k - 1
      BY <1>4, <3>1
    <3>3. j = k \/ turns[j].end <= turns[k].start
      BY <3>2, LineAscends
    <3>4. turns[k].start \in Nat
      BY <1>5, <1>6
    <3> QED BY <1>3, <2>0, <3>1, <3>3, <3>4
  <2> QED BY <2>1, <2>2
<1>8. entered = {t \in T : t.start < unit.end /\ t.end > from}
  <2>1. ASSUME NEW t \in entered PROVE t \in T /\ t.start < unit.end /\ t.end > from
    <3>1. CASE t \in cursor.active
      <4>1. t \in T /\ t.start < upto /\ t.end > from
        BY <3>1 DEF Reached
      <4> QED BY <1>3, <1>5, <4>1
    <3>2. CASE t \notin cursor.active
      <4>1. PICK i \in cursor.next .. next - 1 : t = turns[i]
        BY <3>2 DEF Entered
      <4>2. i \in 1 .. n /\ i < next /\ ~(i < cursor.next)
        BY <1>2, <1>4
      <4>3. turns[i].start < unit.end /\ ~(turns[i].start < upto)
        BY <1>7, <4>2 DEF Reached
      <4>4. t \in T /\ t.start \in Nat /\ t.end \in Nat /\ t.start < t.end
        BY <1>5, <1>6, <4>1, <4>2
      <4> QED BY <4>1, <4>3, <4>4
    <3> QED BY <3>1, <3>2
  <2>2. ASSUME NEW t \in T, t.start < unit.end, t.end > from PROVE t \in entered
    <3>1. PICK i \in 1 .. n : t = turns[i]
      BY <1>2 DEF ToSet
    <3>2. i < next
      BY <1>7, <2>2, <3>1
    <3>3. CASE i < cursor.next
      <4>1. t.start < upto
        BY <3>1, <3>3 DEF Reached
      <4>2. t \in cursor.active
        BY <2>2, <4>1 DEF Reached
      <4> QED BY <4>2 DEF Entered
    <3>4. CASE ~(i < cursor.next)
      <4>1. i \in cursor.next .. next - 1
        BY <1>2, <1>4, <3>2, <3>4
      <4> QED BY <3>1, <4>1 DEF Entered
    <3> QED BY <3>3, <3>4
  <2> HIDE DEF entered
  <2> QED BY <2>1, <2>2
<1> HIDE DEF entered
<1>9. current = Overlapped(turns, unit)
  BY <1>3, <1>5, <1>8 DEF Overlapped
<1>10. latest = LastOf(Over(turns, unit))
  <2>1. cursor.latest = LastOf(Ended(turns, from))
    BY DEF Reached
  <2>2. Ended(turns, from) \cup ended = Over(turns, unit)
    <3>1. ASSUME NEW t \in T
          PROVE  t \in Ended(turns, from) \/ t \in ended <=> t \in Over(turns, unit)
      <4>1. t.start \in Nat /\ t.end \in Nat /\ t.start < t.end
        BY <1>5
      <4> QED BY <1>3, <1>8, <4>1 DEF Ended, Over
    <3>2. Ended(turns, from) \subseteq T /\ ended \subseteq T /\ Over(turns, unit) \subseteq T
      BY <1>8 DEF Ended, Over
    <3> HIDE DEF ended
    <3> QED BY <3>1, <3>2
  <2>3. Ended(turns, from) \in SUBSET T /\ ended \in SUBSET T
    BY <1>8 DEF Ended
  <2> HIDE DEF ended
  <2>4. LastOf(LastOf(Ended(turns, from)) \cup ended) = LastOf(Ended(turns, from) \cup ended)
    <3>1. \A A, B \in SUBSET T : LastOf(LastOf(A) \cup B) = LastOf(A \cup B)
      BY LastOfBoth
    <3> QED BY <2>3, <3>1, Zenon
  <2> QED BY <2>1, <2>2, <2>4
<1>11. upcoming \subseteq Yet(turns, unit)
  <2> SUFFICES ASSUME NEW i \in 1 .. n, i = next PROVE turns[i] \in Yet(turns, unit)
    BY <1>2
  <2>1. ~(turns[i].start < unit.end) /\ turns[i] \in T
    BY <1>4, <1>6, <1>7
  <2> QED BY <1>3, <1>5, <2>1 DEF Yet
<1>12. ASSUME NEW u \in Yet(turns, unit) PROVE \E x \in upcoming : x = u \/ x.end <= u.start
  <2>1. PICK j \in 1 .. n : u = turns[j]
    BY <1>2 DEF Yet, ToSet
  <2>2. u \in T /\ u.start >= unit.end
    BY DEF Yet
  <2>3. ~(turns[j].start < unit.end)
    BY <1>3, <1>5, <2>1, <2>2
  <2>4. ~(j < next)
    BY <1>7, <2>3
  <2>5. next \in 1 .. n /\ (j = next \/ next \in 1 .. j - 1)
    BY <1>4, <2>4
  <2>6. turns[next] \in upcoming
    BY <1>2, <2>5
  <2>7. turns[next] = u \/ turns[next].end <= u.start
    BY <2>1, <2>5, LineAscends
  <2> HIDE DEF upcoming
  <2> QED BY <2>6, <2>7
<1>13. \A x, y \in upcoming : x = y
  OBVIOUS
<1>14. Belongs(unit, to, T)
  <2>1. Span(unit)
    BY DEF Spans
  <2> HIDE DEF current, latest, upcoming, T
  <2> QED BY <1>9, <1>10, <1>11, <1>12, <1>13, <2>1, UnitBelongs DEF T
<1>15. Reached(turns, new, unit.start, unit.end)
  <2> HIDE DEF current, latest, to, new
  <2>1. new.next = next /\ new.active = current /\ new.latest = latest
    BY <1>1
  <2>2. Over(turns, unit) = Ended(turns, unit.start)
    BY DEF Over, Ended
  <2> QED BY <1>7, <1>9, <1>10, <2>1, <2>2 DEF Reached, Overlapped
<1>16. new.units = Append(cursor.units, [unit |-> unit, to |-> to])
  <2> HIDE DEF current, latest, to, new
  <2> QED BY <1>1
<1> HIDE DEF new, to
<1> QED BY <1>14, <1>15, <1>16 DEF new

Start == [next |-> 1, active |-> {}, latest |-> {}, units |-> <<>>]

LEMMA AssignSteps ==
    ASSUME NEW R, NEW turns \in Seq(R), Line(turns), NEW U, Spans(U), NEW units \in Seq(U)
    PROVE  \E h : /\ \A k \in 0 .. Len(units) : h[k] \in CursorOf(turns, U)
                  /\ h[0] = Start
                  /\ \A k \in 1 .. Len(units) : h[k] = Assign(turns, h[k - 1], units[k])
                  /\ AssignedUnits(turns, units) = h[Len(units)].units
<1> DEFINE N == Len(units)
           base == Start
           St == CursorOf(turns, U)
           step == [p \in (1 .. N) \X St |-> Assign(turns, p[2], units[p[1]])]
           Body(g) == [s \in SUBSET DOMAIN units |->
                         IF s = {} THEN [next |-> 1, active |-> {}, latest |-> {}, units |-> <<>>]
                         ELSE Assign(turns, g[s \ {Max(s)}], units[Max(s)])]
           iter == CHOOSE g : g = Body(g)
<1>1. N \in Nat /\ DOMAIN units = 1 .. N /\ base \in St
  <2>1. Start \in St
    BY DEF Start, CursorOf
  <2> QED BY <2>1
<1>2. step \in [(1 .. N) \X St -> St]
  <2>1. \A k \in 1 .. N, x \in St : Assign(turns, x, units[k]) \in St
    <3>1. \A k \in 1 .. N : units[k] \in U
      OBVIOUS
    <3> QED BY <3>1, AssignIsTyped
  <2> HIDE DEF St, N
  <2> QED BY <2>1
<1>3. \A k \in 1 .. N, x \in St : step[<<k, x>>] = Assign(turns, x, units[k])
  <2> HIDE DEF St, N
  <2> QED OBVIOUS
<1>4. \A g : Body(g) = [s \in SUBSET DOMAIN units |->
                          IF s = {} THEN base ELSE Assign(turns, g[s \ {Max(s)}], units[Max(s)])]
  BY DEF Start
<1> HIDE DEF St, N, step, base
<1>5. \E g : g = Body(g)
  <2>1. PICK g \in [SUBSET (1 .. N) -> St] : Folds(g, St, base, N, step)
    BY <1>1, <1>2, FoldExists
  <2>2. g = [s \in SUBSET (1 .. N) |-> g[s]]
    OBVIOUS
  <2>3. g = [s \in SUBSET DOMAIN units |->
               IF s = {} THEN base ELSE Assign(turns, g[s \ {Max(s)}], units[Max(s)])]
    BY <1>1, <1>3, <2>1, <2>2, MaxOfPart DEF Folds
  <2>4. g = Body(g)
    <3> HIDE DEF Body
    <3> QED BY <1>4, <2>3, Zenon
  <2> QED BY <2>4
<1>6. iter = Body(iter)
  BY <1>5, Zenon
<1>7. AssignedUnits(turns, units) = iter[1 .. N].units
  <2>1. AssignedUnits(turns, units) = iter[DOMAIN units].units
    BY Zenon DEF AssignedUnits, FoldLeft, MapThenFoldSet
  <2> QED BY <1>1, <2>1
<1>8. iter = [s \in SUBSET DOMAIN units |->
                IF s = {} THEN base ELSE Assign(turns, iter[s \ {Max(s)}], units[Max(s)])]
  <2> HIDE DEF iter, Body
  <2> QED BY <1>4, <1>6, Zenon
<1> HIDE DEF iter, Body
<1>9. Folds(iter, St, base, N, step)
  BY <1>1, <1>3, <1>8, MaxOfPart DEF Folds
<1>10. PICK h \in [0 .. N -> St] : Runs(h, base, N, step, iter[1 .. N])
  BY <1>1, <1>2, <1>9, FoldRuns
<1>11. \A k \in 1 .. N : h[k - 1] \in St
  BY <1>1
<1>12. \A k \in 1 .. N : h[k] = Assign(turns, h[k - 1], units[k])
  BY <1>3, <1>10, <1>11 DEF Runs
<1>13. h[0] = base /\ h[N] = iter[1 .. N] /\ \A k \in 0 .. N : h[k] \in St
  BY <1>10 DEF Runs
<1> QED BY <1>7, <1>12, <1>13 DEF N, St, base

(* The resolver gives every unit to the turn it belongs to, whatever the   *)
(* turns and units, though its cursor never goes back.                     *)
THEOREM EveryUnitBelongs ==
    ASSUME NEW R, NEW turns \in Seq(R), Line(turns), NEW U, Spans(U), NEW units \in Seq(U),
           Disjoint(units)
    PROVE  LET assigned == AssignedUnits(turns, units)
           IN  /\ assigned \in Seq([unit : U, to : Assignees(ToSet(turns))])
               /\ Len(assigned) = Len(units)
               /\ \A j \in 1 .. Len(units) :
                    /\ assigned[j].unit = units[j]
                    /\ Belongs(units[j], assigned[j].to, ToSet(turns))
<1> DEFINE N == Len(units)
           T == ToSet(turns)
           Good(list, k) ==
             /\ Len(list) = k
             /\ \A j \in 1 .. k : list[j].unit = units[j] /\ Belongs(units[j], list[j].to, T)
           from(k) == IF k = 0 THEN 0 ELSE units[k].start
           upto(k) == IF k = 0 THEN 0 ELSE units[k].end
<1>1. PICK h : /\ \A k \in 0 .. N : h[k] \in CursorOf(turns, U)
               /\ h[0] = Start
               /\ \A k \in 1 .. N : h[k] = Assign(turns, h[k - 1], units[k])
               /\ AssignedUnits(turns, units) = h[N].units
  BY AssignSteps
<1>2. N \in Nat /\ \A k \in 1 .. N :
        /\ units[k] \in U /\ units[k].start \in Nat /\ units[k].end \in Nat
        /\ units[k].start < units[k].end
  <2>1. \A k \in 1 .. N : units[k] \in U
    OBVIOUS
  <2> QED BY <2>1 DEF Spans, Span
<1> DEFINE S == {k \in 0 .. N : Reached(turns, h[k], from(k), upto(k)) /\ Good(h[k].units, k)}
<1>3. 0 \in S
  <2>1. \A t \in T : t.start \in Nat /\ t.end \in Nat /\ t.start < t.end
    BY LineOrders
  <2>2. Ended(turns, 0) = {}
    BY <2>1 DEF Ended
  <2>3. {t \in T : t.start < 0 /\ t.end > 0} = {}
    BY <2>1
  <2>4. \A j \in 1 .. Len(turns) : ~(turns[j].start < 0)
    BY <2>1 DEF ToSet
  <2>5. Reached(turns, Start, 0, 0)
    <3>1. Start.next = 1 /\ Start.active = {} /\ Start.latest = {}
      BY DEF Start
    <3>2. \A j \in 1 .. Len(turns) : ~(j < 1)
      OBVIOUS
    <3> QED BY <2>2, <2>3, <2>4, <3>1, <3>2, LastOfNone DEF Reached
  <2>6. Good(Start.units, 0)
    BY DEF Start
  <2>7. Reached(turns, h[0], from(0), upto(0)) /\ Good(h[0].units, 0)
    <3> HIDE DEF Good
    <3> QED BY <1>1, <2>5, <2>6
  <2> HIDE DEF Good, from, upto
  <2> QED BY <1>2, <2>7
<1>4. ASSUME NEW k \in 0 .. N - 1, k \in S PROVE k + 1 \in S
  <2>1. PICK m \in 1 .. N : m = k + 1
    BY <1>2
  <2>2. m - 1 = k /\ k \in 0 .. N
    BY <1>2, <2>1
  <2>3. h[m] = Assign(turns, h[k], units[m]) /\ h[k] \in CursorOf(turns, U)
    BY <1>1, <2>2
  <2>4. Reached(turns, h[k], from(k), upto(k)) /\ Good(h[k].units, k)
    BY <1>4
  <2>5. from(k) \in Nat /\ upto(k) \in Nat /\ from(k) <= upto(k) /\ upto(k) <= units[m].start
    <3>1. CASE k = 0
      BY <1>2, <3>1
    <3>2. CASE k # 0
      <4>1. k \in 1 .. N /\ m \in 2 .. N
        BY <1>2, <2>1, <3>2
      <4>2. units[m - 1].end <= units[m].start
        BY <4>1 DEF Disjoint
      <4> QED BY <1>2, <2>2, <3>2, <4>1, <4>2
    <3> QED BY <3>1, <3>2
  <2> HIDE DEF from, upto
  <2>6. /\ Reached(turns, h[m], units[m].start, units[m].end)
        /\ \E to : /\ h[m].units = Append(h[k].units, [unit |-> units[m], to |-> to])
                   /\ Belongs(units[m], to, T)
    <3>1. PICK a \in Nat, b \in Nat :
            a <= b /\ b <= units[m].start /\ Reached(turns, h[k], a, b)
      BY <2>4, <2>5
    <3>2. \A c \in CursorOf(turns, U), u \in U : b <= u.start /\ Reached(turns, c, a, b) =>
            /\ Reached(turns, Assign(turns, c, u), u.start, u.end)
            /\ \E to : /\ Assign(turns, c, u).units = Append(c.units, [unit |-> u, to |-> to])
                       /\ Belongs(u, to, T)
      BY <3>1, AssignReaches
    <3>3. units[m] \in U
      BY <1>2
    <3> QED BY <2>3, <3>1, <3>2, <3>3, Zenon
  <2>7. PICK to : /\ h[m].units = Append(h[k].units, [unit |-> units[m], to |-> to])
                  /\ Belongs(units[m], to, T)
    BY <2>6
  <2>8. Good(h[m].units, m)
    <3> DEFINE list == h[k].units
               e == [unit |-> units[m], to |-> to]
               A == [unit : U, to : Assignees(T)] \cup {e}
    <3>1. list \in Seq(A) /\ e \in A
      <4>1. list \in Seq([unit : U, to : Assignees(T)])
        BY <2>3 DEF CursorOf
      <4>2. e \in A
        OBVIOUS
      <4>3. [unit : U, to : Assignees(T)] \subseteq A
        OBVIOUS
      <4> HIDE DEF list, e, A
      <4> QED BY <4>1, <4>2, <4>3, SeqMonotonic
    <3>2. Len(list) = k /\ \A j \in 1 .. k : list[j].unit = units[j] /\ Belongs(units[j], list[j].to, T)
      BY <2>4
    <3>3. e.unit = units[m] /\ e.to = to
      OBVIOUS
    <3> HIDE DEF list, e, A
    <3>4. /\ Len(Append(list, e)) = m /\ Append(list, e)[m] = e
          /\ \A j \in 1 .. k : Append(list, e)[j] = list[j]
      BY <2>1, <3>1, <3>2
    <3>5. \A j \in 1 .. m : j \in 1 .. k \/ j = m
      BY <2>1, <1>2
    <3>6. h[m].units = Append(list, e)
      BY <2>7 DEF list, e
    <3> QED BY <2>7, <3>2, <3>3, <3>4, <3>5, <3>6
  <2>9. Reached(turns, h[m], from(m), upto(m))
    <3>1. m # 0
      OBVIOUS
    <3> QED BY <2>6, <3>1 DEF from, upto
  <2>10. m \in S
    <3> HIDE DEF Good
    <3> QED BY <2>8, <2>9
  <2> QED BY <2>1, <2>10
<1>5. \A k \in 0 .. N : k \in S
  <2> HIDE DEF S
  <2> QED BY <1>2, <1>3, <1>4, InductionTo
<1>6. N \in S
  <2> HIDE DEF S
  <2> QED BY <1>2, <1>5
<1>7. Good(h[N].units, N) /\ h[N] \in CursorOf(turns, U)
  <2>1. N \in 0 .. N
    BY <1>2
  <2> HIDE DEF Good, from, upto
  <2> QED BY <1>1, <1>6, <2>1
<1>8. h[N].units \in Seq([unit : U, to : Assignees(T)])
  BY <1>7 DEF CursorOf
<1> QED BY <1>1, <1>7, <1>8

(* What the units of a transcript are.                                     *)
SegmentOf == [start : Nat, end : Nat, words : Seq([start : Nat, end : Nat])]
UnitOf == {u \in [start : Nat, end : Nat, segment : Nat, words : Nat] : u.start < u.end}

UnitAt(i, row, words) == [start |-> row.start, end |-> row.end, segment |-> i, words |-> words]
UnitsAt(transcript, i) ==
    LET words == transcript[i].words
    IN  IF words = <<>> THEN <<UnitAt(i, transcript[i], 0)>>
        ELSE [j \in DOMAIN words |-> UnitAt(i, words[j], 1)]

LEMMA UnitsAre ==
    ASSUME NEW transcript
    PROVE  Units(transcript) = FlattenSeq([i \in DOMAIN transcript |-> UnitsAt(transcript, i)])
BY Zenon DEF Units, UnitsAt, UnitAt

LEMMA UnitsOfSegment ==
    ASSUME NEW transcript \in Seq(SegmentOf), Accepted(transcript),
           NEW i \in 1 .. Len(transcript)
    PROVE  LET us == UnitsAt(transcript, i)
           IN  /\ us \in Seq(UnitOf)
               /\ Disjoint(us)
               /\ \A j \in 1 .. Len(us) : /\ transcript[i].start <= us[j].start
                                          /\ us[j].end <= transcript[i].end
<1> DEFINE us == UnitsAt(transcript, i)
           seg == transcript[i]
           ws == seg.words
<1>1. seg \in SegmentOf /\ i \in Nat
  OBVIOUS
<1>2. /\ Positive(seg) /\ Disjoint(ws)
      /\ \A j \in DOMAIN ws : /\ Positive(ws[j]) /\ seg.start <= ws[j].start
                              /\ ws[j].end <= seg.end
  BY DEF Accepted
<1>3. seg.start \in Nat /\ seg.end \in Nat /\ ws \in Seq([start : Nat, end : Nat])
  BY <1>1 DEF SegmentOf
<1>4. CASE ws = <<>>
  <2>1. us = <<UnitAt(i, seg, 0)>>
    BY <1>4 DEF UnitsAt
  <2> DEFINE u == UnitAt(i, seg, 0)
  <2>2. u \in UnitOf /\ u.start = seg.start /\ u.end = seg.end
    <3> HIDE DEF seg
    <3> QED BY <1>1, <1>2, <1>3 DEF UnitAt, UnitOf, Positive
  <2> HIDE DEF u, us, seg
  <2>3. us = <<u>>
    BY <2>1 DEF u
  <2>4. us \in Seq(UnitOf) /\ Len(us) = 1 /\ us[1] = u
    BY <2>2, <2>3
  <2> QED BY <1>3, <2>2, <2>4 DEF us, seg, Disjoint
<1>5. CASE ws # <<>>
  <2> HIDE DEF seg
  <2>1. us = [j \in DOMAIN ws |-> UnitAt(i, ws[j], 1)]
    BY <1>5 DEF UnitsAt, seg
  <2>2. DOMAIN ws = 1 .. Len(ws) /\ Len(ws) \in Nat
    BY <1>3
  <2>3. ASSUME NEW j \in 1 .. Len(ws)
        PROVE  /\ UnitAt(i, ws[j], 1) \in UnitOf
               /\ UnitAt(i, ws[j], 1).start = ws[j].start /\ UnitAt(i, ws[j], 1).end = ws[j].end
    <3>1. ws[j] \in [start : Nat, end : Nat]
      <4> HIDE DEF ws
      <4> QED BY <1>3, ElementOfSeq
    <3>2. ws[j].start < ws[j].end
      BY <1>2, <2>2 DEF Positive
    <3> QED BY <1>1, <3>1, <3>2 DEF UnitAt, UnitOf
  <2> HIDE DEF us
  <2>4. us \in Seq(UnitOf) /\ Len(us) = Len(ws) /\ \A j \in 1 .. Len(ws) : us[j] = UnitAt(i, ws[j], 1)
    BY <2>1, <2>2, <2>3
  <2>5. \A j \in 2 .. Len(us) : us[j - 1].end <= us[j].start
    <3> SUFFICES ASSUME NEW j \in 2 .. Len(us) PROVE us[j - 1].end <= us[j].start
      OBVIOUS
    <3>1. PICK m \in 1 .. Len(ws) : m = j - 1
      BY <2>2, <2>4
    <3>2. j \in 1 .. Len(ws) /\ j \in 2 .. Len(ws)
      BY <2>2, <2>4
    <3>3. ws[j - 1].end <= ws[j].start
      BY <1>2, <3>2 DEF Disjoint
    <3>4. us[m].end = ws[m].end /\ us[j].start = ws[j].start
      BY <2>3, <2>4, <3>2
    <3> QED BY <3>1, <3>3, <3>4
  <2>6. \A j \in 1 .. Len(us) : seg.start <= us[j].start /\ us[j].end <= seg.end
    BY <1>2, <2>2, <2>3, <2>4
  <2> QED BY <2>4, <2>5, <2>6 DEF Disjoint, us, seg
<1> QED BY <1>4, <1>5

LEMMA DisjointConcat ==
    ASSUME NEW R, NEW a \in Seq(R), NEW b \in Seq(R), Disjoint(a), Disjoint(b), NEW x \in Nat,
           \A j \in 1 .. Len(a) : a[j].end \in Nat /\ a[j].end <= x,
           \A j \in 1 .. Len(b) : b[j].start \in Nat /\ x <= b[j].start
    PROVE  Disjoint(a \o b)
<1> DEFINE c == a \o b
           n == Len(a)
           m == Len(b)
<1>1. /\ n \in Nat /\ m \in Nat /\ Len(c) = n + m
      /\ \A i \in 1 .. n : c[i] = a[i]
      /\ \A i \in n + 1 .. n + m : c[i] = b[i - n]
  OBVIOUS
<1> HIDE DEF c
<1>2. ASSUME NEW i \in 2 .. Len(c) PROVE c[i - 1].end <= c[i].start
  <2>1. PICK k : k = i - 1 /\ k \in 1 .. n + m /\ i \in 1 .. n + m
    BY <1>1
  <2>2. CASE i <= n
    <3>1. c[k] = a[k] /\ c[i] = a[i]
      BY <1>1, <2>1, <2>2
    <3>2. a[i - 1].end <= a[i].start
      BY <1>1, <2>2 DEF Disjoint
    <3> QED BY <2>1, <3>1, <3>2
  <2>3. CASE k > n
    <3>1. PICK p : p = i - n /\ p \in 2 .. m
      BY <1>1, <2>1, <2>3
    <3>2. PICK q : q = k - n /\ q \in 1 .. m /\ p - 1 = q
      BY <1>1, <2>1, <2>3, <3>1
    <3>3. c[k] = b[q] /\ c[i] = b[p]
      <4>1. k \in n + 1 .. n + m /\ i \in n + 1 .. n + m
        BY <1>1, <2>1, <2>3
      <4>2. c[k] = b[k - n] /\ c[i] = b[i - n]
        BY <1>1, <4>1
      <4> QED BY <3>1, <3>2, <4>2
    <3>4. b[p - 1].end <= b[p].start
      BY <3>1 DEF Disjoint
    <3> QED BY <2>1, <3>2, <3>3, <3>4
  <2>4. CASE k = n /\ i = n + 1
    <3>1. PICK p : p = i - n /\ p = 1 /\ p \in 1 .. m
      BY <1>1, <2>1, <2>4
    <3>2. c[k] = a[k] /\ k \in 1 .. n /\ c[i] = b[p]
      BY <1>1, <2>1, <2>4, <3>1
    <3>3. a[k].end \in Nat /\ a[k].end <= x /\ b[p].start \in Nat /\ x <= b[p].start
      BY <3>1, <3>2
    <3> QED BY <2>1, <3>2, <3>3
  <2> QED BY <1>1, <2>1, <2>2, <2>3, <2>4
<1> QED BY <1>2 DEF Disjoint, c

LEMMA UnitsAreOrdered ==
    ASSUME NEW transcript \in Seq(SegmentOf), Accepted(transcript)
    PROVE  Units(transcript) \in Seq(UnitOf) /\ Disjoint(Units(transcript))
<1> DEFINE N == Len(transcript)
           ss == [i \in DOMAIN transcript |-> UnitsAt(transcript, i)]
           upto(k) == IF k = 0 THEN 0 ELSE transcript[k].end
           Fine(list, k) ==
             /\ list \in Seq(UnitOf) /\ Disjoint(list)
             /\ \A j \in 1 .. Len(list) : list[j].end <= upto(k)
<1>1. N \in Nat /\ DOMAIN transcript = 1 .. N
  OBVIOUS
<1>2. ss \in Seq(Seq(UnitOf)) /\ Len(ss) = N /\ \A i \in 1 .. N : ss[i] = UnitsAt(transcript, i)
  <2>1. \A i \in 1 .. N : UnitsAt(transcript, i) \in Seq(UnitOf)
    BY UnitsOfSegment
  <2> HIDE DEF N
  <2> QED BY <1>1, <2>1
<1>3. Units(transcript) = FlattenSeq(ss)
  BY UnitsAre
<1> HIDE DEF ss
<1>4. PICK f : Flattens(f, ss, UnitOf)
  BY <1>2, FlattenSteps
<1>5. \A i \in 1 .. N : /\ transcript[i].start \in Nat /\ transcript[i].end \in Nat
                        /\ transcript[i].start < transcript[i].end
  <2>1. \A i \in 1 .. N : transcript[i] \in SegmentOf /\ Positive(transcript[i])
    BY <1>1 DEF Accepted
  <2> QED BY <2>1 DEF SegmentOf, Positive
<1> DEFINE S == {k \in 0 .. N : Fine(f[k], k)}
<1>6. 0 \in S
  <2>1. f[0] = <<>>
    BY <1>4 DEF Flattens, Concats
  <2>2. Fine(<<>>, 0)
    BY DEF Disjoint
  <2>3. Fine(f[0], 0)
    <3> HIDE DEF Fine
    <3> QED BY <2>1, <2>2
  <2> HIDE DEF Fine
  <2> QED BY <1>1, <2>3
<1>7. ASSUME NEW k \in 0 .. N - 1, k \in S PROVE k + 1 \in S
  <2>1. PICK m \in 1 .. N : m = k + 1
    BY <1>1
  <2>2. k \in Nat /\ k < N /\ m - 1 = k
    BY <1>1, <2>1
  <2>3. f[m] = f[k] \o ss[m]
    <3>1. f[m] = f[m - 1] \o ss[m]
      BY <1>2, <1>4 DEF Flattens, Concats
    <3> QED BY <2>2, <3>1
  <2> DEFINE us == UnitsAt(transcript, m)
             fk == f[k]
  <2>4. /\ us \in Seq(UnitOf) /\ Disjoint(us)
        /\ \A j \in 1 .. Len(us) : /\ transcript[m].start <= us[j].start
                                   /\ us[j].end <= transcript[m].end
    BY UnitsOfSegment
  <2>5. fk \in Seq(UnitOf) /\ Disjoint(fk) /\ \A j \in 1 .. Len(fk) : fk[j].end <= upto(k)
    BY <1>7
  <2>6. upto(k) \in Nat /\ upto(k) <= transcript[m].start
    <3>1. CASE k = 0
      BY <1>5, <3>1
    <3>2. CASE k # 0
      <4>1. k \in 1 .. N /\ m \in 2 .. N
        BY <1>1, <2>1, <3>2
      <4>2. Disjoint(transcript)
        BY DEF Accepted
      <4>3. transcript[m - 1].end <= transcript[m].start
        BY <4>1, <4>2 DEF Disjoint
      <4> QED BY <1>5, <2>2, <3>2, <4>1, <4>3
    <3> QED BY <3>1, <3>2
  <2>7. PICK x \in Nat : x = upto(k) /\ x <= transcript[m].start
    BY <2>6
  <2> HIDE DEF us, fk, upto
  <2>8. \A j \in 1 .. Len(fk) : fk[j] \in UnitOf /\ fk[j].end \in Nat /\ fk[j].end <= x
    <3>1. \A j \in 1 .. Len(fk) : fk[j] \in UnitOf
      BY <2>5
    <3> QED BY <2>5, <2>7, <3>1 DEF UnitOf
  <2>9. \A j \in 1 .. Len(us) : /\ us[j] \in UnitOf /\ us[j].start \in Nat /\ us[j].end \in Nat
                                /\ x <= us[j].start
    <3>1. \A j \in 1 .. Len(us) : us[j] \in UnitOf
      BY <2>4
    <3>2. \A j \in 1 .. Len(us) : us[j].start \in Nat /\ us[j].end \in Nat
      BY <3>1 DEF UnitOf
    <3> QED BY <1>5, <2>4, <2>7, <3>1, <3>2
  <2>10. Disjoint(fk \o us)
    BY <2>4, <2>5, <2>8, <2>9, DisjointConcat
  <2>11. transcript[m].end \in Nat /\ x <= transcript[m].end
    BY <1>5, <2>7
  <2>12. \A j \in 1 .. Len(fk \o us) : (fk \o us)[j].end <= transcript[m].end
    <3> DEFINE c == fk \o us
               a == Len(fk)
               b == Len(us)
    <3>1. /\ a \in Nat /\ b \in Nat /\ Len(c) = a + b
          /\ \A i \in 1 .. a : c[i] = fk[i]
          /\ \A i \in a + 1 .. a + b : c[i] = us[i - a]
      BY <2>4, <2>5
    <3> HIDE DEF c
    <3>2. \A j \in 1 .. a : c[j].end <= transcript[m].end
      BY <2>8, <2>11, <3>1
    <3>3. ASSUME NEW j \in a + 1 .. a + b PROVE c[j].end <= transcript[m].end
      <4>1. PICK p \in 1 .. b : p = j - a
        BY <3>1
      <4>2. c[j] = us[p]
        BY <3>1, <4>1
      <4> QED BY <2>4, <4>2
    <3>4. \A j \in 1 .. Len(c) : j \in 1 .. a \/ j \in a + 1 .. a + b
      BY <3>1
    <3> QED BY <3>2, <3>3, <3>4 DEF c
  <2>13. fk \o us \in Seq(UnitOf)
    BY <2>4, <2>5
  <2>14. Fine(fk \o us, m)
    <3>1. upto(m) = transcript[m].end
      BY DEF upto
    <3> QED BY <2>10, <2>12, <2>13, <3>1
  <2>15. f[m] = fk \o us
    BY <1>2, <2>3 DEF fk, us
  <2>16. m \in S
    <3>1. m \in 0 .. N
      BY <1>1
    <3>2. Fine(f[m], m)
      <4> HIDE DEF Fine
      <4> QED BY <2>14, <2>15
    <3> HIDE DEF Fine
    <3> QED BY <3>1, <3>2
  <2> QED BY <2>1, <2>16
<1>8. \A k \in 0 .. N : k \in S
  <2> HIDE DEF S
  <2> QED BY <1>1, <1>6, <1>7, InductionTo
<1>9. Fine(f[N], N)
  <2>1. N \in 0 .. N
    BY <1>1
  <2>2. N \in S
    <3> HIDE DEF S
    <3> QED BY <1>8, <2>1
  <2> HIDE DEF Fine
  <2> QED BY <2>2
<1>10. f[N] = Units(transcript)
  BY <1>2, <1>3, <1>4 DEF Flattens
<1> QED BY <1>9, <1>10

(* The dialogues of assigned units.                                        *)
DialogueOf(A) == [start : Nat, end : Nat, segment : Nat, words : Nat, to : A]
AssignedOf(A) == [unit : UnitOf, to : A]

Continues(dialogues, a) ==
    /\ dialogues # <<>>
    /\ Last(dialogues).segment = a.unit.segment
    /\ Last(dialogues).to = a.to

Begun(a) == [start |-> a.unit.start, end |-> a.unit.end, segment |-> a.unit.segment,
             words |-> a.unit.words, to |-> a.to]

LEMMA GroupIs ==
    ASSUME NEW dialogues, NEW a
    PROVE  Group(dialogues, a) =
             IF Continues(dialogues, a)
             THEN [dialogues EXCEPT ![Len(dialogues)] = Prolong(@, a.unit)]
             ELSE Append(dialogues, Begun(a))
BY Zenon DEF Group, Continues, Begun

LEMMA ProlongIs ==
    ASSUME NEW A, NEW d \in DialogueOf(A), NEW u \in UnitOf
    PROVE  /\ Prolong(d, u) \in DialogueOf(A)
           /\ Prolong(d, u).start = d.start /\ Prolong(d, u).end = u.end
           /\ Prolong(d, u).segment = d.segment /\ Prolong(d, u).to = d.to
<1>1. d.words \in Nat /\ u.words \in Nat /\ u.end \in Nat
  BY DEF DialogueOf, UnitOf
<1>2. d.words + u.words \in Nat
  BY <1>1
<1> DEFINE e == Prolong(d, u)
<1>3. e = [[d EXCEPT !.end = u.end] EXCEPT !.words = d.words + u.words]
  BY DEF Prolong, DialogueOf
<1>4. [d EXCEPT !.end = u.end] \in DialogueOf(A)
  BY <1>1 DEF DialogueOf
<1> HIDE DEF e
<1>5. e \in DialogueOf(A)
  BY <1>2, <1>3, <1>4 DEF DialogueOf
<1>6. e.start = d.start /\ e.end = u.end /\ e.segment = d.segment /\ e.to = d.to
  BY <1>1, <1>2, <1>3 DEF DialogueOf
<1> QED BY <1>5, <1>6 DEF e

LEMMA BegunIs ==
    ASSUME NEW A, NEW a \in AssignedOf(A)
    PROVE  Begun(a) \in DialogueOf(A)
BY DEF Begun, DialogueOf, AssignedOf, UnitOf

LEMMA GroupIsTyped ==
    ASSUME NEW A, NEW dialogues \in Seq(DialogueOf(A)), NEW a \in AssignedOf(A)
    PROVE  Group(dialogues, a) \in Seq(DialogueOf(A))
<1>1. CASE Continues(dialogues, a)
  <2>1. Len(dialogues) \in 1 .. Len(dialogues) /\ dialogues[Len(dialogues)] \in DialogueOf(A)
    BY <1>1 DEF Continues
  <2>2. a.unit \in UnitOf
    BY DEF AssignedOf
  <2>3. Prolong(dialogues[Len(dialogues)], a.unit) \in DialogueOf(A)
    BY <2>1, <2>2, ProlongIs
  <2> QED BY <1>1, <2>1, <2>3, GroupIs
<1>2. CASE ~Continues(dialogues, a)
  BY <1>2, GroupIs, BegunIs
<1> QED BY <1>1, <1>2

LEMMA GroupSteps ==
    ASSUME NEW A, NEW w \in Seq(AssignedOf(A))
    PROVE  \E h : /\ \A k \in 0 .. Len(w) : h[k] \in Seq(DialogueOf(A))
                  /\ h[0] = <<>>
                  /\ \A k \in 1 .. Len(w) : h[k] = Group(h[k - 1], w[k])
                  /\ FoldLeft(Group, <<>>, w) = h[Len(w)]
<1> DEFINE N == Len(w)
           none == <<>>
           St == Seq(DialogueOf(A))
           step == [p \in (1 .. N) \X St |-> Group(p[2], w[p[1]])]
           Body(g) == [s \in SUBSET DOMAIN w |->
                         IF s = {} THEN none ELSE Group(g[s \ {Max(s)}], w[Max(s)])]
           iter == CHOOSE g : g = Body(g)
<1>1. N \in Nat /\ DOMAIN w = 1 .. N /\ none \in St
  OBVIOUS
<1>2. step \in [(1 .. N) \X St -> St]
  <2>1. \A k \in 1 .. N, x \in St : Group(x, w[k]) \in St
    <3>1. \A k \in 1 .. N : w[k] \in AssignedOf(A)
      OBVIOUS
    <3> QED BY <3>1, GroupIsTyped
  <2> HIDE DEF St, N
  <2> QED BY <2>1
<1>3. \A k \in 1 .. N, x \in St : step[<<k, x>>] = Group(x, w[k])
  <2> HIDE DEF St, N
  <2> QED OBVIOUS
<1> HIDE DEF St, N, step, none
<1>4. \E g : g = Body(g)
  <2>1. PICK g \in [SUBSET (1 .. N) -> St] : Folds(g, St, none, N, step)
    BY <1>1, <1>2, FoldExists
  <2>2. g = [s \in SUBSET (1 .. N) |-> g[s]]
    OBVIOUS
  <2>3. g = Body(g)
    BY <1>1, <1>3, <2>1, <2>2, MaxOfPart DEF Folds
  <2> QED BY <2>3
<1>5. iter = Body(iter)
  BY <1>4, Zenon
<1>6. FoldLeft(Group, <<>>, w) = iter[1 .. N]
  <2>1. FoldLeft(Group, <<>>, w) = iter[DOMAIN w]
    BY Zenon DEF FoldLeft, MapThenFoldSet, none
  <2> QED BY <1>1, <2>1
<1> HIDE DEF iter
<1>7. Folds(iter, St, none, N, step)
  BY <1>1, <1>3, <1>5, MaxOfPart DEF Folds
<1>8. PICK h \in [0 .. N -> St] : Runs(h, none, N, step, iter[1 .. N])
  BY <1>1, <1>2, <1>7, FoldRuns
<1>9. \A k \in 1 .. N : h[k - 1] \in St
  BY <1>1
<1>10. \A k \in 1 .. N : h[k] = Group(h[k - 1], w[k])
  BY <1>3, <1>8, <1>9 DEF Runs
<1>11. h[0] = none /\ h[N] = iter[1 .. N] /\ \A k \in 0 .. N : h[k] \in St
  BY <1>8 DEF Runs
<1> QED BY <1>6, <1>10, <1>11 DEF N, St, none

Holds(d, a) ==
    /\ d.segment = a.unit.segment /\ d.to = a.to
    /\ d.start <= a.unit.start /\ a.unit.end <= d.end

Grouped(A, dialogues, w, k, upto) ==
    /\ dialogues \in Seq(DialogueOf(A))
    /\ \A i \in 1 .. Len(dialogues) : dialogues[i].start < dialogues[i].end
    /\ Disjoint(dialogues)
    /\ \A i \in 2 .. Len(dialogues) :
         \/ dialogues[i - 1].segment # dialogues[i].segment
         \/ dialogues[i - 1].to # dialogues[i].to
    /\ \A j \in 1 .. k : \E i \in 1 .. Len(dialogues) : Holds(dialogues[i], w[j])
    /\ dialogues # <<>> => Last(dialogues).end <= upto

LEMMA GroupGrows ==
    ASSUME NEW A, NEW w \in Seq(AssignedOf(A)), NEW k \in Nat, NEW m \in 1 .. Len(w), m = k + 1,
           NEW dialogues, NEW upto \in Nat, upto <= w[m].unit.start,
           Grouped(A, dialogues, w, k, upto)
    PROVE  Grouped(A, Group(dialogues, w[m]), w, m, w[m].unit.end)
<1> DEFINE n == Len(dialogues)
           a == w[m]
           u == a.unit
           new == Group(dialogues, a)
<1>1. a \in AssignedOf(A) /\ u \in UnitOf /\ a.to \in A
  <2>1. a \in AssignedOf(A)
    OBVIOUS
  <2> HIDE DEF a
  <2> QED BY <2>1 DEF AssignedOf
<1>2. u.start \in Nat /\ u.end \in Nat /\ u.start < u.end /\ upto <= u.start
  <2>1. upto <= u.start
    OBVIOUS
  <2> HIDE DEF u
  <2> QED BY <1>1, <2>1 DEF UnitOf
<1>3. dialogues \in Seq(DialogueOf(A)) /\ n \in Nat
  BY DEF Grouped
<1>4. \A i \in 1 .. n : /\ dialogues[i] \in DialogueOf(A)
                        /\ dialogues[i].start \in Nat /\ dialogues[i].end \in Nat
                        /\ dialogues[i].start < dialogues[i].end
  <2>1. \A i \in 1 .. n : dialogues[i] \in DialogueOf(A)
    BY <1>3
  <2> QED BY <2>1 DEF Grouped, DialogueOf
<1>5. \A j \in 1 .. m : j \in 1 .. k \/ j = m
  OBVIOUS
<1> HIDE DEF a, u
<1>6. new \in Seq(DialogueOf(A))
  BY <1>1, <1>3, GroupIsTyped
<1>7. CASE Continues(dialogues, a)
  <2> DEFINE d == dialogues[n]
             e == Prolong(d, u)
  <2>1. n \in 1 .. n /\ d \in DialogueOf(A) /\ d = Last(dialogues)
    BY <1>3, <1>4, <1>7 DEF Continues, Last
  <2>2. /\ e.start = d.start /\ e.end = u.end /\ e.segment = d.segment /\ e.to = d.to
        /\ e \in DialogueOf(A)
    BY <1>1, <2>1, ProlongIs
  <2>3. d.segment = u.segment /\ d.to = a.to /\ d.end <= upto
    BY <1>7, <2>1 DEF Continues, Grouped, u
  <2>4. d.start \in Nat /\ d.end \in Nat /\ d.start < d.end
    BY <1>4, <2>1
  <2> HIDE DEF e, d
  <2>5. /\ new = [dialogues EXCEPT ![n] = e] /\ Len(new) = n /\ new[n] = e
        /\ \A i \in 1 .. n - 1 : new[i] = dialogues[i]
    <3>1. new = [dialogues EXCEPT ![n] = e]
      BY <1>7, GroupIs DEF e, d, u
    <3> QED BY <1>3, <2>1, <2>2, <3>1
  <2> HIDE DEF new
  <2>6. \A i \in 1 .. n : i = n \/ i \in 1 .. n - 1
    BY <1>3
  <2>7. \A i \in 1 .. n : /\ new[i].start = dialogues[i].start /\ new[i].segment = dialogues[i].segment
                          /\ new[i].to = dialogues[i].to
                          /\ dialogues[i].end <= new[i].end /\ new[i].start < new[i].end
    BY <1>2, <1>4, <2>2, <2>3, <2>4, <2>5, <2>6 DEF d
  <2>8. Disjoint(new)
    <3> SUFFICES ASSUME NEW i \in 2 .. n PROVE new[i - 1].end <= new[i].start
      BY <2>5 DEF Disjoint
    <3>1. PICK p \in 1 .. n - 1 : p = i - 1
      BY <1>3
    <3>2. dialogues[i - 1].end <= dialogues[i].start
      BY DEF Grouped, Disjoint
    <3>3. new[p] = dialogues[p] /\ new[i].start = dialogues[i].start
      BY <1>3, <2>5, <2>7
    <3> QED BY <3>1, <3>2, <3>3
  <2>9. \A i \in 2 .. n : new[i - 1].segment # new[i].segment \/ new[i - 1].to # new[i].to
    <3> SUFFICES ASSUME NEW i \in 2 .. n
                 PROVE  new[i - 1].segment # new[i].segment \/ new[i - 1].to # new[i].to
      OBVIOUS
    <3>1. PICK p \in 1 .. n - 1 : p = i - 1
      BY <1>3
    <3>2. dialogues[i - 1].segment # dialogues[i].segment \/ dialogues[i - 1].to # dialogues[i].to
      BY DEF Grouped
    <3>3. /\ new[p] = dialogues[p] /\ new[i].segment = dialogues[i].segment
          /\ new[i].to = dialogues[i].to
      BY <1>3, <2>5, <2>7
    <3> QED BY <3>1, <3>2, <3>3
  <2>10. ASSUME NEW j \in 1 .. m PROVE \E i \in 1 .. n : Holds(new[i], w[j])
    <3>1. CASE j = m
      <4>1. Holds(e, a)
        BY <1>2, <2>2, <2>3, <2>4 DEF Holds, u
      <4> QED BY <2>1, <2>5, <3>1, <4>1 DEF a
    <3>2. CASE j \in 1 .. k
      <4>1. PICK i \in 1 .. n : Holds(dialogues[i], w[j])
        BY <3>2 DEF Grouped
      <4>2. w[j].unit.end \in Nat
        <5>1. j \in 1 .. Len(w)
          OBVIOUS
        <5>2. w[j] \in AssignedOf(A)
          BY <5>1
        <5> QED BY <5>2 DEF AssignedOf, UnitOf
      <4>3. new[i].end \in Nat
        BY <1>4, <1>2, <2>2, <2>5, <2>6
      <4>4. dialogues[i].end \in Nat
        BY <1>4
      <4>5. w[j].unit.end <= dialogues[i].end /\ dialogues[i].end <= new[i].end
        BY <2>7, <4>1 DEF Holds
      <4>6. w[j].unit.end <= new[i].end
        <5> DEFINE x == w[j].unit.end  y == dialogues[i].end  z == new[i].end
        <5>1. x \in Nat /\ y \in Nat /\ z \in Nat /\ x <= y /\ y <= z
          BY <4>2, <4>3, <4>4, <4>5
        <5> HIDE DEF x, y, z
        <5>2. x <= z
          BY <5>1
        <5> QED BY <5>2 DEF x, y, z
      <4>7. Holds(new[i], w[j])
        BY <2>7, <4>1, <4>6, Zenon DEF Holds
      <4> QED BY <4>7
    <3> QED BY <1>5, <3>1, <3>2
  <2>11. Last(new).end <= u.end
    BY <1>2, <2>2, <2>5 DEF Last
  <2>12. Grouped(A, new, w, m, u.end)
    BY <1>6, <2>5, <2>7, <2>8, <2>9, <2>10, <2>11 DEF Grouped
  <2> QED BY <2>12 DEF new, a, u
<1>8. CASE ~Continues(dialogues, a)
  <2> DEFINE e == Begun(a)
  <2>1. /\ e \in DialogueOf(A) /\ e.start = u.start /\ e.end = u.end /\ e.segment = u.segment
        /\ e.to = a.to
    BY <1>1, BegunIs DEF Begun, u
  <2> HIDE DEF e
  <2>2. /\ new = Append(dialogues, e) /\ Len(new) = n + 1 /\ new[n + 1] = e
        /\ \A i \in 1 .. n : new[i] = dialogues[i]
    <3>1. new = Append(dialogues, e)
      BY <1>8, GroupIs DEF e
    <3> QED BY <1>3, <2>1, <3>1
  <2> HIDE DEF new
  <2>3. \A i \in 1 .. n + 1 : i \in 1 .. n \/ i = n + 1
    BY <1>3
  <2>4. \A i \in 1 .. n + 1 : new[i].start < new[i].end
    BY <1>2, <1>4, <2>1, <2>2, <2>3
  <2>5. ASSUME NEW i \in 2 .. n + 1
        PROVE  /\ new[i - 1].end <= new[i].start
               /\ new[i - 1].segment # new[i].segment \/ new[i - 1].to # new[i].to
    <3>1. PICK p \in 1 .. n : p = i - 1
      BY <1>3
    <3>2. new[p] = dialogues[p]
      BY <2>2
    <3>3. CASE i = n + 1
      <4>1. p = n /\ dialogues # <<>> /\ Last(dialogues) = dialogues[n]
        BY <1>3, <3>1, <3>3 DEF Last
      <4>2. dialogues[n].end <= upto
        BY <4>1 DEF Grouped
      <4>3. dialogues[n].segment # u.segment \/ dialogues[n].to # a.to
        BY <1>8, <4>1 DEF Continues, u
      <4>4. dialogues[n].end \in Nat
        BY <1>4, <4>1
      <4>5. dialogues[n].end <= u.start
        BY <1>2, <4>2, <4>4
      <4>6. new[i - 1] = dialogues[n] /\ new[i] = e
        BY <2>2, <3>1, <3>2, <3>3, <4>1
      <4> QED BY <2>1, <4>3, <4>5, <4>6
    <3>4. CASE i # n + 1
      <4>1. i \in 2 .. n /\ i \in 1 .. n
        BY <1>3, <3>4
      <4>2. dialogues[i - 1].end <= dialogues[i].start
        BY <4>1 DEF Grouped, Disjoint
      <4>3. dialogues[i - 1].segment # dialogues[i].segment \/ dialogues[i - 1].to # dialogues[i].to
        BY <4>1 DEF Grouped
      <4>4. new[i] = dialogues[i]
        BY <2>2, <4>1
      <4>5. new[i - 1] = dialogues[i - 1]
        BY <3>1, <3>2
      <4> QED BY <4>2, <4>3, <4>4, <4>5
    <3> QED BY <3>3, <3>4
  <2>6. ASSUME NEW j \in 1 .. m PROVE \E i \in 1 .. n + 1 : Holds(new[i], w[j])
    <3>1. CASE j = m
      <4>1. Holds(e, a)
        BY <1>2, <2>1 DEF Holds, u
      <4>2. n + 1 \in 1 .. n + 1
        BY <1>3
      <4> QED BY <2>2, <3>1, <4>1, <4>2 DEF a
    <3>2. CASE j \in 1 .. k
      <4>1. PICK i \in 1 .. n : Holds(dialogues[i], w[j])
        BY <3>2 DEF Grouped
      <4>2. i \in 1 .. n + 1 /\ new[i] = dialogues[i]
        BY <1>3, <2>2
      <4> QED BY <4>1, <4>2
    <3> QED BY <1>5, <3>1, <3>2
  <2>7. Last(new).end <= u.end
    BY <1>2, <2>1, <2>2 DEF Last
  <2>8. Disjoint(new)
    BY <2>2, <2>5 DEF Disjoint
  <2>9. Grouped(A, new, w, m, u.end)
    <3> HIDE DEF n
    <3> QED BY <1>6, <2>2, <2>4, <2>5, <2>6, <2>7, <2>8 DEF Grouped
  <2> QED BY <2>9 DEF new, a, u
<1> QED BY <1>7, <1>8

(* A dialogue with a unit is the only one around it.                       *)
LEMMA OneDialogue ==
    ASSUME NEW R, NEW dialogues \in Seq(R), Line(dialogues), NEW u, Span(u),
           NEW i \in 1 .. Len(dialogues), NEW j \in 1 .. Len(dialogues),
           dialogues[i].start <= u.start, u.end <= dialogues[i].end,
           dialogues[j].start <= u.start, u.end <= dialogues[j].end
    PROVE  i = j
<1>1. ASSUME NEW p \in 1 .. Len(dialogues), NEW q \in 1 .. p - 1,
             dialogues[p].start <= u.start, u.end <= dialogues[p].end,
             dialogues[q].start <= u.start, u.end <= dialogues[q].end
      PROVE  FALSE
  <2>1. q \in 1 .. Len(dialogues)
    OBVIOUS
  <2>2. dialogues[p].start \in Nat /\ dialogues[q].end \in Nat
    BY <2>1 DEF Line
  <2>3. dialogues[q].end <= dialogues[p].start
    BY LineAscends
  <2>4. u.start \in Nat /\ u.end \in Nat /\ u.start < u.end
    BY DEF Span
  <2> DEFINE a == dialogues[q].end  b == dialogues[p].start  c == u.start  d == u.end
  <2>5. a \in Nat /\ b \in Nat /\ c \in Nat /\ d \in Nat /\ a <= b /\ c < d /\ d <= a /\ b <= c
    BY <1>1, <2>2, <2>3, <2>4
  <2> HIDE DEF a, b, c, d
  <2> QED BY <2>5
<1>2. i = j \/ i \in 1 .. j - 1 \/ j \in 1 .. i - 1
  OBVIOUS
<1> QED BY <1>1, <1>2

(* Every word is in one dialogue, with the turn it belongs to, for turns   *)
(* and transcripts of any length.                                          *)
THEOREM WordsBelong ==
    ASSUME NEW R, NEW turns \in Seq(R), Line(turns),
           NEW transcript \in Seq(SegmentOf), Accepted(transcript)
    PROVE  /\ WordsAreAssigned(turns, transcript)
           /\ Line(Dialogues(turns, transcript))
           /\ Dialogues(turns, transcript) \in Seq(DialogueOf(Assignees(ToSet(turns))))
<1> DEFINE T == ToSet(turns)
           A == Assignees(T)
           units == Units(transcript)
           w == AssignedUnits(turns, units)
           N == Len(units)
           ds == Dialogues(turns, transcript)
<1>1. units \in Seq(UnitOf) /\ Disjoint(units)
  BY UnitsAreOrdered
<1>2. Spans(UnitOf)
  BY DEF Spans, Span, UnitOf
<1> HIDE DEF units
<1>3. /\ w \in Seq([unit : UnitOf, to : A]) /\ Len(w) = N
      /\ \A j \in 1 .. N : w[j].unit = units[j] /\ Belongs(units[j], w[j].to, T)
  BY <1>1, <1>2, EveryUnitBelongs
<1>4. ds = FoldLeft(Group, <<>>, w)
  BY DEF Dialogues, units
<1> HIDE DEF w, ds
<1>5. w \in Seq(AssignedOf(A)) /\ N \in Nat
  BY <1>1, <1>3 DEF AssignedOf
<1>6. \A j \in 1 .. N : Span(units[j]) /\ units[j] \in UnitOf
  <2>1. \A j \in 1 .. N : units[j] \in UnitOf
    BY <1>1
  <2> QED BY <1>2, <2>1 DEF Spans
<1>7. PICK h : /\ \A k \in 0 .. Len(w) : h[k] \in Seq(DialogueOf(A))
               /\ h[0] = <<>>
               /\ \A k \in 1 .. Len(w) : h[k] = Group(h[k - 1], w[k])
               /\ FoldLeft(Group, <<>>, w) = h[Len(w)]
  <2> HIDE DEF A
  <2> QED BY <1>5, GroupSteps
<1> HIDE DEF A, T
<1> DEFINE upto(k) == IF k = 0 THEN 0 ELSE units[k].end
           S == {k \in 0 .. N : Grouped(A, h[k], w, k, upto(k))}
<1>8. 0 \in S
  <2>1. <<>> \in Seq(DialogueOf(A)) /\ Len(<<>>) = 0 /\ 1 .. 0 = {} /\ 2 .. 0 = {}
    OBVIOUS
  <2>2. Grouped(A, <<>>, w, 0, 0)
    BY <2>1 DEF Grouped, Disjoint
  <2> QED BY <1>5, <1>7, <2>2
<1>9. ASSUME NEW k \in 0 .. N - 1, k \in S PROVE k + 1 \in S
  <2>1. PICK m \in 1 .. N : m = k + 1
    BY <1>5
  <2>2. m - 1 = k /\ k \in Nat /\ m \in 1 .. Len(w)
    BY <1>3, <1>5, <2>1
  <2>3. w[m].unit = units[m]
    BY <1>3
  <2>4. upto(k) \in Nat /\ upto(k) <= units[m].start
    <3>1. units[m].start \in Nat
      BY <1>6 DEF Span
    <3>2. CASE k = 0
      BY <3>1, <3>2
    <3>3. CASE k # 0
      <4>1. k \in 1 .. N /\ m \in 2 .. N
        BY <2>1, <3>3
      <4>2. units[m - 1].end <= units[m].start
        BY <1>1, <4>1 DEF Disjoint
      <4>3. units[k].end \in Nat
        BY <1>6, <4>1 DEF Span
      <4> QED BY <2>2, <3>3, <4>2, <4>3
    <3> QED BY <3>2, <3>3
  <2>5. upto(k) <= w[m].unit.start
    BY <2>3, <2>4
  <2>6. Grouped(A, h[k], w, k, upto(k))
    BY <1>9
  <2>7. upto(m) = w[m].unit.end
    BY <2>1, <2>3
  <2> HIDE DEF upto
  <2>8. Grouped(A, Group(h[k], w[m]), w, m, w[m].unit.end)
    <3> DEFINE d == h[k]  x == upto(k)
    <3>1. x \in Nat /\ x <= w[m].unit.start /\ Grouped(A, d, w, k, x)
      BY <2>4, <2>5, <2>6
    <3> HIDE DEF d, x
    <3>2. Grouped(A, Group(d, w[m]), w, m, w[m].unit.end)
      BY <1>5, <2>1, <2>2, <3>1, GroupGrows
    <3> QED BY <3>2 DEF d
  <2>9. h[m] = Group(h[k], w[m])
    BY <1>7, <2>2
  <2> QED BY <2>1, <2>7, <2>8, <2>9
<1>10. Grouped(A, ds, w, N, upto(N))
  <2>1. N \in S
    <3>1. N \in Nat /\ \A k \in 0 .. N - 1 : k \in S => k + 1 \in S
      <4> HIDE DEF S
      <4> QED BY <1>5, <1>9
    <3>2. N \in 0 .. N
      BY <3>1
    <3> HIDE DEF S, N
    <3>3. \A k \in 0 .. N : k \in S
      BY <1>8, <3>1, InductionTo
    <3> QED BY <3>2, <3>3
  <2> QED BY <1>3, <1>4, <1>7, <2>1
<1> HIDE DEF upto, S
<1>11. /\ ds \in Seq(DialogueOf(A)) /\ Disjoint(ds)
       /\ \A i \in 2 .. Len(ds) : ds[i - 1].segment # ds[i].segment \/ ds[i - 1].to # ds[i].to
       /\ \A j \in 1 .. N : \E i \in 1 .. Len(ds) : Holds(ds[i], w[j])
       /\ \A i \in 1 .. Len(ds) : ds[i].start < ds[i].end
  BY <1>10 DEF Grouped
<1>12. Line(ds)
  <2>1. \A i \in 1 .. Len(ds) : ds[i] \in DialogueOf(A)
    BY <1>11
  <2> QED BY <1>11, <2>1 DEF Line, DialogueOf
<1>13. ASSUME NEW unit \in ToSet(units)
       PROVE  LET own == {i \in DOMAIN ds : /\ ds[i].segment = unit.segment
                                            /\ ds[i].start <= unit.start
                                            /\ unit.end <= ds[i].end}
              IN  /\ Cardinality(own) = 1
                  /\ \A i \in own : Belongs(unit, ds[i].to, T)
  <2>1. PICK j \in 1 .. N : unit = units[j]
    BY DEF ToSet
  <2>2. PICK i \in 1 .. Len(ds) : Holds(ds[i], w[j])
    BY <1>11
  <2>3. w[j].unit = unit /\ Belongs(unit, w[j].to, T) /\ Span(unit)
    BY <1>3, <1>6, <2>1
  <2>4. /\ ds[i].segment = unit.segment /\ ds[i].to = w[j].to
        /\ ds[i].start <= unit.start /\ unit.end <= ds[i].end
    BY <2>2, <2>3 DEF Holds
  <2> DEFINE own == {p \in DOMAIN ds : /\ ds[p].segment = unit.segment
                                       /\ ds[p].start <= unit.start
                                       /\ unit.end <= ds[p].end}
  <2>5. DOMAIN ds = 1 .. Len(ds)
    BY <1>11
  <2>6. own = {i}
    <3>1. i \in own
      BY <2>4, <2>5
    <3>2. \A p \in own : p = i
      BY <1>11, <1>12, <2>3, <2>4, <2>5, OneDialogue
    <3> QED BY <3>1, <3>2
  <2>7. Cardinality(own) = 1
    <3> HIDE DEF own
    <3> QED BY <2>6, FS_Singleton
  <2>8. \A p \in own : Belongs(unit, ds[p].to, T)
    <3> HIDE DEF own
    <3> QED BY <2>3, <2>4, <2>6
  <2> QED BY <2>7, <2>8
<1>14. WordsAreAssigned(turns, transcript)
  BY <1>11, <1>13, Zenon DEF WordsAreAssigned, ds, units, T
<1> QED BY <1>11, <1>12, <1>14 DEF ds, A, T

-----------------------------------------------------------------------------
(* Marks: the turns that speakers share                                    *)

RowOf(Sp, O) == [start : Int, end : Int, speaker : Sp, ordinal : O]
BoundOf(Sp) == [speaker : Sp, position : Int]
BoundsOf(Sp) == {<<>>} \cup {<<b>> : b \in BoundOf(Sp)}
                  \cup {<<p[1], p[2]>> : p \in BoundOf(Sp) \X BoundOf(Sp)}
SeenOf(Sp, O) == [bounds : BoundsOf(Sp), flagged : SUBSET O]

Further(b, c) == IF c.position > b.position THEN c ELSE b
InOrder(b, d) == IF d.position > b.position THEN <<d, b>> ELSE <<b, d>>

LEMMA PairIs ==
    ASSUME NEW S, NEW x \in S, NEW d \in S
    PROVE  <<x>> \o <<d>> = <<x, d>>
<1> DEFINE X == <<x>>  D == <<d>>  XD == X \o D  P == <<x, d>>
<1>1. X \in Seq(S) /\ D \in Seq(S) /\ P \in Seq(S)
  OBVIOUS
<1>2. Len(X) = 1 /\ Len(D) = 1 /\ Len(P) = 2 /\ X[1] = x /\ D[1] = d /\ P[1] = x /\ P[2] = d
  OBVIOUS
<1> HIDE DEF X, D, P
<1>3. XD \in Seq(S) /\ Len(XD) = 2 /\ XD[1] = x /\ XD[2] = d
  <2>1. XD \in Seq(S) /\ Len(XD) = 2
    <3>1. XD \in Seq(S) /\ Len(XD) = Len(X) + Len(D)
      BY <1>1, ConcatProperties
    <3> HIDE DEF XD
    <3> QED BY <1>2, <3>1
  <2>2. \A i \in 1 .. Len(X) + Len(D) : XD[i] = IF i <= Len(X) THEN X[i] ELSE D[i - Len(X)]
    BY <1>1
  <2>3. 1 \in 1 .. Len(X) + Len(D) /\ 2 \in 1 .. Len(X) + Len(D)
    BY <1>2
  <2>4. /\ XD[1] = IF 1 <= Len(X) THEN X[1] ELSE D[1 - Len(X)]
        /\ XD[2] = IF 2 <= Len(X) THEN X[2] ELSE D[2 - Len(X)]
    BY <2>2, <2>3
  <2> QED BY <1>2, <2>1, <2>4
<1>4. \A i \in 1 .. 2 : XD[i] = P[i]
  BY <1>2, <1>3
<1> HIDE DEF XD
<1>5. XD = P
  BY <1>1, <1>2, <1>3, <1>4, SeqEqual
<1> QED BY <1>5 DEF X, D, P, XD

LEMMA UpdateIs ==
    ASSUME NEW Sp, NEW b \in BoundOf(Sp), NEW c \in BoundOf(Sp)
    PROVE  /\ Update(<<>>, c) = <<c>>
           /\ Update(<<b>>, c) = IF b.speaker = c.speaker THEN <<Further(b, c)>> ELSE InOrder(b, c)
<1>1. <<b>> # <<>> /\ Len(<<b>>) = 1 /\ <<b>>[1] = b /\ Tail(<<b>>) = <<>>
  OBVIOUS
<1>2. \A x \in BoundOf(Sp) : <<x>> \o <<>> = <<x>>
  <2> SUFFICES ASSUME NEW x \in BoundOf(Sp) PROVE <<x>> \o <<>> = <<x>>
    OBVIOUS
  <2>1. <<x>> \in Seq(BoundOf(Sp))
    OBVIOUS
  <2> QED BY <2>1, ConcatEmptySeq
<1>3. Further(b, c) \in BoundOf(Sp)
  BY DEF Further
<1>4. Update(<<>>, c) = <<c>>
  BY DEF Update
<1>5. Update(<<b>>, c) = IF b.speaker = c.speaker THEN <<Further(b, c)>> \o <<>> ELSE InOrder(b, c)
  BY <1>1 DEF Update, Further, InOrder
<1> QED BY <1>2, <1>3, <1>4, <1>5

LEMMA UpdateOfTwo ==
    ASSUME NEW Sp, NEW b \in BoundOf(Sp), NEW d \in BoundOf(Sp), NEW c \in BoundOf(Sp),
           NEW bounds, bounds = <<b, d>>
    PROVE  Update(bounds, c) = IF b.speaker = c.speaker THEN <<Further(b, c), d>>
                               ELSE InOrder(b, Further(d, c))
<1>1. bounds # <<>> /\ Len(bounds) = 2 /\ bounds[1] = b /\ bounds[2] = d
  OBVIOUS
<1>2. Tail(bounds) = <<d>>
  OBVIOUS
<1>3. Update(bounds, c) = IF b.speaker = c.speaker THEN <<Further(b, c)>> \o <<d>>
                          ELSE InOrder(b, Further(d, c))
  BY <1>1, <1>2 DEF Update, Further, InOrder
<1>4. Further(b, c) \in BoundOf(Sp)
  BY DEF Further
<1>5. <<Further(b, c)>> \o <<d>> = <<Further(b, c), d>>
  BY <1>4, PairIs
<1> QED BY <1>3, <1>5, Zenon

(* What the boundaries say of the first k turns.                           *)
Attained(b, turns, k) ==
    \E j \in 1 .. k : turns[j].speaker = b.speaker /\ turns[j].end = b.position

Bounded(Sp, bounds, turns, k) ==
    \/ k = 0 /\ bounds = <<>>
    \/ \E b \in BoundOf(Sp) :
         /\ bounds = <<b>> /\ Attained(b, turns, k)
         /\ \A j \in 1 .. k : turns[j].speaker = b.speaker /\ turns[j].end <= b.position
    \/ \E b, d \in BoundOf(Sp) :
         /\ bounds = <<b, d>> /\ Attained(b, turns, k) /\ Attained(d, turns, k)
         /\ d.speaker # b.speaker /\ d.position <= b.position
         /\ \A j \in 1 .. k :
              \/ turns[j].speaker = b.speaker /\ turns[j].end <= b.position
              \/ turns[j].speaker # b.speaker /\ turns[j].end <= d.position

LEMMA UpdateBounds ==
    ASSUME NEW Sp, NEW O, NEW turns \in Seq(RowOf(Sp, O)), NEW m \in 1 .. Len(turns),
           NEW bounds, Bounded(Sp, bounds, turns, m - 1)
    PROVE  Bounded(Sp, Update(bounds, [speaker |-> turns[m].speaker, position |-> turns[m].end]),
                   turns, m)
<1> DEFINE c == [speaker |-> turns[m].speaker, position |-> turns[m].end]
           k == m - 1
<1>1. k \in Nat /\ \A j \in 1 .. m : j \in 1 .. k \/ j = m
  OBVIOUS
<1>2. \A j \in 1 .. m : turns[j] \in RowOf(Sp, O)
  OBVIOUS
<1>3. \A j \in 1 .. m : turns[j].end \in Int /\ turns[j].speaker \in Sp
  BY <1>2 DEF RowOf
<1>4. c \in BoundOf(Sp) /\ c.speaker = turns[m].speaker /\ c.position = turns[m].end
  BY <1>3 DEF BoundOf
<1>5. Attained(c, turns, m)
  BY <1>4 DEF Attained
<1>6. \A b : Attained(b, turns, k) => Attained(b, turns, m)
  BY <1>1 DEF Attained
<1>7. \A b \in BoundOf(Sp) : /\ b.position \in Int /\ (Further(b, c) = b \/ Further(b, c) = c)
                             /\ b.position <= Further(b, c).position
                             /\ c.position <= Further(b, c).position
  BY <1>4 DEF BoundOf, Further
<1>8. \A j \in 1 .. k : j \in 1 .. m
  OBVIOUS
<1> HIDE DEF c, k
<1>9. CASE k = 0 /\ bounds = <<>>
  <2>1. Update(bounds, c) = <<c>>
    BY <1>4, <1>9, UpdateIs
  <2>2. \A j \in 1 .. m : j = m
    BY <1>1, <1>9
  <2>3. \A j \in 1 .. m : turns[j].speaker = c.speaker /\ turns[j].end <= c.position
    BY <1>3, <1>4, <2>2
  <2>4. Bounded(Sp, <<c>>, turns, m)
    BY <1>4, <1>5, <2>3 DEF Bounded
  <2> QED BY <2>1, <2>4 DEF c
<1>10. ASSUME NEW b \in BoundOf(Sp), bounds = <<b>>, Attained(b, turns, k),
              \A j \in 1 .. k : turns[j].speaker = b.speaker /\ turns[j].end <= b.position
       PROVE  Bounded(Sp, Update(bounds, c), turns, m)
  <2>1. Attained(b, turns, m)
    BY <1>6, <1>10
  <2>2. CASE b.speaker = c.speaker
    <3> DEFINE e == Further(b, c)
    <3>1. e \in BoundOf(Sp) /\ Attained(e, turns, m) /\ e.speaker = b.speaker
      BY <1>4, <1>5, <1>7, <2>1, <2>2
    <3>2. b.position <= e.position /\ c.position <= e.position /\ e.position \in Int /\ b.position \in Int
      BY <1>7, <3>1
    <3> HIDE DEF e
    <3>3. \A j \in 1 .. m : turns[j].speaker = e.speaker /\ turns[j].end <= e.position
      <4>1. ASSUME NEW j \in 1 .. k PROVE turns[j].speaker = e.speaker /\ turns[j].end <= e.position
        <5>1. turns[j].end \in Int
          BY <1>3, <1>8
        <5> QED BY <1>10, <3>1, <3>2, <5>1
      <4>2. turns[m].speaker = e.speaker /\ turns[m].end <= e.position
        BY <1>4, <2>2, <3>1, <3>2
      <4> QED BY <1>1, <4>1, <4>2
    <3>4. Update(bounds, c) = <<e>>
      <4>1. Update(<<b>>, c) = IF b.speaker = c.speaker THEN <<Further(b, c)>> ELSE InOrder(b, c)
        BY <1>4, UpdateIs
      <4> QED BY <1>10, <2>2, <4>1, Zenon DEF e
    <3> QED BY <3>1, <3>3, <3>4 DEF Bounded
  <2>3. CASE b.speaker # c.speaker
    <3>1. Update(bounds, c) = InOrder(b, c)
      BY <1>4, <1>10, <2>3, UpdateIs
    <3>2. CASE c.position > b.position
      <4>1. Update(bounds, c) = <<c, b>>
        BY <3>1, <3>2 DEF InOrder
      <4>2. b.position <= c.position
        BY <1>4, <1>7, <3>2
      <4>3. \A j \in 1 .. m : \/ turns[j].speaker = c.speaker /\ turns[j].end <= c.position
                              \/ turns[j].speaker # c.speaker /\ turns[j].end <= b.position
        BY <1>1, <1>3, <1>4, <1>10, <2>3
      <4> QED BY <1>4, <1>5, <2>1, <2>3, <4>1, <4>2, <4>3 DEF Bounded
    <3>3. CASE ~(c.position > b.position)
      <4>1. Update(bounds, c) = <<b, c>>
        BY <3>1, <3>3 DEF InOrder
      <4>2. c.position <= b.position
        BY <1>4, <1>7, <3>3
      <4>3. \A j \in 1 .. m : \/ turns[j].speaker = b.speaker /\ turns[j].end <= b.position
                              \/ turns[j].speaker # b.speaker /\ turns[j].end <= c.position
        BY <1>1, <1>3, <1>4, <1>10, <2>3
      <4> QED BY <1>4, <1>5, <2>1, <2>3, <4>1, <4>2, <4>3 DEF Bounded
    <3> QED BY <3>2, <3>3
  <2> QED BY <2>2, <2>3
<1>11. ASSUME NEW b \in BoundOf(Sp), NEW d \in BoundOf(Sp), bounds = <<b, d>>,
              Attained(b, turns, k), Attained(d, turns, k),
              d.speaker # b.speaker, d.position <= b.position,
              \A j \in 1 .. k :
                \/ turns[j].speaker = b.speaker /\ turns[j].end <= b.position
                \/ turns[j].speaker # b.speaker /\ turns[j].end <= d.position
       PROVE  Bounded(Sp, Update(bounds, c), turns, m)
  <2>1. Attained(b, turns, m) /\ Attained(d, turns, m)
    BY <1>6, <1>11
  <2>2. b.position \in Int /\ d.position \in Int /\ c.position \in Int
    BY <1>4, <1>7
  <2>3. CASE b.speaker = c.speaker
    <3> DEFINE e == Further(b, c)
    <3>1. e \in BoundOf(Sp) /\ Attained(e, turns, m) /\ e.speaker = b.speaker
      BY <1>4, <1>5, <1>7, <2>1, <2>3
    <3>2. b.position <= e.position /\ c.position <= e.position /\ e.position \in Int
      BY <1>7, <3>1
    <3> HIDE DEF e
    <3>3. \A j \in 1 .. m : \/ turns[j].speaker = e.speaker /\ turns[j].end <= e.position
                            \/ turns[j].speaker # e.speaker /\ turns[j].end <= d.position
      <4>1. ASSUME NEW j \in 1 .. k
            PROVE  \/ turns[j].speaker = e.speaker /\ turns[j].end <= e.position
                   \/ turns[j].speaker # e.speaker /\ turns[j].end <= d.position
        <5>1. turns[j].end \in Int
          BY <1>3, <1>8
        <5> QED BY <1>11, <2>2, <3>1, <3>2, <5>1
      <4>2. turns[m].speaker = e.speaker /\ turns[m].end <= e.position
        BY <1>4, <2>3, <3>1, <3>2
      <4> QED BY <1>1, <4>1, <4>2
    <3>4. Update(bounds, c) = <<e, d>>
      <4>1. Update(bounds, c) = IF b.speaker = c.speaker THEN <<Further(b, c), d>>
                                ELSE InOrder(b, Further(d, c))
        BY <1>4, <1>11, UpdateOfTwo
      <4> QED BY <2>3, <4>1, Zenon DEF e
    <3>5. d.speaker # e.speaker /\ d.position <= e.position
      BY <1>11, <2>2, <3>1, <3>2
    <3> QED BY <2>1, <3>1, <3>3, <3>4, <3>5 DEF Bounded
  <2>4. CASE b.speaker # c.speaker
    <3> DEFINE e == Further(d, c)
    <3>1. e \in BoundOf(Sp) /\ Attained(e, turns, m) /\ e.speaker # b.speaker
      BY <1>4, <1>5, <1>7, <1>11, <2>1, <2>4
    <3>2. d.position <= e.position /\ c.position <= e.position /\ e.position \in Int
      BY <1>7, <3>1
    <3>3. Update(bounds, c) = InOrder(b, e)
      <4>1. Update(bounds, c) = IF b.speaker = c.speaker THEN <<Further(b, c), d>>
                                ELSE InOrder(b, Further(d, c))
        BY <1>4, <1>11, UpdateOfTwo
      <4> QED BY <2>4, <4>1, Zenon DEF e
    <3>4. e.position > b.position => e.speaker = c.speaker
      BY <1>7, <1>11, <2>2
    <3> HIDE DEF e
    <3>5. \A j \in 1 .. m : \/ turns[j].speaker = b.speaker /\ turns[j].end <= b.position
                            \/ turns[j].speaker # b.speaker /\ turns[j].end <= e.position
      BY <1>1, <1>3, <1>4, <1>8, <1>11, <2>2, <2>4, <3>2
    <3>6. CASE e.position > b.position
      <4>1. Update(bounds, c) = <<e, b>>
        BY <3>3, <3>6 DEF InOrder
      <4>2. b.position <= e.position /\ b.speaker # e.speaker
        BY <2>2, <3>1, <3>2, <3>6
      <4>3. \A j \in 1 .. m : \/ turns[j].speaker = e.speaker /\ turns[j].end <= e.position
                              \/ turns[j].speaker # e.speaker /\ turns[j].end <= b.position
        <5> SUFFICES ASSUME NEW j \in 1 .. m
                     PROVE  \/ turns[j].speaker = e.speaker /\ turns[j].end <= e.position
                            \/ turns[j].speaker # e.speaker /\ turns[j].end <= b.position
          OBVIOUS
        <5>1. turns[j].end \in Int
          BY <1>3
        <5>2. CASE turns[j].speaker = e.speaker
          BY <3>1, <3>5, <5>2
        <5>3. CASE turns[j].speaker # e.speaker
          <6>1. j \in 1 .. k
            BY <1>1, <1>4, <3>4, <3>6, <5>3
          <6>2. turns[j].end <= b.position
            BY <1>11, <2>2, <5>1, <6>1
          <6> QED BY <5>3, <6>2
        <5> QED BY <5>2, <5>3
      <4> QED BY <2>1, <3>1, <4>1, <4>2, <4>3 DEF Bounded
    <3>7. CASE ~(e.position > b.position)
      <4>1. Update(bounds, c) = <<b, e>>
        BY <3>3, <3>7 DEF InOrder
      <4>2. e.position <= b.position
        BY <2>2, <3>2, <3>7
      <4> QED BY <2>1, <3>1, <3>5, <4>1, <4>2 DEF Bounded
    <3> QED BY <3>6, <3>7
  <2> QED BY <2>3, <2>4
<1>12. Bounded(Sp, bounds, turns, k)
  BY DEF k
<1>13. Bounded(Sp, Update(bounds, c), turns, m)
  BY <1>9, <1>10, <1>11, <1>12 DEF Bounded, c
<1> QED BY <1>13 DEF c

(* A boundary of another speaker is reached exactly if a turn reaches it.  *)
Tells(bounds, turns, k, s, x) ==
    (\E b \in ToSet(bounds) : b.speaker # s /\ b.position > x)
      <=> \E j \in 1 .. k : turns[j].speaker # s /\ x < turns[j].end

LEMMA BoundsTell ==
    ASSUME NEW Sp, NEW O, NEW turns \in Seq(RowOf(Sp, O)), NEW k \in 0 .. Len(turns),
           NEW bounds, Bounded(Sp, bounds, turns, k), NEW s, NEW x \in Int
    PROVE  Tells(bounds, turns, k, s, x)
<1>1. \A j \in 1 .. k : turns[j].end \in Int
  <2>1. \A j \in 1 .. k : turns[j] \in RowOf(Sp, O)
    OBVIOUS
  <2> QED BY <2>1 DEF RowOf
<1>2. CASE k = 0 /\ bounds = <<>>
  <2>1. ToSet(bounds) = {} /\ 1 .. k = {}
    BY <1>2 DEF ToSet
  <2> QED BY <2>1 DEF Tells
<1>3. ASSUME NEW b \in BoundOf(Sp), bounds = <<b>>, Attained(b, turns, k),
             \A j \in 1 .. k : turns[j].speaker = b.speaker /\ turns[j].end <= b.position
      PROVE  (\E e \in ToSet(bounds) : e.speaker # s /\ e.position > x)
               <=> \E j \in 1 .. k : turns[j].speaker # s /\ x < turns[j].end
  <2>1. ToSet(bounds) = {b}
    BY <1>3 DEF ToSet
  <2>2. b.position \in Int
    BY DEF BoundOf
  <2> QED BY <1>1, <1>3, <2>1, <2>2 DEF Attained
<1>4. ASSUME NEW b \in BoundOf(Sp), NEW d \in BoundOf(Sp), bounds = <<b, d>>,
             Attained(b, turns, k), Attained(d, turns, k),
             d.speaker # b.speaker, d.position <= b.position,
             \A j \in 1 .. k :
               \/ turns[j].speaker = b.speaker /\ turns[j].end <= b.position
               \/ turns[j].speaker # b.speaker /\ turns[j].end <= d.position
      PROVE  (\E e \in ToSet(bounds) : e.speaker # s /\ e.position > x)
               <=> \E j \in 1 .. k : turns[j].speaker # s /\ x < turns[j].end
  <2>1. ToSet(bounds) = {b, d}
    BY <1>4 DEF ToSet
  <2>2. b.position \in Int /\ d.position \in Int
    BY DEF BoundOf
  <2>3. ASSUME NEW e \in {b, d}, e.speaker # s, e.position > x
        PROVE  \E j \in 1 .. k : turns[j].speaker # s /\ x < turns[j].end
    BY <1>1, <1>4, <2>2, <2>3 DEF Attained
  <2>4. ASSUME NEW j \in 1 .. k, turns[j].speaker # s, x < turns[j].end
        PROVE  \E e \in {b, d} : e.speaker # s /\ e.position > x
    <3>1. turns[j].end \in Int
      BY <1>1
    <3>2. CASE turns[j].speaker = b.speaker
      BY <1>4, <2>2, <2>4, <3>1, <3>2
    <3>3. CASE turns[j].speaker # b.speaker
      BY <1>4, <2>2, <2>4, <3>1, <3>3
    <3> QED BY <3>2, <3>3
  <2> QED BY <2>1, <2>3, <2>4
<1> QED BY <1>2, <1>3, <1>4, Zenon DEF Bounded, Tells

LEMMA UpdateIsTyped ==
    ASSUME NEW Sp, NEW bounds \in BoundsOf(Sp), NEW c \in BoundOf(Sp)
    PROVE  Update(bounds, c) \in BoundsOf(Sp)
<1>1. \A x \in BoundOf(Sp) : <<x>> \in BoundsOf(Sp)
  BY DEF BoundsOf
<1>2. \A x, y \in BoundOf(Sp) : <<x, y>> \in BoundsOf(Sp)
  <2> SUFFICES ASSUME NEW x \in BoundOf(Sp), NEW y \in BoundOf(Sp)
               PROVE  <<x, y>> \in BoundsOf(Sp)
    OBVIOUS
  <2>1. <<x, y>> \in BoundOf(Sp) \X BoundOf(Sp)
    OBVIOUS
  <2> DEFINE p == <<x, y>>
  <2>2. p[1] = x /\ p[2] = y
    OBVIOUS
  <2> HIDE DEF p
  <2>3. p \in BoundOf(Sp) \X BoundOf(Sp) /\ <<x, y>> = <<p[1], p[2]>>
    BY <2>1, <2>2 DEF p
  <2> QED BY <2>3 DEF BoundsOf
<1>3. \A x, y \in BoundOf(Sp) : Further(x, y) \in BoundOf(Sp)
  BY DEF Further
<1>4. \A x, y \in BoundOf(Sp) : InOrder(x, y) \in BoundsOf(Sp)
  BY <1>2 DEF InOrder
<1>5. CASE bounds = <<>>
  BY <1>1, <1>5, UpdateIs
<1>6. ASSUME NEW b \in BoundOf(Sp), bounds = <<b>>
      PROVE  Update(bounds, c) \in BoundsOf(Sp)
  <2>1. Update(<<b>>, c) = IF b.speaker = c.speaker THEN <<Further(b, c)>> ELSE InOrder(b, c)
    BY UpdateIs
  <2> QED BY <1>1, <1>3, <1>4, <1>6, <2>1
<1>7. ASSUME NEW b \in BoundOf(Sp), NEW d \in BoundOf(Sp), bounds = <<b, d>>
      PROVE  Update(bounds, c) \in BoundsOf(Sp)
  <2>1. Update(bounds, c) = IF b.speaker = c.speaker THEN <<Further(b, c), d>>
                            ELSE InOrder(b, Further(d, c))
    BY <1>7, UpdateOfTwo
  <2>2. Further(b, c) \in BoundOf(Sp) /\ Further(d, c) \in BoundOf(Sp)
    BY <1>3
  <2>3. <<Further(b, c), d>> \in BoundsOf(Sp)
    BY <1>2, <2>2
  <2>4. InOrder(b, Further(d, c)) \in BoundsOf(Sp)
    BY <1>4, <2>2
  <2> QED BY <2>1, <2>3, <2>4, Zenon
<1>8. \/ bounds = <<>>
      \/ \E b \in BoundOf(Sp) : bounds = <<b>>
      \/ \E b, d \in BoundOf(Sp) : bounds = <<b, d>>
  BY Zenon DEF BoundsOf
<1> QED BY <1>5, <1>6, <1>7, <1>8

BoundAt(t) == [speaker |-> t.speaker, position |-> t.end]
SharedAt(seen, t) == \E b \in ToSet(seen.bounds) : b.speaker # t.speaker /\ b.position > t.start

LEMMA SeeIs ==
    ASSUME NEW seen, NEW t
    PROVE  /\ See(seen, t).bounds = Update(seen.bounds, BoundAt(t))
           /\ See(seen, t).flagged = IF SharedAt(seen, t) THEN seen.flagged \cup {t.ordinal}
                                     ELSE seen.flagged
           /\ See(seen, t) = [bounds |-> See(seen, t).bounds, flagged |-> See(seen, t).flagged]
BY DEF See, BoundAt, SharedAt

LEMMA SeeIsTyped ==
    ASSUME NEW Sp, NEW O, NEW seen \in SeenOf(Sp, O), NEW t \in RowOf(Sp, O)
    PROVE  See(seen, t) \in SeenOf(Sp, O)
<1>1. BoundAt(t) \in BoundOf(Sp) /\ t.ordinal \in O
  BY DEF BoundAt, BoundOf, RowOf
<1>2. seen.bounds \in BoundsOf(Sp) /\ seen.flagged \in SUBSET O
  BY DEF SeenOf
<1>3. Update(seen.bounds, BoundAt(t)) \in BoundsOf(Sp)
  BY <1>1, <1>2, UpdateIsTyped
<1>4. See(seen, t).flagged \in SUBSET O
  BY <1>1, <1>2, SeeIs
<1> DEFINE x == See(seen, t).bounds  y == See(seen, t).flagged
<1>5. x \in BoundsOf(Sp) /\ y \in SUBSET O /\ See(seen, t) = [bounds |-> x, flagged |-> y]
  BY <1>3, <1>4, SeeIs
<1> HIDE DEF x, y
<1> QED BY <1>5 DEF SeenOf

Unseen == [bounds |-> <<>>, flagged |-> {}]

LEMMA SeeSteps ==
    ASSUME NEW Sp, NEW O, NEW w \in Seq(RowOf(Sp, O))
    PROVE  \E h : /\ \A k \in 0 .. Len(w) : h[k] \in SeenOf(Sp, O)
                  /\ h[0] = Unseen
                  /\ \A k \in 1 .. Len(w) : h[k] = See(h[k - 1], w[k])
                  /\ Pass(w) = h[Len(w)].flagged
<1> DEFINE N == Len(w)
           base == Unseen
           St == SeenOf(Sp, O)
           step == [p \in (1 .. N) \X St |-> See(p[2], w[p[1]])]
           Body(g) == [s \in SUBSET DOMAIN w |->
                         IF s = {} THEN [bounds |-> <<>>, flagged |-> {}]
                         ELSE See(g[s \ {Max(s)}], w[Max(s)])]
           iter == CHOOSE g : g = Body(g)
<1>1. N \in Nat /\ DOMAIN w = 1 .. N /\ base \in St
  <2>1. Unseen \in St
    BY DEF Unseen, SeenOf, BoundsOf
  <2> QED BY <2>1
<1>2. step \in [(1 .. N) \X St -> St]
  <2>1. \A k \in 1 .. N, x \in St : See(x, w[k]) \in St
    <3>1. \A k \in 1 .. N : w[k] \in RowOf(Sp, O)
      OBVIOUS
    <3> QED BY <3>1, SeeIsTyped
  <2> HIDE DEF St, N
  <2> QED BY <2>1
<1>3. \A k \in 1 .. N, x \in St : step[<<k, x>>] = See(x, w[k])
  <2> HIDE DEF St, N
  <2> QED OBVIOUS
<1>4. \A g : Body(g) = [s \in SUBSET DOMAIN w |->
                          IF s = {} THEN base ELSE See(g[s \ {Max(s)}], w[Max(s)])]
  BY DEF Unseen
<1> HIDE DEF St, N, step, base
<1>5. \E g : g = Body(g)
  <2>1. PICK g \in [SUBSET (1 .. N) -> St] : Folds(g, St, base, N, step)
    BY <1>1, <1>2, FoldExists
  <2>2. g = [s \in SUBSET (1 .. N) |-> g[s]]
    OBVIOUS
  <2>3. g = [s \in SUBSET DOMAIN w |->
               IF s = {} THEN base ELSE See(g[s \ {Max(s)}], w[Max(s)])]
    BY <1>1, <1>3, <2>1, <2>2, MaxOfPart DEF Folds
  <2>4. g = Body(g)
    <3> HIDE DEF Body
    <3> QED BY <1>4, <2>3, Zenon
  <2> QED BY <2>4
<1>6. iter = Body(iter)
  BY <1>5, Zenon
<1>7. Pass(w) = iter[1 .. N].flagged
  <2>1. Pass(w) = iter[DOMAIN w].flagged
    BY Zenon DEF Pass, FoldLeft, MapThenFoldSet
  <2> QED BY <1>1, <2>1
<1>8. iter = [s \in SUBSET DOMAIN w |->
                IF s = {} THEN base ELSE See(iter[s \ {Max(s)}], w[Max(s)])]
  <2> HIDE DEF iter, Body
  <2> QED BY <1>4, <1>6, Zenon
<1> HIDE DEF iter, Body
<1>9. Folds(iter, St, base, N, step)
  BY <1>1, <1>3, <1>8, MaxOfPart DEF Folds
<1>10. PICK h \in [0 .. N -> St] : Runs(h, base, N, step, iter[1 .. N])
  BY <1>1, <1>2, <1>9, FoldRuns
<1>11. \A k \in 1 .. N : h[k - 1] \in St
  BY <1>1
<1>12. \A k \in 1 .. N : h[k] = See(h[k - 1], w[k])
  BY <1>3, <1>10, <1>11 DEF Runs
<1>13. h[0] = base /\ h[N] = iter[1 .. N] /\ \A k \in 0 .. N : h[k] \in St
  BY <1>10 DEF Runs
<1> QED BY <1>7, <1>12, <1>13 DEF N, St, base

(* A turn that starts before an earlier one of another speaker has ended.  *)
Crossed(turns, j) ==
    \E i \in 1 .. j - 1 : turns[i].speaker # turns[j].speaker /\ turns[j].start < turns[i].end

CrossedOf(turns, k) == {turns[j].ordinal : j \in {j \in 1 .. k : Crossed(turns, j)}}

LEMMA PassIs ==
    ASSUME NEW Sp, NEW O, NEW turns \in Seq(RowOf(Sp, O))
    PROVE  Pass(turns) = CrossedOf(turns, Len(turns))
<1> DEFINE N == Len(turns)
<1>1. PICK h : /\ \A k \in 0 .. N : h[k] \in SeenOf(Sp, O)
               /\ h[0] = Unseen
               /\ \A k \in 1 .. N : h[k] = See(h[k - 1], turns[k])
               /\ Pass(turns) = h[N].flagged
  BY SeeSteps
<1>2. N \in Nat /\ \A k \in 1 .. N : turns[k] \in RowOf(Sp, O)
  OBVIOUS
<1> DEFINE S == {k \in 0 .. N : /\ Bounded(Sp, h[k].bounds, turns, k)
                                /\ h[k].flagged = CrossedOf(turns, k)}
<1>3. 0 \in S
  <2>1. Bounded(Sp, h[0].bounds, turns, 0)
    BY <1>1 DEF Unseen, Bounded
  <2>2. h[0].flagged = CrossedOf(turns, 0)
    BY <1>1 DEF Unseen, CrossedOf
  <2> QED BY <1>2, <2>1, <2>2
<1>4. ASSUME NEW k \in 0 .. N - 1, k \in S PROVE k + 1 \in S
  <2>1. PICK m \in 1 .. N : m = k + 1
    BY <1>2
  <2>2. m - 1 = k /\ k \in 0 .. N
    BY <1>2, <2>1
  <2> DEFINE t == turns[m]  seen == h[k]
  <2>3. h[m] = See(seen, t)
    BY <1>1, <2>2
  <2>4. t \in RowOf(Sp, O) /\ t.start \in Int
    BY <1>2 DEF RowOf
  <2>5. Bounded(Sp, seen.bounds, turns, k) /\ seen.flagged = CrossedOf(turns, k)
    BY <1>4
  <2>6. Bounded(Sp, h[m].bounds, turns, m)
    <3>1. h[m].bounds = Update(seen.bounds, BoundAt(t))
      <4> HIDE DEF seen, t
      <4> QED BY <2>3, SeeIs
    <3> DEFINE bounds == seen.bounds
    <3>2. Bounded(Sp, bounds, turns, m - 1)
      BY <2>2, <2>5
    <3> HIDE DEF bounds
    <3>3. Bounded(Sp, Update(bounds, [speaker |-> turns[m].speaker, position |-> turns[m].end]),
                  turns, m)
      BY <3>2, UpdateBounds
    <3> QED BY <3>1, <3>3, Zenon DEF BoundAt, bounds, t
  <2>7. SharedAt(seen, t) <=> Crossed(turns, m)
    <3> DEFINE bounds == seen.bounds  s == t.speaker  x == t.start
    <3>1. x \in Int /\ Bounded(Sp, bounds, turns, k)
      BY <2>4, <2>5
    <3> HIDE DEF bounds, s, x
    <3>2. Tells(bounds, turns, k, s, x)
      <4>1. k \in 0 .. Len(turns) /\ x \in Int /\ Bounded(Sp, bounds, turns, k)
        BY <2>2, <3>1
      <4> HIDE DEF N
      <4> QED BY <4>1, BoundsTell
    <3> QED BY <2>2, <3>2, Zenon DEF Tells, SharedAt, Crossed, bounds, s, x
  <2>8. h[m].flagged = IF Crossed(turns, m) THEN seen.flagged \cup {t.ordinal} ELSE seen.flagged
    <3> HIDE DEF seen, t
    <3>1. See(seen, t).flagged = IF SharedAt(seen, t) THEN seen.flagged \cup {t.ordinal}
                                 ELSE seen.flagged
      BY SeeIs, Zenon
    <3> QED BY <2>3, <2>7, <3>1, Zenon
  <2>9. CrossedOf(turns, m) = IF Crossed(turns, m) THEN CrossedOf(turns, k) \cup {turns[m].ordinal}
                              ELSE CrossedOf(turns, k)
    <3>1. \A j : j \in 1 .. m <=> j \in 1 .. k \/ j = m
      BY <2>1, <2>2
    <3> QED BY <3>1, Zenon DEF CrossedOf
  <2>10. h[m].flagged = CrossedOf(turns, m)
    BY <2>5, <2>8, <2>9
  <2> QED BY <2>1, <2>6, <2>10
<1>5. N \in S
  <2>1. N \in 0 .. N
    BY <1>2
  <2>2. \A k \in 0 .. N - 1 : k \in S => k + 1 \in S
    <3> HIDE DEF S
    <3> QED BY <1>4
  <2> HIDE DEF S, N
  <2> QED BY <1>2, <1>3, <2>1, <2>2, InductionTo
<1> QED BY <1>1, <1>5

LEMMA MirroredIs ==
    ASSUME NEW Sp, NEW O, NEW turns \in Seq(RowOf(Sp, O))
    PROVE  /\ Mirrored(turns) \in Seq(RowOf(Sp, O)) /\ Len(Mirrored(turns)) = Len(turns)
           /\ \A i \in 1 .. Len(turns) :
                LET t == turns[Len(turns) + 1 - i]  m == Mirrored(turns)[i]
                IN  /\ m.start = -t.end /\ m.end = -t.start
                    /\ m.speaker = t.speaker /\ m.ordinal = t.ordinal
<1> DEFINE N == Len(turns)
           flip(t) == [t EXCEPT !.start = -t.end, !.end = -t.start]
           mirror == Mirrored(turns)
<1>1. N \in Nat /\ DOMAIN turns = 1 .. N
  OBVIOUS
<1>2. \A t \in RowOf(Sp, O) : /\ flip(t) \in RowOf(Sp, O)
                              /\ flip(t).start = -t.end /\ flip(t).end = -t.start
                              /\ flip(t).speaker = t.speaker /\ flip(t).ordinal = t.ordinal
  <2> SUFFICES ASSUME NEW t \in RowOf(Sp, O)
               PROVE  /\ flip(t) \in RowOf(Sp, O)
                      /\ flip(t).start = -t.end /\ flip(t).end = -t.start
                      /\ flip(t).speaker = t.speaker /\ flip(t).ordinal = t.ordinal
    OBVIOUS
  <2> DEFINE a == -t.end  b == -t.start  e == flip(t)
  <2>1. a \in Int /\ b \in Int
    BY DEF RowOf
  <2>2. e = [[t EXCEPT !.start = a] EXCEPT !.end = b]
    BY DEF RowOf
  <2> HIDE DEF a, b, e
  <2>3. [t EXCEPT !.start = a] \in RowOf(Sp, O)
    BY <2>1 DEF RowOf
  <2>4. e \in RowOf(Sp, O)
    BY <2>1, <2>2, <2>3 DEF RowOf
  <2>5. e.start = a /\ e.end = b /\ e.speaker = t.speaker /\ e.ordinal = t.ordinal
    BY <2>1, <2>2 DEF RowOf
  <2> QED BY <2>4, <2>5 DEF a, b, e
<1>3. mirror = [i \in 1 .. N |-> flip(turns[N + 1 - i])]
  BY <1>1, Zenon DEF Mirrored
<1>4. \A i \in 1 .. N : turns[N + 1 - i] \in RowOf(Sp, O)
  <2>1. \A i \in 1 .. N : N + 1 - i \in 1 .. N
    BY <1>1
  <2> QED BY <1>1, <2>1
<1> HIDE DEF flip, mirror
<1>5. mirror \in [1 .. N -> RowOf(Sp, O)]
  BY <1>2, <1>3, <1>4
<1>6. mirror \in Seq(RowOf(Sp, O)) /\ Len(mirror) = N
  BY <1>1, <1>5
<1>7. \A i \in 1 .. N : /\ mirror[i].start = -turns[N + 1 - i].end
                        /\ mirror[i].end = -turns[N + 1 - i].start
                        /\ mirror[i].speaker = turns[N + 1 - i].speaker
                        /\ mirror[i].ordinal = turns[N + 1 - i].ordinal
  <2> SUFFICES ASSUME NEW i \in 1 .. N
               PROVE  /\ mirror[i].start = -turns[N + 1 - i].end
                      /\ mirror[i].end = -turns[N + 1 - i].start
                      /\ mirror[i].speaker = turns[N + 1 - i].speaker
                      /\ mirror[i].ordinal = turns[N + 1 - i].ordinal
    OBVIOUS
  <2> DEFINE t == turns[N + 1 - i]
  <2>1. t \in RowOf(Sp, O) /\ mirror[i] = flip(t)
    BY <1>3, <1>4
  <2> HIDE DEF t
  <2>2. /\ mirror[i].start = -t.end /\ mirror[i].end = -t.start
        /\ mirror[i].speaker = t.speaker /\ mirror[i].ordinal = t.ordinal
    BY <1>2, <2>1
  <2> QED BY <2>2 DEF t
<1> QED BY <1>6, <1>7 DEF mirror

(* A turn that ends after a later one of another speaker has started.      *)
CrossedLater(turns, j) ==
    \E i \in j + 1 .. Len(turns) :
      turns[i].speaker # turns[j].speaker /\ turns[i].start < turns[j].end

LEMMA MirroredCrossed ==
    ASSUME NEW Sp, NEW O, NEW turns \in Seq(RowOf(Sp, O)), NEW j \in 1 .. Len(turns)
    PROVE  Crossed(Mirrored(turns), Len(turns) + 1 - j) <=> CrossedLater(turns, j)
<1> DEFINE N == Len(turns)
           mirror == Mirrored(turns)
           p == N + 1 - j
<1>1. N \in Nat /\ p \in 1 .. N /\ N + 1 - p = j
  OBVIOUS
<1>2. \A i \in 1 .. N : /\ mirror[i].start = -turns[N + 1 - i].end
                        /\ mirror[i].end = -turns[N + 1 - i].start
                        /\ mirror[i].speaker = turns[N + 1 - i].speaker
  BY MirroredIs
<1>3. \A i \in 1 .. N : turns[i].start \in Int /\ turns[i].end \in Int
  <2>1. \A i \in 1 .. N : turns[i] \in RowOf(Sp, O)
    OBVIOUS
  <2> QED BY <2>1 DEF RowOf
<1>4. mirror[p].start = -turns[j].end /\ mirror[p].speaker = turns[j].speaker
  BY <1>1, <1>2
<1> HIDE DEF mirror
<1>5. ASSUME Crossed(mirror, p) PROVE CrossedLater(turns, j)
  <2>1. PICK i \in 1 .. p - 1 : mirror[i].speaker # mirror[p].speaker /\ mirror[p].start < mirror[i].end
    BY <1>5 DEF Crossed
  <2>2. PICK q \in j + 1 .. N : q = N + 1 - i
    BY <1>1
  <2>3. i \in 1 .. N /\ q \in 1 .. N
    BY <1>1, <2>2
  <2>4. mirror[i].end = -turns[q].start /\ mirror[i].speaker = turns[q].speaker
    BY <1>2, <2>2, <2>3
  <2>5. turns[q].speaker # turns[j].speaker /\ turns[q].start < turns[j].end
    BY <1>3, <1>4, <2>1, <2>3, <2>4
  <2> QED BY <2>5 DEF CrossedLater
<1>6. ASSUME CrossedLater(turns, j) PROVE Crossed(mirror, p)
  <2>1. PICK q \in j + 1 .. N : turns[q].speaker # turns[j].speaker /\ turns[q].start < turns[j].end
    BY <1>6 DEF CrossedLater
  <2>2. PICK i \in 1 .. p - 1 : i = N + 1 - q
    <3>1. q \in Nat /\ j < q /\ q <= N
      OBVIOUS
    <3>2. N + 1 - q \in 1 .. p - 1
      <4> HIDE DEF N
      <4> QED BY <1>1, <3>1
    <3> QED BY <3>2
  <2>3. i \in 1 .. N /\ q \in 1 .. N /\ N + 1 - i = q
    BY <1>1, <2>2
  <2>4. mirror[i].end = -turns[q].start /\ mirror[i].speaker = turns[q].speaker
    BY <1>2, <2>3
  <2>5. mirror[i].speaker # mirror[p].speaker /\ mirror[p].start < mirror[i].end
    BY <1>3, <1>4, <2>1, <2>3, <2>4
  <2> QED BY <2>5 DEF Crossed
<1> QED BY <1>5, <1>6 DEF mirror

(* The turns of one list, in the order of their starts and numbered.       *)
Timely(turns) ==
    /\ \A i \in 1 .. Len(turns) : turns[i].ordinal = i /\ turns[i].start < turns[i].end
    /\ \A i \in 2 .. Len(turns) : turns[i - 1].start <= turns[i].start

LEMMA TimelyAscends ==
    ASSUME NEW Sp, NEW O, NEW turns \in Seq(RowOf(Sp, O)), Timely(turns)
    PROVE  \A j \in 1 .. Len(turns) : \A i \in 1 .. j : turns[i].start <= turns[j].start
<1> DEFINE N == Len(turns)
           S == {j \in 0 .. N : \A i \in 1 .. j : turns[i].start <= turns[j].start}
<1>1. N \in Nat /\ \A i \in 1 .. N : turns[i].start \in Int
  <2>1. \A i \in 1 .. N : turns[i] \in RowOf(Sp, O)
    OBVIOUS
  <2> QED BY <2>1 DEF RowOf
<1>2. 0 \in S
  BY <1>1
<1>3. ASSUME NEW j \in 0 .. N - 1, j \in S PROVE j + 1 \in S
  <2>1. PICK k \in 1 .. N : k = j + 1
    BY <1>1
  <2>2. ASSUME NEW i \in 1 .. k PROVE turns[i].start <= turns[k].start
    <3>1. CASE i = k
      BY <1>1, <3>1
    <3>2. CASE i # k
      <4>1. i \in 1 .. j /\ i \in 1 .. N /\ j \in 1 .. N /\ k \in 2 .. N /\ k - 1 = j
        BY <1>1, <2>1, <3>2
      <4>2. turns[k - 1].start <= turns[k].start
        BY <4>1 DEF Timely
      <4>3. turns[i].start <= turns[j].start
        BY <1>3, <4>1
      <4> QED BY <1>1, <4>1, <4>2, <4>3
    <3> QED BY <3>1, <3>2
  <2> QED BY <2>1, <2>2
<1>4. \A j \in 0 .. N : j \in S
  <2>1. \A j \in 0 .. N - 1 : j \in S => j + 1 \in S
    <3> HIDE DEF S
    <3> QED BY <1>3
  <2> HIDE DEF S, N
  <2> QED BY <1>1, <1>2, <2>1, InductionTo
<1> QED BY <1>1, <1>4

(* A turn is marked exactly if it meets one of another speaker.            *)
SharedTurn(turns, j) ==
    \E i \in 1 .. Len(turns) : turns[i].speaker # turns[j].speaker /\ Meets(turns[i], turns[j])

LEMMA CrossedMeets ==
    ASSUME NEW Sp, NEW O, NEW turns \in Seq(RowOf(Sp, O)), Timely(turns), NEW j \in 1 .. Len(turns)
    PROVE  Crossed(turns, j) \/ CrossedLater(turns, j) <=> SharedTurn(turns, j)
<1>1. \A i \in 1 .. Len(turns) :
        turns[i].start \in Int /\ turns[i].end \in Int /\ turns[i].start < turns[i].end
  <2>1. \A i \in 1 .. Len(turns) : turns[i] \in RowOf(Sp, O)
    OBVIOUS
  <2> QED BY <2>1 DEF RowOf, Timely
<1>2. ASSUME Crossed(turns, j) PROVE SharedTurn(turns, j)
  <2>1. PICK i \in 1 .. j - 1 : turns[i].speaker # turns[j].speaker /\ turns[j].start < turns[i].end
    BY <1>2 DEF Crossed
  <2>2. i \in 1 .. Len(turns) /\ i \in 1 .. j
    OBVIOUS
  <2>3. turns[i].start <= turns[j].start
    BY <2>2, TimelyAscends
  <2>4. Meets(turns[i], turns[j])
    BY <1>1, <2>1, <2>2, <2>3 DEF Meets
  <2> QED BY <2>1, <2>2, <2>4 DEF SharedTurn
<1>3. ASSUME CrossedLater(turns, j) PROVE SharedTurn(turns, j)
  <2>1. PICK i \in j + 1 .. Len(turns) :
          turns[i].speaker # turns[j].speaker /\ turns[i].start < turns[j].end
    BY <1>3 DEF CrossedLater
  <2>2. i \in 1 .. Len(turns) /\ j \in 1 .. i
    OBVIOUS
  <2>3. turns[j].start <= turns[i].start
    BY <2>2, TimelyAscends
  <2>4. Meets(turns[i], turns[j])
    BY <1>1, <2>1, <2>2, <2>3 DEF Meets
  <2> QED BY <2>1, <2>2, <2>4 DEF SharedTurn
<1>4. ASSUME SharedTurn(turns, j) PROVE Crossed(turns, j) \/ CrossedLater(turns, j)
  <2>1. PICK i \in 1 .. Len(turns) : turns[i].speaker # turns[j].speaker /\ Meets(turns[i], turns[j])
    BY <1>4 DEF SharedTurn
  <2>2. i # j
    BY <2>1
  <2>3. i \in 1 .. j - 1 \/ i \in j + 1 .. Len(turns)
    BY <2>2
  <2> QED BY <2>1, <2>3 DEF Crossed, CrossedLater, Meets
<1> QED BY <1>2, <1>3, <1>4

LEMMA MarkedAre ==
    ASSUME NEW Sp, NEW turns \in Seq(RowOf(Sp, Nat)), Timely(turns)
    PROVE  /\ DOMAIN Marked(turns) = 1 .. Len(turns) /\ Len(Marked(turns)) = Len(turns)
           /\ \A j \in 1 .. Len(turns) :
                /\ Marked(turns)[j].start = turns[j].start
                /\ Marked(turns)[j].end = turns[j].end
                /\ Marked(turns)[j].overlapping <=> SharedTurn(turns, j)
<1> DEFINE N == Len(turns)
           shared == OverlappingTurns(turns)
           mirror == Mirrored(turns)
<1>1. N \in Nat /\ DOMAIN turns = 1 .. N
  OBVIOUS
<1>2. mirror \in Seq(RowOf(Sp, Nat)) /\ Len(mirror) = N
  BY MirroredIs
<1>3. shared = CrossedOf(turns, N) \cup CrossedOf(mirror, N)
  <2>1. Pass(turns) = CrossedOf(turns, N)
    BY PassIs
  <2>2. Pass(mirror) = CrossedOf(mirror, Len(mirror))
    <3> HIDE DEF mirror
    <3> QED BY <1>2, PassIs
  <2> QED BY <1>2, <2>1, <2>2 DEF OverlappingTurns
<1>4. \A j \in 1 .. N : turns[j].ordinal = j
  BY DEF Timely
<1>5. \A j \in 1 .. N : mirror[j].ordinal = N + 1 - j
  <2> SUFFICES ASSUME NEW j \in 1 .. N PROVE mirror[j].ordinal = N + 1 - j
    OBVIOUS
  <2>1. mirror[j].ordinal = turns[N + 1 - j].ordinal
    BY MirroredIs
  <2>2. N + 1 - j \in 1 .. N
    BY <1>1
  <2> HIDE DEF mirror, N
  <2> QED BY <1>4, <2>1, <2>2
<1>6. \A j \in 1 .. N : Crossed(mirror, N + 1 - j) <=> CrossedLater(turns, j)
  BY MirroredCrossed
<1> HIDE DEF shared, mirror
<1>7. ASSUME NEW j \in 1 .. N PROVE j \in shared <=> SharedTurn(turns, j)
  <2>1. j \in CrossedOf(turns, N) <=> Crossed(turns, j)
    BY <1>4 DEF CrossedOf
  <2>2. j \in CrossedOf(mirror, N) <=> CrossedLater(turns, j)
    <3>1. N + 1 - j \in 1 .. N /\ N + 1 - (N + 1 - j) = j
      BY <1>1
    <3>2. \A i \in 1 .. N : N + 1 - i = j => i = N + 1 - j
      BY <1>1
    <3>3. j \in CrossedOf(mirror, N) <=> \E i \in 1 .. N : Crossed(mirror, i) /\ N + 1 - i = j
      BY <1>5 DEF CrossedOf
    <3>4. j \in CrossedOf(mirror, N) <=> Crossed(mirror, N + 1 - j)
      <4> HIDE DEF N
      <4> QED BY <3>1, <3>2, <3>3
    <3> QED BY <1>6, <3>4
  <2> QED BY <1>3, <2>1, <2>2, CrossedMeets
<1> DEFINE marked == Marked(turns)
<1>8. marked = [i \in 1 .. N |->
                  [start |-> turns[i].start, end |-> turns[i].end, speaker |-> turns[i].speaker,
                   ordinal |-> turns[i].ordinal, overlapping |-> turns[i].ordinal \in shared]]
  BY <1>1, Zenon DEF Marked, shared
<1>9. DOMAIN marked = 1 .. N /\ Len(marked) = N
  BY <1>1, <1>8
<1>10. ASSUME NEW j \in 1 .. N
       PROVE  /\ marked[j].start = turns[j].start /\ marked[j].end = turns[j].end
              /\ marked[j].overlapping <=> SharedTurn(turns, j)
  <2> HIDE DEF marked
  <2>1. marked[j] = [start |-> turns[j].start, end |-> turns[j].end, speaker |-> turns[j].speaker,
                     ordinal |-> turns[j].ordinal, overlapping |-> turns[j].ordinal \in shared]
    BY <1>8, Zenon
  <2>2. marked[j].start = turns[j].start /\ marked[j].end = turns[j].end
    BY <2>1
  <2>3. marked[j].overlapping = (turns[j].ordinal \in shared)
    <3> DEFINE b == turns[j].ordinal \in shared
    <3>1. marked[j] = [start |-> turns[j].start, end |-> turns[j].end, speaker |-> turns[j].speaker,
                       ordinal |-> turns[j].ordinal, overlapping |-> b]
      BY <2>1, Zenon
    <3> HIDE DEF b
    <3>2. marked[j].overlapping = b
      BY <3>1
    <3> QED BY <3>2 DEF b
  <2>4. marked[j].overlapping <=> j \in shared
    BY <1>4, <2>3, Zenon
  <2> QED BY <1>7, <2>2, <2>4, Zenon
<1> QED BY <1>9, <1>10, Zenon DEF marked

IntervalOf == [start : Nat, end : Nat]
Dated(M) == \A t \in M : t.start \in Nat /\ t.end \in Nat

StretchesTo(list, t) == list # <<>> /\ t.start <= Last(list).end
Alone(t) == [start |-> t.start, end |-> t.end]

LEMMA MergeIs ==
    ASSUME NEW list, NEW t
    PROVE  Merge(list, t) = IF ~t.overlapping THEN list
                            ELSE IF StretchesTo(list, t)
                                 THEN [list EXCEPT ![Len(list)] = Stretch(@, t)]
                                 ELSE Append(list, Alone(t))
BY Zenon DEF Merge, StretchesTo, Alone

LEMMA StretchIs ==
    ASSUME NEW x \in IntervalOf, NEW t, t.end \in Nat
    PROVE  /\ Stretch(x, t) \in IntervalOf
           /\ Stretch(x, t).start = x.start
           /\ Stretch(x, t).end = IF x.end >= t.end THEN x.end ELSE t.end
<1>1. x.end \in Int /\ t.end \in Int /\ x.end \in Nat
  BY DEF IntervalOf
<1>2. Max({x.end, t.end}) = IF x.end >= t.end THEN x.end ELSE t.end
  BY <1>1, MaxOfTwo
<1> DEFINE e == Stretch(x, t)
           y == Max({x.end, t.end})
<1>3. e = [x EXCEPT !.end = y]
  BY DEF Stretch, IntervalOf
<1>4. y \in Nat
  BY <1>1, <1>2
<1> HIDE DEF e, y
<1>5. e \in IntervalOf /\ e.start = x.start /\ e.end = y
  BY <1>3, <1>4 DEF IntervalOf
<1> QED BY <1>2, <1>5 DEF e, y

LEMMA MergeIsTyped ==
    ASSUME NEW M, Dated(M), NEW list \in Seq(IntervalOf), NEW t \in M
    PROVE  Merge(list, t) \in Seq(IntervalOf)
<1>1. t.start \in Nat /\ t.end \in Nat
  BY DEF Dated
<1>2. CASE ~t.overlapping
  BY <1>2, MergeIs
<1>3. CASE t.overlapping /\ StretchesTo(list, t)
  <2>1. Len(list) \in 1 .. Len(list) /\ list[Len(list)] \in IntervalOf
    BY <1>3 DEF StretchesTo
  <2>2. Stretch(list[Len(list)], t) \in IntervalOf
    BY <1>1, <2>1, StretchIs
  <2> QED BY <1>3, <2>1, <2>2, MergeIs
<1>4. CASE t.overlapping /\ ~StretchesTo(list, t)
  <2>1. Alone(t) \in IntervalOf
    BY <1>1 DEF Alone, IntervalOf
  <2> QED BY <1>4, <2>1, MergeIs
<1> QED BY <1>2, <1>3, <1>4

LEMMA MergeSteps ==
    ASSUME NEW M, Dated(M), NEW w \in Seq(M)
    PROVE  \E h : /\ \A k \in 0 .. Len(w) : h[k] \in Seq(IntervalOf)
                  /\ h[0] = <<>>
                  /\ \A k \in 1 .. Len(w) : h[k] = Merge(h[k - 1], w[k])
                  /\ MarkedIntervals(w) = h[Len(w)]
<1> DEFINE N == Len(w)
           none == <<>>
           St == Seq(IntervalOf)
           step == [p \in (1 .. N) \X St |-> Merge(p[2], w[p[1]])]
           Body(g) == [s \in SUBSET DOMAIN w |->
                         IF s = {} THEN none ELSE Merge(g[s \ {Max(s)}], w[Max(s)])]
           iter == CHOOSE g : g = Body(g)
<1>1. N \in Nat /\ DOMAIN w = 1 .. N /\ none \in St
  OBVIOUS
<1>2. step \in [(1 .. N) \X St -> St]
  <2>1. \A k \in 1 .. N, x \in St : Merge(x, w[k]) \in St
    <3>1. \A k \in 1 .. N : w[k] \in M
      OBVIOUS
    <3> QED BY <3>1, MergeIsTyped
  <2> HIDE DEF St, N
  <2> QED BY <2>1
<1>3. \A k \in 1 .. N, x \in St : step[<<k, x>>] = Merge(x, w[k])
  <2> HIDE DEF St, N
  <2> QED OBVIOUS
<1> HIDE DEF St, N, step, none
<1>4. \E g : g = Body(g)
  <2>1. PICK g \in [SUBSET (1 .. N) -> St] : Folds(g, St, none, N, step)
    BY <1>1, <1>2, FoldExists
  <2>2. g = [s \in SUBSET (1 .. N) |-> g[s]]
    OBVIOUS
  <2>3. g = Body(g)
    BY <1>1, <1>3, <2>1, <2>2, MaxOfPart DEF Folds
  <2> QED BY <2>3
<1>5. iter = Body(iter)
  BY <1>4, Zenon
<1>6. MarkedIntervals(w) = iter[1 .. N]
  <2>1. MarkedIntervals(w) = iter[DOMAIN w]
    BY Zenon DEF MarkedIntervals, FoldLeft, MapThenFoldSet, none
  <2> QED BY <1>1, <2>1
<1> HIDE DEF iter
<1>7. Folds(iter, St, none, N, step)
  BY <1>1, <1>3, <1>5, MaxOfPart DEF Folds
<1>8. PICK h \in [0 .. N -> St] : Runs(h, none, N, step, iter[1 .. N])
  BY <1>1, <1>2, <1>7, FoldRuns
<1>9. \A k \in 1 .. N : h[k - 1] \in St
  BY <1>1
<1>10. \A k \in 1 .. N : h[k] = Merge(h[k - 1], w[k])
  BY <1>3, <1>8, <1>9 DEF Runs
<1>11. h[0] = none /\ h[N] = iter[1 .. N] /\ \A k \in 0 .. N : h[k] \in St
  BY <1>8 DEF Runs
<1> QED BY <1>6, <1>10, <1>11 DEF N, St, none

Crosses(x, a, b) == x.start < b /\ a < x.end

(* The intervals of the first k turns, none of which starts after from.    *)
Merged(list, w, k, from) ==
    /\ list \in Seq(IntervalOf) /\ Line(list)
    /\ list # <<>> => Last(list).start <= from
    /\ \A a, b \in Nat : a < b =>
         ((\E i \in 1 .. Len(list) : Crosses(list[i], a, b))
            <=> \E j \in 1 .. k : w[j].overlapping /\ Crosses(w[j], a, b))

LEMMA MergeKeeps ==
    ASSUME NEW M, Dated(M), NEW w \in Seq(M), NEW m \in 1 .. Len(w), NEW k \in Nat, m = k + 1,
           NEW list, NEW from \in Nat, Merged(list, w, k, from),
           from <= w[m].start, w[m].start < w[m].end
    PROVE  Merged(Merge(list, w[m]), w, m, w[m].start)
<1> DEFINE t == w[m]
           n == Len(list)
           new == Merge(list, t)
<1>1. t \in M /\ t.start \in Nat /\ t.end \in Nat /\ t.start < t.end /\ from <= t.start
  <2>1. w[m] \in M
    OBVIOUS
  <2> QED BY <2>1 DEF Dated
<1>2. list \in Seq(IntervalOf) /\ n \in Nat /\ Line(list)
  BY DEF Merged
<1>3. \A j : j \in 1 .. m <=> j \in 1 .. k \/ j = m
  OBVIOUS
<1>4. \A i \in 1 .. n : /\ list[i] \in IntervalOf
                        /\ list[i].start \in Nat /\ list[i].end \in Nat /\ list[i].start < list[i].end
  <2>1. \A i \in 1 .. n : list[i] \in IntervalOf
    BY <1>2
  <2> QED BY <1>2, <2>1 DEF Line
<1>5. new \in Seq(IntervalOf)
  BY <1>1, <1>2, MergeIsTyped
<1>6. ASSUME NEW a \in Nat, NEW b \in Nat, a < b
      PROVE  (\E i \in 1 .. n : Crosses(list[i], a, b))
               <=> \E j \in 1 .. k : w[j].overlapping /\ Crosses(w[j], a, b)
  BY <1>6 DEF Merged
<1>7. list # <<>> => Last(list).start <= from
  BY DEF Merged
<1> HIDE DEF t, new
<1>8. CASE ~t.overlapping
  <2>1. new = list
    BY <1>8, MergeIs DEF new
  <2>2. new # <<>> => Last(new).start <= t.start
    <3> SUFFICES ASSUME list # <<>> PROVE Last(list).start <= t.start
      BY <2>1
    <3>1. Last(list).start \in Nat
      BY <1>2, <1>4 DEF Last
    <3> QED BY <1>1, <1>7, <3>1
  <2>3. ASSUME NEW a \in Nat, NEW b \in Nat, a < b
        PROVE  (\E i \in 1 .. n : Crosses(list[i], a, b))
                 <=> \E j \in 1 .. m : w[j].overlapping /\ Crosses(w[j], a, b)
    BY <1>3, <1>6, <1>8, <2>3, Zenon DEF t
  <2> QED BY <1>2, <2>1, <2>2, <2>3 DEF Merged, t, new
<1>9. CASE t.overlapping /\ StretchesTo(list, t)
  <2> DEFINE l == list[n]
             e == Stretch(l, t)
  <2>1. n \in 1 .. n /\ l \in IntervalOf /\ l = Last(list) /\ list # <<>>
    BY <1>2, <1>4, <1>9 DEF StretchesTo, Last
  <2>2. t.start <= l.end /\ l.start <= from
    BY <1>7, <1>9, <2>1 DEF StretchesTo
  <2>3. l.start \in Nat /\ l.end \in Nat /\ l.start < l.end
    BY <1>4, <2>1
  <2>4. /\ e \in IntervalOf /\ e.start = l.start
        /\ e.end = IF l.end >= t.end THEN l.end ELSE t.end
    BY <1>1, <2>1, StretchIs
  <2>5. new = [list EXCEPT ![n] = e]
    BY <1>9, MergeIs DEF new
  <2> HIDE DEF e, l
  <2>6. Len(new) = n /\ new[n] = e /\ \A i \in 1 .. n - 1 : new[i] = list[i]
    BY <1>2, <2>1, <2>4, <2>5
  <2>7. \A i \in 1 .. n : i = n \/ i \in 1 .. n - 1
    BY <1>2
  <2>8. \A i \in 1 .. n : new[i].start = list[i].start
    BY <2>4, <2>6, <2>7 DEF l
  <2>9. \A i \in 1 .. n : new[i].start \in Nat /\ new[i].end \in Nat /\ new[i].start < new[i].end
    <3>1. e.start \in Nat /\ e.end \in Nat /\ e.start < e.end
      BY <1>1, <2>3, <2>4
    <3>2. \A i \in 1 .. n - 1 : i \in 1 .. n
      BY <1>2
    <3>3. ASSUME NEW i \in 1 .. n
          PROVE  new[i].start \in Nat /\ new[i].end \in Nat /\ new[i].start < new[i].end
      <4>1. CASE i = n
        BY <2>6, <3>1, <4>1
      <4>2. CASE i \in 1 .. n - 1
        BY <1>4, <2>6, <3>2, <4>2
      <4> QED BY <2>7, <4>1, <4>2
    <3> QED BY <3>3
  <2>10. Disjoint(new)
    <3> SUFFICES ASSUME NEW i \in 2 .. n PROVE new[i - 1].end <= new[i].start
      BY <2>6 DEF Disjoint
    <3>1. PICK p \in 1 .. n - 1 : p = i - 1
      BY <1>2
    <3>2. list[i - 1].end <= list[i].start
      BY <1>2 DEF Line, Disjoint
    <3>3. new[p] = list[p] /\ new[i].start = list[i].start
      BY <1>2, <2>6, <2>8
    <3> QED BY <3>1, <3>2, <3>3
  <2>11. Line(new)
    BY <2>6, <2>9, <2>10 DEF Line
  <2>12. Last(new).start <= t.start
    BY <1>1, <2>2, <2>3, <2>4, <2>6 DEF Last
  <2>13. ASSUME NEW a \in Nat, NEW b \in Nat, a < b
         PROVE  Crosses(e, a, b) <=> Crosses(l, a, b) \/ Crosses(t, a, b)
    BY <1>1, <2>2, <2>3, <2>4, <2>13 DEF Crosses
  <2>14. ASSUME NEW a \in Nat, NEW b \in Nat, a < b
         PROVE  (\E i \in 1 .. n : Crosses(new[i], a, b))
                  <=> \E j \in 1 .. m : w[j].overlapping /\ Crosses(w[j], a, b)
    <3>1. (\E i \in 1 .. n : Crosses(new[i], a, b))
            <=> (\E i \in 1 .. n : Crosses(list[i], a, b)) \/ Crosses(t, a, b)
      <4>1. \A i \in 1 .. n - 1 : i \in 1 .. n
        BY <1>2
      <4>2. Crosses(e, a, b) <=> Crosses(l, a, b) \/ Crosses(t, a, b)
        BY <2>13, <2>14
      <4> QED BY <2>1, <2>6, <2>7, <4>1, <4>2, Zenon DEF l
    <3>2. (\E i \in 1 .. n : Crosses(list[i], a, b))
            <=> \E j \in 1 .. k : w[j].overlapping /\ Crosses(w[j], a, b)
      BY <1>6, <2>14
    <3>3. m \in 1 .. m
      OBVIOUS
    <3> QED BY <1>3, <1>9, <3>1, <3>2, <3>3, Zenon DEF t
  <2> QED BY <1>5, <2>6, <2>11, <2>12, <2>14 DEF Merged, t, new
<1>10. CASE t.overlapping /\ ~StretchesTo(list, t)
  <2> DEFINE e == Alone(t)
  <2>1. e \in IntervalOf /\ e.start = t.start /\ e.end = t.end
    BY <1>1 DEF Alone, IntervalOf
  <2>2. new = Append(list, e)
    BY <1>10, MergeIs DEF new
  <2> HIDE DEF e
  <2>3. Len(new) = n + 1 /\ new[n + 1] = e /\ \A i \in 1 .. n : new[i] = list[i]
    BY <1>2, <2>1, <2>2
  <2>4. \A i \in 1 .. n + 1 : i \in 1 .. n \/ i = n + 1
    BY <1>2
  <2>5. \A i \in 1 .. n + 1 : new[i].start \in Nat /\ new[i].end \in Nat /\ new[i].start < new[i].end
    BY <1>1, <1>4, <2>1, <2>3, <2>4
  <2>6. Disjoint(new)
    <3> SUFFICES ASSUME NEW i \in 2 .. n + 1 PROVE new[i - 1].end <= new[i].start
      BY <2>3 DEF Disjoint
    <3>1. PICK p \in 1 .. n : p = i - 1
      BY <1>2
    <3>2. new[p] = list[p]
      BY <2>3
    <3>3. CASE i = n + 1
      <4>1. p = n /\ list # <<>> /\ Last(list) = list[n]
        BY <1>2, <3>1, <3>3 DEF Last
      <4>2. ~(t.start <= list[n].end) /\ list[n].end \in Nat
        BY <1>4, <1>10, <4>1 DEF StretchesTo
      <4>3. list[n].end <= t.start
        BY <1>1, <4>2
      <4>4. new[i - 1] = list[n] /\ new[i] = e
        BY <2>3, <3>1, <3>2, <3>3, <4>1
      <4> QED BY <2>1, <4>3, <4>4
    <3>4. CASE i # n + 1
      <4>1. i \in 2 .. n /\ i \in 1 .. n
        BY <1>2, <3>4
      <4>2. list[i - 1].end <= list[i].start
        BY <1>2, <4>1 DEF Line, Disjoint
      <4>3. new[i] = list[i] /\ new[i - 1] = list[i - 1]
        BY <2>3, <3>1, <3>2, <4>1
      <4> QED BY <4>2, <4>3
    <3> QED BY <3>3, <3>4
  <2>7. Line(new)
    BY <2>3, <2>5, <2>6 DEF Line
  <2>8. Last(new).start <= t.start
    BY <1>1, <2>1, <2>3 DEF Last
  <2>9. ASSUME NEW a \in Nat, NEW b \in Nat, a < b
        PROVE  (\E i \in 1 .. n + 1 : Crosses(new[i], a, b))
                 <=> \E j \in 1 .. m : w[j].overlapping /\ Crosses(w[j], a, b)
    <3>1. Crosses(e, a, b) <=> Crosses(t, a, b)
      BY <2>1, Zenon DEF Crosses
    <3>2. (\E i \in 1 .. n + 1 : Crosses(new[i], a, b))
            <=> (\E i \in 1 .. n : Crosses(list[i], a, b)) \/ Crosses(t, a, b)
      <4>1. n + 1 \in 1 .. n + 1 /\ \A i \in 1 .. n : i \in 1 .. n + 1
        BY <1>2
      <4> QED BY <2>3, <2>4, <3>1, <4>1, Zenon
    <3>3. (\E i \in 1 .. n : Crosses(list[i], a, b))
            <=> \E j \in 1 .. k : w[j].overlapping /\ Crosses(w[j], a, b)
      BY <1>6, <2>9
    <3>4. m \in 1 .. m
      OBVIOUS
    <3> QED BY <1>3, <1>10, <3>2, <3>3, <3>4, Zenon DEF t
  <2>10. Merged(new, w, m, t.start)
    <3> HIDE DEF n
    <3> QED BY <1>5, <2>3, <2>7, <2>8, <2>9 DEF Merged
  <2> QED BY <2>10 DEF t, new
<1> QED BY <1>8, <1>9, <1>10

(* The intervals of all turns.                                             *)
LEMMA IntervalsAre ==
    ASSUME NEW M, Dated(M), NEW w \in Seq(M),
           \A i \in 1 .. Len(w) : w[i].start < w[i].end,
           \A i \in 2 .. Len(w) : w[i - 1].start <= w[i].start
    PROVE  \E from : Merged(MarkedIntervals(w), w, Len(w), from)
<1> DEFINE N == Len(w)
           from(k) == IF k = 0 THEN 0 ELSE w[k].start
<1>1. PICK h : /\ \A k \in 0 .. N : h[k] \in Seq(IntervalOf)
               /\ h[0] = <<>>
               /\ \A k \in 1 .. N : h[k] = Merge(h[k - 1], w[k])
               /\ MarkedIntervals(w) = h[N]
  BY MergeSteps
<1>2. N \in Nat /\ \A k \in 1 .. N : w[k].start \in Nat
  <2>1. \A k \in 1 .. N : w[k] \in M
    OBVIOUS
  <2> QED BY <2>1 DEF Dated
<1> DEFINE S == {k \in 0 .. N : Merged(h[k], w, k, from(k))}
<1>3. 0 \in S
  <2>1. <<>> \in Seq(IntervalOf) /\ Len(<<>>) = 0 /\ 1 .. 0 = {} /\ 2 .. 0 = {}
    OBVIOUS
  <2>2. Merged(<<>>, w, 0, 0)
    BY <2>1 DEF Merged, Line, Disjoint
  <2> QED BY <1>1, <1>2, <2>2
<1>4. ASSUME NEW k \in 0 .. N - 1, k \in S PROVE k + 1 \in S
  <2>1. PICK m \in 1 .. N : m = k + 1
    BY <1>2
  <2>2. m - 1 = k /\ k \in Nat
    BY <1>2, <2>1
  <2>3. from(k) \in Nat /\ from(k) <= w[m].start
    <3>1. CASE k = 0
      BY <1>2, <3>1
    <3>2. CASE k # 0
      <4>1. k \in 1 .. N /\ m \in 2 .. N
        BY <2>1, <3>2
      <4>2. w[m - 1].start <= w[m].start
        BY <4>1
      <4> QED BY <1>2, <2>2, <3>2, <4>1, <4>2
    <3> QED BY <3>1, <3>2
  <2>4. Merged(h[k], w, k, from(k))
    BY <1>4
  <2>5. from(m) = w[m].start /\ w[m].start < w[m].end
    BY <2>1
  <2>6. h[m] = Merge(h[k], w[m])
    BY <1>1, <2>2
  <2> DEFINE list == h[k]  x == from(k)
  <2>7. x \in Nat /\ Merged(list, w, k, x) /\ x <= w[m].start
    BY <2>3, <2>4
  <2> HIDE DEF list, x
  <2>8. Merged(Merge(list, w[m]), w, m, w[m].start)
    BY <2>1, <2>2, <2>5, <2>7, MergeKeeps
  <2> QED BY <2>1, <2>5, <2>6, <2>8 DEF list
<1>5. N \in S
  <2>1. N \in 0 .. N
    BY <1>2
  <2>2. \A k \in 0 .. N - 1 : k \in S => k + 1 \in S
    <3> HIDE DEF S
    <3> QED BY <1>4
  <2> HIDE DEF S, N
  <2> QED BY <1>2, <1>3, <2>1, <2>2, InductionTo
<1> QED BY <1>1, <1>5

-----------------------------------------------------------------------------
(* The cursor over the intervals                                           *)

OverlapCursorOf(intervals) == [next : 1 .. Len(intervals) + 1, overlaps : Seq(BOOLEAN)]

NextInterval(intervals, cursor, dialogue) ==
    Max({cursor.next}
        \cup {i + 1 : i \in {j \in DOMAIN intervals : intervals[j].end <= dialogue.start}})

LEMMA NextIntervalIs ==
    ASSUME NEW R, NEW intervals \in Seq(R), NEW cursor,
           cursor.next \in 1 .. Len(intervals) + 1, NEW dialogue
    PROVE  LET next == NextInterval(intervals, cursor, dialogue)
           IN  /\ next \in 1 .. Len(intervals) + 1
               /\ \A j \in 1 .. Len(intervals) : intervals[j].end <= dialogue.start => j < next
               /\ \/ next = cursor.next
                  \/ next - 1 \in 1 .. Len(intervals) /\ intervals[next - 1].end <= dialogue.start
<1> DEFINE n == Len(intervals)
           J == {j \in DOMAIN intervals : intervals[j].end <= dialogue.start}
           X == {cursor.next} \cup {i + 1 : i \in J}
<1>1. n \in Nat /\ DOMAIN intervals = 1 .. n
  OBVIOUS
<1>2. J \subseteq 1 .. n
  BY <1>1
<1>3. X \in SUBSET (0 .. n + 1) /\ X # {} /\ n + 1 \in Nat /\ \A x \in X : x \in 1 .. n + 1
  <2> HIDE DEF J, n
  <2>1. \A i \in J : i + 1 \in 1 .. n + 1 /\ i + 1 \in 0 .. n + 1
    BY <1>1, <1>2
  <2>2. cursor.next \in 1 .. n + 1 /\ cursor.next \in 0 .. n + 1
    BY <1>1 DEF n
  <2> QED BY <1>1, <2>1, <2>2
<1>4. Max(X) \in X /\ \A k \in X : k <= Max(X)
  <2> HIDE DEF X, n
  <2> QED BY <1>3, Greatest
<1>5. NextInterval(intervals, cursor, dialogue) = Max(X)
  BY DEF NextInterval
<1>6. ASSUME NEW j \in 1 .. n, intervals[j].end <= dialogue.start PROVE j < Max(X)
  <2>1. j \in J
    BY <1>1, <1>6
  <2>2. j + 1 <= Max(X)
    BY <2>1, <1>4
  <2>3. Max(X) \in 1 .. n + 1
    BY <1>3, <1>4
  <2> HIDE DEF X, n
  <2> QED BY <2>2, <2>3
<1>7. Max(X) = cursor.next \/ (Max(X) - 1 \in 1 .. n /\ intervals[Max(X) - 1].end <= dialogue.start)
  <2>1. CASE \E i \in J : Max(X) = i + 1
    <3>1. PICK i \in J : Max(X) = i + 1
      BY <2>1
    <3>2. Max(X) - 1 = i
      BY <1>2, <3>1
    <3> HIDE DEF X
    <3> QED BY <1>1, <3>1, <3>2
  <2> QED BY <1>4, <2>1
<1> HIDE DEF X, n
<1>8. /\ Max(X) \in 1 .. n + 1
      /\ \A j \in 1 .. n : intervals[j].end <= dialogue.start => j < Max(X)
      /\ Max(X) = cursor.next \/ (Max(X) - 1 \in 1 .. n /\ intervals[Max(X) - 1].end <= dialogue.start)
  BY <1>3, <1>4, <1>6, <1>7
<1> QED BY <1>5, <1>8, Zenon DEF n

InInterval(intervals, next, dialogue) == next <= Len(intervals) /\ Meets(intervals[next], dialogue)

LEMMA MarkOverlapIs ==
    ASSUME NEW intervals, NEW cursor, NEW dialogue
    PROVE  LET next == NextInterval(intervals, cursor, dialogue)
           IN  MarkOverlap(intervals, cursor, dialogue)
                 = [next |-> next,
                    overlaps |-> Append(cursor.overlaps, InInterval(intervals, next, dialogue))]
BY Zenon DEF MarkOverlap, NextInterval, InInterval

LEMMA InIntervalIsTyped ==
    ASSUME NEW intervals, NEW next, NEW dialogue
    PROVE  InInterval(intervals, next, dialogue) \in BOOLEAN
BY DEF InInterval, Meets

LEMMA MarkOverlapIsTyped ==
    ASSUME NEW intervals \in Seq(IntervalOf), NEW cursor \in OverlapCursorOf(intervals), NEW dialogue
    PROVE  MarkOverlap(intervals, cursor, dialogue) \in OverlapCursorOf(intervals)
<1> DEFINE next == NextInterval(intervals, cursor, dialogue)
           b == InInterval(intervals, next, dialogue)
           all == Append(cursor.overlaps, b)
<1>1. cursor.next \in 1 .. Len(intervals) + 1 /\ cursor.overlaps \in Seq(BOOLEAN)
  BY DEF OverlapCursorOf
<1>2. next \in 1 .. Len(intervals) + 1
  BY <1>1, NextIntervalIs
<1>3. b \in BOOLEAN
  BY InIntervalIsTyped
<1>4. MarkOverlap(intervals, cursor, dialogue) = [next |-> next, overlaps |-> all]
  BY MarkOverlapIs, Zenon
<1> HIDE DEF b, next
<1>5. all \in Seq(BOOLEAN)
  BY <1>1, <1>3, AppendProperties
<1> HIDE DEF all
<1> QED BY <1>2, <1>4, <1>5 DEF OverlapCursorOf

Unpassed == [next |-> 1, overlaps |-> <<>>]

LEMMA MarkOverlapSteps ==
    ASSUME NEW rows, MarkedIntervals(rows) \in Seq(IntervalOf), NEW R, NEW w \in Seq(R)
    PROVE  LET intervals == MarkedIntervals(rows)
           IN  \E h : /\ \A k \in 0 .. Len(w) : h[k] \in OverlapCursorOf(intervals)
                      /\ h[0] = Unpassed
                      /\ \A k \in 1 .. Len(w) : h[k] = MarkOverlap(intervals, h[k - 1], w[k])
                      /\ Overlaps(rows, w) = h[Len(w)].overlaps
<1> DEFINE intervals == MarkedIntervals(rows)
           N == Len(w)
           base == Unpassed
           St == OverlapCursorOf(intervals)
           step == [p \in (1 .. N) \X St |-> MarkOverlap(intervals, p[2], w[p[1]])]
           Body(g) == [s \in SUBSET DOMAIN w |->
                         IF s = {} THEN [next |-> 1, overlaps |-> <<>>]
                         ELSE MarkOverlap(intervals, g[s \ {Max(s)}], w[Max(s)])]
           iter == CHOOSE g : g = Body(g)
<1>1. N \in Nat /\ DOMAIN w = 1 .. N /\ base \in St
  <2>1. Unpassed \in St
    BY DEF Unpassed, OverlapCursorOf
  <2> QED BY <2>1
<1>2. step \in [(1 .. N) \X St -> St]
  <2>1. \A k \in 1 .. N, x \in St : MarkOverlap(intervals, x, w[k]) \in St
    <3> HIDE DEF intervals
    <3>1. intervals \in Seq(IntervalOf)
      BY DEF intervals
    <3> QED BY <3>1, MarkOverlapIsTyped
  <2> HIDE DEF St, N
  <2> QED BY <2>1
<1>3. \A k \in 1 .. N, x \in St : step[<<k, x>>] = MarkOverlap(intervals, x, w[k])
  <2> HIDE DEF St, N
  <2> QED OBVIOUS
<1>4. \A g : Body(g) = [s \in SUBSET DOMAIN w |->
                          IF s = {} THEN base ELSE MarkOverlap(intervals, g[s \ {Max(s)}], w[Max(s)])]
  BY DEF Unpassed
<1> HIDE DEF St, N, step, base
<1>5. \E g : g = Body(g)
  <2>1. PICK g \in [SUBSET (1 .. N) -> St] : Folds(g, St, base, N, step)
    BY <1>1, <1>2, FoldExists
  <2>2. g = [s \in SUBSET (1 .. N) |-> g[s]]
    OBVIOUS
  <2>3. g = [s \in SUBSET DOMAIN w |->
               IF s = {} THEN base ELSE MarkOverlap(intervals, g[s \ {Max(s)}], w[Max(s)])]
    BY <1>1, <1>3, <2>1, <2>2, MaxOfPart DEF Folds
  <2>4. g = Body(g)
    <3> HIDE DEF Body
    <3> QED BY <1>4, <2>3, Zenon
  <2> QED BY <2>4
<1>6. iter = Body(iter)
  BY <1>5, Zenon
<1>7. Overlaps(rows, w) = iter[1 .. N].overlaps
  <2>1. Overlaps(rows, w) = iter[DOMAIN w].overlaps
    BY Zenon DEF Overlaps, FoldLeft, MapThenFoldSet
  <2> QED BY <1>1, <2>1
<1>8. iter = [s \in SUBSET DOMAIN w |->
                IF s = {} THEN base ELSE MarkOverlap(intervals, iter[s \ {Max(s)}], w[Max(s)])]
  <2> HIDE DEF iter, Body
  <2> QED BY <1>4, <1>6, Zenon
<1> HIDE DEF iter, Body
<1>9. Folds(iter, St, base, N, step)
  BY <1>1, <1>3, <1>8, MaxOfPart DEF Folds
<1>10. PICK h \in [0 .. N -> St] : Runs(h, base, N, step, iter[1 .. N])
  BY <1>1, <1>2, <1>9, FoldRuns
<1>11. \A k \in 1 .. N : h[k - 1] \in St
  BY <1>1
<1>12. \A k \in 1 .. N : h[k] = MarkOverlap(intervals, h[k - 1], w[k])
  BY <1>3, <1>10, <1>11 DEF Runs
<1>13. h[0] = base /\ h[N] = iter[1 .. N] /\ \A k \in 0 .. N : h[k] \in St
  BY <1>10 DEF Runs
<1> QED BY <1>7, <1>12, <1>13 DEF N, St, base

LEMMA CursorFinds ==
    ASSUME NEW intervals \in Seq(IntervalOf), Line(intervals),
           NEW cursor \in OverlapCursorOf(intervals), NEW d, Span(d), NEW from \in Nat, from <= d.start,
           \A i \in 1 .. cursor.next - 1 : intervals[i].end <= from
    PROVE  LET next == NextInterval(intervals, cursor, d)
           IN  /\ \A i \in 1 .. next - 1 : intervals[i].end <= d.start
               /\ InInterval(intervals, next, d)
                    <=> \E i \in 1 .. Len(intervals) : Meets(intervals[i], d)
<1> DEFINE n == Len(intervals)
           next == NextInterval(intervals, cursor, d)
<1>1. cursor.next \in 1 .. n + 1 /\ n \in Nat
  BY DEF OverlapCursorOf
<1>2. /\ next \in 1 .. n + 1
      /\ \A j \in 1 .. n : intervals[j].end <= d.start => j < next
      /\ next = cursor.next \/ (next - 1 \in 1 .. n /\ intervals[next - 1].end <= d.start)
  BY <1>1, NextIntervalIs
<1> HIDE DEF next
<1>3. \A i \in 1 .. n : /\ intervals[i].start \in Nat /\ intervals[i].end \in Nat
                        /\ intervals[i].start < intervals[i].end
  BY DEF Line
<1>4. d.start \in Nat /\ d.end \in Nat /\ d.start < d.end
  BY DEF Span
<1>5. ASSUME NEW i \in 1 .. next - 1 PROVE intervals[i].end <= d.start
  <2>1. i \in 1 .. n
    BY <1>1, <1>2
  <2>2. CASE next = cursor.next
    <3>1. intervals[i].end <= from
      BY <2>2
    <3> QED BY <1>3, <1>4, <2>1, <3>1
  <2>3. CASE next - 1 \in 1 .. n /\ intervals[next - 1].end <= d.start
    <3>1. PICK p \in 1 .. n : p = next - 1
      BY <2>3
    <3>2. i = p \/ i \in 1 .. p - 1
      BY <1>1, <1>2, <3>1
    <3>3. intervals[p].end <= d.start
      BY <2>3, <3>1
    <3>4. i \in 1 .. p - 1 => intervals[i].end <= intervals[p].start
      BY LineAscends
    <3> QED BY <1>3, <1>4, <2>1, <3>2, <3>3, <3>4
  <2> QED BY <1>2, <2>2, <2>3
<1>6. ASSUME InInterval(intervals, next, d)
      PROVE  \E i \in 1 .. n : Meets(intervals[i], d)
  BY <1>1, <1>2, <1>6 DEF InInterval
<1>7. ASSUME NEW i \in 1 .. n, Meets(intervals[i], d)
      PROVE  InInterval(intervals, next, d)
  <2>1. intervals[i].start < d.end /\ d.start < intervals[i].end
    BY <1>7 DEF Meets
  <2>2. i \notin 1 .. next - 1
    BY <1>3, <1>4, <1>5, <2>1
  <2>3. next \in 1 .. n /\ (i = next \/ next \in 1 .. i - 1)
    BY <1>1, <1>2, <2>2
  <2>4. intervals[next].start < d.end
    <3>1. next \in 1 .. i - 1 => intervals[next].end <= intervals[i].start
      BY LineAscends
    <3> QED BY <1>3, <1>4, <2>1, <2>3, <3>1
  <2>5. d.start < intervals[next].end
    <3>1. ~(intervals[next].end <= d.start)
      BY <1>1, <1>2, <2>3
    <3> QED BY <1>3, <1>4, <2>3, <3>1
  <2> QED BY <2>3, <2>4, <2>5 DEF InInterval, Meets
<1> QED BY <1>5, <1>6, <1>7, Zenon DEF next, n

LEMMA OverlapsAre ==
    ASSUME NEW rows, MarkedIntervals(rows) \in Seq(IntervalOf), Line(MarkedIntervals(rows)),
           NEW R, NEW dialogues \in Seq(R), Line(dialogues)
    PROVE  LET intervals == MarkedIntervals(rows)
           IN  \A j \in 1 .. Len(dialogues) :
                 Overlaps(rows, dialogues)[j]
                   <=> \E i \in 1 .. Len(intervals) : Meets(intervals[i], dialogues[j])
<1> DEFINE intervals == MarkedIntervals(rows)
           n == Len(intervals)
           N == Len(dialogues)
           Found(d) == \E i \in 1 .. n : Meets(intervals[i], d)
           upto(k) == IF k = 0 THEN 0 ELSE dialogues[k].start
           Passed(next, x) == \A i \in 1 .. next - 1 : intervals[i].end <= x
           Right(list, k) ==
             /\ Len(list) = k
             /\ \A j \in 1 .. k : list[j] <=> Found(dialogues[j])
<1>1. PICK h : /\ \A k \in 0 .. N : h[k] \in OverlapCursorOf(intervals)
               /\ h[0] = Unpassed
               /\ \A k \in 1 .. N : h[k] = MarkOverlap(intervals, h[k - 1], dialogues[k])
               /\ Overlaps(rows, dialogues) = h[N].overlaps
  BY MarkOverlapSteps
<1>2. N \in Nat /\ \A k \in 1 .. N : Span(dialogues[k])
  BY DEF Line, Span
<1>3. intervals \in Seq(IntervalOf) /\ Line(intervals) /\ n \in Nat
  OBVIOUS
<1> HIDE DEF intervals
<1> DEFINE S == {k \in 0 .. N : Passed(h[k].next, upto(k)) /\ Right(h[k].overlaps, k)}
<1>4. 0 \in S
  <2>1. h[0].next = 1 /\ h[0].overlaps = <<>>
    BY <1>1 DEF Unpassed
  <2>2. Passed(h[0].next, upto(0))
    BY <2>1
  <2>3. Right(h[0].overlaps, 0)
    BY <2>1
  <2> HIDE DEF Passed, Right
  <2> QED BY <1>2, <2>2, <2>3
<1>5. ASSUME NEW k \in 0 .. N - 1, k \in S PROVE k + 1 \in S
  <2>1. PICK m \in 1 .. N : m = k + 1
    BY <1>2
  <2>2. m - 1 = k /\ k \in 0 .. N
    BY <1>2, <2>1
  <2> DEFINE cursor == h[k]  d == dialogues[m]  x == upto(k)
             next == NextInterval(intervals, cursor, d)
             b == InInterval(intervals, next, d)
  <2>3. cursor \in OverlapCursorOf(intervals) /\ h[m] = MarkOverlap(intervals, cursor, d)
    BY <1>1, <2>2
  <2>4. Span(d) /\ x \in Nat /\ x <= d.start
    <3>1. Span(d)
      BY <1>2
    <3>2. CASE k = 0
      BY <3>1, <3>2 DEF Span
    <3>3. CASE k # 0
      <4>1. k \in 1 .. N /\ m \in 2 .. N
        BY <2>1, <3>3
      <4>2. dialogues[m - 1].end <= dialogues[m].start
        BY <4>1 DEF Line, Disjoint
      <4>3. Span(dialogues[k])
        BY <1>2, <4>1
      <4>4. dialogues[k].start \in Nat /\ dialogues[k].start <= dialogues[m].start
        BY <2>2, <3>1, <4>2, <4>3 DEF Span
      <4> QED BY <3>1, <3>3, <4>4
    <3> QED BY <3>2, <3>3
  <2>5. Passed(cursor.next, x) /\ Right(cursor.overlaps, k)
    BY <1>5
  <2>6. upto(m) = d.start
    BY <2>1
  <2> HIDE DEF cursor, d, x
  <2>7. /\ \A i \in 1 .. next - 1 : intervals[i].end <= d.start
        /\ b <=> Found(d)
    BY <1>3, <2>3, <2>4, <2>5, CursorFinds
  <2>8. h[m] = [next |-> next, overlaps |-> Append(cursor.overlaps, b)]
    BY <2>3, MarkOverlapIs, Zenon
  <2>9. b \in BOOLEAN
    BY InIntervalIsTyped
  <2>10. cursor.overlaps \in Seq(BOOLEAN) /\ Len(cursor.overlaps) = k
    BY <2>3, <2>5 DEF OverlapCursorOf
  <2> HIDE DEF b, next, upto, Found
  <2>11. h[m].next = next /\ h[m].overlaps = Append(cursor.overlaps, b)
    BY <2>8
  <2>12. Passed(h[m].next, upto(m))
    BY <2>6, <2>7, <2>11
  <2>13. Right(h[m].overlaps, m)
    <3> DEFINE old == cursor.overlaps  new == Append(old, b)
    <3>1. old \in Seq(BOOLEAN) /\ Len(old) = k /\ \A j \in 1 .. k : old[j] <=> Found(dialogues[j])
      BY <2>5, <2>10
    <3> HIDE DEF old
    <3>2. Len(new) = Len(old) + 1 /\ new[Len(old) + 1] = b /\ \A j \in 1 .. Len(old) : new[j] = old[j]
      BY <2>9, <3>1, AppendProperties
    <3> HIDE DEF new
    <3>3. Len(new) = m /\ new[m] = b /\ \A j \in 1 .. k : new[j] = old[j]
      BY <2>1, <3>1, <3>2
    <3>4. \A j \in 1 .. m : j \in 1 .. k \/ j = m
      BY <2>1
    <3>5. \A j \in 1 .. m : new[j] <=> Found(dialogues[j])
      BY <2>7, <3>1, <3>3, <3>4, Zenon DEF d
    <3>6. h[m].overlaps = new
      BY <2>11 DEF new, old
    <3> QED BY <3>3, <3>5, <3>6, Zenon
  <2> HIDE DEF Passed, Right
  <2> QED BY <2>1, <2>12, <2>13
<1>6. N \in S
  <2>1. N \in 0 .. N
    BY <1>2
  <2>2. \A k \in 0 .. N - 1 : k \in S => k + 1 \in S
    <3> HIDE DEF S
    <3> QED BY <1>5
  <2> HIDE DEF S, N
  <2> QED BY <1>2, <1>4, <2>1, <2>2, InductionTo
<1>7. Right(Overlaps(rows, dialogues), N)
  <2> HIDE DEF Right, Passed
  <2> QED BY <1>1, <1>6, Zenon
<1> QED BY <1>7, Zenon DEF intervals

(* A dialogue is marked as overlapping exactly if it meets a turn that     *)
(* meets another speaker's turn, for turns and dialogues of any number.    *)
THEOREM SharedSpeechIsMarked ==
    ASSUME NEW Sp, NEW turns \in Seq(TurnOf(Sp, Nat)), Timely(turns),
           NEW R, NEW dialogues \in Seq(R), Line(dialogues)
    PROVE  OverlapsAreMarked(turns, dialogues)
<1> DEFINE N == Len(turns)
           rows == Marked(turns)
           M == ToSet(rows)
           intervals == MarkedIntervals(rows)
<1>1. turns \in Seq(RowOf(Sp, Nat))
  <2>1. TurnOf(Sp, Nat) \subseteq RowOf(Sp, Nat)
    BY DEF TurnOf, RowOf
  <2> QED BY <2>1, SeqMonotonic
<1>2. N \in Nat /\ \A j \in 1 .. N : turns[j].start \in Nat /\ turns[j].end \in Nat
  <2>1. \A j \in 1 .. N : turns[j] \in TurnOf(Sp, Nat)
    OBVIOUS
  <2> QED BY <2>1 DEF TurnOf
<1>3. /\ DOMAIN rows = 1 .. N /\ Len(rows) = N
      /\ \A j \in 1 .. N : /\ rows[j].start = turns[j].start /\ rows[j].end = turns[j].end
                           /\ rows[j].overlapping <=> SharedTurn(turns, j)
  BY <1>1, MarkedAre
<1>4. \E f : rows = [i \in 1 .. N |-> f[i]]
  <2>1. DOMAIN turns = 1 .. N
    OBVIOUS
  <2>2. rows = [i \in 1 .. N |-> rows[i]]
    BY <2>1 DEF Marked
  <2> QED BY <2>2
<1> HIDE DEF rows
<1>5. M = {rows[j] : j \in 1 .. N}
  BY <1>3 DEF ToSet
<1>6. rows \in Seq(M)
  <2> HIDE DEF M, N
  <2>1. rows \in [1 .. N -> M]
    BY <1>4, <1>5
  <2> QED BY <1>2, <2>1
<1>7. Dated(M)
  BY <1>2, <1>3, <1>5 DEF Dated
<1> HIDE DEF M
<1>8. /\ \A i \in 1 .. Len(rows) : rows[i].start < rows[i].end
      /\ \A i \in 2 .. Len(rows) : rows[i - 1].start <= rows[i].start
  <2>1. \A i \in 2 .. N : i \in 1 .. N /\ i - 1 \in 1 .. N
    BY <1>2
  <2>2. \A i \in 1 .. N : rows[i].start < rows[i].end
    BY <1>3 DEF Timely
  <2>3. \A i \in 2 .. N : rows[i - 1].start <= rows[i].start
    BY <1>3, <2>1 DEF Timely
  <2> QED BY <1>3, <2>2, <2>3
<1>9. \E from : Merged(intervals, rows, Len(rows), from)
  BY <1>6, <1>7, <1>8, IntervalsAre
<1>10. /\ intervals \in Seq(IntervalOf) /\ Line(intervals)
       /\ \A a, b \in Nat : a < b =>
            ((\E i \in 1 .. Len(intervals) : Crosses(intervals[i], a, b))
               <=> \E j \in 1 .. N : rows[j].overlapping /\ Crosses(rows[j], a, b))
  BY <1>3, <1>9 DEF Merged
<1>11. \A j \in 1 .. Len(dialogues) :
         Overlaps(rows, dialogues)[j]
           <=> \E i \in 1 .. Len(intervals) : Meets(intervals[i], dialogues[j])
  BY <1>10, OverlapsAre
<1> HIDE DEF intervals
<1> DEFINE shared(t) == \E u \in ToSet(turns) : u.speaker # t.speaker /\ Meets(u, t)
<1>12. \A j \in 1 .. N : rows[j].overlapping <=> shared(turns[j])
  <2>1. ToSet(turns) = {turns[j] : j \in 1 .. N}
    BY DEF ToSet
  <2>2. \A j \in 1 .. N : SharedTurn(turns, j) <=> shared(turns[j])
    BY <2>1, Zenon DEF SharedTurn
  <2> HIDE DEF shared
  <2> QED BY <1>3, <2>2, Zenon
<1>13. ASSUME NEW i \in DOMAIN dialogues
       PROVE  Overlaps(rows, dialogues)[i]
                <=> \E t \in ToSet(turns) : shared(t) /\ Meets(t, dialogues[i])
  <2> DEFINE d == dialogues[i]
  <2>1. i \in 1 .. Len(dialogues)
    OBVIOUS
  <2>2. d.start \in Nat /\ d.end \in Nat /\ d.start < d.end
    BY <2>1 DEF Line
  <2> HIDE DEF d
  <2>3. (\E p \in 1 .. Len(intervals) : Crosses(intervals[p], d.start, d.end))
          <=> \E j \in 1 .. N : rows[j].overlapping /\ Crosses(rows[j], d.start, d.end)
    BY <1>10, <2>2
  <2>4. \A p \in 1 .. Len(intervals) : Crosses(intervals[p], d.start, d.end) <=> Meets(intervals[p], d)
    BY Zenon DEF Crosses, Meets
  <2>5. \A j \in 1 .. N : Crosses(rows[j], d.start, d.end) <=> Meets(turns[j], d)
    BY <1>3, Zenon DEF Crosses, Meets
  <2>6. Overlaps(rows, dialogues)[i]
          <=> \E p \in 1 .. Len(intervals) : Meets(intervals[p], d)
    BY <1>11, <2>1, Zenon DEF d
  <2>7. Overlaps(rows, dialogues)[i] <=> \E j \in 1 .. N : shared(turns[j]) /\ Meets(turns[j], d)
    <3> HIDE DEF shared
    <3> QED BY <1>12, <2>3, <2>4, <2>5, <2>6, Zenon
  <2>8. (\E j \in 1 .. N : shared(turns[j]) /\ Meets(turns[j], d))
          <=> \E t \in ToSet(turns) : shared(t) /\ Meets(t, d)
    <3>1. ToSet(turns) = {turns[j] : j \in 1 .. N}
      BY DEF ToSet
    <3> HIDE DEF shared
    <3> QED BY <3>1, Zenon
  <2> QED BY <2>7, <2>8, Zenon DEF d
<1> QED BY <1>13, Zenon DEF OverlapsAreMarked, rows

-----------------------------------------------------------------------------
(* The runs' properties of the timeline                                    *)

LEMMA BoundedIsSeq ==
    ASSUME NEW S, NEW n \in Nat
    PROVE  BoundedSeq(S, n) \subseteq Seq(S)
BY DEF BoundedSeq, SeqOf

LEMMA IntervalsAreTimed ==
    ASSUME NEW end \in Nat
    PROVE  /\ Timed(Intervals(end))
           /\ Intervals(end) \subseteq [start : Nat, end : Nat]
BY DEF Intervals, Timed, Positive

Spoke(S, Sp) ==
    \A t \in S : t.start \in Nat /\ t.end \in Nat /\ t.start < t.end /\ t.speaker \in Sp

LEMMA TurnsAreSpoken ==
    ASSUME NEW end \in Nat, NEW speakers
    PROVE  Spoke(Turns(end, speakers), 1 .. speakers)
BY DEF Turns, Positive, Spoke

LEMMA TimedIsLine ==
    ASSUME NEW D, Timed(D), NEW rows \in Seq(D), Disjoint(rows)
    PROVE  Line(rows)
<1>1. \A i \in 1 .. Len(rows) : rows[i] \in D
  OBVIOUS
<1> QED BY <1>1 DEF Line, Timed

(* The turns as they are numbered.                                         *)
NumbersOf(numbered, turns, Sp) ==
    /\ numbered \in Seq(TurnOf(Sp, Nat)) /\ Len(numbered) = Len(turns)
    /\ \A i \in 1 .. Len(turns) :
         numbered[i].start = turns[i].start /\ numbered[i].end = turns[i].end
           /\ numbered[i].ordinal = i

LEMMA NumberedIs ==
    ASSUME NEW S, NEW Sp, Spoke(S, Sp), NEW turns \in Seq(S)
    PROVE  NumbersOf(Numbered(turns), turns, Sp)
<1> DEFINE N == Len(turns)
           row(i) == [start |-> turns[i].start, end |-> turns[i].end,
                      speaker |-> turns[i].speaker, ordinal |-> i]
           numbered == Numbered(turns)
<1>1. N \in Nat /\ DOMAIN turns = 1 .. N /\ \A i \in 1 .. N : turns[i] \in S
  OBVIOUS
<1>2. \A i \in 1 .. N : row(i) \in TurnOf(Sp, Nat)
  BY <1>1 DEF TurnOf, Spoke
<1>3. numbered = [i \in 1 .. N |-> row(i)]
  BY <1>1, Zenon DEF Numbered
<1>4. \A i \in 1 .. N : /\ row(i).start = turns[i].start /\ row(i).end = turns[i].end
                        /\ row(i).ordinal = i
  OBVIOUS
<1> HIDE DEF row, numbered
<1>5. numbered \in [1 .. N -> TurnOf(Sp, Nat)]
  BY <1>2, <1>3
<1>6. numbered \in Seq(TurnOf(Sp, Nat)) /\ Len(numbered) = N
  BY <1>1, <1>5
<1>7. \A i \in 1 .. N : numbered[i] = row(i)
  BY <1>3
<1> QED BY <1>4, <1>6, <1>7 DEF numbered, NumbersOf

LEMMA TranscriptsAreTyped ==
    Transcripts \subseteq Seq(SegmentOf)
<1> DEFINE lists == BoundedSeq(Intervals(4), 3)
           Span4 == [start : Nat, end : Nat]
<1>1. lists \subseteq Seq(Intervals(4)) /\ Intervals(4) \subseteq Span4
  BY BoundedIsSeq, IntervalsAreTimed
<1>2. \A l \in lists : l \in Seq(Span4) /\ Len(l) \in Nat /\ DOMAIN l = 1 .. Len(l)
  <2> HIDE DEF lists, Span4
  <2>1. \A l \in lists : l \in Seq(Span4)
    BY <1>1, SeqMonotonic
  <2> QED BY <2>1
<1>3. ASSUME NEW l \in lists
      PROVE  [i \in DOMAIN l |-> Segment(l[i].start, l[i].end, <<>>)] \in Seq(SegmentOf)
  <2> HIDE DEF lists
  <2>1. \A i \in 1 .. Len(l) : l[i] \in Span4
    <3> HIDE DEF Span4
    <3>1. l \in Seq(Span4)
      BY <1>2
    <3> QED BY <3>1
  <2>2. \A i \in 1 .. Len(l) : Segment(l[i].start, l[i].end, <<>>) \in SegmentOf
    BY <2>1 DEF Segment, SegmentOf
  <2> DEFINE s == [i \in 1 .. Len(l) |-> Segment(l[i].start, l[i].end, <<>>)]
  <2>3. s \in [1 .. Len(l) -> SegmentOf]
    BY <2>2
  <2> DEFINE n == Len(l)
  <2>4. n \in Nat /\ s \in [1 .. n -> SegmentOf]
    BY <1>2, <2>3
  <2> HIDE DEF s, n
  <2>5. s \in Seq(SegmentOf)
    BY <2>4
  <2> QED BY <1>2, <2>5 DEF s
<1>4. ASSUME NEW l \in lists PROVE <<Segment(0, 4, l)>> \in Seq(SegmentOf)
  <2> HIDE DEF lists
  <2>1. l \in Seq(Span4)
    BY <1>2
  <2>2. Segment(0, 4, l) \in SegmentOf
    BY <2>1 DEF Segment, SegmentOf
  <2> HIDE DEF Span4
  <2> QED BY <2>2
<1> QED BY <1>3, <1>4 DEF Transcripts

LEMMA ScenesPartition == ScenesPartitionDialogues
<1> SUFFICES ASSUME NEW dialogues \in BoundedSeq(Intervals(7), 4), Disjoint(dialogues)
             PROVE  AreScenes(Scenes(dialogues), dialogues)
  BY DEF ScenesPartitionDialogues
<1>1. dialogues \in Seq(Intervals(7)) /\ Timed(Intervals(7))
  BY BoundedIsSeq, IntervalsAreTimed
<1> QED BY <1>1, ScenesAreCut

LEMMA DialoguesFollow == DialoguesFollowTurns
<1>1. ASSUME NEW transcript \in Transcripts, Accepted(transcript),
             NEW turns \in BoundedSeq(Turns(4, 2), 3), Disjoint(turns)
      PROVE  WordsAreAssigned(Numbered(turns), transcript)
  <2> DEFINE numbered == Numbered(turns)
  <2>1. transcript \in Seq(SegmentOf)
    BY TranscriptsAreTyped
  <2>2. turns \in Seq(Turns(4, 2))
    BY BoundedIsSeq
  <2>3. /\ numbered \in Seq(TurnOf(1 .. 2, Nat)) /\ Len(numbered) = Len(turns)
        /\ \A i \in 1 .. Len(turns) :
             numbered[i].start = turns[i].start /\ numbered[i].end = turns[i].end
    <3> DEFINE T == Turns(4, 2)
    <3>1. Spoke(T, 1 .. 2)
      BY TurnsAreSpoken
    <3>2. turns \in Seq(T)
      BY <2>2
    <3> HIDE DEF T
    <3>3. NumbersOf(numbered, turns, 1 .. 2)
      BY <3>1, <3>2, NumberedIs
    <3> HIDE DEF numbered
    <3> QED BY <3>3 DEF NumbersOf
  <2>4. \A i \in 1 .. Len(turns) :
          turns[i].start \in Nat /\ turns[i].end \in Nat /\ turns[i].start < turns[i].end
    <3>1. \A i \in 1 .. Len(turns) : turns[i] \in Turns(4, 2)
      BY <2>2
    <3> QED BY <3>1, TurnsAreSpoken DEF Spoke
  <2> HIDE DEF numbered
  <2>5. Disjoint(numbered)
    <3>1. \A i \in 2 .. Len(turns) : i \in 1 .. Len(turns) /\ i - 1 \in 1 .. Len(turns)
      BY <2>2
    <3> QED BY <1>1, <2>3, <3>1 DEF Disjoint
  <2>6. Line(numbered)
    BY <2>3, <2>4, <2>5 DEF Line
  <2>7. WordsAreAssigned(numbered, transcript)
    BY <1>1, <2>1, <2>3, <2>6, WordsBelong
  <2> QED BY <2>7 DEF numbered
<1>2. ASSUME NEW turns \in BoundedSeq(Turns(3, 3), 4), Ascending(turns),
             NEW dialogues \in BoundedSeq(Intervals(3), 2), Disjoint(dialogues)
      PROVE  OverlapsAreMarked(Numbered(turns), dialogues)
  <2> DEFINE numbered == Numbered(turns)
  <2>1. turns \in Seq(Turns(3, 3)) /\ dialogues \in Seq(Intervals(3))
    BY BoundedIsSeq
  <2>2. Line(dialogues)
    BY <1>2, <2>1, IntervalsAreTimed, TimedIsLine
  <2>3. /\ numbered \in Seq(TurnOf(1 .. 3, Nat)) /\ Len(numbered) = Len(turns)
        /\ \A i \in 1 .. Len(turns) :
             /\ numbered[i].start = turns[i].start /\ numbered[i].end = turns[i].end
             /\ numbered[i].ordinal = i
    <3> DEFINE T == Turns(3, 3)
    <3>1. Spoke(T, 1 .. 3)
      BY TurnsAreSpoken
    <3>2. turns \in Seq(T)
      BY <2>1
    <3> HIDE DEF T
    <3>3. NumbersOf(numbered, turns, 1 .. 3)
      BY <3>1, <3>2, NumberedIs
    <3> HIDE DEF numbered
    <3> QED BY <3>3 DEF NumbersOf
  <2>4. \A i \in 1 .. Len(turns) : turns[i].start < turns[i].end
    <3>1. \A i \in 1 .. Len(turns) : turns[i] \in Turns(3, 3)
      BY <2>1
    <3> QED BY <3>1, TurnsAreSpoken DEF Spoke
  <2> HIDE DEF numbered
  <2>5. Timely(numbered)
    <3>1. \A i \in 2 .. Len(turns) : i \in 1 .. Len(turns) /\ i - 1 \in 1 .. Len(turns)
      BY <2>1
    <3>2. \A i \in 2 .. Len(turns) : numbered[i - 1].start <= numbered[i].start
      BY <1>2, <2>3, <3>1 DEF Ascending
    <3> QED BY <2>3, <2>4, <3>2 DEF Timely
  <2>6. OverlapsAreMarked(numbered, dialogues)
    BY <2>1, <2>2, <2>3, <2>5, SharedSpeechIsMarked
  <2> QED BY <2>6 DEF numbered
<1> QED BY <1>1, <1>2, Zenon DEF DialoguesFollowTurns

(* The scenes that the run cuts of its dialogues are right, as all are.    *)
THEOREM ScenesPartitionDialoguesHolds == Spec => []ScenesPartitionDialogues
<1>1. ScenesPartitionDialogues
  BY ScenesPartition
<1> QED BY <1>1, PTL

(* The run's words have the turns they belong to, and its dialogues the    *)
(* marks of shared speech, as all have.                                    *)
THEOREM DialoguesFollowTurnsHolds == Spec => []DialoguesFollowTurns
<1>1. DialoguesFollowTurns
  BY DialoguesFollow
<1> QED BY <1>1, PTL

(* From the words to the scenes: whatever the diarization's regular turns, *)
(* its exclusive ones and the transcript, the dialogues that the resolver  *)
(* makes of them are marked and cut into scenes as they should.            *)
THEOREM TimelineIsRight ==
    ASSUME NEW Sp, NEW regular \in Seq(TurnOf(Sp, Nat)), Timely(regular),
           NEW exclusive \in Seq(TurnOf(Sp, Nat)), Line(exclusive),
           NEW transcript \in Seq(SegmentOf), Accepted(transcript)
    PROVE  LET dialogues == Dialogues(exclusive, transcript)
           IN  /\ WordsAreAssigned(exclusive, transcript)
               /\ OverlapsAreMarked(regular, dialogues)
               /\ AreScenes(Scenes(dialogues), dialogues)
<1> DEFINE dialogues == Dialogues(exclusive, transcript)
           D == ToSet(dialogues)
<1>1. /\ WordsAreAssigned(exclusive, transcript) /\ Line(dialogues)
      /\ dialogues \in Seq(DialogueOf(Assignees(ToSet(exclusive))))
  BY WordsBelong
<1> HIDE DEF dialogues
<1>2. D = {dialogues[i] : i \in 1 .. Len(dialogues)}
  BY <1>1 DEF ToSet
<1> HIDE DEF D
<1>3. dialogues \in Seq(D) /\ Timed(D) /\ Disjoint(dialogues)
  <2>1. dialogues \in Seq(D)
    BY <1>1, <1>2
  <2>2. Timed(D)
    BY <1>1, <1>2 DEF Line, Timed
  <2> QED BY <1>1, <2>1, <2>2 DEF Line
<1>4. OverlapsAreMarked(regular, dialogues)
  BY <1>1, SharedSpeechIsMarked
<1>5. AreScenes(Scenes(dialogues), dialogues)
  BY <1>3, ScenesAreCut
<1> QED BY <1>1, <1>4, <1>5 DEF dialogues

(* What the executor publishes of a transcript with positive times, the    *)
(* reader accepts, and the resolver as well.                               *)
THEOREM PublishedTranscriptIsAccepted ==
    ASSUME NEW transcript \in Seq(SegmentOf), TranscriptPublished(transcript),
           \A i \in 1 .. Len(transcript) :
             /\ Positive(transcript[i])
             /\ \A j \in 1 .. Len(transcript[i].words) : Positive(transcript[i].words[j])
    PROVE  TranscriptReadable(transcript) /\ Accepted(transcript)
<1> DEFINE N == Len(transcript)
<1>1. N \in Nat /\ DOMAIN transcript = 1 .. N
  OBVIOUS
<1>2. ASSUME NEW i \in 1 .. N
      PROVE  /\ transcript[i].start \in Nat /\ transcript[i].end \in Nat
             /\ transcript[i].words \in Seq([start : Nat, end : Nat])
             /\ DOMAIN transcript[i].words = 1 .. Len(transcript[i].words)
  <2>1. transcript[i] \in SegmentOf
    OBVIOUS
  <2> DEFINE t == transcript[i]
  <2>2. t \in SegmentOf
    BY <2>1
  <2> HIDE DEF t
  <2>3. t.start \in Nat /\ t.end \in Nat /\ t.words \in Seq([start : Nat, end : Nat])
    BY <2>2 DEF SegmentOf
  <2>4. DOMAIN t.words = 1 .. Len(t.words)
    BY <2>3
  <2> QED BY <2>3, <2>4 DEF t
<1>3. ASSUME NEW i \in 1 .. N
      PROVE  /\ transcript[i].end <= Duration
             /\ i > 1 => transcript[i - 1].end <= transcript[i].start
             /\ \A j \in 1 .. Len(transcript[i].words) :
                  /\ transcript[i].start <= transcript[i].words[j].start
                  /\ transcript[i].words[j].end <= transcript[i].end
                  /\ j > 1 => transcript[i].words[j - 1].end <= transcript[i].words[j].start
  BY <1>1, <1>2 DEF TranscriptPublished
<1>4. Accepted(transcript)
  <2>1. Disjoint(transcript)
    BY <1>1, <1>3 DEF Disjoint
  <2>2. \A i \in 1 .. N : Disjoint(transcript[i].words)
    <3> SUFFICES ASSUME NEW i \in 1 .. N, NEW j \in 2 .. Len(transcript[i].words)
                 PROVE  transcript[i].words[j - 1].end <= transcript[i].words[j].start
      BY DEF Disjoint
    <3>1. Len(transcript[i].words) \in Nat
      BY <1>2
    <3>2. j \in 1 .. Len(transcript[i].words) /\ j > 1
      BY <3>1
    <3> QED BY <1>3, <3>2
  <2> QED BY <1>1, <1>2, <1>3, <2>1, <2>2 DEF Accepted
<1>5. TranscriptReadable(transcript)
  <2> DEFINE endOf(rows, i, base) == IF i = 0 THEN base ELSE rows[i].end
  <2>1. \A i \in 1 .. N : endOf(transcript, i - 1, 0) <= transcript[i].start
    <3> SUFFICES ASSUME NEW i \in 1 .. N
                 PROVE  endOf(transcript, i - 1, 0) <= transcript[i].start
      OBVIOUS
    <3>1. CASE i = 1
      BY <1>2, <3>1
    <3>2. CASE i > 1
      BY <1>3, <3>2
    <3> QED BY <3>1, <3>2
  <2>2. \A i \in 1 .. N : \A j \in 1 .. Len(transcript[i].words) :
          endOf(transcript[i].words, j - 1, transcript[i].start) <= transcript[i].words[j].start
    <3> SUFFICES ASSUME NEW i \in 1 .. N, NEW j \in 1 .. Len(transcript[i].words)
                 PROVE  endOf(transcript[i].words, j - 1, transcript[i].start)
                          <= transcript[i].words[j].start
      OBVIOUS
    <3>0. Len(transcript[i].words) \in Nat
      BY <1>2
    <3>1. CASE j = 1
      BY <1>3, <3>1
    <3>2. CASE j > 1
      BY <1>3, <3>0, <3>2
    <3> QED BY <3>0, <3>1, <3>2
  <2> QED BY <1>1, <1>2, <1>3, <2>1, <2>2, Zenon DEF TranscriptReadable
<1> QED BY <1>4, <1>5

=============================================================================
