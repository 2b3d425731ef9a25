------------------------- MODULE UploadClientProofs -------------------------
(***************************************************************************)
(* Proofs about UploadClient, for any number of attempts, parts, faults    *)
(* and projects.                                                           *)
(*                                                                         *)
(* That a checkpoint is true needs the same of everything that may still   *)
(* be saved as one: the copy of every attempt, and every part that has     *)
(* arrived and is not yet in the copy (RunsSound).  It is kept because     *)
(* what the checkpoint says of the server only becomes truer (Grows).      *)
(*                                                                         *)
(* That projects are accounted for needs to count also those that will be  *)
(* created without another loss: one by each attempt that is at it, or,    *)
(* while there is none and nothing leads the next attempt to a project,    *)
(* one by that (Accounts).                                                 *)
(***************************************************************************)
EXTENDS UploadClient, FiniteSetTheorems, TLAPS

Uploads == [Projects -> {"absent", "none", "initiated", "completing",
                         "completed", "aborted"}]

-----------------------------------------------------------------------------
(* The inductive invariant                                                 *)

(* A checkpoint against an upload u and the parts s of the server.         *)
Sound(c, u, s) ==
    /\ c.upload => c.project # None
    /\ c.project = None => c.parts = {}
    /\ c.project # None =>
         /\ u[c.project] # "absent"
         /\ c.upload => u[c.project] # "none"
         /\ u[c.project] # "aborted" => c.parts \subseteq s[c.project]

(* An attempt: its copy, and what its transfers will add to it.            *)
RunSound(k, u, s) ==
    /\ Sound(k.copy, u, s)
    /\ k.phase \in {"signing", "transferring", "completing"} => k.copy.upload
    /\ k.queue \cup k.flight # {} => k.copy.upload
    /\ k.flight # {} => k.phase \in {"transferring", "failed"}
    /\ k.arrived \subseteq k.flight
    /\ \A p \in k.arrived :
         u[k.copy.project] # "aborted" => p \in s[k.copy.project]

RunsSound == \A r \in Runs : RunSound(run[r], upload, stored)

CheckpointSound ==
    checkpoint # None => /\ Sound(checkpoint, upload, stored)
                         /\ checkpoint.project # None

Created == {p \in Projects : upload[p] # "absent"}

(* The next attempt is to create a project.                                *)
Adrift == Creating = {} /\ ~Finished /\ ~Usable(checkpoint)

Accounts ==
    Cardinality(Created) + Cardinality(Creating) + (IF Adrift THEN 1 ELSE 0)
      <= 1 + losses

ClientInv ==
    /\ TypeOK
    /\ RunsSound
    /\ CheckpointSound
    /\ Accounts
    /\ IsFiniteSet(Created) /\ IsFiniteSet(Creating)

-----------------------------------------------------------------------------
(* What the server has, it keeps, up to an abort                           *)

Grows(u, s, v, t) ==
    \A p \in Projects :
      /\ u[p] # "absent" => v[p] # "absent"
      /\ u[p] \notin {"absent", "none"} => v[p] \notin {"absent", "none"}
      /\ v[p] # "aborted" => u[p] # "aborted" /\ s[p] \subseteq t[p]

LEMMA SoundStays ==
  ASSUME NEW c \in Checkpoint, NEW u, NEW s, NEW v, NEW t,
         Sound(c, u, s), Grows(u, s, v, t)
  PROVE  Sound(c, v, t)
<1>1. CASE c.project = None
  BY <1>1, UploadAssumption DEF Sound
<1>2. CASE c.project # None
  <2>1. c.project \in Projects
    BY <1>2 DEF Checkpoint
  <2>2. c.upload \in BOOLEAN
    BY DEF Checkpoint
  <2> QED BY <1>2, <2>1, <2>2 DEF Sound, Grows
<1> QED BY <1>1, <1>2

LEMMA RunSoundStays ==
  ASSUME NEW k \in Run, NEW u, NEW s, NEW v, NEW t,
         RunSound(k, u, s), Grows(u, s, v, t)
  PROVE  RunSound(k, v, t)
<1>1. k.copy \in Checkpoint
  BY DEF Run
<1>2. Sound(k.copy, v, t)
  BY <1>1, SoundStays DEF RunSound
<1>3. ASSUME NEW p \in k.arrived, v[k.copy.project] # "aborted"
      PROVE  p \in t[k.copy.project]
  <2>1. k.flight # {}
    BY DEF RunSound
  <2>2. k.copy.upload
    BY <2>1 DEF RunSound
  <2>3. k.copy.project \in Projects
    BY <1>1, <2>2 DEF RunSound, Sound, Checkpoint
  <2> QED BY <1>3, <2>3 DEF RunSound, Grows
<1> QED BY <1>2, <1>3 DEF RunSound

LEMMA GrowsFromItself ==
  ASSUME NEW u, NEW s
  PROVE  Grows(u, s, u, s)
BY DEF Grows

-----------------------------------------------------------------------------
(* The accounts                                                            *)

UsableIn(c, u) == c # None /\ c.project # None /\ u[c.project] # "aborted"

LEMMA UsableNow ==
  /\ Usable(checkpoint) <=> UsableIn(checkpoint, upload)
  /\ Usable(checkpoint)' <=> UsableIn(checkpoint', upload')
BY DEF Usable, UsableIn

LEMMA Counted ==
  ASSUME ClientInv
  PROVE  Cardinality(Created) \in Nat /\ Cardinality(Creating) \in Nat /\ losses \in Nat
BY FS_CardinalityType DEF ClientInv, TypeOK

LEMMA Balance ==
  ASSUME NEW c \in Nat, NEW n \in Nat, NEW m \in Nat, NEW a \in {0, 1}, NEW b \in {0, 1},
         NEW l \in Nat, NEW k \in {l, l + 1},
         c + n + a <= 1 + l, m <= n,
         m = n => b = 0 \/ a = 1 \/ k = l + 1
  PROVE  c + m + b <= 1 + k
<1>1. CASE m = n
  BY <1>1
<1>2. CASE m # n
  BY <1>2
<1> QED BY <1>1, <1>2

(* An attempt enters the accounts, and its creation becomes a project.     *)
LEMMA Moves ==
  ASSUME NEW c \in Nat, NEW n \in Nat, NEW l \in Nat
  PROVE  /\ c + n <= l => c + (n + 1) + 0 <= 1 + l
         /\ \A k \in Nat : c + n + 0 <= 1 + k /\ k <= l => (c + 1) + (n - 1) + 0 <= 1 + l
OBVIOUS

(* A step that creates nothing, and starts nothing that will: an attempt   *)
(* that gives up leaves its place to the next one, and otherwise the       *)
(* checkpoint remains usable or there is a loss.                           *)
LEMMA AccountsStay ==
  ASSUME ClientInv, Created' = Created, Creating' \subseteq Creating,
         losses' \in {losses, losses + 1},
         Finished => Finished',
         Usable(checkpoint) /\ ~Usable(checkpoint)' /\ ~Finished' => losses' = losses + 1
  PROVE  Accounts' /\ IsFiniteSet(Created)' /\ IsFiniteSet(Creating)'
<1> DEFINE n == Cardinality(Creating)
           m == Cardinality(Creating')
           c == Cardinality(Created)
           a == IF Adrift THEN 1 ELSE 0
           b == IF Adrift' THEN 1 ELSE 0
<1>1. c \in Nat /\ n \in Nat /\ losses \in Nat
  BY Counted
<1>2. IsFiniteSet(Created) /\ IsFiniteSet(Creating)
  BY DEF ClientInv
<1>3. IsFiniteSet(Creating') /\ m <= n /\ (m = n => Creating' = Creating)
  BY <1>2, FS_Subset
<1>4. m \in Nat
  BY <1>3, FS_CardinalityType
<1>5. c + n + a <= 1 + losses
  BY DEF ClientInv, Accounts
<1>6. Accounts' <=> c + m + b <= 1 + losses'
  BY DEF Accounts
<1>7. a \in {0, 1} /\ b \in {0, 1} /\ (m = n => b = 0 \/ a = 1 \/ losses' = losses + 1)
  <2>1. Adrift' => m # n \/ Adrift \/ losses' = losses + 1
    BY <1>3 DEF Adrift
  <2> HIDE DEF n, m
  <2> QED BY <2>1, Zenon
<1> HIDE DEF c, n, m, a, b
<1>8. c + m + b <= 1 + losses'
  BY <1>1, <1>3, <1>4, <1>5, <1>7, Balance
<1> QED BY <1>2, <1>3, <1>6, <1>8

LEMMA AccountsHold ==
  ASSUME ClientInv
  PROVE  ProjectsAreAccounted
<1>1. Cardinality(Created) <= 1 + losses
  BY Counted DEF ClientInv, Accounts
<1> QED BY <1>1, Zenon DEF ProjectsAreAccounted, Created

-----------------------------------------------------------------------------
(* Steps of one attempt                                                    *)

LEMMA CheckpointStays ==
  ASSUME ClientInv, checkpoint' \in {checkpoint, None},
         Grows(upload, stored, upload', stored')
  PROVE  CheckpointSound'
<1>1. CASE checkpoint' = None
  BY <1>1 DEF CheckpointSound
<1>2. CASE checkpoint' = checkpoint /\ checkpoint # None
  <2>1. checkpoint \in Checkpoint
    BY <1>2 DEF ClientInv, TypeOK
  <2>2. Sound(checkpoint, upload', stored')
    BY <1>2, <2>1, SoundStays DEF ClientInv, CheckpointSound
  <2> QED BY <1>2, <2>2 DEF ClientInv, CheckpointSound
<1> QED BY <1>1, <1>2

(* The counters.                                                           *)
LEMMA Counters ==
  ASSUME ClientInv
  PROVE  /\ Fault => faults' \in 0 .. MaxFaults
         /\ UNCHANGED faults => faults' \in 0 .. MaxFaults
         /\ NoLoss => losses' = losses
         /\ NoFault => faults' \in 0 .. MaxFaults /\ losses' = losses
         /\ losses \in Nat
<1>1. faults \in 0 .. MaxFaults /\ losses \in Nat /\ MaxFaults \in Nat
  BY UploadAssumption DEF ClientInv, TypeOK
<1> QED BY <1>1 DEF Fault, NoLoss, LossIf, NoFault

(* The state of one attempt.                                               *)
LEMMA OfRun ==
  ASSUME ClientInv, NEW r \in Runs
  PROVE  /\ run[r] \in Run
         /\ run[r].copy \in Checkpoint
         /\ Project(r) = run[r].copy.project
         /\ Project(r) \in Projects \cup {None}
         /\ run[r].copy.upload => Project(r) \in Projects
         /\ RunSound(run[r], upload, stored)
BY DEF ClientInv, TypeOK, Run, Checkpoint, Project, RunsSound, RunSound, Sound

(* An attempt that is over.                                                *)
LEMMA IdleSound ==
  ASSUME NEW phase \in {"idle", "done"}, NEW u, NEW s
  PROVE  /\ [IdleRun EXCEPT !.phase = phase] \in Run
         /\ [IdleRun EXCEPT !.phase = phase].phase = phase
         /\ RunSound([IdleRun EXCEPT !.phase = phase], u, s)
<1> DEFINE k == [IdleRun EXCEPT !.phase = phase]
<1>1. k \in Run
  BY DEF IdleRun, Run, NewCheckpoint, Checkpoint, Live
<1>2. /\ k.phase = phase /\ k.copy = NewCheckpoint
      /\ k.queue = {} /\ k.flight = {} /\ k.arrived = {}
  BY DEF IdleRun
<1>3. RunSound(k, u, s)
  BY <1>2 DEF RunSound, Sound, NewCheckpoint
<1> QED BY <1>1, <1>2, <1>3

LEMMA IdleRunSound ==
  ASSUME NEW u, NEW s
  PROVE  IdleRun \in Run /\ IdleRun.phase = "idle" /\ RunSound(IdleRun, u, s)
BY DEF IdleRun, Run, NewCheckpoint, Checkpoint, RunSound, Sound

LEMMA RunChanges ==
  ASSUME ClientInv, NEW r \in Runs, NEW k \in Run, run' = [run EXCEPT ![r] = k]
  PROVE  /\ run' \in [Runs -> Run]
         /\ run'[r] = k
         /\ \A q \in Runs \ {r} : run'[q] = run[q]
BY DEF ClientInv, TypeOK

LEMMA RunsStaySound ==
  ASSUME ClientInv, NEW r \in Runs, NEW k \in Run, run' = [run EXCEPT ![r] = k],
         Grows(upload, stored, upload', stored'), RunSound(k, upload', stored')
  PROVE  RunsSound'
<1>1. ASSUME NEW q \in Runs
      PROVE  RunSound(run'[q], upload', stored')
  <2>1. CASE q = r
    BY <2>1, RunChanges
  <2>2. CASE q # r
    <3>1. run[q] \in Run /\ RunSound(run[q], upload, stored)
      BY OfRun
    <3>2. RunSound(run[q], upload', stored')
      BY <3>1, RunSoundStays
    <3>3. run'[q] = run[q]
      BY <2>2, RunChanges
    <3> QED BY <3>2, <3>3
  <2> QED BY <2>1, <2>2
<1> QED BY <1>1 DEF RunsSound

(* A step of one attempt that creates and aborts nothing.                  *)
LEMMA OneRunStep ==
  ASSUME ClientInv, NEW r \in Runs, NEW k \in Run, run' = [run EXCEPT ![r] = k],
         TypeOK', Grows(upload, stored, upload', stored'),
         \A p \in Projects : upload'[p] = "absent" <=> upload[p] = "absent",
         RunSound(k, upload', stored'), CheckpointSound',
         k.phase = "starting" /\ k.copy.project = None => r \in Creating,
         run[r].phase = "done" => k.phase = "done",
         losses' \in {losses, losses + 1},
         Usable(checkpoint) /\ ~Usable(checkpoint)' /\ k.phase # "done"
           => losses' = losses + 1
  PROVE  ClientInv'
<1>1. run'[r] = k /\ \A q \in Runs \ {r} : run'[q] = run[q]
  BY RunChanges
<1>2. RunsSound'
  BY RunsStaySound
<1>3. Created' = Created
  BY DEF Created
<1>4. Creating' \subseteq Creating
  BY <1>1 DEF Creating, In, Project
<1>5. Finished => Finished'
  BY <1>1 DEF Finished, In
<1>6. k.phase = "done" => Finished'
  BY <1>1 DEF Finished, In
<1>7. Accounts' /\ IsFiniteSet(Created)' /\ IsFiniteSet(Creating)'
  BY <1>3, <1>4, <1>5, <1>6, AccountsStay
<1> QED BY <1>2, <1>7 DEF ClientInv

(* One that leaves the server and the checkpoint alone, and does not save. *)
LEMMA LocalStep ==
  ASSUME ClientInv, NEW r \in Runs, NEW k \in Run,
         run' = [run EXCEPT ![r] = k],
         UNCHANGED <<serverVars, checkpoint>>, controller' \in Runs \cup {None},
         faults' \in 0 .. MaxFaults, losses' = losses,
         RunSound(k, upload, stored),
         k.phase = "starting" => run[r].phase = "starting" /\ k.copy = run[r].copy,
         run[r].phase = "done" => k.phase = "done"
  PROVE  ClientInv'
<1>1. UNCHANGED <<upload, stored, expired>>
  BY DEF serverVars
<1>2. TypeOK'
  BY <1>1, RunChanges DEF ClientInv, TypeOK
<1>3. Grows(upload, stored, upload', stored')
  BY <1>1, GrowsFromItself
<1>4. CheckpointSound'
  BY <1>3, CheckpointStays
<1>5. k.phase = "starting" /\ k.copy.project = None => r \in Creating
  BY DEF Creating, In, Project
<1>6. Usable(checkpoint)' <=> Usable(checkpoint)
  BY <1>1, UsableNow
<1>7. RunSound(k, upload', stored')
  BY <1>1
<1> QED BY <1>1, <1>2, <1>3, <1>4, <1>5, <1>6, <1>7, OneRunStep

(* An attempt without transfers ends.                                      *)
LEMMA FailsStep ==
  ASSUME ClientInv, NEW r \in Runs, Fails(r), run[r].phase # "done",
         UNCHANGED <<serverVars, checkpoint>>,
         faults' \in 0 .. MaxFaults, losses' = losses
  PROVE  ClientInv'
<1> DEFINE k == [IdleRun EXCEPT !.phase = "idle"]
<1>1. k \in Run /\ k.phase = "idle" /\ RunSound(k, upload, stored)
  BY IdleSound
<1>2. run' = [run EXCEPT ![r] = k] /\ controller' = None
  BY DEF Fails, Ends
<1> HIDE DEF k
<1> QED BY <1>1, <1>2, LocalStep

(* It goes on to sign, or to complete, with its copy as it is.             *)
LEMMA GoesOnStep ==
  ASSUME ClientInv, NEW r \in Runs, NEW phase \in {"signing", "completing"},
         GoesOn(r, phase), run[r].phase # "done",
         run[r].copy.upload, run[r].flight = {},
         UNCHANGED <<serverVars, checkpoint>>,
         faults' \in 0 .. MaxFaults, losses' = losses
  PROVE  ClientInv'
<1> DEFINE k == [run[r] EXCEPT !.phase = phase]
<1>1. run[r] \in Run /\ RunSound(run[r], upload, stored)
  BY OfRun
<1>2. k \in Run
  BY <1>1 DEF Run, Live
<1>3. run' = [run EXCEPT ![r] = k] /\ controller' \in Runs \cup {None}
  BY DEF GoesOn, ClientInv, TypeOK
<1>4. /\ k.phase = phase /\ k.copy = run[r].copy /\ k.queue = run[r].queue
      /\ k.flight = run[r].flight /\ k.arrived = run[r].arrived
  BY <1>1 DEF Run
<1> HIDE DEF k
<1>5. RunSound(k, upload, stored)
  BY <1>1, <1>4 DEF RunSound
<1> QED BY <1>2, <1>3, <1>4, <1>5, LocalStep

LEMMA PauseStep ==
  ASSUME ClientInv, NEW r \in Runs, Pause(r)
  PROVE  ClientInv'
<1> DEFINE k == [run[r] EXCEPT !.paused = TRUE]
<1>1. run[r] \in Run /\ RunSound(run[r], upload, stored)
  BY OfRun
<1>2. k \in Run
  BY <1>1 DEF Run
<1>3. /\ k.phase = run[r].phase /\ k.copy = run[r].copy /\ k.queue = run[r].queue
      /\ k.flight = run[r].flight /\ k.arrived = run[r].arrived
  BY <1>1 DEF Run
<1>4. /\ UNCHANGED <<serverVars, checkpoint>> /\ losses' = losses
      /\ faults' \in 0 .. MaxFaults
  BY Counters DEF Pause
<1>5. CASE run' = [run EXCEPT ![r] = k] /\ UNCHANGED controller
  <2> HIDE DEF k
  <2>1. RunSound(k, upload, stored)
    BY <1>1, <1>3 DEF RunSound
  <2>2. controller' \in Runs \cup {None}
    BY <1>5 DEF ClientInv, TypeOK
  <2> QED BY <1>2, <1>3, <1>4, <1>5, <2>1, <2>2, LocalStep
<1>6. CASE run[r].flight # {} /\ Fails(r)
  <2>1. run[r].phase # "done"
    BY <1>1, <1>6 DEF RunSound
  <2> QED BY <1>4, <1>6, <2>1, FailsStep
<1> QED BY <1>5, <1>6 DEF Pause

LEMMA CallFailsStep ==
  ASSUME ClientInv, NEW r \in Runs, CallFails(r)
  PROVE  ClientInv'
<1>1. faults' \in 0 .. MaxFaults /\ losses' = losses
  BY Counters DEF CallFails
<1>2. run[r].phase # "done"
  BY DEF CallFails, Live
<1> QED BY <1>1, <1>2, FailsStep DEF CallFails

LEMMA FinishBatchStep ==
  ASSUME ClientInv, NEW r \in Runs, FinishBatch(r)
  PROVE  ClientInv'
<1>1. faults' \in 0 .. MaxFaults /\ losses' = losses
  BY Counters DEF FinishBatch
<1>2. run[r].phase # "done" /\ run[r].flight = {} /\ run[r].copy.upload
  BY OfRun DEF FinishBatch, In, RunSound
<1>3. Remaining(r) \in {"signing", "completing"}
  BY DEF Remaining
<1> QED BY <1>1, <1>2, <1>3, GoesOnStep DEF FinishBatch

LEMMA CompletionRefusedStep ==
  ASSUME ClientInv, NEW r \in Runs, CompletionRefused(r)
  PROVE  ClientInv'
<1>1. faults' \in 0 .. MaxFaults /\ losses' = losses
  BY Counters DEF CompletionRefused
<1>2. run[r].phase # "done"
  BY DEF CompletionRefused, In
<1> QED BY <1>1, <1>2, FailsStep DEF CompletionRefused, Unheard

(* What is kept of an attempt is the attempt, or nothing of it.            *)
LEMMA KeptSound ==
  ASSUME NEW x \in Run, NEW u, NEW s, RunSound(x, u, s)
  PROVE  /\ Kept(x) \in Run /\ RunSound(Kept(x), u, s)
         /\ \/ Kept(x) = x
            \/ Kept(x).phase = "idle" /\ x.phase = "failed"
BY IdleRunSound DEF Kept

LEMMA TransferFailsStep ==
  ASSUME ClientInv, NEW r \in Runs, NEW p \in Parts, TransferFails(r, p)
  PROVE  ClientInv'
<1> DEFINE x == [run[r] EXCEPT !.phase = "failed", !.flight = @ \ {p},
                               !.arrived = @ \ {p}]
           k == Kept(x)
<1>1. run[r] \in Run /\ RunSound(run[r], upload, stored)
  BY OfRun
<1>2. x \in Run
  BY <1>1 DEF Run
<1>3. run' = [run EXCEPT ![r] = k]
  BY DEF TransferFails
<1>4. /\ x.phase = "failed" /\ x.copy = run[r].copy /\ x.queue = run[r].queue
      /\ x.flight = run[r].flight \ {p} /\ x.arrived = run[r].arrived \ {p}
  BY <1>1 DEF Run
<1> HIDE DEF x
<1>5. RunSound(x, upload, stored)
  BY <1>1, <1>4 DEF RunSound
<1>6. run[r].phase # "done"
  BY <1>1 DEF TransferFails, RunSound
<1>7. k \in Run /\ RunSound(k, upload, stored) /\ k.phase # "starting"
  BY <1>2, <1>4, <1>5, KeptSound
<1>8. /\ UNCHANGED <<serverVars, checkpoint>> /\ losses' = losses
      /\ faults' \in 0 .. MaxFaults /\ controller' \in Runs \cup {None}
  <2>1. controller \in Runs \cup {None}
    BY DEF ClientInv, TypeOK
  <2> QED BY <2>1, Counters DEF TransferFails
<1> HIDE DEF k
<1> QED BY <1>3, <1>6, <1>7, <1>8, LocalStep

LEMMA SignPartsStep ==
  ASSUME ClientInv, NEW r \in Runs, SignParts(r)
  PROVE  ClientInv'
<1> DEFINE batch == FirstOf(BatchSize, Parts \ run[r].copy.parts)
           taken == FirstOf(Concurrency, batch)
           k == [run[r] EXCEPT !.phase = "transferring",
                               !.queue = batch \ taken, !.flight = taken]
<1>1. run[r] \in Run /\ RunSound(run[r], upload, stored)
  BY OfRun
<1>2. batch \subseteq Parts /\ taken \subseteq Parts
  BY DEF FirstOf
<1>3. k \in Run
  BY <1>1, <1>2 DEF Run, Live
<1>4. run[r].phase = "signing" /\ run[r].copy.upload
  BY <1>1 DEF SignParts, In, RunSound
<1>5. run[r].arrived = {} /\ run[r].flight = {}
  BY <1>1, <1>4 DEF RunSound
<1>6. k.phase = "transferring" /\ k.copy = run[r].copy /\ k.arrived = {}
  BY <1>1, <1>5 DEF Run
<1>7. /\ UNCHANGED <<serverVars, checkpoint>> /\ losses' = losses
      /\ faults' \in 0 .. MaxFaults
  BY Counters DEF SignParts
<1>8. CASE run' = [run EXCEPT ![r] = k] /\ UNCHANGED controller
  <2> HIDE DEF k
  <2>1. RunSound(k, upload, stored)
    BY <1>1, <1>4, <1>5, <1>6 DEF RunSound
  <2>2. controller' \in Runs \cup {None}
    BY <1>8 DEF ClientInv, TypeOK
  <2> QED BY <1>3, <1>4, <1>6, <1>7, <1>8, <2>1, <2>2, LocalStep
<1>9. CASE Fails(r)
  BY <1>4, <1>7, <1>9, FailsStep
<1> QED BY <1>8, <1>9 DEF SignParts

-----------------------------------------------------------------------------
(* The dialog and the server on its own                                    *)

(* An attempt that starts without a checkpoint is the one that the         *)
(* accounts expect, or there is another and it is a loss.                  *)
LEMMA BeginStep ==
  ASSUME ClientInv, NEW r \in Runs, Begin(r)
  PROVE  ClientInv'
<1> DEFINE copy == IF checkpoint = None THEN NewCheckpoint ELSE checkpoint
           k == [IdleRun EXCEPT !.phase = "starting", !.copy = copy]
<1>1. copy \in Checkpoint
  BY DEF ClientInv, TypeOK, NewCheckpoint, Checkpoint
<1>2. k \in Run
  BY <1>1 DEF Run, Live, IdleRun
<1>3. run' = [run EXCEPT ![r] = k]
  BY DEF Begin
<1>4. /\ k.phase = "starting" /\ k.copy = copy
      /\ k.queue = {} /\ k.flight = {} /\ k.arrived = {}
  BY DEF IdleRun
<1>5. Sound(copy, upload, stored)
  BY DEF ClientInv, CheckpointSound, Sound, NewCheckpoint
<1>6. copy.project = None <=> checkpoint = None
  BY DEF ClientInv, CheckpointSound, NewCheckpoint
<1> HIDE DEF copy, k
<1>7. run' \in [Runs -> Run] /\ run'[r] = k /\ \A q \in Runs \ {r} : run'[q] = run[q]
  BY <1>2, <1>3, RunChanges
<1>8. /\ UNCHANGED <<upload, stored, expired, checkpoint>>
      /\ controller' \in Runs \cup {None}
  BY DEF Begin, serverVars
<1>9. losses' = IF checkpoint = None /\ Creating # {} THEN losses + 1 ELSE losses
  BY DEF Begin, LossIf
<1>10. losses \in Nat /\ losses' \in {losses, losses + 1}
  BY <1>9, Counted
<1>11. TypeOK'
  <2>1. faults' \in 0 .. MaxFaults /\ losses' \in Nat
    BY <1>10, Counters DEF Begin
  <2> QED BY <1>7, <1>8, <2>1 DEF ClientInv, TypeOK
<1>12. RunsSound'
  <2>1. RunSound(k, upload', stored')
    BY <1>4, <1>5, <1>8 DEF RunSound
  <2> QED BY <1>2, <1>3, <1>8, <2>1, GrowsFromItself, RunsStaySound
<1>13. CheckpointSound'
  BY <1>8 DEF ClientInv, CheckpointSound
<1>14. Created' = Created
  BY <1>8 DEF Created
<1>15. r \notin Creating /\ ~Finished /\ run[r].phase # "done" /\ k.phase # "done"
  BY <1>4 DEF Begin, Creating, In
<1>16. Usable(checkpoint)' <=> Usable(checkpoint)
  BY <1>8, UsableNow
<1>17. CASE checkpoint # None
  <2>1. Creating' \subseteq Creating
    BY <1>4, <1>6, <1>7, <1>17 DEF Creating, In, Project
  <2>2. Finished => Finished'
    BY <1>15
  <2> QED BY <1>10, <1>11, <1>12, <1>13, <1>14, <1>16, <2>1, <2>2, AccountsStay DEF ClientInv
<1>18. CASE checkpoint = None
  <2>1. Creating' = Creating \cup {r}
    BY <1>4, <1>6, <1>7, <1>18 DEF Creating, In, Project
  <2> DEFINE n == Cardinality(Creating)
             c == Cardinality(Created)
  <2>2. IsFiniteSet(Creating') /\ Cardinality(Creating') = n + 1
    BY <1>15, <2>1, FS_AddElement DEF ClientInv
  <2>3. c \in Nat /\ n \in Nat
    BY Counted
  <2>4. ~Adrift'
    BY <2>1 DEF Adrift
  <2>5. c + n <= losses'
    <3>1. CASE Creating = {}
      <4>1. Adrift
        BY <1>15, <1>18, <3>1 DEF Adrift, Usable
      <4>2. c + n + 1 <= 1 + losses
        BY <4>1, Zenon DEF ClientInv, Accounts
      <4> HIDE DEF c, n
      <4> QED BY <1>10, <2>3, <4>2
    <3>2. CASE Creating # {}
      <4>1. ~Adrift
        BY <3>2 DEF Adrift
      <4>2. c + n + 0 <= 1 + losses
        BY <4>1, Zenon DEF ClientInv, Accounts
      <4>3. losses' = losses + 1
        BY <1>9, <1>18, <3>2
      <4> HIDE DEF c, n
      <4> QED BY <1>10, <2>3, <4>2, <4>3
    <3> QED BY <3>1, <3>2
  <2>6. c + (n + 1) + 0 <= 1 + losses'
    <3>1. losses' \in Nat
      BY <1>10
    <3> HIDE DEF c, n
    <3> QED BY <2>3, <2>5, <3>1, Moves, Zenon
  <2>7. Accounts'
    BY <1>14, <2>2, <2>4, <2>6 DEF Accounts
  <2> QED BY <1>11, <1>12, <1>13, <1>14, <2>2, <2>7 DEF ClientInv
<1> QED BY <1>17, <1>18

LEMMA CloseWindowStep ==
  ASSUME ClientInv, CloseWindow
  PROVE  ClientInv'
<1>1. UNCHANGED <<upload, stored, expired, checkpoint>> /\ controller' = None
  BY DEF CloseWindow, serverVars
<1>2. faults' \in 0 .. MaxFaults /\ losses' = losses /\ losses \in Nat
  BY Counters DEF CloseWindow
<1>3. \A q \in Runs : run'[q] = IF In(q, "done") THEN run[q] ELSE IdleRun
  BY DEF CloseWindow
<1>4. ASSUME NEW q \in Runs
      PROVE  /\ run'[q] \in Run /\ RunSound(run'[q], upload, stored)
             /\ run'[q].phase # "starting"
             /\ run[q].phase = "done" => run'[q].phase = "done"
  BY <1>3, OfRun, IdleRunSound DEF In
<1>5. run' \in [Runs -> Run]
  BY <1>4 DEF CloseWindow
<1>6. TypeOK'
  BY <1>1, <1>2, <1>5 DEF ClientInv, TypeOK
<1>7. RunsSound' /\ CheckpointSound'
  BY <1>1, <1>4 DEF ClientInv, RunsSound, CheckpointSound
<1>8. Created' = Created /\ Creating' = {}
  BY <1>1, <1>4 DEF Created, Creating, In
<1>9. Finished => Finished'
  BY <1>4 DEF Finished, In
<1>10. Usable(checkpoint)' <=> Usable(checkpoint)
  BY <1>1, UsableNow
<1>11. losses' \in {losses, losses + 1} /\ Creating' \subseteq Creating
  BY <1>2, <1>8
<1> QED BY <1>6, <1>7, <1>8, <1>9, <1>10, <1>11, AccountsStay DEF ClientInv

(* A step of the server alone.                                             *)
LEMMA ServerStep ==
  ASSUME ClientInv, TypeOK', Grows(upload, stored, upload', stored'),
         \A p \in Projects : upload'[p] = "absent" <=> upload[p] = "absent",
         UNCHANGED <<run, checkpoint>>,
         losses' \in {losses, losses + 1},
         Usable(checkpoint) /\ ~Usable(checkpoint)' => losses' = losses + 1
  PROVE  ClientInv'
<1>1. ASSUME NEW q \in Runs
      PROVE  RunSound(run'[q], upload', stored')
  <2>1. run[q] \in Run /\ RunSound(run[q], upload, stored)
    BY OfRun
  <2>2. RunSound(run[q], upload', stored')
    BY <2>1, RunSoundStays
  <2> QED BY <2>2
<1>2. RunsSound'
  BY <1>1 DEF RunsSound
<1>3. CheckpointSound'
  BY CheckpointStays
<1>4. Created' = Created /\ Creating' = Creating /\ Finished' = Finished
  BY DEF Created, Creating, Finished, In, Project
<1> QED BY <1>2, <1>3, <1>4, AccountsStay DEF ClientInv

LEMMA AbortStep ==
  ASSUME ClientInv, NEW p \in Projects, Abort(p)
  PROVE  ClientInv'
<1>1. upload' \in Uploads /\ stored' \in [Projects -> SUBSET Parts]
  BY DEF Abort, ClientInv, TypeOK, Uploads
<1>2. losses' = IF checkpoint # None /\ checkpoint.project = p THEN losses + 1 ELSE losses
  BY DEF Abort, LossIf
<1>3. faults' \in 0 .. MaxFaults /\ losses' \in Nat /\ losses' \in {losses, losses + 1}
  BY <1>2, Counters DEF Abort
<1>4. UNCHANGED <<expired, checkpoint, run, controller>>
  BY DEF Abort
<1>5. TypeOK'
  BY <1>1, <1>3, <1>4 DEF ClientInv, TypeOK, Uploads
<1>6. Grows(upload, stored, upload', stored')
  BY DEF Abort, Grows, ClientInv, TypeOK
<1>7. \A q \in Projects : upload'[q] = "absent" <=> upload[q] = "absent"
  BY DEF Abort, Open, ClientInv, TypeOK
<1>8. UsableIn(checkpoint, upload) /\ ~UsableIn(checkpoint, upload')
        => losses' = losses + 1
  <2>1. checkpoint = None \/ checkpoint.project \in Projects \cup {None}
    BY DEF ClientInv, TypeOK, Checkpoint
  <2>2. \A q \in Projects \ {p} : upload'[q] = upload[q]
    BY DEF Abort, ClientInv, TypeOK
  <2> QED BY <1>2, <2>1, <2>2 DEF UsableIn
<1>9. Usable(checkpoint) /\ ~Usable(checkpoint)' => losses' = losses + 1
  BY <1>4, <1>8, UsableNow
<1> QED BY <1>3, <1>4, <1>5, <1>6, <1>7, <1>9, ServerStep

LEMMA ExpireStep ==
  ASSUME ClientInv, NEW p \in Projects, Expire(p)
  PROVE  ClientInv'
<1>1. faults' \in 0 .. MaxFaults /\ losses' = losses /\ losses \in Nat
  BY Counters DEF Expire
<1>2. UNCHANGED <<upload, stored, checkpoint, run, controller>>
  BY DEF Expire
<1>3. TypeOK'
  BY <1>1, <1>2 DEF ClientInv, TypeOK, Expire
<1>4. Grows(upload, stored, upload', stored')
  BY <1>2, GrowsFromItself
<1>5. Usable(checkpoint)' <=> Usable(checkpoint)
  BY <1>2, UsableNow
<1> QED BY <1>1, <1>2, <1>3, <1>4, <1>5, ServerStep

-----------------------------------------------------------------------------
(* The calls that create                                                   *)

LEMMA EnsureProjectStep ==
  ASSUME ClientInv, NEW r \in Runs, EnsureProject(r)
  PROVE  ClientInv'
<1>1. PICK p \in Projects :
        /\ upload[p] = "absent"
        /\ upload' = [upload EXCEPT ![p] = "none"]
        /\ \/ SavesProject(r, [run[r].copy EXCEPT !.project = p])
           \/ Unheard(r) /\ Fault /\ LossIf(TRUE)
  BY DEF EnsureProject
<1> DEFINE copy == [run[r].copy EXCEPT !.project = p]
           saved == [run[r] EXCEPT !.copy = copy]
           over == [IdleRun EXCEPT !.phase = "idle"]
<1>2. /\ run[r] \in Run /\ run[r].copy \in Checkpoint
      /\ RunSound(run[r], upload, stored) /\ r \in Creating
      /\ run[r].phase = "starting" /\ run[r].copy.project = None
  BY OfRun DEF EnsureProject, Creating, In, Project
<1>3. /\ copy \in Checkpoint /\ copy.project = p /\ p # None
      /\ copy.upload = run[r].copy.upload /\ copy.parts = run[r].copy.parts
  BY <1>2, UploadAssumption DEF Checkpoint
<1>4. ~copy.upload /\ copy.parts = {}
  BY <1>2, <1>3 DEF RunSound, Sound
<1> HIDE DEF copy
<1>5. saved \in Run
  BY <1>2, <1>3 DEF Run
<1>6. /\ saved.copy = copy /\ saved.phase = "starting" /\ saved.queue = run[r].queue
      /\ saved.flight = run[r].flight /\ saved.arrived = run[r].arrived
  BY <1>2 DEF Run
<1>7. over \in Run /\ over.phase = "idle" /\ RunSound(over, upload', stored')
  BY IdleSound
<1>8. upload' \in Uploads /\ upload'[p] = "none"
      /\ \A q \in Projects \ {p} : upload'[q] = upload[q]
  BY <1>1 DEF ClientInv, TypeOK, Uploads
<1>9. UNCHANGED <<stored, expired>>
  BY DEF EnsureProject
<1>10. /\ controller \in Runs \cup {None} /\ checkpoint \in Checkpoint \cup {None}
       /\ losses \in Nat
  BY DEF ClientInv, TypeOK
<1>11. \/ /\ run' = [run EXCEPT ![r] = saved] /\ checkpoint' = copy
          /\ UNCHANGED controller /\ UNCHANGED faults /\ losses' \in {losses, losses + 1}
       \/ /\ run' \in {[run EXCEPT ![r] = saved], [run EXCEPT ![r] = over]}
          /\ controller' \in {controller, None}
          /\ UNCHANGED checkpoint /\ Fault /\ losses' = losses + 1
  <2>1. ASSUME SavesProject(r, copy), Saved(copy)
        PROVE  /\ run' = [run EXCEPT ![r] = saved] /\ checkpoint' = copy
               /\ UNCHANGED controller /\ UNCHANGED faults
               /\ losses' \in {losses, losses + 1}
    <3>1. losses' \in {losses, losses + 1}
      BY <2>1 DEF Saved, LossIf
    <3> QED BY <2>1, <3>1 DEF SavesProject, Saved, Takes
  <2>2. ASSUME SavesProject(r, copy), Refused(TRUE)
        PROVE  /\ run' = [run EXCEPT ![r] = saved] /\ controller' = controller
               /\ UNCHANGED checkpoint /\ Fault /\ losses' = losses + 1
    BY <2>2 DEF SavesProject, Refused, Takes, LossIf
  <2>3. ASSUME Unheard(r), Fault, LossIf(TRUE)
        PROVE  /\ run' = [run EXCEPT ![r] = over] /\ controller' = None
               /\ UNCHANGED checkpoint /\ Fault /\ losses' = losses + 1
    BY <2>3 DEF Unheard, Fails, Ends, LossIf
  <2>4. SavesProject(r, copy) => Saved(copy) \/ Refused(TRUE)
    BY DEF SavesProject
  <2>5. SavesProject(r, copy) \/ (Unheard(r) /\ Fault /\ LossIf(TRUE))
    BY <1>1 DEF copy
  <2> HIDE DEF saved, over
  <2> QED BY <2>1, <2>2, <2>3, <2>4, <2>5
<1> HIDE DEF saved, over
<1>12. Grows(upload, stored, upload', stored')
  BY <1>1, <1>8, <1>9 DEF Grows
<1>13. Sound(copy, upload', stored')
  BY <1>3, <1>4, <1>8 DEF Sound
<1>14. RunSound(saved, upload', stored')
  <2>1. run[r].flight = {} /\ run[r].queue = {} /\ run[r].arrived = {}
    BY <1>2, <1>3, <1>4 DEF RunSound
  <2> QED BY <1>6, <1>13, <2>1 DEF RunSound
<1>15. PICK k \in {saved, over} : run' = [run EXCEPT ![r] = k]
  BY <1>11
<1>16. k \in Run /\ RunSound(k, upload', stored')
  BY <1>5, <1>7, <1>14
<1>17. run' \in [Runs -> Run] /\ run'[r] = k /\ \A q \in Runs \ {r} : run'[q] = run[q]
  BY <1>15, <1>16, RunChanges
<1>18. TypeOK'
  <2>1. faults' \in 0 .. MaxFaults /\ losses' \in Nat
    BY <1>10, <1>11, Counters
  <2>2. checkpoint' \in Checkpoint \cup {None} /\ controller' \in Runs \cup {None}
    BY <1>3, <1>10, <1>11
  <2> QED BY <1>8, <1>9, <1>17, <2>1, <2>2 DEF ClientInv, TypeOK, Uploads
<1>19. RunsSound'
  BY <1>12, <1>15, <1>16, RunsStaySound
<1>20. CheckpointSound'
  <2>1. CASE checkpoint' = copy
    BY <1>3, <1>13, <2>1 DEF CheckpointSound
  <2>2. CASE checkpoint' = checkpoint
    BY <1>12, <2>2, CheckpointStays
  <2> QED BY <1>11, <2>1, <2>2
<1> DEFINE n == Cardinality(Creating)
           c == Cardinality(Created)
<1>21. c \in Nat /\ n \in Nat
  BY Counted
<1>22. IsFiniteSet(Created') /\ Cardinality(Created') = c + 1
  <2>1. Created' = Created \cup {p} /\ p \notin Created
    BY <1>1, <1>8 DEF Created
  <2> QED BY <2>1, FS_AddElement DEF ClientInv
<1>23. IsFiniteSet(Creating') /\ Cardinality(Creating') = n - 1
  <2>1. Creating' = Creating \ {r}
    BY <1>3, <1>6, <1>7, <1>17 DEF Creating, In, Project
  <2> QED BY <1>2, <2>1, FS_RemoveElement DEF ClientInv
<1>24. c + n + 0 <= 1 + losses
  <2>1. ~Adrift
    BY <1>2 DEF Adrift
  <2> QED BY <2>1, Zenon DEF ClientInv, Accounts
<1>25. Adrift' => losses' = losses + 1
  <2>1. checkpoint' = copy => UsableIn(checkpoint', upload')
    BY <1>3, <1>8, NoneAssumption DEF UsableIn
  <2>2. checkpoint' = copy => ~Adrift'
    BY <2>1, UsableNow DEF Adrift
  <2> QED BY <1>11, <2>2
<1>26. (c + 1) + (n - 1) + (IF Adrift' THEN 1 ELSE 0) <= 1 + losses'
  <2>1. losses' \in {losses, losses + 1}
    BY <1>11
  <2> HIDE DEF c, n
  <2>2. CASE Adrift'
    <3>1. losses' = losses + 1
      BY <1>25, <2>2
    <3>2. (c + 1) + (n - 1) + 1 <= 1 + losses'
      BY <1>10, <1>21, <1>24, <3>1
    <3> QED BY <2>2, <3>2, Zenon
  <2>3. CASE ~Adrift'
    <3>1. losses' \in Nat /\ losses <= losses'
      BY <1>10, <2>1
    <3>2. (c + 1) + (n - 1) + 0 <= 1 + losses'
      BY <1>10, <1>21, <1>24, <3>1, Moves, Zenon
    <3> QED BY <2>3, <3>2, Zenon
  <2> QED BY <2>2, <2>3
<1>27. Accounts'
  BY <1>22, <1>23, <1>26 DEF Accounts
<1> QED BY <1>18, <1>19, <1>20, <1>22, <1>23, <1>27 DEF ClientInv

(* The checkpoint that stays is as usable, unless its upload is aborted.   *)
LEMMA UsableStays ==
  ASSUME ClientInv, checkpoint' = checkpoint,
         \A p \in Projects : upload'[p] = "aborted" <=> upload[p] = "aborted"
  PROVE  Usable(checkpoint)' <=> Usable(checkpoint)
<1>1. checkpoint # None /\ checkpoint.project # None => checkpoint.project \in Projects
  BY DEF ClientInv, TypeOK, Checkpoint
<1> QED BY <1>1, UsableNow DEF UsableIn

(* A copy is saved over a checkpoint, or refused.                          *)
LEMMA SavedOrRefused ==
  ASSUME ClientInv, NEW copy \in Checkpoint, copy.project # None,
         Saved(copy) \/ Refused(FALSE),
         \A p \in Projects : upload'[p] = "aborted" <=> upload[p] = "aborted",
         Sound(copy, upload', stored'),
         Grows(upload, stored, upload', stored')
  PROVE  /\ checkpoint' \in Checkpoint \cup {None} /\ CheckpointSound'
         /\ faults' \in 0 .. MaxFaults /\ losses' \in Nat
         /\ losses' \in {losses, losses + 1}
         /\ Usable(checkpoint) /\ ~Usable(checkpoint)' => losses' = losses + 1
<1>1. checkpoint \in Checkpoint \cup {None} /\ losses \in Nat
  BY DEF ClientInv, TypeOK
<1>2. CASE Saved(copy)
  <2>1. checkpoint' = copy /\ faults' = faults
    BY <1>2 DEF Saved
  <2>2. losses' = IF Usable(checkpoint) /\ ~Usable(copy) THEN losses + 1 ELSE losses
    BY <1>2 DEF Saved, LossIf
  <2>3. Usable(checkpoint)' <=> Usable(copy)
    <3>1. copy.project \in Projects
      BY DEF Checkpoint
    <3> QED BY <2>1, <3>1, UsableNow DEF Usable, UsableIn
  <2>4. CheckpointSound'
    BY <2>1 DEF CheckpointSound
  <2> QED BY <1>1, <2>1, <2>2, <2>3, <2>4, Counters
<1>3. CASE Refused(FALSE)
  <2>1. checkpoint' = checkpoint /\ losses' = losses /\ Fault
    BY <1>3 DEF Refused, LossIf
  <2>2. Usable(checkpoint)' <=> Usable(checkpoint)
    BY <2>1, UsableStays
  <2>3. CheckpointSound'
    BY <2>1, CheckpointStays
  <2> QED BY <1>1, <2>1, <2>2, <2>3, Counters
<1> QED BY <1>2, <1>3

LEMMA EnsureMultipartUploadStep ==
  ASSUME ClientInv, NEW r \in Runs, EnsureMultipartUpload(r)
  PROVE  ClientInv'
<1> DEFINE p == Project(r)
           copy == [run[r].copy EXCEPT !.upload = TRUE]
           saved == [run[r] EXCEPT !.copy = copy]
           over == [IdleRun EXCEPT !.phase = "idle"]
<1>1. /\ run[r] \in Run /\ run[r].copy \in Checkpoint
      /\ RunSound(run[r], upload, stored)
      /\ run[r].phase = "starting" /\ run[r].copy.project = p /\ p # None
      /\ p \in Projects
  BY OfRun DEF EnsureMultipartUpload, In, Project
<1>2. /\ copy \in Checkpoint /\ copy.project = p
      /\ copy.upload /\ copy.parts = run[r].copy.parts
  BY <1>1 DEF Checkpoint
<1>3. /\ upload \in Uploads
      /\ upload' = [upload EXCEPT ![p] = IF @ = "none" THEN "initiated" ELSE @]
      /\ UNCHANGED <<stored, expired>>
  BY DEF ClientInv, TypeOK, Uploads, EnsureMultipartUpload
<1>4. \/ Takes(r, copy) /\ (Saved(copy) \/ Refused(FALSE))
      \/ Unheard(r) /\ Fault /\ NoLoss
  BY DEF EnsureMultipartUpload, copy
<1>5. over \in Run /\ over.phase = "idle" /\ RunSound(over, upload', stored')
  BY IdleSound
<1>6. /\ Takes(r, copy) => run' = [run EXCEPT ![r] = saved] /\ UNCHANGED controller
      /\ Unheard(r) => /\ run' = [run EXCEPT ![r] = over] /\ controller' = None
                       /\ UNCHANGED checkpoint
  BY DEF Takes, Unheard, Fails, Ends
<1> HIDE DEF copy, p
<1>7. saved \in Run
  BY <1>1, <1>2 DEF Run
<1>8. /\ saved.copy = copy /\ saved.phase = "starting" /\ saved.queue = run[r].queue
      /\ saved.flight = run[r].flight /\ saved.arrived = run[r].arrived
  BY <1>1 DEF Run
<1> HIDE DEF saved, over
<1>9. /\ upload' \in Uploads
      /\ upload'[p] = IF upload[p] = "none" THEN "initiated" ELSE upload[p]
      /\ \A q \in Projects \ {p} : upload'[q] = upload[q]
  BY <1>1, <1>3 DEF Uploads
<1>10. Grows(upload, stored, upload', stored')
  BY <1>3, <1>9 DEF Grows
<1>11. \A q \in Projects : /\ upload'[q] = "absent" <=> upload[q] = "absent"
                           /\ upload'[q] = "aborted" <=> upload[q] = "aborted"
  BY <1>9
<1>12. Sound(copy, upload', stored')
  BY <1>1, <1>2, <1>3, <1>9 DEF Sound, RunSound
<1>13. controller \in Runs \cup {None} /\ checkpoint \in Checkpoint \cup {None}
  BY DEF ClientInv, TypeOK
<1>14. CASE Takes(r, copy) /\ (Saved(copy) \/ Refused(FALSE))
  <2>1. /\ checkpoint' \in Checkpoint \cup {None} /\ CheckpointSound'
        /\ faults' \in 0 .. MaxFaults /\ losses' \in Nat
        /\ losses' \in {losses, losses + 1}
        /\ Usable(checkpoint) /\ ~Usable(checkpoint)' => losses' = losses + 1
    BY <1>1, <1>2, <1>10, <1>11, <1>12, <1>14, SavedOrRefused
  <2>2. run' = [run EXCEPT ![r] = saved] /\ controller' \in Runs \cup {None}
    BY <1>6, <1>13, <1>14
  <2>3. TypeOK'
    BY <1>3, <1>7, <1>9, <2>1, <2>2, RunChanges DEF ClientInv, TypeOK, Uploads
  <2>4. RunSound(saved, upload', stored')
    <3>1. RunSound(run[r], upload', stored')
      BY <1>1, <1>10, RunSoundStays
    <3>2. run[r].flight = {} /\ run[r].arrived = {}
      BY <1>1 DEF RunSound
    <3> QED BY <1>2, <1>8, <1>12, <3>1, <3>2 DEF RunSound
  <2> QED BY <1>1, <1>2, <1>7, <1>8, <1>10, <1>11, <2>1, <2>2, <2>3, <2>4, OneRunStep
<1>15. CASE Unheard(r) /\ Fault /\ NoLoss
  <2>1. /\ run' = [run EXCEPT ![r] = over] /\ controller' = None
        /\ checkpoint' = checkpoint /\ faults' \in 0 .. MaxFaults /\ losses' = losses
        /\ losses \in Nat
    BY <1>6, <1>15, Counters
  <2>2. TypeOK'
    BY <1>3, <1>5, <1>9, <1>13, <2>1, RunChanges DEF ClientInv, TypeOK, Uploads
  <2>3. CheckpointSound'
    BY <1>10, <2>1, CheckpointStays
  <2>4. Usable(checkpoint)' <=> Usable(checkpoint)
    BY <1>11, <2>1, UsableStays
  <2> QED BY <1>1, <1>5, <1>10, <1>11, <2>1, <2>2, <2>3, <2>4, OneRunStep
<1> QED BY <1>4, <1>14, <1>15

-----------------------------------------------------------------------------
(* The status and the completion                                           *)

LEMMA CheckStatusStep ==
  ASSUME ClientInv, NEW r \in Runs, CheckStatus(r)
  PROVE  ClientInv'
<1> DEFINE status == upload[Project(r)]
           over(phase) == [IdleRun EXCEPT !.phase = phase]
<1>1. /\ run[r] \in Run /\ run[r].copy.upload /\ Project(r) \in Projects
      /\ RunSound(run[r], upload, stored) /\ run[r].phase = "starting"
      /\ run[r].copy.project = Project(r)
  BY OfRun DEF CheckStatus, In, Project
<1>2. status \in {"initiated", "completing", "completed", "aborted"}
  BY <1>1, UploadAssumption DEF RunSound, Sound, ClientInv, TypeOK
<1>3. checkpoint' = IF Forgets(status) THEN None ELSE checkpoint
  BY DEF CheckStatus
<1>4. /\ status = "completed" => Ends(r, "done")
      /\ status = "aborted" => Fails(r)
      /\ status \in {"initiated", "completing"} => GoesOn(r, Remaining(r))
  BY <1>2 DEF CheckStatus
<1>5. /\ UNCHANGED <<upload, stored, expired, faults>>
      /\ faults' \in 0 .. MaxFaults /\ losses \in Nat
  BY Counters DEF CheckStatus, serverVars
<1>6. losses' = IF status = "aborted" /\ Usable(checkpoint) /\ checkpoint' = None
                THEN losses + 1 ELSE losses
  BY DEF CheckStatus, LossIf
<1> HIDE DEF status
<1>7. checkpoint' \in {checkpoint, None} /\ losses' \in {losses, losses + 1}
  BY <1>3, <1>6
<1>8. CASE status \in {"initiated", "completing"}
  <2>1. Remaining(r) \in {"signing", "completing"}
    BY DEF Remaining
  <2>2. checkpoint' = checkpoint /\ losses' = losses
    BY <1>3, <1>6, <1>8 DEF Forgets
  <2>3. run[r].flight = {} /\ run[r].phase # "done"
    BY <1>1 DEF RunSound
  <2> QED BY <1>1, <1>4, <1>5, <1>8, <2>1, <2>2, <2>3, GoesOnStep DEF serverVars
<1>9. CASE status \in {"completed", "aborted"}
  <2>1. PICK phase \in {"idle", "done"} :
          Ends(r, phase) /\ (status = "completed" => phase = "done")
    BY <1>4, <1>9 DEF Fails
  <2>2. run' = [run EXCEPT ![r] = over(phase)] /\ controller' = None
    BY <2>1 DEF Ends
  <2>3. over(phase) \in Run /\ over(phase).phase = phase
        /\ RunSound(over(phase), upload', stored')
    BY IdleSound
  <2> HIDE DEF over
  <2>4. TypeOK'
    BY <1>5, <1>7, <2>2, <2>3, RunChanges DEF ClientInv, TypeOK
  <2>5. Grows(upload, stored, upload', stored')
    BY <1>5, GrowsFromItself
  <2>6. CheckpointSound'
    BY <1>7, <2>5, CheckpointStays
  <2>7. Usable(checkpoint) /\ ~Usable(checkpoint)' /\ phase # "done" => losses' = losses + 1
    <3>1. \A p \in Projects : upload'[p] = "aborted" <=> upload[p] = "aborted"
      BY <1>5
    <3> QED BY <1>6, <1>7, <1>9, <2>1, <3>1, UsableStays
  <2>8. \A p \in Projects : upload'[p] = "absent" <=> upload[p] = "absent"
    BY <1>5
  <2> QED BY <1>1, <1>7, <2>2, <2>3, <2>4, <2>5, <2>6, <2>7, <2>8, OneRunStep
<1> QED BY <1>2, <1>8, <1>9

(* An attempt that is completing ends, and the server moves with it.       *)
LEMMA CompletingStep ==
  ASSUME ClientInv, NEW r \in Runs, In(r, "completing"),
         NEW phase \in {"idle", "done"}, Ends(r, phase),
         NEW state \in {"completing", "completed"},
         upload' = [upload EXCEPT ![Project(r)] = state],
         upload[Project(r)] # "aborted",
         UNCHANGED <<stored, expired>>,
         faults' \in 0 .. MaxFaults, losses' = losses,
         checkpoint' = IF phase = "done" THEN None ELSE checkpoint
  PROVE  ClientInv'
<1> DEFINE k == [IdleRun EXCEPT !.phase = phase]
           p == Project(r)
<1>1. /\ run[r] \in Run /\ p \in Projects
      /\ run[r].phase = "completing" /\ upload[p] # "absent"
  BY OfRun, UploadAssumption DEF In, RunSound, Sound, Project
<1>2. run' = [run EXCEPT ![r] = k] /\ controller' = None
  BY DEF Ends
<1>3. k \in Run /\ k.phase = phase /\ RunSound(k, upload', stored')
  BY IdleSound
<1>4. /\ upload' \in Uploads /\ upload'[p] = state
      /\ \A q \in Projects \ {p} : upload'[q] = upload[q]
  BY <1>1 DEF ClientInv, TypeOK, Uploads
<1> HIDE DEF k
<1>5. upload[p] # "aborted"
  OBVIOUS
<1> HIDE DEF p
<1>6. Grows(upload, stored, upload', stored')
  BY <1>4, <1>5 DEF Grows
<1>7. \A q \in Projects : /\ upload'[q] = "absent" <=> upload[q] = "absent"
                          /\ upload'[q] = "aborted" <=> upload[q] = "aborted"
  BY <1>1, <1>4, <1>5
<1>8. checkpoint' \in {checkpoint, None} /\ losses \in Nat
  BY Counters
<1>9. TypeOK'
  BY <1>2, <1>3, <1>4, <1>8, RunChanges DEF ClientInv, TypeOK, Uploads
<1>10. CheckpointSound'
  BY <1>6, <1>8, CheckpointStays
<1>11. Usable(checkpoint) /\ ~Usable(checkpoint)' /\ phase # "done" => losses' = losses + 1
  BY <1>7, UsableStays
<1> QED BY <1>1, <1>2, <1>3, <1>6, <1>7, <1>9, <1>10, <1>11, OneRunStep

LEMMA CompleteStep ==
  ASSUME ClientInv, NEW r \in Runs, Complete(r)
  PROVE  ClientInv'
<1>1. /\ In(r, "completing") /\ UNCHANGED <<stored, expired>>
      /\ upload[Project(r)] # "aborted"
      /\ upload' = [upload EXCEPT ![Project(r)] = "completed"]
  BY DEF Complete, Completable, Open
<1>2. faults' \in 0 .. MaxFaults /\ losses' = losses
  BY Counters DEF Complete
<1>3. CASE Ends(r, "done") /\ checkpoint' = None
  BY <1>1, <1>2, <1>3, CompletingStep
<1>4. CASE Ends(r, "idle") /\ checkpoint' = checkpoint
  BY <1>1, <1>2, <1>4, CompletingStep
<1> QED BY <1>3, <1>4 DEF Complete, Unheard, Fails

LEMMA CompletionFailsStep ==
  ASSUME ClientInv, NEW r \in Runs, CompletionFails(r)
  PROVE  ClientInv'
<1>1. /\ In(r, "completing") /\ UNCHANGED <<stored, expired, checkpoint>>
      /\ upload[Project(r)] # "aborted"
      /\ upload' = [upload EXCEPT ![Project(r)] = "completing"]
      /\ Ends(r, "idle")
  BY DEF CompletionFails, Completable, Open, Unheard, Fails
<1>2. faults' \in 0 .. MaxFaults /\ losses' = losses
  BY Counters DEF CompletionFails
<1> QED BY <1>1, <1>2, CompletingStep

-----------------------------------------------------------------------------
(* Transfers                                                               *)

LEMMA PartArrivesStep ==
  ASSUME ClientInv, NEW r \in Runs, NEW p \in Parts, PartArrives(r, p)
  PROVE  ClientInv'
<1> DEFINE k == [run[r] EXCEPT !.arrived = @ \cup {p}]
<1>1. /\ run[r] \in Run /\ RunSound(run[r], upload, stored) /\ p \in run[r].flight
      /\ run[r].copy.upload /\ Project(r) \in Projects
      /\ run[r].copy.project = Project(r)
  BY OfRun DEF PartArrives, RunSound, Project
<1>2. k \in Run
  BY <1>1 DEF Run
<1>3. run' = [run EXCEPT ![r] = k]
  BY DEF PartArrives
<1>4. /\ k.phase = run[r].phase /\ k.copy = run[r].copy /\ k.queue = run[r].queue
      /\ k.flight = run[r].flight /\ k.arrived = run[r].arrived \cup {p}
  BY <1>1 DEF Run
<1> HIDE DEF k
<1>5. UNCHANGED <<upload, expired, checkpoint, controller>>
  BY DEF PartArrives
<1>6. faults' \in 0 .. MaxFaults /\ losses' = losses /\ losses \in Nat
  BY Counters DEF PartArrives
<1>7. /\ stored' \in [Projects -> SUBSET Parts]
      /\ \A q \in Projects : stored[q] \subseteq stored'[q]
      /\ p \in stored'[Project(r)]
  BY <1>1 DEF PartArrives, Stores, ClientInv, TypeOK
<1>8. TypeOK'
  BY <1>2, <1>3, <1>5, <1>6, <1>7, RunChanges DEF ClientInv, TypeOK
<1>9. Grows(upload, stored, upload', stored')
  BY <1>5, <1>7 DEF Grows
<1>10. RunSound(k, upload', stored')
  <2>1. RunSound(run[r], upload', stored')
    BY <1>1, <1>9, RunSoundStays
  <2> QED BY <1>1, <1>4, <1>7, <2>1 DEF RunSound
<1>11. CheckpointSound'
  BY <1>5, <1>9, CheckpointStays
<1>12. Usable(checkpoint)' <=> Usable(checkpoint)
  BY <1>5, UsableStays
<1>13. k.phase # "starting"
  BY <1>1, <1>4 DEF RunSound
<1>14. \A q \in Projects : upload'[q] = "absent" <=> upload[q] = "absent"
  BY <1>5
<1> QED BY <1>2, <1>3, <1>4, <1>6, <1>8, <1>9, <1>10, <1>11, <1>12, <1>13, <1>14,
           OneRunStep

LEMMA SavePartStep ==
  ASSUME ClientInv, NEW r \in Runs, NEW p \in Parts, SavePart(r, p)
  PROVE  ClientInv'
<1> DEFINE copy == [run[r].copy EXCEPT !.parts = @ \cup {p}]
           next == FirstOf(1, run[r].queue)
           x == [run[r] EXCEPT !.copy = copy, !.arrived = @ \ {p},
                   !.flight = (@ \ {p}) \cup next, !.queue = @ \ next]
           k == Kept(x)
<1>1. /\ run[r] \in Run /\ run[r].copy \in Checkpoint
      /\ RunSound(run[r], upload, stored)
      /\ p \in run[r].arrived /\ p \in run[r].flight
      /\ run[r].copy.upload /\ Project(r) \in Projects
      /\ run[r].copy.project = Project(r)
  BY OfRun DEF SavePart, RunSound, Project
<1>2. /\ copy \in Checkpoint /\ copy.project = Project(r) /\ copy.upload
      /\ copy.parts = run[r].copy.parts \cup {p}
  BY <1>1 DEF Checkpoint
<1>3. next \subseteq run[r].queue
  BY DEF FirstOf
<1>4. run' = [run EXCEPT ![r] = k]
  BY DEF SavePart, TakeNext
<1>5. Saved(copy) \/ Refused(FALSE)
  BY DEF SavePart
<1>6. UNCHANGED <<upload, stored, expired, controller>>
  BY DEF SavePart, serverVars
<1> HIDE DEF copy, next
<1>7. x \in Run
  BY <1>1, <1>2, <1>3 DEF Run
<1>8. /\ x.phase = run[r].phase /\ x.copy = copy
      /\ x.queue = run[r].queue \ next
      /\ x.flight = (run[r].flight \ {p}) \cup next
      /\ x.arrived = run[r].arrived \ {p}
  BY <1>1 DEF Run
<1> HIDE DEF x
<1>9. Grows(upload, stored, upload', stored')
  BY <1>6, GrowsFromItself
<1>10. Sound(copy, upload', stored')
  BY <1>1, <1>2, <1>6 DEF RunSound, Sound
<1>11. RunSound(x, upload', stored')
  BY <1>1, <1>2, <1>3, <1>6, <1>8, <1>10 DEF RunSound
<1>12. /\ k \in Run /\ RunSound(k, upload', stored') /\ k.phase # "starting"
       /\ run[r].phase # "done"
  <2>1. run[r].phase \in {"transferring", "failed"}
    BY <1>1 DEF RunSound
  <2> QED BY <1>7, <1>8, <1>11, <2>1, KeptSound
<1> HIDE DEF k
<1>13. /\ checkpoint' \in Checkpoint \cup {None} /\ CheckpointSound'
       /\ faults' \in 0 .. MaxFaults /\ losses' \in Nat
       /\ losses' \in {losses, losses + 1}
       /\ Usable(checkpoint) /\ ~Usable(checkpoint)' => losses' = losses + 1
  BY <1>1, <1>2, <1>5, <1>6, <1>9, <1>10, SavedOrRefused, UploadAssumption
<1>14. TypeOK'
  BY <1>4, <1>6, <1>12, <1>13, RunChanges DEF ClientInv, TypeOK
<1>15. \A q \in Projects : upload'[q] = "absent" <=> upload[q] = "absent"
  BY <1>6
<1> QED BY <1>4, <1>9, <1>12, <1>13, <1>14, <1>15, OneRunStep

-----------------------------------------------------------------------------
(* The theorems                                                            *)

LEMMA InitHolds == Init => ClientInv
<1> SUFFICES ASSUME Init PROVE ClientInv
  OBVIOUS
<1>1. IdleRun \in Run /\ RunSound(IdleRun, upload, stored) /\ IdleRun.phase = "idle"
  BY IdleRunSound
<1>2. TypeOK
  BY <1>1, UploadAssumption DEF Init, TypeOK
<1>3. RunsSound /\ CheckpointSound
  BY <1>1 DEF Init, RunsSound, CheckpointSound
<1>4. Created = {} /\ Creating = {}
  BY <1>1 DEF Init, Created, Creating, In
<1>5. /\ IsFiniteSet(Created) /\ Cardinality(Created) = 0
      /\ IsFiniteSet(Creating) /\ Cardinality(Creating) = 0 /\ losses = 0
  BY <1>4, FS_EmptySet DEF Init
<1>6. Accounts
  BY <1>5 DEF Accounts
<1> QED BY <1>2, <1>3, <1>5, <1>6 DEF ClientInv

LEMMA NextHolds == ClientInv /\ [Next]_vars => ClientInv'
<1> SUFFICES ASSUME ClientInv, [Next]_vars PROVE ClientInv'
  OBVIOUS
<1>1. CASE UNCHANGED vars
  <2>1. UNCHANGED <<upload, stored, expired, checkpoint, run, controller, faults, losses>>
    BY <1>1 DEF vars, serverVars
  <2>2. TypeOK'
    BY <2>1 DEF ClientInv, TypeOK
  <2>3. Grows(upload, stored, upload', stored')
    BY <2>1, GrowsFromItself
  <2>4. Usable(checkpoint)' <=> Usable(checkpoint)
    BY <2>1, UsableNow
  <2> QED BY <2>1, <2>2, <2>3, <2>4, Counters, ServerStep
<1>2. CASE Next
  <2>1. ASSUME NEW r \in Runs, Begin(r) \/ Pause(r) \/ CallFails(r)
        PROVE  ClientInv'
    BY <2>1, BeginStep, PauseStep, CallFailsStep
  <2>2. ASSUME NEW r \in Runs, Step(r)
        PROVE  ClientInv'
    <3>1. ASSUME NEW p \in Parts,
                 PartArrives(r, p) \/ SavePart(r, p) \/ TransferFails(r, p)
          PROVE  ClientInv'
      BY <3>1, PartArrivesStep, SavePartStep, TransferFailsStep
    <3> QED BY <2>2, <3>1, EnsureProjectStep, EnsureMultipartUploadStep,
               CheckStatusStep, SignPartsStep, FinishBatchStep, CompleteStep,
               CompletionFailsStep, CompletionRefusedStep DEF Step
  <2>3. ASSUME NEW p \in Projects, Abort(p) \/ Expire(p)
        PROVE  ClientInv'
    BY <2>3, AbortStep, ExpireStep
  <2> QED BY <1>2, <2>1, <2>2, <2>3, CloseWindowStep DEF Next
<1> QED BY <1>1, <1>2

(* The inductive invariant holds in every state.                           *)
THEOREM Invariance == Spec => []ClientInv
BY InitHolds, NextHolds, PTL DEF Spec

(* Whatever interleaving of attempts and transfers that outlive them, with *)
(* pauses, lost answers and aborts: a checkpoint, and every copy that may  *)
(* still be saved as one, names only an upload and parts the server has,   *)
(* so that uploadMovie may skip them.                                      *)
THEOREM CheckpointIsTrueHolds == Spec => []CheckpointIsTrue
<1>1. ClientInv => CheckpointIsTrue
  <2> SUFFICES ASSUME ClientInv PROVE CheckpointIsTrue
    OBVIOUS
  <2>1. TypeOK
    BY DEF ClientInv
  <2>2. ASSUME NEW r \in Runs PROVE Sound(run[r].copy, upload, stored)
    BY OfRun DEF RunSound
  <2>3. checkpoint # None => Sound(checkpoint, upload, stored)
    BY DEF ClientInv, CheckpointSound
  <2> QED BY <2>1, <2>2, <2>3 DEF CheckpointIsTrue, Sound
<1> QED BY <1>1, Invariance, PTL

(* uploadMovie calls createProject again only for a loss, however many     *)
(* attempts there are, under way at once or one after another, and in      *)
(* whatever order they fail, are paused, save and give up.                 *)
THEOREM ProjectsAreAccountedHolds == Spec => []ProjectsAreAccounted
<1>1. ClientInv => ProjectsAreAccounted
  BY AccountsHold
<1> QED BY <1>1, Invariance, PTL

=============================================================================
