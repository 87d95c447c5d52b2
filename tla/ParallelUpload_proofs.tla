----------------------- MODULE ParallelUpload_proofs -----------------------
(***************************************************************************)
(* Theorems about ParallelUpload, for any batches, any number of workers   *)
(* and any number of calls.  What a worker inside the lock has looked up   *)
(* stays true until it leaves, because only the holder of the lock writes. *)
(***************************************************************************)
EXTENDS ParallelUpload, Positions, FiniteSetTheorems

\* Only jobs of the batch are worked on.
OnlyJobs == \A j \in Slot : phase[j] # "none" => j \in Jobs

\* A job has no result before it is answered, and only uploads take the lock.
Unanswered ==
  \A j \in Slot :
    /\ phase[j] \in {"queued", "started", "locked", "creating", "ready"} =>
         outcome[j] = "none"
    /\ phase[j] \in Locked => call = "upload"

\* What a job found absent is absent until it stores it, and stays what it stored.
LookupStands ==
  \A j \in Slot :
    /\ phase[j] \in {"creating", "ready"} => storage[IdOf(j)] = None
    /\ phase[j] = "stored" => storage[IdOf(j)] = VersionOf(j)

\* The mirror is behind only on the document that is being stored.
MirrorBehind ==
  \A id \in Id : \/ mirror[id] = storage[id]
                 \/ \E j \in Slot : phase[j] = "stored" /\ IdOf(j) = id

IInv ==
  /\ TypeOK
  /\ OnlyJobs
  /\ Unanswered
  /\ LookupStands
  /\ MirrorBehind
  /\ NoWorkerOutlivesStep

\* The jobs of a batch are slots, and their documents have an id and a version.
LEMMA JobsAreSlots ==
  ASSUME NEW docs \in Seq(Document), Len(docs) <= MaxDocuments
  PROVE  FirstOccurrences(docs) \subseteq Slot
  BY UploadAssumption DEF FirstOccurrences, Slot

LEMMA JobDocument ==
  ASSUME TypeOK, NEW j \in Jobs
  PROVE  j \in Slot /\ j \in DOMAIN documents
         /\ IdOf(j) \in Id /\ VersionOf(j) \in Version
<1>1. j \in DOMAIN documents /\ documents[j] \in Document
  BY DEF TypeOK, Jobs, FirstOccurrences
<1> QED
  BY <1>1, JobsAreSlots DEF TypeOK, Jobs, Document, IdOf, VersionOf

LEMMA InitInv == Init => IInv
<1> SUFFICES ASSUME Init PROVE IInv
  OBVIOUS
<1> USE UploadAssumption, TargetAssumption DEF Init, TargetInit
<1>1. TypeOK
  BY DEF TypeOK, TargetType, NoSession, Phases, Outcomes, Locked, Active
<1> QED
  BY <1>1 DEF IInv, OnlyJobs, Unanswered, LookupStands, MirrorBehind,
              NoWorkerOutlivesStep, Locked, Active

-----------------------------------------------------------------------------
(* The calling thread.                                                     *)

LEMMA CallStepInv ==
  ASSUME IInv, NEW docs \in Batches, NEW how \in Calls, CallStep(docs, how)
  PROVE  IInv'
<1> USE UploadAssumption DEF IInv, CallStep, targetState
<1>1. FirstOccurrences(docs) \subseteq Slot /\ docs \in Seq(Document)
  BY JobsAreSlots
<1>2. \A j \in Slot : phase'[j] \in {"queued", "none"} /\ outcome'[j] = "none"
  OBVIOUS
<1>3. \A j \in Slot : phase[j] \notin Locked
  BY DEF NoWorkerOutlivesStep, Active
<1>4. TypeOK'
  <2>1. phase' \in [Slot -> Phases] /\ outcome' \in [Slot -> Outcomes]
    BY DEF Phases, Outcomes
  <2>2. { j \in Slot : phase'[j] \in Locked } = { lock' } \ {0}
    <3>1. { j \in Slot : phase[j] \in Locked } = {}
      BY <1>3
    <3>2. { j \in Slot : phase'[j] \in Locked } = {}
      BY <1>2 DEF Locked
    <3> QED
      BY <3>1, <3>2 DEF TypeOK
  <2>3. TargetType'
    BY DEF TypeOK, TargetType
  <2>4. /\ documents' \in Seq(Document) /\ Len(documents') <= MaxDocuments
        /\ call' \in {"upload", "dry_run", "reconstruct"}
        /\ calls' \in Nat
    BY <1>1 DEF TypeOK
  <2>5. /\ workers' \in Nat \ {0}
        /\ main' = "mapping"
        /\ collected' \in 0..MaxDocuments /\ error' \in 0..MaxDocuments
    BY DEF TypeOK
  <2> QED
    BY ONLY <2>1, <2>2, <2>3, <2>4, <2>5 DEF TypeOK
<1>5. OnlyJobs'
  BY DEF OnlyJobs, Jobs
<1>6. Unanswered' /\ LookupStands'
  BY <1>2 DEF Unanswered, LookupStands, Locked
<1>7. MirrorBehind'
  BY <1>3 DEF MirrorBehind, Locked
<1>8. NoWorkerOutlivesStep'
  BY DEF NoWorkerOutlivesStep
<1> QED
  BY <1>4, <1>5, <1>6, <1>7, <1>8

LEMMA MainStepInv == IInv /\ MainStep => IInv'
<1> SUFFICES ASSUME IInv, MainStep PROVE IInv'
  OBVIOUS
<1> USE DEF IInv, stepVars, targetState
<1>1. ASSUME NEW j \in Slot, TakeResult(j) PROVE IInv'
  BY <1>1
  DEF TakeResult, TypeOK, TargetType, OnlyJobs, Unanswered, LookupStands, MirrorBehind,
      NoWorkerOutlivesStep, Jobs, IdOf, VersionOf, Slot
<1>2. ASSUME NEW j \in Slot, CancelJob(j) PROVE IInv'
  <2>1. phase[j] = "queued" /\ phase' = [phase EXCEPT ![j] = "cancelled"]
    BY <1>2 DEF CancelJob, Queued
  <2>2. \A k \in Slot : phase'[k] \in Locked <=> phase[k] \in Locked
    BY <2>1 DEF Locked, TypeOK
  <2>3. TypeOK'
    <3>1. phase' \in [Slot -> Phases]
      BY <2>1 DEF TypeOK, Phases
    <3>2. { k \in Slot : phase'[k] \in Locked } = { lock } \ {0}
      BY <2>2 DEF TypeOK
    <3> QED
      BY <1>2, <3>1, <3>2 DEF CancelJob, TypeOK, TargetType
  <2> QED
    BY <1>2, <2>1, <2>2, <2>3
    DEF CancelJob, OnlyJobs, Unanswered, LookupStands, MirrorBehind, TypeOK,
        NoWorkerOutlivesStep, Jobs, IdOf, VersionOf, Locked
<1>3. CASE LeaveWithError \/ ReturnResults
  <2>1. ASSUME NEW j \in Slot PROVE phase[j] \notin Active \cup {"queued"}
    <3>1. j \in Jobs => phase[j] \notin Active \cup {"queued"}
      BY <1>3 DEF LeaveWithError, ReturnResults, PoolEmpty, Queued, Running
    <3>2. "none" \notin Active \cup {"queued"}
      BY DEF Active, Locked
    <3> QED
      BY <3>1, <3>2 DEF OnlyJobs
  <2>2. TypeOK'
    <3>1. session' \in [exists : BOOLEAN, documents : Seq(Id), completed : BOOLEAN]
      BY <1>3 DEF LeaveWithError, ReturnResults, FinalizeJob, FinalizeUpload, TypeOK, TargetType
    <3>2. UNCHANGED << storage, mirror, lock, stepVars, collected, error, phase, outcome >>
      BY <1>3 DEF LeaveWithError, ReturnResults
    <3>3. main' \in {"raised", "returned"}
      BY <1>3 DEF LeaveWithError, ReturnResults
    <3> QED
      BY <3>1, <3>2, <3>3 DEF TypeOK, TargetType
  <2> QED
    BY <1>3, <2>1, <2>2
    DEF LeaveWithError, ReturnResults, OnlyJobs, Unanswered, LookupStands, MirrorBehind,
        NoWorkerOutlivesStep, Jobs, IdOf, VersionOf
<1> QED
  BY <1>1, <1>2, <1>3 DEF MainStep

-----------------------------------------------------------------------------
(* The workers.                                                            *)

\* The lock keeps the others out.
LEMMA OneInside ==
  ASSUME TypeOK, NEW j \in Slot, NEW k \in Slot,
         phase[j] \in Locked, phase[k] \in Locked
  PROVE  j = k /\ lock = j
  BY DEF TypeOK

\* A move of one job that takes, keeps or returns the lock as it should.
LEMMA OwnerMoves ==
  ASSUME TypeOK, NEW j \in Slot, NEW p \in Phases,
         phase' = [phase EXCEPT ![j] = p],
         \/ phase[j] \notin Locked /\ p \notin Locked /\ lock' = lock
         \/ phase[j] \notin Locked /\ p \in Locked /\ lock = 0 /\ lock' = j
         \/ phase[j] \in Locked /\ p \in Locked /\ lock' = lock
         \/ phase[j] \in Locked /\ p \notin Locked /\ lock' = 0
  PROVE  /\ phase' \in [Slot -> Phases]
         /\ { k \in Slot : phase'[k] \in Locked } = { lock' } \ {0}
         /\ lock' \in Nat
<1>1. phase \in [Slot -> Phases] /\ lock \in Nat /\ j \in Nat \ {0}
  BY UploadAssumption DEF TypeOK, TargetType, Slot
<1>2. \A k \in Slot : phase'[k] = IF k = j THEN p ELSE phase[k]
  BY <1>1
<1>3. { k \in Slot : phase[k] \in Locked } = { lock } \ {0}
  BY DEF TypeOK
<1>4. \A k \in Slot : phase'[k] \in Locked <=> k \in { lock' } \ {0}
  <2>1. \A k \in Slot : phase[k] \in Locked <=> k = lock
    BY <1>1, <1>3, UploadAssumption DEF Slot
  <2>2. \A k \in Slot : k # 0
    BY UploadAssumption DEF Slot
  <2> QED
    BY <1>1, <1>2, <2>1, <2>2
<1>5. lock' \in Slot \cup {0}
  BY <1>1, <1>3
<1>6. phase' \in [Slot -> Phases]
  BY <1>1
<1>7. { k \in Slot : phase'[k] \in Locked } = { lock' } \ {0}
  BY ONLY <1>4, <1>5
<1>8. lock' \in Nat
  BY <1>5, UploadAssumption DEF Slot
<1> QED
  BY <1>6, <1>7, <1>8

\* What every move of a working job keeps.
LEMMA WorkerMoves ==
  ASSUME IInv, NEW j \in Slot, NEW p \in Phases \ {"none"},
         phase[j] \in Active \cup {"queued"},
         phase' = [phase EXCEPT ![j] = p],
         UNCHANGED << stepVars, main, collected, error >>
  PROVE  j \in Jobs /\ OnlyJobs' /\ NoWorkerOutlivesStep'
<1>1. "none" \notin Active \cup {"queued"}
  BY DEF Active, Locked
<1>2. main \notin {"idle", "returned", "raised"}
  BY DEF IInv, NoWorkerOutlivesStep
<1> QED
  BY <1>1, <1>2
  DEF IInv, TypeOK, OnlyJobs, NoWorkerOutlivesStep, stepVars, Jobs

\* The parts of TypeOK a worker does not touch.
LEMMA WorkerTypes ==
  ASSUME TypeOK, TargetType',
         phase' \in [Slot -> Phases], outcome' \in [Slot -> Outcomes],
         { k \in Slot : phase'[k] \in Locked } = { lock' } \ {0},
         UNCHANGED << stepVars, main, collected, error >>
  PROVE  TypeOK'
  BY DEF TypeOK, stepVars

LEMMA WorkerStepInv ==
  ASSUME IInv, NEW j \in Slot, WorkerStep(j)
  PROVE  IInv'
<1>0. /\ TypeOK /\ TargetType
      /\ phase \in [Slot -> Phases] /\ outcome \in [Slot -> Outcomes]
  BY DEF IInv, TypeOK
\* Steps that change nothing but the job's phase.
<1>1. ASSUME StartJob(j) \/ AcquireLock(j) \/ ReadSession(j) PROVE IInv'
  <2> DEFINE p == phase'[j]
  <2>1. /\ phase[j] \in Active \cup {"queued"}
        /\ p \in {"started"} \cup Locked /\ p \in Phases \ {"none"}
        /\ phase' = [phase EXCEPT ![j] = p]
        /\ UNCHANGED << stepVars, main, collected, error >>
        /\ UNCHANGED << outcome, storage, mirror, session >>
    BY <1>0, <1>1
    DEF StartJob, AcquireLock, ReadSession, Queued, targetState, Active, Locked, Phases
  <2>2. /\ phase' \in [Slot -> Phases]
        /\ { k \in Slot : phase'[k] \in Locked } = { lock' } \ {0}
        /\ lock' \in Nat
    <3>1. \/ phase[j] \notin Locked /\ p \notin Locked /\ lock' = lock
          \/ phase[j] \notin Locked /\ p \in Locked /\ lock = 0 /\ lock' = j
          \/ phase[j] \in Locked /\ p \in Locked /\ lock' = lock
      BY <1>0, <1>1
      DEF StartJob, AcquireLock, ReadSession, Queued, targetState, Locked, LockFree
    <3> QED
      BY ONLY <1>0, <2>1, <3>1, OwnerMoves, j \in Slot
  <2>3. TypeOK'
    <3>1. TargetType'
      BY <1>0, <2>1, <2>2 DEF TargetType
    <3> QED
      BY <1>0, <2>1, <2>2, <3>1, WorkerTypes
  <2>4. OnlyJobs' /\ NoWorkerOutlivesStep'
    BY <2>1, WorkerMoves
  <2>5. Unanswered'
    BY <1>0, <1>1, <2>1
    DEF IInv, Unanswered, StartJob, AcquireLock, ReadSession, Queued, Locked, stepVars
  <2>6. LookupStands'
    BY <1>0, <1>1, <2>1
    DEF IInv, LookupStands, StartJob, AcquireLock, ReadSession, Absent, IdOf, VersionOf,
        Locked, stepVars
  <2>7. MirrorBehind'
    BY <1>0, <1>1, <2>1
    DEF IInv, MirrorBehind, StartJob, AcquireLock, ReadSession, Queued, IdOf, stepVars
  <2> QED
    BY <2>3, <2>4, <2>5, <2>6, <2>7 DEF IInv
\* Answers that change nothing in the target but the mirror.
<1>2. ASSUME \/ SimulateUpload(j) \/ Reconstruct(j) \/ RejectUpload(j)
             \/ ReportConflict(j) \/ ReplayUpload(j)
      PROVE  IInv'
  <2> DEFINE p == phase'[j]
  <2>1. /\ phase[j] \in {"started", "locked"}
        /\ p \in {"done", "raised"}
        /\ phase' = [phase EXCEPT ![j] = p]
        /\ UNCHANGED << stepVars, main, collected, error, storage, session >>
    BY <1>0, <1>2
    DEF SimulateUpload, Reconstruct, RejectUpload, ReportConflict, ReplayUpload, Answer,
        targetState
  <2>2. outcome' = [outcome EXCEPT ![j] = outcome'[j]] /\ outcome'[j] \in Outcomes
    BY <1>0, <1>2
    DEF SimulateUpload, Reconstruct, RejectUpload, ReportConflict, ReplayUpload, Answer,
        Outcomes
  <2>3. /\ phase' \in [Slot -> Phases]
        /\ { k \in Slot : phase'[k] \in Locked } = { lock' } \ {0}
        /\ lock' \in Nat
    <3>1. \/ phase[j] \notin Locked /\ p \notin Locked /\ lock' = lock
          \/ phase[j] \in Locked /\ p \notin Locked /\ lock' = 0
      BY <1>0, <1>2
      DEF SimulateUpload, Reconstruct, RejectUpload, ReportConflict, ReplayUpload, Answer,
          targetState, Locked
    <3>2. p \in Phases
      BY <2>1 DEF Phases
    <3> QED
      BY ONLY <1>0, <2>1, <3>1, <3>2, OwnerMoves, j \in Slot
  <2>4. /\ j \in Jobs /\ OnlyJobs' /\ NoWorkerOutlivesStep'
    <3>1. phase[j] \in Active \cup {"queued"} /\ p \in Phases \ {"none"}
      BY <2>1 DEF Active, Locked, Phases
    <3> QED
      BY <2>1, <3>1, WorkerMoves
  <2>5. IdOf(j) \in Id /\ VersionOf(j) \in Version
    BY <1>0, <2>4, JobDocument
  <2>6. \/ UNCHANGED mirror
        \/ /\ mirror' = [mirror EXCEPT ![IdOf(j)] = VersionOf(j)]
           /\ storage[IdOf(j)] = VersionOf(j)
    BY <1>2
    DEF SimulateUpload, Reconstruct, RejectUpload, ReportConflict, ReplayUpload, Remember,
        SameDocument, targetState
  <2>7. TypeOK'
    <3>1. mirror' \in [Id -> Version \cup {None}]
      BY <1>0, <2>5, <2>6 DEF TargetType
    <3>2. TargetType'
      BY <1>0, <2>1, <2>3, <3>1 DEF TargetType
    <3>3. outcome' \in [Slot -> Outcomes]
      BY <1>0, <2>2
    <3> QED
      BY <1>0, <2>1, <2>3, <3>2, <3>3, WorkerTypes
  <2>8. Unanswered'
    BY <1>0, <2>1, <2>2 DEF IInv, Unanswered, Locked, stepVars
  <2>9. LookupStands'
    BY <1>0, <2>1 DEF IInv, LookupStands, IdOf, VersionOf, stepVars
  <2>10. MirrorBehind'
    <3>1. ASSUME NEW id \in Id, mirror[id] = storage[id] PROVE mirror'[id] = storage'[id]
      BY <1>0, <2>1, <2>6, <3>1 DEF TargetType
    <3>2. ASSUME NEW k \in Slot, phase[k] = "stored"
          PROVE  phase'[k] = "stored" /\ IdOf(k)' = IdOf(k)
      BY <1>0, <2>1, <3>2 DEF IdOf, stepVars
    <3> QED
      BY <3>1, <3>2 DEF IInv, MirrorBehind
  <2> QED
    BY <2>4, <2>7, <2>8, <2>9, <2>10 DEF IInv
<1>3. ASSUME OpenSession(j) PROVE IInv'
  <2>1. /\ phase[j] = "creating"
        /\ phase' = [phase EXCEPT ![j] = "ready"]
        /\ UNCHANGED << stepVars, main, collected, error, outcome, storage, mirror, lock >>
    BY <1>3 DEF OpenSession
  <2>2. session' \in [exists : BOOLEAN, documents : Seq(Id), completed : BOOLEAN]
    BY <1>3 DEF OpenSession, CreateUploadSession
  <2>3. /\ phase' \in [Slot -> Phases]
        /\ { k \in Slot : phase'[k] \in Locked } = { lock' } \ {0}
        /\ lock' \in Nat
    BY <1>0, <2>1, OwnerMoves DEF Phases, Locked, Active
  <2>4. TypeOK'
    <3>1. TargetType'
      BY <1>0, <2>1, <2>2, <2>3 DEF TargetType
    <3> QED
      BY <1>0, <2>1, <2>3, <3>1, WorkerTypes
  <2>5. OnlyJobs' /\ NoWorkerOutlivesStep'
    BY <2>1, WorkerMoves DEF Phases, Locked, Active
  <2>6. Unanswered' /\ LookupStands' /\ MirrorBehind'
    BY <1>0, <2>1
    DEF IInv, Unanswered, LookupStands, MirrorBehind, Locked, IdOf,
        VersionOf, stepVars
  <2> QED
    BY <2>4, <2>5, <2>6 DEF IInv
<1>4. ASSUME StoreDocument(j) PROVE IInv'
  <2>1. /\ phase[j] = "ready"
        /\ phase' = [phase EXCEPT ![j] = "stored"]
        /\ outcome' = [outcome EXCEPT ![j] = "created"]
        /\ storage' = [storage EXCEPT ![IdOf(j)] = VersionOf(j)]
        /\ UNCHANGED << stepVars, main, collected, error, mirror, session, lock >>
    BY <1>4 DEF StoreDocument, Answer, AddDocument
  <2>2. /\ phase' \in [Slot -> Phases]
        /\ { k \in Slot : phase'[k] \in Locked } = { lock' } \ {0}
        /\ lock' \in Nat
    BY <1>0, <2>1, OwnerMoves DEF Phases, Locked, Active
  <2>3. j \in Jobs /\ OnlyJobs' /\ NoWorkerOutlivesStep'
    BY <2>1, WorkerMoves DEF Phases, Locked, Active
  <2>4. IdOf(j) \in Id /\ VersionOf(j) \in Version
    BY <1>0, <2>3, JobDocument
  <2>5. TypeOK'
    <3>1. TargetType'
      BY <1>0, <2>1, <2>2, <2>4 DEF TargetType
    <3>2. outcome' \in [Slot -> Outcomes]
      BY <1>0, <2>1 DEF Outcomes
    <3> QED
      BY <1>0, <2>1, <2>2, <3>1, <3>2, WorkerTypes
  <2>6. Unanswered'
    BY <1>0, <2>1 DEF IInv, Unanswered, Locked, stepVars
  <2>7. LookupStands'
    <3>1. ASSUME NEW k \in Slot, k # j
          PROVE  phase'[k] \notin {"creating", "ready", "stored"}
      BY <1>0, <2>1, <3>1, OneInside DEF Locked
    <3>2. phase'[j] = "stored" /\ storage'[IdOf(j)'] = VersionOf(j)'
      BY <1>0, <2>1, <2>4 DEF TargetType, IdOf, VersionOf, stepVars
    <3> QED
      BY <3>1, <3>2 DEF LookupStands
  <2>8. MirrorBehind'
    <3>1. IdOf(j)' = IdOf(j) /\ phase'[j] = "stored"
      BY <1>0, <2>1 DEF IdOf, stepVars
    <3>2. ASSUME NEW id \in Id, id # IdOf(j)
          PROVE  mirror'[id] = storage'[id] \/ \E k \in Slot : phase'[k] = "stored" /\ IdOf(k)' = id
      <4>1. storage'[id] = storage[id] /\ mirror'[id] = mirror[id]
        BY <1>0, <2>1, <3>2 DEF TargetType
      <4>2. ASSUME NEW k \in Slot, phase[k] = "stored" PROVE FALSE
        BY <1>0, <2>1, <4>2, OneInside DEF Locked
      <4> QED
        BY <4>1, <4>2 DEF IInv, MirrorBehind
    <3> QED
      BY <3>1, <3>2 DEF MirrorBehind
  <2> QED
    BY <2>3, <2>5, <2>6, <2>7, <2>8 DEF IInv
<1>5. ASSUME AttachDocument(j) PROVE IInv'
  <2>1. /\ phase[j] = "stored"
        /\ phase' = [phase EXCEPT ![j] = "done"]
        /\ mirror' = [mirror EXCEPT ![IdOf(j)] = VersionOf(j)]
        /\ session' = [session EXCEPT !.documents = Append(@, IdOf(j))]
        /\ lock' = 0
        /\ UNCHANGED << stepVars, main, collected, error, outcome, storage >>
    BY <1>5 DEF AttachDocument, Remember, AttachToSession
  <2>2. /\ phase' \in [Slot -> Phases]
        /\ { k \in Slot : phase'[k] \in Locked } = { lock' } \ {0}
        /\ lock' \in Nat
    BY <1>0, <2>1, OwnerMoves DEF Phases, Locked, Active
  <2>3. j \in Jobs /\ OnlyJobs' /\ NoWorkerOutlivesStep'
    BY <2>1, WorkerMoves DEF Phases, Locked, Active
  <2>4. IdOf(j) \in Id /\ VersionOf(j) \in Version
    BY <1>0, <2>3, JobDocument
  <2>5. TypeOK'
    <3>1. session' \in [exists : BOOLEAN, documents : Seq(Id), completed : BOOLEAN]
      <4>1. session \in [exists : BOOLEAN, documents : Seq(Id), completed : BOOLEAN]
        BY <1>0 DEF TargetType
      <4>2. Append(session.documents, IdOf(j)) \in Seq(Id)
        BY <2>4, <4>1
      <4> QED
        BY <2>1, <4>1, <4>2
    <3>2. TargetType'
      BY <1>0, <2>1, <2>2, <2>4, <3>1 DEF TargetType
    <3> QED
      BY <1>0, <2>1, <2>2, <3>2, WorkerTypes
  <2>6. Unanswered' /\ LookupStands'
    BY <1>0, <2>1 DEF IInv, Unanswered, LookupStands, Locked, IdOf, VersionOf, stepVars
  <2>7. MirrorBehind'
    <3>1. mirror'[IdOf(j)] = storage'[IdOf(j)]
      BY <1>0, <2>1, <2>4 DEF IInv, LookupStands, TargetType
    <3>2. ASSUME NEW id \in Id, id # IdOf(j) PROVE mirror'[id] = storage'[id]
      <4>1. ASSUME NEW k \in Slot, phase[k] = "stored" PROVE k = j
        BY <1>0, <2>1, <4>1, OneInside DEF Locked
      <4>2. mirror[id] = storage[id]
        BY <3>2, <4>1 DEF IInv, MirrorBehind
      <4> QED
        BY <1>0, <2>1, <3>2, <4>2 DEF TargetType
    <3> QED
      BY <3>1, <3>2 DEF MirrorBehind
  <2> QED
    BY <2>3, <2>5, <2>6, <2>7 DEF IInv
<1> QED
  BY <1>1, <1>2, <1>3, <1>4, <1>5 DEF WorkerStep

LEMMA NextInv == IInv /\ [Next]_vars => IInv'
<1> SUFFICES ASSUME IInv, [Next]_vars PROVE IInv'
  OBVIOUS
<1>1. CASE UNCHANGED vars
  BY <1>1
  DEF vars, IInv, TypeOK, TargetType, OnlyJobs, Unanswered, LookupStands, MirrorBehind,
      NoWorkerOutlivesStep, Jobs, IdOf, VersionOf
<1> QED
  BY <1>1, CallStepInv, MainStepInv, WorkerStepInv DEF Next

LEMMA Invariance == Spec => []IInv
  BY InitInv, NextInv, PTL DEF Spec

\* Type correctness, and mutual exclusion: the jobs inside the adapter's lock are
\* exactly the one the lock names.
THEOREM TypeCorrect == Spec => []TypeOK
<1>1. IInv => TypeOK
  BY DEF IInv
<1> QED
  BY Invariance, <1>1, PTL

\* The step is only left when its pool has ended, for any pool size: a retry of
\* the step never runs beside the workers of the attempt before.
THEOREM PoolEndsWithStep == Spec => []NoWorkerOutlivesStep
<1>1. IInv => NoWorkerOutlivesStep
  BY DEF IInv
<1> QED
  BY Invariance, <1>1, PTL

-----------------------------------------------------------------------------
(* What the steps do to the storage.                                       *)

\* The storage is written by StoreDocument only.
LEMMA StorageChanges ==
  ASSUME [Next]_vars
  PROVE  UNCHANGED storage \/ \E j \in Slot : StoreDocument(j)
<1>1. ASSUME NEW j \in Slot, WorkerStep(j) PROVE UNCHANGED storage \/ StoreDocument(j)
  BY <1>1
  DEF WorkerStep, StartJob, SimulateUpload, Reconstruct, RejectUpload, AcquireLock,
      ReportConflict, ReplayUpload, ReadSession, OpenSession, AttachDocument, targetState
<1> QED
  BY <1>1
  DEF Next, MainStep, CallStep, TakeResult, CancelJob, LeaveWithError, ReturnResults,
      vars, targetState

LEMMA StorageKept ==
  ASSUME IInv, [Next]_vars, NEW id \in Stored
  PROVE  storage'[id] = storage[id] /\ id \in Stored'
<1>1. ASSUME NEW j \in Slot, StoreDocument(j) PROVE storage'[id] = storage[id]
  <2>1. id # IdOf(j)
    BY <1>1 DEF StoreDocument, IInv, LookupStands, Stored
  <2> QED
    BY <1>1, <2>1 DEF StoreDocument, AddDocument, IInv, TypeOK, TargetType, Stored
<1>2. storage'[id] = storage[id]
  BY <1>1, StorageChanges
<1> QED
  BY <1>2 DEF Stored

\* Idempotency: whatever content a key is sent with later, and however workers
\* interleave, what the target stores under a key is never replaced.
THEOREM StorageIsImmutable == Spec => StoredContentNeverChanges
<1>1. IInv /\ [Next]_vars => [\A id \in Stored : storage'[id] = storage[id]]_vars
  BY StorageKept
<1> QED
  BY Invariance, <1>1, PTL DEF Spec, StoredContentNeverChanges

-----------------------------------------------------------------------------
(* The replies are those of IdempotentStore.                               *)

LEMMA StoreInit == Init => Store!Init
  BY DEF Init, TargetInit, Store!Init

LEMMA StoreStep == IInv /\ [Next]_vars => [Store!Next]_(Store!vars)
<1> SUFFICES ASSUME IInv, [Next]_vars PROVE Store!Next \/ UNCHANGED Store!vars
  OBVIOUS
<1> USE DEF Store!vars
<1>0. /\ TargetAssumption /\ TypeOK /\ TargetType
      /\ outcome \in [Slot -> Outcomes]
  BY TargetAssumption DEF IInv, TypeOK
<1>1. ASSUME NEW docs \in Batches, NEW how \in Calls, CallStep(docs, how)
      PROVE  Store!NewBatch
  BY <1>1, UploadAssumption DEF CallStep, Store!NewBatch, Document, targetState
<1>2. CASE MainStep
  BY <1>2
  DEF MainStep, TakeResult, CancelJob, LeaveWithError, ReturnResults, stepVars, targetState
<1>3. ASSUME NEW j \in Slot, WorkerStep(j) PROVE Store!Next \/ UNCHANGED Store!vars
  <2>1. CASE StartJob(j) \/ AcquireLock(j) \/ ReadSession(j) \/ OpenSession(j) \/ AttachDocument(j)
    BY <2>1
    DEF StartJob, AcquireLock, ReadSession, OpenSession, AttachDocument, stepVars, targetState
  <2>2. CASE \/ SimulateUpload(j) \/ Reconstruct(j) \/ RejectUpload(j)
             \/ ReportConflict(j) \/ ReplayUpload(j) \/ StoreDocument(j)
    <3>1. /\ phase[j] \in {"started", "locked", "ready"} /\ UNCHANGED documents
          /\ outcome' = [outcome EXCEPT ![j] = outcome'[j]]
      BY <1>0, <2>2
      DEF SimulateUpload, Reconstruct, RejectUpload, ReportConflict, ReplayUpload,
          StoreDocument, Answer, stepVars
    <3>2. outcome[j] = "none" /\ j \in Jobs
      BY <3>1 DEF IInv, Unanswered, OnlyJobs
    <3>3. /\ j \in DOMAIN documents
          /\ IdOf(j) \in Id /\ VersionOf(j) \in Version
      BY <1>0, <3>2, JobDocument
    <3>4. Store!Answer(j, outcome'[j])
      BY <3>1, <3>2, <3>3 DEF Store!Answer
    <3>5. CASE SimulateUpload(j) \/ RejectUpload(j)
      <4>1. outcome'[j] \in {"dry", "failed"} /\ UNCHANGED storage
        BY <1>0, <3>5 DEF SimulateUpload, RejectUpload, Answer, targetState
      <4>2. Store!Pass(j)
        BY <3>4, <4>1 DEF Store!Pass
      <4> QED
        BY <4>2 DEF Store!Next
    <3>6. CASE Reconstruct(j)
      <4>1. call = "reconstruct" /\ UNCHANGED storage
        BY <3>6 DEF Reconstruct, targetState
      <4>2. \A k \in Slot : phase[k] # "stored"
        BY <4>1 DEF IInv, Unanswered, Locked
      <4>3. mirror[IdOf(j)] = storage[IdOf(j)]
        BY <3>3, <4>2 DEF IInv, MirrorBehind
      <4>4. outcome'[j] = IF storage[IdOf(j)] = None THEN "missing" ELSE "found"
        BY <1>0, <3>6, <4>3 DEF Reconstruct, Answer, UploadedDocument
      <4>5. outcome' = [i \in Slot |->
              IF i \notin {j} THEN outcome[i]
              ELSE IF storage[documents[i].id] = None THEN "missing" ELSE "found"]
        BY <3>1, <4>4 DEF IInv, TypeOK, IdOf
      <4>6. Store!Find({j}) /\ {j} \in SUBSET DOMAIN documents
        BY <3>1, <3>2, <3>3, <4>1, <4>5 DEF Store!Find, stepVars
      <4> QED
        BY <4>6 DEF Store!Next
    <3>7. CASE ReportConflict(j)
      <4>1. Store!Refuse(j)
        BY <1>0, <3>4, <3>7
        DEF ReportConflict, Answer, SameDocument, IdOf, VersionOf, Store!Refuse
      <4> QED
        BY <4>1 DEF Store!Next
    <3>8. CASE ReplayUpload(j)
      <4>1. Store!Repeat(j)
        BY <1>0, <3>4, <3>8
        DEF ReplayUpload, Answer, SameDocument, IdOf, VersionOf, Store!Repeat
      <4> QED
        BY <4>1 DEF Store!Next
    <3>9. CASE StoreDocument(j)
      <4>1. storage[IdOf(j)] = None
        BY <3>9 DEF StoreDocument, IInv, LookupStands
      <4>2. outcome'[j] = "created"
        BY <1>0, <3>9 DEF StoreDocument, Answer
      <4>3. Store!Create(j)
        BY <3>4, <3>9, <4>1, <4>2
        DEF StoreDocument, AddDocument, IdOf, VersionOf, Store!Create
      <4> QED
        BY <4>3 DEF Store!Next
    <3> QED
      BY <2>2, <3>5, <3>6, <3>7, <3>8, <3>9
  <2> QED
    BY <1>3, <2>1, <2>2 DEF WorkerStep
<1>4. CASE UNCHANGED vars
  BY <1>4 DEF vars
<1> QED
  BY <1>1, <1>2, <1>3, <1>4 DEF Next, Store!Next

\* Refinement: to the step that called it, a pool of any size over the locked,
\* multi-step adapter is an atomic idempotent store, and no result of a job was
\* decided on a lookup that another worker had overtaken.
THEOREM UploadsAreAtomic == Spec => IsIdempotentStore
  BY Invariance, StoreInit, StoreStep, PTL DEF Spec, IsIdempotentStore, Store!Spec

-----------------------------------------------------------------------------
(* The results.  A job that is done has an answer the storage confirms and *)
(* will go on to confirm, because nothing stored is replaced.  The calling *)
(* thread only goes past jobs that are done.                               *)

Confirmed(j) ==
  /\ IdOf(j) \in Stored
  /\ outcome[j] = "conflict" <=> storage[IdOf(j)] # VersionOf(j)

Answered ==
  \A j \in Slot :
    /\ phase[j] = "done" /\ call = "upload" => Confirmed(j)
    /\ phase[j] = "stored" => outcome[j] = "created"
    /\ phase[j] = "raised" => outcome[j] = "failed"

InOrder ==
  /\ \A k \in Jobs : k <= collected => phase[k] = "done"
  /\ main \in {"draining", "raised"} =>
       /\ error \in Jobs /\ phase[error] = "raised"
       /\ \A k \in Jobs : k < error => phase[k] = "done"
  /\ main = "returned" => \A j \in Jobs : phase[j] = "done"

ResultInv == Answered /\ InOrder

\* A job that is not answered or stored by a step stays as it is.
LEMMA OthersKept ==
  ASSUME IInv, [Next]_vars, UNCHANGED << documents, call >>, NEW k \in Jobs,
         phase'[k] = phase[k], outcome'[k] = outcome[k],
         phase[k] = "done" /\ call = "upload" => Confirmed(k)
  PROVE  phase'[k] = "done" /\ call' = "upload" => Confirmed(k)'
<1>1. IdOf(k)' = IdOf(k) /\ VersionOf(k)' = VersionOf(k)
  BY DEF IdOf, VersionOf
<1> QED
  BY <1>1, StorageKept DEF Confirmed

\* What a worker does to the answers: one job, and never one that is settled.
LEMMA WorkerAnswers ==
  ASSUME IInv, NEW j \in Slot, WorkerStep(j)
  PROVE  /\ phase[j] \notin {"done", "raised"} /\ j \in Jobs
         /\ \A k \in Slot \ {j} : phase'[k] = phase[k] /\ outcome'[k] = outcome[k]
         /\ UNCHANGED << stepVars, main, collected, error >>
<1>1. phase \in [Slot -> Phases] /\ outcome \in [Slot -> Outcomes]
  BY DEF IInv, TypeOK
<1>2. /\ phase[j] \notin {"none", "done", "raised"}
      /\ \A k \in Slot \ {j} : phase'[k] = phase[k] /\ outcome'[k] = outcome[k]
      /\ UNCHANGED << stepVars, main, collected, error >>
  BY <1>1
  DEF WorkerStep, StartJob, SimulateUpload, Reconstruct, RejectUpload, AcquireLock,
      ReportConflict, ReplayUpload, ReadSession, OpenSession, StoreDocument,
      AttachDocument, Answer, Queued
<1>3. j \in Jobs
  BY <1>2 DEF IInv, OnlyJobs
<1> QED
  BY <1>2, <1>3

\* The answer of the job itself.
LEMMA OwnAnswer ==
  ASSUME IInv, ResultInv, NEW j \in Slot, WorkerStep(j)
  PROVE  /\ phase'[j] = "done" /\ call' = "upload" => Confirmed(j)'
         /\ phase'[j] = "stored" => outcome'[j] = "created"
         /\ phase'[j] = "raised" => outcome'[j] = "failed"
<1>1. phase \in [Slot -> Phases] /\ outcome \in [Slot -> Outcomes]
  BY DEF IInv, TypeOK
<1>2. /\ IdOf(j)' = IdOf(j) /\ VersionOf(j)' = VersionOf(j)
      /\ call' = call /\ j \in Jobs
  BY WorkerAnswers DEF IdOf, VersionOf, stepVars
<1>3. IdOf(j) \in Id /\ VersionOf(j) \in Version /\ VersionOf(j) # None
  BY <1>2, JobDocument, TargetAssumption DEF IInv
<1>4. CASE StartJob(j) \/ AcquireLock(j) \/ ReadSession(j) \/ OpenSession(j)
  BY <1>1, <1>4 DEF StartJob, AcquireLock, ReadSession, OpenSession
<1>5. CASE SimulateUpload(j) \/ Reconstruct(j) \/ RejectUpload(j)
  BY <1>1, <1>2, <1>5 DEF SimulateUpload, Reconstruct, RejectUpload, Answer
<1>6. CASE ReportConflict(j) \/ ReplayUpload(j)
  <2>1. phase'[j] = "done" /\ UNCHANGED storage /\ storage[IdOf(j)] # None
    BY <1>1, <1>6 DEF ReportConflict, ReplayUpload, Answer
  <2>2. outcome'[j] = "conflict" <=> storage[IdOf(j)] # VersionOf(j)
    BY <1>1, <1>6 DEF ReportConflict, ReplayUpload, Answer, SameDocument
  <2> QED
    BY <1>2, <1>3, <2>1, <2>2 DEF Confirmed, Stored
<1>7. CASE StoreDocument(j)
  BY <1>1, <1>7 DEF StoreDocument, Answer
<1>8. CASE AttachDocument(j)
  <2>1. phase[j] = "stored" /\ phase'[j] = "done" /\ UNCHANGED << outcome, storage >>
    BY <1>1, <1>8 DEF AttachDocument
  <2>2. storage[IdOf(j)] = VersionOf(j) /\ outcome[j] = "created"
    BY <2>1 DEF IInv, LookupStands, ResultInv, Answered
  <2> QED
    BY <1>2, <1>3, <2>1, <2>2 DEF Confirmed, Stored
<1> QED
  BY <1>4, <1>5, <1>6, <1>7, <1>8 DEF WorkerStep

LEMMA WorkerResults ==
  ASSUME IInv, ResultInv, NEW j \in Slot, WorkerStep(j)
  PROVE  ResultInv'
<1>1. /\ phase[j] \notin {"done", "raised"}
      /\ \A k \in Slot \ {j} : phase'[k] = phase[k] /\ outcome'[k] = outcome[k]
      /\ UNCHANGED << documents, call, main, collected, error, Jobs >>
  BY WorkerAnswers DEF stepVars, Jobs
<1>2. [Next]_vars
  BY DEF Next
<1>3. Answered'
  <2>1. ASSUME NEW k \in Slot, k # j
        PROVE  /\ phase'[k] = "done" /\ call' = "upload" => Confirmed(k)'
               /\ phase'[k] = "stored" => outcome'[k] = "created"
               /\ phase'[k] = "raised" => outcome'[k] = "failed"
    <3>1. phase'[k] = phase[k] /\ outcome'[k] = outcome[k]
      BY <1>1, <2>1
    <3>2. phase[k] = "done" => k \in Jobs
      BY DEF IInv, OnlyJobs
    <3> QED
      BY <1>1, <1>2, <3>1, <3>2, OthersKept DEF ResultInv, Answered
  <2> QED
    BY <2>1, OwnAnswer DEF Answered
<1>4. ASSUME NEW k \in Jobs, phase[k] \in {"done", "raised"} PROVE phase'[k] = phase[k]
  <2>1. k \in Slot
    BY JobDocument DEF IInv
  <2> QED
    BY <1>1, <1>4, <2>1
<1>5. InOrder'
  BY <1>1, <1>4 DEF ResultInv, InOrder
<1> QED
  BY <1>3, <1>5 DEF ResultInv

LEMMA MainResults ==
  ASSUME IInv, ResultInv, MainStep
  PROVE  ResultInv'
<1>0. phase \in [Slot -> Phases] /\ Jobs \subseteq Slot /\ Slot \subseteq Nat
  BY JobDocument DEF IInv, TypeOK, Slot
<1>1. /\ UNCHANGED << documents, call, outcome, storage, Jobs >>
      /\ \A k : UNCHANGED Confirmed(k)
  <2>1. UNCHANGED << documents, call, outcome, storage >>
    BY DEF MainStep, TakeResult, CancelJob, LeaveWithError, ReturnResults, stepVars,
           targetState
  <2> QED
    BY <2>1 DEF Jobs, Confirmed, IdOf, VersionOf, Stored
<1>2. ASSUME NEW j \in Slot, TakeResult(j) PROVE ResultInv'
  <2>1. UNCHANGED phase /\ main = "mapping" /\ j \in Jobs /\ phase[j] \in {"done", "raised"}
    BY <1>2 DEF TakeResult, CanTake, IsNext
  <2>2. \A k \in Jobs : k < j => k <= collected
    BY <1>0, <1>2, UploadAssumption DEF TakeResult, CanTake, IsNext, IInv, TypeOK
  <2>3. \A k \in Jobs : k < j => phase[k] = "done"
    BY <2>2 DEF ResultInv, InOrder
  <2>4. CASE phase[j] = "done"
    <3>1. collected' = j /\ main' = "mapping" /\ error' = error
      BY <1>2, <2>1, <2>4 DEF TakeResult
    <3>2. \A k \in Jobs : k <= j => phase[k] = "done"
      BY <1>0, <2>3, <2>4
    <3> QED
      BY <1>1, <2>1, <3>1, <3>2 DEF ResultInv, Answered, InOrder
  <2>5. CASE phase[j] = "raised"
    <3>1. error' = j /\ main' = "draining" /\ collected' = collected
      BY <1>2, <2>5 DEF TakeResult
    <3> QED
      BY <1>1, <2>1, <2>3, <2>5, <3>1 DEF ResultInv, Answered, InOrder
  <2> QED
    BY <2>1, <2>4, <2>5
<1>3. ASSUME NEW j \in Slot, CancelJob(j) PROVE ResultInv'
  <2>1. /\ phase[j] = "queued" /\ phase' = [phase EXCEPT ![j] = "cancelled"]
        /\ UNCHANGED << main, collected, error >>
    BY <1>3 DEF CancelJob, Queued
  <2>2. \A k \in Slot : phase'[k] = phase[k] \/ (k = j /\ phase'[k] = "cancelled")
    BY <1>0, <2>1
  <2> QED
    BY <1>0, <1>1, <2>1, <2>2 DEF ResultInv, Answered, InOrder
<1>4. CASE LeaveWithError
  BY <1>1, <1>4 DEF LeaveWithError, ResultInv, Answered, InOrder
<1>5. CASE ReturnResults
  BY <1>1, <1>5 DEF ReturnResults, ResultInv, Answered, InOrder
<1> QED
  BY <1>2, <1>3, <1>4, <1>5 DEF MainStep

LEMMA ResultInvariant == Spec => []ResultInv
<1>1. Init => ResultInv
  <2> SUFFICES ASSUME Init PROVE ResultInv
    OBVIOUS
  <2>1. Jobs = {}
    BY DEF Init, Jobs, FirstOccurrences
  <2> QED
    BY <2>1 DEF Init, ResultInv, Answered, InOrder
<1>2. ASSUME IInv, ResultInv, [Next]_vars PROVE ResultInv'
  <2>1. ASSUME NEW docs \in Batches, NEW how \in Calls, CallStep(docs, how)
        PROVE  ResultInv'
    <3>1. \A j \in Slot : phase'[j] \in {"queued", "none"}
      BY <2>1 DEF CallStep
    <3>2. Jobs' \subseteq Slot /\ Slot \subseteq Nat \ {0}
      BY <2>1, UploadAssumption, JobsAreSlots DEF CallStep, Jobs, Slot
    <3>3. collected' = 0 /\ main' = "mapping"
      BY <2>1 DEF CallStep
    <3>4. Answered'
      BY <3>1 DEF Answered
    <3>5. InOrder'
      BY <3>2, <3>3 DEF InOrder
    <3> QED
      BY <3>4, <3>5 DEF ResultInv
  <2>2. CASE UNCHANGED vars
    BY <1>2, <2>2
    DEF vars, ResultInv, Answered, Confirmed, InOrder, Jobs, IdOf, VersionOf, Stored
  <2> QED
    BY <1>2, <2>1, <2>2, WorkerResults, MainResults DEF Next
<1> QED
  BY <1>1, <1>2, Invariance, PTL DEF Spec

\* The exception that leaves the step is the first in document order, for any pool.
THEOREM FirstFailureIsRaised == Spec => []FirstFailureLeaves
<1>1. IInv /\ ResultInv => FirstFailureLeaves
  BY JobDocument DEF IInv, ResultInv, Answered, InOrder, FirstFailureLeaves
<1> QED
  BY <1>1, Invariance, ResultInvariant, PTL

\* A returned upload accounts for every document, duplicates included: the first one
\* of the identifier has been answered, and the answer still holds.
THEOREM ResultsAreFaithful == Spec => []ResultsFaithful
<1>1. ASSUME IInv, ResultInv PROVE ResultsFaithful
  <2> SUFFICES ASSUME main = "returned", call = "upload"
               PROVE  /\ \A i \in DOMAIN documents : IdOf(i) \in Stored
                      /\ \A j \in Jobs :
                           (outcome[j] = "conflict") <=> (storage[IdOf(j)] # VersionOf(j))
    BY DEF ResultsFaithful
  <2>1. \A j \in Jobs : Confirmed(j)
    BY <1>1, JobDocument DEF IInv, ResultInv, InOrder, Answered
  <2>2. ASSUME NEW i \in DOMAIN documents PROVE IdOf(i) \in Stored
    <3> DEFINE copies == { k \in DOMAIN documents : documents[k].id = documents[i].id }
    <3>1. DOMAIN documents = 1..Len(documents) /\ Len(documents) \in Nat
      BY <1>1 DEF IInv, TypeOK
    <3>2. PICK k \in copies : \A m \in copies : k <= m
      <4>1. copies \in SUBSET Nat /\ copies # {}
        BY <3>1
      <4> HIDE DEF copies
      <4> QED
        BY <4>1, LeastPosition
    <3>3. ASSUME NEW m \in 1..(k - 1), documents[m].id = documents[k].id PROVE FALSE
      <4>1. m \in copies /\ ~(k <= m)
        BY <3>1, <3>3
      <4> QED
        BY <3>2, <4>1
    <3>4. k \in Jobs
      BY <3>3 DEF Jobs, FirstOccurrences
    <3> QED
      BY <2>1, <3>4 DEF Confirmed, IdOf
  <2> QED
    BY <2>1, <2>2 DEF Confirmed
<1> QED
  BY <1>1, Invariance, ResultInvariant, PTL

-----------------------------------------------------------------------------
(* The session.  It lists what is stored but for the document the holder   *)
(* of the lock has still to attach, each once: a document is attached      *)
(* after it was found absent, and the session replaced is an empty one.    *)

Listed == { session.documents[i] : i \in DOMAIN session.documents }
Pending == { IdOf(j) : j \in { k \in Slot : phase[k] = "stored" } }

SessionInv ==
  /\ Listed = Stored \ Pending
  /\ IsFiniteSet(Listed) /\ Cardinality(Listed) = Len(session.documents)
  /\ ~session.exists => session.documents = << >>
  /\ \A j \in Slot :
       /\ phase[j] = "creating" => ~session.exists
       /\ phase[j] \in {"ready", "stored"} => session.exists

SameSession ==
  session'.exists = session.exists /\ session'.documents = session.documents

\* Steps that neither write to the session nor to the storage.
LEMMA SessionKept ==
  ASSUME SessionInv, SameSession, UNCHANGED storage, Pending' = Pending,
         \A k \in Slot : /\ phase'[k] = "creating" => phase[k] = "creating" \/ ~session.exists
                         /\ phase'[k] \in {"ready", "stored"} =>
                              phase[k] \in {"ready", "stored"} \/ session.exists
  PROVE  SessionInv'
<1>1. Listed' = Listed /\ Stored' = Stored
  BY DEF Listed, Stored, SameSession
<1> QED
  BY <1>1 DEF SessionInv, SameSession

LEMMA CallSession ==
  ASSUME IInv, SessionInv, NEW docs \in Batches, NEW how \in Calls, CallStep(docs, how)
  PROVE  SessionInv'
<1>1. Pending = {} /\ Pending' = {}
  <2>1. \A j \in Slot : phase[j] # "stored" /\ phase'[j] # "stored"
    BY DEF CallStep, IInv, NoWorkerOutlivesStep, Active, Locked
  <2> QED
    BY <2>1 DEF Pending
<1> QED
  BY <1>1, SessionKept DEF CallStep, SameSession, targetState

LEMMA MainSession ==
  ASSUME IInv, SessionInv, MainStep
  PROVE  SessionInv'
<1>1. SameSession /\ UNCHANGED << storage, documents >>
  BY DEF MainStep, TakeResult, CancelJob, LeaveWithError, ReturnResults, stepVars,
         targetState, SameSession, FinalizeJob, FinalizeUpload, IInv, TypeOK, TargetType
<1>2. \A k \in Slot : phase'[k] = phase[k] \/ (phase[k] = "queued" /\ phase'[k] = "cancelled")
  BY DEF MainStep, TakeResult, CancelJob, LeaveWithError, ReturnResults, Queued, IInv, TypeOK
<1>3. Pending' = Pending
  <2>1. \A k \in Slot : phase'[k] = "stored" <=> phase[k] = "stored"
    BY <1>2
  <2> QED
    BY <1>1, <2>1 DEF Pending, IdOf
<1> QED
  BY <1>1, <1>2, <1>3, SessionKept

LEMMA WorkerSession ==
  ASSUME IInv, SessionInv, NEW j \in Slot, WorkerStep(j)
  PROVE  SessionInv'
<1>1. /\ phase \in [Slot -> Phases] /\ TypeOK /\ TargetType
      /\ \A k \in Slot \ {j} : phase'[k] = phase[k]
      /\ UNCHANGED documents /\ IdOf(j)' = IdOf(j)
  BY WorkerAnswers DEF stepVars, IInv, TypeOK, IdOf
<1>2. IdOf(j) \in Id /\ VersionOf(j) \in Version /\ VersionOf(j) # None
  BY WorkerAnswers, JobDocument, TargetAssumption DEF IInv
<1>3. ASSUME phase[j] \in Locked PROVE \A k \in Slot \ {j} : phase[k] \notin Locked
  BY <1>1, <1>3, OneInside
<1>4. ASSUME phase[j] # "stored", phase'[j] # "stored" PROVE Pending' = Pending
  <2>1. \A k \in Slot : phase'[k] = "stored" <=> phase[k] = "stored"
    BY <1>1, <1>4
  <2> QED
    BY <1>1, <2>1 DEF Pending, IdOf
<1>5. CASE \/ StartJob(j) \/ SimulateUpload(j) \/ Reconstruct(j) \/ RejectUpload(j)
           \/ AcquireLock(j) \/ ReportConflict(j) \/ ReplayUpload(j) \/ ReadSession(j)
  <2>1. phase[j] # "stored" /\ phase'[j] # "stored" /\ UNCHANGED << session, storage >>
    BY <1>1, <1>5
    DEF StartJob, SimulateUpload, Reconstruct, RejectUpload, AcquireLock, ReportConflict,
        ReplayUpload, ReadSession, Answer, Queued, targetState
  <2>2. /\ phase'[j] = "creating" => ~session.exists
        /\ phase'[j] = "ready" => session.exists
    BY <1>1, <1>5
    DEF StartJob, SimulateUpload, Reconstruct, RejectUpload, AcquireLock, ReportConflict,
        ReplayUpload, ReadSession, Answer
  <2>3. \A k \in Slot : /\ phase'[k] = "creating" => phase[k] = "creating" \/ ~session.exists
                        /\ phase'[k] \in {"ready", "stored"} =>
                             phase[k] \in {"ready", "stored"} \/ session.exists
    BY <1>1, <2>1, <2>2
  <2> QED
    BY <1>4, <2>1, <2>3, SessionKept DEF SameSession
<1>6. CASE OpenSession(j)
  <2>1. /\ phase[j] = "creating" /\ phase'[j] = "ready"
        /\ session'.exists = TRUE /\ session'.documents = << >>
        /\ UNCHANGED storage
    BY <1>1, <1>6 DEF OpenSession, CreateUploadSession
  <2>2. session.documents = << >>
    BY <2>1 DEF SessionInv
  <2>3. Listed' = Listed /\ Stored' = Stored /\ Pending' = Pending
    BY <1>4, <2>1, <2>2 DEF Listed, Stored
  <2>4. \A k \in Slot : phase'[k] # "creating"
    BY <1>1, <1>3, <2>1 DEF Locked
  <2> QED
    BY <2>1, <2>2, <2>3, <2>4 DEF SessionInv
<1>7. CASE StoreDocument(j)
  <2>1. /\ phase[j] = "ready" /\ phase'[j] = "stored"
        /\ storage' = [storage EXCEPT ![IdOf(j)] = VersionOf(j)]
        /\ UNCHANGED session
    BY <1>1, <1>7 DEF StoreDocument, Answer, AddDocument
  <2>2. \A k \in Slot \ {j} : phase[k] # "stored"
    BY <1>3, <2>1 DEF Locked
  <2>3. Pending = {} /\ Pending' = {IdOf(j)}
    <3>1. \A k \in Slot : (phase[k] # "stored") /\ (phase'[k] = "stored" <=> k = j)
      BY <1>1, <2>1, <2>2
    <3> QED
      BY <1>1, <3>1 DEF Pending
  <2>4. Stored' = Stored \cup {IdOf(j)} /\ IdOf(j) \notin Stored
    <3>1. storage[IdOf(j)] = None
      BY <2>1 DEF IInv, LookupStands
    <3> QED
      BY <1>1, <1>2, <2>1, <3>1 DEF Stored, TargetType
  <2>5. Listed' = Listed
    BY <2>1 DEF Listed
  <2>6. Listed' = Stored' \ Pending'
    BY <2>3, <2>4, <2>5 DEF SessionInv
  <2>7. \A k \in Slot : phase'[k] # "creating" /\ session'.exists
    BY <1>1, <1>3, <2>1 DEF Locked, SessionInv
  <2> QED
    BY <2>1, <2>5, <2>6, <2>7 DEF SessionInv
<1>8. CASE AttachDocument(j)
  <2>1. /\ phase[j] = "stored" /\ phase'[j] = "done"
        /\ session'.documents = Append(session.documents, IdOf(j))
        /\ session'.exists = session.exists
        /\ UNCHANGED storage
    BY <1>1, <1>8 DEF AttachDocument, AttachToSession, TargetType
  <2>2. \A k \in Slot \ {j} : phase[k] # "stored"
    BY <1>3, <2>1 DEF Locked
  <2>3. Pending = {IdOf(j)} /\ Pending' = {}
    <3>1. \A k \in Slot : (phase'[k] # "stored") /\ (phase[k] = "stored" <=> k = j)
      BY <1>1, <2>1, <2>2
    <3> QED
      BY <3>1 DEF Pending
  <2>4. Stored' = Stored /\ IdOf(j) \in Stored
    BY <1>2, <2>1 DEF Stored, IInv, LookupStands
  <2>5. IdOf(j) \notin Listed
    BY <2>3 DEF SessionInv
  <2>6. Listed' = Listed \cup {IdOf(j)} /\ Len(session'.documents) = Len(session.documents) + 1
    <3>1. session.documents \in Seq(Id)
      BY <1>1 DEF TargetType
    <3>2. /\ DOMAIN session'.documents = 1..(Len(session.documents) + 1)
          /\ \A i \in DOMAIN session.documents : session'.documents[i] = session.documents[i]
          /\ session'.documents[Len(session.documents) + 1] = IdOf(j)
          /\ DOMAIN session.documents = 1..Len(session.documents)
          /\ Len(session.documents) \in Nat
          /\ Len(session'.documents) = Len(session.documents) + 1
      BY <1>2, <2>1, <3>1
    <3> QED
      BY <3>2 DEF Listed
  <2>7. IsFiniteSet(Listed') /\ Cardinality(Listed') = Len(session'.documents)
    <3>1. IsFiniteSet(Listed) /\ Cardinality(Listed) = Len(session.documents)
      BY DEF SessionInv
    <3>2. /\ IsFiniteSet(Listed \cup {IdOf(j)})
          /\ Cardinality(Listed \cup {IdOf(j)}) = Cardinality(Listed) + 1
      BY <2>5, <3>1, FS_AddElement
    <3> QED
      BY <2>6, <3>1, <3>2
  <2>8. \A k \in Slot : phase'[k] # "creating" /\ session'.exists
    BY <1>1, <1>3, <2>1 DEF Locked, SessionInv
  <2>9. Listed' = Stored' \ Pending'
    BY <2>3, <2>4, <2>6 DEF SessionInv
  <2> QED
    BY <2>7, <2>8, <2>9 DEF SessionInv
<1> QED
  BY <1>5, <1>6, <1>7, <1>8 DEF WorkerStep

LEMMA SessionInvariant == Spec => []SessionInv
<1>1. Init => SessionInv
  <2> SUFFICES ASSUME Init PROVE SessionInv
    OBVIOUS
  <2>1. Listed = {} /\ Pending = {} /\ Stored = {}
    BY DEF Init, TargetInit, NoSession, Listed, Pending, Stored
  <2> QED
    BY <2>1, FS_EmptySet DEF Init, TargetInit, NoSession, SessionInv
<1>2. ASSUME IInv, SessionInv, [Next]_vars PROVE SessionInv'
  <2>1. CASE UNCHANGED vars
    BY <1>2, <2>1, SessionKept DEF vars, SameSession, Pending, IdOf
  <2> QED
    BY <1>2, <2>1, CallSession, MainSession, WorkerSession DEF Next
<1> QED
  BY <1>1, <1>2, Invariance, PTL DEF Spec

\* Storage, mirror and session agree whenever nobody is between the writes.
THEOREM TargetIsConsistent == Spec => []TargetConsistent
<1>1. ASSUME IInv, SessionInv, lock = 0
      PROVE  /\ mirror = storage
             /\ Len(session.documents) = Cardinality(Stored)
             /\ Listed = Stored
  <2>1. \A j \in Slot : phase[j] \notin Locked
    BY <1>1 DEF IInv, TypeOK
  <2>2. \A j \in Slot : phase[j] # "stored"
    BY <2>1 DEF Locked
  <2>3. mirror = storage
    BY <1>1, <2>2 DEF IInv, MirrorBehind, TypeOK, TargetType
  <2>4. Pending = {}
    BY <2>2 DEF Pending
  <2> QED
    BY <1>1, <2>3, <2>4 DEF SessionInv
<1>2. IInv /\ SessionInv => TargetConsistent
  BY <1>1 DEF TargetConsistent, Listed
<1> QED
  BY <1>2, Invariance, SessionInvariant, PTL

-----------------------------------------------------------------------------
(* What is left of a call of the step, and who can take from it.           *)

\* The statements a job has still to go through.
StatementsLeft(p) ==
  IF p = "queued" THEN 7
  ELSE IF p = "started" THEN 6
  ELSE IF p = "locked" THEN 5
  ELSE IF p = "creating" THEN 4
  ELSE IF p = "ready" THEN 3
  ELSE IF p = "stored" THEN 2
  ELSE 0

Work == { w \in Slot \X (1..7) : w[2] <= StatementsLeft(phase[w[1]]) }

MainLeft == IF main = "mapping" THEN 2 ELSE IF main = "draining" THEN 1 ELSE 0

\* The calling thread, the workers, the results not yet taken.
Left == << MainLeft, Cardinality(Work), MaxDocuments - collected >>

\* Every statement of the calling thread and of a worker takes from what is left.
StepAdvances ==
  [][(MainStep \/ \E j \in Slot : WorkerStep(j)) => <<Left', Left>> \in Falling(3)]_vars

LEMMA WorkIsFinite == IsFiniteSet(Slot \X (1..7))
<1>1. \A n \in Nat : IsFiniteSet(1..n)
  BY FS_Interval
<1>2. IsFiniteSet(Slot) /\ IsFiniteSet(1..7)
  BY <1>1, UploadAssumption DEF Slot
<1> QED
  BY <1>2, FS_Product

LEMMA LeftType ==
  ASSUME TypeOK
  PROVE  /\ MainLeft \in Nat /\ MaxDocuments - collected \in Nat
         /\ IsFiniteSet(Work) /\ Cardinality(Work) \in Nat
<1>1. IsFiniteSet(Work)
  BY WorkIsFinite, FS_Subset DEF Work
<1>2. Cardinality(Work) \in Nat
  BY <1>1, FS_CardinalityType
<1> QED
  BY <1>1, <1>2, UploadAssumption DEF TypeOK, MainLeft

LEMMA CloserToEnd ==
  ASSUME TypeOK, TypeOK',
         \/ MainLeft' < MainLeft
         \/ MainLeft' = MainLeft /\ Cardinality(Work') < Cardinality(Work)
         \/ MainLeft' = MainLeft /\ Work' = Work /\ collected < collected'
  PROVE  <<Left', Left>> \in Falling(3)
<1> DEFINE gone == MaxDocuments - collected
<1>1. MainLeft \in Nat /\ gone \in Nat /\ Cardinality(Work) \in Nat
  BY LeftType
<1>2. MainLeft' \in Nat
  BY DEF MainLeft
<1>3. gone' \in Nat /\ collected' \in Nat /\ collected \in Nat
  <2>1. \A m \in Nat : \A n \in 0..m : n \in Nat /\ m - n \in Nat
    OBVIOUS
  <2> QED
    BY <2>1, UploadAssumption DEF TypeOK
<1>4. Cardinality(Work') \in Nat
  <2>1. Work' \subseteq Slot \X (1..7)
    BY DEF Work
  <2> QED
    BY <2>1, WorkIsFinite, FS_Subset, FS_CardinalityType
<1>5. \/ MainLeft' < MainLeft
      \/ MainLeft' = MainLeft /\ Cardinality(Work') < Cardinality(Work)
      \/ MainLeft' = MainLeft /\ Cardinality(Work') = Cardinality(Work) /\ gone' < gone
  <2>1. \A m, a, b \in Nat : a < b => m - b < m - a
    OBVIOUS
  <2>2. collected < collected' => gone' < gone
    BY <1>3, <2>1, UploadAssumption
  <2> QED
    BY <2>2
<1> HIDE DEF MainLeft, gone
<1>6. << <<MainLeft', Cardinality(Work'), gone'>>, <<MainLeft, Cardinality(Work), gone>> >>
        \in Falling(3)
  BY <1>1, <1>2, <1>3, <1>4, <1>5, ThreeFall
<1> QED
  BY <1>6 DEF Left, gone

\* A job that moves on has less to do, and so has the pool.
LEMMA LessWork ==
  ASSUME TypeOK, TypeOK', NEW j \in Slot, UNCHANGED main,
         \A k \in Slot \ {j} : phase'[k] = phase[k],
         StatementsLeft(phase'[j]) < StatementsLeft(phase[j])
  PROVE  <<Left', Left>> \in Falling(3)
<1>0. \A p : StatementsLeft(p) \in 0..7
  BY DEF StatementsLeft
<1> DEFINE now == StatementsLeft(phase[j])
           then == StatementsLeft(phase'[j])
<1>1. now \in 1..7 /\ ~(now <= then)
  BY <1>0
<1>2. <<j, now>> \in Work /\ <<j, now>> \notin Work'
  <2> DEFINE statement == <<j, now>>
  <2>1. statement \in Slot \X (1..7) /\ statement[1] = j /\ statement[2] = now
    BY <1>1
  <2>2. statement[2] <= StatementsLeft(phase[statement[1]])
    BY <1>1, <2>1
  <2>3. ~(statement[2] <= StatementsLeft(phase'[statement[1]]))
    BY <1>1, <2>1
  <2> HIDE DEF statement
  <2>4. statement \in Work /\ statement \notin Work'
    BY <2>1, <2>2, <2>3 DEF Work
  <2> QED
    BY <2>4 DEF statement
<1> HIDE DEF now, then
<1>3. ASSUME NEW w \in Work' PROVE w \in Work
  <2>1. w \in Slot \X (1..7) /\ w[2] <= StatementsLeft(phase'[w[1]])
    BY DEF Work
  <2>2. StatementsLeft(phase'[w[1]]) <= StatementsLeft(phase[w[1]])
    <3>1. CASE w[1] = j
      BY <1>0, <3>1
    <3>2. CASE w[1] # j
      BY <1>0, <2>1, <3>2
    <3> QED
      BY <3>1, <3>2
  <2>3. w[2] <= StatementsLeft(phase[w[1]])
    BY <1>0, <2>1, <2>2
  <2> QED
    BY <2>1, <2>3 DEF Work
<1>4. Work' \subseteq Work /\ Work' # Work
  BY <1>2, <1>3
<1>5. Cardinality(Work') < Cardinality(Work)
  <2>1. IsFiniteSet(Work) /\ Cardinality(Work) \in Nat
    BY LeftType
  <2>2. IsFiniteSet(Work')
    BY <1>4, <2>1, FS_Subset
  <2>3. Cardinality(Work') \in Nat
    BY <2>2, FS_CardinalityType
  <2> QED
    BY <1>4, <2>1, <2>3, FS_Subset
<1>6. MainLeft' = MainLeft
  BY DEF MainLeft
<1> QED
  BY <1>5, <1>6, CloserToEnd

\* A call of the step is a bounded number of statements, whatever raises and in
\* whichever order the workers come: no job goes back to a statement it has left,
\* a cancelled one is never started and no result is taken twice.
THEOREM StepTakesFiniteSteps == Spec => StepAdvances
<1>1. IInv /\ IInv' /\ [Next]_vars =>
        [(MainStep \/ \E j \in Slot : WorkerStep(j)) => <<Left', Left>> \in Falling(3)]_vars
  <2> SUFFICES ASSUME IInv, IInv', MainStep \/ \E j \in Slot : WorkerStep(j)
               PROVE  <<Left', Left>> \in Falling(3)
    OBVIOUS
  <2>0. TypeOK /\ TypeOK' /\ phase \in [Slot -> Phases]
    BY DEF IInv, TypeOK
  <2>1. ASSUME NEW j \in Slot, WorkerStep(j) PROVE <<Left', Left>> \in Falling(3)
    <3>1. StatementsLeft(phase'[j]) < StatementsLeft(phase[j])
      BY <2>0, <2>1
      DEF WorkerStep, StartJob, SimulateUpload, Reconstruct, RejectUpload, AcquireLock,
          ReportConflict, ReplayUpload, ReadSession, OpenSession, StoreDocument,
          AttachDocument, Answer, Queued, StatementsLeft
    <3>2. /\ \A k \in Slot \ {j} : phase'[k] = phase[k]
          /\ UNCHANGED main
      BY <2>1, WorkerAnswers
    <3> QED
      BY <2>0, <3>1, <3>2, LessWork
  <2>2. ASSUME NEW j \in Slot, CancelJob(j) PROVE <<Left', Left>> \in Falling(3)
    <3>1. /\ phase' = [phase EXCEPT ![j] = "cancelled"] /\ phase[j] = "queued"
          /\ UNCHANGED main
      BY <2>2 DEF CancelJob, Queued
    <3>2. StatementsLeft(phase'[j]) < StatementsLeft(phase[j])
      BY <2>0, <3>1 DEF StatementsLeft
    <3> QED
      BY <2>0, <3>1, <3>2, LessWork
  <2>3. ASSUME NEW j \in Slot, TakeResult(j) PROVE <<Left', Left>> \in Falling(3)
    <3>1. CASE phase[j] = "done"
      <4>1. Work' = Work /\ MainLeft' = MainLeft /\ collected < collected'
        BY <2>3, <3>1 DEF TakeResult, CanTake, IsNext, Work, MainLeft
      <4> QED
        BY <2>0, <4>1, CloserToEnd
    <3>2. CASE phase[j] # "done"
      <4>1. MainLeft' < MainLeft
        BY <2>3, <3>2 DEF TakeResult, MainLeft
      <4> QED
        BY <2>0, <4>1, CloserToEnd
    <3> QED
      BY <3>1, <3>2
  <2>4. CASE LeaveWithError \/ ReturnResults
    <3>1. MainLeft' < MainLeft
      BY <2>4 DEF LeaveWithError, ReturnResults, MainLeft
    <3> QED
      BY <2>0, <3>1, CloserToEnd
  <2> QED
    BY <2>1, <2>2, <2>3, <2>4 DEF MainStep
<1> QED
  BY Invariance, <1>1, PTL DEF Spec, StepAdvances

-----------------------------------------------------------------------------
(* Nobody waits for somebody who waits.                                    *)

\* What StartJob and CancelJob ask of the state.
MayStart(j) ==
  /\ j \in Queued
  /\ \A k \in Queued : j <= k
  /\ Cardinality(Running) < PoolSize
  /\ Parallel \/ \A k \in Jobs : k < j => phase[k] = "done"

MayCancel(j) == main = "draining" /\ j \in Queued /\ \A k \in Queued : k <= j

LEMMA Guards ==
  ASSUME NEW j \in Slot
  PROVE  /\ StartJob(j) <=>
              /\ MayStart(j) /\ phase' = [phase EXCEPT ![j] = "started"]
              /\ UNCHANGED << stepVars, main, collected, error, outcome, targetState >>
         /\ CancelJob(j) <=>
              /\ MayCancel(j) /\ phase' = [phase EXCEPT ![j] = "cancelled"]
              /\ UNCHANGED << stepVars, main, collected, error, outcome, targetState >>
BY DEF StartJob, MayStart, CancelJob, MayCancel

\* A started job waits for the lock if it uploads; one inside the lock for nothing.
MayGoOn(j) ==
  \/ MayStart(j)
  \/ phase[j] = "started" /\ (call = "upload" => LockFree)
  \/ phase[j] \in Locked

SomeoneCanGoOn ==
  \/ main \in {"idle", "returned", "raised"}
  \/ \E j \in Slot : MayGoOn(j) \/ MayCancel(j)
  \/ main = "mapping" /\ \E j \in Jobs : CanTake(j)
  \/ main = "mapping" /\ (\A j \in Jobs : j <= collected) /\ PoolEmpty
  \/ main = "draining" /\ PoolEmpty

\* Every job is in the pool, and cancelled only when an exception is about to leave.
InPool ==
  /\ \A j \in Jobs : phase[j] # "none"
  /\ \A j \in Slot : phase[j] = "cancelled" => main \in {"draining", "raised"}

LEMMA InPoolNext == IInv /\ InPool /\ [Next]_vars => InPool'
<1> SUFFICES ASSUME IInv, InPool, [Next]_vars PROVE InPool'
  OBVIOUS
<1>0. phase \in [Slot -> Phases] /\ Jobs \subseteq Slot
  BY JobDocument DEF IInv, TypeOK
<1>1. ASSUME NEW j \in Slot, WorkerStep(j) PROVE InPool'
  <2>1. phase'[j] \notin {"none", "cancelled"}
    BY <1>0, <1>1
    DEF WorkerStep, StartJob, SimulateUpload, Reconstruct, RejectUpload, AcquireLock,
        ReportConflict, ReplayUpload, ReadSession, OpenSession, StoreDocument,
        AttachDocument, Answer
  <2>2. /\ \A k \in Slot \ {j} : phase'[k] = phase[k]
        /\ UNCHANGED << main, Jobs >>
    BY <1>1, WorkerAnswers DEF stepVars, Jobs
  <2> QED
    BY <1>0, <2>1, <2>2 DEF InPool
<1>2. CASE MainStep
  <2>1. Jobs' = Jobs
    BY <1>2 DEF MainStep, TakeResult, CancelJob, LeaveWithError, ReturnResults, stepVars, Jobs
  <2> QED
    BY <1>0, <1>2, <2>1
    DEF MainStep, TakeResult, CancelJob, LeaveWithError, ReturnResults, InPool
<1>3. ASSUME NEW docs \in Batches, NEW how \in Calls, CallStep(docs, how)
      PROVE  InPool'
  <2>1. Jobs' = FirstOccurrences(docs) /\ Jobs' \subseteq Slot
    BY <1>3, JobsAreSlots, UploadAssumption DEF CallStep, Jobs
  <2> QED
    BY <1>3, <2>1 DEF CallStep, InPool
<1>4. CASE UNCHANGED vars
  BY <1>4 DEF vars, InPool, Jobs
<1> QED
  BY <1>1, <1>2, <1>3, <1>4 DEF Next

\* Among the jobs that are running one can go on: the lock has an owner, or is free.
LEMMA RunningGoOn ==
  ASSUME IInv, NEW j \in Running
  PROVE  \E k \in Slot : MayGoOn(k)
<1>1. j \in Slot /\ phase[j] \in Active
  BY JobDocument DEF Running, IInv
<1>2. CASE \E k \in Slot : phase[k] \in Locked
  BY <1>2 DEF MayGoOn
<1>3. CASE \A k \in Slot : phase[k] \notin Locked
  <2>1. phase[j] = "started"
    BY <1>1, <1>3 DEF Active
  <2>2. lock = 0
    <3>1. { k \in Slot : phase[k] \in Locked } = {}
      BY <1>3
    <3> QED
      BY <3>1 DEF IInv, TypeOK
  <2> QED
    BY <1>1, <2>1, <2>2 DEF MayGoOn, LockFree
<1> QED
  BY <1>2, <1>3

\* Until the step is left a worker can go on, the next result can be taken, a job
\* can be cancelled or the pool can be left: neither the results taken in order
\* nor the pool's free threads, the target's lock or the cancelled jobs leave
\* everyone waiting.
THEOREM NobodyIsStuck == Spec => []SomeoneCanGoOn
<1>1. ASSUME IInv, ResultInv, InPool PROVE SomeoneCanGoOn
  <2> SUFFICES ASSUME main \in {"mapping", "draining"}, Running = {} PROVE SomeoneCanGoOn
    BY <1>1, RunningGoOn DEF IInv, TypeOK, SomeoneCanGoOn
  <2>0. /\ Jobs \subseteq Slot /\ Slot \subseteq Nat /\ MaxDocuments \in Nat
        /\ Queued \subseteq Jobs /\ phase \in [Slot -> Phases] /\ collected \in Nat
        /\ \A n \in Slot : n <= MaxDocuments
    BY <1>1, JobDocument, UploadAssumption DEF IInv, TypeOK, Slot, Queued
  <2>1. CASE main = "draining"
    <3>1. CASE Queued = {}
      BY <2>1, <3>1 DEF SomeoneCanGoOn, PoolEmpty
    <3>2. CASE Queued # {}
      <4> DEFINE after == { n \in Nat : \E k \in Queued : n + k = MaxDocuments }
      <4>1. after \in SUBSET Nat /\ after # {}
        <5>1. PICK k \in Queued : k \in Nat /\ k <= MaxDocuments
          BY <2>0, <3>2
        <5>2. MaxDocuments - k \in Nat /\ (MaxDocuments - k) + k = MaxDocuments
          BY <2>0, <5>1
        <5> QED
          BY <5>1, <5>2
      <4> HIDE DEF after
      <4>2. PICK n \in after : \A m \in after : n <= m
        BY <4>1, LeastPosition
      <4>3. PICK j \in Queued : n \in Nat /\ n + j = MaxDocuments
        BY <4>2 DEF after
      <4>4. ASSUME NEW k \in Queued PROVE k <= j
        <5>1. k \in Nat /\ j \in Nat /\ k <= MaxDocuments
          BY <2>0
        <5>2. MaxDocuments - k \in after
          <6>1. MaxDocuments - k \in Nat /\ (MaxDocuments - k) + k = MaxDocuments
            BY <2>0, <5>1
          <6> QED
            BY <6>1 DEF after
        <5> QED
          BY <2>0, <4>2, <4>3, <5>1, <5>2
      <4> QED
        BY <2>0, <2>1, <4>4 DEF SomeoneCanGoOn, MayCancel
    <3> QED
      BY <3>1, <3>2
  <2>2. CASE main = "mapping"
    <3> DEFINE open == { n \in Jobs : n > collected }
    <3>1. CASE open = {}
      <4>1. \A j \in Jobs : j <= collected
        BY <2>0, <3>1
      <4>2. \A j \in Jobs : phase[j] = "done"
        BY <1>1, <4>1 DEF ResultInv, InOrder
      <4> QED
        BY <2>2, <4>1, <4>2 DEF SomeoneCanGoOn, PoolEmpty, Queued
    <3>2. CASE open # {}
      <4>1. PICK j \in open : \A k \in open : j <= k
        BY <2>0, <3>2, LeastPosition
      <4>2. j \in Jobs /\ IsNext(j)
        BY <4>1 DEF IsNext
      <4>3. \A k \in Jobs : k < j => phase[k] = "done"
        <5>1. \A k \in Jobs : k < j => k <= collected
          BY <2>0, <4>1
        <5> QED
          BY <1>1, <5>1 DEF ResultInv, InOrder
      <4>4. CASE phase[j] \in {"done", "raised"}
        BY <2>2, <4>2, <4>4 DEF SomeoneCanGoOn, CanTake
      <4>5. CASE phase[j] = "queued"
        <5>1. j \in Queued /\ \A k \in Queued : j <= k
          BY <2>0, <4>2, <4>3, <4>5 DEF Queued
        <5>2. Cardinality(Running) < PoolSize
          <6>1. PoolSize \in Nat \ {0}
            BY <1>1 DEF PoolSize, IInv, TypeOK
          <6>2. \A n \in Nat \ {0} : 0 < n
            OBVIOUS
          <6> QED
            BY <6>1, <6>2, FS_EmptySet
        <5>3. MayStart(j)
          BY <4>3, <5>1, <5>2 DEF MayStart
        <5> QED
          BY <2>0, <4>2, <5>3 DEF SomeoneCanGoOn, MayGoOn
      <4>6. phase[j] \in {"queued", "done", "raised"}
        <5>2. phase[j] \notin {"none", "cancelled"}
          BY <1>1, <2>0, <2>2, <4>2 DEF InPool
        <5>3. phase[j] \notin Active
          BY <4>2 DEF Running
        <5> QED
          BY <2>0, <4>2, <5>2, <5>3 DEF Phases
      <4> QED
        BY <4>4, <4>5, <4>6
    <3> QED
      BY <3>1, <3>2
  <2> QED
    BY <2>1, <2>2
<1>2. Init => InPool
  BY DEF Init, InPool, Jobs, FirstOccurrences
<1> QED
  BY <1>1, <1>2, InPoolNext, Invariance, ResultInvariant, PTL DEF Spec

=============================================================================
