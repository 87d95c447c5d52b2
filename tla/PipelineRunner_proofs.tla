------------------------ MODULE PipelineRunner_proofs ------------------------
(***************************************************************************)
(* Theorems about PipelineRunner, for every set of documents, policy,      *)
(* choice of pipelines and number of runners and runs.                     *)
(*                                                                         *)
(* The invariants of PipelineRunner are not inductive: what a checkpoint   *)
(* claims follows from what the run that saves it did before, so the       *)
(* inductive invariant relates the position of the run in progress to the  *)
(* checkpoint it continues and to what the target holds.                   *)
(***************************************************************************)
EXTENDS PipelineRunner, Positions, FiniteSetTheorems

\* The program counters of the loop over the steps.
InLoop == {"begin", "attempt", "uploading", "save", "handle"}

\* The run is inside its pipeline, a replay inside what it resumes.
WithinPipeline ==
  /\ pc \in InLoop => step <= length
  /\ pc = "replay" => step <= resumeIndex /\ resumeIndex <= length
  /\ pc = "complete" => step = length + 1

\* The target holds what was written to it, once, and nothing that conflicts.
TargetHistory ==
  /\ writes = [d \in Docs |-> IF d \in stored THEN 1 ELSE 0]
  /\ stored \subseteq Deliverable

\* A replay is of the checkpoint in the repository.
ReplayOfCheckpoint ==
  pc = "replay" => /\ resumeIndex = checkpoint.step
                   /\ checkpoint.dry => dry

\* The loop continues the checkpoint, or starts the pipeline over.
ContinuesCheckpoint ==
  pc \in InLoop =>
    \/ step = 1 /\ mode # "resume"
    \/ step = checkpoint.step + 1 /\ (checkpoint.dry => dry)

Delivered == Deliverable \subseteq stored

\* A real run that is past the Upload step, or reports it done, has delivered;
\* one that is in it has delivered the documents it does not have to try again.
UploadedSoFar ==
  /\ pc = "uploading" =>
       step = Upload /\ ~dry /\ Deliverable \subseteq stored \cup pending
  /\ pc \in InLoop \cup {"complete"} /\ step > Upload /\ ~dry => Delivered
  /\ pc = "save" /\ step = Upload /\ ~dry => Delivered

Progress ==
  /\ ReplayOfCheckpoint
  /\ ContinuesCheckpoint
  /\ UploadedSoFar
  /\ CheckpointSound
  /\ SuccessIsEarned

TypeInv == TypeOK /\ WithinPipeline

IInv == TypeInv /\ TargetHistory /\ Progress

-----------------------------------------------------------------------------
(* What the helpers return.                                                *)

\* Every registered step has a lifecycle state.
LEMMA StepStateType == \A s \in Step : StepState[s] \in MigrationState
  BY DEF Step, StepState, MigrationState

\* A guarded move ends in a lifecycle state.
LEMMA MoveType ==
  ASSUME NEW current \in MigrationState, NEW state \in MigrationState
  PROVE  MoveIfAllowed(current, state) \in MigrationState
  BY DEF MoveIfAllowed

\* So does what a step leaves behind.
LEMMA StateAfterType ==
  ASSUME NEW s \in Step, NEW state \in MigrationState
  PROVE  StateAfter(s, state) \in MigrationState
<1>1. /\ "finalizing" \in MigrationState
      /\ "completed" \in MigrationState
      /\ "failed" \in MigrationState
  BY DEF MigrationState
<1>2. MoveIfAllowed(state, "finalizing") \in MigrationState
  BY <1>1, MoveType
<1>3. MoveIfAllowed(MoveIfAllowed(state, "finalizing"), "completed") \in MigrationState
  BY <1>1, <1>2, MoveType
<1> QED
  BY <1>1, <1>3 DEF StateAfter, Finalized

-----------------------------------------------------------------------------
(* Type correctness needs only that runs stay inside their pipeline.       *)

LEMMA TypeInit == Init => TypeInv
<1> SUFFICES ASSUME Init PROVE TypeInv
  OBVIOUS
<1> USE RunnerAssumption DEF Init
<1>1. TypeOK
  BY DEF TypeOK, MigrationState, IsPolicy
<1>2. WithinPipeline
  BY DEF WithinPipeline, InLoop
<1> QED
  BY <1>1, <1>2 DEF TypeInv

\* The actions of the run() call in progress.
LEMMA TypeRunnerStep == TypeInv /\ RunnerStep => TypeInv'
<1> SUFFICES ASSUME TypeInv, RunnerStep PROVE TypeInv'
  OBVIOUS
<1> USE RunnerAssumption
    DEF TypeInv, TypeOK, WithinPipeline, InLoop, runnerVars, callVars,
        targetVars, historyVars
<1>0. length \in 1..6 /\ Policy.max_attempts \in Nat
  BY DEF IsPolicy
<1>1. ASSUME ReplayStep PROVE TypeInv'
  <2>1. step \in Step /\ step' \in 1..7
    BY <1>0, <1>1 DEF ReplayStep, Replay, Step
  <2>2. machine' \in MigrationState
    BY <1>1, <2>1, StepStateType, MoveType, StateAfterType DEF ReplayStep, Replay
  <2>3. throttled' \in Nat
    BY <1>1 DEF ReplayStep, Replay, RestoredThrottling, CheckpointType, NoCheckpoint
  <2> QED
    BY <1>0, <1>1, <2>1, <2>2, <2>3 DEF ReplayStep, Replay, AdvanceContext, Continue
<1>2. ASSUME ReplayRaises PROVE TypeInv'
  <2>1. step \in Step
    BY <1>0, <1>2 DEF ReplayRaises, Step
  <2>2. machine' \in MigrationState
    BY <1>2, <2>1, StepStateType, MoveType DEF ReplayRaises
  <2> QED
    BY <1>0, <1>2, <2>2 DEF ReplayRaises, Leave
<1>3. ASSUME BeginStep PROVE TypeInv'
  <2>1. step \in Step
    BY <1>0, <1>3 DEF BeginStep, Step
  <2>2. machine' \in MigrationState
    BY <1>3, <2>1, StepStateType, MoveType DEF BeginStep
  <2> QED
    BY <1>0, <1>3, <2>2 DEF BeginStep, IsPolicy
<1>4. ASSUME ExecuteStep \/ FinishUpload PROVE TypeInv'
  <2>1. step \in Step
    BY <1>0, <1>4 DEF ExecuteStep, FinishUpload, AllAnswered, Step
  <2>2. machine' \in MigrationState
    BY <1>4, <2>1, StateAfterType DEF ExecuteStep, FinishUpload, AllAnswered, StepSucceeded
  <2> QED
    BY <1>0, <1>4, <2>2
    DEF ExecuteStep, FinishUpload, AllAnswered, StepSucceeded, AdvanceContext
<1>5. ASSUME StartUpload PROVE TypeInv'
  BY <1>5 DEF StartUpload
<1>6. ASSUME NEW d \in Docs, UploadDocument(d) PROVE TypeInv'
  <2>1. stored' \subseteq Docs /\ writes' \in [Docs -> Nat]
    BY <1>6 DEF UploadDocument, KeyKnown
  <2> QED
    BY <1>6, <2>1 DEF UploadDocument, KeyKnown
<1>7. ASSUME StepRaises \/ SaveRaises PROVE TypeInv'
  BY <1>7 DEF StepRaises, SaveRaises, Raise, Exceptions
<1>8. ASSUME SaveCheckpoint PROVE TypeInv'
  <2>1. checkpoint' \in CheckpointType
    BY <1>0, <1>8 DEF SaveCheckpoint, Snapshot, CheckpointType, Step
  <2> QED
    BY <1>0, <1>8, <2>1 DEF SaveCheckpoint, Snapshot, Continue
<1>9. ASSUME RetryStep PROVE TypeInv'
  BY <1>0, <1>9 DEF RetryStep, ThrottlingCounted, RetryAllowed, ShouldRetry
<1>10. ASSUME RetryRecordRaises PROVE TypeInv'
  BY <1>10 DEF RetryRecordRaises, Leave
<1>11. ASSUME FailRun PROVE TypeInv'
  BY <1>11 DEF FailRun, AdvanceContext, Leave, MigrationState
<1>12. ASSUME CompleteRun PROVE TypeInv'
  BY <1>12 DEF CompleteRun, Leave, MigrationState
<1> QED
  BY <1>1, <1>2, <1>3, <1>4, <1>5, <1>6, <1>7, <1>8, <1>9, <1>10, <1>11, <1>12
  DEF RunnerStep

LEMMA TypeNext == TypeInv /\ [Next]_vars => TypeInv'
<1> SUFFICES ASSUME TypeInv, [Next]_vars PROVE TypeInv'
  OBVIOUS
<1> USE RunnerAssumption
    DEF TypeInv, TypeOK, WithinPipeline, InLoop, runnerVars, callVars,
        targetVars, historyVars
<1>0. length \in 1..6 /\ Policy.max_attempts \in Nat \ {0}
  BY DEF IsPolicy
<1>1. CASE Restart
  BY <1>0, <1>1 DEF Restart, BuildRunner, MigrationState
<1>2. ASSUME NEW m \in RunModes, StartRun(m) PROVE TypeInv'
  <2>1. m \in {"run", "dry_run"} /\ dry' \in BOOLEAN
    BY <1>2 DEF StartRun, InitialRuntime, DryRun
  <2>2. machine' \in MigrationState /\ context' \in {"none", "real", "dry"}
    BY <1>2 DEF StartRun, InitialRuntime, DryRun, MigrationState
  <2> QED
    BY <1>0, <1>2, <2>1, <2>2 DEF StartRun, InitialRuntime, DryRun
<1>3. CASE StartResume
  <2>1. checkpoint \in CheckpointType /\ checkpoint.step <= length
    BY <1>3 DEF StartResume, ResumeIndex, ResumeDryRun, Resumable
  <2> QED
    BY <1>0, <1>3, <2>1 DEF StartResume, ResumeIndex, ResumeDryRun, CheckpointType, Step
<1>4. CASE RunnerStep
  BY <1>4, TypeRunnerStep
<1>5. CASE UNCHANGED vars
  BY <1>5 DEF vars
<1> QED
  BY <1>1, <1>2, <1>3, <1>4, <1>5 DEF Next

\* Type correctness: whatever fails, retries, crashes or resumes, the runner's
\* fields, the checkpoint and the target keep the values the code gives them; in
\* particular attempt_number never exceeds the policy's max_attempts and no
\* checkpoint names a step outside the registry.
THEOREM TypeCorrect == Spec => []TypeOK
<1>1. TypeInv => TypeOK
  BY DEF TypeInv
<1> QED
  BY TypeInit, TypeNext, <1>1, PTL DEF Spec

-----------------------------------------------------------------------------
(* What the target holds.                                                  *)

\* Only an upload writes to the target and only a save to the repository.
LEMMA SharedChanges ==
  ASSUME [Next]_vars
  PROVE  \/ UNCHANGED <<stored, writes, checkpoint>>
         \/ \E d \in Docs : UploadDocument(d)
         \/ SaveCheckpoint
<1> QED
  BY DEF Next, RunnerStep, Restart, StartRun, StartResume, ReplayStep, Replay,
         ReplayRaises, BeginStep, ExecuteStep, StartUpload, FinishUpload, StepRaises,
         SaveRaises, RetryStep, RetryRecordRaises, FailRun, CompleteRun, vars,
         targetVars

LEMMA HistoryNext == TypeInv /\ TargetHistory /\ [Next]_vars => TargetHistory'
<1> SUFFICES ASSUME TypeInv, TargetHistory, [Next]_vars PROVE TargetHistory'
  OBVIOUS
<1>1. ASSUME NEW d \in Docs, UploadDocument(d) PROVE TargetHistory'
  <2>1. CASE d \in Conflicting \cup stored
    BY <1>1, <2>1 DEF UploadDocument, KeyKnown, TargetHistory, targetVars, Deliverable
  <2>2. CASE d \notin Conflicting \cup stored
    <3>1. stored' = stored \cup {d} /\ writes' = [writes EXCEPT ![d] = @ + 1]
      BY <1>1, <2>2 DEF UploadDocument, KeyKnown
    <3>2. writes' = [e \in Docs |-> IF e \in stored' THEN 1 ELSE 0]
      BY <2>2, <3>1 DEF TargetHistory
    <3> QED
      BY <2>2, <3>1, <3>2 DEF TargetHistory, Deliverable
  <2> QED
    BY <2>1, <2>2
<1>2. CASE UNCHANGED targetVars
  BY <1>2 DEF targetVars, TargetHistory, Deliverable
<1>3. UNCHANGED targetVars \/ \E d \in Docs : UploadDocument(d)
  BY SharedChanges DEF SaveCheckpoint, targetVars
<1> QED
  BY <1>1, <1>2, <1>3

\* Idempotent delivery: however the runs of the job interleave with crashes,
\* lost responses, retries and resumes, upload_document reaches the document
\* storage at most once per document, and never for a conflicting one.
THEOREM DeliveryCorrect == Spec => []DeliveredAtMostOnce
<1>1. Init => TargetHistory
  BY DEF Init, TargetHistory
<1>2. TargetHistory => DeliveredAtMostOnce
  BY DEF TargetHistory, DeliveredAtMostOnce, Deliverable
<1> QED
  BY TypeInit, TypeNext, HistoryNext, <1>1, <1>2, PTL DEF Spec

-----------------------------------------------------------------------------
(* What a checkpoint and a success claim.                                  *)

\* The fields of the job's checkpoint, saved or not.
LEMMA CheckpointFields ==
  ASSUME checkpoint \in CheckpointType \cup {NoCheckpoint}
  PROVE  checkpoint.step \in Nat /\ checkpoint.dry \in BOOLEAN
<1>1. CASE checkpoint \in CheckpointType
  <2>1. checkpoint.step \in Step /\ checkpoint.dry \in BOOLEAN
    BY <1>1 DEF CheckpointType
  <2> QED
    BY <2>1 DEF Step
<1>2. CASE checkpoint = NoCheckpoint
  BY <1>2 DEF NoCheckpoint
<1> QED
  BY <1>1, <1>2

LEMMA ProgressInit == Init => Progress
<1> SUFFICES ASSUME Init PROVE Progress
  OBVIOUS
<1> QED
  BY DEF Init, Progress, ReplayOfCheckpoint, ContinuesCheckpoint, UploadedSoFar,
         InLoop, CheckpointSound, SuccessIsEarned, NoCheckpoint, Upload

LEMMA ProgressRunnerStep == IInv /\ RunnerStep => Progress'
<1> SUFFICES ASSUME IInv, RunnerStep PROVE Progress'
  OBVIOUS
<1> USE RunnerAssumption
    DEF IInv, Progress, ReplayOfCheckpoint, ContinuesCheckpoint, UploadedSoFar,
        InLoop, CheckpointSound, SuccessIsEarned, Upload, Delivered,
        runnerVars, callVars, targetVars, historyVars, Deliverable
<1>0. /\ length \in 1..6 /\ step \in 1..7 /\ resumeIndex \in 0..6
      /\ checkpoint.step \in Nat /\ dry \in BOOLEAN /\ checkpoint.dry \in BOOLEAN
      /\ pc \in InLoop => step <= length
      /\ pc = "replay" => step <= resumeIndex /\ resumeIndex <= length
      /\ pc = "complete" => step = length + 1
  <2>1. checkpoint.step \in Nat /\ checkpoint.dry \in BOOLEAN
    BY CheckpointFields DEF TypeInv, TypeOK
  <2> QED
    BY <2>1 DEF TypeInv, TypeOK, WithinPipeline
<1>1. ASSUME ReplayStep PROVE Progress'
  BY <1>0, <1>1 DEF ReplayStep, Replay, Continue
<1>2. ASSUME ReplayRaises PROVE Progress'
  BY <1>2 DEF ReplayRaises, Leave
<1>3. ASSUME BeginStep PROVE Progress'
  BY <1>0, <1>3 DEF BeginStep
<1>4. ASSUME ExecuteStep PROVE Progress'
  BY <1>0, <1>4 DEF ExecuteStep, StepSucceeded
<1>5. ASSUME FinishUpload PROVE Progress'
  BY <1>0, <1>5 DEF FinishUpload, AllAnswered, StepSucceeded
<1>6. ASSUME StartUpload PROVE Progress'
  BY <1>0, <1>6 DEF StartUpload
<1>7. ASSUME NEW d \in Docs, UploadDocument(d) PROVE Progress'
  <2>1. stored \subseteq stored'
    BY <1>7 DEF UploadDocument, KeyKnown
  <2>2. Deliverable \subseteq stored' \cup pending'
    BY <1>7 DEF UploadDocument, KeyKnown
  <2> QED
    BY <1>0, <1>7, <2>1, <2>2 DEF UploadDocument, KeyKnown
<1>8. ASSUME StepRaises \/ SaveRaises PROVE Progress'
  BY <1>0, <1>8 DEF StepRaises, SaveRaises, Raise
<1>9. ASSUME SaveCheckpoint PROVE Progress'
  BY <1>0, <1>9 DEF SaveCheckpoint, Snapshot, Continue
<1>10. ASSUME RetryStep PROVE Progress'
  BY <1>0, <1>10 DEF RetryStep
<1>11. ASSUME RetryRecordRaises \/ FailRun PROVE Progress'
  BY <1>0, <1>11 DEF RetryRecordRaises, FailRun, Leave
<1>12. ASSUME CompleteRun PROVE Progress'
  BY <1>0, <1>12 DEF CompleteRun, Leave
<1> QED
  BY <1>1, <1>2, <1>3, <1>4, <1>5, <1>6, <1>7, <1>8, <1>9, <1>10, <1>11, <1>12
  DEF RunnerStep

LEMMA ProgressNext == IInv /\ [Next]_vars => Progress'
<1> SUFFICES ASSUME IInv, [Next]_vars PROVE Progress'
  OBVIOUS
<1> USE DEF IInv, Progress, ReplayOfCheckpoint, ContinuesCheckpoint, UploadedSoFar,
        InLoop, CheckpointSound, SuccessIsEarned, Upload, Delivered,
        runnerVars, callVars, targetVars, historyVars, Deliverable
<1>1. CASE Restart
  BY <1>1 DEF Restart, BuildRunner
<1>2. ASSUME NEW m \in RunModes, StartRun(m) PROVE Progress'
  BY <1>2 DEF StartRun, InitialRuntime, DryRun
<1>3. CASE StartResume
  BY <1>3 DEF StartResume, ResumeIndex, ResumeDryRun
<1>4. CASE RunnerStep
  BY <1>4, ProgressRunnerStep
<1>5. CASE UNCHANGED vars
  BY <1>5 DEF vars
<1> QED
  BY <1>1, <1>2, <1>3, <1>4, <1>5 DEF Next

LEMMA Invariance == Spec => []IInv
<1>1. Init => IInv
  BY TypeInit, ProgressInit DEF IInv, Init, TargetHistory
<1>2. IInv /\ [Next]_vars => IInv'
  BY TypeNext, HistoryNext, ProgressNext DEF IInv
<1> QED
  BY <1>1, <1>2, PTL DEF Spec

\* A resume may trust the checkpoint: one that claims the Upload step of a real
\* run was saved when the target held every deliverable document.
THEOREM CheckpointsAreSound == Spec => []CheckpointSound
<1>1. IInv => CheckpointSound
  BY DEF IInv, Progress
<1> QED
  BY Invariance, <1>1, PTL

\* A run reports success only when the batch is in the target, whoever put it
\* there and whichever checkpoints the run continued.
THEOREM SuccessesAreEarned == Spec => []SuccessIsEarned
<1>1. IInv => SuccessIsEarned
  BY DEF IInv, Progress
<1> QED
  BY Invariance, <1>1, PTL

-----------------------------------------------------------------------------
(* Steps.                                                                  *)

\* "Resume skips already completed steps" (DESIGN.md): no step of a resumed run
\* moves the checkpoint back, also when the runner was used before.
THEOREM ResumesNeverRegress == Spec => ResumeNeverRegresses
<1>1. IInv /\ [Next]_vars =>
        [mode = "resume" => checkpoint'.step >= checkpoint.step]_vars
  <2> SUFFICES ASSUME IInv, [Next]_vars, mode = "resume"
               PROVE  checkpoint'.step >= checkpoint.step
    OBVIOUS
  <2>0. checkpoint.step \in Nat
    BY CheckpointFields DEF IInv, TypeInv, TypeOK
  <2>1. CASE SaveCheckpoint
    BY <2>0, <2>1 DEF SaveCheckpoint, Snapshot, IInv, Progress, ContinuesCheckpoint, InLoop
  <2>2. CASE UNCHANGED checkpoint
    BY <2>0, <2>2
  <2> QED
    BY <2>1, <2>2, SharedChanges DEF UploadDocument
<1> QED
  BY Invariance, <1>1, PTL DEF Spec, ResumeNeverRegresses

-----------------------------------------------------------------------------
(* The runner keeps the contract of MigrationJob.                          *)

LEMMA JobInit == Init => Job!Init
  BY DEF Init, Job!Init, NoCheckpoint

LEMMA JobStep ==
  IInv /\ [Next]_vars =>
    [Job!Next]_<<stored, [step |-> checkpoint.step, dry |-> checkpoint.dry]>>
<1> DEFINE recorded == [step |-> checkpoint.step, dry |-> checkpoint.dry]
<1> SUFFICES ASSUME IInv, [Next]_vars, ~ UNCHANGED <<stored, recorded>>
             PROVE  Job!Next
  OBVIOUS
<1>1. ASSUME NEW d \in Docs, UploadDocument(d) PROVE Job!Next
  <2>1. /\ d \in Deliverable /\ d \notin stored
        /\ stored' = stored \cup {d} /\ checkpoint' = checkpoint
    BY <1>1 DEF UploadDocument, KeyKnown, targetVars, Deliverable
  <2>2. Job!Deliver(d)
    BY <2>1 DEF Job!Deliver
  <2> QED
    BY <2>1, <2>2 DEF Job!Next
<1>2. CASE SaveCheckpoint
  <2>0. /\ step \in 1..6 /\ dry \in BOOLEAN
        /\ checkpoint.step \in Nat /\ checkpoint.dry \in BOOLEAN
    <3>1. step \in 1..6 /\ dry \in BOOLEAN
      BY <1>2, RunnerAssumption
      DEF IInv, TypeInv, TypeOK, WithinPipeline, InLoop, SaveCheckpoint, Snapshot
    <3> QED
      BY <3>1, CheckpointFields DEF IInv, TypeInv, TypeOK
  <2>1. recorded' = [step |-> step, dry |-> dry] /\ stored' = stored
    BY <1>2 DEF SaveCheckpoint, Snapshot, targetVars
  <2>2. CASE step = 1
    <3>1. Job!StartOver(dry)
      BY <2>1, <2>2 DEF Job!StartOver
    <3> QED
      BY <2>0, <3>1 DEF Job!Next
  <2>3. CASE step # 1
    <3>1. step = checkpoint.step + 1 /\ (checkpoint.dry => dry)
      BY <1>2, <2>3 DEF IInv, Progress, ContinuesCheckpoint, InLoop, SaveCheckpoint, Snapshot
    <3>2. ~dry /\ step >= Upload => Deliverable \subseteq stored
      BY <1>2, <2>0
      DEF IInv, Progress, UploadedSoFar, InLoop, SaveCheckpoint, Snapshot, Upload, Delivered
    <3>3. Job!Advance(dry)
      BY <2>0, <2>1, <3>1, <3>2 DEF Job!Advance, Job!UploadStep, Upload
    <3> QED
      BY <2>0, <3>3 DEF Job!Next
  <2> QED
    BY <2>2, <2>3
<1>3. CASE UNCHANGED <<stored, writes, checkpoint>>
  BY <1>3
<1> QED
  BY <1>1, <1>2, <1>3, SharedChanges

\* Refinement: seen from the target and the checkpoint, every step of the runner
\* is a step of the contract or changes nothing.
THEOREM RunnerKeepsJobContract == Spec => KeepsJobContract
  BY Invariance, JobInit, JobStep, PTL DEF Spec, KeepsJobContract, Job!Spec

\* The contract is strong enough to rely on: whoever keeps it, by this runner's
\* steps or by others, has sound checkpoints.
THEOREM ContractMakesCheckpointsSound == KeepsJobContract => []CheckpointSound
<1> DEFINE recorded == [step |-> checkpoint.step, dry |-> checkpoint.dry]
<1>1. Job!Init => CheckpointSound
  <2> SUFFICES ASSUME Job!Init PROVE checkpoint.step = 0
    BY DEF CheckpointSound, Upload
  <2>1. recorded.step = 0
    BY DEF Job!Init
  <2> QED
    BY <2>1
<1>2. CheckpointSound /\ [Job!Next]_<<stored, recorded>> => CheckpointSound'
  <2> SUFFICES ASSUME CheckpointSound, [Job!Next]_<<stored, recorded>>
               PROVE  CheckpointSound'
    OBVIOUS
  <2> USE DEF CheckpointSound, Deliverable
  <2>1. ASSUME NEW d, Job!Deliver(d) PROVE CheckpointSound'
    <3>1. recorded'.step = recorded.step /\ recorded'.dry = recorded.dry
      BY <2>1 DEF Job!Deliver
    <3>2. checkpoint'.step = checkpoint.step /\ checkpoint'.dry = checkpoint.dry
      BY <3>1
    <3> QED
      BY <2>1, <3>2 DEF Job!Deliver
  <2>2. ASSUME NEW simulated \in BOOLEAN, Job!StartOver(simulated) PROVE CheckpointSound'
    <3>1. recorded'.step = 1
      BY <2>2 DEF Job!StartOver
    <3> QED
      BY <3>1 DEF Upload
  <2>3. ASSUME NEW simulated \in BOOLEAN, Job!Advance(simulated) PROVE CheckpointSound'
    <3>1. recorded'.step = recorded.step + 1 /\ recorded'.dry = simulated
      BY <2>3 DEF Job!Advance
    <3>2. checkpoint'.step = recorded.step + 1 /\ checkpoint'.dry = simulated
      BY <3>1
    <3> QED
      BY <2>3, <3>2 DEF Job!Advance, Job!UploadStep, Upload
  <2>4. CASE UNCHANGED <<stored, recorded>>
    <3>1. recorded'.step = recorded.step /\ recorded'.dry = recorded.dry
      BY <2>4
    <3>2. checkpoint'.step = checkpoint.step /\ checkpoint'.dry = checkpoint.dry
      BY <3>1
    <3> QED
      BY <2>4, <3>2
  <2> QED
    BY <2>1, <2>2, <2>3, <2>4 DEF Job!Next
<1> QED
  BY <1>1, <1>2, PTL DEF KeepsJobContract, Job!Spec

-----------------------------------------------------------------------------
(* What the report counts.                                                 *)

\* How many executions the call has counted when it is at its step.
Counted ==
  /\ pc = "replay" => reported = step - 1 /\ failedSaves = 0
  /\ pc \in {"begin", "attempt", "uploading", "handle"} =>
       reported = step - 1 + failedSaves
  /\ pc = "save" => reported = step + failedSaves
  /\ pc = "complete" => reported = length + failedSaves
  /\ pc # "idle" => result = "none"
  /\ ExecutionsReported

LEMMA CountedNext == TypeInv /\ Counted /\ [Next]_vars => Counted'
<1> SUFFICES ASSUME TypeInv, Counted, [Next]_vars PROVE Counted'
  OBVIOUS
<1> USE RunnerAssumption
    DEF Counted, ExecutionsReported, runnerVars, callVars, targetVars, historyVars
<1>0. /\ length \in 1..6 /\ step \in 1..7 /\ resumeIndex \in 0..6
      /\ reported \in Nat /\ failedSaves \in Nat
      /\ pc \in InLoop => step <= length
      /\ pc = "replay" => step <= resumeIndex /\ resumeIndex <= length
      /\ pc = "complete" => step = length + 1
  BY DEF TypeInv, TypeOK, WithinPipeline
<1>1. CASE Restart
  BY <1>1 DEF Restart, BuildRunner
<1>2. ASSUME NEW m \in RunModes, StartRun(m) PROVE Counted'
  BY <1>2 DEF StartRun
<1>3. CASE StartResume
  BY <1>3 DEF StartResume
<1>4. CASE ReplayStep \/ ReplayRaises
  BY <1>0, <1>4 DEF ReplayStep, Replay, ReplayRaises, Continue, Leave
<1>5. CASE BeginStep \/ StartUpload \/ \E d \in Docs : UploadDocument(d)
  BY <1>0, <1>5 DEF BeginStep, StartUpload, UploadDocument
<1>6. CASE ExecuteStep \/ FinishUpload
  BY <1>0, <1>6 DEF ExecuteStep, FinishUpload, StepSucceeded
<1>7. CASE StepRaises \/ SaveRaises
  BY <1>0, <1>7 DEF StepRaises, SaveRaises, Raise
<1>8. CASE SaveCheckpoint
  BY <1>0, <1>8 DEF SaveCheckpoint, Continue, InLoop
<1>9. CASE RetryStep \/ RetryRecordRaises \/ FailRun
  BY <1>0, <1>9 DEF RetryStep, RetryRecordRaises, FailRun, Leave
<1>10. CASE CompleteRun
  BY <1>0, <1>10 DEF CompleteRun, Leave
<1>11. CASE UNCHANGED vars
  BY <1>11 DEF vars
<1> QED
  BY <1>1, <1>2, <1>3, <1>4, <1>5, <1>6, <1>7, <1>8, <1>9, <1>10, <1>11
  DEF Next, RunnerStep

\* The report of a successful call counts every step once, plus one execution for
\* each checkpoint that could not be saved, however often steps were retried,
\* replayed or resumed and however often the runner was used.
THEOREM ReportsCountExecutions == Spec => []ExecutionsReported
<1>1. Init => Counted
  BY DEF Init, Counted, ExecutionsReported
<1>2. Counted => ExecutionsReported
  BY DEF Counted
<1> QED
  BY TypeInit, TypeNext, CountedNext, <1>1, <1>2, PTL DEF Spec

-----------------------------------------------------------------------------
(* Runners that are used for one call.                                     *)

\* The lifecycle state a step leaves behind when it succeeds.
StateWhenDone(s) == IF s = Finalize THEN "completed" ELSE StepState[s]

\* The state machine at each point of the one call of a runner.
StateInCall ==
  /\ pc \in {"replay", "begin"} => machine \notin TerminalStates
  /\ pc = "replay" => resumeIndex < Finalize
  /\ pc \in {"attempt", "uploading", "handle"} =>
       \/ machine = StepState[step]
       \/ step = Finalize /\ failedSaves > 0 /\ machine = "completed"
  /\ pc = "save" => machine = StateWhenDone(step)
  /\ pc = "complete" => machine \notin {"failed", "cancelled"}

OneCall ==
  /\ runs = 0 => pc = "idle" /\ machine = "created" /\ context = "none"
  /\ pc # "idle" => result = "none"
  /\ pc # "idle" /\ mode = "dry_run" => dry
  /\ checkpoint.step > 0 => checkpoint.state = StateWhenDone(checkpoint.step)
  /\ StateInCall
  /\ FailureIsResumable

LEMMA StepStatesAreOpen == \A s \in Step : StepState[s] \notin TerminalStates
  BY DEF Step, StepState, TerminalStates

\* A job that is not over moves to any state.
LEMMA OpenMoves ==
  ASSUME NEW current, NEW state, current \notin TerminalStates
  PROVE  MoveIfAllowed(current, state) = state
  BY DEF MoveIfAllowed, CanTransition

\* Finalize completes a job that is finalizing or completed already.
LEMMA FinalizeCompletes ==
  /\ Finalized("finalizing") = "completed"
  /\ Finalized("completed") = "completed"
  BY DEF Finalized, MoveIfAllowed, CanTransition, TerminalStates

LEMMA OneCallRunnerStep == IInv /\ OneCall /\ RunnerStep => OneCall'
<1> SUFFICES ASSUME IInv, OneCall, RunnerStep PROVE OneCall'
  OBVIOUS
<1> USE RunnerAssumption
    DEF OneCall, StateInCall, FailureIsResumable, StateWhenDone, Finalize,
        runnerVars, callVars, targetVars, historyVars
<1>0. /\ length \in 1..6 /\ step \in 1..7 /\ resumeIndex \in 0..6 /\ runs \in Nat
      /\ failedSaves \in Nat /\ checkpoint.step \in Nat
      /\ pc \in InLoop => step <= length
      /\ pc = "replay" => step <= resumeIndex /\ resumeIndex <= length
  BY CheckpointFields DEF IInv, TypeInv, TypeOK, WithinPipeline
<1>a. pc \in InLoop => step \in Step /\ StepState[step] \notin TerminalStates
  BY <1>0, StepStatesAreOpen DEF Step
<1>1. CASE ReplayStep
  <2>1. step \in Step /\ step # Finalize
    BY <1>0, <1>1 DEF ReplayStep, Replay, Step
  <2>2. machine' = StepState[step]
    BY <1>1, <2>1, OpenMoves DEF ReplayStep, Replay, StateAfter
  <2>3. machine' \notin TerminalStates
    BY <2>1, <2>2, StepStatesAreOpen
  <2> QED
    BY <1>0, <1>1, <2>3 DEF ReplayStep, Replay, Continue, TerminalStates
<1>2. CASE ReplayRaises
  BY <1>2 DEF ReplayRaises, Leave
<1>3. CASE BeginStep
  <2>1. machine' = StepState[step]
    BY <1>3, OpenMoves DEF BeginStep
  <2> QED
    BY <1>3, <2>1 DEF BeginStep
<1>4. CASE ExecuteStep \/ FinishUpload
  <2>1. machine' = StateWhenDone(step)
    <3>1. machine' = StateAfter(step, machine) /\ pc \in {"attempt", "uploading"}
      BY <1>4 DEF ExecuteStep, FinishUpload, StepSucceeded
    <3>2. CASE step = 6
      BY <3>1, <3>2, FinalizeCompletes DEF StateAfter, StepState
    <3>3. CASE step # 6
      BY <3>1, <3>3 DEF StateAfter
    <3> QED
      BY <3>2, <3>3
  <2> QED
    BY <1>4, <2>1 DEF ExecuteStep, FinishUpload, StepSucceeded
<1>5. CASE StartUpload \/ \E d \in Docs : UploadDocument(d)
  BY <1>5 DEF StartUpload, UploadDocument
<1>6. CASE StepRaises
  BY <1>6 DEF StepRaises, Raise
<1>7. CASE SaveRaises
  BY <1>0, <1>7 DEF SaveRaises, Raise
<1>8. CASE SaveCheckpoint
  <2>1. /\ checkpoint'.step = step /\ checkpoint'.state = StateWhenDone(step)
        /\ machine' = machine /\ runs' = runs /\ mode' = mode /\ dry' = dry
    BY <1>8 DEF SaveCheckpoint, Snapshot
  <2>2. /\ pc' = "begin" => machine' \notin TerminalStates
        /\ machine' \notin {"failed", "cancelled"}
    BY <1>0, <1>a, <1>8, <2>1 DEF SaveCheckpoint, Continue, InLoop, TerminalStates
  <2> QED
    BY <1>8, <2>1, <2>2 DEF SaveCheckpoint, Continue
<1>9. CASE RetryStep
  BY <1>9 DEF RetryStep
<1>10. CASE RetryRecordRaises
  BY <1>10 DEF RetryRecordRaises, Leave
<1>11. CASE FailRun
  <2>1. /\ pc = "handle" /\ pc' = "idle" /\ step' = step /\ checkpoint' = checkpoint
        /\ runs' = runs /\ runs # 0
    BY <1>11 DEF FailRun, Leave
  <2>2. step > 1 => step = checkpoint.step + 1
    BY <1>0, <2>1 DEF IInv, Progress, ContinuesCheckpoint, InLoop
  <2>3. step > 1 => /\ checkpoint.step = step - 1
                    /\ checkpoint.state = StepState[step - 1]
    BY <1>0, <2>1, <2>2 DEF InLoop
  <2> QED
    BY <2>1, <2>3
<1>12. CASE CompleteRun
  BY <1>12 DEF CompleteRun, Leave
<1> QED
  BY <1>1, <1>2, <1>3, <1>4, <1>5, <1>6, <1>7, <1>8, <1>9, <1>10, <1>11, <1>12
  DEF RunnerStep

LEMMA OneCallNext ==
  MaxRunsPerRunner = 1 /\ IInv /\ OneCall /\ [Next]_vars => OneCall'
<1> SUFFICES ASSUME MaxRunsPerRunner = 1, IInv, OneCall, [Next]_vars PROVE OneCall'
  OBVIOUS
<1> USE DEF OneCall, StateInCall, FailureIsResumable, runnerVars, targetVars
<1>0. runs \in Nat
  BY DEF IInv, TypeInv, TypeOK
<1>1. CASE Restart
  BY <1>1 DEF Restart, BuildRunner
<1>2. ASSUME NEW m \in RunModes, StartRun(m) PROVE OneCall'
  <2>1. runs = 0 /\ runs' = 1
    BY <1>0, <1>2 DEF StartRun
  <2>2. machine' = "initializing" /\ (m = "dry_run" => dry')
    BY <1>2, <2>1 DEF StartRun, InitialRuntime, DryRun
  <2>3. /\ pc' = "begin" /\ result' = "none" /\ mode' = m
        /\ checkpoint' = checkpoint
    BY <1>2 DEF StartRun
  <2> QED
    BY <2>1, <2>2, <2>3 DEF TerminalStates
<1>3. CASE StartResume
  <2>1. checkpoint \in CheckpointType /\ checkpoint.step \in Step
    BY <1>3 DEF StartResume, Resumable, IInv, TypeInv, TypeOK, CheckpointType
  <2>2. checkpoint.state = StateWhenDone(checkpoint.step) /\ checkpoint.state # "completed"
    BY <1>3, <2>1 DEF StartResume, Resumable, Step
  <2>3. checkpoint.step < Finalize /\ checkpoint.state \notin TerminalStates
    BY <2>1, <2>2, StepStatesAreOpen DEF StateWhenDone, Step, Finalize
  <2> QED
    BY <1>0, <1>3, <2>3 DEF StartResume, ResumeIndex
<1>4. CASE RunnerStep
  BY <1>4, OneCallRunnerStep
<1>5. CASE UNCHANGED vars
  BY <1>5 DEF vars
<1> QED
  BY <1>1, <1>2, <1>3, <1>4, <1>5 DEF Next

LEMMA OneCallInvariance == MaxRunsPerRunner = 1 /\ Spec => []OneCall
<1> SUFFICES ASSUME MaxRunsPerRunner = 1 PROVE Spec => []OneCall
  OBVIOUS
<1>1. Init => OneCall
  BY DEF Init, OneCall, StateInCall, FailureIsResumable, NoCheckpoint
<1>2. IInv /\ OneCall /\ [Next]_vars => OneCall'
  BY OneCallNext
<1> QED
  BY Invariance, <1>1, <1>2, PTL DEF Spec

\* When every runner is used for one call, a run that fails leaves the checkpoint
\* of exactly the step before, in that step's state, whichever run saved it.
THEOREM FailuresAreResumable == MaxRunsPerRunner = 1 /\ Spec => []FailureIsResumable
<1>1. OneCall => FailureIsResumable
  BY DEF OneCall
<1> QED
  BY OneCallInvariance, <1>1, PTL

\* A checkpoint in state completed is that of Finalize, so a resume that is
\* refused because the job is over is refused a job whose Finalize was executed.
THEOREM CompletionsAreFinal == MaxRunsPerRunner = 1 /\ Spec => []CompletedMeansFinalized
<1>1. IInv /\ OneCall => CompletedMeansFinalized
  <2> SUFFICES ASSUME IInv, OneCall, checkpoint.state = "completed"
               PROVE  checkpoint.step = Finalize
    BY DEF CompletedMeansFinalized
  <2>1. checkpoint \in CheckpointType /\ checkpoint.step \in Step
    BY DEF IInv, TypeInv, TypeOK, CheckpointType, NoCheckpoint
  <2>2. checkpoint.state = StateWhenDone(checkpoint.step)
    BY <2>1 DEF OneCall, Step
  <2>3. StepState[checkpoint.step] # "completed"
    BY <2>1, StepStatesAreOpen DEF TerminalStates
  <2> QED
    BY <2>2, <2>3 DEF StateWhenDone
<1> QED
  BY Invariance, OneCallInvariance, <1>1, PTL

\* The machine is in the state of the step that is attempted, whatever was retried
\* or replayed before.
THEOREM StatesTrackSteps == MaxRunsPerRunner = 1 /\ Spec => []MachineTracksStep
<1>1. OneCall => MachineTracksStep
  BY DEF OneCall, StateInCall, MachineTracksStep
<1> QED
  BY OneCallInvariance, <1>1, PTL

\* The dry-run use case leaves the target alone when its runner is a new one.
THEOREM DryRunsLeaveTarget == MaxRunsPerRunner = 1 /\ Spec => DryRunLeavesTarget
<1>1. IInv /\ OneCall /\ [Next]_vars => [mode = "dry_run" => stored' = stored]_vars
  <2> SUFFICES ASSUME IInv, OneCall, [Next]_vars, mode = "dry_run"
               PROVE  stored' = stored
    OBVIOUS
  <2>1. ~ \E d \in Docs : UploadDocument(d)
    BY DEF OneCall, IInv, Progress, UploadedSoFar, UploadDocument
  <2> QED
    BY <2>1, SharedChanges DEF SaveCheckpoint, targetVars
<1> QED
  BY Invariance, OneCallInvariance, <1>1, PTL DEF Spec, DryRunLeavesTarget

\* A resume that the use case has accepted is never on its way to a completion the
\* state machine would refuse, as long as the checkpoint was not saved by a runner
\* that had failed before: what runners used once save is resumable to the end.
THEOREM AcceptedResumesComplete ==
  MaxRunsPerRunner = 1 /\ Spec => []AcceptedResumeCanComplete
<1>1. IInv /\ OneCall => AcceptedResumeCanComplete
  <2> SUFFICES ASSUME IInv, OneCall, pc \notin {"idle", "handle"}
               PROVE  machine \notin {"failed", "cancelled"}
    BY DEF AcceptedResumeCanComplete, CanTransition, TerminalStates
  <2>1. pc \in {"attempt", "uploading", "save"} => StepState[step] \notin TerminalStates
    BY StepStatesAreOpen, RunnerAssumption
    DEF IInv, TypeInv, TypeOK, WithinPipeline, InLoop, Step
  <2> QED
    BY <2>1
    DEF IInv, TypeInv, TypeOK, OneCall, StateInCall, StateWhenDone, TerminalStates
<1> QED
  BY Invariance, OneCallInvariance, <1>1, PTL

-----------------------------------------------------------------------------
(* What is left of a call.                                                 *)

\* The steps of the pipeline, the attempts of the step, the statements of the
\* attempt, the documents of its batch.
StepsLeft == IF pc = "idle" THEN 0 ELSE 8 - step

AttemptsLeft ==
  IF pc \in {"attempt", "uploading", "save", "handle"}
    THEN Policy.max_attempts - attempt ELSE Policy.max_attempts

StatementsLeft ==
  CASE pc = "attempt" -> 4
    [] pc = "uploading" -> 3
    [] pc = "save" -> 2
    [] pc = "handle" -> 1
    [] OTHER -> 0

Left == << StepsLeft, AttemptsLeft, StatementsLeft, Cardinality(pending) >>

\* Every statement of a call takes from what is left of it, whatever fails.
CallsAdvance == [][RunnerStep => <<Left', Left>> \in Falling(4)]_vars

LEMMA LeftType ==
  ASSUME IsFiniteSet(Docs), TypeOK
  PROVE  /\ StepsLeft \in Nat /\ AttemptsLeft \in Nat /\ StatementsLeft \in Nat
         /\ IsFiniteSet(pending) /\ Cardinality(pending) \in Nat
<1>1. StepsLeft \in Nat
  BY DEF TypeOK, StepsLeft
<1>2. AttemptsLeft \in Nat
  BY RunnerAssumption DEF TypeOK, AttemptsLeft, IsPolicy
<1>3. StatementsLeft \in Nat
  BY DEF StatementsLeft
<1>4. IsFiniteSet(pending) /\ Cardinality(pending) \in Nat
  BY FS_Subset, FS_CardinalityType DEF TypeOK
<1> QED
  BY <1>1, <1>2, <1>3, <1>4

LEMMA CloserToEnd ==
  ASSUME IsFiniteSet(Docs), TypeOK, TypeOK',
         \/ StepsLeft' < StepsLeft
         \/ StepsLeft' = StepsLeft /\ AttemptsLeft' < AttemptsLeft
         \/ /\ StepsLeft' = StepsLeft /\ AttemptsLeft' = AttemptsLeft
            /\ StatementsLeft' < StatementsLeft
         \/ /\ StepsLeft' = StepsLeft /\ AttemptsLeft' = AttemptsLeft
            /\ StatementsLeft' = StatementsLeft
            /\ Cardinality(pending') < Cardinality(pending)
  PROVE  <<Left', Left>> \in Falling(4)
<1>1. StepsLeft' \in Nat
  <2>1. step' \in 1..7
    BY DEF TypeOK
  <2>2. \A n \in 1..7 : 8 - n \in Nat
    OBVIOUS
  <2> QED
    BY <2>1, <2>2 DEF StepsLeft
<1>2. AttemptsLeft' \in Nat
  <2>1. attempt' \in 1..Policy.max_attempts
    BY DEF TypeOK
  <2> QED
    BY <2>1, RunnerAssumption DEF AttemptsLeft, IsPolicy
<1>3. StatementsLeft' \in Nat
  BY DEF StatementsLeft
<1>4. Cardinality(pending') \in Nat
  <2>1. pending' \subseteq Docs
    BY DEF TypeOK
  <2> QED
    BY <2>1, FS_Subset, FS_CardinalityType
<1>5. /\ StepsLeft \in Nat /\ AttemptsLeft \in Nat /\ StatementsLeft \in Nat
      /\ Cardinality(pending) \in Nat
  BY LeftType
<1> HIDE DEF StepsLeft, AttemptsLeft, StatementsLeft
<1>6. << <<StepsLeft', AttemptsLeft', StatementsLeft', Cardinality(pending')>>,
        <<StepsLeft, AttemptsLeft, StatementsLeft, Cardinality(pending)>> >> \in Falling(4)
  BY <1>1, <1>2, <1>3, <1>4, <1>5, FourFall
<1> QED
  BY <1>6 DEF Left

\* A call, once made, makes a bounded number of steps: no sequence of failures,
\* retries, failing saves and replayed steps keeps it busy forever.  (That it
\* makes the next one is the fairness of the specification.)
THEOREM CallsTakeFiniteSteps == IsFiniteSet(Docs) /\ Spec => CallsAdvance
<1> SUFFICES ASSUME IsFiniteSet(Docs) PROVE Spec => CallsAdvance
  OBVIOUS
<1>1. TypeInv /\ TypeInv' /\ [Next]_vars => [RunnerStep => <<Left', Left>> \in Falling(4)]_vars
  <2> SUFFICES ASSUME TypeInv, TypeInv', RunnerStep
               PROVE  <<Left', Left>> \in Falling(4)
    OBVIOUS
  <2> USE RunnerAssumption DEF StepsLeft, AttemptsLeft, StatementsLeft, InLoop
  <2>0. /\ length \in 1..6 /\ step \in 1..7 /\ Policy.max_attempts \in Nat \ {0}
        /\ attempt \in 1..Policy.max_attempts
        /\ pc \in InLoop => step <= length
        /\ pc = "replay" => step <= resumeIndex /\ resumeIndex <= length
        /\ pc = "complete" => step = length + 1
        /\ resumeIndex \in 0..6
    BY DEF TypeInv, TypeOK, WithinPipeline, IsPolicy
  <2>1. CASE ReplayStep \/ SaveCheckpoint
    <3>1. StepsLeft' < StepsLeft
      BY <2>0, <2>1 DEF ReplayStep, Replay, SaveCheckpoint, Continue
    <3> QED
      BY <3>1, CloserToEnd DEF TypeInv
  <2>2. CASE ReplayRaises \/ RetryRecordRaises \/ FailRun \/ CompleteRun
    <3>1. StepsLeft' < StepsLeft
      BY <2>0, <2>2 DEF ReplayRaises, RetryRecordRaises, FailRun, CompleteRun, Leave
    <3> QED
      BY <3>1, CloserToEnd DEF TypeInv
  <2>3. CASE BeginStep \/ RetryStep
    <3>1. StepsLeft' = StepsLeft /\ AttemptsLeft' < AttemptsLeft
      BY <2>0, <2>3 DEF BeginStep, RetryStep, callVars
    <3> QED
      BY <3>1, CloserToEnd DEF TypeInv
  <2>4. CASE ExecuteStep \/ FinishUpload \/ StartUpload \/ StepRaises \/ SaveRaises
    <3>1. /\ StepsLeft' = StepsLeft /\ AttemptsLeft' = AttemptsLeft
          /\ StatementsLeft' < StatementsLeft
      BY <2>0, <2>4
      DEF ExecuteStep, FinishUpload, StepSucceeded, StartUpload, StepRaises, SaveRaises, Raise
    <3> QED
      BY <3>1, CloserToEnd DEF TypeInv
  <2>5. ASSUME NEW d \in Docs, UploadDocument(d) PROVE <<Left', Left>> \in Falling(4)
    <3>1. /\ StepsLeft' = StepsLeft /\ AttemptsLeft' = AttemptsLeft
          /\ StatementsLeft' = StatementsLeft
      BY <2>5 DEF UploadDocument
    <3>2. d \in pending /\ pending' = pending \ {d}
      BY <2>5 DEF UploadDocument
    <3>3. Cardinality(pending') = Cardinality(pending) - 1
      BY <3>2, LeftType, FS_RemoveElement DEF TypeInv
    <3>4. Cardinality(pending') < Cardinality(pending)
      BY <3>3, LeftType DEF TypeInv
    <3> QED
      BY <3>1, <3>4, CloserToEnd DEF TypeInv
  <2> QED
    BY <2>1, <2>2, <2>3, <2>4, <2>5 DEF RunnerStep
<1> QED
  BY TypeInit, TypeNext, <1>1, PTL DEF Spec, CallsAdvance

=============================================================================
