--------------------------- MODULE PipelineRunner ---------------------------
(***************************************************************************)
(* PipelineRunner.run (migration_engine/runner/pipeline_runner.py) with    *)
(* the two use cases that drive it, ResumeMigrationUseCase and             *)
(* DryRunMigrationUseCase, the checkpoint repository it saves to and the   *)
(* target its Upload step writes to.                                       *)
(*                                                                         *)
(* One job.  At any time one runner object exists; Restart abandons it, in *)
(* the middle of a run (a crash) or between runs, and builds a new one     *)
(* over the same checkpoint repository and target.  The items of the job   *)
(* are the set Docs; what the Upload step does to one of them is one       *)
(* action, so a failure or a crash finds any part of the batch delivered   *)
(* (module ParallelUpload refines that action to the worker pool).         *)
(***************************************************************************)
EXTENDS Naturals, FiniteSets, MigrationStateMachine, RetryPolicy

CONSTANTS
  Docs,              \* unique transformed documents of the job
  Conflicting,       \* those whose key the target holds with other content
  Policy,            \* the runner's retry policy
  PipelineLengths,   \* how many of the six steps a runner may be built with
  DryConfigs,        \* dry_run flags a runner may be configured with
  RunModes,          \* the calls made: "run", "dry_run", "resume"
  SaveMayFail,       \* may the checkpoint or retry repository raise
  MaxRunners,        \* bound: runner objects built for the job
  MaxRunsPerRunner   \* bound: run() calls on one runner object

ASSUME RunnerAssumption ==
  /\ Conflicting \subseteq Docs
  /\ IsPolicy(Policy)
  /\ PipelineLengths \subseteq 1..6
  /\ PipelineLengths # {}
  /\ DryConfigs \subseteq BOOLEAN
  /\ RunModes \subseteq {"run", "dry_run", "resume"}
  /\ SaveMayFail \in BOOLEAN
  /\ MaxRunners \in Nat
  /\ MaxRunsPerRunner \in Nat

\* The canonical step order of the registry, and the state of each step.
Step     == 1..6
Upload   == 4
Finalize == 6

StepState == << "discovering", "extracting", "transforming", "uploading",
                "verifying", "finalizing" >>

NoCheckpoint == [step |-> 0, state |-> "created", dry |-> FALSE, throttled |-> 0]

Exceptions == { "throttled", "unavailable", "fatal" }
Retryable(e) == e # "fatal"

VARIABLES
  \* The runner object
  length,        \* number of registered steps
  dryConfig,     \* configuration.dry_run of initial_context
  machine,       \* state_machine.current_state
  context,       \* execution_context: "none", else its mode "real" | "dry"
  throttled,     \* metrics.throttled_uploads
  \* The run() call in progress
  pc,
  mode,          \* which call this is
  dry,           \* configuration.dry_run of the current context
  step,          \* the step being replayed or executed
  resumeIndex,   \* start_index of the loop
  attempt,       \* attempt_number
  exception,     \* the exception being handled
  pending,       \* documents this upload attempt has not reached yet
  reported,      \* successful_steps + failed_steps
  result,        \* how the last call ended: "success" when the run reached its
                 \* end (Finalize may still count failed items), "raised" when
                 \* an exception left run()
  \* Shared services
  checkpoint,    \* the job's entry in the checkpoint repository
  stored,        \* documents of this job the target holds
  \* History and bounds
  writes,        \* how often document_storage.add ran, per document
  failedSaves,   \* steps of the call whose checkpoint could not be saved
  runs, runners

runnerVars == << length, dryConfig >>
callVars   == << mode, dry, resumeIndex >>
targetVars == << stored, writes >>
historyVars == << failedSaves, runs, runners >>

vars == << length, dryConfig, machine, context, throttled, pc, mode, dry,
           step, resumeIndex, attempt, exception, pending, reported,
           result, checkpoint, stored, writes, failedSaves, runs, runners >>

-----------------------------------------------------------------------------
(* Shared pieces of the actions.                                           *)

\* Mutant: the bound of the loop is off by one.
ContinueUntilLast(next) == IF next >= length THEN "complete" ELSE "begin"

\* The runner leaves the loop after its last registered step.
Continue(next) == IF next > length THEN "complete" ELSE "begin"

\* _advance_state_machine of the Finalize step: a job already FAILED stays so.
Finalized(state) ==
  IF state = "failed" THEN "failed"
  ELSE MoveIfAllowed(MoveIfAllowed(state, "finalizing"), "completed")

\* Mutants: the machine completes with the verification, or with whatever step
\* happens to be registered last.
StateAfterVerification(s, state) == IF s >= Finalize - 1 THEN Finalized(state) ELSE state
StateAfterLastStep(s, state) == IF s = length THEN Finalized(state) ELSE state

\* The state the machine has when step s has executed.
StateAfter(s, state) == IF s = Finalize THEN Finalized(state) ELSE state

Leave(outcome) ==
  /\ pc' = "idle"
  /\ result' = outcome

\* The except branch of run() takes over.
Raise(e) ==
  /\ exception' = e
  /\ pc' = "handle"

\* _advance_context: the run's execution context replaces the runner's.
AdvanceContext == context' = IF dry THEN "dry" ELSE "real"

\* Counters, tracker and contexts are updated before the checkpoint is saved.
StepSucceeded ==
  /\ reported' = reported + 1
  /\ machine' = StateAfter(step, machine)
  /\ AdvanceContext
  /\ pc' = "save"

\* Mutant: the snapshot names the step before the one that completed.
SnapshotOfPreviousStep ==
  [step |-> step - 1, state |-> machine, dry |-> dry, throttled |-> 0]

\* _build_checkpoint_snapshot: throttled_uploads is not copied, the field keeps
\* its default.
Snapshot == [step |-> step, state |-> machine, dry |-> dry, throttled |-> 0]

-----------------------------------------------------------------------------
(* A new runner object, built by the host after a crash or between runs.   *)

BuildRunner(n, d) ==
  /\ length' = n
  /\ dryConfig' = d
  /\ machine' = "created"
  /\ context' = "none"
  /\ throttled' = 0
  /\ pc' = "idle"
  /\ mode' = "run"
  /\ dry' = d
  /\ step' = 1
  /\ resumeIndex' = 0
  /\ attempt' = 1
  /\ exception' = "none"
  /\ pending' = {}
  /\ reported' = 0
  /\ result' = "none"
  /\ failedSaves' = 0
  /\ runs' = 0

Init ==
  /\ length \in PipelineLengths
  /\ dryConfig \in DryConfigs
  /\ machine = "created"
  /\ context = "none"
  /\ throttled = 0
  /\ pc = "idle"
  /\ mode = "run"
  /\ dry = dryConfig
  /\ step = 1
  /\ resumeIndex = 0
  /\ attempt = 1
  /\ exception = "none"
  /\ pending = {}
  /\ reported = 0
  /\ result = "none"
  /\ checkpoint = NoCheckpoint
  /\ stored = {}
  /\ writes = [d \in Docs |-> 0]
  /\ failedSaves = 0
  /\ runs = 0
  /\ runners = 1

Restart ==
  /\ runners < MaxRunners
  /\ pc # "idle" \/ runs > 0
  /\ \E n \in PipelineLengths, d \in DryConfigs : BuildRunner(n, d)
  /\ runners' = runners + 1
  /\ UNCHANGED << checkpoint, targetVars >>

-----------------------------------------------------------------------------
(* run() without a checkpoint.  initialize() keeps an execution context    *)
(* that exists, with the configuration it was built with.  The dry-run use *)
(* case only replaces initial_context for the duration of the call.        *)

\* Mutant: the use case does not switch the configuration.
ConfiguredDryRun(m) == dryConfig

DryRun(m) == m = "dry_run" \/ dryConfig

\* _build_initial_runtime.
InitialRuntime(m) ==
  /\ machine' = "initializing"
  /\ dry' = DryRun(m)
  /\ context' = IF DryRun(m) THEN "dry" ELSE "real"

StartRun(m) ==
  /\ m \in RunModes \ {"resume"}
  /\ pc = "idle"
  /\ runs < MaxRunsPerRunner
  /\ IF context = "none"
       THEN InitialRuntime(m)
       ELSE /\ dry' = (context = "dry")
            /\ UNCHANGED << machine, context >>
  /\ mode' = m
  /\ step' = 1
  /\ resumeIndex' = 0
  /\ attempt' = 1
  /\ exception' = "none"
  /\ pending' = {}
  /\ reported' = 0
  /\ result' = "none"
  /\ failedSaves' = 0
  /\ pc' = "begin"
  /\ runs' = runs + 1
  /\ UNCHANGED << runnerVars, throttled, checkpoint, targetVars, runners >>

\* _validate_state and _resolve_resume_index.
Resumable ==
  /\ checkpoint # NoCheckpoint
  /\ checkpoint.state \notin {"completed", "cancelled"}
  /\ checkpoint.step <= length

\* Mutant: the first step that is not done is replayed instead of executed.
ResumeIndexTooFar == IF checkpoint.step < length THEN checkpoint.step + 1 ELSE length

ResumeIndex == checkpoint.step

\* Mutant: the resumed run forgets that the checkpoint is of a dry run.
ConfiguredResumeDryRun == dryConfig

\* _resolve_resume_configuration.
ResumeDryRun == checkpoint.dry \/ dryConfig

StartResume ==
  /\ "resume" \in RunModes
  /\ pc = "idle"
  /\ runs < MaxRunsPerRunner
  /\ Resumable
  /\ machine' = checkpoint.state
  /\ dry' = ResumeDryRun
  /\ mode' = "resume"
  /\ step' = 1
  /\ resumeIndex' = ResumeIndex
  /\ attempt' = 1
  /\ exception' = "none"
  /\ pending' = {}
  /\ reported' = 0
  /\ result' = "none"
  /\ failedSaves' = 0
  /\ pc' = "replay"
  /\ runs' = runs + 1
  /\ UNCHANGED << runnerVars, context, throttled, checkpoint, targetVars,
                  runners >>

\* _build_checkpoint_metrics: the counters go on from the checkpoint's.
RestoredThrottling == checkpoint.throttled

\* Steps before the resume index run again, the Upload step as
\* reconstruct_upload, which only reads the target.  No attempt counting, no
\* checkpoint, no error handling.  The first replayed step publishes the metrics
\* and the context restored from the checkpoint.
Replay ==
  /\ pc = "replay"
  /\ machine' = StateAfter(step, MoveIfAllowed(machine, StepState[step]))
  /\ reported' = reported + 1
  /\ AdvanceContext
  /\ throttled' = IF step = 1 THEN RestoredThrottling ELSE throttled
  /\ step' = step + 1
  /\ pc' = IF step < resumeIndex THEN "replay" ELSE Continue(step + 1)
  /\ UNCHANGED << runnerVars, callVars, attempt, exception, pending, result,
                  targetVars, historyVars >>

\* Mutant: a replayed step saves its checkpoint like an executed one.
ReplayStepThatSaves == Replay /\ checkpoint' = Snapshot

ReplayStep == Replay /\ UNCHANGED checkpoint

\* An exception of a replayed step leaves run() unhandled.
ReplayRaises ==
  /\ pc = "replay"
  /\ machine' = MoveIfAllowed(machine, StepState[step])
  /\ Leave("raised")
  /\ UNCHANGED << runnerVars, callVars, context, throttled, step,
                  attempt, exception, pending, reported, checkpoint,
                  targetVars, historyVars >>

-----------------------------------------------------------------------------
(* The loop over the steps.                                                *)

BeginStep ==
  /\ pc = "begin"
  /\ machine' = MoveIfAllowed(machine, StepState[step])
  /\ attempt' = 1
  /\ pc' = "attempt"
  /\ UNCHANGED << runnerVars, callVars, context, throttled, step,
                  exception, pending, reported, result, checkpoint,
                  targetVars, historyVars >>

\* Every step but a real upload changes nothing outside the runner.
ExecuteStep ==
  /\ pc = "attempt"
  /\ step = Upload => dry
  /\ StepSucceeded
  /\ UNCHANGED << runnerVars, callVars, throttled, step, attempt,
                  exception, pending, result, checkpoint, targetVars, historyVars >>

StartUpload ==
  /\ pc = "attempt"
  /\ step = Upload /\ ~dry
  /\ pending' = Docs
  /\ pc' = "uploading"
  /\ UNCHANGED << runnerVars, callVars, machine, context, throttled,
                  step, attempt, exception, reported, result, checkpoint,
                  targetVars, historyVars >>

\* Mutant: only conflicts are looked for.
InConflict(d) == d \in Conflicting

\* The target holds the document's key: with other content the upload is a
\* conflict, an item failure, with the same content an idempotent replay.
KeyKnown(d) == d \in Conflicting \cup stored

\* upload_archived_file.
UploadDocument(d) ==
  /\ pc = "uploading"
  /\ d \in pending
  /\ pending' = pending \ {d}
  /\ IF KeyKnown(d)
       THEN UNCHANGED targetVars
       ELSE /\ stored' = stored \cup {d}
            /\ writes' = [writes EXCEPT ![d] = @ + 1]
  /\ UNCHANGED << runnerVars, callVars, machine, context, throttled,
                  pc, step, attempt, exception, reported, result, checkpoint,
                  historyVars >>

\* Mutant: the step does not wait for the rest of the batch.
SomeAnswered == pending # Docs

AllAnswered == pending = {}

FinishUpload ==
  /\ pc = "uploading"
  /\ AllAnswered
  /\ StepSucceeded
  /\ UNCHANGED << runnerVars, callVars, throttled, step, attempt,
                  exception, pending, result, checkpoint, targetVars, historyVars >>

\* A step raises; an upload may raise after any part of the batch, also when
\* only the response of a stored document was lost.
StepRaises ==
  /\ pc \in {"attempt", "uploading"}
  /\ \E e \in Exceptions : Raise(e)
  /\ pending' = {}
  /\ UNCHANGED << runnerVars, callVars, machine, context, throttled,
                  step, attempt, reported, result, checkpoint, targetVars,
                  historyVars >>

SaveCheckpoint ==
  /\ pc = "save"
  /\ checkpoint' = Snapshot
  /\ step' = step + 1
  /\ pc' = Continue(step + 1)
  /\ UNCHANGED << runnerVars, callVars, machine, context, throttled,
                  attempt, exception, pending, reported, result, targetVars,
                  historyVars >>

SaveRaises ==
  /\ SaveMayFail
  /\ pc = "save"
  /\ \E e \in {"unavailable", "fatal"} : Raise(e)
  /\ failedSaves' = failedSaves + 1
  /\ UNCHANGED << runnerVars, callVars, machine, context, throttled,
                  step, attempt, pending, reported, result, checkpoint,
                  targetVars, runs, runners >>

-----------------------------------------------------------------------------
(* The except branch.                                                      *)

RetryAllowed == ShouldRetry(Policy, attempt, Retryable(exception))

\* _build_retry_metrics.
ThrottlingCounted == IF exception = "throttled" THEN throttled + 1 ELSE throttled

\* The retry record is saved, the counters grow, the step runs again.
RetryStep ==
  /\ pc = "handle"
  /\ RetryAllowed
  /\ throttled' = ThrottlingCounted
  /\ attempt' = attempt + 1
  /\ exception' = "none"
  /\ pc' = "attempt"
  /\ UNCHANGED << runnerVars, callVars, machine, context, step, pending,
                  reported, result, checkpoint, targetVars, historyVars >>

\* retry_repository.save raises inside the handler and leaves run().
RetryRecordRaises ==
  /\ SaveMayFail
  /\ pc = "handle"
  /\ RetryAllowed
  /\ Leave("raised")
  /\ UNCHANGED << runnerVars, callVars, machine, context, throttled,
                  step, attempt, exception, pending, reported, checkpoint,
                  targetVars, historyVars >>

\* Mutant: only exhausted retries end the run, a fatal first failure does not.
RetriesExhausted == attempt >= Policy.max_attempts

GiveUp == ~RetryAllowed

\* The job fails: transition_to(FAILED) raises when the machine is COMPLETED.
FailRun ==
  /\ pc = "handle"
  /\ GiveUp
  /\ IF CanTransition(machine, "failed")
       THEN /\ machine' = "failed"
            /\ AdvanceContext
            /\ Leave("failure")
       ELSE /\ Leave("raised")
            /\ UNCHANGED << machine, context >>
  /\ UNCHANGED << runnerVars, callVars, throttled, step, attempt,
                  exception, pending, reported, checkpoint, targetVars, historyVars >>

\* After the loop: transition_to(COMPLETED) raises when the machine is FAILED.
CompleteRun ==
  /\ pc = "complete"
  /\ IF CanTransition(machine, "completed")
       THEN machine' = "completed" /\ Leave("success")
       ELSE UNCHANGED machine /\ Leave("raised")
  /\ UNCHANGED << runnerVars, callVars, context, throttled, step,
                  attempt, exception, pending, reported, checkpoint,
                  targetVars, historyVars >>

-----------------------------------------------------------------------------

RunnerStep ==
  \/ ReplayStep \/ ReplayRaises
  \/ BeginStep \/ ExecuteStep \/ StartUpload
  \/ \E d \in Docs : UploadDocument(d)
  \/ FinishUpload \/ StepRaises
  \/ SaveCheckpoint \/ SaveRaises
  \/ RetryStep \/ RetryRecordRaises \/ FailRun \/ CompleteRun

Next ==
  \/ Restart
  \/ \E m \in RunModes : StartRun(m)
  \/ StartResume
  \/ RunnerStep

\* A call that was entered executes its next statement: the runner is a single
\* thread that never waits for anybody.
Fairness == WF_vars(RunnerStep)

Spec == Init /\ [][Next]_vars /\ Fairness

-----------------------------------------------------------------------------
(* Properties.                                                             *)

Deliverable == Docs \ Conflicting

CheckpointType ==
  [step : Step, state : MigrationState, dry : BOOLEAN, throttled : Nat]

\* Every variable holds a value of its kind.
TypeOK ==
  /\ length \in PipelineLengths
  /\ dryConfig \in BOOLEAN
  /\ machine \in MigrationState
  /\ context \in {"none", "real", "dry"}
  /\ throttled \in Nat
  /\ pc \in {"idle", "replay", "begin", "attempt", "uploading", "save",
             "handle", "complete"}
  /\ mode \in {"run", "dry_run", "resume"}
  /\ dry \in BOOLEAN
  /\ step \in 1..7
  /\ resumeIndex \in 0..6
  /\ attempt \in 1..Policy.max_attempts
  /\ exception \in Exceptions \cup {"none"}
  /\ pending \subseteq Docs
  /\ reported \in Nat
  /\ result \in {"none", "success", "failure", "raised"}
  /\ checkpoint \in CheckpointType \cup {NoCheckpoint}
  /\ stored \subseteq Docs
  /\ writes \in [Docs -> Nat]
  /\ failedSaves \in Nat
  /\ runs \in Nat
  /\ runners \in Nat

\* No retry, re-run, crash or resume adds a document to the target twice, and a
\* document whose key holds other content is never written.
DeliveredAtMostOnce ==
  \A d \in Docs : writes[d] <= IF d \in Conflicting THEN 0 ELSE 1

\* A checkpoint of a real run that claims the Upload step only exists when every
\* deliverable document is in the target: a resume will not upload again, it
\* reconstructs the step from the target.
CheckpointSound ==
  (checkpoint.step >= Upload /\ ~checkpoint.dry) => Deliverable \subseteq stored

\* A call that returns success has delivered the batch, by itself or through the
\* runs it resumed, unless it was a dry run or a pipeline without Upload.
SuccessIsEarned ==
  (result = "success" /\ ~dry /\ length >= Upload) => Deliverable \subseteq stored

\* A run that fails after its first step leaves the checkpoint of exactly the
\* step before, in that step's own state, so that the job can be resumed there.
FailureIsResumable ==
  (result = "failure" /\ step > 1) =>
    /\ checkpoint.step = step - 1
    /\ checkpoint.state = StepState[step - 1]

\* A checkpoint that refuses to be resumed as completed has seen Finalize.
CompletedMeansFinalized ==
  checkpoint.state = "completed" => checkpoint.step = Finalize

\* Every step of a successful call is counted in the report once for each time it
\* took effect: whatever was replayed or retried, a step is counted again only
\* when its checkpoint could not be saved and it was executed a second time.
ExecutionsReported == result = "success" => reported = length + failedSaves

\* The lifecycle state is that of the step being attempted, so that hooks,
\* progress and the checkpoint see the stage the job is really in.  Only Finalize,
\* when its own checkpoint could not be saved, is attempted by a completed job.
MachineTracksStep ==
  pc \in {"attempt", "uploading"} =>
    \/ machine = StepState[step]
    \/ step = Finalize /\ failedSaves > 0 /\ machine = "completed"

\* "Ensure the checkpoint state can safely resume execution"
\* (resume_migration.py): a resume the use case accepts is able to complete.
AcceptedResumeCanComplete ==
  (mode = "resume" /\ pc \notin {"idle", "handle"}) =>
    CanTransition(machine, "completed")

\* A resumed run never moves the job's checkpoint back.
ResumeNeverRegresses ==
  [][mode = "resume" => checkpoint'.step >= checkpoint.step]_vars

\* "simulating a migration run without mutating the target system" (dry_run.py).
DryRunLeavesTarget == [][mode = "dry_run" => stored' = stored]_vars

\* "The throttled_uploads ... counters persist the upload orchestration state"
\* (checkpoint_snapshot.py): a saved checkpoint carries the runner's counter.
CheckpointKeepsThrottling ==
  [][checkpoint' # checkpoint => checkpoint'.throttled = throttled]_vars

\* Every call ends: the attempt loop is bounded by the policy.
RunTerminates == pc # "idle" ~> pc = "idle"

\* The contract of the job as its operators see it, module MigrationJob.
Job == INSTANCE MigrationJob WITH
         delivered <- stored,
         recorded  <- [step |-> checkpoint.step, dry |-> checkpoint.dry]

KeepsJobContract == Job!Spec

=============================================================================
