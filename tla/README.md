# Verification of the vault migration engine

This directory holds a TLA+ model of the migration engine, the TLC
configurations that check it on small instances, and proofs, checked by TLAPS,
of the properties that matter most. It is kept beside the code: every definition
that stands for code names its place in `PROJECT.json` ("map"), and the comments
in the modules name the functions they translate.

Paths below are relative to `src/src/`.

## 1. The system

The program migrates the items of Enterprise Vault archives to a target called
storionX (both ends are in-memory mocks). One job runs through six steps in a
fixed order - Discover, Extract, Transform, Upload, Verify, Finalize - driven by
a single-threaded runner that retries steps, saves a checkpoint after each and
can be rebuilt to resume the job. Only the Upload step is concurrent: it gives
the documents to a thread pool whose workers share the target.

| Component | Where | State it keeps | Operations |
|---|---|---|---|
| Pipeline runner | `migration_engine/runner/pipeline_runner.py` | execution context, metrics, state machine, the loop's position | `initialize`, `run`, retry, fail, complete, replay of a checkpoint |
| State machine | `migration_engine/state_machine.py` | lifecycle state | `can_transition`, `transition_to` |
| Step registry | `migration_engine/runner/step_registry.py` | registered steps | `register`, `resolve`, `index_of`, `clear` |
| Retry policy | `migration_engine/retry/` | none | `decide`, the delays |
| Retry and checkpoint repositories | `adapters/database/`, `application/services/` | retry records, one checkpoint per job | `save`, `load`, `delete`, `list_for_job` |
| Resume and dry-run use cases | `application/use_cases/` | none | validate a checkpoint and resume; run with a dry configuration |
| Discover, Extract, Transform, Verify, Finalize | `migration_engine/steps/` | results in the step context | `discover`, `extract`, `transform`, `verify`, `finalize_migration`; `rollback` does nothing |
| SIS rehydrator | `migration_engine/rehydration/sis_rehydrator.py` | cache of content parts | `rehydrate` |
| Upload step | `migration_engine/steps/upload_items_step.py` | results of its workers | upload, simulate, reconstruct from the target |
| Target adapter, upload session, storage | `adapters/target/`, `mock_storionx/` | stored documents, the adapter's mirror of what it was sent, the session | `upload_archived_file`, `get_uploaded_document`, `finalize_job` |
| Upload rate limiter | `mock_storionx/services/upload_rate_limiter.py` | next free time | `acquire_delay_seconds` |
| Reporting | `migration_engine/reporting/` | none | final status, error breakdown, summary, exports |

How they interact: the use cases call the runner; the runner calls the steps, the
policy, the sleeper and the two repositories; Transform calls the rehydrator;
Upload, Verify and a resumed run call the target adapter; the adapter calls the
limiter, the failure injector, the storage and the session. Everything in the
adapter after the limiter is under one lock; the limiter has a lock of its own
but reads the clock outside it. The two meet in the retry loop: a rejection by the
limiter is an exception of one worker, which the pool, the step, the policy and
the sleeper turn into a later attempt of the whole batch.

What is hard about it, and what makes it correct:

- **Runner.** Any step may raise, so may a checkpoint save, and the retry
  repository raises inside the error handler; the process may stop between any
  two statements. A checkpoint must never claim more than what was done, success
  must be earned, retries and resumes must not deliver twice, every call must end.
- **Upload step and target.** Workers interleave at the lock; an exception leaves
  the pool while other workers are still writing. The target must be an atomic
  store that writes a key once, and no worker may outlive the step, because the
  step is retried as a whole.
- **Limiter and retry loop.** Decisions rest on old clock readings; several workers
  are rejected in one attempt and only one of their exceptions arrives; the delay
  of the target and the delay of the policy compete. The rate must be kept, a retry
  must not come before the time the target asked for, and the run must end.
- **Items.** What is extracted, refused, uploaded, conflicting or missing is
  counted by five steps and added up by the last; a resumed run replays steps and
  rebuilds Upload from what the target holds. A report that says "reconciled" or
  "completed" must be true of the target, and no item may get lost silently.

The full list of hazards, each at its line and with the properties that cover
it, is in `PROJECT.json`.

## 2. Modules

| Module | extends | implements | proofs |
|---|---|---|---|
| `PipelineRunner` | `MigrationStateMachine`, `RetryPolicy` | `MigrationJob` | `PipelineRunner_proofs` |
| `ParallelUpload` | `StorionXTarget` | `IdempotentStore` | `ParallelUpload_proofs` |
| `ItemPipeline` | `StorionXTarget`, `SisRehydrator` | `IdempotentStore` | `ItemPipeline_proofs`, `ItemReplay_proofs` |
| `LimiterClients` | `UploadRateLimiter` | | `LimiterClients_proofs` |
| `ThrottledUpload` | `UploadRateLimiter`, `RetryPolicy` | | `ThrottledUpload_proofs` |

The modules of the first column are state machines; those they extend hold the
state and the operators of one component each. Each has an `MC*` module that gives
its constants values for TLC. `SisRehydrator_proofs` and `Positions` hold lemmas
that several proofs use. Definitions marked "Mutant" are plausible mistakes;
nothing uses them, they serve to show that each property can fail.

- **`MigrationStateMachine`**, **`RetryPolicy`**: the pure parts. The transition
  rule of `can_transition`, `MoveIfAllowed` for the runner's guarded call of it;
  the validation of a policy, the decision to retry, the delays.
- **`PipelineRunner`**: one job seen from the runner. One runner object exists at
  a time; `Restart` abandons it wherever it is (a crash, or simply the end of the
  host's use) and builds another over the same repository and target. `StartRun`
  and `StartResume` are the calls, with the two use cases in front; `ReplayStep`
  and `ReplayRaises` are the replay of a checkpoint; `BeginStep`, `ExecuteStep`,
  `StartUpload`, `UploadDocument`, `FinishUpload`, `StepRaises`, `SaveCheckpoint`,
  `SaveRaises` the loop; `RetryStep`, `RetryRecordRaises`, `FailRun` the `except`
  branch; `CompleteRun` what follows the loop. The save of a checkpoint is apart
  from the step it follows, so crashes and failures fall between them.
- **`MigrationJob`**: what the job promises to whoever sees only target and
  checkpoint. `PipelineRunner` implements it (`KeepsJobContract`).
- **`StorionXTarget`**: adapter, session and storage as operators on four
  variables: `storage` (document storage), `mirror` (the adapter's
  `_uploaded_documents`), `session`, and `lock` (the worker inside, 0 for none).
- **`ParallelUpload`**: `UploadItemsStep._run_upload` with its thread pool. The
  calling thread collects results in document order; each worker goes through
  `upload_archived_file` in the steps other threads can see: entry, lock, look-up,
  session, storage, mirror and session entry. An exception stops the collection,
  cancels what has not started and waits for what has.
- **`IdempotentStore`**: what the target promises its clients, each request in one
  step; a client may also ask for the keys of some of its requests (`Find`).
  `ParallelUpload` implements it within one batch and between its threads
  (`IsIdempotentStore`), `ItemPipeline` over the runs and resumes of a job
  (`UploadsAreIdempotent`): there a replayed Upload step is one `Find`, although it
  reads the adapter's mirror.
- **`UploadRateLimiter`**: the limiter's state and a call of
  `acquire_delay_seconds` in two parts: `ReadClock`, outside the lock, and `Admit`
  or `Reject`, the two outcomes of the critical section.
- **`LimiterClients`**: any number of threads that call it whenever they like.
- **`ThrottledUpload`**: one run's Upload step in front of the limiter, in time.
  The loop (`upload_worker_count` 1) or the pool takes up documents in order
  (`CallTarget`); each call is admitted, rejected, or raised by the failure
  injector (`UploadAdmitted`, `UploadRejected`). `UploadRaises` is the first
  failed document in order leaving the pool, `LeavePool` the wait for workers
  that still call; then `RetryStep` saves a record, merges the counters and sets
  the sleeper, `Wake` ends the sleep and executes the whole step again. `Pause`
  lets time pass in an attempt. A step before and one after the upload go through
  the same loop, because the counters have to survive them.
- **`SisRehydrator`**: the part cache, the validation and the comparison with what
  is cached; a recursive computation in the code, here the parts an item resolves
  before the first it cannot.
- **`ItemPipeline`**: what the six steps do to the items. An item is its position
  in the source and has an identifier, a content, an archive, a folder, the date it
  was sent and shared parts. A configuration has the four filters of the code:
  archives, folders, start and end date (which may be `None`); a checkpoint carries
  them. A version of a document is a content and the archive it is labelled with:
  the Transform step takes that archive from the first item of the same message
  identifier in the whole source (`FirstCopy`), in scope or not. `Begin`/`StartRun`/
  `StartResume` start a run, one action or two per step follow, `RetryStep` calls a
  step again, `Stop` ends the run anywhere. A version is stored as
  `StoredOf[version]` and compared by the verification as `SignatureOf[version]`,
  since `_map_document` and `_document_signature` look at different fields; its
  `Checksum` is its identifier.

Abstractions to know when reading results:

- `PipelineRunner` knows of items only whether they are delivered; its exceptions
  are three classes (429, 503, anything else). `rollback` of every step does
  nothing, so failing has no effect on the target.
- `ItemPipeline` merges a step's effect with its checkpoint (the gap is in
  `PipelineRunner`) and the pool's interleavings (they are in `ParallelUpload`).
- An archive of `ItemPipeline` is known by its items: Discover counts no empty ones.
- A restart keeps repositories and target: they are in-memory adapters, so this is
  a new runner in the same process. What survives a new process is not modelled,
  as nothing in the program does.
- `ThrottledUpload` has a sleeper that sleeps, a limiter that is configured, and
  a target that does nothing else to a document than refuse or accept it; what it
  does under its lock is in `ParallelUpload`.

## 3. What the runs check

Run with `tlc -config <run>.cfg <module>`. Deadlock checking is off
(`CHECK_DEADLOCK FALSE`) in every run, because each model stops at its bounds and
the real system stops when nobody calls it.

### Runs that pass

- **`runner_recovery`** (140,678 states). Up to three runners, each used for one
  call; failing steps, failing saves, crashes, resumes and dry runs. Documents are
  delivered at most once and conflicting ones never; a checkpoint that claims the
  upload means the target holds everything deliverable; success is earned; a
  failed run leaves the checkpoint of the step before; only Finalize makes a job
  completed; a resume does not move the checkpoint back; a dry run leaves the
  target alone; the machine is in the state of the step being attempted; a report
  of success counts each step once, and once more for each save that failed after
  it; a resume that is accepted is never in a state that its completion would be
  refused from; every call ends; the job keeps `MigrationJob`'s contract.
- **`runner_reuse`** (217,502 states). A runner object called again after any
  outcome, with the context and the machine of the call before. Checkpoints and
  successes stay sound; two other properties do not (below).
- **`parallel_upload`** (30,860 states). Up to three calls of the Upload step, serial and with two
  workers, uploading, simulating and reconstructing. Target, mirror and session
  agree whenever the lock is free; no worker is left when the step returns or
  raises; results say what the target holds; the exception that leaves is the
  first in document order; stored content never changes; every call ends; the
  target is the atomic `IdempotentStore`.
- **`rate_limiter`** (170,894 states, up to symmetry). Three workers with old clock readings never exceed the rate,
  and the retry times handed out lie an interval apart.
- **`throttled_upload`** (1.2 million states). A batch of three in front of the
  limiter, uploaded by the loop and by two workers: retries come no earlier than
  asked by the rejection the runner was told of, however long the other workers
  keep the pool; the retry counters equal what the retry records show; a batch
  only goes through in one attempt that takes the rate's time for the whole batch;
  every run ends. The third has a consequence worth knowing, `FastBatchesNeverPass`
  in section 4: since each retry starts with the first document again, a batch of
  two or more that is uploaded faster than the rate is rejected every time, with any
  number of workers, however long the policy waits and however often it retries.
- **`item_pipeline`** (216,594 states). Three runs, fresh or resumed, over sources
  that may change in between. What Transform has accepted or refused stays accepted
  or refused, whatever the shared rehydrator goes on to cache; a report that says
  "reconciled" is right about each document as far as the verification compares, and
  exactly right unless Upload was reconstructed; a run that says "completed" has
  delivered each item or lists it and warns; counters add up; a resume arrives at the
  counters it was saved with; nothing outside the four filters the job was started
  with is ever written, whoever resumes it; and over all runs the target answers the
  Upload step as the idempotent store does, whatever of a run was stopped, repeated
  or replayed. "The same document" means the same stored document in these
  properties; what the repository says of equal checksums is another matter
  (`item_same_checksum` below).

### Runs that find a disagreement

Each checks one statement of the repository, quoted in `PROJECT.json`.

- **`runner_reuse_dry_run`**: a dry run on a runner that has run before uploads
  documents. `initialize()` keeps the earlier execution context with its
  configuration; the use case only swaps `initial_context`.
- **`runner_reuse_resume`**: a runner that is called again after a failure saves
  checkpoints in state `failed`. The resume use case accepts them, but a machine
  that starts in `failed` cannot complete, so such a resume always raises. The
  reuse is the only cause: `runner_recovery` checks the same property for runners
  that are used once, and `AcceptedResumesComplete` proves it.
- **`runner_throttling`**: a checkpoint saved after a throttled attempt has lost
  the throttling counter it is documented to persist.
- **`rate_limiter_delay`**: a worker that waits for exactly the returned delay is
  rejected again: its own rejection has moved the reservation by an interval. That
  is always so, and by how much is proved (`DelaysAreShort`, `AloneOneIntervalShort`).
- **`item_same_checksum`**: the README calls the upload of a known identifier with
  the same checksum a replay. The adapter compares whole stored documents (its own
  docstring says checksum and metadata), and the checksum of a document is its
  identifier. So an item whose legal hold, folder or owner has changed is refused as
  a conflict with the checksum that is stored, and every conflict of the pipeline is
  of that kind; the message of the exception then says of two equal checksums that
  they do not match.
- **`item_attribution`**: a journal archive's copy of a message that also lies in
  a mailbox archive is stored under the mailbox archive, even by a run that selects
  the journal alone; the README promises to preserve the journal archive's identity.
  Without such copies every label is right (`LabelsAreOwn`).

### Bounds, and why they are enough

- *Runner*: three documents of which one conflicts give batches with nothing, one
  and both deliverable documents done when a failure strikes; two attempts are one
  that is retried and one that is final; three runners are a run, a resume and a
  resume of the resume, or a dry run between them; pipelines of four steps end
  with Upload, those of six with Finalize. `runner_reuse` trades the third runner
  for a second call of each.
- *Upload*: three jobs and two workers leave one job queued when the others run,
  which is what cancellation needs; batches hold a duplicate with other content
  and, over several calls, replays and conflicts.
- *Limiter*: three callers, seven calls, time up to eight with an interval of two:
  bursts, admissions on old readings and rejections of rejections all occur.
- *Throttling*: with two workers and three documents one is queued while two call,
  so that a rejection can come first, last or from both, and cancel the third;
  three attempts give two delays of which the second is capped; an injected delay
  is longer than the policy's, and failures of one kind are final; with an interval
  of one, `MaxPause` = 2 is just what lets an attempt take the time the rate asks of
  three documents. Time in other steps is not looked at, so `Pause` is kept to the
  upload.
- *Items*: four sources hold corrupt parts and parts of equal identifier with two
  payloads, versions that differ only in what verification ignores, copies in
  several archives, duplicates within a source and an unsupported archive; four
  configurations select everything, an archive and a folder, one day of those the
  items were sent on (as first and as last day, so that each limit leaves items
  out), and run dry. Three runs let a source
  change, a second run meet the first one's documents, and a third resume it. The
  run about archives has only sources with copies, and configurations with and
  without the mailbox archive; the one about checksums only the two sources that
  differ in metadata.

### Fairness

`PipelineRunner` assumes weak fairness of `RunnerStep`: the runner is one thread
that never waits for another, so a call that was entered goes on. Calls,
restarts and crashes are not fair. `ParallelUpload` assumes weak fairness of the
calling thread and of each worker: they are threads of one process, and one that
waits for the lock waits for a worker that is itself fair. `ThrottledUpload` assumes
the same of the runner's thread and its workers; the runner's part includes the
sleeper, which returns. Nothing assumes that time passes: an attempt may be as fast
as it likes. The three liveness properties (`RunTerminates`, `StepEnds`, `RunEnds`)
are the only ones that need fairness; the other modules state none.

## 4. What is proved

Run `tlapm <module>_proofs.tla`. Every invariant and every action property of a
passing run is proved, and the three refinements. For four statements of the
repository that the code does not keep, what holds instead is proved: the exact
condition under which they hold, or the price of what they leave out. The theorems hold for every value of
the constants that satisfies the modules' named assumptions (`RunnerAssumption`,
`UploadAssumption`, `LimiterAssumption`, `ClientsAssumption`, `PipelineAssumption`,
`PartAssumption`, `ThrottlingAssumption`); none is about the small instances above.
For most, the argument is an inductive invariant, preserved by one lemma per action
or group of actions.

**`PipelineRunner_proofs`**: `TypeCorrect`, `DeliveryCorrect`,
`CheckpointsAreSound`, `SuccessesAreEarned`, `ResumesNeverRegress`,
`RunnerKeepsJobContract`, `ReportsCountExecutions`,
`ContractMakesCheckpointsSound`, `CallsTakeFiniteSteps`. Whether a checkpoint is sound
depends on what the run that saves it has done or inherited, so the invariant
follows a run through its life: `ReplayOfCheckpoint` and `ContinuesCheckpoint` say
that a run works directly behind the checkpoint in the repository, or starts over;
`UploadedSoFar` that a real run past the Upload step has delivered; `TargetHistory`
counts the writes. The refinement to `MigrationJob` follows, step by step; and the
contract is worth keeping, since it makes checkpoints sound by itself.

Five more are about runners that are used once (`MaxRunsPerRunner = 1` in the
theorem, since the runs above show what a reused runner does): `FailuresAreResumable`,
`CompletionsAreFinal`, `StatesTrackSteps`, `DryRunsLeaveTarget`,
`AcceptedResumesComplete`. They need that the
machine is in a state of the run's own, and the execution context of the call's.

**`ParallelUpload_proofs`**: `TypeCorrect`, `PoolEndsWithStep`,
`StorageIsImmutable`, `UploadsAreAtomic`, `FirstFailureIsRaised`,
`ResultsAreFaithful`, `TargetIsConsistent`, `StepTakesFiniteSteps`,
`NobodyIsStuck`. The point is that a look-up made under
the lock still stands when the document is stored (`LookupStands`), and that the
mirror lags behind only on the document being stored (`MirrorBehind`). A worker's
steps map to one step of `IdempotentStore`, at its write or its answer. `ResultInv`
says that what a future holds stays true of the target and that results are
collected in order; `SessionInv` that the session lists each stored document once,
but for the one between storage and session.

**`LimiterClients_proofs`**: `CapacityIsKept`, `RetriesSpread`, `DelaysAreShort`,
`AloneOneIntervalShort`. `Reservations` says that the next free time is at least an
interval per admitted upload, and an interval beyond each retry time handed out. So
a rejected worker is let in only when it comes at least an interval later than it
was told; a worker alone misses exactly one interval.

**`SisRehydrator_proofs`**: lemmas. The cache only grows and only by validated
parts; an item it accepted stays accepted and one it refused stays refused when it
grows.

**`ItemPipeline_proofs`**: `TypeCorrect`, `ScopeIsKept`, `VerdictsAreStable`,
`ReconciliationsAreSound`, `UploadsReconcileExactly`, `NothingIsLost`,
`CountersAddUp`, `RunsUploadIdempotently`, `ReconciledDocumentsAreStored`,
`StableMetadataReconcilesExactly`, `LabelsAreOwn`. Each step narrows what the one before has left, within filters
that come from the fresh run (`ScopeInv`); accepted items are covered by the cache
and refused ones blocked (`CacheInv`); an upload result stays true because nothing
is overwritten, a verdict because Verify comes after the last write, and the report
because neither changes any more (`ReportInv`). The counters are cardinalities of
sets that part the items: by result after Upload, by verdict after Verify, by both
in the final snapshot (`ResultsComplete`, `BalanceInv`).

A resumed run's report is as good as what the verification compares: `MirrorOfStored`
says that the mirror holds, for each stored document, a version stored as it is, so a
reconciled document is in the target in a version with the same signature
(`ReconciledDocumentsAreStored`). That is the document itself unless the sources bring
two versions of it that differ in the stored metadata alone, which the signature leaves
out: the version in the mirror is one a source has brought (`MirrorIsGiven`). So with
the code's comparison every reconciled report is exact over sources that change
nothing in that metadata by itself, resumed runs included
(`StableMetadataReconcilesExactly`; its premise `DifferencesShow` is about the sources
a job meets, not about the comparison). The labels of a document are right if no message lies in two archives
(`LabelsAreOwn`). In the refinement to `IdempotentStore`, each call of the Upload step
is answered for one item at a time; a replayed Upload is one look-up of all its keys,
answered as the store would answer since the mirror has an entry exactly for what is
stored (`FindStore`); and every other step leaves requests and answers alone or starts
over with none.

**`ItemReplay_proofs`**: `ReplaysReproduce`. What Discover and Extract leave is a
matter of source and filters. What Transform leaves depends on the cache it begins
with. If the rehydrator is shared, the items of the checkpoint's scope are all
decided, and stay so as the cache grows. If every execution has its own, two
executions go through the same caches: where they differed first, they would have
come from the same one (`ReachesOnce`).

**`ThrottledUpload_proofs`**: `TypeCorrect`, `BatchesTakeTheirTime`,
`RejectionsAreHonoured`, `RetriesAreCounted`, `FastBatchesNeverPass`,
`RunTakesFiniteSteps`, `NobodyIsStuck`. `Paced` bounds the next free time
from below by the documents an attempt has had admitted, whatever the workers'
readings; `Told` and `Waited` carry the time a rejection asked for from the worker
to the exception, and from there through the delay to the sleeper. That the
policy's delays are natural numbers is an assumption on the constant: the
exponential is beyond the provers, and in the code a large power overflows the
float before the maximum caps it.

Arguments about the first of several positions (the first failure, the first copy,
the first difference) rest on `Positions`: a nonempty set of natural numbers has a
least element.

Only model-checked: liveness (`RunTerminates`, `StepEnds`, `RunEnds`), since the
provers reason neither about ENABLED nor about fairness. What an argument by hand
would rest on is proved, for each of the three models. Every step of the call takes
from a tuple of natural numbers, compared from the left (`Falling` in `Positions`:
steps left, attempts left, statements left, documents or jobs left), so that there
are not infinitely many of them (`CallsTakeFiniteSteps`, `StepTakesFiniteSteps`,
`RunTakesFiniteSteps`; `FallingEnds` says that the order is well founded). And while
a call of the two concurrent models has not ended, the guard of a step of its thread
or of a worker holds (both `NobodyIsStuck`). Left to TLC is the step from a guard
that holds to an action that fairness makes happen. No module uses a RECURSIVE
operator.

## 5. Observations

True of the code, contradicting no document, and so not stated as properties:

- A batch with duplicate identifiers never reconciles: the expected items are
  counted with duplicates, the verified ones without.
- A dry run over an empty scope reports `completed`, not `dry_run_completed`; the
  final metrics of a dry run leave out the items that were refused.
- A resumed run counts documents found in the target as uploaded, also one that the
  run before was refused as a conflict (`upload_items_step.py:324-342`). If the two
  versions differ in metadata only (legal hold, folder, owner), which the verification
  does not compare, the resumed run reports the scope as reconciled over the earlier
  version. What such a report can be relied on for is proved
  (`ReconciledDocumentsAreStored`, `StableMetadataReconcilesExactly`).
- When the save of a checkpoint fails and the step is retried, the step is counted
  twice in the report (`ExecutionsReported` says exactly how often); when the save after Finalize fails for good, `run()` raises
  out of a completed machine and returns nothing.
- The runner publishes a second report to the tracker after Finalize, without
  reconciliation and status, while `run()` returns Finalize's; the result's
  `success` is true even when that report's final status is `failed`.
- `report.resumed` is true of nearly every run, since it asks whether there is a
  checkpoint and every step saves one.
- Finalize sets `retried_items` to zero in the metrics it returns, while the
  report's warnings look at it.
- The error breakdown's specific codes (`missing_document`, `metadata_mismatch`)
  are never used: `failed_document_ids` lists each such document as well, and the
  codes ask for a single reason.
- Selecting the folder `/` selects the root itself and nothing below it.
- The checksum of a document is its message id, so the verification never finds a
  checksum mismatch.
- When several workers are rejected in one attempt, the runner learns the delay of
  the first document only; the other rejections have moved the reservation on, so
  a retry that comes when it was asked to may be rejected again.
- A failed run lists the step that failed in its error breakdown only when no item
  was refused, failed or unverified before; otherwise the breakdown is of items
  alone.
- `_select_archives` of the Extract step is called by nothing.

## 6. Not modelled

- Source adapter and mock Enterprise Vault data: generators and loaders of
  fixtures, sequential and stateless.
- Search and metadata services of the mock target: the migration never calls them.
- `create_archive`, `delete` of a checkpoint: called by nothing in the program.
- Entities, ports and DTOs: immutable records; where a field matters it is a field
  in the module that uses it.
- Text, CSV and JSON of reports, stages and codes of the error breakdown, the
  entry that stands for a failed step: nothing in the program reads them. Which
  items are broken down is in `ItemPipeline`.
- Names, bytes and durations in metrics; several vault stores (an archive is
  identified by its name).
- Registration, duplicate types and `clear` of the step registry: a registry is
  filled before the runner exists and sorted by a constant table. The order of the
  steps, the index of a step and pipelines of different lengths are in the model;
  pipelines with a gap are not: but for Verify, a step whose predecessor is missing
  raises at once, since it asks for its result.
- The progress tracker: it keeps the last context, metrics and report it is given.
- `rollback` of the steps, which a failing run calls: each returns at once.
- The rate limiter without a rate: it admits everything.
- Floating-point: delays that overflow, rounding of the clock.

## 7. Order of the work

The modules were written in this order, the most important behaviour first: runner
and its job contract; upload step, target and idempotent store; limiter; rehydrator
and items; the retry loop in time, first with one worker and then with a pool; the
archive of a document; the proofs, component by component.

What could follow:

1. A pipeline without Verify, and a resume by a runner with other steps, for which
   the steps of `PipelineRunner` would have to be a set instead of the first few.
2. The error breakdown of failed runs, with its stages.
3. `ThrottledUpload` over `StorionXTarget`, so that one model holds both the rate and
   what is stored while a throttled batch is repeated. `ParallelUpload` covers the
   second with failures of any cause.
