---------------------------- MODULE ItemPipeline ----------------------------
(***************************************************************************)
(* What the six steps do with the items: Discover, Extract, Transform,     *)
(* Upload, Verify and Finalize (migration_engine/steps), and the final     *)
(* status of the report (migration_engine/reporting).  An item is its      *)
(* position in the source.  A run is fresh, or resumed from the job's      *)
(* checkpoint: then the steps up to the checkpoint are replayed, Upload by *)
(* reading the target, with the filters the checkpoint carries.  Retries,  *)
(* state machine and checkpointing are module PipelineRunner's, the worker *)
(* pool is module ParallelUpload's; here a step may be called again, and a *)
(* run may stop anywhere.                                                  *)
(***************************************************************************)
EXTENDS StorionXTarget, SisRehydrator

CONSTANTS
  Archive,            \* archive names
  Content,            \* what an item brings into its document, but for the archive
  Unsupported,        \* those of type FSA
  Sources,            \* the source as a run may find it: sequences of items
  StoredOf,           \* version -> the stored document it maps to, as a version
  SignatureOf,        \* version -> what _document_signature keeps of it
  Configs,            \* configurations of a runner
  LiveSource,         \* may the source change before the job is resumed
  SharedRehydrator,   \* is one SisRehydrator injected into the Transform step
  MaxRetries,         \* bound: repeated calls of one step
  MaxRuns             \* bound: runs

Item == [id : Id, content : Content, archive : Archive, folder : Seq(STRING),
         sent : Nat, parts : Seq(Part)]

\* start_date and end_date may be None, the other filters are then everything.
Config == [dry : BOOLEAN, archives : SUBSET Archive, folders : SUBSET Seq(STRING),
           start : Nat \cup {None}, end : Nat \cup {None}]

ASSUME PipelineAssumption ==
  /\ Version = [content : Content, archive : Archive]
  /\ Unsupported \subseteq Archive
  /\ Sources \subseteq Seq(Item)
  /\ StoredOf \in [Version -> Version]
  /\ SignatureOf \in [Version -> Version]
  /\ Configs \subseteq Config
  /\ LiveSource \in BOOLEAN /\ SharedRehydrator \in BOOLEAN
  /\ MaxRetries \in Nat /\ MaxRuns \in Nat

Stages == << "discover", "extract", "transform", "upload", "verify", "finalize" >>

VARIABLES
  source,      \* the items, in the order the stores list them
  config,      \* the configuration of the run
  stage,       \* the step running; "idle", "stopped" or "done" between runs
  resumedAt,   \* steps replayed by this run
  discovered,  \* discovery_result.archive_names
  extracted,   \* extraction_result, as positions
  rehydrated,  \* transformed_documents, as positions
  refused,     \* failed_item_identifiers, as positions
  cache,       \* the rehydrator's parts
  outcome,     \* upload_result.item_results
  verdict,     \* verification_result
  metrics,     \* the counters of execution_context.metrics
  report,      \* what Finalize reports
  checkpoint,  \* the job's checkpoint: last step, configuration, counters
  retries, runs,
  origin,      \* history: this run's source, and the configuration of the fresh
               \* run it is or continues
  savedOrigin  \* history: that of the run that saved the checkpoint

results == << discovered, extracted, rehydrated, refused, outcome, verdict >>
runVars == << source, config, resumedAt, runs, origin >>
vars == << source, config, stage, resumedAt, discovered, extracted, rehydrated,
           refused, cache, outcome, verdict, metrics, report, checkpoint, retries, runs,
           origin, savedOrigin, storage, mirror, session, lock >>

Position == DOMAIN source
StageNumber(s) == CHOOSE n \in DOMAIN Stages : Stages[n] = s
Replaying == stage \in { Stages[n] : n \in 1..resumedAt }

NoReport == [status |-> "none", reconciled |-> FALSE]
NoCounts == [total |-> 0, successful |-> 0, failed |-> 0, skipped |-> 0, filtered |-> 0,
             archives |-> 0, dry |-> 0, uploaded |-> 0, unverified |-> 0]
NothingSaved == [step |-> 0, counts |-> NoCounts,
                 config |-> [dry |-> FALSE, archives |-> {}, folders |-> {},
                             start |-> None, end |-> None]]
NoOrigin == [items |-> << >>, config |-> NothingSaved.config]

Init ==
  /\ TargetInit
  /\ source = << >>
  /\ config = NothingSaved.config
  /\ stage = "idle"
  /\ resumedAt = 0
  /\ discovered = {} /\ extracted = {} /\ rehydrated = {} /\ refused = {}
  /\ cache = EmptyCache
  /\ outcome = << >> /\ verdict = << >>
  /\ metrics = NoCounts
  /\ report = NoReport
  /\ checkpoint = NothingSaved
  /\ retries = 0 /\ runs = 0
  /\ origin = NoOrigin /\ savedOrigin = NoOrigin

-----------------------------------------------------------------------------
(* Runs.                                                                   *)

Begin(items, configuration, from) ==
  /\ stage \in {"idle", "stopped", "done"}
  /\ runs < MaxRuns
  /\ source' = items
  /\ config' = configuration
  /\ stage' = "discover"
  /\ resumedAt' = from
  /\ discovered' = {} /\ extracted' = {} /\ rehydrated' = {} /\ refused' = {}
  /\ outcome' = [i \in DOMAIN items |-> "none"]
  /\ verdict' = [i \in DOMAIN items |-> "none"]
  /\ report' = NoReport
  /\ retries' = 0
  /\ runs' = runs + 1
  /\ UNCHANGED << cache, checkpoint, savedOrigin, targetState >>

StartRun ==
  \E items \in Sources, configuration \in Configs :
    /\ Begin(items, configuration, 0)
    /\ metrics' = NoCounts
    /\ origin' = [items |-> items, config |-> configuration]

\* Mutants: the filters of the runner that resumes, or only its dates.
OwnConfiguration(own) == [own EXCEPT !.dry = @ \/ checkpoint.config.dry]
OwnDates(own) ==
  [checkpoint.config EXCEPT !.dry = @ \/ own.dry, !.start = own.start, !.end = own.end]

\* _resolve_resume_configuration: all four filters are the checkpoint's.
ResumeConfiguration(own) ==
  [checkpoint.config EXCEPT !.dry = @ \/ own.dry]

\* _build_checkpoint_metrics.
RestoredCounts == checkpoint.counts

StartResume ==
  /\ checkpoint.step \in 1..(Len(Stages) - 1)
  /\ \E items \in IF LiveSource THEN Sources ELSE {savedOrigin.items}, own \in Configs :
       /\ Begin(items, ResumeConfiguration(own), checkpoint.step)
       /\ origin' = [savedOrigin EXCEPT !.items = items]
  /\ metrics' = RestoredCounts

\* The step has returned; the runner saves a checkpoint unless it replays.
StepReturns ==
  /\ stage' = IF stage = "finalize" THEN "done" ELSE Stages[StageNumber(stage) + 1]
  /\ IF Replaying
       THEN UNCHANGED << checkpoint, savedOrigin >>
       ELSE /\ checkpoint' = [step |-> StageNumber(stage), counts |-> metrics',
                               config |-> config]
            /\ savedOrigin' = origin
  /\ retries' = 0
  /\ UNCHANGED runVars

\* A step fails for good, or the runner is lost.
Stop ==
  /\ stage \notin {"idle", "stopped", "done"}
  /\ stage' = "stopped"
  /\ UNCHANGED << results, cache, metrics, report, checkpoint, retries, runVars, savedOrigin,
                  targetState >>

-----------------------------------------------------------------------------
(* Discover and Extract.                                                   *)

\* The counters of a step before the upload; those it does not name are kept.
Processed(successful, failed) ==
  [metrics EXCEPT !.total = successful + failed, !.successful = successful,
                  !.failed = failed, !.skipped = 0, !.uploaded = 0, !.unverified = 0]

SourceArchives == { source[i].archive : i \in Position }

\* Discover counts archives.
DiscoverCounts(archives) ==
  [Processed(Cardinality(archives), 0) EXCEPT
    !.filtered = 0, !.archives = Cardinality(SourceArchives \ archives)]

Discover ==
  /\ stage = "discover"
  /\ discovered' = SourceArchives \cap config.archives
  /\ metrics' = DiscoverCounts(discovered')
  /\ StepReturns
  /\ UNCHANGED << extracted, rehydrated, refused, outcome, verdict, cache, report,
                  targetState >>

\* _folder_path_matches: itself or below; nothing is below the root "/".
InFolder(selected, folder) ==
  \/ folder = selected
  \/ /\ selected # << >>
     /\ Len(selected) <= Len(folder)
     /\ SubSeq(folder, 1, Len(selected)) = selected

Supported == { i \in Position : source[i].archive \in discovered \ Unsupported }

\* Dates that are given are included.
MatchesFilters(i) ==
  /\ \E selected \in config.folders : InFolder(selected, source[i].folder)
  /\ config.start # None => source[i].sent >= config.start
  /\ config.end # None => source[i].sent <= config.end

\* The archives left out are kept in the count: Discover has taken them all.
ExtractCounts(items) ==
  [Processed(Cardinality(items), 0) EXCEPT !.filtered = Cardinality(Supported \ items)]

Extract ==
  /\ stage = "extract"
  /\ extracted' = { i \in Supported : MatchesFilters(i) }
  /\ metrics' = ExtractCounts(extracted')
  /\ StepReturns
  /\ UNCHANGED << discovered, rehydrated, refused, outcome, verdict, cache, report,
                  targetState >>

-----------------------------------------------------------------------------
(* Transform: one item after the other.                                    *)

Untransformed == extracted \ (rehydrated \cup refused)

\* The rehydrator an execution of the step begins with.
FirstCache ==
  IF SharedRehydrator \/ rehydrated \cup refused # {} THEN cache ELSE EmptyCache

\* _resolve_mail_item_context: the first item with the message id, in or out of
\* scope.
FirstCopy(i) ==
  CHOOSE k \in Position :
    /\ source[k].id = source[i].id
    /\ \A m \in 1..(k - 1) : source[m].id # source[i].id

\* _transform_mail_item: the document is labelled with the archive of that item.
DocumentOf(i) ==
  [content |-> source[i].content, archive |-> source[FirstCopy(i)].archive]

TransformItem(i) ==
  /\ stage = "transform"
  /\ i \in Untransformed
  /\ \A k \in Untransformed : i <= k
  /\ IF Rehydrates(FirstCache, source[i].parts)
       THEN rehydrated' = rehydrated \cup {i} /\ UNCHANGED refused
       ELSE refused' = refused \cup {i} /\ UNCHANGED rehydrated
  /\ cache' = CacheAfter(FirstCache, source[i].parts)
  /\ UNCHANGED << runVars, stage, discovered, extracted, outcome, verdict, metrics, report,
                  checkpoint, retries, savedOrigin, targetState >>

TransformCounts == Processed(Cardinality(rehydrated), Cardinality(refused))

FinishTransform ==
  /\ stage = "transform"
  /\ Untransformed = {}
  /\ metrics' = TransformCounts
  /\ StepReturns
  /\ UNCHANGED << results, cache, report, targetState >>

-----------------------------------------------------------------------------
(* Upload.                                                                 *)

UniqueDocuments ==
  { i \in rehydrated :
      \A k \in rehydrated : k < i => source[k].id # source[i].id }

\* upload_archived_file, one call; of equal stored documents the mirror keeps
\* the transformed document that came last.
UploadItem(i) ==
  LET id == source[i].id
      version == DocumentOf(i)
  IN
  /\ stage = "upload" /\ ~Replaying /\ ~config.dry
  /\ i \in UniqueDocuments
  /\ outcome[i] = "none"
  /\ \/ /\ Absent(id, StoredOf[version])
        /\ AddDocument(id, StoredOf[version])
        /\ Remember(id, version)
        /\ session' = [session EXCEPT !.exists = TRUE, !.documents = Append(@, id)]
        /\ outcome' = [outcome EXCEPT ![i] = "created"]
     \/ /\ ~Absent(id, StoredOf[version])
        /\ SameDocument(id, StoredOf[version])
        /\ Remember(id, version)
        /\ outcome' = [outcome EXCEPT ![i] = "replay"]
        /\ UNCHANGED << storage, session >>
     \/ /\ ~Absent(id, StoredOf[version])
        /\ ~SameDocument(id, StoredOf[version])
        /\ outcome' = [outcome EXCEPT ![i] = "conflict"]
        /\ UNCHANGED << storage, mirror, session >>
  /\ UNCHANGED << runVars, stage, discovered, extracted, rehydrated, refused, verdict,
                  cache, metrics, report, checkpoint, retries, savedOrigin, lock >>

\* Mutant: a duplicate leaves no result.
OriginalsOnly(answer) == answer

\* Later documents of an identifier are skipped.
WithDuplicates(answer) ==
  [i \in Position |->
    IF i \in rehydrated \ UniqueDocuments THEN "duplicate" ELSE answer[i]]

\* Mutant: the extracted items are gone through instead of the transformed ones.
AnswerForExtracted(i) ==
  IF i \notin extracted THEN "none"
  ELSE IF config.dry THEN "dry"
  ELSE IF UploadedDocument(source[i].id) # None THEN "found" ELSE "missing"

\* Dry: nothing is asked of the target.  Replayed: the adapter's mirror decides.
AnswerWithoutUpload(i) ==
  IF i \notin UniqueDocuments THEN "none"
  ELSE IF config.dry THEN "dry"
  ELSE IF UploadedDocument(source[i].id) # None THEN "found" ELSE "missing"

Having(answer, kinds) == { i \in Position : answer[i] \in kinds }
UploadedIn(answer) == Having(answer, {"created", "replay", "found"})
FailedIn(answer) == Having(answer, {"conflict", "missing"})
SkippedIn(answer) == Having(answer, {"duplicate", "dry"})

\* Uploads and replays are zero once one result is of a dry run.
UploadCounts(answer) ==
  LET count(kinds) == Cardinality(Having(answer, kinds))
      real == count({"dry"}) = 0
  IN  [metrics EXCEPT
        !.total = Cardinality(Position \ Having(answer, {"none"})),
        !.successful = IF real THEN Cardinality(UploadedIn(answer)) ELSE 0,
        !.failed = Cardinality(FailedIn(answer)),
        !.skipped = Cardinality(SkippedIn(answer)),
        !.dry = count({"dry"}),
        !.uploaded = IF real THEN count({"created", "found"}) ELSE 0,
        !.unverified = 0]

FinishUpload ==
  /\ stage = "upload"
  /\ IF Replaying \/ config.dry
       THEN outcome' = WithDuplicates([i \in Position |-> AnswerWithoutUpload(i)])
       ELSE /\ \A i \in UniqueDocuments : outcome[i] # "none"
            /\ outcome' = WithDuplicates(outcome)
  /\ IF Replaying THEN UNCHANGED session ELSE FinalizeJob
  /\ metrics' = UploadCounts(outcome')
  /\ StepReturns
  /\ UNCHANGED << discovered, extracted, rehydrated, refused, verdict, cache, report,
                  storage, mirror, lock >>

\* The step raises and is called again with what it was called with.
RetryStep ==
  /\ stage \in {"transform", "upload"}
  /\ ~Replaying
  /\ retries < MaxRetries
  /\ retries' = retries + 1
  /\ IF stage = "transform"
       THEN rehydrated' = {} /\ refused' = {} /\ UNCHANGED outcome
       ELSE /\ outcome' = [i \in Position |-> "none"]
            /\ UNCHANGED << rehydrated, refused >>
  /\ UNCHANGED << runVars, stage, discovered, extracted, verdict, cache, metrics,
                  report, checkpoint, savedOrigin, targetState >>

-----------------------------------------------------------------------------
(* Verify.                                                                 *)

Uploaded == UploadedIn(outcome)
Failed == FailedIn(outcome)
Skipped == SkippedIn(outcome)

\* _transform_mail_item: whatever the version, checksum=internet_message_id.
Checksum(id, version) == id

\* So only metadata can differ.
Compare(i) ==
  LET target == UploadedDocument(source[i].id)
  IN  IF target = None THEN "missing"
      ELSE IF SignatureOf[target] = SignatureOf[DocumentOf(i)] THEN "verified"
      ELSE "mismatch"

VerifiedIn(result) == { i \in Position : result[i] = "verified" }
UnverifiedIn(result) == { i \in Position : result[i] \in {"missing", "mismatch"} }

\* A dry run keeps the counters of the upload.
VerifyCounts(result) ==
  IF config.dry
    THEN [metrics EXCEPT !.total = Cardinality(Position \ Having(outcome, {"none"})),
                         !.uploaded = 0, !.unverified = 0]
    ELSE [metrics EXCEPT !.total = Cardinality(Uploaded),
                         !.successful = Cardinality(VerifiedIn(result)),
                         !.failed = Cardinality(UnverifiedIn(result)),
                         !.skipped = 0,
                         !.uploaded = Cardinality(Uploaded),
                         !.unverified = Cardinality(UnverifiedIn(result))]

Verify ==
  /\ stage = "verify"
  /\ verdict' = [i \in Position |->
                  IF i \in Uploaded /\ ~config.dry THEN Compare(i) ELSE "none"]
  /\ metrics' = VerifyCounts(verdict')
  /\ StepReturns
  /\ UNCHANGED << discovered, extracted, rehydrated, refused, outcome, cache, report,
                  targetState >>

-----------------------------------------------------------------------------
(* Finalize.                                                               *)

Verified == VerifiedIn(verdict)
Unverified == UnverifiedIn(verdict)

\* Mutant: the scope is counted by identifier.
ExpectedIdentifiers == Cardinality(UniqueDocuments)

ExpectedItems == Cardinality(rehydrated)
UploadedItems == Cardinality(Having(outcome, {"created", "found"}))
IdempotentReplays == Cardinality(Having(outcome, {"replay"}))
DryRunItems == Cardinality(Having(outcome, {"dry"}))

MissingItems ==
  { source[i].id : i \in Failed \cup { i \in Position : verdict[i] = "missing" } }

\* checksum_mismatches and unexpected_items are always empty.
IsReconciled ==
  IF config.dry
    THEN ExpectedItems = DryRunItems /\ UploadedItems = 0
    ELSE /\ ExpectedItems = Cardinality(Verified)
         /\ UploadedItems + IdempotentReplays <= ExpectedItems
         /\ MissingItems = {}

\* The report collects the warnings of Extract and Transform and its own.
HasWarnings ==
  \/ discovered \cap Unsupported # {}
  \/ refused # {} \/ Failed # {} \/ Unverified # {} \/ Skipped # {}

\* What the Finalize step counts.
TotalItems == Cardinality(extracted)
SuccessfulItems == Cardinality(Verified)
FailedItems == Cardinality(refused) + Cardinality(Failed) + Cardinality(Unverified)
SkippedItems == Cardinality(Skipped)

FinalSnapshot == [total |-> TotalItems, successful |-> SuccessfulItems,
                  failed |-> FailedItems, skipped |-> SkippedItems]

\* A dry run counts nothing as uploaded, successful or failed.
RealOnly(n) == IF config.dry THEN 0 ELSE n

\* _resolve_metrics of Finalize.
FinalCounts ==
  [metrics EXCEPT !.total = TotalItems, !.successful = RealOnly(SuccessfulItems),
                  !.failed = RealOnly(FailedItems), !.skipped = SkippedItems,
                  !.dry = DryRunItems, !.uploaded = RealOnly(UploadedItems),
                  !.unverified = RealOnly(Cardinality(Unverified))]

\* _is_dry_run_completed and _has_warnings look at those counters.
IsDryRunCompleted == DryRunItems > 0 /\ RealOnly(UploadedItems) = 0

ReportHasWarnings ==
  \/ HasWarnings
  \/ RealOnly(FailedItems) > 0 \/ RealOnly(Cardinality(Unverified)) > 0
  \/ DryRunItems > 0

\* resolve_final_status; Finalize itself never fails here.
FinalStatus ==
  CASE ~IsReconciled -> "failed"
    [] IsReconciled /\ IsDryRunCompleted -> "dry_run_completed"
    [] IsReconciled /\ ~IsDryRunCompleted /\ ReportHasWarnings -> "completed_with_warnings"
    [] OTHER -> "completed"

\* Mutant: refused items are not broken down.
UploadBreakdown == Failed \cup Unverified

\* build_error_breakdown_entries, one entry each.
ErrorBreakdown == refused \cup Failed \cup Unverified

FinalizeMigration ==
  /\ stage = "finalize"
  /\ metrics' = FinalCounts
  /\ report' = [status |-> FinalStatus, reconciled |-> IsReconciled]
  /\ StepReturns
  /\ UNCHANGED << results, cache, targetState >>

-----------------------------------------------------------------------------

Next ==
  \/ StartRun \/ StartResume
  \/ Discover \/ Extract
  \/ \E i \in Position : TransformItem(i)
  \/ FinishTransform
  \/ \E i \in Position : UploadItem(i)
  \/ FinishUpload \/ RetryStep
  \/ Verify \/ FinalizeMigration
  \/ Stop

Spec == Init /\ [][Next]_vars

-----------------------------------------------------------------------------
(* Properties.                                                             *)

Counts == [DOMAIN NoCounts -> Nat]

RealReport == report # NoReport /\ ~config.dry

\* Every variable holds a value of its kind, and only transformed documents have
\* an upload result.
TypeOK ==
  /\ TargetType /\ lock = 0
  /\ source \in Sources \cup {<< >>}
  /\ config \in Config /\ { origin.config, savedOrigin.config } \subseteq Config
  /\ stage \in { Stages[n] : n \in DOMAIN Stages } \cup {"idle", "stopped", "done"}
  /\ resumedAt \in 0..5
  /\ discovered \subseteq Archive
  /\ extracted \subseteq Position
  /\ rehydrated \subseteq extracted /\ refused \subseteq extracted \ rehydrated
  /\ cache \in [PartId -> Part \cup {NoPart}]
  /\ outcome \in [Position -> {"none", "created", "replay", "conflict", "found",
                               "missing", "dry", "duplicate"}]
  /\ \A i \in Position : outcome[i] # "none" => i \in rehydrated
  /\ verdict \in [Position -> {"none", "verified", "missing", "mismatch"}]
  /\ report \in [status : {"none", "failed", "dry_run_completed", "completed",
                          "completed_with_warnings"}, reconciled : BOOLEAN]
  /\ metrics \in Counts
  /\ checkpoint \in [step : 0..6, counts : Counts, config : Config]
  /\ retries \in 0..MaxRetries /\ runs \in 0..MaxRuns

\* The rehydrator's verdict on an item stays right while other items, retries
\* and later runs fill the cache it was given on: a repeated Transform step
\* accepts and refuses the same items.
VerdictsStable ==
  /\ \A i \in rehydrated : Rehydrates(cache, source[i].parts)
  /\ \A i \in refused : ~Rehydrates(cache, source[i].parts)

\* What a real run reports as reconciled is in the target, document by document,
\* as far as the verification compares documents, and under one key each.
ReconciliationSound ==
  RealReport /\ report.reconciled =>
    \A i \in rehydrated :
      /\ UploadedDocument(source[i].id) # None
      /\ SignatureOf[mirror[source[i].id]] = SignatureOf[DocumentOf(i)]
      /\ \A k \in rehydrated : source[k].id = source[i].id => k = i

StoredAsTransformed(i) == storage[source[i].id] = StoredOf[DocumentOf(i)]

\* A real run that called the target itself and reports its scope as reconciled
\* has every document stored exactly as it was transformed: conflicts cannot
\* hide behind the fields the verification does not compare.
UploadedReconciliationExact ==
  RealReport /\ report.reconciled /\ resumedAt < 4 =>
    \A i \in rehydrated : StoredAsTransformed(i)

\* "When the same source identifier is uploaded with the same checksum: ... the
\* operation is classified as an idempotent replay" (README.md): a document is only
\* refused as a conflict when the stored document of its key has another checksum.
SameChecksumIsReplay ==
  \A i \in Position : outcome[i] = "conflict" =>
    LET id == source[i].id
    IN  Checksum(id, storage[id]) # Checksum(id, DocumentOf(i))

\* A real run that calls itself completed has delivered every item it extracted,
\* or lists it in the error breakdown and warns.
NothingLostSilently ==
  RealReport /\ report.status \in {"completed", "completed_with_warnings"} =>
    \A i \in extracted :
      \/ i \in Verified /\ storage[source[i].id] # None
      \/ i \in ErrorBreakdown /\ report.status = "completed_with_warnings"

\* The counters every step publishes and every checkpoint stores add up: an item
\* is successful, failed or skipped, and only one of them; so do the counts of the
\* final snapshot, over everything that was extracted.  Only the final metrics of
\* a dry run do not: they leave out the items that were refused.
CountersBalanced ==
  /\ stage = "done" =>
       FinalSnapshot.total =
         FinalSnapshot.successful + FinalSnapshot.failed + FinalSnapshot.skipped
  /\ ~(stage = "done" /\ config.dry) =>
       metrics.total = metrics.successful + metrics.failed + metrics.skipped

\* A resume that replays Discover, Extract and Transform over an unchanged source
\* arrives at the counters the checkpoint was saved with.
ReplayReproduces ==
  (resumedAt \in 1..3 /\ stage = Stages[resumedAt + 1] /\ source = savedOrigin.items) =>
    metrics = checkpoint.counts

\* "The migration flow preserves: journal archive identity" (README.md), and the
\* same of other archives: what the target gains carries the label of the archive
\* its item was extracted from.
OwnArchiveLabels ==
  [][\A id \in Id : storage'[id] # storage[id] =>
       \E i \in extracted :
         source[i].id = id /\ source[i].archive = storage'[id].archive]_vars

\* "a resumed migration uses the same source scope as the original execution"
\* (README.md): the target gains only documents of items inside the four filters
\* the job was started with - archives, folders, start and end date -, whoever
\* resumes it.
OnlyScopedDocuments ==
  [][\A id \in Id : storage'[id] # storage[id] =>
       \E i \in Position :
         /\ source[i].id = id
         /\ source[i].archive \in origin.config.archives \ Unsupported
         /\ \E selected \in origin.config.folders : InFolder(selected, source[i].folder)
         /\ origin.config.start # None => source[i].sent >= origin.config.start
         /\ origin.config.end # None => source[i].sent <= origin.config.end]_vars

\* What the Upload step asks the target for, and what it has been answered: by
\* upload_archived_file, or in a replay by get_uploaded_document.
Slot == UNION { DOMAIN items : items \in Sources }

Requests ==
  [i \in Position |-> [id |-> source[i].id, version |-> StoredOf[DocumentOf(i)]]]

Answers == {"created", "replay", "conflict", "found", "missing"}

Replies ==
  [i \in Slot |-> IF i \in Having(outcome, Answers) THEN outcome[i] ELSE "none"]

\* Across runs, resumes, retries and stops the target is to the Upload step the
\* same store as it is to the workers of one batch (ParallelUpload): a key is
\* written once; the same stored document sent again, metadata included, is answered
\* as a replay, another one as a conflict, whatever its checksum (but see
\* SameChecksumIsReplay); and a resumed run that asks for the key alone is told what
\* the store holds, although it is the mirror that answers.
Store == INSTANCE IdempotentStore WITH
           Key <- Id, Content <- Version, Slots <- Slot, Nothing <- None,
           content <- storage, requests <- Requests, reply <- Replies

UploadsAreIdempotent == Store!Spec

=============================================================================
