------------------------- MODULE ItemPipeline_proofs -------------------------
(***************************************************************************)
(* Theorems about ItemPipeline, for any sources, configurations, archives, *)
(* identifiers and content parts, and any number of runs and retries.      *)
(***************************************************************************)
EXTENDS ItemPipeline, SisRehydrator_proofs, FiniteSetTheorems

(* Scope.  The filters of a run are those of the fresh run it is or        *)
(* continues, because a checkpoint carries them, and each of the first     *)
(* three steps only narrows what the one before has left.                  *)

Origin == [items : Seq(Item), config : Config]

RunType ==
  /\ source \in Seq(Item)
  /\ config \in Config /\ checkpoint.config \in Config
  /\ origin \in Origin /\ savedOrigin \in Origin

SameFilters(one, other) ==
  /\ one.archives = other.archives /\ one.folders = other.folders
  /\ one.start = other.start /\ one.end = other.end

FiltersKept ==
  /\ SameFilters(config, origin.config)
  /\ SameFilters(checkpoint.config, savedOrigin.config)

InScope(i) ==
  /\ i \in Position
  /\ source[i].archive \in config.archives \ Unsupported
  /\ MatchesFilters(i)

Narrowing ==
  /\ discovered \subseteq config.archives
  /\ \A i \in extracted : InScope(i)
  /\ rehydrated \subseteq extracted
  /\ refused \subseteq extracted
  /\ stage \in {"discover", "extract"} => rehydrated = {} /\ refused = {}

ScopeInv == RunType /\ FiltersKept /\ Narrowing

\* What StepReturns makes of the stage.
LEMMA StageOrder ==
  /\ StageNumber("discover") = 1 /\ StageNumber("extract") = 2
  /\ StageNumber("transform") = 3 /\ StageNumber("upload") = 4
  /\ StageNumber("verify") = 5 /\ StageNumber("finalize") = 6
<1>1. DOMAIN Stages = 1..6
  BY DEF Stages
<1>2. \A n \in 1..6 : StageNumber(Stages[n]) = n
  <2> TAKE n \in 1..6
  <2>1. \A m \in 1..6 : Stages[m] = Stages[n] => m = n
    BY DEF Stages
  <2> QED
    BY <1>1, <2>1 DEF StageNumber
<1> QED
  BY <1>2 DEF Stages

LEMMA NextStage ==
  ASSUME StepReturns
  PROVE  /\ stage = "discover" => stage' = "extract"
         /\ stage = "extract" => stage' = "transform"
         /\ stage = "transform" => stage' = "upload"
         /\ stage = "upload" => stage' = "verify"
         /\ stage = "verify" => stage' = "finalize"
         /\ stage = "finalize" => stage' = "done"
  BY StageOrder DEF StepReturns, Stages

LEMMA ScopeInit == Init => ScopeInv
<1> SUFFICES ASSUME Init PROVE ScopeInv
  OBVIOUS
<1>1. RunType
  BY DEF Init, RunType, NothingSaved, NoOrigin, Origin, Config
<1>2. FiltersKept
  BY DEF Init, FiltersKept, SameFilters, NothingSaved, NoOrigin
<1>3. Narrowing
  BY DEF Init, Narrowing
<1> QED
  BY <1>1, <1>2, <1>3 DEF ScopeInv

\* A run starts with empty results.
LEMMA BeginScope ==
  ASSUME NEW items \in Seq(Item), NEW configuration \in Config, NEW from, ScopeInv,
         Begin(items, configuration, from),
         origin' \in Origin, SameFilters(configuration, origin'.config)
  PROVE  ScopeInv'
  BY DEF Begin, ScopeInv, RunType, FiltersKept, Narrowing, SameFilters

LEMMA StartRunScope ==
  ASSUME ScopeInv, StartRun PROVE ScopeInv'
<1>1. PICK items \in Sources, configuration \in Configs :
        /\ Begin(items, configuration, 0)
        /\ origin' = [items |-> items, config |-> configuration]
  BY DEF StartRun
<1>2. items \in Seq(Item) /\ configuration \in Config
  BY PipelineAssumption
<1> QED
  BY <1>1, <1>2, BeginScope DEF SameFilters, Origin

LEMMA StartResumeScope ==
  ASSUME ScopeInv, StartResume PROVE ScopeInv'
<1>1. PICK items \in IF LiveSource THEN Sources ELSE {savedOrigin.items}, own \in Configs :
        /\ Begin(items, ResumeConfiguration(own), checkpoint.step)
        /\ origin' = [savedOrigin EXCEPT !.items = items]
  BY DEF StartResume
<1>2. items \in Seq(Item) /\ own.dry \in BOOLEAN
  BY PipelineAssumption DEF Config, ScopeInv, RunType, Origin
<1>3. /\ ResumeConfiguration(own) \in Config
      /\ SameFilters(ResumeConfiguration(own), checkpoint.config)
  <2>1. checkpoint.config \in Config
    BY DEF ScopeInv, RunType
  <2> QED
    BY <1>2, <2>1 DEF ResumeConfiguration, SameFilters, Config
<1>4. origin' \in Origin /\ origin'.config = savedOrigin.config
  BY <1>1, <1>2 DEF ScopeInv, RunType, Origin
<1>5. SameFilters(ResumeConfiguration(own), origin'.config)
  BY <1>3, <1>4 DEF SameFilters, ScopeInv, FiltersKept
<1> QED
  BY <1>1, <1>2, <1>3, <1>4, <1>5, BeginScope

\* A step keeps the run, and a checkpoint it leaves is one of the run.
Continues ==
  /\ UNCHANGED runVars
  /\ \/ UNCHANGED << checkpoint, savedOrigin >>
     \/ checkpoint'.config = config /\ savedOrigin' = origin

LEMMA StepContinues ==
  ASSUME StepReturns PROVE Continues
  BY DEF StepReturns, Continues

\* Enough of a step's effect: it keeps the run, and what it has left of the items.
LEMMA ContinuesScope ==
  ASSUME ScopeInv, Continues, Narrowing'
  PROVE  ScopeInv'
  BY DEF ScopeInv, RunType, FiltersKept, SameFilters, Continues, runVars

LEMMA NextScope ==
  ASSUME ScopeInv, [Next]_vars
  PROVE  ScopeInv'
<1> USE DEF Narrowing, InScope, MatchesFilters, Position
<1>1. ASSUME Continues, stage' \notin {"discover", "extract"},
             UNCHANGED << discovered, extracted >>,
             rehydrated' \subseteq extracted, refused' \subseteq extracted
      PROVE  ScopeInv'
  <2>1. UNCHANGED << source, config >>
    BY <1>1 DEF Continues, runVars
  <2> QED
    BY <1>1, <2>1, ContinuesScope DEF ScopeInv
<1>2. CASE Discover
  <2>1. Continues /\ UNCHANGED << source, config, extracted, rehydrated, refused >>
    BY <1>2, StepContinues DEF Discover, StepReturns, runVars
  <2>2. discovered' \subseteq config.archives /\ rehydrated = {} /\ refused = {}
    BY <1>2 DEF Discover, ScopeInv
  <2> QED
    BY <2>1, <2>2, ContinuesScope DEF ScopeInv
<1>3. CASE Extract
  <2>1. Continues /\ UNCHANGED << source, config, discovered, rehydrated, refused >>
    BY <1>3, StepContinues DEF Extract, StepReturns, runVars
  <2>2. \A i \in extracted' : InScope(i)
    BY <1>3 DEF Extract, ScopeInv, Supported
  <2>3. rehydrated = {} /\ refused = {}
    BY <1>3 DEF Extract, ScopeInv
  <2> QED
    BY <2>1, <2>2, <2>3, ContinuesScope DEF ScopeInv
<1>4. ASSUME NEW i \in Position, TransformItem(i) PROVE ScopeInv'
  <2>1. Continues /\ UNCHANGED << stage, discovered, extracted >>
    BY <1>4 DEF TransformItem, Continues
  <2>2. rehydrated' \subseteq extracted /\ refused' \subseteq extracted
    BY <1>4 DEF TransformItem, Untransformed, ScopeInv
  <2> QED
    BY <1>4, <2>1, <2>2, <1>1 DEF TransformItem
<1>5. ASSUME StepReturns, stage \in {"transform", "upload", "verify", "finalize"},
             UNCHANGED << discovered, extracted, rehydrated, refused >>
      PROVE  ScopeInv'
  BY <1>5, <1>1, StepContinues, NextStage DEF ScopeInv
<1>6. CASE FinishTransform
  BY <1>6, <1>5 DEF FinishTransform, results
<1>7. CASE FinishUpload
  BY <1>7, <1>5 DEF FinishUpload
<1>8. CASE Verify
  BY <1>8, <1>5 DEF Verify
<1>9. CASE FinalizeMigration
  BY <1>9, <1>5 DEF FinalizeMigration, results
<1>10. ASSUME NEW i \in Position, UploadItem(i) PROVE ScopeInv'
  BY <1>10, <1>1 DEF UploadItem, Continues, ScopeInv
<1>11. CASE RetryStep
  BY <1>11, <1>1 DEF RetryStep, Continues, ScopeInv
<1>12. CASE Stop
  BY <1>12, <1>1 DEF Stop, Continues, ScopeInv, results
<1>13. CASE UNCHANGED vars
  BY <1>13 DEF vars, ScopeInv, RunType, FiltersKept, SameFilters
<1> QED
  BY <1>2, <1>3, <1>4, <1>6, <1>7, <1>8, <1>9, <1>10, <1>11, <1>12, <1>13,
     StartRunScope, StartResumeScope DEF Next

LEMMA ScopeInvariant == Spec => []ScopeInv
  BY ScopeInit, NextScope, PTL DEF Spec

-----------------------------------------------------------------------------
(* The target.                                                             *)

StorageType ==
  /\ storage \in [Id -> Version \cup {None}]
  /\ mirror \in [Id -> Version \cup {None}]

LEMMA ItemType ==
  ASSUME ScopeInv, NEW i \in Position
  PROVE  source[i] \in Item
  BY DEF ScopeInv, RunType, Position

\* The transformer finds an item to take the archive of a document from.
LEMMA FirstCopyExists ==
  ASSUME ScopeInv, NEW i \in Position
  PROVE  FirstCopy(i) \in Position /\ source[FirstCopy(i)].id = source[i].id
<1> DEFINE copies == { k \in Position : source[k].id = source[i].id }
<1>1. Position = 1..Len(source) /\ Len(source) \in Nat
  BY DEF Position, ScopeInv, RunType
<1>2. PICK x \in copies : \A y \in copies : x <= y
  <2>1. copies \in SUBSET Nat /\ copies # {}
    BY <1>1
  <2> HIDE DEF copies
  <2> QED
    BY <2>1, LeastPosition
<1>3. \A m \in 1..(x - 1) : source[m].id # source[i].id
  <2> SUFFICES ASSUME NEW m \in 1..(x - 1), source[m].id = source[i].id PROVE FALSE
    OBVIOUS
  <2>1. m \in copies /\ ~(x <= m)
    BY <1>1
  <2> QED
    BY <1>2, <2>1
<1> QED
  BY <1>2, <1>3 DEF FirstCopy

LEMMA DocumentType ==
  ASSUME ScopeInv, NEW i \in Position
  PROVE  /\ source[i].id \in Id
         /\ DocumentOf(i) \in Version /\ StoredOf[DocumentOf(i)] \in Version
  BY ItemType, FirstCopyExists, PipelineAssumption DEF Item, DocumentOf

\* It is a matter of the source alone.
LEMMA DocumentsKept ==
  ASSUME UNCHANGED source
  PROVE  \A i : UNCHANGED DocumentOf(i)
  BY DEF DocumentOf, FirstCopy, Position

\* Only an upload writes to the target.
LEMMA OnlyUploadsWrite ==
  ASSUME [Next]_vars
  PROVE  UNCHANGED << storage, mirror >> \/ \E i \in Position : UploadItem(i)
  BY DEF Next, vars, StartRun, StartResume, Begin, Discover, Extract, TransformItem,
         FinishTransform, FinishUpload, RetryStep, Verify, FinalizeMigration, Stop,
         targetState

LEMMA NextStorage ==
  ASSUME ScopeInv, StorageType, [Next]_vars
  PROVE  StorageType'
<1>1. ASSUME NEW i \in Position, UploadItem(i) PROVE StorageType'
  <2>1. /\ source[i].id \in Id /\ DocumentOf(i) \in Version
        /\ StoredOf[DocumentOf(i)] \in Version
    BY DocumentType
  <2> QED
    BY <1>1, <2>1 DEF UploadItem, StorageType, AddDocument, Remember
<1> QED
  BY <1>1, OnlyUploadsWrite DEF StorageType

LEMMA StorageInvariant == Spec => []StorageType
<1>1. Init => StorageType
  BY DEF Init, TargetInit, StorageType
<1> QED
  BY <1>1, NextStorage, ScopeInvariant, PTL DEF Spec

\* The target only gains documents of items inside the four filters the job was
\* started with: a resuming runner cannot widen them, and no step brings an item back.
THEOREM ScopeIsKept == Spec => OnlyScopedDocuments
<1> DEFINE Gains(id) ==
      storage'[id] # storage[id] =>
        \E i \in Position :
          /\ source[i].id = id
          /\ source[i].archive \in origin.config.archives \ Unsupported
          /\ \E selected \in origin.config.folders : InFolder(selected, source[i].folder)
          /\ origin.config.start # None => source[i].sent >= origin.config.start
          /\ origin.config.end # None => source[i].sent <= origin.config.end
<1>1. ASSUME ScopeInv, StorageType, [Next]_vars, NEW id \in Id PROVE Gains(id)
  <2>1. SUFFICES ASSUME storage'[id] # storage[id],
                        NEW i \in Position, UploadItem(i) PROVE Gains(id)
    BY <1>1, OnlyUploadsWrite
  <2>2. i \in rehydrated
    BY <2>1 DEF UploadItem, UniqueDocuments
  <2>3. InScope(i)
    BY <1>1, <2>2 DEF ScopeInv, Narrowing
  <2>4. source[i].id = id
    BY <1>1, <2>1 DEF UploadItem, AddDocument, StorageType
  <2> QED
    BY <1>1, <2>3, <2>4 DEF InScope, MatchesFilters, ScopeInv, FiltersKept, SameFilters
<1> HIDE DEF Gains
<1>2. ScopeInv /\ StorageType /\ [Next]_vars => [\A id \in Id : Gains(id)]_vars
  BY <1>1
<1>3. (\A id \in Id : Gains(id)) <=>
        \A id \in Id : storage'[id] # storage[id] =>
          \E i \in Position :
            /\ source[i].id = id
            /\ source[i].archive \in origin.config.archives \ Unsupported
            /\ \E selected \in origin.config.folders :
                 InFolder(selected, source[i].folder)
            /\ origin.config.start # None => source[i].sent >= origin.config.start
            /\ origin.config.end # None => source[i].sent <= origin.config.end
  BY DEF Gains
<1> QED
  BY <1>2, <1>3, ScopeInvariant, StorageInvariant, PTL DEF Spec, OnlyScopedDocuments

-----------------------------------------------------------------------------
(* The rehydrator.  An accepted item is covered by the cache and a refused *)
(* one is blocked at some part; both survive a cache that grows.           *)

CacheInv ==
  /\ GoodCache(cache)
  /\ \A i \in rehydrated : Covered(cache, source[i].parts)
  /\ \A i \in refused : Blocked(cache, source[i].parts)

LEMMA PositionFinite ==
  ASSUME ScopeInv PROVE IsFiniteSet(Position)
<1>1. Position = 1..Len(source) /\ Len(source) \in Int
  BY DEF Position, ScopeInv, RunType
<1> QED
  BY <1>1, FS_Interval

LEMMA PartsType ==
  ASSUME ScopeInv, NEW i \in Position
  PROVE  source[i].parts \in Seq(Part)
  BY ItemType DEF Item

LEMMA TransformCache ==
  ASSUME ScopeInv, CacheInv, NEW i \in Position, TransformItem(i)
  PROVE  CacheInv'
<1> DEFINE parts == source[i].parts
           after == CacheAfter(FirstCache, parts)
<1>1. cache' = after /\ source' = source
  BY DEF TransformItem, runVars
<1>2. /\ GoodCache(FirstCache)
      /\ \A k \in rehydrated : Covered(FirstCache, source[k].parts)
      /\ \A k \in refused : Blocked(FirstCache, source[k].parts)
  BY EmptyCacheGood DEF FirstCache, CacheInv
<1>3. parts \in Seq(Part)
  BY PartsType
<1>4. GoodCache(after) /\ Grown(FirstCache, after)
  BY <1>2, <1>3, CacheGrows
<1>5. rehydrated \subseteq Position /\ refused \subseteq Position
  BY DEF ScopeInv, Narrowing, InScope
<1>6. ASSUME NEW k \in rehydrated' PROVE Covered(after, source[k].parts)
  <2>1. CASE k \in rehydrated
    <3>1. source[k].parts \in Seq(Part)
      BY <1>5, <2>1, PartsType
    <3> QED
      BY <1>2, <1>4, <2>1, <3>1, CoveredGrows
  <2>2. CASE k \notin rehydrated
    <3>1. k = i /\ Rehydrates(FirstCache, parts)
      BY <1>6, <2>2 DEF TransformItem
    <3> QED
      BY <1>2, <1>3, <3>1, AcceptedIsCovered
  <2> QED
    BY <2>1, <2>2
<1>7. ASSUME NEW k \in refused' PROVE Blocked(after, source[k].parts)
  <2>1. source[k].parts \in Seq(Part)
    BY <1>5, <1>7, PartsType DEF TransformItem
  <2>2. Blocked(FirstCache, source[k].parts)
    <3>1. CASE k \in refused
      BY <1>2, <3>1
    <3>2. CASE k \notin refused
      <4>1. k = i /\ ~Rehydrates(FirstCache, parts)
        BY <1>7, <3>2 DEF TransformItem
      <4> QED
        BY <1>3, <4>1, RefusedIsBlocked
    <3> QED
      BY <3>1, <3>2
  <2> QED
    BY <1>2, <1>4, <2>1, <2>2, BlockedGrows
<1> HIDE DEF after
<1> QED
  BY <1>1, <1>4, <1>6, <1>7 DEF CacheInv

LEMMA NextCache ==
  ASSUME ScopeInv, CacheInv, [Next]_vars
  PROVE  CacheInv'
<1>1. ASSUME NEW i \in Position, TransformItem(i) PROVE CacheInv'
  BY <1>1, TransformCache
<1>2. ASSUME UNCHANGED << source, cache, rehydrated, refused >> PROVE CacheInv'
  BY <1>2 DEF CacheInv
<1>3. ASSUME UNCHANGED cache, rehydrated' = {}, refused' = {} PROVE CacheInv'
  BY <1>3 DEF CacheInv
<1>4. CASE StartRun \/ StartResume
  BY <1>3, <1>4 DEF StartRun, StartResume, Begin
<1>5. CASE Discover \/ Extract \/ FinishTransform \/ FinishUpload \/ Verify
             \/ FinalizeMigration
  BY <1>2, <1>5
  DEF Discover, Extract, FinishTransform, FinishUpload, Verify, FinalizeMigration,
      StepReturns, runVars, results
<1>6. ASSUME NEW i \in Position, UploadItem(i) PROVE CacheInv'
  BY <1>2, <1>6 DEF UploadItem, runVars
<1>7. CASE RetryStep
  BY <1>2, <1>3, <1>7 DEF RetryStep, runVars
<1>8. CASE Stop \/ UNCHANGED vars
  BY <1>2, <1>8 DEF Stop, vars, results, runVars
<1> QED
  BY <1>1, <1>4, <1>5, <1>6, <1>7, <1>8 DEF Next

LEMMA CacheInvariant == Spec => []CacheInv
<1>1. Init => CacheInv
  BY EmptyCacheGood DEF Init, CacheInv
<1> QED
  BY <1>1, NextCache, ScopeInvariant, PTL DEF Spec

\* What the rehydrator has decided about an item stays decided while retries, other
\* items and later runs fill its cache.
THEOREM VerdictsAreStable == Spec => []VerdictsStable
<1>1. ScopeInv /\ CacheInv => VerdictsStable
  <2> SUFFICES ASSUME ScopeInv, CacheInv PROVE VerdictsStable
    OBVIOUS
  <2>1. \A i \in rehydrated \cup refused : source[i].parts \in Seq(Part)
    BY PartsType DEF ScopeInv, Narrowing, InScope
  <2> QED
    BY <2>1, CoveredRehydrates, RefusedIsBlocked DEF CacheInv, VerdictsStable
<1> QED
  BY <1>1, ScopeInvariant, CacheInvariant, PTL

-----------------------------------------------------------------------------
(* The report.  An upload result of this run is what the target holds,     *)
(* because nothing is overwritten and only the Upload step writes; a       *)
(* verdict stays right because Verify comes after the last write; and the  *)
(* report is computed from both when neither can change any more.          *)

OutcomeInv ==
  /\ resumedAt \in 0..5
  /\ DOMAIN outcome = Position
  /\ \A i \in Position :
       /\ outcome[i] \in {"created", "replay", "found"} => i \in UniqueDocuments
       /\ outcome[i] \in {"created", "replay"} => StoredAsTransformed(i)
       /\ outcome[i] = "found" => resumedAt >= 4
       /\ stage \in {"discover", "extract", "transform"} => outcome[i] = "none"

VerdictInv ==
  /\ \A i \in Verified : i \in Uploaded /\ Compare(i) = "verified"
  /\ stage \in {"discover", "extract", "transform", "upload", "verify"} => Verified = {}

\* Every extracted item has been transformed or refused when Transform is left.
NoneForgotten ==
  stage \in {"upload", "verify", "finalize", "done"} => extracted \subseteq rehydrated \cup refused

ReportIsFinal ==
  report # NoReport =>
    stage = "done" /\ report = [status |-> FinalStatus, reconciled |-> IsReconciled]

ReportInv == OutcomeInv /\ VerdictInv /\ NoneForgotten /\ ReportIsFinal

LEMMA ReportInit == Init => ReportInv
<1> SUFFICES ASSUME Init PROVE ReportInv
  OBVIOUS
<1>1. Position = {} /\ DOMAIN outcome = {}
  BY DEF Init, Position
<1>2. Verified = {}
  BY <1>1 DEF Verified, VerifiedIn
<1> QED
  BY <1>1, <1>2
  DEF Init, ReportInv, OutcomeInv, VerdictInv, NoneForgotten, ReportIsFinal

LEMMA BeginReport ==
  ASSUME NEW items, NEW configuration, NEW from \in 0..5, Begin(items, configuration, from)
  PROVE  ReportInv'
<1>1. Position' = DOMAIN items /\ stage' = "discover" /\ report' = NoReport
  BY DEF Begin, Position
<1>2. Verified' = {}
  BY <1>1 DEF Begin, Verified, VerifiedIn
<1> QED
  BY <1>1, <1>2
  DEF Begin, ReportInv, OutcomeInv, VerdictInv, NoneForgotten, ReportIsFinal

kept == << source, config, resumedAt, rehydrated, refused, outcome, verdict, storage, mirror >>

\* A step that only passes the stage on.
LEMMA QuietReport ==
  ASSUME ReportInv, UNCHANGED << kept, report >>, stage # "done",
         stage' \in {"discover", "extract", "transform"} =>
           stage \in {"discover", "extract", "transform"},
         stage' \in {"discover", "extract", "transform", "upload", "verify"} =>
           stage \in {"discover", "extract", "transform", "upload", "verify"},
         NoneForgotten'
  PROVE  ReportInv'
<1> USE DEF kept
<1>1. UNCHANGED << Position, UniqueDocuments, Verified, Uploaded >>
  BY DEF Position, UniqueDocuments, Verified, VerifiedIn, Uploaded, UploadedIn, Having
<1>2. \A i : UNCHANGED << StoredAsTransformed(i), Compare(i) >>
  BY DocumentsKept DEF StoredAsTransformed, Compare, UploadedDocument
<1>3. OutcomeInv'
  BY <1>1, <1>2 DEF ReportInv, OutcomeInv
<1>4. VerdictInv'
  BY <1>1, <1>2 DEF ReportInv, VerdictInv
<1>5. ReportIsFinal'
  BY DEF ReportInv, ReportIsFinal
<1> QED
  BY <1>3, <1>4, <1>5 DEF ReportInv

\* In a real run of the Upload step nothing is verified yet and nothing reported.
LEMMA NothingYet ==
  ASSUME ReportInv, stage \in {"discover", "extract", "transform", "upload", "verify"}
  PROVE  Verified = {} /\ report = NoReport
  BY DEF ReportInv, VerdictInv, ReportIsFinal

\* Nothing is uploaded or verified while the items are transformed.
LEMMA TransformReport ==
  ASSUME ReportInv, NEW i \in Position, TransformItem(i)
  PROVE  ReportInv'
<1> USE DEF TransformItem, runVars
<1>1. Verified' = {} /\ report' = NoReport /\ stage' = "transform"
  BY NothingYet DEF Verified, VerifiedIn, Position
<1>2. \A k \in Position' : outcome'[k] = "none"
  BY DEF ReportInv, OutcomeInv, Position
<1>3. OutcomeInv'
  BY <1>2 DEF ReportInv, OutcomeInv, Position
<1> QED
  BY <1>1, <1>3 DEF ReportInv, VerdictInv, NoneForgotten, ReportIsFinal

LEMMA UploadReport ==
  ASSUME ScopeInv, StorageType, ReportInv, NEW i \in Position, UploadItem(i)
  PROVE  ReportInv'
<1> DEFINE id == source[i].id
           version == DocumentOf(i)
<1>1. /\ stage = "upload" /\ stage' = "upload" /\ i \in UniqueDocuments
      /\ UNCHANGED << source, resumedAt, rehydrated, refused, extracted, verdict, report >>
  BY DEF UploadItem, runVars
<1>2. UNCHANGED << Position, UniqueDocuments >>
  BY <1>1 DEF Position, UniqueDocuments
<1>3. Verified' = {} /\ report' = NoReport
  BY <1>1, NothingYet DEF Verified, VerifiedIn, Position
<1>4. \A k : DocumentOf(k)' = DocumentOf(k)
  BY <1>1, DocumentsKept
<1>5. \A k \in Position : source[k].id \in Id /\ StoredOf[DocumentOf(k)] \in Version
  BY DocumentType
<1>6. OutcomeInv'
  <2>1. DOMAIN outcome' = Position'
    BY <1>2 DEF UploadItem, ReportInv, OutcomeInv
  <2>2. \A k \in Position : k # i => outcome'[k] = outcome[k]
    BY DEF UploadItem, ReportInv, OutcomeInv
  <2>3. outcome'[i] \in {"created", "replay", "conflict"}
    BY DEF UploadItem, ReportInv, OutcomeInv
  <2>4. \A k \in Position : StoredAsTransformed(k) => StoredAsTransformed(k)'
    BY <1>1, <1>4, <1>5, TargetAssumption
    DEF UploadItem, StorageType, StoredAsTransformed, AddDocument, Absent
  <2>5. outcome'[i] \in {"created", "replay"} => StoredAsTransformed(i)'
    <3>1. CASE outcome' = [outcome EXCEPT ![i] = "conflict"]
      BY <3>1 DEF ReportInv, OutcomeInv
    <3>2. CASE AddDocument(id, StoredOf[version])
      BY <1>1, <1>4, <1>5, <3>2 DEF AddDocument, StorageType, StoredAsTransformed
    <3>3. CASE SameDocument(id, StoredOf[version]) /\ UNCHANGED storage
      BY <1>1, <1>4, <3>3 DEF SameDocument, StoredAsTransformed
    <3> QED
      BY <3>1, <3>2, <3>3 DEF UploadItem
  <2> HIDE DEF id, version
  <2> QED
    BY <1>1, <1>2, <2>1, <2>2, <2>3, <2>4, <2>5 DEF ReportInv, OutcomeInv
<1> QED
  BY <1>1, <1>3, <1>6 DEF ReportInv, VerdictInv, NoneForgotten, ReportIsFinal

LEMMA FinishUploadReport ==
  ASSUME ScopeInv, ReportInv, FinishUpload
  PROVE  ReportInv'
<1>1. /\ stage = "upload" /\ stage' = "verify"
      /\ UNCHANGED << source, config, resumedAt, rehydrated, refused, extracted, verdict,
                      report, storage, mirror >>
  BY NextStage DEF FinishUpload, StepReturns, runVars
<1>2. UNCHANGED << Position, UniqueDocuments >>
  BY <1>1 DEF Position, UniqueDocuments
<1>3. Verified' = {} /\ report' = NoReport
  BY <1>1, NothingYet DEF Verified, VerifiedIn, Position
<1>4. Replaying => resumedAt >= 4
  <2>1. \A n \in 1..5 : Stages[n] = "upload" => n = 4
    BY DEF Stages
  <2> QED
    BY <1>1, <2>1 DEF Replaying, ReportInv, OutcomeInv
<1>5. \A k \in Position : AnswerWithoutUpload(k) \in {"none", "dry", "found", "missing"}
  BY DEF AnswerWithoutUpload
<1>6. \A k \in Position : AnswerWithoutUpload(k) = "found" => k \in UniqueDocuments /\ ~config.dry
  BY DEF AnswerWithoutUpload
<1>7. OutcomeInv'
  <2>1. CASE Replaying \/ config.dry
    <3>1. outcome' = WithDuplicates([k \in Position |-> AnswerWithoutUpload(k)])
      BY <2>1 DEF FinishUpload
    <3>2. /\ DOMAIN outcome' = Position
          /\ \A k \in Position : outcome'[k] \in {"duplicate", AnswerWithoutUpload(k)}
      BY <3>1 DEF WithDuplicates
    <3> QED
      BY <1>1, <1>2, <1>4, <1>5, <1>6, <2>1, <3>2 DEF ReportInv, OutcomeInv
  <2>2. CASE ~(Replaying \/ config.dry)
    <3>1. /\ DOMAIN outcome' = Position
          /\ \A k \in Position : outcome'[k] \in {"duplicate", outcome[k]}
      BY <2>2 DEF FinishUpload, WithDuplicates
    <3>2. \A k \in Position : StoredAsTransformed(k)' <=> StoredAsTransformed(k)
      BY <1>1, DocumentsKept DEF StoredAsTransformed
    <3> QED
      BY <1>1, <1>2, <3>1, <3>2 DEF ReportInv, OutcomeInv
  <2> QED
    BY <2>1, <2>2
<1> QED
  BY <1>1, <1>3, <1>7 DEF ReportInv, VerdictInv, NoneForgotten, ReportIsFinal

LEMMA RetryReport ==
  ASSUME ReportInv, RetryStep
  PROVE  ReportInv'
<1>1. /\ stage \in {"transform", "upload"} /\ stage' = stage
      /\ UNCHANGED << source, resumedAt, extracted, verdict, report >>
  BY DEF RetryStep, runVars
<1>2. UNCHANGED Position /\ Verified' = {} /\ report' = NoReport
  BY <1>1, NothingYet DEF Verified, VerifiedIn, Position
<1>3. DOMAIN outcome' = Position /\ \A k \in Position : outcome'[k] = "none"
  BY <1>1 DEF RetryStep, ReportInv, OutcomeInv
<1>4. OutcomeInv'
  BY <1>1, <1>2, <1>3 DEF ReportInv, OutcomeInv
<1>5. NoneForgotten'
  BY <1>1 DEF RetryStep, ReportInv, NoneForgotten
<1> QED
  BY <1>1, <1>2, <1>4, <1>5 DEF ReportInv, VerdictInv, ReportIsFinal

LEMMA VerifyReport ==
  ASSUME ReportInv, Verify
  PROVE  ReportInv'
<1>1. /\ stage = "verify" /\ stage' = "finalize" /\ report' = NoReport
      /\ UNCHANGED << source, config, resumedAt, rehydrated, refused, extracted, outcome,
                      storage, mirror >>
  BY NextStage, NothingYet DEF Verify, StepReturns, runVars, targetState
<1>2. UNCHANGED << Position, UniqueDocuments, Uploaded >>
  BY <1>1 DEF Position, UniqueDocuments, Uploaded, UploadedIn, Having
<1>3. \A k : UNCHANGED << StoredAsTransformed(k), Compare(k) >>
  BY <1>1, DocumentsKept DEF StoredAsTransformed, Compare, UploadedDocument
<1>4. OutcomeInv'
  BY <1>1, <1>2, <1>3 DEF ReportInv, OutcomeInv
<1>5. \A k \in Verified' : k \in Uploaded /\ Compare(k) = "verified"
  <2>1. \A k \in Position : verdict'[k] = IF k \in Uploaded /\ ~config.dry THEN Compare(k)
                                           ELSE "none"
    BY DEF Verify
  <2> QED
    BY <1>2, <2>1 DEF Verified, VerifiedIn
<1> QED
  BY <1>1, <1>2, <1>3, <1>4, <1>5 DEF ReportInv, VerdictInv, NoneForgotten, ReportIsFinal

LEMMA FinalizeReport ==
  ASSUME ReportInv, FinalizeMigration
  PROVE  ReportInv'
<1>1. stage = "finalize" /\ stage' = "done" /\ UNCHANGED << kept, extracted, discovered >>
  BY NextStage DEF FinalizeMigration, StepReturns, runVars, results, targetState, kept
<1> USE DEF kept
<1>2. UNCHANGED << Position, UniqueDocuments, Verified, Unverified, Uploaded, Failed, Skipped >>
  BY <1>1 DEF Position, UniqueDocuments, Verified, VerifiedIn, Unverified, UnverifiedIn,
              Uploaded, UploadedIn, Failed, FailedIn, Skipped, SkippedIn, Having
<1>3. \A k : UNCHANGED << StoredAsTransformed(k), Compare(k) >>
  BY <1>1, DocumentsKept DEF StoredAsTransformed, Compare, UploadedDocument
<1>4. OutcomeInv' /\ VerdictInv' /\ NoneForgotten'
  BY <1>1, <1>2, <1>3 DEF ReportInv, OutcomeInv, VerdictInv, NoneForgotten
<1>5. UNCHANGED << ExpectedItems, DryRunItems, UploadedItems, IdempotentReplays, MissingItems >>
  BY <1>1, <1>2 DEF ExpectedItems, DryRunItems, UploadedItems, IdempotentReplays,
                    MissingItems, Having
<1>6. UNCHANGED IsReconciled
  BY <1>1, <1>2, <1>5 DEF IsReconciled
<1>7. UNCHANGED FinalStatus
  <2>1. UNCHANGED << IsDryRunCompleted, ReportHasWarnings >>
    BY <1>1, <1>2, <1>5
    DEF IsDryRunCompleted, ReportHasWarnings, HasWarnings, RealOnly, FailedItems, runVars
  <2> QED
    BY <1>6, <2>1 DEF FinalStatus
<1>8. ReportIsFinal'
  BY <1>1, <1>6, <1>7 DEF FinalizeMigration, ReportIsFinal
<1> QED
  BY <1>4, <1>8 DEF ReportInv

LEMMA NextReport ==
  ASSUME ScopeInv, StorageType, ReportInv, [Next]_vars
  PROVE  ReportInv'
<1>1. CASE StartRun
  BY <1>1, BeginReport DEF StartRun
<1>2. CASE StartResume
  <2>1. PICK items, own :
          Begin(items, ResumeConfiguration(own), checkpoint.step) /\ checkpoint.step \in 1..5
    BY <1>2 DEF StartResume, Stages
  <2> QED
    BY <2>1, BeginReport
<1>3. CASE Discover
  BY <1>3, NextStage, QuietReport
  DEF Discover, StepReturns, runVars, kept, targetState, NoneForgotten
<1>4. CASE Extract
  BY <1>4, NextStage, QuietReport
  DEF Extract, StepReturns, runVars, kept, targetState, NoneForgotten
<1>5. ASSUME NEW i \in Position, TransformItem(i) PROVE ReportInv'
  BY <1>5, TransformReport
<1>6. CASE FinishTransform
  <2>1. NoneForgotten'
    BY <1>6 DEF FinishTransform, Untransformed, NoneForgotten, results
  <2> QED
    BY <1>6, <2>1, NextStage, QuietReport
    DEF FinishTransform, StepReturns, runVars, kept, targetState, results
<1>7. ASSUME NEW i \in Position, UploadItem(i) PROVE ReportInv'
  BY <1>7, UploadReport
<1>8. CASE FinishUpload
  BY <1>8, FinishUploadReport
<1>9. CASE RetryStep
  BY <1>9, RetryReport
<1>10. CASE Verify
  BY <1>10, VerifyReport
<1>11. CASE FinalizeMigration
  BY <1>11, FinalizeReport
<1>12. CASE Stop
  BY <1>12, QuietReport DEF Stop, runVars, kept, targetState, results, NoneForgotten
<1>13. CASE UNCHANGED vars
  <2>1. UNCHANGED << kept, report, stage, extracted, discovered >>
    BY <1>13 DEF vars, kept
  <2>2. CASE stage # "done"
    BY <2>1, <2>2, QuietReport DEF ReportInv, NoneForgotten, kept
  <2>3. CASE stage = "done"
    <3> USE DEF kept
    <3>1. UNCHANGED << Position, UniqueDocuments, Verified, Unverified, Uploaded, Failed,
                       Skipped >>
      BY <2>1 DEF Position, UniqueDocuments, Verified, VerifiedIn, Unverified, UnverifiedIn,
                  Uploaded, UploadedIn, Failed, FailedIn, Skipped, SkippedIn, Having
    <3>2. \A k : UNCHANGED << StoredAsTransformed(k), Compare(k) >>
      BY <2>1, DocumentsKept DEF StoredAsTransformed, Compare, UploadedDocument
    <3>3. UNCHANGED << ExpectedItems, DryRunItems, UploadedItems, IdempotentReplays,
                       MissingItems >>
      BY <2>1, <3>1 DEF ExpectedItems, DryRunItems, UploadedItems, IdempotentReplays,
                        MissingItems, Having
    <3>4. UNCHANGED << IsReconciled, FinalStatus >>
      <4>1. UNCHANGED << IsReconciled, IsDryRunCompleted, ReportHasWarnings >>
        BY <2>1, <3>1, <3>3
        DEF IsReconciled, IsDryRunCompleted, ReportHasWarnings, HasWarnings, RealOnly,
            FailedItems
      <4> QED
        BY <4>1 DEF FinalStatus
    <3> QED
      BY <2>1, <3>1, <3>2, <3>4
      DEF ReportInv, OutcomeInv, VerdictInv, NoneForgotten, ReportIsFinal
  <2> QED
    BY <2>2, <2>3
<1> QED
  BY <1>1, <1>2, <1>3, <1>4, <1>5, <1>6, <1>7, <1>8, <1>9, <1>10, <1>11, <1>12, <1>13
  DEF Next

LEMMA ReportInvariant == Spec => []ReportInv
  BY ReportInit, NextReport, ScopeInvariant, StorageInvariant, PTL DEF Spec

\* A reconciled real run has verified everything it transformed, each under a key of
\* its own: there are as many verified items as transformed ones, and only the first
\* item of an identifier can be verified.
LEMMA ReconciledMeansVerified ==
  ASSUME ScopeInv, ReportInv, IsReconciled, ~config.dry
  PROVE  rehydrated = Verified /\ rehydrated = UniqueDocuments
<1>1. Verified \subseteq UniqueDocuments /\ UniqueDocuments \subseteq rehydrated
  BY DEF ReportInv, VerdictInv, OutcomeInv, Uploaded, UploadedIn, Having, UniqueDocuments
<1>2. IsFiniteSet(rehydrated)
  <2>1. rehydrated \subseteq Position
    BY DEF ScopeInv, Narrowing, InScope
  <2> QED
    BY <2>1, PositionFinite, FS_Subset
<1>3. Cardinality(rehydrated) = Cardinality(Verified)
  BY DEF IsReconciled, ExpectedItems
<1>4. rehydrated = Verified
  BY <1>1, <1>2, <1>3, FS_Subset
<1> QED
  BY <1>1, <1>4

\* What a real run reports as reconciled is in the target, as far as the verification
\* compares documents, whatever was retried, stopped or resumed before.
THEOREM ReconciliationsAreSound == Spec => []ReconciliationSound
<1>1. ScopeInv /\ ReportInv => ReconciliationSound
  <2> SUFFICES ASSUME ScopeInv, ReportInv, RealReport, report.reconciled,
                      NEW i \in rehydrated
               PROVE  /\ UploadedDocument(source[i].id) # None
                      /\ SignatureOf[mirror[source[i].id]] = SignatureOf[DocumentOf(i)]
                      /\ \A k \in rehydrated : source[k].id = source[i].id => k = i
    BY DEF ReconciliationSound
  <2>1. rehydrated = Verified /\ rehydrated = UniqueDocuments
    BY ReconciledMeansVerified DEF RealReport, ReportInv, ReportIsFinal
  <2>2. Compare(i) = "verified"
    BY <2>1 DEF ReportInv, VerdictInv
  <2>3. \A k \in rehydrated : k \in Nat
    BY DEF ScopeInv, Narrowing, InScope, Position, RunType
  <2>4. \A k \in rehydrated : source[k].id = source[i].id => k = i
    BY <2>1, <2>3 DEF UniqueDocuments
  <2> QED
    BY <2>2, <2>4 DEF Compare, UploadedDocument
<1> QED
  BY <1>1, ScopeInvariant, ReportInvariant, PTL

\* A reconciled run that did its own uploads has stored every document exactly.
THEOREM UploadsReconcileExactly == Spec => []UploadedReconciliationExact
<1>1. ScopeInv /\ ReportInv => UploadedReconciliationExact
  <2> SUFFICES ASSUME ScopeInv, ReportInv, RealReport, report.reconciled, resumedAt < 4,
                      NEW i \in rehydrated
               PROVE  StoredAsTransformed(i)
    BY DEF UploadedReconciliationExact
  <2>1. i \in Uploaded /\ i \in Position
    BY ReconciledMeansVerified
    DEF RealReport, ReportInv, ReportIsFinal, VerdictInv, Verified, VerifiedIn
  <2>2. outcome[i] # "found"
    BY <2>1 DEF ReportInv, OutcomeInv
  <2> QED
    BY <2>1, <2>2 DEF Uploaded, UploadedIn, Having, ReportInv, OutcomeInv
<1> QED
  BY <1>1, ScopeInvariant, ReportInvariant, PTL

\* A real run that calls itself completed has delivered every item it extracted or
\* lists it and warns.
THEOREM NothingIsLost == Spec => []NothingLostSilently
<1>1. ScopeInv /\ StorageType /\ ReportInv => NothingLostSilently
  <2> SUFFICES ASSUME ScopeInv, StorageType, ReportInv, RealReport,
                      report.status \in {"completed", "completed_with_warnings"},
                      NEW i \in extracted
               PROVE  \/ i \in Verified /\ storage[source[i].id] # None
                      \/ i \in ErrorBreakdown /\ report.status = "completed_with_warnings"
    BY DEF NothingLostSilently
  <2>1. stage = "done" /\ report.status = FinalStatus /\ ~config.dry
    BY DEF RealReport, ReportInv, ReportIsFinal
  <2>2. IsReconciled
    BY <2>1 DEF FinalStatus
  <2>3. CASE i \in rehydrated
    BY <2>1, <2>2, <2>3, ReconciledMeansVerified
    DEF ReportInv, VerdictInv, Compare, UploadedDocument
  <2>4. CASE i \notin rehydrated
    <3>1. i \in refused
      BY <2>1, <2>4 DEF ReportInv, NoneForgotten
    <3>2. report.status # "completed"
      <4>1. ReportHasWarnings
        BY <3>1 DEF ReportHasWarnings, HasWarnings
      <4> QED
        BY <2>1, <2>2, <4>1 DEF FinalStatus
    <3> QED
      BY <3>1, <3>2 DEF ErrorBreakdown
  <2> QED
    BY <2>3, <2>4
<1> QED
  BY <1>1, ScopeInvariant, StorageInvariant, ReportInvariant, PTL

-----------------------------------------------------------------------------
(* Types.                                                                  *)

Kinds == {"none", "created", "replay", "conflict", "found", "missing", "dry", "duplicate"}
Verdicts == {"none", "verified", "missing", "mismatch"}

RunsType ==
  /\ { source, origin.items, savedOrigin.items } \subseteq Sources \cup {<< >>}
  /\ stage \in { Stages[n] : n \in DOMAIN Stages } \cup {"idle", "stopped", "done"}
  /\ retries \in 0..MaxRetries /\ runs \in 0..MaxRuns

ResultType ==
  /\ discovered \subseteq Archive
  /\ rehydrated \cap refused = {}
  /\ outcome \in [Position -> Kinds]
  /\ \A i \in Position : outcome[i] # "none" => i \in rehydrated
  /\ verdict \in [Position -> Verdicts]

CountsType ==
  /\ metrics \in Counts
  /\ checkpoint \in [step : 0..6, counts : Counts, config : Config]

TargetRest ==
  /\ session \in [exists : BOOLEAN, documents : Seq(Id), completed : BOOLEAN]
  /\ lock = 0

LEMMA StageKinds ==
  { Stages[n] : n \in DOMAIN Stages } =
    {"discover", "extract", "transform", "upload", "verify", "finalize"}
<1>1. DOMAIN Stages = 1..6
  BY DEF Stages
<1> QED
  BY <1>1 DEF Stages

\* What a step that returns makes of the variables about runs.
LEMMA ReturnsRuns ==
  ASSUME RunsType, StepReturns,
         stage \in {"discover", "extract", "transform", "upload", "verify", "finalize"}
  PROVE  RunsType'
<1>1. stage' \in {"extract", "transform", "upload", "verify", "finalize", "done"}
  BY NextStage
<1>2. /\ UNCHANGED << source, origin, runs >> /\ retries' = 0
      /\ savedOrigin' \in {savedOrigin, origin}
  BY DEF StepReturns, runVars
<1>3. 0 \in 0..MaxRetries
  BY PipelineAssumption
<1> QED
  BY <1>1, <1>2, <1>3, StageKinds DEF RunsType

LEMMA BeginRuns ==
  ASSUME RunsType, NEW items \in Sources \cup {<< >>}, NEW configuration, NEW from,
         Begin(items, configuration, from), origin'.items = items
  PROVE  RunsType'
<1>1. /\ source' = items /\ stage' = "discover" /\ retries' = 0 /\ runs' = runs + 1
      /\ runs < MaxRuns /\ savedOrigin' = savedOrigin
  BY DEF Begin
<1>2. retries' \in 0..MaxRetries /\ runs' \in 0..MaxRuns
  BY <1>1, PipelineAssumption DEF RunsType
<1> QED
  BY <1>1, <1>2, StageKinds DEF RunsType

LEMMA NextRuns ==
  ASSUME ScopeInv, RunsType, [Next]_vars
  PROVE  RunsType'
<1>1. CASE StartRun
  <2>1. PICK items \in Sources, configuration \in Configs :
          /\ Begin(items, configuration, 0)
          /\ origin' = [items |-> items, config |-> configuration]
    BY <1>1 DEF StartRun
  <2> QED
    BY <2>1, BeginRuns
<1>2. CASE StartResume
  <2>1. PICK items \in IF LiveSource THEN Sources ELSE {savedOrigin.items}, own \in Configs :
          /\ Begin(items, ResumeConfiguration(own), checkpoint.step)
          /\ origin' = [savedOrigin EXCEPT !.items = items]
    BY <1>2 DEF StartResume
  <2>2. items \in Sources \cup {<< >>}
    BY DEF RunsType
  <2>3. origin'.items = items
    BY <2>1 DEF ScopeInv, RunType, Origin
  <2> QED
    BY <2>1, <2>2, <2>3, BeginRuns
<1>3. CASE Discover \/ Extract \/ FinishTransform \/ FinishUpload \/ Verify
             \/ FinalizeMigration
  BY <1>3, ReturnsRuns
  DEF Discover, Extract, FinishTransform, FinishUpload, Verify, FinalizeMigration
<1>4. ASSUME NEW i \in Position, TransformItem(i) \/ UploadItem(i) PROVE RunsType'
  BY <1>4 DEF TransformItem, UploadItem, runVars, RunsType
<1>5. CASE RetryStep
  <2>1. retries' \in 0..MaxRetries
    BY <1>5, PipelineAssumption DEF RetryStep, RunsType
  <2> QED
    BY <1>5, <2>1 DEF RetryStep, runVars, RunsType
<1>6. CASE Stop
  BY <1>6 DEF Stop, runVars, RunsType
<1>7. CASE UNCHANGED vars
  BY <1>7 DEF vars, RunsType
<1> QED
  BY <1>1, <1>2, <1>3, <1>4, <1>5, <1>6, <1>7 DEF Next

\* A step that leaves the results of the items alone.
LEMMA ResultsKept ==
  ASSUME ResultType, UNCHANGED << source, discovered, rehydrated, refused, outcome, verdict >>
  PROVE  ResultType'
  BY DEF ResultType, Position

LEMMA FinishUploadOutcome ==
  ASSUME ScopeInv, ResultType, FinishUpload
  PROVE  /\ outcome' \in [Position -> Kinds]
         /\ \A i \in Position : outcome'[i] # "none" <=> i \in rehydrated
         /\ config.dry => \A i \in Position : outcome'[i] \in {"none", "dry", "duplicate"}
         /\ ~config.dry /\ (\A i \in Position : outcome[i] # "dry") =>
              \A i \in Position : outcome'[i] # "dry"
<1>1. UniqueDocuments \subseteq rehydrated /\ rehydrated \subseteq Position
  BY DEF UniqueDocuments, ScopeInv, Narrowing, InScope
<1>2. CASE Replaying \/ config.dry
  <2>1. outcome' = [i \in Position |-> IF i \in rehydrated \ UniqueDocuments THEN "duplicate"
                                       ELSE AnswerWithoutUpload(i)]
    BY <1>2 DEF FinishUpload, WithDuplicates
  <2>2. \A i \in Position :
          /\ AnswerWithoutUpload(i) \in {"none", "dry", "found", "missing"}
          /\ AnswerWithoutUpload(i) # "none" <=> i \in UniqueDocuments
          /\ config.dry => AnswerWithoutUpload(i) \in {"none", "dry"}
          /\ ~config.dry => AnswerWithoutUpload(i) # "dry"
    BY DEF AnswerWithoutUpload
  <2> QED
    BY <1>1, <2>1, <2>2 DEF Kinds
<1>3. CASE ~(Replaying \/ config.dry)
  <2>1. /\ outcome' = [i \in Position |-> IF i \in rehydrated \ UniqueDocuments
                                          THEN "duplicate" ELSE outcome[i]]
        /\ \A i \in UniqueDocuments : outcome[i] # "none"
    BY <1>3 DEF FinishUpload, WithDuplicates
  <2> QED
    BY <1>1, <1>3, <2>1 DEF ResultType, Kinds
<1> QED
  BY <1>2, <1>3

LEMMA NextResults ==
  ASSUME ScopeInv, RunsType, ResultType, ReportInv, [Next]_vars
  PROVE  ResultType'
<1>1. CASE StartRun \/ StartResume
  <2>1. PICK items, configuration, from : Begin(items, configuration, from)
    BY <1>1 DEF StartRun, StartResume
  <2>2. Position' = DOMAIN items
    BY <2>1 DEF Begin, Position
  <2> QED
    BY <2>1, <2>2 DEF Begin, ResultType, Kinds, Verdicts
<1>2. CASE Discover
  <2>1. discovered' \subseteq Archive
    BY <1>2 DEF Discover, ScopeInv, RunType, Config
  <2> QED
    BY <1>2, <2>1 DEF Discover, StepReturns, runVars, ResultType, Position
<1>3. CASE Extract \/ FinishTransform \/ FinalizeMigration
  BY <1>3, ResultsKept
  DEF Extract, FinishTransform, FinalizeMigration, StepReturns, runVars, results
<1>4. ASSUME NEW i \in Position, TransformItem(i) PROVE ResultType'
  BY <1>4 DEF TransformItem, Untransformed, runVars, ResultType, Position
<1>5. ASSUME NEW i \in Position, UploadItem(i) PROVE ResultType'
  <2>1. /\ outcome' = [outcome EXCEPT ![i] = outcome'[i]]
        /\ outcome'[i] \in {"created", "replay", "conflict"} /\ i \in rehydrated
        /\ UNCHANGED << source, discovered, rehydrated, refused, verdict >>
    BY <1>5 DEF UploadItem, UniqueDocuments, runVars, ResultType
  <2> QED
    BY <2>1 DEF ResultType, Position, Kinds
<1>6. CASE FinishUpload
  BY <1>6, FinishUploadOutcome DEF FinishUpload, StepReturns, runVars, ResultType, Position
<1>7. CASE RetryStep
  <2>1. Position' = Position /\ UNCHANGED << discovered, verdict >>
    BY <1>7 DEF RetryStep, runVars, Position
  <2>2. CASE stage = "transform"
    <3>1. \A i \in Position : outcome[i] = "none"
      BY <2>2 DEF ReportInv, OutcomeInv
    <3> QED
      BY <1>7, <2>1, <2>2, <3>1 DEF RetryStep, ResultType
  <2>3. CASE stage = "upload"
    BY <1>7, <2>1, <2>3 DEF RetryStep, ResultType, Kinds
  <2> QED
    BY <1>7, <2>2, <2>3 DEF RetryStep
<1>8. CASE Verify
  <2>1. verdict' \in [Position -> Verdicts]
    BY <1>8 DEF Verify, Compare, Verdicts
  <2> QED
    BY <1>8, <2>1 DEF Verify, StepReturns, runVars, ResultType, Position
<1>9. CASE Stop \/ UNCHANGED vars
  BY <1>9, ResultsKept DEF Stop, vars, runVars, results
<1> QED
  BY <1>1, <1>2, <1>3, <1>4, <1>5, <1>6, <1>7, <1>8, <1>9 DEF Next

LEMMA NextRest ==
  ASSUME ScopeInv, TargetRest, [Next]_vars
  PROVE  TargetRest'
<1>1. ASSUME NEW i \in Position, UploadItem(i) PROVE TargetRest'
  <2>1. Append(session.documents, source[i].id) \in Seq(Id)
    BY DocumentType DEF TargetRest
  <2> QED
    BY <1>1, <2>1 DEF UploadItem, TargetRest
<1>2. CASE FinishUpload
  BY <1>2 DEF FinishUpload, FinalizeJob, FinalizeUpload, TargetRest
<1> QED
  BY <1>1, <1>2
  DEF Next, vars, StartRun, StartResume, Begin, Discover, Extract, TransformItem,
      FinishTransform, RetryStep, Verify, FinalizeMigration, Stop, targetState, TargetRest

-----------------------------------------------------------------------------
(* Counters.  Each step publishes how many items it found to have gone one *)
(* way or another; they are cardinalities of sets that part the items.     *)

Balanced(counts) == counts.total = counts.successful + counts.failed + counts.skipped

LEMMA Counted ==
  ASSUME ScopeInv, NEW S \in SUBSET Position
  PROVE  IsFiniteSet(S) /\ Cardinality(S) \in Nat /\ (S # {} => Cardinality(S) # 0)
<1>1. IsFiniteSet(S)
  BY PositionFinite, FS_Subset
<1> QED
  BY <1>1, FS_CardinalityType, FS_EmptySet

LEMMA PartsAdd ==
  ASSUME ScopeInv, NEW S \in SUBSET Position, NEW T \in SUBSET Position, S \cap T = {}
  PROVE  Cardinality(S \cup T) = Cardinality(S) + Cardinality(T)
<1>1. IsFiniteSet(S) /\ IsFiniteSet(T) /\ Cardinality(S) \in Nat /\ Cardinality(T) \in Nat
  BY Counted
<1>2. Cardinality(S \cup T) = Cardinality(S) + Cardinality(T) - Cardinality(S \cap T)
  BY <1>1, FS_Union
<1>3. Cardinality(S \cap T) = 0
  BY FS_EmptySet
<1> QED
  BY <1>1, <1>2, <1>3

Fields == {"total", "successful", "failed", "skipped", "filtered", "archives", "dry",
           "uploaded", "unverified"}

LEMMA CountsAre == Counts = [Fields -> Nat]
<1>1. DOMAIN NoCounts = Fields
  BY DEF NoCounts, Fields
<1> QED
  BY <1>1 DEF Counts

LEMMA ProcessedCounts ==
  ASSUME metrics \in Counts, NEW n \in Nat, NEW m \in Nat
  PROVE  Processed(n, m) \in Counts /\ Balanced(Processed(n, m))
<1>1. metrics \in [Fields -> Nat]
  BY CountsAre
<1>2. n + m \in Nat /\ 0 \in Nat
  OBVIOUS
<1>3. Processed(n, m) \in [Fields -> Nat]
  BY <1>1, <1>2 DEF Processed
<1>4. /\ Processed(n, m).total = n + m /\ Processed(n, m).successful = n
      /\ Processed(n, m).failed = m /\ Processed(n, m).skipped = 0
  BY <1>1 DEF Processed, Fields
<1> QED
  BY <1>3, <1>4, CountsAre DEF Balanced

\* Discover.
LEMMA ArchivesCounted ==
  ASSUME ScopeInv
  PROVE  \A some \in SUBSET SourceArchives : Cardinality(some) \in Nat
<1>1. IsFiniteSet(SourceArchives)
  <2> DEFINE f == [i \in Position |-> source[i].archive]
  <2>1. f \in Surjection(Position, SourceArchives)
    BY DEF Surjection, SourceArchives
  <2> HIDE DEF f
  <2> QED
    BY <2>1, PositionFinite, FS_Surjection
<1> QED
  BY <1>1, FS_Subset, FS_CardinalityType

\* What has an outcome and a verdict, and when.
ResultsComplete ==
  /\ stage \in {"verify", "finalize", "done"} => \A i \in rehydrated : outcome[i] # "none"
  /\ \A i \in Position :
       IF config.dry THEN outcome[i] \in {"none", "dry", "duplicate"} ELSE outcome[i] # "dry"
  /\ \A i \in Position :
       verdict[i] # "none" =>
         /\ i \in Uploaded /\ ~config.dry
         /\ stage \notin {"discover", "extract", "transform", "upload", "verify"}
  /\ stage \in {"finalize", "done"} /\ ~config.dry => \A i \in Uploaded : verdict[i] # "none"

LEMMA NextComplete ==
  ASSUME ScopeInv, ResultType, ReportInv, ResultsComplete, [Next]_vars
  PROVE  ResultsComplete'
<1> USE DEF ResultsComplete, Position
<1>1. ASSUME UNCHANGED << source, config, outcome, verdict >>,
             stage' \in {"verify", "finalize", "done"} =>
               stage \in {"verify", "finalize", "done"} /\ rehydrated' = rehydrated,
             stage' \in {"discover", "extract", "transform", "upload", "verify"} =>
               stage \in {"discover", "extract", "transform", "upload", "verify"},
             stage' \in {"finalize", "done"} => stage \in {"finalize", "done"}
      PROVE  ResultsComplete'
  BY <1>1 DEF Uploaded, UploadedIn, Having
<1>2. CASE StartRun \/ StartResume
  <2>1. PICK items, configuration, from : Begin(items, configuration, from)
    BY <1>2 DEF StartRun, StartResume
  <2>2. /\ stage' = "discover" /\ Position' = DOMAIN items
        /\ \A i \in Position' : outcome'[i] = "none" /\ verdict'[i] = "none"
    BY <2>1 DEF Begin
  <2> QED
    BY <2>2
<1>3. CASE Discover \/ Extract \/ FinishTransform
  <2>1. /\ UNCHANGED << source, config, outcome, verdict >>
        /\ stage \in {"discover", "extract", "transform"}
        /\ stage' \in {"extract", "transform", "upload"}
    BY <1>3, NextStage DEF Discover, Extract, FinishTransform, StepReturns, runVars, results
  <2> QED
    BY <1>1, <2>1
<1>4. ASSUME NEW i \in Position, TransformItem(i) PROVE ResultsComplete'
  BY <1>1, <1>4 DEF TransformItem, runVars
<1>5. ASSUME NEW i \in Position, UploadItem(i) PROVE ResultsComplete'
  <2>1. /\ outcome' = [outcome EXCEPT ![i] = outcome'[i]]
        /\ outcome'[i] \in {"created", "replay", "conflict"} /\ ~config.dry
        /\ stage = "upload" /\ UNCHANGED << source, config, stage, verdict >>
    BY <1>5 DEF UploadItem, runVars, ResultType
  <2>2. \A k \in Position : verdict[k] = "none" /\ (outcome'[k] # "dry")
    BY <2>1 DEF ResultType
  <2> QED
    BY <2>1, <2>2
<1>6. CASE FinishUpload
  <2>1. /\ stage = "upload" /\ stage' = "verify"
        /\ UNCHANGED << source, config, rehydrated, verdict >>
    BY <1>6, NextStage DEF FinishUpload, StepReturns, runVars
  <2>2. rehydrated \subseteq Position
    BY DEF ScopeInv, Narrowing, InScope
  <2>3. \A k \in Position : verdict'[k] = "none"
    BY <2>1
  <2> QED
    BY <1>6, <2>1, <2>2, <2>3, FinishUploadOutcome
<1>7. CASE RetryStep
  <2>1. /\ stage \in {"transform", "upload"} /\ UNCHANGED << stage, source, config, verdict >>
        /\ \A k \in Position : outcome'[k] = "none" \/ outcome' = outcome
    BY <1>7 DEF RetryStep, runVars
  <2>2. \A k \in Position : verdict[k] = "none"
    BY <2>1
  <2> QED
    BY <2>1, <2>2
<1>8. CASE Verify
  <2>1. /\ stage = "verify" /\ stage' = "finalize"
        /\ UNCHANGED << source, config, rehydrated, outcome, Uploaded >>
    BY <1>8, NextStage DEF Verify, StepReturns, runVars, Uploaded, UploadedIn, Having
  <2>2. \A k \in Position :
          IF k \in Uploaded /\ ~config.dry THEN verdict'[k] \in {"verified", "missing", "mismatch"}
          ELSE verdict'[k] = "none"
    BY <1>8 DEF Verify, Compare
  <2>3. Uploaded \subseteq Position
    BY DEF Uploaded, UploadedIn, Having
  <2> QED
    BY <2>1, <2>2, <2>3
<1>9. CASE FinalizeMigration
  <2>1. stage = "finalize" /\ stage' = "done" /\ UNCHANGED << results, source, config >>
    BY <1>9, NextStage DEF FinalizeMigration, StepReturns, runVars
  <2> QED
    BY <1>1, <2>1 DEF results
<1>10. CASE Stop \/ UNCHANGED vars
  BY <1>1, <1>10 DEF Stop, vars, results, runVars
<1> QED
  BY <1>2, <1>3, <1>4, <1>5, <1>6, <1>7, <1>8, <1>9, <1>10 DEF Next

BalanceInv ==
  /\ ~(stage = "done" /\ config.dry) => Balanced(metrics)
  /\ checkpoint.step # 6 => Balanced(checkpoint.counts)
  /\ stage = "verify" => metrics.total = Cardinality(Position \ Having(outcome, {"none"}))

\* An upload result is uploaded, failed or skipped, and in a dry run skipped.
LEMMA UploadsCounted ==
  ASSUME ScopeInv, metrics \in Counts, NEW answer \in [Position -> Kinds],
         \A i \in Position :
           IF config.dry THEN answer[i] \in {"none", "dry", "duplicate"} ELSE answer[i] # "dry"
  PROVE  /\ UploadCounts(answer) \in Counts
         /\ Balanced(UploadCounts(answer))
         /\ UploadCounts(answer).total = Cardinality(Position \ Having(answer, {"none"}))
<1> DEFINE total == Cardinality(Position \ Having(answer, {"none"}))
           real == Cardinality(Having(answer, {"dry"})) = 0
           successful == IF real THEN Cardinality(UploadedIn(answer)) ELSE 0
           failed == Cardinality(FailedIn(answer))
           skipped == Cardinality(SkippedIn(answer))
<1>1. \A K : Having(answer, K) \subseteq Position /\ Cardinality(Having(answer, K)) \in Nat
  <2> TAKE K
  <2>1. Having(answer, K) \in SUBSET Position
    BY DEF Having
  <2> QED
    BY <2>1, Counted
<1>2. total \in Nat
  BY Counted
<1>3. Cardinality(UploadedIn(answer)) \in Nat /\ failed \in Nat /\ skipped \in Nat
  BY <1>1 DEF UploadedIn, FailedIn, SkippedIn
<1>4. total = Cardinality(UploadedIn(answer)) + failed + skipped
  <2> DEFINE U == UploadedIn(answer)
             F == FailedIn(answer)
             S == SkippedIn(answer)
  <2>1. /\ Position \ Having(answer, {"none"}) = (U \cup F) \cup S
        /\ U \cap F = {} /\ (U \cup F) \cap S = {}
        /\ U \in SUBSET Position /\ F \in SUBSET Position /\ S \in SUBSET Position
        /\ U \cup F \in SUBSET Position
    BY DEF UploadedIn, FailedIn, SkippedIn, Having, Kinds
  <2> HIDE DEF U, F, S
  <2>2. /\ Cardinality(U \cup F) = Cardinality(U) + Cardinality(F)
        /\ Cardinality((U \cup F) \cup S) = Cardinality(U \cup F) + Cardinality(S)
    BY <2>1, PartsAdd
  <2>3. Cardinality((U \cup F) \cup S) = Cardinality(U) + Cardinality(F) + Cardinality(S)
    BY <2>2
  <2> QED
    BY <2>1, <2>3 DEF U, F, S
<1>5. ~real => Cardinality(UploadedIn(answer)) = 0
  <2> SUFFICES ASSUME ~real PROVE Cardinality(UploadedIn(answer)) = 0
    OBVIOUS
  <2>1. Having(answer, {"dry"}) # {}
    BY FS_EmptySet
  <2>2. UploadedIn(answer) = {}
    BY <2>1 DEF Having, UploadedIn
  <2> QED
    BY <2>2, FS_EmptySet
<1>6. successful \in Nat /\ total = successful + failed + skipped
  BY <1>3, <1>4, <1>5
<1> HIDE DEF total, successful, failed, skipped
<1>7. metrics \in [Fields -> Nat]
  BY CountsAre
<1>8. UploadCounts(answer) \in [Fields -> Nat]
  <2>1. /\ Cardinality(Having(answer, {"dry"})) \in Nat
        /\ Cardinality(Having(answer, {"created", "found"})) \in Nat
    BY <1>1
  <2> QED
    BY <1>2, <1>3, <1>6, <1>7, <2>1
    DEF UploadCounts, total, successful, failed, skipped
<1>9. /\ UploadCounts(answer).total = total /\ UploadCounts(answer).successful = successful
      /\ UploadCounts(answer).failed = failed /\ UploadCounts(answer).skipped = skipped
  BY <1>7 DEF UploadCounts, Fields, total, successful, failed, skipped
<1> QED
  BY <1>6, <1>8, <1>9, CountsAre DEF Balanced, total

\* An uploaded item is verified or not.
LEMMA VerdictsCounted ==
  ASSUME ScopeInv, metrics \in Counts, Balanced(metrics),
         metrics.total = Cardinality(Position \ Having(outcome, {"none"})),
         NEW result \in [Position -> Verdicts],
         ~config.dry => \A i \in Position : result[i] # "none" <=> i \in Uploaded
  PROVE  VerifyCounts(result) \in Counts /\ Balanced(VerifyCounts(result))
<1>1. metrics \in [Fields -> Nat]
  BY CountsAre
<1>2. CASE config.dry
  <2>1. Cardinality(Position \ Having(outcome, {"none"})) \in Nat
    BY Counted
  <2>2. VerifyCounts(result) \in [Fields -> Nat]
    BY <1>1, <1>2, <2>1 DEF VerifyCounts
  <2>3. /\ VerifyCounts(result).total = metrics.total
        /\ VerifyCounts(result).successful = metrics.successful
        /\ VerifyCounts(result).failed = metrics.failed
        /\ VerifyCounts(result).skipped = metrics.skipped
    BY <1>1, <1>2 DEF VerifyCounts, Fields
  <2> QED
    BY <2>2, <2>3, CountsAre DEF Balanced
<1>3. CASE ~config.dry
  <2> DEFINE V == VerifiedIn(result)
             W == UnverifiedIn(result)
  <2>1. Uploaded = V \cup W /\ V \cap W = {} /\ V \in SUBSET Position /\ W \in SUBSET Position
    BY <1>3 DEF VerifiedIn, UnverifiedIn, Verdicts, Uploaded, UploadedIn, Having
  <2> HIDE DEF V, W
  <2>2. /\ Cardinality(Uploaded) = Cardinality(V) + Cardinality(W)
        /\ Cardinality(V) \in Nat /\ Cardinality(W) \in Nat
    BY <2>1, PartsAdd, Counted
  <2>3. VerifyCounts(result) \in [Fields -> Nat]
    <3>1. Cardinality(Uploaded) \in Nat /\ 0 \in Nat
      BY <2>2
    <3>2. /\ Cardinality(VerifiedIn(result)) \in Nat
          /\ Cardinality(UnverifiedIn(result)) \in Nat
      BY <2>2 DEF V, W
    <3> QED
      BY <1>1, <1>3, <3>1, <3>2 DEF VerifyCounts
  <2>4. /\ VerifyCounts(result).total = Cardinality(Uploaded)
        /\ VerifyCounts(result).successful = Cardinality(V)
        /\ VerifyCounts(result).failed = Cardinality(W)
        /\ VerifyCounts(result).skipped = 0
    BY <1>1, <1>3 DEF VerifyCounts, Fields, V, W
  <2> QED
    BY <2>2, <2>3, <2>4, CountsAre DEF Balanced
<1> QED
  BY <1>2, <1>3

\* At the end the extracted items are verified, refused, failed, unverified or
\* skipped, each in one way.
LEMMA SnapshotBalanced ==
  ASSUME ScopeInv, ResultType, NoneForgotten, ResultsComplete, stage \in {"finalize", "done"}
  PROVE  /\ { TotalItems, SuccessfulItems, FailedItems, SkippedItems } \subseteq Nat
         /\ TotalItems = SuccessfulItems + FailedItems + SkippedItems
<1>1. extracted = rehydrated \cup refused /\ rehydrated \cap refused = {}
  BY DEF ScopeInv, Narrowing, NoneForgotten, ResultType
<1>2. rehydrated = (Uploaded \cup Failed) \cup Skipped
  <2>1. \A i \in Position : i \in rehydrated <=> outcome[i] # "none"
    BY DEF ResultsComplete, ResultType
  <2>2. rehydrated \subseteq Position
    BY DEF ScopeInv, Narrowing, InScope
  <2> QED
    BY <2>1, <2>2
    DEF ResultType, Kinds, Uploaded, UploadedIn, Failed, FailedIn, Skipped, SkippedIn, Having
<1>3. Uploaded \cap Failed = {} /\ (Uploaded \cup Failed) \cap Skipped = {}
  BY DEF Uploaded, UploadedIn, Failed, FailedIn, Skipped, SkippedIn, Having
<1>4. Uploaded = Verified \cup Unverified /\ Verified \cap Unverified = {}
  <2>1. CASE config.dry
    <3>1. Uploaded = {} /\ \A i \in Position : verdict[i] = "none"
      BY <2>1 DEF ResultsComplete, Uploaded, UploadedIn, Having
    <3> QED
      BY <3>1 DEF Verified, VerifiedIn, Unverified, UnverifiedIn
  <2>2. CASE ~config.dry
    <3>1. \A i \in Position : verdict[i] # "none" <=> i \in Uploaded
      BY <2>2 DEF ResultsComplete
    <3>2. Uploaded \subseteq Position
      BY DEF Uploaded, UploadedIn, Having
    <3> QED
      BY <3>1, <3>2 DEF ResultType, Verdicts, Verified, VerifiedIn, Unverified, UnverifiedIn
  <2> QED
    BY <2>1, <2>2
<1>5. /\ Uploaded \in SUBSET Position /\ Failed \in SUBSET Position
      /\ Skipped \in SUBSET Position /\ Verified \in SUBSET Position
      /\ Unverified \in SUBSET Position /\ Uploaded \cup Failed \in SUBSET Position
      /\ rehydrated \in SUBSET Position /\ refused \in SUBSET Position
      /\ extracted \in SUBSET Position
  BY DEF ScopeInv, Narrowing, InScope, Uploaded, UploadedIn, Failed, FailedIn, Skipped,
         SkippedIn, Verified, VerifiedIn, Unverified, UnverifiedIn, Having
<1>6. /\ Cardinality(extracted) = Cardinality(rehydrated) + Cardinality(refused)
      /\ Cardinality(rehydrated) = Cardinality(Uploaded \cup Failed) + Cardinality(Skipped)
      /\ Cardinality(Uploaded \cup Failed) = Cardinality(Uploaded) + Cardinality(Failed)
      /\ Cardinality(Uploaded) = Cardinality(Verified) + Cardinality(Unverified)
  <2>1. Cardinality(extracted) = Cardinality(rehydrated) + Cardinality(refused)
    BY <1>1, <1>5, PartsAdd
  <2>2. Cardinality(rehydrated) = Cardinality(Uploaded \cup Failed) + Cardinality(Skipped)
    BY <1>2, <1>3, <1>5, PartsAdd
  <2>3. Cardinality(Uploaded \cup Failed) = Cardinality(Uploaded) + Cardinality(Failed)
    BY <1>3, <1>5, PartsAdd
  <2>4. Cardinality(Uploaded) = Cardinality(Verified) + Cardinality(Unverified)
    BY <1>4, <1>5, PartsAdd
  <2> QED
    BY <2>1, <2>2, <2>3, <2>4
<1>7. { Cardinality(extracted), Cardinality(refused), Cardinality(Failed),
        Cardinality(Skipped), Cardinality(Verified), Cardinality(Unverified),
        Cardinality(Uploaded) } \subseteq Nat
  BY <1>5, Counted
<1> QED
  BY <1>6, <1>7 DEF TotalItems, SuccessfulItems, FailedItems, SkippedItems

\* A step that returns saves the counters it publishes.
LEMMA ReturnsCounts ==
  ASSUME ScopeInv, CountsType, checkpoint.step # 6 => Balanced(checkpoint.counts),
         stage \in {"discover", "extract", "transform", "upload", "verify", "finalize"},
         StepReturns, metrics' \in Counts, stage # "finalize" => Balanced(metrics')
  PROVE  CountsType' /\ (checkpoint'.step # 6 => Balanced(checkpoint'.counts))
<1>1. CASE UNCHANGED checkpoint
  BY <1>1 DEF CountsType
<1>2. CASE checkpoint' = [step |-> StageNumber(stage), counts |-> metrics', config |-> config]
  <2>1. StageNumber(stage) \in 0..6 /\ (stage = "finalize" => StageNumber(stage) = 6)
    BY StageOrder
  <2>2. config \in Config
    BY DEF ScopeInv, RunType
  <2> QED
    BY <1>2, <2>1, <2>2 DEF CountsType
<1> QED
  BY <1>1, <1>2 DEF StepReturns

LEMMA NextCounts ==
  ASSUME ScopeInv, ResultType, ReportInv, ResultsComplete, CountsType, BalanceInv,
         [Next]_vars
  PROVE  CountsType' /\ BalanceInv'
<1>0. metrics \in Counts /\ checkpoint \in [step : 0..6, counts : Counts, config : Config]
  BY DEF CountsType
<1>1. ASSUME StepReturns,
             stage \in {"discover", "extract", "transform"},
             metrics' \in Counts, Balanced(metrics')
      PROVE  CountsType' /\ BalanceInv'
  <2>1. stage' \in {"extract", "transform", "upload"}
    BY <1>1, NextStage
  <2> QED
    BY <1>1, <2>1, ReturnsCounts DEF BalanceInv
<1>2. CASE StartRun
  <2>1. metrics' = NoCounts /\ UNCHANGED checkpoint /\ stage' = "discover"
    BY <1>2 DEF StartRun, Begin
  <2>2. NoCounts \in Counts /\ Balanced(NoCounts)
    BY CountsAre DEF NoCounts, Fields, Balanced
  <2> QED
    BY <2>1, <2>2 DEF CountsType, BalanceInv
<1>3. CASE StartResume
  <2>1. /\ metrics' = checkpoint.counts /\ checkpoint.step \in 1..5
        /\ UNCHANGED checkpoint /\ stage' = "discover"
    BY <1>3 DEF StartResume, Begin, RestoredCounts, Stages
  <2> QED
    BY <1>0, <2>1 DEF CountsType, BalanceInv
<1>4. CASE Discover
  <2> DEFINE filtered == Cardinality(SourceArchives \ discovered')
  <2>1. discovered' \in SUBSET SourceArchives
    BY <1>4 DEF Discover
  <2>2. Cardinality(discovered') \in Nat /\ filtered \in Nat
    BY <2>1, ArchivesCounted
  <2> DEFINE counts == Processed(Cardinality(discovered'), 0)
  <2>3. counts \in Counts /\ Balanced(counts)
    BY <1>0, <2>2, ProcessedCounts
  <2> HIDE DEF counts
  <2>4. metrics' = [counts EXCEPT !.filtered = 0, !.archives = filtered]
    BY <1>4 DEF Discover, DiscoverCounts, counts
  <2> HIDE DEF filtered
  <2>5. metrics' \in Counts /\ Balanced(metrics')
    BY <2>2, <2>3, <2>4, CountsAre DEF Fields, Balanced
  <2> QED
    BY <1>1, <1>4, <2>5 DEF Discover
<1>5. CASE Extract
  <2>1. extracted' \in SUBSET Position /\ Supported \ extracted' \in SUBSET Position
    BY <1>5 DEF Extract, Supported
  <2>2. Cardinality(extracted') \in Nat /\ Cardinality(Supported \ extracted') \in Nat
    BY <2>1, Counted
  <2> DEFINE counts == Processed(Cardinality(extracted'), 0)
             filtered == Cardinality(Supported \ extracted')
  <2>3. counts \in Counts /\ Balanced(counts)
    BY <1>0, <2>2, ProcessedCounts
  <2> HIDE DEF counts
  <2>4. metrics' = [counts EXCEPT !.filtered = filtered]
    BY <1>5 DEF Extract, ExtractCounts, counts
  <2> HIDE DEF filtered
  <2>5. filtered \in Nat
    BY <2>2 DEF filtered
  <2>6. metrics' \in Counts /\ Balanced(metrics')
    BY <2>3, <2>4, <2>5, CountsAre DEF Fields, Balanced
  <2> QED
    BY <1>1, <1>5, <2>6 DEF Extract
<1>6. CASE FinishTransform
  <2>1. rehydrated \in SUBSET Position /\ refused \in SUBSET Position
    BY DEF ScopeInv, Narrowing, InScope
  <2>2. metrics' \in Counts /\ Balanced(metrics')
    BY <1>0, <1>6, <2>1, Counted, ProcessedCounts DEF FinishTransform, TransformCounts
  <2> QED
    BY <1>1, <1>6, <2>2 DEF FinishTransform
<1>7. CASE FinishUpload
  <2>1. /\ stage = "upload" /\ stage' = "verify" /\ StepReturns
        /\ UNCHANGED << Position, config >> /\ metrics' = UploadCounts(outcome')
    BY <1>7, NextStage DEF FinishUpload, StepReturns, runVars, Position
  <2>2. /\ outcome' \in [Position -> Kinds]
        /\ \A i \in Position :
             IF config.dry THEN outcome'[i] \in {"none", "dry", "duplicate"}
             ELSE outcome'[i] # "dry"
    BY <1>7, FinishUploadOutcome DEF ResultsComplete
  <2>3. /\ metrics' \in Counts /\ Balanced(metrics')
        /\ metrics'.total = Cardinality(Position \ Having(outcome', {"none"}))
    BY <1>0, <2>1, <2>2, UploadsCounted
  <2>4. Having(outcome, {"none"})' = Having(outcome', {"none"})
    BY <2>1 DEF Having
  <2> QED
    BY <2>1, <2>3, <2>4, ReturnsCounts DEF BalanceInv
<1>8. CASE Verify
  <2>1. /\ stage = "verify" /\ stage' = "finalize" /\ StepReturns
        /\ metrics' = VerifyCounts(verdict')
    BY <1>8, NextStage DEF Verify
  <2>2. /\ verdict' \in [Position -> Verdicts]
        /\ ~config.dry => \A i \in Position : verdict'[i] # "none" <=> i \in Uploaded
    BY <1>8 DEF Verify, Compare, Verdicts
  <2>3. metrics' \in Counts /\ Balanced(metrics')
    BY <1>0, <2>1, <2>2, VerdictsCounted DEF BalanceInv
  <2> QED
    BY <2>1, <2>3, ReturnsCounts DEF BalanceInv
<1>9. CASE FinalizeMigration
  <2>1. /\ stage = "finalize" /\ stage' = "done" /\ StepReturns /\ UNCHANGED config
        /\ metrics' = FinalCounts
    BY <1>9, NextStage DEF FinalizeMigration, StepReturns, runVars
  <2>2. /\ { TotalItems, SuccessfulItems, FailedItems, SkippedItems } \subseteq Nat
        /\ TotalItems = SuccessfulItems + FailedItems + SkippedItems
    BY <2>1, SnapshotBalanced DEF ReportInv
  <2>3. { DryRunItems, UploadedItems, Cardinality(Unverified) } \subseteq Nat
    <3>1. /\ Having(outcome, {"dry"}) \in SUBSET Position
          /\ Having(outcome, {"created", "found"}) \in SUBSET Position
          /\ Unverified \in SUBSET Position
      BY DEF Having, Unverified, UnverifiedIn
    <3> QED
      BY <3>1, Counted DEF DryRunItems, UploadedItems
  <2>4. \A n \in Nat : RealOnly(n) \in Nat /\ (~config.dry => RealOnly(n) = n)
    BY DEF RealOnly
  <2>5. metrics \in [Fields -> Nat]
    BY <1>0, CountsAre
  <2>6. metrics' \in [Fields -> Nat]
    <3>1. /\ RealOnly(SuccessfulItems) \in Nat /\ RealOnly(FailedItems) \in Nat
          /\ RealOnly(UploadedItems) \in Nat /\ RealOnly(Cardinality(Unverified)) \in Nat
          /\ TotalItems \in Nat /\ SkippedItems \in Nat /\ DryRunItems \in Nat
      BY <2>2, <2>3, <2>4
    <3> QED
      BY <2>1, <2>5, <3>1 DEF FinalCounts
  <2>7. ~config.dry => Balanced(metrics')
    <3>1. /\ metrics'.total = TotalItems /\ metrics'.successful = RealOnly(SuccessfulItems)
          /\ metrics'.failed = RealOnly(FailedItems) /\ metrics'.skipped = SkippedItems
      BY <2>1, <2>5 DEF FinalCounts, Fields
    <3> QED
      BY <2>2, <2>4, <3>1 DEF Balanced
  <2> QED
    BY <2>1, <2>6, <2>7, CountsAre, ReturnsCounts DEF BalanceInv
<1>10. ASSUME NEW i \in Position, UploadItem(i) \/ TransformItem(i)
       PROVE  CountsType' /\ BalanceInv'
  BY <1>10 DEF UploadItem, TransformItem, runVars, CountsType, BalanceInv
<1>11. CASE RetryStep \/ Stop
  BY <1>11 DEF RetryStep, Stop, CountsType, BalanceInv
<1>12. CASE UNCHANGED vars
  BY <1>12 DEF vars, CountsType, BalanceInv, Having, Position
<1> QED
  BY <1>2, <1>3, <1>4, <1>5, <1>6, <1>7, <1>8, <1>9, <1>10, <1>11, <1>12 DEF Next

ItemInv ==
  /\ RunsType /\ ResultType /\ TargetRest
  /\ ResultsComplete
  /\ CountsType /\ BalanceInv

LEMMA ItemInit == Init => ItemInv
<1> SUFFICES ASSUME Init PROVE ItemInv
  OBVIOUS
<1>1. Position = {}
  BY DEF Init, Position
<1>2. NoCounts \in Counts /\ Balanced(NoCounts)
  BY CountsAre DEF NoCounts, Fields, Balanced
<1>3. RunsType
  BY StageKinds, PipelineAssumption DEF Init, RunsType, NoOrigin
<1>4. ResultType /\ ResultsComplete
  BY <1>1 DEF Init, ResultType, ResultsComplete, Kinds, Verdicts
<1>5. CountsType /\ BalanceInv
  BY <1>2 DEF Init, CountsType, BalanceInv, NothingSaved, Config
<1>6. TargetRest
  BY DEF Init, TargetInit, NoSession, TargetRest
<1> QED
  BY <1>3, <1>4, <1>5, <1>6 DEF ItemInv

LEMMA ItemInvariant == Spec => []ItemInv
<1>1. ScopeInv /\ ReportInv /\ ItemInv /\ [Next]_vars => ItemInv'
  BY NextRuns, NextResults, NextRest, NextComplete, NextCounts DEF ItemInv
<1> QED
  BY <1>1, ItemInit, ScopeInvariant, ReportInvariant, PTL DEF Spec

\* Type correctness, for any sources and configurations; the counters a step publishes
\* or a checkpoint stores are natural numbers.
THEOREM TypeCorrect == Spec => []TypeOK
<1>1. ASSUME ScopeInv, StorageType, CacheInv, ReportInv, ItemInv PROVE TypeOK
  <2>1. TargetType /\ lock = 0
    BY <1>1 DEF ItemInv, TargetRest, StorageType, TargetType
  <2>2. /\ config \in Config /\ { origin.config, savedOrigin.config } \subseteq Config
        /\ extracted \subseteq Position
        /\ rehydrated \subseteq extracted /\ refused \subseteq extracted \ rehydrated
    BY <1>1 DEF ScopeInv, RunType, Origin, Narrowing, InScope, ItemInv, ResultType
  <2>3. cache \in [PartId -> Part \cup {NoPart}]
    BY <1>1 DEF CacheInv, GoodCache
  <2>4. report \in [status : {"none", "failed", "dry_run_completed", "completed",
                             "completed_with_warnings"}, reconciled : BOOLEAN]
    <3>1. FinalStatus \in {"failed", "dry_run_completed", "completed",
                           "completed_with_warnings"}
      <4>1. IsReconciled /\ IsDryRunCompleted => FinalStatus = "dry_run_completed"
        BY DEF FinalStatus
      <4> QED
        BY <4>1 DEF FinalStatus
    <3>2. IsReconciled \in BOOLEAN
      BY DEF IsReconciled
    <3>3. CASE report = NoReport
      BY <3>3 DEF NoReport
    <3>4. CASE report # NoReport
      <4>1. report = [status |-> FinalStatus, reconciled |-> IsReconciled]
        BY <1>1, <3>4 DEF ReportInv, ReportIsFinal
      <4> HIDE DEF FinalStatus, IsReconciled
      <4> QED
        BY <3>1, <3>2, <4>1
    <3> QED
      BY <3>3, <3>4
  <2>5. resumedAt \in 0..5
    BY <1>1 DEF ReportInv, OutcomeInv
  <2> QED
    BY <1>1, <2>1, <2>2, <2>3, <2>4, <2>5
    DEF ItemInv, RunsType, ResultType, CountsType, TypeOK, Kinds, Verdicts
<1> QED
  BY <1>1, ScopeInvariant, StorageInvariant, CacheInvariant, ReportInvariant, ItemInvariant,
     PTL

\* The counters add up after every step of every run, and so does what is saved and
\* what the report counts, whatever was filtered, refused, skipped or replayed.
THEOREM CountersAddUp == Spec => []CountersBalanced
<1>1. ASSUME ScopeInv, ReportInv, ItemInv PROVE CountersBalanced
  <2>1. ASSUME stage = "done"
        PROVE  FinalSnapshot.total =
                 FinalSnapshot.successful + FinalSnapshot.failed + FinalSnapshot.skipped
    BY <1>1, <2>1, SnapshotBalanced DEF ItemInv, ReportInv, FinalSnapshot
  <2>2. ~(stage = "done" /\ config.dry) => Balanced(metrics)
    BY <1>1 DEF ItemInv, BalanceInv
  <2> QED
    BY <2>1, <2>2 DEF CountersBalanced, Balanced
<1> QED
  BY <1>1, ScopeInvariant, ReportInvariant, ItemInvariant, PTL

-----------------------------------------------------------------------------
(* Reconciliation, exactly.  The adapter's mirror keeps a document that    *)
(* maps to the stored one, so what the verification compared is a document *)
(* the target really stores: it can only differ in a field that is not     *)
(* compared.                                                               *)

MirrorOfStored ==
  \A id \in Id : storage[id] # None =>
    mirror[id] \in Version /\ StoredOf[mirror[id]] = storage[id]

LEMMA NextMirror ==
  ASSUME ScopeInv, StorageType, MirrorOfStored, [Next]_vars
  PROVE  MirrorOfStored'
<1>1. ASSUME NEW i \in Position, UploadItem(i) PROVE MirrorOfStored'
  <2> DEFINE id == source[i].id
             version == DocumentOf(i)
  <2>1. id \in Id /\ version \in Version /\ StoredOf[version] \in Version
    BY DocumentType
  <2>2. \/ /\ storage' = [storage EXCEPT ![id] = StoredOf[version]]
           /\ mirror' = [mirror EXCEPT ![id] = version]
        \/ /\ storage[id] = StoredOf[version] /\ UNCHANGED storage
           /\ mirror' = [mirror EXCEPT ![id] = version]
        \/ UNCHANGED << storage, mirror >>
    BY <1>1 DEF UploadItem, AddDocument, Remember, SameDocument
  <2> HIDE DEF id, version
  <2> QED
    BY <2>1, <2>2 DEF MirrorOfStored, StorageType
<1> QED
  BY <1>1, OnlyUploadsWrite DEF MirrorOfStored

\* What a real run reports as reconciled is stored, up to what is not compared.
ReconciledAsCompared ==
  RealReport /\ report.reconciled =>
    \A i \in rehydrated : \E version \in Version :
      /\ storage[source[i].id] = StoredOf[version]
      /\ SignatureOf[version] = SignatureOf[DocumentOf(i)]

LEMMA MirrorInvariant == Spec => []MirrorOfStored
<1>1. Init => MirrorOfStored
  BY DEF Init, TargetInit, MirrorOfStored
<1> QED
  BY <1>1, NextMirror, ScopeInvariant, StorageInvariant, PTL DEF Spec

\* A reconciled document is in the storage, resumed run or not, but for the fields
\* that _document_signature leaves out.
THEOREM ReconciledDocumentsAreStored == Spec => []ReconciledAsCompared
<1>1. ASSUME ScopeInv, ReportInv, MirrorOfStored PROVE ReconciledAsCompared
  <2> SUFFICES ASSUME RealReport, report.reconciled, NEW i \in rehydrated
               PROVE  \E version \in Version :
                        /\ storage[source[i].id] = StoredOf[version]
                        /\ SignatureOf[version] = SignatureOf[DocumentOf(i)]
    BY DEF ReconciledAsCompared
  <2>1. i \in Position /\ Compare(i) = "verified"
    BY <1>1, ReconciledMeansVerified
    DEF RealReport, ReportInv, ReportIsFinal, VerdictInv, Verified, VerifiedIn
  <2>2. /\ storage[source[i].id] # None
        /\ SignatureOf[mirror[source[i].id]] = SignatureOf[DocumentOf(i)]
    BY <2>1 DEF Compare, UploadedDocument
  <2>3. source[i].id \in Id
    BY <1>1, <2>1, DocumentType
  <2> QED
    BY <1>1, <2>2, <2>3 DEF MirrorOfStored
<1> QED
  BY <1>1, ScopeInvariant, ReportInvariant, MirrorInvariant, PTL

\* The documents the sources bring under an identifier, however they are labelled.
Given(id) ==
  { version \in Version :
      \E items \in Sources : \E i, k \in DOMAIN items :
        /\ items[i].id = id /\ items[k].id = id
        /\ version = [content |-> items[i].content, archive |-> items[k].archive] }

\* No source, and no change of a source between two runs, makes a difference to what is
\* stored under an identifier that the verification does not compare (a legal hold, a
\* folder or an owner) unless it also makes one that it does.
DifferencesShow ==
  \A id \in Id : \A one, other \in Given(id) :
    SignatureOf[one] = SignatureOf[other] => StoredOf[one] = StoredOf[other]

ReconciliationExact ==
  RealReport /\ report.reconciled => \A i \in rehydrated : StoredAsTransformed(i)

MirrorIsGiven == \A id \in Id : storage[id] # None => mirror[id] \in Given(id)

LEMMA DocumentGiven ==
  ASSUME ScopeInv, ItemInv, NEW i \in Position
  PROVE  DocumentOf(i) \in Given(source[i].id)
<1>1. source \in Sources
  BY DEF ItemInv, RunsType, Position
<1>2. FirstCopy(i) \in DOMAIN source /\ source[FirstCopy(i)].id = source[i].id
  BY FirstCopyExists DEF Position
<1>3. DocumentOf(i) \in Version
  BY DocumentType
<1> QED
  BY <1>1, <1>2, <1>3 DEF Given, DocumentOf, Position

LEMMA NextGiven ==
  ASSUME ScopeInv, ItemInv, StorageType, MirrorIsGiven, [Next]_vars
  PROVE  MirrorIsGiven'
<1>1. ASSUME NEW i \in Position, UploadItem(i) PROVE MirrorIsGiven'
  <2> DEFINE id == source[i].id
             version == DocumentOf(i)
  <2>1. id \in Id /\ version \in Given(id)
    BY <1>1, DocumentType, DocumentGiven
  <2>2. /\ \A other \in Id : other # id => UNCHANGED << storage[other], mirror[other] >>
        /\ mirror'[id] = version \/ UNCHANGED << storage, mirror >>
    BY <1>1, <2>1 DEF UploadItem, AddDocument, Remember, StorageType
  <2> HIDE DEF id, version
  <2> QED
    BY <2>1, <2>2 DEF MirrorIsGiven
<1> QED
  BY <1>1, OnlyUploadsWrite DEF MirrorIsGiven

\* A reconciled report is exact, resumed run or not, as long as the metadata that
\* _document_signature leaves out does not change by itself under one identifier: the
\* conflict of an earlier run can only hide behind such a change.
THEOREM StableMetadataReconcilesExactly == DifferencesShow /\ Spec => []ReconciliationExact
<1> SUFFICES ASSUME DifferencesShow PROVE Spec => []ReconciliationExact
  OBVIOUS
<1>1. ASSUME ScopeInv, ReportInv, ItemInv, MirrorOfStored, MirrorIsGiven
      PROVE  ReconciliationExact
  <2> SUFFICES ASSUME RealReport, report.reconciled, NEW i \in rehydrated
               PROVE  StoredAsTransformed(i)
    BY DEF ReconciliationExact
  <2> DEFINE id == source[i].id
  <2>1. i \in Position /\ Compare(i) = "verified"
    BY <1>1, ReconciledMeansVerified
    DEF RealReport, ReportInv, ReportIsFinal, VerdictInv, Verified, VerifiedIn
  <2>2. storage[id] # None /\ SignatureOf[mirror[id]] = SignatureOf[DocumentOf(i)]
    BY <2>1 DEF Compare, UploadedDocument
  <2>3. id \in Id /\ DocumentOf(i) \in Given(id)
    BY <1>1, <2>1, DocumentType, DocumentGiven
  <2>4. mirror[id] \in Given(id) /\ StoredOf[mirror[id]] = storage[id]
    BY <1>1, <2>2, <2>3 DEF MirrorIsGiven, MirrorOfStored
  <2> QED
    BY <2>2, <2>3, <2>4 DEF DifferencesShow, StoredAsTransformed
<1>2. Init => MirrorIsGiven
  BY DEF Init, TargetInit, MirrorIsGiven
<1>3. Spec => []MirrorIsGiven
  BY <1>2, NextGiven, ScopeInvariant, StorageInvariant, ItemInvariant, PTL DEF Spec
<1> QED
  BY <1>1, <1>3, ScopeInvariant, ReportInvariant, ItemInvariant, MirrorInvariant, PTL

-----------------------------------------------------------------------------
(* Labels.                                                                 *)

\* No identifier is used by two archives.
ArchivesShareNothing ==
  \A items \in Sources : \A i, k \in DOMAIN items :
    items[i].id = items[k].id => items[i].archive = items[k].archive

StorageKeepsLabels == \A version \in Version : StoredOf[version].archive = version.archive

\* A document is mislabelled only when its identifier occurs in two archives: that
\* alone makes the label that of an item outside the scope.
THEOREM LabelsAreOwn ==
  ArchivesShareNothing /\ StorageKeepsLabels /\ Spec => OwnArchiveLabels
<1> SUFFICES ASSUME ArchivesShareNothing, StorageKeepsLabels PROVE Spec => OwnArchiveLabels
  OBVIOUS
<1> DEFINE Labelled(id) ==
      storage'[id] # storage[id] =>
        \E i \in extracted :
          source[i].id = id /\ source[i].archive = storage'[id].archive
<1>1. ASSUME ScopeInv, StorageType, ItemInv, [Next]_vars, NEW id \in Id PROVE Labelled(id)
  <2> SUFFICES ASSUME storage'[id] # storage[id], NEW i \in Position, UploadItem(i)
               PROVE  \E k \in extracted :
                        source[k].id = id /\ source[k].archive = storage'[id].archive
    BY <1>1, OnlyUploadsWrite
  <2>1. i \in extracted
    BY <1>1 DEF UploadItem, UniqueDocuments, ScopeInv, Narrowing
  <2>2. source[i].id = id /\ storage'[id] = StoredOf[DocumentOf(i)]
    BY <1>1 DEF UploadItem, AddDocument, StorageType
  <2>3. DocumentOf(i) \in Version /\ DocumentOf(i).archive = source[FirstCopy(i)].archive
    BY <1>1, DocumentType DEF DocumentOf
  <2>4. source \in Sources /\ FirstCopy(i) \in Position /\ source[FirstCopy(i)].id = source[i].id
    BY <1>1, FirstCopyExists DEF ItemInv, RunsType, Position
  <2>5. source[FirstCopy(i)].archive = source[i].archive
    BY <2>4 DEF ArchivesShareNothing, Position
  <2> QED
    BY <2>1, <2>2, <2>3, <2>5 DEF StorageKeepsLabels
<1> HIDE DEF Labelled
<1>2. ScopeInv /\ StorageType /\ ItemInv /\ [Next]_vars => [\A id \in Id : Labelled(id)]_vars
  BY <1>1
<1>3. (\A id \in Id : Labelled(id)) <=>
        \A id \in Id : storage'[id] # storage[id] =>
          \E i \in extracted :
            source[i].id = id /\ source[i].archive = storage'[id].archive
  BY DEF Labelled
<1> QED
  BY <1>2, <1>3, ScopeInvariant, StorageInvariant, ItemInvariant, PTL
  DEF Spec, OwnArchiveLabels

-----------------------------------------------------------------------------
(* The target as the steps see it.                                         *)

\* Only the first document of an identifier is sent.
OnlyOriginals ==
  /\ \A i \in Position : outcome[i] \in Answers => i \in UniqueDocuments
  /\ stage = "upload" /\ (Replaying \/ config.dry) =>
       \A i \in Position : outcome[i] = "none"

RequestsType == Requests \in Seq([id : Id, version : Version])

LEMMA RequestsAre == ScopeInv => RequestsType
<1> SUFFICES ASSUME ScopeInv PROVE RequestsType
  OBVIOUS
<1>1. Position = 1..Len(source) /\ Len(source) \in Nat
  BY DEF ScopeInv, RunType, Position
<1>2. \A i \in Position : Requests[i] \in [id : Id, version : Version]
  BY DocumentType DEF Requests
<1>3. Requests \in [1..Len(source) -> [id : Id, version : Version]]
  BY <1>1, <1>2 DEF Requests
<1>4. \A S : \A n \in Nat : \A f \in [1..n -> S] : f \in Seq(S)
  OBVIOUS
<1> QED
  BY <1>1, <1>3, <1>4 DEF RequestsType

LEMMA NextOriginals ==
  ASSUME ReportInv, ItemInv, OnlyOriginals, [Next]_vars
  PROVE  OnlyOriginals'
<1> USE DEF OnlyOriginals, Position
<1>1. ASSUME UNCHANGED << source, rehydrated, outcome >>,
             stage' = "upload" => \A i \in Position : outcome[i] = "none"
      PROVE  OnlyOriginals'
  BY <1>1 DEF UniqueDocuments
<1>2. CASE StartRun \/ StartResume
  <2>1. PICK items, configuration, from : Begin(items, configuration, from)
    BY <1>2 DEF StartRun, StartResume
  <2>2. stage' # "upload" /\ \A i \in Position' : outcome'[i] = "none"
    BY <2>1 DEF Begin
  <2> QED
    BY <2>2 DEF Answers
<1>3. ASSUME NEW i \in Position, TransformItem(i) PROVE OnlyOriginals'
  <2>1. UNCHANGED source /\ stage' # "upload" /\ \A k \in Position : outcome'[k] = "none"
    BY <1>3 DEF TransformItem, runVars, ReportInv, OutcomeInv
  <2> QED
    BY <2>1 DEF Answers
<1>4. ASSUME NEW i \in Position, UploadItem(i) PROVE OnlyOriginals'
  <2>1. /\ \A k \in Position : k # i => outcome'[k] = outcome[k]
        /\ i \in UniqueDocuments /\ UNCHANGED << source, rehydrated >>
    BY <1>4 DEF UploadItem, runVars, ItemInv, ResultType
  <2>2. ~(Replaying \/ config.dry)'
    BY <1>4 DEF UploadItem, runVars, Replaying
  <2> QED
    BY <2>1, <2>2 DEF UniqueDocuments
<1>5. CASE FinishUpload
  <2>1. UNCHANGED << source, rehydrated >> /\ stage' = "verify"
    BY <1>5, NextStage DEF FinishUpload, StepReturns, runVars
  <2>2. \A i \in Position :
          \/ outcome'[i] \in {outcome[i], "none", "dry", "duplicate"}
          \/ i \in UniqueDocuments
    BY <1>5 DEF FinishUpload, WithDuplicates, AnswerWithoutUpload
  <2> QED
    BY <2>1, <2>2 DEF UniqueDocuments, Answers
<1>6. CASE RetryStep
  <2>1. UNCHANGED source /\ \A i \in Position : outcome'[i] = "none"
    BY <1>6 DEF RetryStep, runVars, ReportInv, OutcomeInv
  <2> QED
    BY <2>1 DEF Answers
<1>7. CASE FinishTransform
  BY <1>1, <1>7 DEF FinishTransform, StepReturns, results, runVars, ReportInv, OutcomeInv
<1>8. CASE Discover \/ Extract \/ Verify \/ FinalizeMigration \/ Stop
  <2>1. UNCHANGED << source, rehydrated, outcome >>
    BY <1>8 DEF Discover, Extract, Verify, FinalizeMigration, Stop, StepReturns, results, runVars
  <2>2. stage' # "upload"
    BY <1>8, NextStage DEF Discover, Extract, Verify, FinalizeMigration, Stop
  <2> QED
    BY <1>1, <2>1, <2>2
<1>9. CASE UNCHANGED vars
  BY <1>9 DEF vars, UniqueDocuments, Replaying
<1> QED
  BY <1>2, <1>3, <1>4, <1>5, <1>6, <1>7, <1>8, <1>9 DEF Next

LEMMA StoreInit == Init => Store!Init
<1> SUFFICES ASSUME Init PROVE Store!Init
  OBVIOUS
<1>1. Position = {}
  BY DEF Init, Position
<1>2. Requests = << >>
  BY <1>1 DEF Requests
<1>3. Replies = [i \in Slot |-> "none"]
  BY <1>1 DEF Replies, Having
<1> QED
  BY <1>2, <1>3 DEF Init, TargetInit, Store!Init

\* Steps that send nothing.
LEMMA QuietStore ==
  ASSUME UNCHANGED << source, storage >>,
         \/ UNCHANGED outcome
         \/ \A i \in Position :
              outcome'[i] = outcome[i] \/ {outcome[i], outcome'[i]} \cap Answers = {}
  PROVE  UNCHANGED Store!vars
<1>1. Position' = Position
  BY DEF Position
<1>2. Requests' = Requests
  <2>1. \A i : UNCHANGED DocumentOf(i)
    BY DocumentsKept
  <2> QED
    BY <1>1, <2>1 DEF Requests
<1>3. Replies' = Replies
  BY <1>1 DEF Replies, Having
<1> QED
  BY <1>2, <1>3 DEF Store!vars

\* Steps that forget the answers.
LEMMA NewBatchStore ==
  ASSUME RequestsType', UNCHANGED storage,
         \A i \in Position' : outcome'[i] \notin Answers
  PROVE  Store!NewBatch
<1>1. Replies' = [i \in Slot |-> "none"]
  BY DEF Replies, Having
<1> QED
  BY <1>1 DEF Store!NewBatch, RequestsType

LEMMA UploadStore ==
  ASSUME ScopeInv, StorageType, ItemInv, NEW i \in Position, UploadItem(i)
  PROVE  Store!Next
<1> DEFINE id == source[i].id
           stored == StoredOf[DocumentOf(i)]
<1>1. /\ UNCHANGED source /\ outcome[i] = "none"
      /\ outcome' = [outcome EXCEPT ![i] = outcome'[i]]
      /\ outcome'[i] \in {"created", "replay", "conflict"}
  BY DEF UploadItem, runVars, ItemInv, ResultType
<1>2. Position' = Position /\ i \in Slot
  BY <1>1 DEF Position, Slot, ItemInv, RunsType
<1>3. Requests' = Requests /\ Requests[i] = [id |-> id, version |-> stored]
  <2>1. \A k : UNCHANGED DocumentOf(k)
    BY <1>1, DocumentsKept
  <2> QED
    BY <1>1, <1>2, <2>1 DEF Requests
<1>4. DOMAIN Requests = Position /\ Replies[i] = "none"
  BY <1>1, <1>2 DEF Requests, Replies, Having, Answers
<1>5. Replies' = [Replies EXCEPT ![i] = outcome'[i]]
  <2>1. \A k \in Position : k # i => outcome'[k] = outcome[k]
    BY <1>1 DEF ItemInv, ResultType
  <2> QED
    BY <1>1, <1>2, <2>1 DEF Replies, Having, Answers
<1>6. Store!Answer(i, outcome'[i])
  BY <1>2, <1>3, <1>4, <1>5 DEF Store!Answer
<1>7. id \in Id /\ stored \in Version
  BY DocumentType
<1>8. Store!Create(i) \/ Store!Repeat(i) \/ Store!Refuse(i)
  <2>1. CASE /\ storage[id] = None /\ storage' = [storage EXCEPT ![id] = stored]
             /\ outcome'[i] = "created"
    BY <1>3, <1>6, <2>1 DEF Store!Create
  <2>2. CASE storage[id] = stored /\ UNCHANGED storage /\ outcome'[i] = "replay"
    BY <1>3, <1>6, <2>2 DEF Store!Repeat
  <2>3. CASE storage[id] \notin {None, stored} /\ UNCHANGED storage /\ outcome'[i] = "conflict"
    BY <1>3, <1>6, <2>3 DEF Store!Refuse
  <2>4. i \in DOMAIN outcome
    BY DEF ItemInv, ResultType
  <2> QED
    BY <2>1, <2>2, <2>3, <2>4 DEF UploadItem, AddDocument, Absent, SameDocument
<1> QED
  BY <1>2, <1>8 DEF Store!Next

\* A replayed Upload asks for the keys of its documents, and the mirror has an answer
\* exactly when the store has one.
LEMMA FindStore ==
  ASSUME ScopeInv, ItemInv, MirrorOfStored, OnlyOriginals, FinishUpload, Replaying, ~config.dry
  PROVE  Store!Find(UniqueDocuments)
<1>1. /\ UNCHANGED << source, storage >> /\ stage = "upload"
      /\ outcome' = WithDuplicates([i \in Position |-> AnswerWithoutUpload(i)])
  BY DEF FinishUpload, StepReturns, runVars
<1>2. Position' = Position /\ UniqueDocuments \subseteq Position /\ Position \subseteq Slot
  BY <1>1 DEF Position, UniqueDocuments, ScopeInv, Narrowing, InScope, Slot, ItemInv, RunsType
<1>3. UNCHANGED Requests
  <2>1. \A i : UNCHANGED DocumentOf(i)
    BY <1>1, DocumentsKept
  <2> QED
    BY <1>1, <1>2, <2>1 DEF Requests
<1>4. \A i \in Slot : Replies[i] = "none"
  BY <1>1 DEF OnlyOriginals, Replies, Having, Answers
<1>5. ASSUME NEW i \in UniqueDocuments
      PROVE  outcome'[i] = IF storage[Requests[i].id] = None THEN "missing" ELSE "found"
  <2>1. source[i].id \in Id /\ Requests[i].id = source[i].id
    BY <1>2, DocumentType DEF Requests
  <2>2. UploadedDocument(source[i].id) = None <=> storage[source[i].id] = None
    BY <2>1, TargetAssumption DEF UploadedDocument, MirrorOfStored
  <2>3. outcome'[i] = AnswerWithoutUpload(i)
    BY <1>1, <1>2 DEF WithDuplicates
  <2> QED
    BY <2>1, <2>2, <2>3 DEF AnswerWithoutUpload
<1>6. \A i \in Position \ UniqueDocuments : outcome'[i] \notin Answers
  BY <1>1 DEF WithDuplicates, AnswerWithoutUpload, Answers
<1>7. \A i \in Slot :
        Replies'[i] =
          IF i \notin UniqueDocuments THEN Replies[i]
          ELSE IF storage[Requests[i].id] = None THEN "missing" ELSE "found"
  <2> TAKE i \in Slot
  <2>1. CASE i \in UniqueDocuments
    BY <1>2, <1>5, <2>1 DEF Replies, Having, Answers
  <2>2. CASE i \notin UniqueDocuments
    BY <1>2, <1>4, <1>6, <2>2 DEF Replies, Having
  <2> QED
    BY <2>1, <2>2
<1>8. Replies' =
        [i \in Slot |->
          IF i \notin UniqueDocuments THEN Replies[i]
          ELSE IF storage[Requests[i].id] = None THEN "missing" ELSE "found"]
  BY <1>7 DEF Replies
<1> QED
  BY <1>1, <1>2, <1>3, <1>4, <1>8 DEF Store!Find

LEMMA StoreStep ==
  ASSUME ScopeInv, StorageType, ReportInv, ItemInv, MirrorOfStored, OnlyOriginals,
         RequestsType', [Next]_vars
  PROVE  [Store!Next]_(Store!vars)
<1> SUFFICES Store!Next \/ UNCHANGED Store!vars
  OBVIOUS
<1>1. ASSUME Store!NewBatch PROVE Store!Next
  BY <1>1 DEF Store!Next
<1>2. CASE StartRun \/ StartResume
  <2>1. PICK items, configuration, from : Begin(items, configuration, from)
    BY <1>2 DEF StartRun, StartResume
  <2>2. UNCHANGED storage /\ \A i \in Position' : outcome'[i] = "none"
    BY <2>1 DEF Begin, Position, targetState
  <2> QED
    BY <1>1, <2>2, NewBatchStore DEF Answers
<1>3. CASE RetryStep
  <2>1. UNCHANGED << source, storage >> /\ \A i \in Position' : outcome'[i] = "none"
    BY <1>3 DEF RetryStep, runVars, targetState, Position, ReportInv, OutcomeInv
  <2> QED
    BY <1>1, <2>1, NewBatchStore DEF Answers
<1>4. CASE FinishUpload
  <2>1. UNCHANGED << source, storage >> /\ Position' = Position
    BY <1>4 DEF FinishUpload, StepReturns, runVars, Position
  <2>2. CASE Replaying /\ ~config.dry
    <3>1. Store!Find(UniqueDocuments)
      BY <1>4, <2>2, FindStore
    <3>2. UniqueDocuments \in SUBSET DOMAIN Requests
      BY DEF UniqueDocuments, Requests, ScopeInv, Narrowing, InScope
    <3> QED
      BY <3>1, <3>2 DEF Store!Next
  <2>3. CASE config.dry
    <3>1. \A i \in Position : outcome[i] = "none" /\ outcome'[i] \in {"none", "dry", "duplicate"}
      BY <1>4, <2>3 DEF FinishUpload, WithDuplicates, AnswerWithoutUpload, OnlyOriginals
    <3> QED
      BY <2>1, <3>1, QuietStore DEF Answers
  <2>4. CASE ~(Replaying \/ config.dry)
    <3>1. \A i \in Position :
            \/ outcome'[i] = outcome[i]
            \/ outcome'[i] = "duplicate" /\ i \notin UniqueDocuments
      BY <1>4, <2>4 DEF FinishUpload, WithDuplicates
    <3>2. \A i \in Position :
            \/ outcome'[i] = outcome[i]
            \/ {outcome[i], outcome'[i]} \cap Answers = {}
      BY <3>1 DEF OnlyOriginals, Answers
    <3> QED
      BY <2>1, <3>2, QuietStore
  <2> QED
    BY <2>2, <2>3, <2>4
<1>5. CASE \/ Discover \/ Extract \/ FinishTransform \/ Verify \/ FinalizeMigration \/ Stop
           \/ UNCHANGED vars \/ \E i \in Position : TransformItem(i)
  <2>1. UNCHANGED << source, storage, outcome >>
    BY <1>5
    DEF Discover, Extract, FinishTransform, Verify, FinalizeMigration, Stop, TransformItem,
        StepReturns, results, runVars, vars, targetState
  <2> QED
    BY <2>1, QuietStore
<1> QED
  BY <1>2, <1>3, <1>4, <1>5, UploadStore DEF Next

\* Refinement: over any number of runs, stopped, resumed, retried, dry or replayed,
\* the target is to the Upload step the idempotent store that ParallelUpload shows
\* it to be within one batch.
THEOREM RunsUploadIdempotently == Spec => UploadsAreIdempotent
<1>1. Init => OnlyOriginals
  BY DEF Init, OnlyOriginals, Position
<1>2. Spec => []OnlyOriginals
  BY <1>1, NextOriginals, ReportInvariant, ItemInvariant, PTL DEF Spec
<1>3. Spec => []RequestsType
  BY RequestsAre, ScopeInvariant, PTL
<1> QED
  BY <1>2, <1>3, StoreInit, StoreStep, ScopeInvariant, StorageInvariant, ReportInvariant,
     ItemInvariant, MirrorInvariant, PTL DEF Spec, UploadsAreIdempotent, Store!Spec

=============================================================================
