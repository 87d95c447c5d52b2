-------------------------- MODULE ItemReplay_proofs --------------------------
(***************************************************************************)
(* A resumed run that replays Discover, Extract and Transform over the     *)
(* source it was saved from arrives at the counters that were saved.  What *)
(* Discover and Extract leave is a matter of source and filters.  What     *)
(* Transform leaves is not, when the rehydrator is shared: then items      *)
(* decided once stay decided in a cache that grows.  When the rehydrator   *)
(* is the step's own, every execution goes through the same caches.        *)
(***************************************************************************)
EXTENDS ItemPipeline_proofs

-----------------------------------------------------------------------------
(* An execution that begins with an empty cache.                           *)

\* Cached is what positions 1..n of the source make of the empty cache.
Follows(trace, items, chosen, n) ==
  /\ trace[0] = EmptyCache
  /\ \A k \in 1..n :
       trace[k] = IF k \in chosen THEN CacheAfter(trace[k - 1], items[k].parts)
                  ELSE trace[k - 1]

Reaches(items, chosen, n, cached) ==
  \E trace : Follows(trace, items, chosen, n) /\ trace[n] = cached

\* It is determined.
LEMMA ReachesOnce ==
  ASSUME NEW items, NEW chosen, NEW n \in Nat, NEW one, NEW other,
         Reaches(items, chosen, n, one), Reaches(items, chosen, n, other)
  PROVE  one = other
<1>1. PICK f : Follows(f, items, chosen, n) /\ f[n] = one
  BY DEF Reaches
<1>2. PICK g : Follows(g, items, chosen, n) /\ g[n] = other
  BY DEF Reaches
<1> DEFINE differ == { k \in 0..n : f[k] # g[k] }
<1>3. SUFFICES ASSUME one # other PROVE FALSE
  OBVIOUS
<1>4. differ \in SUBSET Nat /\ differ # {}
  BY <1>1, <1>2, <1>3
<1> HIDE DEF differ
<1>5. PICK k \in differ : \A m \in differ : k <= m
  BY <1>4, LeastPosition
<1> USE DEF differ
<1>6. k \in 1..n /\ k - 1 \in 0..n /\ k - 1 \notin differ
  BY <1>1, <1>2, <1>5 DEF Follows
<1>7. f[k - 1] = g[k - 1]
  BY <1>6
<1> QED
  BY <1>1, <1>2, <1>5, <1>6, <1>7 DEF Follows

LEMMA ReachesStart ==
  ASSUME NEW items, NEW chosen, NEW n \in Nat, \A k \in 1..n : k \notin chosen
  PROVE  Reaches(items, chosen, n, EmptyCache)
<1> DEFINE f == [k \in 0..n |-> EmptyCache]
<1>1. Follows(f, items, chosen, n) /\ f[n] = EmptyCache
  BY DEF Follows
<1> QED
  BY <1>1 DEF Reaches

\* One chosen position further, and any number of others.
LEMMA ReachesOn ==
  ASSUME NEW items, NEW chosen, NEW i \in Nat \ {0}, i \in chosen, NEW n \in Nat, i <= n,
         \A k \in (i + 1)..n : k \notin chosen,
         NEW cached, Reaches(items, chosen, i - 1, cached)
  PROVE  Reaches(items, chosen, n, CacheAfter(cached, items[i].parts))
<1>1. PICK f : Follows(f, items, chosen, i - 1) /\ f[i - 1] = cached
  BY DEF Reaches
<1> DEFINE after == CacheAfter(cached, items[i].parts)
           g == [k \in 0..n |-> IF k < i THEN f[k] ELSE after]
<1> HIDE DEF after
<1>2. g[0] = EmptyCache /\ g[n] = after
  BY <1>1 DEF Follows
<1>3. ASSUME NEW k \in 1..n
      PROVE  g[k] = IF k \in chosen THEN CacheAfter(g[k - 1], items[k].parts) ELSE g[k - 1]
  <2>1. CASE k < i
    <3>1. k \in 1..(i - 1) /\ g[k] = f[k] /\ g[k - 1] = f[k - 1]
      BY <2>1
    <3> QED
      BY <1>1, <3>1 DEF Follows
  <2>2. CASE k = i
    <3>1. g[k] = after /\ g[k - 1] = f[i - 1]
      BY <2>2
    <3> QED
      BY <1>1, <2>2, <3>1 DEF after
  <2>3. CASE k > i
    BY <2>3
  <2> QED
    BY <2>1, <2>2, <2>3
<1> HIDE DEF g
<1>4. Follows(g, items, chosen, n)
  BY <1>2, <1>3 DEF Follows
<1> QED
  BY <1>2, <1>4 DEF Reaches, after

\* The items such an execution accepts.
AcceptedAlone(items, chosen) ==
  { i \in chosen : \E cached : /\ Reaches(items, chosen, i - 1, cached)
                               /\ Rehydrates(cached, items[i].parts) }

-----------------------------------------------------------------------------
(* Transform.  The items it has gone through come before those it has not, *)
(* and its cache is what the empty one has become.                         *)

Transformed == rehydrated \cup refused

Between(n) == (\A i \in Transformed : i <= n) /\ (\A i \in Untransformed : n < i)

OwnCourse ==
  /\ \A n \in Nat : Between(n) => Reaches(source, extracted, n, FirstCache)
  /\ \A i \in rehydrated : \E cached : /\ Reaches(source, extracted, i - 1, cached)
                                       /\ Rehydrates(cached, source[i].parts)
  /\ \A i \in refused : \E cached : /\ Reaches(source, extracted, i - 1, cached)
                                    /\ ~Rehydrates(cached, source[i].parts)

TransformInv ==
  stage = "transform" =>
    /\ \A i \in Transformed, k \in Untransformed : i < k
    /\ ~SharedRehydrator => OwnCourse

LEMMA TransformBegins ==
  ASSUME Transformed' = {}
  PROVE  TransformInv'
<1>1. ASSUME ~SharedRehydrator, NEW n \in Nat, Between(n)'
      PROVE  Reaches(source', extracted', n, FirstCache')
  <2>1. FirstCache' = EmptyCache
    BY <1>1 DEF FirstCache, Transformed
  <2>2. \A k \in 1..n : k \notin extracted'
    BY <1>1 DEF Between, Untransformed, Transformed
  <2> QED
    BY <2>1, <2>2, ReachesStart
<1> QED
  BY <1>1 DEF TransformInv, OwnCourse, Transformed

LEMMA TransformGoesOn ==
  ASSUME ScopeInv, ResultType, TransformInv, NEW i \in Position, TransformItem(i)
  PROVE  TransformInv'
<1>1. /\ stage = "transform" /\ i \in extracted /\ i \notin Transformed
      /\ \A k \in Untransformed : i <= k
      /\ UNCHANGED << stage, source, extracted >>
      /\ Transformed' = Transformed \cup {i} /\ Untransformed' = Untransformed \ {i}
      /\ cache' = CacheAfter(FirstCache, source[i].parts)
  BY DEF TransformItem, Untransformed, Transformed, runVars
<1>2. Position \subseteq Nat \ {0} /\ Transformed \subseteq Position
      /\ Untransformed \subseteq Position /\ extracted \subseteq Position
  BY DEF ScopeInv, RunType, Narrowing, InScope, Position, Transformed, Untransformed
<1>3. \A k \in Transformed : k < i
  BY <1>1 DEF TransformInv, Untransformed, Transformed
<1>4. \A k \in Transformed', m \in Untransformed' : k < m
  BY <1>1, <1>2 DEF TransformInv
<1>5. ASSUME ~SharedRehydrator PROVE OwnCourse'
  <2>1. Reaches(source, extracted, i - 1, FirstCache)
    <3>1. i - 1 \in Nat /\ Between(i - 1)
      BY <1>1, <1>2, <1>3 DEF Between
    <3> QED
      BY <1>1, <1>5, <3>1 DEF TransformInv, OwnCourse
  <2>2. FirstCache' = cache'
    BY <1>1 DEF FirstCache, Transformed
  <2>3. ASSUME NEW n \in Nat, Between(n)' PROVE Reaches(source, extracted, n, cache')
    <3>1. i <= n
      BY <1>1, <2>3 DEF Between
    <3>2. \A k \in (i + 1)..n : k \notin extracted
      <4> SUFFICES ASSUME NEW k \in (i + 1)..n, k \in extracted PROVE FALSE
        OBVIOUS
      <4>1. k \in Nat /\ i < k /\ k <= n
        BY <1>2
      <4>2. k \in Transformed' \/ k \in Untransformed'
        BY <1>1 DEF Transformed, Untransformed
      <4>3. k \notin Transformed'
        BY <1>1, <1>2, <1>3, <4>1
      <4> QED
        BY <1>2, <2>3, <4>1, <4>2, <4>3 DEF Between
    <3> QED
      BY <1>1, <1>2, <2>1, <3>1, <3>2, ReachesOn
  <2>4. ASSUME NEW k \in rehydrated'
        PROVE  \E cached : /\ Reaches(source, extracted, k - 1, cached)
                           /\ Rehydrates(cached, source[k].parts)
    <3>1. k \in rehydrated \/ (k = i /\ Rehydrates(FirstCache, source[i].parts))
      BY <2>4 DEF TransformItem
    <3> QED
      BY <1>1, <1>5, <2>1, <3>1 DEF TransformInv, OwnCourse
  <2>5. ASSUME NEW k \in refused'
        PROVE  \E cached : /\ Reaches(source, extracted, k - 1, cached)
                           /\ ~Rehydrates(cached, source[k].parts)
    <3>1. k \in refused \/ (k = i /\ ~Rehydrates(FirstCache, source[i].parts))
      BY <2>5 DEF TransformItem
    <3> QED
      BY <1>1, <1>5, <2>1, <3>1 DEF TransformInv, OwnCourse
  <2> QED
    BY <1>1, <2>2, <2>3, <2>4, <2>5 DEF OwnCourse
<1> QED
  BY <1>4, <1>5 DEF TransformInv

LEMMA NextTransform ==
  ASSUME ScopeInv, ResultType, TransformInv, [Next]_vars
  PROVE  TransformInv'
<1>1. ASSUME stage' # "transform" PROVE TransformInv'
  BY <1>1 DEF TransformInv
<1>2. ASSUME UNCHANGED << stage, source, extracted, rehydrated, refused, cache >>
      PROVE  TransformInv'
  BY <1>2 DEF TransformInv, OwnCourse, Between, Untransformed, Transformed, FirstCache
<1>3. CASE StartRun \/ StartResume
  BY <1>1, <1>3 DEF StartRun, StartResume, Begin
<1>4. CASE Discover \/ FinishTransform \/ FinishUpload \/ Verify \/ FinalizeMigration
  BY <1>1, <1>4, NextStage
  DEF Discover, FinishTransform, FinishUpload, Verify, FinalizeMigration
<1>5. CASE Extract
  <2>1. Transformed' = {}
    BY <1>5 DEF Extract, ScopeInv, Narrowing, Transformed
  <2> QED
    BY <2>1, TransformBegins
<1>6. ASSUME NEW i \in Position, TransformItem(i) PROVE TransformInv'
  BY <1>6, TransformGoesOn
<1>7. ASSUME NEW i \in Position, UploadItem(i) PROVE TransformInv'
  BY <1>1, <1>7 DEF UploadItem, runVars
<1>8. CASE RetryStep
  <2>1. CASE stage = "transform"
    <3>1. Transformed' = {}
      BY <1>8, <2>1 DEF RetryStep, Transformed
    <3> QED
      BY <3>1, TransformBegins
  <2>2. CASE stage # "transform"
    BY <1>1, <1>8, <2>2 DEF RetryStep
  <2> QED
    BY <2>1, <2>2
<1>9. CASE Stop
  BY <1>1, <1>9 DEF Stop
<1>10. CASE UNCHANGED vars
  BY <1>2, <1>10 DEF vars
<1> QED
  BY <1>3, <1>4, <1>5, <1>6, <1>7, <1>8, <1>9, <1>10 DEF Next

-----------------------------------------------------------------------------
(* What the first three steps leave, as a matter of the source, the        *)
(* filters and, for a shared rehydrator, what it has cached.               *)

ArchivesIn(items) == { items[i].archive : i \in DOMAIN items }

DiscoveredIn(items, filters) == ArchivesIn(items) \cap filters.archives

SupportedIn(items, filters) ==
  { i \in DOMAIN items : items[i].archive \in DiscoveredIn(items, filters) \ Unsupported }

ExtractedIn(items, filters) ==
  { i \in SupportedIn(items, filters) :
      /\ \E selected \in filters.folders : InFolder(selected, items[i].folder)
      /\ filters.start # None => items[i].sent >= filters.start
      /\ filters.end # None => items[i].sent <= filters.end }

AcceptedIn(items, filters) ==
  IF SharedRehydrator
    THEN { i \in ExtractedIn(items, filters) : Covered(cache, items[i].parts) }
    ELSE AcceptedAlone(items, ExtractedIn(items, filters))

\* The results do not depend on anything else in the configuration.
LEMMA OnlyFilters ==
  ASSUME NEW items, NEW one, NEW other, SameFilters(one, other)
  PROVE  /\ DiscoveredIn(items, one) = DiscoveredIn(items, other)
         /\ SupportedIn(items, one) = SupportedIn(items, other)
         /\ ExtractedIn(items, one) = ExtractedIn(items, other)
         /\ AcceptedIn(items, one) = AcceptedIn(items, other)
<1>1. DiscoveredIn(items, one) = DiscoveredIn(items, other)
  BY DEF DiscoveredIn, SameFilters
<1>2. SupportedIn(items, one) = SupportedIn(items, other)
  BY <1>1 DEF SupportedIn
<1>3. ExtractedIn(items, one) = ExtractedIn(items, other)
  BY <1>2 DEF ExtractedIn, SameFilters
<1> QED
  BY <1>1, <1>2, <1>3 DEF AcceptedIn

ResultsAre ==
  /\ origin.items = source
  /\ stage \in {"extract", "transform", "upload"} =>
       discovered = DiscoveredIn(source, config)
  /\ stage \in {"transform", "upload"} => extracted = ExtractedIn(source, config)
  /\ stage = "upload" => /\ rehydrated = AcceptedIn(source, config)
                         /\ refused = extracted \ rehydrated

\* When every item is transformed, the accepted ones are those.
LEMMA TransformedAs ==
  ASSUME ScopeInv, CacheInv, ResultType, TransformInv, ResultsAre,
         stage = "transform", Untransformed = {}
  PROVE  /\ rehydrated = AcceptedIn(source, config)
         /\ refused = extracted \ rehydrated
<1>1. /\ rehydrated \subseteq extracted /\ refused \subseteq extracted
      /\ rehydrated \cap refused = {} /\ extracted = ExtractedIn(source, config)
      /\ extracted \subseteq Position
  BY DEF ScopeInv, Narrowing, InScope, ResultType, ResultsAre
<1>2. refused = extracted \ rehydrated
  BY <1>1 DEF Untransformed
<1>3. CASE SharedRehydrator
  <2>1. \A i \in rehydrated : Covered(cache, source[i].parts)
    BY DEF CacheInv
  <2>2. ASSUME NEW i \in refused PROVE ~Covered(cache, source[i].parts)
    <3>1. source[i].parts \in Seq(Part) /\ GoodCache(cache) /\ Blocked(cache, source[i].parts)
      BY <1>1, PartsType DEF CacheInv
    <3> QED
      BY <3>1, CoveredRehydrates, RefusedIsBlocked
  <2> QED
    BY <1>1, <1>2, <1>3, <2>1, <2>2 DEF AcceptedIn
<1>4. CASE ~SharedRehydrator
  <2>1. OwnCourse
    BY <1>4 DEF TransformInv
  <2>2. rehydrated \subseteq AcceptedAlone(source, extracted)
    BY <1>1, <2>1 DEF OwnCourse, AcceptedAlone
  <2>3. ASSUME NEW i \in refused PROVE i \notin AcceptedAlone(source, extracted)
    <3>1. SUFFICES ASSUME i \in AcceptedAlone(source, extracted) PROVE FALSE
      OBVIOUS
    <3>2. PICK one : /\ Reaches(source, extracted, i - 1, one)
                     /\ Rehydrates(one, source[i].parts)
      BY <3>1 DEF AcceptedAlone
    <3>3. PICK other : /\ Reaches(source, extracted, i - 1, other)
                       /\ ~Rehydrates(other, source[i].parts)
      BY <2>1 DEF OwnCourse
    <3>4. i - 1 \in Nat
      BY <1>1 DEF ScopeInv, RunType, Position
    <3>5. one = other
      BY <3>2, <3>3, <3>4, ReachesOnce
    <3> QED
      BY <3>2, <3>3, <3>5
  <2>4. AcceptedAlone(source, extracted) \subseteq extracted
    BY DEF AcceptedAlone
  <2> QED
    BY <1>1, <1>2, <1>4, <2>2, <2>3, <2>4 DEF AcceptedIn
<1> QED
  BY <1>2, <1>3, <1>4

LEMMA NextResultsAre ==
  ASSUME ScopeInv, CacheInv, ResultType, TransformInv, ResultsAre, [Next]_vars
  PROVE  ResultsAre'
<1> USE DEF ResultsAre
<1>1. ASSUME UNCHANGED << source, origin, config >>,
             stage' \notin {"extract", "transform", "upload"}
      PROVE  ResultsAre'
  BY <1>1
<1>2. CASE StartRun
  BY <1>2 DEF StartRun, Begin
<1>3. CASE StartResume
  <2>1. PICK items, own :
          /\ Begin(items, ResumeConfiguration(own), checkpoint.step)
          /\ origin' = [savedOrigin EXCEPT !.items = items]
    BY <1>3 DEF StartResume
  <2>2. origin'.items = items
    BY <2>1 DEF ScopeInv, RunType, Origin
  <2> QED
    BY <2>1, <2>2 DEF Begin
<1>4. CASE Discover
  <2>1. stage' = "extract" /\ UNCHANGED << source, origin, config >>
    BY <1>4, NextStage DEF Discover, StepReturns, runVars
  <2>2. discovered' = DiscoveredIn(source, config)
    BY <1>4 DEF Discover, SourceArchives, DiscoveredIn, ArchivesIn, Position
  <2> QED
    BY <2>1, <2>2
<1>5. CASE Extract
  <2>1. /\ stage = "extract" /\ stage' = "transform"
        /\ UNCHANGED << source, origin, config, discovered >>
    BY <1>5, NextStage DEF Extract, StepReturns, runVars
  <2>2. extracted' = ExtractedIn(source, config)
    BY <1>5, <2>1 DEF Extract, Supported, MatchesFilters, SupportedIn, ExtractedIn, Position
  <2> QED
    BY <2>1, <2>2
<1>6. ASSUME NEW i \in Position, TransformItem(i) PROVE ResultsAre'
  BY <1>6 DEF TransformItem, runVars
<1>7. CASE FinishTransform
  <2>1. /\ stage = "transform" /\ stage' = "upload" /\ Untransformed = {}
        /\ UNCHANGED << source, origin, config, discovered, extracted, rehydrated, refused,
                        cache >>
    BY <1>7, NextStage DEF FinishTransform, StepReturns, runVars, results
  <2> QED
    BY <2>1, TransformedAs DEF AcceptedIn
<1>8. ASSUME NEW i \in Position, UploadItem(i) PROVE ResultsAre'
  BY <1>8 DEF UploadItem, runVars, AcceptedIn
<1>9. CASE RetryStep
  BY <1>9 DEF RetryStep, runVars, AcceptedIn
<1>10. CASE FinishUpload \/ Verify \/ FinalizeMigration
  <2>1. stage' \in {"verify", "finalize", "done"} /\ UNCHANGED << source, origin, config >>
    BY <1>10, NextStage DEF FinishUpload, Verify, FinalizeMigration, StepReturns, runVars
  <2> QED
    BY <1>1, <2>1
<1>11. CASE Stop
  BY <1>1, <1>11 DEF Stop, runVars
<1>12. CASE UNCHANGED vars
  BY <1>12 DEF vars, AcceptedIn
<1> QED
  BY <1>2, <1>3, <1>4, <1>5, <1>6, <1>7, <1>8, <1>9, <1>10, <1>11, <1>12 DEF Next

-----------------------------------------------------------------------------
(* The items a shared rehydrator has decided about stay decided.           *)

Decided(items, chosen) ==
  \A i \in chosen : Covered(cache, items[i].parts) \/ Blocked(cache, items[i].parts)

LEMMA CoveredNotBlocked ==
  ASSUME NEW cached, GoodCache(cached), NEW parts \in Seq(Part), Covered(cached, parts)
  PROVE  ~Blocked(cached, parts)
  BY CoveredRehydrates, RefusedIsBlocked

LEMMA DecidedStays ==
  ASSUME ScopeInv, CacheInv, SharedRehydrator, NEW k \in Position, TransformItem(k),
         NEW items \in Seq(Item), NEW chosen \in SUBSET DOMAIN items,
         Decided(items, chosen)
  PROVE  /\ Decided(items, chosen)'
         /\ \A i \in chosen : Covered(cache', items[i].parts) <=> Covered(cache, items[i].parts)
<1>1. cache' = CacheAfter(cache, source[k].parts)
  BY DEF TransformItem, FirstCache
<1>2. GoodCache(cache) /\ GoodCache(cache') /\ Grown(cache, cache')
  BY <1>1, PartsType, CacheGrows DEF CacheInv
<1>3. ASSUME NEW i \in chosen
      PROVE  /\ Covered(cache', items[i].parts) \/ Blocked(cache', items[i].parts)
             /\ Covered(cache', items[i].parts) <=> Covered(cache, items[i].parts)
  <2>0. items[i] \in Item
    BY i \in DOMAIN items
  <2>1. items[i].parts \in Seq(Part)
    BY <2>0 DEF Item
  <2>2. Covered(cache, items[i].parts) => Covered(cache', items[i].parts)
    BY <1>2, <2>1, CoveredGrows
  <2>3. Blocked(cache, items[i].parts) => Blocked(cache', items[i].parts)
    BY <1>2, <2>1, BlockedGrows
  <2> QED
    BY <1>2, <2>1, <2>2, <2>3, CoveredNotBlocked DEF Decided
<1> QED
  BY <1>3 DEF Decided

-----------------------------------------------------------------------------
(* Counters of the first three steps.                                      *)

Shows(counts, successful, failed, filtered) ==
  /\ counts.total = successful + failed
  /\ counts.successful = successful /\ counts.failed = failed /\ counts.filtered = filtered
  /\ counts.skipped = 0 /\ counts.uploaded = 0 /\ counts.unverified = 0

FilteredIn(items, filters) ==
  Cardinality(SupportedIn(items, filters) \ ExtractedIn(items, filters))

LeftOutOf(items, filters) == Cardinality(ArchivesIn(items) \ DiscoveredIn(items, filters))

ShownAfter(n, items, filters, counts) ==
  /\ n \in 1..3 => counts.archives = LeftOutOf(items, filters)
  /\ n = 1 => Shows(counts, Cardinality(DiscoveredIn(items, filters)), 0, 0)
  /\ n = 2 => Shows(counts, Cardinality(ExtractedIn(items, filters)), 0,
                    FilteredIn(items, filters))
  /\ n = 3 => Shows(counts, Cardinality(AcceptedIn(items, filters)),
                    Cardinality(ExtractedIn(items, filters) \ AcceptedIn(items, filters)),
                    FilteredIn(items, filters))

\* A step that is replayed, or the first that is not.
Resuming ==
  /\ resumedAt # 0
  /\ stage \in {"discover", "extract", "transform", "upload"}
  /\ StageNumber(stage) <= resumedAt + 1

RunShown ==
  /\ stage = "extract" => ShownAfter(1, source, config, metrics)
  /\ stage = "transform" => ShownAfter(2, source, config, metrics)
  /\ stage = "upload" => ShownAfter(3, source, config, metrics)

SavedShown ==
  /\ ShownAfter(checkpoint.step, savedOrigin.items, checkpoint.config, checkpoint.counts)
  /\ SharedRehydrator /\ checkpoint.step = 3 =>
       Decided(savedOrigin.items, ExtractedIn(savedOrigin.items, checkpoint.config))

SavedKept ==
  Resuming => /\ checkpoint.step = resumedAt
              /\ SameFilters(config, checkpoint.config)
              /\ metrics.dry = checkpoint.counts.dry

ReplayInv == RunShown /\ SavedShown /\ SavedKept

LEMMA ProcessedShows ==
  ASSUME metrics \in Counts, NEW n, NEW m, NEW filtered
  PROVE  /\ Shows([Processed(n, m) EXCEPT !.filtered = filtered], n, m, filtered)
         /\ [Processed(n, m) EXCEPT !.filtered = filtered].dry = metrics.dry
         /\ [Processed(n, m) EXCEPT !.filtered = filtered].archives = metrics.archives
         /\ Shows(Processed(n, m), n, m, metrics.filtered)
         /\ Processed(n, m).dry = metrics.dry
         /\ Processed(n, m).archives = metrics.archives
  BY CountsAre DEF Processed, Shows, Fields

\* A step that returns: what it publishes is what it saves, unless it is replayed.
LEMMA ReturnsShown ==
  ASSUME ScopeInv, RunsType, CountsType, ResultsAre, ReplayInv, resumedAt \in 0..5,
         StepReturns, stage \in {"discover", "extract", "transform"}, UNCHANGED cache,
         ShownAfter(StageNumber(stage), source, config, metrics'),
         metrics'.dry = metrics.dry,
         stage = "transform" /\ SharedRehydrator =>
           Decided(source, ExtractedIn(source, config))
  PROVE  ReplayInv'
<1>1. /\ stage = "discover" => stage' = "extract"
      /\ stage = "extract" => stage' = "transform"
      /\ stage = "transform" => stage' = "upload"
  BY NextStage
<1>2. UNCHANGED << source, config, resumedAt, origin >>
  BY DEF StepReturns, runVars
<1>3. \A n, items, filters, counts :
        ShownAfter(n, items, filters, counts)' = ShownAfter(n, items, filters, counts)
  BY DEF ShownAfter, AcceptedIn
<1>4. RunShown'
  BY <1>1, <1>2, <1>3, StageOrder DEF RunShown
<1>5. CASE Replaying
  <2>1. UNCHANGED << checkpoint, savedOrigin >>
    BY <1>5 DEF StepReturns
  <2>2. SavedShown'
    BY <1>3, <2>1 DEF ReplayInv, SavedShown, Decided
  <2>3. StageNumber(stage) \in 1..3 /\ StageNumber(stage) <= resumedAt
    BY <1>5, StageOrder, <1>1 DEF Replaying, Stages
  <2> QED
    BY <1>2, <1>4, <2>1, <2>2, <2>3 DEF ReplayInv, SavedKept, Resuming
<1>6. CASE ~Replaying
  <2>1. /\ checkpoint' = [step |-> StageNumber(stage), counts |-> metrics', config |-> config]
        /\ savedOrigin' = origin
    BY <1>6 DEF StepReturns
  <2>2. SavedShown'
    BY <1>3, <2>1, StageOrder DEF ResultsAre, SavedShown, Decided
  <2>3. ~Resuming'
    BY <1>1, <1>2, <1>6, StageOrder DEF Replaying, Resuming, Stages
  <2> QED
    BY <1>4, <2>2, <2>3 DEF ReplayInv, SavedKept
<1> QED
  BY <1>5, <1>6

\* A transformed item changes nothing that was counted.
LEMMA TransformShown ==
  ASSUME ScopeInv, CacheInv, RunsType, ReplayInv, NEW i \in Position, TransformItem(i)
  PROVE  ReplayInv'
<1> DEFINE items == savedOrigin.items
           filters == checkpoint.config
<1>1. /\ stage = "transform"
      /\ UNCHANGED << source, config, stage, resumedAt, metrics, checkpoint, savedOrigin >>
  BY DEF TransformItem, runVars
<1>2. RunShown' /\ SavedKept'
  BY <1>1 DEF ReplayInv, RunShown, ShownAfter, SavedKept, Resuming
<1>3. CASE SharedRehydrator /\ checkpoint.step = 3
  <2>1. items \in Seq(Item) /\ ExtractedIn(items, filters) \in SUBSET DOMAIN items
    BY DEF ScopeInv, RunType, Origin, ExtractedIn, SupportedIn
  <2>2. Decided(items, ExtractedIn(items, filters))
    BY <1>3 DEF ReplayInv, SavedShown
  <2>3. /\ Decided(items, ExtractedIn(items, filters))'
        /\ \A k \in ExtractedIn(items, filters) :
             Covered(cache', items[k].parts) <=> Covered(cache, items[k].parts)
    <3> HIDE DEF items
    <3>1. items' = items /\ ExtractedIn(items, filters)' = ExtractedIn(items, filters)
      BY <1>1 DEF items
    <3>2. /\ \A k \in ExtractedIn(items, filters) :
               Covered(cache', items[k].parts) \/ Blocked(cache', items[k].parts)
          /\ \A k \in ExtractedIn(items, filters) :
               Covered(cache', items[k].parts) <=> Covered(cache, items[k].parts)
      BY <1>3, <2>1, <2>2, DecidedStays DEF Decided
    <3> QED
      BY <3>1, <3>2 DEF Decided
  <2>4. AcceptedIn(items, filters)' = AcceptedIn(items, filters)
    BY <1>1, <1>3, <2>3 DEF AcceptedIn
  <2> QED
    BY <1>1, <1>2, <2>3, <2>4 DEF ReplayInv, SavedShown, ShownAfter
<1>4. CASE ~(SharedRehydrator /\ checkpoint.step = 3)
  <2>1. SavedShown'
    BY <1>1, <1>4 DEF ReplayInv, SavedShown, ShownAfter, AcceptedIn
  <2> QED
    BY <1>2, <2>1 DEF ReplayInv
<1> QED
  BY <1>3, <1>4

LEMMA NextReplay ==
  ASSUME ScopeInv, CacheInv, RunsType, ResultType, CountsType, TransformInv, ResultsAre,
         ReplayInv, resumedAt \in 0..5, [Next]_vars
  PROVE  ReplayInv'
<1>0. metrics \in Counts
  BY DEF CountsType
<1>1. ASSUME UNCHANGED << checkpoint, savedOrigin, cache >> PROVE SavedShown'
  BY <1>1 DEF ReplayInv, SavedShown, ShownAfter, AcceptedIn, Decided
<1>2. CASE StartRun
  <2>1. /\ stage' = "discover" /\ resumedAt' = 0
        /\ UNCHANGED << checkpoint, savedOrigin, cache >>
    BY <1>2 DEF StartRun, Begin
  <2> QED
    BY <1>1, <2>1 DEF ReplayInv, RunShown, SavedKept, Resuming
<1>3. CASE StartResume
  <2>1. PICK items \in IF LiveSource THEN Sources ELSE {savedOrigin.items}, own \in Configs :
          Begin(items, ResumeConfiguration(own), checkpoint.step)
    BY <1>3 DEF StartResume
  <2>2. /\ stage' = "discover" /\ resumedAt' = checkpoint.step
        /\ config' = ResumeConfiguration(own)
        /\ UNCHANGED << checkpoint, savedOrigin, cache >>
    BY <2>1 DEF Begin
  <2>3. metrics' = checkpoint.counts
    BY <1>3 DEF StartResume, RestoredCounts
  <2>4. SameFilters(config', checkpoint.config)
    BY <2>2 DEF ResumeConfiguration, SameFilters, ScopeInv, RunType, Config
  <2> QED
    BY <1>1, <2>2, <2>3, <2>4 DEF ReplayInv, RunShown, SavedKept
<1>4. CASE Discover
  <2>1. /\ stage = "discover" /\ StepReturns /\ UNCHANGED cache
        /\ metrics' = [Processed(Cardinality(DiscoveredIn(source, config)), 0)
                         EXCEPT !.filtered = 0, !.archives = LeftOutOf(source, config)]
    BY <1>4
    DEF Discover, DiscoverCounts, SourceArchives, DiscoveredIn, ArchivesIn, LeftOutOf, Position
  <2>2. /\ Shows(metrics', Cardinality(DiscoveredIn(source, config)), 0, 0)
        /\ metrics'.dry = metrics.dry /\ metrics'.archives = LeftOutOf(source, config)
    <3> DEFINE n == Cardinality(DiscoveredIn(source, config))
               left == LeftOutOf(source, config)
    <3>1. metrics' = [Processed(n, 0) EXCEPT !.filtered = 0, !.archives = left]
      BY <2>1
    <3> HIDE DEF n, left
    <3>2. /\ Shows(metrics', n, 0, 0)
          /\ metrics'.dry = metrics.dry /\ metrics'.archives = left
      BY <1>0, <3>1, CountsAre DEF Processed, Shows, Fields
    <3> QED
      BY <3>2 DEF n, left
  <2>3. ShownAfter(StageNumber(stage), source, config, metrics')
    BY <2>1, <2>2, StageOrder DEF ShownAfter
  <2> QED
    BY <2>1, <2>2, <2>3, ReturnsShown
<1>5. CASE Extract
  <2>1. /\ stage = "extract" /\ StepReturns /\ UNCHANGED << cache, discovered >>
        /\ metrics' = ExtractCounts(extracted')
    BY <1>5 DEF Extract
  <2>2. Supported = SupportedIn(source, config)
    BY <2>1 DEF Supported, SupportedIn, ResultsAre, Position
  <2>3. extracted' = ExtractedIn(source, config)
    BY <1>5, <2>2 DEF Extract, MatchesFilters, ExtractedIn
  <2>4. metrics' = [Processed(Cardinality(ExtractedIn(source, config)), 0)
                      EXCEPT !.filtered = FilteredIn(source, config)]
    BY <2>1, <2>2, <2>3 DEF ExtractCounts, FilteredIn
  <2>5. /\ Shows(metrics', Cardinality(ExtractedIn(source, config)), 0,
                 FilteredIn(source, config))
        /\ metrics'.dry = metrics.dry /\ metrics'.archives = metrics.archives
    BY <1>0, <2>4, ProcessedShows
  <2>6. ShownAfter(StageNumber(stage), source, config, metrics')
    BY <2>1, <2>5, StageOrder DEF ReplayInv, RunShown, ShownAfter
  <2> QED
    BY <2>1, <2>5, <2>6, ReturnsShown
<1>6. ASSUME NEW i \in Position, TransformItem(i) PROVE ReplayInv'
  BY <1>6, TransformShown
<1>7. CASE FinishTransform
  <2>1. /\ stage = "transform" /\ Untransformed = {} /\ StepReturns /\ UNCHANGED cache
        /\ metrics' = Processed(Cardinality(rehydrated), Cardinality(refused))
    BY <1>7 DEF FinishTransform, TransformCounts
  <2>2. /\ rehydrated = AcceptedIn(source, config)
        /\ extracted = ExtractedIn(source, config)
        /\ refused = extracted \ rehydrated
    BY <2>1, TransformedAs DEF ResultsAre
  <2>3. /\ metrics.filtered = FilteredIn(source, config)
        /\ metrics.archives = LeftOutOf(source, config)
    BY <2>1 DEF ReplayInv, RunShown, ShownAfter, Shows
  <2>4. /\ Shows(metrics', Cardinality(rehydrated), Cardinality(refused), metrics.filtered)
        /\ metrics'.dry = metrics.dry /\ metrics'.archives = metrics.archives
    BY <1>0, <2>1, ProcessedShows
  <2>5. ShownAfter(StageNumber(stage), source, config, metrics')
    BY <2>1, <2>2, <2>3, <2>4, StageOrder DEF ShownAfter
  <2>6. Decided(source, ExtractedIn(source, config))
    BY <2>1, <2>2 DEF Decided, CacheInv, Untransformed
  <2> QED
    BY <2>1, <2>4, <2>5, <2>6, ReturnsShown
<1>8. CASE FinishUpload \/ Verify \/ FinalizeMigration
  <2>1. /\ stage \in {"upload", "verify", "finalize"} /\ StepReturns /\ UNCHANGED cache
        /\ stage' \in {"verify", "finalize", "done"}
    BY <1>8, NextStage DEF FinishUpload, Verify, FinalizeMigration
  <2>2. CASE Replaying
    BY <1>1, <2>1, <2>2 DEF StepReturns, ReplayInv, RunShown, SavedKept, Resuming
  <2>3. CASE ~Replaying
    <3>1. checkpoint'.step \in 4..6
      BY <2>1, <2>3, StageOrder DEF StepReturns
    <3>2. SavedShown'
      BY <3>1 DEF SavedShown, ShownAfter
    <3> QED
      BY <2>1, <3>2 DEF ReplayInv, RunShown, SavedKept, Resuming
  <2> QED
    BY <2>2, <2>3
<1>9. ASSUME UNCHANGED << source, config, stage, resumedAt, metrics, cache, checkpoint,
                          savedOrigin >>
      PROVE  ReplayInv'
  BY <1>1, <1>9 DEF ReplayInv, RunShown, ShownAfter, AcceptedIn, SavedKept, Resuming
<1>10. ASSUME NEW i \in Position, UploadItem(i) PROVE ReplayInv'
  BY <1>9, <1>10 DEF UploadItem, runVars
<1>11. CASE RetryStep
  BY <1>9, <1>11 DEF RetryStep, runVars
<1>12. CASE Stop
  BY <1>1, <1>12 DEF Stop, ReplayInv, RunShown, SavedKept, Resuming
<1>13. CASE UNCHANGED vars
  BY <1>9, <1>13 DEF vars
<1> QED
  BY <1>2, <1>3, <1>4, <1>5, <1>6, <1>7, <1>8, <1>10, <1>11, <1>12, <1>13 DEF Next

CourseInv == TransformInv /\ ResultsAre /\ ReplayInv

LEMMA CourseInvariant == Spec => []CourseInv
<1>1. Init => CourseInv
  <2> SUFFICES ASSUME Init PROVE CourseInv
    OBVIOUS
  <2>1. TransformInv /\ ResultsAre /\ RunShown
    BY DEF Init, TransformInv, ResultsAre, RunShown, NoOrigin
  <2>2. SavedShown /\ SavedKept
    BY DEF Init, NothingSaved, SavedShown, ShownAfter, SavedKept, Resuming
  <2> QED
    BY <2>1, <2>2 DEF CourseInv, ReplayInv
<1>2. ScopeInv /\ CacheInv /\ ReportInv /\ ItemInv /\ CourseInv /\ [Next]_vars => CourseInv'
  BY NextTransform, NextResultsAre, NextReplay
  DEF CourseInv, ItemInv, ReportInv, OutcomeInv
<1> QED
  BY <1>1, <1>2, ScopeInvariant, CacheInvariant, ReportInvariant, ItemInvariant, PTL DEF Spec

\* A resume that replays Discover, Extract or Transform over an unchanged source arrives
\* at the counters its checkpoint was saved with, whatever was run, resumed or stopped in
\* between and whatever the rehydrator has cached since.
THEOREM ReplaysReproduce == Spec => []ReplayReproduces
<1>1. ASSUME ItemInv, CourseInv PROVE ReplayReproduces
  <2> SUFFICES ASSUME resumedAt \in 1..3, stage = Stages[resumedAt + 1],
                      source = savedOrigin.items
               PROVE  metrics = checkpoint.counts
    BY DEF ReplayReproduces
  <2>1. /\ resumedAt = 1 => stage = "extract"
        /\ resumedAt = 2 => stage = "transform"
        /\ resumedAt = 3 => stage = "upload"
    BY DEF Stages
  <2>2. Resuming
    BY <2>1, StageOrder DEF Resuming
  <2>3. /\ checkpoint.step = resumedAt /\ metrics.dry = checkpoint.counts.dry
        /\ SameFilters(config, checkpoint.config)
    BY <1>1, <2>2 DEF CourseInv, ReplayInv, SavedKept
  <2>4. /\ ShownAfter(resumedAt, source, config, metrics)
        /\ ShownAfter(resumedAt, source, checkpoint.config, checkpoint.counts)
    BY <1>1, <2>1, <2>3 DEF CourseInv, ReplayInv, RunShown, SavedShown
  <2>5. /\ DiscoveredIn(source, config) = DiscoveredIn(source, checkpoint.config)
        /\ SupportedIn(source, config) = SupportedIn(source, checkpoint.config)
        /\ ExtractedIn(source, config) = ExtractedIn(source, checkpoint.config)
        /\ AcceptedIn(source, config) = AcceptedIn(source, checkpoint.config)
    BY <2>3, OnlyFilters
  <2>6. \A field \in Fields : metrics[field] = checkpoint.counts[field]
    BY <2>1, <2>3, <2>4, <2>5 DEF ShownAfter, Shows, FilteredIn, LeftOutOf, Fields
  <2>7. metrics \in [Fields -> Nat] /\ checkpoint.counts \in [Fields -> Nat]
    BY <1>1, CountsAre DEF ItemInv, CountsType
  <2> QED
    BY <2>6, <2>7
<1> QED
  BY <1>1, ItemInvariant, CourseInvariant, PTL

=============================================================================
