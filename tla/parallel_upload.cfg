SPECIFICATION Spec
CONSTANTS
  a = a
  b = b
  c = c
  v = v
  w = w
  Id = {a, b, c}
  Version = {v, w}
  None = None
  Batches <- FewBatches
  Calls = {"upload", "dry_run", "reconstruct"}
  WorkerCounts = {1, 2}
  UploadMayFail = TRUE
  MaxDocuments = 3
  MaxCalls = 3
INVARIANTS
  TypeOK
  TargetConsistent
  NoWorkerOutlivesStep
  ResultsFaithful
  FirstFailureLeaves
PROPERTIES
  StoredContentNeverChanges
  StepEnds
  IsIdempotentStore
CHECK_DEADLOCK FALSE
