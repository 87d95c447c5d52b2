SPECIFICATION Spec
CONSTANTS
  Documents = 3
  WorkerCounts = {1, 2}
  Interval = 1
  Policy <- TwoBackoffs
  Injected <- Failures
  MaxPause = 2
INVARIANTS
  TypeOK
  MetricsMatchRecords
  RetryAfterHonoured
PROPERTIES
  BatchesArePaced
  RunEnds
CHECK_DEADLOCK FALSE
