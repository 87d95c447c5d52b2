SPECIFICATION Spec
CONSTANTS
  Client = {c1, c2, c3}
  Interval = 2
  MaxTime = 8
  MaxCalls = 7
SYMMETRY Workers
INVARIANTS
  RateNeverExceeded
  RetriesAreSpread
CHECK_DEADLOCK FALSE
