SPECIFICATION Spec
CONSTANTS
  Client = {c1}
  Interval = 2
  MaxTime = 4
  MaxCalls = 4
PROPERTY
  ReturnedDelaySuffices
CHECK_DEADLOCK FALSE
