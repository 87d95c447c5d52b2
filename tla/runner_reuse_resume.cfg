SPECIFICATION Spec
CONSTANTS
  Docs = {d1}
  Conflicting = {}
  Policy <- TwoAttempts
  PipelineLengths = {6}
  DryConfigs = {FALSE}
  RunModes = {"run", "resume"}
  SaveMayFail = FALSE
  MaxRunners = 2
  MaxRunsPerRunner = 2
INVARIANT
  AcceptedResumeCanComplete
CHECK_DEADLOCK FALSE
