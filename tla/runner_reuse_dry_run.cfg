SPECIFICATION Spec
CONSTANTS
  Docs = {d1}
  Conflicting = {}
  Policy <- TwoAttempts
  PipelineLengths = {6}
  DryConfigs = {FALSE}
  RunModes = {"run", "dry_run"}
  SaveMayFail = FALSE
  MaxRunners = 1
  MaxRunsPerRunner = 2
PROPERTY
  DryRunLeavesTarget
CHECK_DEADLOCK FALSE
