SPECIFICATION Spec
CONSTANTS
  Docs = {d1, d2}
  Conflicting = {d2}
  Policy <- TwoAttempts
  PipelineLengths = {6}
  DryConfigs = {FALSE}
  RunModes = {"run", "dry_run", "resume"}
  SaveMayFail = TRUE
  MaxRunners = 2
  MaxRunsPerRunner = 2
INVARIANTS
  CheckpointSound
  SuccessIsEarned
CHECK_DEADLOCK FALSE
