SPECIFICATION Spec
CONSTANTS
  Docs = {d1, d2, d3}
  Conflicting = {d3}
  Policy <- TwoAttempts
  PipelineLengths = {4, 6}
  DryConfigs = {FALSE, TRUE}
  RunModes = {"run", "dry_run", "resume"}
  SaveMayFail = TRUE
  MaxRunners = 3
  MaxRunsPerRunner = 1
INVARIANTS
  TypeOK
  DeliveredAtMostOnce
  CheckpointSound
  SuccessIsEarned
  FailureIsResumable
  CompletedMeansFinalized
  ExecutionsReported
  MachineTracksStep
  AcceptedResumeCanComplete
PROPERTIES
  ResumeNeverRegresses
  DryRunLeavesTarget
  KeepsJobContract
  RunTerminates
CHECK_DEADLOCK FALSE
