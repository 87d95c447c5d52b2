-------------------------- MODULE MCPipelineRunner --------------------------
(* Instances of PipelineRunner for TLC.                                    *)
EXTENDS PipelineRunner

\* Two attempts of a step: the first failure is retried, the second is final.
TwoAttempts ==
  [strategy |-> "fixed_delay", max_attempts |-> 2, fixed_delay |-> 1,
   initial_backoff |-> 0, maximum_backoff |-> 0, multiplier |-> 1]

=============================================================================
