------------------------ MODULE MCThrottledUpload ------------------------
(* Instances of ThrottledUpload for TLC.                                   *)
EXTENDS ThrottledUpload

\* The second of two delays is capped.
TwoBackoffs ==
  [strategy |-> "exponential_backoff", max_attempts |-> 3, fixed_delay |-> 0,
   initial_backoff |-> 1, maximum_backoff |-> 2, multiplier |-> 3]

\* A 503 with a delay of its own, and one that is not retried.
Failures ==
  { [status |-> "503", retryAfter |-> 4], [status |-> "other", retryAfter |-> 0] }

==========================================================================
