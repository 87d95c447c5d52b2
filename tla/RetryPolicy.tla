---------------------------- MODULE RetryPolicy ----------------------------
(***************************************************************************)
(* The deterministic retry policy (migration_engine/retry/retry_policy.py) *)
(* A policy is a record; delays are whole time units.  Attempt 1 is the    *)
(* initial execution and max_attempts counts it.                           *)
(***************************************************************************)
EXTENDS Integers

RetryStrategy == { "none", "fixed_delay", "exponential_backoff" }

\* __post_init__: the configurations the constructor accepts.
IsPolicy(p) ==
  /\ p.strategy \in RetryStrategy
  /\ p.max_attempts \in Nat \ {0}
  /\ p.fixed_delay \in Nat
  /\ p.initial_backoff \in Nat
  /\ p.maximum_backoff \in Nat
  /\ p.multiplier \in Nat \ {0}
  /\ p.strategy = "exponential_backoff" =>
       p.initial_backoff <= p.maximum_backoff

\* Mutant: max_attempts taken for the number of retries.
ShouldRetryOnceMore(p, attempt, retryable) ==
  /\ retryable
  /\ p.strategy # "none"
  /\ attempt <= p.max_attempts

\* decide().should_retry for the attempt that just failed.
ShouldRetry(p, attempt, retryable) ==
  /\ retryable
  /\ p.strategy # "none"
  /\ attempt < p.max_attempts

\* _calculate_delay, exponential: grows with the attempts up to the maximum.
Backoff(p, attempt) ==
  LET delay == p.initial_backoff * p.multiplier^(attempt - 1)
  IN  IF delay <= p.maximum_backoff THEN delay ELSE p.maximum_backoff

\* _calculate_delay of an attempt that is retried.
PolicyDelay(p, attempt) ==
  IF p.strategy = "fixed_delay" THEN p.fixed_delay ELSE Backoff(p, attempt)

=============================================================================
