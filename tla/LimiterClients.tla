--------------------------- MODULE LimiterClients ---------------------------
(***************************************************************************)
(* Worker threads of any batches at the shared limiter, calling it when    *)
(* they like.                                                              *)
(***************************************************************************)
EXTENDS UploadRateLimiter, FiniteSets

CONSTANTS
  Client,      \* the worker threads
  MaxTime,     \* bound: the clock stops
  MaxCalls     \* bound: calls of acquire_delay_seconds

ASSUME ClientsAssumption == MaxTime \in Nat /\ MaxCalls \in Nat

VARIABLES
  retryAt,   \* per client: when the delay of its last rejection is over
  admitted,  \* history: number of admitted uploads
  calls      \* bound: calls so far

vars == << clock, nextAvailable, reading, retryAt, admitted, calls >>

Init ==
  /\ LimiterInit(Client)
  /\ retryAt = [c \in Client |-> NoTime]
  /\ admitted = 0
  /\ calls = 0

Tick ==
  /\ clock < MaxTime
  /\ clock' = clock + 1
  /\ UNCHANGED << nextAvailable, reading, retryAt, admitted, calls >>

\* Nothing makes a client wait for retryAt.
Call(c) ==
  /\ calls < MaxCalls
  /\ ~Calling(c)
  /\ ReadClock(c)
  /\ calls' = calls + 1
  /\ UNCHANGED << retryAt, admitted >>

Admitted(c) ==
  /\ Admit(c)
  /\ admitted' = admitted + 1
  /\ retryAt' = [retryAt EXCEPT ![c] = NoTime]
  /\ UNCHANGED calls

Rejected(c) ==
  /\ Reject(c)
  /\ retryAt' = [retryAt EXCEPT ![c] = reading[c] + Delay(c)]
  /\ UNCHANGED << admitted, calls >>

Next ==
  \/ Tick
  \/ \E c \in Client : Call(c) \/ Admitted(c) \/ Rejected(c)

Spec == Init /\ [][Next]_vars

-----------------------------------------------------------------------------
(* Properties.                                                             *)

\* Every variable has its type, and no reading is of the future.
TypeOK ==
  /\ LimiterType(Client)
  /\ \A c \in Client : reading[c] <= clock
  /\ retryAt \in [Client -> Nat \cup {NoTime}]
  /\ admitted \in Nat
  /\ calls \in Nat

\* However many workers race, and however old their readings are, the uploads
\* admitted so far never exceed what the configured rate allows for the time
\* that has passed, plus the first one.
RateNeverExceeded == admitted > 0 => (admitted - 1) * Interval <= clock

\* A burst is spread: the retry times handed out to workers that have not come
\* back lie at least an interval apart.
RetriesAreSpread ==
  \A c, e \in Client :
    (c # e /\ retryAt[c] # NoTime /\ retryAt[e] # NoTime /\ retryAt[c] <= retryAt[e]) =>
      retryAt[c] + Interval <= retryAt[e]

\* "Return the delay required before the next upload may proceed": a worker that
\* comes back when the delay is over is not sent away again.
ReturnedDelaySuffices ==
  [][\A c \in Client :
       (retryAt[c] # NoTime /\ reading[c] >= retryAt[c]) => ~Rejected(c)]_vars

=============================================================================
