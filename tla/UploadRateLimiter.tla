------------------------- MODULE UploadRateLimiter -------------------------
(***************************************************************************)
(* The shared limiter of the target                                        *)
(* (mock_storionx/services/upload_rate_limiter.py): its state and the      *)
(* parts of a call of acquire_delay_seconds.  A call reads the clock first *)
(* and enters the lock afterwards, so what it decides may rest on an old   *)
(* reading.  Time is counted in whole units; the limiter is configured     *)
(* (without a rate it admits everything).                                  *)
(*                                                                         *)
(* LimiterClients calls it from any number of threads, ThrottledUpload     *)
(* from the workers of a batch.                                            *)
(***************************************************************************)
EXTENDS Integers

CONSTANT Interval   \* 1 / requests_per_second

ASSUME LimiterAssumption == Interval \in Nat \ {0}

NoTime == -1

VARIABLES
  clock,           \* the real time
  nextAvailable,   \* _next_available_at
  reading          \* per caller: "now" of its call in progress, or NoTime

LimiterInit(callers) ==
  /\ clock = 0
  /\ nextAvailable = NoTime
  /\ reading = [c \in callers |-> NoTime]

LimiterType(callers) ==
  /\ clock \in Nat
  /\ nextAvailable \in Nat \cup {NoTime}
  /\ reading \in [callers -> Nat \cup {NoTime}]

Calling(c) == reading[c] # NoTime

ReadClock(c) ==
  /\ reading' = [reading EXCEPT ![c] = clock]
  /\ UNCHANGED << clock, nextAvailable >>

\* Mutant: the reservation is compared with a unit already taken off.
OpenEarly(now) == nextAvailable = NoTime \/ now >= nextAvailable - 1

Open(now) == nextAvailable = NoTime \/ now >= nextAvailable

\* Mutant: a rejected call reserves nothing.
SameReservation == nextAvailable

NextReservation == nextAvailable + Interval

\* The critical section returns 0.
Admit(c) ==
  /\ Calling(c)
  /\ Open(reading[c])
  /\ nextAvailable' = reading[c] + Interval
  /\ reading' = [reading EXCEPT ![c] = NoTime]
  /\ UNCHANGED clock

\* What a rejected call returns.
Delay(c) == nextAvailable - reading[c]

\* It returns a delay, and the next rejection waits longer.
Reject(c) ==
  /\ Calling(c)
  /\ ~Open(reading[c])
  /\ nextAvailable' = NextReservation
  /\ reading' = [reading EXCEPT ![c] = NoTime]
  /\ UNCHANGED clock

=============================================================================
