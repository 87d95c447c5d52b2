------------------------ MODULE LimiterClients_proofs ------------------------
(***************************************************************************)
(* Theorems about LimiterClients, for any number of workers, any interval  *)
(* and any number of calls.  The argument: nextAvailable lies an interval  *)
(* after every retry time handed out and at least one interval per         *)
(* admission after the start.                                              *)
(***************************************************************************)
EXTENDS LimiterClients, TLAPS

Reservations ==
  /\ nextAvailable = NoTime =>
       admitted = 0 /\ \A c \in Client : retryAt[c] = NoTime
  /\ nextAvailable # NoTime =>
       /\ admitted * Interval <= nextAvailable
       /\ \A c \in Client : retryAt[c] # NoTime => retryAt[c] + Interval <= nextAvailable

IInv == TypeOK /\ Reservations /\ RateNeverExceeded /\ RetriesAreSpread

\* One more admission takes one more interval.
LEMMA OneMoreInterval ==
  \A n \in Nat : (n + 1) * Interval = n * Interval + Interval /\ 0 * Interval = 0
  BY LimiterAssumption

LEMMA InitInv == Init => IInv
<1> SUFFICES ASSUME Init PROVE IInv
  OBVIOUS
<1> QED
  BY LimiterAssumption
  DEF Init, LimiterInit, IInv, TypeOK, LimiterType, Reservations, RateNeverExceeded, RetriesAreSpread, NoTime

LEMMA NextInv == IInv /\ [Next]_vars => IInv'
<1> SUFFICES ASSUME IInv, [Next]_vars PROVE IInv'
  OBVIOUS
<1> USE LimiterAssumption DEF NoTime, LimiterType, Calling
<1>1. CASE Tick
  <2>1. TypeOK' /\ Reservations' /\ RetriesAreSpread'
    BY <1>1 DEF Tick, IInv, TypeOK, Reservations, RetriesAreSpread
  <2>2. RateNeverExceeded'
    <3>1. admitted > 0 => (admitted - 1) * Interval <= clock
      BY DEF IInv, RateNeverExceeded
    <3>2. admitted > 0 => (admitted - 1) * Interval \in Int
      BY DEF IInv, TypeOK
    <3> QED
      BY <1>1, <3>1, <3>2 DEF Tick, RateNeverExceeded, IInv, TypeOK
  <2> QED
    BY <2>1, <2>2 DEF IInv
<1>2. ASSUME NEW c \in Client, Call(c) PROVE IInv'
  BY <1>2
  DEF Call, ReadClock, IInv, TypeOK, Reservations, RateNeverExceeded, RetriesAreSpread
<1>3. ASSUME NEW c \in Client, Admitted(c) PROVE IInv'
  <2>1. /\ reading[c] \in Nat /\ reading[c] <= clock
        /\ nextAvailable # NoTime => nextAvailable <= reading[c]
    BY <1>3 DEF Admitted, Admit, Open, IInv, TypeOK
  <2>2. TypeOK'
    BY <1>3, <2>1 DEF Admitted, Admit, IInv, TypeOK
  <2>3. admitted * Interval <= reading[c]
    BY <2>1, OneMoreInterval DEF IInv, TypeOK, Reservations
  <2>4. admitted \in Nat /\ admitted * Interval \in Int
    BY DEF IInv, TypeOK
  <2>5. Reservations'
    <3>1. (admitted * Interval) + Interval <= reading[c] + Interval
      BY <2>1, <2>3, <2>4
    <3>2. admitted' * Interval <= nextAvailable'
      BY <1>3, <3>1, <2>4, OneMoreInterval DEF Admitted, Admit
    <3>3. ASSUME NEW e \in Client, retryAt'[e] # NoTime
          PROVE  retryAt'[e] + Interval <= nextAvailable'
      <4>1. retryAt[e] # NoTime /\ retryAt'[e] = retryAt[e] /\ retryAt[e] \in Nat
        BY <1>3, <3>3 DEF Admitted, Admit, IInv, TypeOK
      <4>2. nextAvailable \in Nat /\ retryAt[e] + Interval <= nextAvailable
        BY <4>1 DEF IInv, TypeOK, Reservations
      <4> QED
        BY <1>3, <2>1, <4>1, <4>2 DEF Admitted, Admit
    <3>4. nextAvailable' # NoTime
      BY <1>3, <2>1 DEF Admitted, Admit
    <3> QED
      BY <3>2, <3>3, <3>4 DEF Reservations
  <2>6. RateNeverExceeded'
    <3>1. admitted' - 1 = admitted /\ clock' = clock
      BY <1>3, <2>4 DEF Admitted, Admit
    <3>2. admitted * Interval <= clock
      BY <2>1, <2>3, <2>4 DEF IInv, TypeOK
    <3> QED
      BY <3>1, <3>2 DEF RateNeverExceeded
  <2>7. RetriesAreSpread'
    BY <1>3 DEF Admitted, Admit, IInv, TypeOK, RetriesAreSpread
  <2> QED
    BY <2>2, <2>5, <2>6, <2>7 DEF IInv
<1>4. ASSUME NEW c \in Client, Rejected(c) PROVE IInv'
  <2>1. nextAvailable \in Nat /\ nextAvailable # NoTime /\ nextAvailable' \in Nat
    BY <1>4 DEF Rejected, Reject, Delay, Open, NextReservation, IInv, TypeOK
  <2>2. TypeOK'
    BY <1>4, <2>1 DEF Rejected, Reject, Delay, IInv, TypeOK
  <2>3. Reservations'
    <3>1. admitted \in Nat /\ admitted * Interval \in Int
      BY DEF IInv, TypeOK
    <3>2. admitted' * Interval <= nextAvailable'
      BY <1>4, <2>1, <3>1 DEF Rejected, Reject, Delay, NextReservation, IInv, Reservations
    <3>3. ASSUME NEW e \in Client, retryAt'[e] # NoTime
          PROVE  retryAt'[e] + Interval <= nextAvailable'
      BY <1>4, <2>1, <3>3 DEF Rejected, Reject, Delay, NextReservation, IInv, TypeOK, Reservations
    <3> QED
      BY <2>1, <3>2, <3>3 DEF Reservations
  <2>4. RateNeverExceeded'
    BY <1>4 DEF Rejected, Reject, Delay, IInv, RateNeverExceeded
  <2>5. RetriesAreSpread'
    BY <1>4, <2>1 DEF Rejected, Reject, Delay, IInv, TypeOK, Reservations, RetriesAreSpread
  <2> QED
    BY <2>2, <2>3, <2>4, <2>5 DEF IInv
<1>5. CASE UNCHANGED vars
  BY <1>5 DEF vars, IInv, TypeOK, Reservations, RateNeverExceeded, RetriesAreSpread
<1> QED
  BY <1>1, <1>2, <1>3, <1>4, <1>5 DEF Next

\* The capacity promise: however many workers race for the lock, and however old
\* the clock readings they bring into it, no more uploads are admitted than the
\* rate allows for the elapsed time, plus the first.
THEOREM CapacityIsKept == Spec => []RateNeverExceeded
<1>1. IInv => RateNeverExceeded
  BY DEF IInv
<1> QED
  BY InitInv, NextInv, <1>1, PTL DEF Spec

\* Two workers that were rejected and have not been admitted since were given
\* retry times an interval apart.
THEOREM RetriesSpread == Spec => []RetriesAreSpread
<1>1. IInv => RetriesAreSpread
  BY DEF IInv
<1> QED
  BY InitInv, NextInv, <1>1, PTL DEF Spec

-----------------------------------------------------------------------------
(* What a returned delay is worth (ReturnedDelaySuffices does not hold).   *)

\* A worker that was sent away is let in only when it comes an interval later than
\* it was told, however many others came and went in between.
RejectionCostsInterval ==
  [][\A c \in Client :
       (Admitted(c) /\ retryAt[c] # NoTime) => reading[c] >= retryAt[c] + Interval]_vars

\* The returned delay is never enough: it is an interval short, for any number of
\* workers and any rate.
THEOREM DelaysAreShort == Spec => RejectionCostsInterval
<1>1. IInv /\ [Next]_vars =>
        [\A c \in Client : (Admitted(c) /\ retryAt[c] # NoTime) =>
            reading[c] >= retryAt[c] + Interval]_vars
  <2> SUFFICES ASSUME IInv, NEW c \in Client, Admitted(c), retryAt[c] # NoTime
               PROVE  reading[c] >= retryAt[c] + Interval
    OBVIOUS
  <2>1. nextAvailable \in Nat /\ retryAt[c] + Interval <= nextAvailable
    BY DEF IInv, TypeOK, LimiterType, Reservations
  <2>2. reading[c] \in Nat /\ retryAt[c] \in Nat /\ reading[c] >= nextAvailable
    BY <2>1 DEF Admitted, Admit, Open, Calling, IInv, TypeOK, LimiterType, NoTime
  <2> QED
    BY <2>1, <2>2, LimiterAssumption
<1> QED
  BY InitInv, NextInv, <1>1, PTL DEF Spec, RejectionCostsInterval

\* What a worker that is alone was told, and what it has to wait for.
AloneShort ==
  \A c \in Client : retryAt[c] # NoTime => nextAvailable = retryAt[c] + Interval

\* One interval is exactly what is missing when nobody else calls.
THEOREM AloneOneIntervalShort ==
  ASSUME NEW e, Client = {e}
  PROVE  Spec => []AloneShort
<1>1. Init => AloneShort
  BY DEF Init, AloneShort
<1>2. IInv /\ AloneShort /\ [Next]_vars => AloneShort'
  <2> SUFFICES ASSUME IInv, AloneShort, [Next]_vars PROVE AloneShort'
    OBVIOUS
  <2> USE DEF AloneShort
  <2>1. CASE Tick \/ UNCHANGED vars
    BY <2>1 DEF Tick, vars
  <2>2. ASSUME NEW c \in Client, Call(c) PROVE AloneShort'
    BY <2>2 DEF Call, ReadClock
  <2>3. ASSUME NEW c \in Client, Admitted(c) PROVE AloneShort'
    BY <2>3 DEF Admitted, IInv, TypeOK
  <2>4. ASSUME NEW c \in Client, Rejected(c) PROVE AloneShort'
    <3>1. nextAvailable \in Nat /\ reading[c] \in Nat
      BY <2>4
      DEF Rejected, Reject, Open, Calling, IInv, TypeOK, LimiterType, NoTime
    <3>2. retryAt'[c] = nextAvailable /\ nextAvailable' = nextAvailable + Interval
      BY <2>4, <3>1
      DEF Rejected, Reject, Delay, NextReservation, IInv, TypeOK
    <3> QED
      BY <3>2
  <2> QED
    BY <2>1, <2>2, <2>3, <2>4 DEF Next
<1> QED
  BY InitInv, NextInv, <1>1, <1>2, PTL DEF Spec

=============================================================================
