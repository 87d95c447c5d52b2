----------------------- MODULE ThrottledUpload_proofs -----------------------
(***************************************************************************)
(* Theorems about ThrottledUpload, for every batch, number of workers,     *)
(* interval, policy and set of injected failures.                          *)
(***************************************************************************)
EXTENDS ThrottledUpload, Positions, FiniteSetTheorems

Counters == [retried : Nat, throttled : Nat, retryAfter : Nat, unavailable : Nat]

StageName == { "transform", "upload", "verify" }

Record == [step : StageName, attempt : 1..Policy.max_attempts, reason : Exception]

\* A failure is handled or slept on in an attempt that had one.
Handled ==
  /\ pc \in {"leave", "handle"} => exception \in Exception
  /\ pc = "sleep" => attempt < Policy.max_attempts

\* Sleeping does not go back in time.
ForwardInTime == pc = "sleep" => clock <= wakeAt

\* A worker calls for a document that has no answer, with a reading of this attempt.
CallersOfAttempt ==
  \A d \in Document : Calling(d) =>
    /\ Stages[step] = "upload"
    /\ answer[d] = NoException
    /\ startedAt <= reading[d]

TypeInv == TypeOK /\ Handled /\ ForwardInTime /\ CallersOfAttempt

AcceptedOnes == { d \in Document : answer[d] = Accepted }

\* Of the documents this attempt has had accepted each but the first was admitted
\* on a reading an interval later than the one before.
Paced ==
  Cardinality(AcceptedOnes) > 0 =>
    /\ nextAvailable \in Nat
    /\ startedAt + Cardinality(AcceptedOnes) * Interval <= nextAvailable
    /\ startedAt + (Cardinality(AcceptedOnes) - 1) * Interval <= clock

\* A rejection carries a delay that reaches the time it asks for.
Told ==
  \A d \in Document : retryAt[d] # NoTime =>
    answer[d] \in Exception /\ retryAt[d] <= clock + answer[d].retryAfter

\* The time a rejection asked for is over, or will be when the runner has slept.
Waited ==
  \/ notBefore <= clock
  \/ pc \in {"leave", "handle"} /\ notBefore <= clock + exception.retryAfter
  \/ pc = "sleep" /\ notBefore <= wakeAt
  \/ pc = "failed"

-----------------------------------------------------------------------------
(* Types.                                                                  *)

LEMMA StagesDomain == DOMAIN Stages = 1..3 /\ Len(Stages) = 3
  BY DEF Stages

LEMMA StageType == \A n \in DOMAIN Stages : Stages[n] \in StageName
  BY DEF Stages, StageName

\* The three kinds of answer.
LEMMA AnswerKinds ==
  /\ NoException \notin Exception /\ Accepted \notin Exception /\ Accepted # NoException
  /\ \A e \in Exception : e.retryAfter \in Nat
  BY DEF NoException, Accepted, Exception

\* The larger of two numbers is one of them.
LEMMA LargerType ==
  ASSUME NEW a \in Nat, NEW b \in Nat
  PROVE  Larger(a, b) \in Nat /\ Larger(a, b) >= a /\ Larger(a, b) >= b
  BY DEF Larger

\* Merging a step's metrics only ever brings back the retries it left out.
LEMMA MergeKeepsCounters ==
  ASSUME metrics \in Counters
  PROVE  Merge(StepMetrics, metrics) = metrics
<1>1. /\ DOMAIN StepMetrics = DOMAIN metrics
      /\ \A counter \in DOMAIN metrics : metrics[counter] \in Nat
      /\ metrics = [counter \in DOMAIN metrics |-> metrics[counter]]
  BY DEF StepMetrics, Counters
<1>2. ASSUME NEW counter \in DOMAIN metrics
      PROVE  Larger(StepMetrics[counter], metrics[counter]) = metrics[counter]
  <2>1. StepMetrics[counter] = metrics[counter] \/ StepMetrics[counter] = 0
    BY DEF StepMetrics
  <2> QED
    BY <1>1, <2>1 DEF Larger
<1> QED
  BY <1>1, <1>2 DEF Merge

LEMMA TypeInit == Init => TypeInv
  BY ThrottlingAssumption, StagesDomain, AnswerKinds
  DEF Init, LimiterInit, LimiterType, TypeInv, TypeOK, Handled, ForwardInTime,
      CallersOfAttempt, Calling, IsPolicy, NoRetries, NoAnswers, NoTime, Exception

LEMMA TypeNext == TypeInv /\ [Next]_vars => TypeInv'
<1> SUFFICES ASSUME TypeInv, [Next]_vars PROVE TypeInv'
  OBVIOUS
<1> USE ThrottlingAssumption, LimiterAssumption, StagesDomain, AnswerKinds
    DEF TypeInv, TypeOK, LimiterType, Handled, ForwardInTime, CallersOfAttempt, Calling,
        NoTime
<1>0. Policy.max_attempts \in Nat \ {0}
  BY DEF IsPolicy
<1>1. CASE Pause
  BY <1>1 DEF Pause, loop
<1>2. ASSUME NEW d \in Document, CallTarget(d) PROVE TypeInv'
  BY <1>2 DEF CallTarget, Uploading, Started, ReadClock, loop
<1>3. ASSUME NEW d \in Document, UploadAdmitted(d) PROVE TypeInv'
  <2>1. PICK value \in Injected \cup {Accepted} : answer' = [answer EXCEPT ![d] = value]
    BY <1>3 DEF UploadAdmitted, Answers
  <2>2. answer' \in [Document -> Exception \cup {NoException, Accepted}]
    BY <2>1
  <2>3. nextAvailable' \in Nat /\ reading' \in [Document -> Nat \cup {NoTime}]
    BY <1>3 DEF UploadAdmitted, Admit
  <2>4. /\ reading' = [reading EXCEPT ![d] = NoTime]
        /\ UNCHANGED << clock, loop, startedAt, retryAt, notBefore, pauses >>
    BY <1>3 DEF UploadAdmitted, Admit
  <2>5. \A e \in Document : Calling(e)' => e # d /\ Calling(e) /\ answer'[e] = answer[e]
                                         /\ reading'[e] = reading[e]
    BY <2>1, <2>4
  <2> QED
    BY <2>2, <2>3, <2>4, <2>5 DEF loop
<1>4. ASSUME NEW d \in Document, UploadRejected(d) PROVE TypeInv'
  <2>1. /\ nextAvailable \in Nat /\ reading[d] \in Nat
        /\ nextAvailable - reading[d] \in Nat
    BY <1>4 DEF UploadRejected, Reject, Open
  <2>2. answer' \in [Document -> Exception \cup {NoException, Accepted}]
    BY <1>4, <2>1 DEF UploadRejected, Answers, Delay, Exception
  <2>3. /\ nextAvailable' \in Nat /\ reading' \in [Document -> Nat \cup {NoTime}]
        /\ retryAt' \in [Document -> Nat \cup {NoTime}]
    BY <1>4, <2>1 DEF UploadRejected, Reject, NextReservation, Delay
  <2>4. /\ reading' = [reading EXCEPT ![d] = NoTime]
        /\ \A e \in Document : e # d => answer'[e] = answer[e]
        /\ UNCHANGED << clock, loop, startedAt, notBefore, pauses >>
    BY <1>4 DEF UploadRejected, Reject, Answers
  <2>5. \A e \in Document : Calling(e)' => e # d /\ Calling(e) /\ answer'[e] = answer[e]
                                         /\ reading'[e] = reading[e]
    BY <2>4
  <2> QED
    BY <2>2, <2>3, <2>4, <2>5 DEF loop
<1>5. ASSUME NEW d \in Document, UploadRaises(d) PROVE TypeInv'
  BY <1>5 DEF UploadRaises, Uploading, Raise
<1>6. CASE LeavePool
  BY <1>6 DEF LeavePool, PoolEmpty
<1>7. CASE StepRaises
  BY <1>7 DEF StepRaises, Raise
<1>8. CASE StepSucceeds
  <2>1. metrics' = metrics
    BY <1>8, MergeKeepsCounters DEF StepSucceeds, Counters
  <2>2. \A d \in Document : ~Calling(d)
    BY <1>8 DEF StepSucceeds, AllAccepted
  <2>3. CASE step = 3
    BY <1>8, <2>1, <2>2, <2>3 DEF StepSucceeds
  <2>4. CASE step # 3
    <3>1. step' \in 1..3 /\ attempt' \in 1..Policy.max_attempts
      BY <1>0, <1>8, <2>4 DEF StepSucceeds
    <3>2. /\ answer' \in [Document -> Exception \cup {NoException, Accepted}]
          /\ retryAt' \in [Document -> Nat \cup {NoTime}]
          /\ startedAt' = clock /\ pauses' = 0
      BY <1>8, <2>4 DEF StepSucceeds, AttemptBegins, NoAnswers
    <3> QED
      BY <1>8, <2>1, <2>2, <2>4, <3>1, <3>2 DEF StepSucceeds
  <2> QED
    BY <2>3, <2>4
<1>9. CASE RetryStep
  <2>1. exception \in Exception /\ exception.retryAfter \in Nat
    BY <1>9 DEF RetryStep
  <2>2. attempt < Policy.max_attempts
    BY <1>9 DEF RetryStep, RetryAllowed, ShouldRetry
  <2>3. RetryDelay \in Nat
    BY <2>1, LargerType DEF RetryDelay
  <2>4. metrics' \in Counters
    <3>1. /\ metrics.retried \in Nat /\ metrics.throttled \in Nat
          /\ metrics.retryAfter \in Nat /\ metrics.unavailable \in Nat
      OBVIOUS
    <3>2. RetryMetrics \in Counters
      BY <3>1 DEF RetryMetrics, Counters
    <3> QED
      BY <1>9, <3>2 DEF RetryStep
  <2>5. records' \in Seq(Record)
    BY <1>9, <2>1, StageType DEF RetryStep, RetryRecord, Record, StageName
  <2> QED
    BY <1>9, <2>2, <2>3, <2>4, <2>5
    DEF RetryStep, attemptState, Record, StageName, Counters
<1>10. CASE Wake
  BY <1>0, <1>10 DEF Wake, AttemptBegins, NoAnswers
<1>11. CASE GiveUp
  BY <1>11 DEF GiveUp, attemptState
<1>12. CASE UNCHANGED vars
  BY <1>12 DEF vars, loop
<1> QED
  BY <1>1, <1>2, <1>3, <1>4, <1>5, <1>6, <1>7, <1>8, <1>9, <1>10, <1>11, <1>12
  DEF Next, WorkerActs, RunnerActs

\* Type correctness: no attempt is made that the policy does not allow, time only
\* goes forward, and no worker is at the limiter outside an attempt.
THEOREM TypeCorrect == Spec => []TypeOK
<1>1. TypeInv => TypeOK
  BY DEF TypeInv
<1> QED
  BY TypeInit, TypeNext, <1>1, PTL DEF Spec

-----------------------------------------------------------------------------
(* Pace.                                                                   *)

\* A batch is finite.
LEMMA AcceptedFinite ==
  IsFiniteSet(AcceptedOnes) /\ Cardinality(AcceptedOnes) \in Nat
<1>1. IsFiniteSet(Document)
  BY ThrottlingAssumption, FS_Interval DEF Document
<1> QED
  BY <1>1, FS_Subset, FS_CardinalityType DEF AcceptedOnes

\* The steps that neither answer a document nor begin an attempt.
LEMMA PacedUnchanged ==
  ASSUME TypeInv, Paced, answer' = answer, startedAt' = startedAt,
         nextAvailable' = nextAvailable \/ (nextAvailable \in Nat /\ nextAvailable' \in Nat
                                             /\ nextAvailable <= nextAvailable'),
         clock' \in Nat, clock <= clock'
  PROVE  Paced'
<1> DEFINE n == Cardinality(AcceptedOnes)
<1>1. AcceptedOnes' = AcceptedOnes
  BY DEF AcceptedOnes
<1>2. n \in Nat
  BY AcceptedFinite
<1>3. CASE n > 0
  <2> DEFINE due == n * Interval
             paid == (n - 1) * Interval
  <2>1. due \in Nat /\ paid \in Nat
    BY <1>2, <1>3, LimiterAssumption
  <2>2. /\ nextAvailable \in Nat
        /\ startedAt + due <= nextAvailable /\ startedAt + paid <= clock
    BY <1>3 DEF Paced
  <2>3. startedAt \in Nat /\ clock \in Nat
    BY DEF TypeInv, TypeOK, LimiterType
  <2> HIDE DEF due, paid
  <2>4. nextAvailable' \in Nat /\ startedAt + due <= nextAvailable'
        /\ startedAt + paid <= clock'
    BY <2>1, <2>2, <2>3
  <2> QED
    BY <1>1, <2>4 DEF Paced, due, paid
<1>4. CASE ~(n > 0)
  BY <1>1, <1>4 DEF Paced
<1> QED
  BY <1>3, <1>4

\* An attempt that has only begun has had nothing accepted.
LEMMA PacedAtBegin == ASSUME NEW now, AttemptBegins(now) PROVE Paced'
<1>1. AcceptedOnes' = {}
  BY AnswerKinds DEF AttemptBegins, NoAnswers, AcceptedOnes
<1> QED
  BY <1>1, FS_EmptySet DEF Paced

LEMMA PacedAdmitted ==
  ASSUME TypeInv, Paced, NEW d \in Document, UploadAdmitted(d)
  PROVE  Paced'
<1> USE DEF TypeInv, TypeOK, LimiterType, Calling, NoTime
<1> DEFINE n == Cardinality(AcceptedOnes)
<1>1. PICK value \in Injected \cup {Accepted} : answer' = [answer EXCEPT ![d] = value]
  BY DEF UploadAdmitted, Answers
<1>2. /\ reading[d] \in Nat /\ startedAt <= reading[d] /\ reading[d] <= clock
      /\ answer[d] = NoException
      /\ nextAvailable' = reading[d] + Interval
      /\ nextAvailable \in Nat => nextAvailable <= reading[d]
      /\ clock' = clock /\ startedAt' = startedAt
  BY DEF UploadAdmitted, Admit, Open, CallersOfAttempt, loop
<1>3. d \notin AcceptedOnes /\ n \in Nat /\ IsFiniteSet(AcceptedOnes)
  BY <1>2, AnswerKinds, AcceptedFinite DEF AcceptedOnes
<1> DEFINE due == n * Interval
<1>4. due \in Nat /\ (n = 0 => due = 0) /\ startedAt \in Nat /\ clock \in Nat
  BY <1>3, LimiterAssumption
<1>5. startedAt + due <= reading[d]
  <2>1. CASE n = 0
    BY <1>2, <1>4, <2>1
  <2>2. CASE n > 0
    <3>1. nextAvailable \in Nat /\ startedAt + due <= nextAvailable
      BY <2>2 DEF Paced
    <3> HIDE DEF due
    <3> QED
      BY <1>2, <1>4, <3>1
  <2> QED
    BY <1>3, <2>1, <2>2
<1>6. CASE value = Accepted
  <2>1. AcceptedOnes' = AcceptedOnes \cup {d}
    BY <1>1, <1>6 DEF AcceptedOnes
  <2>2. Cardinality(AcceptedOnes)' = n + 1
    BY <1>3, <2>1, FS_AddElement
  <2>3. (n + 1) * Interval = due + Interval /\ ((n + 1) - 1) * Interval = due
    BY <1>3, LimiterAssumption
  <2>4. /\ nextAvailable' \in Nat
        /\ startedAt + (due + Interval) <= nextAvailable'
        /\ startedAt + due <= clock
    <3> HIDE DEF due
    <3> QED
      BY <1>2, <1>4, <1>5, LimiterAssumption
  <2> QED
    BY <1>2, <2>2, <2>3, <2>4 DEF Paced
<1>7. CASE value # Accepted
  <2>1. AcceptedOnes' = AcceptedOnes
    BY <1>1, <1>2, <1>7, AnswerKinds DEF AcceptedOnes
  <2>2. CASE n > 0
    <3> DEFINE paid == (n - 1) * Interval
    <3>1. paid \in Nat
      BY <1>3, <2>2, LimiterAssumption
    <3>2. startedAt + paid <= clock
      BY <2>2 DEF Paced
    <3>3. nextAvailable' \in Nat /\ startedAt + due <= nextAvailable'
      <4> HIDE DEF due
      <4> QED
        BY <1>2, <1>4, <1>5, LimiterAssumption
    <3> QED
      BY <1>2, <2>1, <3>2, <3>3 DEF Paced
  <2>3. CASE ~(n > 0)
    BY <2>1, <2>3 DEF Paced
  <2> QED
    BY <2>2, <2>3
<1> QED
  BY <1>6, <1>7

LEMMA PacedNext == TypeInv /\ Paced /\ [Next]_vars => Paced'
<1> SUFFICES ASSUME TypeInv, Paced, [Next]_vars PROVE Paced'
  OBVIOUS
<1>0. clock \in Nat /\ nextAvailable \in Nat \cup {NoTime} /\ wakeAt \in Nat
  BY DEF TypeInv, TypeOK, LimiterType
<1>1. CASE Pause
  BY <1>0, <1>1, PacedUnchanged DEF Pause
<1>2. ASSUME NEW d \in Document, CallTarget(d) PROVE Paced'
  BY <1>0, <1>2, PacedUnchanged DEF CallTarget, ReadClock
<1>3. ASSUME NEW d \in Document, UploadAdmitted(d) PROVE Paced'
  BY <1>3, PacedAdmitted
<1>4. ASSUME NEW d \in Document, UploadRejected(d) PROVE Paced'
  <2> USE DEF TypeInv, TypeOK, LimiterType, Calling, NoTime
  <2>1. /\ answer[d] = NoException /\ nextAvailable \in Nat
        /\ nextAvailable' = nextAvailable + Interval
        /\ answer' = [answer EXCEPT ![d] = [status |-> "429", retryAfter |-> Delay(d)]]
        /\ UNCHANGED << clock, startedAt >>
    BY <1>4 DEF UploadRejected, Reject, Open, NextReservation, Answers, CallersOfAttempt
  <2>2. AcceptedOnes' = AcceptedOnes
    BY <2>1 DEF AcceptedOnes, Accepted, NoException
  <2>3. CASE Cardinality(AcceptedOnes) > 0
    <3> DEFINE due == Cardinality(AcceptedOnes) * Interval
    <3>1. due \in Int /\ startedAt + due <= nextAvailable /\ startedAt \in Nat
      BY <2>3, LimiterAssumption, AcceptedFinite DEF Paced
    <3> HIDE DEF due
    <3>2. nextAvailable' \in Nat /\ startedAt + due <= nextAvailable'
      BY <2>1, <3>1, LimiterAssumption
    <3> QED
      BY <2>1, <2>2, <3>2 DEF Paced, due
  <2>4. CASE ~(Cardinality(AcceptedOnes) > 0)
    BY <2>2, <2>4 DEF Paced
  <2> QED
    BY <2>3, <2>4
<1>5. ASSUME NEW d \in Document, UploadRaises(d) PROVE Paced'
  BY <1>0, <1>5, PacedUnchanged DEF UploadRaises
<1>6. CASE LeavePool
  BY <1>0, <1>6, PacedUnchanged DEF LeavePool
<1>7. CASE StepRaises
  BY <1>0, <1>7, PacedUnchanged DEF StepRaises
<1>8. CASE StepSucceeds
  BY <1>0, <1>8, PacedUnchanged, PacedAtBegin DEF StepSucceeds
<1>9. CASE RetryStep
  BY <1>0, <1>9, PacedUnchanged DEF RetryStep, attemptState
<1>10. CASE Wake
  BY <1>10, PacedAtBegin DEF Wake
<1>11. CASE GiveUp
  BY <1>0, <1>11, PacedUnchanged DEF GiveUp, attemptState
<1>12. CASE UNCHANGED vars
  BY <1>0, <1>12, PacedUnchanged DEF vars
<1> QED
  BY <1>1, <1>2, <1>3, <1>4, <1>5, <1>6, <1>7, <1>8, <1>9, <1>10, <1>11, <1>12
  DEF Next, WorkerActs, RunnerActs

\* An attempt of the Upload step that succeeds has lasted as long as the rate
\* asks of its whole batch, however many workers it had: retries cannot deliver
\* a batch piece by piece, nor can readings from before others were admitted.
THEOREM BatchesTakeTheirTime == Spec => BatchesArePaced
<1>1. Init => Paced
  <2> SUFFICES ASSUME Init PROVE Paced
    OBVIOUS
  <2>1. AcceptedOnes = {}
    BY AnswerKinds DEF Init, NoAnswers, AcceptedOnes
  <2> QED
    BY <2>1, FS_EmptySet DEF Paced
<1>2. TypeInv /\ Paced /\ [Next]_vars =>
        [(step = 2 /\ step' = 3) => clock - startedAt >= (Documents - 1) * Interval]_vars
  <2> SUFFICES ASSUME TypeInv, Paced, [Next]_vars, step = 2, step' = 3
               PROVE  clock - startedAt >= (Documents - 1) * Interval
    OBVIOUS
  <2> USE ThrottlingAssumption, LimiterAssumption DEF TypeInv, TypeOK, LimiterType
  <2>1. StepSucceeds
    BY DEF Next, Pause, WorkerActs, CallTarget, UploadAdmitted, UploadRejected, RunnerActs,
           UploadRaises, Raise, LeavePool, StepRaises, RetryStep, Wake, GiveUp, loop, vars
  <2>2. AcceptedOnes = Document
    BY <2>1 DEF StepSucceeds, AllAccepted, AcceptedOnes, Stages
  <2>3. Cardinality(AcceptedOnes) = Documents
    BY <2>2, FS_Interval DEF Document
  <2>4. startedAt \in Nat /\ clock \in Nat /\ startedAt <= clock
    OBVIOUS
  <2> DEFINE paid == (Documents - 1) * Interval
  <2>5. paid \in Int
    OBVIOUS
  <2>6. CASE Documents = 0
    <3>1. paid <= 0
      BY <2>6
    <3> QED
      BY <2>4, <2>5, <3>1
  <2>7. CASE Documents > 0
    <3>1. startedAt + paid <= clock
      BY <2>3, <2>7 DEF Paced
    <3> QED
      BY <2>4, <2>5, <3>1
  <2> QED
    BY <2>6, <2>7
<1> QED
  BY TypeInit, TypeNext, PacedNext, <1>1, <1>2, PTL DEF Spec, BatchesArePaced

\* The time an attempt has taken is what has passed inside it.
Timed == pc \in {"execute", "leave"} => clock = startedAt + pauses

LEMMA TimedNext == TypeInv /\ Timed /\ [Next]_vars => Timed'
<1> SUFFICES ASSUME TypeInv, Timed, [Next]_vars PROVE Timed'
  OBVIOUS
<1> USE DEF Timed, TypeInv, TypeOK, LimiterType
<1>1. CASE Pause
  BY <1>1 DEF Pause, loop
<1>2. ASSUME NEW d \in Document, WorkerActs(d) PROVE Timed'
  BY <1>2
  DEF WorkerActs, CallTarget, ReadClock, UploadAdmitted, Admit, UploadRejected, Reject, loop
<1>3. ASSUME NEW d \in Document, UploadRaises(d) PROVE Timed'
  BY <1>3 DEF UploadRaises, Uploading
<1>4. CASE LeavePool \/ StepRaises \/ RetryStep \/ GiveUp
  BY <1>4 DEF LeavePool, StepRaises, Raise, RetryStep, GiveUp
<1>5. CASE StepSucceeds \/ Wake
  BY <1>5 DEF StepSucceeds, Wake, AttemptBegins
<1>6. CASE UNCHANGED vars
  BY <1>6 DEF vars, loop
<1> QED
  BY <1>1, <1>2, <1>3, <1>4, <1>5, <1>6 DEF Next, RunnerActs

UploadNotPassed == Stages[step] # "verify"

\* A target and workers that need less for the batch than its rate allows never
\* get the batch through, whatever the policy, its delays and its number of
\* attempts, and whatever the number of workers: every retry starts with the
\* first document, so the only remedy is to be slow inside one attempt.
THEOREM FastBatchesNeverPass ==
  MaxPause < (Documents - 1) * Interval /\ Spec => []UploadNotPassed
<1> SUFFICES ASSUME MaxPause < (Documents - 1) * Interval PROVE Spec => []UploadNotPassed
  OBVIOUS
<1>1. Init => Paced /\ Timed /\ UploadNotPassed
  <2> SUFFICES ASSUME Init PROVE Paced /\ Timed /\ UploadNotPassed
    OBVIOUS
  <2>1. AcceptedOnes = {}
    BY AnswerKinds DEF Init, NoAnswers, AcceptedOnes
  <2>2. Paced
    BY <2>1, FS_EmptySet DEF Paced
  <2> QED
    BY <2>2 DEF Init, LimiterInit, Timed, UploadNotPassed, Stages
<1>2. TypeInv /\ Paced /\ Timed /\ UploadNotPassed /\ [Next]_vars => UploadNotPassed'
  <2> SUFFICES ASSUME TypeInv, Paced, Timed, UploadNotPassed, [Next]_vars,
                      ~UploadNotPassed'
               PROVE  FALSE
    OBVIOUS
  <2>1. StepSucceeds /\ step' = step + 1
    BY DEF Next, Pause, WorkerActs, CallTarget, UploadAdmitted, UploadRejected, RunnerActs,
           UploadRaises, Raise, LeavePool, StepRaises, StepSucceeds, RetryStep, Wake,
           GiveUp, loop, vars, UploadNotPassed
  <2>2. step \in 1..3 /\ step' \in 1..3 /\ step' = 3
    BY <2>1, StagesDomain DEF TypeInv, TypeOK, UploadNotPassed, Stages, StepSucceeds
  <2>3. Stages[step] = "upload" /\ pc = "execute"
    BY <2>1, <2>2 DEF Stages, StepSucceeds
  <2>4. AcceptedOnes = Document
    BY <2>1, <2>3 DEF StepSucceeds, AllAccepted, AcceptedOnes
  <2>5. Cardinality(AcceptedOnes) = Documents
    BY <2>4, FS_Interval, ThrottlingAssumption DEF Document
  <2> DEFINE paid == (Documents - 1) * Interval
  <2>6. paid \in Int /\ MaxPause < paid /\ MaxPause \in Nat /\ Documents \in Nat
    BY ThrottlingAssumption, LimiterAssumption
  <2>7. Documents > 0
    <3>1. CASE Documents = 0
      <4>1. paid = - Interval
        BY <3>1, LimiterAssumption
      <4> QED
        BY <2>6, <4>1, LimiterAssumption
    <3> QED
      BY <2>6, <3>1
  <2>8. startedAt + paid <= clock
    BY <2>5, <2>7 DEF Paced
  <2> HIDE DEF paid
  <2> QED
    BY <2>3, <2>6, <2>8 DEF Timed, TypeInv, TypeOK, LimiterType
<1> QED
  BY TypeInit, TypeNext, PacedNext, TimedNext, <1>1, <1>2, PTL DEF Spec

-----------------------------------------------------------------------------
(* The target's delay.                                                     *)

LEMMA ToldNext == TypeInv /\ Told /\ [Next]_vars => Told'
<1> SUFFICES ASSUME TypeInv, Told, [Next]_vars PROVE Told'
  OBVIOUS
<1> USE AnswerKinds DEF TypeInv, TypeOK, LimiterType, Calling, NoTime, Told
<1>1. ASSUME retryAt' = retryAt, answer' = answer, clock' \in Nat, clock <= clock'
      PROVE  Told'
  BY <1>1
<1>2. ASSUME NEW now, AttemptBegins(now) PROVE Told'
  BY <1>2 DEF AttemptBegins
<1>3. ASSUME NEW d \in Document, UploadAdmitted(d) PROVE Told'
  BY <1>3 DEF UploadAdmitted, Admit, Answers, CallersOfAttempt, loop
<1>4. ASSUME NEW d \in Document, UploadRejected(d) PROVE Told'
  <2>1. /\ nextAvailable \in Nat /\ reading[d] \in Nat /\ reading[d] <= clock
        /\ Delay(d) \in Nat
    BY <1>4 DEF UploadRejected, Reject, Open, Delay
  <2>2. /\ answer'[d] = [status |-> "429", retryAfter |-> Delay(d)]
        /\ retryAt'[d] = reading[d] + Delay(d) /\ clock' = clock
    BY <1>4 DEF UploadRejected, Reject, Answers
  <2>3. answer'[d] \in Exception /\ retryAt'[d] <= clock' + answer'[d].retryAfter
    BY <2>1, <2>2 DEF Exception
  <2>4. \A e \in Document : e # d => answer'[e] = answer[e] /\ retryAt'[e] = retryAt[e]
    BY <1>4 DEF UploadRejected, Answers
  <2> QED
    BY <2>2, <2>3, <2>4
<1>5. ASSUME NEW d \in Document, CallTarget(d) \/ UploadRaises(d) PROVE Told'
  BY <1>1, <1>5 DEF CallTarget, ReadClock, UploadRaises
<1>6. CASE Pause \/ LeavePool \/ StepRaises \/ RetryStep \/ GiveUp \/ UNCHANGED vars
  <2>1. CASE Pause
    BY <1>1, <2>1 DEF Pause
  <2>2. CASE LeavePool \/ StepRaises
    BY <1>1, <2>2 DEF LeavePool, StepRaises
  <2>3. CASE RetryStep \/ GiveUp
    BY <1>1, <2>3 DEF RetryStep, GiveUp, attemptState
  <2>4. CASE UNCHANGED vars
    BY <1>1, <2>4 DEF vars
  <2> QED
    BY <1>6, <2>1, <2>2, <2>3, <2>4
<1>7. CASE StepSucceeds
  BY <1>1, <1>2, <1>7 DEF StepSucceeds
<1>8. CASE Wake
  BY <1>2, <1>8 DEF Wake
<1> QED
  BY <1>3, <1>4, <1>5, <1>6, <1>7, <1>8 DEF Next, WorkerActs, RunnerActs

LEMMA WaitedNext == TypeInv /\ Told /\ Waited /\ [Next]_vars => Waited'
<1> SUFFICES ASSUME TypeInv, Told, Waited, [Next]_vars PROVE Waited'
  OBVIOUS
<1> USE AnswerKinds DEF TypeInv, TypeOK, LimiterType, Handled, Waited, NoTime
<1>1. CASE Pause
  BY <1>1 DEF Pause, loop
<1>2. ASSUME NEW d \in Document, CallTarget(d) PROVE Waited'
  BY <1>2 DEF CallTarget, Uploading, ReadClock, loop
<1>3. ASSUME NEW d \in Document, UploadAdmitted(d) PROVE Waited'
  BY <1>3 DEF UploadAdmitted, Admit, loop
<1>4. ASSUME NEW d \in Document, UploadRejected(d) PROVE Waited'
  BY <1>4 DEF UploadRejected, Reject, loop
<1>5. ASSUME NEW d \in Document, UploadRaises(d) PROVE Waited'
  BY <1>5 DEF UploadRaises, Uploading, Raise, Told
<1>6. CASE LeavePool
  BY <1>6 DEF LeavePool
<1>7. CASE StepRaises
  BY <1>7 DEF StepRaises, Raise
<1>8. CASE StepSucceeds
  BY <1>8 DEF StepSucceeds
<1>9. CASE RetryStep
  <2>1. exception.retryAfter \in Nat
    BY <1>9 DEF RetryStep
  <2>2. RetryDelay \in Nat /\ RetryDelay >= exception.retryAfter
    <3>1. attempt < Policy.max_attempts
      BY <1>9 DEF RetryStep, RetryAllowed, ShouldRetry
    <3> QED
      BY <2>1, <3>1, LargerType, ThrottlingAssumption DEF RetryDelay
  <2>3. wakeAt' = clock + RetryDelay /\ notBefore' = notBefore /\ pc' = "sleep"
    BY <1>9 DEF RetryStep
  <2>4. notBefore <= clock + exception.retryAfter
    BY <1>9, <2>1 DEF RetryStep
  <2> QED
    BY <2>1, <2>2, <2>3, <2>4
<1>10. CASE Wake
  BY <1>10 DEF Wake, ForwardInTime
<1>11. CASE GiveUp
  BY <1>11 DEF GiveUp
<1>12. CASE UNCHANGED vars
  BY <1>12 DEF vars, loop
<1> QED
  BY <1>1, <1>2, <1>3, <1>4, <1>5, <1>6, <1>7, <1>8, <1>9, <1>10, <1>11, <1>12
  DEF Next, WorkerActs, RunnerActs

\* A retried upload never reaches the target before the time the rejection the
\* runner was told of asked for, whichever policy, and whichever other workers and
\* other failures came in between.
THEOREM RejectionsAreHonoured == Spec => []RetryAfterHonoured
<1>1. Init => Told /\ Waited
  BY DEF Init, LimiterInit, Told, Waited
<1>2. TypeInv /\ Waited => RetryAfterHonoured
  BY DEF TypeInv, TypeOK, LimiterType, Waited, RetryAfterHonoured, Uploading
<1> QED
  BY TypeInit, TypeNext, ToldNext, WaitedNext, <1>1, <1>2, PTL DEF Spec

-----------------------------------------------------------------------------
(* The retry counters.                                                     *)

\* A set of record numbers gains the new record, or it does not.
LEMMA OneMoreRecord ==
  ASSUME NEW n \in Nat, NEW S \in SUBSET (1..n), NEW condition \in BOOLEAN
  PROVE  /\ Cardinality(S) \in Nat
         /\ Cardinality(IF condition THEN S \cup {n + 1} ELSE S) =
              Cardinality(S) + (IF condition THEN 1 ELSE 0)
<1>1. IsFiniteSet(S)
  <2>1. IsFiniteSet(1..n)
    BY FS_Interval
  <2> QED
    BY <2>1, FS_Subset
<1>2. n + 1 \notin S
  OBVIOUS
<1>3. Cardinality(S) \in Nat /\ Cardinality(S \cup {n + 1}) = Cardinality(S) + 1
  BY <1>1, <1>2, FS_AddElement, FS_CardinalityType
<1> QED
  BY <1>3

LEMMA RecordsNext ==
  TypeInv /\ MetricsMatchRecords /\ [Next]_vars => MetricsMatchRecords'
<1> SUFFICES ASSUME TypeInv, MetricsMatchRecords, [Next]_vars
             PROVE  MetricsMatchRecords'
  OBVIOUS
<1>1. CASE RetryStep
  <2> DEFINE n == Len(records)
             now(status) == exception.status = status
             delayed == exception.retryAfter > 0
  <2>1. /\ n \in Nat /\ DOMAIN records = 1..n
        /\ records' = Append(records, RetryRecord)
        /\ exception \in Exception
    BY <1>1 DEF RetryStep, TypeInv, TypeOK, Handled
  <2>2. /\ Len(records') = n + 1 /\ DOMAIN records' = 1..(n + 1)
        /\ \A k \in 1..n : records'[k] = records[k]
        /\ records'[n + 1].reason = exception
    BY <2>1 DEF RetryRecord, TypeInv, TypeOK
  <2>3. ASSUME NEW status
        PROVE  RecordsOf(status)' =
                 IF now(status) THEN RecordsOf(status) \cup {n + 1} ELSE RecordsOf(status)
    BY <2>1, <2>2 DEF RecordsOf
  <2>4. RecordsWithDelay' =
          IF delayed THEN RecordsWithDelay \cup {n + 1} ELSE RecordsWithDelay
    BY <2>1, <2>2 DEF RecordsWithDelay
  <2>5. RecordsOf("429") \subseteq 1..n /\ RecordsOf("503") \subseteq 1..n
        /\ RecordsWithDelay \subseteq 1..n
    BY <2>1 DEF RecordsOf, RecordsWithDelay
  <2>6. now("429") \in BOOLEAN /\ now("503") \in BOOLEAN /\ delayed \in BOOLEAN
    BY <2>1 DEF Exception
  <2>7. /\ metrics'.retried = metrics.retried + 1
        /\ metrics'.throttled = metrics.throttled + IF now("429") THEN 1 ELSE 0
        /\ metrics'.unavailable = metrics.unavailable + IF now("503") THEN 1 ELSE 0
        /\ metrics'.retryAfter = metrics.retryAfter + IF delayed THEN 1 ELSE 0
    BY <1>1 DEF RetryStep, RetryMetrics
  <2>8. /\ Cardinality(RecordsOf("429")') =
             Cardinality(RecordsOf("429")) + IF now("429") THEN 1 ELSE 0
        /\ Cardinality(RecordsOf("503")') =
             Cardinality(RecordsOf("503")) + IF now("503") THEN 1 ELSE 0
        /\ Cardinality(RecordsWithDelay') =
             Cardinality(RecordsWithDelay) + IF delayed THEN 1 ELSE 0
    BY <2>1, <2>3, <2>4, <2>5, <2>6, OneMoreRecord
  <2> QED
    BY <2>2, <2>7, <2>8 DEF MetricsMatchRecords
<1>2. CASE StepSucceeds
  <2>1. metrics' = metrics /\ records' = records
    BY <1>2, MergeKeepsCounters DEF StepSucceeds, TypeInv, TypeOK, Counters
  <2> QED
    BY <2>1 DEF MetricsMatchRecords, RecordsOf, RecordsWithDelay
<1>3. CASE ~RetryStep /\ ~StepSucceeds
  <2>1. metrics' = metrics /\ records' = records
    BY <1>3 DEF Next, Pause, WorkerActs, CallTarget, UploadAdmitted, UploadRejected, RunnerActs,
           UploadRaises, Raise, LeavePool, StepRaises, Wake, GiveUp, loop, vars
  <2> QED
    BY <2>1 DEF MetricsMatchRecords, RecordsOf, RecordsWithDelay
<1> QED
  BY <1>1, <1>2, <1>3

\* The retry counters are those of the retry records, throughout the run: no
\* step that reports metrics of its own makes the runner forget a retry.
THEOREM RetriesAreCounted == Spec => []MetricsMatchRecords
<1>1. Init => MetricsMatchRecords
  <2> SUFFICES ASSUME Init PROVE MetricsMatchRecords
    OBVIOUS
  <2>1. records = << >> /\ DOMAIN records = {} /\ Len(records) = 0
    BY DEF Init
  <2>2. \A status : RecordsOf(status) = {}
    BY <2>1 DEF RecordsOf
  <2>3. RecordsWithDelay = {}
    BY <2>1 DEF RecordsWithDelay
  <2> QED
    BY <2>1, <2>2, <2>3, FS_EmptySet DEF Init, NoRetries, MetricsMatchRecords
<1> QED
  BY TypeInit, TypeNext, RecordsNext, <1>1, PTL DEF Spec

-----------------------------------------------------------------------------
(* What is left of the run, and who can take from it.                      *)

\* The steps of the run, the attempts of the step, the statements of the attempt,
\* the documents of the batch: those no worker has taken up, those not answered.
StepsLeft == IF pc \in {"done", "failed"} THEN 0 ELSE 4 - step

AttemptsLeft == Policy.max_attempts - attempt

StatementsLeft ==
  IF pc = "execute" THEN 4
  ELSE IF pc = "leave" THEN 3
  ELSE IF pc = "handle" THEN 2
  ELSE IF pc = "sleep" THEN 1
  ELSE 0

NotTaken == { d \in Document : ~Started(d) }
NotAnswered == { d \in Document : answer[d] = NoException }

DocumentsLeft == Cardinality(NotTaken) + Cardinality(NotAnswered)

Left == << StepsLeft, AttemptsLeft, StatementsLeft, DocumentsLeft >>

\* Every step of the runner and of the workers takes from what is left; only the
\* time that passes in an attempt, which MaxPause bounds, does not.
RunAdvances == [][Pause \/ <<Left', Left>> \in Falling(4)]_vars

LEMMA LeftType ==
  ASSUME TypeOK
  PROVE  /\ StepsLeft \in Nat /\ AttemptsLeft \in Nat /\ StatementsLeft \in Nat
         /\ IsFiniteSet(NotTaken) /\ IsFiniteSet(NotAnswered)
         /\ Cardinality(NotTaken) \in Nat /\ Cardinality(NotAnswered) \in Nat
         /\ DocumentsLeft \in Nat
<1>1. StepsLeft \in Nat /\ AttemptsLeft \in Nat
  <2>1. Policy.max_attempts \in Nat
    BY ThrottlingAssumption DEF IsPolicy
  <2>2. step \in 1..3 /\ attempt \in 1..Policy.max_attempts
    BY StagesDomain DEF TypeOK
  <2> QED
    BY <2>1, <2>2 DEF StepsLeft, AttemptsLeft
<1>2. StatementsLeft \in Nat
  BY DEF StatementsLeft
<1>3. IsFiniteSet(Document)
  BY ThrottlingAssumption, FS_Interval DEF Document
<1>4. IsFiniteSet(NotTaken) /\ IsFiniteSet(NotAnswered)
  BY <1>3, FS_Subset DEF NotTaken, NotAnswered
<1>5. Cardinality(NotTaken) \in Nat /\ Cardinality(NotAnswered) \in Nat
  BY <1>4, FS_CardinalityType
<1> QED
  BY <1>1, <1>2, <1>4, <1>5 DEF DocumentsLeft

\* The measure after a step is one of numbers, too.
LEMMA LeftTypeNext ==
  ASSUME TypeOK'
  PROVE  /\ StepsLeft' \in Nat /\ AttemptsLeft' \in Nat /\ StatementsLeft' \in Nat
         /\ Cardinality(NotTaken') \in Nat /\ Cardinality(NotAnswered') \in Nat
         /\ DocumentsLeft' \in Nat
<1>1. step' \in 1..3 /\ attempt' \in 1..Policy.max_attempts
  BY StagesDomain DEF TypeOK
<1>2. StepsLeft' \in Nat /\ AttemptsLeft' \in Nat
  <2>1. \A n \in 1..3 : 4 - n \in Nat
    OBVIOUS
  <2>2. \A m \in Nat \ {0} : \A n \in 1..m : m - n \in Nat
    OBVIOUS
  <2>3. StepsLeft' \in Nat
    BY <1>1, <2>1 DEF StepsLeft
  <2> QED
    BY <1>1, <2>2, <2>3, ThrottlingAssumption DEF AttemptsLeft, IsPolicy
<1>3. StatementsLeft' \in Nat
  BY DEF StatementsLeft
<1>4. IsFiniteSet(Document)
  BY ThrottlingAssumption, FS_Interval DEF Document
<1>5. IsFiniteSet(NotTaken') /\ IsFiniteSet(NotAnswered')
  BY <1>4, FS_Subset DEF NotTaken, NotAnswered
<1>6. Cardinality(NotTaken') \in Nat /\ Cardinality(NotAnswered') \in Nat
  BY <1>5, FS_CardinalityType
<1> QED
  BY <1>2, <1>3, <1>6 DEF DocumentsLeft

LEMMA CloserToEnd ==
  ASSUME TypeOK, TypeOK',
         \/ StepsLeft' < StepsLeft
         \/ StepsLeft' = StepsLeft /\ AttemptsLeft' < AttemptsLeft
         \/ /\ StepsLeft' = StepsLeft /\ AttemptsLeft' = AttemptsLeft
            /\ StatementsLeft' < StatementsLeft
         \/ /\ StepsLeft' = StepsLeft /\ AttemptsLeft' = AttemptsLeft
            /\ StatementsLeft' = StatementsLeft
            /\ DocumentsLeft' < DocumentsLeft
  PROVE  <<Left', Left>> \in Falling(4)
<1>1. /\ StepsLeft \in Nat /\ AttemptsLeft \in Nat /\ StatementsLeft \in Nat
      /\ DocumentsLeft \in Nat
  BY LeftType
<1>2. /\ StepsLeft' \in Nat /\ AttemptsLeft' \in Nat /\ StatementsLeft' \in Nat
      /\ DocumentsLeft' \in Nat
  BY LeftTypeNext
<1> HIDE DEF StepsLeft, AttemptsLeft, StatementsLeft, DocumentsLeft
<1>3. << <<StepsLeft', AttemptsLeft', StatementsLeft', DocumentsLeft'>>,
        <<StepsLeft, AttemptsLeft, StatementsLeft, DocumentsLeft>> >> \in Falling(4)
  BY <1>1, <1>2, FourFall
<1> QED
  BY <1>3 DEF Left

\* A worker that takes a document up, and one that gets its answer.
LEMMA TakenUp ==
  ASSUME TypeInv, TypeInv', NEW d \in Document, CallTarget(d)
  PROVE  <<Left', Left>> \in Falling(4)
<1> USE DEF TypeInv
<1>1. /\ StepsLeft' = StepsLeft /\ AttemptsLeft' = AttemptsLeft
      /\ StatementsLeft' = StatementsLeft
  BY DEF CallTarget, loop, StepsLeft, AttemptsLeft, StatementsLeft
<1>2. reading' = [reading EXCEPT ![d] = clock] /\ answer' = answer /\ clock # NoTime
  BY DEF CallTarget, ReadClock, TypeOK, LimiterType, NoTime
<1>3. d \in NotTaken /\ NotTaken' = NotTaken \ {d}
  BY <1>2 DEF CallTarget, NotTaken, Started, Calling, TypeOK, LimiterType
<1>4. NotAnswered' = NotAnswered
  BY <1>2 DEF NotAnswered
<1>5. Cardinality(NotTaken') = Cardinality(NotTaken) - 1
  BY <1>3, LeftType, FS_RemoveElement
<1>6. DocumentsLeft' < DocumentsLeft
  BY <1>4, <1>5, LeftType DEF DocumentsLeft
<1> QED
  BY <1>1, <1>6, CloserToEnd

LEMMA Answered ==
  ASSUME TypeInv, TypeInv', NEW d \in Document, UploadAdmitted(d) \/ UploadRejected(d)
  PROVE  <<Left', Left>> \in Falling(4)
<1> USE DEF TypeInv
<1>1. /\ StepsLeft' = StepsLeft /\ AttemptsLeft' = AttemptsLeft
      /\ StatementsLeft' = StatementsLeft
  BY DEF UploadAdmitted, UploadRejected, loop, StepsLeft, AttemptsLeft, StatementsLeft
<1>2. /\ Calling(d) /\ answer[d] = NoException
      /\ reading' = [reading EXCEPT ![d] = NoTime]
  BY DEF UploadAdmitted, Admit, UploadRejected, Reject, CallersOfAttempt
<1>3. PICK value : answer' = [answer EXCEPT ![d] = value] /\ value # NoException
  <2>1. CASE UploadAdmitted(d)
    BY <2>1, AnswerKinds, ThrottlingAssumption DEF UploadAdmitted, Answers
  <2>2. CASE UploadRejected(d)
    <3> DEFINE rejection == [status |-> "429", retryAfter |-> Delay(d)]
    <3>1. rejection.status # NoException.status
      BY DEF NoException
    <3>2. answer' = [answer EXCEPT ![d] = rejection] /\ rejection # NoException
      BY <2>2, <3>1 DEF UploadRejected, Answers
    <3> HIDE DEF rejection
    <3> QED
      BY <3>2
  <2> QED
    BY <2>1, <2>2
<1>4. d \in NotAnswered /\ NotAnswered' = NotAnswered \ {d}
  BY <1>2, <1>3 DEF NotAnswered, TypeOK
<1>5. NotTaken' = NotTaken
  BY <1>2, <1>3 DEF NotTaken, Started, Calling, TypeOK, LimiterType
<1>6. Cardinality(NotAnswered') = Cardinality(NotAnswered) - 1
  BY <1>4, LeftType, FS_RemoveElement
<1>7. DocumentsLeft' < DocumentsLeft
  BY <1>5, <1>6, LeftType DEF DocumentsLeft
<1> QED
  BY <1>1, <1>7, CloserToEnd

\* A run makes a bounded number of steps: however the workers' answers, the
\* failures and the delays fall, a repeated step costs one of the attempts its
\* policy allows, and no document is asked for twice in an attempt.
THEOREM RunTakesFiniteSteps == Spec => RunAdvances
<1>1. TypeInv /\ TypeInv' /\ [Next]_vars => [Pause \/ <<Left', Left>> \in Falling(4)]_vars
  <2> SUFFICES ASSUME TypeInv, TypeInv', Next, ~Pause
               PROVE  <<Left', Left>> \in Falling(4)
    OBVIOUS
  <2> USE DEF TypeInv, StepsLeft, AttemptsLeft, StatementsLeft
  <2>0. /\ step \in 1..3 /\ Policy.max_attempts \in Nat \ {0}
        /\ attempt \in 1..Policy.max_attempts
    BY StagesDomain, ThrottlingAssumption DEF TypeOK, IsPolicy
  <2>1. ASSUME NEW d \in Document, UploadRaises(d) PROVE <<Left', Left>> \in Falling(4)
    <3>1. /\ StepsLeft' = StepsLeft /\ AttemptsLeft' = AttemptsLeft
          /\ StatementsLeft' < StatementsLeft
      BY <2>1 DEF UploadRaises, Uploading, Raise
    <3> QED
      BY <3>1, CloserToEnd
  <2>2. CASE LeavePool \/ StepRaises \/ RetryStep
    <3>1. /\ StepsLeft' = StepsLeft /\ AttemptsLeft' = AttemptsLeft
          /\ StatementsLeft' < StatementsLeft
      BY <2>2 DEF LeavePool, StepRaises, Raise, RetryStep
    <3> QED
      BY <3>1, CloserToEnd
  <2>3. CASE StepSucceeds \/ GiveUp
    <3>1. StepsLeft' < StepsLeft
      BY <2>0, <2>3, StagesDomain DEF StepSucceeds, GiveUp
    <3> QED
      BY <3>1, CloserToEnd
  <2>4. CASE Wake
    <3>1. StepsLeft' = StepsLeft /\ AttemptsLeft' < AttemptsLeft
      BY <2>0, <2>4 DEF Wake
    <3> QED
      BY <3>1, CloserToEnd
  <2> QED
    BY <2>1, <2>2, <2>3, <2>4, TakenUp, Answered DEF Next, WorkerActs, RunnerActs
<1> QED
  BY TypeInit, TypeNext, <1>1, PTL DEF Spec, RunAdvances

\* What CallTarget and UploadRaises ask of the state.
MayBeTaken(d) ==
  /\ Uploading
  /\ ~Started(d)
  /\ \A k \in 1..(d - 1) : IF Serial THEN answer[k] = Accepted ELSE Started(k)
  /\ Cardinality({ k \in Document : Calling(k) }) < workers

FirstToFail(d) ==
  /\ Uploading
  /\ answer[d] \in Exception
  /\ \A k \in 1..(d - 1) : answer[k] = Accepted

LEMMA Guards ==
  ASSUME NEW d \in Document
  PROVE  /\ CallTarget(d) <=>
              MayBeTaken(d) /\ ReadClock(d)
                /\ UNCHANGED << loop, answer, startedAt, retryAt, notBefore, pauses >>
         /\ UploadRaises(d) <=>
              /\ FirstToFail(d) /\ Raise(answer[d], "leave")
              /\ notBefore' = IF retryAt[d] = NoTime THEN notBefore ELSE retryAt[d]
              /\ UNCHANGED << clock, nextAvailable, reading, answer, startedAt, retryAt,
                              pauses >>
BY DEF CallTarget, MayBeTaken, UploadRaises, FirstToFail

\* Until the run has ended a worker is at the limiter, or a document can be taken
\* up, or the results can be awaited further, or the runner waits for nobody.
SomeoneCanGoOn ==
  \/ pc \in {"done", "failed"}
  \/ \E d \in Document : Calling(d) \/ MayBeTaken(d) \/ FirstToFail(d)
  \/ pc = "execute" /\ (Stages[step] = "upload" => AllAccepted)
  \/ pc = "leave" /\ PoolEmpty
  \/ pc \in {"handle", "sleep"}

\* Nobody waits for somebody who waits: neither the results in the order of the
\* documents, nor the pool's free workers, nor the documents cancelled at the
\* first failure leave the run with nothing to do before it has ended.
THEOREM NobodyIsStuck == Spec => []SomeoneCanGoOn
<1>1. TypeInv => SomeoneCanGoOn
  <2> SUFFICES ASSUME TypeInv, pc \in {"execute", "leave"},
                      \A d \in Document : ~Calling(d),
                      pc = "execute" => Stages[step] = "upload" /\ ~AllAccepted,
                      pc = "leave" => ~PoolEmpty
               PROVE  \E d \in Document : MayBeTaken(d) \/ FirstToFail(d)
    BY DEF SomeoneCanGoOn, TypeInv, TypeOK
  <2>1. Uploading /\ ~AllAccepted
    BY DEF PoolEmpty, Uploading
  <2> DEFINE Rest == { d \in Document : answer[d] # Accepted }
  <2>2. Rest # {} /\ Rest \in SUBSET Nat
    BY <2>1, ThrottlingAssumption DEF AllAccepted, Document
  <2>3. PICK d \in Rest : \A e \in Rest : d <= e
    BY <2>2, LeastPosition
  <2>4. /\ d \in Document /\ d \in Nat
        /\ \A k \in 1..(d - 1) : k \in Document /\ k < d
    BY <2>2, ThrottlingAssumption DEF Document
  <2>5. \A k \in 1..(d - 1) : answer[k] = Accepted
    <3> SUFFICES ASSUME NEW k \in 1..(d - 1) PROVE k \notin Rest
      BY <2>4
    <3>1. k \in Nat /\ k < d
      BY <2>4
    <3> QED
      BY <2>3, <2>4, <3>1
  <2>6. CASE answer[d] = NoException
    <3>1. ~Started(d) /\ \A k \in 1..(d - 1) : Started(k)
      BY <2>4, <2>5, <2>6, AnswerKinds DEF Started
    <3>2. { k \in Document : Calling(k) } = {}
      OBVIOUS
    <3>3. Cardinality({ k \in Document : Calling(k) }) < workers
      <4>1. workers \in Nat \ {0}
        BY ThrottlingAssumption DEF TypeInv, TypeOK
      <4>2. \A n \in Nat \ {0} : 0 < n
        OBVIOUS
      <4> QED
        BY <3>2, <4>1, <4>2, FS_EmptySet
    <3>4. MayBeTaken(d)
      BY <2>1, <2>5, <3>1, <3>3 DEF MayBeTaken
    <3> QED
      BY <2>4, <3>4
  <2>7. CASE answer[d] \in Exception
    <3>1. FirstToFail(d)
      BY <2>1, <2>5, <2>7 DEF FirstToFail
    <3> QED
      BY <2>4, <3>1
  <2> QED
    BY <2>3, <2>4, <2>6, <2>7 DEF TypeInv, TypeOK
<1> QED
  BY TypeInit, TypeNext, <1>1, PTL DEF Spec

=============================================================================
