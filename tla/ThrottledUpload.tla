-------------------------- MODULE ThrottledUpload --------------------------
(***************************************************************************)
(* The Upload step of one run against a target that limits its rate: the   *)
(* loop or the worker pool of UploadItemsStep, upload_archived_file with   *)
(* the limiter and the failure injector in front of it, and around them    *)
(* the retry loop of PipelineRunner.run with the policy's delays, the      *)
(* sleeper, the retry records and the retry counters of the metrics.  A    *)
(* step before and a step after the upload go through the same loop.       *)
(*                                                                         *)
(* Time is counted in whole units; the runner waits with its sleeper, and  *)
(* the target may take time for anything.  The target is asked for one     *)
(* batch only; what a document becomes in it is module ParallelUpload's.   *)
(***************************************************************************)
EXTENDS FiniteSets, Sequences, RetryPolicy, UploadRateLimiter

CONSTANTS
  Documents,     \* number of unique documents of the batch
  WorkerCounts,  \* the values of upload_worker_count
  Policy,        \* the runner's retry policy
  Injected,      \* exceptions the failure injector and the other steps raise
  MaxPause       \* bound: time units that pass inside one attempt

Exception == [status : {"429", "503", "other"}, retryAfter : Nat]

ASSUME ThrottlingAssumption ==
  /\ Documents \in Nat
  /\ WorkerCounts \subseteq Nat \ {0}
  /\ IsPolicy(Policy)
  /\ \A n \in 1..Policy.max_attempts : PolicyDelay(Policy, n) \in Nat
  /\ Injected \subseteq Exception
  /\ MaxPause \in Nat

\* The registered steps around the one that uploads.
Stages == << "transform", "upload", "verify" >>

Document == 1..Documents

NoException == [status |-> "none", retryAfter |-> 0]
Accepted == [status |-> "accepted", retryAfter |-> 0]

VARIABLES
  workers,        \* upload_worker_count of this run
  pc,             \* "execute", "leave", "handle", "sleep"; "done" or "failed"
  step,           \* the step in the loop, a position in Stages
  attempt,        \* attempt_number
  answer,         \* per document: what its future holds in this attempt
  exception,      \* the exception being handled
  wakeAt,         \* when the sleeper returns
  metrics,        \* latest_metrics, the retry counters
  records,        \* what the retry repository lists for the job
  startedAt,      \* history: when this attempt began
  retryAt,        \* history, per document: when the delay of its rejection is over
  notBefore,      \* history: the time the runner was last asked to wait for
  pauses          \* bound: time units passed in this attempt

loop == << workers, pc, step, attempt, exception, wakeAt, metrics, records >>
vars == << clock, nextAvailable, reading, loop, answer, startedAt, retryAt, notBefore,
           pauses >>

NoRetries == [retried |-> 0, throttled |-> 0, retryAfter |-> 0, unavailable |-> 0]

NoAnswers == [d \in Document |-> NoException]

Init ==
  /\ LimiterInit(Document)
  /\ workers \in WorkerCounts
  /\ pc = "execute"
  /\ step = 1
  /\ attempt = 1
  /\ answer = NoAnswers
  /\ exception = NoException
  /\ wakeAt = 0
  /\ metrics = NoRetries
  /\ records = << >>
  /\ startedAt = 0
  /\ retryAt = [d \in Document |-> NoTime]
  /\ notBefore = 0
  /\ pauses = 0

-----------------------------------------------------------------------------
(* One attempt.                                                            *)

Uploading == pc = "execute" /\ Stages[step] = "upload"

\* Anything in an attempt may take time; what other steps take is not looked at.
Pause ==
  /\ pc \in {"execute", "leave"}
  /\ Stages[step] = "upload"
  /\ pauses < MaxPause
  /\ clock' = clock + 1
  /\ pauses' = pauses + 1
  /\ UNCHANGED << nextAvailable, reading, loop, answer, startedAt, retryAt, notBefore >>

Started(d) == Calling(d) \/ answer[d] # NoException

\* A list comprehension, or executor.map over a pool of threads.
Serial == workers = 1 \/ Documents = 1

\* A document is taken up when all before it are, by the loop when they have been
\* accepted and by the pool when a worker is free, failures or not.
CallTarget(d) ==
  /\ Uploading
  /\ ~Started(d)
  /\ \A k \in 1..(d - 1) : IF Serial THEN answer[k] = Accepted ELSE Started(k)
  /\ Cardinality({ k \in Document : Calling(k) }) < workers
  /\ ReadClock(d)
  /\ UNCHANGED << loop, answer, startedAt, retryAt, notBefore, pauses >>

Answers(d, value) == answer' = [answer EXCEPT ![d] = value]

\* The limiter admits the document; the failure injector may still raise.
UploadAdmitted(d) ==
  /\ Admit(d)
  /\ \E value \in Injected \cup {Accepted} : Answers(d, value)
  /\ UNCHANGED << loop, startedAt, retryAt, notBefore, pauses >>

\* TooManyRequestsError carries the delay.
UploadRejected(d) ==
  /\ Reject(d)
  /\ Answers(d, [status |-> "429", retryAfter |-> Delay(d)])
  /\ retryAt' = [retryAt EXCEPT ![d] = reading[d] + Delay(d)]
  /\ UNCHANGED << loop, startedAt, notBefore, pauses >>

Raise(e, next) ==
  /\ exception' = e
  /\ pc' = next
  /\ UNCHANGED << workers, step, attempt, wakeAt, metrics, records >>

\* The results are awaited in the order of the documents: the exception of the
\* first that failed leaves, whichever came first, and what is queued is cancelled.
UploadRaises(d) ==
  /\ Uploading
  /\ answer[d] \in Exception
  /\ \A k \in 1..(d - 1) : answer[k] = Accepted
  /\ Raise(answer[d], "leave")
  /\ notBefore' = IF retryAt[d] = NoTime THEN notBefore ELSE retryAt[d]
  /\ UNCHANGED << clock, nextAvailable, reading, answer, startedAt, retryAt, pauses >>

\* Mutant: the pool waits for the documents it cancelled as well.
EveryDocumentAnswered == \A d \in Document : answer[d] # NoException

PoolEmpty == \A d \in Document : ~Calling(d)

\* The with block of the pool waits for the workers that are still calling.
LeavePool ==
  /\ pc = "leave"
  /\ PoolEmpty
  /\ pc' = "handle"
  /\ UNCHANGED << clock, nextAvailable, reading, workers, step, attempt, exception,
                  wakeAt, metrics, records, answer, startedAt, retryAt, notBefore, pauses >>

\* The other steps neither upload nor wait for the limiter.
StepRaises ==
  /\ pc = "execute"
  /\ Stages[step] # "upload"
  /\ \E e \in Injected : Raise(e, "handle")
  /\ UNCHANGED << clock, nextAvailable, reading, answer, startedAt, retryAt, notBefore,
                  pauses >>

\* Every step reports metrics of its own: it goes on from those of its context,
\* but sets retried_items to zero.
StepMetrics == [metrics EXCEPT !.retried = 0]

\* Mutant: the step's metrics replace the runner's.
TakeStepMetrics(current, latest) == current

Larger(a, b) == IF a >= b THEN a ELSE b

\* _merge_retry_metrics.
Merge(current, latest) ==
  [counter \in DOMAIN current |-> Larger(current[counter], latest[counter])]

AllAccepted == \A d \in Document : answer[d] = Accepted

\* What the history knows of an attempt starts anew with the next.
AttemptBegins(now) ==
  /\ startedAt' = now
  /\ answer' = NoAnswers
  /\ retryAt' = [d \in Document |-> NoTime]
  /\ pauses' = 0

StepSucceeds ==
  /\ pc = "execute"
  /\ Stages[step] = "upload" => AllAccepted
  /\ metrics' = Merge(StepMetrics, metrics)
  /\ IF step = Len(Stages)
       THEN /\ pc' = "done"
            /\ UNCHANGED << step, attempt, answer, startedAt, retryAt, pauses >>
       ELSE /\ step' = step + 1
            /\ attempt' = 1
            /\ AttemptBegins(clock)
            /\ UNCHANGED pc
  /\ UNCHANGED << clock, nextAvailable, reading, workers, exception, wakeAt, records,
                  notBefore >>

-----------------------------------------------------------------------------
(* The except branch of the loop.                                          *)

\* Without a classifier, an exception that has a retry_after_seconds.
Retryable(e) == e.status \in {"429", "503"}

RetryAllowed == ShouldRetry(Policy, attempt, Retryable(exception))

\* Mutant: the target's delay is not looked at.
DelayOfPolicy == PolicyDelay(Policy, attempt)

\* _decide_retry: the target's delay counts when it is longer than the policy's.
RetryDelay == Larger(exception.retryAfter, PolicyDelay(Policy, attempt))

\* _build_retry_metrics.
RetryMetrics ==
  LET one(condition) == IF condition THEN 1 ELSE 0
  IN  [retried |-> metrics.retried + 1,
       throttled |-> metrics.throttled + one(exception.status = "429"),
       retryAfter |-> metrics.retryAfter + one(exception.retryAfter > 0),
       unavailable |-> metrics.unavailable + one(exception.status = "503")]

\* _build_retry_record; the reason is the exception's message.
RetryRecord == [step |-> Stages[step], attempt |-> attempt, reason |-> exception]

attemptState == << reading, answer, startedAt, retryAt, pauses >>

RetryStep ==
  /\ pc = "handle"
  /\ RetryAllowed
  /\ metrics' = RetryMetrics
  /\ records' = Append(records, RetryRecord)
  /\ wakeAt' = clock + RetryDelay
  /\ pc' = "sleep"
  /\ UNCHANGED << clock, nextAvailable, attemptState, workers, step, attempt, exception,
                  notBefore >>

\* The sleeper returns and the whole step is executed again.
Wake ==
  /\ pc = "sleep"
  /\ clock' = wakeAt
  /\ AttemptBegins(wakeAt)
  /\ attempt' = attempt + 1
  /\ exception' = NoException
  /\ pc' = "execute"
  /\ UNCHANGED << nextAvailable, reading, workers, step, wakeAt, metrics, records,
                  notBefore >>

GiveUp ==
  /\ pc = "handle"
  /\ ~RetryAllowed
  /\ pc' = "failed"
  /\ UNCHANGED << clock, nextAvailable, attemptState, workers, step, attempt, exception,
                  wakeAt, metrics, records, notBefore >>

RunnerActs ==
  \/ \E d \in Document : UploadRaises(d)
  \/ LeavePool
  \/ StepRaises \/ StepSucceeds
  \/ RetryStep \/ Wake \/ GiveUp

WorkerActs(d) == CallTarget(d) \/ UploadAdmitted(d) \/ UploadRejected(d)

Next ==
  \/ Pause
  \/ \E d \in Document : WorkerActs(d)
  \/ RunnerActs

\* The runner's thread and its workers go on while they can; the sleeper returns.
Fairness == WF_vars(RunnerActs) /\ \A d \in Document : WF_vars(WorkerActs(d))

Spec == Init /\ [][Next]_vars /\ Fairness

-----------------------------------------------------------------------------
(* Properties.                                                             *)

\* A batch goes through in one attempt or not at all, since every retry begins
\* with its first document: so the attempt that succeeds has taken the time the
\* rate asks of the whole batch, however many workers share it and however old
\* the readings they bring to the limiter; no series of retries makes up for it.
BatchesArePaced ==
  [][(step = 2 /\ step' = 3) => clock - startedAt >= (Documents - 1) * Interval]_vars

\* "retry-after awareness" (test_pipeline_retry_flow.py): an attempt that follows
\* a rejection the runner was told of reaches the target no earlier than that
\* rejection asked for, however long other workers kept the pool from being left
\* and whatever the policy's own delay is.
RetryAfterHonoured == Uploading => clock >= notBefore

RecordsOf(status) == { n \in DOMAIN records : records[n].reason.status = status }
RecordsWithDelay == { n \in DOMAIN records : records[n].reason.retryAfter > 0 }

\* Through every step that succeeds, raises and is repeated, the retry counters
\* stay those of the retry records: "retry metrics remain available" (README.md).
MetricsMatchRecords ==
  /\ metrics.retried = Len(records)
  /\ metrics.throttled = Cardinality(RecordsOf("429"))
  /\ metrics.unavailable = Cardinality(RecordsOf("503"))
  /\ metrics.retryAfter = Cardinality(RecordsWithDelay)

\* Whatever the limiter and the injector refuse, in whichever order the workers
\* come back, the run ends: the policy bounds the attempts, cancelled documents
\* are not waited for and running ones are.
RunEnds == <>(pc \in {"done", "failed"})

\* Every variable holds a value of its kind; in particular no attempt number
\* exceeds the policy's, and nothing calls the target outside an attempt.
TypeOK ==
  /\ LimiterType(Document)
  /\ \A d \in Document : Calling(d) => pc \in {"execute", "leave"} /\ reading[d] <= clock
  /\ workers \in WorkerCounts
  /\ pc \in {"execute", "leave", "handle", "sleep", "done", "failed"}
  /\ step \in DOMAIN Stages
  /\ attempt \in 1..Policy.max_attempts
  /\ answer \in [Document -> Exception \cup {NoException, Accepted}]
  /\ exception \in Exception \cup {NoException}
  /\ wakeAt \in Nat
  /\ metrics \in [retried : Nat, throttled : Nat, retryAfter : Nat, unavailable : Nat]
  /\ records \in Seq([step : {"transform", "upload", "verify"},
                      attempt : 1..Policy.max_attempts, reason : Exception])
  /\ startedAt \in 0..clock
  /\ retryAt \in [Document -> Nat \cup {NoTime}]
  /\ notBefore \in Nat
  /\ pauses \in 0..MaxPause

=============================================================================
