--------------------------- MODULE ParallelUpload ---------------------------
(***************************************************************************)
(* The Upload step (migration_engine/steps/upload_items_step.py): how a    *)
(* batch of transformed documents becomes calls on the target.  Duplicates *)
(* are taken out, the rest is mapped over a ThreadPoolExecutor, or in a    *)
(* plain loop when there is one worker or one document; results are taken  *)
(* in submission order, the first exception in that order leaves the step, *)
(* after the futures that have not started are cancelled and the running   *)
(* ones have ended.  The runner may call the step again with the same      *)
(* batch (a retry), with another one, or to reconstruct it.                *)
(***************************************************************************)
EXTENDS StorionXTarget

CONSTANTS
  Batches,        \* sequences of documents the step may be called with
  Calls,          \* "upload", "dry_run", "reconstruct"
  WorkerCounts,   \* upload_worker_count
  UploadMayFail,  \* may the rate limiter or the failure injector raise
  MaxDocuments,   \* bound: length of a batch
  MaxCalls        \* bound: calls of the step

Document == [id : Id, version : Version]

ASSUME UploadAssumption ==
  /\ MaxDocuments \in Nat
  /\ \A b \in Batches : b \in Seq(Document) /\ Len(b) <= MaxDocuments
  /\ Calls \subseteq {"upload", "dry_run", "reconstruct"}
  /\ WorkerCounts \subseteq Nat \ {0}
  /\ UploadMayFail \in BOOLEAN
  /\ MaxCalls \in Nat

Slot == 1..MaxDocuments

VARIABLES
  documents,   \* transformation_result.transformed_documents
  call,        \* how the step is called
  workers,
  main,        \* the calling thread: idle, mapping, draining, returned, raised
  collected,   \* the last job whose result it has taken
  error,       \* the job whose exception it re-raises, 0 for none
  phase,       \* where the job of each document is
  outcome,     \* its result
  calls

stepVars == << documents, call, workers, calls >>
vars == << documents, call, workers, calls, main, collected, error, phase, outcome,
           storage, mirror, session, lock >>

\* unique_documents: the first document of each source identifier.
FirstOccurrences(docs) ==
  { i \in DOMAIN docs : \A k \in 1..(i - 1) : docs[k].id # docs[i].id }

Jobs == FirstOccurrences(documents)

Locked == {"locked", "creating", "ready", "stored"}
Active == {"started"} \cup Locked
Phases == {"none", "queued", "done", "raised", "cancelled"} \cup Active
Outcomes == {"none", "created", "replay", "conflict", "dry", "found", "missing", "failed"}

Running == { j \in Jobs : phase[j] \in Active }
Queued  == { j \in Jobs : phase[j] = "queued" }

Parallel == Cardinality(Jobs) > 1 /\ workers > 1
PoolSize == IF Parallel THEN workers ELSE 1

IdOf(j) == documents[j].id
VersionOf(j) == documents[j].version

Init ==
  /\ TargetInit
  /\ documents = << >>
  /\ call \in Calls
  /\ workers \in WorkerCounts
  /\ main = "idle"
  /\ collected = 0
  /\ error = 0
  /\ phase = [i \in Slot |-> "none"]
  /\ outcome = [i \in Slot |-> "none"]
  /\ calls = 0

-----------------------------------------------------------------------------
(* The calling thread.                                                     *)

CallStep(docs, how) ==
  /\ main \in {"idle", "returned", "raised"}
  /\ calls < MaxCalls
  /\ documents' = docs
  /\ call' = how
  /\ main' = "mapping"
  /\ collected' = 0
  /\ error' = 0
  /\ phase' = [i \in Slot |-> IF i \in FirstOccurrences(docs) THEN "queued" ELSE "none"]
  /\ outcome' = [i \in Slot |-> "none"]
  /\ calls' = calls + 1
  /\ UNCHANGED << workers, targetState >>

\* The job whose result comes next.
IsNext(j) ==
  /\ j \in Jobs
  /\ j > collected
  /\ \A k \in Jobs : k > collected => j <= k

\* Mutant: results are taken as they are completed.
IsCompleted(j) == j \in Jobs /\ j > collected /\ phase[j] \in {"done", "raised"}

CanTake(j) == IsNext(j) /\ phase[j] \in {"done", "raised"}

TakeResult(j) ==
  /\ main = "mapping"
  /\ CanTake(j)
  /\ IF phase[j] = "done"
       THEN collected' = j /\ UNCHANGED << main, error >>
       ELSE main' = "draining" /\ error' = j /\ UNCHANGED collected
  /\ UNCHANGED << stepVars, phase, outcome, targetState >>

\* The iterator of executor.map cancels what has not started, last one first,
\* while the pool goes on taking jobs from the other end.
CancelJob(j) ==
  /\ main = "draining"
  /\ j \in Queued
  /\ \A k \in Queued : k <= j
  /\ phase' = [phase EXCEPT ![j] = "cancelled"]
  /\ UNCHANGED << stepVars, main, collected, error, outcome, targetState >>

\* Mutants: the executor is shut down without waiting, or waits until every job
\* has a result.
NothingQueued == Queued = {}
EveryJobDone == \A j \in Jobs : phase[j] = "done"

PoolEmpty == Queued = {} /\ Running = {}

\* The with block waits for the pool before the exception goes on.
LeaveWithError ==
  /\ main = "draining"
  /\ PoolEmpty
  /\ main' = "raised"
  /\ UNCHANGED << stepVars, collected, error, phase, outcome, targetState >>

\* finalize_job is called when perform_target_upload is, also in a dry run.
ReturnResults ==
  /\ main = "mapping"
  /\ \A j \in Jobs : j <= collected
  /\ PoolEmpty
  /\ main' = "returned"
  /\ IF call = "reconstruct" THEN UNCHANGED session ELSE FinalizeJob
  /\ UNCHANGED << stepVars, collected, error, phase, outcome, storage, mirror, lock >>

-----------------------------------------------------------------------------
(* The workers: _process_transformed_document and the adapter under it.    *)

\* The pool takes jobs in submission order; the plain loop does not go on after
\* an exception.
StartJob(j) ==
  /\ j \in Queued
  /\ \A k \in Queued : j <= k
  /\ Cardinality(Running) < PoolSize
  /\ Parallel \/ \A k \in Jobs : k < j => phase[k] = "done"
  /\ phase' = [phase EXCEPT ![j] = "started"]
  /\ UNCHANGED << stepVars, main, collected, error, outcome, targetState >>

Answer(j, word, next) ==
  /\ outcome' = [outcome EXCEPT ![j] = word]
  /\ phase' = [phase EXCEPT ![j] = next]

\* Dry run: nothing is called.
SimulateUpload(j) ==
  /\ phase[j] = "started"
  /\ call = "dry_run"
  /\ Answer(j, "dry", "done")
  /\ UNCHANGED << stepVars, main, collected, error, targetState >>

Reconstruct(j) ==
  /\ phase[j] = "started"
  /\ call = "reconstruct"
  /\ Answer(j, IF UploadedDocument(IdOf(j)) = None THEN "missing" ELSE "found", "done")
  /\ UNCHANGED << stepVars, main, collected, error, targetState >>

\* TooManyRequestsError or an injected failure, before the lock.
RejectUpload(j) ==
  /\ UploadMayFail
  /\ phase[j] = "started"
  /\ call = "upload"
  /\ Answer(j, "failed", "raised")
  /\ UNCHANGED << stepVars, main, collected, error, targetState >>

AcquireLock(j) ==
  /\ phase[j] = "started"
  /\ call = "upload"
  /\ LockFree
  /\ lock' = j
  /\ phase' = [phase EXCEPT ![j] = "locked"]
  /\ UNCHANGED << stepVars, main, collected, error, outcome, storage, mirror, session >>

\* IdempotencyConflictError, turned into an item failure.
ReportConflict(j) ==
  /\ phase[j] = "locked"
  /\ storage[IdOf(j)] # None
  /\ ~SameDocument(IdOf(j), VersionOf(j))
  /\ Answer(j, "conflict", "done")
  /\ lock' = 0
  /\ UNCHANGED << stepVars, main, collected, error, storage, mirror, session >>

ReplayUpload(j) ==
  /\ phase[j] = "locked"
  /\ storage[IdOf(j)] # None
  /\ SameDocument(IdOf(j), VersionOf(j))
  /\ Remember(IdOf(j), VersionOf(j))
  /\ Answer(j, "replay", "done")
  /\ lock' = 0
  /\ UNCHANGED << stepVars, main, collected, error, storage, session >>

\* No such document: _ensure_session reads active_session.
ReadSession(j) ==
  /\ phase[j] = "locked"
  /\ Absent(IdOf(j), VersionOf(j))
  /\ phase' = [phase EXCEPT ![j] = IF session.exists THEN "ready" ELSE "creating"]
  /\ UNCHANGED << stepVars, main, collected, error, outcome, targetState >>

OpenSession(j) ==
  /\ phase[j] = "creating"
  /\ CreateUploadSession
  /\ phase' = [phase EXCEPT ![j] = "ready"]
  /\ UNCHANGED << stepVars, main, collected, error, outcome, storage, mirror, lock >>

StoreDocument(j) ==
  /\ phase[j] = "ready"
  /\ AddDocument(IdOf(j), VersionOf(j))
  /\ Answer(j, "created", "stored")
  /\ UNCHANGED << stepVars, main, collected, error, mirror, session, lock >>

\* The mirror, the session, the end of the with block.
AttachDocument(j) ==
  /\ phase[j] = "stored"
  /\ Remember(IdOf(j), VersionOf(j))
  /\ AttachToSession(IdOf(j))
  /\ lock' = 0
  /\ phase' = [phase EXCEPT ![j] = "done"]
  /\ UNCHANGED << stepVars, main, collected, error, outcome, storage >>

-----------------------------------------------------------------------------

WorkerStep(j) ==
  \/ StartJob(j) \/ SimulateUpload(j) \/ Reconstruct(j) \/ RejectUpload(j)
  \/ AcquireLock(j) \/ ReportConflict(j) \/ ReplayUpload(j) \/ ReadSession(j)
  \/ OpenSession(j) \/ StoreDocument(j) \/ AttachDocument(j)

MainStep ==
  \/ \E j \in Slot : TakeResult(j) \/ CancelJob(j)
  \/ LeaveWithError
  \/ ReturnResults

Next ==
  \/ \E docs \in Batches, how \in Calls : CallStep(docs, how)
  \/ MainStep
  \/ \E j \in Slot : WorkerStep(j)

\* The threads of the process are all scheduled; one that is inside the lock, or
\* the only one that waits for it, gets on.
Fairness == WF_vars(MainStep) /\ \A j \in Slot : WF_vars(WorkerStep(j))

Spec == Init /\ [][Next]_vars /\ Fairness

-----------------------------------------------------------------------------
(* Properties.                                                             *)

\* Every variable has its type; the lock is held by the one job that is inside.
TypeOK ==
  /\ TargetType
  /\ documents \in Seq(Document) /\ Len(documents) <= MaxDocuments
  /\ call \in {"upload", "dry_run", "reconstruct"}
  /\ workers \in Nat \ {0}
  /\ main \in {"idle", "mapping", "draining", "returned", "raised"}
  /\ collected \in 0..MaxDocuments
  /\ error \in 0..MaxDocuments
  /\ phase \in [Slot -> Phases]
  /\ outcome \in [Slot -> Outcomes]
  /\ calls \in Nat
  /\ { j \in Slot : phase[j] \in Locked } = { lock } \ {0}

\* The session lists every stored document once and the adapter's mirror agrees
\* with the storage, whenever nobody is between the writes.
TargetConsistent ==
  lock = 0 =>
    /\ mirror = storage
    /\ Len(session.documents) = Cardinality(Stored)
    /\ { session.documents[i] : i \in DOMAIN session.documents } = Stored

\* A stored document is never replaced or lost: a conflict changes nothing.
StoredContentNeverChanges ==
  [][\A id \in Stored : storage'[id] = storage[id]]_vars

\* When the step is left, by return or by exception, no worker is still running
\* and none is left to start: a retry or the next step never races the old pool.
NoWorkerOutlivesStep ==
  main \in {"idle", "returned", "raised"} =>
    \A j \in Slot : phase[j] \notin Active \cup {"queued"}

\* A returned upload accounts for every document of the batch: the target holds
\* its id, with its content exactly if the document is not reported as failed.
ResultsFaithful ==
  (main = "returned" /\ call = "upload") =>
    /\ \A i \in DOMAIN documents : IdOf(i) \in Stored
    /\ \A j \in Jobs : (outcome[j] = "conflict") <=> (storage[IdOf(j)] # VersionOf(j))

\* The exception that leaves the step is the first in document order: what the
\* runner classifies for a retry does not depend on the scheduling of the pool,
\* and every document before it has its result.
FirstFailureLeaves ==
  main = "raised" =>
    /\ outcome[error] = "failed"
    /\ \A j \in Jobs : j < error => phase[j] = "done"

\* Every call of the step ends, whatever raises.
StepEnds == main = "mapping" ~> main \in {"returned", "raised"}

\* Seen from its replies the target is the atomic store of IdempotentStore.
Store == INSTANCE IdempotentStore WITH
           Key <- Id, Content <- Version, Slots <- Slot, Nothing <- None,
           content <- storage, requests <- documents, reply <- outcome

IsIdempotentStore == Store!Spec

=============================================================================
