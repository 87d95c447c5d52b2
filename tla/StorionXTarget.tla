--------------------------- MODULE StorionXTarget ---------------------------
(***************************************************************************)
(* The mock storionX target: MockStorionXTargetAdapter                     *)
(* (adapters/target/mock_storionx_target_adapter.py), the DocumentStorage  *)
(* it writes to and the UploadService that keeps the upload session.  The  *)
(* operators are what one call on them does; who makes the calls, and in   *)
(* which order, is module ParallelUpload.  Content is a version: documents *)
(* with the same id and version map to equal stored documents.             *)
(***************************************************************************)
EXTENDS Naturals, Sequences, FiniteSets

CONSTANTS
  Id,         \* source identifiers, the storage keys
  Version,    \* contents a document can have
  None        \* no document, and no date in a filter

ASSUME TargetAssumption == None \notin Version

VARIABLES
  storage,    \* document_storage: id -> version
  mirror,     \* _uploaded_documents: id -> version
  session,    \* the active upload session
  lock        \* who is in "with self._lock", 0 for nobody

targetState == << storage, mirror, session, lock >>

NoSession == [exists |-> FALSE, documents |-> << >>, completed |-> FALSE]

TargetInit ==
  /\ storage = [id \in Id |-> None]
  /\ mirror = [id \in Id |-> None]
  /\ session = NoSession
  /\ lock = 0

\* Mutant: the lock keeps nobody out.
LockIgnored == TRUE

LockFree == lock = 0

\* Mutant: any stored document of the id counts as the same document.
SameKey(id, version) == storage[id] # None

\* What "existing_document != stored_document" tells apart.
SameDocument(id, version) == storage[id] = version

\* Mutant: an upsert, other content counts as absent.
AbsentOrOther(id, version) == storage[id] # version

Absent(id, version) == storage[id] = None

\* _ensure_session has read None: create_upload_session replaces the session.
CreateUploadSession ==
  session' = [exists |-> TRUE, documents |-> << >>, completed |-> FALSE]

AddDocument(id, version) == storage' = [storage EXCEPT ![id] = version]

\* Mutant: the replay answers without recording the document.
NothingRemembered(id, version) == mirror' = mirror

Remember(id, version) == mirror' = [mirror EXCEPT ![id] = version]

\* UploadService.upload_document; it does not look at completed_at.
AttachToSession(id) ==
  session' = [session EXCEPT !.documents = Append(@, id)]

\* UploadService.finalize_upload: the session stays the active one.
FinalizeUpload == session' = [session EXCEPT !.completed = TRUE]

\* finalize_job of the adapter.
FinalizeJob == IF session.exists THEN FinalizeUpload ELSE UNCHANGED session

\* get_uploaded_document.
UploadedDocument(id) == IF storage[id] = None THEN None ELSE mirror[id]

TargetType ==
  /\ storage \in [Id -> Version \cup {None}]
  /\ mirror \in [Id -> Version \cup {None}]
  /\ session \in [exists : BOOLEAN, documents : Seq(Id), completed : BOOLEAN]
  /\ lock \in Nat

Stored == { id \in Id : storage[id] # None }

=============================================================================
