-------------------------- MODULE IdempotentStore --------------------------
(***************************************************************************)
(* What the target promises to a client that sends it batches of keyed     *)
(* documents (DESIGN.md, idempotency): a key is written once, the same     *)
(* content sent again is answered as a replay, other content as a conflict *)
(* that changes nothing, and a request that fails has written nothing.     *)
(* Requests of a batch take effect in any order, each in one step.         *)
(***************************************************************************)
EXTENDS Naturals, Sequences

CONSTANTS Key, Content, Slots, Nothing

VARIABLES
  content,   \* what the store holds per key
  requests,  \* the batch of requests that is open
  reply      \* the answer to each of them

vars == << content, requests, reply >>

Init ==
  /\ content = [k \in Key |-> Nothing]
  /\ requests = << >>
  /\ reply = [i \in Slots |-> "none"]

\* Requests without an answer are abandoned.
NewBatch ==
  /\ requests' \in Seq([id : Key, version : Content])
  /\ reply' = [i \in Slots |-> "none"]
  /\ UNCHANGED content

Answer(i, word) ==
  /\ i \in DOMAIN requests
  /\ reply[i] = "none"
  /\ reply' = [reply EXCEPT ![i] = word]
  /\ UNCHANGED requests

Create(i) ==
  /\ Answer(i, "created")
  /\ content[requests[i].id] = Nothing
  /\ content' = [content EXCEPT ![requests[i].id] = requests[i].version]

Repeat(i) ==
  /\ Answer(i, "replay")
  /\ content[requests[i].id] = requests[i].version
  /\ UNCHANGED content

Refuse(i) ==
  /\ Answer(i, "conflict")
  /\ content[requests[i].id] \notin {Nothing, requests[i].version}
  /\ UNCHANGED content

\* A read of the keys of some requests, whatever content they carry.
Find(some) ==
  /\ \A i \in some : reply[i] = "none"
  /\ reply' = [i \in Slots |->
       IF i \notin some THEN reply[i]
       ELSE IF content[requests[i].id] = Nothing THEN "missing" ELSE "found"]
  /\ UNCHANGED << content, requests >>

\* A failure, or a request that was only simulated.
Pass(i) ==
  /\ Answer(i, "failed") \/ Answer(i, "dry")
  /\ UNCHANGED content

Next ==
  \/ NewBatch
  \/ \E i \in Slots : Create(i) \/ Repeat(i) \/ Refuse(i) \/ Pass(i)
  \/ \E some \in SUBSET DOMAIN requests : Find(some)

Spec == Init /\ [][Next]_vars

=============================================================================
