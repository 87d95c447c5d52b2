---------------------------- MODULE MigrationJob ----------------------------
(***************************************************************************)
(* What a migration job promises to whoever only sees the target and the   *)
(* job's checkpoint, however often its runner is retried, abandoned,       *)
(* rebuilt or resumed:                                                     *)
(*   - documents are only added to the target, one at a time;              *)
(*   - recorded progress advances step by step, or starts over;            *)
(*   - a real run records the Upload step only when everything deliverable *)
(*     is in the target;                                                   *)
(*   - progress that continues a dry run stays a dry run.                  *)
(***************************************************************************)
EXTENDS Naturals

CONSTANT Deliverable   \* documents the target can accept

VARIABLES delivered, recorded

UploadStep == 4

Init ==
  /\ delivered = {}
  /\ recorded = [step |-> 0, dry |-> FALSE]

Deliver(d) ==
  /\ d \notin delivered
  /\ delivered' = delivered \cup {d}
  /\ UNCHANGED recorded

StartOver(dry) ==
  /\ recorded' = [step |-> 1, dry |-> dry]
  /\ UNCHANGED delivered

Advance(dry) ==
  /\ recorded.step < 6
  /\ recorded.dry => dry
  /\ ~dry /\ recorded.step + 1 >= UploadStep => Deliverable \subseteq delivered
  /\ recorded' = [step |-> recorded.step + 1, dry |-> dry]
  /\ UNCHANGED delivered

Next ==
  \/ \E d \in Deliverable : Deliver(d)
  \/ \E dry \in BOOLEAN : StartOver(dry) \/ Advance(dry)

Spec == Init /\ [][Next]_<<delivered, recorded>>

=============================================================================
