----------------------- MODULE MigrationStateMachine -----------------------
(***************************************************************************)
(* The migration lifecycle (migration_engine/state_machine.py): the states *)
(* a job can be in and the rule that decides whether the machine may move. *)
(* The machine is deliberately permissive: until a terminal state is       *)
(* reached any move is accepted, also a move backwards, and a terminal     *)
(* state only accepts itself.  transition_to raises ValueError when the    *)
(* rule refuses, so a caller that does not ask first can be thrown out of  *)
(* its own error handling.                                                 *)
(***************************************************************************)

MigrationState ==
  { "created", "initializing", "discovering", "extracting", "transforming",
    "uploading", "verifying", "finalizing", "completed", "failed",
    "paused", "cancelled" }

TerminalStates == { "completed", "failed", "cancelled" }

\* Mutant: a terminal state accepts nothing, not even itself.
OnlyFromOpenStates(current, state) == current \notin TerminalStates

\* can_transition: what the machine accepts.
CanTransition(current, state) == current \in TerminalStates => state = current

\* "if can_transition(s): transition_to(s)", the guarded move the runner and
\* the Finalize step use.
MoveIfAllowed(current, state) ==
  IF CanTransition(current, state) THEN state ELSE current

=============================================================================
