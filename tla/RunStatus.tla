------------------------------ MODULE RunStatus ------------------------------
(***************************************************************************)
(* The status of an agent run and the transitions the repository layer     *)
(* accepts (app/core/enums.py, app/db/state_machine.py).  NoRow stands for *)
(* a run whose row has not been inserted yet.                              *)
(***************************************************************************)

NoRow == "NO_ROW"

RunStatuses == {"PENDING", "RUNNING", "SUCCEEDED", "FAILED", "CANCELLED"}

TerminalRunStates == {"SUCCEEDED", "FAILED", "CANCELLED"}

RunTransitions ==
    [ PENDING   |-> {"RUNNING", "CANCELLED", "FAILED"},
      RUNNING   |-> {"SUCCEEDED", "FAILED", "CANCELLED"},
      SUCCEEDED |-> {},
      FAILED    |-> {},
      CANCELLED |-> {} ]

\* Mutant: the writer does not check the transition.
UncheckedTransition(current, target) == TRUE

\* assert_run_transition: a self loop passes, and writes no new status.
RunTransitionAllowed(current, target) ==
    \/ current = target
    \/ target \in RunTransitions[current]

=============================================================================
