----------------------------- MODULE RunLifecycle -----------------------------
(***************************************************************************)
(* What the rows of a run promise, whoever writes them: a row appears once *)
(* as PENDING, its status follows the transition table of                  *)
(* app/db/state_machine.py, and at most one answer is stored, in the       *)
(* transaction that makes the run SUCCEEDED or on its own.                 *)
(***************************************************************************)
EXTENDS Naturals, RunStatus

CONSTANT Run

VARIABLES status, answers

rows == <<status, answers>>

Init ==
    /\ status = [r \in Run |-> NoRow]
    /\ answers = [r \in Run |-> 0]

Accept(r) ==
    /\ status[r] = NoRow
    /\ status' = [status EXCEPT ![r] = "PENDING"]
    /\ UNCHANGED answers

Advance(r, target) ==
    /\ status[r] # NoRow
    /\ target \in RunTransitions[status[r]]
    /\ status' = [status EXCEPT ![r] = target]
    /\ UNCHANGED answers

StoreAnswer(r) ==
    /\ status[r] # NoRow
    /\ answers[r] = 0
    /\ answers' = [answers EXCEPT ![r] = 1]
    /\ UNCHANGED status

\* mark_succeeded_with_answer: both at once.
Finish(r) ==
    /\ status[r] = "RUNNING"
    /\ answers[r] = 0
    /\ status' = [status EXCEPT ![r] = "SUCCEEDED"]
    /\ answers' = [answers EXCEPT ![r] = 1]

Next ==
    \E r \in Run :
        \/ Accept(r) \/ StoreAnswer(r) \/ Finish(r)
        \/ \E target \in RunStatuses : Advance(r, target)

Spec == Init /\ [][Next]_rows

=============================================================================
