----------------------------- MODULE Orchestrator -----------------------------
(***************************************************************************)
(* One call of AgentOrchestrator.run (app/runtime/orchestrator.py), with   *)
(* the repository adapters it writes through (app/runtime/adapters.py).    *)
(* The realtime runner and the Celery worker both execute it, so every     *)
(* action takes the execution x that performs it and the run r that x is   *)
(* about.  The specifications that EXTEND this module supply the actors.   *)
(*                                                                         *)
(* A repository call is a transaction that reads the row, checks the       *)
(* transition in Python and commits later; nothing locks the row between   *)
(* the two.  Each is therefore two actions, a Read and a Commit.           *)
(***************************************************************************)
EXTENDS Naturals, RunStatus

CONSTANT
    Environments      \* the sets of conditions a behaviour may be subject to

(***************************************************************************)
(* The conditions:  "db" / "redis": a call to the store may fail, before   *)
(* or after it took effect, and without Redis no provider quota is to be   *)
(* had;  "provider": the model provider, or the quota kept for it, may     *)
(* fail or refuse;  "crash": a process may die;  "stall": heartbeats may come too  *)
(* late, so that a key expires under a live holder;  "slow": a worker task *)
(* may exceed its time limits;  "reaper": somebody runs                    *)
(* PendingRunReaper.run_once from time to time.                            *)
(***************************************************************************)
Conditions == {"db", "redis", "provider", "crash", "stall", "slow", "reaper"}

ASSUME EnvironmentsAssumption == Environments \subseteq SUBSET Conditions

VARIABLES
    pc,         \* where each execution stands
    status,     \* agent_run.status of each run, NoRow before the insert
    answers,    \* number of ASSISTANT messages stored for each run
    announced,  \* first terminal event in the run's stream
    env         \* the conditions of this behaviour, never changed

store == <<status, answers>>

OrchestratorLabels ==
    { "plan", "planCommit", "agent", "answer", "answerCommit", "answerOnly",
      "persist", "succeed", "succeedCommit", "announce", "fail", "failCommit",
      "announceFailed", "returned", "raised" }

\* Labels from which the call goes on to re-raise ProviderRateLimitError are
\* kept apart from those that end in a returned text.
RaisingLabels == { "refuse", "refuseCommit", "announceRefused" }

TerminalEvents == {"ERROR", "SUCCEEDED", "FAILED"}

Goto(x, label) == pc' = [pc EXCEPT ![x] = label]

-----------------------------------------------------------------------------
(* Events.  RUN_COMPLETED (with its status) and ERROR both end a stream, so *)
(* what subscribers see is the first of them that reached the stream.  A    *)
(* publish that fails is logged and swallowed.                              *)

Announce(r, event) ==
    \/ announced' = IF announced[r] = "none"
                    THEN [announced EXCEPT ![r] = event]
                    ELSE announced
    \/ /\ "redis" \in env
       /\ UNCHANGED announced

-----------------------------------------------------------------------------
(* Repository calls.                                                        *)

\* The read half: the row allows the new status and the write is pending.
ReadForWrite(x, r, target, commitLabel) ==
    /\ status[r] # target
    /\ RunTransitionAllowed(status[r], target)
    /\ Goto(x, commitLabel)
    /\ UNCHANGED <<store, announced, env>>

\* The read half: the row already has the status, the transition is refused,
\* or the database failed.  No status is written.
ReadWithoutWrite(x, r, target, refusedLabel, unchangedLabel) ==
    /\ \/ /\ status[r] = target
          /\ Goto(x, unchangedLabel)
       \/ /\ ~RunTransitionAllowed(status[r], target)
          /\ Goto(x, refusedLabel)
       \/ /\ "db" \in env
          /\ Goto(x, refusedLabel)
    /\ UNCHANGED <<store, announced, env>>

\* The commit half writes the status whatever the row holds by now.
WriteStatus(x, r, target, next) ==
    /\ status' = [status EXCEPT ![r] = target]
    /\ Goto(x, next)
    /\ UNCHANGED <<answers, announced, env>>

\* The commit half fails and nothing is written.
LoseWrite(x, next) ==
    /\ "db" \in env
    /\ Goto(x, next)
    /\ UNCHANGED <<store, announced, env>>

-----------------------------------------------------------------------------
(* _execute up to the agent loop: the history read degrades to an empty     *)
(* history on failure, then mark_running_with_plan, failures swallowed.     *)

MarkRunningRead(x, r) ==
    /\ pc[x] = "plan"
    /\ \/ ReadForWrite(x, r, "RUNNING", "planCommit")
       \/ ReadWithoutWrite(x, r, "RUNNING", "agent", "agent")

MarkRunningCommit(x, r) ==
    /\ pc[x] = "planCommit"
    /\ \/ WriteStatus(x, r, "RUNNING", "agent")
       \/ LoseWrite(x, "agent")

(* _run_agent: quota, model loop, settlement.                               *)

\* Mutant: RUN_COMPLETED is published as soon as the text is there.
AgentAnnouncesEarly(x, r) ==
    /\ pc[x] = "agent"
    /\ Announce(r, "SUCCEEDED")
    /\ Goto(x, "answer")
    /\ UNCHANGED <<store, env>>

AgentAnswers(x, r) ==
    /\ pc[x] = "agent"
    /\ Goto(x, "answer")
    /\ UNCHANGED <<store, announced, env>>

\* An ordinary exception in the loop: an ERROR event, then a fallback text.
AgentDegrades(x, r) ==
    /\ pc[x] = "agent"
    /\ "provider" \in env
    /\ Announce(r, "ERROR")
    /\ Goto(x, "answer")
    /\ UNCHANGED <<store, env>>

\* ProviderRateLimitError: the quota gate refuses, a provider answers with 429 or
\* 503, or the limiter's Redis fails, at the gate (UNAVAILABLE) or at settlement.
AgentRefused(x, r) ==
    /\ pc[x] = "agent"
    /\ env \cap {"provider", "redis"} # {}
    /\ Announce(r, "ERROR")
    /\ Goto(x, "refuse")
    /\ UNCHANGED <<store, env>>

\* Recording the provider's error raised: _handle_fatal.
AgentFatal(x, r) ==
    /\ pc[x] = "agent"
    /\ {"provider", "redis"} \subseteq env
    /\ Announce(r, "ERROR")
    /\ Goto(x, "fail")
    /\ UNCHANGED <<store, env>>

-----------------------------------------------------------------------------
(* mark_succeeded_with_answer: message and status in one transaction.  The  *)
(* unique index on (agent_run_id, role) rejects a second ASSISTANT message. *)

\* Mutant: no unique index.
NoUniqueIndex(r) == FALSE

HasAnswer(r) == answers[r] > 0

\* A run that is SUCCEEDED already keeps its status: only the message is new.
AnswerRead(x, r) ==
    /\ pc[x] = "answer"
    /\ \/ /\ status[r] = "SUCCEEDED"
          /\ Goto(x, "answerOnly")
       \/ /\ "SUCCEEDED" \in RunTransitions[status[r]]
          /\ Goto(x, "answerCommit")
       \/ /\ \/ ~RunTransitionAllowed(status[r], "SUCCEEDED")
             \/ "db" \in env
          /\ Goto(x, "persist")
    /\ UNCHANGED <<store, announced, env>>

AnswerCommit(x, r) ==
    /\ pc[x] \in {"answerCommit", "answerOnly"}
    /\ \/ /\ ~HasAnswer(r)
          /\ answers' = [answers EXCEPT ![r] = @ + 1]
          /\ status' = IF pc[x] = "answerCommit"
                       THEN [status EXCEPT ![r] = "SUCCEEDED"]
                       ELSE status
          /\ \/ Goto(x, "announce")
             \/ "db" \in env /\ Goto(x, "persist")
       \/ /\ HasAnswer(r) \/ "db" \in env
          /\ Goto(x, "persist")
          /\ UNCHANGED store
    /\ UNCHANGED <<announced, env>>

\* The fallback: _persist_answer, a transaction of its own, failures logged.
PersistAnswer(x, r) ==
    /\ pc[x] = "persist"
    /\ \/ /\ ~HasAnswer(r)
          /\ answers' = [answers EXCEPT ![r] = @ + 1]
       \/ /\ HasAnswer(r) \/ "db" \in env
          /\ UNCHANGED answers
    /\ Goto(x, "succeed")
    /\ UNCHANGED <<status, announced, env>>

\* ... then mark_succeeded, failures swallowed.
MarkSucceededRead(x, r) ==
    /\ pc[x] = "succeed"
    /\ \/ ReadForWrite(x, r, "SUCCEEDED", "succeedCommit")
       \/ ReadWithoutWrite(x, r, "SUCCEEDED", "announce", "announce")

MarkSucceededCommit(x, r) ==
    /\ pc[x] = "succeedCommit"
    /\ \/ WriteStatus(x, r, "SUCCEEDED", "announce")
       \/ LoseWrite(x, "announce")

\* RUN_COMPLETED says SUCCEEDED whatever the writes before it achieved.
AnnounceSucceeded(x, r) ==
    /\ pc[x] = "announce"
    /\ Announce(r, "SUCCEEDED")
    /\ Goto(x, "returned")
    /\ UNCHANGED <<store, env>>

-----------------------------------------------------------------------------
(* _handle_fatal (returns a text) and _handle_provider_rate_limit (the      *)
(* error is raised again): mark_failed, then RUN_COMPLETED with FAILED.     *)

MarkFailedRead(x, r) ==
    \/ /\ pc[x] = "fail"
       /\ \/ ReadForWrite(x, r, "FAILED", "failCommit")
          \/ ReadWithoutWrite(x, r, "FAILED", "announceFailed", "announceFailed")
    \/ /\ pc[x] = "refuse"
       /\ \/ ReadForWrite(x, r, "FAILED", "refuseCommit")
          \/ ReadWithoutWrite(x, r, "FAILED", "announceRefused", "announceRefused")

MarkFailedCommit(x, r) ==
    \/ /\ pc[x] = "failCommit"
       /\ \/ WriteStatus(x, r, "FAILED", "announceFailed")
          \/ LoseWrite(x, "announceFailed")
    \/ /\ pc[x] = "refuseCommit"
       /\ \/ WriteStatus(x, r, "FAILED", "announceRefused")
          \/ LoseWrite(x, "announceRefused")

AnnounceFailed(x, r) ==
    /\ \/ pc[x] = "announceFailed" /\ Goto(x, "returned")
       \/ pc[x] = "announceRefused" /\ Goto(x, "raised")
    /\ Announce(r, "FAILED")
    /\ UNCHANGED <<store, env>>

-----------------------------------------------------------------------------
OrchestratorStep(x, r) ==
    \/ MarkRunningRead(x, r)   \/ MarkRunningCommit(x, r)
    \/ AgentAnswers(x, r)      \/ AgentDegrades(x, r)
    \/ AgentRefused(x, r)      \/ AgentFatal(x, r)
    \/ AnswerRead(x, r)        \/ AnswerCommit(x, r)
    \/ PersistAnswer(x, r)
    \/ MarkSucceededRead(x, r) \/ MarkSucceededCommit(x, r)
    \/ AnnounceSucceeded(x, r)
    \/ MarkFailedRead(x, r)    \/ MarkFailedCommit(x, r)
    \/ AnnounceFailed(x, r)

=============================================================================
