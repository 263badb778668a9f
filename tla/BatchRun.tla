------------------------------ MODULE BatchRun ------------------------------
(***************************************************************************)
(* The batch route of POST /chat: the handler commits the run with a       *)
(* queued task and sends a Celery message (app/api/routers/chat.py,        *)
(* app/api/runner_gateway.py); a worker executes run_agent_task            *)
(* (app/tasks/agent_tasks.py, app/tasks/run_store.py) around the same      *)
(* orchestrator; the reaper sends stale tasks again (app/tasks/reaper.py). *)
(*                                                                         *)
(* Celery acknowledges late: a message whose worker is lost is delivered   *)
(* again, and a retry sends a new message before the old one is done with. *)
(***************************************************************************)
EXTENDS Orchestrator, FiniteSets

CONSTANTS
    Run,          \* run ids
    Worker,       \* Celery worker processes, one task at a time each
    MaxRetries,   \* _MAX_RETRIES of run_agent_task
    MaxAttempts,  \* max_attempts of the reaper
    MaxCrashes,   \* bound of the model: worker losses in a behaviour
    MaxCopies,    \* bound of the model: waiting messages the reaper adds to
    NoRun,        \* null run id
    NoMessage     \* null message

Message == [run : Run, retries : 0 .. MaxRetries]

ASSUME BatchAssumption ==
    /\ NoRun \notin Run
    /\ NoMessage \notin Message
    /\ {MaxRetries, MaxAttempts, MaxCrashes, MaxCopies} \subseteq Nat

VARIABLES
    ready,      \* copies of each message waiting in the queue
    holding,    \* the unacknowledged message of each worker
    task,       \* task_state.status of each run's task
    attempt,    \* task_state.attempt
    inspecting, \* snapshot items run_once has not looked at: run and attempt
    counting,   \* the run just sent again, its attempt not counted yet
    crashes     \* worker losses so far

vars == <<pc, status, answers, announced, env,
          ready, holding, task, attempt, inspecting, counting, crashes>>

run    == <<pc, status, answers, announced, env>>
broker == <<ready, holding>>
tasks  == <<task, attempt>>
reaper == <<inspecting, counting>>

TaskStatuses == {"NO_ROW", "QUEUED", "ERROR"}

(* Labels of run_agent_task outside orchestrator.run.                       *)
WorkerLabels ==
    { "free", "running", "runningCommit", "build",
      "keepCommit",                        \* mark_run_succeeded
      "report", "lose", "loseCommit",               \* _publish_error
      "retry", "ack" }

Labels == OrchestratorLabels \cup RaisingLabels \cup WorkerLabels

Init ==
    /\ pc = [x \in Worker |-> "free"]
    /\ status = [r \in Run |-> NoRow]
    /\ answers = [r \in Run |-> 0]
    /\ announced = [r \in Run |-> "none"]
    /\ env \in Environments
    /\ ready = [m \in Message |-> 0]
    /\ holding = [x \in Worker |-> NoMessage]
    /\ task = [r \in Run |-> "NO_ROW"]
    /\ attempt = [r \in Run |-> 0]
    /\ inspecting = {}
    /\ counting = NoRun
    /\ crashes = 0

Send(m) == ready' = [ready EXCEPT ![m] = @ + 1]

FirstMessage(r) == [run |-> r, retries |-> 0]

\* enqueue_run raised: the message may have been sent all the same.
SendFails(m) ==
    /\ "redis" \in env
    /\ Send(m) \/ UNCHANGED ready

-----------------------------------------------------------------------------
(* The request handler: run and task rows in one transaction, then the      *)
(* message.  After a failed or interrupted dispatch the rows stay.          *)

Accept(r) ==
    /\ status[r] = NoRow
    /\ status' = [status EXCEPT ![r] = "PENDING"]
    /\ task' = [task EXCEPT ![r] = "QUEUED"]
    /\ \/ Send(FirstMessage(r))
       \/ SendFails(FirstMessage(r))
       \/ "crash" \in env /\ UNCHANGED ready
    /\ UNCHANGED <<pc, answers, announced, env, holding, attempt, reaper, crashes>>

-----------------------------------------------------------------------------
(* The worker.                                                              *)

\* ensure_run finds the row that Accept wrote.
Receive(x, m) ==
    /\ pc[x] = "free"
    /\ ready[m] > 0
    /\ ready' = [ready EXCEPT ![m] = @ - 1]
    /\ holding' = [holding EXCEPT ![x] = m]
    /\ Goto(x, "running")
    /\ UNCHANGED <<store, announced, env, tasks, reaper, crashes>>

(* run_store._update_run: no transition check, errors logged.  A value the  *)
(* row already has is not written again.                                    *)

UpdateRead(x, r, target, commitLabel, next) ==
    /\ \/ status[r] # target /\ Goto(x, commitLabel)
       \/ (status[r] = target \/ "db" \in env) /\ Goto(x, next)
    /\ UNCHANGED <<store, announced, env>>

UpdateCommit(x, r, target, next) ==
    WriteStatus(x, r, target, next) \/ LoseWrite(x, next)

MarkRunRunning(x, r) ==
    \/ pc[x] = "running" /\ UpdateRead(x, r, "RUNNING", "runningCommit", "build")
    \/ pc[x] = "runningCommit" /\ UpdateCommit(x, r, "RUNNING", "build")

\* run_orchestration: build_deps and the agent, then orchestrator.run.
BuildOrchestrator(x) ==
    /\ pc[x] = "build"
    /\ \/ Goto(x, "plan")
       \/ "provider" \in env /\ Goto(x, "report")
    /\ UNCHANGED <<store, announced, env>>

\* orchestrator.run returned a text: mark_run_succeeded, whatever it did.
MarkRunSucceeded(x, r) ==
    \/ pc[x] = "returned" /\ UpdateRead(x, r, "SUCCEEDED", "keepCommit", "ack")
    \/ pc[x] = "keepCommit" /\ UpdateCommit(x, r, "SUCCEEDED", "ack")

(* ProviderRateLimitError goes straight to the retry, and is reported only  *)
(* when the retries are used up; any other exception is reported first.     *)

CanRetry(x) == holding[x].retries < MaxRetries

RateLimited(x) ==
    /\ pc[x] = "raised"
    /\ Goto(x, IF CanRetry(x) THEN "retry" ELSE "report")
    /\ UNCHANGED <<store, announced, env>>

AfterReport(x) == IF CanRetry(x) THEN "retry" ELSE "ack"

\* _publish_error: the ERROR event goes to the Pub/Sub channel of the legacy bus
\* (app/bus/event_bus.py), whose publish raises nothing, and not to the stream
\* that the gateway's subscribers read.
PublishError(x) ==
    /\ pc[x] = "report"
    /\ Goto(x, "lose")
    /\ UNCHANGED <<store, announced, env>>

MarkRunFailed(x, r) ==
    \/ pc[x] = "lose" /\ UpdateRead(x, r, "FAILED", "loseCommit", AfterReport(x))
    \/ pc[x] = "loseCommit" /\ UpdateCommit(x, r, "FAILED", AfterReport(x))

Execute(x) ==
    /\ holding[x] # NoMessage
    /\ LET r == holding[x].run IN
          \/ OrchestratorStep(x, r)
          \/ MarkRunRunning(x, r)   \/ BuildOrchestrator(x)
          \/ MarkRunSucceeded(x, r) \/ RateLimited(x)
          \/ PublishError(x)        \/ MarkRunFailed(x, r)
    /\ UNCHANGED <<broker, tasks, reaper, crashes>>

Successor(m) == [m EXCEPT !.retries = @ + 1]

\* Mutant: the successor starts counting afresh.
RetryForgetsCount(x) ==
    /\ pc[x] = "retry"
    /\ Send([holding[x] EXCEPT !.retries = 0])
    /\ Goto(x, "ack")
    /\ UNCHANGED <<store, announced, env, holding, tasks, reaper, crashes>>

\* self.retry: the successor is sent first.  If that raises, Celery rejects
\* the message, which is then gone like an acknowledged one.
Retry(x) ==
    /\ pc[x] = "retry"
    /\ \/ Send(Successor(holding[x]))
       \/ SendFails(Successor(holding[x]))
    /\ Goto(x, "ack")
    /\ UNCHANGED <<store, announced, env, holding, tasks, reaper, crashes>>

Release(x) ==
    /\ holding' = [holding EXCEPT ![x] = NoMessage]
    /\ Goto(x, "free")
    /\ UNCHANGED <<store, announced, env, tasks, reaper>>

Acknowledge(x) ==
    /\ pc[x] = "ack"
    /\ Release(x)
    /\ UNCHANGED <<ready, crashes>>

WorkerStep(x) ==
    \/ \E m \in Message : Receive(x, m)
    \/ Execute(x) \/ Retry(x) \/ Acknowledge(x)

-----------------------------------------------------------------------------
(* Lost workers and time limits.                                            *)

\* Mutant: the message was acknowledged when it was received.
LoseWorkerAndMessage(x) ==
    /\ "crash" \in env /\ crashes < MaxCrashes
    /\ pc[x] # "free"
    /\ crashes' = crashes + 1
    /\ Release(x)
    /\ UNCHANGED ready

\* task_acks_late and task_reject_on_worker_lost: delivered again.
LoseWorker(x) ==
    /\ "crash" \in env /\ crashes < MaxCrashes
    /\ pc[x] # "free"
    /\ crashes' = crashes + 1
    /\ Send(holding[x])
    /\ Release(x)

\* SoftTimeLimitExceeded while run_coro waits: the coroutine is cancelled and
\* the task goes on in its handler for exceptions.
SoftTimeLimit(x) ==
    /\ "slow" \in env
    /\ pc[x] \in Labels \ {"free", "report", "lose", "loseCommit", "retry", "ack"}
    /\ Goto(x, "report")
    /\ UNCHANGED <<store, announced, env, broker, tasks, reaper, crashes>>

\* The hard limit kills the worker, and task_acks_on_failure_or_timeout has
\* the message acknowledged.
HardTimeLimit(x) ==
    /\ "slow" \in env
    /\ pc[x] # "free"
    /\ Release(x)
    /\ UNCHANGED <<ready, crashes>>

-----------------------------------------------------------------------------
(* PendingRunReaper.run_once on the tasks of batch runs.  No worker updates *)
(* a task row, so a task is stale as soon as it is old.                     *)

ListStaleTasks(stale) ==
    /\ "reaper" \in env
    /\ inspecting = {} /\ counting = NoRun
    /\ stale # {}
    /\ \A r \in stale : task[r] = "QUEUED"
    /\ inspecting' = {[run |-> r, attempt |-> attempt[r]] : r \in stale}
    /\ UNCHANGED <<run, broker, tasks, counting, crashes>>

\* The messages of a run that wait, of any number of retries.
Copies(r) ==
    LET upTo[k \in 0 .. MaxRetries] ==
            ready[[run |-> r, retries |-> k]] + (IF k = 0 THEN 0 ELSE upTo[k - 1])
    IN  upTo[MaxRetries]

\* Mutant: the limit is off by one.
ReenqueueTaskOnceMore(item) ==
    /\ item \in inspecting /\ counting = NoRun
    /\ item.attempt <= MaxAttempts
    /\ Copies(item.run) < MaxCopies
    /\ Send(FirstMessage(item.run))
    /\ counting' = item.run
    /\ inspecting' = inspecting \ {item}
    /\ UNCHANGED <<run, holding, tasks, crashes>>

\* enqueue_run, and the attempt is counted by a transaction after it.
ReenqueueTask(item) ==
    /\ item \in inspecting /\ counting = NoRun
    /\ item.attempt < MaxAttempts
    /\ Copies(item.run) < MaxCopies
    /\ Send(FirstMessage(item.run))
    /\ counting' = item.run
    /\ inspecting' = inspecting \ {item}
    /\ UNCHANGED <<run, holding, tasks, crashes>>

\* Mutant: the attempt is not counted.
CountNothing(r) ==
    /\ counting = r
    /\ counting' = NoRun
    /\ UNCHANGED <<run, broker, tasks, inspecting, crashes>>

CountAttempt(r) ==
    /\ counting = r
    /\ attempt' = [attempt EXCEPT ![r] = @ + 1]
    /\ task' = [task EXCEPT ![r] = "QUEUED"]
    /\ counting' = NoRun
    /\ UNCHANGED <<run, broker, inspecting, crashes>>

\* Mutant: only the task row is written.
ExhaustTaskOnly(item) ==
    /\ item \in inspecting /\ counting = NoRun
    /\ item.attempt >= MaxAttempts
    /\ task' = [task EXCEPT ![item.run] = "ERROR"]
    /\ inspecting' = inspecting \ {item}
    /\ UNCHANGED <<run, broker, attempt, counting, crashes>>

\* mark_failed: run and task in one transaction, no transition check.
ExhaustTask(item) ==
    /\ item \in inspecting /\ counting = NoRun
    /\ item.attempt >= MaxAttempts
    /\ status' = [status EXCEPT ![item.run] = "FAILED"]
    /\ task' = [task EXCEPT ![item.run] = "ERROR"]
    /\ inspecting' = inspecting \ {item}
    /\ UNCHANGED <<pc, answers, announced, env, broker, attempt, counting, crashes>>

\* An error, or the end of the reaper's process, ends run_once.
ReaperAborts ==
    /\ inspecting # {} \/ counting # NoRun
    /\ {"db", "crash"} \cap env # {}
    /\ inspecting' = {} /\ counting' = NoRun
    /\ UNCHANGED <<run, broker, tasks, crashes>>

ReenqueueFails(item) ==
    /\ item \in inspecting /\ counting = NoRun
    /\ item.attempt < MaxAttempts
    /\ Copies(item.run) < MaxCopies
    /\ SendFails(FirstMessage(item.run))
    /\ inspecting' = {}
    /\ UNCHANGED <<run, holding, tasks, counting, crashes>>

ReaperStep ==
    \/ \E stale \in SUBSET Run : ListStaleTasks(stale)
    \/ \E item \in inspecting :
          ReenqueueTask(item) \/ ReenqueueFails(item) \/ ExhaustTask(item)
    \/ \E r \in Run : CountAttempt(r)
    \/ ReaperAborts

-----------------------------------------------------------------------------
Next ==
    \/ \E r \in Run : Accept(r)
    \/ \E x \in Worker : \/ WorkerStep(x) \/ LoseWorker(x)
                         \/ SoftTimeLimit(x) \/ HardTimeLimit(x)
    \/ ReaperStep

Spec == Init /\ [][Next]_vars

(***************************************************************************)
(* Workers go on with what they do and take what waits.  Where "reaper" is *)
(* a condition it is run again and again, a stale task is listed sooner or *)
(* later, and its stores do not fail every time.                           *)
(***************************************************************************)
Fairness ==
    /\ \A x \in Worker : WF_vars(WorkerStep(x))
    /\ \A r \in Run :
          /\ SF_vars(\E stale \in SUBSET Run : r \in stale /\ ListStaleTasks(stale))
          /\ SF_vars(\E item \in inspecting :
                        item.run = r /\ (ReenqueueTask(item) \/ ExhaustTask(item)))
          /\ SF_vars(CountAttempt(r))

FairSpec == Spec /\ Fairness

-----------------------------------------------------------------------------
(* Safety.                                                                  *)

TypeOK ==
    /\ pc \in [Worker -> Labels]
    /\ status \in [Run -> RunStatuses \cup {NoRow}]
    /\ answers \in [Run -> Nat]
    /\ announced \in [Run -> TerminalEvents \cup {"none"}]
    /\ env \in Environments
    /\ ready \in [Message -> Nat]
    /\ holding \in [Worker -> Message \cup {NoMessage}]
    /\ \A x \in Worker : (holding[x] = NoMessage) <=> (pc[x] = "free")
    /\ task \in [Run -> TaskStatuses]
    /\ attempt \in [Run -> 0 .. MaxAttempts]
    /\ inspecting \subseteq [run : Run, attempt : 0 .. MaxAttempts]
    /\ counting \in Run \cup {NoRun}
    /\ crashes \in 0 .. MaxCrashes

\* Nothing of the run is waiting or being executed.
Quiescent(r) ==
    /\ \A m \in Message : m.run = r => ready[m] = 0
    /\ \A x \in Worker : pc[x] # "free" => holding[x].run # r

\* However often a run is delivered, retried and sent again, and however its
\* executions overlap, one answer is stored.
OneAnswer == \A r \in Run : answers[r] <= 1

\* The reaper's attempt counter really bounds the executions it causes: a run
\* is in flight once, and once more for every counted attempt.
CopiesBounded ==
    env \cap {"db", "redis", "crash"} = {} =>
        \A r \in Run :
            Copies(r) + Cardinality({x \in Worker : /\ pc[x] \notin {"free", "ack"}
                                                   /\ holding[x].run = r})
                <= 1 + attempt[r] + (IF counting = r THEN 1 ELSE 0)

\* A worker lost between the commit and the event is made up for by the
\* redelivery: when nothing is left to do for a terminal run, its stream has
\* ended, so nobody waits for it in vain.  An orchestrator that cannot be built
\* is set aside: nothing but the worker's report on the other bus tells of it.
TerminalIsAnnounced ==
    env \cap {"redis", "slow", "reaper", "provider"} = {} =>
        \A r \in Run :
            Quiescent(r) /\ status[r] \in TerminalRunStates => announced[r] # "none"

\* Lost workers, lost dispatches, redeliveries and overlapping executions alone
\* never spoil a run: whoever finishes last leaves it SUCCEEDED with its answer.
\* A failing Redis is set aside with the provider: it refuses a run its quota.
UndisturbedRunSucceeds ==
    env \cap {"db", "redis", "provider", "slow"} = {} =>
        \A r \in Run :
            Quiescent(r) /\ status[r] \notin {NoRow, "PENDING"} /\ task[r] # "ERROR" =>
                status[r] = "SUCCEEDED" /\ HasAnswer(r)

\* A run that has succeeded is not failed afterwards.
SuccessIsKept ==
    [][\A r \in Run : status[r] = "SUCCEEDED" => status'[r] # "FAILED"]_vars

-----------------------------------------------------------------------------
(* Liveness, under FairSpec.                                                *)

\* Every accepted run reaches a terminal status, dispatched or not: the reaper
\* sends it again, and gives up after MaxAttempts.
AcceptedConverges ==
    \A r \in Run :
        (status[r] = "PENDING" /\ "reaper" \in env)
            ~> (status[r] \in TerminalRunStates)

\* ... and rests there, unless a write or an event was lost at the very end:
\* redeliveries, retries and the reaper do not go round for ever.
SettlesForGood ==
    \A r \in Run :
        (status[r] # NoRow /\ "reaper" \in env /\ env \cap {"db", "redis", "slow"} = {})
            ~> [](status[r] \in TerminalRunStates)

=============================================================================
