--------------------------- MODULE BatchRunProofs ---------------------------
(***************************************************************************)
(* What holds of the batch route for any number of runs and workers, any   *)
(* bounds and any mix of conditions.                                       *)
(***************************************************************************)
EXTENDS BatchRun, FiniteSetTheorems, WellFoundedInduction, TLAPS

-----------------------------------------------------------------------------
(* Type correctness.  That attempts stay within their bound needs more: the *)
(* reaper works from a snapshot, which must not be behind the rows.         *)

\* A snapshot item tells the attempts of its run as they are; the run being
\* counted is not in the snapshot and may be counted once more; a run that is
\* given up has used its attempts; and without a reaper there is no snapshot.
SnapshotInv ==
    /\ \A item \in inspecting : item.attempt = attempt[item.run] /\ item.run # counting
    /\ counting \in Run => attempt[counting] < MaxAttempts
    /\ \A r \in Run : task[r] = "ERROR" => attempt[r] = MaxAttempts
    /\ "reaper" \notin env => inspecting = {} /\ counting = NoRun

\* Only who may retry is about to.
RetryInv == \A x \in Worker : pc[x] = "retry" => CanRetry(x)

\* A step of the orchestrator moves its execution from one label of the call to
\* another, and keeps the types of what it writes.
LEMMA OrchestratorTypes ==
    ASSUME NEW x \in Worker, NEW r \in Run, TypeOK, OrchestratorStep(x, r)
    PROVE  /\ pc[x] # "free"
           /\ \E label \in Labels \ {"free", "retry"} : Goto(x, label)
           /\ status' \in [Run -> RunStatuses \cup {NoRow}]
           /\ answers' \in [Run -> Nat]
           /\ announced' \in [Run -> TerminalEvents \cup {"none"}]
           /\ env' = env
<1> USE DEF TypeOK, Labels, OrchestratorLabels, RaisingLabels, RunStatuses,
            TerminalEvents, Goto, store
<1>1. CASE MarkRunningRead(x, r)
  BY <1>1 DEF MarkRunningRead, ReadForWrite, ReadWithoutWrite
<1>2. CASE MarkRunningCommit(x, r)
  BY <1>2 DEF MarkRunningCommit, WriteStatus, LoseWrite
<1>3. CASE AgentAnswers(x, r)
  BY <1>3 DEF AgentAnswers
<1>4. CASE AgentDegrades(x, r) \/ AgentRefused(x, r) \/ AgentFatal(x, r)
  BY <1>4 DEF AgentDegrades, AgentRefused, AgentFatal, Announce
<1>5. CASE AnswerRead(x, r)
  BY <1>5 DEF AnswerRead
<1>6. CASE AnswerCommit(x, r)
  <2>1. /\ pc[x] \in {"answerCommit", "answerOnly"}
        /\ Goto(x, "announce") \/ Goto(x, "persist")
        /\ UNCHANGED <<announced, env>>
    BY <1>6 DEF AnswerCommit
  <2>2. \/ UNCHANGED store
        \/ answers' = [answers EXCEPT ![r] = @ + 1]
           /\ status' \in {status, [status EXCEPT ![r] = "SUCCEEDED"]}
    BY <1>6 DEF AnswerCommit
  <2>3. answers' \in [Run -> Nat] /\ status' \in [Run -> RunStatuses \cup {NoRow}]
    BY <2>2
  <2>4. QED
    BY <2>1, <2>3
<1>7. CASE PersistAnswer(x, r)
  <2>1. answers' \in [Run -> Nat]
    BY <1>7 DEF PersistAnswer
  <2>2. QED
    BY <1>7, <2>1 DEF PersistAnswer
<1>8. CASE MarkSucceededRead(x, r)
  BY <1>8 DEF MarkSucceededRead, ReadForWrite, ReadWithoutWrite
<1>9. CASE MarkSucceededCommit(x, r)
  BY <1>9 DEF MarkSucceededCommit, WriteStatus, LoseWrite
<1>10. CASE AnnounceSucceeded(x, r)
  BY <1>10 DEF AnnounceSucceeded, Announce
<1>11. CASE MarkFailedRead(x, r)
  BY <1>11 DEF MarkFailedRead, ReadForWrite, ReadWithoutWrite
<1>12. CASE MarkFailedCommit(x, r)
  BY <1>12 DEF MarkFailedCommit, WriteStatus, LoseWrite
<1>13. CASE AnnounceFailed(x, r)
  BY <1>13 DEF AnnounceFailed, Announce
<1>14. QED
  BY <1>1, <1>2, <1>3, <1>4, <1>5, <1>6, <1>7, <1>8, <1>9, <1>10, <1>11,
     <1>12, <1>13 DEF OrchestratorStep

\* So does everything else a worker executes.
LEMMA ExecuteTypes ==
    ASSUME NEW x \in Worker, TypeOK, Execute(x)
    PROVE  /\ pc[x] # "free" /\ holding[x].run \in Run
           /\ \E label \in Labels \ {"free"} :
                 Goto(x, label) /\ (label = "retry" => CanRetry(x))
           /\ status' \in [Run -> RunStatuses \cup {NoRow}]
           /\ answers' \in [Run -> Nat]
           /\ announced' \in [Run -> TerminalEvents \cup {"none"}]
           /\ env' = env
<1> DEFINE r == holding[x].run
<1>1. pc[x] # "free" /\ r \in Run
  BY DEF Execute, TypeOK, Message
<1>2. CASE OrchestratorStep(x, r)
  <2>1. \E label \in Labels \ {"free", "retry"} : Goto(x, label)
    BY <1>1, <1>2, OrchestratorTypes
  <2>2. QED
    BY <1>1, <1>2, <2>1, OrchestratorTypes
<1>3. CASE \/ MarkRunRunning(x, r)   \/ BuildOrchestrator(x)
           \/ MarkRunSucceeded(x, r) \/ RateLimited(x)
           \/ PublishError(x)        \/ MarkRunFailed(x, r)
  <2> USE DEF TypeOK, Goto, store
  <2>1. {"RUNNING", "SUCCEEDED", "FAILED"} \subseteq RunStatuses
    BY DEF RunStatuses
  <2>2. {"runningCommit", "build", "plan", "report", "keepCommit", "ack", "retry", "lose",
         "loseCommit"} \subseteq Labels \ {"free"}
    BY DEF Labels, OrchestratorLabels, WorkerLabels
  <2>3. CASE MarkRunRunning(x, r)
    BY <1>1, <2>1, <2>2, <2>3
       DEF MarkRunRunning, UpdateRead, UpdateCommit, WriteStatus, LoseWrite
  <2>4. CASE BuildOrchestrator(x) \/ RateLimited(x) \/ PublishError(x)
    BY <1>1, <2>2, <2>4 DEF BuildOrchestrator, RateLimited, PublishError
  <2>5. CASE MarkRunSucceeded(x, r)
    BY <1>1, <2>1, <2>2, <2>5
       DEF MarkRunSucceeded, UpdateRead, UpdateCommit, WriteStatus, LoseWrite
  <2>6. CASE MarkRunFailed(x, r)
    <3>1. \/ AfterReport(x) = "retry" /\ CanRetry(x)
          \/ AfterReport(x) = "ack"
      BY DEF AfterReport
    <3>2. QED
      BY <1>1, <2>1, <2>2, <2>6, <3>1
         DEF MarkRunFailed, UpdateRead, UpdateCommit, WriteStatus, LoseWrite
  <2>7. QED
    BY <1>3, <2>3, <2>4, <2>5, <2>6
<1>4. QED
  BY <1>1, <1>2, <1>3 DEF Execute

\* Sending adds a copy.
LEMMA SendType ==
    ASSUME TypeOK, NEW m \in Message, Send(m) \/ SendFails(m)
    PROVE  /\ ready' \in [Message -> Nat]
           /\ \A n \in Message : ready'[n] >= ready[n]
BY DEF TypeOK, Send, SendFails

LEMMA ReaperTypes ==
    ASSUME TypeOK, SnapshotInv, ReaperStep
    PROVE  TypeOK' /\ SnapshotInv'
<1> USE BatchAssumption DEF run, store, broker, tasks
<1>1. ASSUME NEW stale \in SUBSET Run, ListStaleTasks(stale)
      PROVE  TypeOK' /\ SnapshotInv'
  <2>1. inspecting' \subseteq [run : Run, attempt : 0 .. MaxAttempts]
    BY <1>1 DEF ListStaleTasks, TypeOK
  <2>2. TypeOK'
    BY <1>1, <2>1 DEF ListStaleTasks, TypeOK
  <2>3. SnapshotInv'
    BY <1>1 DEF ListStaleTasks, TypeOK, SnapshotInv
  <2>4. QED
    BY <2>2, <2>3
<1>2. ASSUME NEW item \in inspecting, ReenqueueTask(item) \/ ReenqueueFails(item)
      PROVE  TypeOK' /\ SnapshotInv'
  <2>1. item.run \in Run /\ FirstMessage(item.run) \in Message
    BY DEF TypeOK, FirstMessage, Message
  <2>2. ready' \in [Message -> Nat]
    BY <1>2, <2>1, SendType DEF ReenqueueTask, ReenqueueFails
  <2>3. TypeOK'
    BY <1>2, <2>1, <2>2 DEF ReenqueueTask, ReenqueueFails, TypeOK
  <2>4. \A other \in inspecting : other.run = item.run => other = item
    BY DEF TypeOK, SnapshotInv
  <2>5. SnapshotInv'
    BY <1>2, <2>1, <2>4 DEF ReenqueueTask, ReenqueueFails, TypeOK, SnapshotInv
  <2>6. QED
    BY <2>3, <2>5
<1>3. ASSUME NEW item \in inspecting, ExhaustTask(item)
      PROVE  TypeOK' /\ SnapshotInv'
  <2>1. item.run \in Run /\ item.attempt = attempt[item.run]
    BY DEF TypeOK, SnapshotInv
  <2>2. attempt[item.run] = MaxAttempts
    BY <1>3, <2>1 DEF ExhaustTask, TypeOK
  <2>3. TypeOK'
    BY <1>3, <2>1 DEF ExhaustTask, TypeOK, RunStatuses, TaskStatuses
  <2>4. SnapshotInv'
    BY <1>3, <2>1, <2>2 DEF ExhaustTask, TypeOK, SnapshotInv
  <2>5. QED
    BY <2>3, <2>4
<1>4. ASSUME NEW r \in Run, CountAttempt(r)
      PROVE  TypeOK' /\ SnapshotInv'
  <2>1. attempt[r] + 1 \in 0 .. MaxAttempts
    BY <1>4 DEF CountAttempt, TypeOK, SnapshotInv
  <2>2. TypeOK'
    BY <1>4, <2>1 DEF CountAttempt, TypeOK, TaskStatuses
  <2>3. SnapshotInv'
    BY <1>4 DEF CountAttempt, TypeOK, SnapshotInv
  <2>4. QED
    BY <2>2, <2>3
<1>5. CASE ReaperAborts
  BY <1>5 DEF ReaperAborts, TypeOK, SnapshotInv
<1>6. QED
  BY <1>1, <1>2, <1>3, <1>4, <1>5 DEF ReaperStep

\* Who leaves the reaper and the task rows alone keeps the snapshot.
LEMMA OthersKeepSnapshot ==
    ASSUME SnapshotInv, UNCHANGED <<env, tasks, reaper>>
    PROVE  SnapshotInv'
BY DEF SnapshotInv, tasks, reaper

LEMMA WorkerTypes ==
    ASSUME NEW x \in Worker, TypeOK, RetryInv,
           WorkerStep(x) \/ LoseWorker(x) \/ SoftTimeLimit(x) \/ HardTimeLimit(x)
    PROVE  TypeOK' /\ RetryInv' /\ UNCHANGED <<env, tasks, reaper>>
<1> USE BatchAssumption DEF store, broker, tasks, reaper
<1>1. CASE \E m \in Message : Receive(x, m)
  <2> SUFFICES ASSUME NEW m \in Message, Receive(x, m)
               PROVE  TypeOK' /\ RetryInv' /\ UNCHANGED <<env, tasks, reaper>>
    BY <1>1
  <2>1. ready[m] - 1 \in Nat
    BY DEF Receive, TypeOK
  <2>2. "running" \in Labels \ {"free"}
    BY DEF Labels, WorkerLabels
  <2>3. QED
    BY <2>1, <2>2 DEF Receive, TypeOK, RetryInv, CanRetry, Goto
<1>2. CASE Execute(x)
  <2>1. PICK label \in Labels \ {"free"} :
           Goto(x, label) /\ (label = "retry" => CanRetry(x))
    BY <1>2, ExecuteTypes
  <2>2. /\ pc' \in [Worker -> Labels]
        /\ \A y \in Worker : (pc'[y] = "free") <=> (pc[y] = "free")
    BY <1>2, <2>1, ExecuteTypes DEF TypeOK, Goto
  <2>3. QED
    BY <1>2, <2>1, <2>2, ExecuteTypes DEF Execute, TypeOK, RetryInv, CanRetry, Goto
<1>3. CASE Retry(x)
  <2>1. holding[x] \in Message /\ holding[x].retries < MaxRetries
    BY <1>3 DEF Retry, TypeOK, RetryInv, CanRetry
  <2>2. Successor(holding[x]) \in Message
    BY <2>1 DEF Successor, Message
  <2>3. ready' \in [Message -> Nat] /\ "ack" \in Labels \ {"free"}
    BY <1>3, <2>2, SendType DEF Retry, Labels, WorkerLabels
  <2>4. QED
    BY <1>3, <2>3 DEF Retry, TypeOK, RetryInv, CanRetry, Goto
<1>4. CASE Acknowledge(x) \/ LoseWorker(x) \/ HardTimeLimit(x)
  <2>1. "free" \in Labels
    BY DEF Labels, WorkerLabels
  <2>2. pc[x] # "free" => holding[x] \in Message
    BY DEF TypeOK
  <2>3. ready' \in [Message -> Nat] /\ crashes' \in 0 .. MaxCrashes
    BY <1>4, <2>2, SendType DEF Acknowledge, LoseWorker, HardTimeLimit, TypeOK
  <2>4. Release(x) /\ pc[x] # "free"
    BY <1>4 DEF Acknowledge, LoseWorker, HardTimeLimit
  <2>5. QED
    BY <2>1, <2>3, <2>4 DEF Release, TypeOK, RetryInv, CanRetry, Goto
<1>5. CASE SoftTimeLimit(x)
  <2>1. "report" \in Labels \ {"free"}
    BY DEF Labels, WorkerLabels
  <2>2. QED
    BY <1>5, <2>1 DEF SoftTimeLimit, TypeOK, RetryInv, CanRetry, Goto
<1>6. QED
  BY <1>1, <1>2, <1>3, <1>4, <1>5 DEF WorkerStep

LEMMA AcceptTypes ==
    ASSUME NEW r \in Run, TypeOK, SnapshotInv, Accept(r)
    PROVE  TypeOK' /\ SnapshotInv'
<1>1. FirstMessage(r) \in Message
  BY BatchAssumption DEF FirstMessage, Message
<1>2. ready' \in [Message -> Nat]
  BY <1>1, SendType DEF Accept, TypeOK
<1>3. TypeOK'
  BY <1>2 DEF Accept, TypeOK, RunStatuses, TaskStatuses, reaper
<1>4. SnapshotInv'
  BY DEF Accept, TypeOK, SnapshotInv, reaper
<1>5. QED
  BY <1>3, <1>4

TypeInv == TypeOK /\ SnapshotInv /\ RetryInv

LEMMA TypeInductive == TypeInv /\ [Next]_vars => TypeInv'
<1> SUFFICES ASSUME TypeInv, [Next]_vars PROVE TypeInv'
  OBVIOUS
<1>1. CASE \E r \in Run : Accept(r)
  BY <1>1, AcceptTypes DEF Accept, TypeInv, RetryInv, CanRetry
<1>2. CASE \E x \in Worker : \/ WorkerStep(x) \/ LoseWorker(x)
                             \/ SoftTimeLimit(x) \/ HardTimeLimit(x)
  BY <1>2, WorkerTypes, OthersKeepSnapshot DEF TypeInv
<1>3. CASE ReaperStep
  <2>1. UNCHANGED <<pc, holding>>
    BY <1>3 DEF ReaperStep, ListStaleTasks, ReenqueueTask, ReenqueueFails, ExhaustTask,
                CountAttempt, ReaperAborts, run, broker
  <2>2. QED
    BY <1>3, <2>1, ReaperTypes DEF TypeInv, RetryInv, CanRetry
<1>4. CASE UNCHANGED vars
  BY <1>4 DEF vars, TypeInv, TypeOK, SnapshotInv, RetryInv, CanRetry
<1>5. QED
  BY <1>1, <1>2, <1>3, <1>4 DEF Next

LEMMA InitTypes == Init => TypeInv
BY BatchAssumption
   DEF Init, TypeInv, TypeOK, SnapshotInv, RetryInv, Labels, WorkerLabels, TaskStatuses

\* Every variable keeps its type; in particular no task is sent again more often
\* than the reaper's max_attempts, whatever its process does between the sending
\* and the counting, and no message is retried beyond max_retries.
THEOREM TypeCorrect == Spec => []TypeOK
<1>1. TypeInv => TypeOK
  BY DEF TypeInv
<1>2. QED
  BY <1>1, InitTypes, TypeInductive, PTL DEF Spec

-----------------------------------------------------------------------------
(* Answers.  Every insert is guarded by the unique index, and no other step  *)
(* touches the messages.                                                     *)

LEMMA ExecuteStores ==
    ASSUME NEW x \in Worker, TypeOK, OneAnswer, Execute(x)
    PROVE  OneAnswer'
<1> DEFINE r == holding[x].run
<1>1. r \in Run
  BY ExecuteTypes
<1>2. CASE AnswerCommit(x, r)
  BY <1>1, <1>2 DEF AnswerCommit, HasAnswer, OneAnswer, TypeOK, store
<1>3. CASE PersistAnswer(x, r)
  BY <1>1, <1>3 DEF PersistAnswer, HasAnswer, OneAnswer, TypeOK
<1>4. ASSUME UNCHANGED answers PROVE OneAnswer'
  BY <1>4 DEF OneAnswer
<1>5. QED
  BY <1>2, <1>3, <1>4
     DEF Execute, OrchestratorStep, MarkRunningRead, MarkRunningCommit, AgentAnswers,
         AgentDegrades, AgentRefused, AgentFatal, AnswerRead, MarkSucceededRead,
         MarkSucceededCommit, AnnounceSucceeded, MarkFailedRead, MarkFailedCommit,
         AnnounceFailed, ReadForWrite, ReadWithoutWrite, WriteStatus, LoseWrite, store,
         MarkRunRunning, BuildOrchestrator, MarkRunSucceeded, RateLimited, PublishError,
         MarkRunFailed, UpdateRead, UpdateCommit

\* Only what a worker executes stores messages.
LEMMA OthersStoreNothing ==
    ASSUME [Next]_vars, ~ \E x \in Worker : Execute(x)
    PROVE  UNCHANGED answers
<1>1. ASSUME NEW x \in Worker, \/ WorkerStep(x) \/ LoseWorker(x)
                                \/ SoftTimeLimit(x) \/ HardTimeLimit(x)
      PROVE  UNCHANGED answers
  BY <1>1 DEF WorkerStep, Receive, Retry, Acknowledge, LoseWorker, SoftTimeLimit,
              HardTimeLimit, Release, store
<1>2. CASE (\E r \in Run : Accept(r)) \/ ReaperStep \/ UNCHANGED vars
  BY <1>2 DEF Accept, ReaperStep, ListStaleTasks, ReenqueueTask, ReenqueueFails,
              ExhaustTask, CountAttempt, ReaperAborts, vars, run
<1>3. QED
  BY <1>1, <1>2 DEF Next

\* However often a run is delivered, retried and sent again, and however its
\* executions overlap, one answer is stored.
THEOREM AnswersUnique == Spec => []OneAnswer
<1>1. Init => OneAnswer
  BY DEF Init, OneAnswer
<1>2. TypeOK /\ OneAnswer /\ [Next]_vars => OneAnswer'
  <2> SUFFICES ASSUME TypeOK, OneAnswer, [Next]_vars PROVE OneAnswer'
    OBVIOUS
  <2>1. CASE \E x \in Worker : Execute(x)
    BY <2>1, ExecuteStores
  <2>2. CASE ~ \E x \in Worker : Execute(x)
    BY <2>2, OthersStoreNothing DEF OneAnswer
  <2>3. QED
    BY <2>1, <2>2
<1>3. QED
  BY <1>1, <1>2, TypeCorrect, PTL DEF Spec

-----------------------------------------------------------------------------
(* A worker that no provider and no time limit disturbs: where it may be,   *)
(* and what one of its steps does to the rows and the events of its run.    *)

QuietLabels ==
    { "free", "running", "runningCommit", "build", "plan", "planCommit", "agent",
      "answer", "answerCommit", "answerOnly", "persist", "succeed", "succeedCommit",
      "announce", "returned", "keepCommit", "ack" }

\* Where the answer is stored, and where the end is announced.
StoredLabels == {"succeed", "succeedCommit", "announce", "returned", "keepCommit"}

AnnouncedLabels == {"returned", "keepCommit", "ack"}

QuietStep(x, r) ==
    /\ \E label \in QuietLabels \ {"free"} : Goto(x, label)
    /\ \/ UNCHANGED status
       \/ \E target \in {"RUNNING", "SUCCEEDED"} :
             status' = [status EXCEPT ![r] = target]
    /\ \A q \in Run : HasAnswer(q) => HasAnswer(q)'
    /\ \A q \in Run : announced[q] # "none" => announced'[q] # "none"

\* With a database that never fails, labels and statuses tell of the answer,
StoresFirst(x, r) ==
    pc[x] \in StoredLabels \/ status[r] = "SUCCEEDED" => HasAnswer(r)

\* and with a Redis that never fails, labels tell of the event.
AnnouncesFirst(x, r) ==
    pc[x] \in AnnouncedLabels => announced[r] # "none"

LEMMA QuietExecution ==
    ASSUME NEW x \in Worker, NEW r \in Run, r = holding[x].run,
           TypeOK, Execute(x), pc[x] \in QuietLabels, env \cap {"provider", "redis"} = {}
    PROVE  /\ QuietStep(x, r)
           /\ AnnouncesFirst(x, r) => AnnouncesFirst(x, r)'
           /\ ("db" \notin env /\ StoresFirst(x, r))
                 => StoresFirst(x, r)' /\ (pc'[x] = "ack" => status'[r] = "SUCCEEDED")
<1> USE DEF QuietStep, StoresFirst, AnnouncesFirst, QuietLabels, StoredLabels,
            AnnouncedLabels, TypeOK, Goto, store, HasAnswer
<1>1. CASE MarkRunningRead(x, r) \/ MarkRunningCommit(x, r)
  BY <1>1 DEF MarkRunningRead, MarkRunningCommit, ReadForWrite, ReadWithoutWrite,
              WriteStatus, LoseWrite
<1>2. CASE AgentAnswers(x, r)
  BY <1>2 DEF AgentAnswers
<1>3. CASE AnswerRead(x, r)
  BY <1>3 DEF AnswerRead
<1>4. CASE AnswerCommit(x, r)
  <2>1. \/ ~HasAnswer(r) /\ answers' = [answers EXCEPT ![r] = @ + 1]
           /\ status' \in {status, [status EXCEPT ![r] = "SUCCEEDED"]}
        \/ UNCHANGED store /\ (HasAnswer(r) \/ "db" \in env)
           /\ Goto(x, "persist")
    BY <1>4 DEF AnswerCommit
  <2>2. /\ \A q \in Run : HasAnswer(q) => HasAnswer(q)'
        /\ ~(UNCHANGED store) => HasAnswer(r)'
    BY <2>1
  <2>3. /\ Goto(x, "announce") \/ Goto(x, "persist")
        /\ UNCHANGED <<announced, env>>
        /\ Goto(x, "announce") => HasAnswer(r)'
    BY <1>4, <2>2 DEF AnswerCommit
  <2>4. UNCHANGED status \/ status' = [status EXCEPT ![r] = "SUCCEEDED"]
    BY <2>1
  <2>5. QED
    BY <2>1, <2>2, <2>3, <2>4
<1>5. CASE PersistAnswer(x, r)
  <2>1. \/ ~HasAnswer(r) /\ answers' = [answers EXCEPT ![r] = @ + 1]
        \/ UNCHANGED answers /\ (HasAnswer(r) \/ "db" \in env)
    BY <1>5 DEF PersistAnswer
  <2>2. /\ \A q \in Run : HasAnswer(q) => HasAnswer(q)'
        /\ "db" \notin env => HasAnswer(r)'
    BY <2>1
  <2>3. Goto(x, "succeed") /\ UNCHANGED <<status, announced, env>>
    BY <1>5 DEF PersistAnswer
  <2>4. QED
    BY <2>2, <2>3
<1>6. CASE MarkSucceededRead(x, r) \/ MarkSucceededCommit(x, r)
  BY <1>6 DEF MarkSucceededRead, MarkSucceededCommit, ReadForWrite, ReadWithoutWrite,
              WriteStatus, LoseWrite
<1>7. CASE AnnounceSucceeded(x, r)
  BY <1>7 DEF AnnounceSucceeded, Announce
<1>8. CASE MarkRunRunning(x, r)
  BY <1>8 DEF MarkRunRunning, UpdateRead, UpdateCommit, WriteStatus, LoseWrite
<1>9. CASE BuildOrchestrator(x)
  BY <1>9 DEF BuildOrchestrator
<1>10. CASE MarkRunSucceeded(x, r)
  BY <1>10 DEF MarkRunSucceeded, UpdateRead, UpdateCommit, WriteStatus, LoseWrite
<1>11. ~ \/ AgentDegrades(x, r) \/ AgentRefused(x, r) \/ AgentFatal(x, r)
         \/ MarkFailedRead(x, r) \/ MarkFailedCommit(x, r) \/ AnnounceFailed(x, r)
         \/ RateLimited(x) \/ PublishError(x) \/ MarkRunFailed(x, r)
  BY DEF AgentDegrades, AgentRefused, AgentFatal, MarkFailedRead, MarkFailedCommit,
         AnnounceFailed, RateLimited, PublishError, MarkRunFailed
<1>12. QED
  BY <1>1, <1>2, <1>3, <1>4, <1>5, <1>6, <1>7, <1>8, <1>9, <1>10, <1>11
     DEF Execute, OrchestratorStep

-----------------------------------------------------------------------------
(* What is on its way: a message that waits, or a worker that is not done.  *)

Waiting(r) == \E m \in Message : m.run = r /\ ready[m] > 0

Executing(r) == \E x \in Worker : pc[x] \notin {"free", "ack"} /\ holding[x].run = r

InFlight(r) == Waiting(r) \/ Executing(r)

LEMMA QuiescentMeansDone ==
    ASSUME TypeOK, NEW r \in Run, Quiescent(r)
    PROVE  ~InFlight(r)
BY DEF Quiescent, InFlight, Waiting, Executing, TypeOK

\* A quiet execution goes on, or is done with its run.
LEMMA ExecutionInFlight ==
    ASSUME TypeOK, NEW x \in Worker, Execute(x), NEW r \in Run, InFlight(r),
           NEW own \in Run, own = holding[x].run, QuietStep(x, own)
    PROVE  InFlight(r)' \/ (r = own /\ pc'[x] = "ack")
<1>1. ready' = ready /\ holding' = holding
  BY DEF Execute, broker
<1>2. PICK label \in QuietLabels \ {"free"} : pc' = [pc EXCEPT ![x] = label]
  BY DEF QuietStep, Goto
<1>3. CASE Waiting(r)
  BY <1>1, <1>3 DEF Waiting, InFlight
<1>4. CASE Executing(r)
  <2>1. PICK y \in Worker : pc[y] \notin {"free", "ack"} /\ holding[y].run = r
    BY <1>4 DEF Executing
  <2>2. CASE y = x
    BY <1>1, <1>2, <2>1, <2>2 DEF TypeOK, Executing, InFlight
  <2>3. CASE y # x
    BY <1>1, <1>2, <2>1, <2>3 DEF TypeOK, Executing, InFlight
  <2>4. QED
    BY <2>2, <2>3
<1>5. QED
  BY <1>3, <1>4 DEF InFlight

\* A run whose status an execution writes is on its way, if the execution goes on.
LEMMA ExecutionGoesOn ==
    ASSUME TypeOK, NEW x \in Worker, Execute(x), NEW r \in Run, r = holding[x].run,
           QuietStep(x, r), pc'[x] # "ack"
    PROVE  InFlight(r)'
<1>1. holding' = holding
  BY DEF Execute, broker
<1>2. pc'[x] # "free"
  BY DEF QuietStep, Goto, TypeOK
<1>3. QED
  BY <1>1, <1>2 DEF InFlight, Executing

\* Receiving a message, or losing the worker that has it, leaves it on its way.
LEMMA DeliveryInFlight ==
    ASSUME TypeOK, NEW x \in Worker, NEW r \in Run, InFlight(r),
           (\E m \in Message : Receive(x, m)) \/ LoseWorker(x) \/ Acknowledge(x)
    PROVE  InFlight(r)'
<1>1. CASE \E m \in Message : Receive(x, m)
  <2>1. PICK m \in Message : Receive(x, m)
    BY <1>1
  <2>2. pc' = [pc EXCEPT ![x] = "running"] /\ holding' = [holding EXCEPT ![x] = m]
        /\ ready' = [ready EXCEPT ![m] = @ - 1] /\ pc[x] = "free"
    BY <2>1 DEF Receive, Goto
  <2>3. CASE m.run = r
    <3>1. pc'[x] = "running" /\ holding'[x] = m
      BY <2>2 DEF TypeOK
    <3>2. QED
      BY <2>3, <3>1 DEF InFlight, Executing
  <2>4. CASE m.run # r
    <3>1. Waiting(r) => Waiting(r)'
      BY <2>2, <2>4 DEF Waiting, TypeOK
    <3>2. Executing(r) => Executing(r)'
      BY <2>2 DEF Executing, TypeOK
    <3>3. QED
      BY <3>1, <3>2 DEF InFlight
  <2>5. QED
    BY <2>3, <2>4
<1>2. CASE LoseWorker(x)
  <2>1. holding[x] \in Message /\ Send(holding[x]) /\ Release(x)
    BY <1>2 DEF LoseWorker, TypeOK
  <2>2. ready'[holding[x]] > 0 /\ \A m \in Message : ready[m] > 0 => ready'[m] > 0
    BY <2>1 DEF Send, TypeOK
  <2>3. Waiting(r) => Waiting(r)'
    BY <2>2 DEF Waiting
  <2>4. ASSUME NEW y \in Worker, pc[y] \notin {"free", "ack"}, holding[y].run = r
        PROVE  InFlight(r)'
    <3>1. CASE y = x
      BY <2>1, <2>2, <2>4, <3>1 DEF InFlight, Waiting
    <3>2. CASE y # x
      BY <2>1, <2>4, <3>2 DEF InFlight, Executing, Release, Goto, TypeOK
    <3>3. QED
      BY <3>1, <3>2
  <2>5. QED
    BY <2>3, <2>4 DEF InFlight, Executing
<1>3. CASE Acknowledge(x)
  <2>1. Waiting(r) => Waiting(r)'
    BY <1>3 DEF Acknowledge, Waiting
  <2>2. Executing(r) => Executing(r)'
    BY <1>3 DEF Acknowledge, Release, Executing, Goto, TypeOK
  <2>3. QED
    BY <2>1, <2>2 DEF InFlight
<1>4. QED
  BY <1>1, <1>2, <1>3

\* Handlers and the reaper only add messages.
LEMMA SendingInFlight ==
    ASSUME TypeOK, NEW r \in Run, InFlight(r),
           UNCHANGED <<pc, holding>>, \A m \in Message : ready'[m] >= ready[m],
           ready' \in [Message -> Nat]
    PROVE  InFlight(r)'
<1>1. Waiting(r) => Waiting(r)'
  BY DEF Waiting, TypeOK
<1>2. Executing(r) => Executing(r)'
  BY DEF Executing
<1>3. QED
  BY <1>1, <1>2 DEF InFlight

-----------------------------------------------------------------------------
(* An undisturbed run succeeds: nothing fails for good, so a run that is    *)
(* not SUCCEEDED, and not given up, is still on its way.                    *)

Calm == env \cap {"db", "redis", "provider", "slow"} = {}

CalmFacts ==
    /\ \A x \in Worker : pc[x] \in QuietLabels
    /\ \A x \in Worker : pc[x] # "free" => StoresFirst(x, holding[x].run)
    /\ \A r \in Run : status[r] = "SUCCEEDED" => HasAnswer(r)
    /\ \A r \in Run : status[r] \notin {NoRow, "PENDING", "SUCCEEDED"} /\ task[r] # "ERROR"
                      => InFlight(r)

CalmInv == Calm => CalmFacts

LEMMA CalmExecution ==
    ASSUME TypeOK, CalmInv, NEW x \in Worker, Execute(x)
    PROVE  CalmInv'
<1> SUFFICES ASSUME Calm' PROVE CalmFacts'
  BY DEF CalmInv
<1> PICK r \in Run : r = holding[x].run
  BY ExecuteTypes
<1>1. UNCHANGED <<env, holding, task>>
  BY ExecuteTypes DEF Execute, broker, tasks
<1>2. Calm /\ env \cap {"provider", "redis"} = {} /\ "db" \notin env
  BY <1>1 DEF Calm
<1>3. pc[x] \in QuietLabels /\ StoresFirst(x, r) /\ pc[x] # "free"
  BY <1>2, ExecuteTypes DEF CalmInv, CalmFacts
<1>4. QuietStep(x, r) /\ StoresFirst(x, r)' /\ (pc'[x] = "ack" => status'[r] = "SUCCEEDED")
  BY <1>1, <1>2, <1>3, QuietExecution
<1>5. PICK label \in QuietLabels \ {"free"} : pc' = [pc EXCEPT ![x] = label]
  BY <1>4 DEF QuietStep, Goto
<1>6. \A q \in Run : /\ HasAnswer(q) => HasAnswer(q)'
                     /\ q # r => status'[q] = status[q]
  BY <1>4 DEF QuietStep, TypeOK
<1>7. \A q \in Run : status'[q] = "SUCCEEDED" => HasAnswer(q)'
  <2>1. status'[r] = "SUCCEEDED" => HasAnswer(r)'
    BY <1>4 DEF StoresFirst
  <2>2. ASSUME NEW q \in Run, q # r, status'[q] = "SUCCEEDED"
        PROVE  HasAnswer(q)'
    BY <1>2, <1>6, <2>2 DEF CalmInv, CalmFacts
  <2>3. QED
    BY <2>1, <2>2
<1>8. \A y \in Worker : pc'[y] \in QuietLabels
  BY <1>2, <1>5 DEF CalmInv, CalmFacts, TypeOK
<1>9. ASSUME NEW y \in Worker, pc'[y] # "free"
      PROVE  StoresFirst(y, holding[y].run)'
  <2>1. CASE y = x
    BY <1>1, <1>4, <2>1
  <2>2. CASE y # x
    <3>1. pc'[y] = pc[y] /\ holding[y].run \in Run
      BY <1>5, <1>9, <2>2 DEF TypeOK, Message
    <3>2. pc[y] \in StoredLabels => HasAnswer(holding[y].run)
      BY <1>2, <1>9, <3>1 DEF CalmInv, CalmFacts, StoresFirst, HasAnswer
    <3>3. QED
      BY <1>1, <1>6, <1>7, <3>1, <3>2 DEF StoresFirst
  <2>3. QED
    BY <2>1, <2>2
<1>10. ASSUME NEW q \in Run, status'[q] \notin {NoRow, "PENDING", "SUCCEEDED"},
              task'[q] # "ERROR"
       PROVE  InFlight(q)'
  <2>1. CASE q = r
    <3>1. pc'[x] # "ack"
      BY <1>4, <1>10, <2>1
    <3>2. InFlight(r)'
      BY <1>4, <3>1, ExecutionGoesOn
    <3>3. QED
      BY <2>1, <3>2
  <2>2. CASE q # r
    <3>1. InFlight(q)
      BY <1>1, <1>2, <1>6, <1>10, <2>2 DEF CalmInv, CalmFacts
    <3>2. QED
      BY <1>4, <2>2, <3>1, ExecutionInFlight
  <2>3. QED
    BY <2>1, <2>2
<1>11. QED
  BY <1>7, <1>8, <1>9, <1>10 DEF CalmFacts

\* Whatever else happens stores no answer, and fails no run but one given up.
LEMMA CalmOthers ==
    ASSUME TypeOK, CalmInv, UNCHANGED <<env, answers>>,
           \A x \in Worker : /\ Calm /\ pc[x] \in QuietLabels => pc'[x] \in QuietLabels
                             /\ pc'[x] \in {"free", "running"} \/ UNCHANGED <<pc[x], holding[x]>>,
           \A r \in Run : \/ status'[r] \in {status[r], "PENDING"}
                          \/ status'[r] = "FAILED" /\ task'[r] = "ERROR",
           \A r \in Run : /\ \/ status'[r] = "PENDING"
                             \/ task'[r] # "ERROR" => task[r] # "ERROR"
                          /\ Calm /\ InFlight(r) => InFlight(r)',
           TypeOK'
    PROVE  CalmInv'
<1> SUFFICES ASSUME Calm' PROVE CalmFacts'
  BY DEF CalmInv
<1>1. Calm
  BY DEF Calm
<1>2. \A r \in Run : HasAnswer(r)' <=> HasAnswer(r)
  BY DEF HasAnswer
<1>3. \A r \in Run : status'[r] = "SUCCEEDED" => HasAnswer(r)'
  BY <1>1, <1>2 DEF CalmInv, CalmFacts
<1>4. ASSUME NEW x \in Worker, pc'[x] # "free"
      PROVE  StoresFirst(x, holding[x].run)'
  <2>1. holding'[x].run \in Run
    BY <1>4 DEF TypeOK, Message
  <2>2. pc'[x] \in StoredLabels => answers'[holding'[x].run] > 0
    <3>1. CASE pc'[x] = "running"
      BY <3>1 DEF StoredLabels
    <3>2. CASE UNCHANGED <<pc[x], holding[x]>>
      BY <1>1, <1>2, <1>4, <2>1, <3>2 DEF CalmInv, CalmFacts, StoresFirst, HasAnswer
    <3>3. QED
      BY <1>4, <3>1, <3>2
  <2>3. QED
    BY <1>3, <2>1, <2>2 DEF StoresFirst, HasAnswer
<1>5. ASSUME NEW r \in Run, status'[r] \notin {NoRow, "PENDING", "SUCCEEDED"},
             task'[r] # "ERROR"
      PROVE  InFlight(r)'
  <2>1. status'[r] = status[r] /\ task[r] # "ERROR"
    BY <1>5
  <2>2. QED
    BY <1>1, <1>5, <2>1 DEF CalmInv, CalmFacts
<1>6. \A x \in Worker : pc'[x] \in QuietLabels
  BY <1>1 DEF CalmInv, CalmFacts
<1>7. QED
  BY <1>3, <1>4, <1>5, <1>6 DEF CalmFacts

LEMMA CalmInductive ==
    ASSUME TypeInv, TypeInv', CalmInv, [Next]_vars
    PROVE  CalmInv'
<1> USE DEF TypeInv
<1>1. ASSUME NEW r \in Run, Accept(r) PROVE CalmInv'
  <2>1. FirstMessage(r) \in Message
    BY BatchAssumption DEF FirstMessage, Message
  <2>2. \A m \in Message : ready'[m] >= ready[m]
    BY <1>1, <2>1, SendType DEF Accept, TypeOK
  <2>3. /\ UNCHANGED <<pc, holding, env, answers>>
        /\ \A q \in Run : \/ status'[q] = "PENDING"
                          \/ UNCHANGED <<status[q], task[q]>>
    BY <1>1 DEF Accept, TypeOK
  <2>4. QED
    BY <2>2, <2>3, SendingInFlight, CalmOthers DEF TypeOK
<1>2. ASSUME NEW x \in Worker, Execute(x) PROVE CalmInv'
  BY <1>2, CalmExecution
<1>3. ASSUME NEW x \in Worker,
             (\E m \in Message : Receive(x, m)) \/ LoseWorker(x) \/ Acknowledge(x)
      PROVE  CalmInv'
  <2>1. /\ UNCHANGED <<status, answers, env, task>>
        /\ Goto(x, "running") \/ Goto(x, "free")
        /\ \A y \in Worker : y # x => holding'[y] = holding[y]
    BY <1>3 DEF Receive, LoseWorker, Acknowledge, Release, TypeOK, store, tasks
  <2>2. \A y \in Worker : pc'[y] \in {pc[y], "running", "free"}
    BY <2>1 DEF Goto, TypeOK
  <2>3. \A y \in Worker :
           pc'[y] \in {"free", "running"} \/ UNCHANGED <<pc[y], holding[y]>>
    BY <2>1 DEF Goto, TypeOK
  <2>4. \A r \in Run : InFlight(r) => InFlight(r)'
    BY <1>3, DeliveryInFlight
  <2>5. QED
    BY <2>1, <2>2, <2>3, <2>4, CalmOthers DEF QuietLabels
<1>4. ASSUME NEW x \in Worker, Retry(x) \/ SoftTimeLimit(x) \/ HardTimeLimit(x)
      PROVE  CalmInv'
  <2>1. ~Calm \/ ~CalmFacts
    BY <1>4 DEF Retry, SoftTimeLimit, HardTimeLimit, Calm, CalmFacts, QuietLabels
  <2>2. Calm' <=> Calm
    BY <1>4 DEF Retry, SoftTimeLimit, HardTimeLimit, Release, Calm
  <2>3. QED
    BY <2>1, <2>2 DEF CalmInv
<1>5. CASE ReaperStep
  <2>1. UNCHANGED <<pc, holding, env, answers>>
    BY <1>5 DEF ReaperStep, ListStaleTasks, ReenqueueTask, ReenqueueFails, ExhaustTask,
                CountAttempt, ReaperAborts, run, broker
  <2>2. \A r \in Run : \/ status'[r] = status[r]
                       \/ status'[r] = "FAILED" /\ task'[r] = "ERROR"
    BY <1>5 DEF ReaperStep, ListStaleTasks, ReenqueueTask, ReenqueueFails, ExhaustTask,
                CountAttempt, ReaperAborts, run, TypeOK
  <2>3. \A r \in Run : task'[r] # "ERROR" => task[r] # "ERROR"
    BY <1>5, BatchAssumption
       DEF ReaperStep, ListStaleTasks, ReenqueueTask, ReenqueueFails, ExhaustTask,
           CountAttempt, ReaperAborts, tasks, TypeOK, SnapshotInv
  <2>4. \A m \in Message : ready'[m] >= ready[m]
    <3>1. ASSUME NEW item \in inspecting, ReenqueueTask(item) \/ ReenqueueFails(item)
          PROVE  \A m \in Message : ready'[m] >= ready[m]
      <4>1. FirstMessage(item.run) \in Message
        BY BatchAssumption DEF TypeOK, FirstMessage, Message
      <4>2. QED
        BY <3>1, <4>1, SendType DEF ReenqueueTask, ReenqueueFails
    <3>2. ready' = ready => \A m \in Message : ready'[m] >= ready[m]
      BY DEF TypeOK
    <3>3. QED
      BY <1>5, <3>1, <3>2
         DEF ReaperStep, ListStaleTasks, ExhaustTask, CountAttempt, ReaperAborts, broker
  <2>5. QED
    BY <2>1, <2>2, <2>3, <2>4, SendingInFlight, CalmOthers DEF TypeOK
<1>6. CASE UNCHANGED vars
  <2>1. UNCHANGED <<pc, holding, env, answers, status, task, ready>>
    BY <1>6 DEF vars
  <2>2. \A m \in Message : ready'[m] >= ready[m]
    BY <2>1 DEF TypeOK
  <2>3. QED
    BY <2>1, <2>2, SendingInFlight, CalmOthers DEF TypeOK
<1>7. QED
  BY <1>1, <1>2, <1>3, <1>4, <1>5, <1>6 DEF Next, WorkerStep

\* Lost workers, redeliveries, retries of the reaper and overlapping executions
\* alone never spoil a run: whoever finishes last leaves it SUCCEEDED with its
\* answer, unless the reaper gave it up.
THEOREM UndisturbedSucceeds == Spec => []UndisturbedRunSucceeds
<1>1. Init => CalmInv
  BY DEF Init, CalmInv, CalmFacts, QuietLabels, NoRow
<1>2. TypeInv /\ CalmInv => UndisturbedRunSucceeds
  <2> SUFFICES ASSUME TypeInv, CalmInv, Calm, NEW r \in Run, Quiescent(r),
                      status[r] \notin {NoRow, "PENDING"}, task[r] # "ERROR"
               PROVE  status[r] = "SUCCEEDED" /\ HasAnswer(r)
    BY DEF UndisturbedRunSucceeds, Calm
  <2>1. ~InFlight(r)
    BY QuiescentMeansDone DEF TypeInv
  <2>2. QED
    BY <2>1 DEF CalmInv, CalmFacts
<1>3. TypeInv /\ TypeInv' /\ CalmInv /\ [Next]_vars => CalmInv'
  BY CalmInductive
<1>4. QED
  BY <1>1, <1>2, <1>3, InitTypes, TypeInductive, PTL DEF Spec

-----------------------------------------------------------------------------
(* A terminal run is announced: events are not lost, and whoever ends a run *)
(* tells of it before its message is acknowledged.                          *)

Heard == env \cap {"redis", "slow", "reaper", "provider"} = {}

HeardFacts ==
    /\ \A x \in Worker : pc[x] \in QuietLabels
    /\ \A x \in Worker : pc[x] # "free" => AnnouncesFirst(x, holding[x].run)
    /\ \A r \in Run : status[r] \in TerminalRunStates => announced[r] # "none" \/ InFlight(r)

HeardInv == Heard => HeardFacts

LEMMA HeardExecution ==
    ASSUME TypeOK, HeardInv, NEW x \in Worker, Execute(x)
    PROVE  HeardInv'
<1> SUFFICES ASSUME Heard' PROVE HeardFacts'
  BY DEF HeardInv
<1> PICK r \in Run : r = holding[x].run
  BY ExecuteTypes
<1>1. UNCHANGED <<env, holding>>
  BY ExecuteTypes DEF Execute, broker
<1>2. Heard /\ env \cap {"provider", "redis"} = {}
  BY <1>1 DEF Heard
<1>3. pc[x] \in QuietLabels /\ AnnouncesFirst(x, r)
  BY <1>2, ExecuteTypes DEF HeardInv, HeardFacts
<1>4. QuietStep(x, r) /\ AnnouncesFirst(x, r)'
  BY <1>1, <1>2, <1>3, QuietExecution
<1>5. PICK label \in QuietLabels \ {"free"} : pc' = [pc EXCEPT ![x] = label]
  BY <1>4 DEF QuietStep, Goto
<1>6. \A q \in Run : /\ announced[q] # "none" => announced'[q] # "none"
                     /\ q # r => status'[q] = status[q]
  BY <1>4 DEF QuietStep, TypeOK
<1>7. pc'[x] = "ack" => announced'[r] # "none"
  BY <1>4 DEF AnnouncesFirst, AnnouncedLabels
<1>8. \A y \in Worker : pc'[y] \in QuietLabels
  BY <1>2, <1>5 DEF HeardInv, HeardFacts, TypeOK
<1>9. ASSUME NEW y \in Worker, pc'[y] # "free"
      PROVE  AnnouncesFirst(y, holding[y].run)'
  <2>1. CASE y = x
    BY <1>1, <1>4, <2>1
  <2>2. CASE y # x
    <3>1. pc'[y] = pc[y] /\ holding[y].run \in Run
      BY <1>5, <1>9, <2>2 DEF TypeOK, Message
    <3>2. pc[y] \in AnnouncedLabels => announced[holding[y].run] # "none"
      BY <1>2, <1>9, <3>1 DEF HeardInv, HeardFacts, AnnouncesFirst
    <3>3. QED
      BY <1>1, <1>6, <3>1, <3>2 DEF AnnouncesFirst
  <2>3. QED
    BY <2>1, <2>2
<1>10. ASSUME NEW q \in Run, status'[q] \in TerminalRunStates
       PROVE  announced'[q] # "none" \/ InFlight(q)'
  <2>1. CASE q = r
    BY <1>4, <1>7, <2>1, ExecutionGoesOn
  <2>2. CASE q # r
    <3>1. announced[q] # "none" \/ InFlight(q)
      BY <1>2, <1>6, <1>10, <2>2 DEF HeardInv, HeardFacts
    <3>2. QED
      BY <1>4, <1>6, <2>2, <3>1, ExecutionInFlight
  <2>3. QED
    BY <2>1, <2>2
<1>11. QED
  BY <1>8, <1>9, <1>10 DEF HeardFacts

\* Whatever else happens ends no run and loses none.
LEMMA HeardOthers ==
    ASSUME TypeOK, HeardInv, UNCHANGED <<env, announced>>,
           \A x \in Worker :
              /\ pc'[x] \in {pc[x], "free", "running"}
              /\ pc'[x] \in {"free", "running"} \/ UNCHANGED <<pc[x], holding[x]>>,
           \A r \in Run : /\ status'[r] \in {status[r], "PENDING"}
                          /\ InFlight(r) => InFlight(r)'
    PROVE  HeardInv'
<1> SUFFICES ASSUME Heard' PROVE HeardFacts'
  BY DEF HeardInv
<1>1. Heard /\ HeardFacts
  BY DEF Heard, HeardInv
<1>2. \A x \in Worker : pc'[x] \in QuietLabels
  BY <1>1 DEF HeardFacts, QuietLabels
<1>3. ASSUME NEW x \in Worker, pc'[x] # "free"
      PROVE  AnnouncesFirst(x, holding[x].run)'
  <2>1. CASE pc'[x] = "running"
    BY <2>1 DEF AnnouncesFirst, AnnouncedLabels
  <2>2. CASE UNCHANGED <<pc[x], holding[x]>>
    BY <1>1, <1>3, <2>2 DEF HeardFacts, AnnouncesFirst
  <2>3. QED
    BY <1>3, <2>1, <2>2
<1>4. \A r \in Run : status'[r] \in TerminalRunStates => announced'[r] # "none" \/ InFlight(r)'
  BY <1>1 DEF HeardFacts, TerminalRunStates
<1>5. QED
  BY <1>2, <1>3, <1>4 DEF HeardFacts

LEMMA HeardInductive ==
    ASSUME TypeInv, HeardInv, [Next]_vars
    PROVE  HeardInv'
<1> USE DEF TypeInv
<1>1. ASSUME NEW r \in Run, Accept(r) PROVE HeardInv'
  <2>1. FirstMessage(r) \in Message
    BY BatchAssumption DEF FirstMessage, Message
  <2>2. \A m \in Message : ready'[m] >= ready[m]
    BY <1>1, <2>1, SendType DEF Accept, TypeOK
  <2>3. /\ UNCHANGED <<pc, holding, env, announced>>
        /\ \A q \in Run : status'[q] \in {status[q], "PENDING"}
    BY <1>1 DEF Accept, TypeOK
  <2>4. ready' \in [Message -> Nat]
    BY <1>1, <2>1, SendType DEF Accept, TypeOK
  <2>5. QED
    BY <2>2, <2>3, <2>4, SendingInFlight, HeardOthers
<1>2. ASSUME NEW x \in Worker, Execute(x) PROVE HeardInv'
  BY <1>2, HeardExecution
<1>3. ASSUME NEW x \in Worker,
             (\E m \in Message : Receive(x, m)) \/ LoseWorker(x) \/ Acknowledge(x)
      PROVE  HeardInv'
  <2>1. /\ UNCHANGED <<status, announced, env>>
        /\ Goto(x, "running") \/ Goto(x, "free")
        /\ \A y \in Worker : y # x => holding'[y] = holding[y]
    BY <1>3 DEF Receive, LoseWorker, Acknowledge, Release, TypeOK, store
  <2>2. \A y \in Worker :
           /\ pc'[y] \in {pc[y], "free", "running"}
           /\ pc'[y] \in {"free", "running"} \/ UNCHANGED <<pc[y], holding[y]>>
    BY <2>1 DEF Goto, TypeOK
  <2>3. \A r \in Run : InFlight(r) => InFlight(r)'
    BY <1>3, DeliveryInFlight
  <2>4. QED
    BY <2>1, <2>2, <2>3, HeardOthers
<1>4. ASSUME NEW x \in Worker, Retry(x) \/ SoftTimeLimit(x) \/ HardTimeLimit(x)
      PROVE  HeardInv'
  <2>1. ~Heard \/ ~HeardFacts
    BY <1>4 DEF Retry, SoftTimeLimit, HardTimeLimit, Heard, HeardFacts, QuietLabels
  <2>2. Heard' <=> Heard
    BY <1>4 DEF Retry, SoftTimeLimit, HardTimeLimit, Release, Heard
  <2>3. QED
    BY <2>1, <2>2 DEF HeardInv
<1>5. CASE ReaperStep
  <2>1. "reaper" \in env
    BY <1>5, BatchAssumption
       DEF ReaperStep, ListStaleTasks, CountAttempt, ReaperAborts, SnapshotInv
  <2>2. env' = env
    BY <1>5 DEF ReaperStep, ListStaleTasks, ReenqueueTask, ReenqueueFails, ExhaustTask,
                CountAttempt, ReaperAborts, run
  <2>3. QED
    BY <2>1, <2>2 DEF HeardInv, Heard
<1>6. CASE UNCHANGED vars
  <2>1. UNCHANGED <<pc, holding, env, announced, status, ready>>
    BY <1>6 DEF vars
  <2>2. \A r \in Run : InFlight(r) => InFlight(r)'
    BY <2>1 DEF InFlight, Waiting, Executing
  <2>3. QED
    BY <2>1, <2>2, HeardOthers
<1>7. QED
  BY <1>1, <1>2, <1>3, <1>4, <1>5, <1>6 DEF Next, WorkerStep

\* A worker lost between the commit and the event is made up for by the
\* redelivery: when nothing is left to do for a terminal run, its stream has
\* ended.
THEOREM TerminalAnnounced == Spec => []TerminalIsAnnounced
<1>1. Init => HeardInv
  BY DEF Init, HeardInv, HeardFacts, QuietLabels, NoRow, TerminalRunStates
<1>2. TypeInv /\ HeardInv => TerminalIsAnnounced
  <2> SUFFICES ASSUME TypeInv, HeardInv, Heard, NEW r \in Run, Quiescent(r),
                      status[r] \in TerminalRunStates
               PROVE  announced[r] # "none"
    BY DEF TerminalIsAnnounced, Heard
  <2>1. ~InFlight(r)
    BY QuiescentMeansDone DEF TypeInv
  <2>2. QED
    BY <2>1 DEF HeardInv, HeardFacts
<1>3. TypeInv /\ HeardInv /\ [Next]_vars => HeardInv'
  BY HeardInductive
<1>4. QED
  BY <1>1, <1>2, <1>3, InitTypes, TypeInductive, PTL DEF Spec

-----------------------------------------------------------------------------
(* Copies.  The messages of a run are counted by a recursive function over  *)
(* the number of retries; what one message more or less does to it is shown *)
(* by induction, with a set in the place of a predicate.                    *)

LEMMA SetInduction ==
    ASSUME NEW S, 0 \in S, \A n \in Nat : n \in S => n + 1 \in S
    PROVE  Nat \subseteq S
<1> SUFFICES ASSUME Nat \ S # {} PROVE FALSE
  OBVIOUS
<1>1. PICK m \in Nat \ S : \A n \in Nat \ S : <<n, m>> \notin OpToRel(<, Nat)
  BY NatLessThanWellFounded, WFMin, Zenon
<1>2. \A n \in Nat \ S : ~ (n < m)
  BY <1>1, Zenon DEF OpToRel
<1>3. m \in Nat /\ m \notin S
  OBVIOUS
<1>4. m # 0 /\ m - 1 \in Nat /\ m - 1 < m /\ (m - 1) + 1 = m
  BY <1>3
<1>5. m - 1 \in S
  BY <1>2, <1>4
<1>6. QED
  BY <1>3, <1>4, <1>5

CountedBy(f, table, r, n) ==
    f = [k \in 0 .. n |->
           table[[run |-> r, retries |-> k]] + (IF k = 0 THEN 0 ELSE f[k - 1])]

Count(table, r) == (CHOOSE f : CountedBy(f, table, r, MaxRetries))[MaxRetries]

LEMMA CopiesCount ==
    ASSUME NEW r
    PROVE  Copies(r) = Count(ready, r)
BY Zenon DEF Copies, Count, CountedBy

LEMMA CountExists ==
    ASSUME NEW table \in [Message -> Nat], NEW r \in Run
    PROVE  \E f : CountedBy(f, table, r, MaxRetries)
<1> DEFINE T == [k \in 0 .. MaxRetries |-> table[[run |-> r, retries |-> k]]]
           P == {n \in Nat : n <= MaxRetries =>
                    \E f \in [0 .. n -> Nat] :
                        \A k \in 0 .. n : f[k] = T[k] + (IF k = 0 THEN 0 ELSE f[k - 1])}
<1>1. MaxRetries \in Nat
  BY BatchAssumption
<1>2. T \in [0 .. MaxRetries -> Nat]
  BY DEF Message
<1>3. \A k \in 0 .. MaxRetries : T[k] = table[[run |-> r, retries |-> k]]
  OBVIOUS
<1> HIDE DEF T
<1>4. 0 \in P
  <2> DEFINE f == [k \in 0 .. 0 |-> T[0]]
  <2>1. T[0] \in Nat
    BY <1>1, <1>2
  <2>2. /\ f \in [0 .. 0 -> Nat]
        /\ \A k \in 0 .. 0 : f[k] = T[k] + (IF k = 0 THEN 0 ELSE f[k - 1])
    BY <2>1
  <2>3. QED
    BY <2>2
<1>5. ASSUME NEW n \in Nat, n \in P PROVE n + 1 \in P
  <2> SUFFICES ASSUME n + 1 <= MaxRetries
               PROVE  \E f \in [0 .. n + 1 -> Nat] :
                          \A k \in 0 .. n + 1 :
                              f[k] = T[k] + (IF k = 0 THEN 0 ELSE f[k - 1])
    OBVIOUS
  <2>1. PICK f \in [0 .. n -> Nat] :
               \A k \in 0 .. n : f[k] = T[k] + (IF k = 0 THEN 0 ELSE f[k - 1])
    BY <1>1, <1>5
  <2> DEFINE g == [k \in 0 .. n + 1 |-> IF k = n + 1 THEN T[n + 1] + f[n] ELSE f[k]]
  <2>2. T[n + 1] \in Nat /\ f[n] \in Nat
    BY <1>1, <1>2
  <2>3. g \in [0 .. n + 1 -> Nat]
    BY <2>2
  <2>4. \A k \in 0 .. n + 1 : g[k] = T[k] + (IF k = 0 THEN 0 ELSE g[k - 1])
    BY <2>1
  <2>5. QED
    BY <2>3, <2>4
<1> HIDE DEF P
<1>6. Nat \subseteq P
  BY <1>4, <1>5, SetInduction
<1>7. PICK f \in [0 .. MaxRetries -> Nat] :
             \A k \in 0 .. MaxRetries : f[k] = T[k] + (IF k = 0 THEN 0 ELSE f[k - 1])
  <2>1. MaxRetries \in P /\ MaxRetries <= MaxRetries
    BY <1>1, <1>6
  <2>2. QED
    BY <2>1, Zenon DEF P
<1>8. CountedBy(f, table, r, MaxRetries)
  BY <1>3, <1>7 DEF CountedBy
<1>9. QED
  BY <1>8

LEMMA CountSteps ==
    ASSUME NEW table \in [Message -> Nat], NEW r \in Run
    PROVE  \E f : /\ Count(table, r) = f[MaxRetries]
                  /\ \A k \in 0 .. MaxRetries :
                        f[k] = table[[run |-> r, retries |-> k]]
                               + (IF k = 0 THEN 0 ELSE f[k - 1])
<1> DEFINE P(f) == CountedBy(f, table, r, MaxRetries)
           f == CHOOSE g : P(g)
<1>1. \E g : P(g)
  BY CountExists
<1> HIDE DEF P
<1>2. P(f)
  BY <1>1, Zenon
<1>3. Count(table, r) = f[MaxRetries]
  BY Zenon DEF Count, P
<1> HIDE DEF f
<1>4. \A k \in 0 .. MaxRetries :
         f[k] = table[[run |-> r, retries |-> k]] + (IF k = 0 THEN 0 ELSE f[k - 1])
  BY <1>2, Zenon DEF P, CountedBy
<1>5. QED
  BY <1>3, <1>4

\* A table in which one message of a run, of j retries, waits once more than in
\* the other; none does, if j is out of bounds.
LEMMA CountMoves ==
    ASSUME NEW table \in [Message -> Nat], NEW other \in [Message -> Nat],
           NEW r \in Run, NEW j \in Nat,
           \A k \in 0 .. MaxRetries :
              other[[run |-> r, retries |-> k]]
                 = table[[run |-> r, retries |-> k]] + (IF k = j THEN 1 ELSE 0)
    PROVE  /\ Count(table, r) \in Nat
           /\ Count(other, r) = Count(table, r) + (IF j <= MaxRetries THEN 1 ELSE 0)
<1> DEFINE T == [k \in 0 .. MaxRetries |-> table[[run |-> r, retries |-> k]]]
           U == [k \in 0 .. MaxRetries |-> other[[run |-> r, retries |-> k]]]
<1>1. MaxRetries \in Nat
  BY BatchAssumption
<1>2. /\ T \in [0 .. MaxRetries -> Nat]
      /\ \A k \in 0 .. MaxRetries : U[k] = T[k] + (IF k = j THEN 1 ELSE 0)
  BY DEF Message
<1>3. PICK f : /\ Count(table, r) = f[MaxRetries]
               /\ \A k \in 0 .. MaxRetries :
                     f[k] = T[k] + (IF k = 0 THEN 0 ELSE f[k - 1])
  BY CountSteps
<1>4. PICK g : /\ Count(other, r) = g[MaxRetries]
               /\ \A k \in 0 .. MaxRetries :
                     g[k] = U[k] + (IF k = 0 THEN 0 ELSE g[k - 1])
  BY CountSteps
<1> HIDE DEF T, U
<1> DEFINE P == {k \in Nat : k <= MaxRetries =>
                    f[k] \in Nat /\ g[k] = f[k] + (IF j <= k THEN 1 ELSE 0)}
<1>5. 0 \in P
  <2>1. f[0] = T[0] /\ g[0] = U[0] /\ T[0] \in Nat /\ U[0] = T[0] + (IF 0 = j THEN 1 ELSE 0)
    BY <1>1, <1>2, <1>3, <1>4
  <2>2. QED
    BY <2>1
<1>6. ASSUME NEW k \in Nat, k \in P PROVE k + 1 \in P
  <2> SUFFICES ASSUME k + 1 <= MaxRetries
               PROVE  /\ f[k + 1] \in Nat
                      /\ g[k + 1] = f[k + 1] + (IF j <= k + 1 THEN 1 ELSE 0)
    OBVIOUS
  <2>1. f[k] \in Nat /\ g[k] = f[k] + (IF j <= k THEN 1 ELSE 0)
    BY <1>1, <1>6
  <2>2. k + 1 \in 0 .. MaxRetries /\ k + 1 # 0 /\ (k + 1) - 1 = k
    BY <1>1
  <2>3. f[k + 1] = T[k + 1] + f[k] /\ g[k + 1] = U[k + 1] + g[k]
    BY <1>3, <1>4, <2>2
  <2>4. T[k + 1] \in Nat /\ U[k + 1] = T[k + 1] + (IF k + 1 = j THEN 1 ELSE 0)
    BY <1>2, <2>2
  <2>5. QED
    BY <2>1, <2>3, <2>4
<1> HIDE DEF P
<1>7. Nat \subseteq P
  BY <1>5, <1>6, SetInduction
<1>8. f[MaxRetries] \in Nat
      /\ g[MaxRetries] = f[MaxRetries] + (IF j <= MaxRetries THEN 1 ELSE 0)
  BY <1>1, <1>7 DEF P
<1>9. QED
  BY <1>3, <1>4, <1>8

LEMMA CountNothingIs ==
    ASSUME NEW r \in Run
    PROVE  Count([m \in Message |-> 0], r) = 0
<1>1. MaxRetries \in Nat
  BY BatchAssumption
<1>2. PICK f : /\ Count([m \in Message |-> 0], r) = f[MaxRetries]
               /\ \A k \in 0 .. MaxRetries : f[k] = 0 + (IF k = 0 THEN 0 ELSE f[k - 1])
  <2> DEFINE none == [m \in Message |-> 0]
  <2>1. \A k \in 0 .. MaxRetries : none[[run |-> r, retries |-> k]] = 0
    BY DEF Message
  <2>2. none \in [Message -> Nat]
    OBVIOUS
  <2> HIDE DEF none
  <2>3. PICK f : /\ Count(none, r) = f[MaxRetries]
                 /\ \A k \in 0 .. MaxRetries :
                       f[k] = none[[run |-> r, retries |-> k]]
                              + (IF k = 0 THEN 0 ELSE f[k - 1])
    BY <2>2, CountSteps
  <2>4. \A k \in 0 .. MaxRetries : f[k] = 0 + (IF k = 0 THEN 0 ELSE f[k - 1])
    BY <2>1, <2>3
  <2>5. QED
    BY <2>3, <2>4, Zenon DEF none
<1> DEFINE P == {k \in Nat : k <= MaxRetries => f[k] = 0}
<1>3. 0 \in P
  BY <1>1, <1>2
<1>4. ASSUME NEW k \in Nat, k \in P PROVE k + 1 \in P
  <2> SUFFICES ASSUME k + 1 <= MaxRetries PROVE f[k + 1] = 0
    OBVIOUS
  <2>1. k + 1 \in 0 .. MaxRetries /\ k + 1 # 0 /\ (k + 1) - 1 = k /\ f[k] = 0
    BY <1>1, <1>4
  <2>2. QED
    BY <1>2, <2>1
<1> HIDE DEF P
<1>5. Nat \subseteq P
  BY <1>3, <1>4, SetInduction
<1>6. QED
  BY <1>1, <1>2, <1>5 DEF P

\* A message sent is one copy more of its run; a message taken is one less.
LEMMA OneCopyMore ==
    ASSUME NEW table \in [Message -> Nat], NEW m \in Message, NEW r \in Run
    PROVE  /\ Count(table, r) \in Nat
           /\ Count([table EXCEPT ![m] = @ + 1], r)
                 = Count(table, r) + (IF m.run = r THEN 1 ELSE 0)
<1> DEFINE other == [table EXCEPT ![m] = @ + 1]
           message(k) == [run |-> r, retries |-> k]
<1>1. MaxRetries \in Nat
  BY BatchAssumption
<1>2. m \in [run : Run, retries : 0 .. MaxRetries]
  BY DEF Message
<1>3. other \in [Message -> Nat]
  OBVIOUS
<1>4. \A k \in 0 .. MaxRetries :
         /\ message(k) \in Message
         /\ message(k) = m <=> m.run = r /\ m.retries = k
  BY <1>2 DEF Message
<1>5. \A k \in 0 .. MaxRetries :
         other[message(k)] = table[message(k)] + (IF message(k) = m THEN 1 ELSE 0)
  BY <1>4
<1> HIDE DEF other, message
<1>6. CASE m.run = r
  <2>1. m.retries \in Nat /\ m.retries <= MaxRetries
    BY <1>1, <1>2
  <2>2. \A k \in 0 .. MaxRetries :
           other[message(k)] = table[message(k)] + (IF k = m.retries THEN 1 ELSE 0)
    BY <1>4, <1>5, <1>6
  <2>3. /\ Count(table, r) \in Nat
        /\ Count(other, r) = Count(table, r) + (IF m.retries <= MaxRetries THEN 1 ELSE 0)
    BY <1>3, <2>1, <2>2, CountMoves DEF message
  <2>4. QED
    BY <1>6, <2>1, <2>3 DEF other
<1>7. CASE m.run # r
  <2>1. MaxRetries + 1 \in Nat /\ ~ (MaxRetries + 1 <= MaxRetries)
    BY <1>1
  <2>2. \A k \in 0 .. MaxRetries :
           other[message(k)] = table[message(k)] + (IF k = MaxRetries + 1 THEN 1 ELSE 0)
    BY <1>1, <1>4, <1>5, <1>7
  <2>3. /\ Count(table, r) \in Nat
        /\ Count(other, r) = Count(table, r) + (IF MaxRetries + 1 <= MaxRetries THEN 1 ELSE 0)
    BY <1>3, <2>1, <2>2, CountMoves DEF message
  <2>4. QED
    BY <1>7, <2>1, <2>3 DEF other
<1>8. QED
  BY <1>6, <1>7

LEMMA SendCopies ==
    ASSUME TypeOK, NEW m \in Message, Send(m), NEW r \in Run
    PROVE  Copies(r) \in Nat /\ Copies(r)' = Copies(r) + (IF m.run = r THEN 1 ELSE 0)
<1>1. ready \in [Message -> Nat] /\ ready' = [ready EXCEPT ![m] = @ + 1]
  BY DEF TypeOK, Send
<1>2. /\ Count(ready, r) \in Nat
      /\ Count(ready', r) = Count(ready, r) + (IF m.run = r THEN 1 ELSE 0)
  BY <1>1, OneCopyMore
<1>3. Copies(r)' = Count(ready', r)
  BY Zenon DEF Copies, Count, CountedBy
<1>4. QED
  BY <1>2, <1>3, CopiesCount

LEMMA TakeCopies ==
    ASSUME TypeOK, NEW m \in Message, ready[m] > 0, ready' = [ready EXCEPT ![m] = @ - 1],
           NEW r \in Run
    PROVE  Copies(r)' \in Nat /\ Copies(r) = Copies(r)' + (IF m.run = r THEN 1 ELSE 0)
<1>1. ready \in [Message -> Nat] /\ ready' \in [Message -> Nat]
  BY DEF TypeOK
<1>2. ready = [ready' EXCEPT ![m] = @ + 1]
  <2>1. \A n \in Message : ready[n] = [ready' EXCEPT ![m] = @ + 1][n]
    BY <1>1
  <2>2. [ready' EXCEPT ![m] = @ + 1] \in [Message -> Nat]
    BY <1>1
  <2>3. QED
    BY <1>1, <2>1, <2>2
<1>3. /\ Count(ready', r) \in Nat
      /\ Count([ready' EXCEPT ![m] = @ + 1], r)
            = Count(ready', r) + (IF m.run = r THEN 1 ELSE 0)
  BY <1>1, OneCopyMore
<1>4. Copies(r)' = Count(ready', r)
  BY Zenon DEF Copies, Count, CountedBy
<1>5. QED
  BY <1>2, <1>3, <1>4, CopiesCount

\* The workers that have not yet sent the successor, or none, of what they hold.
Executions(r) == {x \in Worker : pc[x] \notin {"free", "ack"} /\ holding[x].run = r}

Within(r) ==
    /\ IsFiniteSet(Executions(r))
    /\ Copies(r) + Cardinality(Executions(r))
          <= 1 + attempt[r] + (IF counting = r THEN 1 ELSE 0)

\* Nobody has anything of a run that was not accepted.
Untouched(r) ==
    /\ Copies(r) = 0 /\ task[r] = "NO_ROW" /\ counting # r
    /\ \A x \in Worker : pc[x] # "free" => holding[x].run # r
    /\ \A item \in inspecting : item.run # r

CopiesFacts ==
    \A r \in Run : Within(r) /\ (status[r] = NoRow => Untouched(r))

Lossless == env \cap {"db", "redis", "crash"} = {}

CopiesInv == Lossless => CopiesFacts

LEMMA InitCopies == Init => CopiesInv
<1> SUFFICES ASSUME Init, NEW r \in Run PROVE Within(r) /\ Untouched(r)
  BY DEF CopiesInv, CopiesFacts
<1>1. Copies(r) = 0
  BY CopiesCount, CountNothingIs DEF Init
<1>2. Executions(r) = {}
  BY DEF Init, Executions
<1>3. counting # r /\ attempt[r] = 0 /\ task[r] = "NO_ROW"
  BY BatchAssumption DEF Init
<1>4. Within(r)
  BY <1>1, <1>2, <1>3, FS_EmptySet DEF Within
<1>5. QED
  BY <1>1, <1>3, <1>4 DEF Init, Untouched

\* What a worker executes writes a status, and is not yet done.
LEMMA ExecuteWrites ==
    ASSUME NEW x \in Worker, Execute(x)
    PROVE  /\ pc[x] # "ack"
           /\ \/ UNCHANGED status
              \/ \E target \in RunStatuses :
                    status' = [status EXCEPT ![holding[x].run] = target]
  BY DEF Execute, OrchestratorStep, MarkRunningRead, MarkRunningCommit, AgentAnswers,
         AgentDegrades, AgentRefused, AgentFatal, AnswerRead, AnswerCommit, PersistAnswer,
         MarkSucceededRead, MarkSucceededCommit, AnnounceSucceeded, MarkFailedRead,
         MarkFailedCommit, AnnounceFailed, ReadForWrite, ReadWithoutWrite, WriteStatus,
         LoseWrite, store, MarkRunRunning, BuildOrchestrator, MarkRunSucceeded,
         RateLimited, PublishError, MarkRunFailed, UpdateRead, UpdateCommit, RunStatuses

\* How the executions of a run change with the place and the message of one worker.
LEMMA ExecutionsMove ==
    ASSUME NEW x \in Worker, NEW r \in Run, IsFiniteSet(Executions(r)),
           \A y \in Worker : y # x => pc'[y] = pc[y] /\ holding'[y] = holding[y]
    PROVE  /\ IsFiniteSet(Executions(r)') /\ Cardinality(Executions(r)) \in Nat
           /\ Cardinality(Executions(r)')
                 = Cardinality(Executions(r))
                   + (IF x \in Executions(r)' THEN 1 ELSE 0)
                   - (IF x \in Executions(r) THEN 1 ELSE 0)
<1> DEFINE E == Executions(r)
           F == Executions(r)'
<1>0. IsFiniteSet(E)
  OBVIOUS
<1>1. E \ {x} = F \ {x}
  BY DEF Executions
<1>2. Cardinality(E) \in Nat
  BY FS_CardinalityType
<1>3. /\ (x \in E <=> x \in F) => F = E
      /\ x \in E /\ x \notin F => F = E \ {x}
      /\ x \notin E /\ x \in F => F = E \cup {x}
  BY <1>1
<1>5. /\ IsFiniteSet(E \cup {x}) /\ IsFiniteSet(E \ {x})
      /\ Cardinality(E \cup {x}) = IF x \in E THEN Cardinality(E) ELSE Cardinality(E) + 1
      /\ Cardinality(E \ {x}) = IF x \in E THEN Cardinality(E) - 1 ELSE Cardinality(E)
  BY FS_AddElement, FS_RemoveElement
<1> HIDE DEF E, F
<1>6. /\ IsFiniteSet(F)
      /\ Cardinality(F) = Cardinality(E) + (IF x \in F THEN 1 ELSE 0)
                                         - (IF x \in E THEN 1 ELSE 0)
  <2>1. CASE x \in E <=> x \in F
    <3>1. F = E
      BY <1>3, <2>1
    <3>2. QED
      BY <1>0, <1>2, <2>1, <3>1
  <2>2. CASE x \in E /\ x \notin F
    <3>1. F = E \ {x}
      BY <1>3, <2>2
    <3>2. Cardinality(F) = Cardinality(E) - 1 /\ IsFiniteSet(F)
      BY <1>5, <2>2, <3>1, Zenon
    <3>3. QED
      BY <1>2, <2>2, <3>2
  <2>3. CASE x \notin E /\ x \in F
    <3>1. F = E \cup {x}
      BY <1>3, <2>3
    <3>2. Cardinality(F) = Cardinality(E) + 1 /\ IsFiniteSet(F)
      BY <1>5, <2>3, <3>1, Zenon
    <3>3. QED
      BY <1>2, <2>3, <3>2
  <2>4. QED
    BY <2>1, <2>2, <2>3
<1>7. QED
  BY <1>2, <1>6 DEF E, F

LEMMA CopiesType ==
    ASSUME ready \in [Message -> Nat], NEW r \in Run
    PROVE  Copies(r) \in Nat
<1>1. FirstMessage(r) \in Message
  BY BatchAssumption DEF FirstMessage, Message
<1>2. Count(ready, r) \in Nat
  BY <1>1, OneCopyMore
<1>3. QED
  BY <1>2, CopiesCount

One(b) == IF b THEN 1 ELSE 0

\* A worker passes on what it took: its step leaves a run no more copies and
\* executions than it had, and it takes up no run that nobody has anything of.
PassesOn(x, r) ==
    /\ \A y \in Worker : y # x => pc'[y] = pc[y] /\ holding'[y] = holding[y]
    /\ Copies(r) \in Nat /\ Copies(r)' \in Nat
    /\ Copies(r)' + One(x \in Executions(r)') <= Copies(r) + One(x \in Executions(r))
    /\ status'[r] = NoRow => status[r] = NoRow
    /\ pc'[x] # "free" /\ holding'[x].run = r
          => Copies(r) > 0 \/ (pc[x] # "free" /\ holding[x].run = r)

LEMMA WorkerPassesOn ==
    ASSUME NEW x \in Worker, TypeOK, RetryInv, Lossless, NEW r \in Run,
           WorkerStep(x) \/ LoseWorker(x) \/ SoftTimeLimit(x) \/ HardTimeLimit(x)
    PROVE  PassesOn(x, r)
<1>0. /\ Copies(r) \in Nat
      /\ ready' = ready => Copies(r)' = Copies(r)
  <2>1. Copies(r) \in Nat
    BY CopiesType DEF TypeOK
  <2>2. ready' = ready => Copies(r)' = Copies(r)
    BY Zenon DEF Copies
  <2>3. QED
    BY <2>1, <2>2
<1>1. ASSUME NEW m \in Message, Receive(x, m) PROVE PassesOn(x, r)
  <2>1. /\ pc[x] = "free" /\ ready[m] > 0 /\ ready' = [ready EXCEPT ![m] = @ - 1]
        /\ pc' = [pc EXCEPT ![x] = "running"] /\ holding' = [holding EXCEPT ![x] = m]
        /\ UNCHANGED status
    BY <1>1 DEF Receive, Goto, store
  <2>2. Copies(r)' \in Nat /\ Copies(r) = Copies(r)' + (IF m.run = r THEN 1 ELSE 0)
    BY <2>1, TakeCopies
  <2>3. x \notin Executions(r) /\ (x \in Executions(r)' <=> m.run = r)
    BY <2>1 DEF TypeOK, Executions
  <2>4. /\ \A y \in Worker : y # x => pc'[y] = pc[y] /\ holding'[y] = holding[y]
        /\ holding'[x] = m
    BY <2>1 DEF TypeOK
  <2>5. Copies(r)' + One(x \in Executions(r)') <= Copies(r) + One(x \in Executions(r))
    BY <1>0, <2>2, <2>3 DEF One
  <2>6. m.run = r => Copies(r) > 0
    BY <2>2
  <2>7. QED
    BY <1>0, <2>1, <2>2, <2>4, <2>5, <2>6 DEF PassesOn
<1>2. ASSUME Execute(x) \/ SoftTimeLimit(x) PROVE PassesOn(x, r)
  <2>1. /\ UNCHANGED <<ready, holding>>
        /\ pc[x] \notin {"free", "ack"}
        /\ \E label \in Labels : Goto(x, label)
    <3>1. CASE Execute(x)
      BY <3>1, ExecuteTypes, ExecuteWrites DEF Execute, broker
    <3>2. CASE SoftTimeLimit(x)
      BY <3>2 DEF SoftTimeLimit, broker, Labels, WorkerLabels
    <3>3. QED
      BY <1>2, <3>1, <3>2
  <2>2. status'[r] = NoRow => status[r] = NoRow
    <3>1. CASE Execute(x)
      BY <3>1, ExecuteWrites, ExecuteTypes DEF TypeOK, NoRow, RunStatuses
    <3>2. CASE SoftTimeLimit(x)
      BY <3>2 DEF SoftTimeLimit, store
    <3>3. QED
      BY <1>2, <3>1, <3>2
  <2>3. \A y \in Worker : y # x => pc'[y] = pc[y]
    BY <2>1 DEF Goto, TypeOK
  <2>4. x \in Executions(r)' => x \in Executions(r)
    BY <2>1 DEF Executions
  <2>5. Copies(r)' = Copies(r)
    BY <1>0, <2>1
  <2>6. Copies(r)' + One(x \in Executions(r)') <= Copies(r) + One(x \in Executions(r))
    BY <1>0, <2>4, <2>5 DEF One
  <2>7. QED
    BY <1>0, <2>1, <2>2, <2>3, <2>5, <2>6 DEF PassesOn
<1>3. ASSUME Retry(x) PROVE PassesOn(x, r)
  <2>1. /\ pc[x] = "retry" /\ Send(Successor(holding[x]))
        /\ pc' = [pc EXCEPT ![x] = "ack"] /\ UNCHANGED <<status, holding>>
    BY <1>3 DEF Retry, SendFails, Lossless, Goto, store
  <2>2. PICK m \in Message : m = holding[x]
    BY <2>1 DEF TypeOK
  <2>3. Successor(m) \in Message /\ Successor(m).run = m.run
    <3>1. m \in [run : Run, retries : 0 .. MaxRetries] /\ m.retries < MaxRetries
      BY <2>1, <2>2 DEF Message, RetryInv, CanRetry
    <3>2. Successor(m) = [run |-> m.run, retries |-> m.retries + 1]
      BY <3>1 DEF Successor
    <3>3. m.retries + 1 \in 0 .. MaxRetries
      BY <3>1, BatchAssumption
    <3>4. QED
      BY <3>1, <3>2, <3>3 DEF Message
  <2>4. Copies(r)' = Copies(r) + (IF m.run = r THEN 1 ELSE 0)
    BY <2>1, <2>2, <2>3, SendCopies
  <2>5. x \notin Executions(r)' /\ (x \in Executions(r) <=> m.run = r)
    BY <2>1, <2>2 DEF TypeOK, Executions
  <2>6. Copies(r)' + One(x \in Executions(r)') <= Copies(r) + One(x \in Executions(r))
    BY <1>0, <2>4, <2>5 DEF One
  <2>7. \A y \in Worker : y # x => pc'[y] = pc[y]
    BY <2>1 DEF TypeOK
  <2>8. Copies(r)' \in Nat
    BY <1>0, <2>4
  <2>9. QED
    BY <1>0, <2>1, <2>6, <2>7, <2>8 DEF PassesOn
<1>4. ASSUME Acknowledge(x) \/ HardTimeLimit(x) PROVE PassesOn(x, r)
  <2>1. /\ pc' = [pc EXCEPT ![x] = "free"] /\ UNCHANGED <<status, ready>>
        /\ holding' = [holding EXCEPT ![x] = NoMessage]
    BY <1>4 DEF Acknowledge, HardTimeLimit, Release, Goto, store
  <2>2. /\ x \notin Executions(r)' /\ Copies(r)' = Copies(r) /\ pc'[x] = "free"
        /\ \A y \in Worker : y # x => pc'[y] = pc[y] /\ holding'[y] = holding[y]
    BY <1>0, <2>1 DEF TypeOK, Executions
  <2>3. Copies(r)' + One(x \in Executions(r)') <= Copies(r) + One(x \in Executions(r))
    BY <1>0, <2>2 DEF One
  <2>4. QED
    BY <1>0, <2>1, <2>2, <2>3 DEF PassesOn
<1>5. ~ LoseWorker(x)
  BY DEF LoseWorker, Lossless
<1>6. QED
  BY <1>1, <1>2, <1>3, <1>4, <1>5 DEF WorkerStep

LEMMA WorkerCopies ==
    ASSUME NEW x \in Worker, NEW r \in Run, PassesOn(x, r), UNCHANGED <<tasks, reaper>>,
           Within(r), status[r] = NoRow => Untouched(r), attempt[r] \in Nat
    PROVE  Within(r)' /\ (status'[r] = NoRow => Untouched(r)')
<1> DEFINE allowed == 1 + attempt[r] + (IF counting = r THEN 1 ELSE 0)
<1>1. UNCHANGED <<task, attempt, inspecting, counting>>
  BY DEF tasks, reaper
<1>2. /\ IsFiniteSet(Executions(r)') /\ Cardinality(Executions(r)) \in Nat
      /\ Cardinality(Executions(r)')
            = Cardinality(Executions(r)) + One(x \in Executions(r)') - One(x \in Executions(r))
  BY ExecutionsMove DEF PassesOn, Within, One
<1>3. /\ Copies(r) \in Nat /\ Copies(r)' \in Nat
      /\ Copies(r)' + One(x \in Executions(r)') <= Copies(r) + One(x \in Executions(r))
  BY DEF PassesOn
<1>4. One(x \in Executions(r)) \in Nat /\ One(x \in Executions(r)') \in Nat
  BY DEF One
<1>5. Copies(r)' + Cardinality(Executions(r)') <= allowed
  <2>1. Copies(r) + Cardinality(Executions(r)) <= allowed /\ allowed \in Nat
    BY DEF Within
  <2> HIDE DEF allowed
  <2>2. Copies(r)' + Cardinality(Executions(r)') <= Copies(r) + Cardinality(Executions(r))
    BY <1>2, <1>3, <1>4
  <2>3. Cardinality(Executions(r)') \in Int
    BY <1>2, <1>4
  <2>4. QED
    BY <1>2, <1>3, <2>1, <2>2, <2>3
<1>6. Within(r)'
  BY <1>1, <1>2, <1>5 DEF Within
<1>7. ASSUME status'[r] = NoRow PROVE Untouched(r)'
  <2>1. Untouched(r)
    BY <1>7 DEF PassesOn
  <2>2. Copies(r) = 0 /\ x \notin Executions(r)
    BY <2>1 DEF Untouched, Executions
  <2>3. Copies(r)' = 0
    BY <1>3, <1>4, <2>2 DEF One
  <2>4. \A y \in Worker : pc'[y] # "free" => holding'[y].run # r
    BY <2>1, <2>2 DEF PassesOn, Untouched
  <2>5. QED
    BY <1>1, <2>1, <2>3, <2>4 DEF Untouched
<1>8. QED
  BY <1>6, <1>7

\* What the request handlers and the reaper do leaves the workers alone.
LEMMA ExecutionsStay ==
    ASSUME UNCHANGED <<pc, holding>>, NEW r
    PROVE  Executions(r)' = Executions(r)
BY DEF Executions

LEMMA AcceptCopies ==
    ASSUME TypeOK, Lossless, CopiesFacts, NEW q \in Run, Accept(q), NEW r \in Run
    PROVE  Within(r)' /\ (status'[r] = NoRow => Untouched(r)')
<1>1. /\ status[q] = NoRow /\ status' = [status EXCEPT ![q] = "PENDING"]
      /\ task' = [task EXCEPT ![q] = "QUEUED"] /\ Send(FirstMessage(q))
      /\ UNCHANGED <<pc, holding, attempt, inspecting, counting>>
  BY DEF Accept, SendFails, Lossless, reaper
<1>2. FirstMessage(q) \in Message /\ FirstMessage(q).run = q
  BY BatchAssumption DEF FirstMessage, Message
<1>3. Copies(r) \in Nat /\ Copies(r)' = Copies(r) + (IF q = r THEN 1 ELSE 0)
  BY <1>1, <1>2, SendCopies
<1>4. Executions(r)' = Executions(r)
  BY <1>1, ExecutionsStay
<1>5. Within(r) /\ (status[r] = NoRow => Untouched(r)) /\ attempt[r] \in Nat
  BY BatchAssumption DEF CopiesFacts, TypeOK
<1>6. CASE q = r
  <2>1. Copies(r) = 0 /\ Executions(r) = {} /\ counting # r
    BY <1>1, <1>5, <1>6 DEF Untouched, Executions
  <2>2. Copies(r)' + Cardinality(Executions(r)') = 1 /\ IsFiniteSet(Executions(r)')
    BY <1>3, <1>4, <1>6, <2>1, FS_EmptySet
  <2>3. Within(r)'
    BY <1>1, <1>5, <2>1, <2>2 DEF Within
  <2>4. status'[r] # NoRow
    BY <1>1, <1>6 DEF TypeOK, NoRow
  <2>5. QED
    BY <2>3, <2>4
<1>7. CASE q # r
  <2>1. Copies(r)' = Copies(r) /\ status'[r] = status[r] /\ task'[r] = task[r]
    BY <1>1, <1>3, <1>7 DEF TypeOK
  <2>2. Within(r)'
    BY <1>1, <1>4, <1>5, <2>1 DEF Within
  <2>3. status'[r] = NoRow => Untouched(r)'
    BY <1>1, <1>5, <2>1 DEF Untouched
  <2>4. QED
    BY <2>2, <2>3
<1>8. QED
  BY <1>6, <1>7

LEMMA ReaperCopies ==
    ASSUME TypeOK, Lossless, CopiesFacts, ReaperStep, NEW r \in Run
    PROVE  Within(r)' /\ (status'[r] = NoRow => Untouched(r)')
<1>0. /\ UNCHANGED <<pc, holding>>
      /\ ready' = ready => Copies(r)' = Copies(r)
  <2>1. UNCHANGED <<pc, holding>>
    BY DEF ReaperStep, ListStaleTasks, ReenqueueTask, ReenqueueFails, ExhaustTask,
           CountAttempt, ReaperAborts, run, broker
  <2>2. ready' = ready => Copies(r)' = Copies(r)
    BY Zenon DEF Copies
  <2>3. QED
    BY <2>1, <2>2
<1>1. Executions(r)' = Executions(r)
  BY <1>0, ExecutionsStay
<1>2. Within(r) /\ (status[r] = NoRow => Untouched(r)) /\ attempt[r] \in Nat
  BY BatchAssumption DEF CopiesFacts, TypeOK
<1>3. Copies(r) \in Nat
  BY CopiesType DEF TypeOK
<1>4. ASSUME NEW stale \in SUBSET Run, ListStaleTasks(stale)
      PROVE  Within(r)' /\ (status'[r] = NoRow => Untouched(r)')
  <2>1. /\ UNCHANGED <<ready, status, task, attempt, counting>>
        /\ \A item \in inspecting' : task[item.run] = "QUEUED"
    BY <1>4 DEF ListStaleTasks, run, broker, tasks
  <2>2. Within(r)'
    BY <1>0, <1>1, <1>2, <2>1 DEF Within
  <2>3. status'[r] = NoRow => Untouched(r)'
    BY <1>0, <1>2, <2>1 DEF Untouched
  <2>4. QED
    BY <2>2, <2>3
<1>5. ASSUME NEW item \in inspecting, ReenqueueTask(item)
      PROVE  Within(r)' /\ (status'[r] = NoRow => Untouched(r)')
  <2>1. /\ Send(FirstMessage(item.run)) /\ counting = NoRun /\ counting' = item.run
        /\ inspecting' \subseteq inspecting /\ UNCHANGED <<status, task, attempt>>
    BY <1>5 DEF ReenqueueTask, run, tasks
  <2>2. FirstMessage(item.run) \in Message /\ FirstMessage(item.run).run = item.run
    BY BatchAssumption DEF TypeOK, FirstMessage, Message
  <2>3. Copies(r)' = Copies(r) + (IF item.run = r THEN 1 ELSE 0)
    BY <2>1, <2>2, SendCopies
  <2>4. counting # r
    BY <2>1, BatchAssumption
  <2>5. Within(r)'
    <3>1. Cardinality(Executions(r)) \in Nat /\ IsFiniteSet(Executions(r))
      BY <1>2, FS_CardinalityType DEF Within
    <3>2. Copies(r) + Cardinality(Executions(r)) <= 1 + attempt[r]
      BY <1>2, <2>4 DEF Within
    <3>3. Copies(r)' + Cardinality(Executions(r))
             <= 1 + attempt[r] + (IF item.run = r THEN 1 ELSE 0)
      BY <1>2, <1>3, <2>3, <3>1, <3>2
    <3>4. QED
      BY <1>1, <2>1, <3>1, <3>3 DEF Within
  <2>6. status'[r] = NoRow => Untouched(r)'
    BY <1>0, <1>2, <1>3, <2>1, <2>3 DEF Untouched
  <2>7. QED
    BY <2>5, <2>6
<1>6. ASSUME NEW item \in inspecting, ExhaustTask(item)
      PROVE  Within(r)' /\ (status'[r] = NoRow => Untouched(r)')
  <2>1. /\ status' = [status EXCEPT ![item.run] = "FAILED"]
        /\ task' = [task EXCEPT ![item.run] = "ERROR"]
        /\ inspecting' \subseteq inspecting /\ UNCHANGED <<ready, attempt, counting>>
    BY <1>6 DEF ExhaustTask, broker
  <2>2. Within(r)'
    BY <1>0, <1>1, <1>2, <2>1 DEF Within
  <2>3. ASSUME status'[r] = NoRow PROVE Untouched(r)'
    <3>1. item.run # r /\ status[r] = NoRow /\ task'[r] = task[r]
      BY <2>1, <2>3 DEF TypeOK, NoRow
    <3>2. QED
      BY <1>0, <1>2, <2>1, <3>1 DEF Untouched
  <2>4. QED
    BY <2>2, <2>3
<1>7. ASSUME NEW q \in Run, CountAttempt(q)
      PROVE  Within(r)' /\ (status'[r] = NoRow => Untouched(r)')
  <2>1. /\ counting = q /\ counting' = NoRun /\ attempt' = [attempt EXCEPT ![q] = @ + 1]
        /\ task' = [task EXCEPT ![q] = "QUEUED"] /\ UNCHANGED <<ready, status, inspecting>>
    BY <1>7 DEF CountAttempt, run, broker
  <2>2. attempt'[r] + (IF counting' = r THEN 1 ELSE 0)
           = attempt[r] + (IF counting = r THEN 1 ELSE 0)
    BY <1>2, <2>1, BatchAssumption DEF TypeOK
  <2>3. attempt'[r] \in Nat
    BY <1>2, <2>1 DEF TypeOK
  <2>4. Within(r)'
    <3>1. 1 + attempt'[r] + (IF counting' = r THEN 1 ELSE 0)
             = 1 + attempt[r] + (IF counting = r THEN 1 ELSE 0)
      BY <1>2, <2>2, <2>3
    <3>2. QED
      BY <1>0, <1>1, <1>2, <2>1, <3>1 DEF Within
  <2>5. status'[r] = NoRow => Untouched(r)'
    BY <1>0, <1>2, <2>1, BatchAssumption DEF Untouched, TypeOK
  <2>6. QED
    BY <2>4, <2>5
<1>8. ~ ReaperAborts /\ \A item \in inspecting : ~ ReenqueueFails(item)
  BY DEF ReaperAborts, ReenqueueFails, SendFails, Lossless
<1>9. QED
  BY <1>4, <1>5, <1>6, <1>7, <1>8 DEF ReaperStep

\* The reaper's attempt counter bounds the executions it causes: where nothing
\* is lost, a run is in flight once, and once more for every attempt counted or
\* about to be.
THEOREM CopiesCounted == Spec => []CopiesBounded
<1>1. TypeInv /\ CopiesInv /\ [Next]_vars => CopiesInv'
  <2> SUFFICES ASSUME TypeInv, CopiesInv, [Next]_vars, Lossless', NEW r \in Run
               PROVE  Within(r)' /\ (status'[r] = NoRow => Untouched(r)')
    BY DEF CopiesInv, CopiesFacts
  <2>1. env' = env
    <3>1. ASSUME NEW x \in Worker, \/ WorkerStep(x) \/ LoseWorker(x)
                                   \/ SoftTimeLimit(x) \/ HardTimeLimit(x)
          PROVE  env' = env
      BY <3>1, WorkerTypes DEF TypeInv
    <3>2. QED
      BY <3>1 DEF Next, Accept, ReaperStep, ListStaleTasks, ReenqueueTask, ReenqueueFails,
                  ExhaustTask, CountAttempt, ReaperAborts, run, vars
  <2>2. Lossless /\ CopiesFacts /\ TypeOK
    BY <2>1 DEF Lossless, CopiesInv, TypeInv
  <2>3. ASSUME NEW q \in Run, Accept(q)
        PROVE  Within(r)' /\ (status'[r] = NoRow => Untouched(r)')
    BY <2>2, <2>3, AcceptCopies
  <2>4. ASSUME NEW x \in Worker, \/ WorkerStep(x) \/ LoseWorker(x)
                                 \/ SoftTimeLimit(x) \/ HardTimeLimit(x)
        PROVE  Within(r)' /\ (status'[r] = NoRow => Untouched(r)')
    <3>1. PassesOn(x, r)
      BY <2>2, <2>4, WorkerPassesOn DEF TypeInv
    <3>2. UNCHANGED <<tasks, reaper>>
      BY <2>4, WorkerTypes DEF TypeInv
    <3>3. Within(r) /\ (status[r] = NoRow => Untouched(r)) /\ attempt[r] \in Nat
      BY <2>2, BatchAssumption DEF CopiesFacts, TypeOK
    <3>4. QED
      BY <3>1, <3>2, <3>3, WorkerCopies
  <2>5. CASE ReaperStep
    BY <2>2, <2>5, ReaperCopies
  <2>6. CASE UNCHANGED vars
    <3>1. Copies(r)' = Copies(r) /\ Executions(r)' = Executions(r)
      BY <2>6, Zenon DEF vars, Copies, Executions
    <3>2. QED
      BY <2>2, <2>6, <3>1 DEF vars, CopiesFacts, Within, Untouched
  <2>7. QED
    BY <2>3, <2>4, <2>5, <2>6 DEF Next
<1>2. CopiesInv => CopiesBounded
  BY DEF CopiesInv, CopiesFacts, Within, Executions, Lossless, CopiesBounded
<1>3. QED
  BY <1>1, <1>2, InitCopies, InitTypes, TypeInductive, PTL DEF Spec

=============================================================================
