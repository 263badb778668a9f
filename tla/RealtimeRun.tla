----------------------------- MODULE RealtimeRun -----------------------------
(***************************************************************************)
(* The realtime route of POST /chat, from the capacity reservation to the  *)
(* end of the background task: create_chat (app/api/routers/chat.py),      *)
(* RealtimeRunner.run_chat (app/runtime/runner.py), ConversationLock and   *)
(* RunLease (app/runtime/locks.py), the orchestrator call inside, and the  *)
(* reaper that looks for runs whose process died (app/tasks/reaper.py).    *)
(*                                                                         *)
(* A run is one accepted request; its id is also the owner written into    *)
(* the conversation lock.  Every API process hosts one runner.             *)
(***************************************************************************)
EXTENDS Orchestrator, FiniteSets

CONSTANTS
    Run,             \* run ids, one per request
    Process,         \* API processes
    Key,             \* conversation lock keys
    KeyOf,           \* the key each run's request locks
    MaxConcurrency,  \* realtime_runner_max_concurrency, 0 is unlimited
    NoRun,           \* null run id
    NoProcess        \* null process

ASSUME RunAssumption == IsFiniteSet(Run) /\ NoRun \notin Run

ASSUME ProcessAssumption == NoProcess \notin Process

ASSUME KeyAssumption == KeyOf \in [Run -> Key]

ASSUME MaxConcurrencyAssumption == MaxConcurrency \in Nat

VARIABLES
    host,       \* the process that accepted each run
    reserved,   \* RealtimeRunner._reserved_runs of each process
    lock,       \* Redis: lock:conversation:{key}, the owner or NoRun
    lease,      \* Redis: whether run:{id}:lease exists
    inspecting, \* the snapshot items run_once has not looked at yet
    reaping     \* the item run_once is about to fail, or NoRun

vars == <<pc, status, answers, announced, env,
          host, reserved, lock, lease, inspecting, reaping>>

redis  == <<lock, lease>>
reaper == <<inspecting, reaping>>
run    == <<pc, status, answers, announced, env>>

Labels ==
    OrchestratorLabels \cup RaisingLabels \cup
    { "idle", "lock", "commit", "unlock", "refused",   \* the request handler
      "lease", "dropLease", "dropLock", "done",        \* the background task
      "dead" }                                         \* the process died

(* Labels that hold a capacity slot: reserved by the handler, handed over   *)
(* to the background task with the dispatch, given back at the end.         *)
SlotLabels ==
    Labels \ {"idle", "unlock", "refused", "done", "dead"}

(* Labels at which the run believes it holds its conversation lock.         *)
LockLabels == SlotLabels \ {"lock"}

(* Labels of the background task: the run was committed and dispatched.     *)
TaskLabels == LockLabels \ {"commit"}

(* Labels between run_lease.start and run_lease.release.                    *)
LeaseLabels == TaskLabels \ {"lease", "dropLock"}

SlotHolders(p) == {r \in Run : host[r] = p /\ pc[r] \in SlotLabels}

Init ==
    /\ pc = [r \in Run |-> "idle"]
    /\ status = [r \in Run |-> NoRow]
    /\ answers = [r \in Run |-> 0]
    /\ announced = [r \in Run |-> "none"]
    /\ env \in Environments
    /\ host = [r \in Run |-> NoProcess]
    /\ reserved = [p \in Process |-> 0]
    /\ lock = [k \in Key |-> NoRun]
    /\ lease = [r \in Run |-> FALSE]
    /\ inspecting = {}
    /\ reaping = NoRun

-----------------------------------------------------------------------------
(* RealtimeCapacitySlot and LockLease, as effects of larger actions.        *)

ReleaseSlot(p) ==
    reserved' = [reserved EXCEPT ![p] = IF @ = 0 THEN 0 ELSE @ - 1]

\* Mutant: a plain DEL.
DeleteLock(r) == lock' = [lock EXCEPT ![KeyOf[r]] = NoRun]

\* LockLease.release: the script deletes the key only for its owner.
DeleteOwnLock(r) ==
    lock' = IF lock[KeyOf[r]] = r
            THEN [lock EXCEPT ![KeyOf[r]] = NoRun]
            ELSE lock

\* A release that raises may or may not have reached Redis.
ReleaseLock(r) ==
    \/ DeleteOwnLock(r)
    \/ /\ "redis" \in env
       /\ UNCHANGED lock

-----------------------------------------------------------------------------
(* The request handler.                                                     *)

\* Mutant: the limit is off by one.
ReserveSlotPastLimit(r, p) ==
    /\ pc[r] = "idle"
    /\ MaxConcurrency = 0 \/ reserved[p] <= MaxConcurrency
    /\ host' = [host EXCEPT ![r] = p]
    /\ reserved' = [reserved EXCEPT ![p] = @ + 1]
    /\ Goto(r, "lock")
    /\ UNCHANGED <<store, announced, env, redis, reaper>>

ReserveSlot(r, p) ==
    /\ pc[r] = "idle"
    /\ MaxConcurrency = 0 \/ reserved[p] < MaxConcurrency
    /\ host' = [host EXCEPT ![r] = p]
    /\ reserved' = [reserved EXCEPT ![p] = @ + 1]
    /\ Goto(r, "lock")
    /\ UNCHANGED <<store, announced, env, redis, reaper>>

\* 503 REALTIME_RUNNER_BUSY.
RunnerBusy(r, p) ==
    /\ pc[r] = "idle"
    /\ MaxConcurrency > 0 /\ reserved[p] >= MaxConcurrency
    /\ host' = [host EXCEPT ![r] = p]
    /\ Goto(r, "refused")
    /\ UNCHANGED <<store, announced, env, reserved, redis, reaper>>

\* Mutant: SET without NX.
AcquireLockOverwrites(r) ==
    /\ pc[r] = "lock"
    /\ lock' = [lock EXCEPT ![KeyOf[r]] = r]
    /\ Goto(r, "commit")
    /\ UNCHANGED <<store, announced, env, host, reserved, lease, reaper>>

AcquireLock(r) ==
    /\ pc[r] = "lock"
    /\ lock[KeyOf[r]] = NoRun
    /\ lock' = [lock EXCEPT ![KeyOf[r]] = r]
    /\ Goto(r, "commit")
    /\ UNCHANGED <<store, announced, env, host, reserved, lease, reaper>>

\* Mutant: the 409 path forgets the slot.
ConversationBusyKeepsSlot(r) ==
    /\ pc[r] = "lock"
    /\ lock[KeyOf[r]] # NoRun
    /\ Goto(r, "refused")
    /\ UNCHANGED <<store, announced, env, host, reserved, redis, reaper>>

\* 409 CONVERSATION_BUSY; the finally clause gives the slot back.
ConversationBusy(r) ==
    /\ pc[r] = "lock"
    /\ lock[KeyOf[r]] # NoRun
    /\ ReleaseSlot(host[r])
    /\ Goto(r, "refused")
    /\ UNCHANGED <<store, announced, env, host, redis, reaper>>

\* SET NX raised.  It may have taken effect, and then nobody holds the lease
\* object that could release the key.
AcquireLockFails(r) ==
    /\ pc[r] = "lock"
    /\ "redis" \in env
    /\ \/ UNCHANGED lock
       \/ /\ lock[KeyOf[r]] = NoRun
          /\ lock' = [lock EXCEPT ![KeyOf[r]] = r]
    /\ ReleaseSlot(host[r])
    /\ Goto(r, "refused")
    /\ UNCHANGED <<store, announced, env, host, lease, reaper>>

\* One transaction writes conversation, USER message and PENDING run.  The
\* dispatch follows it with no await in between.
CommitAndDispatch(r) ==
    /\ pc[r] = "commit"
    /\ status' = [status EXCEPT ![r] = "PENDING"]
    /\ Goto(r, "lease")
    /\ UNCHANGED <<answers, announced, env, host, reserved, redis, reaper>>

\* The transaction raised, before or after the commit took effect.
CommitFails(r) ==
    /\ pc[r] = "commit"
    /\ "db" \in env
    /\ \/ UNCHANGED status
       \/ status' = [status EXCEPT ![r] = "PENDING"]
    /\ ReleaseSlot(host[r])
    /\ Goto(r, "unlock")
    /\ UNCHANGED <<answers, announced, env, host, redis, reaper>>

HandlerUnlock(r) ==
    /\ pc[r] = "unlock"
    /\ ReleaseLock(r)
    /\ Goto(r, "refused")
    /\ UNCHANGED <<store, announced, env, host, reserved, lease, reaper>>

Arrive(r) == \E p \in Process : ReserveSlot(r, p) \/ RunnerBusy(r, p)

HandlerStep(r) ==
    \/ AcquireLock(r)       \/ ConversationBusy(r) \/ AcquireLockFails(r)
    \/ CommitAndDispatch(r) \/ CommitFails(r)      \/ HandlerUnlock(r)

-----------------------------------------------------------------------------
(* The background task, RealtimeRunner.run_chat.                            *)

\* run_lease.start, then the heartbeat task, then the orchestrator.
StartRun(r) ==
    /\ pc[r] = "lease"
    /\ lease' = [lease EXCEPT ![r] = TRUE]
    /\ Goto(r, "plan")
    /\ UNCHANGED <<store, announced, env, host, reserved, lock, reaper>>

\* run_lease.start raised: the result is FAILED, the row is left alone.
StartLeaseFails(r) ==
    /\ pc[r] = "lease"
    /\ "redis" \in env
    /\ \/ UNCHANGED lease
       \/ lease' = [lease EXCEPT ![r] = TRUE]
    /\ Goto(r, "dropLock")
    /\ UNCHANGED <<store, announced, env, host, reserved, lock, reaper>>

\* The orchestrator factory raised (no provider secret, say): likewise.
BuildOrchestratorFails(r) ==
    /\ pc[r] = "lease"
    /\ "provider" \in env
    /\ lease' = [lease EXCEPT ![r] = TRUE]
    /\ Goto(r, "dropLease")
    /\ UNCHANGED <<store, announced, env, host, reserved, lock, reaper>>

Orchestrate(r) ==
    /\ OrchestratorStep(r, r)
    /\ UNCHANGED <<host, reserved, redis, reaper>>

\* The finally clause: stop the heartbeat, drop the lease, ...
DropLease(r) ==
    /\ pc[r] \in {"returned", "raised", "dropLease"}
    /\ \/ lease' = [lease EXCEPT ![r] = FALSE]
       \/ "redis" \in env /\ UNCHANGED lease
    /\ Goto(r, "dropLock")
    /\ UNCHANGED <<store, announced, env, host, reserved, lock, reaper>>

\* Mutant: an error of the lock release skips the slot release after it.
DropLockUnguarded(r) ==
    /\ pc[r] = "dropLock"
    /\ \/ DeleteOwnLock(r) /\ ReleaseSlot(host[r])
       \/ "redis" \in env /\ UNCHANGED <<lock, reserved>>
    /\ Goto(r, "done")
    /\ UNCHANGED <<store, announced, env, host, lease, reaper>>

\* ... release the conversation lock, and give the slot back.
DropLock(r) ==
    /\ pc[r] = "dropLock"
    /\ ReleaseLock(r)
    /\ ReleaseSlot(host[r])
    /\ Goto(r, "done")
    /\ UNCHANGED <<store, announced, env, host, lease, reaper>>

TaskStep(r) ==
    \/ StartRun(r)    \/ StartLeaseFails(r) \/ BuildOrchestratorFails(r)
    \/ Orchestrate(r) \/ DropLease(r)       \/ DropLock(r)

-----------------------------------------------------------------------------
(* Time and crashes.  A key lives 120 s.  The handler needs it for one      *)
(* transaction, and from the dispatch on the heartbeat renews it every      *)
(* 10 s, so that it outlives every live holder unless "stall" says that     *)
(* renewals are late, or fail, for a whole lifetime of the key.             *)

ExpireLock(k) ==
    /\ lock[k] # NoRun
    /\ "stall" \in env \/ pc[lock[k]] \notin LockLabels
    /\ lock' = [lock EXCEPT ![k] = NoRun]
    /\ UNCHANGED <<run, host, reserved, lease, reaper>>

ExpireLease(r) ==
    /\ lease[r]
    /\ "stall" \in env \/ pc[r] \notin LeaseLabels
    /\ lease' = [lease EXCEPT ![r] = FALSE]
    /\ UNCHANGED <<run, host, reserved, lock, reaper>>

\* The process dies with its handlers, tasks and counters, and restarts.
Crash(p) ==
    /\ "crash" \in env
    /\ pc' = [r \in Run |-> IF host[r] = p /\ pc[r] \notin {"refused", "done"}
                            THEN "dead" ELSE pc[r]]
    /\ pc' # pc
    /\ reserved' = [reserved EXCEPT ![p] = 0]
    /\ UNCHANGED <<store, announced, env, host, redis, reaper>>

-----------------------------------------------------------------------------
(* PendingRunReaper.run_once on realtime runs.                              *)

\* list_stale_runs: some RUNNING rows are old enough.
ListStaleRuns(stale) ==
    /\ "reaper" \in env
    /\ inspecting = {} /\ reaping = NoRun
    /\ stale # {}
    /\ \A r \in stale : status[r] = "RUNNING"
    /\ inspecting' = stale
    /\ UNCHANGED <<run, host, reserved, redis, reaping>>

\* Mutant: the lease is not consulted.
InspectItemBlindly(r) ==
    /\ r \in inspecting
    /\ reaping = NoRun
    /\ inspecting' = inspecting \ {r}
    /\ reaping' = r
    /\ UNCHANGED <<run, host, reserved, redis>>

\* Mutant: the lease check is the wrong way round.
InspectItemInverted(r) ==
    /\ r \in inspecting
    /\ reaping = NoRun
    /\ inspecting' = inspecting \ {r}
    /\ reaping' = IF lease[r] THEN r ELSE NoRun
    /\ UNCHANGED <<run, host, reserved, redis>>

\* is_alive, item by item.
InspectItem(r) ==
    /\ r \in inspecting
    /\ reaping = NoRun
    /\ inspecting' = inspecting \ {r}
    /\ reaping' = IF lease[r] THEN NoRun ELSE r
    /\ UNCHANGED <<run, host, reserved, redis>>

\* Mutant: the task's status is written into the run.
ReapRunAsTask(r) ==
    /\ reaping = r
    /\ status' = [status EXCEPT ![r] = "ERROR"]
    /\ reaping' = NoRun
    /\ UNCHANGED <<pc, answers, announced, env, host, reserved, redis, inspecting>>

\* DbPendingRunStore.mark_failed: no transition check, no event.
ReapRun(r) ==
    /\ reaping = r
    /\ status' = [status EXCEPT ![r] = "FAILED"]
    /\ reaping' = NoRun
    /\ UNCHANGED <<pc, answers, announced, env, host, reserved, redis, inspecting>>

\* is_alive or mark_failed raised, or the reaper's process died: run_once
\* ends and the rest of the snapshot is not looked at.
ReaperAborts ==
    /\ \/ inspecting # {} /\ reaping = NoRun /\ "redis" \in env
       \/ reaping # NoRun /\ "db" \in env
       \/ (inspecting # {} \/ reaping # NoRun) /\ "crash" \in env
    /\ inspecting' = {}
    /\ reaping' = NoRun
    /\ UNCHANGED <<run, host, reserved, redis>>

ReaperStep ==
    \/ \E stale \in SUBSET Run : ListStaleRuns(stale)
    \/ \E r \in Run : InspectItem(r) \/ ReapRun(r)
    \/ ReaperAborts

-----------------------------------------------------------------------------
Next ==
    \/ \E r \in Run : Arrive(r) \/ HandlerStep(r) \/ TaskStep(r)
    \/ \E k \in Key : ExpireLock(k)
    \/ \E r \in Run : ExpireLease(r)
    \/ \E p \in Process : Crash(p)
    \/ ReaperStep

Spec == Init /\ [][Next]_vars

(***************************************************************************)
(* Handlers and tasks are coroutines of a running event loop, so each of   *)
(* them goes on; requests need not arrive.  Redis expires keys.  Nothing   *)
(* in the repository schedules the reaper: where "reaper" is a condition,  *)
(* it is run again and again, every stale row is listed sooner or later    *)
(* (its age only grows), and the stores do not fail every time.            *)
(***************************************************************************)
Fairness ==
    /\ \A r \in Run : WF_vars(HandlerStep(r)) /\ WF_vars(TaskStep(r))
    /\ \A k \in Key : WF_vars(ExpireLock(k))
    /\ \A r \in Run : WF_vars(ExpireLease(r))
    /\ \A r \in Run :
          /\ SF_vars(\E stale \in SUBSET Run : r \in stale /\ ListStaleRuns(stale))
          /\ SF_vars(InspectItem(r))
          /\ SF_vars(ReapRun(r))

FairSpec == Spec /\ Fairness

-----------------------------------------------------------------------------
(* Safety.                                                                  *)

TypeOK ==
    /\ pc \in [Run -> Labels]
    /\ status \in [Run -> RunStatuses \cup {NoRow}]
    /\ answers \in [Run -> Nat]
    /\ announced \in [Run -> TerminalEvents \cup {"none"}]
    /\ env \in Environments
    /\ host \in [Run -> Process \cup {NoProcess}]
    /\ reserved \in [Process -> Nat]
    /\ lock \in [Key -> Run \cup {NoRun}]
    /\ lease \in [Run -> BOOLEAN]
    /\ inspecting \subseteq Run
    /\ reaping \in Run \cup {NoRun}

\* The runner's counter is exactly the number of requests and tasks that hold
\* a slot, on every path through the handler's and the task's finally clauses
\* and across crashes; a leak or a double release shows here.
SlotsAccounted ==
    \A p \in Process : reserved[p] = Cardinality(SlotHolders(p))

\* No process ever runs more realtime requests than its limit.
CapacityRespected ==
    MaxConcurrency > 0 =>
        \A p \in Process : Cardinality(SlotHolders(p)) <= MaxConcurrency

\* One conversation is served by one realtime run at a time, across processes:
\* no two dispatched runs of one key exist while heartbeats are timely.
ConversationExclusive ==
    "stall" \notin env =>
        \A r, q \in Run :
            r # q /\ KeyOf[r] = KeyOf[q] =>
                ~(pc[r] \in TaskLabels /\ pc[q] \in TaskLabels)

\* A run never stores two answers, although the fallback after a failed (or
\* seemingly failed) transaction inserts the message again.
OneAnswer == \A r \in Run : answers[r] <= 1

\* The reaper only fails runs whose task is over: it judges by a snapshot and a
\* later lease check, and a timely heartbeat makes that judgement safe.
ReaperSparesLive ==
    "stall" \notin env =>
        \A r \in Run : reaping = r => pc[r] \in {"dropLock", "done", "dead"}

\* With a working database and timely heartbeats, a stream that ends in success
\* tells the truth: the answer is stored, and the row says so unless a reaper
\* that held an old snapshot has overwritten it.
AnnouncedSuccessIsStored ==
    env \cap {"db", "stall"} = {} =>
        \A r \in Run : announced[r] = "SUCCEEDED" =>
            /\ HasAnswer(r)
            /\ \/ status[r] = "SUCCEEDED"
               \/ status[r] = "FAILED" /\ "reaper" \in env

\* With a working database a task that is over has settled its run: the row is
\* terminal, and the stream has ended if Redis works.  The exceptions are a lease
\* that cannot be written and an orchestrator that cannot be built: run_chat turns
\* them into a result nobody reads, and the run stays PENDING.
TaskSettlesRun ==
    "db" \notin env =>
        \A r \in Run : pc[r] \in {"dropLock", "done"} =>
            \/ /\ status[r] = "PENDING"
               /\ env \cap {"redis", "provider"} # {}
            \/ /\ status[r] \in TerminalRunStates
               /\ "redis" \in env \/ announced[r] # "none"

\* Where no process dies and Redis works, no key outlives its holder: the expiry
\* is needed by nobody.
NoKeyLeftOver ==
    env \cap {"crash", "redis"} = {} =>
        /\ \A k \in Key : lock[k] # NoRun => pc[lock[k]] \in LockLabels \cup {"unlock"}
        /\ \A r \in Run : lease[r] => pc[r] \in LeaseLabels

\* A lock disappears from under its owner only by expiry, never because another
\* run released it: a step that changes it is the owner's own, or moves nobody.
OnlyOwnerReleases ==
    [][\A k \in Key : lock[k] # NoRun /\ lock'[k] # lock[k] =>
          \A q \in Run \ {lock[k]} : pc'[q] = pc[q]]_vars

\* Without a reaper the task is the only writer of its row, so its unlocked
\* read-check-commit transactions still keep every promise of RunLifecycle, with
\* commits that are lost or only seem lost, crashes and retried inserts.  (Where
\* there is a reaper the mapping shows no row at all, and nothing is promised.)
Promised(rows, none) == IF "reaper" \in env THEN [r \in Run |-> none] ELSE rows

Lifecycle == INSTANCE RunLifecycle WITH status  <- Promised(status, NoRow),
                                        answers <- Promised(answers, 0)

KeepsLifecycle == Lifecycle!Spec

-----------------------------------------------------------------------------
(* Liveness, under FairSpec.                                                *)

\* Handler, task and crash give back what was taken, on every error path: once
\* the requests stop (Run is finite) every slot is free again and stays so, and
\* no conversation stays locked by a run for ever.
ResourcesReturned ==
    /\ \A p \in Process : <>[](reserved[p] = 0)
    /\ \A r \in Run : (lock[KeyOf[r]] = r) ~> (lock[KeyOf[r]] # r)

\* A run that reached RUNNING is brought to a terminal status, by itself or,
\* after a crash or lost writes, by the reaper.
RunningConverges ==
    \A r \in Run :
        (status[r] = "RUNNING" /\ "reaper" \in env)
            ~> (status[r] \in TerminalRunStates)

=============================================================================
