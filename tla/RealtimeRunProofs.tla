-------------------------- MODULE RealtimeRunProofs --------------------------
(***************************************************************************)
(* What holds of the realtime path for any number of requests, processes   *)
(* and conversations, any limit and any mix of conditions.                 *)
(***************************************************************************)
EXTENDS RealtimeRun, FiniteSetTheorems, TLAPS

-----------------------------------------------------------------------------
(* Type correctness.                                                        *)

\* A step of the orchestrator keeps the types of what it writes.
LEMMA OrchestratorTypes ==
    ASSUME NEW r \in Run, TypeOK, OrchestratorStep(r, r)
    PROVE  /\ pc' \in [Run -> Labels]
           /\ status' \in [Run -> RunStatuses \cup {NoRow}]
           /\ answers' \in [Run -> Nat]
           /\ announced' \in [Run -> TerminalEvents \cup {"none"}]
           /\ env' = env
<1> USE DEF TypeOK, Labels, OrchestratorLabels, RaisingLabels, RunStatuses,
            TerminalEvents, Goto, store
<1>1. CASE MarkRunningRead(r, r)
  BY <1>1 DEF MarkRunningRead, ReadForWrite, ReadWithoutWrite
<1>2. CASE MarkRunningCommit(r, r)
  BY <1>2 DEF MarkRunningCommit, WriteStatus, LoseWrite
<1>3. CASE AgentAnswers(r, r)
  BY <1>3 DEF AgentAnswers
<1>4. CASE AgentDegrades(r, r) \/ AgentRefused(r, r) \/ AgentFatal(r, r)
  BY <1>4 DEF AgentDegrades, AgentRefused, AgentFatal, Announce
<1>5. CASE AnswerRead(r, r)
  BY <1>5 DEF AnswerRead
<1>6. CASE AnswerCommit(r, r)
  BY <1>6 DEF AnswerCommit
<1>7. CASE PersistAnswer(r, r)
  BY <1>7 DEF PersistAnswer
<1>8. CASE MarkSucceededRead(r, r)
  BY <1>8 DEF MarkSucceededRead, ReadForWrite, ReadWithoutWrite
<1>9. CASE MarkSucceededCommit(r, r)
  BY <1>9 DEF MarkSucceededCommit, WriteStatus, LoseWrite
<1>10. CASE AnnounceSucceeded(r, r)
  BY <1>10 DEF AnnounceSucceeded, Announce
<1>11. CASE MarkFailedRead(r, r)
  BY <1>11 DEF MarkFailedRead, ReadForWrite, ReadWithoutWrite
<1>12. CASE MarkFailedCommit(r, r)
  BY <1>12 DEF MarkFailedCommit, WriteStatus, LoseWrite
<1>13. CASE AnnounceFailed(r, r)
  BY <1>13 DEF AnnounceFailed, Announce
<1>14. QED
  BY <1>1, <1>2, <1>3, <1>4, <1>5, <1>6, <1>7, <1>8, <1>9, <1>10, <1>11,
     <1>12, <1>13 DEF OrchestratorStep

LEMMA ReleaseSlotType ==
    ASSUME NEW p, reserved \in [Process -> Nat], ReleaseSlot(p)
    PROVE  reserved' \in [Process -> Nat]
<1>1. CASE p \in Process
  <2>1. (IF reserved[p] = 0 THEN 0 ELSE reserved[p] - 1) \in Nat
    <3>1. reserved[p] \in Nat
      BY <1>1
    <3>2. QED
      BY <3>1
  <2>2. QED
    BY <1>1, <2>1 DEF ReleaseSlot
<1>2. CASE p \notin Process
  <2>1. reserved' = reserved
    BY <1>2 DEF ReleaseSlot
  <2>2. QED
    BY <2>1
<1>3. QED
  BY <1>1, <1>2

LEMMA ReleaseLockType ==
    ASSUME NEW r \in Run, TypeOK, ReleaseLock(r)
    PROVE  lock' \in [Key -> Run \cup {NoRun}]
BY KeyAssumption DEF TypeOK, ReleaseLock, DeleteOwnLock

\* Every variable keeps its type.
THEOREM TypeCorrect == Spec => []TypeOK
<1>1. Init => TypeOK
  BY KeyAssumption DEF Init, TypeOK, Labels
<1>2. TypeOK /\ [Next]_vars => TypeOK'
  <2> SUFFICES ASSUME TypeOK, [Next]_vars PROVE TypeOK'
    OBVIOUS
  <2> USE KeyAssumption
      DEF TypeOK, Goto, redis, reaper, store, run
  <2>1. CASE \E r \in Run : Arrive(r)
    BY <2>1 DEF Arrive, ReserveSlot, RunnerBusy, Labels
  <2>2. CASE \E r \in Run : HandlerStep(r)
    <3> SUFFICES ASSUME NEW r \in Run, HandlerStep(r) PROVE TypeOK'
      BY <2>2
    <3> "lock" \in Labels /\ "commit" \in Labels /\ "unlock" \in Labels
        /\ "refused" \in Labels /\ "lease" \in Labels /\ "PENDING" \in RunStatuses
      BY DEF Labels, RunStatuses
    <3>1. CASE AcquireLock(r)
      BY <3>1 DEF AcquireLock
    <3>2. CASE ConversationBusy(r)
      BY <3>2, ReleaseSlotType DEF ConversationBusy
    <3>3. CASE AcquireLockFails(r)
      BY <3>3, ReleaseSlotType DEF AcquireLockFails
    <3>4. CASE CommitAndDispatch(r)
      BY <3>4 DEF CommitAndDispatch
    <3>5. CASE CommitFails(r)
      BY <3>5, ReleaseSlotType DEF CommitFails
    <3>6. CASE HandlerUnlock(r)
      BY <3>6, ReleaseLockType DEF HandlerUnlock
    <3>7. QED
      BY <3>1, <3>2, <3>3, <3>4, <3>5, <3>6 DEF HandlerStep
  <2>3. CASE \E r \in Run : TaskStep(r)
    <3> SUFFICES ASSUME NEW r \in Run, TaskStep(r) PROVE TypeOK'
      BY <2>3
    <3> "plan" \in Labels /\ "dropLease" \in Labels /\ "dropLock" \in Labels
        /\ "done" \in Labels
      BY DEF Labels, OrchestratorLabels
    <3>1. CASE StartRun(r) \/ StartLeaseFails(r) \/ BuildOrchestratorFails(r)
      BY <3>1, ZenonT(60) DEF StartRun, StartLeaseFails, BuildOrchestratorFails
    <3>2. CASE Orchestrate(r)
      BY <3>2, OrchestratorTypes DEF Orchestrate
    <3>3. CASE DropLease(r)
      BY <3>3 DEF DropLease
    <3>4. CASE DropLock(r)
      BY <3>4, ReleaseSlotType, ReleaseLockType DEF DropLock
    <3>5. QED
      BY <3>1, <3>2, <3>3, <3>4 DEF TaskStep
  <2>4. CASE \E k \in Key : ExpireLock(k)
    BY <2>4 DEF ExpireLock
  <2>5. CASE \E r \in Run : ExpireLease(r)
    BY <2>5 DEF ExpireLease
  <2>6. CASE \E p \in Process : Crash(p)
    BY <2>6 DEF Crash, Labels
  <2>7. CASE ReaperStep
    BY <2>7 DEF ReaperStep, ListStaleRuns, InspectItem, ReapRun, ReaperAborts,
                RunStatuses
  <2>8. CASE UNCHANGED vars
    BY <2>8 DEF vars
  <2>9. QED
    BY <2>1, <2>2, <2>3, <2>4, <2>5, <2>6, <2>7, <2>8 DEF Next
<1>3. QED
  BY <1>1, <1>2, PTL DEF Spec

-----------------------------------------------------------------------------
(* How control moves: an orchestrator step moves its own run, from one      *)
(* label of the call to another.                                            *)

CallLabels == (OrchestratorLabels \cup RaisingLabels) \ {"returned", "raised"}

LEMMA OrchestratorMoves ==
    ASSUME NEW r \in Run, TypeOK, OrchestratorStep(r, r)
    PROVE  /\ pc[r] \in CallLabels
           /\ \E label \in OrchestratorLabels \cup RaisingLabels :
                 pc' = [pc EXCEPT ![r] = label]
BY DEF TypeOK, OrchestratorStep, CallLabels, OrchestratorLabels, RaisingLabels, Goto,
       MarkRunningRead, MarkRunningCommit, ReadForWrite, ReadWithoutWrite, WriteStatus,
       LoseWrite, AgentAnswers, AgentDegrades, AgentRefused, AgentFatal, AnswerRead,
       AnswerCommit, PersistAnswer, MarkSucceededRead, MarkSucceededCommit,
       AnnounceSucceeded, MarkFailedRead, MarkFailedCommit, AnnounceFailed

-----------------------------------------------------------------------------
(* Capacity slots.  A holder has a host, and each runner counts its own.    *)

SlotsInv ==
    /\ \A r \in Run : pc[r] \in SlotLabels => host[r] \in Process
    /\ SlotsAccounted

LEMMA HoldersFinite ==
    ASSUME NEW p
    PROVE  /\ IsFiniteSet(SlotHolders(p))
           /\ Cardinality(SlotHolders(p)) \in Nat
<1>1. SlotHolders(p) \subseteq Run
  BY DEF SlotHolders
<1>2. IsFiniteSet(SlotHolders(p))
  BY <1>1, RunAssumption, FS_Subset
<1>3. QED
  BY <1>2, FS_CardinalityType

\* A reservation adds one holder to one process.
LEMMA ReserveKeepsCount ==
    ASSUME NEW r \in Run, NEW p \in Process, TypeOK, SlotsInv,
           ReserveSlot(r, p)
    PROVE  SlotsInv'
<1>1. pc' = [pc EXCEPT ![r] = "lock"] /\ pc[r] = "idle"
      /\ host' = [host EXCEPT ![r] = p]
      /\ reserved' = [reserved EXCEPT ![p] = @ + 1]
  BY DEF ReserveSlot, Goto
<1>2. "lock" \in SlotLabels /\ "idle" \notin SlotLabels
  BY DEF SlotLabels, Labels
<1>3. \A q \in Run : pc'[q] \in SlotLabels => host'[q] \in Process
  BY <1>1, <1>2 DEF TypeOK, SlotsInv
<1>4. SlotHolders(p)' = SlotHolders(p) \cup {r} /\ r \notin SlotHolders(p)
  BY <1>1, <1>2 DEF TypeOK, SlotHolders
<1>5. \A o \in Process \ {p} : SlotHolders(o)' = SlotHolders(o)
  BY <1>1, <1>2 DEF TypeOK, SlotHolders
<1>6. Cardinality(SlotHolders(p)') = Cardinality(SlotHolders(p)) + 1
  BY <1>4, HoldersFinite, FS_AddElement
<1>7. \A o \in Process : reserved'[o] = Cardinality(SlotHolders(o)')
  BY <1>1, <1>5, <1>6 DEF TypeOK, SlotsInv, SlotsAccounted
<1>8. QED
  BY <1>3, <1>7 DEF SlotsInv, SlotsAccounted

\* A run that leaves the slot labels and releases its slot is one holder less.
LEMMA ReleaseKeepsCount ==
    ASSUME NEW r \in Run, NEW label \in Labels \ SlotLabels, TypeOK, SlotsInv,
           pc[r] \in SlotLabels, Goto(r, label), UNCHANGED host,
           ReleaseSlot(host[r])
    PROVE  SlotsInv'
<1> DEFINE p == host[r]
<1>1. p \in Process
  BY DEF SlotsInv
<1>2. SlotHolders(p)' = SlotHolders(p) \ {r} /\ r \in SlotHolders(p)
  BY DEF TypeOK, SlotHolders, Goto
<1>3. \A o \in Process \ {p} : SlotHolders(o)' = SlotHolders(o)
  BY DEF TypeOK, SlotHolders, Goto
<1>4. Cardinality(SlotHolders(p)') = Cardinality(SlotHolders(p)) - 1
  BY <1>2, HoldersFinite, FS_RemoveElement
<1>5. Cardinality(SlotHolders(p)') \in Nat /\ reserved[p] = Cardinality(SlotHolders(p))
  <2>1. IsFiniteSet(SlotHolders(p)')
    BY <1>2, HoldersFinite, FS_RemoveElement
  <2>2. QED
    BY <1>1, <2>1, FS_CardinalityType DEF SlotsInv, SlotsAccounted
<1>6. reserved'[p] = Cardinality(SlotHolders(p)')
  <2>1. reserved[p] \in Nat /\ reserved[p] # 0
    BY <1>1, <1>4, <1>5 DEF TypeOK
  <2>2. reserved' = [reserved EXCEPT ![p] = reserved[p] - 1]
    BY <1>1, <2>1 DEF ReleaseSlot
  <2>3. QED
    BY <1>1, <1>4, <1>5, <2>2 DEF TypeOK
<1>7. \A o \in Process \ {p} : reserved'[o] = Cardinality(SlotHolders(o)')
  BY <1>3 DEF ReleaseSlot, TypeOK, SlotsInv, SlotsAccounted
<1>8. \A q \in Run : pc'[q] \in SlotLabels => host'[q] \in Process
  BY DEF TypeOK, SlotsInv, Goto
<1>9. QED
  BY <1>6, <1>7, <1>8 DEF SlotsInv, SlotsAccounted

\* A run that moves within, or outside, the slot labels changes no count.
LEMMA MoveKeepsCount ==
    ASSUME NEW r \in Run, NEW label, TypeOK, SlotsInv,
           pc[r] \in SlotLabels <=> label \in SlotLabels,
           Goto(r, label), UNCHANGED <<host, reserved>>
    PROVE  SlotsInv'
<1>1. \A p \in Process : SlotHolders(p)' = SlotHolders(p)
  BY DEF TypeOK, SlotHolders, Goto
<1>2. QED
  BY <1>1 DEF TypeOK, SlotsInv, SlotsAccounted, Goto

LEMMA CrashKeepsCount ==
    ASSUME NEW p \in Process, TypeOK, SlotsInv, Crash(p)
    PROVE  SlotsInv'
<1>1. "dead" \notin SlotLabels /\ "refused" \notin SlotLabels /\ "done" \notin SlotLabels
  BY DEF SlotLabels
<1>2. SlotHolders(p)' = {}
  BY <1>1 DEF TypeOK, SlotHolders, Crash
<1>3. \A o \in Process \ {p} : SlotHolders(o)' = SlotHolders(o)
  BY <1>1 DEF TypeOK, SlotHolders, Crash
<1>4. \A o \in Process : reserved'[o] = Cardinality(SlotHolders(o)')
  BY <1>2, <1>3, FS_EmptySet DEF Crash, TypeOK, SlotsInv, SlotsAccounted
<1>5. QED
  BY <1>1, <1>4 DEF Crash, TypeOK, SlotsInv, SlotsAccounted

LEMMA SlotsInductive ==
    ASSUME TypeOK, SlotsInv, [Next]_vars
    PROVE  SlotsInv'
<1> USE DEF redis, reaper, store, run
<1> DEFINE Free == Labels \ SlotLabels
<1>a. /\ {"unlock", "refused", "done", "dead", "idle"} \subseteq Free
      /\ CallLabels \cup {"returned", "raised"} \subseteq SlotLabels
      /\ {"lock", "commit", "lease", "plan", "dropLease", "dropLock"} \subseteq SlotLabels
  BY DEF SlotLabels, Labels, CallLabels, OrchestratorLabels, RaisingLabels
<1>1. CASE \E r \in Run : Arrive(r)
  <2> SUFFICES ASSUME NEW r \in Run, NEW p \in Process,
                      ReserveSlot(r, p) \/ RunnerBusy(r, p)
               PROVE  SlotsInv'
    BY <1>1 DEF Arrive
  <2>1. CASE ReserveSlot(r, p)
    BY <2>1, ReserveKeepsCount
  <2>2. CASE RunnerBusy(r, p)
    <3>1. \A o \in Process : SlotHolders(o)' = SlotHolders(o)
      BY <1>a, <2>2 DEF RunnerBusy, TypeOK, SlotHolders, Goto
    <3>2. QED
      BY <1>a, <2>2, <3>1 DEF RunnerBusy, TypeOK, SlotsInv, SlotsAccounted, Goto
  <2>3. QED
    BY <2>1, <2>2
<1>2. CASE \E r \in Run : HandlerStep(r)
  <2> SUFFICES ASSUME NEW r \in Run, HandlerStep(r) PROVE SlotsInv'
    BY <1>2
  <2>1. CASE AcquireLock(r)
    BY <1>a, <2>1, MoveKeepsCount DEF AcquireLock
  <2>2. CASE ConversationBusy(r)
    BY <1>a, <2>2, ReleaseKeepsCount DEF ConversationBusy
  <2>3. CASE AcquireLockFails(r)
    BY <1>a, <2>3, ReleaseKeepsCount DEF AcquireLockFails
  <2>4. CASE CommitAndDispatch(r)
    BY <1>a, <2>4, MoveKeepsCount DEF CommitAndDispatch
  <2>5. CASE CommitFails(r)
    BY <1>a, <2>5, ReleaseKeepsCount DEF CommitFails
  <2>6. CASE HandlerUnlock(r)
    BY <1>a, <2>6, MoveKeepsCount DEF HandlerUnlock
  <2>7. QED
    BY <2>1, <2>2, <2>3, <2>4, <2>5, <2>6 DEF HandlerStep
<1>3. CASE \E r \in Run : TaskStep(r)
  <2> SUFFICES ASSUME NEW r \in Run, TaskStep(r) PROVE SlotsInv'
    BY <1>3
  <2>1. CASE StartRun(r) \/ StartLeaseFails(r) \/ BuildOrchestratorFails(r)
    BY <1>a, <2>1, MoveKeepsCount DEF StartRun, StartLeaseFails, BuildOrchestratorFails
  <2>2. CASE Orchestrate(r)
    <3>1. PICK label \in OrchestratorLabels \cup RaisingLabels :
              pc' = [pc EXCEPT ![r] = label]
      BY <2>2, OrchestratorMoves DEF Orchestrate
    <3>2. pc[r] \in SlotLabels /\ label \in SlotLabels
      BY <1>a, <2>2, OrchestratorMoves DEF Orchestrate, CallLabels
    <3>3. QED
      BY <2>2, <3>1, <3>2, MoveKeepsCount DEF Orchestrate, Goto
  <2>3. CASE DropLease(r)
    BY <1>a, <2>3, MoveKeepsCount DEF DropLease
  <2>4. CASE DropLock(r)
    BY <1>a, <2>4, ReleaseKeepsCount DEF DropLock
  <2>5. QED
    BY <2>1, <2>2, <2>3, <2>4 DEF TaskStep
<1>4. CASE \E p \in Process : Crash(p)
  BY <1>4, CrashKeepsCount
<1>5. CASE UNCHANGED <<pc, host, reserved>>
  <2>1. \A p \in Process : SlotHolders(p)' = SlotHolders(p)
    BY <1>5 DEF SlotHolders
  <2>2. QED
    BY <1>5, <2>1 DEF SlotsInv, SlotsAccounted
<1>6. CASE ReaperStep
  BY <1>5, <1>6 DEF ReaperStep, ListStaleRuns, InspectItem, ReapRun, ReaperAborts
<1>7. CASE (\E k \in Key : ExpireLock(k)) \/ (\E r \in Run : ExpireLease(r))
  BY <1>5, <1>7 DEF ExpireLock, ExpireLease
<1>8. CASE UNCHANGED vars
  BY <1>5, <1>8 DEF vars
<1>9. QED
  BY <1>1, <1>2, <1>3, <1>4, <1>6, <1>7, <1>8 DEF Next

\* RealtimeRunner's counter always equals the number of requests and tasks that
\* hold a slot: no path through the finally clauses leaks or frees one twice.
THEOREM SlotsCorrect == Spec => []SlotsAccounted
<1>1. Init => SlotsInv
  <2> SUFFICES ASSUME Init PROVE SlotsInv
    OBVIOUS
  <2>1. \A p \in Process : SlotHolders(p) = {}
    BY DEF Init, SlotHolders, SlotLabels
  <2>2. QED
    BY <2>1, FS_EmptySet DEF Init, SlotsInv, SlotsAccounted, SlotLabels
<1>2. TypeOK /\ SlotsInv /\ [Next]_vars => SlotsInv'
  BY SlotsInductive
<1>3. SlotsInv => SlotsAccounted
  BY DEF SlotsInv
<1>4. QED
  BY <1>1, <1>2, <1>3, TypeCorrect, PTL DEF Spec

LEMMA ReleaseNeverAdds ==
    ASSUME NEW p, TypeOK, ReleaseSlot(p)
    PROVE  \A o \in Process : reserved'[o] <= reserved[o]
<1> SUFFICES ASSUME NEW o \in Process PROVE reserved'[o] <= reserved[o]
  OBVIOUS
<1>1. reserved[o] \in Nat
  BY DEF TypeOK
<1>2. CASE o = p
  BY <1>1, <1>2 DEF ReleaseSlot, TypeOK
<1>3. CASE o # p
  BY <1>1, <1>3 DEF ReleaseSlot, TypeOK
<1>4. QED
  BY <1>2, <1>3

CountersInLimit ==
    MaxConcurrency > 0 => \A p \in Process : reserved[p] <= MaxConcurrency

LEMMA LimitInductive ==
    ASSUME TypeOK, CountersInLimit, [Next]_vars
    PROVE  CountersInLimit'
<1> SUFFICES ASSUME MaxConcurrency > 0
             PROVE  \A p \in Process : reserved'[p] <= MaxConcurrency
  BY DEF CountersInLimit
<1>0. \A p \in Process : reserved[p] \in Nat /\ reserved[p] <= MaxConcurrency
  BY DEF TypeOK, CountersInLimit
<1>1. CASE \E r \in Run, p \in Process : ReserveSlot(r, p)
  BY <1>0, <1>1, MaxConcurrencyAssumption DEF ReserveSlot, TypeOK
<1>2. CASE \E p : ReleaseSlot(p)
  <2>1. \A p \in Process : reserved'[p] \in Nat /\ reserved'[p] <= reserved[p]
    BY <1>2, ReleaseNeverAdds, ReleaseSlotType DEF TypeOK
  <2>2. QED
    BY <1>0, <2>1, MaxConcurrencyAssumption
<1>3. CASE \E p \in Process : Crash(p)
  BY <1>0, <1>3, MaxConcurrencyAssumption DEF Crash, TypeOK
<1>4. CASE UNCHANGED reserved
  BY <1>0, <1>4
<1>5. CASE \E r \in Run : Arrive(r) \/ HandlerStep(r)
  BY <1>1, <1>2, <1>4, <1>5
     DEF Arrive, HandlerStep, RunnerBusy, AcquireLock, ConversationBusy,
         AcquireLockFails, CommitAndDispatch, CommitFails, HandlerUnlock
<1>6. CASE \E r \in Run : TaskStep(r)
  BY <1>2, <1>4, <1>6
     DEF TaskStep, StartRun, StartLeaseFails, BuildOrchestratorFails, Orchestrate,
         DropLease, DropLock
<1>7. CASE \/ \E k \in Key : ExpireLock(k)
           \/ \E r \in Run : ExpireLease(r)
           \/ ReaperStep
           \/ UNCHANGED vars
  BY <1>4, <1>7
     DEF ExpireLock, ExpireLease, ReaperStep, ListStaleRuns, InspectItem, ReapRun,
         ReaperAborts, vars
<1>8. QED
  BY <1>3, <1>5, <1>6, <1>7 DEF Next

\* No runner exceeds realtime_runner_max_concurrency.
THEOREM CapacityCorrect == Spec => []CapacityRespected
<1>1. Init => CountersInLimit
  BY MaxConcurrencyAssumption DEF Init, CountersInLimit
<1>2. TypeOK /\ CountersInLimit /\ [Next]_vars => CountersInLimit'
  BY LimitInductive
<1>3. SlotsAccounted /\ CountersInLimit => CapacityRespected
  BY DEF SlotsAccounted, CountersInLimit, CapacityRespected
<1>4. QED
  BY <1>1, <1>2, <1>3, TypeCorrect, SlotsCorrect, PTL DEF Spec

-----------------------------------------------------------------------------
(* Conversation locks.  With timely heartbeats a run between AcquireLock and *)
(* DropLock owns its key; two owners of one key are the same run.            *)

LockInv ==
    "stall" \notin env =>
        \A r \in Run : pc[r] \in LockLabels => lock[KeyOf[r]] = r

\* A run that moves while every owner keeps its key.
LEMMA MoveKeepsLocks ==
    ASSUME NEW r \in Run, NEW label, TypeOK, LockInv, env' = env,
           pc' = [pc EXCEPT ![r] = label],
           label \in LockLabels => pc[r] \in LockLabels,
           \/ UNCHANGED lock
           \/ label \notin LockLabels /\ ReleaseLock(r)
    PROVE  LockInv'
<1> SUFFICES ASSUME "stall" \notin env, NEW q \in Run, pc'[q] \in LockLabels
             PROVE  lock'[KeyOf[q]] = q
  BY DEF LockInv
<1>1. pc[q] \in LockLabels /\ lock[KeyOf[q]] = q
  BY DEF TypeOK, LockInv
<1>2. CASE UNCHANGED lock
  BY <1>1, <1>2
<1>3. CASE label \notin LockLabels /\ ReleaseLock(r)
  BY <1>1, <1>3, KeyAssumption DEF ReleaseLock, DeleteOwnLock, TypeOK
<1>4. QED
  BY <1>2, <1>3

LEMMA LockInductive ==
    ASSUME TypeOK, LockInv, [Next]_vars
    PROVE  LockInv'
<1>a. /\ LockLabels \cap {"idle", "lock", "unlock", "refused", "done", "dead"} = {}
      /\ {"commit", "lease", "plan", "dropLease", "dropLock"} \subseteq LockLabels
      /\ CallLabels \cup OrchestratorLabels \cup RaisingLabels \subseteq LockLabels
  BY DEF LockLabels, SlotLabels, Labels, CallLabels, OrchestratorLabels, RaisingLabels
<1>1. CASE \E r \in Run : Arrive(r)
  BY <1>a, <1>1, MoveKeepsLocks DEF Arrive, ReserveSlot, RunnerBusy, Goto, redis
<1>2. CASE \E r \in Run : HandlerStep(r)
  <2> SUFFICES ASSUME NEW r \in Run, HandlerStep(r) PROVE LockInv'
    BY <1>2
  <2>1. CASE AcquireLock(r)
    <3> SUFFICES ASSUME "stall" \notin env, NEW q \in Run, pc'[q] \in LockLabels
                 PROVE  lock'[KeyOf[q]] = q
      BY <2>1 DEF AcquireLock, LockInv
    <3>1. CASE q = r
      BY <2>1, <3>1, KeyAssumption DEF AcquireLock, TypeOK
    <3>2. CASE q # r
      <4>1. pc[q] \in LockLabels
        BY <2>1, <3>2 DEF AcquireLock, Goto, TypeOK
      <4>2. lock[KeyOf[q]] = q /\ lock[KeyOf[r]] = NoRun
        BY <2>1, <4>1 DEF AcquireLock, LockInv
      <4>3. KeyOf[q] # KeyOf[r]
        BY <4>2, RunAssumption
      <4>4. QED
        BY <2>1, <4>2, <4>3 DEF AcquireLock, TypeOK
    <3>3. QED
      BY <3>1, <3>2
  <2>2. CASE AcquireLockFails(r)
    <3> SUFFICES ASSUME "stall" \notin env, NEW q \in Run, pc'[q] \in LockLabels
                 PROVE  lock'[KeyOf[q]] = q
      BY <2>2 DEF AcquireLockFails, LockInv
    <3>1. q # r /\ pc[q] \in LockLabels
      BY <1>a, <2>2 DEF AcquireLockFails, Goto, TypeOK
    <3>2. lock[KeyOf[q]] = q
      BY <3>1 DEF LockInv
    <3>3. QED
      BY <2>2, <3>2, RunAssumption, KeyAssumption DEF AcquireLockFails, TypeOK
  <2>3. CASE ConversationBusy(r) \/ CommitAndDispatch(r) \/ CommitFails(r)
    <3>1. /\ "refused" \notin LockLabels /\ "unlock" \notin LockLabels
          /\ pc[r] = "commit" => pc[r] \in LockLabels
      BY <1>a
    <3>2. CASE ConversationBusy(r)
      BY <3>1, <3>2, MoveKeepsLocks DEF ConversationBusy, Goto, redis
    <3>3. CASE CommitAndDispatch(r)
      BY <3>1, <3>3, MoveKeepsLocks DEF CommitAndDispatch, Goto, redis
    <3>4. CASE CommitFails(r)
      BY <3>1, <3>4, MoveKeepsLocks DEF CommitFails, Goto, redis
    <3>5. QED
      BY <2>3, <3>2, <3>3, <3>4
  <2>4. CASE HandlerUnlock(r)
    BY <1>a, <2>4, MoveKeepsLocks DEF HandlerUnlock, Goto
  <2>5. QED
    BY <2>1, <2>2, <2>3, <2>4 DEF HandlerStep
<1>3. CASE \E r \in Run : TaskStep(r)
  <2> SUFFICES ASSUME NEW r \in Run, TaskStep(r) PROVE LockInv'
    BY <1>3
  <2>1. CASE StartRun(r) \/ StartLeaseFails(r) \/ BuildOrchestratorFails(r)
    BY <1>a, <2>1, MoveKeepsLocks
       DEF StartRun, StartLeaseFails, BuildOrchestratorFails, Goto
  <2>2. CASE Orchestrate(r)
    <3>1. PICK label \in OrchestratorLabels \cup RaisingLabels :
              pc' = [pc EXCEPT ![r] = label]
      BY <2>2, OrchestratorMoves DEF Orchestrate
    <3>2. pc[r] \in LockLabels /\ env' = env /\ UNCHANGED lock
      BY <1>a, <2>2, OrchestratorMoves, OrchestratorTypes DEF Orchestrate, redis
    <3>3. QED
      BY <3>1, <3>2, MoveKeepsLocks
  <2>3. CASE DropLease(r)
    <3>1. pc[r] \in LockLabels
      BY <2>3 DEF DropLease, LockLabels, SlotLabels, Labels, OrchestratorLabels
    <3>2. pc' = [pc EXCEPT ![r] = "dropLock"] /\ env' = env /\ UNCHANGED lock
      BY <2>3 DEF DropLease, Goto
    <3>3. QED
      BY <3>1, <3>2, MoveKeepsLocks
  <2>4. CASE DropLock(r)
    <3>1. /\ pc[r] \in LockLabels /\ "done" \notin LockLabels
      BY <1>a, <2>4 DEF DropLock
    <3>2. pc' = [pc EXCEPT ![r] = "done"] /\ env' = env /\ ReleaseLock(r)
      BY <2>4 DEF DropLock, Goto
    <3>3. QED
      BY <3>1, <3>2, MoveKeepsLocks
  <2>5. QED
    BY <2>1, <2>2, <2>3, <2>4 DEF TaskStep
<1>4. CASE \E k \in Key : ExpireLock(k)
  BY <1>4, KeyAssumption, RunAssumption DEF ExpireLock, LockInv, TypeOK, run
<1>5. CASE \E p \in Process : Crash(p)
  BY <1>a, <1>5 DEF Crash, LockInv, TypeOK, redis
<1>6. CASE UNCHANGED <<pc, env, lock>>
  BY <1>6 DEF LockInv
<1>7. CASE \/ \E r \in Run : ExpireLease(r)
           \/ ReaperStep
           \/ UNCHANGED vars
  BY <1>6, <1>7
     DEF ExpireLease, ReaperStep, ListStaleRuns, InspectItem, ReapRun, ReaperAborts,
         vars, run, redis
<1>8. QED
  BY <1>1, <1>2, <1>3, <1>4, <1>5, <1>7 DEF Next

\* While heartbeats are timely, one conversation has at most one dispatched
\* realtime run, on all processes together.
THEOREM ConversationsExclusive == Spec => []ConversationExclusive
<1>1. Init => LockInv
  BY DEF Init, LockInv, LockLabels, SlotLabels
<1>2. TypeOK /\ LockInv /\ [Next]_vars => LockInv'
  BY LockInductive
<1>3. LockInv => ConversationExclusive
  BY DEF LockInv, ConversationExclusive, TaskLabels
<1>4. QED
  BY <1>1, <1>2, <1>3, TypeCorrect, PTL DEF Spec

-----------------------------------------------------------------------------
(* Answers.  Every insert is guarded by the unique index, and no other step  *)
(* touches the messages.                                                     *)

\* A step of the orchestrator inserts an answer only where there is none.
LEMMA OrchestratorStores ==
    ASSUME NEW r \in Run, TypeOK, OneAnswer, OrchestratorStep(r, r)
    PROVE  OneAnswer'
<1>1. CASE AnswerCommit(r, r)
  BY <1>1 DEF AnswerCommit, HasAnswer, OneAnswer, TypeOK, store
<1>2. CASE PersistAnswer(r, r)
  BY <1>2 DEF PersistAnswer, HasAnswer, OneAnswer, TypeOK
<1>3. ASSUME UNCHANGED answers PROVE OneAnswer'
  BY <1>3 DEF OneAnswer
<1>4. QED
  BY <1>1, <1>2, <1>3
     DEF OrchestratorStep, MarkRunningRead, MarkRunningCommit, AgentAnswers,
         AgentDegrades, AgentRefused, AgentFatal, AnswerRead, MarkSucceededRead,
         MarkSucceededCommit, AnnounceSucceeded, MarkFailedRead, MarkFailedCommit,
         AnnounceFailed, ReadForWrite, ReadWithoutWrite, WriteStatus, LoseWrite, store

\* Only the orchestrator stores messages.
LEMMA OthersStoreNothing ==
    ASSUME [Next]_vars, ~(\E r \in Run : Orchestrate(r))
    PROVE  UNCHANGED answers
<1>1. ASSUME NEW r \in Run, Arrive(r) \/ HandlerStep(r) PROVE UNCHANGED answers
  BY <1>1 DEF Arrive, ReserveSlot, RunnerBusy, HandlerStep, AcquireLock,
              ConversationBusy, AcquireLockFails, CommitAndDispatch, CommitFails,
              HandlerUnlock, store
<1>2. ASSUME NEW r \in Run, TaskStep(r) PROVE UNCHANGED answers
  BY <1>2 DEF TaskStep, StartRun, StartLeaseFails, BuildOrchestratorFails,
              DropLease, DropLock, store
<1>3. CASE \/ \E k \in Key : ExpireLock(k)
           \/ \E r \in Run : ExpireLease(r)
           \/ \E p \in Process : Crash(p)
           \/ ReaperStep
           \/ UNCHANGED vars
  BY <1>3 DEF ExpireLock, ExpireLease, Crash, ReaperStep, ListStaleRuns, InspectItem,
              ReapRun, ReaperAborts, vars, run, store
<1>4. QED
  BY <1>1, <1>2, <1>3 DEF Next

\* No run stores two answers, on any path through commit and fallback.
THEOREM AnswersUnique == Spec => []OneAnswer
<1>1. Init => OneAnswer
  BY DEF Init, OneAnswer
<1>2. TypeOK /\ OneAnswer /\ [Next]_vars => OneAnswer'
  <2> SUFFICES ASSUME TypeOK, OneAnswer, [Next]_vars PROVE OneAnswer'
    OBVIOUS
  <2>1. CASE \E r \in Run : Orchestrate(r)
    BY <2>1, OrchestratorStores DEF Orchestrate
  <2>2. CASE ~(\E r \in Run : Orchestrate(r))
    BY <2>2, OthersStoreNothing DEF OneAnswer
  <2>3. QED
    BY <2>1, <2>2
<1>3. QED
  BY <1>1, <1>2, TypeCorrect, PTL DEF Spec

-----------------------------------------------------------------------------
(* The reaper.  It lists RUNNING rows only, a row is RUNNING only once its   *)
(* task has started, and a started task has its lease until it drops it: so  *)
(* a listed run without a lease is one whose task is over, for good.         *)

OverLabels == {"dropLock", "done", "dead"}

StartedLabels == LeaseLabels \cup OverLabels

ReaperInv ==
    /\ \A r \in Run :
          status[r] = "RUNNING" \/ r \in inspecting => pc[r] \in StartedLabels
    /\ "stall" \notin env =>
          \A r \in Run : /\ pc[r] \in LeaseLabels => lease[r]
                         /\ reaping = r => pc[r] \in OverLabels

\* One run moves, and keeps a lease if it moves to where it needs one.
LEMMA MoveKeepsReaper ==
    ASSUME NEW r \in Run, NEW label, TypeOK, ReaperInv, env' = env,
           UNCHANGED <<inspecting, reaping>>,
           pc' = [pc EXCEPT ![r] = label],
           \/ label \in StartedLabels
           \/ pc[r] \notin StartedLabels /\ status'[r] # "RUNNING",
           pc[r] \in OverLabels => label \in OverLabels,
           "stall" \notin env /\ label \in LeaseLabels => lease'[r],
           \A q \in Run \ {r} : status'[q] = status[q] /\ lease'[q] = lease[q]
    PROVE  ReaperInv'
<1>1. \A q \in Run : pc'[q] = IF q = r THEN label ELSE pc[q]
  BY DEF TypeOK
<1>2. ASSUME NEW q \in Run, status'[q] = "RUNNING" \/ q \in inspecting'
      PROVE  pc'[q] \in StartedLabels
  <2>1. CASE q = r
    BY <1>1, <1>2, <2>1 DEF ReaperInv
  <2>2. CASE q # r
    BY <1>1, <1>2, <2>2 DEF ReaperInv
  <2>3. QED
    BY <2>1, <2>2
<1>3. ASSUME "stall" \notin env, NEW q \in Run
      PROVE  /\ pc'[q] \in LeaseLabels => lease'[q]
             /\ reaping' = q => pc'[q] \in OverLabels
  <2>1. CASE q = r
    BY <1>1, <1>3, <2>1 DEF ReaperInv
  <2>2. CASE q # r
    BY <1>1, <1>3, <2>2 DEF ReaperInv
  <2>3. QED
    BY <2>1, <2>2
<1>4. QED
  BY <1>2, <1>3 DEF ReaperInv

\* Only the run's own row is written by an orchestrator step.
LEMMA OrchestratorWritesOwnRow ==
    ASSUME NEW r \in Run, TypeOK, OrchestratorStep(r, r), NEW q \in Run \ {r}
    PROVE  status'[q] = status[q]
BY DEF TypeOK, OrchestratorStep, store,
       MarkRunningRead, MarkRunningCommit, ReadForWrite, ReadWithoutWrite, WriteStatus,
       LoseWrite, AgentAnswers, AgentDegrades, AgentRefused, AgentFatal, AnswerRead,
       AnswerCommit, PersistAnswer, MarkSucceededRead, MarkSucceededCommit,
       AnnounceSucceeded, MarkFailedRead, MarkFailedCommit, AnnounceFailed

LEMMA ReaperInductive ==
    ASSUME TypeOK, ReaperInv, [Next]_vars
    PROVE  ReaperInv'
<1>a. /\ StartedLabels \cap {"idle", "lock", "commit", "unlock", "refused", "lease"} = {}
      /\ OverLabels \cap LeaseLabels = {}
      /\ {"plan", "dropLease"} \subseteq LeaseLabels
      /\ OrchestratorLabels \cup RaisingLabels \subseteq LeaseLabels
  BY DEF StartedLabels, OverLabels, LeaseLabels, TaskLabels, LockLabels, SlotLabels,
         Labels, OrchestratorLabels, RaisingLabels
<1>b. {"idle", "lock", "commit", "unlock", "refused", "lease"} \cap LeaseLabels = {}
  BY <1>a DEF StartedLabels
<1>1. CASE \E r \in Run : Arrive(r) \/ HandlerStep(r)
  <2> SUFFICES ASSUME NEW r \in Run, Arrive(r) \/ HandlerStep(r) PROVE ReaperInv'
    BY <1>1
  <2> DEFINE Early == {"idle", "lock", "commit", "unlock", "refused", "lease"}
  <2>1. PICK label \in Early : pc' = [pc EXCEPT ![r] = label]
    BY DEF Arrive, ReserveSlot, RunnerBusy, HandlerStep, AcquireLock, ConversationBusy,
           AcquireLockFails, CommitAndDispatch, CommitFails, HandlerUnlock, Goto
  <2>2. /\ pc[r] \in Early
        /\ env' = env /\ UNCHANGED <<inspecting, reaping, lease>>
    BY DEF Arrive, ReserveSlot, RunnerBusy, HandlerStep, AcquireLock, ConversationBusy,
           AcquireLockFails, CommitAndDispatch, CommitFails, HandlerUnlock, redis, reaper
  <2>3. status' = status \/ status' = [status EXCEPT ![r] = "PENDING"]
    BY DEF Arrive, ReserveSlot, RunnerBusy, HandlerStep, AcquireLock, ConversationBusy,
           AcquireLockFails, CommitAndDispatch, CommitFails, HandlerUnlock, store
  <2>4. /\ pc[r] \notin StartedLabels /\ label \notin LeaseLabels
        /\ pc[r] \notin OverLabels
    BY <1>a, <1>b, <2>1, <2>2 DEF StartedLabels
  <2>5. status[r] # "RUNNING"
    BY <2>4 DEF ReaperInv
  <2>6. status'[r] # "RUNNING" /\ \A q \in Run \ {r} : status'[q] = status[q]
    BY <2>3, <2>5 DEF TypeOK
  <2>7. QED
    BY <2>1, <2>2, <2>4, <2>6, MoveKeepsReaper
<1>2. CASE \E r \in Run : TaskStep(r)
  <2> SUFFICES ASSUME NEW r \in Run, TaskStep(r) PROVE ReaperInv'
    BY <1>2
  <2>1. CASE StartRun(r) \/ BuildOrchestratorFails(r)
    <3>1. PICK label \in {"plan", "dropLease"} : pc' = [pc EXCEPT ![r] = label]
      BY <2>1 DEF StartRun, BuildOrchestratorFails, Goto
    <3>2. /\ pc[r] = "lease" /\ lease' = [lease EXCEPT ![r] = TRUE]
          /\ env' = env /\ UNCHANGED <<inspecting, reaping, status>>
      BY <2>1 DEF StartRun, BuildOrchestratorFails, store, reaper
    <3>3. label \in StartedLabels /\ pc[r] \notin OverLabels
      BY <1>a, <3>1, <3>2 DEF StartedLabels
    <3>4. lease'[r] /\ \A q \in Run \ {r} : lease'[q] = lease[q]
      BY <3>2 DEF TypeOK
    <3>5. QED
      BY <3>1, <3>2, <3>3, <3>4, MoveKeepsReaper
  <2>2. CASE StartLeaseFails(r) \/ DropLease(r)
    <3>1. /\ pc' = [pc EXCEPT ![r] = "dropLock"]
          /\ env' = env /\ UNCHANGED <<inspecting, reaping, status>>
      BY <2>2 DEF StartLeaseFails, DropLease, Goto, store, reaper
    <3>2. \A q \in Run \ {r} : lease'[q] = lease[q]
      BY <2>2 DEF StartLeaseFails, DropLease, TypeOK
    <3>3. "dropLock" \in StartedLabels /\ "dropLock" \in OverLabels
      BY DEF StartedLabels, OverLabels
    <3>4. "dropLock" \notin LeaseLabels
      BY <1>a, <3>3
    <3>5. QED
      BY <3>1, <3>2, <3>3, <3>4, MoveKeepsReaper
  <2>3. CASE DropLock(r)
    <3>1. /\ pc' = [pc EXCEPT ![r] = "done"]
          /\ env' = env /\ UNCHANGED <<inspecting, reaping, status, lease>>
      BY <2>3 DEF DropLock, Goto, store, reaper
    <3>2. "done" \in StartedLabels /\ "done" \in OverLabels
      BY DEF StartedLabels, OverLabels
    <3>3. "done" \notin LeaseLabels
      BY <1>a, <3>2
    <3>4. QED
      BY <3>1, <3>2, <3>3, MoveKeepsReaper
  <2>4. CASE Orchestrate(r)
    <3>1. PICK label \in OrchestratorLabels \cup RaisingLabels :
              pc' = [pc EXCEPT ![r] = label]
      BY <2>4, OrchestratorMoves DEF Orchestrate
    <3>2. /\ pc[r] \in LeaseLabels /\ label \in LeaseLabels
      BY <1>a, <2>4, <3>1, OrchestratorMoves DEF Orchestrate, CallLabels
    <3>3. env' = env /\ UNCHANGED <<inspecting, reaping, lease>>
      BY <2>4, OrchestratorTypes DEF Orchestrate, redis, reaper
    <3>4. \A q \in Run \ {r} : status'[q] = status[q]
      BY <2>4, OrchestratorWritesOwnRow DEF Orchestrate
    <3>5. label \in StartedLabels /\ pc[r] \notin OverLabels
      BY <1>a, <3>2 DEF StartedLabels
    <3>6. "stall" \notin env => lease'[r]
      BY <3>2, <3>3 DEF ReaperInv
    <3>7. QED
      BY <3>1, <3>3, <3>4, <3>5, <3>6, MoveKeepsReaper
  <2>5. QED
    BY <2>1, <2>2, <2>3, <2>4 DEF TaskStep
<1>3. CASE \E r \in Run : ExpireLease(r)
  <2>1. UNCHANGED <<pc, env, status, inspecting, reaping>>
    BY <1>3 DEF ExpireLease, run, reaper
  <2>2. "stall" \notin env =>
            \A r \in Run : pc[r] \in LeaseLabels => lease'[r] = lease[r]
    BY <1>3 DEF ExpireLease, TypeOK
  <2>3. QED
    BY <2>1, <2>2 DEF ReaperInv
<1>4. CASE \E p \in Process : Crash(p)
  <2>1. UNCHANGED <<env, status, lease, inspecting, reaping>>
    BY <1>4 DEF Crash, store, redis, reaper
  <2>2. \A r \in Run : pc'[r] = pc[r] \/ pc'[r] = "dead"
    BY <1>4 DEF Crash
  <2>3. "dead" \in OverLabels /\ "dead" \in StartedLabels
    BY DEF OverLabels, StartedLabels
  <2>4. "dead" \notin LeaseLabels
    BY <1>a, <2>3
  <2>5. QED
    BY <2>1, <2>2, <2>3, <2>4 DEF ReaperInv
<1>5. CASE ReaperStep
  <2> USE DEF run, redis
  <2>1. CASE \E stale \in SUBSET Run : ListStaleRuns(stale)
    BY <2>1 DEF ListStaleRuns, ReaperInv
  <2>2. CASE \E r \in Run : InspectItem(r)
    <3>1. UNCHANGED <<pc, status, env, lease>> /\ inspecting' \subseteq inspecting
      BY <2>2 DEF InspectItem
    <3>2. \A r \in Run : reaping' = r => r \in inspecting /\ ~lease[r]
      BY <2>2, RunAssumption DEF InspectItem
    <3>3. QED
      BY <3>1, <3>2 DEF ReaperInv, StartedLabels
  <2>3. CASE \E r \in Run : ReapRun(r)
    <3>1. UNCHANGED <<pc, env, lease, inspecting>>
      BY <2>3 DEF ReapRun
    <3>2. reaping' = NoRun /\ \A r \in Run : status'[r] = "RUNNING" => status[r] = "RUNNING"
      BY <2>3 DEF ReapRun, TypeOK
    <3>3. QED
      BY <3>1, <3>2, RunAssumption DEF ReaperInv
  <2>4. CASE ReaperAborts
    BY <2>4, RunAssumption DEF ReaperAborts, ReaperInv
  <2>5. QED
    BY <1>5, <2>1, <2>2, <2>3, <2>4 DEF ReaperStep
<1>6. CASE (\E k \in Key : ExpireLock(k)) \/ UNCHANGED vars
  BY <1>6 DEF ExpireLock, vars, run, reaper, ReaperInv
<1>7. QED
  BY <1>1, <1>2, <1>3, <1>4, <1>5, <1>6 DEF Next

\* While heartbeats are timely the reaper never fails a run that is still at
\* work, however old its snapshot is.
THEOREM ReaperIsCareful == Spec => []ReaperSparesLive
<1>1. Init => ReaperInv
  BY RunAssumption DEF Init, ReaperInv, NoRow, LeaseLabels, TaskLabels, LockLabels, SlotLabels
<1>2. TypeOK /\ ReaperInv /\ [Next]_vars => ReaperInv'
  BY ReaperInductive
<1>3. ReaperInv => ReaperSparesLive
  BY DEF ReaperInv, ReaperSparesLive, OverLabels
<1>4. QED
  BY <1>1, <1>2, <1>3, TypeCorrect, PTL DEF Spec

-----------------------------------------------------------------------------
(* Releases.                                                                *)

\* The steps that touch locks: an acquisition takes a free key, the script frees
\* the caller's own, and an expiry moves nobody.
LEMMA LockSteps ==
    ASSUME TypeOK, [Next]_vars
    PROVE  \/ UNCHANGED lock
           \/ UNCHANGED pc
           \/ \E r \in Run : /\ \E label : pc' = [pc EXCEPT ![r] = label]
                             /\ \/ /\ lock[KeyOf[r]] = NoRun
                                   /\ lock' = [lock EXCEPT ![KeyOf[r]] = r]
                                \/ ReleaseLock(r)
<1>1. ASSUME NEW r \in Run, HandlerStep(r)
      PROVE  \/ UNCHANGED lock
             \/ /\ \E label : pc' = [pc EXCEPT ![r] = label]
                /\ \/ lock[KeyOf[r]] = NoRun /\ lock' = [lock EXCEPT ![KeyOf[r]] = r]
                   \/ ReleaseLock(r)
  BY <1>1 DEF HandlerStep, AcquireLock, ConversationBusy, AcquireLockFails,
              CommitAndDispatch, CommitFails, HandlerUnlock, Goto, redis
<1>2. ASSUME NEW r \in Run, TaskStep(r)
      PROVE  \/ UNCHANGED lock
             \/ (\E label : pc' = [pc EXCEPT ![r] = label]) /\ ReleaseLock(r)
  BY <1>2 DEF TaskStep, StartRun, StartLeaseFails, BuildOrchestratorFails, Orchestrate,
              DropLease, DropLock, Goto, redis
<1>3. CASE \E r \in Run : Arrive(r)
  BY <1>3 DEF Arrive, ReserveSlot, RunnerBusy, redis
<1>4. CASE (\E k \in Key : ExpireLock(k)) \/ (\E r \in Run : ExpireLease(r)) \/ UNCHANGED vars
  BY <1>4 DEF ExpireLock, ExpireLease, vars, run
<1>5. CASE (\E p \in Process : Crash(p)) \/ ReaperStep
  BY <1>5 DEF Crash, ReaperStep, ListStaleRuns, InspectItem, ReapRun, ReaperAborts, redis
<1>6. QED
  BY <1>1, <1>2, <1>3, <1>4, <1>5 DEF Next

\* A lock disappears from under its owner only by expiry, never because another
\* run released it: LockLease.release compares the owner.
THEOREM ReleasesOwn == Spec => OnlyOwnerReleases
<1> DEFINE Step == \A k \in Key : lock[k] # NoRun /\ lock'[k] # lock[k] =>
                      \A q \in Run \ {lock[k]} : pc'[q] = pc[q]
<1>1. TypeOK /\ [Next]_vars => Step
  <2> SUFFICES ASSUME TypeOK, [Next]_vars, NEW k \in Key, lock[k] # NoRun,
                      lock'[k] # lock[k], NEW q \in Run \ {lock[k]}
               PROVE  pc'[q] = pc[q]
    OBVIOUS
  <2>1. CASE UNCHANGED pc
    BY <2>1
  <2>2. CASE \E r \in Run :
                /\ \E label : pc' = [pc EXCEPT ![r] = label]
                /\ \/ lock[KeyOf[r]] = NoRun /\ lock' = [lock EXCEPT ![KeyOf[r]] = r]
                   \/ ReleaseLock(r)
    <3>1. PICK r \in Run :
                /\ \E label : pc' = [pc EXCEPT ![r] = label]
                /\ \/ lock[KeyOf[r]] = NoRun /\ lock' = [lock EXCEPT ![KeyOf[r]] = r]
                   \/ ReleaseLock(r)
      BY <2>2
    <3>2. k = KeyOf[r] /\ lock[k] = r
      BY <3>1, KeyAssumption DEF ReleaseLock, DeleteOwnLock, TypeOK
    <3>3. QED
      BY <3>1, <3>2 DEF TypeOK
  <2>3. QED
    BY <2>1, <2>2, LockSteps
<1>2. TypeOK /\ [Next]_vars => [Step]_vars
  BY <1>1
<1>3. QED
  BY <1>2, TypeCorrect, PTL DEF Spec, OnlyOwnerReleases

-----------------------------------------------------------------------------
(* The rows.  Without a reaper the task alone writes its row, so what its    *)
(* reads found still holds when it commits, and every commit is a step of    *)
(* RunLifecycle.                                                             *)

\* The row as far as the label of the run tells of it.
RowKnown(r) ==
    /\ pc[r] \in {"idle", "lock", "commit"} => status[r] = NoRow
    /\ pc[r] \in CallLabels \cup {"lease"} => status[r] # NoRow
    /\ pc[r] = "planCommit" => status[r] = "PENDING"
    /\ pc[r] \in {"answerCommit", "succeedCommit"} => status[r] = "RUNNING"
    /\ pc[r] \in {"failCommit", "refuseCommit"} => status[r] \in {"PENDING", "RUNNING"}
    /\ answers[r] \in {0, 1}

RowInv ==
    "reaper" \notin env =>
        /\ inspecting = {} /\ reaping = NoRun
        /\ \A r \in Run : RowKnown(r)

\* One step of RunLifecycle on the row of r.
RowStep(r) ==
    \/ /\ status[r] = NoRow
       /\ status' = [status EXCEPT ![r] = "PENDING"]
       /\ UNCHANGED answers
    \/ /\ \E target \in RunStatuses :
             /\ target \in RunTransitions[status[r]]
             /\ status' = [status EXCEPT ![r] = target]
       /\ status[r] # NoRow
       /\ UNCHANGED answers
    \/ /\ status[r] # NoRow /\ answers[r] = 0
       /\ answers' = [answers EXCEPT ![r] = 1]
       /\ UNCHANGED status
    \/ /\ status[r] = "RUNNING" /\ answers[r] = 0
       /\ status' = [status EXCEPT ![r] = "SUCCEEDED"]
       /\ answers' = [answers EXCEPT ![r] = 1]

LEMMA Transitions ==
    ASSUME NEW s \in RunStatuses, NEW t \in RunStatuses
    PROVE  t \in RunTransitions[s]
             <=> \/ s = "PENDING" /\ t \in {"RUNNING", "CANCELLED", "FAILED"}
                 \/ s = "RUNNING" /\ t \in {"SUCCEEDED", "FAILED", "CANCELLED"}
BY DEF RunStatuses, RunTransitions

\* What the orchestrator does is such a step, or writes nothing.
LEMMA OrchestratorRow ==
    ASSUME NEW r \in Run, TypeOK, RowKnown(r), OrchestratorStep(r, r)
    PROVE  RowKnown(r)' /\ (RowStep(r) \/ UNCHANGED store)
<1>1. pc[r] \in CallLabels /\ status[r] \in RunStatuses
  BY OrchestratorMoves DEF TypeOK, RowKnown
<1>2. "FAILED" \in RunStatuses /\ "RUNNING" \in RunStatuses /\ "SUCCEEDED" \in RunStatuses
      /\ NoRow \notin RunStatuses
  BY DEF RunStatuses, NoRow
<1> USE <1>1, <1>2 DEF TypeOK, RowKnown, RowStep, Goto, store, CallLabels,
            OrchestratorLabels, RaisingLabels
<1>3. CASE MarkRunningRead(r, r) \/ MarkSucceededRead(r, r) \/ MarkFailedRead(r, r)
  BY <1>3, Transitions
     DEF MarkRunningRead, MarkSucceededRead, MarkFailedRead, ReadForWrite,
         ReadWithoutWrite, RunTransitionAllowed
<1>4. CASE MarkRunningCommit(r, r) \/ MarkSucceededCommit(r, r) \/ MarkFailedCommit(r, r)
  BY <1>4, Transitions
     DEF MarkRunningCommit, MarkSucceededCommit, MarkFailedCommit, WriteStatus, LoseWrite
<1>5. CASE AgentAnswers(r, r) \/ AgentDegrades(r, r) \/ AgentRefused(r, r) \/ AgentFatal(r, r)
  BY <1>5 DEF AgentAnswers, AgentDegrades, AgentRefused, AgentFatal
<1>6. CASE AnswerRead(r, r)
  BY <1>6, Transitions DEF AnswerRead
<1>7. CASE AnswerCommit(r, r)
  BY <1>7 DEF AnswerCommit, HasAnswer
<1>8. CASE PersistAnswer(r, r)
  BY <1>8 DEF PersistAnswer, HasAnswer
<1>9. CASE AnnounceSucceeded(r, r) \/ AnnounceFailed(r, r)
  BY <1>9 DEF AnnounceSucceeded, AnnounceFailed
<1>10. QED
  BY <1>3, <1>4, <1>5, <1>6, <1>7, <1>8, <1>9 DEF OrchestratorStep

\* A run moves to a label that says nothing of its row; others stay.
LEMMA MoveKeepsRow ==
    ASSUME NEW r \in Run, NEW label, TypeOK, RowKnown(r),
           label \in Labels \ (CallLabels \cup {"idle", "lock", "commit", "lease"}),
           pc' = [pc EXCEPT ![r] = label], UNCHANGED answers
    PROVE  RowKnown(r)'
BY DEF TypeOK, RowKnown, CallLabels, OrchestratorLabels, RaisingLabels

LEMMA HandlerRow ==
    ASSUME NEW r \in Run, TypeOK, RowKnown(r), Arrive(r) \/ HandlerStep(r)
    PROVE  /\ RowKnown(r)' /\ (RowStep(r) \/ UNCHANGED store)
           /\ \E label : pc' = [pc EXCEPT ![r] = label]
           /\ UNCHANGED <<env, reaper>>
           /\ \A q \in Run \ {r} : status'[q] = status[q] /\ answers'[q] = answers[q]
<1> USE DEF TypeOK, RowKnown, RowStep, Goto, store, reaper, CallLabels,
            OrchestratorLabels, RaisingLabels
<1>1. CASE Arrive(r)
  BY <1>1 DEF Arrive, ReserveSlot, RunnerBusy
<1>2. CASE AcquireLock(r) \/ ConversationBusy(r) \/ AcquireLockFails(r) \/ HandlerUnlock(r)
  BY <1>2 DEF AcquireLock, ConversationBusy, AcquireLockFails, HandlerUnlock
<1>3. CASE CommitAndDispatch(r) \/ CommitFails(r)
  BY <1>3 DEF CommitAndDispatch, CommitFails, NoRow
<1>4. QED
  BY <1>1, <1>2, <1>3 DEF HandlerStep

LEMMA TaskRow ==
    ASSUME NEW r \in Run, TypeOK, RowKnown(r), TaskStep(r)
    PROVE  /\ RowKnown(r)' /\ (RowStep(r) \/ UNCHANGED store)
           /\ \E label : pc' = [pc EXCEPT ![r] = label]
           /\ UNCHANGED <<env, reaper>>
           /\ \A q \in Run \ {r} : status'[q] = status[q] /\ answers'[q] = answers[q]
<1>1. CASE Orchestrate(r)
  <2>1. RowKnown(r)' /\ (RowStep(r) \/ UNCHANGED store)
    BY <1>1, OrchestratorRow DEF Orchestrate
  <2>2. \A q \in Run \ {r} : status'[q] = status[q] /\ answers'[q] = answers[q]
    BY <2>1 DEF RowStep, store, TypeOK
  <2>3. QED
    BY <1>1, <2>1, <2>2, OrchestratorMoves, OrchestratorTypes DEF Orchestrate
<1>2. CASE ~Orchestrate(r)
  <2>1. /\ UNCHANGED <<store, env, reaper>>
        /\ \/ pc[r] = "lease" /\ Goto(r, "plan")
           \/ \E label \in {"dropLock", "dropLease", "done"} : Goto(r, label)
    BY <1>2 DEF TaskStep, StartRun, StartLeaseFails, BuildOrchestratorFails, DropLease,
                DropLock
  <2>2. RowKnown(r)'
    BY <2>1 DEF TypeOK, RowKnown, Goto, store, CallLabels, OrchestratorLabels, RaisingLabels
  <2>3. QED
    BY <2>1, <2>2 DEF Goto, store
<1>3. QED
  BY <1>1, <1>2

\* Every step moves one row as RunLifecycle does, or none.
LEMMA RowInductive ==
    ASSUME TypeOK, RowInv, [Next]_vars
    PROVE  /\ RowInv' /\ env' = env
           /\ "reaper" \notin env => (\E r \in Run : RowStep(r)) \/ UNCHANGED store
<1>1. ASSUME NEW r \in Run, Arrive(r) \/ HandlerStep(r) \/ TaskStep(r)
      PROVE  /\ RowInv' /\ env' = env
             /\ "reaper" \notin env => RowStep(r) \/ UNCHANGED store
  <2>1. env' = env
    <3>1. CASE TaskStep(r)
      BY <3>1, OrchestratorTypes
         DEF TaskStep, StartRun, StartLeaseFails, BuildOrchestratorFails, Orchestrate,
             DropLease, DropLock
    <3>2. CASE Arrive(r) \/ HandlerStep(r)
      BY <3>2 DEF Arrive, ReserveSlot, RunnerBusy, HandlerStep, AcquireLock,
                  ConversationBusy, AcquireLockFails, CommitAndDispatch, CommitFails,
                  HandlerUnlock
    <3>3. QED
      BY <1>1, <3>1, <3>2
  <2>2. CASE "reaper" \in env
    BY <2>1, <2>2 DEF RowInv
  <2>3. CASE "reaper" \notin env
    <3>1. RowKnown(r) /\ inspecting = {} /\ reaping = NoRun
      BY <2>3 DEF RowInv
    <3>2. /\ RowKnown(r)' /\ (RowStep(r) \/ UNCHANGED store)
          /\ \E label : pc' = [pc EXCEPT ![r] = label]
          /\ UNCHANGED reaper
          /\ \A q \in Run \ {r} : status'[q] = status[q] /\ answers'[q] = answers[q]
      BY <1>1, <3>1, HandlerRow, TaskRow
    <3>3. ASSUME NEW q \in Run \ {r} PROVE RowKnown(q)'
      <4>1. RowKnown(q) /\ pc'[q] = pc[q]
        BY <2>3, <3>2 DEF RowInv, TypeOK
      <4>2. QED
        BY <3>2, <4>1 DEF RowKnown
    <3>4. QED
      BY <2>1, <3>1, <3>2, <3>3 DEF RowInv, reaper
  <2>4. QED
    BY <2>2, <2>3
<1>2. CASE (\E k \in Key : ExpireLock(k)) \/ (\E r \in Run : ExpireLease(r)) \/ UNCHANGED vars
  BY <1>2 DEF ExpireLock, ExpireLease, vars, run, reaper, store, RowInv, RowKnown
<1>3. CASE \E p \in Process : Crash(p)
  <2>1. /\ UNCHANGED <<env, status, answers, inspecting, reaping>>
        /\ \A r \in Run : pc'[r] = pc[r] \/ pc'[r] = "dead"
    BY <1>3 DEF Crash, store, reaper
  <2>2. ASSUME NEW r \in Run, RowKnown(r) PROVE RowKnown(r)'
    BY <2>1, <2>2 DEF RowKnown, CallLabels, OrchestratorLabels, RaisingLabels
  <2>3. QED
    BY <2>1, <2>2 DEF RowInv, store
<1>4. CASE ReaperStep
  <2>1. env' = env
    BY <1>4 DEF ReaperStep, ListStaleRuns, InspectItem, ReapRun, ReaperAborts, run
  <2>2. "reaper" \in env \/ inspecting # {} \/ reaping # NoRun
    BY <1>4, RunAssumption DEF ReaperStep, ListStaleRuns, InspectItem, ReapRun, ReaperAborts
  <2>3. QED
    BY <2>1, <2>2 DEF RowInv
<1>5. QED
  BY <1>1, <1>2, <1>3, <1>4 DEF Next

\* Such a step, seen through the mapping, is a step of RunLifecycle.
LEMMA RowStepIsLifecycle ==
    ASSUME "reaper" \notin env, env' = env, NEW r \in Run, RowStep(r)
    PROVE  Lifecycle!Next
<1>1. /\ Promised(status, NoRow) = status /\ Promised(status, NoRow)' = status'
      /\ Promised(answers, 0) = answers /\ Promised(answers, 0)' = answers'
  BY DEF Promised
<1>2. \/ Lifecycle!Accept(r) \/ Lifecycle!StoreAnswer(r) \/ Lifecycle!Finish(r)
      \/ \E target \in RunStatuses : Lifecycle!Advance(r, target)
  <2>1. /\ Lifecycle!NoRow = NoRow /\ Lifecycle!RunStatuses = RunStatuses
        /\ Lifecycle!RunTransitions = RunTransitions
    BY DEF Lifecycle!NoRow, NoRow, Lifecycle!RunStatuses, RunStatuses,
           Lifecycle!RunTransitions, RunTransitions
  <2>2. QED
    BY <1>1, <2>1 DEF RowStep, Lifecycle!Accept, Lifecycle!StoreAnswer, Lifecycle!Finish,
                      Lifecycle!Advance
<1>3. QED
  BY <1>2 DEF Lifecycle!Next, Lifecycle!RunStatuses, RunStatuses

\* Where no reaper runs, a realtime run implements RunLifecycle, for any runs,
\* processes and keys, and any failures: its unlocked read-check-commit
\* transactions keep what the transition table promises.
THEOREM ImplementsLifecycle == Spec => KeepsLifecycle
<1>1. Init => RowInv
  BY DEF Init, RowInv, RowKnown, CallLabels, OrchestratorLabels, RaisingLabels
<1>2. Init => Lifecycle!Init
  BY DEF Init, Lifecycle!Init, Promised, Lifecycle!NoRow, NoRow
<1>3. TypeOK /\ RowInv /\ [Next]_vars => RowInv' /\ [Lifecycle!Next]_Lifecycle!rows
  <2> SUFFICES ASSUME TypeOK, RowInv, [Next]_vars
               PROVE  RowInv' /\ [Lifecycle!Next]_Lifecycle!rows
    OBVIOUS
  <2>1. /\ RowInv' /\ env' = env
        /\ "reaper" \notin env => (\E r \in Run : RowStep(r)) \/ UNCHANGED store
    BY RowInductive
  <2>2. CASE "reaper" \in env \/ UNCHANGED store
    BY <2>1, <2>2 DEF Lifecycle!rows, Promised, store
  <2>3. CASE "reaper" \notin env /\ \E r \in Run : RowStep(r)
    BY <2>1, <2>3, RowStepIsLifecycle
  <2>4. QED
    BY <2>1, <2>2, <2>3
<1>4. QED
  BY <1>1, <1>2, <1>3, TypeCorrect, PTL DEF Spec, KeepsLifecycle, Lifecycle!Spec

-----------------------------------------------------------------------------
(* What a stream that ends in success tells.  With a working database and    *)
(* timely heartbeats the task meets no status it does not expect: the        *)
(* fallback after a failed commit is never entered.                          *)

Working == env \cap {"db", "stall"} = {}

Ended == {"returned", "dropLock", "done", "dead"}

Kept(r) == status[r] = "SUCCEEDED" \/ (status[r] = "FAILED" /\ "reaper" \in env)

RowAsExpected(r) ==
    /\ pc[r] \in {"plan", "planCommit", "lease"} => status[r] = "PENDING"
    /\ pc[r] \in {"agent", "answer", "answerCommit"} => status[r] = "RUNNING"
    /\ pc[r] \in {"idle", "lock", "commit", "lease", "plan", "planCommit", "agent", "answer",
                  "answerCommit"} => answers[r] = 0
    /\ pc[r] \notin {"answerOnly", "persist", "succeed", "succeedCommit"}
    /\ pc[r] = "announce" => status[r] = "SUCCEEDED" /\ answers[r] > 0
    /\ announced[r] = "SUCCEEDED" => pc[r] \in Ended /\ answers[r] > 0 /\ Kept(r)

TruthInv ==
    /\ reaping # NoRun \/ inspecting # {} => "reaper" \in env
    /\ Working => \A r \in Run : RowAsExpected(r)

LEMMA OrchestratorTruth ==
    ASSUME NEW r \in Run, TypeOK, RowAsExpected(r), "db" \notin env, OrchestratorStep(r, r)
    PROVE  RowAsExpected(r)'
<1>1. pc[r] \in CallLabels
  BY OrchestratorMoves
<1>2. RunTransitions["PENDING"] = {"RUNNING", "CANCELLED", "FAILED"}
      /\ RunTransitions["RUNNING"] = {"SUCCEEDED", "FAILED", "CANCELLED"}
  BY DEF RunTransitions
<1>3. announced[r] # "SUCCEEDED"
  BY <1>1 DEF RowAsExpected, Ended, CallLabels, OrchestratorLabels, RaisingLabels
<1> USE <1>1, <1>2, <1>3 DEF TypeOK, RowAsExpected, Ended, Kept, Goto, store
<1>4. CASE MarkRunningRead(r, r) \/ MarkFailedRead(r, r)
  BY <1>4 DEF MarkRunningRead, MarkFailedRead, ReadForWrite, ReadWithoutWrite,
              RunTransitionAllowed
<1>5. CASE MarkRunningCommit(r, r) \/ MarkFailedCommit(r, r)
  BY <1>5 DEF MarkRunningCommit, MarkFailedCommit, WriteStatus, LoseWrite
<1>6. CASE AgentAnswers(r, r) \/ AgentDegrades(r, r) \/ AgentRefused(r, r) \/ AgentFatal(r, r)
  BY <1>6 DEF AgentAnswers, AgentDegrades, AgentRefused, AgentFatal, Announce
<1>7. CASE AnswerRead(r, r)
  BY <1>7 DEF AnswerRead, RunTransitionAllowed
<1>8. CASE AnswerCommit(r, r)
  BY <1>8 DEF AnswerCommit, HasAnswer
<1>9. CASE AnnounceSucceeded(r, r) \/ AnnounceFailed(r, r)
  BY <1>9 DEF AnnounceSucceeded, AnnounceFailed, Announce
<1>10. ~ \/ PersistAnswer(r, r) \/ MarkSucceededRead(r, r) \/ MarkSucceededCommit(r, r)
  BY DEF PersistAnswer, MarkSucceededRead, MarkSucceededCommit
<1>11. QED
  BY <1>4, <1>5, <1>6, <1>7, <1>8, <1>9, <1>10 DEF OrchestratorStep

LEMMA HandlerTruth ==
    ASSUME NEW r \in Run, TypeOK, RowAsExpected(r), "db" \notin env,
           \/ Arrive(r) \/ HandlerStep(r)
           \/ StartRun(r) \/ StartLeaseFails(r) \/ BuildOrchestratorFails(r)
           \/ DropLease(r) \/ DropLock(r)
    PROVE  RowAsExpected(r)'
<1> USE DEF TypeOK, RowAsExpected, Ended, Kept, Goto, store
<1>1. CASE Arrive(r)
  BY <1>1 DEF Arrive, ReserveSlot, RunnerBusy
<1>2. CASE HandlerStep(r)
  BY <1>2 DEF HandlerStep, AcquireLock, ConversationBusy, AcquireLockFails,
              CommitAndDispatch, CommitFails, HandlerUnlock
<1>3. CASE \/ StartRun(r) \/ StartLeaseFails(r) \/ BuildOrchestratorFails(r)
           \/ DropLease(r) \/ DropLock(r)
  BY <1>3 DEF StartRun, StartLeaseFails, BuildOrchestratorFails, DropLease, DropLock
<1>4. QED
  BY <1>1, <1>2, <1>3

\* What a step of one run leaves alone.
LEMMA OwnStep ==
    ASSUME NEW r \in Run, TypeOK, Arrive(r) \/ HandlerStep(r) \/ TaskStep(r)
    PROVE  /\ UNCHANGED <<env, inspecting, reaping>>
           /\ \A q \in Run \ {r} : /\ pc'[q] = pc[q] /\ status'[q] = status[q]
                                   /\ answers'[q] = answers[q] /\ announced'[q] = announced[q]
<1> USE DEF TypeOK, Goto, store, reaper
<1>1. CASE Arrive(r)
  BY <1>1 DEF Arrive, ReserveSlot, RunnerBusy
<1>2. CASE HandlerStep(r)
  BY <1>2 DEF HandlerStep, AcquireLock, ConversationBusy, AcquireLockFails,
              CommitAndDispatch, CommitFails, HandlerUnlock
<1>3. CASE \/ StartRun(r) \/ StartLeaseFails(r) \/ BuildOrchestratorFails(r)
           \/ DropLease(r) \/ DropLock(r)
  BY <1>3 DEF StartRun, StartLeaseFails, BuildOrchestratorFails, DropLease, DropLock
<1>4. CASE Orchestrate(r)
  <2>1. env' = env /\ \A q \in Run \ {r} : pc'[q] = pc[q]
    BY <1>4, OrchestratorMoves, OrchestratorTypes DEF Orchestrate
  <2>2. \A q \in Run \ {r} : status'[q] = status[q]
    BY <1>4, OrchestratorWritesOwnRow DEF Orchestrate
  <2>3. \/ UNCHANGED answers
        \/ answers' = [answers EXCEPT ![r] = @ + 1]
    BY <1>4 DEF Orchestrate, OrchestratorStep,
       MarkRunningRead, MarkRunningCommit, ReadForWrite, ReadWithoutWrite, WriteStatus,
       LoseWrite, AgentAnswers, AgentDegrades, AgentRefused, AgentFatal, AnswerRead,
       AnswerCommit, PersistAnswer, MarkSucceededRead, MarkSucceededCommit,
       AnnounceSucceeded, MarkFailedRead, MarkFailedCommit, AnnounceFailed
  <2>4. UNCHANGED announced \/ \E event : announced' = [announced EXCEPT ![r] = event]
    BY <1>4 DEF Orchestrate, OrchestratorStep, Announce,
       MarkRunningRead, MarkRunningCommit, ReadForWrite, ReadWithoutWrite, WriteStatus,
       LoseWrite, AgentAnswers, AgentDegrades, AgentRefused, AgentFatal, AnswerRead,
       AnswerCommit, PersistAnswer, MarkSucceededRead, MarkSucceededCommit,
       AnnounceSucceeded, MarkFailedRead, MarkFailedCommit, AnnounceFailed
  <2>5. QED
    BY <1>4, <2>1, <2>2, <2>3, <2>4 DEF Orchestrate
<1>5. QED
  BY <1>1, <1>2, <1>3, <1>4 DEF TaskStep

LEMMA TruthInductive ==
    ASSUME TypeOK, ReaperInv, TruthInv, [Next]_vars
    PROVE  TruthInv'
<1>1. ASSUME NEW r \in Run, Arrive(r) \/ HandlerStep(r) \/ TaskStep(r)
      PROVE  TruthInv'
  <2>1. /\ UNCHANGED <<env, inspecting, reaping>>
        /\ \A q \in Run \ {r} : /\ pc'[q] = pc[q] /\ status'[q] = status[q]
                                /\ answers'[q] = answers[q] /\ announced'[q] = announced[q]
    BY <1>1, OwnStep
  <2>2. ASSUME Working PROVE RowAsExpected(r)'
    <3>1. RowAsExpected(r) /\ "db" \notin env
      BY <2>2 DEF TruthInv, Working
    <3>2. QED
      BY <1>1, <3>1, OrchestratorTruth, HandlerTruth DEF TaskStep, Orchestrate
  <2>3. ASSUME Working, NEW q \in Run \ {r} PROVE RowAsExpected(q)'
    BY <2>1, <2>3 DEF TruthInv, RowAsExpected, Kept
  <2>4. Working' <=> Working
    BY <2>1 DEF Working
  <2>5. QED
    BY <2>1, <2>2, <2>3, <2>4 DEF TruthInv
<1>2. CASE (\E k \in Key : ExpireLock(k)) \/ (\E r \in Run : ExpireLease(r)) \/ UNCHANGED vars
  BY <1>2 DEF ExpireLock, ExpireLease, vars, run, reaper, TruthInv, Working, RowAsExpected, Kept
<1>3. CASE \E p \in Process : Crash(p)
  <2>1. /\ UNCHANGED <<env, status, answers, announced, inspecting, reaping>>
        /\ \A r \in Run : pc'[r] = pc[r] \/ pc'[r] = "dead"
    BY <1>3 DEF Crash, store, reaper
  <2>2. ASSUME NEW r \in Run, RowAsExpected(r) PROVE RowAsExpected(r)'
    BY <2>1, <2>2 DEF RowAsExpected, Kept, Ended
  <2>3. QED
    BY <2>1, <2>2 DEF TruthInv, Working
<1>4. CASE ReaperStep
  <2>1. UNCHANGED <<pc, answers, announced, env>>
    BY <1>4 DEF ReaperStep, ListStaleRuns, InspectItem, ReapRun, ReaperAborts, run
  <2>2. "reaper" \in env
    BY <1>4, RunAssumption
       DEF ReaperStep, ListStaleRuns, InspectItem, ReapRun, ReaperAborts, TruthInv
  <2>3. ASSUME Working, NEW r \in Run PROVE RowAsExpected(r)'
    <3>1. RowAsExpected(r)
      BY <2>3 DEF TruthInv
    <3>2. CASE status'[r] = status[r]
      BY <2>1, <3>1, <3>2 DEF RowAsExpected, Kept
    <3>3. CASE status'[r] # status[r]
      <4>1. ReapRun(r)
        BY <1>4, <3>3 DEF ReaperStep, ListStaleRuns, InspectItem, ReapRun, ReaperAborts,
                          run, TypeOK
      <4>2. status'[r] = "FAILED" /\ pc[r] \in OverLabels
        BY <2>3, <4>1 DEF ReapRun, ReaperInv, Working, TypeOK
      <4>3. QED
        BY <2>1, <2>2, <3>1, <4>2 DEF RowAsExpected, Kept, OverLabels
    <3>4. QED
      BY <3>2, <3>3
  <2>4. QED
    BY <2>1, <2>2, <2>3 DEF TruthInv, Working
<1>5. QED
  BY <1>1, <1>2, <1>3, <1>4 DEF Next

\* With a working database and timely heartbeats, a stream that ends in success
\* tells the truth: the answer is stored, and the row says so unless a reaper
\* that held an old snapshot has overwritten it.
THEOREM SuccessIsTrue == Spec => []AnnouncedSuccessIsStored
<1>1. Init => ReaperInv /\ TruthInv
  BY RunAssumption
     DEF Init, ReaperInv, NoRow, LeaseLabels, TaskLabels, LockLabels, SlotLabels,
         TruthInv, RowAsExpected
<1>2. TypeOK /\ ReaperInv /\ TruthInv /\ [Next]_vars => ReaperInv' /\ TruthInv'
  BY ReaperInductive, TruthInductive
<1>3. TruthInv => AnnouncedSuccessIsStored
  BY DEF TruthInv, RowAsExpected, Kept, Working, AnnouncedSuccessIsStored, HasAnswer
<1>4. QED
  BY <1>1, <1>2, <1>3, TypeCorrect, PTL DEF Spec

-----------------------------------------------------------------------------
(* What a task leaves behind.  The row follows the label: PENDING until the  *)
(* orchestrator has marked it, terminal before anything is announced.  The   *)
(* reaper lists what has begun, and can only make it terminal.               *)

Begun == {"RUNNING"} \cup TerminalRunStates

Unstarted(r) == status[r] = "PENDING" /\ env \cap {"redis", "provider"} # {}

Told(r) == "redis" \in env \/ announced[r] # "none"

RowFollows(r) ==
    /\ pc[r] \in {"idle", "lock", "commit"} => status[r] = NoRow
    /\ pc[r] \in {"lease", "plan", "planCommit"} => status[r] = "PENDING"
    /\ pc[r] \in {"agent", "answer", "answerCommit", "persist", "succeed", "succeedCommit",
                  "fail", "failCommit", "refuse", "refuseCommit"}
          => status[r] \in Begun
    /\ pc[r] \in {"answerOnly", "announce", "announceFailed", "announceRefused",
                  "returned", "raised"}
          => status[r] \in TerminalRunStates
    /\ pc[r] \in {"returned", "raised"} => Told(r)
    /\ pc[r] = "dropLease" => Unstarted(r)
    /\ pc[r] \in {"dropLock", "done"}
          => Unstarted(r) \/ (status[r] \in TerminalRunStates /\ Told(r))
    /\ r \in inspecting \/ reaping = r => status[r] \in Begun

SettledInv == "db" \notin env => \A r \in Run : RowFollows(r)

LEMMA StatusNames ==
    /\ TerminalRunStates = {"SUCCEEDED", "FAILED", "CANCELLED"}
    /\ Begun = {"RUNNING", "SUCCEEDED", "FAILED", "CANCELLED"}
    /\ RunStatuses = {"PENDING", "RUNNING", "SUCCEEDED", "FAILED", "CANCELLED"}
    /\ NoRow = "NO_ROW"
    /\ TerminalEvents = {"ERROR", "SUCCEEDED", "FAILED"}
BY DEF TerminalRunStates, Begun, RunStatuses, NoRow, TerminalEvents

LEMMA AnnounceTells ==
    ASSUME NEW r \in Run, TypeOK, NEW event \in TerminalEvents, Announce(r, event), env' = env
    PROVE  Told(r)'
BY DEF Announce, Told, TypeOK, TerminalEvents

LEMMA OrchestratorFollows ==
    ASSUME NEW r \in Run, TypeOK, RowFollows(r), "db" \notin env, OrchestratorStep(r, r),
           UNCHANGED <<inspecting, reaping>>
    PROVE  RowFollows(r)'
<1>1. pc[r] \in CallLabels /\ env' = env
  BY OrchestratorMoves, OrchestratorTypes
<1>2. status[r] \in RunStatuses
  BY <1>1, StatusNames DEF RowFollows, CallLabels, OrchestratorLabels, RaisingLabels
<1> USE <1>1, <1>2, StatusNames DEF TypeOK, RowFollows, Goto, store
<1>3. CASE MarkRunningRead(r, r) \/ MarkSucceededRead(r, r) \/ MarkFailedRead(r, r)
  BY <1>3, Transitions
     DEF MarkRunningRead, MarkSucceededRead, MarkFailedRead, ReadForWrite,
         ReadWithoutWrite, RunTransitionAllowed
<1>4. CASE MarkRunningCommit(r, r) \/ MarkSucceededCommit(r, r) \/ MarkFailedCommit(r, r)
  BY <1>4
     DEF MarkRunningCommit, MarkSucceededCommit, MarkFailedCommit, WriteStatus, LoseWrite
<1>5. CASE AgentAnswers(r, r) \/ AgentDegrades(r, r) \/ AgentRefused(r, r) \/ AgentFatal(r, r)
  BY <1>5 DEF AgentAnswers, AgentDegrades, AgentRefused, AgentFatal
<1>6. CASE AnswerRead(r, r)
  BY <1>6, Transitions DEF AnswerRead, RunTransitionAllowed
<1>7. CASE AnswerCommit(r, r)
  <2>1. /\ pc[r] = "answerCommit" \/ (pc[r] = "answerOnly" /\ status[r] \in TerminalRunStates)
        /\ \/ /\ status' = IF pc[r] = "answerCommit"
                          THEN [status EXCEPT ![r] = "SUCCEEDED"] ELSE status
              /\ Goto(r, "announce")
           \/ status' = status /\ Goto(r, "persist")
    BY <1>7 DEF AnswerCommit
  <2>2. QED
    BY <2>1
<1>8. CASE PersistAnswer(r, r)
  BY <1>8 DEF PersistAnswer
<1>9. CASE AnnounceSucceeded(r, r) \/ AnnounceFailed(r, r)
  <2>1. Told(r)'
    BY <1>9, AnnounceTells DEF AnnounceSucceeded, AnnounceFailed
  <2>2. QED
    BY <1>9, <2>1 DEF AnnounceSucceeded, AnnounceFailed
<1>10. QED
  BY <1>3, <1>4, <1>5, <1>6, <1>7, <1>8, <1>9 DEF OrchestratorStep

LEMMA OthersFollow ==
    ASSUME NEW r \in Run, TypeOK, RowFollows(r), "db" \notin env,
           \/ Arrive(r) \/ HandlerStep(r)
           \/ StartRun(r) \/ StartLeaseFails(r) \/ BuildOrchestratorFails(r)
           \/ DropLease(r) \/ DropLock(r)
    PROVE  RowFollows(r)'
<1> USE StatusNames DEF TypeOK, RowFollows, Unstarted, Told, Goto, store, reaper
<1>1. CASE Arrive(r)
  BY <1>1 DEF Arrive, ReserveSlot, RunnerBusy
<1>2. CASE HandlerStep(r)
  BY <1>2 DEF HandlerStep, AcquireLock, ConversationBusy, AcquireLockFails,
              CommitAndDispatch, CommitFails, HandlerUnlock
<1>3. CASE StartRun(r) \/ StartLeaseFails(r) \/ BuildOrchestratorFails(r)
  BY <1>3 DEF StartRun, StartLeaseFails, BuildOrchestratorFails
<1>4. CASE DropLease(r) \/ DropLock(r)
  BY <1>4 DEF DropLease, DropLock
<1>5. QED
  BY <1>1, <1>2, <1>3, <1>4

LEMMA SettledInductive ==
    ASSUME TypeOK, SettledInv, [Next]_vars
    PROVE  SettledInv'
<1>1. ASSUME NEW r \in Run, Arrive(r) \/ HandlerStep(r) \/ TaskStep(r)
      PROVE  SettledInv'
  <2>1. /\ UNCHANGED <<env, inspecting, reaping>>
        /\ \A q \in Run \ {r} : /\ pc'[q] = pc[q] /\ status'[q] = status[q]
                                /\ answers'[q] = answers[q] /\ announced'[q] = announced[q]
    BY <1>1, OwnStep
  <2>2. ASSUME "db" \notin env PROVE RowFollows(r)'
    BY <1>1, <2>1, <2>2, OrchestratorFollows, OthersFollow
       DEF SettledInv, TaskStep, Orchestrate
  <2>3. ASSUME "db" \notin env, NEW q \in Run \ {r} PROVE RowFollows(q)'
    BY <2>1, <2>3 DEF SettledInv, RowFollows, Unstarted, Told
  <2>4. QED
    BY <2>1, <2>2, <2>3 DEF SettledInv
<1>2. CASE (\E k \in Key : ExpireLock(k)) \/ (\E r \in Run : ExpireLease(r)) \/ UNCHANGED vars
  BY <1>2 DEF ExpireLock, ExpireLease, vars, run, reaper, SettledInv, RowFollows,
              Unstarted, Told
<1>3. CASE \E p \in Process : Crash(p)
  <2>1. /\ UNCHANGED <<env, status, announced, inspecting, reaping>>
        /\ \A r \in Run : pc'[r] = pc[r] \/ pc'[r] = "dead"
    BY <1>3 DEF Crash, store, reaper
  <2>2. ASSUME NEW r \in Run, RowFollows(r) PROVE RowFollows(r)'
    BY <2>1, <2>2 DEF RowFollows, Unstarted, Told
  <2>3. QED
    BY <2>1, <2>2 DEF SettledInv
<1>4. CASE ReaperStep
  <2>1. UNCHANGED <<pc, announced, env>>
    BY <1>4 DEF ReaperStep, ListStaleRuns, InspectItem, ReapRun, ReaperAborts, run
  <2>2. ASSUME "db" \notin env, NEW r \in Run PROVE RowFollows(r)'
    <3>1. RowFollows(r)
      BY <2>2 DEF SettledInv
    <3>2. \/ status'[r] = status[r]
          \/ status[r] \in Begun /\ status'[r] = "FAILED"
      BY <1>4, <3>1 DEF ReaperStep, ListStaleRuns, InspectItem, ReapRun, ReaperAborts,
                        run, TypeOK, RowFollows
    <3>3. r \in inspecting' \/ reaping' = r
              => \/ r \in inspecting \/ reaping = r
                 \/ status[r] = "RUNNING" /\ status'[r] = "RUNNING"
      BY <1>4, RunAssumption DEF ReaperStep, ListStaleRuns, InspectItem, ReapRun,
                                 ReaperAborts, run
    <3>4. QED
      BY <2>1, <3>1, <3>2, <3>3, StatusNames DEF RowFollows, Unstarted, Told
  <2>3. QED
    BY <2>1, <2>2 DEF SettledInv
<1>5. QED
  BY <1>1, <1>2, <1>3, <1>4 DEF Next

\* With a working database every task that is over has settled its run: the row is
\* terminal and the stream has ended, whatever the provider, the keys and the
\* reaper did; only where the lease could not be written or the orchestrator could
\* not be built does run_chat leave the row PENDING.
THEOREM TaskSettles == Spec => []TaskSettlesRun
<1>1. Init => SettledInv
  BY RunAssumption DEF Init, SettledInv, RowFollows
<1>2. TypeOK /\ SettledInv /\ [Next]_vars => SettledInv'
  BY SettledInductive
<1>3. SettledInv => TaskSettlesRun
  BY DEF SettledInv, RowFollows, Unstarted, Told, TaskSettlesRun
<1>4. QED
  BY <1>1, <1>2, <1>3, TypeCorrect, PTL DEF Spec

-----------------------------------------------------------------------------
(* Keys.  Where no process dies and Redis works, every way out of a label    *)
(* that holds a key deletes it.                                              *)

KeysInv ==
    env \cap {"crash", "redis"} = {} =>
        /\ \A k \in Key : lock[k] # NoRun =>
              KeyOf[lock[k]] = k /\ pc[lock[k]] \in LockLabels \cup {"unlock"}
        /\ \A r \in Run : lease[r] => pc[r] \in LeaseLabels

\* One run moves.  It may leave the labels of a key if the key is not its own by then.
LEMMA MoveKeepsKeys ==
    ASSUME TypeOK, NEW r \in Run, NEW label, pc' = [pc EXCEPT ![r] = label],
           KeysInv, env \cap {"crash", "redis"} = {}, env' = env,
           \A k \in Key : lock'[k] \in {lock[k], NoRun} \/ (lock'[k] = r /\ k = KeyOf[r]),
           label \in LockLabels \cup {"unlock"} \/ lock'[KeyOf[r]] # r,
           \A q \in Run \ {r} : lease'[q] = lease[q],
           lease'[r] => label \in LeaseLabels
    PROVE  KeysInv'
<1>1. \A q \in Run : pc'[q] = IF q = r THEN label ELSE pc[q]
  BY DEF TypeOK
<1>2. ASSUME NEW k \in Key, lock'[k] # NoRun
      PROVE  KeyOf[lock'[k]] = k /\ pc'[lock'[k]] \in LockLabels \cup {"unlock"}
  <2>1. CASE lock'[k] = r
    <3>1. k = KeyOf[r]
      BY <1>2, <2>1 DEF KeysInv
    <3>2. QED
      BY <1>1, <2>1, <3>1
  <2>2. CASE lock'[k] # r
    <3>1. lock'[k] = lock[k] /\ lock[k] \in Run
      BY <1>2, <2>2 DEF TypeOK
    <3>2. QED
      BY <1>1, <1>2, <2>2, <3>1 DEF KeysInv
  <2>3. QED
    BY <2>1, <2>2
<1>3. ASSUME NEW q \in Run, lease'[q] PROVE pc'[q] \in LeaseLabels
  BY <1>1, <1>3 DEF KeysInv
<1>4. QED
  BY <1>2, <1>3 DEF KeysInv

LEMMA KeysInductive ==
    ASSUME TypeOK, KeysInv, [Next]_vars
    PROVE  KeysInv'
<1>a. /\ LeaseLabels \subseteq LockLabels
      /\ {"commit", "lease", "dropLock"} \subseteq LockLabels
      /\ {"plan", "dropLease"} \subseteq LeaseLabels
      /\ {"idle", "lock", "refused", "unlock", "commit", "lease"} \cap LeaseLabels = {}
      /\ {"idle", "lock"} \cap (LockLabels \cup {"unlock"}) = {}
      /\ OrchestratorLabels \cup RaisingLabels \subseteq LeaseLabels
  BY DEF LeaseLabels, TaskLabels, LockLabels, SlotLabels, Labels, OrchestratorLabels,
         RaisingLabels
<1>b. env' = env
  <2>1. ASSUME NEW r \in Run, Arrive(r) \/ HandlerStep(r) \/ TaskStep(r) PROVE env' = env
    BY <2>1, OwnStep
  <2>2. QED
    BY <2>1 DEF Next, ExpireLock, ExpireLease, Crash, ReaperStep, ListStaleRuns,
                InspectItem, ReapRun, ReaperAborts, run, vars
<1> SUFFICES ASSUME env \cap {"crash", "redis"} = {} PROVE KeysInv'
  BY <1>b DEF KeysInv
<1>c. \A r \in Run : KeyOf[r] \in Key
  BY KeyAssumption
<1>1. ASSUME NEW r \in Run, Arrive(r) PROVE KeysInv'
  <2>1. PICK label \in {"lock", "refused"} : pc' = [pc EXCEPT ![r] = label]
    BY <1>1 DEF Arrive, ReserveSlot, RunnerBusy, Goto
  <2>2. pc[r] = "idle" /\ UNCHANGED <<lock, lease>>
    BY <1>1 DEF Arrive, ReserveSlot, RunnerBusy, redis
  <2>3. lock[KeyOf[r]] # r /\ ~ lease[r]
    BY <1>a, <1>c, <2>2, RunAssumption DEF KeysInv
  <2>4. QED
    BY <1>b, <2>1, <2>2, <2>3, MoveKeepsKeys
<1>2. ASSUME NEW r \in Run, HandlerStep(r) PROVE KeysInv'
  <2> USE DEF Goto, TypeOK
  <2>1. CASE AcquireLock(r)
    <3>1. /\ pc' = [pc EXCEPT ![r] = "commit"] /\ lease' = lease /\ pc[r] = "lock"
          /\ lock' = [lock EXCEPT ![KeyOf[r]] = r]
      BY <2>1 DEF AcquireLock
    <3>2. ~ lease[r]
      BY <1>a, <3>1 DEF KeysInv
    <3>3. QED
      BY <1>a, <1>b, <3>1, <3>2, MoveKeepsKeys
  <2>2. CASE ConversationBusy(r)
    <3>1. /\ pc' = [pc EXCEPT ![r] = "refused"] /\ UNCHANGED <<lock, lease>> /\ pc[r] = "lock"
      BY <2>2 DEF ConversationBusy, redis
    <3>2. ~ lease[r] /\ lock[KeyOf[r]] # r
      BY <1>a, <1>c, <3>1, RunAssumption DEF KeysInv
    <3>3. QED
      BY <1>b, <3>1, <3>2, MoveKeepsKeys
  <2>3. CASE CommitAndDispatch(r) \/ CommitFails(r)
    <3>1. PICK label \in {"lease", "unlock"} : pc' = [pc EXCEPT ![r] = label]
      BY <2>3 DEF CommitAndDispatch, CommitFails
    <3>2. UNCHANGED <<lock, lease>> /\ pc[r] = "commit"
      BY <2>3 DEF CommitAndDispatch, CommitFails, redis
    <3>3. ~ lease[r]
      BY <1>a, <3>2 DEF KeysInv
    <3>4. QED
      BY <1>a, <1>b, <3>1, <3>2, <3>3, MoveKeepsKeys
  <2>4. CASE HandlerUnlock(r)
    <3>1. /\ pc' = [pc EXCEPT ![r] = "refused"] /\ lease' = lease /\ pc[r] = "unlock"
          /\ DeleteOwnLock(r)
      BY <2>4 DEF HandlerUnlock, ReleaseLock
    <3>2. ~ lease[r]
      BY <1>a, <3>1 DEF KeysInv
    <3>3. lock'[KeyOf[r]] # r /\ \A k \in Key : lock'[k] \in {lock[k], NoRun}
      BY <1>c, <3>1, RunAssumption DEF DeleteOwnLock
    <3>4. QED
      BY <1>b, <3>1, <3>2, <3>3, MoveKeepsKeys
  <2>5. ~ AcquireLockFails(r)
    BY DEF AcquireLockFails
  <2>6. QED
    BY <1>2, <2>1, <2>2, <2>3, <2>4, <2>5 DEF HandlerStep
<1>3. ASSUME NEW r \in Run, TaskStep(r) PROVE KeysInv'
  <2> USE DEF Goto
  <2>1. CASE StartRun(r) \/ BuildOrchestratorFails(r)
    <3>1. PICK label \in {"plan", "dropLease"} : pc' = [pc EXCEPT ![r] = label]
      BY <2>1 DEF StartRun, BuildOrchestratorFails
    <3>2. lock' = lock /\ \A q \in Run \ {r} : lease'[q] = lease[q]
      BY <2>1 DEF StartRun, BuildOrchestratorFails, TypeOK
    <3>3. QED
      BY <1>a, <1>b, <3>1, <3>2, MoveKeepsKeys
  <2>2. CASE Orchestrate(r)
    <3>1. PICK label \in OrchestratorLabels \cup RaisingLabels :
              pc' = [pc EXCEPT ![r] = label]
      BY <2>2, OrchestratorMoves DEF Orchestrate
    <3>2. UNCHANGED <<lock, lease>>
      BY <2>2 DEF Orchestrate, redis
    <3>3. QED
      BY <1>a, <1>b, <3>1, <3>2, MoveKeepsKeys
  <2>3. CASE DropLease(r)
    <3>1. /\ pc' = [pc EXCEPT ![r] = "dropLock"] /\ lock' = lock
          /\ lease' = [lease EXCEPT ![r] = FALSE]
      BY <2>3 DEF DropLease
    <3>2. ~ lease'[r] /\ \A q \in Run \ {r} : lease'[q] = lease[q]
      BY <3>1 DEF TypeOK
    <3>3. QED
      BY <1>a, <1>b, <3>1, <3>2, MoveKeepsKeys
  <2>4. CASE DropLock(r)
    <3>1. /\ pc' = [pc EXCEPT ![r] = "done"] /\ lease' = lease /\ pc[r] = "dropLock"
          /\ DeleteOwnLock(r)
      BY <2>4 DEF DropLock, ReleaseLock
    <3>2. ~ lease[r]
      <4>1. "dropLock" \notin LeaseLabels
        BY DEF LeaseLabels
      <4>2. QED
        BY <3>1, <4>1 DEF KeysInv
    <3>3. lock'[KeyOf[r]] # r /\ \A k \in Key : lock'[k] \in {lock[k], NoRun}
      BY <1>c, <3>1, RunAssumption DEF DeleteOwnLock, TypeOK
    <3>4. QED
      BY <1>b, <3>1, <3>2, <3>3, MoveKeepsKeys
  <2>5. ~ StartLeaseFails(r)
    BY DEF StartLeaseFails
  <2>6. QED
    BY <1>3, <2>1, <2>2, <2>3, <2>4, <2>5 DEF TaskStep
<1>4. CASE (\E k \in Key : ExpireLock(k)) \/ (\E r \in Run : ExpireLease(r))
  <2>1. /\ pc' = pc
        /\ \A k \in Key : lock'[k] \in {lock[k], NoRun}
        /\ \A r \in Run : lease'[r] => lease[r]
    BY <1>4 DEF ExpireLock, ExpireLease, run, TypeOK
  <2>2. QED
    BY <1>b, <2>1 DEF KeysInv
<1>5. ~ \E p \in Process : Crash(p)
  BY DEF Crash
<1>6. CASE ReaperStep \/ UNCHANGED vars
  BY <1>6 DEF ReaperStep, ListStaleRuns, InspectItem, ReapRun, ReaperAborts, run, redis,
              vars, KeysInv
<1>7. QED
  BY <1>1, <1>2, <1>3, <1>4, <1>5, <1>6 DEF Next

\* Where no process dies and Redis works, no conversation lock and no lease
\* outlives the handler or the task that holds it, on any error path: nobody ever
\* waits for an expiry.
THEOREM KeysReturned == Spec => []NoKeyLeftOver
<1>1. Init => KeysInv
  BY DEF Init, KeysInv
<1>2. TypeOK /\ KeysInv /\ [Next]_vars => KeysInv'
  BY KeysInductive
<1>3. KeysInv => NoKeyLeftOver
  BY DEF KeysInv, NoKeyLeftOver
<1>4. QED
  BY <1>1, <1>2, <1>3, TypeCorrect, PTL DEF Spec

=============================================================================
