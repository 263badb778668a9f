--------------------------- MODULE ChatAcceptance ---------------------------
(***************************************************************************)
(* POST /chat from the request to the answer: create_chat and its helpers  *)
(* (app/api/routers/chat.py), the repository calls it makes in one         *)
(* database transaction (app/api/repos.py), and the rollback of the        *)
(* session dependency (app/db/session.py).                                 *)
(*                                                                         *)
(* Every request is served by a process of its own.  A run has the name of *)
(* the request it was created for.  An INSERT of an idempotency record     *)
(* holds its place in the unique index until the transaction ends; others  *)
(* wait there.  Capacity slots, leases and the execution of a run are the  *)
(* subject of RealtimeRun and BatchRun: here a run just ends.              *)
(***************************************************************************)
CONSTANTS
    Request,          \* requests
    User, Key,        \* users and the Idempotency-Key headers they send
    Conversation,     \* conversation ids clients know from elsewhere
    Owner,            \* the owners of those conversations that exist
    Body,             \* request bodies, as far as acceptance looks at them
    Input,            \* the requests clients send
    RuntimeMode,      \* settings.chat_runtime_mode
    MockProvider,     \* settings.llm_provider is the mock
    DegradeToBatch,   \* settings.provider_realtime_degrade_to_batch
    NoRequest, NoKey, NotAsked, NoConversation

Bodies == [conversation : Conversation \cup {NoConversation},
           mode : {"auto", "realtime", "batch"}, slow : BOOLEAN]

Asks == [user : User, key : Key \cup {NoKey}, body : Body, stream : BOOLEAN]

ASSUME RequestAssumption == NoRequest \notin Request

ASSUME InputAssumption == /\ Body \subseteq Bodies
                          /\ Input \subseteq Asks
                          /\ NotAsked \notin Asks

ASSUME NullAssumption == NoKey \notin Key /\ NoConversation \notin Conversation

ASSUME OwnerAssumption == DOMAIN Owner \subseteq Conversation

ASSUME SettingsAssumption ==
    /\ RuntimeMode \in {"auto", "celery", "realtime"}
    /\ MockProvider \in BOOLEAN
    /\ DegradeToBatch \in BOOLEAN

VARIABLES
    asked,      \* the requests as their clients sent them
    pc,         \* where each handler is
    route,      \* the route each handler has chosen
    claim,      \* idempotency records inserted and not committed, by index entry
    record,     \* idempotency records, by index entry
    status,     \* agent_run rows
    owner,      \* conversation rows: id to user
    home,       \* the conversation of each run
    sent,       \* the run was handed to Celery or to the realtime runner
    lock,       \* Redis: conversation locks
    broken,     \* requests that met a failing store or a dying process
    reply       \* what each client was answered

rows == <<record, status, owner, home>>
vars == <<asked, pc, route, claim, record, status, owner, home, sent, lock, broken, reply>>

-----------------------------------------------------------------------------
(* Identifiers.                                                             *)

\* new_conversation_id is called twice: once by the handler, for the answer,
\* and once by create_conversation, for the row.
NewIds == [request : Request, from : {"handler", "repository"}]

ConversationIds == Conversation \cup NewIds

IdOf(r, from) == [request |-> r, from |-> from]

AnnouncedId(r) ==
    IF asked[r].body.conversation # NoConversation
    THEN asked[r].body.conversation ELSE IdOf(r, "handler")

\* uq_idempotency_record_user_key.
Index == User \X Key

Scope(r) == <<asked[r].user, asked[r].key>>

Keyed(r) == asked[r] # NotAsked /\ asked[r].key # NoKey

\* chat_request_hash: stream is no part of it, and a degradation comes later.
SameRequest(r, s) == asked[r].body = asked[s].body

\* f"new:{user}:{request_hash}" where there is no conversation to lock.
NewConversationLocks == User \X Body

LockKey(r) ==
    IF asked[r].body.conversation # NoConversation
    THEN asked[r].body.conversation ELSE <<asked[r].user, asked[r].body>>

LockKeys == Conversation \cup NewConversationLocks

Labels == {"idle", "lookup", "preflight", "claim", "guard", "write",
           "unlock", "dispatch", "wait", "done", "dead"}

Answers == {"none", "accepted", "finished", "timeout",          \* 202, 200 or 502, 504
            "conflict", "forbidden", "limited", "busy",         \* 409, 403, 429 or 503, 409
            "full", "queue", "error"}                           \* 503, 503, 500

Replies == [answer : Answers, run : Request \cup {NoRequest},
            conversation : ConversationIds \cup {NoConversation}]

\* The answers that promise a run.
Acceptances == {"accepted", "finished", "timeout"}

\* The answers given before anything was written.
Refusals == {"conflict", "forbidden", "limited", "busy", "full"}

Plain(answer) == [answer |-> answer, run |-> NoRequest, conversation |-> NoConversation]

NoRecord == [run |-> NoRequest, conversation |-> NoConversation]

Records == [run : Request, conversation : ConversationIds] \cup {NoRecord}

Init ==
    /\ asked = [r \in Request |-> NotAsked]
    /\ pc = [r \in Request |-> "idle"]
    /\ route = [r \in Request |-> "realtime"]
    /\ claim = [i \in Index |-> NoRequest]
    /\ record = [i \in Index |-> NoRecord]
    /\ status = [r \in Request |-> "NO_ROW"]
    /\ owner = Owner
    /\ home = [r \in Request |-> NoConversation]
    /\ sent = [r \in Request |-> FALSE]
    /\ lock = [k \in LockKeys |-> NoRequest]
    /\ broken = {}
    /\ reply = [r \in Request |-> Plain("none")]

Goto(r, label) == pc' = [pc EXCEPT ![r] = label]

Answer(r, rep) ==
    /\ reply' = [reply EXCEPT ![r] = rep]
    /\ Goto(r, "done")

-----------------------------------------------------------------------------
(* The beginning of create_chat.                                            *)

\* Mutant: the mode the client asks for is taken as it is.
SelectRouteVerbatim(mode, slow) == IF slow THEN "batch" ELSE mode

SelectRoute(mode, slow) ==
    CASE RuntimeMode = "celery"   -> "batch"
      [] RuntimeMode = "realtime" -> "realtime"
      [] OTHER -> IF mode = "batch" \/ (mode = "auto" /\ slow)
                  THEN "batch" ELSE "realtime"

Ask(r) ==
    /\ pc[r] = "idle"
    /\ \E a \in Input :
         /\ asked' = [asked EXCEPT ![r] = a]
         /\ route' = [route EXCEPT ![r] = SelectRoute(a.body.mode, a.body.slow)]
         /\ Goto(r, IF a.key = NoKey THEN "preflight" ELSE "lookup")
    /\ UNCHANGED <<claim, rows, sent, lock, broken, reply>>

\* Mutant: the record is replayed to whoever sends the key.
ReplayAnyBody(r) ==
    LET rec == record[Scope(r)]
    IN  Answer(r, [answer |-> "accepted", run |-> rec.run,
                   conversation |-> rec.conversation])

\* _replay_idempotency_record.
Replay(r) ==
    LET rec == record[Scope(r)]
    IN  Answer(r, IF SameRequest(r, rec.run)
                  THEN [answer |-> "accepted", run |-> rec.run,
                        conversation |-> rec.conversation]
                  ELSE Plain("conflict"))

\* _try_idempotency_replay.
Lookup(r) ==
    /\ pc[r] = "lookup"
    /\ IF record[Scope(r)] = NoRecord
       THEN Goto(r, "preflight") /\ UNCHANGED reply
       ELSE Replay(r)
    /\ UNCHANGED <<asked, route, claim, rows, sent, lock, broken>>

\* The transaction ends without a commit: get_session rolls back.
Rollback(r) ==
    claim' = [i \in Index |-> IF claim[i] = r THEN NoRequest ELSE claim[i]]

\* Mutant: the session is closed without a rollback.
RefuseInTransaction(r, answer) ==
    /\ Answer(r, Plain(answer))
    /\ UNCHANGED <<asked, route, claim, rows, sent, lock, broken>>

\* HTTPException before anything was written.
Refuse(r, answer) ==
    /\ Rollback(r)
    /\ Answer(r, Plain(answer))
    /\ UNCHANGED <<asked, route, rows, sent, lock, broken>>

\* Without a key there is nothing to claim; the batch route has no guards.
AfterClaim(r) == IF route[r] = "realtime" THEN "guard" ELSE "write"

AfterPreflight(r, way) ==
    IF Keyed(r) THEN "claim" ELSE IF way = "realtime" THEN "guard" ELSE "write"

\* _apply_provider_preflight: only the realtime route of a real provider asks.
Preflighted(r) == route[r] = "realtime" /\ ~MockProvider

PreflightPasses(r) ==
    /\ pc[r] = "preflight"
    /\ Goto(r, AfterPreflight(r, route[r]))
    /\ UNCHANGED <<asked, route, claim, rows, sent, lock, broken, reply>>

PreflightDegrades(r) ==
    /\ pc[r] = "preflight"
    /\ Preflighted(r)
    /\ DegradeToBatch
    /\ asked[r].body.mode # "realtime"
    /\ route' = [route EXCEPT ![r] = "batch"]
    /\ Goto(r, AfterPreflight(r, "batch"))
    /\ UNCHANGED <<asked, claim, rows, sent, lock, broken, reply>>

\* The limiter says no, or does not answer in time.
PreflightRefuses(r) ==
    /\ pc[r] = "preflight"
    /\ Preflighted(r)
    /\ Refuse(r, "limited")

-----------------------------------------------------------------------------
(* claim_idempotency_record: insert first.                                  *)

\* Mutant: no unique index, every insert succeeds.
ClaimBlindly(r) ==
    /\ pc[r] = "claim"
    /\ claim' = [claim EXCEPT ![Scope(r)] = r]
    /\ Goto(r, AfterClaim(r))
    /\ UNCHANGED <<asked, route, rows, sent, lock, broken, reply>>

\* Mutant: the insert is only flushed by the commit, it waits for nobody.
ClaimWithoutFlush(r) ==
    /\ pc[r] = "claim"
    /\ record[Scope(r)] = NoRecord
    /\ claim' = [claim EXCEPT ![Scope(r)] = r]
    /\ Goto(r, AfterClaim(r))
    /\ UNCHANGED <<asked, route, rows, sent, lock, broken, reply>>

ClaimWins(r) ==
    /\ pc[r] = "claim"
    /\ claim[Scope(r)] = NoRequest
    /\ record[Scope(r)] = NoRecord
    /\ claim' = [claim EXCEPT ![Scope(r)] = r]
    /\ Goto(r, AfterClaim(r))
    /\ UNCHANGED <<asked, route, rows, sent, lock, broken, reply>>

\* IntegrityError: roll back, read the record that is in the way, replay it.
\* Records are never deleted, so it is there.
ClaimLoses(r) ==
    /\ pc[r] = "claim"
    /\ record[Scope(r)] # NoRecord
    /\ Replay(r)
    /\ UNCHANGED <<asked, route, claim, rows, sent, lock, broken>>

-----------------------------------------------------------------------------
(* The guards of the realtime route: owner, capacity, conversation lock.    *)

Forbidden(r) ==
    /\ pc[r] = "guard"
    /\ asked[r].body.conversation \in DOMAIN owner
    /\ owner[asked[r].body.conversation] # asked[r].user
    /\ Refuse(r, "forbidden")

\* No runner, or no capacity slot: the runner is a matter of RealtimeRun.
RunnerFull(r) ==
    /\ pc[r] = "guard"
    /\ Refuse(r, "full")

MayWrite(r) ==
    asked[r].body.conversation \in DOMAIN owner =>
        owner[asked[r].body.conversation] = asked[r].user

ConversationBusy(r) ==
    /\ pc[r] = "guard"
    /\ MayWrite(r)
    /\ lock[LockKey(r)] # NoRequest
    /\ Refuse(r, "busy")

LockConversation(r) ==
    /\ pc[r] = "guard"
    /\ MayWrite(r)
    /\ lock[LockKey(r)] = NoRequest
    /\ lock' = [lock EXCEPT ![LockKey(r)] = r]
    /\ Goto(r, "write")
    /\ UNCHANGED <<asked, route, claim, rows, sent, broken, reply>>

\* The acquisition raises although the key was set: nobody will release it.
LockLooksFailed(r) ==
    /\ pc[r] = "guard"
    /\ MayWrite(r)
    /\ lock[LockKey(r)] = NoRequest
    /\ lock' = [lock EXCEPT ![LockKey(r)] = r]
    /\ Rollback(r)
    /\ broken' = broken \cup {r}
    /\ Answer(r, Plain("error"))
    /\ UNCHANGED <<asked, route, rows, sent>>

-----------------------------------------------------------------------------
(* The writes, seen by nobody before their commit, and the commit.          *)

\* ensure_conversation: an id that names no row is dropped for a new one.
EnsuredId(r) ==
    IF AnnouncedId(r) \in DOMAIN owner THEN AnnouncedId(r) ELSE IdOf(r, "repository")

EnsureConversation(r) ==
    owner' = [c \in DOMAIN owner \cup {EnsuredId(r)} |->
                IF c \in DOMAIN owner THEN owner[c] ELSE asked[r].user]

\* The idempotency record holds the answer composed before the claim.
WriteRows(r) ==
    /\ EnsureConversation(r)
    /\ home' = [home EXCEPT ![r] = EnsuredId(r)]
    /\ status' = [status EXCEPT ![r] = "PENDING"]
    /\ record' = [i \in Index |-> IF claim[i] = r
                                  THEN [run |-> r, conversation |-> AnnouncedId(r)]
                                  ELSE record[i]]

Commit(r) ==
    /\ pc[r] = "write"
    /\ WriteRows(r)
    /\ Rollback(r)
    /\ Goto(r, "dispatch")
    /\ UNCHANGED <<asked, route, sent, lock, broken, reply>>

\* What the finally clause has to give back before the error is answered.
Unwind(r) ==
    IF \E k \in LockKeys : lock[k] = r
    THEN Goto(r, "unlock") /\ UNCHANGED reply
    ELSE Answer(r, Plain("error"))

\* A statement or the commit fails; the database gives the transaction up.
StoreFails(r) ==
    /\ pc[r] \in {"lookup", "claim", "guard", "write"}
    /\ Rollback(r)
    /\ broken' = broken \cup {r}
    /\ Unwind(r)
    /\ UNCHANGED <<asked, route, rows, sent, lock>>

\* The commit took effect, but its answer was lost.
CommitLooksFailed(r) ==
    /\ pc[r] = "write"
    /\ WriteRows(r)
    /\ Rollback(r)
    /\ broken' = broken \cup {r}
    /\ Unwind(r)
    /\ UNCHANGED <<asked, route, sent, lock>>

Unlock(r) ==
    /\ pc[r] = "unlock"
    /\ lock' = [k \in LockKeys |-> IF lock[k] = r THEN NoRequest ELSE lock[k]]
    /\ Answer(r, Plain("error"))
    /\ UNCHANGED <<asked, route, claim, rows, sent, broken>>

-----------------------------------------------------------------------------
(* After the commit.                                                        *)

\* _accepted for stream=true; otherwise _wait_sync follows.
Accepted(r) ==
    IF asked[r].stream
    THEN Answer(r, [answer |-> "accepted", run |-> r, conversation |-> AnnouncedId(r)])
    ELSE Goto(r, "wait") /\ UNCHANGED reply

Dispatch(r) ==
    /\ pc[r] = "dispatch"
    /\ sent' = [sent EXCEPT ![r] = TRUE]
    /\ Accepted(r)
    /\ UNCHANGED <<asked, route, claim, rows, lock, broken>>

\* RunnerUnavailableError: 503 for a run that stays in the database.
DispatchFails(r) ==
    /\ pc[r] = "dispatch"
    /\ route[r] = "batch"
    /\ broken' = broken \cup {r}
    /\ Answer(r, Plain("queue"))
    /\ UNCHANGED <<asked, route, claim, rows, sent, lock>>

\* _wait_sync answers with the conversation of the row.
WaitSync(r) ==
    /\ pc[r] = "wait"
    /\ \E answer \in {"finished", "timeout"} :
         /\ answer = "finished" => status[r] = "ENDED"
         /\ Answer(r, [answer |-> answer, run |-> r,
                       conversation |-> IF answer = "finished" THEN home[r]
                                        ELSE NoConversation])
    /\ UNCHANGED <<asked, route, claim, rows, sent, lock, broken>>

HandlerStep(r) ==
    \/ Lookup(r)
    \/ PreflightPasses(r) \/ PreflightDegrades(r) \/ PreflightRefuses(r)
    \/ ClaimWins(r) \/ ClaimLoses(r)
    \/ Forbidden(r) \/ RunnerFull(r) \/ ConversationBusy(r) \/ LockConversation(r)
    \/ LockLooksFailed(r)
    \/ Commit(r)
    \/ StoreFails(r) \/ CommitLooksFailed(r) \/ Unlock(r)
    \/ Dispatch(r) \/ DispatchFails(r) \/ WaitSync(r)

-----------------------------------------------------------------------------
(* The rest of the system.                                                  *)

\* The process dies: the database gives up its transaction, the lock stays.
Crash(r) ==
    /\ pc[r] \notin {"idle", "done", "dead"}
    /\ Rollback(r)
    /\ broken' = broken \cup {r}
    /\ Goto(r, "dead")
    /\ UNCHANGED <<asked, route, rows, sent, lock, reply>>

\* The run is over, and with it the hold on its conversation.
EndRun(r) ==
    /\ status[r] = "PENDING"
    /\ sent[r]
    /\ status' = [status EXCEPT ![r] = "ENDED"]
    /\ lock' = [k \in LockKeys |-> IF lock[k] = r THEN NoRequest ELSE lock[k]]
    /\ UNCHANGED <<asked, pc, route, claim, record, owner, home, sent, broken, reply>>

\* The reaper sends a batch task again whose message was lost.
ReaperSends(r) ==
    /\ status[r] = "PENDING"
    /\ route[r] = "batch"
    /\ ~sent[r]
    /\ pc[r] \in {"done", "dead"}
    /\ sent' = [sent EXCEPT ![r] = TRUE]
    /\ UNCHANGED <<asked, pc, route, claim, rows, lock, broken, reply>>

\* The lock of a request that was never dispatched and lost hold of it.
ExpireLock(r) ==
    /\ pc[r] \in {"done", "dead"}
    /\ ~sent[r]
    /\ \E k \in LockKeys : lock[k] = r
    /\ lock' = [k \in LockKeys |-> IF lock[k] = r THEN NoRequest ELSE lock[k]]
    /\ UNCHANGED <<asked, pc, route, claim, rows, sent, broken, reply>>

Next == \E r \in Request :
            \/ Ask(r) \/ HandlerStep(r)
            \/ Crash(r) \/ EndRun(r) \/ ReaperSends(r) \/ ExpireLock(r)

Spec == Init /\ [][Next]_vars

-----------------------------------------------------------------------------
(* Properties.                                                              *)

TypeOK ==
    /\ asked \in [Request -> Input \cup {NotAsked}]
    /\ pc \in [Request -> Labels]
    /\ route \in [Request -> {"realtime", "batch"}]
    /\ claim \in [Index -> Request \cup {NoRequest}]
    /\ record \in [Index -> Records]
    /\ status \in [Request -> {"NO_ROW", "PENDING", "ENDED"}]
    /\ DOMAIN owner \subseteq ConversationIds
    /\ home \in [Request -> ConversationIds \cup {NoConversation}]
    /\ sent \in [Request -> BOOLEAN]
    /\ lock \in [LockKeys -> Request \cup {NoRequest}]
    /\ broken \subseteq Request
    /\ reply \in [Request -> Replies]

\* Of the requests of one user with one key at most one ever has a run: the
\* row exists exactly if the record names it, whatever handlers, stores and
\* processes do between the claim and the commit.
OneRunPerKey ==
    \A r \in Request :
        Keyed(r) => (status[r] # "NO_ROW" <=> record[Scope(r)].run = r)

\* Whoever waits in the unique index waits for a request that goes on, never
\* for one that is answered, dead or waiting itself; and a request refused with
\* 403, 409, 429 or 503 before its commit leaves neither run nor lock.
NothingLeftBehind ==
    /\ \A i \in Index :
         claim[i] # NoRequest => pc[claim[i]] \in {"guard", "write"}
    /\ \A r \in Request : reply[r].answer \in Refusals =>
         /\ status[r] = "NO_ROW"
         /\ \A k \in LockKeys : lock[k] # r

\* claim_idempotency_record: concurrent requests with one key replay "instead
\* of racing into CONVERSATION_BUSY": who is told so is not in the way of
\* himself.  Only a request that met a failure may leave its lock behind.
BusyMeansAnother ==
    [][\A r \in Request : reply'[r].answer = "busy" /\ reply[r].answer # "busy" =>
         \/ ~Keyed(r)
         \/ Scope(lock[LockKey(r)]) # Scope(r)
         \/ lock[LockKey(r)] \in broken]_vars

\* The idempotency of POST /chat: OncePerKey, where the chosen request is the
\* one whose record was committed.
Promise == INSTANCE OncePerKey WITH
    chosen <- [i \in Index |-> record[i].run],
    told   <- [r \in Request |-> reply[r].run]

OncePerKey == Promise!Spec

=============================================================================
