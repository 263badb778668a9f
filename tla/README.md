# A TLA+ model of general-agent-ai

The repository is a chat backend for an LLM agent: a FastAPI service accepts
chat requests, runs each of them either in its own event loop ("realtime") or
on a Celery worker ("batch"), stores conversations and runs in PostgreSQL,
streams events through Redis, and answers questions from documents that a
worker has cut into chunks and embedded.  The modules here model a request from
the rate limiter to the end of its run and of its event stream, and a document
from its upload to the chunks a query finds, under the failures the code
provides for, and state what must be true of them.  Paths below are relative to
`src/app`.

## 1. Inventory

| Component | State | Operations | Talks to |
|---|---|---|---|
| API rate limiter and middleware (`api/ratelimit.py`, `api/middleware.py`) | a Redis sorted set per user | authenticate, allow (trim, add, count, expire) | Redis |
| Chat router (`api/routers/chat.py`, `api/repos.py`, `api/idempotency.py`) | one DB session per request; local variables of the handler; idempotency records | `create_chat`: idempotency replay and claim, route selection, provider preflight, capacity, lock, rows, commit, dispatch, synchronous wait | runner, lock, DB, Celery, event stream |
| Realtime runner (`runtime/runner.py`) | `_reserved_runs`, `_active_runs` of the process | `try_acquire_capacity`, `run_chat`, heartbeat loop | orchestrator, lock, lease |
| Conversation lock and run lease (`runtime/locks.py`) | Redis keys `lock:conversation:*`, `run:*:lease`, 120 s each | acquire, renew, release, start, is_alive | Redis |
| Orchestrator (`runtime/orchestrator.py`) | event counter of the execution | history, mark running, quota, agent loop, answer, completion, two failure handlers | repositories, event stream, provider limiter |
| Agent turn (`runtime/agent_factory.py`, `runtime/token_stream.py`, `runtime/adapters.py`, `tools/*`) | the buffer of the aggregator, the tool calls under way, `tool_call_log` | model requests, token push and flush, tool routing with retries, audit | Pydantic AI, RAG, event stream |
| Run status (`db/state_machine.py`, `db/repositories.py`, `db/init.sql`) | rows `agent_run`, `message`, `task_state` | transition check, status update, unique index on the answer | PostgreSQL |
| Worker tasks (`tasks/agent_tasks.py`, `tasks/run_store.py`, `tasks/celery_app.py`) | the Celery message with its retry count | receive, mark running, orchestrate, mark succeeded, report, retry, acknowledge; ingest | broker, orchestrator, DB |
| Reaper (`tasks/reaper.py`) | a snapshot of stale rows; `task_state.attempt` | `run_once`: list, check lease, fail, send again, count | DB, Redis, Celery |
| Event stream (`bus/stream_bus.py`, `api/routers/stream.py`, `api/runner_gateway.py`) | one trimmed Redis stream per run | publish, replay, subscribe; SSE and WebSocket consumers | Redis |
| Provider limiter (`runtime/provider_limits.py`) | per model, a bucket of requests and tokens, and a back-off key | check, acquire, settle, record error | Redis or memory |
| RAG (`rag/*`, `api/routers/rag.py`) | knowledge bases, documents, jobs, chunks, query log | create, ingest, query | DB with pgvector, embedder, Celery |
| LLM router (`llm/*`) | registrations | complete | HTTP |

What is hard in it:

* **Concurrency.**  Every await of a handler, task or worker is a point where
  the others go on.  A repository call reads a row, checks the transition in
  Python and commits later, with no lock on the row; the ingestion checks no
  status at all.
* **Half-done work.**  A call to Redis or the database that raises may have
  taken effect.  Rows are committed before the run or the document is
  dispatched; the task is sent again before the attempt is counted; a retry is
  sent before the old message is acknowledged; an ingestion is nine transactions.
* **Crashes.**  A process takes its slots, heartbeats and tasks with it; a lost
  worker's message is delivered again.
* **Time.**  Locks and leases expire; heartbeats may be late; workers have soft
  and hard time limits; scripts compute with times read before they were sent.
* **Several judges.**  The reaper, the orchestrator and the worker's own
  bookkeeping all write the run's status.

What makes each part correct: no window of a user or of a provider holds more
than the limit; a key makes one run and a refused request leaves nothing behind;
a slot is given back exactly once; a conversation is served by one run at a time;
a run stores at most one answer; the status follows the transition table and a
terminal one is final; a stream loses nothing, ends, and ends with the truth; a
tool call is announced, executed and audited once; the reaper only touches what
is dead; every accepted run converges; a document that counts as embedded is
found whole.  `PROJECT.json` lists the hazards one by one, each at its line.

## 2. Modules

```
OncePerKey (abstract) ── ChatAcceptance ──┬── MCChatAcceptance
                                          └── ChatAcceptanceProofs

RunStatus ── Orchestrator ──┬── RealtimeRun ──┬── MCRealtimeRun
    │                       │                 └── RealtimeRunProofs
    │                       └── BatchRun ─────┬── MCBatchRun
    │                                         └── BatchRunProofs
    └── RunLifecycle (abstract; RealtimeRun implements it)

Chunker ── RagIngestion ──┬── MCRagIngestion
                          └── RagIngestionProofs

AgentTurn (implements the agent step of Orchestrator),
ApiRateLimit, EventStream, ProviderLimiter:
    each with an MC module and a proof module of its own
```

* **RunStatus** – the statuses and the transition table.
* **RunLifecycle** – what the rows promise, whoever writes them: PENDING once,
  then the table, and at most one answer.
* **OncePerKey** – what an idempotency key promises: of the requests that carry
  it one is chosen, and who is told a run is told the chosen one's, provided he
  asked for the same thing.
* **ApiRateLimit** – both middlewares.  The pipeline is one step, as in Redis;
  the time it trims and scores with was read when it was *sent*, and it may fail
  before or after it took effect.  `prompt` says whether a behaviour executes
  every command in the tick in which it was sent.
* **ChatAcceptance** – `create_chat` up to its answer.  A request goes through
  replay, claim, preflight, capacity, lock, rows, commit and dispatch; `claim`
  is an uncommitted INSERT that makes others wait in the unique index, `record`
  the committed one, `lock` the conversation locks.  Any call may raise, and any
  process die.  A run goes by the name of its request.  Once dispatched a run
  just ends and frees its lock; what it does meanwhile is the next two modules.
* **Orchestrator** – one call of `AgentOrchestrator.run`.  An execution `x`
  acts on a run `r`; `pc[x]` is its place in the code.  Every repository call is
  a *Read* (look at the row, check) and a *Commit* (write, whatever the row
  holds by then).  `announced[r]` is the first terminal event that reached the
  stream: consumers stop at it (`stream.py:39`), so later ones are not seen.
* **RealtimeRun** – the realtime route.  A run is one request; its actions are
  the handler from the capacity reservation on, then the background task, with
  the orchestrator's actions in the middle.  `reserved`, `lock`, `lease` are the
  runner's counter and the Redis keys.  `Crash(p)` stops everything on a process
  and resets its counter; shutting down and cancelling a request are the same
  thing to the model.  The reaper goes through a snapshot item by item.
* **BatchRun** – the batch route.  `ready` counts the waiting copies of each
  message, `holding` is what each worker has not acknowledged, `task` and
  `attempt` are the task row.  Workers execute the same orchestrator.  The
  worker's own ERROR report goes to the legacy Pub/Sub bus, so it announces
  nothing on the stream.
* **AgentTurn** – what the orchestrator's agent loop is in detail: `_run_agent`
  from the quota to the settlement.  A response of the model is some text, then
  some tool calls.  Tokens are numbered, so that `events` shows which came in
  what order; the aggregator holds some back in `buffer`.  The calls of one
  response run side by side through the stages of ToolRouter; `audit[c]` holds
  the rows of `tool_call_log` that tell of call `c`.  `TurnIsOneStep` states that the
  turn implements the single agent step of Orchestrator.
* **EventStream** – what becomes of a run's events after `publish`.  The stream
  is the interval from `first` to the last id, trimmed by `XADD MAXLEN`.  A
  reader goes through the code of `StreamBus.subscribe`: retention check and
  replay for a cursor, the range read, the switch to live reading, `XREAD` and
  its blocking timeout, each an action of its own with the publisher in between.
  Clients come by SSE or WebSocket, are turned away if the conversation is not
  theirs, are told of a gap or of a subscription that broke, leave and come back
  with the id of the last event they got; a waiter (`stream=False`) comes once,
  has no cursor and may time out.
* **ProviderLimiter** – the Redis limiter for one provider and model.  A call
  goes from the preflight check over the reservation, the second attempt after a
  wait, and the agent loop to the settlement or the error report.  The scripts
  are operators on the bucket record and are executed in one step, as in Redis;
  the time they carry was read when the command was sent; `prompt` is as in
  ApiRateLimit.  `start`, `reserved`, `debited` and `asked` are history variables
  that nothing reads: `start` is the beginning of an arbitrary window, the others
  add up what happened in it.
* **Chunker** – `chunk_text` as a recursive function, and what a caller may rely
  on: it covers the text, its pieces are bounded, its windows advance.  A character
  is blank, the end of a sentence, the end of a line, which is both a break and
  stripped, or anything else; so a break may vanish from a piece, and a window that
  breaks after line ends only gives none.
* **RagIngestion** – `create_document`, the task `rag_ingest_document` around
  `RAGIngestionService`, and `RAGQueryService` as the API and the agent use it.
  A document is known by its content, a job by the request that created it; the
  `mime` type of a document is its creator's, and the parser may refuse it.  A
  dispatch that raises may have sent the message.  An execution cuts the text by one
  of `cuts`, the chunk size and overlap its process was given, and writes over the
  rows of the indices it has pieces for.
  Every repository call is a step; the worker goes through `After`, the order of
  the writes.  Messages are a bag; a worker may raise, time out, be killed or be
  lost before or after it has acknowledged.  A query looks for its base, searches
  the rows there are then, cuts the context, logs and answers, and may be given
  up at each of these.

### Conditions

In Orchestrator, RealtimeRun and BatchRun `env` is chosen once per behaviour from
`Environments` and never changes.  It says which kinds of trouble the behaviour
may meet:

| | |
|---|---|
| `db`, `redis` | a call to the store may raise, before or after it took effect; without Redis the provider limiter may refuse a run, too |
| `provider` | the provider may fail or refuse, or its client cannot be built |
| `crash` | processes and workers may die |
| `stall` | renewals may be late, or fail, for a whole key lifetime (120 s against a beat of 10 s) |
| `slow` | a worker task may exceed its time limits |
| `reaper` | somebody runs `run_once` from time to time; nothing in the repository schedules it |

A property that only holds in the absence of some trouble says so in its own
formula (`"db" \notin env => ...`), and the runs mix the conditions, so that one
run covers the property with and without them.  In RagIngestion `setting` plays
that part: texts and their types, the cuts, requests, queries, the state of the
knowledge base and a bound on the mishaps.  In the other modules anything may
go wrong at any time.

### What the models leave out

* Contents: texts, plans, prompts, vectors and their distances, timestamps,
  gauges.  Ages are abstracted: a RUNNING row may be stale whenever the reaper
  looks.  A text of RagIngestion is made of four kinds of characters.
* `run_chat` acquiring a slot of its own: the API always passes one.
* `ReapRun` and `ExhaustTask` read and write in one step.  Their write does not
  depend on what was read.
* The unique index is checked at the commit: `db/session.py` turns autoflush off.
* `ensure_run` finds the row, because the API commits it before the dispatch.
* Redis as a broker redelivers an unacknowledged message after its visibility
  timeout of an hour; the hard time limit of six minutes is shorter, so no live
  worker is affected, and a message reaches a second worker only after a loss.
* `SoftTimeLimit` strikes while the event loop waits.  Raised inside the agent
  loop it would be one more ordinary exception (`AgentDegrades`).
* `Retry` that cannot be sent: Celery rejects the message, as if acknowledged.
* Stream: payloads and sequence numbers.  Every execution of a run numbers its
  events from 1 again, and no consumer of the stream reads the numbers.
* Limiter: milliseconds.  A tick is an interval in which a whole number of
  requests and tokens is refilled, and a bucket of a minute and its expiry of two
  are multiples of it.  The agent loop is one step there; AgentTurn shows that
  however many requests it makes, the quota is asked for once per run.  What a
  refused run does next is in RealtimeRun and BatchRun.
* RAG: a knowledge base does not change its state while it is queried (no code
  does that), and no embedder returns fewer vectors than it was given texts,
  which `zip` would hide.  A job's `attempts` is written and never read.  All
  executions use one `rag_index_version`.
* Agent turn: what the model is told, and the retries of Pydantic AI inside one
  request.

## 3. Runs

| Run | Instance | Checks |
|---|---|---|
| `realtime` | 2 runs of one conversation, 2 processes, limit 1 | `SlotsAccounted`, `ConversationExclusive`, `ReaperSparesLive`, `AnnouncedSuccessIsStored`, `OnlyOwnerReleases`, and `KeepsLifecycle`: the detailed model implements `RunLifecycle` where no reaper writes |
| `realtime_live` | 2 runs, 1 process, limit 2 | `ResourcesReturned`, `RunningConverges` |
| `batch` | 1 run, 2 workers, 1 retry, 1 attempt, 1 crash, up to 2 waiting copies | `OneAnswer`, `CopiesBounded`, `TerminalIsAnnounced`, `UndisturbedRunSucceeds` |
| `batch_live` | 1 run, 1 worker | `AcceptedConverges`, `SettlesForGood` |
| `batch_reaped` | only the reaper | **violation** of `SuccessIsKept`: a finished run is failed |
| `limiter` | 3 calls, a bucket of 1 request and 2 tokens, 3 minutes | `WindowRespected`, `DebtObserved`, `BackoffRespected` |
| `stream` | 1 client, 1 waiter, 4 events, stream untrimmed or trimmed to the smallest lengths | `InOrder`, `SkipsOnlyTrimmed`, `EndReachesReaders` |
| `accept` | 3 requests of 2 users with or without a key, 2 conversations, 3 bodies | `NothingLeftBehind`, `BusyMeansAnother`, and that the handler implements `OncePerKey` |
| `rag` | 2 uploads and 2 workers with up to 3 mishaps; 2 uploads of either type; executions with 2 cuts; any text up to 5 characters with any cut up to 3; 3 kinds of queries to bases in 4 states | `IndexCoversDocument`, `OneIngestion`, `SettledAsParsed`, `QueryAccounted` |
| `rag_stuck` | 2 uploads, 1 worker | **violation** of `AcceptedIsIngested`: an accepted document nobody ingests |
| `agent_turn` | 2 requests to the model, a buffer of 2 tokens, texts up to 4, 1 or 2 calls at a time, 1 retry | `NoTokenLost`, `CallsAccounted`, `ProviderAccounted` |
| `rate_limit` | 4 requests of 2 users, limit 2, window 2, 5 ticks | `WindowLimit`, `RefusalJustified` |

Every passing run of safety properties checks its module's `TypeOK`, too.

**Why the bounds are enough.**  Two requests of one key are what a conflict over
a lock, a slot or a stale release needs; two processes show that the counter is
per process and the lock is not; limit 1 makes the second request meet the
limit, limit 2 in `realtime_live` lets both in.  Batch runs share nothing but
the queue, so one run suffices, and its overlap with itself needs two workers.
One retry and one attempt are the smallest numbers for which both branches of
each comparison are taken.  `MaxCrashes` bounds the worker losses and
`MaxCopies` the waiting messages the reaper adds to; both only cut behaviours
off.  `batch_live` uses one worker: with two the fair cycles are out of reach.
In `stream` readers never meet, so one of each kind suffices; four events leave
one before, one in and one after the gap between a replay and the live read.  In
`limiter` the bucket is empty after one request, three calls make one that is
refused, one that waits and one that settles meet, and three ticks are a bucket's
life and one more.  In `accept` three requests of one key make one that holds the
index, one that waits in it and one that comes after the commit, and the second
user shows that a key is his own.  In `rag` two requests create and find one
document, two workers overlap on it, and three mishaps are what `max_retries`
makes good; five characters allow every relation of a cut to an overlap, the
end of a sentence and ends of lines.  Two uploads of two types make a repetition that
disagrees with the creator, and of the two cuts one leaves more rows than the other.  In `agent_turn` the smallest buffer that holds anything back
is full after a first token and two more, and two requests make one that follows
results and one that meets the limit.  In `rate_limit` a window is left by some
of its requests and not by others.  The properties a theorem states (section 5)
are proved for all sizes.

**Deadlock** is not checked, because the modelled system may have nothing more to
do: all requests have been answered, everything is published, and nothing is left
to reap, to deliver or to count.

**Fairness.**  Handlers, tasks and workers are weakly fair as a whole: they are
coroutines of a running loop, or processes, and go on when they can; which
alternative they take (success, error) is not constrained.  Expiry is weakly
fair: Redis expires keys.  Requests need not arrive, and processes need not
crash.  Where `reaper` is a condition, listing a stale run, inspecting it and
writing it are strongly fair: the reaper is run again and again, and its stores
do not fail every single time.  Without the reaper nothing is promised for a
run whose process died.  In `rag_stuck` the handler of each request and each
worker are weakly fair, in the same sense.  In `stream` only the subscription of
each reader is weakly fair, the blocking timeout of `XREAD` included: a connected
reader goes on reading.  Publishing, coming, leaving and giving up are not fair;
what is promised is promised of events that were published.  `limiter`,
`rate_limit`, `accept` and `agent_turn` check no liveness: nothing in the code
promises that a call or a request is ever admitted, and whether a model answers
is not the program's.

## 4. Disagreements between the code and what it says

Two runs end in a violation on purpose; `findings` in `PROJECT.json` quotes the
lines.

1. *SUCCEEDED becomes FAILED* (`batch_reaped`).  No worker updates the task row,
   so a finished run is stale, is executed again and finally failed.
2. *Accepted and never ingested* (`rag_stuck`).  Only the request that created
   the document row sends it.  If that request fails between its commit and the
   dispatch, every repetition finds the row and is answered 202; no reaper looks
   at documents.

Others came up while modelling.  The properties that meet them say in their
formula or their comment what they set aside.

* *ERROR but SUCCEEDED.*  A degraded answer is announced as an ERROR, which ends
  streams and makes the waiting caller's reply a 502 (`runtime/orchestrator.py:338`).
* *Stuck in PENDING.*  If the lease cannot be written, or the orchestrator cannot
  be built, the run is never touched again, and the reaper lists only RUNNING
  realtime rows (`runtime/runner.py:141`).
* *FAILED becomes SUCCEEDED.*  The worker's bookkeeping marks every returned text
  as a success, also that of the last-resort handler (`tasks/agent_tasks.py:128`).
* *Failing what has succeeded.*  The reaper's `mark_failed` overwrites a realtime
  run that stored its answer and dropped its lease after the reaper's snapshot
  (`tasks/reaper.py:156`).
* *Waiting on a finished run.*  A reader without a cursor reads behind `$`, which
  Redis resolves anew at every `XREAD`; events that come between the replay and
  the first read, or between two reads, never reach it.  If the terminal event is
  among them it waits for ever, or for its timeout (`bus/stream_bus.py:96`).
  `EndReachesReaders` therefore begins at the first event a reader got.
* *The same gap again.*  A client that is told of a gap and comes back with the
  same cursor is told of it again (`bus/stream_bus.py:121`).
* *The wrong bus.*  A worker that cannot build the orchestrator reports the error
  on the Pub/Sub bus of `bus/event_bus.py`, which no subscriber of the gateway
  reads, so the stream of that failed run never ends (`tasks/agent_tasks.py:136`).
* *The same minute refilled twice.*  The scripts of the provider limiter move
  `last_refill_ms` back when a command is executed after a later one
  (`runtime/provider_limits.py:489`); a command that is late for the API's window
  is counted in the window of its own time (`api/ratelimit.py:55`).  Both windows
  are therefore stated for prompt commands.
* *Forgotten debts.*  A bucket expires two minutes after its last use and is full again
  (`runtime/provider_limits.py:396`), also when a settlement had overdrawn it by more
  than two minutes refill.  `DebtObserved` sets aside those debts.
* *Two ids for one conversation.*  A request without `conversation_id` is answered
  with the id the handler made up (`api/routers/chat.py:82`), while the row gets
  one of its own (`api/repos.py:46`): the id cannot be continued, nor read as
  `docs/API.md:334` has it.
* *Rows of an earlier cut.*  `add` writes over rows and deletes none
  (`rag/vector_store.py:121`), where
  `docs/specifications/2026-06-16-lightweight-rag-infrastructure-specification.md:267`
  has a reingestion delete and replace them.  If the chunk size or overlap changes
  between two executions of a task, the rows of the first beyond the last index of the
  second stay and are found.  `IndexCoversDocument` excludes other rows only where
  every execution cuts alike, and `QueryAccounted` allows an answer from either cut.
* *400 for 503.*  In strict mode the message of an exception becomes the reason of
  a query that failed, which `query_knowledge` answers with 400, where
  `docs/specifications/2026-06-16-lightweight-rag-infrastructure-specification.md:171`
  asks for 503.
* *The oldest messages.*  The history is the first messages of a conversation, up
  to the limit (`db/repositories.py:181`), and holds the message the run is about,
  which is passed to the model a second time.

## 5. Proofs

Each proof module holds, for all values of the constants that satisfy the named
ASSUMEs, in every reachable state or step of its module's `Spec`:

**RealtimeRunProofs** (any finite set of runs, any processes, keys, limit and
conditions)

* `TypeCorrect` – `TypeOK`.
* `SlotsCorrect` – `SlotsAccounted` is not inductive alone: a step changes the
  counter of one process and one label, so the proof follows the *set* of slot
  holders, shows for every action that it gains or loses exactly that run (or
  stays), and uses that a holder's process is fixed and that the set is finite.
* `CapacityCorrect` – that never more than the limit hold a slot of one process,
  from `CountersInLimit` (kept by the guard of `ReserveSlot`) and `SlotsCorrect`.
* `ConversationsExclusive` – from `LockInv`: without stalls a run at a label
  that needs the lock owns its key.  Two such runs of one key are then equal.
* `ReleasesOwn` – `OnlyOwnerReleases`: the release compares the owner.
* `AnswersUnique` – at most one answer per run, inductive over `TypeOK`.
* `ReaperIsCareful` – from `ReaperInv`: without stalls a run between starting
  and dropping its lease has one, and whatever the reaper is inspecting was
  RUNNING, hence past the start of its lease.
* `ImplementsLifecycle` – the refinement `KeepsLifecycle`.  A commit writes what
  was checked against an earlier row; `RowInv` says that where no reaper writes
  the row is still the one the read saw, so every step (`RowStep`) is one of
  RunLifecycle's or a stutter.
* `SuccessIsTrue` – `AnnouncedSuccessIsStored`, from `TruthInv`: with a working
  database a run on its way to announcing success has its answer and its row.
* `TaskSettles` (`TaskSettlesRun`) – with a working database a task that is over has
  settled its run and, with a working Redis, ended its stream.  `SettledInv` gives
  the row for every label of the code: it exists from the commit on, is PENDING until
  the first commit of RUNNING, and is terminal when a terminal event is due; a commit
  that was overtaken by the reaper leaves it terminal all the same.  The exception the
  theorem leaves is *Stuck in PENDING* of section 4, so it shows that there is no
  other way for a task to end with its run open.
* `KeysReturned` (`NoKeyLeftOver`) – where no process dies and Redis works, a lock or
  a lease is there only while its task is at a label that holds it: the code returns
  every key on every path, and the expiry is needed by nobody.  `KeysInv` adds that a
  key is locked by a run of that key.

**BatchRunProofs** (any runs, workers, retries, attempts, crashes, copies)

* `TypeCorrect` – with `SnapshotInv` and `RetryInv`, which bound what the reaper
  goes through and how often a message was retried.
* `AnswersUnique` – `OneAnswer`, however executions overlap.
* `UndisturbedSucceeds` – `UndisturbedRunSucceeds`, which sets aside every condition
  under which the code may fail a run by itself: the provider, the database, the time
  limits, and Redis, without which the provider limiter refuses.  `CalmInv` says where an
  execution may be and what its run has by then when nothing but losses and the
  reaper disturbs it, and that a run that is not finished, nor given up by the
  reaper, is in flight: a message of it waits, or a worker holds one.
* `TerminalAnnounced` – `TerminalIsAnnounced`, from `HeardInv`: a terminal run
  whose stream has not ended is still held, or waiting, by somebody who ends it.
* `CopiesCounted` – `CopiesBounded`.  `CopiesInv` says of every run that the waiting
  copies and the executions together stay within one, the attempts, and the one being
  counted, and that a run without a row has none of them; the copies are a sum over the
  retry counts of a message, of which a step changes one summand.

**ChatAcceptanceProofs** (any requests, users, keys, conversations, bodies)

* `TypeCorrect`, `NoTraces` (`NothingLeftBehind`), `BusyIsAnother`
  (`BusyMeansAnother`).
* `OneRun` – the row of a keyed request exists exactly if the record names it.
* `KeepsPromise` – the handler implements `OncePerKey`: a commit is a `Choose`, an
  acceptance a `Tell`, a replay a `Tell` of the chosen run; everything else
  stutters.

**ApiRateLimitProofs** (any finite set of requests, users, limit, window)

* `TypeCorrect`, and `WindowRespected` (`WindowLimit`), from `SetsInv`: with prompt
  commands an admitted request is in its user's sorted set until it has left the
  window, because nobody trims with an earlier time and the key expires later than
  its newest entry.  The set had room for the youngest of any window.
* `RefusedForAReason` – `RefusalJustified`: what is in the set was answered, is
  the user's own, and lies in the window.

**EventStreamProofs** (any readers, lengths, numbers of events): `TypeCorrect`,
`DeliveryInOrder` (`InOrder`) and `NothingSkipped` (`SkipsOnlyTrimmed`).  `StreamInv`
says of an answer under way that it begins behind the reader's cursor and that what
lies between the two was trimmed, and of a blocked reader with a cursor that it has
got everything.

**ProviderLimiterProofs** (any limits, callers and waits)

* `TypeCorrect` – among others the requests left never leave `0 .. Rpm`.
* `WindowCorrect` – `WindowRespected`.  The inductive `WindowInv` says that, with
  prompt commands, a call under way carries the present time, so `last_refill_ms`
  never moves back, and that what was reserved since the start of the window plus
  what the bucket holds is at most a full bucket and the refill up to
  `last_refill_ms`.  The expiry is the delicate case: a forgotten bucket is full
  again, which is harmless because it was idle for longer than it takes to fill.
* `BackoffCorrect` – `BackoffRespected`.  `BackoffInv` says that, with prompt commands
  and equal waits, the key's value and its expiry are both the latest time a caller
  asked for, so no later error shortens it; and a grant comes from a script that
  found no back-off.
* `DebtCorrect` – `DebtObserved`.  `DebtInv` is `WindowInv`'s account with the debts in
  it: the level, which may be negative, plus what was reserved and debited is at most a
  full bucket and the refill.  The expiry forgets a debt, and the first attempt at the
  proof failed there: it does so with a debt deeper than the limit although two minutes
  have not paid for it, and with larger debits and a later clock TLC finds a grant that
  should have waited.  The property therefore speaks of all debts of the last two
  minutes, which no expiry can touch, and of those up to the limit in any longer time,
  which the two minutes do pay for.

**RagIngestionProofs** (any finite sets of texts, any requests, workers, settings)

* `TypeCorrect` – `TypeOK`, from `TypeInv`, which adds that every message in the bag,
  and every one a worker holds, was sent by the code: an existing text and job, and no
  more retries than allowed.
* `IngestedOnce` – `OneIngestion`.  `CreatorInv` says that the creators of one content
  are one request, because the unique index lets one insert through; `SentInv`, that
  the first message of a content is its creator's, sent when it leaves `enqueue`.
* `SettledCorrect` – `SettledAsParsed`.  `LinkInv` traces every message to the request
  that started its text and to the job that request chose; `FaultInv` says that a
  message of a text that can be parsed has been retried no more often than something
  went wrong, so where mishaps are few no attempt is the last; `SettledInv`, that such
  a text is in flight, killed, or embedded with its job.  `ParsedInv` says that nobody
  is past the parser with a document it refuses, and `RefusedInv`, that such a document
  is waiting, before the parser or on its way to FAILED, or is FAILED with its job.
* `ChunkTextCovers` – for every text of the four kinds of characters, size and overlap,
  the pieces of `chunk_text` are
  in order, not empty, no longer than asked, and leave out nothing but white space.  The
  recursion goes by the offset, which grows; the induction is over what is left of
  the text, through the set of lengths for which the claim holds.
* `IndexCorrect` – `IndexCoversDocument`, from `RowsInv`: every row of a text is a
  piece of it under one of the cuts, no two have one index, and if there are any, one
  execution, the last that wrote, has all of its own among them; they are there from the
  label `embedded` on, and then for good, and only of a text that can be parsed.
* `QueryCorrect` – `QueryAccounted`, from `AnswerInv` and the cut of the context
  (`MapHits`), whose total length is bounded by a sum over what was taken so far.

**AgentTurnProofs** (any limits, any responses of the model): `TypeCorrect`, and
`ProviderCorrect` (`ProviderAccounted`), from `AccountInv`: a turn under way holds
its quota, has settled nothing and answered nothing, and one that has made a
request has said so.  `CallsCorrect` (`CallsAccounted`) follows from three invariants:
`MarksInv` gives the places of a call's two reports among the events, which every
other step leaves alone because it reports no call (`Silently`); `LedgerInv` relates
a call's record to the rows written of it, and has `Ran`, that a finished call ran
once more than it was retried, which rests on the adapters' arguments being the ones
the tools require (`ArgumentsFit`); `ClosedInv` says that no call is open but while
the tools are at work or when the turn broke.  `TokensCorrect` (`NoTokenLost`): `TokensInv`
puts the text of all events together, which only an event with text makes longer, and
says that the buffer holds what is still missing; that appending an event appends its
text is an induction over the length.  `ImplementsAgentStep`
(`TurnIsOneStep`): mapped to what the run sees (`Seen`: agent, answer or refuse; `Heard`:
nothing or ERROR), every step of a turn is `AgentAnswers`, `AgentDegrades` or
`AgentRefused` of Orchestrator, or a stutter.  It rests on `GoesOn`, that a turn under
way has announced no error, and on how a turn may end (`Outcomes`).

Three properties that are proved are in no run's list: `TaskSettlesRun`, `NoKeyLeftOver`
and `TurnIsOneStep`.  TLC finds them to hold, too, on the instances `realtime` (under
mixed conditions) and `agent_turn`.

**Assumptions.**  Apart from the types and signs of constants: in RagIngestion
`SettingsAssumption` says what `chunk_text` itself checks and raises a ValueError for
(a positive size, an overlap smaller than it), and that texts are made of the four
kinds of characters, and stripped and not blank, as `RAGDocumentCreate` leaves them; `MessageAssumption`, that the mark for "no message" is not one.
TLC evaluates all of them in the runs.

**Induction.**  The library's induction theorems take an operator, which the provers
cannot instantiate.  Where a fact about a recursive function is needed, the set of
numbers for which it holds is formed, and a set that holds zero and every successor is
all of Nat.  That is enough for the folds, sums and texts above, because each of them
is a function over an interval of numbers.

**Only model-checked.**

* All liveness (`ResourcesReturned`, `RunningConverges`, `AcceptedConverges`,
  `SettlesForGood`, `EndReachesReaders`): fairness is out of the prover's reach.
* The two violations, which are counterexamples.

Every safety and action property of a passing run is stated by a theorem.

## 6. Not modelled

* The in-memory vector store: `rag_vector_store` is "memory" by default
  (`core/config.py:96`), but a store in the worker's memory is not the one the API
  searches, and the deployment sets pgvector (`dockerhost/compose.yaml:15`, `:63`),
  which is what RagIngestion models.
* The in-memory provider limiter, the caching retriever (`rag/retriever.py`) and
  `LLMRouter` with its providers: the application uses the Redis limiter and
  Pydantic AI; these serve tests and local use.
* The legacy Pub/Sub bus (`bus/event_bus.py`): nobody reads it.
* `_fallback_orchestration` of the worker, `assert_task_transition`,
  `upsert_task`: never executed.
* Embedders, the arithmetic of the calculator, the texts of the mock search,
  prompts: computations without state.
* Read-only routers, lifespan, schemas, settings, logging, metrics, seeds:
  declarations and I/O without behaviour of their own.

## 7. Plan

What is left, in this order.

| Where | What | Proof |
|---|---|---|
| BatchRunProofs | what `TaskSettlesRun` is to the realtime route: when a worker has acknowledged a message, what its run must have by then, under each condition | yes |
| RealtimeRunProofs, BatchRunProofs | the safety half of the liveness properties: in every state that is neither settled nor stuck some action of the fair set has its guards | invariant only |
| EventStreamProofs | a reader with a cursor that has got everything up to the end has got the terminal event | yes |
