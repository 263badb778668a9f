---------------------------- MODULE RagIngestion ----------------------------
(***************************************************************************)
(* From POST /rag/documents to the chunks a query finds: create_document   *)
(* and query_knowledge (app/api/routers/rag.py), the knowledge base,       *)
(* document, job, chunk and log repositories (app/db/repositories.py,      *)
(* app/rag/vector_store.py with pgvector), the Celery task                 *)
(* rag_ingest_document (app/tasks/agent_tasks.py) around                   *)
(* RAGIngestionService, and RAGQueryService (app/rag/service.py), which    *)
(* the API and the agent ask.                                              *)
(*                                                                         *)
(* There is one knowledge base.  A document is known by its content, as    *)
(* uq_rag_document_kb_content_hash has it; a job by the request that       *)
(* created it.  Every repository call is a transaction of its own, and no  *)
(* call checks the status it overwrites.                                   *)
(***************************************************************************)
EXTENDS Chunker, Bags

CONSTANTS
    Request,       \* POST /rag/documents requests
    Worker,        \* worker processes of the q.rag queue
    MaxRetries,    \* max_retries of the task
    TopK,          \* the bounded top_k of a query
    MaxContext,    \* settings.rag_max_context_chars
    Settings,      \* the instances: texts, their types, requests at work, cuts,
                   \* states of the knowledge base, queries, a bound on what goes wrong
    NoRequest, NoMessage

ASSUME RequestAssumption == NoRequest \notin Request

ASSUME BoundAssumption == /\ MaxRetries \in Nat
                          /\ TopK \in Nat \ {0} /\ MaxContext \in Nat

\* A content is a text that RAGDocumentCreate has stripped and found not blank.
\* chunk_text raises ValueError for any other size and overlap; the executions of
\* a task may cut differently, for rag_chunk_size and rag_chunk_overlap are read
\* from the settings of the process.
ASSUME SettingsAssumption ==
    \A s \in Settings : /\ s.texts \subseteq Seq(Characters) /\ IsFiniteSet(s.texts)
                        /\ \A t \in s.texts : t # <<>> /\ Strip(t) = t
                        /\ s.types \subseteq {"text", "other"}
                        /\ \A c \in s.cuts : /\ c.size \in Nat \ {0}
                                              /\ c.overlap \in 0 .. c.size - 1
                        /\ IsFiniteSet(s.cuts)
                        /\ s.queries \subseteq [strict : BOOLEAN, bound : BOOLEAN]
                        /\ s.faults \in Nat

Text == UNION {s.texts : s \in Settings}

VARIABLES
    setting,    \* the settings this behaviour runs under
    pc,         \* where each request is
    content,    \* what each request wants to store
    created,    \* the requests that created the document of their content
    document,   \* rag_document rows: content to status
    mime,       \* their mime_type: "text" for none or a _is_text_like one
    job,        \* rag_ingestion_job rows: status, by the request that created it
    latest,     \* the newest job row of each document
    chosen,     \* the job each request found or created
    reply,      \* what each client was answered
    queue,      \* messages waiting in q.rag, a bag
    holding,    \* the message each worker works on, unacknowledged
    step,       \* where each worker is in its task
    rows,       \* rag_document_chunk rows of each document
    started,    \* how many first messages were sent for each document
    faults,     \* how often something went wrong
    killed,     \* documents whose worker was killed for good
    base,       \* the knowledge base: its status, or that it is somebody else's
    query,      \* the query, and where it is
    found,      \* the RAGQueryResponse, as far as it got
    logged      \* the rag_retrieval_log row of the query

requests == <<pc, content, created, mime, latest, chosen, reply>>
worker   == <<holding, step>>
tables   == <<document, job, rows>>
asking   == <<base, query, found, logged>>
vars == <<setting, requests, tables, queue, worker, started, faults, killed, asking>>

DocumentStatuses == {"PENDING", "PARSING", "EMBEDDING", "EMBEDDED", "FAILED"}
JobStatuses      == {"PENDING", "RUNNING", "SUCCEEDED", "FAILED"}
NoRow == "NO_ROW"
OfAnother == "OF_ANOTHER"
BaseStatuses == {"ACTIVE", "DISABLED", OfAnother, NoRow}

QueryLabels == {"idle", "base", "search", "log", "answered"}

\* A response is degraded if it has a reason; "other" stands for the message of
\* any exception but one without a text.
Reasons == {"none", "no_knowledge_base", "knowledge_base_not_found",
            "knowledge_base_disabled", "embedding_dimension_mismatch",
            "timeout", "error", "other"}

Response(chunks, reason) == [chunks |-> chunks, reason |-> reason]

Degraded(response) == response.reason # "none"

NoResponse == Response(<<>>, "none")

Message == [text : Text, job : Request, retries : 0 .. MaxRetries]

ASSUME MessageAssumption == NoMessage \notin Message

RequestLabels == {"idle", "create", "latest", "newJob", "enqueue", "done", "dead"}

\* The writes of ingest_document, and what follows each of its steps.
DocumentWrite == [parsing |-> "PARSING", embedding |-> "EMBEDDING",
                  embedded |-> "EMBEDDED", failDocument |-> "FAILED"]

JobWrite == [start |-> "RUNNING", finish |-> "SUCCEEDED", failJob |-> "FAILED"]

After == [start |-> "parsing", parsing |-> "read", read |-> "embedding",
          embedding |-> "embed", embed |-> "index", index |-> "embedded",
          embedded |-> "finish", finish |-> "acknowledge",
          failDocument |-> "failJob", failJob |-> "raised"]

Handler == {"failDocument", "failJob"}

Steps == DOMAIN After \cup {"free", "raised", "acknowledge"}

Init ==
    /\ setting \in Settings
    /\ pc = [r \in Request |-> "idle"]
    /\ content = [r \in Request |-> <<>>]
    /\ created = {}
    /\ document = [t \in setting.texts |-> NoRow]
    /\ mime = [t \in setting.texts |-> NoRow]
    /\ job = [r \in Request |-> NoRow]
    /\ latest = [t \in setting.texts |-> NoRequest]
    /\ chosen = [r \in Request |-> NoRequest]
    /\ reply = [r \in Request |-> "none"]
    /\ queue = EmptyBag
    /\ holding = [w \in Worker |-> NoMessage]
    /\ step = [w \in Worker |-> "free"]
    /\ rows = [t \in setting.texts |-> {}]
    /\ started = [t \in setting.texts |-> 0]
    /\ faults = 0
    /\ killed = {}
    /\ base = IF NoRow \in setting.bases THEN NoRow ELSE "ACTIVE"
    /\ query = [at |-> "idle", strict |-> FALSE, bound |-> FALSE, status |-> 0]
    /\ found = NoResponse
    /\ logged = <<>>

Goto(r, label) == pc' = [pc EXCEPT ![r] = label]

Answer(r, answer) == /\ reply' = [reply EXCEPT ![r] = answer]
                     /\ Goto(r, "done")

\* One more thing goes wrong.
Fault == faults < setting.faults /\ faults' = faults + 1

-----------------------------------------------------------------------------
(* Knowledge bases.                                                         *)

\* create_knowledge_base, of this user or of another.
CreateBase ==
    /\ base = NoRow
    /\ base' \in setting.bases \cap {"ACTIVE", OfAnother}
    /\ UNCHANGED <<setting, requests, tables, queue, worker, started, faults, killed,
                   query, found, logged>>

\* No code does so; an operator may.
DisableBase ==
    /\ base = "ACTIVE"
    /\ "DISABLED" \in setting.bases
    /\ base' = "DISABLED"
    /\ UNCHANGED <<setting, requests, tables, queue, worker, started, faults, killed,
                   query, found, logged>>

-----------------------------------------------------------------------------
(* create_document.                                                         *)

\* _get_kb_or_error and the status: 404, 403 or 409 for all but an active base.
Refusal == [NO_ROW |-> "not found", OF_ANOTHER |-> "forbidden", DISABLED |-> "disabled"]

Post(r) ==
    /\ pc[r] = "idle"
    /\ r \in setting.requests
    /\ IF base = "ACTIVE"
       THEN /\ \E t \in setting.texts : content' = [content EXCEPT ![r] = t]
            /\ Goto(r, "create")
            /\ UNCHANGED reply
       ELSE /\ Answer(r, Refusal[base])
            /\ UNCHANGED content
    /\ UNCHANGED <<setting, created, mime, latest, chosen, tables, queue, worker,
                   started, faults, killed, asking>>

\* RAGDocumentRepository.create_or_get: select, insert, and on a collision
\* select again; the unique constraint decides who creates.  The type is part of the
\* row, and not of what identifies a document.
CreateOrGet(r) ==
    LET t == content[r]
    IN  /\ pc[r] = "create"
        /\ IF document[t] = NoRow
           THEN /\ document' = [document EXCEPT ![t] = "PENDING"]
                /\ created' = created \cup {r}
                /\ \E type \in setting.types : mime' = [mime EXCEPT ![t] = type]
           ELSE UNCHANGED <<document, created, mime>>
        /\ Goto(r, "latest")
        /\ UNCHANGED <<setting, content, latest, chosen, reply, job, rows, queue,
                       worker, started, faults, killed, asking>>

\* get_latest_for_document.
FindLatestJob(r) ==
    LET newest == latest[content[r]]
    IN  /\ pc[r] = "latest"
        /\ chosen' = [chosen EXCEPT ![r] = newest]
        /\ Goto(r, IF newest = NoRequest THEN "newJob" ELSE "enqueue")
        /\ UNCHANGED <<setting, content, created, mime, latest, reply, tables, queue, worker,
                       started, faults, killed, asking>>

CreateJob(r) ==
    /\ pc[r] = "newJob"
    /\ job' = [job EXCEPT ![r] = "PENDING"]
    /\ latest' = [latest EXCEPT ![content[r]] = r]
    /\ chosen' = [chosen EXCEPT ![r] = r]
    /\ Goto(r, "enqueue")
    /\ UNCHANGED <<setting, content, created, mime, reply, document, rows, queue, worker,
                   started, faults, killed, asking>>

FirstMessage(r) == [text |-> content[r], job |-> chosen[r], retries |-> 0]

Send(m) == queue' = queue (+) SetToBag({m})

Dispatch(r) == /\ Send(FirstMessage(r))
               /\ started' = [started EXCEPT ![content[r]] = @ + 1]

\* Mutant: every request sends its document.
EnqueueAlways(r) ==
    /\ pc[r] = "enqueue"
    /\ Dispatch(r)
    /\ Answer(r, "accepted")
    /\ UNCHANGED <<setting, content, created, mime, latest, chosen, tables, worker,
                   faults, killed, asking>>

\* _enqueue_ingestion, for the creator only.
Enqueue(r) ==
    /\ pc[r] = "enqueue"
    /\ r \in created
    /\ Dispatch(r)
    /\ Answer(r, "accepted")
    /\ UNCHANGED <<setting, content, created, mime, latest, chosen, tables, worker,
                   faults, killed, asking>>

\* 503 RAG_QUEUE_UNAVAILABLE: the rows stay, and .delay may have sent the message
\* before it raised.
EnqueueFails(r) ==
    /\ pc[r] = "enqueue"
    /\ r \in created
    /\ Fault
    /\ \/ Dispatch(r)
       \/ UNCHANGED <<queue, started>>
    /\ Answer(r, "unavailable")
    /\ UNCHANGED <<setting, content, created, mime, latest, chosen, tables, worker,
                   killed, asking>>

\* replayed=True.
Replay(r) ==
    /\ pc[r] = "enqueue"
    /\ r \notin created
    /\ Answer(r, "accepted")
    /\ UNCHANGED <<setting, content, created, mime, latest, chosen, tables, queue, worker,
                   started, faults, killed, asking>>

\* A failing statement, or the death of the process: what is committed stays.
RequestFails(r) ==
    /\ pc[r] \in {"create", "latest", "newJob", "enqueue"}
    /\ Fault
    /\ \/ Answer(r, "error")
       \/ Goto(r, "dead") /\ UNCHANGED reply
    /\ UNCHANGED <<setting, content, created, mime, latest, chosen, tables, queue, worker,
                   started, killed, asking>>

RequestStep(r) ==
    \/ CreateOrGet(r) \/ FindLatestJob(r) \/ CreateJob(r)
    \/ Enqueue(r) \/ EnqueueFails(r) \/ Replay(r)
    \/ RequestFails(r)

-----------------------------------------------------------------------------
(* rag_ingest_document and RAGIngestionService.ingest_document.             *)

Become(w, label) == step' = [step EXCEPT ![w] = label]

Receive(w) ==
    /\ step[w] = "free"
    /\ \E m \in BagToSet(queue) :
         /\ queue' = queue (-) SetToBag({m})
         /\ holding' = [holding EXCEPT ![w] = m]
    /\ Become(w, "start")
    /\ UNCHANGED <<setting, requests, tables, started, faults, killed, asking>>

\* RAGDocumentRepository.update_status: no transition is checked.
WriteDocument(w) ==
    /\ step[w] \in DOMAIN DocumentWrite
    /\ document' = [document EXCEPT ![holding[w].text] = DocumentWrite[step[w]]]
    /\ UNCHANGED <<job, rows>>

\* RAGIngestionJobRepository.update_status.
WriteJob(w) ==
    /\ step[w] \in DOMAIN JobWrite
    /\ job' = [job EXCEPT ![holding[w].job] = JobWrite[step[w]]]
    /\ UNCHANGED <<document, rows>>

Pieces(t, cut) == ChunkText(t, cut.size, cut.overlap)

Row(t, cut, k) == [index |-> k - 1, chunk |-> Pieces(t, cut)[k]]

Written(t, cut) == {Row(t, cut, k) : k \in DOMAIN Pieces(t, cut)}

\* Mutant: a plain INSERT, the rows of a retry get new ids.
InsertChunks(w) ==
    LET t == holding[w].text
    IN  /\ step[w] = "index"
        /\ \E cut \in setting.cuts :
             rows' = [rows EXCEPT ![t] = @ \cup {[index |-> k - 1 + Cardinality(@),
                                                  chunk |-> Pieces(t, cut)[k]] :
                                                 k \in DOMAIN Pieces(t, cut)}]
        /\ UNCHANGED <<document, job>>

\* PgVectorStore.add: one transaction of INSERTs ON CONFLICT (document_id,
\* index_version, chunk_index) DO UPDATE.  Rows of a higher index stay.
AddChunks(w) ==
    LET t == holding[w].text
    IN  /\ step[w] = "index"
        /\ \E cut \in setting.cuts :
             LET written == Written(t, cut)
             IN  rows' = [rows EXCEPT ![t] =
                            written \cup {row \in @ :
                                             \A new \in written : new.index # row.index}]
        /\ UNCHANGED <<document, job>>

\* parse_text_document takes what is not blank and of no type or a textual one.
Parsable(t) == Strip(t) # <<>> /\ mime[t] # "other"

\* get and parse_text_document; embed.
Compute(w) ==
    /\ \/ step[w] = "read" /\ Parsable(holding[w].text)
       \/ step[w] = "embed"
    /\ UNCHANGED tables

Effect(w) == WriteDocument(w) \/ WriteJob(w) \/ AddChunks(w) \/ Compute(w)

Proceed(w) ==
    /\ step[w] \in DOMAIN After
    /\ Effect(w)
    /\ Become(w, After[step[w]])
    /\ UNCHANGED <<setting, requests, queue, holding, started, faults, killed, asking>>

\* The except clause of ingest_document; what it raises itself goes up.
Except(w) == Become(w, IF step[w] \in Handler THEN "raised" ELSE "failDocument")

ParseFails(w) ==
    /\ step[w] = "read"
    /\ ~ Parsable(holding[w].text)
    /\ Except(w)
    /\ UNCHANGED <<setting, requests, tables, queue, holding, started, faults, killed, asking>>

\* A call raises, with or without effect.
StepRaises(w) ==
    /\ step[w] \in DOMAIN After
    /\ Fault
    /\ Effect(w) \/ UNCHANGED tables
    /\ Except(w)
    /\ UNCHANGED <<setting, requests, queue, holding, started, killed, asking>>

\* SoftTimeLimitExceeded cancels the coroutine: CancelledError passes the except
\* clause by, and nothing is marked FAILED.
SoftTimeLimit(w) ==
    /\ step[w] \in DOMAIN After
    /\ Fault
    /\ Become(w, "raised")
    /\ UNCHANGED <<setting, requests, tables, queue, holding, started, killed, asking>>

\* Mutant: a message is retried however often it was.
RetryUnbounded(w) ==
    /\ step[w] = "raised"
    /\ Send([holding[w] EXCEPT !.retries = @ + 1])
    /\ Become(w, "acknowledge")
    /\ UNCHANGED <<setting, requests, tables, holding, started, faults, killed, asking>>

\* self.retry sends the successor before this message is acknowledged.
Retry(w) ==
    LET m == holding[w]
    IN  /\ step[w] = "raised"
        /\ IF m.retries < MaxRetries
           THEN Send([m EXCEPT !.retries = @ + 1])
           ELSE UNCHANGED queue
        /\ Become(w, "acknowledge")
        /\ UNCHANGED <<setting, requests, tables, holding, started, faults, killed, asking>>

Release(w) == /\ holding' = [holding EXCEPT ![w] = NoMessage]
              /\ Become(w, "free")

Acknowledge(w) ==
    /\ step[w] = "acknowledge"
    /\ Release(w)
    /\ UNCHANGED <<setting, requests, tables, queue, started, faults, killed, asking>>

WorkerStep(w) ==
    \/ Receive(w) \/ Proceed(w) \/ ParseFails(w) \/ StepRaises(w)
    \/ SoftTimeLimit(w) \/ Retry(w) \/ Acknowledge(w)

\* Mutant: messages are acknowledged when they are received.
LoseWorkerAndMessage(w) ==
    /\ step[w] # "free"
    /\ Fault
    /\ Release(w)
    /\ UNCHANGED <<setting, requests, tables, queue, started, killed, asking>>

\* The worker dies; the message was not acknowledged and is delivered again.
LoseWorker(w) ==
    /\ step[w] # "free"
    /\ Fault
    /\ Send(holding[w])
    /\ Release(w)
    /\ UNCHANGED <<setting, requests, tables, started, killed, asking>>

\* The hard limit kills the worker, and the message is acknowledged.
HardTimeLimit(w) ==
    /\ step[w] # "free"
    /\ Fault
    /\ killed' = killed \cup {holding[w].text}
    /\ Release(w)
    /\ UNCHANGED <<setting, requests, tables, queue, started, asking>>

-----------------------------------------------------------------------------
(* RAGQueryService.query, for query_knowledge or the agent.                 *)

Elsewhere == UNCHANGED <<setting, requests, tables, queue, worker, started, killed, base>>

\* The query goes on, with an answer or without.
Ask(place) == query' = [query EXCEPT !.at = place]

Conclude(response) == found' = response /\ Ask("log")

\* Only the agent asks without a knowledge base; that is not logged.
BeginQuery ==
    /\ query.at = "idle"
    /\ \E q \in setting.queries :
         /\ query' = [query EXCEPT !.strict = q.strict, !.bound = q.bound,
                                  !.at = IF q.bound THEN "base" ELSE "answered"]
         /\ found' = IF q.bound THEN found ELSE Response(<<>>, "no_knowledge_base")
    /\ UNCHANGED <<faults, logged>>
    /\ Elsewhere

\* get_for_user finds no base of another.
LookUpBase ==
    /\ query.at = "base"
    /\ IF base = "ACTIVE"
       THEN Ask("search") /\ UNCHANGED found
       ELSE Conclude(Response(<<>>, IF base = "DISABLED" THEN "knowledge_base_disabled"
                                    ELSE "knowledge_base_not_found"))
    /\ UNCHANGED <<faults, logged>>
    /\ Elsewhere

\* The nearest rows, in any order of their scores, down to the threshold.
Hits ==
    LET all == UNION {{<<t, row>> : row \in rows[t]} : t \in DOMAIN rows}
        AtMost(n) == {h \in [1 .. n -> all] : \A i, j \in 1 .. n : h[i] = h[j] => i = j}
    IN  UNION {AtMost(n) : n \in 0 .. Smaller(TopK, Cardinality(all))}

Body(hit) == hit[2].chunk.text

\* Mutant: the first chunk that does not fit is kept whole.
MapHitsUncut(hits) ==
    LET used[k \in 0 .. Len(hits)] == IF k = 0 THEN 0 ELSE used[k - 1] + Len(Body(hits[k]))
    IN  [k \in 1 .. Cardinality({k \in 1 .. Len(hits) : used[k - 1] < MaxContext}) |->
           Body(hits[k])]

\* _map_hits: whole chunks while they fit, the first that does not is cut, and
\* the rest dropped.
MapHits(hits) ==
    LET used[k \in 0 .. Len(hits)] == IF k = 0 THEN 0 ELSE used[k - 1] + Len(Body(hits[k]))
        kept == Cardinality({k \in 1 .. Len(hits) : used[k - 1] < MaxContext})
        Cut(k) == Smaller(Len(Body(hits[k])), MaxContext - used[k - 1])
    IN  [k \in 1 .. kept |-> SubSeq(Body(hits[k]), 1, Cut(k))]

\* The query is embedded, and one statement finds the rows.
Search ==
    /\ query.at = "search"
    /\ \E hits \in Hits : Conclude(Response(MapHits(hits), "none"))
    /\ UNCHANGED <<faults, logged>>
    /\ Elsewhere

\* rag_query_timeout_ms, any exception, or a vector of the wrong length.
QueryDegrades ==
    /\ query.at \in {"base", "search"}
    /\ Fault
    /\ \E reason \in {"timeout", "error", "other", "embedding_dimension_mismatch"} :
         /\ reason = "embedding_dimension_mismatch" => query.at = "search"
         /\ Conclude(Response(<<>>, reason))
    /\ UNCHANGED logged
    /\ Elsewhere

\* query_knowledge has a status for the reasons it knows.
StrictStatus(reason) ==
    CASE reason = "knowledge_base_not_found" -> 404
      [] reason = "knowledge_base_disabled" -> 409
      [] reason \in {"timeout", "error"} -> 503
      [] OTHER -> 400

\* RAGQueryError, for those that asked strictly.
Reply ==
    query' = [query EXCEPT !.at = "answered",
                           !.status = IF query.strict /\ Degraded(found)
                                      THEN StrictStatus(found.reason) ELSE 200]

\* _write_log; its failure is passed over.
WriteLog ==
    /\ query.at = "log"
    /\ \/ logged' = <<found>> /\ UNCHANGED faults
       \/ Fault /\ logged' \in {<<>>, <<found>>}
    /\ Reply
    /\ UNCHANGED found
    /\ Elsewhere

QueryStep == BeginQuery \/ LookUpBase \/ Search \/ QueryDegrades \/ WriteLog

-----------------------------------------------------------------------------
Next ==
    \/ \E r \in Request : Post(r) \/ RequestStep(r)
    \/ \E w \in Worker : WorkerStep(w) \/ LoseWorker(w) \/ HardTimeLimit(w)
    \/ CreateBase \/ DisableBase
    \/ QueryStep

Spec == Init /\ [][Next]_vars

\* Handlers answer, and workers take what waits and go on with it.
FairSpec ==
    /\ Spec
    /\ \A r \in Request : WF_vars(RequestStep(r))
    /\ \A w \in Worker : WF_vars(WorkerStep(w))

-----------------------------------------------------------------------------
(* Properties.                                                              *)

TypeOK ==
    /\ setting \in Settings
    /\ pc \in [Request -> RequestLabels]
    /\ content \in [Request -> setting.texts \cup {<<>>}]
    /\ created \subseteq Request
    /\ document \in [setting.texts -> DocumentStatuses \cup {NoRow}]
    /\ mime \in [setting.texts -> setting.types \cup {NoRow}]
    /\ job \in [Request -> JobStatuses \cup {NoRow}]
    /\ latest \in [setting.texts -> Request \cup {NoRequest}]
    /\ chosen \in [Request -> Request \cup {NoRequest}]
    /\ reply \in [Request -> {"none", "accepted", "unavailable", "error"}
                              \cup {Refusal[b] : b \in DOMAIN Refusal}]
    /\ \A m \in BagToSet(queue) : m \in Message
    /\ \A w \in Worker : holding[w] # NoMessage => holding[w] \in Message
    /\ step \in [Worker -> Steps]
    /\ faults \in 0 .. setting.faults
    /\ killed \subseteq setting.texts
    /\ base \in BaseStatuses
    /\ query \in [at : QueryLabels, strict : BOOLEAN, bound : BOOLEAN,
                  status : {0, 200, 400, 404, 409, 503}]
    /\ found.reason \in Reasons
    /\ Len(logged) <= 1

Indexes(t) == {row.index : row \in rows[t]}

\* The chunks of t up to this index.
IndexedTo(t, last) == [k \in 1 .. last + 1 |->
                         (CHOOSE row \in rows[t] : row.index = k - 1).chunk]

\* Once a document is EMBEDDED, or a job for it SUCCEEDED, a query can find all
\* of it, cut as one of the executions cut it, whatever executions overlapped,
\* failed half way or were repeated; and nothing besides, unless the settings
\* changed.  "Unsupported MIME types fail before any embedding work is done."
IndexCoversDocument ==
    \A t \in setting.texts :
        /\ \A row, other \in rows[t] : row.index = other.index => row = other
        /\ rows[t] # {} => Parsable(t)
        /\ document[t] = "EMBEDDED" \/ (\E r \in Request :
                                           content[r] = t /\ job[r] = "SUCCEEDED")
           => \E cut \in setting.cuts : \E last \in Indexes(t) :
                /\ 0 .. last \subseteq Indexes(t)
                /\ Covers(IndexedTo(t, last), t)
                /\ Bounded(IndexedTo(t, last), cut.size)
                /\ Advance(IndexedTo(t, last))
                /\ setting.cuts = {cut} => Indexes(t) = 0 .. last

\* However many requests bring the same content at the same time, at most one of
\* them starts its ingestion.
OneIngestion == \A t \in setting.texts : started[t] <= 1

AtRest(t) == /\ \A m \in BagToSet(queue) : m.text # t
             /\ \A w \in Worker : holding[w] # NoMessage => holding[w].text # t

\* Ingestions at rest tell the truth.  With no more mishaps than there are
\* retries, and no worker killed for good, a document that can be parsed is
\* EMBEDDED and its job SUCCEEDED: lost workers, late writes and interrupted tasks
\* of one attempt do not spoil the next.  One that cannot is FAILED with its job
\* after the last retry, if nothing else goes wrong.
SettledAsParsed ==
    \A t \in setting.texts :
        started[t] > 0 /\ AtRest(t) /\ t \notin killed
        => \E r \in created :
             /\ content[r] = t
             /\ Parsable(t) /\ faults <= MaxRetries
                  => document[t] = "EMBEDDED" /\ job[chosen[r]] = "SUCCEEDED"
             /\ ~ Parsable(t) /\ faults = 0
                  => document[t] = "FAILED" /\ job[chosen[r]] = "FAILED"

Total(texts) ==
    LET sum[k \in 0 .. Len(texts)] ==
            IF k = 0 THEN 0 ELSE sum[k - 1] + Len(texts[k])
    IN  sum[Len(texts)]

\* Whatever a query meets, what it answers fits into the context and is part of
\* what was indexed, a degraded answer brings nothing, a strict caller gets no
\* degraded one for success, and the log tells of the same answer.  (Another
\* execution may have cut the text anew since it was found.)
QueryAccounted ==
    LET answer == found.chunks
    IN  /\ Total(answer) <= MaxContext
        /\ Len(answer) <= TopK
        /\ \A k \in DOMAIN answer :
             \E t \in {u \in setting.texts : rows[u] # {}} : \E cut \in setting.cuts :
                 \E row \in Written(t, cut) : \E n \in DOMAIN row.chunk.text :
                     answer[k] = SubSeq(row.chunk.text, 1, n)
        /\ Degraded(found) => answer = <<>>
        /\ query.strict /\ query.status = 200 => ~Degraded(found)
        /\ logged # <<>> => query.at = "answered" /\ logged = <<found>>

\* docs/specifications/_template/invariants.md: "Accepted asynchronous work
\* eventually reaches a terminal state or is recovered by a reaper."
AcceptedIsIngested ==
    \A r \in Request :
        reply[r] = "accepted"
            ~> \E t \in {content[r]} \cap setting.texts : document[t] \in {"EMBEDDED", "FAILED"}

=============================================================================
