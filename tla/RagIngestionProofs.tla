------------------------- MODULE RagIngestionProofs -------------------------
(***************************************************************************)
(* Proofs about RagIngestion, for any requests, workers, texts and         *)
(* mishaps.                                                                *)
(***************************************************************************)
EXTENDS RagIngestion, FiniteSetTheorems, WellFoundedInduction, TLAPS

\* What create_document has yet to do after it found or created its document.
Unsent == {"latest", "newJob", "enqueue"}

RequestTypes ==
    /\ pc \in [Request -> RequestLabels]
    /\ content \in [Request -> setting.texts \cup {<<>>}]
    /\ created \subseteq Request
    /\ document \in [setting.texts -> DocumentStatuses \cup {NoRow}]
    /\ started \in [setting.texts -> Nat]

\* A document is created by one request, and stays.
CreatorInv ==
    /\ \A r \in Request : pc[r] \in {"create"} \cup Unsent => content[r] \in setting.texts
    /\ \A r \in created : /\ pc[r] \notin {"idle", "create"}
                          /\ content[r] \in setting.texts
                          /\ document[content[r]] # NoRow
    /\ \A r, s \in created : content[r] = content[s] => r = s

\* What was sent, was sent once, by the creator, who is done with it.
SentInv ==
    \A t \in setting.texts :
        \/ started[t] = 0
        \/ started[t] = 1 /\ \E r \in created : content[r] = t /\ pc[r] \notin Unsent

SendInv == RequestTypes /\ CreatorInv /\ SentInv

\* At first nothing is created and nothing sent.
LEMMA InitSend == Init => SendInv
<1> SUFFICES ASSUME Init PROVE SendInv
    OBVIOUS
<1>1. RequestTypes
    BY DEF Init, RequestTypes, RequestLabels
<1>2. CreatorInv
    BY DEF Init, CreatorInv, Unsent
<1>3. SentInv
    BY DEF Init, SentInv
<1>4. QED
    BY <1>1, <1>2, <1>3 DEF SendInv

\* Whoever leaves the requests alone, and no document without its row, keeps
\* the invariant.
LEMMA OthersSend ==
    ASSUME SendInv,
           UNCHANGED <<setting, pc, content, created, started>>,
           document' \in [setting.texts -> DocumentStatuses \cup {NoRow}],
           \A t \in setting.texts : document[t] # NoRow => document'[t] # NoRow
    PROVE  SendInv'
<1>1. RequestTypes'
    BY DEF SendInv, RequestTypes
<1>2. CreatorInv'
    BY DEF SendInv, CreatorInv
<1>3. SentInv'
    BY DEF SendInv, SentInv
<1>4. QED
    BY <1>1, <1>2, <1>3 DEF SendInv

\* The task writes statuses of documents, and never takes a row away.
LEMMA EffectKeepsRows ==
    ASSUME SendInv, NEW w \in Worker, Effect(w) \/ UNCHANGED tables, UNCHANGED setting
    PROVE  /\ document' \in [setting.texts -> DocumentStatuses \cup {NoRow}]
           /\ \A t \in setting.texts : document[t] # NoRow => document'[t] # NoRow
<1>1. document \in [setting.texts -> DocumentStatuses \cup {NoRow}]
    BY DEF SendInv, RequestTypes
<1>2. CASE WriteDocument(w)
    <2>1. DocumentWrite[step[w]] \in DocumentStatuses
        BY <1>2 DEF WriteDocument, DocumentWrite, DocumentStatuses
    <2>2. NoRow \notin DocumentStatuses
        BY DEF NoRow, DocumentStatuses
    <2>3. document' = [document EXCEPT ![holding[w].text] = DocumentWrite[step[w]]]
        BY <1>2 DEF WriteDocument
    <2>4. QED
        BY <1>1, <2>1, <2>2, <2>3
<1>3. CASE ~ WriteDocument(w)
    <2>1. document' = document
        BY <1>3 DEF Effect, WriteJob, AddChunks, Compute, tables
    <2>2. QED
        BY <1>1, <2>1
<1>4. QED
    BY <1>2, <1>3

LEMMA PostSend ==
    ASSUME SendInv, NEW r \in Request, Post(r)
    PROVE  SendInv'
<1>1. /\ pc[r] = "idle" /\ r \notin created
      /\ UNCHANGED <<setting, created, document, started>>
    BY DEF Post, SendInv, CreatorInv, tables
<1>2. \/ /\ \E t \in setting.texts : content' = [content EXCEPT ![r] = t]
         /\ pc' = [pc EXCEPT ![r] = "create"]
      \/ /\ content' = content
         /\ pc' = [pc EXCEPT ![r] = "done"]
    BY DEF Post, Goto, Answer
<1>3. RequestTypes'
    BY <1>1, <1>2, SMTT(30) DEF SendInv, RequestTypes, RequestLabels
<1>4. CreatorInv'
    <2>1. \A s \in Request : s # r => pc'[s] = pc[s] /\ content'[s] = content[s]
        BY <1>2 DEF SendInv, RequestTypes
    <2>2. pc'[r] = "done" \/ (pc'[r] = "create" /\ content'[r] \in setting.texts)
        BY <1>2 DEF SendInv, RequestTypes
    <2>3. QED
        BY <1>1, <2>1, <2>2 DEF SendInv, RequestTypes, CreatorInv, Unsent
<1>5. SentInv'
    <2>1. \A s \in created : pc'[s] = pc[s] /\ content'[s] = content[s]
        BY <1>1, <1>2 DEF SendInv, RequestTypes
    <2>2. QED
        BY <1>1, <2>1 DEF SendInv, SentInv
<1>6. QED
    BY <1>3, <1>4, <1>5 DEF SendInv

\* The unique constraint: only who finds no row becomes a creator.
LEMMA CreateOrGetSend ==
    ASSUME SendInv, NEW r \in Request, CreateOrGet(r)
    PROVE  SendInv'
<1> DEFINE t == content[r]
<1>1. /\ pc[r] = "create" /\ r \notin created /\ t \in setting.texts
      /\ UNCHANGED <<setting, content, started>>
      /\ pc' = [pc EXCEPT ![r] = "latest"]
    BY DEF CreateOrGet, Goto, SendInv, CreatorInv
<1>2. \/ /\ document[t] = NoRow
         /\ document' = [document EXCEPT ![t] = "PENDING"]
         /\ created' = created \cup {r}
      \/ UNCHANGED <<document, created>>
    BY DEF CreateOrGet
<1>3. RequestTypes'
    BY <1>1, <1>2 DEF SendInv, RequestTypes, RequestLabels, DocumentStatuses
<1>4. CreatorInv'
    <2>1. \A s \in Request : s # r => pc'[s] = pc[s]
        BY <1>1 DEF SendInv, RequestTypes
    <2>2. pc'[r] = "latest"
        BY <1>1 DEF SendInv, RequestTypes
    <2>3. CASE UNCHANGED <<document, created>>
        BY <1>1, <2>1, <2>2, <2>3 DEF SendInv, RequestTypes, CreatorInv, Unsent
    <2>4. CASE /\ document[t] = NoRow
               /\ document' = [document EXCEPT ![t] = "PENDING"]
               /\ created' = created \cup {r}
        <3>1. \A s \in created : content[s] # t
            BY <2>4 DEF SendInv, CreatorInv
        <3>2. \A u \in setting.texts : document[u] # NoRow => document'[u] # NoRow
            BY <2>4 DEF SendInv, RequestTypes, NoRow
        <3>3. document'[t] # NoRow
            BY <1>1, <2>4 DEF SendInv, RequestTypes, NoRow
        <3>4. \A s \in Request :
                 pc'[s] \in {"create"} \cup Unsent => content'[s] \in setting'.texts
            BY <1>1, <2>1, <2>2 DEF SendInv, CreatorInv
        <3>5. \A s \in created' : /\ pc'[s] \notin {"idle", "create"}
                                  /\ content'[s] \in setting'.texts
                                  /\ document'[content'[s]] # NoRow
            BY <1>1, <2>1, <2>2, <2>4, <3>2, <3>3 DEF SendInv, RequestTypes, CreatorInv
        <3>6. \A s, u \in created' : content'[s] = content'[u] => s = u
            BY <1>1, <2>4, <3>1 DEF SendInv, CreatorInv
        <3>7. QED
            BY <3>4, <3>5, <3>6 DEF CreatorInv
    <2>5. QED
        BY <1>2, <2>3, <2>4
<1>5. SentInv'
    <2>1. \A s \in created : pc'[s] = pc[s] /\ s \in created'
        BY <1>1, <1>2 DEF SendInv, RequestTypes
    <2>2. QED
        BY <1>1, <2>1 DEF SendInv, SentInv
<1>6. QED
    BY <1>3, <1>4, <1>5 DEF SendInv

\* A request that goes on without creating or sending anything.
LEMMA MoveSend ==
    ASSUME SendInv, NEW r \in Request, NEW label \in RequestLabels \ {"idle", "create"},
           pc[r] \in {"create"} \cup Unsent, pc[r] = "create" => r \notin created,
           r \in created /\ label \in Unsent => pc[r] \in Unsent,
           Goto(r, label),
           UNCHANGED <<setting, content, created, document, started>>
    PROVE  SendInv'
<1>1. pc' = [pc EXCEPT ![r] = label]
    BY DEF Goto
<1>2. RequestTypes'
    BY <1>1 DEF SendInv, RequestTypes
<1>3. CreatorInv'
    BY <1>1 DEF SendInv, RequestTypes, CreatorInv, Unsent
<1>4. SentInv'
    <2>1. \A s \in created : pc[s] \notin Unsent => pc'[s] \notin Unsent
        BY <1>1 DEF SendInv, RequestTypes
    <2>2. QED
        BY <2>1 DEF SendInv, SentInv
<1>5. QED
    BY <1>2, <1>3, <1>4 DEF SendInv

\* The creator sends its document, and may learn that it could not.
Sends(r) == (Enqueue(r) \/ EnqueueFails(r)) /\ Dispatch(r)

\* The creator has not sent its document before, and nobody else has.
LEMMA SendsOnce ==
    ASSUME SendInv, NEW r \in Request, Sends(r)
    PROVE  SendInv'
<1> DEFINE t == content[r]
<1>1. /\ pc[r] = "enqueue" /\ r \in created /\ t \in setting.texts
      /\ UNCHANGED <<setting, content, created, document>>
      /\ pc' = [pc EXCEPT ![r] = "done"]
      /\ started' = [started EXCEPT ![t] = @ + 1]
    BY DEF Sends, Dispatch, Enqueue, EnqueueFails, Answer, Goto, SendInv, CreatorInv, tables
<1>2. started[t] = 0
    <2>1. \A s \in created : content[s] = t => pc[s] \in Unsent
        BY <1>1 DEF SendInv, CreatorInv, Unsent
    <2>2. QED
        BY <1>1, <2>1 DEF SendInv, SentInv
<1>3. RequestTypes'
    BY <1>1 DEF SendInv, RequestTypes, RequestLabels
<1>4. CreatorInv'
    BY <1>1 DEF SendInv, RequestTypes, CreatorInv, Unsent
<1>5. SentInv'
    <2>1. pc'[r] \notin Unsent /\ \A s \in created : s # r => pc'[s] = pc[s]
        BY <1>1 DEF SendInv, RequestTypes, Unsent
    <2>2. started'[t] = 1 /\ \A u \in setting.texts : u # t => started'[u] = started[u]
        BY <1>1, <1>2 DEF SendInv, RequestTypes
    <2>3. QED
        BY <1>1, <2>1, <2>2 DEF SendInv, SentInv
<1>6. QED
    BY <1>3, <1>4, <1>5 DEF SendInv

LEMMA RequestSend ==
    ASSUME SendInv, NEW r \in Request, RequestStep(r)
    PROVE  SendInv'
<1>1. CASE CreateOrGet(r)
    BY <1>1, CreateOrGetSend
<1>2. CASE FindLatestJob(r)
    <2> DEFINE label == IF latest[content[r]] = NoRequest THEN "newJob" ELSE "enqueue"
    <2>1. /\ pc[r] = "latest" /\ Goto(r, label)
          /\ UNCHANGED <<setting, content, created, document, started>>
        BY <1>2 DEF FindLatestJob, tables
    <2>2. label \in RequestLabels \ {"idle", "create"} /\ label \in Unsent
        BY DEF RequestLabels, Unsent
    <2> HIDE DEF label
    <2>3. QED
        BY <2>1, <2>2, MoveSend DEF Unsent
<1>3. CASE CreateJob(r)
    <2>1. /\ pc[r] = "newJob" /\ Goto(r, "enqueue")
          /\ UNCHANGED <<setting, content, created, document, started>>
        BY <1>3 DEF CreateJob
    <2>2. QED
        BY <2>1, MoveSend DEF Unsent, RequestLabels
<1>4. CASE Sends(r)
    BY <1>4, SendsOnce
<1>5. CASE (EnqueueFails(r) /\ ~ Sends(r)) \/ Replay(r)
    <2>1. /\ pc[r] = "enqueue" /\ Goto(r, "done")
          /\ UNCHANGED <<setting, content, created, document, started>>
        BY <1>5 DEF EnqueueFails, Sends, Replay, Answer, tables
    <2>2. QED
        BY <2>1, MoveSend DEF Unsent, RequestLabels
<1>6. CASE RequestFails(r)
    <2>1. /\ pc[r] \in {"create"} \cup Unsent /\ (Goto(r, "done") \/ Goto(r, "dead"))
          /\ UNCHANGED <<setting, content, created, document, started>>
        BY <1>6 DEF RequestFails, Answer, tables, Unsent
    <2>2. pc[r] = "create" => r \notin created
        BY DEF SendInv, CreatorInv
    <2>3. {"done", "dead"} \subseteq RequestLabels \ ({"idle", "create"} \cup Unsent)
        BY DEF RequestLabels, Unsent
    <2>4. QED
        BY <1>6, <2>1, <2>2, <2>3, MoveSend DEF RequestFails, Unsent
<1>7. Enqueue(r) => Sends(r)
    BY DEF Enqueue, Sends
<1>8. QED
    BY <1>1, <1>2, <1>3, <1>4, <1>5, <1>6, <1>7 DEF RequestStep

\* Workers, knowledge bases and queries.
LEMMA WorkerSend ==
    ASSUME SendInv, NEW w \in Worker,
           WorkerStep(w) \/ LoseWorker(w) \/ HardTimeLimit(w)
    PROVE  SendInv'
<1>1. UNCHANGED <<setting, pc, content, created, started>>
    BY DEF WorkerStep, Receive, Proceed, ParseFails, StepRaises, SoftTimeLimit, Retry,
           Acknowledge, LoseWorker, HardTimeLimit, requests
<1>2. Effect(w) \/ UNCHANGED tables
    BY DEF WorkerStep, Receive, Proceed, ParseFails, StepRaises, SoftTimeLimit, Retry,
           Acknowledge, LoseWorker, HardTimeLimit
<1>3. QED
    BY <1>1, <1>2, EffectKeepsRows, OthersSend

LEMMA NextSend == SendInv /\ [Next]_vars => SendInv'
<1> SUFFICES ASSUME SendInv, [Next]_vars PROVE SendInv'
    OBVIOUS
<1>1. ASSUME UNCHANGED <<setting, requests, tables, started>> PROVE SendInv'
    <2>1. UNCHANGED <<setting, pc, content, created, started, document>>
        BY <1>1 DEF requests, tables
    <2>2. QED
        BY <2>1, OthersSend DEF SendInv, RequestTypes
<1>2. CASE \E r \in Request : Post(r) \/ RequestStep(r)
    BY <1>2, PostSend, RequestSend
<1>3. CASE \E w \in Worker : WorkerStep(w) \/ LoseWorker(w) \/ HardTimeLimit(w)
    BY <1>3, WorkerSend
<1>4. CASE CreateBase \/ DisableBase
    BY <1>1, <1>4 DEF CreateBase, DisableBase
<1>5. CASE QueryStep
    BY <1>1, <1>5 DEF QueryStep, BeginQuery, LookUpBase, Search, QueryDegrades, WriteLog,
                      Elsewhere
<1>6. CASE UNCHANGED vars
    BY <1>1, <1>6 DEF vars
<1>7. QED
    BY <1>2, <1>3, <1>4, <1>5, <1>6 DEF Next

\* However many requests bring a content at once, create_document sends its
\* ingestion at most once: the unique constraint picks one creator, and only
\* the creator sends.
THEOREM IngestedOnce == Spec => []OneIngestion
<1>1. SendInv => OneIngestion
    BY DEF SendInv, RequestTypes, SentInv, OneIngestion
<1>2. QED
    BY <1>1, InitSend, NextSend, PTL DEF Spec

-----------------------------------------------------------------------------
(* Messages.                                                                *)

LEMMA AddedToBag ==
    ASSUME NEW B, IsABag(B), NEW m
    PROVE  /\ IsABag(B (+) SetToBag({m}))
           /\ BagToSet(B (+) SetToBag({m})) = BagToSet(B) \cup {m}
<1> DEFINE C == B (+) SetToBag({m})
<1>1. /\ DOMAIN C = DOMAIN B \cup {m}
      /\ \A e \in DOMAIN B \cup {m} :
            C[e] = (IF e \in DOMAIN B THEN B[e] ELSE 0) + (IF e \in {m} THEN 1 ELSE 0)
    BY DEF (+), SetToBag
<1>2. \A e \in DOMAIN B : B[e] \in Nat /\ B[e] > 0
    BY DEF IsABag
<1>3. \A e \in DOMAIN C : C[e] \in Nat /\ C[e] > 0
    BY <1>1, <1>2
<1>4. C = [e \in DOMAIN C |-> C[e]]
    BY DEF (+), SetToBag
<1>5. QED
    BY <1>1, <1>3, <1>4 DEF IsABag, BagToSet

LEMMA TakenFromBag ==
    ASSUME NEW B, IsABag(B), NEW m
    PROVE  /\ IsABag(B (-) SetToBag({m}))
           /\ BagToSet(B (-) SetToBag({m})) \subseteq BagToSet(B)
           /\ BagToSet(B) \ {m} \subseteq BagToSet(B (-) SetToBag({m}))
<1> DEFINE L == [e \in DOMAIN B |-> IF e \in DOMAIN SetToBag({m}) THEN B[e] - SetToBag({m})[e]
                                    ELSE B[e]]
           C == [e \in {d \in DOMAIN L : L[d] > 0} |-> L[e]]
<1>1. B (-) SetToBag({m}) = C
    BY DEF (-)
<1>2. DOMAIN SetToBag({m}) = {m} /\ SetToBag({m})[m] = 1
    BY DEF SetToBag
<1>3. \A e \in DOMAIN B : B[e] \in Nat /\ B[e] > 0
    BY DEF IsABag
<1>4. \A e \in DOMAIN B : L[e] = IF e = m THEN B[e] - 1 ELSE B[e]
    BY <1>2
<1>5. \A e \in DOMAIN B : L[e] \in Nat
    BY <1>3, <1>4
<1>6. DOMAIN C = {e \in DOMAIN B : L[e] > 0} /\ \A e \in DOMAIN C : C[e] = L[e]
    OBVIOUS
<1>7. C \in [DOMAIN C -> {n \in Nat : n > 0}]
    BY <1>5, <1>6
<1>8. DOMAIN B \ {m} \subseteq DOMAIN C
    BY <1>3, <1>4, <1>6
<1>9. QED
    BY <1>1, <1>6, <1>7, <1>8 DEF IsABag, BagToSet

-----------------------------------------------------------------------------
(* Types.                                                                   *)

\* Messages about documents of this instance.
Mail == [text : setting.texts, job : Request, retries : 0 .. MaxRetries]

\* A worker holds a message unless it is free.
MailTypes ==
    /\ IsABag(queue)
    /\ BagToSet(queue) \subseteq Mail
    /\ holding \in [Worker -> Mail \cup {NoMessage}]
    /\ step \in [Worker -> Steps]
    /\ \A w \in Worker : step[w] = "free" <=> holding[w] = NoMessage

\* Who is about to send has a job to name.
RowTypes ==
    /\ job \in [Request -> JobStatuses \cup {NoRow}]
    /\ latest \in [setting.texts -> Request \cup {NoRequest}]
    /\ chosen \in [Request -> Request \cup {NoRequest}]
    /\ reply \in [Request -> {"none", "accepted", "unavailable", "error"}
                              \cup {Refusal[b] : b \in DOMAIN Refusal}]
    /\ \A r \in Request : pc[r] = "enqueue" => chosen[r] \in Request

OtherTypes ==
    /\ setting \in Settings
    /\ faults \in 0 .. setting.faults
    /\ killed \subseteq setting.texts
    /\ base \in BaseStatuses
    /\ mime \in [setting.texts -> setting.types \cup {NoRow}]

QueryTypes ==
    /\ query \in [at : QueryLabels, strict : BOOLEAN, bound : BOOLEAN,
                  status : {0, 200, 400, 404, 409, 503}]
    /\ found.reason \in Reasons
    /\ Len(logged) <= 1

TypeInv == SendInv /\ MailTypes /\ RowTypes /\ OtherTypes /\ QueryTypes

LEMMA MailIsMessage ==
    ASSUME setting \in Settings
    PROVE  Mail \subseteq Message /\ NoMessage \notin Mail
<1>1. setting.texts \subseteq Text
    BY DEF Text
<1>2. Mail \subseteq Message
    BY <1>1 DEF Mail, Message
<1>3. QED
    BY <1>2, MessageAssumption

LEMMA InitTypes == Init => TypeInv
<1> SUFFICES ASSUME Init PROVE TypeInv
    OBVIOUS
<1>1. SendInv
    BY InitSend
<1>2. MailTypes
    <2>1. IsABag(queue) /\ BagToSet(queue) = {}
        BY DEF Init, EmptyBag, SetToBag, IsABag, BagToSet
    <2>2. QED
        BY <2>1 DEF Init, MailTypes, Steps
<1>3. RowTypes
    BY DEF Init, RowTypes
<1>4. OtherTypes
    <2>1. setting \in Settings /\ setting.faults \in Nat
        BY SettingsAssumption DEF Init
    <2>2. QED
        BY <2>1 DEF Init, OtherTypes, BaseStatuses
<1>5. QueryTypes
    BY DEF Init, QueryTypes, QueryLabels, NoResponse, Response, Reasons
<1>6. QED
    BY <1>1, <1>2, <1>3, <1>4, <1>5 DEF TypeInv

LEMMA Sent ==
    ASSUME IsABag(queue), NEW m, Send(m)
    PROVE  BagToSet(queue') = BagToSet(queue) \cup {m}
    BY AddedToBag, Zenon DEF Send

\* Sending a message of Mail, and changing nothing a worker holds.
LEMMA SendMail ==
    ASSUME MailTypes, NEW m \in Mail, Send(m), UNCHANGED setting
    PROVE  /\ IsABag(queue') /\ BagToSet(queue') \subseteq Mail'
           /\ BagToSet(queue') = BagToSet(queue) \cup {m}
<1>1. Mail' = Mail
    BY DEF Mail
<1>2. QED
    BY <1>1, AddedToBag DEF MailTypes, Send

\* One worker goes from one step of its task to another.
LEMMA MoveMail ==
    ASSUME MailTypes, NEW w \in Worker, NEW label \in Steps \ {"free"},
           step[w] # "free", Become(w, label), UNCHANGED <<setting, queue, holding>>
    PROVE  MailTypes'
<1>1. Mail' = Mail
    BY DEF Mail
<1>2. step' = [step EXCEPT ![w] = label]
    BY DEF Become
<1>3. QED
    BY <1>1, <1>2 DEF MailTypes

LEMMA WorkerMail ==
    ASSUME MailTypes, setting \in Settings, NEW w \in Worker,
           WorkerStep(w) \/ LoseWorker(w) \/ HardTimeLimit(w)
    PROVE  MailTypes'
<1>1. Mail' = Mail /\ NoMessage \notin Mail /\ UNCHANGED setting
    <2>1. UNCHANGED setting
        BY DEF WorkerStep, Receive, Proceed, ParseFails, StepRaises, SoftTimeLimit, Retry,
               Acknowledge, LoseWorker, HardTimeLimit
    <2>2. QED
        BY <2>1, MailIsMessage DEF Mail
<1>2. step[w] # "free" => holding[w] \in Mail
    BY DEF MailTypes
<1>3. CASE Receive(w)
    <2>1. PICK m \in BagToSet(queue) : /\ queue' = queue (-) SetToBag({m})
                                       /\ holding' = [holding EXCEPT ![w] = m]
        BY <1>3 DEF Receive
    <2>2. IsABag(queue') /\ BagToSet(queue') \subseteq Mail /\ m \in Mail
        BY <2>1, TakenFromBag DEF MailTypes
    <2>3. step' = [step EXCEPT ![w] = "start"] /\ "start" \in Steps \ {"free"}
        BY <1>3 DEF Receive, Become, Steps, After
    <2>4. QED
        BY <1>1, <2>1, <2>2, <2>3 DEF MailTypes
<1>4. CASE Proceed(w) \/ ParseFails(w) \/ StepRaises(w) \/ SoftTimeLimit(w)
    <2> DEFINE label == step'[w]
    <2>1. UNCHANGED <<queue, holding>> /\ step[w] # "free"
        BY <1>4 DEF Proceed, ParseFails, StepRaises, SoftTimeLimit, After
    <2>2. \E l \in Steps \ {"free"} : Become(w, l)
        BY <1>4 DEF Proceed, ParseFails, StepRaises, SoftTimeLimit, After, Steps, Except
    <2>3. QED
        BY <1>1, <2>1, <2>2, MoveMail
<1>5. CASE Retry(w)
    <2>1. step[w] = "raised" /\ step' = [step EXCEPT ![w] = "acknowledge"] /\ UNCHANGED holding
        BY <1>5 DEF Retry, Become
    <2>2. IsABag(queue') /\ BagToSet(queue') \subseteq Mail
        <3>1. CASE holding[w].retries < MaxRetries
            <4>1. [holding[w] EXCEPT !.retries = @ + 1] \in Mail
                BY <1>2, <2>1, <3>1, BoundAssumption DEF Mail
            <4>2. Send([holding[w] EXCEPT !.retries = @ + 1])
                BY <1>5, <3>1 DEF Retry
            <4>3. QED
                BY <1>1, <4>1, <4>2, SendMail
        <3>2. CASE ~ holding[w].retries < MaxRetries
            BY <1>5, <3>2 DEF Retry, MailTypes
        <3>3. QED
            BY <3>1, <3>2
    <2>3. QED
        BY <1>1, <2>1, <2>2 DEF MailTypes, Steps
<1>6. CASE Acknowledge(w) \/ LoseWorker(w) \/ HardTimeLimit(w)
    <2>1. step[w] # "free" /\ step' = [step EXCEPT ![w] = "free"]
          /\ holding' = [holding EXCEPT ![w] = NoMessage]
        BY <1>6 DEF Acknowledge, LoseWorker, HardTimeLimit, Release, Become
    <2>2. IsABag(queue') /\ BagToSet(queue') \subseteq Mail
        <3>1. CASE Send(holding[w])
            BY <1>1, <1>2, <2>1, <3>1, SendMail
        <3>2. CASE UNCHANGED queue
            BY <3>2 DEF MailTypes
        <3>3. QED
            BY <1>6, <3>1, <3>2 DEF Acknowledge, LoseWorker, HardTimeLimit
    <2>3. QED
        BY <1>1, <2>1, <2>2 DEF MailTypes, Steps
<1>7. QED
    BY <1>3, <1>4, <1>5, <1>6 DEF WorkerStep

LEMMA RequestRows ==
    ASSUME SendInv, RowTypes, base \in BaseStatuses, NEW r \in Request,
           Post(r) \/ RequestStep(r)
    PROVE  RowTypes'
<1>0. pc \in [Request -> RequestLabels]
    BY DEF SendInv, RequestTypes
<1>1. CASE Post(r)
    <2>1. /\ pc' \in [Request -> {"create", "done"} \cup RequestLabels]
          /\ pc' = [pc EXCEPT ![r] = pc'[r]] /\ pc'[r] # "enqueue"
          /\ UNCHANGED <<setting, job, latest, chosen>>
        BY <1>0, <1>1 DEF Post, Goto, Answer, tables
    <2>2. base # "ACTIVE" => base \in DOMAIN Refusal
        BY DEF BaseStatuses, Refusal, NoRow, OfAnother
    <2>3. UNCHANGED reply \/ \E b \in DOMAIN Refusal : reply' = [reply EXCEPT ![r] = Refusal[b]]
        BY <1>1, <2>2 DEF Post, Answer
    <2>4. QED
        BY <1>0, <2>1, <2>3 DEF RowTypes
<1>2. CASE FindLatestJob(r)
    <2>1. content[r] \in setting.texts
        BY <1>2 DEF FindLatestJob, SendInv, CreatorInv, Unsent
    <2>2. QED
        BY <1>0, <1>2, <2>1 DEF FindLatestJob, RowTypes, Goto, tables
<1>3. CASE CreateJob(r)
    BY <1>0, <1>3, RequestAssumption DEF CreateJob, RowTypes, Goto, JobStatuses
<1>4. CASE CreateOrGet(r)
    BY <1>0, <1>4 DEF CreateOrGet, RowTypes, Goto
<1>5. CASE Enqueue(r) \/ EnqueueFails(r) \/ Replay(r) \/ RequestFails(r)
    <2>1. /\ UNCHANGED <<setting, job, latest, chosen>>
          /\ \E label \in {"done", "dead"} : Goto(r, label)
          /\ \/ UNCHANGED reply
             \/ \E answer \in {"accepted", "unavailable", "error"} :
                   reply' = [reply EXCEPT ![r] = answer]
        BY <1>5 DEF Enqueue, EnqueueFails, Replay, RequestFails, Answer, tables
    <2>2. QED
        BY <1>0, <2>1 DEF RowTypes, Goto
<1>6. QED
    BY <1>1, <1>2, <1>3, <1>4, <1>5 DEF RequestStep

LEMMA WorkerRows ==
    ASSUME RowTypes, NEW w \in Worker,
           WorkerStep(w) \/ LoseWorker(w) \/ HardTimeLimit(w)
    PROVE  RowTypes'
<1>1. UNCHANGED <<setting, pc, latest, chosen, reply>>
    BY DEF WorkerStep, Receive, Proceed, ParseFails, StepRaises, SoftTimeLimit, Retry,
           Acknowledge, LoseWorker, HardTimeLimit, requests
<1>2. Effect(w) \/ UNCHANGED tables
    BY DEF WorkerStep, Receive, Proceed, ParseFails, StepRaises, SoftTimeLimit, Retry,
           Acknowledge, LoseWorker, HardTimeLimit
<1>3. CASE WriteJob(w)
    <2>1. JobWrite[step[w]] \in JobStatuses
        BY <1>3 DEF WriteJob, JobWrite, JobStatuses
    <2>2. QED
        BY <1>1, <1>3, <2>1 DEF WriteJob, RowTypes
<1>4. CASE ~ WriteJob(w)
    <2>1. UNCHANGED job
        BY <1>2, <1>4 DEF Effect, WriteDocument, AddChunks, Compute, tables
    <2>2. QED
        BY <1>1, <2>1 DEF RowTypes
<1>5. QED
    BY <1>3, <1>4

LEMMA RequestMail ==
    ASSUME SendInv, RowTypes, MailTypes, NEW r \in Request, Post(r) \/ RequestStep(r)
    PROVE  MailTypes'
<1>1. UNCHANGED <<setting, holding, step>>
    BY DEF Post, RequestStep, CreateOrGet, FindLatestJob, CreateJob, Enqueue, EnqueueFails,
           Replay, RequestFails, worker
<1>2. CASE Sends(r)
    <2>1. pc[r] = "enqueue" /\ Send(FirstMessage(r))
        BY <1>2 DEF Sends, Dispatch, Enqueue, EnqueueFails
    <2>2. FirstMessage(r) \in Mail
        BY <2>1, BoundAssumption DEF FirstMessage, Mail, SendInv, CreatorInv, Unsent, RowTypes
    <2>3. IsABag(queue') /\ BagToSet(queue') \subseteq Mail'
        BY <1>1, <2>1, <2>2, SendMail
    <2>4. QED
        BY <1>1, <2>3 DEF MailTypes, Mail
<1>3. CASE ~ Sends(r)
    <2>1. UNCHANGED queue
        BY <1>3 DEF Sends, Post, RequestStep, CreateOrGet, FindLatestJob, CreateJob, Enqueue,
                    EnqueueFails, Replay, RequestFails
    <2>2. QED
        BY <1>1, <2>1 DEF MailTypes, Mail
<1>4. QED
    BY <1>2, <1>3

LEMMA NextOthers ==
    ASSUME SendInv, MailTypes, OtherTypes, [Next]_vars
    PROVE  OtherTypes'
<1>1. UNCHANGED setting
    BY DEF Next, vars, Post, RequestStep, CreateOrGet, FindLatestJob, CreateJob, Enqueue,
           EnqueueFails, Replay, RequestFails, WorkerStep, Receive, Proceed, ParseFails,
           StepRaises, SoftTimeLimit, Retry, Acknowledge, LoseWorker, HardTimeLimit,
           CreateBase, DisableBase, QueryStep, BeginQuery, LookUpBase, Search, QueryDegrades,
           WriteLog, Elsewhere
<1>2. setting \in Settings /\ setting.faults \in Nat
    BY SettingsAssumption DEF OtherTypes
<1>3. UNCHANGED faults \/ Fault
    BY DEF Next, vars, Post, RequestStep, CreateOrGet, FindLatestJob, CreateJob, Enqueue,
           EnqueueFails, Replay, RequestFails, WorkerStep, Receive, Proceed, ParseFails,
           StepRaises, SoftTimeLimit, Retry, Acknowledge, LoseWorker, HardTimeLimit,
           CreateBase, DisableBase, QueryStep, BeginQuery, LookUpBase, Search, QueryDegrades,
           WriteLog
<1>4. faults' \in 0 .. setting.faults
    BY <1>2, <1>3 DEF OtherTypes, Fault
<1>5. UNCHANGED killed \/ \E w \in Worker : HardTimeLimit(w)
    BY DEF Next, vars, Post, RequestStep, CreateOrGet, FindLatestJob, CreateJob, Enqueue,
           EnqueueFails, Replay, RequestFails, WorkerStep, Receive, Proceed, ParseFails,
           StepRaises, SoftTimeLimit, Retry, Acknowledge, LoseWorker,
           CreateBase, DisableBase, QueryStep, BeginQuery, LookUpBase, Search, QueryDegrades,
           WriteLog, Elsewhere
<1>6. killed' \subseteq setting.texts
    <2>1. ASSUME NEW w \in Worker, HardTimeLimit(w) PROVE killed' \subseteq setting.texts
        <3>1. holding[w].text \in setting.texts
            BY <2>1 DEF HardTimeLimit, MailTypes, Mail
        <3>2. QED
            BY <2>1, <3>1 DEF HardTimeLimit, OtherTypes
    <2>2. QED
        BY <1>5, <2>1 DEF OtherTypes
<1>7. base' \in BaseStatuses
    <2>1. UNCHANGED base \/ CreateBase \/ DisableBase
        BY DEF Next, vars, Post, RequestStep, CreateOrGet, FindLatestJob, CreateJob, Enqueue,
               EnqueueFails, Replay, RequestFails, WorkerStep, Receive, Proceed, ParseFails,
               StepRaises, SoftTimeLimit, Retry, Acknowledge, LoseWorker, HardTimeLimit,
               QueryStep, BeginQuery, LookUpBase, Search, QueryDegrades,
               WriteLog, Elsewhere, asking
    <2>2. QED
        BY <2>1 DEF CreateBase, DisableBase, BaseStatuses, OtherTypes
<1>8. mime' \in [setting.texts -> setting.types \cup {NoRow}]
    <2>1. UNCHANGED mime \/ \E r \in Request : CreateOrGet(r)
        BY DEF Next, vars, requests, Post, RequestStep, FindLatestJob, CreateJob, Enqueue,
               EnqueueFails, Replay, RequestFails, WorkerStep, Receive, Proceed, ParseFails,
               StepRaises, SoftTimeLimit, Retry, Acknowledge, LoseWorker, HardTimeLimit,
               CreateBase, DisableBase, QueryStep, BeginQuery, LookUpBase, Search,
               QueryDegrades, WriteLog, Elsewhere
    <2>2. QED
        BY <2>1 DEF CreateOrGet, OtherTypes
<1>9. QED
    BY <1>1, <1>2, <1>4, <1>6, <1>7, <1>8 DEF OtherTypes

LEMMA NextQuery ==
    ASSUME OtherTypes, QueryTypes, [Next]_vars
    PROVE  QueryTypes'
<1>1. CASE UNCHANGED asking \/ CreateBase \/ DisableBase
    BY <1>1 DEF asking, CreateBase, DisableBase, QueryTypes
<1>2. CASE BeginQuery
    <2>1. setting.queries \subseteq [strict : BOOLEAN, bound : BOOLEAN]
        BY SettingsAssumption DEF OtherTypes
    <2>2. PICK q \in setting.queries :
              query' = [query EXCEPT !.strict = q.strict, !.bound = q.bound,
                                     !.at = IF q.bound THEN "base" ELSE "answered"]
        BY <1>2 DEF BeginQuery
    <2>3. found'.reason \in Reasons /\ UNCHANGED logged
        BY <1>2 DEF BeginQuery, QueryTypes, Response, Reasons
    <2>4. /\ q.strict \in BOOLEAN /\ q.bound \in BOOLEAN
          /\ (IF q.bound THEN "base" ELSE "answered") \in QueryLabels
        BY <2>1 DEF QueryLabels
    <2>5. query' = [at |-> IF q.bound THEN "base" ELSE "answered", strict |-> q.strict,
                    bound |-> q.bound, status |-> query.status]
        BY <2>2, ZenonT(60) DEF QueryTypes
    <2>6. query' \in [at : QueryLabels, strict : BOOLEAN, bound : BOOLEAN,
                      status : {0, 200, 400, 404, 409, 503}]
        BY <2>4, <2>5 DEF QueryTypes
    <2>7. QED
        BY <2>3, <2>6 DEF QueryTypes
<1>3. CASE LookUpBase \/ Search \/ QueryDegrades
    <2>1. /\ UNCHANGED logged
          /\ \E place \in {"search", "log"} : query' = [query EXCEPT !.at = place]
        BY <1>3 DEF LookUpBase, Search, QueryDegrades, Conclude, Ask
    <2>2. found'.reason \in Reasons
        BY <1>3 DEF LookUpBase, Search, QueryDegrades, Conclude, Response, Reasons, QueryTypes
    <2>3. QED
        BY <2>1, <2>2 DEF QueryTypes, QueryLabels
<1>4. CASE WriteLog
    <2> DEFINE status == IF query.strict /\ Degraded(found)
                         THEN StrictStatus(found.reason) ELSE 200
    <2>1. UNCHANGED found /\ (logged' = <<>> \/ logged' = <<found>>)
        BY <1>4 DEF WriteLog
    <2>2. Len(logged') <= 1
        <3>1. Len(<<>>) = 0 /\ Len(<<found>>) = 1
            OBVIOUS
        <3>2. Len(logged') = 0 \/ Len(logged') = 1
            BY <2>1, <3>1, Zenon
        <3>3. 0 <= 1 /\ 1 <= 1
            OBVIOUS
        <3>4. QED
            BY <3>2, <3>3, Zenon
    <2>3. status \in {200, 400, 404, 409, 503}
        BY DEF StrictStatus
    <2>4. query' = [query EXCEPT !.at = "answered", !.status = status]
        BY <1>4 DEF WriteLog, Reply
    <2> HIDE DEF status
    <2>5. query' = [at |-> "answered", strict |-> query.strict, bound |-> query.bound,
                    status |-> status]
        BY <2>4 DEF QueryTypes
    <2>6. query' \in [at : QueryLabels, strict : BOOLEAN, bound : BOOLEAN,
                      status : {0, 200, 400, 404, 409, 503}]
        BY <2>3, <2>5 DEF QueryTypes, QueryLabels
    <2>7. QED
        BY <2>1, <2>2, <2>6 DEF QueryTypes
<1>5. UNCHANGED asking \/ CreateBase \/ DisableBase \/ QueryStep
    BY DEF Next, vars, Post, RequestStep, CreateOrGet, FindLatestJob, CreateJob, Enqueue,
           EnqueueFails, Replay, RequestFails, WorkerStep, Receive, Proceed, ParseFails,
           StepRaises, SoftTimeLimit, Retry, Acknowledge, LoseWorker, HardTimeLimit
<1>6. QED
    BY <1>1, <1>2, <1>3, <1>4, <1>5 DEF QueryStep

LEMMA NextTypes == TypeInv /\ [Next]_vars => TypeInv'
<1> SUFFICES ASSUME TypeInv, [Next]_vars PROVE TypeInv'
    OBVIOUS
<1>1. SendInv' /\ OtherTypes' /\ QueryTypes'
    BY NextSend, NextOthers, NextQuery DEF TypeInv
<1>2. RowTypes' /\ MailTypes'
    <2>1. CASE \E r \in Request : Post(r) \/ RequestStep(r)
        BY <2>1, RequestRows, RequestMail DEF TypeInv, OtherTypes
    <2>2. CASE \E w \in Worker : WorkerStep(w) \/ LoseWorker(w) \/ HardTimeLimit(w)
        BY <2>2, WorkerRows, WorkerMail DEF TypeInv, OtherTypes
    <2>3. CASE UNCHANGED <<setting, requests, tables, queue, worker>>
        BY <2>3 DEF requests, tables, worker, TypeInv, RowTypes, MailTypes, Mail
    <2>4. CASE CreateBase \/ DisableBase \/ QueryStep \/ UNCHANGED vars
        BY <2>3, <2>4 DEF CreateBase, DisableBase, vars, QueryStep, BeginQuery, LookUpBase,
                          Search, QueryDegrades, WriteLog, Elsewhere
    <2>5. QED
        BY <2>1, <2>2, <2>4 DEF Next
<1>3. QED
    BY <1>1, <1>2 DEF TypeInv

LEMMA AlwaysTyped == Spec => []TypeInv
    BY InitTypes, NextTypes, PTL DEF Spec

\* Every table, message, worker and query keeps to its type: what is sent is a
\* message within the retries, what a worker holds is one, and a query has one
\* log row at most.
THEOREM TypeCorrect == Spec => []TypeOK
<1>1. TypeInv => TypeOK
    <2> SUFFICES ASSUME TypeInv PROVE TypeOK
        OBVIOUS
    <2>1. Mail \subseteq Message
        BY MailIsMessage DEF TypeInv, OtherTypes
    <2>2. /\ \A m \in BagToSet(queue) : m \in Message
          /\ \A w \in Worker : holding[w] # NoMessage => holding[w] \in Message
        BY <2>1 DEF TypeInv, MailTypes
    <2>3. QED
        BY <2>2 DEF TypeInv, TypeOK, SendInv, RequestTypes, MailTypes, RowTypes, OtherTypes,
                    QueryTypes
<1>2. QED
    BY <1>1, AlwaysTyped, PTL

-----------------------------------------------------------------------------
(* What belongs to what.                                                    *)

InFlight == BagToSet(queue) \cup {holding[w] : w \in {v \in Worker : step[v] # "free"}}

\* The requests that have a job of their own are among these.
Made(r) == pc[r] \notin {"idle", "create", "latest", "newJob"}

\* The request that sent the ingestion of t.
Starter(r, t) == r \in created /\ content[r] = t /\ pc[r] = "done" /\ chosen[r] \in Request

\* A job is of the content of the request that made it.
JobLinks ==
    /\ \A t \in setting.texts :
          latest[t] # NoRequest => Made(latest[t]) /\ content[latest[t]] = t
    /\ \A r \in Request :
          chosen[r] # NoRequest => /\ pc[r] # "idle"
                                   /\ Made(chosen[r]) /\ content[chosen[r]] = content[r]
    /\ \A r \in Request : job[r] # NoRow => Made(r)

\* Every message is of a document that was started, and of its starter's job.
MailLinks == \A m \in InFlight : \E r \in Request : Starter(r, m.text) /\ m.job = chosen[r]

LinkInv == JobLinks /\ MailLinks

LEMMA WorkerFrame ==
    ASSUME NEW w \in Worker, WorkerStep(w) \/ LoseWorker(w) \/ HardTimeLimit(w)
    PROVE  /\ UNCHANGED <<setting, pc, content, created, mime, latest, chosen, started>>
           /\ Effect(w) \/ UNCHANGED <<document, job, rows>>
           /\ UNCHANGED asking
    BY DEF WorkerStep, Receive, Proceed, ParseFails, StepRaises, SoftTimeLimit, Retry,
           Acknowledge, LoseWorker, HardTimeLimit, requests, tables

LEMMA RequestFrame ==
    ASSUME NEW r \in Request, Post(r) \/ RequestStep(r)
    PROVE  UNCHANGED <<setting, holding, step, rows, killed, asking>>
    BY DEF Post, RequestStep, CreateOrGet, FindLatestJob, CreateJob, Enqueue, EnqueueFails,
           Replay, RequestFails, worker, tables

\* What is in flight is a message, and its job one of its document.
LEMMA MailKnown ==
    ASSUME TypeInv, LinkInv, NEW m \in InFlight
    PROVE  /\ m \in Mail /\ Made(m.job) /\ content[m.job] = m.text
           /\ \E r \in Request : Starter(r, m.text) /\ m.job = chosen[r]
<1>1. m \in Mail
    BY DEF InFlight, TypeInv, MailTypes
<1>2. PICK r \in Request : Starter(r, m.text) /\ m.job = chosen[r]
    BY DEF LinkInv, MailLinks
<1>3. chosen[r] # NoRequest
    BY <1>2, RequestAssumption DEF Starter
<1>4. QED
    BY <1>1, <1>2, <1>3 DEF LinkInv, JobLinks, Starter

\* A request that has made its job keeps its content, and a starter stays one.
LEMMA RequestKeeps ==
    ASSUME TypeInv, NEW r \in Request, Post(r) \/ RequestStep(r)
    PROVE  \A s \in Request : /\ Made(s) => Made(s)' /\ content'[s] = content[s]
                              /\ pc[s] # "idle" => pc'[s] # "idle" /\ content'[s] = content[s]
                              /\ \A t : Starter(s, t) => Starter(s, t)'
<1>0. pc \in [Request -> RequestLabels] /\ content \in [Request -> setting.texts \cup {<<>>}]
      /\ chosen \in [Request -> Request \cup {NoRequest}]
    BY DEF TypeInv, SendInv, RequestTypes, RowTypes
<1>1. pc[r] # "done"
    BY DEF Post, RequestStep, CreateOrGet, FindLatestJob, CreateJob, Enqueue, EnqueueFails,
           Replay, RequestFails
<1>2. CASE Post(r)
    <2>1. /\ pc[r] = "idle" /\ UNCHANGED <<created, chosen>>
          /\ \A s \in Request : s # r => pc'[s] = pc[s] /\ content'[s] = content[s]
        BY <1>0, <1>2 DEF Post, Goto, Answer
    <2>2. QED
        BY <2>1 DEF Made, Starter
<1>3. CASE RequestStep(r)
    <2>1. /\ UNCHANGED content /\ created \subseteq created'
          /\ \A s \in Request : s # r => pc'[s] = pc[s] /\ chosen'[s] = chosen[s]
          /\ pc'[r] # "idle"
        BY <1>0, <1>3 DEF RequestStep, CreateOrGet, FindLatestJob, CreateJob, Enqueue,
                          EnqueueFails, Replay, RequestFails, Goto, Answer
    <2>2. Made(r) => Made(r)'
        BY <1>0, <1>3 DEF RequestStep, CreateOrGet, FindLatestJob, CreateJob, Enqueue,
                          EnqueueFails, Replay, RequestFails, Goto, Answer, Made
    <2>3. QED
        BY <1>1, <2>1, <2>2 DEF Made, Starter
<1>4. QED
    BY <1>2, <1>3

LEMMA RequestLinks ==
    ASSUME TypeInv, LinkInv, NEW r \in Request, Post(r) \/ RequestStep(r)
    PROVE  LinkInv'
<1>0. /\ pc \in [Request -> RequestLabels] /\ content \in [Request -> setting.texts \cup {<<>>}]
      /\ job \in [Request -> JobStatuses \cup {NoRow}]
      /\ latest \in [setting.texts -> Request \cup {NoRequest}]
      /\ chosen \in [Request -> Request \cup {NoRequest}]
    BY DEF TypeInv, SendInv, RequestTypes, RowTypes
<1>1. \A s \in Request : /\ Made(s) => Made(s)' /\ content'[s] = content[s]
                         /\ pc[s] # "idle" => pc'[s] # "idle" /\ content'[s] = content[s]
                         /\ \A t : Starter(s, t) => Starter(s, t)'
    BY RequestKeeps
<1>2. UNCHANGED <<setting, holding, step>>
    BY RequestFrame
<1>3. JobLinks'
    <2>1. CASE UNCHANGED <<job, latest, chosen>>
        BY <1>0, <1>1, <1>2, <2>1 DEF LinkInv, JobLinks
    <2>2. CASE FindLatestJob(r)
        <3>1. pc[r] = "latest" /\ content[r] \in setting.texts
            BY <2>2 DEF FindLatestJob, TypeInv, SendInv, CreatorInv, Unsent
        <3>2. chosen' = [chosen EXCEPT ![r] = latest[content[r]]] /\ UNCHANGED <<job, latest>>
            BY <2>2 DEF FindLatestJob, tables
        <3>3. latest[content[r]] # NoRequest =>
                 /\ latest[content[r]] \in Request /\ Made(latest[content[r]])
                 /\ content[latest[content[r]]] = content[r]
            BY <1>0, <3>1 DEF LinkInv, JobLinks
        <3>4. QED
            BY <1>0, <1>1, <1>2, <3>1, <3>2, <3>3 DEF LinkInv, JobLinks
    <2>3. CASE CreateJob(r)
        <3>1. pc[r] = "newJob" /\ content[r] \in setting.texts
            BY <2>3 DEF CreateJob, TypeInv, SendInv, CreatorInv, Unsent
        <3>2. /\ chosen' = [chosen EXCEPT ![r] = r]
              /\ latest' = [latest EXCEPT ![content[r]] = r]
              /\ job' = [job EXCEPT ![r] = "PENDING"]
            BY <2>3 DEF CreateJob
        <3>3. Made(r)'
            BY <1>0, <2>3 DEF CreateJob, Goto, Made
        <3>4. QED
            BY <1>0, <1>1, <1>2, <3>1, <3>2, <3>3 DEF LinkInv, JobLinks
    <2>4. QED
        BY <2>1, <2>2, <2>3 DEF Post, RequestStep, CreateOrGet, Enqueue, EnqueueFails, Replay,
                                RequestFails, tables
<1>4. MailLinks'
    <2>1. \A m \in InFlight : \E s \in Request : Starter(s, m.text)' /\ m.job = chosen'[s]
        <3>1. SUFFICES ASSUME NEW m \in InFlight, NEW s \in Request, Starter(s, m.text),
                              m.job = chosen[s]
                       PROVE  Starter(s, m.text)' /\ m.job = chosen'[s]
            BY DEF LinkInv, MailLinks
        <3>2. pc[s] = "done" /\ Starter(s, m.text)'
            BY <1>1, <3>1 DEF Starter
        <3>3. chosen'[s] = chosen[s]
            BY <1>0, <3>2 DEF Post, RequestStep, CreateOrGet, FindLatestJob, CreateJob, Enqueue,
                              EnqueueFails, Replay, RequestFails
        <3>4. QED
            BY <3>1, <3>2, <3>3
    <2>2. CASE Sends(r)
        <3>1. /\ pc[r] = "enqueue" /\ r \in created /\ Send(FirstMessage(r))
              /\ UNCHANGED <<content, created, chosen>> /\ pc'[r] = "done"
            BY <1>0, <2>2 DEF Sends, Dispatch, Enqueue, EnqueueFails, Answer, Goto
        <3>2. chosen[r] \in Request
            BY <3>1 DEF TypeInv, RowTypes
        <3>3. Starter(r, FirstMessage(r).text)' /\ FirstMessage(r).job = chosen'[r]
            BY <3>1, <3>2 DEF Starter, FirstMessage
        <3>4. BagToSet(queue') = BagToSet(queue) \cup {FirstMessage(r)}
            BY <3>1, Sent DEF TypeInv, MailTypes
        <3>5. InFlight' = InFlight \cup {FirstMessage(r)}
            BY <1>2, <3>4 DEF InFlight
        <3>6. QED
            BY <2>1, <3>1, <3>3, <3>5 DEF MailLinks, FirstMessage
    <2>3. CASE ~ Sends(r)
        <3>1. UNCHANGED queue
            BY <2>3 DEF Sends, Post, RequestStep, CreateOrGet, FindLatestJob, CreateJob,
                        Enqueue, EnqueueFails, Replay, RequestFails
        <3>2. InFlight' = InFlight
            BY <1>2, <3>1 DEF InFlight
        <3>3. QED
            BY <2>1, <3>2 DEF MailLinks
    <2>4. QED
        BY <2>2, <2>3
<1>5. QED
    BY <1>3, <1>4 DEF LinkInv

\* A worker sends nothing but what it holds, and once more, what it holds.
LEMMA WorkerInFlight ==
    ASSUME TypeInv, NEW w \in Worker, WorkerStep(w) \/ LoseWorker(w) \/ HardTimeLimit(w)
    PROVE  \A m \in InFlight' : \E n \in InFlight : m.text = n.text /\ m.job = n.job
<1>1. /\ holding \in [Worker -> Mail \cup {NoMessage}] /\ step \in [Worker -> Steps]
      /\ IsABag(queue) /\ \A v \in Worker : step[v] # "free" => holding[v] \in Mail
    BY DEF TypeInv, MailTypes
<1>2. \A v \in Worker : step[v] # "free" => holding[v] \in InFlight
    BY DEF InFlight
<1>3. CASE Receive(w)
    <2>1. PICK m \in BagToSet(queue) : /\ queue' = queue (-) SetToBag({m})
                                       /\ holding' = [holding EXCEPT ![w] = m]
                                       /\ step' = [step EXCEPT ![w] = "start"]
        BY <1>3 DEF Receive, Become
    <2>2. BagToSet(queue') \subseteq BagToSet(queue)
        BY <1>1, <2>1, TakenFromBag
    <2>3. InFlight' \subseteq InFlight
        BY <1>1, <2>1, <2>2 DEF InFlight
    <2>4. QED
        BY <2>3
<1>4. CASE Proceed(w) \/ ParseFails(w) \/ StepRaises(w) \/ SoftTimeLimit(w)
    <2>1. UNCHANGED <<queue, holding>> /\ step[w] # "free"
        BY <1>4 DEF Proceed, ParseFails, StepRaises, SoftTimeLimit, After
    <2>2. \A v \in Worker : v # w => step'[v] = step[v]
        BY <1>1, <1>4 DEF Proceed, ParseFails, StepRaises, SoftTimeLimit, Except, Become
    <2>3. InFlight' \subseteq InFlight
        BY <2>1, <2>2 DEF InFlight
    <2>4. QED
        BY <2>3
<1>5. CASE Retry(w)
    <2> DEFINE again == [holding[w] EXCEPT !.retries = @ + 1]
    <2>1. step[w] = "raised" /\ UNCHANGED holding /\ step' = [step EXCEPT ![w] = "acknowledge"]
          /\ (Send(again) \/ UNCHANGED queue)
        BY <1>5 DEF Retry, Become
    <2>2. again.text = holding[w].text /\ again.job = holding[w].job /\ holding[w] \in InFlight
        BY <1>1, <1>2, <2>1 DEF Mail
    <2> HIDE DEF again
    <2>3. BagToSet(queue') \subseteq BagToSet(queue) \cup {again}
        BY <1>1, <2>1, Sent
    <2>4. InFlight' \subseteq InFlight \cup {again}
        BY <1>1, <2>1, <2>3 DEF InFlight
    <2>5. QED
        BY <2>2, <2>4
<1>6. CASE Acknowledge(w) \/ LoseWorker(w) \/ HardTimeLimit(w)
    <2>1. /\ step[w] # "free" /\ step' = [step EXCEPT ![w] = "free"]
          /\ holding' = [holding EXCEPT ![w] = NoMessage]
          /\ Send(holding[w]) \/ UNCHANGED queue
        BY <1>6 DEF Acknowledge, LoseWorker, HardTimeLimit, Release, Become
    <2>2. BagToSet(queue') \subseteq BagToSet(queue) \cup {holding[w]}
        BY <1>1, <2>1, Sent
    <2>3. InFlight' \subseteq InFlight
        BY <1>1, <2>1, <2>2 DEF InFlight
    <2>4. QED
        BY <2>3
<1>7. QED
    BY <1>3, <1>4, <1>5, <1>6 DEF WorkerStep

LEMMA WorkerLinks ==
    ASSUME TypeInv, LinkInv, NEW w \in Worker,
           WorkerStep(w) \/ LoseWorker(w) \/ HardTimeLimit(w)
    PROVE  LinkInv'
<1>1. /\ UNCHANGED <<setting, pc, content, created, latest, chosen>>
      /\ Effect(w) \/ UNCHANGED <<document, job, rows>>
    BY WorkerFrame
<1>2. \A r \in Request : job'[r] = job[r] \/ Made(r)
    <2>1. CASE WriteJob(w)
        <3>1. holding[w] \in InFlight
            BY <2>1 DEF WriteJob, JobWrite, InFlight
        <3>2. Made(holding[w].job)
            BY <3>1, MailKnown
        <3>3. job' = [job EXCEPT ![holding[w].job] = JobWrite[step[w]]]
            BY <2>1 DEF WriteJob
        <3>4. QED
            BY <3>2, <3>3 DEF TypeInv, RowTypes
    <2>2. CASE ~ WriteJob(w)
        BY <1>1, <2>2 DEF Effect, WriteDocument, AddChunks, Compute, tables
    <2>3. QED
        BY <2>1, <2>2
<1>3. JobLinks'
    BY <1>1, <1>2 DEF LinkInv, JobLinks, Made
<1>4. MailLinks'
    BY <1>1, WorkerInFlight DEF LinkInv, MailLinks, Starter
<1>5. QED
    BY <1>3, <1>4 DEF LinkInv

LEMMA InitLinks == Init => LinkInv
<1> SUFFICES ASSUME Init PROVE LinkInv
    OBVIOUS
<1>1. BagToSet(queue) = {}
    BY DEF Init, EmptyBag, SetToBag, BagToSet
<1>2. InFlight = {}
    BY <1>1 DEF Init, InFlight
<1>3. QED
    BY <1>2 DEF Init, LinkInv, JobLinks, MailLinks

LEMMA NextLinks == TypeInv /\ LinkInv /\ [Next]_vars => LinkInv'
<1> SUFFICES ASSUME TypeInv, LinkInv, [Next]_vars PROVE LinkInv'
    OBVIOUS
<1>1. CASE UNCHANGED <<setting, requests, tables, queue, worker>>
    BY <1>1 DEF requests, tables, worker, LinkInv, JobLinks, MailLinks, InFlight, Made, Starter
<1>2. CASE CreateBase \/ DisableBase \/ QueryStep \/ UNCHANGED vars
    BY <1>1, <1>2 DEF CreateBase, DisableBase, vars, QueryStep, BeginQuery, LookUpBase,
                      Search, QueryDegrades, WriteLog, Elsewhere
<1>3. QED
    BY <1>2, RequestLinks, WorkerLinks DEF Next

-----------------------------------------------------------------------------
(* Mishaps and retries.                                                     *)

\* An attempt at what can be parsed ends early for a mishap of its own, and only
\* then is there another attempt.
FaultInv ==
    /\ \A m \in InFlight : Parsable(m.text) => m.retries <= faults
    /\ \A w \in Worker :
          step[w] \in {"failDocument", "failJob", "raised"} /\ Parsable(holding[w].text)
          => holding[w].retries < faults

LEMMA Numbers ==
    ASSUME TypeInv
    PROVE  faults \in Nat /\ MaxRetries \in Nat /\ \A m \in InFlight : m.retries \in Nat
<1>1. setting.faults \in Nat /\ faults \in 0 .. setting.faults
    BY SettingsAssumption DEF TypeInv, OtherTypes
<1>2. InFlight \subseteq Mail
    BY DEF InFlight, TypeInv, MailTypes
<1>3. QED
    BY <1>1, <1>2, BoundAssumption DEF Mail

\* Mishaps are never forgotten.
LEMMA FaultsGrow ==
    ASSUME TypeInv, NEW w \in Worker, WorkerStep(w) \/ LoseWorker(w) \/ HardTimeLimit(w)
    PROVE  faults' \in Nat /\ faults <= faults' /\ killed \subseteq killed'
<1>1. UNCHANGED faults \/ faults' = faults + 1
    BY DEF WorkerStep, Receive, Proceed, ParseFails, StepRaises, SoftTimeLimit, Retry,
           Acknowledge, LoseWorker, HardTimeLimit, Fault
<1>2. killed \subseteq killed'
    BY DEF WorkerStep, Receive, Proceed, ParseFails, StepRaises, SoftTimeLimit, Retry,
           Acknowledge, LoseWorker, HardTimeLimit
<1>3. QED
    BY <1>1, <1>2, Numbers

LEMMA WorkerFaults ==
    ASSUME TypeInv, FaultInv, NEW w \in Worker,
           WorkerStep(w) \/ LoseWorker(w) \/ HardTimeLimit(w)
    PROVE  FaultInv'
<1> DEFINE Spoiled == {"failDocument", "failJob", "raised"}
           Known == {m \in Mail : Parsable(m.text) => m.retries <= faults'}
<1>0. UNCHANGED mime
    BY WorkerFrame
<1>1. /\ holding \in [Worker -> Mail \cup {NoMessage}] /\ step \in [Worker -> Steps]
      /\ IsABag(queue) /\ \A v \in Worker : step[v] # "free" => holding[v] \in Mail
    BY DEF TypeInv, MailTypes
<1>2. faults \in Nat /\ faults' \in Nat /\ faults <= faults'
    BY Numbers, FaultsGrow
<1>3. \A v \in Worker : step[v] # "free" => holding[v] \in Known
    <2>1. \A v \in Worker : step[v] # "free" => holding[v] \in InFlight
        BY DEF InFlight
    <2>2. QED
        BY <1>1, <1>2, <2>1, Numbers DEF FaultInv
<1>4. BagToSet(queue) \subseteq Known
    <2>1. BagToSet(queue) \subseteq InFlight /\ BagToSet(queue) \subseteq Mail
        BY DEF InFlight, TypeInv, MailTypes
    <2>2. QED
        BY <1>2, <2>1, Numbers DEF FaultInv
<1>5. ASSUME NEW v \in Worker, v # w, step[v] \in Spoiled, Parsable(holding[v].text)
      PROVE  holding[v].retries < faults'
    <2>1. holding[v] \in InFlight /\ holding[v].retries < faults
        BY <1>5 DEF FaultInv, InFlight
    <2>2. QED
        BY <1>2, <2>1, Numbers
<1>6. step[w] \in Spoiled /\ Parsable(holding[w].text) => holding[w].retries < faults
    BY DEF FaultInv
<1> HIDE DEF Known
<1>7. CASE Receive(w)
    <2>1. PICK m \in BagToSet(queue) : /\ queue' = queue (-) SetToBag({m})
                                       /\ holding' = [holding EXCEPT ![w] = m]
                                       /\ step' = [step EXCEPT ![w] = "start"]
        BY <1>7 DEF Receive, Become
    <2>2. BagToSet(queue') \subseteq BagToSet(queue)
        BY <1>1, <2>1, TakenFromBag
    <2>3. InFlight' \subseteq Known
        BY <1>1, <1>3, <1>4, <2>1, <2>2 DEF InFlight
    <2>4. QED
        BY <1>0, <1>1, <1>5, <2>1, <2>3 DEF FaultInv, Known, Parsable
<1>8. CASE Proceed(w) \/ ParseFails(w) \/ StepRaises(w) \/ SoftTimeLimit(w)
    <2>1. UNCHANGED <<queue, holding>> /\ step[w] # "free"
        BY <1>8 DEF Proceed, ParseFails, StepRaises, SoftTimeLimit, After
    <2>2. \A v \in Worker : v # w => step'[v] = step[v]
        BY <1>1, <1>8 DEF Proceed, ParseFails, StepRaises, SoftTimeLimit, Except, Become
    <2>3. InFlight' \subseteq Known
        BY <1>3, <1>4, <2>1, <2>2 DEF InFlight
    <2>4. ASSUME step'[w] \in Spoiled, Parsable(holding[w].text)
          PROVE  holding[w].retries < faults'
        <3>1. CASE Proceed(w)
            <4>1. step[w] \in Spoiled
                BY <1>1, <2>4, <3>1 DEF Proceed, Become, After
            <4>2. holding[w] \in InFlight
                BY <2>1 DEF InFlight
            <4>3. QED
                BY <1>2, <1>6, <2>4, <4>1, <4>2, Numbers
        <3>2. CASE StepRaises(w) \/ SoftTimeLimit(w)
            <4>1. faults' = faults + 1
                BY <3>2 DEF StepRaises, SoftTimeLimit, Fault
            <4>2. holding[w] \in InFlight
                BY <2>1 DEF InFlight
            <4>3. holding[w].retries <= faults
                BY <2>4, <4>2 DEF FaultInv
            <4>4. QED
                BY <1>2, <4>1, <4>2, <4>3, Numbers
        <3>3. CASE ParseFails(w)
            BY <2>4, <3>3 DEF ParseFails
        <3>4. QED
            BY <1>8, <3>1, <3>2, <3>3
    <2>5. QED
        BY <1>0, <1>5, <2>1, <2>2, <2>3, <2>4 DEF FaultInv, Known, Parsable
<1>9. CASE Retry(w)
    <2> DEFINE again == [holding[w] EXCEPT !.retries = @ + 1]
    <2>1. step[w] = "raised" /\ UNCHANGED holding /\ step' = [step EXCEPT ![w] = "acknowledge"]
          /\ ((holding[w].retries < MaxRetries /\ Send(again)) \/ UNCHANGED queue)
        BY <1>9 DEF Retry, Become
    <2>2. Parsable(holding[w].text) => holding[w].retries < faults
        BY <1>6, <2>1
    <2>3. holding[w] \in Mail /\ MaxRetries \in Nat
        BY <1>1, <2>1, BoundAssumption
    <2>4. holding[w].retries < MaxRetries => again \in Known
        BY <1>2, <2>2, <2>3 DEF Known, Mail
    <2> HIDE DEF again
    <2>5. BagToSet(queue') \subseteq Known
        BY <1>1, <1>4, <2>1, <2>4, Sent
    <2>6. InFlight' \subseteq Known
        BY <1>1, <1>3, <2>1, <2>5 DEF InFlight
    <2>7. QED
        BY <1>0, <1>1, <1>5, <2>1, <2>6 DEF FaultInv, Known, Parsable
<1>10. CASE Acknowledge(w) \/ LoseWorker(w) \/ HardTimeLimit(w)
    <2>1. /\ step[w] # "free" /\ step' = [step EXCEPT ![w] = "free"]
          /\ holding' = [holding EXCEPT ![w] = NoMessage]
          /\ Send(holding[w]) \/ UNCHANGED queue
        BY <1>10 DEF Acknowledge, LoseWorker, HardTimeLimit, Release, Become
    <2>2. BagToSet(queue') \subseteq Known
        BY <1>1, <1>3, <1>4, <2>1, Sent
    <2>3. InFlight' \subseteq Known
        BY <1>1, <1>3, <2>1, <2>2 DEF InFlight
    <2>4. QED
        BY <1>0, <1>1, <1>5, <2>1, <2>3 DEF FaultInv, Known, Parsable
<1>11. QED
    BY <1>7, <1>8, <1>9, <1>10 DEF WorkerStep

\* The type of a document is what its creator said.
LEMMA TypeStays ==
    ASSUME TypeInv, NEW r \in Request, Post(r) \/ RequestStep(r)
    PROVE  /\ \A t \in setting.texts : document[t] # NoRow => mime'[t] = mime[t]
           /\ \A s \in created : content[s] \in setting.texts
                                /\ mime'[content[s]] = mime[content[s]]
<1>1. mime \in [setting.texts -> setting.types \cup {NoRow}]
    BY DEF TypeInv, OtherTypes
<1>2. \A t \in setting.texts : document[t] # NoRow => mime'[t] = mime[t]
    BY <1>1 DEF Post, RequestStep, CreateOrGet, FindLatestJob, CreateJob, Enqueue,
                EnqueueFails, Replay, RequestFails
<1>3. \A s \in created : content[s] \in setting.texts /\ document[content[s]] # NoRow
    BY DEF TypeInv, SendInv, CreatorInv
<1>4. QED
    BY <1>2, <1>3

LEMMA MailTypeStays ==
    ASSUME TypeInv, LinkInv, NEW r \in Request, Post(r) \/ RequestStep(r), NEW m \in InFlight
    PROVE  mime'[m.text] = mime[m.text]
    BY MailKnown, TypeStays DEF Starter

LEMMA RequestFaults ==
    ASSUME TypeInv, LinkInv, FaultInv, NEW r \in Request, Post(r) \/ RequestStep(r)
    PROVE  FaultInv' /\ faults' \in Nat /\ faults <= faults'
<1>1. UNCHANGED <<holding, step>>
    BY RequestFrame
<1>2. UNCHANGED faults \/ faults' = faults + 1
    BY DEF Post, RequestStep, CreateOrGet, FindLatestJob, CreateJob, Enqueue, EnqueueFails,
           Replay, RequestFails, Fault
<1>3. faults' \in Nat /\ faults \in Nat /\ faults <= faults'
    BY <1>2, Numbers
<1>4. \A m \in InFlight' \ InFlight : m.retries = 0
    <2>1. CASE Sends(r)
        <3>1. BagToSet(queue') = BagToSet(queue) \cup {FirstMessage(r)}
            BY <2>1, Sent DEF Sends, Dispatch, TypeInv, MailTypes
        <3>2. FirstMessage(r).retries = 0
            BY DEF FirstMessage
        <3>3. InFlight' \subseteq InFlight \cup {FirstMessage(r)}
            BY <1>1, <3>1 DEF InFlight
        <3>4. QED
            BY <3>2, <3>3
    <2>2. CASE ~ Sends(r)
        <3>1. UNCHANGED queue
            BY <2>2 DEF Sends, Post, RequestStep, CreateOrGet, FindLatestJob, CreateJob,
                        Enqueue, EnqueueFails, Replay, RequestFails
        <3>2. QED
            BY <1>1, <3>1 DEF InFlight
    <2>3. QED
        BY <2>1, <2>2
<1>5. \A m \in InFlight' : Parsable(m.text)' => m.retries <= faults'
    <2>1. ASSUME NEW m \in InFlight, Parsable(m.text)' PROVE m.retries <= faults'
        <3>1. m.retries <= faults
            BY <2>1, MailTypeStays DEF FaultInv, Parsable
        <3>2. QED
            BY <1>3, <3>1, Numbers
    <2>2. QED
        BY <1>3, <1>4, <2>1
<1>6. ASSUME NEW w \in Worker, step'[w] \in {"failDocument", "failJob", "raised"},
             Parsable(holding[w].text)'
      PROVE  holding'[w].retries < faults'
    <2>1. holding[w] \in InFlight
        BY <1>1, <1>6 DEF InFlight
    <2>2. holding[w].retries < faults
        BY <1>1, <1>6, <2>1, MailTypeStays DEF FaultInv, Parsable
    <2>3. QED
        BY <1>1, <1>3, <2>1, <2>2, Numbers
<1>7. FaultInv'
    BY <1>5, <1>6 DEF FaultInv
<1>8. QED
    BY <1>3, <1>7

LEMMA InitFaults == Init => FaultInv
<1> SUFFICES ASSUME Init PROVE FaultInv
    OBVIOUS
<1>1. BagToSet(queue) = {}
    BY DEF Init, EmptyBag, SetToBag, BagToSet
<1>2. InFlight = {}
    BY <1>1 DEF Init, InFlight
<1>3. QED
    BY <1>2 DEF Init, FaultInv

LEMMA NextFaults == TypeInv /\ LinkInv /\ FaultInv /\ [Next]_vars => FaultInv'
<1> SUFFICES ASSUME TypeInv, LinkInv, FaultInv, [Next]_vars PROVE FaultInv'
    OBVIOUS
<1>1. ASSUME UNCHANGED <<requests, queue, worker>>, UNCHANGED faults \/ Fault PROVE FaultInv'
    <2>1. InFlight' = InFlight /\ UNCHANGED <<holding, step>>
        BY <1>1 DEF InFlight, worker
    <2>2. faults \in Nat /\ faults' \in Nat /\ faults <= faults'
        BY <1>1, Numbers DEF Fault
    <2>3. \A m \in InFlight : m.retries \in Nat
        BY Numbers
    <2>4. \A w \in Worker : step[w] # "free" => holding[w] \in InFlight
        BY DEF InFlight
    <2>5. UNCHANGED mime
        BY <1>1 DEF requests
    <2>6. QED
        BY <2>1, <2>2, <2>3, <2>4, <2>5 DEF FaultInv, Parsable
<1>2. CASE CreateBase \/ DisableBase \/ QueryStep \/ UNCHANGED vars
    BY <1>1, <1>2 DEF CreateBase, DisableBase, vars, QueryStep, BeginQuery, LookUpBase,
                      Search, QueryDegrades, WriteLog, Elsewhere
<1>3. QED
    BY <1>2, RequestFaults, WorkerFaults DEF Next

\* Nobody is past the parser with a document it refuses.
ParsedInv ==
    \A w \in Worker :
        step[w] \in {"embedding", "embed", "index", "embedded", "finish"}
        => Parsable(holding[w].text)

LEMMA NextParsed == TypeInv /\ LinkInv /\ ParsedInv /\ [Next]_vars => ParsedInv'
<1> SUFFICES ASSUME TypeInv, LinkInv, ParsedInv, [Next]_vars PROVE ParsedInv'
    OBVIOUS
<1>0. /\ holding \in [Worker -> Mail \cup {NoMessage}] /\ step \in [Worker -> Steps]
    BY DEF TypeInv, MailTypes
<1>1. ASSUME NEW r \in Request, Post(r) \/ RequestStep(r) PROVE ParsedInv'
    <2>1. UNCHANGED <<holding, step>>
        BY <1>1, RequestFrame
    <2>2. ASSUME NEW w \in Worker, step[w] # "free"
          PROVE  mime'[holding[w].text] = mime[holding[w].text]
        <3>1. holding[w] \in InFlight
            BY <2>2 DEF InFlight
        <3>2. QED
            BY <1>1, <3>1, MailTypeStays
    <2>3. QED
        BY <2>1, <2>2 DEF ParsedInv, Parsable
<1>2. ASSUME NEW w \in Worker, WorkerStep(w) \/ LoseWorker(w) \/ HardTimeLimit(w)
      PROVE  ParsedInv'
    <2>1. UNCHANGED mime
        BY <1>2, WorkerFrame
    <2>2. \A v \in Worker : v # w => step'[v] = step[v] /\ holding'[v] = holding[v]
        BY <1>0, <1>2 DEF WorkerStep, Receive, Proceed, ParseFails, StepRaises, SoftTimeLimit,
                          Retry, Acknowledge, LoseWorker, HardTimeLimit, Release, Become, Except
    <2>3. ASSUME step'[w] \in {"embedding", "embed", "index", "embedded", "finish"}
          PROVE  Parsable(holding[w].text) /\ holding'[w] = holding[w]
        <3>1. /\ Proceed(w) /\ UNCHANGED holding
              /\ step[w] \in {"read", "embedding", "embed", "index", "embedded"}
            BY <1>0, <1>2, <2>3 DEF WorkerStep, Receive, Proceed, ParseFails, StepRaises,
                              SoftTimeLimit, Retry, Acknowledge, LoseWorker, HardTimeLimit,
                              Release, Become, Except, After
        <3>2. step[w] = "read" => Parsable(holding[w].text)
            BY <3>1 DEF Proceed, Effect, WriteDocument, WriteJob, AddChunks, Compute,
                        DocumentWrite, JobWrite
        <3>3. QED
            BY <3>1, <3>2 DEF ParsedInv
    <2>4. QED
        BY <2>1, <2>2, <2>3 DEF ParsedInv, Parsable
<1>3. CASE UNCHANGED <<requests, worker>>
    BY <1>3 DEF ParsedInv, Parsable, requests, worker
<1>4. CASE CreateBase \/ DisableBase \/ QueryStep \/ UNCHANGED vars
    BY <1>3, <1>4 DEF CreateBase, DisableBase, vars, QueryStep, BeginQuery, LookUpBase,
                      Search, QueryDegrades, WriteLog, Elsewhere
<1>5. QED
    BY <1>1, <1>2, <1>4 DEF Next

-----------------------------------------------------------------------------
(* Every started document is under way or ended as it should.               *)

Busy(w, t) == step[w] \notin {"free", "finish", "acknowledge"} /\ holding[w].text = t

Underway(t) == \/ \E m \in BagToSet(queue) : m.text = t
               \/ \E w \in Worker : Busy(w, t)

Ended(t) ==
    /\ document[t] = "EMBEDDED"
    /\ \/ \E w \in Worker : step[w] = "finish" /\ holding[w].text = t
       \/ \E r \in Request : Starter(r, t) /\ job[chosen[r]] = "SUCCEEDED"

\* The mishaps leave the ingestion of t a retry.
Recoverable(t) == faults <= MaxRetries /\ t \notin killed /\ Parsable(t)

SettledInv ==
    \A t \in setting.texts : started[t] > 0 /\ Recoverable(t) => Underway(t) \/ Ended(t)

\* Somebody is to work on t, or does and has not marked it FAILED yet.
Early(t) ==
    \/ \E m \in BagToSet(queue) : m.text = t
    \/ \E w \in Worker : /\ step[w] \in {"start", "parsing", "read", "failDocument"}
                         /\ holding[w].text = t

Refused(t) ==
    /\ document[t] = "FAILED"
    /\ \/ \E w \in Worker : step[w] = "failJob" /\ holding[w].text = t
       \/ \E r \in Request : Starter(r, t) /\ job[chosen[r]] = "FAILED"

\* Where nothing else goes wrong, what cannot be parsed is refused in the end.
RefusedInv ==
    \A t \in setting.texts :
        started[t] > 0 /\ ~ Parsable(t) /\ faults = 0 => Early(t) \/ Refused(t)

IngestInv == TypeInv /\ LinkInv /\ FaultInv /\ ParsedInv /\ SettledInv /\ RefusedInv

LEMMA InitSettled == Init => ParsedInv /\ SettledInv /\ RefusedInv
    BY DEF Init, ParsedInv, SettledInv, RefusedInv

\* A request adds messages and statuses of its own, and takes none away.
LEMMA RequestSpares ==
    ASSUME TypeInv, LinkInv, NEW r \in Request, Post(r) \/ RequestStep(r)
    PROVE  /\ BagToSet(queue) \subseteq BagToSet(queue')
           /\ \A t \in setting.texts :
                 /\ document[t] # NoRow => document'[t] = document[t] /\ mime'[t] = mime[t]
                 /\ started[t] > 0 => document[t] # NoRow
                 /\ started'[t] > 0 /\ ~ (started[t] > 0) =>
                       \E m \in BagToSet(queue') : m.text = t
                 /\ \A s \in Request : Starter(s, t) =>
                       /\ Starter(s, t)' /\ chosen'[s] = chosen[s]
                       /\ job'[chosen[s]] = job[chosen[s]]
<1>0. /\ document \in [setting.texts -> DocumentStatuses \cup {NoRow}]
      /\ job \in [Request -> JobStatuses \cup {NoRow}]
      /\ started \in [setting.texts -> Nat] /\ IsABag(queue)
      /\ chosen \in [Request -> Request \cup {NoRequest}]
      /\ content \in [Request -> setting.texts \cup {<<>>}]
      /\ pc \in [Request -> RequestLabels]
    BY DEF TypeInv, SendInv, RequestTypes, RowTypes, MailTypes
<1>1. BagToSet(queue) \subseteq BagToSet(queue')
    <2>1. CASE Sends(r)
        BY <1>0, <2>1, Sent DEF Sends, Dispatch
    <2>2. CASE ~ Sends(r)
        BY <2>2 DEF Sends, Post, RequestStep, CreateOrGet, FindLatestJob, CreateJob, Enqueue,
                    EnqueueFails, Replay, RequestFails
    <2>3. QED
        BY <2>1, <2>2
<1>2. ASSUME NEW t \in setting.texts, document[t] # NoRow
      PROVE  document'[t] = document[t] /\ mime'[t] = mime[t]
    <2>1. document'[t] = document[t]
        BY <1>0, <1>2 DEF Post, RequestStep, CreateOrGet, FindLatestJob,
                          CreateJob, Enqueue, EnqueueFails, Replay, RequestFails, tables
    <2>2. QED
        BY <1>2, <2>1, TypeStays
<1>3. ASSUME NEW t \in setting.texts, started[t] > 0 PROVE document[t] # NoRow
    BY <1>3 DEF TypeInv, SendInv, SentInv, CreatorInv
<1>4. ASSUME NEW t \in setting.texts, started'[t] > 0, ~ (started[t] > 0)
      PROVE  \E m \in BagToSet(queue') : m.text = t
    <2>1. Sends(r) /\ content[r] = t
        BY <1>0, <1>4 DEF Sends, Dispatch, Post, RequestStep, CreateOrGet, FindLatestJob,
                          CreateJob, Enqueue, EnqueueFails, Replay, RequestFails
    <2>2. FirstMessage(r) \in BagToSet(queue') /\ FirstMessage(r).text = t
        BY <1>0, <2>1, Sent DEF Sends, Dispatch, FirstMessage
    <2>3. QED
        BY <2>2
<1>5. ASSUME NEW t \in setting.texts, NEW s \in Request, Starter(s, t)
      PROVE  /\ Starter(s, t)' /\ chosen'[s] = chosen[s]
             /\ job'[chosen[s]] = job[chosen[s]]
    <2>1. Starter(s, t)'
        BY <1>5, RequestKeeps
    <2>2. chosen'[s] = chosen[s]
        BY <1>0, <1>5 DEF Starter, Post, RequestStep, CreateOrGet, FindLatestJob, CreateJob,
                          Enqueue, EnqueueFails, Replay, RequestFails
    <2>3. Made(chosen[s]) /\ chosen[s] \in Request
        BY <1>5, RequestAssumption DEF Starter, LinkInv, JobLinks
    <2>4. job'[chosen[s]] = job[chosen[s]]
        BY <1>0, <2>3 DEF Made, Post, RequestStep, CreateOrGet, FindLatestJob, CreateJob,
                          Enqueue, EnqueueFails, Replay, RequestFails, tables
    <2>5. QED
        BY <2>1, <2>2, <2>4
<1>6. QED
    BY <1>1, <1>2, <1>3, <1>4, <1>5

LEMMA RequestSettled ==
    ASSUME IngestInv, NEW r \in Request, Post(r) \/ RequestStep(r)
    PROVE  SettledInv' /\ RefusedInv'
<1>1. UNCHANGED <<setting, holding, step, killed>>
    BY RequestFrame
<1>2. faults' \in Nat /\ faults \in Nat /\ faults <= faults' /\ MaxRetries \in Nat
    BY RequestFaults, Numbers DEF IngestInv
<1>3. TypeInv /\ LinkInv /\ NoRow # "EMBEDDED" /\ NoRow # "FAILED"
    BY DEF IngestInv, NoRow
<1>4. ASSUME NEW t \in setting.texts, started'[t] > 0, Recoverable(t)'
      PROVE  Underway(t)' \/ Ended(t)'
    <2>1. CASE started[t] > 0
        <3>1. Recoverable(t)
            BY <1>1, <1>2, <1>3, <1>4, <2>1, RequestSpares DEF Recoverable, Parsable
        <3>2. Underway(t) => Underway(t)'
            BY <1>1, <1>3, RequestSpares DEF Underway, Busy
        <3>3. Ended(t) => Ended(t)'
            BY <1>1, <1>3, RequestSpares DEF Ended
        <3>4. QED
            BY <2>1, <3>1, <3>2, <3>3 DEF IngestInv, SettledInv
    <2>2. CASE ~ (started[t] > 0)
        BY <1>3, <1>4, <2>2, RequestSpares DEF Underway
    <2>3. QED
        BY <2>1, <2>2
<1>5. ASSUME NEW t \in setting.texts, started'[t] > 0, ~ Parsable(t)', faults' = 0
      PROVE  Early(t)' \/ Refused(t)'
    <2>1. CASE started[t] > 0
        <3>1. ~ Parsable(t) /\ faults = 0
            BY <1>2, <1>3, <1>5, <2>1, RequestSpares DEF Parsable
        <3>2. Early(t) => Early(t)'
            BY <1>1, <1>3, RequestSpares DEF Early
        <3>3. Refused(t) => Refused(t)'
            BY <1>1, <1>3, RequestSpares DEF Refused
        <3>4. QED
            BY <2>1, <3>1, <3>2, <3>3 DEF IngestInv, RefusedInv
    <2>2. CASE ~ (started[t] > 0)
        BY <1>3, <1>5, <2>2, RequestSpares DEF Early
    <2>3. QED
        BY <2>1, <2>2
<1>6. QED
    BY <1>1, <1>4, <1>5 DEF SettledInv, RefusedInv

\* A worker disturbs no document but its own.
LEMMA WorkerSpares ==
    ASSUME TypeInv, LinkInv, NEW w \in Worker,
           WorkerStep(w) \/ LoseWorker(w) \/ HardTimeLimit(w), NEW t \in setting.texts,
           \A m \in Mail : m = holding[w] \/ m = holding'[w] => m.text # t
    PROVE  /\ \A v \in Worker : v # w => step'[v] = step[v] /\ holding'[v] = holding[v]
           /\ step[w] # "free" => holding[w].text # t
           /\ \A m \in BagToSet(queue) : m.text = t => m \in BagToSet(queue')
           /\ document'[t] = document[t]
           /\ \A r \in Request : Starter(r, t) =>
                 /\ Starter(r, t)' /\ chosen'[r] = chosen[r]
                 /\ job'[chosen[r]] = job[chosen[r]]
<1>0. /\ holding \in [Worker -> Mail \cup {NoMessage}] /\ step \in [Worker -> Steps]
      /\ IsABag(queue) /\ BagToSet(queue) \subseteq Mail
      /\ \A v \in Worker : step[v] # "free" => holding[v] \in Mail
      /\ document \in [setting.texts -> DocumentStatuses \cup {NoRow}]
      /\ job \in [Request -> JobStatuses \cup {NoRow}]
    BY DEF TypeInv, SendInv, RequestTypes, MailTypes, RowTypes
<1>1. \A v \in Worker : v # w => step'[v] = step[v] /\ holding'[v] = holding[v]
    BY <1>0 DEF WorkerStep, Receive, Proceed, ParseFails, StepRaises, SoftTimeLimit, Retry,
                Acknowledge, LoseWorker, HardTimeLimit, Release, Become, Except
<1>2. step[w] # "free" => holding[w].text # t
    BY <1>0
<1>3. \A m \in BagToSet(queue) : m.text = t => m \in BagToSet(queue')
    <2>1. CASE Receive(w)
        <3>1. PICK m \in BagToSet(queue) : /\ queue' = queue (-) SetToBag({m})
                                           /\ holding' = [holding EXCEPT ![w] = m]
            BY <2>1 DEF Receive
        <3>2. m.text # t
            BY <1>0, <3>1
        <3>3. BagToSet(queue) \ {m} \subseteq BagToSet(queue')
            BY <1>0, <3>1, TakenFromBag
        <3>4. QED
            BY <3>2, <3>3
    <2>2. CASE ~ Receive(w)
        <3>1. UNCHANGED queue \/ \E m : Send(m)
            BY <2>2 DEF WorkerStep, Proceed, ParseFails, StepRaises, SoftTimeLimit, Retry,
                        Acknowledge, LoseWorker, HardTimeLimit
        <3>2. QED
            BY <1>0, <3>1, Sent
    <2>3. QED
        BY <2>1, <2>2
<1>4. UNCHANGED <<setting, pc, content, created, chosen>>
      /\ (Effect(w) \/ UNCHANGED <<document, job, rows>>)
    BY WorkerFrame
<1>5. document'[t] = document[t]
    BY <1>0, <1>2, <1>4 DEF Effect, WriteDocument, WriteJob, AddChunks, Compute, tables,
                            DocumentWrite
<1>6. ASSUME NEW r \in Request, Starter(r, t) PROVE job'[chosen[r]] = job[chosen[r]]
    <2>1. content[chosen[r]] = t
        BY <1>6, RequestAssumption DEF Starter, LinkInv, JobLinks
    <2>2. CASE WriteJob(w)
        <3>1. holding[w] \in InFlight /\ holding[w].text # t
            BY <1>2, <2>2 DEF WriteJob, JobWrite, InFlight
        <3>2. content[holding[w].job] # t
            BY <3>1, MailKnown
        <3>3. QED
            BY <1>0, <1>6, <2>1, <2>2, <3>2 DEF WriteJob, Starter
    <2>3. CASE ~ WriteJob(w)
        BY <1>4, <2>3 DEF Effect, WriteDocument, AddChunks, Compute, tables
    <2>4. QED
        BY <2>2, <2>3
<1>7. \A r \in Request : Starter(r, t) => Starter(r, t)'
    BY <1>4 DEF Starter
<1>8. QED
    BY <1>1, <1>2, <1>3, <1>4, <1>5, <1>6, <1>7

LEMMA WorkerSettledOthers ==
    ASSUME TypeInv, LinkInv, NEW w \in Worker,
           WorkerStep(w) \/ LoseWorker(w) \/ HardTimeLimit(w), NEW t \in setting.texts,
           \A m \in Mail : m = holding[w] \/ m = holding'[w] => m.text # t
    PROVE  /\ Underway(t) \/ Ended(t) => Underway(t)' \/ Ended(t)'
           /\ Early(t) \/ Refused(t) => Early(t)' \/ Refused(t)'
<1>1. Underway(t) => Underway(t)'
    BY WorkerSpares DEF Underway, Busy
<1>2. Ended(t) => Ended(t)'
    BY WorkerSpares DEF Ended
<1>3. Early(t) => Early(t)'
    BY WorkerSpares DEF Early
<1>4. Refused(t) => Refused(t)'
    BY WorkerSpares DEF Refused
<1>5. QED
    BY <1>1, <1>2, <1>3, <1>4

\* What other workers do for t, and what waits, goes on unless this one
\* receives it.
LEMMA WorkerKeeps ==
    ASSUME TypeInv, NEW w \in Worker, UNCHANGED queue, NEW t,
           \A v \in Worker : v # w => step'[v] = step[v] /\ holding'[v] = holding[v],
           Underway(t), ~ Busy(w, t)
    PROVE  Underway(t)'
    BY DEF Underway, Busy

\* The worker of t passes it on, or ends its ingestion well.
LEMMA WorkerSettledOwn ==
    ASSUME IngestInv, NEW w \in Worker, WorkerStep(w) \/ LoseWorker(w) \/ HardTimeLimit(w),
           step[w] # "free", NEW t \in setting.texts, holding[w].text = t,
           Recoverable(t)', Recoverable(t), Underway(t) \/ Ended(t)
    PROVE  Underway(t)' \/ Ended(t)'
<1>0. /\ holding \in [Worker -> Mail \cup {NoMessage}] /\ step \in [Worker -> Steps]
      /\ IsABag(queue) /\ holding[w] \in Mail
      /\ document \in [setting.texts -> DocumentStatuses \cup {NoRow}]
      /\ job \in [Request -> JobStatuses \cup {NoRow}]
    BY DEF IngestInv, TypeInv, SendInv, RequestTypes, MailTypes, RowTypes
<1>1. \A v \in Worker : v # w => step'[v] = step[v] /\ holding'[v] = holding[v]
    BY <1>0 DEF WorkerStep, Receive, Proceed, ParseFails, StepRaises, SoftTimeLimit, Retry,
                Acknowledge, LoseWorker, HardTimeLimit, Release, Become, Except
<1>2. UNCHANGED <<pc, content, created, chosen>>
    BY WorkerFrame
<1>3. CASE Proceed(w) /\ step[w] = "finish"
    <2>1. /\ step' = [step EXCEPT ![w] = "acknowledge"] /\ UNCHANGED <<queue, document>>
          /\ job' = [job EXCEPT ![holding[w].job] = "SUCCEEDED"]
        BY <1>3 DEF Proceed, Effect, WriteDocument, WriteJob, AddChunks, Compute, After, Become,
                    DocumentWrite, JobWrite
    <2>2. CASE Underway(t)
        <3>1. ~ Busy(w, t)
            BY <1>3 DEF Busy
        <3>2. QED
            BY <1>1, <2>1, <2>2, <3>1, WorkerKeeps DEF IngestInv
    <2>3. CASE Ended(t)
        <3>1. holding[w] \in InFlight
            BY DEF InFlight
        <3>2. PICK r \in Request : Starter(r, t) /\ holding[w].job = chosen[r]
            BY <3>1, MailKnown DEF IngestInv
        <3>3. job'[chosen[r]] = "SUCCEEDED"
            BY <1>0, <2>1, <3>2 DEF Starter
        <3>4. QED
            BY <1>2, <2>1, <2>3, <3>2, <3>3 DEF Ended, Starter
    <2>4. QED
        BY <2>2, <2>3
<1>4. CASE Proceed(w) /\ step[w] = "embedded"
    <2>1. /\ step' = [step EXCEPT ![w] = "finish"] /\ UNCHANGED holding
          /\ document' = [document EXCEPT ![t] = "EMBEDDED"]
        BY <1>4 DEF Proceed, Effect, WriteDocument, WriteJob, AddChunks, Compute, After, Become,
                    DocumentWrite, JobWrite
    <2>2. QED
        BY <1>0, <2>1 DEF Ended
<1>5. CASE \/ Proceed(w) /\ step[w] \notin {"embedded", "finish"}
           \/ ParseFails(w) \/ StepRaises(w) \/ SoftTimeLimit(w)
    <2>1. UNCHANGED holding /\ step'[w] \notin {"free", "finish", "acknowledge"}
        BY <1>0, <1>5 DEF Proceed, ParseFails, StepRaises, SoftTimeLimit, Except, Become, After
    <2>2. QED
        BY <2>1 DEF Underway, Busy
<1>6. CASE Retry(w)
    <2> DEFINE again == [holding[w] EXCEPT !.retries = @ + 1]
    <2>1. holding[w] \in InFlight /\ step[w] = "raised"
        BY <1>6 DEF Retry, InFlight
    <2>2. holding[w].retries < faults
        BY <2>1 DEF IngestInv, FaultInv, Recoverable
    <2>3. holding[w].retries < MaxRetries
        BY <2>1, <2>2, Numbers DEF IngestInv, Recoverable
    <2>4. Send(again) /\ again.text = t
        BY <1>0, <1>6, <2>3 DEF Retry, Mail
    <2> HIDE DEF again
    <2>5. again \in BagToSet(queue')
        BY <1>0, <2>4, Sent
    <2>6. QED
        BY <2>4, <2>5 DEF Underway
<1>7. CASE Acknowledge(w)
    <2>1. step[w] = "acknowledge" /\ UNCHANGED <<queue, document, job>>
          /\ step' = [step EXCEPT ![w] = "free"]
        BY <1>7 DEF Acknowledge, Release, Become, tables
    <2>2. ~ Busy(w, t)
        BY <2>1 DEF Busy
    <2>3. Ended(t) => Ended(t)'
        BY <1>1, <1>2, <2>1 DEF Ended, Starter
    <2>4. Underway(t) => Underway(t)'
        BY <1>1, <2>1, <2>2, WorkerKeeps DEF IngestInv
    <2>5. QED
        BY <2>3, <2>4
<1>8. CASE LoseWorker(w)
    <2>1. holding[w] \in BagToSet(queue')
        BY <1>0, <1>8, Sent DEF LoseWorker
    <2>2. QED
        BY <2>1 DEF Underway
<1>9. CASE HardTimeLimit(w)
    BY <1>9 DEF HardTimeLimit, Recoverable
<1>10. ~ Receive(w)
    BY DEF Receive
<1>11. QED
    BY <1>3, <1>4, <1>5, <1>6, <1>7, <1>8, <1>9, <1>10 DEF WorkerStep

\* The worker of t passes it on, or has marked document and job FAILED.
LEMMA WorkerRefusedOwn ==
    ASSUME IngestInv, NEW w \in Worker, WorkerStep(w) \/ LoseWorker(w) \/ HardTimeLimit(w),
           step[w] # "free", NEW t \in setting.texts, holding[w].text = t,
           ~ Parsable(t), faults = 0, faults' = 0, Early(t) \/ Refused(t)
    PROVE  Early(t)' \/ Refused(t)'
<1>0. /\ holding \in [Worker -> Mail \cup {NoMessage}] /\ step \in [Worker -> Steps]
      /\ IsABag(queue) /\ holding[w] \in Mail
      /\ document \in [setting.texts -> DocumentStatuses \cup {NoRow}]
      /\ job \in [Request -> JobStatuses \cup {NoRow}]
    BY DEF IngestInv, TypeInv, SendInv, RequestTypes, MailTypes, RowTypes
<1>1. \A v \in Worker : v # w => step'[v] = step[v] /\ holding'[v] = holding[v]
    BY <1>0 DEF WorkerStep, Receive, Proceed, ParseFails, StepRaises, SoftTimeLimit, Retry,
                Acknowledge, LoseWorker, HardTimeLimit, Release, Become, Except
<1>2. UNCHANGED <<pc, content, created, chosen>>
    BY WorkerFrame
<1>3. Proceed(w) \/ ParseFails(w) \/ Retry(w) \/ Acknowledge(w)
    BY DEF WorkerStep, Receive, StepRaises, SoftTimeLimit, LoseWorker, HardTimeLimit, Fault
<1>4. CASE Proceed(w) /\ step[w] \in {"start", "parsing"}
    <2>1. step'[w] \in {"parsing", "read"} /\ UNCHANGED holding
        BY <1>0, <1>4 DEF Proceed, Become, After
    <2>2. QED
        BY <2>1 DEF Early
<1>5. CASE Proceed(w) /\ step[w] = "failDocument"
    <2>1. /\ step'[w] = "failJob" /\ UNCHANGED holding
          /\ document' = [document EXCEPT ![t] = "FAILED"]
        BY <1>0, <1>5 DEF Proceed, Effect, WriteDocument, WriteJob, AddChunks, Compute, After,
                          Become, DocumentWrite, JobWrite
    <2>2. QED
        BY <1>0, <2>1 DEF Refused
<1>6. CASE Proceed(w) /\ step[w] = "failJob"
    <2>1. /\ UNCHANGED <<queue, document>> /\ job' = [job EXCEPT ![holding[w].job] = "FAILED"]
        BY <1>6 DEF Proceed, Effect, WriteDocument, WriteJob, AddChunks, Compute,
                    DocumentWrite, JobWrite
    <2>2. Early(t) => Early(t)'
        BY <1>1, <1>6, <2>1 DEF Early
    <2>3. holding[w] \in InFlight
        BY DEF InFlight
    <2>4. PICK r \in Request : Starter(r, t) /\ holding[w].job = chosen[r]
        BY <2>3, MailKnown DEF IngestInv
    <2>5. Starter(r, t)' /\ job'[chosen'[r]] = "FAILED"
        BY <1>0, <1>2, <2>1, <2>4 DEF Starter
    <2>6. Refused(t) => Refused(t)'
        BY <2>1, <2>5 DEF Refused
    <2>7. QED
        BY <2>2, <2>6
<1>7. CASE Proceed(w) /\ step[w] \notin {"start", "parsing", "failDocument", "failJob"}
    <2>1. step[w] \in {"read", "embedding", "embed", "index", "embedded", "finish"}
        BY <1>7 DEF Proceed, After
    <2>2. step[w] # "read"
        BY <1>7 DEF Proceed, Effect, WriteDocument, WriteJob, AddChunks, Compute,
                    DocumentWrite, JobWrite
    <2>3. QED
        BY <2>1, <2>2 DEF IngestInv, ParsedInv
<1>8. CASE ParseFails(w)
    <2>1. step'[w] = "failDocument" /\ UNCHANGED holding
        BY <1>0, <1>8 DEF ParseFails, Except, Become, Handler
    <2>2. QED
        BY <2>1 DEF Early
<1>9. CASE Retry(w) \/ Acknowledge(w)
    <2>1. /\ step[w] \in {"raised", "acknowledge"} /\ UNCHANGED <<document, job>>
          /\ UNCHANGED queue \/ \E m : Send(m)
        BY <1>9 DEF Retry, Acknowledge, tables
    <2>2. BagToSet(queue) \subseteq BagToSet(queue')
        BY <1>0, <2>1, Sent
    <2>3. Early(t) => Early(t)'
        BY <1>1, <2>1, <2>2 DEF Early
    <2>4. Refused(t) => Refused(t)'
        BY <1>1, <1>2, <2>1 DEF Refused, Starter
    <2>5. QED
        BY <2>3, <2>4
<1>10. QED
    BY <1>3, <1>4, <1>5, <1>6, <1>7, <1>8, <1>9

LEMMA WorkerSettled ==
    ASSUME IngestInv, NEW w \in Worker, WorkerStep(w) \/ LoseWorker(w) \/ HardTimeLimit(w)
    PROVE  SettledInv' /\ RefusedInv'
<1>1. /\ UNCHANGED <<setting, started, mime>>
      /\ faults' \in Nat /\ faults <= faults' /\ killed \subseteq killed'
      /\ faults \in Nat /\ MaxRetries \in Nat
    BY WorkerFrame, FaultsGrow, Numbers DEF IngestInv
<1>2. ASSUME NEW t \in setting.texts, Receive(w), holding'[w].text = t
      PROVE  Underway(t)' /\ Early(t)'
    <2>1. step'[w] = "start"
        BY <1>2 DEF Receive, Become, IngestInv, TypeInv, MailTypes
    <2>2. QED
        BY <1>2, <2>1 DEF Underway, Busy, Early
<1>3. ASSUME NEW t \in setting.texts,
             ~ (step[w] # "free" /\ holding[w].text = t), ~ (Receive(w) /\ holding'[w].text = t)
      PROVE  \A m \in Mail : m = holding[w] \/ m = holding'[w] => m.text # t
    <2>1. NoMessage \notin Mail
        BY MailIsMessage DEF IngestInv, TypeInv, OtherTypes
    <2>2. step[w] = "free" <=> holding[w] = NoMessage
        BY DEF IngestInv, TypeInv, MailTypes
    <2>3. \/ Receive(w)
          \/ step[w] # "free" /\ holding'[w] \in {holding[w], NoMessage}
        BY DEF WorkerStep, Proceed, ParseFails, StepRaises, SoftTimeLimit, Retry,
               Acknowledge, LoseWorker, HardTimeLimit, Release, After, IngestInv, TypeInv,
               MailTypes
    <2>4. QED
        BY <1>3, <2>1, <2>2, <2>3
<1>4. ASSUME NEW t \in setting.texts, started[t] > 0, Recoverable(t)'
      PROVE  Underway(t)' \/ Ended(t)'
    <2>1. Recoverable(t)
        BY <1>1, <1>4 DEF Recoverable, Parsable
    <2>2. Underway(t) \/ Ended(t)
        BY <1>4, <2>1 DEF IngestInv, SettledInv
    <2>3. CASE step[w] # "free" /\ holding[w].text = t
        BY <1>4, <2>1, <2>2, <2>3, WorkerSettledOwn
    <2>4. CASE ~ (step[w] # "free" /\ holding[w].text = t)
        BY <1>2, <1>3, <2>2, <2>4, WorkerSettledOthers DEF IngestInv
    <2>5. QED
        BY <2>3, <2>4
<1>5. ASSUME NEW t \in setting.texts, started[t] > 0, ~ Parsable(t)', faults' = 0
      PROVE  Early(t)' \/ Refused(t)'
    <2>1. ~ Parsable(t) /\ faults = 0
        BY <1>1, <1>5 DEF Parsable
    <2>2. Early(t) \/ Refused(t)
        BY <1>5, <2>1 DEF IngestInv, RefusedInv
    <2>3. CASE step[w] # "free" /\ holding[w].text = t
        BY <1>5, <2>1, <2>2, <2>3, WorkerRefusedOwn
    <2>4. CASE ~ (step[w] # "free" /\ holding[w].text = t)
        BY <1>2, <1>3, <2>2, <2>4, WorkerSettledOthers DEF IngestInv
    <2>5. QED
        BY <2>3, <2>4
<1>6. QED
    BY <1>1, <1>4, <1>5 DEF SettledInv, RefusedInv

LEMMA InitIngest == Init => IngestInv
    BY InitTypes, InitLinks, InitFaults, InitSettled DEF IngestInv

LEMMA NextIngest == IngestInv /\ [Next]_vars => IngestInv'
<1> SUFFICES ASSUME IngestInv, [Next]_vars PROVE IngestInv'
    OBVIOUS
<1>1. TypeInv' /\ LinkInv' /\ FaultInv' /\ ParsedInv'
    BY NextTypes, NextLinks, NextFaults, NextParsed DEF IngestInv
<1>2. SettledInv' /\ RefusedInv'
    <2>1. ASSUME UNCHANGED <<setting, requests, tables, queue, worker, started, killed>>,
                 UNCHANGED faults \/ Fault
          PROVE  SettledInv' /\ RefusedInv'
        <3>1. faults \in Nat /\ faults' \in Nat /\ faults <= faults' /\ MaxRetries \in Nat
            BY <2>1, Numbers DEF Fault, IngestInv
        <3>2. QED
            BY <2>1, <3>1 DEF IngestInv, SettledInv, Recoverable, Underway, Busy, Ended, Starter,
                              RefusedInv, Early, Refused, Parsable, requests, tables, worker
    <2>2. CASE CreateBase \/ DisableBase \/ QueryStep \/ UNCHANGED vars
        BY <2>1, <2>2 DEF CreateBase, DisableBase, vars, QueryStep, BeginQuery, LookUpBase,
                          Search, QueryDegrades, WriteLog, Elsewhere
    <2>3. QED
        BY <2>2, RequestSettled, WorkerSettled DEF Next
<1>3. QED
    BY <1>1, <1>2 DEF IngestInv

LEMMA AlwaysIngested == Spec => []IngestInv
    BY InitIngest, NextIngest, PTL DEF Spec

\* A document that was sent and is no longer in flight is what its type makes of
\* it.  If it can be parsed it is EMBEDDED and its job SUCCEEDED, with no more
\* mishaps than there are retries and no worker killed for good: whatever lost
\* workers, late writes and copies of its messages do, either somebody is still
\* at it or the last one there ended it well.  If not, both are FAILED, where
\* nothing else goes wrong.
THEOREM SettledCorrect == Spec => []SettledAsParsed
<1>1. IngestInv => SettledAsParsed
    <2> SUFFICES ASSUME IngestInv, NEW t \in setting.texts, started[t] > 0, AtRest(t),
                        t \notin killed
                 PROVE  \E r \in created :
                          /\ content[r] = t
                          /\ Parsable(t) /\ faults <= MaxRetries
                               => document[t] = "EMBEDDED" /\ job[chosen[r]] = "SUCCEEDED"
                          /\ ~ Parsable(t) /\ faults = 0
                               => document[t] = "FAILED" /\ job[chosen[r]] = "FAILED"
        BY DEF SettledAsParsed
    <2>1. \A w \in Worker : step[w] # "free" => holding[w].text # t
        BY DEF AtRest, IngestInv, TypeInv, MailTypes
    <2>2. ~ Underway(t) /\ ~ Early(t)
        BY <2>1 DEF Underway, Busy, Early, AtRest
    <2>3. PICK r \in created : content[r] = t
        BY DEF IngestInv, TypeInv, SendInv, SentInv
    <2>4. \A s \in Request : Starter(s, t) => s = r
        BY <2>3 DEF Starter, IngestInv, TypeInv, SendInv, CreatorInv
    <2>5. ASSUME Parsable(t), faults <= MaxRetries
          PROVE  document[t] = "EMBEDDED" /\ job[chosen[r]] = "SUCCEEDED"
        <3>1. Ended(t)
            BY <2>2, <2>5 DEF IngestInv, SettledInv, Recoverable
        <3>2. QED
            BY <2>1, <2>4, <3>1 DEF Ended
    <2>6. ASSUME ~ Parsable(t), faults = 0
          PROVE  document[t] = "FAILED" /\ job[chosen[r]] = "FAILED"
        <3>1. Refused(t)
            BY <2>2, <2>6 DEF IngestInv, RefusedInv
        <3>2. QED
            BY <2>1, <2>4, <3>1 DEF Refused
    <2>7. QED
        BY <2>3, <2>5, <2>6
<1>2. QED
    BY <1>1, AlwaysIngested, PTL

-----------------------------------------------------------------------------
(* Induction and folds.  The induction theorems of the library take a       *)
(* predicate, which the provers cannot instantiate; that the order of the   *)
(* naturals is well founded is a fact about sets.                           *)

\* A set of numbers with anything in it has a least member.
LEMMA LeastMember ==
    ASSUME NEW S \in SUBSET Nat, S # {}
    PROVE  \E m \in S : \A n \in S : m <= n
<1>1. PICK m \in S : \A n \in S : <<n, m>> \notin OpToRel(<, Nat)
  BY NatLessThanWellFounded, WFMin, Zenon
<1>2. \A n \in S : ~ (n < m)
  BY <1>1, Zenon DEF OpToRel
<1>3. QED
  BY <1>2

\* Induction, for a set in the place of a predicate.
LEMMA SetInduction ==
    ASSUME NEW S, 0 \in S, \A n \in Nat : n \in S => n + 1 \in S
    PROVE  Nat \subseteq S
<1> SUFFICES ASSUME Nat \ S # {} PROVE FALSE
  OBVIOUS
<1>1. PICK m \in Nat \ S : \A n \in Nat \ S : m <= n
  BY LeastMember
<1>2. m # 0 /\ m - 1 \in Nat
  BY <1>1
<1>3. m - 1 \in S
  BY <1>1, <1>2
<1>4. QED
  BY <1>1, <1>2, <1>3

\* What a recursive function over 0 .. N satisfies: it begins with a, and goes
\* from each place to the next as D says.
Folded(f, N, a, D) == f = [i \in 0 .. N |-> IF i = 0 THEN a ELSE D[i][f[i - 1]]]

LEMMA FoldExists ==
    ASSUME NEW N \in Nat, NEW S, NEW a \in S, NEW D \in [1 .. N -> [S -> S]]
    PROVE  \E f \in [0 .. N -> S] : Folded(f, N, a, D)
<1> DEFINE P == {n \in Nat : n <= N => \E f \in [0 .. n -> S] : Folded(f, n, a, D)}
<1>1. 0 \in P
  <2>1. /\ [i \in 0 .. 0 |-> a] \in [0 .. 0 -> S]
        /\ Folded([i \in 0 .. 0 |-> a], 0, a, D)
    BY DEF Folded
  <2>2. QED
    BY <2>1
<1>2. ASSUME NEW n \in Nat, n \in P PROVE n + 1 \in P
  <2> SUFFICES ASSUME n + 1 <= N
               PROVE  \E f \in [0 .. n + 1 -> S] : Folded(f, n + 1, a, D)
    OBVIOUS
  <2>1. PICK f \in [0 .. n -> S] : Folded(f, n, a, D)
    BY <1>2
  <2> DEFINE g == [i \in 0 .. n + 1 |-> IF i = n + 1 THEN D[n + 1][f[n]] ELSE f[i]]
  <2>2. f[n] \in S /\ D[n + 1][f[n]] \in S
    OBVIOUS
  <2>3. g \in [0 .. n + 1 -> S]
    BY <2>2
  <2>4. \A i \in 0 .. n : f[i] = IF i = 0 THEN a ELSE D[i][f[i - 1]]
    BY <2>1, Zenon DEF Folded
  <2>5. \A i \in 0 .. n + 1 : g[i] = IF i = 0 THEN a ELSE D[i][g[i - 1]]
    BY <2>4
  <2>6. Folded(g, n + 1, a, D)
    BY <2>3, <2>5 DEF Folded
  <2>7. QED
    BY <2>3, <2>6
<1> HIDE DEF P
<1>3. Nat \subseteq P
  BY <1>1, <1>2, SetInduction
<1>4. QED
  BY <1>3 DEF P

-----------------------------------------------------------------------------
(* chunk_text.                                                              *)

LEMMA GreatestMember ==
    ASSUME NEW N \in Nat, NEW S \in SUBSET (0 .. N), S # {}
    PROVE  \E m \in S : \A n \in S : m >= n
<1> DEFINE T == {d \in Nat : N - d \in S}
<1>1. T \in SUBSET Nat /\ T # {}
    <2>1. PICK x \in S : x \in 0 .. N
        OBVIOUS
    <2>2. N - x \in Nat /\ N - (N - x) = x
        BY <2>1
    <2>3. N - x \in T
        BY <2>1, <2>2
    <2>4. QED
        BY <2>3
<1>2. PICK d \in T : \A n \in T : d <= n
    BY <1>1, LeastMember
<1>3. PICK m \in S : d = N - m
    <2>1. N - d \in S /\ d \in Nat /\ d = N - (N - d)
        BY <1>2
    <2>2. QED
        BY <2>1
<1>4. ASSUME NEW n \in S PROVE m >= n
    <2>1. N - n \in T
        <3>1. N - n \in Nat /\ N - (N - n) = n
            OBVIOUS
        <3>2. QED
            BY <3>1
    <2>2. d <= N - n
        BY <1>2, <2>1
    <2>3. QED
        BY <1>3, <2>2
<1>5. QED
    BY <1>4

\* What is left of a stripped text is a text, and nothing only if all is blank.
LEMMA StripOf ==
    ASSUME NEW t \in Seq(Characters)
    PROVE  /\ Strip(t) \in Seq(Characters) /\ Len(Strip(t)) <= Len(t)
           /\ Strip(t) = <<>> => \A i \in DOMAIN t : t[i] \in White
<1> DEFINE solid == {i \in DOMAIN t : t[i] \notin White}
           first == CHOOSE i \in solid : \A j \in solid : i <= j
           last == CHOOSE i \in solid : \A j \in solid : i >= j
<1>1. CASE solid = {}
    <2>1. Strip(t) = <<>>
        BY <1>1 DEF Strip
    <2>2. \A i \in DOMAIN t : t[i] \in White
        BY <1>1
    <2>3. QED
        BY <2>1, <2>2
<1>2. CASE solid # {}
    <2>1. solid \in SUBSET Nat /\ solid \in SUBSET (0 .. Len(t)) /\ Len(t) \in Nat
        OBVIOUS
    <2>2. first \in solid /\ \A j \in solid : first <= j
        <3>1. \E i \in solid : \A j \in solid : i <= j
            BY <1>2, <2>1, LeastMember
        <3> HIDE DEF solid
        <3>2. QED
            BY <3>1, Zenon
    <2>3. last \in solid /\ \A j \in solid : last >= j
        <3>1. \E i \in solid : \A j \in solid : i >= j
            BY <1>2, <2>1, GreatestMember
        <3> HIDE DEF solid
        <3>2. QED
            BY <3>1, Zenon
    <2>4. Strip(t) = SubSeq(t, first, last)
        BY <1>2, Zenon DEF Strip
    <2> HIDE DEF first, last
    <2>5. first \in 1 .. Len(t) /\ last \in 1 .. Len(t) /\ first <= last
        BY <2>2, <2>3
    <2>6. /\ SubSeq(t, first, last) \in Seq(Characters)
          /\ Len(SubSeq(t, first, last)) = last - first + 1
        BY <2>5
    <2>7. Len(Strip(t)) # 0 /\ Len(Strip(t)) <= Len(t)
        BY <2>4, <2>5, <2>6
    <2>8. QED
        BY <2>4, <2>6, <2>7
<1>3. QED
    BY <1>1, <1>2

\* The pieces from each place on.
FromAll(g, t, size, overlap) ==
    g = [p \in Nat |->
           IF p >= Len(t) THEN <<>>
           ELSE PieceAt(t, size, p)
                \o (IF EndAt(t, size, p) >= Len(t) THEN <<>>
                    ELSE g[NextWindow(p, EndAt(t, size, p), size, overlap)])]

LEMMA ChunkTextIs ==
    ASSUME NEW text, NEW size, NEW overlap
    PROVE  ChunkText(text, size, overlap)
           = (CHOOSE g : FromAll(g, Strip(text), size, overlap))[0]
    BY Zenon DEF ChunkText, FromAll

Chunk == [text : Seq(Characters), start : Nat, end : Nat]

\* A window is not empty, and within the text and the size.
LEMMA WindowEnds ==
    ASSUME NEW t \in Seq(Characters), NEW size \in Nat \ {0}, NEW p \in Nat, p < Len(t)
    PROVE  /\ EndAt(t, size, p) \in p + 1 .. Len(t)
           /\ EndAt(t, size, p) <= p + size
<1> DEFINE hardEnd == Smaller(p + size, Len(t))
           stops == {i \in p + 1 .. hardEnd : t[i] \in Ends}
<1>1. hardEnd \in p + 1 .. Len(t) /\ hardEnd <= p + size
    BY DEF Smaller
<1>2. EndAt(t, size, p) = IF hardEnd = Len(t) THEN hardEnd ELSE FindBreak(t, p, hardEnd)
    BY Zenon DEF EndAt
<1> HIDE DEF hardEnd
<1>3. FindBreak(t, p, hardEnd) \in p + 1 .. hardEnd
    <2>1. FindBreak(t, p, hardEnd) = IF stops = {} THEN hardEnd
                                     ELSE CHOOSE i \in stops : \A j \in stops : i >= j
        BY Zenon DEF FindBreak
    <2>2. stops # {} => \E i \in stops : \A j \in stops : i >= j
        <3>1. hardEnd \in Nat /\ stops \in SUBSET (0 .. hardEnd)
            BY <1>1
        <3>2. QED
            BY <3>1, GreatestMember
    <2>3. stops # {} => (CHOOSE i \in stops : \A j \in stops : i >= j) \in stops
        <3> HIDE DEF stops
        <3>1. QED
            BY <2>2, Zenon
    <2>4. QED
        BY <1>1, <2>1, <2>3
<1>4. QED
    BY <1>1, <1>2, <1>3

\* The window after it begins further on, and no further than this one ended.
LEMMA WindowMoves ==
    ASSUME NEW p \in Nat, NEW end \in Nat, p < end, NEW size, NEW overlap \in Nat
    PROVE  /\ NextWindow(p, end, size, overlap) \in Nat
           /\ p < NextWindow(p, end, size, overlap)
           /\ NextWindow(p, end, size, overlap) <= end
    BY DEF NextWindow, Larger

LEMMA PieceTypes ==
    ASSUME NEW t \in Seq(Characters), NEW size \in Nat \ {0}, NEW p \in Nat, p < Len(t)
    PROVE  \/ /\ PieceAt(t, size, p) = <<>>
              /\ \A i \in p + 1 .. EndAt(t, size, p) : t[i] \in White
           \/ \E c \in Chunk : /\ PieceAt(t, size, p) = <<c>>
                               /\ Len(c.text) \in 1 .. size
                               /\ c.start = p /\ c.end = EndAt(t, size, p)
<1> DEFINE end == EndAt(t, size, p)
           window == SubSeq(t, p + 1, end)
           piece == Strip(window)
           c == [text |-> piece, start |-> p, end |-> end]
<1>1. end \in p + 1 .. Len(t) /\ end <= p + size
    BY WindowEnds
<1>2. PieceAt(t, size, p) = IF piece = <<>> THEN <<>> ELSE <<c>>
    BY Zenon DEF PieceAt
<1> HIDE DEF end
<1>3. /\ window \in Seq(Characters) /\ Len(window) = end - p
      /\ \A k \in 1 .. end - p : window[k] = t[p + k]
    BY <1>1
<1> HIDE DEF window
<1>4. /\ piece \in Seq(Characters) /\ Len(piece) <= Len(window)
      /\ piece = <<>> => \A i \in DOMAIN window : window[i] \in White
    BY <1>3, StripOf
<1> HIDE DEF piece
<1>5. CASE piece = <<>>
    <2>1. \A k \in 1 .. end - p : t[p + k] \in White
        BY <1>3, <1>4, <1>5
    <2>2. ASSUME NEW i \in p + 1 .. end PROVE t[i] \in White
        <3>1. i - p \in 1 .. end - p /\ p + (i - p) = i
            BY <1>1
        <3>2. QED
            BY <2>1, <3>1
    <2>3. QED
        BY <1>2, <1>5, <2>2 DEF end
<1>6. CASE piece # <<>>
    <2>1. Len(piece) \in 1 .. size
        BY <1>1, <1>3, <1>4, <1>6
    <2>2. c \in Chunk /\ Len(c.text) \in 1 .. size /\ c.start = p /\ c.end = end
        BY <1>1, <1>4, <2>1 DEF Chunk
    <2>3. PieceAt(t, size, p) = <<c>>
        BY <1>2, <1>6
    <2>4. QED
        BY <2>2, <2>3 DEF end
<1>7. QED
    BY <1>5, <1>6

\* A walk from each place to a later one, up to n, that makes something of each
\* place and of what it made of the later one.
Walked(g, n, e, K, W, L) ==
    \A p \in Nat : g[p] = IF p >= n THEN e ELSE K[p][IF p \in L THEN e ELSE g[W[p]]]

LEMMA WalkExists ==
    ASSUME NEW n \in Nat, NEW S, NEW e \in S, NEW K \in [Nat -> [S -> S]],
           NEW W \in [Nat -> Nat], NEW L \in SUBSET Nat,
           \A p \in Nat : p < n /\ p \notin L => p < W[p]
    PROVE  \E g \in [Nat -> S] : Walked(g, n, e, K, W, L)
<1> DEFINE Rest(g, p) == IF p \in L THEN e ELSE g[W[p]]
           From(g, p) == IF p >= n THEN e ELSE K[p][Rest(g, p)]
           D == {d \in Nat : \E g \in [Nat -> S] :
                                \A p \in Nat : p + d >= n => g[p] = From(g, p)}
<1>1. 0 \in D
    <2> DEFINE g == [p \in Nat |-> e]
    <2>1. g \in [Nat -> S]
        OBVIOUS
    <2>2. \A p \in Nat : p + 0 >= n => g[p] = From(g, p)
        OBVIOUS
    <2>3. QED
        BY <2>1, <2>2
<1>2. ASSUME NEW d \in Nat, d \in D PROVE d + 1 \in D
    <2>1. PICK g \in [Nat -> S] : \A p \in Nat : p + d >= n => g[p] = From(g, p)
        BY <1>2
    <2>2. CASE d >= n
        <3>1. \A p \in Nat : p + d >= n
            BY <2>2
        <3>2. \A p \in Nat : g[p] = From(g, p)
            BY <2>1, <3>1
        <3>3. QED
            BY <3>2
    <2>3. CASE d < n
        <3> DEFINE q == n - d - 1
                   h == [g EXCEPT ![q] = K[q][Rest(g, q)]]
        <3>1. q \in Nat /\ q < n
            BY <2>3
        <3>2. \A p \in Nat : p + (d + 1) >= n => p = q \/ (p > q /\ p + d >= n)
            BY <2>3
        <3> HIDE DEF q
        <3>3. Rest(g, q) \in S
            BY <3>1
        <3>4. K[q][Rest(g, q)] \in S
            BY <3>1, <3>3
        <3>5. h \in [Nat -> S] /\ h[q] = K[q][Rest(g, q)]
              /\ \A p \in Nat : p # q => h[p] = g[p]
            BY <3>1, <3>4
        <3> HIDE DEF h
        <3>6. ASSUME NEW p \in Nat, p >= q, p < n PROVE Rest(h, p) = Rest(g, p)
            <4>1. p \notin L => W[p] \in Nat /\ W[p] # q
                BY <3>1, <3>6
            <4>2. QED
                BY <3>5, <4>1
        <3>7. ASSUME NEW p \in Nat, p + (d + 1) >= n PROVE h[p] = From(h, p)
            <4>1. CASE p = q
                <5>1. Rest(h, q) = Rest(g, q) /\ ~ (q >= n)
                    BY <3>1, <3>6
                <5>2. QED
                    BY <3>5, <4>1, <5>1
            <4>2. CASE p # q
                <5>1. p > q /\ p + d >= n
                    BY <3>2, <3>7, <4>2
                <5>2. h[p] = From(g, p)
                    BY <2>1, <3>5, <4>2, <5>1
                <5>3. ~ (p >= n) => Rest(h, p) = Rest(g, p)
                    BY <3>1, <3>6, <5>1
                <5>4. From(g, p) = From(h, p)
                    <6> HIDE DEF Rest
                    <6>1. QED
                        BY <5>3
                <5>5. QED
                    BY <5>2, <5>4
            <4>3. QED
                BY <4>1, <4>2
        <3> HIDE DEF From
        <3>8. QED
            BY <3>5, <3>7
    <2>4. QED
        BY <2>2, <2>3
<1> HIDE DEF D
<1>3. n \in D
    BY <1>1, <1>2, SetInduction
<1>4. PICK g \in [Nat -> S] : \A p \in Nat : p + n >= n => g[p] = From(g, p)
    BY <1>3 DEF D
<1>5. \A p \in Nat : p + n >= n
    OBVIOUS
<1>6. \A p \in Nat : g[p] = From(g, p)
    <2> HIDE DEF From
    <2>1. QED
        BY <1>4, <1>5
<1>7. Walked(g, n, e, K, W, L)
    BY <1>6 DEF Walked
<1>8. QED
    BY <1>7

LEMMA FromExists ==
    ASSUME NEW t \in Seq(Characters), NEW size \in Nat \ {0}, NEW overlap \in Nat
    PROVE  \E g : FromAll(g, t, size, overlap)
<1> DEFINE n == Len(t)
           S == Seq(Chunk)
           K == [p \in Nat |-> [s \in S |-> IF p >= n THEN <<>> ELSE PieceAt(t, size, p) \o s]]
           L == {p \in Nat : EndAt(t, size, p) >= n}
           W == [p \in Nat |-> IF p >= n \/ p \in L THEN 0
                               ELSE NextWindow(p, EndAt(t, size, p), size, overlap)]
<1>0. n \in Nat /\ <<>> \in S
    OBVIOUS
<1>1. K \in [Nat -> [S -> S]]
    <2>1. ASSUME NEW p \in Nat, p < n PROVE PieceAt(t, size, p) \in S
        <3>1. \A c \in Chunk : <<c>> \in S
            OBVIOUS
        <3>2. PieceAt(t, size, p) = <<>> \/ \E c \in Chunk : PieceAt(t, size, p) = <<c>>
            BY <2>1, PieceTypes
        <3>3. QED
            BY <1>0, <3>1, <3>2, Zenon
    <2>2. \A u, v \in S : u \o v \in S
        OBVIOUS
    <2> HIDE DEF S
    <2>3. \A p \in Nat, s \in S : (IF p >= n THEN <<>> ELSE PieceAt(t, size, p) \o s) \in S
        BY <1>0, <2>1, <2>2
    <2>4. QED
        BY <2>3
<1>2. \A p \in Nat : p < n => EndAt(t, size, p) \in Nat /\ p < EndAt(t, size, p)
    BY WindowEnds
<1>3. ASSUME NEW p \in Nat, p < n
      PROVE  /\ NextWindow(p, EndAt(t, size, p), size, overlap) \in Nat
             /\ p < NextWindow(p, EndAt(t, size, p), size, overlap)
    BY <1>2, <1>3, WindowMoves
<1>4. W \in [Nat -> Nat] /\ \A p \in Nat : p < n /\ p \notin L => p < W[p]
    BY <1>3
<1>5. /\ \A p \in Nat, s \in S : p < n => K[p][s] = PieceAt(t, size, p) \o s
      /\ \A p \in Nat : p \in L <=> EndAt(t, size, p) >= n
      /\ \A p \in Nat : p < n /\ p \notin L =>
            W[p] = NextWindow(p, EndAt(t, size, p), size, overlap)
    <2> HIDE DEF S
    <2>1. QED
        BY <1>0
<1>e. PICK e \in S : e = <<>>
    BY <1>0
<1>l. L \in SUBSET Nat
    OBVIOUS
<1> HIDE DEF K, L, W, S, n
<1>6. PICK g \in [Nat -> S] :
         \A p \in Nat : g[p] = IF p >= n THEN <<>>
                               ELSE K[p][IF p \in L THEN <<>> ELSE g[W[p]]]
    <2>1. PICK g \in [Nat -> S] : Walked(g, n, e, K, W, L)
        BY <1>0, <1>1, <1>4, <1>l, WalkExists
    <2>2. QED
        BY <1>e, <2>1, Zenon DEF Walked
<1>7. \A p \in Nat :
         g[p] = IF p >= n THEN <<>>
                ELSE PieceAt(t, size, p)
                     \o (IF EndAt(t, size, p) >= n THEN <<>>
                         ELSE g[NextWindow(p, EndAt(t, size, p), size, overlap)])
    <2> TAKE p \in Nat
    <2>1. CASE p >= n
        BY <1>6, <2>1
    <2>2. CASE ~ (p >= n)
        <3>1. p < n
            BY <1>0, <2>2
        <3> DEFINE s == IF p \in L THEN <<>> ELSE g[W[p]]
        <3>2. s \in S
            BY <1>0, <1>4, <1>6
        <3>3. g[p] = PieceAt(t, size, p) \o s
            BY <1>5, <1>6, <2>2, <3>1, <3>2
        <3>4. s = IF EndAt(t, size, p) >= n THEN <<>>
                  ELSE g[NextWindow(p, EndAt(t, size, p), size, overlap)]
            BY <1>5, <3>1
        <3> HIDE DEF s
        <3>5. QED
            BY <2>2, <3>3, <3>4, Zenon
    <2>3. QED
        BY <2>1, <2>2
<1>8. g = [p \in Nat |-> g[p]]
    BY <1>6
<1>9. FromAll(g, t, size, overlap)
    BY <1>7, <1>8, Zenon DEF FromAll, n
<1>10. QED
    BY <1>9

\* What the pieces from p on are like.
GoodFrom(c, t, size, p) ==
    /\ c \in Seq(Chunk)
    /\ \A k \in DOMAIN c : Len(c[k].text) \in 1 .. size /\ c[k].start >= p
    /\ \A k \in 1 .. Len(c) - 1 : c[k].start < c[k + 1].start
    /\ \A i \in p + 1 .. Len(t) :
          t[i] \notin White => \E k \in DOMAIN c : c[k].start < i /\ i <= c[k].end

\* One more piece in front of those from q on, if it reaches as far as q.
LEMMA OneMorePiece ==
    ASSUME NEW t \in Seq(Characters), NEW size \in Nat \ {0}, NEW p \in Nat, p < Len(t),
           NEW q \in Nat, p < q, q <= EndAt(t, size, p),
           NEW b, GoodFrom(b, t, size, q)
    PROVE  GoodFrom(PieceAt(t, size, p) \o b, t, size, p)
<1> DEFINE end == EndAt(t, size, p)
<1>a. EndAt(t, size, p) \in p + 1 .. Len(t)
    BY WindowEnds
<1>0. end \in Nat /\ Len(t) \in Nat
    BY <1>a
<1>b. b \in Seq(Chunk) /\ Len(b) \in Nat /\ \A k \in 1 .. Len(b) : b[k] \in Chunk
    BY DEF GoodFrom
<1> HIDE DEF end
<1>1. CASE /\ PieceAt(t, size, p) = <<>>
           /\ \A i \in p + 1 .. EndAt(t, size, p) : t[i] \in White
    <2>1. PieceAt(t, size, p) \o b = b
        BY <1>b, <1>1
    <2>2. ASSUME NEW k \in DOMAIN b PROVE Len(b[k].text) \in 1 .. size /\ b[k].start >= p
        <3>1. b[k] \in Chunk /\ Len(b[k].text) \in 1 .. size /\ b[k].start >= q
            BY <1>b DEF GoodFrom
        <3>2. b[k].start \in Nat
            BY <3>1 DEF Chunk
        <3>3. QED
            BY <3>1, <3>2
    <2>3. \A i \in p + 1 .. Len(t) : t[i] \notin White => i \in q + 1 .. Len(t)
        BY <1>0, <1>1 DEF end
    <2>4. QED
        BY <2>1, <2>2, <2>3 DEF GoodFrom
<1>2. ASSUME NEW c \in Chunk, PieceAt(t, size, p) = <<c>>, Len(c.text) \in 1 .. size,
             c.start = p, c.end = end
      PROVE  GoodFrom(PieceAt(t, size, p) \o b, t, size, p)
    <2> DEFINE a == <<c>> \o b
    <2>1. /\ a \in Seq(Chunk) /\ Len(a) = Len(b) + 1 /\ a[1] = c
          /\ \A k \in 1 .. Len(b) : a[k + 1] = b[k]
        BY <1>b
    <2>2. ASSUME NEW k \in 1 .. Len(a), k # 1
          PROVE  k - 1 \in 1 .. Len(b) /\ a[k] = b[k - 1]
        <3>1. k - 1 \in 1 .. Len(b) /\ (k - 1) + 1 = k
            BY <1>b, <2>1, <2>2
        <3> HIDE DEF a
        <3>2. QED
            BY <2>1, <3>1
    <2> HIDE DEF a
    <2>3. DOMAIN a = 1 .. Len(a) /\ DOMAIN b = 1 .. Len(b)
        BY <1>b, <2>1
    <2>4. \A k \in 1 .. Len(b) : Len(b[k].text) \in 1 .. size /\ b[k].start >= q
        BY <2>3 DEF GoodFrom
    <2>5. \A k \in DOMAIN a : Len(a[k].text) \in 1 .. size /\ a[k].start >= p
        <3>1. \A k \in 1 .. Len(b) : b[k].start \in Nat
            BY <1>b DEF Chunk
        <3>2. QED
            BY <1>2, <2>1, <2>2, <2>3, <2>4, <3>1
    <2>6. ASSUME NEW k \in 1 .. Len(a) - 1 PROVE a[k].start < a[k + 1].start
        <3>1. a[k + 1] = b[k] /\ k \in 1 .. Len(b)
            BY <1>b, <2>1
        <3>2. CASE k = 1
            <4>1. b[k].start \in Nat /\ b[k].start >= q
                BY <1>b, <2>4, <3>1 DEF Chunk
            <4>2. QED
                BY <1>2, <2>1, <3>1, <3>2, <4>1
        <3>3. CASE k # 1
            <4>1. PICK j \in 1 .. Len(b) : j = k - 1
                BY <3>1, <3>3, <1>b
            <4>2. a[k] = b[j] /\ j \in 1 .. Len(b) - 1 /\ j + 1 = k
                BY <1>b, <2>1, <2>2, <3>1, <3>3, <4>1
            <4>3. b[j].start < b[j + 1].start
                BY <4>2 DEF GoodFrom
            <4>4. QED
                BY <3>1, <4>2, <4>3
        <3>4. QED
            BY <3>2, <3>3
    <2>7. ASSUME NEW i \in p + 1 .. Len(t), t[i] \notin White
          PROVE  \E k \in DOMAIN a : a[k].start < i /\ i <= a[k].end
        <3>1. CASE i <= end
            BY <1>2, <2>1, <2>3, <3>1, <1>b
        <3>2. CASE ~ (i <= end)
            <4>1. i \in q + 1 .. Len(t)
                BY <1>0, <3>2 DEF end
            <4>2. PICK k \in DOMAIN b : b[k].start < i /\ i <= b[k].end
                BY <2>7, <4>1 DEF GoodFrom
            <4>3. a[k + 1] = b[k] /\ k + 1 \in DOMAIN a
                BY <1>b, <2>1, <2>3, <4>2
            <4>4. QED
                BY <4>2, <4>3
        <3>3. QED
            BY <3>1, <3>2
    <2>8. GoodFrom(a, t, size, p)
        BY <2>1, <2>5, <2>6, <2>7 DEF GoodFrom
    <2>9. QED
        BY <1>2, <2>8 DEF a
<1>3. QED
    BY <1>1, <1>2, PieceTypes DEF end

LEMMA FromIsGood ==
    ASSUME NEW t \in Seq(Characters), NEW size \in Nat \ {0}, NEW overlap \in Nat,
           NEW g, FromAll(g, t, size, overlap)
    PROVE  GoodFrom(g[0], t, size, 0)
<1> DEFINE n == Len(t)
           D == {d \in Nat : \A p \in Nat : p + d >= n => GoodFrom(g[p], t, size, p)}
<1>0. n \in Nat
    OBVIOUS
<1>1. \A p \in Nat :
         g[p] = IF p >= n THEN <<>>
                ELSE PieceAt(t, size, p)
                     \o (IF EndAt(t, size, p) >= n THEN <<>>
                         ELSE g[NextWindow(p, EndAt(t, size, p), size, overlap)])
    BY Zenon DEF FromAll
<1>2. ASSUME NEW p \in Nat, p >= n PROVE GoodFrom(<<>>, t, size, p)
    BY <1>0, <1>2 DEF GoodFrom
<1>3. 0 \in D
    BY <1>0, <1>1, <1>2
<1>4. ASSUME NEW d \in Nat, d \in D PROVE d + 1 \in D
    <2> SUFFICES ASSUME NEW p \in Nat, p + (d + 1) >= n PROVE GoodFrom(g[p], t, size, p)
        OBVIOUS
    <2>1. CASE p >= n
        <3>1. g[p] = <<>>
            BY <1>1, <2>1
        <3>2. QED
            BY <1>2, <2>1, <3>1
    <2>2. CASE p < n
        <3> DEFINE end == EndAt(t, size, p)
                   q == NextWindow(p, end, size, overlap)
        <3>0. end \in p + 1 .. n
            BY <2>2, WindowEnds
        <3>1. end \in Nat /\ p < end /\ end <= n
            BY <1>0, <3>0
        <3>2. g[p] = PieceAt(t, size, p) \o (IF end >= n THEN <<>> ELSE g[q])
            <4>1. ~ (p >= n)
                BY <1>0, <2>2
            <4>2. QED
                BY <1>1, <4>1, Zenon
        <3> HIDE DEF end
        <3>3. q \in Nat /\ p < q /\ q <= end
            BY <3>1, WindowMoves
        <3> HIDE DEF q
        <3>4. CASE end >= n
            <4>1. GoodFrom(<<>>, t, size, end)
                BY <1>2, <3>1, <3>4
            <4>2. GoodFrom(PieceAt(t, size, p) \o <<>>, t, size, p)
                <5>1. end <= EndAt(t, size, p)
                    BY <3>1 DEF end
                <5>2. QED
                    BY <2>2, <3>1, <4>1, <5>1, OneMorePiece
            <4>3. QED
                BY <3>2, <3>4, <4>2
        <3>5. CASE ~ (end >= n)
            <4>1. GoodFrom(g[q], t, size, q)
                BY <1>0, <1>4, <3>3
            <4>2. QED
                BY <2>2, <3>2, <3>3, <3>5, <4>1, OneMorePiece DEF end
        <3>6. QED
            BY <3>4, <3>5
    <2>3. QED
        BY <1>0, <2>1, <2>2
<1> HIDE DEF D
<1>5. n \in D
    BY <1>0, <1>3, <1>4, SetInduction
<1>6. QED
    BY <1>0, <1>5 DEF D

\* chunk_text, for every text, size and overlap: pieces in order, none empty or
\* too long, that leave out nothing but white space.
THEOREM ChunkTextCovers ==
    ASSUME NEW text \in Seq(Characters), NEW size \in Nat \ {0}, NEW overlap \in Nat
    PROVE  LET chunks == ChunkText(text, size, overlap)
           IN  /\ chunks \in Seq(Chunk)
               /\ Covers(chunks, text) /\ Bounded(chunks, size) /\ Advance(chunks)
<1> DEFINE t == Strip(text)
           P(g) == FromAll(g, t, size, overlap)
           chunks == ChunkText(text, size, overlap)
<1>1. t \in Seq(Characters)
    BY StripOf
<1>2. \E g : P(g)
    BY <1>1, FromExists
<1>3. chunks = (CHOOSE g : P(g))[0]
    BY ChunkTextIs
<1> HIDE DEF P
<1>4. P(CHOOSE g : P(g))
    BY <1>2, Zenon
<1>5. GoodFrom(chunks, t, size, 0)
    BY <1>1, <1>3, <1>4, FromIsGood DEF P
<1> HIDE DEF chunks
<1>6. Covers(chunks, text)
    <2>1. DOMAIN t = 0 + 1 .. Len(t)
        BY <1>1
    <2>2. QED
        BY <1>5, <2>1 DEF GoodFrom, Covers
<1>7. Bounded(chunks, size) /\ Advance(chunks) /\ chunks \in Seq(Chunk)
    BY <1>5 DEF GoodFrom, Bounded, Advance
<1>8. QED
    BY <1>6, <1>7 DEF chunks

-----------------------------------------------------------------------------
(* The rows of a document.                                                  *)

\* The rows of a document are those of its pieces, of one execution or another
\* and no index twice, and one execution has them all; whoever is past writing
\* them has written some, and so has whoever marked the document or the job.
RowsInv ==
    /\ DOMAIN rows = setting.texts
    /\ \A t \in setting.texts :
          /\ \A row \in rows[t] : \E cut \in setting.cuts : row \in Written(t, cut)
          /\ \A row, other \in rows[t] : row.index = other.index => row = other
          /\ rows[t] # {} => /\ \E cut \in setting.cuts : Written(t, cut) \subseteq rows[t]
                             /\ document[t] # NoRow /\ Parsable(t)
          /\ document[t] = "EMBEDDED" => rows[t] # {}
    /\ \A w \in Worker : step[w] \in {"embedded", "finish"} => rows[holding[w].text] # {}
    /\ \A r \in Request : job[r] = "SUCCEEDED" =>
          content[r] \in setting.texts /\ rows[content[r]] # {}

LEMMA PiecesCover ==
    ASSUME setting \in Settings, NEW t \in setting.texts, NEW cut \in setting.cuts
    PROVE  /\ t \in Seq(Characters) /\ Pieces(t, cut) \in Seq(Chunk)
           /\ Covers(Pieces(t, cut), t) /\ Bounded(Pieces(t, cut), cut.size)
           /\ Advance(Pieces(t, cut))
<1>1. t \in Seq(Characters) /\ cut.size \in Nat \ {0} /\ cut.overlap \in Nat
    BY SettingsAssumption
<1>2. QED
    BY <1>1, ChunkTextCovers DEF Pieces

\* A document that is not blank has a piece.
LEMMA PiecesSome ==
    ASSUME setting \in Settings, NEW t \in setting.texts, NEW cut \in setting.cuts
    PROVE  Len(Pieces(t, cut)) \in Nat \ {0}
<1>1. t \in Seq(Characters) /\ t # <<>> /\ Strip(t) = t
    BY SettingsAssumption
<1>2. PICK i \in DOMAIN t : t[i] \notin White
    BY <1>1, Zenon DEF Strip
<1>3. \E k \in DOMAIN Pieces(t, cut) : TRUE
    BY <1>1, <1>2, PiecesCover DEF Covers
<1>4. Pieces(t, cut) \in Seq(Chunk)
    BY PiecesCover
<1>5. QED
    BY <1>3, <1>4

\* What one execution writes: a row for each piece, numbered from 0.
LEMMA WrittenIs ==
    ASSUME setting \in Settings, NEW t \in setting.texts, NEW cut \in setting.cuts
    PROVE  /\ Written(t, cut) = {Row(t, cut, k) : k \in 1 .. Len(Pieces(t, cut))}
           /\ Len(Pieces(t, cut)) \in Nat \ {0}
           /\ Written(t, cut) # {}
           /\ \A k : Row(t, cut, k) = [index |-> k - 1, chunk |-> Pieces(t, cut)[k]]
           /\ \A row, other \in Written(t, cut) : row.index = other.index => row = other
<1> DEFINE L == Len(Pieces(t, cut))
<1>1. L \in Nat \ {0} /\ DOMAIN Pieces(t, cut) = 1 .. L
    BY PiecesSome, PiecesCover
<1>2. Written(t, cut) = {Row(t, cut, k) : k \in 1 .. L}
    BY <1>1 DEF Written
<1>3. \A k : Row(t, cut, k) = [index |-> k - 1, chunk |-> Pieces(t, cut)[k]]
    BY DEF Row
<1> HIDE DEF L
<1>4. \A j, k \in 1 .. L : Row(t, cut, j).index = Row(t, cut, k).index => j = k
    BY <1>1, <1>3
<1>5. \A row, other \in Written(t, cut) : row.index = other.index => row = other
    BY <1>2, <1>4
<1>6. Row(t, cut, 1) \in Written(t, cut)
    BY <1>1, <1>2
<1>7. QED
    BY <1>1, <1>2, <1>3, <1>5, <1>6 DEF L

\* The rows of a text are its pieces, numbered, if one execution has them all.
LEMMA RowsOfPieces ==
    ASSUME setting \in Settings, NEW t \in setting.texts, NEW cut \in setting.cuts,
           Written(t, cut) \subseteq rows[t],
           \A row, other \in rows[t] : row.index = other.index => row = other
    PROVE  LET last == Len(Pieces(t, cut)) - 1
           IN  /\ last \in Indexes(t) /\ 0 .. last \subseteq Indexes(t)
               /\ IndexedTo(t, last) = Pieces(t, cut)
               /\ rows[t] \subseteq Written(t, cut) => Indexes(t) = 0 .. last
<1> DEFINE c == Pieces(t, cut)
           L == Len(c)
           R(k) == Row(t, cut, k)
<1>1. /\ c \in Seq(Chunk) /\ L \in Nat \ {0}
      /\ \A k : R(k) = [index |-> k - 1, chunk |-> c[k]]
      /\ Written(t, cut) = {R(k) : k \in 1 .. L}
    BY PiecesCover, WrittenIs
<1>c. c = [k \in 1 .. L |-> c[k]]
    BY <1>1
<1> HIDE DEF c, L, R
<1>2. \A k \in 1 .. L : R(k) \in rows[t] /\ R(k).index = k - 1 /\ R(k).chunk = c[k]
    BY <1>1
<1>3. ASSUME NEW i \in 0 .. L - 1 PROVE i \in Indexes(t)
    <2>1. i + 1 \in 1 .. L /\ i = (i + 1) - 1
        BY <1>1
    <2>2. R(i + 1) \in rows[t] /\ R(i + 1).index = i
        BY <1>2, <2>1
    <2>3. QED
        BY <2>2 DEF Indexes
<1>4. rows[t] \subseteq Written(t, cut) => Indexes(t) \subseteq 0 .. L - 1
    BY <1>1, <1>2 DEF Indexes
<1>5. ASSUME NEW k \in 1 .. L
      PROVE  (CHOOSE row \in rows[t] : row.index = k - 1).chunk = c[k]
    <2> DEFINE row == CHOOSE row \in rows[t] : row.index = k - 1
    <2>1. R(k) \in rows[t] /\ R(k).index = k - 1 /\ R(k).chunk = c[k]
        BY <1>2
    <2>2. row \in rows[t] /\ row.index = k - 1
        BY <2>1, Zenon
    <2> HIDE DEF row
    <2>3. row = R(k)
        BY <2>1, <2>2
    <2>4. row.chunk = c[k]
        BY <2>1, <2>3
    <2>5. QED
        BY <2>4 DEF row
<1>6. IndexedTo(t, L - 1) = c
    <2>1. (L - 1) + 1 = L
        BY <1>1
    <2>2. IndexedTo(t, L - 1) = [k \in 1 .. L |-> (CHOOSE row \in rows[t] : row.index = k - 1).chunk]
        BY <2>1, Zenon DEF IndexedTo
    <2>3. QED
        BY <1>5, <1>c, <2>2, Zenon
<1>7. L - 1 \in 0 .. L - 1
    BY <1>1
<1>8. QED
    BY <1>3, <1>4, <1>6, <1>7 DEF c, L

LEMMA InitRows == Init => RowsInv
    BY DEF Init, RowsInv, NoRow

LEMMA RequestRowsKept ==
    ASSUME IngestInv, RowsInv, NEW r \in Request, Post(r) \/ RequestStep(r)
    PROVE  RowsInv'
<1>0. /\ document \in [setting.texts -> DocumentStatuses \cup {NoRow}]
      /\ job \in [Request -> JobStatuses \cup {NoRow}]
    BY DEF IngestInv, TypeInv, SendInv, RequestTypes, RowTypes
<1>1. UNCHANGED <<setting, holding, step, rows>>
    BY RequestFrame
<1>2. \A t \in setting.texts : document[t] # NoRow =>
                                   document'[t] = document[t] /\ mime'[t] = mime[t]
    BY RequestSpares DEF IngestInv
<1>3. \A t \in setting.texts : document'[t] = "EMBEDDED" => document[t] = "EMBEDDED"
    BY <1>0 DEF Post, RequestStep, CreateOrGet, FindLatestJob, CreateJob, Enqueue,
                EnqueueFails, Replay, RequestFails, tables
<1>4. \A s \in Request : job'[s] = "SUCCEEDED" => job[s] = "SUCCEEDED"
    BY <1>0 DEF Post, RequestStep, CreateOrGet, FindLatestJob, CreateJob, Enqueue,
                EnqueueFails, Replay, RequestFails, tables
<1>5. \A s \in Request : job[s] = "SUCCEEDED" => content'[s] = content[s]
    <2>1. \A s \in Request : job[s] = "SUCCEEDED" => Made(s)
        BY DEF IngestInv, LinkInv, JobLinks, NoRow
    <2>2. QED
        BY <2>1, RequestKeeps DEF IngestInv
<1>6. \A t \in setting.texts : rows[t] # {} => document'[t] # NoRow /\ Parsable(t)'
    BY <1>2 DEF RowsInv, Parsable
<1>7. QED
    BY <1>1, <1>3, <1>4, <1>5, <1>6 DEF RowsInv

\* Rows are only ever written, all at once, and over the rows of their indices.
LEMMA WorkerWrites ==
    ASSUME IngestInv, RowsInv, NEW w \in Worker,
           WorkerStep(w) \/ LoseWorker(w) \/ HardTimeLimit(w)
    PROVE  /\ DOMAIN rows' = setting.texts
           /\ \A t \in setting.texts :
                 /\ rows[t] # {} => rows'[t] # {}
                 /\ \A row \in rows'[t] : \E cut \in setting.cuts : row \in Written(t, cut)
                 /\ \A row, other \in rows'[t] : row.index = other.index => row = other
                 /\ rows'[t] # {} =>
                       /\ \E cut \in setting.cuts : Written(t, cut) \subseteq rows'[t]
                       /\ document[t] # NoRow /\ Parsable(t)
           /\ AddChunks(w) => rows'[holding[w].text] # {}
<1>1. UNCHANGED setting /\ (Effect(w) \/ UNCHANGED <<document, job, rows>>)
    BY WorkerFrame
<1>2. CASE AddChunks(w)
    <2> DEFINE u == holding[w].text
    <2>1. step[w] = "index"
        BY <1>2 DEF AddChunks
    <2>2. PICK cut \in setting.cuts :
            rows' = [rows EXCEPT ![u] =
                Written(u, cut) \cup
                {row \in rows[u] : \A new \in Written(u, cut) : new.index # row.index}]
        BY <1>2 DEF AddChunks
    <2>3. holding[w] \in InFlight
        BY <2>1 DEF InFlight
    <2>4. u \in setting.texts /\ document[u] # NoRow
        <3>1. holding[w] \in Mail /\ \E r \in Request : Starter(r, u)
            BY <2>3, MailKnown DEF IngestInv
        <3>2. QED
            BY <3>1 DEF Mail, Starter, IngestInv, TypeInv, SendInv, CreatorInv
    <2>5. Parsable(u)
        BY <2>1 DEF IngestInv, ParsedInv
    <2>6. setting \in Settings
        BY DEF IngestInv, TypeInv, OtherTypes
    <2> DEFINE W == Written(u, cut)
               old == {row \in rows[u] : \A new \in W : new.index # row.index}
    <2>7. W # {} /\ \A row, other \in W : row.index = other.index => row = other
        BY <2>4, <2>6, WrittenIs
    <2> HIDE DEF u
    <2>8. rows'[u] = W \cup old /\ DOMAIN rows' = setting.texts
          /\ \A t \in setting.texts : t # u => rows'[t] = rows[t]
        BY <2>2, <2>4 DEF RowsInv
    <2>9. \A row \in rows'[u] : \E c \in setting.cuts : row \in Written(u, c)
        <3>1. \A row \in old : \E c \in setting.cuts : row \in Written(u, c)
            BY <2>4 DEF RowsInv
        <3> HIDE DEF old
        <3>2. QED
            BY <2>8, <3>1
    <2>10. \A row, other \in rows'[u] : row.index = other.index => row = other
        <3>1. \A row, other \in old : row.index = other.index => row = other
            BY <2>4 DEF RowsInv
        <3>2. \A row \in W, other \in old : row.index # other.index
            OBVIOUS
        <3> HIDE DEF W, old
        <3>3. QED
            BY <2>7, <2>8, <3>1, <3>2
    <2>11. rows'[u] # {} /\ \E c \in setting.cuts : Written(u, c) \subseteq rows'[u]
        <3> HIDE DEF old
        <3>1. QED
            BY <2>7, <2>8
    <2> HIDE DEF W, old
    <2>12. ASSUME NEW t \in setting.texts
           PROVE  /\ rows[t] # {} => rows'[t] # {}
                  /\ \A row \in rows'[t] : \E c \in setting.cuts : row \in Written(t, c)
                  /\ \A row, other \in rows'[t] : row.index = other.index => row = other
                  /\ rows'[t] # {} =>
                        /\ \E c \in setting.cuts : Written(t, c) \subseteq rows'[t]
                        /\ document[t] # NoRow /\ Parsable(t)
        <3>1. CASE t = u
            BY <3>1, <2>4, <2>5, <2>9, <2>10, <2>11 DEF u
        <3>2. CASE t # u
            BY <3>2, <2>8 DEF RowsInv
        <3>3. QED
            BY <3>1, <3>2
    <2>13. QED
        BY <2>8, <2>11, <2>12 DEF u
<1>3. CASE ~ AddChunks(w)
    <2>1. UNCHANGED rows
        BY <1>1, <1>3 DEF Effect, WriteDocument, WriteJob, Compute, tables
    <2>2. QED
        BY <1>3, <2>1 DEF RowsInv
<1>4. QED
    BY <1>2, <1>3

LEMMA WorkerRowsKept ==
    ASSUME IngestInv, RowsInv, NEW w \in Worker,
           WorkerStep(w) \/ LoseWorker(w) \/ HardTimeLimit(w)
    PROVE  RowsInv'
<1>0. /\ holding \in [Worker -> Mail \cup {NoMessage}] /\ step \in [Worker -> Steps]
      /\ \A v \in Worker : step[v] # "free" => holding[v] \in Mail
      /\ document \in [setting.texts -> DocumentStatuses \cup {NoRow}]
      /\ job \in [Request -> JobStatuses \cup {NoRow}]
    BY DEF IngestInv, TypeInv, SendInv, RequestTypes, MailTypes, RowTypes
<1>1. /\ UNCHANGED <<setting, content, mime>>
      /\ Effect(w) \/ UNCHANGED <<document, job, rows>>
    BY WorkerFrame
<1>2. /\ DOMAIN rows' = setting.texts
      /\ \A t \in setting.texts :
            /\ rows[t] # {} => rows'[t] # {}
            /\ \A row \in rows'[t] : \E cut \in setting.cuts : row \in Written(t, cut)
            /\ \A row, other \in rows'[t] : row.index = other.index => row = other
            /\ rows'[t] # {} =>
                  /\ \E cut \in setting.cuts : Written(t, cut) \subseteq rows'[t]
                  /\ document[t] # NoRow /\ Parsable(t)
      /\ AddChunks(w) => rows'[holding[w].text] # {}
    BY WorkerWrites
<1>3. \A t \in setting.texts : rows[t] # {} => rows'[t] # {}
    BY <1>2
<1>4. \A t \in setting.texts : document[t] # NoRow => document'[t] # NoRow
    BY <1>0, <1>1 DEF Effect, WriteDocument, WriteJob, AddChunks, Compute, tables,
                      DocumentWrite, NoRow
<1>5. \A t \in setting.texts : rows'[t] # {} => document'[t] # NoRow /\ Parsable(t)'
    BY <1>1, <1>2, <1>4 DEF Parsable
<1>6. ASSUME NEW v \in Worker, step'[v] \in {"embedded", "finish"}
      PROVE  rows'[holding'[v].text] # {}
    <2>1. CASE v # w
        <3>1. step'[v] = step[v] /\ holding'[v] = holding[v]
            BY <1>0, <2>1 DEF WorkerStep, Receive, Proceed, ParseFails, StepRaises,
                              SoftTimeLimit, Retry, Acknowledge, LoseWorker, HardTimeLimit,
                              Release, Become, Except
        <3>2. holding[v].text \in setting.texts /\ rows[holding[v].text] # {}
            BY <1>0, <1>6, <3>1 DEF Mail, RowsInv
        <3>3. QED
            BY <1>3, <3>1, <3>2
    <2>2. CASE v = w
        <3>1. /\ Proceed(w) /\ UNCHANGED holding
              /\ step[w] \in {"index", "embedded"}
            BY <1>0, <1>6, <2>2 DEF WorkerStep, Receive, Proceed, ParseFails, StepRaises,
                              SoftTimeLimit, Retry, Acknowledge, LoseWorker, HardTimeLimit,
                              Release, Become, Except, After
        <3>2. holding[w].text \in setting.texts
            BY <1>0, <3>1 DEF Mail
        <3>3. CASE step[w] = "index"
            <4>1. AddChunks(w)
                BY <3>1, <3>3 DEF Proceed, Effect, WriteDocument, WriteJob, Compute,
                                  DocumentWrite, JobWrite
            <4>2. QED
                BY <1>2, <2>2, <3>1, <4>1
        <3>4. CASE step[w] = "embedded"
            <4>1. rows[holding[w].text] # {}
                BY <3>4 DEF RowsInv
            <4>2. QED
                BY <1>3, <2>2, <3>1, <3>2, <4>1
        <3>5. QED
            BY <3>1, <3>3, <3>4
    <2>3. QED
        BY <2>1, <2>2
<1>7. ASSUME NEW t \in setting.texts, document'[t] = "EMBEDDED" PROVE rows'[t] # {}
    <2>1. CASE document[t] = "EMBEDDED"
        BY <1>3, <2>1 DEF RowsInv
    <2>2. CASE document[t] # "EMBEDDED"
        <3>1. step[w] = "embedded" /\ holding[w].text = t
            BY <1>0, <1>1, <1>7, <2>2 DEF Effect, WriteDocument, WriteJob, AddChunks, Compute,
                                          tables, DocumentWrite
        <3>2. rows[t] # {}
            BY <3>1 DEF RowsInv
        <3>3. QED
            BY <1>3, <3>2
    <2>3. QED
        BY <2>1, <2>2
<1>8. ASSUME NEW r \in Request, job'[r] = "SUCCEEDED"
      PROVE  content[r] \in setting.texts /\ rows'[content[r]] # {}
    <2>1. CASE job[r] = "SUCCEEDED"
        BY <1>3, <2>1 DEF RowsInv
    <2>2. CASE job[r] # "SUCCEEDED"
        <3>1. step[w] = "finish" /\ holding[w].job = r
            BY <1>0, <1>1, <1>8, <2>2 DEF Effect, WriteDocument, WriteJob, AddChunks, Compute,
                                          tables, JobWrite
        <3>2. holding[w] \in InFlight /\ holding[w] \in Mail
            BY <1>0, <3>1 DEF InFlight
        <3>3. content[r] = holding[w].text
            BY <3>1, <3>2, MailKnown DEF IngestInv
        <3>4. content[r] \in setting.texts /\ rows[content[r]] # {}
            BY <3>1, <3>2, <3>3 DEF RowsInv, Mail
        <3>5. QED
            BY <1>3, <3>4
    <2>3. QED
        BY <2>1, <2>2
<1>9. QED
    BY <1>1, <1>2, <1>5, <1>6, <1>7, <1>8 DEF RowsInv

LEMMA NextRows == IngestInv /\ RowsInv /\ [Next]_vars => RowsInv'
<1> SUFFICES ASSUME IngestInv, RowsInv, [Next]_vars PROVE RowsInv'
    OBVIOUS
<1>1. CASE UNCHANGED <<setting, requests, tables, queue, worker>>
    BY <1>1 DEF requests, tables, worker, RowsInv, Parsable
<1>2. CASE CreateBase \/ DisableBase \/ QueryStep \/ UNCHANGED vars
    BY <1>1, <1>2 DEF CreateBase, DisableBase, vars, QueryStep, BeginQuery, LookUpBase,
                      Search, QueryDegrades, WriteLog, Elsewhere
<1>3. QED
    BY <1>2, RequestRowsKept, WorkerRowsKept DEF Next

LEMMA AlwaysRows == Spec => [](IngestInv /\ RowsInv)
<1>1. Init => IngestInv /\ RowsInv
    BY InitIngest, InitRows
<1>2. IngestInv /\ RowsInv /\ [Next]_vars => (IngestInv /\ RowsInv)'
    BY NextIngest, NextRows
<1>3. QED
    BY <1>1, <1>2, PTL DEF Spec

\* Once a document is EMBEDDED, or a job for it SUCCEEDED, its rows hold the
\* pieces chunk_text cuts it into for one of the executions, each once and in
\* order, and they leave nothing of it out; there are no others where every
\* execution cuts alike, and none for a document the parser refuses.
THEOREM IndexCorrect == Spec => []IndexCoversDocument
<1>1. IngestInv /\ RowsInv => IndexCoversDocument
    <2> SUFFICES ASSUME IngestInv, RowsInv, NEW t \in setting.texts
                 PROVE  /\ \A row, other \in rows[t] : row.index = other.index => row = other
                        /\ rows[t] # {} => Parsable(t)
                        /\ document[t] = "EMBEDDED" \/ (\E r \in Request :
                                              content[r] = t /\ job[r] = "SUCCEEDED")
                           => \E cut \in setting.cuts : \E last \in Indexes(t) :
                                /\ 0 .. last \subseteq Indexes(t)
                                /\ Covers(IndexedTo(t, last), t)
                                /\ Bounded(IndexedTo(t, last), cut.size)
                                /\ Advance(IndexedTo(t, last))
                                /\ setting.cuts = {cut} => Indexes(t) = 0 .. last
        BY DEF IndexCoversDocument
    <2>1. setting \in Settings
        BY DEF IngestInv, TypeInv, OtherTypes
    <2>2. /\ \A row, other \in rows[t] : row.index = other.index => row = other
          /\ rows[t] # {} => Parsable(t)
        BY DEF RowsInv
    <2>3. ASSUME document[t] = "EMBEDDED" \/ (\E r \in Request :
                                                content[r] = t /\ job[r] = "SUCCEEDED")
          PROVE  \E cut \in setting.cuts : \E last \in Indexes(t) :
                    /\ 0 .. last \subseteq Indexes(t)
                    /\ Covers(IndexedTo(t, last), t)
                    /\ Bounded(IndexedTo(t, last), cut.size)
                    /\ Advance(IndexedTo(t, last))
                    /\ setting.cuts = {cut} => Indexes(t) = 0 .. last
        <3>1. rows[t] # {}
            BY <2>3 DEF RowsInv
        <3>2. PICK cut \in setting.cuts : Written(t, cut) \subseteq rows[t]
            BY <3>1 DEF RowsInv
        <3> DEFINE last == Len(Pieces(t, cut)) - 1
        <3>3. /\ last \in Indexes(t) /\ 0 .. last \subseteq Indexes(t)
              /\ IndexedTo(t, last) = Pieces(t, cut)
              /\ rows[t] \subseteq Written(t, cut) => Indexes(t) = 0 .. last
            BY <2>1, <2>2, <3>2, RowsOfPieces
        <3>4. /\ Covers(Pieces(t, cut), t) /\ Bounded(Pieces(t, cut), cut.size)
              /\ Advance(Pieces(t, cut))
            BY <2>1, PiecesCover
        <3>5. setting.cuts = {cut} => rows[t] \subseteq Written(t, cut)
            BY DEF RowsInv
        <3> HIDE DEF last
        <3>6. QED
            BY <3>3, <3>4, <3>5
    <2>4. QED
        BY <2>2, <2>3
<1>2. QED
    BY <1>1, AlwaysRows, PTL

-----------------------------------------------------------------------------
(* What a query answers.                                                    *)

\* The sums of the first numbers, for each number of them.
Sums(f, N, B) == f = [k \in 0 .. N |-> IF k = 0 THEN 0 ELSE f[k - 1] + B[k]]

LEMMA SumsExist ==
    ASSUME NEW N \in Nat, NEW B \in [1 .. N -> Nat]
    PROVE  \E f : Sums(f, N, B)
<1> DEFINE D == [k \in 1 .. N |-> [x \in Nat |-> x + B[k]]]
<1>1. D \in [1 .. N -> [Nat -> Nat]] /\ 0 \in Nat
    OBVIOUS
<1>2. PICK f \in [0 .. N -> Nat] : Folded(f, N, 0, D)
    BY <1>1, FoldExists
<1>3. \A k \in 0 .. N : f[k] = IF k = 0 THEN 0 ELSE D[k][f[k - 1]]
    BY <1>2, Zenon DEF Folded
<1>4. ASSUME NEW k \in 0 .. N, k # 0 PROVE D[k][f[k - 1]] = f[k - 1] + B[k]
    <2>1. k \in 1 .. N /\ k - 1 \in 0 .. N
        BY <1>4
    <2>2. f[k - 1] \in Nat
        BY <2>1
    <2>3. QED
        BY <2>1, <2>2
<1> HIDE DEF D
<1>5. \A k \in 0 .. N : f[k] = IF k = 0 THEN 0 ELSE f[k - 1] + B[k]
    BY <1>3, <1>4
<1>6. Sums(f, N, B)
    BY <1>5 DEF Sums
<1>7. QED
    BY <1>6

LEMMA SumsGrow ==
    ASSUME NEW N \in Nat, NEW B \in [1 .. N -> Nat], NEW f, Sums(f, N, B)
    PROVE  /\ f[0] = 0
           /\ \A k \in 0 .. N : f[k] \in Nat
           /\ \A k \in 1 .. N : f[k] = f[k - 1] + B[k]
<1>1. \A k \in 0 .. N : f[k] = IF k = 0 THEN 0 ELSE f[k - 1] + B[k]
    BY Zenon DEF Sums
<1> DEFINE P == {k \in Nat : k \in 0 .. N => f[k] \in Nat}
<1>2. 0 \in P
    BY <1>1
<1>3. ASSUME NEW k \in Nat, k \in P PROVE k + 1 \in P
    <2>1. ASSUME k + 1 \in 0 .. N PROVE f[k + 1] \in Nat
        <3>1. k \in 0 .. N /\ k + 1 \in 1 .. N /\ k + 1 # 0 /\ (k + 1) - 1 = k
            BY <2>1
        <3>2. f[k + 1] = f[k] + B[k + 1]
            BY <1>1, <2>1, <3>1, Zenon
        <3>3. f[k] \in Nat /\ B[k + 1] \in Nat
            BY <1>3, <3>1
        <3>4. QED
            BY <3>2, <3>3
    <2>2. QED
        BY <2>1
<1> HIDE DEF P
<1>4. Nat \subseteq P
    BY <1>2, <1>3, SetInduction
<1>5. QED
    BY <1>1, <1>4 DEF P

\* The numbers before which the sum is below a limit: the first ones.
Below(N, f, M) == {k \in 1 .. N : f[k - 1] < M}

LEMMA FirstBelow ==
    ASSUME NEW N \in Nat, NEW B \in [1 .. N -> Nat], NEW f, Sums(f, N, B), NEW M \in Nat
    PROVE  \E j \in 0 .. N : Below(N, f, M) = 1 .. j
<1> DEFINE K == Below(N, f, M)
<1>0. /\ \A k \in 0 .. N : f[k] \in Nat
      /\ \A k \in 1 .. N : f[k] = f[k - 1] + B[k]
    BY SumsGrow
<1>1. ASSUME NEW k \in K, k # 1 PROVE k - 1 \in K
    <2>1. PICK i \in 1 .. N : i = k - 1
        BY <1>1 DEF Below
    <2>2. f[i] < M /\ f[i] = f[i - 1] + B[i]
        BY <1>0, <1>1, <2>1 DEF Below
    <2>3. PICK h \in 0 .. N : h = i - 1
        BY <2>1
    <2>4. f[h] \in Nat /\ B[i] \in Nat /\ f[i] = f[h] + B[i]
        BY <1>0, <2>2, <2>3
    <2>5. f[i - 1] < M
        BY <2>2, <2>3, <2>4
    <2>6. QED
        BY <2>1, <2>5 DEF Below
<1>k. K \subseteq 1 .. N
    BY DEF Below
<1> HIDE DEF K
<1>2. CASE K = {}
    <2>1. 1 .. 0 = {} /\ 0 \in 0 .. N
        OBVIOUS
    <2>2. QED
        BY <1>2, <2>1 DEF K
<1>3. CASE K # {}
    <2>0. K \in SUBSET (0 .. N)
        BY <1>k
    <2>1. PICK j \in K : \A k \in K : j >= k
        BY <1>3, <2>0, GreatestMember
    <2> DEFINE P == {d \in Nat : d < j => j - d \in K}
    <2>2. j \in 1 .. N
        BY <1>k
    <2>3. 0 \in P
        BY <2>2
    <2>4. ASSUME NEW d \in Nat, d \in P PROVE d + 1 \in P
        <3>1. ASSUME d + 1 < j PROVE j - (d + 1) \in K
            <4>1. j - d \in K /\ j - d # 1
                BY <2>2, <2>4, <3>1
            <4>2. (j - d) - 1 = j - (d + 1)
                BY <2>2
            <4>3. QED
                BY <1>1, <4>1, <4>2
        <3>2. QED
            BY <3>1
    <2> HIDE DEF P
    <2>5. Nat \subseteq P
        BY <2>3, <2>4, SetInduction
    <2>6. ASSUME NEW k \in 1 .. j PROVE k \in K
        <3>1. j - k \in Nat /\ j - k < j /\ j - (j - k) = k
            BY <2>2
        <3>2. QED
            BY <2>5, <3>1 DEF P
    <2>7. ASSUME NEW k \in K PROVE k \in 1 .. j
        <3>1. k \in 1 .. N /\ j >= k
            BY <1>k, <2>1
        <3>2. QED
            BY <2>2, <3>1
    <2>8. K = 1 .. j
        BY <2>6, <2>7
    <2>9. j \in 0 .. N
        BY <2>2
    <2>10. QED
        BY <2>8, <2>9, Zenon DEF K
<1>4. QED
    BY <1>2, <1>3

Lengths(hits) == [k \in 1 .. Len(hits) |-> Len(Body(hits[k]))]

\* The chunks, as far as they fit after what the ones before them used.
CutTo(hits, used) ==
    [k \in 1 .. Cardinality({k \in 1 .. Len(hits) : used[k - 1] < MaxContext}) |->
       SubSeq(Body(hits[k]), 1, Smaller(Len(Body(hits[k])), MaxContext - used[k - 1]))]

UsedBy(f, hits) ==
    f = [k \in 0 .. Len(hits) |-> IF k = 0 THEN 0 ELSE f[k - 1] + Len(Body(hits[k]))]

LEMMA MapHitsIs ==
    ASSUME NEW hits
    PROVE  MapHits(hits) = CutTo(hits, CHOOSE f : UsedBy(f, hits))
    BY Zenon DEF MapHits, CutTo, UsedBy

LEMMA UsedAreSums ==
    ASSUME NEW hits, Len(hits) \in Nat, NEW f
    PROVE  UsedBy(f, hits) <=> Sums(f, Len(hits), Lengths(hits))
<1>1. \A k \in 0 .. Len(hits) : k # 0 => Lengths(hits)[k] = Len(Body(hits[k]))
    BY DEF Lengths
<1>2. [k \in 0 .. Len(hits) |-> IF k = 0 THEN 0 ELSE f[k - 1] + Len(Body(hits[k]))]
      = [k \in 0 .. Len(hits) |-> IF k = 0 THEN 0 ELSE f[k - 1] + Lengths(hits)[k]]
    BY <1>1
<1>3. QED
    BY <1>2, Zenon DEF UsedBy, Sums

TotalBy(f, texts) == f = [k \in 0 .. Len(texts) |-> IF k = 0 THEN 0 ELSE f[k - 1] + Len(texts[k])]

LEMMA TotalIs ==
    ASSUME NEW texts
    PROVE  Total(texts) = (CHOOSE f : TotalBy(f, texts))[Len(texts)]
    BY Zenon DEF Total, TotalBy

\* The documents that have rows.
Stored == {t \in setting.texts : rows[t] # {}}

\* An answer is made of beginnings of chunks of these texts, as one of the
\* executions cuts them, and fits into the context.
FitsIn(answer, texts, cuts) ==
    /\ Total(answer) <= MaxContext
    /\ Len(answer) <= TopK
    /\ \A k \in DOMAIN answer :
          \E t \in texts : \E cut \in cuts :
              \E row \in Written(t, cut) : \E n \in DOMAIN row.chunk.text :
                  answer[k] = SubSeq(row.chunk.text, 1, n)

Fits(answer) == FitsIn(answer, Stored, setting.cuts)

LEMMA NothingFits == Fits(<<>>)
<1> DEFINE P(f) == TotalBy(f, <<>>)
           zero == [k \in 0 .. 0 |-> 0]
<1>1. P(zero)
    BY DEF TotalBy
<1> HIDE DEF P
<1>2. P(CHOOSE f : P(f))
    BY <1>1, Zenon
<1>3. (CHOOSE f : P(f)) = [k \in 0 .. 0 |-> IF k = 0 THEN 0
                                             ELSE (CHOOSE f : P(f))[k - 1] + Len(<<>>[k])]
    BY <1>2 DEF P, TotalBy
<1>4. (CHOOSE f : P(f))[0] = 0
    <2> DEFINE f0 == CHOOSE f : P(f)
    <2>1. f0 = [k \in 0 .. 0 |-> IF k = 0 THEN 0 ELSE f0[k - 1] + Len(<<>>[k])]
        BY <1>3
    <2> HIDE DEF f0
    <2>2. f0[0] = 0
        BY <2>1
    <2>3. QED
        BY <2>2 DEF f0
<1>5. Total(<<>>) = (CHOOSE f : P(f))[Len(<<>>)]
    BY TotalIs, Zenon DEF P
<1>6. Total(<<>>) = 0
    BY <1>4, <1>5
<1>7. QED
    BY <1>6, BoundAssumption DEF Fits, FitsIn

\* Nothing past the context is answered, from whatever chunks.
LEMMA CutFits ==
    ASSUME NEW N \in Nat, NEW hits, Len(hits) = N, N <= TopK,
           \A k \in 1 .. N : /\ Body(hits[k]) \in Seq(Characters)
                             /\ Len(Body(hits[k])) \in Nat \ {0},
           NEW used, UsedBy(used, hits)
    PROVE  /\ Total(CutTo(hits, used)) <= MaxContext
           /\ Len(CutTo(hits, used)) <= TopK
           /\ DOMAIN CutTo(hits, used) \subseteq 1 .. N
           /\ \A k \in DOMAIN CutTo(hits, used) :
                 \E n \in 1 .. Len(Body(hits[k])) :
                    CutTo(hits, used)[k] = SubSeq(Body(hits[k]), 1, n)
<1> DEFINE B == Lengths(hits)
           texts == CutTo(hits, used)
           cut(k) == Smaller(Len(Body(hits[k])), MaxContext - used[k - 1])
<1>0. \A k \in 1 .. N : B[k] = Len(Body(hits[k])) /\ B[k] > 0
    BY DEF Lengths
<1>b. B \in [1 .. N -> Nat]
    BY DEF Lengths
<1> HIDE DEF B
<1>m. MaxContext \in Nat /\ TopK \in Nat
    BY BoundAssumption
<1>1. Sums(used, N, B)
    BY UsedAreSums DEF B
<1>2. /\ used[0] = 0
      /\ \A k \in 0 .. N : used[k] \in Nat
      /\ \A k \in 1 .. N : used[k] = used[k - 1] + B[k]
    BY <1>b, <1>1, SumsGrow, ZenonT(40)
<1>3a. MaxContext \in Nat
    BY <1>m
<1>3b. \E j \in 0 .. N : Below(N, used, MaxContext) = 1 .. j
    BY <1>b, <1>1, <1>3a, FirstBelow
<1>3. PICK j \in 0 .. N : Below(N, used, MaxContext) = 1 .. j
    BY <1>3b, Zenon
<1>j. j \in Nat
    OBVIOUS
<1>4. Cardinality(1 .. j) = j
    BY FS_Interval
<1>5. texts = [k \in 1 .. j |-> SubSeq(Body(hits[k]), 1, cut(k))]
    BY <1>3, <1>4, Zenon DEF CutTo, Below
<1>6. ASSUME NEW k \in 1 .. j
      PROVE  /\ cut(k) \in 1 .. B[k]
             /\ k \in 1 .. N /\ used[k - 1] < MaxContext
             /\ cut(k) = Smaller(B[k], MaxContext - used[k - 1])
    <2>1. k \in 1 .. N /\ used[k - 1] < MaxContext
        BY <1>3 DEF Below
    <2>2. PICK i \in 0 .. N : i = k - 1
        BY <2>1
    <2>3. used[i] \in Nat /\ used[i] < MaxContext
        BY <1>2, <2>1, <2>2
    <2>4. B[k] = Len(Body(hits[k])) /\ B[k] \in Nat /\ B[k] > 0
        BY <1>0, <1>b, <2>1
    <2>5. Smaller(B[k], MaxContext - used[i]) \in 1 .. B[k]
        BY <1>m, <2>3, <2>4 DEF Smaller
    <2>6. QED
        BY <2>1, <2>2, <2>4, <2>5
<1>7. ASSUME NEW k \in 1 .. j
      PROVE  texts[k] = SubSeq(Body(hits[k]), 1, cut(k)) /\ Len(texts[k]) = cut(k)
    <2>1. cut(k) \in 1 .. Len(Body(hits[k])) /\ Body(hits[k]) \in Seq(Characters)
        BY <1>0, <1>6
    <2>2. texts[k] = SubSeq(Body(hits[k]), 1, cut(k))
        BY <1>5, Zenon
    <2> HIDE DEF cut, texts
    <2>3. Len(SubSeq(Body(hits[k]), 1, cut(k))) = cut(k)
        BY <2>1
    <2>4. QED
        BY <2>2, <2>3
<1>8. DOMAIN texts = 1 .. j /\ Len(texts) = j
    <2>1. DOMAIN texts = 1 .. j
        BY <1>5
    <2>2. j \in Nat
        OBVIOUS
    <2> HIDE DEF texts, cut
    <2>3. texts = [k \in 1 .. j |-> texts[k]]
        BY <1>5
    <2>4. Len(texts) = j
        BY <2>2, <2>3
    <2>5. QED
        BY <2>1, <2>4
<1>9. Total(texts) <= MaxContext
    <2> DEFINE C == [k \in 1 .. j |-> Len(texts[k])]
               P(f) == TotalBy(f, texts)
               sum == CHOOSE f : P(f)
    <2>1. C \in [1 .. j -> Nat]
        <3>1. \A k \in 1 .. j : cut(k) \in Nat
            BY <1>0, <1>6
        <3> HIDE DEF cut, texts
        <3>2. QED
            BY <1>7, <3>1
    <2>2. \A f : P(f) <=> Sums(f, j, C)
        <3> SUFFICES ASSUME NEW f PROVE P(f) <=> Sums(f, j, C)
            OBVIOUS
        <3> HIDE DEF texts, cut
        <3>1. [k \in 0 .. j |-> IF k = 0 THEN 0 ELSE f[k - 1] + Len(texts[k])]
              = [k \in 0 .. j |-> IF k = 0 THEN 0 ELSE f[k - 1] + C[k]]
            OBVIOUS
        <3>2. QED
            BY <1>8, <3>1, Zenon DEF TotalBy, Sums
    <2>3. \E f : P(f)
        BY <2>1, <2>2, <1>j, SumsExist, Zenon
    <2>4. Total(texts) = sum[j]
        BY <1>8, TotalIs, Zenon
    <2> HIDE DEF P
    <2>5. P(sum)
        BY <2>3, Zenon
    <2> HIDE DEF sum
    <2>6. Sums(sum, j, C)
        BY <2>2, <2>5
    <2>7. /\ sum[0] = 0
          /\ \A k \in 0 .. j : sum[k] \in Nat
          /\ \A k \in 1 .. j : sum[k] = sum[k - 1] + C[k]
        BY <2>1, <2>6, <1>j, SumsGrow, ZenonT(40)
    <2>8. \A k \in 1 .. j : C[k] = Smaller(B[k], MaxContext - used[k - 1])
        <3> HIDE DEF texts, cut
        <3>1. QED
            BY <1>6, <1>7
    <2> DEFINE Q == {k \in Nat : k \in 0 .. j => sum[k] = Smaller(used[k], MaxContext)}
    <2>9. 0 \in Q
        BY <1>2, <1>m, <2>7 DEF Smaller
    <2> HIDE DEF C
    <2>10. ASSUME NEW k \in Nat, k \in Q PROVE k + 1 \in Q
        <3>1. ASSUME k + 1 \in 0 .. j PROVE sum[k + 1] = Smaller(used[k + 1], MaxContext)
            <4>1. PICK i \in 1 .. j : i = k + 1
                BY <3>1
            <4>2. i - 1 = k /\ k \in 0 .. j /\ i \in 1 .. N /\ k \in 0 .. N
                BY <3>1, <4>1
            <4>3. used[k] < MaxContext /\ used[k] \in Nat
                BY <1>2, <1>6, <4>2
            <4>4. sum[k] = used[k]
                BY <1>m, <2>10, <4>2, <4>3 DEF Smaller
            <4>5. /\ sum[i] = used[k] + C[i] /\ C[i] = Smaller(B[i], MaxContext - used[k])
                  /\ used[i] = used[k] + B[i] /\ B[i] \in Nat
                BY <1>b, <1>2, <2>7, <2>8, <4>2, <4>4
            <4>6. sum[i] = Smaller(used[i], MaxContext)
                BY <1>m, <4>3, <4>5 DEF Smaller
            <4>7. QED
                BY <4>1, <4>6
        <3>2. QED
            BY <3>1
    <2> HIDE DEF Q
    <2>11. Nat \subseteq Q
        BY <2>9, <2>10, SetInduction
    <2>12. sum[j] = Smaller(used[j], MaxContext) /\ used[j] \in Nat
        BY <1>2, <2>11 DEF Q
    <2>13. sum[j] <= MaxContext
        BY <1>m, <2>12 DEF Smaller
    <2>14. QED
        BY <2>4, <2>13
<1>10. ASSUME NEW k \in 1 .. j
       PROVE  \E n \in 1 .. Len(Body(hits[k])) : texts[k] = SubSeq(Body(hits[k]), 1, n)
    <2>1. cut(k) \in 1 .. Len(Body(hits[k]))
        BY <1>0, <1>6
    <2> HIDE DEF cut, texts
    <2>2. QED
        BY <1>7, <2>1, Zenon
<1> HIDE DEF texts
<1>11. Len(texts) <= TopK /\ DOMAIN texts \subseteq 1 .. N
    BY <1>8, <1>m
<1>12. QED
    BY <1>8, <1>9, <1>10, <1>11 DEF texts

LEMMA ImageFinite ==
    ASSUME NEW S, IsFiniteSet(S), NEW f
    PROVE  IsFiniteSet({f[x] : x \in S})
<1> DEFINE T == {f[x] : x \in S}
           g == [x \in S |-> f[x]]
<1>1. g \in Surjection(S, T)
    <2>1. g \in [S -> T] /\ \A y \in T : \E x \in S : g[x] = y
        OBVIOUS
    <2> HIDE DEF g, T
    <2>2. QED
        BY <2>1 DEF Surjection
<1> HIDE DEF g, T
<1>2. IsFiniteSet(T)
    BY <1>1, FS_Surjection
<1>3. QED
    BY <1>2 DEF T

LEMMA RowsFinite ==
    ASSUME setting \in Settings, RowsInv, NEW t \in setting.texts
    PROVE  IsFiniteSet(rows[t])
<1>1. ASSUME NEW cut \in setting.cuts PROVE IsFiniteSet(Written(t, cut))
    <2> DEFINE L == Len(Pieces(t, cut))
               f == [k \in 1 .. L |-> Row(t, cut, k)]
    <2>1. L \in Nat /\ Written(t, cut) = {Row(t, cut, k) : k \in 1 .. L}
        BY WrittenIs
    <2>2. Written(t, cut) = {f[k] : k \in 1 .. L}
        BY <2>1
    <2>3. IsFiniteSet(1 .. L)
        BY <2>1, FS_Interval
    <2> HIDE DEF f
    <2>4. QED
        BY <2>2, <2>3, ImageFinite
<1> DEFINE g == [cut \in setting.cuts |-> Written(t, cut)]
           family == {g[cut] : cut \in setting.cuts}
<1>2. \A T \in family : IsFiniteSet(T)
    BY <1>1
<1>3. rows[t] \subseteq UNION family
    BY DEF RowsInv
<1>4. IsFiniteSet(family)
    <2>1. IsFiniteSet(setting.cuts)
        BY SettingsAssumption
    <2> HIDE DEF g
    <2>2. QED
        BY <2>1, ImageFinite
<1> HIDE DEF family
<1>5. IsFiniteSet(UNION family)
    BY <1>2, <1>4, FS_UNION
<1>6. QED
    BY <1>3, <1>5, FS_Subset

Marked(t) == {<<t, row>> : row \in rows[t]}

AllMarked == UNION {Marked(t) : t \in DOMAIN rows}

LEMMA AllFinite ==
    ASSUME setting \in Settings, RowsInv
    PROVE  DOMAIN rows = setting.texts /\ IsFiniteSet(AllMarked)
<1>1. DOMAIN rows = setting.texts
    BY DEF RowsInv
<1>2. IsFiniteSet(setting.texts)
    BY SettingsAssumption
<1>3. ASSUME NEW t \in setting.texts PROVE IsFiniteSet(Marked(t))
    <2> DEFINE f == [row \in rows[t] |-> <<t, row>>]
    <2>1. IsFiniteSet(rows[t])
        BY RowsFinite
    <2>2. Marked(t) = {f[row] : row \in rows[t]}
        BY DEF Marked
    <2> HIDE DEF f
    <2>3. QED
        BY <2>1, <2>2, ImageFinite
<1> DEFINE g == [t \in setting.texts |-> Marked(t)]
           family == {g[t] : t \in setting.texts}
<1>4. /\ AllMarked = UNION family
      /\ \A T \in family : IsFiniteSet(T)
    BY <1>1, <1>3 DEF AllMarked
<1>5. IsFiniteSet(family)
    <2> HIDE DEF g
    <2>1. QED
        BY <1>2, ImageFinite
<1> HIDE DEF family
<1>6. IsFiniteSet(UNION family)
    BY <1>4, <1>5, FS_UNION
<1>7. QED
    BY <1>1, <1>4, <1>6

LEMMA RowBodies ==
    ASSUME setting \in Settings, RowsInv, NEW t \in setting.texts, NEW row \in rows[t]
    PROVE  /\ row.chunk.text \in Seq(Characters) /\ Len(row.chunk.text) \in Nat \ {0}
           /\ t \in Stored /\ \E cut \in setting.cuts : row \in Written(t, cut)
<1>1. PICK cut \in setting.cuts : row \in Written(t, cut)
    BY DEF RowsInv
<1>2. PICK k \in DOMAIN Pieces(t, cut) : row = Row(t, cut, k)
    BY <1>1 DEF Written
<1>3. row.chunk = Pieces(t, cut)[k]
    BY <1>2 DEF Row
<1>4. Pieces(t, cut) \in Seq(Chunk) /\ Bounded(Pieces(t, cut), cut.size)
    BY PiecesCover
<1>5. Pieces(t, cut)[k] \in Chunk /\ Len(Pieces(t, cut)[k].text) \in 1 .. cut.size
    BY <1>2, <1>4 DEF Bounded
<1>6. cut.size \in Nat
    BY SettingsAssumption
<1>7. QED
    BY <1>1, <1>3, <1>5, <1>6 DEF Chunk, Stored

\* A query finds no more than TopK rows, each of a chunk of a stored text.
LEMMA HitsAre ==
    ASSUME setting \in Settings, RowsInv, NEW hits \in Hits
    PROVE  /\ Len(hits) \in Nat /\ Len(hits) <= TopK
           /\ \A k \in 1 .. Len(hits) :
                 \E t \in setting.texts : \E row \in rows[t] : Body(hits[k]) = row.chunk.text
<1> DEFINE AtMost(n) == {h \in [1 .. n -> AllMarked] : \A i, j \in 1 .. n : h[i] = h[j] => i = j}
           c == Smaller(TopK, Cardinality(AllMarked))
<1>2. Hits = UNION {AtMost(n) : n \in 0 .. c}
    BY Zenon DEF Hits, AllMarked, Marked
<1>3. c \in Nat /\ c <= TopK
    <2>1. Cardinality(AllMarked) \in Nat
        BY AllFinite, FS_CardinalityType
    <2>2. TopK \in Nat
        BY BoundAssumption
    <2>3. QED
        BY <2>1, <2>2 DEF Smaller
<1>4. PICK n \in 0 .. c : hits \in AtMost(n)
    BY <1>2
<1>5. hits \in [1 .. n -> AllMarked] /\ n \in Nat /\ n <= TopK
    <2>1. TopK \in Nat
        BY BoundAssumption
    <2> HIDE DEF c
    <2>2. QED
        BY <1>3, <1>4, <2>1
<1>6. Len(hits) = n
    BY <1>5
<1>7. ASSUME NEW k \in 1 .. n
      PROVE  \E t \in setting.texts : \E row \in rows[t] : Body(hits[k]) = row.chunk.text
    <2>1. hits[k] \in AllMarked
        BY <1>5
    <2>2. PICK t \in setting.texts : hits[k] \in Marked(t)
        BY <2>1, AllFinite DEF AllMarked
    <2>3. PICK row \in rows[t] : hits[k] = <<t, row>>
        BY <2>2 DEF Marked
    <2>4. Body(hits[k]) = row.chunk.text
        BY <2>3 DEF Body
    <2>5. QED
        BY <2>4
<1>8. QED
    BY <1>5, <1>6, <1>7

\* Whatever rows are found, their chunks are cut to fit.
LEMMA MapHitsFits ==
    ASSUME setting \in Settings, RowsInv, NEW hits \in Hits
    PROVE  Fits(MapHits(hits))
<1> DEFINE P(f) == UsedBy(f, hits)
           used == CHOOSE f : P(f)
           N == Len(hits)
           B == Lengths(hits)
<1>1. /\ N \in Nat /\ N <= TopK
      /\ \A k \in 1 .. N :
            \E t \in setting.texts : \E row \in rows[t] : Body(hits[k]) = row.chunk.text
    BY HitsAre
<1>2. \A k \in 1 .. N : /\ Body(hits[k]) \in Seq(Characters)
                        /\ Len(Body(hits[k])) \in Nat \ {0}
    BY <1>1, RowBodies
<1>3. \E f : P(f)
    <2>1. B \in [1 .. N -> Nat]
        BY <1>2 DEF Lengths
    <2> HIDE DEF B, N
    <2>2. \E f : Sums(f, N, B)
        BY <1>1, <2>1, SumsExist
    <2>3. QED
        BY <1>1, <2>2, UsedAreSums, Zenon DEF N, B
<1> HIDE DEF P
<1>4. P(used)
    BY <1>3, Zenon
<1>5. UsedBy(used, hits)
    BY <1>4 DEF P
<1>6. MapHits(hits) = CutTo(hits, used)
    BY MapHitsIs, Zenon DEF P
<1> HIDE DEF used, N
<1>7. /\ Total(CutTo(hits, used)) <= MaxContext
      /\ Len(CutTo(hits, used)) <= TopK
      /\ DOMAIN CutTo(hits, used) \subseteq 1 .. N
      /\ \A k \in DOMAIN CutTo(hits, used) :
            \E n \in 1 .. Len(Body(hits[k])) :
               CutTo(hits, used)[k] = SubSeq(Body(hits[k]), 1, n)
    BY <1>1, <1>2, <1>5, CutFits, SMTT(30) DEF N
<1>8. ASSUME NEW k \in DOMAIN CutTo(hits, used)
      PROVE  \E t \in Stored : \E cut \in setting.cuts :
                \E row \in Written(t, cut) : \E n \in DOMAIN row.chunk.text :
                    CutTo(hits, used)[k] = SubSeq(row.chunk.text, 1, n)
    <2>1. PICK n \in 1 .. Len(Body(hits[k])) :
            CutTo(hits, used)[k] = SubSeq(Body(hits[k]), 1, n)
        BY <1>7
    <2>2. k \in 1 .. N
        BY <1>7
    <2>3. PICK t \in setting.texts : \E row \in rows[t] : Body(hits[k]) = row.chunk.text
        BY <1>1, <2>2
    <2>4. PICK row \in rows[t] : Body(hits[k]) = row.chunk.text
        BY <2>3
    <2>5. /\ row.chunk.text \in Seq(Characters) /\ t \in Stored
          /\ \E cut \in setting.cuts : row \in Written(t, cut)
        BY RowBodies
    <2>6. n \in DOMAIN row.chunk.text
        BY <2>1, <2>4, <2>5
    <2>7. CutTo(hits, used)[k] = SubSeq(row.chunk.text, 1, n)
        BY <2>1, <2>4
    <2>8. QED
        BY <2>5, <2>6, <2>7
<1>9. QED
    BY <1>6, <1>7, <1>8 DEF Fits, FitsIn

LEMMA FitsGrow ==
    ASSUME NEW answer, NEW cuts, NEW old, NEW new, old \subseteq new,
           FitsIn(answer, old, cuts)
    PROVE  FitsIn(answer, new, cuts)
    BY Zenon DEF FitsIn

\* Until it is answered a query has no status and is not logged; its answer fits
\* what is indexed from the moment it is found.
AnswerInv ==
    /\ query.at # "answered" => logged = <<>> /\ query.status = 0
    /\ logged = <<>> \/ logged = <<found>>
    /\ query.strict /\ query.status = 200 => ~Degraded(found)
    /\ Degraded(found) => found.chunks = <<>>
    /\ FitsIn(found.chunks, Stored, setting.cuts)

LEMMA InitAnswer == Init => AnswerInv
<1> SUFFICES ASSUME Init PROVE AnswerInv
    OBVIOUS
<1>1. found = [chunks |-> <<>>, reason |-> "none"] /\ logged = <<>> /\ query.status = 0
    BY DEF Init, NoResponse, Response
<1>2. found.chunks = <<>> /\ ~Degraded(found)
    BY <1>1 DEF Degraded
<1>3. FitsIn(<<>>, Stored, setting.cuts)
    BY NothingFits DEF Fits
<1>4. QED
    BY <1>1, <1>2, <1>3 DEF AnswerInv

LEMMA RowsGrow ==
    ASSUME IngestInv, RowsInv, [Next]_vars
    PROVE  UNCHANGED setting /\ Stored \subseteq Stored'
<1>1. CASE \E r \in Request : Post(r) \/ RequestStep(r)
    BY <1>1, RequestFrame DEF Stored
<1>2. ASSUME NEW w \in Worker, WorkerStep(w) \/ LoseWorker(w) \/ HardTimeLimit(w)
      PROVE  UNCHANGED setting /\ Stored \subseteq Stored'
    <2>1. \A t \in setting.texts : rows[t] # {} => rows'[t] # {}
        BY <1>2, WorkerWrites
    <2>2. UNCHANGED setting
        BY <1>2, WorkerFrame
    <2>3. QED
        BY <2>1, <2>2 DEF Stored
<1>3. CASE CreateBase \/ DisableBase \/ QueryStep \/ UNCHANGED vars
    BY <1>3 DEF CreateBase, DisableBase, vars, QueryStep, BeginQuery, LookUpBase,
                Search, QueryDegrades, WriteLog, Elsewhere, tables, Stored
<1>4. QED
    BY <1>1, <1>2, <1>3 DEF Next

LEMMA QueryAnswers ==
    ASSUME IngestInv, RowsInv, AnswerInv, QueryStep
    PROVE  AnswerInv'
<1>0. /\ query \in [at : QueryLabels, strict : BOOLEAN, bound : BOOLEAN,
                    status : {0, 200, 400, 404, 409, 503}]
      /\ setting \in Settings
    BY DEF IngestInv, TypeInv, OtherTypes, QueryTypes
<1>1. UNCHANGED <<setting, rows>> /\ UNCHANGED Stored
    BY DEF Stored, QueryStep, BeginQuery, LookUpBase, Search, QueryDegrades, WriteLog, Elsewhere, tables
<1>2. \A reason : LET response == Response(<<>>, reason)
                  IN  response.chunks = <<>> /\ FitsIn(response.chunks, Stored, setting.cuts)
    BY NothingFits DEF Fits, Response
<1>3. CASE BeginQuery
    <2>1. PICK q \in setting.queries :
            /\ query' = [query EXCEPT !.strict = q.strict, !.bound = q.bound,
                                      !.at = IF q.bound THEN "base" ELSE "answered"]
            /\ found' = IF q.bound THEN found ELSE Response(<<>>, "no_knowledge_base")
        BY <1>3 DEF BeginQuery
    <2>2. query.at = "idle" /\ UNCHANGED logged
        BY <1>3 DEF BeginQuery
    <2>3. logged = <<>> /\ query.status = 0
        BY <2>2 DEF AnswerInv
    <2>4. query'.status = 0
        BY <1>0, <2>1, <2>3
    <2>5. /\ Degraded(found') => found'.chunks = <<>>
          /\ FitsIn(found'.chunks, Stored, setting.cuts)
        BY <1>2, <2>1 DEF AnswerInv
    <2>6. QED
        BY <1>1, <2>2, <2>3, <2>4, <2>5 DEF AnswerInv, Degraded
<1>4. ASSUME NEW response, NEW place \in {"search", "log"},
             query' = [query EXCEPT !.at = place], found' = response, UNCHANGED logged,
             query.at \in {"base", "search"},
             Degraded(response) => response.chunks = <<>>,
             FitsIn(response.chunks, Stored, setting.cuts)
      PROVE  AnswerInv'
    <2>1. logged = <<>> /\ query.status = 0
        BY <1>4 DEF AnswerInv
    <2>2. query'.status = 0
        BY <1>0, <1>4, <2>1
    <2>3. QED
        BY <1>1, <1>4, <2>1, <2>2 DEF AnswerInv, Degraded
<1>5. CASE LookUpBase
    <2>1. CASE base = "ACTIVE"
        <3>1. Degraded(found) => found.chunks = <<>>
            BY DEF AnswerInv
        <3>2. FitsIn(found.chunks, Stored, setting.cuts)
            BY DEF AnswerInv
        <3>3. /\ query.at = "base" /\ query' = [query EXCEPT !.at = "search"]
              /\ UNCHANGED <<found, logged>>
            BY <1>5, <2>1 DEF LookUpBase, Ask
        <3>4. QED
            BY <1>4, <3>1, <3>2, <3>3
    <2>2. CASE base # "ACTIVE"
        <3>1. PICK reason : found' = Response(<<>>, reason)
            BY <1>5, <2>2 DEF LookUpBase, Conclude
        <3>2. /\ query.at = "base" /\ query' = [query EXCEPT !.at = "log"]
              /\ UNCHANGED logged
            BY <1>5, <2>2 DEF LookUpBase, Ask, Conclude
        <3>3. QED
            BY <1>2, <1>4, <3>1, <3>2
    <2>3. QED
        BY <2>1, <2>2
<1>6. CASE QueryDegrades
    <2>1. PICK reason : found' = Response(<<>>, reason)
        BY <1>6 DEF QueryDegrades, Conclude
    <2>2. /\ query.at \in {"base", "search"} /\ query' = [query EXCEPT !.at = "log"]
          /\ UNCHANGED logged
        BY <1>6 DEF QueryDegrades, Ask, Conclude
    <2>3. QED
        BY <1>2, <1>4, <2>1, <2>2
<1>7. CASE Search
    <2>1. PICK hits \in Hits : found' = Response(MapHits(hits), "none")
        BY <1>7 DEF Search, Conclude
    <2>2. /\ query.at \in {"base", "search"} /\ query' = [query EXCEPT !.at = "log"]
          /\ UNCHANGED logged
        BY <1>7 DEF Search, Ask, Conclude
    <2>3. FitsIn(MapHits(hits), Stored, setting.cuts)
        BY <1>0, MapHitsFits DEF Fits
    <2>4. PICK response : response = Response(MapHits(hits), "none")
        OBVIOUS
    <2>5. response.chunks = MapHits(hits) /\ ~Degraded(response)
        BY <2>4 DEF Response, Degraded
    <2>6. QED
        BY <1>4, <2>1, <2>2, <2>3, <2>4, <2>5
<1>8. CASE WriteLog
    <2> DEFINE status == IF query.strict /\ Degraded(found)
                         THEN StrictStatus(found.reason) ELSE 200
    <2>1. UNCHANGED found /\ (logged' = <<>> \/ logged' = <<found>>)
        BY <1>8 DEF WriteLog
    <2>2. status = 200 => ~ (query.strict /\ Degraded(found))
        BY DEF StrictStatus
    <2>3. query' = [query EXCEPT !.at = "answered", !.status = status]
        BY <1>8 DEF WriteLog, Reply
    <2> HIDE DEF status
    <2>4. query'.at = "answered" /\ query'.strict = query.strict /\ query'.status = status
        BY <1>0, <2>3
    <2>5. QED
        BY <1>1, <2>1, <2>2, <2>4 DEF AnswerInv, Degraded
<1>9. QED
    BY <1>3, <1>5, <1>6, <1>7, <1>8 DEF QueryStep

LEMMA NextAnswer == IngestInv /\ RowsInv /\ AnswerInv /\ [Next]_vars => AnswerInv'
<1> SUFFICES ASSUME IngestInv, RowsInv, AnswerInv, [Next]_vars PROVE AnswerInv'
    OBVIOUS
<1>1. CASE UNCHANGED <<query, found, logged>>
    <2>1. UNCHANGED setting /\ Stored \subseteq Stored'
        BY RowsGrow
    <2>2. FitsIn(found.chunks, Stored, setting.cuts)
        BY DEF AnswerInv
    <2>3. FitsIn(found.chunks, Stored', setting.cuts)
        BY <2>1, <2>2, FitsGrow
    <2>4. QED
        BY <1>1, <2>1, <2>3 DEF AnswerInv, Degraded
<1>2. UNCHANGED <<query, found, logged>> \/ QueryStep
    BY DEF Next, vars, asking, Post, RequestStep, CreateOrGet, FindLatestJob, CreateJob,
           Enqueue, EnqueueFails, Replay, RequestFails, WorkerStep, Receive, Proceed,
           ParseFails, StepRaises, SoftTimeLimit, Retry, Acknowledge, LoseWorker,
           HardTimeLimit, CreateBase, DisableBase
<1>3. QED
    BY <1>1, <1>2, QueryAnswers

\* Whatever is found, of whatever rows and while documents are written: a query
\* answers no more than fits into its context and has been indexed, brings
\* nothing when it is degraded, and tells a strict caller so.
THEOREM QueryCorrect == Spec => []QueryAccounted
<1>1. Init => IngestInv /\ RowsInv /\ AnswerInv
    BY InitIngest, InitRows, InitAnswer
<1>2. IngestInv /\ RowsInv /\ AnswerInv /\ [Next]_vars => (IngestInv /\ RowsInv /\ AnswerInv)'
    BY NextIngest, NextRows, NextAnswer
<1>3. AnswerInv => QueryAccounted
    BY DEF AnswerInv, FitsIn, Stored, QueryAccounted
<1>4. QED
    BY <1>1, <1>2, <1>3, PTL DEF Spec

=============================================================================
