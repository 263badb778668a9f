------------------------------ MODULE AgentTurn ------------------------------
(***************************************************************************)
(* One turn of the agent: _run_agent of AgentOrchestrator                  *)
(* (app/runtime/orchestrator.py) drives the Pydantic AI loop of model      *)
(* requests and tool calls, aggregates what the model says into TOKEN      *)
(* events (app/runtime/token_stream.py) and reports the tool calls, which  *)
(* build_agent (app/runtime/agent_factory.py) forwards to the retriever    *)
(* and tool adapters (app/runtime/adapters.py) and ToolRouter              *)
(* (app/tools/router.py) executes and audits.                              *)
(*                                                                         *)
(* The library and the models of the providers are external: a response is *)
(* some text, then some tool calls, which run concurrently.  The built-in  *)
(* mock model searches once and then says something.  Tokens are numbered  *)
(* in the order in which they are streamed, over all requests of the turn. *)
(***************************************************************************)
EXTENDS Integers, Sequences, FiniteSets

CONSTANTS
    MaxTurns,       \* settings.max_turns, the request limit
    MaxTokens,      \* max_tokens of TokenAggregator
    MaxRetries,     \* max_retries of ToolRouter
    Response        \* the responses of the model: tokens and tool calls

ASSUME LimitAssumption == /\ MaxTurns \in Nat \ {0} /\ MaxTokens \in Nat \ {0}
                          /\ MaxRetries \in Nat

Search == "search_knowledge"

RoutedTools == {"calculator", "clock", "web_search"}

Tools == RoutedTools \cup {Search}

\* A response says or calls something.
ASSUME ResponseAssumption ==
    /\ Response \subseteq [text : Nat, calls : Seq(Tools)]
    /\ \A res \in Response : res.text > 0 \/ res.calls # <<>>

VARIABLES
    mock,        \* whether the provider is the mock model
    pc,          \* where the turn is
    quotas,      \* acquisitions of provider quota
    settled,     \* what was settled of them: "nothing", "unknown" or "usage"
    requests,    \* model requests made
    coming,      \* tokens of the response that are not streamed yet
    wanted,      \* the tools the response calls
    tokens,      \* how many tokens were streamed in the turn
    first,       \* aggregator: the first token of the request is out
    buffer,      \* aggregator: tokens held back
    events,      \* what was emitted
    call,        \* the tool calls of the turn, in order
    audit,       \* what was written to tool_call_log, by call
    answer       \* what _run_agent returned

aggregator == <<first, buffer>>
model == <<coming, wanted>>
provider == <<mock, quotas, settled>>
vars == <<pc, provider, requests, model, tokens, aggregator, events, call, audit, answer>>

Labels == {"quota", "request", "stream", "call", "tools", "settle", "done", "limited"}

\* A call is pending until its tool is run, and out when its result was reported.
CallStates == {"pending", "running", "executed", "returned", "out"}

Calls == [tool : Tools, state : CallStates, attempt : 0 .. MaxRetries,
          runs : Nat, status : {"none", "DONE", "ERROR"}, ok : BOOLEAN]

NewCall(tool) ==
    [tool |-> tool, state |-> "pending", attempt |-> 0, runs |-> 0, status |-> "none",
     ok |-> FALSE]

Init ==
    /\ mock \in BOOLEAN
    /\ pc = "quota"
    /\ quotas = 0
    /\ settled = "nothing"
    /\ requests = 0
    /\ coming = 0
    /\ wanted = <<>>
    /\ tokens = 0
    /\ first = FALSE
    /\ buffer = <<>>
    /\ events = <<>>
    /\ call = <<>>
    /\ audit = <<>>
    /\ answer = "none"

Event(type) == [type |-> type, text |-> <<>>, call |-> 0]

Token(text) == [type |-> "TOKEN", text |-> text, call |-> 0]

\* search_knowledge is reported as a retrieval, the others as tool calls.
CallEvent(stage, c) == [type |-> stage, text |-> <<>>, call |-> c]

Emit(batch) == events' = events \o batch

-----------------------------------------------------------------------------
(* Quota and model requests.                                                *)

\* Mutant: the mock is not told from a provider.
AcquireAnyQuota ==
    /\ pc = "quota"
    /\ \/ pc' = "request" /\ quotas' = quotas + 1
       \/ pc' = "limited" /\ UNCHANGED quotas
    /\ UNCHANGED <<mock, settled, requests, model, tokens, aggregator, events, call,
                   audit, answer>>

\* _acquire_provider_quota: once, before the loop; the mock is not asked for.
AcquireQuota ==
    /\ pc = "quota"
    /\ \/ mock /\ pc' = "request" /\ UNCHANGED quotas
       \/ ~mock /\ pc' = "request" /\ quotas' = quotas + 1
       \/ ~mock /\ pc' = "limited" /\ UNCHANGED quotas
    /\ UNCHANGED <<mock, settled, requests, model, tokens, aggregator, events, call, audit, answer>>

\* ERROR ends the stream, and what was streamed is the answer.
AnswerWhatThereIs ==
    /\ Emit(<<Event("ERROR")>>)
    /\ answer' = IF tokens = 0 THEN "empty" ELSE "tokens"
    /\ pc' = "done"

\* The statuses that exceptions carry, and 0 for none.
StatusCodes == {0, 404, 429, 503}

\* map_provider_error: what the provider is to be left alone for.
ProviderRefuses(code) == code >= 429

\* The model, the library or a collaborator raises; a refusal of the provider goes
\* up, or the failure to record it.  Tools at work are cancelled, and what the
\* aggregator holds is not emitted.
TurnBreaks ==
    /\ pc \in {"request", "stream", "call", "tools"}
    /\ \E code \in StatusCodes :
         IF ProviderRefuses(code) THEN pc' = "limited" /\ UNCHANGED <<events, answer>>
                                  ELSE AnswerWhatThereIs
    /\ UNCHANGED <<provider, requests, model, tokens, aggregator, call, audit>>

\* Mutant: one request more than the limit.
MayRequestOnceMore == requests <= MaxTurns

\* UsageLimits(request_limit=max_turns).
MayRequest == requests < MaxTurns

\* UsageLimitExceeded.
LimitReached ==
    /\ pc = "request"
    /\ ~MayRequest
    /\ AnswerWhatThereIs
    /\ UNCHANGED <<provider, requests, model, tokens, aggregator, call, audit>>

\* _mock_stream_function: a search, unless there is a result of a tool; then the
\* answer, in pieces.
MockResponse == IF call = <<>>
                THEN {[text |-> 0, calls |-> <<Search>>]}
                ELSE {res \in Response : res.calls = <<>>}

\* _handle_model_request begins, with a new aggregator.
BeginRequest ==
    /\ pc = "request"
    /\ MayRequest
    /\ requests' = requests + 1
    /\ Emit(IF requests = 0 THEN <<Event("LLM_GENERATING")>> ELSE <<>>)
    /\ first' = FALSE
    /\ buffer' = <<>>
    /\ \E res \in IF mock THEN MockResponse ELSE Response :
         /\ coming' = res.text
         /\ wanted' = res.calls
         /\ pc' = IF res.text > 0 THEN "stream" ELSE "call"
    /\ UNCHANGED <<provider, tokens, call, audit, answer>>

-----------------------------------------------------------------------------
(* TokenAggregator.                                                         *)

\* push: late if the window has passed since the last flush.
Push(token, late) ==
    IF ~first
    THEN /\ first' = TRUE
         /\ Emit(<<Token(<<token>>)>>)
         /\ UNCHANGED buffer
    ELSE LET held == Append(buffer, token)
             full == Len(held) >= MaxTokens \/ late
         IN  /\ UNCHANGED first
             /\ buffer' = IF full THEN <<>> ELSE held
             /\ Emit(IF full THEN <<Token(held)>> ELSE <<>>)

StreamToken ==
    /\ pc = "stream"
    /\ coming > 0
    /\ coming' = coming - 1
    /\ tokens' = tokens + 1
    /\ \E late \in BOOLEAN : Push(tokens', late)
    /\ UNCHANGED <<pc, provider, requests, wanted, call, audit, answer>>

AfterText == IF wanted = <<>> THEN "settle" ELSE "call"

\* Mutant: what is held back when the text ends stays there.
EndStreamUnflushed ==
    /\ pc = "stream"
    /\ coming = 0
    /\ pc' = AfterText
    /\ UNCHANGED <<provider, requests, model, tokens, aggregator, events, call, audit, answer>>

\* The text is over and the tail flushed; without tool calls so is the loop.
EndStream ==
    /\ pc = "stream"
    /\ coming = 0
    /\ Emit(IF buffer = <<>> THEN <<>> ELSE <<Token(buffer)>>)
    /\ buffer' = <<>>
    /\ pc' = AfterText
    /\ UNCHANGED <<provider, requests, model, tokens, first, call, audit, answer>>

\* _extract_usage: the counts that the library has a name for.
Usages == SUBSET {"input", "output"}

\* actual_total_tokens: there is no total but of both counts.
Total(usage) == IF usage = {"input", "output"} THEN "usage" ELSE "unknown"

\* _settle_provider_usage, of what was acquired; if it fails, settled or not, the
\* answer is given up for a refusal.
Settle ==
    /\ pc = "settle"
    /\ \/ /\ quotas = 0
          /\ pc' = "done" /\ answer' = "output"
          /\ UNCHANGED settled
       \/ /\ quotas > 0
          /\ pc' = "done" /\ answer' = "output"
          /\ \E usage \in Usages : settled' = Total(usage)
       \/ /\ quotas > 0
          /\ pc' = "limited" /\ UNCHANGED answer
          /\ \E usage \in Usages : settled' \in {"nothing", Total(usage)}
    /\ UNCHANGED <<mock, quotas, requests, model, tokens, aggregator, events, call, audit>>

-----------------------------------------------------------------------------
(* Tool calls.                                                              *)

Open == {c \in DOMAIN call : call[c].state # "out"}

\* _handle_tool_calls: the start of every call is reported, then they run.
CallTools ==
    LET next == Len(call)
    IN  /\ pc = "call"
        /\ call' = call \o [i \in DOMAIN wanted |-> NewCall(wanted[i])]
        /\ audit' = audit \o [i \in DOMAIN wanted |-> <<>>]
        /\ Emit([i \in DOMAIN wanted |-> CallEvent("STARTED", next + i)])
        /\ pc' = "tools"
        /\ UNCHANGED <<provider, requests, model, tokens, aggregator, answer>>

\* What a step of a call leaves alone.
Elsewhere == UNCHANGED <<pc, provider, requests, model, tokens, aggregator, answer>>

\* Mutant: every tool is given a query.
ArgumentOfAny(tool) == "query"

\* The adapter gives the calculator an expression and the others a query.
ArgumentOf(tool) == IF tool = "calculator" THEN "expression" ELSE "query"

\* The required parameters of the built-in tools.
Required(tool) == CASE tool = "calculator" -> {"expression"}
                    [] tool = "web_search" -> {"query"}
                    [] OTHER -> {}

\* validate_args.
ArgumentsValid(tool) == Required(tool) \subseteq {ArgumentOf(tool)}

\* ToolRouter.route: the tool of the plan step, which is registered.
Routed(tool) == tool \in RoutedTools

\* search_knowledge: RAGQueryService answers or degrades, nothing is audited.
Retrieve(c) ==
    /\ call[c].tool = Search
    /\ call[c].state = "pending"
    /\ call' = [call EXCEPT ![c].state = "returned"]
    /\ UNCHANGED <<events, audit>>
    /\ Elsewhere

\* Invalid arguments are an error with attempt 0, and the tool is not run.
RunTool(c) ==
    /\ Routed(call[c].tool)
    /\ call[c].state = "pending"
    /\ IF ArgumentsValid(call[c].tool)
       THEN call' = [call EXCEPT ![c].state = "running", ![c].runs = @ + 1]
       ELSE call' = [call EXCEPT ![c].state = "executed", ![c].status = "ERROR"]
    /\ UNCHANGED <<events, audit>>
    /\ Elsewhere

\* CalculatorTool.run: safe_eval's value, or why it refuses the expression.
CalculatorAnswers == {TRUE, FALSE}

\* ClockTool.run.
ClockAnswers == {TRUE}

\* MockWebSearchTool.run refuses a blank query.
WebSearchAnswers == {TRUE, FALSE}

\* Whether the tool says "ok".
AnswersOf(tool) == CASE tool = "calculator" -> CalculatorAnswers
                     [] tool = "clock" -> ClockAnswers
                     [] tool = "web_search" -> WebSearchAnswers

\* An answer of the tool, a refusal among them, is a success.
ToolAnswers(c) ==
    /\ call[c].state = "running"
    /\ \E ok \in AnswersOf(call[c].tool) :
         call' = [call EXCEPT ![c].state = "executed", ![c].status = "DONE", ![c].ok = ok]
    /\ UNCHANGED <<events, audit>>
    /\ Elsewhere

\* The tool raises or takes too long: again after a pause, or an error.
ToolFails(c) ==
    /\ call[c].state = "running"
    /\ IF call[c].attempt < MaxRetries
       THEN call' = [call EXCEPT ![c].state = "pending", ![c].attempt = @ + 1]
       ELSE call' = [call EXCEPT ![c].state = "executed", ![c].status = "ERROR"]
    /\ UNCHANGED <<events, audit>>
    /\ Elsewhere

LogRow(c) == [tool |-> call[c].tool, attempt |-> call[c].attempt,
              status |-> call[c].status, ok |-> call[c].ok]

\* _finalize and _write_log: one row, or none if the sink fails.
Finalize(c) ==
    /\ call[c].state = "executed"
    /\ call' = [call EXCEPT ![c].state = "returned"]
    /\ \/ audit' = [audit EXCEPT ![c] = Append(@, LogRow(c))]
       \/ UNCHANGED audit
    /\ UNCHANGED events
    /\ Elsewhere

\* _emit_tool_finished, in the order in which the calls return.
ReportResult(c) ==
    /\ call[c].state = "returned"
    /\ call' = [call EXCEPT ![c].state = "out"]
    /\ Emit(<<CallEvent("FINISHED", c)>>)
    /\ UNCHANGED audit
    /\ Elsewhere

CallStep(c) ==
    \/ Retrieve(c) \/ RunTool(c) \/ ToolAnswers(c) \/ ToolFails(c)
    \/ Finalize(c) \/ ReportResult(c)

\* The next request carries the results to the model.
ToolsReturned ==
    /\ pc = "tools"
    /\ Open = {}
    /\ pc' = "request"
    /\ UNCHANGED <<provider, requests, model, tokens, aggregator, events, call, audit, answer>>

Next ==
    \/ AcquireQuota \/ BeginRequest \/ LimitReached
    \/ StreamToken \/ EndStream \/ Settle
    \/ CallTools \/ ToolsReturned
    \/ pc = "tools" /\ \E c \in DOMAIN call : CallStep(c)
    \/ TurnBreaks

Spec == Init /\ [][Next]_vars

-----------------------------------------------------------------------------
(* Properties.                                                              *)

TypeOK ==
    /\ pc \in Labels
    /\ mock \in BOOLEAN
    /\ quotas \in 0 .. 1
    /\ settled \in {"nothing", "unknown", "usage"}
    /\ requests \in 0 .. MaxTurns
    /\ coming \in Nat
    /\ wanted \in Seq(Tools)
    /\ tokens \in Nat
    /\ first \in BOOLEAN
    /\ \A i \in DOMAIN buffer : buffer[i] \in 1 .. tokens
    /\ \A c \in DOMAIN call : call[c] \in Calls
    /\ DOMAIN audit = DOMAIN call
    /\ answer \in {"none", "empty", "tokens", "output"}

\* The text of the TOKEN events, put together.
Spoken ==
    LET text[i \in 0 .. Len(events)] ==
            IF i = 0 THEN <<>> ELSE text[i - 1] \o events[i].text
    IN  text[Len(events)]

\* docs/API.md: the TOKEN events, put together, are the text.  Whatever the
\* aggregator holds back, for a count, a window or the end of a response,
\* nothing is lost, repeated or out of order; only a stream that breaks owes
\* its listeners an end, of less than max_tokens.
NoTokenLost ==
    /\ Spoken \o buffer = [i \in 1 .. tokens |-> i]
    /\ Len(buffer) < MaxTokens
    /\ buffer # <<>> => pc \in {"stream", "limited"} \/ answer = "tokens"

Times(type, c) == Cardinality({i \in DOMAIN events : events[i].type = type
                                                      /\ events[i].call = c})

\* Tool calls run side by side, time out, are tried again and cancelled: still
\* each is announced once and reported once, never a row of the audit is there
\* twice or says something else than what happened to its call, no call is
\* refused for arguments the adapters chose, and no answer leaves one open.
CallsAccounted ==
    /\ \A c \in DOMAIN call :
         /\ Times("STARTED", c) = 1
         /\ Times("FINISHED", c) = IF call[c].state = "out" THEN 1 ELSE 0
         /\ Len(audit[c]) <= 1
         /\ audit[c] # <<>> => /\ audit[c][1] = LogRow(c)
                              /\ call[c].runs = audit[c][1].attempt + 1
                              /\ \/ audit[c][1].status = "DONE"
                                 \/ audit[c][1].attempt = MaxRetries
                              /\ call[c].state \in {"returned", "out"}
    /\ answer = "output" => Open = {}

\* A provider is called only with a quota granted before, and what it was called
\* for is settled once, when the turn is over: an answer never goes out with the
\* quota unsettled, nor is one settled whose turn broke.  The mock takes neither.
ProviderAccounted ==
    /\ requests > 0 => quotas = IF mock THEN 0 ELSE 1
    /\ settled # "nothing" => quotas = 1 /\ pc \in {"done", "limited"} /\ events # <<>>
    /\ answer = "output" => (settled = "nothing" <=> quotas = 0)
    /\ answer \in {"tokens", "empty"} => settled = "nothing"

-----------------------------------------------------------------------------
(* What the run sees of it.  Orchestrator takes the turn in one step, which  *)
(* answers, degrades or refuses; a refusal is announced by the handler.      *)

Turn == "turn"

Seen == CASE pc = "done" -> "answer" [] pc = "limited" -> "refuse" [] OTHER -> "agent"

Failed == \E i \in DOMAIN events : events[i].type = "ERROR"

Heard == IF Failed \/ pc = "limited" THEN "ERROR" ELSE "none"

Run == INSTANCE Orchestrator WITH
           Environments <- {{"provider"}}, env <- {"provider"},
           pc <- [x \in {Turn} |-> Seen], announced <- [x \in {Turn} |-> Heard],
           status <- [x \in {Turn} |-> "RUNNING"], answers <- [x \in {Turn} |-> 0]

\* However many requests, tokens, tool calls and failures a turn is made of, the run
\* sees one step of Orchestrator: an ERROR is the last thing a turn says, and what
\* comes after it is never the output of the model.
TurnIsOneStep ==
    /\ Seen = "agent" /\ Heard = "none"
    /\ [][ \/ Run!AgentAnswers(Turn, Turn)
           \/ Run!AgentDegrades(Turn, Turn)
           \/ Run!AgentRefused(Turn, Turn) ]_<<Seen, Heard>>

=============================================================================
