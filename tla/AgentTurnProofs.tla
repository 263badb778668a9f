--------------------------- MODULE AgentTurnProofs ---------------------------
(***************************************************************************)
(* What holds of a turn for any limits and any responses of the model.     *)
(***************************************************************************)
EXTENDS AgentTurn, FiniteSetTheorems, WellFoundedInduction, TLAPS

-----------------------------------------------------------------------------
(* Type correctness.                                                        *)

\* What is no report of a tool call.
SilentKinds == {"LLM_GENERATING", "TOKEN", "ERROR"}

EventKinds == SilentKinds \cup {"STARTED", "FINISHED"}

SilentType == [type : SilentKinds, text : Seq(Nat), call : Nat]

EventType == [type : EventKinds, text : Seq(Nat), call : Nat]

\* A step that reports no tool call.
Silently == UNCHANGED events \/ \E batch \in Seq(SilentType) : Emit(batch)

LogRows == [tool : Tools, attempt : 0 .. MaxRetries, status : {"none", "DONE", "ERROR"},
            ok : BOOLEAN]

\* What is emitted, what is called and what is audited are sequences of one shape.
RecordsInv ==
    /\ events \in Seq(EventType)
    /\ call \in Seq(Calls)
    /\ audit \in Seq(Seq(LogRows))
    /\ Len(audit) = Len(call)
    /\ \A c \in DOMAIN call : call[c].state = "running" => Routed(call[c].tool)

\* Everything else that TypeOK says.
ScalarsInv ==
    /\ pc \in Labels
    /\ mock \in BOOLEAN
    /\ quotas \in 0 .. 1
    /\ pc = "quota" => quotas = 0
    /\ settled \in {"nothing", "unknown", "usage"}
    /\ requests \in 0 .. MaxTurns
    /\ coming \in Nat
    /\ wanted \in Seq(Tools)
    /\ tokens \in Nat
    /\ first \in BOOLEAN
    /\ buffer \in Seq(1 .. tokens)
    /\ answer \in {"none", "empty", "tokens", "output"}

TypeInv == RecordsInv /\ ScalarsInv

\* What is emitted are events, and they are added to the end.
LEMMA EmitType ==
    ASSUME RecordsInv, NEW batch \in Seq(EventType), Emit(batch)
    PROVE  /\ events' \in Seq(EventType)
           /\ Len(events') = Len(events) + Len(batch)
BY DEF Emit, RecordsInv

\* What tells of no call is an event, too.
LEMMA SilentEvents == Seq(SilentType) \subseteq Seq(EventType)
<1>1. SilentType \subseteq EventType
  BY DEF SilentType, EventType, EventKinds
<1>2. QED
  BY <1>1

LEMMA SilentEmitType ==
    ASSUME RecordsInv, NEW batch \in Seq(SilentType), Emit(batch)
    PROVE  /\ events' \in Seq(EventType)
           /\ Len(events') = Len(events) + Len(batch)
BY SilentEvents, EmitType

\* One event of any kind, emitted alone.
LEMMA EventTypes ==
    /\ \A type \in SilentKinds : Event(type) \in SilentType
    /\ \A text \in Seq(Nat) : Token(text) \in SilentType
    /\ \A type \in EventKinds, c \in Nat : CallEvent(type, c) \in EventType
<1>1. <<>> \in Seq(Nat) /\ 0 \in Nat
  OBVIOUS
<1>2. \A type \in EventKinds, text \in Seq(Nat), c \in Nat :
         [type |-> type, text |-> text, call |-> c] \in EventType
  BY DEF EventType
<1>0. \A type \in SilentKinds, text \in Seq(Nat), c \in Nat :
         [type |-> type, text |-> text, call |-> c] \in SilentType
  BY DEF SilentType
<1>3. \A type \in SilentKinds : Event(type) \in SilentType
  BY <1>0, <1>1, Zenon DEF Event
<1>4. \A text \in Seq(Nat) : Token(text) \in SilentType
  BY <1>0, <1>1 DEF Token, SilentKinds
<1>5. \A type \in EventKinds, c \in Nat : CallEvent(type, c) \in EventType
  BY <1>1, <1>2, Zenon DEF CallEvent
<1>6. QED
  BY <1>3, <1>4, <1>5

\* A sequence of one element.
LEMMA Singleton ==
    ASSUME NEW S, NEW e \in S
    PROVE  <<e>> \in Seq(S) /\ Len(<<e>>) = 1
OBVIOUS

\* The empty sequence is one of anything.
LEMMA Nothing ==
    ASSUME NEW S
    PROVE  <<>> \in Seq(S) /\ Len(<<>>) = 0
OBVIOUS

\* Sequences put together are one of the same shape, as long as both.
LEMMA Concatenated ==
    ASSUME NEW S, NEW s \in Seq(S), NEW t \in Seq(S)
    PROVE  s \o t \in Seq(S) /\ Len(s \o t) = Len(s) + Len(t)
OBVIOUS

\* What stands where when they are put together.
LEMMA Elements ==
    ASSUME NEW S, NEW s \in Seq(S), NEW t \in Seq(S)
    PROVE  /\ DOMAIN (s \o t) = 1 .. Len(s) + Len(t)
           /\ \A i \in 1 .. Len(s) + Len(t) :
                 (s \o t)[i] = IF i <= Len(s) THEN s[i] ELSE t[i - Len(s)]
OBVIOUS

\* Giving up emits an error and answers with what there is.
LEMMA AnswerType ==
    ASSUME RecordsInv, AnswerWhatThereIs
    PROVE  /\ events' \in Seq(EventType) /\ Len(events') > 0
           /\ answer' \in {"empty", "tokens"} /\ pc' = "done"
           /\ Silently
<1> DEFINE batch == <<Event("ERROR")>>
<1> DEFINE error == Event("ERROR")
<1>0. error \in SilentType
  BY EventTypes DEF SilentKinds
<1>1. batch \in Seq(SilentType) /\ Len(batch) = 1
  <2> HIDE DEF error
  <2>1. <<error>> \in Seq(SilentType) /\ Len(<<error>>) = 1
    BY <1>0, Singleton
  <2>2. QED
    BY <2>1, Zenon DEF error
<1>2. Emit(batch)
  BY DEF AnswerWhatThereIs
<1> HIDE DEF batch
<1>3. events' \in Seq(EventType) /\ Len(events') = Len(events) + 1
  BY <1>1, <1>2, SilentEmitType
<1>4. QED
  BY <1>1, <1>2, <1>3 DEF AnswerWhatThereIs, RecordsInv, Silently

\* The records that steps of a call write are calls again.
LEMMA Written ==
    ASSUME NEW k \in Calls
    PROVE  /\ \A state \in CallStates :
                 LET new == [k EXCEPT !.state = state]
                 IN  new \in Calls /\ new.state = state
           /\ LET new == [k EXCEPT !.state = "running", !.runs = k.runs + 1]
              IN  new \in Calls /\ new.tool = k.tool
           /\ k.attempt < MaxRetries =>
                 LET new == [k EXCEPT !.state = "pending", !.attempt = k.attempt + 1]
                 IN  new \in Calls /\ new.state = "pending"
           /\ LET new == [k EXCEPT !.state = "executed", !.status = "ERROR"]
              IN  new \in Calls /\ new.state = "executed"
           /\ \A ok \in BOOLEAN :
                 LET new == [k EXCEPT !.state = "executed", !.status = "DONE", !.ok = ok]
                 IN  new \in Calls /\ new.state = "executed"
<1>1. \A state \in CallStates :
         /\ [k EXCEPT !.state = state] \in Calls
         /\ [k EXCEPT !.state = state].state = state
  BY DEF Calls
<1>2. k.runs + 1 \in Nat
  BY DEF Calls
<1>3. \A n \in Nat : /\ [k EXCEPT !.state = "running", !.runs = n] \in Calls
                     /\ [k EXCEPT !.state = "running", !.runs = n].tool = k.tool
  BY DEF Calls, CallStates
<1>4. k.attempt < MaxRetries => k.attempt + 1 \in 0 .. MaxRetries
  BY LimitAssumption DEF Calls
<1>5. \A n \in 0 .. MaxRetries :
         /\ [k EXCEPT !.state = "pending", !.attempt = n] \in Calls
         /\ [k EXCEPT !.state = "pending", !.attempt = n].state = "pending"
  BY DEF Calls, CallStates
<1>6. /\ [k EXCEPT !.state = "executed", !.status = "ERROR"] \in Calls
      /\ [k EXCEPT !.state = "executed", !.status = "ERROR"].state = "executed"
  BY DEF Calls, CallStates
<1>7. \A ok \in BOOLEAN :
         /\ [k EXCEPT !.state = "executed", !.status = "DONE", !.ok = ok] \in Calls
         /\ [k EXCEPT !.state = "executed", !.status = "DONE", !.ok = ok].state = "executed"
  BY DEF Calls, CallStates
<1>8. QED
  BY <1>1, <1>2, <1>3, <1>4, <1>5, <1>6, <1>7, Zenon

\* A step of a call writes fields of its record, and maybe a row of the audit or
\* an event.
LEMMA CallStepRecords ==
    ASSUME RecordsInv, NEW c \in DOMAIN call, CallStep(c)
    PROVE  RecordsInv' /\ Len(events') >= Len(events)
<1> USE LimitAssumption
<1>0. /\ call[c] \in Calls /\ c \in Nat /\ c \in DOMAIN audit
      /\ audit[c] \in Seq(LogRows)
  BY DEF RecordsInv
<1> DEFINE Becomes(new) == /\ new \in Calls
                           /\ new.state = "running" => Routed(new.tool)
                           /\ call' = [call EXCEPT ![c] = new]
<1>1. ASSUME NEW new, Becomes(new)
      PROVE  /\ call' \in Seq(Calls) /\ Len(call') = Len(call)
             /\ \A d \in DOMAIN call' : call'[d].state = "running" => Routed(call'[d].tool)
  <2>1. call' \in Seq(Calls) /\ Len(call') = Len(call)
    BY <1>0, <1>1 DEF RecordsInv
  <2>2. \A d \in DOMAIN call' : d \in DOMAIN call /\ call'[d] = IF d = c THEN new ELSE call[d]
    BY <1>0, <1>1, <2>1 DEF RecordsInv
  <2>3. QED
    BY <1>1, <2>1, <2>2 DEF RecordsInv
<1>2. ASSUME NEW new, Becomes(new), UNCHANGED <<events, audit>>
      PROVE  RecordsInv' /\ Len(events') >= Len(events)
  <2>1. /\ call' \in Seq(Calls) /\ Len(call') = Len(call)
        /\ \A d \in DOMAIN call' : call'[d].state = "running" => Routed(call'[d].tool)
    BY <1>1, <1>2
  <2>2. QED
    BY <1>2, <2>1 DEF RecordsInv, Routed
<1>3. CASE Retrieve(c)
  <2> DEFINE new == [call[c] EXCEPT !.state = "returned"]
  <2>1. new \in Calls /\ new.state = "returned"
    BY <1>0, Written, Zenon DEF CallStates
  <2>2. Becomes(new) /\ UNCHANGED <<events, audit>>
    BY <1>3, <2>1 DEF Retrieve
  <2>3. QED
    BY <1>2, <2>2
<1>4. CASE RunTool(c)
  <2> DEFINE begun == [call[c] EXCEPT !.state = "running", !.runs = @ + 1]
             refused == [call[c] EXCEPT !.state = "executed", !.status = "ERROR"]
  <2>1. /\ begun \in Calls /\ begun.tool = call[c].tool
        /\ refused \in Calls /\ refused.state = "executed"
    BY <1>0, Written, Zenon DEF CallStates
  <2>2. UNCHANGED <<events, audit>> /\ (Becomes(begun) \/ Becomes(refused))
    BY <1>4, <2>1 DEF RunTool
  <2>3. QED
    BY <1>2, <2>2
<1>5. CASE ToolAnswers(c)
  <2>1. Routed(call[c].tool)
    BY <1>0, <1>5 DEF ToolAnswers, RecordsInv
  <2>2. AnswersOf(call[c].tool) \subseteq BOOLEAN
    BY <2>1 DEF Routed, RoutedTools, AnswersOf, CalculatorAnswers, ClockAnswers,
                WebSearchAnswers
  <2>3. PICK ok \in BOOLEAN :
           call' = [call EXCEPT ![c].state = "executed", ![c].status = "DONE", ![c].ok = ok]
    BY <1>5, <2>2 DEF ToolAnswers
  <2> DEFINE new == [call[c] EXCEPT !.state = "executed", !.status = "DONE", !.ok = ok]
  <2>4. new \in Calls /\ new.state = "executed"
    BY <1>0, Written, Zenon DEF CallStates
  <2>5. Becomes(new) /\ UNCHANGED <<events, audit>>
    BY <1>5, <2>3, <2>4 DEF ToolAnswers
  <2>6. QED
    BY <1>2, <2>5
<1>6. CASE ToolFails(c)
  <2> DEFINE again == [call[c] EXCEPT !.state = "pending", !.attempt = @ + 1]
             failed == [call[c] EXCEPT !.state = "executed", !.status = "ERROR"]
  <2>1. /\ failed \in Calls /\ failed.state = "executed"
        /\ call[c].attempt < MaxRetries => again \in Calls /\ again.state = "pending"
    BY <1>0, Written, Zenon DEF CallStates
  <2>2. UNCHANGED <<events, audit>> /\ (Becomes(again) \/ Becomes(failed))
    BY <1>6, <2>1 DEF ToolFails
  <2>3. QED
    BY <1>2, <2>2
<1>7. CASE Finalize(c)
  <2> DEFINE new == [call[c] EXCEPT !.state = "returned"]
  <2>1. new \in Calls /\ new.state = "returned"
    BY <1>0, Written, Zenon DEF CallStates
  <2>2. Becomes(new)
    BY <1>7, <2>1 DEF Finalize
  <2>3. LogRow(c) \in LogRows
    BY <1>0 DEF LogRow, LogRows, Calls
  <2>4. Append(audit[c], LogRow(c)) \in Seq(LogRows)
    BY <1>0, <2>3
  <2>5. audit' \in Seq(Seq(LogRows)) /\ Len(audit') = Len(audit)
    <3>1. [audit EXCEPT ![c] = Append(audit[c], LogRow(c))] \in Seq(Seq(LogRows))
      BY <1>0, <2>4 DEF RecordsInv
    <3>2. Len([audit EXCEPT ![c] = Append(audit[c], LogRow(c))]) = Len(audit)
      BY <1>0, <2>4 DEF RecordsInv
    <3>3. QED
      BY <1>7, <3>1, <3>2 DEF Finalize, RecordsInv
  <2>6. /\ call' \in Seq(Calls) /\ Len(call') = Len(call)
        /\ \A d \in DOMAIN call' : call'[d].state = "running" => Routed(call'[d].tool)
    BY <1>1, <2>2
  <2>7. QED
    BY <1>7, <2>5, <2>6 DEF Finalize, RecordsInv, Routed
<1>8. CASE ReportResult(c)
  <2> DEFINE new == [call[c] EXCEPT !.state = "out"]
  <2>1. new \in Calls /\ new.state = "out"
    BY <1>0, Written, Zenon DEF CallStates
  <2>2. Becomes(new)
    BY <1>8, <2>1 DEF ReportResult
  <2>3. CallEvent("FINISHED", c) \in EventType
    BY <1>0, EventTypes DEF EventKinds
  <2>4. PICK batch \in Seq(EventType) : Len(batch) = 1 /\ Emit(batch)
    BY <1>8, <2>3, Singleton DEF ReportResult
  <2>5. events' \in Seq(EventType) /\ Len(events') = Len(events) + 1
    BY <2>4, EmitType
  <2>6. QED
    BY <1>1, <1>8, <2>2, <2>5 DEF ReportResult, RecordsInv, Routed
<1>9. QED
  BY <1>3, <1>4, <1>5, <1>6, <1>7, <1>8 DEF CallStep

\* The calls of a response are announced, and wait.
LEMMA CallToolsRecords ==
    ASSUME TypeInv, CallTools
    PROVE  RecordsInv' /\ Len(events') >= Len(events)
<1> DEFINE announced == [i \in DOMAIN wanted |-> CallEvent("STARTED", Len(call) + i)]
           added == [i \in DOMAIN wanted |-> NewCall(wanted[i])]
           empty == [i \in DOMAIN wanted |-> <<>>]
<1>1. wanted \in Seq(Tools) /\ Len(wanted) \in Nat /\ DOMAIN wanted = 1 .. Len(wanted)
  BY DEF TypeInv, ScalarsInv
<1>2. announced \in Seq(EventType) /\ Len(announced) = Len(wanted)
  <2>1. Len(call) \in Nat
    BY DEF TypeInv, RecordsInv
  <2>2. \A i \in DOMAIN wanted : CallEvent("STARTED", Len(call) + i) \in EventType
    BY <1>1, <2>1, EventTypes DEF EventKinds
  <2>3. announced \in [1 .. Len(wanted) -> EventType]
    BY <1>1, <2>2
  <2>4. QED
    BY <1>1, <2>3
<1>3. added \in Seq(Calls) /\ Len(added) = Len(wanted)
      /\ \A i \in DOMAIN added : added[i].state = "pending"
  <2>1. \A tool \in Tools : NewCall(tool) \in Calls /\ NewCall(tool).state = "pending"
    BY LimitAssumption DEF NewCall, Calls, CallStates
  <2>2. /\ added \in [1 .. Len(wanted) -> Calls]
        /\ \A i \in 1 .. Len(wanted) : added[i].state = "pending"
    BY <1>1, <2>1
  <2>3. QED
    BY <1>1, <2>2
<1>4. empty \in Seq(Seq(LogRows)) /\ Len(empty) = Len(wanted)
  <2>1. <<>> \in Seq(LogRows)
    BY Nothing
  <2>2. empty \in [1 .. Len(wanted) -> Seq(LogRows)]
    BY <1>1, <2>1, Zenon
  <2>3. QED
    BY <1>1, <2>2
<1>5. Emit(announced) /\ call' = call \o added /\ audit' = audit \o empty
  BY DEF CallTools
<1> HIDE DEF announced, added, empty
<1>6. events' \in Seq(EventType) /\ Len(events') >= Len(events)
  BY <1>1, <1>2, <1>5, EmitType DEF TypeInv, RecordsInv
<1>7. call' \in Seq(Calls) /\ audit' \in Seq(Seq(LogRows)) /\ Len(audit') = Len(call')
  <2>1. call' \in Seq(Calls) /\ Len(call') = Len(call) + Len(wanted)
    <3>1. call \in Seq(Calls)
      BY DEF TypeInv, RecordsInv
    <3>2. call \o added \in Seq(Calls) /\ Len(call \o added) = Len(call) + Len(added)
      BY <1>3, <3>1, Concatenated
    <3>3. QED
      BY <1>3, <1>5, <3>2
  <2>2. audit' \in Seq(Seq(LogRows)) /\ Len(audit') = Len(audit) + Len(wanted)
    <3>1. audit \in Seq(Seq(LogRows))
      BY DEF TypeInv, RecordsInv
    <3>2. audit \o empty \in Seq(Seq(LogRows)) /\ Len(audit \o empty) = Len(audit) + Len(empty)
      BY <1>4, <3>1, Concatenated
    <3>3. QED
      BY <1>4, <1>5, <3>2
  <2>3. QED
    BY <2>1, <2>2 DEF TypeInv, RecordsInv
<1>8. ASSUME NEW d \in DOMAIN call', call'[d].state = "running"
      PROVE  Routed(call'[d].tool)
  <2>1. call'[d] = IF d <= Len(call) THEN call[d] ELSE added[d - Len(call)]
    BY <1>3, <1>5, <1>7, <1>8 DEF TypeInv, RecordsInv
  <2>2. d \in 1 .. Len(call) + Len(wanted)
    BY <1>1, <1>3, <1>5, <1>7, <1>8 DEF TypeInv, RecordsInv
  <2>3. CASE d <= Len(call)
    BY <1>8, <2>1, <2>2, <2>3 DEF TypeInv, RecordsInv
  <2>4. CASE d > Len(call)
    <3>1. d - Len(call) \in DOMAIN added
      BY <1>1, <1>3, <2>2, <2>4 DEF TypeInv, RecordsInv
    <3>2. call'[d].state = "pending"
      BY <1>3, <2>1, <2>2, <2>4, <3>1 DEF TypeInv, RecordsInv
    <3>3. QED
      BY <1>8, <3>2
  <2>5. QED
    BY <2>2, <2>3, <2>4 DEF TypeInv, RecordsInv
<1>9. QED
  BY <1>6, <1>7, <1>8 DEF RecordsInv

\* A token is the next one, and goes to the buffer or out with it.
LEMMA StreamRecords ==
    ASSUME TypeInv, StreamToken
    PROVE  RecordsInv' /\ Len(events') >= Len(events) /\ buffer' \in Seq(1 .. tokens')
           /\ Silently
<1>1. /\ tokens \in Nat /\ tokens' = tokens + 1 /\ tokens' \in Nat
      /\ tokens' \in 1 .. tokens' /\ buffer \in Seq(1 .. tokens) /\ buffer \in Seq(1 .. tokens')
      /\ UNCHANGED <<call, audit>>
  BY DEF TypeInv, ScalarsInv, StreamToken
<1>2. PICK late \in BOOLEAN : Push(tokens', late)
  BY DEF StreamToken
<1>3. ASSUME NEW text \in Seq(1 .. tokens')
      PROVE  <<Token(text)>> \in Seq(SilentType) /\ Len(<<Token(text)>>) = 1
  <2>1. text \in Seq(Nat)
    BY <1>1, <1>3
  <2>2. Token(text) \in SilentType
    BY <2>1, EventTypes
  <2>3. QED
    BY <2>2, Singleton, Zenon
<1>4. <<>> \in Seq(SilentType) /\ Len(<<>>) = 0 /\ <<>> \in Seq(1 .. tokens')
  BY Nothing, Zenon
<1>5. <<tokens'>> \in Seq(1 .. tokens') /\ Append(buffer, tokens') \in Seq(1 .. tokens')
  BY <1>1
<1>6. /\ buffer' \in Seq(1 .. tokens')
      /\ \E batch \in Seq(SilentType) : Emit(batch) /\ Len(batch) \in Nat
  <2>1. CASE ~first
    <3>1. buffer' = buffer /\ Emit(<<Token(<<tokens'>>)>>)
      BY <1>2, <2>1 DEF Push
    <3>2. QED
      BY <1>1, <1>3, <1>5, <3>1
  <2>2. CASE first
    <3> DEFINE held == Append(buffer, tokens')
               full == Len(held) >= MaxTokens \/ late
    <3>1. /\ buffer' = IF full THEN <<>> ELSE held
          /\ Emit(IF full THEN <<Token(held)>> ELSE <<>>)
      BY <1>2, <2>2 DEF Push
    <3>2. held \in Seq(1 .. tokens')
      BY <1>5
    <3> HIDE DEF held, full
    <3>3. CASE full
      BY <1>3, <1>4, <3>1, <3>2, <3>3
    <3>4. CASE ~full
      BY <1>4, <3>1, <3>2, <3>4
    <3>5. QED
      BY <3>3, <3>4
  <2>3. QED
    BY <2>1, <2>2
<1>7. PICK batch \in Seq(SilentType) : Emit(batch) /\ Len(batch) \in Nat
  BY <1>6
<1>8. events' \in Seq(EventType) /\ Len(events') >= Len(events)
  BY <1>7, SilentEmitType DEF TypeInv, RecordsInv
<1>9. QED
  BY <1>1, <1>6, <1>7, <1>8 DEF TypeInv, RecordsInv, Routed, Silently

\* What is left of the buffer is the tail of the text.
LEMMA EndStreamRecords ==
    ASSUME TypeInv, EndStream
    PROVE  RecordsInv' /\ Len(events') >= Len(events) /\ buffer' \in Seq(1 .. tokens')
           /\ Silently
<1>1. /\ tokens \in Nat /\ tokens' = tokens /\ buffer \in Seq(1 .. tokens)
      /\ UNCHANGED <<call, audit>> /\ buffer' = <<>>
  BY DEF TypeInv, ScalarsInv, EndStream
<1>2. <<Token(buffer)>> \in Seq(SilentType) /\ Len(<<Token(buffer)>>) = 1
  <2>1. buffer \in Seq(Nat)
    BY <1>1
  <2>2. Token(buffer) \in SilentType
    BY <2>1, EventTypes
  <2>3. QED
    BY <2>2, Singleton, Zenon
<1>3. <<>> \in Seq(SilentType) /\ Len(<<>>) = 0 /\ <<>> \in Seq(1 .. tokens')
  BY Nothing, Zenon
<1>4. PICK batch \in Seq(SilentType) : Emit(batch) /\ Len(batch) \in Nat
  <2>1. Emit(IF buffer = <<>> THEN <<>> ELSE <<Token(buffer)>>)
    BY DEF EndStream
  <2>2. CASE buffer = <<>>
    BY <1>3, <2>1, <2>2
  <2>3. CASE buffer # <<>>
    BY <1>2, <2>1, <2>3
  <2>4. QED
    BY <2>2, <2>3
<1>5. events' \in Seq(EventType) /\ Len(events') >= Len(events)
  BY <1>4, SilentEmitType DEF TypeInv, RecordsInv
<1>6. QED
  BY <1>1, <1>3, <1>4, <1>5 DEF TypeInv, RecordsInv, Routed, Silently

\* The first request announces that the model generates.
LEMMA BeginRequestRecords ==
    ASSUME TypeInv, BeginRequest
    PROVE  RecordsInv' /\ Len(events') >= Len(events) /\ Len(events') >= 1 - requests
           /\ Silently
<1> DEFINE generating == Event("LLM_GENERATING")
<1>1. <<generating>> \in Seq(SilentType) /\ Len(<<generating>>) = 1
  <2>1. generating \in SilentType
    BY EventTypes DEF SilentKinds
  <2> HIDE DEF generating
  <2>2. QED
    BY <2>1, Singleton
<1>2. <<>> \in Seq(SilentType) /\ Len(<<>>) = 0
  BY Nothing, Zenon
<1>3. PICK batch \in Seq(SilentType) : Emit(batch) /\ Len(batch) = IF requests = 0 THEN 1 ELSE 0
  <2>1. Emit(IF requests = 0 THEN <<generating>> ELSE <<>>)
    BY DEF BeginRequest
  <2> HIDE DEF generating
  <2>2. CASE requests = 0
    BY <1>1, <2>1, <2>2
  <2>3. CASE requests # 0
    <3>1. Emit(<<>>)
      BY <2>1, <2>3, Zenon
    <3>2. (IF requests = 0 THEN 1 ELSE 0) = 0
      BY <2>3
    <3>3. QED
      BY <1>2, <3>1, <3>2, Zenon
  <2>4. QED
    BY <2>2, <2>3
<1>4. /\ events' \in Seq(EventType)
      /\ Len(events') = Len(events) + IF requests = 0 THEN 1 ELSE 0
  BY <1>3, SilentEmitType DEF TypeInv
<1>5. UNCHANGED <<call, audit>>
  BY DEF BeginRequest
<1>6. QED
  BY <1>3, <1>4, <1>5 DEF TypeInv, RecordsInv, ScalarsInv, Routed, Silently

\* A response is some tokens and the tools it calls, also one of the mock.
LEMMA ResponseType ==
    ASSUME NEW res \in IF mock THEN MockResponse ELSE Response
    PROVE  res.text \in Nat /\ res.calls \in Seq(Tools)
<1>1. \A r \in Response : r.text \in Nat /\ r.calls \in Seq(Tools)
  BY ResponseAssumption
<1>2. Search \in Tools
  BY DEF Tools
<1>3. <<Search>> \in Seq(Tools)
  <2> HIDE DEF Search
  <2>1. QED
    BY <1>2, Singleton
<1>4. \A r \in MockResponse : r.text \in Nat /\ r.calls \in Seq(Tools)
  <2> DEFINE search == <<Search>>
  <2>1. search \in Seq(Tools)
    BY <1>3
  <2>2. MockResponse = IF call = <<>> THEN {[text |-> 0, calls |-> search]}
                       ELSE {r \in Response : r.calls = <<>>}
    BY DEF MockResponse
  <2> HIDE DEF search
  <2>3. QED
    BY <1>1, <2>1, <2>2
<1>5. QED
  BY <1>1, <1>4

-----------------------------------------------------------------------------
(* The provider's account.                                                  *)

\* A turn that is under way holds its quota, and nothing of it is settled before
\* the end; whoever made a request has said so.
AccountInv ==
    /\ pc \notin {"done", "limited"} =>
          settled = "nothing" /\ answer = "none"
    /\ pc \notin {"quota", "done", "limited"} => quotas = IF mock THEN 0 ELSE 1
    /\ pc = "quota" => requests = 0
    /\ pc \in {"stream", "call", "tools", "settle"} => requests > 0
    /\ requests > 0 => Len(events) > 0 /\ quotas = IF mock THEN 0 ELSE 1
    /\ settled # "nothing" => requests > 0 /\ quotas = 1 /\ pc \in {"done", "limited"}
    /\ answer = "output" => (settled = "nothing" <=> quotas = 0)
    /\ answer \in {"tokens", "empty"} => settled = "nothing"

TurnInv == TypeInv /\ AccountInv

\* The turn begins with nothing said, called or acquired.
LEMMA InitTurn == Init => TurnInv
<1>1. <<>> \in Seq(EventType) /\ <<>> \in Seq(Calls) /\ <<>> \in Seq(Seq(LogRows))
      /\ Len(<<>>) = 0 /\ <<>> \in Seq(Tools) /\ <<>> \in Seq(1 .. 0)
  BY Nothing, Zenon
<1>2. SUFFICES ASSUME Init PROVE TurnInv
  OBVIOUS
<1>3. /\ events \in Seq(EventType) /\ call \in Seq(Calls) /\ audit \in Seq(Seq(LogRows))
      /\ Len(events) = 0 /\ Len(call) = 0 /\ Len(audit) = 0
      /\ wanted \in Seq(Tools) /\ buffer \in Seq(1 .. 0)
  BY <1>1, <1>2, Zenon DEF Init
<1>4. RecordsInv
  BY <1>3 DEF RecordsInv
<1>5. ScalarsInv
  <2>1. tokens = 0
    BY <1>2 DEF Init
  <2>2. buffer \in Seq(1 .. tokens)
    BY <1>3, <2>1, Zenon
  <2>3. /\ pc = "quota" /\ mock \in BOOLEAN /\ quotas = 0 /\ settled = "nothing"
        /\ requests = 0 /\ coming = 0 /\ first = FALSE /\ answer = "none"
    BY <1>2 DEF Init
  <2>4. 0 \in 0 .. MaxTurns /\ 0 \in 0 .. 1 /\ "quota" \in Labels
    BY LimitAssumption DEF Labels
  <2>5. QED
    BY <1>3, <2>1, <2>2, <2>3, <2>4 DEF ScalarsInv
<1>6. AccountInv
  BY <1>2 DEF Init, AccountInv
<1>7. QED
  BY <1>4, <1>5, <1>6 DEF TurnInv, TypeInv

\* Every step keeps the shapes and the account.
LEMMA StepTurn ==
    ASSUME TurnInv, [Next]_vars
    PROVE  TurnInv'
<1> USE DEF TurnInv
<1>0. TypeInv /\ RecordsInv /\ ScalarsInv /\ AccountInv /\ Len(events) \in Nat
      /\ requests \in Nat /\ 0 .. 1 \subseteq Nat
  BY LimitAssumption DEF TypeInv, RecordsInv, ScalarsInv
<1>1. ASSUME UNCHANGED <<events, call, audit>>
      PROVE  RecordsInv' /\ Len(events') >= Len(events)
  BY <1>0, <1>1 DEF RecordsInv, Routed
<1>2. CASE AcquireQuota
  <2>1. ScalarsInv'
    BY <1>0, <1>2 DEF AcquireQuota, ScalarsInv, Labels, aggregator, model
  <2>2. AccountInv'
    BY <1>0, <1>2 DEF AcquireQuota, ScalarsInv, AccountInv
  <2>3. QED
    BY <1>1, <1>2, <2>1, <2>2 DEF AcquireQuota, TypeInv
<1>3. CASE BeginRequest
  <2>1. RecordsInv' /\ Len(events') >= Len(events) /\ Len(events') >= 1 - requests
    BY <1>0, <1>3, BeginRequestRecords
  <2>2. PICK res \in IF mock THEN MockResponse ELSE Response :
           /\ coming' = res.text
           /\ wanted' = res.calls
           /\ pc' = IF res.text > 0 THEN "stream" ELSE "call"
    BY <1>3 DEF BeginRequest
  <2>3. coming' \in Nat /\ wanted' \in Seq(Tools) /\ pc' \in {"stream", "call"}
    BY <2>2, ResponseType
  <2>4. buffer' \in Seq(1 .. tokens')
    BY <1>3, Nothing, Zenon DEF BeginRequest
  <2>5. ScalarsInv'
    <3>1. requests' \in 0 .. MaxTurns
      BY <1>0, <1>3, LimitAssumption DEF BeginRequest, ScalarsInv, MayRequest
    <3>2. UNCHANGED <<mock, quotas, settled, tokens, answer>> /\ first' = FALSE
      BY <1>3 DEF BeginRequest, provider
    <3>3. QED
      BY <1>0, <2>3, <2>4, <3>1, <3>2 DEF ScalarsInv, Labels
  <2>6. AccountInv'
    BY <1>0, <1>3, <2>1, <2>3 DEF BeginRequest, ScalarsInv, AccountInv, provider
  <2>7. QED
    BY <2>1, <2>5, <2>6 DEF TypeInv
<1>4. CASE LimitReached
  <2>1. /\ events' \in Seq(EventType) /\ Len(events') > 0
        /\ answer' \in {"empty", "tokens"} /\ pc' = "done"
    BY <1>0, <1>4, AnswerType DEF LimitReached
  <2>2. RecordsInv'
    BY <1>0, <1>4, <2>1 DEF LimitReached, RecordsInv, Routed
  <2>3. ScalarsInv'
    BY <1>0, <1>4, <2>1 DEF LimitReached, ScalarsInv, Labels, aggregator, model, provider
  <2>4. AccountInv'
    BY <1>0, <1>4, <2>1 DEF LimitReached, ScalarsInv, AccountInv, provider
  <2>5. QED
    BY <2>2, <2>3, <2>4 DEF TypeInv
<1>5. CASE TurnBreaks
  <2>1. \/ AnswerWhatThereIs
        \/ pc' = "limited" /\ UNCHANGED <<events, answer>>
    BY <1>5 DEF TurnBreaks
  <2>2. CASE AnswerWhatThereIs
    <3>1. /\ events' \in Seq(EventType) /\ Len(events') > 0
          /\ answer' \in {"empty", "tokens"} /\ pc' = "done"
      BY <1>0, <2>2, AnswerType
    <3>2. RecordsInv'
      BY <1>0, <1>5, <3>1 DEF TurnBreaks, RecordsInv, Routed
    <3>3. ScalarsInv'
      BY <1>0, <1>5, <3>1 DEF TurnBreaks, ScalarsInv, Labels, aggregator, model, provider
    <3>4. AccountInv'
      BY <1>0, <1>5, <3>1 DEF TurnBreaks, ScalarsInv, AccountInv, provider
    <3>5. QED
      BY <3>2, <3>3, <3>4 DEF TypeInv
  <2>3. CASE pc' = "limited" /\ UNCHANGED <<events, answer>>
    <3>1. RecordsInv'
      BY <1>1, <1>5, <2>3 DEF TurnBreaks
    <3>2. ScalarsInv'
      BY <1>0, <1>5, <2>3 DEF TurnBreaks, ScalarsInv, Labels, aggregator, model, provider
    <3>3. AccountInv'
      BY <1>0, <1>5, <2>3 DEF TurnBreaks, ScalarsInv, AccountInv, provider
    <3>4. QED
      BY <3>1, <3>2, <3>3 DEF TypeInv
  <2>4. QED
    BY <2>1, <2>2, <2>3
<1>6. CASE StreamToken
  <2>1. RecordsInv' /\ Len(events') >= Len(events) /\ buffer' \in Seq(1 .. tokens')
    BY <1>0, <1>6, StreamRecords
  <2>2. first' \in BOOLEAN
    BY <1>0, <1>6 DEF StreamToken, Push, ScalarsInv
  <2>3. ScalarsInv'
    BY <1>0, <1>6, <2>1, <2>2 DEF StreamToken, ScalarsInv, provider
  <2>4. AccountInv'
    BY <1>0, <1>6, <2>1 DEF StreamToken, ScalarsInv, AccountInv, provider
  <2>5. QED
    BY <2>1, <2>3, <2>4 DEF TypeInv
<1>7. CASE EndStream
  <2>1. RecordsInv' /\ Len(events') >= Len(events) /\ buffer' \in Seq(1 .. tokens')
    BY <1>0, <1>7, EndStreamRecords
  <2>2. pc' \in {"settle", "call"}
    BY <1>7 DEF EndStream, AfterText
  <2>3. ScalarsInv'
    BY <1>0, <1>7, <2>1, <2>2 DEF EndStream, ScalarsInv, Labels, provider, model
  <2>4. AccountInv'
    BY <1>0, <1>7, <2>1, <2>2 DEF EndStream, ScalarsInv, AccountInv, provider
  <2>5. QED
    BY <2>1, <2>3, <2>4 DEF TypeInv
<1>8. CASE Settle
  <2>1. \A usage : Total(usage) \in {"usage", "unknown"}
    BY DEF Total
  <2>2. \/ /\ quotas = 0 /\ pc' = "done" /\ answer' = "output" /\ settled' = settled
        \/ /\ quotas > 0 /\ pc' = "done" /\ answer' = "output"
           /\ settled' \in {"usage", "unknown"}
        \/ /\ quotas > 0 /\ pc' = "limited" /\ answer' = answer
           /\ settled' \in {"nothing", "usage", "unknown"}
    BY <1>8, <2>1 DEF Settle
  <2>3. ScalarsInv'
    BY <1>0, <1>8, <2>2 DEF Settle, ScalarsInv, Labels, aggregator, model
  <2>4. AccountInv'
    BY <1>0, <1>8, <2>2 DEF Settle, ScalarsInv, AccountInv
  <2>5. QED
    BY <1>1, <1>8, <2>3, <2>4 DEF Settle, TypeInv
<1>9. CASE CallTools
  <2>1. RecordsInv' /\ Len(events') >= Len(events)
    BY <1>0, <1>9, CallToolsRecords
  <2>2. ScalarsInv'
    BY <1>0, <1>9 DEF CallTools, ScalarsInv, Labels, aggregator, model, provider
  <2>3. AccountInv'
    BY <1>0, <1>9, <2>1 DEF CallTools, ScalarsInv, AccountInv, provider
  <2>4. QED
    BY <2>1, <2>2, <2>3 DEF TypeInv
<1>10. CASE ToolsReturned
  <2>1. ScalarsInv'
    BY <1>0, <1>10 DEF ToolsReturned, ScalarsInv, Labels, aggregator, model, provider
  <2>2. AccountInv'
    BY <1>0, <1>10 DEF ToolsReturned, ScalarsInv, AccountInv, provider
  <2>3. QED
    BY <1>1, <1>10, <2>1, <2>2 DEF ToolsReturned, TypeInv
<1>11. CASE pc = "tools" /\ \E c \in DOMAIN call : CallStep(c)
  <2>1. PICK c \in DOMAIN call : CallStep(c)
    BY <1>11
  <2>2. RecordsInv' /\ Len(events') >= Len(events)
    BY <1>0, <2>1, CallStepRecords
  <2>3. Elsewhere
    BY <2>1 DEF CallStep, Retrieve, RunTool, ToolAnswers, ToolFails, Finalize, ReportResult
  <2>4. ScalarsInv'
    BY <1>0, <2>3 DEF Elsewhere, ScalarsInv, aggregator, model, provider
  <2>5. AccountInv'
    BY <1>0, <2>2, <2>3 DEF Elsewhere, ScalarsInv, AccountInv, provider
  <2>6. QED
    BY <2>2, <2>4, <2>5 DEF TypeInv
<1>12. CASE UNCHANGED vars
  <2>1. ScalarsInv' /\ AccountInv'
    BY <1>0, <1>12 DEF vars, ScalarsInv, AccountInv, aggregator, model, provider
  <2>2. QED
    BY <1>1, <1>12, <2>1 DEF vars, TypeInv
<1>13. QED
  BY <1>2, <1>3, <1>4, <1>5, <1>6, <1>7, <1>8, <1>9, <1>10, <1>11, <1>12 DEF Next

\* The induction over the steps of a turn.
LEMMA TurnCorrect == Spec => []TurnInv
<1>1. Init => TurnInv
  BY InitTurn
<1>2. TurnInv /\ [Next]_vars => TurnInv'
  BY StepTurn
<1>3. QED
  BY <1>1, <1>2, PTL DEF Spec

\* Every variable keeps its type: whatever the model answers, no more requests are
\* made than max_turns, a buffered token is one that was streamed, and every call
\* has its place in the audit (_run_agent).
THEOREM TypeCorrect == Spec => []TypeOK
<1>1. ASSUME TurnInv PROVE TypeOK
  <2>1. \A i \in DOMAIN buffer : buffer[i] \in 1 .. tokens
    BY <1>1 DEF TurnInv, TypeInv, ScalarsInv
  <2>2. \A c \in DOMAIN call : call[c] \in Calls
    BY <1>1 DEF TurnInv, TypeInv, RecordsInv
  <2>3. DOMAIN audit = DOMAIN call
    BY <1>1 DEF TurnInv, TypeInv, RecordsInv
  <2>4. QED
    BY <1>1, <2>1, <2>2, <2>3 DEF TurnInv, TypeInv, ScalarsInv, TypeOK
<1>2. QED
  BY <1>1, TurnCorrect, PTL

\* A provider is called only with a quota granted before, and what it was called
\* for is settled once, when the turn is over (_acquire_provider_quota and
\* _settle_provider_usage around the loop of _run_agent).
THEOREM ProviderCorrect == Spec => []ProviderAccounted
<1>1. ASSUME TurnInv PROVE ProviderAccounted
  <2>1. Len(events) > 0 => events # <<>>
    BY Nothing
  <2>2. QED
    BY <1>1, <2>1 DEF TurnInv, AccountInv, ProviderAccounted
<1>2. QED
  BY <1>1, TurnCorrect, PTL

-----------------------------------------------------------------------------
(* The reports of the tool calls, by their places among the events.          *)

Marks(type, c) == {i \in DOMAIN events : events[i].type = type /\ events[i].call = c}

MarksInv ==
    /\ \A c \in DOMAIN call : \E i : Marks("STARTED", c) = {i}
    /\ \A c \in DOMAIN call : IF call[c].state = "out"
                              THEN \E i : Marks("FINISHED", c) = {i}
                              ELSE Marks("FINISHED", c) = {}
    /\ \A c \in Nat \ DOMAIN call : Marks("STARTED", c) = {} /\ Marks("FINISHED", c) = {}

\* What is emitted adds its own places.
LEMMA EmitMarks ==
    ASSUME RecordsInv, NEW batch \in Seq(EventType), Emit(batch), NEW type, NEW c
    PROVE  Marks(type, c)' =
              Marks(type, c) \cup {i \in Len(events) + 1 .. Len(events) + Len(batch) :
                                     /\ batch[i - Len(events)].type = type
                                     /\ batch[i - Len(events)].call = c}
<1>1. events \in Seq(EventType) /\ Len(events) \in Nat /\ Len(batch) \in Nat
  BY DEF RecordsInv
<1>2. events' = events \o batch /\ DOMAIN events' = 1 .. Len(events) + Len(batch)
  BY <1>1 DEF Emit
<1>3. \A i \in 1 .. Len(events) + Len(batch) :
         events'[i] = IF i <= Len(events) THEN events[i] ELSE batch[i - Len(events)]
  BY <1>1, <1>2
<1>4. DOMAIN events = 1 .. Len(events)
  BY <1>1
<1> DEFINE added == {i \in Len(events) + 1 .. Len(events) + Len(batch) :
                        /\ batch[i - Len(events)].type = type
                        /\ batch[i - Len(events)].call = c}
<1>5. ASSUME NEW i PROVE i \in Marks(type, c)' <=> i \in Marks(type, c) \cup added
  <2>1. i \in Marks(type, c)' <=> /\ i \in 1 .. Len(events) + Len(batch)
                                 /\ events'[i].type = type /\ events'[i].call = c
    BY <1>2 DEF Marks
  <2>2. i \in Marks(type, c) <=> /\ i \in 1 .. Len(events)
                                /\ events[i].type = type /\ events[i].call = c
    BY <1>4 DEF Marks
  <2>3. CASE i \in 1 .. Len(events)
    BY <1>1, <1>3, <2>1, <2>2, <2>3
  <2>4. CASE i \in Len(events) + 1 .. Len(events) + Len(batch)
    <3>1. events'[i] = batch[i - Len(events)]
      BY <1>1, <1>3, <2>4
    <3>2. i \notin 1 .. Len(events) /\ i \in 1 .. Len(events) + Len(batch)
      BY <1>1, <2>4
    <3>3. QED
      BY <2>1, <2>2, <2>4, <3>1, <3>2
  <2>5. CASE i \notin 1 .. Len(events) + Len(batch)
    BY <1>1, <2>1, <2>2, <2>5
  <2>6. i \in 1 .. Len(events) + Len(batch) =>
           i \in 1 .. Len(events) \/ i \in Len(events) + 1 .. Len(events) + Len(batch)
    BY <1>1
  <2>7. QED
    BY <2>3, <2>4, <2>5, <2>6
<1>6. QED
  BY <1>5

\* A silent step adds no place.
LEMMA SilentMarks ==
    ASSUME RecordsInv, Silently
    PROVE  \A c : /\ Marks("STARTED", c)' = Marks("STARTED", c)
                  /\ Marks("FINISHED", c)' = Marks("FINISHED", c)
<1>1. CASE UNCHANGED events
  BY <1>1 DEF Marks
<1>2. ASSUME NEW batch \in Seq(SilentType), Emit(batch), NEW c,
             NEW type \in {"STARTED", "FINISHED"}
      PROVE  Marks(type, c)' = Marks(type, c)
  <2>1. batch \in Seq(EventType) /\ Len(batch) \in Nat /\ Len(events) \in Nat
    BY SilentEvents DEF RecordsInv
  <2>2. \A i \in 1 .. Len(batch) : batch[i].type \in SilentKinds
    <3>1. \A i \in 1 .. Len(batch) : batch[i] \in SilentType
      OBVIOUS
    <3>2. \A e \in SilentType : e.type \in SilentKinds
      BY DEF SilentType
    <3>3. QED
      BY <3>1, <3>2
  <2>3. ASSUME NEW i \in Len(events) + 1 .. Len(events) + Len(batch)
        PROVE  batch[i - Len(events)].type # type
    <3>1. i - Len(events) \in 1 .. Len(batch)
      BY <2>1
    <3>2. QED
      BY <2>2, <3>1 DEF SilentKinds
  <2> DEFINE added == {i \in Len(events) + 1 .. Len(events) + Len(batch) :
                          /\ batch[i - Len(events)].type = type
                          /\ batch[i - Len(events)].call = c}
  <2>4. added = {}
    BY <2>3
  <2>5. Marks(type, c)' = Marks(type, c) \cup added
    BY <1>2, <2>1, EmitMarks
  <2> HIDE DEF added
  <2>6. QED
    BY <2>4, <2>5
<1>3. QED
  BY <1>1, <1>2 DEF Silently

\* A silent step that reports no call out keeps the places.
LEMMA SilentKeepsMarks ==
    ASSUME RecordsInv, MarksInv, Silently, DOMAIN call' = DOMAIN call,
           \A c \in DOMAIN call : call'[c].state = "out" <=> call[c].state = "out"
    PROVE  MarksInv'
<1>1. \A c : /\ Marks("STARTED", c)' = Marks("STARTED", c)
             /\ Marks("FINISHED", c)' = Marks("FINISHED", c)
  BY SilentMarks
<1>2. \A c \in DOMAIN call' : \E i : Marks("STARTED", c)' = {i}
  <2>1. \A c \in DOMAIN call : \E i : Marks("STARTED", c) = {i}
    BY DEF MarksInv
  <2>2. QED
    BY <1>1, <2>1
<1>3. \A c \in DOMAIN call' : IF call'[c].state = "out"
                              THEN \E i : Marks("FINISHED", c)' = {i}
                              ELSE Marks("FINISHED", c)' = {}
  <2>1. \A c \in DOMAIN call : IF call[c].state = "out"
                               THEN \E i : Marks("FINISHED", c) = {i}
                               ELSE Marks("FINISHED", c) = {}
    BY DEF MarksInv
  <2>2. QED
    BY <1>1, <2>1
<1>4. \A c \in Nat \ DOMAIN call' : Marks("STARTED", c)' = {} /\ Marks("FINISHED", c)' = {}
  BY <1>1 DEF MarksInv
<1>5. QED
  BY <1>2, <1>3, <1>4 DEF MarksInv

\* The start of every call of a response is reported once.
LEMMA CallToolsMarks ==
    ASSUME TypeInv, MarksInv, CallTools
    PROVE  MarksInv'
<1> DEFINE announced == [i \in DOMAIN wanted |-> CallEvent("STARTED", Len(call) + i)]
           added == [i \in DOMAIN wanted |-> NewCall(wanted[i])]
<1>1. /\ wanted \in Seq(Tools) /\ Len(wanted) \in Nat /\ DOMAIN wanted = 1 .. Len(wanted)
      /\ Len(call) \in Nat /\ Len(events) \in Nat /\ DOMAIN call = 1 .. Len(call)
      /\ call \in Seq(Calls) /\ RecordsInv
  BY DEF TypeInv, ScalarsInv, RecordsInv
<1>2. announced \in Seq(EventType) /\ Len(announced) = Len(wanted)
  <2>0. \A i \in DOMAIN wanted : Len(call) + i \in Nat
    BY <1>1
  <2>1. \A i \in DOMAIN wanted : CallEvent("STARTED", Len(call) + i) \in EventType
    BY <2>0, EventTypes DEF EventKinds
  <2>2. announced \in [1 .. Len(wanted) -> EventType]
    BY <1>1, <2>1
  <2>3. QED
    BY <1>1, <2>2
<1>3. \A i \in 1 .. Len(wanted) : /\ announced[i].type = "STARTED"
                                 /\ announced[i].call = Len(call) + i
  BY <1>1 DEF CallEvent
<1>4. /\ added \in Seq(Calls) /\ Len(added) = Len(wanted)
      /\ \A i \in 1 .. Len(wanted) : added[i].state = "pending"
  <2>1. \A tool \in Tools : NewCall(tool) \in Calls /\ NewCall(tool).state = "pending"
    BY LimitAssumption DEF NewCall, Calls, CallStates
  <2>2. /\ added \in [1 .. Len(wanted) -> Calls]
        /\ \A i \in 1 .. Len(wanted) : added[i].state = "pending"
    BY <1>1, <2>1
  <2>3. QED
    BY <1>1, <2>2
<1>5. Emit(announced) /\ call' = call \o added
  BY DEF CallTools
<1> HIDE DEF announced, added
<1>6. /\ DOMAIN call' = 1 .. Len(call) + Len(wanted)
      /\ \A c \in 1 .. Len(call) : call'[c] = call[c]
      /\ \A c \in Len(call) + 1 .. Len(call) + Len(wanted) : call'[c] = added[c - Len(call)]
  <2>1. call \in Seq(Calls) /\ added \in Seq(Calls) /\ Len(added) = Len(wanted)
    BY <1>1, <1>4
  <2>2. /\ DOMAIN (call \o added) = 1 .. Len(call) + Len(added)
        /\ \A c \in 1 .. Len(call) + Len(added) :
              (call \o added)[c] = IF c <= Len(call) THEN call[c] ELSE added[c - Len(call)]
    BY <2>1
  <2>3. QED
    BY <1>1, <1>5, <2>1, <2>2
<1> DEFINE new(type, c) == {i \in Len(events) + 1 .. Len(events) + Len(wanted) :
                              /\ announced[i - Len(events)].type = type
                              /\ announced[i - Len(events)].call = c}
<1>7. \A type, c : Marks(type, c)' = Marks(type, c) \cup new(type, c)
  BY <1>1, <1>2, <1>5, EmitMarks
<1>8. \A i \in Len(events) + 1 .. Len(events) + Len(wanted) :
         /\ announced[i - Len(events)].type = "STARTED"
         /\ announced[i - Len(events)].call = Len(call) + (i - Len(events))
  <2>1. \A i \in Len(events) + 1 .. Len(events) + Len(wanted) :
           i - Len(events) \in 1 .. Len(wanted)
    BY <1>1
  <2>2. QED
    BY <1>3, <2>1
<1>9. \A c : new("FINISHED", c) = {}
  BY <1>8
<1>10. \A c : c \notin Len(call) + 1 .. Len(call) + Len(wanted) => new("STARTED", c) = {}
  BY <1>1, <1>8
<1>11. \A c \in Len(call) + 1 .. Len(call) + Len(wanted) :
          new("STARTED", c) = {Len(events) + (c - Len(call))}
  <2> SUFFICES ASSUME NEW c \in Len(call) + 1 .. Len(call) + Len(wanted)
               PROVE  new("STARTED", c) = {Len(events) + (c - Len(call))}
    OBVIOUS
  <2> DEFINE place == Len(events) + (c - Len(call))
  <2>1. place \in Len(events) + 1 .. Len(events) + Len(wanted)
        /\ Len(call) + (place - Len(events)) = c
    BY <1>1
  <2>2. place \in new("STARTED", c)
    BY <1>8, <2>1
  <2>3. ASSUME NEW i \in new("STARTED", c) PROVE i = place
    <3>1. i \in Len(events) + 1 .. Len(events) + Len(wanted)
          /\ announced[i - Len(events)].call = c
      OBVIOUS
    <3>2. Len(call) + (i - Len(events)) = c
      BY <1>8, <3>1
    <3>3. QED
      BY <1>1, <3>1, <3>2
  <2>4. QED
    BY <2>2, <2>3
<1> HIDE DEF new
<1>12. ASSUME NEW c \in 1 .. Len(call)
       PROVE  /\ Marks("STARTED", c)' = Marks("STARTED", c)
              /\ Marks("FINISHED", c)' = Marks("FINISHED", c)
              /\ call'[c] = call[c] /\ c \in DOMAIN call
  <2>1. new("STARTED", c) = {} /\ new("FINISHED", c) = {}
    BY <1>1, <1>9, <1>10
  <2>2. QED
    BY <1>1, <1>6, <1>7, <2>1
<1>13. ASSUME NEW c \in Len(call) + 1 .. Len(call) + Len(wanted)
       PROVE  /\ Marks("STARTED", c)' = {Len(events) + (c - Len(call))}
              /\ Marks("FINISHED", c)' = {}
              /\ call'[c].state = "pending"
  <2>1. c \in Nat \ DOMAIN call /\ c - Len(call) \in 1 .. Len(wanted)
    BY <1>1
  <2>2. Marks("STARTED", c) = {} /\ Marks("FINISHED", c) = {}
    BY <2>1 DEF MarksInv
  <2>3. QED
    BY <1>4, <1>6, <1>7, <1>9, <1>11, <2>1, <2>2
<1>14. ASSUME NEW c \in Nat, c \notin 1 .. Len(call) + Len(wanted)
       PROVE  Marks("STARTED", c)' = {} /\ Marks("FINISHED", c)' = {}
  <2>1. c \in Nat \ DOMAIN call /\ c \notin Len(call) + 1 .. Len(call) + Len(wanted)
    BY <1>1, <1>14
  <2>2. Marks("STARTED", c) = {} /\ Marks("FINISHED", c) = {}
    BY <2>1 DEF MarksInv
  <2>3. QED
    BY <1>7, <1>9, <1>10, <2>1, <2>2
<1>15. \A c \in DOMAIN call' :
          c \in 1 .. Len(call) \/ c \in Len(call) + 1 .. Len(call) + Len(wanted)
  BY <1>1, <1>6
<1>16. \A c \in DOMAIN call' : \E i : Marks("STARTED", c)' = {i}
  <2>1. \A c \in 1 .. Len(call) : \E i : Marks("STARTED", c)' = {i}
    <3>1. \A c \in DOMAIN call : \E i : Marks("STARTED", c) = {i}
      BY DEF MarksInv
    <3>2. QED
      BY <1>12, <3>1
  <2>2. QED
    BY <1>13, <1>15, <2>1
<1>17. \A c \in DOMAIN call' : IF call'[c].state = "out"
                               THEN \E i : Marks("FINISHED", c)' = {i}
                               ELSE Marks("FINISHED", c)' = {}
  BY <1>12, <1>13, <1>15 DEF MarksInv
<1>18. QED
  BY <1>6, <1>14, <1>16, <1>17 DEF MarksInv

-----------------------------------------------------------------------------
(* The tool calls and their rows of the audit.                              *)

\* A call whose tool was run, and its answer or all attempts are there.
Ran(k) == k.runs = k.attempt + 1 /\ (k.status = "DONE" \/ k.attempt = MaxRetries)

RowOf(k) == [tool |-> k.tool, attempt |-> k.attempt, status |-> k.status, ok |-> k.ok]

\* What a call's record tells, and the rows written of it.
Ledger(k, written) ==
    /\ k.state = "pending" => k.runs = k.attempt
    /\ k.state = "running" => k.runs = k.attempt + 1
    /\ k.state = "executed" => Ran(k)
    /\ k.state \in {"pending", "running", "executed"} => written = <<>>
    /\ written # <<>> => written = <<RowOf(k)>> /\ Ran(k)

LedgerInv == \A c \in DOMAIN call : Ledger(call[c], audit[c])

LEMMA LedgerOfOne ==
    ASSUME RecordsInv, LedgerInv, NEW c \in DOMAIN call, NEW k \in Calls,
           call' = [call EXCEPT ![c] = k],
           \/ UNCHANGED audit
           \/ \E w : audit' = [audit EXCEPT ![c] = w],
           Ledger(k, audit'[c])
    PROVE  LedgerInv' /\ DOMAIN call' = DOMAIN call
           /\ call'[c] = k /\ \A d \in DOMAIN call : d # c => call'[d] = call[d]
<1>1. /\ DOMAIN call' = DOMAIN call /\ DOMAIN audit = DOMAIN call
      /\ call'[c] = k /\ \A d \in DOMAIN call : d # c => call'[d] = call[d]
  BY DEF RecordsInv
<1>2. \A d \in DOMAIN call : d # c => audit'[d] = audit[d]
  BY <1>1
<1>3. ASSUME NEW d \in DOMAIN call' PROVE Ledger(call'[d], audit'[d])
  <2>1. CASE d = c
    BY <1>1, <2>1
  <2>2. CASE d # c
    BY <1>1, <1>2, <2>2, Zenon DEF LedgerInv
  <2>3. QED
    BY <2>1, <2>2
<1>4. QED
  BY <1>1, <1>3, Zenon DEF LedgerInv

\* The routed tools get the arguments they require.
LEMMA ArgumentsFit == \A tool \in RoutedTools : ArgumentsValid(tool)
BY DEF RoutedTools, ArgumentsValid, Required, ArgumentOf

LEMMA CallStepLedger ==
    ASSUME RecordsInv, LedgerInv, MarksInv, NEW c \in DOMAIN call, CallStep(c)
    PROVE  LedgerInv' /\ MarksInv'
<1> DEFINE k == call[c]
<1>0. /\ k \in Calls /\ c \in Nat /\ c \in DOMAIN audit /\ Ledger(k, audit[c])
      /\ k.runs \in Nat /\ k.attempt \in Nat /\ MaxRetries \in Nat /\ k.attempt <= MaxRetries
  <2>1. k \in Calls /\ c \in Nat /\ c \in DOMAIN audit
    BY DEF RecordsInv
  <2>2. Ledger(k, audit[c])
    BY Zenon DEF LedgerInv
  <2>3. k.runs \in Nat /\ k.attempt \in 0 .. MaxRetries
    BY <2>1 DEF Calls
  <2>4. QED
    BY <2>1, <2>2, <2>3, LimitAssumption
<1>1. ASSUME NEW new \in Calls, call' = [call EXCEPT ![c] = new],
             Ledger(new, audit'[c]), UNCHANGED events,
             \/ UNCHANGED audit
             \/ \E w : audit' = [audit EXCEPT ![c] = w],
             k.state # "out", new.state # "out"
      PROVE  LedgerInv' /\ MarksInv'
  <2>1. LedgerInv' /\ DOMAIN call' = DOMAIN call
        /\ call'[c] = new /\ \A d \in DOMAIN call : d # c => call'[d] = call[d]
    BY <1>1, LedgerOfOne
  <2>2. \A d \in DOMAIN call : call'[d].state = "out" <=> call[d].state = "out"
    BY <1>1, <2>1
  <2>3. Silently
    BY <1>1 DEF Silently
  <2>4. QED
    BY <2>1, <2>2, <2>3, SilentKeepsMarks
<1>2. CASE Retrieve(c)
  <2> DEFINE new == [k EXCEPT !.state = "returned"]
  <2>1. new \in Calls /\ new.state = "returned"
    BY <1>0, Written, Zenon DEF CallStates
  <2>2. k.state = "pending" /\ call' = [call EXCEPT ![c] = new] /\ UNCHANGED <<events, audit>>
    BY <1>2 DEF Retrieve
  <2>3. audit'[c] = <<>>
    BY <1>0, <2>2 DEF Ledger
  <2>4. Ledger(new, audit'[c])
    BY <2>1, <2>3 DEF Ledger
  <2>5. QED
    BY <1>1, <2>1, <2>2, <2>4
<1>3. CASE RunTool(c)
  <2> DEFINE new == [k EXCEPT !.state = "running", !.runs = k.runs + 1]
  <2>1. new \in Calls /\ new.state = "running" /\ new.runs = k.runs + 1
        /\ new.attempt = k.attempt
    <3>1. new \in Calls
      BY <1>0, Written, Zenon
    <3>2. QED
      BY <1>0, <3>1 DEF Calls
  <2>2. ArgumentsValid(k.tool)
    BY <1>3, ArgumentsFit DEF RunTool, Routed
  <2>3. k.state = "pending" /\ call' = [call EXCEPT ![c] = new] /\ UNCHANGED <<events, audit>>
    BY <1>3, <2>2 DEF RunTool
  <2>4. audit'[c] = <<>> /\ k.runs = k.attempt
    BY <1>0, <2>3 DEF Ledger
  <2>5. Ledger(new, audit'[c])
    BY <2>1, <2>4 DEF Ledger
  <2>6. QED
    BY <1>1, <2>1, <2>3, <2>5
<1>4. CASE ToolAnswers(c)
  <2>1. Routed(k.tool)
    BY <1>0, <1>4 DEF ToolAnswers, RecordsInv
  <2>2. AnswersOf(k.tool) \subseteq BOOLEAN
    BY <2>1 DEF Routed, RoutedTools, AnswersOf, CalculatorAnswers, ClockAnswers,
                WebSearchAnswers
  <2>3. PICK ok \in BOOLEAN :
           call' = [call EXCEPT ![c].state = "executed", ![c].status = "DONE", ![c].ok = ok]
    BY <1>4, <2>2 DEF ToolAnswers
  <2> DEFINE new == [k EXCEPT !.state = "executed", !.status = "DONE", !.ok = ok]
  <2>4. new \in Calls /\ new.state = "executed" /\ new.status = "DONE"
        /\ new.runs = k.runs /\ new.attempt = k.attempt
    <3>1. new \in Calls
      BY <1>0, Written, Zenon
    <3>2. QED
      BY <1>0, <3>1 DEF Calls
  <2>5. k.state = "running" /\ call' = [call EXCEPT ![c] = new] /\ UNCHANGED <<events, audit>>
    BY <1>4, <2>3 DEF ToolAnswers
  <2>6. audit'[c] = <<>> /\ k.runs = k.attempt + 1
    BY <1>0, <2>5 DEF Ledger
  <2>7. Ledger(new, audit'[c])
    BY <2>4, <2>6 DEF Ledger, Ran
  <2>8. QED
    BY <1>1, <2>4, <2>5, <2>7
<1>5. CASE ToolFails(c) /\ k.attempt < MaxRetries
  <2> DEFINE new == [k EXCEPT !.state = "pending", !.attempt = k.attempt + 1]
  <2>1. new \in Calls /\ new.state = "pending" /\ new.attempt = k.attempt + 1
        /\ new.runs = k.runs
    <3>1. new \in Calls
      BY <1>0, <1>5, Written, Zenon
    <3>2. QED
      BY <1>0, <3>1 DEF Calls
  <2>2. k.state = "running" /\ call' = [call EXCEPT ![c] = new] /\ UNCHANGED <<events, audit>>
    BY <1>5 DEF ToolFails
  <2>3. audit'[c] = <<>> /\ k.runs = k.attempt + 1
    BY <1>0, <2>2 DEF Ledger
  <2>4. Ledger(new, audit'[c])
    BY <2>1, <2>3 DEF Ledger
  <2>5. QED
    BY <1>1, <2>1, <2>2, <2>4
<1>6. CASE ToolFails(c) /\ ~(k.attempt < MaxRetries)
  <2> DEFINE new == [k EXCEPT !.state = "executed", !.status = "ERROR"]
  <2>1. new \in Calls /\ new.state = "executed" /\ new.attempt = k.attempt
        /\ new.runs = k.runs
    <3>1. new \in Calls
      BY <1>0, Written, Zenon
    <3>2. QED
      BY <1>0, <3>1 DEF Calls
  <2>2. k.state = "running" /\ call' = [call EXCEPT ![c] = new] /\ UNCHANGED <<events, audit>>
    BY <1>6 DEF ToolFails
  <2>3. audit'[c] = <<>> /\ k.runs = k.attempt + 1 /\ k.attempt = MaxRetries
    BY <1>0, <1>6, <2>2 DEF Ledger
  <2>4. Ledger(new, audit'[c])
    BY <2>1, <2>3 DEF Ledger, Ran
  <2>5. QED
    BY <1>1, <2>1, <2>2, <2>4
<1>7. CASE Finalize(c)
  <2> DEFINE new == [k EXCEPT !.state = "returned"]
  <2>1. new \in Calls /\ new.state = "returned" /\ RowOf(new) = LogRow(c)
        /\ new.runs = k.runs /\ new.attempt = k.attempt /\ new.status = k.status
    <3>1. new \in Calls
      BY <1>0, Written, Zenon DEF CallStates
    <3>2. QED
      BY <1>0, <3>1 DEF Calls, RowOf, LogRow
  <2>2. k.state = "executed" /\ call' = [call EXCEPT ![c] = new] /\ UNCHANGED events
    BY <1>7 DEF Finalize
  <2>3. audit[c] = <<>> /\ Ran(k)
    BY <1>0, <2>2 DEF Ledger
  <2>4. /\ \/ UNCHANGED audit
           \/ audit' = [audit EXCEPT ![c] = Append(audit[c], LogRow(c))]
        /\ audit'[c] = <<>> \/ audit'[c] = <<LogRow(c)>>
    <3>1. Append(<<>>, LogRow(c)) = <<LogRow(c)>>
      OBVIOUS
    <3>2. QED
      BY <1>0, <1>7, <2>3, <3>1 DEF Finalize
  <2>5. Ledger(new, audit'[c])
    BY <2>1, <2>3, <2>4 DEF Ledger, Ran
  <2>6. QED
    BY <1>1, <2>1, <2>2, <2>4, <2>5
<1>8. CASE ReportResult(c)
  <2> DEFINE new == [k EXCEPT !.state = "out"]
             report == CallEvent("FINISHED", c)
  <2>1. new \in Calls /\ new.state = "out" /\ RowOf(new) = RowOf(k)
        /\ new.runs = k.runs /\ new.attempt = k.attempt /\ new.status = k.status
    <3>1. new \in Calls
      BY <1>0, Written, Zenon DEF CallStates
    <3>2. QED
      BY <1>0, <3>1 DEF Calls, RowOf
  <2>2. k.state = "returned" /\ call' = [call EXCEPT ![c] = new] /\ UNCHANGED audit
        /\ Emit(<<report>>)
    BY <1>8 DEF ReportResult
  <2>3. Ledger(new, audit'[c])
    BY <1>0, <2>1, <2>2 DEF Ledger, Ran
  <2>4. LedgerInv' /\ DOMAIN call' = DOMAIN call
        /\ call'[c] = new /\ \A d \in DOMAIN call : d # c => call'[d] = call[d]
    BY <2>1, <2>2, <2>3, LedgerOfOne
  <2>5. report \in EventType /\ report.type = "FINISHED" /\ report.call = c
    <3>1. report \in EventType
      BY <1>0, EventTypes DEF EventKinds
    <3>2. QED
      BY <3>1 DEF CallEvent
  <2> HIDE DEF new, report
  <2>6. Marks("FINISHED", c) = {} /\ \E i : Marks("STARTED", c) = {i}
    BY <2>2 DEF MarksInv
  <2> DEFINE batch == <<report>>
             place == Len(events) + 1
             added(type, d) == {i \in Len(events) + 1 .. Len(events) + Len(batch) :
                                  /\ batch[i - Len(events)].type = type
                                  /\ batch[i - Len(events)].call = d}
  <2>7. batch \in Seq(EventType) /\ Len(batch) = 1 /\ batch[1] = report
        /\ Len(events) \in Nat
    BY <2>5, Singleton DEF RecordsInv
  <2>8. \A type, d : Marks(type, d)' = Marks(type, d) \cup added(type, d)
    BY <2>2, <2>7, EmitMarks
  <2> HIDE DEF batch
  <2>9. \A i \in Len(events) + 1 .. Len(events) + Len(batch) :
           i = place /\ batch[i - Len(events)] = report
    BY <2>7
  <2>10. /\ \A d : added("STARTED", d) = {}
         /\ \A d : d # c => added("FINISHED", d) = {}
    BY <2>5, <2>9
  <2>11. added("FINISHED", c) = {place}
    <3>1. place \in Len(events) + 1 .. Len(events) + Len(batch)
      BY <2>7
    <3>2. place \in added("FINISHED", c)
      BY <2>5, <2>9, <3>1
    <3>3. \A i \in added("FINISHED", c) : i = place
      BY <2>9
    <3>4. QED
      BY <3>2, <3>3
  <2> HIDE DEF added, place
  <2>12. /\ \A d : Marks("STARTED", d)' = Marks("STARTED", d)
         /\ \A d : d # c => Marks("FINISHED", d)' = Marks("FINISHED", d)
         /\ Marks("FINISHED", c)' = {place}
    BY <2>6, <2>8, <2>10, <2>11
  <2>13. \A d \in DOMAIN call' : \E i : Marks("STARTED", d)' = {i}
    <3>1. \A d \in DOMAIN call : \E i : Marks("STARTED", d) = {i}
      BY DEF MarksInv
    <3>2. QED
      BY <2>4, <2>12, <3>1
  <2>14. \A d \in DOMAIN call' : IF call'[d].state = "out"
                                 THEN \E i : Marks("FINISHED", d)' = {i}
                                 ELSE Marks("FINISHED", d)' = {}
    <3>1. \A d \in DOMAIN call : IF call[d].state = "out"
                                 THEN \E i : Marks("FINISHED", d) = {i}
                                 ELSE Marks("FINISHED", d) = {}
      BY DEF MarksInv
    <3>2. \E i : Marks("FINISHED", c)' = {i}
      BY <2>12
    <3>3. call'[c].state = "out"
      BY <2>1, <2>4
    <3>4. ASSUME NEW d \in DOMAIN call, d # c
          PROVE  call'[d] = call[d] /\ Marks("FINISHED", d)' = Marks("FINISHED", d)
      BY <2>4, <2>12, <3>4
    <3>5. QED
      BY <2>4, <3>1, <3>2, <3>3, <3>4, Zenon
  <2>15. \A d \in Nat \ DOMAIN call' :
            Marks("STARTED", d)' = {} /\ Marks("FINISHED", d)' = {}
    BY <2>4, <2>12 DEF MarksInv
  <2>16. QED
    BY <2>4, <2>13, <2>14, <2>15 DEF MarksInv
<1>9. QED
  BY <1>2, <1>3, <1>4, <1>5, <1>6, <1>7, <1>8 DEF CallStep

\* The calls of a response are new, and nothing is written of them.
LEMMA CallToolsLedger ==
    ASSUME TypeInv, LedgerInv, CallTools
    PROVE  LedgerInv'
<1> DEFINE added == [i \in DOMAIN wanted |-> NewCall(wanted[i])]
           empty == [i \in DOMAIN wanted |-> <<>>]
<1>1. /\ wanted \in Seq(Tools) /\ Len(wanted) \in Nat /\ DOMAIN wanted = 1 .. Len(wanted)
      /\ Len(call) \in Nat /\ Len(audit) = Len(call) /\ DOMAIN call = 1 .. Len(call)
      /\ call \in Seq(Calls) /\ audit \in Seq(Seq(LogRows))
  BY DEF TypeInv, ScalarsInv, RecordsInv
<1>2. \A tool \in Tools : NewCall(tool) \in Calls /\ Ledger(NewCall(tool), <<>>)
  BY LimitAssumption DEF NewCall, Calls, CallStates, Ledger
<1>3. /\ added \in Seq(Calls) /\ Len(added) = Len(wanted)
      /\ empty \in Seq(Seq(LogRows)) /\ Len(empty) = Len(wanted)
      /\ \A i \in 1 .. Len(wanted) : Ledger(added[i], empty[i])
  <2>1. <<>> \in Seq(LogRows)
    OBVIOUS
  <2>2. added \in [1 .. Len(wanted) -> Calls] /\ empty \in [1 .. Len(wanted) -> Seq(LogRows)]
    BY <1>1, <1>2, <2>1
  <2>3. \A i \in 1 .. Len(wanted) : added[i] = NewCall(wanted[i]) /\ empty[i] = <<>>
                                   /\ wanted[i] \in Tools
    BY <1>1
  <2> HIDE DEF added, empty
  <2>4. /\ added \in Seq(Calls) /\ Len(added) = Len(wanted)
        /\ empty \in Seq(Seq(LogRows)) /\ Len(empty) = Len(wanted)
    <3>1. added \in Seq(Calls) /\ Len(added) = Len(wanted)
      BY <1>1, <2>2
    <3>2. empty \in Seq(Seq(LogRows)) /\ Len(empty) = Len(wanted)
      <4> DEFINE Rows == Seq(LogRows)
      <4>1. empty \in [1 .. Len(wanted) -> Rows]
        BY <2>2
      <4> HIDE DEF Rows
      <4>2. empty \in Seq(Rows) /\ Len(empty) = Len(wanted)
        BY <1>1, <4>1
      <4>3. QED
        BY <4>2 DEF Rows
    <3>3. QED
      BY <3>1, <3>2
  <2>5. QED
    BY <1>2, <2>3, <2>4, Zenon
<1>4. call' = call \o added /\ audit' = audit \o empty
  BY DEF CallTools
<1> HIDE DEF added, empty
<1>5. /\ DOMAIN call' = 1 .. Len(call) + Len(wanted)
      /\ \A c \in 1 .. Len(call) + Len(wanted) :
            /\ call'[c] = IF c <= Len(call) THEN call[c] ELSE added[c - Len(call)]
            /\ audit'[c] = IF c <= Len(call) THEN audit[c] ELSE empty[c - Len(call)]
  <2>1. added \in Seq(Calls) /\ Len(added) = Len(wanted)
    BY <1>3
  <2>2. empty \in Seq(Seq(LogRows)) /\ Len(empty) = Len(wanted)
    BY <1>3
  <2>3. /\ DOMAIN call' = 1 .. Len(call) + Len(wanted)
        /\ \A c \in 1 .. Len(call) + Len(wanted) :
              call'[c] = IF c <= Len(call) THEN call[c] ELSE added[c - Len(call)]
    <3>1. call \in Seq(Calls)
      BY <1>1
    <3>2. /\ DOMAIN (call \o added) = 1 .. Len(call) + Len(wanted)
          /\ \A c \in 1 .. Len(call) + Len(wanted) :
                (call \o added)[c] = IF c <= Len(call) THEN call[c] ELSE added[c - Len(call)]
      BY <2>1, <3>1, Elements, ZenonT(60)
    <3>3. QED
      BY <1>4, <3>2
  <2>4. \A c \in 1 .. Len(call) + Len(wanted) :
           audit'[c] = IF c <= Len(call) THEN audit[c] ELSE empty[c - Len(call)]
    BY <1>1, <1>4, <2>2, Elements
  <2>5. QED
    BY <2>3, <2>4
<1>6. ASSUME NEW c \in DOMAIN call' PROVE Ledger(call'[c], audit'[c])
  <2>1. CASE c \in 1 .. Len(call)
    <3>1. call'[c] = call[c] /\ audit'[c] = audit[c] /\ c \in DOMAIN call
      BY <1>1, <1>5, <2>1
    <3>2. QED
      BY <3>1, Zenon DEF LedgerInv
  <2>2. CASE c \notin 1 .. Len(call)
    <3>1. /\ c - Len(call) \in 1 .. Len(wanted)
          /\ call'[c] = added[c - Len(call)] /\ audit'[c] = empty[c - Len(call)]
      BY <1>1, <1>5, <2>2
    <3>2. QED
      BY <1>3, <3>1, Zenon
  <2>3. QED
    BY <2>1, <2>2
<1>7. QED
  BY <1>6, Zenon DEF LedgerInv

\* No call is open but while the tools are at work, or when the turn broke.
ClosedInv ==
    /\ pc \in {"quota", "request", "stream", "call", "settle"} => Open = {}
    /\ answer # "none" => pc = "done"
    /\ answer = "output" => Open = {}

CallsInv == MarksInv /\ LedgerInv /\ ClosedInv

LEMMA InitCalls == Init => CallsInv
<1> SUFFICES ASSUME Init PROVE CallsInv
  OBVIOUS
<1>1. call = <<>> /\ events = <<>> /\ DOMAIN call = {} /\ DOMAIN events = {}
  BY DEF Init
<1>2. MarksInv
  BY <1>1 DEF MarksInv, Marks
<1>3. LedgerInv
  BY <1>1 DEF LedgerInv
<1>4. ClosedInv
  BY <1>1 DEF Init, ClosedInv, Open
<1>5. QED
  BY <1>2, <1>3, <1>4 DEF CallsInv

\* A step that is silent and touches no call keeps what is said of the calls.
LEMMA SilentKeepsCalls ==
    ASSUME RecordsInv, MarksInv, LedgerInv, Silently, UNCHANGED <<call, audit>>
    PROVE  MarksInv' /\ LedgerInv' /\ Open' = Open
<1>1. MarksInv'
  BY SilentKeepsMarks
<1>2. LedgerInv'
  BY DEF LedgerInv, Ledger, Ran, RowOf
<1>3. QED
  BY <1>1, <1>2 DEF Open

LEMMA StepCalls ==
    ASSUME TurnInv, CallsInv, [Next]_vars
    PROVE  CallsInv'
<1>0. TypeInv /\ RecordsInv /\ ScalarsInv /\ MarksInv /\ LedgerInv /\ ClosedInv
  BY DEF TurnInv, TypeInv, CallsInv
<1>1. ASSUME UNCHANGED events PROVE Silently
  BY <1>1 DEF Silently
<1>2. ASSUME Silently, UNCHANGED <<call, audit>>
      PROVE  MarksInv' /\ LedgerInv' /\ Open' = Open
  BY <1>0, <1>2, SilentKeepsCalls
<1>3. CASE AcquireQuota
  BY <1>0, <1>1, <1>2, <1>3 DEF AcquireQuota, ClosedInv, CallsInv
<1>4. CASE BeginRequest
  <2>1. Silently
    BY <1>0, <1>4, BeginRequestRecords
  <2>2. pc = "request" /\ pc' \in {"stream", "call"} /\ UNCHANGED <<call, audit, answer>>
    BY <1>4 DEF BeginRequest
  <2>3. QED
    BY <1>0, <1>2, <2>1, <2>2 DEF ClosedInv, CallsInv
<1>5. CASE LimitReached
  <2>1. Silently /\ answer' \in {"empty", "tokens"} /\ pc' = "done"
    BY <1>0, <1>5, AnswerType DEF LimitReached
  <2>2. QED
    BY <1>0, <1>2, <1>5, <2>1 DEF LimitReached, ClosedInv, CallsInv
<1>6. CASE TurnBreaks
  <2>1. /\ pc \in {"request", "stream", "call", "tools"}
        /\ UNCHANGED <<call, audit>> /\ Silently
        /\ \/ pc' = "done" /\ answer' \in {"empty", "tokens"}
           \/ pc' = "limited" /\ UNCHANGED answer
    <3>1. \/ AnswerWhatThereIs
          \/ pc' = "limited" /\ UNCHANGED <<events, answer>>
      BY <1>6 DEF TurnBreaks
    <3>2. QED
      BY <1>0, <1>1, <1>6, <3>1, AnswerType DEF TurnBreaks
  <2>2. QED
    BY <1>0, <1>2, <2>1 DEF ClosedInv, CallsInv
<1>7. CASE StreamToken
  <2>1. Silently
    BY <1>0, <1>7, StreamRecords
  <2>2. pc' = pc /\ UNCHANGED <<call, audit, answer>>
    BY <1>7 DEF StreamToken
  <2>3. QED
    BY <1>0, <1>2, <2>1, <2>2 DEF ClosedInv, CallsInv
<1>8. CASE EndStream
  <2>1. Silently
    BY <1>0, <1>8, EndStreamRecords
  <2>2. /\ pc = "stream" /\ pc' \in {"settle", "call"}
        /\ UNCHANGED <<call, audit, answer>>
    BY <1>8 DEF EndStream, AfterText
  <2>3. QED
    BY <1>0, <1>2, <2>1, <2>2 DEF ClosedInv, CallsInv
<1>9. CASE Settle
  <2>1. /\ pc = "settle" /\ UNCHANGED <<events, call, audit>>
        /\ \/ pc' = "done"
           \/ pc' = "limited" /\ UNCHANGED answer
    BY <1>9 DEF Settle
  <2>2. QED
    BY <1>0, <1>1, <1>2, <2>1 DEF ClosedInv, CallsInv
<1>10. CASE CallTools
  <2>1. MarksInv' /\ LedgerInv'
    BY <1>0, <1>10, CallToolsMarks, CallToolsLedger
  <2>2. pc = "call" /\ pc' = "tools" /\ UNCHANGED answer
    BY <1>10 DEF CallTools
  <2>3. QED
    BY <1>0, <2>1, <2>2 DEF ClosedInv, CallsInv
<1>11. CASE ToolsReturned
  BY <1>0, <1>1, <1>2, <1>11 DEF ToolsReturned, ClosedInv, CallsInv
<1>12. CASE pc = "tools" /\ \E c \in DOMAIN call : CallStep(c)
  <2>1. PICK c \in DOMAIN call : CallStep(c)
    BY <1>12
  <2>2. MarksInv' /\ LedgerInv'
    BY <1>0, <2>1, CallStepLedger
  <2>3. pc' = pc /\ UNCHANGED answer
    BY <2>1 DEF CallStep, Retrieve, RunTool, ToolAnswers, ToolFails, Finalize,
                ReportResult, Elsewhere
  <2>4. QED
    BY <1>0, <1>12, <2>2, <2>3 DEF ClosedInv, CallsInv
<1>13. CASE UNCHANGED vars
  BY <1>0, <1>1, <1>2, <1>13 DEF vars, ClosedInv, CallsInv
<1>14. QED
  BY <1>3, <1>4, <1>5, <1>6, <1>7, <1>8, <1>9, <1>10, <1>11, <1>12, <1>13 DEF Next

\* Each tool call is announced once and reported once, its row of the audit is
\* what happened to it, and no answer leaves one open: whatever the tools do, in
\* whatever order, and however many calls a response makes (_handle_tool_calls
\* and ToolRouter).
THEOREM CallsCorrect == Spec => []CallsAccounted
<1>1. ASSUME TurnInv, CallsInv PROVE CallsAccounted
  <2>0. RecordsInv /\ MarksInv /\ LedgerInv /\ ClosedInv
    BY <1>1 DEF TurnInv, TypeInv, CallsInv
  <2>1. \A type, c : Times(type, c) = Cardinality(Marks(type, c))
    BY DEF Times, Marks
  <2>2. ASSUME NEW c \in DOMAIN call
        PROVE  /\ Times("STARTED", c) = 1
               /\ Times("FINISHED", c) = IF call[c].state = "out" THEN 1 ELSE 0
    <3>1. \A i : Cardinality({i}) = 1
      BY FS_Singleton
    <3>2. \E i : Marks("STARTED", c) = {i}
      BY <2>0 DEF MarksInv
    <3>3. IF call[c].state = "out" THEN \E i : Marks("FINISHED", c) = {i}
                                   ELSE Marks("FINISHED", c) = {}
      BY <2>0 DEF MarksInv
    <3> HIDE DEF Marks
    <3>4. Cardinality({}) = 0
      BY FS_EmptySet
    <3>5. QED
      BY <2>1, <3>1, <3>2, <3>3, <3>4, Zenon
  <2>3. ASSUME NEW c \in DOMAIN call
        PROVE  /\ Len(audit[c]) <= 1
               /\ audit[c] # <<>> => /\ audit[c][1] = LogRow(c)
                                     /\ call[c].runs = audit[c][1].attempt + 1
                                     /\ \/ audit[c][1].status = "DONE"
                                        \/ audit[c][1].attempt = MaxRetries
                                     /\ call[c].state \in {"returned", "out"}
    <3>0. call[c] \in Calls
      BY <2>0 DEF RecordsInv
    <3>1. call[c] \in Calls /\ call[c].state \in CallStates
      BY <3>0 DEF Calls
    <3>2. Ledger(call[c], audit[c])
      BY <2>0, Zenon DEF LedgerInv
    <3>3. RowOf(call[c]) = LogRow(c)
      BY DEF RowOf, LogRow
    <3>4. CASE audit[c] = <<>>
      BY <3>4
    <3>5. CASE audit[c] # <<>>
      <4>1. audit[c] = <<LogRow(c)>> /\ Ran(call[c])
        BY <3>2, <3>3, <3>5 DEF Ledger
      <4>2. Len(audit[c]) = 1 /\ audit[c][1] = LogRow(c)
        BY <4>1
      <4>3. call[c].state \in {"returned", "out"}
        BY <3>1, <3>2, <3>5 DEF Ledger, CallStates
      <4>4. LogRow(c).attempt = call[c].attempt /\ LogRow(c).status = call[c].status
        BY DEF LogRow
      <4>5. QED
        BY <4>1, <4>2, <4>3, <4>4 DEF Ran
    <3>6. QED
      BY <3>4, <3>5
  <2>4. answer = "output" => Open = {}
    BY <2>0 DEF ClosedInv
  <2>5. QED
    BY <2>2, <2>3, <2>4 DEF CallsAccounted
<1>2. Init => CallsInv
  BY InitCalls
<1>3. TurnInv /\ CallsInv /\ [Next]_vars => CallsInv'
  BY StepCalls
<1>4. QED
  BY <1>1, <1>2, <1>3, TurnCorrect, PTL DEF Spec

-----------------------------------------------------------------------------
(* Induction and folds.  The induction theorems of the library take a       *)
(* predicate, which the provers cannot instantiate; that the order of the   *)
(* naturals is well founded is a fact about sets.                           *)

\* A set of numbers with anything in it has a least member.
LEMMA LeastMember ==
    ASSUME NEW S \in SUBSET Nat, S # {}
    PROVE  \E m \in S : \A n \in S : m <= n
<1>1. PICK m \in S : \A n \in S : <<n, m>> \notin OpToRel(<, Nat)
  BY NatLessThanWellFounded, WFMin, Zenon
<1>2. \A n \in S : ~ (n < m)
  BY <1>1, Zenon DEF OpToRel
<1>3. QED
  BY <1>2

\* Induction, for a set in the place of a predicate.
LEMMA SetInduction ==
    ASSUME NEW S, 0 \in S, \A n \in Nat : n \in S => n + 1 \in S
    PROVE  Nat \subseteq S
<1> SUFFICES ASSUME Nat \ S # {} PROVE FALSE
  OBVIOUS
<1>1. PICK m \in Nat \ S : \A n \in Nat \ S : m <= n
  BY LeastMember
<1>2. m # 0 /\ m - 1 \in Nat
  BY <1>1
<1>3. m - 1 \in S
  BY <1>1, <1>2
<1>4. QED
  BY <1>1, <1>2, <1>3

\* What a recursive function over 0 .. N satisfies: it begins with a, and goes
\* from each place to the next as D says.
Folded(f, N, a, D) == f = [i \in 0 .. N |-> IF i = 0 THEN a ELSE D[i][f[i - 1]]]

LEMMA FoldExists ==
    ASSUME NEW N \in Nat, NEW S, NEW a \in S, NEW D \in [1 .. N -> [S -> S]]
    PROVE  \E f \in [0 .. N -> S] : Folded(f, N, a, D)
<1> DEFINE P == {n \in Nat : n <= N => \E f \in [0 .. n -> S] : Folded(f, n, a, D)}
<1>1. 0 \in P
  <2>1. /\ [i \in 0 .. 0 |-> a] \in [0 .. 0 -> S]
        /\ Folded([i \in 0 .. 0 |-> a], 0, a, D)
    BY DEF Folded
  <2>2. QED
    BY <2>1
<1>2. ASSUME NEW n \in Nat, n \in P PROVE n + 1 \in P
  <2> SUFFICES ASSUME n + 1 <= N
               PROVE  \E f \in [0 .. n + 1 -> S] : Folded(f, n + 1, a, D)
    OBVIOUS
  <2>1. PICK f \in [0 .. n -> S] : Folded(f, n, a, D)
    BY <1>2
  <2> DEFINE g == [i \in 0 .. n + 1 |-> IF i = n + 1 THEN D[n + 1][f[n]] ELSE f[i]]
  <2>2. f[n] \in S /\ D[n + 1][f[n]] \in S
    OBVIOUS
  <2>3. g \in [0 .. n + 1 -> S]
    BY <2>2
  <2>4. \A i \in 0 .. n : f[i] = IF i = 0 THEN a ELSE D[i][f[i - 1]]
    BY <2>1, Zenon DEF Folded
  <2>5. \A i \in 0 .. n + 1 : g[i] = IF i = 0 THEN a ELSE D[i][g[i - 1]]
    BY <2>4
  <2>6. Folded(g, n + 1, a, D)
    BY <2>3, <2>5 DEF Folded
  <2>7. QED
    BY <2>3, <2>6
<1> HIDE DEF P
<1>3. Nat \subseteq P
  BY <1>1, <1>2, SetInduction
<1>4. QED
  BY <1>3 DEF P

LEMMA FoldUnique ==
    ASSUME NEW N \in Nat, NEW a, NEW D, NEW f, NEW g,
           Folded(f, N, a, D), Folded(g, N, a, D)
    PROVE  f = g
<1> DEFINE P == {i \in Nat : i \in 0 .. N => f[i] = g[i]}
<1>0. /\ \A i \in 0 .. N : f[i] = IF i = 0 THEN a ELSE D[i][f[i - 1]]
      /\ \A i \in 0 .. N : g[i] = IF i = 0 THEN a ELSE D[i][g[i - 1]]
  BY Zenon DEF Folded
<1>1. 0 \in P
  BY <1>0
<1>2. \A n \in Nat : n \in P => n + 1 \in P
  BY <1>0
<1> HIDE DEF P
<1>3. Nat \subseteq P
  BY <1>1, <1>2, SetInduction
<1>4. \A i \in 0 .. N : f[i] = g[i]
  BY <1>3 DEF P
<1>5. QED
  BY <1>4 DEF Folded

-----------------------------------------------------------------------------
(* The text of the events.                                                  *)

\* Spoken, of any sequence of events.
TextOf(evs) ==
    LET text[i \in 0 .. Len(evs)] ==
            IF i = 0 THEN <<>> ELSE text[i - 1] \o evs[i].text
    IN  text[Len(evs)]

\* The texts of the first events, for each number of them.
Prefixes(f, evs) ==
    f = [i \in 0 .. Len(evs) |-> IF i = 0 THEN <<>> ELSE f[i - 1] \o evs[i].text]

LEMMA PrefixesUnique ==
    ASSUME NEW evs \in Seq(EventType), NEW f, NEW g, Prefixes(f, evs), Prefixes(g, evs)
    PROVE  f = g
<1> DEFINE P == {i \in Nat : i \in 0 .. Len(evs) => f[i] = g[i]}
<1>0. Len(evs) \in Nat
  OBVIOUS
<1>1. /\ \A i \in 0 .. Len(evs) : f[i] = IF i = 0 THEN <<>> ELSE f[i - 1] \o evs[i].text
      /\ \A i \in 0 .. Len(evs) : g[i] = IF i = 0 THEN <<>> ELSE g[i - 1] \o evs[i].text
  BY Zenon DEF Prefixes
<1>2. 0 \in P
  BY <1>1
<1>3. \A n \in Nat : n \in P => n + 1 \in P
  BY <1>0, <1>1
<1> HIDE DEF P
<1>4. Nat \subseteq P
  BY <1>2, <1>3, SetInduction
<1>5. \A i \in 0 .. Len(evs) : f[i] = g[i]
  BY <1>0, <1>4 DEF P
<1>6. QED
  BY <1>5 DEF Prefixes

LEMMA PrefixesExist ==
    ASSUME NEW evs \in Seq(EventType)
    PROVE  \E f \in [0 .. Len(evs) -> Seq(Nat)] : Prefixes(f, evs)
<1> DEFINE D == [i \in 1 .. Len(evs) |-> [text \in Seq(Nat) |-> text \o evs[i].text]]
<1>0. Len(evs) \in Nat /\ <<>> \in Seq(Nat)
  OBVIOUS
<1>1. \A i \in 1 .. Len(evs) : evs[i].text \in Seq(Nat)
  <2>1. \A i \in 1 .. Len(evs) : evs[i] \in EventType
    OBVIOUS
  <2>2. QED
    BY <2>1 DEF EventType
<1>2. D \in [1 .. Len(evs) -> [Seq(Nat) -> Seq(Nat)]]
  BY <1>1
<1>3. PICK f \in [0 .. Len(evs) -> Seq(Nat)] : Folded(f, Len(evs), <<>>, D)
  BY <1>0, <1>2, FoldExists
<1>4. \A i \in 0 .. Len(evs) : f[i] = IF i = 0 THEN <<>> ELSE D[i][f[i - 1]]
  BY <1>3, Zenon DEF Folded
<1>5. \A i \in 0 .. Len(evs) : f[i] = IF i = 0 THEN <<>> ELSE f[i - 1] \o evs[i].text
  <2>1. ASSUME NEW i \in 0 .. Len(evs), i # 0
        PROVE  D[i][f[i - 1]] = f[i - 1] \o evs[i].text
    <3>1. i \in 1 .. Len(evs) /\ i - 1 \in 0 .. Len(evs)
      BY <1>0, <2>1
    <3>2. f[i - 1] \in Seq(Nat)
      BY <3>1
    <3>3. QED
      BY <3>1, <3>2
  <2> HIDE DEF D
  <2>2. QED
    BY <1>4, <2>1
<1>6. Prefixes(f, evs)
  BY <1>5 DEF Prefixes
<1>7. QED
  BY <1>6

\* What the recursive function computes is the last of them.
LEMMA TextIsLast ==
    ASSUME NEW evs \in Seq(EventType), NEW f, Prefixes(f, evs)
    PROVE  TextOf(evs) = f[Len(evs)]
<1> DEFINE P(g) == Prefixes(g, evs)
<1>1. P(f)
  OBVIOUS
<1> HIDE DEF P
<1>2. P(CHOOSE g : P(g))
  BY <1>1, Zenon
<1>3. (CHOOSE g : P(g)) = f
  BY <1>1, <1>2, PrefixesUnique DEF P
<1>4. TextOf(evs) = (CHOOSE g : P(g))[Len(evs)]
  BY Zenon DEF TextOf, P, Prefixes
<1>5. QED
  BY <1>3, <1>4, Zenon

\* Events added at the end add their texts, one after the other.
LEMMA TextGrows ==
    ASSUME NEW evs \in Seq(EventType), NEW batch \in Seq(EventType)
    PROVE  \E f \in [0 .. Len(evs) + Len(batch) -> Seq(Nat)] :
              /\ f[Len(evs)] = TextOf(evs)
              /\ f[Len(evs) + Len(batch)] = TextOf(evs \o batch)
              /\ \A k \in 1 .. Len(batch) :
                    f[Len(evs) + k] = f[Len(evs) + k - 1] \o batch[k].text
<1> DEFINE both == evs \o batch
<1>1. /\ both \in Seq(EventType) /\ Len(both) = Len(evs) + Len(batch)
      /\ Len(evs) \in Nat /\ Len(batch) \in Nat
  BY Concatenated
<1>2. /\ \A i \in 1 .. Len(evs) : both[i] = evs[i]
      /\ \A k \in 1 .. Len(batch) : both[Len(evs) + k] = batch[k]
  BY Elements
<1> HIDE DEF both
<1>3. PICK f \in [0 .. Len(both) -> Seq(Nat)] : Prefixes(f, both)
  BY <1>1, PrefixesExist
<1>4. \A i \in 0 .. Len(both) : f[i] = IF i = 0 THEN <<>> ELSE f[i - 1] \o both[i].text
  BY <1>3, Zenon DEF Prefixes
<1> DEFINE short == [i \in 0 .. Len(evs) |-> f[i]]
<1>5. Prefixes(short, evs)
  <2>1. \A i \in 0 .. Len(evs) :
           short[i] = IF i = 0 THEN <<>> ELSE short[i - 1] \o evs[i].text
    <3> SUFFICES ASSUME NEW i \in 0 .. Len(evs)
                 PROVE  short[i] = IF i = 0 THEN <<>> ELSE short[i - 1] \o evs[i].text
      OBVIOUS
    <3>1. i \in 0 .. Len(both) /\ short[i] = f[i]
      BY <1>1
    <3>2. f[i] = IF i = 0 THEN <<>> ELSE f[i - 1] \o both[i].text
      BY <1>4, <3>1
    <3>3. i # 0 => both[i] = evs[i] /\ short[i - 1] = f[i - 1]
      BY <1>1, <1>2
    <3>4. QED
      BY <3>1, <3>2, <3>3, Zenon
  <2>2. QED
    BY <2>1 DEF Prefixes
<1>6. TextOf(evs) = f[Len(evs)]
  <2>1. short[Len(evs)] = f[Len(evs)]
    BY <1>1
  <2> HIDE DEF short
  <2>2. QED
    BY <1>5, <2>1, TextIsLast
<1>7. TextOf(both) = f[Len(evs) + Len(batch)]
  BY <1>1, <1>3, TextIsLast
<1>8. \A k \in 1 .. Len(batch) : f[Len(evs) + k] = f[Len(evs) + k - 1] \o batch[k].text
  <2> SUFFICES ASSUME NEW k \in 1 .. Len(batch)
               PROVE  f[Len(evs) + k] = f[Len(evs) + k - 1] \o batch[k].text
    OBVIOUS
  <2>0. \A i \in 1 .. Len(both) : f[i] = f[i - 1] \o both[i].text
    <3>1. \A i \in 1 .. Len(both) : i \in 0 .. Len(both) /\ i # 0
      BY <1>1
    <3>2. QED
      BY <1>4, <3>1, Zenon
  <2>1. PICK i \in 1 .. Len(both) : i = Len(evs) + k
    BY <1>1
  <2>2. f[i] = f[i - 1] \o both[i].text
    BY <2>0, Zenon
  <2>3. both[i] = batch[k]
    BY <1>2, <2>1
  <2>4. i - 1 = Len(evs) + k - 1
    BY <1>1, <2>1
  <2>5. QED
    BY <2>1, <2>2, <2>3, <2>4, Zenon
<1>9. QED
  BY <1>1, <1>6, <1>7, <1>8 DEF both

LEMMA TextOfNothing == TextOf(<<>>) = <<>>
<1> DEFINE f == [i \in 0 .. 0 |-> <<>>]
<1>1. <<>> \in Seq(EventType) /\ Len(<<>>) = 0
  BY Nothing
<1>2. Prefixes(f, <<>>)
  BY DEF Prefixes
<1>3. TextOf(<<>>) = f[Len(<<>>)]
  BY <1>1, <1>2, TextIsLast
<1>4. QED
  BY <1>1, <1>3

\* One event adds its text.
LEMMA TextOfOneMore ==
    ASSUME NEW evs \in Seq(EventType), NEW e \in EventType
    PROVE  /\ TextOf(evs) \in Seq(Nat)
           /\ TextOf(evs \o <<e>>) = TextOf(evs) \o e.text
<1> DEFINE batch == <<e>>
<1>1. batch \in Seq(EventType) /\ Len(batch) = 1 /\ batch[1] = e /\ Len(evs) \in Nat
  BY Singleton
<1> HIDE DEF batch
<1>2. PICK f \in [0 .. Len(evs) + Len(batch) -> Seq(Nat)] :
         /\ f[Len(evs)] = TextOf(evs)
         /\ f[Len(evs) + Len(batch)] = TextOf(evs \o batch)
         /\ \A k \in 1 .. Len(batch) :
               f[Len(evs) + k] = f[Len(evs) + k - 1] \o batch[k].text
  BY <1>1, TextGrows
<1>3. f[Len(evs) + 1] = f[Len(evs) + 1 - 1] \o e.text
  <2>1. 1 \in 1 .. Len(batch)
    BY <1>1
  <2>2. QED
    BY <1>1, <1>2, <2>1, Zenon
<1>4. f[Len(evs)] \in Seq(Nat)
  BY <1>1
<1>5. Len(evs) + 1 - 1 = Len(evs)
  BY <1>1
<1>6. QED
  BY <1>1, <1>2, <1>3, <1>4, <1>5, Zenon DEF batch

\* Events without a text add none.
LEMMA TextOfSilence ==
    ASSUME NEW evs \in Seq(EventType), NEW batch \in Seq(EventType),
           \A k \in 1 .. Len(batch) : batch[k].text = <<>>
    PROVE  TextOf(evs \o batch) = TextOf(evs)
<1>1. PICK f \in [0 .. Len(evs) + Len(batch) -> Seq(Nat)] :
         /\ f[Len(evs)] = TextOf(evs)
         /\ f[Len(evs) + Len(batch)] = TextOf(evs \o batch)
         /\ \A k \in 1 .. Len(batch) :
               f[Len(evs) + k] = f[Len(evs) + k - 1] \o batch[k].text
  BY TextGrows
<1>2. Len(evs) \in Nat /\ Len(batch) \in Nat
  OBVIOUS
<1> DEFINE P == {k \in Nat : k <= Len(batch) => f[Len(evs) + k] = f[Len(evs)]}
<1>3. 0 \in P
  BY <1>2
<1>4. ASSUME NEW k \in Nat, k \in P PROVE k + 1 \in P
  <2> SUFFICES ASSUME k + 1 <= Len(batch) PROVE f[Len(evs) + (k + 1)] = f[Len(evs)]
    OBVIOUS
  <2>1. f[Len(evs) + k] = f[Len(evs)]
    BY <1>2, <1>4
  <2>2. f[Len(evs) + (k + 1)] = f[Len(evs) + (k + 1) - 1] \o <<>>
    <3>1. k + 1 \in 1 .. Len(batch) /\ batch[k + 1].text = <<>>
      BY <1>2
    <3>2. QED
      BY <1>1, <3>1, Zenon
  <2>3. Len(evs) + (k + 1) - 1 = Len(evs) + k /\ f[Len(evs) + k] \in Seq(Nat)
    BY <1>2
  <2>4. QED
    BY <2>1, <2>2, <2>3
<1> HIDE DEF P
<1>5. Nat \subseteq P
  BY <1>3, <1>4, SetInduction
<1>6. f[Len(evs) + Len(batch)] = f[Len(evs)]
  BY <1>2, <1>5 DEF P
<1>7. QED
  BY <1>1, <1>6

-----------------------------------------------------------------------------
(* The tokens.                                                              *)

Counted(n) == [i \in 1 .. n |-> i]

\* The text that went out and what is held back are the tokens, in order; a new
\* aggregator holds nothing back, and it is not done with what it holds before
\* the text of the response ends.
TokensInv ==
    /\ TextOf(events) \o buffer = Counted(tokens)
    /\ Len(buffer) < MaxTokens
    /\ buffer # <<>> => pc \in {"stream", "limited"} \/ answer = "tokens"
    /\ ~first => buffer = <<>>

\* What is said with no words.
LEMMA Wordless ==
    ASSUME RecordsInv, NEW batch \in Seq(EventType),
           \A k \in 1 .. Len(batch) : batch[k].text = <<>>,
           Emit(batch)
    PROVE  TextOf(events') = TextOf(events)
BY TextOfSilence DEF RecordsInv, Emit

LEMMA WordlessOne ==
    ASSUME RecordsInv, NEW e \in EventType, e.text = <<>>, Emit(<<e>>)
    PROVE  TextOf(events') = TextOf(events)
<1> DEFINE batch == <<e>>
<1>1. batch \in Seq(EventType) /\ Len(batch) = 1 /\ batch[1] = e
  BY Singleton
<1>2. Emit(batch)
  OBVIOUS
<1> HIDE DEF batch
<1>3. QED
  BY <1>1, <1>2, Wordless

LEMMA WordlessEvents ==
    /\ \A type \in SilentKinds : Event(type) \in EventType /\ Event(type).text = <<>>
    /\ \A stage \in {"STARTED", "FINISHED"}, c \in Nat :
          CallEvent(stage, c) \in EventType /\ CallEvent(stage, c).text = <<>>
<1>1. SilentType \subseteq EventType
  BY DEF SilentType, EventType, EventKinds
<1>2. \A type \in SilentKinds : Event(type) \in EventType
  BY <1>1, EventTypes
<1>3. \A stage \in {"STARTED", "FINISHED"}, c \in Nat : CallEvent(stage, c) \in EventType
  BY EventTypes DEF EventKinds
<1>4. /\ \A type : Event(type).text = <<>>
      /\ \A stage, c : CallEvent(stage, c).text = <<>>
  BY DEF Event, CallEvent
<1>5. QED
  BY <1>2, <1>3, <1>4

\* A step without words that touches neither the tokens nor the aggregator.
LEMMA WordlessStep ==
    ASSUME TokensInv, TextOf(events') = TextOf(events), UNCHANGED <<tokens, aggregator>>,
           buffer # <<>> => pc' \in {"stream", "limited"} \/ answer' = "tokens"
    PROVE  TokensInv'
<1>1. UNCHANGED <<tokens, first, buffer>>
  BY DEF aggregator
<1>2. TextOf(events') \o buffer' = Counted(tokens')
  BY <1>1 DEF TokensInv
<1>3. QED
  BY <1>1, <1>2 DEF TokensInv

LEMMA OneMoreToken ==
    ASSUME NEW n \in Nat, NEW text \in Seq(Nat), NEW held \in Seq(Nat),
           text \o held = Counted(n)
    PROVE  text \o Append(held, n + 1) = Counted(n + 1)
<1>1. text \o Append(held, n + 1) = Append(text \o held, n + 1)
  BY SMTT(30)
<1>2. Len(text \o held) = n
  BY DEF Counted
<1>3. Append(Counted(n), n + 1) = Counted(n + 1)
  BY DEF Counted
<1>4. QED
  BY <1>1, <1>3

\* What the aggregator lets out is what it held back.
LEMMA StreamTokens ==
    ASSUME TypeInv, TokensInv, StreamToken
    PROVE  TokensInv'
<1>1. /\ events \in Seq(EventType) /\ tokens \in Nat /\ buffer \in Seq(1 .. tokens)
      /\ pc = "stream" /\ pc' = "stream" /\ tokens' = tokens + 1
      /\ MaxTokens \in Nat \ {0} /\ RecordsInv
  BY LimitAssumption DEF TypeInv, RecordsInv, ScalarsInv, StreamToken
<1>2. buffer \in Seq(Nat) /\ tokens + 1 \in Nat
  BY <1>1
<1>3. TextOf(events) \in Seq(Nat)
  <2>1. \A type \in SilentKinds : Event(type) \in EventType
    BY WordlessEvents
  <2>2. QED
    BY <1>1, <2>1, TextOfOneMore DEF SilentKinds
<1>4. TextOf(events) \o Append(buffer, tokens + 1) = Counted(tokens')
  BY <1>1, <1>2, <1>3, OneMoreToken DEF TokensInv
<1>5. \A text \in Seq(Nat) : /\ Token(text) \in EventType
                             /\ Emit(<<Token(text)>>) =>
                                   TextOf(events') = TextOf(events) \o text
  <2> SUFFICES ASSUME NEW text \in Seq(Nat)
               PROVE  /\ Token(text) \in EventType
                      /\ Emit(<<Token(text)>>) => TextOf(events') = TextOf(events) \o text
    OBVIOUS
  <2>1. Token(text) \in EventType
    BY EventTypes DEF SilentType, EventType, EventKinds
  <2>2. Token(text).text = text
    BY DEF Token
  <2>3. TextOf(events \o <<Token(text)>>) = TextOf(events) \o Token(text).text
    BY <1>1, <2>1, TextOfOneMore
  <2>4. QED
    BY <2>1, <2>2, <2>3 DEF Emit
<1>6. PICK late \in BOOLEAN : Push(tokens + 1, late)
  BY <1>1 DEF StreamToken
<1>7. CASE ~first
  <2>1. /\ first' = TRUE /\ Emit(<<Token(<<tokens + 1>>)>>) /\ buffer' = buffer
    BY <1>6, <1>7 DEF Push
  <2>2. buffer = <<>>
    BY <1>7 DEF TokensInv
  <2>3. <<tokens + 1>> \in Seq(Nat)
    BY <1>2
  <2>4. TextOf(events') = TextOf(events) \o <<tokens + 1>>
    BY <1>5, <2>1, <2>3
  <2>5. TextOf(events') \o buffer' = Counted(tokens')
    <3>1. Append(buffer, tokens + 1) = <<tokens + 1>>
      BY <2>2
    <3>2. (TextOf(events) \o <<tokens + 1>>) \o <<>> = TextOf(events) \o <<tokens + 1>>
      BY <1>3, <2>3
    <3>3. QED
      BY <1>4, <2>1, <2>2, <2>4, <3>1, <3>2
  <2>6. QED
    BY <1>1, <2>1, <2>5 DEF TokensInv
<1>8. CASE first
  <2> DEFINE held == Append(buffer, tokens + 1)
             full == Len(held) >= MaxTokens \/ late
  <2>1. /\ first' = first
        /\ buffer' = IF full THEN <<>> ELSE held
        /\ Emit(IF full THEN <<Token(held)>> ELSE <<>>)
    BY <1>6, <1>8 DEF Push
  <2>2. held \in Seq(Nat) /\ Len(held) \in Nat
    BY <1>2
  <2> HIDE DEF held
  <2>3. CASE full
    <3>1. TextOf(events') = TextOf(events) \o held /\ buffer' = <<>>
      BY <1>5, <2>1, <2>2, <2>3
    <3>2. (TextOf(events) \o held) \o <<>> = TextOf(events) \o held
      BY <1>3, <2>2
    <3>3. TextOf(events') \o buffer' = Counted(tokens')
      BY <1>4, <3>1, <3>2 DEF held
    <3>4. QED
      BY <1>1, <3>1, <3>3 DEF TokensInv
  <2>4. CASE ~full
    <3>1. buffer' = held /\ Emit(<<>>) /\ Len(held) < MaxTokens
      BY <1>1, <2>1, <2>2, <2>4
    <3>2. events' = events
      BY <1>1, <3>1 DEF Emit
    <3>3. TextOf(events') \o buffer' = Counted(tokens')
      BY <1>4, <3>1, <3>2 DEF held
    <3>4. QED
      BY <1>1, <1>8, <2>1, <3>1, <3>3 DEF TokensInv
  <2>5. QED
    BY <2>3, <2>4
<1>9. QED
  BY <1>7, <1>8

\* The end of a response lets out the rest.
LEMMA EndStreamTokens ==
    ASSUME TypeInv, TokensInv, EndStream
    PROVE  TokensInv'
<1>1. /\ events \in Seq(EventType) /\ tokens \in Nat /\ buffer \in Seq(1 .. tokens)
      /\ tokens' = tokens /\ buffer' = <<>>
      /\ MaxTokens \in Nat \ {0}
      /\ Emit(IF buffer = <<>> THEN <<>> ELSE <<Token(buffer)>>)
  BY LimitAssumption DEF TypeInv, RecordsInv, ScalarsInv, EndStream
<1>2. buffer \in Seq(Nat)
  BY <1>1
<1>3. Token(buffer) \in EventType /\ Token(buffer).text = buffer
  BY <1>2, EventTypes DEF SilentType, EventType, EventKinds, Token
<1>4. TextOf(events) \in Seq(Nat)
      /\ TextOf(events \o <<Token(buffer)>>) = TextOf(events) \o buffer
  BY <1>1, <1>3, TextOfOneMore
<1>5. TextOf(events') = TextOf(events) \o buffer
  <2>1. CASE buffer = <<>>
    <3>1. events' = events
      BY <1>1, <2>1 DEF Emit
    <3>2. QED
      BY <1>4, <2>1, <3>1
  <2>2. CASE buffer # <<>>
    BY <1>1, <1>4, <2>2 DEF Emit
  <2>3. QED
    BY <2>1, <2>2
<1>6. TextOf(events') \o <<>> = TextOf(events')
  BY <1>2, <1>4, <1>5
<1>7. TextOf(events') \o buffer' = Counted(tokens')
  BY <1>1, <1>5, <1>6 DEF TokensInv
<1>8. QED
  BY <1>1, <1>7 DEF TokensInv

\* A turn that is given up answers with its tokens, if there are any.
LEMMA AnswerTokens ==
    ASSUME TypeInv, TokensInv, AnswerWhatThereIs, UNCHANGED <<tokens, aggregator>>
    PROVE  TokensInv'
<1>1. Event("ERROR") \in EventType /\ Event("ERROR").text = <<>>
  BY WordlessEvents DEF SilentKinds
<1>2. TextOf(events') = TextOf(events)
  BY <1>1, WordlessOne DEF TypeInv, AnswerWhatThereIs
<1>3. buffer # <<>> => tokens # 0
  BY DEF TypeInv, ScalarsInv
<1>4. buffer # <<>> => answer' = "tokens"
  BY <1>3 DEF AnswerWhatThereIs
<1>5. QED
  BY <1>2, <1>4, WordlessStep

LEMMA CallToolsTokens ==
    ASSUME TypeInv, TokensInv, CallTools
    PROVE  TextOf(events') = TextOf(events)
<1> DEFINE announced == [i \in DOMAIN wanted |-> CallEvent("STARTED", Len(call) + i)]
<1>1. /\ wanted \in Seq(Tools) /\ Len(wanted) \in Nat /\ DOMAIN wanted = 1 .. Len(wanted)
      /\ Len(call) \in Nat
  BY DEF TypeInv, ScalarsInv, RecordsInv
<1>2. \A i \in DOMAIN wanted : /\ CallEvent("STARTED", Len(call) + i) \in EventType
                               /\ CallEvent("STARTED", Len(call) + i).text = <<>>
  <2>1. \A i \in DOMAIN wanted : Len(call) + i \in Nat
    BY <1>1
  <2>2. QED
    BY <2>1, WordlessEvents
<1>3. announced \in [1 .. Len(wanted) -> EventType]
  BY <1>1, <1>2
<1>4. \A i \in 1 .. Len(wanted) : announced[i].text = <<>>
  BY <1>1, <1>2
<1>5. Emit(announced)
  BY DEF CallTools
<1> HIDE DEF announced
<1>6. announced \in Seq(EventType) /\ Len(announced) = Len(wanted)
  BY <1>1, <1>3
<1>7. QED
  BY <1>4, <1>5, <1>6, Wordless DEF TypeInv

LEMMA BeginRequestTokens ==
    ASSUME TypeInv, TokensInv, BeginRequest
    PROVE  TextOf(events') = TextOf(events)
<1>1. \/ Emit(<<Event("LLM_GENERATING")>>)
      \/ Emit(<<>>)
  BY DEF BeginRequest
<1>2. Event("LLM_GENERATING") \in EventType /\ Event("LLM_GENERATING").text = <<>>
  BY WordlessEvents DEF SilentKinds
<1>3. Emit(<<>>) => events' = events
  BY DEF Emit, TypeInv, RecordsInv
<1>4. QED
  BY <1>1, <1>2, <1>3, WordlessOne DEF TypeInv

LEMMA CallStepTokens ==
    ASSUME TypeInv, NEW c \in DOMAIN call, CallStep(c)
    PROVE  TextOf(events') = TextOf(events)
<1>1. c \in Nat /\ RecordsInv
  BY DEF TypeInv, RecordsInv
<1>2. CallEvent("FINISHED", c) \in EventType /\ CallEvent("FINISHED", c).text = <<>>
  BY <1>1, WordlessEvents
<1>3. UNCHANGED events \/ Emit(<<CallEvent("FINISHED", c)>>)
  BY DEF CallStep, Retrieve, RunTool, ToolAnswers, ToolFails, Finalize, ReportResult
<1>4. QED
  BY <1>1, <1>2, <1>3, WordlessOne

LEMMA StepTokens ==
    ASSUME TypeInv, ClosedInv, TokensInv, [Next]_vars
    PROVE  TokensInv'
<1>1. CASE AcquireQuota \/ ToolsReturned
  BY <1>1, WordlessStep DEF AcquireQuota, ToolsReturned, TokensInv
<1>2. CASE BeginRequest
  <2>1. TextOf(events') = TextOf(events)
    BY <1>2, BeginRequestTokens
  <2>2. buffer = <<>> /\ buffer' = <<>> /\ tokens' = tokens
    BY <1>2 DEF BeginRequest, TokensInv, ClosedInv
  <2>3. TextOf(events') \o buffer' = Counted(tokens')
    BY <2>1, <2>2 DEF TokensInv
  <2>4. QED
    BY <2>2, <2>3, LimitAssumption DEF TokensInv
<1>3. CASE LimitReached
  BY <1>3, AnswerTokens DEF LimitReached
<1>4. CASE TurnBreaks
  <2>1. \/ AnswerWhatThereIs
        \/ pc' = "limited" /\ UNCHANGED <<events, answer>>
    BY <1>4 DEF TurnBreaks
  <2>2. UNCHANGED <<tokens, aggregator>>
    BY <1>4 DEF TurnBreaks
  <2>3. QED
    BY <2>1, <2>2, AnswerTokens, WordlessStep
<1>5. CASE StreamToken
  BY <1>5, StreamTokens
<1>6. CASE EndStream
  BY <1>6, EndStreamTokens
<1>7. CASE Settle
  <2>1. buffer = <<>>
    BY <1>7 DEF Settle, TokensInv, ClosedInv
  <2>2. QED
    BY <1>7, <2>1, WordlessStep DEF Settle
<1>8. CASE CallTools
  <2>1. TextOf(events') = TextOf(events)
    BY <1>8, CallToolsTokens
  <2>2. QED
    BY <1>8, <2>1, WordlessStep DEF CallTools, TokensInv
<1>9. CASE pc = "tools" /\ \E c \in DOMAIN call : CallStep(c)
  <2>1. PICK c \in DOMAIN call : CallStep(c)
    BY <1>9
  <2>2. TextOf(events') = TextOf(events)
    BY <2>1, CallStepTokens
  <2>3. Elsewhere
    BY <2>1 DEF CallStep, Retrieve, RunTool, ToolAnswers, ToolFails, Finalize, ReportResult
  <2>4. QED
    BY <2>2, <2>3, WordlessStep DEF Elsewhere, TokensInv
<1>10. CASE UNCHANGED vars
  BY <1>10, WordlessStep DEF vars, TokensInv
<1>11. QED
  BY <1>1, <1>2, <1>3, <1>4, <1>5, <1>6, <1>7, <1>8, <1>9, <1>10 DEF Next

\* The TOKEN events, put together, and what the aggregator still holds are the
\* tokens the model streamed, in order and each once, for any sizes of responses
\* and any pauses between them; what it holds back when the turn is over is the
\* part of a broken stream that was not sent (TokenAggregator and its use in
\* _handle_model_request).
THEOREM TokensCorrect == Spec => []NoTokenLost
<1>1. Init => TokensInv
  <2> SUFFICES ASSUME Init PROVE TokensInv
    OBVIOUS
  <2>1. events = <<>> /\ buffer = <<>> /\ tokens = 0
    BY DEF Init
  <2>2. TextOf(events) \o buffer = <<>> /\ Counted(tokens) = <<>>
    BY <2>1, TextOfNothing DEF Counted
  <2>3. QED
    BY <2>1, <2>2, LimitAssumption DEF TokensInv
<1>2. TurnInv /\ CallsInv /\ TokensInv /\ [Next]_vars => TokensInv'
  BY StepTokens DEF TurnInv, CallsInv
<1>3. TokensInv => NoTokenLost
  <2>1. Spoken = TextOf(events)
    BY Zenon DEF Spoken, TextOf
  <2>2. QED
    BY <2>1 DEF TokensInv, NoTokenLost, Counted
<1>4. Init => CallsInv
  BY InitCalls
<1>5. TurnInv /\ CallsInv /\ [Next]_vars => CallsInv'
  BY StepCalls
<1>6. QED
  BY <1>1, <1>2, <1>3, <1>4, <1>5, TurnCorrect, PTL DEF Spec

-----------------------------------------------------------------------------
(* The turn as Orchestrator has it.  A turn that is not over has not failed: *)
(* what it emits meanwhile is no ERROR.                                      *)

GoesOn == pc \notin {"done", "limited"} => ~ Failed

LEMMA QuietBatch ==
    ASSUME RecordsInv, ~ Failed, NEW batch \in Seq(EventType),
           \A k \in 1 .. Len(batch) : batch[k].type # "ERROR",
           Emit(batch)
    PROVE  ~ Failed'
<1>1. events \in Seq(EventType) /\ events' = events \o batch
  BY DEF RecordsInv, Emit
<1>2. \A i \in 1 .. Len(events) : events[i].type # "ERROR"
  BY <1>1 DEF Failed
<1>3. /\ DOMAIN events' = 1 .. Len(events) + Len(batch)
      /\ \A i \in 1 .. Len(events) + Len(batch) :
            events'[i] = IF i <= Len(events) THEN events[i] ELSE batch[i - Len(events)]
  BY <1>1, Elements
<1>4. Len(events) \in Nat /\ Len(batch) \in Nat
  BY <1>1
<1>5. ASSUME NEW i \in 1 .. Len(events) + Len(batch) PROVE events'[i].type # "ERROR"
  <2>1. CASE i <= Len(events)
    BY <1>2, <1>3, <1>4, <2>1
  <2>2. CASE ~ (i <= Len(events))
    <3>1. i - Len(events) \in 1 .. Len(batch)
      BY <1>4, <2>2
    <3>2. QED
      BY <1>3, <2>2, <3>1
  <2>3. QED
    BY <2>1, <2>2
<1>6. QED
  BY <1>3, <1>5 DEF Failed

LEMMA QuietOne ==
    ASSUME RecordsInv, ~ Failed, NEW e \in EventType, e.type # "ERROR", Emit(<<e>>)
    PROVE  ~ Failed'
<1> DEFINE batch == <<e>>
<1>1. batch \in Seq(EventType) /\ Len(batch) = 1 /\ batch[1] = e
  BY Singleton
<1>2. Emit(batch)
  OBVIOUS
<1> HIDE DEF batch
<1>3. QED
  BY <1>1, <1>2, QuietBatch

LEMMA QuietKinds ==
    /\ \A type \in {"LLM_GENERATING"} : Event(type) \in EventType /\ Event(type).type = type
    /\ \A text \in Seq(Nat) : Token(text) \in EventType /\ Token(text).type = "TOKEN"
    /\ \A stage \in {"STARTED", "FINISHED"}, c \in Nat :
          CallEvent(stage, c) \in EventType /\ CallEvent(stage, c).type = stage
<1>1. SilentType \subseteq EventType
  BY DEF SilentType, EventType, EventKinds
<1>2. \A type \in {"LLM_GENERATING"} : Event(type) \in EventType
  BY <1>1, EventTypes DEF SilentKinds
<1>3. \A text \in Seq(Nat) : Token(text) \in EventType
  BY <1>1, EventTypes
<1>4. \A stage \in {"STARTED", "FINISHED"}, c \in Nat : CallEvent(stage, c) \in EventType
  BY EventTypes DEF EventKinds
<1>5. /\ \A type : Event(type).type = type
      /\ \A text : Token(text).type = "TOKEN"
      /\ \A stage, c : CallEvent(stage, c).type = stage
  BY DEF Event, Token, CallEvent
<1>6. QED
  BY <1>2, <1>3, <1>4, <1>5

LEMMA NothingEmitted ==
    ASSUME RecordsInv, ~ Failed, UNCHANGED events \/ Emit(<<>>)
    PROVE  ~ Failed'
<1>1. events' = events
  BY DEF Emit, RecordsInv
<1>2. QED
  BY <1>1 DEF Failed

\* Only giving up is said aloud.
LEMMA QuietSteps ==
    ASSUME TypeInv, ~ Failed,
           \/ AcquireQuota \/ BeginRequest \/ StreamToken \/ EndStream \/ Settle
           \/ CallTools \/ ToolsReturned
           \/ \E c \in DOMAIN call : CallStep(c)
    PROVE  ~ Failed'
<1>0. RecordsInv
  BY DEF TypeInv
<1>1. CASE AcquireQuota \/ Settle \/ ToolsReturned
  BY <1>0, <1>1, NothingEmitted DEF AcquireQuota, Settle, ToolsReturned
<1>2. CASE BeginRequest
  <2>1. Emit(<<Event("LLM_GENERATING")>>) \/ Emit(<<>>)
    BY <1>2 DEF BeginRequest
  <2>2. Event("LLM_GENERATING") \in EventType /\ Event("LLM_GENERATING").type # "ERROR"
    BY QuietKinds
  <2>3. QED
    BY <1>0, <2>1, <2>2, QuietOne, NothingEmitted
<1>3. CASE StreamToken
  <2>1. /\ tokens \in Nat /\ tokens' = tokens + 1 /\ buffer \in Seq(Nat)
        /\ \E late \in BOOLEAN : Push(tokens', late)
    BY <1>3 DEF StreamToken, TypeInv, ScalarsInv
  <2>2. tokens' \in Nat
    BY <2>1
  <2>3. <<tokens'>> \in Seq(Nat) /\ Append(buffer, tokens') \in Seq(Nat)
    BY <2>1, <2>2
  <2>4. \E text \in Seq(Nat) : Emit(<<Token(text)>>) \/ Emit(<<>>)
    BY <2>1, <2>3 DEF Push
  <2>5. QED
    BY <1>0, <2>4, QuietKinds, QuietOne, NothingEmitted
<1>4. CASE EndStream
  <2>1. buffer \in Seq(Nat)
    BY DEF TypeInv, ScalarsInv
  <2>2. Emit(<<>>) \/ Emit(<<Token(buffer)>>)
    BY <1>4 DEF EndStream
  <2>3. QED
    BY <1>0, <2>1, <2>2, QuietKinds, QuietOne, NothingEmitted
<1>5. CASE CallTools
  <2> DEFINE reports == [i \in DOMAIN wanted |-> CallEvent("STARTED", Len(call) + i)]
  <2>1. /\ wanted \in Seq(Tools) /\ Len(wanted) \in Nat /\ DOMAIN wanted = 1 .. Len(wanted)
        /\ Len(call) \in Nat
    BY DEF TypeInv, ScalarsInv, RecordsInv
  <2>2. \A i \in DOMAIN wanted : Len(call) + i \in Nat
    BY <2>1
  <2>3. \A i \in 1 .. Len(wanted) : /\ CallEvent("STARTED", Len(call) + i) \in EventType
                                    /\ CallEvent("STARTED", Len(call) + i).type = "STARTED"
    BY <2>1, <2>2, QuietKinds
  <2>4. reports \in [1 .. Len(wanted) -> EventType]
    BY <2>1, <2>3
  <2>5. \A i \in 1 .. Len(wanted) : reports[i].type # "ERROR"
    BY <2>1, <2>3
  <2>6. Emit(reports)
    BY <1>5 DEF CallTools
  <2> HIDE DEF reports
  <2>7. reports \in Seq(EventType) /\ Len(reports) = Len(wanted)
    BY <2>1, <2>4
  <2>8. QED
    BY <1>0, <2>5, <2>6, <2>7, QuietBatch
<1>6. ASSUME NEW c \in DOMAIN call, CallStep(c) PROVE ~ Failed'
  <2>1. c \in Nat
    BY <1>0 DEF RecordsInv
  <2>2. UNCHANGED events \/ Emit(<<CallEvent("FINISHED", c)>>)
    BY <1>6 DEF CallStep, Retrieve, RunTool, ToolAnswers, ToolFails, Finalize, ReportResult
  <2>3. CallEvent("FINISHED", c) \in EventType /\ CallEvent("FINISHED", c).type # "ERROR"
    BY <2>1, QuietKinds
  <2>4. QED
    BY <1>0, <2>2, <2>3, QuietOne, NothingEmitted
<1>7. QED
  BY <1>1, <1>2, <1>3, <1>4, <1>5, <1>6

LEMMA GivingUpFails ==
    ASSUME RecordsInv, AnswerWhatThereIs
    PROVE  Failed' /\ pc' = "done"
<1> DEFINE error == Event("ERROR")
<1>1. error \in EventType /\ error.type = "ERROR"
  BY EventTypes, SilentEvents, WordlessEvents DEF SilentKinds, Event
<1>2. events \in Seq(EventType) /\ events' = events \o <<error>> /\ pc' = "done"
  BY DEF RecordsInv, AnswerWhatThereIs, Emit
<1> HIDE DEF error
<1>3. Len(events) + 1 \in DOMAIN events' /\ events'[Len(events) + 1] = error
  BY <1>1, <1>2
<1>4. QED
  BY <1>1, <1>2, <1>3 DEF Failed

\* The three outcomes, as Orchestrator has them.
LEMMA Outcomes ==
    ASSUME Seen = "agent", Heard = "none"
    PROVE  /\ Seen' = "answer" /\ Heard' = "none" => Run!AgentAnswers(Turn, Turn)
           /\ Seen' = "answer" /\ Heard' = "ERROR" => Run!AgentDegrades(Turn, Turn)
           /\ Seen' = "refuse" /\ Heard' = "ERROR" => Run!AgentRefused(Turn, Turn)
BY DEF Run!AgentAnswers, Run!AgentDegrades, Run!AgentRefused, Run!Announce, Run!Goto,
       Run!store

LEMMA StepOfRun ==
    ASSUME TypeInv, GoesOn, [Next]_vars
    PROVE  /\ GoesOn'
           /\ \/ UNCHANGED <<Seen, Heard>>
              \/ Run!AgentAnswers(Turn, Turn)
              \/ Run!AgentDegrades(Turn, Turn)
              \/ Run!AgentRefused(Turn, Turn)
<1>1. CASE UNCHANGED vars
  BY <1>1 DEF vars, GoesOn, Failed, Seen, Heard
<1>2. CASE Next
  <2>1. pc \notin {"done", "limited"} /\ pc \in Labels
    BY <1>2 DEF Next, AcquireQuota, BeginRequest, LimitReached, StreamToken, EndStream,
                Settle, CallTools, ToolsReturned, TurnBreaks, TypeInv, ScalarsInv
  <2>2. ~ Failed /\ Seen = "agent" /\ Heard = "none"
    BY <2>1 DEF GoesOn, Seen, Heard
  <2>3. RecordsInv
    BY DEF TypeInv
  <2>4. CASE ~ Failed'
    BY <2>2, <2>4, Outcomes DEF GoesOn, Seen, Heard
  <2>5. CASE Failed'
    <3>1. LimitReached \/ TurnBreaks
      BY <1>2, <2>2, <2>5, QuietSteps DEF Next
    <3>2. pc' = "done" \/ pc' = "limited"
      BY <2>3, <3>1, GivingUpFails DEF LimitReached, TurnBreaks
    <3>3. QED
      BY <2>2, <2>5, <3>2, Outcomes DEF GoesOn, Seen, Heard
  <2>6. QED
    BY <2>4, <2>5
<1>3. QED
  BY <1>1, <1>2

\* The turn in detail implements the one step that Orchestrator makes of it, for any
\* limits and any responses: of all that _run_agent does the run sees an answer, a
\* degraded answer with an ERROR before it, or a refusal, and nothing after it.
THEOREM ImplementsAgentStep == Spec => TurnIsOneStep
<1>1. Init => GoesOn /\ Seen = "agent" /\ Heard = "none"
  BY DEF Init, GoesOn, Failed, Seen, Heard
<1>2. /\ TurnInv /\ GoesOn /\ [Next]_vars
      => /\ GoesOn'
         /\ [ \/ Run!AgentAnswers(Turn, Turn)
              \/ Run!AgentDegrades(Turn, Turn)
              \/ Run!AgentRefused(Turn, Turn) ]_<<Seen, Heard>>
  BY StepOfRun DEF TurnInv
<1>3. QED
  BY <1>1, <1>2, TurnCorrect, PTL DEF Spec, TurnIsOneStep

=============================================================================
