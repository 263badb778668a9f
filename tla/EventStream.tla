---------------------------- MODULE EventStream ----------------------------
(***************************************************************************)
(* The event stream of one run and those who read it (app/bus/             *)
(* stream_bus.py, app/api/routers/stream.py, app/api/runner_gateway.py).   *)
(* Streams of different runs share nothing.                                *)
(*                                                                         *)
(* Redis ids grow with every XADD; here the id of an event is its position *)
(* in all that was ever published, of which `first' is the oldest one the  *)
(* stream still holds.  A client keeps the id of the last event it got and *)
(* sends it when it connects again.                                        *)
(***************************************************************************)
EXTENDS Naturals, Sequences

CONSTANTS
    Client,     \* SSE and WebSocket clients, which may come back
    Waiter,     \* requests with stream=False, which wait for the end once
    MaxLens,    \* values of StreamBus's maxlen, one of them in a behaviour
    Unlimited,  \* maxlen=None, what create_event_bus and build_deps leave it at
    MaxEvents   \* bound of the model: events published in a behaviour

Reader == Client \cup Waiter

ASSUME StreamAssumption ==
    /\ Client \cap Waiter = {}
    /\ Unlimited \notin Nat
    /\ MaxLens \subseteq (Nat \ {0}) \cup {Unlimited}
    /\ MaxEvents \in Nat

VARIABLES
    maxlen,   \* the stream's limit
    events,   \* everything published, "end" for RUN_COMPLETED and ERROR
    first,    \* id of the oldest entry not trimmed
    owns,     \* whether the run is of a conversation of the client's
    via,      \* the endpoint that serves a client
    at,       \* where each reader's subscription is
    answer,   \* ids of Redis' last answer that are yet to be yielded
    got       \* ids each reader has received, in the order of their arrival

vars == <<maxlen, events, first, owns, via, at, answer, got>>

stream == <<maxlen, events, first>>

Kinds == {"progress", "end"}

Ids == 1 .. Len(events)

\* "check" and "range" are replay's calls, "read" and "blocked" the XREAD after
\* it; "yield" hands out an answer.
Connected == {"check", "range", "yield", "read", "blocked"}

\* "told" is a client that got an error frame, "refused" one that may not
\* subscribe, "gone" a request that was answered without the end.
Places == Connected \cup {"away", "told", "refused", "done", "gone"}

Endpoints == {"sse", "websocket"}

NoAnswer == [next |-> 1, last |-> 0]

Init ==
    /\ maxlen \in MaxLens
    /\ events = <<>>
    /\ first = 1
    /\ owns \in [Client -> BOOLEAN]
    /\ via = [c \in Reader |-> "none"]
    /\ at = [c \in Reader |-> "away"]
    /\ answer = [c \in Reader |-> NoAnswer]
    /\ got = [c \in Reader |-> <<>>]

\* subscribe's cursor, and the Last-Event-ID of the client; 0 for none.
Cursor(c) == IF got[c] = <<>> THEN 0 ELSE got[c][Len(got[c])]

Move(c, place) == at' = [at EXCEPT ![c] = place]

-----------------------------------------------------------------------------
(* XADD with an approximate MAXLEN: Redis trims down to the limit at most.  *)

\* Mutant: the newest entry may go, too.
MayStartAtNext(length) ==
    IF maxlen = Unlimited
      THEN {first}
      ELSE { f \in first .. length + 1 : f = first \/ length - f + 2 >= maxlen }

MayStartAt(length) ==
    IF maxlen = Unlimited
      THEN {first}
      ELSE { f \in first .. length : f = first \/ length - f + 1 >= maxlen }

\* Redis answers those that are blocked in XREAD at once.
Publish(kind) ==
    /\ Len(events) < MaxEvents
    /\ events' = Append(events, kind)
    /\ first' \in MayStartAt(Len(events'))
    /\ at' = [c \in Reader |-> IF at[c] = "blocked" THEN "yield" ELSE at[c]]
    /\ answer' = [c \in Reader |->
                     IF at[c] = "blocked"
                       THEN [next |-> Len(events'), last |-> Len(events')]
                       ELSE answer[c]]
    /\ UNCHANGED <<maxlen, owns, via, got>>

-----------------------------------------------------------------------------
(* A subscription.                                                          *)

\* _compare_stream_ids, on positions.
Before(id, other) == id < other

Begins(c) == Move(c, IF Cursor(c) = 0 THEN "range" ELSE "check")

\* Both endpoints look up the run's conversation and its owner first.  A client
\* may come back after the end, as an EventSource does by itself.
Subscribes(c, endpoint) ==
    /\ c \in Client
    /\ at[c] \in {"away", "told", "done"}
    /\ IF owns[c]
         THEN Begins(c) /\ via' = [via EXCEPT ![c] = endpoint]
         ELSE Move(c, "refused") /\ UNCHANGED via
    /\ UNCHANGED <<stream, owns, answer, got>>

ConnectSse(c) == Subscribes(c, "sse")

ConnectWebSocket(c) == Subscribes(c, "websocket")

\* The handler with stream=False, whose caller made the run.
AwaitCompletion(c) ==
    /\ c \in Waiter
    /\ at[c] = "away"
    /\ Begins(c)
    /\ UNCHANGED <<stream, owns, via, answer, got>>

Ends(c, place) ==
    /\ Move(c, place)
    /\ via' = [via EXCEPT ![c] = "none"]
    /\ answer' = [answer EXCEPT ![c] = NoAnswer]

\* An exception ends an SSE response with an error frame, which has no id, and a
\* WebSocket without a word; a request that waits fails.
Breaks(c) ==
    Ends(c, CASE via[c] = "sse"       -> "told"
              [] via[c] = "websocket" -> "away"
              [] OTHER                -> "gone")

\* _ensure_cursor_retained, which raises StreamGapError.
CheckCursor(c) ==
    /\ at[c] = "check"
    /\ IF Before(Cursor(c), first) THEN Breaks(c)
                                   ELSE Move(c, "range") /\ UNCHANGED <<via, answer>>
    /\ UNCHANGED <<stream, owns, got>>

\* The oldest id the stream holds behind a cursor.
NextAfter(cursor) == IF cursor < first THEN first ELSE cursor + 1

Answered(c, next, last) ==
    /\ answer' = [answer EXCEPT ![c] = [next |-> next, last |-> last]]
    /\ Move(c, "yield")

\* Mutant: XRANGE includes the cursor.
RangeInclusive(c) ==
    /\ at[c] = "range"
    /\ Answered(c, IF Cursor(c) < first THEN first ELSE Cursor(c), Len(events))
    /\ UNCHANGED <<stream, owns, via, got>>

\* XRANGE from behind the cursor, or from the beginning.
Range(c) ==
    /\ at[c] = "range"
    /\ Answered(c, NextAfter(Cursor(c)), Len(events))
    /\ UNCHANGED <<stream, owns, via, got>>

\* RUN_COMPLETED, also of a run that failed, and ERROR.
IsTerminal(id) == events[id] = "end"

\* The client gets the event; _iter_events stops at a terminal one, and the
\* response, the connection or the request with it.
Yield(c) ==
    /\ at[c] = "yield"
    /\ answer[c].next <= answer[c].last
    /\ got' = [got EXCEPT ![c] = Append(@, answer[c].next)]
    /\ IF IsTerminal(answer[c].next)
         THEN Ends(c, "done")
         ELSE answer' = [answer EXCEPT ![c].next = @ + 1] /\ UNCHANGED <<via, at>>
    /\ UNCHANGED <<stream, owns>>

Exhausted(c) ==
    /\ at[c] = "yield"
    /\ answer[c].next > answer[c].last
    /\ Move(c, "read")
    /\ UNCHANGED <<stream, owns, via, answer, got>>

\* Mutant: every XREAD asks for what is new to the stream.
ReadLatest(c) ==
    /\ at[c] = "read"
    /\ Move(c, "blocked")
    /\ UNCHANGED <<stream, owns, via, answer, got>>

\* XREAD COUNT 1 behind the cursor; without one, behind "$", the end that the
\* stream has when this call is made.
Read(c) ==
    /\ at[c] = "read"
    /\ IF Cursor(c) # 0 /\ Cursor(c) < Len(events)
         THEN Answered(c, NextAfter(Cursor(c)), NextAfter(Cursor(c)))
         ELSE Move(c, "blocked") /\ UNCHANGED answer
    /\ UNCHANGED <<stream, owns, via, got>>

\* XREAD returns nothing after block_ms, and is issued again.
BlockEnds(c) ==
    /\ at[c] = "blocked"
    /\ Move(c, "read")
    /\ UNCHANGED <<stream, owns, via, answer, got>>

\* The client disconnects; an SSE response notices before the next event, a
\* WebSocket when it sends it.  What was under way is lost.
Leave(c) ==
    /\ c \in Client
    /\ at[c] \in Connected
    /\ Ends(c, "away")
    /\ UNCHANGED <<stream, owns, got>>

\* A call to Redis raises.
SubscriptionFails(c) ==
    /\ at[c] \in Connected
    /\ Breaks(c)
    /\ UNCHANGED <<stream, owns, got>>

\* await_completion times out, and the request is answered with 504.
WaitTimesOut(c) ==
    /\ c \in Waiter
    /\ at[c] \in Connected
    /\ Ends(c, "gone")
    /\ UNCHANGED <<stream, owns, got>>

Subscription(c) ==
    \/ CheckCursor(c) \/ Range(c) \/ Yield(c) \/ Exhausted(c)
    \/ Read(c) \/ BlockEnds(c)

Next ==
    \/ \E kind \in Kinds : Publish(kind)
    \/ \E c \in Reader : \/ ConnectSse(c) \/ ConnectWebSocket(c) \/ AwaitCompletion(c)
                         \/ Subscription(c) \/ SubscriptionFails(c)
                         \/ Leave(c) \/ WaitTimesOut(c)

Spec == Init /\ [][Next]_vars

\* A subscription is a coroutine and goes on when it can.  Nothing need be
\* published, and clients come and go as they like.
FairSpec == Spec /\ \A c \in Reader : WF_vars(Subscription(c))

-----------------------------------------------------------------------------
(* Safety.                                                                  *)

Answers == [next : Nat, last : Nat]

TypeOK ==
    /\ maxlen \in MaxLens
    /\ events \in Seq(Kinds)
    /\ first \in Nat /\ 1 <= first
    /\ first = 1 \/ first <= Len(events)
    /\ owns \in [Client -> BOOLEAN]
    /\ via \in [Reader -> Endpoints \cup {"none"}]
    /\ at \in [Reader -> Places]
    /\ answer \in [Reader -> Answers]
    /\ got \in [Reader -> Seq(Nat)]

\* Nobody gets an event twice or before an older one, however often a client
\* comes back and whether it is served by the replay or by XREAD.
InOrder ==
    \A c \in Reader : \A i, j \in 1 .. Len(got[c]) :
        i < j => got[c][i] < got[c][j]

\* Between two events that a reader got, nothing is left out but what the
\* stream no longer holds: going from the replay to the live reads, coming back
\* with the last id, and a blocked read that is served late all lose nothing.
SkipsOnlyTrimmed ==
    \A c \in Reader : \A k \in 2 .. Len(got[c]) :
        \A i \in Ids : got[c][k - 1] < i /\ i < got[c][k] => i < first

-----------------------------------------------------------------------------
(* Liveness, under FairSpec.                                                *)

Ended(id) == \E i \in Ids : id < i /\ events[i] = "end"

\* Where nothing is trimmed, whoever has got an event gets the end, too, unless
\* it leaves, times out or its subscription breaks.
EndReachesReaders ==
    \A c \in Reader :
        (/\ maxlen = Unlimited
         /\ at[c] \in Connected
         /\ got[c] # <<>>
         /\ Ended(Cursor(c)))
            ~> (at[c] \notin Connected)

=============================================================================
