------------------------- MODULE EventStreamProofs -------------------------
(***************************************************************************)
(* Proofs about EventStream, for any clients, waiters, limits and number   *)
(* of events.                                                              *)
(***************************************************************************)
EXTENDS EventStream, TLAPS

\* An event is received once it was published.
GotInv == \A c \in Reader : \A k \in 1 .. Len(got[c]) : got[c][k] \in Ids

\* What is left of an answer continues where the reader is: it is newer than
\* the cursor, and between the two there is nothing the stream still holds.
AnswerInv ==
    \A c \in Reader :
        at[c] = "yield" =>
            /\ answer[c].last <= Len(events)
            /\ answer[c].next <= Len(events) + 1
            /\ Cursor(c) < answer[c].next
            /\ got[c] # <<>> => \A i \in Ids : Cursor(c) < i /\ i < answer[c].next => i < first

\* A reader with a cursor is blocked only when it has got everything.
BlockedInv ==
    \A c \in Reader : at[c] = "blocked" /\ got[c] # <<>> => Cursor(c) = Len(events)

StreamInv == TypeOK /\ GotInv /\ AnswerInv /\ BlockedInv /\ InOrder /\ SkipsOnlyTrimmed

\* The cursor is the last id received.
LEMMA CursorType ==
    ASSUME TypeOK, GotInv, NEW c \in Reader
    PROVE  /\ Cursor(c) \in Nat
           /\ Cursor(c) <= Len(events)
           /\ (Cursor(c) = 0) <=> (got[c] = <<>>)
           /\ got[c] # <<>> => Len(got[c]) \in 1 .. Len(got[c])
<1>1. got[c] \in Seq(Nat) /\ Len(events) \in Nat
    BY DEF TypeOK
<1>2. CASE got[c] = <<>>
    BY <1>1, <1>2 DEF Cursor
<1>3. CASE got[c] # <<>>
    <2>1. Len(got[c]) \in 1 .. Len(got[c])
        BY <1>1, <1>3
    <2>2. got[c][Len(got[c])] \in Ids
        BY <2>1 DEF GotInv
    <2>3. QED
        BY <1>1, <1>3, <2>1, <2>2 DEF Cursor, Ids
<1>4. QED
    BY <1>2, <1>3

\* The stream begins and the readers have nothing: everything holds.
LEMMA InitStream == Init => StreamInv
<1> SUFFICES ASSUME Init PROVE StreamInv
    OBVIOUS
<1>1. TypeOK
    BY DEF Init, TypeOK, Places, NoAnswer, Answers
<1>2. GotInv /\ AnswerInv /\ BlockedInv
    BY DEF Init, GotInv, AnswerInv, BlockedInv
<1>3. InOrder /\ SkipsOnlyTrimmed
    BY DEF Init, InOrder, SkipsOnlyTrimmed
<1>4. QED
    BY <1>1, <1>2, <1>3 DEF StreamInv

\* Publishing only adds: readers keep what they have, the oldest entry moves
\* forward, and those that were blocked are answered with the new event.
LEMMA PublishStream ==
    ASSUME StreamInv, NEW kind \in Kinds, Publish(kind)
    PROVE  StreamInv'
<1> DEFINE n == Len(events)
<1>1. /\ n \in Nat /\ events' = Append(events, kind)
      /\ Len(events') = n + 1 /\ events' \in Seq(Kinds) /\ events' # <<>>
    BY DEF StreamInv, TypeOK, Publish
<1>2. first' \in Nat /\ first <= first' /\ first' <= n + 1 /\ 1 <= first'
    <2>1. first \in Nat /\ 1 <= first /\ first <= n + 1
        BY <1>1 DEF StreamInv, TypeOK
    <2>2. first' \in MayStartAt(n + 1)
        BY <1>1 DEF Publish
    <2>3. QED
        BY <1>1, <2>1, <2>2 DEF MayStartAt
<1>3. UNCHANGED <<maxlen, owns, via, got>> /\ \A c \in Reader : Cursor(c)' = Cursor(c)
    BY DEF Publish, Cursor
<1>4. \A c \in Reader :
         /\ at[c] = "blocked" => /\ at'[c] = "yield"
                                 /\ answer'[c] = [next |-> n + 1, last |-> n + 1]
         /\ at[c] # "blocked" => at'[c] = at[c] /\ answer'[c] = answer[c]
    BY <1>1 DEF Publish
<1>5. TypeOK'
    <2>1. at' \in [Reader -> Places] /\ answer' \in [Reader -> Answers]
        BY <1>1 DEF StreamInv, TypeOK, Publish, Places, Connected, Answers
    <2>2. QED
        BY <1>1, <1>2, <1>3, <2>1 DEF StreamInv, TypeOK
<1>6. GotInv'
    BY <1>1, <1>3 DEF StreamInv, GotInv, Ids
<1>7. AnswerInv'
    <2> SUFFICES ASSUME NEW c \in Reader, at'[c] = "yield"
                 PROVE  /\ answer'[c].last <= Len(events')
                        /\ answer'[c].next <= Len(events') + 1
                        /\ Cursor(c)' < answer'[c].next
                        /\ got[c] # <<>> =>
                             \A i \in 1 .. Len(events') :
                                Cursor(c)' < i /\ i < answer'[c].next => i < first'
        BY <1>3 DEF AnswerInv, Ids
    <2>1. Cursor(c) \in Nat /\ Cursor(c) <= n
        BY CursorType DEF StreamInv
    <2>2. CASE at[c] = "blocked"
        <3>1. got[c] # <<>> => Cursor(c) = n
            BY <2>2 DEF StreamInv, BlockedInv
        <3>2. QED
            BY <1>1, <1>2, <1>3, <1>4, <2>1, <2>2, <3>1
    <2>3. CASE at[c] # "blocked"
        <3>1. /\ at[c] = "yield" /\ answer'[c] = answer[c]
              /\ answer[c].next \in Nat /\ answer[c].last \in Nat
            BY <1>4, <2>3 DEF StreamInv, TypeOK, Answers
        <3>2. /\ answer[c].last <= n /\ answer[c].next <= n + 1
              /\ Cursor(c) < answer[c].next
              /\ got[c] # <<>> => \A i \in 1 .. n : Cursor(c) < i /\ i < answer[c].next => i < first
            BY <3>1 DEF StreamInv, AnswerInv, Ids
        <3>3. /\ answer'[c].last <= n + 1 /\ answer'[c].next <= n + 2
              /\ Cursor(c)' < answer'[c].next
            BY <1>1, <1>3, <2>1, <3>1, <3>2
        <3>4. ASSUME got[c] # <<>>, NEW i \in 1 .. n + 1,
                     Cursor(c) < i, i < answer[c].next
              PROVE  i < first'
            <4>1. i \in 1 .. n
                BY <1>1, <3>1, <3>2, <3>4
            <4>2. i < first
                BY <3>2, <3>4, <4>1
            <4>3. QED
                BY <1>2, <4>1, <4>2 DEF StreamInv, TypeOK
        <3>5. QED
            BY <1>1, <1>3, <3>1, <3>3, <3>4
    <2>4. QED
        BY <2>2, <2>3
<1>8. BlockedInv'
    BY <1>4 DEF BlockedInv
<1>9. InOrder' /\ SkipsOnlyTrimmed'
    <2>1. InOrder'
        BY <1>3 DEF StreamInv, InOrder
    <2>2. ASSUME NEW c \in Reader, NEW k \in 2 .. Len(got[c]), NEW i \in 1 .. n + 1,
                 got[c][k - 1] < i, i < got[c][k]
          PROVE  i < first'
        <3>1. got[c] \in Seq(Nat) /\ k \in 1 .. Len(got[c])
            BY DEF StreamInv, TypeOK
        <3>2. got[c][k] \in 1 .. n
            BY <3>1 DEF StreamInv, GotInv, Ids
        <3>3. i \in 1 .. n
            BY <1>1, <2>2, <3>2
        <3>4. i < first
            BY <2>2, <3>3 DEF StreamInv, SkipsOnlyTrimmed, Ids
        <3>5. QED
            BY <1>2, <3>3, <3>4 DEF StreamInv, TypeOK
    <2>3. QED
        BY <1>1, <1>3, <2>1, <2>2 DEF SkipsOnlyTrimmed, Ids
<1>10. QED
    BY <1>5, <1>6, <1>7, <1>8, <1>9 DEF StreamInv

\* A subscription that moves on without an answer, or loses the one it had,
\* disturbs nothing.
LEMMA MoveStream ==
    ASSUME StreamInv, NEW c \in Reader, NEW place \in Places,
           Move(c, place), UNCHANGED <<stream, owns, got>>,
           UNCHANGED via \/ via' \in [Reader -> Endpoints \cup {"none"}],
           place # "yield",
           place = "blocked" /\ got[c] # <<>> => Cursor(c) = Len(events),
           UNCHANGED answer \/ answer' = [answer EXCEPT ![c] = NoAnswer]
    PROVE  StreamInv'
<1>1. \A d \in Reader : Cursor(d)' = Cursor(d)
    BY DEF Cursor
<1>2. \A d \in Reader : d # c => at'[d] = at[d] /\ answer'[d] = answer[d]
    BY DEF StreamInv, TypeOK, Move
<1>3. at'[c] = place
    BY DEF StreamInv, TypeOK, Move
<1>4. TypeOK'
    <2>1. NoAnswer \in Answers
        BY DEF NoAnswer, Answers
    <2>2. at' \in [Reader -> Places] /\ answer' \in [Reader -> Answers]
        BY <2>1 DEF StreamInv, TypeOK, Move
    <2>3. QED
        BY <2>2 DEF StreamInv, TypeOK, stream
<1>5. GotInv' /\ InOrder' /\ SkipsOnlyTrimmed'
    BY DEF StreamInv, GotInv, InOrder, SkipsOnlyTrimmed, Ids, stream
<1>6. AnswerInv'
    BY <1>1, <1>2, <1>3 DEF StreamInv, AnswerInv, Ids, stream
<1>7. BlockedInv'
    BY <1>1, <1>2, <1>3 DEF StreamInv, BlockedInv, stream
<1>8. QED
    BY <1>4, <1>5, <1>6, <1>7 DEF StreamInv

\* A subscription that begins asks Redis first.
LEMMA BeginsStream ==
    ASSUME StreamInv, NEW c \in Reader, Begins(c),
           UNCHANGED <<stream, owns, got, answer>>,
           UNCHANGED via \/ via' \in [Reader -> Endpoints \cup {"none"}]
    PROVE  StreamInv'
<1> DEFINE place == IF Cursor(c) = 0 THEN "range" ELSE "check"
<1>1. Move(c, place)
    BY DEF Begins
<1>2. place \in Places /\ place # "yield" /\ place # "blocked"
    BY DEF Places, Connected
<1> HIDE DEF place
<1>3. QED
    BY <1>1, <1>2, MoveStream

\* One that ends drops what was under way.
LEMMA EndsStream ==
    ASSUME StreamInv, NEW c \in Reader, NEW place \in Places,
           place \notin Connected, Ends(c, place), UNCHANGED <<stream, owns, got>>
    PROVE  StreamInv'
<1>1. via' \in [Reader -> Endpoints \cup {"none"}]
    BY DEF Ends, StreamInv, TypeOK
<1>2. place # "yield" /\ place # "blocked"
    BY DEF Connected
<1>3. QED
    BY <1>1, <1>2, MoveStream DEF Ends

\* So does one that breaks, wherever it leaves its reader.
LEMMA BreaksStream ==
    ASSUME StreamInv, NEW c \in Reader, Breaks(c), UNCHANGED <<stream, owns, got>>
    PROVE  StreamInv'
<1>1. \/ Ends(c, "told") \/ Ends(c, "away") \/ Ends(c, "gone")
    BY DEF Breaks
<1>2. \A place \in {"told", "away", "gone"} : place \in Places /\ place \notin Connected
    BY DEF Places, Connected
<1>3. QED
    BY <1>1, <1>2, EndsStream

\* What Redis answers to a call with a cursor continues behind it.
LEMMA NextAfterFollows ==
    ASSUME TypeOK, GotInv, NEW c \in Reader
    PROVE  /\ NextAfter(Cursor(c)) \in Nat
           /\ Cursor(c) < NextAfter(Cursor(c))
           /\ NextAfter(Cursor(c)) <= Len(events) + 1
           /\ Cursor(c) < Len(events) => NextAfter(Cursor(c)) <= Len(events)
           /\ \A i \in Ids : Cursor(c) < i /\ i < NextAfter(Cursor(c)) => i < first
<1>1. Len(events) \in Nat
    BY DEF TypeOK
<1>2. Cursor(c) \in Nat /\ Cursor(c) <= Len(events)
    BY CursorType
<1>3. QED
    BY <1>1, <1>2 DEF TypeOK, NextAfter, Ids

\* The two calls that read.
LEMMA AnsweredStream ==
    ASSUME StreamInv, NEW c \in Reader, NEW last \in Nat,
           last <= Len(events),
           Answered(c, NextAfter(Cursor(c)), last),
           UNCHANGED <<stream, owns, via, got>>
    PROVE  StreamInv'
<1> DEFINE next == NextAfter(Cursor(c))
<1>1. \A d \in Reader : Cursor(d)' = Cursor(d)
    BY DEF Cursor
<1>2. \A d \in Reader : d # c => at'[d] = at[d] /\ answer'[d] = answer[d]
    BY DEF StreamInv, TypeOK, Answered, Move
<1>3. /\ at'[c] = "yield" /\ answer'[c] = [next |-> next, last |-> last]
      /\ next \in Nat /\ Cursor(c) < next /\ next <= Len(events) + 1
      /\ \A i \in Ids : Cursor(c) < i /\ i < next => i < first
    BY NextAfterFollows DEF StreamInv, TypeOK, Answered, Move
<1>4. TypeOK'
    BY <1>3 DEF StreamInv, TypeOK, Answered, Move, Places, Connected, Answers, stream
<1>5. GotInv' /\ InOrder' /\ SkipsOnlyTrimmed'
    BY DEF StreamInv, GotInv, InOrder, SkipsOnlyTrimmed, Ids, stream
<1>6. AnswerInv'
    BY <1>1, <1>2, <1>3 DEF StreamInv, AnswerInv, Ids, stream
<1>7. BlockedInv'
    BY <1>1, <1>2, <1>3 DEF StreamInv, BlockedInv, stream
<1>8. QED
    BY <1>4, <1>5, <1>6, <1>7 DEF StreamInv

\* An event that is handed out is newer than all the reader has, and skips only
\* what was trimmed.
LEMMA YieldStream ==
    ASSUME StreamInv, NEW c \in Reader, Yield(c)
    PROVE  StreamInv'
<1> DEFINE id == answer[c].next
           n  == Len(got[c])
<1>1. /\ at[c] = "yield" /\ id \in Nat /\ answer[c].last \in Nat
      /\ id <= answer[c].last /\ got[c] \in Seq(Nat) /\ n \in Nat
      /\ Len(events) \in Nat
    BY DEF Yield, StreamInv, TypeOK, Answers
<1>2. /\ Cursor(c) < id /\ id <= Len(events)
      /\ got[c] # <<>> => \A i \in Ids : Cursor(c) < i /\ i < id => i < first
    BY <1>1 DEF StreamInv, AnswerInv
<1>3. Cursor(c) \in Nat /\ (Cursor(c) = 0 <=> got[c] = <<>>)
    BY CursorType DEF StreamInv
<1>4. /\ got'[c] = Append(got[c], id) /\ Len(got'[c]) = n + 1
      /\ got'[c][n + 1] = id /\ \A k \in 1 .. n : got'[c][k] = got[c][k]
      /\ got'[c] # <<>>
    BY <1>1 DEF Yield, StreamInv, TypeOK
<1>5. \A d \in Reader : d # c => /\ got'[d] = got[d] /\ Cursor(d)' = Cursor(d)
                                 /\ at'[d] = at[d] /\ answer'[d] = answer[d]
    BY DEF Yield, Ends, StreamInv, TypeOK, Move, Cursor
<1>6. UNCHANGED <<maxlen, events, first, owns>>
    BY DEF Yield, stream
<1>7. Cursor(c)' = id
    BY <1>4 DEF Cursor
<1>8. \/ at'[c] = "done"
      \/ at'[c] = "yield" /\ answer'[c] = [answer[c] EXCEPT !.next = id + 1]
    BY <1>1 DEF Yield, Ends, Move, StreamInv, TypeOK, Answers
<1>9. TypeOK'
    <2>1. got' \in [Reader -> Seq(Nat)]
        BY <1>1 DEF Yield, StreamInv, TypeOK
    <2>2. at' \in [Reader -> Places]
        BY DEF Yield, Ends, Move, StreamInv, TypeOK, Places
    <2>3. answer' \in [Reader -> Answers]
        <3>1. NoAnswer \in Answers /\ [answer[c] EXCEPT !.next = id + 1] \in Answers
            BY <1>1 DEF NoAnswer, Answers, StreamInv, TypeOK
        <3>2. \/ answer' = [answer EXCEPT ![c] = NoAnswer]
              \/ answer' = [answer EXCEPT ![c] = [answer[c] EXCEPT !.next = id + 1]]
            BY DEF Yield, Ends, StreamInv, TypeOK
        <3>3. QED
            BY <3>1, <3>2 DEF StreamInv, TypeOK
    <2>4. via' \in [Reader -> Endpoints \cup {"none"}]
        BY DEF Yield, Ends, StreamInv, TypeOK
    <2>5. QED
        BY <1>6, <2>1, <2>2, <2>3, <2>4 DEF StreamInv, TypeOK
<1>10. GotInv'
    <2>1. \A k \in 1 .. n + 1 : got'[c][k] \in 1 .. Len(events)
        BY <1>1, <1>2, <1>3, <1>4 DEF StreamInv, GotInv, Ids
    <2>2. QED
        BY <1>4, <1>5, <1>6, <2>1 DEF StreamInv, GotInv, Ids
<1>11. AnswerInv'
    <2>1. at'[c] = "yield" => /\ answer'[c].last = answer[c].last
                              /\ answer'[c].next = id + 1
        BY <1>1, <1>8 DEF StreamInv, TypeOK, Answers
    <2>2. answer[c].last <= Len(events)
        BY <1>1 DEF StreamInv, AnswerInv
    <2>3. at'[c] = "yield" =>
             /\ answer'[c].last <= Len(events)'
             /\ answer'[c].next <= Len(events)' + 1
             /\ Cursor(c)' < answer'[c].next
             /\ \A i \in Ids' : ~ (Cursor(c)' < i /\ i < answer'[c].next)
        BY <1>1, <1>2, <1>6, <1>7, <2>1, <2>2 DEF Ids
    <2>4. QED
        BY <1>5, <1>6, <2>3 DEF StreamInv, AnswerInv, Ids
<1>12. BlockedInv'
    BY <1>5, <1>6, <1>8 DEF StreamInv, BlockedInv
<1>13. \A k \in 1 .. n : got[c][k] <= Cursor(c) /\ got[c][k] \in Nat
    <2>1. \A k \in 1 .. n : k < n => got[c][k] < got[c][n]
        BY <1>1 DEF StreamInv, InOrder
    <2>2. n >= 1 => Cursor(c) = got[c][n]
        BY <1>1 DEF Cursor
    <2>3. \A k \in 1 .. n : got[c][k] \in Nat
        BY <1>1
    <2>4. SUFFICES ASSUME NEW k \in 1 .. n PROVE got[c][k] <= Cursor(c)
        BY <2>3
    <2>5. CASE k = n
        BY <1>1, <1>3, <2>2, <2>5
    <2>6. CASE k # n
        <3>1. k < n /\ n >= 1
            BY <1>1, <2>6
        <3>2. QED
            BY <1>3, <2>1, <2>2, <2>3, <3>1
    <2>7. QED
        BY <2>5, <2>6
<1>14. InOrder'
    <2>1. \A i, j \in 1 .. n + 1 : i < j => got'[c][i] < got'[c][j]
        <3> SUFFICES ASSUME NEW i \in 1 .. n + 1, NEW j \in 1 .. n + 1, i < j
                     PROVE  got'[c][i] < got'[c][j]
            OBVIOUS
        <3>1. CASE j = n + 1
            BY <1>1, <1>2, <1>3, <1>4, <1>13, <3>1, SMTT(30)
        <3>2. CASE j # n + 1
            BY <1>1, <1>4, <3>2 DEF StreamInv, InOrder
        <3>3. QED
            BY <3>1, <3>2
    <2>2. QED
        BY <1>4, <1>5, <2>1 DEF StreamInv, InOrder
<1>15. SkipsOnlyTrimmed'
    <2>1. \A k \in 2 .. n + 1 : \A i \in Ids :
             got'[c][k - 1] < i /\ i < got'[c][k] => i < first
        <3> SUFFICES ASSUME NEW k \in 2 .. n + 1, NEW i \in Ids,
                            got'[c][k - 1] < i, i < got'[c][k]
                     PROVE  i < first
            OBVIOUS
        <3>1. CASE k = n + 1
            <4>1. got[c] # <<>> /\ got'[c][k - 1] = Cursor(c)
                BY <1>1, <1>4, <3>1 DEF Cursor
            <4>2. QED
                BY <1>2, <1>4, <3>1, <4>1
        <3>2. CASE k # n + 1
            <4>1. k \in 2 .. n /\ k - 1 \in 1 .. n
                BY <1>1, <3>2
            <4>2. QED
                BY <1>4, <4>1 DEF StreamInv, SkipsOnlyTrimmed
        <3>3. QED
            BY <3>1, <3>2
    <2>2. QED
        BY <1>4, <1>5, <1>6, <2>1 DEF StreamInv, SkipsOnlyTrimmed, Ids
<1>16. QED
    BY <1>9, <1>10, <1>11, <1>12, <1>14, <1>15 DEF StreamInv

\* Every step keeps the invariant.
LEMMA NextStream == StreamInv /\ [Next]_vars => StreamInv'
<1> SUFFICES ASSUME StreamInv, [Next]_vars PROVE StreamInv'
    OBVIOUS
<1>1. ASSUME NEW kind \in Kinds, Publish(kind) PROVE StreamInv'
    BY <1>1, PublishStream
<1>2. ASSUME NEW c \in Reader, NEW endpoint \in Endpoints, Subscribes(c, endpoint)
      PROVE  StreamInv'
    <2>1. CASE owns[c]
        <3>1. Begins(c)
            BY <1>2, <2>1 DEF Subscribes
        <3>2. UNCHANGED <<stream, owns, got, answer>> /\ via' \in [Reader -> Endpoints \cup {"none"}]
            BY <1>2, <2>1 DEF Subscribes, StreamInv, TypeOK
        <3>3. QED
            BY <3>1, <3>2, BeginsStream
    <2>2. CASE ~ owns[c]
        <3>1. Move(c, "refused") /\ UNCHANGED <<stream, owns, via, got, answer>>
            BY <1>2, <2>2 DEF Subscribes
        <3>2. QED
            BY <3>1, MoveStream DEF Places
    <2>3. QED
        BY <2>1, <2>2
<1>3. ASSUME NEW c \in Reader, AwaitCompletion(c) PROVE StreamInv'
    <2>1. Begins(c) /\ UNCHANGED <<stream, owns, via, got, answer>>
        BY <1>3 DEF AwaitCompletion
    <2>2. QED
        BY <2>1, BeginsStream
<1>4. ASSUME NEW c \in Reader, CheckCursor(c) PROVE StreamInv'
    <2>1. CASE Before(Cursor(c), first)
        BY <1>4, <2>1, BreaksStream DEF CheckCursor
    <2>2. CASE ~ Before(Cursor(c), first)
        <3>1. Move(c, "range") /\ UNCHANGED <<stream, owns, via, got, answer>>
            BY <1>4, <2>2 DEF CheckCursor
        <3>2. QED
            BY <3>1, MoveStream DEF Places, Connected
    <2>3. QED
        BY <2>1, <2>2
<1>5. ASSUME NEW c \in Reader, Range(c) PROVE StreamInv'
    <2>1. Len(events) \in Nat
        BY DEF StreamInv, TypeOK
    <2>2. QED
        BY <1>5, <2>1, AnsweredStream DEF Range
<1>6. ASSUME NEW c \in Reader, Yield(c) PROVE StreamInv'
    BY <1>6, YieldStream
<1>7. ASSUME NEW c \in Reader, Exhausted(c) PROVE StreamInv'
    BY <1>7, MoveStream DEF Exhausted, Places, Connected
<1>8. ASSUME NEW c \in Reader, Read(c) PROVE StreamInv'
    <2>1. Cursor(c) \in Nat /\ Cursor(c) <= Len(events) /\ (Cursor(c) = 0 <=> got[c] = <<>>)
        BY CursorType DEF StreamInv
    <2>2. CASE Cursor(c) # 0 /\ Cursor(c) < Len(events)
        <3>1. NextAfter(Cursor(c)) \in Nat /\ NextAfter(Cursor(c)) <= Len(events)
            BY <2>2, NextAfterFollows DEF StreamInv
        <3>2. QED
            BY <1>8, <2>2, <3>1, AnsweredStream DEF Read
    <2>3. CASE ~ (Cursor(c) # 0 /\ Cursor(c) < Len(events))
        <3>1. got[c] # <<>> => Cursor(c) = Len(events)
            BY <2>1, <2>3 DEF StreamInv, TypeOK
        <3>2. QED
            BY <1>8, <2>3, <3>1, MoveStream DEF Read, Places, Connected
    <2>4. QED
        BY <2>2, <2>3
<1>9. ASSUME NEW c \in Reader, BlockEnds(c) PROVE StreamInv'
    BY <1>9, MoveStream DEF BlockEnds, Places, Connected
<1>10. ASSUME NEW c \in Reader, Leave(c) PROVE StreamInv'
    BY <1>10, EndsStream DEF Leave, Places, Connected
<1>11. ASSUME NEW c \in Reader, SubscriptionFails(c) PROVE StreamInv'
    BY <1>11, BreaksStream DEF SubscriptionFails
<1>12. ASSUME NEW c \in Reader, WaitTimesOut(c) PROVE StreamInv'
    BY <1>12, EndsStream DEF WaitTimesOut, Places, Connected
<1>13. CASE UNCHANGED vars
    BY <1>13 DEF vars, StreamInv, TypeOK, GotInv, AnswerInv, BlockedInv, InOrder,
                 SkipsOnlyTrimmed, Cursor, Ids
<1>14. QED
    BY <1>1, <1>2, <1>3, <1>4, <1>5, <1>6, <1>7, <1>8, <1>9, <1>10, <1>11, <1>12, <1>13
    DEF Next, Subscription, ConnectSse, ConnectWebSocket, Endpoints

\* Every reachable state is well typed.
THEOREM TypeCorrect == Spec => []TypeOK
<1>1. StreamInv => TypeOK
    BY DEF StreamInv
<1>2. QED
    BY <1>1, InitStream, NextStream, PTL DEF Spec

\* Whatever clients do and Redis trims, nobody gets an event twice or out of
\* order: subscribe's replay and live reads, resumed at Last-Event-ID.
THEOREM DeliveryInOrder == Spec => []InOrder
<1>1. StreamInv => InOrder
    BY DEF StreamInv
<1>2. QED
    BY <1>1, InitStream, NextStream, PTL DEF Spec

\* What is missing between two events a reader got was trimmed.
THEOREM NothingSkipped == Spec => []SkipsOnlyTrimmed
<1>1. StreamInv => SkipsOnlyTrimmed
    BY DEF StreamInv
<1>2. QED
    BY <1>1, InitStream, NextStream, PTL DEF Spec

=============================================================================
