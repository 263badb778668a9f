------------------------- MODULE ApiRateLimitProofs -------------------------
(***************************************************************************)
(* Proofs about ApiRateLimit, for any requests, users, limit and window.   *)
(* The argument: with prompt commands, whatever is admitted stays in the   *)
(* sorted set until it has left the window; so the last request admitted   *)
(* in a window has counted all the others.                                 *)
(***************************************************************************)
EXTENDS ApiRateLimit, FiniteSetTheorems, TLAPS

-----------------------------------------------------------------------------
(* Sets of requests are finite.                                             *)

LEMMA RequestsFinite ==
    ASSUME NEW S \in SUBSET Request
    PROVE  IsFiniteSet(S) /\ Cardinality(S) \in Nat
BY RequestAssumption, FS_Subset, FS_CardinalityType

LEMMA FewerRequests ==
    ASSUME NEW S \in SUBSET Request, NEW T \in SUBSET S
    PROVE  Cardinality(T) <= Cardinality(S)
BY RequestsFinite, FS_Subset

LEMMA CountedRequests ==
    ASSUME TypeOK, NEW r \in Request, user[r] \in User
    PROVE  /\ Counted(r) \in SUBSET Request
           /\ Cardinality(Counted(r)) \in Nat
<1>1. Counted(r) \in SUBSET Request
    BY DEF Counted, Stored, TypeOK
<1>2. QED
    BY <1>1, RequestsFinite

-----------------------------------------------------------------------------
(* Type correctness, with what is known of times and owners.                *)

TimesInv ==
    \A r \in Request :
        /\ time[r] <= clock
        /\ pc[r] \in Answered \cup {"counting"} => user[r] \in User
        /\ prompt /\ pc[r] = "counting" => time[r] = clock

LEMMA TypeInit == Init => TypeOK /\ TimesInv
BY LimitAssumption DEF Init, TypeOK, TimesInv, Places, Answered

LEMMA TypeNext == TypeOK /\ TimesInv /\ [Next]_vars => TypeOK' /\ TimesInv'
<1> SUFFICES ASSUME TypeOK, TimesInv, [Next]_vars
             PROVE  TypeOK' /\ TimesInv'
    OBVIOUS
<1>1. CASE Tick
    BY <1>1 DEF Tick, TypeOK, TimesInv, Answered
<1>2. ASSUME NEW r \in Request, Arrive(r)
      PROVE  TypeOK' /\ TimesInv'
    BY <1>2, RequestAssumption
       DEF Arrive, Goto, Limited, Unauthorized, TypeOK, TimesInv, Places, Answered
<1>3. ASSUME NEW r \in Request, Count(r)
      PROVE  TypeOK' /\ TimesInv'
    <2>1. user[r] \in User /\ pc[r] = "counting"
        BY <1>3 DEF Count, TimesInv
    <2>2. Counted(r) \in SUBSET Request /\ Cardinality(Counted(r)) \in Nat
        BY <2>1, CountedRequests
    <2>3. Remainder(Cardinality(Counted(r))) \in 0 .. Limit
        BY <2>2, LimitAssumption DEF Remainder
    <2>4. clock + Window + 1 \in Nat
        BY LimitAssumption DEF TypeOK
    <2>5. entries' \in [User -> SUBSET Request] /\ expires' \in [User -> Nat]
        BY <1>3, <2>1, <2>2, <2>4 DEF Count, Pipeline, TypeOK
    <2>6. remaining' \in [Request -> 0 .. Limit]
        BY <1>3, <2>3 DEF Count, TypeOK
    <2>7. pc' \in [Request -> Places] /\ TimesInv'
        BY <1>3, <2>1 DEF Count, Goto, TypeOK, TimesInv, Places, Answered
    <2>8. QED
        BY <1>3, <2>5, <2>6, <2>7 DEF Count, TypeOK
<1>4. ASSUME NEW r \in Request, FailOpen(r)
      PROVE  TypeOK' /\ TimesInv'
    <2>1. user[r] \in User /\ pc[r] = "counting"
        BY <1>4 DEF FailOpen, TimesInv
    <2>2. Counted(r) \in SUBSET Request
        BY <2>1, CountedRequests
    <2>3. clock + Window + 1 \in Nat
        BY LimitAssumption DEF TypeOK
    <2>4. entries' \in [User -> SUBSET Request] /\ expires' \in [User -> Nat]
        BY <1>4, <2>1, <2>2, <2>3 DEF FailOpen, Pipeline, TypeOK
    <2>5. remaining' \in [Request -> 0 .. Limit]
        BY <1>4, LimitAssumption DEF FailOpen, TypeOK
    <2>6. pc' \in [Request -> Places] /\ TimesInv'
        BY <1>4, <2>1 DEF FailOpen, Goto, TypeOK, TimesInv, Places, Answered
    <2>7. QED
        BY <1>4, <2>4, <2>5, <2>6 DEF FailOpen, TypeOK
<1>5. CASE UNCHANGED vars
    BY <1>5 DEF vars, TypeOK, TimesInv, Answered
<1>6. QED
    BY <1>1, <1>2, <1>3, <1>4, <1>5 DEF Next

\* Every variable keeps its type.
THEOREM TypeCorrect == Spec => []TypeOK
<1>1. Init => TypeOK /\ TimesInv
    BY TypeInit
<1>2. TypeOK /\ TimesInv /\ [Next]_vars => (TypeOK /\ TimesInv)'
    BY TypeNext
<1>3. QED
    BY <1>1, <1>2, PTL DEF Spec

-----------------------------------------------------------------------------
(* The sorted sets.                                                         *)

\* They hold answered requests of their user.
KeysInv ==
    \A u \in User : \A q \in entries[u] : user[q] = u /\ pc[q] \in Answered

\* A request that was admitted is still there, or has left the window.
KeptInv ==
    prompt => \A q \in Request : pc[q] = "admitted" =>
                  \/ time[q] + Window <= clock
                  \/ /\ q \in entries[user[q]]
                     /\ time[q] + Window < expires[user[q]]

SetsInv == TypeOK /\ TimesInv /\ KeysInv /\ KeptInv

LEMMA SetsInit == Init => SetsInv
<1>1. Init => KeysInv /\ KeptInv
    BY DEF Init, KeysInv, KeptInv
<1>2. QED
    BY <1>1, TypeInit DEF SetsInv

\* An admitted request in the window that ends now counts.
LEMMA AdmittedCounts ==
    ASSUME SetsInv, prompt, NEW r \in Request, pc[r] = "counting",
           NEW q \in Request, pc[q] = "admitted", user[q] = user[r],
           clock - Window < time[q]
    PROVE  q \in Counted(r)
<1>1. time[r] = clock /\ time[q] \in Nat /\ clock \in Nat /\ Window \in Nat
    BY LimitAssumption DEF SetsInv, TypeOK, TimesInv
<1>2. user[r] \in User /\ expires[user[r]] \in Nat
    BY DEF SetsInv, TypeOK, TimesInv
<1>3. q \in entries[user[r]] /\ time[q] + Window < expires[user[r]]
    BY <1>1 DEF SetsInv, KeptInv
<1>4. q \in Stored(user[r])
    BY <1>1, <1>2, <1>3 DEF Stored
<1>5. QED
    BY <1>1, <1>4 DEF Counted

LEMMA PipelineKeeps ==
    ASSUME SetsInv, NEW r \in Request, pc[r] = "counting", Pipeline(r),
           NEW place \in {"admitted", "refused", "waved"},
           pc' = [pc EXCEPT ![r] = place],
           UNCHANGED <<clock, prompt, user, time>>
    PROVE  KeysInv' /\ KeptInv'
<1>1. user[r] \in User /\ expires[user[r]] \in Nat
    BY DEF SetsInv, TypeOK, TimesInv
<1>2. /\ pc' \in [Request -> Places]
      /\ \A q \in Request \ {r} : pc'[q] = pc[q]
      /\ pc'[r] = place
    BY DEF SetsInv, TypeOK, Places, Answered
<1>3. /\ entries'[user[r]] = Counted(r)
      /\ expires'[user[r]] = clock + Window + 1
      /\ \A u \in User \ {user[r]} : entries'[u] = entries[u] /\ expires'[u] = expires[u]
    BY <1>1 DEF Pipeline, SetsInv, TypeOK
<1>4. KeysInv'
    <2> SUFFICES ASSUME NEW u \in User, NEW q \in entries'[u]
                 PROVE  user[q] = u /\ pc'[q] \in Answered
        BY DEF KeysInv
    <2>1. CASE u = user[r] /\ q # r
        <3>1. q \in entries[u]
            BY <1>3, <2>1 DEF Counted, Stored
        <3>2. QED
            BY <1>2, <2>1, <3>1 DEF SetsInv, TypeOK, KeysInv
    <2>2. CASE u = user[r] /\ q = r
        BY <1>2, <2>2 DEF Answered
    <2>3. CASE u # user[r]
        <3>1. q \in entries[u] /\ q # r
            BY <1>3, <2>3 DEF SetsInv, KeysInv, Answered
        <3>2. QED
            BY <1>2, <3>1 DEF SetsInv, TypeOK, KeysInv
    <2>4. QED
        BY <2>1, <2>2, <2>3
<1>5. KeptInv'
    <2> SUFFICES ASSUME prompt, NEW q \in Request, pc'[q] = "admitted",
                        ~(time[q] + Window <= clock)
                 PROVE  /\ q \in entries'[user[q]]
                        /\ time[q] + Window < expires'[user[q]]
        BY DEF KeptInv
    <2>1. time[q] \in Nat /\ clock \in Nat /\ Window \in Nat /\ time[q] <= clock
        BY LimitAssumption DEF SetsInv, TypeOK, TimesInv
    <2>2. CASE q = r
        BY <1>3, <2>1, <2>2 DEF Counted
    <2>3. CASE q # r
        <3>1. pc[q] = "admitted"
            BY <1>2, <2>3
        <3>2. CASE user[q] = user[r]
            <4>1. q \in Counted(r)
                BY <2>1, <3>1, <3>2, AdmittedCounts
            <4>2. QED
                BY <1>3, <2>1, <3>2, <4>1
        <3>3. CASE user[q] # user[r]
            <4>1. user[q] \in User
                BY <3>1 DEF SetsInv, TimesInv, Answered
            <4>2. QED
                BY <1>3, <3>1, <3>3, <4>1 DEF SetsInv, KeptInv
        <3>4. QED
            BY <3>2, <3>3
    <2>4. QED
        BY <2>2, <2>3
<1>6. QED
    BY <1>4, <1>5

LEMMA SetsNext == SetsInv /\ [Next]_vars => SetsInv'
<1> SUFFICES ASSUME SetsInv, [Next]_vars
             PROVE  KeysInv' /\ KeptInv'
    BY TypeNext DEF SetsInv
<1>1. CASE Tick
    BY <1>1, LimitAssumption DEF Tick, SetsInv, TypeOK, KeysInv, KeptInv
<1>2. ASSUME NEW r \in Request, Arrive(r)
      PROVE  KeysInv' /\ KeptInv'
    <2>1. /\ pc[r] = "idle" /\ pc'[r] \notin Answered
          /\ \A q \in Request \ {r} :
                pc'[q] = pc[q] /\ user'[q] = user[q] /\ time'[q] = time[q]
        BY <1>2 DEF Arrive, Goto, SetsInv, TypeOK, Places, Answered
    <2>2. \A u \in User : r \notin entries[u]
        BY <2>1 DEF SetsInv, KeysInv, Answered
    <2>3. UNCHANGED <<clock, prompt, entries, expires>>
        BY <1>2 DEF Arrive
    <2>4. KeysInv'
        BY <2>1, <2>2, <2>3 DEF SetsInv, TypeOK, KeysInv
    <2>5. KeptInv'
        BY <2>1, <2>3 DEF SetsInv, KeptInv, Answered
    <2>6. QED
        BY <2>4, <2>5
<1>3. ASSUME NEW r \in Request, Count(r)
      PROVE  KeysInv' /\ KeptInv'
    <2>1. \E place \in {"admitted", "refused", "waved"} : pc' = [pc EXCEPT ![r] = place]
        BY <1>3 DEF Count, Goto
    <2>2. QED
        BY <1>3, <2>1, PipelineKeeps DEF Count
<1>4. ASSUME NEW r \in Request, FailOpen(r)
      PROVE  KeysInv' /\ KeptInv'
    <2>1. pc[r] = "counting" /\ pc' = [pc EXCEPT ![r] = "waved"]
          /\ UNCHANGED <<clock, prompt, user, time>>
        BY <1>4 DEF FailOpen, Goto
    <2>2. CASE Pipeline(r)
        BY <2>1, <2>2, PipelineKeeps
    <2>3. CASE UNCHANGED <<entries, expires>>
        <3>1. /\ \A q \in Request \ {r} : pc'[q] = pc[q]
              /\ pc'[r] = "waved"
            BY <2>1 DEF SetsInv, TypeOK
        <3>2. QED
            BY <2>1, <2>3, <3>1 DEF SetsInv, TypeOK, KeysInv, KeptInv, Answered
    <2>4. QED
        BY <1>4, <2>2, <2>3 DEF FailOpen
<1>5. CASE UNCHANGED vars
    BY <1>5 DEF vars, SetsInv, KeysInv, KeptInv
<1>6. QED
    BY <1>1, <1>2, <1>3, <1>4, <1>5 DEF Next

-----------------------------------------------------------------------------
(* What was answered stays as it was.                                       *)

LEMMA AnsweredStay ==
    ASSUME SetsInv, [Next]_vars, NEW q \in Request, pc[q] \in Answered
    PROVE  pc'[q] = pc[q] /\ user'[q] = user[q] /\ time'[q] = time[q]
<1>1. CASE Tick
    BY <1>1 DEF Tick
<1>2. ASSUME NEW r \in Request, Arrive(r)
      PROVE  pc'[q] = pc[q] /\ user'[q] = user[q] /\ time'[q] = time[q]
    BY <1>2 DEF Arrive, Goto, SetsInv, TypeOK, Answered
<1>3. ASSUME NEW r \in Request, Count(r) \/ FailOpen(r)
      PROVE  pc'[q] = pc[q] /\ user'[q] = user[q] /\ time'[q] = time[q]
    <2>1. /\ pc[r] = "counting" /\ UNCHANGED <<user, time>>
          /\ \E place \in Places : pc' = [pc EXCEPT ![r] = place]
        BY <1>3 DEF Count, FailOpen, Goto, Places, Answered
    <2>2. QED
        BY <2>1 DEF SetsInv, TypeOK, Answered
<1>4. CASE UNCHANGED vars
    BY <1>4 DEF vars
<1>5. QED
    BY <1>1, <1>2, <1>3, <1>4 DEF Next

-----------------------------------------------------------------------------
(* No window holds more admitted requests than the limit.                   *)

\* A window of the next state that holds nothing new is no fuller.
LEMMA NoFuller ==
    ASSUME SetsInv, WindowLimit, prompt, NEW u \in User, NEW t \in 0 .. clock,
           NEW S \in SUBSET Within(u, t, {"admitted"})
    PROVE  Cardinality(S) <= Limit
<1>1. Within(u, t, {"admitted"}) \in SUBSET Request
    BY DEF Within
<1>2. Cardinality(S) <= Cardinality(Within(u, t, {"admitted"}))
    BY <1>1, FewerRequests
<1>3. Cardinality(Within(u, t, {"admitted"})) <= Limit
    BY DEF WindowLimit
<1>4. S \in SUBSET Request
    BY <1>1
<1>5. /\ Cardinality(S) \in Nat /\ Limit \in Nat
      /\ Cardinality(Within(u, t, {"admitted"})) \in Nat
    BY <1>1, <1>4, RequestsFinite, LimitAssumption
<1>6. QED
    BY <1>2, <1>3, <1>5

LEMMA WindowNext == SetsInv /\ WindowLimit /\ [Next]_vars => WindowLimit'
<1> SUFFICES ASSUME SetsInv, WindowLimit, [Next]_vars, prompt',
                    NEW u \in User, NEW t \in 0 .. clock'
             PROVE  Cardinality(Within(u, t, {"admitted"})') <= Limit
    BY DEF WindowLimit
<1> DEFINE Now == Within(u, t, {"admitted"})
<1>1. prompt
    BY DEF Next, Tick, Arrive, Count, FailOpen, vars
<1>2. clock \in Nat /\ Window \in Nat /\ time \in [Request -> Nat]
    BY LimitAssumption DEF SetsInv, TypeOK
<1>3. CASE Tick
    <2>1. clock' = clock + 1 /\ UNCHANGED <<pc, user, time>>
        BY <1>3 DEF Tick
    <2>2. CASE t \in 0 .. clock
        <3>1. Now' \in SUBSET Within(u, t, {"admitted"})
            BY <2>1 DEF Within
        <3>2. QED
            BY <1>1, <2>2, <3>1, NoFuller
    <2>3. CASE t = clock + 1
        <3>1. \A q \in Request : time[q] <= clock
            BY DEF SetsInv, TimesInv
        <3>2. Now' \in SUBSET Within(u, clock, {"admitted"})
            BY <1>2, <2>1, <2>3, <3>1 DEF Within
        <3>3. clock \in 0 .. clock
            BY <1>2
        <3>4. QED
            BY <1>1, <3>2, <3>3, NoFuller
    <2>4. QED
        BY <1>2, <2>1, <2>2, <2>3
<1>4. ASSUME NEW r \in Request, Arrive(r)
      PROVE  Cardinality(Now') <= Limit
    <2>1. /\ pc'[r] # "admitted" /\ clock' = clock
          /\ \A q \in Request \ {r} :
                pc'[q] = pc[q] /\ user'[q] = user[q] /\ time'[q] = time[q]
        BY <1>4 DEF Arrive, Goto, SetsInv, TypeOK, Answered
    <2>2. Now' \in SUBSET Within(u, t, {"admitted"})
        BY <2>1 DEF Within
    <2>3. QED
        BY <1>1, <2>1, <2>2, NoFuller
<1>5. ASSUME NEW r \in Request, Count(r)
      PROVE  Cardinality(Now') <= Limit
    <2>1. /\ pc[r] = "counting" /\ UNCHANGED <<clock, user, time>>
          /\ \A q \in Request \ {r} : pc'[q] = pc[q]
        BY <1>5 DEF Count, Goto, SetsInv, TypeOK
    <2>2. user[r] \in User /\ time[r] = clock
        BY <1>1, <2>1 DEF SetsInv, TimesInv
    <2>3. CASE r \in Now'
        <3>1. pc'[r] = "admitted" /\ u = user[r] /\ clock <= t
            BY <2>1, <2>2, <2>3 DEF Within
        <3>2. t = clock
            BY <1>2, <2>1, <3>1
        <3>3. Counted(r) \in SUBSET Request /\ Cardinality(Counted(r)) \in Nat
            BY <2>2, CountedRequests DEF SetsInv
        <3>4. Cardinality(Counted(r)) <= Limit
            <4>1. pc'[r] = IF Cardinality(Counted(r)) <= Limit
                           THEN "admitted" ELSE "refused"
                BY <1>5 DEF Count, Goto, SetsInv, TypeOK
            <4>2. QED
                BY <3>1, <4>1
        <3>5. Now' \in SUBSET Counted(r)
            <4> SUFFICES ASSUME NEW q \in Now'
                         PROVE  q \in Counted(r)
                OBVIOUS
            <4>1. CASE q = r
                BY <4>1 DEF Counted
            <4>2. CASE q # r
                <5>1. /\ q \in Request /\ pc[q] = "admitted"
                      /\ user[q] = user[r] /\ clock - Window < time[q]
                    BY <2>1, <3>1, <3>2, <4>2 DEF Within
                <5>2. QED
                    BY <1>1, <2>1, <5>1, AdmittedCounts
            <4>3. QED
                BY <4>1, <4>2
        <3>6. Cardinality(Now') <= Cardinality(Counted(r))
            BY <3>3, <3>5, FewerRequests
        <3>7. Now' \in SUBSET Request
            BY <3>3, <3>5
        <3>8. Cardinality(Now') \in Nat /\ Limit \in Nat
            BY <3>7, RequestsFinite, LimitAssumption
        <3>9. QED
            BY <3>3, <3>4, <3>6, <3>8
    <2>4. CASE r \notin Now'
        <3>1. Now' \in SUBSET Within(u, t, {"admitted"})
            BY <2>1, <2>4 DEF Within
        <3>2. QED
            BY <1>1, <2>1, <3>1, NoFuller
    <2>5. QED
        BY <2>3, <2>4
<1>6. ASSUME NEW r \in Request, FailOpen(r)
      PROVE  Cardinality(Now') <= Limit
    <2>1. /\ UNCHANGED <<clock, user, time>> /\ pc'[r] = "waved"
          /\ \A q \in Request \ {r} : pc'[q] = pc[q]
        BY <1>6 DEF FailOpen, Goto, SetsInv, TypeOK
    <2>2. Now' \in SUBSET Within(u, t, {"admitted"})
        BY <2>1 DEF Within
    <2>3. QED
        BY <1>1, <2>1, <2>2, NoFuller
<1>7. CASE UNCHANGED vars
    <2>1. Now' \in SUBSET Within(u, t, {"admitted"}) /\ clock' = clock
        BY <1>7 DEF Within, vars
    <2>2. QED
        BY <1>1, <2>1, NoFuller
<1>8. QED
    BY <1>3, <1>4, <1>5, <1>6, <1>7 DEF Next

\* Whatever the interleaving, and though keys expire and replies get lost, no
\* window of a user holds more admitted requests than the limit.
THEOREM WindowRespected == Spec => []WindowLimit
<1>1. Init => WindowLimit
    <2> SUFFICES ASSUME Init, NEW u \in User, NEW t \in 0 .. clock
                 PROVE  Cardinality(Within(u, t, {"admitted"})) <= Limit
        BY DEF WindowLimit
    <2>1. Within(u, t, {"admitted"}) = {}
        BY DEF Init, Within
    <2>2. QED
        BY <2>1, FS_EmptySet, LimitAssumption
<1>2. SetsInv /\ WindowLimit /\ [Next]_vars => (SetsInv /\ WindowLimit)'
    BY SetsNext, WindowNext
<1>3. QED
    BY <1>1, <1>2, SetsInit, PTL DEF Spec

-----------------------------------------------------------------------------
(* Nobody is refused for what others did, or for what he did long ago.      *)

LEMMA RefusalNext == SetsInv /\ RefusalJustified /\ [Next]_vars => RefusalJustified'
<1> SUFFICES ASSUME SetsInv, RefusalJustified, [Next]_vars, prompt',
                    NEW r \in Request, pc'[r] = "refused"
             PROVE  Cardinality(Within(user[r], time[r], Answered)' \ {r}) >= Limit
    BY DEF RefusalJustified
<1> DEFINE Others == Within(user[r], time[r], Answered) \ {r}
<1>1. prompt
    BY DEF Next, Tick, Arrive, Count, FailOpen, vars
<1>2. Others' \in SUBSET Request
    BY DEF Within
<1>3. Cardinality(Others') \in Nat /\ Limit \in Nat
    BY <1>2, RequestsFinite, LimitAssumption
<1>4. CASE pc[r] = "refused"
    <2>1. user'[r] = user[r] /\ time'[r] = time[r]
        BY <1>4, AnsweredStay DEF Answered
    <2>2. Others \in SUBSET Others'
        BY <2>1, AnsweredStay DEF Within
    <2>3. Others \in SUBSET Request
        BY DEF Within
    <2>4. Cardinality(Others) >= Limit
        BY <1>1, <1>4 DEF RefusalJustified
    <2>5. Cardinality(Others) <= Cardinality(Others')
        BY <1>2, <2>2, FewerRequests
    <2>6. Cardinality(Others) \in Nat
        BY <2>3, RequestsFinite
    <2>7. QED
        BY <1>3, <2>4, <2>5, <2>6
<1>5. CASE pc[r] # "refused"
    <2>1. Count(r)
        <3>1. ~Tick /\ ~UNCHANGED vars
            BY <1>5 DEF Tick, vars
        <3>2. ASSUME NEW q \in Request, Arrive(q)
              PROVE  FALSE
            BY <1>5, <3>2 DEF Arrive, Goto, SetsInv, TypeOK
        <3>3. ASSUME NEW q \in Request, FailOpen(q)
              PROVE  FALSE
            BY <1>5, <3>3 DEF FailOpen, Goto, SetsInv, TypeOK
        <3>4. ASSUME NEW q \in Request, Count(q), q # r
              PROVE  FALSE
            BY <1>5, <3>4 DEF Count, Goto, SetsInv, TypeOK
        <3>5. QED
            BY <3>1, <3>2, <3>3, <3>4 DEF Next
    <2>2. pc[r] = "counting" /\ UNCHANGED <<user, time>>
          /\ \A q \in Request \ {r} : pc'[q] = pc[q]
        BY <2>1 DEF Count, Goto, SetsInv, TypeOK
    <2>3. user[r] \in User /\ time[r] = clock
        BY <1>1, <2>2 DEF SetsInv, TimesInv
    <2>4. Counted(r) \in SUBSET Request /\ Cardinality(Counted(r)) \in Nat
        BY <2>3, CountedRequests DEF SetsInv
    <2>5. ~(Cardinality(Counted(r)) <= Limit)
        BY <2>1 DEF Count, Goto, SetsInv, TypeOK
    <2>6. Counted(r) \ {r} \in SUBSET Others'
        <3> SUFFICES ASSUME NEW q \in Counted(r), q # r
                     PROVE  q \in Others'
            OBVIOUS
        <3>1. q \in entries[user[r]] /\ time[q] > time[r] - Window
            BY DEF Counted, Stored
        <3>2. q \in Request
            BY <2>4
        <3>3. user[q] = user[r] /\ pc[q] \in Answered /\ time[q] <= time[r]
            BY <2>3, <3>1, <3>2 DEF SetsInv, KeysInv, TimesInv
        <3>4. time[q] \in Nat /\ time[r] \in Nat /\ Window \in Nat
            BY <3>2, LimitAssumption DEF SetsInv, TypeOK
        <3>5. QED
            BY <2>2, <3>1, <3>2, <3>3, <3>4 DEF Within
    <2>7. Cardinality(Counted(r) \ {r}) <= Cardinality(Others')
        BY <1>2, <2>6, FewerRequests
    <2>8. Cardinality(Counted(r) \ {r}) = Cardinality(Counted(r)) - 1
        <3>1. IsFiniteSet(Counted(r)) /\ r \in Counted(r)
            BY <2>4, RequestsFinite DEF Counted
        <3>2. QED
            BY <3>1, FS_RemoveElement
    <2>9. QED
        BY <1>3, <2>4, <2>5, <2>7, <2>8
<1>6. QED
    BY <1>4, <1>5

\* Whoever is refused has asked at least Limit times more in the window that
\* ends with the request.
THEOREM RefusedForAReason == Spec => []RefusalJustified
<1>1. Init => RefusalJustified
    BY DEF Init, RefusalJustified
<1>2. SetsInv /\ RefusalJustified /\ [Next]_vars => (SetsInv /\ RefusalJustified)'
    BY SetsNext, RefusalNext
<1>3. QED
    BY <1>1, <1>2, SetsInit, PTL DEF Spec

=============================================================================
