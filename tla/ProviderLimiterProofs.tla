----------------------- MODULE ProviderLimiterProofs -----------------------
(***************************************************************************)
(* Proofs about ProviderLimiter, for any calls, limits, needs, debits and  *)
(* waits.                                                                  *)
(***************************************************************************)
EXTENDS ProviderLimiter, TLAPS

-----------------------------------------------------------------------------
(* Type correctness.                                                        *)

LEMMA Capacities == Rpm \in Nat /\ Tpm \in Nat /\ Rpm >= RpmRate /\ Tpm >= TpmRate
                    /\ Minute \in Nat /\ Minute > 0 /\ RpmRate \in Nat /\ TpmRate \in Nat
                    /\ RpmRate > 0 /\ TpmRate > 0
<1>1. Minute \in Nat \ {0} /\ RpmRate \in Nat \ {0} /\ TpmRate \in Nat \ {0}
    BY LimiterAssumption
<1>2. \A m, r \in Nat \ {0} : m * r \in Nat /\ m * r >= r
    OBVIOUS
<1>3. QED
    BY <1>1, <1>2 DEF Rpm, Tpm

\* What a script finds, and what it makes of it, are buckets.
LEMMA StoredType ==
    ASSUME TypeOK, NEW t \in Nat
    PROVE  Stored(t) \in Bucket /\ Stored(t).tpm <= Tpm
BY Capacities DEF TypeOK, Stored, FullBucket, Bucket

LEMMA RefilledType ==
    ASSUME NEW b \in Bucket, b.tpm <= Tpm, NEW t \in Nat
    PROVE  /\ Refilled(b, t) \in Bucket
           /\ Refilled(b, t).tpm <= Tpm
           /\ Refilled(b, t).last = t
           /\ Refilled(b, t).rpm = Least(Rpm, b.rpm + RpmRate * Elapsed(b.last, t))
           /\ Refilled(b, t).tpm = Least(Tpm, b.tpm + TpmRate * Elapsed(b.last, t))
<1> DEFINE e == Elapsed(b.last, t)
<1>1. e \in Nat
    BY DEF Elapsed, Bucket
<1>2. RpmRate * e \in Nat /\ TpmRate * e \in Nat
    BY <1>1, Capacities
<1>3. Least(Rpm, b.rpm + RpmRate * e) \in 0 .. Rpm
    BY <1>2, Capacities DEF Least, Bucket
<1>4. Least(Tpm, b.tpm + TpmRate * e) \in Int /\ Least(Tpm, b.tpm + TpmRate * e) <= Tpm
    BY <1>2, Capacities DEF Least, Bucket
<1>5. QED
    BY <1>3, <1>4 DEF Refilled, Bucket

LEMMA OfferType ==
    ASSUME TypeOK, NEW x \in Call
    PROVE  /\ time[x] \in Nat /\ tokens[x] \in Nat
           /\ Offer(x) \in Bucket /\ Offer(x).tpm <= Tpm /\ Offer(x).last = time[x]
BY StoredType, RefilledType DEF TypeOK, Offer

LEMMA StoreType ==
    ASSUME TypeOK, NEW b \in Bucket, b.tpm <= Tpm, Store(b)
    PROVE  /\ bucket' \in Bucket /\ bucket'.tpm <= Tpm
           /\ bucket'.rpm = b.rpm /\ bucket'.tpm = b.tpm /\ bucket'.last = b.last
           /\ bucket'.expires = clock + 2 * Minute
<1>1. clock + 2 * Minute \in Nat
    BY Capacities DEF TypeOK
<1>2. QED
    BY <1>1 DEF Store, Bucket

KeyTypes ==
    /\ bucket \in Bucket /\ bucket.tpm <= Tpm
    /\ backoff \in [until : Nat, expires : Nat]
    /\ reserved \in [rpm : Nat, tpm : Nat]
    /\ debited \in Nat
    /\ asked \in Nat

LEMMA CheckScriptType ==
    ASSUME TypeOK, NEW x \in Call, CheckScript(x)
    PROVE  KeyTypes'
BY OfferType, StoreType DEF CheckScript, TypeOK, KeyTypes, history

LEMMA ReserveScriptType ==
    ASSUME TypeOK, NEW x \in Call, ReserveScript(x)
    PROVE  /\ KeyTypes'
           /\ bucket'.rpm = Offer(x).rpm - 1 /\ bucket'.tpm = Offer(x).tpm - tokens[x]
           /\ bucket'.tpm >= 0 /\ bucket'.last = time[x]
           /\ bucket'.expires = clock + 2 * Minute
<1> DEFINE b == [Offer(x) EXCEPT !.rpm = @ - 1, !.tpm = @ - tokens[x]]
<1>1. /\ Offer(x) \in Bucket /\ Offer(x).tpm <= Tpm /\ Offer(x).last = time[x]
      /\ tokens[x] \in Nat
    BY OfferType
<1>2. Offer(x).rpm >= 1 /\ Offer(x).tpm >= tokens[x]
    BY DEF ReserveScript, Admits, Covered
<1>3. /\ b \in Bucket /\ b.tpm <= Tpm /\ b.tpm >= 0
      /\ b.rpm = Offer(x).rpm - 1 /\ b.tpm = Offer(x).tpm - tokens[x] /\ b.last = time[x]
    <2>1. Offer(x).rpm \in 0 .. Rpm /\ Offer(x).tpm \in Int
        BY <1>1 DEF Bucket
    <2>2. Offer(x).rpm - 1 \in 0 .. Rpm /\ Offer(x).tpm - tokens[x] \in Int
        BY <2>1, <1>1, <1>2, Capacities
    <2>3. Offer(x).tpm - tokens[x] <= Tpm /\ Offer(x).tpm - tokens[x] >= 0
        BY <2>1, <1>1, <1>2, Capacities
    <2> DEFINE o == Offer(x)
               r == o.rpm - 1
               t == o.tpm - tokens[x]
    <2>4. b = [o EXCEPT !.rpm = r, !.tpm = t]
        OBVIOUS
    <2>5. o \in Bucket /\ r \in 0 .. Rpm /\ t \in Int /\ t <= Tpm /\ t >= 0 /\ o.last = time[x]
        BY <1>1, <2>2, <2>3
    <2> HIDE DEF o, r, t, b
    <2>6. /\ b \in Bucket /\ b.rpm = r /\ b.tpm = t /\ b.last = o.last
        BY <2>4, <2>5 DEF Bucket
    <2>7. QED
        BY <2>5, <2>6 DEF o, r, t
<1>4. Store(b)
    BY DEF ReserveScript
<1>5. /\ bucket' \in Bucket /\ bucket'.tpm <= Tpm
      /\ bucket'.rpm = b.rpm /\ bucket'.tpm = b.tpm /\ bucket'.last = b.last
      /\ bucket'.expires = clock + 2 * Minute
    <2> HIDE DEF b
    <2>1. QED
        BY <1>3, <1>4, StoreType
<1>6. reserved' \in [rpm : Nat, tpm : Nat]
    BY <1>1 DEF ReserveScript, TypeOK
<1>7. QED
    BY <1>3, <1>5, <1>6 DEF ReserveScript, TypeOK, KeyTypes

LEMMA SettleScriptType ==
    ASSUME TypeOK, NEW x \in Call, SettleScript(x)
    PROVE  /\ KeyTypes'
           /\ bucket'.rpm = Stored(time[x]).rpm
           /\ bucket'.tpm = Offer(x).tpm - tokens[x]
           /\ bucket'.last = time[x]
           /\ bucket'.expires = clock + 2 * Minute
<1> DEFINE s == Stored(time[x])
           b == [s EXCEPT !.tpm = Refilled(s, time[x]).tpm - tokens[x], !.last = time[x]]
<1>1. s \in Bucket /\ s.tpm <= Tpm /\ time[x] \in Nat /\ tokens[x] \in Nat
    BY StoredType DEF TypeOK
<1>2. Refilled(s, time[x]).tpm \in Int /\ Refilled(s, time[x]).tpm <= Tpm
    <2> HIDE DEF s
    <2>1. QED
        BY <1>1, RefilledType DEF Bucket
<1>3. /\ b \in Bucket /\ b.tpm <= Tpm /\ b.rpm = s.rpm /\ b.last = time[x]
      /\ b.tpm = Refilled(s, time[x]).tpm - tokens[x]
    <2> DEFINE l == time[x]
               t == Refilled(s, time[x]).tpm - tokens[x]
    <2>1. b = [s EXCEPT !.tpm = t, !.last = l]
        OBVIOUS
    <2>2. t \in Int /\ t <= Tpm /\ l \in Nat
        <3> HIDE DEF s
        <3>1. QED
            BY <1>1, <1>2, Capacities
    <2> HIDE DEF s, l, t, b
    <2>3. b \in Bucket /\ b.rpm = s.rpm /\ b.tpm = t /\ b.last = l
        BY <2>1, <2>2, <1>1 DEF Bucket
    <2>4. QED
        BY <2>2, <2>3 DEF l, t
<1>4. Store(b)
    BY DEF SettleScript
<1>5. /\ bucket' \in Bucket /\ bucket'.tpm <= Tpm
      /\ bucket'.rpm = b.rpm /\ bucket'.tpm = b.tpm /\ bucket'.last = b.last
      /\ bucket'.expires = clock + 2 * Minute
    <2> HIDE DEF b
    <2>1. QED
        BY <1>3, <1>4, StoreType
<1>6. debited' \in Nat
    BY <1>1 DEF SettleScript, TypeOK
<1>7. QED
    BY <1>3, <1>5, <1>6 DEF SettleScript, TypeOK, KeyTypes, Offer

LEMMA ReportScriptType ==
    ASSUME TypeOK, NEW x \in Call, NEW wait \in RetryAfters, ReportScript(x, wait)
    PROVE  KeyTypes'
<1>1. wait \in Nat
    BY LimiterAssumption
<1>2. QED
    BY <1>1 DEF ReportScript, TypeOK, KeyTypes

\* A wait is a number of ticks, so that a sleeping call wakes at some time.
LEMMA TicksForType ==
    ASSUME NEW missing \in Int, NEW rate \in Nat \ {0}
    PROVE  TicksFor(missing, rate) \in Nat
<1>1. \A a \in Nat, r \in Nat \ {0} : a \div r \in Nat
    OBVIOUS
<1>2. CASE missing <= 0
    BY <1>2 DEF TicksFor
<1>3. CASE missing > 0
    <2>1. missing + rate - 1 \in Nat
        BY <1>3
    <2>2. (missing + rate - 1) \div rate \in Nat
        BY <1>1, <2>1
    <2>3. QED
        BY <1>3, <2>2 DEF TicksFor
<1>4. QED
    BY <1>2, <1>3

LEMMA RetryAfterType ==
    ASSUME TypeOK, NEW x \in Call
    PROVE  RetryAfter(x) \in Nat
<1>1. CASE BackingOff(x)
    <2>1. time[x] \in Nat /\ backoff.until \in Nat /\ time[x] < backoff.until
        BY <1>1 DEF BackingOff, TypeOK
    <2>2. QED
        BY <1>1, <2>1 DEF RetryAfter
<1>2. CASE ~ BackingOff(x)
    <2>1. Offer(x).rpm \in Int /\ Offer(x).tpm \in Int /\ tokens[x] \in Nat
        BY OfferType, Capacities DEF Bucket
    <2>2. 1 - Offer(x).rpm \in Int /\ tokens[x] - Offer(x).tpm \in Int
        BY <2>1
    <2>3. RpmRate \in Nat \ {0} /\ TpmRate \in Nat \ {0}
        BY LimiterAssumption
    <2>4. /\ TicksFor(1 - Offer(x).rpm, RpmRate) \in Nat
          /\ TicksFor(tokens[x] - Offer(x).tpm, TpmRate) \in Nat
        BY <2>2, <2>3, TicksForType
    <2>5. QED
        BY <1>2, <2>4 DEF RetryAfter
<1>3. QED
    BY <1>1, <1>2

\* What a call changes of itself.
CallTypes ==
    /\ pc \in [Call -> Places]
    /\ time \in [Call -> Nat]

LEMMA GotoType ==
    ASSUME TypeOK, NEW x \in Call, NEW place \in Places, Goto(x, place)
    PROVE  pc' \in [Call -> Places]
BY DEF TypeOK, Goto

LEMMA SendType ==
    ASSUME TypeOK, NEW x \in Call, NEW place \in Places, Send(x, place)
    PROVE  CallTypes'
BY DEF TypeOK, Send, Goto, CallTypes

LEMMA TurnDownType ==
    ASSUME TypeOK, NEW x \in Call, NEW wait \in Nat, TurnDown(x, wait)
    PROVE  CallTypes'
<1>1. "sleeping" \in Places /\ "refused" \in Places
    BY DEF Places
<1>2. pc' \in [Call -> Places]
    BY <1>1, GotoType DEF TurnDown
<1>3. clock + wait \in Nat
    BY DEF TypeOK
<1>4. time' \in [Call -> Nat]
    BY <1>3 DEF TurnDown, TypeOK
<1>5. QED
    BY <1>2, <1>4 DEF CallTypes

LEMMA NothingType ==
    ASSUME TypeOK, Nothing
    PROVE  KeyTypes'
BY DEF Nothing, keys, history, TypeOK, KeyTypes

LEMMA AcquireScriptType ==
    ASSUME TypeOK, NEW x \in Call, AcquireScript(x)
    PROVE  KeyTypes'
BY CheckScriptType, ReserveScriptType DEF AcquireScript

\* Every step keeps the types.
LEMMA TypeStep == TypeOK /\ [Next]_vars => TypeOK'
<1> SUFFICES ASSUME TypeOK, [Next]_vars PROVE TypeOK'
    OBVIOUS
<1> USE DEF fixed
<1>1. CASE Tick
    BY <1>1 DEF Tick, TypeOK, keys, history
<1>2. ASSUME NEW x \in Call, Submit(x) PROVE TypeOK'
    <2>1. KeyTypes'
        BY <1>2, NothingType DEF Submit
    <2>2. CallTypes'
        <3>1. CASE Send(x, "checking")
            BY <3>1, SendType DEF Places, Underway
        <3>2. CASE Goto(x, "queued") /\ UNCHANGED time
            BY <3>2, GotoType DEF Places, CallTypes, TypeOK
        <3>3. QED
            BY <1>2, <3>1, <3>2 DEF Submit
    <2>3. QED
        BY <1>2, <2>1, <2>2 DEF Submit, TypeOK, KeyTypes, CallTypes
<1>3. ASSUME NEW x \in Call, Check(x) PROVE TypeOK'
    <2>1. KeyTypes'
        BY <1>3, CheckScriptType DEF Check
    <2>2. pc' \in [Call -> Places]
        BY <1>3, GotoType DEF Check, Places
    <2>3. QED
        BY <1>3, <2>1, <2>2 DEF Check, TypeOK, KeyTypes
<1>4. ASSUME NEW x \in Call, CheckFails(x) PROVE TypeOK'
    <2>1. KeyTypes'
        BY <1>4, CheckScriptType, NothingType DEF CheckFails
    <2>2. pc' \in [Call -> Places]
        BY <1>4, GotoType DEF CheckFails, Places
    <2>3. QED
        BY <1>4, <2>1, <2>2 DEF CheckFails, TypeOK, KeyTypes
<1>5. ASSUME NEW x \in Call, Ask(x) PROVE TypeOK'
    <2>1. KeyTypes'
        BY <1>5, NothingType DEF Ask
    <2>2. CallTypes'
        BY <1>5, SendType DEF Ask, Places, Underway
    <2>3. QED
        BY <1>5, <2>1, <2>2 DEF Ask, TypeOK, KeyTypes, CallTypes
<1>6. ASSUME NEW x \in Call, Acquire(x) PROVE TypeOK'
    <2>1. KeyTypes'
        BY <1>6, AcquireScriptType DEF Acquire
    <2>2. CallTypes'
        <3>1. CASE Admits(x)
            BY <1>6, <3>1, GotoType DEF Acquire, Places, CallTypes, TypeOK
        <3>2. CASE ~ Admits(x)
            BY <1>6, <3>2, RetryAfterType, TurnDownType DEF Acquire
        <3>3. QED
            BY <3>1, <3>2
    <2>3. QED
        BY <1>6, <2>1, <2>2 DEF Acquire, TypeOK, KeyTypes, CallTypes
<1>7. ASSUME NEW x \in Call, AcquireFails(x) PROVE TypeOK'
    <2>1. KeyTypes'
        BY <1>7, AcquireScriptType, NothingType DEF AcquireFails
    <2>2. CallTypes'
        <3>1. CASE FailOpen
            BY <1>7, <3>1, GotoType DEF AcquireFails, Places, CallTypes, TypeOK
        <3>2. CASE ~ FailOpen
            BY <1>7, <3>2, TurnDownType DEF AcquireFails
        <3>3. QED
            BY <3>1, <3>2
    <2>3. QED
        BY <1>7, <2>1, <2>2 DEF AcquireFails, TypeOK, KeyTypes, CallTypes
<1>8. ASSUME NEW x \in Call, Finish(x) PROVE TypeOK'
    <2>1. KeyTypes'
        BY <1>8, NothingType DEF Finish
    <2>2. CASE Send(x, "settling") /\ \E d \in Debits : tokens' = [tokens EXCEPT ![x] = d]
        <3>1. CallTypes'
            BY <2>2, SendType DEF Places, Underway
        <3>2. tokens' \in [Call -> Nat]
            BY <2>2, LimiterAssumption DEF TypeOK
        <3>3. QED
            BY <1>8, <2>1, <3>1, <3>2 DEF Finish, TypeOK, KeyTypes, CallTypes
    <2>3. CASE Send(x, "reporting") /\ UNCHANGED tokens
        <3>1. CallTypes'
            BY <2>3, SendType DEF Places, Underway
        <3>2. QED
            BY <1>8, <2>1, <2>3, <3>1 DEF Finish, TypeOK, KeyTypes, CallTypes
    <2>4. CASE Goto(x, "done") /\ UNCHANGED <<time, tokens>>
        <3>1. pc' \in [Call -> Places]
            BY <2>4, GotoType DEF Places
        <3>2. QED
            BY <1>8, <2>1, <2>4, <3>1 DEF Finish, TypeOK, KeyTypes
    <2>5. QED
        BY <1>8, <2>2, <2>3, <2>4 DEF Finish
<1>9. ASSUME NEW x \in Call, Settle(x) PROVE TypeOK'
    <2>1. KeyTypes'
        BY <1>9, SettleScriptType, NothingType DEF Settle
    <2>2. pc' \in [Call -> Places]
        BY <1>9, GotoType DEF Settle, Places
    <2>3. QED
        BY <1>9, <2>1, <2>2 DEF Settle, TypeOK, KeyTypes
<1>10. ASSUME NEW x \in Call, Report(x) PROVE TypeOK'
    <2>1. KeyTypes'
        BY <1>10, ReportScriptType, NothingType DEF Report
    <2>2. pc' \in [Call -> Places]
        BY <1>10, GotoType DEF Report, Places
    <2>3. QED
        BY <1>10, <2>1, <2>2 DEF Report, TypeOK, KeyTypes
<1>11. CASE UNCHANGED vars
    BY <1>11 DEF vars, TypeOK
<1>12. QED
    BY <1>1, <1>2, <1>3, <1>4, <1>5, <1>6, <1>7, <1>8, <1>9, <1>10, <1>11
    DEF Next, CallStep

LEMMA TypeInit == Init => TypeOK
<1> SUFFICES ASSUME Init PROVE TypeOK
    OBVIOUS
<1>1. prompt \in BOOLEAN /\ start \in Nat /\ tokens \in [Call -> Nat]
    <2>1. prompt \in Promptness /\ start \in 0 .. MaxClock /\ tokens \in [Call -> Needs]
        BY DEF Init
    <2>2. Promptness \subseteq BOOLEAN /\ MaxClock \in Nat /\ Needs \subseteq Nat
        BY LimiterAssumption
    <2>3. start \in Nat
        BY <2>1, <2>2
    <2>4. prompt \in BOOLEAN
        BY <2>1, <2>2, Zenon
    <2>5. tokens \in [Call -> Nat]
        BY <2>1, <2>2
    <2>6. QED
        BY <2>3, <2>4, <2>5
<1>2. pc \in [Call -> Places] /\ time \in [Call -> Nat]
    BY DEF Init, Places
<1>3. bucket \in Bucket /\ bucket.tpm <= Tpm
    BY Capacities DEF Init, Bucket, FullBucket
<1>4. QED
    BY <1>1, <1>2, <1>3 DEF Init, TypeOK

\* The state of the limiter and of its callers is well typed: among others,
\* the requests never become negative and nothing exceeds its limit.
THEOREM TypeCorrect == Spec => []TypeOK
<1>1. QED
    BY TypeInit, TypeStep, PTL DEF Spec

-----------------------------------------------------------------------------
(* The window.  While commands are prompt a call stamps what it asks for   *)
(* with the present, so last_refill_ms never moves back, and what was      *)
(* reserved since the start of the window, together with what the bucket   *)
(* still holds, is bounded by a full bucket and the refill until then.  A  *)
(* bucket that expired has been idle for two minutes, longer than it takes *)
(* to fill.                                                                *)

Pos(n) == IF n < 0 THEN 0 ELSE n

Within(level, taken, capacity, rate, from) ==
    Pos(level) + taken <= capacity + rate * (from - start)

Stamped == \A x \in Call : pc[x] \in Underway => time[x] = clock

Expiry ==
    /\ bucket.last <= clock
    /\ \/ bucket = FullBucket(0) /\ reserved = [rpm |-> 0, tpm |-> 0]
       \/ bucket.expires = bucket.last + 2 * Minute

Accounted ==
    IF bucket.last < start
      THEN reserved = [rpm |-> 0, tpm |-> 0]
      ELSE /\ Within(bucket.rpm, reserved.rpm, Rpm, RpmRate, bucket.last)
           /\ Within(bucket.tpm, reserved.tpm, Tpm, TpmRate, bucket.last)

WindowInv == prompt => Stamped /\ Expiry /\ Accounted

\* A refill keeps the bound.
LEMMA RefillWithin ==
    ASSUME NEW capacity \in Nat, NEW rate \in Nat, NEW level \in Int, NEW taken \in Nat,
           NEW from \in Nat, NEW now \in Nat, from <= now, start \in Nat, start <= from,
           Within(level, taken, capacity, rate, from)
    PROVE  Within(Least(capacity, level + rate * Elapsed(from, now)), taken,
                  capacity, rate, now)
<1> DEFINE p == rate * (from - start)
           d == rate * (now - from)
<1>1. p \in Nat /\ d \in Nat
    OBVIOUS
<1>2. rate * (now - start) = p + d
    OBVIOUS
<1>3. rate * Elapsed(from, now) = d
    BY DEF Elapsed
<1>4. Pos(level) + taken <= capacity + p
    BY DEF Within
<1> HIDE DEF p, d
<1>5. Pos(Least(capacity, level + d)) + taken <= capacity + (p + d)
    BY <1>1, <1>4 DEF Pos, Least
<1>6. QED
    BY <1>2, <1>3, <1>5 DEF Within

\* So does a fresh bucket if it has had the time to fill, or nothing was taken.
LEMMA FreshWithin ==
    ASSUME NEW capacity \in Nat, NEW rate \in Nat, NEW level \in Int, NEW taken \in Nat,
           NEW from \in Nat, NEW now \in Nat, start \in Nat, start <= from,
           capacity = Minute * rate, Minute \in Nat, from + 2 * Minute <= now,
           Within(level, taken, capacity, rate, from)
    PROVE  Within(capacity, taken, capacity, rate, now)
<1> DEFINE p == rate * (from - start)
           rest == rate * (now - (from + 2 * Minute))
<1>1. p \in Nat /\ rest \in Nat
    OBVIOUS
<1>2. rate * (now - start) = p + 2 * capacity + rest
    OBVIOUS
<1>3. Pos(level) + taken <= capacity + p
    BY DEF Within
<1> HIDE DEF p, rest
<1>4. Pos(capacity) + taken <= capacity + (p + 2 * capacity + rest)
    BY <1>1, <1>3 DEF Pos
<1>5. QED
    BY <1>2, <1>4 DEF Within

LEMMA FullWithin ==
    ASSUME NEW capacity \in Nat, NEW rate \in Nat, NEW level \in Int, level <= capacity,
           NEW now \in Nat, start \in Nat, start <= now
    PROVE  Within(level, 0, capacity, rate, now)
<1> DEFINE p == rate * (now - start)
<1>1. p \in Nat
    OBVIOUS
<1> HIDE DEF p
<1>2. Pos(level) + 0 <= capacity + p
    BY <1>1 DEF Pos
<1>3. QED
    BY <1>2 DEF Within, p

LEMMA LessWithin ==
    ASSUME NEW capacity \in Nat, NEW rate \in Nat, NEW level \in Int, NEW taken \in Nat,
           NEW less \in Int, less <= level, NEW now \in Nat, start \in Nat, start <= now,
           Within(level, taken, capacity, rate, now)
    PROVE  Within(less, taken, capacity, rate, now)
<1> DEFINE p == rate * (now - start)
<1>1. p \in Nat
    OBVIOUS
<1>2. Pos(level) + taken <= capacity + p
    BY DEF Within
<1> HIDE DEF p
<1>3. Pos(less) + taken <= capacity + p
    BY <1>1, <1>2 DEF Pos
<1>4. QED
    BY <1>3 DEF Within, p

\* What a script finds in the bucket, when the call is prompt.
LEMMA StoredWithin ==
    ASSUME TypeOK, WindowInv, prompt, InWindow
    PROVE  /\ Stored(clock).last <= clock
           /\ Within(Refilled(Stored(clock), clock).rpm, reserved.rpm, Rpm, RpmRate, clock)
           /\ Within(Refilled(Stored(clock), clock).tpm, reserved.tpm, Tpm, TpmRate, clock)
           /\ Stored(clock).rpm <= Refilled(Stored(clock), clock).rpm
<1> DEFINE s == Stored(clock)
           o == Refilled(s, clock)
<1>1. /\ clock \in Nat /\ start \in Nat /\ start <= clock
      /\ reserved.rpm \in Nat /\ reserved.tpm \in Nat
      /\ bucket.last \in Nat /\ bucket.last <= clock
      /\ bucket.rpm \in 0 .. Rpm /\ bucket.tpm \in Int /\ bucket.tpm <= Tpm
      /\ bucket.expires \in Nat
    BY DEF TypeOK, InWindow, WindowInv, Expiry, Bucket
<1>2. /\ s \in Bucket /\ s.tpm <= Tpm
      /\ o.rpm = Least(Rpm, s.rpm + RpmRate * Elapsed(s.last, clock))
      /\ o.tpm = Least(Tpm, s.tpm + TpmRate * Elapsed(s.last, clock))
      /\ o \in Bucket /\ o.tpm <= Tpm
    <2>1. s \in Bucket /\ s.tpm <= Tpm
        BY <1>1, StoredType
    <2> HIDE DEF s
    <2>2. QED
        BY <1>1, <2>1, RefilledType
<1>3. s = bucket \/ s = FullBucket(clock)
    BY DEF Stored
<1>4. s.last <= clock
    BY <1>1, <1>3 DEF FullBucket
<1>5. s.rpm <= o.rpm
    <2>1. s.rpm \in 0 .. Rpm /\ s.last \in Nat
        BY <1>2 DEF Bucket
    <2> HIDE DEF s
    <2>2. RpmRate * Elapsed(s.last, clock) \in Nat
        BY <1>1, <2>1, Capacities DEF Elapsed
    <2>3. QED
        BY <1>2, <2>1, <2>2, Capacities DEF Least
<1>6. CASE bucket.last < start
    <2>1. reserved.rpm = 0 /\ reserved.tpm = 0
        BY <1>6 DEF WindowInv, Accounted
    <2>2. o.rpm \in Int /\ o.rpm <= Rpm /\ o.tpm \in Int /\ o.tpm <= Tpm
        BY <1>2, Capacities DEF Bucket
    <2> HIDE DEF o
    <2>3. /\ Within(o.rpm, 0, Rpm, RpmRate, clock)
          /\ Within(o.tpm, 0, Tpm, TpmRate, clock)
        BY <1>1, <2>2, Capacities, FullWithin
    <2>4. QED
        BY <1>4, <1>5, <2>1, <2>3 DEF o
<1>7. CASE bucket.last >= start /\ clock < bucket.expires
    <2>1. s = bucket
        BY <1>7 DEF Stored
    <2>2. /\ Within(bucket.rpm, reserved.rpm, Rpm, RpmRate, bucket.last)
          /\ Within(bucket.tpm, reserved.tpm, Tpm, TpmRate, bucket.last)
        BY <1>1, <1>7 DEF WindowInv, Accounted
    <2>3. bucket.rpm \in Int
        BY <1>1, Capacities
    <2>4. /\ Within(Least(Rpm, bucket.rpm + RpmRate * Elapsed(bucket.last, clock)),
                    reserved.rpm, Rpm, RpmRate, clock)
          /\ Within(Least(Tpm, bucket.tpm + TpmRate * Elapsed(bucket.last, clock)),
                    reserved.tpm, Tpm, TpmRate, clock)
        BY <1>1, <1>7, <2>2, <2>3, Capacities, RefillWithin
    <2>5. QED
        BY <1>2, <1>4, <1>5, <2>1, <2>4
<1>8. CASE bucket.last >= start /\ clock >= bucket.expires
    <2>1. s = FullBucket(clock)
        BY <1>1, <1>8 DEF Stored
    <2>2. s.rpm = Rpm /\ s.tpm = Tpm /\ s.last = clock
        BY <2>1 DEF FullBucket
    <2>3. o.rpm = Rpm /\ o.tpm = Tpm
        <3>1. Elapsed(clock, clock) = 0
            BY <1>1 DEF Elapsed
        <3>2. QED
            BY <1>2, <2>2, <3>1, Capacities DEF Least
    <2>4. CASE bucket = FullBucket(0) /\ reserved = [rpm |-> 0, tpm |-> 0]
        <3>1. reserved.rpm = 0 /\ reserved.tpm = 0
            BY <2>4
        <3>2. /\ Within(Rpm, 0, Rpm, RpmRate, clock)
              /\ Within(Tpm, 0, Tpm, TpmRate, clock)
            BY <1>1, Capacities, FullWithin
        <3>3. QED
            BY <1>4, <1>5, <2>3, <3>1, <3>2
    <2>5. CASE bucket.expires = bucket.last + 2 * Minute
        <3>1. bucket.last + 2 * Minute <= clock
            BY <1>1, <1>8, <2>5, Capacities
        <3>2. /\ Within(bucket.rpm, reserved.rpm, Rpm, RpmRate, bucket.last)
              /\ Within(bucket.tpm, reserved.tpm, Tpm, TpmRate, bucket.last)
            BY <1>1, <1>8 DEF WindowInv, Accounted
        <3>3. bucket.rpm \in Int
            BY <1>1, Capacities
        <3>4. Rpm = Minute * RpmRate /\ Tpm = Minute * TpmRate
            BY DEF Rpm, Tpm
        <3>5. /\ Within(Rpm, reserved.rpm, Rpm, RpmRate, clock)
              /\ Within(Tpm, reserved.tpm, Tpm, TpmRate, clock)
            BY <1>1, <1>8, <3>1, <3>2, <3>3, <3>4, Capacities, FreshWithin
        <3>6. QED
            BY <1>4, <1>5, <2>3, <3>5
    <2>6. QED
        BY <2>4, <2>5 DEF WindowInv, Expiry
<1>9. QED
    BY <1>1, <1>6, <1>7, <1>8

\* The bucket that a script stores is accounted for.
LEMMA StoredAccounted ==
    ASSUME TypeOK, WindowInv, prompt, NEW b \in Bucket, Store(b), b.last = clock,
           UNCHANGED <<clock, start>>,
           reserved' \in [rpm : Nat, tpm : Nat],
           IF InWindow
             THEN /\ Within(b.rpm, reserved'.rpm, Rpm, RpmRate, clock)
                  /\ Within(b.tpm, reserved'.tpm, Tpm, TpmRate, clock)
             ELSE reserved' = reserved
    PROVE  (Expiry /\ Accounted)'
<1>1. /\ bucket'.rpm = b.rpm /\ bucket'.tpm = b.tpm /\ bucket'.last = clock
      /\ bucket'.expires = clock + 2 * Minute
    BY DEF Store, Bucket
<1>2. Expiry'
    BY <1>1 DEF Expiry, TypeOK
<1>3. Accounted'
    <2>1. CASE InWindow
        BY <1>1, <2>1 DEF Accounted, Within, InWindow, TypeOK
    <2>2. CASE ~ InWindow
        <3>1. bucket.last < start /\ clock < start
            BY <2>2 DEF InWindow, TypeOK, WindowInv, Expiry, Bucket
        <3>2. reserved = [rpm |-> 0, tpm |-> 0]
            BY <3>1 DEF WindowInv, Accounted
        <3>3. QED
            BY <1>1, <2>2, <3>1, <3>2 DEF Accounted
    <2>3. QED
        BY <2>1, <2>2
<1>4. QED
    BY <1>2, <1>3

\* The part of the invariant that speaks of the keys.
KeyInv == prompt => Expiry /\ Accounted

LEMMA NothingWindow ==
    ASSUME WindowInv, UNCHANGED <<clock, fixed, bucket, reserved>>
    PROVE  KeyInv'
BY DEF WindowInv, KeyInv, Expiry, Accounted, Within, fixed

LEMMA CheckScriptWindow ==
    ASSUME TypeOK, WindowInv, NEW x \in Call, prompt => time[x] = clock,
           CheckScript(x), UNCHANGED <<clock, fixed>>
    PROVE  KeyInv'
<1>1. CASE BackingOff(x)
    BY <1>1, NothingWindow DEF CheckScript, history
<1>2. CASE ~ BackingOff(x)
    <2> SUFFICES ASSUME prompt PROVE (Expiry /\ Accounted)'
        BY DEF KeyInv, fixed
    <2>1. /\ time[x] = clock /\ Offer(x) \in Bucket /\ Offer(x).last = clock
        BY OfferType
    <2>2. Store(Offer(x)) /\ reserved' = reserved /\ start' = start /\ clock' = clock
        BY <1>2 DEF CheckScript, history, fixed
    <2>3. InWindow => /\ Within(Offer(x).rpm, reserved'.rpm, Rpm, RpmRate, clock)
                      /\ Within(Offer(x).tpm, reserved'.tpm, Tpm, TpmRate, clock)
        BY <2>1, <2>2, StoredWithin DEF Offer
    <2>4. reserved' \in [rpm : Nat, tpm : Nat]
        BY <2>2 DEF TypeOK
    <2>5. QED
        BY <2>1, <2>2, <2>3, <2>4, StoredAccounted
<1>3. QED
    BY <1>1, <1>2

LEMMA ReserveScriptWindow ==
    ASSUME TypeOK, WindowInv, NEW x \in Call, prompt => time[x] = clock,
           ReserveScript(x), UNCHANGED <<clock, fixed>>
    PROVE  KeyInv'
<1> SUFFICES ASSUME prompt PROVE (Expiry /\ Accounted)'
    BY DEF KeyInv, fixed
<1> DEFINE b == [Offer(x) EXCEPT !.rpm = @ - 1, !.tpm = @ - tokens[x]]
<1>1. /\ time[x] = clock /\ Offer(x) \in Bucket /\ Offer(x).last = clock
      /\ Offer(x).rpm \in 0 .. Rpm /\ Offer(x).tpm \in Int /\ Offer(x).tpm <= Tpm
      /\ Offer(x).rpm >= 1 /\ Offer(x).tpm >= tokens[x] /\ tokens[x] \in Nat
    BY OfferType DEF Bucket, ReserveScript, Admits, Covered
<1>2. /\ bucket' \in Bucket /\ reserved' \in [rpm : Nat, tpm : Nat]
      /\ bucket'.rpm = Offer(x).rpm - 1 /\ bucket'.tpm = Offer(x).tpm - tokens[x]
      /\ bucket'.last = clock /\ bucket'.expires = clock + 2 * Minute
    BY <1>1, ReserveScriptType DEF KeyTypes
<1>3. Store(bucket')
    BY <1>2 DEF Store, Bucket
<1>4. start' = start /\ clock' = clock
    BY DEF fixed
<1>5. CASE InWindow
    <2>1. /\ Within(Offer(x).rpm, reserved.rpm, Rpm, RpmRate, clock)
          /\ Within(Offer(x).tpm, reserved.tpm, Tpm, TpmRate, clock)
        BY <1>1, <1>5, StoredWithin DEF Offer
    <2>2. reserved'.rpm = reserved.rpm + 1 /\ reserved'.tpm = reserved.tpm + tokens[x]
        BY <1>5 DEF ReserveScript
    <2>3. /\ reserved.rpm \in Nat /\ reserved.tpm \in Nat
          /\ clock \in Nat /\ start \in Nat /\ start <= clock
        BY <1>5 DEF TypeOK, InWindow
    <2> DEFINE r == RpmRate * (clock - start)
               t == TpmRate * (clock - start)
    <2>4. r \in Nat /\ t \in Nat
        BY <2>3, Capacities
    <2>5. Pos(Offer(x).rpm) + reserved.rpm <= Rpm + r
          /\ Pos(Offer(x).tpm) + reserved.tpm <= Tpm + t
        BY <2>1 DEF Within
    <2> HIDE DEF r, t
    <2>6. /\ Pos(bucket'.rpm) + reserved'.rpm <= Rpm + r
          /\ Pos(bucket'.tpm) + reserved'.tpm <= Tpm + t
        BY <1>1, <1>2, <2>2, <2>3, <2>4, <2>5, Capacities DEF Pos
    <2>7. /\ Within(bucket'.rpm, reserved'.rpm, Rpm, RpmRate, clock)
          /\ Within(bucket'.tpm, reserved'.tpm, Tpm, TpmRate, clock)
        BY <2>6 DEF Within, r, t
    <2>8. QED
        BY <1>2, <1>3, <1>4, <1>5, <2>7, StoredAccounted
<1>6. CASE ~ InWindow
    <2>1. reserved' = reserved
        BY <1>6 DEF ReserveScript
    <2>2. QED
        BY <1>2, <1>3, <1>4, <1>6, <2>1, StoredAccounted
<1>7. QED
    BY <1>5, <1>6

LEMMA SettleScriptWindow ==
    ASSUME TypeOK, WindowInv, NEW x \in Call, prompt => time[x] = clock,
           SettleScript(x), UNCHANGED <<clock, fixed>>
    PROVE  KeyInv'
<1> SUFFICES ASSUME prompt PROVE (Expiry /\ Accounted)'
    BY DEF KeyInv, fixed
<1>1. /\ time[x] = clock /\ Offer(x) \in Bucket /\ tokens[x] \in Nat
      /\ Offer(x).rpm \in 0 .. Rpm /\ Offer(x).tpm \in Int
    BY OfferType DEF Bucket
<1>2. /\ bucket' \in Bucket
      /\ bucket'.rpm = Stored(clock).rpm /\ bucket'.tpm = Offer(x).tpm - tokens[x]
      /\ bucket'.last = clock /\ bucket'.expires = clock + 2 * Minute
    BY <1>1, SettleScriptType DEF KeyTypes
<1>3. Store(bucket')
    BY <1>2 DEF Store, Bucket
<1>4. start' = start /\ clock' = clock /\ reserved' = reserved
    BY DEF fixed, SettleScript
<1>5. reserved' \in [rpm : Nat, tpm : Nat]
    BY <1>4 DEF TypeOK
<1>6. CASE InWindow
    <2>1. /\ Within(Offer(x).rpm, reserved.rpm, Rpm, RpmRate, clock)
          /\ Within(Offer(x).tpm, reserved.tpm, Tpm, TpmRate, clock)
          /\ bucket'.rpm <= Offer(x).rpm
        BY <1>1, <1>2, <1>6, StoredWithin DEF Offer
    <2>2. /\ bucket'.rpm \in Int /\ bucket'.tpm \in Int /\ bucket'.tpm <= Offer(x).tpm
          /\ Offer(x).rpm \in Int
        BY <1>1, <1>2, Capacities DEF Bucket
    <2>3. /\ reserved.rpm \in Nat /\ reserved.tpm \in Nat
          /\ clock \in Nat /\ start \in Nat /\ start <= clock
        BY <1>6 DEF TypeOK, InWindow
    <2>4. /\ Within(bucket'.rpm, reserved'.rpm, Rpm, RpmRate, clock)
          /\ Within(bucket'.tpm, reserved'.tpm, Tpm, TpmRate, clock)
        BY <1>1, <1>4, <2>1, <2>2, <2>3, Capacities, LessWithin
    <2>5. QED
        BY <1>2, <1>3, <1>4, <1>5, <1>6, <2>4, StoredAccounted
<1>7. CASE ~ InWindow
    BY <1>2, <1>3, <1>4, <1>5, <1>7, StoredAccounted
<1>8. QED
    BY <1>6, <1>7

LEMMA AcquireScriptWindow ==
    ASSUME TypeOK, WindowInv, NEW x \in Call, prompt => time[x] = clock,
           AcquireScript(x), UNCHANGED <<clock, fixed>>
    PROVE  KeyInv'
BY CheckScriptWindow, ReserveScriptWindow DEF AcquireScript

\* The stamps: whoever sends a command reads the clock, and the others keep
\* theirs until the clock moves.
StampInv == prompt => Stamped

LEMMA SendStamped ==
    ASSUME TypeOK, WindowInv, NEW x \in Call, NEW place \in Places, Send(x, place),
           UNCHANGED <<clock, fixed>>
    PROVE  StampInv'
BY DEF TypeOK, WindowInv, StampInv, Stamped, Send, Goto, fixed

LEMMA LeaveStamped ==
    ASSUME TypeOK, WindowInv, NEW x \in Call, NEW place \in Places \ Underway,
           Goto(x, place), \A y \in Call \ {x} : time'[y] = time[y],
           UNCHANGED <<clock, fixed>>
    PROVE  StampInv'
BY DEF TypeOK, WindowInv, StampInv, Stamped, Goto, fixed

LEMMA StampOf ==
    ASSUME WindowInv, NEW x \in Call, pc[x] \in Underway
    PROVE  prompt => time[x] = clock
BY DEF WindowInv, Stamped

LEMMA WindowStep == TypeOK /\ WindowInv /\ [Next]_vars => WindowInv'
<1> SUFFICES ASSUME TypeOK, WindowInv, [Next]_vars PROVE StampInv' /\ KeyInv'
    BY DEF StampInv, KeyInv, WindowInv
<1>1. CASE Tick
    <2>1. StampInv'
        BY <1>1 DEF Tick, StampInv, Stamped, fixed
    <2>2. KeyInv'
        BY <1>1 DEF Tick, KeyInv, WindowInv, Expiry, Accounted, Within, TypeOK, Bucket,
                    fixed, keys, history
    <2>3. QED
        BY <2>1, <2>2
<1>2. ASSUME NEW x \in Call, Submit(x) PROVE StampInv' /\ KeyInv'
    <2>1. KeyInv'
        BY <1>2, NothingWindow DEF Submit, Nothing, keys, history
    <2>2. StampInv'
        BY <1>2, SendStamped, LeaveStamped DEF Submit, Places, Underway
    <2>3. QED
        BY <2>1, <2>2
<1>3. ASSUME NEW x \in Call, Check(x) PROVE StampInv' /\ KeyInv'
    <2>1. prompt => time[x] = clock
        BY <1>3, StampOf DEF Check, Underway
    <2>2. KeyInv'
        BY <1>3, <2>1, CheckScriptWindow DEF Check
    <2>3. StampInv'
        BY <1>3, LeaveStamped DEF Check, Places, Underway
    <2>4. QED
        BY <2>2, <2>3
<1>4. ASSUME NEW x \in Call, CheckFails(x) PROVE StampInv' /\ KeyInv'
    <2>1. prompt => time[x] = clock
        BY <1>4, StampOf DEF CheckFails, Underway
    <2>2. KeyInv'
        BY <1>4, <2>1, CheckScriptWindow, NothingWindow
        DEF CheckFails, Nothing, keys, history
    <2>3. StampInv'
        BY <1>4, LeaveStamped DEF CheckFails, Places, Underway
    <2>4. QED
        BY <2>2, <2>3
<1>5. ASSUME NEW x \in Call, Ask(x) PROVE StampInv' /\ KeyInv'
    <2>1. KeyInv'
        BY <1>5, NothingWindow DEF Ask, Nothing, keys, history
    <2>2. StampInv'
        BY <1>5, SendStamped DEF Ask, Places, Underway
    <2>3. QED
        BY <2>1, <2>2
<1>6. ASSUME NEW x \in Call, NEW wait \in Nat, TurnDown(x, wait), UNCHANGED <<clock, fixed>>
      PROVE  StampInv'
    <2>1. \A y \in Call \ {x} : time'[y] = time[y]
        BY <1>6 DEF TurnDown, TypeOK
    <2>2. QED
        BY <1>6, <2>1, LeaveStamped DEF TurnDown, Places, Underway
<1>7. ASSUME NEW x \in Call, Acquire(x) PROVE StampInv' /\ KeyInv'
    <2>1. prompt => time[x] = clock
        BY <1>7, StampOf DEF Acquire, Underway
    <2>2. KeyInv'
        BY <1>7, <2>1, AcquireScriptWindow DEF Acquire
    <2>3. StampInv'
        <3>1. CASE Admits(x)
            BY <1>7, <3>1, LeaveStamped DEF Acquire, Places, Underway
        <3>2. CASE ~ Admits(x)
            BY <1>7, <3>2, <1>6, RetryAfterType DEF Acquire
        <3>3. QED
            BY <3>1, <3>2
    <2>4. QED
        BY <2>2, <2>3
<1>8. ASSUME NEW x \in Call, AcquireFails(x) PROVE StampInv' /\ KeyInv'
    <2>1. prompt => time[x] = clock
        BY <1>8, StampOf DEF AcquireFails, Underway
    <2>2. KeyInv'
        BY <1>8, <2>1, AcquireScriptWindow, NothingWindow
        DEF AcquireFails, Nothing, keys, history
    <2>3. StampInv'
        <3>1. CASE FailOpen
            BY <1>8, <3>1, LeaveStamped DEF AcquireFails, Places, Underway
        <3>2. CASE ~ FailOpen
            BY <1>8, <3>2, <1>6 DEF AcquireFails
        <3>3. QED
            BY <3>1, <3>2
    <2>4. QED
        BY <2>2, <2>3
<1>9. ASSUME NEW x \in Call, Finish(x) PROVE StampInv' /\ KeyInv'
    <2>1. KeyInv'
        BY <1>9, NothingWindow DEF Finish, Nothing, keys, history
    <2>2. StampInv'
        BY <1>9, SendStamped, LeaveStamped DEF Finish, Places, Underway
    <2>3. QED
        BY <2>1, <2>2
<1>10. ASSUME NEW x \in Call, Settle(x) PROVE StampInv' /\ KeyInv'
    <2>1. prompt => time[x] = clock
        BY <1>10, StampOf DEF Settle, Underway
    <2>2. KeyInv'
        BY <1>10, <2>1, SettleScriptWindow, NothingWindow
        DEF Settle, Nothing, keys, history
    <2>3. StampInv'
        BY <1>10, LeaveStamped DEF Settle, Places, Underway
    <2>4. QED
        BY <2>2, <2>3
<1>11. ASSUME NEW x \in Call, Report(x) PROVE StampInv' /\ KeyInv'
    <2>1. KeyInv'
        BY <1>11, NothingWindow DEF Report, ReportScript, Nothing, keys, history
    <2>2. StampInv'
        BY <1>11, LeaveStamped DEF Report, Places, Underway
    <2>3. QED
        BY <2>1, <2>2
<1>12. CASE UNCHANGED vars
    BY <1>12 DEF vars, WindowInv, StampInv, KeyInv, Stamped, Expiry, Accounted, Within
<1>13. QED
    BY <1>1, <1>2, <1>3, <1>4, <1>5, <1>7, <1>8, <1>9, <1>10, <1>11, <1>12
    DEF Next, CallStep

LEMMA WindowInit == Init => WindowInv
<1> SUFFICES ASSUME Init PROVE Stamped /\ Expiry /\ Accounted
    BY DEF WindowInv
<1>1. Stamped
    BY DEF Init, Stamped, Underway
<1>2. Expiry
    BY DEF Init, Expiry, FullBucket
<1>3. start \in Nat
    BY TypeInit DEF TypeOK
<1>4. bucket.last = 0 /\ bucket.rpm = Rpm /\ bucket.tpm = Tpm
      /\ reserved = [rpm |-> 0, tpm |-> 0] /\ reserved.rpm = 0 /\ reserved.tpm = 0
    BY DEF Init, FullBucket
<1>5. CASE start = 0
    <2>1. /\ Within(Rpm, 0, Rpm, RpmRate, 0)
          /\ Within(Tpm, 0, Tpm, TpmRate, 0)
        BY <1>5, Capacities, FullWithin
    <2>2. QED
        BY <1>1, <1>2, <1>4, <1>5, <2>1 DEF Accounted
<1>6. CASE start > 0
    BY <1>1, <1>2, <1>4, <1>6 DEF Accounted
<1>7. QED
    BY <1>3, <1>5, <1>6

LEMMA WindowSafe == TypeOK /\ WindowInv => WindowRespected
<1> SUFFICES ASSUME TypeOK, WindowInv, prompt, InWindow
             PROVE  /\ reserved.rpm <= Rpm + RpmRate * (clock - start)
                    /\ reserved.tpm <= Tpm + TpmRate * (clock - start)
    BY Capacities DEF WindowRespected, Oversubscribed, Budget, TypeOK, InWindow
<1>1. /\ Within(Refilled(Stored(clock), clock).rpm, reserved.rpm, Rpm, RpmRate, clock)
      /\ Within(Refilled(Stored(clock), clock).tpm, reserved.tpm, Tpm, TpmRate, clock)
    BY StoredWithin
<1>2. Stored(clock) \in Bucket /\ Stored(clock).tpm <= Tpm /\ clock \in Nat
    BY StoredType DEF TypeOK
<1>3. Refilled(Stored(clock), clock) \in Bucket
    BY <1>2, RefilledType
<1>4. /\ Refilled(Stored(clock), clock).rpm \in Int
      /\ Refilled(Stored(clock), clock).tpm \in Int
    BY <1>3, Capacities DEF Bucket
<1>5. \A n \in Int : Pos(n) \in Nat
    BY DEF Pos
<1>6. reserved.rpm \in Nat /\ reserved.tpm \in Nat
    BY DEF TypeOK
<1> DEFINE r == RpmRate * (clock - start)
           t == TpmRate * (clock - start)
<1>7. r \in Int /\ t \in Int
    BY Capacities DEF TypeOK
<1> HIDE DEF r, t
<1>8. reserved.rpm <= Rpm + r /\ reserved.tpm <= Tpm + t
    BY <1>1, <1>4, <1>5, <1>6, <1>7, Capacities DEF Within, r, t
<1>9. QED
    BY <1>8 DEF r, t

\* As long as commands are prompt, the limiter never lets more requests or
\* tokens through in any window than a full bucket and the refill, for any
\* limits, any number of callers and any interleaving of their checks,
\* reservations, settlements and error reports, whatever fails.
THEOREM WindowCorrect == Spec => []WindowRespected
<1>1. Init => TypeOK /\ WindowInv
    BY TypeInit, WindowInit
<1>2. TypeOK /\ WindowInv /\ [Next]_vars => (TypeOK /\ WindowInv)'
    BY TypeStep, WindowStep
<1>3. QED
    BY <1>1, <1>2, WindowSafe, PTL DEF Spec

-----------------------------------------------------------------------------
(* The back-off.  If all errors ask for the same wait, a later one never     *)
(* shortens the back-off, and its key and its value end together.            *)

EqualWaits == \A v, w \in RetryAfters : v = w

BackoffInv ==
    prompt /\ EqualWaits =>
        \/ asked = 0
        \/ /\ asked = backoff.until /\ asked = backoff.expires
           /\ \E w \in RetryAfters : asked <= clock + w

\* Only an error report touches the back-off.
LEMMA BackoffSteps ==
    ASSUME [Next]_vars
    PROVE  \/ UNCHANGED <<prompt, backoff, asked>> /\ clock' \in {clock, clock + 1}
           \/ /\ UNCHANGED <<clock, prompt>>
              /\ \E x \in Call, wait \in RetryAfters :
                    pc[x] = "reporting" /\ ReportScript(x, wait)
<1> USE DEF fixed, keys, history, Nothing, AcquireScript, ReserveScript, CheckScript
<1>1. CASE Tick
    BY <1>1 DEF Tick
<1>2. ASSUME NEW x \in Call, Submit(x) \/ Check(x) \/ CheckFails(x) \/ Ask(x)
      PROVE  UNCHANGED <<prompt, backoff, asked, clock>>
    BY <1>2 DEF Submit, Check, CheckFails, Ask
<1>3. ASSUME NEW x \in Call, Acquire(x) \/ AcquireFails(x) \/ Finish(x)
      PROVE  UNCHANGED <<prompt, backoff, asked, clock>>
    BY <1>3 DEF Acquire, AcquireFails, Finish
<1>4. ASSUME NEW x \in Call, Settle(x)
      PROVE  UNCHANGED <<prompt, backoff, asked, clock>>
    BY <1>4 DEF Settle, SettleScript
<1>5. ASSUME NEW x \in Call, Report(x)
      PROVE  \/ UNCHANGED <<prompt, backoff, asked, clock>>
             \/ /\ UNCHANGED <<clock, prompt>>
                /\ \E wait \in RetryAfters : pc[x] = "reporting" /\ ReportScript(x, wait)
    BY <1>5 DEF Report
<1>6. CASE UNCHANGED vars
    BY <1>6 DEF vars
<1>7. QED
    BY <1>1, <1>2, <1>3, <1>4, <1>5, <1>6 DEF Next, CallStep

LEMMA BackoffStep == TypeOK /\ WindowInv /\ BackoffInv /\ [Next]_vars => BackoffInv'
<1> SUFFICES ASSUME TypeOK, WindowInv, BackoffInv, [Next]_vars, prompt', EqualWaits
             PROVE  \/ asked' = 0
                    \/ /\ asked' = backoff'.until /\ asked' = backoff'.expires
                       /\ \E w \in RetryAfters : asked' <= clock' + w
    BY DEF BackoffInv
<1>1. clock \in Nat /\ asked \in Nat /\ RetryAfters \subseteq Nat \ {0}
    BY LimiterAssumption DEF TypeOK
<1>2. CASE UNCHANGED <<prompt, backoff, asked>> /\ clock' \in {clock, clock + 1}
    <2>1. prompt /\ asked' = asked /\ backoff' = backoff
        BY <1>2
    <2>2. CASE asked = 0
        BY <2>1, <2>2
    <2>3. ASSUME asked = backoff.until, asked = backoff.expires,
                 NEW w \in RetryAfters, asked <= clock + w
          PROVE  /\ asked' = backoff'.until /\ asked' = backoff'.expires
                 /\ asked' <= clock' + w
        BY <1>1, <1>2, <2>1, <2>3
    <2>4. QED
        BY <2>1, <2>2, <2>3 DEF BackoffInv
<1>3. ASSUME UNCHANGED <<clock, prompt>>, NEW x \in Call, NEW wait \in RetryAfters,
             pc[x] = "reporting", ReportScript(x, wait)
      PROVE  /\ asked' = backoff'.until /\ asked' = backoff'.expires
             /\ asked' <= clock' + wait
    <2>1. time[x] = clock
        BY <1>3, StampOf DEF Underway
    <2>2. asked <= clock + wait
        BY <1>1, <1>3 DEF BackoffInv, EqualWaits
    <2>3. asked' = clock + wait
        BY <1>1, <1>3, <2>2 DEF ReportScript
    <2>4. backoff'.until = clock + wait /\ backoff'.expires = clock + wait
        BY <1>3, <2>1 DEF ReportScript
    <2>5. QED
        BY <1>1, <1>3, <2>3, <2>4
<1>4. QED
    BY <1>2, <1>3, BackoffSteps

\* A grant comes from the script that reserved.
LEMMA GrantReserves ==
    ASSUME [Next]_vars, TypeOK, NEW x \in Call, Granted(x), ~ FailOpen
    PROVE  ReserveScript(x) /\ UNCHANGED <<clock, fixed>>
<1>1. pc[x] \in {"asking", "askingLast"} /\ pc'[x] = "calling"
    BY DEF Granted
<1>2. PICK y \in Call : CallStep(y)
    BY <1>1 DEF Next, Tick, vars
<1>3. y = x
    BY <1>1, <1>2 DEF CallStep, Submit, Check, CheckFails, Ask, Acquire, AcquireFails,
                      Finish, Settle, Report, Send, Goto, TurnDown, TypeOK
<1>4. Acquire(x)
    BY <1>1, <1>2, <1>3 DEF CallStep, Submit, Check, CheckFails, Ask, AcquireFails,
                            Finish, Settle, Report, Send, Goto, TurnDown, TypeOK
<1>5. Admits(x)
    BY <1>1, <1>4 DEF Acquire, TurnDown, Goto, TypeOK
<1>6. QED
    BY <1>4, <1>5 DEF Acquire, AcquireScript

\* Once a provider error is recorded, nobody is admitted until the provider may be
\* called again: acquire finds the back-off that record_provider_error left, and
\* neither its expiry nor a later error ends it early, as long as the errors ask
\* for equal waits and commands are prompt.
THEOREM BackoffCorrect == Spec => BackoffRespected
<1> DEFINE Step == \A x \in Call :
                      /\ Granted(x) /\ prompt /\ ~ FailOpen
                      /\ \A v, w \in RetryAfters : v = w
                      => asked <= clock
<1>1. Init => TypeOK /\ WindowInv /\ BackoffInv
    <2>1. Init => BackoffInv
        BY DEF Init, BackoffInv
    <2>2. QED
        BY <2>1, TypeInit, WindowInit
<1>2. TypeOK /\ WindowInv /\ BackoffInv /\ [Next]_vars => (TypeOK /\ WindowInv /\ BackoffInv)'
    BY TypeStep, WindowStep, BackoffStep
<1>3. TypeOK /\ WindowInv /\ BackoffInv /\ [Next]_vars => Step
    <2> SUFFICES ASSUME TypeOK, WindowInv, BackoffInv, [Next]_vars, NEW x \in Call,
                        Granted(x), prompt, ~ FailOpen, EqualWaits
                 PROVE  asked <= clock
        BY DEF EqualWaits
    <2>1. ~ BackingOff(x)
        BY GrantReserves DEF ReserveScript, Admits
    <2>2. time[x] = clock
        BY StampOf DEF Granted, Underway
    <2>3. clock \in Nat /\ asked \in Nat /\ backoff.until \in Nat /\ backoff.expires \in Nat
        BY DEF TypeOK
    <2>4. asked = 0 \/ (asked = backoff.until /\ asked = backoff.expires)
        BY DEF BackoffInv
    <2>5. QED
        BY <2>1, <2>2, <2>3, <2>4 DEF BackingOff
<1>4. QED
    BY <1>1, <1>2, <1>3, PTL DEF Spec, BackoffRespected
-----------------------------------------------------------------------------
(* The debt.  A settlement may overdraw the bucket, and the refill pays for *)
(* it.  The delicate case is again the key's expiry, which fills the bucket *)
(* whatever it owed: in the two minutes before it, twice the limit has been *)
(* refilled, which is what reservations and a payable debt can have taken.  *)

\* The level is not clipped: what it lacks is still to be refilled.
Owed(level, taken, from) == level + taken <= Tpm + TpmRate * (from - start)

DebtInv ==
    prompt /\ Remembered =>
        IF bucket.expires = 0 \/ bucket.last < start
          THEN reserved.tpm = 0 /\ debited = 0
          ELSE Owed(bucket.tpm, reserved.tpm + debited, bucket.last)

\* What a script offers is not owed.
LEMMA OfferOwed ==
    ASSUME TypeOK, WindowInv, DebtInv, Remembered, prompt, InWindow,
           NEW x \in Call, time[x] = clock
    PROVE  Owed(Offer(x).tpm, reserved.tpm + debited, clock)
<1> DEFINE taken == reserved.tpm + debited
           d == TpmRate * (clock - bucket.last)
           p == TpmRate * (bucket.last - start)
           o == Offer(x).tpm
<1>1. /\ clock \in Nat /\ start \in Nat /\ start <= clock
      /\ taken \in Nat /\ bucket.last \in Nat /\ bucket.last <= clock
      /\ bucket.tpm \in Int /\ bucket.expires \in Nat
      /\ reserved.tpm \in Nat /\ debited \in Nat
    BY DEF TypeOK, InWindow, WindowInv, Expiry, Bucket
<1>2. o \in Int /\ o <= Tpm
    BY OfferType, Capacities DEF Bucket
<1>3. TpmRate \in Nat /\ Tpm \in Nat
    BY Capacities
<1>4. d \in Nat /\ p \in Int /\ TpmRate * (clock - start) \in Nat
    BY <1>1, <1>3
<1>5. TpmRate * (clock - start) = p + d
    BY <1>1, <1>3
<1>6. CASE taken = 0
    BY <1>2, <1>3, <1>4, <1>6 DEF Owed
<1>7. CASE bucket.expires # 0 /\ bucket.last >= start /\ clock < bucket.expires
    <2>1. bucket.tpm + taken <= Tpm + p
        BY <1>1, <1>7 DEF DebtInv, Owed
    <2>2. o <= bucket.tpm + d
        <3>1. Stored(clock) = bucket
            BY <1>7 DEF Stored
        <3>2. o = Least(Tpm, bucket.tpm + TpmRate * Elapsed(bucket.last, clock))
            BY <1>1, <3>1, RefilledType DEF Offer, TypeOK
        <3>3. TpmRate * Elapsed(bucket.last, clock) = d
            BY <1>1, <1>3 DEF Elapsed
        <3> HIDE DEF d, o
        <3>4. QED
            BY <1>1, <1>3, <1>4, <3>2, <3>3 DEF Least
    <2> HIDE DEF d, p, o, taken
    <2>3. o + taken <= Tpm + (p + d)
        BY <1>1, <1>2, <1>3, <1>4, <2>1, <2>2
    <2>4. QED
        BY <1>5, <2>3 DEF Owed, o, taken
<1>8. CASE bucket.expires # 0 /\ bucket.last >= start /\ clock >= bucket.expires
    <2>1. reserved.tpm <= Tpm + p
        <3>1. Within(bucket.tpm, reserved.tpm, Tpm, TpmRate, bucket.last)
            BY <1>1, <1>8 DEF WindowInv, Accounted
        <3> HIDE DEF p
        <3>2. Pos(bucket.tpm) + reserved.tpm <= Tpm + p
            BY <3>1 DEF Within, p
        <3>3. Pos(bucket.tpm) \in Nat
            BY <1>1 DEF Pos
        <3>4. QED
            BY <1>1, <1>3, <1>4, <3>2, <3>3
    <2>2. bucket.last + 2 * Minute <= clock
        BY <1>8 DEF WindowInv, Expiry, FullBucket
    <2>3. debited <= Tpm
        BY <1>1, <1>8, <2>2, Capacities DEF Remembered
    <2>4. d >= 2 * Tpm
        <3> DEFINE rest == clock - (bucket.last + 2 * Minute)
        <3>1. Minute \in Nat /\ rest \in Nat /\ Tpm = Minute * TpmRate
            BY <1>1, <2>2, Capacities DEF Tpm
        <3>2. d = 2 * Tpm + TpmRate * rest
            BY <1>1, <1>3, <3>1
        <3>3. TpmRate * rest \in Nat
            BY <1>3, <3>1
        <3>4. QED
            BY <1>3, <3>2, <3>3
    <2> HIDE DEF d, p, o
    <2>5. o + taken <= Tpm + (p + d)
        BY <1>1, <1>2, <1>3, <1>4, <2>1, <2>3, <2>4
    <2>6. QED
        BY <1>5, <2>5 DEF Owed, o, taken
<1>9. QED
    BY <1>1, <1>6, <1>7, <1>8 DEF DebtInv

\* Only a script touches the bucket.
LEMMA BucketSteps ==
    ASSUME TypeOK, WindowInv, [Next]_vars
    PROVE  \/ /\ UNCHANGED <<prompt, start, bucket, reserved, debited>>
              /\ clock' = clock \/ clock' = clock + 1
           \/ /\ UNCHANGED <<clock, prompt, start>>
              /\ \E x \in Call :
                    /\ prompt => time[x] = clock
                    /\ CheckScript(x) \/ ReserveScript(x) \/ SettleScript(x)
<1> USE DEF fixed, keys, history, Nothing
<1>1. CASE Tick
    BY <1>1 DEF Tick
<1>2. ASSUME NEW x \in Call, Submit(x) \/ Ask(x) \/ Finish(x) \/ Report(x)
      PROVE  UNCHANGED <<clock, prompt, start, bucket, reserved, debited>>
    BY <1>2 DEF Submit, Ask, Finish, Report, ReportScript
<1>3. ASSUME NEW x \in Call,
             Check(x) \/ CheckFails(x) \/ Acquire(x) \/ AcquireFails(x) \/ Settle(x)
      PROVE  /\ UNCHANGED <<clock, prompt, start>>
             /\ prompt => time[x] = clock
             /\ \/ UNCHANGED <<bucket, reserved, debited>>
                \/ CheckScript(x) \/ ReserveScript(x) \/ SettleScript(x)
    <2>1. pc[x] \in Underway
        BY <1>3 DEF Check, CheckFails, Acquire, AcquireFails, Settle, Underway
    <2>2. prompt => time[x] = clock
        BY <2>1, StampOf
    <2>3. QED
        BY <1>3, <2>2 DEF Check, CheckFails, Acquire, AcquireFails, Settle, AcquireScript
<1>4. CASE UNCHANGED vars
    BY <1>4 DEF vars
<1>5. QED
    BY <1>1, <1>2, <1>3, <1>4 DEF Next, CallStep

\* What a script stores: no more than it offered, less what it takes.
LEMMA ScriptStores ==
    ASSUME TypeOK, NEW x \in Call,
           CheckScript(x) \/ ReserveScript(x) \/ SettleScript(x),
           time[x] = clock
    PROVE  \/ UNCHANGED <<bucket, reserved, debited>>
           \/ /\ bucket' \in Bucket /\ bucket'.last = clock
              /\ bucket'.expires = clock + 2 * Minute
              /\ reserved'.tpm \in Nat /\ debited' \in Nat /\ debited <= debited'
              /\ IF InWindow
                   THEN Offer(x).tpm + (reserved.tpm + debited)
                            = bucket'.tpm + (reserved'.tpm + debited')
                   ELSE UNCHANGED <<reserved, debited>>
<1>1. /\ Offer(x) \in Bucket /\ Offer(x).tpm \in Int /\ Offer(x).tpm <= Tpm
      /\ Offer(x).last = clock /\ tokens[x] \in Nat
      /\ reserved.tpm \in Nat /\ debited \in Nat
    BY OfferType DEF Bucket, TypeOK
<1>2. CASE CheckScript(x)
    <2>1. CASE BackingOff(x)
        BY <1>2, <2>1 DEF CheckScript, history
    <2>2. CASE ~ BackingOff(x)
        <3>1. Store(Offer(x)) /\ reserved' = reserved /\ debited' = debited
            BY <1>2, <2>2 DEF CheckScript, history
        <3>2. /\ bucket' \in Bucket /\ bucket'.tpm = Offer(x).tpm /\ bucket'.last = clock
              /\ bucket'.expires = clock + 2 * Minute
            BY <1>1, <3>1, StoreType
        <3>3. QED
            BY <1>1, <3>1, <3>2
    <2>3. QED
        BY <2>1, <2>2
<1>3. CASE ReserveScript(x)
    <2>1. /\ bucket' \in Bucket /\ bucket'.tpm = Offer(x).tpm - tokens[x]
          /\ bucket'.last = clock /\ bucket'.expires = clock + 2 * Minute
          /\ reserved'.tpm \in Nat /\ debited' = debited
        BY <1>3, ReserveScriptType DEF KeyTypes, ReserveScript
    <2>2. IF InWindow THEN reserved'.tpm = reserved.tpm + tokens[x] ELSE reserved' = reserved
        BY <1>3 DEF ReserveScript
    <2>3. QED
        BY <1>1, <2>1, <2>2
<1>4. CASE SettleScript(x)
    <2>1. /\ bucket' \in Bucket /\ bucket'.tpm = Offer(x).tpm - tokens[x]
          /\ bucket'.last = clock /\ bucket'.expires = clock + 2 * Minute
          /\ debited' \in Nat /\ reserved' = reserved
        BY <1>4, SettleScriptType DEF KeyTypes, SettleScript
    <2>2. debited' = IF InWindow THEN debited + tokens[x] ELSE debited
        BY <1>4 DEF SettleScript
    <2>3. QED
        BY <1>1, <2>1, <2>2
<1>5. QED
    BY <1>2, <1>3, <1>4

LEMMA DebtStep == TypeOK /\ WindowInv /\ DebtInv /\ [Next]_vars => DebtInv'
<1> SUFFICES ASSUME TypeOK, WindowInv, DebtInv, [Next]_vars, prompt', Remembered'
             PROVE  DebtInv'
    BY DEF DebtInv
<1>1. CASE /\ UNCHANGED <<prompt, start, bucket, reserved, debited>>
           /\ clock' = clock \/ clock' = clock + 1
    <2>1. Remembered
        BY <1>1, Capacities DEF Remembered, TypeOK
    <2>2. QED
        BY <1>1, <2>1 DEF DebtInv, Owed
<1>2. ASSUME UNCHANGED <<clock, prompt, start>>, NEW x \in Call, prompt => time[x] = clock,
             CheckScript(x) \/ ReserveScript(x) \/ SettleScript(x)
      PROVE  DebtInv'
    <2>1. prompt /\ time[x] = clock /\ clock \in Nat /\ start \in Nat
        BY <1>2 DEF TypeOK
    <2>2. CASE UNCHANGED <<bucket, reserved, debited>>
        BY <1>2, <2>2 DEF DebtInv, Owed, Remembered
    <2>3. ASSUME /\ bucket' \in Bucket /\ bucket'.last = clock
                 /\ bucket'.expires = clock + 2 * Minute
                 /\ reserved'.tpm \in Nat /\ debited' \in Nat /\ debited <= debited'
                 /\ IF InWindow
                      THEN Offer(x).tpm + (reserved.tpm + debited)
                               = bucket'.tpm + (reserved'.tpm + debited')
                      ELSE UNCHANGED <<reserved, debited>>
          PROVE  DebtInv'
        <3>1. bucket'.expires # 0
            BY <2>1, <2>3, Capacities
        <3>2. Remembered
            BY <1>2, <2>3, Capacities DEF Remembered, TypeOK
        <3>3. CASE InWindow
            <4>1. Owed(Offer(x).tpm, reserved.tpm + debited, clock)
                BY <2>1, <3>3, <3>2, OfferOwed
            <4>2. bucket'.tpm + (reserved'.tpm + debited') <= Tpm + TpmRate * (clock - start)
                BY <2>3, <3>3, <4>1 DEF Owed
            <4>3. Owed(bucket.tpm, reserved.tpm + debited, bucket.last)'
                BY <1>2, <2>3, <4>2 DEF Owed
            <4>4. ~ (bucket'.last < start')
                BY <1>2, <2>1, <2>3, <3>3 DEF InWindow
            <4>5. QED
                BY <3>1, <4>3, <4>4 DEF DebtInv
        <3>4. CASE ~ InWindow
            <4>1. clock < start /\ bucket.last < start
                BY <2>1, <3>4 DEF InWindow, WindowInv, Expiry, TypeOK, Bucket
            <4>2. reserved.tpm = 0 /\ debited = 0
                BY <2>1, <3>2, <4>1 DEF DebtInv
            <4>3. bucket'.last < start' /\ reserved'.tpm = 0 /\ debited' = 0
                BY <1>2, <2>3, <3>4, <4>1, <4>2
            <4>4. QED
                BY <4>3 DEF DebtInv
        <3>5. QED
            BY <3>3, <3>4
    <2>4. QED
        BY <1>2, <2>1, <2>2, <2>3, ScriptStores
<1>3. QED
    BY <1>1, <1>2, BucketSteps

LEMMA DebtInit == Init => DebtInv
<1> SUFFICES ASSUME Init PROVE DebtInv
    OBVIOUS
<1>1. bucket.last = 0 /\ bucket.tpm = Tpm /\ reserved.tpm = 0 /\ debited = 0
    BY DEF Init, FullBucket
<1>2. start \in Nat /\ bucket.expires = 0
    BY TypeInit DEF TypeOK, Init, FullBucket
<1>3. CASE start = 0
    BY <1>1, <1>2, <1>3, Capacities DEF DebtInv, Owed
<1>4. CASE start > 0
    BY <1>1, <1>2, <1>4 DEF DebtInv
<1>5. QED
    BY <1>2, <1>3, <1>4

\* What was used beyond the reservations is paid for before anything else is
\* granted, for any limits, callers and uses, as long as commands are prompt: any
\* debt of the last two minutes, and in the long run one that its key's life pays for.
THEOREM DebtCorrect == Spec => DebtObserved
<1> DEFINE Step == \A x \in Call :
                      Granted(x) /\ prompt /\ ~ FailOpen /\ InWindow /\ Remembered =>
                          reserved'.tpm + debited' <= Budget(Tpm, TpmRate)
<1>1. Init => TypeOK /\ WindowInv /\ DebtInv
    BY TypeInit, WindowInit, DebtInit
<1>2. /\ TypeOK /\ WindowInv /\ DebtInv /\ [Next]_vars
      => (TypeOK /\ WindowInv /\ DebtInv)'
    BY TypeStep, WindowStep, DebtStep
<1>3. TypeOK /\ WindowInv /\ DebtInv /\ [Next]_vars => Step
    <2> SUFFICES ASSUME TypeOK, WindowInv, DebtInv, [Next]_vars, NEW x \in Call,
                        Granted(x), prompt, ~ FailOpen, InWindow, Remembered
                 PROVE  reserved'.tpm + debited' <= Budget(Tpm, TpmRate)
        OBVIOUS
    <2> DEFINE refill == TpmRate * (clock - start)
    <2>1. ReserveScript(x)
        BY GrantReserves
    <2>2. time[x] = clock
        BY StampOf DEF Granted, Underway
    <2>3. Owed(Offer(x).tpm, reserved.tpm + debited, clock)
        BY <2>2, OfferOwed
    <2>4. /\ Offer(x).tpm \in Int /\ tokens[x] \in Nat
          /\ reserved.tpm \in Nat /\ debited \in Nat /\ refill \in Int /\ Tpm \in Nat
        BY OfferType, Capacities DEF Bucket, TypeOK
    <2>5. /\ Offer(x).tpm >= tokens[x]
          /\ reserved'.tpm = reserved.tpm + tokens[x] /\ debited' = debited
        BY <2>1 DEF ReserveScript, Admits, Covered
    <2> HIDE DEF refill
    <2>6. reserved'.tpm + debited' <= Tpm + refill
        BY <2>3, <2>4, <2>5 DEF Owed, refill
    <2>7. QED
        BY <2>6 DEF Budget, refill
<1>4. QED
    BY <1>1, <1>2, <1>3, PTL DEF Spec, DebtObserved

=============================================================================
