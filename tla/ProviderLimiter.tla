-------------------------- MODULE ProviderLimiter --------------------------
(***************************************************************************)
(* RedisProviderRateLimiter (app/runtime/provider_limits.py) and the calls *)
(* that the chat handler's preflight (app/api/routers/chat.py) and the     *)
(* orchestrator (app/runtime/orchestrator.py) make to it, for one provider *)
(* and model.                                                              *)
(*                                                                         *)
(* The scripts are atomic in Redis, but the time they compute with is the  *)
(* caller's: read from its own clock, before the command travels.          *)
(***************************************************************************)
EXTENDS Integers

CONSTANTS
    Call,         \* runs that ask for the provider
    Minute,       \* ticks of a minute
    RpmRate,      \* requests refilled in a tick
    TpmRate,      \* tokens refilled in a tick
    Needs,        \* reserved_tokens of the requests
    Debits,       \* tokens used beyond the reservation
    RetryAfters,  \* ticks that a provider error asks to back off
    GateBudget,   \* provider_realtime_gate_wait_budget_ms, in ticks
    FailOpen,     \* provider_rate_limit_fail_open
    Promptness,   \* whether commands are prompt, one of them in a behaviour
    MaxClock      \* bound of the model: ticks in a behaviour

Rpm == Minute * RpmRate
Tpm == Minute * TpmRate

ASSUME LimiterAssumption ==
    /\ {Minute, RpmRate, TpmRate} \subseteq Nat \ {0}
    /\ Needs \subseteq Nat \ {0}
    /\ Debits \subseteq Nat
    /\ RetryAfters \subseteq Nat \ {0}
    /\ {GateBudget, MaxClock} \subseteq Nat
    /\ FailOpen \in BOOLEAN
    /\ Promptness \subseteq BOOLEAN

VARIABLES
    clock,     \* the time, the same for Redis and all callers
    prompt,    \* a command is executed in the tick in which it was sent
    pc,        \* where each call is
    time,      \* the time its command carries, or when it wakes
    tokens,    \* the tokens its command is about
    bucket,    \* the hash of tokens, and when the key expires
    backoff,   \* the back-off key
    start,     \* history: beginning of an arbitrary window
    reserved,  \* history: what was reserved in it
    debited,   \* history: the tokens debited in it
    asked      \* history: until when the provider was to be left alone

vars == <<clock, prompt, pc, time, tokens, bucket, backoff,
          start, reserved, debited, asked>>

keys    == <<bucket, backoff>>
history == <<reserved, debited, asked>>
fixed   == <<prompt, start>>

\* "asking" is the first attempt of a realtime run, "askingLast" its second,
\* or that of a batch run.
Underway == {"checking", "asking", "askingLast", "settling", "reporting"}

Places == Underway \cup
    {"idle", "ready", "queued", "sleeping", "calling", "done", "refused"}

FullBucket(t) == [rpm |-> Rpm, tpm |-> Tpm, last |-> t, expires |-> 0]

Init ==
    /\ clock = 0
    /\ prompt \in Promptness
    /\ pc = [x \in Call |-> "idle"]
    /\ time = [x \in Call |-> 0]
    /\ tokens \in [Call -> Needs]
    /\ bucket = FullBucket(0)
    /\ backoff = [until |-> 0, expires |-> 0]
    /\ start \in 0 .. MaxClock
    /\ reserved = [rpm |-> 0, tpm |-> 0]
    /\ debited = 0
    /\ asked = 0

Goto(x, place) == pc' = [pc EXCEPT ![x] = place]

\* int(time.time() * 1000) of the caller, read when the command is sent.
Send(x, place) ==
    /\ Goto(x, place)
    /\ time' = [time EXCEPT ![x] = clock]

Tick ==
    /\ clock < MaxClock
    /\ prompt => \A x \in Call : pc[x] \notin Underway
    /\ clock' = clock + 1
    /\ UNCHANGED <<fixed, pc, time, tokens, keys, history>>

-----------------------------------------------------------------------------
(* The scripts.                                                             *)

Least(a, b) == IF a < b THEN a ELSE b

Elapsed(from, to) == IF from < to THEN to - from ELSE 0

\* An expired or missing key reads as a full bucket.
Stored(t) == IF clock < bucket.expires THEN bucket ELSE FullBucket(t)

\* Mutant: the bucket is not capped.
RefilledUncapped(b, t) ==
    [b EXCEPT !.rpm = @ + RpmRate * Elapsed(b.last, t),
              !.tpm = @ + TpmRate * Elapsed(b.last, t),
              !.last = t]

\* The refill always moves last_refill_ms, also back.
Refilled(b, t) ==
    [b EXCEPT !.rpm = Least(Rpm, @ + RpmRate * Elapsed(b.last, t)),
              !.tpm = Least(Tpm, @ + TpmRate * Elapsed(b.last, t)),
              !.last = t]

\* HSET and PEXPIRE 120000.
Store(b) == bucket' = [b EXCEPT !.expires = clock + 2 * Minute]

BackingOff(x) == clock < backoff.expires /\ time[x] < backoff.until

Offer(x) == Refilled(Stored(time[x]), time[x])

Covered(x) == Offer(x).rpm >= 1 /\ Offer(x).tpm >= tokens[x]

Admits(x) == ~ BackingOff(x) /\ Covered(x)

\* The acquire script with reserve = 0.
CheckScript(x) ==
    /\ IF BackingOff(x) THEN UNCHANGED bucket ELSE Store(Offer(x))
    /\ UNCHANGED <<backoff, history>>

InWindow == start <= clock

ReserveScript(x) ==
    /\ Admits(x)
    /\ Store([Offer(x) EXCEPT !.rpm = @ - 1, !.tpm = @ - tokens[x]])
    /\ reserved' = IF InWindow
                     THEN [rpm |-> reserved.rpm + 1, tpm |-> reserved.tpm + tokens[x]]
                     ELSE reserved
    /\ UNCHANGED <<backoff, debited, asked>>

AcquireScript(x) == ReserveScript(x) \/ (~ Admits(x) /\ CheckScript(x))

\* Mutant: the balance is not written back.
SettleNothing(x) ==
    /\ Store([Stored(time[x]) EXCEPT !.last = time[x]])
    /\ debited' = IF InWindow THEN debited + tokens[x] ELSE debited
    /\ UNCHANGED <<backoff, reserved, asked>>

\* Refills the tokens but not the requests, and moves last_refill_ms.
SettleScript(x) ==
    /\ LET b == Stored(time[x]) IN
          Store([b EXCEPT !.tpm = Refilled(b, time[x]).tpm - tokens[x],
                          !.last = time[x]])
    /\ debited' = IF InWindow THEN debited + tokens[x] ELSE debited
    /\ UNCHANGED <<backoff, reserved, asked>>

\* Mutant: the value is the duration, not the time.
ReportDuration(x, wait) ==
    /\ backoff' = [until |-> wait, expires |-> clock + wait]
    /\ asked' = IF asked < clock + wait THEN clock + wait ELSE asked
    /\ UNCHANGED <<bucket, reserved, debited>>

\* PSETEX replaces whatever back-off there was.
ReportScript(x, wait) ==
    /\ backoff' = [until |-> time[x] + wait, expires |-> clock + wait]
    /\ asked' = IF asked < clock + wait THEN clock + wait ELSE asked
    /\ UNCHANGED <<bucket, reserved, debited>>

-----------------------------------------------------------------------------
(* The callers.  A command that raises may have been executed.              *)

Nothing == UNCHANGED <<keys, history>>

\* A batch run goes to its queue at once, a realtime run is checked first.
Submit(x) ==
    /\ pc[x] = "idle"
    /\ \/ Send(x, "checking")
       \/ Goto(x, "queued") /\ UNCHANGED time
    /\ Nothing
    /\ UNCHANGED <<clock, fixed, tokens>>

\* Without the provider's consent the run is degraded to batch, or refused.
Check(x) ==
    /\ pc[x] = "checking"
    /\ CheckScript(x)
    /\ IF Admits(x) THEN Goto(x, "ready")
                    ELSE Goto(x, "queued") \/ Goto(x, "refused")
    /\ UNCHANGED <<clock, fixed, time, tokens>>

\* UNAVAILABLE is treated like a refusal, a timeout is one.
CheckFails(x) ==
    /\ pc[x] = "checking"
    /\ CheckScript(x) \/ Nothing
    /\ \/ Goto(x, "refused")
       \/ Goto(x, IF FailOpen THEN "ready" ELSE "queued")
    /\ UNCHANGED <<clock, fixed, time, tokens>>

Ask(x) ==
    /\ \/ pc[x] = "ready" /\ Send(x, "asking")
       \/ pc[x] = "queued" /\ Send(x, "askingLast")
       \/ pc[x] = "sleeping" /\ time[x] <= clock /\ Send(x, "askingLast")
    /\ Nothing
    /\ UNCHANGED <<clock, fixed, tokens>>

\* _acquire_provider_quota: a realtime run waits once, if it need not wait for
\* too long.
TurnDown(x, wait) ==
    IF pc[x] = "asking" /\ wait <= GateBudget
      THEN /\ Goto(x, "sleeping")
           /\ time' = [time EXCEPT ![x] = clock + wait]
      ELSE Goto(x, "refused") /\ UNCHANGED time

\* The least number of ticks that make up for what is missing.
TicksFor(missing, rate) == IF missing <= 0 THEN 0 ELSE (missing + rate - 1) \div rate

RetryAfter(x) ==
    IF BackingOff(x)
      THEN backoff.until - time[x]
      ELSE LET rpmWait == TicksFor(1 - Offer(x).rpm, RpmRate)
               tpmWait == TicksFor(tokens[x] - Offer(x).tpm, TpmRate)
           IN  IF rpmWait < tpmWait THEN tpmWait ELSE rpmWait

Acquire(x) ==
    /\ pc[x] \in {"asking", "askingLast"}
    /\ AcquireScript(x)
    /\ IF Admits(x) THEN Goto(x, "calling") /\ UNCHANGED time
                    ELSE TurnDown(x, RetryAfter(x))
    /\ UNCHANGED <<clock, fixed, tokens>>

\* UNAVAILABLE comes with a retry_after_ms of its own.
AcquireFails(x) ==
    /\ pc[x] \in {"asking", "askingLast"}
    /\ AcquireScript(x) \/ Nothing
    /\ IF FailOpen THEN Goto(x, "calling") /\ UNCHANGED time
                   ELSE TurnDown(x, 1)
    /\ UNCHANGED <<clock, fixed, tokens>>

\* The agent loop ends: its usage is settled; or is unknown, or lost with an
\* ordinary exception; or the provider refused.
Finish(x) ==
    /\ pc[x] = "calling"
    /\ \/ Send(x, "settling") /\ \E d \in Debits : tokens' = [tokens EXCEPT ![x] = d]
       \/ Send(x, "reporting") /\ UNCHANGED tokens
       \/ Goto(x, "done") /\ UNCHANGED <<time, tokens>>
    /\ Nothing
    /\ UNCHANGED <<clock, fixed>>

Settle(x) ==
    /\ pc[x] = "settling"
    /\ \/ SettleScript(x) /\ Goto(x, "done")
       \/ SettleScript(x) /\ Goto(x, "refused")
       \/ Nothing /\ Goto(x, "refused")
    /\ UNCHANGED <<clock, fixed, time, tokens>>

Report(x) ==
    /\ pc[x] = "reporting"
    /\ (\E wait \in RetryAfters : ReportScript(x, wait)) \/ Nothing
    /\ Goto(x, "refused")
    /\ UNCHANGED <<clock, fixed, time, tokens>>

CallStep(x) ==
    \/ Submit(x) \/ Check(x) \/ CheckFails(x) \/ Ask(x)
    \/ Acquire(x) \/ AcquireFails(x)
    \/ Finish(x) \/ Settle(x) \/ Report(x)

Next == Tick \/ \E x \in Call : CallStep(x)

Spec == Init /\ [][Next]_vars

-----------------------------------------------------------------------------
(* Safety.                                                                  *)

Bucket == [rpm : 0 .. Rpm, tpm : Int, last : Nat, expires : Nat]

TypeOK ==
    /\ clock \in Nat
    /\ prompt \in BOOLEAN
    /\ pc \in [Call -> Places]
    /\ time \in [Call -> Nat]
    /\ tokens \in [Call -> Nat]
    /\ bucket \in Bucket /\ bucket.tpm <= Tpm
    /\ backoff \in [until : Nat, expires : Nat]
    /\ start \in Nat
    /\ reserved \in [rpm : Nat, tpm : Nat]
    /\ debited \in Nat
    /\ asked \in Nat

\* What a window of a given length may admit: a full bucket, and the refill.
Budget(capacity, rate) == capacity + rate * (clock - start)

Oversubscribed ==
    /\ InWindow
    /\ \/ reserved.rpm > Budget(Rpm, RpmRate)
       \/ reserved.tpm > Budget(Tpm, TpmRate)

\* In no period of time are more requests or tokens reserved than the limits
\* allow, however the callers of all replicas interleave, keys expire and
\* replies get lost: as long as commands are not overtaken by later ones.
WindowRespected == prompt => ~ Oversubscribed

Granted(x) == pc[x] \in {"asking", "askingLast"} /\ pc'[x] = "calling"

\* The key of a bucket expires after two minutes, which refill it twice: a debt
\* deeper than it holds is not paid by then, and forgotten.
Remembered == clock < start + 2 * Minute \/ debited <= Tpm

\* What was used beyond the reservations is paid for before anything else is
\* granted: in two minutes any debt, and in the long run one that the key's life
\* pays for.
DebtObserved ==
    [][\A x \in Call :
          Granted(x) /\ prompt /\ ~ FailOpen /\ InWindow /\ Remembered =>
              reserved'.tpm + debited' <= Budget(Tpm, TpmRate)]_vars

\* Once a provider error is recorded, nobody is admitted until the provider
\* may be called again.  The errors ask for equal waits: a later, shorter one
\* replaces a longer one.
BackoffRespected ==
    [][\A x \in Call :
          /\ Granted(x) /\ prompt /\ ~ FailOpen
          /\ \A v, w \in RetryAfters : v = w
          => asked <= clock]_vars

=============================================================================
