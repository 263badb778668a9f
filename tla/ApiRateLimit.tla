---------------------------- MODULE ApiRateLimit ----------------------------
(***************************************************************************)
(* The middlewares before the handlers (app/api/middleware.py): AuthMiddle-*)
(* ware, then RateLimitMiddleware with the sliding window of RateLimiter   *)
(* (app/api/ratelimit.py), a sorted set in Redis for each user that all    *)
(* API processes share.                                                    *)
(*                                                                         *)
(* The pipeline is atomic in Redis, but the time it trims and scores with  *)
(* is the caller's, read before the command travels.                       *)
(***************************************************************************)
EXTENDS Integers, FiniteSets

CONSTANTS
    Request,      \* requests to the API
    User,         \* user ids, which are the tokens of the requests
    NoUser,       \* a request without credentials
    Limit,        \* settings.rate_limit_per_min
    Window,       \* _WINDOW_SECONDS, in ticks
    Promptness,   \* whether commands are prompt, one of them in a behaviour
    MaxClock      \* bound of the model: ticks in a behaviour

ASSUME RequestAssumption == IsFiniteSet(Request) /\ NoUser \notin User

ASSUME LimitAssumption ==
    /\ Limit \in Nat \ {0} /\ Window \in Nat \ {0}
    /\ Promptness \subseteq BOOLEAN
    /\ MaxClock \in Nat

VARIABLES
    clock,       \* the time, the same for Redis and all processes
    prompt,      \* a command is executed in the tick in which it was sent
    pc,          \* where each request is
    user,        \* whose it is, if it is counted
    time,        \* the time its command carries
    remaining,   \* X-RateLimit-Remaining of its answer
    entries,     \* the sorted set of each user: requests, scored by their time
    expires      \* when the key of each user expires

vars == <<clock, prompt, pc, user, time, remaining, entries, expires>>

\* A user may ask the limited path, another one or a public one.
Paths == {"/chat", "/runs", "/healthz"}

Answered == {"admitted", "refused", "waved"}

Places == {"idle", "counting", "passed", "unauthorized"} \cup Answered

Init ==
    /\ clock = 0
    /\ prompt \in Promptness
    /\ pc = [r \in Request |-> "idle"]
    /\ user = [r \in Request |-> NoUser]
    /\ time = [r \in Request |-> 0]
    /\ remaining = [r \in Request |-> 0]
    /\ entries = [u \in User |-> {}]
    /\ expires = [u \in User |-> 0]

Goto(r, place) == pc' = [pc EXCEPT ![r] = place]

Tick ==
    /\ clock < MaxClock
    /\ prompt => \A r \in Request : pc[r] # "counting"
    /\ clock' = clock + 1
    /\ UNCHANGED <<prompt, pc, user, time, remaining, entries, expires>>

-----------------------------------------------------------------------------
(* The middlewares.                                                         *)

IsPublic(path) == path = "/healthz"

NeedsRateLimit(path) == path = "/chat"

\* AuthMiddleware is the outer one and answers 401.
Unauthorized(path, u) == ~IsPublic(path) /\ u = NoUser

\* RateLimitMiddleware lets pass what it is not for.
Limited(path, u) == NeedsRateLimit(path) /\ u # NoUser

\* dispatch of both, as far as the command, which carries time.time().
Arrive(r) ==
    /\ pc[r] = "idle"
    /\ \E path \in Paths, u \in User \cup {NoUser} :
         \/ /\ Unauthorized(path, u)
            /\ Goto(r, "unauthorized")
            /\ UNCHANGED <<user, time>>
         \/ /\ ~Unauthorized(path, u) /\ ~Limited(path, u)
            /\ Goto(r, "passed")
            /\ UNCHANGED <<user, time>>
         \/ /\ Limited(path, u)
            /\ Goto(r, "counting")
            /\ user' = [user EXCEPT ![r] = u]
            /\ time' = [time EXCEPT ![r] = clock]
    /\ UNCHANGED <<clock, prompt, remaining, entries, expires>>

-----------------------------------------------------------------------------
(* RateLimiter.check.                                                       *)

\* An expired key reads as an empty set.
Stored(u) == IF clock < expires[u] THEN entries[u] ELSE {}

\* Mutant: what has left the window still counts.
CountedForEver(r) == Stored(user[r]) \cup {r}

\* Mutant: one member for a user and a time.
CountedByTime(r) ==
    {q \in Stored(user[r]) : time[q] > time[r] - Window /\ time[q] # time[r]} \cup {r}

\* ZREMRANGEBYSCORE from 0 to now - window, ZADD and ZCARD; a refused request
\* counts, too.
Counted(r) == {q \in Stored(user[r]) : time[q] > time[r] - Window} \cup {r}

\* _run_pipeline: one MULTI, with EXPIRE window + 1.
Pipeline(r) ==
    /\ entries' = [entries EXCEPT ![user[r]] = Counted(r)]
    /\ expires' = [expires EXCEPT ![user[r]] = clock + Window + 1]

\* Mutant: the remainder may be negative.
RemainderSigned(count) == Limit - count

Remainder(count) == IF count <= Limit THEN Limit - count ELSE 0

\* _build_result; the others get 429 with Retry-After, the window.
Count(r) ==
    LET count == Cardinality(Counted(r))
    IN  /\ pc[r] = "counting"
        /\ Pipeline(r)
        /\ remaining' = [remaining EXCEPT ![r] = Remainder(count)]
        /\ Goto(r, IF count <= Limit THEN "admitted" ELSE "refused")
        /\ UNCHANGED <<clock, prompt, user, time>>

\* Redis fails, or its reply is lost: the request is let pass.
FailOpen(r) ==
    /\ pc[r] = "counting"
    /\ Pipeline(r) \/ UNCHANGED <<entries, expires>>
    /\ remaining' = [remaining EXCEPT ![r] = Limit]
    /\ Goto(r, "waved")
    /\ UNCHANGED <<clock, prompt, user, time>>

Next == Tick \/ \E r \in Request : Arrive(r) \/ Count(r) \/ FailOpen(r)

Spec == Init /\ [][Next]_vars

-----------------------------------------------------------------------------
(* Safety.                                                                  *)

TypeOK ==
    /\ clock \in Nat
    /\ prompt \in BOOLEAN
    /\ pc \in [Request -> Places]
    /\ user \in [Request -> User \cup {NoUser}]
    /\ time \in [Request -> Nat]
    /\ remaining \in [Request -> 0 .. Limit]
    /\ entries \in [User -> SUBSET Request]
    /\ expires \in [User -> Nat]

\* The requests of a user in the window that ends with t.
Within(u, t, places) ==
    {r \in Request : /\ pc[r] \in places /\ user[r] = u
                     /\ t - Window < time[r] /\ time[r] <= t}

\* docs/API.md: 60 a minute, in a sliding window.  Whatever processes count the
\* requests of a user, however they interleave, and though keys expire and
\* replies get lost: no window holds more admitted requests than the limit, as
\* long as commands are not overtaken by later ones.
WindowLimit ==
    prompt => \A u \in User : \A t \in 0 .. clock :
                  Cardinality(Within(u, t, {"admitted"})) <= Limit

\* Nobody is refused for what others do, or for what he did before the window:
\* whoever waits for the Retry-After, asking nothing meanwhile, is let in.
RefusalJustified ==
    prompt => \A r \in Request : pc[r] = "refused" =>
                  Cardinality(Within(user[r], time[r], Answered) \ {r}) >= Limit

=============================================================================
