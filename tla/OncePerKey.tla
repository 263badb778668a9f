----------------------------- MODULE OncePerKey -----------------------------
(***************************************************************************)
(* What an idempotency key promises the clients of POST /chat.  Of all     *)
(* requests that carry one key of one user at most one is chosen; whoever  *)
(* is told that his request was accepted is told the run of the chosen     *)
(* one, and only if he asked for the same thing.  A request without a key  *)
(* stands for itself.                                                      *)
(***************************************************************************)
CONSTANTS
    Request,     \* requests; a run has the name of the request it was made for
    User, Key,   \* users and the idempotency keys they choose
    Body,        \* what can be asked for
    NoRequest, NoKey, NotAsked

VARIABLES
    asked,    \* the requests as their clients sent them
    chosen,   \* the request chosen for each user and key
    told      \* the run each client was told

Asks == [user : User, key : Key \cup {NoKey}, body : Body, stream : BOOLEAN]

Scope(r) == <<asked[r].user, asked[r].key>>

Init ==
    /\ asked = [r \in Request |-> NotAsked]
    /\ chosen = [i \in User \X Key |-> NoRequest]
    /\ told = [r \in Request |-> NoRequest]

Ask(r) ==
    /\ asked[r] = NotAsked
    /\ \E a \in Asks : asked' = [asked EXCEPT ![r] = a]
    /\ UNCHANGED <<chosen, told>>

Choose(r) ==
    /\ asked[r] # NotAsked
    /\ asked[r].key # NoKey
    /\ chosen[Scope(r)] = NoRequest
    /\ chosen' = [chosen EXCEPT ![Scope(r)] = r]
    /\ UNCHANGED <<asked, told>>

Tell(r, s) ==
    /\ asked[r] # NotAsked
    /\ told[r] = NoRequest
    /\ s = IF asked[r].key = NoKey THEN r ELSE chosen[Scope(r)]
    /\ s # NoRequest
    /\ asked[s].body = asked[r].body
    /\ told' = [told EXCEPT ![r] = s]
    /\ UNCHANGED <<asked, chosen>>

Next == \E r \in Request : Ask(r) \/ Choose(r) \/ \E s \in Request : Tell(r, s)

Spec == Init /\ [][Next]_<<asked, chosen, told>>
=============================================================================
