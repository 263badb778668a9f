--------------------------- MODULE MCApiRateLimit ---------------------------
(* A small instance of ApiRateLimit: two users, and windows that open and     *)
(* close over more requests than they admit.                                  *)
EXTENDS ApiRateLimit, TLC

Interchangeable == Permutations(Request) \cup Permutations(User)
=============================================================================
