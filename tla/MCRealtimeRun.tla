---------------------------- MODULE MCRealtimeRun ----------------------------
(* Small instances of RealtimeRun: requests r1 and r2 of one conversation.   *)
EXTENDS RealtimeRun, TLC

CONSTANTS r1, r2, k1, p1, p2

KeyOfTwo == (r1 :> k1) @@ (r2 :> k1)

\* Requests of the same conversation are interchangeable, and so are processes.
Interchangeable == Permutations({r1, r2}) \cup Permutations({p1, p2})

\* Everything goes wrong but the heartbeats; or but the reaper; or stores fail
\* only on the Redis side.
SafetyMixes ==
    { Conditions \ {"stall"},
      Conditions \ {"reaper"},
      Conditions \ {"stall", "db"} }

\* Crashes or lost writes for the reaper to clean up after, or keys that only
\* expiry can free.
LivenessMixes == { {"crash", "reaper"}, {"db", "reaper"}, {"redis"} }

=============================================================================
