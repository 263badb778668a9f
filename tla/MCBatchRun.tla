----------------------------- MODULE MCBatchRun -----------------------------
(* Small instances of BatchRun: one run, whose deliveries overlap on two      *)
(* workers.  Runs share nothing but the workers and the queue.                *)
EXTENDS BatchRun, TLC

CONSTANTS r1, w1, w2

Workers == Permutations({w1, w2})

\* Overlapping executions whose writes and events get lost; a single execution
\* at a time, lost and repeated; and the reaper with nothing that spoils a run.
SafetyMixes ==
    { {"db", "redis", "provider", "reaper"},
      {"db", "provider", "crash"},
      {"db", "crash"},
      {"provider", "slow", "reaper"},
      {"redis", "crash", "reaper"},
      {"crash", "reaper"} }

\* What a run is to be brought to an end in spite of.
LivenessMixes ==
    { {"db", "redis", "reaper"},
      {"slow", "reaper"},
      {"provider", "crash", "reaper"} }

JustReaper == { {"reaper"} }

=============================================================================
