---------------------------- MODULE MCEventStream ----------------------------
(* Small instances of EventStream.                                          *)
EXTENDS EventStream

\* What production runs with, and a limit that trims: as Redis trims when it
\* likes, the smallest limit has the behaviours of the others, too.
EveryLimit == {Unlimited, 1}

=============================================================================
