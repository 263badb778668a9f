-------------------------- MODULE MCChatAcceptance --------------------------
(* Small instances of ChatAcceptance: three requests, two users, one key.    *)
EXTENDS ChatAcceptance, TLC

CONSTANTS u1, u2, k1, c1, c2, r1, r2, r3

\* c1 belongs to u1; c2 names no row.
OwnerOfOne == c1 :> u1

Say(c, mode, slow) == [conversation |-> c, mode |-> mode, slow |-> slow]

SomeBodies == { Say(NoConversation, "auto", FALSE),
                Say(c1, "realtime", FALSE),
                Say(c2, "auto", TRUE) }

Sends(u, k, b, s) == [user |-> u, key |-> k, body |-> b, stream |-> s]

\* One user repeats himself, changes his mind, or sends without a key; another
\* user has the same key.
SomeInput ==
    { Sends(u1, k1, Say(NoConversation, "auto", FALSE), TRUE),
      Sends(u1, k1, Say(c1, "realtime", FALSE), TRUE),
      Sends(u1, NoKey, Say(NoConversation, "auto", FALSE), FALSE),
      Sends(u2, k1, Say(c1, "realtime", FALSE), TRUE),
      Sends(u2, k1, Say(c2, "auto", TRUE), TRUE) }

Interchangeable == Permutations({r1, r2, r3})

=============================================================================
