-------------------------- MODULE MCProviderLimiter --------------------------
(* Small instances of ProviderLimiter: a tick is a minute long and refills    *)
(* one request and two tokens, which is all that the bucket holds.            *)
EXTENDS ProviderLimiter, TLC

CONSTANTS x1, x2, x3

Calls == Permutations(Call)

=============================================================================
