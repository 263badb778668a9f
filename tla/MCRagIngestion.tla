--------------------------- MODULE MCRagIngestion ---------------------------
(* Small instances of RagIngestion: two requests for the same content whose  *)
(* tasks run on two workers; two that give it a type of their own; one whose *)
(* executions cut differently; one for any short text, cut with any size and *)
(* overlap, and queried; and queries of which everything fails, to bases in  *)
(* any state.                                                                *)
EXTENDS RagIngestion, TLC

CONSTANTS r1, r2, w1, w2, LongestText, LargestChunk

Sentences == {<<"a", Stop, "a">>}

Cut(size, overlap) == [size |-> size, overlap |-> overlap]

Asked(strict, bound) == [strict |-> strict, bound |-> bound]

Contended ==
    { [texts |-> Sentences, types |-> {"text"}, cuts |-> {Cut(2, 1)},
       requests |-> {r1, r2}, bases |-> {"ACTIVE"}, queries |-> {}, faults |-> 3] }

Typed ==
    { [texts |-> Sentences, types |-> {"text", "other"}, cuts |-> {Cut(2, 1)},
       requests |-> {r1, r2}, bases |-> {"ACTIVE"}, queries |-> {}, faults |-> 1] }

\* The first cut leaves three rows, the second needs one of them.
Recut ==
    { [texts |-> Sentences, types |-> {"text"}, cuts |-> {Cut(1, 0), Cut(3, 0)},
       requests |-> {r1}, bases |-> {"ACTIVE"}, queries |-> {Asked(TRUE, TRUE)},
       faults |-> 2] }

\* As RAGDocumentCreate leaves them.
ShortTexts ==
    {t \in UNION {[1 .. n -> Characters] : n \in 1 .. LongestText} : t # <<>> /\ Strip(t) = t}

EveryCut ==
    { s \in [texts : {{t} : t \in ShortTexts}, types : {{"text"}},
             cuts : {{Cut(size, overlap)} : size \in 1 .. LargestChunk,
                                            overlap \in 0 .. LargestChunk - 1},
             requests : {{r1}}, bases : {{"ACTIVE"}}, queries : {{Asked(TRUE, TRUE)}},
             faults : {0}] :
        \A c \in s.cuts : c.overlap < c.size }

\* query_knowledge requires a knowledge base, and the agent is never strict.
Queried ==
    { [texts |-> Sentences, types |-> {"text"}, cuts |-> {Cut(2, 1)}, requests |-> {r1},
       bases |-> BaseStatuses,
       queries |-> {Asked(TRUE, TRUE), Asked(FALSE, TRUE), Asked(FALSE, FALSE)},
       faults |-> 1] }

Instances == Contended \cup Typed \cup Recut \cup EveryCut \cup Queried

Interchangeable == Permutations({w1, w2})

=============================================================================
