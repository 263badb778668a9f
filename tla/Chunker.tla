------------------------------ MODULE Chunker ------------------------------
(***************************************************************************)
(* chunk_text (app/rag/chunker.py): a text is cut into overlapping pieces  *)
(* of bounded length, at the end of a sentence where the window holds one. *)
(* A text is a sequence of characters, of which four kinds matter: white   *)
(* space, the end of a sentence, the end of a line, which is both, and     *)
(* anything else.  Offsets count from 0, as in the code: the piece from    *)
(* start to end is start + 1 .. end here.                                  *)
(***************************************************************************)
EXTENDS Naturals, Sequences, FiniteSets

Blank   == " "
NewLine == "\n"
Stop    == "."
Characters == {Blank, NewLine, Stop, "a"}

\* What str.strip removes, and what _SENTENCE_END breaks after.
White == {Blank, NewLine}
Ends  == {Stop, NewLine}

Larger(i, j) == IF i >= j THEN i ELSE j

Smaller(i, j) == IF i <= j THEN i ELSE j

\* str.strip.
Strip(t) ==
    LET solid == {i \in DOMAIN t : t[i] \notin White}
    IN  IF solid = {} THEN <<>>
        ELSE SubSeq(t, CHOOSE i \in solid : \A j \in solid : i <= j,
                       CHOOSE i \in solid : \A j \in solid : i >= j)

\* _find_break: after the last sentence end in the window, or at its end.
FindBreak(t, start, hardEnd) ==
    LET stops == {i \in start + 1 .. hardEnd : t[i] \in Ends}
    IN  IF stops = {} THEN hardEnd
        ELSE CHOOSE i \in stops : \A j \in stops : i >= j

\* Mutant: the window moves on by its own length, wherever the piece ended.
NextWindowByLength(start, end, size, overlap) == start + size - overlap

\* The next window starts overlap before the end of this piece, and moves.
NextWindow(start, end, size, overlap) ==
    IF end >= overlap THEN Larger(end - overlap, start + 1) ELSE start + 1

\* Where the piece that begins at offset p ends.
EndAt(t, size, p) ==
    LET hardEnd == Smaller(p + size, Len(t))
    IN  IF hardEnd = Len(t) THEN hardEnd ELSE FindBreak(t, p, hardEnd)

\* A window of white space gives no piece; a break that is white space is part
\* of the window and not of the piece.
PieceAt(t, size, p) ==
    LET piece == Strip(SubSeq(t, p + 1, EndAt(t, size, p)))
    IN  IF piece = <<>> THEN <<>>
        ELSE << [text |-> piece, start |-> p, end |-> EndAt(t, size, p)] >>

\* The pieces from offset p on.
ChunkText(text, size, overlap) ==
    LET t == Strip(text)
        from[p \in Nat] ==
            IF p >= Len(t) THEN <<>>
            ELSE PieceAt(t, size, p)
                 \o (IF EndAt(t, size, p) >= Len(t) THEN <<>>
                     ELSE from[NextWindow(p, EndAt(t, size, p), size, overlap)])
    IN  from[0]

-----------------------------------------------------------------------------
(* What a caller may rely on, whatever the text.                            *)

\* Every character that is not white space is in some piece.
Covers(chunks, text) ==
    LET t == Strip(text)
    IN  \A i \in DOMAIN t : t[i] \notin White =>
            \E k \in DOMAIN chunks : chunks[k].start < i /\ i <= chunks[k].end

\* No piece is empty or too long.
Bounded(chunks, size) == \A k \in DOMAIN chunks : Len(chunks[k].text) \in 1 .. size

\* They come in order, and no window is used twice.
Advance(chunks) ==
    \A k \in 1 .. Len(chunks) - 1 : chunks[k].start < chunks[k + 1].start

=============================================================================
