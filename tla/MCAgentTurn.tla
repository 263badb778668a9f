---------------------------- MODULE MCAgentTurn ----------------------------
(* A small instance of AgentTurn: texts up to a full buffer and a tail, with *)
(* or without tool calls after them, some of them side by side.              *)
EXTENDS AgentTurn

CONSTANT LongestText

Texts == {[text |-> n, calls |-> <<>>] : n \in 1 .. LongestText}

TextsThenCalls == { [text |-> 0, calls |-> <<Search, "calculator">>],
                    [text |-> 2, calls |-> <<"calculator", "web_search">>],
                    [text |-> 3, calls |-> <<"clock">>] }

Responses == Texts \cup TextsThenCalls
=============================================================================
