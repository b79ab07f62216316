------------------------------ MODULE MCPrompts ------------------------------
(* A chat that asks a question and then wants an approval, and a chat that   *)
(* asks for an approval at the same time.                                    *)
EXTENDS Prompts

CONSTANTS c1, c2, q1, a1, a2

MCChats == {c1, c2}
MCApprovals == {a1, a2}
MCQuestions == {q1}
MCCallKey == [a \in Approvals |-> a]
MCPromptChat == [p \in Prompts |-> IF p \in {q1, a1} THEN c1 ELSE c2]
MCBefore == [p \in Prompts |-> IF p = a1 THEN {q1} ELSE {}]
=============================================================================
