----------------------------- MODULE MCSubagents -----------------------------
(* Two instances: one turn with two children that share its gate, and the     *)
(* turns of two chats, one of which may hold the provider as long as it likes *)
(* while the other is stopped.                                                *)
EXTENDS Subagents

CONSTANTS c1, c2, t1, t2, k1, k2, d1

OneFamily == [k \in Children |-> t1]
TwoFamilies == [k \in Children |-> IF k = k1 THEN t1 ELSE t2]
MCTurnChat == [t \in Turns |-> IF t = t1 THEN c1 ELSE c2]
=============================================================================
