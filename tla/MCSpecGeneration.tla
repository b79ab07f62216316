-------------------------- MODULE MCSpecGeneration --------------------------
(* Two plans with one title: their candidates are the same, in the same order. *)
EXTENDS SpecGeneration

CONSTANTS p1, p2, r1, r2, n1, n2

MCPlanOf == [r \in Requests |-> IF r = r2 THEN p2 ELSE p1]
MCCandidates == [p \in Plans |-> <<n1, n2>>]
=============================================================================
