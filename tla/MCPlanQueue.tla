----------------------------- MODULE MCPlanQueue -----------------------------
(* Two instances: a session whose second plan needs the first, with two       *)
(* starts of its queue, and two sessions with a plan each.                    *)
EXTENDS PlanQueue, TLC

CONSTANTS p1, p2, s1, s2, g1, g2, r1, r2, r3, t1, t2, x1

OneSession == [p \in Plans |-> s1]
TwoSessions == [p \in Plans |-> IF p = p1 THEN s1 ELSE s2]
OneHome == [g \in Generations |-> s1]
TwoHomes == [g \in Generations |-> IF g = g1 THEN s1 ELSE s2]
SecondNeedsFirst == [p \in Plans |-> IF p = p2 THEN {p1} ELSE {}]
Symmetric == Permutations(Runs) \cup Permutations(Threads) \cup Permutations(Generations)
NoPrerequisite == [p \in Plans |-> {}]
=============================================================================
