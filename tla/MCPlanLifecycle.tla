--------------------------- MODULE MCPlanLifecycle ---------------------------
(* Two runs of one plan in one chat, two plans that share a chat, and a      *)
(* message the user sends there.                                             *)
EXTENDS PlanLifecycle

CONSTANTS p1, p2, c1, r1, r2, s1

MCPlans == {p1}
MCTwoPlans == {p1, p2}
MCChats == {c1}
MCRuns == {r1, r2}
MCOneRun == {r1}
MCSends == {s1}
MCNone == {}
MCRunPlan == [r \in Runs |-> p1]
MCOwnPlan == [r \in Runs |-> IF r = r1 THEN p1 ELSE p2]
MCTurnChat == [t \in Turns |-> c1]
MCLinked == {p1}
=============================================================================
