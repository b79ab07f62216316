----------------------------- MODULE MCAgentLoop -----------------------------
(***************************************************************************)
(* A small instance of AgentLoop: two chats would not interact, so every   *)
(* run and every steer belongs to one.                                     *)
(***************************************************************************)
EXTENDS AgentLoop

CONSTANT TheChat

MCRunChat == [r \in Runs |-> TheChat]
MCSteerChat == [s \in Steers |-> TheChat]
=============================================================================
