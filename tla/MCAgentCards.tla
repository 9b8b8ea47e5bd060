---------------------------- MODULE MCAgentCards ----------------------------
(* AgentCards for TLC: two agents; one retry where the code has three. *)
EXTENDS AgentCards
=============================================================================
