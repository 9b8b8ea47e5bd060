---------------------------- MODULE MCAgentStore ----------------------------
(* AgentStore for TLC: clients and column values are interchangeable. *)
EXTENDS AgentStore, TLC

Symmetry == Permutations(Clients) \cup Permutations(Values)
=============================================================================
