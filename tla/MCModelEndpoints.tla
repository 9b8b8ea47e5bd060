-------------------------- MODULE MCModelEndpoints --------------------------
(* ModelEndpoints for TLC: clients and column values are interchangeable. *)
EXTENDS ModelEndpoints, TLC

Symmetry == Permutations(Clients) \cup Permutations(Values)
=============================================================================
