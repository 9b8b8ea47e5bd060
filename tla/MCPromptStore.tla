--------------------------- MODULE MCPromptStore ---------------------------
(* PromptStore for TLC: clients are interchangeable. *)
EXTENDS PromptStore, TLC

Symmetry == Permutations(Clients)
=============================================================================
