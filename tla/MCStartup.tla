---------------------------- MODULE MCStartup ----------------------------
(* Startup for TLC. *)
EXTENDS Startup, TLC

\* A process is like another.
Symmetry == Permutations(Processes)
=============================================================================
