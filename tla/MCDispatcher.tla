---------------------------- MODULE MCDispatcher ----------------------------
(* Dispatcher for TLC: one subscription to every event, one to e1 only. *)
EXTENDS Dispatcher

CONSTANTS e1, s1

MCWants == [s \in Subs |-> IF s = s1 THEN Events ELSE {e1}]
=============================================================================
