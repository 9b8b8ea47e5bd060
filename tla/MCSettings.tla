---------------------------- MODULE MCSettings ----------------------------
(* Settings for TLC: one request at a time; several would meet in the limiter  *)
(* only, whose Allow is atomic.                                                *)
EXTENDS Settings
=============================================================================
