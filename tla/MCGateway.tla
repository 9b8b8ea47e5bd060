----------------------------- MODULE MCGateway -----------------------------
(* Gateway for TLC: an administrator may lower and raise the threshold and   *)
(* the open duration, and disable the server.                                *)
EXTENDS Gateway

Quick == [enabled |-> TRUE, threshold |-> 1, duration |-> 1]
Patient == [enabled |-> TRUE, threshold |-> 2, duration |-> 2]
Disabled == [enabled |-> FALSE, threshold |-> 1, duration |-> 1]

MCConfigs == {Quick, Patient, Disabled}
=============================================================================
