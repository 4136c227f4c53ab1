------------------------------- MODULE MCMqttApps -------------------------------
(* MqttApps for TLC.  One session may begin while the first context is     *)
(* used, and a second one with the second context.                         *)
EXTENDS MqttApps

MCInit == [n \in 0 .. MaxCtx |-> IF n = MaxCtx THEN 2 ELSE 1]
=============================================================================
