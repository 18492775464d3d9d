----------------------------- MODULE MCMqttRpc -----------------------------
(* The plugin's two calling threads: the worker calls twice, so that a late  *)
(* answer to its first call can meet the second, and the lifecycle once.     *)
EXTENDS MqttRpc

MCCallers == {"worker", "lifecycle"}
MCMaxCalls == [c \in MCCallers |-> IF c = "worker" THEN 2 ELSE 1]
=============================================================================
