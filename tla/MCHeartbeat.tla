----------------------------- MODULE MCHeartbeat ------------------------------
(* Heartbeat with configurations for both agents and for none. *)
EXTENDS Heartbeat

MCConfigurations == {Agents, {}}
=============================================================================
