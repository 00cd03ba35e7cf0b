---------------------------- MODULE MCAgentLink ----------------------------
(* Small instances of AgentLink. *)
EXTENDS AgentLink

Both == {"client", "server"}
Server == {"server"}
Client == {"client"}
Nobody == {}
Messages == {"register", "ack", "nack", "heartbeat"}
=============================================================================
