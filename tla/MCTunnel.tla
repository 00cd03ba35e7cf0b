------------------------------ MODULE MCTunnel ------------------------------
(* Small instances of Tunnel. *)
EXTENDS Tunnel

Both == {"client", "server"}
Server == {"server"}
Client == {"client"}
Nobody == {}
=============================================================================
