----------------------------- MODULE MCGateway -----------------------------
(* A small instance of Gateway: two connections of one agent, which serves  *)
(* one of two targets or is refused, and a client for either target.        *)
EXTENDS Gateway

CONSTANTS A, t1, t2

OneAgent == {[id |-> A, targets |-> {t1}, ok |-> TRUE],
             [id |-> A, targets |-> {}, ok |-> FALSE]}
=============================================================================
