----------------------------- MODULE AgentLink -----------------------------
(***************************************************************************)
(* One agent connection from both sides, over Tunnel: the agent's          *)
(* ServeTunnelConn at the client end and the gateway's ServeAgent at the   *)
(* server end.  Their handshake travels on the control channel of the same *)
(* connection on which the gateway's clients may already open streams.     *)
(***************************************************************************)
EXTENDS Tunnel

ASSUME LinkAssumption ==
  {"register", "ack", "nack", "heartbeat"} \subseteq Control

VARIABLES
  apc,    \* ServeTunnelConn: "register", "await", "serving", "return", "done"
  gpc,    \* ServeAgent: "await", "ack", "nack", "serving", "leaving",
          \*             "return", "done"
  inReg   \* the gateway's registry leads to this connection

linkVars == <<apc, gpc, inReg>>
allVars == <<vars, linkVars>>

LinkTypeOK ==
  /\ TypeOK
  /\ apc \in {"register", "await", "serving", "return", "done"}
  /\ gpc \in {"await", "ack", "nack", "serving", "leaving", "return", "done"}
  /\ inReg \in BOOLEAN

LinkInit == Init /\ apc = "register" /\ gpc = "await" /\ inReg = FALSE

\* NextControl and Accept return the session's error once it is closed.
Closed(e) == phase[e] # "open" /\ UNCHANGED vars

-----------------------------------------------------------------------------
(* ServeTunnelConn *)

AgentRegister ==
  /\ apc = "register"
  /\ \/ SendControl("client", "register") /\ apc' = "await"
     \/ WriteFails("client") /\ UNCHANGED vars /\ apc' = "return"
  /\ UNCHANGED <<gpc, inReg>>

DeafAgentAck ==
  /\ apc = "await"
  /\ NextControl("client")
  /\ apc' = IF Head(controlCh["client"]) = "ack" THEN "serving" ELSE "return"
  /\ UNCHANGED <<gpc, inReg>>

AgentAck ==
  /\ apc = "await"
  /\ \/ /\ NextControl("client")
        /\ apc' = IF Head(controlCh["client"]) = "ack" THEN "serving"
                  ELSE "return"
     \/ Closed("client") /\ apc' = "return"
  /\ UNCHANGED <<gpc, inReg>>

\* Each accepted stream is served by a goroutine of its own.
AgentAccept ==
  /\ apc = "serving"
  /\ \/ Accept("client") /\ UNCHANGED apc
     \/ Closed("client") /\ apc' = "return"
  /\ UNCHANGED <<gpc, inReg>>

AgentHeartbeat ==
  /\ apc = "serving"
  /\ SendControl("client", "heartbeat")
  /\ UNCHANGED linkVars

\* The goroutine that watches the context exists only once the agent serves.
AgentCancel ==
  /\ apc = "serving"
  /\ SessionClose("client")
  /\ UNCHANGED linkVars

\* The deferred sess.Close.
CloseOnReturn(e) ==
  \/ /\ CloseWithErr(e, "ErrSessionClosed")
     /\ UNCHANGED <<nextID, streams, accept, controlCh, loop, opening, netVars,
                    strVars, appVars, histVars>>
  \/ Closed(e)

AgentReturn ==
  /\ apc = "return"
  /\ CloseOnReturn("client")
  /\ apc' = "done"
  /\ UNCHANGED <<gpc, inReg>>

AgentStep ==
  AgentRegister \/ AgentAck \/ AgentAccept \/ AgentReturn

-----------------------------------------------------------------------------
(* ServeAgent *)

AckFirst ==
  /\ gpc = "await"
  /\ NextControl("server")
  /\ gpc' = "ack"
  /\ UNCHANGED <<apc, inReg>>

\* register comes before the ack is written.
GatewayRegister ==
  /\ gpc = "await"
  /\ \/ /\ NextControl("server")
        /\ \/ gpc' = "ack" /\ inReg' = TRUE
           \/ gpc' = "nack" /\ UNCHANGED inReg
     \/ Closed("server") /\ gpc' = "return" /\ UNCHANGED inReg
  /\ UNCHANGED apc

GatewayAck ==
  /\ gpc \in {"ack", "nack"}
  /\ \/ /\ SendControl("server", gpc)
        /\ gpc' = IF gpc = "ack" THEN "serving" ELSE "return"
     \/ /\ WriteFails("server") /\ UNCHANGED vars
        /\ gpc' = IF gpc = "ack" THEN "leaving" ELSE "return"
  /\ UNCHANGED <<apc, inReg>>

DeafGatewayServe ==
  /\ gpc = "serving"
  /\ NextControl("server")
  /\ UNCHANGED linkVars

\* Heartbeats are read and dropped.
GatewayServe ==
  /\ gpc = "serving"
  /\ \/ NextControl("server") /\ UNCHANGED gpc
     \/ Closed("server") /\ gpc' = "leaving"
  /\ UNCHANGED <<apc, inReg>>

GatewayLeave ==
  /\ gpc = "leaving"
  /\ gpc' = "return" /\ inReg' = FALSE
  /\ UNCHANGED <<vars, apc>>

GatewayReturn ==
  /\ gpc = "return"
  /\ CloseOnReturn("server")
  /\ gpc' = "done"
  /\ UNCHANGED <<apc, inReg>>

GatewayStep ==
  GatewayRegister \/ GatewayAck \/ GatewayServe \/ GatewayLeave \/ GatewayReturn

\* ServeClient opens a stream over the connection it finds in the registry.
ClientOpen ==
  /\ inReg
  /\ OpenInsert("server")
  /\ UNCHANGED linkVars

\* The sessions' own steps.
SessionStep(e) ==
  /\ \/ Sweep(e) \/ ReadLoop(e)
     \/ \E i \in Ids : StreamStep(e, i)
  /\ UNCHANGED linkVars

-----------------------------------------------------------------------------
LinkNext ==
  \/ AgentStep \/ AgentHeartbeat \/ AgentCancel
  \/ GatewayStep \/ ClientOpen
  \/ \E e \in Ends : SessionStep(e)
  \/ LinkDown /\ UNCHANGED linkVars

LinkSpec == LinkInit /\ [][LinkNext]_allVars

\* Both goroutines run and the sessions' readLoops do.  The agent may be
\* cancelled or the connection lost at any time, or never.
LinkFairness ==
  /\ WF_allVars(AgentStep) /\ WF_allVars(GatewayStep)
  /\ \A e \in Ends :
       /\ WF_allVars(Sweep(e) /\ UNCHANGED linkVars)
       /\ WF_allVars(ReadLoop(e) /\ UNCHANGED linkVars)
       /\ \A i \in Ids : WF_allVars(OpenSend(e, i) /\ UNCHANGED linkVars)

FairLinkSpec == LinkSpec /\ LinkFairness

-----------------------------------------------------------------------------
(* Properties *)

\* The two sides agree: an agent that serves is in the registry until the
\* gateway has learnt that the connection ended, and an agent that is handed
\* a stream was acknowledged on this connection.
ServingMeansRegistered ==
  /\ LinkTypeOK
  /\ apc = "serving" => inReg \/ phase["server"] # "open" \/ gpc = "leaving"
                          \/ gpc = "return"
  /\ held["client"] # {} => apc \in {"serving", "return", "done"}

\* An agent that has left is eventually out of the registry.
LeftAgentForgotten == apc = "done" ~> ~inReg

\* A registration is answered or the connection ends, as long as no more
\* streams are opened before the answer than the accept channel holds:
\* readLoop waits for room there, and nobody accepts before the answer.
RegistrationAnswered == apc = "await" ~> apc # "await"
-----------------------------------------------------------------------------
(* The inductive invariant *)

Answered == gpc \in {"serving", "leaving", "return", "done"}

\* An ack is on its way to the agent: on the connection, in readLoop's hands,
\* or in the control channel.
AckFrame(f) == f.typ = "control" /\ f.msg = "ack"
AckSent == \E k \in DOMAIN wire["client"] : AckFrame(wire["client"][k])
AckRead == loop["client"].at = "got" /\ AckFrame(loop["client"].f)
AckQueued == \E k \in DOMAIN controlCh["client"] : controlCh["client"][k] = "ack"
AckWaits == AckSent \/ AckRead \/ AckQueued

\* There is an ack only once the gateway has registered the agent and answered,
\* and it leaves its loop only when the connection has ended; and every stream
\* the agent holds is one it has accepted.
LinkInv ==
  /\ LinkTypeOK
  /\ AckWaits \/ apc = "serving" => Answered
  /\ gpc \in {"ack", "serving"} => inReg
  /\ gpc = "done" => phase["server"] # "open"
  /\ opening["client"] = {}
  /\ held["client"] # {} => apc \in {"serving", "return", "done"}
=============================================================================
