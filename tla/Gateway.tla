------------------------------ MODULE Gateway ------------------------------
(***************************************************************************)
(* The gateway of internal/gateway: the registry of agent connections,     *)
(* kept by one ServeAgent goroutine per connection, and the relay of       *)
(* client connections over them, one ServeClient goroutine and two copy    *)
(* goroutines per client, with the session recording around it.            *)
(*                                                                         *)
(* The tunnel session of an agent connection is used here as Tunnel shows  *)
(* it to behave: it is open or has failed with an error, and it may fail   *)
(* at any time after the agent's end of the connection is gone.            *)
(***************************************************************************)
EXTENDS Naturals, FiniteSets

CONSTANTS Conns,         \* agent connections
          AgentIds,      \* agent ids
          Targets,       \* target names
          Registrations, \* the REGISTER messages that agents send
          Clients,       \* client connections
          NoConn         \* no connection: the nil *agentConn

\* ok: the message passes ServeAgent's checks of kind, token and agent id.
ASSUME GatewayAssumption ==
  /\ Registrations \subseteq [id : AgentIds, targets : SUBSET Targets,
                              ok : BOOLEAN]
  /\ NoConn \notin Conns

VARIABLES
  \* Gateway, under mu
  agents,    \* agent id -> connection
  targets,   \* target name -> connection
  \* ServeAgent, by agent connection
  pc,        \* where ServeAgent is
  reg,       \* the agentConn: the REGISTER message it was made from
  up,        \* the agent's end of the connection is alive
  sess,      \* "open", or the error the session failed with
  lastReg,   \* history: the last connection to register a target
  \* ServeClient, by client connection
  cpc,       \* where ServeClient is
  tgt,       \* its target
  ac,        \* the connection it looked up
  client,    \* the client connection: "open", "gone" (ended), "closed" (by us)
  stream,    \* the tunnel stream, from this end
  agentEnd,  \* the agent has closed its end of the stream
  copyUp,    \* io.Copy(stream, client): "off", "run" or its result
  copyDown,  \* io.Copy(client, stream)
  first,     \* the first result received from errc
  sid,       \* sessionID: whether the store returned an id
  store      \* the control plane's record of the session

connVars == <<agents, targets, pc, reg, lastReg>>
tunnelVars == <<up, sess>>
relayVars == <<cpc, tgt, ac, client, stream, agentEnd, copyUp, copyDown, first,
               sid, store>>
vars == <<connVars, tunnelVars, relayVars>>

NoReg == [id |-> "none", targets |-> {}, ok |-> FALSE]
SessErr == {"EOF", "reset", "closed"}
CopyResult == {"nil", "ErrClosed", "err"}

TypeOK ==
  /\ agents \in [AgentIds -> Conns \cup {NoConn}]
  /\ targets \in [Targets -> Conns \cup {NoConn}]
  /\ pc \in [Conns -> {"await", "ack", "serving", "leaving", "closing", "done"}]
  /\ reg \in [Conns -> Registrations \cup {NoReg}]
  /\ up \in [Conns -> BOOLEAN]
  /\ sess \in [Conns -> SessErr \cup {"open"}]
  /\ lastReg \in [Targets -> Conns \cup {NoConn}]
  /\ cpc \in [Clients -> {"idle", "open", "record", "relay", "drain", "end",
                          "done"}]
  /\ tgt \in [Clients -> Targets]
  /\ ac \in [Clients -> Conns \cup {NoConn}]
  /\ client \in [Clients -> {"open", "gone", "closed"}]
  /\ stream \in [Clients -> {"none", "open", "closed"}]
  /\ agentEnd \in [Clients -> BOOLEAN]
  /\ copyUp \in [Clients -> CopyResult \cup {"off", "run"}]
  /\ copyDown \in [Clients -> CopyResult \cup {"off", "run"}]
  /\ first \in [Clients -> CopyResult \cup {"none"}]
  /\ sid \in [Clients -> BOOLEAN]
  /\ store \in [Clients -> {"none", "started", "executed", "cancelled"}]

Init ==
  /\ agents = [a \in AgentIds |-> NoConn]
  /\ targets = [t \in Targets |-> NoConn]
  /\ pc = [c \in Conns |-> "await"]
  /\ reg = [c \in Conns |-> NoReg]
  /\ up = [c \in Conns |-> TRUE]
  /\ sess = [c \in Conns |-> "open"]
  /\ lastReg = [t \in Targets |-> NoConn]
  /\ cpc = [k \in Clients |-> "idle"]
  /\ tgt \in [Clients -> Targets]
  /\ ac = [k \in Clients |-> NoConn]
  /\ client = [k \in Clients |-> "open"]
  /\ stream = [k \in Clients |-> "none"]
  /\ agentEnd = [k \in Clients |-> FALSE]
  /\ copyUp = [k \in Clients |-> "off"]
  /\ copyDown = [k \in Clients |-> "off"]
  /\ first = [k \in Clients |-> "none"]
  /\ sid = [k \in Clients |-> FALSE]
  /\ store = [k \in Clients |-> "none"]

-----------------------------------------------------------------------------
(* The agent's end and the session *)

\* The agent process or its connection goes away.
AgentGone(c) ==
  /\ up[c]
  /\ up' = [up EXCEPT ![c] = FALSE]
  /\ UNCHANGED <<connVars, sess, relayVars>>

\* readLoop meets the end of the connection.
SessionFails(c) ==
  /\ ~up[c] /\ sess[c] = "open"
  /\ \E x \in {"EOF", "reset"} : sess' = [sess EXCEPT ![c] = x]
  /\ UNCHANGED <<connVars, up, relayVars>>

\* A frame may fail to be written once the agent's end is gone.
WriteFails(c) == ~up[c] \/ sess[c] # "open"

-----------------------------------------------------------------------------
(* ServeAgent *)

\* register: the connection replaces whoever served its id and targets.
Register(c, r) ==
  /\ pc[c] = "await" /\ r.ok
  /\ reg' = [reg EXCEPT ![c] = r]
  /\ agents' = [agents EXCEPT ![r.id] = c]
  /\ targets' = [t \in Targets |-> IF t \in r.targets THEN c ELSE targets[t]]
  /\ lastReg' = [t \in Targets |-> IF t \in r.targets THEN c ELSE lastReg[t]]
  /\ pc' = [pc EXCEPT ![c] = "ack"]
  /\ UNCHANGED <<tunnelVars, relayVars>>

\* The REGISTER message is refused, or the session fails before it arrives.
Refuse(c) ==
  /\ pc[c] = "await"
  /\ sess[c] # "open" \/ \E r \in Registrations : ~r.ok
  /\ pc' = [pc EXCEPT ![c] = "closing"]
  /\ UNCHANGED <<agents, targets, reg, lastReg, tunnelVars, relayVars>>

SendAck(c) ==
  /\ pc[c] = "ack"
  /\ \/ sess[c] = "open" /\ pc' = [pc EXCEPT ![c] = "serving"]
     \/ WriteFails(c) /\ pc' = [pc EXCEPT ![c] = "leaving"]
  /\ UNCHANGED <<agents, targets, reg, lastReg, tunnelVars, relayVars>>

\* Heartbeats change nothing; NextControl fails once the session has.
ServeEnds(c) ==
  /\ pc[c] = "serving" /\ sess[c] # "open"
  /\ pc' = [pc EXCEPT ![c] = "leaving"]
  /\ UNCHANGED <<agents, targets, reg, lastReg, tunnelVars, relayVars>>

UnguardedDeregister(c) ==
  /\ pc[c] = "leaving"
  /\ agents' = [agents EXCEPT ![reg[c].id] = NoConn]
  /\ targets' = [t \in Targets |->
                   IF t \in reg[c].targets THEN NoConn ELSE targets[t]]
  /\ pc' = [pc EXCEPT ![c] = "closing"]
  /\ UNCHANGED <<reg, lastReg, tunnelVars, relayVars>>

NoDeregister(c) ==
  /\ pc[c] = "leaving"
  /\ pc' = [pc EXCEPT ![c] = "closing"]
  /\ UNCHANGED <<agents, targets, reg, lastReg, tunnelVars, relayVars>>

\* deregister: only what still points to this connection is removed.
Deregister(c) ==
  /\ pc[c] = "leaving"
  /\ agents' = [a \in AgentIds |->
                  IF a = reg[c].id /\ agents[a] = c THEN NoConn ELSE agents[a]]
  /\ targets' = [t \in Targets |-> IF t \in reg[c].targets /\ targets[t] = c
                                   THEN NoConn ELSE targets[t]]
  /\ pc' = [pc EXCEPT ![c] = "closing"]
  /\ UNCHANGED <<reg, lastReg, tunnelVars, relayVars>>

\* The deferred sess.Close, which runs after deregister.
CloseSession(c) ==
  /\ pc[c] = "closing"
  /\ sess' = [sess EXCEPT ![c] = IF @ = "open" THEN "closed" ELSE @]
  /\ pc' = [pc EXCEPT ![c] = "done"]
  /\ UNCHANGED <<agents, targets, reg, lastReg, up, relayVars>>

ServeAgent(c) ==
  \/ \E r \in Registrations : Register(c, r)
  \/ Refuse(c) \/ SendAck(c) \/ ServeEnds(c) \/ Deregister(c) \/ CloseSession(c)

-----------------------------------------------------------------------------
(* ServeClient *)

CGo(k, l) == cpc' = [cpc EXCEPT ![k] = l]

\* The deferred client.Close of an early return.
GiveUp(k) ==
  /\ CGo(k, "done")
  /\ client' = [client EXCEPT ![k] = "closed"]
  /\ UNCHANGED <<ac, stream>>

\* The lookup under mu; nothing is held between it and the open.
Lookup(k) ==
  /\ cpc[k] = "idle"
  /\ \/ targets[tgt[k]] = NoConn /\ GiveUp(k)
     \/ /\ targets[tgt[k]] # NoConn
        /\ ac' = [ac EXCEPT ![k] = targets[tgt[k]]]
        /\ CGo(k, "open")
        /\ UNCHANGED <<client, stream>>
  /\ UNCHANGED <<connVars, tunnelVars, tgt, agentEnd, copyUp, copyDown, first,
                 sid, store>>

OpenStream(k) ==
  /\ cpc[k] = "open"
  /\ \/ /\ sess[ac[k]] = "open"
        /\ stream' = [stream EXCEPT ![k] = "open"]
        /\ CGo(k, "record")
        /\ UNCHANGED <<ac, client>>
     \/ WriteFails(ac[k]) /\ GiveUp(k)
  /\ UNCHANGED <<connVars, tunnelVars, tgt, agentEnd, copyUp, copyDown, first,
                 sid, store>>

\* storeStarted returns: with an id or without one, or with an error before
\* or after the control plane has made its record.  Only then does the relay
\* start.
StoreStarted(k) ==
  /\ cpc[k] = "record"
  /\ \E made, named \in BOOLEAN :
       /\ named => made
       /\ store' = [store EXCEPT ![k] = IF made THEN "started" ELSE @]
       /\ sid' = [sid EXCEPT ![k] = named]
  /\ CGo(k, "relay")
  /\ copyUp' = [copyUp EXCEPT ![k] = "run"]
  /\ copyDown' = [copyDown EXCEPT ![k] = "run"]
  /\ UNCHANGED <<connVars, tunnelVars, tgt, ac, client, stream, agentEnd, first>>

-----------------------------------------------------------------------------
(* relayCounted *)

\* The client ends its connection, or loses it.
HangUp(k) ==
  /\ client[k] = "open"
  /\ client' = [client EXCEPT ![k] = "gone"]
  /\ UNCHANGED <<connVars, tunnelVars, cpc, tgt, ac, stream, agentEnd, copyUp,
                 copyDown, first, sid, store>>

\* The agent's serveStream returns and closes its end of the stream.
AgentEnds(k) ==
  /\ stream[k] = "open" /\ ~agentEnd[k] /\ up[ac[k]]
  /\ agentEnd' = [agentEnd EXCEPT ![k] = TRUE]
  /\ UNCHANGED <<connVars, tunnelVars, cpc, tgt, ac, client, stream, copyUp,
                 copyDown, first, sid, store>>

\* Reading the client ends with EOF or an error; writing the stream fails on
\* a closed or failed stream, or in the session.
UpResult(k, r) ==
  \/ client[k] = "gone" /\ r \in {"nil", "err"}
  \/ client[k] = "closed" /\ r = "ErrClosed"
  \/ (stream[k] = "closed" \/ sess[ac[k]] # "open") /\ r = "ErrClosed"
  \/ WriteFails(ac[k]) /\ r = "err"

\* Reading the stream ends with the agent's CLOSE, with the session's error
\* (io.EOF is no error to io.Copy) or locally; writing the client may fail.
DownResult(k, r) ==
  \/ (agentEnd[k] \/ sess[ac[k]] = "EOF") /\ r = "nil"
  \/ sess[ac[k]] \in {"reset", "closed"} /\ r = "err"
  \/ stream[k] = "closed" /\ r = "ErrClosed"
  \/ client[k] = "gone" /\ r = "err"
  \/ client[k] = "closed" /\ r = "ErrClosed"

\* A result goes into errc, which keeps the order.
Report(k, r) == first' = [first EXCEPT ![k] = IF @ = "none" THEN r ELSE @]

CopyUpEnds(k) ==
  /\ copyUp[k] = "run"
  /\ \E r \in CopyResult : /\ UpResult(k, r)
                           /\ copyUp' = [copyUp EXCEPT ![k] = r]
                           /\ Report(k, r)
  /\ UNCHANGED <<connVars, tunnelVars, cpc, tgt, ac, client, stream, agentEnd,
                 copyDown, sid, store>>

CopyDownEnds(k) ==
  /\ copyDown[k] = "run"
  /\ \E r \in CopyResult : /\ DownResult(k, r)
                           /\ copyDown' = [copyDown EXCEPT ![k] = r]
                           /\ Report(k, r)
  /\ UNCHANGED <<connVars, tunnelVars, cpc, tgt, ac, client, stream, agentEnd,
                 copyUp, sid, store>>

LeaveOpenCloseBoth(k) ==
  /\ cpc[k] = "relay" /\ first[k] # "none"
  /\ stream' = [stream EXCEPT ![k] = "closed"]
  /\ CGo(k, "drain")
  /\ UNCHANGED <<connVars, tunnelVars, tgt, ac, client, agentEnd, copyUp,
                 copyDown, first, sid, store>>

\* After the first result both connections are closed ...
CloseBoth(k) ==
  /\ cpc[k] = "relay" /\ first[k] # "none"
  /\ client' = [client EXCEPT ![k] = "closed"]
  /\ stream' = [stream EXCEPT ![k] = "closed"]
  /\ CGo(k, "drain")
  /\ UNCHANGED <<connVars, tunnelVars, tgt, ac, agentEnd, copyUp, copyDown,
                 first, sid, store>>

HastyDrain(k) ==
  /\ cpc[k] = "drain"
  /\ CGo(k, "end")
  /\ UNCHANGED <<connVars, tunnelVars, tgt, ac, client, stream, agentEnd,
                 copyUp, copyDown, first, sid, store>>

\* ... and the second result is waited for.
Drain(k) ==
  /\ cpc[k] = "drain"
  /\ "run" \notin {copyUp[k], copyDown[k]}
  /\ CGo(k, "end")
  /\ UNCHANGED <<connVars, tunnelVars, tgt, ac, client, stream, agentEnd,
                 copyUp, copyDown, first, sid, store>>

Status(k) == IF first[k] = "err" THEN "cancelled" ELSE "executed"

\* storeEnded: no call without an id; the call may fail.
StoreEnded(k) ==
  /\ cpc[k] = "end"
  /\ \/ sid[k] /\ store' = [store EXCEPT ![k] = Status(k)]
     \/ UNCHANGED store
  /\ CGo(k, "done")
  /\ UNCHANGED <<connVars, tunnelVars, tgt, ac, client, stream, agentEnd,
                 copyUp, copyDown, first, sid>>

ServeClient(k) ==
  \/ Lookup(k) \/ OpenStream(k) \/ StoreStarted(k)
  \/ CloseBoth(k) \/ Drain(k) \/ StoreEnded(k)

-----------------------------------------------------------------------------
Next ==
  \/ \E c \in Conns : AgentGone(c) \/ SessionFails(c) \/ ServeAgent(c)
  \/ \E k \in Clients : \/ ServeClient(k)
                        \/ HangUp(k) \/ AgentEnds(k)
                        \/ CopyUpEnds(k) \/ CopyDownEnds(k)

Spec == Init /\ [][Next]_vars

\* Goroutines run; a dead connection is noticed (TCP keep-alive); store calls
\* return (they have a timeout).  A copy ends once the connection it reads has
\* ended, which takes a client that reads what the down copy still writes.
Fairness ==
  /\ \A c \in Conns :
       WF_vars(SessionFails(c)) /\ WF_vars(ServeAgent(c))
  /\ \A k \in Clients :
       /\ WF_vars(ServeClient(k))
       /\ WF_vars(client[k] # "open" /\ CopyUpEnds(k))
       /\ WF_vars(/\ \/ agentEnd[k] \/ stream[k] = "closed"
                     \/ ac[k] # NoConn /\ sess[ac[k]] # "open"
                  /\ CopyDownEnds(k))

FairSpec == Spec /\ Fairness

-----------------------------------------------------------------------------
(* Properties *)

\* Registered: between ServeAgent's register and its deregister.
Registered(c) == pc[c] \in {"ack", "serving", "leaving"}

\* The registry names only connections that are registered, under the id and
\* for the targets they registered: a ServeAgent that returned is in no map,
\* in whatever order connections of the same agent come and go.
RegistryServes ==
  /\ \A t \in Targets : targets[t] # NoConn =>
       Registered(targets[t]) /\ t \in reg[targets[t]].targets
  /\ \A a \in AgentIds : agents[a] # NoConn =>
       Registered(agents[a]) /\ a = reg[agents[a]].id

\* "last registrant wins" (the comment on Gateway.targets): the last connection
\* to register a target serves it until that connection itself deregisters,
\* whatever older connections for the target do meanwhile.
LastRegistrantWins ==
  \A t \in Targets :
    lastReg[t] # NoConn /\ Registered(lastReg[t]) => targets[t] = lastReg[t]

\* A client is relayed only over a connection that registered its target, so
\* ServeClient's unchecked ac.target(target) finds its binding, even when the
\* connection left the registry between the lookup and the open.
RelayHasBinding ==
  \A k \in Clients : cpc[k] \in {"open", "record", "relay", "drain", "end"} =>
    ac[k] # NoConn /\ tgt[k] \in reg[ac[k]].targets

\* A session is reported closed only when both copies have stopped: the byte
\* counts it reports are final.
FinalCounts ==
  \A k \in Clients : store[k] \in {"executed", "cancelled"} =>
    {copyUp[k], copyDown[k]} \subseteq CopyResult

\* A relay returns when its client hangs up or its agent connection is gone.
RelayReturns ==
  \A k \in Clients :
    (cpc[k] = "relay" /\ (client[k] = "gone" \/ ~up[ac[k]])) ~> cpc[k] = "done"

-----------------------------------------------------------------------------
(* The inductive invariant behind the safety properties *)

\* Whatever the maps or a client name has registered, once and for all.
RegInv ==
  /\ \A c \in Conns : Registered(c) => reg[c] \in Registrations
  /\ \A t \in Targets : lastReg[t] # NoConn => pc[lastReg[t]] # "await"
  /\ \A k \in Clients : ac[k] # NoConn => /\ pc[ac[k]] # "await"
                                          /\ tgt[k] \in reg[ac[k]].targets

\* How far a relay and its recording have come.
RelayInv ==
  \A k \in Clients :
    /\ cpc[k] \in {"idle", "open", "record"} =>
         copyUp[k] = "off" /\ copyDown[k] = "off"
    /\ cpc[k] \in {"relay", "drain"} => copyUp[k] # "off" /\ copyDown[k] # "off"
    /\ cpc[k] = "end" => {copyUp[k], copyDown[k]} \subseteq CopyResult
    /\ cpc[k] # "done" => store[k] \in {"none", "started"}
    /\ cpc[k] \in {"open", "record", "relay", "drain", "end"} => ac[k] # NoConn

IInv ==
  /\ TypeOK /\ RegInv /\ RelayInv
  /\ RegistryServes /\ LastRegistrantWins /\ FinalCounts
=============================================================================
