--------------------------- MODULE GatewayProofs ---------------------------
(* Proofs about Gateway, for any number of agents, targets and clients. *)
EXTENDS Gateway, TLAPS

(* A gateway that has just started satisfies the invariant. *)
LEMMA InvInit == Init => IInv
<1> SUFFICES ASSUME Init PROVE IInv
  OBVIOUS
<1> USE GatewayAssumption
<1>1. TypeOK
  BY DEF Init, TypeOK, CopyResult
<1>2. RegInv /\ RelayInv
  BY DEF Init, RegInv, RelayInv, Registered
<1>3. RegistryServes /\ LastRegistrantWins /\ FinalCounts
  BY DEF Init, RegistryServes, LastRegistrantWins, FinalCounts
<1> QED
  BY <1>1, <1>2, <1>3 DEF IInv

-----------------------------------------------------------------------------
(* The parts of the invariant about the registry and about the relays.      *)

RegistryInv == RegInv /\ RegistryServes /\ LastRegistrantWins
RelaysInv == RelayInv /\ FinalCounts

(* Steps that change no connection's registration keep the registry's part. *)
LEMMA RegistryStays ==
  ASSUME IInv, UNCHANGED <<agents, targets, reg, lastReg, tgt, ac>>,
         \A c \in Conns : pc'[c] # pc[c] =>
           /\ pc[c] \in {"ack", "serving"} => pc'[c] \in {"serving", "leaving"}
           /\ pc[c] \in {"await", "closing", "done"} =>
                pc'[c] \in {"closing", "done"}
           /\ pc[c] # "leaving"
  PROVE  RegistryInv'
<1>1. \A c \in Conns : /\ Registered(c)' <=> Registered(c)
                       /\ pc[c] # "await" => pc'[c] # "await"
  BY DEF Registered, IInv, TypeOK
<1>2. RegInv'
  BY <1>1 DEF IInv, RegInv, TypeOK
<1>3. RegistryServes'
  BY <1>1 DEF IInv, RegistryServes, TypeOK
<1>4. LastRegistrantWins'
  BY <1>1 DEF IInv, LastRegistrantWins, TypeOK
<1> QED
  BY <1>2, <1>3, <1>4 DEF RegistryInv

(* register makes the connection the one its id and targets lead to. *)
LEMMA RegisterInv ==
  ASSUME IInv, NEW c \in Conns, NEW r \in Registrations, Register(c, r)
  PROVE  RegistryInv'
<1> USE GatewayAssumption
<1>1. /\ r.id \in AgentIds /\ r.targets \subseteq Targets
      /\ c # NoConn /\ pc[c] = "await" /\ pc'[c] = "ack" /\ reg'[c] = r
      /\ \A d \in Conns : d # c => pc'[d] = pc[d] /\ reg'[d] = reg[d]
      /\ UNCHANGED <<tgt, ac>>
  BY DEF Register, IInv, TypeOK, relayVars
<1>2. /\ \A t \in Targets :
           /\ targets'[t] = IF t \in r.targets THEN c ELSE targets[t]
           /\ lastReg'[t] = IF t \in r.targets THEN c ELSE lastReg[t]
      /\ \A a \in AgentIds : agents'[a] = IF a = r.id THEN c ELSE agents[a]
  BY <1>1 DEF Register, IInv, TypeOK
<1>3. /\ \A d \in Conns : d # c => (Registered(d)' <=> Registered(d))
      /\ ~Registered(c) /\ Registered(c)'
  BY <1>1 DEF Registered
<1>4. RegInv'
  BY <1>1, <1>2, <1>3 DEF IInv, RegInv, TypeOK
<1>5. RegistryServes'
  <2>1. \A t \in Targets : targets[t] # c
    BY <1>1, <1>3 DEF IInv, RegistryServes
  <2>2. \A a \in AgentIds : agents[a] # c
    BY <1>1, <1>3 DEF IInv, RegistryServes
  <2>3. /\ \A t \in Targets : targets[t] \in Conns \cup {NoConn}
        /\ \A a \in AgentIds : agents[a] \in Conns \cup {NoConn}
    BY DEF IInv, TypeOK
  <2> QED
    BY <1>1, <1>2, <1>3, <2>1, <2>2, <2>3 DEF IInv, RegistryServes
<1>6. LastRegistrantWins'
  <2>1. \A t \in Targets : lastReg[t] # c
    BY <1>1 DEF IInv, RegInv
  <2>2. \A t \in Targets : lastReg[t] \in Conns \cup {NoConn}
    BY DEF IInv, TypeOK
  <2> QED
    BY <1>1, <1>2, <1>3, <2>1, <2>2 DEF IInv, LastRegistrantWins
<1> QED
  BY <1>4, <1>5, <1>6 DEF RegistryInv

(* deregister removes the connection and nothing else. *)
LEMMA DeregisterInv ==
  ASSUME IInv, NEW c \in Conns, Deregister(c)
  PROVE  RegistryInv'
<1> USE GatewayAssumption
<1>1. /\ c # NoConn /\ pc[c] = "leaving" /\ pc'[c] = "closing"
      /\ \A d \in Conns : d # c => pc'[d] = pc[d]
      /\ UNCHANGED <<reg, lastReg, tgt, ac>>
  BY DEF Deregister, IInv, TypeOK, relayVars
<1>2. /\ \A t \in Targets : targets'[t] =
           IF t \in reg[c].targets /\ targets[t] = c THEN NoConn ELSE targets[t]
      /\ \A a \in AgentIds : agents'[a] =
           IF a = reg[c].id /\ agents[a] = c THEN NoConn ELSE agents[a]
  BY DEF Deregister
<1>3. /\ \A d \in Conns : d # c => (Registered(d)' <=> Registered(d))
      /\ ~Registered(c)'
  BY <1>1 DEF Registered
<1>4. /\ \A t \in Targets : targets[t] \in Conns \cup {NoConn}
      /\ \A t \in Targets : lastReg[t] \in Conns \cup {NoConn}
      /\ \A a \in AgentIds : agents[a] \in Conns \cup {NoConn}
  BY DEF IInv, TypeOK
<1>5. RegInv'
  BY <1>1, <1>3, <1>4 DEF IInv, RegInv, TypeOK
<1>6. RegistryServes'
  BY <1>1, <1>2, <1>3, <1>4 DEF IInv, RegistryServes
<1>7. LastRegistrantWins'
  BY <1>1, <1>2, <1>3, <1>4 DEF IInv, LastRegistrantWins
<1> QED
  BY <1>5, <1>6, <1>7 DEF RegistryInv

(* Every step keeps the registry's part. *)
LEMMA RegistryStep == IInv /\ [Next]_vars => RegistryInv'
<1> SUFFICES ASSUME IInv, [Next]_vars PROVE RegistryInv'
  OBVIOUS
<1> USE GatewayAssumption
<1>1. CASE UNCHANGED <<connVars, tgt, ac>>
  BY <1>1, RegistryStays DEF connVars
<1>2. ASSUME NEW c \in Conns, ServeAgent(c) PROVE RegistryInv'
  <2>1. CASE Refuse(c)
    BY <2>1, RegistryStays DEF Refuse, IInv, TypeOK, relayVars
  <2>2. CASE SendAck(c)
    BY <2>2, RegistryStays DEF SendAck, IInv, TypeOK, relayVars
  <2>3. CASE ServeEnds(c)
    BY <2>3, RegistryStays DEF ServeEnds, IInv, TypeOK, relayVars
  <2>4. CASE CloseSession(c)
    BY <2>4, RegistryStays DEF CloseSession, IInv, TypeOK, relayVars
  <2> QED
    BY <1>2, <2>1, <2>2, <2>3, <2>4, RegisterInv, DeregisterInv DEF ServeAgent
<1>3. ASSUME NEW c \in Conns, AgentGone(c) \/ SessionFails(c) PROVE RegistryInv'
  BY <1>1, <1>3 DEF AgentGone, SessionFails, relayVars
<1>4. ASSUME NEW k \in Clients, Lookup(k) PROVE RegistryInv'
  <2>1. CASE UNCHANGED ac
    BY <1>1, <1>4, <2>1 DEF Lookup
  <2>2. CASE /\ targets[tgt[k]] # NoConn
             /\ ac' = [ac EXCEPT ![k] = targets[tgt[k]]]
    <3>1. /\ targets[tgt[k]] \in Conns /\ Registered(targets[tgt[k]])
          /\ tgt[k] \in reg[targets[tgt[k]]].targets
      BY <2>2 DEF IInv, TypeOK, RegistryServes
    <3>2. UNCHANGED <<connVars, tgt>>
      BY <1>4 DEF Lookup
    <3>3. RegInv'
      BY <2>2, <3>1, <3>2 DEF IInv, RegInv, TypeOK, Registered, connVars
    <3>4. RegistryServes' /\ LastRegistrantWins'
      BY <3>2 DEF IInv, RegistryServes, LastRegistrantWins, Registered, connVars
    <3> QED
      BY <3>3, <3>4 DEF RegistryInv
  <2> QED
    BY <1>4, <2>1, <2>2 DEF Lookup, GiveUp
<1>5. ASSUME NEW k \in Clients, ServeClient(k) PROVE RegistryInv'
  BY <1>1, <1>4, <1>5 DEF ServeClient, OpenStream, GiveUp, StoreStarted,
     CloseBoth, Drain, StoreEnded
<1>6. ASSUME NEW k \in Clients,
             HangUp(k) \/ AgentEnds(k) \/ CopyUpEnds(k) \/ CopyDownEnds(k)
      PROVE  RegistryInv'
  BY <1>1, <1>6 DEF HangUp, AgentEnds, CopyUpEnds, CopyDownEnds
<1> QED
  BY <1>1, <1>2, <1>3, <1>5, <1>6 DEF Next, vars, relayVars

-----------------------------------------------------------------------------
(* Types *)

(* ServeAgent and the events of agent connections keep the types. *)
LEMMA AgentTypes ==
  ASSUME TypeOK, NEW c \in Conns, AgentGone(c) \/ SessionFails(c) \/ ServeAgent(c)
  PROVE  TypeOK'
<1> USE GatewayAssumption
<1>1. CASE AgentGone(c)
  BY <1>1 DEF AgentGone, TypeOK, connVars, relayVars
<1>2. CASE SessionFails(c)
  BY <1>2 DEF SessionFails, TypeOK, connVars, relayVars, SessErr
<1>3. ASSUME NEW r \in Registrations, Register(c, r) PROVE TypeOK'
  BY <1>3 DEF Register, TypeOK, tunnelVars, relayVars
<1>4. CASE Refuse(c) \/ SendAck(c) \/ ServeEnds(c)
  BY <1>4 DEF Refuse, SendAck, ServeEnds, TypeOK, tunnelVars, relayVars
<1>5. CASE Deregister(c)
  BY <1>5 DEF Deregister, TypeOK, tunnelVars, relayVars
<1>6. CASE CloseSession(c)
  BY <1>6 DEF CloseSession, TypeOK, relayVars, SessErr
<1> QED
  BY <1>1, <1>2, <1>3, <1>4, <1>5, <1>6 DEF ServeAgent

(* ServeClient, its copies and the ends of its connections keep the types. *)
LEMMA ClientTypes ==
  ASSUME TypeOK, NEW k \in Clients,
         \/ ServeClient(k) \/ HangUp(k) \/ AgentEnds(k)
         \/ CopyUpEnds(k) \/ CopyDownEnds(k)
  PROVE  TypeOK'
<1>1. CASE Lookup(k)
  BY <1>1 DEF Lookup, GiveUp, CGo, TypeOK, connVars, tunnelVars
<1>2. CASE OpenStream(k)
  BY <1>2 DEF OpenStream, GiveUp, CGo, TypeOK, connVars, tunnelVars
<1>3. CASE StoreStarted(k)
  <2>1. store' \in [Clients -> {"none", "started", "executed", "cancelled"}]
        /\ sid' \in [Clients -> BOOLEAN]
    BY <1>3 DEF StoreStarted, TypeOK
  <2>2. /\ cpc' \in [Clients -> {"idle", "open", "record", "relay", "drain",
                                 "end", "done"}]
        /\ copyUp' \in [Clients -> CopyResult \cup {"off", "run"}]
        /\ copyDown' \in [Clients -> CopyResult \cup {"off", "run"}]
    BY <1>3 DEF StoreStarted, CGo, TypeOK
  <2> QED
    BY <1>3, <2>1, <2>2 DEF StoreStarted, TypeOK, connVars, tunnelVars
<1>4. CASE HangUp(k)
  BY <1>4 DEF HangUp, TypeOK, connVars, tunnelVars
<1>8. CASE AgentEnds(k)
  BY <1>8 DEF AgentEnds, TypeOK, connVars, tunnelVars
<1>9. CASE CloseBoth(k)
  BY <1>9 DEF CloseBoth, CGo, TypeOK, connVars, tunnelVars
<1>10. CASE Drain(k)
  BY <1>10 DEF Drain, CGo, TypeOK, connVars, tunnelVars
<1>5. CASE StoreEnded(k)
  BY <1>5 DEF StoreEnded, Status, CGo, TypeOK, connVars, tunnelVars
<1>6. CASE CopyUpEnds(k)
  BY <1>6 DEF CopyUpEnds, Report, TypeOK, connVars, tunnelVars
<1>7. CASE CopyDownEnds(k)
  BY <1>7 DEF CopyDownEnds, Report, TypeOK, connVars, tunnelVars
<1> QED
  BY <1>1, <1>2, <1>3, <1>4, <1>5, <1>6, <1>7, <1>8, <1>9, <1>10
     DEF ServeClient

(* Every step keeps the types. *)
LEMMA TypeStep == TypeOK /\ [Next]_vars => TypeOK'
<1>1. TypeOK /\ UNCHANGED vars => TypeOK'
  BY DEF TypeOK, vars, connVars, tunnelVars, relayVars
<1> QED
  BY <1>1, AgentTypes, ClientTypes DEF Next

-----------------------------------------------------------------------------
(* The relays *)

(* One client's part of the relays' invariant. *)
RelayOf(k) == RelayInv!(k) /\ FinalCounts!(k)

(* Every step keeps the relays' part: a step is one client's, or none's. *)
LEMMA RelayStep == IInv /\ [Next]_vars => RelaysInv'
<1> SUFFICES ASSUME IInv, [Next]_vars, NEW j \in Clients PROVE RelayOf(j)'
  BY DEF RelaysInv, RelayInv, FinalCounts, RelayOf
<1> USE GatewayAssumption
<1>0. RelayOf(j)
  BY DEF IInv, RelayInv, FinalCounts, RelayOf
<1>1. CASE UNCHANGED <<cpc, ac, copyUp, copyDown, store>>
  BY <1>0, <1>1 DEF RelayOf
<1>2. ASSUME NEW c \in Conns, AgentGone(c) \/ SessionFails(c) \/ ServeAgent(c)
      PROVE  RelayOf(j)'
  BY <1>1, <1>2 DEF AgentGone, SessionFails, ServeAgent, Register, Refuse,
     SendAck, ServeEnds, Deregister, CloseSession, relayVars
<1>3. ASSUME NEW k \in Clients,
             \/ ServeClient(k) \/ HangUp(k) \/ AgentEnds(k)
             \/ CopyUpEnds(k) \/ CopyDownEnds(k)
      PROVE  RelayOf(j)'
  <2>1. CASE Lookup(k)
    BY <1>0, <2>1 DEF Lookup, GiveUp, CGo, RelayOf, IInv, TypeOK
  <2>2. CASE OpenStream(k)
    BY <1>0, <2>2 DEF OpenStream, GiveUp, CGo, RelayOf, IInv, TypeOK
  <2>3. CASE StoreStarted(k)
    <3>1. store'[j] = store[j] \/ (j = k /\ store'[j] \in {store[j], "started"})
      BY <2>3 DEF StoreStarted, IInv, TypeOK
    <3>2. /\ UNCHANGED ac /\ cpc[k] = "record"
          /\ cpc'[j] = IF j = k THEN "relay" ELSE cpc[j]
          /\ copyUp'[j] = IF j = k THEN "run" ELSE copyUp[j]
          /\ copyDown'[j] = IF j = k THEN "run" ELSE copyDown[j]
      BY <2>3 DEF StoreStarted, CGo, IInv, TypeOK
    <3> QED
      BY <1>0, <3>1, <3>2 DEF RelayOf
  <2>4. CASE HangUp(k) \/ AgentEnds(k)
    BY <1>1, <2>4 DEF HangUp, AgentEnds
  <2>5. CASE CloseBoth(k)
    BY <1>0, <2>5 DEF CloseBoth, CGo, RelayOf, IInv, TypeOK
  <2>6. CASE Drain(k)
    BY <1>0, <2>6 DEF Drain, CGo, RelayOf, IInv, TypeOK
  <2>7. CASE StoreEnded(k)
    BY <1>0, <2>7 DEF StoreEnded, Status, CGo, RelayOf, IInv, TypeOK
  <2>8. CASE CopyUpEnds(k)
    BY <1>0, <2>8 DEF CopyUpEnds, CopyResult, RelayOf, IInv, TypeOK
  <2>9. CASE CopyDownEnds(k)
    BY <1>0, <2>9 DEF CopyDownEnds, CopyResult, RelayOf, IInv, TypeOK
  <2> QED
    BY <1>3, <2>1, <2>2, <2>3, <2>4, <2>5, <2>6, <2>7, <2>8, <2>9
       DEF ServeClient
<1> QED
  BY <1>1, <1>2, <1>3 DEF Next, vars, relayVars

-----------------------------------------------------------------------------
(* The results *)

(* The inductive invariant: types, registry and relays. *)
THEOREM InvCorrect == Spec => []IInv
<1>1. IInv /\ [Next]_vars => IInv'
  <2>1. IInv /\ [Next]_vars => TypeOK'
    BY TypeStep DEF IInv
  <2> QED
    BY <2>1, RegistryStep, RelayStep DEF IInv, RegistryInv, RelaysInv
<1> QED
  BY <1>1, InvInit, PTL DEF Spec

(* The registry names only connections that registered and have not left. *)
THEOREM RegistryIsLive == Spec => []RegistryServes
<1>1. IInv => RegistryServes
  BY DEF IInv
<1> QED
  BY <1>1, InvCorrect, PTL

(* The last connection to register a target serves it until it leaves: the  *)
(* guards of deregister protect a reconnected agent from its old connection. *)
THEOREM LastRegistrantServes == Spec => []LastRegistrantWins
<1>1. IInv => LastRegistrantWins
  BY DEF IInv
<1> QED
  BY <1>1, InvCorrect, PTL

(* ServeClient's unchecked lookup of the binding always finds one.          *)
THEOREM BindingFound == Spec => []RelayHasBinding
<1>1. IInv => RelayHasBinding
  BY DEF IInv, RegInv, RelayInv, RelayHasBinding
<1> QED
  BY <1>1, InvCorrect, PTL

(* A session is reported closed after both copies stopped.                  *)
THEOREM CountsAreFinal == Spec => []FinalCounts
<1>1. IInv => FinalCounts
  BY DEF IInv
<1> QED
  BY <1>1, InvCorrect, PTL
=============================================================================
