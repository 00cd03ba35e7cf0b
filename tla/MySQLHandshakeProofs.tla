------------------------ MODULE MySQLHandshakeProofs ------------------------
(***************************************************************************)
(* Proofs about the connection phase of the MySQL engine.  IInv describes  *)
(* the numbers: where each packet under way is, whose turn it is, and that *)
(* the two connections differ by the offset until the result of the        *)
(* authentication has been read.  Its conjuncts lean on each other, so     *)
(* each lemma assumes all of them and proves one.                          *)
(***************************************************************************)
EXTENDS MySQLHandshake, TLAPS

\* The bounds on an exchange are numbers.
LEMMA Bounds ==
  ASSUME HandshakeAssumption
  PROVE  /\ MaxSeq \in Nat /\ MaxSeq = 2 * MaxRounds + MaxReply + 5
         /\ MaxRounds \in Nat /\ MaxReply \in Nat /\ MaxReply >= 1
BY SMT DEF HandshakeAssumption, MaxSeq

\* What a packet made of a kind and a number holds.
LEMMA PktFields == \A t, n : Pkt(t, n).t = t /\ Pkt(t, n).seq = n
BY DEF Pkt

\* Such a packet is one, and not the absence of one.
LEMMA PktType ==
  \A t \in Kinds : \A n \in 0..MaxSeq : Pkt(t, n) \in Packet /\ Pkt(t, n) # None
BY Zenon DEF Pkt, Packet, None, Kinds

\* The absence of a packet has the kind "none".
LEMMA NoneFacts == None \in Packet /\ None.t = "none" /\ None.seq = 0
BY Zenon DEF Pkt, Packet, None

-----------------------------------------------------------------------------
(* The type invariant, in four parts *)

PacketsOK ==
  /\ c2s \in Packet /\ s2c \in Packet /\ toClient \in Packet
  /\ toServer \in Packet /\ fromClient \in Packet /\ fromServer \in Packet
NumbersOK ==
  /\ nextSeq \in 0..MaxSeq /\ cliNext \in 0..MaxSeq /\ srvNext \in 0..MaxSeq
  /\ rounds \in 0..MaxRounds /\ offset \in {0, 1}
FlagsOK ==
  /\ inject \in BOOLEAN /\ clientTLS \in BOOLEAN
  /\ mode \in Modes /\ srvSSL \in BOOLEAN /\ cliSSL \in BOOLEAN
  /\ p41 \in BOOLEAN /\ srvUp \in BOOLEAN
  /\ encrypted \in BOOLEAN /\ leaked \in BOOLEAN
PhasesOK ==
  /\ pc \in {"greet", "response", "tls", "resend", "relay", "pass", "failed"}
            \cup {"terminate", "secured", "lost", "token", "resolve", "login",
                  "auth", "welcome"}
  /\ cli \in {"greet", "tls", "auth", "idle", "busy", "refused"}
  /\ srv \in {"greet", "response", "tls", "auth", "wait", "idle", "busy", "refused"}

\* The type invariant is its four parts.
LEMMA TypeParts == TypeOK <=> PacketsOK /\ NumbersOK /\ FlagsOK /\ PhasesOK
BY Zenon DEF TypeOK, PacketsOK, NumbersOK, FlagsOK, PhasesOK

KnownPackets ==
  \A p \in {c2s, s2c, toClient, toServer, fromClient, fromServer} :
    /\ p \in Packet /\ (p = None <=> p.t = "none")
    /\ p # None => p.t \in Kinds
    /\ p.seq \in Nat /\ p.seq <= MaxSeq

\* Every place a packet can be in holds one of a known kind, or none.
LEMMA PacketKinds ==
  ASSUME HandshakeAssumption, PacketsOK
  PROVE  KnownPackets
<1>1. \A p \in Packet : /\ p = None <=> p.t = "none"
                        /\ p # None => p.t \in Kinds
                        /\ p.seq \in 0..MaxSeq
  BY Bounds, SMT DEF Packet, None, Kinds, Pkt
<1> QED
  BY <1>1, Bounds, SMT DEF PacketsOK, KnownPackets

\* The conjuncts of the invariant, each to be used by its name.
LEMMA Parts ==
  ASSUME HandshakeAssumption, IInv
  PROVE  /\ PacketsOK /\ NumbersOK /\ FlagsOK /\ PhasesOK /\ KnownPackets
         /\ ServerInv /\ ClientInv /\ SetupInv /\ RelayInv /\ FailedInv
         /\ LetInInv /\ TLSInv /\ OutcomeInv
<1>1. PacketsOK /\ NumbersOK /\ FlagsOK /\ PhasesOK
  BY TypeParts, Zenon DEF IInv
<1> QED
  BY <1>1, PacketKinds, Zenon DEF IInv

\* The sequence ids stay in range: an exchange is as long as its rounds and
\* its replies make it.
LEMMA NumbersStep ==
  ASSUME HandshakeAssumption, IInv, Next
  PROVE  NumbersOK'
<1>0. /\ PacketsOK /\ NumbersOK /\ FlagsOK /\ PhasesOK /\ KnownPackets
      /\ ServerInv /\ ClientInv /\ SetupInv /\ RelayInv /\ FailedInv
      /\ LetInInv /\ TLSInv /\ OutcomeInv
  BY Parts, Zenon
<1> USE <1>0, Bounds, NoneFacts DEF KnownPackets, NumbersOK
<1>1. CASE Proxy \/ ServerGreeting \/ ClientTLS \/ SwitchToClear \/ Resolve \/ Login
           \/ OwnResponse \/ CompleteUpstreamAuth \/ UpstreamGone \/ Welcome
           \/ C2SRead \/ C2SWrite \/ S2CWrite \/ ProxyEnds \/ ServerLeaves
  BY <1>1, Zenon DEF Proxy, Greet, Response, UpstreamTLS, Resend, ServerGreeting, ClientTLS,
    SwitchToClear, Resolve, Login, OwnResponse, CompleteUpstreamAuth, UpstreamGone,
    Welcome, C2SRead, C2SWrite, S2CWrite, ProxyEnds, ServerLeaves, relay, ends
<1>2. CASE ReadToken \/ S2CRead
  BY <1>2, Zenon DEF ReadToken, S2CRead, ends, relay, ClientInv
<1>3. CASE ClientAnswers
  BY <1>3, SMT DEF ClientAnswers, relay, ClientInv, Asks
<1>4. CASE ClientUnderTLS \/ ClientCommand
  BY <1>4, SMT DEF ClientUnderTLS, ClientCommand, Sends, relay, SetupInv, RelayInv, Relaying, ClientInv
<1>5. CASE ServerReads
  BY <1>5, SMT DEF ServerReads, relay, ServerInv, ServerListens
<1>6. CASE ServerGreets \/ ServerAuth \/ ServerReplies
  BY <1>6, SMT DEF ServerGreets, ServerAuth, ServerReplies, ServerSends, relay, ServerInv
<1> QED
  BY <1>1, <1>2, <1>3, <1>4, <1>5, <1>6, Zenon
  DEF Next, Skybridge, Proxy, ProxyInject, Goroutines, Client, Server

\* The configuration and the Boolean state keep their types.
LEMMA FlagsStep ==
  ASSUME HandshakeAssumption, IInv, Next
  PROVE  FlagsOK'
<1>0. /\ PacketsOK /\ NumbersOK /\ FlagsOK /\ PhasesOK /\ KnownPackets
      /\ ServerInv /\ ClientInv /\ SetupInv /\ RelayInv /\ FailedInv
      /\ LetInInv /\ TLSInv /\ OutcomeInv
  BY Parts, Zenon
<1> USE <1>0 DEF FlagsOK, config, ends
<1>1. CASE Proxy
  BY <1>1, ZenonT(30) DEF Proxy, Greet, Response, UpstreamTLS, Resend
<1>2. CASE ProxyInject
  BY <1>2, ZenonT(30) DEF ProxyInject, ServerGreeting, ClientTLS, SwitchToClear, ReadToken, Resolve, Login,
    OwnResponse, CompleteUpstreamAuth, UpstreamGone, Welcome
<1>3. CASE Goroutines
  BY <1>3, ZenonT(30) DEF Goroutines, C2SRead, C2SWrite, S2CRead, S2CWrite, ProxyEnds
<1>4. CASE Client
  BY <1>4, ZenonT(30) DEF Client, ClientAnswers, ClientUnderTLS, ClientCommand, Sends
<1>5. CASE Server \/ ServerLeaves
  BY <1>5, ZenonT(30) DEF Server, ServerReads, ServerGreets, ServerAuth, ServerReplies, ServerSends, ServerLeaves
<1> QED
  BY <1>1, <1>2, <1>3, <1>4, <1>5, ZenonT(30) DEF Next, Skybridge

\* The agent and the two ends stay in phases they know.
LEMMA PhasesStep ==
  ASSUME HandshakeAssumption, IInv, Next
  PROVE  PhasesOK'
<1>0. /\ PacketsOK /\ NumbersOK /\ FlagsOK /\ PhasesOK /\ KnownPackets
      /\ ServerInv /\ ClientInv /\ SetupInv /\ RelayInv /\ FailedInv
      /\ LetInInv /\ TLSInv /\ OutcomeInv
  BY Parts, Zenon
<1> USE <1>0 DEF PhasesOK, ends
<1>1. CASE Skybridge
  BY <1>1, Zenon DEF Skybridge, Proxy, Greet, Response, UpstreamTLS, Fail, Deny, Resend, ProxyInject,
    ServerGreeting, ClientTLS, SwitchToClear, ReadToken, Resolve, Login,
    OwnResponse, CompleteUpstreamAuth, UpstreamGone, Welcome,
    Goroutines, C2SRead, C2SWrite, S2CRead, S2CWrite, ProxyEnds
<1>2. CASE Client
  BY <1>2, Zenon DEF Client, ClientAnswers, ClientUnderTLS, ClientCommand, Sends
<1>3. CASE Server \/ ServerLeaves
  BY <1>3, Zenon DEF Server, ServerReads, ServerGreets, ServerAuth, ServerReplies, ServerSends, ServerLeaves
<1> QED
  BY <1>1, <1>2, <1>3, Zenon DEF Next

\* What is in flight stays a packet, also where the relay shifts its number.
LEMMA PacketsStep ==
  ASSUME HandshakeAssumption, IInv, Next
  PROVE  PacketsOK'
<1>0. /\ PacketsOK /\ NumbersOK /\ FlagsOK /\ PhasesOK /\ KnownPackets
      /\ ServerInv /\ ClientInv /\ SetupInv /\ RelayInv /\ FailedInv
      /\ LetInInv /\ TLSInv /\ OutcomeInv
  BY Parts, Zenon
<1>n. NumbersOK'
  BY NumbersStep, Zenon
<1>k. \A t \in Kinds : \A n \in Nat : n <= MaxSeq => Pkt(t, n) \in Packet
  BY PktType, Bounds, SMT
<1> USE <1>0, <1>n, <1>k, NoneFacts, Bounds DEF KnownPackets, PacketsOK, Kinds
<1>1. CASE Proxy
  BY <1>1, SMT DEF Proxy, Greet, Response, UpstreamTLS, Fail, Deny, Resend, relay, NumbersOK
<1>2. CASE ServerGreeting \/ ClientTLS \/ SwitchToClear \/ ReadToken \/ Resolve
  BY <1>2, SMT DEF ServerGreeting, ClientTLS, SwitchToClear, ReadToken, Resolve, Deny, relay,
     NumbersOK, ClientInv
<1>3. CASE Login \/ OwnResponse \/ UpstreamGone \/ Welcome
  BY <1>3, SMT DEF Login, OwnResponse, UpstreamGone, Welcome, Deny, relay, NumbersOK
<1>4. CASE CompleteUpstreamAuth
  BY <1>4, SMT DEF CompleteUpstreamAuth, Deny, relay, NumbersOK, ServerInv, Asks
<1>5. CASE C2SRead \/ S2CWrite \/ ProxyEnds
  BY <1>5, Zenon DEF C2SRead, S2CWrite, ProxyEnds, relay, wires
<1>6. CASE C2SWrite
  <2>1. c2s.seq + offset \in Nat /\ c2s.seq + offset <= MaxSeq
    BY <1>6, SMT DEF C2SWrite, RelayInv, FailedInv, SetupInv, NumbersOK, Relaying, Upward
  <2> QED
    BY <1>6, <2>1, Zenon DEF C2SWrite
<1>7. CASE S2CRead
  <2>1. fromServer.seq - offset \in Nat /\ fromServer.seq - offset <= MaxSeq
    BY <1>7, SMT DEF S2CRead, RelayInv, NumbersOK, One
  <2> QED
    BY <1>7, <2>1, Zenon DEF S2CRead
<1>8. CASE Client
  BY <1>8, SMT DEF Client, ClientAnswers, ClientUnderTLS, ClientCommand, Sends, Answer, relay, NumbersOK
<1>9. CASE Server \/ ServerLeaves
  BY <1>9, SMT DEF Server, ServerReads, ServerGreets, ServerAuth, ServerReplies, ServerSends,
    ServerLeaves, relay, wires, NumbersOK
<1> QED
  BY <1>1, <1>2, <1>3, <1>4, <1>5, <1>6, <1>7, <1>8, <1>9, Zenon
  DEF Next, Skybridge, ProxyInject, Goroutines

-----------------------------------------------------------------------------
(* The two ends *)

\* The server numbers by its phase, and what reaches it has the number it
\* expects: the agent's own packets and the ones shifted by the offset.
LEMMA ServerStep ==
  ASSUME HandshakeAssumption, IInv, Next
  PROVE  ServerInv'
<1>0. /\ PacketsOK /\ NumbersOK /\ FlagsOK /\ PhasesOK /\ KnownPackets
      /\ ServerInv /\ ClientInv /\ SetupInv /\ RelayInv /\ FailedInv
      /\ LetInInv /\ TLSInv /\ OutcomeInv
  BY Parts, Zenon
<1> USE <1>0, NoneFacts, PktFields, Bounds DEF KnownPackets, ServerInv, ServerListens, Asks, Streams, NumbersOK
<1>1. CASE Greet \/ UpstreamTLS \/ Resend
  BY <1>1, SMT DEF Greet, UpstreamTLS, Resend, ends, SetupInv
<1>2. CASE Response
  BY <1>2, SMT DEF Response, ends, SetupInv, FirstPacket
<1>3. CASE ServerGreeting \/ ClientTLS \/ SwitchToClear \/ ReadToken \/ Resolve \/ UpstreamGone \/ Welcome
  BY <1>3, SMT DEF ServerGreeting, ClientTLS, SwitchToClear, ReadToken, Resolve, UpstreamGone, Welcome, ends
<1>4. CASE Login \/ OwnResponse
  BY <1>4, SMT DEF Login, OwnResponse, ends, SetupInv, ServerUntouched
<1>5. CASE CompleteUpstreamAuth
  BY <1>5, SMT DEF CompleteUpstreamAuth, ends
<1>6. CASE C2SRead \/ S2CRead \/ S2CWrite \/ ProxyEnds
  BY <1>6, Zenon DEF C2SRead, S2CRead, S2CWrite, ProxyEnds, ends, wires
<1>7. CASE C2SWrite
  <2>1. ServerListens /\ fromServer = None /\ c2s.seq + offset = srvNext
    BY <1>7, SMT DEF C2SWrite, SetupInv, RelayInv, FailedInv, Relaying, Upward
  <2> QED
    BY <1>7, <2>1, SMT DEF C2SWrite, ends
<1>8. CASE Client \/ ServerLeaves
  BY <1>8, SMT DEF Client, ClientAnswers, ClientUnderTLS, ClientCommand, Sends, ServerLeaves, wires
<1>9. CASE Server
  BY <1>9, SMT DEF Server, ServerReads, ServerGreets, ServerAuth, ServerReplies, ServerSends
<1> QED
  BY <1>1, <1>2, <1>3, <1>4, <1>5, <1>6, <1>7, <1>8, <1>9, Zenon
  DEF Next, Skybridge, Proxy, ProxyInject, Goroutines

\* The client numbers without gaps, and what reaches it has the number it
\* expects.
LEMMA ClientStep ==
  ASSUME HandshakeAssumption, IInv, Next
  PROVE  ClientInv'
<1>0. /\ PacketsOK /\ NumbersOK /\ FlagsOK /\ PhasesOK /\ KnownPackets
      /\ ServerInv /\ ClientInv /\ SetupInv /\ RelayInv /\ FailedInv
      /\ LetInInv /\ TLSInv /\ OutcomeInv
  BY Parts, Zenon
<1> USE <1>0, NoneFacts, PktFields, Bounds DEF KnownPackets, ClientInv, Asks, NumbersOK
<1>1. CASE Greet
  BY <1>1, SMT DEF Greet, ends, relay, SetupInv, ServerUntouched, ServerInv
<1>2. CASE Response \/ UpstreamTLS \/ Resend
  BY <1>2, SMT DEF Response, UpstreamTLS, Fail, Deny, Resend, ends, relay, SetupInv, ClientWaits
<1>3. CASE ServerGreeting \/ ClientTLS \/ SwitchToClear \/ ReadToken
  BY <1>3, SMT DEF ServerGreeting, ClientTLS, SwitchToClear, ReadToken, ends, relay,
    SetupInv, FirstPacket
<1>4. CASE Resolve \/ Login \/ OwnResponse \/ CompleteUpstreamAuth \/ UpstreamGone \/ Welcome
  BY <1>4, SMTT(30) DEF Resolve, Login, OwnResponse, CompleteUpstreamAuth, UpstreamGone, Welcome, Deny,
    ends, relay, SetupInv, ClientWaits
<1>5. CASE C2SRead \/ C2SWrite \/ S2CWrite \/ ProxyEnds
  BY <1>5, SMT DEF C2SRead, C2SWrite, S2CWrite, ProxyEnds, ends, wires, relay, RelayInv,
    SetupInv, FailedInv, Relaying, Upward, Downward, One
<1>6. CASE S2CRead
  BY <1>6, SMT DEF S2CRead, ends, RelayInv, ServerInv, Relaying, Downward, One
<1>7. CASE ClientAnswers
  BY <1>7, SMT DEF ClientAnswers, relay
<1>8. CASE ClientUnderTLS \/ ClientCommand
  BY <1>8, SMT DEF ClientUnderTLS, ClientCommand, Sends, relay, SetupInv, RelayInv, Relaying, Downward, One
<1>9. CASE Server \/ ServerLeaves
  BY <1>9, SMT DEF Server, ServerReads, ServerGreets, ServerAuth, ServerReplies, ServerSends,
    ServerLeaves, relay, wires
<1> QED
  BY <1>1, <1>2, <1>3, <1>4, <1>5, <1>6, <1>7, <1>8, <1>9, Zenon
  DEF Next, Skybridge, Proxy, ProxyInject, Goroutines, Client

-----------------------------------------------------------------------------
(* Where Proxy and ProxyInject are *)

\* Before the goroutines start nothing is shifted, and the two logins that
\* ProxyInject conducts do not touch each other.
LEMMA SetupStep ==
  ASSUME HandshakeAssumption, IInv, Next
  PROVE  SetupInv'
<1>0. /\ PacketsOK /\ NumbersOK /\ FlagsOK /\ PhasesOK /\ KnownPackets
      /\ ServerInv /\ ClientInv /\ SetupInv /\ RelayInv /\ FailedInv
      /\ LetInInv /\ TLSInv /\ OutcomeInv
  BY Parts, Zenon
<1> USE <1>0, NoneFacts, PktFields, Bounds
    DEF KnownPackets, SetupInv, ServerUntouched, FirstPacket, ClientWaits, config, ends, relay
<1>1. CASE Greet \/ UpstreamTLS \/ Resend
  BY <1>1, SMTT(30) DEF Greet, UpstreamTLS, Fail, Deny, Resend, ServerInv
<1>2. CASE Response \/ ServerGreeting \/ ClientTLS
  BY <1>2, SMTT(30) DEF Response, ServerGreeting, ClientTLS, ClientInv, NumbersOK
<1>3. CASE SwitchToClear \/ ReadToken \/ Resolve
  BY <1>3, SMTT(30) DEF SwitchToClear, ReadToken, Resolve, Deny, ClientInv, NumbersOK
<1>4. CASE Login
  BY <1>4, SMTT(30) DEF Login, Deny, ServerInv, PhasesOK
<1>5. CASE OwnResponse \/ CompleteUpstreamAuth \/ UpstreamGone \/ Welcome
  BY <1>5, SMT DEF OwnResponse, CompleteUpstreamAuth, UpstreamGone, Welcome, Deny, ServerInv
<1>6. CASE Goroutines
  BY <1>6, Zenon DEF Goroutines, C2SRead, C2SWrite, S2CRead, S2CWrite, ProxyEnds, Relaying
<1>7. CASE ClientAnswers
  <2>1. CASE pc \in {"response", "terminate"}
    BY <1>7, <2>1, SMT DEF ClientAnswers, Answer, ClientInv, NumbersOK
  <2>2. CASE pc = "token"
    BY <1>7, <2>2, SMT DEF ClientAnswers, Answer, NumbersOK
  <2>3. CASE pc \in {"relay", "pass", "failed"}
    BY <1>7, <2>3, Zenon DEF ClientAnswers
  <2>4. CASE pc \notin {"response", "terminate", "token", "relay", "pass", "failed"}
    BY <1>7, <2>4, Zenon DEF ClientAnswers, PhasesOK
  <2> QED
    BY <2>1, <2>2, <2>3, <2>4, ZenonT(30)
<1>8. CASE ClientUnderTLS \/ ClientCommand
  BY <1>8, SMT DEF ClientUnderTLS, ClientCommand, Sends
<1>9. CASE ServerReads \/ ServerLeaves
  BY <1>9, SMT DEF ServerReads, ServerLeaves, wires
<1>10. CASE ServerGreets \/ ServerAuth \/ ServerReplies
  BY <1>10, SMT DEF ServerGreets, ServerAuth, ServerReplies, ServerSends
<1> QED
  BY <1>1, <1>2, <1>3, <1>4, <1>5, <1>6, <1>7, <1>8, <1>9, <1>10, Zenon
  DEF Next, Skybridge, Proxy, ProxyInject, Client, Server

\* What clientToServer still holds when the session ends fits the server.
LEMMA FailedStep ==
  ASSUME HandshakeAssumption, IInv, Next
  PROVE  FailedInv'
<1>0. /\ PacketsOK /\ NumbersOK /\ FlagsOK /\ PhasesOK /\ KnownPackets
      /\ ServerInv /\ ClientInv /\ SetupInv /\ RelayInv /\ FailedInv
      /\ LetInInv /\ TLSInv /\ OutcomeInv
  BY Parts, Zenon
<1> USE <1>0, NoneFacts, PktFields, Bounds DEF KnownPackets, FailedInv
<1>1. CASE Proxy \/ ProxyInject
  BY <1>1, Zenon DEF Proxy, Greet, Response, UpstreamTLS, Fail, Deny, Resend, ProxyInject, ServerGreeting,
    ClientTLS, SwitchToClear, ReadToken, Resolve, Login, OwnResponse, CompleteUpstreamAuth,
    UpstreamGone, Welcome, relay, SetupInv
<1>2. CASE C2SRead \/ C2SWrite \/ S2CRead \/ S2CWrite
  BY <1>2, Zenon DEF C2SRead, C2SWrite, S2CRead, S2CWrite, Relaying, ends
<1>3. CASE ProxyEnds
  BY <1>3, SMT DEF ProxyEnds, relay, wires, ends, Relaying, SetupInv, RelayInv, Upward, NumbersOK, ServerListens
<1>4. CASE Client
  BY <1>4, Zenon DEF Client, ClientAnswers, ClientUnderTLS, ClientCommand, Sends, relay, ServerListens
<1>5. CASE Server \/ ServerLeaves
  BY <1>5, Zenon DEF Server, ServerReads, ServerGreets, ServerAuth, ServerReplies, ServerSends, ServerLeaves,
    relay, wires, ServerListens
<1> QED
  BY <1>1, <1>2, <1>3, <1>4, <1>5, ZenonT(30) DEF Next, Skybridge, Goroutines

\* The news that lets a client in comes from a server that has let it in.
LEMMA LetInStep ==
  ASSUME HandshakeAssumption, IInv, Next
  PROVE  LetInInv'
<1>0. /\ PacketsOK /\ NumbersOK /\ FlagsOK /\ PhasesOK /\ KnownPackets
      /\ ServerInv /\ ClientInv /\ SetupInv /\ RelayInv /\ FailedInv
      /\ LetInInv /\ TLSInv /\ OutcomeInv
  BY Parts, Zenon
<1> USE <1>0, NoneFacts, PktFields DEF KnownPackets, LetInInv, LetInByServer, LoggedIn
<1>1. CASE Proxy
  BY <1>1, SMTT(30) DEF Proxy, Greet, Response, UpstreamTLS, Fail, Deny, Resend, relay, ends, config, SetupInv
<1>2. CASE ProxyInject
  BY <1>2, SMT DEF ProxyInject, ServerGreeting, ClientTLS, SwitchToClear, ReadToken, Resolve, Login,
    OwnResponse, CompleteUpstreamAuth, UpstreamGone, Welcome, Deny, relay, ends, config
<1>3. CASE Goroutines
  BY <1>3, SMT DEF Goroutines, C2SRead, C2SWrite, S2CRead, S2CWrite, ProxyEnds, relay, wires, ends, config
<1>4. CASE Client
  BY <1>4, SMTT(30) DEF Client, ClientAnswers, ClientUnderTLS, ClientCommand, Sends, relay, config
<1>5. CASE Server \/ ServerLeaves
  BY <1>5, SMT DEF Server, ServerReads, ServerGreets, ServerAuth, ServerReplies, ServerSends, ServerLeaves,
    relay, wires, config, ServerInv
<1> QED
  BY <1>1, <1>2, <1>3, <1>4, <1>5, Zenon DEF Next, Skybridge

-----------------------------------------------------------------------------
(* The goroutines *)

\* The goroutines keep the numbers of the two connections apart by the offset,
\* whoever of them moves first when it is cleared.
LEMMA RelayStep ==
  ASSUME HandshakeAssumption, IInv, Next
  PROVE  RelayInv'
<1>0. /\ PacketsOK /\ NumbersOK /\ FlagsOK /\ PhasesOK /\ KnownPackets
      /\ ServerInv /\ ClientInv /\ SetupInv /\ RelayInv /\ FailedInv
      /\ LetInInv /\ TLSInv /\ OutcomeInv
  BY Parts, Zenon
<1>1. CASE Proxy \/ ProxyInject
  <2>1. ASSUME Relaying' PROVE Response \/ Resend \/ Welcome
    <3>1. Greet \/ UpstreamTLS \/ ServerGreeting \/ ClientTLS \/ SwitchToClear => ~Relaying'
      BY Zenon DEF Relaying, Greet, UpstreamTLS, Fail, Deny, ServerGreeting, ClientTLS, SwitchToClear
    <3>2. ReadToken \/ Resolve \/ Login \/ OwnResponse => ~Relaying'
      BY Zenon DEF Relaying, Deny, ReadToken, Resolve, Login, OwnResponse
    <3>3. CompleteUpstreamAuth \/ UpstreamGone => ~Relaying'
      BY Zenon DEF Relaying, Deny, CompleteUpstreamAuth, UpstreamGone
    <3> QED
      BY <1>1, <2>1, <3>1, <3>2, <3>3, Zenon DEF Proxy, ProxyInject
  <2> USE <1>0, NoneFacts, PktFields, Bounds
      DEF KnownPackets, RelayInv, Relaying, Upward, Downward, One, Streams, ServerListens, AuthResult, NumbersOK
  <2>2. CASE Response
    BY <2>2, SMTT(30) DEF Response, relay, ends, SetupInv, FirstPacket, ServerInv, ClientInv
  <2>3. CASE Resend
    BY <2>3, Zenon DEF Resend, ends, SetupInv, ClientWaits, ServerInv
  <2>4. CASE Welcome
    BY <2>4, SMTT(30) DEF Welcome, relay, ends, SetupInv, ClientWaits, ServerInv
  <2> QED
    BY <2>1, <2>2, <2>3, <2>4, ZenonT(30)
<1> USE <1>0, NoneFacts, PktFields, Bounds
    DEF KnownPackets, RelayInv, Relaying, Upward, Downward, One, Streams, ServerListens, AuthResult, NumbersOK
<1>3. CASE C2SRead \/ C2SWrite \/ S2CWrite \/ ProxyEnds
  BY <1>3, SMTT(30) DEF C2SRead, C2SWrite, S2CWrite, ProxyEnds, relay, wires, ends, ClientInv
<1>4. CASE S2CRead
  <2>1. CASE AuthResult(fromServer)
    <3>1. ~Upward /\ srv = IF fromServer.t = "ok" THEN "idle" ELSE "refused"
      BY <1>4, <2>1, Zenon DEF S2CRead, ServerInv
    <3>2. s2c' = Pkt(fromServer.t, cliNext + One(toClient))
      BY <1>4, SMTT(30) DEF S2CRead
    <3> QED
      BY <1>4, <2>1, <3>1, <3>2, SMTT(30) DEF S2CRead, ends
  <2>2. CASE ~AuthResult(fromServer)
    BY <1>4, <2>2, SMTT(30) DEF S2CRead, ends, ServerInv
  <2> QED
    BY <2>1, <2>2, ZenonT(30)
<1>5. CASE ClientAnswers
  BY <1>5, SMTT(30) DEF ClientAnswers, relay, ServerInv, ClientInv, Asks
<1>6. CASE ClientUnderTLS
  BY <1>6, SMTT(30) DEF ClientUnderTLS, Sends, relay, ServerInv, TLSInv
<1>7. CASE ClientCommand
  BY <1>7, SMTT(30) DEF ClientCommand, Sends, relay, ServerInv, ClientInv
<1>8. CASE ServerReads
  BY <1>8, SMTT(30) DEF ServerReads, relay, ServerInv, ClientInv
<1>9. CASE ServerGreets \/ ServerLeaves
  BY <1>9, SMT DEF ServerGreets, ServerSends, ServerLeaves, relay, wires
<1>10. CASE ServerAuth
  <2>1. CASE Relaying
    <3>1. ~Upward /\ fromServer = None /\ srvNext = cliNext + Downward + offset /\ cli \notin {"idle", "refused", "tls"}
      BY <1>10, <2>1, Zenon DEF ServerAuth, ServerSends
    <3>2. PICK t \in {"ok", "err", "switch", "more", "fast"} :
            /\ fromServer' = Pkt(t, srvNext)
            /\ srv' = IF t = "ok" THEN "idle" ELSE IF t = "err" THEN "refused"
                      ELSE IF t = "fast" THEN "auth" ELSE "wait"
            /\ srvNext' = IF t \in {"ok", "err"} THEN 0 ELSE srvNext + 1
      BY <1>10, Zenon DEF ServerAuth, ServerSends
    <3>3. UNCHANGED <<pc, toClient, toServer, fromClient, cli, cliNext, c2s, s2c, offset>>
      BY <1>10, Zenon DEF ServerAuth, ServerSends, relay
    <3>4. srv = "auth" /\ srv' \notin {"greet", "response", "tls"}
      BY <1>10, <3>2, Zenon DEF ServerAuth
    <3>5. (toClient = None \/ Streams(toClient)) /\ (s2c = None \/ Streams(s2c))
      BY <2>1, <3>4, Zenon
    <3>6. fromServer' # None /\ fromServer'.seq = srvNext /\ fromServer'.t = t
      BY <3>2, SMT
    <3>7. Downward' = Downward + 1 /\ ~Upward'
      BY <3>1, <3>3, <3>6, SMTT(30)
    <3>8. srv' \in {"auth", "wait", "busy"} => srvNext' = cliNext' + Downward' + offset'
      BY <3>1, <3>2, <3>3, <3>7, SMTT(30) DEF ServerInv
    <3> QED
      BY <2>1, <3>1, <3>2, <3>3, <3>4, <3>5, <3>6, <3>7, <3>8, SMTT(30)
  <2>2. CASE ~Relaying
    BY <1>10, <2>2, Zenon DEF ServerAuth, ServerSends
  <2> QED
    BY <2>1, <2>2, ZenonT(30)
<1>11. CASE ServerReplies
  BY <1>11, SMT DEF ServerReplies, ServerSends, relay, ServerInv
<1> QED
  BY <1>1, <1>3, <1>4, <1>5, <1>6, <1>7, <1>8, <1>9, <1>10, <1>11, Zenon
  DEF Next, Skybridge, Goroutines, Client, Server

-----------------------------------------------------------------------------
(* TLS and the outcome *)

\* Credentials that must go under TLS do.
LEMMA TLSStep ==
  ASSUME HandshakeAssumption, IInv, Next
  PROVE  TLSInv'
<1>0. /\ PacketsOK /\ NumbersOK /\ FlagsOK /\ PhasesOK /\ KnownPackets
      /\ ServerInv /\ ClientInv /\ SetupInv /\ RelayInv /\ FailedInv
      /\ LetInInv /\ TLSInv /\ OutcomeInv
  BY Parts, Zenon
<1> USE <1>0, NoneFacts, PktFields DEF KnownPackets, TLSInv, config
<1>1. CASE Proxy
  BY <1>1, SMTT(30) DEF Proxy, Greet, Response, UpstreamTLS, Fail, Deny, Resend, relay, ends, SetupInv
<1>2. CASE ProxyInject
  <2>1. CASE OwnResponse
    BY <1>2, <2>1, SMT DEF OwnResponse, Deny, relay, ends, FlagsOK
  <2>2. CASE ServerGreeting \/ ClientTLS \/ SwitchToClear \/ ReadToken \/ Resolve
    BY <2>2, SMT DEF ServerGreeting, ClientTLS, SwitchToClear, ReadToken, Resolve, Deny, relay, ends
  <2>3. CASE Login
    BY <2>3, SMT DEF Login, Deny, relay, ends, SetupInv, ServerUntouched
  <2>4. CASE CompleteUpstreamAuth \/ UpstreamGone \/ Welcome
    BY <2>4, SMT DEF CompleteUpstreamAuth, UpstreamGone, Welcome, Deny, relay, ends
  <2> QED
    BY <1>2, <2>1, <2>2, <2>3, <2>4, Zenon DEF ProxyInject
<1>3. CASE Goroutines
  BY <1>3, SMT DEF Goroutines, C2SRead, C2SWrite, S2CRead, S2CWrite, ProxyEnds, relay, wires, ends, Relaying
<1>4. CASE Client
  BY <1>4, SMTT(30) DEF Client, ClientAnswers, ClientUnderTLS, ClientCommand, Sends, Answer, relay
<1>5. CASE Server \/ ServerLeaves
  BY <1>5, SMTT(30) DEF Server, ServerReads, ServerGreets, ServerAuth, ServerReplies, ServerSends, ServerLeaves,
    relay, wires, ServerInv
<1> QED
  BY <1>1, <1>2, <1>3, <1>4, <1>5, ZenonT(30) DEF Next, Skybridge

\* A client that gave its token has been answered when the session ends.
LEMMA OutcomeStep ==
  ASSUME HandshakeAssumption, IInv, Next
  PROVE  OutcomeInv'
<1>0. /\ PacketsOK /\ NumbersOK /\ FlagsOK /\ PhasesOK /\ KnownPackets
      /\ ServerInv /\ ClientInv /\ SetupInv /\ RelayInv /\ FailedInv
      /\ LetInInv /\ TLSInv /\ OutcomeInv
  BY Parts, Zenon
<1> USE <1>0, NoneFacts, PktFields DEF KnownPackets, OutcomeInv, config, Asks
<1>1. CASE Proxy
  <2>1. CASE Greet \/ Response
    BY <2>1, SMTT(30) DEF Greet, Response, Fail, Deny, relay, ends, SetupInv
  <2>2. CASE UpstreamTLS \/ Resend
    BY <2>2, SMTT(30) DEF UpstreamTLS, Fail, Deny, Resend, relay, ends, SetupInv
  <2> QED
    BY <1>1, <2>1, <2>2, ZenonT(30) DEF Proxy
<1>2. CASE ProxyInject
  <2>1. CASE ServerGreeting
    BY <2>1, Zenon DEF ServerGreeting, Deny, relay, ends, SetupInv
  <2>2. CASE ClientTLS
    BY <2>2, Zenon DEF ClientTLS, Deny, relay, ends, SetupInv
  <2>3. CASE SwitchToClear
    BY <2>3, Zenon DEF SwitchToClear, Deny, relay, ends, SetupInv
  <2>4. CASE ReadToken
    BY <2>4, Zenon DEF ReadToken, Deny, relay, ends, SetupInv
  <2>5. CASE Resolve
    BY <2>5, SMTT(30) DEF Resolve, Deny, relay, ends, SetupInv
  <2>6. CASE Login
    BY <2>6, SMTT(30) DEF Login, Deny, relay, ends, SetupInv
  <2>7. CASE OwnResponse
    BY <2>7, SMTT(30) DEF OwnResponse, Deny, relay, ends, SetupInv
  <2>8. CASE CompleteUpstreamAuth \/ UpstreamGone
    BY <2>8, SMTT(30) DEF CompleteUpstreamAuth, UpstreamGone, Deny, relay, ends, SetupInv
  <2>9. CASE Welcome
    BY <2>9, SMTT(30) DEF Welcome, Deny, relay, ends, SetupInv
  <2> QED
    BY <1>2, <2>1, <2>2, <2>3, <2>4, <2>5, <2>6, <2>7, <2>8, <2>9, ZenonT(30)
       DEF ProxyInject
<1>3. CASE Goroutines
  BY <1>3, SMTT(30) DEF Goroutines, C2SRead, C2SWrite, S2CRead, S2CWrite, ProxyEnds, relay, wires, ends,
    Relaying, TLSInv, SetupInv
<1>4. CASE Client
  BY <1>4, SMTT(30) DEF Client, ClientAnswers, ClientUnderTLS, ClientCommand, Sends, relay
<1>5. CASE ServerReads \/ ServerLeaves
  BY <1>5, SMTT(30) DEF ServerReads, ServerLeaves, relay, wires
<1>6. CASE ServerGreets \/ ServerAuth \/ ServerReplies
  <2>1. CASE ServerGreets
    BY <2>1, Zenon DEF ServerGreets, ServerSends, relay, LetInInv, LoggedIn, SetupInv
  <2>2. CASE ServerAuth
    BY <2>2, SMTT(30) DEF ServerAuth, ServerSends, relay, LetInInv, LoggedIn, SetupInv
  <2>3. CASE ServerReplies
    BY <2>3, SMTT(30) DEF ServerReplies, ServerSends, relay, LetInInv, LoggedIn, SetupInv
  <2> QED
    BY <1>6, <2>1, <2>2, <2>3
<1> QED
  BY <1>1, <1>2, <1>3, <1>4, <1>5, <1>6, ZenonT(30) DEF Next, Skybridge, Server

-----------------------------------------------------------------------------
(* The whole *)

\* A new connection satisfies the inductive invariant.
LEMMA Initially ==
  ASSUME HandshakeAssumption, Init
  PROVE  IInv
<1>1. TypeOK
  <2>1. PacketsOK
    BY NoneFacts, Zenon DEF Init, PacketsOK
  <2>2. NumbersOK
    BY Bounds, SMT DEF Init, NumbersOK
  <2>3. FlagsOK /\ PhasesOK
    BY Zenon DEF Init, FlagsOK, PhasesOK
  <2> QED
    BY <2>1, <2>2, <2>3, TypeParts, Zenon
<1>2. ServerInv
  BY NoneFacts, Zenon DEF Init, ServerInv, Asks, Streams
<1>3. ClientInv
  BY NoneFacts, Zenon DEF Init, ClientInv, Asks
<1>4. SetupInv
  BY Zenon DEF Init, SetupInv, ServerUntouched
<1>5. RelayInv /\ FailedInv
  BY Zenon DEF Init, RelayInv, Relaying, FailedInv
<1>6. LetInInv
  BY NoneFacts, Zenon DEF Init, LetInInv, LetInByServer
<1>7. TLSInv
  BY NoneFacts, Zenon DEF Init, TLSInv
<1>8. OutcomeInv
  BY NoneFacts, Zenon DEF Init, OutcomeInv, Asks
<1> QED
  BY <1>1, <1>2, <1>3, <1>4, <1>5, <1>6, <1>7, <1>8, Zenon DEF IInv

\* Every step of the agent and of the two ends preserves it.
LEMMA Inductive ==
  ASSUME HandshakeAssumption, IInv, Next
  PROVE  IInv'
<1>1. TypeOK'
  <2>1. PacketsOK' /\ NumbersOK' /\ FlagsOK' /\ PhasesOK'
    BY PacketsStep, NumbersStep, FlagsStep, PhasesStep, Zenon
  <2> QED
    BY <2>1, Zenon DEF TypeOK, PacketsOK, NumbersOK, FlagsOK, PhasesOK
<1> QED
  BY <1>1, ServerStep, ClientStep, SetupStep, RelayStep, FailedStep,
    LetInStep, TLSStep, OutcomeStep, Zenon DEF IInv

\* A step of another engine leaves it alone.
LEMMA Stutters ==
  ASSUME IInv, UNCHANGED vars
  PROVE  IInv'
<1> USE DEF vars
<1>1. TypeOK'
  BY SMT DEF IInv, TypeOK
<1>2. ServerInv'
  BY Zenon DEF IInv, ServerInv, Asks, Streams, ServerListens
<1>3. ClientInv'
  BY Zenon DEF IInv, ClientInv, Asks
<1>4. SetupInv'
  BY SMTT(30) DEF IInv, SetupInv, ClientWaits, ServerUntouched, FirstPacket
<1>5. RelayInv'
  BY Zenon DEF IInv, RelayInv, Relaying, Upward, Downward, One, AuthResult, Streams, ServerListens
<1>6. FailedInv' /\ LetInInv'
  BY Zenon DEF IInv, FailedInv, ServerListens, LetInInv, LoggedIn, LetInByServer
<1>7. TLSInv' /\ OutcomeInv'
  BY Zenon DEF IInv, TLSInv, OutcomeInv, Asks
<1> QED
  BY <1>1, <1>2, <1>3, <1>4, <1>5, <1>6, <1>7, Zenon DEF IInv

\* The inductive invariant holds in every reachable state of a MySQL
\* connection, for every number of authentication rounds and of packets in a
\* command's response, and every subset of the upstream TLS modes.
THEOREM InvCorrect ==
  ASSUME HandshakeAssumption
  PROVE  Spec => []IInv
<1>1. IInv /\ [Next]_vars => IInv'
  BY Inductive, Stutters, Zenon
<1> QED
  BY <1>1, Initially, PTL DEF Spec

\* Every packet arrives under the sequence id its receiver expects; a client is
\* let in only by a server that has accepted it; required TLS is had; and a
\* client that gave its token learns the outcome.
THEOREM Properties ==
  ASSUME IInv
  PROVE  SeqAligned /\ LetInByServer /\ RequiredMeansTLS /\ OutcomeTold
<1>1. SeqAligned
  BY Zenon DEF IInv, SeqAligned, ClientInv, ServerInv
<1>2. LetInByServer
  BY Zenon DEF IInv, LetInInv
<1>3. RequiredMeansTLS
  BY Zenon DEF IInv, TLSInv, RequiredMeansTLS
<1>4. OutcomeTold
  BY NoneFacts, Zenon DEF IInv, OutcomeInv, OutcomeTold
<1> QED
  BY <1>1, <1>2, <1>3, <1>4, Zenon
=============================================================================
