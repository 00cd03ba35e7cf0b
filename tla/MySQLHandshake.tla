--------------------------- MODULE MySQLHandshake ---------------------------
(***************************************************************************)
(* The connection phase of the MySQL engine (internal/wire/mysql).         *)
(*                                                                         *)
(* Proxy relays it: the greeting and the client's response in lock-step,   *)
(* TLS to the upstream slipped in between them when the target asks for    *)
(* it, and until authentication ends the two goroutines shift sequence     *)
(* ids, by the offset the inserted SSL request has caused.  The goroutines *)
(* share the atomic offset.                                                *)
(*                                                                         *)
(* ProxyInject ends it in the agent: it is a server to the client, takes a *)
(* session token from it, resolves the token, and is a client to the       *)
(* upstream before it lets its own client in.                              *)
(*                                                                         *)
(* MySQL numbers the packets of an exchange, and both ends refuse one that *)
(* is out of order; packets are abstracted to that number and their kind.  *)
(***************************************************************************)
EXTENDS Naturals

CONSTANTS Modes,      \* upstream TLS modes: "none", "prefer", "require"
          MaxRounds,  \* bound: extra authentication rounds
          MaxReply    \* bound: packets of a command's response

HandshakeAssumption ==
  /\ Modes \subseteq {"none", "prefer", "require"} /\ Modes # {}
  /\ MaxRounds \in Nat /\ MaxReply \in Nat \ {0}

VARIABLES
  inject,     \* a resolver is configured
  clientTLS,  \* e.clientTLS is set
  mode,       \* e.upstreamTLS and e.upstreamRequired
  srvSSL,     \* the server's greeting offers TLS
  cliSSL,     \* the client asks for TLS by itself
  p41,        \* the client's response is one an SSL request derives from
  pc,         \* where Proxy or ProxyInject is
  nextSeq,    \* info.nextSeq: the agent's next packet to the client
  offset,     \* state.offset
  encrypted,  \* the upstream connection is under TLS
  leaked,     \* the client's credentials have gone upstream in the clear
  c2s, s2c,   \* what each goroutine has read and not written
  toClient, toServer,    \* packets in flight
  fromClient, fromServer,
  cli, srv,   \* the phase each end is in
  cliNext, srvNext,      \* the sequence id each end expects or sends next
  rounds,
  srvUp       \* the server has not left

vars == <<inject, clientTLS, mode, srvSSL, cliSSL, p41, pc, nextSeq, offset,
          encrypted, leaked, c2s, s2c, toClient, toServer, fromClient,
          fromServer, cli, srv, cliNext, srvNext, rounds, srvUp>>
config == <<inject, clientTLS, mode, srvSSL, cliSSL, p41>>
wires == <<toClient, toServer, fromClient, fromServer>>
ends == <<cli, srv, cliNext, srvNext, rounds, srvUp>>
relay == <<offset, c2s, s2c>>

MaxSeq == 2 * MaxRounds + MaxReply + 5
Pkt(t, n) == [t |-> t, seq |-> n]
None == Pkt("none", 0)
Kinds == {"greeting", "response", "ssl", "switch", "more", "fast", "auth", "clear",
          "token", "ok", "err", "command", "reply", "done"}
Packet == [t : Kinds, seq : 0..MaxSeq] \cup {None}

TypeOK ==
  /\ inject \in BOOLEAN /\ clientTLS \in BOOLEAN
  /\ mode \in Modes /\ srvSSL \in BOOLEAN /\ cliSSL \in BOOLEAN
  /\ p41 \in BOOLEAN /\ srvUp \in BOOLEAN /\ nextSeq \in 0..MaxSeq
  /\ pc \in {"greet", "response", "tls", "resend", "relay", "pass", "failed"}
            \cup {"terminate", "secured", "lost", "token", "resolve", "login",
                  "auth", "welcome"}
  /\ offset \in {0, 1} /\ encrypted \in BOOLEAN /\ leaked \in BOOLEAN
  /\ c2s \in Packet /\ s2c \in Packet
  /\ toClient \in Packet /\ toServer \in Packet
  /\ fromClient \in Packet /\ fromServer \in Packet
  /\ cli \in {"greet", "tls", "auth", "idle", "busy", "refused"}
  /\ srv \in {"greet", "response", "tls", "auth", "wait", "idle", "busy", "refused"}
  /\ cliNext \in 0..MaxSeq /\ srvNext \in 0..MaxSeq /\ rounds \in 0..MaxRounds

Init ==
  /\ inject \in BOOLEAN /\ clientTLS \in BOOLEAN
  /\ mode \in Modes /\ srvSSL \in BOOLEAN
  /\ cliSSL \in {b \in BOOLEAN : b => inject \/ srvSSL}
  /\ p41 \in {b \in BOOLEAN : cliSSL \/ inject => b}
  /\ pc = "greet" /\ nextSeq = 0 /\ srvUp = TRUE /\ offset = 0
  /\ encrypted = FALSE /\ leaked = FALSE
  /\ c2s = None /\ s2c = None
  /\ toClient = None /\ toServer = None /\ fromClient = None
  /\ fromServer = None
  /\ cli = "greet" /\ srv = "greet" /\ cliNext = 0 /\ srvNext = 0
  /\ rounds = 0

-----------------------------------------------------------------------------
(* Proxy, up to the start of the goroutines *)

\* The greeting is forwarded as it is.
Greet ==
  /\ pc = "greet" /\ ~inject /\ fromServer # None
  /\ toClient' = fromServer /\ fromServer' = None
  /\ pc' = "response"
  /\ UNCHANGED <<config, nextSeq, encrypted, leaked, relay, toServer, fromClient,
                 ends>>

CanTLS == srvSSL /\ p41

LaxResponse ==
  /\ pc = "response" /\ fromClient # None
  /\ fromClient' = None
  /\ \/ /\ fromClient.t = "ssl"
        /\ toServer' = fromClient /\ pc' = "pass" /\ UNCHANGED leaked
     \/ /\ fromClient.t = "response" /\ mode # "none" /\ CanTLS
        /\ toServer' = Pkt("ssl", fromClient.seq)
        /\ pc' = "tls" /\ UNCHANGED leaked
     \/ /\ fromClient.t = "response" /\ (mode = "none" \/ ~CanTLS)
        /\ toServer' = fromClient /\ pc' = "relay" /\ leaked' = TRUE
  /\ UNCHANGED <<config, nextSeq, encrypted, relay, toClient, fromServer, ends>>

\* The client's first packet.  An SSL request makes the rest opaque; a
\* response is forwarded, or kept while an SSL request goes first under its
\* sequence id, or dropped when TLS is required and cannot be had.
Response ==
  /\ pc = "response" /\ fromClient # None
  /\ fromClient' = None
  /\ \/ /\ fromClient.t = "ssl"
        /\ toServer' = fromClient /\ pc' = "pass" /\ UNCHANGED leaked
     \/ /\ fromClient.t = "response" /\ mode # "none" /\ CanTLS
        /\ toServer' = Pkt("ssl", fromClient.seq)
        /\ pc' = "tls" /\ UNCHANGED leaked
     \/ /\ fromClient.t = "response" /\ mode = "require" /\ ~CanTLS
        /\ pc' = "failed" /\ UNCHANGED <<toServer, leaked>>
     \/ /\ fromClient.t = "response"
        /\ mode = "none" \/ (mode = "prefer" /\ ~CanTLS)
        /\ toServer' = fromClient /\ pc' = "relay" /\ leaked' = TRUE
  /\ UNCHANGED <<config, nextSeq, encrypted, relay, toClient, fromServer, ends>>

MuteDeny == pc' = "failed" /\ UNCHANGED toClient

\* writeClientError, and the session is over.
Deny == pc' = "failed" /\ toClient' = Pkt("err", nextSeq)

Fail == IF inject THEN Deny ELSE pc' = "failed" /\ UNCHANGED toClient

\* tconn.Handshake, once the server has seen the request.
UpstreamTLS ==
  /\ pc = "tls"
  /\ \/ /\ srv = "tls" /\ srvUp
        /\ pc' = "resend" /\ encrypted' = TRUE /\ UNCHANGED toClient
     \/ (srv = "tls" \/ ~srvUp) /\ Fail /\ UNCHANGED encrypted
  /\ UNCHANGED <<config, nextSeq, leaked, relay, toServer, fromClient, fromServer,
                 ends>>

\* The response kept is sent as the next packet (the client sent it as 1).
Resend ==
  /\ pc = "resend" /\ ~inject /\ toServer = None
  /\ toServer' = Pkt("response", 2)
  /\ offset' = 1 /\ pc' = "relay"
  /\ UNCHANGED <<config, nextSeq, encrypted, leaked, c2s, s2c, toClient, fromClient,
                 fromServer, ends>>

-----------------------------------------------------------------------------
(* ProxyInject, up to the start of the goroutines *)

\* terminateClient: the agent's own greeting; the server's waits unread.
ServerGreeting ==
  /\ pc = "greet" /\ inject
  /\ toClient' = Pkt("greeting", 0) /\ pc' = "terminate"
  /\ UNCHANGED <<config, nextSeq, encrypted, leaked, relay, toServer, fromClient,
                 fromServer, ends>>

\* An SSL request of the client.  The TLS server reads from the connection:
\* a ClientHello that came in with the request is in cb, and lost.
ClientTLS ==
  /\ pc = "terminate" /\ fromClient.t = "ssl"
  /\ fromClient' = None
  /\ \/ clientTLS /\ pc' \in {"secured", "failed", "lost"}
     \/ ~clientTLS /\ pc' = "failed"
  /\ UNCHANGED <<config, nextSeq, encrypted, leaked, relay, toClient, toServer,
                 fromServer, ends>>

\* The client's response is answered by a switch to mysql_clear_password.
SwitchToClear ==
  /\ pc \in {"terminate", "secured"} /\ fromClient.t = "response"
  /\ toClient' = Pkt("clear", fromClient.seq + 1)
  /\ fromClient' = None /\ pc' = "token"
  /\ UNCHANGED <<config, nextSeq, encrypted, leaked, relay, toServer, fromServer, ends>>

ReadToken ==
  /\ pc = "token" /\ fromClient.t = "token"
  /\ nextSeq' = fromClient.seq + 1 /\ fromClient' = None /\ pc' = "resolve"
  /\ UNCHANGED <<config, encrypted, leaked, relay, toClient, toServer, fromServer, ends>>

\* The control plane gives a credential for the token, or does not.
Resolve ==
  /\ pc = "resolve"
  /\ Deny \/ (pc' = "login" /\ UNCHANGED toClient)
  /\ UNCHANGED <<config, nextSeq, encrypted, leaked, relay, toServer, fromClient,
                 fromServer, ends>>

\* authenticateUpstream: the server's greeting, and TLS if it has it.
Login ==
  /\ pc = "login" /\ fromServer # None
  /\ fromServer' = None
  /\ \/ /\ mode # "none" /\ srvSSL
        /\ toServer' = Pkt("ssl", 1) /\ pc' = "tls" /\ UNCHANGED toClient
     \/ mode = "require" /\ ~srvSSL /\ Deny /\ UNCHANGED toServer
     \/ /\ mode = "none" \/ (mode = "prefer" /\ ~srvSSL)
        /\ pc' = "resend" /\ UNCHANGED <<toClient, toServer>>
  /\ UNCHANGED <<config, nextSeq, encrypted, leaked, relay, fromClient, ends>>

\* The agent's own response, unless it does not know the server's plugin.
OwnResponse ==
  /\ pc = "resend" /\ inject /\ toServer = None
  /\ \/ /\ toServer' = Pkt("response", IF encrypted THEN 2 ELSE 1)
        /\ pc' = "auth" /\ leaked' = ~encrypted /\ UNCHANGED toClient
     \/ Deny /\ UNCHANGED <<toServer, leaked>>
  /\ UNCHANGED <<config, nextSeq, encrypted, relay, fromClient, fromServer, ends>>

EarlyCompleteUpstreamAuth ==
  /\ pc = "auth" /\ fromServer # None
  /\ fromServer' = None
  /\ \/ /\ fromServer.t \in {"ok", "fast"}
        /\ pc' = "welcome" /\ UNCHANGED <<toClient, toServer>>
     \/ /\ fromServer.t = "switch" \/ (fromServer.t = "more" /\ encrypted)
        /\ toServer' = Pkt("auth", fromServer.seq + 1)
        /\ UNCHANGED <<pc, toClient>>
     \/ /\ fromServer.t \in {"err", "switch"} \/ (fromServer.t = "more" /\ ~encrypted)
        /\ Deny /\ UNCHANGED toServer
  /\ UNCHANGED <<config, nextSeq, encrypted, leaked, relay, fromClient, ends>>

\* completeUpstreamAuth: a switch to a plugin it knows is answered, and full
\* authentication under TLS; the news of a fast success is not yet the OK.
CompleteUpstreamAuth ==
  /\ pc = "auth" /\ fromServer # None
  /\ fromServer' = None
  /\ \/ /\ fromServer.t = "ok"
        /\ pc' = "welcome" /\ UNCHANGED <<toClient, toServer>>
     \/ fromServer.t = "fast" /\ UNCHANGED <<pc, toClient, toServer>>
     \/ /\ fromServer.t = "switch" \/ (fromServer.t = "more" /\ encrypted)
        /\ toServer' = Pkt("auth", fromServer.seq + 1)
        /\ UNCHANGED <<pc, toClient>>
     \/ /\ fromServer.t \in {"err", "switch"} \/ (fromServer.t = "more" /\ ~encrypted)
        /\ Deny /\ UNCHANGED toServer
  /\ UNCHANGED <<config, nextSeq, encrypted, leaked, relay, fromClient, ends>>

UpstreamGone ==
  /\ pc \in {"login", "auth"} /\ ~srvUp /\ fromServer = None
  /\ Deny
  /\ UNCHANGED <<config, nextSeq, encrypted, leaked, relay, toServer, fromClient,
                 fromServer, ends>>

\* The OK the client waits for; the goroutines start with offset 0.
Welcome ==
  /\ pc = "welcome"
  /\ toClient' = Pkt("ok", nextSeq) /\ pc' = "relay"
  /\ UNCHANGED <<config, nextSeq, encrypted, leaked, relay, toServer, fromClient,
                 fromServer, ends>>

-----------------------------------------------------------------------------
(* The goroutines; passthrough copies both ways and shifts nothing *)

Relaying == pc \in {"relay", "pass"}

C2SRead ==
  /\ Relaying /\ fromClient # None /\ c2s = None
  /\ c2s' = fromClient /\ fromClient' = None
  /\ UNCHANGED <<config, nextSeq, pc, offset, encrypted, leaked, s2c, toClient, toServer,
                 fromServer, ends>>

\* clientToServer loads the offset as it writes.
C2SWrite ==
  /\ c2s # None /\ toServer = None
  /\ toServer' = Pkt(c2s.t, c2s.seq + offset) /\ c2s' = None
  /\ UNCHANGED <<config, nextSeq, pc, offset, encrypted, leaked, s2c, toClient, fromClient,
                 fromServer, ends>>

AuthResult(p) == p.t \in {"ok", "err"}

ShiftedS2CRead ==
  /\ Relaying /\ fromServer # None /\ s2c = None
  /\ s2c' = Pkt(fromServer.t, fromServer.seq - offset)
  /\ fromServer' = None
  /\ UNCHANGED <<config, nextSeq, pc, offset, encrypted, leaked, c2s, toClient, toServer,
                 fromClient, ends>>

\* serverToClient reads a packet; while the offset is 1 it shifts the packet
\* back, and clears the offset at the result of the authentication.
S2CRead ==
  /\ Relaying /\ fromServer # None /\ s2c = None
  /\ s2c' = Pkt(fromServer.t, fromServer.seq - offset)
  /\ offset' = IF AuthResult(fromServer) THEN 0 ELSE offset
  /\ fromServer' = None
  /\ UNCHANGED <<config, nextSeq, pc, encrypted, leaked, c2s, toClient, toServer,
                 fromClient, ends>>

UnflushedS2CWrite ==
  /\ s2c # None /\ toClient = None
  /\ s2c' = None
  /\ toClient' = IF offset = 1 THEN None ELSE s2c
  /\ UNCHANGED <<config, nextSeq, pc, offset, encrypted, leaked, c2s, toServer, fromClient,
                 fromServer, ends>>

\* Every packet of this lock-step phase is written and flushed.
S2CWrite ==
  /\ s2c # None /\ toClient = None
  /\ toClient' = s2c /\ s2c' = None
  /\ UNCHANGED <<config, nextSeq, pc, offset, encrypted, leaked, c2s, toServer, fromClient,
                 fromServer, ends>>

\* The server is gone: reading from it fails, and both connections close.
ProxyEnds ==
  /\ Relaying \/ (pc = "greet" /\ ~inject)
  /\ ~srvUp /\ fromServer = None /\ s2c = None
  /\ pc' = "failed"
  /\ UNCHANGED <<config, nextSeq, encrypted, leaked, relay, wires, ends>>

-----------------------------------------------------------------------------
(* The client *)

Sends(t, phase) ==
  /\ fromClient = None
  /\ fromClient' = Pkt(t, cliNext)
  /\ cliNext' = cliNext + 1 /\ cli' = phase
  /\ UNCHANGED <<config, nextSeq, pc, encrypted, leaked, relay, toServer,
                 fromServer, srv, srvNext, rounds, srvUp>>

Answer(t) ==
  IF t \in {"switch", "more"} THEN "auth" ELSE IF t = "clear" THEN "token"
  ELSE IF cliSSL THEN "ssl" ELSE "response"

ClientAnswers ==
  /\ toClient # None /\ toClient.seq = cliNext /\ fromClient = None
  /\ toClient' = None
  /\ \/ /\ toClient.t \in {"greeting", "switch", "more", "clear"}
        /\ fromClient' = Pkt(Answer(toClient.t), cliNext + 1)
        /\ cliNext' = cliNext + 2
        /\ cli' = IF toClient.t = "greeting" /\ cliSSL THEN "tls" ELSE "auth"
     \/ /\ toClient.t \in {"ok", "err", "done"}
        /\ cli' = IF toClient.t = "err" THEN "refused" ELSE "idle"
        /\ cliNext' = 0 /\ UNCHANGED fromClient
     \/ /\ toClient.t \in {"reply", "fast"}
        /\ cliNext' = cliNext + 1 /\ UNCHANGED <<cli, fromClient>>
  /\ UNCHANGED <<config, nextSeq, pc, encrypted, leaked, relay, toServer,
                 fromServer, srv, srvNext, rounds, srvUp>>

\* Its response under TLS, after an SSL request of its own.
ClientUnderTLS ==
  /\ cli = "tls" /\ ((srv = "tls" /\ pc = "pass") \/ pc = "secured")
  /\ Sends("response", "auth") /\ UNCHANGED toClient

ClientCommand ==
  /\ cli = "idle"
  /\ Sends("command", "busy") /\ UNCHANGED toClient

-----------------------------------------------------------------------------
(* The server *)

ServerReads ==
  /\ srvUp /\ toServer # None /\ toServer.seq = srvNext
  /\ \/ srv = "response" /\ toServer.t = "ssl" /\ srv' = "tls"
     \/ srv \in {"response", "tls"} /\ toServer.t = "response" /\ srv' = "auth"
     \/ srv = "wait" /\ toServer.t = "auth" /\ srv' = "auth"
     \/ srv = "idle" /\ toServer.t = "command" /\ srv' = "busy"
  /\ toServer' = None /\ srvNext' = srvNext + 1
  /\ UNCHANGED <<config, nextSeq, pc, encrypted, leaked, relay, toClient,
                 fromClient, fromServer, cli, cliNext, rounds, srvUp>>

ServerSends(t, phase, next) ==
  /\ srvUp /\ fromServer = None
  /\ fromServer' = Pkt(t, srvNext)
  /\ srvNext' = next /\ srv' = phase
  /\ UNCHANGED <<config, nextSeq, pc, encrypted, leaked, relay, toClient,
                 toServer, fromClient, cli, cliNext, srvUp>>

ServerGreets ==
  srv = "greet" /\ ServerSends("greeting", "response", 1) /\ UNCHANGED rounds

ServerAuth ==
  /\ srv = "auth"
  /\ \/ ServerSends("ok", "idle", 0) /\ UNCHANGED rounds
     \/ ServerSends("err", "refused", 0) /\ UNCHANGED rounds
     \/ /\ rounds < MaxRounds /\ rounds' = rounds + 1
        /\ \/ \E t \in {"switch", "more"} : ServerSends(t, "wait", srvNext + 1)
           \/ ServerSends("fast", "auth", srvNext + 1)

ServerReplies ==
  /\ srv = "busy" /\ UNCHANGED rounds
  /\ \/ ServerSends("done", "idle", 0)
     \/ srvNext < MaxReply /\ ServerSends("reply", "busy", srvNext + 1)

ServerLeaves ==
  /\ srvUp /\ srvUp' = FALSE
  /\ UNCHANGED <<config, nextSeq, pc, encrypted, leaked, relay, wires, cli, srv,
                 cliNext, srvNext, rounds>>

-----------------------------------------------------------------------------
Proxy == Greet \/ Response \/ UpstreamTLS \/ Resend

ProxyInject ==
  \/ ServerGreeting \/ ClientTLS \/ SwitchToClear \/ ReadToken \/ Resolve \/ Login
  \/ OwnResponse \/ CompleteUpstreamAuth \/ UpstreamGone \/ Welcome

Goroutines == C2SRead \/ C2SWrite \/ S2CRead \/ S2CWrite \/ ProxyEnds

Skybridge == Proxy \/ ProxyInject \/ Goroutines

Client == ClientAnswers \/ ClientUnderTLS \/ ClientCommand
Server == ServerGreets \/ ServerReads \/ ServerAuth \/ ServerReplies

Next == Skybridge \/ Client \/ Server \/ ServerLeaves

Spec == Init /\ [][Next]_vars

\* Proxy and its goroutines run; an end answers a packet it has got.
Fairness ==
  /\ WF_vars(Skybridge)
  /\ WF_vars(ClientAnswers \/ ClientUnderTLS) /\ WF_vars(Server)

FairSpec == Spec /\ Fairness

-----------------------------------------------------------------------------
(* Properties *)

\* Every packet arrives under the sequence id its receiver expects: through
\* the inserted SSL request, the shifted authentication and the return to
\* unshifted commands ("before the write, so client->server commands that
\* follow use offset 0", mysql.go), and in the two logins the agent conducts
\* itself (auth.go).
SeqAligned ==
  /\ TypeOK
  /\ toClient # None => toClient.seq = cliNext
  /\ toServer # None => toServer.seq = srvNext

\* Where upstream TLS is required no credentials are sent to the server in
\* the clear, whatever the server offers.
RequiredMeansTLS ==
  mode = "require" /\ srv \in {"auth", "wait", "idle", "busy"} =>
    (encrypted \/ (cliSSL /\ ~inject)) /\ ~leaked

\* A client is let in only by a server that has accepted the login, the
\* client's own or the one ProxyInject makes for it.
LetInByServer == cli \in {"idle", "busy"} => srv \in {"idle", "busy"}

\* "Returning an error fails the login (the engine reports a clean
\* authentication failure to the client)" (wire.go): a client that gave its
\* token is told the outcome before its connection is closed.
OutcomeTold ==
  inject /\ pc = "failed" /\ nextSeq # 0 => toClient # None \/ cli # "auth"

\* The client learns how its authentication ended, or the connection is given
\* up; except that ClientTLS may wait for a ClientHello already read.
AuthConcludes == <>(cli \in {"idle", "refused"} \/ pc \in {"failed", "lost"})

-----------------------------------------------------------------------------
(* The inductive invariant *)

One(p) == IF p = None THEN 0 ELSE 1
Downward == One(toClient) + One(s2c) + One(fromServer)
Upward == fromClient # None \/ c2s # None \/ toServer # None

Asks(p) == p.t \in {"greeting", "clear", "switch", "more"}   \* the receiver answers
Streams(p) == p.t \in {"fast", "reply"}                      \* and more follows
ServerListens == srv \in {"response", "tls", "wait", "idle"}
LoggedIn == srv \in {"idle", "busy"}

\* The server numbers by its phase, and what it sent last says which that is.
ServerInv ==
  /\ toServer # None =>
       toServer.seq = srvNext /\ ServerListens /\ fromServer = None
  /\ srv \in {"greet", "idle", "refused"} => srvNext = 0
  /\ srv = "response" => srvNext = 1
  /\ srv = "tls" => srvNext = 2
  /\ srv = "auth" => srvNext <= 3 + 2 * rounds
  /\ srv = "wait" => srvNext <= 2 + 2 * rounds
  /\ srv = "busy" => srvNext <= MaxReply
  /\ fromServer.t \in {"none", "greeting", "switch", "more", "fast", "reply",
                       "ok", "done", "err"}
  /\ fromServer.t = "greeting" => srv = "response"
  /\ fromServer.t \in {"switch", "more"} => srv = "wait"
  /\ fromServer.t = "fast" => srv = "auth"
  /\ fromServer.t = "reply" => srv = "busy"
  /\ fromServer.t \in {"ok", "done"} => srv = "idle"
  /\ fromServer.t = "err" => srv = "refused"
  /\ Asks(fromServer) \/ Streams(fromServer) => fromServer.seq + 1 = srvNext

\* The client numbers without gaps, and there is room for its answer.
ClientInv ==
  /\ toClient # None => fromClient = None /\ toClient.seq = cliNext
  /\ fromClient # None => fromClient.seq + 1 = cliNext
  /\ cli = "greet" => cliNext = 0 /\ toClient.t \in {"none", "greeting"}
  /\ cli \in {"idle", "refused"} => cliNext = 0 /\ toClient = None
  /\ \A p \in {s2c, toClient} :
       /\ Asks(p) \/ p.t = "fast" => p.seq <= 3 + 2 * rounds
       /\ p.t = "reply" => p.seq < MaxReply

ClientWaits == toClient = None /\ fromClient = None /\ cli = "auth"
ServerUntouched == toServer = None /\ srv \in {"greet", "response"}

\* The client's first packets.
FirstPacket ==
  /\ toClient # None => toClient.t = "greeting" /\ cli = "greet"
  /\ fromClient # None =>
       /\ fromClient.seq = 1 /\ fromClient.t \in {"ssl", "response"}
       /\ cli = IF fromClient.t = "ssl" THEN "tls" ELSE "auth"

\* Before the goroutines start nothing is shifted, and the two logins that
\* ProxyInject conducts do not touch each other.
SetupInv ==
  /\ pc \notin {"relay", "pass", "failed"} =>
       /\ c2s = None /\ s2c = None /\ offset = 0
       /\ cli \in {"greet", "tls", "auth"}
  /\ pc = "greet" =>
       ServerUntouched /\ toClient = None /\ fromClient = None /\ cli = "greet"
  /\ pc = "response" =>
       ~inject /\ FirstPacket /\ toServer = None /\ fromServer = None /\ srv = "response"
  /\ pc \in {"terminate", "secured", "token", "resolve", "login", "auth", "welcome"} =>
       inject
  /\ pc \in {"terminate", "secured", "token", "resolve", "login"} => ServerUntouched
  /\ pc = "terminate" => FirstPacket
  /\ pc = "secured" =>
       /\ toClient = None
       /\ cli = "tls" => fromClient = None /\ cliNext = 2
       /\ fromClient # None => fromClient.seq = 2 /\ fromClient.t = "response" /\ cli = "auth"
  /\ pc = "token" =>
       /\ toClient # None => toClient.t = "clear" /\ cliNext <= 3
       /\ fromClient # None => fromClient.t = "token" /\ cliNext <= 5
       /\ cli = "auth"
  /\ pc \in {"resolve", "login", "tls", "resend", "auth", "welcome"} =>
       ClientWaits /\ cliNext = IF inject THEN nextSeq ELSE 2
  /\ pc \in {"tls", "resend", "welcome"} => fromServer = None
  /\ pc \in {"greet", "response", "terminate", "secured", "token", "resolve",
             "login", "tls"} => ~encrypted
  /\ pc = "tls" =>
       /\ srv = IF toServer = None THEN "tls" ELSE "response"
       /\ toServer.t \in {"none", "ssl"}
  /\ pc = "resend" =>
       /\ toServer = None /\ srv = IF encrypted THEN "tls" ELSE "response"
       /\ inject \/ encrypted
  /\ pc = "welcome" => toServer = None /\ srv = "idle"
  /\ pc = "lost" => toClient = None /\ fromClient = None

\* With the goroutines running one side talks at a time; what is under way
\* towards the client is numbered without gaps, shifted by the offset until the
\* result of the authentication is read; only the last of it is not streamed.
RelayInv ==
  Relaying =>
    /\ srv # "greet" /\ cli # "greet" /\ fromServer.t # "greeting"
    /\ fromClient # None => c2s = None /\ toServer = None
    /\ c2s # None => toServer = None /\ c2s.seq + 1 = cliNext
    /\ Upward =>
         /\ toClient = None /\ s2c = None /\ fromServer = None
         /\ ServerListens /\ cli \in {"tls", "auth", "busy"}
         /\ srvNext + 1 = cliNext + offset
    /\ ~Upward /\ srv \in {"auth", "wait", "busy"} =>
         srvNext = cliNext + Downward + offset
    /\ s2c # None => s2c.seq = cliNext + One(toClient)
    /\ fromServer # None =>
         fromServer.seq = cliNext + One(toClient) + One(s2c) + offset
    /\ s2c # None \/ fromServer # None => toClient = None \/ Streams(toClient)
    /\ fromServer # None => s2c = None \/ Streams(s2c)
    /\ \A p \in {s2c, toClient} :
         /\ p.t \in {"none", "switch", "more", "fast", "reply", "ok", "done", "err"}
         /\ p.t \in {"switch", "more"} => srv = "wait"
         /\ p.t \in {"ok", "done"} => srv = "idle"
         /\ p.t = "err" => srv = "refused"
    /\ offset = 1 => srv \in {"tls", "auth", "wait"} \/ AuthResult(fromServer)
    /\ cli \in {"idle", "refused"} => Downward = 0 /\ srv = cli
    /\ cli = "tls" =>
         /\ pc = "pass" /\ cliNext = 2 /\ Downward = 0 /\ offset = 0
         /\ fromClient = None /\ c2s = None /\ toServer.t \in {"none", "ssl"}
         /\ srv = "response" \/ (srv = "tls" /\ ~Upward)

\* What clientToServer still holds when the session ends fits the server.
FailedInv ==
  pc = "failed" =>
    /\ s2c = None
    /\ c2s # None =>
         /\ toServer = None /\ fromServer = None /\ ~srvUp
         /\ ServerListens /\ c2s.seq + offset = srvNext

\* The news that lets a client in comes from a server that has.
LetInInv ==
  /\ \A p \in {fromServer, s2c, toClient} : p.t \in {"ok", "done"} => LoggedIn
  /\ pc = "welcome" \/ (inject /\ pc = "relay") => LoggedIn
  /\ LetInByServer

\* Credentials that must go under TLS do.
TLSInv ==
  /\ fromClient.t = "ssl" => cliSSL
  /\ pc = "pass" => cliSSL /\ ~inject
  /\ pc = "response" => ~inject
  /\ mode = "require" =>
       /\ ~leaked
       /\ pc \in {"resend", "auth", "welcome", "relay"} => encrypted
       /\ \/ toServer.t = "response" \/ c2s # None
          \/ srv \in {"auth", "wait", "idle", "busy"}
          => encrypted \/ (cliSSL /\ ~inject)

\* A client that gave its token has been answered when the session ends.
OutcomeInv ==
  /\ nextSeq # 0 => pc \notin {"greet", "terminate", "secured", "token", "lost"}
  /\ inject /\ pc \in {"relay", "failed"} /\ nextSeq # 0 =>
       /\ cli = "auth" => toClient.t \in {"ok", "err"}
       /\ \A p \in {s2c, toClient} : ~Asks(p)
  /\ inject /\ pc \in {"relay", "welcome"} => ~Asks(fromServer)

IInv ==
  /\ TypeOK /\ ServerInv /\ ClientInv /\ SetupInv /\ RelayInv /\ FailedInv
  /\ LetInInv /\ TLSInv /\ OutcomeInv
=============================================================================
