---------------------------- MODULE PostgresLogin ----------------------------
(***************************************************************************)
(* How a Postgres session is set up (internal/wire/postgres, and           *)
(* startUpstreamTLS of internal/agent): TLS to the upstream, the client's  *)
(* SSL and GSS requests, and then one of two paths.  Proxy relays the      *)
(* login as it is.  ProxyInject ends it in the agent: it asks the client   *)
(* for a session token, resolves it to a credential, logs in upstream by   *)
(* itself, and hands over to the relay in the middle of the two byte       *)
(* streams it has been reading from.                                       *)
(*                                                                         *)
(* Messages are abstracted to their meaning.                               *)
(***************************************************************************)
EXTENDS Naturals, Sequences

CONSTANTS UpstreamModes,  \* "none", "prefer", "require"
          Methods         \* how the server authenticates

ASSUME LoginAssumption ==
  /\ UpstreamModes \subseteq {"none", "prefer", "require"}
  /\ Methods \subseteq {"trust", "password", "scram"}

VARIABLES
  inject,    \* a resolver is configured
  mode,      \* upstream TLS mode
  srvSSL,    \* the server takes TLS
  method,    \* its authentication method
  clientTLS, \* the engine has a certificate for clients
  asks,      \* what the client is still to send before its login
  pc,        \* where the agent is
  upTLS,     \* the upstream connection is under TLS
  cli,       \* what the client does next or waits for
  told,      \* how its login ended, as it was told
  fromClient,  \* what it has sent and the agent has not read
  toServer,    \* what the agent has sent upstream and the server not read
  srv,       \* the server's phase
  accepted,  \* it has accepted the login
  net, ur,   \* its messages: on the way, and in the agent's bufio.Reader
  got        \* post-login messages the client has had

vars == <<inject, mode, srvSSL, method, clientTLS, asks, pc, upTLS, cli, told,
          fromClient, toServer, srv, accepted, net, ur, got>>
config == <<inject, mode, srvSSL, method, clientTLS>>
serverVars == <<srv, accepted>>

Frames == {"ssl", "gss"}
\* What the server sends after AuthenticationOk.
LoginTail == <<"parameters", "keydata", "ready">>
Tails == {"parameters", "keydata", "ready"}
Backend == {"ask", "sasl", "continue", "final", "mismatch", "ok", "err"} \cup Tails
Secret == IF inject THEN "token" ELSE "password"

TypeOK ==
  /\ inject \in BOOLEAN /\ mode \in UpstreamModes /\ srvSSL \in BOOLEAN
  /\ method \in Methods /\ clientTLS \in BOOLEAN
  /\ asks \in Seq(Frames \cup {"startup", "cancel"})
  /\ pc \in {"dial", "nego", "startup", "token", "resolve", "login", "auth",
             "scram", "signature", "welcome", "relay", "closed"}
  /\ upTLS \in BOOLEAN
  /\ cli \in {"next", "reply", "asked", "login", "cancel", "in", "out"}
  /\ told \in {"nothing", "ok", "denied"}
  /\ fromClient \in Seq(Frames \cup {"startup", "cancel", "token", "password"})
  /\ toServer \in Seq({"startup", "cancel", "password", "own_startup"})
  /\ srv \in {"new", "auth", "sasl", "proof", "in", "out"} /\ accepted \in BOOLEAN
  /\ net \in Seq(Backend) /\ ur \in Seq(Backend) /\ got \in Seq(Tails)

Init ==
  /\ inject \in BOOLEAN /\ mode \in UpstreamModes /\ srvSSL \in BOOLEAN
  /\ method \in Methods /\ clientTLS \in BOOLEAN
  /\ asks \in {<<"startup">>, <<"ssl", "startup">>, <<"gss", "ssl", "startup">>,
               <<"cancel">>}
  /\ pc = "dial" /\ upTLS = FALSE
  /\ cli = "next" /\ told = "nothing" /\ fromClient = <<>> /\ toServer = <<>>
  /\ srv = "new" /\ accepted = FALSE /\ net = <<>> /\ ur = <<>> /\ got = <<>>

-----------------------------------------------------------------------------
(* The client *)

ClientNext ==
  /\ cli = "next"
  /\ fromClient' = Append(fromClient, Head(asks)) /\ asks' = Tail(asks)
  /\ cli' = IF Head(asks) \in Frames THEN "reply"
            ELSE IF Head(asks) = "startup" THEN "login" ELSE "cancel"
  /\ UNCHANGED <<config, pc, upTLS, told, toServer, serverVars, net, ur, got>>

ClientAnswers ==
  /\ cli = "asked"
  /\ fromClient' = Append(fromClient, Secret) /\ cli' = "login"
  /\ UNCHANGED <<config, asks, pc, upTLS, told, toServer, serverVars, net, ur, got>>

ClientLeaves ==
  /\ cli # "out"
  /\ cli' = "out"
  /\ UNCHANGED <<config, asks, pc, upTLS, told, fromClient, toServer, serverVars, net,
                 ur, got>>

-----------------------------------------------------------------------------
(* The server *)

Sends(ms, phase) == net' = net \o ms /\ srv' = phase

Accepts(before) ==
  /\ Sends(before \o <<"ok">> \o LoginTail, "in")
  /\ accepted' = TRUE

ServerReads ==
  /\ toServer # <<>> /\ srv \notin {"in", "out"}
  /\ toServer' = Tail(toServer)
  /\ \/ /\ srv = "new" /\ Head(toServer) = "cancel"
        /\ Sends(<<>>, "out") /\ UNCHANGED accepted
     \/ /\ srv = "new" /\ Head(toServer) # "cancel"
        /\ \/ method = "trust" /\ Accepts(<<>>)
           \/ method = "password" /\ Sends(<<"ask">>, "auth") /\ UNCHANGED accepted
           \/ method = "scram" /\ Sends(<<"sasl">>, "sasl") /\ UNCHANGED accepted
     \/ /\ srv = "sasl"
        /\ Sends(<<"continue">>, "proof") /\ UNCHANGED accepted
     \/ srv = "auth" /\ Accepts(<<>>)
     \/ srv = "proof" /\ \E m \in {"final", "mismatch"} : Accepts(<<m>>)
     \/ /\ srv # "out"
        /\ Sends(<<"err">>, "out") /\ UNCHANGED accepted
  /\ UNCHANGED <<config, asks, pc, upTLS, cli, told, fromClient, ur, got>>

ServerLeaves ==
  /\ srv # "out"
  /\ srv' = "out"
  /\ UNCHANGED <<config, asks, pc, upTLS, cli, told, fromClient, toServer, accepted,
                 net, ur, got>>

-----------------------------------------------------------------------------
(* The agent *)

\* startUpstreamTLS: an SSLRequest, and TLS if the server says so.
Dial ==
  /\ pc = "dial"
  /\ \/ /\ mode = "none" \/ (mode = "prefer" /\ ~srvSSL)
        /\ pc' = "nego" /\ UNCHANGED upTLS
     \/ /\ mode # "none" /\ srvSSL
        /\ pc' = "nego" /\ upTLS' = TRUE
     \/ /\ mode = "require" \/ (mode = "prefer" /\ srvSSL)  \* the handshake may fail
        /\ pc' = "closed" /\ UNCHANGED upTLS
  /\ UNCHANGED <<config, asks, cli, told, fromClient, toServer, serverVars, net, ur,
                 got>>

Reads(phase, kinds) ==
  /\ pc = phase /\ fromClient # <<>> /\ Head(fromClient) \in kinds

SilentNegotiate ==
  /\ \/ /\ Reads("nego", Frames)
        /\ fromClient' = Tail(fromClient)
        /\ pc' = "nego"
        /\ cli' = IF cli = "reply" /\ Head(fromClient) = "ssl" THEN "next" ELSE cli
     \/ /\ Reads("nego", {"startup", "cancel"})
        /\ pc' = IF inject THEN "startup" ELSE "relay"
        /\ UNCHANGED <<cli, fromClient>>
  /\ UNCHANGED <<config, asks, upTLS, told, toServer, serverVars, net, ur, got>>

\* negotiateStartup: SSL is taken up or declined, GSS declined; the first
\* other frame is put back.
Negotiate ==
  /\ \/ /\ Reads("nego", Frames)
        /\ fromClient' = Tail(fromClient)
        /\ \/ pc' = "nego" /\ cli' = (IF cli = "reply" THEN "next" ELSE cli)
           \/ /\ Head(fromClient) = "ssl" /\ clientTLS  \* the handshake fails
              /\ pc' = "closed" /\ UNCHANGED cli
     \/ /\ Reads("nego", {"startup", "cancel"})
        /\ pc' = IF inject THEN "startup" ELSE "relay"
        /\ UNCHANGED <<cli, fromClient>>
  /\ UNCHANGED <<config, asks, upTLS, told, toServer, serverVars, net, ur, got>>

\* readStartupParams, and the request of requestClientPassword.
ReadStartup ==
  /\ \/ /\ Reads("startup", {"startup"})
        /\ pc' = "token" /\ cli' = IF cli = "login" THEN "asked" ELSE cli
     \/ /\ Reads("startup", {"cancel"})
        /\ pc' = "closed" /\ UNCHANGED cli
  /\ fromClient' = Tail(fromClient)
  /\ UNCHANGED <<config, asks, upTLS, told, toServer, serverVars, net, ur, got>>

PeekToken ==
  /\ Reads("token", {"token"})
  /\ pc' = "resolve"
  /\ UNCHANGED <<config, asks, upTLS, cli, told, fromClient, toServer, serverVars, net,
                 ur, got>>

\* requestClientPassword: the token is taken from the client's stream.
ReadToken ==
  /\ Reads("token", {"token"})
  /\ fromClient' = Tail(fromClient) /\ pc' = "resolve"
  /\ UNCHANGED <<config, asks, upTLS, cli, told, toServer, serverVars, net, ur, got>>

MuteDeny ==
  pc' = "closed" /\ UNCHANGED <<told, toServer>>

\* writeClientError, and the session is over.
Deny ==
  /\ pc' = "closed" /\ told' = IF cli = "out" THEN told ELSE "denied"
  /\ UNCHANGED toServer

\* resolve: the control plane gives a credential, or does not.
Resolve ==
  /\ pc = "resolve"
  /\ Deny \/ (pc' = "login" /\ UNCHANGED <<told, toServer>>)
  /\ UNCHANGED <<config, asks, upTLS, cli, fromClient, serverVars, net, ur, got>>

\* authenticateUpstream's own StartupMessage.
Login ==
  /\ pc = "login"
  /\ toServer' = Append(toServer, "own_startup") /\ pc' = "auth"
  /\ UNCHANGED <<config, asks, upTLS, cli, told, fromClient, serverVars, net, ur, got>>

\* bufio: the next read gets some of the messages on the way.
Fill ==
  /\ pc \in {"auth", "scram", "signature", "relay"} /\ ur = <<>> /\ net # <<>>
  /\ \E k \in 1..Len(net) :
       ur' = SubSeq(net, 1, k) /\ net' = SubSeq(net, k + 1, Len(net))
  /\ UNCHANGED <<config, asks, pc, upTLS, cli, told, fromClient, toServer, serverVars,
                 got>>

Answer(phase) ==
  pc' = phase /\ toServer' = Append(toServer, "password") /\ UNCHANGED told

EarlyAuthenticate ==
  /\ pc = "auth" /\ ur # <<>>
  /\ LET m == Head(ur) IN
       \/ m = "ok" /\ pc' = "welcome" /\ UNCHANGED <<told, toServer>>
       \/ m = "ask" /\ Answer("welcome")
       \/ m = "sasl" /\ Answer("scram")
       \/ m \notin {"ok", "ask", "sasl"} /\ Deny
  /\ ur' = Tail(ur)
  /\ UNCHANGED <<config, asks, upTLS, cli, fromClient, serverVars, net, got>>

\* The loop of authenticateUpstream.  A request may be malformed, or offer no
\* mechanism scramClientExchange has, and the answer may not get out.
Authenticate ==
  /\ pc = "auth" /\ ur # <<>>
  /\ LET m == Head(ur) IN
       \/ m = "ok" /\ pc' = "welcome" /\ UNCHANGED <<told, toServer>>
       \/ m = "ask" /\ Answer("auth")
       \/ m = "sasl" /\ Answer("scram")
       \/ m # "ok" /\ Deny
  /\ ur' = Tail(ur)
  /\ UNCHANGED <<config, asks, upTLS, cli, fromClient, serverVars, net, got>>

\* scramClientExchange: the proof answers the server's challenge, and its
\* signature is verified before the loop goes on.
ScramExchange ==
  /\ pc \in {"scram", "signature"} /\ ur # <<>>
  /\ LET m == Head(ur) IN
       \/ pc = "scram" /\ m = "continue" /\ Answer("signature")
       \/ /\ pc = "signature" /\ m = "final"
          /\ pc' = "auth" /\ UNCHANGED <<told, toServer>>
       \/ <<pc, m>> # <<"signature", "final">> /\ Deny  \* or a malformed challenge
  /\ ur' = Tail(ur)
  /\ UNCHANGED <<config, asks, upTLS, cli, fromClient, serverVars, net, got>>

\* The server has gone: readBackendMessage fails.
AuthFails ==
  /\ pc \in {"auth", "scram", "signature"}
  /\ srv = "out" /\ net = <<>> /\ ur = <<>>
  /\ Deny
  /\ UNCHANGED <<config, asks, upTLS, cli, fromClient, serverVars, net, ur, got>>

FreshReaderWelcome ==
  /\ pc = "welcome"
  /\ pc' = "relay" /\ ur' = <<>>
  /\ IF cli = "out" THEN UNCHANGED <<told, cli>> ELSE told' = "ok" /\ cli' = "in"
  /\ UNCHANGED <<config, asks, upTLS, fromClient, toServer, serverVars, net, got>>

\* sendClientAuthOK; the relay reads on from the reader the login used.
Welcome ==
  /\ pc = "welcome"
  /\ pc' = IF cli = "out" THEN "closed" ELSE "relay"
  /\ IF cli = "out" THEN UNCHANGED <<told, cli>> ELSE told' = "ok" /\ cli' = "in"
  /\ UNCHANGED <<config, asks, upTLS, fromClient, toServer, serverVars, net, ur, got>>

\* io.Copy towards the server.
RelayUp ==
  /\ pc = "relay" /\ fromClient # <<>>
  /\ toServer' = Append(toServer, Head(fromClient)) /\ fromClient' = Tail(fromClient)
  /\ UNCHANGED <<config, asks, pc, upTLS, cli, told, serverVars, net, ur, got>>

\* pipeBackendReader (see PostgresRelay), on the messages of a login.
RelayDown ==
  /\ pc = "relay" /\ ur # <<>> /\ cli # "out"
  /\ LET m == Head(ur) IN
       /\ got' = IF m \in Tails THEN Append(got, m) ELSE got
       /\ told' = IF m = "ok" THEN "ok" ELSE IF m = "err" THEN "denied" ELSE told
       /\ cli' = IF m = "ok" THEN "in"
                 ELSE IF m \in {"ask", "sasl", "continue"} THEN "asked" ELSE cli
  /\ ur' = Tail(ur)
  /\ UNCHANGED <<config, asks, pc, upTLS, fromClient, toServer, serverVars, net>>

\* A read or a write on a connection that is gone ends the session.
Close ==
  /\ \/ cli = "out" /\ fromClient = <<>> /\ pc \in {"nego", "startup", "token", "relay"}
     \/ cli = "out" /\ ur # <<>> /\ pc = "relay"
     \/ srv = "out" /\ net = <<>> /\ ur = <<>> /\ pc = "relay"
  /\ pc' = "closed"
  /\ UNCHANGED <<config, asks, upTLS, cli, told, fromClient, toServer, serverVars, net,
                 ur, got>>

-----------------------------------------------------------------------------
Agent ==
  \/ Dial \/ Negotiate \/ ReadStartup \/ ReadToken \/ Resolve \/ Login \/ Fill
  \/ Authenticate \/ ScramExchange \/ AuthFails \/ Welcome \/ RelayUp \/ RelayDown \/ Close
Client == ClientNext \/ ClientAnswers
Next == Agent \/ Client \/ ClientLeaves \/ ServerReads \/ ServerLeaves

Spec == Init /\ [][Next]_vars

\* The agent runs, and client and server go on with a login they are in.
FairSpec == Spec /\ WF_vars(Agent) /\ WF_vars(Client) /\ WF_vars(ServerReads)

-----------------------------------------------------------------------------
(* Properties *)

\* "the agent answers AuthenticationOk only after upstream auth succeeds"
\* (auth.go): no client is let in that the server has not accepted.
WelcomeAfterUpstream == told = "ok" => accepted

\* With injection the client's token and its StartupMessage, both read from
\* the stream that is later copied upstream, never reach the server.
TokenStays == inject => toServer \in Seq({"own_startup", "password"})

\* The handover loses nothing: the messages the client has had since its
\* AuthenticationOk, the ones the login left in the reader and the ones on
\* the way make up the server's whole sequence.
HandoverInOrder ==
  TypeOK /\ (accepted /\ told = "ok" => got \o ur \o net = LoginTail)

\* "Returning an error fails the login (the engine reports a clean
\* authentication failure to the client)" (wire.go): a client that gave its
\* token and stays is told the outcome before the connection is closed.
OutcomeTold ==
  inject /\ pc = "closed" /\ asks = <<>> /\ cli = "login" /\ fromClient = <<>> =>
    told # "nothing"

\* Every login comes to an end.
LoginConcludes == <>(told # "nothing" \/ pc = "closed")

-----------------------------------------------------------------------------
(* The inductive invariant *)

Pending == ur \o net
One(m) == <<m>>

Asked == {One("ask"), One("sasl"), One("continue")}
Granted == {<<"ok">> \o LoginTail} \cup
           {<<m>> \o (<<"ok">> \o LoginTail) : m \in {"final", "mismatch"}}

\* The messages of the login the client has had, and those it is still to get.
HandedOver ==
  /\ got \o Pending = LoginTail
  /\ Pending \in {LoginTail, Tail(LoginTail), Tail(Tail(LoginTail)), <<>>}

\* The server takes turns with whom it talks to until it accepts the login,
\* and sends all the rest at once.
StreamInv ==
  /\ accepted => srv \in {"in", "out"}
  /\ toServer # <<>> => Pending = <<>> /\ ~accepted
  /\ ~accepted =>
       /\ Pending \in Asked \cup {<<>>, One("err")} /\ got = <<>>
       /\ told # "ok" /\ pc # "welcome"
  /\ told = "ok" => HandedOver
  /\ pc = "welcome" => got = <<>> /\ Pending = LoginTail
  /\ accepted /\ told # "ok" /\ pc \notin {"welcome", "closed"} =>
       got = <<>> /\ Pending \in Granted

Openings == {<<"startup">>, <<"ssl", "startup">>, <<"gss", "ssl", "startup">>,
             <<"cancel">>, <<>>}

\* What the client has sent and is to send, by where the agent is.
ClientInv ==
  /\ asks \in Openings
  /\ cli \in {"next", "reply"} => asks # <<>>
  /\ pc \in {"dial", "nego"} =>
       /\ cli = "next" => fromClient = <<>>
       /\ cli = "reply" => fromClient \in {One("ssl"), One("gss")}
       /\ cli = "login" => fromClient = One("startup")
       /\ cli = "cancel" => fromClient = One("cancel")
       /\ cli = "out" =>
            fromClient \in {<<>>, One("ssl"), One("gss"), One("startup"), One("cancel")}
       /\ cli \notin {"asked", "in"}
  /\ pc = "startup" =>
       \/ fromClient = One("startup") /\ cli \in {"login", "out"}
       \/ fromClient = One("cancel") /\ cli \in {"cancel", "out"}
  /\ pc = "token" =>
       \/ fromClient = <<>> /\ cli \in {"asked", "out"}
       \/ fromClient = One("token") /\ cli \in {"login", "out"}
  /\ pc \in {"resolve", "login", "auth", "scram", "signature", "welcome"} =>
       fromClient = <<>> /\ cli \in {"login", "out"}

\* One message is under way at a time, and with injection the client's are
\* not among those the server gets.
AgentInv ==
  /\ pc \notin {"relay", "closed"} => told = "nothing"
  /\ pc \in {"dial", "nego", "startup", "token", "resolve", "login"} =>
       toServer = <<>> /\ Pending = <<>> /\ ~accepted
  /\ pc \notin {"dial", "nego", "relay", "closed"} => inject
  /\ inject => toServer \in {<<>>, One("own_startup"), One("password")}
  /\ ~inject => toServer \in {<<>>, One("startup"), One("cancel"), One("password")}
  /\ pc = "relay" /\ inject =>
       told = "ok" /\ cli \in {"in", "out"} /\ fromClient = <<>>
  /\ pc = "relay" /\ ~inject =>
       /\ fromClient \in {<<>>, One("startup"), One("cancel"), One("password")}
       /\ cli \notin {"next", "reply"}
       /\ cli = "asked" => fromClient = <<>>
       /\ cli = "asked" \/ fromClient # <<>> =>
            toServer = <<>> /\ Pending = <<>> /\ ~accepted

IInv == TypeOK /\ StreamInv /\ ClientInv /\ AgentInv /\ OutcomeTold
=============================================================================
