-------------------------------- MODULE Logins --------------------------------
(***************************************************************************)
(* The login of a session in the agent, by the engine of its target's       *)
(* database type: PostgresLogin or MySQLHandshake.  One of them runs, so    *)
(* they share the variables they have in common; those of the other keep    *)
(* the value they are given here.                                           *)
(***************************************************************************)
EXTENDS PostgresLogin

CONSTANTS Modes, MaxRounds, MaxReply

VARIABLES
  part,        \* "postgres" or "mysql"
  cliSSL, p41, nextSeq, offset, encrypted, leaked, c2s, s2c, toClient, fromServer,
  cliNext, srvNext, rounds, srvUp      \* MySQLHandshake's own

MySQL == INSTANCE MySQLHandshake
ASSUME MySQLAssumption == MySQL!HandshakeAssumption

postgresOwn == <<method, asks, upTLS, told, accepted, net, ur, got>>
shared == <<inject, mode, srvSSL, clientTLS, pc, cli, fromClient, toServer, srv>>
mysqlOwn == <<cliSSL, p41, nextSeq, offset, encrypted, leaked, c2s, s2c, toClient,
              fromServer, cliNext, srvNext, rounds, srvUp>>
engineVars == <<part, postgresOwn, shared, mysqlOwn>>

NotPostgres ==
  /\ method = "trust" /\ asks = <<>> /\ upTLS = FALSE /\ told = "nothing"
  /\ accepted = FALSE /\ net = <<>> /\ ur = <<>> /\ got = <<>>
NotMySQL ==
  /\ cliSSL = FALSE /\ p41 = FALSE /\ nextSeq = 0 /\ offset = 0 /\ encrypted = FALSE
  /\ leaked = FALSE /\ c2s = MySQL!None /\ s2c = MySQL!None /\ toClient = MySQL!None
  /\ fromServer = MySQL!None /\ cliNext = 0 /\ srvNext = 0 /\ rounds = 0 /\ srvUp = TRUE

EngineInit ==
  \/ part = "postgres" /\ Init /\ NotMySQL
  \/ part = "mysql" /\ MySQL!Init /\ NotPostgres

PostgresAlone == part = "postgres" /\ UNCHANGED <<part, mysqlOwn>>
MySQLAlone == part = "mysql" /\ UNCHANGED <<part, postgresOwn>>

EngineNext == (PostgresAlone /\ Next) \/ (MySQLAlone /\ MySQL!Next)

EngineSpec == EngineInit /\ [][EngineNext]_engineVars
-------------------------------------------------------------------------------
\* "the agent answers AuthenticationOk only after upstream auth succeeds"
\* (postgres/auth.go), and mysql/auth.go alike: with either engine, relayed or
\* injected, no client is let in that the server has not accepted.
LetInByServer ==
  /\ part = "postgres" => WelcomeAfterUpstream
  /\ part = "mysql" => MySQL!LetInByServer

\* Every MySQL packet arrives under the sequence id its receiver expects,
\* through the inserted SSL request, the shifted authentication and the return
\* to unshifted commands.
SeqAligned == part = "mysql" => MySQL!SeqAligned

\* Where upstream TLS is required no MySQL credentials go upstream in the
\* clear, whatever the server offers.
RequiredMeansTLS == part = "mysql" => MySQL!RequiredMeansTLS

\* Across the handover from the injected Postgres login to the relay no message
\* of either stream is lost or passed on twice: what the server sent after
\* AuthenticationOk reaches the client, and the client's StartupMessage and
\* token, read from the stream that is then copied upstream, stay in the agent.
HandoverExact == part = "postgres" => HandoverInOrder /\ TokenStays

\* "Returning an error fails the login (the engine reports a clean
\* authentication failure to the client)" (wire.go): a client that gave its
\* token and stays is told the outcome before the connection is closed.
OutcomeReported ==
  /\ part = "postgres" => OutcomeTold
  /\ part = "mysql" => MySQL!OutcomeTold

\* The inductive invariant: that of the engine that runs.
EngineInv == (part = "postgres" => IInv) /\ (part = "mysql" => MySQL!IInv)
===============================================================================
