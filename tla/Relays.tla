------------------------------- MODULE Relays -------------------------------
(***************************************************************************)
(* A session of an SQL target after its login, served by the engine of the  *)
(* target's database type (agent.engineFactory): PostgresRelay or           *)
(* MySQLRelay.  The engine is chosen when the session starts and runs       *)
(* alone, so the two share the variables they have in common; those of the  *)
(* other engine keep the value they are given here.                         *)
(***************************************************************************)
EXTENDS MySQLRelay

CONSTANTS Statements, NoStatement, Modulus

VARIABLES
  engine,      \* the database type
  prepares, cli, described, sent, begun, net, br, part, got, row,
  ended                                          \* PostgresRelay's own

Postgres == INSTANCE PostgresRelay
ASSUME RelaysAssumption == MySQLAssumption /\ Postgres!RelayAssumption

postgresOwn == <<prepares, described, begun, br, part, row, ended>>
mysqlOwn == <<dep, waiting, owes, cmd, queries, toServer, nextSet, odd, fromServer,
              at, left, seen>>
sqlVars == <<engine, vars, postgresOwn, cli, sent, net, got>>

NotPostgres ==
  /\ prepares = FALSE /\ described = {} /\ begun = FALSE /\ br = <<>> /\ part = FALSE
  /\ ended = FALSE
  /\ row = [s |-> NoStatement, with |-> NoStatement]
NotMySQL ==
  /\ dep = FALSE /\ waiting = FALSE /\ owes = FALSE /\ cmd = "none" /\ queries = 0
  /\ toServer = "none" /\ nextSet = 1 /\ odd = {} /\ fromServer = <<>> /\ at = "top"
  /\ left = 0 /\ seen = Unseen

SQLInit ==
  \/ engine = "postgres" /\ Postgres!Init /\ NotMySQL /\ c2s = "none"
  \/ engine = "mysql" /\ Init /\ NotPostgres
     /\ cli = "ready" /\ sent = 0 /\ net = <<>> /\ got = 0

PostgresAlone == engine = "postgres" /\ UNCHANGED <<engine, mysqlOwn, c2s>>
MySQLAlone == engine = "mysql" /\ UNCHANGED <<engine, postgresOwn, cli, sent, net, got>>

SQLNext == (PostgresAlone /\ Postgres!Next) \/ (MySQLAlone /\ Next)

SQLSpec == SQLInit /\ [][SQLNext]_sqlVars
-----------------------------------------------------------------------------
\* A row goes to the masker with the columns of its own result: the rows a
\* Postgres client has described (pipeBackendReader), and every text row of a
\* MySQL response that serverToClient follows.  And "unparsed traffic is
\* forwarded, never corrupted" (mysql.go): nothing else goes through it.
RowsOwnColumns ==
  /\ engine = "postgres" => Postgres!OwnColumns
  /\ engine = "mysql" => RowsMasked /\ OnlyRowsRewritten

\* Between commands the two MySQL goroutines agree (mysql.go, state.queries).
MySQLAligned == engine = "mysql" => AlignedWhenIdle

\* A server's last words reach a client that stayed before the relay ends, in
\* order and without gap, through pipeBackendReader's two buffers and from the
\* writer that MySQL's serverToClient flushes: also an ERR that was taken
\* for a row.  They may be lost only when the other direction returned first,
\* as Proxy then closes both ends, or before a Postgres message of no length.
LastWordsReachClient ==
  /\ engine = "postgres" => Postgres!InOrder
  /\ engine = "mysql" => LastWordsDelivered
-----------------------------------------------------------------------------
\* The inductive invariant: that of the engine that serves the session.
RelaysInv ==
  /\ engine = "postgres" => Postgres!IInv
  /\ engine = "mysql" => IInv
=============================================================================
