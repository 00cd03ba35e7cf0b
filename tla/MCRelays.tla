------------------------------ MODULE MCRelays ------------------------------
(***************************************************************************)
(* A session after its login, served by the engine of its target's          *)
(* database type (agent.engineFactory): one of Relays, or MongoRelay, which *)
(* shares variables with them in the same way.                              *)
(***************************************************************************)
EXTENDS Relays, TLC

CONSTANTS MaxMessages

VARIABLES s2c, msg, main   \* MongoRelay's own
------------------------------------------------------------------------------
(* What a MongoDB server may send. *)
Str(n, s) == [t |-> "str", n |-> n, v |-> [len |-> IF s = "" THEN 0 ELSE 3, s |-> s]]
Num(n) == [t |-> "int", n |-> n, v |-> [int |-> 7]]
Odd(n) == [t |-> "bad", n |-> n, v |-> [len |-> 1]]
MongoWidth == [s \in {"", "me", "token"} |-> IF s = "token" THEN 5 ELSE 2]

B == INSTANCE BSON WITH Ruled <- {"email"}, Token <- "token", Width <- MongoWidth

Doc(es) == [len |-> B!DocLen(es), es |-> es]
Sub(t, n, es) == [t |-> t, n |-> n, v |-> Doc(es)]

\* A document that declares one byte more than it has.
Torn(n, es) == [t |-> "doc", n |-> n, v |-> [Doc(es) EXCEPT !.len = @ + 1]]

\* The fields of a result: ruled or not, nested, in an array, unreadable.
ResultFields ==
  {<<Str("email", "me"), Num("n")>>, <<Str("name", "me")>>, <<Str("email", "")>>,
   <<Sub("doc", "in", <<Str("email", "me")>>)>>,
   <<Sub("array", "email", <<Str("0", "me"), Sub("doc", "1", <<Str("email", "me")>>)>>)>>,
   <<Str("email", "me"), Odd("n")>>, <<Str("email", "me"), Torn("in", <<>>)>>}

Body(es) == [kind |-> 0, doc |-> Doc(es)]
Reply(b, es) ==
  Body(<<Sub("doc", "cursor", <<Sub("array", b, <<Sub("doc", "0", es)>>), Str("email", "me")>>),
         Str("email", "me")>>)
Documents(es) == [kind |-> 1, len |-> B!SeqLen(<<Doc(es)>>), docs |-> <<Doc(es)>>]

Sections ==
  {<<Reply("firstBatch", es)>> : es \in ResultFields}
  \union {<<Reply("nextBatch", <<Str("email", "me")>>), Documents(es)>> : es \in ResultFields}
  \union {<<Reply("other", <<Str("email", "me")>>)>>,
          <<Body(<<Sub("doc", "config", <<Sub("array", "firstBatch", <<Str("email", "me")>>)>>)>>)>>,
          <<Reply("firstBatch", <<Str("email", "me")>>), [kind |-> 2, len |-> 1]>>}

OpMsg(secs, sum) ==
  LET m == [len |-> 0, op |-> "msg", sum |-> sum, secs |-> secs]
  IN [m EXCEPT !.len = B!MessageLen(m)]

MongoMessages ==
  {OpMsg(secs, Len(secs) = 2) : secs \in Sections}
  \union {[OpMsg(<<Reply("firstBatch", <<Str("email", "me")>>)>>, FALSE) EXCEPT !.op = "compressed"],
          [len |-> 0, op |-> "msg", sum |-> FALSE, secs |-> <<>>]}

Mongo == INSTANCE MongoRelay WITH ServerMessages <- MongoMessages, Ruled <- {"email"},
                                  Token <- "token", Width <- MongoWidth
------------------------------------------------------------------------------
mongoOwn == <<s2c, msg, main>>
allVars == <<sqlVars, mongoOwn>>

NotMongo == s2c = "read" /\ msg = <<>> /\ main = "wait"

RelayInit ==
  \/ SQLInit /\ NotMongo
  \/ engine = "mongodb" /\ Mongo!Init /\ NotPostgres /\ NotMySQL
     /\ srvUp = TRUE /\ cols = NoStatement /\ bw = <<>> /\ copying = TRUE

MongoAlone ==
  /\ engine = "mongodb"
  /\ UNCHANGED <<engine, postgresOwn, mysqlOwn, srvUp, cols, bw, copying>>

RelayNext ==
  \/ PostgresAlone /\ Postgres!Next /\ UNCHANGED mongoOwn
  \/ MySQLAlone /\ Next /\ UNCHANGED mongoOwn
  \/ MongoAlone /\ Mongo!Next

\* Each engine's fairness, as its module states it; as only one engine runs, a
\* condition of each can share a conjunct.
RelaySpec ==
  /\ RelayInit /\ [][RelayNext]_allVars
  /\ WF_allVars(\/ PostgresAlone /\ Postgres!Relay /\ UNCHANGED mongoOwn
                \/ MySQLAlone /\ S2C /\ UNCHANGED mongoOwn)
  /\ WF_s2c(engine = "mongodb" /\ Mongo!MaskServerMoves)
  /\ WF_allVars(\/ MySQLAlone /\ ServerStep /\ UNCHANGED mongoOwn
                \/ MongoAlone /\ Mongo!Proxy)
  /\ WF_allVars(\/ PostgresAlone /\ Closed /\ Postgres!CopyEnd /\ UNCHANGED mongoOwn
                \/ MySQLAlone /\ C2S /\ UNCHANGED mongoOwn
                \/ MongoAlone /\ Mongo!MustCopyEnd)
  /\ WF_allVars(MySQLAlone /\ SendFile /\ UNCHANGED mongoOwn)
------------------------------------------------------------------------------
\* transformMessage of the MongoDB engine rewrites nothing but result values,
\* leaves what it rewrites well framed and no message half masked; and what
\* the server sent reaches the client as it was masked, in order, to the last
\* message that arrived.
MongoFaithful == engine = "mongodb" => Mongo!MongoRewrites /\ Mongo!MongoLastWords

\* What a server sent reaches the client even if the server sends no more:
\* Postgres messages, unless it stalls within the next one, and the response to
\* a MySQL command, until one the engine does not follow; and Proxy of each
\* engine returns once an end has closed.
AnswersDelivered ==
  /\ []<><<sent' # sent>>_sent
     \/ []<>(engine # "postgres" \/ got = sent \/ Postgres!Stalled \/ ended)
  /\ (engine = "mysql" /\ waiting)
       ~> (~waiting \/ at = "ended" \/ ~(odd \subseteq {"okmore", "long"}))
  /\ (engine # "mongodb" /\ ~srvUp)
       ~> IF engine = "postgres" THEN Postgres!Returned ELSE Returned
  /\ (engine = "mongodb" /\ (srv = "closed" \/ cli = "closed")) ~> main = "returned"
==============================================================================
