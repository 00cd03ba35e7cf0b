------------------------------- MODULE MCLogins -------------------------------
(***************************************************************************)
(* The login of a session as the agent conducts it, Logins, or what the     *)
(* gateway sees of it, Sniffer.  Each runs alone; the variables of the       *)
(* others keep the value they are given here.                               *)
(***************************************************************************)
EXTENDS Logins

CONSTANTS SniffCap

VARIABLES stream, fed, buf, done, user     \* Sniffer's own
------------------------------------------------------------------------------
(* What clients send before they are let in: negotiation frames, a login that *)
(* fits in SniffCap or not, a ClientHello, a cancel request.                  *)
Frame(kind, len, parts) == [kind |-> kind, len |-> len, parts |-> parts]
Negotiation == Frame("negotiation", 8, <<>>)
PostgresFirst ==
  {Frame("startup", n, parts) : n \in {20, SniffCap - 8, SniffCap},
     parts \in {<<"user", "ann", "database", "user">>, <<"database", "user", "user", "ann">>,
                <<"user">>}}
  \union {Frame("cancel", 16, <<>>), Frame("hello", SniffCap + 1, <<>>), Frame("short", 7, <<>>)}
MySQLFirst ==
  {Frame(kind, n, <<"ann">>) : kind \in {"login41", "login320"}, n \in {37, SniffCap, SniffCap + 4}}
  \union {Frame("ssl", 36, <<>>)}
Streams ==
  [dbType : {"postgres"}, frames : {<<f, Frame("rest", 9, <<>>)>> : f \in PostgresFirst}
     \union {<<Negotiation, f>> : f \in PostgresFirst}
     \union {<<Negotiation, Negotiation, f>> : f \in PostgresFirst} \union {<<Negotiation>>}]
  \union [dbType : {"mysql"}, frames : {<<f, Frame("rest", 9, <<>>)>> : f \in MySQLFirst}]
  \union [dbType : {"mongodb"}, frames : {<<Frame("opmsg", 30, <<>>)>>}]

Gateway == INSTANCE Sniffer
------------------------------------------------------------------------------
snifferOwn == <<stream, fed, buf, done, user>>
allVars == <<engineVars, snifferOwn>>

NotSniffer == stream = <<>> /\ fed = 0 /\ buf = 0 /\ done = FALSE /\ user = ""
NotShared ==
  /\ inject = FALSE /\ mode = "none" /\ srvSSL = FALSE /\ clientTLS = FALSE
  /\ pc = "none" /\ cli = "none" /\ fromClient = <<>> /\ toServer = <<>> /\ srv = "none"

LoginInit ==
  \/ EngineInit /\ NotSniffer
  \/ part = "sniffer" /\ Gateway!Init /\ NotShared /\ NotPostgres /\ NotMySQL

LoginNext ==
  \/ EngineNext /\ UNCHANGED snifferOwn
  \/ part = "sniffer" /\ Gateway!Next /\ UNCHANGED engineVars

\* Each engine's fairness, as its module states it; as only one runs, a
\* condition of each can share a conjunct.
LoginSpec ==
  /\ LoginInit /\ [][LoginNext]_allVars
  /\ WF_allVars(/\ (PostgresAlone /\ Agent) \/ (MySQLAlone /\ MySQL!Skybridge)
                /\ UNCHANGED snifferOwn)
  /\ WF_allVars(/\ \/ PostgresAlone /\ Client
                   \/ MySQLAlone /\ (MySQL!ClientAnswers \/ MySQL!ClientUnderTLS)
                /\ UNCHANGED snifferOwn)
  /\ WF_allVars(/\ (PostgresAlone /\ ServerReads) \/ (MySQLAlone /\ MySQL!Server)
                /\ UNCHANGED snifferOwn)
------------------------------------------------------------------------------
\* loginUserSniffer finds the login of every client whose login packet ends
\* within sniffCap, however its bytes are cut into chunks, and never another
\* name (dbuser.go).
LoginAttributed == part = "sniffer" => Gateway!LoginAttributed

\* Every login comes to an end, with a result for the client or with a closed
\* connection; except a MySQL one whose ClientHello was read together with its
\* SSL request, which ClientTLS (auth.go) waits for in vain: pc = "lost".
LoginsConclude ==
  <>CASE part = "postgres" -> told # "nothing" \/ pc = "closed"
      [] part = "mysql" -> cli \in {"idle", "refused"} \/ pc \in {"failed", "lost"}
      [] part = "sniffer" -> TRUE
===============================================================================
