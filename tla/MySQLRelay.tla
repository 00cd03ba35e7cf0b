----------------------------- MODULE MySQLRelay -----------------------------
(***************************************************************************)
(* The command phase of the MySQL engine (internal/wire/mysql): the        *)
(* goroutine clientToServer forwards commands and flags each COM_QUERY;    *)
(* the goroutine serverToClient takes a flag with the first packet of a    *)
(* response, walks the result sets and masks their text rows.  The two     *)
(* share nothing but the channel of flags.  Proxy closes both ends when    *)
(* the first of them returns, which is modelled as one step: in between    *)
(* the other can only do what it could have done before.                   *)
(*                                                                         *)
(* A packet is abstracted to its type, to the result set it belongs to     *)
(* (all those of prepared statements, which are binary, count as one), to  *)
(* the column definitions that follow it and to whether it ends the        *)
(* response.  Of what sits in serverToClient's bufio.Writer only the       *)
(* packets that a client waits for are kept.                               *)
(***************************************************************************)
EXTENDS Naturals, Sequences

CONSTANTS MaxSets,  \* bound: result sets of one response
          MaxRows,  \* bound: rows of one result set
          MaxCols,  \* bound: columns of one result set
          NetCap,   \* bound: packets in flight from the server
          FlagCap   \* capacity of state.queries (64)

MySQLAssumption ==
  /\ MaxSets \in Nat \ {0} /\ MaxRows \in Nat /\ MaxCols \in Nat \ {0}
  /\ NetCap \in Nat \ {0} /\ FlagCap \in Nat \ {0}

\* COM_QUERY, one of 16 MiB or more, COM_STMT_EXECUTE, and those without rows.
Commands == {"query", "long", "stmt", "other"}
SetIds == {1, 2}  \* result sets, numbered in turn
BinarySet == 3    \* any result set of a prepared statement
NoSet == 0
Sets == SetIds \cup {BinarySet, NoSet}

Packet == [t : {"ok", "err", "infile", "cols", "def", "eof", "row", "end"},
           set : Sets, n : 0..MaxCols, more : BOOLEAN,
           full : BOOLEAN, last : BOOLEAN]

VARIABLES
  dep,       \* CLIENT_DEPRECATE_EOF was negotiated
  \* the client
  waiting,   \* it has sent a command and not seen the response's end
  owes,      \* it has been asked for a file
  cmd,       \* what it has sent and clientToServer has not read
  \* clientToServer
  c2s,       \* the packet it has read and not written, "none" otherwise
  queries,   \* flags in state.queries
  copying,   \* it has not returned
  \* the server
  toServer,
  srv,       \* where its response is
  nextSet,   \* the id of the next result set
  srvUp,     \* its connection is open
  odd,       \* history: what the engine does not follow.  "okmore": in this
             \* response, a statement without rows ahead of another one;
             \* "long": this response is to a query of 16 MiB or more;
             \* "err": a query failed after its first rows;
             \* "big": a row of 16 MiB or more
  \* serverToClient
  fromServer,
  at,        \* where it is in the response
  left,      \* column definitions still to come
  cols,      \* the result set whose columns it holds
  bw,        \* what a client waits for among the packets not flushed
  seen,      \* the last packet written, and the columns it was masked with
  \* Proxy
  first      \* which goroutine returned first and had both connections closed;
             \* "lost" is serverToClient, as its client could not be written to

cliVars == <<waiting, owes, cmd>>
proxyVars == <<copying, first>>
srvVars == <<toServer, srv, nextSet, srvUp, odd>>
s2cVars == <<at, left, cols, bw, seen>>
vars == <<dep, waiting, owes, cmd, c2s, queries, srvVars, fromServer, s2cVars, proxyVars>>

Idle == [at |-> "idle", text |-> FALSE, left |-> 0, sets |-> 0, rows |-> 0]
Server == [at : {"idle", "first", "defs", "eof", "rows", "file"}, text : BOOLEAN,
           left : 0..MaxCols, sets : 0..MaxSets, rows : 0..MaxRows]

P(t) == [t |-> t, set |-> NoSet, n |-> 0, more |-> FALSE, full |-> FALSE,
         last |-> FALSE]
Unseen == [p |-> P("ok"), with |-> NoSet]

TypeOK ==
  /\ dep \in BOOLEAN /\ waiting \in BOOLEAN /\ owes \in BOOLEAN
  /\ cmd \in Commands \cup {"none", "data"}
  /\ c2s \in Commands \cup {"none", "data"}
  /\ queries \in 0..FlagCap
  /\ toServer \in Commands \cup {"none", "data"}
  /\ srv \in Server /\ nextSet \in SetIds /\ srvUp \in BOOLEAN
  /\ odd \subseteq {"okmore", "long", "err", "big"}
  /\ fromServer \in Seq(Packet)
  /\ at \in {"top", "first", "defs", "eof", "rows", "raw", "ended"}
  /\ left \in 0..MaxCols /\ cols \in Sets
  /\ bw \subseteq {"last", "infile"}
  /\ seen \in [p : Packet, with : Sets]
  /\ copying \in BOOLEAN /\ first \in {"none", "c2s", "s2c", "lost"}

Init ==
  /\ dep \in BOOLEAN
  /\ waiting = FALSE /\ owes = FALSE /\ cmd = "none" /\ c2s = "none"
  /\ queries = 0 /\ toServer = "none" /\ srv = Idle /\ nextSet = 1
  /\ srvUp = TRUE /\ odd = {} /\ fromServer = <<>>
  /\ at = "top" /\ left = 0 /\ cols = NoSet /\ bw = {} /\ seen = Unseen
  /\ copying = TRUE /\ first = "none"

\* Proxy has closed both connections.
Closed == first # "none"

\* A goroutine returns, and if it is the first to, Proxy closes both.
Returns(g) == /\ first' = IF Closed THEN first ELSE g
              /\ srvUp' = FALSE

-----------------------------------------------------------------------------
(* The client, which sends a command when the last one was answered *)

SendCommand(k) ==
  /\ ~Closed
  /\ ~waiting /\ cmd = "none"
  /\ cmd' = k /\ waiting' = TRUE
  /\ UNCHANGED <<dep, owes, c2s, queries, srvVars, fromServer, s2cVars, proxyVars>>

\* The file asked for, in packets whose sequence id is not 0.
SendFile ==
  /\ ~Closed
  /\ owes /\ cmd = "none"
  /\ cmd' = "data" /\ owes' = FALSE
  /\ UNCHANGED <<dep, waiting, c2s, queries, srvVars, fromServer, s2cVars, proxyVars>>

-----------------------------------------------------------------------------
(* clientToServer *)

FlagEverythingC2SFlag ==
  /\ copying /\ ~Closed /\ c2s = "none" /\ cmd # "none"
  /\ c2s' = cmd /\ cmd' = "none"
  /\ queries' = IF queries < FlagCap THEN queries + 1 ELSE queries
  /\ UNCHANGED <<dep, waiting, owes, srvVars, fromServer, s2cVars, proxyVars>>

\* A COM_QUERY is flagged before it is forwarded, unless it is of 16 MiB or
\* more; a full channel drops the flag.
C2SFlag ==
  /\ copying /\ ~Closed /\ c2s = "none" /\ cmd # "none"
  /\ c2s' = cmd /\ cmd' = "none"
  /\ queries' = IF cmd = "query" /\ queries < FlagCap THEN queries + 1
                ELSE queries
  /\ UNCHANGED <<dep, waiting, owes, srvVars, fromServer, s2cVars, proxyVars>>

C2SWrite ==
  /\ copying /\ ~Closed /\ c2s # "none" /\ toServer = "none"
  /\ toServer' = c2s /\ c2s' = "none"
  /\ UNCHANGED <<dep, cliVars, queries, srv, nextSet, srvUp, odd, fromServer,
                 s2cVars, proxyVars>>

\* The client leaves, or shuts down its sending half, perhaps taking along what
\* it sent last: readPacket fails.
ClientGone ==
  /\ copying /\ ~Closed /\ c2s = "none"
  /\ copying' = FALSE /\ Returns("c2s")
  /\ UNCHANGED <<dep, cliVars, c2s, queries, toServer, srv, nextSet, odd, fromServer,
                 s2cVars>>

\* writePacket fails as the server has gone, or Proxy has closed the two.
C2SEnd ==
  /\ copying
  /\ Closed \/ (c2s # "none" /\ ~srvUp)
  /\ copying' = FALSE /\ Returns("c2s")
  /\ UNCHANGED <<dep, cliVars, c2s, queries, toServer, srv, nextSet, odd, fromServer,
                 s2cVars>>

C2S == C2SFlag \/ C2SWrite \/ C2SEnd

-----------------------------------------------------------------------------
(* The server *)

ServerTakes ==
  /\ srvUp
  /\ \/ /\ srv.at = "idle" /\ toServer \in Commands
        /\ srv' = [Idle EXCEPT !.at = "first", !.text = toServer \in {"query", "long"},
                               !.sets = IF toServer = "other" THEN MaxSets ELSE 0]
        /\ odd' = (odd \ {"okmore", "long"}) \cup ({toServer} \cap {"long"})
        /\ UNCHANGED fromServer
     \/ /\ srv.at = "file" /\ toServer = "data"
        /\ srv' = Idle
        /\ fromServer' = Append(fromServer, [P("ok") EXCEPT !.last = TRUE])
        /\ UNCHANGED odd
  /\ toServer' = "none"
  /\ UNCHANGED <<dep, cliVars, c2s, queries, nextSet, srvUp, s2cVars, proxyVars>>

Emit(p, s, o) ==
  /\ srvUp /\ Len(fromServer) < NetCap
  /\ fromServer' = Append(fromServer, p)
  /\ srv' = s /\ odd' = odd \cup o
  /\ UNCHANGED <<dep, cliVars, c2s, queries, toServer, srvUp, s2cVars, proxyVars>>

CurrentSet == IF srv.text THEN nextSet ELSE BinarySet

Ends(t) == Emit([P(t) EXCEPT !.last = TRUE], Idle, {}) /\ UNCHANGED nextSet

ServerFirst ==
  /\ srv.at = "first"
  /\ \/ Ends("ok") \/ Ends("err")
     \/ /\ srv.text
        /\ Emit(P("infile"), [srv EXCEPT !.at = "file"], {})
        /\ UNCHANGED nextSet
     \/ /\ srv.text /\ srv.sets + 1 < MaxSets
        /\ Emit([P("ok") EXCEPT !.more = TRUE], [srv EXCEPT !.sets = @ + 1],
                {"okmore"})
        /\ UNCHANGED nextSet
     \/ /\ srv.sets < MaxSets
        /\ \E n \in 1..MaxCols :
             Emit([P("cols") EXCEPT !.set = CurrentSet, !.n = n],
                  [srv EXCEPT !.at = "defs", !.left = n, !.sets = @ + 1,
                              !.rows = 0],
                  {})
        /\ UNCHANGED nextSet

ServerDefs ==
  /\ srv.at = "defs"
  /\ Emit([P("def") EXCEPT !.set = CurrentSet, !.n = srv.left - 1],
          [srv EXCEPT !.left = @ - 1,
                      !.at = IF srv.left > 1 THEN @
                             ELSE IF dep THEN "rows" ELSE "eof"],
          {})
  /\ UNCHANGED nextSet

ServerEOF ==
  /\ srv.at = "eof"
  /\ Emit([P("eof") EXCEPT !.set = CurrentSet], [srv EXCEPT !.at = "rows"], {})
  /\ UNCHANGED nextSet

ServerRows ==
  /\ srv.at = "rows"
  /\ \/ /\ srv.rows < MaxRows
        /\ \E o \in SUBSET {"big"} :
             Emit([P("row") EXCEPT !.set = CurrentSet, !.full = (o # {})],
                  [srv EXCEPT !.rows = @ + 1], o)
        /\ UNCHANGED nextSet
     \/ /\ Emit([P("end") EXCEPT !.set = CurrentSet, !.last = TRUE], Idle, {})
        /\ nextSet' = 3 - nextSet
     \/ /\ srv.sets < MaxSets
        /\ Emit([P("end") EXCEPT !.set = CurrentSet, !.more = TRUE],
                [srv EXCEPT !.at = "first"], {})
        /\ nextSet' = 3 - nextSet
     \/ /\ Emit([P("err") EXCEPT !.set = CurrentSet, !.last = TRUE], Idle, {"err"})
        /\ nextSet' = 3 - nextSet

ServerGone ==
  /\ srvUp
  /\ srvUp' = FALSE
  /\ UNCHANGED <<dep, cliVars, c2s, queries, toServer, srv, nextSet, odd,
                 fromServer, s2cVars, proxyVars>>

ServerStep ==
  ServerTakes \/ ServerFirst \/ ServerDefs \/ ServerEOF \/ ServerRows

-----------------------------------------------------------------------------
(* serverToClient *)

Mark(p) == (IF p.last THEN {"last"} ELSE {}) \cup
           (IF p.t = "infile" THEN {"infile"} ELSE {})

\* The client gets what it waits for.
Delivered(marks) ==
  /\ waiting' = (waiting /\ "last" \notin marks)
  /\ owes' = (owes \/ "infile" \in marks)

\* writePacket into bw and, if flush, bw.Flush.  Without a flush the packets
\* before this one may leave too, when the 64 KiB are full.  What is written
\* after Proxy has closed the connection stays in bw, and is left out here.
Write(p, with, flush) ==
  /\ fromServer # <<>> /\ p = Head(fromServer)
  /\ fromServer' = Tail(fromServer)
  /\ seen' = [p |-> p, with |-> with]
  /\ ~Closed
  /\ \/ flush /\ bw' = {} /\ Delivered(bw \cup Mark(p))
     \/ ~flush /\ bw' = bw \cup Mark(p) /\ UNCHANGED <<waiting, owes>>
     \/ ~flush /\ bw # {} /\ bw' = Mark(p) /\ Delivered(bw)
  /\ UNCHANGED <<dep, cmd, c2s, srvVars, proxyVars>>

\* handleOneResultSet on the first packet p of a response or result set.
OneResultSet(p) ==
  IF p.t = "cols"
  THEN /\ Write(p, NoSet, FALSE)
       /\ at' = "defs" /\ left' = p.n /\ cols' = p.set
  ELSE /\ Write(p, NoSet, TRUE)
       /\ at' = "top" /\ UNCHANGED <<left, cols>>

LeakyS2CTop ==
  /\ at = "top" /\ fromServer # <<>>
  /\ LET p == Head(fromServer) IN
       \/ /\ queries > 0 /\ p.t = "cols" /\ OneResultSet(p)
          /\ queries' = queries - 1
       \/ /\ queries = 0 \/ p.t # "cols"
          /\ Write(p, NoSet, TRUE)
          /\ UNCHANGED <<queries, at, left, cols>>

\* The top loop: the first packet of a flagged response is handled as such.
\* Anything else is forwarded, and flushed once nothing more is buffered.
S2CTop ==
  /\ at = "top" /\ fromServer # <<>>
  /\ LET p == Head(fromServer) IN
       \/ queries > 0 /\ ~p.full /\ OneResultSet(p)
       \/ /\ queries = 0 \/ p.full
          /\ Write(p, NoSet, TRUE)
          /\ UNCHANGED <<at, left, cols>>
       \/ /\ queries = 0 \/ p.full
          /\ Len(fromServer) > 1
          /\ Write(p, NoSet, FALSE)
          /\ UNCHANGED <<at, left, cols>>
  /\ queries' = IF queries > 0 THEN queries - 1 ELSE 0

\* handleResultResponse: the next result set of a multi-statement query.
S2CFirst ==
  /\ at = "first" /\ fromServer # <<>>
  /\ OneResultSet(Head(fromServer))
  /\ UNCHANGED queries

S2CDefs ==
  /\ at = "defs" /\ fromServer # <<>>
  /\ Write(Head(fromServer), NoSet, FALSE)
  /\ left' = left - 1
  /\ at' = IF left > 1 THEN "defs" ELSE IF dep THEN "rows" ELSE "eof"
  /\ UNCHANGED <<queries, cols>>

S2CEOF ==
  /\ at = "eof" /\ fromServer # <<>>
  /\ Write(Head(fromServer), NoSet, FALSE)
  /\ at' = "rows"
  /\ UNCHANGED <<queries, left, cols>>

OneSetS2CRows ==
  /\ at = "rows" /\ fromServer # <<>>
  /\ LET p == Head(fromServer) IN
       \/ /\ p.full
          /\ Write(p, NoSet, TRUE)
          /\ at' = "raw"
       \/ /\ ~p.full /\ p.t = "end"
          /\ Write(p, NoSet, TRUE)
          /\ at' = "top"
       \/ /\ ~p.full /\ p.t # "end"
          /\ Write(p, IF p.t = "row" THEN cols ELSE NoSet, FALSE)
          /\ at' = "rows"
  /\ UNCHANGED <<queries, left, cols>>

\* Rows until isTerminator, which an ERR packet is not: maskTextRow cannot
\* parse it and it is forwarded as it is.  A row of 16 MiB or more makes the
\* rest of the connection raw.
S2CRows ==
  /\ at = "rows" /\ fromServer # <<>>
  /\ LET p == Head(fromServer) IN
       \/ /\ p.full
          /\ Write(p, NoSet, TRUE)
          /\ at' = "raw"
       \/ /\ ~p.full /\ p.t = "end"
          /\ Write(p, NoSet, ~p.more)
          /\ at' = IF p.more THEN "first" ELSE "top"
       \/ /\ ~p.full /\ p.t # "end"
          /\ Write(p, IF p.t = "row" THEN cols ELSE NoSet, FALSE)
          /\ at' = "rows"
  /\ UNCHANGED <<queries, left, cols>>

\* forwardRest: io.Copy into bw.  A bufio.Writer hands over to a client
\* connection that can read by itself (a TCP one) once it is empty; for any
\* other, a TLS connection or a tunnel stream, it flushes only when full.
S2CRaw ==
  /\ at = "raw" /\ fromServer # <<>>
  /\ \E direct \in BOOLEAN : Write(Head(fromServer), NoSet, direct)
  /\ UNCHANGED <<queries, at, left, cols>>

\* writePacket or bw.Flush fails as the client has gone: what is buffered stays.
S2CWriteFails ==
  /\ at # "ended" /\ ~Closed /\ fromServer # <<>>
  /\ at' = "ended" /\ Returns("lost")
  /\ UNCHANGED <<dep, cliVars, c2s, queries, toServer, srv, nextSet, odd, fromServer,
                 left, cols, bw, seen, copying>>

QuietS2CEnd ==
  /\ at # "ended" /\ (Closed \/ (~srvUp /\ fromServer = <<>>))
  /\ at' = "ended" /\ Returns("s2c")
  /\ UNCHANGED <<dep, cliVars, c2s, queries, toServer, srv, nextSet, odd, fromServer,
                 left, cols, bw, seen, copying>>

\* readPacket fails, after the server's last packet or once Proxy has closed
\* the connection, and what is buffered is flushed if it still can be.
S2CEnd ==
  /\ at # "ended" /\ (Closed \/ (~srvUp /\ fromServer = <<>>))
  /\ at' = "ended"
  /\ \/ ~Closed /\ bw' = {} /\ Delivered(bw) /\ Returns("s2c")
     \/ (Closed \/ bw # {}) /\ UNCHANGED <<bw, waiting, owes>> /\ Returns("lost")
  /\ UNCHANGED <<dep, cmd, c2s, queries, toServer, srv, nextSet, odd, fromServer,
                 left, cols, seen, copying>>

S2C ==
  S2CTop \/ S2CFirst \/ S2CDefs \/ S2CEOF \/ S2CRows \/ S2CRaw \/ S2CEnd

-----------------------------------------------------------------------------
Next ==
  \/ \E k \in Commands : SendCommand(k)
  \/ SendFile \/ ClientGone \/ C2S
  \/ ServerStep \/ ServerGone
  \/ S2C \/ S2CWriteFails

Spec == Init /\ [][Next]_vars

\* Both goroutines run, the server answers, and a client asked for a file
\* sends it.  A client need not leave.
Fairness ==
  WF_vars(C2S) /\ WF_vars(S2C) /\ WF_vars(ServerStep) /\ WF_vars(SendFile)

FairSpec == Spec /\ Fairness

-----------------------------------------------------------------------------
(* Properties *)

\* A text row of a query reaches the client masked, with the columns of its own
\* result set, in every response the engine follows: no query has failed after
\* its first rows, no row was of 16 MiB, nor is the query, and no statement of
\* this response without rows preceded another one.
RowsMasked ==
  seen.p.t = "row" /\ seen.p.set \in SetIds /\ odd = {} => seen.with = seen.p.set

\* "consumes one (or more, for multi-statement) result sets, masking rows"
\* (mysql.go): the same for every multi-statement query.
MultiStatementMasked ==
  seen.p.t = "row" /\ seen.p.set \in SetIds /\ odd \subseteq {"okmore"} =>
    seen.with = seen.p.set

\* "unparsed traffic is forwarded, never corrupted" (mysql.go): nothing but
\* the text rows of a query goes through the masker; in particular no packet
\* of a prepared statement is taken for a text row.
OnlyRowsRewritten ==
  seen.with # NoSet => seen.p.t = "row" /\ seen.p.set \in SetIds

\* Between commands the two goroutines agree, also after a response that the
\* engine did not follow, or not to its end: no flag is left over for the wrong
\* response, serverToClient expects a new one, and nothing is buffered.
AlignedWhenIdle ==
  /\ TypeOK
  /\ ~waiting /\ odd \subseteq {"okmore", "long"} =>
       /\ queries = 0 \/ at = "ended"
       /\ at \in {"top", "ended"} /\ bw = {} /\ fromServer = <<>>

\* A server that goes away has its last words delivered, also an ERR that was
\* taken for a row and packets copied raw: when serverToClient returns first,
\* a client that stayed waits only for what the server had not sent, the rest
\* of a response or the response to a command that did not get to it.
LastWordsDelivered ==
  first = "s2c" /\ waiting =>
    srv.at # "idle" \/ {cmd, c2s, toServer} # {"none"}

\* A command is answered, or the connection ends, until a query has failed
\* after its first rows or a row of 16 MiB has made the connection raw.
ResponseDelivered ==
  waiting ~> (~waiting \/ at = "ended" \/ ~(odd \subseteq {"okmore", "long"}))

\* Proxy returns once either end has closed: closing both ends frees the
\* goroutine that is still in a read.
Returned == ~copying /\ at = "ended"
ProxyReturns == ~srvUp ~> Returned

-----------------------------------------------------------------------------
(* The inductive invariant *)

Busy == {"first", "defs", "eof", "rows"}
Responding == srv.at \in Busy
Silent == cmd = "none" /\ c2s = "none" /\ toServer = "none" /\ ~owes
Unmarked(p) == ~p.last /\ p.t # "infile"

\* What the last packet of a turn tells the client: that the response is over,
\* or that a file is wanted.
EndMark == IF srv.at = "idle" THEN "last" ELSE "infile"

\* Client and server take turns: a command (or a file) is on its way up, or a
\* response is being sent, or its last packet is on its way down.
Asking ==
  /\ fromServer = <<>> /\ bw = {} /\ srv.at = "idle" /\ ~owes
  /\ \/ ~waiting /\ Silent
     \/ waiting /\ cmd \in Commands /\ c2s = "none" /\ toServer = "none"
     \/ waiting /\ cmd = "none" /\ c2s \in Commands /\ toServer = "none"
     \/ waiting /\ cmd = "none" /\ c2s = "none" /\ toServer \in Commands
Filing ==
  /\ fromServer = <<>> /\ bw = {} /\ srv.at = "file" /\ waiting
  /\ \/ owes /\ cmd = "none" /\ c2s = "none" /\ toServer = "none"
     \/ ~owes /\ cmd = "data" /\ c2s = "none" /\ toServer = "none"
     \/ ~owes /\ cmd = "none" /\ c2s = "data" /\ toServer = "none"
     \/ ~owes /\ cmd = "none" /\ c2s = "none" /\ toServer = "data"
Answering ==
  /\ waiting /\ Silent /\ Responding /\ bw = {}
  /\ \A i \in 1..Len(fromServer) : Unmarked(fromServer[i])
Ending ==
  /\ waiting /\ Silent /\ ~Responding
  /\ \/ /\ bw = {} /\ fromServer # <<>>
        /\ \A i \in 1..(Len(fromServer) - 1) : Unmarked(fromServer[i])
        /\ Mark(fromServer[Len(fromServer)]) = {EndMark}
     \/ bw = {EndMark} /\ fromServer = <<>>
Turns == Asking \/ Filing \/ Answering \/ Ending

\* serverToClient no longer parses, or forwards what it has no flag for;
\* otherwise it follows a response.
Lost == at \in {"raw", "ended"}
Passing == at = "top" /\ queries = 0
Follows == ~Lost /\ ~Passing

\* The shape of a packet.
KnownPacket(o, p) ==
  /\ p.full => p.t = "row" /\ "big" \in o
  /\ p.more => p.t \in {"ok", "end"} /\ ~p.last
  /\ p.t \in {"ok", "end"} /\ ~p.more => p.last
  /\ p.t = "err" => p.last
  /\ p.last => p.t \in {"ok", "err", "end"}
  /\ p.t = "ok" /\ p.more => "okmore" \in o
  /\ p.t = "cols" => p.n > 0
  /\ p.t \in {"cols", "def", "eof", "row", "end"} => p.set # NoSet
KnownPackets == \A i \in 1..Len(fromServer) : KnownPacket(odd, fromServer[i])

\* A walk of a result set at place a, with l definitions to come, of set s,
\* takes packet p; and where it is after p.
Takes(a, l, s, p) ==
  \/ a = "first" /\ p.t \in {"ok", "err", "infile", "cols"}
  \/ a = "defs" /\ p.t = "def" /\ p.n + 1 = l /\ p.set = s
  \/ a = "eof" /\ p.t = "eof" /\ p.set = s
  \/ a = "rows" /\ p.t \in {"row", "end", "err"} /\ p.set = s
PlaceAfter(d, p) ==
  IF p.more THEN "first"
  ELSE IF p.t = "cols" \/ (p.t = "def" /\ p.n > 0) THEN "defs"
  ELSE IF p.t = "def" /\ ~d THEN "eof"
  ELSE IF p.t \in {"def", "eof", "row"} THEN "rows" ELSE "over"
Walk(d, p, r) == Takes(PlaceAfter(d, p), p.n, p.set, r)

\* Two places agree if the same packets come next.
Agree(a, l, s, b, m, u) ==
  a = b /\ (a = "defs" => l = m) /\ (a \in {"defs", "eof", "rows"} => s = u)

Place == IF at = "top" THEN "first" ELSE at

\* The packets on their way are a walk from where serverToClient is, if it
\* follows, to where the server is.
Ordered ==
  \A i \in 1..(Len(fromServer) - 1) : Walk(dep, fromServer[i], fromServer[i + 1])
HeadFits ==
  fromServer # <<>> /\ Follows => Takes(Place, left, cols, fromServer[1])
LastFits ==
  Responding =>
    IF fromServer = <<>>
    THEN Follows => Agree(Place, left, cols, srv.at, srv.left, CurrentSet)
    ELSE LET p == fromServer[Len(fromServer)] IN
           Agree(PlaceAfter(dep, p), p.n, p.set, srv.at, srv.left, CurrentSet)

Unfollowed == "okmore" \in odd \/ "long" \in odd

\* It follows text results only, and passes them by only where the engine does
\* not follow.
Tone ==
  /\ Follows => /\ \A i \in 1..Len(fromServer) : fromServer[i].set # BinarySet
                /\ Responding => srv.text
  /\ Passing /\ ~Unfollowed =>
       /\ \A i \in 1..Len(fromServer) : fromServer[i].set \notin SetIds
       /\ Responding => ~srv.text

\* One flag for each query under way that serverToClient has not begun with.
Flagged ==
  /\ ~Lost /\ at # "top" => queries = 0
  /\ ~Lost => queries <= 1
  /\ ~Lost /\ (Asking \/ Filing) =>
       at = "top" /\ (queries = 1 <=> "query" \in {c2s, toServer})

Rows ==
  /\ srv.at = "defs" => srv.left > 0
  /\ at \in {"defs", "eof", "rows"} => cols \in SetIds
  /\ ~Responding /\ fromServer = <<>> => seen.p.t # "row"
  /\ RowsMasked /\ OnlyRowsRewritten

Closing ==
  /\ at = "raw" => "big" \in odd
  /\ at = "ended" => Closed
  /\ Closed => ~srvUp
  /\ first = "s2c" => at = "ended" /\ bw = {} /\ fromServer = <<>>

IInv == /\ TypeOK /\ KnownPackets /\ Turns /\ Ordered /\ HeadFits /\ LastFits
        /\ Tone /\ Flagged /\ Rows /\ Closing
=============================================================================
