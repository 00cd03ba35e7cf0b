---------------------------- MODULE PostgresRelay ----------------------------
(***************************************************************************)
(* The server-to-client direction of the Postgres engine                   *)
(* (internal/wire/postgres, pipeBackendReader): backend messages are read  *)
(* through a bufio.Reader, DataRows are masked with the columns of the     *)
(* last RowDescription, and messages are written through a bufio.Writer    *)
(* that is flushed at ReadyForQuery or when the reader is drained.  Of the *)
(* other direction, an io.Copy, the end is modelled: Proxy closes both     *)
(* connections when the first of the two returns, in the same step here,   *)
(* as the other can meanwhile only do what it could have done before.      *)
(*                                                                         *)
(* A message is its type ("X" has a length below 4), the statement it is   *)
(* about and a running number.                                             *)
(***************************************************************************)
EXTENDS Naturals, Sequences

CONSTANTS Statements, \* the client's statements, each with columns of its own
          NoStatement,
          MaxRows,    \* bound: rows of one execution
          NetCap,     \* bound: messages in flight from the server
          Modulus     \* message numbers are kept modulo this

RelayAssumption ==
  /\ MaxRows \in Nat /\ NetCap \in Nat \ {0}
  /\ NoStatement \notin Statements
  \* no two messages of a response, T, rows, C or E and Z, have the same number
  /\ Modulus \in Nat /\ Modulus > MaxRows + 3 /\ Modulus > NetCap

Message == [t : {"T", "D", "E", "C", "Z", "X"}, s : Statements \cup {NoStatement},
            n : 0..(Modulus - 1)]

VARIABLES
  prepares,   \* the client describes a statement once, when it is prepared
  cli,        \* "ready", or what the client waits for
  described,  \* statements the client has had described
  srv,        \* the server's response: phase, statement, rows sent
  srvUp,      \* the server's connection is open
  sent,       \* number of the server's next message
  begun,      \* it has sent the first bytes of that one
  net,        \* messages on the way
  br,         \* whole messages in the bufio.Reader
  part,       \* and the first bytes of the next one
  cols,       \* the statement whose columns are held
  bw,         \* messages written and not flushed
  got,        \* number of the next message the client is due
  row,        \* the last DataRow written, and the columns it was masked with
  ended,      \* pipeBackendReader has returned
  copying,    \* the io.Copy of the other direction has not
  first       \* which of the two, "s2c" and "c2s", returned first and had both
              \* connections closed; "lost" is the former, as its client could
              \* not be written to

proxyVars == <<copying, first>>
vars == <<prepares, cli, described, srv, srvUp, sent, begun, net, br, part, cols, bw,
          got, row, ended, proxyVars>>
serverVars == <<prepares, cli, described, srv, srvUp, sent, begun>>
pipeVars == <<br, part, cols, bw, got, row, ended>>

Response == [at : {"idle", "describe", "rows", "done", "garbled"},
             s : Statements \cup {NoStatement}, rows : 0..MaxRows]
Idle == [at |-> "idle", s |-> NoStatement, rows |-> 0]

TypeOK ==
  /\ prepares \in BOOLEAN /\ cli \in {"ready", "waiting"} /\ described \subseteq Statements
  /\ srv \in Response
  /\ srvUp \in BOOLEAN /\ sent \in 0..(Modulus - 1) /\ got \in 0..(Modulus - 1)
  /\ net \in Seq(Message) /\ br \in Seq(Message) /\ bw \in Seq(Message)
  /\ Len(net) <= NetCap /\ Len(br) <= NetCap
  /\ part \in BOOLEAN /\ cols \in Statements \cup {NoStatement}
  /\ row \in [s : Statements \cup {NoStatement},
              with : Statements \cup {NoStatement}]
  /\ begun \in BOOLEAN /\ ended \in BOOLEAN
  /\ copying \in BOOLEAN /\ first \in {"none", "c2s", "s2c", "lost"}

Init ==
  /\ prepares \in BOOLEAN
  /\ cli = "ready" /\ described = {} /\ srv = Idle /\ srvUp = TRUE
  /\ begun = FALSE /\ copying = TRUE /\ first = "none"
  /\ sent = 0 /\ net = <<>> /\ br = <<>> /\ part = FALSE
  /\ cols = NoStatement /\ bw = <<>> /\ got = 0
  /\ row = [s |-> NoStatement, with |-> NoStatement] /\ ended = FALSE

\* Proxy has closed both connections.
Closed == first # "none"

\* A goroutine returns, and if it is the first to, Proxy closes both.
Returns(g) == /\ first' = IF Closed THEN first ELSE g
              /\ srvUp' = FALSE

-----------------------------------------------------------------------------
(* The client, and the server answering it *)

\* A statement is run: a client that prepares runs one it has had described.
Request(s) ==
  /\ cli = "ready" /\ copying /\ srvUp
  /\ cli' = "waiting"
  /\ \/ /\ ~prepares
        /\ srv' = [at |-> "describe", s |-> s, rows |-> 0]
        /\ UNCHANGED described
     \/ /\ prepares /\ s \notin described
        /\ srv' = [at |-> "describe", s |-> s, rows |-> MaxRows]
        /\ described' = described \cup {s}
     \/ /\ prepares /\ s \in described
        /\ srv' = [at |-> "rows", s |-> s, rows |-> 0]
        /\ UNCHANGED described
  /\ UNCHANGED <<prepares, srvUp, sent, begun, net, pipeVars, proxyVars>>

\* The server has begun a message, and perhaps stalls.
Begins ==
  /\ srvUp /\ ~begun /\ srv.at \notin {"idle", "garbled"}
  /\ begun' = TRUE
  /\ UNCHANGED <<prepares, cli, described, srv, srvUp, sent, net, pipeVars, proxyVars>>

Emit(t, next) ==
  /\ srvUp /\ Len(net) < NetCap
  /\ net' = Append(net, [t |-> t, s |-> srv.s, n |-> sent])
  /\ sent' = (sent + 1) % Modulus
  /\ srv' = next /\ begun' = FALSE
  /\ UNCHANGED <<prepares, cli, described, srvUp, pipeVars, proxyVars>>

Describes == srv.at = "describe" /\ Emit("T", [srv EXCEPT !.at = "rows"])
SendsRow == /\ srv.at = "rows" /\ srv.rows < MaxRows
            /\ Emit("D", [srv EXCEPT !.rows = @ + 1])
Completes == \/ srv.at = "rows" /\ Emit("C", [srv EXCEPT !.at = "done"])
             \/ srv.at \in {"describe", "rows"} /\ Emit("E", [srv EXCEPT !.at = "done"])
Readies == srv.at = "done" /\ Emit("Z", Idle)

\* A length no message has: what follows is no message to anyone.
Garbles == srv.at \in {"describe", "rows"} /\ Emit("X", [srv EXCEPT !.at = "garbled"])

\* The connection ends, perhaps within a message: of what is on the way the
\* first k messages still arrive, and the others were never sent in full.
ServerGone ==
  /\ srvUp
  /\ srvUp' = FALSE
  /\ \E k \in 0..Len(net) :
       /\ net' = SubSeq(net, 1, k)
       /\ sent' = (sent + Modulus - (Len(net) - k)) % Modulus
  /\ UNCHANGED <<prepares, cli, described, srv, begun, pipeVars, proxyVars>>

-----------------------------------------------------------------------------
(* pipeBackendReader *)

\* A read of the connection when the buffer holds no whole message: it gets
\* some of what is on the way, and perhaps the beginning of one more message,
\* which the server may have sent no further yet.
Fill ==
  /\ ~ended /\ ~Closed /\ br = <<>>
  /\ \E k \in 0..Len(net), p \in BOOLEAN :
       /\ p => k < Len(net) \/ begun
       /\ k > 0 \/ (p /\ ~part)
       /\ br' = SubSeq(net, 1, k) /\ part' = p
       /\ net' = SubSeq(net, k + 1, Len(net))
  /\ UNCHANGED <<serverVars, cols, bw, got, row, ended, proxyVars>>

\* The client receives ms; a ReadyForQuery among them makes it ready again.
Delivers(ms) ==
  /\ got' = (got + Len(ms)) % Modulus
  /\ cli' = IF \E i \in DOMAIN ms : ms[i].t = "Z" THEN "ready" ELSE cli

FirstColumns(m) == IF m.t = "T" /\ cols = NoStatement THEN m.s ELSE cols

\* The columns held after message m: those of the last RowDescription.
Columns(m) == IF m.t = "T" THEN m.s ELSE cols

BoundaryFlushes(m) == m.t = "Z"

\* Flush at ReadyForQuery, or when the read buffer is drained.
Flushes(m) == m.t = "Z" \/ (Len(br) = 1 /\ ~part)

\* What is written after Proxy has closed both ends stays in bw, and is left
\* out here.
Pipe ==
  /\ ~ended /\ ~Closed /\ br # <<>>
  /\ LET m == Head(br) IN
       /\ m.t # "X"
       /\ cols' = Columns(m)
       /\ row' = IF m.t = "D" THEN [s |-> m.s, with |-> cols] ELSE row
       /\ IF Flushes(m) THEN bw' = <<>> /\ Delivers(Append(bw, m))
          ELSE \/ bw' = Append(bw, m) /\ UNCHANGED <<got, cli>>
               \/ bw # <<>> /\ bw' = <<m>> /\ Delivers(bw)  \* bw was full
  /\ br' = Tail(br)
  /\ UNCHANGED <<prepares, described, srv, srvUp, sent, begun, net, part, ended, proxyVars>>

\* errProtocol, and a write or a flush that fails: what is in the buffers stays
\* there.
PipeFails ==
  /\ ~ended /\ br # <<>>
  /\ IF Head(br).t = "X" THEN Returns("s2c") ELSE Returns("lost")
  /\ ended' = TRUE
  /\ UNCHANGED <<prepares, cli, described, srv, sent, begun, net, br, part, cols, bw, got, row,
                 copying>>

LossyPipeEnd ==
  /\ ~ended /\ br = <<>> /\ (Closed \/ (~srvUp /\ net = <<>>))
  /\ ended' = TRUE /\ Returns("s2c") /\ bw' = <<>>
  /\ UNCHANGED <<prepares, cli, described, srv, sent, begun, net, br, part, cols, got, row,
                 copying>>

\* The read of a header or of a payload fails, after the server's last message
\* or once Proxy has closed the connection, and what was written is flushed if
\* it still can be.
PipeEnd ==
  /\ ~ended /\ br = <<>> /\ (Closed \/ (~srvUp /\ net = <<>>))
  /\ ended' = TRUE
  /\ \/ ~Closed /\ bw' = <<>> /\ Delivers(bw) /\ Returns("s2c")
     \/ (Closed \/ bw # <<>>) /\ UNCHANGED <<bw, got, cli>> /\ Returns("lost")
  /\ UNCHANGED <<prepares, described, srv, sent, begun, net, br, part, cols, row, copying>>

-----------------------------------------------------------------------------
\* The copy from the client ends: the client leaves or shuts down its sending
\* half, what the copy holds cannot be written to a server that has gone, or
\* Proxy has closed both.
CopyEnd ==
  /\ copying
  /\ copying' = FALSE /\ Returns("c2s")
  /\ UNCHANGED <<prepares, cli, described, srv, sent, begun, net, pipeVars>>

-----------------------------------------------------------------------------
Server == Begins \/ Describes \/ SendsRow \/ Completes \/ Readies \/ Garbles
Relay == Fill \/ Pipe \/ PipeFails \/ PipeEnd
Next ==
  \/ \E s \in Statements : Request(s)
  \/ Server \/ ServerGone
  \/ Relay \/ CopyEnd

Spec == Init /\ [][Next]_vars

\* The goroutines run; a copy from a client that stays ends when Proxy closes.
\* The server need not run: a client may be owed what was sent while the server
\* is busy.
FairSpec ==
  Spec /\ WF_vars(Relay) /\ WF_vars(Closed /\ CopyEnd)

-----------------------------------------------------------------------------
(* Properties *)

\* "RowDescription ('T') is tracked for column names/formats and DataRow ('D')
\* values are run through the masker" (postgres.go): a row is masked with the
\* columns of the statement it is a row of, for a client that has each result
\* described.
OwnColumns == ~prepares => row.with = row.s

Unframed == br # <<>> /\ br[1].t = "X"

\* The messages not delivered yet are, in order and without gap, those in bw,
\* in the reader and on the way: nothing is lost, doubled or reordered.  And
\* nothing is held back from a client that stayed when pipeBackendReader returns
\* first, but for what precedes a message it cannot frame.
InOrder ==
  LET due == bw \o br \o net IN
    /\ TypeOK
    /\ \A i \in DOMAIN due : due[i].n = (got + i - 1) % Modulus
    /\ sent = (got + Len(due)) % Modulus
    /\ first = "s2c" => due = <<>> \/ Unframed

\* What the server has sent reaches the client even if the server sends no
\* more, unless it stalls within the next message: nothing waits in bw for a
\* boundary that may be far away.
Stalled == begun /\ srvUp
Delivered == []<><<sent' # sent>>_sent \/ []<>(got = sent \/ Stalled \/ ended)

\* Proxy returns once either end has closed.
Returned == ~copying /\ ended
ProxyReturns == ~srvUp ~> Returned

-----------------------------------------------------------------------------
(* The inductive invariant *)

\* The number of the message that is due after k others.
Nth(k) == (got + k) % Modulus

\* What is buffered and on the way is numbered without gap.
Numbered ==
  /\ \A i \in 1..Len(bw) : bw[i].n = Nth(i - 1)
  /\ \A i \in 1..Len(br) : br[i].n = Nth(Len(bw) + i - 1)
  /\ \A i \in 1..Len(net) : net[i].n = Nth(Len(bw) + Len(br) + i - 1)
  /\ sent = Nth(Len(bw) + Len(br) + Len(net))

\* A row of s may follow m; it may follow what is in the reader; it may follow
\* what is on the way.
Leads(m, s) == m.t \in {"T", "D"} /\ m.s = s
ReaderLeads(s) == IF br = <<>> THEN cols = s ELSE Leads(br[Len(br)], s)
NetLeads(s) == IF net = <<>> THEN ReaderLeads(s) ELSE Leads(net[Len(net)], s)

Chained(q) == \A i \in 1..(Len(q) - 1) : q[i + 1].t = "D" => Leads(q[i], q[i + 1].s)

\* Every row comes after its description or another row of its statement, for a
\* client that has each result described; the first one comes to its columns.
RowsFollow ==
  ~prepares =>
    /\ Chained(br) /\ Chained(net)
    /\ br # <<>> /\ br[1].t = "D" => cols = br[1].s
    /\ net # <<>> /\ net[1].t = "D" => ReaderLeads(net[1].s)
    /\ srvUp /\ srv.at = "rows" => NetLeads(srv.s)

Closing ==
  /\ ended => Closed
  /\ Closed => ~srvUp
  /\ first = "s2c" => ended /\ (Unframed \/ (bw = <<>> /\ br = <<>> /\ net = <<>>))

IInv == TypeOK /\ Numbered /\ RowsFollow /\ OwnColumns /\ Closing
=============================================================================
