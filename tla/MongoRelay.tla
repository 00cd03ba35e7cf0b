----------------------------- MODULE MongoRelay -----------------------------
(***************************************************************************)
(* The MongoDB engine (internal/wire/mongo): Proxy's two goroutines, one    *)
(* copying requests and one masking the server's messages (see BSON).       *)
(***************************************************************************)
EXTENDS BSON

CONSTANTS
  ServerMessages,   \* the messages a server may send
  MaxMessages,      \* bound: messages a server sends
  NetCap            \* bound: messages on the way to the agent

VARIABLES
  sent,        \* every message the server sent
  net,         \* the messages on their way to the agent
  srv, cli,    \* "open", or "closed" by that end
  s2c,         \* maskServer: "read", "write" or "done"
  msg,         \* the message it read
  c2s,         \* the copy of requests: "copy" or "done"
  main,        \* Proxy: "wait", "drain" or "returned"
  first,       \* which goroutine ended first, "none" before
  got          \* what reached the client

vars == <<sent, net, srv, cli, s2c, msg, c2s, main, first, got>>
------------------------------------------------------------------------------
Closed == main # "wait"

Init ==
  /\ sent = <<>> /\ net = <<>> /\ srv = "open" /\ cli = "open"
  /\ s2c = "read" /\ msg = <<>> /\ c2s = "copy"
  /\ main = "wait" /\ first = "none" /\ got = <<>>

\* The server answers, or closes, possibly within a message that then never
\* gets through (external).
ServerSends ==
  /\ srv = "open" /\ Len(sent) < MaxMessages /\ Len(net) < NetCap
  /\ \E m \in ServerMessages : sent' = Append(sent, m) /\ net' = Append(net, m)
  /\ UNCHANGED <<srv, cli, s2c, msg, c2s, main, first, got>>

ServerCloses ==
  /\ srv = "open" /\ srv' = "closed"
  /\ UNCHANGED <<sent, net, cli, s2c, msg, c2s, main, first, got>>

\* The client closes its connection (external).
ClientCloses ==
  /\ cli = "open" /\ cli' = "closed"
  /\ UNCHANGED <<sent, net, srv, s2c, msg, c2s, main, first, got>>

ReadMessage ==
  /\ s2c = "read" /\ ~Closed /\ net # <<>>
  /\ net' = Tail(net)
  /\ IF Implausible(Head(net)) THEN s2c' = "done" /\ UNCHANGED msg
                               ELSE s2c' = "write" /\ msg' = Head(net)
  /\ UNCHANGED <<sent, srv, cli, c2s, main, first, got>>

HastyReadFails ==
  /\ s2c = "read" /\ (Closed \/ srv = "closed")
  /\ s2c' = "done"
  /\ UNCHANGED <<sent, net, srv, cli, msg, c2s, main, first, got>>

ReadFails ==
  /\ s2c = "read" /\ (Closed \/ (net = <<>> /\ srv = "closed"))
  /\ s2c' = "done"
  /\ UNCHANGED <<sent, net, srv, cli, msg, c2s, main, first, got>>

\* A write to a client that left, or whose connection is closed, ends it.
ClientGone == Closed \/ cli = "closed"
WriteEnds == s2c = "write" /\ s2c' = IF ClientGone THEN "done" ELSE "read"

WriteMessage ==
  /\ WriteEnds
  /\ got' = IF ClientGone THEN got ELSE Append(got, transformMessage(msg))
  /\ UNCHANGED <<sent, net, srv, cli, msg, c2s, main, first>>

\* io.Copy of the requests ends when the client closed, when a request cannot be
\* written to a server that closed, or when Proxy closed the connections.
CopyEnds ==
  /\ c2s = "copy" /\ (Closed \/ cli = "closed" \/ srv = "closed")
  /\ c2s' = "done"
  /\ UNCHANGED <<sent, net, srv, cli, s2c, msg, main, first, got>>

OneSidedCloseBoth ==
  /\ main = "wait" /\ s2c = "done" /\ c2s = "done"
  /\ main' = "drain"
  /\ first' = "s2c"
  /\ UNCHANGED <<sent, net, srv, cli, s2c, msg, c2s, got>>

\* Proxy: the first goroutine to end closes both connections ...
CloseBoth ==
  /\ main = "wait" /\ "done" \in {s2c, c2s}
  /\ main' = "drain"
  /\ first' \in {g \in {"s2c", "c2s"} : (IF g = "s2c" THEN s2c ELSE c2s) = "done"}
  /\ UNCHANGED <<sent, net, srv, cli, s2c, msg, c2s, got>>

\* ... and the second is awaited.
Return ==
  /\ main = "drain" /\ s2c = "done" /\ c2s = "done"
  /\ main' = "returned"
  /\ UNCHANGED <<sent, net, srv, cli, s2c, msg, c2s, first, got>>

Relay == ReadMessage \/ ReadFails \/ WriteMessage
Proxy == CloseBoth \/ Return
Next == ServerSends \/ ServerCloses \/ ClientCloses \/ Relay \/ CopyEnds \/ Proxy

Spec == Init /\ [][Next]_vars

\* The goroutines run; a copy whose client is silent may stay in its read, so
\* its end is only due once the client or Proxy closed.  (WriteEnds is the
\* step of WriteMessage that fairness is about.)
MaskServerMoves == ReadMessage \/ ReadFails \/ WriteEnds
MustCopyEnd == CopyEnds /\ ClientGone
FairSpec == Spec /\ WF_s2c(MaskServerMoves) /\ WF_vars(Proxy) /\ WF_vars(MustCopyEnd)
------------------------------------------------------------------------------
\* transformMessage rewrites results and only results: the client gets the
\* server's messages in order; of a sound OP_MSG every ruled string of a result
\* is masked, every other field is as it was, and all lengths frame what they
\* hold; a message that is not an OP_MSG passes as it came, one that cannot be
\* walked is never half masked, and a rewritten one has no checksum left.
MongoRewrites ==
  \A k \in DOMAIN got :
    LET m == sent[k] IN
    /\ Sound(m) => FramedMessage(got[k])
    /\ (Sound(m) \/ got[k] # m) =>
         MessageFields(got[k]) = {Masked(f) : f \in MessageFields(m)}
    /\ got[k] # m => m.op = "msg" /\ ~got[k].sum /\ got[k].len = MessageLen(got[k])

\* Proxy delivers the server's last words: when maskServer ends first, and the
\* client stayed, every whole message before an implausible one reached it.
MongoLastWords ==
  (main = "returned" /\ first = "s2c" /\ cli = "open") =>
    \A k \in DOMAIN sent : (\A j \in 1..k : ~Implausible(sent[j])) => k <= Len(got)

\* Proxy returns once either end closed: no goroutine is left behind.
MongoReturns == (srv = "closed" \/ cli = "closed") ~> main = "returned"
==============================================================================
