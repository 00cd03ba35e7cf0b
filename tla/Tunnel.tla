------------------------------- MODULE Tunnel -------------------------------
(***************************************************************************)
(* The stream multiplexer of internal/tunnel: two Sessions, one at each    *)
(* end of a TCP connection, carry many logical Streams and one control     *)
(* channel.  Every step below is one critical section of the code or one   *)
(* blocking call, so the places where a goroutine looks something up,      *)
(* unlocks and acts on it later are separate steps.                        *)
(*                                                                         *)
(* Two pairs of code steps are one step here.  closeWithErr closes the     *)
(* `closed' channel and the connection together, and writeFrame tests      *)
(* `closed' and writes together: a write that passed the test before       *)
(* `closed' was closed and reached the connection before it was closed     *)
(* has the effect of a write made just before closeWithErr.                *)
(***************************************************************************)
EXTENDS Integers, Sequences, FiniteSets

CONSTANTS Openers,     \* the ends whose program calls Session.Open
          Writers,     \* the ends whose program calls Stream.Write
          Closers,     \* the ends whose program calls Stream.Close
          SessClosers, \* the ends whose program calls Session.Close
          Controllers, \* the ends whose program calls Session.SendControl
          LinkMayFail, \* whether the connection may be lost
          MaxID,       \* bound: stream ids 1..MaxID are used
          MaxChunks,   \* bound: DATA frames written on one stream by one end
          AcceptCap,   \* capacity of Session.accept (64)
          ControlCap,  \* capacity of Session.controlCh (16)
          WireCap,     \* frames the connection buffers in one direction
          Control,     \* control messages
          MaxControl   \* bound: control messages sent by one end

Ends == {"client", "server"}
Ids == 1..MaxID

ASSUME TunnelAssumption ==
  /\ \A P \in {Openers, Writers, Closers, SessClosers, Controllers} : P \subseteq Ends
  /\ LinkMayFail \in BOOLEAN
  /\ {MaxID, MaxChunks, MaxControl} \subseteq Nat
  /\ {AcceptCap, ControlCap, WireCap} \subseteq Nat \ {0}

Peer(e) == IF e = "client" THEN "server" ELSE "client"

\* Frames.  A DATA frame carries the number of its chunk in the stream.
OpenFrame(i) == [typ |-> "open", id |-> i, n |-> 0]
DataFrame(i, k) == [typ |-> "data", id |-> i, n |-> k]
CloseFrame(i) == [typ |-> "close", id |-> i, n |-> 0]
ControlFrame(c) == [typ |-> "control", msg |-> c]
StreamFrame == [typ : {"open", "data", "close"}, id : Ids, n : Nat]
Frame == StreamFrame \cup [typ : {"control"}, msg : Control]

\* Values of Session.err: what readFrame returned, or ErrSessionClosed.
SessionErr == {"EOF", "reset", "ErrSessionClosed"}
\* What ended a reader: "none" while it still reads.
ReadEnd == SessionErr \cup {"none", "ErrClosed"}

VARIABLES
  \* Session, by end
  nextID,       \* next id to allocate
  phase,        \* "open", "closing" (closed, streams not yet failed), "swept"
  serr,         \* Session.err
  streams,      \* ids in the stream map
  accept,       \* accept channel
  controlCh,    \* control channel
  loop,         \* where readLoop is and the frame it holds
  opening,      \* ids allocated by Open whose OPEN frame is not yet written
  \* net.Conn
  wire,         \* frames travelling to an end
  link,         \* "up", or "down" once the connection is lost
  \* Stream, by end and id
  buf,          \* received chunks not yet read
  remoteClosed, \* ids on which a CLOSE was received
  err,          \* Stream.err
  closePc,      \* progress of Stream.Close: "no" while localClosed is false
  \* the program using the streams
  held,         \* ids returned by Open or Accept
  writing,      \* ids with a Write in progress
  rd,           \* how reading ended
  got,          \* chunks read
  \* history
  sent,         \* DATA frames written
  fin,          \* DATA frames written before the CLOSE frame, -1 before it
  ctl           \* control messages sent

sessVars == <<nextID, phase, serr, streams, accept, controlCh, loop, opening>>
netVars == <<wire, link>>
strVars == <<buf, remoteClosed, err, closePc>>
appVars == <<held, writing, rd, got>>
histVars == <<sent, fin, ctl>>
vars == <<nextID, phase, serr, streams, accept, controlCh, loop, opening,
          wire, link, buf, remoteClosed, err, closePc, held, writing, rd, got,
          sent, fin, ctl>>

Reading == [at |-> "read"]
Done == [at |-> "done"]
At(l, f) == [at |-> l, f |-> f]
Loop == {Reading, Done}
          \cup [at : {"got"}, f : Frame]
          \cup [at : {"accept", "deliver", "remoteClose"}, f : StreamFrame]

TypeOK ==
  /\ nextID \in [Ends -> Nat]
  /\ phase \in [Ends -> {"open", "closing", "swept"}]
  /\ serr \in [Ends -> SessionErr \cup {"nil"}]
  /\ streams \in [Ends -> SUBSET Ids]
  /\ accept \in [Ends -> Seq(Ids)]
  /\ controlCh \in [Ends -> Seq(Control)]
  /\ loop \in [Ends -> Loop]
  /\ opening \in [Ends -> SUBSET Ids]
  /\ wire \in [Ends -> Seq(Frame)]
  /\ link \in {"up", "down"}
  /\ buf \in [Ends -> [Ids -> Seq(Nat)]]
  /\ remoteClosed \in [Ends -> SUBSET Ids]
  /\ err \in [Ends -> [Ids -> SessionErr \cup {"nil"}]]
  /\ closePc \in [Ends -> [Ids -> {"no", "remove", "send", "done"}]]
  /\ held \in [Ends -> SUBSET Ids]
  /\ writing \in [Ends -> SUBSET Ids]
  /\ rd \in [Ends -> [Ids -> ReadEnd]]
  /\ got \in [Ends -> [Ids -> Nat]]
  /\ sent \in [Ends -> [Ids -> Nat]]
  /\ fin \in [Ends -> [Ids -> Nat \cup {-1}]]
  /\ ctl \in [Ends -> Nat]

-----------------------------------------------------------------------------
(* newSession *)

SameFirstID(e) == 2
\* The dialer's ids are odd, the accepter's even.
FirstID(e) == IF e = "client" THEN 1 ELSE 2

Init ==
  /\ nextID = [e \in Ends |-> FirstID(e)]
  /\ phase = [e \in Ends |-> "open"]
  /\ serr = [e \in Ends |-> "nil"]
  /\ streams = [e \in Ends |-> {}]
  /\ accept = [e \in Ends |-> <<>>]
  /\ controlCh = [e \in Ends |-> <<>>]
  /\ loop = [e \in Ends |-> Reading]
  /\ opening = [e \in Ends |-> {}]
  /\ wire = [e \in Ends |-> <<>>]
  /\ link = "up"
  /\ buf = [e \in Ends |-> [i \in Ids |-> <<>>]]
  /\ remoteClosed = [e \in Ends |-> {}]
  /\ err = [e \in Ends |-> [i \in Ids |-> "nil"]]
  /\ closePc = [e \in Ends |-> [i \in Ids |-> "no"]]
  /\ held = [e \in Ends |-> {}]
  /\ writing = [e \in Ends |-> {}]
  /\ rd = [e \in Ends |-> [i \in Ids |-> "none"]]
  /\ got = [e \in Ends |-> [i \in Ids |-> 0]]
  /\ sent = [e \in Ends |-> [i \in Ids |-> 0]]
  /\ fin = [e \in Ends |-> [i \in Ids |-> -1]]
  /\ ctl = [e \in Ends |-> 0]

-----------------------------------------------------------------------------
(* The connection, and writeFrame on it *)

Add(F, e, x) == [F EXCEPT ![e] = @ \cup {x}]
Drop(F, e, x) == [F EXCEPT ![e] = @ \ {x}]

\* A write succeeds while this end is open.  It waits for room in the
\* connection's buffers, and its frame is lost if nobody can receive it.
Written(e, f) ==
  /\ phase[e] = "open"
  /\ \/ /\ link = "up"
        /\ phase[Peer(e)] = "open"
        /\ Len(wire[Peer(e)]) < WireCap
        /\ wire' = [wire EXCEPT ![Peer(e)] = Append(@, f)]
     \/ /\ link = "down" \/ phase[Peer(e)] # "open"
        /\ UNCHANGED wire

\* A write fails on a closed session and may fail on a lost connection.  The
\* failure does not close the session: readLoop finds out by itself.
WriteFails(e) == phase[e] # "open" \/ link = "down" \/ phase[Peer(e)] # "open"

\* The connection is lost; a prefix of what is in flight may still be read.
LinkDown ==
  /\ LinkMayFail /\ link = "up"
  /\ link' = "down"
  /\ UNCHANGED <<sessVars, wire, strVars, appVars, histVars>>

-----------------------------------------------------------------------------
(* Session.Open: allocate and insert under mu, then write the OPEN frame *)

UncheckedOpenInsert(e) ==
  /\ e \in Openers /\ nextID[e] \in Ids
  /\ streams' = Add(streams, e, nextID[e])
  /\ opening' = Add(opening, e, nextID[e])
  /\ nextID' = [nextID EXCEPT ![e] = @ + 2]
  /\ UNCHANGED <<phase, serr, accept, controlCh, loop,
                 netVars, strVars, appVars, histVars>>

OpenInsert(e) ==
  /\ e \in Openers /\ nextID[e] \in Ids
  /\ phase[e] = "open"
  /\ streams' = Add(streams, e, nextID[e])
  /\ opening' = Add(opening, e, nextID[e])
  /\ nextID' = [nextID EXCEPT ![e] = @ + 2]
  /\ UNCHANGED <<phase, serr, accept, controlCh, loop,
                 netVars, strVars, appVars, histVars>>

OpenSend(e, i) ==
  /\ i \in opening[e]
  /\ opening' = Drop(opening, e, i)
  /\ \/ /\ Written(e, OpenFrame(i))
        /\ held' = Add(held, e, i)
        /\ UNCHANGED streams
     \/ /\ WriteFails(e)
        /\ streams' = Drop(streams, e, i)
        /\ UNCHANGED <<held, wire>>
  /\ UNCHANGED <<nextID, phase, serr, accept, controlCh, loop, link,
                 strVars, writing, rd, got, histVars>>

\* Accept's select may pick the channel even when the session is closed.
Accept(e) ==
  /\ accept[e] # <<>>
  /\ held' = Add(held, e, Head(accept[e]))
  /\ accept' = [accept EXCEPT ![e] = Tail(@)]
  /\ UNCHANGED <<nextID, phase, serr, streams, controlCh, loop, opening,
                 netVars, strVars, writing, rd, got, histVars>>

SendControl(e, c) ==
  /\ e \in Controllers /\ ctl[e] < MaxControl
  /\ Written(e, ControlFrame(c))
  /\ ctl' = [ctl EXCEPT ![e] = @ + 1]
  /\ UNCHANGED <<sessVars, link, strVars, appVars, sent, fin>>

NextControl(e) ==
  /\ controlCh[e] # <<>>
  /\ controlCh' = [controlCh EXCEPT ![e] = Tail(@)]
  /\ UNCHANGED <<nextID, phase, serr, streams, accept, loop, opening,
                 netVars, strVars, appVars, histVars>>

-----------------------------------------------------------------------------
(* closeWithErr, called by Close and by readLoop.  closeOnce makes every    *)
(* caller but the first a no-op.                                            *)

CloseWithErr(e, x) ==
  /\ phase[e] = "open"
  /\ phase' = [phase EXCEPT ![e] = "closing"]
  /\ serr' = [serr EXCEPT ![e] = x]

SessionClose(e) ==
  /\ e \in SessClosers
  /\ CloseWithErr(e, "ErrSessionClosed")
  /\ UNCHANGED <<nextID, streams, accept, controlCh, loop, opening,
                 netVars, strVars, appVars, histVars>>

ForgetfulSweep(e) ==
  /\ phase[e] = "closing"
  /\ phase' = [phase EXCEPT ![e] = "swept"]
  /\ streams' = [streams EXCEPT ![e] = {}]
  /\ UNCHANGED <<nextID, serr, accept, controlCh, loop, opening, netVars,
                 buf, remoteClosed, err, closePc, appVars, histVars>>

\* The rest of closeWithErr, under mu: fail every stream, empty the map.
Sweep(e) ==
  /\ phase[e] = "closing"
  /\ phase' = [phase EXCEPT ![e] = "swept"]
  /\ err' = [err EXCEPT ![e] =
               [i \in Ids |-> IF i \in streams[e] /\ err[e][i] = "nil"
                              THEN serr[e] ELSE err[e][i]]]
  /\ streams' = [streams EXCEPT ![e] = {}]
  /\ UNCHANGED <<nextID, serr, accept, controlCh, loop, opening, netVars,
                 buf, remoteClosed, closePc, appVars, histVars>>

-----------------------------------------------------------------------------
(* readLoop *)

GoTo(e, l) == loop' = [loop EXCEPT ![e] = l]
Holding(e, t) == loop[e].at = "got" /\ loop[e].f.typ = t

ReadFrame(e) ==
  /\ loop[e] = Reading
  /\ phase[e] = "open"
  /\ wire[e] # <<>>
  /\ GoTo(e, At("got", Head(wire[e])))
  /\ wire' = [wire EXCEPT ![e] = Tail(@)]
  /\ UNCHANGED <<nextID, phase, serr, streams, accept, controlCh, opening,
                 link, strVars, appVars, histVars>>

\* readFrame fails: the peer's end of the connection closed and everything
\* it sent was read, or the connection was lost, or this end closed it.
ReadError(e) ==
  /\ loop[e] = Reading
  /\ \/ /\ link = "up" /\ phase[Peer(e)] # "open" /\ wire[e] = <<>>
        /\ CloseWithErr(e, "EOF")
     \/ /\ link = "down"
        /\ CloseWithErr(e, "reset")
     \/ /\ phase[e] # "open"
        /\ UNCHANGED <<phase, serr>>
  /\ GoTo(e, Done)
  /\ UNCHANGED <<nextID, streams, accept, controlCh, opening,
                 netVars, strVars, appVars, histVars>>

\* A full control channel drops the message; a closed session ends the loop.
HandleControl(e) ==
  /\ Holding(e, "control")
  /\ \/ /\ Len(controlCh[e]) < ControlCap
        /\ controlCh' = [controlCh EXCEPT ![e] = Append(@, loop[e].f.msg)]
        /\ GoTo(e, Reading)
     \/ /\ Len(controlCh[e]) >= ControlCap /\ phase[e] = "open"
        /\ GoTo(e, Reading)
        /\ UNCHANGED controlCh
     \/ /\ phase[e] # "open"
        /\ GoTo(e, Done)
        /\ UNCHANGED controlCh
  /\ UNCHANGED <<nextID, phase, serr, streams, accept, opening,
                 netVars, strVars, appVars, histVars>>

\* The new stream enters the map whether or not the session is closed.
HandleOpen(e) ==
  /\ Holding(e, "open")
  /\ streams' = Add(streams, e, loop[e].f.id)
  /\ GoTo(e, At("accept", loop[e].f))
  /\ UNCHANGED <<nextID, phase, serr, accept, controlCh, opening,
                 netVars, strVars, appVars, histVars>>

PushAccept(e) ==
  /\ loop[e].at = "accept"
  /\ \/ /\ Len(accept[e]) < AcceptCap
        /\ accept' = [accept EXCEPT ![e] = Append(@, loop[e].f.id)]
        /\ GoTo(e, Reading)
     \/ /\ phase[e] # "open"
        /\ GoTo(e, Done)
        /\ UNCHANGED accept
  /\ UNCHANGED <<nextID, phase, serr, streams, controlCh, opening,
                 netVars, strVars, appVars, histVars>>

HandleData(e) ==
  /\ Holding(e, "data")
  /\ GoTo(e, IF loop[e].f.id \in streams[e]
             THEN At("deliver", loop[e].f) ELSE Reading)
  /\ UNCHANGED <<nextID, phase, serr, streams, accept, controlCh, opening,
                 netVars, strVars, appVars, histVars>>

\* Stream.deliver: the stream may have ended since it was looked up.
Deliver(e) ==
  LET i == loop[e].f.id IN
  /\ loop[e].at = "deliver"
  /\ buf' = IF closePc[e][i] = "no" /\ i \notin remoteClosed[e]
                 /\ err[e][i] = "nil"
            THEN [buf EXCEPT ![e][i] = Append(@, loop[e].f.n)] ELSE buf
  /\ GoTo(e, Reading)
  /\ UNCHANGED <<nextID, phase, serr, streams, accept, controlCh, opening,
                 netVars, remoteClosed, err, closePc, appVars, histVars>>

UndeletingHandleClose(e) ==
  /\ Holding(e, "close")
  /\ GoTo(e, IF loop[e].f.id \in streams[e]
             THEN At("remoteClose", loop[e].f) ELSE Reading)
  /\ UNCHANGED <<nextID, phase, serr, streams, accept, controlCh, opening,
                 netVars, strVars, appVars, histVars>>

HandleClose(e) ==
  /\ Holding(e, "close")
  /\ GoTo(e, IF loop[e].f.id \in streams[e]
             THEN At("remoteClose", loop[e].f) ELSE Reading)
  /\ streams' = Drop(streams, e, loop[e].f.id)
  /\ UNCHANGED <<nextID, phase, serr, accept, controlCh, opening,
                 netVars, strVars, appVars, histVars>>

LostRemoteClose(e) ==
  /\ loop[e].at = "remoteClose"
  /\ GoTo(e, Reading)
  /\ UNCHANGED <<nextID, phase, serr, streams, accept, controlCh, opening,
                 netVars, strVars, appVars, histVars>>

RemoteClose(e) ==
  /\ loop[e].at = "remoteClose"
  /\ remoteClosed' = Add(remoteClosed, e, loop[e].f.id)
  /\ GoTo(e, Reading)
  /\ UNCHANGED <<nextID, phase, serr, streams, accept, controlCh, opening,
                 netVars, buf, err, closePc, appVars, histVars>>

ReadLoop(e) ==
  \/ ReadFrame(e) \/ ReadError(e)
  \/ HandleControl(e) \/ HandleOpen(e) \/ PushAccept(e)
  \/ HandleData(e) \/ Deliver(e) \/ HandleClose(e) \/ RemoteClose(e)

-----------------------------------------------------------------------------
(* Stream.Write: one test, then writeData's loop of DATA frames *)

StartWrite(e, i) ==
  /\ e \in Writers /\ i \in held[e] \ writing[e]
  /\ closePc[e][i] = "no" /\ err[e][i] = "nil"
  /\ sent[e][i] < MaxChunks
  /\ writing' = Add(writing, e, i)
  /\ UNCHANGED <<sessVars, netVars, strVars, held, rd, got, histVars>>

WriteChunk(e, i) ==
  /\ i \in writing[e]
  /\ \/ /\ Written(e, DataFrame(i, sent[e][i] + 1))
        /\ sent' = [sent EXCEPT ![e][i] = @ + 1]
        /\ \/ writing' = Drop(writing, e, i)
           \/ sent[e][i] + 1 < MaxChunks /\ UNCHANGED writing
     \/ /\ WriteFails(e)
        /\ writing' = Drop(writing, e, i)
        /\ UNCHANGED <<wire, sent>>
  /\ UNCHANGED <<sessVars, link, strVars, held, rd, got, fin, ctl>>

(* Stream.Close: set localClosed, leave the map, write the CLOSE frame *)

CloseLocal(e, i) ==
  /\ e \in Closers /\ i \in held[e]
  /\ closePc[e][i] = "no"
  /\ closePc' = [closePc EXCEPT ![e][i] = "remove"]
  /\ UNCHANGED <<sessVars, netVars, buf, remoteClosed, err, appVars, histVars>>

CloseRemove(e, i) ==
  /\ closePc[e][i] = "remove"
  /\ closePc' = [closePc EXCEPT ![e][i] = "send"]
  /\ streams' = Drop(streams, e, i)
  /\ UNCHANGED <<nextID, phase, serr, accept, controlCh, loop, opening,
                 netVars, buf, remoteClosed, err, appVars, histVars>>

CloseSend(e, i) ==
  /\ closePc[e][i] = "send"
  /\ closePc' = [closePc EXCEPT ![e][i] = "done"]
  /\ \/ /\ Written(e, CloseFrame(i))
        /\ fin' = [fin EXCEPT ![e][i] = sent[e][i]]
     \/ /\ WriteFails(e)
        /\ UNCHANGED <<wire, fin>>
  /\ UNCHANGED <<sessVars, link, buf, remoteClosed, err, appVars, sent, ctl>>

(* Stream.Read: buffered data first, then the stream's end *)

HastyRead(e, i) ==
  /\ i \in held[e] /\ rd[e][i] = "none"
  /\ \/ /\ buf[e][i] # <<>>
        /\ buf' = [buf EXCEPT ![e][i] = Tail(@)]
        /\ got' = [got EXCEPT ![e][i] = @ + 1]
        /\ UNCHANGED rd
     \/ /\ i \in remoteClosed[e]
        /\ rd' = [rd EXCEPT ![e][i] = "EOF"]
        /\ UNCHANGED <<buf, got>>
  /\ UNCHANGED <<sessVars, netVars, remoteClosed, err, closePc,
                 held, writing, histVars>>

\* What Read returns when nothing is buffered; "wait" when it waits.  Only the
\* tests set a read deadline on a stream, so none passes here.
EmptyRead(e, i) ==
  IF err[e][i] # "nil" THEN err[e][i]
  ELSE IF i \in remoteClosed[e] THEN "EOF"
  ELSE IF closePc[e][i] # "no" THEN "ErrClosed"
  ELSE "wait"

Read(e, i) ==
  /\ i \in held[e] /\ rd[e][i] = "none"
  /\ \/ /\ buf[e][i] # <<>>
        /\ buf' = [buf EXCEPT ![e][i] = Tail(@)]
        /\ got' = [got EXCEPT ![e][i] = @ + 1]
        /\ UNCHANGED rd
     \/ /\ buf[e][i] = <<>>
        /\ EmptyRead(e, i) # "wait"
        /\ rd' = [rd EXCEPT ![e][i] = EmptyRead(e, i)]
        /\ UNCHANGED <<buf, got>>
  /\ UNCHANGED <<sessVars, netVars, remoteClosed, err, closePc,
                 held, writing, histVars>>

-----------------------------------------------------------------------------
StreamStep(e, i) ==
  \/ OpenSend(e, i)
  \/ StartWrite(e, i) \/ WriteChunk(e, i)
  \/ CloseLocal(e, i) \/ CloseRemove(e, i) \/ CloseSend(e, i)
  \/ Read(e, i)

Next ==
  \/ LinkDown
  \/ \E e \in Ends :
       \/ OpenInsert(e) \/ Accept(e)
       \/ NextControl(e) \/ \E c \in Control : SendControl(e, c)
       \/ SessionClose(e) \/ Sweep(e)
       \/ ReadLoop(e)
       \/ \E i \in Ids : StreamStep(e, i)

Spec == Init /\ [][Next]_vars

\* Goroutines that have started a call finish it, readLoop and Accept loops
\* run, and a reader keeps calling Read.  Nobody is obliged to open, write or
\* close.  A lost connection is eventually noticed by readLoop because Go
\* turns TCP keep-alive on for dialed and accepted connections.
Fairness ==
  \A e \in Ends :
    /\ WF_vars(ReadLoop(e))
    /\ WF_vars(Sweep(e))
    /\ WF_vars(Accept(e))
    /\ \A i \in Ids : /\ WF_vars(OpenSend(e, i))
                      /\ WF_vars(WriteChunk(e, i))
                      /\ WF_vars(CloseRemove(e, i))
                      /\ WF_vars(CloseSend(e, i))
                      /\ WF_vars(Read(e, i))

FairSpec == Spec /\ Fairness

-----------------------------------------------------------------------------
(* Properties *)

Parity(e) == IF e = "client" THEN 1 ELSE 0
OwnIds(e) == {i \in Ids : i % 2 = Parity(e)}

\* The OPEN frame of stream i is on its way to e.
OpenInFlight(e, i) ==
  \/ \E k \in DOMAIN wire[e] : wire[e][k].typ = "open" /\ wire[e][k].id = i
  \/ Holding(e, "open") /\ loop[e].f.id = i
\* readLoop is about to tell stream i that the peer closed it.
Ending(e, i) == loop[e].at = "remoteClose" /\ loop[e].f.id = i
Queued(e, i) == \E k \in DOMAIN accept[e] : accept[e][k] = i

\* An id announced by the peer's OPEN frame is never one this end already
\* uses or has handed out, so readLoop's unconditional map insert replaces
\* no live stream, although both ends allocate ids without coordination.
NoIdCollision ==
  \A e \in Ends : \A i \in Ids :
    OpenInFlight(e, i) => /\ i \notin streams[e] \cup opening[e] \cup held[e]
                          /\ ~Queued(e, i)

\* What a stream has buffered is what the peer wrote next, in order and without
\* a gap.
InOrder ==
  \A e \in Ends : \A i \in Ids :
    /\ \A k \in DOMAIN buf[e][i] : buf[e][i][k] = got[e][i] + k
    /\ got[e][i] + Len(buf[e][i]) <= sent[Peer(e)][i]

\* A stream the peer closed ends in EOF and never in the session's error,
\* also when the session dies between readLoop's map delete and remoteClose.
RemoteCloseNeverError ==
  \A e \in Ends : \A i \in remoteClosed[e] : err[e][i] = "nil"

\* No stream made by Open outlives its session: once closeWithErr has swept
\* the map, every stream Open returned or is about to return has failed, was
\* closed by one side, or is out of the map for good.
OpenedStreamsEnded ==
  \A e \in Ends : phase[e] = "swept" =>
    \A i \in OwnIds(e) \cap (held[e] \cup opening[e]) :
      /\ i \notin streams[e]
      /\ \/ err[e][i] # "nil" \/ i \in remoteClosed[e] \/ closePc[e][i] # "no"
         \/ Ending(e, i)

\* A reader of an opened stream is released once its session is closed.
OpenedReaderReleased ==
  \A e \in Ends : \A i \in OwnIds(e) :
    (phase[e] # "open" /\ i \in held[e]) ~> rd[e][i] # "none"

\* A CLOSE ends the peer's reader, or the peer's session ends.
CloseReachesReader ==
  \A e \in Ends : \A i \in Ids :
    (fin[Peer(e)][i] >= 0 /\ i \in held[e])
       ~> (rd[e][i] # "none" \/ phase[e] # "open")

\* Each direction of each stream, seen from the end e that reads it, is a
\* ByteStream.
Bytes(e, i) == INSTANCE ByteStream WITH
  sent <- sent[Peer(e)][i], fin <- fin[Peer(e)][i],
  got <- got[e][i], end <- rd[e][i],
  lost <- (phase[e] # "open"), shut <- (closePc[e][i] # "no")

\* Sessions over one connection promise what ByteStream says of a direction:
\* a program reads the chunks the peer wrote, in order and without a gap, and
\* EOF only after all of them, whatever is closed, lost or interleaved.
ImplementsByteStream ==
  /\ []InOrder
  /\ \A e \in Ends : \A i \in Ids : Bytes(e, i)!Init
  /\ [][\A e \in Ends : \A i \in Ids :
          Bytes(e, i)!Next \/ UNCHANGED Bytes(e, i)!vars]_vars

-----------------------------------------------------------------------------
(* The inductive invariant behind NoIdCollision, RemoteCloseNeverError and  *)
(* OpenedStreamsEnded: a stream's life at one end is a line, from ids that  *)
(* are not there yet, through the map, to an end it never comes back from.  *)

\* Ids that have not reached the map of e: not allocated, or announced by an
\* OPEN that e has not handled.
Unarrived(e, i) ==
  \/ i \in OwnIds(e) /\ i >= nextID[e]
  \/ i \in OwnIds(Peer(e))
       /\ \/ i >= nextID[Peer(e)]
          \/ i \in opening[Peer(e)]
          \/ OpenInFlight(e, i)

BusyWith(e, i) ==
  loop[e].at \in {"accept", "deliver", "remoteClose"} /\ loop[e].f.id = i

\* Ids are allocated by parity, and an OPEN frame is announced once.
AllocInv ==
  \A e \in Ends :
    /\ nextID[e] % 2 = Parity(e)
    /\ \A i \in opening[e] :
         i \in OwnIds(e) /\ i < nextID[e] /\ i \notin held[e]
    /\ \A i \in Ids : OpenInFlight(Peer(e), i) =>
         i \in OwnIds(e) /\ i < nextID[e] /\ i \notin opening[e]
    /\ \A i \in Ids : Queued(Peer(e), i) => i \in OwnIds(e)
    /\ loop[Peer(e)].at = "accept" => loop[Peer(e)].f.id \in OwnIds(e)

OpenOnce ==
  \A e \in Ends : \A j \in DOMAIN wire[e] : wire[e][j].typ = "open" =>
    /\ \A k \in DOMAIN wire[e] :
         wire[e][k].typ = "open" /\ wire[e][k].id = wire[e][j].id => k = j
    /\ ~(Holding(e, "open") /\ loop[e].f.id = wire[e][j].id)

\* Nothing at e refers to a stream that has not arrived.
UnarrivedInv ==
  \A e \in Ends : \A i \in Ids : Unarrived(e, i) =>
    /\ i \notin streams[e] \cup held[e] \cup remoteClosed[e]
    /\ ~Queued(e, i) /\ ~BusyWith(e, i)
    /\ err[e][i] = "nil" /\ closePc[e][i] = "no"

\* A stream in the map has no error, and one the peer closed is out of it.
MapInv ==
  \A e \in Ends : \A i \in Ids :
    /\ i \in streams[e] => err[e][i] = "nil"
    /\ i \in remoteClosed[e] \/ Ending(e, i) =>
         i \notin streams[e] /\ err[e][i] = "nil"

\* An opened stream is in the map until something ends it.
OwnInv ==
  \A e \in Ends :
    /\ \A i \in OwnIds(e) \cap (held[e] \cup opening[e]) :
         \/ i \in streams[e] \/ err[e][i] # "nil" \/ i \in remoteClosed[e]
         \/ closePc[e][i] # "no" \/ Ending(e, i)
    /\ phase[e] = "swept" => streams[e] \cap OwnIds(e) = {}

\* A closed session has its error.
SerrInv == \A e \in Ends : phase[e] # "open" => serr[e] # "nil"

IInv ==
  /\ TypeOK /\ SerrInv
  /\ AllocInv /\ OpenOnce /\ UnarrivedInv /\ MapInv /\ OwnInv

-----------------------------------------------------------------------------
(* The inductive invariant behind ImplementsByteStream: what is on its way   *)
(* to a stream that still receives continues, without a gap, what it has.    *)

IsOpen(f, i) == f.typ = "open" /\ f.id = i
IsData(f, i) == f.typ = "data" /\ f.id = i
IsClose(f, i) == f.typ = "close" /\ f.id = i

\* Frames w of stream i, of whose chunks s were written and c before the CLOSE,
\* travel in the order they were written.
Ordered(w, i, s, c) ==
  \A k \in 1..Len(w) :
    /\ IsData(w[k], i) =>
         /\ w[k].n \in 1..s
         /\ \A j \in 1..(k - 1) : IsData(w[j], i) => w[j].n < w[k].n
    /\ IsClose(w[k], i) =>
         /\ c # -1
         /\ \A j \in 1..(k - 1) : IsData(w[j], i) => w[j].n <= c
\* Its OPEN comes first.
Announced(w, i) ==
  \A k \in 1..Len(w) : IsData(w[k], i) \/ IsClose(w[k], i) =>
    \E j \in 1..(k - 1) : IsOpen(w[j], i)
\* Chunk n is the first, and none is missing between it and another or the CLOSE.
Gapless(w, i, n, c) ==
  \A k \in 1..Len(w) :
    /\ IsData(w[k], i) =>
         /\ w[k].n >= n
         /\ w[k].n = n \/ \E j \in 1..(k - 1) : IsData(w[j], i) /\ w[j].n = w[k].n - 1
    /\ IsClose(w[k], i) =>
         c + 1 = n \/ \E j \in 1..(k - 1) : IsData(w[j], i) /\ w[j].n = c
\* The last chunk written has been read from the connection or is among them.
Complete(w, i, n, s) ==
  s + 1 = n \/ \E k \in 1..Len(w) : IsData(w[k], i) /\ w[k].n = s
\* The CLOSE is among them; the CLOSE was lost, and whatever followed it.
HasClose(w, i) == \E k \in 1..Len(w) : IsClose(w[k], i)
CutBefore(w, i, c) == \A k \in 1..Len(w) : IsData(w[k], i) => w[k].n <= c

\* A stream at e takes what arrives for it, now or once its OPEN is handled.
Receives(e, i) ==
  closePc[e][i] = "no" /\ (i \in streams[e] \/ Unarrived(e, i))
\* Nothing sent to e is lost.
Lossless(e) == link = "up" /\ phase[e] = "open"

\* The chunks that have reached the stream; readLoop has one more in its hands;
\* the next to come from the connection.
Taken(e, i) == got[e][i] + Len(buf[e][i])
Carrying(e, i) == loop[e].at \in {"got", "deliver"} /\ IsData(loop[e].f, i)
Due(e, i) == Taken(e, i) + IF Carrying(e, i) THEN 2 ELSE 1
\* readLoop has read the OPEN, or the CLOSE.
Arriving(e, i) == loop[e].at = "got" /\ IsOpen(loop[e].f, i)
Closing(e, i) == loop[e].at = "got" /\ IsClose(loop[e].f, i)

\* Who writes has got the stream from Open or Accept; a CLOSE ends Close; only
\* a closed session fails streams.
WriterInv ==
  \A e \in Ends : \A i \in Ids :
    /\ i \in writing[e] \/ sent[e][i] # 0 \/ closePc[e][i] # "no" => i \in held[e]
    /\ fin[e][i] # -1 => closePc[e][i] = "done" /\ fin[e][i] <= sent[e][i]
    /\ err[e][i] # "nil" => phase[e] # "open"

Travels(e, i) ==
  /\ Ordered(wire[e], i, sent[Peer(e)][i], fin[Peer(e)][i])
  /\ Unarrived(e, i) => Arriving(e, i) \/ Announced(wire[e], i)

\* The frame in readLoop's hands is a frame that was written, of a stream whose
\* OPEN was handled before.
Handles(e, i) ==
  /\ Carrying(e, i) => loop[e].f.n \in 1..sent[Peer(e)][i] /\ ~Unarrived(e, i)
  /\ Closing(e, i) \/ Ending(e, i) => fin[Peer(e)][i] # -1 /\ ~Unarrived(e, i)

\* readLoop delivers to a stream that it found in the map, and that has ended if
\* it is no longer there.
Delivers(e, i) ==
  loop[e].at = "deliver" /\ loop[e].f.id = i =>
    /\ loop[e].f.typ = "data"
    /\ i \in streams[e] \/ err[e][i] # "nil" \/ closePc[e][i] # "no"

\* What a stream has is what was written first, before the CLOSE; all of it once
\* the stream has been told of the CLOSE.
Holds(e, i) ==
  /\ \A k \in DOMAIN buf[e][i] : buf[e][i][k] = got[e][i] + k
  /\ Taken(e, i) <= sent[Peer(e)][i]
  /\ fin[Peer(e)][i] # -1 => Taken(e, i) <= fin[Peer(e)][i]
  /\ i \in remoteClosed[e] \/ Ending(e, i) =>
       closePc[e][i] # "no" \/ Taken(e, i) = fin[Peer(e)][i]

\* Nothing is missing between what a receiving stream has and what its peer has
\* written, unless the connection or this session has ended.
Continues(e, i) ==
  LET w == wire[e]
      s == sent[Peer(e)][i]
      c == fin[Peer(e)][i]
      n == Due(e, i) IN
  /\ Carrying(e, i) => loop[e].f.n = Taken(e, i) + 1
  /\ n <= s + 1
  /\ Gapless(w, i, n, c)
  /\ Lossless(e) => Complete(w, i, n, s)
  /\ c # -1 => /\ n <= c + 1
               /\ \/ Closing(e, i) \/ HasClose(w, i)
                  \/ ~Lossless(e) /\ CutBefore(w, i, c)
  /\ Closing(e, i) => c + 1 = n

Flow(e, i) ==
  /\ Travels(e, i) /\ Handles(e, i) /\ Holds(e, i)
  /\ Receives(e, i) => Continues(e, i)

FlowInv ==
  /\ IInv /\ WriterInv
  /\ \A e \in Ends : \A i \in Ids : Flow(e, i) /\ Delivers(e, i)
=============================================================================
