---------------------------- MODULE TunnelProofs ----------------------------
(* Proofs about Tunnel for every number of streams, chunks and every       *)
(* channel capacity, and about the agent's registration over it.           *)
EXTENDS AgentLink, TLAPS

USE Zenon

-----------------------------------------------------------------------------
(* Type correctness, and what a step does to the frames that are on the
   way or in readLoop's hands *)

(* The tunnel's state keeps its types. *)
LEMMA TypeInit == Init => TypeOK
<1> SUFFICES ASSUME Init PROVE TypeOK
  OBVIOUS
<1> FirstID("client") \in Nat /\ FirstID("server") \in Nat
  BY DEF FirstID
<1> QED
  BY SMT DEF Init, TypeOK, FirstID, Ends, Loop, Reading, ReadEnd

(* What the helpers that update the state return. *)
LEMMA AddDropType ==
  ASSUME NEW F \in [Ends -> SUBSET Ids], NEW e \in Ends, NEW i \in Ids
  PROVE  Add(F, e, i) \in [Ends -> SUBSET Ids]
         /\ Drop(F, e, i) \in [Ends -> SUBSET Ids]
BY DEF Add, Drop

(* readLoop moves between its places only. *)
LEMMA GoToType ==
  ASSUME TypeOK, NEW e \in Ends, NEW l \in Loop, GoTo(e, l)
  PROVE  loop' \in [Ends -> Loop]
BY DEF TypeOK, GoTo

(* The places of readLoop that its steps go to. *)
LEMMA LoopPlaces ==
  /\ Reading \in Loop /\ Done \in Loop
  /\ \A f \in Frame : At("got", f) \in Loop
  /\ \A f \in StreamFrame : /\ At("accept", f) \in Loop
                            /\ At("deliver", f) \in Loop
                            /\ At("remoteClose", f) \in Loop
BY DEF Loop, Reading, Done, At

(* The number of the next chunk. *)
LEMMA NextChunk ==
  ASSUME TypeOK, NEW e \in Ends, NEW i \in Ids
  PROVE  sent[e][i] \in Nat /\ sent[e][i] + 1 \in Nat
<1>1. sent[e][i] \in Nat
  BY DEF TypeOK
<1> QED BY SMT, <1>1

(* The frame readLoop holds is a frame, and one of a stream beyond "got". *)
LEMMA LoopFrame ==
  ASSUME TypeOK, NEW e \in Ends
  PROVE  /\ loop[e].at = "got" => loop[e].f \in Frame
         /\ loop[e].at \in {"accept", "deliver", "remoteClose"}
              => loop[e].f \in StreamFrame
<1> loop[e] \in Loop
  BY DEF TypeOK
<1> QED
  BY SMT DEF Loop, Reading, Done

(* The fields of the frame readLoop holds, by the frame's type. *)
LEMMA HeldFrame ==
  ASSUME TypeOK, NEW e \in Ends
  PROVE  /\ Holding(e, "control") => loop[e].f.msg \in Control
         /\ Holding(e, "open") \/ Holding(e, "data") \/ Holding(e, "close")
              => loop[e].f \in StreamFrame /\ loop[e].f.id \in Ids
         /\ loop[e].at \in {"accept", "deliver", "remoteClose"}
              => loop[e].f.id \in Ids /\ loop[e].f.n \in Nat
BY LoopFrame DEF Holding, Frame, StreamFrame

(* writeFrame puts one more frame on the wire, or none. *)
LEMMA WrittenType ==
  ASSUME TypeOK, NEW e \in Ends, NEW f \in Frame, Written(e, f)
  PROVE  wire' \in [Ends -> Seq(Frame)]
<1> Peer(e) \in Ends
  BY DEF Peer, Ends
<1> wire \in [Ends -> Seq(Frame)]
  BY DEF TypeOK
<1> Append(wire[Peer(e)], f) \in Seq(Frame)
  BY SMT
<1> QED
  BY DEF Written

(* Every operation of the session and its streams keeps the types. *)
LEMMA TypeStep == TypeOK /\ [Next]_vars => TypeOK'
<1> SUFFICES ASSUME TypeOK, [Next]_vars PROVE TypeOK'
  OBVIOUS
<1> USE TunnelAssumption
<1>1. CASE UNCHANGED vars
  BY <1>1 DEF TypeOK, vars
<1>2. CASE LinkDown
  BY <1>2 DEF TypeOK, LinkDown, sessVars, strVars, appVars, histVars
<1>3. ASSUME NEW e \in Ends, OpenInsert(e) PROVE TypeOK'
  <2>1. streams' \in [Ends -> SUBSET Ids] /\ opening' \in [Ends -> SUBSET Ids]
    BY <1>3, AddDropType DEF OpenInsert, TypeOK
  <2>2. nextID' \in [Ends -> Nat]
    <3>1. nextID \in [Ends -> Nat] /\ nextID' = [nextID EXCEPT ![e] = @ + 2]
      BY <1>3 DEF OpenInsert, TypeOK
    <3> QED BY SMT, <3>1
  <2> QED
    BY <1>3, <2>1, <2>2
       DEF TypeOK, OpenInsert, netVars, strVars, appVars, histVars
<1>4. ASSUME NEW e \in Ends, Accept(e) PROVE TypeOK'
  <2>0. accept[e] \in Seq(Ids) /\ accept[e] # <<>>
    BY <1>4 DEF Accept, TypeOK
  <2>1. Head(accept[e]) \in Ids /\ Tail(accept[e]) \in Seq(Ids)
    BY SMT, <2>0
  <2>2. held' \in [Ends -> SUBSET Ids]
    BY <1>4, <2>1, AddDropType DEF Accept, TypeOK
  <2>3. accept' \in [Ends -> Seq(Ids)]
    BY <1>4, <2>1 DEF Accept, TypeOK
  <2> QED
    BY <1>4, <2>2, <2>3 DEF TypeOK, Accept, netVars, strVars, histVars
<1>5. ASSUME NEW e \in Ends, NextControl(e) PROVE TypeOK'
  <2>1. controlCh \in [Ends -> Seq(Control)]
    BY DEF TypeOK
  <2>2. controlCh' \in [Ends -> Seq(Control)]
    BY SMT, <1>5, <2>1 DEF NextControl
  <2> QED
    BY <1>5, <2>2 DEF TypeOK, NextControl, netVars, strVars, appVars, histVars
<1>6. ASSUME NEW e \in Ends, NEW c \in Control, SendControl(e, c) PROVE TypeOK'
  <2>1. ControlFrame(c) \in Frame
    BY DEF ControlFrame, Frame
  <2>2. wire' \in [Ends -> Seq(Frame)]
    BY <1>6, <2>1, WrittenType DEF SendControl
  <2>3. ctl' \in [Ends -> Nat]
    BY SMT, <1>6 DEF SendControl, TypeOK
  <2> QED
    BY <1>6, <2>2, <2>3 DEF TypeOK, SendControl, sessVars, strVars, appVars
<1>7. ASSUME NEW e \in Ends, SessionClose(e) PROVE TypeOK'
  BY <1>7 DEF TypeOK, SessionClose, CloseWithErr, SessionErr, netVars,
              strVars, appVars, histVars
<1>8. ASSUME NEW e \in Ends, Sweep(e) PROVE TypeOK'
  BY <1>8 DEF TypeOK, Sweep, netVars, appVars, histVars
<1>9. ASSUME NEW e \in Ends, ReadLoop(e) PROVE TypeOK'
  <2>1. CASE ReadFrame(e)
    <3>0. wire[e] \in Seq(Frame) /\ wire[e] # <<>>
      BY <2>1 DEF ReadFrame, TypeOK
    <3>1. Head(wire[e]) \in Frame /\ Tail(wire[e]) \in Seq(Frame)
      BY SMT, <3>0
    <3>2. loop' \in [Ends -> Loop]
      BY <2>1, <3>1, LoopPlaces, GoToType DEF ReadFrame
    <3>3. wire' \in [Ends -> Seq(Frame)]
      BY <2>1, <3>1 DEF ReadFrame, TypeOK
    <3> QED
      BY <2>1, <3>2, <3>3 DEF TypeOK, ReadFrame, strVars, appVars, histVars
  <2>2. CASE ReadError(e)
    <3>1. loop' \in [Ends -> Loop]
      BY <2>2, LoopPlaces, GoToType DEF ReadError
    <3>2. phase' \in [Ends -> {"open", "closing", "swept"}]
          /\ serr' \in [Ends -> SessionErr \cup {"nil"}]
      BY <2>2 DEF ReadError, CloseWithErr, SessionErr, TypeOK
    <3> QED
      BY <2>2, <3>1, <3>2
         DEF TypeOK, ReadError, netVars, strVars, appVars, histVars
  <2>3. CASE HandleControl(e)
    <3>1. loop' \in [Ends -> Loop]
      BY <2>3, LoopPlaces, GoToType DEF HandleControl
    <3>2. loop[e].f.msg \in Control
      BY <2>3, HeldFrame DEF HandleControl
    <3>3. controlCh' \in [Ends -> Seq(Control)]
      <4>1. controlCh \in [Ends -> Seq(Control)]
        BY DEF TypeOK
      <4>2. Append(controlCh[e], loop[e].f.msg) \in Seq(Control)
        BY SMT, <3>2, <4>1
      <4> QED
        BY <2>3, <4>1, <4>2 DEF HandleControl
    <3> QED
      BY <2>3, <3>1, <3>3
         DEF TypeOK, HandleControl, netVars, strVars, appVars, histVars
  <2>4. CASE HandleOpen(e)
    <3>1. loop[e].f \in StreamFrame /\ loop[e].f.id \in Ids
      BY <2>4, HeldFrame DEF HandleOpen
    <3>2. loop' \in [Ends -> Loop]
      BY <2>4, <3>1, LoopPlaces, GoToType DEF HandleOpen
    <3>3. streams' \in [Ends -> SUBSET Ids]
      BY <2>4, <3>1, AddDropType DEF HandleOpen, TypeOK
    <3> QED
      BY <2>4, <3>2, <3>3
         DEF TypeOK, HandleOpen, netVars, strVars, appVars, histVars
  <2>5. CASE PushAccept(e)
    <3>1. loop[e].f.id \in Ids
      BY <2>5, HeldFrame DEF PushAccept
    <3>2. loop' \in [Ends -> Loop]
      BY <2>5, LoopPlaces, GoToType DEF PushAccept
    <3>3. accept' \in [Ends -> Seq(Ids)]
      <4>1. accept \in [Ends -> Seq(Ids)]
        BY DEF TypeOK
      <4>2. Append(accept[e], loop[e].f.id) \in Seq(Ids)
        BY SMT, <3>1, <4>1
      <4> QED
        BY <2>5, <4>1, <4>2 DEF PushAccept
    <3> QED
      BY <2>5, <3>2, <3>3
         DEF TypeOK, PushAccept, netVars, strVars, appVars, histVars
  <2>6. CASE HandleData(e)
    <3>1. loop[e].f \in StreamFrame
      BY <2>6, HeldFrame DEF HandleData
    <3>2. loop' \in [Ends -> Loop]
      BY <2>6, <3>1, LoopPlaces, GoToType DEF HandleData
    <3> QED
      BY <2>6, <3>2 DEF TypeOK, HandleData, netVars, strVars, appVars, histVars
  <2>7. CASE Deliver(e)
    <3>1. loop[e].f.id \in Ids /\ loop[e].f.n \in Nat
      BY <2>7, HeldFrame DEF Deliver
    <3>2. loop' \in [Ends -> Loop]
      BY <2>7, LoopPlaces, GoToType DEF Deliver
    <3>3. Append(buf[e][loop[e].f.id], loop[e].f.n) \in Seq(Nat)
      BY SMT, <3>1 DEF TypeOK
    <3>4. buf' \in [Ends -> [Ids -> Seq(Nat)]]
      BY <2>7, <3>1, <3>3 DEF Deliver, TypeOK
    <3> QED
      BY <2>7, <3>2, <3>4 DEF TypeOK, Deliver, netVars, appVars, histVars
  <2>8. CASE HandleClose(e)
    <3>1. loop[e].f \in StreamFrame /\ loop[e].f.id \in Ids
      BY <2>8, HeldFrame DEF HandleClose
    <3>2. loop' \in [Ends -> Loop]
      BY <2>8, <3>1, LoopPlaces, GoToType DEF HandleClose
    <3>3. streams' \in [Ends -> SUBSET Ids]
      BY <2>8, <3>1, AddDropType DEF HandleClose, TypeOK
    <3> QED
      BY <2>8, <3>2, <3>3
         DEF TypeOK, HandleClose, netVars, strVars, appVars, histVars
  <2>9. CASE RemoteClose(e)
    <3>1. loop[e].f.id \in Ids
      BY <2>9, HeldFrame DEF RemoteClose
    <3>2. loop' \in [Ends -> Loop]
      BY <2>9, LoopPlaces, GoToType DEF RemoteClose
    <3>3. remoteClosed' \in [Ends -> SUBSET Ids]
      BY <2>9, <3>1, AddDropType DEF RemoteClose, TypeOK
    <3> QED
      BY <2>9, <3>2, <3>3 DEF TypeOK, RemoteClose, netVars, appVars, histVars
  <2> QED
    BY <1>9, <2>1, <2>2, <2>3, <2>4, <2>5, <2>6, <2>7, <2>8, <2>9 DEF ReadLoop
<1>10. ASSUME NEW e \in Ends, NEW i \in Ids, StreamStep(e, i) PROVE TypeOK'
  <2>1. CASE OpenSend(e, i)
    <3>1. OpenFrame(i) \in Frame
      BY DEF OpenFrame, Frame, StreamFrame
    <3>2. wire' \in [Ends -> Seq(Frame)]
      BY <2>1, <3>1, WrittenType DEF OpenSend, TypeOK
    <3>3. /\ opening' \in [Ends -> SUBSET Ids]
          /\ held' \in [Ends -> SUBSET Ids]
          /\ streams' \in [Ends -> SUBSET Ids]
      <4>1. /\ opening \in [Ends -> SUBSET Ids]
            /\ held \in [Ends -> SUBSET Ids]
            /\ streams \in [Ends -> SUBSET Ids]
        BY DEF TypeOK
      <4> QED
        BY SMT, <2>1, <4>1, AddDropType DEF OpenSend
    <3> QED
      BY <2>1, <3>2, <3>3 DEF TypeOK, OpenSend, strVars, histVars
  <2>2. CASE StartWrite(e, i)
    BY <2>2, AddDropType
       DEF TypeOK, StartWrite, sessVars, netVars, strVars, histVars
  <2>3. CASE WriteChunk(e, i)
    <3>1. DataFrame(i, sent[e][i] + 1) \in Frame
      BY SMT DEF DataFrame, Frame, StreamFrame, TypeOK
    <3>2. wire' \in [Ends -> Seq(Frame)]
      BY <2>3, <3>1, WrittenType DEF WriteChunk, TypeOK
    <3>3. writing' \in [Ends -> SUBSET Ids]
      <4>1. writing \in [Ends -> SUBSET Ids]
        BY DEF TypeOK
      <4> QED
        BY SMT, <2>3, <4>1, AddDropType DEF WriteChunk
    <3>4. sent' \in [Ends -> [Ids -> Nat]]
      <4>1. sent \in [Ends -> [Ids -> Nat]]
        BY DEF TypeOK
      <4> QED
        BY SMT, <2>3, <4>1 DEF WriteChunk
    <3> QED
      BY <2>3, <3>2, <3>3, <3>4 DEF TypeOK, WriteChunk, sessVars, strVars
  <2>4. CASE CloseLocal(e, i)
    BY <2>4 DEF TypeOK, CloseLocal, sessVars, netVars, appVars, histVars
  <2>5. CASE CloseRemove(e, i)
    BY <2>5, AddDropType DEF TypeOK, CloseRemove, netVars, appVars, histVars
  <2>6. CASE CloseSend(e, i)
    <3>1. CloseFrame(i) \in Frame
      BY DEF CloseFrame, Frame, StreamFrame
    <3>2. wire' \in [Ends -> Seq(Frame)]
      BY <2>6, <3>1, WrittenType DEF CloseSend, TypeOK
    <3>3. fin' \in [Ends -> [Ids -> Nat \cup {-1}]]
      <4>1. fin \in [Ends -> [Ids -> Nat \cup {-1}]] /\ sent[e][i] \in Nat
        BY SMT DEF TypeOK
      <4> QED
        BY SMT, <2>6, <4>1 DEF CloseSend
    <3>4. closePc' \in [Ends -> [Ids -> {"no", "remove", "send", "done"}]]
      BY <2>6 DEF CloseSend, TypeOK
    <3> QED
      BY <2>6, <3>2, <3>3, <3>4 DEF TypeOK, CloseSend, sessVars, appVars
  <2>7. CASE Read(e, i)
    <3>1. EmptyRead(e, i) # "wait" => EmptyRead(e, i) \in ReadEnd
      BY SMT DEF TypeOK, EmptyRead, ReadEnd, SessionErr
    <3>2. rd' \in [Ends -> [Ids -> ReadEnd]]
      <4>1. rd \in [Ends -> [Ids -> ReadEnd]]
        BY DEF TypeOK
      <4> QED
        BY SMT, <2>7, <3>1, <4>1 DEF Read
    <3>3. buf[e][i] # <<>> => Tail(buf[e][i]) \in Seq(Nat)
      BY SMT DEF TypeOK
    <3>4. buf' \in [Ends -> [Ids -> Seq(Nat)]]
      <4>1. buf \in [Ends -> [Ids -> Seq(Nat)]]
        BY DEF TypeOK
      <4>2. \/ buf' = buf
            \/ buf' = [buf EXCEPT ![e][i] = Tail(@)] /\ buf[e][i] # <<>>
        BY <2>7 DEF Read
      <4>3. ASSUME NEW q \in Seq(Nat)
            PROVE  [buf EXCEPT ![e][i] = q] \in [Ends -> [Ids -> Seq(Nat)]]
        BY <4>1
      <4> QED
        BY <3>3, <4>1, <4>2, <4>3
    <3>5. got' \in [Ends -> [Ids -> Nat]]
      <4>1. got \in [Ends -> [Ids -> Nat]]
        BY DEF TypeOK
      <4>2. got' = got \/ got' = [got EXCEPT ![e][i] = @ + 1]
        BY <2>7 DEF Read
      <4> QED
        BY SMT, <4>1, <4>2
    <3> QED
      BY <2>7, <3>2, <3>4, <3>5 DEF TypeOK, Read, sessVars, netVars, histVars
  <2> QED
    BY <1>10, <2>1, <2>2, <2>3, <2>4, <2>5, <2>6, <2>7 DEF StreamStep
<1> QED
  BY <1>1, <1>2, <1>3, <1>4, <1>5, <1>6, <1>7, <1>8, <1>9, <1>10 DEF Next

(* Type correctness of Tunnel. *)
THEOREM TypeCorrect == Spec => []TypeOK
BY TypeInit, TypeStep, PTL DEF Spec

-----------------------------------------------------------------------------
(* Ids and OPEN frames *)

(* There are two ends, each the other's peer, and no id belongs to both. *)
LEMMA PeerFacts ==
  ASSUME NEW e \in Ends
  PROVE  /\ Peer(e) \in Ends /\ Peer(Peer(e)) = e /\ Peer(e) # e
         /\ \A x \in Ends : x = e \/ x = Peer(e)
         /\ OwnIds(e) \cap OwnIds(Peer(e)) = {}
BY SMT DEF Ends, Peer, OwnIds, Parity

(* Writing a frame that is not an OPEN announces no stream. *)
LEMMA OtherFrameWritten ==
  ASSUME TypeOK, OpenOnce, NEW e \in Ends, NEW f \in Frame, f.typ # "open",
         Written(e, f), loop' = loop
  PROVE  /\ OpenOnce'
         /\ \A x \in Ends : \A j \in Ids :
              OpenInFlight(x, j)' <=> OpenInFlight(x, j)
<1>1. CASE UNCHANGED wire
  BY <1>1 DEF OpenOnce, OpenInFlight, Holding
<1>2. CASE wire' = [wire EXCEPT ![Peer(e)] = Append(@, f)]
  <2> DEFINE p == Peer(e)
  <2>1. p \in Ends /\ wire[p] \in Seq(Frame)
    BY PeerFacts DEF TypeOK
  <2>2. /\ Len(wire'[p]) = Len(wire[p]) + 1
        /\ DOMAIN wire[p] = 1..Len(wire[p])
        /\ DOMAIN wire'[p] = 1..(Len(wire[p]) + 1)
        /\ \A k \in DOMAIN wire[p] : wire'[p][k] = wire[p][k]
        /\ wire'[p][Len(wire[p]) + 1] = f
    <3>1. wire'[p] = Append(wire[p], f)
      BY <1>2, <2>1 DEF TypeOK
    <3> QED
      BY SMT, <3>1, <2>1
  <2>3. \A x \in Ends : x # p => wire'[x] = wire[x]
    BY <1>2, <2>1 DEF TypeOK
  <2>4. \A x \in Ends : \A k \in DOMAIN wire'[x] : wire'[x][k].typ = "open" =>
          k \in DOMAIN wire[x] /\ wire'[x][k] = wire[x][k]
    BY SMT, <2>1, <2>2, <2>3
  <2>5. \A x \in Ends : \A k \in DOMAIN wire[x] :
          k \in DOMAIN wire'[x] /\ wire'[x][k] = wire[x][k]
    BY SMT, <2>1, <2>2, <2>3
  <2> HIDE DEF p
  <2> QED
    BY SMT, <2>4, <2>5 DEF OpenOnce, OpenInFlight, Holding
<1> QED
  BY <1>1, <1>2 DEF Written

(* readLoop moving on to anything but a new frame announces no stream, and  *)
(* puts the frame it held behind it.                                        *)
LEMMA LoopMoves ==
  ASSUME TypeOK, OpenOnce, NEW e \in Ends, NEW l \in Loop, l.at # "got",
         GoTo(e, l), wire' = wire
  PROVE  /\ OpenOnce'
         /\ \A x \in Ends : \A j \in Ids :
              OpenInFlight(x, j)' => OpenInFlight(x, j)
         /\ \A j \in Ids :
              Holding(e, "open") /\ loop[e].f.id = j => ~OpenInFlight(e, j)'
<1> loop'[e] = l /\ \A x \in Ends : x # e => loop'[x] = loop[x]
  BY DEF GoTo, TypeOK
<1>1. \A x \in Ends :
        Holding(x, "open")' => Holding(x, "open") /\ loop'[x] = loop[x]
  BY DEF Holding
<1>2. ~Holding(e, "open")'
  BY DEF Holding
<1>3. OpenOnce'
  BY ZenonT(30), <1>1 DEF OpenOnce
<1>4. \A x \in Ends : \A j \in Ids : OpenInFlight(x, j)' => OpenInFlight(x, j)
  BY <1>1 DEF OpenInFlight
<1>5. \A j \in Ids :
        Holding(e, "open") /\ loop[e].f.id = j => ~OpenInFlight(e, j)'
  BY <1>2 DEF OpenOnce, OpenInFlight
<1> QED
  BY <1>3, <1>4, <1>5

(* Taking a frame from the wire keeps every OPEN announced exactly once. *)
LEMMA FrameTaken ==
  ASSUME TypeOK, OpenOnce, NEW e \in Ends, ReadFrame(e)
  PROVE  /\ OpenOnce'
         /\ \A x \in Ends : \A j \in Ids :
              OpenInFlight(x, j)' <=> OpenInFlight(x, j)
<1>1. /\ wire[e] \in Seq(Frame) /\ Len(wire[e]) > 0
      /\ DOMAIN wire[e] = 1..Len(wire[e])
  BY SMT DEF ReadFrame, TypeOK
<1>1a. 1 \in DOMAIN wire[e]
  BY SMT, <1>1
<1>2. /\ DOMAIN wire'[e] = 1..(Len(wire[e]) - 1)
      /\ \A k \in DOMAIN wire'[e] : wire'[e][k] = wire[e][k + 1]
  BY SMT, <1>1 DEF ReadFrame, TypeOK
<1>3. \A x \in Ends : x # e => wire'[x] = wire[x] /\ loop'[x] = loop[x]
  BY DEF ReadFrame, GoTo, TypeOK
<1>4. loop'[e].at = "got" /\ loop'[e].f = wire[e][1] /\ loop[e].at = "read"
  BY SMT, <1>1 DEF ReadFrame, GoTo, TypeOK, At, Reading
<1>5. \A k \in DOMAIN wire[e] : k = 1 \/ k - 1 \in DOMAIN wire'[e]
  BY SMT, <1>1, <1>2
<1>6. \A k \in DOMAIN wire'[e] : k + 1 \in DOMAIN wire[e]
  BY SMT, <1>1, <1>2
<1>6a. \A k \in DOMAIN wire[e] : k # 1 => wire'[e][k - 1] = wire[e][k]
  BY SMT, <1>1, <1>2
<1>7. ASSUME NEW j \in Ids PROVE OpenInFlight(e, j)' <=> OpenInFlight(e, j)
  <2>1. ASSUME OpenInFlight(e, j)' PROVE OpenInFlight(e, j)
    BY <2>1, <1>1a, <1>2, <1>4, <1>6 DEF OpenInFlight, Holding
  <2>2. ASSUME OpenInFlight(e, j) PROVE OpenInFlight(e, j)'
    BY <2>2, <1>1, <1>4, <1>5, <1>6a DEF OpenInFlight, Holding
  <2> QED BY <2>1, <2>2
<1>8. OpenOnce'
  <2> SUFFICES ASSUME NEW x \in Ends, NEW j \in DOMAIN wire'[x],
                      wire'[x][j].typ = "open"
               PROVE  /\ \A k \in DOMAIN wire'[x] :
                           wire'[x][k].typ = "open"
                             /\ wire'[x][k].id = wire'[x][j].id => k = j
                      /\ ~(Holding(x, "open")' /\ loop'[x].f.id = wire'[x][j].id)
    BY DEF OpenOnce, Holding
  <2>1. CASE x # e
    BY SMT, <2>1, <1>3 DEF OpenOnce, Holding
  <2>2. CASE x = e
    <3>1. j + 1 \in DOMAIN wire[e] /\ wire'[e][j] = wire[e][j + 1] /\ j \in Nat
      BY SMT, <2>2, <1>1, <1>2, <1>6
    <3>2. \A k \in DOMAIN wire'[e] : wire'[e][k].typ = "open"
             /\ wire'[e][k].id = wire'[e][j].id => k = j
      <4> TAKE k \in DOMAIN wire'[e]
      <4> HAVE wire'[e][k].typ = "open" /\ wire'[e][k].id = wire'[e][j].id
      <4>1. k + 1 \in DOMAIN wire[e] /\ wire'[e][k] = wire[e][k + 1] /\ k \in Nat
        BY SMT, <1>1, <1>2, <1>6
      <4>2. k + 1 = j + 1
        BY <2>2, <3>1, <4>1 DEF OpenOnce
      <4> QED BY SMT, <3>1, <4>1, <4>2
    <3>3. ~(Holding(e, "open")' /\ loop'[e].f.id = wire'[e][j].id)
      <4>1. 1 \in DOMAIN wire[e] /\ j + 1 # 1
        BY SMT, <1>1, <2>2, <1>2
      <4> QED
        BY <2>2, <3>1, <4>1, <1>4 DEF OpenOnce, Holding
    <3> QED BY <2>2, <3>2, <3>3
  <2> QED BY <2>1, <2>2
<1> QED
  BY SMT, <1>3, <1>7, <1>8 DEF OpenInFlight, Holding

-----------------------------------------------------------------------------
(* The steps that open and accept a stream *)

RestInv == AllocInv /\ UnarrivedInv /\ MapInv /\ OwnInv

(* A stream that has not arrived after a step that allocates and announces *)
(* nothing had not arrived before it.                                      *)
LEMMA StillUnarrived ==
  ASSUME UNCHANGED <<nextID, opening>>,
         \A x \in Ends : \A j \in Ids :
           OpenInFlight(x, j)' => OpenInFlight(x, j),
         NEW x \in Ends, NEW j \in Ids, Unarrived(x, j)'
  PROVE  Unarrived(x, j)
BY PeerFacts DEF Unarrived

(* What a step may do to one stream at one end, if it allocates, announces *)
(* and hands out nothing: a stream leaves the map only to be ended, by the *)
(* peer or by this end, and what ended stays ended.                        *)
LifeStep(x, j) ==
  /\ OpenInFlight(x, j)' => OpenInFlight(x, j)
  /\ BusyWith(x, j)' => BusyWith(x, j) \/ j \in streams[x]
  /\ Ending(x, j)' =>
       j \notin streams'[x] /\ (Ending(x, j) \/ j \in streams[x])
  /\ j \in remoteClosed'[x] => j \in remoteClosed[x] \/ Ending(x, j)
  /\ Ending(x, j) \/ j \in remoteClosed[x] =>
       j \in remoteClosed'[x] \/ Ending(x, j)'
  /\ j \in streams'[x] => j \in streams[x]
  /\ j \in streams[x] =>
       j \in streams'[x] \/ Ending(x, j)' \/ closePc'[x][j] # "no"
  /\ closePc[x][j] # "no" => closePc'[x][j] # "no"
  /\ closePc'[x][j] = closePc[x][j] \/ j \in held[x] \/ closePc[x][j] # "no"

(* The steps of that kind keep the invariant: they are all of readLoop but *)
(* its handling of OPEN, Stream's methods and the control messages.        *)
LEMMA LifeStepInv ==
  ASSUME IInv, UNCHANGED <<nextID, opening, accept, held, err>>,
         \A x \in Ends : phase'[x] = "swept" => phase[x] = "swept",
         \A x \in Ends : loop'[x].at = "accept" => loop'[x] = loop[x],
         \A x \in Ends : \A j \in Ids : LifeStep(x, j)
  PROVE  RestInv'
<1>1. AllocInv'
  <2> SUFFICES ASSUME NEW e \in Ends PROVE AllocInv!(e)'
    BY DEF AllocInv
  <2>1. AllocInv!(e)
    BY DEF IInv, AllocInv
  <2>2. \A i \in Ids : Queued(Peer(e), i)' <=> Queued(Peer(e), i)
    BY DEF Queued
  <2>3. Peer(e) \in Ends
    BY PeerFacts
  <2> QED
    BY <2>1, <2>2, <2>3 DEF LifeStep
<1>2. UnarrivedInv'
  <2> SUFFICES ASSUME NEW e \in Ends, NEW i \in Ids, Unarrived(e, i)'
               PROVE  UnarrivedInv!(e)!(i)!2'
    BY DEF UnarrivedInv
  <2>1. Unarrived(e, i)
    BY StillUnarrived DEF LifeStep
  <2>2. UnarrivedInv!(e)!(i)!2
    BY <2>1 DEF IInv, UnarrivedInv
  <2>3. Queued(e, i)' <=> Queued(e, i)
    BY DEF Queued
  <2>4. ~Ending(e, i)
    BY <2>2 DEF Ending, BusyWith
  <2> QED
    BY <2>2, <2>3, <2>4 DEF LifeStep
<1>3. MapInv'
  BY DEF IInv, MapInv, LifeStep
<1>4. OwnInv'
  BY DEF IInv, OwnInv, OwnIds, LifeStep
<1> QED
  BY <1>1, <1>2, <1>3, <1>4 DEF RestInv

(* Open's insert under mu: the id is new at both ends, and in the map. *)
LEMMA OpenInsertInv ==
  ASSUME IInv, TypeOK', NEW e \in Ends, OpenInsert(e)
  PROVE  OpenOnce' /\ RestInv'
<1> DEFINE n == nextID[e]
<1>1. /\ n \in Ids /\ n \in Nat /\ n % 2 = Parity(e) /\ phase[e] = "open"
      /\ Peer(e) \in Ends /\ Peer(e) # e
  BY ZenonT(30), PeerFacts DEF OpenInsert, IInv, AllocInv, TypeOK
<1>2. /\ nextID'[e] = n + 2 /\ nextID'[Peer(e)] = nextID[Peer(e)]
      /\ opening'[e] = opening[e] \cup {n} /\ opening'[Peer(e)] = opening[Peer(e)]
      /\ streams'[e] = streams[e] \cup {n} /\ streams'[Peer(e)] = streams[Peer(e)]
      /\ UNCHANGED <<phase, accept, loop, wire, remoteClosed, err, closePc, held>>
  BY SMT, <1>1 DEF OpenInsert, Add, IInv, TypeOK, netVars, strVars, appVars
<1>3. \A x \in Ends : \A j \in Ids :
        /\ OpenInFlight(x, j)' <=> OpenInFlight(x, j)
        /\ Queued(x, j)' <=> Queued(x, j)
        /\ BusyWith(x, j)' <=> BusyWith(x, j)
        /\ Ending(x, j)' <=> Ending(x, j)
  BY <1>2 DEF OpenInFlight, Holding, Queued, BusyWith, Ending
<1>4. OpenOnce'
  BY <1>2 DEF IInv, OpenOnce, Holding
<1>5. n \in OwnIds(e) /\ n \notin OwnIds(Peer(e))
  BY <1>1, PeerFacts DEF OwnIds
<1>6. Unarrived(e, n)
  BY SMT, <1>1, <1>5 DEF Unarrived
<1>7. /\ n \notin streams[e] \cup held[e] \cup remoteClosed[e]
      /\ ~BusyWith(e, n) /\ err[e][n] = "nil"
  BY <1>1, <1>6 DEF IInv, UnarrivedInv
<1>8. \A x \in Ends : x = e \/ x = Peer(e)
  BY PeerFacts
<1>9. AllocInv'
  <2>1. (n + 2) % 2 = Parity(e)
    BY SMT, <1>1
  <2>2. \A i \in Ids : i < n => i < n + 2
    BY SMT, <1>1 DEF Ids
  <2>3. \A i \in opening'[e] : i \in OwnIds(e) /\ i < n + 2 /\ i \notin held[e]
    BY SMT, <1>1, <1>2, <1>5, <1>7, <2>2 DEF IInv, AllocInv, OwnIds
  <2>4. \A i \in Ids : OpenInFlight(Peer(e), i) =>
          i \in OwnIds(e) /\ i < n + 2 /\ i \notin opening'[e]
    <3> SUFFICES ASSUME NEW i \in Ids, OpenInFlight(Peer(e), i)
                 PROVE  i \in OwnIds(e) /\ i < n + 2 /\ i \notin opening'[e]
      OBVIOUS
    <3>1. i \in OwnIds(e) /\ i < n /\ i \notin opening[e]
      BY DEF IInv, AllocInv
    <3> QED
      BY SMT, <1>1, <1>2, <2>2, <3>1
  <2>5. AllocInv!(e)'
    BY ZenonT(30), <1>1, <1>2, <1>3, <2>1, <2>3, <2>4 DEF IInv, AllocInv
  <2>6. AllocInv!(Peer(e))'
    BY <1>1, <1>2, <1>3, PeerFacts DEF IInv, AllocInv
  <2> QED
    BY <1>8, <2>5, <2>6 DEF AllocInv
<1>10. ASSUME NEW x \in Ends, NEW j \in Ids, Unarrived(x, j)'
       PROVE  Unarrived(x, j) /\ ~(x = e /\ j = n)
  <2>1. j < n + 2 /\ j >= n /\ j \in OwnIds(e) => j = n
    BY SMT, <1>1 DEF OwnIds, Ids
  <2>2. CASE x = e
    <3>1. j # n
      BY SMT, <2>2, <1>1, <1>2, <1>5, <1>10 DEF Unarrived
    <3>2. j \in OwnIds(e) /\ j >= n + 2 => j >= n
      BY SMT, <1>1 DEF OwnIds, Ids
    <3> QED
      BY <2>2, <3>1, <3>2, <1>1, <1>2, <1>3, <1>10 DEF Unarrived
  <2>3. CASE x = Peer(e)
    <3>1. Peer(x) = e
      BY <2>3, PeerFacts
    <3>2. j \in OwnIds(e) /\ j >= n + 2 => j >= n
      BY SMT, <1>1 DEF OwnIds, Ids
    <3>3. j = n => Unarrived(x, j)
      BY SMT, <3>1, <1>1, <1>5 DEF Unarrived
    <3> QED
      BY <2>3, <3>1, <3>2, <3>3, <1>1, <1>2, <1>3, <1>10 DEF Unarrived
  <2> QED
    BY <1>8, <2>2, <2>3
<1>11. UnarrivedInv'
  <2> SUFFICES ASSUME NEW x \in Ends, NEW j \in Ids, Unarrived(x, j)'
               PROVE  UnarrivedInv!(x)!(j)!2'
    BY DEF UnarrivedInv
  <2>1. UnarrivedInv!(x)!(j)!2 /\ ~(x = e /\ j = n)
    BY <1>10 DEF IInv, UnarrivedInv
  <2>2. j \notin streams'[x]
    BY <2>1, <1>2, <1>8
  <2> QED
    BY <2>1, <2>2, <1>2, <1>3
<1>12. MapInv'
  <2> SUFFICES ASSUME NEW x \in Ends, NEW j \in Ids PROVE MapInv!(x)!(j)'
    BY DEF MapInv
  <2>1. MapInv!(x)!(j)
    BY DEF IInv, MapInv
  <2>2. CASE x = e /\ j = n
    BY <2>2, <1>2, <1>3, <1>7 DEF BusyWith, Ending
  <2>3. CASE ~(x = e /\ j = n)
    BY <2>1, <2>3, <1>2, <1>3, <1>8
  <2> QED
    BY <2>2, <2>3
<1>13. OwnInv'
  <2>1. OwnInv!(e)'
    BY <1>1, <1>2, <1>3 DEF IInv, OwnInv, OwnIds
  <2>2. OwnInv!(Peer(e))'
    BY <1>1, <1>2, <1>3 DEF IInv, OwnInv, OwnIds
  <2> QED
    BY <1>8, <2>1, <2>2 DEF OwnInv
<1> QED
  BY <1>4, <1>9, <1>11, <1>12, <1>13 DEF RestInv

(* Writing the OPEN frame of i announces i, once. *)
LEMMA OpenFrameWritten ==
  ASSUME TypeOK, OpenOnce, NEW e \in Ends, NEW i \in Ids,
         ~OpenInFlight(Peer(e), i), Written(e, OpenFrame(i)), loop' = loop
  PROVE  /\ OpenOnce'
         /\ \A x \in Ends : \A j \in Ids : OpenInFlight(x, j)' =>
              OpenInFlight(x, j) \/ (x = Peer(e) /\ j = i)
<1>1. CASE UNCHANGED wire
  BY <1>1 DEF OpenOnce, OpenInFlight, Holding
<1>2. CASE wire' = [wire EXCEPT ![Peer(e)] = Append(@, OpenFrame(i))]
  <2> DEFINE p == Peer(e)
             m == Len(wire[p]) + 1
  <2>1. p \in Ends /\ wire[p] \in Seq(Frame) /\ Len(wire[p]) \in Nat
    BY SMT, PeerFacts DEF TypeOK
  <2>2. /\ DOMAIN wire[p] = 1..Len(wire[p])
        /\ DOMAIN wire'[p] = 1..m
        /\ \A k \in DOMAIN wire[p] : wire'[p][k] = wire[p][k]
        /\ wire'[p][m] = OpenFrame(i)
    <3>1. wire'[p] = Append(wire[p], OpenFrame(i))
      BY <1>2, <2>1 DEF TypeOK
    <3>2. OpenFrame(i) \in Frame
      BY SMT DEF OpenFrame, Frame, StreamFrame
    <3> QED
      BY SMT, <3>1, <3>2, <2>1
  <2>3. \A x \in Ends : x # p => wire'[x] = wire[x]
    BY <1>2, <2>1 DEF TypeOK
  <2>4. OpenFrame(i).id = i
    BY DEF OpenFrame
  <2>5. \A k \in DOMAIN wire'[p] : k \in DOMAIN wire[p] \/ k = m
    BY SMT, <2>1, <2>2
  <2>6. \A k \in DOMAIN wire[p] : wire[p][k].typ = "open" => wire[p][k].id # i
    BY DEF OpenInFlight
  <2>7. ~(Holding(p, "open") /\ loop[p].f.id = i)
    BY DEF OpenInFlight
  <2> HIDE DEF p, m
  <2>8. OpenOnce'
    <3> SUFFICES ASSUME NEW x \in Ends, NEW j \in DOMAIN wire'[x],
                        wire'[x][j].typ = "open"
                 PROVE  /\ \A k \in DOMAIN wire'[x] :
                             wire'[x][k].typ = "open"
                               /\ wire'[x][k].id = wire'[x][j].id => k = j
                        /\ ~(Holding(x, "open") /\ loop[x].f.id = wire'[x][j].id)
      BY DEF OpenOnce, Holding
    <3>1. CASE x # p
      BY <3>1, <2>3 DEF OpenOnce
    <3>2. CASE x = p
      BY SMT, <3>2, <2>2, <2>4, <2>5, <2>6, <2>7 DEF OpenOnce
    <3> QED
      BY <3>1, <3>2
  <2>9. ASSUME NEW x \in Ends, NEW j \in Ids, OpenInFlight(x, j)'
        PROVE  OpenInFlight(x, j) \/ (x = p /\ j = i)
    <3>1. CASE x # p
      BY <3>1, <2>3, <2>9 DEF OpenInFlight, Holding
    <3>2. CASE x = p
      BY <3>2, <2>2, <2>4, <2>5, <2>9 DEF OpenInFlight, Holding
    <3> QED
      BY <3>1, <3>2
  <2> QED
    BY <2>8, <2>9 DEF p
<1> QED
  BY <1>1, <1>2 DEF Written

(* Open's write: the id is announced and handed out, or taken back. *)
LEMMA OpenSendInv ==
  ASSUME IInv, TypeOK', NEW e \in Ends, NEW i \in Ids, OpenSend(e, i)
  PROVE  OpenOnce' /\ RestInv'
<1>1. /\ Peer(e) \in Ends /\ Peer(e) # e /\ Peer(Peer(e)) = e
      /\ \A x \in Ends : x = e \/ x = Peer(e)
      /\ OwnIds(e) \cap OwnIds(Peer(e)) = {}
  BY PeerFacts
<1>2. /\ i \in opening[e] /\ i \in OwnIds(e) /\ i < nextID[e] /\ i \notin held[e]
      /\ ~OpenInFlight(Peer(e), i)
  BY <1>1 DEF OpenSend, IInv, AllocInv
<1>3. /\ opening'[e] = opening[e] \ {i} /\ opening'[Peer(e)] = opening[Peer(e)]
      /\ held'[Peer(e)] = held[Peer(e)] /\ streams'[Peer(e)] = streams[Peer(e)]
      /\ \/ held'[e] = held[e] \cup {i} /\ streams'[e] = streams[e]
         \/ held'[e] = held[e] /\ streams'[e] = streams[e] \ {i}
      /\ UNCHANGED <<nextID, phase, accept, loop, remoteClosed, err, closePc>>
  <2>1. /\ opening \in [Ends -> SUBSET Ids]
        /\ held \in [Ends -> SUBSET Ids]
        /\ streams \in [Ends -> SUBSET Ids]
    BY DEF IInv, TypeOK
  <2>2. CASE held' = Add(held, e, i) /\ streams' = streams
    BY <1>1, <2>1, <2>2 DEF OpenSend, Add, Drop, strVars
  <2>3. CASE held' = held /\ streams' = Drop(streams, e, i)
    BY <1>1, <2>1, <2>3 DEF OpenSend, Drop, strVars
  <2> QED
    BY <2>2, <2>3 DEF OpenSend
<1>4. /\ OpenOnce'
      /\ \A x \in Ends : \A j \in Ids : OpenInFlight(x, j)' =>
           OpenInFlight(x, j) \/ (x = Peer(e) /\ j = i)
  <2>1. CASE UNCHANGED wire
    BY <2>1, <1>3 DEF IInv, OpenOnce, OpenInFlight, Holding
  <2>2. CASE Written(e, OpenFrame(i))
    BY <2>2, <1>2, <1>3, OpenFrameWritten DEF IInv
  <2> QED
    BY <2>1, <2>2 DEF OpenSend
<1>5. \A x \in Ends : \A j \in Ids :
        /\ Queued(x, j)' <=> Queued(x, j)
        /\ BusyWith(x, j)' <=> BusyWith(x, j)
        /\ Ending(x, j)' <=> Ending(x, j)
  BY <1>3 DEF Queued, BusyWith, Ending
<1>6. AllocInv'
  <2>1. AllocInv!(e)'
    BY <1>1, <1>2, <1>3, <1>4, <1>5 DEF IInv, AllocInv
  <2>2. AllocInv!(Peer(e))'
    BY <1>1, <1>2, <1>3, <1>4, <1>5 DEF IInv, AllocInv
  <2> QED
    BY <1>1, <2>1, <2>2 DEF AllocInv
<1>7. ASSUME NEW x \in Ends, NEW j \in Ids, Unarrived(x, j)'
      PROVE  Unarrived(x, j) /\ ~(x = e /\ j = i)
  <2>1. CASE x = e
    <3>1. nextID[e] \in Nat /\ i \in Nat
      BY SMT DEF IInv, TypeOK, Ids
    <3>2. j # i
      BY SMT, <2>1, <3>1, <1>1, <1>2, <1>3, <1>7 DEF Unarrived
    <3> QED
      BY <2>1, <3>2, <1>1, <1>3, <1>4, <1>7 DEF Unarrived
  <2>2. CASE x = Peer(e)
    BY <2>2, <1>1, <1>2, <1>3, <1>4, <1>7 DEF Unarrived
  <2> QED
    BY <1>1, <2>1, <2>2
<1>8. UnarrivedInv'
  <2> SUFFICES ASSUME NEW x \in Ends, NEW j \in Ids, Unarrived(x, j)'
               PROVE  UnarrivedInv!(x)!(j)!2'
    BY DEF UnarrivedInv
  <2>1. UnarrivedInv!(x)!(j)!2 /\ ~(x = e /\ j = i)
    BY <1>7 DEF IInv, UnarrivedInv
  <2>2. j \notin streams'[x] \cup held'[x]
    BY <2>1, <1>1, <1>3
  <2> QED
    BY <2>1, <2>2, <1>3, <1>5
<1>9. MapInv'
  BY <1>1, <1>3, <1>5 DEF IInv, MapInv
<1>10. OwnInv'
  <2>1. OwnInv!(e)'
    BY <1>1, <1>2, <1>3, <1>5 DEF IInv, OwnInv, OwnIds
  <2>2. OwnInv!(Peer(e))'
    BY <1>1, <1>3, <1>5 DEF IInv, OwnInv, OwnIds
  <2> QED
    BY <1>1, <2>1, <2>2 DEF OwnInv
<1> QED
  BY <1>4, <1>6, <1>8, <1>9, <1>10 DEF RestInv

(* Accept hands out a stream of the peer. *)
LEMMA AcceptInv ==
  ASSUME IInv, TypeOK', NEW e \in Ends, Accept(e)
  PROVE  OpenOnce' /\ RestInv'
<1> DEFINE h == Head(accept[e])
<1>1. /\ Peer(e) \in Ends /\ Peer(e) # e /\ Peer(Peer(e)) = e
      /\ \A x \in Ends : x = e \/ x = Peer(e)
      /\ OwnIds(e) \cap OwnIds(Peer(e)) = {}
  BY PeerFacts
<1>2. accept[e] \in Seq(Ids) /\ accept[e] # <<>>
  BY DEF Accept, IInv, TypeOK
<1>3. /\ h = accept[e][1] /\ 1 \in DOMAIN accept[e] /\ h \in Ids
      /\ \A k \in DOMAIN Tail(accept[e]) :
           k + 1 \in DOMAIN accept[e] /\ Tail(accept[e])[k] = accept[e][k + 1]
  BY SMT, <1>2
<1>4. /\ held'[e] = held[e] \cup {h} /\ held'[Peer(e)] = held[Peer(e)]
      /\ accept'[e] = Tail(accept[e]) /\ accept'[Peer(e)] = accept[Peer(e)]
      /\ UNCHANGED <<nextID, opening, phase, streams, loop, wire, remoteClosed,
                     err, closePc>>
  BY SMT, <1>1 DEF Accept, Add, IInv, TypeOK, netVars, strVars
<1>5. Queued(e, h)
  BY <1>3 DEF Queued
<1>6. h \in OwnIds(Peer(e)) /\ h \notin OwnIds(e)
  BY <1>1, <1>3, <1>5 DEF IInv, AllocInv
<1>7. \A x \in Ends : \A j \in Ids :
        /\ OpenInFlight(x, j)' <=> OpenInFlight(x, j)
        /\ Queued(x, j)' => Queued(x, j)
        /\ BusyWith(x, j)' <=> BusyWith(x, j)
        /\ Ending(x, j)' <=> Ending(x, j)
  <2>1. \A j \in Ids : Queued(e, j)' => Queued(e, j)
    BY <1>3, <1>4 DEF Queued
  <2>2. \A j \in Ids : Queued(Peer(e), j)' => Queued(Peer(e), j)
    BY <1>4 DEF Queued
  <2> QED
    BY <1>1, <1>4, <2>1, <2>2 DEF OpenInFlight, Holding, BusyWith, Ending
<1> HIDE DEF h
<1>8. OpenOnce'
  BY <1>4 DEF IInv, OpenOnce, Holding
<1>9. AllocInv'
  <2>1. AllocInv!(e)'
    BY <1>1, <1>4, <1>6, <1>7 DEF IInv, AllocInv
  <2>2. AllocInv!(Peer(e))'
    <3> \A i \in opening[Peer(e)] : i \in Ids
      BY <1>1 DEF IInv, TypeOK
    <3> QED
      BY <1>1, <1>4, <1>7 DEF IInv, AllocInv
  <2> QED
    BY <1>1, <2>1, <2>2 DEF AllocInv
<1>10. UnarrivedInv'
  <2> SUFFICES ASSUME NEW x \in Ends, NEW j \in Ids, Unarrived(x, j)'
               PROVE  UnarrivedInv!(x)!(j)!2'
    BY DEF UnarrivedInv
  <2>1. Unarrived(x, j)
    BY <1>4, <1>7, StillUnarrived
  <2>2. UnarrivedInv!(x)!(j)!2
    BY <2>1 DEF IInv, UnarrivedInv
  <2>3. j \notin held'[x]
    BY <2>2, <1>1, <1>4, <1>5
  <2> QED
    BY <2>2, <2>3, <1>4, <1>7
<1>11. MapInv'
  BY <1>4, <1>7 DEF IInv, MapInv
<1>12. OwnInv'
  <2>1. OwnInv!(e)'
    BY <1>4, <1>6, <1>7 DEF IInv, OwnInv, OwnIds
  <2>2. OwnInv!(Peer(e))'
    BY <1>1, <1>4, <1>7 DEF IInv, OwnInv, OwnIds
  <2> QED
    BY <1>1, <2>1, <2>2 DEF OwnInv
<1> QED
  BY <1>8, <1>9, <1>10, <1>11, <1>12 DEF RestInv

-----------------------------------------------------------------------------
(* The steps of readLoop and of closeWithErr *)

(* closeWithErr's sweep fails what is in the map and empties it. *)
LEMMA SweepInv ==
  ASSUME IInv, TypeOK', NEW e \in Ends, Sweep(e)
  PROVE  OpenOnce' /\ RestInv'
<1>1. \A x \in Ends : x # e =>
        streams'[x] = streams[x] /\ err'[x] = err[x] /\ phase'[x] = phase[x]
  <2>1. /\ streams \in [Ends -> SUBSET Ids]
        /\ err \in [Ends -> [Ids -> SessionErr \cup {"nil"}]]
        /\ phase \in [Ends -> {"open", "closing", "swept"}]
    BY DEF IInv, TypeOK
  <2> QED BY SMT, <2>1 DEF Sweep
<1>2. /\ streams'[e] = {} /\ phase'[e] = "swept"
      /\ \A i \in Ids : err'[e][i] = IF i \in streams[e] /\ err[e][i] = "nil"
                                     THEN serr[e] ELSE err[e][i]
      /\ UNCHANGED <<nextID, opening, accept, loop, wire, remoteClosed, closePc,
                     held>>
  BY SMT DEF Sweep, IInv, TypeOK, netVars, appVars
<1>3. serr[e] # "nil"
  BY DEF Sweep, IInv, SerrInv
<1>4. \A x \in Ends : \A j \in Ids :
        /\ OpenInFlight(x, j)' <=> OpenInFlight(x, j)
        /\ Queued(x, j)' <=> Queued(x, j)
        /\ BusyWith(x, j)' <=> BusyWith(x, j)
        /\ Ending(x, j)' <=> Ending(x, j)
  BY <1>2 DEF OpenInFlight, Holding, Queued, BusyWith, Ending
<1>5. OpenOnce'
  BY <1>2 DEF IInv, OpenOnce, Holding
<1>6. AllocInv'
  <2> SUFFICES ASSUME NEW x \in Ends PROVE AllocInv!(x)'
    BY DEF AllocInv
  <2> AllocInv!(x) /\ Peer(x) \in Ends
    BY PeerFacts DEF IInv, AllocInv
  <2> QED
    BY <1>2, <1>4
<1>7. UnarrivedInv'
  <2> SUFFICES ASSUME NEW x \in Ends, NEW j \in Ids, Unarrived(x, j)'
               PROVE  UnarrivedInv!(x)!(j)!2'
    BY DEF UnarrivedInv
  <2>1. Unarrived(x, j)
    BY <1>2, <1>4, StillUnarrived
  <2>2. UnarrivedInv!(x)!(j)!2
    BY <2>1 DEF IInv, UnarrivedInv
  <2>3. j \notin streams'[x] /\ err'[x][j] = "nil"
    BY <2>2, <1>1, <1>2
  <2> QED
    BY <2>2, <2>3, <1>2, <1>4
<1>8. MapInv'
  <2> SUFFICES ASSUME NEW x \in Ends, NEW j \in Ids PROVE MapInv!(x)!(j)'
    BY DEF MapInv
  <2>1. MapInv!(x)!(j)
    BY DEF IInv, MapInv
  <2>2. CASE x = e
    BY <2>1, <2>2, <1>2, <1>4
  <2>3. CASE x # e
    BY <2>1, <2>3, <1>1, <1>2, <1>4
  <2> QED
    BY <2>2, <2>3
<1>9. OwnInv'
  <2> SUFFICES ASSUME NEW x \in Ends PROVE OwnInv!(x)'
    BY DEF OwnInv
  <2>1. OwnInv!(x)
    BY DEF IInv, OwnInv
  <2>2. CASE x = e
    BY <2>1, <2>2, <1>2, <1>3, <1>4 DEF OwnIds
  <2>3. CASE x # e
    BY <2>1, <2>3, <1>1, <1>2, <1>4 DEF OwnIds
  <2> QED
    BY <2>2, <2>3
<1> QED
  BY <1>5, <1>6, <1>7, <1>8, <1>9 DEF RestInv

(* readLoop's insert of an announced stream, whose OPEN is then handled. *)
LEMMA HandleOpenInv ==
  ASSUME IInv, TypeOK', NEW e \in Ends, HandleOpen(e)
  PROVE  OpenOnce' /\ RestInv'
<1>1. /\ Peer(e) \in Ends /\ Peer(e) # e /\ Peer(Peer(e)) = e
      /\ \A x \in Ends : x = e \/ x = Peer(e)
      /\ OwnIds(e) \cap OwnIds(Peer(e)) = {}
  BY PeerFacts
<1>0. PICK i \in Ids : i = loop[e].f.id
  BY HeldFrame DEF HandleOpen, IInv
<1>2. loop[e].f.id = i /\ loop[e].f \in StreamFrame /\ Holding(e, "open")
  BY <1>0, HeldFrame DEF HandleOpen, IInv
<1>3. At("accept", loop[e].f) \in Loop
  BY <1>2, LoopPlaces
<1>4. /\ streams'[e] = streams[e] \cup {i} /\ streams'[Peer(e)] = streams[Peer(e)]
      /\ loop'[e] = At("accept", loop[e].f) /\ loop'[Peer(e)] = loop[Peer(e)]
      /\ UNCHANGED <<nextID, opening, phase, accept, wire, remoteClosed, err,
                     closePc, held>>
  BY SMT, <1>1, <1>2 DEF HandleOpen, GoTo, Add, IInv, TypeOK, netVars, strVars, appVars
<1>5. /\ OpenOnce'
      /\ \A x \in Ends : \A j \in Ids : OpenInFlight(x, j)' => OpenInFlight(x, j)
      /\ ~OpenInFlight(e, i)'
  BY <1>2, <1>3, <1>4, LoopMoves DEF HandleOpen, At, IInv
<1>6. OpenInFlight(e, i)
  BY <1>2 DEF OpenInFlight
<1>7. i \in OwnIds(Peer(e)) /\ i < nextID[Peer(e)] /\ i \notin opening[Peer(e)]
  BY <1>1, <1>2, <1>6 DEF IInv, AllocInv
<1>8. Unarrived(e, i)
  BY <1>6, <1>7 DEF Unarrived
<1>9. /\ i \notin streams[e] \cup held[e] \cup remoteClosed[e]
      /\ err[e][i] = "nil"
  BY SMT, <1>2, <1>8 DEF IInv, UnarrivedInv
<1>10. /\ \A x \in Ends : \A j \in Ids : Queued(x, j)' <=> Queued(x, j)
       /\ \A j \in Ids : BusyWith(e, j)' => j = i
       /\ \A j \in Ids : ~Ending(e, j)' /\ ~Ending(e, j)
       /\ \A j \in Ids : BusyWith(Peer(e), j)' <=> BusyWith(Peer(e), j)
       /\ \A j \in Ids : Ending(Peer(e), j)' <=> Ending(Peer(e), j)
       /\ loop'[e].f.id = i
  BY SMT, <1>2, <1>4 DEF Queued, BusyWith, Ending, At, Holding
<1>11. AllocInv'
  <2>1. AllocInv!(e)'
    BY <1>1, <1>4, <1>5, <1>10 DEF IInv, AllocInv
  <2>2. AllocInv!(Peer(e))'
    BY <1>1, <1>4, <1>5, <1>7, <1>10 DEF IInv, AllocInv
  <2> QED
    BY <1>1, <2>1, <2>2 DEF AllocInv
<1>12. UnarrivedInv'
  <2> SUFFICES ASSUME NEW x \in Ends, NEW j \in Ids, Unarrived(x, j)'
               PROVE  UnarrivedInv!(x)!(j)!2'
    BY DEF UnarrivedInv
  <2>1. Unarrived(x, j)
    BY <1>4, <1>5, StillUnarrived
  <2>2. UnarrivedInv!(x)!(j)!2
    BY <2>1 DEF IInv, UnarrivedInv
  <2>3. ~(x = e /\ j = i)
    <3> SUFFICES ~Unarrived(e, i)'
      OBVIOUS
    <3>1. nextID[Peer(e)] \in Nat /\ i \in Nat
      BY SMT, <1>1, <1>2 DEF IInv, TypeOK, Ids
    <3> QED
      BY SMT, <3>1, <1>1, <1>2, <1>4, <1>5, <1>7 DEF Unarrived
  <2>4. j \notin streams'[x] /\ ~BusyWith(x, j)'
    BY <2>2, <2>3, <1>1, <1>4, <1>10
  <2> QED
    BY <2>2, <2>4, <1>4, <1>10
<1>13. MapInv'
  <2> SUFFICES ASSUME NEW x \in Ends, NEW j \in Ids PROVE MapInv!(x)!(j)'
    BY DEF MapInv
  <2>1. MapInv!(x)!(j)
    BY DEF IInv, MapInv
  <2>2. CASE x = e
    BY <2>1, <2>2, <1>4, <1>9, <1>10
  <2>3. CASE x = Peer(e)
    BY <2>1, <2>3, <1>4, <1>10
  <2> QED
    BY <1>1, <2>2, <2>3
<1>14. OwnInv'
  <2>1. OwnInv!(e)'
    BY <1>1, <1>4, <1>7, <1>10 DEF IInv, OwnInv, OwnIds
  <2>2. OwnInv!(Peer(e))'
    BY <1>1, <1>4, <1>10 DEF IInv, OwnInv, OwnIds
  <2> QED
    BY <1>1, <2>1, <2>2 DEF OwnInv
<1> QED
  BY <1>5, <1>11, <1>12, <1>13, <1>14 DEF RestInv

(* readLoop queues the new stream for Accept, or ends with the session. *)
LEMMA PushAcceptInv ==
  ASSUME IInv, TypeOK', NEW e \in Ends, PushAccept(e)
  PROVE  OpenOnce' /\ RestInv'
<1>1. /\ Peer(e) \in Ends /\ Peer(e) # e /\ Peer(Peer(e)) = e
      /\ \A x \in Ends : x = e \/ x = Peer(e)
  BY PeerFacts
<1>0. PICK i \in Ids : i = loop[e].f.id
  BY HeldFrame DEF PushAccept, IInv
<1>2. loop[e].f.id = i /\ BusyWith(e, i) /\ i \in OwnIds(Peer(e))
  BY <1>0, <1>1 DEF PushAccept, BusyWith, IInv, AllocInv
<1>3. PICK l \in {Reading, Done} : GoTo(e, l)
  BY DEF PushAccept
<1>4. /\ loop'[e] = l /\ loop'[Peer(e)] = loop[Peer(e)]
      /\ accept'[Peer(e)] = accept[Peer(e)]
      /\ accept'[e] = accept[e] \/ accept'[e] = Append(accept[e], i)
      /\ UNCHANGED <<nextID, opening, phase, streams, wire, remoteClosed, err,
                     closePc, held>>
  <2>1. loop \in [Ends -> Loop] /\ accept \in [Ends -> Seq(Ids)]
    BY DEF IInv, TypeOK
  <2>2. loop'[e] = l /\ loop'[Peer(e)] = loop[Peer(e)]
    BY <1>1, <1>3, <2>1 DEF GoTo
  <2> QED
    BY <1>1, <1>2, <2>1, <2>2 DEF PushAccept, netVars, strVars, appVars
<1>5. /\ OpenOnce'
      /\ \A x \in Ends : \A j \in Ids : OpenInFlight(x, j)' => OpenInFlight(x, j)
  BY <1>3, <1>4, LoopMoves, LoopPlaces DEF IInv, Reading, Done
<1>6. l.at \in {"read", "done"}
  BY SMT DEF Reading, Done
<1>7. /\ \A j \in Ids : Queued(e, j)' => Queued(e, j) \/ j = i
      /\ \A j \in Ids : Queued(Peer(e), j)' <=> Queued(Peer(e), j)
  <2>1. accept[e] \in Seq(Ids)
    BY DEF IInv, TypeOK
  <2>2. CASE accept'[e] = accept[e]
    BY <2>2, <1>4 DEF Queued
  <2>3. CASE accept'[e] = Append(accept[e], i)
    <3>1. \A k \in DOMAIN Append(accept[e], i) :
            \/ k \in DOMAIN accept[e] /\ Append(accept[e], i)[k] = accept[e][k]
            \/ Append(accept[e], i)[k] = i
      BY SMT, <2>1, <1>2
    <3> QED
      BY <2>3, <3>1, <1>4 DEF Queued
  <2> QED
    BY <1>4, <2>2, <2>3
<1>8. /\ \A x \in Ends : \A j \in Ids : BusyWith(x, j)' => BusyWith(x, j)
      /\ \A x \in Ends : \A j \in Ids : Ending(x, j)' <=> Ending(x, j)
  BY <1>1, <1>4, <1>6 DEF BusyWith, Ending, PushAccept
<1>9. AllocInv'
  <2>1. AllocInv!(e)'
    BY <1>1, <1>4, <1>5, <1>7 DEF IInv, AllocInv
  <2>2. AllocInv!(Peer(e))'
    BY <1>1, <1>2, <1>4, <1>5, <1>6, <1>7 DEF IInv, AllocInv
  <2> QED
    BY <1>1, <2>1, <2>2 DEF AllocInv
<1>10. UnarrivedInv'
  <2> SUFFICES ASSUME NEW x \in Ends, NEW j \in Ids, Unarrived(x, j)'
               PROVE  UnarrivedInv!(x)!(j)!2'
    BY DEF UnarrivedInv
  <2>1. Unarrived(x, j)
    BY <1>4, <1>5, StillUnarrived
  <2>2. UnarrivedInv!(x)!(j)!2
    BY <2>1 DEF IInv, UnarrivedInv
  <2>3. ~Queued(x, j)'
    BY <2>2, <1>1, <1>2, <1>7
  <2> QED
    BY <2>2, <2>3, <1>4, <1>8
<1>11. MapInv'
  BY <1>4, <1>8 DEF IInv, MapInv
<1>12. OwnInv'
  BY <1>4, <1>8 DEF IInv, OwnInv, OwnIds
<1> QED
  BY <1>5, <1>9, <1>10, <1>11, <1>12 DEF RestInv

(* The steps that only move readLoop, or only end a stream, in the form that *)
(* LifeStepInv asks for.                                                      *)
LEMMA LoopStepInv ==
  ASSUME IInv, NEW e \in Ends, NEW l \in Loop, l.at \in {"read", "done"},
         loop[e].at # "remoteClose", GoTo(e, l),
         UNCHANGED <<nextID, opening, accept, held, err, streams, wire,
                     remoteClosed, closePc>>,
         \A x \in Ends : phase'[x] = "swept" => phase[x] = "swept"
  PROVE  OpenOnce' /\ RestInv'
<1>1. loop'[e] = l /\ \A x \in Ends : x # e => loop'[x] = loop[x]
  BY DEF GoTo, IInv, TypeOK
<1>2. /\ OpenOnce'
      /\ \A x \in Ends : \A j \in Ids : OpenInFlight(x, j)' => OpenInFlight(x, j)
  BY LoopMoves DEF IInv
<1>3. \A x \in Ends : \A j \in Ids :
        (BusyWith(x, j)' => BusyWith(x, j)) /\ (Ending(x, j)' <=> Ending(x, j))
  BY <1>1 DEF BusyWith, Ending
<1>4. \A x \in Ends : \A j \in Ids : LifeStep(x, j)
  <2>1. \A x \in Ends : \A j \in Ids : Ending(x, j) => j \notin streams[x]
    BY DEF IInv, MapInv
  <2> QED
    BY <1>2, <1>3, <2>1 DEF LifeStep
<1>5. \A x \in Ends : loop'[x].at = "accept" => loop'[x] = loop[x]
  BY <1>1
<1> QED
  BY <1>2, <1>4, <1>5, LifeStepInv

(* A DATA frame is delivered to a stream that is in the map. *)
LEMMA HandleDataInv ==
  ASSUME IInv, NEW e \in Ends, HandleData(e)
  PROVE  OpenOnce' /\ RestInv'
<1>0. PICK i \in Ids : i = loop[e].f.id
  BY HeldFrame DEF HandleData, IInv
<1>1. PICK l \in Loop : /\ GoTo(e, l)
                        /\ \/ l = Reading
                           \/ i \in streams[e] /\ l = At("deliver", loop[e].f)
  <2>1. loop[e].f \in StreamFrame
    BY HeldFrame DEF HandleData, IInv
  <2> QED
    BY <1>0, <2>1, LoopPlaces DEF HandleData
<1>2. /\ loop'[e] = l /\ \A x \in Ends : x # e => loop'[x] = loop[x]
      /\ l.at \in {"read", "deliver"} /\ loop[e].at = "got"
      /\ l.at = "deliver" => i \in streams[e] /\ l.f.id = i
      /\ UNCHANGED <<nextID, opening, accept, held, err, streams, wire,
                     remoteClosed, closePc, phase>>
  BY SMT, <1>0, <1>1 DEF HandleData, Holding, GoTo, IInv, TypeOK, netVars, strVars,
                    appVars, Reading, At
<1>3. /\ OpenOnce'
      /\ \A x \in Ends : \A j \in Ids : OpenInFlight(x, j)' => OpenInFlight(x, j)
  BY <1>1, <1>2, LoopMoves DEF IInv
<1>4. \A x \in Ends : \A j \in Ids :
        /\ BusyWith(x, j)' => BusyWith(x, j) \/ j \in streams[x]
        /\ Ending(x, j)' <=> Ending(x, j)
  BY <1>2 DEF BusyWith, Ending
<1>5. \A x \in Ends : \A j \in Ids : LifeStep(x, j)
  <2>1. \A x \in Ends : \A j \in Ids : Ending(x, j) => j \notin streams[x]
    BY DEF IInv, MapInv
  <2> QED
    BY <1>2, <1>3, <1>4, <2>1 DEF LifeStep
<1>6. \A x \in Ends : loop'[x].at = "accept" => loop'[x] = loop[x]
  BY <1>2
<1> QED
  BY <1>2, <1>3, <1>5, <1>6, LifeStepInv

(* A CLOSE frame takes its stream out of the map before ending it. *)
LEMMA HandleCloseInv ==
  ASSUME IInv, NEW e \in Ends, HandleClose(e)
  PROVE  OpenOnce' /\ RestInv'
<1>0. PICK i \in Ids : i = loop[e].f.id
  BY HeldFrame DEF HandleClose, IInv
<1>1. PICK l \in Loop :
        /\ GoTo(e, l)
        /\ \/ i \notin streams[e] /\ l = Reading
           \/ i \in streams[e] /\ l = At("remoteClose", loop[e].f)
  <2>1. loop[e].f \in StreamFrame
    BY HeldFrame DEF HandleClose, IInv
  <2> QED
    BY <1>0, <2>1, LoopPlaces DEF HandleClose
<1>2. /\ loop'[e] = l /\ \A x \in Ends : x # e => loop'[x] = loop[x]
      /\ l.at \in {"read", "remoteClose"} /\ loop[e].at = "got"
      /\ l.at = "remoteClose" <=> i \in streams[e]
      /\ l.at = "remoteClose" => l.f.id = i
  BY SMT, <1>0, <1>1 DEF HandleClose, Holding, GoTo, IInv, TypeOK, Reading, At
<1>3. /\ streams'[e] = streams[e] \ {i}
      /\ \A x \in Ends : x # e => streams'[x] = streams[x]
      /\ UNCHANGED <<nextID, opening, accept, held, err, wire, remoteClosed,
                     closePc, phase>>
  BY <1>0 DEF HandleClose, Drop, IInv, TypeOK, netVars, strVars, appVars
<1>4. /\ OpenOnce'
      /\ \A x \in Ends : \A j \in Ids : OpenInFlight(x, j)' => OpenInFlight(x, j)
  BY <1>1, <1>2, <1>3, LoopMoves DEF IInv
<1>5. /\ \A x \in Ends : \A j \in Ids :
           BusyWith(x, j)' => BusyWith(x, j) \/ j \in streams[x]
      /\ \A j \in Ids : ~Ending(e, j)
      /\ \A j \in Ids : Ending(e, j)' <=> j = i /\ i \in streams[e]
      /\ \A x \in Ends : \A j \in Ids : x # e => (Ending(x, j)' <=> Ending(x, j))
  BY <1>2 DEF BusyWith, Ending
<1>6. ASSUME NEW x \in Ends, NEW j \in Ids PROVE LifeStep(x, j)
  <2>1. Ending(x, j) => j \notin streams[x]
    BY DEF IInv, MapInv
  <2>2. CASE x = e
    BY <2>1, <2>2, <1>3, <1>4, <1>5 DEF LifeStep
  <2>3. CASE x # e
    BY <2>1, <2>3, <1>3, <1>4, <1>5 DEF LifeStep
  <2> QED
    BY <2>2, <2>3
<1>7. \A x \in Ends : loop'[x].at = "accept" => loop'[x] = loop[x]
  BY <1>2
<1> QED
  BY <1>3, <1>4, <1>6, <1>7, LifeStepInv

(* remoteClose ends the stream that readLoop took out of the map for it. *)
LEMMA RemoteCloseInv ==
  ASSUME IInv, NEW e \in Ends, RemoteClose(e)
  PROVE  OpenOnce' /\ RestInv'
<1>0. PICK i \in Ids : i = loop[e].f.id
  BY HeldFrame DEF RemoteClose, IInv
<1>1. /\ loop'[e] = Reading /\ \A x \in Ends : x # e => loop'[x] = loop[x]
      /\ loop[e].at = "remoteClose" /\ loop[e].f.id = i
      /\ remoteClosed'[e] = remoteClosed[e] \cup {i}
      /\ \A x \in Ends : x # e => remoteClosed'[x] = remoteClosed[x]
      /\ UNCHANGED <<nextID, opening, accept, held, err, wire, streams, closePc,
                     phase>>
  BY <1>0 DEF RemoteClose, GoTo, Add, IInv, TypeOK, netVars, appVars
<1>2. /\ OpenOnce'
      /\ \A x \in Ends : \A j \in Ids : OpenInFlight(x, j)' => OpenInFlight(x, j)
  <2> Reading.at # "got"
    BY DEF Reading
  <2> QED
    BY <1>1, LoopMoves, LoopPlaces DEF IInv, RemoteClose
<1>3. /\ \A x \in Ends : \A j \in Ids : BusyWith(x, j)' => BusyWith(x, j)
      /\ \A j \in Ids : ~Ending(e, j)' /\ (Ending(e, j) <=> j = i)
      /\ \A x \in Ends : \A j \in Ids : x # e => (Ending(x, j)' <=> Ending(x, j))
  BY SMT, <1>1 DEF BusyWith, Ending, Reading
<1>4. ASSUME NEW x \in Ends, NEW j \in Ids PROVE LifeStep(x, j)
  <2>1. Ending(x, j) => j \notin streams[x]
    BY DEF IInv, MapInv
  <2>2. CASE x = e
    BY <2>1, <2>2, <1>1, <1>2, <1>3 DEF LifeStep
  <2>3. CASE x # e
    BY <2>1, <2>3, <1>1, <1>2, <1>3 DEF LifeStep
  <2> QED
    BY <2>2, <2>3
<1>5. \A x \in Ends : loop'[x].at = "accept" => loop'[x] = loop[x]
  BY SMT, <1>1 DEF Reading
<1> QED
  BY <1>1, <1>2, <1>4, <1>5, LifeStepInv

(* Steps outside readLoop that write at most a frame other than OPEN, and  *)
(* take a stream out of the map only when its local Close has begun.       *)
LEMMA ProgramStepInv ==
  ASSUME IInv,
         UNCHANGED <<nextID, opening, accept, held, err, loop, remoteClosed>>,
         \/ wire' = wire
         \/ \E e \in Ends : \E f \in Frame : f.typ # "open" /\ Written(e, f),
         \A x \in Ends : phase'[x] = "swept" => phase[x] = "swept",
         \A x \in Ends : \A j \in Ids :
           /\ j \in streams'[x] => j \in streams[x]
           /\ j \in streams[x] => j \in streams'[x] \/ closePc'[x][j] # "no"
           /\ closePc[x][j] # "no" => closePc'[x][j] # "no"
           /\ \/ closePc'[x][j] = closePc[x][j]
              \/ j \in held[x] \/ closePc[x][j] # "no"
  PROVE  OpenOnce' /\ RestInv'
<1>1. /\ OpenOnce'
      /\ \A x \in Ends : \A j \in Ids : OpenInFlight(x, j)' => OpenInFlight(x, j)
  <2>1. CASE wire' = wire
    BY <2>1 DEF IInv, OpenOnce, OpenInFlight, Holding
  <2>2. CASE \E e \in Ends : \E f \in Frame : f.typ # "open" /\ Written(e, f)
    BY <2>2, OtherFrameWritten DEF IInv
  <2> QED
    BY <2>1, <2>2
<1>2. \A x \in Ends : \A j \in Ids :
        /\ BusyWith(x, j)' <=> BusyWith(x, j)
        /\ Ending(x, j)' <=> Ending(x, j)
        /\ Ending(x, j) => j \notin streams[x]
  BY DEF BusyWith, Ending, IInv, MapInv
<1>3. \A x \in Ends : \A j \in Ids : LifeStep(x, j)
  BY <1>1, <1>2 DEF LifeStep
<1> QED
  BY <1>1, <1>3, LifeStepInv

-----------------------------------------------------------------------------
(* The other steps, and the theorems *)

(* Only closeWithErr changes the session's error, and it sets one. *)
LEMMA SerrStep ==
  ASSUME IInv, [Next]_vars
  PROVE  SerrInv'
<1>1. ASSUME NEW e \in Ends, NEW x \in SessionErr, CloseWithErr(e, x)
      PROVE  SerrInv'
  BY <1>1 DEF CloseWithErr, SerrInv, IInv, TypeOK, SessionErr
<1>2. CASE UNCHANGED <<phase, serr>>
  BY <1>2 DEF SerrInv, IInv
<1>3. ASSUME NEW e \in Ends, SessionClose(e) PROVE SerrInv'
  BY <1>1, <1>3 DEF SessionClose, SessionErr
<1>4. ASSUME NEW e \in Ends, Sweep(e) PROVE SerrInv'
  BY <1>4 DEF Sweep, SerrInv, IInv, TypeOK
<1>5. ASSUME NEW e \in Ends, ReadError(e) PROVE SerrInv'
  BY <1>1, <1>2, <1>5 DEF ReadError, SessionErr
<1>6. ASSUME NEW e \in Ends, ReadLoop(e) PROVE SerrInv'
  BY <1>2, <1>5, <1>6 DEF ReadLoop, ReadFrame, HandleControl, HandleOpen,
     PushAccept, HandleData, Deliver, HandleClose, RemoteClose
<1>7. ASSUME NEW e \in Ends, NEW i \in Ids, StreamStep(e, i) PROVE SerrInv'
  BY <1>2, <1>7 DEF StreamStep, OpenSend, StartWrite, WriteChunk, CloseLocal,
     CloseRemove, CloseSend, Read, sessVars
<1> QED
  BY <1>2, <1>3, <1>4, <1>6, <1>7 DEF Next, vars, LinkDown, OpenInsert, Accept,
     NextControl, SendControl, sessVars

(* The initial session satisfies the invariant. *)
LEMMA InvInit == Init => IInv
<1> SUFFICES ASSUME Init PROVE IInv
  OBVIOUS
<1>1. TypeOK
  BY TypeInit
<1>2. /\ \A e \in Ends : /\ nextID[e] = FirstID(e) /\ phase[e] = "open"
                         /\ streams[e] = {} /\ accept[e] = <<>>
                         /\ loop[e] = Reading /\ opening[e] = {}
                         /\ wire[e] = <<>> /\ remoteClosed[e] = {}
                         /\ held[e] = {}
      /\ \A e \in Ends : \A i \in Ids : err[e][i] = "nil" /\ closePc[e][i] = "no"
  BY DEF Init
<1>3. \A e \in Ends : \A i \in Ids :
        ~OpenInFlight(e, i) /\ ~Queued(e, i) /\ ~BusyWith(e, i) /\ ~Ending(e, i)
  BY SMT, <1>2 DEF OpenInFlight, Queued, BusyWith, Ending, Holding, Reading
<1>4. AllocInv
  BY SMT, <1>2, <1>3, PeerFacts DEF AllocInv, FirstID, Parity, Ends, Reading
<1>5. OpenOnce
  BY SMT, <1>2 DEF OpenOnce
<1> QED
  BY <1>1, <1>2, <1>3, <1>4, <1>5
     DEF IInv, UnarrivedInv, MapInv, OwnInv, SerrInv

(* Every step keeps the invariant. *)
LEMMA InvStep == IInv /\ [Next]_vars => IInv'
<1> SUFFICES ASSUME IInv, [Next]_vars PROVE OpenOnce' /\ RestInv'
  BY TypeStep, SerrStep DEF IInv, RestInv
<1> TypeOK'
  BY TypeStep DEF IInv
<1>1. CASE UNCHANGED vars
  BY <1>1, ProgramStepInv DEF vars
<1>2. CASE LinkDown
  BY <1>2, ProgramStepInv DEF LinkDown, sessVars, strVars, appVars
<1>3. ASSUME NEW e \in Ends, NextControl(e) PROVE OpenOnce' /\ RestInv'
  BY <1>3, ProgramStepInv DEF NextControl, netVars, strVars, appVars
<1>4. ASSUME NEW e \in Ends, NEW c \in Control, SendControl(e, c)
      PROVE  OpenOnce' /\ RestInv'
  <2>1. ControlFrame(c) \in Frame /\ ControlFrame(c).typ # "open"
    BY DEF ControlFrame, Frame
  <2> QED
    BY <1>4, <2>1, ProgramStepInv DEF SendControl, sessVars, strVars, appVars
<1>5. ASSUME NEW e \in Ends, SessionClose(e) PROVE OpenOnce' /\ RestInv'
  <2>1. \A x \in Ends : phase'[x] = "swept" => phase[x] = "swept"
    BY <1>5 DEF SessionClose, CloseWithErr, IInv, TypeOK
  <2> QED
    BY <1>5, <2>1, ProgramStepInv DEF SessionClose, netVars, strVars, appVars
<1>6. ASSUME NEW e \in Ends, ReadFrame(e) PROVE OpenOnce' /\ RestInv'
  <2>1. /\ OpenOnce'
        /\ \A x \in Ends : \A j \in Ids :
             OpenInFlight(x, j)' <=> OpenInFlight(x, j)
    BY <1>6, FrameTaken DEF IInv
  <2>2. /\ loop[e].at = "read" /\ loop'[e].at = "got"
        /\ \A x \in Ends : x # e => loop'[x] = loop[x]
    BY SMT, <1>6 DEF ReadFrame, GoTo, At, Reading, IInv, TypeOK
  <2>3. \A x \in Ends : \A j \in Ids :
          /\ BusyWith(x, j)' <=> BusyWith(x, j)
          /\ Ending(x, j)' <=> Ending(x, j)
          /\ Ending(x, j) => j \notin streams[x]
    BY <2>2 DEF BusyWith, Ending, IInv, MapInv
  <2>4. \A x \in Ends : \A j \in Ids : LifeStep(x, j)
    BY <1>6, <2>1, <2>3 DEF LifeStep, ReadFrame, strVars, appVars
  <2>5. \A x \in Ends : loop'[x].at = "accept" => loop'[x] = loop[x]
    BY <2>2
  <2> QED
    BY <1>6, <2>1, <2>4, <2>5, LifeStepInv DEF ReadFrame, strVars, appVars
<1>7. ASSUME NEW e \in Ends, ReadError(e) PROVE OpenOnce' /\ RestInv'
  <2>1. Done \in Loop /\ Done.at = "done" /\ loop[e].at # "remoteClose"
    BY SMT, <1>7, LoopPlaces DEF Done, ReadError, Reading
  <2>2. \A x \in Ends : phase'[x] = "swept" => phase[x] = "swept"
    BY <1>7 DEF ReadError, CloseWithErr, IInv, TypeOK
  <2> QED
    BY <1>7, <2>1, <2>2, LoopStepInv DEF ReadError, netVars, strVars, appVars
<1>8. ASSUME NEW e \in Ends, HandleControl(e) PROVE OpenOnce' /\ RestInv'
  <2>1. PICK l \in {Reading, Done} : GoTo(e, l)
    BY <1>8 DEF HandleControl
  <2>2. l \in Loop /\ l.at \in {"read", "done"} /\ loop[e].at # "remoteClose"
    BY SMT, <1>8, LoopPlaces DEF Done, Reading, HandleControl, Holding
  <2> QED
    BY <1>8, <2>1, <2>2, LoopStepInv
       DEF HandleControl, netVars, strVars, appVars
<1>9. ASSUME NEW e \in Ends, Deliver(e) PROVE OpenOnce' /\ RestInv'
  <2>1. Reading \in Loop /\ Reading.at = "read" /\ loop[e].at # "remoteClose"
    BY <1>9, LoopPlaces DEF Reading, Deliver
  <2> QED
    BY <1>9, <2>1, LoopStepInv DEF Deliver, netVars, appVars
<1>10. ASSUME NEW e \in Ends, ReadLoop(e) PROVE OpenOnce' /\ RestInv'
  BY <1>6, <1>7, <1>8, <1>9, <1>10, HandleOpenInv, PushAcceptInv,
     HandleDataInv, HandleCloseInv, RemoteCloseInv DEF ReadLoop
<1>11. ASSUME NEW e \in Ends, NEW i \in Ids, StartWrite(e, i)
       PROVE  OpenOnce' /\ RestInv'
  BY <1>11, ProgramStepInv DEF StartWrite, sessVars, netVars, strVars
<1>12. ASSUME NEW e \in Ends, NEW i \in Ids, WriteChunk(e, i)
       PROVE  OpenOnce' /\ RestInv'
  <2>1. sent[e][i] + 1 \in Nat
    BY NextChunk DEF IInv
  <2>2. /\ DataFrame(i, sent[e][i] + 1) \in Frame
        /\ DataFrame(i, sent[e][i] + 1).typ # "open"
    BY <2>1 DEF DataFrame, Frame, StreamFrame
  <2>3. wire' = wire \/ Written(e, DataFrame(i, sent[e][i] + 1))
    BY <1>12 DEF WriteChunk
  <2> QED
    BY <1>12, <2>2, <2>3, ProgramStepInv DEF WriteChunk, sessVars, strVars
<1>13. ASSUME NEW e \in Ends, NEW i \in Ids, CloseLocal(e, i)
       PROVE  OpenOnce' /\ RestInv'
  <2>0. /\ closePc \in [Ends -> [Ids -> {"no", "remove", "send", "done"}]]
        /\ i \in held[e] /\ closePc' = [closePc EXCEPT ![e][i] = "remove"]
    BY <1>13 DEF CloseLocal, IInv, TypeOK
  <2>1. /\ i \in held[e] /\ closePc'[e][i] = "remove"
        /\ \A x \in Ends : \A j \in Ids :
             x # e \/ j # i => closePc'[x][j] = closePc[x][j]
    BY SMT, <2>0
  <2> QED
    BY <1>13, <2>1, ProgramStepInv
       DEF CloseLocal, sessVars, netVars, appVars
<1>14. ASSUME NEW e \in Ends, NEW i \in Ids, CloseRemove(e, i)
       PROVE  OpenOnce' /\ RestInv'
  <2>0. /\ closePc \in [Ends -> [Ids -> {"no", "remove", "send", "done"}]]
        /\ closePc[e][i] = "remove" /\ closePc' = [closePc EXCEPT ![e][i] = "send"]
    BY <1>14 DEF CloseRemove, IInv, TypeOK
  <2>1. /\ closePc[e][i] = "remove" /\ closePc'[e][i] = "send"
        /\ \A x \in Ends : \A j \in Ids :
             x # e \/ j # i => closePc'[x][j] = closePc[x][j]
    BY SMT, <2>0
  <2>4. \A x \in Ends : \A j \in Ids :
          x # e \/ j # i => (j \in streams'[x] <=> j \in streams[x])
    BY <1>14 DEF CloseRemove, Drop, IInv, TypeOK
  <2>3. i \notin streams'[e]
    BY <1>14 DEF CloseRemove, Drop, IInv, TypeOK
  <2> QED
    BY <1>14, <2>1, <2>3, <2>4, ProgramStepInv
       DEF CloseRemove, netVars, appVars
<1>15. ASSUME NEW e \in Ends, NEW i \in Ids, CloseSend(e, i)
       PROVE  OpenOnce' /\ RestInv'
  <2>0. /\ closePc \in [Ends -> [Ids -> {"no", "remove", "send", "done"}]]
        /\ closePc[e][i] = "send" /\ closePc' = [closePc EXCEPT ![e][i] = "done"]
    BY <1>15 DEF CloseSend, IInv, TypeOK
  <2>1. /\ closePc[e][i] = "send" /\ closePc'[e][i] = "done"
        /\ \A x \in Ends : \A j \in Ids :
             x # e \/ j # i => closePc'[x][j] = closePc[x][j]
    BY SMT, <2>0
  <2>3. CloseFrame(i) \in Frame /\ CloseFrame(i).typ # "open"
    BY DEF CloseFrame, Frame, StreamFrame
  <2>4. wire' = wire \/ Written(e, CloseFrame(i))
    BY <1>15 DEF CloseSend
  <2> QED
    BY <1>15, <2>1, <2>3, <2>4, ProgramStepInv
       DEF CloseSend, sessVars, appVars
<1>16. ASSUME NEW e \in Ends, NEW i \in Ids, Read(e, i)
       PROVE  OpenOnce' /\ RestInv'
  BY <1>16, ProgramStepInv DEF Read, sessVars, netVars
<1>17. ASSUME NEW e \in Ends, NEW i \in Ids, StreamStep(e, i)
       PROVE  OpenOnce' /\ RestInv'
  BY <1>11, <1>12, <1>13, <1>14, <1>15, <1>16, <1>17, OpenSendInv
     DEF StreamStep
<1> QED
  BY <1>1, <1>2, <1>3, <1>4, <1>5, <1>10, <1>17, OpenInsertInv, AcceptInv,
     SweepInv DEF Next

-----------------------------------------------------------------------------
(* The results *)

(* A session's life of streams is the line IInv describes. *)
THEOREM InvCorrect == Spec => []IInv
BY InvInit, InvStep, PTL DEF Spec

(* The two ends number streams without coordination, yet no OPEN frame ever *)
(* announces an id its receiver already uses: readLoop's unconditional      *)
(* insert replaces no live stream.                                          *)
THEOREM IdsNeverCollide == Spec => []NoIdCollision
<1>1. IInv => NoIdCollision
  <2> SUFFICES ASSUME IInv, NEW e \in Ends, NEW i \in Ids, OpenInFlight(e, i)
               PROVE  /\ i \notin streams[e] \cup opening[e] \cup held[e]
                      /\ ~Queued(e, i)
    BY DEF NoIdCollision
  <2>1. i \in OwnIds(Peer(e)) /\ Unarrived(e, i)
    BY SMT, PeerFacts DEF IInv, AllocInv, Unarrived
  <2>2. i \notin opening[e]
    BY <2>1, PeerFacts DEF IInv, AllocInv
  <2> QED
    BY <2>1, <2>2 DEF IInv, UnarrivedInv
<1> QED
  BY <1>1, InvCorrect, PTL

(* A stream the peer closed never reports a session error, even when the    *)
(* session dies between readLoop's map delete and remoteClose.              *)
THEOREM PeerCloseWins == Spec => []RemoteCloseNeverError
<1>1. IInv => RemoteCloseNeverError
  BY DEF IInv, TypeOK, MapInv, RemoteCloseNeverError
<1> QED
  BY <1>1, InvCorrect, PTL

(* closeWithErr leaves no stream of Open behind, wherever Open, Close and   *)
(* the two ends of the connection were when it ran.                         *)
THEOREM OpenedStreamsEnd == Spec => []OpenedStreamsEnded
<1>1. IInv => OpenedStreamsEnded
  BY DEF IInv, OwnInv, OpenedStreamsEnded
<1> QED
  BY <1>1, InvCorrect, PTL

-----------------------------------------------------------------------------
(* The agent's registration over the tunnel: an ack on its way, and an agent
   that has read one, mean that the gateway has registered and answered *)

(* Only the gateway's ack puts an ack on the wire to the agent. *)
LEMMA NoAckWritten ==
  ASSUME TypeOK, NEW e \in Ends, NEW f \in Frame, Written(e, f),
         e = "client" \/ ~AckFrame(f)
  PROVE  AckSent' => AckSent
<1>1. CASE UNCHANGED wire
  BY <1>1 DEF AckSent, AckFrame
<1>2. CASE wire' = [wire EXCEPT ![Peer(e)] = Append(@, f)]
  <2> DEFINE q == wire["client"]
  <2>1. "client" \in Ends /\ q \in Seq(Frame) /\ Peer(e) \in Ends
    BY PeerFacts DEF TypeOK, Ends
  <2>2. CASE e = "client"
    <3>1. wire'["client"] = wire["client"]
      BY <1>2, <2>1, <2>2, PeerFacts DEF TypeOK
    <3> QED
      BY <3>1 DEF AckSent, AckFrame
  <2>3. CASE e # "client" /\ ~AckFrame(f)
    <3>1. Peer(e) = "client"
      BY <2>3 DEF Peer, Ends
    <3>2. wire'["client"] = Append(q, f)
      BY <1>2, <2>1, <3>1 DEF TypeOK
    <3>3. /\ DOMAIN wire'["client"] = 1..(Len(q) + 1) /\ DOMAIN q = 1..Len(q)
          /\ Len(q) \in Nat /\ wire'["client"][Len(q) + 1] = f
          /\ \A k \in 1..Len(q) : wire'["client"][k] = q[k]
      BY SMT, <2>1, <3>2
    <3>4. \A n \in Nat : \A k \in 1..(n + 1) : k \in 1..n \/ k = n + 1
      BY SMT
    <3>5. \A k \in DOMAIN wire'["client"] : AckFrame(wire'["client"][k]) =>
            k \in DOMAIN q /\ AckFrame(q[k])
      BY <2>3, <3>3, <3>4
    <3> QED
      BY <3>5 DEF AckSent, AckFrame
  <2> QED BY <2>2, <2>3
<1> QED
  BY <1>1, <1>2 DEF Written

(* What a session does by itself, readLoop and its streams' calls, makes no   *)
(* ack, opens no session again, and gives the agent no stream.                *)
LEMMA SessionSteps ==
  ASSUME TypeOK, opening["client"] = {}, NEW e \in Ends, SessionStep(e)
  PROVE  /\ AckWaits' => AckWaits
         /\ phase["server"] # "open" => phase'["server"] # "open"
         /\ opening'["client"] = {} /\ held'["client"] = held["client"]
<1> DEFINE Goal == /\ AckWaits' => AckWaits
                   /\ phase["server"] # "open" => phase'["server"] # "open"
                   /\ opening'["client"] = {} /\ held'["client"] = held["client"]
<1> "client" \in Ends /\ "server" \in Ends
  BY DEF Ends
<1>1. CASE Sweep(e)
  <2>1. phase["server"] # "open" => phase'["server"] # "open"
    BY <1>1 DEF Sweep, TypeOK
  <2> QED
    BY <1>1, <2>1 DEF Sweep, AckWaits, AckSent, AckRead, AckQueued, AckFrame, netVars, appVars
<1>2. CASE ReadFrame(e)
  <2>1. CASE e = "server"
    <3>1. wire'["client"] = wire["client"] /\ loop'["client"] = loop["client"]
      BY <1>2, <2>1 DEF ReadFrame, GoTo, TypeOK
    <3> QED
      BY <1>2, <3>1 DEF ReadFrame, AckWaits, AckSent, AckRead, AckQueued, AckFrame, appVars
  <2>2. CASE e = "client"
    <3> DEFINE q == wire["client"]
    <3>1. q \in Seq(Frame) /\ q # <<>> /\ wire'["client"] = Tail(q)
      BY <1>2, <2>2 DEF ReadFrame, TypeOK
    <3>2. /\ 1 \in DOMAIN q /\ Head(q) = q[1]
          /\ \A k \in DOMAIN wire'["client"] : k + 1 \in DOMAIN q /\ wire'["client"][k] = q[k + 1]
      BY SMT, <3>1
    <3>3. loop'["client"].at = "got" /\ loop'["client"].f = q[1]
      BY <1>2, <2>2, <3>2 DEF ReadFrame, GoTo, At, TypeOK
    <3>4. AckSent' => AckSent
      BY <3>2 DEF AckSent, AckFrame
    <3>5. AckRead' => AckSent
      BY <3>2, <3>3 DEF AckRead, AckSent, AckFrame
    <3>6. AckQueued' => AckQueued
      BY <1>2 DEF ReadFrame, AckQueued
    <3> QED
      BY <1>2, <3>4, <3>5, <3>6 DEF ReadFrame, AckWaits, appVars
  <2> QED BY <2>1, <2>2 DEF Ends
<1>3. CASE HandleControl(e)
  <2>1. CASE e = "server"
    <3>1. controlCh'["client"] = controlCh["client"] /\ loop'["client"] = loop["client"]
      BY <1>3, <2>1 DEF HandleControl, GoTo, TypeOK
    <3> QED
      BY <1>3, <3>1
         DEF HandleControl, AckWaits, AckSent, AckRead, AckQueued, AckFrame, netVars, appVars
  <2>2. CASE e = "client"
    <3> DEFINE q == controlCh["client"]
               c == loop["client"].f.msg
    <3>1. loop'["client"].at # "got"
      BY SMT, <1>3, <2>2 DEF HandleControl, GoTo, Reading, Done, TypeOK
    <3>2. q \in Seq(Control) /\ c \in Control
      BY <1>3, <2>2, HeldFrame DEF HandleControl, TypeOK
    <3>3. controlCh'["client"] = q \/ controlCh'["client"] = Append(q, c)
      BY <1>3, <2>2 DEF HandleControl, TypeOK
    <3>4. \A k \in DOMAIN controlCh'["client"] :
            \/ k \in DOMAIN q /\ controlCh'["client"][k] = q[k]
            \/ controlCh'["client"][k] = c
      BY SMT, <3>2, <3>3
    <3>5. c = "ack" => AckRead
      BY <1>3, <2>2 DEF HandleControl, Holding, AckRead, AckFrame
    <3>6. AckQueued' => AckQueued \/ AckRead
      BY <3>4, <3>5 DEF AckQueued
    <3> QED
      BY <1>3, <3>1, <3>6
         DEF HandleControl, AckWaits, AckSent, AckRead, AckFrame, netVars, appVars
  <2> QED BY <2>1, <2>2 DEF Ends
<1>4. CASE \/ ReadError(e) \/ HandleOpen(e) \/ PushAccept(e) \/ HandleData(e)
           \/ Deliver(e) \/ HandleClose(e) \/ RemoteClose(e)
  <2>1. PICK l : GoTo(e, l) /\ l.at # "got"
    <3>1. /\ Reading.at # "got" /\ Done.at # "got"
          /\ \A f : /\ At("accept", f).at # "got" /\ At("deliver", f).at # "got"
                    /\ At("remoteClose", f).at # "got"
      BY SMT DEF Reading, Done, At
    <3> QED
      BY <1>4, <3>1 DEF ReadError, HandleOpen, PushAccept, HandleData, Deliver, HandleClose,
         RemoteClose
  <2>2. UNCHANGED <<wire, controlCh, opening, held>>
    BY <1>4 DEF ReadError, HandleOpen, PushAccept, HandleData, Deliver, HandleClose,
       RemoteClose, netVars, appVars
  <2>3. phase["server"] # "open" => phase'["server"] # "open"
    <3>1. phase' = phase \/ phase' = [phase EXCEPT ![e] = "closing"]
      BY <1>4 DEF ReadError, HandleOpen, PushAccept, HandleData, Deliver, HandleClose,
         RemoteClose, CloseWithErr
    <3> QED
      BY <3>1 DEF TypeOK
  <2>4. AckRead' => AckRead
    BY <2>1 DEF GoTo, AckRead, AckFrame, TypeOK
  <2> QED
    BY <2>2, <2>3, <2>4 DEF AckWaits, AckSent, AckQueued, AckFrame
<1>5. ASSUME NEW i \in Ids, StreamStep(e, i) PROVE Goal
  <2>1. UNCHANGED <<loop, controlCh, phase>>
    BY <1>5 DEF StreamStep, OpenSend, StartWrite, WriteChunk, CloseLocal, CloseRemove,
       CloseSend, Read, sessVars
  <2>2. opening'["client"] = {} /\ held'["client"] = held["client"]
    <3>1. CASE OpenSend(e, i)
      BY <3>1 DEF OpenSend, Add, Drop, TypeOK
    <3>2. CASE ~OpenSend(e, i)
      BY <1>5, <3>2 DEF StreamStep, StartWrite, WriteChunk, CloseLocal, CloseRemove,
         CloseSend, Read, sessVars, appVars
    <3> QED BY <3>1, <3>2
  <2>3. AckSent' => AckSent
    <3>1. \/ UNCHANGED wire \/ Written(e, OpenFrame(i)) \/ Written(e, CloseFrame(i))
          \/ Written(e, DataFrame(i, sent[e][i] + 1))
      BY <1>5 DEF StreamStep, OpenSend, StartWrite, WriteChunk, CloseLocal, CloseRemove,
         CloseSend, Read, netVars
    <3>2. sent[e][i] + 1 \in Nat
      BY NextChunk
    <3>3. /\ OpenFrame(i) \in Frame /\ ~AckFrame(OpenFrame(i))
          /\ CloseFrame(i) \in Frame /\ ~AckFrame(CloseFrame(i))
          /\ DataFrame(i, sent[e][i] + 1) \in Frame /\ ~AckFrame(DataFrame(i, sent[e][i] + 1))
      BY <3>2 DEF OpenFrame, CloseFrame, DataFrame, Frame, StreamFrame, AckFrame
    <3>4. CASE UNCHANGED wire
      BY <3>4 DEF AckSent, AckFrame
    <3> QED BY <3>1, <3>3, <3>4, NoAckWritten
  <2> QED
    BY <2>1, <2>2, <2>3 DEF AckWaits, AckRead, AckQueued, AckFrame
<1> QED
  BY <1>1, <1>2, <1>3, <1>4, <1>5 DEF SessionStep, ReadLoop

(* The types of a link's state, its tunnel's among them. *)
LEMMA LinkTypes ==
  ASSUME LinkTypeOK, LinkNext
  PROVE  LinkTypeOK'
<1> "client" \in Ends /\ "server" \in Ends
  BY DEF Ends
<1>1. apc' \in {"register", "await", "serving", "return", "done"}
  BY DEF LinkTypeOK, LinkNext, AgentStep, AgentRegister, AgentAck, AgentAccept, AgentReturn,
     AgentHeartbeat, AgentCancel, GatewayStep, GatewayRegister, GatewayAck, GatewayServe,
     GatewayLeave, GatewayReturn, ClientOpen, SessionStep, linkVars
<1>2. gpc' \in {"await", "ack", "nack", "serving", "leaving", "return", "done"}
  BY DEF LinkTypeOK, LinkNext, AgentStep, AgentRegister, AgentAck, AgentAccept, AgentReturn,
     AgentHeartbeat, AgentCancel, GatewayStep, GatewayRegister, GatewayAck, GatewayServe,
     GatewayLeave, GatewayReturn, ClientOpen, SessionStep, linkVars
<1>3. inReg' \in BOOLEAN
  BY DEF LinkTypeOK, LinkNext, AgentStep, AgentRegister, AgentAck, AgentAccept, AgentReturn,
     AgentHeartbeat, AgentCancel, GatewayStep, GatewayRegister, GatewayAck, GatewayServe,
     GatewayLeave, GatewayReturn, ClientOpen, SessionStep, linkVars
<1>4. TypeOK'
  <2>1. TypeOK
    BY DEF LinkTypeOK
  <2>2. ASSUME NEW e \in Ends, CloseOnReturn(e) PROVE TypeOK'
    <3>1. CASE UNCHANGED vars
      BY <2>1, <3>1, TypeStep
    <3>2. CASE CloseWithErr(e, "ErrSessionClosed")
      BY <2>1, <2>2, <3>1, <3>2
         DEF CloseOnReturn, Closed, TypeOK, CloseWithErr, SessionErr, netVars, strVars, appVars,
             histVars
    <3> QED
      BY <2>2, <3>1, <3>2 DEF CloseOnReturn, Closed
  <2>3. \/ Next \/ UNCHANGED vars
        \/ CloseOnReturn("client") \/ CloseOnReturn("server")
    <3>1. {"register", "ack", "nack", "heartbeat"} \subseteq Control
      BY LinkAssumption
    <3>2. CASE AgentStep \/ AgentHeartbeat \/ AgentCancel
      BY <3>1, <3>2 DEF AgentStep, AgentRegister, AgentAck, AgentAccept, AgentReturn,
         AgentHeartbeat, AgentCancel, Closed, Next
    <3>3. CASE GatewayStep \/ ClientOpen
      BY <3>1, <3>3 DEF GatewayStep, GatewayRegister, GatewayAck, GatewayServe, GatewayLeave,
         GatewayReturn, ClientOpen, Closed, Next
    <3>4. CASE \/ \E e \in Ends : SessionStep(e)
               \/ LinkDown /\ UNCHANGED linkVars
      BY <3>4 DEF SessionStep, Next
    <3> QED BY <3>2, <3>3, <3>4 DEF LinkNext
  <2> QED
    BY <2>1, <2>2, <2>3, TypeStep
<1> QED
  BY <1>1, <1>2, <1>3, <1>4 DEF LinkTypeOK

(* The steps of ServeTunnelConn and of ServeAgent, as seen by the invariant.   *)
LEMMA LinkStep ==
  ASSUME LinkInv, LinkNext
  PROVE  LinkInv'
<1> "client" \in Ends /\ "server" \in Ends /\ "client" # "server"
  BY DEF Ends
<1>1. /\ TypeOK /\ LinkTypeOK /\ opening["client"] = {}
      /\ AckWaits \/ apc = "serving" => Answered
      /\ gpc \in {"ack", "serving"} => inReg
      /\ gpc = "done" => phase["server"] # "open"
      /\ held["client"] # {} => apc \in {"serving", "return", "done"}
  BY DEF LinkInv, LinkTypeOK
<1>2. LinkTypeOK'
  BY <1>1, LinkTypes
<1> DEFINE Rest == /\ AckWaits' \/ apc' = "serving" => Answered'
                   /\ gpc' \in {"ack", "serving"} => inReg'
                   /\ gpc' = "done" => phase'["server"] # "open"
                   /\ opening'["client"] = {}
                   /\ held'["client"] # {} => apc' \in {"serving", "return", "done"}
<1> SUFFICES Rest
  BY <1>2 DEF LinkInv
\* A step that leaves the tunnel alone.
<1>3. UNCHANGED vars => (AckWaits' => AckWaits) /\ phase' = phase
                        /\ opening' = opening /\ held' = held
  BY DEF vars, AckWaits, AckSent, AckRead, AckQueued, AckFrame
\* A control message written, one taken, and a session closed.
<1>4. ASSUME NEW e \in Ends, NEW c \in Control, SendControl(e, c),
             e = "client" \/ c # "ack"
      PROVE  (AckWaits' => AckWaits) /\ UNCHANGED <<phase, opening, held>>
  <2>1. ControlFrame(c) \in Frame /\ (c # "ack" => ~AckFrame(ControlFrame(c)))
    BY DEF ControlFrame, Frame, AckFrame
  <2>2. AckSent' => AckSent
    BY <1>1, <1>4, <2>1, NoAckWritten DEF SendControl
  <2> QED
    BY <1>4, <2>2 DEF SendControl, AckWaits, AckRead, AckQueued, AckFrame, sessVars, appVars
<1>5. ASSUME NEW e \in Ends, NextControl(e)
      PROVE  /\ (AckWaits' => AckWaits) /\ UNCHANGED <<phase, opening, held>>
             /\ e = "client" /\ Head(controlCh["client"]) = "ack" => AckWaits
  <2> DEFINE q == controlCh["client"]
  <2>1. CASE e = "server"
    <3>1. controlCh'["client"] = q
      BY <1>1, <1>5, <2>1 DEF NextControl, TypeOK
    <3> QED
      BY <1>5, <2>1, <3>1 DEF NextControl, AckWaits, AckSent, AckRead, AckQueued, AckFrame,
         netVars, appVars
  <2>2. CASE e = "client"
    <3>1. q \in Seq(Control) /\ q # <<>> /\ controlCh'["client"] = Tail(q)
      BY <1>1, <1>5, <2>2 DEF NextControl, TypeOK
    <3>2. /\ 1 \in DOMAIN q /\ Head(q) = q[1]
          /\ \A k \in DOMAIN controlCh'["client"] :
               k + 1 \in DOMAIN q /\ controlCh'["client"][k] = q[k + 1]
      BY SMT, <3>1
    <3>3. (AckQueued' => AckQueued) /\ (Head(q) = "ack" => AckQueued)
      BY <3>2 DEF AckQueued
    <3> QED
      BY <1>5, <3>3 DEF NextControl, AckWaits, AckSent, AckRead, AckFrame, netVars, appVars
  <2> QED BY <2>1, <2>2 DEF Ends
<1>6. ASSUME NEW e \in Ends, CloseOnReturn(e) \/ SessionClose(e)
      PROVE  /\ (AckWaits' => AckWaits) /\ UNCHANGED <<opening, held>>
             /\ phase["server"] # "open" => phase'["server"] # "open"
             /\ e = "server" => phase'["server"] # "open"
  <2>1. CASE Closed(e)
    BY <1>3, <2>1 DEF Closed, vars
  <2>2. CASE CloseWithErr(e, "ErrSessionClosed") /\ UNCHANGED <<opening, held, wire, loop, controlCh>>
    <3>1. phase'[e] # "open" /\ (phase["server"] # "open" => phase'["server"] # "open")
      BY <1>1, <2>2 DEF CloseWithErr, TypeOK
    <3> QED
      BY <2>2, <3>1 DEF AckWaits, AckSent, AckRead, AckQueued, AckFrame
  <2> QED
    BY <1>6, <2>1, <2>2 DEF CloseOnReturn, SessionClose, netVars, appVars
<1>7. {"register", "ack", "nack", "heartbeat"} \subseteq Control
  BY LinkAssumption
<1>8. CASE AgentRegister
  <2>1. /\ (AckWaits' => AckWaits) /\ UNCHANGED <<phase, opening, held, gpc, inReg>>
        /\ apc = "register" /\ apc' \in {"await", "return"}
    BY <1>3, <1>4, <1>7, <1>8 DEF AgentRegister
  <2> QED
    BY <1>1, <2>1 DEF Answered
<1>9. CASE AgentAck
  <2>1. /\ (AckWaits' => AckWaits) /\ UNCHANGED <<phase, opening, held, gpc, inReg>>
        /\ apc = "await" /\ apc' \in {"serving", "return"}
        /\ apc' = "serving" => AckWaits
    BY <1>3, <1>5, <1>9 DEF AgentAck, Closed
  <2> QED
    BY <1>1, <2>1 DEF Answered
<1>10. CASE AgentAccept
  <2>1. /\ (AckWaits' => AckWaits) /\ UNCHANGED <<phase, opening, gpc, inReg>>
        /\ apc = "serving" /\ apc' \in {"serving", "return"}
    <3>1. CASE Accept("client")
      BY <1>10, <3>1 DEF AgentAccept, Accept, AckWaits, AckSent, AckRead, AckQueued, AckFrame,
         netVars
    <3>2. CASE Closed("client")
      BY <1>3, <1>10, <3>2 DEF AgentAccept, Closed
    <3> QED BY <1>10, <3>1, <3>2 DEF AgentAccept
  <2> QED
    BY <1>1, <2>1 DEF Answered
<1>11. CASE AgentReturn
  BY <1>1, <1>6, <1>11 DEF AgentReturn, Answered
<1>12. CASE AgentHeartbeat
  BY <1>1, <1>4, <1>7, <1>12 DEF AgentHeartbeat, Answered, linkVars
<1>13. CASE AgentCancel
  BY <1>1, <1>6, <1>13 DEF AgentCancel, Answered, linkVars
<1>14. CASE GatewayRegister
  <2>1. /\ (AckWaits' => AckWaits) /\ UNCHANGED <<phase, opening, held, apc>>
        /\ gpc = "await" /\ gpc' \in {"ack", "nack", "return"} /\ (gpc' = "ack" => inReg')
    BY <1>3, <1>5, <1>14 DEF GatewayRegister, Closed
  <2> QED
    BY <1>1, <2>1 DEF Answered
<1>15. CASE GatewayAck
  <2>1. /\ UNCHANGED <<phase, opening, held, apc, inReg>>
        /\ gpc \in {"ack", "nack"} /\ gpc' \in {"serving", "return", "leaving"}
        /\ gpc' = "serving" => gpc = "ack"
    BY <1>15 DEF GatewayAck, SendControl, vars, sessVars, appVars
  <2> QED
    BY <1>1, <2>1 DEF Answered
<1>16. CASE GatewayServe
  <2>1. /\ (AckWaits' => AckWaits) /\ UNCHANGED <<phase, opening, held, apc, inReg>>
        /\ gpc = "serving" /\ gpc' \in {"serving", "leaving"}
    BY <1>3, <1>5, <1>16 DEF GatewayServe, Closed
  <2> QED
    BY <1>1, <2>1 DEF Answered
<1>17. CASE GatewayLeave
  BY <1>1, <1>3, <1>17 DEF GatewayLeave, Answered
<1>18. CASE GatewayReturn
  BY <1>1, <1>6, <1>18 DEF GatewayReturn, Answered
<1>19. CASE ClientOpen
  <2>1. opening'["client"] = opening["client"]
    BY <1>1, <1>19 DEF ClientOpen, OpenInsert, Add, TypeOK
  <2> QED
    BY <1>1, <1>19, <2>1 DEF ClientOpen, OpenInsert, Answered, AckWaits, AckSent, AckRead,
       AckQueued, AckFrame, linkVars, netVars, appVars
<1>20. ASSUME NEW e \in Ends, SessionStep(e) PROVE Rest
  BY <1>1, <1>20, SessionSteps DEF SessionStep, Answered, linkVars
<1>21. CASE LinkDown /\ UNCHANGED linkVars
  BY <1>1, <1>21 DEF LinkDown, Answered, AckWaits, AckSent, AckRead, AckQueued, AckFrame,
     linkVars, sessVars, appVars
<1> QED
  BY <1>8, <1>9, <1>10, <1>11, <1>12, <1>13, <1>14, <1>15, <1>16, <1>17, <1>18, <1>19, <1>20,
     <1>21 DEF LinkNext, AgentStep, GatewayStep

(* Agent and gateway agree over a tunnel of any capacity, with any streams in  *)
(* flight: an agent that serves is in the gateway's registry until ServeAgent  *)
(* has learnt that the connection ended, because register comes before the ack *)
(* is written; and it is handed no stream before that ack.                     *)
THEOREM ServingAgentsRegistered == LinkSpec => []ServingMeansRegistered
<1>1. LinkInit => LinkInv
  <2> SUFFICES ASSUME LinkInit PROVE LinkInv
    OBVIOUS
  <2>1. /\ TypeOK /\ apc = "register" /\ gpc = "await" /\ inReg = FALSE
        /\ wire["client"] = <<>> /\ controlCh["client"] = <<>> /\ loop["client"] = Reading
        /\ opening["client"] = {} /\ held["client"] = {}
    BY TypeInit DEF LinkInit, Init, Ends
  <2>2. ~AckWaits
    BY SMT, <2>1 DEF AckWaits, AckSent, AckRead, AckQueued, Reading
  <2> QED
    BY <2>1, <2>2 DEF LinkInv, LinkTypeOK
<1>2. LinkInv /\ [LinkNext]_allVars => LinkInv'
  <2>1. CASE UNCHANGED allVars
    <3>1. UNCHANGED vars /\ UNCHANGED linkVars
      BY <2>1 DEF allVars
    <3>2. LinkInv => LinkTypeOK'
      BY <3>1, TypeStep DEF LinkInv, LinkTypeOK, linkVars
    <3> QED
      BY <3>1, <3>2 DEF vars, linkVars, LinkInv, Answered, AckWaits, AckSent, AckRead, AckQueued,
         AckFrame
  <2> QED
    BY <2>1, LinkStep
<1>3. LinkInv => ServingMeansRegistered
  BY DEF LinkInv, ServingMeansRegistered, Answered
<1> QED
  BY <1>1, <1>2, <1>3, PTL DEF LinkSpec

-----------------------------------------------------------------------------
(* The frames of a stream on the connection, as frames are written and read *)

(* The frames v are w and one more; they are w without the first. *)
Grows(w, v, f) ==
  /\ Len(w) \in Nat /\ Len(v) = Len(w) + 1
  /\ \A k \in 1..Len(w) : v[k] = w[k]
  /\ v[Len(v)] = f
Shrinks(w, v) ==
  /\ Len(v) \in Nat /\ Len(w) = Len(v) + 1
  /\ \A k \in 1..Len(v) : v[k] = w[k + 1]

(* A frame of another stream, or an OPEN, written behind the others keeps all
   that is said of a stream's frames. *)
LEMMA OtherGrows ==
  ASSUME NEW w, NEW v, NEW f, NEW i, NEW n, NEW s, NEW c,
         Grows(w, v, f), ~IsData(f, i), ~IsClose(f, i)
  PROVE  /\ Ordered(w, i, s, c) => Ordered(v, i, s, c)
         /\ Announced(w, i) => Announced(v, i)
         /\ Gapless(w, i, n, c) => Gapless(v, i, n, c)
         /\ Complete(w, i, n, s) => Complete(v, i, n, s)
         /\ HasClose(w, i) => HasClose(v, i)
<1>1. \A k \in 1..Len(v) : IsData(v[k], i) \/ IsClose(v[k], i) => k \in 1..Len(w)
  BY SMT DEF Grows
<1>2. \A k \in 1..Len(w) :
        /\ k \in 1..Len(v) /\ v[k] = w[k]
        /\ \A j \in 1..(k - 1) : j \in 1..Len(w) /\ v[j] = w[j]
  BY SMT DEF Grows
<1>3. Ordered(w, i, s, c) => Ordered(v, i, s, c)
  BY <1>1, <1>2 DEF Ordered
<1>4. Announced(w, i) => Announced(v, i)
  BY <1>1, <1>2 DEF Announced
<1>5. Gapless(w, i, n, c) => Gapless(v, i, n, c)
  BY SMT, <1>1, <1>2 DEF Gapless
<1>6. Complete(w, i, n, s) => Complete(v, i, n, s)
  BY <1>2 DEF Complete
<1>7. HasClose(w, i) => HasClose(v, i)
  BY <1>2 DEF HasClose
<1> QED BY <1>3, <1>4, <1>5, <1>6, <1>7

(* The next chunk of a stream written behind its others. *)
LEMMA DataGrows ==
  ASSUME NEW w, NEW v, NEW i, NEW n \in Nat, NEW s \in Nat, NEW c \in Int,
         Grows(w, v, DataFrame(i, s + 1)), Ordered(w, i, s, c)
  PROVE  /\ Ordered(v, i, s + 1, c)
         /\ (\E k \in 1..Len(w) : IsOpen(w[k], i)) /\ Announced(w, i) => Announced(v, i)
         /\ n <= s + 1 /\ Complete(w, i, n, s) /\ Gapless(w, i, n, c)
              => Gapless(v, i, n, c)
         /\ Complete(v, i, n, s + 1)
         /\ HasClose(w, i) => HasClose(v, i)
<1> DEFINE f == DataFrame(i, s + 1)
<1>1. /\ Len(w) \in Nat /\ Len(v) = Len(w) + 1 /\ v[Len(v)] = f
      /\ f.n = s + 1 /\ IsData(f, i) /\ ~IsClose(f, i)
  BY DEF Grows, DataFrame, IsData, IsClose
<1>2. \A k \in 1..Len(v) : k \in 1..Len(w) \/ k = Len(v)
  BY SMT, <1>1
<1>3. \A k \in 1..Len(w) :
        /\ k \in 1..Len(v) /\ v[k] = w[k]
        /\ \A j \in 1..(k - 1) : j \in 1..Len(w) /\ v[j] = w[j]
  BY SMT DEF Grows
<1>3a. Len(v) \in 1..Len(v) /\ 1..(Len(v) - 1) = 1..Len(w)
  BY SMT, <1>1
<1>4. \A x \in 1..s : x \in 1..(s + 1) /\ x < s + 1
  BY SMT
<1>4a. s + 1 \in 1..(s + 1)
  BY SMT
<1>5. Ordered(v, i, s + 1, c)
  <2> SUFFICES ASSUME NEW k \in 1..Len(v) PROVE Ordered(v, i, s + 1, c)!(k)
    BY DEF Ordered
  <2>1. CASE k \in 1..Len(w)
    BY <2>1, <1>3, <1>4 DEF Ordered
  <2>2. CASE k = Len(v)
    BY <2>2, <1>1, <1>3, <1>3a, <1>4, <1>4a DEF Ordered
  <2> QED BY <2>1, <2>2, <1>2
<1>6. (\E k \in 1..Len(w) : IsOpen(w[k], i)) /\ Announced(w, i) => Announced(v, i)
  BY <1>2, <1>3, <1>3a DEF Announced
<1>7. n <= s + 1 /\ Complete(w, i, n, s) /\ Gapless(w, i, n, c) => Gapless(v, i, n, c)
  <2> SUFFICES ASSUME n <= s + 1, Complete(w, i, n, s), Gapless(w, i, n, c), NEW k \in 1..Len(v)
               PROVE  Gapless(v, i, n, c)!(k)
    BY DEF Gapless
  <2>1. CASE k \in 1..Len(w)
    <3>1. Gapless(w, i, n, c)!(k)
      BY <2>1 DEF Gapless
    <3> QED BY <2>1, <3>1, <1>3
  <2>2. CASE k = Len(v)
    <3>1. v[k] = f /\ f.n >= n /\ f.n - 1 = s
      BY SMT, <2>2, <1>1
    <3>2. f.n = n \/ \E j \in 1..(k - 1) : IsData(v[j], i) /\ v[j].n = s
      BY <2>2, <1>1, <1>3, <1>3a DEF Complete
    <3> QED BY <3>1, <3>2, <1>1
  <2> QED BY <2>1, <2>2, <1>2
<1>8. Complete(v, i, n, s + 1)
  BY <1>1, <1>3a DEF Complete
<1>9. HasClose(w, i) => HasClose(v, i)
  BY <1>3 DEF HasClose
<1> QED BY <1>5, <1>6, <1>7, <1>8, <1>9

(* The CLOSE of a stream written behind its chunks. *)
LEMMA CloseGrows ==
  ASSUME NEW w, NEW v, NEW i, NEW n \in Nat, NEW s \in Nat,
         Grows(w, v, CloseFrame(i)), Ordered(w, i, s, -1)
  PROVE  /\ Ordered(v, i, s, s)
         /\ (\E k \in 1..Len(w) : IsOpen(w[k], i)) /\ Announced(w, i) => Announced(v, i)
         /\ Complete(w, i, n, s) /\ Gapless(w, i, n, -1) => Gapless(v, i, n, s)
         /\ Complete(w, i, n, s) => Complete(v, i, n, s)
         /\ HasClose(v, i)
<1> DEFINE f == CloseFrame(i)
<1>1. /\ Len(w) \in Nat /\ Len(v) = Len(w) + 1 /\ v[Len(v)] = f
      /\ IsClose(f, i) /\ ~IsData(f, i)
  BY DEF Grows, CloseFrame, IsData, IsClose
<1>2. \A k \in 1..Len(v) : k \in 1..Len(w) \/ k = Len(v)
  BY SMT, <1>1
<1>3. \A k \in 1..Len(w) :
        /\ k \in 1..Len(v) /\ v[k] = w[k]
        /\ \A j \in 1..(k - 1) : j \in 1..Len(w) /\ v[j] = w[j]
  BY SMT DEF Grows
<1>3a. Len(v) \in 1..Len(v) /\ 1..(Len(v) - 1) = 1..Len(w)
  BY SMT, <1>1
<1>4. s # -1 /\ \A x \in 1..s : x <= s
  BY SMT
<1>4a. \A k \in 1..Len(w) : ~IsClose(w[k], i)
  BY DEF Ordered
<1>5. Ordered(v, i, s, s)
  <2> SUFFICES ASSUME NEW k \in 1..Len(v) PROVE Ordered(v, i, s, s)!(k)
    BY DEF Ordered
  <2>1. CASE k \in 1..Len(w)
    BY <2>1, <1>3, <1>4a DEF Ordered
  <2>2. CASE k = Len(v)
    BY <2>2, <1>1, <1>3, <1>3a, <1>4 DEF Ordered
  <2> QED BY <2>1, <2>2, <1>2
<1>6. (\E k \in 1..Len(w) : IsOpen(w[k], i)) /\ Announced(w, i) => Announced(v, i)
  BY <1>2, <1>3, <1>3a DEF Announced
<1>7. Complete(w, i, n, s) /\ Gapless(w, i, n, -1) => Gapless(v, i, n, s)
  <2> SUFFICES ASSUME Complete(w, i, n, s), Gapless(w, i, n, -1), NEW k \in 1..Len(v)
               PROVE  Gapless(v, i, n, s)!(k)
    BY DEF Gapless
  <2>1. CASE k \in 1..Len(w)
    BY <2>1, <1>3, <1>4a DEF Gapless
  <2>2. CASE k = Len(v)
    BY <2>2, <1>1, <1>3, <1>3a DEF Complete
  <2> QED BY <2>1, <2>2, <1>2
<1>8. Complete(w, i, n, s) => Complete(v, i, n, s)
  BY <1>3 DEF Complete
<1>9. HasClose(v, i)
  BY <1>1, <1>3a DEF HasClose
<1> QED BY <1>5, <1>6, <1>7, <1>8, <1>9

(* The k-th frame that is left was the m-th, behind the same frames and the first. *)
Shifted(w, v, k, m) ==
  /\ v[k] = w[m] /\ 1 \in 1..(m - 1)
  /\ \A j \in 1..(k - 1) : \E l \in 1..(m - 1) : v[j] = w[l]
  /\ \A l \in 1..(m - 1) : l = 1 \/ \E j \in 1..(k - 1) : v[j] = w[l]

(* Every frame that is left was the one behind it. *)
LEMMA Shift ==
  ASSUME NEW w, NEW v, Shrinks(w, v), NEW k \in 1..Len(v)
  PROVE  \E m \in 1..Len(w) : Shifted(w, v, k, m)
<1>1. PICK m \in 1..Len(w) : m = k + 1 /\ v[k] = w[m] /\ 1 \in 1..(m - 1)
  BY SMT DEF Shrinks
<1>2. ASSUME NEW j \in 1..(k - 1) PROVE \E l \in 1..(m - 1) : v[j] = w[l]
  BY SMT, <1>1 DEF Shrinks
<1>3. ASSUME NEW l \in 1..(m - 1), l # 1 PROVE \E j \in 1..(k - 1) : v[j] = w[l]
  <2>1. l - 1 \in 1..(k - 1) /\ v[l - 1] = w[l]
    BY SMT, <1>1, <1>3 DEF Shrinks
  <2> QED BY <2>1
<1> QED BY <1>1, <1>2, <1>3 DEF Shifted

(* x is one of the frames v. *)
Among(x, v) == \E k \in 1..Len(v) : v[k] = x

(* Every frame but the first is left. *)
LEMMA ShiftBack ==
  ASSUME NEW w, NEW v, Shrinks(w, v), NEW m \in 1..Len(w), m # 1
  PROVE  Among(w[m], v)
<1>1. m - 1 \in 1..Len(v) /\ v[m - 1] = w[m]
  BY SMT DEF Shrinks
<1> QED BY <1>1 DEF Among

(* Taking the first frame off leaves the rest in order, and as gapless. *)
LEMMA OtherTaken ==
  ASSUME NEW w, NEW v, NEW i, NEW n, NEW s, NEW c, Shrinks(w, v)
  PROVE  /\ Ordered(w, i, s, c) => Ordered(v, i, s, c)
         /\ Announced(w, i) => ~IsData(w[1], i) /\ ~IsClose(w[1], i)
         /\ Announced(w, i) /\ ~IsOpen(w[1], i) => Announced(v, i)
         /\ CutBefore(w, i, c) => CutBefore(v, i, c)
         /\ HasClose(w, i) /\ ~IsClose(w[1], i) => HasClose(v, i)
         /\ ~IsData(w[1], i) => /\ Gapless(w, i, n, c) => Gapless(v, i, n, c)
                                /\ Complete(w, i, n, s) => Complete(v, i, n, s)
<1>1. ASSUME NEW k \in 1..Len(v)
      PROVE  /\ Ordered(w, i, s, c) => Ordered(v, i, s, c)!(k)
             /\ Announced(w, i) /\ ~IsOpen(w[1], i) => Announced(v, i)!(k)
             /\ CutBefore(w, i, c) => CutBefore(v, i, c)!(k)
             /\ ~IsData(w[1], i) /\ Gapless(w, i, n, c) => Gapless(v, i, n, c)!(k)
  <2>1. PICK m \in 1..Len(w) : Shifted(w, v, k, m)
    BY Shift
  <2>2. Ordered(w, i, s, c) => Ordered(v, i, s, c)!(k)
    <3>1. Ordered(w, i, s, c) => Ordered(w, i, s, c)!(m)
      BY DEF Ordered
    <3> QED BY <2>1, <3>1 DEF Shifted
  <2>3. Announced(w, i) /\ ~IsOpen(w[1], i) => Announced(v, i)!(k)
    <3>1. Announced(w, i) => Announced(w, i)!(m)
      BY DEF Announced
    <3> QED BY <2>1, <3>1 DEF Shifted
  <2>4. CutBefore(w, i, c) => CutBefore(v, i, c)!(k)
    BY <2>1 DEF CutBefore, Shifted
  <2>5. ~IsData(w[1], i) /\ Gapless(w, i, n, c) => Gapless(v, i, n, c)!(k)
    <3> SUFFICES ASSUME ~IsData(w[1], i), Gapless(w, i, n, c)
                 PROVE  Gapless(v, i, n, c)!(k)
      OBVIOUS
    <3>1. Gapless(w, i, n, c)!(m)
      BY DEF Gapless
    <3>2. \A x : (\E l \in 1..(m - 1) : IsData(w[l], i) /\ w[l].n = x)
                => \E j \in 1..(k - 1) : IsData(v[j], i) /\ v[j].n = x
      BY <2>1 DEF Shifted
    <3>3. v[k] = w[m]
      BY <2>1 DEF Shifted
    <3> QED BY <3>1, <3>2, <3>3
  <2> QED BY <2>2, <2>3, <2>4, <2>5
<1>2. Ordered(w, i, s, c) => Ordered(v, i, s, c)
  BY <1>1 DEF Ordered
<1>3. Announced(w, i) => ~IsData(w[1], i) /\ ~IsClose(w[1], i)
  <2>1. 1 \in 1..Len(w) /\ 1..(1 - 1) = {}
    BY SMT DEF Shrinks
  <2> QED BY <2>1 DEF Announced
<1>4. Announced(w, i) /\ ~IsOpen(w[1], i) => Announced(v, i)
  BY <1>1 DEF Announced
<1>5. CutBefore(w, i, c) => CutBefore(v, i, c)
  BY <1>1 DEF CutBefore
<1>6. HasClose(w, i) /\ ~IsClose(w[1], i) => HasClose(v, i)
  <2> SUFFICES ASSUME NEW m \in 1..Len(w), IsClose(w[m], i), ~IsClose(w[1], i)
               PROVE  \E k \in 1..Len(v) : IsClose(v[k], i)
    BY DEF HasClose
  <2>0. m # 1
    OBVIOUS
  <2>1. Among(w[m], v)
    BY <2>0, ShiftBack
  <2> QED BY <2>1 DEF Among
<1>7. ~IsData(w[1], i) /\ Gapless(w, i, n, c) => Gapless(v, i, n, c)
  BY <1>1 DEF Gapless
<1>8. ~IsData(w[1], i) /\ Complete(w, i, n, s) => Complete(v, i, n, s)
  <2> SUFFICES ASSUME NEW m \in 1..Len(w), IsData(w[m], i), ~IsData(w[1], i)
               PROVE  Among(w[m], v)
    BY DEF Complete, Among
  <2>0. m # 1
    OBVIOUS
  <2> QED BY <2>0, ShiftBack
<1> QED BY <1>2, <1>3, <1>4, <1>5, <1>6, <1>7, <1>8

(* Taking a chunk off leaves the one after it as the first. *)
LEMMA DataTaken ==
  ASSUME NEW w, NEW v, NEW i, NEW n \in Nat, NEW s \in Nat, NEW c \in Nat \cup {-1},
         Shrinks(w, v), IsData(w[1], i), Ordered(w, i, s, c), Gapless(w, i, n, c)
  PROVE  /\ w[1].n = n /\ n + 1 <= s + 1
         /\ Gapless(v, i, n + 1, c)
         /\ Complete(w, i, n, s) => Complete(v, i, n + 1, s)
         /\ c # -1 /\ (HasClose(w, i) \/ CutBefore(w, i, c)) => n + 1 <= c + 1
<1>1. 1 \in 1..Len(w) /\ 1..(1 - 1) = {}
  BY SMT DEF Shrinks
<1>2. w[1].n = n /\ w[1].n \in 1..s
  BY <1>1 DEF Gapless, Ordered
<1>3. n \in 1..s /\ n + 1 <= s + 1 /\ n <= s /\ s + 1 # n
  BY SMT, <1>2
<1>5. ASSUME NEW k \in 1..Len(v) PROVE Gapless(v, i, n + 1, c)!(k)
  <2>1. PICK m \in 1..Len(w) : Shifted(w, v, k, m)
    BY Shift
  <2>2. Gapless(w, i, n, c)!(m) /\ Ordered(w, i, s, c)!(m)
    BY DEF Gapless, Ordered
  <2>3. ASSUME IsData(v[k], i)
        PROVE  /\ v[k].n >= n + 1
               /\ \/ v[k].n = n + 1
                  \/ \E j \in 1..(k - 1) : IsData(v[j], i) /\ v[j].n = v[k].n - 1
    <3>1. v[k].n \in 1..s /\ n < v[k].n
      BY <2>1, <2>2, <2>3, <1>2 DEF Shifted
    <3>2. v[k].n >= n + 1 /\ v[k].n # n /\ (v[k].n # n + 1 => v[k].n - 1 # n)
      BY SMT, <3>1
    <3>3. \E l \in 1..(m - 1) : IsData(w[l], i) /\ w[l].n = v[k].n - 1
      BY <2>1, <2>2, <2>3, <3>2 DEF Shifted
    <3> QED BY <2>1, <3>2, <3>3, <1>2 DEF Shifted
  <2>4. ASSUME IsClose(v[k], i)
        PROVE  c + 1 = n + 1 \/ \E j \in 1..(k - 1) : IsData(v[j], i) /\ v[j].n = c
    <3>1. c # -1 /\ n <= c
      BY <2>1, <2>2, <2>4, <1>2 DEF Shifted
    <3>2. c + 1 # n
      BY SMT, <3>1
    <3>3. \E l \in 1..(m - 1) : IsData(w[l], i) /\ w[l].n = c
      BY <2>1, <2>2, <2>4, <3>2 DEF Shifted
    <3> QED BY <3>3, <2>1, <1>2 DEF Shifted
  <2> QED BY <2>3, <2>4
<1>6. Complete(w, i, n, s) => Complete(v, i, n + 1, s)
  <2> SUFFICES ASSUME NEW m \in 1..Len(w), IsData(w[m], i), w[m].n = s, s # n
               PROVE  Among(w[m], v)
    BY <1>3 DEF Complete, Among
  <2>0. m # 1
    BY <1>2
  <2> QED BY <2>0, ShiftBack
<1>7. c # -1 /\ (HasClose(w, i) \/ CutBefore(w, i, c)) => n + 1 <= c + 1
  <2>1. ~IsClose(w[1], i)
    BY DEF IsClose, IsData
  <2>2. \A k \in 1..Len(w) : k # 1 => 1 \in 1..(k - 1)
    BY SMT
  <2>3. HasClose(w, i) \/ CutBefore(w, i, c) => n <= c
    BY <2>1, <2>2, <1>1, <1>2 DEF HasClose, CutBefore, Ordered
  <2> QED BY SMT, <2>3
<1> QED BY <1>2, <1>3, <1>5, <1>6, <1>7 DEF Gapless

-----------------------------------------------------------------------------
(* What writeFrame and readFrame do to them, and that no stream comes back *)

(* writeFrame makes what travels to the peer grow, unless it cannot be received. *)
LEMMA WrittenWire ==
  ASSUME TypeOK, NEW e \in Ends, NEW f \in Frame, Written(e, f)
  PROVE  /\ wire'[e] = wire[e]
         /\ \/ wire'[Peer(e)] = wire[Peer(e)] /\ ~Lossless(Peer(e))
            \/ Grows(wire[Peer(e)], wire'[Peer(e)], f) /\ Lossless(Peer(e))
<1>1. Peer(e) \in Ends /\ Peer(e) # e
  BY PeerFacts
<1>2. wire[Peer(e)] \in Seq(Frame) /\ wire \in [Ends -> Seq(Frame)]
  BY <1>1 DEF TypeOK
<1>3. CASE UNCHANGED wire /\ (link = "down" \/ phase[Peer(e)] # "open")
  BY <1>3 DEF Lossless
<1>4. CASE Lossless(Peer(e)) /\ wire' = [wire EXCEPT ![Peer(e)] = Append(@, f)]
  <2>1. wire'[e] = wire[e] /\ wire'[Peer(e)] = Append(wire[Peer(e)], f)
    BY <1>1, <1>2, <1>4
  <2>2. Grows(wire[Peer(e)], Append(wire[Peer(e)], f), f)
    BY SMT, <1>2 DEF Grows
  <2> QED BY <1>4, <2>1, <2>2
<1> QED BY <1>3, <1>4 DEF Written, Lossless

(* readFrame takes the first frame off the connection. *)
LEMMA TakenWire ==
  ASSUME TypeOK, NEW e \in Ends, ReadFrame(e)
  PROVE  /\ Shrinks(wire[e], wire'[e])
         /\ loop'[e] = At("got", wire[e][1]) /\ wire[e][1] \in Frame
         /\ \A x \in Ends : x # e => wire'[x] = wire[x] /\ loop'[x] = loop[x]
<1>1. wire[e] \in Seq(Frame) /\ wire[e] # <<>> /\ wire \in [Ends -> Seq(Frame)] /\ loop \in [Ends -> Loop]
  BY DEF TypeOK, ReadFrame
<1>2. Shrinks(wire[e], Tail(wire[e])) /\ Head(wire[e]) = wire[e][1] /\ wire[e][1] \in Frame
  BY SMT, <1>1 DEF Shrinks
<1>3. /\ wire'[e] = Tail(wire[e]) /\ loop'[e] = At("got", Head(wire[e]))
      /\ \A x \in Ends : x # e => wire'[x] = wire[x] /\ loop'[x] = loop[x]
  BY <1>1 DEF ReadFrame, GoTo
<1> QED BY <1>2, <1>3

(* No stream becomes unarrived, and one that does not receive never will. *)
Ages(e, i) ==
  /\ Unarrived(e, i)' => Unarrived(e, i)
  /\ Receives(e, i)' => Receives(e, i)

(* It is so for a step that announces nothing and returns no stream to the map. *)
LEMMA AgesIf ==
  ASSUME UNCHANGED <<nextID, opening>>,
         \A x \in Ends : \A j \in Ids :
           /\ OpenInFlight(x, j)' => OpenInFlight(x, j)
           /\ j \in streams'[x] => j \in streams[x] \/ Unarrived(x, j)
           /\ closePc'[x][j] = "no" => closePc[x][j] = "no"
  PROVE  \A x \in Ends : \A j \in Ids : Ages(x, j)
<1> SUFFICES ASSUME NEW x \in Ends, NEW j \in Ids PROVE Ages(x, j)
  OBVIOUS
<1>1. Unarrived(x, j)' => Unarrived(x, j)
  BY StillUnarrived
<1> QED BY <1>1 DEF Ages, Receives

(* Open's insert is of a stream that was never announced. *)
LEMMA OpenInsertAges ==
  ASSUME IInv, NEW e \in Ends, OpenInsert(e)
  PROVE  \A x \in Ends : \A j \in Ids : Ages(x, j)
<1> DEFINE n == nextID[e]
<1>0. n \in Ids /\ n \in Nat /\ n % 2 = Parity(e)
  BY DEF OpenInsert, IInv, AllocInv, TypeOK
<1>1. /\ Peer(e) \in Ends /\ Peer(e) # e /\ Peer(Peer(e)) = e
      /\ \A x \in Ends : x = e \/ x = Peer(e)
  BY PeerFacts
<1>2. /\ nextID'[e] = n + 2 /\ nextID'[Peer(e)] = nextID[Peer(e)]
      /\ opening'[e] = opening[e] \cup {n} /\ opening'[Peer(e)] = opening[Peer(e)]
      /\ streams'[e] = streams[e] \cup {n} /\ streams'[Peer(e)] = streams[Peer(e)]
      /\ wire' = wire /\ loop' = loop /\ closePc' = closePc
  BY <1>0, <1>1 DEF OpenInsert, Add, IInv, TypeOK, netVars, strVars
<1>3. \A x \in Ends : \A j \in Ids : OpenInFlight(x, j)' <=> OpenInFlight(x, j)
  BY <1>2 DEF OpenInFlight, Holding
<1>4. \A j \in Ids : j >= n + 2 => j >= n
  BY SMT, <1>0 DEF Ids
<1>5. n \in OwnIds(e) /\ n >= n
  BY SMT, <1>0 DEF OwnIds
<1>6. \A j \in Ids : Ages(e, j)
  BY <1>1, <1>2, <1>3, <1>4, <1>5 DEF Ages, Receives, Unarrived
<1>7. \A j \in Ids : Ages(Peer(e), j)
  BY <1>1, <1>2, <1>3, <1>4, <1>5 DEF Ages, Receives, Unarrived
<1> QED BY <1>1, <1>6, <1>7

(* Open's OPEN announces a stream that was being opened. *)
LEMMA OpenSendAges ==
  ASSUME IInv, NEW e \in Ends, NEW i \in Ids, OpenSend(e, i)
  PROVE  \A x \in Ends : \A j \in Ids : Ages(x, j)
<1>1. /\ Peer(e) \in Ends /\ Peer(e) # e /\ Peer(Peer(e)) = e
      /\ \A x \in Ends : x = e \/ x = Peer(e)
  BY PeerFacts
<1>2. /\ i \in opening[e] /\ i \in OwnIds(e) /\ ~OpenInFlight(Peer(e), i)
      /\ OwnIds(e) \cap OwnIds(Peer(e)) = {}
  BY PeerFacts DEF OpenSend, IInv, AllocInv
<1>3. \A x \in Ends : \A j \in Ids : OpenInFlight(x, j)' =>
              OpenInFlight(x, j) \/ (x = Peer(e) /\ j = i)
  <2>1. CASE Written(e, OpenFrame(i))
    BY <2>1, <1>2, OpenFrameWritten DEF IInv, OpenSend
  <2>2. CASE UNCHANGED wire
    BY <2>2 DEF OpenInFlight, Holding, OpenSend
  <2> QED BY <2>1, <2>2 DEF OpenSend
<1>4. /\ \A x \in Ends : opening'[x] \subseteq opening[x] /\ streams'[x] \subseteq streams[x]
      /\ UNCHANGED <<nextID, closePc>>
  <2>1. /\ opening \in [Ends -> SUBSET Ids] /\ opening' = Drop(opening, e, i)
        /\ streams \in [Ends -> SUBSET Ids]
        /\ streams' = streams \/ streams' = Drop(streams, e, i)
        /\ UNCHANGED <<nextID, closePc>>
    BY DEF OpenSend, IInv, TypeOK, strVars
  <2> QED BY <2>1 DEF Drop
<1>5. ASSUME NEW x \in Ends, NEW j \in Ids, Unarrived(x, j)' PROVE Unarrived(x, j)
  <2>1. Peer(x) \in Ends
    BY PeerFacts
  <2>2. CASE OpenInFlight(x, j) \/ ~OpenInFlight(x, j)'
    BY <1>4, <1>5, <2>1, <2>2 DEF Unarrived
  <2>3. CASE x = Peer(e) /\ j = i
    BY <1>1, <1>2, <2>3 DEF Unarrived
  <2> QED BY <1>3, <2>2, <2>3
<1> QED BY <1>4, <1>5 DEF Ages, Receives

(* No step of the session brings a stream back. *)
LEMMA AgeStep ==
  ASSUME IInv, [Next]_vars
  PROVE  \A x \in Ends : \A j \in Ids : Ages(x, j)
<1> DEFINE Goal == \A x \in Ends : \A j \in Ids : Ages(x, j)
<1>1. CASE UNCHANGED <<wire, loop, nextID, opening, streams, closePc>>
  BY <1>1, AgesIf DEF OpenInFlight, Holding
<1>2. ASSUME NEW e \in Ends, NEW f \in Frame, f.typ # "open", Written(e, f),
             UNCHANGED <<loop, nextID, opening, streams>>,
             \A x \in Ends : \A j \in Ids : closePc'[x][j] = "no" => closePc[x][j] = "no"
      PROVE  Goal
  BY <1>2, AgesIf, OtherFrameWritten DEF IInv
<1>3. ASSUME NEW e \in Ends, NEW l \in Loop, l.at # "got", GoTo(e, l),
             UNCHANGED <<wire, nextID, opening, closePc>>,
             \A x \in Ends : streams'[x] \subseteq streams[x]
      PROVE  Goal
  BY <1>3, AgesIf, LoopMoves DEF IInv
<1>4. ASSUME NEW e \in Ends, ReadLoop(e) PROVE Goal
  <2>1. CASE ReadFrame(e)
    BY <2>1, AgesIf, FrameTaken DEF ReadFrame, IInv, strVars
  <2>2. \A l \in {Reading, Done} : l \in Loop /\ l.at # "got"
    BY SMT, LoopPlaces DEF Reading, Done
  <2>3. CASE ReadError(e) \/ HandleControl(e) \/ PushAccept(e) \/ RemoteClose(e) \/ Deliver(e)
    BY <1>3, <2>2, <2>3 DEF ReadError, HandleControl, PushAccept, RemoteClose, Deliver, netVars, strVars
  <2>4. \A f \in StreamFrame, a \in {"deliver", "remoteClose", "accept"} : At(a, f) \in Loop /\ At(a, f).at # "got"
    BY LoopPlaces DEF At
  <2>5. HandleData(e) \/ HandleClose(e) \/ HandleOpen(e) => loop[e].f \in StreamFrame /\ loop[e].f.id \in Ids
    BY HeldFrame DEF IInv, HandleData, HandleClose, HandleOpen
  <2>6. CASE HandleData(e)
    BY <1>3, <2>2, <2>4, <2>5, <2>6 DEF HandleData, netVars, strVars
  <2>7. CASE HandleClose(e)
    <3>1. \A x \in Ends : streams'[x] \subseteq streams[x]
      BY <2>7 DEF HandleClose, Drop, IInv, TypeOK
    <3> QED BY <1>3, <2>2, <2>4, <2>5, <2>7, <3>1 DEF HandleClose, netVars, strVars
  <2>8. CASE HandleOpen(e)
    <3>1. /\ \A x \in Ends : x # e => streams'[x] = streams[x]
          /\ streams'[e] = streams[e] \cup {loop[e].f.id}
      BY <2>8 DEF HandleOpen, Add, IInv, TypeOK
    <3>2. Unarrived(e, loop[e].f.id)
      <4>1. OpenInFlight(e, loop[e].f.id)
        BY <2>8 DEF HandleOpen, OpenInFlight
      <4>2. Peer(e) \in Ends /\ Peer(Peer(e)) = e
        BY PeerFacts
      <4> QED BY <2>5, <2>8, <4>1, <4>2 DEF Unarrived, IInv, AllocInv
    <3>3. \A x \in Ends : \A j \in Ids : OpenInFlight(x, j)' => OpenInFlight(x, j)
      BY <2>4, <2>5, <2>8, LoopMoves DEF HandleOpen, netVars, IInv
    <3> QED BY <3>1, <3>2, <3>3, <2>8, AgesIf DEF HandleOpen, strVars
  <2> QED BY <1>4, <2>1, <2>3, <2>6, <2>7, <2>8 DEF ReadLoop
<1>5. ASSUME NEW e \in Ends, NEW i \in Ids, StreamStep(e, i) PROVE Goal
  <2>1. CASE OpenSend(e, i)
    BY <2>1, OpenSendAges
  <2>2. CASE StartWrite(e, i) \/ Read(e, i)
    BY <1>1, <2>2 DEF StartWrite, Read, sessVars, netVars, strVars
  <2>3. CASE WriteChunk(e, i)
    <3>1. /\ DataFrame(i, sent[e][i] + 1) \in Frame
          /\ DataFrame(i, sent[e][i] + 1).typ # "open"
      BY NextChunk DEF DataFrame, Frame, StreamFrame, IInv
    <3> QED BY <1>1, <1>2, <2>3, <3>1 DEF WriteChunk, sessVars, strVars
  <2>4. CASE CloseLocal(e, i) \/ CloseRemove(e, i) \/ CloseSend(e, i)
    <3>1. \A x \in Ends : \A j \in Ids : closePc'[x][j] = "no" => closePc[x][j] = "no"
      <4>1. /\ closePc \in [Ends -> [Ids -> {"no", "remove", "send", "done"}]]
            /\ \E b \in {"remove", "send", "done"} : closePc' = [closePc EXCEPT ![e][i] = b]
        BY <2>4 DEF CloseLocal, CloseRemove, CloseSend, IInv, TypeOK
      <4> QED BY SMT, <4>1
    <3>2. CASE wire' = wire /\ UNCHANGED <<loop, nextID, opening>> /\ \A x \in Ends : streams'[x] \subseteq streams[x]
      BY <3>1, <3>2, AgesIf DEF OpenInFlight, Holding
    <3>3. CASE CloseLocal(e, i)
      BY <3>2, <3>3 DEF CloseLocal, sessVars, netVars
    <3>4. CASE CloseRemove(e, i)
      BY <3>2, <3>4 DEF CloseRemove, Drop, netVars, IInv, TypeOK
    <3>5. CASE CloseSend(e, i)
      <4>1. CloseFrame(i) \in Frame /\ CloseFrame(i).typ # "open"
        BY DEF CloseFrame, Frame, StreamFrame
      <4> QED BY <1>2, <3>1, <3>2, <3>5, <4>1 DEF CloseSend, sessVars
    <3> QED BY <2>4, <3>3, <3>4, <3>5
  <2> QED BY <1>5, <2>1, <2>2, <2>3, <2>4 DEF StreamStep
<1>6. ASSUME NEW e \in Ends, Sweep(e) PROVE Goal
  <2>1. \A x \in Ends : streams'[x] \subseteq streams[x]
    BY <1>6 DEF Sweep, IInv, TypeOK
  <2> QED BY <1>6, <2>1, AgesIf DEF Sweep, netVars, OpenInFlight, Holding
<1>7. ASSUME NEW e \in Ends, NEW c \in Control, SendControl(e, c) PROVE Goal
  <2>1. ControlFrame(c) \in Frame /\ ControlFrame(c).typ # "open"
    BY DEF ControlFrame, Frame
  <2> QED BY <1>2, <1>7, <2>1 DEF SendControl, sessVars, strVars
<1> QED
  BY <1>1, <1>4, <1>5, <1>6, <1>7, OpenInsertAges DEF Next, vars, LinkDown, Accept,
     NextControl, SessionClose, sessVars, netVars, strVars

-----------------------------------------------------------------------------
(* The flow of one stream across what the program writes *)

(* A step that moves none of the stream's frames: the stream has what it had,
   readLoop holds for it what it held, and nothing that was over comes back. *)
Still(x, j) ==
  /\ Ages(x, j)
  /\ Lossless(x)' => Lossless(x)
  /\ Taken(x, j)' = Taken(x, j)
  /\ (\A k \in DOMAIN buf[x][j] : buf[x][j][k] = got[x][j] + k)
       => \A k \in DOMAIN buf'[x][j] : buf'[x][j][k] = got'[x][j] + k
  /\ Carrying(x, j)' <=> Carrying(x, j)
  /\ Carrying(x, j) => loop'[x].f = loop[x].f
  /\ Closing(x, j)' <=> Closing(x, j)
  /\ j \in remoteClosed'[x] \/ Ending(x, j)' => j \in remoteClosed[x] \/ Ending(x, j)
  /\ Ending(x, j)' => Ending(x, j)
  /\ closePc[x][j] # "no" => closePc'[x][j] # "no"
  /\ Arriving(x, j) => Arriving(x, j)' \/ ~Unarrived(x, j)'

(* The types of what the program wrote and readLoop holds. *)
LEMMA FlowTypes ==
  ASSUME TypeOK, NEW x \in Ends, NEW j \in Ids
  PROVE  /\ sent[Peer(x)][j] \in Nat /\ fin[Peer(x)][j] \in Nat \cup {-1}
         /\ Taken(x, j) \in Nat /\ Due(x, j) \in Nat
         /\ Due(x, j) = Taken(x, j) + 2 \/ Due(x, j) = Taken(x, j) + 1
         /\ Carrying(x, j) => Due(x, j) = Taken(x, j) + 2
         /\ ~Carrying(x, j) => Due(x, j) = Taken(x, j) + 1
<1>1. Peer(x) \in Ends
  BY PeerFacts
<1>2. /\ sent[Peer(x)][j] \in Nat /\ fin[Peer(x)][j] \in Nat \cup {-1}
      /\ got[x][j] \in Nat /\ buf[x][j] \in Seq(Nat)
  <2>1. /\ sent \in [Ends -> [Ids -> Nat]]
        /\ fin \in [Ends -> [Ids -> Nat \cup {-1}]]
    BY DEF TypeOK
  <2>2. /\ got \in [Ends -> [Ids -> Nat]]
        /\ buf \in [Ends -> [Ids -> Seq(Nat)]]
    BY DEF TypeOK
  <2> QED BY <1>1, <2>1, <2>2
<1>3. Taken(x, j) \in Nat
  BY SMT, <1>2 DEF Taken
<1>4. /\ Carrying(x, j) => Due(x, j) = Taken(x, j) + 2
      /\ ~Carrying(x, j) => Due(x, j) = Taken(x, j) + 1
  BY DEF Due
<1>5. Taken(x, j) + 1 \in Nat /\ Taken(x, j) + 2 \in Nat
  BY SMT, <1>3
<1> QED BY <1>2, <1>3, <1>4, <1>5

(* Frames of other streams, and OPEN frames, change nothing for a stream. *)
LEMMA FlowOther ==
  ASSUME NEW x \in Ends, NEW j \in Ids, Flow(x, j), Still(x, j),
         sent'[Peer(x)][j] = sent[Peer(x)][j], fin'[Peer(x)][j] = fin[Peer(x)][j],
         \/ wire'[x] = wire[x]
         \/ /\ Lossless(x)
            /\ \E f : Grows(wire[x], wire'[x], f) /\ ~IsData(f, j) /\ ~IsClose(f, j)
  PROVE  Flow(x, j)'
<1> DEFINE w == wire[x]
           v == wire'[x]
           s == sent[Peer(x)][j]
           c == fin[Peer(x)][j]
           n == Due(x, j)
<1>1. /\ Ordered(w, j, s, c) => Ordered(v, j, s, c)
      /\ Announced(w, j) => Announced(v, j)
      /\ Gapless(w, j, n, c) => Gapless(v, j, n, c)
      /\ Complete(w, j, n, s) => Complete(v, j, n, s)
      /\ HasClose(w, j) => HasClose(v, j)
      /\ ~Lossless(x) /\ CutBefore(w, j, c) => CutBefore(v, j, c)
  <2>1. CASE wire'[x] = wire[x]
    BY <2>1
  <2>2. CASE /\ Lossless(x)
             /\ \E f : Grows(wire[x], wire'[x], f) /\ ~IsData(f, j) /\ ~IsClose(f, j)
    <3>1. PICK f : Grows(w, v, f) /\ ~IsData(f, j) /\ ~IsClose(f, j)
      BY <2>2
    <3> HIDE DEF w, v, s, c, n
    <3> QED BY <2>2, <3>1, OtherGrows
  <2> QED BY <2>1, <2>2
<1>2. Due(x, j)' = Due(x, j)
  BY DEF Still, Due
<1>3. Travels(x, j)'
  BY <1>1 DEF Flow, Travels, Still, Ages
<1>4. Handles(x, j)'
  BY DEF Flow, Handles, Still, Ages
<1>5. Holds(x, j)'
  BY DEF Flow, Holds, Still
<1>6. ASSUME Receives(x, j)' PROVE Continues(x, j)'
  <2>1. Receives(x, j) /\ Continues(x, j)
    BY <1>6 DEF Still, Ages, Flow
  <2> QED BY <2>1, <1>1, <1>2 DEF Continues, Still
<1> QED BY <1>3, <1>4, <1>5, <1>6 DEF Flow

(* The program's next chunk on the stream. *)
LEMMA FlowData ==
  ASSUME TypeOK, NEW x \in Ends, NEW j \in Ids, Flow(x, j), Still(x, j),
         sent'[Peer(x)][j] = sent[Peer(x)][j] + 1, fin'[Peer(x)][j] = fin[Peer(x)][j],
         Unarrived(x, j) => OpenInFlight(x, j),
         \/ wire'[x] = wire[x] /\ ~Lossless(x)
         \/ Grows(wire[x], wire'[x], DataFrame(j, sent[Peer(x)][j] + 1)) /\ Lossless(x)
  PROVE  Flow(x, j)'
<1> DEFINE w == wire[x]
           v == wire'[x]
           s == sent[Peer(x)][j]
           c == fin[Peer(x)][j]
           n == Due(x, j)
<1>0. s \in Nat /\ c \in Nat \cup {-1} /\ n \in Nat /\ c \in Int /\ Taken(x, j) \in Nat
  <2>1. s \in Nat /\ c \in Nat \cup {-1} /\ n \in Nat /\ Taken(x, j) \in Nat
    BY FlowTypes
  <2> QED BY SMT, <2>1
<1>1. Due(x, j)' = n /\ Peer(x) \in Ends
  BY PeerFacts DEF Still, Due
<1>2. Ordered(w, j, s, c)
  BY DEF Flow, Travels
<1>3. s <= s + 1 /\ (\A m \in 1..s : m \in 1..(s + 1)) /\ (\A m \in Nat : m <= s => m <= s + 1)
      /\ (n <= s + 1 => n <= (s + 1) + 1)
  BY SMT, <1>0
<1>4. /\ Ordered(v, j, s + 1, c)
      /\ Arriving(x, j) \/ Announced(w, j) =>
           Arriving(x, j) \/ Announced(v, j) \/ ~Unarrived(x, j)
  <2>1. CASE v = w
    BY <1>2, <1>3, <2>1 DEF Ordered
  <2>2. CASE Grows(w, v, DataFrame(j, s + 1))
    <3>1. /\ Ordered(v, j, s + 1, c)
          /\ (\E k \in 1..Len(w) : IsOpen(w[k], j)) /\ Announced(w, j) => Announced(v, j)
      <4> HIDE DEF w, v, s, c, n
      <4> QED BY <1>0, <1>2, <2>2, DataGrows
    <3>2. DOMAIN w = 1..Len(w)
      <4>1. w \in Seq(Frame)
        BY DEF TypeOK
      <4> QED BY SMT, <4>1
    <3>3. OpenInFlight(x, j) => Arriving(x, j) \/ \E k \in 1..Len(w) : IsOpen(w[k], j)
      BY <3>2 DEF OpenInFlight, Arriving, IsOpen, Holding
    <3> QED BY <3>1, <3>3
  <2> QED BY <2>1, <2>2
<1>5. Travels(x, j)'
  BY <1>4 DEF Flow, Travels, Still, Ages
<1>6. Handles(x, j)'
  BY <1>3 DEF Flow, Handles, Still, Ages
<1>7. Holds(x, j)'
  BY <1>0, <1>3 DEF Flow, Holds, Still
<1>8. ASSUME Receives(x, j)' PROVE Continues(x, j)'
  <2>1. Continues(x, j)
    BY <1>8 DEF Still, Ages, Flow
  <2>2. CASE v = w /\ ~Lossless(x)
    BY <2>1, <2>2, <1>1, <1>3 DEF Continues, Still
  <2>3. CASE Grows(w, v, DataFrame(j, s + 1)) /\ Lossless(x)
    <3>0. n <= s + 1 /\ Complete(w, j, n, s) /\ Gapless(w, j, n, c)
      BY <2>1, <2>3 DEF Continues
    <3>1. /\ Gapless(v, j, n, c) /\ Complete(v, j, n, s + 1)
          /\ HasClose(w, j) => HasClose(v, j)
      <4> HIDE DEF w, v, s, c, n
      <4> QED BY <1>0, <1>2, <2>3, <3>0, DataGrows
    <3> QED BY <2>1, <2>3, <1>1, <1>3, <3>1 DEF Continues, Still
  <2> QED BY <2>2, <2>3
<1> QED BY <1>5, <1>6, <1>7, <1>8 DEF Flow

(* The program's CLOSE of the stream. *)
LEMMA FlowClose ==
  ASSUME TypeOK, NEW x \in Ends, NEW j \in Ids, Flow(x, j), Still(x, j),
         fin[Peer(x)][j] = -1, fin'[Peer(x)][j] = sent[Peer(x)][j],
         sent'[Peer(x)][j] = sent[Peer(x)][j],
         Unarrived(x, j) => OpenInFlight(x, j),
         \/ wire'[x] = wire[x] /\ ~Lossless(x)
         \/ Grows(wire[x], wire'[x], CloseFrame(j)) /\ Lossless(x)
  PROVE  Flow(x, j)'
<1> DEFINE w == wire[x]
           v == wire'[x]
           s == sent[Peer(x)][j]
           n == Due(x, j)
<1>0. s \in Nat /\ n \in Nat /\ Taken(x, j) \in Nat
  BY FlowTypes
<1>1. Due(x, j)' = n /\ Peer(x) \in Ends
  BY PeerFacts DEF Still, Due
<1>2. Ordered(w, j, s, -1)
  BY DEF Flow, Travels
<1>2a. \A k \in 1..Len(w) : ~IsClose(w[k], j)
  BY <1>2 DEF Ordered
<1>3. s # -1 /\ Taken(x, j) # -1 /\ \A m \in 1..s : m <= s
  BY SMT, <1>0
<1>4. /\ Ordered(v, j, s, s)
      /\ Arriving(x, j) \/ Announced(w, j) =>
           Arriving(x, j) \/ Announced(v, j) \/ ~Unarrived(x, j)
  <2>1. CASE v = w
    BY <1>2, <1>2a, <1>3, <2>1 DEF Ordered
  <2>2. CASE Grows(w, v, CloseFrame(j))
    <3>1. /\ Ordered(v, j, s, s)
          /\ (\E k \in 1..Len(w) : IsOpen(w[k], j)) /\ Announced(w, j) => Announced(v, j)
      <4> HIDE DEF w, v, s, n
      <4> QED BY <1>0, <1>2, <2>2, CloseGrows
    <3>2. DOMAIN w = 1..Len(w)
      <4>1. w \in Seq(Frame)
        BY DEF TypeOK
      <4> QED BY SMT, <4>1
    <3>3. OpenInFlight(x, j) => Arriving(x, j) \/ \E k \in 1..Len(w) : IsOpen(w[k], j)
      BY <3>2 DEF OpenInFlight, Arriving, IsOpen, Holding
    <3> QED BY <3>1, <3>3
  <2> QED BY <2>1, <2>2
<1>5. Travels(x, j)'
  BY <1>4 DEF Flow, Travels, Still, Ages
<1>6. Handles(x, j)'
  BY <1>3 DEF Flow, Handles, Still, Ages
<1>7. Holds(x, j)'
  BY <1>0, <1>3 DEF Flow, Holds, Still
<1>8. ASSUME Receives(x, j)' PROVE Continues(x, j)'
  <2>1. Continues(x, j)
    BY <1>8 DEF Still, Ages, Flow
  <2>1a. ~Closing(x, j)
    BY DEF Flow, Handles
  <2>2. CASE v = w /\ ~Lossless(x)
    <3>1. CutBefore(w, j, s)
      BY <1>2, <1>3 DEF CutBefore, Ordered
    <3>2. Gapless(w, j, n, s)
      BY <2>1, <1>2a DEF Continues, Gapless
    <3> QED BY <2>1, <2>1a, <2>2, <1>1, <3>1, <3>2 DEF Continues, Still
  <2>3. CASE Grows(w, v, CloseFrame(j)) /\ Lossless(x)
    <3>0. Complete(w, j, n, s) /\ Gapless(w, j, n, -1)
      BY <2>1, <2>3 DEF Continues
    <3>1. Gapless(v, j, n, s) /\ Complete(v, j, n, s) /\ HasClose(v, j)
      <4> HIDE DEF w, v, s, n
      <4> QED BY <1>0, <1>2, <2>3, <3>0, CloseGrows
    <3> QED BY <2>1, <2>1a, <2>3, <1>1, <3>1 DEF Continues, Still
  <2> QED BY <2>2, <2>3
<1> QED BY <1>5, <1>6, <1>7, <1>8 DEF Flow

-----------------------------------------------------------------------------
(* The flow of one stream across what readLoop does for it *)

(* readFrame hands the first frame to readLoop. *)
LEMMA FlowTaken ==
  ASSUME TypeOK, NEW x \in Ends, NEW j \in Ids, Flow(x, j), Ages(x, j), ReadFrame(x)
  PROVE  Flow(x, j)'
<1> DEFINE w == wire[x]
           v == wire'[x]
           h == w[1]
           s == sent[Peer(x)][j]
           c == fin[Peer(x)][j]
           n == Due(x, j)
<1>0. s \in Nat /\ c \in Nat \cup {-1} /\ n \in Nat
  BY FlowTypes
<1>1. /\ ~Carrying(x, j) /\ ~Closing(x, j) /\ ~Arriving(x, j) /\ ~Ending(x, j)
      /\ n = Taken(x, j) + 1
  <2>1. loop[x].at = "read"
    BY SMT DEF ReadFrame, Reading
  <2> QED BY <2>1 DEF Carrying, Closing, Arriving, Ending, Due
<1>2. Shrinks(w, v) /\ loop'[x] = At("got", h)
  BY TakenWire
<1>3. /\ Carrying(x, j)' <=> IsData(h, j)
      /\ Closing(x, j)' <=> IsClose(h, j)
      /\ Arriving(x, j)' <=> IsOpen(h, j)
      /\ ~Ending(x, j)' /\ loop'[x].f = h
  <2>1. loop'[x].at = "got" /\ loop'[x].f = h
    BY SMT, <1>2 DEF At
  <2> QED BY <2>1 DEF Carrying, Closing, Arriving, Ending
<1>4. /\ UNCHANGED <<sent, fin, got, buf, closePc, remoteClosed>>
      /\ Taken(x, j)' = Taken(x, j) /\ (Lossless(x)' <=> Lossless(x))
  BY DEF ReadFrame, strVars, appVars, histVars, Taken, Lossless
<1>5. Ordered(w, j, s, c) /\ (Unarrived(x, j)' => Announced(w, j))
  BY <1>1 DEF Flow, Travels, Ages
<1>6. /\ Ordered(v, j, s, c)
      /\ Announced(w, j) => ~IsData(h, j) /\ ~IsClose(h, j)
      /\ Announced(w, j) /\ ~IsOpen(h, j) => Announced(v, j)
      /\ CutBefore(w, j, c) => CutBefore(v, j, c)
      /\ HasClose(w, j) /\ ~IsClose(h, j) => HasClose(v, j)
      /\ ~IsData(h, j) => /\ Gapless(w, j, n, c) => Gapless(v, j, n, c)
                          /\ Complete(w, j, n, s) => Complete(v, j, n, s)
  <2> HIDE DEF w, v, s, c, n
  <2> QED BY <1>2, <1>5, OtherTaken
<1>7. 1 \in 1..Len(w) /\ 1..(1 - 1) = {}
  <2> HIDE DEF w, v
  <2> QED BY SMT, <1>2 DEF Shrinks
<1>8. Travels(x, j)'
  BY <1>3, <1>4, <1>5, <1>6 DEF Travels
<1>9. Handles(x, j)'
  BY <1>3, <1>4, <1>5, <1>6, <1>7 DEF Handles, Ordered
<1>10. Holds(x, j)'
  BY <1>3, <1>4 DEF Flow, Holds
<1>11. ASSUME Receives(x, j)' PROVE Continues(x, j)'
  <2>1. Continues(x, j)
    BY <1>11 DEF Ages, Flow
  <2>2. CASE IsData(h, j)
    <3>0. ~IsClose(h, j)
      BY <2>2 DEF IsData, IsClose
    <3>1. /\ Gapless(w, j, n, c) /\ (Lossless(x) => Complete(w, j, n, s))
          /\ c # -1 => HasClose(w, j) \/ (~Lossless(x) /\ CutBefore(w, j, c))
      BY <2>1, <1>1 DEF Continues
    <3>2. /\ h.n = n /\ n + 1 <= s + 1
          /\ Gapless(v, j, n + 1, c)
          /\ Complete(w, j, n, s) => Complete(v, j, n + 1, s)
          /\ c # -1 /\ (HasClose(w, j) \/ CutBefore(w, j, c)) => n + 1 <= c + 1
      <4> HIDE DEF w, v, s, c, n
      <4>1. Gapless(w, j, n, c) /\ Ordered(w, j, s, c) /\ IsData(w[1], j)
        BY <3>1, <1>5, <2>2
      <4> QED BY <1>0, <1>2, <4>1, DataTaken
    <3>3. Due(x, j)' = n + 1
      <4>1. Due(x, j)' = Taken(x, j) + 2 /\ Taken(x, j) \in Nat
        BY <2>2, <1>3, <1>4, FlowTypes DEF Due
      <4> QED BY SMT, <4>1, <1>1
    <3> QED BY <3>0, <3>1, <3>2, <3>3, <1>1, <1>3, <1>4, <1>6, <2>2 DEF Continues
  <2>3. CASE ~IsData(h, j)
    <3>1. Due(x, j)' = n
      BY <2>3, <1>1, <1>3, <1>4 DEF Due
    <3>2. IsClose(h, j) => c + 1 = n
      BY <2>1, <1>7 DEF Continues, Gapless
    <3> QED BY <2>1, <2>3, <3>1, <3>2, <1>1, <1>3, <1>4, <1>6 DEF Continues
  <2> QED BY <2>2, <2>3
<1> QED BY <1>8, <1>9, <1>10, <1>11 DEF Flow

(* A stream that no longer receives has only to keep what it has. *)
LEMMA FlowStopped ==
  ASSUME NEW x \in Ends, NEW j \in Ids, Flow(x, j), ~Unarrived(x, j)',
         ~Receives(x, j)', ~Carrying(x, j)', ~Closing(x, j)',
         wire'[x] = wire[x], UNCHANGED <<sent, fin, got, buf, closePc>>,
         Ending(x, j)' => fin[Peer(x)][j] # -1,
         j \in remoteClosed'[x] \/ Ending(x, j)' =>
           closePc[x][j] # "no" \/ Taken(x, j) = fin[Peer(x)][j]
  PROVE  Flow(x, j)'
<1>1. Taken(x, j)' = Taken(x, j)
  BY DEF Taken
<1>2. Travels(x, j)'
  BY DEF Flow, Travels
<1>3. Handles(x, j)'
  BY DEF Handles
<1>4. Holds(x, j)'
  BY <1>1 DEF Flow, Holds
<1> QED BY <1>2, <1>3, <1>4 DEF Flow

(* readLoop finds that the stream of a DATA frame has left the map. *)
LEMMA FlowDropped ==
  ASSUME IInv, NEW x \in Ends, NEW j \in Ids, Flow(x, j), Ages(x, j), HandleData(x),
         loop[x].f.id = j, j \notin streams[x]
  PROVE  Flow(x, j)'
<1>1. Carrying(x, j) /\ ~Unarrived(x, j)
  BY DEF HandleData, Holding, Carrying, IsData, Flow, Handles
<1>2. loop'[x] = Reading /\ UNCHANGED <<wire, streams, remoteClosed, sent, fin, got, buf, closePc>>
  BY DEF HandleData, GoTo, IInv, TypeOK, netVars, strVars, appVars, histVars
<1>3. ~Carrying(x, j)' /\ ~Closing(x, j)' /\ ~Ending(x, j)'
  <2>1. loop'[x].at = "read"
    BY SMT, <1>2 DEF Reading
  <2> QED BY <2>1 DEF Carrying, Closing, Ending
<1>4. ~Unarrived(x, j)' /\ ~Receives(x, j)'
  BY <1>1, <1>2 DEF Ages, Receives
<1>5. j \in remoteClosed[x] => closePc[x][j] # "no" \/ Taken(x, j) = fin[Peer(x)][j]
  BY DEF Flow, Holds
<1> QED BY <1>1, <1>2, <1>3, <1>4, <1>5, FlowStopped

(* readLoop reads the CLOSE: the stream has everything, and leaves the map. *)
LEMMA FlowClosed ==
  ASSUME IInv, NEW x \in Ends, NEW j \in Ids, Flow(x, j), Ages(x, j), HandleClose(x),
         loop[x].f.id = j
  PROVE  Flow(x, j)'
<1>1. Closing(x, j) /\ ~Carrying(x, j) /\ ~Unarrived(x, j) /\ fin[Peer(x)][j] # -1
  BY DEF HandleClose, Holding, Carrying, Closing, IsData, IsClose, Flow, Handles
<1>2. /\ UNCHANGED <<wire, remoteClosed, sent, fin, got, buf, closePc>>
      /\ loop'[x] = IF j \in streams[x] THEN At("remoteClose", loop[x].f) ELSE Reading
      /\ j \notin streams'[x]
  BY DEF HandleClose, GoTo, Drop, IInv, TypeOK, netVars, strVars, appVars, histVars
<1>3. ~Carrying(x, j)' /\ ~Closing(x, j)' /\ (Ending(x, j)' => j \in streams[x])
  <2>1. loop'[x].at \in {"read", "remoteClose"} /\ (loop'[x].at = "remoteClose" => j \in streams[x])
    BY SMT, <1>2 DEF Reading, At
  <2> QED BY <2>1 DEF Carrying, Closing, Ending
<1>4. ~Unarrived(x, j)' /\ ~Receives(x, j)'
  BY <1>1, <1>2 DEF Ages, Receives
<1>5. j \in remoteClosed[x] => closePc[x][j] # "no" \/ Taken(x, j) = fin[Peer(x)][j]
  BY DEF Flow, Holds
<1>6. j \in streams[x] => closePc[x][j] # "no" \/ Taken(x, j) = fin[Peer(x)][j]
  <2>1. Receives(x, j) => fin[Peer(x)][j] + 1 = Taken(x, j) + 1
    BY <1>1 DEF Flow, Continues, Due
  <2>2. fin[Peer(x)][j] \in Nat \cup {-1} /\ Taken(x, j) \in Nat
    BY FlowTypes DEF IInv
  <2>3. Receives(x, j) => fin[Peer(x)][j] = Taken(x, j)
    BY SMT, <2>1, <2>2
  <2> QED BY <2>3 DEF Receives
<1> QED BY <1>1, <1>2, <1>3, <1>4, <1>5, <1>6, FlowStopped

(* remoteClose tells the stream that everything has come. *)
LEMMA FlowEnded ==
  ASSUME IInv, NEW x \in Ends, NEW j \in Ids, Flow(x, j), Ages(x, j), RemoteClose(x),
         loop[x].f.id = j
  PROVE  Flow(x, j)'
<1>1. Ending(x, j) /\ ~Unarrived(x, j) /\ j \notin streams[x]
  BY DEF RemoteClose, Ending, Flow, Handles, IInv, MapInv
<1>2. loop'[x] = Reading /\ UNCHANGED <<wire, streams, sent, fin, got, buf, closePc>>
  BY DEF RemoteClose, GoTo, IInv, TypeOK, netVars, appVars, histVars
<1>3. ~Carrying(x, j)' /\ ~Closing(x, j)' /\ ~Ending(x, j)'
  <2>1. loop'[x].at = "read"
    BY SMT, <1>2 DEF Reading
  <2> QED BY <2>1 DEF Carrying, Closing, Ending
<1>4. ~Unarrived(x, j)' /\ ~Receives(x, j)'
  BY <1>1, <1>2 DEF Ages, Receives
<1>5. closePc[x][j] # "no" \/ Taken(x, j) = fin[Peer(x)][j]
  BY <1>1 DEF Flow, Holds
<1> QED BY <1>1, <1>2, <1>3, <1>4, <1>5, FlowStopped

(* The index of a sequence with one more element. *)
LEMMA LastIndex ==
  ASSUME NEW n \in Nat, NEW g \in Nat, NEW k \in 1..(n + 1)
  PROVE  k \in 1..n \/ (k = n + 1 /\ (g + n) + 1 = g + k)
BY SMT

(* deliver appends the chunk in readLoop's hands, the next one, to the buffer
   of a stream that has not ended. *)
LEMMA FlowDelivered ==
  ASSUME IInv, NEW x \in Ends, NEW j \in Ids, Flow(x, j), Delivers(x, j), Ages(x, j),
         Deliver(x), loop[x].f.id = j
  PROVE  Flow(x, j)'
<1> DEFINE s == sent[Peer(x)][j]
           c == fin[Peer(x)][j]
<1>1. Carrying(x, j) /\ ~Unarrived(x, j) /\ ~Closing(x, j) /\ ~Ending(x, j)
  BY DEF Deliver, Delivers, Carrying, Closing, Ending, IsData, Flow, Handles
<1>2. /\ loop'[x] = Reading
      /\ UNCHANGED <<wire, link, phase, streams, remoteClosed, err, sent, fin, got, closePc>>
  BY DEF Deliver, GoTo, IInv, TypeOK, netVars, appVars, histVars
<1>3. ~Carrying(x, j)' /\ ~Closing(x, j)' /\ ~Ending(x, j)'
  <2>1. loop'[x].at = "read"
    BY SMT, <1>2 DEF Reading
  <2> QED BY <2>1 DEF Carrying, Closing, Ending
<1>4. ~Unarrived(x, j)'
  BY <1>1 DEF Ages
<1>5. j \in remoteClosed[x] => closePc[x][j] # "no" \/ Taken(x, j) = c
  BY DEF Flow, Holds
<1>6. CASE ~(closePc[x][j] = "no" /\ j \notin remoteClosed[x] /\ err[x][j] = "nil")
  <2>1. buf' = buf
    BY <1>6 DEF Deliver
  <2>2. ~Receives(x, j)'
    BY <1>2, <1>4, <1>6 DEF Receives, IInv, MapInv
  <2> QED BY <1>1, <1>2, <1>3, <1>4, <1>5, <2>1, <2>2, FlowStopped
<1>7. CASE closePc[x][j] = "no" /\ j \notin remoteClosed[x] /\ err[x][j] = "nil"
  <2>1. Receives(x, j) /\ Continues(x, j)
    BY <1>7 DEF Deliver, Delivers, Receives, Flow
  <2>2. /\ buf \in [Ends -> [Ids -> Seq(Nat)]]
        /\ buf' = [buf EXCEPT ![x][j] = Append(@, loop[x].f.n)]
        /\ loop[x].f.n = Taken(x, j) + 1 /\ got[x][j] \in Nat
    <3>1. loop[x].f.n = Taken(x, j) + 1
      BY <2>1, <1>1 DEF Continues
    <3>2. buf \in [Ends -> [Ids -> Seq(Nat)]] /\ got \in [Ends -> [Ids -> Nat]]
      BY DEF IInv, TypeOK
    <3> QED BY <1>7, <3>1, <3>2 DEF Deliver
  <2>3. buf[x][j] \in Seq(Nat) /\ buf'[x][j] = Append(buf[x][j], Taken(x, j) + 1)
    BY <2>2
  <2>4. Taken(x, j)' = Taken(x, j) + 1
    BY SMT, <1>2, <2>2, <2>3 DEF Taken
  <2>5. (\A k \in DOMAIN buf[x][j] : buf[x][j][k] = got[x][j] + k)
         => \A k \in DOMAIN buf'[x][j] : buf'[x][j][k] = got'[x][j] + k
    <3> DEFINE q == buf[x][j]
               r == buf'[x][j]
               t == Taken(x, j) + 1
    <3>1. got'[x][j] = got[x][j] /\ t = (got[x][j] + Len(q)) + 1
      BY <1>2 DEF Taken
    <3>2. q \in Seq(Nat) /\ r = Append(q, t) /\ got[x][j] \in Nat
      BY <2>2, <2>3
    <3>3. SUFFICES (\A k \in DOMAIN q : q[k] = got[x][j] + k)
                     => \A k \in DOMAIN r : r[k] = got[x][j] + k
      BY <3>1
    <3> HIDE DEF q, r, t
    <3>4. Len(q) \in Nat /\ t \in Nat /\ DOMAIN q = 1..Len(q)
      BY SMT, <3>1, <3>2
    <3>5. /\ DOMAIN r = 1..(Len(q) + 1) /\ r[Len(q) + 1] = t
          /\ \A k \in 1..Len(q) : r[k] = q[k]
      BY SMT, <3>2, <3>4
    <3>6. \A k \in DOMAIN r : k \in 1..Len(q) \/ (k = Len(q) + 1 /\ t = got[x][j] + k)
      <4> SUFFICES ASSUME NEW k \in DOMAIN r
                   PROVE  k \in 1..Len(q) \/ (k = Len(q) + 1 /\ t = got[x][j] + k)
        OBVIOUS
      <4>1. Len(q) \in Nat /\ got[x][j] \in Nat /\ k \in 1..(Len(q) + 1)
        BY <3>2, <3>4, <3>5
      <4>2. k \in 1..Len(q) \/ (k = Len(q) + 1 /\ (got[x][j] + Len(q)) + 1 = got[x][j] + k)
        BY <4>1, LastIndex
      <4> QED BY <3>1, <4>2
    <3> QED BY <3>4, <3>5, <3>6
  <2>6. Due(x, j)' = Due(x, j) /\ Taken(x, j) + 1 <= s /\ (c # -1 => Taken(x, j) + 1 <= c)
    <3>1. /\ Due(x, j) = Taken(x, j) + 2 /\ Due(x, j)' = Taken(x, j)' + 1
      BY <1>1, <1>3 DEF Due
    <3>2. Taken(x, j) \in Nat /\ s \in Nat /\ c \in Nat \cup {-1}
      BY FlowTypes DEF IInv
    <3>3. Due(x, j) <= s + 1 /\ (c # -1 => Due(x, j) <= c + 1)
      BY <2>1 DEF Continues
    <3> QED BY SMT, <2>4, <3>1, <3>2, <3>3
  <2>7. Travels(x, j)'
    BY <1>2, <1>4 DEF Flow, Travels
  <2>8. Handles(x, j)'
    BY <1>3 DEF Handles
  <2>9. Holds(x, j)'
    BY <1>2, <1>3, <1>7, <2>4, <2>5, <2>6 DEF Flow, Holds
  <2>10. Continues(x, j)'
    BY <1>1, <1>2, <1>3, <2>1, <2>6 DEF Continues, Lossless
  <2> QED BY <2>7, <2>8, <2>9, <2>10 DEF Flow
<1> QED BY <1>6, <1>7

-----------------------------------------------------------------------------
(* The writing side, and delivery to a stream that was found in the map *)

(* Steps that neither write, close nor fail a stream. *)
LEMMA WriterKept ==
  ASSUME WriterInv, UNCHANGED <<sent, fin, closePc, writing, err>>,
         \A x \in Ends : held[x] \subseteq held'[x] /\ (phase[x] # "open" => phase'[x] # "open")
  PROVE  WriterInv'
BY DEF WriterInv

(* Every step keeps what is said of the writing side. *)
LEMMA WriterStep ==
  ASSUME IInv, WriterInv, [Next]_vars
  PROVE  WriterInv'
<1> DEFINE Grown == \A x \in Ends : held[x] \subseteq held'[x]
           Shut == \A x \in Ends : phase[x] # "open" => phase'[x] # "open"
<1>1. CASE UNCHANGED <<sent, fin, closePc, writing, err, held, phase>>
  BY <1>1, WriterKept
<1>2. ASSUME NEW e \in Ends, NEW v, CloseWithErr(e, v), UNCHANGED <<sent, fin, closePc, writing, err, held>>
      PROVE  WriterInv'
  <2>1. Shut
    BY <1>2 DEF CloseWithErr, IInv, TypeOK
  <2> QED BY <1>2, <2>1, WriterKept
<1>3. ASSUME NEW e \in Ends, SessionClose(e) PROVE WriterInv'
  BY <1>2, <1>3 DEF SessionClose, strVars, appVars, histVars
<1>4. ASSUME NEW e \in Ends, ReadLoop(e) PROVE WriterInv'
  <2>1. CASE ReadError(e)
    BY <1>1, <1>2, <2>1 DEF ReadError, strVars, appVars, histVars
  <2> QED BY <1>1, <1>4, <2>1 DEF ReadLoop, ReadFrame, HandleControl, HandleOpen, PushAccept,
        HandleData, Deliver, HandleClose, RemoteClose, strVars, appVars, histVars
<1>5. ASSUME NEW e \in Ends, Accept(e) PROVE WriterInv'
  <2>1. Grown
    BY <1>5 DEF Accept, Add, IInv, TypeOK
  <2> QED BY <1>5, <2>1, WriterKept DEF Accept, strVars, histVars
<1>6. ASSUME NEW e \in Ends, Sweep(e) PROVE WriterInv'
  <2>1. Shut /\ phase'[e] # "open"
    BY <1>6 DEF Sweep, IInv, TypeOK
  <2>2. \A x \in Ends : x # e => err'[x] = err[x]
    BY <1>6 DEF Sweep, IInv, TypeOK
  <2>3. UNCHANGED <<sent, fin, closePc, writing, held>>
    BY <1>6 DEF Sweep, appVars, histVars
  <2>4. \A x \in Ends : \A j \in Ids : err'[x][j] # "nil" => phase'[x] # "open"
    BY <2>1, <2>2 DEF WriterInv
  <2> QED BY <2>3, <2>4 DEF WriterInv
<1>7. ASSUME NEW e \in Ends, NEW i \in Ids, OpenSend(e, i) PROVE WriterInv'
  <2>1. Grown
    <3>1. held \in [Ends -> SUBSET Ids] /\ (held' = held \/ held' = Add(held, e, i))
      BY <1>7 DEF OpenSend, IInv, TypeOK
    <3> QED BY <3>1 DEF Add
  <2> QED BY <1>7, <2>1, WriterKept DEF OpenSend, strVars, histVars
<1>8. ASSUME NEW e \in Ends, NEW i \in Ids, StartWrite(e, i) PROVE WriterInv'
  <2>1. /\ writing \in [Ends -> SUBSET Ids] /\ writing' = Add(writing, e, i) /\ i \in held[e]
        /\ UNCHANGED <<sent, fin, closePc, err, held, phase>>
    BY <1>8 DEF StartWrite, IInv, TypeOK, sessVars, strVars, histVars
  <2>2. \A x \in Ends : \A j \in Ids : j \in writing'[x] => j \in writing[x] \/ j \in held[x]
    BY <2>1 DEF Add
  <2> QED BY <2>1, <2>2 DEF WriterInv
<1>9. ASSUME NEW e \in Ends, NEW i \in Ids, WriteChunk(e, i) PROVE WriterInv'
  <2>1. /\ UNCHANGED <<fin, closePc, err, held, phase>> /\ i \in held[e]
        /\ writing \in [Ends -> SUBSET Ids]
        /\ writing' = Drop(writing, e, i) \/ writing' = writing
    BY <1>9 DEF WriteChunk, WriterInv, IInv, TypeOK, sessVars, strVars
  <2>2. /\ sent \in [Ends -> [Ids -> Nat]] /\ fin \in [Ends -> [Ids -> Nat \cup {-1}]]
        /\ sent' = sent \/ sent' = [sent EXCEPT ![e][i] = @ + 1]
    BY <1>9 DEF WriteChunk, IInv, TypeOK
  <2>3. \A x \in Ends : \A j \in Ids :
          /\ sent'[x][j] = sent[x][j] \/ (x = e /\ j = i)
          /\ fin[x][j] <= sent[x][j] => fin[x][j] <= sent'[x][j]
    BY SMT, <2>2
  <2>4. \A x \in Ends : \A j \in Ids : j \in writing'[x] => j \in writing[x]
    BY <2>1 DEF Drop
  <2> SUFFICES ASSUME NEW x \in Ends, NEW j \in Ids PROVE WriterInv!(x)!(j)'
    BY DEF WriterInv
  <2>5. WriterInv!(x)!(j)
    BY DEF WriterInv
  <2> QED BY <2>1, <2>3, <2>4, <2>5
<1>10. ASSUME NEW e \in Ends, NEW i \in Ids, NEW a, NEW b, i \in held[e],
              closePc[e][i] = a, a # "done", closePc' = [closePc EXCEPT ![e][i] = b],
              UNCHANGED <<sent, writing, err, held, phase>>,
              fin' = fin \/ (b = "done" /\ fin' = [fin EXCEPT ![e][i] = sent[e][i]])
       PROVE  WriterInv'
  <2>1. /\ closePc \in [Ends -> [Ids -> {"no", "remove", "send", "done"}]]
        /\ sent \in [Ends -> [Ids -> Nat]] /\ fin \in [Ends -> [Ids -> Nat \cup {-1}]]
    BY DEF IInv, TypeOK
  <2>2. /\ closePc'[e][i] = b
        /\ \A x \in Ends : \A j \in Ids :
             x # e \/ j # i => closePc'[x][j] = closePc[x][j] /\ fin'[x][j] = fin[x][j]
        /\ fin'[e][i] = fin[e][i] \/ (b = "done" /\ fin'[e][i] = sent[e][i])
    BY SMT, <1>10, <2>1
  <2>3. sent[e][i] <= sent[e][i]
    BY SMT, <2>1
  <2>4. fin[e][i] = -1
    BY <1>10 DEF WriterInv
  <2> SUFFICES ASSUME NEW x \in Ends, NEW j \in Ids PROVE WriterInv!(x)!(j)'
    BY DEF WriterInv
  <2>5. WriterInv!(x)!(j)
    BY DEF WriterInv
  <2>6. CASE x = e /\ j = i
    BY <1>10, <2>2, <2>3, <2>4, <2>5, <2>6
  <2>7. CASE x # e \/ j # i
    BY <1>10, <2>2, <2>5, <2>7
  <2> QED BY <2>6, <2>7
<1>11. ASSUME NEW e \in Ends, NEW i \in Ids, StreamStep(e, i) PROVE WriterInv'
  <2>1. CASE CloseLocal(e, i)
    BY <1>10, <2>1 DEF CloseLocal, sessVars, appVars, histVars
  <2>2. CASE CloseRemove(e, i)
    BY <1>10, <2>2 DEF CloseRemove, appVars, histVars, WriterInv
  <2>3. CASE CloseSend(e, i)
    BY <1>10, <2>3 DEF CloseSend, sessVars, appVars, WriterInv
  <2>4. CASE Read(e, i)
    BY <1>1, <2>4 DEF Read, sessVars, histVars
  <2> QED BY <1>7, <1>8, <1>9, <1>11, <2>1, <2>2, <2>3, <2>4 DEF StreamStep
<1> QED
  BY <1>1, <1>3, <1>4, <1>5, <1>6, <1>11 DEF Next, vars, LinkDown, OpenInsert,
     NextControl, SendControl, sessVars, strVars, appVars, histVars

(* What has been found in the map leaves it only to end. *)
LEMMA DeliversKept ==
  ASSUME NEW x \in Ends, NEW j \in Ids, Delivers(x, j),
         loop'[x] = loop[x] \/ loop'[x].at # "deliver",
         err[x][j] # "nil" => err'[x][j] # "nil",
         closePc[x][j] # "no" => closePc'[x][j] # "no",
         loop[x].at = "deliver" /\ loop[x].f.id = j /\ j \in streams[x] =>
           j \in streams'[x] \/ err'[x][j] # "nil" \/ closePc'[x][j] # "no"
  PROVE  Delivers(x, j)'
BY DEF Delivers

(* Every step keeps a stream that readLoop delivers to in the map, or ends it. *)
LEMMA DeliverStep ==
  ASSUME FlowInv, [Next]_vars, NEW x \in Ends, NEW j \in Ids
  PROVE  Delivers(x, j)'
<1>0. Delivers(x, j) /\ IInv
  BY DEF FlowInv
<1>1. CASE UNCHANGED <<loop, streams, err, closePc>>
  BY <1>0, <1>1, DeliversKept
<1>2. ASSUME NEW e \in Ends, OpenInsert(e) PROVE Delivers(x, j)'
  <2>1. streams[x] \subseteq streams'[x]
    BY <1>0, <1>2 DEF OpenInsert, Add, IInv, TypeOK
  <2> QED BY <1>0, <1>2, <2>1, DeliversKept DEF OpenInsert, strVars
<1>3. ASSUME NEW e \in Ends, Sweep(e) PROVE Delivers(x, j)'
  <2>1. /\ err'[e] = [i \in Ids |-> IF i \in streams[e] /\ err[e][i] = "nil"
                              THEN serr[e] ELSE err[e][i]]
        /\ \A y \in Ends : y # e => err'[y] = err[y] /\ streams'[y] = streams[y]
        /\ serr[e] # "nil" /\ UNCHANGED <<loop, closePc>>
    <3>1. /\ err \in [Ends -> [Ids -> SessionErr \cup {"nil"}]]
          /\ streams \in [Ends -> SUBSET Ids] /\ phase[e] # "open" /\ SerrInv
      BY <1>0, <1>3 DEF Sweep, IInv, TypeOK
    <3>2. serr[e] # "nil" /\ UNCHANGED <<loop, closePc>>
      BY <1>3, <3>1 DEF Sweep, SerrInv
    <3> QED BY <1>3, <3>1, <3>2 DEF Sweep
  <2>2. /\ err[x][j] # "nil" => err'[x][j] # "nil"
        /\ j \in streams[x] => j \in streams'[x] \/ err'[x][j] # "nil"
    <3>1. err'[e][j] = IF j \in streams[e] /\ err[e][j] = "nil" THEN serr[e] ELSE err[e][j]
      BY <2>1
    <3>2. err'[e][j] = "nil" => j \notin streams[e] /\ err[e][j] = "nil"
      BY <2>1, <3>1
    <3> QED BY <2>1, <3>2
  <2> QED BY <1>0, <2>1, <2>2, DeliversKept
<1>4. ASSUME NEW e \in Ends, NEW i \in Ids, StreamStep(e, i) PROVE Delivers(x, j)'
  <2>1. CASE StartWrite(e, i) \/ WriteChunk(e, i) \/ Read(e, i)
    BY <1>1, <2>1 DEF StartWrite, WriteChunk, Read, sessVars, strVars
  <2>2. CASE OpenSend(e, i)
    <3>1. UNCHANGED <<loop, err, closePc>> /\ i \in opening[e]
      BY <2>2 DEF OpenSend, strVars
    <3>2. j \in streams[x] => j \in streams'[x] \/ (x = e /\ j = i)
      <4>1. streams \in [Ends -> SUBSET Ids] /\ (streams' = streams \/ streams' = Drop(streams, e, i))
        BY <1>0, <2>2 DEF OpenSend, IInv, TypeOK
      <4> QED BY <4>1 DEF Drop
    <3>3. sent[Peer(e)][i] = 0
      <4>1. Peer(e) \in Ends /\ Peer(Peer(e)) = e
        BY PeerFacts
      <4>2. Unarrived(Peer(e), i)
        BY <1>0, <3>1, <4>1 DEF Unarrived, IInv, AllocInv
      <4>3. i \notin held[Peer(e)]
        BY <1>0, <4>1, <4>2 DEF IInv, UnarrivedInv
      <4> QED BY <4>1, <4>3 DEF FlowInv, WriterInv
    <3>4. ~Carrying(e, i)
      <4>1. 1..0 = {}
        BY SMT
      <4> QED BY <3>3, <4>1 DEF FlowInv, Flow, Handles
    <3>5. ~(loop[e].at = "deliver" /\ loop[e].f.id = i)
      BY <3>4 DEF FlowInv, Delivers, Carrying, IsData
    <3> QED BY <1>0, <3>1, <3>2, <3>5, DeliversKept
  <2>3. CASE CloseLocal(e, i) \/ CloseRemove(e, i) \/ CloseSend(e, i)
    <3>1. /\ closePc \in [Ends -> [Ids -> {"no", "remove", "send", "done"}]]
          /\ \E b \in {"remove", "send", "done"} : closePc' = [closePc EXCEPT ![e][i] = b]
      BY <1>0, <2>3 DEF CloseLocal, CloseRemove, CloseSend, IInv, TypeOK
    <3>2. /\ closePc[x][j] # "no" => closePc'[x][j] # "no"
          /\ closePc'[e][i] # "no"
      BY SMT, <3>1
    <3>3. j \in streams[x] => j \in streams'[x] \/ (x = e /\ j = i)
      <4>1. streams \in [Ends -> SUBSET Ids] /\ (streams' = streams \/ streams' = Drop(streams, e, i))
        BY <1>0, <2>3 DEF CloseLocal, CloseRemove, CloseSend, sessVars, IInv, TypeOK
      <4> QED BY <4>1 DEF Drop
    <3>4. UNCHANGED <<loop, err>>
      BY <2>3 DEF CloseLocal, CloseRemove, CloseSend, sessVars
    <3> QED BY <1>0, <3>2, <3>3, <3>4, DeliversKept
  <2> QED BY <1>4, <2>1, <2>2, <2>3 DEF StreamStep
<1>5. ASSUME NEW e \in Ends, ReadLoop(e) PROVE Delivers(x, j)'
  <2>1. UNCHANGED <<err, closePc>>
    BY <1>5 DEF ReadLoop, ReadFrame, ReadError, HandleControl, HandleOpen, PushAccept,
        HandleData, Deliver, HandleClose, RemoteClose, strVars
  <2>2. CASE HandleData(e)
    <3>1. \/ loop'[x] = loop[x] \/ loop'[x] = Reading
          \/ x = e /\ loop'[x] = At("deliver", loop[x].f) /\ loop[x].f.id \in streams[x]
      <4>1. loop \in [Ends -> Loop]
        BY <1>0 DEF IInv, TypeOK
      <4> QED BY <2>2, <4>1 DEF HandleData, GoTo
    <3>2. \/ loop'[x] = loop[x] \/ loop'[x].at # "deliver"
          \/ x = e /\ loop'[x].f = loop[x].f /\ loop[x].f.id \in streams[x]
      BY SMT, <3>1 DEF Reading, At
    <3>3. UNCHANGED streams /\ loop[e].f.typ = "data"
      BY <2>2 DEF HandleData, Holding
    <3>4. CASE x = e /\ loop'[x].f = loop[x].f /\ loop[x].f.id \in streams[x]
      BY <3>3, <3>4 DEF Delivers
    <3> QED BY <1>0, <2>1, <3>2, <3>3, <3>4, DeliversKept
  <2>3. CASE ~HandleData(e)
    <3>1. PICK l : l.at # "deliver" /\ GoTo(e, l)
      <4>1. \A f : /\ At("got", f).at # "deliver" /\ At("accept", f).at # "deliver"
                   /\ At("remoteClose", f).at # "deliver"
        BY SMT DEF At
      <4>2. Reading.at # "deliver" /\ Done.at # "deliver"
        BY SMT DEF Reading, Done
      <4> QED BY <1>5, <2>3, <4>1, <4>2 DEF ReadLoop, ReadFrame, ReadError, HandleControl,
           HandleOpen, PushAccept, Deliver, HandleClose, RemoteClose
    <3>2. loop'[x] = loop[x] \/ loop'[x].at # "deliver"
      BY <1>0, <3>1 DEF GoTo, IInv, TypeOK
    <3>3. CASE streams[x] \subseteq streams'[x]
      BY <1>0, <2>1, <3>2, <3>3, DeliversKept
    <3>4. CASE HandleClose(e)
      <4>1. streams'[x] = streams[x] \/ (x = e /\ loop[x].at = "got")
        BY <1>0, <3>4 DEF HandleClose, Holding, Drop, IInv, TypeOK
      <4> QED BY <1>0, <2>1, <3>2, <4>1, DeliversKept
    <3>5. CASE HandleOpen(e)
      BY <1>0, <3>3, <3>5 DEF HandleOpen, Add, IInv, TypeOK
    <3> QED BY <1>5, <2>3, <3>3, <3>4, <3>5 DEF ReadLoop, ReadFrame, ReadError, HandleControl,
        PushAccept, Deliver, RemoteClose
  <2> QED BY <2>2, <2>3
<1> QED
  BY <1>1, <1>2, <1>3, <1>4, <1>5 DEF FlowInv, Next, vars, LinkDown, Accept,
     NextControl, SendControl, SessionClose, sessVars, strVars

-----------------------------------------------------------------------------
(* The steps of the session and of readLoop *)

(* A step outside readLoop and Read moves no frame of a stream at an end that
   neither gets nor gives up anything. *)
LEMMA StillProgram ==
  ASSUME NEW x \in Ends, NEW j \in Ids, Ages(x, j),
         UNCHANGED <<loop, got, buf, remoteClosed>>,
         link' = "up" => link = "up", phase'[x] = "open" => phase[x] = "open",
         closePc[x][j] # "no" => closePc'[x][j] # "no"
  PROVE  Still(x, j)
BY DEF Still, Lossless, Taken, Carrying, Closing, Ending, Arriving

(* Steps outside readLoop that write at most an OPEN or a control message. *)
LEMMA FlowProgram ==
  ASSUME FlowInv, NEW x \in Ends, NEW j \in Ids, Ages(x, j),
         UNCHANGED <<loop, got, buf, remoteClosed, sent, fin>>,
         link' = "up" => link = "up", phase'[x] = "open" => phase[x] = "open",
         closePc[x][j] # "no" => closePc'[x][j] # "no",
         \/ wire' = wire
         \/ \E e \in Ends : \E f \in Frame :
              Written(e, f) /\ ~IsData(f, j) /\ ~IsClose(f, j)
  PROVE  Flow(x, j)'
<1>1. Still(x, j)
  BY StillProgram
<1>2. \/ wire'[x] = wire[x]
      \/ /\ Lossless(x)
         /\ \E f : Grows(wire[x], wire'[x], f) /\ ~IsData(f, j) /\ ~IsClose(f, j)
  <2>1. ASSUME NEW e \in Ends, NEW f \in Frame, Written(e, f), ~IsData(f, j), ~IsClose(f, j)
        PROVE  <1>2!:
    <3>1. x = e \/ x = Peer(e)
      BY PeerFacts
    <3> QED BY <2>1, <3>1, WrittenWire DEF FlowInv, IInv
  <2> QED BY <2>1
<1> QED BY <1>1, <1>2, FlowOther DEF FlowInv

(* readLoop's steps about other frames. *)
LEMMA FlowLoop ==
  ASSUME FlowInv, NEW e \in Ends, NEW l, GoTo(e, l), NEW x \in Ends, NEW j \in Ids, Ages(x, j),
         UNCHANGED <<wire, got, sent, fin, closePc, link>>, buf'[x][j] = buf[x][j],
         phase'[x] = "open" => phase[x] = "open",
         j \in remoteClosed'[x] => j \in remoteClosed[x],
         x = e => /\ ~Carrying(x, j) /\ ~Closing(x, j) /\ ~Ending(x, j)
                  /\ ~Carrying(x, j)' /\ ~Closing(x, j)' /\ ~Ending(x, j)'
                  /\ Arriving(x, j) => ~Unarrived(x, j)'
  PROVE  Flow(x, j)'
<1>1. loop'[x] = loop[x] \/ x = e
  BY DEF FlowInv, IInv, TypeOK, GoTo
<1>2. Still(x, j)
  <2>1. CASE loop'[x] = loop[x]
    BY <2>1 DEF Still, Lossless, Taken, Carrying, Closing, Ending, Arriving
  <2>2. CASE x = e
    BY <2>2 DEF Still, Lossless, Taken
  <2> QED BY <1>1, <2>1, <2>2
<1> QED BY <1>2, FlowOther DEF FlowInv

(* Every step of readLoop keeps the flow of every stream. *)
LEMMA FlowReadLoop ==
  ASSUME FlowInv, IInv', NEW e \in Ends, ReadLoop(e), NEW x \in Ends, NEW j \in Ids, Ages(x, j)
  PROVE  Flow(x, j)'
<1>0. Flow(x, j) /\ Delivers(x, j) /\ IInv /\ TypeOK
  BY DEF FlowInv, IInv
<1>1. /\ Reading.at = "read" /\ Done.at = "done"
      /\ \A a, f : At(a, f).at = a /\ At(a, f).f = f
  BY SMT DEF Reading, Done, At
<1>2. ASSUME NEW l, GoTo(e, l) PROVE loop'[e] = l
  BY <1>0, <1>2 DEF GoTo, TypeOK
<1>3. CASE ReadFrame(e)
  <2>1. CASE x = e
    BY <1>0, <1>3, <2>1, FlowTaken
  <2>2. CASE x # e
    <3>1. wire'[x] = wire[x] /\ loop'[x] = loop[x]
      BY <1>0, <1>3, <2>2, TakenWire
    <3>2. UNCHANGED <<link, phase, got, buf, remoteClosed, closePc, sent, fin>>
      BY <1>3 DEF ReadFrame, strVars, appVars, histVars
    <3>3. Still(x, j)
      BY <3>1, <3>2 DEF Still, Lossless, Taken, Carrying, Closing, Ending, Arriving
    <3> QED BY <1>0, <3>1, <3>2, <3>3, FlowOther
  <2> QED BY <2>1, <2>2
<1>4. CASE ReadError(e)
  <2>1. loop[e].at = "read" /\ loop'[e].at = "done"
    BY <1>1, <1>2, <1>4 DEF ReadError
  <2>2. phase'[x] = "open" => phase[x] = "open"
    BY <1>0, <1>4 DEF ReadError, CloseWithErr, TypeOK
  <2>3. /\ ~Carrying(e, j) /\ ~Closing(e, j) /\ ~Ending(e, j) /\ ~Arriving(e, j)
        /\ ~Carrying(e, j)' /\ ~Closing(e, j)' /\ ~Ending(e, j)'
    BY <2>1 DEF Carrying, Closing, Ending, Arriving
  <2> QED BY <1>4, <2>2, <2>3, FlowLoop DEF ReadError, netVars, strVars, appVars, histVars
<1>5. CASE HandleControl(e)
  <2>1. loop[e].at = "got" /\ loop[e].f.typ = "control" /\ loop'[e].at \in {"read", "done"}
    BY <1>1, <1>2, <1>5 DEF HandleControl, Holding
  <2>2. /\ ~Carrying(e, j) /\ ~Closing(e, j) /\ ~Ending(e, j) /\ ~Arriving(e, j)
        /\ ~Carrying(e, j)' /\ ~Closing(e, j)' /\ ~Ending(e, j)'
    BY <2>1 DEF Carrying, Closing, Ending, Arriving, IsData, IsClose, IsOpen
  <2> QED BY <1>5, <2>2, FlowLoop DEF HandleControl, netVars, strVars, appVars, histVars
<1>6. CASE HandleOpen(e)
  <2>1. /\ loop[e].at = "got" /\ loop[e].f.typ = "open" /\ loop'[e].at = "accept"
        /\ loop'[e].f = loop[e].f
    <3>1. loop'[e] = At("accept", loop[e].f)
      BY <1>2, <1>6 DEF HandleOpen
    <3>2. loop[e].at = "got" /\ loop[e].f.typ = "open"
      BY <1>6 DEF HandleOpen, Holding
    <3> QED BY SMT, <3>1, <3>2 DEF At, Reading
  <2>2. /\ ~Carrying(e, j) /\ ~Closing(e, j) /\ ~Ending(e, j)
        /\ ~Carrying(e, j)' /\ ~Closing(e, j)' /\ ~Ending(e, j)'
    BY <2>1 DEF Carrying, Closing, Ending, IsData, IsClose
  <2>3. Arriving(e, j) => ~Unarrived(e, j)'
    <3>1. Arriving(e, j) => BusyWith(e, j)'
      BY <2>1 DEF Arriving, IsOpen, BusyWith
    <3> QED BY <3>1 DEF IInv, UnarrivedInv
  <2> QED BY <1>6, <2>2, <2>3, FlowLoop DEF HandleOpen, netVars, strVars, appVars, histVars
<1>7. CASE PushAccept(e)
  <2>1. loop[e].at = "accept" /\ loop'[e].at \in {"read", "done"}
    BY <1>1, <1>2, <1>7 DEF PushAccept
  <2>2. /\ ~Carrying(e, j) /\ ~Closing(e, j) /\ ~Ending(e, j) /\ ~Arriving(e, j)
        /\ ~Carrying(e, j)' /\ ~Closing(e, j)' /\ ~Ending(e, j)'
    BY <2>1 DEF Carrying, Closing, Ending, Arriving
  <2> QED BY <1>7, <2>2, FlowLoop DEF PushAccept, netVars, strVars, appVars, histVars
<1>8. ASSUME loop[e].at \in {"got", "deliver", "remoteClose"},
             ~(loop[e].at = "got" /\ loop[e].f.typ = "open"),
             x # e \/ loop[e].f.id # j,
             loop'[e].at = "read" \/ (loop'[e].at \in {"deliver", "remoteClose"} /\ loop'[e].f = loop[e].f)
      PROVE  x = e => /\ ~Carrying(x, j) /\ ~Closing(x, j) /\ ~Ending(x, j)
                      /\ ~Carrying(x, j)' /\ ~Closing(x, j)' /\ ~Ending(x, j)'
                      /\ Arriving(x, j) => ~Unarrived(x, j)'
  BY <1>8 DEF Carrying, Closing, Ending, Arriving, IsData, IsClose, IsOpen
<1>9. CASE HandleData(e)
  <2>1. /\ loop[e].at = "got" /\ loop[e].f.typ = "data"
        /\ \/ loop'[e].at = "read" /\ loop[e].f.id \notin streams[e]
           \/ loop'[e].at = "deliver" /\ loop'[e].f = loop[e].f
    <3>1. loop'[e] = IF loop[e].f.id \in streams[e] THEN At("deliver", loop[e].f) ELSE Reading
      BY <1>2, <1>9 DEF HandleData
    <3>2. loop[e].at = "got" /\ loop[e].f.typ = "data"
      BY <1>9 DEF HandleData, Holding
    <3> QED BY SMT, <3>1, <3>2 DEF At, Reading
  <2>2. UNCHANGED <<wire, link, phase, streams, remoteClosed, sent, fin, got, buf, closePc>>
    BY <1>9 DEF HandleData, netVars, strVars, appVars, histVars
  <2>3. CASE x # e \/ loop[e].f.id # j
    BY <1>8, <1>9, <2>1, <2>2, <2>3, FlowLoop DEF HandleData
  <2>4. CASE x = e /\ loop[e].f.id = j /\ loop'[e].at = "read"
    BY <1>0, <1>9, <2>1, <2>4, FlowDropped
  <2>5. CASE x = e /\ loop[e].f.id = j /\ loop'[e].at = "deliver"
    <3>1. Still(x, j)
      BY <2>1, <2>2, <2>5 DEF Still, Lossless, Taken, Carrying, Closing, Ending, Arriving, IsData, IsClose, IsOpen
    <3> QED BY <1>0, <2>2, <3>1, FlowOther
  <2> QED BY <2>1, <2>3, <2>4, <2>5
<1>10. CASE Deliver(e)
  <2>1. loop[e].at = "deliver" /\ loop'[e].at = "read"
    BY <1>1, <1>2, <1>10 DEF Deliver
  <2>2. CASE x # e \/ loop[e].f.id # j
    <3>1. buf'[x][j] = buf[x][j]
      <4>1. buf \in [Ends -> [Ids -> Seq(Nat)]] /\ loop[e].f.id \in Ids
        BY <1>0, <2>1, HeldFrame DEF TypeOK
      <4>2. buf' = buf \/ buf' = [buf EXCEPT ![e][loop[e].f.id] = Append(@, loop[e].f.n)]
        BY <1>10 DEF Deliver
      <4> QED BY SMT, <2>2, <4>1, <4>2
    <3>2. GoTo(e, Reading) /\ UNCHANGED <<wire, got, sent, fin, closePc, link, phase, remoteClosed>>
      BY <1>10 DEF Deliver, netVars, appVars, histVars
    <3> QED BY <1>8, <2>1, <2>2, <3>1, <3>2, FlowLoop
  <2>3. CASE x = e /\ loop[e].f.id = j
    BY <1>0, <1>10, <2>3, FlowDelivered
  <2> QED BY <2>2, <2>3
<1>11. CASE HandleClose(e)
  <2>1. /\ loop[e].at = "got" /\ loop[e].f.typ = "close"
        /\ loop'[e].at = "read" \/ (loop'[e].at = "remoteClose" /\ loop'[e].f = loop[e].f)
    <3>1. loop'[e] = IF loop[e].f.id \in streams[e] THEN At("remoteClose", loop[e].f) ELSE Reading
      BY <1>2, <1>11 DEF HandleClose
    <3>2. loop[e].at = "got" /\ loop[e].f.typ = "close"
      BY <1>11 DEF HandleClose, Holding
    <3> QED BY SMT, <3>1, <3>2 DEF At, Reading
  <2>2. CASE x # e \/ loop[e].f.id # j
    BY <1>8, <1>11, <2>1, <2>2, FlowLoop DEF HandleClose, netVars, strVars, appVars, histVars
  <2>3. CASE x = e /\ loop[e].f.id = j
    BY <1>0, <1>11, <2>3, FlowClosed
  <2> QED BY <2>2, <2>3
<1>12. CASE RemoteClose(e)
  <2>1. loop[e].at = "remoteClose" /\ loop'[e].at = "read"
    BY <1>1, <1>2, <1>12 DEF RemoteClose
  <2>2. CASE x # e \/ loop[e].f.id # j
    <3>1. j \in remoteClosed'[x] => j \in remoteClosed[x]
      BY <1>0, <1>12, <2>2 DEF RemoteClose, Add, TypeOK
    <3> QED BY <1>8, <1>12, <2>1, <2>2, <3>1, FlowLoop DEF RemoteClose, netVars, appVars, histVars
  <2>3. CASE x = e /\ loop[e].f.id = j
    BY <1>0, <1>12, <2>3, FlowEnded
  <2> QED BY <2>2, <2>3
<1> QED BY <1>3, <1>4, <1>5, <1>6, <1>7, <1>9, <1>10, <1>11, <1>12 DEF ReadLoop

-----------------------------------------------------------------------------
(* The steps of Write, Close and Read *)

(* What is written on a stream that has not arrived follows its OPEN. *)
LEMMA WriterAnnounced ==
  ASSUME IInv, NEW e \in Ends, NEW i \in held[e], i \in Ids, Unarrived(Peer(e), i)
  PROVE  OpenInFlight(Peer(e), i)
<1>1. Peer(e) \in Ends /\ Peer(Peer(e)) = e
  BY PeerFacts
<1>2. ~Unarrived(e, i) /\ i \notin opening[e]
  BY DEF IInv, UnarrivedInv, AllocInv
<1> QED BY <1>1, <1>2 DEF Unarrived

(* Of the frame a Write or a Close puts on the connection, other streams and
   the writer's own end see nothing. *)
LEMMA FlowWritten ==
  ASSUME FlowInv, NEW e \in Ends, NEW i \in Ids, NEW f \in Frame, f.typ \in {"data", "close"}, f.id = i,
         Written(e, f) \/ wire' = wire,
         NEW x \in Ends, NEW j \in Ids, Still(x, j), x = e \/ j # i,
         sent'[Peer(x)][j] = sent[Peer(x)][j], fin'[Peer(x)][j] = fin[Peer(x)][j]
  PROVE  Flow(x, j)'
<1>1. x = e \/ (x = Peer(e) /\ j # i)
  BY PeerFacts
<1>2. j # i => ~IsData(f, j) /\ ~IsClose(f, j)
  BY DEF IsData, IsClose
<1>3. \/ wire'[x] = wire[x]
      \/ Lossless(x) /\ Grows(wire[x], wire'[x], f) /\ j # i
  <2>1. CASE Written(e, f)
    BY <1>1, <2>1, WrittenWire DEF FlowInv, IInv
  <2> QED BY <2>1
<1> QED BY <1>2, <1>3, FlowOther DEF FlowInv

(* So does Write, a chunk at a time, whether or not the frame was written. *)
LEMMA FlowWriteChunk ==
  ASSUME FlowInv, NEW e \in Ends, NEW i \in Ids, WriteChunk(e, i),
         NEW x \in Ends, NEW j \in Ids, Ages(x, j)
  PROVE  Flow(x, j)'
<1> DEFINE f == DataFrame(i, sent[e][i] + 1)
<1>1. /\ Still(x, j) /\ i \in held[e] /\ UNCHANGED fin /\ IInv /\ TypeOK /\ Flow(x, j)
  <2>1. Still(x, j)
    BY StillProgram DEF WriteChunk, sessVars, strVars
  <2> QED BY <2>1 DEF WriteChunk, FlowInv, WriterInv, IInv
<1>2. f \in Frame /\ f.typ \in {"data", "close"} /\ f.id = i
  <2>1. sent[e][i] + 1 \in Nat
    BY <1>1, NextChunk
  <2> QED BY <2>1 DEF DataFrame, Frame, StreamFrame
<1>3. /\ Peer(x) \in Ends /\ (x = e \/ x = Peer(e)) /\ Peer(Peer(e)) = e /\ Peer(e) # e
  BY PeerFacts
<1>4. \/ /\ Written(e, f) /\ sent'[e][i] = sent[e][i] + 1
         /\ \A y \in Ends : \A k \in Ids : y # e \/ k # i => sent'[y][k] = sent[y][k]
      \/ wire' = wire /\ sent' = sent
  <2>1. sent \in [Ends -> [Ids -> Nat]]
    BY <1>1 DEF TypeOK
  <2>2. \/ Written(e, f) /\ sent' = [sent EXCEPT ![e][i] = @ + 1]
        \/ wire' = wire /\ sent' = sent
    BY DEF WriteChunk
  <2>3. sent' = [sent EXCEPT ![e][i] = @ + 1] =>
          /\ sent'[e][i] = sent[e][i] + 1
          /\ \A y \in Ends : \A k \in Ids : y # e \/ k # i => sent'[y][k] = sent[y][k]
    BY SMT, <2>1
  <2> QED BY <2>2, <2>3
<1>5. CASE x = e \/ j # i
  <2>1. sent'[Peer(x)][j] = sent[Peer(x)][j]
    BY <1>3, <1>4, <1>5
  <2> HIDE DEF f
  <2> QED BY <1>1, <1>2, <1>4, <1>5, <2>1, FlowWritten
<1>6. CASE wire' = wire /\ sent' = sent
  BY <1>1, <1>6, FlowOther
<1>7. CASE x = Peer(e) /\ j = i /\ Written(e, f) /\ sent'[e][i] = sent[e][i] + 1
  <2>1. Unarrived(x, j) => OpenInFlight(x, j)
    BY <1>1, <1>7, WriterAnnounced
  <2>2. \/ wire'[x] = wire[x] /\ ~Lossless(x)
        \/ Grows(wire[x], wire'[x], f) /\ Lossless(x)
    BY <1>1, <1>2, <1>7, WrittenWire
  <2> QED BY <1>1, <1>3, <1>7, <2>1, <2>2, FlowData
<1> QED BY <1>3, <1>4, <1>5, <1>6, <1>7

(* So does Close when it sends the CLOSE. *)
LEMMA FlowCloseSend ==
  ASSUME FlowInv, NEW e \in Ends, NEW i \in Ids, CloseSend(e, i),
         NEW x \in Ends, NEW j \in Ids, Ages(x, j)
  PROVE  Flow(x, j)'
<1>1. /\ i \in held[e] /\ UNCHANGED sent /\ IInv /\ TypeOK /\ Flow(x, j) /\ fin[e][i] = -1
  BY DEF CloseSend, FlowInv, WriterInv, IInv
<1>1a. Still(x, j)
  <2>1. /\ closePc \in [Ends -> [Ids -> {"no", "remove", "send", "done"}]]
        /\ closePc' = [closePc EXCEPT ![e][i] = "done"]
    BY <1>1 DEF CloseSend, TypeOK
  <2>2. closePc[x][j] # "no" => closePc'[x][j] # "no"
    BY SMT, <2>1
  <2> QED BY <2>2, StillProgram DEF CloseSend, sessVars, appVars
<1>2. CloseFrame(i) \in Frame /\ CloseFrame(i).typ \in {"data", "close"} /\ CloseFrame(i).id = i
  BY DEF CloseFrame, Frame, StreamFrame
<1>3. /\ Peer(x) \in Ends /\ (x = e \/ x = Peer(e)) /\ Peer(Peer(e)) = e /\ Peer(e) # e
  BY PeerFacts
<1>4. \/ /\ Written(e, CloseFrame(i)) /\ fin'[e][i] = sent[e][i]
         /\ \A y \in Ends : \A k \in Ids : y # e \/ k # i => fin'[y][k] = fin[y][k]
      \/ wire' = wire /\ fin' = fin
  <2>1. fin \in [Ends -> [Ids -> Nat \cup {-1}]]
    BY <1>1 DEF TypeOK
  <2>2. \/ Written(e, CloseFrame(i)) /\ fin' = [fin EXCEPT ![e][i] = sent[e][i]]
        \/ wire' = wire /\ fin' = fin
    BY DEF CloseSend
  <2>3. fin' = [fin EXCEPT ![e][i] = sent[e][i]] =>
          /\ fin'[e][i] = sent[e][i]
          /\ \A y \in Ends : \A k \in Ids : y # e \/ k # i => fin'[y][k] = fin[y][k]
    BY SMT, <2>1
  <2> QED BY <2>2, <2>3
<1>5. CASE x = e \/ j # i
  <2>0. Peer(x) # e \/ j # i
    BY <1>3, <1>5
  <2>1. fin'[Peer(x)][j] = fin[Peer(x)][j]
    BY <1>3, <1>4, <2>0
  <2> QED BY <1>1, <1>1a, <1>2, <1>4, <1>5, <2>1, FlowWritten
<1>6. CASE wire' = wire /\ fin' = fin
  BY <1>1, <1>1a, <1>6, FlowOther
<1>7. CASE x = Peer(e) /\ j = i /\ Written(e, CloseFrame(i)) /\ fin'[e][i] = sent[e][i]
  <2>1. Unarrived(x, j) => OpenInFlight(x, j)
    BY <1>1, <1>7, WriterAnnounced
  <2>2. \/ wire'[x] = wire[x] /\ ~Lossless(x)
        \/ Grows(wire[x], wire'[x], CloseFrame(i)) /\ Lossless(x)
    BY <1>1, <1>2, <1>7, WrittenWire
  <2> QED BY <1>1, <1>1a, <1>3, <1>7, <2>1, <2>2, FlowClose
<1> QED BY <1>3, <1>4, <1>5, <1>6, <1>7

(* Read takes the oldest chunk of the buffer, or learns how the stream ended. *)
LEMMA ReadTakes ==
  ASSUME TypeOK, NEW e \in Ends, NEW i \in Ids, Read(e, i)
  PROVE  /\ \A x \in Ends : \A j \in Ids : x # e \/ j # i =>
              got'[x][j] = got[x][j] /\ buf'[x][j] = buf[x][j] /\ rd'[x][j] = rd[x][j]
         /\ \/ /\ got'[e][i] = got[e][i] + 1 /\ buf'[e][i] = Tail(buf[e][i])
               /\ buf[e][i] # <<>> /\ rd' = rd
            \/ /\ got' = got /\ buf' = buf /\ buf[e][i] = <<>>
               /\ EmptyRead(e, i) # "wait" /\ rd'[e][i] = EmptyRead(e, i)
<1>1. /\ got \in [Ends -> [Ids -> Nat]] /\ buf \in [Ends -> [Ids -> Seq(Nat)]]
      /\ rd \in [Ends -> [Ids -> ReadEnd]]
  BY DEF TypeOK
<1>2. CASE /\ buf[e][i] # <<>>
           /\ buf' = [buf EXCEPT ![e][i] = Tail(@)]
           /\ got' = [got EXCEPT ![e][i] = @ + 1]
           /\ UNCHANGED rd
  <2>1. /\ got'[e][i] = got[e][i] + 1 /\ buf'[e][i] = Tail(buf[e][i])
        /\ \A x \in Ends : \A j \in Ids : x # e \/ j # i =>
              got'[x][j] = got[x][j] /\ buf'[x][j] = buf[x][j]
    BY SMT, <1>1, <1>2
  <2> QED BY <1>2, <2>1
<1>3. CASE /\ buf[e][i] = <<>>
           /\ EmptyRead(e, i) # "wait"
           /\ rd' = [rd EXCEPT ![e][i] = EmptyRead(e, i)]
           /\ UNCHANGED <<buf, got>>
  <2>1. /\ rd'[e][i] = EmptyRead(e, i)
        /\ \A x \in Ends : \A j \in Ids : x # e \/ j # i => rd'[x][j] = rd[x][j]
    BY SMT, <1>1, <1>3
  <2> QED BY <1>3, <2>1
<1> QED BY <1>2, <1>3 DEF Read

(* So does Read. *)
LEMMA FlowRead ==
  ASSUME FlowInv, NEW e \in Ends, NEW i \in Ids, Read(e, i),
         NEW x \in Ends, NEW j \in Ids, Ages(x, j)
  PROVE  Flow(x, j)'
<1>1. TypeOK /\ Flow(x, j) /\ UNCHANGED <<phase, loop, wire, link, remoteClosed, closePc, sent, fin>>
  BY DEF FlowInv, IInv, Read, sessVars, netVars, histVars
<1>2. /\ Taken(x, j)' = Taken(x, j)
      /\ (\A k \in DOMAIN buf[x][j] : buf[x][j][k] = got[x][j] + k)
         => \A k \in DOMAIN buf'[x][j] : buf'[x][j][k] = got'[x][j] + k
  <2>1. CASE got'[x][j] = got[x][j] /\ buf'[x][j] = buf[x][j]
    BY <2>1 DEF Taken
  <2>2. CASE /\ got'[x][j] = got[x][j] + 1 /\ buf'[x][j] = Tail(buf[x][j]) /\ buf[x][j] # <<>>
    <3> DEFINE q == buf[x][j]
               g == got[x][j]
    <3>1. q \in Seq(Nat) /\ q # <<>> /\ g \in Nat
      <4>1. got \in [Ends -> [Ids -> Nat]] /\ buf \in [Ends -> [Ids -> Seq(Nat)]]
        BY <1>1 DEF TypeOK
      <4> QED BY <2>2, <4>1
    <3> HIDE DEF q, g
    <3>2. /\ g + Len(q) = (g + 1) + Len(Tail(q))
      BY SMT, <3>1
    <3>3. /\ \A k \in DOMAIN Tail(q) : k + 1 \in DOMAIN q /\ Tail(q)[k] = q[k + 1]
               /\ g + (k + 1) = (g + 1) + k
      BY SMT, <3>1
    <3>4. (\A k \in DOMAIN q : q[k] = g + k) =>
            \A k \in DOMAIN Tail(q) : Tail(q)[k] = (g + 1) + k
      BY <3>3
    <3> QED BY <2>2, <3>2, <3>4 DEF Taken, q, g
  <2>3. CASE x = e /\ j = i
    <3>1. \/ got' = got /\ buf' = buf
          \/ /\ got'[e][i] = got[e][i] + 1 /\ buf'[e][i] = Tail(buf[e][i])
             /\ buf[e][i] # <<>>
      BY <1>1, ReadTakes
    <3> QED BY <2>1, <2>2, <2>3, <3>1
  <2>4. CASE x # e \/ j # i
    <3>1. \A y \in Ends : \A k \in Ids : y # e \/ k # i =>
            got'[y][k] = got[y][k] /\ buf'[y][k] = buf[y][k] /\ rd'[y][k] = rd[y][k]
      BY <1>1, ReadTakes
    <3> QED BY <2>1, <2>4, <3>1
  <2> QED BY <2>3, <2>4
<1>3. Still(x, j)
  BY <1>1, <1>2 DEF Still, Lossless, Carrying, Closing, Ending, Arriving
<1> QED BY <1>1, <1>3, FlowOther

-----------------------------------------------------------------------------
(* The flow of every stream *)

(* Nothing has been written at first. *)
LEMMA FlowInit == Init => FlowInv
<1> SUFFICES ASSUME Init PROVE FlowInv
  OBVIOUS
<1>1. IInv
  BY InvInit
<1>2. ASSUME NEW e \in Ends, NEW i \in Ids
      PROVE  /\ wire[e] = <<>> /\ loop[e] = Reading /\ got[e][i] = 0 /\ buf[e][i] = <<>>
             /\ sent[e][i] = 0 /\ fin[e][i] = -1 /\ closePc[e][i] = "no" /\ err[e][i] = "nil"
             /\ writing[e] = {} /\ remoteClosed[e] = {}
  BY DEF Init
<1>3. WriterInv
  BY <1>2 DEF WriterInv
<1>4. ASSUME NEW e \in Ends, NEW i \in Ids PROVE Flow(e, i) /\ Delivers(e, i)
  <2>1. /\ Peer(e) \in Ends /\ sent[Peer(e)][i] = 0 /\ fin[Peer(e)][i] = -1
    BY <1>2, PeerFacts
  <2>2. loop[e].at = "read"
    BY SMT, <1>2 DEF Reading
  <2>3. ~Carrying(e, i) /\ ~Closing(e, i) /\ ~Ending(e, i) /\ Delivers(e, i)
    BY <2>2 DEF Carrying, Closing, Ending, Delivers
  <2>4. Len(<<>>) = 0 /\ 1..0 = {} /\ 0 + 0 = 0 /\ 0 <= 0 /\ 0 + 1 = 1 /\ 1 <= 1 /\ DOMAIN <<>> = {}
    BY SMT
  <2>5. Taken(e, i) = 0 /\ Due(e, i) = 1
    <3>1. Taken(e, i) = 0
      BY <1>2, <2>4 DEF Taken
    <3> QED BY <2>3, <2>4, <3>1 DEF Due
  <2>6. Travels(e, i)
    BY <1>2, <2>4 DEF Travels, Ordered, Announced
  <2>7. Handles(e, i)
    BY <2>3 DEF Handles
  <2>8. Holds(e, i)
    BY <1>2, <2>1, <2>3, <2>4, <2>5 DEF Holds
  <2>9. Continues(e, i)
    <3>1. Gapless(<<>>, i, 1, -1) /\ Complete(<<>>, i, 1, 0)
      BY <2>4 DEF Gapless, Complete
    <3>2. /\ Gapless(wire[e], i, Due(e, i), fin[Peer(e)][i])
          /\ Complete(wire[e], i, Due(e, i), sent[Peer(e)][i])
          /\ Due(e, i) <= sent[Peer(e)][i] + 1
      <4>1. /\ wire[e] = <<>> /\ Due(e, i) = 1 /\ fin[Peer(e)][i] = -1
            /\ sent[Peer(e)][i] = 0 /\ 1 <= 0 + 1
        BY <1>2, <2>1, <2>4, <2>5
      <4> QED BY SMT, <3>1, <4>1
    <3> QED BY <2>1, <2>3, <3>2 DEF Continues
  <2> QED BY <2>3, <2>6, <2>7, <2>8, <2>9 DEF Flow
<1> QED BY <1>1, <1>3, <1>4 DEF FlowInv

(* The invariant is inductive: one case per action. *)
LEMMA FlowStep == FlowInv /\ [Next]_vars => FlowInv'
<1> SUFFICES ASSUME FlowInv, [Next]_vars PROVE FlowInv'
  OBVIOUS
<1>1. IInv /\ IInv' /\ WriterInv'
  BY InvStep, WriterStep DEF FlowInv
<1>2. ASSUME NEW x \in Ends, NEW j \in Ids PROVE Flow(x, j)'
  <2>0. Ages(x, j)
    BY <1>1, AgeStep
  <2>1. CASE /\ UNCHANGED <<wire, loop, got, buf, remoteClosed, sent, fin, closePc>>
             /\ link' = "up" => link = "up"
             /\ phase'[x] = "open" => phase[x] = "open"
    BY <2>0, <2>1, FlowProgram
  <2>2. ASSUME NEW e \in Ends, SessionClose(e) \/ Sweep(e) PROVE Flow(x, j)'
    <3>1. phase'[x] = "open" => phase[x] = "open"
      <4>1. phase \in [Ends -> {"open", "closing", "swept"}]
        BY <1>1 DEF IInv, TypeOK
      <4> QED BY <2>2, <4>1 DEF SessionClose, Sweep, CloseWithErr
    <3> QED BY <2>1, <2>2, <3>1 DEF SessionClose, Sweep, netVars, strVars, appVars, histVars
  <2>3. ASSUME NEW e \in Ends, NEW c \in Control, SendControl(e, c) PROVE Flow(x, j)'
    <3>1. ControlFrame(c) \in Frame /\ ~IsData(ControlFrame(c), j) /\ ~IsClose(ControlFrame(c), j)
      BY DEF ControlFrame, Frame, IsData, IsClose
    <3> QED BY <2>0, <2>3, <3>1, FlowProgram DEF SendControl, sessVars, strVars, appVars
  <2>4. ASSUME NEW e \in Ends, NEW i \in Ids, OpenSend(e, i) PROVE Flow(x, j)'
    <3>1. OpenFrame(i) \in Frame /\ ~IsData(OpenFrame(i), j) /\ ~IsClose(OpenFrame(i), j)
      <4>1. 0 \in Nat
        BY SMT
      <4> QED BY <4>1 DEF OpenFrame, Frame, StreamFrame, IsData, IsClose
    <3> QED BY <2>0, <2>4, <3>1, FlowProgram DEF OpenSend, strVars, histVars
  <2>5. ASSUME NEW e \in Ends, NEW i \in Ids, CloseLocal(e, i) \/ CloseRemove(e, i)
        PROVE  Flow(x, j)'
    <3>1. /\ closePc \in [Ends -> [Ids -> {"no", "remove", "send", "done"}]]
          /\ \E b \in {"remove", "send"} : closePc' = [closePc EXCEPT ![e][i] = b]
      BY <1>1, <2>5 DEF CloseLocal, CloseRemove, IInv, TypeOK
    <3>2. closePc[x][j] # "no" => closePc'[x][j] # "no"
      BY SMT, <3>1
    <3> QED BY <2>0, <2>5, <3>2, FlowProgram
            DEF CloseLocal, CloseRemove, sessVars, netVars, appVars, histVars
  <2>6. ASSUME NEW e \in Ends, NEW i \in Ids, StreamStep(e, i) PROVE Flow(x, j)'
    <3>1. CASE StartWrite(e, i)
      BY <2>1, <3>1 DEF StartWrite, sessVars, netVars, strVars, histVars
    <3> QED BY <2>0, <2>4, <2>5, <2>6, <3>1, FlowWriteChunk, FlowCloseSend, FlowRead DEF StreamStep
  <2>7. ASSUME NEW e \in Ends, ReadLoop(e) PROVE Flow(x, j)'
    BY <1>1, <2>0, <2>7, FlowReadLoop
  <2> QED
    BY <2>1, <2>2, <2>3, <2>6, <2>7 DEF Next, vars, LinkDown, OpenInsert, Accept, NextControl,
       sessVars, netVars, strVars, appVars, histVars
<1>3. \A x \in Ends : \A j \in Ids : Delivers(x, j)'
  BY DeliverStep
<1> QED BY <1>1, <1>2, <1>3 DEF FlowInv

(* What is on its way to a stream that still receives continues, without a gap
   and in order, what the stream has (writeFrame, readLoop, deliver, remoteClose),
   for any number of streams, chunks and frames on the connection. *)
THEOREM FlowCorrect == Spec => []FlowInv
BY FlowInit, FlowStep, PTL DEF Spec

-----------------------------------------------------------------------------
(* The tunnel implements ByteStream *)

(* A step that changes nothing the program sees of a direction. *)
LEMMA Unseen ==
  ASSUME NEW x \in Ends, NEW j \in Ids,
         sent'[Peer(x)][j] = sent[Peer(x)][j], fin'[Peer(x)][j] = fin[Peer(x)][j],
         got'[x][j] = got[x][j], rd'[x][j] = rd[x][j],
         phase'[x] # "open" <=> phase[x] # "open",
         closePc'[x][j] # "no" <=> closePc[x][j] # "no"
  PROVE  UNCHANGED Bytes(x, j)!vars
BY DEF Bytes!vars

(* Every step of the tunnel is a step of the byte stream of each direction, or
   leaves it alone: Write is Send, Close's CLOSE is Finish, its first step Shut,
   closeWithErr is Lose, and Read is Recv or End. *)
LEMMA RefineStep ==
  ASSUME FlowInv, [Next]_vars, NEW x \in Ends, NEW j \in Ids
  PROVE  Bytes(x, j)!Next \/ UNCHANGED Bytes(x, j)!vars
<1> DEFINE Goal == Bytes(x, j)!Next \/ UNCHANGED Bytes(x, j)!vars
<1>0. /\ IInv /\ TypeOK /\ WriterInv /\ Holds(x, j)
      /\ Peer(x) \in Ends /\ Peer(x) # x /\ Peer(Peer(x)) = x /\ \A y \in Ends : y = x \/ y = Peer(x)
  BY PeerFacts DEF FlowInv, IInv, Flow
<1>1. CASE UNCHANGED <<sent, fin, got, rd, phase, closePc>>
  BY <1>1, Unseen
<1>2. ASSUME NEW e \in Ends, NEW v, CloseWithErr(e, v), UNCHANGED <<sent, fin, got, rd, closePc>>
      PROVE  Goal
  <2>1. phase[e] = "open" /\ phase'[e] = "closing" /\ \A y \in Ends : y # e => phase'[y] = phase[y]
    BY <1>0, <1>2 DEF CloseWithErr, TypeOK
  <2>2. CASE x = e
    <3>1. Bytes(x, j)!Lose
      BY <1>2, <2>1, <2>2 DEF Bytes!Lose
    <3> QED BY <3>1 DEF Bytes!Next
  <2> QED BY <1>2, <2>1, <2>2, Unseen
<1>3. ASSUME NEW e \in Ends, SessionClose(e) PROVE Goal
  BY <1>2, <1>3 DEF SessionClose, strVars, appVars, histVars
<1>4. ASSUME NEW e \in Ends, ReadLoop(e) PROVE Goal
  <2>1. CASE ReadError(e)
    BY <1>1, <1>2, <2>1 DEF ReadError, strVars, appVars, histVars
  <2> QED BY <1>1, <1>4, <2>1 DEF ReadLoop, ReadFrame, HandleControl, HandleOpen, PushAccept,
        HandleData, Deliver, HandleClose, RemoteClose, strVars, appVars, histVars
<1>5. ASSUME NEW e \in Ends, Sweep(e) PROVE Goal
  <2>1. phase'[x] # "open" <=> phase[x] # "open"
    BY <1>0, <1>5 DEF Sweep, TypeOK
  <2> QED BY <1>5, <2>1, Unseen DEF Sweep, appVars, histVars
<1>6. ASSUME NEW e \in Ends, NEW i \in Ids, WriteChunk(e, i) PROVE Goal
  <2>1. UNCHANGED <<fin, got, rd, phase, closePc>>
    BY <1>6 DEF WriteChunk, sessVars, strVars
  <2>2. CASE sent' = [sent EXCEPT ![e][i] = @ + 1]
    <3>1. sent \in [Ends -> [Ids -> Nat]]
      BY <1>0 DEF TypeOK
    <3>2. /\ sent'[e][i] = sent[e][i] + 1
          /\ \A y \in Ends : \A k \in Ids : y # e \/ k # i => sent'[y][k] = sent[y][k]
      BY SMT, <2>2, <3>1
    <3>3. CASE Peer(x) = e /\ j = i
      <4>1. Bytes(x, j)!Send
        BY <2>1, <3>2, <3>3 DEF Bytes!Send
      <4> QED BY <4>1 DEF Bytes!Next
    <3> QED BY <1>0, <2>1, <3>2, <3>3, Unseen
  <2>3. CASE sent' = sent
    BY <1>1, <2>1, <2>3
  <2> QED BY <1>6, <2>2, <2>3 DEF WriteChunk
<1>7. ASSUME NEW e \in Ends, NEW i \in Ids, CloseLocal(e, i) \/ CloseRemove(e, i) \/ CloseSend(e, i)
      PROVE  Goal
  <2>1. UNCHANGED <<sent, got, rd, phase>>
    BY <1>7 DEF CloseLocal, CloseRemove, CloseSend, sessVars, appVars, histVars
  <2>2. PICK b \in {"remove", "send", "done"} : closePc' = [closePc EXCEPT ![e][i] = b]
    BY <1>7 DEF CloseLocal, CloseRemove, CloseSend
  <2>3. /\ closePc'[e][i] = b /\ b # "no"
        /\ \A y \in Ends : \A k \in Ids : y # e \/ k # i => closePc'[y][k] = closePc[y][k]
    <3>1. closePc \in [Ends -> [Ids -> {"no", "remove", "send", "done"}]]
      BY <1>0 DEF TypeOK
    <3> QED BY SMT, <2>2, <3>1
  <2>4. CASE CloseLocal(e, i)
    <3>1. UNCHANGED fin
      BY <2>4 DEF CloseLocal, histVars
    <3>2. CASE x = e /\ j = i
      <4>1. Bytes(x, j)!Shut
        BY <2>1, <2>3, <3>1, <3>2 DEF Bytes!Shut
      <4> QED BY <4>1 DEF Bytes!Next
    <3> QED BY <1>0, <2>1, <2>3, <3>1, <3>2, Unseen
  <2>5. CASE closePc[e][i] # "no" /\ fin' = fin
    BY <1>0, <2>1, <2>3, <2>5, Unseen
  <2>6. CASE closePc[e][i] = "send" /\ fin' = [fin EXCEPT ![e][i] = sent[e][i]]
    <3>1. fin \in [Ends -> [Ids -> Nat \cup {-1}]]
      BY <1>0 DEF TypeOK
    <3>2. /\ fin'[e][i] = sent[e][i]
          /\ \A y \in Ends : \A k \in Ids : y # e \/ k # i => fin'[y][k] = fin[y][k]
      BY SMT, <2>6, <3>1
    <3>3. \A y \in Ends : \A k \in Ids : closePc'[y][k] # "no" <=> closePc[y][k] # "no"
      BY <2>3, <2>6
    <3>4. fin[e][i] = -1
      BY <1>0, <2>6 DEF WriterInv
    <3>5. CASE Peer(x) = e /\ j = i
      <4>1. Bytes(x, j)!Finish
        BY <2>1, <3>2, <3>3, <3>4, <3>5 DEF Bytes!Finish
      <4> QED BY <4>1 DEF Bytes!Next
    <3> QED BY <1>0, <2>1, <3>2, <3>3, <3>5, Unseen
  <2> QED BY <1>7, <2>4, <2>5, <2>6 DEF CloseRemove, CloseSend, histVars
<1>8. ASSUME NEW e \in Ends, NEW i \in Ids, Read(e, i) PROVE Goal
  <2>1. UNCHANGED <<sent, fin, phase, closePc>> /\ rd[e][i] = "none"
    BY <1>8 DEF Read, sessVars, histVars
  <2>2. CASE x # e \/ j # i
    <3>1. \A y \in Ends : \A k \in Ids : y # e \/ k # i =>
            got'[y][k] = got[y][k] /\ buf'[y][k] = buf[y][k] /\ rd'[y][k] = rd[y][k]
      BY <1>0, <1>8, ReadTakes
    <3> QED BY <2>1, <2>2, <3>1, Unseen
  <2>3. CASE x = e /\ j = i
    <3> DEFINE g == got[x][j]
               s == sent[Peer(x)][j]
               c == fin[Peer(x)][j]
    <3>1. /\ g \in Nat /\ buf[x][j] \in Seq(Nat) /\ s \in Nat /\ c \in Nat \cup {-1}
      <4>1. got \in [Ends -> [Ids -> Nat]] /\ buf \in [Ends -> [Ids -> Seq(Nat)]]
        BY <1>0 DEF TypeOK
      <4>2. s \in Nat /\ c \in Nat \cup {-1}
        BY <1>0, FlowTypes
      <4> QED BY <4>1, <4>2
    <3>2. /\ g + Len(buf[x][j]) <= s
          /\ c # -1 => g + Len(buf[x][j]) <= c
          /\ j \in remoteClosed[x] => closePc[x][j] # "no" \/ g + Len(buf[x][j]) = c
      BY <1>0 DEF Holds, Taken
    <3>3. CASE got'[x][j] = g + 1 /\ buf[x][j] # <<>> /\ rd' = rd
      <4>1. g < s /\ (c >= 0 => g < c)
        <5>1. Len(buf[x][j]) \in Nat /\ Len(buf[x][j]) # 0
          BY SMT, <3>1, <3>3
        <5> QED BY SMT, <3>1, <3>2, <5>1
      <4>2. Bytes(x, j)!Recv
        BY <2>1, <2>3, <3>3, <4>1 DEF Bytes!Recv
      <4> QED BY <4>2 DEF Bytes!Next
    <3>4. CASE /\ got' = got /\ buf[x][j] = <<>>
               /\ EmptyRead(x, j) # "wait" /\ rd'[x][j] = EmptyRead(x, j)
      <4>1. j \in remoteClosed[x] => closePc[x][j] # "no" \/ c = g
        <5>1. g + Len(<<>>) = g
          BY SMT, <3>1
        <5> QED BY <3>2, <3>4, <5>1
      <4>2. err[x][j] # "nil" => phase[x] # "open"
        BY <1>0 DEF WriterInv
      <4>3. err[x][j] \in SessionErr \cup {"nil"}
        <5>1. err \in [Ends -> [Ids -> SessionErr \cup {"nil"}]]
          BY <1>0 DEF TypeOK
        <5> QED BY <5>1
      <4>4. \/ rd'[x][j] = "EOF" /\ (c = g \/ phase[x] # "open" \/ closePc[x][j] # "no")
            \/ rd'[x][j] = "ErrClosed" /\ closePc[x][j] # "no"
            \/ rd'[x][j] \in {"reset", "ErrSessionClosed"} /\ phase[x] # "open"
        BY <3>4, <4>1, <4>2, <4>3 DEF EmptyRead, SessionErr
      <4>5. Bytes(x, j)!End
        BY <2>1, <2>3, <3>4, <4>4 DEF Bytes!End
      <4> QED BY <4>5 DEF Bytes!Next
    <3> QED BY <1>0, <1>8, <2>3, <3>3, <3>4, ReadTakes
  <2> QED BY <2>2, <2>3
<1>9. ASSUME NEW e \in Ends, NEW i \in Ids, StreamStep(e, i) PROVE Goal
  <2>1. CASE OpenSend(e, i) \/ StartWrite(e, i)
    BY <1>1, <2>1 DEF OpenSend, StartWrite, sessVars, strVars, histVars
  <2> QED BY <1>6, <1>7, <1>8, <1>9, <2>1 DEF StreamStep
<1> QED
  BY <1>1, <1>3, <1>4, <1>5, <1>9 DEF Next, vars, LinkDown, OpenInsert, Accept, NextControl, SendControl,
     sessVars, strVars, appVars, histVars

(* Each direction of each stream is a reliable byte stream to the program: Read
   returns the chunks the peer wrote in order and without a gap, and io.EOF only
   after the last one before the CLOSE, unless the reader closed the stream or
   its session ended. *)
THEOREM TunnelImplementsByteStream == Spec => ImplementsByteStream
<1>1. Init => \A e \in Ends : \A i \in Ids : Bytes(e, i)!Init
  <2> SUFFICES ASSUME Init, NEW e \in Ends, NEW i \in Ids PROVE Bytes(e, i)!Init
    OBVIOUS
  <2>1. Peer(e) \in Ends
    BY PeerFacts
  <2> QED BY <2>1 DEF Bytes!Init, Init
<1>2. FlowInv /\ [Next]_vars =>
        [\A e \in Ends : \A i \in Ids : Bytes(e, i)!Next \/ UNCHANGED Bytes(e, i)!vars]_vars
  BY RefineStep
<1>3. FlowInv => InOrder
  BY DEF FlowInv, Flow, Holds, Taken, InOrder
<1> QED
  BY <1>1, <1>2, <1>3, FlowCorrect, PTL DEF Spec, ImplementsByteStream
=============================================================================
