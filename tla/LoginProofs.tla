----------------------------- MODULE LoginProofs -----------------------------
(***************************************************************************)
(* Proofs about the logins the agent conducts or relays.  The Postgres     *)
(* engine is proved here; the MySQL one in MySQLHandshakeProofs, whose     *)
(* lemmas are used through an instance.                                    *)
(***************************************************************************)
EXTENDS Logins, TLAPS

\* A sequence of one message.
LEMMA OneFacts ==
  \A m : One(m) # <<>> /\ Head(One(m)) = m /\ Tail(One(m)) = <<>> /\ Append(<<>>, m) = One(m)
BY DEF One

\* Taking a message off a queue and putting one on.
LEMMA SeqFacts ==
  ASSUME NEW S
  PROVE  \A s \in Seq(S) : /\ s # <<>> => Tail(s) \in Seq(S)
                           /\ \A m \in S : Append(s, m) \in Seq(S) /\ Append(s, m) # <<>>
<1>1. \A s \in Seq(S) : s # <<>> => Tail(s) \in Seq(S)
  OBVIOUS
<1>2. \A s \in Seq(S) : \A m \in S : Append(s, m) \in Seq(S)
  OBVIOUS
<1>3. \A s \in Seq(S) : \A m \in S : Append(s, m) # <<>>
  <2>1. \A s \in Seq(S) : \A m \in S : Len(Append(s, m)) = Len(s) + 1 /\ Len(s) \in Nat
    OBVIOUS
  <2>2. Len(<<>>) = 0
    OBVIOUS
  <2>3. \A n \in Nat : n + 1 # 0
    OBVIOUS
  <2> QED
    BY <2>1, <2>2, <2>3, Zenon
<1> QED
  BY <1>1, <1>2, <1>3, Zenon

\* A client sends its requests for encryption first, and then one message.
LEMMA OpeningFacts ==
  \A q \in Openings : q # <<>> =>
    /\ Head(q) \in Frames \cup {"startup", "cancel"} /\ Tail(q) \in Openings
    /\ Head(q) \in Frames => Tail(q) # <<>>
<1>1. \A x : Head(<<x>>) = x /\ Tail(<<x>>) = <<>>
  OBVIOUS
<1>2. \A x, y : Head(<<x, y>>) = x /\ Tail(<<x, y>>) = <<y>> /\ <<y>> # <<>>
  OBVIOUS
<1>3. \A x, y, z : Head(<<x, y, z>>) = x /\ Tail(<<x, y, z>>) = <<y, z>> /\ <<y, z>> # <<>>
  OBVIOUS
<1> QED
  <2>1. "ssl" \in Frames /\ "gss" \in Frames /\ "startup" \notin Frames /\ "cancel" \notin Frames
    BY Zenon DEF Frames
  <2> SUFFICES ASSUME NEW q \in Openings, q # <<>>
               PROVE  /\ Head(q) \in Frames \cup {"startup", "cancel"} /\ Tail(q) \in Openings
                      /\ Head(q) \in Frames => Tail(q) # <<>>
    BY Zenon
  <2>2. CASE q = <<"startup">>
    BY <2>1, <2>2, <1>1, Zenon DEF Openings
  <2>3. CASE q = <<"cancel">>
    BY <2>1, <2>3, <1>1, Zenon DEF Openings
  <2>4. CASE q = <<"ssl", "startup">>
    BY <2>1, <2>4, <1>2, Zenon DEF Openings
  <2>5. CASE q = <<"gss", "ssl", "startup">>
    <3>1. Head(q) = "gss" /\ Tail(q) = <<"ssl", "startup">> /\ Tail(q) # <<>>
      BY <2>5, <1>3, SMT
    <3> QED
      BY <2>1, <3>1, Zenon DEF Openings
  <2> QED
    BY <2>2, <2>3, <2>4, <2>5, Zenon DEF Openings

\* A message before a sequence.
LEMMA Prefixed ==
  ASSUME NEW S, NEW s \in Seq(S)
  PROVE  \A x \in S : /\ <<x>> \o s \in Seq(S) /\ <<x>> \o s # <<>>
                      /\ Head(<<x>> \o s) = x /\ Tail(<<x>> \o s) = s
OBVIOUS

\* What the server sends after AuthenticationOk are messages of the server.
LEMMA TailFacts == LoginTail \in Seq(Tails) /\ LoginTail \in Seq(Backend)
BY DEF LoginTail, Tails, Backend

\* What is left of them while they are passed on one by one.
LEMMA RestFacts ==
  /\ <<>> \o LoginTail = LoginTail
  /\ \A s \in {LoginTail, Tail(LoginTail), Tail(Tail(LoginTail))} :
       s # <<>> /\ Head(s) \in Tails /\ s \in Seq(Tails)
  /\ Tail(Tail(Tail(LoginTail))) = <<>>
BY DEF LoginTail, Tails

\* What a server that accepts the login sends at once: perhaps the end of the
\* SASL exchange, AuthenticationOk, and the rest.
LEMMA GrantedFacts ==
  /\ \A s \in Granted : s \in Seq(Backend) /\ s # <<>> /\ Head(s) \in {"ok", "final", "mismatch"}
  /\ \A s \in Granted : Head(s) = "ok" => Tail(s) = LoginTail
  /\ \A s \in Granted : Head(s) # "ok" => Tail(s) \in Granted
<1>1. <<"ok">> \o LoginTail \in Seq(Backend) /\ <<"ok">> \o LoginTail # <<>> /\ Head(<<"ok">> \o LoginTail) = "ok"
       /\ Tail(<<"ok">> \o LoginTail) = LoginTail
  <2>1. "ok" \in Backend
    BY DEF Backend
  <2> QED
    BY TailFacts, Prefixed, <2>1
<1>2. \A m \in {"final", "mismatch"} : LET s == <<m>> \o (<<"ok">> \o LoginTail) IN
         s \in Seq(Backend) /\ s # <<>> /\ Head(s) = m /\ Tail(s) = <<"ok">> \o LoginTail
  <2>1. {"final", "mismatch"} \subseteq Backend
    BY DEF Backend
  <2> QED
    BY <1>1, Prefixed, <2>1
<1> QED
  BY <1>1, <1>2, Zenon DEF Granted

\* A read of bufio cuts the stream in two.
LEMMA Cut ==
  ASSUME NEW S, NEW s \in Seq(S), NEW k \in 1..Len(s)
  PROVE  /\ SubSeq(s, 1, k) \o SubSeq(s, k + 1, Len(s)) = s
         /\ SubSeq(s, 1, k) \in Seq(S) /\ SubSeq(s, k + 1, Len(s)) \in Seq(S)
OBVIOUS

\* The relay moves a message from the front of one stream to the end of another.
LEMMA Shift ==
  ASSUME NEW S, NEW s \in Seq(S), NEW t \in Seq(S), t # <<>>
  PROVE  Append(s, Head(t)) \o Tail(t) = s \o t
OBVIOUS

-----------------------------------------------------------------------------
(* The Postgres engine: the type invariant in three parts, and the server's *)
(* stream, which bufio's reads cut anywhere without changing it             *)

QueuesOK ==
  /\ asks \in Seq(Frames \cup {"startup", "cancel"})
  /\ fromClient \in Seq(Frames \cup {"startup", "cancel", "token", "password"})
  /\ toServer \in Seq({"startup", "cancel", "password", "own_startup"})
  /\ net \in Seq(Backend) /\ ur \in Seq(Backend) /\ got \in Seq(Tails)
FlagsOK ==
  /\ inject \in BOOLEAN /\ mode \in UpstreamModes /\ srvSSL \in BOOLEAN
  /\ method \in Methods /\ clientTLS \in BOOLEAN
  /\ upTLS \in BOOLEAN /\ accepted \in BOOLEAN
PhasesOK ==
  /\ pc \in {"dial", "nego", "startup", "token", "resolve", "login", "auth",
             "scram", "signature", "welcome", "relay", "closed"}
  /\ cli \in {"next", "reply", "asked", "login", "cancel", "in", "out"}
  /\ told \in {"nothing", "ok", "denied"}
  /\ srv \in {"new", "auth", "sasl", "proof", "in", "out"}

\* The type invariant is its three parts.
LEMMA TypeParts == TypeOK <=> QueuesOK /\ FlagsOK /\ PhasesOK
BY Zenon DEF TypeOK, QueuesOK, FlagsOK, PhasesOK

\* The configuration and the Boolean state keep their types.
LEMMA FlagsStep ==
  ASSUME IInv, Next
  PROVE  FlagsOK'
<1>0. FlagsOK
  BY TypeParts, Zenon DEF IInv
<1> USE <1>0 DEF FlagsOK, config, serverVars
<1>1. CASE Agent
  BY <1>1, Zenon DEF Agent, Dial, Negotiate, ReadStartup, ReadToken, Resolve, Login, Fill,
    Authenticate, ScramExchange, AuthFails, Welcome, RelayUp, RelayDown, Close
<1>2. CASE Client \/ ClientLeaves \/ ServerLeaves
  BY <1>2, Zenon DEF Client, ClientNext, ClientAnswers, ClientLeaves, ServerLeaves
<1>3. CASE ServerReads
  BY <1>3, Zenon DEF ServerReads, Accepts
<1> QED
  BY <1>1, <1>2, <1>3, Zenon DEF Next

\* The agent, the client and the server stay in phases they know.
LEMMA PhasesStep ==
  ASSUME IInv, Next
  PROVE  PhasesOK'
<1>0. PhasesOK
  BY TypeParts, Zenon DEF IInv
<1> USE <1>0 DEF PhasesOK, serverVars
<1>1. CASE Agent
  BY <1>1, SMT DEF Agent, Dial, Negotiate, ReadStartup, ReadToken, Resolve, Login, Fill, Deny, Answer,
    Authenticate, ScramExchange, AuthFails, Welcome, RelayUp, RelayDown, Close
<1>2. CASE Client \/ ClientLeaves \/ ServerLeaves
  BY <1>2, SMT DEF Client, ClientNext, ClientAnswers, ClientLeaves, ServerLeaves
<1>3. CASE ServerReads
  BY <1>3, SMT DEF ServerReads, Accepts, Sends
<1> QED
  BY <1>1, <1>2, <1>3, Zenon DEF Next

\* The agent takes the messages of the server one by one, in their order.
LEMMA PendingTaken ==
  ASSUME IInv, Authenticate \/ ScramExchange \/ RelayDown
  PROVE  Pending # <<>> /\ Head(ur) = Head(Pending) /\ Pending' = Tail(Pending) /\ Head(ur) \in Backend
<1>1. ur \in Seq(Backend) /\ net \in Seq(Backend)
  BY TypeParts, Zenon DEF IInv, QueuesOK
<1>2. ur # <<>>
  BY Zenon DEF Authenticate, ScramExchange, RelayDown
<1>4. ur' = Tail(ur) /\ net' = net
  BY Zenon DEF Authenticate, ScramExchange, RelayDown
<1>3. /\ ur \o net # <<>> /\ Head(ur) = Head(ur \o net) /\ Tail(ur) \o net = Tail(ur \o net)
      /\ Head(ur) \in Backend
  BY <1>1, <1>2, SMT
<1> QED
  BY <1>3, <1>4, Zenon DEF Pending

\* What bufio has read are messages of the server.
LEMMA Filled ==
  ASSUME IInv, Fill
  PROVE  ur' \in Seq(Backend) /\ net' \in Seq(Backend)
<1>1. net \in Seq(Backend)
  BY TypeParts, Zenon DEF IInv, QueuesOK
<1> QED
  BY <1>1, Cut DEF Fill

\* A read of bufio leaves the stream as it was, wherever it cuts it.
LEMMA PendingFilled ==
  ASSUME IInv, Fill
  PROVE  Pending' = Pending
<1>1. ur \in Seq(Backend) /\ net \in Seq(Backend) /\ ur = <<>>
  BY TypeParts, Zenon DEF IInv, QueuesOK, Fill
<1>2. PICK k \in 1..Len(net) : ur' = SubSeq(net, 1, k) /\ net' = SubSeq(net, k + 1, Len(net))
  BY Zenon DEF Fill
<1>3. ur' \o net' = net /\ ur' \in Seq(Backend) /\ net' \in Seq(Backend)
  BY <1>1, <1>2, Cut
<1> QED
  BY <1>1, <1>3, SMT DEF Pending

\* A server answers when all it sent has been read, and accepts once.
LEMMA PendingSent ==
  ASSUME IInv, ServerReads
  PROVE  /\ Pending = <<>> /\ ~accepted /\ ur = <<>> /\ net = <<>>
         /\ Pending' \in Seq(Backend) /\ net' = Pending'
         /\ accepted' => Pending' \in Granted /\ srv' = "in"
         /\ ~accepted' => Pending' \in Asked \cup {<<>>, One("err")}
<1>1. ur \in Seq(Backend) /\ net \in Seq(Backend) /\ Pending = <<>> /\ ~accepted
  BY TypeParts, Zenon DEF IInv, QueuesOK, StreamInv, ServerReads
<1>2. ur = <<>> /\ net = <<>>
  BY <1>1 DEF Pending
<1>3. \A ms \in Seq(Backend) : net \o ms = ms /\ ur \o ms = ms
  BY <1>2
<1>4. <<>> \in Seq(Backend) /\ \A m \in Backend : <<m>> \in Seq(Backend)
  OBVIOUS
<1>5. \A m \in {"final", "mismatch"} : <<m>> \o <<"ok">> \o LoginTail = <<m>> \o (<<"ok">> \o LoginTail)
  BY TailFacts
<1>6. <<>> \o <<"ok">> \o LoginTail = <<"ok">> \o LoginTail
  BY TailFacts
<1>7. ASSUME NEW b, Accepts(b), b \in {<<>>, <<"final">>, <<"mismatch">>}
      PROVE  Pending' \in Granted /\ net' = Pending' /\ srv' = "in" /\ accepted'
  <2>1. b \o <<"ok">> \o LoginTail \in Granted
    BY <1>5, <1>6, <1>7, Zenon DEF Granted
  <2>2. net' = b \o <<"ok">> \o LoginTail /\ ur' = ur
    BY <1>3, <1>7, <2>1, GrantedFacts, Zenon DEF Accepts, Sends, ServerReads
  <2> QED
    BY <1>3, <1>7, <2>1, <2>2, GrantedFacts, Zenon DEF Accepts, Sends, Pending
<1>8. ASSUME NEW m \in {"ask", "sasl", "continue", "err"}, NEW phase, Sends(<<m>>, phase), UNCHANGED accepted
      PROVE  Pending' \in Asked \cup {<<>>, One("err")} /\ net' = Pending' /\ Pending' \in Seq(Backend) /\ ~accepted'
  <2>1. <<m>> \in Seq(Backend) /\ ur' = ur
    BY <1>4, <1>8, Zenon DEF Backend, ServerReads
  <2> QED
    BY <1>1, <1>3, <1>8, <2>1, Zenon DEF Sends, Pending, Asked, One
<1>9. ASSUME NEW phase, Sends(<<>>, phase), UNCHANGED accepted
      PROVE  Pending' = <<>> /\ net' = Pending' /\ Pending' \in Seq(Backend) /\ ~accepted'
  <2>1. ur' = ur
    BY Zenon DEF ServerReads
  <2> QED
    BY <1>1, <1>3, <1>4, <1>9, <2>1, Zenon DEF Sends, Pending
<1> QED
  BY <1>1, <1>2, <1>7, <1>8, <1>9, GrantedFacts, Zenon DEF ServerReads

\* The queues hold messages their writers send.
LEMMA QueuesStep ==
  ASSUME IInv, Next
  PROVE  QueuesOK'
<1>0. QueuesOK
  BY TypeParts, Zenon DEF IInv
<1> USE <1>0 DEF QueuesOK
<1>1. CASE Dial \/ Negotiate \/ ReadStartup \/ ReadToken \/ Resolve \/ AuthFails \/ Welcome \/ Close
  <2>1. /\ UNCHANGED <<asks, toServer, net, ur, got>>
        /\ fromClient' = fromClient \/ (fromClient # <<>> /\ fromClient' = Tail(fromClient))
    BY <1>1, Zenon DEF Dial, Negotiate, ReadStartup, ReadToken, Resolve, AuthFails, Welcome, Close, Deny, Reads
  <2> QED
    BY <2>1, SeqFacts, Zenon
<1>2. CASE Login
  BY <1>2, SMT DEF Login
<1>3. CASE Fill
  BY <1>3, Filled, Zenon DEF Fill
<1>4. CASE Authenticate \/ ScramExchange
  <2>1. /\ UNCHANGED <<asks, fromClient, net, got>> /\ ur # <<>> /\ ur' = Tail(ur)
        /\ toServer' = toServer \/ toServer' = Append(toServer, "password")
    BY <1>4, Zenon DEF Authenticate, ScramExchange, Answer, Deny
  <2> QED
    BY <2>1, SeqFacts, Zenon
<1>5. CASE RelayUp
  <2>1. Head(fromClient) \in {"startup", "cancel", "password", "own_startup"}
    BY <1>5, OneFacts, Zenon DEF RelayUp, IInv, AgentInv
  <2> QED
    BY <1>5, <2>1, SMT DEF RelayUp
<1>6. CASE RelayDown
  BY <1>6, SMT DEF RelayDown
<1>7. CASE ClientNext
  <2>1. asks # <<>>
    BY <1>7, Zenon DEF ClientNext, IInv, ClientInv
  <2> QED
    BY <1>7, <2>1, SMT DEF ClientNext
<1>8. CASE ClientAnswers \/ ClientLeaves \/ ServerLeaves
  <2>1. /\ UNCHANGED <<asks, toServer, net, ur, got>>
        /\ fromClient' = fromClient \/ \E m \in {"token", "password"} : fromClient' = Append(fromClient, m)
    BY <1>8, Zenon DEF ClientAnswers, Secret, ClientLeaves, ServerLeaves
  <2> QED
    BY <2>1, SeqFacts, Zenon
<1>9. CASE ServerReads
  <2>1. net' \in Seq(Backend)
    BY <1>9, PendingSent, Zenon
  <2> QED
    BY <1>9, <2>1, SMT DEF ServerReads
<1> QED
  BY <1>1, <1>2, <1>3, <1>4, <1>5, <1>6, <1>7, <1>8, <1>9, Zenon DEF Next, Agent, Client

\* The stream of the server is changed by who reads or writes it.
LEMMA StreamKept ==
  ASSUME UNCHANGED <<net, ur, got>>
  PROVE  Pending' = Pending /\ got' = got /\ (HandedOver' <=> HandedOver)
BY Zenon DEF Pending, HandedOver

\* The server takes turns until it accepts; from then on what it has sent and
\* what the client has had of it make up the login's messages, in order.
LEMMA StreamStep ==
  ASSUME IInv, Next
  PROVE  StreamInv'
<1>0. StreamInv /\ AgentInv
  BY Zenon DEF IInv
<1>1. CASE Dial \/ Negotiate \/ ReadStartup \/ ReadToken \/ Resolve \/ AuthFails \/ Close
  <2>1. UNCHANGED <<net, ur, got, toServer, accepted, srv>>
    BY <1>1, Zenon DEF Dial, Negotiate, ReadStartup, ReadToken, Resolve, AuthFails, Close, Deny, serverVars
  <2>2. told' \in {told, "denied"}
    BY <1>1, Zenon DEF Dial, Negotiate, ReadStartup, ReadToken, Resolve, AuthFails, Close, Deny
  <2>3. pc' # "welcome" /\ (pc' = "closed" \/ pc \in {"dial", "nego", "startup", "token", "resolve"})
    BY <1>1, Zenon DEF Dial, Negotiate, ReadStartup, ReadToken, Reads, Resolve, AuthFails, Close, Deny
  <2>4. Pending' = Pending /\ got' = got /\ (HandedOver' <=> HandedOver)
    BY <2>1, StreamKept, Zenon
  <2> QED
    BY <1>0, <2>1, <2>2, <2>3, <2>4, Zenon DEF StreamInv, AgentInv
<1>2. CASE Login \/ RelayUp
  <2>1. UNCHANGED <<net, ur, got>>
    BY <1>2, Zenon DEF Login, RelayUp
  <2>2. Pending' = Pending /\ got' = got /\ (HandedOver' <=> HandedOver)
    BY <2>1, StreamKept, Zenon
  <2>3. CASE Login
    BY <1>0, <2>3, <2>2, Zenon DEF StreamInv, AgentInv, Login, serverVars
  <2>4. CASE RelayUp
    <3>1. UNCHANGED <<pc, told, accepted, srv>> /\ pc = "relay" /\ fromClient # <<>>
      BY <2>4, Zenon DEF RelayUp, serverVars
    <3>2. Pending = <<>> /\ ~accepted
      BY <1>0, <3>1, Zenon DEF AgentInv
    <3> QED
      BY <1>0, <2>2, <3>1, <3>2, Zenon DEF StreamInv
  <2> QED
    BY <1>2, <2>3, <2>4, Zenon
<1>3. CASE Welcome
  <2>1. UNCHANGED <<net, ur, got, toServer, accepted, srv>> /\ pc = "welcome"
    BY <1>3, Zenon DEF Welcome, serverVars
  <2>2. pc' # "welcome" /\ told' \in {told, "ok"} /\ (pc' = "closed" \/ told' = "ok")
    BY <1>3, SMT DEF Welcome
  <2>3. Pending' = Pending /\ got' = got /\ (HandedOver' <=> HandedOver)
    BY <2>1, StreamKept, Zenon
  <2>4. HandedOver
    BY <1>0, <2>1, RestFacts, Zenon DEF StreamInv, HandedOver
  <2> QED
    BY <1>0, <2>1, <2>2, <2>3, <2>4, Zenon DEF StreamInv
<1>4. CASE Fill
  <2>1. Pending' = Pending /\ got' = got
    BY <1>4, PendingFilled, Zenon DEF Fill
  <2>2. HandedOver' <=> HandedOver
    BY <2>1, Zenon DEF HandedOver
  <2> QED
    BY <1>0, <1>4, <2>1, <2>2, Zenon DEF Fill, StreamInv, serverVars
<1>5. CASE Authenticate \/ ScramExchange
  <2>1. Pending # <<>> /\ Pending' = Tail(Pending) /\ Head(ur) = Head(Pending)
    BY <1>5, PendingTaken, Zenon
  <2>2. UNCHANGED <<accepted, srv, got>> /\ pc \in {"auth", "scram", "signature"} /\ (told' = told \/ told' = "denied")
        /\ \/ pc' = "closed" /\ toServer' = toServer
           \/ pc' = "welcome" /\ Head(ur) = "ok" /\ toServer' = toServer
           \/ pc' = "auth" /\ Head(ur) = "final" /\ toServer' = toServer
           \/ pc' \in {"auth", "scram", "signature"} /\ Head(ur) \in {"ask", "sasl", "continue"}
    BY <1>5, Zenon DEF Authenticate, ScramExchange, Answer, Deny, serverVars
  <2>3. told = "nothing"
    BY <1>0, <2>2, Zenon DEF AgentInv
  <2>4. CASE accepted
    <3>1. Pending \in Granted /\ Head(Pending) \in {"ok", "final", "mismatch"} /\ toServer = <<>>
      BY <1>0, <2>1, <2>2, <2>3, <2>4, GrantedFacts, Zenon DEF StreamInv
    <3>2. (Head(Pending) = "ok" => Pending' = LoginTail) /\ (Head(Pending) # "ok" => Pending' \in Granted)
      BY <2>1, <3>1, GrantedFacts, Zenon
    <3> QED
      BY <1>0, <2>1, <2>2, <2>3, <2>4, <3>1, <3>2, SMT DEF StreamInv
  <2>5. CASE ~accepted
    <3>1. Pending \in Asked \cup {One("err")} /\ toServer = <<>>
      BY <1>0, <2>1, <2>5, Zenon DEF StreamInv
    <3>2. Pending' = <<>> /\ Head(Pending) \in {"ask", "sasl", "continue", "err"}
      BY <2>1, <3>1, OneFacts, Zenon DEF Asked
    <3> QED
      BY <1>0, <2>1, <2>2, <2>3, <2>5, <3>2, SMT DEF StreamInv
  <2> QED
    BY <2>4, <2>5, Zenon

<1>6. CASE RelayDown
  <2>1. Pending # <<>> /\ Pending' = Tail(Pending) /\ Head(ur) = Head(Pending)
    BY <1>6, PendingTaken, Zenon
  <2>2. /\ UNCHANGED <<accepted, srv, toServer, pc>> /\ pc = "relay"
        /\ got' = (IF Head(ur) \in Tails THEN Append(got, Head(ur)) ELSE got)
        /\ told' = IF Head(ur) = "ok" THEN "ok" ELSE IF Head(ur) = "err" THEN "denied" ELSE told
    BY <1>6, Zenon DEF RelayDown, serverVars
  <2>3. CASE told = "ok"
    <3>1. accepted /\ toServer = <<>> /\ HandedOver
      BY <1>0, <2>1, <2>3, Zenon DEF StreamInv
    <3>2. Pending \in {LoginTail, Tail(LoginTail), Tail(Tail(LoginTail))}
      BY <2>1, <3>1, Zenon DEF HandedOver
    <3>3. /\ Head(Pending) \in Tails /\ Pending \in Seq(Tails)
          /\ Pending' \in {LoginTail, Tail(LoginTail), Tail(Tail(LoginTail)), <<>>}
      BY <2>1, <3>2, RestFacts, Zenon
    <3>4. got \in Seq(Tails)
      BY TypeParts, Zenon DEF IInv, QueuesOK
    <3>5. got' = Append(got, Head(Pending)) /\ told' = "ok"
      BY <2>1, <2>2, <2>3, <3>3, Zenon DEF Tails
    <3>6. Append(got, Head(Pending)) \o Tail(Pending) = got \o Pending
      BY <2>1, <3>3, <3>4, Shift, Zenon
    <3>7. HandedOver'
      BY <2>1, <3>1, <3>3, <3>5, <3>6, Zenon DEF HandedOver
    <3> QED
      BY <1>0, <2>2, <3>1, <3>5, <3>7, Zenon DEF StreamInv
  <2>4. CASE accepted /\ told # "ok"
    <3>1. Pending \in Granted /\ Head(Pending) \in {"ok", "final", "mismatch"} /\ got = <<>> /\ toServer = <<>>
      BY <1>0, <2>1, <2>2, <2>4, GrantedFacts, Zenon DEF StreamInv
    <3>2. /\ Head(Pending) = "ok" => Pending' = LoginTail /\ told' = "ok"
          /\ Head(Pending) # "ok" => Pending' \in Granted /\ told' = told
          /\ got' = got
      BY <2>1, <2>2, <3>1, GrantedFacts, Zenon DEF Tails
    <3>3. Head(Pending) = "ok" => HandedOver'
      BY <3>1, <3>2, RestFacts, Zenon DEF HandedOver
    <3> QED
      BY <1>0, <2>2, <2>4, <3>1, <3>2, <3>3, Zenon DEF StreamInv
  <2>5. CASE ~accepted
    <3>1. Pending \in Asked \cup {One("err")} /\ toServer = <<>>
      BY <1>0, <2>1, <2>5, Zenon DEF StreamInv
    <3>2. Pending' = <<>> /\ Head(Pending) \in {"ask", "sasl", "continue", "err"}
      BY <2>1, <3>1, OneFacts, Zenon DEF Asked
    <3>3. got' = got /\ told' \in {told, "denied"}
      BY <2>1, <2>2, <3>2, Zenon DEF Tails
    <3> QED
      BY <1>0, <2>2, <2>5, <3>2, <3>3, Zenon DEF StreamInv
  <2> QED
    BY <2>3, <2>4, <2>5, Zenon
<1>7. CASE ClientNext \/ ClientAnswers \/ ClientLeaves \/ ServerLeaves
  <2>1. UNCHANGED <<net, ur, got, toServer, accepted, pc, told>> /\ srv' \in {srv, "out"}
    BY <1>7, Zenon DEF ClientNext, ClientAnswers, ClientLeaves, ServerLeaves, serverVars
  <2>2. Pending' = Pending /\ got' = got /\ (HandedOver' <=> HandedOver)
    BY <2>1, StreamKept, Zenon
  <2> QED
    BY <1>0, <2>1, <2>2, Zenon DEF StreamInv
<1>8. CASE ServerReads
  <2>1. /\ Pending = <<>> /\ ~accepted
        /\ accepted' => Pending' \in Granted /\ srv' = "in"
        /\ ~accepted' => Pending' \in Asked \cup {<<>>, One("err")}
    BY <1>8, PendingSent, Zenon
  <2>2. UNCHANGED <<pc, got, told>> /\ toServer' = <<>>
    BY <1>8, <1>0, OneFacts, Zenon DEF ServerReads, AgentInv
  <2> QED
    BY <1>0, <2>1, <2>2, Zenon DEF StreamInv
<1> QED
  BY <1>1, <1>2, <1>3, <1>4, <1>5, <1>6, <1>7, <1>8, Zenon DEF Next, Agent, Client

\* What the negotiation leaves to the engine is the client's first frame.
LEMMA AtStartup ==
  ASSUME IInv, Reads("nego", {"startup", "cancel"})
  PROVE  \/ fromClient = One("startup") /\ cli \in {"login", "out"}
         \/ fromClient = One("cancel") /\ cli \in {"cancel", "out"}
<1>1. pc = "nego" /\ fromClient # <<>> /\ Head(fromClient) \in {"startup", "cancel"}
  BY Zenon DEF Reads
<1>2. cli \in {"reply", "login", "cancel", "out"}
  BY <1>1, TypeParts, Zenon DEF IInv, ClientInv, PhasesOK
<1>3. fromClient \in {One("ssl"), One("gss"), One("startup"), One("cancel")}
  BY <1>1, <1>2, Zenon DEF IInv, ClientInv
<1>4. fromClient \in {One("startup"), One("cancel")}
  BY <1>1, <1>3, OneFacts, Zenon
<1>5. cli # "reply"
  BY <1>1, OneFacts, Zenon DEF IInv, ClientInv
<1>6. (cli = "login" => fromClient = One("startup")) /\ (cli = "cancel" => fromClient = One("cancel"))
  BY <1>1, Zenon DEF IInv, ClientInv
<1> QED
  BY <1>2, <1>4, <1>5, <1>6, Zenon

\* What the client has sent and is to send fits where the agent is.
LEMMA ClientStep ==
  ASSUME IInv, Next
  PROVE  ClientInv'
<1>0. ClientInv /\ PhasesOK
  BY TypeParts, Zenon DEF IInv
<1> USE <1>0 DEF ClientInv
<1>1. CASE Dial \/ Resolve \/ Login \/ Fill \/ AuthFails \/ Welcome \/ Close
  BY <1>1, SMT DEF Dial, Resolve, Login, Fill, AuthFails, Welcome, Close, Deny
<1>2. CASE Negotiate
  <2>1. CASE Reads("nego", Frames) /\ fromClient' = Tail(fromClient)
    <3>1. fromClient \in {One("ssl"), One("gss")} /\ cli \in {"reply", "out"}
      BY <2>1, OneFacts, ZenonT(30) DEF Reads, Frames, PhasesOK
    <3>2. fromClient' = <<>>
      BY <2>1, <3>1, OneFacts, Zenon
    <3> QED
      BY <1>2, <2>1, <3>1, <3>2, SMT DEF Negotiate, Reads
  <2>2. CASE Reads("nego", {"startup", "cancel"}) /\ UNCHANGED <<cli, fromClient>> /\ pc' \in {"startup", "relay"}
    <3>1. \/ fromClient = One("startup") /\ cli \in {"login", "out"}
          \/ fromClient = One("cancel") /\ cli \in {"cancel", "out"}
      BY <2>2, AtStartup, Zenon
    <3> QED
      BY <1>2, <2>2, <3>1, SMT DEF Negotiate
  <2> QED
    BY <1>2, <2>1, <2>2, Zenon DEF Negotiate
<1>3. CASE ReadStartup
  <2>1. CASE pc' = "token" /\ cli' = (IF cli = "login" THEN "asked" ELSE cli) /\ Reads("startup", {"startup"})
    <3>1. fromClient = One("startup") /\ cli \in {"login", "out"}
      BY <2>1, OneFacts, Zenon DEF Reads
    <3>2. fromClient' = <<>>
      BY <1>3, <3>1, OneFacts, Zenon DEF ReadStartup
    <3>3. cli' \in {"asked", "out"}
      BY <2>1, <3>1, Zenon
    <3> QED
      BY <1>3, <2>1, <3>2, <3>3, Zenon DEF ReadStartup
  <2>2. CASE pc' = "closed" /\ UNCHANGED cli
    BY <1>3, <2>2, Zenon DEF ReadStartup
  <2> QED
    BY <1>3, <2>1, <2>2, Zenon DEF ReadStartup
<1>4. CASE ReadToken
  <2>1. fromClient = One("token") /\ cli \in {"login", "out"}
    BY <1>4, OneFacts, Zenon DEF ReadToken, Reads
  <2>2. fromClient' = <<>>
    BY <1>4, <2>1, OneFacts, Zenon DEF ReadToken
  <2> QED
    BY <1>4, <2>1, <2>2, Zenon DEF ReadToken
<1>5. CASE Authenticate \/ ScramExchange
  <2>1. UNCHANGED <<asks, cli, fromClient>> /\ pc' \in {"auth", "scram", "signature", "welcome", "closed"} /\ pc \in {"auth", "scram", "signature"}
    BY <1>5, Zenon DEF Authenticate, ScramExchange, Answer, Deny
  <2> QED
    BY <2>1, Zenon
<1>6. CASE RelayUp \/ RelayDown
  <2>1. UNCHANGED <<asks, pc>> /\ pc = "relay" /\ cli' \in {cli, "in", "asked"}
    BY <1>6, Zenon DEF RelayUp, RelayDown
  <2> QED
    BY <2>1, Zenon
<1>7. CASE ClientNext
  <2>1. cli = "next" /\ asks \in Openings /\ asks # <<>> /\ UNCHANGED pc
    BY <1>7, Zenon DEF ClientNext
  <2>2. asks' \in Openings /\ (Head(asks) \in Frames => asks' # <<>>) /\ Head(asks) \in {"ssl", "gss", "startup", "cancel"}
    BY <1>7, <2>1, OpeningFacts, Zenon DEF ClientNext, Frames
  <2>3. pc \in {"dial", "nego"} => fromClient' = One(Head(asks))
    BY <1>7, <2>1, OneFacts, Zenon DEF ClientNext
  <2>4. /\ cli' = "reply" => Head(asks) \in Frames
        /\ cli' = "login" => Head(asks) = "startup"
        /\ cli' = "cancel" => Head(asks) = "cancel"
        /\ cli' \in {"reply", "login", "cancel"}
    BY <1>7, <2>2, Zenon DEF ClientNext, Frames
  <2>5. pc \in {"dial", "nego", "relay", "closed"}
    BY <2>1, Zenon DEF PhasesOK
  <2> QED
    BY <2>1, <2>2, <2>3, <2>4, <2>5, Zenon DEF Frames
<1>8. CASE ClientAnswers
  <2>1. cli = "asked" /\ UNCHANGED <<pc, asks>> /\ cli' = "login" /\ fromClient' = Append(fromClient, Secret)
    BY <1>8, Zenon DEF ClientAnswers
  <2>2. pc \in {"token", "relay", "closed"}
    BY <2>1, Zenon DEF PhasesOK
  <2>3. pc = "token" => fromClient' = One("token")
    BY <2>1, OneFacts, Zenon DEF IInv, AgentInv, Secret
  <2> QED
    BY <2>1, <2>2, <2>3, Zenon
<1>9. CASE ClientLeaves
  BY <1>9, Zenon DEF ClientLeaves, PhasesOK
<1>10. CASE ServerReads \/ ServerLeaves
  BY <1>10, Zenon DEF ServerReads, ServerLeaves
<1> QED
  BY <1>1, <1>2, <1>3, <1>4, <1>5, <1>6, <1>7, <1>8, <1>9, <1>10, Zenon DEF Next, Agent, Client

\* With injection no message of the client is among those the server gets.
LEMMA AgentStep ==
  ASSUME IInv, Next
  PROVE  AgentInv'
<1>0. AgentInv /\ ClientInv /\ StreamInv
  BY Zenon DEF IInv
<1> USE <1>0 DEF AgentInv
<1>1. CASE Dial \/ Resolve \/ AuthFails \/ Close
  BY <1>1, SMT DEF Dial, Resolve, AuthFails, Close, Deny, Pending, config, serverVars
<1>2. CASE Negotiate
  <2>1. UNCHANGED <<inject, told, toServer, accepted, ur, net>> /\ pc = "nego" /\ pc' \in {"nego", "closed", IF inject THEN "startup" ELSE "relay"}
    BY <1>2, Zenon DEF Negotiate, Reads, config, serverVars
  <2>2. Pending' = Pending
    BY <2>1, Zenon DEF Pending
  <2>3. pc' \in {"startup", "relay"} =>
          /\ fromClient' \in {One("startup"), One("cancel")} /\ cli' \in {"login", "cancel", "out"}
    <3>1. pc' \in {"startup", "relay"} => UNCHANGED <<cli, fromClient>> /\ Reads("nego", {"startup", "cancel"})
      BY <1>2, Zenon DEF Negotiate
    <3> QED
      BY <3>1, AtStartup, Zenon
  <2> QED
    BY <2>1, <2>2, <2>3, Zenon
<1>3. CASE ReadStartup \/ ReadToken
  <2>1. UNCHANGED <<inject, told, toServer, accepted, ur, net>> /\ pc \in {"startup", "token"} /\ pc' \in {"token", "resolve", "closed"}
    BY <1>3, Zenon DEF ReadStartup, ReadToken, Reads, config, serverVars
  <2>2. Pending' = Pending
    BY <2>1, Zenon DEF Pending
  <2> QED
    BY <2>1, <2>2, Zenon
<1>4. CASE Login
  <2>1. /\ UNCHANGED <<inject, told, accepted, fromClient, cli>> /\ pc = "login" /\ pc' = "auth"
        /\ toServer = <<>> /\ toServer' = Append(toServer, "own_startup")
    BY <1>4, Zenon DEF Login, config, serverVars
  <2> QED
    BY <2>1, OneFacts, Zenon
<1>5. CASE Welcome
  <2>1. UNCHANGED <<inject, toServer, accepted, fromClient>> /\ pc = "welcome" /\ fromClient = <<>>
    BY <1>5, Zenon DEF Welcome, config, serverVars, ClientInv
  <2>2. pc' = "closed" \/ (pc' = "relay" /\ told' = "ok" /\ cli' = "in")
    BY <1>5, SMT DEF Welcome
  <2> QED
    BY <2>1, <2>2, Zenon
<1>6. CASE Fill
  <2>1. Pending' = Pending
    BY <1>6, PendingFilled, Zenon
  <2> QED
    BY <1>6, <2>1, Zenon DEF Fill, config, serverVars
<1>7. CASE Authenticate \/ ScramExchange
  <2>1. toServer = <<>>
    BY <1>7, PendingTaken, Zenon DEF StreamInv
  <2>2. /\ UNCHANGED <<inject, accepted, fromClient, cli>> /\ pc \in {"auth", "scram", "signature"}
        /\ \/ pc' = "closed" /\ toServer' = toServer
           \/ pc' \in {"auth", "scram", "signature", "welcome"} /\ told' = told
              /\ (toServer' = toServer \/ toServer' = Append(toServer, "password"))
    BY <1>7, Zenon DEF Authenticate, ScramExchange, Answer, Deny, config, serverVars
  <2> QED
    BY <2>1, <2>2, OneFacts, Zenon
<1>8. CASE RelayUp
  <2>1. /\ UNCHANGED <<inject, pc, told, accepted, cli, ur, net>> /\ pc = "relay" /\ fromClient # <<>>
        /\ toServer' = Append(toServer, Head(fromClient)) /\ fromClient' = Tail(fromClient)
    BY <1>8, Zenon DEF RelayUp, config, serverVars
  <2>2. ~inject /\ toServer = <<>> /\ cli # "asked" /\ fromClient \in {One("startup"), One("cancel"), One("password")}
    BY <2>1, Zenon
  <2>3. fromClient' = <<>> /\ toServer' \in {One("startup"), One("cancel"), One("password")}
    BY <2>1, <2>2, OneFacts, Zenon
  <2> QED
    BY <2>1, <2>2, <2>3, Zenon
<1>9. CASE RelayDown
  <2>1. Pending # <<>> /\ Pending' = Tail(Pending) /\ Head(ur) = Head(Pending)
    BY <1>9, PendingTaken, Zenon
  <2>2. UNCHANGED <<inject, pc, accepted, fromClient, toServer>> /\ pc = "relay" /\ fromClient = <<>> /\ cli # "asked"
    BY <1>9, <2>1, Zenon DEF RelayDown, config, serverVars
  <2>3. cli' \in {"asked", "in", cli}
    BY <1>9, <2>1, Zenon DEF RelayDown
  <2>4. toServer = <<>>
    BY <2>1, Zenon DEF StreamInv
  <2>5. CASE accepted
    <3>1. Head(Pending) \in Tails \cup {"ok", "final", "mismatch"}
      <4>1. told = "ok" => Pending \in {LoginTail, Tail(LoginTail), Tail(Tail(LoginTail))}
        BY <2>1, Zenon DEF StreamInv, HandedOver
      <4>2. told # "ok" => Pending \in Granted
        BY <2>2, <2>5, Zenon DEF StreamInv
      <4> QED
        BY <4>1, <4>2, RestFacts, GrantedFacts, Zenon
    <3>2. Head(Pending) \notin {"ask", "sasl", "continue", "err"}
      BY <3>1, Zenon DEF Tails
    <3>3. told' \in {told, "ok"} /\ cli' \in {cli, "in"}
      BY <1>9, <2>1, <3>2, Zenon DEF RelayDown
    <3> QED
      BY <2>2, <2>4, <2>5, <3>3, Zenon
  <2>6. CASE ~accepted
    <3>1. ~inject
      BY <2>2, <2>6, Zenon DEF StreamInv
    <3>2. Pending \in Asked \cup {One("err")}
      BY <2>1, <2>6, Zenon DEF StreamInv
    <3>3. Pending' = <<>>
      BY <2>1, <3>2, OneFacts, Zenon DEF Asked
    <3> QED
      BY <2>2, <2>3, <2>4, <2>6, <3>1, <3>3, Zenon
  <2> QED
    BY <2>5, <2>6, Zenon
<1>10. CASE ClientNext \/ ClientLeaves
  <2>1. /\ UNCHANGED <<inject, pc, told, accepted, toServer, ur, net>> /\ cli' \notin {"next", "asked"}
        /\ cli = "next" \/ (fromClient' = fromClient /\ cli' = "out")
    BY <1>10, Zenon DEF ClientNext, ClientLeaves, config, serverVars
  <2>2. Pending' = Pending
    BY <2>1, Zenon DEF Pending
  <2> QED
    BY <2>1, <2>2, Zenon
<1>11. CASE ClientAnswers
  <2>1. /\ UNCHANGED <<inject, pc, told, accepted, toServer, ur, net>> /\ cli = "asked" /\ cli' = "login"
        /\ fromClient' = Append(fromClient, Secret)
    BY <1>11, Zenon DEF ClientAnswers, config, serverVars
  <2>2. Pending' = Pending
    BY <2>1, Zenon DEF Pending
  <2>3. pc = "relay" => ~inject /\ fromClient' = One("password")
    BY <2>1, OneFacts, Zenon DEF Secret
  <2> QED
    BY <2>1, <2>2, <2>3, Zenon
<1>12. CASE ServerReads
  <2>1. UNCHANGED <<inject, pc, told, cli, fromClient>> /\ toServer # <<>> /\ toServer' = Tail(toServer)
    BY <1>12, Zenon DEF ServerReads, config
  <2>2. toServer' = <<>>
    BY <2>1, OneFacts, Zenon
  <2> QED
    BY <2>1, <2>2, Zenon
<1>13. CASE ServerLeaves
  BY <1>13, Zenon DEF ServerLeaves, config, Pending
<1> QED
  BY <1>1, <1>2, <1>3, <1>4, <1>5, <1>6, <1>7, <1>8, <1>9, <1>10, <1>11, <1>12, <1>13, Zenon DEF Next, Agent, Client

\* A client that gave its token and stays has been told the outcome when the
\* connection is closed.
LEMMA OutcomeStep ==
  ASSUME IInv, Next
  PROVE  OutcomeTold'
<1>0. OutcomeTold /\ ClientInv /\ AgentInv /\ PhasesOK
  BY TypeParts, Zenon DEF IInv
<1> USE <1>0, OneFacts DEF OutcomeTold, config
<1>1. CASE Dial \/ ReadStartup \/ ReadToken
  BY <1>1, Zenon DEF Dial, ReadStartup, ReadToken, Reads, ClientInv
<1>n. CASE Negotiate
  <2>1. pc' = "closed" => cli # "login" /\ cli' = cli
    BY <1>n, ZenonT(30) DEF Negotiate, Reads, ClientInv
  <2> QED
    BY <2>1, Zenon
<1>2. CASE Resolve \/ AuthFails \/ Authenticate \/ ScramExchange
  BY <1>2, Zenon DEF Resolve, AuthFails, Authenticate, ScramExchange, Deny, Answer, ClientInv
<1>3. CASE Login \/ Fill \/ Welcome \/ RelayUp \/ RelayDown \/ Close
  BY <1>3, Zenon DEF Login, Fill, Welcome, RelayUp, RelayDown, Close, AgentInv
<1>4. CASE ClientNext
  <2>1. fromClient' # <<>>
    <3>1. asks \in Openings /\ asks # <<>>
      BY <1>4, Zenon DEF ClientNext, ClientInv
    <3>2. Head(asks) \in Frames \cup {"startup", "cancel", "token", "password"}
      BY <3>1, OpeningFacts, Zenon
    <3> QED
      BY <1>4, <3>2, SeqFacts, TypeParts, Zenon DEF ClientNext, IInv, QueuesOK
  <2> QED
    BY <2>1, Zenon
<1>5. CASE ClientAnswers
  <2>1. fromClient' # <<>>
    BY <1>5, SeqFacts, TypeParts, Zenon DEF ClientAnswers, Secret, IInv, QueuesOK
  <2> QED
    BY <2>1, Zenon
<1>6. CASE ClientLeaves \/ ServerLeaves \/ ServerReads
  BY <1>6, Zenon DEF ClientLeaves, ServerLeaves, ServerReads
<1> QED
  BY <1>1, <1>n, <1>2, <1>3, <1>4, <1>5, <1>6, Zenon DEF Next, Agent, Client

\* A new connection satisfies the inductive invariant.
LEMMA Initially == Init => IInv
<1> SUFFICES ASSUME Init PROVE IInv
  BY Zenon
<1>1. asks \in Openings /\ asks \in Seq(Frames \cup {"startup", "cancel"}) /\ asks # <<>>
  <2>1. /\ <<"startup">> \in Seq(Frames \cup {"startup", "cancel"}) /\ <<"startup">> # <<>>
        /\ <<"ssl", "startup">> \in Seq(Frames \cup {"startup", "cancel"}) /\ <<"ssl", "startup">> # <<>>
    BY DEF Frames
  <2>2. /\ <<"gss", "ssl", "startup">> \in Seq(Frames \cup {"startup", "cancel"}) /\ <<"gss", "ssl", "startup">> # <<>>
        /\ <<"cancel">> \in Seq(Frames \cup {"startup", "cancel"}) /\ <<"cancel">> # <<>>
    BY DEF Frames
  <2> QED
    BY <2>1, <2>2, Zenon DEF Init, Openings
<1>2. Pending = <<>>
  BY DEF Init, Pending
<1>3. TypeOK
  <2>1. QueuesOK
    BY <1>1 DEF Init, QueuesOK
  <2>2. FlagsOK /\ PhasesOK
    BY Zenon DEF Init, FlagsOK, PhasesOK
  <2> QED
    BY <2>1, <2>2, TypeParts, Zenon
<1> QED
  BY <1>1, <1>2, <1>3, Zenon DEF Init, IInv, StreamInv, ClientInv, AgentInv, OutcomeTold

\* A step of another engine leaves it alone.
LEMMA Stutters == IInv /\ UNCHANGED vars => IInv'
<1> SUFFICES ASSUME IInv, UNCHANGED vars PROVE IInv'
  BY Zenon
<1>0. QueuesOK /\ FlagsOK /\ PhasesOK
  BY TypeParts, Zenon DEF IInv
<1>1. QueuesOK' /\ OutcomeTold'
  BY <1>0, Zenon DEF vars, IInv, QueuesOK, OutcomeTold
<1>6. FlagsOK'
  BY <1>0, Zenon DEF vars, FlagsOK
<1>8. PhasesOK'
  BY <1>0, Zenon DEF vars, PhasesOK
<1>7. TypeOK'
  BY <1>1, <1>6, <1>8, Zenon DEF TypeOK, QueuesOK, FlagsOK, PhasesOK
<1>2. Pending' = Pending /\ (HandedOver' <=> HandedOver)
  BY Zenon DEF vars, Pending, HandedOver
<1>3. StreamInv'
  BY <1>2, Zenon DEF vars, IInv, StreamInv
<1>4. ClientInv'
  BY Zenon DEF vars, IInv, ClientInv
<1>5. AgentInv'
  BY <1>2, Zenon DEF vars, IInv, AgentInv
<1> QED
  BY <1>1, <1>3, <1>4, <1>5, <1>7, Zenon DEF IInv

\* Every step of the agent, the client and the server preserves it.
LEMMA Inductive ==
  ASSUME IInv, Next
  PROVE  IInv'
<1>1. TypeOK'
  BY TypeParts, QueuesStep, FlagsStep, PhasesStep DEF TypeOK, QueuesOK, FlagsOK, PhasesOK
<1> QED
  BY <1>1, StreamStep, ClientStep, AgentStep, OutcomeStep, Zenon DEF IInv

\* The invariant is stronger than the properties.
LEMMA Properties ==
  IInv => WelcomeAfterUpstream /\ TokenStays /\ HandoverInOrder /\ OutcomeTold
<1> SUFFICES ASSUME IInv
             PROVE  WelcomeAfterUpstream /\ TokenStays /\ HandoverInOrder /\ OutcomeTold
  BY Zenon
<1>1. WelcomeAfterUpstream /\ OutcomeTold
  BY Zenon DEF IInv, StreamInv, WelcomeAfterUpstream
<1>2. TokenStays
  <2>1. <<>> \in Seq({"own_startup", "password"}) /\ \A m \in {"own_startup", "password"} : One(m) \in Seq({"own_startup", "password"})
    BY DEF One
  <2> QED
    BY <2>1, Zenon DEF IInv, AgentInv, TokenStays
<1>3. HandoverInOrder
  <2>1. (got \o ur) \o net = got \o (ur \o net)
    <3>1. got \in Seq(Backend) /\ ur \in Seq(Backend) /\ net \in Seq(Backend)
      BY TypeParts DEF IInv, QueuesOK, Tails, Backend
    <3> QED
      BY <3>1
  <2> QED
    BY <2>1, Zenon DEF IInv, StreamInv, HandedOver, HandoverInOrder, Pending
<1> QED
  BY <1>1, <1>2, <1>3, Zenon

-----------------------------------------------------------------------------
(* The engine that runs *)

Proofs == INSTANCE MySQLHandshakeProofs

\* MySQLHandshakeProofs speaks of the same invariant.
LEMMA SameInv == Proofs!IInv <=> MySQL!IInv
BY Zenon DEF MySQL!IInv, Proofs!IInv, MySQL!TypeOK, Proofs!TypeOK, MySQL!MaxSeq, Proofs!MaxSeq,
    MySQL!Pkt, Proofs!Pkt, MySQL!None, Proofs!None, MySQL!Kinds, Proofs!Kinds,
    MySQL!Packet, Proofs!Packet, MySQL!ServerInv, Proofs!ServerInv, MySQL!ClientInv,
    Proofs!ClientInv, MySQL!SetupInv, Proofs!SetupInv, MySQL!RelayInv, Proofs!RelayInv,
    MySQL!FailedInv, Proofs!FailedInv, MySQL!LetInInv, Proofs!LetInInv, MySQL!TLSInv,
    Proofs!TLSInv, MySQL!OutcomeInv, Proofs!OutcomeInv, MySQL!One, Proofs!One,
    MySQL!Downward, Proofs!Downward, MySQL!Upward, Proofs!Upward, MySQL!Asks,
    Proofs!Asks, MySQL!Streams, Proofs!Streams, MySQL!ServerListens,
    Proofs!ServerListens, MySQL!LoggedIn, Proofs!LoggedIn, MySQL!ClientWaits,
    Proofs!ClientWaits, MySQL!ServerUntouched, Proofs!ServerUntouched,
    MySQL!FirstPacket, Proofs!FirstPacket, MySQL!Relaying, Proofs!Relaying,
    MySQL!AuthResult, Proofs!AuthResult, MySQL!LetInByServer, Proofs!LetInByServer

\* And of the same initial states.
LEMMA SameInit == Proofs!Init <=> MySQL!Init
BY Zenon DEF MySQL!Init, Proofs!Init, MySQL!None, Proofs!None, MySQL!Pkt, Proofs!Pkt

\* And of the same steps.
LEMMA SameNext == Proofs!Next <=> MySQL!Next
BY Zenon DEF MySQL!config, Proofs!config, MySQL!wires, Proofs!wires, MySQL!ends, Proofs!ends,
    MySQL!relay, Proofs!relay, MySQL!Greet, Proofs!Greet, MySQL!CanTLS, Proofs!CanTLS,
    MySQL!Response, Proofs!Response, MySQL!Deny, Proofs!Deny, MySQL!Fail, Proofs!Fail,
    MySQL!UpstreamTLS, Proofs!UpstreamTLS, MySQL!Resend, Proofs!Resend,
    MySQL!ServerGreeting, Proofs!ServerGreeting, MySQL!ClientTLS, Proofs!ClientTLS,
    MySQL!SwitchToClear, Proofs!SwitchToClear, MySQL!ReadToken, Proofs!ReadToken,
    MySQL!Resolve, Proofs!Resolve, MySQL!Login, Proofs!Login, MySQL!OwnResponse,
    Proofs!OwnResponse, MySQL!CompleteUpstreamAuth, Proofs!CompleteUpstreamAuth,
    MySQL!UpstreamGone, Proofs!UpstreamGone, MySQL!Welcome, Proofs!Welcome,
    MySQL!C2SRead, Proofs!C2SRead, MySQL!C2SWrite, Proofs!C2SWrite, MySQL!S2CRead,
    Proofs!S2CRead, MySQL!S2CWrite, Proofs!S2CWrite, MySQL!ProxyEnds, Proofs!ProxyEnds,
    MySQL!Sends, Proofs!Sends, MySQL!Answer, Proofs!Answer, MySQL!ClientAnswers,
    Proofs!ClientAnswers, MySQL!ClientUnderTLS, Proofs!ClientUnderTLS,
    MySQL!ClientCommand, Proofs!ClientCommand, MySQL!ServerReads, Proofs!ServerReads,
    MySQL!ServerSends, Proofs!ServerSends, MySQL!ServerGreets, Proofs!ServerGreets,
    MySQL!ServerAuth, Proofs!ServerAuth, MySQL!ServerReplies, Proofs!ServerReplies,
    MySQL!ServerLeaves, Proofs!ServerLeaves, MySQL!Proxy, Proofs!Proxy,
    MySQL!ProxyInject, Proofs!ProxyInject, MySQL!Goroutines, Proofs!Goroutines,
    MySQL!Skybridge, Proofs!Skybridge, MySQL!Client, Proofs!Client, MySQL!Server,
    Proofs!Server, MySQL!Next, Proofs!Next, MySQL!Pkt, Proofs!Pkt, MySQL!None,
    Proofs!None, MySQL!MaxSeq, Proofs!MaxSeq, MySQL!Kinds, Proofs!Kinds, MySQL!Packet,
    Proofs!Packet, MySQL!AuthResult, Proofs!AuthResult, MySQL!Relaying, Proofs!Relaying

\* The bounds are those of the model.
LEMMA Assumed == Proofs!HandshakeAssumption
BY MySQLAssumption, Zenon DEF MySQL!HandshakeAssumption, Proofs!HandshakeAssumption

\* The invariant of the MySQL engine is stronger than its properties.
LEMMA MySQLProperties ==
  ASSUME MySQL!IInv
  PROVE  MySQL!SeqAligned /\ MySQL!LetInByServer /\ MySQL!RequiredMeansTLS /\ MySQL!OutcomeTold
<1>1. Proofs!SeqAligned /\ Proofs!LetInByServer /\ Proofs!RequiredMeansTLS /\ Proofs!OutcomeTold
  BY SameInv, Proofs!Properties, Zenon
<1> QED
  BY <1>1, Zenon
  DEF MySQL!SeqAligned, Proofs!SeqAligned, MySQL!LetInByServer, Proofs!LetInByServer,
    MySQL!RequiredMeansTLS, Proofs!RequiredMeansTLS, MySQL!OutcomeTold,
    Proofs!OutcomeTold, MySQL!TypeOK, Proofs!TypeOK, MySQL!Packet, Proofs!Packet,
    MySQL!Kinds, Proofs!Kinds, MySQL!None, Proofs!None, MySQL!Pkt, Proofs!Pkt,
    MySQL!MaxSeq, Proofs!MaxSeq

\* A step of one engine preserves its invariant, and leaves it the one that runs.
LEMMA EngineStep ==
  ASSUME EngineInv, [EngineNext]_engineVars
  PROVE  EngineInv'
<1>1. CASE PostgresAlone /\ Next
  <2>1. part = "postgres" /\ part' = part
    BY <1>1, Zenon DEF PostgresAlone
  <2>2. IInv'
    BY <1>1, <2>1, Inductive, Zenon DEF EngineInv
  <2> QED
    BY <2>1, <2>2, Zenon DEF EngineInv
<1>2. CASE MySQLAlone /\ MySQL!Next
  <2>1. part = "mysql" /\ part' = part
    BY <1>2, Zenon DEF MySQLAlone
  <2>2. Proofs!IInv'
    <3>1. Proofs!IInv /\ Proofs!Next
      BY <1>2, <2>1, SameInv, SameNext, Zenon DEF EngineInv
    <3> QED
      BY <3>1, Assumed, Proofs!Inductive, Zenon
  <2>3. MySQL!IInv'
    BY <2>2, SameInv, PTL
  <2> QED
    BY <2>1, <2>3, Zenon DEF EngineInv
<1>3. CASE UNCHANGED engineVars
  <2>1. part' = part /\ UNCHANGED vars /\ UNCHANGED Proofs!vars
    BY <1>3, Zenon DEF engineVars, postgresOwn, shared, mysqlOwn, vars, Proofs!vars
  <2>2. part = "postgres" => IInv'
    BY <2>1, Stutters, Zenon DEF EngineInv
  <2>3. part = "mysql" => Proofs!IInv'
    BY <2>1, SameInv, Proofs!Stutters, Zenon DEF EngineInv
  <2>4. part = "mysql" => MySQL!IInv'
    BY <2>3, SameInv, PTL
  <2> QED
    BY <2>1, <2>2, <2>4, Zenon DEF EngineInv
<1> QED
  BY <1>1, <1>2, <1>3, Zenon DEF EngineNext

\* The engine that runs a login, whichever it is, is in a state of its
\* inductive invariant: for every set of upstream TLS modes, every number of
\* authentication rounds and every length of a command's response.
THEOREM EngineInvariant == EngineSpec => []EngineInv
<1>1. EngineInit => EngineInv
  <2>1. Init => IInv
    BY Initially, Zenon
  <2>2. MySQL!Init => MySQL!IInv
    BY SameInit, SameInv, Assumed, Proofs!Initially, Zenon
  <2> QED
    BY <2>1, <2>2, Zenon DEF EngineInit, EngineInv
<1>2. EngineInv /\ [EngineNext]_engineVars => EngineInv'
  BY EngineStep, Zenon
<1> QED
  BY <1>1, <1>2, PTL DEF EngineSpec

\* No client is let in that the server has not accepted, relayed or injected,
\* by either engine.
THEOREM NobodyLetInEarly == EngineSpec => []LetInByServer
<1>1. EngineInv => LetInByServer
  BY Properties, MySQLProperties, Zenon DEF EngineInv, LetInByServer
<1> QED
  BY <1>1, EngineInvariant, PTL

\* Every MySQL packet arrives under the sequence id its receiver expects: the
\* inserted SSL request, the offset two goroutines share and its clearing, and
\* the agent's own logins keep both connections in step.
THEOREM NumbersStayAligned == EngineSpec => []SeqAligned
<1>1. EngineInv => SeqAligned
  BY MySQLProperties, Zenon DEF EngineInv, SeqAligned
<1> QED
  BY <1>1, EngineInvariant, PTL

\* Where upstream TLS is required no MySQL credentials go upstream in the clear.
THEOREM RequiredTLSIsHad == EngineSpec => []RequiredMeansTLS
<1>1. EngineInv => RequiredMeansTLS
  BY MySQLProperties, Zenon DEF EngineInv, RequiredMeansTLS
<1> QED
  BY <1>1, EngineInvariant, PTL

\* The handover from the injected Postgres login to the relay loses nothing of
\* the server's stream, wherever bufio cut it, and passes nothing of the
\* client's login on.
THEOREM HandoverIsExact == EngineSpec => []HandoverExact
<1>1. EngineInv => HandoverExact
  BY Properties, Zenon DEF EngineInv, HandoverExact
<1> QED
  BY <1>1, EngineInvariant, PTL

\* A client that gave its token and stays is told the outcome before the agent
\* closes its connection.
THEOREM OutcomesAreTold == EngineSpec => []OutcomeReported
<1>1. EngineInv => OutcomeReported
  BY Properties, MySQLProperties, Zenon DEF EngineInv, OutcomeReported
<1> QED
  BY <1>1, EngineInvariant, PTL
=============================================================================
