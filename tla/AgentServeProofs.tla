-------------------------- MODULE AgentServeProofs --------------------------
(* Proofs about AgentServe, for any configurations, sessions and opens. *)
EXTENDS AgentServe, TLAPS

USE Zenon

(* A session's record after its client end closed, and after the deferred      *)
(* closes of serveStream.                                                      *)
LEMMA Closed ==
  ASSUME NEW r \in Records
  PROVE  /\ [r EXCEPT !.client = "closed"] \in Records
         /\ [r EXCEPT !.client = "closed"].client = "closed"
         /\ [r EXCEPT !.client = "closed"].at = r.at
         /\ [r EXCEPT !.client = "closed"].db = r.db
         /\ [r EXCEPT !.client = "closed"].up = r.up
         /\ [r EXCEPT !.client = "closed"].cert = r.cert
  BY DEF Records

(* The deferred closes leave a record that asks nothing of the policy.         *)
LEMMA ReleasedKeeps ==
  ASSUME NEW r \in Records
  PROVE  Released(r) \in Records /\ SessionInv(Released(r))
<1>1. Released(r) \in Records
  BY DEF Records, Released
<1>2. Released(r).at = "done" /\ Released(r).client = "closed"
  BY DEF Records, Released
<1> QED
  BY <1>1, <1>2 DEF SessionInv

(* An agent that has not started serves nobody. *)
LEMMA InvInit == Init => IInv
<1> SUFFICES ASSUME Init PROVE IInv
  OBVIOUS
<1>1. NoSession \in Records
  BY SMT DEF NoSession, Records, NoCert, Certs, Supported
<1>2. TypeOK
  BY <1>1 DEF Init, TypeOK
<1>3. \A s \in Sessions : ses[s].at = "none" /\ ses[s].client = "none"
  BY DEF Init, NoSession
<1> QED
  BY <1>2, <1>3, SMT DEF Init, IInv, SessionInv

(* A step of the agent's loop that touches no session: it starts to serve only *)
(* with a policy that was built, and to listen only for an engine it has.      *)
LEMMA LoopStep ==
  ASSUME IInv, UNCHANGED <<cfg, ses>>, cancelled' \in BOOLEAN, link' \in BOOLEAN,
         run' \in {"start", "dial", "register", "serve", "pause", "listen", "returned", "failed"},
         run' = "listen" => cfg.dbType \in Supported,
         PolicyBuilds \/ run' \in {"start", "failed"}
  PROVE  IInv'
<1>1. TypeOK'
  BY DEF IInv, TypeOK
<1>2. /\ PolicyBuilds' <=> PolicyBuilds
      /\ \A s \in Sessions : Policed(ses[s])' <=> Policed(ses[s])
  BY DEF PolicyBuilds, UpstreamTLSEnabled, Policed, required, Accepts
<1>3. PolicyBuilds' \/ (run' \in {"start", "failed"} /\ \A s \in Sessions : ses'[s].at = "none")
  BY <1>2 DEF IInv
<1>4. \A s \in Sessions : SessionInv(ses[s])'
  BY <1>2 DEF IInv, SessionInv
<1> QED
  BY <1>1, <1>3, <1>4 DEF IInv

(* The end of the tunnel closes the streams and says nothing of the databases. *)
LEMMA CloseStep ==
  ASSUME IInv, CloseStreams, link' = FALSE, UNCHANGED <<cfg, cancelled, run>>
  PROVE  IInv'
<1>1. \A s \in Sessions :
        /\ ses'[s] \in Records /\ ses'[s].client # "open"
        /\ ses'[s].at = ses[s].at /\ ses'[s].db = ses[s].db
        /\ ses'[s].up = ses[s].up /\ ses'[s].cert = ses[s].cert
  <2> SUFFICES ASSUME NEW s \in Sessions
               PROVE  /\ ses'[s] \in Records /\ ses'[s].client # "open"
                      /\ ses'[s].at = ses[s].at /\ ses'[s].db = ses[s].db
                      /\ ses'[s].up = ses[s].up /\ ses'[s].cert = ses[s].cert
    OBVIOUS
  <2>1. ses[s] \in Records
    BY DEF IInv, TypeOK
  <2>2. ses'[s] = IF ses[s].client = "open" THEN [ses[s] EXCEPT !.client = "closed"] ELSE ses[s]
    BY DEF CloseStreams
  <2>3. CASE ses[s].client = "open"
    <3>1. ses'[s] = [ses[s] EXCEPT !.client = "closed"]
      BY <2>2, <2>3
    <3> QED
      BY <3>1, <2>1, Closed
  <2>4. CASE ses[s].client # "open"
    BY <2>1, <2>2, <2>4
  <2> QED
    BY <2>3, <2>4
<1>2. TypeOK'
  <2>1. ses' = [s \in Sessions |-> ses'[s]]
    BY DEF CloseStreams
  <2>2. ses' \in [Sessions -> Records]
    BY <2>1, <1>1
  <2> QED
    BY <2>2 DEF IInv, TypeOK
<1>3. /\ PolicyBuilds' <=> PolicyBuilds
      /\ \A s \in Sessions : Policed(ses[s])' <=> Policed(ses[s])
  BY <1>1 DEF PolicyBuilds, UpstreamTLSEnabled, Policed, required, Accepts
<1>4. PolicyBuilds' \/ (run' \in {"start", "failed"} /\ \A s \in Sessions : ses'[s].at = "none")
  BY <1>1, <1>3 DEF IInv
<1>5. \A s \in Sessions : SessionInv(ses[s])'
  BY <1>1, <1>3 DEF IInv, SessionInv
<1> QED
  BY <1>2, <1>4, <1>5 DEF IInv

(* A step of one session: it keeps the invariant when the record it leaves     *)
(* does, and a client is only accepted by an agent that has its policy.        *)
LEMMA SessionStep ==
  ASSUME IInv, NEW s \in Sessions, NEW r \in Records, Set(s, r), PolicyBuilds, SessionInv(r)
  PROVE  IInv'
<1>1. /\ ses' \in [Sessions -> Records] /\ ses'[s] = r
      /\ \A q \in Sessions : q # s => ses'[q] = ses[q]
  BY DEF Set, IInv, TypeOK
<1>2. UNCHANGED <<cfg, cancelled, run, link>>
  BY DEF Set
<1>3. TypeOK'
  BY <1>1, <1>2 DEF IInv, TypeOK
<1>4. PolicyBuilds'
  BY <1>2 DEF PolicyBuilds, UpstreamTLSEnabled
<1>5. \A q \in Sessions : SessionInv(ses[q])'
  <2> SUFFICES ASSUME NEW q \in Sessions PROVE SessionInv(ses[q])'
    OBVIOUS
  <2>1. CASE q = s
    <3>1. Policed(ses[q])' <=> Policed(r)
      BY <1>1, <1>2, <2>1 DEF Policed, required, Accepts
    <3> QED
      BY <3>1, <1>1, <2>1 DEF SessionInv
  <2>2. CASE q # s
    <3>1. ses'[q] = ses[q]
      BY <1>1, <2>2
    <3>2. Policed(ses[q])' <=> Policed(ses[q])
      BY <3>1, <1>2 DEF Policed, required, Accepts
    <3> QED
      BY <3>1, <3>2 DEF IInv, SessionInv
  <2> QED
    BY <2>1, <2>2
<1> QED
  BY <1>2, <1>3, <1>4, <1>5 DEF IInv

(* RunTunnel's and RunListener's own steps, the loss of the link and the end   *)
(* of ctx.                                                                     *)
LEMMA InvLoop ==
  ASSUME IInv, Tunnel \/ Listener \/ LinkLost \/ Cancel
  PROVE  IInv'
<1>1. /\ cancelled \in BOOLEAN /\ link \in BOOLEAN
      /\ run \in {"start", "dial", "register", "serve", "pause", "listen", "returned", "failed"}
      /\ run = "listen" => cfg.dbType \in Supported
      /\ PolicyBuilds \/ run \in {"start", "failed"}
  BY DEF IInv, TypeOK
<1>2. CASE StartTunnel
  BY <1>1, <1>2, LoopStep DEF StartTunnel
<1>3. CASE Dial
  BY <1>1, <1>3, LoopStep DEF Dial
<1>4. CASE Registered
  BY <1>1, <1>4, LoopStep DEF Registered
<1>5. CASE CancelWatch
  BY <1>5, CloseStep DEF CancelWatch
<1>6. CASE ServeEnds
  BY <1>1, <1>6, LoopStep DEF ServeEnds
<1>7. CASE Pause
  BY <1>1, <1>7, LoopStep DEF Pause
<1>8. CASE StartListener
  BY <1>1, <1>8, LoopStep DEF StartListener
<1>9. CASE ListenerEnds
  BY <1>1, <1>9, LoopStep DEF ListenerEnds
<1>10. CASE LinkLost
  BY <1>10, CloseStep DEF LinkLost
<1>11. CASE Cancel
  BY <1>1, <1>11, LoopStep DEF Cancel
<1> QED
  BY <1>2, <1>3, <1>4, <1>5, <1>6, <1>7, <1>8, <1>9, <1>10, <1>11 DEF Tunnel, Listener

(* A client is accepted: only by an agent that serves, hence has its policy.   *)
LEMMA InvAccept ==
  ASSUME IInv, NEW s \in Sessions, Accept(s)
  PROVE  IInv'
<1>1. run \in {"serve", "listen"}
  BY DEF Accept
<1>2. PolicyBuilds /\ (run = "listen" => cfg.dbType \in Supported)
  BY <1>1 DEF IInv
<1>3. ASSUME NEW o \in Opens, NEW c \in {"open", "closed"},
             Set(s, [NoSession EXCEPT !.at = "lookup", !.open = o, !.client = c])
      PROVE  IInv'
  <2> DEFINE r == [NoSession EXCEPT !.at = "lookup", !.open = o, !.client = c]
  <2>1. r \in Records /\ r.at = "lookup"
    BY DEF NoSession, Records, NoCert, Certs
  <2>2. SessionInv(r)
    BY <2>1 DEF SessionInv
  <2> QED
    BY <1>2, <1>3, <2>1, <2>2, SessionStep
<1>4. ASSUME run = "listen",
             Set(s, [NoSession EXCEPT !.at = "dial", !.db = cfg.dbType, !.client = "open"])
      PROVE  IInv'
  <2> DEFINE r == [NoSession EXCEPT !.at = "dial", !.db = cfg.dbType, !.client = "open"]
  <2>1. r \in Records /\ r.at = "dial" /\ r.db \in Supported
    BY <1>2, <1>4 DEF NoSession, Records, NoCert, Certs
  <2>2. SessionInv(r)
    BY <2>1 DEF SessionInv
  <2> QED
    BY <1>2, <1>4, <2>1, <2>2, SessionStep
<1> QED
  BY <1>3, <1>4 DEF Accept

(* Either end closes: the client's end is no part of the policy, and a closed  *)
(* database connection is under none.                                          *)
LEMMA InvCloses ==
  ASSUME IInv, NEW s \in Sessions, ClientCloses(s) \/ DatabaseCloses(s) \/ ProxyEnds(s)
  PROVE  IInv'
<1>1. ses[s] \in Records /\ SessionInv(ses[s])
  BY DEF IInv, TypeOK
<1>2. PolicyBuilds
  <2>1. ses[s].at # "none"
    BY <1>1 DEF ClientCloses, DatabaseCloses, ProxyEnds, SessionInv
  <2> QED
    BY <2>1 DEF IInv
<1>3. CASE ClientCloses(s)
  <2> DEFINE r == [ses[s] EXCEPT !.client = "closed"]
  <2>1. /\ r \in Records /\ r.client = "closed"
        /\ r.at = ses[s].at /\ r.db = ses[s].db /\ r.up = ses[s].up /\ r.cert = ses[s].cert
    BY <1>1, Closed
  <2>2. SessionInv(r)
    BY <1>1, <2>1 DEF SessionInv, Policed
  <2> QED
    BY <1>2, <1>3, <2>1, <2>2, SessionStep DEF ClientCloses
<1>4. CASE DatabaseCloses(s)
  <2> DEFINE r == [ses[s] EXCEPT !.up = "closed"]
  <2>1. r \in Records /\ r.at = "relay" /\ r.db = ses[s].db /\ r.up = "closed"
    BY <1>1, <1>4 DEF DatabaseCloses, Records
  <2>2. SessionInv(r)
    BY <1>1, <1>4, <2>1 DEF SessionInv, Policed, DatabaseCloses
  <2> QED
    BY <1>2, <1>4, <2>1, <2>2, SessionStep DEF DatabaseCloses
<1>5. CASE ProxyEnds(s)
  BY <1>1, <1>2, <1>5, ReleasedKeeps, SessionStep DEF ProxyEnds
<1> QED
  BY <1>3, <1>4, <1>5

(* The target is looked up and the database dialed: no engine has it yet.      *)
LEMMA InvDial ==
  ASSUME IInv, NEW s \in Sessions, Lookup(s) \/ DialUpstream(s)
  PROVE  IInv'
<1>1. ses[s] \in Records /\ SessionInv(ses[s])
  BY DEF IInv, TypeOK
<1>2. PolicyBuilds
  BY DEF IInv, Lookup, DialUpstream
<1>3. CASE Set(s, Released(ses[s]))
  BY <1>1, <1>2, <1>3, ReleasedKeeps, SessionStep
<1>4. ASSUME NEW d \in Supported, Set(s, [ses[s] EXCEPT !.at = "dial", !.db = d])
      PROVE  IInv'
  <2> DEFINE r == [ses[s] EXCEPT !.at = "dial", !.db = d]
  <2>1. r \in Records /\ r.at = "dial" /\ r.db \in Supported
    BY <1>1 DEF Records
  <2>2. SessionInv(r)
    BY <2>1 DEF SessionInv
  <2> QED
    BY <1>2, <1>4, <2>1, <2>2, SessionStep
<1>5. ASSUME DialUpstream(s), Set(s, [ses[s] EXCEPT !.at = "tls", !.up = "raw"])
      PROVE  IInv'
  <2> DEFINE r == [ses[s] EXCEPT !.at = "tls", !.up = "raw"]
  <2>1. r \in Records /\ r.at = "tls" /\ r.db = ses[s].db /\ r.up = "raw"
    BY <1>1 DEF Records
  <2>2. SessionInv(r)
    BY <1>1, <1>5, <2>1 DEF SessionInv, DialUpstream
  <2> QED
    BY <1>2, <1>5, <2>1, <2>2, SessionStep
<1> QED
  BY <1>3, <1>4, <1>5 DEF Lookup, DialUpstream

(* A handshake that accepted a certificate leaves what the policy accepts, in  *)
(* front of an engine ("proxy") or in its hands ("relay").                     *)
LEMMA InvHandshake ==
  ASSUME IInv, NEW s \in Sessions, PolicyBuilds, NEW at \in {"proxy", "relay"},
         ses[s].at \in {"tls", "proxy"}, at = "proxy" => ses[s].db # "mysql",
         NEW cert \in Certs, Accepts(cert),
         Set(s, [ses[s] EXCEPT !.at = at, !.up = "tls", !.cert = cert])
  PROVE  IInv'
<1> DEFINE r == [ses[s] EXCEPT !.at = at, !.up = "tls", !.cert = cert]
<1>1. ses[s] \in Records /\ SessionInv(ses[s])
  BY DEF IInv, TypeOK
<1>2. r \in Records /\ r.at = at /\ r.db = ses[s].db /\ r.up = "tls" /\ r.cert = cert
  BY <1>1 DEF Records
<1>3. SessionInv(r)
  BY <1>1, <1>2 DEF SessionInv, Policed
<1> QED
  BY <1>2, <1>3, SessionStep

(* A connection that goes on as it was dialed does so where the policy asks    *)
(* for nothing more, or, to a MySQL engine, before it has begun.               *)
LEMMA InvPlain ==
  ASSUME IInv, NEW s \in Sessions, PolicyBuilds, NEW at \in {"proxy", "relay"},
         ses[s].at \in {"tls", "proxy"},
         Policed(ses[s]) \/ (ses[s].at = "tls" /\ at = "proxy" /\ ses[s].db = "mysql"),
         Set(s, [ses[s] EXCEPT !.at = at])
  PROVE  IInv'
<1> DEFINE r == [ses[s] EXCEPT !.at = at]
<1>1. ses[s] \in Records /\ SessionInv(ses[s])
  BY DEF IInv, TypeOK
<1>2. /\ r \in Records /\ r.at = at /\ r.db = ses[s].db /\ r.up = ses[s].up
      /\ r.cert = ses[s].cert
  BY <1>1 DEF Records
<1>3. SessionInv(r)
  BY <1>1, <1>2 DEF SessionInv, Policed
<1> QED
  BY <1>2, <1>3, SessionStep

(* Without TLS, or when it is only preferred, plaintext is what was asked for. *)
LEMMA RawIsPoliced ==
  ASSUME NEW r, r.up = "raw", ~required
  PROVE  Policed(r)
  BY DEF Policed

(* startUpstreamTLS: plaintext, TLS, or an error that closes the connection.   *)
LEMMA InvStartTLS ==
  ASSUME IInv, NEW s \in Sessions, StartUpstreamTLS(s)
  PROVE  IInv'
<1>1. ses[s] \in Records /\ SessionInv(ses[s]) /\ ses[s].at = "tls" /\ PolicyBuilds
  BY DEF IInv, TypeOK, StartUpstreamTLS
<1>2. ~UpstreamTLSEnabled => ~required
  BY DEF UpstreamTLSEnabled, required
<1>3. ses[s].up = "raw"
  BY <1>1 DEF SessionInv
<1>4. ASSUME ~required \/ ses[s].db = "mysql", Set(s, [ses[s] EXCEPT !.at = "proxy"])
      PROVE  IInv'
  BY <1>1, <1>3, <1>4, RawIsPoliced, InvPlain
<1>5. ASSUME ses[s].db # "mysql", NEW cert \in Certs, Accepts(cert),
             Set(s, [ses[s] EXCEPT !.at = "proxy", !.up = "tls", !.cert = cert])
      PROVE  IInv'
  BY <1>1, <1>5, InvHandshake
<1>6. ASSUME Set(s, Released(ses[s]))
      PROVE  IInv'
  BY <1>1, <1>6, ReleasedKeeps, SessionStep
<1> QED
  BY <1>2, <1>4, <1>5, <1>6 DEF StartUpstreamTLS

(* A MySQL client that asks for TLS itself is passed through.                  *)
LEMMA InvPassThrough ==
  ASSUME IInv, NEW s \in Sessions, PolicyBuilds, ses[s].at = "proxy", PassThrough(s)
  PROVE  IInv'
<1> DEFINE r == [ses[s] EXCEPT !.at = "relay", !.up = "passed"]
<1>1. ses[s] \in Records /\ SessionInv(ses[s]) /\ ses[s].db = "mysql" /\ Set(s, r)
  BY DEF IInv, TypeOK, PassThrough
<1>2. r \in Records /\ r.at = "relay" /\ r.db = "mysql" /\ r.up = "passed"
  BY <1>1 DEF Records
<1>3. SessionInv(r)
  BY <1>2 DEF SessionInv, Policed, Supported
<1> QED
  BY <1>1, <1>2, <1>3, SessionStep

(* proxyConn begins: the MySQL engine's own handshake, or the connection as    *)
(* startUpstreamTLS left it.                                                   *)
LEMMA InvStartProxy ==
  ASSUME IInv, NEW s \in Sessions, StartProxy(s)
  PROVE  IInv'
<1>1. ses[s] \in Records /\ SessionInv(ses[s]) /\ ses[s].at = "proxy" /\ PolicyBuilds
  BY DEF IInv, TypeOK, StartProxy
<1>2. ~UpstreamTLSEnabled => ~required
  BY DEF UpstreamTLSEnabled, required
<1>3. ses[s].db = "mysql" /\ ~required => Policed(ses[s])
  BY <1>1, RawIsPoliced DEF SessionInv
<1>4. ses[s].db # "mysql" => Policed(ses[s])
  BY <1>1 DEF SessionInv
<1>5. ASSUME NEW cert \in Certs, Accepts(cert),
             Set(s, [ses[s] EXCEPT !.at = "relay", !.up = "tls", !.cert = cert])
      PROVE  IInv'
  BY <1>1, <1>5, InvHandshake
<1>6. ASSUME Policed(ses[s]), Set(s, [ses[s] EXCEPT !.at = "relay"])
      PROVE  IInv'
  BY <1>1, <1>6, InvPlain
<1>7. ASSUME Set(s, Released(ses[s]))
      PROVE  IInv'
  BY <1>1, <1>7, ReleasedKeeps, SessionStep
<1>8. CASE PassThrough(s)
  BY <1>1, <1>8, InvPassThrough
<1> QED
  BY <1>2, <1>3, <1>4, <1>5, <1>6, <1>7, <1>8 DEF StartProxy

(* IInv is inductive: every step of the agent, a session or a peer keeps it.   *)
LEMMA InvNext == IInv /\ [Next]_vars => IInv'
<1> SUFFICES ASSUME IInv, [Next]_vars PROVE IInv'
  OBVIOUS
<1>1. CASE Tunnel \/ Listener \/ LinkLost \/ Cancel
  BY <1>1, InvLoop
<1>2. ASSUME NEW s \in Sessions, Accept(s) \/ ClientCloses(s) \/ DatabaseCloses(s) \/ Serve(s)
      PROVE  IInv'
  BY <1>2, InvAccept, InvCloses, InvDial, InvStartTLS, InvStartProxy DEF Serve
<1>3. CASE UNCHANGED vars
  <2>1. UNCHANGED <<cfg, cancelled, run, link, ses>>
    BY <1>3 DEF vars
  <2> QED
    BY <2>1, LoopStep DEF IInv, TypeOK
<1> QED
  BY <1>1, <1>2, <1>3 DEF Next

(* The policy of the agent is kept, whatever the targets, the clients and the  *)
(* databases do: no session relays with less than the mode stands for, but for *)
(* those of MySQL clients that ask for TLS themselves, which Proxy passes      *)
(* through without a handshake of its own (mysql.go).                          *)
THEOREM PolicyIsKept == Spec => []PolicyKept
<1>1. IInv => PolicyKept
  <2> SUFFICES ASSUME IInv, NEW s \in Sessions, ses[s].at = "relay", ses[s].up # "closed",
                      cfg.tls \notin {"disable", "prefer"}
               PROVE  /\ ses[s].up = "tls" \/ (ses[s].up = "passed" /\ ses[s].db = "mysql")
                      /\ CASE cfg.tls = "require" -> TRUE
                           [] cfg.tls = "verify-ca" -> ses[s].up = "tls" => ses[s].cert.chain
                           [] cfg.tls = "verify-full" ->
                                ses[s].up = "tls" => ses[s].cert.chain /\ ses[s].cert.name
                           [] OTHER -> FALSE
    BY DEF IInv, PolicyKept
  <2>1. PolicyBuilds /\ Policed(ses[s])
    BY DEF IInv, SessionInv
  <2>2. cfg.tls \in {"require", "verify-ca", "verify-full"}
    BY <2>1 DEF PolicyBuilds, UpstreamTLSEnabled, ValidModes
  <2>3. /\ ses[s].up = "tls" \/ (ses[s].up = "passed" /\ ses[s].db = "mysql")
        /\ ses[s].up = "tls" => Accepts(ses[s].cert)
    BY <2>1, <2>2 DEF Policed, required
  <2> QED
    BY <2>2, <2>3 DEF Accepts
<1> QED
  BY <1>1, InvInit, InvNext, PTL DEF Spec
==============================================================================
