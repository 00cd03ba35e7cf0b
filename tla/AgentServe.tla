----------------------------- MODULE AgentServe -----------------------------
(***************************************************************************)
(* The agent's two modes (internal/agent): RunTunnel keeps a connection to  *)
(* the gateway and serves the streams opened over it, RunListener accepts   *)
(* native clients itself.  Each client's session looks up its target, dials *)
(* the database, negotiates TLS with it as the policy says (upstreamtls.go) *)
(* and is proxied until either end closes.                                  *)
(*                                                                         *)
(* AgentLink has the registration in detail and the wire modules the        *)
(* proxying; here a gateway answers a registration or the connection fails, *)
(* and a proxied session relays until it ends.                              *)
(***************************************************************************)
EXTENDS Naturals, Sequences

CONSTANTS
  Configs,     \* agent configurations: mode, addr, targets, dbType, tls, ca, cert
  Sessions,    \* the client connections, bounded
  Opens        \* what a gateway asks a stream for: target names, or "bad meta"

VARIABLES
  cfg,         \* the agent's configuration
  cancelled,   \* ctx is done
  run,         \* RunTunnel: "start", "dial", "register", "serve", "pause";
               \* RunListener: "start", "listen"; either: "returned", "failed"
  link,        \* the tunnel to the gateway is up
  ses          \* each session: [at, open, db, client, up, cert]

vars == <<cfg, cancelled, run, link, ses>>

Certs == [chain : BOOLEAN, name : BOOLEAN]  \* what a database's certificate proves
NoCert == [chain |-> FALSE, name |-> FALSE]
NoSession == [at |-> "none", open |-> "", db |-> "", client |-> "none", up |-> "none",
              cert |-> NoCert]

Init ==
  /\ cfg \in Configs /\ cancelled = FALSE /\ run = "start" /\ link = FALSE
  /\ ses = [s \in Sessions |-> NoSession]
------------------------------------------------------------------------------
(* The policy *)

ValidModes == {"prefer", "require", "verify-ca", "verify-full"}

\* UpstreamTLSEnabled: every mode but the words for off, valid or not.
UpstreamTLSEnabled == cfg.tls # "disable"

LaxPolicyBuilds == UpstreamTLSEnabled => cfg.ca # "invalid"

\* buildUpstreamTLSPolicy succeeds: no TLS, or a mode it knows and trust roots
\* that parse (or the system's, that load).
PolicyBuilds == UpstreamTLSEnabled => cfg.tls \in ValidModes /\ cfg.ca # "invalid"

required == cfg.tls \in {"require", "verify-ca", "verify-full"}

\* configFor: the certificates a handshake accepts under the policy's mode.
Accepts(cert) ==
  CASE cfg.tls = "verify-ca" -> cert.chain
    [] cfg.tls = "verify-full" -> cert.chain /\ cert.name
    [] OTHER -> TRUE

\* engineFactory's types ("postgresql" and "mongo" are the same as these).
Supported == {"postgres", "mysql", "mongodb"}

\* buildClientTLSConfig fails on a certificate and key that do not pair; with
\* none of them, or a self-signed one, it succeeds.
ClientTLSBuilds == cfg.cert # "bad pair"
------------------------------------------------------------------------------
(* RunTunnel *)

\* A stream of a session that is closed reads and writes no more.
CloseStreams ==
  ses' = [s \in Sessions |-> IF ses[s].client = "open" THEN [ses[s] EXCEPT !.client = "closed"]
                                                       ELSE ses[s]]

StartTunnel ==
  /\ run = "start" /\ cfg.mode = "tunnel"
  /\ run' = IF cfg.addr /\ cfg.targets # <<>> /\ ClientTLSBuilds /\ PolicyBuilds
              THEN "dial" ELSE "failed"
  /\ UNCHANGED <<cfg, cancelled, link, ses>>

\* The loop's condition, then the dial, which the gateway takes or not.
Dial ==
  /\ run = "dial"
  /\ \/ cancelled /\ run' = "returned" /\ UNCHANGED link
     \/ ~cancelled /\ run' = "register" /\ link' = TRUE
     \/ ~cancelled /\ run' = "pause" /\ UNCHANGED link
  /\ UNCHANGED <<cfg, cancelled, ses>>

\* ServeTunnelConn: registered, or rejected or cut off, which closes the
\* session.  Until the answer ctx is not looked at.
Registered ==
  /\ run = "register"
  /\ \/ link /\ run' = "serve" /\ UNCHANGED link
     \/ run' = "pause" /\ link' = FALSE
  /\ UNCHANGED <<cfg, cancelled, ses>>

\* The connection is lost, or the gateway closes it (external).
LinkLost ==
  /\ link /\ link' = FALSE
  /\ CloseStreams
  /\ UNCHANGED <<cfg, cancelled, run>>

UnwatchedCancel == FALSE /\ UNCHANGED vars

\* The goroutine that closes the session when ctx is done.
CancelWatch ==
  /\ run = "serve" /\ link /\ cancelled
  /\ link' = FALSE
  /\ CloseStreams
  /\ UNCHANGED <<cfg, cancelled, run>>

\* Accept fails on a closed session and ServeTunnelConn returns.
ServeEnds ==
  /\ run = "serve" /\ ~link
  /\ run' = "pause"
  /\ UNCHANGED <<cfg, cancelled, link, ses>>

\* sleep: the timer or ctx, whichever the select takes.
Pause ==
  /\ run = "pause"
  /\ run' = "dial" \/ (cancelled /\ run' = "returned")
  /\ UNCHANGED <<cfg, cancelled, link, ses>>
------------------------------------------------------------------------------
(* RunListener *)

StartListener ==
  /\ run = "start" /\ cfg.mode = "listener"
  /\ IF cfg.addr /\ ClientTLSBuilds /\ cfg.dbType \in Supported /\ PolicyBuilds
       THEN run' \in {"listen", "failed"}   \* net.Listen may fail
       ELSE run' = "failed"
  /\ UNCHANGED <<cfg, cancelled, link, ses>>

\* The watcher closes the listener and Accept's error ends the loop; any other
\* error of Accept leaves everything as it is.
ListenerEnds ==
  /\ run = "listen" /\ cancelled
  /\ run' = "returned"
  /\ UNCHANGED <<cfg, cancelled, link, ses>>
------------------------------------------------------------------------------
(* A session: serveStream, or the goroutine of RunListener *)

Set(s, r) == ses' = [ses EXCEPT ![s] = r] /\ UNCHANGED <<cfg, cancelled, run, link>>

\* The deferred closes.
Released(r) ==
  [r EXCEPT !.at = "done", !.client = "closed", !.up = IF @ = "none" THEN @ ELSE "closed"]

\* A stream that waited while its session closed may still be accepted.
Accept(s) ==
  /\ ses[s].at = "none"
  /\ \/ /\ run = "serve"
        /\ \E o \in Opens :
             Set(s, [NoSession EXCEPT !.at = "lookup", !.open = o,
                                      !.client = IF link THEN "open" ELSE "closed"])
     \/ /\ run = "listen"
        /\ Set(s, [NoSession EXCEPT !.at = "dial", !.db = cfg.dbType, !.client = "open"])

\* TargetByName: the first target of the name.
Named(o) == {j \in DOMAIN cfg.targets : cfg.targets[j].name = o}
TargetByName(o) == cfg.targets[CHOOSE j \in Named(o) : \A l \in Named(o) : j <= l]

\* The open's meta, the target and the engine, any of which may be missing.
Lookup(s) ==
  /\ ses[s].at = "lookup"
  /\ IF Named(ses[s].open) # {} /\ TargetByName(ses[s].open).db \in Supported
       THEN Set(s, [ses[s] EXCEPT !.at = "dial", !.db = TargetByName(ses[s].open).db])
       ELSE Set(s, Released(ses[s]))

DialUpstream(s) ==
  /\ ses[s].at = "dial"
  /\ \/ ~cancelled /\ Set(s, [ses[s] EXCEPT !.at = "tls", !.up = "raw"])
     \/ Set(s, Released(ses[s]))

LeakyStartUpstreamTLS(s) ==
  /\ ses[s].at = "tls"
  /\ \/ /\ \/ ~UpstreamTLSEnabled \/ ses[s].db = "mysql" \/ (ses[s].db = "postgres" /\ ~required)
        /\ Set(s, [ses[s] EXCEPT !.at = "proxy"])
     \/ /\ UpstreamTLSEnabled /\ ses[s].db # "mysql"
        /\ \E cert \in Certs :
             Accepts(cert) /\ Set(s, [ses[s] EXCEPT !.at = "proxy", !.up = "tls", !.cert = cert])
     \/ /\ UpstreamTLSEnabled /\ ses[s].db # "mysql"
        /\ Set(s, [ses[s] EXCEPT !.at = "done", !.client = "closed"])

\* startUpstreamTLS: nothing without a policy or for MySQL; plaintext when a
\* Postgres server declines and TLS is only preferred; TLS when the handshake
\* accepts the certificate; and else an error, upon which the connection that
\* was dialed is closed.
StartUpstreamTLS(s) ==
  /\ ses[s].at = "tls"
  /\ \/ /\ \/ ~UpstreamTLSEnabled \/ ses[s].db = "mysql" \/ (ses[s].db = "postgres" /\ ~required)
        /\ Set(s, [ses[s] EXCEPT !.at = "proxy"])
     \/ /\ UpstreamTLSEnabled /\ ses[s].db # "mysql"
        /\ \E cert \in Certs :
             Accepts(cert) /\ Set(s, [ses[s] EXCEPT !.at = "proxy", !.up = "tls", !.cert = cert])
     \/ UpstreamTLSEnabled /\ ses[s].db # "mysql" /\ Set(s, Released(ses[s]))

\* A client that asks for TLS is passed through to a MySQL server as it was
\* dialed, whatever the policy: the handshake, if any, is theirs.
PassThrough(s) ==
  ses[s].db = "mysql" /\ Set(s, [ses[s] EXCEPT !.at = "relay", !.up = "passed"])

\* proxyConn begins.  configureEngine gave a MySQL engine the policy, and its
\* handshake (see MySQLHandshake), unless the client asks for TLS itself, goes on
\* under TLS, in plaintext if the server has none and it is only preferred, or
\* ends the session.
StartProxy(s) ==
  /\ ses[s].at = "proxy"
  /\ \/ PassThrough(s)
     \/ /\ UpstreamTLSEnabled /\ ses[s].db = "mysql"
        /\ \/ \E cert \in Certs :
                 Accepts(cert) /\ Set(s, [ses[s] EXCEPT !.at = "relay", !.up = "tls", !.cert = cert])
           \/ ~required /\ Set(s, [ses[s] EXCEPT !.at = "relay"])
           \/ Set(s, Released(ses[s]))
     \/ ~(UpstreamTLSEnabled /\ ses[s].db = "mysql") /\ Set(s, [ses[s] EXCEPT !.at = "relay"])

\* Either end closes its connection (external); the proxy then ends and both
\* connections are closed.
ClientCloses(s) ==
  ses[s].client = "open" /\ Set(s, [ses[s] EXCEPT !.client = "closed"])
DatabaseCloses(s) ==
  ses[s].at = "relay" /\ ses[s].up # "closed" /\ Set(s, [ses[s] EXCEPT !.up = "closed"])
ProxyEnds(s) ==
  /\ ses[s].at = "relay" /\ "closed" \in {ses[s].client, ses[s].up}
  /\ Set(s, Released(ses[s]))

Serve(s) == Lookup(s) \/ DialUpstream(s) \/ StartUpstreamTLS(s) \/ StartProxy(s) \/ ProxyEnds(s)
------------------------------------------------------------------------------
Cancel == ~cancelled /\ cancelled' = TRUE /\ UNCHANGED <<cfg, run, link, ses>>

Tunnel == StartTunnel \/ Dial \/ Registered \/ CancelWatch \/ ServeEnds \/ Pause
Listener == StartListener \/ ListenerEnds
Next ==
  \/ Tunnel \/ Listener \/ LinkLost \/ Cancel
  \/ \E s \in Sessions : Accept(s) \/ ClientCloses(s) \/ DatabaseCloses(s) \/ Serve(s)

Spec == Init /\ [][Next]_vars

\* The goroutines run and dials end by their timeout.  A registration and a TLS
\* request have no deadline: the peer answers or its connection fails.  And a
\* gateway that is dialed again and again is reached and accepts in the end.
FairSpec ==
  /\ Spec /\ WF_vars(Tunnel) /\ WF_vars(Listener)
  /\ SF_vars(Dial /\ run' = "register") /\ SF_vars(Registered /\ run' = "serve")
  /\ \A s \in Sessions : WF_vars(Serve(s))
------------------------------------------------------------------------------
Records == [at : {"none", "lookup", "dial", "tls", "proxy", "relay", "done"},
            open : Opens \union {""}, db : Supported \union {""},
            client : {"none", "open", "closed"}, up : {"none", "raw", "tls", "passed", "closed"},
            cert : Certs]

\* Types.
TypeOK ==
  /\ cfg \in Configs /\ cancelled \in BOOLEAN /\ link \in BOOLEAN
  /\ run \in {"start", "dial", "register", "serve", "pause", "listen", "returned", "failed"}
  /\ ses \in [Sessions -> Records]

\* "Only 'prefer' falls back to plaintext" (upstreamtls.go), across the three
\* ways TLS is negotiated: in whichever mode and for whichever engine, a session
\* that relays has the encryption and the server's proof the mode stands for,
\* and an agent given a mode that is none of them serves nobody.  The one way
\* round the policy is that of a MySQL client that asks for TLS itself: the
\* agent then has no TLS of its own and has seen no certificate.
PolicyKept ==
  TypeOK /\ \A s \in Sessions :
    LET r == ses[s] IN
    r.at = "relay" /\ r.up # "closed" /\ cfg.tls \notin {"disable", "prefer"} =>
      /\ r.up = "tls" \/ (r.up = "passed" /\ r.db = "mysql")
      /\ CASE cfg.tls = "require" -> TRUE
           [] cfg.tls = "verify-ca" -> r.up = "tls" => r.cert.chain
           [] cfg.tls = "verify-full" -> r.up = "tls" => r.cert.chain /\ r.cert.name
           [] OTHER -> FALSE

\* No database connection outlives its client: whatever failed on the way, and
\* whether the client, its tunnel or the agent's ctx ended, the connection that
\* serveStream dialed is closed.
UpstreamReleased ==
  \A s \in Sessions :
    ses[s].client = "closed" ~> (ses[s].at = "done" /\ ses[s].up \in {"none", "closed"})

\* "reconnecting on failure" (RunTunnel), until cancelled: a started agent gets
\* to serve after every failed dial, rejection and lost connection, and once its
\* ctx is done it returns, wherever in its loop it is.
ServesUntilCancelled ==
  run \notin {"start", "failed"} ~> (IF cancelled THEN run = "returned" ELSE run \in {"serve", "listen"})

\* What an engine is handed, or relays over, is what the policy accepts.
Policed(r) ==
  /\ required => r.up \in {"tls", "closed"} \/ (r.up = "passed" /\ r.db = "mysql")
  /\ r.up = "tls" => Accepts(r.cert)

SessionInv(r) ==
  /\ r.client = "open" => r.at # "none"
  /\ r.at \in {"dial", "tls", "proxy", "relay"} => r.db \in Supported
  /\ r.at = "tls" => r.up = "raw"
  /\ r.at = "proxy" => IF r.db = "mysql" THEN r.up = "raw" ELSE Policed(r)
  /\ r.at = "relay" => Policed(r)

\* The inductive invariant: besides, nobody is served before the policy is built.
IInv ==
  /\ TypeOK
  /\ PolicyBuilds \/ (run \in {"start", "failed"} /\ \A s \in Sessions : ses[s].at = "none")
  /\ run = "listen" => cfg.dbType \in Supported
  /\ \A s \in Sessions : SessionInv(ses[s])
==============================================================================
