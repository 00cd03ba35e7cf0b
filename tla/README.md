# Skybridge: TLA+ models, model checking and proofs

Skybridge gives native database clients access to databases in a private
network without an inbound port. An **agent** inside the network dials out to a
**gateway** and keeps one multiplexed **tunnel** to it; the gateway relays client
connections over streams of that tunnel; at the agent's end a **wire engine**
(Postgres, MySQL, MongoDB) talks to the database, masks result rows and, where
configured, replaces the client's session token by a database credential. A
second program, the **edge**, calls home to a SaaS gateway over gRPC and runs
read-only tools on its behalf.

This directory holds TLA+ modules of those parts, the TLC runs that check them,
and TLAPS proofs. Every definition is translated from the Go source; the `map`
in `PROJECT.json` gives the lines each one stands for.

```
cd tla
tlc -workers 2 -config TunnelIds.cfg MCTunnel     # any run of PROJECT.json
tlapm TunnelProofs.tla                            # each *Proofs module by itself
```

## 1. Inventory

| Part | State | Operations | Concurrency and failure | Module |
|---|---|---|---|---|
| Tunnel session and streams (`internal/tunnel`) | next id, stream map, accept and control channels, per-stream buffer, flags and error | Open, Accept, SendControl, NextControl, Close, readLoop; Stream Read, Write, Close | readLoop against every caller; look-ups that unlock before they act; connection loss; full channels | `Tunnel`, `ByteStream` |
| Gateway (`internal/gateway/gateway.go`, `httpstore.go`, `store.go`) | agents and targets maps; per-relay copies, counts, recorded session | ServeAgent (register, ack, serve, deregister), ServeClient (lookup, open, record, relay, end) | one goroutine per agent and per client, two copies per relay; agents that flap; store calls that fail | `Gateway` |
| Agent's registration over a tunnel (`internal/agent/agent.go`) | position of ServeTunnelConn | register, await ack, accept, heartbeat, cancel | handshake on the same connection that already carries streams | `AgentLink` |
| Agent's two modes and its sessions (`agent.go`, `upstreamtls.go`, `clienttls.go`, `internal/config`) | position in the reconnect or accept loop; per session target, connections, certificate | RunTunnel, ServeTunnelConn, serveStream; RunListener; startUpstreamTLS, proxyConn | refused and lost gateways, unknown targets, failed dials and handshakes, cancellation at any point | `AgentServe` |
| Masking chain and the overlay's synchronisation (`internal/mask`, `internal/agent/overlay_source.go`) | the overlay's rule set; a row between two maskers | MaskRow of chain, remote and overlay; seed and poll, Replace | the rules are swapped while a row is masked; remote calls and fetches fail | `Masking` |
| Gateway's login-user sniffer (`internal/gateway/dbuser.go`) | buffer, found user | Write | logins cut into chunks anywhere; buffer limit | `Sniffer` |
| Edge work (`internal/edge/transport/transport.go`, `dispatch.go`) | runs map, one goroutine per run | startWork, cancelWork, handleWork, finishRun | duplicate assignments, late cancels, runs that outlive their stream | `EdgeWork` |
| Edge connection and identity (`transport.go`, `material.go`, `pki.go`) | three PEM files, backoff, ctx | Run, ensureTLSMaterial, enroll, writeSecret, dial | crash between or within file writes, expiry, failed calls, restart, cancel | `EdgeRun` |
| MySQL command phase (`internal/wire/mysql/mysql.go`) | channel of flags, position in a response, write buffer | clientToServer, serverToClient, handleResultResponse, handleOneResultSet, forwardRest | two goroutines that share one channel; multi-result responses; either end leaving | `MySQLRelay` |
| MySQL connection phase and credential injection (`mysql.go`, `auth.go`) | sequence offset, TLS state of either side, expected sequence number | Proxy, startUpstreamTLS, passthrough; ProxyInject, completeUpstreamAuth | sequence offset shared by two goroutines; TLS refused; either end leaving at any point | `MySQLHandshake` |
| Postgres relay (`internal/wire/postgres/postgres.go`) | columns, read and write buffer | Proxy, pipeBackendReader | partial reads, flush boundaries, stalls within a message, either end leaving | `PostgresRelay` |
| Postgres login (`postgres.go`, `auth.go`, `upstream_tls.go`, `internal/agent/credsource.go`) | negotiation, token, upstream authentication, read-ahead | Proxy, ProxyInject, negotiateStartup, authenticateUpstream, scramClientExchange | either end leaving at any point; read-ahead at the handover | `PostgresLogin` |
| MongoDB engine (`internal/wire/mongo`) | message in hand, two goroutines | Proxy, maskServer, transformMessage and the BSON walk | either end closing at any point; documents that do not parse | `MongoRelay`, `BSON` |
| Edge tools (`internal/edge/{envelope,dispatch,policy}.go`, `internal/edge/awsexec`) | one call: process, query, pages, result | DecodeToolRequest, Dispatch, ValidateReadOnlyAWSCommand, the three tools | processes that hang, queries that never end, calls that fail half-way, cancellation | `EdgeTools` |
| Generated code; reading of the environment | | | | not modelled, section 8 |

What has to hold: bytes of a stream arrive in order, completely and are never
attributed to another stream; an agent that is connected is found, one that is
gone is forgotten; a relay ends and its counts are final; result rows are masked
with the columns they belong to, and nothing else is changed; a login is let in
only when the database has accepted it, and a token never leaves the agent;
required TLS is never skipped; an assignment is run once and answered; an edge
does not lose its identity nor fall back to a weaker one; a tool's result says
what happened, and every call returns; a row is masked under one set of rules; no
database connection outlives its client.

## 2. How the modules fit together

```
 EdgeRun ── serve ── EdgeWork ── dispatch ── EdgeTools
 ByteStream   (what a stream promises)
     ▲ refinement
 Tunnel ◄── EXTENDS ── AgentLink    registration, streams over a real tunnel
     │
 Gateway ── Sniffer    many agents and clients; who logged in
     │ a stream carries one database connection
 AgentServe            the sessions: target, dial, TLS policy, engine
     ├ PostgresLogin  → PostgresRelay ┐
     ├ MySQLHandshake → MySQLRelay    ├ Masking
     └                  MongoRelay (BSON) ┘
```

`AgentLink` composes the two handshaking programs with the full `Tunnel` at both
ends. `Gateway` uses a session as the abstraction "open, or failed at some point
after the agent is gone", which is what `Tunnel` and `AgentLink` show, and in
return has several agents and clients. The wire modules start where a stream has
been opened. `AgentServe` has what surrounds them (which target, which TLS policy,
when connections are closed) for any number of sessions, and a proxied session there
relays until it ends. `PostgresLogin` hands over to `PostgresRelay` and `MySQLHandshake`
to `MySQLRelay` at the point where the code changes from login to piping.

`ByteStream` is the abstract specification of one direction of one stream: a
writer appends, a reader takes what was written in order, and sees EOF only after
the writer's close and all of its bytes, or the session's error.
`ImplementsByteStream` states that each direction of each stream of `Tunnel`,
under the refinement mapping in `Tunnel`'s `Bytes(e, i)`, is a `ByteStream`.

Three modules put parts that are alternatives, or that only hand over to each other,
into one specification: `Relays` (the SQL engine of a session after its login),
`Logins` (the engine during it) and `Edge` (the client's work and the loop around it).
They state the properties of both parts, and the proofs are about them. Their MC
modules add what is only model-checked: `MCRelays` the MongoDB engine, `MCLogins` what
the gateway's sniffer sees of a login, `MCEdge` the tool calls. A variable says which
part a behaviour is of. The parts do not interact there; the variables of those that
do not run keep a value in which nothing fair is enabled, so that each part's fairness
is its own module's.

## 3. Modules and the code

**Tunnel.** Both `Session`s of one connection, at the grain of the code's
critical sections. `Controllers` are the ends whose program calls `SendControl`.
`readLoop` is a program counter (`loop`) with the frame it
holds, so that between `ReadFrame`, the look-up (`HandleData`, `HandleClose`,
`HandleOpen`) and the act (`Deliver`, `RemoteClose`, `PushAccept`) anything else
may happen. `closeWithErr` is two steps, `CloseWithErr` (closes the channel and
the connection) and `Sweep` (fails the streams under the lock). `Open` is
`OpenInsert` and `OpenSend`; `Stream.Close` is `CloseLocal`, `CloseRemove`,
`CloseSend`. A chunk is its number in the stream; payload splitting is the loop
of `WriteChunk`. `Written` and `WriteFails` are the two outcomes of `writeFrame`.

**Gateway.** `pc` is `ServeAgent`'s position per agent connection, `cpc`
`ServeClient`'s per client. `Register` and `Deregister` are the two critical
sections on the maps; `Lookup` is `ServeClient`'s, and nothing is held between it
and `OpenStream`. `relayCounted` is `CopyUpEnds`, `CopyDownEnds`, `CloseBoth`,
`Drain`; results are those of `io.Copy`, and `errc`'s order is `first`. The store
may make its record and lose the answer (`StoreStarted`).

**AgentLink.** `apc` and `gpc` are the positions of `ServeTunnelConn` and
`ServeAgent`; each of their steps is a step of `Tunnel`. `inReg` is whether the
registry leads here, and `ClientOpen` is a gateway client that found it.

**EdgeWork.** `runs` is `Client.runs`, with the goroutine in place of its cancel
function. `StartWork`, `CancelWork`, `FinishRun` are the critical sections (an
assignment without an id, `EmptyId`, starts nothing);
`Dispatch`, `EmitResult`, `EmitFinished` the steps of `handleWork`.

**EdgeRun.** `disk` is what the three files hold: certificate number, nothing, or
a torn prefix. `Load` is the decision of `ensureTLSMaterial`; the three
`writeSecret` calls are three steps, and `Interrupted` is what a crash or a failed
write leaves. `Usable` is what `mtlsTLSConfig` accepts.

**EdgeTools.** One call, from a run's goal to its result. `Dispatch` decodes the
envelope and picks the tool. *Commands*: `CheckCommand` is the read-only policy over
tokens (as written, in lower case, flag or not, with "=" or not), `cliEnv` the
environment of the process, then the process, its timeout and its kill
(`StartProcess`, `Expire`, `Kill`, `ProcessExits`); `HolderExits` is a descendant that
keeps the output open, which `cmd.Run` waits for; `ReportRun` is the order in which
the outcome is told. *Log queries*: `StartQuery`, `GetQueryResults`, `Polled`, `Wake`,
with the deadline compared on a clock. *Metrics*: the window (`metricsTimeWindow`),
the pages, the target groups in batches, the stopped tasks, and how results become
series (`metricResultsToSeries`, `mergeEcsRunningTaskSeries`).

**AgentServe.** `run` is the position of `RunTunnel` or `RunListener`, `ses` each
session's (`Accept`, `Lookup`, `DialUpstream`, `StartUpstreamTLS`, `StartProxy`,
`ProxyEnds`), with its client, its upstream connection and the certificate the
database showed. `PassThrough` is the MySQL client that asks for TLS itself:
`Proxy` forwards its session as it is. `Released` is the deferred closes;
`CancelWatch` the goroutine that closes the tunnel's session when ctx is done.

**Masking.** `rules` is the overlay's atomic value, `snap` what `Overlay.MaskRow`
loaded. `sync` and `answer` are the poller and the response on its way. `normalizeRules`
is a set of results: keys that fall together are resolved by the map's iteration
order. A row goes through the remote masker value by value, two calls each
(`Analyzed`, `Anonymized`), and through the overlay column by column.

**Sniffer.** A stream is a sequence of frames with lengths; `Write` takes any number of
bytes, so every cut into chunks is a behaviour.

**BSON, MongoRelay.** `BSON` has `transformMessage` and the walk over documents as
operators with declared and real lengths, next to the reference they are checked
against; `MongoRelay` the two goroutines of `Proxy` around it.

**MySQLRelay.** `C2SFlag`, `C2SWrite` and its two ends, `ClientGone` (nothing more
to read) and `C2SEnd` (nothing more can be written), are `clientToServer`; `at` is
`serverToClient`'s position (`S2CTop`, `S2CFirst`, `S2CDefs`, `S2CEOF`, `S2CRows`,
`S2CRaw`, `S2CWriteFails`, `S2CEnd`). `first` is the goroutine that returned
first; `Returns` is its return together with the closing of both connections by
`Proxy`, and the other one ends upon it. `bw` holds, of the packets in the `bufio.Writer`, those a
client waits for; a full buffer may flush earlier ones at any write. The server
sends everything the protocol allows: multi-statement results, statements without
rows, `LOCAL INFILE` requests, an error after some rows, packets of 16 MiB; and the
client may send a query of that size, which is not flagged (`"long"`). What
the engine does not follow is remembered in the history variable `odd`, so that
each property can say what it depends on.

**MySQLHandshake.** Packets are their kind and sequence id. In `Proxy` the two
goroutines read, shift by the shared `offset` and write in separate steps. In
`ProxyInject` (`inject`) the proxy is the server to the client and the client to
the database: `ServerGreeting`, `ClientTLS`, `SwitchToClear` and `ReadToken` face
the client, `Resolve` is the credential source, `Login`, `OwnResponse` and
`CompleteUpstreamAuth` face the database, and only then does `Welcome` answer the
client; `Deny` is the ERR packet every failure before that ends in.

**PostgresRelay.** Messages carry a running number. `Fill` reads some of what is on
the way and perhaps the beginning of one message more, because the flush rule asks
whether the reader is drained; that beginning may be all the server has sent of it
(`Begins`). `Pipe` masks, buffers and flushes. The server's connection may end within a
message (`ServerGone`), and a message may have a length that none has (`Garbles`).
`PipeEnd` is the end of `pipeBackendReader` with the flush, `PipeFails` its returns
without one, and `CopyEnd` that of the copy from the client, which makes `Proxy` close
both ends whatever is under way. As in `MySQLRelay`, `first` says which came first.

**PostgresLogin.** `Proxy` and `ProxyInject` from the dial to the handover.
Cryptography is abstracted to whether the server accepts and whether its final
signature matches.

The clients, the database servers, the SaaS gateway, the network, crashes and
signals are environment actions, marked external in the map.

## 4. Runs

All passing runs together take every action and every disjunct of the
specifications. Deadlock checking is off where the system may come to rest (all
bounded work done, or the connection ended).

| Run | Shows |
|---|---|
| `tunnel_streams` | the refinement of `ByteStream`, and with it the order of the bytes; a reader is released by its session's end (`OpenedReaderReleased`) and by the peer's CLOSE (`CloseReachesReader`) |
| `tunnel_ids` | `NoIdCollision` with both ends opening; `RemoteCloseNeverError`; `OpenedStreamsEnded`; with control messages of one end among the frames |
| `gateway` | `RegistryServes`, `LastRegistrantWins` with an agent that comes back before its old connection is noticed; `FinalCounts`; `RelayReturns` |
| `agent_link` | `ServingMeansRegistered` on both sides of the handshake; `LeftAgentForgotten`; `RegistrationAnswered` |
| `edge` | *work*: `RunsMatchJobs`, `NoStrayCancel`, `AssignmentAnswered`; *connection*: `NoDowngrade`, `EnrollmentsBounded` under crashes and failures, `KeepsServing` without, `CancelEnds`; *tool calls*: `ResultHonest`, `ToolReturns` |
| `edge_series` | *violation*: `SeriesWhole`, see section 7 |
| `edge_wedged` | *violation*: `RecoversServing`, see section 7 |
| `mysql_multi` | *violation*: `MultiStatementMasked`, see section 7 |
| `relays` | the three engines after the login: `RowsOwnColumns` (SQL: a row is masked with its own columns, and nothing but text rows is rewritten), `MySQLAligned`, `LastWordsReachClient` (of a server whose end of the session is the first to go), `MongoFaithful` (only result documents are rewritten, as the reference does), `AnswersDelivered` (and that `Proxy` returns) |
| `logins` | both SQL logins, relayed and injected, and the sniffer: `LetInByServer`, `SeqAligned`, `RequiredMeansTLS`, `HandoverExact`, `OutcomeReported`, `LoginAttributed`, `LoginsConclude` |
| `masking` | `RowUnderOneRuleSet` and `RulesAreServed` while rules are swapped, calls fail and the agent is cancelled; `RefreshReaches` |
| `agent_serve` | `PolicyKept` for every engine and mode, sessions passed through excepted; `UpstreamReleased`; `ServesUntilCancelled` |

### Bounds

- *Tunnel.* Ids 1 and 2: one stream from each end, which is where parity could
  fail; streams share no state but the map and the wire. Two chunks show a gap or a
  reordering. Channels of capacity 1 and a wire of 2 frames make the full cases
  happen. Two control messages of the dialing end, against a control channel of 1,
  are in `tunnel_ids`; `agent_link` has control traffic of both ends, and
  `tunnel_streams` none.
- *AgentLink.* Two early streams and an accept channel of 2: as many OPENs before
  the ack as fit (section 7 has the case of one more).
- *Gateway.* Two connections of one agent and a client for either of two targets.
  More agents and overlapping targets are covered by the proofs.
- *EdgeWork.* Two ids and the empty one, two streams, three goroutines: an id can be
  run again, on the same or the next stream, beside another.
- *EdgeRun.* All sixteen configurations, two expiries and two faults: a fault while
  recovering from a fault.
- *MySQLRelay.* Two result sets of up to two rows and two columns: a statement
  without rows before one with, and two with. Result set ids alternate between two,
  which is enough to tell a row's set from the one before.
- *PostgresRelay.* Two statements, two rows, two messages in flight; message numbers
  are modulo 6, as a client waits for its response, and one has at most five messages.
- *MongoRelay.* Two messages, of every combination of sections, fields (ruled or not,
  nested, in an array, empty, of unknown type) and faulty lengths listed in `MCRelays`.
- *Sniffer.* Logins that end before, at and after the buffer's limit (`SniffCap = 44`
  in place of 16384: only where a frame ends relative to it matters), up to two
  negotiation frames before them, and every cut.
- *Masking.* Two columns, one written in two ways and one whose name has a blank that
  only a rule's key loses; two versions of the rules, the second one empty. Rows of
  any length and any rules are covered by the proofs.
- *AgentServe.* Two sessions, targets of every engine, one of a type no engine has, a
  name taken twice, and every configuration that is refused.
- *EdgeTools.* One call of each kind of command, query and metrics request, among them
  each early return; three ticks of waiting with a poll every two, so that the deadline
  falls between polls; two target groups per call and up to three groups, so that a
  second batch is not full; answers on one page, on several, and with one metric's
  points on two.
- *PostgresLogin, MySQLHandshake.* Every mode, method and client behaviour; one
  login is finite.

### Fairness

Weak fairness of a step stands for a goroutine that is scheduled and a call that
returns. It is assumed for `readLoop`, for calls already begun, for accept loops
and readers, for the copies once the connection they read has ended, for tool
handlers (they have timeouts), timers and the `Enroll` call. No one is obliged to
open, write, close, cancel, crash or lose a connection. A lost connection is
noticed eventually because Go enables TCP keep-alive on dialed and accepted
connections. `EdgeRun` assumes strong fairness of leaving the wait on a cancelled
context, because Go's `select` chooses at random among ready cases. `EdgeTools`
assumes that AWS calls end, timers fire and a killed process is gone; neither a process
nor a query need end by itself. `ToolReturns` besides needs `HolderExits`: `cmd.Run`
has no `WaitDelay`, so a descendant of the command that keeps its output open and never
exits keeps the call. `AgentServe` assumes that dials end, that a gateway which took
the connection answers or its connection fails (the registration has no deadline), and,
for serving again, that one that is dialed again and again accepts in the end
(strong fairness). `Masking` assumes for `RefreshReaches` that a control plane that
answers again and again is heard in time again and again. In the wire
modules the database answers what it was asked (`MySQLRelay`), except in
`PostgresRelay`, where only the relay is fair: what was sent must arrive even if
the server sends no more. A client need not leave; once `Proxy` has closed both ends,
the copy from it ends.

## 5. Proofs

TLAPS checks the following for all values of the constants, from the named
assumptions in the modules (bounds are natural numbers, capacities are positive,
the sets of constants are of the expected kind).

**TunnelProofs**, about `Tunnel`. `TypeCorrect`, `InvCorrect` (`IInv` is invariant),
`IdsNeverCollide`, `PeerCloseWins`, `OpenedStreamsEnd`. None of the last three is
inductive by itself. The invariant follows a stream's life at one end as a line:
an id that is *unarrived* (not allocated, or its OPEN still on the way) is known
nowhere (`UnarrivedInv`); an OPEN is on the way once (`OpenOnce`) and only for ids
of the right parity that were allocated (`AllocInv`); what is in the map has no
error, and what the peer has closed is out of it without one (`MapInv`); a stream
an end opened stays in the map until something ends it (`OwnInv`); a closed session
has an error (`SerrInv`). `NoIdCollision` is `UnarrivedInv` for the ids whose OPEN
is in flight; `RemoteCloseNeverError` is a part of `MapInv`; `OpenedStreamsEnded`
comes from `OwnInv` with the empty map of a swept session.

`TunnelImplementsByteStream` is the refinement: each direction of each stream is a
`ByteStream`, and what is buffered continues what was read, for any number of streams
and chunks, either end writing and closing, and a connection of any capacity that may
fail. The chunks of a stream are in up to four places: written to the connection, in
`readLoop`'s hands, in the buffer, read. `FlowInv` (shown by `FlowCorrect`) says of them:
- the frames on the connection are in the order they were written, behind the stream's
  OPEN while it has not arrived, the CLOSE after every chunk it counts (`Travels`);
- what `readLoop` holds was written, for a stream that has arrived (`Handles`), and is
  delivered to a stream that is in the map or has ended (`Delivers`);
- what the stream has is what was written first, none of it after the CLOSE, and all of
  it once `remoteClose` has been called (`Holds`);
- while the stream receives (the reader has not closed it, and it is in the map or still
  to arrive), the next chunk on the connection is the one after the last the stream or
  `readLoop` has, none is missing up to the CLOSE, and none at all while the connection
  and this session are up (`Continues`). This clause is what `Holds` is not inductive
  without: only a stream that has missed nothing may take a CLOSE for the end.

A stream that stops receiving never receives again (`Ages`), so a chunk dropped for it
leaves no gap before a later one. Every action is then one step of `ByteStream`, or
none: a `Write` whose frame was written is `Send`, `Close` is `Shut` and, when the CLOSE
is written, the other direction's `Finish`, `closeWithErr` is `Lose`, `Read` is `Recv` or
`End`.

The same module proves `ServingAgentsRegistered` about `AgentLink`, over the full
tunnel with any capacities. The agent learns of its registration by a frame, so
`LinkInv` follows that frame: an ack on the connection, in `readLoop`'s hands or in the
control channel (`AckWaits`), or an agent that serves, means that the gateway has
answered; the gateway answers only after it registered; and it is done only when its
session is closed. `LinkAssumption`, that the four control messages exist, is used by
this theorem only.

**GatewayProofs.** `InvCorrect`, `RegistryIsLive`, `LastRegistrantServes`,
`BindingFound`, `CountsAreFinal`, for any agents, targets, registrations and
clients. `RegInv` adds that whatever a map or a client names has registered and
keeps its registration; `RelayInv` ties a relay's position to its copies and its
record. `BindingFound` (a relay's registration named its target) and the invariant
itself are proved and not in a run.

**EdgeProofs**, about `Edge`. Of the client's work: `OneRunPerId` and `CancelsAreMeant`.
The map and the goroutines determine each other, which is what makes `finishRun`'s
look-up by id safe. Of the loop around it: `NeverDowngrades` and
`EnrollmentsArePaidFor`, for any number of expiries and faults and every configuration.
The bound on enrollments is not inductive: `IInv` of `EdgeRun` adds that one more than
was paid for has been made only while its certificate is good (`Holding`, on disk or on
its way there), that the loop gets to `Enroll` only without one, and what of the three
files is written at each place.

**MySQLHandshakeProofs** and **LoginProofs**, about `Logins`: the login, relayed or
injected, by either engine. `EngineInvariant` is that the engine that runs keeps its
`IInv`; from it follow `NobodyLetInEarly`, `NumbersStayAligned`, `RequiredTLSIsHad`,
`HandoverIsExact` and `OutcomesAreTold`.
- *MySQL.* The first module has the steps of `MySQLHandshake`, for any number of
  authentication rounds and any length of a response; the second takes its lemmas over
  by `INSTANCE`. `ServerInv` and `ClientInv` number either connection by itself;
  `SetupInv` says where each login stands before the goroutines run; `RelayInv` relates
  the two: one side talks at a time, and what is under way to the client is numbered
  without gap, shifted by `offset` until the result of the authentication has been
  read. That is why the goroutine that clears the offset cannot race the other.
- *Postgres.* `StreamInv` says what has become of every message of the server's stream
  (had by the client, read ahead, or on the way), `ClientInv` and `AgentInv` what the
  client and the agent have under way at each place of the login.

**RelayProofs**, about `Relays`: the session after the login. `SessionInvariant`, and
from it `RowsGetOwnColumns`, `EnginesStayAligned`, `LastWordsDeliveredFirst`, for any
statements, result sets, columns, rows and packets in flight.
- *Postgres.* `Numbered`: what is in the write buffer, in the reader and on the way is
  numbered without gap, wherever the reads are cut. `RowsFollow`: every row comes after
  its description or a row of the same statement, through all three places.
- *MySQL.* `Turns`: client and server take turns, which makes the flags of the channel
  the right ones (`Flagged`). `Ordered`, `HeadFits` and `LastFits`: the packets on their
  way are a walk through a response, from where `serverToClient` is to where the server
  is. `Tone` says when it follows at all; where it does not, `odd` says why.
- *Both.* `Closing`: when the server's direction was the first to return, it had read
  all that was on the way and flushed it (or, in Postgres, stands before a message
  without a length). It needs that a closed session has no server (`Closed => ~srvUp`),
  so that nothing is added afterwards. `LastWordsDeliveredFirst` claims nothing for a
  session whose client's direction returned first, or whose client could not be
  written to.

**MaskingProofs.** `RulesAlwaysServed` and `RowsUnderOneRuleSet`, for any names, rules,
versions and rows of any length. What a masked row obeys is not inductive: `RowInv`
says, per stage, what each column may hold (`RemoteOnly` before the overlay, in the
overlay `MaskedUnder(snap, j)` for the columns behind the loop and `RemoteOnly` for
those before it), and that the rules loaded are among those seen; `RulesInv` that an
agent without the overlay's layer has no rules, which is why a row may be done without
it. `Normalized` is the lemma about `normalizeRules`.

**AgentServeProofs.** `PolicyIsKept`, for any configurations, targets, opens and number
of sessions. `SessionInv` follows the connection from the dial: raw until the
negotiation, then what the policy accepts, except for MySQL, whose engine negotiates
itself unless its client asks for TLS, whose session is passed through and the one
exception of `PolicyKept`; `IInv` adds that nobody is served before the policy was
built, which is what rules out an unknown mode.

Each inductive invariant was also model-checked on the instance of its run, `FlowInv`
besides with three chunks and four frames on the connection. The refinement is checked
by `tunnel_streams` as well; as a property of a run it has a mutant.

Only model-checked:
- liveness: fairness and ENABLED are out of the prover's reach;
- `LoginAttributed`: where a frame begins is a fold over the lengths of those before it,
  induction over data again;
- `MongoFaithful`: the walk over BSON documents is recursive;
- `ResultHonest`: the read-only policy is a fold over the tokens of a command, and a
  metrics result is put together from sequences of pages and batches; what these compute
  for every input is induction over data;
- what the three violation runs show, which are counterexamples.

## 6. Each property can fail

For every property of every passing run `PROJECT.json` names a mutant: a variant of
a mapped definition with a plausible mistake (a dropped guard, a missing reset, a
swapped order), defined just before the original, under which TLC finds the
property violated. Examples: `UnguardedDeregister` removes map entries that point to
a newer connection; `HastyRead` reports EOF before the buffer is drained;
`DeletingCancelWork` removes the map entry at a cancel; `FreshReaderWelcome` starts
the relay with a new reader and loses what was read ahead; `RereadingOverlayColumn`
loads the rules per column instead of per row; `LeakyStartUpstreamTLS` forgets to close
the connection when the handshake fails; `ParentKill` kills the command on the caller's
context only. A property that speaks of several parts has a mutant in each.

## 7. Where the code and its comments disagree

With a run and a finding:

- *edge_wedged*. `ensureTLSMaterial` writes `client.crt` before `client.key`. A crash
  between the two leaves a certificate that is not about to expire and another
  key: every later start loads them, `dial` fails, and no new enrollment is made
  until the certificate nears its end.
- *mysql_multi*. `handleOneResultSet` takes an OK packet for the end of the response
  also when it announces more results, so the rows after it are not masked.
  `MySQLAligned` shows that the next query is masked again.

- *edge_series*. `getMetricDataPaginated` collects the results of all pages, and
  `metricResultsToSeries` keeps one result per metric, the last: when AWS gives a
  metric's points on two pages, those of the first are dropped and the result is `ok`.
  `ResultHonest` shows that a metric that comes in one piece is whole.

Met while modelling, visible in the guards of the properties:

- An OPEN that `readLoop` holds while the session is closed enters the emptied map.
  `OpenedReaderReleased` is therefore about opened, not accepted, streams.
- A stream of a session that ended because the peer's connection ended cleanly reads
  `io.EOF`, as if it had been closed; `ByteStream` allows it as the session's error.
- `ServeTunnelConn` accepts streams only after the ack, and the gateway registers
  before it sends the ack. If more OPENs than the accept channel holds (64) come in
  between, `readLoop` waits for room and never reads the ack. `RegistrationAnswered`
  is checked up to the capacity; with `AcceptCap = 1` TLC finds the wait.
- `deregister` of the last registrant removes a target that an earlier agent still
  serves.
- `ServeClient` waits for `SessionStarted` before it relays.
- `startWork` ignores an id that is still running on behalf of an earlier stream; that
  run reports on the earlier, broken stream.
- A failed `Enroll` call ends `Run` although `Reconnect` is set, and the backoff is
  reset after every `serve`, also one that never connected.
- A MySQL ERR packet after the first rows is taken for a row and not flushed, and one
  row of 16 MiB makes the rest of the connection raw (`odd` in `MySQLRelay`).
- `Proxy` of the SQL engines closes both ends as soon as one direction has ended, also
  when that is the client's: a client that shuts down its sending half does not get
  what is buffered or still to come (`first = "c2s"`).
- A Postgres message with a length below 4 ends `pipeBackendReader` without the flush
  of the other ends, and the messages before it are lost (`Unframed`).
- A Postgres server that stalls within a message keeps the messages before it in the
  write buffer, as the reader is not drained (`Stalled`).
- A MySQL client that asks for TLS is passed through under every upstream TLS mode: the
  agent then neither negotiates TLS nor sees the certificate (`PassThrough`).
- Rows of a prepared Postgres statement that was described once are masked with the
  columns of whatever was described last (`prepares` in `PostgresRelay`).
- In MySQL injection the TLS server reads from the connection, not from the reader
  that has read the SSLRequest. A ClientHello sent without waiting for anything may
  already be in that reader, and the handshake then waits for it until the client
  gives up (`pc = "lost"` in `MySQLHandshake`, a position that `LoginsConclude`
  excepts).
- An agent whose gateway accepts the connection and then says nothing stays in the
  registration, also when its ctx is done (`Registered` in `AgentServe`).
- An overlay rule's key is trimmed and lowered, a column's name only lowered: a column
  whose name has blanks around it is never masked by a rule (`Key` and `OverlayValue` in
  `Masking`).

## 8. Not modelled

- *Generated code*: written by protoc.
- *Reading of the environment and the commands' wiring* (`cmd`, most of
  `internal/config`): straight-line code without state; what a session or a tool uses
  of it is a constant of `AgentServe` and `EdgeRun`.
- *Characters and encodings*: the scanning of a command line into tokens, JSON, packet
  layouts. Tokens, fields and lengths are kept where control depends on them.
- *Cryptography and certificate verification*: kept as whether the peer accepts and
  what a certificate proves.
- *Layout of tool results*: deployments, events, load balancer names.
- *The HTTP exchanges* of the session store and the credential source: one call that
  succeeds, fails, or succeeds and loses its answer.
- *Memory*: the tunnel's per-stream buffer has no limit in the code, and none of the
  models says anything about how much a slow reader makes it hold.
- *Read deadlines of tunnel streams*: only tests set one.
- MySQL clients that pipeline commands, and sequence ids that wrap around in a
  `LOCAL INFILE` transfer.

## 9. What could follow

1. `AgentServe` over `Tunnel`, in place of its abstraction of a link.
2. A bound on the tunnel's buffers, should the code get one.
