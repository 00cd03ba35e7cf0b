------------------------------- MODULE EdgeRun -------------------------------
(***************************************************************************)
(* The edge's call-home loop: Client.Run with ensureTLSMaterial, enroll,   *)
(* dial and the wait between attempts, over the three files that hold the  *)
(* edge's mTLS identity.  The files outlive the process: it may crash      *)
(* between two writes or in the middle of one, and is started again.       *)
(*                                                                         *)
(* Every enrollment makes one key and one certificate for it, numbered     *)
(* 1, 2, ...: certificate g belongs to key g.  What the connected client   *)
(* does is in EdgeWork; here serve only ends.                              *)
(***************************************************************************)
EXTENDS Integers, FiniteSets

CONSTANTS MaxStale,   \* bound: certificates that come within an hour of expiry
          MaxFaults,  \* bound: crashes, failed writes, failed Enroll calls
          MaxBackoff  \* Config.MaxBackoff, in seconds

\* ca: CABundlePEM, dir: TLSDir, token: EnrollToken are set; reconnect.
Config == [ca : BOOLEAN, dir : BOOLEAN, token : BOOLEAN, reconnect : BOOLEAN]

EdgeRunAssumption ==
  MaxStale \in Nat /\ MaxFaults \in Nat /\ MaxBackoff \in Nat \ {0}

NoFile == 0   \* absent, unreadable or empty
Torn == -1    \* a prefix of what was being written
Good == 1     \* a CA bundle that parses

Files == {"ca", "cert", "key"}
NoMaterial == [f \in Files |-> NoFile]   \* a nil *tlsMaterial: bearer mode

VARIABLES
  cfg,       \* the configuration
  pc,        \* where Run is; the names of Files are the writeSecret calls
  mat,       \* the material Run holds
  disk,      \* the contents of ca.pem, client.crt and client.key
  gen,       \* certificates issued so far
  stale,     \* certificates certValid no longer accepts
  backoff,
  cancelled, \* ctx
  outcome,   \* why Run returned
  faults     \* history: faults so far

memVars == <<mat, backoff, cancelled, outcome>>
vars == <<cfg, pc, disk, gen, stale, faults, memVars>>

Contents == [Files -> Int]

TypeOK ==
  /\ cfg \in Config
  /\ pc \in Files \cup {"load", "enroll", "dial", "serve", "wait", "done", "down"}
  /\ mat \in Contents /\ disk \in Contents
  /\ gen \in Nat /\ stale \subseteq 1..gen
  /\ backoff \in 1..MaxBackoff
  /\ cancelled \in BOOLEAN
  /\ outcome \in {"none", "ctx", "config", "enroll", "write", "dial", "nil"}
  /\ faults \in 0..MaxFaults

\* A new installation, or one whose certificate was put there by hand.
Init ==
  /\ cfg \in Config
  /\ \/ gen = 0 /\ disk = NoMaterial
     \/ /\ gen = 1
        /\ \E ca \in {NoFile, Good} :
             disk = [f \in Files |-> IF f = "ca" THEN ca ELSE 1]
  /\ pc = "load" /\ mat = NoMaterial /\ stale = {} /\ backoff = 1
  /\ cancelled = FALSE /\ outcome = "none" /\ faults = 0

-----------------------------------------------------------------------------
(* ensureTLSMaterial *)

Return(o) ==
  /\ pc' = "done" /\ outcome' = o

Present == disk["cert"] # NoFile /\ disk["key"] # NoFile

\* certValid fails on a certificate that does not parse.
Fresh == Present /\ disk["cert"] # Torn /\ disk["cert"] \notin stale

\* pickCA: the stored bundle before the configured one.
Stored ==
  [disk EXCEPT !["ca"] =
     IF disk["ca"] # NoFile THEN disk["ca"] ELSE IF cfg.ca THEN Good ELSE NoFile]

\* The caller gets m, and dials.
Use(m) ==
  /\ mat' = m /\ pc' = "dial" /\ UNCHANGED outcome

DowngradingLoad ==
  /\ pc = "load"
  /\ \/ (cfg.ca \/ cfg.dir) /\ Fresh /\ Use(Stored)
     \/ ~((cfg.ca \/ cfg.dir) /\ Fresh) /\ ~(cfg.ca /\ cfg.token) /\ Use(NoMaterial)
     \/ /\ cfg.ca /\ ~Fresh /\ cfg.token
        /\ pc' = "enroll" /\ UNCHANGED <<mat, outcome>>
  /\ UNCHANGED <<cfg, disk, gen, stale, faults, backoff, cancelled>>

EagerLoad ==
  /\ pc = "load"
  /\ \/ cfg.ca /\ cfg.token /\ pc' = "enroll" /\ UNCHANGED <<mat, outcome>>
     \/ ~(cfg.ca /\ cfg.token) /\ Use(NoMaterial)
  /\ UNCHANGED <<cfg, disk, gen, stale, faults, backoff, cancelled>>

\* What ensureTLSMaterial decides from the files.
Load ==
  /\ pc = "load"
  /\ \/ ~cfg.ca /\ ~cfg.dir /\ Use(NoMaterial)
     \/ (cfg.ca \/ cfg.dir) /\ Fresh /\ Use(Stored)
     \/ cfg.dir /\ ~Fresh /\ ~cfg.ca /\ Use(NoMaterial)
     \/ cfg.ca /\ ~Fresh /\ ~cfg.token /\ Present /\ Use(Stored)
     \/ cfg.ca /\ ~Fresh /\ ~cfg.token /\ ~Present /\ Return("config") /\ UNCHANGED mat
     \/ /\ cfg.ca /\ ~Fresh /\ cfg.token
        /\ pc' = "enroll" /\ UNCHANGED <<mat, outcome>>
  /\ UNCHANGED <<cfg, disk, gen, stale, faults, backoff, cancelled>>

\* The gateway signs the fresh key.
Enroll ==
  /\ pc = "enroll"
  /\ gen' = gen + 1
  /\ mat' = [f \in Files |-> IF f = "ca" THEN Good ELSE gen + 1]
  /\ pc' = "ca"
  /\ UNCHANGED <<cfg, disk, stale, faults, backoff, cancelled, outcome>>

\* The call fails, before or after the gateway signed; so does one that is
\* cancelled when the gateway has signed already.
EnrollFails ==
  /\ pc = "enroll"
  /\ faults < MaxFaults /\ faults' = faults + 1
  /\ gen' \in {gen, gen + 1}
  /\ Return("enroll")
  /\ UNCHANGED <<cfg, mat, disk, stale, backoff, cancelled>>

\* ctx is done before the gateway has signed.
EnrollCancelled ==
  /\ pc = "enroll" /\ cancelled
  /\ Return("enroll")
  /\ UNCHANGED <<cfg, mat, disk, gen, stale, faults, backoff, cancelled>>

NextWrite(f) == IF f = "ca" THEN "cert" ELSE IF f = "cert" THEN "key" ELSE "dial"

KeepOldKeyWrite(f) ==
  /\ pc = f
  /\ disk' = IF f = "key" /\ disk["key"] # NoFile THEN disk ELSE [disk EXCEPT ![f] = mat[f]]
  /\ pc' = NextWrite(f)
  /\ UNCHANGED <<cfg, gen, stale, faults, memVars>>

\* writeSecret of ca.pem, then client.crt, then client.key.
WriteSecret(f) ==
  /\ pc = f
  /\ disk' = [disk EXCEPT ![f] = mat[f]]
  /\ pc' = NextWrite(f)
  /\ UNCHANGED <<cfg, gen, stale, faults, memVars>>

\* os.WriteFile truncates and writes: stopped anywhere, it leaves the old
\* contents, nothing, a prefix, or all of it.
Interrupted(f) ==
  \E c \in {disk[f], NoFile, Torn, mat[f]} : disk' = [disk EXCEPT ![f] = c]

WriteFails(f) ==
  /\ pc = f
  /\ faults < MaxFaults /\ faults' = faults + 1
  /\ Interrupted(f)
  /\ Return("write")
  /\ UNCHANGED <<cfg, gen, stale, mat, backoff, cancelled>>

-----------------------------------------------------------------------------
(* Run *)

\* mtlsTLSConfig: the certificate and key parse and match, and so does the CA.
Usable(m) == m["cert"] > 0 /\ m["cert"] = m["key"] /\ m["ca"] # Torn

\* The end of an attempt, after conn.Close.
Attempted(o) ==
  IF cfg.reconnect THEN pc' = "wait" /\ UNCHANGED outcome ELSE Return(o)

\* grpc.NewClient does not connect: only mtlsTLSConfig can fail.
Dial ==
  /\ pc = "dial"
  /\ \/ /\ mat = NoMaterial \/ Usable(mat)
        /\ pc' = "serve" /\ UNCHANGED outcome
     \/ /\ mat # NoMaterial /\ ~Usable(mat)
        /\ Attempted("dial")
  /\ UNCHANGED <<cfg, mat, disk, gen, stale, faults, backoff, cancelled>>

\* serve returns: Connect or the registration failed, the stream ended after
\* the gateway had registered the edge, or ctx was cancelled.
ServeEnds ==
  /\ pc = "serve"
  /\ backoff' = 1
  /\ Attempted("nil")
  /\ UNCHANGED <<cfg, mat, disk, gen, stale, faults, cancelled>>

BreakingWaitCancelled ==
  /\ pc = "wait" /\ cancelled
  /\ pc' = "load"
  /\ UNCHANGED <<cfg, disk, gen, stale, faults, memVars>>

WaitCancelled ==
  /\ pc = "wait" /\ cancelled
  /\ Return("ctx")
  /\ UNCHANGED <<cfg, mat, disk, gen, stale, faults, backoff, cancelled>>

WaitTimer ==
  /\ pc = "wait"
  /\ pc' = "load"
  /\ backoff' = IF 2 * backoff > MaxBackoff THEN MaxBackoff ELSE 2 * backoff
  /\ UNCHANGED <<cfg, mat, disk, gen, stale, faults, cancelled, outcome>>

-----------------------------------------------------------------------------
(* The environment *)

Running == pc \notin {"done", "down"}

\* A signal.
Cancel ==
  /\ Running /\ ~cancelled
  /\ cancelled' = TRUE
  /\ UNCHANGED <<cfg, pc, disk, gen, stale, faults, mat, backoff, outcome>>

\* Certificate g comes within certRenewSkew of its end.
GoStale(g) ==
  /\ g \notin stale /\ Cardinality(stale) < MaxStale
  /\ stale' = stale \cup {g}
  /\ UNCHANGED <<cfg, pc, disk, gen, faults, memVars>>

Crash ==
  /\ Running
  /\ faults < MaxFaults /\ faults' = faults + 1
  /\ pc' = "down"
  /\ \/ pc \in Files /\ Interrupted(pc)
     \/ pc \notin Files /\ UNCHANGED disk
  /\ UNCHANGED <<cfg, gen, stale, memVars>>

Restart ==
  /\ ~Running
  /\ pc' = "load" /\ mat' = NoMaterial /\ backoff' = 1
  /\ cancelled' = FALSE /\ outcome' = "none"
  /\ UNCHANGED <<cfg, disk, gen, stale, faults>>

-----------------------------------------------------------------------------
Step ==
  \/ Load \/ Enroll \/ EnrollCancelled \/ Dial
  \/ WaitCancelled \/ WaitTimer
  \/ \E f \in Files : WriteSecret(f)

Fault ==
  \/ EnrollFails \/ Crash
  \/ \E f \in Files : WriteFails(f)

Next ==
  \/ Step \/ ServeEnds \/ Fault \/ Cancel \/ Restart
  \/ \E g \in 1..gen : GoStale(g)

Spec == Init /\ [][Next]_vars

\* The process runs, timers fire and Enroll returns; a stream need not end
\* until ctx is cancelled.  A select with ctx.Done ready again and again takes
\* it.  An ended process is started again.
Fairness ==
  /\ WF_vars(Step) /\ WF_vars(cancelled /\ ServeEnds)
  /\ SF_vars(WaitCancelled) /\ WF_vars(Restart)

FairSpec == Spec /\ Fairness

-----------------------------------------------------------------------------
(* Properties *)

\* Whatever the files hold, an edge with a CA bundle never falls back to the
\* bearer token: not after a crash, a torn file or an expiry.
NoDowngrade ==
  cfg.ca /\ pc \in {"dial", "serve"} => mat # NoMaterial

\* Reconnecting and restarting use no enrollment: beyond the first there is
\* one only for a certificate that went stale or for a fault.
EnrollmentsBounded ==
  TypeOK /\ gen <= 1 + Cardinality(stale) + faults

\* Every enrollment so far but one is paid for by an expiry or a fault.
Spent == Cardinality(stale) + faults

\* The certificate of the latest enrollment is good, on disk or on its way there.
Holding == IF pc \in Files THEN mat["cert"] \notin stale ELSE Fresh

\* Inductive: Run enrolls only when it holds nothing good, so all enrollments
\* so far are paid for; what it then writes is one certificate with its key.
IInv ==
  /\ TypeOK
  /\ NoDowngrade
  /\ pc \in Files =>
       /\ mat["ca"] = Good
       /\ mat["cert"] \in 1..gen /\ mat["key"] = mat["cert"]
  /\ pc = "key" => disk["cert"] = mat["cert"]
  /\ gen <= Spent \/ (gen <= 1 + Spent /\ Holding)
  /\ pc = "enroll" => gen <= Spent

\* A signal ends Run, wherever it is.
CancelEnds == cancelled ~> ~Running

\* "dials the gateway and serves work, reconnecting with backoff until ctx is
\* cancelled" (transport.go): while nothing fails but the connection, Run keeps
\* getting to the point of serving.
KeepsServing == [](faults = 0) => []<>(pc \in {"serve", "done"})

\* The same also for an edge that was stopped in the middle of an enrollment:
\* "enrolling via the gateway if necessary" (material.go).
RecoversServing == []<>(pc \in {"serve", "done"})
=============================================================================
