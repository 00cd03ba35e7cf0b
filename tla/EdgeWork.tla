------------------------------ MODULE EdgeWork ------------------------------
(***************************************************************************)
(* The edge's call-home client (internal/edge/transport) while it is       *)
(* connected: serve's receive loop on one Connect stream after another,    *)
(* the map of running work, and one goroutine per assignment that runs the *)
(* tool through Registry.Dispatch and streams the outcome back.  Work is   *)
(* tied to the stream it came on, the map to the client: a run outlives    *)
(* its stream.  The client is not stopped here (EdgeRun has that); its     *)
(* answers to pings and registrations change nothing and are left out.     *)
(***************************************************************************)
EXTENDS Naturals, Sequences

CONSTANTS RunIds,      \* run ids the gateway assigns
          EmptyId,     \* the empty one
          MaxStreams,  \* bound: Connect streams
          MaxJobs,     \* bound: goroutines started
          InboxCap     \* messages in flight to the edge

ASSUME EdgeWorkAssumption ==
  MaxStreams \in Nat /\ MaxJobs \in Nat /\ InboxCap \in Nat

Streams == 1..MaxStreams
Jobs == 1..MaxJobs
NoJob == 0

VARIABLES
  cur,       \* streams opened so far; the last one is the current one
  serving,   \* serve is in its receive loop
  alive,     \* streams that have not broken
  inbox,     \* gateway messages on the current stream
  runs,      \* Client.runs: id -> the goroutine whose cancel is stored
  njobs,     \* goroutines started
  jid,       \* goroutine -> its run id
  jstream,   \* goroutine -> the stream it sends on
  jpc,       \* goroutine -> where it is
  cancelled, \* goroutines whose context is cancelled
  asked,     \* history: goroutines that a CancelWork was for
  answered   \* history: goroutines whose RunFinished went out on a live stream

netVars == <<cur, serving, alive, inbox>>
jobVars == <<runs, njobs, jid, jstream, jpc, cancelled>>
vars == <<netVars, jobVars, asked, answered>>

TypeOK ==
  /\ cur \in 0..MaxStreams
  /\ serving \in BOOLEAN /\ (serving => cur > 0)
  /\ alive \subseteq Streams
  /\ inbox \in Seq([kind : {"assign", "cancel"}, id : RunIds])
  /\ runs \in [RunIds -> Jobs \cup {NoJob}]
  /\ njobs \in 0..MaxJobs
  /\ jid \in Seq(RunIds) /\ jstream \in Seq(Streams)
  /\ jpc \in Seq({"run", "emit", "finish", "exit", "gone"})
  /\ Len(jid) = njobs /\ Len(jstream) = njobs /\ Len(jpc) = njobs
  /\ cancelled \subseteq 1..njobs /\ asked \subseteq 1..njobs
  /\ answered \subseteq 1..njobs

Init ==
  /\ cur = 0 /\ serving = FALSE /\ alive = {} /\ inbox = <<>>
  /\ runs = [i \in RunIds |-> NoJob]
  /\ njobs = 0 /\ jid = <<>> /\ jstream = <<>> /\ jpc = <<>>
  /\ cancelled = {} /\ asked = {} /\ answered = {}

-----------------------------------------------------------------------------
(* The stream.  The gateway may assign and cancel any run at any time, also *)
(* one it assigned before.                                                  *)

Connect ==
  /\ ~serving /\ cur < MaxStreams
  /\ cur' = cur + 1 /\ serving' = TRUE
  /\ alive' = alive \cup {cur + 1} /\ inbox' = <<>>
  /\ UNCHANGED <<jobVars, asked, answered>>

GatewaySends(kind, i) ==
  /\ cur \in alive /\ Len(inbox) < InboxCap
  /\ inbox' = Append(inbox, [kind |-> kind, id |-> i])
  /\ UNCHANGED <<cur, serving, alive, jobVars, asked, answered>>

StreamBreaks ==
  /\ cur \in alive
  /\ alive' = alive \ {cur}
  /\ UNCHANGED <<cur, serving, inbox, jobVars, asked, answered>>

\* Recv fails: serve returns.  Messages still in flight are lost.
RecvError ==
  /\ serving /\ cur \notin alive
  /\ serving' = FALSE /\ inbox' = <<>>
  /\ UNCHANGED <<cur, alive, jobVars, asked, answered>>

Received(kind, i) ==
  /\ serving /\ inbox # <<>>
  /\ Head(inbox) = [kind |-> kind, id |-> i]
  /\ inbox' = Tail(inbox)
  /\ UNCHANGED <<cur, serving, alive>>

-----------------------------------------------------------------------------
(* startWork, cancelWork *)

\* startWork: the empty id, and one in the map, which is running, are ignored.
StartWork(i) ==
  /\ Received("assign", i)
  /\ \/ /\ i = EmptyId \/ runs[i] # NoJob
        /\ UNCHANGED jobVars
     \/ /\ i # EmptyId /\ runs[i] = NoJob /\ njobs < MaxJobs
        /\ njobs' = njobs + 1
        /\ runs' = [runs EXCEPT ![i] = njobs + 1]
        /\ jid' = Append(jid, i)
        /\ jstream' = Append(jstream, cur)
        /\ jpc' = Append(jpc, "run")
        /\ UNCHANGED cancelled
  /\ UNCHANGED <<asked, answered>>

DeletingCancelWork(i) ==
  /\ Received("cancel", i)
  /\ cancelled' = cancelled \cup ({runs[i]} \ {NoJob})
  /\ asked' = asked \cup ({runs[i]} \ {NoJob})
  /\ runs' = [runs EXCEPT ![i] = NoJob]
  /\ UNCHANGED <<njobs, jid, jstream, jpc, answered>>

\* cancelWork cancels the run's context and leaves the map to finishRun.
CancelWork(i) ==
  /\ Received("cancel", i)
  /\ cancelled' = cancelled \cup ({runs[i]} \ {NoJob})
  /\ asked' = asked \cup ({runs[i]} \ {NoJob})
  /\ UNCHANGED <<runs, njobs, jid, jstream, jpc, answered>>

-----------------------------------------------------------------------------
(* handleWork and finishRun, in the run's goroutine *)

JGo(j, l) == jpc' = [jpc EXCEPT ![j] = l]

\* The goal does not decode to a tool call, or Dispatch returns a result:
\* the tool's own, or ok=false for an unknown tool or a handler error.
Dispatch(j) ==
  /\ jpc[j] = "run"
  /\ JGo(j, "emit") \/ JGo(j, "finish")
  /\ UNCHANGED <<netVars, runs, njobs, jid, jstream, cancelled, asked,
                 answered>>

EmitResult(j) ==
  /\ jpc[j] = "emit"
  /\ JGo(j, "finish")
  /\ UNCHANGED <<netVars, runs, njobs, jid, jstream, cancelled, asked,
                 answered>>

SilentEmitFinished(j) ==
  /\ jpc[j] = "finish"
  /\ JGo(j, "exit")
  /\ answered' = IF jstream[j] \in alive /\ j \notin cancelled
                 THEN answered \cup {j} ELSE answered
  /\ UNCHANGED <<netVars, runs, njobs, jid, jstream, cancelled, asked>>

\* A send on a broken stream fails, and its error is ignored.
EmitFinished(j) ==
  /\ jpc[j] = "finish"
  /\ JGo(j, "exit")
  /\ answered' = IF jstream[j] \in alive
                 THEN answered \cup {j} ELSE answered
  /\ UNCHANGED <<netVars, runs, njobs, jid, jstream, cancelled, asked>>

ForgetfulFinishRun(j) ==
  /\ jpc[j] = "exit"
  /\ JGo(j, "gone")
  /\ cancelled' = cancelled \cup ({runs[jid[j]]} \ {NoJob})
  /\ UNCHANGED <<runs, netVars, njobs, jid, jstream, asked, answered>>

\* finishRun looks its entry up by id, cancels it and deletes it.
FinishRun(j) ==
  /\ jpc[j] = "exit"
  /\ JGo(j, "gone")
  /\ cancelled' = cancelled \cup ({runs[jid[j]]} \ {NoJob})
  /\ runs' = [runs EXCEPT ![jid[j]] = NoJob]
  /\ UNCHANGED <<netVars, njobs, jid, jstream, asked, answered>>

JobStep(j) == Dispatch(j) \/ EmitResult(j) \/ EmitFinished(j) \/ FinishRun(j)

-----------------------------------------------------------------------------
Next ==
  \/ Connect \/ StreamBreaks \/ RecvError
  \/ \E i \in RunIds : \/ GatewaySends("assign", i) \/ GatewaySends("cancel", i)
                       \/ StartWork(i) \/ CancelWork(i)
  \/ \E j \in 1..njobs : JobStep(j)

Spec == Init /\ [][Next]_vars

\* The receive loop runs, and tool handlers return: each has a timeout or
\* watches its context.
Fairness ==
  /\ WF_vars(RecvError)
  /\ \A i \in RunIds : WF_vars(StartWork(i)) /\ WF_vars(CancelWork(i))
  /\ \A j \in Jobs : WF_vars(j <= njobs /\ JobStep(j))

FairSpec == Spec /\ Fairness

-----------------------------------------------------------------------------
(* Properties *)

Live(j) == j \in 1..njobs /\ jpc[j] # "gone"

\* The map and the goroutines agree, so an id is run by one goroutine at a
\* time however often and on however many streams it is assigned, and
\* finishRun, which looks its entry up by id, always finds its own.
RunsMatchJobs ==
  /\ \A i \in RunIds : runs[i] # NoJob => Live(runs[i]) /\ jid[runs[i]] = i
  /\ \A j \in 1..njobs : Live(j) => runs[jid[j]] = j

\* While the client itself is not stopped, a run's context is cancelled before
\* it ends only by a CancelWork that arrived while it ran: not by another run's
\* finishRun, and not by a CancelWork for an earlier run of the same id.
NoStrayCancel ==
  \A j \in cancelled : Live(j) => j \in asked

\* "the edge never drops a dispatched call silently" (dispatch.go), for the
\* client that dispatches: a run that was started reports its end on the stream
\* its assignment came on, also when it was cancelled and when the client has
\* moved on, unless that stream breaks.
AssignmentAnswered ==
  \A j \in Jobs :
    j <= njobs ~> j <= njobs /\ (j \in answered \/ jstream[j] \notin alive)

\* The inductive invariant.
IInv == TypeOK /\ RunsMatchJobs /\ NoStrayCancel
=============================================================================
