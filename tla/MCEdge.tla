------------------------------- MODULE MCEdge --------------------------------
(***************************************************************************)
(* The edge's three parts for TLC: the goroutines of EdgeWork, the call-home *)
(* loop of EdgeRun and the tool calls of EdgeTools.  "part" says which one a *)
(* behaviour is of; the variables of the other two keep their first values. *)
(***************************************************************************)
EXTENDS Edge, TLC

CONSTANTS MaxWait, PollEvery, Batch

VARIABLES part
VARIABLES goal, host, role, at, call, ctx, runCtx, proc, held, env, runErr, clock,
          deadline, wake, query, seen, window, got, pages, todo, dims, res
------------------------------------------------------------------------------
(* The tool calls *)

Word(s) == [raw |-> s, low |-> s, dash |-> FALSE, eq |-> FALSE]
Flag(s) == [raw |-> s, low |-> s, dash |-> TRUE, eq |-> FALSE]
Upper(s, l) == [Flag(s) EXCEPT !.low = l]
FlagIs(s) == [Flag(s) EXCEPT !.eq = TRUE]
Command(ts) ==
  [size |-> "fits", meta |-> FALSE, balanced |-> TRUE, tokens |-> <<Word("aws")>> \o ts]

Commands ==
  {Command(ts) : ts \in {
     <<Word("ec2"), Word("describe-instances")>>,
     <<Flag("--region"), Word("eu"), Word("ec2"), Word("terminate-instances")>>,
     <<Flag("--query"), Flag("--region"), Word("s3"), Word("ls")>>,
     <<FlagIs("--region"), Word("s3"), Word("cp")>>,
     <<Upper("--REGION", "--region"), Word("x"), Word("s3api"), Word("list-buckets")>>,
     <<Word("secretsmanager"), Word("get-secret-value")>>,
     <<Word("ssm"), Word("list-buckets"), Flag("--with-decryption")>>,
     <<FlagIs("--profile"), Word("ec2"), Word("describe-instances")>>,
     <<Flag("--debug"), Word("ec2")>>}}
  \union {[Command(<<Word("s3"), Word("ls")>>) EXCEPT !.size = "long"],
          [Command(<<Word("s3"), Word("ls")>>) EXCEPT !.meta = TRUE],
          [Command(<<Word("s3"), Word("ls")>>) EXCEPT !.balanced = FALSE],
          [Command(<<>>) EXCEPT !.tokens = <<Word("echo"), Word("ls")>>]}

Envelope(name, args) ==
  [form |-> "envelope", version |-> 1, name |-> name, object |-> TRUE, args |-> args]

CLIGoals ==
  {Envelope("aws_readonly_cli", [command |-> c]) : c \in Commands}
    \union {[Envelope("aws_readonly_cli", <<>>) EXCEPT !.object = FALSE]}
LogsGoals ==
  {Envelope("cloudwatch_logs_insights", a) : a \in {
     [query |-> "q", log_groups |-> {"g"}], [query |-> "q", log_group |-> "g"],
     [query |-> "q"], [log_group |-> "g"]}}
ECS(service) == ("ecs_cluster" :> "c") @@ ("ecs_service" :> service)
Minutes(m) == ("minutes" :> m)
MetricsGoals ==
  {Envelope("cloudwatch_metrics", a) : a \in {
     ECS("svc") @@ Minutes(2), ECS("__all__") @@ Minutes(-5),
     ("alb_load_balancer" :> "lb") @@ ECS("svc"), ("ecs_cluster" :> "c"),
     ("ec2_instance_id" :> "i") @@ Minutes(3), ("cloudfront_distribution_id" :> "d") @@ Minutes(2000),
     ("alb_load_balancer" :> "lb") @@ ("ecs_service" :> "svc"), Minutes(60)}}
OtherGoals ==
  {[form |-> f, version |-> v, name |-> n, object |-> TRUE, args |-> <<>>] :
     f \in {"text", "envelope"}, v \in {1, 2}, n \in {"", "cloudwatch_metrics", "query_database"}}

Result(id, times, vals, status) == [id |-> id, times |-> times, vals |-> vals, status |-> status]
NoTasks == <<Result("ecs_tasks", <<>>, <<>>, "Complete"), Result("ec2_cpu", <<1>>, <<3>>, "Complete")>>
Averages == <<Result("ecs_tasks_avg", <<1, 2>>, <<5, 6>>, "Complete"), Result("cf_req", <<1>>, <<4>>, "")>>
Tasks(n, status) == <<Result("ecs_tasks", <<n>>, <<n + 6>>, status), Result("alb_req", <<n>>, <<9>>, status)>>
MCAnswers ==
  {<<NoTasks, Averages>>, <<NoTasks \o Averages>>, <<Tasks(1, "Complete") \o Averages>>,
   <<Tasks(1, "PartialData"), Tasks(2, "Complete"), Averages>>, <<<<>>>>}

HostVariables == {"AWS_ACCESS_KEY_ID", "AWS_SESSION_TOKEN", "AWS_REGION"}
MCCases ==
  [goal : CLIGoals, host : {HostVariables}, role : BOOLEAN]
    \union [goal : LogsGoals \union MetricsGoals \union OtherGoals, host : {{}}, role : {FALSE}]

Tool == INSTANCE EdgeTools WITH
  Cases <- MCCases,
  Answers <- MCAnswers, TargetGroups <- {{}, {1}, {1, 2, 3}},
  Stopped <- {<<1, 3, 2>>}, Delays <- {0, 60, 300}

ASSUME ToolAssumption == Tool!EdgeToolsAssumption
------------------------------------------------------------------------------
workVars == vars
runVars == <<cfg, pc, mat, disk, gen, stale, backoff, runCancelled, outcome, faults>>
toolVars ==
  <<goal, host, role, at, call, ctx, runCtx, proc, held, env, runErr, clock, deadline, wake,
    query, seen, window, got, pages, todo, dims, res>>
edgeVars == <<part, workVars, runVars, toolVars>>

\* The variables of a part that does not run: serving, returned.
RunIdle ==
  /\ cfg = [ca |-> FALSE, dir |-> FALSE, token |-> FALSE, reconnect |-> FALSE]
  /\ pc = "serve" /\ mat = Run!NoMaterial /\ disk = Run!NoMaterial /\ gen = 0 /\ stale = {}
  /\ backoff = 1 /\ runCancelled = FALSE /\ outcome = "none" /\ faults = 0
ToolIdle ==
  /\ goal = CHOOSE g \in OtherGoals : g.form = "text"
  /\ host = {} /\ role = FALSE /\ at = "returned"
  /\ Tool!Fresh

EdgeInit ==
  /\ Init
  /\ \/ part = "work" /\ RunIdle /\ ToolIdle
     \/ part = "run" /\ Run!Init /\ ToolIdle
     \/ part = "tool" /\ RunIdle /\ Tool!Init

EdgeNext ==
  /\ UNCHANGED part
  /\ \/ part = "work" /\ Next /\ UNCHANGED <<runVars, toolVars>>
     \/ part = "run" /\ Run!Next /\ UNCHANGED <<workVars, toolVars>>
     \/ part = "tool" /\ Tool!Next /\ UNCHANGED <<workVars, runVars>>

\* A part that does not run has nothing to do that its fairness is about.
EdgeSpec ==
  EdgeInit /\ [][EdgeNext]_edgeVars /\ Fairness /\ Run!Fairness /\ Tool!Fairness
------------------------------------------------------------------------------
(* Properties, with those of Edge *)

\* See EdgeTools: the result of a tool call says what happened.
ResultHonest == Tool!ResultHonest

\* See EdgeTools: every tool call returns, also with a process that hangs and
\* with a query that never ends.
ToolReturns == Tool!ToolReturns

\* See EdgeTools: "returns the per-metric series" (cloudwatch_metrics.go).
SeriesWhole == Tool!SeriesWhole
==============================================================================
