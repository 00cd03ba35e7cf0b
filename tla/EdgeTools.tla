------------------------------ MODULE EdgeTools ------------------------------
(***************************************************************************)
(* One tool call at the edge, from the goal of a run to its result: the     *)
(* envelope and the dispatch (internal/edge), and the three tools           *)
(* (internal/edge/awsexec), which run an aws command, a Logs Insights query *)
(* or a CloudWatch metrics request.  EdgeWork has the goroutine around it.  *)
(*                                                                         *)
(* AWS, the aws process and the timers are external: a call to AWS answers  *)
(* or fails, a process exits or goes on until it is killed.                 *)
(***************************************************************************)
EXTENDS Integers, Sequences, FiniteSets, SequencesExt

CONSTANTS
  Cases,       \* the calls: [goal, host, role], where a goal is [form, version, name,
               \* object, args], the host has a set of AWS variables, and may have a role
  MaxWait, PollEvery,  \* Options.LogsMaxWait and LogsPollEvery, in ticks
  Answers,     \* AWS's metrics: sequences of pages, which are sequences of results
               \* [id, times, vals, status]
  TargetGroups,  \* the sets of target groups a service may have
  Batch,       \* how many target groups one call describes, 10 in the code
  Stopped,     \* the sequences of stop times of stopped tasks
  Delays       \* seconds that obtaining the credentials may take

\* withDefaults makes the durations positive.
EdgeToolsAssumption ==
  /\ MaxWait \in Nat \ {0} /\ PollEvery \in Nat \ {0} /\ Batch \in Nat \ {0}
  /\ <<>> \notin Answers
  /\ \A T \in TargetGroups : T \subseteq Nat

VARIABLES
  goal, host, role,  \* the run's goal, the host's variables, a role is configured
  at,          \* where the call is
  call,        \* the decoded call
  ctx, runCtx, \* "live", "cancelled", and for runCtx also "deadline"
  proc, held,  \* the aws process, and whether another one holds its output open
  env,         \* its credential variables, [name, from]
  runErr,      \* what cmd.Run returned: "nil", "exit" (ExitError) or "other"
  clock, deadline, wake,  \* runLogsInsights' time, since the query was started
  query, seen, \* the query's status at AWS, and in the last answer
  window,      \* the metrics request's [start, end, now]
  got, pages,  \* the metric results so far, and the pages yet to come
  todo, dims,  \* target groups to describe, and the load balancers found
  res          \* the result

cliVars == <<runCtx, proc, held, env, runErr>>
logsVars == <<clock, deadline, wake, query, seen>>
metricsVars == <<window, got, pages, todo, dims>>
toolVars == <<goal, host, role, at, call, ctx, cliVars, logsVars, metricsVars, res>>

NoCall == [name |-> "", args |-> <<>>]
NoResult == [ok |-> FALSE, why |-> "none"]
ToolNames == {"aws_readonly_cli", "cloudwatch_logs_insights", "cloudwatch_metrics"}

Fresh ==
  /\ call = NoCall /\ ctx = "live" /\ res = NoResult
  /\ runCtx = "live" /\ proc = "none" /\ held = FALSE /\ env = {} /\ runErr = "nil"
  /\ clock = 0 /\ deadline = 0 /\ wake = 0 /\ query = "none" /\ seen = "none"
  /\ window = [start |-> 0, end |-> 0, now |-> 0]
  /\ got = <<>> /\ pages = <<>> /\ todo = {} /\ dims = {}

Init ==
  /\ \E c \in Cases : goal = c.goal /\ host = c.host /\ role = c.role
  /\ at = "decode" /\ Fresh

config == <<goal, host, role>>
Arg(k, default) == IF k \in DOMAIN call.args THEN call.args[k] ELSE default

\* The handler returns, and Dispatch passes its result on.
Return(r) == at' = "returned" /\ res' = r
ErrorResult(why) == [ok |-> FALSE, why |-> why]
GoTo(where) == at' = where /\ UNCHANGED res

\* loadConfig, or the role's credentials, cannot be had.
CredentialsFail == Return(ErrorResult("credentials"))
------------------------------------------------------------------------------
(* The envelope and the dispatch *)

\* A goal that is no envelope of this version naming a tool is none of ours;
\* arguments that are missing or no object are none.
DecodeToolRequest(g) ==
  IF g.form = "envelope" /\ g.version = 1 /\ g.name # ""
    THEN [name |-> g.name, args |-> IF g.object THEN g.args ELSE <<>>]
    ELSE NoCall

Dispatch ==
  /\ at = "decode"
  /\ LET c == DecodeToolRequest(goal) IN
     /\ call' = c
     /\ IF c.name \in ToolNames THEN GoTo(c.name) ELSE Return(ErrorResult("not handled"))
  /\ UNCHANGED <<config, ctx, cliVars, logsVars, metricsVars>>

\* The run is cancelled, or the client stops; runCtx follows its parent.
CancelCall ==
  /\ at # "returned" /\ ctx = "live" /\ ctx' = "cancelled"
  /\ runCtx' = IF runCtx = "live" THEN "cancelled" ELSE runCtx
  /\ UNCHANGED <<config, at, call, proc, held, env, runErr, logsVars, metricsVars, res>>
------------------------------------------------------------------------------
(* The read-only policy.  A command is [size, meta, balanced, tokens], a token *)
(* its name as written and in lower case, and whether it begins with a dash    *)
(* and has a value after "=".                                                  *)

valueFlags == {"--region", "--query", "--profile", "--endpoint-url"}
deniedFlags == {"--profile", "--endpoint-url"}
deniedArgTokens == {"--with-decryption"}
readOperations == {"describe-instances", "list-buckets", "get-secret-value"}
sensitiveOperations == {"get-secret-value"}

\* The first two tokens that are neither flags nor a flag's value.
serviceAndOperation(args) ==
  LET Scan(a, t) ==
        IF a.skipNext THEN [a EXCEPT !.skipNext = FALSE]
        ELSE IF t.dash THEN [a EXCEPT !.skipNext = t.raw \in valueFlags /\ ~t.eq]
        ELSE [a EXCEPT !.bare = Append(@, t.low)]
      bare == FoldLeft(Scan, [skipNext |-> FALSE, bare |-> <<>>], args).bare
  IN SubSeq(bare, 1, IF Len(bare) < 2 THEN Len(bare) ELSE 2)

isReadOperation(op) == op \in readOperations \ sensitiveOperations

\* The tokens, or none if a quote is left open.
shlexSplit(c) == IF c.balanced THEN c.tokens ELSE <<>>

ValidateReadOnlyAWSCommand(c) ==
  LET tokens == shlexSplit(c) IN
  /\ c.size = "fits" /\ ~c.meta
  /\ tokens # <<>> /\ tokens[1].raw = "aws"
  /\ \A t \in Range(Tail(tokens)) :
       t.low \notin deniedFlags /\ (t.low \in deniedArgTokens => t.eq)
  /\ LET so == serviceAndOperation(Tail(tokens)) IN
     /\ Len(so) = 2
     /\ IF so[1] = "s3" THEN so[2] = "ls" ELSE isReadOperation(so[2])
------------------------------------------------------------------------------
(* RunReadOnlyCLI *)

NoCommand == [size |-> "empty", meta |-> FALSE, balanced |-> TRUE, tokens |-> <<>>]

CheckCommand ==
  /\ at = "aws_readonly_cli"
  /\ IF ValidateReadOnlyAWSCommand(Arg("command", NoCommand))
       THEN GoTo("env") ELSE Return(ErrorResult("policy"))
  /\ UNCHANGED <<config, call, ctx, cliVars, logsVars, metricsVars>>

ForgetfulScrubAWSEnv(vs) ==
  vs \ {"AWS_ACCESS_KEY_ID", "AWS_SECRET_ACCESS_KEY", "AWS_PROFILE", "AWS_DEFAULT_PROFILE"}

scrubAWSEnv(vs) ==
  vs \ {"AWS_ACCESS_KEY_ID", "AWS_SECRET_ACCESS_KEY", "AWS_SESSION_TOKEN",
        "AWS_PROFILE", "AWS_DEFAULT_PROFILE"}

From(source, vs) == {[name |-> v, from |-> source] : v \in vs}

\* With a role its credentials, which need not have a session token.
cliEnv ==
  /\ at = "env"
  /\ LET base == From("host", scrubAWSEnv(host))
         keys == {"AWS_ACCESS_KEY_ID", "AWS_SECRET_ACCESS_KEY"} IN
     \/ ~role /\ env' = base /\ GoTo("start")
     \/ /\ role
        /\ \E token \in {{}, {"AWS_SESSION_TOKEN"}} : env' = base \union From("role", keys \union token)
        /\ GoTo("start")
     \/ role /\ CredentialsFail /\ UNCHANGED env
  /\ UNCHANGED <<config, call, ctx, runCtx, proc, held, runErr, logsVars, metricsVars>>

\* cmd.Run starts the process, unless runCtx is done or aws cannot be run.
StartProcess ==
  /\ at = "start"
  /\ \/ /\ runCtx = "live"
        /\ proc' = "running" /\ held' \in BOOLEAN /\ GoTo("run") /\ UNCHANGED runErr
     \/ runErr' = "other" /\ GoTo("report") /\ UNCHANGED <<proc, held>>
  /\ UNCHANGED <<config, call, ctx, runCtx, env, logsVars, metricsVars>>

\* CLITimeout (external: the timer of runCtx).
Expire ==
  /\ at \in {"start", "run", "report"} /\ runCtx = "live"
  /\ runCtx' = "deadline"
  /\ UNCHANGED <<config, at, call, ctx, proc, held, env, runErr, logsVars, metricsVars, res>>

ParentKill ==
  /\ proc = "running" /\ ctx = "cancelled"
  /\ proc' = "killed"
  /\ UNCHANGED <<config, at, call, ctx, runCtx, held, env, runErr, logsVars, metricsVars, res>>

\* CommandContext's watcher.
Kill ==
  /\ proc = "running" /\ runCtx # "live"
  /\ proc' = "killed"
  /\ UNCHANGED <<config, at, call, ctx, runCtx, held, env, runErr, logsVars, metricsVars, res>>

ProcessExits ==
  /\ proc = "running" /\ proc' \in {"exit 0", "exit 1"}
  /\ UNCHANGED <<config, at, call, ctx, runCtx, held, env, runErr, logsVars, metricsVars, res>>
HolderExits ==
  /\ held /\ held' = FALSE
  /\ UNCHANGED <<config, at, call, ctx, runCtx, proc, env, runErr, logsVars, metricsVars, res>>

\* Run returns once the process is gone and nobody holds its output open.  A
\* process that had exited when the watcher went to kill it is reported with
\* runCtx's error, or with none.
RunReturns ==
  /\ at = "run" /\ proc # "running" /\ ~held
  /\ runErr' \in IF proc # "exit 0" THEN {"exit"}
                 ELSE IF runCtx = "live" THEN {"nil"} ELSE {"nil", "other"}
  /\ GoTo("report")
  /\ UNCHANGED <<config, call, ctx, runCtx, proc, held, env, logsVars, metricsVars>>

TimeoutBlindReportRun ==
  /\ at = "report"
  /\ IF runErr = "other" /\ runCtx # "deadline"
       THEN Return(ErrorResult("execution failed"))
       ELSE Return([ok |-> runErr # "exit", why |-> "ran"])
  /\ UNCHANGED <<config, call, ctx, cliVars, logsVars, metricsVars>>

\* An ExitError gives the exit code, which is otherwise 0, and timedOut is
\* looked at after Run; any other error is reported, unless it is the timeout.
ReportRun ==
  /\ at = "report"
  /\ LET timedOut == runCtx = "deadline" IN
     IF runErr = "other" /\ ~timedOut
       THEN Return(ErrorResult("execution failed"))
       ELSE Return([ok |-> runErr # "exit" /\ ~timedOut, why |-> "ran"])
  /\ UNCHANGED <<config, call, ctx, cliVars, logsVars, metricsVars>>
------------------------------------------------------------------------------
(* runLogsInsights *)

LogsFails(why) == Return(ErrorResult(why)) /\ UNCHANGED logsVars
logsResult == [ok |-> TRUE, why |-> "rows"]

groups == Arg("log_groups", {}) \union ({Arg("log_group", "")} \ {""})

\* The configuration, the arguments and StartQuery.
StartQuery ==
  /\ at = "cloudwatch_logs_insights"
  /\ \/ CredentialsFail /\ UNCHANGED logsVars
     \/ (Arg("query", "") = "" \/ groups = {}) /\ LogsFails("arguments")
     \/ /\ Arg("query", "") # "" /\ groups # {}
        /\ \/ LogsFails("start failed")
           \/ /\ query' = "Scheduled" /\ deadline' = clock + MaxWait
              /\ GoTo("poll") /\ UNCHANGED <<clock, wake, seen>>
  /\ UNCHANGED <<config, call, ctx, cliVars, metricsVars>>

\* AWS moves the query on, and time passes (external).
QueryMoves ==
  /\ query \in {"Scheduled", "Running", "Unknown"}
  /\ query' \in {"Running", "Unknown", "Complete", "Failed", "Cancelled", "Timeout"} \ {query}
  /\ at # "returned"
  /\ UNCHANGED <<config, at, call, ctx, cliVars, clock, deadline, wake, seen, metricsVars, res>>
Tick ==
  /\ at \in {"poll", "answer", "sleep"} /\ clock <= deadline
  /\ clock' = clock + 1
  /\ UNCHANGED <<config, at, call, ctx, cliVars, deadline, wake, query, seen, metricsVars, res>>

\* GetQueryResults is asked; its answer, the status of now, takes a while.
GetQueryResults ==
  /\ at = "poll" /\ seen' = query /\ GoTo("answer")
  /\ UNCHANGED <<config, call, ctx, cliVars, clock, deadline, wake, query, metricsVars>>

minDur(a, b) == IF a < b THEN a ELSE b

\* The answer: final, or late, or to be asked again after PollEvery, or at the
\* deadline if that is earlier.
Polled ==
  /\ at = "answer"
  /\ \/ LogsFails("results failed")
     \/ seen = "Complete" /\ Return(logsResult) /\ UNCHANGED logsVars
     \/ seen \in {"Failed", "Cancelled", "Timeout"} /\ LogsFails("did not complete")
     \/ /\ seen \in {"Scheduled", "Running", "Unknown"} /\ clock > deadline
        /\ LogsFails("timed out")
     \/ /\ seen \in {"Scheduled", "Running", "Unknown"} /\ clock <= deadline
        /\ wake' = minDur(clock + PollEvery, deadline)
        /\ GoTo("sleep") /\ UNCHANGED <<clock, deadline, query, seen>>
  /\ UNCHANGED <<config, call, ctx, cliVars, metricsVars>>

Wake ==
  /\ at = "sleep"
  /\ \/ clock >= wake /\ GoTo("poll")
     \/ ctx = "cancelled" /\ Return(ErrorResult("context cancelled"))
  /\ UNCHANGED <<config, call, ctx, cliVars, logsVars, metricsVars>>
------------------------------------------------------------------------------
(* CloudWatchMetrics *)

albMetricQueries ==
  <<"alb_req", "alb_t4xx", "alb_e4xx", "alb_t5xx", "alb_e5xx", "alb_lat", "alb_lat_p99">>
ecsMetricQueries == <<"ecs_cpu", "ecs_mem", "ecs_tasks", "ecs_tasks_avg", "ecs_rx", "ecs_tx">>
cloudFrontMetricQueries == <<"cf_req">>
ec2MetricQueries == <<"ec2_cpu", "ec2_net_in", "ec2_net_out">>

hasECS == Arg("ecs_cluster", "") # "" /\ Arg("ecs_service", "") # ""
oneService == hasECS /\ Arg("ecs_service", "") # "__all__"

\* The ids of the queries, in the order their series are given in.
labels ==
  LET If(b, ids) == IF b THEN ids ELSE <<>> IN
  If(Arg("alb_load_balancer", "") # "", albMetricQueries) \o If(hasECS, ecsMetricQueries)
    \o If(Arg("cloudfront_distribution_id", "") # "", cloudFrontMetricQueries)
    \o If(Arg("ec2_instance_id", "") # "", ec2MetricQueries)

clampInt(v, lo, hi) == IF v < lo THEN lo ELSE IF v > hi THEN hi ELSE v
minutes == IF "minutes" \in DOMAIN call.args THEN clampInt(call.args.minutes, 1, 1440) ELSE 60

periodForRange(span) == IF span <= 3600 THEN 60 ELSE IF span <= 2 * 86400 THEN 300 ELSE 900

NowMetricsTimeWindow(start, end, now) ==
  LET endT == IF end > now - 120 THEN now - 120 ELSE end IN
  [start |-> start, end |-> endT, now |-> now]

\* The end is at least two minutes ago, unless that leaves no window.
metricsTimeWindow(start, end, now) ==
  LET endT == IF end > now - 120 THEN now - 120 ELSE end
      period == periodForRange(end - start) IN
  [start |-> start, now |-> now,
   end |-> IF endT > start THEN endT ELSE start + (IF period < 60 THEN 60 ELSE period)]

\* Time is counted from the start of the request; the window is computed when
\* the configuration is loaded.
StartMetrics ==
  /\ at = "cloudwatch_metrics"
  /\ IF labels = <<>> \/ (Arg("ecs_cluster", "") = "") # (Arg("ecs_service", "") = "")
       THEN Return(ErrorResult("arguments")) /\ UNCHANGED <<window, pages>>
       ELSE \/ CredentialsFail /\ UNCHANGED <<window, pages>>
            \/ /\ \E d \in Delays : window' = metricsTimeWindow(-60 * minutes, 0, d)
               /\ pages' \in Answers /\ GoTo("page")
  /\ UNCHANGED <<config, call, ctx, cliVars, logsVars, got, todo, dims>>

\* metricResultsToSeries: a row for every query, from the last result that has
\* its id.  What the code does with messages it also does with the status.
Points(r) ==
  [j \in 1..(IF Len(r.vals) < Len(r.times) THEN Len(r.vals) ELSE Len(r.times)) |->
     <<r.times[j], r.vals[j]>>]
Of(id, results) == SelectSeq(results, LAMBDA r : r.id = id)
metricResultsToSeries(ids, results) ==
  [i \in DOMAIN ids |->
     LET rs == Of(ids[i], results) IN
     IF rs = <<>> THEN [id |-> ids[i], pts |-> <<>>, status |-> ""]
     ELSE [id |-> ids[i], pts |-> Points(Last(rs)), status |-> Last(rs).status]]

DroppingMergeEcsRunningTaskSeries(series) ==
  SelectSeq(series, LAMBDA s : s.id # "ecs_tasks_avg")

\* One series of running tasks, filled from the average if it has no points.
mergeEcsRunningTaskSeries(series) ==
  LET alt == Of("ecs_tasks_avg", series)
      Filled(s) ==
        IF s.id = "ecs_tasks" /\ s.pts = <<>> /\ alt # <<>> /\ alt[1].pts # <<>>
          THEN [s EXCEPT !.pts = alt[1].pts, !.status = IF @ = "" THEN alt[1].status ELSE @]
          ELSE s
  IN SelectSeq([i \in DOMAIN series |-> Filled(series[i])], LAMBDA s : s.id # "ecs_tasks_avg")

NoCounts == [given |-> FALSE, dims |-> {}, stopped |-> <<>>]

\* A page arrives, the last one or not, or the request fails and with it the
\* tool.  After the last the series are made, and one service is looked at.
GetMetricData ==
  /\ at = "page"
  /\ \/ Return(ErrorResult("GetMetricData failed")) /\ UNCHANGED <<got, pages>>
     \/ /\ got' = got \o SelectSeq(Head(pages), LAMBDA r : r.id \in Range(labels))
        /\ pages' = Tail(pages)
        /\ IF pages' # <<>> THEN GoTo("page")
           ELSE /\ res' = [ok |-> TRUE, why |-> "series", counts |-> NoCounts,
                           series |-> mergeEcsRunningTaskSeries(metricResultsToSeries(labels, got'))]
                /\ at' = IF oneService THEN "describe" ELSE "returned"
  /\ UNCHANGED <<config, call, ctx, cliVars, logsVars, window, todo, dims>>

\* runEcsServiceSnapshot: no service, no counts.
DescribeServices ==
  /\ at = "describe"
  /\ \/ at' = "returned" /\ UNCHANGED todo
     \/ at' = "groups" /\ todo' \in TargetGroups
  /\ UNCHANGED <<config, call, ctx, cliVars, logsVars, window, got, pages, dims, res>>

\* albDimensionsFromService: Batch target groups at a time, in their order; a
\* batch that fails is left out.
DescribeTargetGroups ==
  /\ at = "groups" /\ todo # {}
  /\ LET batch == {g \in todo : Cardinality({h \in todo : h < g}) < Batch} IN
     todo' = todo \ batch /\ dims' \in {dims, dims \union batch}
  /\ UNCHANGED <<config, at, call, ctx, cliVars, logsVars, window, got, pages, res>>

\* recentStoppedTasks: the last stopped first, or none if a call fails.
RecentStoppedTasks ==
  /\ at = "groups" /\ todo = {}
  /\ \E s \in Stopped \union {<<>>} :
       Return([res EXCEPT !.counts = [given |-> TRUE, dims |-> dims,
                                      stopped |-> SortSeq(s, LAMBDA a, b : a > b)]])
  /\ UNCHANGED <<config, call, ctx, cliVars, logsVars, metricsVars>>
------------------------------------------------------------------------------
CLI == CheckCommand \/ cliEnv \/ StartProcess \/ RunReturns \/ ReportRun
Logs == StartQuery \/ GetQueryResults \/ Polled \/ Wake
Metrics ==
  StartMetrics \/ GetMetricData \/ DescribeServices \/ DescribeTargetGroups \/ RecentStoppedTasks
Timers == Expire \/ Tick

Next ==
  \/ Dispatch \/ CancelCall \/ CLI \/ Logs \/ Metrics
  \/ Timers \/ Kill \/ ProcessExits \/ HolderExits \/ QueryMoves

Spec == Init /\ [][Next]_toolVars

\* The code runs, calls to AWS end, timers fire, a killed process is gone, and
\* whoever holds its output open lets go of it.  Neither a process nor a query
\* need end by itself.
Fairness ==
  /\ WF_toolVars(Dispatch \/ CLI \/ Logs \/ Metrics)
  /\ WF_toolVars(Timers) /\ WF_toolVars(Kill) /\ WF_toolVars(HolderExits)

FairSpec == Spec /\ Fairness
------------------------------------------------------------------------------
(* Properties *)

\* What serviceAndOperation looks for, without its scan: the tokens that are a
\* flag's value, and the first two of the others that are no flags.
Values(args) ==
  CHOOSE S \in SUBSET DOMAIN args : \A i \in DOMAIN args :
    i \in S <=> /\ i > 1 /\ i - 1 \notin S
                /\ args[i - 1].dash /\ args[i - 1].raw \in valueFlags /\ ~args[i - 1].eq
Bare(args) == {i \in DOMAIN args \ Values(args) : ~args[i].dash}
ReadOnly(args) ==
  \E i, j \in Bare(args) :
    /\ i < j /\ \A l \in Bare(args) : l < j => l = i
    /\ \/ args[i].low = "s3" /\ args[j].low = "ls"
       \/ args[i].low # "s3" /\ isReadOperation(args[j].low)

\* All that AWS gave for a metric, on whichever pages.
AllPoints(id) == FlattenSeq([i \in DOMAIN Of(id, got) |-> Points(Of(id, got)[i])])
Whole(s) ==
  s.pts = IF s.id = "ecs_tasks" /\ AllPoints(s.id) = <<>> THEN AllPoints("ecs_tasks_avg")
                                                         ELSE AllPoints(s.id)

Credentials == {"AWS_ACCESS_KEY_ID", "AWS_SECRET_ACCESS_KEY", "AWS_SESSION_TOKEN", "AWS_PROFILE"}
OneSource(variables) ==
  \A v, w \in {x \in variables : x.name \in Credentials} : v.from = w.from

\* A result says what happened.  An aws process ran only for a read operation,
\* with all its credentials from one source, and is gone when the tool returns;
\* "ok" means that the command ended by itself with 0, that the query is complete,
\* or that every metric asked for has its row, with AWS's points if they came
\* together; a timeout means that the time was up; and the window that metrics
\* are asked for is never empty nor in the future, however short it is and
\* however long the credentials took.
ResultHonest ==
  /\ at = "returned" => proc # "running" /\ ~held
  /\ proc # "none" => ReadOnly(Tail(Arg("command", NoCommand).tokens)) /\ OneSource(env)
  /\ at = "returned" /\ res.ok =>
       CASE call.name = "aws_readonly_cli" -> proc = "exit 0"
         [] call.name = "cloudwatch_logs_insights" -> query = "Complete"
         [] call.name = "cloudwatch_metrics" ->
              /\ {s.id : s \in Range(res.series)} = Range(labels) \ {"ecs_tasks_avg"}
              /\ (\A id \in Range(labels) : Len(Of(id, got)) <= 1) =>
                   \A s \in Range(res.series) : Whole(s)
  /\ res.why = "timed out" => clock > deadline
  /\ at = "page" => window.start < window.end /\ window.end <= window.now

\* "returns the per-metric series" (cloudwatch_metrics.go), of all the pages:
\* a series has every point that AWS gave for its metric.
SeriesWhole ==
  at = "returned" /\ res.ok /\ call.name = "cloudwatch_metrics" =>
    \A s \in Range(res.series) : Whole(s)

\* Every tool call returns: a process that hangs is killed at its timeout, a
\* query that never ends is given up at its deadline.  EdgeWork relies on it.
ToolReturns == <>(at = "returned")
==============================================================================
