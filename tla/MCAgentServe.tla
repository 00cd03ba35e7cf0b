---------------------------- MODULE MCAgentServe ----------------------------
(* A small instance of AgentServe: targets of every engine, one of a type no  *)
(* engine has, and a second target of a name already taken.                   *)
EXTENDS AgentServe

Target(name, db) == [name |-> name, db |-> db]
AllTargets == <<Target("p", "postgres"), Target("q", "mysql"), Target("p", "oracle"),
                Target("r", "mongodb"), Target("x", "oracle")>>

Config(mode, addr, targets, dbType, tls, ca, cert) ==
  [mode |-> mode, addr |-> addr, targets |-> targets, dbType |-> dbType, tls |-> tls,
   ca |-> ca, cert |-> cert]

AllModes == ValidModes \union {"disable", "on"}
Tunnels == {Config("tunnel", TRUE, AllTargets, "", tls, "none", "none") : tls \in AllModes}
Listeners ==
  {Config("listener", TRUE, <<>>, db, tls, "valid", "pair") :
     db \in {"mongodb", "oracle"}, tls \in AllModes}
Broken ==
  {Config("tunnel", FALSE, AllTargets, "", "disable", "none", "none"),
   Config("tunnel", TRUE, <<>>, "", "disable", "none", "none"),
   Config("tunnel", TRUE, AllTargets, "", "verify-ca", "invalid", "none"),
   Config("listener", TRUE, <<>>, "mysql", "require", "none", "bad pair")}
MCConfigs == Tunnels \union Listeners \union Broken
MCOpens == {"p", "q", "r", "x", "bad meta"}
=============================================================================
