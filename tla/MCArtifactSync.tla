--------------------------- MODULE MCArtifactSync ---------------------------
EXTENDS ArtifactSync

Agent(mode, parents, env, permissions) ==
  [mode |-> mode, parents |-> parents, model_env |-> env, tier |-> "low", fields |-> "valid",
   permissions |-> permissions, codex |-> "", collisions |-> {}]

Key(k, v) == [key |-> k, value |-> v]
Skill(name, description) ==
  [name |-> name, description |-> description, file |-> "directory", fields |-> "valid"]

One ==
  [names |-> <<"lead", "b">>,
   agents |-> "lead" :> Agent("primary", <<>>, "LEAD", <<Key("subagent", "allow")>>)
              @@ "b" :> Agent("subagent", <<"lead">>, "B", <<Key("edit", "allow")>>)
              @@ "c" :> Agent("subagent", <<"b">>, "C", <<>>),
   permissions |-> <<Key("edit", "ask")>>,
   skills |-> "s" :> Skill("s", "short"),
   env |-> "LEAD" :> "" @@ "B" :> "high" @@ "C" :> "" @@ "low" :> "medium"]

\* Another agent and another skill, whose description hides the notice.
Other == [One EXCEPT !.names = <<"lead", "b", "c">>, !.skills = "t" :> Skill("t", "long")]

\* The runtime of Codex refuses an unknown effort, that of OpenCode a reserved key.
BadCodex == [Other EXCEPT !.env["B"] = "huge"]
BadOpenCode == [One EXCEPT !.agents["b"].collisions = {"model"}]

\* Graphs of four agents, accepted or not; "x" is unknown.
Graphs ==
  {g \in [lead : {{}, {"b"}}, b : {{"lead"}, {"c"}}, c : SUBSET {"lead", "b"},
          d : {{}, {"b"}, {"c"}, {"b", "c"}, {"x"}}, mode : {"all", "primary"}] :
     g.mode = "all" \/ g.c = {"lead"}}

GraphSource(g) ==
  LET names == <<"lead", "b", "c", "d">>
      mode(n) == CASE n = "lead" -> "primary" [] n = "b" -> g.mode [] OTHER -> "subagent"
  IN [One EXCEPT
        !.names = names,
        !.agents = [n \in Range(names) |-> Agent(mode(n), SetToSeq(g[n]), n, <<>>)],
        !.env = [v \in Range(names) \cup {"low"} |-> ""]]

GraphSources == [name \in {<<"graph", g>> : g \in Graphs} |-> GraphSource(name[2])]

\* Permissions of the defaults and of one agent that name delegation, in both orders.
Named ==
  {<<>>, <<Key("task", "deny")>>, <<Key("task", "allow")>>,
   <<Key("subagent", "deny"), Key("task", "allow")>>,
   <<Key("task", "allow"), Key("subagent", "deny")>>}

DelegationSources ==
  [name \in {<<"delegation", defaults, effect>> :
                defaults \in Named, effect \in {"none", "allow", "ask", "deny"}} |->
     [Other EXCEPT
        !.permissions = name[2],
        !.agents["lead"].permissions =
          IF name[3] = "none" THEN <<>> ELSE <<Key("subagent", name[3])>>]]

Edited ==
  <<"one">> :> One @@ <<"other">> :> Other @@ <<"bad codex">> :> BadCodex
    @@ <<"bad opencode">> :> BadOpenCode

MCSources == Edited @@ GraphSources @@ DelegationSources
MCMaxRuns == [s \in DOMAIN MCSources |-> IF s \in DOMAIN Edited THEN 2 ELSE 1]
MCMaxEdits == [s \in DOMAIN MCSources |-> IF s \in DOMAIN Edited THEN 2 ELSE 0]

MCUserPaths == {<<"opencode", "skill", "s">>, <<"codex", "agent", "c">>}
=============================================================================
