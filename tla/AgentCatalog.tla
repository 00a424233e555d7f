---------------------------- MODULE AgentCatalog ----------------------------
(***************************************************************************)
(* The canonical sources of agents and skills, what their loader accepts   *)
(* (runtime/common/normalization.py), and the delegation rules that the    *)
(* renderers of OpenCode draw from them (runtime/opencode/adapter.py,      *)
(* scripts/native_config.py).                                              *)
(*                                                                         *)
(* A source is a record: names, the list of catalog.json; agents, the      *)
(* agent.json and permissions.json of each directory over the defaults;    *)
(* permissions, those of agents/_defaults; skills, the directories of      *)
(* skills/; env, the CODEX_ variables of the process.                      *)
(***************************************************************************)
EXTENDS Naturals, Sequences, FiniteSets, Functions, SequencesExt

Modes == {"primary", "all", "subagent"}
Effects == {"allow", "ask", "deny"}

-----------------------------------------------------------------------------
(* A dict is the sequence of its entries [key, value], in their order. *)

IsDict(d) ==
  /\ d \in Seq(Range(d))
  /\ \A i \in DOMAIN d : {"key", "value"} \subseteq DOMAIN d[i]
  /\ \A i, j \in DOMAIN d : d[i].key = d[j].key => i = j

Keys(d) == {d[i].key : i \in DOMAIN d}

Put(d, k, v) ==
  LET e == [key |-> k, value |-> v]
  IN IF k \in Keys(d) THEN [i \in DOMAIN d |-> IF d[i].key = k THEN e ELSE d[i]]
     ELSE Append(d, e)

\* deep_merge, for entries whose value is an effect
DeepMerge(base, override) ==
  LET merged[n \in 0..Len(override)] ==
        IF n = 0 THEN base ELSE Put(merged[n - 1], override[n].key, override[n].value)
  IN merged[Len(override)]

-----------------------------------------------------------------------------
(* The graph of delegation: specs[n] is an agent, its parents a sequence *)

Children(specs, n) == {c \in DOMAIN specs : n \in Range(specs[c].parents)}

ParentsKnown(specs) ==
  \A c \in DOMAIN specs : Range(specs[c].parents) \subseteq DOMAIN specs \ {c}

\* One visit after the other, from what was seen before; a cycle ends them.
InTurn(visit, names, seen) ==
  LET after[i \in 0..Len(names)] ==
        IF i = 0 THEN seen
        ELSE IF after[i - 1].ok THEN visit[names[i]][after[i - 1]]
        ELSE after[i - 1]
  IN after[Len(names)]

\* visit: depth first, where an agent met again on the way down is a cycle.
Acyclic(specs) ==
  LET none == [ok |-> TRUE, visited |-> {}]
      visit[visiting \in SUBSET DOMAIN specs] ==
        [n \in DOMAIN specs |->
           [seen \in [ok : BOOLEAN, visited : SUBSET DOMAIN specs] |->
              IF n \in visiting THEN [seen EXCEPT !.ok = FALSE]
              ELSE IF n \in seen.visited THEN seen
              ELSE [InTurn(visit[visiting \cup {n}], SetToSeq(Children(specs, n)), seen)
                      EXCEPT !.visited = @ \cup {n}]]]
  IN InTurn(visit[{}], SetToSeq(DOMAIN specs), none).ok

\* walk: the agents at the end of some path of each length from the root
Level(specs, root, depth) ==
  LET level[d \in 0..depth] ==
        IF d = 0 THEN {root} ELSE UNION {Children(specs, n) : n \in level[d - 1]}
  IN level[depth]

\* Mutant of GraphAccepted: the depth of an agent is that of its shortest path.
GraphAcceptedShortest(specs) ==
  LET primary == {n \in DOMAIN specs : specs[n].mode = "primary"}
      root == CHOOSE n \in primary : TRUE
  IN /\ Cardinality(primary) = 1
     /\ specs[root].parents = <<>>
     /\ ParentsKnown(specs)
     /\ Acyclic(specs)
     /\ DOMAIN specs = UNION {Level(specs, root, d) : d \in 0..2}

\* _validate_graph
GraphAccepted(specs) ==
  LET primary == {n \in DOMAIN specs : specs[n].mode = "primary"}
      root == CHOOSE n \in primary : TRUE
  IN /\ Cardinality(primary) = 1
     /\ specs[root].parents = <<>>
     /\ ParentsKnown(specs)
     /\ Acyclic(specs)
     /\ Level(specs, root, 3) = {}
     /\ DOMAIN specs = UNION {Level(specs, root, d) : d \in 0..2}

-----------------------------------------------------------------------------
(* Loading; whatever is refused ends the process with SystemExit. *)

\* _validate_agent; "fields" stands for the checks on single fields.
AgentAccepted(a) ==
  /\ a.mode \in Modes
  /\ IsInjective(a.parents)
  /\ a.fields = "valid"

\* validate_permission_tree
PermissionsAccepted(d) == \A i \in DOMAIN d : d[i].value \in Effects

\* discover_agent_dirs
NamesAccepted(src) ==
  /\ src.names # <<>>
  /\ IsInjective(src.names)
  /\ Range(src.names) \subseteq DOMAIN src.agents \ {"*"}  \* which no name matches

\* load_normalized_agents: what it returns, and when it does
Specs(src) ==
  [n \in Range(src.names) |->
     [src.agents[n] EXCEPT !.permissions = DeepMerge(src.permissions, @)]]

FieldsLoad(src) ==
  /\ PermissionsAccepted(src.permissions)
  /\ NamesAccepted(src)
  /\ \A n \in Range(src.names) :
       /\ AgentAccepted(src.agents[n])
       /\ PermissionsAccepted(src.agents[n].permissions)
       /\ "task" \notin Keys(src.agents[n].permissions)
       /\ \A m \in Range(src.names) \ {n} : src.agents[m].model_env # src.agents[n].model_env

AgentsLoad(src) == FieldsLoad(src) /\ GraphAccepted(Specs(src))

\* load_normalized_skills
SkillsLoad(src) ==
  /\ src.skills # <<>>
  /\ \A dir \in DOMAIN src.skills :
       LET skill == src.skills[dir]
       IN /\ skill.file = "directory" /\ skill.fields = "valid"
          /\ skill.name = dir

-----------------------------------------------------------------------------
(* Rules of delegation.  A value is the sequence of its [resource, effect]. *)

Whole(effect) == <<[resource |-> "*", effect |-> effect]>>

AsRules(d) == [i \in DOMAIN d |-> [d[i] EXCEPT !.value = Whole(@)]]

\* task_permissions
TaskRules(specs, n) ==
  Whole("deny") \o SetToSeq({[resource |-> c, effect |-> "allow"] : c \in Children(specs, n)})

\* v1_permissions: the permissions are written over the entry of task.
V1Permissions(specs, n) ==
  DeepMerge(<<[key |-> "task", value |-> TaskRules(specs, n)]>>, AsRules(specs[n].permissions))

\* Mutant of NativePermissions: as v1_permissions does it.
NativeTaskFirst(specs, n) == V1Permissions(specs, n)

\* render_config: the entry of task is written over the permissions, after what
\* native_permissions makes of them.
NativePermissions(specs, n) ==
  LET native(v) == IF v = "ask" THEN "allow" ELSE v
      own == [i \in DOMAIN specs[n].permissions |->
                [specs[n].permissions[i] EXCEPT !.value = native(@)]]
  IN Put(AsRules(own), "task", TaskRules(specs, n))

\* v2_permissions and render_config: the rules [action, resource, effect], in order
Rules(d) ==
  LET action(key) == IF key = "task" THEN "subagent" ELSE key
  IN FlattenSeq([i \in DOMAIN d |->
       [j \in DOMAIN d[i].value |->
          [action |-> action(d[i].key), resource |-> d[i].value[j].resource,
           effect |-> d[i].value[j].effect]]])

\* The runtime obeys the last rule that matches.
Delegates(rules, to) ==
  LET matching == {i \in DOMAIN rules :
                     rules[i].action = "subagent" /\ rules[i].resource \in {"*", to}}
  IN \E i \in matching : rules[i].effect = "allow" /\ \A j \in matching : j <= i
=============================================================================
