---------------------------- MODULE ArtifactSync ----------------------------
(***************************************************************************)
(* The generated artifacts of the two runtimes on disk, and the runs of    *)
(* scripts/sync-runtime that bring them up to date with the sources:       *)
(* everything is loaded and planned for every selected runtime before the  *)
(* first file is written (runtime/common/adapter.py), then file after file *)
(* is written or deleted.  A run may fail or die at any of these, and      *)
(* users edit the sources and the files at any time.                       *)
(***************************************************************************)
EXTENDS AgentCatalog, TLC

CONSTANTS
  Sources,    \* by name, what the source directories may hold, see AgentCatalog
  UserPaths,  \* the paths where users put files or links of their own
  MaxRuns,    \* for each source, bound on the runs made when it is there
  MaxEdits    \* for each source, bound on what users do when it is there; 0 for one
              \* that no edit leads to

\* The names of catalog.json are a list and permissions are dicts; each agent has a mode,
\* parents and permissions, or what stands for them when they are not in its files.
ASSUME SourcesAssumption ==
  \A s \in DOMAIN Sources :
    /\ Sources[s].names \in Seq(Range(Sources[s].names))
    /\ IsDict(Sources[s].permissions)
    /\ \A n \in DOMAIN Sources[s].agents :
         /\ {"mode", "parents", "permissions"} \subseteq DOMAIN Sources[s].agents[n]
         /\ IsDict(Sources[s].agents[n].permissions)

VARIABLES
  source,   \* the name of what the source directories hold
  disk,     \* the content of each path
  pc,       \* "idle", or the next step of the run: "plan", "write", "fill"; or "done"
  run,      \* the run: [names, mode, source, left, stale]
  todo,     \* the changes <<path, status>> still to make for the runtime being written
  status,   \* the exit status of the last run
  touched,  \* the paths users changed since the run began
  written,  \* the paths the run changed
  erred,    \* the run met an error of the file system
  runs, edits

runVars == <<run, todo, status, written, erred>>
vars == <<source, disk, pc, runVars, touched, runs, edits>>

Runtimes == <<"opencode", "codex">>

\* What a run may be asked for: one runtime or all, and one of the three modes.
Selections == {<<"opencode">>, <<"codex">>, Runtimes}
RunModes == {"write", "check", "dry-run"}

\* The contents of a path.  A file cut off by an error or a crash has none of its text.
Absent == <<"absent">>
User == <<"user">>
Link == <<"link">>
Partial == <<"partial">>
Generated(of) == <<"generated", of>>

-----------------------------------------------------------------------------
(* Rendering.  A path is <<runtime, kind, name>>; the path "report" stands *)
(* for the files about all agents: agents.json, opencode.jsonc,            *)
(* opencode.v2.jsonc; AGENTS.md, runtime.json.                             *)

ReasoningLevels == {"low", "medium", "high", "xhigh", "max", "ultra"}

FirstSet(s) == LET set == SelectSeq(s, LAMBDA v : v # "") IN IF set = <<>> THEN "" ELSE set[1]

\* _policy: the variable of the agent, its extension, the variable of its tier.
Reasoning(src, a) ==
  FirstSet(<<src.env[a.model_env], a.codex, src.env[a.tier], a.tier>>)

\* source_plan and plan of the two adapters, as far as the text differs
Text(src, path) ==
  LET specs == Specs(src)
      agent(n) == <<specs[n].permissions, Children(specs, n)>>
      policy(n) == IF path[1] = "codex" THEN Reasoning(src, specs[n]) ELSE ""
  IN CASE path[2] = "skill" -> src.skills[path[3]].description
       [] path[2] = "agent" -> <<agent(path[3]), policy(path[3])>>
       [] path[2] = "report" ->
            [n \in DOMAIN specs |-> <<agent(n), policy(n)>>]

Rendered(rt, src) ==
  LET paths == {<<rt, "agent", n>> : n \in Range(src.names)}
                 \cup {<<rt, "skill", s>> : s \in DOMAIN src.skills} \cup {<<rt, "report", "">>}
  IN [p \in paths |-> Generated(Text(src, p))]

RenderedBy == [s \in DOMAIN Sources |-> [rt \in Range(Runtimes) |-> Rendered(rt, Sources[s])]]

Files(rt, name) == RenderedBy[name][rt]

\* agent_entry and _policy refuse what an agent may not set.
Renderable(rt, src) ==
  \A n \in Range(src.names) :
    IF rt = "opencode" THEN src.agents[n].collisions = {}
    ELSE Reasoning(src, src.agents[n]) \in ReasoningLevels

RenderedFrom == [rt \in Range(Runtimes) |-> {s \in DOMAIN Sources : Renderable(rt, Sources[s])}]

Renders(rt, name) == name \in RenderedFrom[rt]

Loadable == {s \in DOMAIN Sources : AgentsLoad(Sources[s]) /\ SkillsLoad(Sources[s])}

Paths == UserPaths \cup UNION {DOMAIN Files(Runtimes[i], s) : i \in 1..2, s \in DOMAIN Sources}

\* A deletable file shows the notice in its first bytes; the description of a
\* skill comes before the notice and may push it out.  Prompts need no notice.
Obsolete(path, content) ==
  \/ path[1] = "opencode" /\ path[2] = "agent" /\ content # Absent
  \/ /\ content[1] = "generated"
     /\ path[2] = "skill" => content[2] # "long"

\* Mutant of Stale: every file that is not expected.
StaleWhatever(rt, name) == {p \in Paths \ DOMAIN Files(rt, name) : p[1] = rt /\ disk[p] # Absent}

Stale(rt, name) == {p \in Paths \ DOMAIN Files(rt, name) : p[1] = rt /\ Obsolete(p, disk[p])}

\* validate
Unlinked(paths) == \A p \in paths : disk[p] # Link

\* The plan of a runtime validates the files it expects and each one that might be stale.
Valid(rt) == Unlinked({p \in Paths : p[1] = rt})

All(paths, kind) == {<<p, kind>> : p \in paths}

\* Mutant of Changes: a file that exists is not compared.
ChangesIfMissing(files, stale) ==
  All({p \in DOMAIN files : disk[p] = Absent}, "UPDATE")
    \cup All({p \in stale : disk[p] # Absent}, "DELETE")

\* changes; CREATE is an UPDATE of a file that is absent.
Changes(files, stale) ==
  All({p \in DOMAIN files : disk[p] # files[p]}, "UPDATE")
    \cup All({p \in stale : disk[p] # Absent}, "DELETE")

-----------------------------------------------------------------------------
(* A run of sync-runtime *)

Init ==
  /\ source \in DOMAIN Sources
  /\ disk = [p \in Paths |-> Absent]
  /\ pc = "idle"
  /\ run = [names |-> <<>>, mode |-> "check", source |-> source, left |-> <<>>, stale |-> {}]
  /\ todo = {}
  /\ status = 0
  /\ touched = {} /\ written = {} /\ erred = FALSE
  /\ runs = 0 /\ edits = 0

Finish(code) == pc' = "done" /\ status' = code

\* main: the loader refuses with SystemExit, that is status 1.
Begin(names, mode) ==
  /\ pc \in {"idle", "done"} /\ runs < MaxRuns[source]
  /\ runs' = runs + 1
  /\ touched' = {} /\ written' = {} /\ erred' = FALSE
  /\ run' = [names |-> names, mode |-> mode, source |-> source, left |-> names, stale |-> {}]
  /\ todo' = {}
  /\ IF source \in Loadable THEN pc' = "plan" /\ UNCHANGED status
     ELSE Finish(1)
  /\ UNCHANGED <<source, disk, edits>>

Drifts(rt) == Changes(Files(rt, run.source), Stale(rt, run.source)) # {}

\* Mutant of Planned: only the runtime that is written first.
PlannedFirst == <<Head(run.names)>>

\* Every selected runtime is rendered and validated before any of them is written.
Planned == run.names

\* main: plan and changes, OpenCode first; SystemExit of agent_entry is status 1,
\* ValueError 2.
Plan ==
  /\ pc = "plan"
  /\ LET refused == {rt \in Range(Planned) : ~Renders(rt, run.source) \/ ~Valid(rt)}
     IN IF refused # {}
        THEN /\ Finish(IF "opencode" \in refused /\ ~Renders("opencode", run.source)
                       THEN 1 ELSE 2)
             /\ UNCHANGED run
        ELSE /\ run' = [run EXCEPT !.stale = UNION {Stale(rt, run.source) : rt \in Range(Planned)}]
             /\ IF run.mode = "write" THEN pc' = "write" /\ UNCHANGED status
                ELSE Finish(IF run.mode = "check" /\ \E rt \in Range(Planned) : Drifts(rt)
                            THEN 1 ELSE 0)
  /\ UNCHANGED <<source, disk, todo, written, erred, touched, runs, edits>>

\* write: the expected and the stale files of the next runtime are validated and
\* compared once more.
Write ==
  /\ pc = "write" /\ todo = {}
  /\ IF run.left = <<>> THEN Finish(0) /\ UNCHANGED <<run, todo>>
     ELSE LET files == Files(Head(run.left), run.source)
              stale == {p \in run.stale : p[1] = Head(run.left)}
          IN IF ~Unlinked(DOMAIN files \cup stale) THEN Finish(2) /\ UNCHANGED <<run, todo>>
             ELSE /\ todo' = Changes(files, stale)
                  /\ run' = [run EXCEPT !.left = Tail(@)]
                  /\ UNCHANGED <<pc, status>>
  /\ UNCHANGED <<source, disk, written, erred, touched, runs, edits>>

\* Mutant of Becomes: the file is opened to append.
BecomesAppended(p, content) ==
  /\ disk' = [disk EXCEPT ![p] = @ \o content]
  /\ written' = written \cup {p}

\* What is put at a path goes through a link to another place.
Becomes(p, content) ==
  /\ disk' = IF disk[p] = Link THEN disk ELSE [disk EXCEPT ![p] = content]
  /\ written' = written \cup {p}

\* The next of the changes, in some order with the deletions last.
Upcoming(changes) ==
  CHOOSE c \in changes : c[2] = "UPDATE" \/ \A d \in changes : d[2] = "DELETE"

Target == Upcoming(todo)[1]

\* write_bytes opens, which empties the file, and then writes.
Open ==
  /\ pc = "write" /\ todo # {} /\ Upcoming(todo)[2] = "UPDATE"
  /\ Becomes(Target, Partial)
  /\ pc' = "fill"
  /\ UNCHANGED <<source, run, todo, status, erred, touched, runs, edits>>

Fill ==
  /\ pc = "fill"
  /\ Becomes(Target, Files(Target[1], run.source)[Target])
  /\ todo' = todo \ {Upcoming(todo)}
  /\ pc' = "write"
  /\ UNCHANGED <<source, run, status, erred, touched, runs, edits>>

\* unlink, of the link itself; of a file that is gone it is an error.
Delete ==
  /\ pc = "write" /\ todo # {} /\ Upcoming(todo)[2] = "DELETE"
  /\ IF disk[Target] = Absent THEN Finish(2) /\ UNCHANGED <<disk, written, todo>>
     ELSE /\ disk' = [disk EXCEPT ![Target] = Absent]
          /\ written' = written \cup {Target}
          /\ todo' = todo \ {Upcoming(todo)}
          /\ UNCHANGED <<pc, status>>
  /\ UNCHANGED <<source, run, erred, touched, runs, edits>>

\* An OSError anywhere ends the run with status 2.
Fail ==
  /\ pc \in {"plan", "write", "fill"}
  /\ erred' = TRUE
  /\ Finish(2)
  /\ UNCHANGED <<source, disk, run, todo, written, touched, runs, edits>>

Crash ==
  /\ pc \in {"plan", "write", "fill"}
  /\ pc' = "idle"
  /\ UNCHANGED <<source, disk, runVars, touched, runs, edits>>

-----------------------------------------------------------------------------
(* The users *)

Editable == {s \in DOMAIN Sources : MaxEdits[s] > 0}

EditSource(s) ==
  /\ edits < MaxEdits[source] /\ s # source
  /\ source' = s
  /\ edits' = edits + 1
  /\ UNCHANGED <<disk, pc, runVars, touched, runs>>

EditFile(p, content) ==
  /\ edits < MaxEdits[source] /\ content # disk[p]
  /\ disk' = [disk EXCEPT ![p] = content]
  /\ touched' = touched \cup {p}
  /\ edits' = edits + 1
  /\ UNCHANGED <<source, pc, runVars, runs>>

Next ==
  \/ \E names \in Selections, mode \in RunModes : Begin(names, mode)
  \/ Plan \/ Write \/ Open \/ Fill \/ Delete \/ Fail \/ Crash
  \/ \E s \in Editable : EditSource(s)
  \/ \E p \in UserPaths, content \in {User, Link, Absent} : EditFile(p, content)

Spec == Init /\ [][Next]_vars

-----------------------------------------------------------------------------
(* Properties *)

ContentsOf ==
  [p \in Paths |->
     {Absent, User, Link, Partial}
       \cup {Files(p[1], s)[p] : s \in {t \in DOMAIN Sources : p \in DOMAIN Files(p[1], t)}}]

\* The type of the state: a path holds what some source renders to there, what a
\* user put there, or a file cut off.
TypeOK ==
  /\ source \in DOMAIN Sources
  /\ DOMAIN disk = Paths
  /\ \A p \in Paths : disk[p] \in ContentsOf[p]
  /\ run \in [names : Selections \cup {<<>>}, mode : RunModes, source : DOMAIN Sources,
               left : Selections \cup {<<>>}, stale : SUBSET Paths]
  /\ pc \in {"idle", "plan", "write", "fill", "done"}
  /\ todo \subseteq Paths \X {"UPDATE", "DELETE"}
  /\ status \in 0..2 /\ runs \in Nat /\ edits \in Nat
  /\ touched \subseteq UserPaths /\ written \subseteq Paths

\* Whatever errors, crashes and users did before, a synchronisation or a check
\* of which nobody disturbed the files ends with 0 only when every file of the
\* selected runtimes is what its sources render to and no obsolete file that can
\* be told is left.
SyncedIsCurrent ==
  pc = "done" /\ status = 0 /\ run.mode # "dry-run" /\ touched = {} =>
    \A rt \in Range(run.names) :
      LET files == Files(rt, run.source)
      IN /\ \A p \in DOMAIN files : disk[p] = files[p]
         /\ \A p \in Paths \ DOMAIN files : p[1] = rt => ~Obsolete(p, disk[p])

\* A run that neither an error of the file system nor a user disturbed and that
\* fails has changed nothing: a source or a path that the second runtime refuses
\* does not leave the first one half synchronised.
FailureWritesNothing ==
  pc = "done" /\ status # 0 /\ ~erred /\ touched = {} => written = {}

\* A run never changes a file that a user put at a path it does not render,
\* unless it is among the prompts of OpenCode or came after the plan was made.
UserFilesKept ==
  [][\A p \in Paths :
       disk[p] = User /\ disk'[p] # User /\ edits' = edits =>
         \/ p \in DOMAIN Files(p[1], run.source)
         \/ p[1] = "opencode" /\ p[2] = "agent"
         \/ p \in touched]_vars

Agents(src) == Range(src.names)

\* Chains of delegations, from parent to child.
Chains(src, len) ==
  {c \in [1..len -> Agents(src)] :
     \A i \in 1..(len - 1) : c[i] \in Range(src.agents[c[i + 1]].parents)}

Routed(src) ==
  /\ \A n \in Agents(src) : Range(src.agents[n].parents) \subseteq Agents(src)
  /\ Chains(src, 4) = {}
  /\ \E root \in Agents(src) :
       /\ {n \in Agents(src) : src.agents[n].mode = "primary"} = {root}
       /\ src.agents[root].parents = <<>>
       /\ \A n \in Agents(src) :
            \E len \in 1..3 : \E c \in Chains(src, len) : c[1] = root /\ c[len] = n

RoutedSources == {s \in DOMAIN Sources : Routed(Sources[s])}

\* A run goes on exactly when its agents know their parents, one of them is
\* primary and has none, every agent is at the end of a chain of delegations
\* from it, and no chain has three delegations, so that there is no cycle: an
\* order of the files or of the agents never decides it.  What else ends a
\* synchronisation with 1 is a field, a skill or a reserved key.
GraphsAreRouted ==
  /\ pc = "plan" => run.source \in RoutedSources
  /\ pc = "done" /\ status = 1 /\ run.mode = "write" =>
       \/ run.source \notin RoutedSources
       \/ ~FieldsLoad(Sources[run.source]) \/ ~SkillsLoad(Sources[run.source])
       \/ ~Renders("opencode", run.source)

\* The permissions p have an entry for a key, with one of the effects.
Says(p, key, effects) ==
  \E i \in DOMAIN p : p[i].key = key /\ p[i].value \in effects

\* Who may be delegated to is decided by the graph, and by the permissions of the agent
\* over the defaults just when they name delegation: for the native renderer, whose
\* entry of task keeps the place it has, when an entry of subagent comes after one of
\* task, and for the adapter, whose entry of task comes first and is written over, when
\* there is an entry of either. With these the code does configure delegation, which
\* docs/en/AGENT_CONFIGURATION.md:75 says permissions do not.
DelegationFollowsGraph ==
  pc = "plan" =>
    LET specs == Specs(Sources[run.source])
    IN \A n, m \in DOMAIN specs :
         LET p == specs[n].permissions
             child == m \in Children(specs, n)
             overruled == \E i, j \in DOMAIN p :
                            i < j /\ p[i].key = "task" /\ p[j].key = "subagent"
         IN /\ Delegates(Rules(NativePermissions(specs, n)), m) <=>
                 IF overruled THEN Says(p, "subagent", {"allow", "ask"}) ELSE child
            /\ Delegates(Rules(V1Permissions(specs, n)), m) <=>
                 IF "subagent" \in Keys(p) THEN Says(p, "subagent", {"allow"})
                 ELSE IF "task" \in Keys(p) THEN Says(p, "task", {"allow"})
                 ELSE child
=============================================================================
