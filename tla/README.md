# Verification of opencode-agent-toolkit

TLA+ models of the parts of the toolkit that are hard to test: processes and
threads that talk over pipes, installations that can die half way, gates that
decide from events in any order. Every model is translated from the source;
`PROJECT.json` maps each definition to the lines it stands for, lists the runs,
the hazards and the theorems, and for each property a plausible bug of the code
(a *mutant*, an operator of the module itself) that violates it.

    tlc -workers 2 -config acp_session.cfg MCAcpRunner.tla   # a run
    tlapm AcpRunnerProofs.tla                                # proofs

## 1. The system and its parts

The toolkit turns one set of agents, skills and policies into configurations of
OpenCode and Codex, and adds what those agents need at run time: child runners,
guards, memory, research jobs, sandboxed tasks.

| Component | State it keeps | Operations | Talks to | What is hard | What makes it correct |
|---|---|---|---|---|---|
| **ACP child runners** (`scripts/acp-mcp`, `runtime/common/acp_session.py`) | registry of sessions, one future per session; per session: process, state, active prompt, pending permission, request counter, line queue | start, message, respond, status, close, shutdown | its MCP client over stdio; one child process per session over pipes | a main thread, a thread pool and a reader per child share every field without locks; timeouts leave turns running; children die and are restarted | one turn per child, no permission answered or lost twice, one child per session, the limit, every job and call ends |
| ACP registry and CLI (`acp.py`, `acp-runner`) | none | list runners, run one session | AcpSession | - | - |
| **Codex lifecycle** (`runtime/codex/lifecycle.py`) | files in the project, ownership manifest with digests | install, uninstall, doctor, dry runs | the generated bundle; the user's own edits | crash between two writes, edits between plan and write, bundles that change between installs | user content is never destroyed, only own writes are owned, installs converge, uninstall leaves nothing behind unowned |
| **Plan approval gate** (`plan-approval-core.js`, `plan-approval-v2.ts`) | parents, decisions and handled texts; roles and pending texts | session, message and part events; a hook before each tool call | OpenCode V2 | events and parents arrive in any order and more than once; trees of sessions; the hook awaits | a change needs the root user's approval, of what was waiting, in this turn; one decision per tree |
| **Reliability guard** (`reliability-v2-legacy.ts`, `reliability-core.js`) | delegations, running children, reservations, waiters, retry counts | acquire and release a slot, outcome of a delegation, loop detection, abort | OpenCode V2 events and hooks | check and reservation around awaits and timers, children met by events or by asking, expiring reservations | limits hold, slots are given back, nothing waits for ever, retries are counted once |
| Reliability guard for V1 (`reliability-v1-legacy.js`) | as V2 | as V2 | OpenCode V1 | as V2 | as V2 |
| Approval watchdog (`plugins/reliability-approval`) | watched sessions, suspicions | suspect, ask, decide (wait or abort) | TUI by RPC, OpenCode events | the answer races with new activity and with the interrupt | an active child is never aborted for an old suspicion |
| **Shared memory** (`harness_memory_service.py`, `memory_v2.py`, `memory-v2-mcp`, `memory-v2-rpc`) | atoms in an external store, by project and user | remember one or many, handoff, search, render, status | harness-memory; PostgreSQL advisory lock; MCP clients | processes that remember the same fact, fail or die under the lock; limits on what is compared; what names a project | one atom per fact, found by every checkout of the repository; the lock is freed |
| Memory broker (`scripts/memory-broker`) | candidate files | merge, list | managed tasks | read-modify-replace without a lock | no occurrence is lost |
| Managed task (`task-run`, `task-dind`, `workspace-broker`) | clone, containers, branch, pull request | prepare, run, collect, publish, clean up | Docker, Git remote | one step of several fails; the cleanup trap | work that is not published is not removed |
| **Research worker** (`tools/research_worker`) | one claimed batch, back-off | claim, execute, validate, submit | job queue over HTTP; OpenCode as a subprocess | leases that run out, late results, lost confirmations, invalid jobs and settings | one reliable answer per job, of its last lease; every job is settled |
| **MCP stdio server** (`mcp_stdio.py`) | era of the protocol, initialised, ready | the two handshakes, tool calls | MCP client; the memory service and the runners behind it | two handshakes, malformed requests in between | no call before a handshake, one era per connection |
| **Artifact synchronisation** (`normalization.py`, the adapters, `adapter.py`, `sync-runtime`, rules of `native_config.py`) | generated files of two runtimes | load and validate, plan, write, check, dry run | sources in the repository; user files in the same directories | one of two runtimes refuses, writes that fail half way, renamed and removed artifacts, graphs of delegation | what is reported as synchronised is what the sources render to; user files survive; delegation follows the graph |
| Configuration and launchers | - | write configuration, exec a program | - | I/O only | - |
| Usage pricing, shell environment | none | look up, set variables | - | - | - |

Interactions: the runners and the memory service are reached by the agents through
MCP (`mcp_stdio.py`), the guard and the gate through plugin hooks; `oc sync codex` writes
the bundle that the Codex lifecycle installs; `task-run` feeds the memory broker; the
watchdog acts on sessions the guard counts.

The components in bold have a module. The hazards of all of them, at their lines, are
in `PROJECT.json`, with the properties that would catch them going wrong; those without
a property belong to modules of the plan (section 5).

## 2. Modules

| Module | Models | Used by |
|---|---|---|
| `AcpRunner` | service, workers, sessions, readers, children | `MCAcpRunner`, the proofs |
| `AcpContract` | what the parent agent is promised about its sessions | `AcpRunner` (refinement) |
| `AcpRunnerProofs` | theorems about `AcpRunner`, and that it keeps `AcpContract` | |
| `CodexLifecycle` | install and uninstall in one project | `MCCodexLifecycle`, the proofs |
| `CodexLifecycleProofs` | theorems about `CodexLifecycle` | |
| `PlanApproval` | gate and plugin | `MCPlanApproval`, the proofs |
| `PlanApprovalProofs` | theorems about `PlanApproval` | |
| `McpStdio` | the MCP server: eras and handshakes | `SharedMemory` |
| `SharedMemory` | the memory service of several processes on one store | `MCSharedMemory`, the proofs |
| `SharedMemoryProofs` | theorems about `SharedMemory` and `McpStdio` | |
| `ResearchWorker` | workers, their settings and contracts, the queue's leases | `MCResearchWorker`, the proofs |
| `ResearchContract` | what the owner of the queue is promised | `ResearchWorker` (refinement) |
| `ResearchWorkerProofs` | theorems about `ResearchWorker`, and that it keeps `ResearchContract` | |
| `AgentCatalog` | sources of agents and skills, what is accepted, rules of delegation | `ArtifactSync` |
| `ArtifactSync` | runs of `sync-runtime` on the files of both runtimes | `MCArtifactSync`, the proofs |
| `ArtifactSyncProofs` | theorems about `ArtifactSync` and the graphs of `AgentCatalog` | |
| `ReliabilityGuard` | the slots of one parent | `MCReliabilityGuard`, the proofs |
| `ReliabilityGuardProofs` | theorems about `ReliabilityGuard` | |
| `Selection` | the elements of a sequence that are in a set | `SharedMemory`, `ReliabilityGuard` |
| `InductionFacts` | induction, selections and counting | the proofs |
| `MC*` | values of the constants for TLC | the `.cfg` files |

### AcpRunner

*State.* The variables have the names of the fields: `registered` is
`RunnerService.sessions`, `job` the future of a session and then what `status`
collects from it, `backlog` the executor's queue; `process`, `state`, `pending`,
`active`, `nextId` and `queue` are the fields of `AcpSession`. `main` and `pc` are the
program counters of the main thread (which serves one MCP call at a time) and of
the thread that drives a session. `alive`, `pipe` and `open` are the children: which
run, what they wrote and nobody read, which requests they have not answered.

*Grain.* A step of a thread is the code between two points where another thread can
change what it reads. `close` is therefore five steps (cancel, answer the pending
permission, forget it, terminate, drop), since a worker can handle a line between
any two; `respond` is two (the answer is written, then the turn resumes), since
`cancel` reads the same field; a line travels from the child to the pipe, from the
reader to the queue, and from the queue to the loop of `_wait_for_response`.

*Correspondence.* `Call*` are the MCP calls; `Take`, `Prompt`, `Respond`, `Resume`,
`Refuse` the worker (`_submit`, `prompt`, `respond`); `Read*` and `GiveUp` the loop of
`_wait_for_response` with its exits (response, declined request, permission request,
eof, invalid line, deadline); `ReadLine` the reader thread; `Cancel`, `CancelAnswer`,
`CancelForget`, `Terminate`, `Drop` the close; `Exit` and `CloseAll` the end of the server.
`Child*` is the environment: a child may answer, ask for a permission, write noise,
close its output or die at any moment, or stay silent for ever.

*Abstracted.* Texts and `session/update` notifications, tool views, the MCP framing.
Ids are kept because late answers are told apart by id. Times are: a wait can
always end at its deadline.

*Contract.* `AcpContract` has one phase per session and the set of sessions with a job that
has not ended. The phase of an open session is read from what `status` reports (`state`: ready,
working, asking, failed), the others from where `start` and `close` are (none, opening,
closing, closed). "running" without a turn under way has a phase of its own, `stuck`: the
prompt could not be written to a dead child, and the session takes no further turn until it
is closed. `KeepsContract` says each step of threads and children is a step of the contract or
invisible: `status` never tells of a turn that is not under way, a failed or stuck session
does not recover by itself, and of a closed session nothing remains but the one job it
had at its close, which may end at any time. The contract does not promise that this job
starts no child: the code does not keep that, which is the run `acp_close`.

### CodexLifecycle

*State.* `disk` gives each artifact (agents, skills, the memory table of `config.toml`)
the version of its content, `"user"` for what no bundle ever had; `owned` is what the
manifest records, `bundle` what a sync generated. `cmd`, `goal` and `todo` are the plan
being applied. `touched` and `wrote` are history: what the user edited since the plan,
and which contents the toolkit ever wrote.

*Correspondence.* `InstallConflicts`, `InstallChanges` and `NextOwned` are `install_plan`;
`Uninstall` is `uninstall_plan`; `MakeDirectory`, `Write`, `Delete`, `WriteManifest`,
`DeleteManifest` and `DeleteMissing` are `apply`, one change at a time in the order of the
plan, and `_atomic_write`. `Crash` is the death of the process or a failed write between
any two. `Sync` and `User*` are the surroundings.

*Abstracted.* A plan with conflicts writes nothing and is no step, as is a dry run.
Symlinks and directories in place of files are refused like any foreign content and
are `"user"`. One command at a time: the code takes no lock, and concurrent commands
are not modelled. Manifests of version 1 and `doctor` are left out.

### PlanApproval

*State.* `parents`, `states`, `processed` of the gate, `roles` and `pendingText` of the
plugin. `granted` and `spent` are history: the roots whose user has approved what
waited and said nothing since, and the messages taken for an approval.

*Correspondence.* `SessionUpdated`, `MessageUpdated`, `PartUpdated` are the event loop,
`ExecuteBefore` the hook with `resolveParentID` (which may find the parent or not) and
`beforeTool`; `Merge` is `rememberParent`, `Decided` and `OnUserMessage`, `OnAssistantText`,
`Requires` and `IsAllowed` the functions of the gate. The gate is synchronous, so a call
of it is one step; what varies is the order of the calls.

*Abstracted.* A text is one of six kinds, by what the regular expressions and markers
tell apart; a tool is one of five kinds, by what `toolRequiresPlanApproval` tells
apart. The maps `processedUser` and `processedAssistant` are one, as a message has one
role. *Environment:* what the host says of a session's parent is right, sessions form
trees (`TreesAssumption`), and a bare approval is the only text of its message and comes
from the user of a root (`ApprovalsAssumption`): a prompt with which an agent starts a
child (a message of role user) is not itself a bare approval word.

### McpStdio and SharedMemory

*State.* `era`, `initialized` and `ready` are the fields of `McpStdioServer`, one server per
process of the memory service. `store` holds the atoms of each namespace in order of
creation, `locks` the advisory locks; `pc`, `batch`, `found` and `query` are where a call is.
`acked` and `known` are history: what was reported as stored, and what of it was so when a
search began.

*Correspondence.* `Handle` is one call of `handle`, split into what it refuses (`Refuses`), the
era it enters, and the steps of the handshakes; `Receive` is a line to the server, which
may begin a call of the service (`Dispatches`); `Rpc` is one process of `memory-v2-rpc`.
`Acquire`, `Check`, `Create` and `Release` are `remember` under `_dedup_lock`, `remember_many`
takes the next candidate in `Release`; `Search` reads the project's rows, then the user's.
`Project` and `NormalizeRemote` are `memory_v2.py`; an scp-like remote without a user keeps its
host (`memory_v2.py:26`), so such a checkout is another repository, as in the code. `Create` may fail, or store and lose the
answer; `Crash` ends a process anywhere, and PostgreSQL frees its lock.

*Abstracted.* A text is its first 200 characters, the next 3800, and the rest, as `_exists`
queries with the first and the store keeps the first two. A remote is the sequence of the
parts of its path. Titles, confidence, secrets in `masked_dsn`, `status` and `render` only
read or format. A handoff is a fact. The lock's connection does not break while the holder
lives: if it does, the service goes on without the lock.

### ResearchWorker

*State.* `phase`, `tasks`, `succeeded` and `delay` are a worker (`run_once` and `run_forever`);
`status`, `gen` and `answers` are the queue, which is outside the repository and modelled as
its documents and the worker's client use it: leases with a generation, which expire, and
a dead-letter policy.

*Correspondence.* `Settings` and `Starts` are `settings.py` and `main` (a value out of range, or
a default of `poll_max` below a `poll_min` that was set, ends the process); `Parses` is
`parse_external_job`, `Validates` is `validate_research_output`, `HasResult` is `execute` and
`parse_marked_result` (the last marked line counts, even when it is the invalid one); `Claim`
and `Submit` are the client, with requests that fail, answers that get lost, and a timeout
while an answer is read, which nothing catches; `Execute`, `EndBatch` and `Wake` the worker.

*Abstracted.* A payload is its keys and what the checks tell apart; the prompt of the
subprocess (`render_research_prompt`, `build_toolkit_job`) has no effect on the protocol.

### AgentCatalog and ArtifactSync

*State.* `disk` gives every path its content: absent, the user's, a link, cut off, or what some
sources render to; `source` names what the source directories hold. `run`, `todo`, `pc` and
`status` are the run of `sync-runtime`; `touched`, `written` and `erred` are history of that run.

*Correspondence.* `AgentsLoad` (the checks of `FieldsLoad`, then the graph), `SkillsLoad`,
`GraphAccepted` (with the depth-first `visit` and the levels that `walk` reaches) are `normalization.py`; `V1Permissions`, `NativePermissions`
and `Rules` the permissions that the adapter and `native_config.py` render, each with its own
order of the entries, and `Delegates` the rule of OpenCode that the last match decides.
`Renderable`, `Rendered` and `Stale` are the plans of the adapters, `Changes` and `Valid` those
of `ArtifactPlan`. `Begin` loads, `Plan` renders and compares everything, `Write` turns to the
next runtime, `Open` and `Fill` are the two halves of `write_bytes`, `Delete` is `unlink`. The
code writes the files in the order of their paths and deletes last; `todo` is the set of changes
left and `Upcoming` the next one, in some fixed order with the deletions last. `Valid` is asked
of the files that are rendered and of the stale ones, as in the code.

*Abstracted.* A text is what it is rendered from. The files about all agents are one path
per runtime, and an agent is one path (OpenCode's prompt, Codex's pair of files). Links
and directories in the way are one content, `Link`. Two runs at once are not modelled.

### ReliabilityGuard

*State.* `reserved`, `known`, `terminal`, `aborted` and `keyOf` are what the plugin keeps, for one parent;
`stage`, `child`, `created`, `busy` and `events` are the host: what each call is at, which
children exist and work, and what the plugin has not been told. `lost` is history: the calls
under way whose reservation ran out, was spent on the child of another call, or was released
for an earlier call, and those whose child was aborted.

*Correspondence.* `Before` is the hook up to the first `await` of `acquireSlot`, `Acquire` one
round of its loop after `reconcileChildren` has answered (registering, counting and reserving
happen without an `await` between them), `Reconciled` what the answer makes of the books,
`Timeout` its exception, `After` the other hook,
`Deliver` one event, `Expire` the timer's part for reservations. `Abort` is `abort` up to its
`await`, called by `recordFailure` when a tool of a child fails with an error of the provider or
the configuration: the child is marked and leaves `activeCount` before the host is asked to
interrupt it, and the interrupt may fail, which is only logged; the child then works on until
its `End`. Its next busy event takes the mark away. `Used` is `usedSlots` with `activeCount`. `Registered` is `registerChild`
with `consumeOldestReservation`, `KeyOfTask` is `delegationForArgs`. `Launch`, `End` and `Abandon`
are the host, which runs calls it was let through in any order, or never.

*Abstracted.* A child's status is busy, terminal or aborted. Retries, the failure budget, repeated
calls and checkpoints are left out: they refuse a call or record it. The aborts for repeated
failures, stalls, durations and costs are those that the wrapper `reliability-v2.ts` disables
(`FAIL_OPEN_OVERRIDES`, lines 4-10); the abort for fatal failures, which it does not, is `Abort`.

## 3. Runs

| Run | Instance | Shows |
|---|---|---|
| `acp_session` | 1 session, 2 calls, 2 lines of noise or permission requests, children that answer anything | safety of one session under every interleaving; refinement of `AcpContract` |
| `acp_pool` | 2 sessions on 1 slot and 1 worker, children that answer, fall silent or die; fairness | the limit, also with a job behind a closed session's job; jobs and calls end |
| `acp_close`, `acp_orphan` | 1 session | two disagreements with the documentation (below) |
| `codex_lifecycle` | 1 agent, 1 skill, the table, 2 versions of each, 1 crash, 1 edit | safety of install and uninstall |
| `codex_reversible` | the same, no crash, no edit | a disagreement |
| `plan_gate` | root, child and leaf; 5 messages with 1 to 3 texts each; mode `changes` | the gate under every order of events and tool calls |
| `plan_reapproval` | the same | a disagreement |
| `shared_memory` | an MCP server and a command in two clones of one repository; 3 calls; both backends | facts stored once and found; handshakes; every call ends |
| `research_worker` | 3 workers (polling, `--once`, misconfigured), 3 jobs (sound, without generation, with a remote control), 2 deliveries | refinement of `ResearchContract`; late answers; every job settles |
| `artifact_sync` | 4 sources that are edited into each other with 2 runs and 2 edits each; 120 graphs of 4 agents and 20 sets of permissions that name delegation, with a run each | what a run may write and report; which graphs are accepted; rules of delegation |
| `reliability_guard` | 3 calls on 2 slots, fresh or resuming; aborts of children at work | the limit, and by how much it is exceeded; slots are freed |

*Properties.* What they say is stated above each definition. The ones that take
several actors to violate: `OneTurnPerChild` (a prompt that times out must block the next
one), `TurnOverWhenIdle` (a late answer must not pass for the current one), `GrantedOnce`
and `PermissionKept` (respond, cancel and a further request race for one field),
`OneChildPerSession` (a queued job restarts a session that is being closed),
`UserContentKept` and `OwnsItsWrites` (a crash leaves files and manifest apart, then
the bundle changes), `MutationsApproved` and `ApprovalStands` (a child acts before its
parent is known), `StoredOnce` (a holder of the lock fails, dies, or stores and loses its
answer while others wait), `AckedIsShared` (two checkouts with different remotes),
`KeepsContract` of the sessions (what `status` says against where threads, child and close are),
`AnswerOfLastLease` and `KeepsContract` of the workers (a lease runs out while its job is
executed, another worker has it, the first one answers), `SyncedIsCurrent` and
`FailureWritesNothing` (errors and crashes in earlier runs, edited sources, links in the
way, a second runtime that refuses), `GraphsAreRouted` (the two searches against their
meaning, stated with chains of delegations), `DelegationFollowsGraph` (two renderers that
order the entries differently, under a last match that decides), `SlotsBounded` (a burst
meets children before or after their events, and loses the slots of children at work).

`DelegationFollowsGraph` exempts nothing: it says for both renderers which agents may be
delegated to, and exactly when `permissions.json` decides that in place of the graph.
`SlotsBounded` exempts nothing either: at most `Limit` children work, and one more for each
call at work that lost its slot; `lost` counts calls in the four ways named above and in no other.

*Bounds, and why they are enough.* `Generations` is two: a session is started, and
restarted at most once after its close (`TypeCorrect` proves that there is never a third).
Two calls and two lines let a second permission request meet the answer to the first,
and a late response meet the next request. Two sessions on one slot make a job wait
behind another session's. In `codex_lifecycle` two versions tell an update, a
stale artifact and a re-added one apart; one agent, one skill and the table are one
artifact per rank, so each pair of writes has its crash. All five properties of that
run are proved for every bound. In `plan_gate` three levels are needed for a root
known late to have a child of its own; two answers show that one of them does not
approve twice. In `shared_memory` two processes suffice for a race (the
lock serialises any number), three calls for a retry after a lost answer and a search,
and a window of three rows is crowded by the facts that share their beginning.
`research_worker` has two deliveries, so that a late answer meets a second lease. In
`artifact_sync` two runs for each source that is there let a run follow a crash or an
error, before and after an edit; four agents give graphs with cycles in and beside the
part that is reachable, two paths of different length, and depth three. In
`reliability_guard` three calls on two slots make one wait, and a child can be resumed or aborted.
The 20 sets of permissions put `task` and `subagent` in the defaults in both orders, and
`subagent` with each effect in an agent.

*Deadlock* is checked for Codex, the gate and the memory service. The others may stop: the
ACP server ends, workers and the queue's jobs are done, and runs of `sync-runtime`, edits and
calls of a parent are bounded.

*Fairness* (`FairSpec` of `AcpRunner`): weak fairness of each stretch of `close`, of a
worker that has a job, of `GiveUp` (each wait has a deadline that `queue.get(timeout)`
enforces) and of `CloseAll` (atexit, after the executor's threads are joined). None for the
client, the children, the readers, or the end of the server: liveness holds with
children that say nothing at all. `SharedMemory`: weak fairness of the steps of a process that
is in a call (which may end it by a crash), and strong fairness of the lock, since PostgreSQL
queues those that wait for it. `ResearchWorker`: weak fairness of a worker's steps (requests
and executions have timeouts) and of leases that expire; strong fairness of a claim of each
job, for a queue that does not withhold a job for ever. `ReliabilityGuard`: the event loop
and the timer go on; none for the host, whose calls may never be launched.

*Disagreements of code and documentation* (details in `PROJECT.json`, "findings"):

- `acp_close`: a message queued before `close` starts a new child of the closed session.
- `acp_orphan`: a start that fails after the process was created leaves it running.
- `codex_reversible`: uninstall leaves the directory of a skill, and the next install
  refuses to adopt it.
- `plan_reapproval`: the marker `PLAN_REAPPROVAL_REQUIRED` does not revoke the approval that
  stands (`plan-approval-core.js:302`). The manual says it does
  (`docs/en/RELIABILITY.md:35`); the tests say it does not
  (`tests/plan_approval_core.test.mjs:144`), and so does `ApprovalStands`, by which only the
  root's user ends an approval.

Seen while modelling and not stated by a run of its own:

- Closing a session whose prompt waits for a permission, or timed out, terminates the
  child without `session/cancel` (`acp-mcp:167`, against `docs/v2/acp-runners.md:116`).
- The limit on subagents is exceeded after a reservation expired, or went to the child of
  another call (`reliability-v2-legacy.ts:247` and `511`, against `docs/en/RELIABILITY.md:57`).
- The same limit is exceeded when an earlier call's child is found terminal only after another
  call began to resume it: the reservation of that call is released
  (`reliability-v2-legacy.ts:214`).
- The same limit is exceeded while an aborted child still works, before its interrupt takes
  effect or when the interrupt fails (`reliability-v2-legacy.ts:278`, `384-391` and `444-446`).
  In all these cases `SlotsBounded` allows one child more for the call in `lost`.
- The gate remembers the last text it handled of a message, so that a bare approval among
  several texts of one message would count again when they are delivered again;
  `ApprovalsAssumption` leaves such messages out.
- No fresh call ever resumes the child of an earlier one, since each has an identity of its
  own (`reliability-core.js:166`, against `docs/en/RELIABILITY.md:81`).
- Permissions configure delegation, against `docs/en/AGENT_CONFIGURATION.md:75`: in the adapter's
  configuration a key `subagent`, or else `task`, in a `permissions.json` or the defaults
  (`opencode/adapter.py:83`), and in the native one a `subagent` that comes after a `task`
  (`native_config.py:87-90` replaces `task` where it is). `DelegationFollowsGraph` says so.
- A skill whose description pushes the notice beyond the first 512 bytes, and a file cut off
  at a path no longer rendered, are never removed; `Obsolete` leaves them out.
- A worker dies of a timeout while a response is read, which is no `ResearchApiError`.

## 4. Proofs

Every safety invariant and every action property of the passing runs, and the
two refinements, are proved for every value of the constants under
the named assumptions of the modules: finitely many sessions, calls, jobs and processes,
bounds that are natural numbers, candidates, settings and sources of the shape the code
reads. Each of the proof modules has the same form: an inductive invariant, whose parts are
named for what they say, one lemma for each part (or group of them) with one case for each
action, and the theorems about the properties of the runs. TLC checked each invariant before
it was proved.

**InductionFacts.** The library's induction theorems take an operator, which no prover here
can instantiate. `LeastElement` follows from `WFMin`, and `SetInduction` from it, for a set of
numbers in place of an operator. `SelectedPicks` says where the elements of a selection come
from, `ImageBound` and `RangeBound` how many there are.

**AcpRunnerProofs.** `TypeCorrect`, `OneChild`, `PoolLimit`: the type of `spawned`
(at most two children) is not inductive. It needs `Lineage`, which relates the
registry, the queue and the program counters (a session is driven by one thread, is
queued at most once, and has been started as often as these allow), and `Held`: a live
child is the one in `process`, and after `terminate` there is none.
`OneTurn`, `IdleIsQuiet`: `OpenRequests` says that the only request a child can have open is
the last one numbered, and that no response in queue or pipe answers an open request; `Turns`
that the active prompt is the last request, and that nothing is open where a prompt may go
(`active` is 0). They are needed because whether the next prompt meets a busy child depends on
answers that are still on their way.
`PermissionGrantedOnce`, `NoRequestLost`: `Permissions` follows a request from the child's line
to its reply. The pending request belongs to the turn under way, it is apart from the
requests not read yet and from those answered, and a request that is read and not answered is
kept in `pending` by whoever may answer it (`respond`, `cancel` or the loop that declines).
`RunnerKeepsContract`: `Spec => KeepsContract`, each step is a step of `AcpContract` or
invisible. It needs `Told`: `state` agrees with where the worker of the session is and with the
pending request, so that what `status` says is what the contract says of the turn. Main
thread, worker and loop of `_wait_for_response` have a lemma each (`MainMoves`,
`WorkerMoves`, `WaitMoves`), by what the parent sees of their steps.
`NoneStranded` is the safety half of `JobsFinish` and `MainReturns`: `Carried` (a queued job is in
the backlog, a running one has a thread that drives it) with `Lineage` gives that, as long as a
job is under way, some job has a thread or is taken by one that is free. No circle of waiting
threads exists; that those who can go on do so is the fairness of the runs.

**CodexLifecycleProofs.** `CodexTypes`, `Ownership`, `ContentKept`, `ManifestLastRemoved`,
`Settled`. The inductive invariant adds to the type: `Protected` (what is still to change
is not the user's, unless edited since the plan), `Pending` (what the manifest will
record is written, or comes before it), `Settling` and `Clearing` (what a command has
left to do). `ManifestLast` shows that the order of the plan makes the manifest the last
change. The invariant does not mention crashes: one only ends the plan.

**PlanApprovalProofs.** `MutationsNeedApproval`, `OneDecisionPerTree`, `ApprovalOnlyByUser`,
`ApprovalNotReused`. The gate knows a part of the parents, so the root it computes may lie
below the real one. The first half compares, by induction over the chain of parents, the
roots computed from less and from more: they are the same, or the first is a session whose
parent was just learnt (`AncestorsCompared`). The invariant is the type, `Known` (what is known
of the parents is true), `ApprovedByUser` (an approved root is granted), `DecisionsAtRoot`,
`SpentOnce` (a message spent as an approval is handled) and `PendingSaid`.

**SharedMemoryProofs.** `FactsStoredOnce`, `ReportedIsShared`, `SearchIsComplete`,
`ToolsAfterHandshake`. `Locked` is mutual exclusion: in PostgreSQL whoever passed the lock of a
fact holds it, alone. `CopiesBounded` counts the copies that are stored with those that
are about to be; a process adds itself only after it found none, which the list tells only
for facts that the window shows (`Fits`). `AckedStored` places what is reported in the
namespace of its kind, and `ProjectRead` says what a search has found between its two
reads. The bound of copies is one with the lock, and the number of processes without.
The proof of `Negotiating` found that two cases of the handshake overlapped in an earlier
version of `McpStdio`, which TLC cannot see as it takes the first.
`HoldersGoOn` and `CallsAreShort` are the safety half of `CallsEnd`: `LocksWorked` is the converse of
`Locked` (whoever holds a lock works under it; errors, crashes and ends of a batch leave none
behind), and `Left` counts the steps that a call has left, which each step of its process lowers.

**ResearchWorkerProofs.** `LastLeaseAnswers`, `WorkersKeepContract`. The
invariant says that only a worker with sound settings works (`Working`), that a result waiting
to be submitted was validated (`Validated`), and that leases and answers go together (`Leases`). `ResearchContract` has no fairness, so
the refinement is proved in full.

**ReliabilityGuardProofs.** `LimitKept`, `QuietIsFree`, `SlotsDrain`. The limit bounds reservations and registered
children, and what must be bounded is the children at work. `Counted` relates them: each call
under way that did not lose its slot (`Slotted`) has a reservation or its child is registered and
not aborted (`AllCounted`), and these calls are at most `Limit`; the children of the others are
counted by `lost`. `SlotsStep` carries it over each step that changes the books, `BooksStep` over
those that abort nothing. The rounds of `acquireSlot` and the events change the books in several
ways at once; `GoodBooks` is what all of them leave true. `Host` and `IdleEnded` say what the
events of the host mean.
`QuietIsFree` and `SlotsDrain` are the safety half of `SlotsFreed`: with all calls over, what is
left shrinks with each step, and when nothing is left no slot is in use. The first needs
`EventsTell`, that the last unhandled event about a child, or its status if there is none, agrees
with the host; it is why a child met before its events keeps no slot once they are handled.

**ArtifactSyncProofs.** `SyncLeavesCurrentFiles`, `RefusedRunWritesNothing`,
`SyncKeepsUserFiles`, `RunsAreRouted`, `GraphDecides`, `DelegationDecided`. `Changing` and
`Deleting` tie the changes left to the plan, `Undisturbed` says that without users no link appears and what is to be deleted is still
there, so that no later step refuses, and `Progress` that each file of a runtime that was begun
is current or among the changes, and each obsolete one among the deletions. None of it
mentions earlier runs: errors, crashes and edits may leave any contents. `RunsAreRouted`
is the first half of `GraphsAreRouted`: from the levels that `walk` reaches
(`LevelFacts`) it derives, without `Acyclic`, that chains of delegations start at the one
root and never have three delegations; the search for cycles refuses nothing that the depth
would not.
`GraphDecides` adds the second half: no graph that is routed is refused. `visit` is a recursive
function of the agents being visited, and first has to be shown well defined: `SearchExists`
builds it from the bottom, the results where up to `k + 1` agents are left from those where
up to `k` are (an induction over `k`, as every visit has one agent more in hand). In a graph
without three delegations in a row the agents being visited are a chain that ends at the next
one, so no visit meets an agent again (`VisitQuiet`, `NoCycle`), and `RoutedIsAccepted` follows.
`Refused` carries the reason of a refusal to the end of the run.
`DelegationDecided` is about what both renderers write, whatever the permissions are. A dict
is the sequence of its entries, so the proof follows where entries go: `PutFacts` and
`MergeFacts` (an entry that is put or merged keeps its place or comes last), `AsRulesFacts` (the
order and effects of the rules are those of the entries), `LastDecides` and `RulesDecided` (the last
entry that speaks of delegating to an agent decides, by induction over the prefixes of the
flattened rules), `TaskDecides` (the entry of `task` decides as the graph says) and
`WholeDecides` (an entry with one effect decides for every agent). `NativeDecides` and `V1Decides`
find that entry in the two results: `task` of the graph, unless an entry of the permissions
comes later. `LoadableSpecs` shows that what the loader accepts fits: names are
finitely many, none is `*`, and every permission is an effect.

*Only model-checked.* Liveness (`JobsFinish`, `MainReturns`, `CallsEnd`, `JobsSettle`,
`SlotsFreed`), which is out of the prover's reach, as is `ENABLED`.
The theorems `NoneStranded`, `CallsAreShort`, `HoldersGoOn`, `SlotsDrain` and `QuietIsFree` prove
what these properties rest on besides fairness: that someone can go on, and gets nearer.

## 5. Plan

Done: `AcpRunner` with its contract and proofs, `CodexLifecycle` with its proofs,
`PlanApproval`, `SharedMemory` with `McpStdio`, `ResearchWorker` with its contract,
`ArtifactSync` with `AgentCatalog`, `ReliabilityGuard` with their proofs. Next, in this order:

1. `ApprovalWatchdog`: suspicion, dialog, decision and interrupt, against activity; the
   interrupt is awaited, and what happened meanwhile is overwritten.
2. `MemoryBroker`: read, merge and replace of two tasks, against one atomic merge.
3. `ManagedTask`: steps with failures and the cleanup trap.
4. Retries and the failure budget of the guard; two installs at once in `CodexLifecycle`.

Not modelled, and why: launchers, configuration scripts and installers (`bootstrap`,
`user-link`, `opencode-agents`, `apply-*`): single-shot scripts whose effect is I/O; usage
pricing and shell environment: no state between calls; the guard of OpenCode V1: the same
protocol of slots as V2; the ACP command line: one session without concurrency; the
parsers of shell commands, except as kinds of input to the gate.
