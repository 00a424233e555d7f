------------------------------ MODULE AcpRunner ------------------------------
(***************************************************************************)
(* The ACP child-runner manager: RunnerService (scripts/acp-mcp) and the   *)
(* AcpSession objects it owns (runtime/common/acp_session.py).             *)
(*                                                                         *)
(* Actors, one group of actions each:                                      *)
(*   - the main thread, which serves one MCP call at a time;               *)
(*   - the executor's worker threads, one job at most per session;         *)
(*   - one reader thread per child process, from its stdout to the queue   *)
(*     of the session;                                                     *)
(*   - the child processes (external: whatever a program that speaks       *)
(*     ACP over a pipe can do, dying included).                            *)
(*                                                                         *)
(* A step of a thread is one stretch of code between two points where      *)
(* another thread can change what it reads.  session/update notifications  *)
(* carry text only and are left out.                                       *)
(***************************************************************************)
EXTENDS Naturals, Sequences, FiniteSets

CONSTANTS
  Sessions,     \* the AcpSession objects that `start` calls create
  MaxParallel,  \* OAT_ACP_MAX_PARALLEL
  MaxCalls,     \* bound: message and respond calls per session
  MaxLines,     \* bound: lines per session other than usable answers to the client
  Verdicts      \* bound: how children answer requests

ASSUME SessionsAssumption == IsFiniteSet(Sessions) /\ "none" \notin Sessions
ASSUME BoundsAssumption == /\ MaxParallel \in Nat \ {0}
                           /\ MaxCalls \in Nat
                           /\ MaxLines \in Nat
                           /\ Verdicts \subseteq {"ok", "bad", "error"}

VARIABLES
  \* RunnerService
  main,        \* what the main thread is doing
  target,      \* the session its current call is about
  registered,  \* self.sessions
  backlog,     \* the executor's work queue
  job,         \* a session's last job: its future, then what status reports
  op,          \* what that job was asked to do
  calls,       \* message and respond calls made so far (bound)
  \* AcpSession
  process,     \* the child of the session by generation, 0 for None
  state,
  pending,     \* pending_permission by number, 0 for None
  active,      \* active_prompt_id, 0 for None
  nextId,      \* _next_id
  queue,       \* _queue
  pc,          \* where the thread that drives the session is
  \* the children
  spawned,     \* children this session has had
  alive,       \* the children whose process runs
  pipe,        \* what a child wrote and its reader has not read
  open,        \* requests a child received and has not answered
  asked,       \* permission requests made to a session
  replies,     \* answers to them that were written to a child
  cancelSent,  \* children that were sent session/cancel
  noise        \* invalid lines, unsupported requests, bad answers so far (bound)

mainVars == <<main, target, registered>>
jobVars == <<backlog, job, op, calls>>
turnVars == <<state, pending, active, pc>>
linkVars == <<process, nextId, queue>>
childVars == <<spawned, alive, pipe, open>>
talkVars == <<asked, replies, cancelSent, noise>>
vars == <<mainVars, jobVars, turnVars, linkVars, childVars, talkVars>>

-----------------------------------------------------------------------------
Generations == 1..2
Children == Sessions \X Generations

Message == [kind : {"response", "ask", "call", "garbage", "eof"},
            id : Nat,
            verdict : {"ok", "bad", "error"}]
Response(id, verdict) == [kind |-> "response", id |-> id, verdict |-> verdict]
Ask(k) == [kind |-> "ask", id |-> k, verdict |-> "ok"]
Noise(kind) == [kind |-> kind, id |-> 0, verdict |-> "ok"]
Eof == Noise("eof")

Reply == [ask : Nat, outcome : {"selected", "cancelled"}]

Current(s) == <<s, process[s]>>

\* The test of _send: there is a process and poll() says it runs.
Running(s) == process[s] # 0 /\ Current(s) \in alive

Operations == {"prompt", "blank", "respond", "bad option"}
Results == {"completed", "permission_required", "failed"}

Waiting == {"initialize", "session/new", "session/prompt"}

\* The request id the loop of _wait_for_response compares with.
Awaited(s) == IF pc[s] = "session/prompt" THEN active[s] ELSE nextId[s] - 1

MainType ==
  /\ main \in {"idle", "start", "cancel", "answer", "forget", "terminate",
               "drop", "exiting", "down"}
  /\ target \in Sessions \cup {"none"}
  /\ registered \subseteq Sessions

JobType ==
  /\ backlog \in Seq(Sessions)
  /\ job \in [Sessions -> {"none", "queued", "running"} \cup Results]
  /\ op \in [Sessions -> Operations]
  /\ calls \in [Sessions -> Nat]

TurnType ==
  /\ state \in [Sessions -> {"new", "initializing", "idle", "running",
                             "waiting_permission", "failed", "cancelled",
                             "closed"}]
  /\ pending \in [Sessions -> Nat]
  /\ active \in [Sessions -> Nat]
  /\ pc \in [Sessions -> Waiting \cup {"none", "prompt", "respond", "resume"}]

LinkType ==
  /\ process \in [Sessions -> 0..2]
  /\ nextId \in [Sessions -> Nat \ {0}]
  /\ queue \in [Sessions -> Seq(Message)]

ChildType ==
  /\ spawned \in [Sessions -> 0..2]
  /\ alive \subseteq Children
  /\ pipe \in [Children -> Seq(Message)]
  /\ open \in [Children -> SUBSET Nat]

TalkType ==
  /\ asked \in [Sessions -> Nat]
  /\ replies \in [Sessions -> Seq(Reply)]
  /\ cancelSent \subseteq Children
  /\ noise \in [Sessions -> Nat]

TypeOK == MainType /\ JobType /\ TurnType /\ LinkType /\ ChildType /\ TalkType

Init ==
  /\ main = "idle"
  /\ target = "none"
  /\ registered = {}
  /\ backlog = <<>>
  /\ job = [s \in Sessions |-> "none"]
  /\ op = [s \in Sessions |-> "prompt"]
  /\ calls = [s \in Sessions |-> 0]
  /\ process = [s \in Sessions |-> 0]
  /\ state = [s \in Sessions |-> "new"]
  /\ pending = [s \in Sessions |-> 0]
  /\ active = [s \in Sessions |-> 0]
  /\ nextId = [s \in Sessions |-> 1]
  /\ queue = [s \in Sessions |-> <<>>]
  /\ pc = [s \in Sessions |-> "none"]
  /\ spawned = [s \in Sessions |-> 0]
  /\ alive = {}
  /\ pipe = [c \in Children |-> <<>>]
  /\ open = [c \in Children |-> {}]
  /\ asked = [s \in Sessions |-> 0]
  /\ replies = [s \in Sessions |-> <<>>]
  /\ cancelSent = {}
  /\ noise = [s \in Sessions |-> 0]

-----------------------------------------------------------------------------
(* Steps shared by several actions *)

\* Processes end: their stdout closes and what they had not answered is lost.
Kill(C) ==
  /\ alive' = alive \ C
  /\ pipe' = [c \in Children |-> IF c \in C \cap alive THEN Append(pipe[c], Eof)
                                                       ELSE pipe[c]]
  /\ open' = [c \in Children |-> IF c \in C THEN {} ELSE open[c]]

\* _request_id, and the write of _send when it does not raise.
Request(s) ==
  /\ nextId' = [nextId EXCEPT ![s] = @ + 1]
  /\ open' = IF Running(s) THEN [open EXCEPT ![Current(s)] = @ \cup {nextId[s]}]
                           ELSE open

AnswerPermission(s, k, result) ==
  replies' = [replies EXCEPT ![s] = Append(@, [ask |-> k, outcome |-> result])]

Submit(s, what) ==
  /\ job' = [job EXCEPT ![s] = "queued"]
  /\ op' = [op EXCEPT ![s] = what]
  /\ backlog' = Append(backlog, s)

FinishJob(s, result) ==
  /\ job' = [job EXCEPT ![s] = result]
  /\ pc' = [pc EXCEPT ![s] = "none"]

\* An exception ends what drives s: a worker's job, or the main thread's start.
Abandon(s) ==
  IF job[s] = "running"
  THEN FinishJob(s, "failed") /\ UNCHANGED <<main, target>>
  ELSE /\ pc' = [pc EXCEPT ![s] = "none"]
       /\ main' = "idle" /\ target' = "none"
       /\ UNCHANGED job

\* Mutant of Raise: a failed turn leaves the session idle.
RaiseToIdle(s) ==
  /\ Abandon(s)
  /\ state' = [state EXCEPT ![s] = "idle"]

\* _wait_prompt turns every exception but _PermissionNeeded into "failed".
Raise(s) ==
  /\ Abandon(s)
  /\ state' = IF pc[s] = "session/prompt" THEN [state EXCEPT ![s] = "failed"]
                                          ELSE state

\* start(): Popen, the reader thread, and the initialize request.
Spawn(s) ==
  /\ spawned' = [spawned EXCEPT ![s] = @ + 1]
  /\ process' = [process EXCEPT ![s] = spawned[s] + 1]
  /\ alive' = alive \cup {<<s, spawned[s] + 1>>}
  /\ state' = [state EXCEPT ![s] = "initializing"]
  /\ nextId' = [nextId EXCEPT ![s] = @ + 1]
  /\ open' = [open EXCEPT ![<<s, spawned[s] + 1>>] = {nextId[s]}]
  /\ pc' = [pc EXCEPT ![s] = "initialize"]
  /\ UNCHANGED <<pending, active, queue, pipe, talkVars>>

-----------------------------------------------------------------------------
(* The main thread: MCP calls.  list and status change nothing a call or a  *)
(* thread depends on: _collect moves a result from the future to `latest`,  *)
(* and status reports it from either.                                       *)

\* Mutant of CallStart: the limit is off by one.
CallStartOverLimit(s) ==
  /\ main = "idle" /\ spawned[s] = 0
  /\ Cardinality(registered) <= MaxParallel
  /\ main' = "start" /\ target' = s
  /\ Spawn(s)
  /\ UNCHANGED <<registered, jobVars>>

CallStart(s) ==
  /\ main = "idle" /\ spawned[s] = 0
  /\ Cardinality(registered) < MaxParallel
  /\ main' = "start" /\ target' = s
  /\ Spawn(s)
  /\ UNCHANGED <<registered, jobVars>>

\* message and respond: refused while the session's last job is unfinished.
CallSubmit(s, what) ==
  /\ main = "idle" /\ s \in registered
  /\ job[s] \notin {"queued", "running"}
  /\ calls[s] < MaxCalls
  /\ calls' = [calls EXCEPT ![s] = @ + 1]
  /\ Submit(s, what)
  /\ UNCHANGED <<mainVars, turnVars, linkVars, childVars, talkVars>>

CallClose(s) ==
  /\ main = "idle" /\ s \in registered
  /\ main' = IF job[s] \in {"queued", "running"} THEN "cancel" ELSE "terminate"
  /\ target' = s
  /\ UNCHANGED <<registered, jobVars, turnVars, linkVars, childVars, talkVars>>

\* cancel(): the notification, then the answer to a pending permission.
Cancel(s) ==
  /\ main = "cancel" /\ target = s
  /\ IF Running(s)
     THEN main' = "answer" /\ cancelSent' = cancelSent \cup {Current(s)}
     ELSE main' = "terminate" /\ UNCHANGED cancelSent
  /\ UNCHANGED <<target, registered, jobVars, turnVars, linkVars, childVars,
                 asked, replies, noise>>

CancelAnswer(s) ==
  /\ main = "answer" /\ target = s
  /\ \/ /\ pending[s] = 0
        /\ main' = "terminate"
        /\ state' = [state EXCEPT ![s] = "cancelled"]
        /\ UNCHANGED replies
     \/ /\ pending[s] # 0 /\ Running(s)
        /\ main' = "forget"
        /\ AnswerPermission(s, pending[s], "cancelled")
        /\ UNCHANGED state
     \/ /\ pending[s] # 0 /\ ~Running(s)
        /\ main' = "terminate"
        /\ UNCHANGED <<state, replies>>
  /\ UNCHANGED <<target, registered, jobVars, pending, active, pc, linkVars,
                 childVars, asked, cancelSent, noise>>

CancelForget(s) ==
  /\ main = "forget" /\ target = s
  /\ main' = "terminate"
  /\ pending' = [pending EXCEPT ![s] = 0]
  /\ state' = [state EXCEPT ![s] = "cancelled"]
  /\ UNCHANGED <<target, registered, jobVars, active, pc, linkVars, childVars,
                 talkVars>>

\* Mutant of Terminate: close() does not wait for the process to end.
TerminateNoWait(s) ==
  /\ main = "terminate" /\ target = s
  /\ main' = "drop"
  /\ UNCHANGED <<target, registered, jobVars, turnVars, linkVars, childVars,
                 talkVars>>

\* close(force=True): terminate or kill, and wait.
Terminate(s) ==
  /\ main = "terminate" /\ target = s
  /\ main' = "drop"
  /\ Kill({Current(s)})
  /\ UNCHANGED <<target, registered, jobVars, turnVars, linkVars, spawned,
                 talkVars>>

\* Mutant of Drop: the session stays in the registry.
DropKeepsSession(s) ==
  /\ main = "drop" /\ target = s
  /\ main' = "idle" /\ target' = "none"
  /\ process' = [process EXCEPT ![s] = 0]
  /\ state' = [state EXCEPT ![s] = "closed"]
  /\ UNCHANGED <<registered, jobVars, pending, active, pc, nextId, queue,
                 childVars, talkVars>>

\* The end of close(), and the pops of the service: the future is forgotten,
\* not cancelled.
Drop(s) ==
  /\ main = "drop" /\ target = s
  /\ main' = "idle" /\ target' = "none"
  /\ registered' = registered \ {s}
  /\ process' = [process EXCEPT ![s] = 0]
  /\ state' = [state EXCEPT ![s] = "closed"]
  /\ UNCHANGED <<jobVars, pending, active, pc, nextId, queue, childVars, talkVars>>

\* stdin of the MCP server ends.
Exit ==
  /\ main = "idle"
  /\ main' = "exiting"
  /\ UNCHANGED <<target, registered, jobVars, turnVars, linkVars, childVars,
                 talkVars>>

\* The interpreter joins the executor's threads before it runs close_all.
CloseAll ==
  /\ main = "exiting"
  /\ \A s \in Sessions : job[s] \notin {"queued", "running"}
  /\ main' = "down"
  /\ registered' = {}
  /\ Kill({Current(s) : s \in registered})
  /\ process' = [s \in Sessions |-> IF s \in registered THEN 0 ELSE process[s]]
  /\ state' = [s \in Sessions |-> IF s \in registered THEN "closed" ELSE state[s]]
  /\ UNCHANGED <<target, jobVars, pending, active, pc, nextId, queue, spawned,
                 talkVars>>

-----------------------------------------------------------------------------
(* The workers: the start of a job *)

\* A free worker takes the oldest job of the backlog.
Take(s) ==
  /\ backlog # <<>> /\ s = Head(backlog)
  /\ Cardinality({t \in Sessions : job[t] = "running"}) < MaxParallel
  /\ backlog' = Tail(backlog)
  /\ job' = [job EXCEPT ![s] = "running"]
  /\ UNCHANGED <<mainVars, op, calls>>

IsPrompt(s) == op[s] \in {"prompt", "blank"}

TakeJob(s) ==
  /\ IsPrompt(s) => process[s] # 0
  /\ Take(s)
  /\ pc' = [pc EXCEPT ![s] = IF IsPrompt(s) THEN "prompt" ELSE "respond"]
  /\ UNCHANGED <<state, pending, active, linkVars, childVars, talkVars>>

\* prompt() finds no process: it starts the session again.
TakeAndSpawn(s) ==
  /\ IsPrompt(s) /\ process[s] = 0
  /\ Take(s)
  /\ Spawn(s)

Prompt(s) ==
  /\ pc[s] = "prompt" /\ active[s] = 0 /\ op[s] # "blank"
  /\ pending' = [pending EXCEPT ![s] = 0]
  /\ active' = [active EXCEPT ![s] = nextId[s]]
  /\ state' = [state EXCEPT ![s] = "running"]
  /\ Request(s)
  /\ IF Running(s) THEN pc' = [pc EXCEPT ![s] = "session/prompt"] /\ UNCHANGED job
                   ELSE FinishJob(s, "failed")
  /\ UNCHANGED <<mainVars, backlog, op, calls, process, queue, spawned, alive,
                 pipe, talkVars>>

\* Mutant of CanRespond: respond() does not ask for a pending permission.
CanRespondAnyTime(s) == op[s] = "respond" /\ Running(s)

\* respond(): the option goes to the request that is pending now.
CanRespond(s) ==
  pending[s] # 0 /\ active[s] # 0 /\ op[s] = "respond" /\ Running(s)

Respond(s) ==
  /\ pc[s] = "respond" /\ CanRespond(s)
  /\ AnswerPermission(s, pending[s], "selected")
  /\ pc' = [pc EXCEPT ![s] = "resume"]
  /\ UNCHANGED <<mainVars, jobVars, state, pending, active, linkVars, childVars,
                 asked, cancelSent, noise>>

\* Mutant of Resume: the answered request stays pending.
ResumeKeepsPending(s) ==
  /\ pc[s] = "resume"
  /\ state' = [state EXCEPT ![s] = "running"]
  /\ pc' = [pc EXCEPT ![s] = "session/prompt"]
  /\ UNCHANGED <<mainVars, jobVars, pending, active, linkVars, childVars, talkVars>>

Resume(s) ==
  /\ pc[s] = "resume"
  /\ pending' = [pending EXCEPT ![s] = 0]
  /\ state' = [state EXCEPT ![s] = "running"]
  /\ pc' = [pc EXCEPT ![s] = "session/prompt"]
  /\ UNCHANGED <<mainVars, jobVars, active, linkVars, childVars, talkVars>>

\* Mutant of Refuse: prompt() clears pending_permission before its checks.
RefuseForgets(s) ==
  /\ \/ /\ pc[s] = "prompt" /\ (active[s] # 0 \/ op[s] = "blank")
        /\ pending' = [pending EXCEPT ![s] = 0]
     \/ /\ pc[s] = "respond" /\ ~CanRespond(s)
        /\ UNCHANGED pending
  /\ FinishJob(s, "failed")
  /\ UNCHANGED <<mainVars, backlog, op, calls, state, active, linkVars, childVars,
                 talkVars>>

\* A prompt is active or the message blank; nothing to respond to.
Refuse(s) ==
  /\ \/ pc[s] = "prompt" /\ (active[s] # 0 \/ op[s] = "blank")
     \/ pc[s] = "respond" /\ ~CanRespond(s)
  /\ FinishJob(s, "failed")
  /\ UNCHANGED <<mainVars, backlog, op, calls, state, pending, active, linkVars,
                 childVars, talkVars>>

-----------------------------------------------------------------------------
(* The loop of _wait_for_response, run by a worker or, in start, by the     *)
(* main thread                                                              *)

Line(s) == Head(queue[s])

Read(s) ==
  /\ pc[s] \in Waiting /\ queue[s] # <<>>
  /\ queue' = [queue EXCEPT ![s] = Tail(@)]

IsAnswer(s) == Line(s).kind = "response" /\ Line(s).id = Awaited(s)

\* Requests of the child that the client answers on its own.
IsDeclined(s) == \/ Line(s).kind = "call"
                 \/ Line(s).kind = "ask" /\ pc[s] # "session/prompt"

\* Mutants of GiveUp: the turn is forgotten with its deadline; only start has a
\* deadline; only prompts have one.
GiveUpForgetsTurn(s) ==
  /\ pc[s] \in Waiting
  /\ Raise(s)
  /\ active' = [active EXCEPT ![s] = 0]
  /\ UNCHANGED <<registered, backlog, op, calls, pending, linkVars, childVars,
                 talkVars>>

GiveUpAtStart(s) ==
  /\ pc[s] \in Waiting \ {"session/prompt"}
  /\ Raise(s)
  /\ UNCHANGED <<registered, backlog, op, calls, pending, active, linkVars,
                 childVars, talkVars>>

GiveUpInPrompt(s) ==
  /\ pc[s] = "session/prompt"
  /\ Raise(s)
  /\ UNCHANGED <<registered, backlog, op, calls, pending, active, linkVars,
                 childVars, talkVars>>

\* The deadline passes, or the queue stays empty and the process has exited.
GiveUp(s) ==
  /\ pc[s] \in Waiting
  /\ Raise(s)
  /\ UNCHANGED <<registered, backlog, op, calls, pending, active, linkVars,
                 childVars, talkVars>>

ReadFailure(s) ==
  /\ Read(s)
  /\ \/ Line(s).kind \in {"eof", "garbage"}
     \/ IsAnswer(s) /\ Line(s).verdict = "error"
     \/ IsDeclined(s) /\ ~Running(s)
  /\ Raise(s)
  /\ UNCHANGED <<registered, backlog, op, calls, pending, active, process, nextId,
                 childVars, talkVars>>

\* A declined request, or the response to a request nobody waits for.
ReadAndContinue(s) ==
  /\ Read(s)
  /\ \/ IsDeclined(s) /\ Running(s)
     \/ Line(s).kind = "response" /\ ~IsAnswer(s)
  /\ IF Line(s).kind = "ask" THEN AnswerPermission(s, Line(s).id, "cancelled")
                             ELSE UNCHANGED replies
  /\ UNCHANGED <<mainVars, jobVars, turnVars, process, nextId, childVars, asked,
                 cancelSent, noise>>

\* The prompt is suspended; the job ends and reports the request.
ReadPermission(s) ==
  /\ Read(s)
  /\ Line(s).kind = "ask" /\ pc[s] = "session/prompt"
  /\ pending' = [pending EXCEPT ![s] = Line(s).id]
  /\ state' = [state EXCEPT ![s] = "waiting_permission"]
  /\ FinishJob(s, "permission_required")
  /\ UNCHANGED <<mainVars, backlog, op, calls, active, process, nextId, childVars,
                 talkVars>>

ReadInitialized(s) ==
  /\ Read(s)
  /\ IsAnswer(s) /\ Line(s).verdict = "ok" /\ pc[s] = "initialize"
  /\ Request(s)
  /\ IF Running(s)
     THEN pc' = [pc EXCEPT ![s] = "session/new"] /\ UNCHANGED <<main, target, job>>
     ELSE Abandon(s)
  /\ UNCHANGED <<registered, backlog, op, calls, state, pending, active, process,
                 spawned, alive, pipe, talkVars>>

\* Another protocol version, or no session id: close(force=True), then raise.
ReadUnusable(s) ==
  /\ Read(s)
  /\ IsAnswer(s) /\ Line(s).verdict = "bad" /\ pc[s] # "session/prompt"
  /\ Kill({Current(s)})
  /\ process' = [process EXCEPT ![s] = 0]
  /\ state' = [state EXCEPT ![s] = "closed"]
  /\ Abandon(s)
  /\ UNCHANGED <<registered, backlog, op, calls, pending, active, nextId, spawned,
                 talkVars>>

\* The session is ready.  The main thread registers it and submits the first
\* message, if the call has one; a worker goes on with its prompt.
ReadCreated(s) ==
  /\ Read(s)
  /\ IsAnswer(s) /\ Line(s).verdict = "ok" /\ pc[s] = "session/new"
  /\ state' = [state EXCEPT ![s] = "idle"]
  /\ \/ /\ job[s] = "running"
        /\ pc' = [pc EXCEPT ![s] = "prompt"]
        /\ UNCHANGED <<mainVars, backlog, job, op>>
     \/ /\ job[s] # "running"
        /\ pc' = [pc EXCEPT ![s] = "none"]
        /\ main' = "idle" /\ target' = "none"
        /\ registered' = registered \cup {s}
        /\ Submit(s, "prompt") \/ UNCHANGED <<backlog, job, op>>
  /\ UNCHANGED <<calls, pending, active, process, nextId, childVars, talkVars>>

ReadCompleted(s) ==
  /\ Read(s)
  /\ IsAnswer(s) /\ Line(s).verdict # "error" /\ pc[s] = "session/prompt"
  /\ active' = [active EXCEPT ![s] = 0]
  /\ state' = [state EXCEPT ![s] = "idle"]
  /\ FinishJob(s, "completed")
  /\ UNCHANGED <<mainVars, backlog, op, calls, pending, process, nextId, childVars,
                 talkVars>>

-----------------------------------------------------------------------------
(* The reader threads and the children *)

ReadLine(c) ==
  /\ main # "down"  \* daemon threads end with the interpreter
  /\ pipe[c] # <<>>
  /\ queue' = [queue EXCEPT ![c[1]] = Append(@, Head(pipe[c]))]
  /\ pipe' = [pipe EXCEPT ![c] = Tail(@)]
  /\ UNCHANGED <<mainVars, jobVars, turnVars, process, nextId, spawned, alive,
                 open, talkVars>>

Write(c, m) == c \in alive /\ pipe' = [pipe EXCEPT ![c] = Append(@, m)]

ChildAnswers(c, id, verdict) ==
  /\ id \in open[c]
  /\ verdict # "ok" => asked[c[1]] + noise[c[1]] < MaxLines
  /\ Write(c, Response(id, verdict))
  /\ open' = [open EXCEPT ![c] = @ \ {id}]
  /\ noise' = [noise EXCEPT ![c[1]] = IF verdict = "ok" THEN @ ELSE @ + 1]
  /\ UNCHANGED <<mainVars, jobVars, turnVars, linkVars, spawned, alive, asked,
                 replies, cancelSent>>

\* A permission request is part of the work on a request of the client.
ChildAsks(c) ==
  /\ open[c] # {} /\ asked[c[1]] + noise[c[1]] < MaxLines
  /\ Write(c, Ask(asked[c[1]] + 1))
  /\ asked' = [asked EXCEPT ![c[1]] = @ + 1]
  /\ UNCHANGED <<mainVars, jobVars, turnVars, linkVars, spawned, alive, open,
                 replies, cancelSent, noise>>

ChildWritesNoise(c, kind) ==
  /\ asked[c[1]] + noise[c[1]] < MaxLines
  /\ Write(c, Noise(kind))
  /\ noise' = [noise EXCEPT ![c[1]] = @ + 1]
  /\ UNCHANGED <<mainVars, jobVars, turnVars, linkVars, spawned, alive, open,
                 asked, replies, cancelSent>>

ChildExits(c) ==
  /\ c \in alive
  /\ Kill({c})
  /\ UNCHANGED <<mainVars, jobVars, turnVars, linkVars, spawned, talkVars>>

-----------------------------------------------------------------------------
Main(s) ==
  \/ CallStart(s) \/ CallClose(s)
  \/ \E what \in Operations : CallSubmit(s, what)
  \/ Cancel(s) \/ CancelAnswer(s) \/ CancelForget(s) \/ Terminate(s) \/ Drop(s)

Worker(s) ==
  \/ TakeJob(s) \/ TakeAndSpawn(s)
  \/ Prompt(s) \/ Respond(s) \/ Resume(s) \/ Refuse(s)

Wait(s) ==
  \/ GiveUp(s) \/ ReadFailure(s) \/ ReadAndContinue(s) \/ ReadPermission(s)
  \/ ReadInitialized(s) \/ ReadUnusable(s) \/ ReadCreated(s) \/ ReadCompleted(s)

Child(c) ==
  \/ \E id \in open[c], verdict \in Verdicts : ChildAnswers(c, id, verdict)
  \/ ChildAsks(c)
  \/ \E kind \in {"call", "garbage"} : ChildWritesNoise(c, kind)
  \/ ChildExits(c)

Next ==
  \/ \E s \in Sessions : Main(s) \/ Worker(s) \/ Wait(s)
  \/ Exit \/ CloseAll
  \/ \E c \in Children : ReadLine(c) \/ Child(c)

Spec == Init /\ [][Next]_vars

\* A thread that can step does; a wait ends at its deadline.  The client, the
\* children and the end of the server promise nothing.
Fairness ==
  /\ \A s \in Sessions :
       /\ WF_vars(Cancel(s) \/ CancelAnswer(s) \/ CancelForget(s)
                  \/ Terminate(s) \/ Drop(s))
       /\ WF_vars(Worker(s))
       /\ WF_vars(GiveUp(s))
  /\ WF_vars(CloseAll)

FairSpec == Spec /\ Fairness

-----------------------------------------------------------------------------
(* Properties *)

\* A child never works on two requests at once.  A prompt that timed out keeps
\* active_prompt_id, so that no second prompt reaches a child whose first turn
\* may still run (the comment in _wait_prompt).
OneTurnPerChild == \A c \in Children : \A a, b \in open[c] : a = b

\* A session that reports "idle" has a child with nothing left to do, whatever
\* was late, declined or dropped before.
TurnOverWhenIdle ==
  \A s \in Sessions :
    state[s] = "idle" /\ process[s] # 0 => open[Current(s)] = {}

\* No permission request is granted twice, however respond calls, cancel() and
\* further requests interleave.
GrantedOnce ==
  \A s \in Sessions : \A i, j \in DOMAIN replies[s] :
    /\ replies[s][i].outcome = "selected"
    /\ replies[s][j].outcome = "selected"
    /\ replies[s][i].ask = replies[s][j].ask
    => i = j

InTransit(s, k) ==
  \/ \E i \in DOMAIN queue[s] : queue[s][i] = Ask(k)
  \/ \E i \in DOMAIN pipe[Current(s)] : pipe[Current(s)][i] = Ask(k)

\* A child that waits for a permission waits visibly: its request is on its way,
\* pending (status shows it and respond can answer it), or answered; until a
\* close() of its session begins.
PermissionKept ==
  \A s \in registered \ {target} : Running(s) =>
    \A k \in 1..asked[s] :
      \/ InTransit(s, k)
      \/ pending[s] = k
      \/ \E i \in DOMAIN replies[s] : replies[s][i].ask = k

\* A session never has two live children: a worker starts it again only after
\* close() has seen the first one end.
OneChildPerSession == \A c, d \in alive : c[1] = d[1] => c = d

\* A submitted job ends, even if its session is closed under it.
JobsFinish ==
  \A s \in Sessions : job[s] \in {"queued", "running"} ~> job[s] \in Results

\* The pool is bounded (OAT_ACP_MAX_PARALLEL): open sessions, and jobs at work,
\* those of closed sessions included.
PoolBounded ==
  /\ Cardinality(registered \cup ({target} \ {"none"})) <= MaxParallel
  /\ Cardinality({s \in Sessions : job[s] = "running"}) <= MaxParallel

\* Every MCP call returns, and the server shuts down after stdin ends.
MainReturns == main # "idle" ~> main \in {"idle", "down"}

\* What status says of a session.
Reported(s) ==
  CASE state[s] = "idle" -> "ready"
    [] state[s] = "waiting_permission" -> "asking"
    [] state[s] = "running" -> IF pc[s] = "session/prompt" THEN "working" ELSE "stuck"
    [] OTHER -> state[s]

\* The view of the parent, for the refinement of AcpContract.
Phase(s) ==
  CASE s \in registered /\ target # s -> Reported(s)
    [] s \in registered /\ target = s -> "closing"
    [] s \notin registered /\ target = s -> "opening"
    [] s \notin registered /\ target # s ->
         IF spawned[s] = 0 THEN "none" ELSE "closed"

JobsUnderWay == {s \in Sessions : job[s] \in {"queued", "running"}}

Contract == INSTANCE AcpContract WITH
  phase <- [s \in Sessions |-> Phase(s)], jobs <- JobsUnderWay

\* The sessions keep the contract that status tells the parent: what it says of an
\* open session is what its turn is at, a session whose turn failed or never reached
\* its child ("running", with no worker) takes no other turn until it is closed, and
\* nothing is left to work for a closed session but the one job it had at its close;
\* at most MaxParallel are open.
KeepsContract == Contract!Spec

\* "Ferme la session et termine le processus" (docs/v2/acp-runners.md:116): no
\* child is started for a session that close() has closed.
ClosedStaysClosed ==
  [][\A s \in Sessions : state[s] = "closed" => spawned'[s] = spawned[s]]_vars

\* "One toolkit session owns one ACP child process" (acp_session.py:3): between
\* two calls every live child belongs to a session of the service.
EveryChildOwned == main = "idle" => \A c \in alive : c[1] \in registered

=============================================================================
