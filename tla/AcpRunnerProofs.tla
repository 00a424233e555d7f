--------------------------- MODULE AcpRunnerProofs ---------------------------
(***************************************************************************)
(* Proofs about AcpRunner, for any set of sessions, any number of calls    *)
(* and any behaviour of the children.  In this order: the types; one live  *)
(* child per session; the limits of the pool; turns that never overlap;    *)
(* permission requests, granted once and never lost; the contract of the   *)
(* sessions, which the parent sees kept; and that no job is stranded.      *)
(***************************************************************************)
EXTENDS AcpRunner, SequencesExt, FiniteSetTheorems, TLAPS

Starting == {"initialize", "session/new"}
Closing == {"cancel", "answer", "forget", "terminate", "drop"}

\* A queued job is in the backlog once.
QueuedOnce ==
  /\ \A i \in DOMAIN backlog : job[backlog[i]] = "queued"
  /\ \A i, j \in DOMAIN backlog : backlog[i] = backlog[j] => i = j

\* Who drives a session: a running job, or the main thread's start.
Driven ==
  /\ \A s \in Sessions :
       pc[s] # "none" => job[s] = "running" \/ (main = "start" /\ target = s)
  /\ \A s \in Sessions : main = "start" /\ target = s =>
       /\ spawned[s] = 1 /\ process[s] = 1 /\ job[s] = "none"
       /\ pc[s] \in Starting
  /\ main = "start" => target \in Sessions
  /\ main \in Closing => target \in registered

\* How many children a session can have had: a registered session still has its
\* first; a second exists only when the job of a closed session has restarted it,
\* and then nothing submits to that session again.
Ancestry ==
  /\ \A s \in registered : spawned[s] = 1 /\ process[s] = 1
  /\ \A s \in Sessions : spawned[s] = 2 => job[s] # "queued"
  /\ \A s \in Sessions : spawned[s] = 0 => job[s] = "none"
  /\ \A s \in Sessions : pc[s] \in Starting => s \notin registered

Lineage == QueuedOnce /\ Driven /\ Ancestry

\* A live child is the one its session holds, and close() gives it up only dead.
Held ==
  /\ \A s \in Sessions : process[s] \in {0, spawned[s]}
  /\ \A c \in alive : c[2] = process[c[1]]
  /\ main = "drop" => Current(target) \notin alive

-----------------------------------------------------------------------------
(* Type correctness: what each shared step does to the types *)

\* Dead processes leave well-typed pipes and no open request.
LEMMA KillType ==
  ASSUME ChildType, NEW C, Kill(C), UNCHANGED spawned
  PROVE  ChildType'
<1>1. Eof \in Message
  BY DEF Eof, Noise, Message
<1>2. QED
  BY <1>1 DEF ChildType, Kill

\* A submitted job is typed.
LEMMA SubmitType ==
  ASSUME JobType, NEW s \in Sessions, NEW what \in Operations, Submit(s, what),
         UNCHANGED calls
  PROVE  JobType'
BY DEF JobType, Submit

\* The end of a job is typed.
LEMMA FinishType ==
  ASSUME JobType, TurnType, NEW s \in Sessions, NEW result \in Results,
         FinishJob(s, result), UNCHANGED <<backlog, op, calls>>
  PROVE  /\ JobType'
         /\ pc' \in [Sessions -> Waiting \cup {"none", "prompt", "respond", "resume"}]
BY DEF JobType, TurnType, FinishJob

\* So is what an exception ends.
LEMMA AbandonType ==
  ASSUME MainType, JobType, TurnType, NEW s \in Sessions, Abandon(s),
         UNCHANGED <<registered, backlog, op, calls>>
  PROVE  /\ MainType'
         /\ JobType'
         /\ pc' \in [Sessions -> Waiting \cup {"none", "prompt", "respond", "resume"}]
<1>1. CASE job[s] = "running"
  <2>1. FinishJob(s, "failed") /\ UNCHANGED <<main, target>>
    BY <1>1 DEF Abandon
  <2>2. "failed" \in Results
    BY DEF Results
  <2>3. QED
    BY <2>1, <2>2, FinishType DEF MainType
<1>2. CASE job[s] # "running"
  BY <1>2 DEF Abandon, MainType, JobType, TurnType
<1>3. QED
  BY <1>1, <1>2

\* And the failed state a turn ends in.
LEMMA RaiseType ==
  ASSUME MainType, JobType, TurnType, NEW s \in Sessions, Raise(s),
         UNCHANGED <<registered, backlog, op, calls, pending, active>>
  PROVE  MainType' /\ JobType' /\ TurnType'
<1>1. Abandon(s)
  BY DEF Raise
<1>2. state' \in [Sessions -> {"new", "initializing", "idle", "running",
                             "waiting_permission", "failed", "cancelled",
                             "closed"}]
  BY DEF Raise, TurnType
<1>3. QED
  BY <1>1, <1>2, AbandonType DEF TurnType

\* The restart of a session stays within two generations.
LEMMA SpawnType ==
  ASSUME TypeOK, NEW s \in Sessions, spawned[s] # 2, Spawn(s)
  PROVE  TurnType' /\ LinkType' /\ ChildType' /\ TalkType'
<1> USE DEF TypeOK
<1>1. spawned[s] + 1 \in 1..2 /\ <<s, spawned[s] + 1>> \in Children
  BY DEF ChildType, Children, Generations
<1>2. TurnType'
  BY DEF TurnType, Spawn, Waiting
<1>3. LinkType'
  BY <1>1 DEF LinkType, Spawn
<1>4. ChildType'
  <2>1. spawned' \in [Sessions -> 0..2]
    BY <1>1 DEF ChildType, Spawn
  <2>2. nextId[s] \in Nat
    BY DEF LinkType
  <2>3. QED
    BY <1>1, <2>1, <2>2 DEF ChildType, Spawn
<1>5. TalkType'
  BY DEF TalkType, Spawn, talkVars
<1>6. QED
  BY <1>2, <1>3, <1>4, <1>5

\* A line taken from the queue is a message, and the rest of the queue is typed.
LEMMA ReadType ==
  ASSUME LinkType, NEW s \in Sessions, Read(s)
  PROVE  /\ Line(s) \in Message
         /\ queue' \in [Sessions -> Seq(Message)]
<1>1. queue[s] \in Seq(Message) /\ queue[s] # <<>>
  BY DEF LinkType, Read
<1>2. Head(queue[s]) \in Message /\ Tail(queue[s]) \in Seq(Message)
  BY <1>1
<1>3. QED
  BY <1>2 DEF LinkType, Read, Line

\* A request takes the next number.
LEMMA RequestType ==
  ASSUME LinkType, ChildType, NEW s \in Sessions, Request(s)
  PROVE  /\ nextId' \in [Sessions -> Nat \ {0}]
         /\ open' \in [Children -> SUBSET Nat]
<1>1. nextId[s] \in Nat \ {0}
  BY DEF LinkType
<1>2. nextId' \in [Sessions -> Nat \ {0}]
  <2>1. nextId[s] + 1 \in Nat \ {0}
    BY <1>1
  <2>2. QED
    BY <2>1 DEF LinkType, Request
<1>3. open' \in [Children -> SUBSET Nat]
  <2>1. CASE Running(s)
    <3>1. Current(s) \in Children
      BY <2>1 DEF Running, ChildType
    <3>2. open[Current(s)] \cup {nextId[s]} \in SUBSET Nat
      BY <1>1, <3>1 DEF ChildType
    <3>3. QED
      BY <2>1, <3>1, <3>2 DEF Request, ChildType
  <2>2. CASE ~Running(s)
    BY <2>2 DEF Request, ChildType
  <2>3. QED
    BY <2>1, <2>2
<1>4. QED
  BY <1>2, <1>3

\* An answer to a permission request extends the replies.
LEMMA AnswerType ==
  ASSUME TalkType, NEW s \in Sessions, NEW k \in Nat,
         NEW result \in {"selected", "cancelled"}, AnswerPermission(s, k, result)
  PROVE  replies' \in [Sessions -> Seq(Reply)]
<1>1. [ask |-> k, outcome |-> result] \in Reply
  BY DEF Reply
<1>2. Append(replies[s], [ask |-> k, outcome |-> result]) \in Seq(Reply)
  BY <1>1 DEF TalkType
<1>3. QED
  BY <1>2 DEF TalkType, AnswerPermission

\* A line a child writes extends its pipe.
LEMMA WriteType ==
  ASSUME ChildType, NEW c \in Children, NEW m \in Message, Write(c, m)
  PROVE  pipe' \in [Children -> Seq(Message)]
<1>1. Append(pipe[c], m) \in Seq(Message)
  BY DEF ChildType
<1>2. QED
  BY <1>1 DEF ChildType, Write

\* A worker that takes a job can still restart its session once.
LEMMA TakeLineage ==
  ASSUME JobType, Lineage, NEW s \in Sessions, Take(s)
  PROVE  job[s] = "queued" /\ spawned[s] # 2
<1>1. backlog # <<>> /\ backlog[1] = s /\ 1 \in DOMAIN backlog
  BY DEF Take, JobType
<1>2. QED
  BY <1>1 DEF Lineage, QueuedOnce, Ancestry

\* Every step keeps the types; Lineage bounds the generations.
LEMMA TypeStep ==
  ASSUME TypeOK, Lineage, [Next]_vars
  PROVE  TypeOK'
<1> USE DEF TypeOK
<1>1. ASSUME NEW s \in Sessions, CallStart(s)
      PROVE  TypeOK'
  <2>1. spawned[s] # 2 /\ Spawn(s)
    BY <1>1 DEF CallStart
  <2>2. MainType'
    BY <1>1 DEF CallStart, MainType, mainVars
  <2>3. TurnType'
    BY <1>1, <2>1, SpawnType DEF CallStart
  <2>4. LinkType'
    BY <1>1, <2>1, SpawnType DEF CallStart
  <2>5. ChildType'
    BY <1>1, <2>1, SpawnType DEF CallStart
  <2>6. TalkType'
    BY <1>1, <2>1, SpawnType DEF CallStart
  <2>7. JobType'
    BY <1>1 DEF CallStart, JobType, jobVars
  <2>8. QED
    BY <2>1, <2>2, <2>3, <2>4, <2>5, <2>6, <2>7
<1>2. ASSUME NEW s \in Sessions, CallClose(s)
      PROVE  TypeOK'
  <2>1. MainType'
    BY <1>2 DEF CallClose, MainType, mainVars
  <2>2. JobType' /\ TurnType' /\ LinkType' /\ ChildType' /\ TalkType'
    BY <1>2 DEF CallClose, JobType, jobVars, TurnType, turnVars, LinkType, linkVars, ChildType, childVars, TalkType, talkVars
  <2>3. QED
    BY <2>1, <2>2
<1>3. ASSUME NEW s \in Sessions, NEW what \in Operations, CallSubmit(s, what)
      PROVE  TypeOK'
  <2>1. job' \in [Sessions -> {"none", "queued", "running"} \cup Results]
    BY <1>3 DEF CallSubmit, Submit, JobType
  <2>2. op' \in [Sessions -> Operations]
    BY <1>3 DEF CallSubmit, Submit, JobType
  <2>3. backlog' \in Seq(Sessions)
    BY <1>3 DEF CallSubmit, Submit, JobType
  <2>4. calls' \in [Sessions -> Nat]
    BY <1>3 DEF CallSubmit, JobType
  <2>5. JobType'
    BY <1>3, <2>1, <2>2, <2>3, <2>4 DEF CallSubmit, JobType, jobVars
  <2>6. MainType' /\ TurnType' /\ LinkType' /\ ChildType' /\ TalkType'
    BY <1>3 DEF CallSubmit, MainType, mainVars, TurnType, turnVars, LinkType, linkVars, ChildType, childVars, TalkType, talkVars
  <2>7. QED
    BY <2>1, <2>2, <2>3, <2>4, <2>5, <2>6
<1>4. ASSUME NEW s \in Sessions, Cancel(s)
      PROVE  TypeOK'
  <2>1. MainType'
    BY <1>4 DEF Cancel, MainType, mainVars
  <2>2. TalkType'
    BY <1>4 DEF Cancel, TalkType, talkVars, Running, ChildType
  <2>3. JobType' /\ TurnType' /\ LinkType' /\ ChildType'
    BY <1>4 DEF Cancel, JobType, jobVars, TurnType, turnVars, LinkType, linkVars, ChildType, childVars
  <2>4. QED
    BY <2>1, <2>2, <2>3
<1>5. ASSUME NEW s \in Sessions, CancelAnswer(s)
      PROVE  TypeOK'
  <2>1. replies' \in [Sessions -> Seq(Reply)]
    BY <1>5, AnswerType DEF CancelAnswer, TurnType, TalkType
  <2>2. MainType'
    BY <1>5 DEF CancelAnswer, MainType, mainVars
  <2>3. TurnType'
    BY <1>5 DEF CancelAnswer, TurnType, turnVars
  <2>4. TalkType'
    BY <1>5, <2>1 DEF CancelAnswer, TalkType, talkVars
  <2>5. JobType' /\ LinkType' /\ ChildType'
    BY <1>5 DEF CancelAnswer, JobType, jobVars, LinkType, linkVars, ChildType, childVars
  <2>6. QED
    BY <2>1, <2>2, <2>3, <2>4, <2>5
<1>6. ASSUME NEW s \in Sessions, CancelForget(s)
      PROVE  TypeOK'
  <2>1. MainType'
    BY <1>6 DEF CancelForget, MainType, mainVars
  <2>2. TurnType'
    BY <1>6 DEF CancelForget, TurnType, turnVars
  <2>3. JobType' /\ LinkType' /\ ChildType' /\ TalkType'
    BY <1>6 DEF CancelForget, JobType, jobVars, LinkType, linkVars, ChildType, childVars, TalkType, talkVars
  <2>4. QED
    BY <2>1, <2>2, <2>3
<1>7. ASSUME NEW s \in Sessions, Terminate(s)
      PROVE  TypeOK'
  <2>1. MainType'
    BY <1>7 DEF Terminate, MainType, mainVars
  <2>2. ChildType'
    BY <1>7, KillType DEF Terminate
  <2>3. JobType' /\ TurnType' /\ LinkType' /\ TalkType'
    BY <1>7 DEF Terminate, JobType, jobVars, TurnType, turnVars, LinkType, linkVars, TalkType, talkVars
  <2>4. QED
    BY <2>1, <2>2, <2>3
<1>8. ASSUME NEW s \in Sessions, Drop(s)
      PROVE  TypeOK'
  <2>1. MainType'
    BY <1>8 DEF Drop, MainType, mainVars
  <2>2. TurnType'
    BY <1>8 DEF Drop, TurnType, turnVars
  <2>3. LinkType'
    BY <1>8 DEF Drop, LinkType, linkVars
  <2>4. JobType' /\ ChildType' /\ TalkType'
    BY <1>8 DEF Drop, JobType, jobVars, ChildType, childVars, TalkType, talkVars
  <2>5. QED
    BY <2>1, <2>2, <2>3, <2>4
<1>9. ASSUME NEW s \in Sessions, TakeJob(s)
      PROVE  TypeOK'
  <2>1. MainType'
    BY <1>9 DEF TakeJob, MainType, mainVars, Take
  <2>2. JobType'
    BY <1>9 DEF TakeJob, JobType, jobVars, Take
  <2>3. TurnType'
    BY <1>9 DEF TakeJob, TurnType, turnVars, Waiting
  <2>4. LinkType' /\ ChildType' /\ TalkType'
    BY <1>9 DEF TakeJob, Take, LinkType, linkVars, ChildType, childVars, TalkType, talkVars
  <2>5. QED
    BY <2>1, <2>2, <2>3, <2>4
<1>10. ASSUME NEW s \in Sessions, TakeAndSpawn(s)
      PROVE  TypeOK'
  <2>1. spawned[s] # 2 /\ Spawn(s)
    BY <1>10, TakeLineage DEF TakeAndSpawn
  <2>2. MainType'
    BY <1>10 DEF TakeAndSpawn, MainType, mainVars, Take
  <2>3. JobType'
    BY <1>10 DEF TakeAndSpawn, JobType, jobVars, Take
  <2>4. TurnType'
    BY <1>10, <2>1, SpawnType DEF TakeAndSpawn
  <2>5. LinkType'
    BY <1>10, <2>1, SpawnType DEF TakeAndSpawn
  <2>6. ChildType'
    BY <1>10, <2>1, SpawnType DEF TakeAndSpawn
  <2>7. TalkType'
    BY <1>10, <2>1, SpawnType DEF TakeAndSpawn
  <2>8. QED
    BY <2>1, <2>2, <2>3, <2>4, <2>5, <2>6, <2>7
<1>11. ASSUME NEW s \in Sessions, Prompt(s)
      PROVE  TypeOK'
  <2>1. Request(s)
    BY <1>11 DEF Prompt
  <2>2. nextId[s] \in Nat
    BY DEF LinkType
  <2>3. JobType'
    BY <1>11 DEF Prompt, JobType, jobVars, FinishJob, Results
  <2>4. TurnType'
    BY <1>11, <2>1, <2>2 DEF Prompt, TurnType, turnVars, FinishJob, Waiting
  <2>5. LinkType'
    BY <1>11, <2>1, <2>2, RequestType DEF Prompt, LinkType, linkVars
  <2>6. ChildType'
    BY <1>11, <2>1, <2>2, RequestType DEF Prompt, ChildType, childVars
  <2>7. MainType' /\ TalkType'
    BY <1>11 DEF Prompt, MainType, mainVars, TalkType, talkVars
  <2>8. QED
    BY <2>1, <2>2, <2>3, <2>4, <2>5, <2>6, <2>7
<1>12. ASSUME NEW s \in Sessions, Respond(s)
      PROVE  TypeOK'
  <2>1. replies' \in [Sessions -> Seq(Reply)]
    BY <1>12, AnswerType DEF Respond, TurnType
  <2>2. TurnType'
    BY <1>12 DEF Respond, TurnType, turnVars
  <2>3. TalkType'
    BY <1>12, <2>1 DEF Respond, TalkType, talkVars
  <2>4. MainType' /\ JobType' /\ LinkType' /\ ChildType'
    BY <1>12 DEF Respond, MainType, mainVars, JobType, jobVars, LinkType, linkVars, ChildType, childVars
  <2>5. QED
    BY <2>1, <2>2, <2>3, <2>4
<1>13. ASSUME NEW s \in Sessions, Resume(s)
      PROVE  TypeOK'
  <2>1. TurnType'
    BY <1>13 DEF Resume, TurnType, turnVars, Waiting
  <2>2. MainType' /\ JobType' /\ LinkType' /\ ChildType' /\ TalkType'
    BY <1>13 DEF Resume, MainType, mainVars, JobType, jobVars, LinkType, linkVars, ChildType, childVars, TalkType, talkVars
  <2>3. QED
    BY <2>1, <2>2
<1>14. ASSUME NEW s \in Sessions, Refuse(s)
      PROVE  TypeOK'
  <2>1. JobType'
    BY <1>14 DEF Refuse, JobType, jobVars, FinishJob, Results
  <2>2. TurnType'
    BY <1>14 DEF Refuse, TurnType, turnVars, FinishJob
  <2>3. MainType' /\ LinkType' /\ ChildType' /\ TalkType'
    BY <1>14 DEF Refuse, MainType, mainVars, LinkType, linkVars, ChildType, childVars, TalkType, talkVars
  <2>4. QED
    BY <2>1, <2>2, <2>3
<1>15. ASSUME NEW s \in Sessions, GiveUp(s)
      PROVE  TypeOK'
  <2>1. MainType' /\ JobType' /\ TurnType'
    BY <1>15, RaiseType DEF GiveUp
  <2>2. LinkType' /\ ChildType' /\ TalkType'
    BY <1>15 DEF GiveUp, LinkType, linkVars, ChildType, childVars, TalkType, talkVars
  <2>3. QED
    BY <2>1, <2>2
<1>16. ASSUME NEW s \in Sessions, ReadFailure(s)
      PROVE  TypeOK'
  <2>1. MainType' /\ JobType' /\ TurnType'
    BY <1>16, RaiseType DEF ReadFailure
  <2>2. LinkType'
    BY <1>16, ReadType DEF ReadFailure, LinkType, linkVars
  <2>3. ChildType' /\ TalkType'
    BY <1>16 DEF ReadFailure, ChildType, childVars, TalkType, talkVars
  <2>4. QED
    BY <2>1, <2>2, <2>3
<1>17. ASSUME NEW s \in Sessions, ReadAndContinue(s)
      PROVE  TypeOK'
  <2>1. Line(s) \in Message
    BY <1>17, ReadType DEF ReadAndContinue
  <2>2. replies' \in [Sessions -> Seq(Reply)]
    BY <1>17, <2>1, AnswerType DEF ReadAndContinue, Message, TalkType
  <2>3. LinkType'
    BY <1>17, ReadType DEF ReadAndContinue, LinkType, linkVars
  <2>4. TalkType'
    BY <1>17, <2>1, <2>2 DEF ReadAndContinue, TalkType, talkVars
  <2>5. MainType' /\ JobType' /\ TurnType' /\ ChildType'
    BY <1>17 DEF ReadAndContinue, MainType, mainVars, JobType, jobVars, TurnType, turnVars, ChildType, childVars
  <2>6. QED
    BY <2>1, <2>2, <2>3, <2>4, <2>5
<1>18. ASSUME NEW s \in Sessions, ReadPermission(s)
      PROVE  TypeOK'
  <2>1. Line(s).id \in Nat
    BY <1>18, ReadType DEF ReadPermission, Message
  <2>2. JobType'
    BY <1>18 DEF ReadPermission, JobType, jobVars, FinishJob, Results
  <2>3. TurnType'
    BY <1>18, <2>1 DEF ReadPermission, TurnType, turnVars, FinishJob
  <2>4. LinkType'
    BY <1>18, ReadType DEF ReadPermission, LinkType, linkVars
  <2>5. MainType' /\ ChildType' /\ TalkType'
    BY <1>18 DEF ReadPermission, MainType, mainVars, ChildType, childVars, TalkType, talkVars
  <2>6. QED
    BY <2>1, <2>2, <2>3, <2>4, <2>5
<1>19. ASSUME NEW s \in Sessions, ReadInitialized(s)
      PROVE  TypeOK'
  <2>1. MainType' /\ JobType' /\ pc' \in [Sessions -> Waiting \cup {"none", "prompt", "respond", "resume"}]
    BY <1>19, AbandonType DEF ReadInitialized, MainType, JobType, TurnType, Waiting
  <2>2. Request(s)
    BY <1>19 DEF ReadInitialized
  <2>3. TurnType'
    BY <1>19, <2>1, <2>2 DEF ReadInitialized, TurnType, turnVars
  <2>4. LinkType'
    BY <1>19, <2>1, <2>2, ReadType, RequestType DEF ReadInitialized, LinkType, linkVars
  <2>5. ChildType'
    BY <1>19, <2>1, <2>2, RequestType DEF ReadInitialized, ChildType, childVars
  <2>6. TalkType'
    BY <1>19 DEF ReadInitialized, TalkType, talkVars
  <2>7. QED
    BY <2>1, <2>2, <2>3, <2>4, <2>5, <2>6
<1>20. ASSUME NEW s \in Sessions, ReadUnusable(s)
      PROVE  TypeOK'
  <2>1. MainType' /\ JobType' /\ pc' \in [Sessions -> Waiting \cup {"none", "prompt", "respond", "resume"}]
    BY <1>20, AbandonType DEF ReadUnusable
  <2>2. TurnType'
    BY <1>20, <2>1 DEF ReadUnusable, TurnType, turnVars
  <2>3. LinkType'
    BY <1>20, ReadType DEF ReadUnusable, LinkType, linkVars
  <2>4. ChildType'
    BY <1>20, KillType DEF ReadUnusable
  <2>5. TalkType'
    BY <1>20 DEF ReadUnusable, TalkType, talkVars
  <2>6. QED
    BY <2>1, <2>2, <2>3, <2>4, <2>5
<1>21. ASSUME NEW s \in Sessions, ReadCreated(s)
      PROVE  TypeOK'
  <2>1. "prompt" \in Operations
    BY DEF Operations
  <2>2. JobType'
    BY <1>21, <2>1, SubmitType DEF ReadCreated, JobType
  <2>3. MainType'
    BY <1>21 DEF ReadCreated, MainType, mainVars
  <2>4. TurnType'
    BY <1>21 DEF ReadCreated, TurnType, turnVars
  <2>5. LinkType'
    BY <1>21, ReadType DEF ReadCreated, LinkType, linkVars
  <2>6. ChildType' /\ TalkType'
    BY <1>21 DEF ReadCreated, ChildType, childVars, TalkType, talkVars
  <2>7. QED
    BY <2>1, <2>2, <2>3, <2>4, <2>5, <2>6
<1>22. ASSUME NEW s \in Sessions, ReadCompleted(s)
      PROVE  TypeOK'
  <2>1. JobType'
    BY <1>22 DEF ReadCompleted, JobType, jobVars, FinishJob, Results
  <2>2. TurnType'
    BY <1>22 DEF ReadCompleted, TurnType, turnVars, FinishJob
  <2>3. LinkType'
    BY <1>22, ReadType DEF ReadCompleted, LinkType, linkVars
  <2>4. MainType' /\ ChildType' /\ TalkType'
    BY <1>22 DEF ReadCompleted, MainType, mainVars, ChildType, childVars, TalkType, talkVars
  <2>5. QED
    BY <2>1, <2>2, <2>3, <2>4
<1>23. CASE Exit
  <2>1. MainType'
    BY <1>23 DEF Exit, MainType, mainVars
  <2>2. JobType' /\ TurnType' /\ LinkType' /\ ChildType' /\ TalkType'
    BY <1>23 DEF Exit, JobType, jobVars, TurnType, turnVars, LinkType, linkVars, ChildType, childVars, TalkType, talkVars
  <2>3. QED
    BY <2>1, <2>2
<1>24. CASE CloseAll
  <2>1. MainType'
    BY <1>24 DEF CloseAll, MainType, mainVars
  <2>2. TurnType'
    BY <1>24 DEF CloseAll, TurnType, turnVars
  <2>3. LinkType'
    BY <1>24 DEF CloseAll, LinkType, linkVars
  <2>4. ChildType'
    BY <1>24, KillType DEF CloseAll
  <2>5. JobType' /\ TalkType'
    BY <1>24 DEF CloseAll, JobType, jobVars, TalkType, talkVars
  <2>6. QED
    BY <2>1, <2>2, <2>3, <2>4, <2>5
<1>25. ASSUME NEW c \in Children, ReadLine(c)
      PROVE  TypeOK'
  <2>1. c[1] \in Sessions
    BY DEF Children
  <2>2. Head(pipe[c]) \in Message /\ Tail(pipe[c]) \in Seq(Message)
    BY <1>25 DEF ReadLine, ChildType
  <2>3. queue[c[1]] \in Seq(Message)
    BY <2>1, <2>2 DEF LinkType
  <2>4. Append(queue[c[1]], Head(pipe[c])) \in Seq(Message)
    BY <2>1, <2>2, <2>3
  <2>5. LinkType'
    BY <1>25, <2>1, <2>2, <2>3, <2>4 DEF ReadLine, LinkType, linkVars
  <2>6. ChildType'
    BY <1>25, <2>1, <2>2, <2>3, <2>4 DEF ReadLine, ChildType, childVars
  <2>7. MainType' /\ JobType' /\ TurnType' /\ TalkType'
    BY <1>25 DEF ReadLine, MainType, mainVars, JobType, jobVars, TurnType, turnVars, TalkType, talkVars
  <2>8. QED
    BY <2>1, <2>2, <2>3, <2>4, <2>5, <2>6, <2>7
<1>26. ASSUME NEW c \in Children, NEW id \in open[c], NEW verdict \in Verdicts,
             ChildAnswers(c, id, verdict)
      PROVE  TypeOK'
  <2>1. Response(id, verdict) \in Message
    BY BoundsAssumption DEF Response, Message, ChildType
  <2>2. pipe' \in [Children -> Seq(Message)]
    BY <1>26, <2>1, WriteType DEF ChildAnswers
  <2>3. ChildType'
    BY <1>26, <2>1, <2>2 DEF ChildAnswers, ChildType, childVars
  <2>4. MainType' /\ JobType' /\ TurnType' /\ LinkType'
    BY <1>26 DEF ChildAnswers, MainType, mainVars, JobType, jobVars, TurnType, turnVars, LinkType, linkVars
  <2>5. TalkType'
    BY <1>26 DEF ChildAnswers, TalkType, Children
  <2>6. QED
    BY <2>3, <2>4, <2>5
<1>27. ASSUME NEW c \in Children, ChildAsks(c)
      PROVE  TypeOK'
  <2>1. c[1] \in Sessions
    BY DEF Children
  <2>2. Ask(asked[c[1]] + 1) \in Message
    BY <2>1 DEF Ask, Message, TalkType
  <2>3. pipe' \in [Children -> Seq(Message)]
    BY <1>27, <2>1, <2>2, WriteType DEF ChildAsks
  <2>4. ChildType'
    BY <1>27, <2>1, <2>2, <2>3 DEF ChildAsks, ChildType, childVars
  <2>5. TalkType'
    BY <1>27, <2>1, <2>2, <2>3 DEF ChildAsks, TalkType, talkVars
  <2>6. MainType' /\ JobType' /\ TurnType' /\ LinkType'
    BY <1>27 DEF ChildAsks, MainType, mainVars, JobType, jobVars, TurnType, turnVars, LinkType, linkVars
  <2>7. QED
    BY <2>1, <2>2, <2>3, <2>4, <2>5, <2>6
<1>28. ASSUME NEW c \in Children, NEW kind \in {"call", "garbage"},
             ChildWritesNoise(c, kind)
      PROVE  TypeOK'
  <2>1. c[1] \in Sessions
    BY DEF Children
  <2>2. Noise(kind) \in Message
    BY DEF Noise, Message
  <2>3. pipe' \in [Children -> Seq(Message)]
    BY <1>28, <2>1, <2>2, WriteType DEF ChildWritesNoise
  <2>4. ChildType'
    BY <1>28, <2>1, <2>2, <2>3 DEF ChildWritesNoise, ChildType, childVars
  <2>5. TalkType'
    BY <1>28, <2>1, <2>2, <2>3 DEF ChildWritesNoise, TalkType, talkVars
  <2>6. MainType' /\ JobType' /\ TurnType' /\ LinkType'
    BY <1>28 DEF ChildWritesNoise, MainType, mainVars, JobType, jobVars, TurnType, turnVars, LinkType, linkVars
  <2>7. QED
    BY <2>1, <2>2, <2>3, <2>4, <2>5, <2>6
<1>29. ASSUME NEW c \in Children, ChildExits(c)
      PROVE  TypeOK'
  <2>1. ChildType'
    BY <1>29, KillType DEF ChildExits
  <2>2. MainType' /\ JobType' /\ TurnType' /\ LinkType' /\ TalkType'
    BY <1>29 DEF ChildExits, MainType, mainVars, JobType, jobVars, TurnType, turnVars, LinkType, linkVars, TalkType, talkVars
  <2>3. QED
    BY <2>1, <2>2
<1>30. CASE UNCHANGED vars
  BY <1>30 DEF vars, MainType, mainVars, JobType, jobVars, TurnType, turnVars, LinkType, linkVars, ChildType, childVars, TalkType, talkVars
<1>31. QED
  BY <1>1, <1>2, <1>3, <1>4, <1>5, <1>6, <1>7, <1>8, <1>9, <1>10, <1>11,
     <1>12, <1>13, <1>14, <1>15, <1>16, <1>17, <1>18, <1>19, <1>20, <1>21,
     <1>22, <1>23, <1>24, <1>25, <1>26, <1>27, <1>28, <1>29, <1>30 DEF Next,
     Main, Worker, Wait, Child

\* A thread that drives a session outside start is a worker with its job.
LEMMA RunningJob ==
  ASSUME Driven, NEW s \in Sessions, pc[s] \notin Starting \cup {"none"}
  PROVE  job[s] = "running"
BY DEF Driven

\* The backlog is untouched and no queued job changes.
LEMMA QueuedKept ==
  ASSUME JobType, QueuedOnce, backlog' = backlog,
         \A t \in Sessions : job[t] = "queued" => job'[t] = "queued"
  PROVE  QueuedOnce'
<1>1. \A i \in DOMAIN backlog : backlog[i] \in Sessions
  BY DEF JobType
<1>2. QED
  BY <1>1 DEF QueuedOnce

\* A session without a queued job is not in the backlog yet.
LEMMA QueuedSubmit ==
  ASSUME JobType, QueuedOnce, NEW s \in Sessions, NEW what, Submit(s, what),
         job[s] # "queued"
  PROVE  QueuedOnce'
<1>1. /\ Len(backlog) \in Nat /\ Len(backlog') = Len(backlog) + 1
      /\ DOMAIN backlog = 1..Len(backlog) /\ DOMAIN backlog' = 1..(Len(backlog) + 1)
      /\ \A i \in DOMAIN backlog : backlog'[i] = backlog[i] /\ backlog[i] \in Sessions
      /\ backlog'[Len(backlog) + 1] = s
  BY DEF JobType, Submit
<1>2. \A i \in DOMAIN backlog : backlog[i] # s
  BY DEF QueuedOnce
<1>3. job' = [job EXCEPT ![s] = "queued"] /\ DOMAIN job = Sessions
  BY DEF Submit, JobType
<1>4. \A i \in DOMAIN backlog' : job'[backlog'[i]] = "queued"
  BY <1>1, <1>3 DEF QueuedOnce
<1>5. \A i, j \in DOMAIN backlog' : backlog'[i] = backlog'[j] => i = j
  BY <1>1, <1>2 DEF QueuedOnce
<1>6. QED
  BY <1>4, <1>5 DEF QueuedOnce

\* The job a worker takes leaves the backlog.
LEMMA QueuedTake ==
  ASSUME JobType, QueuedOnce, NEW s \in Sessions, Take(s)
  PROVE  QueuedOnce'
<1>1. /\ Len(backlog) \in Nat \ {0} /\ DOMAIN backlog = 1..Len(backlog)
      /\ DOMAIN backlog' = 1..(Len(backlog) - 1)
      /\ \A i \in DOMAIN backlog' : backlog'[i] = backlog[i + 1]
      /\ \A i \in DOMAIN backlog : backlog[i] \in Sessions
      /\ backlog[1] = s
  BY DEF JobType, Take
<1>2. job' = [job EXCEPT ![s] = "running"] /\ DOMAIN job = Sessions
  BY DEF Take, JobType
<1>3. \A i \in DOMAIN backlog' : i + 1 \in DOMAIN backlog /\ i + 1 # 1
  BY <1>1
<1>4. \A i \in DOMAIN backlog' : job'[backlog'[i]] = "queued"
  <2>1. TAKE i \in DOMAIN backlog'
  <2>2. backlog[i + 1] # s
    BY <1>1, <1>3 DEF QueuedOnce
  <2>3. QED
    BY <1>1, <1>2, <1>3, <2>2 DEF QueuedOnce
<1>5. \A i, j \in DOMAIN backlog' : backlog'[i] = backlog'[j] => i = j
  BY <1>1, <1>3 DEF QueuedOnce
<1>6. QED
  BY <1>4, <1>5 DEF QueuedOnce

\* A worker takes a job of a session that nothing drives.
LEMMA TakeDriven ==
  ASSUME TypeOK, Lineage, NEW s \in Sessions, Take(s),
         pc'[s] \in Starting => s \notin registered,
         \A t \in Sessions \ {s} : pc'[t] = pc[t] /\ process'[t] = process[t]
                                   /\ spawned'[t] = spawned[t],
         s \in registered => spawned'[s] = 1 /\ process'[s] = 1,
         spawned'[s] # 0
  PROVE  Driven' /\ Ancestry'
<1>1. job[s] = "queued" /\ spawned[s] # 2
  BY TakeLineage DEF TypeOK
<1>2. /\ job'[s] = "running"
      /\ \A t \in Sessions \ {s} : job'[t] = job[t]
      /\ UNCHANGED mainVars
  BY DEF Take, TypeOK, JobType
<1>3. registered \subseteq Sessions
  BY DEF TypeOK, MainType
<1>4. Driven'
  BY <1>1, <1>2, <1>3 DEF Lineage, Driven, mainVars
<1>5. Ancestry'
  BY <1>1, <1>2, <1>3 DEF Lineage, Ancestry, mainVars
<1>6. QED
  BY <1>4, <1>5

\* An exception leaves the session undriven, in a worker or in start.
LEMMA AbandonDriven ==
  ASSUME TypeOK, Driven, Ancestry, NEW s \in Sessions, pc[s] # "none", Abandon(s),
         UNCHANGED <<registered, spawned>>,
         \A t \in Sessions : t # s \/ s \in registered => process'[t] = process[t]
  PROVE  Driven' /\ Ancestry'
<1>1. registered \subseteq Sessions /\ DOMAIN pc = Sessions /\ DOMAIN job = Sessions
  BY DEF TypeOK, MainType, JobType, TurnType
<1>2. CASE job[s] = "running"
  <2>1. /\ job' = [job EXCEPT ![s] = "failed"] /\ pc' = [pc EXCEPT ![s] = "none"]
        /\ UNCHANGED <<main, target>>
    BY <1>2 DEF Abandon, FinishJob
  <2>2. QED
    BY <1>1, <1>2, <2>1 DEF Driven, Ancestry, Starting
<1>3. CASE job[s] # "running"
  <2>1. /\ job' = job /\ pc' = [pc EXCEPT ![s] = "none"]
        /\ main' = "idle" /\ target' = "none"
    BY <1>3 DEF Abandon
  <2>2. main = "start" /\ target = s
    BY <1>3 DEF Driven
  <2>3. QED
    BY <1>1, <2>1, <2>2 DEF Driven, Ancestry, Starting, Closing
<1>4. QED
  BY <1>2, <1>3

\* An exception takes no queued job.
LEMMA AbandonQueued ==
  ASSUME JobType, QueuedOnce, NEW s \in Sessions, Abandon(s), backlog' = backlog
  PROVE  QueuedOnce'
<1>1. \A t \in Sessions : job[t] = "queued" => job'[t] = "queued"
  BY DEF Abandon, FinishJob, JobType
<1>2. QED
  BY <1>1, QueuedKept

\* A job that ends leaves its session undriven.
LEMMA FinishDriven ==
  ASSUME TypeOK, Driven, Ancestry, NEW s \in Sessions, pc[s] \notin Starting,
         job[s] = "running", NEW result \in Results, FinishJob(s, result),
         UNCHANGED <<main, target, registered, process, spawned>>
  PROVE  Driven' /\ Ancestry'
<1>1. registered \subseteq Sessions /\ DOMAIN pc = Sessions /\ DOMAIN job = Sessions
  BY DEF TypeOK, MainType, JobType, TurnType
<1>2. /\ job' = [job EXCEPT ![s] = result] /\ pc' = [pc EXCEPT ![s] = "none"]
      /\ result \notin {"queued", "none"}
  BY DEF FinishJob, Results
<1>3. QED
  BY <1>1, <1>2 DEF Driven, Ancestry, Starting

\* Lineage is inductive: the reasons above survive every step.
LEMMA LineageStep ==
  ASSUME TypeOK, Lineage, [Next]_vars
  PROVE  Lineage'
<1>1. ASSUME NEW s \in Sessions, CallStart(s)
      PROVE  Lineage'
  <2>1. QueuedOnce'
    BY <1>1, QueuedKept, RunningJob DEF CallStart, Spawn, jobVars, Lineage, Starting, Waiting, TypeOK, JobType, TurnType, Driven
  <2>2. Driven' /\ Ancestry'
    BY <1>1 DEF CallStart, Spawn, jobVars, Lineage, Driven, Ancestry, Starting, Closing, TypeOK, MainType, JobType, TurnType, LinkType, ChildType
  <2>3. QED
    BY <2>1, <2>2 DEF Lineage
<1>2. ASSUME NEW s \in Sessions, CallClose(s)
      PROVE  Lineage'
  <2>1. QueuedOnce'
    BY <1>2, QueuedKept, RunningJob DEF CallClose, jobVars, turnVars, linkVars, childVars, mainVars, Lineage, Starting, Waiting, TypeOK, JobType, TurnType, Driven
  <2>2. Driven' /\ Ancestry'
    BY <1>2 DEF CallClose, jobVars, turnVars, linkVars, childVars, mainVars, Lineage, Driven, Ancestry, Starting, Closing, TypeOK, MainType, JobType, TurnType, LinkType, ChildType
  <2>3. QED
    BY <2>1, <2>2 DEF Lineage
<1>3. ASSUME NEW s \in Sessions, NEW what \in Operations, CallSubmit(s, what)
      PROVE  Lineage'
  <2>1. QueuedOnce'
    BY <1>3, QueuedSubmit DEF CallSubmit, Lineage, TypeOK
  <2>2. Driven' /\ Ancestry'
    BY <1>3 DEF CallSubmit, Submit, Results, jobVars, turnVars, linkVars, childVars, mainVars, Lineage, Driven, Ancestry, Starting, Closing, TypeOK, MainType, JobType, TurnType, LinkType, ChildType
  <2>3. QED
    BY <2>1, <2>2 DEF Lineage
<1>4. ASSUME NEW s \in Sessions, Cancel(s) \/ CancelAnswer(s) \/ CancelForget(s) \/ Terminate(s)
      PROVE  Lineage'
  <2>1. QueuedOnce'
    BY <1>4, QueuedKept, RunningJob DEF Cancel, CancelAnswer, CancelForget, Terminate, Kill, jobVars, turnVars, linkVars, childVars, mainVars, Lineage, Starting, Waiting, TypeOK, JobType, TurnType, Driven
  <2>2. Driven' /\ Ancestry'
    BY <1>4 DEF Cancel, CancelAnswer, CancelForget, Terminate, Kill, jobVars, turnVars, linkVars, childVars, mainVars, Lineage, Driven, Ancestry, Starting, Closing, TypeOK, MainType, JobType, TurnType, LinkType, ChildType
  <2>3. QED
    BY <2>1, <2>2 DEF Lineage
<1>5. ASSUME NEW s \in Sessions, Drop(s)
      PROVE  Lineage'
  <2>1. QueuedOnce'
    BY <1>5, QueuedKept, RunningJob DEF Drop, jobVars, turnVars, linkVars, childVars, mainVars, Lineage, Starting, Waiting, TypeOK, JobType, TurnType, Driven
  <2>2. Driven' /\ Ancestry'
    BY <1>5 DEF Drop, jobVars, turnVars, linkVars, childVars, mainVars, Lineage, Driven, Ancestry, Starting, Closing, TypeOK, MainType, JobType, TurnType, LinkType, ChildType
  <2>3. QED
    BY <2>1, <2>2 DEF Lineage
<1>6. ASSUME NEW s \in Sessions, TakeJob(s)
      PROVE  Lineage'
  <2>1. QueuedOnce'
    BY <1>6, QueuedTake DEF TakeJob, TakeAndSpawn, Lineage, TypeOK
  <2>2. Driven' /\ Ancestry'
    BY <1>6, TakeDriven, TakeLineage DEF TakeJob, Starting, linkVars, childVars, Lineage, Ancestry, TypeOK, TurnType
  <2>3. QED
    BY <2>1, <2>2 DEF Lineage
<1>7. ASSUME NEW s \in Sessions, TakeAndSpawn(s)
      PROVE  Lineage'
  <2>1. QueuedOnce'
    BY <1>7, QueuedTake DEF TakeJob, TakeAndSpawn, Lineage, TypeOK
  <2>2. Driven' /\ Ancestry'
    <3>1. /\ spawned[s] # 2 /\ Spawn(s) /\ process[s] = 0 /\ Take(s) /\ s \notin registered
      BY <1>7, TakeLineage DEF TakeAndSpawn, Lineage, Ancestry, TypeOK
    <3>2. /\ spawned \in [Sessions -> 0..2] /\ DOMAIN pc = Sessions
          /\ DOMAIN process = Sessions
      BY DEF TypeOK, TurnType, LinkType, ChildType
    <3>3. \A t \in Sessions \ {s} : pc'[t] = pc[t] /\ process'[t] = process[t]
                                    /\ spawned'[t] = spawned[t]
      BY <3>1, <3>2 DEF Spawn
    <3>4. spawned'[s] # 0
      BY <3>1, <3>2 DEF Spawn
    <3>5. QED
      BY <3>1, <3>3, <3>4, TakeDriven
  <2>3. QED
    BY <2>1, <2>2 DEF Lineage
<1>8. ASSUME NEW s \in Sessions, Prompt(s)
      PROVE  Lineage'
  <2>1. QueuedOnce'
    BY <1>8, QueuedKept, RunningJob DEF Prompt, FinishJob, jobVars, turnVars, linkVars, childVars, mainVars, Lineage, Starting, Waiting, TypeOK, JobType, TurnType, Driven
  <2>2. Driven' /\ Ancestry'
    <3>1. job[s] = "running" /\ pc[s] \notin Starting
      BY <1>8, RunningJob DEF Prompt, Lineage, Starting
    <3>2. CASE Running(s)
      BY <1>8, <3>1, <3>2
         DEF Prompt, mainVars, Lineage, Driven, Ancestry, Starting, TypeOK, TurnType
    <3>3. CASE ~Running(s)
      BY <1>8, <3>1, <3>3, FinishDriven
         DEF Prompt, mainVars, Lineage, Results
    <3>4. QED
      BY <3>2, <3>3
  <2>3. QED
    BY <2>1, <2>2 DEF Lineage
<1>9. ASSUME NEW s \in Sessions, Respond(s) \/ Resume(s)
      PROVE  Lineage'
  <2>1. QueuedOnce'
    BY <1>9, QueuedKept, RunningJob DEF Respond, Resume, jobVars, turnVars, linkVars, childVars, mainVars, Lineage, Starting, Waiting, TypeOK, JobType, TurnType, Driven
  <2>2. Driven' /\ Ancestry'
    BY <1>9 DEF Respond, Resume, jobVars, turnVars, linkVars, childVars, mainVars, Lineage, Driven, Ancestry, Starting, Closing, TypeOK, MainType, JobType, TurnType, LinkType, ChildType
  <2>3. QED
    BY <2>1, <2>2 DEF Lineage
<1>10. ASSUME NEW s \in Sessions, Refuse(s)
      PROVE  Lineage'
  <2>1. QueuedOnce'
    BY <1>10, QueuedKept, RunningJob DEF Refuse, FinishJob, jobVars, turnVars, linkVars, childVars, mainVars, Lineage, Starting, Waiting, TypeOK, JobType, TurnType, Driven
  <2>2. Driven' /\ Ancestry'
    BY <1>10 DEF Refuse, FinishJob, jobVars, turnVars, linkVars, childVars, mainVars, Lineage, Driven, Ancestry, Starting, Closing, TypeOK, MainType, JobType, TurnType, LinkType, ChildType
  <2>3. QED
    BY <2>1, <2>2 DEF Lineage
<1>11. ASSUME NEW s \in Sessions, GiveUp(s)
      PROVE  Lineage'
  <2>1. QueuedOnce'
    BY <1>11, AbandonQueued DEF GiveUp, Raise, Lineage, TypeOK
  <2>2. Driven' /\ Ancestry'
    BY <1>11, AbandonDriven DEF GiveUp, Raise, Waiting, linkVars, childVars, Lineage
  <2>3. QED
    BY <2>1, <2>2 DEF Lineage
<1>12. ASSUME NEW s \in Sessions, ReadFailure(s)
      PROVE  Lineage'
  <2>1. QueuedOnce'
    BY <1>12, AbandonQueued DEF ReadFailure, Raise, Lineage, TypeOK
  <2>2. Driven' /\ Ancestry'
    BY <1>12, AbandonDriven DEF ReadFailure, Read, Raise, Waiting, childVars, Lineage
  <2>3. QED
    BY <2>1, <2>2 DEF Lineage
<1>13. ASSUME NEW s \in Sessions, ReadAndContinue(s)
      PROVE  Lineage'
  <2>1. QueuedOnce'
    BY <1>13, QueuedKept, RunningJob DEF ReadAndContinue, jobVars, turnVars, linkVars, childVars, mainVars, Lineage, Starting, Waiting, TypeOK, JobType, TurnType, Driven
  <2>2. Driven' /\ Ancestry'
    BY <1>13 DEF ReadAndContinue, jobVars, turnVars, linkVars, childVars, mainVars, Lineage, Driven, Ancestry, Starting, Closing, TypeOK, MainType, JobType, TurnType, LinkType, ChildType
  <2>3. QED
    BY <2>1, <2>2 DEF Lineage
<1>14. ASSUME NEW s \in Sessions, ReadPermission(s)
      PROVE  Lineage'
  <2>1. QueuedOnce'
    BY <1>14, QueuedKept, RunningJob DEF ReadPermission, FinishJob, jobVars, turnVars, linkVars, childVars, mainVars, Lineage, Starting, Waiting, TypeOK, JobType, TurnType, Driven
  <2>2. Driven' /\ Ancestry'
    BY <1>14 DEF ReadPermission, FinishJob, jobVars, turnVars, linkVars, childVars, mainVars, Lineage, Driven, Ancestry, Starting, Closing, TypeOK, MainType, JobType, TurnType, LinkType, ChildType
  <2>3. QED
    BY <2>1, <2>2 DEF Lineage
<1>15. ASSUME NEW s \in Sessions, ReadInitialized(s)
      PROVE  Lineage'
  <2>1. QueuedOnce'
    BY <1>15, AbandonQueued, QueuedKept DEF ReadInitialized, Lineage, TypeOK
  <2>2. Driven' /\ Ancestry'
    <3>1. CASE Running(s)
      BY <1>15, <3>1
         DEF ReadInitialized, Lineage, Driven, Ancestry, Starting, TypeOK, TurnType
    <3>2. CASE ~Running(s)
      BY <1>15, <3>2, AbandonDriven DEF ReadInitialized, Lineage
    <3>3. QED
      BY <3>1, <3>2
  <2>3. QED
    BY <2>1, <2>2 DEF Lineage
<1>16. ASSUME NEW s \in Sessions, ReadUnusable(s)
      PROVE  Lineage'
  <2>1. QueuedOnce'
    BY <1>16, AbandonQueued DEF ReadUnusable, Lineage, TypeOK
  <2>2. Driven' /\ Ancestry'
    BY <1>16, AbandonDriven DEF ReadUnusable, Read, Raise, Waiting, Starting, Lineage, Ancestry, TypeOK, LinkType
  <2>3. QED
    BY <2>1, <2>2 DEF Lineage
<1>17. ASSUME NEW s \in Sessions, ReadCreated(s)
      PROVE  Lineage'
  <2>1. QueuedOnce'
    BY <1>17, QueuedSubmit, QueuedKept DEF ReadCreated, Lineage, Driven, Starting, TypeOK
  <2>2. Driven' /\ Ancestry'
    <3>1. pc[s] = "session/new" /\ s \notin registered /\ registered \subseteq Sessions
      BY <1>17 DEF ReadCreated, Lineage, Ancestry, Starting, TypeOK, MainType
    <3>2. CASE job[s] = "running"
      <4>1. UNCHANGED <<mainVars, job, process, spawned>> /\ pc' = [pc EXCEPT ![s] = "prompt"]
        BY <1>17, <3>2 DEF ReadCreated, childVars
      <4>2. QED
        BY <3>1, <3>2, <4>1
           DEF Lineage, Driven, Ancestry, Starting, TypeOK, TurnType, mainVars
    <3>3. CASE job[s] # "running"
      <4>1. /\ pc' = [pc EXCEPT ![s] = "none"] /\ main' = "idle" /\ target' = "none"
            /\ registered' = registered \cup {s} /\ UNCHANGED <<process, spawned>>
            /\ job' = job \/ job' = [job EXCEPT ![s] = "queued"]
        BY <1>17, <3>3 DEF ReadCreated, Submit, childVars
      <4>2. main = "start" /\ target = s
        BY <3>1, <3>3 DEF Lineage, Driven
      <4>3. Driven'
        BY <3>1, <4>1, <4>2 DEF Lineage, Driven, Closing, TypeOK, TurnType, JobType
      <4>4. Ancestry'
        BY <3>1, <4>1, <4>2
           DEF Lineage, Driven, Ancestry, Starting, TypeOK, TurnType, JobType
      <4>5. QED
        BY <4>3, <4>4
    <3>4. QED
      BY <3>2, <3>3
  <2>3. QED
    BY <2>1, <2>2 DEF Lineage
<1>18. ASSUME NEW s \in Sessions, ReadCompleted(s)
      PROVE  Lineage'
  <2>1. QueuedOnce'
    BY <1>18, QueuedKept, RunningJob DEF ReadCompleted, FinishJob, jobVars, turnVars, linkVars, childVars, mainVars, Lineage, Starting, Waiting, TypeOK, JobType, TurnType, Driven
  <2>2. Driven' /\ Ancestry'
    BY <1>18 DEF ReadCompleted, FinishJob, jobVars, turnVars, linkVars, childVars, mainVars, Lineage, Driven, Ancestry, Starting, Closing, TypeOK, MainType, JobType, TurnType, LinkType, ChildType
  <2>3. QED
    BY <2>1, <2>2 DEF Lineage
<1>19. CASE Exit
  <2>1. QueuedOnce'
    BY <1>19, QueuedKept, RunningJob DEF Exit, jobVars, turnVars, linkVars, childVars, mainVars, Lineage, Starting, Waiting, TypeOK, JobType, TurnType, Driven
  <2>2. Driven' /\ Ancestry'
    BY <1>19 DEF Exit, jobVars, turnVars, linkVars, childVars, mainVars, Lineage, Driven, Ancestry, Starting, Closing, TypeOK, MainType, JobType, TurnType, LinkType, ChildType
  <2>3. QED
    BY <2>1, <2>2 DEF Lineage
<1>20. CASE CloseAll
  <2>1. QueuedOnce'
    BY <1>20, QueuedKept, RunningJob DEF CloseAll, jobVars, turnVars, linkVars, childVars, mainVars, Lineage, Starting, Waiting, TypeOK, JobType, TurnType, Driven
  <2>2. Driven' /\ Ancestry'
    BY <1>20 DEF CloseAll, jobVars, turnVars, linkVars, childVars, mainVars, Lineage, Driven, Ancestry, Starting, Closing, TypeOK, MainType, JobType, TurnType, LinkType, ChildType
  <2>3. QED
    BY <2>1, <2>2 DEF Lineage
<1>21. ASSUME NEW c \in Children, ReadLine(c) \/ Child(c)
      PROVE  Lineage'
  <2>1. QueuedOnce'
    BY <1>21, QueuedKept, RunningJob DEF ReadLine, Child, ChildAnswers, ChildAsks, ChildWritesNoise, ChildExits, jobVars, turnVars, linkVars, childVars, mainVars, Lineage, Starting, Waiting, TypeOK, JobType, TurnType, Driven
  <2>2. Driven' /\ Ancestry'
    BY <1>21 DEF ReadLine, Child, ChildAnswers, ChildAsks, ChildWritesNoise, ChildExits, jobVars, turnVars, linkVars, childVars, mainVars, Lineage, Driven, Ancestry, Starting, Closing, TypeOK, MainType, JobType, TurnType, LinkType, ChildType
  <2>3. QED
    BY <2>1, <2>2 DEF Lineage
<1>22. CASE UNCHANGED vars
  BY <1>22 DEF vars, jobVars, turnVars, linkVars, childVars, mainVars, Lineage, Driven, Ancestry, Starting, Closing, TypeOK, MainType, JobType, TurnType, LinkType, ChildType, QueuedOnce
<1>23. QED
  BY <1>1, <1>2, <1>3, <1>4, <1>5, <1>6, <1>7, <1>8, <1>9, <1>10, <1>11,
     <1>12, <1>13, <1>14, <1>15, <1>16, <1>17, <1>18, <1>19, <1>20, <1>21,
     <1>22 DEF Next, Main, Worker, Wait

-----------------------------------------------------------------------------
\* Lineage holds at the start.
LEMMA LineageInit == Init => Lineage
BY DEF Init, Lineage, QueuedOnce, Driven, Ancestry, Closing

\* So do the types.
LEMMA TypeInit == Init => TypeOK
<1>1. Init => MainType /\ JobType
  BY DEF Init, MainType, JobType, Operations
<1>2. Init => TurnType /\ LinkType
  BY DEF Init, TurnType, LinkType
<1>3. Init => ChildType /\ TalkType
  BY DEF Init, ChildType, TalkType
<1>4. QED
  BY <1>1, <1>2, <1>3 DEF TypeOK

\* Every state is typed: in particular close, restart and an abandoned start
\* never take a session to a third child (acp_session.py:81-134, acp-mcp:112-177).
THEOREM TypeCorrect == Spec => []TypeOK
<1>1. Init => TypeOK /\ Lineage
  BY TypeInit, LineageInit
<1>2. TypeOK /\ Lineage /\ [Next]_vars => (TypeOK /\ Lineage)'
  BY TypeStep, LineageStep
<1>3. QED
  BY <1>1, <1>2, PTL DEF Spec

-----------------------------------------------------------------------------
(* One live child per session *)

\* A session is started again only when it holds no child, so none of its
\* children is alive.
LEMMA HeldSpawn ==
  ASSUME TypeOK, Lineage, Held, NEW s \in Sessions, process[s] = 0,
         spawned[s] # 2, Spawn(s), main' = "drop" => main = "drop" /\ target' = target
  PROVE  Held'
<1>1. /\ spawned \in [Sessions -> 0..2] /\ process \in [Sessions -> 0..2]
      /\ alive \subseteq Children
  BY DEF TypeOK, LinkType, ChildType
<1>2. spawned[s] + 1 \in 1..2
  BY <1>1
<1>3. \A c \in alive : c[1] \in Sessions /\ c[2] \in 1..2 /\ c[1] # s
  BY <1>1 DEF Held, Children, Generations
<1>4. /\ process'[s] = spawned[s] + 1 /\ spawned'[s] = spawned[s] + 1
      /\ \A t \in Sessions \ {s} : process'[t] = process[t] /\ spawned'[t] = spawned[t]
      /\ alive' = alive \cup {<<s, spawned[s] + 1>>}
  BY <1>1 DEF Spawn
<1>5. \A t \in Sessions : process'[t] \in {0, spawned'[t]}
  BY <1>4 DEF Held
<1>6. \A c \in alive' : c[2] = process'[c[1]]
  BY <1>3, <1>4 DEF Held
<1>7. ASSUME main' = "drop"
      PROVE  Current(target)' \notin alive'
  <2>1. main = "drop" /\ target' = target /\ target \in registered
    BY <1>7 DEF Lineage, Driven, Closing
  <2>2. target \in Sessions /\ target # s
    BY <2>1 DEF Lineage, Ancestry, TypeOK, MainType
  <2>3. QED
    BY <1>4, <2>1, <2>2 DEF Held, Current
<1>8. QED
  BY <1>5, <1>6, <1>7 DEF Held

\* The death of children never breaks it.
LEMMA HeldKill ==
  ASSUME TypeOK, Held, NEW C, Kill(C), UNCHANGED <<process, spawned>>,
         \/ main' = "drop" => main = "drop" /\ target' = target
         \/ C = {Current(target)} /\ target' = target
  PROVE  Held'
<1>1. alive' = alive \ C
  BY DEF Kill
<1>2. main' = "drop" => Current(target)' \notin alive'
  BY <1>1 DEF Held, Current
<1>3. QED
  BY <1>1, <1>2 DEF Held

\* A session gives its child up only dead.
LEMMA HeldStep ==
  ASSUME TypeOK, Lineage, Held, [Next]_vars
  PROVE  Held'
<1>1. ASSUME NEW s \in Sessions, CallStart(s)
      PROVE  Held'
  <2>1. process[s] = 0 /\ spawned[s] = 0 /\ Spawn(s) /\ main' = "start"
    BY <1>1 DEF CallStart, Held
  <2>2. QED
    BY <2>1, HeldSpawn
<1>2. ASSUME NEW s \in Sessions, TakeAndSpawn(s)
      PROVE  Held'
  <2>1. process[s] = 0 /\ spawned[s] # 2 /\ Spawn(s) /\ UNCHANGED <<main, target>>
    BY <1>2, TakeLineage DEF TakeAndSpawn, Take, mainVars, TypeOK
  <2>2. QED
    BY <2>1, HeldSpawn
<1>3. ASSUME NEW s \in Sessions, Terminate(s)
      PROVE  Held'
  BY <1>3, HeldKill DEF Terminate, linkVars
<1>4. ASSUME NEW s \in Sessions, Drop(s)
      PROVE  Held'
  <2>1. DOMAIN process = Sessions /\ \A c \in alive : c[1] \in Sessions /\ c[2] # 0
                                                   /\ c = <<c[1], c[2]>>
    BY DEF TypeOK, LinkType, ChildType, Children, Generations
  <2>2. /\ process' = [process EXCEPT ![s] = 0] /\ alive' = alive
        /\ spawned' = spawned /\ main' = "idle"
    BY <1>4 DEF Drop, childVars
  <2>3. \A c \in alive : c[1] # s
    BY <1>4, <2>1 DEF Drop, Held, Current
  <2>4. QED
    BY <2>1, <2>2, <2>3 DEF Held
<1>5. CASE CloseAll
  <2>1. DOMAIN process = Sessions /\ \A c \in alive : c[1] \in Sessions /\ c = <<c[1], c[2]>>
    BY DEF TypeOK, LinkType, ChildType, Children
  <2>2. /\ alive' = alive \ {Current(s) : s \in registered} /\ spawned' = spawned
        /\ process' = [s \in Sessions |-> IF s \in registered THEN 0 ELSE process[s]]
        /\ main' = "down"
    BY <1>5 DEF CloseAll, Kill
  <2>3. \A c \in alive' : c[1] \notin registered
    BY <2>1, <2>2 DEF Held, Current
  <2>4. QED
    BY <2>1, <2>2, <2>3 DEF Held
<1>6. ASSUME NEW s \in Sessions, ReadUnusable(s)
      PROVE  Held'
  <2>1. DOMAIN process = Sessions /\ \A c \in alive : c[1] \in Sessions /\ c = <<c[1], c[2]>>
    BY DEF TypeOK, LinkType, ChildType, Children
  <2>2. /\ alive' = alive \ {Current(s)} /\ spawned' = spawned
        /\ process' = [process EXCEPT ![s] = 0]
    BY <1>6 DEF ReadUnusable, Kill
  <2>3. \A c \in alive' : c[1] # s
    BY <2>1, <2>2 DEF Held, Current
  <2>4. (main' = "drop" => main = "drop" /\ target' = target) /\ pc[s] \in Starting
    BY <1>6 DEF ReadUnusable, Read, Abandon, Waiting, Starting
  <2>5. ASSUME main' = "drop"
        PROVE  Current(target)' \notin alive'
    <3>1. main = "drop" /\ target' = target /\ target \in registered
      BY <2>4, <2>5 DEF Lineage, Driven, Closing
    <3>2. target # s /\ target \in Sessions
      BY <2>4, <3>1 DEF Lineage, Ancestry, TypeOK, MainType
    <3>3. QED
      BY <2>2, <2>1, <3>1, <3>2 DEF Held, Current
  <2>6. QED
    BY <2>1, <2>2, <2>3, <2>5 DEF Held
<1>7. ASSUME NEW c \in Children, ChildExits(c)
      PROVE  Held'
  BY <1>7, HeldKill DEF ChildExits, linkVars, mainVars
<1>8. ASSUME UNCHANGED <<process, spawned, alive>>,
             main' = "drop" => main = "drop" /\ target' = target
      PROVE  Held'
  BY <1>8 DEF Held, Current
<1>9. ASSUME NEW s \in Sessions, Main(s)
      PROVE  Held'
  BY <1>1, <1>3, <1>4, <1>8, <1>9
     DEF Main, CallClose, CallSubmit, Cancel, CancelAnswer, CancelForget, linkVars,
         childVars, mainVars
<1>10. ASSUME NEW s \in Sessions, Worker(s)
       PROVE  Held'
  BY <1>2, <1>8, <1>10
     DEF Worker, TakeJob, Take, Prompt, Respond, Resume, Refuse, linkVars, childVars,
         mainVars
<1>11. ASSUME NEW s \in Sessions, Wait(s)
       PROVE  Held'
  BY <1>6, <1>8, <1>11
     DEF Wait, GiveUp, ReadFailure, ReadAndContinue, ReadPermission, ReadInitialized,
         ReadCreated, ReadCompleted, Raise, Abandon, linkVars, childVars, mainVars
<1>12. ASSUME NEW c \in Children, ReadLine(c) \/ Child(c)
       PROVE  Held'
  BY <1>7, <1>8, <1>12
     DEF ReadLine, Child, ChildAnswers, ChildAsks, ChildWritesNoise, Write, linkVars,
         childVars, mainVars
<1>13. CASE Exit
  BY <1>8, <1>13 DEF Exit, linkVars, childVars
<1>14. CASE UNCHANGED vars
  BY <1>8, <1>14 DEF vars, linkVars, childVars, mainVars
<1>15. QED
  BY <1>5, <1>9, <1>10, <1>11, <1>12, <1>13, <1>14 DEF Next

\* A session never has two live children: prompt() starts a session again only
\* after close() has waited for its first child to end (acp_session.py:283-284,
\* 375-383).
THEOREM OneChild == Spec => []OneChildPerSession
<1>1. Init => TypeOK /\ Lineage /\ Held
  BY TypeInit, LineageInit DEF Init, Held
<1>2. TypeOK /\ Lineage /\ Held /\ [Next]_vars => (TypeOK /\ Lineage /\ Held)'
  BY TypeStep, LineageStep, HeldStep
<1>3. TypeOK /\ Held => OneChildPerSession
  BY DEF TypeOK, ChildType, Children, Held, OneChildPerSession
<1>4. QED
  BY <1>1, <1>2, <1>3, PTL DEF Spec

-----------------------------------------------------------------------------
(* The limits of the pool *)

\* The session a call is about counts against the limit; no call, no session.
Counted == registered \cup ({target} \ {"none"})
AtWork == {s \in Sessions : job[s] = "running"}
Pool == PoolBounded /\ (main \in {"idle", "exiting", "down"} => target = "none")

\* A part of a bounded set of sessions is bounded.
LEMMA SmallerPool ==
  ASSUME NEW A, NEW B, B \subseteq Sessions, A \subseteq B,
         Cardinality(B) <= MaxParallel
  PROVE  Cardinality(A) <= MaxParallel
<1>1. IsFiniteSet(B)
  BY SessionsAssumption, FS_Subset
<1>2. IsFiniteSet(A) /\ Cardinality(A) <= Cardinality(B)
  BY <1>1, FS_Subset
<1>3. Cardinality(A) \in Nat /\ Cardinality(B) \in Nat
  BY <1>1, <1>2, FS_CardinalityType
<1>4. QED
  BY <1>2, <1>3, BoundsAssumption

\* Below the limit there is room for one more session.
LEMMA LargerPool ==
  ASSUME NEW A, NEW B, NEW s, A \subseteq Sessions, B \subseteq A \cup {s},
         Cardinality(A) < MaxParallel
  PROVE  Cardinality(B) <= MaxParallel
<1>1. IsFiniteSet(A)
  BY SessionsAssumption, FS_Subset
<1>2. /\ IsFiniteSet(A \cup {s}) /\ Cardinality(A) \in Nat
      /\ Cardinality(A \cup {s}) \in {Cardinality(A), Cardinality(A) + 1}
  BY <1>1, FS_AddElement, FS_CardinalityType
<1>3. Cardinality(A \cup {s}) <= MaxParallel
  BY <1>2, BoundsAssumption
<1>4. IsFiniteSet(B) /\ Cardinality(B) <= Cardinality(A \cup {s})
  BY <1>2, FS_Subset
<1>5. Cardinality(B) \in Nat
  BY <1>4, FS_CardinalityType
<1>6. QED
  BY <1>2, <1>3, <1>4, <1>5, BoundsAssumption

\* A step that adds no session and puts none to work keeps the pool.
LEMMA PoolKept ==
  ASSUME TypeOK, Pool, Counted' \subseteq Counted, AtWork' \subseteq AtWork,
         main' \in {"idle", "exiting", "down"} => target' = "none"
  PROVE  Pool'
<1>1. Counted \subseteq Sessions /\ AtWork \subseteq Sessions
  BY DEF Counted, AtWork, TypeOK, MainType
<1>2. Cardinality(Counted') <= MaxParallel /\ Cardinality(AtWork') <= MaxParallel
  BY <1>1, SmallerPool DEF Pool, PoolBounded, Counted, AtWork
<1>3. QED
  BY <1>2 DEF Pool, PoolBounded, Counted, AtWork

\* Only start adds a session and only an idle worker adds a job at work.
LEMMA PoolStep ==
  ASSUME TypeOK, Lineage, Pool, [Next]_vars
  PROVE  Pool'
<1> USE DEF TypeOK, MainType
<1>1. ASSUME NEW s \in Sessions, CallStart(s)
      PROVE  Pool'
  <2>1. /\ Cardinality(registered) < MaxParallel /\ job' = job /\ main' = "start"
        /\ Counted' \subseteq registered \cup {s}
    BY <1>1 DEF CallStart, Counted, jobVars
  <2>2. Cardinality(Counted') <= MaxParallel
    BY <2>1, LargerPool
  <2>3. QED
    BY <2>1, <2>2 DEF Pool, PoolBounded, Counted
<1>2. ASSUME NEW s \in Sessions, Take(s)
      PROVE  Pool'
  <2>1. /\ Cardinality(AtWork) < MaxParallel /\ UNCHANGED mainVars
        /\ AtWork \subseteq Sessions /\ AtWork' \subseteq AtWork \cup {s}
    BY <1>2 DEF Take, AtWork, JobType
  <2>2. Cardinality(AtWork') <= MaxParallel
    BY <2>1, LargerPool
  <2>3. QED
    BY <2>1, <2>2 DEF Pool, PoolBounded, AtWork, mainVars
<1>3. ASSUME UNCHANGED mainVars, UNCHANGED job
      PROVE  Pool'
  BY <1>3, PoolKept DEF Counted, AtWork, mainVars, Pool
<1>4. ASSUME NEW s \in Sessions, NEW result \in Results, FinishJob(s, result),
             UNCHANGED mainVars
      PROVE  Pool'
  <2>1. AtWork' \subseteq AtWork
    BY <1>4 DEF FinishJob, AtWork, JobType, Results
  <2>2. QED
    BY <1>4, <2>1, PoolKept DEF Counted, mainVars, Pool
<1>5. ASSUME NEW s \in Sessions, Abandon(s), UNCHANGED registered
      PROVE  Pool'
  <2>1. CASE job[s] = "running"
    BY <1>4, <1>5, <2>1 DEF Abandon, Results, mainVars
  <2>2. CASE job[s] # "running"
    BY <1>5, <2>2, PoolKept DEF Abandon, Counted, AtWork
  <2>3. QED
    BY <2>1, <2>2
<1>6. ASSUME NEW s \in Sessions, Main(s)
      PROVE  Pool'
  <2>1. CASE CallClose(s)
    <3>1. Counted' \subseteq Counted /\ AtWork' = AtWork
          /\ main' \in {"cancel", "terminate"}
      BY <2>1 DEF CallClose, Counted, AtWork, jobVars
    <3>2. QED
      BY <3>1, PoolKept
  <2>2. ASSUME NEW what \in Operations, CallSubmit(s, what)
        PROVE  Pool'
    <3>1. AtWork' \subseteq AtWork /\ UNCHANGED mainVars
      BY <2>2 DEF CallSubmit, Submit, AtWork, JobType
    <3>2. QED
      BY <3>1, PoolKept DEF Counted, mainVars, Pool
  <2>3. CASE Cancel(s) \/ CancelAnswer(s) \/ CancelForget(s) \/ Terminate(s)
    <3>1. UNCHANGED <<target, registered, job>> /\ main' \in Closing
      BY <2>3 DEF Cancel, CancelAnswer, CancelForget, Terminate, jobVars, Closing
    <3>2. QED
      BY <3>1, PoolKept DEF Counted, AtWork, Closing
  <2>4. CASE Drop(s)
    <3>1. /\ registered' \subseteq registered /\ main' = "idle" /\ target' = "none"
          /\ job' = job
      BY <2>4 DEF Drop, jobVars
    <3>2. QED
      BY <3>1, PoolKept DEF Counted, AtWork
  <2>5. QED
    BY <1>1, <1>6, <2>1, <2>2, <2>3, <2>4 DEF Main
<1>7. ASSUME NEW s \in Sessions, Worker(s)
      PROVE  Pool'
  <2>1. CASE TakeJob(s) \/ TakeAndSpawn(s)
    BY <1>2, <2>1 DEF TakeJob, TakeAndSpawn
  <2>2. CASE Prompt(s) \/ Refuse(s)
    BY <1>3, <1>4, <2>2 DEF Prompt, Refuse, Results
  <2>3. CASE Respond(s) \/ Resume(s)
    BY <1>3, <2>3 DEF Respond, Resume, jobVars
  <2>4. QED
    BY <1>7, <2>1, <2>2, <2>3 DEF Worker
<1>8. ASSUME NEW s \in Sessions, Wait(s)
      PROVE  Pool'
  <2>1. CASE GiveUp(s) \/ ReadFailure(s) \/ ReadUnusable(s)
    BY <1>5, <2>1 DEF GiveUp, ReadFailure, ReadUnusable, Raise
  <2>2. CASE ReadInitialized(s)
    BY <1>3, <1>5, <2>2 DEF ReadInitialized, mainVars
  <2>3. CASE ReadAndContinue(s)
    BY <1>3, <2>3 DEF ReadAndContinue, jobVars
  <2>4. CASE ReadPermission(s) \/ ReadCompleted(s)
    BY <1>4, <2>4 DEF ReadPermission, ReadCompleted, Results
  <2>5. CASE ReadCreated(s) /\ job[s] = "running"
    BY <1>3, <2>5 DEF ReadCreated
  <2>6. CASE ReadCreated(s) /\ job[s] # "running"
    <3>1. target = s /\ target' = "none" /\ registered' = registered \cup {s}
      BY <2>6 DEF ReadCreated, Lineage, Driven
    <3>2. Counted' \subseteq Counted
      BY <3>1, SessionsAssumption DEF Counted
    <3>3. AtWork' \subseteq AtWork
      BY <2>6 DEF ReadCreated, Submit, AtWork, JobType
    <3>4. QED
      BY <3>1, <3>2, <3>3, PoolKept
  <2>7. QED
    BY <1>8, <2>1, <2>2, <2>3, <2>4, <2>5, <2>6 DEF Wait
<1>9. ASSUME NEW c \in Children, ReadLine(c) \/ Child(c)
      PROVE  Pool'
  BY <1>3, <1>9
     DEF ReadLine, Child, ChildAnswers, ChildAsks, ChildWritesNoise, ChildExits,
         jobVars
<1>10. CASE Exit \/ CloseAll
  <2>1. registered' \subseteq registered /\ target' = target /\ target = "none" /\ job' = job
    BY <1>10 DEF Exit, CloseAll, Pool, jobVars
  <2>2. QED
    BY <2>1, PoolKept DEF Counted, AtWork
<1>11. CASE UNCHANGED vars
  BY <1>3, <1>11 DEF vars, jobVars
<1>12. QED
  BY <1>6, <1>7, <1>8, <1>9, <1>10, <1>11 DEF Next

\* OAT_ACP_MAX_PARALLEL bounds the open sessions and the jobs at work, whatever
\* calls, closes and failed starts interleave (acp-mcp:51-53, 129-142).
THEOREM PoolLimit == Spec => []PoolBounded
<1>1. Init => TypeOK /\ Lineage /\ Pool
  <2>1. Init => Counted = {} /\ AtWork = {} /\ target = "none"
    BY DEF Init, Counted, AtWork
  <2>2. Init => PoolBounded
    BY <2>1, FS_EmptySet, BoundsAssumption DEF PoolBounded, Counted, AtWork
  <2>3. QED
    BY <2>1, <2>2, TypeInit, LineageInit DEF Pool
<1>2. TypeOK /\ Lineage /\ Pool /\ [Next]_vars => (TypeOK /\ Lineage /\ Pool)'
  BY TypeStep, LineageStep, PoolStep
<1>3. Pool => PoolBounded
  BY DEF Pool
<1>4. QED
  BY <1>1, <1>2, <1>3, PTL DEF Spec

-----------------------------------------------------------------------------
(* The turns of a session: one request of the client at a time *)

\* The lines of a session's children that nobody has handled.
Sent(s) == ToSet(queue[s]) \cup UNION {ToSet(pipe[<<s, g>>]) : g \in Generations}

\* The only request a child can have open is the last one its session numbered,
\* and no response on its way answers it.
OpenRequests ==
  /\ \A c \in Children : open[c] # {} => c \in alive
  /\ \A c \in Children : open[c] \subseteq {nextId[c[1]] - 1}
  /\ \A c \in Children : \A m \in Sent(c[1]) :
       m.kind = "response" => m.id < nextId[c[1]] /\ m.id \notin open[c]

\* What a session may be doing, by how it came to its child.
Roles ==
  /\ \A s \in Sessions : pc[s] \in {"respond", "resume"} => spawned[s] # 2
  /\ \A s \in Sessions : job[s] = "none" => active[s] = 0
  /\ \A s \in Sessions :
       process[s] # 0 => s \in registered \/ spawned[s] = 2 \/ job[s] = "none"
  /\ \A s \in Sessions : pc[s] \in Starting => state[s] = "initializing"

\* The turn that is active is the last request of its session.
ActiveIsLast ==
  \A s \in Sessions :
    \/ pc[s] \in {"session/prompt", "resume"}
    \/ s \in registered /\ active[s] # 0
    => active[s] = nextId[s] - 1

\* Nothing is open where the next prompt may go.
ReadyForPrompt ==
  \A s \in Sessions :
    active[s] = 0 /\ (s \in registered \/ pc[s] = "prompt") /\ process[s] # 0
      => open[Current(s)] = {}

Turns == Roles /\ ActiveIsLast /\ ReadyForPrompt /\ TurnOverWhenIdle

-----------------------------------------------------------------------------
(* Lines and where they are *)

\* A sequence without its head holds no new element.
LEMMA TailElements ==
  ASSUME NEW T, NEW q \in Seq(T), q # <<>>
  PROVE  ToSet(Tail(q)) \subseteq ToSet(q) /\ Head(q) \in ToSet(q)
<1>1. /\ Len(q) \in Nat \ {0} /\ DOMAIN q = 1..Len(q)
      /\ DOMAIN Tail(q) = 1..(Len(q) - 1)
      /\ \A i \in DOMAIN Tail(q) : Tail(q)[i] = q[i + 1]
      /\ Head(q) = q[1]
  OBVIOUS
<1>2. \A i \in DOMAIN Tail(q) : i + 1 \in DOMAIN q
  BY <1>1
<1>3. QED
  BY <1>1, <1>2 DEF ToSet

\* An appended element is the only new one.
LEMMA AppendElements ==
  ASSUME NEW T, NEW q \in Seq(T), NEW m \in T
  PROVE  ToSet(Append(q, m)) \subseteq ToSet(q) \cup {m}
<1>1. /\ Len(q) \in Nat /\ DOMAIN q = 1..Len(q)
      /\ DOMAIN Append(q, m) = 1..(Len(q) + 1)
      /\ \A i \in DOMAIN q : Append(q, m)[i] = q[i]
      /\ Append(q, m)[Len(q) + 1] = m
  OBVIOUS
<1>2. QED
  BY <1>1 DEF ToSet

\* What is sent are messages.
LEMMA SentType ==
  ASSUME TypeOK, NEW s \in Sessions
  PROVE  Sent(s) \subseteq Message
<1>1. \A q \in Seq(Message) : ToSet(q) \subseteq Message
  BY DEF ToSet
<1>2. queue[s] \in Seq(Message) /\ \A g \in Generations : pipe[<<s, g>>] \in Seq(Message)
  BY DEF TypeOK, LinkType, ChildType, Children
<1>3. QED
  BY <1>1, <1>2 DEF Sent

\* Taking a line from the queue sends nothing.
LEMMA ReadSent ==
  ASSUME TypeOK, NEW s \in Sessions, Read(s), UNCHANGED pipe
  PROVE  \A t \in Sessions : Sent(t)' \subseteq Sent(t)
<1>1. queue[s] \in Seq(Message) /\ queue[s] # <<>> /\ DOMAIN queue = Sessions
  BY DEF TypeOK, LinkType, Read
<1>2. \A t \in Sessions : ToSet(queue'[t]) \subseteq ToSet(queue[t])
  BY <1>1, TailElements DEF Read
<1>3. QED
  BY <1>2 DEF Sent

\* A line written to a pipe is the only one sent.
LEMMA WriteSent ==
  ASSUME TypeOK, NEW c \in Children, NEW m \in Message, Write(c, m), UNCHANGED queue
  PROVE  \A t \in Sessions :
           Sent(t)' \subseteq Sent(t) \cup (IF t = c[1] THEN {m} ELSE {})
<1>1. \A d \in Children : pipe[d] \in Seq(Message) /\ DOMAIN pipe = Children
  BY DEF TypeOK, ChildType
<1>2. \A d \in Children :
        ToSet(pipe'[d]) \subseteq ToSet(pipe[d]) \cup (IF d = c THEN {m} ELSE {})
  BY <1>1, AppendElements DEF Write
<1>3. \A t \in Sessions, g \in Generations :
        /\ <<t, g>> \in Children
        /\ ToSet(pipe'[<<t, g>>])
             \subseteq ToSet(pipe[<<t, g>>]) \cup (IF t = c[1] THEN {m} ELSE {})
  BY <1>2 DEF Children
<1>4. QED
  BY <1>3 DEF Sent

\* A reader that moves a line sends nothing.
LEMMA MoveSent ==
  ASSUME TypeOK, NEW c \in Children, ReadLine(c)
  PROVE  \A t \in Sessions : Sent(t)' \subseteq Sent(t)
<1>1. /\ pipe[c] \in Seq(Message) /\ pipe[c] # <<>> /\ DOMAIN pipe = Children
      /\ c[1] \in Sessions /\ c = <<c[1], c[2]>> /\ c[2] \in Generations
      /\ queue[c[1]] \in Seq(Message) /\ DOMAIN queue = Sessions
  BY DEF TypeOK, ChildType, LinkType, ReadLine, Children
<1>2. /\ ToSet(Tail(pipe[c])) \subseteq ToSet(pipe[c])
      /\ Head(pipe[c]) \in ToSet(pipe[c]) /\ Head(pipe[c]) \in Message
  BY <1>1, TailElements
<1>3. ToSet(Append(queue[c[1]], Head(pipe[c])))
        \subseteq ToSet(queue[c[1]]) \cup {Head(pipe[c])}
  BY <1>1, <1>2, AppendElements
<1>4. \A t \in Sessions :
        ToSet(queue'[t]) \subseteq ToSet(queue[t])
                                   \cup (IF t = c[1] THEN {Head(pipe[c])} ELSE {})
  BY <1>1, <1>3 DEF ReadLine
<1>5. \A t \in Sessions, g \in Generations :
        ToSet(pipe'[<<t, g>>]) \subseteq ToSet(pipe[<<t, g>>])
  BY <1>1, <1>2 DEF ReadLine, Children
<1>6. Head(pipe[c]) \in Sent(c[1])
  BY <1>1, <1>2 DEF Sent
<1>7. \A t \in Sessions : ToSet(queue'[t]) \subseteq Sent(t)
  BY <1>4, <1>6 DEF Sent
<1>8. \A t \in Sessions, g \in Generations : ToSet(pipe'[<<t, g>>]) \subseteq Sent(t)
  BY <1>5 DEF Sent
<1>9. QED
  BY <1>7, <1>8 DEF Sent

\* Dying children send only the end of their output.
LEMMA KillSent ==
  ASSUME TypeOK, NEW C, Kill(C), \A t \in Sessions : ToSet(queue'[t]) \subseteq ToSet(queue[t])
  PROVE  \A t \in Sessions : Sent(t)' \subseteq Sent(t) \cup {Eof}
<1>1. \A d \in Children : pipe[d] \in Seq(Message)
  BY DEF TypeOK, ChildType
<1>2. Eof \in Message
  BY DEF Eof, Noise, Message
<1>3. \A d \in Children : ToSet(pipe'[d]) \subseteq ToSet(pipe[d]) \cup {Eof}
  BY <1>1, <1>2, AppendElements DEF Kill
<1>4. \A t \in Sessions, g \in Generations :
        ToSet(pipe'[<<t, g>>]) \subseteq ToSet(pipe[<<t, g>>]) \cup {Eof}
  BY <1>3 DEF Children
<1>5. QED
  BY <1>4 DEF Sent

-----------------------------------------------------------------------------
(* The requests of a child *)

\* A child other than the one its session holds has nothing open.
LEMMA OthersIdle ==
  ASSUME TypeOK, Held, OpenRequests, NEW c \in Children, c # Current(c[1])
  PROVE  open[c] = {}
BY DEF Held, OpenRequests, Children, Current

\* A step that neither numbers a request nor sends a response.
LEMMA NoRequest ==
  ASSUME TypeOK, OpenRequests, UNCHANGED nextId,
         \A c \in Children : open'[c] \subseteq open[c] /\ (open'[c] # {} => c \in alive'),
         NEW m, m.kind # "response",
         \A s \in Sessions : Sent(s)' \subseteq Sent(s) \cup {m}
  PROVE  OpenRequests'
<1>1. \A c \in Children : c[1] \in Sessions
  BY DEF Children
<1>2. QED
  BY <1>1 DEF OpenRequests

\* Requests are numbered once a child has answered the one before.
LEMMA NewRequest ==
  ASSUME TypeOK, Held, OpenRequests, NEW s \in Sessions, Request(s),
         Running(s) => open[Current(s)] = {}, UNCHANGED alive,
         \A t \in Sessions : Sent(t)' \subseteq Sent(t)
  PROVE  OpenRequests'
<1>1. /\ nextId \in [Sessions -> Nat \ {0}] /\ open \in [Children -> SUBSET Nat]
      /\ \A c \in Children : c[1] \in Sessions
  BY DEF TypeOK, LinkType, ChildType, Children
<1>2. Current(s) \in Children => open[Current(s)] = {}
  BY DEF Running, OpenRequests, Held, Current, Children, Generations
<1>3. \A c \in Children : c[1] = s => open[c] = {}
  BY <1>2, OthersIdle
<1>4. \A c \in Children : open'[c] \subseteq open[c] \cup (IF c[1] = s THEN {nextId[s]} ELSE {})
  BY <1>1 DEF Request, Current
<1>5. \A c \in Children : open'[c] # {} => c \in alive'
  BY <1>1 DEF Request, Running, OpenRequests
<1>6. nextId' = [nextId EXCEPT ![s] = @ + 1]
  BY DEF Request
<1>7. \A c \in Children : open'[c] \subseteq {nextId'[c[1]] - 1}
  BY <1>1, <1>3, <1>4, <1>6 DEF OpenRequests
<1>8. \A c \in Children : \A m \in Sent(c[1])' :
        m.kind = "response" => m.id < nextId'[c[1]] /\ m.id \notin open'[c]
  <2>1. TAKE c \in Children
  <2>2. TAKE m \in Sent(c[1])'
  <2>3. HAVE m.kind = "response"
  <2>4. m.id < nextId[c[1]] /\ m.id \notin open[c]
    BY <1>1, <2>3 DEF OpenRequests
  <2>5. m.id \in Nat
    BY <1>1, SentType DEF Message
  <2>6. QED
    BY <1>1, <1>4, <1>6, <2>4, <2>5
<1>9. QED
  BY <1>5, <1>7, <1>8 DEF OpenRequests

\* The response to the last request of a session leaves nothing open.
LEMMA Answered ==
  ASSUME TypeOK, OpenRequests, NEW s \in Sessions, Read(s), IsAnswer(s),
         Awaited(s) = nextId[s] - 1
  PROVE  \A c \in Children : c[1] = s => open[c] = {}
<1>1. Line(s) \in Sent(s)
  BY TailElements DEF Line, Sent, Read, TypeOK, LinkType
<1>2. QED
  BY <1>1 DEF IsAnswer, OpenRequests

\* Dead children have nothing open.
LEMMA KillRequests ==
  ASSUME TypeOK, OpenRequests, NEW C, Kill(C), UNCHANGED nextId,
         \A s \in Sessions : ToSet(queue'[s]) \subseteq ToSet(queue[s])
  PROVE  OpenRequests'
<1>1. \A c \in Children : open'[c] \subseteq open[c] /\ (open'[c] # {} => c \in alive')
  BY DEF Kill, OpenRequests
<1>2. Eof.kind # "response"
  BY DEF Eof, Noise
<1>3. QED
  BY <1>1, <1>2, KillSent, NoRequest

\* Reading a line numbers no request.
LEMMA ReadRequests ==
  ASSUME TypeOK, OpenRequests, NEW s \in Sessions, Read(s), UNCHANGED nextId,
         UNCHANGED childVars
  PROVE  OpenRequests'
<1>1. \A c \in Children : open'[c] \subseteq open[c] /\ (open'[c] # {} => c \in alive')
  BY DEF OpenRequests, childVars
<1>2. Eof.kind # "response"
  BY DEF Eof, Noise
<1>3. QED
  BY <1>1, <1>2, ReadSent, NoRequest DEF childVars

\* A restarted session numbers its first request above every line on its way.
LEMMA SpawnRequests ==
  ASSUME TypeOK, Lineage, Held, OpenRequests, NEW s \in Sessions, process[s] = 0,
         spawned[s] # 2, Spawn(s)
  PROVE  OpenRequests'
<1>1. /\ nextId \in [Sessions -> Nat \ {0}] /\ open \in [Children -> SUBSET Nat]
      /\ spawned \in [Sessions -> 0..2]
      /\ \A c \in Children : c[1] \in Sessions /\ c[2] \in 1..2
  BY DEF TypeOK, LinkType, ChildType, Children, Generations
<1>2. <<s, spawned[s] + 1>> \in Children
  BY <1>1 DEF Children, Generations
<1>3. \A c \in Children : c[1] = s => open[c] = {}
  BY <1>1, OthersIdle DEF Current
<1>4. /\ nextId' = [nextId EXCEPT ![s] = @ + 1]
      /\ open' = [open EXCEPT ![<<s, spawned[s] + 1>>] = {nextId[s]}]
      /\ alive' = alive \cup {<<s, spawned[s] + 1>>}
      /\ \A t \in Sessions : Sent(t)' = Sent(t)
  BY DEF Spawn, Sent
<1>5. \A c \in Children : open'[c] # {} => c \in alive'
  BY <1>1, <1>4 DEF OpenRequests
<1>6. \A c \in Children : open'[c] \subseteq {nextId'[c[1]] - 1}
  BY <1>1, <1>2, <1>3, <1>4 DEF OpenRequests
<1>7. \A c \in Children : \A m \in Sent(c[1])' :
        m.kind = "response" => m.id < nextId'[c[1]] /\ m.id \notin open'[c]
  <2>1. TAKE c \in Children
  <2>2. TAKE m \in Sent(c[1])'
  <2>3. HAVE m.kind = "response"
  <2>4. m.id < nextId[c[1]] /\ m.id \notin open[c] /\ m.id \in Nat
    BY <1>1, <1>4, <2>3, SentType DEF OpenRequests, Message
  <2>5. QED
    BY <1>1, <1>2, <1>4, <2>4
<1>8. QED
  BY <1>5, <1>6, <1>7 DEF OpenRequests

\* A child answers a request once.
LEMMA AnswerRequests ==
  ASSUME TypeOK, Held, OpenRequests, NEW c \in Children, NEW id \in open[c],
         NEW verdict \in Verdicts, ChildAnswers(c, id, verdict)
  PROVE  OpenRequests'
<1> DEFINE answer == Response(id, verdict)
<1>1. /\ open \in [Children -> SUBSET Nat] /\ \A d \in Children : d[1] \in Sessions
      /\ nextId \in [Sessions -> Nat \ {0}]
  BY DEF TypeOK, ChildType, LinkType, Children
<1>2. answer \in Message /\ answer.id = id
  BY <1>1, BoundsAssumption DEF Response, Message
<1>3. \A t \in Sessions :
        Sent(t)' \subseteq Sent(t) \cup (IF t = c[1] THEN {answer} ELSE {})
  BY <1>2, WriteSent DEF ChildAnswers, linkVars
<1>4. /\ open' = [open EXCEPT ![c] = @ \ {id}] /\ UNCHANGED <<nextId, alive>>
      /\ c \in alive
  BY DEF ChildAnswers, Write, linkVars
<1>5. \A d \in Children : d[1] = c[1] /\ d # c => open[d] = {}
  BY <1>4, OthersIdle DEF Held, Current, Children
<1>6. id < nextId[c[1]]
  BY <1>1 DEF OpenRequests
<1>7. \A d \in Children : open'[d] \subseteq open[d]
  BY <1>1, <1>4
<1>8. \A d \in Children : \A m \in Sent(d[1])' :
        m.kind = "response" => m.id < nextId[d[1]] /\ m.id \notin open'[d]
  <2>1. TAKE d \in Children
  <2>2. TAKE m \in Sent(d[1])'
  <2>3. HAVE m.kind = "response"
  <2>4. CASE m \in Sent(d[1])
    BY <1>7, <2>3, <2>4 DEF OpenRequests
  <2>5. CASE m \notin Sent(d[1])
    <3>1. m.id = id /\ d[1] = c[1]
      BY <1>1, <1>2, <1>3, <2>5
    <3>2. QED
      BY <1>1, <1>4, <1>5, <1>6, <3>1
  <2>6. QED
    BY <2>4, <2>5
<1>9. QED
  BY <1>4, <1>7, <1>8 DEF OpenRequests

\* A session may ask its child for the next thing only when nothing is open.
LEMMA RequestsStep ==
  ASSUME TypeOK, Lineage, Held, OpenRequests, Turns, [Next]_vars
  PROVE  OpenRequests'
<1>1. ASSUME UNCHANGED <<nextId, queue, pipe, alive, open>>
      PROVE  OpenRequests'
  BY <1>1 DEF OpenRequests, Sent
<1>2. ASSUME NEW s \in Sessions, Main(s)
      PROVE  OpenRequests'
  <2>1. CASE CallStart(s)
    <3>1. spawned[s] = 0 /\ process[s] = 0 /\ Spawn(s)
      BY <2>1 DEF CallStart, Held
    <3>2. QED
      BY <3>1, SpawnRequests
  <2>2. CASE Terminate(s)
    BY <2>2, KillRequests DEF Terminate, linkVars
  <2>3. CASE ~CallStart(s) /\ ~Terminate(s)
    BY <1>1, <1>2, <2>3
       DEF Main, CallClose, CallSubmit, Cancel, CancelAnswer, CancelForget, Drop,
           linkVars, childVars
  <2>4. QED
    BY <2>1, <2>2, <2>3
<1>3. ASSUME NEW s \in Sessions, Worker(s)
      PROVE  OpenRequests'
  <2>1. CASE TakeAndSpawn(s)
    <3>1. process[s] = 0 /\ spawned[s] # 2 /\ Spawn(s)
      BY <2>1, TakeLineage DEF TakeAndSpawn, TypeOK
    <3>2. QED
      BY <3>1, SpawnRequests
  <2>2. CASE Prompt(s)
    <3>1. Running(s) => open[Current(s)] = {}
      BY <2>2 DEF Prompt, Turns, ReadyForPrompt, Running
    <3>2. Request(s) /\ UNCHANGED <<queue, pipe, alive>>
      BY <2>2 DEF Prompt
    <3>3. QED
      BY <3>1, <3>2, NewRequest DEF Sent
  <2>3. CASE TakeJob(s) \/ Respond(s) \/ Resume(s) \/ Refuse(s)
    BY <1>1, <2>3 DEF TakeJob, Respond, Resume, Refuse, linkVars, childVars
  <2>4. QED
    BY <1>3, <2>1, <2>2, <2>3 DEF Worker
<1>4. ASSUME NEW s \in Sessions, Wait(s)
      PROVE  OpenRequests'
  <2>1. CASE ReadInitialized(s)
    <3>1. Read(s) /\ IsAnswer(s) /\ Awaited(s) = nextId[s] - 1 /\ Request(s)
          /\ UNCHANGED <<pipe, alive>>
      BY <2>1 DEF ReadInitialized, Awaited
    <3>2. Running(s) => open[Current(s)] = {}
      BY <3>1, Answered DEF Running, Current, TypeOK, ChildType
    <3>3. QED
      BY <3>1, <3>2, ReadSent, NewRequest
  <2>2. CASE ReadUnusable(s)
    <3>1. Read(s) /\ Kill({Current(s)}) /\ UNCHANGED nextId
      BY <2>2 DEF ReadUnusable
    <3>2. \A t \in Sessions : ToSet(queue'[t]) \subseteq ToSet(queue[t])
      BY <3>1, TailElements DEF Read, TypeOK, LinkType
    <3>3. QED
      BY <3>1, <3>2, KillRequests
  <2>3. CASE GiveUp(s)
    BY <1>1, <2>3 DEF GiveUp, linkVars, childVars
  <2>4. CASE \/ ReadFailure(s) \/ ReadAndContinue(s) \/ ReadPermission(s)
             \/ ReadCreated(s) \/ ReadCompleted(s)
    BY <2>4, ReadRequests
       DEF ReadFailure, ReadAndContinue, ReadPermission, ReadCreated, ReadCompleted
  <2>5. QED
    BY <1>4, <2>1, <2>2, <2>3, <2>4 DEF Wait
<1>5. ASSUME NEW c \in Children, ReadLine(c) \/ Child(c)
      PROVE  OpenRequests'
  <2>1. \A d \in Children : open[d] # {} => d \in alive
    BY DEF OpenRequests
  <2>2. CASE ReadLine(c)
    <3>1. UNCHANGED <<nextId, open, alive>>
      BY <2>2 DEF ReadLine
    <3>2. Eof.kind # "response"
      BY DEF Eof, Noise
    <3>3. QED
      BY <2>1, <2>2, <3>1, <3>2, MoveSent, NoRequest
  <2>3. CASE ChildAsks(c)
    <3>1. Ask(asked[c[1]] + 1) \in Message /\ Ask(asked[c[1]] + 1).kind # "response"
      BY DEF Ask, Message, TypeOK, TalkType, Children
    <3>2. Write(c, Ask(asked[c[1]] + 1)) /\ UNCHANGED <<nextId, queue, open, alive>>
      BY <2>3 DEF ChildAsks, linkVars
    <3>3. \A t \in Sessions : Sent(t)' \subseteq Sent(t) \cup {Ask(asked[c[1]] + 1)}
      BY <3>1, <3>2, WriteSent
    <3>4. QED
      BY <2>1, <3>1, <3>2, <3>3, NoRequest
  <2>4. ASSUME NEW kind \in {"call", "garbage"}, ChildWritesNoise(c, kind)
        PROVE  OpenRequests'
    <3>1. Noise(kind) \in Message /\ Noise(kind).kind # "response"
      BY DEF Noise, Message
    <3>2. Write(c, Noise(kind)) /\ UNCHANGED <<nextId, queue, open, alive>>
      BY <2>4 DEF ChildWritesNoise, linkVars
    <3>3. \A t \in Sessions : Sent(t)' \subseteq Sent(t) \cup {Noise(kind)}
      BY <3>1, <3>2, WriteSent
    <3>4. QED
      BY <2>1, <3>1, <3>2, <3>3, NoRequest
  <2>5. CASE ChildExits(c)
    BY <2>5, KillRequests DEF ChildExits, linkVars
  <2>6. QED
    BY <1>5, <2>2, <2>3, <2>4, <2>5, AnswerRequests DEF Child
<1>6. CASE CloseAll
  BY <1>6, KillRequests DEF CloseAll
<1>7. CASE Exit \/ UNCHANGED vars
  BY <1>1, <1>7 DEF Exit, vars, linkVars, childVars
<1>8. QED
  BY <1>2, <1>3, <1>4, <1>5, <1>6, <1>7 DEF Next

-----------------------------------------------------------------------------
(* The turns of a session *)

\* The functions of the state, without what they hold.
LEMMA Domains ==
  ASSUME TypeOK
  PROVE  /\ DOMAIN job = Sessions /\ DOMAIN pc = Sessions /\ DOMAIN state = Sessions
         /\ active \in [Sessions -> Nat] /\ nextId \in [Sessions -> Nat \ {0}]
         /\ spawned \in [Sessions -> 0..2] /\ process \in [Sessions -> 0..2]
         /\ DOMAIN open = Children /\ registered \subseteq Sessions
BY DEF TypeOK, MainType, JobType, TurnType, LinkType, ChildType

\* An exception ends a session's turn as failed, with its number kept.
LEMMA AbandonTurns ==
  ASSUME TypeOK, Lineage, Turns, NEW s \in Sessions, pc[s] # "none", Abandon(s),
         UNCHANGED <<registered, spawned, active>>,
         \A t \in Sessions \ {s} : UNCHANGED <<state[t], process[t], nextId[t]>>,
         process'[s] # 0 => process'[s] = process[s],
         \A c \in Children : open'[c] \subseteq open[c],
         s \in registered => nextId'[s] = nextId[s],
         state'[s] # "idle" \/ process'[s] = 0
  PROVE  Turns'
<1>1. /\ \A t \in Sessions \ {s} : pc'[t] = pc[t] /\ job'[t] = job[t]
      /\ pc'[s] = "none" /\ (job'[s] = "none" => job[s] = "none")
  BY Domains DEF Abandon, FinishJob
<1>2. job[s] = "none" => job'[s] = "none"
  BY Domains DEF Abandon, FinishJob
<1>3. Roles'
  BY <1>1, <1>2, Domains DEF Turns, Roles, Starting
<1>4. ActiveIsLast'
  BY <1>1, Domains DEF Turns, ActiveIsLast
<1>5. \A t \in Sessions : process'[t] # 0 =>
        Current(t)' = Current(t) /\ (open[Current(t)] = {} => open'[Current(t)] = {})
  <2>1. TAKE t \in Sessions
  <2>2. HAVE process'[t] # 0
  <2>3. process'[t] = process[t] /\ process[t] \in 1..2
    BY <2>2, Domains
  <2>4. Current(t) \in Children /\ Current(t)[1] = t
    BY <2>3 DEF Current, Children, Generations
  <2>5. QED
    BY <2>2, <2>3, <2>4 DEF Current
<1>6. ReadyForPrompt'
  BY <1>1, <1>5, Domains DEF Turns, ReadyForPrompt
<1>7. TurnOverWhenIdle'
  BY <1>1, <1>5, Domains DEF Turns, TurnOverWhenIdle
<1>8. QED
  BY <1>3, <1>4, <1>6, <1>7 DEF Turns

\* A job that ends otherwise.
LEMMA FinishTurns ==
  ASSUME TypeOK, Turns, NEW s \in Sessions, NEW result \in Results,
         FinishJob(s, result), job[s] = "running",
         UNCHANGED <<registered, spawned, process, nextId, open>>,
         \A t \in Sessions \ {s} : UNCHANGED <<state[t], active[t]>>,
         state'[s] \in {state[s], "failed", "waiting_permission"}
           \/ (state'[s] = "idle" /\ (process[s] # 0 => open[Current(s)] = {})),
         active'[s] = active[s]
           \/ (active'[s] = 0 /\ (process[s] # 0 => open[Current(s)] = {}))
  PROVE  Turns'
<1>1. /\ \A t \in Sessions \ {s} : pc'[t] = pc[t] /\ job'[t] = job[t]
      /\ pc'[s] = "none" /\ job'[s] # "none"
  BY Domains DEF FinishJob, Results
<1>2. Roles'
  BY <1>1, Domains DEF Turns, Roles, Starting
<1>3. ActiveIsLast'
  BY <1>1, Domains DEF Turns, ActiveIsLast
<1>4. ReadyForPrompt'
  BY <1>1, Domains DEF Turns, ReadyForPrompt, Current
<1>5. TurnOverWhenIdle'
  BY <1>1, Domains DEF Turns, TurnOverWhenIdle, Current
<1>6. QED
  BY <1>2, <1>3, <1>4, <1>5 DEF Turns

\* The restart of a session is its own turn's business: it is not open, so its
\* parent does not see it.
LEMMA SpawnTurns ==
  ASSUME TypeOK, Lineage, Turns, NEW s \in Sessions, spawned[s] # 2,
         process[s] = 0, Spawn(s), s \notin registered, registered' = registered,
         \A t \in Sessions \ {s} : job'[t] = job[t],
         job'[s] # "none" \/ active[s] = 0, job'[s] = "none" \/ spawned[s] = 1
  PROVE  Turns'
<1>1. /\ \A t \in Sessions \ {s} : /\ UNCHANGED <<pc[t], state[t], process[t], spawned[t],
                                                 nextId[t]>>
                                   /\ Current(t)' = Current(t)
      /\ pc'[s] = "initialize" /\ state'[s] = "initializing"
      /\ active' = active /\ spawned'[s] = spawned[s] + 1
  BY Domains DEF Spawn, Current
<1>2. \A t \in Sessions \ {s} : open'[Current(t)] = open[Current(t)]
  BY Domains DEF Spawn, Current
<1>3. Roles'
  BY <1>1, Domains DEF Turns, Roles, Starting
<1>4. ActiveIsLast'
  BY <1>1, Domains DEF Turns, ActiveIsLast
<1>5. ReadyForPrompt'
  BY <1>1, <1>2, Domains DEF Turns, ReadyForPrompt
<1>6. TurnOverWhenIdle'
  BY <1>1, <1>2, Domains DEF Turns, TurnOverWhenIdle
<1>7. QED
  BY <1>3, <1>4, <1>5, <1>6 DEF Turns

\* A step that only lets children answer or die, and at most marks a session that
\* is not starting as cancelled or closed.
LEMMA TurnsKept ==
  ASSUME TypeOK, Turns,
         UNCHANGED <<registered, spawned, process, nextId, active, job, pc>>,
         \A c \in Children : open'[c] \subseteq open[c],
         \A t \in Sessions :
           state'[t] = state[t] \/ (state'[t] # "idle" /\ pc[t] \notin Starting)
  PROVE  Turns'
<1>1. Roles' /\ ActiveIsLast'
  BY DEF Turns, Roles, ActiveIsLast
<1>2. \A t \in Sessions : process'[t] # 0 =>
        Current(t)' = Current(t) /\ (open[Current(t)] = {} => open'[Current(t)] = {})
  <2>1. \A t \in Sessions : process[t] # 0 => Current(t) \in Children
    BY Domains DEF Current, Children, Generations
  <2>2. QED
    BY <2>1 DEF Current
<1>3. ReadyForPrompt' /\ TurnOverWhenIdle'
  BY <1>2 DEF Turns, ReadyForPrompt, TurnOverWhenIdle
<1>4. QED
  BY <1>1, <1>3 DEF Turns

\* The calls of the main thread keep the turns.
LEMMA MainTurns ==
  ASSUME TypeOK, Lineage, Held, Turns, NEW s \in Sessions, Main(s)
  PROVE  Turns'
<1>1. CASE CallStart(s)
  <2>1. /\ spawned[s] = 0 /\ process[s] = 0 /\ Spawn(s) /\ UNCHANGED <<registered, job>>
        /\ job[s] = "none" /\ active[s] = 0
    BY <1>1 DEF CallStart, Held, Lineage, Ancestry, Turns, Roles, jobVars
  <2>2. s \notin registered
    BY <2>1 DEF Lineage, Ancestry
  <2>3. QED
    BY <2>1, <2>2, SpawnTurns
<1>2. ASSUME NEW what \in Operations, CallSubmit(s, what)
      PROVE  Turns'
  <2>1. /\ UNCHANGED <<registered, pc, state, active, process, nextId, spawned, open>>
        /\ s \in registered /\ job' = [job EXCEPT ![s] = "queued"]
    BY <1>2 DEF CallSubmit, Submit, mainVars, turnVars, linkVars, childVars
  <2>2. Roles'
    BY <2>1, Domains DEF Turns, Roles
  <2>3. ActiveIsLast' /\ ReadyForPrompt' /\ TurnOverWhenIdle'
    BY <2>1 DEF Turns, ActiveIsLast, ReadyForPrompt, TurnOverWhenIdle, Current
  <2>4. QED
    BY <2>2, <2>3 DEF Turns
<1>3. CASE CallClose(s) \/ Cancel(s)
  BY <1>3, TurnsKept DEF CallClose, Cancel, jobVars, turnVars, linkVars, childVars
<1>4. CASE CancelAnswer(s) \/ CancelForget(s)
  <2>1. s \in registered /\ pc[s] \notin Starting
    BY <1>4 DEF CancelAnswer, CancelForget, Lineage, Driven, Ancestry, Closing
  <2>2. \A t \in Sessions :
          state'[t] = state[t] \/ (state'[t] # "idle" /\ pc[t] \notin Starting)
    BY <1>4, <2>1, Domains DEF CancelAnswer, CancelForget
  <2>3. QED
    BY <1>4, <2>2, TurnsKept DEF CancelAnswer, CancelForget, jobVars, linkVars, childVars
<1>5. CASE Terminate(s)
  <2>1. \A c \in Children : open'[c] \subseteq open[c]
    BY <1>5 DEF Terminate, Kill
  <2>2. QED
    BY <1>5, <2>1, TurnsKept DEF Terminate, jobVars, turnVars, linkVars
<1>6. CASE Drop(s)
  <2>1. s \in registered /\ pc[s] \notin Starting
    BY <1>6 DEF Drop, Lineage, Driven, Ancestry, Closing
  <2>2. /\ registered' = registered \ {s} /\ process' = [process EXCEPT ![s] = 0]
        /\ state' = [state EXCEPT ![s] = "closed"]
        /\ UNCHANGED <<job, active, pc, nextId, spawned, open>>
    BY <1>6 DEF Drop, jobVars, childVars
  <2>3. Roles'
    BY <2>1, <2>2, Domains DEF Turns, Roles
  <2>4. ActiveIsLast'
    BY <2>2 DEF Turns, ActiveIsLast
  <2>5. \A t \in Sessions : process'[t] # 0 => t # s /\ Current(t)' = Current(t)
    BY <2>2, Domains DEF Current
  <2>6. ReadyForPrompt' /\ TurnOverWhenIdle'
    BY <2>2, <2>5, Domains DEF Turns, ReadyForPrompt, TurnOverWhenIdle
  <2>7. QED
    BY <2>3, <2>4, <2>6 DEF Turns
<1>7. QED
  BY <1>1, <1>2, <1>3, <1>4, <1>5, <1>6 DEF Main

\* A worker sends a prompt only where nothing is open, and resumes only the last
\* turn.
LEMMA WorkerTurns ==
  ASSUME TypeOK, Lineage, Held, OpenRequests, Turns, NEW s \in Sessions, Worker(s)
  PROVE  Turns'
<1>1. CASE TakeJob(s)
  <2>1. job[s] = "queued" /\ spawned[s] # 2 /\ (IsPrompt(s) => process[s] # 0)
    BY <1>1, TakeLineage DEF TakeJob, TypeOK
  <2>2. process[s] # 0 => s \in registered
    BY <2>1 DEF Turns, Roles
  <2>3. /\ job' = [job EXCEPT ![s] = "running"]
        /\ pc' = [pc EXCEPT ![s] = IF IsPrompt(s) THEN "prompt" ELSE "respond"]
        /\ UNCHANGED <<registered, state, active, process, nextId, spawned, open>>
    BY <1>1 DEF TakeJob, Take, mainVars, linkVars, childVars
  <2>4. Roles'
    BY <2>1, <2>3, Domains DEF Turns, Roles, Starting
  <2>5. ActiveIsLast'
    BY <2>3, Domains DEF Turns, ActiveIsLast
  <2>6. ReadyForPrompt'
    BY <2>2, <2>3, Domains DEF Turns, ReadyForPrompt, Current
  <2>7. TurnOverWhenIdle'
    BY <2>3 DEF Turns, TurnOverWhenIdle, Current
  <2>8. QED
    BY <2>4, <2>5, <2>6, <2>7 DEF Turns
<1>2. CASE TakeAndSpawn(s)
  <2>1. process[s] = 0 /\ Spawn(s) /\ job[s] = "queued" /\ spawned[s] # 2
    BY <1>2, TakeLineage DEF TakeAndSpawn, TypeOK
  <2>2. spawned[s] = 1 /\ s \notin registered
    BY <2>1, Domains DEF Lineage, Ancestry
  <2>3. /\ job'[s] # "none" /\ registered' = registered
        /\ \A t \in Sessions \ {s} : job'[t] = job[t]
    BY <1>2, Domains DEF TakeAndSpawn, Take, mainVars
  <2>4. QED
    BY <2>1, <2>2, <2>3, SpawnTurns
<1>3. CASE Prompt(s)
  <2>1. job[s] = "running"
    BY <1>3, RunningJob DEF Prompt, Lineage, Starting
  <2>2. /\ active' = [active EXCEPT ![s] = nextId[s]]
        /\ nextId' = [nextId EXCEPT ![s] = @ + 1]
        /\ state' = [state EXCEPT ![s] = "running"]
        /\ UNCHANGED <<registered, process, spawned>>
        /\ \A c \in Children : c # Current(s) => open'[c] = open[c]
        /\ pc'[s] \in {"none", "session/prompt"} /\ job'[s] # "none"
        /\ \A t \in Sessions \ {s} : pc'[t] = pc[t] /\ job'[t] = job[t]
    BY <1>3, <2>1, Domains DEF Prompt, Request, FinishJob, mainVars
  <2>3. Roles'
    BY <2>1, <2>2, Domains DEF Turns, Roles, Starting
  <2>4. ActiveIsLast'
    BY <2>2, Domains DEF Turns, ActiveIsLast
  <2>5. \A t \in Sessions \ {s} : process[t] # 0 =>
          Current(t)' = Current(t) /\ open'[Current(t)] = open[Current(t)]
    <3>1. TAKE t \in Sessions \ {s}
    <3>2. HAVE process[t] # 0
    <3>3. Current(t) \in Children /\ Current(t) # Current(s)
      BY <3>2, Domains DEF Current, Children, Generations
    <3>4. QED
      BY <2>2, <3>3 DEF Current
  <2>6. ReadyForPrompt' /\ TurnOverWhenIdle'
    BY <2>2, <2>5, Domains DEF Turns, ReadyForPrompt, TurnOverWhenIdle
  <2>7. QED
    BY <2>3, <2>4, <2>6 DEF Turns
<1>4. CASE Respond(s)
  <2>1. job[s] = "running" /\ process[s] # 0 /\ active[s] # 0 /\ spawned[s] # 2
    BY <1>4, RunningJob DEF Respond, CanRespond, Running, Lineage, Starting, Turns, Roles
  <2>2. s \in registered /\ active[s] = nextId[s] - 1
    BY <2>1 DEF Turns, Roles, ActiveIsLast
  <2>3. /\ pc' = [pc EXCEPT ![s] = "resume"]
        /\ UNCHANGED <<registered, job, state, active, process, nextId, spawned, open>>
    BY <1>4 DEF Respond, mainVars, jobVars, linkVars, childVars
  <2>4. Roles'
    BY <2>1, <2>3, Domains DEF Turns, Roles, Starting
  <2>5. ActiveIsLast' /\ ReadyForPrompt' /\ TurnOverWhenIdle'
    BY <2>2, <2>3, Domains DEF Turns, ActiveIsLast, ReadyForPrompt, TurnOverWhenIdle, Current
  <2>6. QED
    BY <2>4, <2>5 DEF Turns
<1>5. CASE Resume(s)
  <2>1. /\ pc' = [pc EXCEPT ![s] = "session/prompt"] /\ pc[s] = "resume"
        /\ state' = [state EXCEPT ![s] = "running"]
        /\ UNCHANGED <<registered, job, active, process, nextId, spawned, open>>
    BY <1>5 DEF Resume, mainVars, jobVars, linkVars, childVars
  <2>2. Roles'
    BY <2>1, Domains DEF Turns, Roles, Starting
  <2>3. ActiveIsLast' /\ ReadyForPrompt' /\ TurnOverWhenIdle'
    BY <2>1, Domains DEF Turns, ActiveIsLast, ReadyForPrompt, TurnOverWhenIdle, Current
  <2>4. QED
    BY <2>2, <2>3 DEF Turns
<1>6. CASE Refuse(s)
  <2>1. job[s] = "running" /\ "failed" \in Results
    BY <1>6, RunningJob DEF Refuse, Lineage, Starting, Results
  <2>2. QED
    BY <1>6, <2>1, FinishTurns DEF Refuse, mainVars, linkVars, childVars
<1>7. QED
  BY <1>1, <1>2, <1>3, <1>4, <1>5, <1>6 DEF Worker

\* The loop of _wait_for_response ends a turn only with the child's answer to it.
LEMMA WaitTurns ==
  ASSUME TypeOK, Lineage, Held, OpenRequests, Turns, NEW s \in Sessions, Wait(s)
  PROVE  Turns'
<1>1. pc[s] \in Waiting /\ pc[s] # "none"
  BY DEF Wait, GiveUp, ReadFailure, ReadAndContinue, ReadPermission, ReadInitialized,
         ReadUnusable, ReadCreated, ReadCompleted, Read, Waiting
<1>2. CASE GiveUp(s) \/ ReadFailure(s)
  <2>1. /\ Raise(s)
        /\ UNCHANGED <<registered, spawned, active, process, nextId, open>>
    BY <1>2 DEF GiveUp, ReadFailure, linkVars, childVars
  <2>2. CASE state' = state /\ pc[s] # "session/prompt"
    <3>1. state[s] = "initializing"
      BY <1>1, <2>2 DEF Waiting, Starting, Turns, Roles
    <3>2. QED
      BY <1>1, <2>1, <2>2, <3>1, AbandonTurns DEF Raise
  <2>3. CASE state' = [state EXCEPT ![s] = "failed"]
    <3>1. state'[s] = "failed" /\ \A t \in Sessions \ {s} : state'[t] = state[t]
      BY <2>3, Domains
    <3>2. QED
      BY <1>1, <2>1, <3>1, AbandonTurns DEF Raise
  <2>4. QED
    BY <2>1, <2>2, <2>3 DEF Raise
<1>3. CASE ReadAndContinue(s)
  BY <1>3, TurnsKept DEF ReadAndContinue, mainVars, jobVars, turnVars, childVars
<1>4. CASE ReadPermission(s)
  <2>1. job[s] = "running" /\ "permission_required" \in Results
    BY <1>4, RunningJob DEF ReadPermission, Lineage, Starting, Results
  <2>2. state'[s] = "waiting_permission" /\ \A t \in Sessions \ {s} : state'[t] = state[t]
    BY <1>4, Domains DEF ReadPermission
  <2>3. QED
    BY <1>4, <2>1, <2>2, FinishTurns DEF ReadPermission, mainVars, childVars
<1>5. CASE ReadInitialized(s)
  <2>1. /\ pc[s] = "initialize" /\ s \notin registered /\ state[s] = "initializing"
        /\ Request(s)
        /\ UNCHANGED <<registered, spawned, active, process, state>>
    BY <1>5 DEF ReadInitialized, Lineage, Ancestry, Turns, Roles, Starting
  <2>2. \A t \in Sessions \ {s} : nextId'[t] = nextId[t]
    BY <2>1, Domains DEF Request
  <2>3. CASE Running(s)
    <3>1. pc' = [pc EXCEPT ![s] = "session/new"] /\ job' = job
      BY <1>5, <2>3 DEF ReadInitialized
    <3>2. \A t \in Sessions \ {s} : process[t] # 0 =>
            Current(t)' = Current(t) /\ open'[Current(t)] = open[Current(t)]
      <4>1. \A t \in Sessions \ {s} : process[t] # 0 =>
              Current(t) \in Children /\ Current(t) # Current(s)
        BY Domains DEF Current, Children, Generations
      <4>2. QED
        BY <2>1, <4>1, Domains DEF Request, Current
    <3>3. Roles'
      BY <2>1, <3>1, Domains DEF Turns, Roles, Starting
    <3>4. ActiveIsLast'
      BY <2>1, <2>2, <3>1, Domains DEF Turns, ActiveIsLast
    <3>5. ReadyForPrompt' /\ TurnOverWhenIdle'
      BY <2>1, <3>1, <3>2, Domains DEF Turns, ReadyForPrompt, TurnOverWhenIdle
    <3>6. QED
      BY <3>3, <3>4, <3>5 DEF Turns
  <2>4. CASE ~Running(s)
    <3>1. Abandon(s) /\ open' = open
      BY <1>5, <2>4 DEF ReadInitialized, Request
    <3>2. QED
      BY <1>1, <2>1, <2>2, <3>1, AbandonTurns
  <2>5. QED
    BY <2>3, <2>4
<1>6. CASE ReadUnusable(s)
  <2>1. /\ Abandon(s) /\ process' = [process EXCEPT ![s] = 0] /\ s \notin registered
        /\ state' = [state EXCEPT ![s] = "closed"]
        /\ UNCHANGED <<registered, spawned, active, nextId>>
        /\ \A c \in Children : open'[c] \subseteq open[c]
    BY <1>1, <1>6 DEF ReadUnusable, Kill, Waiting, Starting, Lineage, Ancestry
  <2>2. /\ process'[s] = 0
        /\ \A t \in Sessions \ {s} : state'[t] = state[t] /\ process'[t] = process[t]
    BY <2>1, Domains
  <2>3. QED
    BY <1>1, <2>1, <2>2, AbandonTurns
<1>7. CASE ReadCreated(s)
  <2>1. /\ pc[s] = "session/new" /\ s \notin registered
        /\ \A c \in Children : c[1] = s => open[c] = {}
    BY <1>7, Answered DEF ReadCreated, Awaited, Lineage, Ancestry, Starting
  <2>2. process[s] # 0 => open[Current(s)] = {}
    BY <2>1, Domains DEF Current, Children, Generations
  <2>3. /\ state' = [state EXCEPT ![s] = "idle"]
        /\ UNCHANGED <<active, process, nextId, spawned, open>>
    BY <1>7 DEF ReadCreated, childVars
  <2>4. TurnOverWhenIdle'
    BY <2>2, <2>3, Domains DEF Turns, TurnOverWhenIdle, Current
  <2>5. CASE job[s] = "running"
    <3>1. pc' = [pc EXCEPT ![s] = "prompt"] /\ UNCHANGED <<registered, job>>
      BY <1>7, <2>5 DEF ReadCreated, mainVars
    <3>2. Roles'
      BY <2>1, <2>3, <3>1, Domains DEF Turns, Roles, Starting
    <3>3. ActiveIsLast' /\ ReadyForPrompt'
      BY <2>1, <2>2, <2>3, <3>1, Domains DEF Turns, ActiveIsLast, ReadyForPrompt, Current
    <3>4. QED
      BY <2>4, <3>2, <3>3 DEF Turns
  <2>6. CASE job[s] # "running"
    <3>1. /\ pc' = [pc EXCEPT ![s] = "none"] /\ registered' = registered \cup {s}
          /\ job' = job \/ job' = [job EXCEPT ![s] = "queued"]
      BY <1>7, <2>6 DEF ReadCreated, Submit
    <3>2. active[s] = 0
      BY <2>1, <2>6 DEF Lineage, Driven, Turns, Roles
    <3>3. Roles'
      BY <2>1, <2>3, <3>1, <3>2, Domains DEF Turns, Roles, Starting
    <3>4. ActiveIsLast' /\ ReadyForPrompt'
      BY <2>2, <2>3, <3>1, <3>2, Domains DEF Turns, ActiveIsLast, ReadyForPrompt, Current
    <3>5. QED
      BY <2>4, <3>3, <3>4 DEF Turns
  <2>7. QED
    BY <2>5, <2>6
<1>8. CASE ReadCompleted(s)
  <2>1. pc[s] = "session/prompt" /\ job[s] = "running" /\ "completed" \in Results
    BY <1>8, RunningJob DEF ReadCompleted, Lineage, Starting, Results
  <2>2. \A c \in Children : c[1] = s => open[c] = {}
    BY <1>8, <2>1, Answered DEF ReadCompleted, Awaited, Turns, ActiveIsLast
  <2>3. process[s] # 0 => open[Current(s)] = {}
    BY <2>2, Domains DEF Current, Children, Generations
  <2>4. /\ active' = [active EXCEPT ![s] = 0] /\ state' = [state EXCEPT ![s] = "idle"]
        /\ FinishJob(s, "completed")
        /\ UNCHANGED <<registered, spawned, process, nextId, open>>
    BY <1>8 DEF ReadCompleted, mainVars, childVars
  <2>5. QED
    BY <2>1, <2>3, <2>4, FinishTurns, Domains
<1>9. QED
  BY <1>2, <1>3, <1>4, <1>5, <1>6, <1>7, <1>8 DEF Wait

\* Every step keeps the turns.
LEMMA TurnsStep ==
  ASSUME TypeOK, Lineage, Held, OpenRequests, Turns, [Next]_vars
  PROVE  Turns'
<1>1. ASSUME NEW c \in Children, ReadLine(c) \/ Child(c)
      PROVE  Turns'
  <2>1. UNCHANGED <<registered, spawned, process, nextId, active, job, pc, state>>
    BY <1>1 DEF ReadLine, Child, ChildAnswers, ChildAsks, ChildWritesNoise, ChildExits,
                mainVars, jobVars, turnVars, linkVars
  <2>2. \A d \in Children : open'[d] \subseteq open[d]
    BY <1>1 DEF ReadLine, Child, ChildAnswers, ChildAsks, ChildWritesNoise, ChildExits,
                Kill, TypeOK, ChildType
  <2>3. QED
    BY <2>1, <2>2, TurnsKept
<1>2. CASE Exit \/ UNCHANGED vars
  BY <1>2, TurnsKept DEF Exit, vars, mainVars, jobVars, turnVars, linkVars, childVars
<1>3. CASE CloseAll
  <2>1. /\ \A t \in Sessions :
             /\ process'[t] = IF t \in registered THEN 0 ELSE process[t]
             /\ state'[t] = IF t \in registered THEN "closed" ELSE state[t]
        /\ registered' = {} /\ \A c \in Children : open'[c] \subseteq open[c]
        /\ UNCHANGED <<job, active, pc, nextId, spawned>>
    BY <1>3 DEF CloseAll, Kill, jobVars
  <2>2. Roles' /\ ActiveIsLast'
    BY <2>1 DEF Turns, Roles, ActiveIsLast, Lineage, Ancestry
  <2>3. \A t \in Sessions : process'[t] # 0 =>
          /\ Current(t)' = Current(t) /\ t \notin registered
          /\ open[Current(t)] = {} => open'[Current(t)] = {}
    <3>1. \A t \in Sessions : process[t] # 0 => Current(t) \in Children
      BY Domains DEF Current, Children, Generations
    <3>2. QED
      BY <2>1, <3>1 DEF Current
  <2>4. ReadyForPrompt' /\ TurnOverWhenIdle'
    BY <2>1, <2>3 DEF Turns, ReadyForPrompt, TurnOverWhenIdle
  <2>5. QED
    BY <2>2, <2>4 DEF Turns
<1>4. QED
  BY <1>1, <1>2, <1>3, MainTurns, WorkerTurns, WaitTurns DEF Next

-----------------------------------------------------------------------------
\* The inductive invariant of the turns.
TurnInvariant == TypeOK /\ Lineage /\ Held /\ OpenRequests /\ Turns

\* It holds at the start.
LEMMA TurnInit == Init => TurnInvariant
<1>1. Init => Held
  BY DEF Init, Held
<1>2. Init => OpenRequests
  <2>1. Init => \A s \in Sessions : Sent(s) = {}
    <3>1. ToSet(<< >>) = {}
      BY DEF ToSet
    <3>2. Init => \A s \in Sessions, g \in Generations :
                    queue[s] = << >> /\ pipe[<<s, g>>] = << >>
      BY DEF Init, Children
    <3>3. Init => \A s \in Sessions : ToSet(queue[s]) = {}
      BY <3>1 DEF Init
    <3>4. Init => \A s \in Sessions, g \in Generations : ToSet(pipe[<<s, g>>]) = {}
      BY <3>1, <3>2
    <3>5. QED
      BY <3>3, <3>4 DEF Sent
  <2>2. \A c \in Children : c[1] \in Sessions
    BY DEF Children
  <2>3. QED
    BY <2>1, <2>2 DEF Init, OpenRequests
<1>3. Init => Turns
  BY DEF Init, Turns, Roles, ActiveIsLast, ReadyForPrompt, TurnOverWhenIdle, Starting
<1>4. QED
  BY <1>1, <1>2, <1>3, TypeInit, LineageInit DEF TurnInvariant

\* It holds forever.
LEMMA TurnInvariance == Spec => []TurnInvariant
<1>1. TurnInvariant /\ [Next]_vars => TurnInvariant'
  BY TypeStep, LineageStep, HeldStep, RequestsStep, TurnsStep DEF TurnInvariant
<1>2. QED
  BY <1>1, TurnInit, PTL DEF Spec

\* A child never works on two requests at once, whatever times out, is closed,
\* restarted, asked or answered late (acp_session.py:256-305).
THEOREM OneTurn == Spec => []OneTurnPerChild
<1>1. TurnInvariant => OneTurnPerChild
  BY DEF TurnInvariant, OpenRequests, OneTurnPerChild
<1>2. QED
  BY <1>1, TurnInvariance, PTL

\* A session that reports "idle" has a child with nothing left to do
\* (acp_session.py:130-134, 273-275).
THEOREM IdleIsQuiet == Spec => []TurnOverWhenIdle
<1>1. TurnInvariant => TurnOverWhenIdle
  BY DEF TurnInvariant, Turns
<1>2. QED
  BY <1>1, TurnInvariance, PTL

-----------------------------------------------------------------------------
(* Permission requests: the lines that carry them, and their answers *)

\* The requests among the lines of a sequence, each at one place in it.
Asks(q) == {m \in ToSet(q) : m.kind = "ask"}
Once(q) == \A i, j \in DOMAIN q : q[i].kind = "ask" /\ q[i] = q[j] => i = j

\* The requests that answers grant, or answer at all, none granted twice.
Grants(r) == {r[i].ask : i \in {j \in DOMAIN r : r[j].outcome = "selected"}}
Answers(r) == {r[i].ask : i \in DOMAIN r}
GrantsOnce(r) ==
  \A i, j \in DOMAIN r :
    r[i].outcome = "selected" /\ r[j].outcome = "selected" /\ r[i].ask = r[j].ask => i = j

\* A line read leaves its sequence.
LEMMA TailAsks ==
  ASSUME NEW q \in Seq(Message), q # <<>>, Once(q)
  PROVE  /\ Once(Tail(q)) /\ Head(q) \notin Asks(Tail(q))
         /\ Asks(Tail(q)) \subseteq Asks(q)
         /\ Asks(q) \subseteq Asks(Tail(q)) \cup {Head(q)}
<1>1. /\ Len(q) \in Nat \ {0} /\ DOMAIN q = 1..Len(q)
      /\ DOMAIN Tail(q) = 1..(Len(q) - 1)
      /\ \A i \in DOMAIN Tail(q) : Tail(q)[i] = q[i + 1]
      /\ Head(q) = q[1]
  OBVIOUS
<1>2. \A i \in DOMAIN Tail(q) : i + 1 \in DOMAIN q /\ i + 1 # 1 /\ i \in Nat
  BY <1>1
<1>3. 1 \in DOMAIN q
  BY <1>1
<1>4. Once(Tail(q))
  <2>1. SUFFICES ASSUME NEW i \in DOMAIN Tail(q), NEW j \in DOMAIN Tail(q),
                        q[i + 1].kind = "ask", q[i + 1] = q[j + 1]
                 PROVE  i = j
    BY <1>1 DEF Once
  <2>2. i + 1 = j + 1
    BY <1>2, <2>1 DEF Once
  <2>3. QED
    BY <1>2, <2>2
<1>5. Head(q) \notin Asks(Tail(q))
  <2>1. ASSUME NEW i \in DOMAIN Tail(q), q[i + 1] = q[1], q[1].kind = "ask"
        PROVE  FALSE
    BY <1>2, <1>3, <2>1 DEF Once
  <2>2. QED
    BY <1>1, <2>1 DEF Asks, ToSet
<1>6. Asks(Tail(q)) \subseteq Asks(q)
  BY TailElements DEF Asks
<1>7. Asks(q) \subseteq Asks(Tail(q)) \cup {Head(q)}
  <2>1. \A i \in DOMAIN q : i = 1 \/ (i - 1 \in DOMAIN Tail(q) /\ q[i] = Tail(q)[i - 1])
    BY <1>1
  <2>2. ASSUME NEW m \in Asks(q), m # Head(q)
        PROVE  m \in Asks(Tail(q))
    <3>1. m.kind = "ask" /\ \E i \in DOMAIN q : q[i] = m
      BY <2>2 DEF Asks, ToSet
    <3>2. \E i \in DOMAIN Tail(q) : Tail(q)[i] = m
      BY <1>1, <2>1, <2>2, <3>1
    <3>3. QED
      BY <3>1, <3>2 DEF Asks, ToSet
  <2>3. QED
    BY <2>2
<1>8. QED
  BY <1>4, <1>5, <1>6, <1>7

\* A line that is written, or queued, is new there.
LEMMA AppendAsks ==
  ASSUME NEW q \in Seq(Message), NEW m \in Message, Once(q), m \notin Asks(q)
  PROVE  /\ Once(Append(q, m))
         /\ Asks(q) \subseteq Asks(Append(q, m))
         /\ Asks(Append(q, m)) \subseteq Asks(q) \cup {m}
         /\ m.kind = "ask" => m \in Asks(Append(q, m))
         /\ m.kind # "ask" => Asks(Append(q, m)) = Asks(q)
<1> DEFINE p == Append(q, m)
<1>1. /\ Len(q) \in Nat /\ DOMAIN q = 1..Len(q)
      /\ DOMAIN p = 1..(Len(q) + 1)
      /\ \A i \in DOMAIN q : p[i] = q[i]
      /\ p[Len(q) + 1] = m
  OBVIOUS
<1>2. DOMAIN p = DOMAIN q \cup {Len(q) + 1}
  BY <1>1
<1> HIDE DEF p
<1>3. \A i \in DOMAIN q : q[i].kind = "ask" => q[i] # m
  BY DEF Asks, ToSet
<1>4. Once(p)
  BY <1>1, <1>2, <1>3 DEF Once
<1>5. Asks(q) \subseteq Asks(p) /\ Asks(p) \subseteq Asks(q) \cup {m}
  BY <1>1, <1>2 DEF Asks, ToSet
<1>6. m.kind = "ask" => m \in Asks(p)
  BY <1>1, <1>2 DEF Asks, ToSet
<1>7. m.kind # "ask" => m \notin Asks(p)
  BY DEF Asks
<1>8. QED
  BY <1>4, <1>5, <1>6, <1>7 DEF p

\* A line that asks nothing does not count.
LEMMA AppendQuiet ==
  ASSUME NEW q \in Seq(Message), NEW m \in Message, m.kind # "ask"
  PROVE  Asks(Append(q, m)) = Asks(q)
<1>1. /\ Len(q) \in Nat /\ DOMAIN q = 1..Len(q)
      /\ DOMAIN Append(q, m) = 1..(Len(q) + 1)
      /\ \A i \in DOMAIN q : Append(q, m)[i] = q[i]
      /\ Append(q, m)[Len(q) + 1] = m
  OBVIOUS
<1>2. DOMAIN Append(q, m) = DOMAIN q \cup {Len(q) + 1}
  BY <1>1
<1>3. QED
  BY <1>1, <1>2 DEF Asks, ToSet

\* An answer extends what is answered, and grants once what was not granted.
LEMMA AppendGrants ==
  ASSUME NEW r \in Seq(Reply), NEW a \in Reply, GrantsOnce(r),
         a.outcome = "selected" => a.ask \notin Grants(r)
  PROVE  /\ GrantsOnce(Append(r, a))
         /\ Answers(Append(r, a)) = Answers(r) \cup {a.ask}
         /\ a.outcome = "selected" => Grants(Append(r, a)) = Grants(r) \cup {a.ask}
         /\ a.outcome # "selected" => Grants(Append(r, a)) = Grants(r)
<1> DEFINE p == Append(r, a)
<1>1. /\ Len(r) \in Nat /\ DOMAIN r = 1..Len(r)
      /\ DOMAIN p = 1..(Len(r) + 1)
      /\ \A i \in DOMAIN r : p[i] = r[i]
      /\ p[Len(r) + 1] = a
  OBVIOUS
<1>2. DOMAIN p = DOMAIN r \cup {Len(r) + 1}
  BY <1>1
<1> HIDE DEF p
<1>3. \A i \in DOMAIN r :
        r[i].outcome = "selected" /\ a.outcome = "selected" => r[i].ask # a.ask
  BY DEF Grants
<1>4. GrantsOnce(p)
  BY <1>1, <1>2, <1>3 DEF GrantsOnce
<1>5. Answers(p) = Answers(r) \cup {a.ask}
  BY <1>1, <1>2 DEF Answers
<1>6. a.outcome = "selected" => Grants(p) = Grants(r) \cup {a.ask}
  BY <1>1, <1>2 DEF Grants
<1>7. a.outcome # "selected" => Grants(p) = Grants(r)
  BY <1>1, <1>2 DEF Grants
<1>8. QED
  BY <1>4, <1>5, <1>6, <1>7 DEF p

\* The requests of a session that are on their way, and those of its first child.
OnWay(s) == Asks(queue[s]) \cup Asks(pipe[<<s, 1>>]) \cup Asks(pipe[<<s, 2>>])
Shown(s) == Asks(queue[s]) \cup Asks(pipe[<<s, 1>>])

\* They are on their way once.
Apart(s) ==
  /\ Once(queue[s]) /\ Once(pipe[<<s, 1>>]) /\ Once(pipe[<<s, 2>>])
  /\ Asks(queue[s]) \cap Asks(pipe[<<s, 1>>]) = {}
  /\ Asks(queue[s]) \cap Asks(pipe[<<s, 2>>]) = {}
  /\ Asks(pipe[<<s, 1>>]) \cap Asks(pipe[<<s, 2>>]) = {}

\* And were not seen yet.
Unseen(s) ==
  \A m \in OnWay(s) :
    /\ m = Ask(m.id) /\ m.id \in 1..asked[s]
    /\ m.id # pending[s] /\ m.id \notin Grants(replies[s])

\* What is pending belongs to a turn; it is granted exactly while the worker is about
\* to forget it.
PendingOfTurn(s) ==
  /\ pc[s] \in {"session/prompt", "resume"} => active[s] # 0
  /\ pc[s] = "session/prompt" \/ active[s] = 0 => pending[s] = 0
  /\ spawned[s] = 0 => asked[s] = 0
  /\ pending[s] \in 0..asked[s] /\ Grants(replies[s]) \subseteq 1..asked[s]
  /\ pending[s] \in Grants(replies[s]) => pc[s] = "resume"
  /\ pc[s] = "resume" /\ pending[s] # 0 => pending[s] \in Grants(replies[s])

\* The first child of the session runs, and no close() has begun.
Lives(s) == Running(s) /\ process[s] = 1 /\ ~(target = s /\ main \in Closing)

\* Until then what it asked is on its way, pending or answered.
Kept(s) ==
  Lives(s) => \A k \in 1..asked[s] :
    Ask(k) \in Shown(s) \/ pending[s] = k \/ k \in Answers(replies[s])

Permits(s) ==
  PendingOfTurn(s) /\ GrantsOnce(replies[s]) /\ Apart(s) /\ Unseen(s) /\ Kept(s)

Permissions == \A s \in Sessions : Permits(s)

-----------------------------------------------------------------------------
(* Where the requests go *)

\* The pipes of a session carry the same requests as before.
PipesQuiet(s) ==
  \A g \in Generations :
    /\ Asks(pipe'[<<s, g>>]) = Asks(pipe[<<s, g>>])
    /\ Once(pipe[<<s, g>>]) => Once(pipe'[<<s, g>>])

\* The loop of _wait_for_response takes a line.
Reads(s) ==
  \/ ReadFailure(s) \/ ReadAndContinue(s) \/ ReadPermission(s) \/ ReadInitialized(s)
  \/ ReadUnusable(s) \/ ReadCreated(s) \/ ReadCompleted(s)

\* The lines of a session are messages.
LEMMA LineTypes ==
  ASSUME TypeOK, NEW s \in Sessions
  PROVE  /\ queue[s] \in Seq(Message) /\ DOMAIN queue = Sessions /\ DOMAIN pipe = Children
         /\ \A c \in Children : pipe[c] \in Seq(Message)
         /\ \A g \in Generations : <<s, g>> \in Children
BY DEF TypeOK, LinkType, ChildType, Children

\* Pipes that do not change are quiet.
LEMMA PipesSame == ASSUME UNCHANGED pipe, NEW s PROVE PipesQuiet(s)
BY DEF PipesQuiet

\* Dying children ask nothing.
LEMMA KillQuiet ==
  ASSUME TypeOK, NEW C, Kill(C), NEW s \in Sessions
  PROVE  PipesQuiet(s)
<1>1. Eof \in Message /\ Eof.kind # "ask"
  BY DEF Eof, Noise, Message
<1>2. \A g \in Generations : pipe'[<<s, g>>] \in {pipe[<<s, g>>], Append(pipe[<<s, g>>], Eof)}
  BY LineTypes DEF Kill
<1>3. \A q \in Seq(Message) : Eof \notin Asks(q)
  BY <1>1 DEF Asks
<1>4. ASSUME NEW g \in Generations
      PROVE  /\ Asks(pipe'[<<s, g>>]) = Asks(pipe[<<s, g>>])
             /\ Once(pipe[<<s, g>>]) => Once(pipe'[<<s, g>>])
  <2>1. pipe[<<s, g>>] \in Seq(Message)
    BY LineTypes
  <2>2. Asks(Append(pipe[<<s, g>>], Eof)) = Asks(pipe[<<s, g>>])
    BY <1>1, <1>3, <2>1, AppendQuiet
  <2>3. Once(pipe[<<s, g>>]) => Once(Append(pipe[<<s, g>>], Eof))
    BY <1>1, <1>3, <2>1, AppendAsks
  <2>4. QED
    BY <1>2, <2>2, <2>3
<1>5. QED
  BY <1>4 DEF PipesQuiet

\* A child that answers or writes noise asks nothing.
LEMMA WriteQuiet ==
  ASSUME TypeOK, NEW c \in Children, NEW m \in Message, m.kind # "ask", Write(c, m),
         NEW s \in Sessions
  PROVE  PipesQuiet(s)
<1>1. \A g \in Generations : pipe'[<<s, g>>] \in {pipe[<<s, g>>], Append(pipe[<<s, g>>], m)}
  BY LineTypes DEF Write
<1>2. \A q \in Seq(Message) : m \notin Asks(q)
  BY DEF Asks
<1>3. ASSUME NEW g \in Generations
      PROVE  /\ Asks(pipe'[<<s, g>>]) = Asks(pipe[<<s, g>>])
             /\ Once(pipe[<<s, g>>]) => Once(pipe'[<<s, g>>])
  <2>1. pipe[<<s, g>>] \in Seq(Message)
    BY LineTypes
  <2>2. Asks(Append(pipe[<<s, g>>], m)) = Asks(pipe[<<s, g>>])
    BY <2>1, AppendQuiet
  <2>3. Once(pipe[<<s, g>>]) => Once(Append(pipe[<<s, g>>], m))
    BY <1>2, <2>1, AppendAsks
  <2>4. QED
    BY <1>1, <2>2, <2>3
<1>4. QED
  BY <1>3 DEF PipesQuiet

\* A request that is read is on its way no more.
LEMMA ReadAsks ==
  ASSUME TypeOK, NEW s \in Sessions, Apart(s), Read(s), PipesQuiet(s)
  PROVE  /\ Apart(s)'
         /\ OnWay(s)' \subseteq OnWay(s)
         /\ Line(s).kind = "ask" => Line(s) \in OnWay(s) /\ Line(s) \notin OnWay(s)'
         /\ Shown(s) \subseteq Shown(s)' \cup {Line(s)}
<1> DEFINE q == queue[s]
<1>1. /\ q \in Seq(Message) /\ q # <<>> /\ queue'[s] = Tail(q) /\ Line(s) = Head(q)
  BY LineTypes DEF Read, Line
<1>2. /\ Once(Tail(q)) /\ Head(q) \notin Asks(Tail(q))
      /\ Asks(Tail(q)) \subseteq Asks(q)
      /\ Asks(q) \subseteq Asks(Tail(q)) \cup {Head(q)}
  BY <1>1, TailAsks DEF Apart
<1>3. Line(s).kind = "ask" => Line(s) \in Asks(q)
  BY <1>1, TailElements DEF Asks
<1>4. /\ Asks(pipe'[<<s, 1>>]) = Asks(pipe[<<s, 1>>])
      /\ Asks(pipe'[<<s, 2>>]) = Asks(pipe[<<s, 2>>])
      /\ Once(pipe'[<<s, 1>>]) /\ Once(pipe'[<<s, 2>>])
  BY DEF PipesQuiet, Generations, Apart
<1> HIDE DEF q
<1>5. q = queue[s]
  BY DEF q
<1>6. Apart(s)'
  BY <1>1, <1>2, <1>4, <1>5 DEF Apart
<1>7. QED
  BY <1>1, <1>2, <1>3, <1>4, <1>5, <1>6 DEF Apart, OnWay, Shown

\* A reader moves a request to the queue.
LEMMA MoveAsks ==
  ASSUME TypeOK, NEW c \in Children, Apart(c[1]), ReadLine(c)
  PROVE  /\ Apart(c[1])'
         /\ OnWay(c[1])' \subseteq OnWay(c[1])
         /\ Shown(c[1]) \subseteq Shown(c[1])'
<1> DEFINE s == c[1]
           q == queue[s]
           p == pipe[c]
<1>1. /\ s \in Sessions /\ c[2] \in Generations /\ c = <<s, c[2]>>
  BY DEF Children
<1>2. /\ q \in Seq(Message) /\ p \in Seq(Message) /\ p # <<>>
      /\ queue'[s] = Append(q, Head(p)) /\ pipe'[c] = Tail(p)
      /\ \A d \in Children \ {c} : pipe'[d] = pipe[d]
  BY <1>1, LineTypes DEF ReadLine
<1>3. Head(p) \in Message
  BY <1>2
<1>4. Once(q) /\ Once(p) /\ Asks(q) \cap Asks(p) = {}
  BY <1>1 DEF Apart, Generations
<1> HIDE DEF s, q, p
<1>5. /\ Once(Tail(p)) /\ Head(p) \notin Asks(Tail(p))
      /\ Asks(Tail(p)) \subseteq Asks(p)
      /\ Asks(p) \subseteq Asks(Tail(p)) \cup {Head(p)}
  BY <1>2, <1>4, TailAsks
<1>6. Head(p) \notin Asks(q)
  <2>1. Head(p) \in Asks(q) => Head(p) \in Asks(p)
    BY <1>2, TailElements DEF Asks
  <2>2. QED
    BY <1>4, <2>1
<1>7. /\ Once(Append(q, Head(p)))
      /\ Asks(q) \subseteq Asks(Append(q, Head(p)))
      /\ Asks(Append(q, Head(p))) \subseteq Asks(q) \cup {Head(p)}
      /\ Head(p).kind = "ask" => Head(p) \in Asks(Append(q, Head(p)))
      /\ Head(p).kind # "ask" => Asks(Append(q, Head(p))) = Asks(q)
  BY <1>2, <1>3, <1>4, <1>6, AppendAsks
<1>8. Head(p).kind = "ask" => Head(p) \in Asks(p)
  BY <1>2, TailElements DEF Asks
<1>9. Head(p) \in Asks(p) => Head(p).kind = "ask"
  BY DEF Asks
<1>10. q = queue[s] /\ p = pipe[c] /\ s = c[1]
  BY DEF q, p, s
<1>11. /\ Asks(Append(q, Head(p))) \subseteq Asks(q) \cup Asks(p)
       /\ Asks(Append(q, Head(p))) \cap Asks(Tail(p)) = {}
  BY <1>4, <1>5, <1>7, <1>8
<1>12. CASE c = <<s, 1>>
  <2>1. pipe'[<<s, 2>>] = pipe[<<s, 2>>]
    BY <1>1, <1>2, <1>12 DEF Children, Generations
  <2>2. Apart(s)'
    BY <1>2, <1>5, <1>7, <1>10, <1>11, <1>12, <2>1 DEF Apart
  <2>3. QED
    BY <1>2, <1>5, <1>7, <1>8, <1>9, <1>10, <1>12, <2>1, <2>2 DEF Apart, OnWay, Shown
<1>13. CASE c = <<s, 2>>
  <2>1. pipe'[<<s, 1>>] = pipe[<<s, 1>>]
    BY <1>1, <1>2, <1>13 DEF Children, Generations
  <2>2. Apart(s)'
    BY <1>2, <1>5, <1>7, <1>10, <1>11, <1>13, <2>1 DEF Apart
  <2>3. QED
    BY <1>2, <1>5, <1>7, <1>8, <1>9, <1>10, <1>13, <2>1, <2>2 DEF Apart, OnWay, Shown
<1>14. QED
  BY <1>1, <1>12, <1>13 DEF Generations

\* A request that a child makes is on its way.
LEMMA NewAsks ==
  ASSUME TypeOK, NEW c \in Children, Apart(c[1]), Unseen(c[1]), ChildAsks(c)
  PROVE  /\ Apart(c[1])'
         /\ OnWay(c[1])' \subseteq OnWay(c[1]) \cup {Ask(asked[c[1]] + 1)}
         /\ Shown(c[1]) \subseteq Shown(c[1])'
         /\ c[2] = 1 => Ask(asked[c[1]] + 1) \in Shown(c[1])'
<1> DEFINE s == c[1]
           p == pipe[c]
           m == Ask(asked[s] + 1)
<1>1. /\ s \in Sessions /\ c[2] \in Generations /\ c = <<s, c[2]>>
      /\ asked[s] \in Nat
  BY DEF Children, TypeOK, TalkType
<1>2. /\ p \in Seq(Message) /\ queue' = queue /\ pipe'[c] = Append(p, m)
      /\ \A d \in Children \ {c} : pipe'[d] = pipe[d]
  BY <1>1, LineTypes DEF ChildAsks, Write, linkVars
<1>3. m \in Message /\ m.kind = "ask" /\ m.id = asked[s] + 1
  BY <1>1 DEF Ask, Message
<1>4. m \notin OnWay(s)
  BY <1>1, <1>3 DEF Unseen
<1>5. s = c[1] /\ p = pipe[c] /\ m = Ask(asked[c[1]] + 1)
  OBVIOUS
<1> HIDE DEF s, p, m
<1>6. p = pipe[<<s, c[2]>>] /\ c[2] \in {1, 2}
  BY <1>1, <1>5 DEF Generations
<1>7. m \notin Asks(p) /\ Once(p)
  BY <1>4, <1>5, <1>6 DEF OnWay, Apart
<1>8. /\ Once(Append(p, m)) /\ Asks(p) \subseteq Asks(Append(p, m))
      /\ Asks(Append(p, m)) \subseteq Asks(p) \cup {m}
      /\ m \in Asks(Append(p, m))
  BY <1>2, <1>3, <1>7, AppendAsks
<1>9. CASE c = <<s, 1>>
  <2>1. pipe'[<<s, 2>>] = pipe[<<s, 2>>] /\ pipe'[<<s, 1>>] = Append(p, m)
        /\ p = pipe[<<s, 1>>]
    BY <1>1, <1>2, <1>5, <1>9 DEF Children, Generations
  <2>2. Apart(s)'
    BY <1>2, <1>4, <1>5, <1>8, <2>1 DEF Apart, OnWay
  <2>3. QED
    BY <1>2, <1>5, <1>8, <2>1, <2>2 DEF OnWay, Shown
<1>10. CASE c = <<s, 2>>
  <2>1. <<s, 1>> \in Children /\ <<s, 1>> # c
    BY <1>1, <1>10 DEF Children, Generations
  <2>2. pipe'[<<s, 1>>] = pipe[<<s, 1>>] /\ pipe'[<<s, 2>>] = Append(p, m)
        /\ p = pipe[<<s, 2>>]
    BY <1>2, <1>5, <1>10, <2>1
  <2>3. Apart(s)'
    BY <1>2, <1>4, <1>5, <1>8, <2>2 DEF Apart, OnWay
  <2>4. c[2] # 1
    BY <1>10
  <2>5. QED
    BY <1>2, <1>5, <1>8, <2>2, <2>3, <2>4 DEF OnWay, Shown
<1>11. QED
  BY <1>1, <1>6, <1>9, <1>10

\* What a step does to the lines of a session: nothing that carries a request, a line
\* read, a line moved, or a request made.
LEMMA LineCases ==
  ASSUME TypeOK, [Next]_vars, NEW s \in Sessions
  PROVE  \/ PipesQuiet(s) /\ queue'[s] = queue[s] /\ asked'[s] = asked[s]
         \/ PipesQuiet(s) /\ Read(s) /\ Reads(s) /\ asked'[s] = asked[s]
         \/ \E c \in Children : c[1] = s /\ ReadLine(c) /\ asked'[s] = asked[s]
         \/ \E c \in Children : c[1] = s /\ ChildAsks(c) /\ asked'[s] = asked[s] + 1
<1>1. ASSUME pipe' = pipe
      PROVE  PipesQuiet(s)
  BY <1>1 DEF PipesQuiet
<1>2. asked \in [Sessions -> Nat] /\ DOMAIN queue = Sessions
  BY DEF TypeOK, TalkType, LinkType
<1>3. ASSUME NEW t \in Sessions, Main(t)
      PROVE  PipesQuiet(s) /\ queue'[s] = queue[s] /\ asked'[s] = asked[s]
  <2>1. CASE Terminate(t)
    BY <2>1, KillQuiet DEF Terminate, linkVars, talkVars
  <2>2. CASE ~Terminate(t)
    BY <1>1, <1>3, <2>2
       DEF Main, CallStart, Spawn, CallClose, CallSubmit, Cancel, CancelAnswer,
           CancelForget, Drop, linkVars, childVars, talkVars
  <2>3. QED
    BY <2>1, <2>2
<1>4. ASSUME NEW t \in Sessions, Worker(t)
      PROVE  PipesQuiet(s) /\ queue'[s] = queue[s] /\ asked'[s] = asked[s]
  BY <1>1, <1>4
     DEF Worker, TakeJob, TakeAndSpawn, Spawn, Prompt, Respond, Resume, Refuse,
         linkVars, childVars, talkVars
<1>5. ASSUME NEW t \in Sessions, GiveUp(t)
      PROVE  PipesQuiet(s) /\ queue'[s] = queue[s] /\ asked'[s] = asked[s]
  BY <1>1, <1>5 DEF GiveUp, linkVars, childVars, talkVars
<1>6. ASSUME NEW t \in Sessions, Reads(t)
      PROVE  PipesQuiet(s) /\ Read(t) /\ asked'[s] = asked[s]
  <2>1. CASE ReadUnusable(t)
    BY <2>1, KillQuiet DEF ReadUnusable, talkVars
  <2>2. CASE ~ReadUnusable(t)
    BY <1>1, <1>6, <2>2
       DEF Reads, ReadFailure, ReadAndContinue, ReadPermission, ReadInitialized,
           ReadCreated, ReadCompleted, childVars, talkVars
  <2>3. QED
    BY <2>1, <2>2
<1>7. ASSUME NEW t \in Sessions, t # s, Read(t)
      PROVE  queue'[s] = queue[s]
  BY <1>2, <1>7 DEF Read
<1>8. ASSUME NEW t \in Sessions, Wait(t)
      PROVE  \/ PipesQuiet(s) /\ queue'[s] = queue[s] /\ asked'[s] = asked[s]
             \/ PipesQuiet(s) /\ Read(s) /\ Reads(s) /\ asked'[s] = asked[s]
  BY <1>5, <1>6, <1>7, <1>8 DEF Wait, Reads
<1>9. ASSUME NEW c \in Children, ReadLine(c)
      PROVE  \/ PipesQuiet(s) /\ queue'[s] = queue[s] /\ asked'[s] = asked[s]
             \/ c[1] = s /\ ReadLine(c) /\ asked'[s] = asked[s]
  <2>1. CASE c[1] = s
    BY <1>9, <2>1 DEF ReadLine, talkVars
  <2>2. CASE c[1] # s
    <3>1. \A g \in Generations : pipe'[<<s, g>>] = pipe[<<s, g>>]
      BY <1>9, <2>2, LineTypes DEF ReadLine
    <3>2. QED
      BY <1>2, <1>9, <2>2, <3>1 DEF ReadLine, talkVars, PipesQuiet
  <2>3. QED
    BY <2>1, <2>2
<1>10. ASSUME NEW c \in Children, Child(c)
       PROVE  \/ PipesQuiet(s) /\ queue'[s] = queue[s] /\ asked'[s] = asked[s]
              \/ c[1] = s /\ ChildAsks(c) /\ asked'[s] = asked[s] + 1
  <2>1. ASSUME NEW id \in open[c], NEW verdict \in Verdicts, ChildAnswers(c, id, verdict)
        PROVE  PipesQuiet(s)
    <3>1. Response(id, verdict) \in Message /\ Response(id, verdict).kind # "ask"
      BY BoundsAssumption DEF TypeOK, ChildType, Response, Message
    <3>2. QED
      BY <2>1, <3>1, WriteQuiet DEF ChildAnswers
  <2>2. ASSUME NEW kind \in {"call", "garbage"}, ChildWritesNoise(c, kind)
        PROVE  PipesQuiet(s)
    <3>1. Noise(kind) \in Message /\ Noise(kind).kind # "ask"
      BY DEF Noise, Message
    <3>2. QED
      BY <2>2, <3>1, WriteQuiet DEF ChildWritesNoise
  <2>3. ASSUME ChildExits(c)
        PROVE  PipesQuiet(s)
    BY <2>3, KillQuiet DEF ChildExits
  <2>4. CASE ChildAsks(c)
    <3>1. CASE c[1] = s
      BY <1>2, <2>4, <3>1 DEF ChildAsks
    <3>2. CASE c[1] # s
      <4>1. \A g \in Generations : pipe'[<<s, g>>] = pipe[<<s, g>>]
        BY <2>4, <3>2, LineTypes DEF ChildAsks, Write
      <4>2. QED
        BY <1>2, <2>4, <3>2, <4>1 DEF ChildAsks, linkVars, PipesQuiet
    <3>3. QED
      BY <3>1, <3>2
  <2>5. CASE ~ChildAsks(c)
    <3>1. queue' = queue /\ asked' = asked
      BY <1>10, <2>5
         DEF Child, ChildAnswers, ChildWritesNoise, ChildExits, linkVars, talkVars
    <3>2. QED
      BY <1>10, <2>1, <2>2, <2>3, <2>5, <3>1 DEF Child
  <2>6. QED
    BY <2>4, <2>5
<1>11. CASE CloseAll
  BY <1>11, KillQuiet DEF CloseAll, talkVars
<1>12. CASE Exit \/ UNCHANGED vars
  BY <1>1, <1>12 DEF Exit, vars, linkVars, childVars, talkVars
<1>13. QED
  BY <1>3, <1>4, <1>8, <1>9, <1>10, <1>11, <1>12 DEF Next

\* So requests stay apart, and one leaves only by being read.
LEMMA AsksMove ==
  ASSUME TypeOK, NEW s \in Sessions, Apart(s), Unseen(s), [Next]_vars
  PROVE  /\ Apart(s)'
         /\ OnWay(s)' \subseteq OnWay(s)
              \cup (IF asked'[s] = asked[s] THEN {} ELSE {Ask(asked[s] + 1)})
         /\ asked'[s] \in {asked[s], asked[s] + 1}
         /\ Shown(s) \subseteq Shown(s)' \/ (Reads(s) /\ Shown(s) \subseteq Shown(s)' \cup {Line(s)})
         /\ asked'[s] = asked[s]
            \/ \E c \in alive : c[1] = s /\ (c[2] = 1 => Ask(asked[s] + 1) \in Shown(s)')
<1>1. CASE PipesQuiet(s) /\ queue'[s] = queue[s] /\ asked'[s] = asked[s]
  <2>1. /\ Asks(pipe'[<<s, 1>>]) = Asks(pipe[<<s, 1>>])
        /\ Asks(pipe'[<<s, 2>>]) = Asks(pipe[<<s, 2>>])
        /\ Once(pipe'[<<s, 1>>]) /\ Once(pipe'[<<s, 2>>])
    BY <1>1 DEF PipesQuiet, Generations, Apart
  <2>2. Apart(s)'
    BY <1>1, <2>1 DEF Apart
  <2>3. QED
    BY <1>1, <2>1, <2>2 DEF OnWay, Shown
<1>2. CASE PipesQuiet(s) /\ Read(s) /\ Reads(s) /\ asked'[s] = asked[s]
  BY <1>2, ReadAsks
<1>3. ASSUME NEW c \in Children, c[1] = s, ReadLine(c), asked'[s] = asked[s]
      PROVE  Apart(s)' /\ OnWay(s)' \subseteq OnWay(s) /\ Shown(s) \subseteq Shown(s)'
  BY <1>3, MoveAsks
<1>4. ASSUME NEW c \in Children, c[1] = s, ChildAsks(c), asked'[s] = asked[s] + 1
      PROVE  /\ Apart(s)' /\ OnWay(s)' \subseteq OnWay(s) \cup {Ask(asked[s] + 1)}
             /\ Shown(s) \subseteq Shown(s)' /\ c \in alive
             /\ c[2] = 1 => Ask(asked[s] + 1) \in Shown(s)'
  BY <1>4, NewAsks DEF ChildAsks, Write
<1>5. asked[s] \in Nat /\ asked[s] + 1 # asked[s]
  BY DEF TypeOK, TalkType
<1>6. QED
  BY <1>1, <1>2, <1>3, <1>4, <1>5, LineCases

-----------------------------------------------------------------------------
(* What is pending and what is answered *)

\* The functions of the talk, and who may be in it.
LEMMA TalkDomains ==
  ASSUME TypeOK
  PROVE  /\ pending \in [Sessions -> Nat] /\ asked \in [Sessions -> Nat]
         /\ replies \in [Sessions -> Seq(Reply)] /\ DOMAIN queue = Sessions
BY DEF TypeOK, TurnType, TalkType, LinkType

\* A step of a session's thread leaves the others alone.
LEMMA Elsewhere ==
  ASSUME TypeOK, NEW s \in Sessions, Main(s) \/ Worker(s) \/ Wait(s),
         NEW t \in Sessions, t # s
  PROVE  UNCHANGED <<pc[t], active[t], pending[t], spawned[t], replies[t], process[t]>>
<1>1. CASE Main(s)
  BY <1>1, Domains, TalkDomains
     DEF Main, CallStart, Spawn, CallClose, CallSubmit, Submit, Cancel, CancelAnswer,
         AnswerPermission, CancelForget, Terminate, Kill, Drop, turnVars, linkVars,
         childVars, talkVars
<1>2. CASE Worker(s)
  BY <1>2, Domains, TalkDomains
     DEF Worker, TakeJob, TakeAndSpawn, Spawn, Prompt, Request, FinishJob, Respond,
         AnswerPermission, Resume, Refuse, linkVars, childVars, talkVars
<1>3. CASE Wait(s)
  BY <1>3, Domains, TalkDomains
     DEF Wait, GiveUp, Raise, Abandon, FinishJob, ReadFailure, ReadAndContinue,
         AnswerPermission, ReadPermission, ReadInitialized, Request, ReadUnusable,
         ReadCreated, ReadCompleted, turnVars, linkVars, childVars, talkVars
<1>4. QED
  BY <1>1, <1>2, <1>3

\* Children and the end of the server say nothing for the client.
LEMMA Silent ==
  ASSUME TypeOK, NEW t \in Sessions,
         \/ \E c \in Children : ReadLine(c) \/ Child(c)
         \/ Exit \/ CloseAll \/ UNCHANGED vars
  PROVE  UNCHANGED <<pc[t], active[t], pending[t], spawned[t], replies[t]>>
BY DEF ReadLine, Child, ChildAnswers, ChildAsks, ChildWritesNoise, ChildExits, Exit,
       CloseAll, vars, turnVars, linkVars, childVars, talkVars

\* One answer "cancelled" grants nothing.
LEMMA Declined ==
  ASSUME TypeOK, NEW s \in Sessions, NEW k \in Nat, AnswerPermission(s, k, "cancelled"),
         GrantsOnce(replies[s])
  PROVE  /\ Grants(replies'[s]) = Grants(replies[s]) /\ GrantsOnce(replies'[s])
         /\ Answers(replies'[s]) = Answers(replies[s]) \cup {k}
<1> DEFINE a == [ask |-> k, outcome |-> "cancelled"]
<1>1. a \in Reply /\ a.outcome # "selected" /\ a.ask = k
  BY DEF Reply
<1>2. replies'[s] = Append(replies[s], a)
  BY TalkDomains DEF AnswerPermission
<1> HIDE DEF a
<1>3. replies[s] \in Seq(Reply)
  BY TalkDomains
<1>4. QED
  BY <1>1, <1>2, <1>3, AppendGrants

\* A grant goes to what is pending.
LEMMA Granting ==
  ASSUME TypeOK, NEW s \in Sessions, Respond(s), PendingOfTurn(s), GrantsOnce(replies[s])
  PROVE  /\ Grants(replies'[s]) = Grants(replies[s]) \cup {pending[s]}
         /\ GrantsOnce(replies'[s]) /\ Answers(replies[s]) \subseteq Answers(replies'[s])
<1> DEFINE a == [ask |-> pending[s], outcome |-> "selected"]
<1>1. a \in Reply /\ a.outcome = "selected" /\ a.ask = pending[s]
  BY TalkDomains DEF Reply
<1>2. replies'[s] = Append(replies[s], a) /\ pc[s] # "resume"
  BY TalkDomains DEF Respond, AnswerPermission
<1> HIDE DEF a
<1>3. replies[s] \in Seq(Reply) /\ pending[s] \notin Grants(replies[s])
  BY <1>2, TalkDomains DEF PendingOfTurn
<1>4. QED
  BY <1>1, <1>2, <1>3, AppendGrants

\* What a step does to the talk of a session: only a request read becomes pending,
\* and only respond() grants.
LEMMA TalkCases ==
  ASSUME TypeOK, NEW s \in Sessions, GrantsOnce(replies[s]), [Next]_vars
  PROVE  \/ /\ pending'[s] \in {pending[s], 0}
            /\ Grants(replies'[s]) = Grants(replies[s]) /\ GrantsOnce(replies'[s])
            /\ Answers(replies[s]) \subseteq Answers(replies'[s])
         \/ ReadPermission(s) \/ Respond(s)
<1> DEFINE Same == replies'[s] = replies[s] /\ pending'[s] \in {pending[s], 0}
<1>1. CASE Main(s)
  <2>1. CASE CancelAnswer(s)
    BY <2>1, Declined, TalkDomains DEF CancelAnswer
  <2>2. CASE ~CancelAnswer(s)
    <3>1. Same
      BY <1>1, <2>2, TalkDomains
         DEF Main, CallStart, Spawn, CallClose, CallSubmit, Cancel, CancelForget,
             Terminate, Drop, turnVars, talkVars
    <3>2. QED
      BY <3>1
  <2>3. QED
    BY <2>1, <2>2
<1>2. CASE Worker(s)
  <2>1. CASE Respond(s)
    BY <2>1
  <2>2. CASE ~Respond(s)
    <3>1. Same
      BY <1>2, <2>2, TalkDomains
         DEF Worker, TakeJob, TakeAndSpawn, Spawn, Prompt, Resume, Refuse, talkVars
    <3>2. QED
      BY <3>1
  <2>3. QED
    BY <2>1, <2>2
<1>3. CASE Wait(s)
  <2>1. CASE ReadAndContinue(s)
    <3>1. Line(s).id \in Nat
      BY <2>1, ReadType DEF ReadAndContinue, TypeOK, Message
    <3>2. QED
      BY <2>1, <3>1, Declined, TalkDomains DEF ReadAndContinue, turnVars
  <2>2. CASE ReadPermission(s)
    BY <2>2
  <2>3. CASE ~ReadAndContinue(s) /\ ~ReadPermission(s)
    <3>1. Same
      BY <1>3, <2>3, TalkDomains
         DEF Wait, GiveUp, ReadFailure, ReadInitialized, ReadUnusable, ReadCreated,
             ReadCompleted, talkVars
    <3>2. QED
      BY <3>1
  <2>4. QED
    BY <2>1, <2>2, <2>3
<1>4. ASSUME NEW t \in Sessions, t # s, Main(t) \/ Worker(t) \/ Wait(t)
      PROVE  Same
  BY <1>4, Elsewhere
<1>5. ASSUME \/ \E c \in Children : ReadLine(c) \/ Child(c)
             \/ Exit \/ CloseAll \/ UNCHANGED vars
      PROVE  Same
  BY <1>5, Silent
<1>6. CASE Same
  BY <1>6
<1> HIDE DEF Same
<1>7. QED
  BY <1>1, <1>2, <1>3, <1>4, <1>5, <1>6 DEF Next

\* The thread of a session changes what is pending with its turn.
LEMMA PendingStep ==
  ASSUME TypeOK, Lineage, Held, NEW s \in Sessions, PendingOfTurn(s), Unseen(s), Apart(s),
         GrantsOnce(replies[s]), [Next]_vars
  PROVE  PendingOfTurn(s)'
<1> DEFINE granted == Grants(replies[s])
<1>0. /\ pending[s] \in Nat /\ asked[s] \in Nat /\ asked'[s] \in {asked[s], asked[s] + 1}
      /\ spawned[s] \in 0..2 /\ active[s] \in Nat /\ granted \subseteq 1..asked[s]
      /\ 0 \notin granted
  BY TalkDomains, Domains, AsksMove DEF PendingOfTurn
<1>1. spawned[s] = 0 => asked'[s] = asked[s]
  <2>1. \A c \in alive : c[1] = s => spawned[s] # 0
    BY DEF Held, TypeOK, ChildType, Children, Generations
  <2>2. QED
    BY <2>1, AsksMove
<1>2. ASSUME UNCHANGED <<pc[s], active[s], pending[s], spawned[s], replies[s]>>
      PROVE  PendingOfTurn(s)'
  BY <1>0, <1>1, <1>2 DEF PendingOfTurn
<1>3. ASSUME UNCHANGED <<active[s], pending[s]>>, pc[s] # "resume",
             Grants(replies'[s]) = granted,
             pc'[s] \notin {"session/prompt", "resume"}, spawned[s] # 0 => spawned'[s] # 0,
             asked'[s] = asked[s]
      PROVE  PendingOfTurn(s)'
  BY <1>0, <1>3 DEF PendingOfTurn
<1>4. CASE Main(s)
  <2>1. CASE CallStart(s)
    <3>1. pc[s] = "none"
      BY <2>1 DEF CallStart, Lineage, Driven, Ancestry
    <3>2. /\ UNCHANGED <<active, pending, replies, asked>>
          /\ pc'[s] = "initialize" /\ spawned'[s] = spawned[s] + 1
      BY <2>1, Domains DEF CallStart, Spawn, talkVars
    <3>3. QED
      BY <1>0, <1>3, <3>1, <3>2
  <2>2. CASE CancelAnswer(s)
    <3>1. UNCHANGED <<pc, active, pending, spawned, asked>>
      BY <2>2 DEF CancelAnswer, childVars
    <3>2. Grants(replies'[s]) = granted
      BY <2>2, Declined, TalkDomains DEF CancelAnswer
    <3>3. QED
      BY <3>1, <3>2 DEF PendingOfTurn
  <2>3. CASE CancelForget(s)
    <3>1. pending'[s] = 0 /\ UNCHANGED <<pc, active, spawned, asked, replies>>
      BY <2>3, TalkDomains DEF CancelForget, childVars, talkVars
    <3>2. QED
      BY <1>0, <3>1 DEF PendingOfTurn
  <2>4. CASE ~CallStart(s) /\ ~CancelAnswer(s) /\ ~CancelForget(s)
    BY <1>2, <1>4, <2>4
       DEF Main, CallClose, CallSubmit, Cancel, Terminate, Drop, turnVars, childVars,
           talkVars
  <2>5. QED
    BY <2>1, <2>2, <2>3, <2>4
<1>5. CASE Worker(s)
  <2>1. CASE TakeJob(s) \/ TakeAndSpawn(s)
    <3>1. pc[s] = "none"
      BY <2>1, TakeLineage DEF TakeJob, TakeAndSpawn, Lineage, Driven, TypeOK
    <3>2. /\ UNCHANGED <<active, pending, replies, asked>>
          /\ pc'[s] \notin {"session/prompt", "resume"}
          /\ spawned'[s] \in {spawned[s], spawned[s] + 1}
      BY <2>1, Domains DEF TakeJob, TakeAndSpawn, Spawn, talkVars, childVars
    <3>3. QED
      BY <1>0, <1>3, <3>1, <3>2
  <2>2. CASE Prompt(s)
    <3>1. /\ pending'[s] = 0 /\ active'[s] = nextId[s] /\ nextId[s] # 0
          /\ pc'[s] \in {"session/prompt", "none"} /\ UNCHANGED <<spawned, asked, replies>>
      BY <2>2, Domains, TalkDomains DEF Prompt, FinishJob, talkVars
    <3>2. QED
      BY <1>0, <3>1 DEF PendingOfTurn
  <2>3. CASE Respond(s)
    <3>1. /\ pc'[s] = "resume" /\ pending[s] # 0 /\ active[s] # 0
          /\ UNCHANGED <<pending, active, spawned, asked>>
      BY <2>3, Domains DEF Respond, CanRespond, childVars
    <3>2. Grants(replies'[s]) = granted \cup {pending[s]}
      BY <2>3, Granting
    <3>3. QED
      BY <1>0, <3>1, <3>2 DEF PendingOfTurn
  <2>4. CASE Resume(s)
    <3>1. /\ pc[s] = "resume" /\ pc'[s] = "session/prompt" /\ pending'[s] = 0
          /\ UNCHANGED <<active, spawned, asked, replies>>
      BY <2>4, Domains, TalkDomains DEF Resume, childVars, talkVars
    <3>2. QED
      BY <1>0, <3>1 DEF PendingOfTurn
  <2>5. CASE Refuse(s)
    <3>1. /\ pc[s] # "resume" /\ pc'[s] = "none"
          /\ UNCHANGED <<active, pending, spawned, asked, replies>>
      BY <2>5, Domains DEF Refuse, FinishJob, childVars, talkVars
    <3>2. QED
      BY <1>3, <3>1
  <2>6. QED
    BY <1>5, <2>1, <2>2, <2>3, <2>4, <2>5 DEF Worker
<1>6. CASE Wait(s)
  <2>1. CASE ReadAndContinue(s)
    <3>1. Line(s).id \in Nat
      BY <2>1, ReadType DEF ReadAndContinue, TypeOK, Message
    <3>2. Grants(replies'[s]) = granted
      BY <2>1, <3>1, Declined, TalkDomains DEF ReadAndContinue
    <3>3. UNCHANGED <<pc, active, pending, spawned, asked>>
      BY <2>1 DEF ReadAndContinue, turnVars, childVars
    <3>4. QED
      BY <3>2, <3>3 DEF PendingOfTurn
  <2>2. CASE ReadPermission(s)
    <3>1. /\ pc[s] = "session/prompt" /\ pc'[s] = "none" /\ Line(s).kind = "ask"
          /\ pending'[s] = Line(s).id /\ UNCHANGED <<active, spawned, asked, replies>>
      BY <2>2, Domains, TalkDomains DEF ReadPermission, FinishJob, childVars, talkVars
    <3>2. Line(s) \in OnWay(s)
      BY <2>2, <3>1, ReadAsks, PipesSame DEF ReadPermission, childVars
    <3>3. Line(s).id \in 1..asked[s] /\ Line(s).id \notin granted
      BY <3>2 DEF Unseen
    <3>4. QED
      BY <1>0, <3>1, <3>3 DEF PendingOfTurn
  <2>3. CASE ReadCompleted(s)
    <3>1. /\ pc[s] = "session/prompt" /\ pc'[s] = "none" /\ active'[s] = 0
          /\ UNCHANGED <<pending, spawned, asked, replies>>
      BY <2>3, Domains DEF ReadCompleted, FinishJob, childVars, talkVars
    <3>2. QED
      BY <1>0, <3>1 DEF PendingOfTurn
  <2>4. CASE GiveUp(s) \/ ReadFailure(s) \/ ReadInitialized(s) \/ ReadUnusable(s)
             \/ ReadCreated(s)
    <3>1. /\ pc[s] # "resume" /\ pc'[s] \in {"none", "session/new", "prompt"}
          /\ UNCHANGED <<active, pending, spawned, asked, replies>>
      BY <2>4, Domains
         DEF GiveUp, ReadFailure, ReadInitialized, ReadUnusable, ReadCreated, Raise,
             Abandon, FinishJob, Read, Waiting, childVars, talkVars
    <3>2. QED
      BY <1>3, <3>1
  <2>5. QED
    BY <1>6, <2>1, <2>2, <2>3, <2>4 DEF Wait
<1>7. ASSUME NEW t \in Sessions, t # s, Main(t) \/ Worker(t) \/ Wait(t)
      PROVE  PendingOfTurn(s)'
  BY <1>2, <1>7, Elsewhere
<1>8. ASSUME \/ \E c \in Children : ReadLine(c) \/ Child(c)
             \/ Exit \/ CloseAll \/ UNCHANGED vars
      PROVE  PendingOfTurn(s)'
  BY <1>2, <1>8, Silent
<1>9. QED
  BY <1>4, <1>5, <1>6, <1>7, <1>8 DEF Next

\* A request that is on its way is neither pending nor granted.
LEMMA UnseenStep ==
  ASSUME TypeOK, NEW s \in Sessions, PendingOfTurn(s), GrantsOnce(replies[s]), Apart(s),
         Unseen(s), [Next]_vars
  PROVE  Unseen(s)' /\ GrantsOnce(replies[s])'
<1>1. /\ pending[s] \in 0..asked[s] /\ asked[s] \in Nat
      /\ Grants(replies[s]) \subseteq 1..asked[s]
  BY TalkDomains DEF PendingOfTurn
<1>2. CASE ReadPermission(s)
  <2>1. /\ pending'[s] = Line(s).id /\ Line(s).kind = "ask"
        /\ replies' = replies /\ asked' = asked /\ PipesQuiet(s) /\ Read(s)
    BY <1>2, TalkDomains, PipesSame DEF ReadPermission, childVars, talkVars
  <2>2. /\ OnWay(s)' \subseteq OnWay(s) /\ Line(s) \in OnWay(s) /\ Line(s) \notin OnWay(s)'
    BY <2>1, ReadAsks
  <2>3. \A m \in OnWay(s)' : m = Ask(m.id) /\ m # Line(s) /\ Line(s) = Ask(Line(s).id)
    BY <2>2 DEF Unseen
  <2>4. \A m \in OnWay(s)' : m.id # pending'[s]
    BY <2>1, <2>3
  <2>5. QED
    BY <2>1, <2>2, <2>4 DEF Unseen
<1>3. CASE Respond(s)
  <2>1. UNCHANGED <<queue, pipe, pending, asked>>
    BY <1>3 DEF Respond, linkVars, childVars
  <2>2. OnWay(s)' = OnWay(s)
    BY <2>1 DEF OnWay
  <2>3. QED
    BY <1>3, <2>1, <2>2, Granting DEF Unseen
<1>4. CASE /\ pending'[s] \in {pending[s], 0}
           /\ Grants(replies'[s]) = Grants(replies[s]) /\ GrantsOnce(replies'[s])
  <2>1. CASE asked'[s] = asked[s]
    <3>1. OnWay(s)' \subseteq OnWay(s)
      BY <2>1, AsksMove
    <3>2. \A m \in OnWay(s)' : m = Ask(m.id) /\ m.id \in 1..asked[s] /\ m.id # pending[s]
                               /\ m.id \notin Grants(replies[s]) /\ m.id # 0
      BY <1>1, <3>1 DEF Unseen
    <3>3. QED
      BY <1>4, <2>1, <3>2 DEF Unseen
  <2>2. CASE asked'[s] = asked[s] + 1
    <3> DEFINE new == Ask(asked[s] + 1)
    <3>1. new = Ask(new.id) /\ new.id = asked[s] + 1
      BY DEF Ask
    <3>2. OnWay(s)' \subseteq OnWay(s) \cup {new}
      BY AsksMove
    <3> HIDE DEF new
    <3>3. new.id \in 1..asked'[s] /\ new.id # pending[s] /\ new.id # 0
          /\ new.id \notin Grants(replies[s])
      BY <1>1, <2>2, <3>1
    <3>4. \A m \in OnWay(s) :
            /\ m = Ask(m.id) /\ m.id \in 1..asked'[s] /\ m.id # pending[s] /\ m.id # 0
            /\ m.id \notin Grants(replies[s])
      BY <1>1, <2>2 DEF Unseen
    <3>5. QED
      BY <1>4, <3>1, <3>2, <3>3, <3>4 DEF Unseen
  <2>3. QED
    BY <2>1, <2>2, AsksMove
<1>5. QED
  BY <1>2, <1>3, <1>4, TalkCases

\* The first child of a session that lives did so before, or asked nothing yet.
LEMMA LivesStep ==
  ASSUME TypeOK, Lineage, Held, NEW s \in Sessions, [Next]_vars, Lives(s)'
  PROVE  Lives(s) \/ spawned[s] = 0
<1>0. /\ process'[s] = 1 /\ <<s, 1>> \in alive' /\ ~(target' = s /\ main' \in Closing)
  BY DEF Lives, Running, Current
<1>1. ASSUME process'[s] = process[s], alive' \subseteq alive,
             target = s /\ main \in Closing => target' = s /\ main' \in Closing
      PROVE  Lives(s)
  BY <1>0, <1>1 DEF Lives, Running, Current
<1>2. ASSUME NEW t \in Sessions, Spawn(t), main \notin Closing \/ UNCHANGED <<main, target>>,
             t = s => spawned[s] = 0 \/ spawned[s] = 1
      PROVE  Lives(s) \/ spawned[s] = 0
  <2>1. CASE t = s
    BY <1>0, <1>2, <2>1, Domains DEF Spawn
  <2>2. CASE t # s
    <3>1. process'[s] = process[s] /\ <<s, 1>> \in alive
      BY <1>0, <1>2, <2>2, Domains DEF Spawn
    <3>2. QED
      BY <1>0, <1>2, <3>1 DEF Lives, Running, Current
  <2>3. QED
    BY <2>1, <2>2
<1>3. ASSUME NEW t \in Sessions, Main(t)
      PROVE  Lives(s) \/ spawned[s] = 0
  <2>1. CASE CallStart(t)
    BY <1>2, <2>1 DEF CallStart, Closing
  <2>2. CASE CallClose(t) \/ \E what \in Operations : CallSubmit(t, what)
    BY <1>1, <2>2 DEF CallClose, CallSubmit, Closing, mainVars, linkVars, childVars
  <2>3. CASE Cancel(t) \/ CancelAnswer(t) \/ CancelForget(t) \/ Terminate(t)
    BY <1>1, <2>3 DEF Cancel, CancelAnswer, CancelForget, Terminate, Kill, Closing,
                      linkVars, childVars
  <2>4. CASE Drop(t)
    BY <1>0, <1>1, <2>4, Domains DEF Drop, childVars
  <2>5. QED
    BY <1>3, <2>1, <2>2, <2>3, <2>4 DEF Main
<1>4. ASSUME NEW t \in Sessions, Worker(t)
      PROVE  Lives(s) \/ spawned[s] = 0
  <2>1. CASE TakeAndSpawn(t)
    <3>1. Spawn(t) /\ UNCHANGED <<main, target>> /\ spawned[t] # 2
      BY <2>1, TakeLineage DEF TakeAndSpawn, Take, mainVars, TypeOK
    <3>2. QED
      BY <1>2, <3>1, Domains
  <2>2. CASE ~TakeAndSpawn(t)
    BY <1>1, <1>4, <2>2
       DEF Worker, TakeJob, Take, Prompt, Respond, Resume, Refuse, mainVars, linkVars,
           childVars
  <2>3. QED
    BY <2>1, <2>2
<1>5. ASSUME NEW t \in Sessions, Wait(t)
      PROVE  Lives(s)
  <2>1. pc[t] # "none" /\ alive' \subseteq alive
    BY <1>5 DEF Wait, GiveUp, ReadFailure, ReadAndContinue, ReadPermission,
                ReadInitialized, ReadUnusable, ReadCreated, ReadCompleted, Read, Waiting,
                Kill, childVars
  <2>2. UNCHANGED <<main, target>> \/ (job[t] # "running" /\ main' = "idle")
    BY <1>5 DEF Wait, GiveUp, ReadFailure, ReadAndContinue, ReadPermission,
                ReadInitialized, ReadUnusable, ReadCreated, ReadCompleted, Raise,
                Abandon, mainVars
  <2>3. UNCHANGED <<main, target>> \/ main \notin Closing
    BY <2>1, <2>2 DEF Lineage, Driven, Closing
  <2>4. process'[s] \in {process[s], 0}
    BY <1>5, Domains
       DEF Wait, GiveUp, ReadFailure, ReadAndContinue, ReadPermission, ReadInitialized,
           ReadUnusable, ReadCreated, ReadCompleted, linkVars
  <2>5. QED
    BY <1>0, <1>1, <2>1, <2>3, <2>4
<1>6. ASSUME NEW c \in Children, ReadLine(c) \/ Child(c)
      PROVE  Lives(s)
  BY <1>1, <1>6
     DEF ReadLine, Child, ChildAnswers, ChildAsks, ChildWritesNoise, ChildExits, Kill,
         Write, mainVars, linkVars
<1>7. CASE CloseAll
  <2>1. process'[s] \in {process[s], 0} /\ alive' \subseteq alive /\ main \notin Closing
    BY <1>7 DEF CloseAll, Kill, Closing
  <2>2. QED
    BY <1>0, <1>1, <2>1
<1>8. CASE Exit \/ UNCHANGED vars
  BY <1>1, <1>8 DEF Exit, Closing, vars, mainVars, linkVars, childVars
<1>9. QED
  BY <1>3, <1>4, <1>5, <1>6, <1>7, <1>8 DEF Next

\* What is pending for a child that lives stays pending or was answered.
LEMMA PendingKept ==
  ASSUME TypeOK, Lineage, NEW s \in Sessions, PendingOfTurn(s), GrantsOnce(replies[s]),
         [Next]_vars, Lives(s)', pending[s] # 0
  PROVE  pending'[s] = pending[s] \/ pending[s] \in Answers(replies'[s])
<1>1. CASE Main(s)
  <2>1. CASE CancelForget(s)
    BY <2>1 DEF CancelForget, Lives, Closing
  <2>2. CASE ~CancelForget(s)
    BY <1>1, <2>2
       DEF Main, CallStart, Spawn, CallClose, CallSubmit, Cancel, CancelAnswer, Terminate,
           Drop, turnVars
  <2>3. QED
    BY <2>1, <2>2
<1>2. CASE Worker(s)
  <2>1. CASE Prompt(s)
    BY <2>1 DEF Prompt, PendingOfTurn
  <2>2. CASE Resume(s)
    <3>1. pending[s] \in Grants(replies[s]) /\ replies' = replies
      BY <2>2 DEF Resume, PendingOfTurn, talkVars
    <3>2. QED
      BY <3>1 DEF Grants, Answers
  <2>3. CASE ~Prompt(s) /\ ~Resume(s)
    BY <1>2, <2>3 DEF Worker, TakeJob, TakeAndSpawn, Spawn, Respond, Refuse
  <2>4. QED
    BY <2>1, <2>2, <2>3
<1>3. CASE Wait(s)
  <2>1. CASE ReadPermission(s)
    BY <2>1 DEF ReadPermission, PendingOfTurn
  <2>2. CASE ~ReadPermission(s)
    BY <1>3, <2>2
       DEF Wait, GiveUp, ReadFailure, ReadAndContinue, ReadInitialized, ReadUnusable,
           ReadCreated, ReadCompleted, turnVars
  <2>3. QED
    BY <2>1, <2>2
<1>4. ASSUME NEW t \in Sessions, t # s, Main(t) \/ Worker(t) \/ Wait(t)
      PROVE  pending'[s] = pending[s]
  BY <1>4, Elsewhere
<1>5. ASSUME \/ \E c \in Children : ReadLine(c) \/ Child(c)
             \/ Exit \/ CloseAll \/ UNCHANGED vars
      PROVE  pending'[s] = pending[s]
  BY <1>5, Silent
<1>6. QED
  BY <1>1, <1>2, <1>3, <1>4, <1>5 DEF Next

\* A request that is read from a child that lives becomes pending or is declined.
LEMMA ReadKept ==
  ASSUME TypeOK, NEW s \in Sessions, GrantsOnce(replies[s]), Reads(s), Lives(s), NEW k \in Nat,
         Line(s) = Ask(k)
  PROVE  pending'[s] = k \/ k \in Answers(replies'[s]) \/ ~Lives(s)'
<1>1. Line(s).kind = "ask" /\ Line(s).id = k /\ Running(s)
  BY DEF Ask, Lives
<1>2. ReadPermission(s) \/ ReadAndContinue(s)
  BY <1>1 DEF Reads, ReadFailure, ReadInitialized, ReadUnusable, ReadCreated,
              ReadCompleted, IsAnswer
<1>3. CASE ReadPermission(s)
  BY <1>1, <1>3, TalkDomains DEF ReadPermission
<1>4. CASE ReadAndContinue(s)
  BY <1>1, <1>4, Declined DEF ReadAndContinue
<1>5. QED
  BY <1>2, <1>3, <1>4

\* Answers are kept.
LEMMA AnswersKept ==
  ASSUME TypeOK, NEW s \in Sessions, PendingOfTurn(s), GrantsOnce(replies[s]), [Next]_vars
  PROVE  Answers(replies[s]) \subseteq Answers(replies'[s])
BY TalkCases, Granting DEF ReadPermission, talkVars

\* No request of a child that lives is lost.
LEMMA KeptStep ==
  ASSUME TypeOK, Lineage, Held, NEW s \in Sessions, Permits(s), [Next]_vars
  PROVE  Kept(s)'
<1> USE DEF Permits
<1>1. SUFFICES ASSUME Lives(s)', NEW k \in 1..asked'[s]
               PROVE  \/ Ask(k) \in Shown(s)' \/ pending'[s] = k
                      \/ k \in Answers(replies'[s])
  BY DEF Kept
<1>2. asked[s] \in Nat /\ asked'[s] \in {asked[s], asked[s] + 1} /\ k \in Nat /\ k # 0
  <2>1. asked[s] \in Nat
    BY TalkDomains
  <2>2. asked'[s] \in {asked[s], asked[s] + 1}
    BY AsksMove
  <2>3. QED
    BY <2>1, <2>2
<1>3. Lives(s)
  <2>1. \A c \in alive : c[1] = s => spawned[s] # 0
    BY DEF Held, TypeOK, ChildType, Children, Generations
  <2>2. asked'[s] # asked[s] => \E c \in alive : c[1] = s
    BY AsksMove
  <2>3. spawned[s] = 0 => asked[s] = 0
    BY DEF PendingOfTurn
  <2>4. spawned[s] # 0
    BY <1>2, <2>1, <2>2, <2>3
  <2>5. QED
    BY <1>1, <2>4, LivesStep
<1>4. CASE k \in 1..asked[s]
  <2>1. CASE Ask(k) \in Shown(s)
    <3>1. Ask(k) \in Shown(s)' \/ (Reads(s) /\ Line(s) = Ask(k))
      BY <2>1, AsksMove
    <3>2. QED
      BY <1>1, <1>2, <1>3, <3>1, ReadKept
  <2>2. CASE pending[s] = k
    BY <1>1, <1>2, <2>2, PendingKept
  <2>3. CASE k \in Answers(replies[s])
    BY <2>3, AnswersKept
  <2>4. QED
    BY <1>3, <1>4, <2>1, <2>2, <2>3 DEF Kept
<1>5. CASE k \notin 1..asked[s]
  <2>1. asked'[s] # asked[s] /\ k = asked[s] + 1
    BY <1>1, <1>2, <1>5
  <2>2. PICK c \in alive : c[1] = s /\ (c[2] = 1 => Ask(k) \in Shown(s)')
    BY <2>1, AsksMove
  <2>3. c[2] = 1
    BY <1>3, <2>2 DEF Lives, Held
  <2>4. QED
    BY <2>2, <2>3
<1>6. QED
  BY <1>4, <1>5

-----------------------------------------------------------------------------
\* The inductive invariant of the permissions.
PermissionInvariant == TypeOK /\ Lineage /\ Held /\ Permissions

\* It holds forever.
LEMMA PermissionInvariance == Spec => []PermissionInvariant
<1>1. Init => PermissionInvariant
  <2>1. Asks(<< >>) = {} /\ Once(<< >>) /\ Grants(<< >>) = {} /\ GrantsOnce(<< >>)
    BY DEF Asks, ToSet, Once, Grants, GrantsOnce
  <2>2. ASSUME Init, NEW s \in Sessions
        PROVE  Permits(s)
    <3>1. /\ queue[s] = << >> /\ pipe[<<s, 1>>] = << >> /\ pipe[<<s, 2>>] = << >>
          /\ replies[s] = << >> /\ pending[s] = 0 /\ asked[s] = 0 /\ pc[s] = "none"
          /\ process[s] = 0
      BY <2>2 DEF Init, Children, Generations
    <3>2. PendingOfTurn(s) /\ Apart(s) /\ Unseen(s) /\ Kept(s)
      BY <2>1, <3>1 DEF PendingOfTurn, Apart, Unseen, OnWay, Kept, Lives
    <3>3. QED
      BY <2>1, <3>1, <3>2 DEF Permits
  <2>3. Init => Held
    BY DEF Init, Held
  <2>4. QED
    BY <2>2, <2>3, TypeInit, LineageInit DEF PermissionInvariant, Permissions
<1>2. PermissionInvariant /\ [Next]_vars => PermissionInvariant'
  <2>1. ASSUME TypeOK, Lineage, Held, NEW s \in Sessions, Permits(s), [Next]_vars
        PROVE  Permits(s)'
    <3>1. PendingOfTurn(s)' /\ Unseen(s)' /\ GrantsOnce(replies[s])' /\ Apart(s)'
      BY <2>1, PendingStep, UnseenStep, AsksMove DEF Permits
    <3>2. Kept(s)'
      BY <2>1, KeptStep
    <3>3. QED
      BY <3>1, <3>2 DEF Permits
  <2>2. QED
    BY <2>1, TypeStep, LineageStep, HeldStep DEF PermissionInvariant, Permissions
<1>3. QED
  BY <1>1, <1>2, PTL DEF Spec

\* No permission request is granted twice, however respond calls, cancel() and further
\* requests interleave (acp_session.py:188-213, 238-254).
THEOREM PermissionGrantedOnce == Spec => []GrantedOnce
<1>1. PermissionInvariant => GrantedOnce
  BY DEF PermissionInvariant, Permissions, Permits, GrantsOnce, GrantedOnce
<1>2. QED
  BY <1>1, PermissionInvariance, PTL

\* A child that waits for a permission waits visibly: until a close() of its session
\* begins, its request is on its way, pending or answered.
THEOREM NoRequestLost == Spec => []PermissionKept
<1>1. ASSUME PermissionInvariant
      PROVE  PermissionKept
  <2>1. SUFFICES ASSUME NEW s \in registered \ {target}, Running(s), NEW k \in 1..asked[s]
                 PROVE  \/ InTransit(s, k) \/ pending[s] = k
                        \/ \E i \in DOMAIN replies[s] : replies[s][i].ask = k
    BY DEF PermissionKept
  <2>2. s \in Sessions /\ process[s] = 1
    BY <1>1 DEF PermissionInvariant, TypeOK, MainType, Lineage, Ancestry
  <2>3. Lives(s)
    BY <2>1, <2>2 DEF Lives
  <2>4. Ask(k) \in Shown(s) \/ pending[s] = k \/ k \in Answers(replies[s])
    BY <1>1, <2>2, <2>3 DEF PermissionInvariant, Permissions, Permits, Kept
  <2>5. Ask(k) \in Shown(s) => InTransit(s, k)
    BY <2>2 DEF Shown, Asks, ToSet, InTransit, Current
  <2>6. QED
    BY <2>4, <2>5 DEF Answers
<1>2. QED
  BY <1>1, PermissionInvariance, PTL

-----------------------------------------------------------------------------
(* The runner implements the contract of its sessions *)

\* What the sessions are known to keep.
Sound == TurnInvariant /\ PermissionInvariant /\ Pool

\* It holds forever.
LEMMA SoundAlways == Spec => []Sound
<1>1. Init /\ TypeOK => Pool
  <2>1. Init => Counted = {} /\ AtWork = {} /\ target = "none"
    BY DEF Init, Counted, AtWork
  <2>2. Cardinality({}) = 0 /\ 0 <= MaxParallel
    BY FS_EmptySet, BoundsAssumption
  <2>3. QED
    BY <2>1, <2>2 DEF Pool, PoolBounded, Counted, AtWork
<1>2. TypeOK /\ Lineage /\ Pool /\ [Next]_vars => Pool'
  BY PoolStep
<1>3. Init => TypeOK
  BY TypeInit
<1>4. TurnInvariant => TypeOK /\ Lineage
  BY DEF TurnInvariant
<1>5. QED
  BY <1>1, <1>2, <1>3, <1>4, TurnInvariance, PermissionInvariance, PTL DEF Spec, Sound

\* What a step of a session's thread leaves alone in another session.
LEMMA Bystanders ==
  ASSUME Sound, NEW s \in Sessions, Main(s) \/ Worker(s) \/ Wait(s),
         NEW t \in Sessions, t # s
  PROVE  /\ UNCHANGED <<state[t], pc[t], active[t], pending[t], spawned[t], job[t]>>
         /\ t \in registered' <=> t \in registered
         /\ target' = t <=> target = t
<1> USE DEF Sound, TurnInvariant
<1>1. UNCHANGED <<pc[t], active[t], pending[t], spawned[t]>>
  BY Elsewhere
<1>2. CASE Main(s)
  <2>1. main = "idle" => target = "none"
    BY DEF Pool
  <2>2. /\ UNCHANGED <<state[t], job[t]>>
        /\ t \in registered' <=> t \in registered
    BY <1>2, Domains
       DEF Main, CallStart, Spawn, CallSubmit, Submit, CallClose, Cancel, CancelAnswer,
           CancelForget, Terminate, Drop, mainVars, jobVars, turnVars
  <2>3. (target' = t <=> target = t)
    BY <1>2, <2>1, SessionsAssumption
       DEF Main, CallStart, CallSubmit, CallClose, Cancel, CancelAnswer, CancelForget,
           Terminate, Drop, mainVars
  <2>4. QED
    BY <1>1, <2>2, <2>3
<1>3. CASE Worker(s)
  <2>1. UNCHANGED <<registered, target>>
    BY <1>3 DEF Worker, TakeJob, TakeAndSpawn, Take, Prompt, Respond, Resume, Refuse,
                mainVars
  <2>2. UNCHANGED <<state[t], job[t]>>
    BY <1>3, Domains
       DEF Worker, TakeJob, TakeAndSpawn, Take, Spawn, Prompt, FinishJob, Respond, Resume,
           Refuse, jobVars
  <2>3. QED
    BY <1>1, <2>1, <2>2
<1>4. CASE Wait(s)
  <2>1. pc[s] # "none" /\ (t \in registered' <=> t \in registered)
    BY <1>4 DEF Wait, GiveUp, ReadFailure, ReadAndContinue, ReadPermission,
                ReadInitialized, ReadUnusable, ReadCreated, ReadCompleted, Read, Waiting,
                mainVars
  <2>2. UNCHANGED target \/ (job[s] # "running" /\ target' = "none")
    BY <1>4 DEF Wait, GiveUp, ReadFailure, ReadAndContinue, ReadPermission,
                ReadInitialized, ReadUnusable, ReadCreated, ReadCompleted, Raise,
                Abandon, mainVars
  <2>3. UNCHANGED target \/ (target = s /\ target' = "none")
    BY <2>1, <2>2 DEF Lineage, Driven
  <2>4. target' = t <=> target = t
    BY <2>3, SessionsAssumption
  <2>5. UNCHANGED <<state[t], job[t]>>
    BY <1>4, Domains
       DEF Wait, GiveUp, ReadFailure, ReadAndContinue, ReadPermission, ReadInitialized,
           ReadUnusable, ReadCreated, ReadCompleted, Raise, Abandon, FinishJob, Submit,
           jobVars, turnVars
  <2>6. QED
    BY <1>1, <2>1, <2>4, <2>5
<1>5. QED
  BY <1>2, <1>3, <1>4

\* What status says of an open session is what its turn is at.
Tells(s) ==
  s \in registered /\ target # s =>
    /\ state[s] \in {"idle", "waiting_permission", "failed", "running"}
    /\ pc[s] = "session/prompt" => state[s] = "running"
    /\ pc[s] = "resume" => state[s] = "waiting_permission"
    /\ pc[s] # "session/prompt" /\ active[s] = 0 => state[s] = "idle"
    /\ pc[s] # "session/prompt" /\ pending[s] # 0 => state[s] = "waiting_permission"

Told == \A s \in Sessions : Tells(s)

\* A session that a step leaves alone tells what it told.
LEMMA TellsKept ==
  ASSUME NEW s \in Sessions, Tells(s), UNCHANGED <<state[s], pc[s], active[s], pending[s]>>,
         s \in registered' => s \in registered, target' = s <=> target = s
  PROVE  Tells(s)'
BY DEF Tells

\* The calls of the main thread: close, from its beginning, is not an open session.
LEMMA MainTells ==
  ASSUME Sound, NEW s \in Sessions, Tells(s), Main(s)
  PROVE  Tells(s)'
<1> USE DEF Sound, TurnInvariant
<1>1. CASE CallStart(s)
  BY <1>1 DEF CallStart, Tells
<1>2. CASE \E what \in Operations : CallSubmit(s, what)
  <2>1. UNCHANGED <<state, pc, active, pending, registered, target>>
    BY <1>2 DEF CallSubmit, mainVars, turnVars
  <2>2. QED
    BY <2>1, TellsKept
<1>3. CASE CallClose(s) \/ Cancel(s) \/ CancelAnswer(s) \/ CancelForget(s) \/ Terminate(s)
  BY <1>3 DEF CallClose, Cancel, CancelAnswer, CancelForget, Terminate, Tells
<1>4. CASE Drop(s)
  BY <1>4 DEF Drop, Tells
<1>5. QED
  BY <1>1, <1>2, <1>3, <1>4 DEF Main

\* The workers begin and resume turns.
LEMMA WorkerTells ==
  ASSUME Sound, NEW s \in Sessions, Tells(s), Worker(s)
  PROVE  Tells(s)'
<1> USE DEF Sound, TurnInvariant
<1>1. UNCHANGED <<registered, target>>
  BY DEF Worker, TakeJob, TakeAndSpawn, Take, Prompt, Respond, Resume, Refuse, mainVars
<1>2. SUFFICES ASSUME s \in registered, target # s PROVE Tells(s)'
  BY <1>1 DEF Tells
<1>3. process[s] = 1 /\ PendingOfTurn(s)
  BY <1>2 DEF Lineage, Ancestry, PermissionInvariant, Permissions, Permits
<1>4. CASE TakeJob(s)
  <2>1. /\ pc[s] = "none" /\ pc'[s] \in {"prompt", "respond"}
        /\ UNCHANGED <<state, active, pending>>
    BY <1>4, TakeLineage, Domains DEF TakeJob, Lineage, Driven, Ancestry, TypeOK
  <2>2. QED
    BY <1>1, <2>1 DEF Tells
<1>5. ~TakeAndSpawn(s)
  BY <1>3 DEF TakeAndSpawn
<1>6. CASE Prompt(s)
  <2>1. /\ active'[s] # 0 /\ pending'[s] = 0 /\ state'[s] = "running"
        /\ pc'[s] \in {"session/prompt", "none"}
    BY <1>6, Domains, TalkDomains DEF Prompt, FinishJob
  <2>2. QED
    BY <2>1 DEF Tells
<1>7. CASE Respond(s)
  <2>1. /\ pc[s] = "respond" /\ pc'[s] = "resume" /\ pending[s] # 0 /\ active[s] # 0
        /\ UNCHANGED <<state, active, pending>>
    BY <1>7, Domains DEF Respond, CanRespond
  <2>2. QED
    BY <1>1, <1>2, <2>1 DEF Tells
<1>8. CASE Resume(s)
  <2>1. pc'[s] = "session/prompt" /\ state'[s] = "running"
    BY <1>8, Domains DEF Resume
  <2>2. QED
    BY <2>1 DEF Tells
<1>9. CASE Refuse(s)
  <2>1. /\ pc[s] \in {"prompt", "respond"} /\ pc'[s] = "none"
        /\ UNCHANGED <<state, active, pending>>
    BY <1>9, Domains DEF Refuse, FinishJob
  <2>2. QED
    BY <1>1, <2>1 DEF Tells
<1>10. QED
  BY <1>4, <1>5, <1>6, <1>7, <1>8, <1>9 DEF Worker

\* The wait of a turn ends as the turn does.
LEMMA WaitTells ==
  ASSUME Sound, NEW s \in Sessions, Tells(s), Wait(s)
  PROVE  Tells(s)'
<1> USE DEF Sound, TurnInvariant
<1>1. s # "none" /\ PendingOfTurn(s)
  BY SessionsAssumption DEF PermissionInvariant, Permissions, Permits
<1>2. s \in registered => pc[s] \notin Starting
  BY DEF Lineage, Ancestry
<1>3. pc[s] = "session/prompt" =>
        job[s] = "running" /\ active[s] # 0 /\ pending[s] = 0
  BY <1>1, RunningJob DEF PendingOfTurn, Lineage, Starting
<1>4. CASE GiveUp(s) \/ ReadFailure(s)
  <2>1. pc[s] \in Waiting /\ UNCHANGED <<registered, active, pending>> /\ Raise(s)
    BY <1>4 DEF GiveUp, ReadFailure, Read
  <2>2. CASE pc[s] = "session/prompt"
    <3>1. pc'[s] = "none" /\ state'[s] = "failed"
      BY <1>3, <2>1, <2>2, Domains DEF Raise, Abandon, FinishJob
    <3>2. QED
      BY <1>3, <2>1, <2>2, <3>1 DEF Tells
  <2>3. CASE pc[s] # "session/prompt"
    BY <1>2, <2>1, <2>3 DEF Waiting, Starting, Tells
  <2>4. QED
    BY <2>2, <2>3
<1>5. CASE ReadAndContinue(s)
  BY <1>5, TellsKept DEF ReadAndContinue, mainVars, turnVars
<1>6. CASE ReadPermission(s)
  <2>1. pc'[s] = "none" /\ state'[s] = "waiting_permission" /\ active'[s] # 0
    BY <1>3, <1>6, Domains DEF ReadPermission, FinishJob
  <2>2. QED
    BY <2>1 DEF Tells
<1>7. CASE ReadInitialized(s) \/ ReadUnusable(s)
  <2>1. pc[s] \in Starting /\ registered' = registered
    BY <1>7 DEF ReadInitialized, ReadUnusable, Read, Waiting, Starting
  <2>2. QED
    BY <1>2, <2>1 DEF Tells
<1>8. CASE ReadCreated(s)
  <2>1. /\ pc'[s] \in {"none", "prompt"} /\ state'[s] = "idle" /\ pc[s] = "session/new"
        /\ UNCHANGED <<active, pending>>
    BY <1>8, Domains DEF ReadCreated
  <2>2. CASE job[s] = "running"
    BY <1>2, <1>8, <2>1, <2>2 DEF ReadCreated, Starting, mainVars, Tells
  <2>3. CASE job[s] # "running"
    <3>1. active[s] = 0
      BY <2>1, <2>3 DEF Lineage, Driven, Turns, Roles
    <3>2. pending[s] = 0
      BY <1>1, <3>1 DEF PendingOfTurn
    <3>3. QED
      BY <2>1, <3>2 DEF Tells
  <2>4. QED
    BY <2>2, <2>3
<1>9. CASE ReadCompleted(s)
  <2>1. /\ pc'[s] = "none" /\ state'[s] = "idle" /\ pending'[s] = 0
    BY <1>3, <1>9, Domains DEF ReadCompleted, FinishJob
  <2>2. QED
    BY <2>1 DEF Tells
<1>10. QED
  BY <1>4, <1>5, <1>6, <1>7, <1>8, <1>9 DEF Wait

\* Every step leaves the sessions telling the truth.
LEMMA ToldStep ==
  ASSUME Sound, Told, [Next]_vars
  PROVE  Told'
<1>1. ASSUME NEW s \in Sessions, Main(s) \/ Worker(s) \/ Wait(s)
      PROVE  Told'
  <2>1. Tells(s)'
    BY <1>1, MainTells, WorkerTells, WaitTells DEF Told
  <2>2. ASSUME NEW t \in Sessions \ {s} PROVE Tells(t)'
    BY <1>1, <2>2, Bystanders, TellsKept DEF Told
  <2>3. QED
    BY <2>1, <2>2 DEF Told
<1>2. CASE \/ \E c \in Children : ReadLine(c) \/ Child(c)
           \/ Exit \/ UNCHANGED vars
  <2>1. UNCHANGED <<state, pc, active, pending, registered, target>>
    BY <1>2 DEF ReadLine, Child, ChildAnswers, ChildAsks, ChildWritesNoise, ChildExits,
                Exit, vars, mainVars, turnVars
  <2>2. QED
    BY <2>1, TellsKept DEF Told
<1>3. CASE CloseAll
  BY <1>3 DEF CloseAll, Told, Tells
<1>4. QED
  BY <1>1, <1>2, <1>3 DEF Next

\* What the refinement needs to know.
Served == Sound /\ Told

\* It holds forever.
LEMMA ServedAlways == Spec => []Served
<1>1. Init => Told
  BY DEF Init, Told, Tells
<1>2. Sound /\ Told /\ [Next]_vars => Told'
  BY ToldStep
<1>3. QED
  BY <1>1, <1>2, SoundAlways, PTL DEF Spec, Served

\* The phases as a function, and what the parent sees.
Phases == [s \in Sessions |-> Phase(s)]
View == <<Phases, JobsUnderWay>>

\* A step that leaves alone what the phase of a session is made of.
LEMMA PhaseKept ==
  ASSUME NEW s \in Sessions,
         s \in registered' <=> s \in registered, target' = s <=> target = s,
         s \in registered /\ target # s =>
           state'[s] = state[s] /\ (pc'[s] = "session/prompt" <=> pc[s] = "session/prompt"),
         s \notin registered => (spawned'[s] = 0 <=> spawned[s] = 0)
  PROVE  Phase(s)' = Phase(s)
BY DEF Phase, Reported

\* What a session with no turn at its child can report.
LEMMA AtRest ==
  ASSUME Told, NEW s \in registered, s \in Sessions, target # s, pc[s] # "session/prompt"
  PROVE  /\ Phase(s) \in {"ready", "asking", "failed", "stuck"}
         /\ active[s] = 0 => Phase(s) = "ready"
         /\ pending[s] # 0 => Phase(s) = "asking"
BY DEF Told, Tells, Phase, Reported

\* One session changes its phase.
LEMMA OneMoves ==
  ASSUME NEW s \in Sessions, NEW from, NEW to, Phase(s) \in from, Phase(s)' \in to,
         \A t \in Sessions \ {s} : Phase(t)' = Phase(t)
  PROVE  Contract!Become(s, from, to)
<1>1. Phases' = [Phases EXCEPT ![s] = Phase(s)'] /\ Phases[s] = Phase(s)
  BY DEF Phases
<1>2. QED
  BY <1>1 DEF Contract!Become, Phases

\* A step that leaves every phase alone.
LEMMA NoneMoves ==
  ASSUME \A s \in Sessions : Phase(s)' = Phase(s)
  PROVE  Phases' = Phases
BY DEF Phases

\* And the jobs that are under way.
LEMMA NothingSeen ==
  ASSUME \A s \in Sessions : Phase(s)' = Phase(s), JobsUnderWay' = JobsUnderWay
  PROVE  [Contract!Next]_View
BY NoneMoves DEF View

\* A step of a session's thread leaves the phases and the jobs of the others alone.
LEMMA OthersStay ==
  ASSUME Served, NEW s \in Sessions, Main(s) \/ Worker(s) \/ Wait(s)
  PROVE  \A t \in Sessions \ {s} : Phase(t)' = Phase(t) /\ job'[t] = job[t]
BY Bystanders, PhaseKept DEF Served

\* The job of a session goes on, begins or ends.
LEMMA JobsMove ==
  ASSUME NEW s \in Sessions, \A t \in Sessions \ {s} : job'[t] = job[t]
  PROVE  /\ (job'[s] \in {"queued", "running"} <=> job[s] \in {"queued", "running"})
              => JobsUnderWay' = JobsUnderWay
         /\ job'[s] \in {"queued", "running"} => JobsUnderWay' = JobsUnderWay \cup {s}
         /\ job'[s] \notin {"queued", "running"} => JobsUnderWay' = JobsUnderWay \ {s}
BY DEF JobsUnderWay

\* A job ends that has changed nothing.
LEMMA EndsUnseen ==
  ASSUME NEW s \in Sessions, \A t \in Sessions : Phase(t)' = Phase(t), Phase(s) # "working",
         s \in JobsUnderWay, JobsUnderWay' = JobsUnderWay \ {s}
  PROVE  [Contract!Next]_View
<1>1. Contract!Refuse(s)
  BY NoneMoves DEF Contract!Refuse, Contract!Ends, Phases
<1>2. QED
  BY <1>1 DEF Contract!Next

\* The main thread opens a session, submits its jobs and closes it.
LEMMA MainMoves ==
  ASSUME Served, NEW s \in Sessions, Main(s)
  PROVE  [Contract!Next]_View
<1> USE DEF Served, Sound, TurnInvariant
<1>1. /\ \A t \in Sessions \ {s} : Phase(t)' = Phase(t)
      /\ \A t \in Sessions \ {s} : job'[t] = job[t]
  BY OthersStay
<1>2. s # "none" /\ (main = "idle" => target = "none")
  BY SessionsAssumption DEF Pool
<1>3. CASE CallStart(s)
  <2>1. /\ Phase(s) = "none" /\ Phase(s)' = "opening" /\ target = "none"
        /\ Cardinality(registered) < MaxParallel /\ JobsUnderWay' = JobsUnderWay
    BY <1>2, <1>3 DEF CallStart, Phase, Lineage, Ancestry, JobsUnderWay, jobVars
  <2>2. \A t \in Sessions : Phase(t) \in Contract!Open <=> t \in registered
    BY <2>1, SessionsAssumption DEF Phase, Reported, Contract!Open, Told, Tells
  <2>3. {t \in Sessions : [u \in Sessions |-> Phase(u)][t] \in Contract!Open} = registered
    BY <2>2, Domains
  <2>4. Contract!Become(s, {"none"}, {"opening"})
    BY <1>1, <2>1, OneMoves
  <2>5. Contract!Start(s)
    <3>1. Contract!Cardinality(registered) = Cardinality(registered)
      BY Zenon DEF Contract!Cardinality, Cardinality
    <3>2. QED
      BY <2>1, <2>3, <2>4, <3>1 DEF Contract!Start
  <2>6. QED
    BY <2>5 DEF Contract!Next
<1>4. CASE \E what \in Operations : CallSubmit(s, what)
  <2>1. /\ main = "idle" /\ s \in registered /\ job[s] \notin {"queued", "running"}
        /\ job'[s] = "queued" /\ UNCHANGED <<registered, target, state, pc, spawned>>
    BY <1>4, Domains DEF CallSubmit, Submit, mainVars, turnVars, childVars
  <2>2. target # s /\ pc[s] = "none"
    BY <1>2, <2>1 DEF Lineage, Driven
  <2>3. Phase(s) \in {"ready", "asking", "failed", "stuck"} /\ Phase(s)' = Phase(s)
    BY <2>1, <2>2, AtRest, PhaseKept
  <2>4. s \notin JobsUnderWay /\ JobsUnderWay' = JobsUnderWay \cup {s}
    BY <1>1, <2>1, JobsMove DEF JobsUnderWay
  <2>5. Contract!Submit(s)
    BY <1>1, <2>3, <2>4, NoneMoves DEF Contract!Submit, Phases
  <2>6. QED
    BY <2>5 DEF Contract!Next
<1>5. CASE CallClose(s)
  <2>1. /\ s \in registered /\ target = "none" /\ target' = s
        /\ UNCHANGED <<registered, job>>
    BY <1>2, <1>5 DEF CallClose, jobVars
  <2>2. /\ Phase(s) \in {"ready", "asking", "failed", "stuck", "working"}
        /\ Phase(s)' \in {"closing"}
    BY <1>2, <2>1, Zenon DEF Phase, Reported, Told, Tells
  <2>3. Contract!Become(s, Contract!Open \ {"opening", "closing"}, {"closing"})
    <3>1. Phase(s) \in Contract!Open \ {"opening", "closing"}
      BY <2>2 DEF Contract!Open
    <3>2. QED
      BY <1>1, <2>2, <3>1, OneMoves
  <2>4. Contract!Close(s)
    BY <2>1, <2>3 DEF Contract!Close, JobsUnderWay
  <2>5. QED
    BY <2>4 DEF Contract!Next
<1>6. CASE Cancel(s) \/ CancelAnswer(s) \/ CancelForget(s) \/ Terminate(s)
  <2>1. s \in registered /\ target = s /\ UNCHANGED <<registered, target, job>>
    BY <1>6 DEF Cancel, CancelAnswer, CancelForget, Terminate, Lineage, Driven, Closing,
                jobVars
  <2>2. Phase(s)' = Phase(s)
    BY <2>1, PhaseKept
  <2>3. QED
    BY <1>1, <2>1, <2>2, NothingSeen DEF JobsUnderWay
<1>7. CASE Drop(s)
  <2>1. /\ s \in registered /\ spawned[s] = 1 /\ s \notin registered' /\ target' # s
        /\ target = s /\ UNCHANGED <<spawned, job>>
    BY <1>2, <1>7 DEF Drop, Lineage, Driven, Ancestry, Closing, childVars, jobVars
  <2>2. Phase(s) \in {"closing"} /\ Phase(s)' \in {"closed"}
    BY <2>1 DEF Phase
  <2>3. Contract!Closed(s)
    BY <1>1, <2>1, <2>2, OneMoves DEF Contract!Closed, JobsUnderWay
  <2>4. QED
    BY <2>3 DEF Contract!Next
<1>8. QED
  BY <1>3, <1>4, <1>5, <1>6, <1>7 DEF Main

\* A worker starts and resumes the turns of a session; those of a closed one do not
\* show.
LEMMA WorkerMoves ==
  ASSUME Served, NEW s \in Sessions, Worker(s)
  PROVE  [Contract!Next]_View
<1> USE DEF Served, Sound, TurnInvariant
<1>1. /\ \A t \in Sessions \ {s} : Phase(t)' = Phase(t)
      /\ \A t \in Sessions \ {s} : job'[t] = job[t]
  BY OthersStay
<1>2. UNCHANGED <<registered, target>>
  BY DEF Worker, TakeJob, TakeAndSpawn, Take, Prompt, Respond, Resume, Refuse, mainVars
<1>3. pc[s] \in {"prompt", "respond", "resume"} => job[s] = "running" /\ s \in JobsUnderWay
  BY RunningJob DEF Lineage, Starting, JobsUnderWay
<1>4. pc[s] # "session/prompt" => Phase(s) # "working"
  BY DEF Phase, Reported, Told, Tells
<1>5. CASE TakeJob(s) \/ TakeAndSpawn(s)
  <2>1. pc[s] = "none" /\ spawned[s] # 0 /\ job[s] = "queued" /\ job'[s] = "running"
    BY <1>5, TakeLineage, Domains
       DEF TakeJob, TakeAndSpawn, Take, Lineage, Driven, Ancestry, TypeOK
  <2>2. /\ pc'[s] # "session/prompt" /\ spawned'[s] \in {spawned[s], spawned[s] + 1}
        /\ s \in registered => state' = state
    BY <1>5, Domains DEF TakeJob, TakeAndSpawn, Spawn, childVars, Lineage, Ancestry
  <2>3. spawned'[s] # 0
    BY <2>1, <2>2, Domains
  <2>4. Phase(s)' = Phase(s) /\ JobsUnderWay' = JobsUnderWay
    BY <1>1, <1>2, <2>1, <2>2, <2>3, PhaseKept, JobsMove
  <2>5. QED
    BY <1>1, <2>4, NothingSeen
<1>6. CASE Prompt(s)
  <2>1. /\ pc[s] = "prompt" /\ active[s] = 0 /\ state'[s] = "running" /\ spawned' = spawned
        /\ \/ pc'[s] = "session/prompt" /\ job' = job
           \/ pc'[s] = "none" /\ job'[s] = "failed"
    BY <1>6, Domains DEF Prompt, FinishJob
  <2>2. CASE s \in registered /\ target # s
    <3>1. Phase(s) \in {"ready"}
      BY <2>1, <2>2, AtRest
    <3>2. CASE pc'[s] = "session/prompt" /\ job' = job
      <4>1. Phase(s)' \in {"working"}
        BY <1>2, <2>1, <2>2, <3>2 DEF Phase, Reported
      <4>2. Contract!Message(s)
        BY <1>1, <1>3, <2>1, <3>1, <3>2, <4>1, OneMoves DEF Contract!Message, JobsUnderWay
      <4>3. QED
        BY <4>2 DEF Contract!Next
    <3>3. CASE pc'[s] = "none" /\ job'[s] = "failed"
      <4>1. Phase(s)' \in {"stuck"}
        BY <1>2, <2>1, <2>2, <3>3 DEF Phase, Reported
      <4>2. s \in JobsUnderWay /\ JobsUnderWay' = JobsUnderWay \ {s}
        BY <1>1, <1>3, <2>1, <3>3, JobsMove
      <4>3. Contract!Message(s)
        BY <1>1, <3>1, <4>1, <4>2, OneMoves DEF Contract!Message, Contract!Ends
      <4>4. QED
        BY <4>3 DEF Contract!Next
    <3>4. QED
      BY <2>1, <3>2, <3>3
  <2>3. CASE ~(s \in registered /\ target # s)
    <3>1. Phase(s)' = Phase(s)
      BY <1>2, <2>1, <2>3, PhaseKept
    <3>2. CASE job' = job
      BY <1>1, <3>1, <3>2, NothingSeen DEF JobsUnderWay
    <3>3. CASE job'[s] = "failed"
      <4>1. s \in JobsUnderWay /\ JobsUnderWay' = JobsUnderWay \ {s}
        BY <1>1, <1>3, <2>1, <3>3, JobsMove
      <4>2. QED
        BY <1>1, <1>4, <2>1, <3>1, <4>1, EndsUnseen
    <3>4. QED
      BY <2>1, <3>2, <3>3
  <2>4. QED
    BY <2>2, <2>3
<1>7. CASE Respond(s)
  <2>1. /\ pc[s] = "respond" /\ pc'[s] = "resume" /\ UNCHANGED <<state, spawned, job>>
    BY <1>7, Domains DEF Respond, childVars, jobVars
  <2>2. Phase(s)' = Phase(s)
    BY <1>2, <2>1, PhaseKept
  <2>3. QED
    BY <1>1, <2>1, <2>2, NothingSeen DEF JobsUnderWay
<1>8. CASE Resume(s)
  <2>1. /\ pc[s] = "resume" /\ pc'[s] = "session/prompt" /\ state'[s] = "running"
        /\ UNCHANGED <<spawned, job>>
    BY <1>8, Domains DEF Resume, childVars, jobVars
  <2>2. CASE s \in registered /\ target # s
    <3>1. Phase(s) \in {"asking"} /\ Phase(s)' \in {"working"}
      BY <1>2, <2>1, <2>2 DEF Phase, Reported, Told, Tells
    <3>2. Contract!Answer(s)
      BY <1>1, <1>3, <2>1, <3>1, OneMoves DEF Contract!Answer, JobsUnderWay
    <3>3. QED
      BY <3>2 DEF Contract!Next
  <2>3. CASE ~(s \in registered /\ target # s)
    <3>1. Phase(s)' = Phase(s)
      BY <1>2, <2>1, <2>3, PhaseKept
    <3>2. QED
      BY <1>1, <2>1, <3>1, NothingSeen DEF JobsUnderWay
  <2>4. QED
    BY <2>2, <2>3
<1>9. CASE Refuse(s)
  <2>1. /\ pc[s] \in {"prompt", "respond"} /\ pc'[s] = "none" /\ job'[s] = "failed"
        /\ UNCHANGED <<state, spawned>>
    BY <1>9, Domains DEF Refuse, FinishJob, childVars
  <2>2. Phase(s)' = Phase(s) /\ Phase(s) # "working"
    BY <1>2, <1>4, <2>1, PhaseKept
  <2>3. s \in JobsUnderWay /\ JobsUnderWay' = JobsUnderWay \ {s}
    BY <1>1, <1>3, <2>1, JobsMove
  <2>4. QED
    BY <1>1, <2>2, <2>3, EndsUnseen
<1>10. QED
  BY <1>5, <1>6, <1>7, <1>8, <1>9 DEF Worker

\* The wait of a turn settles it; the wait of start ends the opening.
LEMMA WaitMoves ==
  ASSUME Served, NEW s \in Sessions, Wait(s)
  PROVE  [Contract!Next]_View
<1> USE DEF Served, Sound, TurnInvariant
<1>1. /\ \A t \in Sessions \ {s} : Phase(t)' = Phase(t)
      /\ \A t \in Sessions \ {s} : job'[t] = job[t]
  BY OthersStay
<1>2. s # "none"
  BY SessionsAssumption
<1>3. pc[s] \in Starting \/ (pc[s] = "session/prompt" /\ job[s] = "running")
  <2>1. pc[s] \in Waiting
    BY DEF Wait, GiveUp, ReadFailure, ReadAndContinue, ReadPermission, ReadInitialized,
           ReadUnusable, ReadCreated, ReadCompleted, Read
  <2>2. QED
    BY <2>1, RunningJob DEF Waiting, Starting, Lineage
<1>4. ASSUME pc[s] = "session/prompt", job'[s] \in Results, UNCHANGED <<registered, target, spawned>>,
             pc'[s] = "none", state'[s] \in {"idle", "waiting_permission", "failed"}
      PROVE  [Contract!Next]_View
  <2>1. s \in JobsUnderWay /\ JobsUnderWay' = JobsUnderWay \ {s}
    BY <1>1, <1>3, <1>4, JobsMove DEF Results, JobsUnderWay, Starting
  <2>2. CASE s \in registered /\ target # s
    <3>1. Phase(s) \in {"working"} /\ Phase(s)' \in {"ready", "asking", "failed"}
      BY <1>4, <2>2 DEF Phase, Reported, Told, Tells
    <3>2. Contract!Settle(s)
      BY <1>1, <2>1, <3>1, OneMoves DEF Contract!Settle, Contract!Ends
    <3>3. QED
      BY <3>2 DEF Contract!Next
  <2>3. CASE ~(s \in registered /\ target # s)
    <3>1. Phase(s)' = Phase(s) /\ Phase(s) # "working"
      BY <1>4, <2>3, PhaseKept DEF Phase
    <3>2. QED
      BY <1>1, <2>1, <3>1, EndsUnseen
  <2>4. QED
    BY <2>2, <2>3
<1>5. ASSUME pc[s] \in Starting, Abandon(s), UNCHANGED <<registered, spawned>>
      PROVE  [Contract!Next]_View
  <2>1. s \notin registered /\ (job[s] # "running" => target = s /\ spawned[s] = 1)
    BY <1>5 DEF Lineage, Driven, Ancestry, Starting
  <2>2. CASE job[s] = "running"
    <3>1. job'[s] = "failed" /\ UNCHANGED target
      BY <1>5, <2>2, Domains DEF Abandon, FinishJob
    <3>2. Phase(s)' = Phase(s) /\ Phase(s) # "working"
      BY <1>5, <2>1, <3>1, PhaseKept DEF Phase
    <3>3. s \in JobsUnderWay /\ JobsUnderWay' = JobsUnderWay \ {s}
      BY <1>1, <2>2, <3>1, JobsMove DEF JobsUnderWay
    <3>4. QED
      BY <1>1, <3>2, <3>3, EndsUnseen
  <2>3. CASE job[s] # "running"
    <3>1. target' = "none" /\ UNCHANGED job
      BY <1>5, <2>3 DEF Abandon
    <3>2. Phase(s) \in {"opening"} /\ Phase(s)' \in {"closed"}
      BY <1>2, <1>5, <2>1, <2>3, <3>1 DEF Phase
    <3>3. Contract!Started(s)
      BY <1>1, <3>1, <3>2, OneMoves DEF Contract!Started, JobsUnderWay
    <3>4. QED
      BY <3>3 DEF Contract!Next
  <2>4. QED
    BY <2>2, <2>3
<1>6. CASE GiveUp(s) \/ ReadFailure(s)
  <2>1. /\ Raise(s) /\ UNCHANGED <<registered, spawned>>
    BY <1>6 DEF GiveUp, ReadFailure, childVars
  <2>2. CASE pc[s] = "session/prompt"
    <3>1. /\ pc'[s] = "none" /\ state'[s] = "failed" /\ job'[s] \in Results
          /\ UNCHANGED target
      BY <1>3, <2>1, <2>2, Domains DEF Raise, Abandon, FinishJob, Results, Starting
    <3>2. QED
      BY <1>4, <2>1, <2>2, <3>1
  <2>3. QED
    BY <1>3, <1>5, <2>1, <2>2 DEF Raise
<1>7. CASE ReadAndContinue(s)
  <2>1. UNCHANGED <<registered, target, spawned, state, pc, job>>
    BY <1>7 DEF ReadAndContinue, mainVars, jobVars, turnVars, childVars
  <2>2. Phase(s)' = Phase(s)
    BY <2>1, PhaseKept
  <2>3. QED
    BY <1>1, <2>1, <2>2, NothingSeen DEF JobsUnderWay
<1>8. CASE ReadPermission(s) \/ ReadCompleted(s)
  <2>1. /\ pc[s] = "session/prompt" /\ pc'[s] = "none" /\ job'[s] \in Results
        /\ state'[s] \in {"idle", "waiting_permission", "failed"}
        /\ UNCHANGED <<registered, target, spawned>>
    BY <1>8, Domains
       DEF ReadPermission, ReadCompleted, FinishJob, Results, mainVars, childVars
  <2>2. QED
    BY <1>4, <2>1
<1>9. CASE ReadInitialized(s)
  <2>1. pc[s] \in Starting /\ UNCHANGED <<registered, spawned>>
    BY <1>9 DEF ReadInitialized, Starting
  <2>2. CASE Running(s)
    <3>1. s \notin registered /\ UNCHANGED <<target, job>>
      BY <1>9, <2>1, <2>2 DEF ReadInitialized, Lineage, Ancestry
    <3>2. Phase(s)' = Phase(s)
      BY <2>1, <3>1, PhaseKept
    <3>3. QED
      BY <1>1, <3>1, <3>2, NothingSeen DEF JobsUnderWay
  <2>3. CASE ~Running(s)
    BY <1>5, <1>9, <2>1, <2>3 DEF ReadInitialized
  <2>4. QED
    BY <2>2, <2>3
<1>10. CASE ReadUnusable(s)
  BY <1>5, <1>10 DEF ReadUnusable, Read, Waiting, Starting
<1>11. CASE ReadCreated(s)
  <2>1. s \notin registered /\ pc[s] \in Starting /\ UNCHANGED spawned
    BY <1>11 DEF ReadCreated, Lineage, Ancestry, Starting, childVars
  <2>2. CASE job[s] = "running"
    <3>1. UNCHANGED <<registered, target, job>>
      BY <1>11, <2>2 DEF ReadCreated, mainVars
    <3>2. Phase(s)' = Phase(s)
      BY <2>1, <3>1, PhaseKept
    <3>3. QED
      BY <1>1, <3>1, <3>2, NothingSeen DEF JobsUnderWay
  <2>3. CASE job[s] # "running"
    <3>1. /\ s \in registered' /\ target' = "none" /\ state'[s] = "idle"
          /\ job' = job \/ job'[s] = "queued"
      BY <1>11, <2>3, Domains DEF ReadCreated, Submit
    <3>2. target = s
      BY <2>1, <2>3 DEF Lineage, Driven, Starting
    <3>3. Phase(s) \in {"opening"} /\ Phase(s)' \in {"ready"}
      BY <1>2, <2>1, <3>1, <3>2 DEF Phase, Reported
    <3>4. JobsUnderWay' \in {JobsUnderWay, JobsUnderWay \cup {s}}
      BY <1>1, <3>1, JobsMove DEF JobsUnderWay
    <3>5. Contract!Started(s)
      BY <1>1, <3>3, <3>4, OneMoves DEF Contract!Started
    <3>6. QED
      BY <3>5 DEF Contract!Next
  <2>4. QED
    BY <2>2, <2>3
<1>12. QED
  BY <1>6, <1>7, <1>8, <1>9, <1>10, <1>11 DEF Wait

\* Every step of the runner is a step of the contract or shows the parent nothing.
LEMMA ContractStep ==
  ASSUME Served, [Next]_vars
  PROVE  [Contract!Next]_View
<1> USE DEF Served, Sound, TurnInvariant
<1>1. CASE \/ \E c \in Children : ReadLine(c) \/ Child(c)
           \/ Exit \/ UNCHANGED vars
  <2>1. UNCHANGED <<registered, target, spawned, state, pc, job>>
    BY <1>1 DEF ReadLine, Child, ChildAnswers, ChildAsks, ChildWritesNoise, ChildExits,
                Exit, vars, mainVars, jobVars, turnVars, childVars
  <2>2. QED
    BY <2>1, PhaseKept, NothingSeen DEF JobsUnderWay
<1>2. CASE CloseAll
  <2>1. /\ target = "none" /\ target' = target /\ registered' = {} /\ spawned' = spawned
        /\ JobsUnderWay = {} /\ JobsUnderWay' = JobsUnderWay
    BY <1>2 DEF CloseAll, Pool, JobsUnderWay, jobVars
  <2>2. \A s \in Sessions : s # "none" /\ (s \in registered => spawned[s] # 0)
    BY SessionsAssumption DEF Lineage, Ancestry
  <2>3. \A s \in Sessions : Phase(s) \in Contract!Open <=> s \in registered
    BY <2>1, <2>2 DEF Phase, Reported, Contract!Open, Told, Tells
  <2>4. \A s \in Sessions :
          Phase(s)' = IF Phase(s) \in Contract!Open THEN "closed" ELSE Phase(s)
    BY <2>1, <2>2, <2>3 DEF Phase
  <2>5. Contract!Shutdown
    BY <2>1, <2>4 DEF Contract!Shutdown, Phases
  <2>6. QED
    BY <2>5 DEF Contract!Next
<1>3. QED
  BY <1>1, <1>2, MainMoves, WorkerMoves, WaitMoves DEF Next

\* The service implements the contract of its sessions (docs/v2/acp-runners.md:92-121):
\* what status says of an open session is what its turn is at; a session whose turn
\* failed or never reached its child takes no other turn before it is closed; a closed
\* session has at most the one job it had at its close; at most MaxParallel are open.
THEOREM RunnerKeepsContract == Spec => KeepsContract
<1>1. Init => Contract!Init
  BY SessionsAssumption DEF Init, Contract!Init, Phase, JobsUnderWay
<1>2. QED
  BY <1>1, ContractStep, ServedAlways, PTL
     DEF Spec, KeepsContract, Contract!Spec, Contract!vars, View, Phases

-----------------------------------------------------------------------------
(* No job is stranded *)

Carries(s) ==
  /\ job[s] = "queued" => \E i \in DOMAIN backlog : backlog[i] = s
  /\ job[s] = "running" => pc[s] # "none"

\* A queued job is in the backlog, and a running one has a thread that drives it.
Carried == \A s \in Sessions : Carries(s)

\* What the steps of one session have to leave true for every job to be carried.
LEMMA CarriedKept ==
  ASSUME Carried, NEW s \in Sessions,
         \A t \in Sessions \ {s} : job'[t] = job[t] /\ pc'[t] = pc[t],
         \A i \in DOMAIN backlog :
           backlog[i] # s => \E j \in DOMAIN backlog' : backlog'[j] = backlog[i],
         Carries(s)'
  PROVE  Carried'
<1>1. ASSUME NEW t \in Sessions \ {s} PROVE Carries(t)'
  <2>1. Carries(t) /\ job'[t] = job[t] /\ pc'[t] = pc[t] /\ t # s
    BY <1>1 DEF Carried
  <2>2. QED
    BY <2>1 DEF Carries
<1>2. QED
  BY <1>1 DEF Carried

\* A job is submitted behind those that wait.
LEMMA SubmitCarried ==
  ASSUME TypeOK, Carried, NEW s \in Sessions, NEW what, Submit(s, what),
         \A t \in Sessions \ {s} : pc'[t] = pc[t]
  PROVE  Carried'
<1>1. backlog \in Seq(Sessions) /\ job' = [job EXCEPT ![s] = "queued"] /\ DOMAIN job = Sessions
      /\ backlog' = Append(backlog, s)
  BY DEF TypeOK, JobType, Submit
<1>2. /\ \A i \in DOMAIN backlog : i \in DOMAIN backlog' /\ backlog'[i] = backlog[i]
      /\ \E j \in DOMAIN backlog' : backlog'[j] = s
  <2>1. /\ Len(backlog) \in Nat /\ DOMAIN backlog = 1..Len(backlog)
        /\ DOMAIN backlog' = 1..(Len(backlog) + 1) /\ backlog'[Len(backlog) + 1] = s
        /\ \A i \in 1..Len(backlog) : backlog'[i] = backlog[i]
    BY <1>1
  <2>2. Len(backlog) + 1 \in DOMAIN backlog'
    BY <2>1
  <2>3. QED
    BY <2>1, <2>2
<1>3. QED
  BY <1>1, <1>2, CarriedKept DEF Carries

\* The job at the head of the backlog is taken by a thread.
LEMMA TakeCarried ==
  ASSUME TypeOK, Carried, NEW s \in Sessions, Take(s), pc'[s] # "none",
         \A t \in Sessions \ {s} : pc'[t] = pc[t]
  PROVE  Carried'
<1>1. /\ backlog \in Seq(Sessions) /\ backlog # <<>> /\ s = Head(backlog)
      /\ job' = [job EXCEPT ![s] = "running"] /\ DOMAIN job = Sessions
      /\ backlog' = Tail(backlog)
  BY DEF TypeOK, JobType, Take
<1>2. ASSUME NEW i \in DOMAIN backlog, backlog[i] # s
      PROVE  \E j \in DOMAIN backlog' : backlog'[j] = backlog[i]
  <2>1. /\ Len(backlog) \in Nat \ {0} /\ DOMAIN backlog = 1..Len(backlog)
        /\ backlog[1] = s /\ DOMAIN backlog' = 1..(Len(backlog) - 1)
        /\ \A j \in 1..(Len(backlog) - 1) : backlog'[j] = backlog[j + 1]
    BY <1>1
  <2>2. i - 1 \in 1..(Len(backlog) - 1) /\ (i - 1) + 1 = i
    BY <1>2, <2>1
  <2>3. QED
    BY <2>1, <2>2
<1>3. QED
  BY <1>1, <1>2, CarriedKept DEF Carries

\* A thread that leaves its session ends the job it had.
LEMMA LeaveCarried ==
  ASSUME TypeOK, Carried, NEW s \in Sessions, backlog' = backlog,
         Abandon(s) \/ \E result \in Results : FinishJob(s, result)
  PROVE  Carried'
<1>1. DOMAIN job = Sessions /\ DOMAIN pc = Sessions
  BY DEF TypeOK, JobType, TurnType
<1>2. \/ job' = [job EXCEPT ![s] = "failed"] /\ pc' = [pc EXCEPT ![s] = "none"]
      \/ job' = job /\ job[s] # "running" /\ pc' = [pc EXCEPT ![s] = "none"]
      \/ \E result \in Results :
           job' = [job EXCEPT ![s] = result] /\ pc' = [pc EXCEPT ![s] = "none"]
  BY DEF Abandon, FinishJob
<1>3. /\ \A t \in Sessions \ {s} : job'[t] = job[t] /\ pc'[t] = pc[t]
      /\ job'[s] # "running" /\ (job'[s] = "queued" => job[s] = "queued")
  BY <1>1, <1>2 DEF Results
<1>4. Carries(s)'
  BY <1>3 DEF Carried, Carries
<1>5. QED
  BY <1>3, <1>4, CarriedKept

\* A thread that goes on with its session.
LEMMA GoesOnCarried ==
  ASSUME TypeOK, Carried, NEW s \in Sessions, UNCHANGED <<backlog, job>>,
         pc'[s] # "none", \A t \in Sessions \ {s} : pc'[t] = pc[t]
  PROVE  Carried'
<1>1. Carries(s)'
  BY DEF Carried, Carries
<1>2. QED
  BY <1>1, CarriedKept

\* Every step of the threads and of the children carries the jobs on.
LEMMA CarriedStep ==
  ASSUME TypeOK, Carried, [Next]_vars
  PROVE  Carried'
<1>0. DOMAIN pc = Sessions
  BY DEF TypeOK, TurnType
<1>1. ASSUME UNCHANGED <<backlog, job, pc>> PROVE Carried'
  BY <1>1 DEF Carried, Carries
<1>2. ASSUME NEW s \in Sessions, Main(s) PROVE Carried'
  <2>1. CASE CallStart(s)
    BY <1>0, <2>1, GoesOnCarried DEF CallStart, Spawn, jobVars
  <2>2. ASSUME NEW what \in Operations, CallSubmit(s, what) PROVE Carried'
    BY <2>2, SubmitCarried DEF CallSubmit, turnVars
  <2>3. CASE CallClose(s) \/ Cancel(s) \/ CancelAnswer(s) \/ CancelForget(s)
             \/ Terminate(s) \/ Drop(s)
    BY <1>1, <2>3 DEF CallClose, Cancel, CancelAnswer, CancelForget, Terminate, Drop,
                      jobVars, turnVars
  <2>4. QED
    BY <1>2, <2>1, <2>2, <2>3 DEF Main
<1>3. ASSUME NEW s \in Sessions, Worker(s) PROVE Carried'
  <2>1. CASE TakeJob(s)
    <3>1. Take(s) /\ pc' = [pc EXCEPT ![s] = IF IsPrompt(s) THEN "prompt" ELSE "respond"]
      BY <2>1 DEF TakeJob
    <3>2. QED
      BY <1>0, <3>1, TakeCarried
  <2>2. CASE TakeAndSpawn(s)
    <3>1. Take(s) /\ pc' = [pc EXCEPT ![s] = "initialize"]
      BY <2>2 DEF TakeAndSpawn, Spawn
    <3>2. QED
      BY <1>0, <3>1, TakeCarried
  <2>3. CASE Prompt(s)
    <3>1. CASE Running(s)
      BY <1>0, <2>3, <3>1, GoesOnCarried DEF Prompt
    <3>2. CASE ~Running(s)
      BY <2>3, <3>2, LeaveCarried DEF Prompt, Results
    <3>3. QED
      BY <3>1, <3>2
  <2>4. CASE Respond(s) \/ Resume(s)
    BY <1>0, <2>4, GoesOnCarried DEF Respond, Resume, jobVars
  <2>5. CASE Refuse(s)
    BY <2>5, LeaveCarried DEF Refuse, Results
  <2>6. QED
    BY <1>3, <2>1, <2>2, <2>3, <2>4, <2>5 DEF Worker
<1>4. ASSUME NEW s \in Sessions, Wait(s) PROVE Carried'
  <2>1. CASE GiveUp(s) \/ ReadFailure(s)
    BY <2>1, LeaveCarried DEF GiveUp, ReadFailure, Raise
  <2>2. CASE ReadAndContinue(s)
    BY <1>1, <2>2 DEF ReadAndContinue, jobVars, turnVars
  <2>3. CASE ReadPermission(s) \/ ReadCompleted(s)
    BY <2>3, LeaveCarried DEF ReadPermission, ReadCompleted, Results
  <2>4. CASE ReadInitialized(s)
    <3>1. CASE Running(s)
      BY <1>0, <2>4, <3>1, GoesOnCarried DEF ReadInitialized
    <3>2. CASE ~Running(s)
      BY <2>4, <3>2, LeaveCarried DEF ReadInitialized
    <3>3. QED
      BY <3>1, <3>2
  <2>5. CASE ReadUnusable(s)
    BY <2>5, LeaveCarried DEF ReadUnusable
  <2>6. CASE ReadCreated(s)
    <3>1. CASE pc' = [pc EXCEPT ![s] = "prompt"] /\ UNCHANGED <<backlog, job>>
      BY <1>0, <3>1, GoesOnCarried
    <3>2. CASE job[s] # "running" /\ pc' = [pc EXCEPT ![s] = "none"]
               /\ (Submit(s, "prompt") \/ UNCHANGED <<backlog, job, op>>)
      <4>1. \A t \in Sessions \ {s} : pc'[t] = pc[t]
        BY <1>0, <3>2
      <4>2. CASE Submit(s, "prompt")
        BY <4>1, <4>2, SubmitCarried
      <4>3. CASE UNCHANGED <<backlog, job, op>>
        <5>1. Carries(s)'
          BY <3>2, <4>3 DEF Carried, Carries
        <5>2. QED
          BY <4>1, <4>3, <5>1, CarriedKept
      <4>4. QED
        BY <3>2, <4>2, <4>3
    <3>3. QED
      BY <2>6, <3>1, <3>2 DEF ReadCreated
  <2>7. QED
    BY <1>4, <2>1, <2>2, <2>3, <2>4, <2>5, <2>6 DEF Wait
<1>5. CASE Exit \/ CloseAll \/ UNCHANGED vars
  BY <1>1, <1>5 DEF Exit, CloseAll, vars, jobVars, turnVars
<1>6. ASSUME NEW c \in Children, ReadLine(c) \/ Child(c) PROVE Carried'
  BY <1>1, <1>6 DEF ReadLine, Child, ChildAnswers, ChildAsks, ChildWritesNoise, ChildExits,
                    jobVars, turnVars
<1>7. QED
  BY <1>2, <1>3, <1>4, <1>5, <1>6 DEF Next

\* A thread is at work on the session, or free to take its job.
GoesOn(s) ==
  pc[s] # "none" \/ (backlog # <<>> /\ s = Head(backlog) /\ Cardinality(AtWork) < MaxParallel)

\* Threads never wait for each other in a circle: as long as a job is under way, some
\* job has a thread or is taken by one; a start waits in its own loop, whose deadline
\* ends it, and a close has a session to go on with.  So the join of the executor at
\* exit waits only for jobs that go on, those of closed sessions included.
THEOREM NoneStranded ==
  Spec => [](/\ Carried
             /\ JobsUnderWay # {} => \E s \in JobsUnderWay : GoesOn(s)
             /\ main = "start" => pc[target] \in Starting
             /\ main \in Closing => target \in registered)
<1> DEFINE OneGoesOn == JobsUnderWay # {} => \E s \in JobsUnderWay : GoesOn(s)
           MainGoesOn == /\ main = "start" => pc[target] \in Starting
                         /\ main \in Closing => target \in registered
<1>1. Init => Carried
  BY DEF Init, Carried, Carries
<1>2. Served => TypeOK /\ Lineage
  BY DEF Served, Sound, TurnInvariant
<1>3. TypeOK /\ Carried /\ [Next]_vars => Carried'
  BY CarriedStep
<1>4. TypeOK /\ Lineage /\ Carried => OneGoesOn
  <2> SUFFICES ASSUME TypeOK, Lineage, Carried, NEW s \in JobsUnderWay
               PROVE  \E t \in JobsUnderWay : GoesOn(t)
    OBVIOUS
  <2>1. s \in Sessions /\ Carries(s)
    BY DEF JobsUnderWay, Carried
  <2>2. CASE AtWork # {}
    <3>1. PICK t \in Sessions : job[t] = "running"
      BY <2>2 DEF AtWork
    <3>2. t \in JobsUnderWay /\ pc[t] # "none"
      BY <3>1 DEF JobsUnderWay, Carried, Carries
    <3>3. QED
      BY <3>2 DEF GoesOn
  <2>3. CASE AtWork = {}
    <3>1. job[s] = "queued"
      BY <2>1, <2>3 DEF JobsUnderWay, AtWork
    <3>2. backlog \in Seq(Sessions) /\ backlog # <<>>
      BY <2>1, <3>1 DEF Carries, TypeOK, JobType
    <3>3. Head(backlog) = backlog[1] /\ 1 \in DOMAIN backlog /\ Head(backlog) \in Sessions
      BY <3>2
    <3>4. Head(backlog) \in JobsUnderWay
      BY <3>3 DEF Lineage, QueuedOnce, JobsUnderWay
    <3>5. Cardinality(AtWork) < MaxParallel
      BY <2>3, FS_EmptySet, BoundsAssumption
    <3>6. QED
      BY <3>2, <3>4, <3>5 DEF GoesOn
  <2>4. QED
    BY <2>2, <2>3
<1>5. Lineage => MainGoesOn
  BY DEF Lineage, Driven
<1> HIDE DEF OneGoesOn
<1>6. QED
  BY <1>1, <1>2, <1>3, <1>4, <1>5, ServedAlways, PTL DEF Spec, OneGoesOn

=============================================================================
