------------------------ MODULE ResearchWorkerProofs ------------------------
(***************************************************************************)
(* Proofs about the research workers (module ResearchWorker): for any      *)
(* workers, jobs, settings and outputs, and any number of deliveries, a    *)
(* job is answered by the execution of its last lease, and the owner of    *)
(* the queue sees what ResearchContract promises.                          *)
(***************************************************************************)
EXTENDS ResearchWorker, InductionFacts

-----------------------------------------------------------------------------
(* The inductive invariant *)

\* Only a worker whose settings are sound works, and only in a batch.
Working ==
  \A w \in Workers : /\ phase[w] # "stopped" => Starts(w)
                     /\ tasks[w] # {} => phase[w] = "batch"

\* A result that waits to be submitted was validated.
Validated == \A w \in Workers : \A t \in tasks[w] : t.result # NoResult => t.result \in Reliable

\* A job that can be leased has a delivery left; one without an answer has none, and
\* an answer is that of the last lease.
Leases ==
  \A j \in Jobs : /\ status[j] = "open" => gen[j] < MaxDeliveries
                  /\ status[j] # "done" => answers[j] = None

IInv == TypeOK /\ Working /\ Validated /\ Leases /\ AnswerOfLastLease

-----------------------------------------------------------------------------
(* Settings and outputs *)

\* A worker that starts has a range of delays and some threads.
LEMMA SettingsTyped ==
  ASSUME NEW w \in Workers
  PROVE  /\ Settings(w).pollMin \in Int /\ Settings(w).pollMax \in Int /\ MaxParallel(w) \in Int
         /\ Starts(w) => /\ Settings(w).pollMin \in 1..3600
                         /\ Settings(w).pollMax \in Settings(w).pollMin..3600
                         /\ MaxParallel(w) \in 1..8
<1>1. Env[w] \in [pollMin : Int, pollMax : Int, maxParallel : Int]
  BY EnvAssumption
<1>2. Settings(w).pollMin \in Int /\ Settings(w).pollMax \in Int /\ Settings(w).maxParallel \in Int
  BY <1>1 DEF Settings, IntEnv
<1>3. QED
  BY <1>2 DEF Starts, MaxParallel

\* What a run of OpenCode results in is one of its lines, with evidence for what it
\* asserts.
LEMMA ResultReliable ==
  ASSUME NEW run \in Outputs, HasResult(run)
  PROVE  Result(run) \in Reliable
<1>1. run.marked \in Seq(Lines) /\ run.marked # <<>>
  BY OutputsAssumption DEF HasResult
<1>2. Len(run.marked) \in 1..Len(run.marked)
  BY <1>1
<1>3. Result(run) \in Lines
  BY <1>1, <1>2 DEF Result
<1>4. Validates(Result(run))
  BY DEF HasResult, Result
<1>5. QED
  BY <1>3, <1>4 DEF Reliable, Validates

-----------------------------------------------------------------------------
(* The steps *)

\* At first the queue is open and every worker has nothing, or never starts.
LEMMA InitInv == Init => IInv
<1> SUFFICES ASSUME Init PROVE IInv
  OBVIOUS
<1>1. ASSUME NEW w \in Workers
      PROVE  /\ delay[w] \in Int
             /\ Starts(w) => delay[w] \in Settings(w).pollMin..Settings(w).pollMax
  BY SettingsTyped DEF Init
<1>2. TypeOK
  BY <1>1, QueueAssumption DEF Init, TypeOK
<1>3. Working /\ Validated
  BY DEF Init, Working, Validated
<1>4. Leases /\ AnswerOfLastLease
  BY QueueAssumption DEF Init, Leases, AnswerOfLastLease
<1>5. QED
  BY <1>2, <1>3, <1>4 DEF IInv

\* A lease: the jobs get a new generation, and the worker a batch or nothing.
LEMMA ClaimStep ==
  ASSUME IInv, NEW w \in Workers, NEW batch \in SUBSET Jobs, Claim(w, batch)
  PROVE  IInv'
<1>0. TypeOK /\ Working /\ Validated /\ Leases /\ AnswerOfLastLease
  BY DEF IInv
<1> DEFINE ts == {[job |-> j, gen |-> gen'[j], result |-> NoResult] : j \in batch}
<1>1. /\ phase[w] = "claim" /\ tasks[w] = {} /\ Starts(w)
      /\ \A j \in batch : status[j] = "open" /\ gen[j] < MaxDeliveries /\ answers[j] = None
      /\ UNCHANGED <<answers, delay>>
  BY <1>0 DEF Claim, Working, Leases
<1>2. /\ status' = [j \in Jobs |-> IF j \in batch THEN "leased" ELSE status[j]]
      /\ gen' = [j \in Jobs |-> IF j \in batch THEN gen[j] + 1 ELSE gen[j]]
  BY DEF Claim
<1>3. /\ status' \in [Jobs -> {"open", "leased", "done", "dead"}]
      /\ gen' \in [Jobs -> 0..MaxDeliveries]
      /\ \A j \in batch : gen'[j] \in 1..MaxDeliveries
      /\ \A j \in Jobs : gen[j] <= gen'[j]
  BY <1>0, <1>1, <1>2, QueueAssumption DEF TypeOK
<1>4. Leases' /\ AnswerOfLastLease'
  BY <1>0, <1>1, <1>2 DEF Leases, AnswerOfLastLease, TypeOK
<1>5. ASSUME NEW v \in Workers, NEW t \in tasks[v] PROVE t \in Task /\ t.gen <= gen'[t.job]
  <2>1. t \in Task /\ t.gen <= gen[t.job]
    BY <1>0, <1>5 DEF TypeOK
  <2>2. t.job \in Jobs /\ t.gen \in Int /\ gen[t.job] \in Int /\ gen'[t.job] \in Int
        /\ gen[t.job] <= gen'[t.job]
    BY <2>1, <1>0, <1>3, QueueAssumption DEF Task, TypeOK
  <2>3. QED
    BY <2>1, <2>2
<1>6. CASE /\ Accepts(w, batch) /\ phase' = [phase EXCEPT ![w] = "batch"]
           /\ tasks' = [tasks EXCEPT ![w] = ts] /\ succeeded' = [succeeded EXCEPT ![w] = FALSE]
  <2>1. \A t \in ts : t \in Task /\ t.gen <= gen'[t.job] /\ t.result = NoResult
    BY <1>3, QueueAssumption DEF Task
  <2> HIDE DEF ts
  <2>2. /\ tasks' \in [Workers -> SUBSET Task] /\ tasks'[w] = ts
        /\ \A v \in Workers : v # w => tasks'[v] = tasks[v]
    BY <1>0, <1>6, <2>1 DEF TypeOK
  <2>3. \A v \in Workers : \A t \in tasks'[v] : t.gen <= gen'[t.job]
    BY <1>5, <2>1, <2>2
  <2>4. TypeOK'
    BY <1>0, <1>1, <1>3, <1>6, <2>2, <2>3 DEF TypeOK
  <2>5. Working'
    BY <1>0, <1>1, <1>6, <2>2 DEF Working, TypeOK
  <2>6. Validated'
    BY <1>0, <2>1, <2>2 DEF Validated
  <2>7. QED
    BY <1>4, <2>4, <2>5, <2>6 DEF IInv
<1>7. CASE (Rest(w) \/ phase' = [phase EXCEPT ![w] = "stopped"]) /\ UNCHANGED <<tasks, succeeded>>
  <2>1. /\ phase' \in [Workers -> {"claim", "batch", "sleep", "stopped"}]
        /\ \A v \in Workers : v # w => phase'[v] = phase[v]
    BY <1>0, <1>7 DEF TypeOK, Rest
  <2>2. TypeOK'
    BY <1>0, <1>1, <1>3, <1>5, <1>7, <2>1 DEF TypeOK
  <2>3. Working'
    BY <1>0, <1>1, <1>7, <2>1 DEF Working
  <2>4. Validated'
    BY <1>0, <1>7 DEF Validated
  <2>5. QED
    BY <1>4, <2>2, <2>3, <2>4 DEF IInv
<1>8. QED
  BY <1>6, <1>7 DEF Claim

\* A task ends, or goes on with a result.
LEMMA TaskStep ==
  ASSUME IInv, NEW w \in Workers, NEW t \in tasks[w], NEW more,
         more = {} \/ \E r \in Reliable : more = {[t EXCEPT !.result = r]},
         tasks' = [tasks EXCEPT ![w] = (@ \ {t}) \cup more],
         UNCHANGED <<gen, phase, delay>>
  PROVE  /\ tasks' \in [Workers -> SUBSET Task]
         /\ \A v \in Workers : \A u \in tasks'[v] : u.gen <= gen'[u.job]
         /\ Working' /\ Validated'
<1>0. TypeOK /\ Working /\ Validated /\ Leases
  BY DEF IInv
<1> DEFINE ts == (tasks[w] \ {t}) \cup more
<1>1. t \in Task /\ t.gen <= gen[t.job]
  BY <1>0 DEF TypeOK
<1>2. \A u \in more : u \in Task /\ u.gen <= gen[u.job] /\ u.result \in Reliable
  BY <1>1 DEF Task, Reliable
<1>3. \A u \in ts : /\ u \in Task /\ u.gen <= gen[u.job]
                    /\ u.result # NoResult => u.result \in Reliable
  BY <1>0, <1>2 DEF TypeOK, Validated
<1> HIDE DEF ts
<1>4. tasks' \in [Workers -> SUBSET Task] /\ tasks'[w] = ts
      /\ \A v \in Workers : v # w => tasks'[v] = tasks[v]
  BY <1>0, <1>3 DEF TypeOK, ts
<1>5. \A v \in Workers : \A u \in tasks'[v] : u.gen <= gen'[u.job]
  BY <1>0, <1>3, <1>4 DEF TypeOK
<1>6. Working' /\ Validated'
  BY <1>0, <1>3, <1>4 DEF Working, Validated
<1>7. QED
  BY <1>4, <1>5, <1>6

\* An execution changes only what the worker has of its task.
LEMMA ExecuteStep ==
  ASSUME IInv, NEW w \in Workers, NEW t \in tasks[w], Execute(w, t)
  PROVE  IInv'
<1>0. TypeOK /\ Leases /\ AnswerOfLastLease
  BY DEF IInv
<1>1. UNCHANGED <<status, gen, answers, phase, succeeded, delay>>
  BY DEF Execute, queueVars
<1>2. PICK run \in Outputs :
        tasks' = IF HasResult(run)
                 THEN [tasks EXCEPT ![w] = (@ \ {t}) \cup {[t EXCEPT !.result = Result(run)]}]
                 ELSE Without(w, t)
  BY DEF Execute
<1> DEFINE more == IF HasResult(run) THEN {[t EXCEPT !.result = Result(run)]} ELSE {}
<1>3. more = {} \/ \E r \in Reliable : more = {[t EXCEPT !.result = r]}
  BY ResultReliable
<1>4. tasks' = [tasks EXCEPT ![w] = (@ \ {t}) \cup more]
  BY <1>2 DEF Without
<1> HIDE DEF more
<1>5. /\ tasks' \in [Workers -> SUBSET Task]
      /\ \A v \in Workers : \A u \in tasks'[v] : u.gen <= gen'[u.job]
      /\ Working' /\ Validated'
  BY <1>1, <1>3, <1>4, TaskStep
<1>6. TypeOK' /\ Leases' /\ AnswerOfLastLease'
  BY <1>0, <1>1, <1>5 DEF TypeOK, Leases, AnswerOfLastLease
<1>7. QED
  BY <1>5, <1>6 DEF IInv

\* A submission: the queue takes the result of the lease it knows, which has no answer.
LEMMA SubmitStep ==
  ASSUME IInv, NEW w \in Workers, NEW t \in tasks[w], Submit(w, t)
  PROVE  IInv'
<1>0. TypeOK /\ Validated /\ Leases /\ AnswerOfLastLease
  BY DEF IInv
<1>1. t.result # NoResult /\ UNCHANGED <<gen, phase, delay>>
  BY DEF Submit
<1>2. t \in Task /\ t.result \in Lines /\ t.job \in Jobs
  <2>1. t \in Task
    BY <1>0 DEF TypeOK
  <2>2. QED
    BY <1>1, <2>1 DEF Task
<1>3. /\ tasks' \in [Workers -> SUBSET Task]
      /\ \A v \in Workers : \A u \in tasks'[v] : u.gen <= gen'[u.job]
      /\ Working' /\ Validated'
  <2>1. tasks' = [tasks EXCEPT ![w] = (@ \ {t}) \cup {}]
    BY DEF Submit, Without
  <2>2. QED
    BY <1>1, <2>1, TaskStep
<1>4. succeeded' \in [Workers -> BOOLEAN]
  BY <1>0 DEF Submit, TypeOK
<1>5. CASE UNCHANGED <<status, answers>>
  BY <1>0, <1>1, <1>3, <1>4, <1>5 DEF IInv, TypeOK, Leases, AnswerOfLastLease
<1>6. CASE /\ status[t.job] = "leased" /\ Generation(t) = gen[t.job]
           /\ status' = [status EXCEPT ![t.job] = "done"]
           /\ answers' = [answers EXCEPT ![t.job] = [gen |-> t.gen, result |-> t.result]]
  <2>1. [gen |-> t.gen, result |-> t.result] \in [gen : 1..MaxDeliveries, result : Lines]
    BY <1>2 DEF Task
  <2>2. TypeOK'
    BY <1>0, <1>1, <1>2, <1>3, <1>4, <1>6, <2>1 DEF TypeOK
  <2>3. Leases'
    BY <1>0, <1>1, <1>2, <1>6 DEF Leases, TypeOK
  <2>4. AnswerOfLastLease'
    BY <1>0, <1>1, <1>2, <1>6 DEF AnswerOfLastLease, TypeOK, Generation
  <2>5. QED
    BY <1>3, <2>2, <2>3, <2>4 DEF IInv
<1>7. QED
  BY <1>5, <1>6 DEF Submit

\* A worker rests, asks again, wakes up or dies: the queue and the tasks of the others
\* are as they were.
LEMMA PhaseStep ==
  ASSUME IInv, NEW w \in Workers, EndBatch(w) \/ Wake(w) \/ Crash(w)
  PROVE  IInv'
<1>0. TypeOK /\ Working /\ Validated /\ Leases /\ AnswerOfLastLease
  BY DEF IInv
<1>1. /\ UNCHANGED <<status, gen, answers, succeeded>>
      /\ phase[w] # "stopped"
      /\ UNCHANGED tasks \/ tasks' = [tasks EXCEPT ![w] = {}]
      /\ tasks'[w] = {}
  BY <1>0 DEF EndBatch, Wake, Crash, queueVars, Working, TypeOK
<1>2. /\ phase' \in [Workers -> {"claim", "batch", "sleep", "stopped"}]
      /\ \A v \in Workers : v # w => phase'[v] = phase[v]
  BY <1>0 DEF EndBatch, Wake, Crash, Rest, TypeOK
<1>3. tasks' \in [Workers -> SUBSET Task] /\ \A v \in Workers : v # w => tasks'[v] = tasks[v]
  BY <1>0, <1>1 DEF TypeOK
<1>4. Starts(w)
  BY <1>0, <1>1 DEF Working
<1>5. /\ Settings(w).pollMin \in 1..3600 /\ Settings(w).pollMax \in Settings(w).pollMin..3600
      /\ delay[w] \in Settings(w).pollMin..Settings(w).pollMax
  BY <1>0, <1>4, SettingsTyped DEF TypeOK
<1>6. /\ delay' \in [Workers -> Int]
      /\ \A v \in Workers : Starts(v) => delay'[v] \in Settings(v).pollMin..Settings(v).pollMax
  <2>1. CASE UNCHANGED delay
    BY <1>0, <2>1 DEF TypeOK
  <2>2. CASE delay' = [delay EXCEPT ![w] = Settings(w).pollMin]
    <3>1. /\ Settings(w).pollMin \in Settings(w).pollMin..Settings(w).pollMax
          /\ Settings(w).pollMin \in Int
      BY <1>5, SettingsTyped
    <3>2. QED
      BY <1>0, <2>2, <3>1 DEF TypeOK
  <2>3. CASE delay' = [delay EXCEPT ![w] = NextDelay(w)]
    <3>1. NextDelay(w) \in Settings(w).pollMin..Settings(w).pollMax
      <4> DEFINE lo == Settings(w).pollMin
                 hi == Settings(w).pollMax
                 d == delay[w]
      <4>1. lo \in 1..3600 /\ hi \in lo..3600 /\ d \in lo..hi
        BY <1>5
      <4>2. NextDelay(w) = IF hi < d * 2 THEN hi ELSE d * 2
        BY DEF NextDelay, Least
      <4> HIDE DEF lo, hi, d
      <4>3. lo \in Int /\ hi \in Int /\ d \in Int /\ 1 <= lo /\ lo <= d /\ d <= hi
        BY <4>1
      <4>4. d * 2 \in Int /\ d * 2 = d + d
        BY <4>3
      <4>5. NextDelay(w) \in lo..hi
        BY <4>2, <4>3, <4>4
      <4>6. QED
        BY <4>5 DEF lo, hi
    <3>2. NextDelay(w) \in Int
      BY <3>1, SettingsTyped
    <3>3. QED
      BY <1>0, <2>3, <3>1, <3>2 DEF TypeOK
  <2>4. QED
    BY <2>1, <2>2, <2>3 DEF EndBatch, Wake, Crash
<1>7. TypeOK'
  BY <1>0, <1>1, <1>2, <1>3, <1>6 DEF TypeOK
<1>8. Working' /\ Validated'
  BY <1>0, <1>1, <1>2, <1>3, <1>4 DEF Working, Validated
<1>9. Leases' /\ AnswerOfLastLease'
  BY <1>0, <1>1 DEF Leases, AnswerOfLastLease
<1>10. QED
  BY <1>7, <1>8, <1>9 DEF IInv

\* A lease that runs out leaves the answers and the generations as they are.
LEMMA ExpireStep ==
  ASSUME IInv, NEW j \in Jobs, Expire(j)
  PROVE  IInv'
<1>0. TypeOK /\ Working /\ Validated /\ Leases /\ AnswerOfLastLease
  BY DEF IInv
<1>1. /\ status[j] = "leased" /\ UNCHANGED <<gen, answers, phase, tasks, succeeded, delay>>
      /\ status' = [status EXCEPT ![j] = IF gen[j] < MaxDeliveries THEN "open" ELSE "dead"]
  BY DEF Expire, workerVars
<1>2. TypeOK' /\ Leases' /\ AnswerOfLastLease'
  BY <1>0, <1>1 DEF TypeOK, Leases, AnswerOfLastLease
<1>3. Working' /\ Validated'
  BY <1>0, <1>1 DEF Working, Validated
<1>4. QED
  BY <1>2, <1>3 DEF IInv

\* Each step keeps the invariant.
LEMMA StepInv == IInv /\ [Next]_vars => IInv'
<1> SUFFICES ASSUME IInv, [Next]_vars PROVE IInv'
  OBVIOUS
<1>1. ASSUME NEW w \in Workers, ClaimSome(w) PROVE IInv'
  BY <1>1, ClaimStep DEF ClaimSome, Offers
<1>2. ASSUME NEW w \in Workers, Step(w) PROVE IInv'
  BY <1>2, ExecuteStep, SubmitStep, PhaseStep DEF Step
<1>3. ASSUME NEW w \in Workers, Crash(w) PROVE IInv'
  BY <1>3, PhaseStep
<1>4. ASSUME NEW j \in Jobs, Expire(j) PROVE IInv'
  BY <1>4, ExpireStep
<1>5. CASE UNCHANGED vars
  BY <1>5 DEF vars, queueVars, workerVars, IInv, TypeOK, Working, Validated, Leases,
              AnswerOfLastLease
<1>6. QED
  BY <1>1, <1>2, <1>3, <1>4, <1>5 DEF Next

\* The inductive invariant holds in every reachable state.
LEMMA SpecInv == Spec => []IInv
<1>1. QED
  BY InitInv, StepInv, PTL DEF Spec

-----------------------------------------------------------------------------
(* The theorems *)

\* Jobs, leases, batches and delays keep their types; the delay of a worker stays in
\* the range its settings give.
THEOREM WorkerTypeCorrect == Spec => []TypeOK
<1>1. IInv => TypeOK
  BY DEF IInv
<1>2. QED
  BY <1>1, SpecInv, PTL

\* The answer of a job comes from the execution of its last lease.
THEOREM LastLeaseAnswers == Spec => []AnswerOfLastLease
<1>1. IInv => AnswerOfLastLease
  BY DEF IInv
<1>2. QED
  BY <1>1, SpecInv, PTL

\* The states of the queue map to the contract's: at first no job is answered or given
\* up, and a step answers one job reliably, gives one up, or does neither.
LEMMA ContractInitially == Init => Contract!ContractInit
  BY DEF Init, Contract!ContractInit, None

\* Each step of workers and queue is one of the contract, or changes no answer.
LEMMA ContractStep ==
  ASSUME IInv, [Next]_vars
  PROVE  [Contract!ContractNext]_(Contract!contractVars)
<1> DEFINE answer == [j \in Jobs |-> answers[j].result]
           given == {j \in Jobs : status[j] = "dead"}
<1>0. TypeOK /\ Validated /\ Leases
  BY DEF IInv
<1>1. ASSUME UNCHANGED answers, \A j \in Jobs : status'[j] = "dead" <=> status[j] = "dead"
      PROVE  UNCHANGED Contract!contractVars
  BY <1>1 DEF Contract!contractVars
<1>2. ASSUME NEW w \in Workers, ClaimSome(w) PROVE UNCHANGED Contract!contractVars
  BY <1>1, <1>2 DEF ClaimSome, Claim
<1>3. ASSUME NEW w \in Workers, NEW t \in tasks[w], Submit(w, t)
      PROVE  [Contract!ContractNext]_(Contract!contractVars)
  <2>1. CASE UNCHANGED <<status, answers>>
    BY <1>1, <2>1
  <2>2. CASE /\ status[t.job] = "leased"
             /\ status' = [status EXCEPT ![t.job] = "done"]
             /\ answers' = [answers EXCEPT ![t.job] = [gen |-> t.gen, result |-> t.result]]
    <3>1. t.job \in Jobs
      BY <1>0, <1>3 DEF TypeOK, Task
    <3>2. t.result \in Reliable
      BY <1>0, <1>3 DEF Validated, Submit
    <3>3. answers[t.job] = None
      BY <1>0, <2>2, <3>1 DEF Leases
    <3>4. /\ \A j \in Jobs : answers'[j].result = IF j = t.job THEN t.result ELSE answers[j].result
          /\ \A j \in Jobs : status'[j] = "dead" <=> status[j] = "dead"
      BY <1>0, <2>2, <3>1 DEF TypeOK
    <3>5. Contract!Answer(t.job, t.result)
      BY <2>2, <3>1, <3>3, <3>4 DEF Contract!Answer, None
    <3>6. QED
      BY <3>1, <3>2, <3>5 DEF Contract!ContractNext
  <2>3. QED
    BY <1>3, <2>1, <2>2 DEF Submit
<1>4. ASSUME NEW w \in Workers, Step(w) PROVE [Contract!ContractNext]_(Contract!contractVars)
  <2>1. CASE EndBatch(w) \/ Wake(w) \/ \E t \in tasks[w] : Execute(w, t)
    BY <1>1, <2>1 DEF EndBatch, Wake, Execute, queueVars
  <2>2. QED
    BY <1>3, <1>4, <2>1 DEF Step
<1>5. ASSUME NEW w \in Workers, Crash(w) PROVE UNCHANGED Contract!contractVars
  BY <1>1, <1>5 DEF Crash, queueVars
<1>6. ASSUME NEW j \in Jobs, Expire(j) PROVE [Contract!ContractNext]_(Contract!contractVars)
  <2>1. /\ status[j] = "leased" /\ UNCHANGED answers
        /\ status' = [status EXCEPT ![j] = IF gen[j] < MaxDeliveries THEN "open" ELSE "dead"]
    BY <1>6 DEF Expire
  <2>2. CASE gen[j] < MaxDeliveries
    BY <1>0, <1>1, <2>1, <2>2 DEF TypeOK
  <2>3. CASE ~(gen[j] < MaxDeliveries)
    <3>1. answers[j] = None
      BY <1>0, <2>1 DEF Leases
    <3>2. given' = given \cup {j}
      BY <1>0, <2>1, <2>3 DEF TypeOK
    <3>3. Contract!GiveUp(j)
      BY <2>1, <3>1, <3>2 DEF Contract!GiveUp, None
    <3>4. QED
      BY <3>3 DEF Contract!ContractNext
  <2>4. QED
    BY <2>2, <2>3
<1>7. CASE UNCHANGED vars
  BY <1>1, <1>7 DEF vars, queueVars
<1>8. QED
  BY <1>2, <1>4, <1>5, <1>6, <1>7 DEF Next

\* The workers and their queue keep the contract: each job is answered at most once,
\* by an answer that may be relied on, or given up, and never both.
THEOREM WorkersKeepContract == Spec => KeepsContract
<1>1. QED
  BY ContractInitially, ContractStep, SpecInv, PTL DEF Spec, KeepsContract, Contract!ContractSpec

=============================================================================
