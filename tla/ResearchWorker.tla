--------------------------- MODULE ResearchWorker ---------------------------
(***************************************************************************)
(* The research workers (tools/research_worker): each polls an external    *)
(* queue for jobs, has OpenCode execute them in a pool of threads and      *)
(* submits what it validated.  The queue leases a job under a generation,  *)
(* takes it back when the lease expires, and gives it up after             *)
(* MaxDeliveries leases; requests fail, answers get lost, workers die.     *)
(***************************************************************************)
EXTENDS Integers, Sequences, FiniteSets

CONSTANTS
  Workers,
  Env,            \* the environment of each worker, see Settings
  Once,           \* workers started with --once
  Jobs,
  Payload,        \* the JSON of each job, see Parses
  Outputs,        \* what a run of OpenCode may print, see Marked
  MaxDeliveries   \* the queue's dead-letter policy

ASSUME QueueAssumption == IsFiniteSet(Jobs) /\ MaxDeliveries \in Nat \ {0}
ASSUME EnvAssumption ==
  \A w \in Workers : Env[w] \in [pollMin : Int, pollMax : Int, maxParallel : Int]

VARIABLES
  status,   \* queue: each job is "open", "leased", "done" or "dead"
  gen,      \* queue: the generation of its last lease
  answers,  \* queue: the answer of each job, and the generation of its execution
  phase,    \* each worker: "claim", "batch", "sleep" or "stopped"
  tasks,    \* each worker: its batch, [job, gen, result]
  succeeded,\* each worker: some task of the batch was submitted
  delay     \* each worker: its back-off

queueVars == <<status, gen, answers>>
workerVars == <<phase, tasks, succeeded, delay>>
vars == <<queueVars, workerVars>>

-----------------------------------------------------------------------------
(* settings.py *)

\* _int_env: an unset variable has its default.
Unset == -1
IntEnv(raw, default) == IF raw = Unset THEN default ELSE raw

Settings(w) ==
  [pollMin |-> IntEnv(Env[w].pollMin, 5),
   pollMax |-> IntEnv(Env[w].pollMax, 30),
   maxParallel |-> IntEnv(Env[w].maxParallel, 1)]

\* load_settings and main: a value out of its range ends the process, also the
\* default of the longest delay below a shortest delay that was set.
Starts(w) ==
  /\ Settings(w).pollMin \in 1..3600
  /\ Settings(w).pollMax \in Settings(w).pollMin..3600
  /\ Settings(w).maxParallel \in 1..8

MaxParallel(w) == Settings(w).maxParallel

-----------------------------------------------------------------------------
(* contracts.py *)

Allowed == {"job_id", "id", "job_type", "subject", "requested_fields", "requirements",
            "schema_version", "target_schema", "result_schema", "metadata", "priority", "lease"}

\* parse_external_job: the keys of the envelope, the fields that are asked for, the
\* schemas and the generation; sized: every string and object is within its limit.
Parses(job) ==
  /\ job.keys \subseteq Allowed
  /\ {"job_id", "id"} \cap job.keys # {}
  /\ {"job_type", "subject", "requested_fields"} \subseteq job.keys
  /\ job.fields # <<>> /\ Len(job.fields) <= 64
  /\ Cardinality({job.fields[i] : i \in 1..Len(job.fields)}) = Len(job.fields)
  /\ {"target_schema", "result_schema"} \subseteq job.keys => job.schemasAgree
  /\ job.generation = "none" \/ job.generation = "given"
  /\ job.sized

\* Mutant of Validates: an assertion needs no evidence.
ValidatesUnproven(out) ==
  /\ out.keys \subseteq {"status", "data", "evidence", "confidence", "warnings"}
  /\ out.status \in {"SUCCESS", "PARTIAL", "NO_DATA", "CONFLICT", "FAILED"}
  /\ out.confidence \in {"HIGH", "MEDIUM", "LOW"} /\ out.sized
  /\ out.status = "NO_DATA" => ~out.asserts

\* validate_research_output; asserts: data is not {}, null or [].
Validates(out) ==
  /\ out.keys \subseteq {"status", "data", "evidence", "confidence", "warnings"}
  /\ out.status \in {"SUCCESS", "PARTIAL", "NO_DATA", "CONFLICT", "FAILED"}
  /\ out.confidence \in {"HIGH", "MEDIUM", "LOW"} /\ out.sized
  /\ out.status \in {"SUCCESS", "PARTIAL", "CONFLICT"} /\ out.asserts => out.evidence > 0
  /\ out.status = "NO_DATA" => ~out.asserts

\* parse_marked_result and execute: a run that exits with 0 in time has the result
\* on its last marked line, if that one is valid.
HasResult(run) ==
  /\ run.exit = 0
  /\ run.marked # <<>>
  /\ run.marked[Len(run.marked)].json /\ Validates(run.marked[Len(run.marked)])

Result(run) == run.marked[Len(run.marked)]

-----------------------------------------------------------------------------
(* worker.py and client.py *)

NoResult == [status |-> "none"]
None == [gen |-> 0, result |-> NoResult]

Init ==
  /\ status = [j \in Jobs |-> "open"]
  /\ gen = [j \in Jobs |-> 0]
  /\ answers = [j \in Jobs |-> None]
  /\ phase = [w \in Workers |-> IF Starts(w) THEN "claim" ELSE "stopped"]
  /\ tasks = [w \in Workers |-> {}]
  /\ succeeded = [w \in Workers |-> FALSE]
  /\ delay = [w \in Workers |-> Settings(w).pollMin]

\* run_forever goes to sleep; run_once of a --once worker returns or raises.
Rest(w) == phase' = [phase EXCEPT ![w] = IF w \in Once THEN "stopped" ELSE "sleep"]

\* claim: one job that does not parse rejects the batch.
Accepts(w, batch) ==
  Cardinality(batch) <= MaxParallel(w) /\ \A j \in batch : Parses(Payload[j])

\* The queue leases some jobs to w; its answer arrives, fails (ResearchApiError) or
\* times out while it is read, an exception nothing catches.
Claim(w, batch) ==
  /\ phase[w] = "claim"
  /\ \A j \in batch : status[j] = "open"
  /\ status' = [j \in Jobs |-> IF j \in batch THEN "leased" ELSE status[j]]
  /\ gen' = [j \in Jobs |-> IF j \in batch THEN gen[j] + 1 ELSE gen[j]]
  /\ \/ /\ batch # {} /\ Accepts(w, batch)
        /\ phase' = [phase EXCEPT ![w] = "batch"]
        /\ tasks' = [tasks EXCEPT ![w] = {[job |-> j, gen |-> gen'[j], result |-> NoResult] : j \in batch}]
        /\ succeeded' = [succeeded EXCEPT ![w] = FALSE]
     \/ Rest(w) /\ UNCHANGED <<tasks, succeeded>>
     \/ phase' = [phase EXCEPT ![w] = "stopped"] /\ UNCHANGED <<tasks, succeeded>>
  /\ UNCHANGED <<answers, delay>>

Without(w, t) == [tasks EXCEPT ![w] = @ \ {t}]

\* _process until it submits: an execution that fails, or runs into its timeout,
\* ends the task; the lease is left to expire.
Execute(w, t) ==
  /\ t \in tasks[w] /\ t.result = NoResult
  /\ \E run \in Outputs :
       tasks' = IF HasResult(run)
                THEN [tasks EXCEPT ![w] = (@ \ {t}) \cup {[t EXCEPT !.result = Result(run)]}]
                ELSE Without(w, t)
  /\ UNCHANGED <<queueVars, phase, succeeded, delay>>

\* Mutant of Generation: the generation is taken when the result is sent.
GenerationNow(t) == gen[t.job]

Generation(t) == t.gen

\* submit: the queue takes the answer of the lease it knows.  The request, or what
\* the queue says of it, may get lost; a job without a generation is not submitted.
Submit(w, t) ==
  /\ t \in tasks[w] /\ t.result # NoResult
  /\ \E arrives, confirmed \in BOOLEAN :
       /\ confirmed => arrives
       /\ arrives => Payload[t.job].generation = "given"
       /\ IF arrives /\ status[t.job] = "leased" /\ Generation(t) = gen[t.job]
          THEN /\ status' = [status EXCEPT ![t.job] = "done"]
               /\ answers' = [answers EXCEPT ![t.job] = [gen |-> t.gen, result |-> t.result]]
          ELSE UNCHANGED <<status, answers>>
       /\ succeeded' = [succeeded EXCEPT ![w] = @ \/ confirmed]
  /\ tasks' = Without(w, t)
  /\ UNCHANGED <<gen, phase, delay>>

\* Mutant of EndBatch: the first failure of a batch is raised.
EndBatchRaises(w) ==
  /\ phase[w] = "batch" /\ tasks[w] = {}
  /\ IF succeeded[w] /\ w \notin Once
     THEN /\ phase' = [phase EXCEPT ![w] = "claim"]
          /\ delay' = [delay EXCEPT ![w] = Settings(w).pollMin]
     ELSE phase' = [phase EXCEPT ![w] = "batch"] /\ UNCHANGED delay
  /\ UNCHANGED <<queueVars, tasks, succeeded>>

\* The pool is empty: run_once returns, and run_forever asks again at once.
EndBatch(w) ==
  /\ phase[w] = "batch" /\ tasks[w] = {}
  /\ IF succeeded[w] /\ w \notin Once
     THEN /\ phase' = [phase EXCEPT ![w] = "claim"]
          /\ delay' = [delay EXCEPT ![w] = Settings(w).pollMin]
     ELSE Rest(w) /\ UNCHANGED delay
  /\ UNCHANGED <<queueVars, tasks, succeeded>>

Least(a, b) == IF a < b THEN a ELSE b

\* Mutant of NextDelay: the back-off has no limit.
NextDelayUnbounded(w) == delay[w] * 2

NextDelay(w) == Least(Settings(w).pollMax, delay[w] * 2)

Wake(w) ==
  /\ phase[w] = "sleep"
  /\ phase' = [phase EXCEPT ![w] = "claim"]
  /\ delay' = [delay EXCEPT ![w] = NextDelay(w)]
  /\ UNCHANGED <<queueVars, tasks, succeeded>>

Crash(w) ==
  /\ phase[w] # "stopped"
  /\ phase' = [phase EXCEPT ![w] = "stopped"]
  /\ tasks' = [tasks EXCEPT ![w] = {}]
  /\ UNCHANGED <<queueVars, succeeded, delay>>

\* The queue: a lease runs out.
Expire(j) ==
  /\ status[j] = "leased"
  /\ status' = [status EXCEPT ![j] = IF gen[j] < MaxDeliveries THEN "open" ELSE "dead"]
  /\ UNCHANGED <<gen, answers, workerVars>>

Step(w) ==
  \/ EndBatch(w) \/ Wake(w)
  \/ \E t \in tasks[w] : Execute(w, t) \/ Submit(w, t)

\* What the queue may answer a claim with: it may exceed the limit it was given.
Offers(w) == IF phase[w] # "claim" THEN {}
             ELSE {batch \in SUBSET Jobs : Cardinality(batch) <= MaxParallel(w) + 1}

ClaimSome(w) == \E batch \in Offers(w) : Claim(w, batch)

Next ==
  \/ \E w \in Workers : ClaimSome(w) \/ Step(w) \/ Crash(w)
  \/ \E j \in Jobs : Expire(j)

ClaimOf(j) == \E w \in Workers : \E batch \in Offers(w) : j \in batch /\ Claim(w, batch)

\* Executions and requests have timeouts and the pool runs them all; leases expire;
\* a queue that is asked again and again does not withhold a job for ever.
Fairness ==
  /\ \A w \in Workers : WF_vars(Step(w)) /\ WF_vars(ClaimSome(w))
  /\ \A j \in Jobs : WF_vars(Expire(j)) /\ SF_vars(ClaimOf(j))

Spec == Init /\ [][Next]_vars /\ Fairness

-----------------------------------------------------------------------------
(* Properties *)

Lines == UNION {{run.marked[i] : i \in 1..Len(run.marked)} : run \in Outputs}

ASSUME OutputsAssumption == \A run \in Outputs : run.marked \in Seq(Lines)

Task == [job : Jobs, gen : 1..MaxDeliveries, result : Lines \cup {NoResult}]

TypeOK ==
  /\ status \in [Jobs -> {"open", "leased", "done", "dead"}]
  /\ gen \in [Jobs -> 0..MaxDeliveries]
  /\ answers \in [Jobs -> {None} \cup [gen : 1..MaxDeliveries, result : Lines]]
  /\ phase \in [Workers -> {"claim", "batch", "sleep", "stopped"}]
  /\ succeeded \in [Workers -> BOOLEAN]
  /\ delay \in [Workers -> Int] /\ tasks \in [Workers -> SUBSET Task]
  /\ \A w \in Workers :
       /\ Starts(w) => delay[w] \in Settings(w).pollMin..Settings(w).pollMax
       /\ \A t \in tasks[w] : t.gen <= gen[t.job]

\* The answer of a job comes from the execution of its last lease: one that was
\* taken back while its worker still executed it never answers for the next.
AnswerOfLastLease == \A j \in Jobs : status[j] = "done" => answers[j].gen = gen[j]

\* Asserted data has evidence; data is never asserted together with NO_DATA.
Reliable == {out \in Lines : IF out.status = "NO_DATA" THEN ~out.asserts
                             ELSE out.status # "FAILED" /\ out.asserts => out.evidence > 0}

Contract == INSTANCE ResearchContract WITH
  Reliable <- Reliable,
  NoAnswer <- NoResult,
  answer <- [j \in Jobs |-> answers[j].result],
  given <- {j \in Jobs : status[j] = "dead"}

\* Two workers, late answers, lost confirmations and failed executions: the owner of
\* the queue sees each job answered once, reliably, or given up.
KeepsContract == Contract!ContractSpec

\* No job hangs: whatever fails on the way, it is answered or given up as long as a
\* worker lives, also next to jobs that no worker accepts.
JobsSettle ==
  \A j \in Jobs : <>(status[j] \in {"done", "dead"} \/ \A w \in Workers : phase[w] = "stopped")

=============================================================================
