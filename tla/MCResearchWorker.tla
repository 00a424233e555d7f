-------------------------- MODULE MCResearchWorker --------------------------
(***************************************************************************)
(* A worker that polls, one started with --once, and one whose settings    *)
(* contradict each other; two sound jobs, of which one has no generation,  *)
(* and one that sends a remote control.                                    *)
(***************************************************************************)
EXTENDS ResearchWorker

Machines == {"poller", "once", "misset"}
Settled(min, max, parallel) == [pollMin |-> min, pollMax |-> max, maxParallel |-> parallel]
Environment == [poller |-> Settled(1, 3, 2), once |-> Settled(Unset, Unset, Unset),
                misset |-> Settled(60, Unset, 2)]

Keys == {"job_id", "job_type", "subject", "requested_fields", "lease"}
Request(keys, generation) ==
  [keys |-> keys, fields |-> <<"end">>, schemasAgree |-> TRUE, sized |-> TRUE,
   generation |-> generation]
Sent == [lifecycle |-> Request(Keys, "given"), unleased |-> Request(Keys, "none"),
         controlled |-> Request(Keys \cup {"model"}, "given")]

Said(outcome, asserts, evidence) ==
  [keys |-> {"status", "data", "evidence", "confidence"}, status |-> outcome, json |-> TRUE,
   sized |-> TRUE, confidence |-> "HIGH", asserts |-> asserts, evidence |-> evidence]
Run(exit, marked) == [exit |-> exit, marked |-> marked]

\* A proven answer after an unproven one, an unproven one, none, a failure.
Runs == {Run(0, <<Said("SUCCESS", TRUE, 0), Said("SUCCESS", TRUE, 1)>>),
         Run(0, <<Said("PARTIAL", TRUE, 0)>>),
         Run(0, <<>>), Run(1, <<Said("SUCCESS", TRUE, 1)>>)}

=============================================================================
