----------------------------- MODULE AcpContract -----------------------------
(***************************************************************************)
(* What the acp_runner tool promises the parent agent about its sessions   *)
(* (docs/v2/acp-runners.md), with no thread, queue or child process.       *)
(***************************************************************************)
EXTENDS Naturals, FiniteSets

CONSTANTS Sessions, MaxParallel

VARIABLES
  phase,  \* what status says of a session, or the calls that open and close it
  jobs    \* the sessions with a job that has not ended

vars == <<phase, jobs>>

Open == {"opening", "ready", "working", "asking", "failed", "stuck", "closing"}

Init ==
  /\ phase = [s \in Sessions |-> "none"]
  /\ jobs = {}

Become(s, from, to) ==
  /\ phase[s] \in from
  /\ \E p \in to : phase' = [phase EXCEPT ![s] = p]

Ends(s) == s \in jobs /\ jobs' = jobs \ {s}

Start(s) ==
  /\ Cardinality({t \in Sessions : phase[t] \in Open}) < MaxParallel
  /\ Become(s, {"none"}, {"opening"})
  /\ UNCHANGED jobs

\* start returns a session, with a first job or without; or fails and leaves none.
Started(s) ==
  \/ Become(s, {"opening"}, {"ready"}) /\ jobs' \in {jobs, jobs \cup {s}}
  \/ Become(s, {"opening"}, {"closed"}) /\ UNCHANGED jobs

\* message or respond, one at a time.
Submit(s) ==
  /\ phase[s] \in {"ready", "asking", "failed", "stuck"}
  /\ s \notin jobs /\ jobs' = jobs \cup {s}
  /\ UNCHANGED phase

\* A job ends and has changed nothing: it was refused, or its session is being
\* closed, or was closed before.
Refuse(s) == Ends(s) /\ phase[s] # "working" /\ UNCHANGED phase

\* A turn begins, or its prompt cannot be written and the session is stuck.
Message(s) ==
  \/ s \in jobs /\ Become(s, {"ready"}, {"working"}) /\ UNCHANGED jobs
  \/ Ends(s) /\ Become(s, {"ready"}, {"stuck"})

\* A permission is answered.
Answer(s) == s \in jobs /\ Become(s, {"asking"}, {"working"}) /\ UNCHANGED jobs

\* The turn ends, stops at a permission request, or fails.
Settle(s) == Ends(s) /\ Become(s, {"working"}, {"ready", "asking", "failed"})

Close(s) == Become(s, Open \ {"opening", "closing"}, {"closing"}) /\ UNCHANGED jobs

\* close returns; a job that was queued or at work may still be.
Closed(s) == Become(s, {"closing"}, {"closed"}) /\ UNCHANGED jobs

Shutdown ==
  /\ jobs = {}
  /\ phase' = [s \in Sessions |-> IF phase[s] \in Open THEN "closed" ELSE phase[s]]
  /\ UNCHANGED jobs

Next ==
  \/ \E s \in Sessions : \/ Start(s) \/ Started(s) \/ Submit(s) \/ Refuse(s)
                         \/ Message(s) \/ Answer(s) \/ Settle(s)
                         \/ Close(s) \/ Closed(s)
  \/ Shutdown

Spec == Init /\ [][Next]_vars
=============================================================================
