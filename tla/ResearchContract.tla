-------------------------- MODULE ResearchContract --------------------------
(***************************************************************************)
(* What the owner of a research queue is promised by its workers: a job is *)
(* answered once, by an answer that may be relied on, or given up; a job   *)
(* whose execution failed locally has no answer.                           *)
(***************************************************************************)
CONSTANTS Jobs, Reliable, NoAnswer

VARIABLES answer, given  \* the answer of each job; the jobs given up

contractVars == <<answer, given>>

ContractInit == answer = [j \in Jobs |-> NoAnswer] /\ given = {}

Answer(j, a) ==
  /\ j \notin given /\ answer[j] = NoAnswer
  /\ answer' = [answer EXCEPT ![j] = a]
  /\ UNCHANGED given

GiveUp(j) ==
  /\ answer[j] = NoAnswer
  /\ given' = given \cup {j}
  /\ UNCHANGED answer

ContractNext == \E j \in Jobs : GiveUp(j) \/ \E a \in Reliable : Answer(j, a)

ContractSpec == ContractInit /\ [][ContractNext]_contractVars

=============================================================================
