--------------------------- MODULE MCPlanApproval ---------------------------
(***************************************************************************)
(* A small instance of PlanApproval for TLC: a root that delegates to a    *)
(* child, which delegates to a leaf.                                       *)
(***************************************************************************)
EXTENDS PlanApproval

Tree == {"root", "child", "leaf"}
TreeParent == [root |-> "none", child |-> "root", leaf |-> "child"]

Said(id, session, role, texts) ==
  [id |-> id, session |-> session, role |-> role, texts |-> texts]

\* Two answers, a further request, a prompt of the root to its child (a message of
\* role user in the child's session, and no bare approval), and two plans.
Dialogue == {
  Said(1, "root", "user", {"go"}),
  Said(2, "root", "user", {"go"}),
  Said(3, "root", "user", {"no", "other"}),
  Said(4, "child", "user", {"other"}),
  Said(5, "leaf", "assistant", {"plain", "plan", "reapproval"})}

=============================================================================
