---------------------------- MODULE PlanApproval ----------------------------
(***************************************************************************)
(* The plan approval gate of OpenCode V2: createPlanApprovalGate           *)
(* (runtime/plugins/plan-approval-core.js) and the plugin that feeds it    *)
(* with events and asks it before every tool call                          *)
(* (runtime/plugins/plan-approval-v2.ts).                                  *)
(*                                                                         *)
(* The plugin runs in one JavaScript thread: an event, or a tool call once *)
(* its parent is resolved, is handled without interruption.  What varies   *)
(* is when the host tells what: the parent of a session, the role of a     *)
(* message and the texts of its parts come in any order, more than once.   *)
(***************************************************************************)
EXTENDS Naturals, FiniteSets

CONSTANTS
  Sessions,
  Parent,    \* the session that delegated to each session, "none" for a root
  Messages,  \* [session, role, texts]: the texts are those of its parts
  Mode       \* PLAN_APPROVAL_MODE

Roles == {"user", "assistant"}

\* User texts: APPROVAL_RE, REJECTION_RE or anything else.  Assistant texts: with
\* the marker of a plan, with the one that asks for a new approval, or none.
Texts == {"go", "no", "other", "plan", "reapproval", "plain"}

ASSUME SessionsAssumption ==
  /\ "none" \notin Sessions
  /\ Parent \in [Sessions -> Sessions \cup {"none"}]
ASSUME MessagesAssumption ==
  \A m \in Messages : m.session \in Sessions /\ m.role \in Roles /\ m.texts \subseteq Texts
\* A user answers with a message of its own, and delegates with a prompt that is no
\* bare approval: the messages of role user in a child's session are its prompts.
ASSUME ApprovalsAssumption ==
  \A m \in Messages : m.role = "user" /\ "go" \in m.texts =>
                        Parent[m.session] = "none" /\ m.texts = {"go"}
ASSUME ModeAssumption == Mode \in {"off", "changes", "always"}

VARIABLES
  parents,      \* gate: the parents it knows
  states,       \* gate: the decision about each session, "absent" for none
  processed,    \* gate: the last text handled of each message
  roles,        \* plugin: the messages whose role it knows
  pendingText,  \* plugin: the last text of a message whose role it waits for
  granted,      \* roots whose user has approved what waited, in this turn
  spent         \* messages that were taken for an approval

gateVars == <<parents, states, processed>>
history == <<granted, spent>>
vars == <<gateVars, roles, pendingText, history>>

TypeOK ==
  /\ parents \in [Sessions -> Sessions \cup {"none"}]
  /\ states \in [Sessions -> {"absent", "planning", "waiting", "approved", "rejected"}]
  /\ processed \in [Messages -> Texts \cup {"none"}]
  /\ roles \subseteq Messages
  /\ pendingText \in [Messages -> Texts \cup {"none"}]
  /\ \A m \in roles : pendingText[m] = "none"
  /\ granted \subseteq Sessions
  /\ spent \subseteq Messages

Init ==
  /\ parents = [s \in Sessions |-> "none"]
  /\ states = [s \in Sessions |-> "absent"]
  /\ processed = [m \in Messages |-> "none"]
  /\ roles = {}
  /\ pendingText = [m \in Messages |-> "none"]
  /\ granted = {}
  /\ spent = {}

-----------------------------------------------------------------------------
(* The gate *)

\* The n-th ancestor of s by the parents p, or the last one known.
Ancestor(p, s, n) ==
  LET up[k \in 0..n] == IF k = 0 THEN s
                        ELSE IF p[up[k - 1]] = "none" THEN up[k - 1] ELSE p[up[k - 1]]
  IN up[n]

\* Sessions delegate to new sessions: each chain of parents ends.
ASSUME TreesAssumption ==
  /\ IsFiniteSet(Sessions)
  /\ \A s \in Sessions : Parent[Ancestor(Parent, s, Cardinality(Sessions))] = "none"

\* rootOf: the ancestor without a known parent; on a cycle, the session itself.
RootIn(p, s) ==
  LET top == Ancestor(p, s, Cardinality(Sessions))
  IN IF p[top] = "none" THEN top ELSE s

Root(s) == RootIn(parents, s)

\* stateFor: a session without a decision is planning.
State(s) == IF states[s] = "absent" THEN "planning" ELSE states[s]

Learned(s) == [parents EXCEPT ![s] = IF Parent[s] = "none" THEN @ ELSE Parent[s]]

\* Mutants of Merge: the child's decision replaces the root's; it stays beside it.
MergeChildWins(s) ==
  LET old == Root(s)
      new == RootIn(Learned(s), s)
  IN IF old = new \/ states[old] = "absent" THEN states
     ELSE [states EXCEPT ![new] = states[old], ![old] = "absent"]

MergeKeepsChild(s) ==
  LET old == Root(s)
      new == RootIn(Learned(s), s)
  IN IF old = new \/ states[old] = "absent" \/ states[new] # "absent" THEN states
     ELSE [states EXCEPT ![new] = states[old]]

\* rememberParent: the decisions once the parent of s is known.
Merge(s) ==
  LET old == Root(s)
      new == RootIn(Learned(s), s)
      inherits == \/ states[new] = "absent"
                  \/ states[new] = "planning" /\ states[old] = "waiting"
  IN IF old = new \/ states[old] = "absent" THEN states
     ELSE [states EXCEPT ![new] = IF inherits THEN states[old] ELSE @,
                         ![old] = "absent"]

\* Mutant of IsNew: parts are not deduplicated.
IsAnyText(m, t) == TRUE

IsNew(m, t) == processed[m] # t

\* Mutant of Decided: the approval outlives the user's next request.
DecidedOutlives(s, t) ==
  IF State(s) = "waiting" /\ t \in {"go", "no"}
  THEN IF t = "go" THEN "approved" ELSE "rejected"
  ELSE IF State(s) = "approved" THEN "approved" ELSE "planning"

\* What a text of its user makes of the decision about a root.
Decided(s, t) ==
  IF State(s) = "waiting" /\ t \in {"go", "no"}
  THEN IF t = "go" THEN "approved" ELSE "rejected"
  ELSE "planning"

\* onUserMessage, at the root of its tree.
OnUserMessage(m, t) ==
  LET s == m.session
      approves == State(s) = "waiting" /\ t = "go"
  IN IF Mode # "off" /\ Root(s) = s /\ IsNew(m, t)
     THEN /\ processed' = [processed EXCEPT ![m] = t]
          /\ states' = [states EXCEPT ![s] = Decided(s, t)]
          /\ granted' = IF approves THEN granted \cup {s} ELSE granted \ {s}
          /\ spent' = IF approves THEN spent \cup {m} ELSE spent
     ELSE UNCHANGED <<processed, states, history>>

HasMarker(t) == t \in {"plan", "reapproval"}

OnAssistantText(m, t) ==
  LET root == Root(m.session)
  IN IF Mode # "off" /\ IsNew(m, t)
     THEN /\ processed' = [processed EXCEPT ![m] = t]
          /\ states' = [states EXCEPT ![root] =
                          IF HasMarker(t) /\ @ # "approved" THEN "waiting" ELSE State(root)]
          /\ UNCHANGED history
     ELSE UNCHANGED <<processed, states, history>>

\* toolRequiresPlanApproval, by kind of tool: editors and unknown or writing shell
\* commands; delegation to implementers; to planners; reading; any other tool.
Tools == {"mutation", "implementer", "planner", "discovery", "other"}

Requires(tool) ==
  \/ Mode # "off" /\ tool \in {"mutation", "implementer"}
  \/ Mode = "always" /\ tool \in {"planner", "other"}

\* beforeTool's answer when it needs an approval.
IsAllowed(s) == states[Root(s)] = "approved"

-----------------------------------------------------------------------------
(* The plugin *)

\* session.*: any event with the parent of its session.
SessionUpdated(s) ==
  /\ Parent[s] # "none"
  /\ parents' = Learned(s)
  /\ states' = Merge(s)
  /\ UNCHANGED <<processed, roles, pendingText, history>>

ProcessText(m, t) ==
  /\ m.role = "user" => OnUserMessage(m, t)
  /\ m.role = "assistant" => OnAssistantText(m, t)

\* Mutant of MessageUpdated: the pending text is processed and kept.
MessageUpdatedKeeps(m) ==
  /\ roles' = roles \cup {m}
  /\ IF pendingText[m] # "none"
     THEN ProcessText(m, pendingText[m]) /\ UNCHANGED pendingText
     ELSE UNCHANGED <<processed, states, pendingText, history>>
  /\ UNCHANGED parents

\* message.updated: the role of a message, and the text that waited for it.
MessageUpdated(m) ==
  /\ roles' = roles \cup {m}
  /\ IF pendingText[m] # "none"
     THEN /\ ProcessText(m, pendingText[m])
          /\ pendingText' = [pendingText EXCEPT ![m] = "none"]
     ELSE UNCHANGED <<processed, states, pendingText, history>>
  /\ UNCHANGED parents

\* message.part.updated.
PartUpdated(m, t) ==
  /\ IF m \in roles
     THEN ProcessText(m, t) /\ UNCHANGED pendingText
     ELSE /\ pendingText' = [pendingText EXCEPT ![m] = t]
          /\ UNCHANGED <<processed, states, history>>
  /\ UNCHANGED <<parents, roles>>

\* execute.before: the parent may be found on the way.
ExecuteBefore(s, tool, parentFound) ==
  LET learned == IF parentFound THEN Learned(s) ELSE parents
      merged == IF parentFound THEN Merge(s) ELSE states
      root == RootIn(learned, s)
  IN /\ Mode # "off"
     /\ parents' = learned
     /\ states' = IF Requires(tool) /\ merged[root] # "approved"
                  THEN [merged EXCEPT ![root] = "waiting"] ELSE merged
     /\ UNCHANGED <<processed, roles, pendingText, history>>

Next ==
  \/ \E s \in Sessions : SessionUpdated(s)
  \/ \E m \in Messages : MessageUpdated(m)
  \/ \E m \in Messages : \E t \in m.texts : PartUpdated(m, t)
  \/ \E s \in Sessions, tool \in Tools, parentFound \in BOOLEAN :
       ExecuteBefore(s, tool, parentFound)

Spec == Init /\ [][Next]_vars

-----------------------------------------------------------------------------
(* Properties *)

\* The root a user sees, whatever the gate knows.
VisibleRoot(s) == RootIn(Parent, s)

\* A tool that needs an approval runs only in a tree whose root user has approved
\* what waited, and has said nothing else since: an approval does not leak into
\* later turns or other trees, and what a child did before its parent was known
\* never counts as one.
MutationsApproved == \A s \in Sessions : IsAllowed(s) => VisibleRoot(s) \in granted

\* "only a new root-user turn may change that decision; late child state can never
\* revoke it" (the comment in rememberParent), for approvals: nor can a text of an
\* assistant, the marker that asks for a new approval included ("approved scope is not
\* revoked by legacy reapproval markers", tests/plan_approval_core.test.mjs:144).
\* ReapprovalRevokes is what the manual says instead.
ApprovalStands ==
  [][\A s \in Sessions :
       Parent[s] = "none" /\ states[s] = "approved" /\ states'[s] # "approved" =>
         \E m \in Messages : /\ m.session = s /\ m.role = "user"
                             /\ processed'[m] # processed[m]]_vars

\* What docs/en/RELIABILITY.md:35 says of an agent that asks for a new approval: "The
\* runtime then revokes the current approval until the root user explicitly approves the
\* revised plan."  The code does not: onAssistantText returns when the root is approved.
ReapprovalRevokes ==
  [][\A m \in Messages :
       m.role = "assistant" /\ processed[m] # "reapproval" /\ processed'[m] = "reapproval" =>
         states'[Root(m.session)] # "approved"]_vars

\* One answer approves one plan, however often its part is delivered again.
ApprovalIsFresh ==
  [][\A m \in spent : m.session \in granted' \ granted => spent' # spent]_vars

\* There is one decision per tree of known sessions, at its root: a child keeps no
\* decision of its own that a tool call or an answer could find later.
DecisionsAtRoot == \A s \in Sessions : parents[s] # "none" => states[s] = "absent"

=============================================================================
