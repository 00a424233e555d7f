------------------------- MODULE PlanApprovalProofs -------------------------
(***************************************************************************)
(* Proofs about the plan approval gate (module PlanApproval): for any      *)
(* forest of sessions, any messages and any mode, a tool that needs an     *)
(* approval runs only in a tree whose user has approved what waited.       *)
(*                                                                         *)
(* The gate knows a part of the parents, so that the root it computes may  *)
(* be below the real one.  The first part is about roots: what a gate that *)
(* learns of one more parent computes.                                     *)
(***************************************************************************)
EXTENDS PlanApproval, InductionFacts

-----------------------------------------------------------------------------
(* Roots *)

N == Cardinality(Sessions)

\* There are finitely many sessions.
LEMMA NType == N \in Nat
  BY TreesAssumption, FS_CardinalityType DEF N

\* What a gate may know of the parents: some of them.
Known(p) ==
  /\ p \in [Sessions -> Sessions \cup {"none"}]
  /\ \A s \in Sessions : p[s] \in {"none", Parent[s]}

\* The chain of n parents of s, as Ancestor climbs it.
Chain(up, p, s, n) ==
  up = [k \in 0..n |-> IF k = 0 THEN s
                       ELSE IF p[up[k - 1]] = "none" THEN up[k - 1] ELSE p[up[k - 1]]]

\* The recursion is well defined.
LEMMA ChainExists ==
  ASSUME NEW p, NEW s
  PROVE  \A n \in Nat : \E up : Chain(up, p, s, n)
<1> DEFINE P == {n \in Nat : \E up : Chain(up, p, s, n)}
<1>1. 0 \in P
  <2>1. Chain([k \in 0..0 |-> s], p, s, 0)
    BY DEF Chain
  <2>2. QED
    BY <2>1
<1>2. ASSUME NEW n \in Nat, n \in P PROVE n + 1 \in P
  <2>1. PICK up : Chain(up, p, s, n)
    BY <1>2
  <2> DEFINE last == IF p[up[n]] = "none" THEN up[n] ELSE p[up[n]]
             more == [k \in 0..(n + 1) |-> IF k = n + 1 THEN last ELSE up[k]]
  <2>2. Chain(more, p, s, n + 1)
    <3>1. \A k \in 0..n :
            up[k] = IF k = 0 THEN s
                    ELSE IF p[up[k - 1]] = "none" THEN up[k - 1] ELSE p[up[k - 1]]
      BY <2>1 DEF Chain
    <3>2. QED
      BY <3>1 DEF Chain
  <2>3. QED
    BY <2>2
<1> HIDE DEF P
<1>3. Nat \subseteq P
  BY <1>1, <1>2, SetInduction
<1>4. QED
  BY <1>3 DEF P

\* Ancestor is the end of a chain, which climbs one parent at a time.
LEMMA AncestorChain ==
  ASSUME NEW p, NEW s
  PROVE  \E up : /\ up[0] = s /\ Ancestor(p, s, N) = up[N]
                 /\ \A k \in Nat : k + 1 <= N =>
                      up[k + 1] = IF p[up[k]] = "none" THEN up[k] ELSE p[up[k]]
<1> DEFINE up == CHOOSE f : Chain(f, p, s, N)
<1>1. Chain(up, p, s, N)
  BY NType, ChainExists
<1>2. Ancestor(p, s, N) = up[N]
  BY DEF Ancestor, Chain
<1> HIDE DEF up
<1>3. \A k \in 0..N :
        up[k] = IF k = 0 THEN s
                ELSE IF p[up[k - 1]] = "none" THEN up[k - 1] ELSE p[up[k - 1]]
  BY <1>1 DEF Chain
<1>4. up[0] = s
  BY <1>3, NType
<1>5. ASSUME NEW k \in Nat, k + 1 <= N
      PROVE  up[k + 1] = IF p[up[k]] = "none" THEN up[k] ELSE p[up[k]]
  <2>1. k + 1 \in 0..N /\ k + 1 # 0 /\ (k + 1) - 1 = k
    BY <1>5, NType
  <2>2. QED
    BY <1>3, <2>1
<1>6. QED
  BY <1>2, <1>4, <1>5

\* A gate that knows more climbs at least as far: its chain goes on where the other one
\* ends, and only there.
LEMMA AncestorsCompared ==
  ASSUME NEW p, NEW q, Known(p), Known(q), \A x \in Sessions : p[x] \in {"none", q[x]},
         NEW s \in Sessions
  PROVE  LET a == Ancestor(p, s, N)
             b == Ancestor(q, s, N)
         IN a \in Sessions /\ b \in Sessions /\ (a = b \/ (p[a] = "none" /\ q[a] # "none"))
<1>1. PICK up : /\ up[0] = s /\ Ancestor(p, s, N) = up[N]
                /\ \A k \in Nat : k + 1 <= N =>
                     up[k + 1] = IF p[up[k]] = "none" THEN up[k] ELSE p[up[k]]
  BY AncestorChain
<1>2. PICK uq : /\ uq[0] = s /\ Ancestor(q, s, N) = uq[N]
                /\ \A k \in Nat : k + 1 <= N =>
                     uq[k + 1] = IF q[uq[k]] = "none" THEN uq[k] ELSE q[uq[k]]
  BY AncestorChain
<1> DEFINE P == {k \in Nat : k <= N =>
                   /\ up[k] \in Sessions /\ uq[k] \in Sessions
                   /\ up[k] = uq[k] \/ (p[up[k]] = "none" /\ q[up[k]] # "none")}
<1>3. 0 \in P
  BY <1>1, <1>2
<1>4. ASSUME NEW k \in Nat, k \in P PROVE k + 1 \in P
  <2>1. SUFFICES ASSUME k + 1 <= N
                 PROVE  /\ up[k + 1] \in Sessions /\ uq[k + 1] \in Sessions
                        /\ \/ up[k + 1] = uq[k + 1]
                           \/ p[up[k + 1]] = "none" /\ q[up[k + 1]] # "none"
    OBVIOUS
  <2>2. /\ up[k] \in Sessions /\ uq[k] \in Sessions
        /\ up[k] = uq[k] \/ (p[up[k]] = "none" /\ q[up[k]] # "none")
    BY <1>4, <2>1, NType
  <2>3. up[k + 1] = IF p[up[k]] = "none" THEN up[k] ELSE p[up[k]]
    BY <1>1, <2>1
  <2>4. uq[k + 1] = IF q[uq[k]] = "none" THEN uq[k] ELSE q[uq[k]]
    BY <1>2, <2>1
  <2>5. QED
    BY <2>2, <2>3, <2>4 DEF Known
<1> HIDE DEF P
<1>5. N \in P
  BY <1>3, <1>4, SetInduction, NType
<1>6. QED
  BY <1>1, <1>2, <1>5, NType DEF P

\* The root is a session without a known parent.
LEMMA RootEnds ==
  ASSUME NEW p, Known(p), NEW s \in Sessions
  PROVE  RootIn(p, s) \in Sessions /\ p[RootIn(p, s)] = "none"
         /\ RootIn(p, s) = Ancestor(p, s, N)
<1>1. Known(Parent) /\ \A x \in Sessions : p[x] \in {"none", Parent[x]}
  BY SessionsAssumption DEF Known
<1> DEFINE a == Ancestor(p, s, N)
           b == Ancestor(Parent, s, N)
<1>2. a \in Sessions /\ b \in Sessions /\ (a = b \/ (p[a] = "none" /\ Parent[a] # "none"))
  BY <1>1, AncestorsCompared
<1>3. Parent[b] = "none"
  BY TreesAssumption DEF N
<1>4. p[a] = "none"
  BY <1>1, <1>2, <1>3
<1>5. QED
  BY <1>2, <1>4 DEF RootIn, N

\* A root stays one as the gate learns, unless it is told of its parent.
LEMMA RootStays ==
  ASSUME NEW p, NEW q, Known(p), Known(q), \A x \in Sessions : p[x] \in {"none", q[x]},
         NEW s \in Sessions, q[RootIn(p, s)] = "none"
  PROVE  RootIn(q, s) = RootIn(p, s)
  BY AncestorsCompared, RootEnds

\* A session without a known parent is its own root.
LEMMA RootOfRoot ==
  ASSUME NEW p, Known(p), NEW s \in Sessions, p[s] = "none"
  PROVE  RootIn(p, s) = s
<1>1. PICK up : /\ up[0] = s /\ Ancestor(p, s, N) = up[N]
                /\ \A k \in Nat : k + 1 <= N =>
                     up[k + 1] = IF p[up[k]] = "none" THEN up[k] ELSE p[up[k]]
  BY AncestorChain
<1> DEFINE P == {k \in Nat : k <= N => up[k] = s}
<1>2. 0 \in P
  BY <1>1
<1>3. ASSUME NEW k \in Nat, k \in P PROVE k + 1 \in P
  BY <1>1, <1>3, NType
<1> HIDE DEF P
<1>4. N \in P
  BY <1>2, <1>3, SetInduction, NType
<1>5. QED
  BY <1>1, <1>4, NType, RootEnds DEF P

-----------------------------------------------------------------------------
(* The inductive invariant *)

\* Only the user of a real root approves, and nothing has been said since.
ApprovedByUser == \A s \in Sessions : states[s] = "approved" => Parent[s] = "none" /\ s \in granted

\* A message that was taken for an approval has no other text, and that text is the
\* last one handled.
SpentOnce == \A m \in spent : m.texts = {"go"} /\ processed[m] = "go"

\* A text that waits for its role is one of its message.
PendingSaid == \A m \in Messages : pendingText[m] \in m.texts \cup {"none"}

IInv ==
  /\ TypeOK
  /\ Known(parents)
  /\ ApprovedByUser
  /\ DecisionsAtRoot
  /\ SpentOnce
  /\ PendingSaid

\* What a step may not do to an approval: revoke it without a text of its user, or
\* grant it again for a message that was spent.
Stands ==
  \A s \in Sessions :
    Parent[s] = "none" /\ states[s] = "approved" /\ states'[s] # "approved" =>
      \E m \in Messages : /\ m.session = s /\ m.role = "user"
                          /\ processed'[m] # processed[m]
Fresh == \A m \in spent : m.session \in granted' \ granted => spent' # spent

\* At first nothing is known and nothing approved.
LEMMA InitInv == Init => IInv
  BY SessionsAssumption
  DEF Init, IInv, TypeOK, Known, ApprovedByUser, DecisionsAtRoot, SpentOnce, PendingSaid

\* Learning of a parent moves a decision to the new root, but no approval, and leaves
\* none at a session that is no root.
LEMMA LearnedMerge ==
  ASSUME IInv, NEW s \in Sessions
  PROVE  /\ Known(Learned(s))
         /\ Merge(s) \in [Sessions -> {"absent", "planning", "waiting", "approved", "rejected"}]
         /\ \A x \in Sessions : Merge(s)[x] = "approved" <=> states[x] = "approved"
         /\ \A x \in Sessions : Learned(s)[x] # "none" => Merge(s)[x] = "absent"
<1> DEFINE q == Learned(s)
           old == Root(s)
           new == RootIn(q, s)
<1>0. /\ TypeOK /\ Known(parents) /\ ApprovedByUser /\ DecisionsAtRoot
      /\ states \in [Sessions -> {"absent", "planning", "waiting", "approved", "rejected"}]
  BY DEF IInv, TypeOK
<1>1. Known(q) /\ \A x \in Sessions : parents[x] \in {"none", q[x]} /\ (x # s => q[x] = parents[x])
  BY <1>0, SessionsAssumption DEF Learned, Known
<1> HIDE DEF q
<1>2. /\ old \in Sessions /\ parents[old] = "none" /\ new \in Sessions /\ q[new] = "none"
      /\ old = RootIn(parents, s)
  BY <1>0, <1>1, RootEnds DEF Root
<1>3. states[old] = "approved" => old = new
  <2>1. SUFFICES ASSUME states[old] = "approved" PROVE old = new
    OBVIOUS
  <2>2. q[old] = "none"
    BY <1>0, <1>1, <1>2, <2>1 DEF ApprovedByUser, Known
  <2>3. QED
    BY <1>0, <1>1, <1>2, <2>2, RootStays
<1>4. \/ old = new \/ states[old] = "absent"
      \/ /\ old # new /\ states[old] \notin {"absent", "approved"}
         /\ Merge(s) = [states EXCEPT ![new] = IF \/ states[new] = "absent"
                                                  \/ states[new] = "planning" /\ states[old] = "waiting"
                                               THEN states[old] ELSE @,
                                      ![old] = "absent"]
  BY <1>3 DEF Merge, q
<1>5. old = new \/ states[old] = "absent" => Merge(s) = states
  BY DEF Merge, q
<1> HIDE DEF old, new
<1>6. /\ Merge(s) \in [Sessions -> {"absent", "planning", "waiting", "approved", "rejected"}]
      /\ \A x \in Sessions : Merge(s)[x] = "approved" <=> states[x] = "approved"
      /\ \A x \in Sessions : x # new /\ states[x] = "absent" => Merge(s)[x] = "absent"
      /\ old = new \/ Merge(s)[old] = "absent"
  BY <1>0, <1>2, <1>4, <1>5
<1>7. ASSUME NEW x \in Sessions, q[x] # "none" PROVE Merge(s)[x] = "absent"
  <2>1. x # new
    BY <1>2, <1>7
  <2>2. CASE parents[x] # "none"
    BY <1>0, <1>6, <2>1, <2>2 DEF DecisionsAtRoot
  <2>3. CASE parents[x] = "none"
    <3>1. x = s
      BY <1>1, <1>7, <2>3
    <3>2. old = x
      BY <1>0, <1>2, <2>3, <3>1, RootOfRoot
    <3>3. QED
      BY <1>6, <2>1, <3>2
  <2>4. QED
    BY <2>2, <2>3
<1>8. QED
  BY <1>1, <1>6, <1>7 DEF q

-----------------------------------------------------------------------------
(* The steps *)

\* A text of a message whose role is known.
LEMMA ProcessStep ==
  ASSUME IInv, NEW m \in Messages, NEW t \in m.texts, ProcessText(m, t), UNCHANGED parents,
         roles' \subseteq Messages, pendingText' \in [Messages -> Texts \cup {"none"}],
         \A x \in roles' : pendingText'[x] = "none", PendingSaid'
  PROVE  IInv' /\ Stands /\ Fresh
<1>0. TypeOK /\ Known(parents) /\ ApprovedByUser /\ DecisionsAtRoot /\ SpentOnce
  BY DEF IInv
<1>1. m.session \in Sessions /\ m.role \in {"user", "assistant"} /\ t \in Texts /\ t # "none"
  BY MessagesAssumption DEF Roles, Texts
<1> DEFINE s == m.session
           Statuses == {"absent", "planning", "waiting", "approved", "rejected"}
<1>2. /\ parents' = parents /\ states \in [Sessions -> Statuses]
      /\ processed \in [Messages -> Texts \cup {"none"}]
      /\ granted \subseteq Sessions /\ spent \subseteq Messages
  BY <1>0 DEF TypeOK
<1>3. CASE UNCHANGED <<processed, states, history>>
  BY <1>0, <1>3 DEF IInv, TypeOK, ApprovedByUser, DecisionsAtRoot, SpentOnce, Stands, Fresh, history
<1>4. CASE /\ m.role = "user" /\ Root(s) = s /\ IsNew(m, t)
           /\ processed' = [processed EXCEPT ![m] = t]
           /\ states' = [states EXCEPT ![s] = Decided(s, t)]
           /\ granted' = IF State(s) = "waiting" /\ t = "go" THEN granted \cup {s} ELSE granted \ {s}
           /\ spent' = IF State(s) = "waiting" /\ t = "go" THEN spent \cup {m} ELSE spent
  <2>1. /\ processed'[m] = t /\ processed[m] # t
        /\ processed' \in [Messages -> Texts \cup {"none"}]
        /\ \A x \in Messages : x # m => processed'[x] = processed[x]
    BY <1>1, <1>2, <1>4 DEF IsNew
  <2>2. /\ Decided(s, t) \in Statuses
        /\ Decided(s, t) = "approved" <=> State(s) = "waiting" /\ t = "go"
    BY DEF Decided
  <2>3. /\ states' \in [Sessions -> Statuses] /\ states'[s] = Decided(s, t)
        /\ \A x \in Sessions : x # s => states'[x] = states[x]
    BY <1>1, <1>2, <1>4, <2>2
  <2>4. TypeOK'
    BY <1>0, <1>1, <1>2, <1>4, <2>1, <2>3 DEF TypeOK
  <2>5. t = "go" => Parent[s] = "none" /\ m.texts = {"go"}
    BY <1>4, ApprovalsAssumption
  <2>6. ApprovedByUser'
    BY <1>0, <1>1, <1>4, <2>2, <2>3, <2>5 DEF ApprovedByUser
  <2>7. parents[s] = "none"
    BY <1>0, <1>1, <1>4, RootEnds DEF Root
  <2>8. DecisionsAtRoot'
    BY <1>0, <1>2, <2>3, <2>7 DEF DecisionsAtRoot
  <2>9. SpentOnce'
    BY <1>0, <1>2, <1>4, <2>1, <2>5 DEF SpentOnce
  <2>10. Stands
    BY <1>4, <2>1, <2>3 DEF Stands
  <2>11. Fresh
    <3>1. m \notin spent \/ t # "go"
      BY <1>0, <2>1 DEF SpentOnce
    <3>2. QED
      BY <1>4, <3>1 DEF Fresh
  <2>12. QED
    BY <1>0, <1>2, <2>4, <2>6, <2>8, <2>9, <2>10, <2>11 DEF IInv, Known
<1>5. CASE /\ m.role = "assistant" /\ IsNew(m, t)
           /\ processed' = [processed EXCEPT ![m] = t]
           /\ states' = [states EXCEPT ![Root(s)] =
                           IF HasMarker(t) /\ @ # "approved" THEN "waiting" ELSE State(Root(s))]
           /\ UNCHANGED history
  <2> DEFINE r == Root(s)
  <2>1. r \in Sessions /\ parents[r] = "none"
    BY <1>0, <1>1, RootEnds DEF Root
  <2> HIDE DEF r
  <2>2. /\ states'[r] = IF HasMarker(t) /\ states[r] # "approved" THEN "waiting" ELSE State(r)
        /\ \A x \in Sessions : x # r => states'[x] = states[x]
        /\ states' \in [Sessions -> Statuses]
    BY <1>2, <1>5, <2>1 DEF State, r
  <2>3. \A x \in Sessions : states'[x] = "approved" <=> states[x] = "approved"
    BY <2>1, <2>2 DEF State
  <2>4. /\ processed' \in [Messages -> Texts \cup {"none"}] /\ processed'[m] = t
        /\ \A x \in Messages : x # m => processed'[x] = processed[x]
    BY <1>1, <1>2, <1>5
  <2>5. TypeOK'
    BY <1>0, <1>2, <1>5, <2>2, <2>4 DEF TypeOK, history
  <2>6. ApprovedByUser' /\ Stands
    BY <1>0, <1>5, <2>3 DEF ApprovedByUser, Stands, history
  <2>7. DecisionsAtRoot'
    BY <1>0, <1>2, <2>1, <2>2 DEF DecisionsAtRoot
  <2>8. SpentOnce' /\ Fresh
    BY <1>0, <1>2, <1>5, <2>4 DEF SpentOnce, Fresh, history
  <2>9. QED
    BY <1>0, <1>2, <2>5, <2>6, <2>7, <2>8 DEF IInv, Known
<1>6. QED
  BY <1>1, <1>3, <1>4, <1>5 DEF ProcessText, OnUserMessage, OnAssistantText

\* A parent that is told by an event, or found by a tool call, and the decision that
\* waits when the tool is blocked.
LEMMA ParentStep ==
  ASSUME IInv, NEW s \in Sessions, NEW learned, NEW merged,
         \/ learned = Learned(s) /\ merged = Merge(s)
         \/ learned = parents /\ merged = states,
         parents' = learned,
         \/ states' = merged
         \/ /\ merged[RootIn(learned, s)] # "approved"
            /\ states' = [merged EXCEPT ![RootIn(learned, s)] = "waiting"],
         UNCHANGED <<processed, roles, pendingText, history>>
  PROVE  IInv' /\ Stands /\ Fresh
<1>0. TypeOK /\ Known(parents) /\ ApprovedByUser /\ DecisionsAtRoot /\ SpentOnce /\ PendingSaid
  BY DEF IInv
<1> DEFINE Statuses == {"absent", "planning", "waiting", "approved", "rejected"}
           r == RootIn(learned, s)
<1>1. /\ Known(learned) /\ merged \in [Sessions -> Statuses]
      /\ \A x \in Sessions : merged[x] = "approved" <=> states[x] = "approved"
      /\ \A x \in Sessions : learned[x] # "none" => merged[x] = "absent"
  <2>1. CASE learned = Learned(s) /\ merged = Merge(s)
    BY <2>1, LearnedMerge
  <2>2. CASE learned = parents /\ merged = states
    BY <1>0, <2>2 DEF TypeOK, DecisionsAtRoot
  <2>3. QED
    BY <2>1, <2>2
<1>2. r \in Sessions /\ learned[r] = "none"
  BY <1>1, RootEnds
<1> HIDE DEF r
<1>3. /\ states' \in [Sessions -> Statuses]
      /\ \A x \in Sessions : states'[x] = "approved" <=> states[x] = "approved"
      /\ \A x \in Sessions : learned[x] # "none" => states'[x] = "absent"
  <2>1. CASE states' = merged
    BY <1>1, <2>1
  <2>2. CASE merged[r] # "approved" /\ states' = [merged EXCEPT ![r] = "waiting"]
    BY <1>1, <1>2, <2>2
  <2>3. QED
    BY <2>1, <2>2 DEF r
<1>4. TypeOK' /\ Known(parents')
  BY <1>0, <1>1, <1>3 DEF TypeOK, Known, history
<1>5. ApprovedByUser' /\ Stands
  BY <1>0, <1>3 DEF ApprovedByUser, Stands, history
<1>6. DecisionsAtRoot'
  BY <1>3 DEF DecisionsAtRoot
<1>7. SpentOnce' /\ PendingSaid' /\ Fresh
  BY <1>0 DEF SpentOnce, PendingSaid, Fresh, history
<1>8. QED
  BY <1>4, <1>5, <1>6, <1>7 DEF IInv, Known

\* Each step keeps the invariant and the approvals.
LEMMA StepInv == IInv /\ [Next]_vars => IInv' /\ Stands /\ Fresh
<1> SUFFICES ASSUME IInv, [Next]_vars PROVE IInv' /\ Stands /\ Fresh
  OBVIOUS
<1>0. TypeOK /\ PendingSaid
  BY DEF IInv
<1>1. ASSUME NEW s \in Sessions, SessionUpdated(s) PROVE IInv' /\ Stands /\ Fresh
  BY <1>1, ParentStep DEF SessionUpdated
<1>2. ASSUME NEW m \in Messages, MessageUpdated(m) PROVE IInv' /\ Stands /\ Fresh
  <2>1. CASE pendingText[m] # "none"
    <3>1. /\ ProcessText(m, pendingText[m]) /\ UNCHANGED parents /\ roles' = roles \cup {m}
          /\ pendingText' = [pendingText EXCEPT ![m] = "none"]
      BY <1>2, <2>1 DEF MessageUpdated
    <3>2. pendingText[m] \in m.texts
      BY <1>0, <2>1 DEF PendingSaid
    <3>3. /\ pendingText' \in [Messages -> Texts \cup {"none"}] /\ pendingText'[m] = "none"
          /\ \A x \in Messages : x # m => pendingText'[x] = pendingText[x]
      BY <1>0, <3>1 DEF TypeOK
    <3>4. roles' \subseteq Messages /\ \A x \in roles' : pendingText'[x] = "none"
      BY <1>0, <3>1, <3>3 DEF TypeOK
    <3>5. PendingSaid'
      BY <1>0, <3>3 DEF PendingSaid
    <3>6. QED
      BY <3>1, <3>2, <3>3, <3>4, <3>5, ProcessStep
  <2>2. CASE pendingText[m] = "none"
    <3>1. roles' = roles \cup {m} /\ UNCHANGED <<parents, processed, states, pendingText, history>>
      BY <1>2, <2>2 DEF MessageUpdated
    <3>2. TypeOK'
      BY <1>0, <2>2, <3>1 DEF TypeOK, history
    <3>3. QED
      BY <3>1, <3>2 DEF IInv, Known, ApprovedByUser, DecisionsAtRoot, SpentOnce, PendingSaid,
                        Stands, Fresh, history
  <2>3. QED
    BY <2>1, <2>2
<1>3. ASSUME NEW m \in Messages, NEW t \in m.texts, PartUpdated(m, t)
      PROVE  IInv' /\ Stands /\ Fresh
  <2>1. CASE m \in roles
    <3>1. ProcessText(m, t) /\ UNCHANGED <<pendingText, parents, roles>>
      BY <1>3, <2>1 DEF PartUpdated
    <3>2. QED
      BY <1>0, <3>1, ProcessStep DEF TypeOK, PendingSaid
  <2>2. CASE m \notin roles
    <3>1. /\ pendingText' = [pendingText EXCEPT ![m] = t]
          /\ UNCHANGED <<processed, states, history, parents, roles>>
      BY <1>3, <2>2 DEF PartUpdated
    <3>2. t \in Texts
      BY MessagesAssumption
    <3>3. TypeOK' /\ PendingSaid'
      BY <1>0, <2>2, <3>1, <3>2 DEF TypeOK, PendingSaid, history
    <3>4. QED
      BY <3>1, <3>3 DEF IInv, Known, ApprovedByUser, DecisionsAtRoot, SpentOnce,
                        Stands, Fresh, history
  <2>3. QED
    BY <2>1, <2>2
<1>4. ASSUME NEW s \in Sessions, NEW tool \in Tools, NEW parentFound \in BOOLEAN,
             ExecuteBefore(s, tool, parentFound)
      PROVE  IInv' /\ Stands /\ Fresh
  <2> DEFINE learned == IF parentFound THEN Learned(s) ELSE parents
             merged == IF parentFound THEN Merge(s) ELSE states
  <2>1. /\ parents' = learned
        /\ states' = IF Requires(tool) /\ merged[RootIn(learned, s)] # "approved"
                     THEN [merged EXCEPT ![RootIn(learned, s)] = "waiting"] ELSE merged
        /\ UNCHANGED <<processed, roles, pendingText, history>>
    BY <1>4 DEF ExecuteBefore
  <2>2. \/ learned = Learned(s) /\ merged = Merge(s)
        \/ learned = parents /\ merged = states
    OBVIOUS
  <2> HIDE DEF learned, merged
  <2>3. QED
    BY <2>1, <2>2, ParentStep
<1>5. CASE UNCHANGED vars
  BY <1>0, <1>5 DEF vars, gateVars, history, IInv, TypeOK, Known, ApprovedByUser, DecisionsAtRoot,
                    SpentOnce, PendingSaid, Stands, Fresh
<1>6. QED
  BY <1>1, <1>2, <1>3, <1>4, <1>5 DEF Next

\* The inductive invariant holds in every reachable state.
LEMMA SpecInv == Spec => []IInv
<1>1. QED
  BY InitInv, StepInv, PTL DEF Spec

-----------------------------------------------------------------------------
(* The theorems *)

\* The gate keeps its types, whatever order events and tool calls come in.
THEOREM GateTypeCorrect == Spec => []TypeOK
<1>1. IInv => TypeOK
  BY DEF IInv
<1>2. QED
  BY <1>1, SpecInv, PTL

\* A tool that needs an approval is let through only in a tree whose root user has
\* approved what waited, and has said nothing else since; for any forest of sessions
\* and whatever the gate knows of it.
THEOREM MutationsNeedApproval == Spec => []MutationsApproved
<1>1. IInv => MutationsApproved
  <2> SUFFICES ASSUME IInv, NEW s \in Sessions, IsAllowed(s) PROVE VisibleRoot(s) \in granted
    BY DEF MutationsApproved
  <2>1. Known(parents) /\ Known(Parent) /\ \A x \in Sessions : parents[x] \in {"none", Parent[x]}
    BY SessionsAssumption DEF IInv, Known
  <2>2. Root(s) \in Sessions /\ states[Root(s)] = "approved"
    BY <2>1, RootEnds DEF Root, IsAllowed
  <2>3. Parent[Root(s)] = "none" /\ Root(s) \in granted
    BY <2>2 DEF IInv, ApprovedByUser
  <2>4. VisibleRoot(s) = Root(s)
    BY <2>1, <2>3, RootStays DEF Root, VisibleRoot
  <2>5. QED
    BY <2>3, <2>4
<1>2. QED
  BY <1>1, SpecInv, PTL

\* A tree of known sessions has one decision, at its root: nothing a child did before
\* its parent was known is found later.
THEOREM OneDecisionPerTree == Spec => []DecisionsAtRoot
<1>1. IInv => DecisionsAtRoot
  BY DEF IInv
<1>2. QED
  BY <1>1, SpecInv, PTL

\* An approval is only revoked by a text of the user of its root, never by a child's
\* late event or tool call.
THEOREM ApprovalOnlyByUser == Spec => ApprovalStands
<1>1. IInv /\ [Next]_vars => [Stands]_vars
  BY StepInv
<1>2. QED
  BY <1>1, SpecInv, PTL DEF Spec, ApprovalStands, Stands

\* A message that was taken for an approval approves nothing again, however often its
\* parts are delivered.
THEOREM ApprovalNotReused == Spec => ApprovalIsFresh
<1>1. IInv /\ [Next]_vars => [Fresh]_vars
  BY StepInv
<1>2. QED
  BY <1>1, SpecInv, PTL DEF Spec, ApprovalIsFresh, Fresh

=============================================================================
