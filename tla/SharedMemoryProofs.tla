------------------------- MODULE SharedMemoryProofs -------------------------
(***************************************************************************)
(* Proofs about the shared memory (module SharedMemory) and the handshakes *)
(* of its MCP servers (module McpStdio): for any number of processes, any  *)
(* checkouts, commands and limits, what is reported is stored where it is  *)
(* looked for, once, and a search finds it; and no call waits for a lock   *)
(* that nobody works under.                                                *)
(***************************************************************************)
EXTENDS SharedMemory, InductionFacts

-----------------------------------------------------------------------------
(* The inductive invariant *)

\* The handshake that is finished, or under way, belongs to the era.
Negotiating ==
  \A s \in Servers : /\ initialized[s] => era[s] = "legacy"
                     /\ ready[s] => era[s] = "modern" \/ initialized[s]

\* Remembering is always about a candidate.
Remembering == {"lock", "check", "create", "unlock", "raise"}
Working == \A p \in Servers : pc[p] \in Remembering => batch[p] # <<>>

\* In PostgreSQL whoever passed the lock of a fact holds it, alone.
Locked ==
  backend = "postgres" =>
    /\ \A p \in Servers : pc[p] \in Remembering \ {"lock"} => [key |-> Key(p), by |-> p] \in locks
    /\ \A l, m \in locks : l.key = m.key => l = m

\* The copies of a fact that are stored and those that are about to be.
Creating(ns, text) == {p \in Servers : pc[p] = "create" /\ Key(p) = <<ns, text>>}
Writers == IF backend = "postgres" THEN 1 ELSE Cardinality(Servers)
Fits(ns, text) == IsShort(text) /\ ~Crowded(ns, text[1])
CopiesBounded ==
  \A ns \in Namespaces : \A text \in Texts :
    Fits(ns, text) => Copies(ns, text) + Cardinality(Creating(ns, text)) <= Writers

\* What is reported is a row of the namespace of its kind.
AckedStored == \A a \in acked : Stored(a.text) \in Rows(NamespaceOf(a.by, a.kind))

\* A search that has read the rows of its project has those that were known, or as
\* many results as it may have.
Finds(p, a) == \E i \in 1..Len(found[p]) : found[p][i] = Stored(a.text)
ProjectRead ==
  \A p \in Servers : pc[p] = "global" =>
    \/ Len(found[p]) = SearchLimit
    \/ \A a \in known[p] : NamespaceOf(a.by, a.kind) = Project(p) /\ a.text[1] = query[p] =>
         Finds(p, a)

IInv == /\ TypeOK /\ Negotiating /\ Working /\ Locked
        /\ CopiesBounded /\ AckedStored /\ ProjectRead

-----------------------------------------------------------------------------
(* Texts, rows and results *)

Kinds == ProjectKinds \cup GlobalKinds
Words == {c.text : c \in Candidates}

\* A row keeps the beginning of a text, and is what is stored of itself.
LEMMA StoredTexts ==
  /\ \A c \in Candidates : c.kind \in Kinds /\ c.text \in Words
  /\ \A t \in Words : Stored(t) \in Texts /\ Stored(t)[1] = t[1]
  /\ \A t \in Texts : Stored(t) = t
<1>1. \A t : Stored(t)[1] = t[1] /\ Stored(Stored(t)) = Stored(t)
  BY DEF Stored
<1>2. QED
  BY <1>1, CandidatesAssumption DEF Texts, Words, Kinds

\* The first n elements of a sequence.
LEMMA FirstOfFacts ==
  ASSUME NEW S, NEW s \in Seq(S), NEW n \in Nat
  PROVE  /\ FirstOf(s, n) \in Seq(S)
         /\ Len(FirstOf(s, n)) = IF Len(s) < n THEN Len(s) ELSE n
         /\ \A i \in 1..Len(FirstOf(s, n)) : i \in 1..Len(s) /\ FirstOf(s, n)[i] = s[i]
<1> DEFINE m == IF Len(s) < n THEN Len(s) ELSE n
<1>1. m \in Nat /\ m <= Len(s) /\ Len(s) \in Nat
  OBVIOUS
<1> HIDE DEF m
<1>2. /\ SubSeq(s, 1, m) \in Seq(S) /\ Len(SubSeq(s, 1, m)) = m
      /\ \A i \in 1..m : SubSeq(s, 1, m)[i] = s[i]
  BY <1>1
<1>3. QED
  BY <1>1, <1>2 DEF FirstOf, m

\* A sequence turned around.
LEMMA ReverseFacts ==
  ASSUME NEW S, NEW s \in Seq(S)
  PROVE  /\ Reverse(s) \in Seq(S) /\ Len(Reverse(s)) = Len(s)
         /\ \A i \in 1..Len(s) : Len(s) - i + 1 \in 1..Len(s)
                                 /\ Reverse(s)[i] = s[Len(s) - i + 1]
<1>1. \A i \in 1..Len(s) : Len(s) - i + 1 \in 1..Len(s) /\ s[Len(s) - i + 1] \in S
  OBVIOUS
<1>2. Reverse(s) = [i \in 1..Len(s) |-> s[Len(s) - i + 1]]
  BY DEF Reverse
<1>3. QED
  BY <1>1, <1>2

\* A list has rows that match, and all of them if it is not cut.
LEMMA ListAtomsFacts ==
  ASSUME NEW ns \in Namespaces, store[ns] \in Seq(Texts), NEW q, NEW n \in Nat
  PROVE  LET list == ListAtoms(ns, q, n)
         IN /\ list \in Seq(Texts) /\ Len(list) <= n
            /\ \A i \in 1..Len(list) : list[i] \in Rows(ns)
            /\ Len(list) < n \/ Len(Selected(store[ns], Matching(q))) <= n =>
                 \A t \in Rows(ns) : t[1] = q => \E i \in 1..Len(list) : list[i] = t
<1> DEFINE sel == Selected(store[ns], Matching(q))
           list == ListAtoms(ns, q, n)
<1>1. sel \in Seq(Texts)
  BY SelectedPicks
<1>2. PICK pos : Picks(pos, sel, store[ns], Matching(q), Len(store[ns]))
  BY SelectedPicks
<1>3. list = FirstOf(Reverse(sel), n)
  BY DEF ListAtoms
<1> HIDE DEF sel, list
<1>4. /\ Reverse(sel) \in Seq(Texts) /\ Len(Reverse(sel)) = Len(sel) /\ Len(sel) \in Nat
      /\ \A i \in 1..Len(sel) : Len(sel) - i + 1 \in 1..Len(sel)
                                /\ Reverse(sel)[i] = sel[Len(sel) - i + 1]
  BY <1>1, ReverseFacts
<1>5. /\ list \in Seq(Texts) /\ Len(list) \in Nat
      /\ Len(list) = IF Len(sel) < n THEN Len(sel) ELSE n
      /\ \A i \in 1..Len(list) : i \in 1..Len(sel) /\ list[i] = Reverse(sel)[i]
  BY <1>3, <1>4, FirstOfFacts
<1>6. /\ pos \in [1..Len(sel) -> 1..Len(store[ns])]
      /\ \A i \in 1..Len(sel) : sel[i] = store[ns][pos[i]]
      /\ \A k \in 1..Len(store[ns]) : store[ns][k] \in Matching(q) =>
           \E i \in 1..Len(sel) : pos[i] = k
  BY <1>2 DEF Picks
<1>7. ASSUME NEW i \in 1..Len(list) PROVE list[i] \in Rows(ns)
  <2>1. i \in 1..Len(sel) /\ list[i] = sel[Len(sel) - i + 1] /\ Len(sel) - i + 1 \in 1..Len(sel)
    BY <1>4, <1>5
  <2>2. pos[Len(sel) - i + 1] \in 1..Len(store[ns])
    BY <1>6, <2>1
  <2>3. QED
    BY <1>6, <2>1, <2>2 DEF Rows
<1>8. ASSUME Len(list) < n \/ Len(sel) <= n, NEW t \in Rows(ns), t[1] = q
      PROVE  \E i \in 1..Len(list) : list[i] = t
  <2>1. PICK k \in 1..Len(store[ns]) : store[ns][k] = t
    BY DEF Rows
  <2>2. store[ns][k] \in Matching(q)
    BY <1>8, <2>1 DEF Matching
  <2>3. PICK i \in 1..Len(sel) : pos[i] = k
    BY <1>6, <2>2
  <2>4. Len(list) = Len(sel)
    BY <1>4, <1>5, <1>8
  <2>5. Len(sel) - i + 1 \in 1..Len(sel) /\ Len(sel) - (Len(sel) - i + 1) + 1 = i
    BY <1>4
  <2>6. list[Len(sel) - i + 1] = sel[i]
    BY <1>4, <1>5, <2>4, <2>5
  <2>7. QED
    BY <1>6, <2>1, <2>3, <2>4, <2>5, <2>6
<1>9. QED
  BY <1>5, <1>7, <1>8 DEF list, sel

\* The elements of a sequence, and where it has a value.
RowsOf(s) == {s[i] : i \in 1..Len(s)}
At(s, value) == {i \in 1..Len(s) : s[i] = value}

\* The copies of a text are the places where it is.
LEMMA CopiesAt ==
  ASSUME NEW ns, NEW text
  PROVE  /\ Copies(ns, text) = Cardinality(At(store[ns], text))
         /\ Copies(ns, text)' = Cardinality(At(store'[ns], text))
  BY DEF Copies, At

\* One more row: what is selected does not shrink, and the copies of a text grow by
\* the row if it is the text.
LEMMA OneMoreRow ==
  ASSUME NEW S, NEW s \in Seq(S), NEW x \in S, NEW T, NEW text
  PROVE  /\ Len(Selected(s, T)) <= Len(Selected(Append(s, x), T))
         /\ Len(Selected(s, T)) \in Nat /\ Len(Selected(Append(s, x), T)) \in Nat
         /\ Cardinality(At(s, text)) \in Nat
         /\ Cardinality(At(Append(s, x), text)) =
              Cardinality(At(s, text)) + (IF x = text THEN 1 ELSE 0)
<1> DEFINE more == Append(s, x)
           at(r) == {i \in 1..Len(r) : r[i] = text}
           in(r) == {i \in 1..Len(r) : r[i] \in T}
<1>1. /\ more \in Seq(S) /\ Len(more) = Len(s) + 1 /\ Len(s) \in Nat
      /\ \A i \in 1..Len(s) : more[i] = s[i]
      /\ more[Len(s) + 1] = x
  OBVIOUS
<1> HIDE DEF more
<1>2. IsFiniteSet(1..Len(s)) /\ IsFiniteSet(1..Len(more))
  BY <1>1, FS_Interval
<1>3. at(s) \in SUBSET (1..Len(s)) /\ in(s) \in SUBSET in(more) /\ in(more) \in SUBSET (1..Len(more))
  BY <1>1
<1>4. IsFiniteSet(at(s)) /\ IsFiniteSet(in(more))
  BY <1>2, <1>3, FS_Subset
<1>5. Cardinality(at(s)) \in Nat
  BY <1>4, FS_CardinalityType
<1>6. Cardinality(at(more)) = Cardinality(at(s)) + (IF x = text THEN 1 ELSE 0)
  <2>1. CASE x = text
    <3>1. at(more) = at(s) \cup {Len(s) + 1}
      BY <1>1, <2>1
    <3>2. Len(s) + 1 \notin at(s)
      BY <1>1
    <3> HIDE DEF at
    <3>3. QED
      BY <1>4, <1>5, <2>1, <3>1, <3>2, FS_AddElement
  <2>2. CASE x # text
    <3>1. at(more) = at(s)
      BY <1>1, <2>2
    <3> HIDE DEF at
    <3>2. QED
      BY <1>5, <2>2, <3>1
  <2>3. QED
    BY <2>1, <2>2
<1>7. Len(Selected(s, T)) = Cardinality(in(s)) /\ Len(Selected(more, T)) = Cardinality(in(more))
  BY <1>1, SelectedLength
<1>8. Cardinality(in(s)) <= Cardinality(in(more))
  <2> HIDE DEF in
  <2>1. QED
    BY <1>3, <1>4, FS_Subset
<1>9. Selected(s, T) \in Seq(S) /\ Selected(more, T) \in Seq(S)
  BY <1>1, SelectedPicks
<1>10. /\ Len(Selected(s, T)) \in Nat /\ Len(Selected(more, T)) \in Nat
       /\ Len(Selected(s, T)) <= Len(Selected(more, T))
  <2> HIDE DEF in
  <2>1. QED
    BY <1>7, <1>8, <1>9
<1>11. QED
  BY <1>5, <1>6, <1>10 DEF more, At

-----------------------------------------------------------------------------
(* The steps *)

Local == UNCHANGED <<backend, store, locks, pc, localVars, acked, calls>>
Begun(p) == pc[p] = "idle" /\ \E c \in Commands : Begin(p, c)

\* A step is a message that reaches no tool, or one of a process.
LEMMA Cases ==
  ASSUME [Next]_vars
  PROVE  Local \/ \E p \in Servers : Begun(p) \/ Step(p) \/ Crash(p)
<1>1. CASE UNCHANGED vars
  BY <1>1 DEF vars, Local
<1>2. ASSUME NEW p \in Servers, NEW r \in Requests, Receive(p, r)
      PROVE  Local \/ Begun(p)
  BY <1>2 DEF Receive, Local, Begun
<1>3. ASSUME NEW p \in Servers, Rpc(p) PROVE Begun(p)
  BY <1>3 DEF Rpc, Begun
<1>4. QED
  BY <1>1, <1>2, <1>3 DEF Next

\* What a step does to the handshakes.
LEMMA McpCases ==
  ASSUME [Next]_vars
  PROVE  \/ UNCHANGED mcpVars
         \/ \E s \in Servers : Restart(s) \/ \E r \in Requests : Handle(s, r)
<1>1. CASE UNCHANGED vars
  BY <1>1 DEF vars
<1>2. ASSUME NEW p \in Servers, NEW r \in Requests, Receive(p, r) PROVE Handle(p, r)
  BY <1>2 DEF Receive
<1>3. ASSUME NEW p \in Servers, Rpc(p) \/ Step(p) PROVE UNCHANGED mcpVars
  BY <1>3 DEF Rpc, Step, Acquire, Check, Create, Release, Search
<1>4. ASSUME NEW p \in Servers, Crash(p) PROVE Restart(p)
  BY <1>4 DEF Crash
<1>5. QED
  BY <1>1, <1>2, <1>3, <1>4 DEF Next

\* A handshake goes on in its era.
LEMMA McpStep ==
  ASSUME McpTypeOK, Negotiating, [Next]_vars
  PROVE  McpTypeOK' /\ Negotiating'
<1>1. CASE UNCHANGED mcpVars
  BY <1>1 DEF mcpVars, McpTypeOK, Negotiating
<1>2. ASSUME NEW s \in Servers, Restart(s) PROVE McpTypeOK' /\ Negotiating'
  BY <1>2 DEF Restart, McpTypeOK, Negotiating
<1>3. ASSUME NEW s \in Servers, NEW r \in Requests, Handle(s, r) PROVE McpTypeOK' /\ Negotiating'
  <2>1. CASE Refuses(s, r)
    BY <1>3, <2>1 DEF Handle, mcpVars, McpTypeOK, Negotiating
  <2>2. CASE ~Refuses(s, r)
    <3> DEFINE entered == Entered(s, r)
               begins == initialized[s] \/ Initializes(s, r)
               opens == ready[s] \/ entered = "modern" \/ Confirms(s, r)
    <3>1. /\ era' = [era EXCEPT ![s] = entered]
          /\ initialized' = [initialized EXCEPT ![s] = begins]
          /\ ready' = [ready EXCEPT ![s] = opens]
      BY <1>3, <2>2 DEF Handle
    <3>2. /\ entered \in {"none", "legacy", "modern"}
          /\ era[s] # "none" => entered = era[s]
          /\ era[s] = "none" /\ r.method = "initialize" => entered = "legacy"
      <4>1. era[s] \in {"none", "legacy", "modern"}
        BY DEF McpTypeOK
      <4>2. CASE era[s] # "none"
        BY <4>1, <4>2 DEF Entered
      <4>3. CASE era[s] = "none"
        BY <4>3 DEF Entered, TellsModern
      <4>4. QED
        BY <4>2, <4>3
    <3>3. /\ begins \in BOOLEAN /\ opens \in BOOLEAN
      BY DEF McpTypeOK, Initializes, Confirms
    <3>4. /\ Initializes(s, r) => r.method = "initialize" /\ era[s] # "modern"
          /\ Confirms(s, r) => initialized[s]
      BY DEF Initializes, Confirms
    <3> HIDE DEF entered
    <3>5. /\ begins => entered = "legacy"
          /\ opens => entered = "modern" \/ begins
      BY <3>2, <3>4 DEF Negotiating, McpTypeOK
    <3> HIDE DEF begins, opens
    <3>6. QED
      BY <3>1, <3>2, <3>3, <3>5 DEF McpTypeOK, Negotiating
  <2>3. QED
    BY <2>1, <2>2
<1>4. QED
  BY <1>1, <1>2, <1>3, McpCases

\* The namespaces that a process uses.
LEMMA NamespacesUsed ==
  ASSUME NEW p \in Servers
  PROVE  /\ Project(p) \in Namespaces /\ User \in Namespaces
         /\ \A kind : NamespaceOf(p, kind) \in Namespaces
  BY DEF Namespaces, NamespaceOf

\* A process that remembers is at a candidate.
LEMMA AtCandidate ==
  ASSUME TypeOK, Working, NEW p \in Servers, pc[p] \in Remembering
  PROVE  /\ Head(batch[p]) \in Candidates
         /\ Text(p) \in Words /\ Ns(p) \in Namespaces
         /\ Ns(p) = NamespaceOf(p, Head(batch[p]).kind) /\ Head(batch[p]).kind \in Kinds
         /\ Tail(batch[p]) \in Seq(Candidates) /\ Len(Tail(batch[p])) <= MaxBatch
<1>1. /\ batch[p] \in Seq(Candidates) /\ batch[p] # <<>> /\ Len(batch[p]) <= MaxBatch
      /\ MaxBatch \in Nat
  BY BoundsAssumption DEF TypeOK, Working
<1>2. /\ Head(batch[p]) \in Candidates
      /\ Tail(batch[p]) \in Seq(Candidates) /\ Len(Tail(batch[p])) <= MaxBatch
  BY <1>1
<1>3. QED
  BY <1>2, StoredTexts, NamespacesUsed DEF Text, Ns

\* A process is told of its candidate.
LEMMA ToldTyped ==
  ASSUME TypeOK, Working, NEW p \in Servers, pc[p] \in Remembering
  PROVE  /\ Told(p) \subseteq [kind : Kinds, text : Words, by : Servers]
         /\ acked \subseteq Told(p)
  BY AtCandidate DEF Told, TypeOK, Kinds, Words

\* The rows that a step leaves are the same or one more.
LEMMA RowsGrow ==
  ASSUME TypeOK, Working, [Next]_vars, NEW ns \in Namespaces
  PROVE  Rows(ns) \subseteq Rows(ns)'
<1>1. CASE store' = store
  BY <1>1 DEF Rows
<1>2. ASSUME NEW p \in Servers, Create(p), store' # store PROVE Rows(ns) \subseteq Rows(ns)'
  <2>1. store' = [store EXCEPT ![Ns(p)] = Append(@, Stored(Text(p)))]
    BY <1>2 DEF Create
  <2>2. store[ns] \in Seq(Texts) /\ store \in [Namespaces -> Seq(Texts)]
    BY DEF TypeOK
  <2>3. store'[ns] = store[ns] \/ store'[ns] = Append(store[ns], Stored(Text(p)))
    BY <2>1, <2>2
  <2>4. Stored(Text(p)) \in Texts
    BY <1>2, AtCandidate, StoredTexts DEF Create, Remembering
  <2>5. /\ Len(Append(store[ns], Stored(Text(p)))) = Len(store[ns]) + 1
        /\ \A i \in 1..Len(store[ns]) : Append(store[ns], Stored(Text(p)))[i] = store[ns][i]
        /\ Len(store[ns]) \in Nat
    BY <2>2, <2>4
  <2>6. \A i \in 1..Len(store[ns]) : i \in 1..Len(store'[ns]) /\ store'[ns][i] = store[ns][i]
    BY <2>3, <2>5
  <2>7. QED
    BY <2>6 DEF Rows
<1>3. QED
  BY <1>1, <1>2, Cases
     DEF Local, Begun, Begin, Step, Acquire, Check, Release, Search, Crash

\* The commands and the results of a process are within their limits.
LEMMA BatchTyped ==
  ASSUME NEW c \in Commands, c.op = "remember"
  PROVE  /\ FirstOf(c.batch, MaxBatch) \in Seq(Candidates)
         /\ Len(FirstOf(c.batch, MaxBatch)) <= MaxBatch
         /\ c.batch # <<>> => FirstOf(c.batch, MaxBatch) # <<>>
<1>1. c.batch \in Seq(Candidates) /\ MaxBatch \in Nat \ {0}
  BY CommandsAssumption, BoundsAssumption
<1>2. /\ FirstOf(c.batch, MaxBatch) \in Seq(Candidates)
      /\ Len(FirstOf(c.batch, MaxBatch)) = IF Len(c.batch) < MaxBatch THEN Len(c.batch)
                                           ELSE MaxBatch
  BY <1>1, FirstOfFacts
<1>3. Len(c.batch) \in Nat /\ (c.batch # <<>> => Len(c.batch) # 0)
  BY <1>1
<1>4. FirstOf(c.batch, MaxBatch) = <<>> => Len(FirstOf(c.batch, MaxBatch)) = 0
  OBVIOUS
<1>5. QED
  BY <1>1, <1>2, <1>3, <1>4

\* Results keeps what was found and adds all the rows of a namespace that match, or is
\* as long as a search may be.
LEMMA ResultsFacts ==
  ASSUME TypeOK, NEW p \in Servers, NEW ns \in Namespaces
  PROVE  LET results == Results(p, ns)
         IN /\ results \in Seq(Texts) /\ Len(results) <= SearchLimit
            /\ \/ Len(results) = SearchLimit
               \/ /\ \A i \in 1..Len(found[p]) : \E j \in 1..Len(results) : results[j] = found[p][i]
                  /\ \A t \in Rows(ns) : t[1] = query[p] =>
                       \E j \in 1..Len(results) : results[j] = t
<1> DEFINE list == ListAtoms(ns, query[p], SearchLimit)
           both == found[p] \o list
           results == Results(p, ns)
<1>1. store[ns] \in Seq(Texts) /\ found[p] \in Seq(Texts) /\ SearchLimit \in Nat
  BY BoundsAssumption DEF TypeOK
<1>2. /\ list \in Seq(Texts) /\ Len(list) <= SearchLimit
      /\ Len(list) < SearchLimit =>
           \A t \in Rows(ns) : t[1] = query[p] => \E i \in 1..Len(list) : list[i] = t
  BY <1>1, ListAtomsFacts
<1>3. results = FirstOf(both, SearchLimit)
  BY DEF Results
<1> HIDE DEF list, results
<1>4. /\ both \in Seq(Texts) /\ Len(both) = Len(found[p]) + Len(list)
      /\ Len(found[p]) \in Nat /\ Len(list) \in Nat /\ Len(both) \in Nat
      /\ \A i \in 1..Len(found[p]) : i \in 1..Len(both) /\ both[i] = found[p][i]
      /\ \A i \in 1..Len(list) : Len(found[p]) + i \in 1..Len(both)
                                 /\ both[Len(found[p]) + i] = list[i]
  BY <1>1, <1>2
<1> HIDE DEF both
<1>5. /\ results \in Seq(Texts)
      /\ Len(results) = IF Len(both) < SearchLimit THEN Len(both) ELSE SearchLimit
      /\ \A i \in 1..Len(results) : results[i] = both[i]
  BY <1>1, <1>3, <1>4, FirstOfFacts
<1>6. ASSUME Len(results) # SearchLimit
      PROVE  /\ \A i \in 1..Len(found[p]) : \E j \in 1..Len(results) : results[j] = found[p][i]
             /\ \A t \in Rows(ns) : t[1] = query[p] =>
                  \E j \in 1..Len(results) : results[j] = t
  <2>1. Len(results) = Len(both) /\ Len(both) < SearchLimit
    BY <1>1, <1>4, <1>5, <1>6
  <2>2. Len(list) < SearchLimit
    BY <1>1, <1>4, <2>1
  <2>3. ASSUME NEW i \in 1..Len(found[p]) PROVE \E j \in 1..Len(results) : results[j] = found[p][i]
    BY <1>4, <1>5, <2>1
  <2>4. ASSUME NEW t \in Rows(ns), t[1] = query[p]
        PROVE  \E j \in 1..Len(results) : results[j] = t
    <3>1. PICK i \in 1..Len(list) : list[i] = t
      BY <1>2, <2>2, <2>4
    <3>2. Len(found[p]) + i \in 1..Len(results) /\ results[Len(found[p]) + i] = t
      BY <1>4, <1>5, <2>1, <3>1
    <3>3. QED
      BY <3>2
  <2>5. QED
    BY <2>3, <2>4
<1>7. Len(results) <= SearchLimit
  BY <1>1, <1>4, <1>5
<1>8. QED
  BY <1>5, <1>6, <1>7 DEF results

\* A search that is full stays full.
LEMMA FullStaysFull ==
  ASSUME TypeOK, NEW p \in Servers, NEW ns \in Namespaces, Len(found[p]) = SearchLimit
  PROVE  Len(Results(p, ns)) = SearchLimit
<1> DEFINE list == ListAtoms(ns, query[p], SearchLimit)
<1>1. store[ns] \in Seq(Texts) /\ found[p] \in Seq(Texts) /\ SearchLimit \in Nat
  BY BoundsAssumption DEF TypeOK
<1>2. list \in Seq(Texts)
  BY <1>1, ListAtomsFacts
<1>3. Results(p, ns) = FirstOf(found[p] \o list, SearchLimit)
  BY DEF Results
<1> HIDE DEF list
<1>4. /\ found[p] \o list \in Seq(Texts) /\ Len(list) \in Nat
      /\ Len(found[p] \o list) = SearchLimit + Len(list)
  BY <1>1, <1>2
<1>5. QED
  <2> DEFINE both == found[p] \o list
  <2>1. both \in Seq(Texts) /\ Len(both) \in Nat /\ ~(Len(both) < SearchLimit)
        /\ (Len(both) < SearchLimit \/ Len(both) >= SearchLimit)
    BY <1>1, <1>4
  <2>2. Results(p, ns) = FirstOf(both, SearchLimit)
    BY <1>3
  <2> HIDE DEF both
  <2>3. Len(FirstOf(both, SearchLimit)) = IF Len(both) < SearchLimit THEN Len(both)
                                          ELSE SearchLimit
    BY <1>1, <2>1, FirstOfFacts
  <2>4. QED
    BY <2>1, <2>2, <2>3

\* Every step keeps the types.
LEMMA TypeStep ==
  ASSUME IInv, [Next]_vars
  PROVE  TypeOK'
<1> DEFINE Others == /\ backend \in Backends
                     /\ store \in [Namespaces -> Seq(Texts)]
                     /\ \A l \in locks : l.key[1] \in Namespaces /\ l.by \in Servers
                     /\ pc \in [Servers -> {"idle", "lock", "check", "create", "unlock", "raise",
                                            "project", "global"}]
                     /\ batch \in [Servers -> Seq(Candidates)]
                     /\ \A p \in Servers : Len(batch[p]) <= MaxBatch
                     /\ found \in [Servers -> Seq(Texts)]
                     /\ \A p \in Servers : Len(found[p]) <= SearchLimit
                     /\ query \in [Servers -> Queries]
                     /\ acked \subseteq [kind : Kinds, text : Words, by : Servers]
                     /\ known \in [Servers -> SUBSET acked]
                     /\ calls \in 0..MaxCalls
<1>0. /\ TypeOK /\ Working /\ Others /\ Len(<<>>) = 0
      /\ SearchLimit \in Nat /\ MaxBatch \in Nat /\ MaxCalls \in Nat
      /\ <<>> \in Seq(Candidates) /\ <<>> \in Seq(Texts)
  BY BoundsAssumption DEF IInv, TypeOK, Kinds, Words
<1>1. McpTypeOK'
  BY McpStep DEF IInv, TypeOK
<1>2. ASSUME Local PROVE Others'
  BY <1>0, <1>2 DEF Local, localVars
<1>3. ASSUME NEW p \in Servers, Begun(p) PROVE Others'
  <2>1. PICK c \in Commands : Begin(p, c)
    BY <1>3 DEF Begun
  <2>2. /\ calls' = calls + 1 /\ calls < MaxCalls
        /\ found' = [found EXCEPT ![p] = <<>>]
        /\ UNCHANGED <<backend, store, locks, acked>>
    BY <2>1 DEF Begin
  <2>3. calls' \in 0..MaxCalls
    BY <1>0, <2>2
  <2>4. found' \in [Servers -> Seq(Texts)] /\ \A q \in Servers : Len(found'[q]) <= SearchLimit
    BY <1>0, <2>2
  <2>5. CASE c.op = "remember"
    <3>1. /\ batch' = [batch EXCEPT ![p] = FirstOf(c.batch, MaxBatch)]
          /\ pc' = [pc EXCEPT ![p] = IF c.batch = <<>> THEN "idle" ELSE "lock"]
          /\ UNCHANGED <<query, known>>
      BY <2>1, <2>5 DEF Begin, Goto
    <3>2. QED
      BY <1>0, <2>2, <2>3, <2>4, <2>5, <3>1, BatchTyped
  <2>6. CASE c.op = "search"
    <3>1. /\ query' = [query EXCEPT ![p] = c.query]
          /\ known' = [known EXCEPT ![p] = acked]
          /\ pc' = [pc EXCEPT ![p] = "project"]
          /\ UNCHANGED batch
      BY <2>1, <2>6 DEF Begin, Goto
    <3>2. c.query \in Queries
      BY <2>6 DEF Queries
    <3>3. QED
      BY <1>0, <2>2, <2>3, <2>4, <3>1, <3>2
  <2>7. QED
    BY <2>1, <2>5, <2>6 DEF Begin
<1>4. ASSUME NEW p \in Servers, Acquire(p) PROVE Others'
  <2>1. Ns(p) \in Namespaces
    BY <1>0, <1>4, AtCandidate DEF Acquire, Remembering
  <2>2. /\ locks' = locks \/ locks' = locks \cup {[key |-> Key(p), by |-> p]}
        /\ pc' = [pc EXCEPT ![p] = "check"]
        /\ UNCHANGED <<backend, store, localVars, acked, calls>>
    BY <1>4 DEF Acquire, Goto
  <2>3. Key(p)[1] \in Namespaces
    BY <2>1 DEF Key
  <2>4. \A l \in locks' : l.key[1] \in Namespaces /\ l.by \in Servers
    BY <1>0, <2>2, <2>3
  <2>5. QED
    BY <1>0, <2>2, <2>4 DEF localVars
<1>5. ASSUME NEW p \in Servers, Check(p) PROVE Others'
  <2>1. /\ Told(p) \subseteq [kind : Kinds, text : Words, by : Servers] /\ acked \subseteq Told(p)
    BY <1>0, <1>5, ToldTyped DEF Check, Remembering
  <2>2. /\ \E next \in {"unlock", "create"} : pc' = [pc EXCEPT ![p] = next]
        /\ acked' \in {acked, Told(p)}
        /\ UNCHANGED <<backend, store, locks, localVars, calls>>
    BY <1>5 DEF Check, Goto
  <2>3. QED
    BY <1>0, <2>1, <2>2 DEF localVars
<1>6. ASSUME NEW p \in Servers, Create(p) PROVE Others'
  <2>1. /\ Told(p) \subseteq [kind : Kinds, text : Words, by : Servers] /\ acked \subseteq Told(p)
        /\ Ns(p) \in Namespaces /\ Stored(Text(p)) \in Texts
    BY <1>0, <1>6, ToldTyped, AtCandidate, StoredTexts DEF Create, Remembering
  <2>2. /\ \E next \in {"unlock", "raise"} : pc' = [pc EXCEPT ![p] = next]
        /\ acked' \in {acked, Told(p)}
        /\ store' \in {store, [store EXCEPT ![Ns(p)] = Append(@, Stored(Text(p)))]}
        /\ UNCHANGED <<backend, locks, localVars, calls>>
    BY <1>6 DEF Create, Goto
  <2>3. store' \in [Namespaces -> Seq(Texts)]
    <3>1. Append(store[Ns(p)], Stored(Text(p))) \in Seq(Texts)
      BY <1>0, <2>1
    <3>2. QED
      BY <1>0, <2>1, <2>2, <3>1
  <2>4. QED
    BY <1>0, <2>1, <2>2, <2>3 DEF localVars
<1>7. ASSUME NEW p \in Servers, Release(p) PROVE Others'
  <2>1. Tail(batch[p]) \in Seq(Candidates) /\ Len(Tail(batch[p])) <= MaxBatch
    BY <1>0, <1>7, AtCandidate DEF Release, Remembering
  <2>2. /\ locks' \subseteq locks
        /\ \E rest \in {<<>>, Tail(batch[p])} : batch' = [batch EXCEPT ![p] = rest]
        /\ \E next \in {"idle", "lock"} : pc' = [pc EXCEPT ![p] = next]
        /\ UNCHANGED <<backend, store, found, query, known, acked, calls>>
    BY <1>7 DEF Release, Freed, Goto
  <2>3. batch' \in [Servers -> Seq(Candidates)] /\ \A q \in Servers : Len(batch'[q]) <= MaxBatch
    <3>1. PICK rest \in {<<>>, Tail(batch[p])} : batch' = [batch EXCEPT ![p] = rest]
      BY <2>2
    <3>2. rest \in Seq(Candidates) /\ Len(rest) <= MaxBatch
      <4>1. CASE rest = <<>>
        <5>1. <<>> \in Seq(Candidates) /\ Len(<<>>) <= MaxBatch
          BY <1>0
        <5>2. QED
          BY <4>1, <5>1
      <4>2. CASE rest = Tail(batch[p])
        BY <2>1, <4>2
      <4>3. QED
        BY <3>1, <4>1, <4>2
    <3>3. QED
      BY <1>0, <3>1, <3>2
  <2>4. QED
    BY <1>0, <2>2, <2>3
<1>8. ASSUME NEW p \in Servers, Search(p) PROVE Others'
  <2>1. PICK ns \in Namespaces : found' = [found EXCEPT ![p] = Results(p, ns)]
    BY <1>8, NamespacesUsed DEF Search
  <2>2. Results(p, ns) \in Seq(Texts) /\ Len(Results(p, ns)) <= SearchLimit
    BY <1>0, ResultsFacts
  <2>3. /\ \E next \in {"global", "idle"} : pc' = [pc EXCEPT ![p] = next]
        /\ UNCHANGED <<backend, store, locks, batch, query, known, acked, calls>>
    BY <1>8 DEF Search, Goto
  <2>4. QED
    BY <1>0, <2>1, <2>2, <2>3
<1>9. ASSUME NEW p \in Servers, Crash(p) PROVE Others'
  <2>1. /\ locks' \subseteq locks
        /\ pc' = [pc EXCEPT ![p] = "idle"]
        /\ batch' = [batch EXCEPT ![p] = <<>>]
        /\ found' = [found EXCEPT ![p] = <<>>]
        /\ UNCHANGED <<backend, store, query, known, acked, calls>>
    BY <1>9 DEF Crash, Freed, Goto
  <2>2. QED
    BY <1>0, <2>1
<1>10. Others'
  <2> HIDE DEF Others
  <2>1. QED
    BY <1>2, <1>3, <1>4, <1>5, <1>6, <1>7, <1>8, <1>9, Cases DEF Step
<1>11. QED
  BY <1>1, <1>10 DEF TypeOK, Kinds, Words

-----------------------------------------------------------------------------
(* The lock, and the copies of a fact *)

\* Every step goes on with a candidate, and keeps the lock of whoever passed it.
LEMMA LockStep ==
  ASSUME IInv, [Next]_vars
  PROVE  Working' /\ Locked'
<1>0. /\ TypeOK /\ Working /\ Locked
      /\ pc \in [Servers -> {"idle", "lock", "check", "create", "unlock", "raise",
                             "project", "global"}]
      /\ batch \in [Servers -> Seq(Candidates)]
      /\ \A l \in locks : l.by \in Servers
  BY DEF IInv, TypeOK
<1>1. ASSUME NEW p \in Servers, batch'[p] = batch[p] PROVE Key(p)' = Key(p)
  BY <1>1 DEF Key, Ns, Text, NamespaceOf
<1>2. CASE Local
  BY <1>0, <1>2 DEF Local, localVars, Working, Locked, Key, Ns, Text, NamespaceOf
<1>3. ASSUME NEW p \in Servers, Begun(p) PROVE Working' /\ Locked'
  <2>1. PICK c \in Commands : Begin(p, c)
    BY <1>3 DEF Begun
  <2>2. UNCHANGED <<backend, locks>>
    BY <2>1 DEF Begin
  <2>3. /\ \A q \in Servers : q # p => batch'[q] = batch[q] /\ pc'[q] = pc[q]
        /\ pc'[p] \in {"idle", "project"} \/ (pc'[p] = "lock" /\ batch'[p] # <<>>)
    BY <1>0, <2>1, BatchTyped DEF Begin, Goto
  <2>4. QED
    BY <1>0, <1>1, <2>2, <2>3 DEF Working, Locked, Remembering
<1>4. ASSUME NEW p \in Servers, Acquire(p) PROVE Working' /\ Locked'
  <2>1. /\ pc[p] = "lock" /\ pc' = [pc EXCEPT ![p] = "check"]
        /\ UNCHANGED <<backend, batch>>
    BY <1>4 DEF Acquire, Goto, localVars
  <2>2. Working'
    BY <1>0, <2>1 DEF Working, Remembering
  <2>3. ASSUME backend' = "postgres"
        PROVE  /\ \A q \in Servers : pc'[q] \in Remembering \ {"lock"} =>
                                       [key |-> Key(q), by |-> q] \in locks'
               /\ \A l, m \in locks' : l.key = m.key => l = m
    <3>1. /\ \A l \in locks : l.key # Key(p)
          /\ locks' = locks \cup {[key |-> Key(p), by |-> p]}
      BY <1>4, <2>1, <2>3 DEF Acquire
    <3>2. \A q \in Servers : pc'[q] \in Remembering \ {"lock"} =>
                               q = p \/ pc[q] \in Remembering \ {"lock"}
      BY <1>0, <2>1
    <3>3. QED
      BY <1>0, <2>1, <2>3, <3>1, <3>2 DEF Locked
  <2>4. \A q \in Servers : Key(q)' = Key(q)
    BY <1>1, <2>1
  <2>5. QED
    BY <2>2, <2>3, <2>4 DEF Locked
<1>5. ASSUME NEW p \in Servers, Check(p) \/ Create(p) PROVE Working' /\ Locked'
  <2>1. /\ pc[p] \in {"check", "create"} /\ UNCHANGED <<backend, batch, locks>>
        /\ \E next \in Remembering \ {"lock"} : pc' = [pc EXCEPT ![p] = next]
    BY <1>5 DEF Check, Create, Goto, localVars, Remembering
  <2>2. \A q \in Servers : pc'[q] = pc[q] \/ (pc[q] \in Remembering \ {"lock"})
    BY <1>0, <2>1 DEF Remembering
  <2>3. \A q \in Servers : Key(q)' = Key(q)
    BY <1>1, <2>1
  <2>4. QED
    BY <1>0, <2>1, <2>2, <2>3 DEF Working, Locked
<1>6. ASSUME NEW p \in Servers, Release(p) \/ Crash(p) PROVE Working' /\ Locked'
  <2>1. /\ backend' = backend /\ locks' = Freed(p)
        /\ \A q \in Servers : q # p => batch'[q] = batch[q] /\ pc'[q] = pc[q]
        /\ pc'[p] = "idle" \/ (pc'[p] = "lock" /\ batch'[p] # <<>>)
    BY <1>0, <1>6 DEF Release, Crash, Goto
  <2>2. Working'
    BY <1>0, <2>1 DEF Working, Remembering
  <2>3. Locked'
    <3>1. \A q \in Servers : q # p => Key(q)' = Key(q)
      BY <1>1, <2>1
    <3>2. \A q \in Servers : pc'[q] \in Remembering \ {"lock"} => q # p
      BY <2>1 DEF Remembering
    <3>3. /\ locks' \subseteq locks
          /\ \A q \in Servers : q # p /\ [key |-> Key(q), by |-> q] \in locks =>
                                  [key |-> Key(q), by |-> q] \in locks'
      BY <2>1 DEF Freed
    <3>4. QED
      BY <1>0, <2>1, <3>1, <3>2, <3>3 DEF Locked
  <2>4. QED
    BY <2>2, <2>3
<1>7. ASSUME NEW p \in Servers, Search(p) PROVE Working' /\ Locked'
  <2>1. /\ UNCHANGED <<backend, batch, locks>>
        /\ \E next \in {"global", "idle"} : pc' = [pc EXCEPT ![p] = next]
    BY <1>7 DEF Search, Goto
  <2>2. \A q \in Servers : pc'[q] \in Remembering => pc'[q] = pc[q]
    BY <1>0, <2>1 DEF Remembering
  <2>3. \A q \in Servers : Key(q)' = Key(q)
    BY <1>1, <2>1
  <2>4. QED
    BY <1>0, <2>1, <2>2, <2>3 DEF Working, Locked
<1>8. QED
  BY <1>2, <1>3, <1>4, <1>5, <1>6, <1>7, Cases DEF Step

\* In PostgreSQL two processes never create the same fact together.
LEMMA CreateAlone ==
  ASSUME TypeOK, Locked, backend = "postgres", NEW p \in Servers, NEW q \in Servers,
         {pc[p], pc[q]} \subseteq Remembering \ {"lock"}, Key(p) = Key(q)
  PROVE  p = q
<1> DEFINE mine == [key |-> Key(p), by |-> p]
           other == [key |-> Key(q), by |-> q]
<1>1. mine \in locks /\ other \in locks /\ mine.key = other.key
  BY DEF Locked
<1>2. mine = other
  BY <1>1 DEF Locked
<1>3. QED
  BY <1>2

\* A fact that is not found among the newest rows, and is not crowded out of them, has
\* no copy.
LEMMA NotFound ==
  ASSUME TypeOK, NEW ns \in Namespaces, NEW text, ~Crowded(ns, text[1]), ~Exists(ns, text)
  PROVE  Copies(ns, text) = 0
<1> DEFINE sel == Selected(store[ns], Matching(text[1]))
           list == ListAtoms(ns, text[1], Window)
<1>1. store[ns] \in Seq(Texts) /\ Window \in Nat
  BY BoundsAssumption DEF TypeOK
<1>2. sel \in Seq(Texts) /\ Len(sel) \in Nat
  BY <1>1, SelectedPicks
<1>3. ~(Len(sel) > Window)
  BY DEF Crowded
<1>4. Len(sel) <= Window
  <2> HIDE DEF sel
  <2>1. QED
    BY <1>1, <1>2, <1>3
<1>5. \A t \in Rows(ns) : t[1] = text[1] => \E i \in 1..Len(list) : list[i] = t
  BY <1>1, <1>4, ListAtomsFacts
<1>6. text \notin Rows(ns)
  BY <1>5 DEF Exists
<1>7. {i \in 1..Len(store[ns]) : store[ns][i] = text} = {}
  BY <1>6 DEF Rows
<1>8. QED
  BY <1>7, FS_EmptySet DEF Copies

\* Where the rows do not change and nobody comes to create, the copies stay bounded.
LEMMA CopiesKept ==
  ASSUME TypeOK, CopiesBounded, NEW ns \in Namespaces, NEW text \in Texts,
         backend' = backend, store'[ns] = store[ns], Fits(ns, text)',
         Creating(ns, text)' \subseteq Creating(ns, text)
  PROVE  (Copies(ns, text) + Cardinality(Creating(ns, text)) <= Writers)'
<1>1. Fits(ns, text) /\ Copies(ns, text)' = Copies(ns, text) /\ Writers' = Writers
  BY DEF Fits, Crowded, IsShort, Copies, Writers
<1>2. Creating(ns, text) \subseteq Servers
  BY DEF Creating
<1>3. IsFiniteSet(Creating(ns, text)) /\ IsFiniteSet(Creating(ns, text)')
      /\ Cardinality(Creating(ns, text)') <= Cardinality(Creating(ns, text))
  BY <1>2, FS_Subset, BoundsAssumption
<1>4. Cardinality(Creating(ns, text)) \in Nat /\ Cardinality(Creating(ns, text)') \in Nat
  BY <1>3, FS_CardinalityType
<1>5. Copies(ns, text) \in Nat /\ Writers \in Nat
  <2>1. store[ns] \in Seq(Texts) /\ IsFiniteSet(Servers)
    BY BoundsAssumption DEF TypeOK
  <2>2. Cardinality(At(store[ns], text)) \in Nat
    BY <2>1, OneMoreRow
  <2>3. QED
    BY <2>1, <2>2, FS_CardinalityType, CopiesAt DEF Writers
<1>6. Copies(ns, text) + Cardinality(Creating(ns, text)) <= Writers
  BY <1>1 DEF CopiesBounded
<1>7. Cardinality(Creating(ns, text))' = Cardinality(Creating(ns, text)')
  OBVIOUS
<1>8. QED
  BY <1>1, <1>3, <1>4, <1>5, <1>6, <1>7

\* Every step keeps the copies within the bound.
LEMMA CopiesStep ==
  ASSUME IInv, [Next]_vars
  PROVE  CopiesBounded'
<1>0. /\ TypeOK /\ Working /\ Locked /\ CopiesBounded
      /\ pc \in [Servers -> {"idle", "lock", "check", "create", "unlock", "raise",
                             "project", "global"}]
      /\ batch \in [Servers -> Seq(Candidates)]
      /\ store \in [Namespaces -> Seq(Texts)]
  BY DEF IInv, TypeOK
<1>1. SUFFICES ASSUME NEW ns \in Namespaces, NEW text \in Texts, Fits(ns, text)'
               PROVE  (Copies(ns, text) + Cardinality(Creating(ns, text)) <= Writers)'
  BY DEF CopiesBounded
<1>2. ASSUME NEW p \in Servers, batch'[p] = batch[p] PROVE Key(p)' = Key(p)
  BY <1>2 DEF Key, Ns, Text, NamespaceOf
<1>3. ASSUME backend' = backend, store' = store,
             \A p \in Servers : pc'[p] = "create" => pc[p] = "create" /\ batch'[p] = batch[p]
      PROVE  (Copies(ns, text) + Cardinality(Creating(ns, text)) <= Writers)'
  <2>1. Creating(ns, text)' \subseteq Creating(ns, text)
    BY <1>2, <1>3 DEF Creating
  <2>2. QED
    BY <1>0, <1>1, <1>3, <2>1, CopiesKept
<1>4. CASE Local
  BY <1>3, <1>4 DEF Local, localVars
<1>5. ASSUME NEW p \in Servers, Begun(p) \/ Acquire(p) \/ Release(p) \/ Search(p) \/ Crash(p)
      PROVE  (Copies(ns, text) + Cardinality(Creating(ns, text)) <= Writers)'
  <2>1. /\ backend' = backend /\ store' = store
        /\ \A q \in Servers : pc'[q] = "create" => pc[q] = "create" /\ batch'[q] = batch[q]
    BY <1>0, <1>5 DEF Begun, Begin, Acquire, Release, Search, Crash, Goto, localVars
  <2>2. QED
    BY <1>3, <2>1
<1>6. ASSUME NEW p \in Servers, Check(p)
      PROVE  (Copies(ns, text) + Cardinality(Creating(ns, text)) <= Writers)'
  <2>1. /\ UNCHANGED <<backend, store, batch>>
        /\ \A q \in Servers : q # p => pc'[q] = pc[q]
        /\ pc[p] = "check" /\ Ns(p) \in Namespaces
        /\ pc'[p] = "create" => ~Exists(Ns(p), Text(p))
    BY <1>0, <1>6, AtCandidate DEF Check, Goto, localVars, Remembering
  <2>2. \A q \in Servers : Key(q)' = Key(q)
    BY <1>2, <2>1
  <2>3. CASE pc'[p] = "create" /\ Key(p) = <<ns, text>>
    <3>1. ns = Ns(p) /\ text = Text(p) /\ Fits(ns, text)
      BY <1>1, <2>1, <2>3 DEF Key, Fits, Crowded, IsShort
    <3>2. Copies(ns, text)' = 0
      BY <1>0, <2>1, <2>3, <3>1, NotFound DEF Fits, Copies
    <3>3. IsFiniteSet(Servers) /\ Creating(ns, text)' \subseteq Servers
      BY BoundsAssumption DEF Creating
    <3>4. /\ IsFiniteSet(Creating(ns, text)') /\ Cardinality(Creating(ns, text)') \in Nat
          /\ Cardinality(Creating(ns, text)') <= Cardinality(Servers)
      BY <3>3, FS_Subset, FS_CardinalityType
    <3>5. backend = "postgres" => Cardinality(Creating(ns, text)') <= 1
      <4>1. SUFFICES ASSUME backend = "postgres"
                     PROVE  Cardinality(Creating(ns, text)') <= 1
        OBVIOUS
      <4>2. ASSUME NEW q \in Creating(ns, text)' PROVE q = p
        <5>1. q \in Servers /\ pc'[q] = "create" /\ Key(q) = <<ns, text>>
          BY <2>2, <4>2 DEF Creating
        <5>2. pc[p] \in Remembering \ {"lock"}
          BY <2>1 DEF Remembering
        <5>3. CASE q # p
          <6>1. pc[q] \in Remembering \ {"lock"}
            BY <2>1, <5>1, <5>3 DEF Remembering
          <6>2. QED
            BY <1>0, <2>3, <4>1, <5>1, <5>2, <6>1, CreateAlone
        <5>4. QED
          BY <5>3
      <4>3. Creating(ns, text)' \subseteq {p}
        BY <4>2
      <4>4. IsFiniteSet({p}) /\ Cardinality({p}) = 1
        BY FS_Singleton
      <4>5. QED
        BY <4>3, <4>4, FS_Subset
    <3>6. Writers' = IF backend = "postgres" THEN 1 ELSE Cardinality(Servers)
      BY <2>1 DEF Writers
    <3>7. Cardinality(Creating(ns, text))' = Cardinality(Creating(ns, text)')
      OBVIOUS
    <3>8. QED
      BY <3>2, <3>4, <3>5, <3>6, <3>7
  <2>4. CASE ~(pc'[p] = "create" /\ Key(p) = <<ns, text>>)
    <3>1. Creating(ns, text)' \subseteq Creating(ns, text)
      BY <2>1, <2>2, <2>4 DEF Creating
    <3>2. QED
      BY <1>0, <1>1, <2>1, <3>1, CopiesKept
  <2>5. QED
    BY <2>3, <2>4
<1>7. ASSUME NEW p \in Servers, Create(p)
      PROVE  (Copies(ns, text) + Cardinality(Creating(ns, text)) <= Writers)'
  <2> DEFINE row == Stored(Text(p))
  <2>1. /\ UNCHANGED <<backend, batch>>
        /\ store' \in {store, [store EXCEPT ![Ns(p)] = Append(@, row)]}
        /\ \A q \in Servers : q # p => pc'[q] = pc[q]
        /\ pc[p] = "create" /\ pc'[p] # "create"
        /\ p \in Servers
    BY <1>0, <1>7 DEF Create, Goto, localVars
  <2>2. Ns(p) \in Namespaces /\ row \in Texts /\ Text(p) \in Words
    BY <1>0, <2>1, AtCandidate, StoredTexts DEF Remembering
  <2>3. \A q \in Servers : Key(q)' = Key(q)
    BY <1>2, <2>1
  <2>4. Creating(ns, text)' = Creating(ns, text) \ {p}
    BY <2>1, <2>3 DEF Creating
  <2>5. CASE store'[ns] = store[ns]
    BY <1>0, <1>1, <2>1, <2>4, <2>5, CopiesKept
  <2>6. CASE store'[ns] # store[ns]
    <3>1. ns = Ns(p) /\ store'[ns] = Append(store[ns], row)
      BY <1>0, <2>1, <2>2, <2>6
    <3>2. store[ns] \in Seq(Texts)
      BY <1>0
    <3>3. /\ Len(Selected(store[ns], Matching(text[1]))) <= Len(Selected(store'[ns], Matching(text[1])))
          /\ Len(Selected(store[ns], Matching(text[1]))) \in Nat
          /\ Len(Selected(store'[ns], Matching(text[1]))) \in Nat
          /\ Copies(ns, text) \in Nat
          /\ Copies(ns, text)' = Copies(ns, text) + (IF row = text THEN 1 ELSE 0)
      <4> HIDE DEF row
      <4> DEFINE T == Matching(text[1])
                 more == Append(store[ns], row)
      <4>1. /\ Len(Selected(store[ns], T)) <= Len(Selected(more, T))
            /\ Len(Selected(store[ns], T)) \in Nat /\ Len(Selected(more, T)) \in Nat
            /\ Cardinality(At(store[ns], text)) \in Nat
            /\ Cardinality(At(more, text)) =
                 Cardinality(At(store[ns], text)) + (IF row = text THEN 1 ELSE 0)
        <5> HIDE DEF T
        <5>1. QED
          BY <2>2, <3>2, OneMoreRow
      <4>2. store'[ns] = more
        BY <3>1
      <4> HIDE DEF T, more
      <4>3. QED
        BY <4>1, <4>2, CopiesAt DEF T
    <3>4. Fits(ns, text)
      <4>1. ~(Len(Selected(store'[ns], Matching(text[1]))) > Window)
        BY <1>1 DEF Fits, Crowded
      <4>2. ~(Len(Selected(store[ns], Matching(text[1]))) > Window)
        BY <3>3, <4>1, BoundsAssumption
      <4>3. QED
        BY <1>1, <4>2 DEF Fits, Crowded, IsShort
    <3>5. Copies(ns, text) + Cardinality(Creating(ns, text)) <= Writers
      BY <1>0, <3>4 DEF CopiesBounded
    <3>6. IsFiniteSet(Creating(ns, text)) /\ Cardinality(Creating(ns, text)) \in Nat
          /\ Writers \in Nat
      <4>1. Creating(ns, text) \subseteq Servers /\ IsFiniteSet(Servers)
        BY BoundsAssumption DEF Creating
      <4>2. QED
        BY <4>1, FS_Subset, FS_CardinalityType DEF Writers
    <3>7. row = text => p \in Creating(ns, text)
      <4>1. ASSUME row = text PROVE Text(p) = text
        BY <2>2, <3>4, <4>1 DEF Fits, IsShort, Words
      <4>2. QED
        BY <2>1, <3>1, <4>1 DEF Creating, Key
    <3>8. /\ Cardinality(Creating(ns, text)') =
               IF p \in Creating(ns, text) THEN Cardinality(Creating(ns, text)) - 1
               ELSE Cardinality(Creating(ns, text))
      BY <2>4, <3>6, FS_RemoveElement
    <3>9. Writers' = Writers /\ Cardinality(Creating(ns, text))' = Cardinality(Creating(ns, text)')
      BY <2>1 DEF Writers
    <3>10. QED
      BY <3>3, <3>5, <3>6, <3>7, <3>8, <3>9
  <2>7. QED
    BY <2>5, <2>6
<1>8. QED
  BY <1>4, <1>5, <1>6, <1>7, Cases DEF Step

-----------------------------------------------------------------------------
(* What is reported, and what a search finds *)

Report == [kind : Kinds, text : Words, by : Servers]

\* What concerns a checkout is in the namespace of its project or of the user.
LEMMA WhereItConcerns ==
  ASSUME NEW a \in Report, NEW q \in Servers, Concerns(a, q)
  PROVE  NamespaceOf(a.by, a.kind) \in {Project(q), User}
<1>1. a.kind \in Kinds /\ a.by \in Servers
  BY DEF Report
<1>2. CASE a.kind \in GlobalKinds
  BY <1>2 DEF NamespaceOf, GlobalKinds, ProjectKinds
<1>3. CASE a.by = q
  BY <1>3 DEF NamespaceOf
<1>4. CASE SameRepository(a.by, q)
  <2>1. ASSUME NEW r \in Servers,
               Len(IF Checkout[r].override = <<>> THEN Checkout[r].remote ELSE <<>>) >= 2
        PROVE  /\ Checkout[r].override = <<>> /\ Checkout[r].remote # <<>>
               /\ Len(Checkout[r].remote) >= 2
    <3>1. Len(<<>>) = 0
      OBVIOUS
    <3>2. QED
      BY <2>1, <3>1
  <2>2. Project(a.by) = Project(q)
    BY <1>1, <1>4, <2>1 DEF SameRepository, Project, NormalizeRemote
  <2>3. QED
    BY <2>2 DEF NamespaceOf
<1>5. QED
  BY <1>2, <1>3, <1>4 DEF Concerns

\* Only what is stored is reported.
LEMMA AckedStep ==
  ASSUME IInv, [Next]_vars
  PROVE  AckedStored'
<1>0. /\ TypeOK /\ Working /\ AckedStored /\ acked \subseteq Report
      /\ store \in [Namespaces -> Seq(Texts)]
  BY DEF IInv, TypeOK, Report, Kinds, Words
<1> DEFINE in(a) == Stored(a.text) \in RowsOf(store'[NamespaceOf(a.by, a.kind)])
<1>1. ASSUME NEW a \in acked PROVE in(a)
  <2>1. a.by \in Servers /\ NamespaceOf(a.by, a.kind) \in Namespaces
    BY <1>0, NamespacesUsed DEF Report
  <2>2. Rows(NamespaceOf(a.by, a.kind)) \subseteq Rows(NamespaceOf(a.by, a.kind))'
    BY <1>0, <2>1, RowsGrow
  <2>3. QED
    BY <1>0, <2>2 DEF AckedStored, Rows, RowsOf
<1>2. AckedStored' <=> \A a \in acked' : in(a)
  BY DEF AckedStored, Rows, RowsOf, NamespaceOf
<1>3. ASSUME NEW p \in Servers, pc[p] \in Remembering, acked' = Told(p),
             Stored(Text(p)) \in RowsOf(store'[Ns(p)])
      PROVE  \A a \in acked' : in(a)
  <2> DEFINE told == [kind |-> Head(batch[p]).kind, text |-> Text(p), by |-> p]
  <2>1. acked' = acked \cup {told}
    BY <1>3 DEF Told
  <2>2. told.by = p /\ told.kind = Head(batch[p]).kind /\ told.text = Text(p)
    OBVIOUS
  <2>3. Ns(p) = NamespaceOf(told.by, told.kind)
    BY <1>0, <1>3, <2>2, AtCandidate
  <2> HIDE DEF told
  <2>4. in(told)
    BY <1>3, <2>2, <2>3
  <2>5. QED
    BY <1>1, <2>1, <2>4
<1>4. ASSUME NEW p \in Servers, Check(p) PROVE \A a \in acked' : in(a)
  <2>1. /\ acked' = acked \/ (Exists(Ns(p), Text(p)) /\ acked' = Told(p))
        /\ store' = store /\ pc[p] \in Remembering
    BY <1>4 DEF Check, Remembering
  <2>2. CASE Exists(Ns(p), Text(p)) /\ acked' = Told(p)
    <3>1. Ns(p) \in Namespaces /\ store[Ns(p)] \in Seq(Texts) /\ Window \in Nat
      BY <1>0, <2>1, AtCandidate, BoundsAssumption
    <3>2. Text(p) \in Rows(Ns(p)) /\ Text(p) \in Texts
      <4> DEFINE list == ListAtoms(Ns(p), Text(p)[1], Window)
      <4>1. list \in Seq(Texts) /\ \A i \in 1..Len(list) : list[i] \in Rows(Ns(p))
        BY <3>1, ListAtomsFacts
      <4>2. PICK i \in 1..Len(list) : list[i] = Text(p)
        BY <2>2 DEF Exists
      <4>3. QED
        BY <4>1, <4>2
    <3>3. Stored(Text(p)) \in RowsOf(store'[Ns(p)])
      BY <2>1, <3>2, StoredTexts DEF Rows, RowsOf
    <3>4. QED
      BY <1>3, <2>1, <2>2, <3>3
  <2>3. QED
    BY <1>1, <2>1, <2>2
<1>5. ASSUME NEW p \in Servers, Create(p) PROVE \A a \in acked' : in(a)
  <2>1. PICK stored \in BOOLEAN, answered \in BOOLEAN :
           /\ answered => stored
           /\ store' = IF stored THEN [store EXCEPT ![Ns(p)] = Append(@, Stored(Text(p)))]
                       ELSE store
           /\ acked' = IF answered THEN Told(p) ELSE acked
    BY <1>5 DEF Create
  <2>2. pc[p] = "create" /\ pc[p] \in Remembering
    BY <1>5 DEF Create, Remembering
  <2>3. CASE answered
    <3>1. Ns(p) \in Namespaces /\ store[Ns(p)] \in Seq(Texts) /\ Stored(Text(p)) \in Texts
      BY <1>0, <2>2, AtCandidate, StoredTexts
    <3>2. store'[Ns(p)] = Append(store[Ns(p)], Stored(Text(p)))
      BY <1>0, <2>1, <2>3, <3>1
    <3>3. /\ Len(store'[Ns(p)]) \in 1..Len(store'[Ns(p)])
          /\ store'[Ns(p)][Len(store'[Ns(p)])] = Stored(Text(p))
      BY <3>1, <3>2
    <3>4. Stored(Text(p)) \in RowsOf(store'[Ns(p)])
      BY <3>3 DEF RowsOf
    <3>5. QED
      BY <1>3, <2>1, <2>2, <2>3, <3>4
  <2>4. CASE ~answered
    BY <1>1, <2>1, <2>4
  <2>5. QED
    BY <2>3, <2>4
<1>6. ASSUME NEW p \in Servers, Begun(p) \/ Acquire(p) \/ Release(p) \/ Search(p) \/ Crash(p)
      PROVE  acked' = acked
  BY <1>6 DEF Begun, Begin, Acquire, Release, Search, Crash
<1>7. ASSUME Local PROVE acked' = acked
  BY <1>7 DEF Local
<1>8. \A a \in acked' : in(a)
  <2> HIDE DEF in
  <2>1. QED
    BY <1>1, <1>4, <1>5, <1>6, <1>7, Cases DEF Step
<1>9. QED
  BY <1>2, <1>8

\* What was known when the search began is reported, and where it concerns the process.
LEMMA KnownStored ==
  ASSUME TypeOK, AckedStored, NEW p \in Servers, NEW a \in known[p]
  PROVE  a \in Report /\ Stored(a.text) \in Rows(NamespaceOf(a.by, a.kind))
         /\ Stored(a.text)[1] = a.text[1]
<1>1. a \in acked /\ a \in Report
  BY DEF TypeOK, Report, Kinds, Words
<1>2. a.text \in Words
  BY <1>1 DEF Report
<1>3. QED
  BY <1>1, <1>2, StoredTexts DEF AckedStored

\* A search that has read the project's rows goes on with them.
LEMMA ReadStep ==
  ASSUME IInv, [Next]_vars
  PROVE  ProjectRead'
<1>0. /\ TypeOK /\ AckedStored /\ ProjectRead
      /\ pc \in [Servers -> {"idle", "lock", "check", "create", "unlock", "raise",
                             "project", "global"}]
      /\ found \in [Servers -> Seq(Texts)]
  BY DEF IInv, TypeOK
<1> DEFINE read(q) ==
      \/ Len(found[q]) = SearchLimit
      \/ \A a \in known[q] : NamespaceOf(a.by, a.kind) = Project(q) /\ a.text[1] = query[q] =>
           Finds(q, a)
<1>1. SUFFICES ASSUME NEW q \in Servers, pc'[q] = "global" PROVE read(q)'
  BY DEF ProjectRead
<1>2. ASSUME pc[q] = "global", found'[q] = found[q], known'[q] = known[q], query'[q] = query[q]
      PROVE  read(q)'
  BY <1>0, <1>2 DEF ProjectRead, Finds, NamespaceOf, Project
<1>3. CASE Local
  BY <1>1, <1>2, <1>3 DEF Local, localVars
<1>4. ASSUME NEW p \in Servers, Begun(p) \/ Acquire(p) \/ Check(p) \/ Create(p) \/ Release(p)
                                \/ Crash(p)
      PROVE  read(q)'
  <2>1. pc[q] = "global" /\ found'[q] = found[q] /\ known'[q] = known[q] /\ query'[q] = query[q]
    <3>1. CASE q = p
      BY <1>0, <1>1, <1>4, <3>1
         DEF Begun, Begin, Acquire, Check, Create, Release, Crash, Goto
    <3>2. CASE q # p
      <4>1. /\ pc'[q] = pc[q] /\ found'[q] = found[q]
        BY <1>0, <1>4, <3>2
           DEF Begun, Begin, Acquire, Check, Create, Release, Crash, Goto, localVars
      <4>2. known'[q] = known[q] /\ query'[q] = query[q]
        BY <1>0, <1>4, <3>2
           DEF TypeOK, Begun, Begin, Acquire, Check, Create, Release, Crash, Goto, localVars
      <4>3. QED
        BY <1>1, <4>1, <4>2
    <3>3. QED
      BY <3>1, <3>2
  <2>2. QED
    BY <1>2, <2>1
<1>5. ASSUME NEW p \in Servers, Search(p) PROVE read(q)'
  <2>1. /\ UNCHANGED <<query, known>>
        /\ pc' = [pc EXCEPT ![p] = IF pc[p] = "project" THEN "global" ELSE "idle"]
        /\ pc[p] = "project" => found' = [found EXCEPT ![p] = Results(p, Project(p))]
        /\ pc[p] = "global" => pc'[p] = "idle"
        /\ pc[p] \in {"project", "global"}
    BY <1>0, <1>5 DEF Search, Goto
  <2>2. CASE q # p
    <3>1. found'[q] = found[q] /\ pc[q] = "global"
      BY <1>0, <1>1, <1>5, <2>1, <2>2 DEF Search
    <3>2. QED
      BY <1>2, <2>1, <3>1
  <2>3. CASE q = p
    <3>1. found'[q] = Results(q, Project(q)) /\ Project(q) \in Namespaces
      BY <1>0, <1>1, <2>1, <2>3, NamespacesUsed
    <3>2. \/ Len(found'[q]) = SearchLimit
          \/ \A t \in Rows(Project(q)) : t[1] = query[q] =>
               \E j \in 1..Len(found'[q]) : found'[q][j] = t
      BY <1>0, <3>1, ResultsFacts
    <3>3. \A a \in known[q] : NamespaceOf(a.by, a.kind) = Project(q) /\ a.text[1] = query[q] =>
            Stored(a.text) \in Rows(Project(q)) /\ Stored(a.text)[1] = query[q]
      BY <1>0, KnownStored
    <3>4. \A a \in known[q] : Finds(q, a)' <=>
                                \E i \in 1..Len(found'[q]) : found'[q][i] = Stored(a.text)
      BY DEF Finds, Stored
    <3>5. QED
      BY <2>1, <3>2, <3>3, <3>4 DEF NamespaceOf, Project
  <2>4. QED
    BY <2>2, <2>3
<1>6. QED
  <2> HIDE DEF read
  <2>1. QED
    BY <1>3, <1>4, <1>5, Cases DEF Step

\* A search ends with everything that was known, or as many results as it may have.
LEMMA SearchEnds ==
  ASSUME IInv, NEW p \in Servers, Search(p), pc'[p] = "idle"
  PROVE  \/ Len(found'[p]) = SearchLimit
         \/ \A a \in known[p] : Concerns(a, p) /\ a.text[1] = query[p] =>
              \E i \in 1..Len(found'[p]) : found'[p][i] = Stored(a.text)
<1>1. TypeOK /\ AckedStored /\ ProjectRead
  BY DEF IInv
<1>2. pc[p] = "global" /\ found'[p] = Results(p, User) /\ User \in Namespaces
  BY <1>1, NamespacesUsed DEF Search, Goto, TypeOK
<1>3. SUFFICES ASSUME Len(found'[p]) # SearchLimit,
                      NEW a \in known[p], Concerns(a, p), a.text[1] = query[p]
               PROVE  \E i \in 1..Len(found'[p]) : found'[p][i] = Stored(a.text)
  OBVIOUS
<1>4. /\ Len(Results(p, User)) <= SearchLimit /\ Len(Results(p, User)) # SearchLimit
      /\ \A i \in 1..Len(found[p]) :
           \E j \in 1..Len(found'[p]) : found'[p][j] = found[p][i]
      /\ \A t \in Rows(User) : t[1] = query[p] =>
           \E j \in 1..Len(found'[p]) : found'[p][j] = t
  BY <1>1, <1>2, <1>3, ResultsFacts
<1>5. /\ a \in Report /\ Stored(a.text) \in Rows(NamespaceOf(a.by, a.kind))
      /\ Stored(a.text)[1] = query[p]
  BY <1>1, <1>3, KnownStored
<1>6. CASE NamespaceOf(a.by, a.kind) = User
  BY <1>4, <1>5, <1>6
<1>7. CASE NamespaceOf(a.by, a.kind) = Project(p)
  <2>1. CASE Len(found[p]) = SearchLimit
    BY <1>1, <1>2, <1>3, <2>1, FullStaysFull
  <2>2. CASE Len(found[p]) # SearchLimit
    <3>1. Finds(p, a)
      BY <1>1, <1>2, <1>3, <1>7, <2>2 DEF ProjectRead
    <3>2. QED
      BY <1>4, <3>1 DEF Finds
  <2>3. QED
    BY <2>1, <2>2
<1>8. QED
  BY <1>3, <1>5, <1>6, <1>7, WhereItConcerns

-----------------------------------------------------------------------------
(* The theorems *)

\* The invariant holds at first.
LEMMA InitHolds ==
  ASSUME Init
  PROVE  IInv
<1>1. McpTypeOK /\ Negotiating
  BY DEF Init, McpInit, McpTypeOK, Negotiating
<1>2. TypeOK
  <2>1. /\ Len(<<>>) = 0 /\ SearchLimit \in Nat /\ MaxBatch \in Nat /\ MaxCalls \in Nat
        /\ <<>> \in Seq(Candidates) /\ <<>> \in Seq(Texts)
        /\ 0 <= SearchLimit /\ 0 <= MaxBatch /\ 0 \in 0..MaxCalls
    BY BoundsAssumption
  <2>2. /\ store \in [Namespaces -> Seq(Texts)]
        /\ batch \in [Servers -> Seq(Candidates)] /\ \A p \in Servers : Len(batch[p]) <= MaxBatch
        /\ found \in [Servers -> Seq(Texts)] /\ \A p \in Servers : Len(found[p]) <= SearchLimit
    BY <2>1 DEF Init
  <2>3. query \in [Servers -> Queries] /\ known \in [Servers -> SUBSET acked] /\ acked = {}
    BY DEF Init, Queries
  <2>4. QED
    BY <1>1, <2>1, <2>2, <2>3 DEF Init, TypeOK
<1>3. Working /\ AckedStored /\ ProjectRead
  BY DEF Init, Working, Remembering, AckedStored, ProjectRead
<1>4. Locked
  BY DEF Init, Locked, Remembering
<1>5. CopiesBounded
  <2>1. SUFFICES ASSUME NEW ns \in Namespaces, NEW text \in Texts
                 PROVE  Copies(ns, text) + Cardinality(Creating(ns, text)) <= Writers
    BY DEF CopiesBounded
  <2>2. At(store[ns], text) = {} /\ Creating(ns, text) = {}
    <3>1. store[ns] = <<>> /\ \A p \in Servers : pc[p] = "idle"
      BY DEF Init
    <3>2. QED
      BY <3>1 DEF At, Creating
  <2>3. Copies(ns, text) = 0 /\ Cardinality(Creating(ns, text)) = 0
    BY <2>2, CopiesAt, FS_EmptySet
  <2>4. Writers \in Nat
    BY BoundsAssumption, FS_CardinalityType DEF Writers
  <2>5. QED
    BY <2>3, <2>4
<1>6. QED
  BY <1>1, <1>2, <1>3, <1>4, <1>5 DEF IInv

\* Every step keeps it.
LEMMA StepHolds ==
  ASSUME IInv, [Next]_vars
  PROVE  IInv'
<1>1. Negotiating'
  BY McpStep DEF IInv, TypeOK
<1>2. QED
  BY <1>1, TypeStep, LockStep, CopiesStep, AckedStep, ReadStep DEF IInv

\* The inductive invariant holds in every reachable state.
THEOREM MemoryInvariant == Spec => []IInv
<1>1. QED
  BY InitHolds, StepHolds, PTL DEF Spec

\* The variables have their types, no batch or result is longer than its limit, and
\* nothing is known at a search that was not reported.
THEOREM MemoryTypeCorrect == Spec => []TypeOK
<1>1. IInv => TypeOK
  BY DEF IInv
<1>2. QED
  BY <1>1, MemoryInvariant, PTL

\* Tools are open only after one handshake, and never after both.
THEOREM ToolsAfterHandshake == Spec => []ToolsNegotiated
<1>1. IInv => ToolsNegotiated
  BY DEF IInv, TypeOK, McpTypeOK, Negotiating, ToolsNegotiated
<1>2. QED
  BY <1>1, MemoryInvariant, PTL

\* A fact is stored once in PostgreSQL, and once by each writer without its lock.
THEOREM FactsStoredOnce == Spec => []StoredOnce
<1>1. ASSUME IInv PROVE StoredOnce
  <2>1. SUFFICES ASSUME NEW ns \in Namespaces, NEW text \in Rows(ns), Fits(ns, text)
                 PROVE  Copies(ns, text) <= Writers
    BY DEF StoredOnce, Fits, Writers
  <2>2. store[ns] \in Seq(Texts) /\ text \in Texts
    BY <1>1 DEF IInv, TypeOK, Rows
  <2>3. Copies(ns, text) + Cardinality(Creating(ns, text)) <= Writers
    BY <1>1, <2>1, <2>2 DEF IInv, CopiesBounded
  <2>4. Cardinality(At(store[ns], text)) \in Nat
    BY <2>2, OneMoreRow
  <2>5. Creating(ns, text) \subseteq Servers /\ IsFiniteSet(Servers)
    BY BoundsAssumption DEF Creating
  <2>6. Cardinality(Creating(ns, text)) \in Nat /\ Writers \in Nat
    BY <2>5, FS_Subset, FS_CardinalityType DEF Writers
  <2>7. QED
    BY <2>3, <2>4, <2>6, CopiesAt
<1>2. QED
  BY <1>1, MemoryInvariant, PTL

\* What is reported as created or duplicate is stored where all whom it concerns look.
THEOREM ReportedIsShared == Spec => []AckedIsShared
<1>1. ASSUME IInv PROVE AckedIsShared
  <2>1. SUFFICES ASSUME NEW a \in acked, NEW q \in Servers, Concerns(a, q)
                 PROVE  Stored(a.text) \in Rows(Project(q)) \cup Rows(User)
    BY DEF AckedIsShared
  <2>2. a \in Report /\ Stored(a.text) \in Rows(NamespaceOf(a.by, a.kind))
    BY <1>1 DEF IInv, TypeOK, AckedStored, Report, Kinds, Words
  <2>3. QED
    BY <2>1, <2>2, WhereItConcerns
<1>2. QED
  BY <1>1, MemoryInvariant, PTL

\* A search that ends has all that was reported before it began, or is full.
THEOREM SearchIsComplete == Spec => SearchFindsAcked
<1> DEFINE A == \A p \in Servers : Search(p) /\ pc'[p] = "idle" =>
                  \/ Len(found'[p]) = SearchLimit
                  \/ \A a \in known[p] : Concerns(a, p) /\ a.text[1] = query[p] =>
                       \E i \in 1..Len(found'[p]) : found'[p][i] = Stored(a.text)
<1>1. IInv /\ [Next]_vars => [A]_vars
  BY SearchEnds
<1>2. SearchFindsAcked <=> [][A]_vars
  BY DEF SearchFindsAcked
<1> HIDE DEF A
<1>3. QED
  BY <1>1, <1>2, MemoryInvariant, PTL DEF Spec

-----------------------------------------------------------------------------
(* Calls end *)

\* Whoever holds a lock works on the fact it locked.
Worked(l) == pc[l.by] \in Remembering \ {"lock"} /\ l.key = Key(l.by)
LocksWorked == \A l \in locks : Worked(l)

\* A step of a process takes its lock, works under it, or gives it up.
LEMMA LocksWorkedStep ==
  ASSUME IInv, LocksWorked, [Next]_vars
  PROVE  LocksWorked'
<1>0. /\ pc \in [Servers -> {"idle", "lock", "check", "create", "unlock", "raise",
                             "project", "global"}]
      /\ batch \in [Servers -> Seq(Candidates)] /\ \A l \in locks : l.by \in Servers
  BY DEF IInv, TypeOK
<1>1. ASSUME NEW p \in Servers, batch'[p] = batch[p] PROVE Key(p)' = Key(p)
  BY <1>1 DEF Key, Ns, Text, NamespaceOf
<1>2. ASSUME NEW p \in Servers,
             \A q \in Servers \ {p} : pc'[q] = pc[q] /\ batch'[q] = batch[q],
             NEW l \in locks, l.by # p
      PROVE  Worked(l)'
  <2>1. pc'[l.by] = pc[l.by] /\ Key(l.by)' = Key(l.by)
    BY <1>0, <1>1, <1>2
  <2>2. QED
    BY <1>2, <2>1 DEF LocksWorked, Worked
<1>3. CASE Local
  BY <1>0, <1>1, <1>3 DEF Local, localVars, LocksWorked, Worked
<1>4. ASSUME NEW p \in Servers, Begun(p) \/ Search(p) PROVE LocksWorked'
  <2>1. /\ pc[p] \notin Remembering /\ locks' = locks
        /\ \A q \in Servers \ {p} : pc'[q] = pc[q] /\ batch'[q] = batch[q]
    BY <1>0, <1>4 DEF Begun, Begin, Search, Goto, Remembering
  <2>2. \A l \in locks : l.by # p
    BY <2>1 DEF LocksWorked, Worked
  <2>3. QED
    BY <1>2, <2>1, <2>2 DEF LocksWorked
<1>5. ASSUME NEW p \in Servers, Acquire(p) PROVE LocksWorked'
  <2>1. /\ pc[p] = "lock" /\ pc'[p] = "check" /\ batch' = batch
        /\ \A q \in Servers \ {p} : pc'[q] = pc[q]
        /\ locks' \subseteq locks \cup {[key |-> Key(p), by |-> p]}
    BY <1>0, <1>5 DEF Acquire, Goto, localVars
  <2>2. \A l \in locks : l.by # p
    BY <2>1 DEF LocksWorked, Worked
  <2>3. pc'[p] \in Remembering \ {"lock"} /\ Key(p)' = Key(p)
    BY <1>1, <2>1 DEF Remembering
  <2>4. ASSUME NEW l \in locks' PROVE Worked(l)'
    <3>1. CASE l \in locks
      BY <1>2, <2>1, <2>2, <3>1
    <3>2. CASE l = [key |-> Key(p), by |-> p]
      BY <2>3, <3>2 DEF Worked
    <3>3. QED
      BY <2>1, <2>4, <3>1, <3>2
  <2>5. QED
    BY <2>4 DEF LocksWorked
<1>6. ASSUME NEW p \in Servers, Check(p) \/ Create(p) PROVE LocksWorked'
  <2>1. /\ pc'[p] \in Remembering \ {"lock"} /\ batch' = batch /\ locks' = locks
        /\ \A q \in Servers \ {p} : pc'[q] = pc[q]
    BY <1>0, <1>6 DEF Check, Create, Goto, localVars, Remembering
  <2>2. \A l \in locks : l.by = p => Worked(l)'
    BY <1>1, <2>1 DEF LocksWorked, Worked
  <2>3. QED
    BY <1>2, <2>1, <2>2 DEF LocksWorked
<1>7. ASSUME NEW p \in Servers, Release(p) \/ Crash(p) PROVE LocksWorked'
  <2>1. /\ locks' = {l \in locks : l.by # p}
        /\ \A q \in Servers \ {p} : pc'[q] = pc[q] /\ batch'[q] = batch[q]
    BY <1>0, <1>7 DEF Release, Crash, Freed, Goto
  <2>2. QED
    BY <1>2, <2>1 DEF LocksWorked
<1>8. QED
  BY <1>3, <1>4, <1>5, <1>6, <1>7, Cases DEF Step

\* No lock leaks and no one waits for a process that waits: in every reachable state,
\* after errors, crashes and lost answers, a lock is held by a process that works on the
\* fact it locked (_dedup_lock).  A waiter waits for one that goes on.
THEOREM HoldersGoOn == Spec => []LocksWorked
<1>1. Init => LocksWorked
  BY Zenon DEF Init, LocksWorked
<1>2. IInv /\ LocksWorked /\ [Next]_vars => LocksWorked'
  BY LocksWorkedStep
<1>3. QED
  BY <1>1, <1>2, MemoryInvariant, PTL DEF Spec

\* The steps that a call has left.
Left(p) == CASE pc[p] = "lock"              -> 4 * Len(batch[p])
             [] pc[p] = "check"             -> 4 * Len(batch[p]) - 1
             [] pc[p] = "create"            -> 4 * Len(batch[p]) - 2
             [] pc[p] \in {"unlock", "raise"} -> 4 * Len(batch[p]) - 3
             [] pc[p] = "project"           -> 2
             [] pc[p] = "global"            -> 1
             [] pc[p] = "idle"              -> 0

\* A call is one of MaxBatch candidates at most.
LEMMA LeftBounded ==
  ASSUME IInv, NEW p \in Servers
  PROVE  Left(p) \in 0..(4 * MaxBatch)
<1>1. /\ pc[p] \in {"idle", "lock", "check", "create", "unlock", "raise", "project", "global"}
      /\ batch[p] \in Seq(Candidates) /\ Len(batch[p]) <= MaxBatch /\ MaxBatch \in Nat \ {0}
      /\ pc[p] \in Remembering => batch[p] # <<>>
  BY BoundsAssumption DEF IInv, TypeOK, Working
<1>2. Len(batch[p]) \in Nat /\ (pc[p] \in Remembering => Len(batch[p]) >= 1)
  BY <1>1
<1> DEFINE n == Len(batch[p])
<1> HIDE DEF n
<1>3. n \in Nat /\ n <= MaxBatch /\ (pc[p] \in Remembering => n >= 1)
  BY <1>1, <1>2 DEF n
<1>4. QED
  BY <1>1, <1>3 DEF Left, Remembering, n

\* Each step of a process brings its call nearer to the end.
LEMMA LeftShrinks ==
  ASSUME IInv, NEW p \in Servers, Step(p)
  PROVE  Left(p)' < Left(p)
<1> DEFINE n == Len(batch[p])
           m == Len(batch'[p])
<1>1. /\ pc \in [Servers -> {"idle", "lock", "check", "create", "unlock", "raise",
                             "project", "global"}]
      /\ batch \in [Servers -> Seq(Candidates)] /\ batch[p] \in Seq(Candidates)
      /\ pc[p] \in Remembering => batch[p] # <<>>
  BY DEF IInv, TypeOK, Working
<1>2. n \in Nat /\ (pc[p] \in Remembering => n >= 1)
  BY <1>1
<1>3. CASE Acquire(p) \/ Check(p) \/ Create(p)
  <2>1. /\ batch' = batch
        /\ \/ pc[p] = "lock" /\ pc'[p] = "check"
           \/ pc[p] = "check" /\ pc'[p] \in {"unlock", "create"}
           \/ pc[p] = "create" /\ pc'[p] \in {"unlock", "raise"}
    BY <1>1, <1>3 DEF Acquire, Check, Create, Goto, localVars
  <2>2. m = n
    BY <2>1
  <2> HIDE DEF n, m
  <2>3. QED
    BY <1>2, <2>1, <2>2 DEF Left, n, m
<1>4. CASE Release(p)
  <2>1. /\ pc[p] \in {"unlock", "raise"} /\ batch'[p] \in {<<>>, Tail(batch[p])}
        /\ pc'[p] = IF batch'[p] = <<>> THEN "idle" ELSE "lock"
    BY <1>1, <1>4 DEF Release, Goto
  <2>2. batch'[p] # <<>> => m = n - 1
    BY <1>1, <2>1 DEF Remembering
  <2> HIDE DEF n, m
  <2>3. pc'[p] = "idle" \/ (pc'[p] = "lock" /\ m = n - 1)
    BY <2>1, <2>2
  <2>4. QED
    BY <1>2, <2>1, <2>3 DEF Left, Remembering, n, m
<1>5. CASE Search(p)
  <2>1. \/ pc[p] = "project" /\ pc'[p] = "global"
        \/ pc[p] = "global" /\ pc'[p] = "idle"
    BY <1>1, <1>5 DEF Search, Goto
  <2>2. QED
    BY <2>1 DEF Left
<1>6. QED
  BY <1>3, <1>4, <1>5 DEF Step

\* Calls are short: a process that is not kept waiting for a lock ends its call within
\* four steps for each candidate, and no step of its own, failing or not, starts over.
THEOREM CallsAreShort ==
  Spec => /\ [](\A p \in Servers : Left(p) \in 0..(4 * MaxBatch))
          /\ [][\A p \in Servers : Step(p) => Left(p)' < Left(p)]_vars
<1> DEFINE Short == \A p \in Servers : Left(p) \in 0..(4 * MaxBatch)
           Shrinks == \A p \in Servers : Step(p) => Left(p)' < Left(p)
<1>1. IInv => Short
  BY Zenon, LeftBounded
<1>2. IInv => Shrinks
  BY LeftShrinks
<1>3. IInv /\ [Next]_vars => [Shrinks]_vars
  BY <1>2
<1> HIDE DEF Short, Shrinks
<1>4. QED
  BY <1>1, <1>3, MemoryInvariant, PTL DEF Spec, Short, Shrinks

=============================================================================
