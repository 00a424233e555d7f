---------------------------- MODULE SharedMemory ----------------------------
(***************************************************************************)
(* The shared long-term memory: several processes, each an MCP server      *)
(* (scripts/memory-v2-mcp) or a one-shot command (scripts/memory-v2-rpc),  *)
(* run HarnessMemoryService (runtime/common/harness_memory_service.py) on  *)
(* one store.  Each call of the store and of the lock is a step of its     *)
(* own; processes crash between any two.                                   *)
(***************************************************************************)
EXTENDS McpStdio, Naturals, Sequences, FiniteSets, SequencesExt, Selection

CONSTANTS
  Mcp,          \* the processes that are MCP servers; the others are commands
  Checkout,     \* where each process runs: [override, remote, name], see Project
  Candidates,   \* what may be remembered: [kind, text]
  Commands,     \* what a process is asked: [op |-> "remember", batch] or
                \* [op |-> "search", query]
  Backends,     \* "postgres", or "local" for a file of SQLite
  Window,       \* the rows _exists looks at (20)
  SearchLimit,  \* the results of a search (5)
  MaxBatch,     \* the candidates of a batch that are looked at (20)
  MaxCalls      \* bound on the calls

\* A text is <<its first 200 characters, the next 3800, the rest>>.
Stored(text) == <<text[1], text[2], "">>

ProjectKinds == {"project_fact", "architecture", "decision", "convention", "known_issue"}
GlobalKinds == {"workstyle", "hat_preference"}

ASSUME CandidatesAssumption ==
  \A c \in Candidates : /\ c.kind \in ProjectKinds \cup GlobalKinds
                         /\ c.text = <<c.text[1], c.text[2], c.text[3]>>
ASSUME CommandsAssumption ==
  \A c \in Commands : \/ c.op = "remember" /\ c.batch \in Seq(Candidates)
                      \/ c.op = "search" /\ c.query \in STRING
ASSUME BoundsAssumption ==
  /\ {Window, SearchLimit, MaxBatch} \subseteq Nat \ {0} /\ MaxCalls \in Nat
  /\ IsFiniteSet(Servers) /\ Mcp \subseteq Servers /\ Backends \subseteq {"postgres", "local"}

Queries == {""} \cup {c.query : c \in {d \in Commands : d.op = "search"}}

VARIABLES
  backend,
  store,  \* the atoms of each namespace in order of creation
  locks,  \* the advisory locks: [key, by]
  pc,     \* what each process does next, "idle" between two calls
  batch,  \* the candidates it still has to remember
  found,  \* the results of its search
  query,  \* what it searches
  acked,  \* candidates reported as created or duplicate: [kind, text, by]
  known,  \* what was so when the search of each process began
  calls   \* calls made

localVars == <<batch, found, query, known>>
vars == <<mcpVars, backend, store, locks, pc, localVars, acked, calls>>

-----------------------------------------------------------------------------
(* Identity *)

\* normalize_remote: a remote is the sequence of its parts once "user@host:" or the
\* scheme and the host of a URL are taken off; the last two name the repository.  From
\* host:owner/repo, without a user, nothing is taken off: its parts are "host:owner"
\* and "repo", another repository than that of the same remote as a URL.
NormalizeRemote(parts) ==
  IF Len(parts) >= 2 THEN SubSeq(parts, Len(parts) - 1, Len(parts)) ELSE parts

\* Mutant of Project: the remote is taken as it is.
ProjectVerbatim(p) ==
  LET c == Checkout[p]
  IN IF c.override # <<>> THEN c.override ELSE IF c.remote # <<>> THEN c.remote ELSE c.name

\* resolve_project_identity
Project(p) ==
  LET c == Checkout[p]
  IN IF c.override # <<>> THEN c.override
     ELSE IF c.remote # <<>> THEN NormalizeRemote(c.remote)
     ELSE c.name

User == <<"user:default">>
Namespaces == {Project(p) : p \in Servers} \cup {User}

NamespaceOf(p, kind) == IF kind \in ProjectKinds THEN Project(p) ELSE User

-----------------------------------------------------------------------------
(* The store, as the bridge of harness-memory serves it *)

FirstOf(s, n) == SubSeq(s, 1, IF Len(s) < n THEN Len(s) ELSE n)

\* What the rows may hold, and the part of it that a query finds.
Texts == {Stored(c.text) : c \in Candidates}
Matching(q) == {t \in Texts : t[1] = q}

\* list_atoms: the newest n rows that match.
ListAtoms(ns, q, n) == FirstOf(Reverse(Selected(store[ns], Matching(q))), n)

\* _exists
Exists(ns, text) ==
  \E i \in 1..Len(ListAtoms(ns, text[1], Window)) : ListAtoms(ns, text[1], Window)[i] = text

-----------------------------------------------------------------------------
(* HarnessMemoryService *)

Ns(p) == NamespaceOf(p, Head(batch[p]).kind)
Text(p) == Head(batch[p]).text
Key(p) == <<Ns(p), Text(p)>>

Init ==
  /\ McpInit
  /\ backend \in Backends
  /\ store = [ns \in Namespaces |-> <<>>]
  /\ locks = {}
  /\ pc = [p \in Servers |-> "idle"]
  /\ batch = [p \in Servers |-> <<>>]
  /\ found = [p \in Servers |-> <<>>]
  /\ query = [p \in Servers |-> ""]
  /\ acked = {}
  /\ known = [p \in Servers |-> {}]
  /\ calls = 0

Told(p) == acked \cup {[kind |-> Head(batch[p]).kind, text |-> Text(p), by |-> p]}

Goto(p, step) == pc' = [pc EXCEPT ![p] = step]

\* call / dispatch: a command is taken up.
Begin(p, c) ==
  /\ calls < MaxCalls
  /\ calls' = calls + 1
  /\ found' = [found EXCEPT ![p] = <<>>]
  /\ \/ /\ c.op = "remember"
        /\ batch' = [batch EXCEPT ![p] = FirstOf(c.batch, MaxBatch)]
        /\ Goto(p, IF c.batch = <<>> THEN "idle" ELSE "lock") /\ UNCHANGED <<query, known>>
     \/ /\ c.op = "search"
        /\ query' = [query EXCEPT ![p] = c.query]
        /\ known' = [known EXCEPT ![p] = acked]
        /\ Goto(p, "project") /\ UNCHANGED batch
  /\ UNCHANGED <<backend, store, locks, acked>>

\* A line reaches the MCP server of p; a batch of several comes by Rpc only.
Receive(p, r) ==
  /\ p \in Mcp /\ pc[p] = "idle"
  /\ Handle(p, r)
  /\ IF Dispatches(p, r)
     THEN \E c \in Commands : (c.op = "remember" => Len(c.batch) = 1) /\ Begin(p, c)
     ELSE UNCHANGED <<backend, store, locks, pc, localVars, acked, calls>>

\* memory-v2-rpc: one search, remember, remember_many or handoff per process; the
\* next command is another process, in the same checkout.
Rpc(p) ==
  /\ p \in Servers \ Mcp /\ pc[p] = "idle"
  /\ \E c \in Commands : Begin(p, c)
  /\ UNCHANGED mcpVars

\* Mutant of Acquire: the lock does not wait.
AcquireAtOnce(p) ==
  /\ pc[p] = "lock"
  /\ locks' = locks \cup {[key |-> Key(p), by |-> p]}
  /\ Goto(p, "check")
  /\ UNCHANGED <<mcpVars, backend, store, localVars, acked, calls>>

\* _dedup_lock, entered
Acquire(p) ==
  /\ pc[p] = "lock"
  /\ backend = "postgres" => \A l \in locks : l.key # Key(p)
  /\ locks' = IF backend = "postgres" THEN locks \cup {[key |-> Key(p), by |-> p]} ELSE locks
  /\ Goto(p, "check")
  /\ UNCHANGED <<mcpVars, backend, store, localVars, acked, calls>>

Check(p) ==
  /\ pc[p] = "check"
  /\ IF Exists(Ns(p), Text(p))
     THEN acked' = Told(p) /\ Goto(p, "unlock")
     ELSE Goto(p, "create") /\ UNCHANGED acked
  /\ UNCHANGED <<mcpVars, backend, store, locks, localVars, calls>>

\* create_atom: it may also fail, or store the atom and lose the answer.  An error
\* ends the whole batch; what it has stored stays.
Create(p) ==
  /\ pc[p] = "create"
  /\ \E stored, answered \in BOOLEAN :
       /\ answered => stored
       /\ store' = IF stored THEN [store EXCEPT ![Ns(p)] = Append(@, Stored(Text(p)))] ELSE store
       /\ acked' = IF answered THEN Told(p) ELSE acked
       /\ Goto(p, IF answered THEN "unlock" ELSE "raise")
  /\ UNCHANGED <<mcpVars, backend, locks, localVars, calls>>

Freed(p) == {l \in locks : l.by # p}

\* Mutant of Release: an exception skips the unlock.
ReleaseNotOnError(p) ==
  /\ pc[p] \in {"unlock", "raise"}
  /\ locks' = IF pc[p] = "raise" THEN locks ELSE Freed(p)
  /\ batch' = [batch EXCEPT ![p] = IF pc[p] = "raise" THEN <<>> ELSE Tail(@)]
  /\ Goto(p, IF batch'[p] = <<>> THEN "idle" ELSE "lock")
  /\ UNCHANGED <<mcpVars, backend, store, found, query, known, acked, calls>>

\* _dedup_lock, left; remember_many goes on with the next candidate.
Release(p) ==
  /\ pc[p] \in {"unlock", "raise"}
  /\ locks' = Freed(p)
  /\ batch' = [batch EXCEPT ![p] = IF pc[p] = "raise" THEN <<>> ELSE Tail(@)]
  /\ Goto(p, IF batch'[p] = <<>> THEN "idle" ELSE "lock")
  /\ UNCHANGED <<mcpVars, backend, store, found, query, known, acked, calls>>

\* Mutants of Results: the global rows replace those of the project; no limit.
ResultsLast(p, ns) == ListAtoms(ns, query[p], SearchLimit)
ResultsAll(p, ns) == found[p] \o ListAtoms(ns, query[p], SearchLimit)

\* The results of a search once the rows of ns are read.
Results(p, ns) == FirstOf(found[p] \o ListAtoms(ns, query[p], SearchLimit), SearchLimit)

\* search: first the project's rows, then the user's.
Search(p) ==
  /\ pc[p] \in {"project", "global"}
  /\ found' = [found EXCEPT ![p] = Results(p, IF pc[p] = "project" THEN Project(p) ELSE User)]
  /\ Goto(p, IF pc[p] = "project" THEN "global" ELSE "idle")
  /\ UNCHANGED <<mcpVars, backend, store, locks, batch, query, known, acked, calls>>

\* The process dies and its client starts another one; the lock is bound to the
\* session of the dead one.
Crash(p) ==
  /\ pc[p] # "idle"
  /\ Restart(p)
  /\ locks' = Freed(p)
  /\ Goto(p, "idle")
  /\ batch' = [batch EXCEPT ![p] = <<>>]
  /\ found' = [found EXCEPT ![p] = <<>>]
  /\ UNCHANGED <<backend, store, query, known, acked, calls>>

Step(p) == Acquire(p) \/ Check(p) \/ Create(p) \/ Release(p) \/ Search(p)

Next ==
  \/ \E p \in Servers, r \in Requests : Receive(p, r)
  \/ \E p \in Servers : Rpc(p) \/ Step(p) \/ Crash(p)

\* A process goes on with its call, and PostgreSQL serves the waiters of a lock.
Fairness == \A p \in Servers : WF_vars(Step(p)) /\ SF_vars(Acquire(p))

Spec == Init /\ [][Next]_vars /\ Fairness

-----------------------------------------------------------------------------
(* Properties *)

TypeOK ==
  /\ McpTypeOK
  /\ backend \in Backends
  /\ store \in [Namespaces -> Seq(Texts)]
  /\ \A l \in locks : l.key[1] \in Namespaces /\ l.by \in Servers
  /\ pc \in [Servers -> {"idle", "lock", "check", "create", "unlock", "raise", "project", "global"}]
  /\ batch \in [Servers -> Seq(Candidates)] /\ \A p \in Servers : Len(batch[p]) <= MaxBatch
  /\ found \in [Servers -> Seq(Texts)] /\ \A p \in Servers : Len(found[p]) <= SearchLimit
  /\ query \in [Servers -> Queries]
  /\ acked \subseteq [kind : ProjectKinds \cup GlobalKinds, text : {c.text : c \in Candidates},
                      by : Servers]
  /\ known \in [Servers -> SUBSET acked]
  /\ calls \in 0..MaxCalls

Rows(ns) == {store[ns][i] : i \in 1..Len(store[ns])}
Copies(ns, text) == Cardinality({i \in 1..Len(store[ns]) : store[ns][i] = text})
Crowded(ns, head) == Len(Selected(store[ns], Matching(head))) > Window
IsShort(text) == \A c \in Candidates : Stored(c.text) = text => c.text = text

\* A fact that fits into a row and into the window of _exists is stored once in
\* PostgreSQL, whoever remembers it together, dies on the way or tries again after
\* an answer was lost ("identical concurrent writers deduplicate").  Without the
\* lock of PostgreSQL each process adds one copy at most: a fact is never stored
\* again because its own writer did not see it.
StoredOnce ==
  \A ns \in Namespaces : \A text \in Rows(ns) :
    IsShort(text) /\ ~Crowded(ns, text[1]) =>
      Copies(ns, text) <= IF backend = "postgres" THEN 1 ELSE Cardinality(Servers)

\* Two checkouts of one repository, known by the last two parts of the remote.
SameRepository(p, q) ==
  LET parts(c) == IF c.override = <<>> THEN c.remote ELSE <<>>
      last(c) == SubSeq(parts(c), Len(parts(c)) - 1, Len(parts(c)))
  IN /\ Len(parts(Checkout[p])) >= 2 /\ Len(parts(Checkout[q])) >= 2
     /\ last(Checkout[p]) = last(Checkout[q])

\* What the memories of q should hold.
Concerns(a, q) == a.kind \in GlobalKinds \/ a.by = q \/ SameRepository(a.by, q)

\* A fact reported as created or duplicate is in the store, where every checkout of
\* its repository, and for a preference every project, finds it: "duplicate" never
\* stands for another fact, and no error on the way is reported as success.
AckedIsShared ==
  \A a \in acked : \A q \in Servers :
    Concerns(a, q) => Stored(a.text) \in Rows(Project(q)) \cup Rows(User)

\* A search that ends has every matching fact reported before it began, or as many
\* results as it may have.
SearchFindsAcked ==
  [][\A p \in Servers : Search(p) /\ pc'[p] = "idle" =>
       \/ Len(found'[p]) = SearchLimit
       \/ \A a \in known[p] : Concerns(a, p) /\ a.text[1] = query[p] =>
            \E i \in 1..Len(found'[p]) : found'[p][i] = Stored(a.text)]_vars

\* Every call ends, those that wait for the lock of a process that fails or dies
\* included.
CallsEnd == \A p \in Servers : pc[p] # "idle" ~> pc[p] = "idle"

=============================================================================
