-------------------------- MODULE ReliabilityGuard --------------------------
(***************************************************************************)
(* The slots of delegation of the reliability guard of OpenCode V2         *)
(* (runtime/plugins/reliability-v2-legacy.ts), for one parent session that *)
(* calls its subagents in parallel.                                        *)
(*                                                                         *)
(* The plugin runs in one JavaScript thread; what varies is what happens   *)
(* while acquireSlot awaits, when the host launches a call that the hook   *)
(* let through, and when its events are handled, in the order of the host. *)
(* A fresh call has an identity of its own (delegationTaskKey in           *)
(* reliability-core.js); a call with a task_id resumes a child.            *)
(***************************************************************************)
EXTENDS Naturals, Sequences, FiniteSets, SequencesExt, Selection

CONSTANTS
  Calls,  \* the calls of the parent; a child has the name of the call that created it
  Limit   \* MAX_PARALLEL_SUBAGENTS

ASSUME LimitAssumption == Limit \in Nat \ {0}
ASSUME CallsAssumption == IsFiniteSet(Calls) /\ "none" \notin Calls

VARIABLES
  stage,     \* host: what each call is at
  child,     \* host: the child a call is about, "none" before the call
  created,   \* host: the children
  busy,      \* host: the children that work
  events,    \* the events the plugin has not handled
  reserved,  \* plugin: the reservations [call, key], oldest first
  known,     \* plugin: the registered children
  terminal,  \* plugin: the children last heard to be idle
  aborted,   \* plugin: the children it has aborted and not heard to work since
  keyOf,     \* plugin: delegationByTaskID, the delegation of each child
  lost       \* the calls under way that lost their slot: the reservation ran out, went
             \* to another child or was released for an earlier call, or the child was
             \* aborted

hostVars == <<stage, child, created, busy>>
pluginVars == <<reserved, known, terminal, aborted, keyOf, lost>>
vars == <<hostVars, events, pluginVars>>

\* The key of a delegation: that of a fresh call, or of a task_id that is new.
Fresh(c) == <<"call", c>>
Task(k) == <<"task", k>>
NoKey == <<"none", "none">>
Keys == {Fresh(c) : c \in Calls} \cup {Task(c) : c \in Calls}

Init ==
  /\ stage = [c \in Calls |-> "unused"]
  /\ child = [c \in Calls |-> "none"]
  /\ created = {} /\ busy = {}
  /\ events = <<>>
  /\ reserved = <<>>
  /\ known = {} /\ terminal = {} /\ aborted = {}
  /\ keyOf = [k \in Calls |-> NoKey]
  /\ lost = {}

Goto(c, s) == stage' = [stage EXCEPT ![c] = s]

\* The calls that were let through and may have, or get, a child at work.
Active == {c \in Calls : stage[c] \in {"granted", "running"}}

-----------------------------------------------------------------------------
(* The plugin's books, [reserved, known, keyOf, lost] *)

Books == [reserved |-> reserved, known |-> known, keyOf |-> keyOf, lost |-> lost]

KeepBooks(b) ==
  reserved' = b.reserved /\ known' = b.known /\ keyOf' = b.keyOf /\ lost' = b.lost

\* registerChild, for children that were not known in the order they are met: each
\* takes the oldest reservation that is left.
Registered(b, ks) ==
  LET n == IF Len(ks) < Len(b.reserved) THEN Len(ks) ELSE Len(b.reserved)
      takes(i, k) == i \in 1..n /\ ks[i] = k
  IN [reserved |-> SubSeq(b.reserved, n + 1, Len(b.reserved)),
      known |-> b.known \cup ToSet(ks),
      keyOf |-> [k \in Calls |-> IF \E i \in 1..n : takes(i, k)
                                 THEN b.reserved[CHOOSE i \in 1..n : takes(i, k)].key
                                 ELSE b.keyOf[k]],
      lost |-> b.lost \cup {b.reserved[i].call :
                              i \in {j \in 1..n : child[b.reserved[j].call] # ks[j]}}]

\* usedSlots; activeCount leaves out the children that are aborted, at work or not.
Used(b) == Cardinality(b.known \ (terminal \cup aborted)) + Len(b.reserved)

Without(b, calls) ==
  [b EXCEPT !.reserved = Selected(@, [call : Calls \ calls, key : Keys])]

\* The calls with a reservation for the delegation.
Holders(key) == {c \in Calls : \E i \in DOMAIN reserved : reserved[i] = [call |-> c, key |-> key]}

-----------------------------------------------------------------------------
(* Hooks *)

\* delegationForArgs, with the task_id k
KeyOfTask(k) == IF keyOf[k] = NoKey THEN Task(k) ELSE keyOf[k]

Key(c) == IF child[c] = c THEN Fresh(c) ELSE KeyOfTask(child[c])

\* execute.before up to the first await of acquireSlot; k is c for a fresh call.
Before(c, k) ==
  /\ stage[c] = "unused"
  /\ \/ k = c
     \/ k \in created /\ \A d \in Calls : child[d] = k => stage[d] = "over"
  /\ child' = [child EXCEPT ![c] = k]
  /\ keyOf' = IF k = c THEN keyOf ELSE [keyOf EXCEPT ![k] = KeyOfTask(k)]
  /\ Goto(c, "queued")
  /\ UNCHANGED <<created, busy, events, reserved, known, terminal, aborted, lost>>

\* Mutant of Reserved: only children count.
ReservedNever(b, c) == b

\* Mutant of Reserved: a slot for the call and one for its delegation.
ReservedTwice(b, c) ==
  LET r == [call |-> c, key |-> Key(c)] IN [b EXCEPT !.reserved = @ \o <<r, r>>]

Reserved(b, c) ==
  [b EXCEPT !.reserved = Append(@, [call |-> c, key |-> Key(c)])]

Grants(b) == Used(b) < Limit

\* reconcileChildren: the books once the children of the host, in some order, are
\* registered.
Reconciled == {Registered(Books, ks) : ks \in SetToSeqs(created \ known)}

\* acquireSlot after its await: the children of the host are registered, and the
\* slots counted and taken in one go.
Acquire(c) ==
  /\ stage[c] = "queued"
  /\ \E b \in Reconciled :
       IF Grants(b) THEN KeepBooks(Reserved(b, c)) /\ Goto(c, "granted")
       ELSE KeepBooks(b) /\ UNCHANGED stage
  /\ UNCHANGED <<child, created, busy, events, terminal, aborted>>

\* The queue timed out: the hook throws.
Timeout(c) ==
  /\ stage[c] = "queued"
  /\ \E b \in Reconciled : ~Grants(b) /\ KeepBooks(b)
  /\ Goto(c, "over")
  /\ UNCHANGED <<child, created, busy, events, terminal, aborted>>

\* execute.after
After(c) ==
  /\ stage[c] = "ended"
  /\ Goto(c, "over")
  /\ KeepBooks(Without(Books, {c}))
  /\ UNCHANGED <<child, created, busy, events, terminal, aborted>>

-----------------------------------------------------------------------------
(* Events and the timer *)

\* The event loop: a session with its parent, session.status, session.idle, and
\* the terminal part of a call, which recordDelegationOutcome handles.
Deliver ==
  /\ events # <<>>
  /\ events' = Tail(events)
  /\ LET type == Head(events)[1]
         k == Head(events)[2]
         key == KeyOfTask(k)
     IN \/ /\ type = "created"
           /\ KeepBooks(Registered(Books, IF k \in known THEN <<>> ELSE <<k>>))
           /\ UNCHANGED <<terminal, aborted>>
        \/ /\ type = "busy"
           /\ terminal' = terminal \ {k} /\ aborted' = aborted \ {k}
           /\ KeepBooks(Books)
        \/ /\ type = "idle"
           /\ terminal' = terminal \cup {k} /\ UNCHANGED aborted
           /\ KeepBooks(Books)
        \/ /\ type = "part"
           /\ KeepBooks([Without(Books, Holders(key)) EXCEPT
                           !.keyOf[k] = key, !.lost = @ \cup (Holders(key) \cap Active)])
           /\ UNCHANGED <<terminal, aborted>>
  /\ UNCHANGED hostVars

\* A tool call of a child at work failed for good (recordFailure with fatalProvider):
\* abort takes the child off the count, and only then asks the host to interrupt it.
\* Until the host does, if it does, the child works on. A child that was resumed keeps
\* the reservation of the call that resumed it.
Abort(k) ==
  /\ k \in busy /\ k \in known \ (terminal \cup aborted)
  /\ aborted' = aborted \cup {k}
  /\ lost' = lost \cup ({k} \cap Active)
  /\ UNCHANGED <<hostVars, events, reserved, known, terminal, keyOf>>

\* Mutant of Expire: only once the call has ended.
ExpireEnded ==
  /\ reserved # <<>> /\ stage[Head(reserved).call] = "ended"
  /\ reserved' = Tail(reserved)
  /\ lost' = lost \cup ({Head(reserved).call} \cap Active)
  /\ UNCHANGED <<hostVars, events, known, terminal, aborted, keyOf>>

\* Reservations expire with the age of the queue timeout.
Expire ==
  /\ reserved # <<>>
  /\ reserved' = Tail(reserved)
  /\ lost' = lost \cup ({Head(reserved).call} \cap Active)
  /\ UNCHANGED <<hostVars, events, known, terminal, aborted, keyOf>>

-----------------------------------------------------------------------------
(* The host *)

Launch(c) ==
  /\ stage[c] = "granted"
  /\ Goto(c, "running")
  /\ created' = created \cup {child[c]}
  /\ busy' = busy \cup {child[c]}
  /\ events' = events \o (IF child[c] \in created THEN <<>> ELSE <<<<"created", child[c]>>>>)
                      \o <<<<"busy", child[c]>>>>
  /\ UNCHANGED <<child, pluginVars>>

End(c) ==
  /\ stage[c] = "running"
  /\ Goto(c, "ended")
  /\ busy' = busy \ {child[c]}
  /\ events' = events \o <<<<"idle", child[c]>>, <<"part", child[c]>>>>
  /\ lost' = lost \ {c}
  /\ UNCHANGED <<child, created, reserved, known, terminal, aborted, keyOf>>

\* The user interrupts the parent before the child exists: no execute.after.
Abandon(c) ==
  /\ stage[c] = "granted"
  /\ Goto(c, "over")
  /\ lost' = lost \ {c}
  /\ UNCHANGED <<child, created, busy, events, reserved, known, terminal, aborted, keyOf>>

Next ==
  \/ \E c \in Calls :
       \/ \E k \in Calls : Before(c, k)
       \/ Acquire(c) \/ Timeout(c) \/ After(c) \/ Launch(c) \/ End(c) \/ Abandon(c)
  \/ \E k \in Calls : Abort(k)
  \/ Deliver \/ Expire

Spec == Init /\ [][Next]_vars

\* The event loop goes on, and the timer runs.
Fairness == WF_vars(Deliver) /\ WF_vars(Expire)

FairSpec == Spec /\ Fairness

-----------------------------------------------------------------------------
(* Properties *)

\* The type of the state; a reservation belongs to a call that was let through, and
\* no call has two.
TypeOK ==
  /\ stage \in [Calls -> {"unused", "queued", "granted", "running", "ended", "over"}]
  /\ child \in [Calls -> Calls \cup {"none"}]
  /\ busy \subseteq created /\ created \subseteq Calls
  /\ events \in Seq({"created", "busy", "idle", "part"} \X created)
  /\ known \subseteq created /\ terminal \subseteq created /\ aborted \subseteq created
  /\ keyOf \in [Calls -> Keys \cup {NoKey}]
  /\ reserved \in Seq([call : Calls, key : Keys])
  /\ \A i, j \in DOMAIN reserved :
       /\ stage[reserved[i].call] \notin {"unused", "queued"}
       /\ i # j => reserved[i].call # reserved[j].call
  /\ lost \subseteq Calls

\* Bursts do not race above the limit (docs/en/RELIABILITY.md:57): however calls,
\* launches, aborts and events interleave, no more children work than there are slots
\* and calls at work that lost theirs. A call loses its slot only when its reservation
\* expires, goes to the child of another call or is released for an earlier call, or
\* when its child is aborted; each such call is one child above the limit, no more.
SlotsBounded ==
  Cardinality(busy) <= Limit + Cardinality({c \in lost : stage[c] = "running"})

\* No ghost keeps a slot: when every call is over, all slots are free again, even
\* if a child was met before its events or a call never launched.
SlotsFreed == (\A c \in Calls : stage[c] \in {"unused", "over"}) ~>
                (Used(Books) = 0 \/ \E c \in Calls : stage[c] \notin {"unused", "over"})
=============================================================================
