----------------------- MODULE ReliabilityGuardProofs -----------------------
(***************************************************************************)
(* Proofs about the slots of delegation (module ReliabilityGuard): for any *)
(* number of calls and any limit, a call under way is counted unless it    *)
(* lost its slot, so that no more children work than there are slots and   *)
(* calls at work that lost theirs; and when all calls are over and their   *)
(* events handled, all slots are free.                                     *)
(***************************************************************************)
EXTENDS ReliabilityGuard, InductionFacts

-----------------------------------------------------------------------------
(* The inductive invariant *)

\* What the host guarantees: a child is created and first run by the call of its name,
\* a call that resumes it comes after that one is over, and only a child whose call
\* runs is at work.
Host ==
  /\ \A c \in Calls : stage[c] = "unused" <=> child[c] = "none"
  /\ \A k \in created : child[k] = k /\ stage[k] \in {"running", "ended", "over"}
  /\ \A c \in Calls : stage[c] \in {"running", "ended"} => child[c] \in created
  /\ \A c \in Calls : child[c] \notin {"none", c} =>
                        child[c] \in created /\ stage[child[c]] = "over"
  /\ \A k \in busy : \E c \in Calls : child[c] = k /\ stage[c] = "running"

\* A child is told, or was met, to be idle only once the call that created it has
\* ended.
IdleEnded ==
  /\ \A i \in DOMAIN events :
       events[i][1] = "idle" => stage[events[i][2]] \in {"ended", "over"}
  /\ \A k \in terminal : stage[k] \in {"ended", "over"}

\* The calls that hold one of the reservations rs, and no call twice.
Reservation == [call : Calls, key : Keys]
Held(rs) == {rs[i].call : i \in DOMAIN rs}
Distinct(rs) == \A i, j \in DOMAIN rs : i # j => rs[i].call # rs[j].call

\* Calls are counted, each with its reservation or with the child of its name.
AllCounted(calls, rs, children) ==
  \A c \in calls : c \in Held(rs) \/ (child[c] = c /\ c \in children)

\* The calls under way that still have their slot.
Slotted == Active \ lost

\* A call that was let through resumes a child that is known; the call whose own child
\* was aborted has lost its slot; and each call that has its slot is counted.
Counted ==
  /\ \A c \in Calls : stage[c] \notin {"unused", "queued"} /\ child[c] # c =>
                        child[c] \in known
  /\ \A c \in Slotted : c \notin aborted
  /\ AllCounted(Slotted, reserved, known)
  /\ Cardinality(Slotted) <= Limit

IInv == TypeOK /\ Host /\ IdleEnded /\ Counted

-----------------------------------------------------------------------------
(* The books *)

\* What every way to change the books leaves true of them.
GoodBooks(b) ==
  /\ b.reserved \in Seq(Reservation) /\ Distinct(b.reserved)
  /\ Held(b.reserved) \subseteq Held(reserved)
  /\ known \subseteq b.known /\ b.known \subseteq created
  /\ b.keyOf \in [Calls -> Keys \cup {NoKey}]
  /\ lost \subseteq b.lost /\ b.lost \subseteq Calls
  /\ AllCounted(Active \ b.lost, b.reserved, b.known)

\* The key of a child's delegation is a key.
LEMMA KeyTyped ==
  ASSUME TypeOK, NEW k \in Calls
  PROVE  KeyOfTask(k) \in Keys
<1>1. keyOf[k] \in Keys \cup {NoKey}
  BY DEF TypeOK
<1>2. Task(k) \in Keys
  BY DEF Keys
<1>3. QED
  BY <1>1, <1>2 DEF KeyOfTask

\* Children that are met get the oldest reservations; one that goes to the child of
\* another call is lost.
LEMMA RegisteredGood ==
  ASSUME IInv, NEW ks \in Seq(created \ known)
  PROVE  GoodBooks(Registered(Books, ks)) /\ Registered(Books, ks).known = known \cup ToSet(ks)
<1> DEFINE b == Registered(Books, ks)
           n == IF Len(ks) < Len(reserved) THEN Len(ks) ELSE Len(reserved)
           takes(i, k) == i \in 1..n /\ ks[i] = k
<1>0. TypeOK /\ Counted /\ reserved \in Seq(Reservation) /\ Distinct(reserved)
  BY DEF IInv, TypeOK, Reservation, Distinct
<1>1. /\ n \in 0..Len(reserved) /\ n \in 0..Len(ks) /\ Len(reserved) \in Nat /\ Len(ks) \in Nat
      /\ \A i \in 1..n : i \in DOMAIN reserved /\ ks[i] \in created \ known
  BY <1>0
<1>2. /\ b.reserved = SubSeq(reserved, n + 1, Len(reserved))
      /\ b.known = known \cup ToSet(ks)
      /\ b.keyOf = [k \in Calls |-> IF \E i \in 1..n : takes(i, k)
                                    THEN reserved[CHOOSE i \in 1..n : takes(i, k)].key
                                    ELSE keyOf[k]]
      /\ b.lost = lost \cup {reserved[i].call :
                               i \in {j \in 1..n : child[reserved[j].call] # ks[j]}}
  BY DEF Registered, Books
<1> HIDE DEF b
<1>3. /\ b.reserved \in Seq(Reservation)
      /\ DOMAIN b.reserved = 1..(Len(reserved) - n)
      /\ \A i \in 1..(Len(reserved) - n) : b.reserved[i] = reserved[i + n]
      /\ \A i \in 1..(Len(reserved) - n) : i + n \in DOMAIN reserved
  <2>1. n + 1 \in 1..(Len(reserved) + 1) /\ Len(reserved) \in n..Len(reserved)
        /\ \A i \in (n + 1)..Len(reserved) : reserved[i] \in Reservation
    BY <1>0, <1>1
  <2>2. SubSeq(reserved, n + 1, Len(reserved)) \in Seq(Reservation)
        /\ Len(SubSeq(reserved, n + 1, Len(reserved))) = Len(reserved) - n
        /\ \A i \in 1..(Len(reserved) - n) :
             SubSeq(reserved, n + 1, Len(reserved))[i] = reserved[i + n]
    <3> HIDE DEF n
    <3>1. QED
      BY <1>0, <1>1, <2>1
  <2>3. \A i \in 1..(Len(reserved) - n) : i + n \in DOMAIN reserved
    <3> HIDE DEF n
    <3>1. QED
      BY <1>0, <1>1
  <2>4. DOMAIN SubSeq(reserved, n + 1, Len(reserved)) = 1..(Len(reserved) - n)
    <3> HIDE DEF n
    <3>1. QED
      BY <2>2
  <2>5. QED
    BY <1>2, <2>2, <2>3, <2>4
<1> HIDE DEF n
<1>4. Distinct(b.reserved) /\ Held(b.reserved) \subseteq Held(reserved)
  <2>1. ASSUME NEW i \in DOMAIN b.reserved, NEW j \in DOMAIN b.reserved, i # j
        PROVE  b.reserved[i].call # b.reserved[j].call
    <3>1. i + n # j + n /\ i + n \in DOMAIN reserved /\ j + n \in DOMAIN reserved
      BY <1>1, <1>3, <2>1
    <3>2. QED
      BY <1>0, <1>3, <2>1, <3>1 DEF Distinct
  <2>2. QED
    BY <1>3, <2>1 DEF Distinct, Held
<1>5. known \subseteq b.known /\ b.known \subseteq created
  BY <1>0, <1>2 DEF TypeOK, ToSet
<1>6. b.keyOf \in [Calls -> Keys \cup {NoKey}]
  <2>1. ASSUME NEW k \in Calls, \E i \in 1..n : takes(i, k)
        PROVE  reserved[CHOOSE i \in 1..n : takes(i, k)].key \in Keys
    <3>1. (CHOOSE i \in 1..n : takes(i, k)) \in 1..n
      BY <2>1
    <3>2. reserved[CHOOSE i \in 1..n : takes(i, k)] \in Reservation
      BY <3>1, <1>0, <1>1
    <3>3. QED
      BY <3>2 DEF Reservation
  <2>2. \A k \in Calls : keyOf[k] \in Keys \cup {NoKey}
    BY <1>0 DEF TypeOK
  <2>3. QED
    BY <1>2, <2>1, <2>2
<1>7. lost \subseteq b.lost /\ b.lost \subseteq Calls
  <2>1. ASSUME NEW i \in 1..n PROVE reserved[i].call \in Calls
    <3>1. reserved[i] \in Reservation
      BY <1>0, <1>1
    <3>2. QED
      BY <3>1 DEF Reservation
  <2>2. QED
    BY <1>0, <1>2, <2>1 DEF TypeOK
<1>8. AllCounted(Active \ b.lost, b.reserved, b.known)
  <2>2. SUFFICES ASSUME NEW c \in Active \ b.lost
                 PROVE  c \in Held(b.reserved) \/ (child[c] = c /\ c \in b.known)
    BY DEF AllCounted
  <2>1. c \in Slotted
    BY <1>7 DEF Slotted
  <2>3. CASE child[c] = c /\ c \in known
    BY <2>3, <1>5
  <2>4. CASE c \in Held(reserved)
    <3>1. PICK i \in DOMAIN reserved : reserved[i].call = c
      BY <2>4 DEF Held
    <3>2. CASE i \in 1..n
      <4>1. child[c] = ks[i] /\ ks[i] \notin known /\ ks[i] \in b.known
        <5>1. ks[i] \in ToSet(ks)
          BY <3>2, <1>1 DEF ToSet
        <5>2. ks[i] \notin known /\ ks[i] \in b.known
          BY <1>1, <1>2, <3>2, <5>1
        <5>3. child[reserved[i].call] = ks[i]
          <6>1. c \notin {reserved[j].call : j \in {m \in 1..n : child[reserved[m].call] # ks[m]}}
            BY <1>2, <2>2
          <6>2. QED
            BY <3>1, <3>2, <6>1
        <5>4. QED
          BY <3>1, <5>2, <5>3
      <4>2. child[c] = c
        BY <4>1, <1>0 DEF Counted, Active
      <4>3. QED
        BY <4>1, <4>2
    <3>3. CASE i \notin 1..n
      <4>1. i - n \in 1..(Len(reserved) - n) /\ (i - n) + n = i
        BY <1>0, <1>1, <3>1, <3>3
      <4>2. b.reserved[i - n].call = c
        BY <4>1, <1>3, <3>1
      <4>3. QED
        BY <4>1, <4>2, <1>3 DEF Held
    <3>4. QED
      BY <3>2, <3>3
  <2>5. QED
    BY <2>1, <2>3, <2>4, <1>0 DEF Counted, AllCounted
<1>9. QED
  BY <1>2, <1>3, <1>4, <1>5, <1>6, <1>7, <1>8 DEF GoodBooks, b

\* The children that are reconciled are all the host has.
LEMMA ReconciledGood ==
  ASSUME IInv, NEW b \in Reconciled
  PROVE  GoodBooks(b) /\ b.known = created
<1> DEFINE S == created \ known
<1>1. PICK ks \in SetToSeqs(S) : b = Registered(Books, ks)
  BY DEF Reconciled
<1>2. IsFiniteSet(S)
  BY CallsAssumption, FS_Subset DEF IInv, TypeOK
<1>3. Cardinality(S) \in Nat /\ ks \in [1..Cardinality(S) -> S]
      /\ \A i, j \in 1..Cardinality(S) : i # j => ks[i] # ks[j]
  BY <1>1, <1>2, FS_CardinalityType DEF SetToSeqs
<1>4. ks \in Seq(S)
  <2> HIDE DEF S
  <2>1. QED
    BY <1>3
<1>5. ToSet(ks) = S
  <2>1. ks \in Injection(1..Cardinality(S), S)
    BY <1>3 DEF Injection, IsInjective
  <2>2. Cardinality(1..Cardinality(S)) = Cardinality(S)
    BY <1>3, FS_Interval
  <2>3. ks \in Surjection(1..Cardinality(S), S)
    BY <1>2, <2>1, <2>2, FS_Injection
  <2> HIDE DEF S
  <2>4. /\ DOMAIN ks = 1..Cardinality(S) /\ \A i \in DOMAIN ks : ks[i] \in S
        /\ \A x \in S : \E i \in DOMAIN ks : ks[i] = x
    BY <1>3, <2>3 DEF Surjection
  <2>5. QED
    BY <2>4 DEF ToSet
<1>6. GoodBooks(b) /\ b.known = known \cup S
  BY <1>1, <1>4, <1>5, RegisteredGood
<1>7. QED
  BY <1>6 DEF GoodBooks

\* Reservations are released for some calls only; those of them that are under way
\* count as lost.
LEMMA WithoutGood ==
  ASSUME IInv, NEW calls \in SUBSET Calls, NEW gone \in SUBSET Calls,
         calls \cap Active \subseteq gone
  PROVE  GoodBooks([Without(Books, calls) EXCEPT !.lost = @ \cup gone])
<1> DEFINE T == [call : Calls \ calls, key : Keys]
           rs == Selected(reserved, T)
           b == [Without(Books, calls) EXCEPT !.lost = @ \cup gone]
<1>0. TypeOK /\ Counted /\ reserved \in Seq(Reservation) /\ Distinct(reserved)
  BY DEF IInv, TypeOK, Reservation, Distinct
<1>1. b.reserved = rs /\ b.known = known /\ b.keyOf = keyOf /\ b.lost = lost \cup gone
  BY DEF Without, Books
<1>2. rs \in Seq(Reservation) /\ \E pos : Picks(pos, rs, reserved, T, Len(reserved))
  BY <1>0, SelectedPicks
<1>3. PICK pos : Picks(pos, rs, reserved, T, Len(reserved))
  BY <1>2
<1> HIDE DEF rs
<1>4. /\ DOMAIN rs = 1..Len(rs) /\ DOMAIN reserved = 1..Len(reserved)
      /\ Len(rs) \in Nat /\ Len(reserved) \in Nat
  BY <1>0, <1>2
<1>5. /\ \A i \in DOMAIN rs : pos[i] \in DOMAIN reserved /\ rs[i] = reserved[pos[i]]
      /\ \A i, j \in DOMAIN rs : i < j => pos[i] < pos[j]
      /\ \A k \in DOMAIN reserved : reserved[k] \in T => \E i \in DOMAIN rs : rs[i] = reserved[k]
  <2>1. /\ pos \in [1..Len(rs) -> 1..Len(reserved)]
        /\ \A i \in 1..Len(rs) : rs[i] = reserved[pos[i]]
        /\ \A i, j \in 1..Len(rs) : i < j => pos[i] < pos[j]
        /\ \A k \in 1..Len(reserved) : reserved[k] \in T => \E i \in 1..Len(rs) : pos[i] = k
    BY <1>3 DEF Picks
  <2>2. QED
    BY <2>1, <1>4
<1>6. Distinct(rs)
  <2>1. ASSUME NEW i \in DOMAIN rs, NEW j \in DOMAIN rs, i # j PROVE pos[i] # pos[j]
    <3>1. pos[i] \in Nat /\ pos[j] \in Nat /\ (i < j \/ j < i)
      BY <1>4, <1>5, <2>1
    <3>2. QED
      BY <1>5, <3>1
  <2>2. QED
    BY <1>0, <1>5, <2>1 DEF Distinct
<1>7. Held(rs) \subseteq Held(reserved)
  BY <1>5 DEF Held
<1>8. AllCounted(Active \ b.lost, rs, known)
  <2>2. SUFFICES ASSUME NEW c \in Active \ b.lost, c \in Held(reserved) PROVE c \in Held(rs)
    BY <1>0, <1>1 DEF Counted, AllCounted, Slotted
  <2>1. c \notin calls
    BY <1>1, <2>2
  <2>3. PICK k \in DOMAIN reserved : reserved[k].call = c
    BY <2>2 DEF Held
  <2>4. reserved[k] \in T
    <3>1. reserved[k] \in Reservation /\ c \in Calls \ calls
      BY <1>0, <1>4, <2>1 DEF Active
    <3>2. QED
      BY <2>3, <3>1 DEF Reservation
  <2>5. QED
    BY <1>5, <2>3, <2>4 DEF Held
<1>9. QED
  BY <1>0, <1>1, <1>2, <1>6, <1>7, <1>8 DEF GoodBooks, TypeOK

\* The slots in use are at least the calls that are counted.
LEMMA CallsFitSlots ==
  ASSUME IInv, NEW b, GoodBooks(b)
  PROVE  LET S == Active \ b.lost
         IN Used(b) \in Nat /\ IsFiniteSet(S) /\ Cardinality(S) \in Nat
            /\ Cardinality(S) <= Used(b)
<1> DEFINE Alive == b.known \ (terminal \cup aborted)
           S == Active \ b.lost
<1>1. /\ IsFiniteSet(Alive) /\ Cardinality(Alive) \in Nat
      /\ IsFiniteSet(S) /\ Cardinality(S) \in Nat
  BY CallsAssumption, FS_Subset, FS_CardinalityType DEF IInv, TypeOK, GoodBooks, Active
<1>2. /\ IsFiniteSet(Held(b.reserved)) /\ Cardinality(Held(b.reserved)) \in Nat
      /\ Cardinality(Held(b.reserved)) <= Len(b.reserved) /\ Len(b.reserved) \in Nat
  <2> DEFINE cs == [i \in DOMAIN b.reserved |-> b.reserved[i].call]
  <2>1. b.reserved \in Seq(Reservation)
    BY DEF GoodBooks
  <2>2. cs \in Seq(Calls) /\ Len(cs) = Len(b.reserved) /\ DOMAIN cs = DOMAIN b.reserved
    <3>1. Len(b.reserved) \in Nat /\ DOMAIN b.reserved = 1..Len(b.reserved)
      BY <2>1
    <3>2. \A i \in DOMAIN b.reserved : b.reserved[i].call \in Calls
      <4>1. \A i \in DOMAIN b.reserved : b.reserved[i] \in Reservation
        BY <2>1
      <4>2. QED
        BY <4>1 DEF Reservation
    <3>3. QED
      BY <3>1, <3>2
  <2>3. Held(b.reserved) = {cs[i] : i \in DOMAIN cs}
    BY DEF Held
  <2> HIDE DEF cs
  <2>4. LET R == {cs[i] : i \in DOMAIN cs}
        IN IsFiniteSet(R) /\ Cardinality(R) \in Nat /\ Cardinality(R) <= Len(cs)
    BY <2>2, RangeBound
  <2>5. QED
    BY <2>1, <2>2, <2>3, <2>4
<1>3. S \subseteq Held(b.reserved) \cup Alive
  <2>1. ASSUME NEW c \in S PROVE c \notin terminal /\ c \notin aborted
    BY <2>1 DEF IInv, IdleEnded, Counted, Slotted, Active, GoodBooks
  <2>2. QED
    BY <2>1 DEF GoodBooks, AllCounted
<1>4. /\ IsFiniteSet(Held(b.reserved) \cup Alive)
      /\ Cardinality(Held(b.reserved) \cup Alive) <= Cardinality(Held(b.reserved)) + Cardinality(Alive)
  <2>1. /\ IsFiniteSet(Held(b.reserved) \cup Alive)
        /\ Cardinality(Held(b.reserved) \cup Alive) =
             Cardinality(Held(b.reserved)) + Cardinality(Alive) - Cardinality(Held(b.reserved) \cap Alive)
    BY <1>1, <1>2, FS_Union
  <2>2. Cardinality(Held(b.reserved) \cap Alive) \in Nat
    BY <1>2, FS_Intersection, FS_CardinalityType
  <2>3. QED
    BY <1>1, <1>2, <2>1, <2>2
<1>5. Cardinality(S) <= Cardinality(Held(b.reserved) \cup Alive)
  BY <1>3, <1>4, FS_Subset
<1>6. Cardinality(Held(b.reserved) \cup Alive) \in Nat
  BY <1>4, FS_CardinalityType
<1>7. QED
  BY <1>1, <1>2, <1>4, <1>5, <1>6 DEF Used

\* The books as they are, and without their oldest reservation.
LEMMA BooksGood ==
  ASSUME IInv
  PROVE  GoodBooks(Books)
  BY DEF IInv, TypeOK, Counted, Slotted, GoodBooks, Books, Reservation, Distinct

\* The oldest reservation runs out; its call is lost if it is under way.
LEMMA ExpiredGood ==
  ASSUME IInv, reserved # <<>>
  PROVE  GoodBooks([Books EXCEPT !.reserved = Tail(@),
                                 !.lost = @ \cup ({Head(reserved).call} \cap Active)])
<1> DEFINE b == [Books EXCEPT !.reserved = Tail(@),
                              !.lost = @ \cup ({Head(reserved).call} \cap Active)]
<1>0. TypeOK /\ Counted /\ reserved \in Seq(Reservation) /\ Distinct(reserved)
  BY DEF IInv, TypeOK, Reservation, Distinct
<1>1. /\ b.reserved = Tail(reserved) /\ b.known = known /\ b.keyOf = keyOf
      /\ b.lost = lost \cup ({reserved[1].call} \cap Active)
  BY DEF Books
<1>2. /\ b.reserved \in Seq(Reservation)
      /\ DOMAIN b.reserved = 1..(Len(reserved) - 1)
      /\ \A i \in DOMAIN b.reserved : i + 1 \in DOMAIN reserved /\ b.reserved[i] = reserved[i + 1]
      /\ DOMAIN reserved = 1..Len(reserved) /\ Len(reserved) \in Nat
  <2>1. Len(reserved) \in Nat \ {0} /\ DOMAIN reserved = 1..Len(reserved)
    BY <1>0
  <2>2. /\ Tail(reserved) \in Seq(Reservation)
        /\ Len(Tail(reserved)) = Len(reserved) - 1
        /\ \A i \in 1..(Len(reserved) - 1) : Tail(reserved)[i] = reserved[i + 1]
    BY <1>0, <2>1
  <2>3. DOMAIN Tail(reserved) = 1..(Len(reserved) - 1)
    BY <2>2
  <2>4. \A i \in 1..(Len(reserved) - 1) : i + 1 \in 1..Len(reserved)
    BY <2>1
  <2>5. QED
    BY <1>1, <2>1, <2>2, <2>3, <2>4
<1> HIDE DEF b
<1>3. Distinct(b.reserved)
  <2>1. ASSUME NEW i \in DOMAIN b.reserved, NEW j \in DOMAIN b.reserved, i # j
        PROVE  b.reserved[i].call # b.reserved[j].call
    <3>1. i + 1 # j + 1
      BY <1>2, <2>1
    <3>2. QED
      BY <1>0, <1>2, <2>1, <3>1 DEF Distinct
  <2>2. QED
    BY <2>1 DEF Distinct
<1>4. Held(b.reserved) \subseteq Held(reserved)
  BY <1>2 DEF Held
<1>5. AllCounted(Active \ b.lost, b.reserved, known)
  <2>2. SUFFICES ASSUME NEW c \in Active \ b.lost, c \in Held(reserved)
                 PROVE  c \in Held(b.reserved)
    BY <1>0, <1>1 DEF Counted, AllCounted, Slotted
  <2>1. reserved[1].call # c
    BY <1>1, <2>2
  <2>3. PICK i \in DOMAIN reserved : reserved[i].call = c
    BY <2>2 DEF Held
  <2>4. i - 1 \in DOMAIN b.reserved /\ (i - 1) + 1 = i
    BY <1>2, <2>1, <2>2, <2>3
  <2>5. QED
    BY <1>2, <2>3, <2>4 DEF Held
<1>6. b.lost \subseteq Calls
  BY <1>0, <1>1 DEF TypeOK, Active
<1>7. GoodBooks(b)
  BY <1>0, <1>1, <1>2, <1>3, <1>4, <1>5, <1>6 DEF GoodBooks, TypeOK
<1>8. QED
  BY <1>7 DEF b

-----------------------------------------------------------------------------
(* The steps *)

\* A step that changes the books well, may end calls, and hears of an idle child only
\* when its call has ended; no call whose own child is aborted has its slot after it.
LEMMA SlotsStep ==
  ASSUME IInv, NEW b, GoodBooks(b), UNCHANGED <<child, created, busy>>,
         reserved' = b.reserved, known' = b.known, keyOf' = b.keyOf,
         lost' \in SUBSET Calls, Slotted' \subseteq Active \ b.lost,
         aborted' \in SUBSET created, \A c \in Slotted' : c \notin aborted',
         stage' \in [Calls -> {"unused", "queued", "granted", "running", "ended", "over"}],
         \A c \in Calls : \/ stage'[c] = stage[c]
                          \/ stage'[c] = "over" /\ stage[c] \in {"granted", "ended"}
                          \/ stage'[c] = "over" /\ stage[c] = "queued" /\ child[c] \in b.known \cup {c},
         events' \in Seq({"created", "busy", "idle", "part"} \X created),
         \A i \in DOMAIN events' :
           events'[i][1] = "idle" => stage[events'[i][2]] \in {"ended", "over"},
         terminal' \in SUBSET created,
         \A k \in terminal' : stage[k] \in {"ended", "over"}
  PROVE  IInv'
<1>0. TypeOK /\ Host /\ IdleEnded /\ Counted
  BY DEF IInv
<1>1. TypeOK'
  <2>1. \A i \in DOMAIN b.reserved :
          stage'[b.reserved[i].call] \notin {"unused", "queued"}
    <3>1. ASSUME NEW i \in DOMAIN b.reserved
          PROVE  \E j \in DOMAIN reserved : reserved[j].call = b.reserved[i].call
      <4>1. b.reserved[i].call \in Held(reserved)
        BY DEF GoodBooks, Held
      <4>2. QED
        BY <4>1 DEF Held
    <3>2. ASSUME NEW j \in DOMAIN reserved
          PROVE  reserved[j].call \in Calls /\ stage[reserved[j].call] \notin {"unused", "queued"}
      <4>1. reserved \in Seq(Reservation)
        BY <1>0 DEF TypeOK, Reservation
      <4>2. reserved[j] \in Reservation
        BY <4>1
      <4>3. QED
        BY <1>0, <4>2 DEF TypeOK, Reservation
    <3>3. QED
      BY <3>1, <3>2
  <2>2. b.reserved \in Seq([call : Calls, key : Keys]) /\ Distinct(b.reserved)
    BY DEF GoodBooks, Reservation
  <2>3. b.known \subseteq created /\ b.keyOf \in [Calls -> Keys \cup {NoKey}]
    BY DEF GoodBooks
  <2>4. QED
    BY <1>0, <2>1, <2>2, <2>3 DEF TypeOK, Distinct
<1>2. Host'
  <2>1. \A c \in Calls : stage'[c] = "unused" <=> child'[c] = "none"
    BY <1>0 DEF Host
  <2>2. \A k \in created' : child'[k] = k /\ stage'[k] \in {"running", "ended", "over"}
    BY <1>0 DEF Host, TypeOK
  <2>3. \A c \in Calls : stage'[c] \in {"running", "ended"} => child'[c] \in created'
    BY <1>0 DEF Host
  <2>4. \A c \in Calls : child'[c] \notin {"none", c} =>
                           child'[c] \in created' /\ stage'[child'[c]] = "over"
    BY <1>0 DEF Host, TypeOK
  <2>5. \A k \in busy' : \E c \in Calls : child'[c] = k /\ stage'[c] = "running"
    BY <1>0 DEF Host
  <2>6. QED
    BY <2>1, <2>2, <2>3, <2>4, <2>5 DEF Host
<1>3. IdleEnded'
  <2>1. \A k \in created : stage[k] \in {"ended", "over"} => stage'[k] \in {"ended", "over"}
    BY <1>0 DEF TypeOK
  <2>2. \A i \in DOMAIN events' : events'[i][2] \in created
    BY DEF TypeOK
  <2>3. QED
    BY <2>1, <2>2 DEF IdleEnded
<1>4. Counted'
  <2>1. ASSUME NEW c \in Calls, stage'[c] \notin {"unused", "queued"}, child'[c] # c
        PROVE  child'[c] \in b.known
    <3>1. known \subseteq b.known
      BY DEF GoodBooks
    <3>2. QED
      BY <1>0, <2>1, <3>1 DEF Counted
  <2>2. AllCounted(Slotted, reserved, known)'
    BY DEF GoodBooks, AllCounted, Held
  <2>3. Cardinality(Slotted') <= Limit
    <3>1. Slotted' \subseteq Slotted
      BY DEF GoodBooks, Slotted
    <3>2. IsFiniteSet(Slotted) /\ Cardinality(Slotted) \in Nat /\ Cardinality(Slotted) <= Limit
      BY <1>0, CallsAssumption, FS_Subset, FS_CardinalityType DEF Counted, Slotted, Active
    <3>3. Cardinality(Slotted') \in Nat /\ Cardinality(Slotted') <= Cardinality(Slotted)
      BY <3>1, <3>2, FS_Subset, FS_CardinalityType
    <3>4. QED
      BY <3>2, <3>3, LimitAssumption
  <2>4. QED
    BY <2>1, <2>2, <2>3 DEF Counted
<1>5. QED
  BY <1>1, <1>2, <1>3, <1>4 DEF IInv

\* Such a step of the plugin, when it aborts no child.
LEMMA BooksStep ==
  ASSUME IInv, NEW b, GoodBooks(b), KeepBooks(b), UNCHANGED <<child, created, busy>>,
         stage' \in [Calls -> {"unused", "queued", "granted", "running", "ended", "over"}],
         \A c \in Calls : \/ stage'[c] = stage[c]
                          \/ stage'[c] = "over" /\ stage[c] \in {"granted", "ended"}
                          \/ stage'[c] = "over" /\ stage[c] = "queued" /\ child[c] \in b.known \cup {c},
         events' \in Seq({"created", "busy", "idle", "part"} \X created),
         \A i \in DOMAIN events' :
           events'[i][1] = "idle" => stage[events'[i][2]] \in {"ended", "over"},
         terminal' \in SUBSET created,
         \A k \in terminal' : stage[k] \in {"ended", "over"},
         aborted' \in SUBSET aborted
  PROVE  IInv'
<1>1. /\ reserved' = b.reserved /\ known' = b.known /\ keyOf' = b.keyOf /\ lost' = b.lost
      /\ lost' \in SUBSET Calls
  BY DEF KeepBooks, GoodBooks
<1>2. Slotted' \subseteq Active \ b.lost
  BY <1>1 DEF Slotted, Active
<1>3. aborted' \in SUBSET created
  BY DEF IInv, TypeOK
<1>4. \A c \in Slotted' : c \notin aborted'
  BY <1>2 DEF IInv, Counted, GoodBooks, Slotted
<1>5. QED
  BY <1>1, <1>2, <1>3, <1>4, SlotsStep

\* execute.before: the child is new, or nothing is at work for it.
LEMMA BeforeStep ==
  ASSUME IInv, NEW c \in Calls, NEW k \in Calls, Before(c, k)
  PROVE  IInv'
<1>0. TypeOK /\ Host /\ IdleEnded /\ Counted
  BY DEF IInv
<1>1. /\ stage[c] = "unused" /\ child[c] = "none" /\ c \notin created /\ k # "none"
      /\ stage' = [stage EXCEPT ![c] = "queued"] /\ child' = [child EXCEPT ![c] = k]
      /\ stage' \in [Calls -> {"unused", "queued", "granted", "running", "ended", "over"}]
      /\ child' \in [Calls -> Calls \cup {"none"}]
      /\ UNCHANGED <<created, busy, events, reserved, known, terminal, aborted, lost>>
  BY <1>0, CallsAssumption DEF Before, Goto, Host, TypeOK
<1>2. \A x \in Calls : x # c => stage'[x] = stage[x] /\ child'[x] = child[x]
  BY <1>0, <1>1 DEF TypeOK
<1>3. stage'[c] = "queued" /\ child'[c] = k
  BY <1>0, <1>1 DEF TypeOK
<1>4. k = c \/ (k \in created /\ child[k] = k /\ stage[k] = "over" /\ k # c)
  BY <1>0, <1>1 DEF Before, Host
<1>5. TypeOK'
  <2>1. \A i \in DOMAIN reserved : reserved[i].call # c
    BY <1>0, <1>1 DEF TypeOK
  <2>2. \A i \in DOMAIN reserved : reserved[i].call \in Calls
    <3>1. reserved \in Seq(Reservation)
      BY <1>0 DEF TypeOK, Reservation
    <3>2. \A i \in DOMAIN reserved : reserved[i] \in Reservation
      BY <3>1
    <3>3. QED
      BY <3>2 DEF Reservation
  <2>3. \A i \in DOMAIN reserved : stage'[reserved[i].call] \notin {"unused", "queued"}
    BY <1>0, <1>2, <2>1, <2>2 DEF TypeOK
  <2>4. keyOf' \in [Calls -> Keys \cup {NoKey}]
    BY <1>0, KeyTyped DEF Before, TypeOK
  <2>5. \A i, j \in DOMAIN reserved' :
          /\ stage'[reserved'[i].call] \notin {"unused", "queued"}
          /\ i # j => reserved'[i].call # reserved'[j].call
    BY <1>0, <1>1, <2>3 DEF TypeOK
  <2>6. /\ busy' \subseteq created' /\ created' \subseteq Calls
        /\ events' \in Seq({"created", "busy", "idle", "part"} \X created')
        /\ known' \subseteq created' /\ terminal' \subseteq created' /\ aborted' \subseteq created'
        /\ reserved' \in Seq([call : Calls, key : Keys]) /\ lost' \subseteq Calls
    BY <1>0, <1>1 DEF TypeOK
  <2>7. QED
    BY <1>1, <2>4, <2>5, <2>6 DEF TypeOK
<1>6. Host'
  <2>1. \A x \in Calls : stage'[x] = "unused" <=> child'[x] = "none"
    BY <1>0, <1>1, <1>2, <1>3 DEF Host
  <2>2. \A x \in created : child'[x] = x /\ stage'[x] \in {"running", "ended", "over"}
    BY <1>0, <1>1, <1>2 DEF Host, TypeOK
  <2>3. \A x \in Calls : stage'[x] \in {"running", "ended"} => child'[x] \in created
    BY <1>0, <1>2, <1>3 DEF Host
  <2>4. \A x \in Calls : child'[x] \notin {"none", x} =>
                           child'[x] \in created /\ stage'[child'[x]] = "over"
    <3>1. \A y \in created : y \in Calls /\ y # c
      BY <1>0, <1>1 DEF TypeOK
    <3>2. QED
      BY <1>0, <1>2, <1>3, <1>4, <3>1 DEF Host
  <2>5. \A x \in busy : \E d \in Calls : child'[d] = x /\ stage'[d] = "running"
    BY <1>0, <1>1, <1>2 DEF Host
  <2>6. QED
    BY <1>1, <2>1, <2>2, <2>3, <2>4, <2>5 DEF Host
<1>7. IdleEnded'
  <2>1. \A x \in Calls : stage[x] \in {"ended", "over"} => stage'[x] \in {"ended", "over"}
    BY <1>1, <1>2
  <2>2. \A i \in DOMAIN events : events[i][2] \in Calls
    BY <1>0 DEF TypeOK
  <2>3. QED
    BY <1>0, <1>1, <2>1, <2>2 DEF IdleEnded, TypeOK
<1>8. Counted'
  <2>1. Slotted' = Slotted
    BY <1>1, <1>2, <1>3 DEF Slotted, Active
  <2>2. AllCounted(Slotted, reserved, known)'
    BY <1>0, <1>1, <1>2, <2>1 DEF Counted, AllCounted, Slotted, Active, Held
  <2>3. \A x \in Calls : stage'[x] \notin {"unused", "queued"} /\ child'[x] # x =>
                           child'[x] \in known
    BY <1>0, <1>2, <1>3 DEF Counted
  <2>4. QED
    BY <1>0, <1>1, <2>1, <2>2, <2>3 DEF Counted
<1>9. QED
  BY <1>5, <1>6, <1>7, <1>8 DEF IInv

\* acquireSlot with a slot left: the call is counted before it is let through.
LEMMA GrantStep ==
  ASSUME IInv, NEW c \in Calls, stage[c] = "queued", NEW b \in Reconciled, Grants(b),
         KeepBooks(Reserved(b, c)), Goto(c, "granted"),
         UNCHANGED <<child, created, busy, events, terminal, aborted>>
  PROVE  IInv'
<1>0. TypeOK /\ Host /\ IdleEnded /\ Counted /\ GoodBooks(b) /\ b.known = created
  BY ReconciledGood DEF IInv
<1> DEFINE r == [call |-> c, key |-> Key(c)]
<1>1. /\ stage' = [stage EXCEPT ![c] = "granted"]
      /\ stage' \in [Calls -> {"unused", "queued", "granted", "running", "ended", "over"}]
      /\ stage'[c] = "granted" /\ c \notin created
      /\ \A x \in Calls : x # c => stage'[x] = stage[x]
  BY <1>0 DEF Goto, TypeOK, Host
<1>2. child[c] \in Calls /\ (child[c] # c => child[c] \in created)
  BY <1>0 DEF TypeOK, Host
<1>3. r \in Reservation
  <2>1. Fresh(c) \in Keys
    BY DEF Keys
  <2>2. Key(c) \in Keys
    BY <1>0, <1>2, <2>1, KeyTyped DEF Key
  <2>3. QED
    BY <2>2 DEF Reservation
<1>4. /\ reserved' = Append(b.reserved, r) /\ known' = created /\ keyOf' = b.keyOf
      /\ lost' = b.lost
  BY <1>0 DEF KeepBooks, Reserved
<1>5. /\ b.reserved \in Seq(Reservation) /\ Len(b.reserved) \in Nat
      /\ DOMAIN b.reserved = 1..Len(b.reserved)
  BY <1>0 DEF GoodBooks
<1>6. /\ reserved' \in Seq(Reservation) /\ DOMAIN reserved' = 1..(Len(b.reserved) + 1)
      /\ \A i \in DOMAIN b.reserved : reserved'[i] = b.reserved[i]
      /\ reserved'[Len(b.reserved) + 1] = r
  <2> HIDE DEF r
  <2>1. QED
    BY <1>3, <1>4, <1>5
<1>7. \A i \in DOMAIN b.reserved :
        /\ b.reserved[i].call \in Calls /\ b.reserved[i].call # c
        /\ stage[b.reserved[i].call] \notin {"unused", "queued"}
  <2>1. SUFFICES ASSUME NEW i \in DOMAIN b.reserved
                 PROVE  /\ b.reserved[i].call \in Calls
                        /\ stage[b.reserved[i].call] \notin {"unused", "queued"}
    OBVIOUS
  <2>2. b.reserved[i].call \in Held(reserved)
    BY <1>0 DEF GoodBooks, Held
  <2>3. PICK j \in DOMAIN reserved : reserved[j].call = b.reserved[i].call
    BY <2>2 DEF Held
  <2>4. b.reserved[i] \in Reservation
    BY <1>5
  <2>5. QED
    BY <1>0, <2>3, <2>4 DEF TypeOK, Reservation
<1>8. Held(reserved') = Held(b.reserved) \cup {c}
  <2>1. DOMAIN reserved' = DOMAIN b.reserved \cup {Len(b.reserved) + 1}
    BY <1>5, <1>6
  <2>2. \A i \in DOMAIN b.reserved : reserved'[i].call = b.reserved[i].call
    BY <1>6
  <2>3. reserved'[Len(b.reserved) + 1].call = c
    BY <1>6
  <2>4. QED
    BY <2>1, <2>2, <2>3 DEF Held
<1>9. TypeOK'
  <2>1. \A i \in DOMAIN reserved' : stage'[reserved'[i].call] \notin {"unused", "queued"}
    BY <1>1, <1>5, <1>6, <1>7
  <2>2. \A i, j \in DOMAIN reserved' : i # j => reserved'[i].call # reserved'[j].call
    <3>1. ASSUME NEW i \in DOMAIN reserved', NEW j \in DOMAIN reserved', i # j
          PROVE  reserved'[i].call # reserved'[j].call
      <4>1. DOMAIN reserved' = DOMAIN b.reserved \cup {Len(b.reserved) + 1}
        BY <1>5, <1>6
      <4>2. Distinct(b.reserved)
        BY <1>0 DEF GoodBooks
      <4>3. CASE i \in DOMAIN b.reserved /\ j \in DOMAIN b.reserved
        BY <1>6, <3>1, <4>2, <4>3 DEF Distinct
      <4>4. /\ \A x \in DOMAIN b.reserved : reserved'[x].call # c
            /\ reserved'[Len(b.reserved) + 1].call = c
        BY <1>6, <1>7
      <4>5. CASE i = Len(b.reserved) + 1
        <5>1. j \in DOMAIN b.reserved
          BY <3>1, <4>1, <4>5
        <5>2. QED
          BY <4>4, <4>5, <5>1
      <4>6. CASE j = Len(b.reserved) + 1
        <5>1. i \in DOMAIN b.reserved
          BY <3>1, <4>1, <4>6
        <5>2. QED
          BY <4>4, <4>6, <5>1
      <4>7. QED
        BY <4>1, <4>3, <4>5, <4>6
    <3>2. QED
      BY <3>1
  <2>3. /\ known' \subseteq created /\ keyOf' \in [Calls -> Keys \cup {NoKey}]
        /\ lost' \subseteq Calls /\ reserved' \in Seq([call : Calls, key : Keys])
    BY <1>0, <1>4, <1>6 DEF GoodBooks, Reservation
  <2>4. /\ child' \in [Calls -> Calls \cup {"none"}]
        /\ busy' \subseteq created' /\ created' \subseteq Calls
        /\ events' \in Seq({"created", "busy", "idle", "part"} \X created')
        /\ terminal' \subseteq created' /\ aborted' \subseteq created'
    BY <1>0 DEF TypeOK
  <2>5. QED
    BY <1>1, <2>1, <2>2, <2>3, <2>4 DEF TypeOK
<1>10. Host'
  <2>1. \A x \in created : x \in Calls /\ x # c
    BY <1>0, <1>1 DEF TypeOK
  <2>2. QED
    BY <1>0, <1>1, <2>1 DEF Host
<1>11. IdleEnded'
  <2>1. \A i \in DOMAIN events : events[i][2] \in Calls
    BY <1>0 DEF TypeOK
  <2>2. QED
    BY <1>0, <1>1, <2>1 DEF IdleEnded, TypeOK
<1>12. Counted'
  <2> DEFINE S == Active \ b.lost
  <2>1. Slotted' \subseteq S \cup {c} /\ c \notin S
    BY <1>0, <1>1, <1>4 DEF Slotted, Active, TypeOK
  <2>2. AllCounted(Slotted, reserved, known)'
    BY <1>0, <1>4, <1>8, <2>1 DEF GoodBooks, AllCounted
  <2>3. Cardinality(Slotted') <= Limit
    <3>1. Used(b) \in Nat /\ IsFiniteSet(S) /\ Cardinality(S) \in Nat
          /\ Cardinality(S) <= Used(b)
      BY <1>0, CallsFitSlots
    <3>2. IsFiniteSet(S \cup {c}) /\ Cardinality(S \cup {c}) = Cardinality(S) + 1
      BY <2>1, <3>1, FS_AddElement
    <3>3. IsFiniteSet(Slotted') /\ Cardinality(Slotted') <= Cardinality(S \cup {c})
      BY <2>1, <3>2, FS_Subset
    <3>4. Cardinality(Slotted') \in Nat
      BY <3>3, FS_CardinalityType
    <3>5. QED
      BY <3>1, <3>2, <3>3, <3>4, LimitAssumption DEF Grants
  <2>4. \A x \in Calls : stage'[x] \notin {"unused", "queued"} /\ child'[x] # x =>
                           child'[x] \in known'
    BY <1>0, <1>1, <1>2, <1>4 DEF Counted, TypeOK
  <2>5. \A x \in Slotted' : x \notin aborted'
    <3>1. c \notin aborted
      BY <1>0, <1>1 DEF TypeOK
    <3>2. S \subseteq Slotted
      BY <1>0 DEF GoodBooks, Slotted
    <3>3. QED
      BY <1>0, <2>1, <3>1, <3>2 DEF Counted
  <2>6. QED
    BY <2>2, <2>3, <2>4, <2>5 DEF Counted
<1>13. QED
  BY <1>9, <1>10, <1>11, <1>12 DEF IInv

\* The host launches a call: its child is created, unless it is resumed, and works.
LEMMA LaunchStep ==
  ASSUME IInv, NEW c \in Calls, Launch(c)
  PROVE  IInv'
<1>0. TypeOK /\ Host /\ IdleEnded /\ Counted
  BY DEF IInv
<1>1. /\ stage[c] = "granted" /\ stage' = [stage EXCEPT ![c] = "running"]
      /\ created' = created \cup {child[c]} /\ busy' = busy \cup {child[c]}
      /\ UNCHANGED <<child, reserved, known, terminal, aborted, keyOf, lost>>
  BY DEF Launch, Goto, pluginVars
<1>2. /\ stage' \in [Calls -> {"unused", "queued", "granted", "running", "ended", "over"}]
      /\ stage'[c] = "running" /\ c \notin created
      /\ \A x \in Calls : x # c => stage'[x] = stage[x]
  BY <1>0, <1>1 DEF TypeOK, Host
<1>3. child[c] \in Calls /\ (child[c] = c \/ (child[c] \in created /\ stage[child[c]] = "over"))
  BY <1>0, <1>1 DEF TypeOK, Host
<1>4. \A x \in created : x \in Calls /\ x # c
  BY <1>0, <1>2 DEF TypeOK
<1> DEFINE E == {"created", "busy", "idle", "part"} \X created'
           first == IF child[c] \in created THEN <<>> ELSE <<<<"created", child[c]>>>>
           last == <<<<"busy", child[c]>>>>
<1>5. events' \in Seq(E) /\ \A i \in DOMAIN events' :
                              \/ i \in DOMAIN events /\ events'[i] = events[i]
                              \/ events'[i][1] \in {"created", "busy"}
  <2>1. <<"created", child[c]>> \in E /\ <<"busy", child[c]>> \in E
    BY <1>1
  <2>2. first \in Seq(E) /\ \A i \in DOMAIN first : first[i][1] = "created"
    BY <2>1
  <2>3. last \in Seq(E) /\ \A i \in DOMAIN last : last[i][1] = "busy"
    BY <2>1
  <2>4. events \in Seq(E)
    <3>1. events \in Seq({"created", "busy", "idle", "part"} \X created)
      BY <1>0 DEF TypeOK
    <3>2. \A i \in 1..Len(events) : events[i] \in E
      BY <3>1, <1>1
    <3>3. QED
      BY <3>1, <3>2
  <2>5. events' = events \o first \o last
    BY DEF Launch
  <2> HIDE DEF first, last, E
  <2>6. /\ events \o first \in Seq(E)
        /\ \A i \in DOMAIN (events \o first) :
             \/ i \in DOMAIN events /\ (events \o first)[i] = events[i]
             \/ \E j \in DOMAIN first : (events \o first)[i] = first[j]
    BY <2>2, <2>4
  <2> DEFINE most == events \o first
  <2> HIDE DEF most
  <2>7. /\ most \in Seq(E) /\ most \o last \in Seq(E)
        /\ \A i \in DOMAIN (most \o last) :
             \/ i \in DOMAIN most /\ (most \o last)[i] = most[i]
             \/ \E j \in DOMAIN last : (most \o last)[i] = last[j]
    <3>1. most \in Seq(E)
      BY <2>6 DEF most
    <3>2. QED
      BY <3>1, <2>3
  <2>8. events' = most \o last
    BY <2>5 DEF most
  <2>9. \A i \in DOMAIN most : \/ i \in DOMAIN events /\ most[i] = events[i]
                               \/ most[i][1] = "created"
    BY <2>2, <2>6 DEF most
  <2>10. QED
    BY <2>3, <2>7, <2>8, <2>9
<1>6. TypeOK'
  <2>1. \A i, j \in DOMAIN reserved' :
          /\ stage'[reserved'[i].call] \notin {"unused", "queued"}
          /\ i # j => reserved'[i].call # reserved'[j].call
    <3>1. reserved \in Seq(Reservation)
      BY <1>0 DEF TypeOK, Reservation
    <3>2. \A i \in DOMAIN reserved : reserved[i] \in Reservation
      BY <3>1
    <3>3. QED
      BY <1>0, <1>1, <1>2, <3>2 DEF TypeOK, Reservation
  <2>2. /\ child' \in [Calls -> Calls \cup {"none"}] /\ lost' \subseteq Calls
        /\ busy' \subseteq created' /\ created' \subseteq Calls
        /\ known' \subseteq created' /\ terminal' \subseteq created' /\ aborted' \subseteq created'
        /\ reserved' \in Seq([call : Calls, key : Keys])
        /\ keyOf' \in [Calls -> Keys \cup {NoKey}]
    BY <1>0, <1>1, <1>3 DEF TypeOK
  <2>3. QED
    BY <1>2, <1>5, <2>1, <2>2 DEF TypeOK
<1>7. Host'
  <2>1. \A x \in Calls : stage'[x] = "unused" <=> child'[x] = "none"
    BY <1>0, <1>1, <1>2 DEF Host
  <2>2. \A x \in created' : child'[x] = x /\ stage'[x] \in {"running", "ended", "over"}
    BY <1>0, <1>1, <1>2, <1>3, <1>4 DEF Host
  <2>3. \A x \in Calls : stage'[x] \in {"running", "ended"} => child'[x] \in created'
    BY <1>0, <1>1, <1>2 DEF Host
  <2>4. \A x \in Calls : child'[x] \notin {"none", x} =>
                           child'[x] \in created' /\ stage'[child'[x]] = "over"
    BY <1>0, <1>1, <1>2, <1>4 DEF Host
  <2>5. \A x \in busy' : \E d \in Calls : child'[d] = x /\ stage'[d] = "running"
    BY <1>0, <1>1, <1>2 DEF Host
  <2>6. QED
    BY <2>1, <2>2, <2>3, <2>4, <2>5 DEF Host
<1>8. IdleEnded'
  <2>1. \A i \in DOMAIN events : events[i][2] \in created
    BY <1>0 DEF TypeOK
  <2>2. \A i \in DOMAIN events' :
          events'[i][1] = "idle" => stage'[events'[i][2]] \in {"ended", "over"}
    BY <1>0, <1>2, <1>4, <1>5, <2>1 DEF IdleEnded
  <2>3. \A x \in terminal' : stage'[x] \in {"ended", "over"}
    BY <1>0, <1>1, <1>2, <1>4 DEF IdleEnded, TypeOK
  <2>4. QED
    BY <2>2, <2>3 DEF IdleEnded
<1>9. Counted'
  <2>1. Slotted' = Slotted
    BY <1>1, <1>2 DEF Slotted, Active
  <2>2. AllCounted(Slotted, reserved, known)'
    BY <1>0, <1>1, <2>1 DEF Counted, AllCounted, Held
  <2>3. \A x \in Calls : stage'[x] \notin {"unused", "queued"} /\ child'[x] # x =>
                           child'[x] \in known
    BY <1>0, <1>1, <1>2 DEF Counted
  <2>4. QED
    BY <1>0, <1>1, <2>1, <2>2, <2>3 DEF Counted
<1>10. QED
  BY <1>6, <1>7, <1>8, <1>9 DEF IInv

\* A call ends, and its child with it.
LEMMA EndStep ==
  ASSUME IInv, NEW c \in Calls, End(c)
  PROVE  IInv'
<1>0. TypeOK /\ Host /\ IdleEnded /\ Counted
  BY DEF IInv
<1>1. /\ stage[c] = "running" /\ stage' = [stage EXCEPT ![c] = "ended"]
      /\ busy' = busy \ {child[c]}
      /\ events' = events \o <<<<"idle", child[c]>>, <<"part", child[c]>>>>
      /\ lost' = lost \ {c}
      /\ UNCHANGED <<child, created, reserved, known, terminal, aborted, keyOf>>
  BY DEF End, Goto
<1>2. /\ stage' \in [Calls -> {"unused", "queued", "granted", "running", "ended", "over"}]
      /\ stage'[c] = "ended"
      /\ \A x \in Calls : x # c => stage'[x] = stage[x]
  BY <1>0, <1>1 DEF TypeOK
<1>3. child[c] \in created /\ stage'[child[c]] \in {"ended", "over"}
  BY <1>0, <1>1, <1>2 DEF TypeOK, Host
<1> DEFINE E == {"created", "busy", "idle", "part"} \X created
<1>4. events' \in Seq(E) /\ \A i \in DOMAIN events' :
                              \/ i \in DOMAIN events /\ events'[i] = events[i]
                              \/ events'[i][2] = child[c]
  <2> DEFINE new == <<<<"idle", child[c]>>, <<"part", child[c]>>>>
  <2>1. new \in Seq(E) /\ \A i \in DOMAIN new : new[i][2] = child[c]
    BY <1>3
  <2>2. events \in Seq(E)
    BY <1>0 DEF TypeOK
  <2>3. events' = events \o new
    BY <1>1
  <2> HIDE DEF new, E
  <2>4. \A i \in DOMAIN (events \o new) :
          \/ i \in DOMAIN events /\ (events \o new)[i] = events[i]
          \/ \E j \in DOMAIN new : (events \o new)[i] = new[j]
    BY <2>1, <2>2
  <2>5. QED
    BY <2>1, <2>2, <2>3, <2>4
<1>5. TypeOK'
  <2>1. \A i, j \in DOMAIN reserved' :
          /\ stage'[reserved'[i].call] \notin {"unused", "queued"}
          /\ i # j => reserved'[i].call # reserved'[j].call
    <3>1. reserved \in Seq(Reservation)
      BY <1>0 DEF TypeOK, Reservation
    <3>2. \A i \in DOMAIN reserved : reserved[i] \in Reservation
      BY <3>1
    <3>3. QED
      BY <1>0, <1>1, <1>2, <3>2 DEF TypeOK, Reservation
  <2>2. /\ child' \in [Calls -> Calls \cup {"none"}] /\ lost' \subseteq Calls
        /\ busy' \subseteq created' /\ created' \subseteq Calls
        /\ known' \subseteq created' /\ terminal' \subseteq created' /\ aborted' \subseteq created'
        /\ reserved' \in Seq([call : Calls, key : Keys])
        /\ keyOf' \in [Calls -> Keys \cup {NoKey}]
    BY <1>0, <1>1 DEF TypeOK
  <2>3. QED
    BY <1>1, <1>2, <1>4, <2>1, <2>2 DEF TypeOK
<1>6. Host'
  <2>1. \A x \in created : x \in Calls
    BY <1>0 DEF TypeOK
  <2>2. \A x \in busy' : \E d \in Calls : child'[d] = x /\ stage'[d] = "running"
    BY <1>0, <1>1, <1>2 DEF Host
  <2>3. QED
    BY <1>0, <1>1, <1>2, <2>1, <2>2 DEF Host
<1>7. IdleEnded'
  <2>1. \A i \in DOMAIN events : events[i][2] \in Calls
    BY <1>0 DEF TypeOK
  <2>2. \A i \in DOMAIN events' :
          events'[i][1] = "idle" => stage'[events'[i][2]] \in {"ended", "over"}
    BY <1>0, <1>2, <1>3, <1>4, <2>1 DEF IdleEnded
  <2>3. \A x \in terminal' : stage'[x] \in {"ended", "over"}
    BY <1>0, <1>1, <1>2 DEF IdleEnded, TypeOK
  <2>4. QED
    BY <2>2, <2>3 DEF IdleEnded
<1>8. Counted'
  <2>1. Slotted' \subseteq Slotted
    BY <1>1, <1>2 DEF Slotted, Active
  <2>2. AllCounted(Slotted, reserved, known)'
    BY <1>0, <1>1, <2>1 DEF Counted, AllCounted, Held
  <2>3. \A x \in Calls : stage'[x] \notin {"unused", "queued"} /\ child'[x] # x =>
                           child'[x] \in known
    BY <1>0, <1>1, <1>2 DEF Counted
  <2>4. Cardinality(Slotted') <= Limit
    <3>1. IsFiniteSet(Slotted) /\ Cardinality(Slotted) \in Nat
      BY CallsAssumption, FS_Subset, FS_CardinalityType DEF Slotted, Active
    <3>2. Cardinality(Slotted') \in Nat /\ Cardinality(Slotted') <= Cardinality(Slotted)
      BY <2>1, <3>1, FS_Subset, FS_CardinalityType
    <3>3. QED
      BY <1>0, <3>1, <3>2, LimitAssumption DEF Counted
  <2>5. QED
    BY <1>0, <1>1, <2>1, <2>2, <2>3, <2>4 DEF Counted
<1>9. QED
  BY <1>5, <1>6, <1>7, <1>8 DEF IInv

\* An event is handled.
LEMMA DeliverStep ==
  ASSUME IInv, Deliver
  PROVE  IInv'
<1>0. TypeOK /\ Host /\ IdleEnded /\ Counted
  BY DEF IInv
<1> DEFINE E == {"created", "busy", "idle", "part"} \X created
           type == Head(events)[1]
           k == Head(events)[2]
           key == KeyOfTask(k)
<1>1. events \in Seq(E) /\ events # <<>>
  BY <1>0 DEF TypeOK, Deliver
<1>2. Head(events) \in E /\ Head(events) = events[1] /\ 1 \in DOMAIN events
  <2> HIDE DEF E
  <2>1. QED
    BY <1>1
<1>3. k \in created /\ k \in Calls
  BY <1>0, <1>2 DEF TypeOK
<1>4. /\ UNCHANGED <<child, created, busy>>
      /\ stage' = stage /\ stage \in [Calls -> {"unused", "queued", "granted", "running", "ended", "over"}]
      /\ events' = Tail(events)
  BY <1>0 DEF Deliver, hostVars, TypeOK
<1>5. events' \in Seq(E) /\ \A i \in DOMAIN events' : i + 1 \in DOMAIN events /\ events'[i] = events[i + 1]
  <2> HIDE DEF E
  <2>1. Len(events) \in Nat \ {0} /\ DOMAIN events = 1..Len(events)
    BY <1>1
  <2>2. /\ Tail(events) \in Seq(E) /\ Len(Tail(events)) = Len(events) - 1
        /\ \A i \in 1..(Len(events) - 1) : Tail(events)[i] = events[i + 1]
    BY <1>1, <2>1
  <2>3. DOMAIN Tail(events) = 1..(Len(events) - 1)
    BY <2>2
  <2>4. \A i \in 1..(Len(events) - 1) : i + 1 \in 1..Len(events)
    BY <2>1
  <2>5. QED
    BY <1>4, <2>1, <2>2, <2>3, <2>4
<1>6. \A i \in DOMAIN events' :
        events'[i][1] = "idle" => stage[events'[i][2]] \in {"ended", "over"}
  BY <1>0, <1>5 DEF IdleEnded
<1>7. terminal \subseteq created /\ \A x \in terminal : stage[x] \in {"ended", "over"}
  BY <1>0 DEF TypeOK, IdleEnded
<1>8. ASSUME NEW b, GoodBooks(b), KeepBooks(b), terminal' \in SUBSET created,
             \A x \in terminal' : stage[x] \in {"ended", "over"},
             aborted' \in SUBSET aborted
      PROVE  IInv'
  <2> HIDE DEF E
  <2>1. events' \in Seq({"created", "busy", "idle", "part"} \X created)
    BY <1>5 DEF E
  <2>2. QED
    BY <1>4, <1>6, <1>8, <2>1, BooksStep
<1>9. CASE /\ type = "created" /\ UNCHANGED <<terminal, aborted>>
           /\ KeepBooks(Registered(Books, IF k \in known THEN <<>> ELSE <<k>>))
  <2>1. (IF k \in known THEN <<>> ELSE <<k>>) \in Seq(created \ known)
    <3> HIDE DEF k
    <3>1. k \notin known => <<k>> \in Seq(created \ known)
      BY <1>3
    <3>2. <<>> \in Seq(created \ known)
      OBVIOUS
    <3>3. CASE k \in known
      BY <3>2, <3>3
    <3>4. CASE k \notin known
      BY <3>1, <3>4
    <3>5. QED
      BY <3>3, <3>4
  <2>2. GoodBooks(Registered(Books, IF k \in known THEN <<>> ELSE <<k>>))
    BY <2>1, RegisteredGood
  <2>3. QED
    BY <1>7, <1>8, <1>9, <2>2
<1>10. CASE /\ type = "busy" /\ terminal' = terminal \ {k} /\ aborted' = aborted \ {k}
            /\ KeepBooks(Books)
  BY <1>7, <1>8, <1>10, BooksGood
<1>11. CASE /\ type = "idle" /\ terminal' = terminal \cup {k} /\ UNCHANGED aborted
            /\ KeepBooks(Books)
  <2>1. stage[k] \in {"ended", "over"}
    BY <1>0, <1>2, <1>11 DEF IdleEnded
  <2>2. QED
    BY <1>3, <1>7, <1>8, <1>11, <2>1, BooksGood
<1>12. CASE /\ type = "part" /\ UNCHANGED <<terminal, aborted>>
            /\ KeepBooks([Without(Books, Holders(key)) EXCEPT
                            !.keyOf[k] = key, !.lost = @ \cup (Holders(key) \cap Active)])
  <2> DEFINE a == [Without(Books, Holders(key)) EXCEPT !.lost = @ \cup (Holders(key) \cap Active)]
             b == [Without(Books, Holders(key)) EXCEPT
                     !.keyOf[k] = key, !.lost = @ \cup (Holders(key) \cap Active)]
  <2>1. GoodBooks(a)
    BY WithoutGood DEF Holders, Active
  <2>2. /\ b.reserved = a.reserved /\ b.known = a.known /\ b.lost = a.lost
        /\ b.keyOf = [a.keyOf EXCEPT ![k] = key]
    BY DEF Without, Books
  <2>3. key \in Keys
    BY <1>0, <1>3, KeyTyped
  <2> HIDE DEF a, b, key
  <2>4. GoodBooks(b)
    BY <2>1, <2>2, <2>3 DEF GoodBooks
  <2>5. QED
    BY <1>7, <1>8, <1>12, <2>4 DEF b, key
<1>13. QED
  BY <1>9, <1>10, <1>11, <1>12 DEF Deliver

-----------------------------------------------------------------------------
(* The theorems *)

\* At first nothing is reserved and no call is under way.
LEMMA InitInv == Init => IInv
<1> SUFFICES ASSUME Init PROVE IInv
  OBVIOUS
<1>1. TypeOK
  BY DEF Init, TypeOK
<1>2. Host /\ IdleEnded
  BY CallsAssumption DEF Init, Host, IdleEnded
<1>3. Counted
  <2>1. Slotted = {}
    BY DEF Init, Slotted, Active
  <2>2. QED
    BY <2>1, FS_EmptySet, LimitAssumption DEF Init, Counted, AllCounted
<1>4. QED
  BY <1>1, <1>2, <1>3 DEF IInv

\* Each step of the hooks, of the event loop, of the timer and of the host keeps the
\* invariant.
LEMMA StepInv == IInv /\ [Next]_vars => IInv'
<1> SUFFICES ASSUME IInv, [Next]_vars PROVE IInv'
  OBVIOUS
<1>0. TypeOK /\ Host /\ IdleEnded
  BY DEF IInv
<1>1. /\ stage \in [Calls -> {"unused", "queued", "granted", "running", "ended", "over"}]
      /\ events \in Seq({"created", "busy", "idle", "part"} \X created)
      /\ \A i \in DOMAIN events :
           events[i][1] = "idle" => stage[events[i][2]] \in {"ended", "over"}
      /\ terminal \in SUBSET created /\ \A k \in terminal : stage[k] \in {"ended", "over"}
  BY <1>0 DEF TypeOK, IdleEnded
<1>2. ASSUME NEW c \in Calls, Goto(c, "over"), stage[c] \in {"queued", "granted", "ended"}
      PROVE  /\ stage' \in [Calls -> {"unused", "queued", "granted", "running", "ended", "over"}]
             /\ stage'[c] = "over" /\ \A x \in Calls : x # c => stage'[x] = stage[x]
  BY <1>1, <1>2 DEF Goto
<1>3. ASSUME NEW c \in Calls, NEW k \in Calls, Before(c, k) PROVE IInv'
  BY <1>3, BeforeStep
<1>4. ASSUME NEW c \in Calls, Acquire(c) PROVE IInv'
  <2>1. PICK b \in Reconciled : IF Grants(b) THEN KeepBooks(Reserved(b, c)) /\ Goto(c, "granted")
                                ELSE KeepBooks(b) /\ UNCHANGED stage
    BY <1>4 DEF Acquire
  <2>2. stage[c] = "queued" /\ UNCHANGED <<child, created, busy, events, terminal, aborted>>
    BY <1>4 DEF Acquire
  <2>3. CASE Grants(b)
    BY <2>1, <2>2, <2>3, GrantStep
  <2>4. CASE ~Grants(b)
    BY <1>1, <2>1, <2>2, <2>4, ReconciledGood, BooksStep
  <2>5. QED
    BY <2>3, <2>4
<1>5. ASSUME NEW c \in Calls, Timeout(c) PROVE IInv'
  <2>1. PICK b \in Reconciled : KeepBooks(b)
    BY <1>5 DEF Timeout
  <2>2. stage[c] = "queued" /\ Goto(c, "over") /\ UNCHANGED <<child, created, busy, events, terminal, aborted>>
    BY <1>5 DEF Timeout
  <2>3. GoodBooks(b) /\ b.known = created
    BY ReconciledGood
  <2>4. child[c] \in b.known \cup {c}
    BY <1>0, <2>2, <2>3 DEF Host
  <2>5. QED
    BY <1>1, <1>2, <2>1, <2>2, <2>3, <2>4, BooksStep
<1>6. ASSUME NEW c \in Calls, After(c) PROVE IInv'
  <2>1. stage[c] = "ended" /\ Goto(c, "over") /\ KeepBooks(Without(Books, {c}))
        /\ UNCHANGED <<child, created, busy, events, terminal, aborted>>
    BY <1>6 DEF After
  <2> DEFINE b == [Without(Books, {c}) EXCEPT !.lost = @ \cup {}]
  <2>2. GoodBooks(b)
    BY <2>1, WithoutGood DEF Active
  <2>3. KeepBooks(b)
    BY <2>1 DEF KeepBooks, Without, Books
  <2> HIDE DEF b
  <2>4. QED
    BY <1>1, <1>2, <2>1, <2>2, <2>3, BooksStep
<1>7. ASSUME NEW c \in Calls, Launch(c) PROVE IInv'
  BY <1>7, LaunchStep
<1>8. ASSUME NEW c \in Calls, End(c) PROVE IInv'
  BY <1>8, EndStep
<1>9. ASSUME NEW c \in Calls, Abandon(c) PROVE IInv'
  <2>1. /\ stage[c] = "granted" /\ Goto(c, "over") /\ lost' = lost \ {c}
        /\ UNCHANGED <<child, created, busy, events, reserved, known, terminal, aborted, keyOf>>
    BY <1>9 DEF Abandon
  <2>2. Slotted' \subseteq Slotted
    BY <1>2, <2>1 DEF Slotted, Active
  <2>3. /\ lost' \in SUBSET Calls /\ aborted' \in SUBSET created
        /\ \A x \in Slotted' : x \notin aborted'
    BY <1>0, <2>1, <2>2 DEF TypeOK, IInv, Counted
  <2>4. /\ reserved' = Books.reserved /\ known' = Books.known /\ keyOf' = Books.keyOf
        /\ Books.lost = lost
    BY <2>1 DEF Books
  <2>5. Slotted' \subseteq Active \ Books.lost
    BY <2>2, <2>4 DEF Slotted
  <2> DEFINE b == Books
  <2>6. GoodBooks(b)
    BY BooksGood
  <2> HIDE DEF b
  <2>7. QED
    BY <1>1, <1>2, <2>1, <2>3, <2>4, <2>5, <2>6, SlotsStep DEF b
<1>10. CASE Deliver
  BY <1>10, DeliverStep
<1>11. CASE Expire
  <2> DEFINE b == [Books EXCEPT !.reserved = Tail(@),
                                !.lost = @ \cup ({Head(reserved).call} \cap Active)]
  <2>1. reserved # <<>> /\ UNCHANGED <<stage, child, created, busy, events, terminal, aborted>>
    BY <1>11 DEF Expire, hostVars
  <2>2. KeepBooks(b)
    BY <1>11 DEF Expire, KeepBooks, Books
  <2>3. GoodBooks(b)
    BY <2>1, ExpiredGood
  <2> HIDE DEF b
  <2>4. QED
    BY <1>1, <2>1, <2>2, <2>3, BooksStep
<1>12. ASSUME NEW k \in Calls, Abort(k) PROVE IInv'
  <2>1. /\ k \in created /\ aborted' = aborted \cup {k}
        /\ lost' = lost \cup ({k} \cap Active)
        /\ UNCHANGED <<stage, child, created, busy, events, reserved, known, terminal, keyOf>>
    BY <1>0, <1>12 DEF Abort, hostVars, TypeOK
  <2>2. Active' = Active /\ Slotted' \subseteq Slotted /\ k \notin Slotted'
    BY <2>1 DEF Slotted, Active
  <2>3. /\ lost' \in SUBSET Calls /\ aborted' \in SUBSET created
        /\ \A x \in Slotted' : x \notin aborted'
    BY <1>0, <2>1, <2>2 DEF TypeOK, IInv, Counted
  <2>4. /\ reserved' = Books.reserved /\ known' = Books.known /\ keyOf' = Books.keyOf
        /\ Books.lost = lost
    BY <2>1 DEF Books
  <2>5. Slotted' \subseteq Active \ Books.lost
    BY <2>2, <2>4 DEF Slotted
  <2> DEFINE b == Books
  <2>6. GoodBooks(b)
    BY BooksGood
  <2> HIDE DEF b
  <2>7. QED
    BY <1>1, <1>2, <2>1, <2>3, <2>4, <2>5, <2>6, SlotsStep DEF b
<1>13. CASE UNCHANGED vars
  <2>1. /\ UNCHANGED <<stage, child, created, busy, events, terminal, aborted>>
        /\ KeepBooks(Books)
    BY <1>13 DEF vars, hostVars, pluginVars, KeepBooks, Books
  <2>2. QED
    BY <1>1, <2>1, BooksGood, BooksStep
<1>14. QED
  BY <1>3, <1>4, <1>5, <1>6, <1>7, <1>8, <1>9, <1>10, <1>11, <1>12, <1>13 DEF Next

\* The inductive invariant holds in every reachable state.
LEMMA SpecInv == Spec => []IInv
<1>1. QED
  BY InitInv, StepInv, PTL DEF Spec

\* The state of the host and of the plugin is always well formed: reservations belong
\* to calls that were let through, and no call has two.
THEOREM GuardTypeCorrect == Spec => []TypeOK
<1>1. IInv => TypeOK
  BY DEF IInv
<1>2. QED
  BY <1>1, SpecInv, PTL

\* The limit of parallel subagents (acquireSlot): in every interleaving of calls,
\* launches, aborts, events and expiries, no more children work than there are slots
\* and calls at work that lost theirs.
THEOREM LimitKept == Spec => []SlotsBounded
<1>1. IInv => SlotsBounded
  <2> DEFINE Gone == {c \in lost : stage[c] = "running"}
             Slots == Slotted \cup Gone
             of == [c \in Slots |-> child[c]]
             R == {of[c] : c \in Slots}
  <2> SUFFICES ASSUME IInv PROVE Cardinality(busy) <= Limit + Cardinality(Gone)
    BY DEF SlotsBounded
  <2>1. /\ IsFiniteSet(Slotted) /\ Cardinality(Slotted) \in Nat /\ Cardinality(Slotted) <= Limit
        /\ IsFiniteSet(Gone) /\ Cardinality(Gone) \in Nat
    BY CallsAssumption, FS_Subset, FS_CardinalityType DEF IInv, TypeOK, Counted, Slotted, Active
  <2>2. busy \subseteq R
    <3>1. ASSUME NEW c \in Calls, stage[c] = "running" PROVE c \in Slots
      BY <3>1 DEF Slotted, Active
    <3>2. QED
      BY <3>1 DEF IInv, Host
  <2>3. of \in [Slots -> Calls \cup {"none"}]
    BY DEF IInv, TypeOK, Slotted, Active
  <2>4. /\ IsFiniteSet(Slots) /\ Cardinality(Slots) \in Nat
        /\ Cardinality(Slots) <= Cardinality(Slotted) + Cardinality(Gone)
    <3> HIDE DEF Gone
    <3>1. /\ IsFiniteSet(Slotted \cup Gone)
          /\ Cardinality(Slotted \cup Gone) =
               Cardinality(Slotted) + Cardinality(Gone) - Cardinality(Slotted \cap Gone)
      BY <2>1, FS_Union
    <3>2. Cardinality(Slotted \cap Gone) \in Nat /\ Cardinality(Slotted \cup Gone) \in Nat
      BY <2>1, <3>1, FS_Intersection, FS_CardinalityType
    <3>3. QED
      BY <2>1, <3>1, <3>2
  <2> HIDE DEF Gone, Slots
  <2>5. IsFiniteSet(R) /\ Cardinality(R) \in Nat /\ Cardinality(R) <= Cardinality(Slots)
    BY <2>3, <2>4, ImageBound
  <2>6. Cardinality(busy) \in Nat /\ Cardinality(busy) <= Cardinality(R)
    BY <2>2, <2>5, FS_Subset, FS_CardinalityType
  <2>7. QED
    BY <2>1, <2>4, <2>5, <2>6, LimitAssumption
<1>2. QED
  BY <1>1, SpecInv, PTL

-----------------------------------------------------------------------------
(* Slots are free again when nothing is left to do *)

\* The events that change what the plugin takes for the status of a child.
Speaks(e, k) == e \in {<<"busy", k>>, <<"idle", k>>}

LastWord(es, k, i) == Speaks(es[i], k) /\ \A j \in DOMAIN es : Speaks(es[j], k) => j <= i

\* The last event about a child, or its status if there is none, says whether it works.
Tells(es, k, ended, working) ==
  /\ (\A i \in DOMAIN es : ~Speaks(es[i], k)) => (k \in ended <=> k \notin working)
  /\ \A i \in DOMAIN es : LastWord(es, k, i) => (es[i] = <<"busy", k>> <=> k \in working)

EventsTell == \A k \in created : Tells(events, k, terminal, busy)

\* An event that says nothing of the child's status changes nothing.
LEMMA OtherWord ==
  ASSUME NEW T, NEW es \in Seq(T), NEW e \in T, NEW k, NEW ended, NEW working,
         Tells(es, k, ended, working), ~Speaks(e, k)
  PROVE  Tells(Append(es, e), k, ended, working)
<1> DEFINE fs == Append(es, e)
<1>1. /\ Len(es) \in Nat /\ DOMAIN es = 1..Len(es) /\ DOMAIN fs = 1..(Len(es) + 1)
      /\ fs[Len(es) + 1] = e /\ \A i \in 1..Len(es) : fs[i] = es[i]
  OBVIOUS
<1> HIDE DEF fs
<1>2. \A i \in DOMAIN fs : Speaks(fs[i], k) => i \in DOMAIN es
  BY <1>1
<1>3. DOMAIN es \subseteq DOMAIN fs /\ \A i \in DOMAIN es : fs[i] = es[i]
  BY <1>1
<1>4. \A i \in DOMAIN fs : LastWord(fs, k, i) => i \in DOMAIN es /\ LastWord(es, k, i)
  BY <1>2, <1>3 DEF LastWord
<1>5. (\A i \in DOMAIN fs : ~Speaks(fs[i], k)) => \A i \in DOMAIN es : ~Speaks(es[i], k)
  BY <1>3
<1>6. QED
  BY <1>3, <1>4, <1>5 DEF Tells, fs

\* What is said last counts.
LEMMA NewWord ==
  ASSUME NEW T, NEW es \in Seq(T), NEW e \in T, NEW k, NEW ended, NEW working,
         Speaks(e, k), e = <<"busy", k>> <=> k \in working
  PROVE  Tells(Append(es, e), k, ended, working)
<1> DEFINE fs == Append(es, e)
<1>1. /\ Len(es) \in Nat /\ DOMAIN fs = 1..(Len(es) + 1) /\ fs[Len(es) + 1] = e
  OBVIOUS
<1> HIDE DEF fs
<1>2. \A i \in DOMAIN fs : LastWord(fs, k, i) => i = Len(es) + 1
  BY <1>1 DEF LastWord
<1>3. Len(es) + 1 \in DOMAIN fs /\ Speaks(fs[Len(es) + 1], k)
  BY <1>1
<1>4. \A i \in DOMAIN fs : LastWord(fs, k, i) => (fs[i] = <<"busy", k>> <=> k \in working)
  BY <1>1, <1>2
<1>5. QED
  BY <1>3, <1>4 DEF Tells, fs

\* An event that is handled becomes the status.
LEMMA WordHeard ==
  ASSUME NEW T, NEW es \in Seq(T), es # <<>>, NEW k, NEW ended, NEW working, NEW after,
         Tells(es, k, ended, working),
         Speaks(Head(es), k) => (k \in after <=> Head(es) = <<"idle", k>>),
         ~Speaks(Head(es), k) => (k \in after <=> k \in ended)
  PROVE  Tells(Tail(es), k, after, working)
<1> DEFINE fs == Tail(es)
<1>1. /\ Len(es) \in Nat \ {0} /\ DOMAIN es = 1..Len(es) /\ Head(es) = es[1]
      /\ DOMAIN fs = 1..(Len(es) - 1) /\ \A i \in 1..(Len(es) - 1) : fs[i] = es[i + 1]
  OBVIOUS
<1> HIDE DEF fs
<1>2. \A j \in DOMAIN es : j = 1 \/ (j - 1 \in DOMAIN fs /\ fs[j - 1] = es[j])
  BY <1>1
<1>3. \A i \in DOMAIN fs : i + 1 \in DOMAIN es /\ i + 1 # 1 /\ fs[i] = es[i + 1]
  BY <1>1
<1>4. ASSUME NEW i \in DOMAIN fs, LastWord(fs, k, i) PROVE LastWord(es, k, i + 1)
  <2>1. ASSUME NEW j \in DOMAIN es, Speaks(es[j], k) PROVE j <= i + 1
    <3>1. CASE j = 1
      BY <1>1, <1>4, <3>1
    <3>2. CASE j # 1
      <4>1. j - 1 \in DOMAIN fs /\ Speaks(fs[j - 1], k)
        BY <1>2, <2>1, <3>2
      <4>2. j - 1 <= i
        BY <1>4, <4>1 DEF LastWord
      <4>3. QED
        BY <1>1, <1>4, <2>1, <4>2
    <3>3. QED
      BY <3>1, <3>2
  <2>2. QED
    BY <1>3, <1>4, <2>1 DEF LastWord
<1>5. \A i \in DOMAIN fs : LastWord(fs, k, i) => (fs[i] = <<"busy", k>> <=> k \in working)
  BY <1>3, <1>4 DEF Tells
<1>6. ASSUME \A i \in DOMAIN fs : ~Speaks(fs[i], k) PROVE k \in after <=> k \notin working
  <2>1. \A j \in DOMAIN es : Speaks(es[j], k) => j = 1
    BY <1>2, <1>6
  <2>2. CASE Speaks(es[1], k)
    <3>1. LastWord(es, k, 1) /\ 1 \in DOMAIN es
      BY <1>1, <2>1, <2>2 DEF LastWord
    <3>2. es[1] = <<"busy", k>> <=> k \in working
      BY <3>1 DEF Tells
    <3>3. es[1] = <<"busy", k>> <=> es[1] # <<"idle", k>>
      BY <2>2 DEF Speaks
    <3>4. QED
      BY <1>1, <2>2, <3>2, <3>3
  <2>3. CASE ~Speaks(es[1], k)
    <3>1. \A j \in DOMAIN es : ~Speaks(es[j], k)
      BY <2>1, <2>3
    <3>2. QED
      BY <1>1, <2>3, <3>1 DEF Tells
  <2>4. QED
    BY <2>2, <2>3
<1>7. QED
  BY <1>5, <1>6 DEF Tells, fs

\* No child is known to be at work, or to rest, but by what the host did, in its order.
LEMMA EventsTellStep ==
  ASSUME IInv, EventsTell, [Next]_vars
  PROVE  EventsTell'
<1>0. TypeOK /\ Host /\ created \subseteq Calls /\ busy \subseteq created
  BY DEF IInv, TypeOK
<1> DEFINE E == {"created", "busy", "idle", "part"} \X created
<1>1. events \in Seq(E)
  BY <1>0 DEF TypeOK
<1>2. ASSUME UNCHANGED <<created, busy, events, terminal>> PROVE EventsTell'
  BY <1>2 DEF EventsTell
<1>3. ASSUME NEW c \in Calls,
             (\E k \in Calls : Before(c, k)) \/ Acquire(c) \/ Timeout(c) \/ After(c) \/ Abandon(c)
      PROVE  EventsTell'
  BY <1>2, <1>3 DEF Before, Acquire, Timeout, After, Abandon, pluginVars
<1>4. CASE Expire \/ UNCHANGED vars
  BY <1>2, <1>4 DEF Expire, vars, hostVars, pluginVars
<1>5. ASSUME NEW c \in Calls, Launch(c) PROVE EventsTell'
  <2> DEFINE k == child[c]
             T == {"created", "busy", "idle", "part"} \X Calls
             first == IF k \in created THEN events ELSE Append(events, <<"created", k>>)
  <2>1. stage[c] = "granted" /\ k \in Calls
    BY <1>0, <1>5 DEF Launch, TypeOK, Host
  <2>2. created' = created \cup {k} /\ busy' = busy \cup {k} /\ terminal' = terminal
    BY <1>5 DEF Launch, pluginVars
  <2>3. events \in Seq(T)
    BY <1>0, <1>1
  <2> HIDE DEF k
  <2>4. <<"created", k>> \in T /\ <<"busy", k>> \in T
    BY <2>1
  <2>5. first \in Seq(T)
    <3> HIDE DEF T
    <3>1. QED
      BY <2>3, <2>4
  <2>6. events' = Append(first, <<"busy", k>>)
    <3>1. events' = events \o (IF k \in created THEN <<>> ELSE <<<<"created", k>>>>)
                           \o <<<<"busy", k>>>>
      BY <1>5 DEF Launch, k
    <3>2. events \o <<>> = events /\ events \o <<<<"created", k>>>> = Append(events, <<"created", k>>)
      BY <2>3
    <3>3. first \o <<<<"busy", k>>>> = Append(first, <<"busy", k>>)
      <4> HIDE DEF first, T
      <4>1. QED
        BY <2>5
    <3>4. CASE k \in created
      BY <3>1, <3>2, <3>3, <3>4
    <3>5. CASE k \notin created
      BY <3>1, <3>2, <3>3, <3>5
    <3>6. QED
      BY <3>4, <3>5
  <2>7. ASSUME NEW x \in created' PROVE Tells(events', x, terminal', busy')
    <3>1. CASE x = k
      <4>1. Speaks(<<"busy", k>>, x) /\ (<<"busy", k>> = <<"busy", x>> <=> x \in busy')
        BY <2>2, <3>1 DEF Speaks
      <4> HIDE DEF first, T
      <4>2. QED
        BY <2>4, <2>5, <2>6, <4>1, NewWord
    <3>2. CASE x # k
      <4>1. x \in created /\ (x \in busy' <=> x \in busy)
        BY <2>2, <2>7, <3>2
      <4>2. Tells(events, x, terminal', busy')
        BY <2>2, <4>1 DEF EventsTell, Tells
      <4>3. ~Speaks(<<"created", k>>, x) /\ ~Speaks(<<"busy", k>>, x)
        BY <3>2 DEF Speaks
      <4>4. Tells(first, x, terminal', busy')
        <5>1. Tells(Append(events, <<"created", k>>), x, terminal', busy')
          <6> HIDE DEF T
          <6>1. QED
            BY <2>3, <2>4, <4>2, <4>3, OtherWord
        <5>2. QED
          BY <4>2, <5>1
      <4> HIDE DEF first, T
      <4>5. QED
        BY <2>4, <2>5, <2>6, <4>3, <4>4, OtherWord
    <3>3. QED
      BY <3>1, <3>2
  <2>8. QED
    BY <2>7 DEF EventsTell
<1>6. ASSUME NEW c \in Calls, End(c) PROVE EventsTell'
  <2> DEFINE k == child[c]
             first == Append(events, <<"idle", k>>)
  <2>1. k \in created /\ created' = created /\ busy' = busy \ {k} /\ terminal' = terminal
    BY <1>0, <1>6 DEF End, Host
  <2>2. events' = events \o <<<<"idle", k>>, <<"part", k>>>>
    BY <1>6 DEF End
  <2> HIDE DEF k
  <2>3. <<"idle", k>> \in E /\ <<"part", k>> \in E
    BY <2>1
  <2> HIDE DEF E
  <2>4. first \in Seq(E) /\ events' = Append(first, <<"part", k>>)
    <3>1. ASSUME NEW a \in E, NEW b \in E
          PROVE  /\ Append(events, a) \in Seq(E)
                 /\ events \o <<a, b>> = Append(Append(events, a), b)
      <4>1. events \o <<a, b>> = Append(Append(events, a), b)
        BY <1>1, <3>1
      <4>2. QED
        BY <1>1, <3>1, <4>1
    <3>2. QED
      BY <2>2, <2>3, <3>1
  <2> HIDE DEF first
  <2>5. ASSUME NEW x \in created' PROVE Tells(events', x, terminal', busy')
    <3>1. ~Speaks(<<"part", k>>, x)
      BY DEF Speaks
    <3>2. Tells(first, x, terminal', busy')
      <4>1. CASE x = k
        <5>1. Speaks(<<"idle", k>>, x) /\ (<<"idle", k>> = <<"busy", x>> <=> x \in busy')
          BY <2>1, <4>1 DEF Speaks
        <5>2. QED
          BY <1>1, <2>3, <5>1, NewWord DEF first
      <4>2. CASE x # k
        <5>1. x \in created /\ (x \in busy' <=> x \in busy)
          BY <2>1, <2>5, <4>2
        <5>2. Tells(events, x, terminal', busy')
          BY <2>1, <5>1 DEF EventsTell, Tells
        <5>3. ~Speaks(<<"idle", k>>, x)
          BY <4>2 DEF Speaks
        <5>4. QED
          BY <1>1, <2>3, <5>2, <5>3, OtherWord DEF first
      <4>3. QED
        BY <4>1, <4>2
    <3>3. QED
      BY <2>3, <2>4, <3>1, <3>2, OtherWord
  <2>6. QED
    BY <2>5 DEF EventsTell
<1>7. CASE Deliver
  <2> DEFINE e == Head(events)
  <2>1. /\ events # <<>> /\ events' = Tail(events)
        /\ UNCHANGED <<created, busy>>
    BY <1>7 DEF Deliver, hostVars
  <2>2. e \in E
    <3> HIDE DEF E
    <3>1. QED
      BY <1>1, <2>1
  <2>3. e = <<e[1], e[2]>>
    BY <2>2
  <2>4. \/ e[1] \in {"created", "part"} /\ terminal' = terminal
        \/ e[1] = "busy" /\ terminal' = terminal \ {e[2]}
        \/ e[1] = "idle" /\ terminal' = terminal \cup {e[2]}
    BY <1>7 DEF Deliver
  <2> HIDE DEF e, E
  <2>5. ASSUME NEW x \in created' PROVE Tells(events', x, terminal', busy')
    <3>1. Tells(events, x, terminal, busy)
      BY <2>1, <2>5 DEF EventsTell
    <3>2. Speaks(e, x) => (x \in terminal' <=> e = <<"idle", x>>)
      BY <2>3, <2>4 DEF Speaks
    <3>3. ~Speaks(e, x) => (x \in terminal' <=> x \in terminal)
      BY <2>3, <2>4 DEF Speaks
    <3>4. Tells(Tail(events), x, terminal', busy)
      BY <1>1, <2>1, <3>1, <3>2, <3>3, WordHeard DEF e
    <3>5. QED
      BY <2>1, <3>4
  <2>6. QED
    BY <2>5 DEF EventsTell
<1>8. ASSUME NEW k \in Calls, Abort(k) PROVE EventsTell'
  BY <1>2, <1>8 DEF Abort, hostVars
<1>9. QED
  BY <1>3, <1>4, <1>5, <1>6, <1>7, <1>8 DEF Next

\* Every call is over or has not begun.
AllOver == \A c \in Calls : stage[c] \in {"unused", "over"}

\* Nothing is left for the event loop and the timer.
Quiet == events = <<>> /\ reserved = <<>>

\* No slot is kept by a ghost: with all calls over, once the events of the host are
\* handled and the reservations expired, no slot is in use, whatever was met early,
\* released twice or lost on the way (usedSlots, sessionIdle).
THEOREM QuietIsFree == Spec => [](AllOver /\ Quiet => Used(Books) = 0)
<1>1. Init => EventsTell
  BY DEF Init, EventsTell
<1>2. IInv /\ EventsTell /\ [Next]_vars => EventsTell'
  BY EventsTellStep
<1>3. IInv /\ EventsTell => (AllOver /\ Quiet => Used(Books) = 0)
  <2> SUFFICES ASSUME IInv, EventsTell, AllOver, Quiet PROVE Used(Books) = 0
    OBVIOUS
  <2>1. busy = {}
    BY DEF IInv, Host, AllOver
  <2>2. ASSUME NEW k \in created PROVE k \in terminal
    <3>1. Tells(events, k, terminal, busy) /\ DOMAIN events = {}
      BY DEF EventsTell, Quiet
    <3>2. QED
      BY <2>1, <3>1 DEF Tells
  <2>3. known \ (terminal \cup aborted) = {}
    BY <2>2 DEF IInv, TypeOK
  <2>4. Used(Books) = Cardinality({}) + Len(<<>>)
    BY <2>3 DEF Used, Books, Quiet
  <2>5. QED
    BY <2>4, FS_EmptySet
<1>4. QED
  BY <1>1, <1>2, <1>3, SpecInv, PTL DEF Spec

\* The way there is finite: with all calls over, a step starts a call, handles an event
\* or lets a reservation expire, and none adds to what is left.
THEOREM SlotsDrain ==
  Spec => [][AllOver => \/ ~AllOver'
                        \/ Len(events') < Len(events)
                        \/ events' = events /\ Len(reserved') < Len(reserved)]_vars
<1> DEFINE Nearer == \/ ~AllOver'
                     \/ Len(events') < Len(events)
                     \/ events' = events /\ Len(reserved') < Len(reserved)
<1>1. ASSUME IInv, AllOver, Next PROVE Nearer
  <2>1. /\ stage \in [Calls -> {"unused", "queued", "granted", "running", "ended", "over"}]
        /\ \E T : events \in Seq(T)
        /\ \E T : reserved \in Seq(T)
    BY <1>1 DEF IInv, TypeOK
  <2>2. ASSUME NEW c \in Calls, NEW k \in Calls, Before(c, k) PROVE ~AllOver'
    BY <2>1, <2>2 DEF Before, Goto, AllOver
  <2>3. ASSUME NEW c \in Calls,
               Acquire(c) \/ Timeout(c) \/ After(c) \/ Launch(c) \/ End(c) \/ Abandon(c)
        PROVE  FALSE
    BY <1>1, <2>3 DEF Acquire, Timeout, After, Launch, End, Abandon, AllOver
  <2>4. CASE Deliver
    <3>1. events # <<>> /\ events' = Tail(events)
      BY <2>4 DEF Deliver
    <3>2. QED
      BY <2>1, <3>1
  <2>5. CASE Expire
    <3>1. reserved # <<>> /\ reserved' = Tail(reserved) /\ events' = events
      BY <2>5 DEF Expire
    <3>2. QED
      BY <2>1, <3>1
  <2>6. ASSUME NEW k \in Calls, Abort(k) PROVE FALSE
    <3>1. PICK c \in Calls : stage[c] = "running"
      BY <1>1, <2>6 DEF Abort, IInv, Host
    <3>2. QED
      BY <1>1, <3>1 DEF AllOver
  <2>7. QED
    BY <1>1, <2>2, <2>3, <2>4, <2>5, <2>6 DEF Next
<1> HIDE DEF Nearer
<1>2. IInv /\ [Next]_vars => [AllOver => Nearer]_vars
  BY <1>1
<1>3. QED
  BY <1>2, SpecInv, PTL DEF Spec, Nearer

=============================================================================
