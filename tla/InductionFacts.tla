---------------------------- MODULE InductionFacts ----------------------------
(***************************************************************************)
(* Facts by induction that the proofs about the components share: the      *)
(* least element of a set of numbers, induction for a set of numbers, and  *)
(* what Selected returns.                                                  *)
(*                                                                         *)
(* The library's induction theorems take an operator for the induction     *)
(* hypothesis; the ones here take a set, { n \in Nat : hypothesis }.       *)
(***************************************************************************)
EXTENDS Selection, Integers, FiniteSetTheorems, TLAPS

LessThan == {ss \in Nat \X Nat : ss[1] < ss[2]}

\* There is no infinite descent of natural numbers.
LEMMA LessThanWellFounded == IsWellFoundedOn(LessThan, Nat)
  BY NatLessThanWellFounded DEF LessThan, OpToRel

\* A set of natural numbers that is not empty has a least element.
LEMMA LeastElement ==
  ASSUME NEW T \in SUBSET Nat, T # {}
  PROVE  \E x \in T : \A y \in T : x <= y
<1>1. PICK x \in T : \A y \in T : ~(<<y, x>> \in LessThan)
  BY LessThanWellFounded, WFMin
<1>2. ASSUME NEW y \in T, y < x PROVE FALSE
  <2>1. <<y, x>> \in Nat \X Nat /\ <<y, x>>[1] = y /\ <<y, x>>[2] = x
    OBVIOUS
  <2>2. <<y, x>> \in LessThan
    BY <2>1, <1>2 DEF LessThan
  <2>3. QED
    BY <1>1, <2>2
<1>3. QED
  BY <1>2

\* A set with 0 and with the successor of each of its numbers has all of them.
LEMMA SetInduction ==
  ASSUME NEW T, 0 \in T, \A n \in Nat : n \in T => n + 1 \in T
  PROVE  Nat \subseteq T
<1>1. SUFFICES ASSUME Nat \ T # {} PROVE FALSE
  OBVIOUS
<1>2. PICK x \in Nat \ T : \A y \in Nat \ T : x <= y
  BY <1>1, LeastElement
<1>3. x # 0 /\ x - 1 \in Nat /\ x - 1 \in T
  BY <1>2
<1>4. QED
  BY <1>2, <1>3

-----------------------------------------------------------------------------
(* Selection *)

\* The prefixes of a selection, as Selected computes them.
Kept(kept, s, T, n) ==
  kept = [k \in 0..n |->
            IF k = 0 THEN <<>>
            ELSE IF s[k] \in T THEN Append(kept[k - 1], s[k]) ELSE kept[k - 1]]

\* Where the elements of t come from: the positions of s in T, in order.
Picks(pos, t, s, T, n) ==
  /\ pos \in [1..Len(t) -> 1..n]
  /\ \A i \in 1..Len(t) : t[i] = s[pos[i]] /\ s[pos[i]] \in T
  /\ \A i, j \in 1..Len(t) : i < j => pos[i] < pos[j]
  /\ \A k \in 1..n : s[k] \in T => \E i \in 1..Len(t) : pos[i] = k

\* The recursion is well defined.
LEMMA KeptExists ==
  ASSUME NEW s, NEW T
  PROVE  \A n \in Nat : \E kept : Kept(kept, s, T, n)
<1> DEFINE P == {n \in Nat : \E kept : Kept(kept, s, T, n)}
<1>1. 0 \in P
  <2>1. Kept([k \in 0..0 |-> <<>>], s, T, 0)
    BY DEF Kept
  <2>2. QED
    BY <2>1
<1>2. ASSUME NEW n \in Nat, n \in P PROVE n + 1 \in P
  <2>1. PICK kept : Kept(kept, s, T, n)
    BY <1>2
  <2> DEFINE last == IF s[n + 1] \in T THEN Append(kept[n], s[n + 1]) ELSE kept[n]
             more == [k \in 0..(n + 1) |-> IF k = n + 1 THEN last ELSE kept[k]]
  <2>2. Kept(more, s, T, n + 1)
    <3>1. \A k \in 0..n :
            kept[k] = IF k = 0 THEN <<>>
                      ELSE IF s[k] \in T THEN Append(kept[k - 1], s[k]) ELSE kept[k - 1]
      BY <2>1 DEF Kept
    <3>2. QED
      BY <3>1 DEF Kept
  <2>3. QED
    BY <2>2
<1> HIDE DEF P
<1>3. Nat \subseteq P
  BY <1>1, <1>2, SetInduction
<1>4. QED
  BY <1>3 DEF P

\* Each prefix picks its elements.
LEMMA KeptPicks ==
  ASSUME NEW S, NEW s \in Seq(S), NEW T, NEW m \in 0..Len(s), NEW kept, Kept(kept, s, T, m)
  PROVE  \A n \in 0..m : kept[n] \in Seq(S) /\ \E pos : Picks(pos, kept[n], s, T, n)
<1>0. \A k \in 0..m :
        kept[k] = IF k = 0 THEN <<>>
                  ELSE IF s[k] \in T THEN Append(kept[k - 1], s[k]) ELSE kept[k - 1]
  BY DEF Kept
<1>9. m \in Nat /\ m <= Len(s) /\ 0 \in 0..m
  OBVIOUS
<1> DEFINE P == {n \in Nat : n <= m => /\ kept[n] \in Seq(S)
                                       /\ \E pos : Picks(pos, kept[n], s, T, n)}
<1>1. 0 \in P
  <2>1. kept[0] = <<>>
    BY <1>0, <1>9
  <2>2. Picks(<<>>, <<>>, s, T, 0)
    BY DEF Picks
  <2>3. kept[0] \in Seq(S) /\ \E pos : Picks(pos, kept[0], s, T, 0)
    BY <2>1, <2>2
  <2>4. QED
    BY <2>3
<1>2. ASSUME NEW n \in Nat, n \in P PROVE n + 1 \in P
  <2>1. SUFFICES ASSUME n + 1 <= m
                 PROVE  kept[n + 1] \in Seq(S) /\ \E pos : Picks(pos, kept[n + 1], s, T, n + 1)
    OBVIOUS
  <2>2. kept[n] \in Seq(S) /\ n + 1 \in 0..m /\ s[n + 1] \in S
    BY <1>2, <2>1
  <2>3. PICK pos : Picks(pos, kept[n], s, T, n)
    BY <1>2, <2>1
  <2>4. CASE s[n + 1] \in T
    <3> DEFINE t == Append(kept[n], s[n + 1])
               more == [i \in 1..(Len(kept[n]) + 1) |->
                          IF i = Len(kept[n]) + 1 THEN n + 1 ELSE pos[i]]
    <3>1. kept[n + 1] = t
      <4>1. n + 1 # 0 /\ (n + 1) - 1 = n
        OBVIOUS
      <4>2. kept[n + 1] = IF s[n + 1] \in T THEN Append(kept[(n + 1) - 1], s[n + 1])
                          ELSE kept[(n + 1) - 1]
        BY <1>0, <2>2, <4>1
      <4>3. QED
        BY <4>1, <4>2, <2>4
    <3>2. /\ t \in Seq(S) /\ Len(t) = Len(kept[n]) + 1 /\ Len(kept[n]) \in Nat
          /\ \A i \in 1..Len(kept[n]) : t[i] = kept[n][i]
          /\ t[Len(t)] = s[n + 1]
      BY <2>2
    <3>3. /\ pos \in [1..Len(kept[n]) -> 1..n]
          /\ \A i \in 1..Len(kept[n]) : kept[n][i] = s[pos[i]] /\ s[pos[i]] \in T
          /\ \A i, j \in 1..Len(kept[n]) : i < j => pos[i] < pos[j]
          /\ \A k \in 1..n : s[k] \in T => \E i \in 1..Len(kept[n]) : pos[i] = k
      BY <2>3 DEF Picks
    <3> HIDE DEF t
    <3>4. /\ \A i \in 1..Len(t) : more[i] = IF i = Len(t) THEN n + 1 ELSE pos[i]
          /\ \A i \in 1..Len(t) : i # Len(t) => i \in 1..Len(kept[n]) /\ pos[i] \in 1..n
          /\ \A i \in 1..Len(kept[n]) : i \in 1..Len(t) /\ i # Len(t)
          /\ Len(t) \in 1..Len(t)
          /\ more \in [1..Len(t) -> 1..(n + 1)]
      BY <3>2, <3>3
    <3> HIDE DEF more
    <3>5. \A i \in 1..Len(t) : t[i] = s[more[i]] /\ s[more[i]] \in T
      BY <3>2, <3>3, <3>4, <2>4
    <3>6. ASSUME NEW i \in 1..Len(t), NEW j \in 1..Len(t), i < j PROVE more[i] < more[j]
      <4>1. i # Len(t) /\ more[i] = pos[i] /\ pos[i] \in 1..n
        BY <3>2, <3>4, <3>6
      <4>2. CASE j = Len(t)
        BY <4>1, <4>2, <3>4
      <4>3. CASE j # Len(t)
        BY <4>1, <4>3, <3>3, <3>4, <3>6
      <4>4. QED
        BY <4>2, <4>3
    <3>7. ASSUME NEW k \in 1..(n + 1), s[k] \in T PROVE \E i \in 1..Len(t) : more[i] = k
      <4>1. CASE k = n + 1
        BY <4>1, <3>4
      <4>2. CASE k # n + 1
        <5>1. k \in 1..n
          BY <4>2
        <5>2. PICK i \in 1..Len(kept[n]) : pos[i] = k
          BY <5>1, <3>3, <3>7
        <5>3. QED
          BY <5>2, <3>4
      <4>3. QED
        BY <4>1, <4>2
    <3>8. Picks(more, t, s, T, n + 1)
      BY <3>4, <3>5, <3>6, <3>7 DEF Picks
    <3>9. QED
      BY <3>1, <3>2, <3>8
  <2>5. CASE s[n + 1] \notin T
    <3>1. kept[n + 1] = kept[n]
      BY <1>0, <2>2, <2>5
    <3>2. Picks(pos, kept[n], s, T, n + 1)
      BY <2>3, <2>5, <2>2 DEF Picks
    <3>3. QED
      BY <3>1, <3>2, <2>2
  <2>6. QED
    BY <2>4, <2>5
<1> HIDE DEF P
<1>3. Nat \subseteq P
  BY <1>1, <1>2, SetInduction
<1>4. QED
  BY <1>3 DEF P

\* A selection picks exactly the elements that are in the set.
LEMMA SelectedPicks ==
  ASSUME NEW S, NEW s \in Seq(S), NEW T
  PROVE  /\ Selected(s, T) \in Seq(S)
         /\ \E pos : Picks(pos, Selected(s, T), s, T, Len(s))
<1> DEFINE kept == CHOOSE k : Kept(k, s, T, Len(s))
<1>1. Len(s) \in Nat /\ Len(s) \in 0..Len(s)
  OBVIOUS
<1>2. Kept(kept, s, T, Len(s))
  BY <1>1, KeptExists
<1>3. Selected(s, T) = kept[Len(s)]
  BY DEF Selected, Kept
<1> HIDE DEF kept
<1>4. QED
  BY <1>1, <1>2, <1>3, KeptPicks

\* There are as many selected elements as positions whose element is in the set.
LEMMA SelectedLength ==
  ASSUME NEW S, NEW s \in Seq(S), NEW T
  PROVE  Len(Selected(s, T)) = Cardinality({k \in 1..Len(s) : s[k] \in T})
<1> DEFINE t == Selected(s, T)
           P == {k \in 1..Len(s) : s[k] \in T}
<1>1. PICK pos : Picks(pos, t, s, T, Len(s))
  BY SelectedPicks
<1>2. t \in Seq(S) /\ Len(t) \in Nat
  BY SelectedPicks
<1> HIDE DEF t
<1>3. /\ pos \in [1..Len(t) -> 1..Len(s)]
      /\ \A i \in 1..Len(t) : s[pos[i]] \in T
      /\ \A i, j \in 1..Len(t) : i < j => pos[i] < pos[j]
      /\ \A k \in 1..Len(s) : s[k] \in T => \E i \in 1..Len(t) : pos[i] = k
  BY <1>1 DEF Picks
<1>4. \A i, j \in 1..Len(t) : i # j => pos[i] # pos[j]
  <2>1. \A i, j \in 1..Len(t) : pos[i] \in Int /\ (i # j => i < j \/ j < i)
    BY <1>2, <1>3
  <2>2. QED
    BY <1>3, <2>1
<1>5. pos \in Surjection(1..Len(t), P) /\ pos \in Injection(1..Len(t), P)
  <2>1. pos \in [1..Len(t) -> P]
    BY <1>3
  <2>2. QED
    BY <2>1, <1>3, <1>4 DEF Injection, Surjection, IsInjective
<1>6. IsFiniteSet(1..Len(t)) /\ Cardinality(1..Len(t)) = Len(t)
  <2>1. 1 \in Int /\ Len(t) \in Int /\ (1 > Len(t) => Len(t) = 0)
        /\ (~(1 > Len(t)) => Len(t) - 1 + 1 = Len(t))
    BY <1>2
  <2>2. QED
    BY <2>1, FS_Interval
<1>7. Cardinality(1..Len(t)) = Cardinality(P)
  BY <1>5, <1>6, FS_Surjection
<1>8. QED
  BY <1>6, <1>7 DEF t

-----------------------------------------------------------------------------
(* Counting *)

\* The values of a function on a finite set are no more than its arguments.
LEMMA ImageBound ==
  ASSUME NEW S, NEW T, NEW f \in [S -> T], IsFiniteSet(S)
  PROVE  LET R == {f[x] : x \in S}
         IN IsFiniteSet(R) /\ Cardinality(R) \in Nat /\ Cardinality(R) <= Cardinality(S)
<1> DEFINE R == {f[x] : x \in S}
<1>1. f \in Surjection(S, R)
  BY DEF Surjection
<1>2. QED
  BY <1>1, FS_Surjection, FS_CardinalityType

\* A sequence has no more different elements than its length.
LEMMA RangeBound ==
  ASSUME NEW S, NEW s \in Seq(S)
  PROVE  LET R == {s[i] : i \in DOMAIN s}
         IN IsFiniteSet(R) /\ Cardinality(R) \in Nat /\ Cardinality(R) <= Len(s)
<1>1. s \in [1..Len(s) -> S] /\ DOMAIN s = 1..Len(s) /\ Len(s) \in Nat
  OBVIOUS
<1>2. IsFiniteSet(1..Len(s)) /\ Cardinality(1..Len(s)) = Len(s)
  <2>1. 1 \in Int /\ Len(s) \in Int /\ (1 > Len(s) => Len(s) = 0)
        /\ (~(1 > Len(s)) => Len(s) - 1 + 1 = Len(s))
    BY <1>1
  <2>2. QED
    BY <2>1, FS_Interval
<1>3. LET R == {s[i] : i \in 1..Len(s)}
      IN IsFiniteSet(R) /\ Cardinality(R) \in Nat /\ Cardinality(R) <= Cardinality(1..Len(s))
  BY <1>1, <1>2, ImageBound
<1>4. QED
  BY <1>1, <1>2, <1>3

=============================================================================
