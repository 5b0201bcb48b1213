---------------------------- MODULE TalliesProofs ----------------------------
(***************************************************************************)
(* What sums over finite sets do: they are numbers, change by as much as   *)
(* the one term that changes, and grow with their terms.  And what takes   *)
(* the place of an induction: every set of numbers has a least one.        *)
(***************************************************************************)
EXTENDS Tallies, FiniteSetTheorems, WellFoundedInduction, TLAPS

LEMMA UnitsCounted ==
  ASSUME NEW x, NEW n \in Nat
  PROVE  IsFiniteSet(Units(x, n)) /\ Cardinality(Units(x, n)) = n
<1>1. IsFiniteSet({x}) /\ Cardinality({x}) = 1
  BY FS_Singleton
<1>2. IsFiniteSet(1 .. n) /\ Cardinality(1 .. n) = n
  BY FS_Interval
<1>3. ASSUME NEW S, NEW T, IsFiniteSet(S), Cardinality(S) = 1, IsFiniteSet(T), Cardinality(T) = n
      PROVE  IsFiniteSet(S \X T) /\ Cardinality(S \X T) = n
  <2>1. IsFiniteSet(S \X T) /\ Cardinality(S \X T) = Cardinality(S) * Cardinality(T)
    BY <1>3, FS_Product
  <2> QED
    BY <1>3, <2>1
<1> QED
  BY <1>1, <1>2, <1>3 DEF Units

\* The units that a sum over R counts.
Heap(R, n) == UNION {Units(x, n[x]) : x \in R}

LEMMA HeapIsFinite ==
  ASSUME NEW R, IsFiniteSet(R), NEW n, \A x \in R : n[x] \in Nat
  PROVE  IsFiniteSet(Heap(R, n))
<1> DEFINE f == [x \in R |-> Units(x, n[x])]
           T == {Units(x, n[x]) : x \in R}
<1>1. f \in Surjection(R, T)
  BY DEF Surjection
<1>2. IsFiniteSet(T)
  BY <1>1, FS_Surjection
<1>3. \A U \in T : IsFiniteSet(U)
  BY UnitsCounted
<1> QED
  BY <1>2, <1>3, FS_UNION DEF Heap

\* A sum of numbers is a number.
LEMMA TallyIsNat ==
  ASSUME NEW R, IsFiniteSet(R), NEW n, \A x \in R : n[x] \in Nat
  PROVE  Tally(R, n) \in Nat
BY HeapIsFinite, FS_CardinalityType DEF Tally, Heap

\* One term apart from the others.
LEMMA TallyApart ==
  ASSUME NEW R, IsFiniteSet(R), NEW n, \A x \in R : n[x] \in Nat, NEW q \in R
  PROVE  /\ Cardinality(Heap(R \ {q}, n)) \in Nat
         /\ Tally(R, n) = Cardinality(Heap(R \ {q}, n)) + n[q]
<1> DEFINE rest == Heap(R \ {q}, n)
           mine == Units(q, n[q])
<1>1. IsFiniteSet(R \ {q})
  BY FS_Subset
<1>2. IsFiniteSet(rest) /\ IsFiniteSet(mine) /\ Cardinality(mine) = n[q]
  BY <1>1, HeapIsFinite, UnitsCounted
<1>3. rest \cap mine = {}
  BY DEF Heap, Units
<1>4. Tally(R, n) = Cardinality(rest \cup mine)
  <2>1. Heap(R, n) = rest \cup mine
    BY DEF Heap
  <2> QED
    BY <2>1 DEF Tally, Heap
<1> HIDE DEF rest, mine
<1>5. Cardinality(rest \cup mine) = Cardinality(rest) + Cardinality(mine) - Cardinality({})
  BY <1>2, <1>3, FS_Union
<1>6. Cardinality(rest) \in Nat /\ Cardinality({}) = 0
  BY <1>2, FS_CardinalityType, FS_EmptySet
<1> QED
  BY <1>2, <1>4, <1>5, <1>6 DEF rest

\* When one term changes, the sum changes by as much.
LEMMA TallyStep ==
  ASSUME NEW R, IsFiniteSet(R), NEW m, NEW n, NEW q \in R,
         \A x \in R : m[x] \in Nat /\ n[x] \in Nat,
         \A x \in R \ {q} : n[x] = m[x]
  PROVE  Tally(R, n) - Tally(R, m) = n[q] - m[q]
<1>1. Heap(R \ {q}, n) = Heap(R \ {q}, m)
  BY DEF Heap
<1> QED
  BY <1>1, TallyApart

LEMMA TallyMonotone ==
  ASSUME NEW R, IsFiniteSet(R), NEW m, NEW n,
         \A x \in R : m[x] \in Nat /\ n[x] \in Nat /\ m[x] <= n[x]
  PROVE  Tally(R, m) <= Tally(R, n)
<1>1. \A x \in R : Units(x, m[x]) \subseteq Units(x, n[x])
  <2> SUFFICES ASSUME NEW x \in R PROVE Units(x, m[x]) \subseteq Units(x, n[x])
    OBVIOUS
  <2>1. 1 .. m[x] \subseteq 1 .. n[x]
    OBVIOUS
  <2> QED
    BY <2>1 DEF Units
<1>2. Heap(R, m) \subseteq Heap(R, n)
  BY <1>1 DEF Heap
<1>3. IsFiniteSet(Heap(R, n))
  BY HeapIsFinite
<1> QED
  BY <1>2, <1>3, FS_Subset DEF Tally, Heap

LEMMA TallyNothing ==
  ASSUME NEW R, NEW n, \A x \in R : n[x] = 0
  PROVE  Tally(R, n) = 0
<1>1. \A x \in R : Units(x, n[x]) = {}
  BY DEF Units
<1>2. UNION {Units(x, n[x]) : x \in R} = {}
  BY <1>1
<1> QED
  BY <1>2, FS_EmptySet DEF Tally

\* A sum over a part, and what the rest adds to it.
LEMMA TallyOfParts ==
  ASSUME NEW R, IsFiniteSet(R), NEW n, \A x \in R : n[x] \in Nat, NEW Q \in SUBSET R
  PROVE  Tally(R, n) = Tally(Q, n) + Tally(R \ Q, n)
<1>1. IsFiniteSet(Q) /\ IsFiniteSet(R \ Q)
  BY FS_Subset
<1>2. IsFiniteSet(Heap(Q, n)) /\ IsFiniteSet(Heap(R \ Q, n))
  BY <1>1, HeapIsFinite
<1>3. Heap(Q, n) \cap Heap(R \ Q, n) = {}
  BY DEF Heap, Units
<1>4. Heap(R, n) = Heap(Q, n) \cup Heap(R \ Q, n)
  BY DEF Heap
<1> DEFINE a == Heap(Q, n)
           b == Heap(R \ Q, n)
<1>5. IsFiniteSet(a) /\ IsFiniteSet(b) /\ a \cap b = {}
  BY <1>2, <1>3
<1> HIDE DEF a, b
<1>6. Cardinality(a \cup b) = Cardinality(a) + Cardinality(b) - Cardinality({})
  BY <1>5, FS_Union
<1>7. Cardinality(a) \in Nat /\ Cardinality(b) \in Nat /\ Cardinality({}) = 0
  BY <1>5, FS_CardinalityType, FS_EmptySet
<1>8. Cardinality(a \cup b) = Cardinality(a) + Cardinality(b)
  BY <1>6, <1>7
<1> QED
  BY <1>4, <1>8 DEF Tally, Heap, a, b

\* A sum depends on its terms alone.
LEMMA TallyAgrees ==
  ASSUME NEW R, NEW m, NEW n, \A x \in R : n[x] = m[x]
  PROVE  Tally(R, n) = Tally(R, m)
BY DEF Tally

\* One more term.
LEMMA TallyOneMore ==
  ASSUME NEW R, IsFiniteSet(R), NEW q, q \notin R, NEW m, NEW n,
         \A x \in R : m[x] \in Nat /\ n[x] = m[x], n[q] \in Nat
  PROVE  Tally(R \cup {q}, n) = Tally(R, m) + n[q]
<1>1. IsFiniteSet(R \cup {q})
  BY FS_AddElement
<1>2. Tally(R \cup {q}, n) = Cardinality(Heap((R \cup {q}) \ {q}, n)) + n[q]
  BY <1>1, TallyApart
<1>3. (R \cup {q}) \ {q} = R
  OBVIOUS
<1>4. Heap(R, n) = Heap(R, m)
  BY DEF Heap
<1> QED
  BY <1>2, <1>3, <1>4 DEF Tally, Heap
-----------------------------------------------------------------------------
\* Every set of numbers has a least one.
LEMMA LeastOf ==
  ASSUME NEW T \in SUBSET Nat, T # {}
  PROVE  \E x \in T : \A y \in T : x <= y
<1>1. PICK x \in T : \A y \in T : <<y, x>> \notin OpToRel(<, Nat)
  BY NatLessThanWellFounded, WFMin
<1>2. x \in T /\ \A y \in T : ~(y < x)
  BY <1>1 DEF OpToRel
<1> QED
  BY <1>2

\* A set with the least number, and with the next of each of its numbers, has all.
LEMMA EveryNat ==
  ASSUME NEW S \in SUBSET Nat, 0 \in S, \A m \in S : m + 1 \in S
  PROVE  S = Nat
<1> SUFFICES ASSUME Nat \ S # {} PROVE FALSE
  OBVIOUS
<1>1. PICK m \in Nat \ S : \A i \in Nat \ S : m <= i
  BY LeastOf
<1>2. m # 0 /\ m - 1 \in Nat /\ (m - 1) + 1 = m
  BY <1>1
<1> QED
  BY <1>1, <1>2

LEMMA UpTo ==
  ASSUME NEW low \in Nat, NEW high \in Nat, low <= high, NEW S \in SUBSET (low .. high),
         low \in S, \A m \in S : m < high => m + 1 \in S
  PROVE  S = low .. high
<1> SUFFICES ASSUME (low .. high) \ S # {} PROVE FALSE
  OBVIOUS
<1>1. PICK m \in (low .. high) \ S : \A i \in (low .. high) \ S : m <= i
  <2> DEFINE T == (low .. high) \ S
  <2>1. T \in SUBSET Nat /\ T # {}
    OBVIOUS
  <2> HIDE DEF T
  <2>2. \E m \in T : \A i \in T : m <= i
    BY <2>1, LeastOf
  <2> QED
    BY <2>2 DEF T
<1>2. m - 1 \in low .. high /\ (m - 1) + 1 = m /\ m - 1 < high
  BY <1>1
<1> QED
  BY <1>1, <1>2
==============================================================================
