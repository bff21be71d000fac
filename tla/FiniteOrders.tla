---------------------------- MODULE FiniteOrders ----------------------------
(***************************************************************************)
(* Facts about finite sets of numbered agents that several proofs rest on: *)
(* one of them is first, and whatever they are scored by one is best.  The *)
(* sources pick the first by sorting IDs and the best by a scan that keeps *)
(* the earlier on a tie; the models pick both by CHOOSE, and these lemmas  *)
(* say there is one.                                                       *)
(***************************************************************************)
EXTENDS Naturals, FiniteSetTheorems, TLAPS

\* Among finitely many there is a best, the lower number on a tie: a smallest set without
\* one would lose an element and still be without.
LEMMA BestExists ==
  ASSUME NEW C, IsFiniteSet(C), C \subseteq Nat, C # {}, NEW lv \in [C -> Nat]
  PROVE  \E a \in C : \A b \in C \ {a} : lv[a] > lv[b] \/ (lv[a] = lv[b] /\ a < b)
<1> DEFINE Best(T, a) == \A b \in T \ {a} : lv[a] > lv[b] \/ (lv[a] = lv[b] /\ a < b)
           Bad == {T \in SUBSET C : T # {} /\ \A a \in T : ~Best(T, a)}
<1>1. SUFFICES ASSUME Bad # {} PROVE FALSE
  <2>1. C \notin Bad
    BY <1>1
  <2> QED
    BY <2>1
<1>2. FiniteSubsetsOf(C) = SUBSET C
  BY FS_FiniteSubsetsOfFinite
<1>3. IsWellFoundedOn(StrictSubsetOrdering(C), SUBSET C)
  BY <1>2, FS_StrictSubsetOrderingWellFounded
<1>4. Bad \subseteq SUBSET C
  OBVIOUS
<1> HIDE DEF Bad
<1>5. PICK T \in Bad : \A U \in Bad : ~(<<U, T>> \in StrictSubsetOrdering(C))
  BY <1>1, <1>3, <1>4, WFMin
<1> USE DEF Bad
<1>6. PICK x \in T : x \in C
  BY <1>5
<1> DEFINE U == T \ {x}
<1>7. U # {}
  BY <1>5, <1>6
<1>8. <<U, T>> \in StrictSubsetOrdering(C)
  BY <1>5, <1>6 DEF StrictSubsetOrdering
<1>9. U \notin Bad
  BY <1>5, <1>8
<1>10. PICK a \in U : Best(U, a)
  BY <1>5, <1>7, <1>9
<1>11. \A y, z \in C : lv[y] \in Nat /\ y \in Nat /\ lv[z] \in Nat /\ z \in Nat
  OBVIOUS
<1>12. a \in C /\ x \in C /\ a # x /\ T \subseteq C
  BY <1>5, <1>6, <1>10
<1>13. CASE lv[a] > lv[x] \/ (lv[a] = lv[x] /\ a < x)
  <2>1. Best(T, a)
    BY <1>10, <1>13
  <2> QED
    BY <2>1, <1>5, <1>10
<1>14. CASE ~(lv[a] > lv[x] \/ (lv[a] = lv[x] /\ a < x))
  <2>1. lv[x] > lv[a] \/ (lv[x] = lv[a] /\ x < a)
    BY <1>11, <1>12, <1>14
  <2>2. ASSUME NEW b \in T \ {x} PROVE lv[x] > lv[b] \/ (lv[x] = lv[b] /\ x < b)
    <3>1. b = a \/ lv[a] > lv[b] \/ (lv[a] = lv[b] /\ a < b)
      BY <1>10
    <3> QED
      BY <2>1, <3>1, <1>11, <1>12
  <2> QED
    BY <2>2, <1>5, <1>6
<1> QED
  BY <1>13, <1>14

\* A finite set of numbers that is not empty has a smallest: the best when all score alike.
LEMMA SmallestExists ==
  ASSUME NEW C, IsFiniteSet(C), C \subseteq Nat, C # {}
  PROVE  \E a \in C : \A b \in C : a <= b
<1> DEFINE lv == [i \in C |-> 0]
<1>1. lv \in [C -> Nat]
  OBVIOUS
<1>2. \A i \in C : lv[i] = 0
  OBVIOUS
<1> HIDE DEF lv
<1>3. PICK a \in C : \A b \in C \ {a} : lv[a] > lv[b] \/ (lv[a] = lv[b] /\ a < b)
  BY <1>1, BestExists
<1> QED
  BY <1>2, <1>3

\* Any set of numbers that is not empty has a least one, finite or not.
LEMMA LeastExists ==
  ASSUME NEW S, S \subseteq Nat, S # {}
  PROVE  \E i \in S : \A j \in S : i <= j
<1>1. PICK n \in S : TRUE
  OBVIOUS
<1> DEFINE T == S \cap 0..n
<1>2. n \in Nat /\ n \in T /\ T \subseteq Nat
  BY <1>1
<1>3. IsFiniteSet(T)
  <2>1. IsFiniteSet(0..n)
    BY <1>2, FS_Interval
  <2> QED
    BY <2>1, FS_Subset
<1>4. PICK i \in T : \A j \in T : i <= j
  BY <1>2, <1>3, SmallestExists
<1>5. \A j \in S : i <= j
  <2> SUFFICES ASSUME NEW j \in S PROVE i <= j
    OBVIOUS
  <2>1. j \in T \/ j > n
    BY <1>2
  <2> QED
    BY <1>2, <1>4, <2>1
<1> QED
  BY <1>4, <1>5

\* The image of a finite set is finite.
LEMMA ImageFinite ==
  ASSUME NEW S, IsFiniteSet(S), NEW f, f = [x \in S |-> f[x]]
  PROVE  IsFiniteSet({f[x] : x \in S})
<1> DEFINE T == {f[x] : x \in S}
<1>1. f \in [S -> T] /\ \A t \in T : \E x \in S : f[x] = t
  OBVIOUS
<1>2. f \in Surjection(S, T)
  BY <1>1 DEF Surjection
<1> QED
  BY <1>2, FS_Surjection
=============================================================================
