---------------------------- MODULE BackupProofs ----------------------------
(***************************************************************************)
(* Theorems about the history in the backup store, for every set of runs,   *)
(* every retention whose windows and buckets nest as the code's do, every   *)
(* clock, and every pattern of flushes, resets, failed statements and       *)
(* restarts.                                                               *)
(***************************************************************************)
EXTENDS BackupTable, FiniteOrders

----------------------------------------------------------------------------
(* Windows and buckets.                                                    *)

\* Multiplication by a number keeps the order.
LEMMA TimesKeepsOrder ==
  ASSUME NEW m \in Nat, NEW a \in Nat, NEW b \in Nat, a <= b
  PROVE  m * a <= m * b
<1>1. PICK d \in Nat : b = a + d
  <2>1. b - a \in Nat /\ b = a + (b - a)
    OBVIOUS
  <2> QED
    BY <2>1
<1>2. m * b = m * a + m * d
  BY <1>1
<1>3. m * d \in Nat /\ m * a \in Nat
  OBVIOUS
<1> QED
  BY <1>2, <1>3

\* The buckets of the older band are unions of those of the younger.
LEMMA BucketsNest ==
  ASSUME NEW a \in Nat, NEW b \in Nat, a \div MidBucket = b \div MidBucket
  PROVE  a \div CoarseBucket = b \div CoarseBucket
<1>1. PICK k \in 1..CoarseBucket : CoarseBucket = k * MidBucket
  BY BackupAssumption
<1>2. PICK m, c : m = MidBucket /\ c = CoarseBucket /\ m \in Nat \ {0} /\ c \in Nat \ {0}
  BY BackupAssumption
<1>3. \A x \in Nat : x \div m \in Nat /\ m * (x \div m) <= x /\ x < m * (x \div m) + m
  BY <1>2
<1>4. \A x \in Nat : x \div c \in Nat /\ c * (x \div c) <= x /\ x < c * (x \div c) + c
  BY <1>2
<1>5. ASSUME NEW x \in Nat, NEW y \in Nat, x \div m = y \div m, x \div c < y \div c PROVE FALSE
  <2>1. PICK q, u, v : q = x \div m /\ u = x \div c /\ v = y \div c /\ q = y \div m
    BY <1>5
  <2>2. q \in Nat /\ u \in Nat /\ v \in Nat /\ u + 1 <= v
    BY <1>3, <1>4, <1>5, <2>1
  <2>3. m * q <= x /\ y < m * q + m /\ x < c * u + c /\ c * v <= y
    BY <1>3, <1>4, <2>1
  <2>4. c * (u + 1) <= c * v
    BY <1>2, <2>2, TimesKeepsOrder
  <2>5. c * (u + 1) = c * u + c
    BY <1>2, <2>2
  <2>6. PICK p : p = k * v
    OBVIOUS
  <2>7. p \in Nat /\ c * v = m * p
    <3>1. k \in Nat /\ c = k * m
      BY <1>1, <1>2
    <3>2. (k * m) * v = m * (k * v)
      BY <1>2, <2>2, <3>1
    <3> QED
      BY <2>2, <2>6, <3>1, <3>2
  <2>8. m * (q + 1) = m * q + m /\ m * q \in Nat /\ c * u \in Nat
    BY <1>2, <2>2
  <2>9. x < m * p /\ m * p <= y
    BY <1>2, <2>2, <2>3, <2>4, <2>5, <2>7, <2>8
  <2>10. CASE p <= q
    <3>1. m * p <= m * q
      BY <1>2, <2>2, <2>7, <2>10, TimesKeepsOrder
    <3> QED
      BY <1>2, <2>3, <2>7, <2>8, <2>9, <3>1
  <2>11. CASE q + 1 <= p
    <3>1. m * (q + 1) <= m * p
      BY <1>2, <2>2, <2>7, <2>11, TimesKeepsOrder
    <3> QED
      BY <1>2, <2>3, <2>7, <2>8, <2>9, <3>1
  <2> QED
    BY <2>2, <2>7, <2>10, <2>11
<1>6. a \div m = b \div m /\ a \div c \in Nat /\ b \div c \in Nat
  BY <1>2, <1>4
<1>7. ~(a \div c < b \div c) /\ ~(b \div c < a \div c)
  BY <1>5, <1>6
<1> QED
  BY <1>2, <1>6, <1>7

----------------------------------------------------------------------------
(* Rows kept.                                                              *)

Upto(keep, i) == {j \in keep : j <= i}

\* How many of a set of indices are up to one.
LEMMA UptoFacts ==
  ASSUME NEW L \in Nat, NEW keep \in SUBSET (1..L)
  PROVE  /\ IsFiniteSet(keep) /\ Cardinality(keep) \in Nat
         /\ \A i \in 0..L : /\ IsFiniteSet(Upto(keep, i)) /\ Cardinality(Upto(keep, i)) \in Nat
                            /\ Cardinality(Upto(keep, i)) <= Cardinality(keep)
         /\ Cardinality(Upto(keep, 0)) = 0 /\ Cardinality(Upto(keep, L)) = Cardinality(keep)
         /\ \A i \in 1..L : Cardinality(Upto(keep, i)) =
              IF i \in keep THEN Cardinality(Upto(keep, i - 1)) + 1 ELSE Cardinality(Upto(keep, i - 1))
         /\ \A i, j \in 0..L : i <= j => Cardinality(Upto(keep, i)) <= Cardinality(Upto(keep, j))
<1>0. \A j \in keep : j \in Nat /\ 1 <= j /\ j <= L
  OBVIOUS
<1>1. IsFiniteSet(keep) /\ Cardinality(keep) \in Nat
  <2>1. IsFiniteSet(1..L)
    BY FS_Interval
  <2> QED
    BY <2>1, FS_Subset, FS_CardinalityType
<1>2. \A i \in 0..L : Upto(keep, i) \subseteq keep
  BY DEF Upto
<1>3. \A i \in 0..L : /\ IsFiniteSet(Upto(keep, i)) /\ Cardinality(Upto(keep, i)) \in Nat
                      /\ Cardinality(Upto(keep, i)) <= Cardinality(keep)
  BY <1>1, <1>2, FS_Subset, FS_CardinalityType
<1>4. Upto(keep, 0) = {} /\ Upto(keep, L) = keep
  <2>1. \A j \in keep : ~(j <= 0) /\ j <= L
    BY <1>0
  <2> QED
    BY <2>1 DEF Upto
<1>5. ASSUME NEW i \in 1..L
      PROVE  Cardinality(Upto(keep, i)) =
               IF i \in keep THEN Cardinality(Upto(keep, i - 1)) + 1 ELSE Cardinality(Upto(keep, i - 1))
  <2>1. i - 1 \in 0..L /\ i \notin Upto(keep, i - 1)
    BY DEF Upto
  <2>2. \A j \in keep : j <= i <=> j <= i - 1 \/ j = i
    OBVIOUS
  <2>3. CASE i \in keep
    <3>1. Upto(keep, i) = Upto(keep, i - 1) \cup {i}
      BY <2>2, <2>3 DEF Upto
    <3> QED
      BY <1>3, <2>1, <2>3, <3>1, FS_AddElement
  <2>4. CASE i \notin keep
    <3>1. Upto(keep, i) = Upto(keep, i - 1)
      BY <2>2, <2>4 DEF Upto
    <3> QED
      BY <2>4, <3>1
  <2> QED
    BY <2>3, <2>4
<1>6. ASSUME NEW i \in 0..L, NEW j \in 0..L, i <= j
      PROVE  Cardinality(Upto(keep, i)) <= Cardinality(Upto(keep, j))
  <2>1. \A k \in Upto(keep, i) : k \in Upto(keep, j)
    BY <1>0, <1>6 DEF Upto
  <2>2. Upto(keep, i) \subseteq Upto(keep, j)
    BY <2>1
  <2> QED
    BY <1>3, <2>2, FS_Subset
<1> QED
  BY <1>1, <1>3, <1>4, <1>5, <1>6, FS_EmptySet

\* Each place is taken by one of the indices kept, and each of them has one.
LEMMA NthFacts ==
  ASSUME NEW L \in Nat, NEW keep \in SUBSET (1..L)
  PROVE  /\ \A n \in 1..Cardinality(keep) : \E i \in keep : Cardinality(Upto(keep, i)) = n
         /\ \A i \in keep : Cardinality(Upto(keep, i)) \in 1..Cardinality(keep)
         /\ \A i, j \in keep : Cardinality(Upto(keep, i)) = Cardinality(Upto(keep, j)) => i = j
<1> DEFINE Rank(i) == Cardinality(Upto(keep, i))
<1>1. /\ Cardinality(keep) \in Nat
      /\ \A i \in 0..L : Rank(i) \in Nat /\ Rank(i) <= Cardinality(keep)
      /\ Rank(0) = 0 /\ Rank(L) = Cardinality(keep)
      /\ \A i \in 1..L : Rank(i) = IF i \in keep THEN Rank(i - 1) + 1 ELSE Rank(i - 1)
      /\ \A i, j \in 0..L : i <= j => Rank(i) <= Rank(j)
  BY UptoFacts
<1> HIDE DEF Rank
<1>2. ASSUME NEW n \in 1..Cardinality(keep) PROVE \E i \in keep : Rank(i) = n
  <2> DEFINE S == {i \in 0..L : Rank(i) >= n}
  <2>1. L \in S /\ S \subseteq Nat /\ S # {}
    BY <1>1
  <2>2. PICK i \in S : \A j \in S : i <= j
    BY <2>1, LeastExists
  <2>3. i \in 0..L /\ Rank(i) >= n /\ i # 0
    BY <1>1, <2>2
  <2>4. i \in 1..L /\ i - 1 \in 0..L /\ i - 1 \notin S
    BY <2>2, <2>3
  <2>5. ~(Rank(i - 1) >= n) /\ Rank(i - 1) \in Nat
    BY <1>1, <2>4
  <2>6. i \in keep /\ Rank(i) = Rank(i - 1) + 1
    BY <1>1, <2>3, <2>4, <2>5
  <2> QED
    BY <2>3, <2>5, <2>6
<1>3. ASSUME NEW i \in keep PROVE Rank(i) \in 1..Cardinality(keep)
  <2>1. i \in 1..L /\ i - 1 \in 0..L /\ i \in 0..L
    OBVIOUS
  <2> QED
    BY <1>1, <2>1
<1>4. ASSUME NEW i \in keep, NEW j \in keep, i < j PROVE Rank(i) < Rank(j)
  <2>1. j \in 1..L /\ j - 1 \in 0..L /\ i \in 0..L /\ i <= j - 1
    BY <1>4
  <2>2. Rank(i) <= Rank(j - 1) /\ Rank(j) = Rank(j - 1) + 1 /\ Rank(i) \in Nat /\ Rank(j - 1) \in Nat
    BY <1>1, <2>1
  <2> QED
    BY <2>2
<1>5. ASSUME NEW i \in keep, NEW j \in keep, Rank(i) = Rank(j) PROVE i = j
  <2>1. i \in Nat /\ j \in Nat /\ Rank(i) \in Nat /\ Rank(j) \in Nat
    BY <1>3
  <2>2. ~(i < j) /\ ~(j < i)
    BY <1>4, <1>5, <2>1
  <2> QED
    BY <2>1, <2>2
<1> QED
  BY <1>2, <1>3, <1>5 DEF Rank

\* The places g of the rows of u in t.
Places(g, u, t) ==
  /\ \A n \in DOMAIN u : u[n] = t[g[n]]
  /\ \A m, n \in DOMAIN u : m # n => g[m] # g[n]

\* What is kept of a table: the rows at the indices, each once.
LEMMA KeptFacts ==
  ASSUME NEW S, NEW t \in Seq(S), NEW keep \in SUBSET (DOMAIN t)
  PROVE  /\ KeepIndices(t, keep) \in Seq(S)
         /\ \A k \in keep : \E n \in DOMAIN KeepIndices(t, keep) : KeepIndices(t, keep)[n] = t[k]
         /\ \E g \in [DOMAIN KeepIndices(t, keep) -> keep] : Places(g, KeepIndices(t, keep), t)
<1>1. PICK L : L = Len(t)
  OBVIOUS
<1>2. L \in Nat /\ DOMAIN t = 1..L /\ keep \in SUBSET (1..L)
  BY <1>1
<1>3. PICK c : c = Cardinality(keep)
  OBVIOUS
<1> DEFINE g == [n \in 1..c |-> Nth(keep, n)]
<1>4. c \in Nat /\ \A n \in 1..c : Nth(keep, n) \in keep /\ Cardinality(Upto(keep, Nth(keep, n))) = n
  <2>1. c \in Nat /\ \A n \in 1..c : \E i \in keep : Cardinality(Upto(keep, i)) = n
    BY <1>2, <1>3, UptoFacts, NthFacts
  <2>2. ASSUME NEW n \in 1..c PROVE Nth(keep, n) \in keep /\ Cardinality(Upto(keep, Nth(keep, n))) = n
    <3>1. \E i \in keep : Cardinality({j \in keep : j <= i}) = n
      BY <2>1 DEF Upto
    <3> QED
      BY <3>1 DEF Nth, Upto
  <2> QED
    BY <2>1, <2>2
<1>5. \A i \in keep : Cardinality(Upto(keep, i)) \in 1..c /\ Nth(keep, Cardinality(Upto(keep, i))) = i
  <2>1. /\ \A i \in keep : Cardinality(Upto(keep, i)) \in 1..c
        /\ \A i, j \in keep : Cardinality(Upto(keep, i)) = Cardinality(Upto(keep, j)) => i = j
    BY <1>2, <1>3, NthFacts
  <2> QED
    BY <1>4, <2>1
<1>6. KeepIndices(t, keep) = [n \in 1..c |-> t[Nth(keep, n)]]
  BY <1>3 DEF KeepIndices
<1>7. PICK k : k = KeepIndices(t, keep)
  OBVIOUS
<1>8. k \in [1..c -> S] /\ DOMAIN k = 1..c /\ \A n \in 1..c : k[n] = t[Nth(keep, n)]
  BY <1>2, <1>4, <1>6, <1>7
<1>9. k \in Seq(S)
  BY <1>4, <1>8
<1>10. \A i \in keep : \E n \in DOMAIN k : k[n] = t[i]
  BY <1>5, <1>8
<1>11. g \in [DOMAIN k -> keep] /\ \A n \in DOMAIN k : g[n] = Nth(keep, n)
  BY <1>4, <1>8
<1> HIDE DEF g
<1>12. \A m, n \in DOMAIN k : m # n => g[m] # g[n]
  BY <1>4, <1>8, <1>11
<1>13. \A n \in DOMAIN k : k[n] = t[g[n]]
  BY <1>8, <1>11
<1>14. Places(g, k, t)
  BY <1>12, <1>13 DEF Places
<1> QED
  BY <1>7, <1>9, <1>10, <1>11, <1>14

----------------------------------------------------------------------------
(* A band of rows thinned.                                                 *)

SnapshotRow == [run : RunIDs, tick : Nat, at : Nat, seq : Nat]
EventRow == [run : RunIDs, seq : Nat, at : Nat]

\* A total transitive relation on a finite set has a first element.
LEMMA FirstExists ==
  ASSUME NEW C, IsFiniteSet(C), C # {}, NEW R,
         \A x, y \in C : x # y => <<x, y>> \in R \/ <<y, x>> \in R,
         \A x, y, z \in C : <<x, y>> \in R /\ <<y, z>> \in R => <<x, z>> \in R
  PROVE  \E a \in C : \A b \in C \ {a} : <<a, b>> \in R
<1> DEFINE First(T, a) == \A b \in T \ {a} : <<a, b>> \in R
           Bad == {T \in SUBSET C : T # {} /\ \A a \in T : ~First(T, a)}
<1>1. SUFFICES ASSUME Bad # {} PROVE FALSE
  <2>1. C \notin Bad
    BY <1>1
  <2> QED
    BY <2>1
<1>2. IsWellFoundedOn(StrictSubsetOrdering(C), SUBSET C)
  <2>1. FiniteSubsetsOf(C) = SUBSET C
    BY FS_FiniteSubsetsOfFinite
  <2> QED
    BY <2>1, FS_StrictSubsetOrderingWellFounded
<1>3. Bad \subseteq SUBSET C
  OBVIOUS
<1> HIDE DEF Bad
<1>4. PICK T \in Bad : \A U \in Bad : ~(<<U, T>> \in StrictSubsetOrdering(C))
  BY <1>1, <1>2, <1>3, WFMin
<1> USE DEF Bad
<1>5. PICK x \in T : x \in C
  BY <1>4
<1> DEFINE U == T \ {x}
<1>6. U # {}
  BY <1>4, <1>5
<1>7. <<U, T>> \in StrictSubsetOrdering(C)
  BY <1>4, <1>5 DEF StrictSubsetOrdering
<1>8. U \notin Bad
  BY <1>4, <1>7
<1>9. PICK a \in U : First(U, a)
  BY <1>4, <1>6, <1>8
<1>10. a \in C /\ x \in C /\ a # x /\ T \subseteq C
  BY <1>4, <1>5, <1>9
<1>11. CASE <<a, x>> \in R
  BY <1>4, <1>9, <1>11
<1>12. CASE <<x, a>> \in R
  <2>1. ASSUME NEW b \in T \ {x} PROVE <<x, b>> \in R
    BY <1>9, <1>10, <1>12
  <2> QED
    BY <2>1, <1>4, <1>5
<1> QED
  BY <1>10, <1>11, <1>12

\* The fields of the rows of a table.
LEMMA RowFields ==
  ASSUME NEW t \in Seq(SnapshotRow), NEW i \in DOMAIN t
  PROVE  /\ i \in Nat /\ t[i] \in SnapshotRow
         /\ t[i].at \in Nat /\ t[i].tick \in Nat /\ t[i].seq \in Nat /\ t[i].run \in RunIDs
<1>1. i \in Nat /\ t[i] \in SnapshotRow
  OBVIOUS
<1> QED
  BY <1>1 DEF SnapshotRow

\* The order of the SQL window is one: total and transitive.
LEMMA RanksTotal ==
  ASSUME NEW t \in Seq(SnapshotRow)
  PROVE  /\ \A i, j \in DOMAIN t : i # j => RanksBefore(t, i, j) \/ RanksBefore(t, j, i)
         /\ \A i, j, k \in DOMAIN t : RanksBefore(t, i, j) /\ RanksBefore(t, j, k) => RanksBefore(t, i, k)
<1>1. \A i \in DOMAIN t : i \in Nat /\ t[i].at \in Nat /\ t[i].tick \in Nat
  BY RowFields
<1>2. ASSUME NEW i \in DOMAIN t, NEW j \in DOMAIN t, i # j
      PROVE  RanksBefore(t, i, j) \/ RanksBefore(t, j, i)
  <2>1. PICK a, b, c, d : a = t[i].at /\ b = t[j].at /\ c = t[i].tick /\ d = t[j].tick
    OBVIOUS
  <2>2. a \in Nat /\ b \in Nat /\ c \in Nat /\ d \in Nat /\ i \in Nat /\ j \in Nat
    BY <1>1, <2>1
  <2>3. /\ RanksBefore(t, i, j) <=> a > b \/ (a = b /\ c > d) \/ (a = b /\ c = d /\ i > j)
        /\ RanksBefore(t, j, i) <=> b > a \/ (b = a /\ d > c) \/ (b = a /\ d = c /\ j > i)
    BY <2>1 DEF RanksBefore
  <2> QED
    BY <1>2, <2>2, <2>3
<1>3. ASSUME NEW i \in DOMAIN t, NEW j \in DOMAIN t, NEW k \in DOMAIN t,
             RanksBefore(t, i, j), RanksBefore(t, j, k)
      PROVE  RanksBefore(t, i, k)
  <2>1. PICK a, b, c, d, e, f : /\ a = t[i].at /\ b = t[j].at /\ e = t[k].at
                                /\ c = t[i].tick /\ d = t[j].tick /\ f = t[k].tick
    OBVIOUS
  <2>2. /\ a \in Nat /\ b \in Nat /\ c \in Nat /\ d \in Nat /\ e \in Nat /\ f \in Nat
        /\ i \in Nat /\ j \in Nat /\ k \in Nat
    BY <1>1, <2>1
  <2>3. /\ RanksBefore(t, i, j) <=> a > b \/ (a = b /\ c > d) \/ (a = b /\ c = d /\ i > j)
        /\ RanksBefore(t, j, k) <=> b > e \/ (b = e /\ d > f) \/ (b = e /\ d = f /\ j > k)
        /\ RanksBefore(t, i, k) <=> a > e \/ (a = e /\ c > f) \/ (a = e /\ c = f /\ i > k)
    BY <2>1 DEF RanksBefore
  <2> QED
    BY <1>3, <2>2, <2>3
<1> QED
  BY <1>2, <1>3

Band(t, r, lower, upper) == {i \in DOMAIN t : Of(r, t[i]) /\ t[i].at >= lower /\ t[i].at < upper}

\* Of the band the indices keep spare at least one row of a bucket, and not two.
Spared(t, keep, r, lower, upper, bucket) ==
  /\ \A i \in DOMAIN t \ keep :
       /\ i \in Band(t, r, lower, upper)
       /\ \E k \in keep : /\ k \in Band(t, r, lower, upper)
                          /\ t[k].at \div bucket = t[i].at \div bucket /\ t[k].at >= t[i].at
  /\ \A i, j \in keep : (i # j /\ i \in Band(t, r, lower, upper) /\ j \in Band(t, r, lower, upper))
                            => t[i].at \div bucket # t[j].at \div bucket

\* Of a bucket of the band one row is kept, the one that ranks first, and of the rest all.
LEMMA BandFacts ==
  ASSUME NEW t \in Seq(SnapshotRow), NEW r, NEW lower \in Int, NEW upper \in Int, NEW bucket
  PROVE  \E keep \in SUBSET (DOMAIN t) :
           /\ PruneBand(t, r, lower, upper, bucket) = KeepIndices(t, keep)
           /\ Spared(t, keep, r, lower, upper, bucket)
<1> DEFINE B == Band(t, r, lower, upper)
           Behind(i) == \E j \in B : t[j].at \div bucket = t[i].at \div bucket /\ RanksBefore(t, j, i)
           keep == {i \in DOMAIN t : ~(i \in B /\ Behind(i))}
<1>1. PruneBand(t, r, lower, upper, bucket) = KeepIndices(t, keep)
  BY DEF PruneBand, Band
<1>2. B \subseteq DOMAIN t /\ IsFiniteSet(B)
  <2>1. PICK L : L = Len(t)
    OBVIOUS
  <2>2. L \in Nat /\ DOMAIN t = 1..L
    BY <2>1
  <2>3. B \subseteq DOMAIN t
    BY DEF Band
  <2>4. IsFiniteSet(1..L)
    BY <2>2, FS_Interval
  <2> QED
    BY <2>2, <2>3, <2>4, FS_Subset
<1> HIDE DEF B
<1>3. ASSUME NEW i \in DOMAIN t \ keep
      PROVE  i \in B /\ \E k \in keep : k \in B /\ t[k].at \div bucket = t[i].at \div bucket /\ t[k].at >= t[i].at
  <2> DEFINE C == {j \in B : t[j].at \div bucket = t[i].at \div bucket}
             R == {p \in C \X C : RanksBefore(t, p[1], p[2])}
  <2>1. i \in B
    OBVIOUS
  <2>2. i \in C /\ C \subseteq B /\ IsFiniteSet(C) /\ C # {} /\ C \subseteq DOMAIN t
    BY <1>2, <2>1, FS_Subset
  <2>3. \A x, y \in C : <<x, y>> \in R <=> RanksBefore(t, x, y)
    OBVIOUS
  <2>10. \A x : x \in C <=> x \in B /\ t[x].at \div bucket = t[i].at \div bucket
    OBVIOUS
  <2> HIDE DEF C, R
  <2>4. /\ \A x, y \in C : x # y => <<x, y>> \in R \/ <<y, x>> \in R
        /\ \A x, y, z \in C : <<x, y>> \in R /\ <<y, z>> \in R => <<x, z>> \in R
    <3>1. \A x \in C : x \in DOMAIN t
      BY <2>2
    <3>2. ASSUME NEW x \in C, NEW y \in C, x # y PROVE <<x, y>> \in R \/ <<y, x>> \in R
      <4>1. RanksBefore(t, x, y) \/ RanksBefore(t, y, x)
        BY <3>1, <3>2, RanksTotal
      <4> QED
        BY <2>3, <4>1
    <3>3. ASSUME NEW x \in C, NEW y \in C, NEW z \in C, <<x, y>> \in R, <<y, z>> \in R PROVE <<x, z>> \in R
      <4>1. RanksBefore(t, x, y) /\ RanksBefore(t, y, z)
        BY <2>3, <3>3
      <4>2. RanksBefore(t, x, z)
        BY <3>1, <4>1, RanksTotal
      <4> QED
        BY <2>3, <4>2
    <3> QED
      BY <3>2, <3>3
  <2>5. PICK k \in C : \A b \in C \ {k} : <<k, b>> \in R
    <3>1. IsFiniteSet(C) /\ C # {}
      BY <2>2
    <3>2. \A x, y \in C : x # y => <<x, y>> \in R \/ <<y, x>> \in R
      BY <2>4
    <3>3. \A x, y, z \in C : <<x, y>> \in R /\ <<y, z>> \in R => <<x, z>> \in R
      BY <2>4
    <3>4. \E k \in C : \A b \in C \ {k} : <<k, b>> \in R
      BY <3>1, <3>2, <3>3, FirstExists, Zenon
    <3> QED
      BY <3>4
  <2>6. k \in B /\ k \in DOMAIN t /\ t[k].at \div bucket = t[i].at \div bucket
    BY <1>2, <2>5, <2>10
  <2>7. \A j \in DOMAIN t : j \in Nat /\ t[j].at \in Nat /\ t[j].tick \in Nat
    BY RowFields
  <2>8. k \in keep
    <3>1. SUFFICES ASSUME NEW j \in B, t[j].at \div bucket = t[k].at \div bucket, RanksBefore(t, j, k)
                   PROVE  FALSE
      BY <2>6
    <3>2. j \in C /\ j \in DOMAIN t
      BY <1>2, <2>6, <2>10, <3>1
    <3>3. ~RanksBefore(t, k, k)
      BY <2>6, <2>7 DEF RanksBefore
    <3>4. RanksBefore(t, k, j) \/ j = k
      BY <2>3, <2>5, <3>2
    <3>5. ~(RanksBefore(t, k, j) /\ RanksBefore(t, j, k))
      BY <2>6, <3>2, <3>3, RanksTotal
    <3> QED
      BY <3>1, <3>3, <3>4, <3>5
  <2>9. t[k].at >= t[i].at
    <3>1. k = i \/ RanksBefore(t, k, i)
      BY <2>2, <2>3, <2>5
    <3> QED
      BY <2>6, <2>7, <3>1 DEF RanksBefore
  <2> QED
    BY <2>1, <2>6, <2>8, <2>9
<1>4. ASSUME NEW i \in keep, NEW j \in keep, i # j, i \in B, j \in B PROVE t[i].at \div bucket # t[j].at \div bucket
  <2>1. RanksBefore(t, i, j) \/ RanksBefore(t, j, i)
    BY <1>4, RanksTotal
  <2> QED
    BY <1>4, <2>1
<1>5. keep \in SUBSET (DOMAIN t)
  OBVIOUS
<1> HIDE DEF keep
<1> QED
  BY <1>1, <1>3, <1>4, <1>5 DEF B, Spared

----------------------------------------------------------------------------
(* The invariant.                                                          *)

Spec == BackupInit /\ [][BackupNext]_backupVars

TypeOK ==
  /\ now \in Nat \ {0} /\ lag \in Nat /\ lag < now /\ run \in RunIDs
  /\ rows \in Seq(SnapshotRow) /\ written \in Seq(SnapshotRow) /\ log \in Seq(EventRow)
  /\ lastPrune \in [RunIDs -> Nat]
  /\ maint \in [now : Nat, left : 0..4]

Held(t) == {t[i] : i \in DOMAIN t}

\* A prune is through within the instant it began in; every row was written, in the past.
Sound ==
  /\ maint.left > 0 => maint.now = now
  /\ Held(rows) \subseteq Held(written)
  /\ \A w \in Held(written) : w.at <= now

\* What of a row w written must still be there among S at n.
Covers(x, w, width) == x.run = w.run /\ x.at >= w.at /\ x.at \div width = w.at \div width
Kept(w, S, n) ==
  /\ w.at >= n - MaxAge => \E x \in S : Covers(x, w, CoarseBucket)
  /\ w.at >= n - MidWindow => \E x \in S : Covers(x, w, MidBucket)
  /\ w.at >= n - KeepAllWindow => w \in S
History == \A w \in Held(written) : Kept(w, Held(rows), now)

EventOf(s) == [run |-> s.run, seq |-> s.seq, at |-> s.at]
Cuts == \A s \in Held(rows) : (s.seq # 0 /\ s.at >= now - MaxAge) => EventOf(s) \in Held(log)

\* How far the pruning has come.
InMid(x, n) == x.run = run /\ x.at >= n - MidWindow /\ x.at < n - KeepAllWindow
InOld(x, n) == x.run = run /\ x.at < n - MidWindow
NoneTooOld(n) == \A x \in Held(rows) : x.run = run => x.at >= n - MaxAge
MidThinned(n) == \A i, j \in DOMAIN rows :
  (i # j /\ InMid(rows[i], n) /\ InMid(rows[j], n)) => rows[i].at \div MidBucket # rows[j].at \div MidBucket
OldThinned(n) == \A i, j \in DOMAIN rows :
  (i # j /\ InOld(rows[i], n) /\ InOld(rows[j], n)) => rows[i].at \div CoarseBucket # rows[j].at \div CoarseBucket
Thinning ==
  maint.now > 0 =>
    /\ maint.left <= 2 => NoneTooOld(maint.now)
    /\ maint.left <= 1 => MidThinned(maint.now)
    /\ maint.left = 0 => OldThinned(maint.now)

BackupInv == TypeOK /\ Sound /\ History /\ Cuts /\ Thinning

----------------------------------------------------------------------------
(* What a table holds after a step.                                        *)

\* One row more.
LEMMA HeldAppended ==
  ASSUME NEW S, NEW t \in Seq(S), NEW x \in S
  PROVE  Append(t, x) \in Seq(S) /\ \A y : y \in Held(Append(t, x)) <=> y \in Held(t) \/ y = x
<1>1. PICK L, u : L = Len(t) /\ u = Append(t, x)
  OBVIOUS
<1>2. /\ L \in Nat /\ DOMAIN t = 1..L /\ u \in Seq(S) /\ DOMAIN u = 1..(L + 1)
      /\ u[L + 1] = x /\ \A i \in 1..L : u[i] = t[i]
  BY <1>1
<1>3. \A i \in 1..(L + 1) : i \in 1..L \/ i = L + 1
  BY <1>2
<1>4. \A i \in 1..L : i \in 1..(L + 1)
  BY <1>2
<1>5. L + 1 \in 1..(L + 1)
  BY <1>2
<1>6. \A y : y \in Held(u) <=> y \in Held(t) \/ y = x
  BY <1>2, <1>3, <1>4, <1>5 DEF Held
<1> QED
  BY <1>1, <1>2, <1>6

\* The rows kept.
LEMMA HeldKept ==
  ASSUME NEW S, NEW t \in Seq(S), NEW keep \in SUBSET (DOMAIN t)
  PROVE  /\ KeepIndices(t, keep) \in Seq(S)
         /\ \A y : y \in Held(KeepIndices(t, keep)) <=> \E k \in keep : y = t[k]
<1>1. PICK u : u = KeepIndices(t, keep)
  OBVIOUS
<1>2. /\ u \in Seq(S)
      /\ \A k \in keep : \E n \in DOMAIN u : u[n] = t[k]
      /\ \E g \in [DOMAIN u -> keep] : Places(g, u, t)
  BY <1>1, KeptFacts
<1>3. \A n \in DOMAIN u : \E k \in keep : u[n] = t[k]
  BY <1>2 DEF Places
<1> QED
  BY <1>1, <1>2, <1>3 DEF Held

\* The rows of the other runs.
LEMMA HeldOthers ==
  ASSUME NEW S, NEW t \in Seq(S)
  PROVE  OfOthers(t) \in Seq(S) /\ \A y : y \in Held(OfOthers(t)) <=> y \in Held(t) /\ y.run # run
<1>1. PICK keep : keep = {i \in DOMAIN t : t[i].run # run}
  OBVIOUS
<1>2. OfOthers(t) = KeepIndices(t, keep) /\ keep \in SUBSET (DOMAIN t)
  BY <1>1 DEF OfOthers
<1>3. \A y : y \in Held(t) /\ y.run # run <=> \E k \in keep : y = t[k]
  BY <1>1 DEF Held
<1> QED
  BY <1>2, <1>3, HeldKept

\* The rows not too old.
LEMMA HeldYounger ==
  ASSUME NEW S, NEW t \in Seq(S), NEW r, NEW cutoff
  PROVE  /\ DropOlder(t, r, cutoff) \in Seq(S)
         /\ \A y : y \in Held(DropOlder(t, r, cutoff)) <=> y \in Held(t) /\ ~(y.run = r /\ y.at < cutoff)
<1>1. PICK keep : keep = {i \in DOMAIN t : ~(Of(r, t[i]) /\ t[i].at < cutoff)}
  OBVIOUS
<1>2. DropOlder(t, r, cutoff) = KeepIndices(t, keep) /\ keep \in SUBSET (DOMAIN t)
  BY <1>1 DEF DropOlder
<1>3. \A y : y \in Held(t) /\ ~(y.run = r /\ y.at < cutoff) <=> \E k \in keep : y = t[k]
  BY <1>1 DEF Held, Of
<1> QED
  BY <1>2, <1>3, HeldKept

\* The rows of a band thinned: whatever goes leaves a younger one of its bucket.
LEMMA HeldBand ==
  ASSUME NEW t \in Seq(SnapshotRow), NEW r, NEW lower \in Int, NEW upper \in Int, NEW bucket, NEW u,
         u = PruneBand(t, r, lower, upper, bucket)
  PROVE  /\ u \in Seq(SnapshotRow) /\ Held(u) \subseteq Held(t)
         /\ \A y \in Held(t) : y \notin Held(u) =>
              /\ y.run = r /\ y.at >= lower /\ y.at < upper
              /\ \E z \in Held(u) : /\ z.run = r /\ z.at >= lower /\ z.at < upper
                                    /\ z.at \div bucket = y.at \div bucket /\ z.at >= y.at
         /\ \A i, j \in DOMAIN u :
              (i # j /\ u[i].run = r /\ u[i].at >= lower /\ u[i].at < upper
                     /\ u[j].run = r /\ u[j].at >= lower /\ u[j].at < upper)
                => u[i].at \div bucket # u[j].at \div bucket
         /\ \E g \in [DOMAIN u -> DOMAIN t] : Places(g, u, t)
<1>1. PICK keep \in SUBSET (DOMAIN t) : u = KeepIndices(t, keep) /\ Spared(t, keep, r, lower, upper, bucket)
  BY BandFacts
<1>2. \A i : i \in Band(t, r, lower, upper) <=>
                 i \in DOMAIN t /\ t[i].run = r /\ t[i].at >= lower /\ t[i].at < upper
  BY DEF Band, Of
<1>3. u \in Seq(SnapshotRow) /\ \A y : y \in Held(u) <=> \E k \in keep : y = t[k]
  BY <1>1, HeldKept
<1>4. PICK g \in [DOMAIN u -> keep] : Places(g, u, t)
  BY <1>1, KeptFacts
<1>5. \A n \in DOMAIN u : g[n] \in keep /\ g[n] \in DOMAIN t
  BY <1>4
<1>6. Held(u) \subseteq Held(t)
  BY <1>3 DEF Held
<1>7. ASSUME NEW y \in Held(t), y \notin Held(u)
      PROVE  /\ y.run = r /\ y.at >= lower /\ y.at < upper
             /\ \E z \in Held(u) : /\ z.run = r /\ z.at >= lower /\ z.at < upper
                                   /\ z.at \div bucket = y.at \div bucket /\ z.at >= y.at
  <2>1. PICK i \in DOMAIN t : y = t[i]
    BY DEF Held
  <2>2. i \in DOMAIN t \ keep
    BY <1>3, <1>7, <2>1
  <2>3. PICK k \in keep : k \in Band(t, r, lower, upper) /\ t[k].at \div bucket = t[i].at \div bucket
                             /\ t[k].at >= t[i].at
    BY <1>1, <2>2 DEF Spared
  <2>4. t[k] \in Held(u)
    BY <1>3
  <2> QED
    BY <1>1, <1>2, <2>1, <2>2, <2>3, <2>4 DEF Spared
<1>8. ASSUME NEW i \in DOMAIN u, NEW j \in DOMAIN u, i # j,
             u[i].run = r, u[i].at >= lower, u[i].at < upper,
             u[j].run = r, u[j].at >= lower, u[j].at < upper
      PROVE  u[i].at \div bucket # u[j].at \div bucket
  <2>1. g[i] # g[j] /\ u[i] = t[g[i]] /\ u[j] = t[g[j]]
    BY <1>4, <1>8 DEF Places
  <2>2. g[i] \in Band(t, r, lower, upper) /\ g[j] \in Band(t, r, lower, upper)
    BY <1>2, <1>5, <1>8, <2>1
  <2> QED
    BY <1>1, <1>5, <2>1, <2>2 DEF Spared
<1>9. g \in [DOMAIN u -> DOMAIN t]
  BY <1>5
<1> QED
  BY <1>3, <1>6, <1>7, <1>4, <1>8, <1>9

----------------------------------------------------------------------------
(* What the steps do.                                                      *)

\* A flush adds a row and its event.
Flushed ==
  \E x \in SnapshotRow :
    /\ rows' = Append(rows, x) /\ written' = Append(written, x) /\ x.run = run /\ x.at = now - lag
    /\ log' = log \o Batch(x.seq)
    /\ UNCHANGED <<now, lag, run>>
    /\ maint' = Idle \/ maint' = [now |-> now, left |-> 4]

\* The other steps leave the tables, and the pruning too unless they break it off.
Untouched ==
  /\ UNCHANGED <<rows, log, written, lag>> /\ now' \in {now, now + 1} /\ run' \in RunIDs
  /\ \/ maint' = Idle
     \/ maint' = maint /\ run' = run /\ (maint.left = 0 \/ now' = now)

\* Every step is a flush, a statement of the pruning, a reset of the run, or leaves the tables.
LEMMA StepKinds ==
  ASSUME TypeOK, [BackupNext]_backupVars
  PROVE  Flushed \/ Statement \/ ResetRunData \/ Untouched
<1>1. ASSUME NEW t \in Ticks, WriteBackup(t, t * now) PROVE Flushed
  <2>1. PICK x : x = Row(t, t * now)
    OBVIOUS
  <2>2. t \in Nat /\ t * now \in Nat /\ now - lag \in Nat
    BY BackupAssumption DEF TypeOK
  <2>3. x \in SnapshotRow /\ x.run = run /\ x.at = now - lag /\ x.seq = t * now
    BY <2>1, <2>2 DEF Row, SnapshotRow, TypeOK
  <2>4. /\ rows' = Append(rows, x) /\ written' = Append(written, x) /\ log' = log \o Batch(x.seq)
        /\ UNCHANGED <<now, lag, run>>
    BY <1>1, <2>1, <2>3 DEF WriteBackup
  <2>5. maint' = Idle \/ maint' = [now |-> now, left |-> 4]
    BY <1>1 DEF WriteBackup
  <2> QED
    BY <2>3, <2>4, <2>5 DEF Flushed
<1>2. CASE BreakOff
  BY <1>2 DEF BreakOff, Untouched, TypeOK
<1>3. ASSUME NEW r \in RunIDs, Restart(r) PROVE Untouched
  BY <1>3 DEF Restart, Untouched, TypeOK
<1>4. CASE Pass
  BY <1>4 DEF Pass, Untouched, TypeOK
<1>5. CASE UNCHANGED backupVars
  BY <1>5 DEF backupVars, Untouched, TypeOK
<1> QED
  BY <1>1, <1>2, <1>3, <1>4, <1>5 DEF BackupNext

\* A flush with an event adds it to the log.
LEMMA LogGrows ==
  ASSUME TypeOK, NEW seq \in Nat
  PROVE  /\ log \o Batch(seq) \in Seq(EventRow) /\ Held(log) \subseteq Held(log \o Batch(seq))
         /\ seq # 0 => [run |-> run, seq |-> seq, at |-> now - lag] \in Held(log \o Batch(seq))
<1>1. PICK e, b, u, L : /\ e = [run |-> run, seq |-> seq, at |-> now - lag] /\ b = Batch(seq)
                        /\ u = log \o b /\ L = Len(log)
  OBVIOUS
<1>2. e \in EventRow /\ log \in Seq(EventRow)
  <2>1. now - lag \in Nat
    BY DEF TypeOK
  <2> QED
    BY <1>1, <2>1 DEF TypeOK, EventRow
<1>3. CASE seq = 0
  <2>1. b = <<>>
    BY <1>1, <1>3 DEF Batch
  <2>2. u = log
    BY <1>1, <1>2, <2>1
  <2> QED
    BY <1>1, <1>2, <1>3, <2>2
<1>4. CASE seq # 0
  <2>1. b = <<e>>
    BY <1>1, <1>4 DEF Batch
  <2>2. /\ L \in Nat /\ DOMAIN log = 1..L /\ u \in Seq(EventRow) /\ DOMAIN u = 1..(L + 1)
        /\ \A i \in 1..L : u[i] = log[i]
        /\ u[L + 1] = e
    BY <1>1, <1>2, <2>1
  <2>3. \A i \in 1..L : i \in 1..(L + 1)
    BY <2>2
  <2>4. L + 1 \in 1..(L + 1)
    BY <2>2
  <2>5. e \in Held(u)
    BY <2>2, <2>4 DEF Held
  <2>6. Held(log) \subseteq Held(u)
    BY <2>2, <2>3 DEF Held
  <2> QED
    BY <1>1, <2>2, <2>5, <2>6
<1> QED
  BY <1>3, <1>4

\* The statement due, at the instant the pruning began.
LEMMA StatementFacts ==
  ASSUME TypeOK, Sound, Statement
  PROVE  /\ maint.now = now /\ maint.left \in 1..4 /\ maint'.now = now /\ maint'.left = maint.left - 1
         /\ maint' \in [now : Nat, left : 0..4] /\ UNCHANGED <<now, lag, run, lastPrune, written>>
         /\ maint.left = 4 => rows' = rows /\ log' = DropOlder(log, run, now - MaxAge)
         /\ maint.left # 4 => log' = log
         /\ maint.left = 3 => rows' = DropOlder(rows, run, now - MaxAge)
         /\ maint.left = 2 => rows' = PruneBand(rows, run, now - MidWindow, now - KeepAllWindow, MidBucket)
         /\ maint.left = 1 => rows' = PruneBand(rows, run, now - MaxAge, now - MidWindow, CoarseBucket)
<1>1. maint \in [now : Nat, left : 0..4] /\ maint.left > 0 /\ maint.now = now
  BY DEF TypeOK, Sound, Statement
<1>2. maint.left \in 1..4 /\ maint.now \in Nat
  BY <1>1
<1>3. maint' = [maint EXCEPT !.left = @ - 1] /\ UNCHANGED <<now, lag, run, lastPrune, written>>
  BY DEF Statement
<1>4. maint'.now = now /\ maint'.left = maint.left - 1 /\ maint' \in [now : Nat, left : 0..4]
  BY <1>1, <1>2, <1>3
<1>5. /\ log' = IF maint.left = 4 THEN DropOlder(log, run, now - MaxAge) ELSE log
      /\ rows' = CASE maint.left = 4 -> rows
                  [] maint.left = 3 -> DropOlder(rows, run, now - MaxAge)
                  [] maint.left = 2 -> PruneBand(rows, run, now - MidWindow, now - KeepAllWindow, MidBucket)
                  [] maint.left = 1 -> PruneBand(rows, run, now - MaxAge, now - MidWindow, CoarseBucket)
  BY <1>1 DEF Statement
<1>6. maint.left = 3 => rows' = DropOlder(rows, run, now - MaxAge)
  BY <1>5
<1>7. maint.left = 2 => rows' = PruneBand(rows, run, now - MidWindow, now - KeepAllWindow, MidBucket)
  BY <1>5
<1>8. maint.left = 1 => rows' = PruneBand(rows, run, now - MaxAge, now - MidWindow, CoarseBucket)
  BY <1>5
<1>9. maint.left = 4 => rows' = rows /\ log' = DropOlder(log, run, now - MaxAge)
  BY <1>5
<1>10. maint.left # 4 => log' = log
  BY <1>5
<1> QED
  BY <1>1, <1>2, <1>3, <1>4, <1>6, <1>7, <1>8, <1>9, <1>10

\* What the rows after a statement are, and which ones went.
LEMMA PrunedFacts ==
  ASSUME TypeOK, Sound, Statement
  PROVE  /\ rows' \in Seq(SnapshotRow) /\ log' \in Seq(EventRow)
         /\ Held(rows') \subseteq Held(rows)
         /\ \A e \in Held(log) : e \notin Held(log') => e.run = run /\ e.at < now - MaxAge
         /\ \A y \in Held(rows) : y \notin Held(rows') => y.run = run /\
              \/ maint.left = 3 /\ y.at < now - MaxAge
              \/ maint.left = 2 /\ InMid(y, now)
                    /\ \E z \in Held(rows') : InMid(z, now) /\ z.at >= y.at /\ z.at \div MidBucket = y.at \div MidBucket
              \/ maint.left = 1 /\ InOld(y, now)
                    /\ \E z \in Held(rows') : InOld(z, now) /\ z.at >= y.at
                                                /\ z.at \div CoarseBucket = y.at \div CoarseBucket
<1>1. /\ maint.left \in 1..4
      /\ maint.left = 4 => rows' = rows /\ log' = DropOlder(log, run, now - MaxAge)
      /\ maint.left # 4 => log' = log
      /\ maint.left = 3 => rows' = DropOlder(rows, run, now - MaxAge)
      /\ maint.left = 2 => rows' = PruneBand(rows, run, now - MidWindow, now - KeepAllWindow, MidBucket)
      /\ maint.left = 1 => rows' = PruneBand(rows, run, now - MaxAge, now - MidWindow, CoarseBucket)
  BY StatementFacts
<1>2. /\ rows \in Seq(SnapshotRow) /\ log \in Seq(EventRow)
      /\ now - MaxAge \in Int /\ now - MidWindow \in Int /\ now - KeepAllWindow \in Int
  BY BackupAssumption DEF TypeOK
<1>3. log' \in Seq(EventRow) /\ \A e \in Held(log) : e \notin Held(log') => e.run = run /\ e.at < now - MaxAge
  BY <1>1, <1>2, HeldYounger
<1>4. CASE maint.left = 4
  BY <1>1, <1>2, <1>3, <1>4
<1>5. CASE maint.left = 3
  <2>1. /\ rows' \in Seq(SnapshotRow)
        /\ \A y : y \in Held(rows') <=> y \in Held(rows) /\ ~(y.run = run /\ y.at < now - MaxAge)
    BY <1>1, <1>2, <1>5, HeldYounger
  <2> QED
    BY <1>3, <1>5, <2>1
<1>6. CASE maint.left = 2
  <2>1. PICK u, a, b : u = PruneBand(rows, run, a, b, MidBucket) /\ a = now - MidWindow /\ b = now - KeepAllWindow
    OBVIOUS
  <2>4. a \in Int /\ b \in Int
    BY <1>2, <2>1
  <2>2. /\ u \in Seq(SnapshotRow) /\ Held(u) \subseteq Held(rows)
        /\ \A y \in Held(rows) : y \notin Held(u) =>
              /\ y.run = run /\ y.at >= a /\ y.at < b
              /\ \E z \in Held(u) : /\ z.run = run /\ z.at >= a /\ z.at < b
                                    /\ z.at \div MidBucket = y.at \div MidBucket /\ z.at >= y.at
    BY <1>2, <2>1, <2>4, HeldBand
  <2>3. rows' = u
    BY <1>1, <1>6, <2>1
  <2> QED
    BY <1>3, <1>6, <2>1, <2>2, <2>3 DEF InMid
<1>7. CASE maint.left = 1
  <2>1. PICK u, a, b : u = PruneBand(rows, run, a, b, CoarseBucket) /\ a = now - MaxAge /\ b = now - MidWindow
    OBVIOUS
  <2>4. a \in Int /\ b \in Int
    BY <1>2, <2>1
  <2>2. /\ u \in Seq(SnapshotRow) /\ Held(u) \subseteq Held(rows)
        /\ \A y \in Held(rows) : y \notin Held(u) =>
              /\ y.run = run /\ y.at >= a /\ y.at < b
              /\ \E z \in Held(u) : /\ z.run = run /\ z.at >= a /\ z.at < b
                                    /\ z.at \div CoarseBucket = y.at \div CoarseBucket /\ z.at >= y.at
    BY <1>2, <2>1, <2>4, HeldBand
  <2>3. rows' = u
    BY <1>1, <1>7, <2>1
  <2> QED
    BY <1>3, <1>7, <2>1, <2>2, <2>3 DEF InOld
<1> QED
  BY <1>1, <1>4, <1>5, <1>6, <1>7

\* A claim to prune is an instant.
LEMMA BackupClaims ==
  ASSUME TypeOK, [BackupNext]_backupVars
  PROVE  lastPrune' \in [RunIDs -> Nat]
<1>1. lastPrune \in [RunIDs -> Nat] /\ now \in Nat /\ run \in RunIDs
  BY DEF TypeOK
<1>2. Claimed(lastPrune) \in [RunIDs -> Nat] /\ [q \in RunIDs |-> 0] \in [RunIDs -> Nat]
  BY <1>1 DEF Claimed
<1> QED
  BY <1>1, <1>2 DEF BackupNext, WriteBackup, Statement, BreakOff, Pass, ResetRunData, Restart, backupVars

----------------------------------------------------------------------------
(* The invariant is kept.                                                  *)

\* Every step keeps the types and what is sound.
LEMMA BackupTypeStep ==
  ASSUME TypeOK, Sound, [BackupNext]_backupVars
  PROVE  TypeOK' /\ Sound'
<1>1. CASE Flushed
  <2>1. PICK x \in SnapshotRow :
           /\ rows' = Append(rows, x) /\ written' = Append(written, x) /\ x.run = run /\ x.at = now - lag
           /\ log' = log \o Batch(x.seq)
           /\ UNCHANGED <<now, lag, run>>
           /\ maint' = Idle \/ maint' = [now |-> now, left |-> 4]
    BY <1>1 DEF Flushed
  <2>2. x.seq \in Nat
    BY DEF SnapshotRow
  <2>3. /\ rows' \in Seq(SnapshotRow) /\ written' \in Seq(SnapshotRow)
        /\ \A y : y \in Held(rows') <=> y \in Held(rows) \/ y = x
        /\ \A y : y \in Held(written') <=> y \in Held(written) \/ y = x
    BY <2>1, HeldAppended DEF TypeOK
  <2>4. log' \in Seq(EventRow)
    BY <2>1, <2>2, LogGrows
  <2>5. maint' \in [now : Nat, left : 0..4] /\ (maint'.left > 0 => maint'.now = now)
    <3>1. now \in Nat
      BY DEF TypeOK
    <3> QED
      BY <2>1, <3>1 DEF Idle
  <2>6. lastPrune' \in [RunIDs -> Nat]
    BY BackupClaims
  <2>7. x.at <= now
    BY <2>1 DEF TypeOK
  <2> QED
    BY <2>1, <2>3, <2>4, <2>5, <2>6, <2>7 DEF TypeOK, Sound
<1>2. CASE Statement
  <2>1. /\ maint'.now = now /\ maint' \in [now : Nat, left : 0..4] /\ UNCHANGED <<now, lag, run, lastPrune, written>>
    BY <1>2, StatementFacts
  <2>2. rows' \in Seq(SnapshotRow) /\ log' \in Seq(EventRow) /\ Held(rows') \subseteq Held(rows)
    BY <1>2, PrunedFacts
  <2> QED
    BY <2>1, <2>2 DEF TypeOK, Sound
<1>3. CASE ResetRunData
  <2>1. /\ rows' = OfOthers(rows) /\ log' = OfOthers(log) /\ written' = OfOthers(written) /\ maint' = Idle
        /\ UNCHANGED <<now, lag, run, lastPrune>>
    BY <1>3 DEF ResetRunData
  <2>2. /\ rows' \in Seq(SnapshotRow) /\ written' \in Seq(SnapshotRow) /\ log' \in Seq(EventRow)
        /\ \A y : y \in Held(rows') <=> y \in Held(rows) /\ y.run # run
        /\ \A y : y \in Held(written') <=> y \in Held(written) /\ y.run # run
    BY <2>1, HeldOthers DEF TypeOK
  <2>3. maint' \in [now : Nat, left : 0..4] /\ ~(maint'.left > 0)
    BY <2>1 DEF Idle
  <2> QED
    BY <2>1, <2>2, <2>3 DEF TypeOK, Sound
<1>4. CASE Untouched
  <2>1. /\ rows' = rows /\ log' = log /\ written' = written /\ lag' = lag
        /\ now' \in {now, now + 1} /\ run' \in RunIDs
        /\ \/ maint' = Idle
           \/ maint' = maint /\ run' = run /\ (maint.left = 0 \/ now' = now)
    BY <1>4 DEF Untouched
  <2>2. maint' \in [now : Nat, left : 0..4] /\ (maint'.left > 0 => maint'.now = now')
    <3>1. CASE maint' = Idle
      BY <3>1 DEF Idle
    <3>2. CASE maint' = maint /\ (maint.left = 0 \/ now' = now)
      BY <3>2 DEF TypeOK, Sound
    <3> QED
      BY <2>1, <3>1, <3>2
  <2>3. now' \in Nat \ {0} /\ lag' < now' /\ now' >= now
    BY <2>1 DEF TypeOK
  <2>4. \A w \in Held(written') : w.at <= now'
    <3>1. ASSUME NEW w \in Held(written) PROVE w.at <= now'
      <4>1. PICK i \in DOMAIN written : w = written[i]
        BY DEF Held
      <4>2. w.at \in Nat /\ w.at <= now
        BY <4>1, RowFields DEF TypeOK, Sound
      <4> QED
        BY <2>3, <4>2 DEF TypeOK
    <3> QED
      BY <2>1, <3>1
  <2>5. lastPrune' \in [RunIDs -> Nat]
    BY BackupClaims
  <2> QED
    BY <2>1, <2>2, <2>3, <2>4, <2>5 DEF TypeOK, Sound
<1> QED
  BY <1>1, <1>2, <1>3, <1>4, StepKinds

\* More rows keep as much, and less is asked of them as time goes on.
LEMMA KeptMore ==
  ASSUME NEW w, w.at \in Nat, NEW S, NEW T, S \subseteq T, NEW n \in Nat, NEW m \in Nat, n <= m, Kept(w, S, n)
  PROVE  Kept(w, T, m)
<1>1. PICK a : a = w.at
  OBVIOUS
<1>2. /\ a >= m - MaxAge => a >= n - MaxAge
      /\ a >= m - MidWindow => a >= n - MidWindow
      /\ a >= m - KeepAllWindow => a >= n - KeepAllWindow
  BY <1>1, BackupAssumption
<1> QED
  BY <1>1, <1>2 DEF Kept

\* The fields of what a table of snapshots holds.
LEMMA HeldFields ==
  ASSUME NEW t \in Seq(SnapshotRow), NEW y \in Held(t)
  PROVE  y \in SnapshotRow /\ y.at \in Nat /\ y.run \in RunIDs
<1>1. PICK i \in DOMAIN t : y = t[i]
  BY DEF Held
<1> QED
  BY <1>1, RowFields

\* A statement of the pruning keeps what must be kept of a row written.
LEMMA PrunedKept ==
  ASSUME TypeOK, Sound, Statement, NEW w \in Held(written), Kept(w, Held(rows), now)
  PROVE  Kept(w, Held(rows'), now)
<1>1. PICK S, T, n : S = Held(rows) /\ T = Held(rows') /\ n = now
  OBVIOUS
<1>2. PICK a : a = w.at
  OBVIOUS
<1>3. /\ a \in Nat /\ n \in Nat /\ MaxAge \in Nat /\ MidWindow \in Nat /\ KeepAllWindow \in Nat
      /\ KeepAllWindow <= MidWindow /\ MidWindow <= MaxAge
  BY <1>1, <1>2, HeldFields, BackupAssumption DEF TypeOK
<1>4. T \subseteq S /\ \A y \in S : y \notin T => y.run = run /\
              \/ maint.left = 3 /\ y.at < n - MaxAge
              \/ maint.left = 2 /\ InMid(y, n)
                    /\ \E z \in T : InMid(z, n) /\ z.at >= y.at /\ z.at \div MidBucket = y.at \div MidBucket
              \/ maint.left = 1 /\ InOld(y, n)
                    /\ \E z \in T : InOld(z, n) /\ z.at >= y.at /\ z.at \div CoarseBucket = y.at \div CoarseBucket
  BY <1>1, PrunedFacts
<1>5. \A y \in S : y.at \in Nat
  BY <1>1, HeldFields DEF TypeOK
<1>6. ASSUME a >= n - MaxAge PROVE \E x \in T : Covers(x, w, CoarseBucket)
  <2>1. PICK x \in S : Covers(x, w, CoarseBucket)
    BY <1>1, <1>2, <1>6 DEF Kept
  <2>2. x.at \in Nat /\ x.at >= a /\ x.run = w.run /\ x.at \div CoarseBucket = w.at \div CoarseBucket
    BY <1>2, <1>5, <2>1 DEF Covers
  <2>3. ~(x.at < n - MaxAge)
    BY <1>3, <1>6, <2>2
  <2>4. ASSUME NEW z \in T, z.run = run, x.run = run, z.at >= x.at, z.at \div CoarseBucket = x.at \div CoarseBucket
        PROVE  Covers(z, w, CoarseBucket)
    <3>1. z.at \in Nat
      BY <1>4, <1>5
    <3>2. z.at >= a
      BY <1>3, <2>2, <2>4, <3>1
    <3> QED
      BY <1>2, <2>2, <2>4, <3>2 DEF Covers
  <2>5. ASSUME NEW z \in T, z.at \div MidBucket = x.at \div MidBucket
        PROVE  z.at \div CoarseBucket = x.at \div CoarseBucket
    <3>1. z.at \in Nat
      BY <1>4, <1>5
    <3> QED
      BY <2>2, <2>5, <3>1, BucketsNest
  <2>6. CASE x \in T
    BY <2>1, <2>6
  <2>7. CASE x \notin T
    <3>1. PICK z \in T : /\ z.run = run /\ x.run = run /\ z.at >= x.at
                         /\ \/ z.at \div MidBucket = x.at \div MidBucket
                            \/ z.at \div CoarseBucket = x.at \div CoarseBucket
      BY <1>4, <2>3, <2>7 DEF InMid, InOld
    <3> QED
      BY <2>4, <2>5, <3>1
  <2> QED
    BY <2>6, <2>7
<1>7. ASSUME a >= n - MidWindow PROVE \E x \in T : Covers(x, w, MidBucket)
  <2>1. PICK x \in S : Covers(x, w, MidBucket)
    BY <1>1, <1>2, <1>7 DEF Kept
  <2>2. x.at \in Nat /\ x.at >= a /\ x.run = w.run /\ x.at \div MidBucket = w.at \div MidBucket
    BY <1>2, <1>5, <2>1 DEF Covers
  <2>3. ~(x.at < n - MaxAge) /\ ~InOld(x, n)
    BY <1>3, <1>7, <2>2 DEF InOld
  <2>4. CASE x \in T
    BY <2>1, <2>4
  <2>5. CASE x \notin T
    <3>1. PICK z \in T : z.run = run /\ x.run = run /\ z.at >= x.at /\ z.at \div MidBucket = x.at \div MidBucket
      BY <1>4, <2>3, <2>5 DEF InMid
    <3>2. z.at \in Nat /\ z.at >= a
      BY <1>3, <1>4, <1>5, <2>2, <3>1
    <3>3. Covers(z, w, MidBucket)
      BY <1>2, <2>2, <3>1, <3>2 DEF Covers
    <3> QED
      BY <3>3
  <2> QED
    BY <2>4, <2>5
<1>8. ASSUME a >= n - KeepAllWindow PROVE w \in T
  <2>1. w \in S
    BY <1>1, <1>2, <1>8 DEF Kept
  <2>2. ~(w.at < n - MaxAge) /\ ~InOld(w, n) /\ ~InMid(w, n)
    BY <1>2, <1>3, <1>8 DEF InOld, InMid
  <2> QED
    BY <1>4, <2>1, <2>2
<1> QED
  BY <1>1, <1>2, <1>6, <1>7, <1>8 DEF Kept

\* Every step leaves of each row written what must still be there.
LEMMA HistoryStep ==
  ASSUME TypeOK, Sound, History, [BackupNext]_backupVars
  PROVE  History'
<1>1. CASE Flushed
  <2>1. PICK x \in SnapshotRow : rows' = Append(rows, x) /\ written' = Append(written, x) /\ now' = now
    BY <1>1 DEF Flushed
  <2>2. /\ \A y : y \in Held(rows') <=> y \in Held(rows) \/ y = x
        /\ \A y : y \in Held(written') <=> y \in Held(written) \/ y = x
    BY <2>1, HeldAppended DEF TypeOK
  <2>3. ASSUME NEW w \in Held(written) PROVE Kept(w, Held(rows'), now)
    <3>1. w.at \in Nat /\ now \in Nat /\ Held(rows) \subseteq Held(rows')
      BY <2>2, HeldFields DEF TypeOK
    <3>2. now <= now /\ Kept(w, Held(rows), now)
      BY <3>1 DEF History
    <3> QED
      BY <3>1, <3>2, KeptMore
  <2>4. Kept(x, Held(rows'), now)
    <3>1. x.at \in Nat /\ x \in Held(rows')
      BY <2>2 DEF SnapshotRow
    <3>2. x.at >= x.at
      BY <3>1
    <3> QED
      BY <3>1, <3>2 DEF Kept, Covers
  <2> QED
    BY <2>1, <2>2, <2>3, <2>4 DEF History
<1>2. CASE Statement
  <2>1. now' = now /\ written' = written
    BY <1>2, StatementFacts
  <2>2. \A w \in Held(written) : Kept(w, Held(rows'), now)
    BY <1>2, PrunedKept DEF History
  <2> QED
    BY <2>1, <2>2 DEF History
<1>3. CASE ResetRunData
  <2>1. rows' = OfOthers(rows) /\ written' = OfOthers(written) /\ now' = now
    BY <1>3 DEF ResetRunData
  <2>2. /\ \A y : y \in Held(rows') <=> y \in Held(rows) /\ y.run # run
        /\ \A y : y \in Held(written') <=> y \in Held(written) /\ y.run # run
    BY <2>1, HeldOthers DEF TypeOK
  <2>3. ASSUME NEW w \in Held(written), w.run # run PROVE Kept(w, Held(rows'), now)
    BY <2>2, <2>3 DEF History, Kept, Covers
  <2> QED
    BY <2>1, <2>2, <2>3 DEF History
<1>4. CASE Untouched
  <2>1. rows' = rows /\ written' = written /\ now' \in {now, now + 1}
    BY <1>4 DEF Untouched
  <2>2. now \in Nat /\ now' \in Nat /\ now <= now'
    BY <2>1 DEF TypeOK
  <2>3. ASSUME NEW w \in Held(written) PROVE Kept(w, Held(rows'), now')
    <3>1. w.at \in Nat /\ Kept(w, Held(rows), now) /\ Held(rows) \subseteq Held(rows')
      BY <2>1, HeldFields DEF TypeOK, History
    <3> QED
      BY <2>2, <3>1, KeptMore
  <2> QED
    BY <2>1, <2>3 DEF History
<1> QED
  BY <1>1, <1>2, <1>3, <1>4, StepKinds

\* Every step leaves the event a row names.
LEMMA CutsStep ==
  ASSUME TypeOK, Sound, Cuts, [BackupNext]_backupVars
  PROVE  Cuts'
<1>1. CASE Flushed
  <2>1. PICK x \in SnapshotRow :
           /\ rows' = Append(rows, x) /\ x.run = run /\ x.at = now - lag
           /\ log' = log \o Batch(x.seq) /\ now' = now
    BY <1>1 DEF Flushed
  <2>2. \A y : y \in Held(rows') <=> y \in Held(rows) \/ y = x
    BY <2>1, HeldAppended DEF TypeOK
  <2>3. x.seq \in Nat
    BY DEF SnapshotRow
  <2>4. /\ Held(log) \subseteq Held(log')
        /\ x.seq # 0 => [run |-> run, seq |-> x.seq, at |-> now - lag] \in Held(log')
    BY <2>1, <2>3, LogGrows
  <2>5. x.seq # 0 => EventOf(x) \in Held(log')
    BY <2>1, <2>4 DEF EventOf
  <2> QED
    BY <2>1, <2>2, <2>4, <2>5 DEF Cuts
<1>2. CASE Statement
  <2>1. now' = now
    BY <1>2, StatementFacts
  <2>2. /\ Held(rows') \subseteq Held(rows)
        /\ \A e \in Held(log) : e \notin Held(log') => e.run = run /\ e.at < now - MaxAge
    BY <1>2, PrunedFacts
  <2>3. ASSUME NEW s \in Held(rows), s.seq # 0, s.at >= now - MaxAge PROVE EventOf(s) \in Held(log')
    <3>1. s.at \in Nat /\ now - MaxAge \in Int
      BY HeldFields, BackupAssumption DEF TypeOK
    <3>2. ~(s.at < now - MaxAge) /\ EventOf(s).at = s.at
      BY <2>3, <3>1 DEF EventOf
    <3> QED
      BY <2>2, <2>3, <3>2 DEF Cuts
  <2> QED
    BY <2>1, <2>2, <2>3 DEF Cuts
<1>3. CASE ResetRunData
  <2>1. rows' = OfOthers(rows) /\ log' = OfOthers(log) /\ now' = now
    BY <1>3 DEF ResetRunData
  <2>2. /\ \A y : y \in Held(rows') <=> y \in Held(rows) /\ y.run # run
        /\ \A e : e \in Held(log') <=> e \in Held(log) /\ e.run # run
    BY <2>1, HeldOthers DEF TypeOK
  <2>3. \A s : EventOf(s).run = s.run
    BY DEF EventOf
  <2> QED
    BY <2>1, <2>2, <2>3 DEF Cuts
<1>4. CASE Untouched
  <2>1. rows' = rows /\ log' = log /\ now' \in {now, now + 1}
    BY <1>4 DEF Untouched
  <2>2. ASSUME NEW s \in Held(rows), s.at >= now' - MaxAge PROVE s.at >= now - MaxAge
    <3>1. s.at \in Nat /\ now \in Nat /\ MaxAge \in Nat
      BY HeldFields, BackupAssumption DEF TypeOK
    <3> QED
      BY <2>1, <2>2, <3>1
  <2> QED
    BY <2>1, <2>2 DEF Cuts
<1> QED
  BY <1>1, <1>2, <1>3, <1>4, StepKinds

\* Each statement thins its part, and none of the later ones undoes it.
LEMMA ThinningStep ==
  ASSUME TypeOK, Sound, Thinning, [BackupNext]_backupVars
  PROVE  Thinning'
<1>1. now \in Nat \ {0} /\ maint \in [now : Nat, left : 0..4]
  BY DEF TypeOK
<1>2. CASE maint' = Idle
  BY <1>2 DEF Idle, Thinning
<1>3. CASE Flushed
  <2>1. maint' = Idle \/ maint' = [now |-> now, left |-> 4]
    BY <1>3 DEF Flushed
  <2>2. CASE maint' = [now |-> now, left |-> 4]
    BY <2>2 DEF Thinning
  <2> QED
    BY <1>2, <2>1, <2>2
<1>4. CASE ResetRunData
  BY <1>2, <1>4 DEF ResetRunData
<1>5. CASE Untouched
  <2>1. rows' = rows /\ (maint' = Idle \/ (maint' = maint /\ run' = run))
    BY <1>5 DEF Untouched
  <2>2. CASE maint' = maint /\ run' = run
    BY <2>1, <2>2 DEF Thinning, NoneTooOld, MidThinned, OldThinned, InMid, InOld
  <2> QED
    BY <1>2, <2>1, <2>2
<1>6. CASE Statement
  <2>1. PICK n, l, u : n = now /\ l = maint.left /\ u = rows'
    OBVIOUS
  <2>2. /\ maint.now = n /\ maint'.now = n /\ maint'.left = l - 1 /\ l \in 1..4 /\ run' = run /\ n > 0 /\ n \in Nat
        /\ l = 3 => u = DropOlder(rows, run, n - MaxAge)
        /\ l = 2 => u = PruneBand(rows, run, n - MidWindow, n - KeepAllWindow, MidBucket)
        /\ l = 1 => u = PruneBand(rows, run, n - MaxAge, n - MidWindow, CoarseBucket)
    BY <1>1, <1>6, <2>1, StatementFacts
  <2>3. /\ rows \in Seq(SnapshotRow) /\ u \in Seq(SnapshotRow) /\ Held(u) \subseteq Held(rows)
        /\ \A y \in Held(u) : y.at \in Nat
    BY <1>6, <2>1, PrunedFacts, HeldFields DEF TypeOK
  <2>4. PICK a, b, c : a = n - MaxAge /\ b = n - MidWindow /\ c = n - KeepAllWindow
    OBVIOUS
  <2>5. a \in Int /\ b \in Int /\ c \in Int
    BY <2>2, <2>4, BackupAssumption
  <2>6. l <= 2 => NoneTooOld(n)
    BY <2>1, <2>2 DEF Thinning
  <2>7. l <= 3 => \A y \in Held(u) : y.run = run => y.at >= a
    <3>1. CASE l = 3
      <4>1. \A y \in Held(u) : ~(y.run = run /\ y.at < a)
        BY <2>2, <2>3, <2>4, <3>1, HeldYounger
      <4> QED
        BY <2>3, <2>5, <4>1
    <3>2. CASE l <= 2
      BY <2>3, <2>4, <2>6, <3>2 DEF NoneTooOld
    <3> QED
      BY <2>2, <3>1, <3>2
  <2>8. l = 2 => \A i, j \in DOMAIN u :
           (i # j /\ InMid(u[i], n) /\ InMid(u[j], n)) => u[i].at \div MidBucket # u[j].at \div MidBucket
    <3>1. SUFFICES ASSUME l = 2, NEW i \in DOMAIN u, NEW j \in DOMAIN u, i # j, InMid(u[i], n), InMid(u[j], n)
                   PROVE  u[i].at \div MidBucket # u[j].at \div MidBucket
      OBVIOUS
    <3>2. u = PruneBand(rows, run, b, c, MidBucket)
      BY <2>2, <2>4, <3>1
    <3>3. /\ u[i].run = run /\ u[i].at >= b /\ u[i].at < c
          /\ u[j].run = run /\ u[j].at >= b /\ u[j].at < c
      BY <2>4, <3>1 DEF InMid
    <3> QED
      BY <2>3, <2>5, <3>1, <3>2, <3>3, HeldBand
  <2>9. l = 1 => \A i, j \in DOMAIN u :
           (i # j /\ InMid(u[i], n) /\ InMid(u[j], n)) => u[i].at \div MidBucket # u[j].at \div MidBucket
    <3>1. SUFFICES ASSUME l = 1, NEW i \in DOMAIN u, NEW j \in DOMAIN u, i # j, InMid(u[i], n), InMid(u[j], n)
                   PROVE  u[i].at \div MidBucket # u[j].at \div MidBucket
      OBVIOUS
    <3>2. u = PruneBand(rows, run, a, b, CoarseBucket)
      BY <2>2, <2>4, <3>1
    <3>3. PICK g \in [DOMAIN u -> DOMAIN rows] : Places(g, u, rows)
      BY <2>3, <2>5, <3>2, HeldBand
    <3>4. g[i] # g[j] /\ u[i] = rows[g[i]] /\ u[j] = rows[g[j]] /\ g[i] \in DOMAIN rows /\ g[j] \in DOMAIN rows
      BY <3>1, <3>3 DEF Places
    <3>5. MidThinned(n)
      BY <2>1, <2>2, <3>1 DEF Thinning
    <3> QED
      BY <3>1, <3>4, <3>5 DEF MidThinned
  <2>10. l = 1 => \A i, j \in DOMAIN u :
           (i # j /\ InOld(u[i], n) /\ InOld(u[j], n)) => u[i].at \div CoarseBucket # u[j].at \div CoarseBucket
    <3>1. SUFFICES ASSUME l = 1, NEW i \in DOMAIN u, NEW j \in DOMAIN u, i # j, InOld(u[i], n), InOld(u[j], n)
                   PROVE  u[i].at \div CoarseBucket # u[j].at \div CoarseBucket
      OBVIOUS
    <3>2. u = PruneBand(rows, run, a, b, CoarseBucket)
      BY <2>2, <2>4, <3>1
    <3>3. u[i] \in Held(u) /\ u[j] \in Held(u)
      BY DEF Held
    <3>4. /\ u[i].run = run /\ u[i].at >= a /\ u[i].at < b
          /\ u[j].run = run /\ u[j].at >= a /\ u[j].at < b
      BY <2>4, <2>7, <3>1, <3>3 DEF InOld
    <3> QED
      BY <2>3, <2>5, <3>1, <3>2, <3>4, HeldBand
  <2>11. maint'.left <= 2 => NoneTooOld(n)'
    BY <2>1, <2>2, <2>4, <2>7 DEF NoneTooOld
  <2>12. maint'.left <= 1 => MidThinned(n)'
    BY <2>1, <2>2, <2>8, <2>9 DEF MidThinned, InMid
  <2>13. maint'.left = 0 => OldThinned(n)'
    BY <2>1, <2>2, <2>10 DEF OldThinned, InOld
  <2> QED
    BY <2>2, <2>11, <2>12, <2>13 DEF Thinning
<1> QED
  BY <1>3, <1>4, <1>5, <1>6, StepKinds

----------------------------------------------------------------------------
(* What holds of every behaviour.                                          *)

\* Two empty tables and nothing under way.
LEMMA BackupBegins ==
  ASSUME BackupInit
  PROVE  BackupInv
<1>1. run \in RunIDs
  BY BackupAssumption DEF BackupInit
<1>2. lag \in Nat /\ now = 1 + lag
  BY BackupAssumption DEF BackupInit
<1>3. now \in Nat \ {0} /\ lag < now
  BY <1>2
<1>4. rows = <<>> /\ written = <<>> /\ log = <<>> /\ maint = [now |-> 0, left |-> 0]
  BY DEF BackupInit, Idle
<1>5. lastPrune \in [RunIDs -> Nat]
  BY DEF BackupInit
<1>6. TypeOK
  BY <1>1, <1>2, <1>3, <1>4, <1>5 DEF TypeOK
<1>7. Held(<<>>) = {}
  BY DEF Held
<1>8. Sound /\ History /\ Cuts /\ Thinning
  BY <1>4, <1>7 DEF Sound, History, Cuts, Thinning
<1> QED
  BY <1>6, <1>8 DEF BackupInv

\* The inductive invariant: history is kept statement by statement, so it does not matter where
\* the pruning breaks off (PruneSnapshots).
THEOREM BackupInvariant == Spec => []BackupInv
<1>1. BackupInit => BackupInv
  BY BackupBegins
<1>2. BackupInv /\ [BackupNext]_backupVars => BackupInv'
  BY BackupTypeStep, HistoryStep, CutsStep, ThinningStep DEF BackupInv
<1> QED
  BY <1>1, <1>2, PTL DEF Spec

\* The history thinned, row by row of what was written.
LEMMA HistoryKeptHolds ==
  ASSUME BackupInv
  PROVE  HistoryKept
<1> SUFFICES ASSUME NEW i \in DOMAIN written
    PROVE  LET w == written[i]
               Covers_(x, width) == x.run = w.run /\ x.at >= w.at /\ x.at \div width = w.at \div width
               Held_(width) == \E j \in DOMAIN rows : Covers_(rows[j], width)
           IN /\ w.at >= now - MaxAge => Held_(CoarseBucket)
              /\ w.at >= now - MidWindow => Held_(MidBucket)
              /\ w.at >= now - KeepAllWindow => w \in {rows[j] : j \in DOMAIN rows}
  BY DEF HistoryKept
<1>1. Kept(written[i], Held(rows), now)
  BY DEF BackupInv, History, Held
<1> QED
  BY <1>1 DEF Kept, Held, Covers

\* LatestSnapshot finds the rows of a run's last instant, and one if the run has any.
LEMMA LatestIsLast ==
  ASSUME NEW t \in Seq(SnapshotRow), NEW r
  PROVE  /\ \A y \in Latest(t, r) : y \in Held(t) /\ y.run = r /\ \A z \in Held(t) : z.run = r => z.at <= y.at
         /\ (\E z \in Held(t) : z.run = r) => Latest(t, r) # {}
<1> DEFINE C == {i \in DOMAIN t : t[i].run = r}
           Behind(j, i) == t[j].at < t[i].at \/ (t[j].at = t[i].at /\ j <= i)
           R == {p \in C \X C : Behind(p[2], p[1])}
<1>1. Latest(t, r) = {t[i] : i \in {k \in C : \A j \in C : Behind(j, k)}}
  BY DEF Latest
<1>2. \A i \in C : i \in DOMAIN t /\ i \in Nat /\ t[i].at \in Nat /\ t[i].run = r
  BY RowFields
<1>3. \A z \in Held(t) : z.run = r => \E i \in C : z = t[i]
  BY DEF Held
<1>4. IsFiniteSet(C)
  <2>1. PICK L : L = Len(t)
    OBVIOUS
  <2>2. L \in Nat /\ DOMAIN t = 1..L
    BY <2>1
  <2>3. IsFiniteSet(1..L) /\ C \subseteq 1..L
    BY <2>2, FS_Interval
  <2> QED
    BY <2>3, FS_Subset
<1>5. ASSUME NEW y \in Latest(t, r)
      PROVE  y \in Held(t) /\ y.run = r /\ \A z \in Held(t) : z.run = r => z.at <= y.at
  <2>1. PICK i \in C : y = t[i] /\ \A j \in C : Behind(j, i)
    BY <1>1, <1>5
  <2>2. \A j \in C : t[j].at <= t[i].at
    BY <1>2, <2>1
  <2> QED
    BY <1>2, <1>3, <2>1, <2>2 DEF Held
<1>6. ASSUME C # {} PROVE Latest(t, r) # {}
  <2>1. \A x, y \in C : <<x, y>> \in R <=> Behind(y, x)
    OBVIOUS
  <2>2. \A x, y \in C : x # y => Behind(y, x) \/ Behind(x, y)
    BY <1>2
  <2>3. \A x, y, z \in C : Behind(y, x) /\ Behind(z, y) => Behind(z, x)
    BY <1>2
  <2>4. \A x \in C : Behind(x, x)
    BY <1>2
  <2> HIDE DEF C, Behind, R
  <2>5. \A x, y \in C : x # y => <<x, y>> \in R \/ <<y, x>> \in R
    BY <2>1, <2>2
  <2>6. \A x, y, z \in C : <<x, y>> \in R /\ <<y, z>> \in R => <<x, z>> \in R
    BY <2>1, <2>3
  <2>7. \E a \in C : \A b \in C \ {a} : <<a, b>> \in R
    BY <1>4, <1>6, <2>5, <2>6, FirstExists, Zenon
  <2>8. PICK a \in C : \A b \in C \ {a} : <<a, b>> \in R
    BY <2>7
  <2>9. \A b \in C : Behind(b, a)
    BY <2>1, <2>4, <2>8
  <2> QED
    BY <1>1, <2>9
<1> QED
  BY <1>3, <1>5, <1>6

\* The newest row written is covered by a row that is no older and was written too.
LEMMA ResumeIsLastHolds ==
  ASSUME BackupInv
  PROVE  ResumeIsLast
<1>1. SUFFICES ASSUME NEW r \in RunIDs, NEW w \in Latest(written, r), w.at >= now - MaxAge
               PROVE  {x.at : x \in Latest(rows, r)} = {w.at}
  BY DEF ResumeIsLast
<1>2. /\ rows \in Seq(SnapshotRow) /\ written \in Seq(SnapshotRow)
      /\ \A y \in Held(rows) : y \in Held(written) /\ y.at \in Nat
      /\ \A y \in Held(written) : y.at \in Nat
  BY HeldFields DEF BackupInv, TypeOK, Sound
<1>3. w \in Held(written) /\ w.run = r /\ \A z \in Held(written) : z.run = r => z.at <= w.at
  BY <1>1, <1>2, LatestIsLast
<1>4. PICK x \in Held(rows) : x.run = r /\ x.at >= w.at
  BY <1>1, <1>3 DEF BackupInv, History, Kept, Covers
<1>5. x.at = w.at
  BY <1>2, <1>3, <1>4
<1>6. Latest(rows, r) # {}
  BY <1>2, <1>4, LatestIsLast
<1>7. ASSUME NEW y \in Latest(rows, r) PROVE y.at = w.at
  <2>1. y \in Held(rows) /\ y.run = r /\ x.at <= y.at
    BY <1>2, <1>4, LatestIsLast
  <2> QED
    BY <1>2, <1>3, <1>5, <2>1
<1> QED
  BY <1>6, <1>7

\* The events of the rows not too old are there.
LEMMA CutsBackedHolds ==
  ASSUME BackupInv
  PROVE  CutsBacked
<1>1. ASSUME NEW i \in DOMAIN rows, rows[i].seq # 0, rows[i].at >= now - MaxAge
      PROVE  [run |-> rows[i].run, seq |-> rows[i].seq, at |-> rows[i].at] \in {log[j] : j \in DOMAIN log}
  BY <1>1 DEF BackupInv, Cuts, Held, EventOf
<1> QED
  BY <1>1 DEF CutsBacked

\* When no statement is left both bands are thinned.
LEMMA ThinnedHolds ==
  ASSUME BackupInv
  PROVE  Thinned
<1> SUFFICES ASSUME maint.now > 0, maint.left = 0,
                    NEW i \in DOMAIN rows, NEW j \in DOMAIN rows, i # j
    PROVE  /\ InMid(rows[i], maint.now) /\ InMid(rows[j], maint.now) =>
                 rows[i].at \div MidBucket # rows[j].at \div MidBucket
           /\ InOld(rows[i], maint.now) /\ InOld(rows[j], maint.now) =>
                 rows[i].at \div CoarseBucket # rows[j].at \div CoarseBucket
  BY DEF Thinned, InMid, InOld
<1>1. MidThinned(maint.now) /\ OldThinned(maint.now)
  BY DEF BackupInv, Thinning
<1> QED
  BY <1>1 DEF MidThinned, OldThinned

\* Whatever was written, however often pruning ran, broke off or was started over by another
\* process: of each bucket the newest is there until too old, the row to resume from is as new as
\* the last one written, each row's event is there, and a prune carried through leaves no bucket
\* of its bands two rows (PruneSnapshots, WriteBackup, ResetRunData, LatestSnapshot).
THEOREM HistorySoundHolds == Spec => []HistorySound
<1>1. BackupInv => HistorySound
  BY HistoryKeptHolds, ResumeIsLastHolds, ThinnedHolds, CutsBackedHolds DEF HistorySound
<1> QED
  BY <1>1, BackupInvariant, PTL

=============================================================================
