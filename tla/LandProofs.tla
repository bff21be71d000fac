------------------------------ MODULE LandProofs ------------------------------
(***************************************************************************)
(* Proofs about the land, for any map, fixture, rules of the weather,      *)
(* cadences and stages of rot, and for any number of kills, meals, seasons *)
(* and resumes.                                                            *)
(***************************************************************************)
EXTENDS Land, FiniteOrders

End == Stages[Len(Stages)].at

\* The fixture's plants have names of their own, and every carcass, rotting or stranded by a
\* resume, has a number.
Named ==
  /\ IsFiniteSet(DOMAIN objects) /\ seq \in Nat
  /\ IdsOfKind("carcass") \subseteq Nat
  /\ lost.ghosts \subseteq DOMAIN FixturePlants /\ lost.stranded \subseteq IdsOfKind("carcass")

\* What is known of a carcass is what its lot says of it, while it has one.
Ledger ==
  /\ DOMAIN lots \subseteq DOMAIN made
  /\ \A l \in DOMAIN lots :
       lots[l] \in 0..End /\ made[l].age = lots[l] /\ made[l].site = objects[l].site

Weather ==
  /\ cells \in [Coarse -> [terrain : Terrain, frozenFrom : Terrain \cup {None}, wet : Bands]]
  /\ \A c \in Coarse : cells[c].frozenFrom # Ice
  /\ NavFollowsClimate /\ IceRemembers

LandInvariant == Named /\ RegistersAgree /\ Ledger /\ ProductsOnce /\ Weather

-----------------------------------------------------------------------------
(* The numbers objects are given.                                             *)

LEMMA FreshIdFacts ==
  ASSUME IsFiniteSet(DOMAIN objects), seq \in Nat, NEW k \in Nat \ {0}
  PROVE  /\ FreshId(k) \in Nat /\ FreshId(k) > seq /\ FreshId(k) \notin DOMAIN objects
         /\ Cardinality(((seq + 1)..FreshId(k)) \ DOMAIN objects) = k
<1>0. PICK D : D = DOMAIN objects /\ IsFiniteSet(D)
  OBVIOUS
<1> DEFINE free(i) == Cardinality(((seq + 1)..i) \ D)
           S == {i \in Nat : i >= seq /\ free(i) >= k}
           max == seq + k + Cardinality(D)
<1>1. Cardinality(D) \in Nat
  BY <1>0, FS_CardinalityType
<1>2. ASSUME NEW i \in Nat, i >= seq
      PROVE  free(i) \in Nat /\ free(i) >= i - seq - Cardinality(D)
  <2>1. IsFiniteSet((seq + 1)..i) /\ Cardinality((seq + 1)..i) = i - seq
    <3>1. seq + 1 \in Int /\ i \in Int
      BY <1>2
    <3>2. IsFiniteSet((seq + 1)..i) /\ Cardinality((seq + 1)..i) = IF seq + 1 > i THEN 0 ELSE i - (seq + 1) + 1
      BY <3>1, FS_Interval
    <3> QED
      BY <1>2, <3>2
  <2>2. /\ IsFiniteSet(((seq + 1)..i) \ D)
        /\ free(i) = Cardinality((seq + 1)..i) - Cardinality(((seq + 1)..i) \cap D)
    BY <2>1, FS_Difference
  <2>3. IsFiniteSet(((seq + 1)..i) \cap D) /\ Cardinality(((seq + 1)..i) \cap D) <= Cardinality(D)
    BY <1>0, FS_Intersection
  <2>4. Cardinality(((seq + 1)..i) \cap D) \in Nat /\ free(i) \in Nat
    BY <2>2, <2>3, FS_CardinalityType
  <2> QED
    BY <1>1, <1>2, <2>1, <2>2, <2>3, <2>4
<1>3. free(seq) = 0
  <2>1. ((seq + 1)..seq) \ D = {}
    OBVIOUS
  <2> QED
    BY <2>1, FS_EmptySet
<1>4. ASSUME NEW i \in Nat, i >= seq
      PROVE  free(i + 1) = IF i + 1 \in D THEN free(i) ELSE free(i) + 1
  <2> DEFINE F == ((seq + 1)..i) \ D
  <2>1. ((seq + 1)..(i + 1)) \ D = IF i + 1 \in D THEN F ELSE F \cup {i + 1}
    BY <1>4
  <2>2. IsFiniteSet(F)
    <3>1. seq + 1 \in Int /\ i \in Int
      BY <1>4
    <3>2. IsFiniteSet((seq + 1)..i)
      BY <3>1, FS_Interval
    <3> QED
      BY <3>2, FS_Difference
  <2>3. i + 1 \notin F
    BY <1>4
  <2> QED
    BY <2>1, <2>2, <2>3, FS_AddElement
<1> HIDE DEF free
<1>5. max \in S
  <2>1. max \in Nat /\ max >= seq
    BY <1>1
  <2>2. free(max) \in Nat /\ free(max) >= max - seq - Cardinality(D)
    BY <1>2, <2>1
  <2> QED
    BY <1>1, <2>1, <2>2
<1>6. PICK i \in S : \A j \in S : i <= j
  BY <1>5, LeastExists
<1>7. i # seq
  BY <1>3, <1>6
<1>8. i - 1 \in Nat /\ i - 1 >= seq /\ (i - 1) + 1 = i
  BY <1>6, <1>7
<1>9. i - 1 \notin S
  BY <1>6, <1>8
<1>10. free(i - 1) \in Nat /\ free(i - 1) < k
  BY <1>2, <1>8, <1>9
<1>11. free(i) = IF i \in D THEN free(i - 1) ELSE free(i - 1) + 1
  BY <1>4, <1>8
<1>12. free(i) = k /\ i \notin D
  BY <1>6, <1>10, <1>11
<1>13. i \in (seq + 1)..max
  BY <1>1, <1>5, <1>6, <1>7
<1>14. FreshId(k) \in (seq + 1)..max /\ FreshId(k) \notin D /\ free(FreshId(k)) = k
  BY <1>0, <1>12, <1>13 DEF FreshId, free
<1> QED
  BY <1>0, <1>1, <1>14 DEF free

\* The IDs of one pass differ from each other and from those in use.
LEMMA FreshIdsFacts ==
  ASSUME IsFiniteSet(DOMAIN objects), seq \in Nat, NEW n \in Nat
  PROVE  /\ IsFiniteSet(FreshIds(n)) /\ FreshIds(n) \subseteq Nat /\ FreshIds(n) \cap DOMAIN objects = {}
         /\ SeqAfter(n) \in Nat
         /\ \A j, k \in Nat \ {0} : FreshId(j) = FreshId(k) => j = k
<1>1. \A k \in Nat \ {0} :
        /\ FreshId(k) \in Nat /\ FreshId(k) \notin DOMAIN objects
        /\ Cardinality(((seq + 1)..FreshId(k)) \ DOMAIN objects) = k
  BY FreshIdFacts
<1> DEFINE f == [k \in 1..n |-> FreshId(k)]
<1>2. FreshIds(n) = {f[k] : k \in 1..n}
  BY DEF FreshIds
<1>3. IsFiniteSet(1..n)
  BY FS_Interval
<1>4. IsFiniteSet(FreshIds(n))
  <2>1. f = [k \in 1..n |-> f[k]]
    OBVIOUS
  <2> HIDE DEF f
  <2> QED
    BY <1>2, <1>3, <2>1, ImageFinite
<1>5. FreshIds(n) \subseteq Nat /\ FreshIds(n) \cap DOMAIN objects = {}
  <2>1. \A k \in 1..n : k \in Nat \ {0}
    OBVIOUS
  <2> QED
    BY <1>1, <2>1 DEF FreshIds
<1>6. SeqAfter(n) \in Nat
  BY <1>1 DEF SeqAfter
<1>7. ASSUME NEW j \in Nat \ {0}, NEW k \in Nat \ {0}, FreshId(j) = FreshId(k) PROVE j = k
  <2>1. Cardinality(((seq + 1)..FreshId(j)) \ DOMAIN objects) = j
    BY <1>1
  <2>2. Cardinality(((seq + 1)..FreshId(k)) \ DOMAIN objects) = k
    BY <1>1
  <2> QED
    BY <1>7, <2>1, <2>2
<1> QED
  BY <1>4, <1>5, <1>6, <1>7

-----------------------------------------------------------------------------
(* Stages of rot.                                                             *)

LEMMA StagesFacts ==
  /\ Len(Stages) \in Nat /\ Len(Stages) > 1 /\ DOMAIN Stages = 1..Len(Stages) /\ Stages[1].at = 0
  /\ \A i \in DOMAIN Stages :
       /\ Stages[i].at \in Nat /\ Len(Stages[i].yields) \in Nat
       /\ DOMAIN Stages[i].yields = 1..Len(Stages[i].yields)
  /\ End \in Nat
<1>1. /\ Stages \in Seq([at : Nat, yields : Seq(STRING)])
      /\ Len(Stages) > 1 /\ Stages[1].at = 0
  BY LandAssumption DEF LandAssumption
<1>2. Len(Stages) \in Nat /\ DOMAIN Stages = 1..Len(Stages)
  BY <1>1
<1>3. \A i \in DOMAIN Stages : Stages[i] \in [at : Nat, yields : Seq(STRING)]
  <2>1. PICK T : T = [at : Nat, yields : Seq(STRING)]
    OBVIOUS
  <2>2. Stages \in Seq(T)
    BY <1>1, <2>1
  <2>3. \A i \in DOMAIN Stages : Stages[i] \in T
    BY <2>2
  <2> QED
    BY <2>1, <2>3
<1>4. \A i \in DOMAIN Stages :
       /\ Stages[i].at \in Nat /\ Len(Stages[i].yields) \in Nat
       /\ DOMAIN Stages[i].yields = 1..Len(Stages[i].yields)
  <2> SUFFICES ASSUME NEW i \in DOMAIN Stages
               PROVE  /\ Stages[i].at \in Nat /\ Len(Stages[i].yields) \in Nat
                      /\ DOMAIN Stages[i].yields = 1..Len(Stages[i].yields)
    OBVIOUS
  <2>1. Stages[i].at \in Nat /\ Stages[i].yields \in Seq(STRING)
    BY <1>3
  <2> QED
    BY <2>1
<1>5. Len(Stages) \in DOMAIN Stages
  BY <1>1, <1>2
<1> QED
  BY <1>1, <1>2, <1>4, <1>5 DEF End

\* Every age has its state, and a later age none that is earlier.
LEMMA StateAtFacts ==
  ASSUME NEW age \in Nat
  PROVE  /\ StateAt(age) \in DOMAIN Stages /\ Stages[StateAt(age)].at <= age
         /\ \A j \in DOMAIN Stages : Stages[j].at <= age => j <= StateAt(age)
<1> DEFINE C == {i \in DOMAIN Stages : Stages[i].at <= age}
           lv == [i \in C |-> i]
<1>1. C \subseteq 1..Len(Stages) /\ C \subseteq Nat /\ 1 \in C
  BY StagesFacts
<1>2. IsFiniteSet(C)
  <2>1. IsFiniteSet(1..Len(Stages))
    BY StagesFacts, FS_Interval
  <2> QED
    BY <1>1, <2>1, FS_Subset
<1>3. lv \in [C -> Nat] /\ \A i \in C : lv[i] = i
  BY <1>1
<1>5. C # {}
  BY <1>1
<1> HIDE DEF C, lv
<1>4. PICK a \in C : \A b \in C \ {a} : lv[a] > lv[b] \/ (lv[a] = lv[b] /\ a < b)
  BY <1>1, <1>2, <1>3, <1>5, BestExists
<1>6. \A j \in C : j <= a
  BY <1>1, <1>3, <1>4
<1>7. a \in DOMAIN Stages /\ Stages[a].at <= age /\ \A j \in DOMAIN Stages : Stages[j].at <= age => j <= a
  BY <1>6 DEF C
<1> QED
  BY <1>7 DEF StateAt

LEMMA StatesRise ==
  ASSUME NEW a \in Nat, NEW b \in Nat, a <= b
  PROVE  StateAt(a) \in Nat /\ StateAt(b) \in Nat /\ StateAt(a) <= StateAt(b)
<1>1. StateAt(a) \in DOMAIN Stages /\ Stages[StateAt(a)].at <= a
      /\ StateAt(b) \in DOMAIN Stages /\ \A j \in DOMAIN Stages : Stages[j].at <= b => j <= StateAt(b)
  BY StateAtFacts
<1>2. Stages[StateAt(a)].at \in Nat
  BY <1>1, StagesFacts
<1>3. Stages[StateAt(a)].at <= b
  BY <1>1, <1>2
<1> QED
  BY <1>1, <1>3, StagesFacts

\* What is due at a later age is what was due and what has become so since.
LEMMA ProductsAdd ==
  ASSUME NEW a \in Nat, NEW b \in Nat, a <= b
  PROVE  /\ Products(0, b) = Products(0, a) \cup Products(a, b)
         /\ Products(0, a) \cap Products(a, b) = {} /\ Products(0, 0) = {}
         /\ Products(a, b) \subseteq Yields
<1>1. /\ StateAt(0) \in Nat /\ StateAt(a) \in Nat /\ StateAt(b) \in Nat
      /\ StateAt(0) <= StateAt(a) /\ StateAt(a) <= StateAt(b)
  BY StatesRise
<1>2. \A y \in Yields : y[1] \in Nat
  BY StagesFacts DEF Yields
<1> QED
  BY <1>1, <1>2 DEF Products

LEMMA YieldsFacts ==
  /\ IsFiniteSet(Yields)
  /\ \A y \in Yields : y[1] \in Nat /\ y[2] \in Nat /\ y = <<y[1], y[2]>>
<1> DEFINE f == [i \in DOMAIN Stages |-> {i} \X (DOMAIN Stages[i].yields)]
<1>1. f = [i \in DOMAIN Stages |-> f[i]] /\ \A i \in DOMAIN Stages : f[i] = {i} \X (DOMAIN Stages[i].yields)
  OBVIOUS
<1> HIDE DEF f
<1>2. Yields = UNION {f[i] : i \in DOMAIN Stages}
  BY <1>1 DEF Yields
<1>3. \A i \in DOMAIN Stages : IsFiniteSet(f[i])
  <2> SUFFICES ASSUME NEW i \in DOMAIN Stages PROVE IsFiniteSet(f[i])
    OBVIOUS
  <2>1. IsFiniteSet(1..Len(Stages[i].yields))
    <3>1. 1 \in Int /\ Len(Stages[i].yields) \in Int
      BY StagesFacts
    <3> QED
      BY <3>1, FS_Interval
  <2>2. IsFiniteSet({i} \X (1..Len(Stages[i].yields)))
    BY <2>1, FS_Singleton, FS_Product
  <2> QED
    BY <1>1, <2>2, StagesFacts
<1>4. IsFiniteSet(DOMAIN Stages)
  BY StagesFacts, FS_Interval
<1>5. IsFiniteSet({f[i] : i \in DOMAIN Stages})
  BY <1>1, <1>4, ImageFinite
<1>6. IsFiniteSet(Yields)
  <2>1. \A T \in {f[i] : i \in DOMAIN Stages} : IsFiniteSet(T)
    BY <1>3
  <2> QED
    BY <1>2, <1>5, <2>1, FS_UNION
<1>7. \A y \in Yields : y[1] \in Nat /\ y[2] \in Nat /\ y = <<y[1], y[2]>>
  <2> SUFFICES ASSUME NEW i \in DOMAIN Stages, NEW y \in f[i]
               PROVE  y[1] \in Nat /\ y[2] \in Nat /\ y = <<y[1], y[2]>>
    BY <1>2
  <2>1. y \in {i} \X (1..Len(Stages[i].yields))
    BY <1>1, StagesFacts
  <2> QED
    BY <2>1, StagesFacts
<1> QED
  BY <1>6, <1>7

\* The order of a pass is strict: no two products have the same place in it.
LEMMA PlacesDiffer ==
  ASSUME NEW from, IsFiniteSet(from),
         \A t \in from : t[1] \in Nat /\ t[2][1] \in Nat /\ t[2][2] \in Nat /\ t = <<t[1], <<t[2][1], t[2][2]>>>>
  PROVE  /\ \A t \in from : Cardinality(UpTo(t, from)) \in Nat \ {0}
         /\ \A t, u \in from : Cardinality(UpTo(t, from)) = Cardinality(UpTo(u, from)) => t = u
<1>1. ASSUME NEW t \in from
      PROVE  /\ UpTo(t, from) \subseteq from /\ t \in UpTo(t, from)
             /\ IsFiniteSet(UpTo(t, from)) /\ Cardinality(UpTo(t, from)) \in Nat \ {0}
  <2>1. UpTo(t, from) \subseteq from /\ t \in UpTo(t, from)
    BY DEF UpTo
  <2>2. IsFiniteSet(UpTo(t, from))
    BY <2>1, FS_Subset
  <2>3. Cardinality(UpTo(t, from)) \in Nat /\ Cardinality(UpTo(t, from)) # 0
    BY <2>1, <2>2, FS_CardinalityType, FS_EmptySet
  <2> QED
    BY <2>1, <2>2, <2>3
<1>2. ASSUME NEW t \in from, NEW u \in from, t \in UpTo(u, from), u \notin UpTo(t, from)
      PROVE  Cardinality(UpTo(t, from)) # Cardinality(UpTo(u, from))
  <2>1. UpTo(t, from) \subseteq UpTo(u, from)
    <3> SUFFICES ASSUME NEW v \in UpTo(t, from) PROVE v \in UpTo(u, from)
      OBVIOUS
    <3>1. v \in from
      BY DEF UpTo
    <3>2. /\ v[1] \in Nat /\ v[2][1] \in Nat /\ v[2][2] \in Nat
          /\ t[1] \in Nat /\ t[2][1] \in Nat /\ t[2][2] \in Nat
          /\ u[1] \in Nat /\ u[2][1] \in Nat /\ u[2][2] \in Nat
      BY <3>1
    <3> QED
      BY <1>2, <3>1, <3>2 DEF UpTo
  <2>2. UpTo(t, from) # UpTo(u, from)
    BY <1>1, <1>2
  <2> QED
    BY <1>1, <2>1, <2>2, FS_Subset
<1>3. ASSUME NEW t \in from, NEW u \in from, t # u
      PROVE  \/ t \in UpTo(u, from) /\ u \notin UpTo(t, from)
             \/ u \in UpTo(t, from) /\ t \notin UpTo(u, from)
  <2>1. /\ t[1] \in Nat /\ t[2][1] \in Nat /\ t[2][2] \in Nat
        /\ u[1] \in Nat /\ u[2][1] \in Nat /\ u[2][2] \in Nat
    OBVIOUS
  <2>2. ~(t[1] = u[1] /\ t[2][1] = u[2][1] /\ t[2][2] = u[2][2])
    BY <1>3
  <2> QED
    BY <2>1, <2>2 DEF UpTo
<1> QED
  BY <1>1, <1>2, <1>3

-----------------------------------------------------------------------------
(* The registers.                                                            *)

\* What a pass writes into the object table, the index and what agents know.
LEMMA AlterFacts ==
  ASSUME NEW placed, NEW removed, Alter(placed, removed), DOMAIN placed \cap DOMAIN objects = {}
  PROVE  /\ DOMAIN objects' = (DOMAIN objects \ removed) \cup DOMAIN placed
         /\ \A i \in DOMAIN objects \ removed : objects'[i] = objects[i]
         /\ \A i \in DOMAIN placed : objects'[i] = placed[i]
         /\ spatial' = (spatial \ removed) \cup DOMAIN placed
         /\ \A a \in Agents : known'[a] = (known[a] \ removed) \cup DOMAIN placed
<1>1. objects' = With(Without(objects, removed), placed)
  BY DEF Alter
<1>2. PICK w : w = Without(objects, removed)
  OBVIOUS
<1>3. DOMAIN w = DOMAIN objects \ removed /\ \A i \in DOMAIN w : w[i] = objects[i]
  BY <1>2 DEF Without
<1>4. /\ DOMAIN objects' = DOMAIN w \cup DOMAIN placed
      /\ \A i \in DOMAIN w : objects'[i] = w[i]
      /\ \A i \in DOMAIN placed \ DOMAIN w : objects'[i] = placed[i]
  BY <1>1, <1>2 DEF With
<1>5. DOMAIN placed \cap DOMAIN w = {}
  BY <1>3
<1> QED
  BY <1>3, <1>4, <1>5 DEF Alter

\* A pass that puts things in the table and takes plants and rotting carcasses out keeps the
\* registers in agreement when it enters the plants and carcasses it made and strikes those
\* it removed.
LEMMA PassKeeps ==
  ASSUME Named, RegistersAgree, NEW placed, NEW removed, Alter(placed, removed),
         IsFiniteSet(DOMAIN placed), DOMAIN placed \subseteq Nat, DOMAIN placed \cap DOMAIN objects = {},
         removed \subseteq IdsOfKind("plant") \cup DOMAIN lots,
         lost' = lost, seq' \in Nat,
         DOMAIN plants' = (DOMAIN plants \ removed) \cup {i \in DOMAIN placed : placed[i].kind = "plant"},
         DOMAIN lots' = (DOMAIN lots \ removed) \cup {i \in DOMAIN placed : placed[i].kind = "carcass"}
  PROVE  Named' /\ RegistersAgree'
<1>1. /\ DOMAIN objects' = (DOMAIN objects \ removed) \cup DOMAIN placed
      /\ \A i \in DOMAIN objects \ removed : objects'[i] = objects[i]
      /\ \A i \in DOMAIN placed : objects'[i] = placed[i]
      /\ spatial' = (spatial \ removed) \cup DOMAIN placed
      /\ \A a \in Agents : known'[a] = (known[a] \ removed) \cup DOMAIN placed
  BY AlterFacts
<1>2. \A k : IdsOfKind(k)' = (IdsOfKind(k) \ removed) \cup {i \in DOMAIN placed : placed[i].kind = k}
  <2> SUFFICES ASSUME NEW k
               PROVE  IdsOfKind(k)' = (IdsOfKind(k) \ removed) \cup {i \in DOMAIN placed : placed[i].kind = k}
    OBVIOUS
  <2>1. IdsOfKind(k)' = {i \in DOMAIN objects' : objects'[i].kind = k}
    BY DEF IdsOfKind
  <2> QED
    BY <1>1, <2>1 DEF IdsOfKind
<1>3. /\ IdsOfKind("carcass")' = (IdsOfKind("carcass") \ removed) \cup {i \in DOMAIN placed : placed[i].kind = "carcass"}
      /\ IdsOfKind("plant")' = (IdsOfKind("plant") \ removed) \cup {i \in DOMAIN placed : placed[i].kind = "plant"}
  BY <1>2
<1>4. /\ IdsOfKind("plant") \subseteq DOMAIN objects /\ IdsOfKind("carcass") \subseteq DOMAIN objects
      /\ IdsOfKind("plant") \cap IdsOfKind("carcass") = {}
  BY DEF IdsOfKind
<1>5. /\ removed \subseteq DOMAIN objects /\ removed \cap lost.stranded = {}
      /\ lost.stranded \subseteq DOMAIN objects /\ lost.ghosts \cap DOMAIN objects = {}
      /\ lost.ghosts \cap Nat = {}
  BY <1>4, LandAssumption DEF Named, RegistersAgree, LandAssumption
<1>6. IsFiniteSet(DOMAIN objects')
  <2>1. PICK D, P : D = DOMAIN objects /\ P = DOMAIN placed /\ IsFiniteSet(D) /\ IsFiniteSet(P)
    BY DEF Named
  <2>2. IsFiniteSet(D \ removed)
    BY <2>1, FS_Difference
  <2>3. IsFiniteSet((D \ removed) \cup P)
    BY <2>1, <2>2, FS_Union
  <2> QED
    BY <1>1, <2>1, <2>3
<1>7. Named'
  <2>1. IdsOfKind("carcass")' \subseteq Nat
    BY <1>3 DEF Named
  <2>2. lost'.stranded \subseteq IdsOfKind("carcass")'
    BY <1>3, <1>5 DEF Named
  <2>3. lost'.ghosts \subseteq DOMAIN FixturePlants
    BY DEF Named
  <2> QED
    BY <1>6, <2>1, <2>2, <2>3 DEF Named
<1>8. RegistersAgree'
  <2>1. ASSUME NEW a \in Agents PROVE known'[a] = DOMAIN objects'
    BY <1>1 DEF RegistersAgree
  <2>2. DOMAIN plants' = IdsOfKind("plant")'
    BY <1>3 DEF RegistersAgree
  <2>3. DOMAIN objects' \subseteq spatial' /\ spatial' \ DOMAIN objects' = lost'.ghosts
    BY <1>1, <1>5 DEF RegistersAgree
  <2>4. DOMAIN lots' = IdsOfKind("carcass")' \ lost'.stranded
    <3> DEFINE C == {i \in DOMAIN placed : placed[i].kind = "carcass"}
    <3>1. PICK L : L = DOMAIN lots /\ L = IdsOfKind("carcass") \ lost.stranded
      BY DEF RegistersAgree
    <3>2. C \cap lost.stranded = {}
      BY <1>5
    <3>3. DOMAIN lots' = (L \ removed) \cup C
      BY <3>1
    <3>4. IdsOfKind("carcass")' = (IdsOfKind("carcass") \ removed) \cup C /\ lost' = lost
      BY <1>3
    <3> HIDE DEF C
    <3> QED
      BY <3>1, <3>2, <3>3, <3>4
  <2> QED
    BY <2>1, <2>2, <2>3, <2>4 DEF RegistersAgree
<1> QED
  BY <1>7, <1>8

\* Whatever a pass does, it changes no object that stays.
LEMMA Kept ==
  ASSUME Named, RegistersAgree, NEW placed, NEW removed, Alter(placed, removed),
         DOMAIN placed \cap DOMAIN objects = {},
         removed \subseteq IdsOfKind("plant") \cup DOMAIN lots, NEW i \in DOMAIN objects,
         objects[i].kind \notin {"plant", "carcass"}
  PROVE  i \in DOMAIN objects' /\ objects'[i] = objects[i]
<1>1. IdsOfKind("plant") \cup DOMAIN lots \subseteq IdsOfKind("plant") \cup IdsOfKind("carcass")
  BY DEF RegistersAgree
<1>2. i \notin removed
  BY <1>1 DEF IdsOfKind
<1>3. /\ DOMAIN objects' = (DOMAIN objects \ removed) \cup DOMAIN placed
      /\ \A j \in DOMAIN objects \ removed : objects'[j] = objects[j]
  BY AlterFacts
<1> QED
  BY <1>2, <1>3

\* Products stay what they are while plants and carcasses come and go, and a new carcass
\* has left none.
LEMMA ProductsStay ==
  ASSUME Named, RegistersAgree, ProductsOnce,
         \A c \in DOMAIN made' : \/ c \in DOMAIN made /\ made'[c] = made[c]
                                 \/ made'[c].age = 0 /\ DOMAIN made'[c].out = {},
         NEW placed, NEW removed, Alter(placed, removed), DOMAIN placed \cap DOMAIN objects = {},
         removed \subseteq IdsOfKind("plant") \cup DOMAIN lots
  PROVE  ProductsOnce'
<1>1. ASSUME NEW c \in DOMAIN made, NEW y \in DOMAIN made[c].out
      PROVE  /\ made[c].out[y] \in DOMAIN objects'
             /\ objects'[made[c].out[y]] = [kind |-> Item(y), site |-> made[c].site]
  <2>1. PICK i : i = made[c].out[y]
    OBVIOUS
  <2>2. i \in DOMAIN objects /\ objects[i] = [kind |-> Item(y), site |-> made[c].site]
    BY <2>1 DEF ProductsOnce
  <2>3. y \in Yields
    <3>1. y \in Products(0, made[c].age)
      BY DEF ProductsOnce
    <3> QED
      BY <3>1 DEF Products
  <2>4. objects[i].kind \notin {"plant", "carcass"}
    BY <2>2, <2>3, LandAssumption DEF LandAssumption
  <2> QED
    BY <2>1, <2>2, <2>4, Kept
<1>2. Products(0, 0) = {}
  BY ProductsAdd
<1>3. ASSUME NEW c \in DOMAIN made'
      PROVE  /\ DOMAIN made'[c].out = Products(0, made'[c].age)
             /\ \A y \in DOMAIN made'[c].out :
                  /\ made'[c].out[y] \in DOMAIN objects'
                  /\ objects'[made'[c].out[y]] = [kind |-> Item(y), site |-> made'[c].site]
                  /\ c \in DOMAIN made /\ made'[c] = made[c]
  <2>1. CASE c \in DOMAIN made /\ made'[c] = made[c]
    BY <1>1, <2>1 DEF ProductsOnce
  <2>2. CASE made'[c].age = 0 /\ DOMAIN made'[c].out = {}
    BY <1>2, <2>2
  <2> QED
    BY <2>1, <2>2
<1>4. \A c, d \in DOMAIN made' : \A y \in DOMAIN made'[c].out, z \in DOMAIN made'[d].out :
        made'[c].out[y] = made'[d].out[z] => c = d /\ y = z
  BY <1>3 DEF ProductsOnce
<1>5. \A y : Item(y)' = Item(y)
  BY DEF Item
<1> QED
  BY <1>3, <1>4 DEF ProductsOnce, Products, StateAt

LEMMA WeatherSame ==
  ASSUME Weather, UNCHANGED weather
  PROVE  Weather'
BY DEF Weather, NavFollowsClimate, IceRemembers, weather

LEMMA ThingsSame ==
  ASSUME Named, RegistersAgree, Ledger, ProductsOnce, UNCHANGED <<things, lost>>
  PROVE  Named' /\ RegistersAgree' /\ Ledger' /\ ProductsOnce'
<1>1. /\ objects' = objects /\ spatial' = spatial /\ known' = known /\ plants' = plants /\ lots' = lots
      /\ seq' = seq /\ made' = made /\ lost' = lost
  BY DEF things
<1>2. \A k : IdsOfKind(k)' = IdsOfKind(k)
  BY <1>1 DEF IdsOfKind
<1>3. Named'
  BY <1>1, <1>2 DEF Named
<1>4. RegistersAgree'
  BY <1>1, <1>2 DEF RegistersAgree
<1>5. Ledger'
  BY <1>1 DEF Ledger
<1>6. ProductsOnce'
  BY <1>1 DEF ProductsOnce
<1> QED
  BY <1>3, <1>4, <1>5, <1>6

-----------------------------------------------------------------------------
(* What the animals do.                                                       *)

LEMMA KillKeeps ==
  ASSUME LandInvariant, NEW s, Kill(s)
  PROVE  LandInvariant'
<1> USE DEF LandInvariant
<1>1. PICK id : id = FreshId(1) /\ id \in Nat /\ id \notin DOMAIN objects
  <2>1. 1 \in Nat \ {0} /\ IsFiniteSet(DOMAIN objects) /\ seq \in Nat
    BY DEF Named
  <2> QED
    BY <2>1, FreshIdFacts
<1>2. PICK placed : placed = Only(id, [kind |-> "carcass", site |-> s])
  OBVIOUS
<1>3. /\ Alter(placed, {}) /\ seq' = id
      /\ lots' = With(lots, Only(id, 0))
      /\ made' = With(Only(id, [age |-> 0, site |-> s, out |-> <<>>]), made)
      /\ plants' = plants /\ UNCHANGED <<weather, lost>>
  BY <1>1, <1>2 DEF Kill
<1>4. DOMAIN placed = {id} /\ placed[id] = [kind |-> "carcass", site |-> s] /\ IsFiniteSet(DOMAIN placed)
  BY <1>2, FS_Singleton DEF Only
<1>5. DOMAIN lots \subseteq DOMAIN objects
  BY DEF RegistersAgree, IdsOfKind
<1>6. /\ DOMAIN lots' = DOMAIN lots \cup {id} /\ lots'[id] = 0
      /\ \A l \in DOMAIN lots : lots'[l] = lots[l]
  BY <1>1, <1>3, <1>5 DEF With, Only
<1>7. /\ DOMAIN made' = DOMAIN made \cup {id} /\ made'[id] = [age |-> 0, site |-> s, out |-> <<>>]
      /\ \A c \in DOMAIN made \ {id} : made'[c] = made[c]
  BY <1>3 DEF With, Only
<1>8. Named' /\ RegistersAgree'
  BY <1>1, <1>3, <1>4, <1>6, PassKeeps
<1>9. Ledger'
  <2>1. /\ objects'[id] = placed[id]
        /\ \A i \in DOMAIN objects : objects'[i] = objects[i]
    <3>1. Alter(placed, {}) /\ DOMAIN placed \cap DOMAIN objects = {}
      BY <1>1, <1>3, <1>4
    <3>2. /\ \A i \in DOMAIN objects \ {} : objects'[i] = objects[i]
          /\ \A i \in DOMAIN placed : objects'[i] = placed[i]
      BY <3>1, AlterFacts
    <3> QED
      BY <1>4, <3>2
  <2>2. ASSUME NEW l \in DOMAIN lots'
        PROVE  lots'[l] \in 0..End /\ made'[l].age = lots'[l] /\ made'[l].site = objects'[l].site
    <3>1. CASE l = id
      BY <1>4, <1>6, <1>7, <2>1, <3>1, StagesFacts
    <3>2. CASE l \in DOMAIN lots
      BY <1>1, <1>5, <1>6, <1>7, <2>1, <3>2 DEF Ledger
    <3> QED
      BY <1>6, <3>1, <3>2
  <2> QED
    BY <1>6, <1>7, <2>2 DEF Ledger, End
<1>10. ProductsOnce'
  <2>1. \A c \in DOMAIN made' : \/ c \in DOMAIN made /\ made'[c] = made[c]
                                \/ made'[c].age = 0 /\ DOMAIN made'[c].out = {}
    BY <1>7
  <2> QED
    BY <1>1, <1>3, <1>4, <2>1, ProductsStay
<1> QED
  BY <1>3, <1>8, <1>9, <1>10, WeatherSame

LEMMA FeedKeeps ==
  ASSUME LandInvariant, NEW id, Feed(id)
  PROVE  LandInvariant'
<1> USE DEF LandInvariant
<1>1. PICK placed : placed = <<>> /\ DOMAIN placed = {} /\ IsFiniteSet(DOMAIN placed)
  BY FS_EmptySet
<1>2. /\ id \in DOMAIN lots /\ Alter(placed, {id}) /\ lots' = Without(lots, {id})
      /\ UNCHANGED <<plants, seq, made, weather, lost>>
  BY <1>1 DEF Feed, ConsumeCarcass, Edible
<1>3. DOMAIN lots' = DOMAIN lots \ {id} /\ \A l \in DOMAIN lots' : lots'[l] = lots[l]
  BY <1>2 DEF Without
<1>4. id \in IdsOfKind("carcass") /\ id \notin IdsOfKind("plant") /\ DOMAIN lots \subseteq DOMAIN objects
  BY <1>2 DEF RegistersAgree, IdsOfKind
<1>5. Named' /\ RegistersAgree'
  <2>1. seq' \in Nat /\ lost' = lost
    BY <1>2 DEF Named
  <2>2. DOMAIN plants' = (DOMAIN plants \ {id}) \cup {i \in DOMAIN placed : placed[i].kind = "plant"}
    BY <1>1, <1>2, <1>4 DEF RegistersAgree
  <2>3. DOMAIN lots' = (DOMAIN lots \ {id}) \cup {i \in DOMAIN placed : placed[i].kind = "carcass"}
    BY <1>1, <1>3
  <2> QED
    BY <1>1, <1>2, <2>1, <2>2, <2>3, PassKeeps
<1>6. Ledger'
  <2>1. \A i \in DOMAIN objects \ {id} : objects'[i] = objects[i]
    <3>1. DOMAIN placed \cap DOMAIN objects = {}
      BY <1>1
    <3> QED
      BY <1>2, <3>1, AlterFacts
  <2> QED
    BY <1>2, <1>3, <1>4, <2>1 DEF Ledger
<1>7. ProductsOnce'
  <2>1. \A c \in DOMAIN made' : c \in DOMAIN made /\ made'[c] = made[c]
    BY <1>2
  <2> QED
    BY <1>1, <1>2, <2>1, ProductsStay
<1> QED
  BY <1>2, <1>5, <1>6, <1>7, WeatherSame

LEMMA GrazeKeeps ==
  ASSUME LandInvariant, NEW p, NEW amount, Graze(p, amount)
  PROVE  LandInvariant'
<1> USE DEF LandInvariant
<1>1. /\ plants' = GrazeLength(p, amount)
      /\ UNCHANGED <<objects, spatial, known, lots, seq, made, weather, lost>>
  BY DEF Graze
<1>2. DOMAIN plants' = DOMAIN plants
  BY <1>1 DEF GrazeLength
<1>3. \A k : IdsOfKind(k)' = IdsOfKind(k)
  BY <1>1 DEF IdsOfKind
<1>4. Named'
  BY <1>1, <1>3 DEF Named
<1>5. RegistersAgree'
  BY <1>1, <1>2, <1>3 DEF RegistersAgree
<1>6. Ledger' /\ ProductsOnce'
  BY <1>1 DEF Ledger, ProductsOnce
<1> QED
  BY <1>1, <1>4, <1>5, <1>6, WeatherSame

-----------------------------------------------------------------------------
(* A resume and the steps that only pass the turn.                             *)

LEMMA ResumeKeeps ==
  ASSUME LandInvariant, Resume
  PROVE  LandInvariant'
<1> USE DEF LandInvariant
<1>1. /\ spatial' = DOMAIN FixturePlants \cup DOMAIN objects
      /\ lots' = <<>> /\ seq' = 0 /\ nav' = Ground /\ touched' = {} /\ made' = <<>>
      /\ lost' = [ghosts |-> DOMAIN FixturePlants \ DOMAIN objects, stranded |-> IdsOfKind("carcass")]
      /\ UNCHANGED <<objects, known, before, plants, cells, rain>>
  BY DEF Resume, RebuildSpatial, EnvKept
<1>2. DOMAIN lots' = {} /\ DOMAIN made' = {}
  BY <1>1
<1>3. \A k : IdsOfKind(k)' = IdsOfKind(k)
  BY <1>1 DEF IdsOfKind
<1>4. Named'
  BY <1>1, <1>3 DEF Named
<1>5. RegistersAgree'
  BY <1>1, <1>2, <1>3 DEF RegistersAgree
<1>6. Ledger' /\ ProductsOnce'
  BY <1>2 DEF Ledger, ProductsOnce
<1>7. Weather'
  <2>1. \A s \in Sites : Ground[s] # Origin
    BY LandAssumption DEF LandAssumption
  <2>2. IceRemembers'
    BY <1>1 DEF Weather, IceRemembers
  <2>3. NavFollowsClimate'
    BY <1>1, <2>1 DEF Weather, NavFollowsClimate
  <2> QED
    BY <1>1, <2>2, <2>3 DEF Weather
<1> QED
  BY <1>4, <1>5, <1>6, <1>7

LEMMA StillKeeps ==
  ASSUME LandInvariant, UNCHANGED <<things, weather, lost>>
  PROVE  LandInvariant'
BY ThingsSame, WeatherSame DEF LandInvariant

-----------------------------------------------------------------------------
(* The climate pass.                                                          *)

\* A rule leads to another terrain, or back to the origin, and from ice only there.
LEMMA EvalFacts ==
  ASSUME NEW terrain \in Terrain, NEW temp, NEW wet
  PROVE  /\ Eval(terrain, temp, wet) \in Terrain \cup {Origin, None}
         /\ Eval(terrain, temp, wet) # terrain
         /\ terrain = Ice => Eval(terrain, temp, wet) \in {Origin, None}
<1> DEFINE hits == {i \in DOMAIN Rules : Rules[i].from = terrain /\ temp \in Rules[i].temps /\ wet \in Rules[i].bands}
           first == CHOOSE i \in hits : \A j \in hits : i <= j
<1>1. PICK R : R = [from : Terrain, to : Terrain \cup {Origin}, temps : SUBSET Temps, bands : SUBSET Bands]
  OBVIOUS
<1>2. Rules \in Seq(R)
  BY <1>1, LandAssumption DEF LandAssumption
<1>3. DOMAIN Rules \subseteq Nat /\ \A i \in DOMAIN Rules : Rules[i] \in R
  BY <1>2
<1>4. CASE hits = {}
  <2>1. Eval(terrain, temp, wet) = None
    BY <1>4 DEF Eval
  <2> QED
    BY <2>1, LandAssumption DEF LandAssumption
<1>5. CASE hits # {}
  <2>1. hits \subseteq Nat
    BY <1>3
  <2>2. \E i \in hits : \A j \in hits : i <= j
    BY <1>5, <2>1, LeastExists
  <2>3. first \in hits
    BY <2>2
  <2>4. Eval(terrain, temp, wet) = Rules[first].to
    BY <1>5 DEF Eval
  <2>5. PICK i \in DOMAIN Rules : i = first /\ Rules[i].from = terrain
    BY <2>3
  <2>6. Rules[i].to \in Terrain \cup {Origin}
    BY <1>1, <1>3
  <2>7. Rules[i].from # Rules[i].to /\ (Rules[i].from = Ice => Rules[i].to = Origin)
    BY LandAssumption DEF LandAssumption
  <2> HIDE DEF first, hits
  <2> QED
    BY <2>4, <2>5, <2>6, <2>7
<1> QED
  BY <1>4, <1>5

\* A cell remembers what it froze from exactly while it is ice.
LEMMA EvolveFacts ==
  ASSUME NEW cell \in [terrain : Terrain, frozenFrom : Terrain \cup {None}, wet : Bands],
         cell.frozenFrom # Ice, cell.terrain # Ice => cell.frozenFrom = None,
         NEW temp, NEW wet \in Bands
  PROVE  LET next == Evolve(cell, temp, wet) IN
         /\ next \in [terrain : Terrain, frozenFrom : Terrain \cup {None}, wet : Bands]
         /\ next.frozenFrom # Ice
         /\ next.terrain # Ice => next.frozenFrom = None
         /\ next.terrain = Ice =>
              next.frozenFrom = IF cell.terrain = Ice THEN cell.frozenFrom ELSE cell.terrain
<1> DEFINE next == Evolve(cell, temp, wet)
<1>1. PICK to : to = Eval(cell.terrain, temp, wet)
  OBVIOUS
<1>2. /\ to \in Terrain \cup {Origin, None} /\ to # cell.terrain
      /\ cell.terrain = Ice => to \in {Origin, None}
  BY <1>1, EvalFacts
<1>3. Origin \notin Terrain \cup {Ice} /\ None \notin Terrain \cup {Ice, Origin}
  BY LandAssumption DEF LandAssumption
<1>4. CASE to = None \/ (to = Origin /\ cell.frozenFrom = None)
  <2>1. next = [terrain |-> cell.terrain, frozenFrom |-> cell.frozenFrom, wet |-> wet]
    BY <1>1, <1>3, <1>4 DEF Evolve
  <2> HIDE DEF next
  <2> QED
    BY <2>1, <1>3, <1>4 DEF next
<1>5. CASE to = Origin /\ cell.frozenFrom # None
  <2>1. next = [terrain |-> cell.frozenFrom, frozenFrom |-> None, wet |-> wet]
    BY <1>1, <1>3, <1>5 DEF Evolve
  <2> HIDE DEF next
  <2> QED
    BY <2>1, <1>3, <1>5 DEF next
<1>6. CASE to = Ice
  <2>1. next = [terrain |-> Ice, frozenFrom |-> cell.terrain, wet |-> wet]
    BY <1>1, <1>3, <1>6 DEF Evolve
  <2> HIDE DEF next
  <2> QED
    BY <2>1, <1>2, <1>3, <1>6 DEF next
<1>7. CASE to \notin {None, Origin, Ice}
  <2>1. next = [terrain |-> to, frozenFrom |-> cell.frozenFrom, wet |-> wet]
    BY <1>1, <1>7 DEF Evolve
  <2> HIDE DEF next
  <2> QED
    BY <2>1, <1>2, <1>3, <1>7 DEF next
<1> QED
  BY <1>4, <1>5, <1>6, <1>7

LEMMA ClimateKeeps ==
  ASSUME LandInvariant, Climate
  PROVE  LandInvariant'
<1> USE DEF LandInvariant
<1>1. UNCHANGED <<things, lost>>
  BY DEF Climate
<1>2. CASE UNCHANGED weather
  BY <1>1, <1>2, ThingsSame, WeatherSame
<1>3. ASSUME NEW temp, NEW wet \in [Coarse -> Bands],
             ClimateStepped([c \in Coarse |-> Evolve(cells[c], temp, wet[c])])
      PROVE  Weather'
  <2>1. PICK next : next = [c \in Coarse |-> Evolve(cells[c], temp, wet[c])]
    OBVIOUS
  <2>2. PICK R : R = [terrain : Terrain, frozenFrom : Terrain \cup {None}, wet : Bands]
    OBVIOUS
  <2>3. ASSUME NEW c \in Coarse
        PROVE  /\ next[c] \in R /\ next[c].frozenFrom # Ice
               /\ next[c].terrain # Ice => next[c].frozenFrom = None
               /\ next[c].terrain = Ice =>
                    next[c].frozenFrom = IF cells[c].terrain = Ice THEN cells[c].frozenFrom ELSE cells[c].terrain
    <3>1. PICK cell : cell = cells[c]
      OBVIOUS
    <3>2. /\ cell \in [terrain : Terrain, frozenFrom : Terrain \cup {None}, wet : Bands]
          /\ cell.frozenFrom # Ice
          /\ cell.terrain # Ice => cell.frozenFrom = None
      BY <3>1 DEF Weather, IceRemembers
    <3>3. wet[c] \in Bands /\ next[c] = Evolve(cell, temp, wet[c])
      BY <1>3, <2>1, <3>1
    <3> QED
      BY <2>2, <3>1, <3>2, <3>3, EvolveFacts
  <2>4. PICK changed : changed = {c \in Coarse : next[c].terrain # cells[c].terrain}
    OBVIOUS
  <2>5. /\ cells' = next
        /\ nav' = [s \in Sites |-> IF CoarseOf[s] \in changed THEN next[CoarseOf[s]].terrain ELSE nav[s]]
        /\ touched' = touched \cup changed
        /\ before' = [c \in Coarse |-> IF c \in changed /\ next[c].terrain = Ice THEN cells[c].terrain ELSE before[c]]
    BY <1>3, <2>1, <2>4 DEF ClimateStepped, Paint
  <2>6. next \in [Coarse -> R]
    BY <2>1, <2>3
  <2>7. \A c \in Coarse : next[c].terrain \in Terrain
    BY <2>2, <2>3
  <2>8. NavFollowsClimate'
    <3>1. ASSUME NEW s \in Sites
          PROVE  /\ nav'[s] = IF CoarseOf[s] \in touched' THEN cells'[CoarseOf[s]].terrain ELSE Ground[s]
                 /\ nav'[s] # Origin /\ cells'[CoarseOf[s]].terrain # Origin
      <4>1. PICK c \in Coarse : c = CoarseOf[s]
        BY LandAssumption DEF LandAssumption
      <4>2. /\ nav[s] = IF c \in touched THEN cells[c].terrain ELSE Ground[s]
            /\ nav[s] # Origin
        BY <4>1 DEF Weather, NavFollowsClimate
      <4>3. next[c].terrain # Origin
        BY <2>7, LandAssumption DEF LandAssumption
      <4>4. nav'[s] = IF c \in changed THEN next[c].terrain ELSE nav[s]
        BY <2>5, <4>1
      <4>5. c \in changed <=> next[c].terrain # cells[c].terrain
        BY <2>4
      <4> QED
        BY <2>5, <4>1, <4>2, <4>3, <4>4, <4>5
    <3> QED
      BY <3>1 DEF NavFollowsClimate
  <2>9. IceRemembers'
    <3>1. ASSUME NEW c \in Coarse
          PROVE  next[c].frozenFrom = IF next[c].terrain = Ice THEN before'[c] ELSE None
      <4>1. before'[c] = IF c \in changed /\ next[c].terrain = Ice THEN cells[c].terrain ELSE before[c]
        BY <2>5
      <4>2. c \in changed <=> next[c].terrain # cells[c].terrain
        BY <2>4
      <4>3. cells[c].frozenFrom = IF cells[c].terrain = Ice THEN before[c] ELSE None
        BY DEF Weather, IceRemembers
      <4> QED
        BY <2>3, <4>1, <4>2, <4>3
    <3> QED
      BY <2>5, <3>1 DEF IceRemembers
  <2> QED
    BY <2>2, <2>3, <2>5, <2>6, <2>8, <2>9 DEF Weather
<1>4. CASE ~UNCHANGED weather
  <2>1. Weather'
    BY <1>3, <1>4 DEF Climate
  <2> QED
    BY <1>1, <2>1, ThingsSame
<1> QED
  BY <1>2, <1>4

-----------------------------------------------------------------------------
(* The flora pass.                                                            *)

LEMMA FloraKeeps ==
  ASSUME LandInvariant, Flora
  PROVE  LandInvariant'
<1> USE DEF LandInvariant
<1>1. UNCHANGED <<clock, weather, lost>>
  BY DEF Flora
<1>2. CASE UNCHANGED things
  BY <1>1, <1>2, ThingsSame, WeatherSame
<1>3. CASE ~UNCHANGED things
  <2>1. PICK site \in [DOMAIN plants -> {"thrives", "lives", "ails"}] :
          LET grown == [p \in DOMAIN plants |-> Grown(p, site[p])]
              died == {p \in DOMAIN plants : Dies(grown[p])}
          IN \E seeding \in SUBSET Parents(grown) :
             LET ids == FreshIds(Cardinality(seeding)) IN
             /\ seeding # {} => Room(Cardinality(seeding))
             /\ \E lands \in [ids -> Sites] :
                  Alter([i \in ids |-> [kind |-> "plant", site |-> lands[i]]], died)
             /\ plants' = With(Without(grown, died), [i \in ids |-> Seedling])
             /\ seq' = SeqAfter(Cardinality(seeding))
             /\ UNCHANGED <<lots, made>>
    BY <1>3 DEF Flora
  <2>2. PICK grown : grown = [p \in DOMAIN plants |-> Grown(p, site[p])]
    OBVIOUS
  <2>3. PICK died : died = {p \in DOMAIN plants : Dies(grown[p])}
    OBVIOUS
  <2>4. PICK seeding \in SUBSET Parents(grown) :
          /\ \E lands \in [FreshIds(Cardinality(seeding)) -> Sites] :
               Alter([i \in FreshIds(Cardinality(seeding)) |-> [kind |-> "plant", site |-> lands[i]]], died)
          /\ plants' = With(Without(grown, died), [i \in FreshIds(Cardinality(seeding)) |-> Seedling])
          /\ seq' = SeqAfter(Cardinality(seeding))
          /\ UNCHANGED <<lots, made>>
    BY <2>1, <2>2, <2>3
  <2>5. DOMAIN grown = DOMAIN plants /\ DOMAIN plants = IdsOfKind("plant") /\ DOMAIN plants \subseteq DOMAIN objects
    BY <2>2 DEF RegistersAgree, IdsOfKind
  <2>6. Cardinality(seeding) \in Nat
    <3>1. PICK D : D = DOMAIN objects /\ IsFiniteSet(D)
      BY DEF Named
    <3>2. seeding \subseteq D
      BY <2>5, <3>1 DEF Parents
    <3> QED
      BY <3>1, <3>2, FS_Subset, FS_CardinalityType
  <2>7. PICK ids : ids = FreshIds(Cardinality(seeding))
    OBVIOUS
  <2>8. IsFiniteSet(ids) /\ ids \subseteq Nat /\ ids \cap DOMAIN objects = {} /\ seq' \in Nat
    BY <2>4, <2>6, <2>7, FreshIdsFacts DEF Named
  <2>9. PICK lands \in [ids -> Sites] : Alter([i \in ids |-> [kind |-> "plant", site |-> lands[i]]], died)
    BY <2>4, <2>7
  <2>10. PICK placed : placed = [i \in ids |-> [kind |-> "plant", site |-> lands[i]]]
    OBVIOUS
  <2>11. Alter(placed, died) /\ DOMAIN placed = ids /\ \A i \in ids : placed[i].kind = "plant"
    BY <2>9, <2>10
  <2>12. died \subseteq DOMAIN plants
    BY <2>3
  <2>13. DOMAIN lots \cap died = {} /\ DOMAIN lots \subseteq DOMAIN objects
    BY <2>5, <2>12 DEF RegistersAgree, IdsOfKind
  <2>14. DOMAIN plants' = (DOMAIN plants \ died) \cup ids
    <3>1. PICK w : w = Without(grown, died)
      OBVIOUS
    <3>2. DOMAIN w = DOMAIN plants \ died
      BY <2>5, <3>1 DEF Without
    <3>3. plants' = With(w, [i \in ids |-> Seedling])
      BY <2>4, <2>7, <3>1
    <3> QED
      BY <3>2, <3>3 DEF With
  <2>15. DOMAIN placed \cap DOMAIN objects = {} /\ died \subseteq IdsOfKind("plant") \cup DOMAIN lots
    BY <2>5, <2>8, <2>11, <2>12
  <2>16. Named' /\ RegistersAgree'
    <3>1. DOMAIN plants' = (DOMAIN plants \ died) \cup {i \in DOMAIN placed : placed[i].kind = "plant"}
      BY <2>11, <2>14
    <3>2. DOMAIN lots' = (DOMAIN lots \ died) \cup {i \in DOMAIN placed : placed[i].kind = "carcass"}
      BY <2>4, <2>11, <2>13
    <3>3. IsFiniteSet(DOMAIN placed) /\ DOMAIN placed \subseteq Nat /\ lost' = lost
      BY <1>1, <2>8, <2>11
    <3> QED
      BY <2>8, <2>11, <2>15, <3>1, <3>2, <3>3, PassKeeps
  <2>17. Ledger'
    <3>1. \A i \in DOMAIN objects \ died : objects'[i] = objects[i]
      BY <2>11, <2>15, AlterFacts
    <3> QED
      BY <2>4, <2>13, <3>1 DEF Ledger
  <2>18. ProductsOnce'
    <3>1. \A c \in DOMAIN made' : c \in DOMAIN made /\ made'[c] = made[c]
      BY <2>4
    <3> QED
      BY <2>11, <2>15, <3>1, ProductsStay
  <2> QED
    BY <1>1, <2>16, <2>17, <2>18, WeatherSame
<1> QED
  BY <1>2, <1>3

-----------------------------------------------------------------------------
(* The decay pass.                                                            *)

\* A lot grows older, up to its end.
LEMMA AgedFacts ==
  ASSUME NEW age \in 0..End, NEW gain \in Gains
  PROVE  Aged(age, gain) \in 0..End /\ age <= Aged(age, gain)
<1>1. gain \in Nat /\ End \in Nat
  BY StagesFacts, LandAssumption DEF LandAssumption
<1> QED
  BY <1>1 DEF Aged, End

LEMMA DecayKeeps ==
  ASSUME LandInvariant, Decay
  PROVE  LandInvariant'
<1> USE DEF LandInvariant
<1>1. UNCHANGED <<weather, lost>>
  BY DEF Decay
<1>2. CASE UNCHANGED things
  BY <1>1, <1>2, ThingsSame, WeatherSame
<1>3. CASE ~UNCHANGED things
  <2>1. PICK gain \in [DOMAIN lots -> Gains] :
          LET age == [l \in DOMAIN lots |-> Aged(lots[l], gain[l])]
              gone == {l \in DOMAIN lots : StateAt(age[l]) = Len(Stages)}
              from == {t \in (DOMAIN lots) \X Yields : t[2] \in Products(lots[t[1]], age[t[1]])}
              id == [t \in from |-> FreshId(Cardinality(UpTo(t, from)))]
              placed == [i \in {id[t] : t \in from} |->
                           LET t == CHOOSE t \in from : id[t] = i IN
                           [kind |-> Item(t[2]), site |-> objects[t[1]].site]]
          IN /\ Alter(placed, gone)
             /\ lots' = Without(age, gone)
             /\ made' = [c \in DOMAIN made |->
                           IF c \notin DOMAIN lots THEN made[c]
                           ELSE [age |-> age[c], site |-> made[c].site,
                                 out |-> With(made[c].out, [y \in Products(lots[c], age[c]) |-> id[<<c, y>>]])]]
             /\ seq' = SeqAfter(Cardinality(from))
             /\ UNCHANGED plants
    BY <1>3 DEF Decay
  <2> DEFINE age == [l \in DOMAIN lots |-> Aged(lots[l], gain[l])]
             gone == {l \in DOMAIN lots : StateAt(age[l]) = Len(Stages)}
             from == {t \in (DOMAIN lots) \X Yields : t[2] \in Products(lots[t[1]], age[t[1]])}
             id == [t \in from |-> FreshId(Cardinality(UpTo(t, from)))]
             placed == [i \in {id[t] : t \in from} |->
                          LET t == CHOOSE t \in from : id[t] = i IN
                          [kind |-> Item(t[2]), site |-> objects[t[1]].site]]
  <2>7. /\ Alter(placed, gone)
        /\ lots' = Without(age, gone)
        /\ made' = [c \in DOMAIN made |->
                      IF c \notin DOMAIN lots THEN made[c]
                      ELSE [age |-> age[c], site |-> made[c].site,
                            out |-> With(made[c].out, [y \in Products(lots[c], age[c]) |-> id[<<c, y>>]])]]
        /\ seq' = SeqAfter(Cardinality(from))
        /\ plants' = plants
    BY <2>1
  <2>2. DOMAIN age = DOMAIN lots /\ \A l \in DOMAIN lots : age[l] = Aged(lots[l], gain[l])
    OBVIOUS
  <2> HIDE DEF age
  <2>3. gone \subseteq DOMAIN lots
    OBVIOUS
  <2> HIDE DEF gone
  <2>4. from = {t \in (DOMAIN lots) \X Yields : t[2] \in Products(lots[t[1]], age[t[1]])}
    OBVIOUS
  <2> HIDE DEF from
  <2>5. id = [t \in from |-> FreshId(Cardinality(UpTo(t, from)))]
    OBVIOUS
  <2> HIDE DEF id
  <2>6. placed = [i \in {id[t] : t \in from} |->
                    LET t == CHOOSE t \in from : id[t] = i IN
                    [kind |-> Item(t[2]), site |-> objects[t[1]].site]]
    OBVIOUS
  <2> HIDE DEF placed
  \* the ages
  <2>8. ASSUME NEW l \in DOMAIN lots
        PROVE  lots[l] \in Nat /\ age[l] \in 0..End /\ lots[l] <= age[l]
    <3>1. lots[l] \in 0..End /\ gain[l] \in Gains /\ age[l] = Aged(lots[l], gain[l])
      BY <2>1, <2>2 DEF Ledger
    <3> QED
      BY <3>1, AgedFacts
  <2>9. DOMAIN age = DOMAIN lots /\ gone \subseteq DOMAIN lots
    BY <2>2, <2>3
  <2>10. /\ DOMAIN lots = IdsOfKind("carcass") \ lost.stranded
         /\ DOMAIN lots \subseteq DOMAIN objects /\ DOMAIN lots \subseteq Nat /\ gone \cap DOMAIN plants = {}
    BY <2>9 DEF RegistersAgree, Named, IdsOfKind
  \* what they turn into
  <2>11. \A t \in from : /\ t[1] \in DOMAIN lots /\ t[2] \in Yields /\ t = <<t[1], t[2]>>
                         /\ t[2] \in Products(lots[t[1]], age[t[1]])
    BY <2>4
  <2>12. IsFiniteSet(from)
    <3>1. PICK L : L = DOMAIN lots
      OBVIOUS
    <3>2. PICK D : D = DOMAIN objects /\ IsFiniteSet(D)
      BY DEF Named
    <3>3. IsFiniteSet(L)
      BY <2>10, <3>1, <3>2, FS_Subset
    <3>4. IsFiniteSet(L \X Yields)
      BY <3>3, YieldsFacts, FS_Product
    <3> QED
      BY <2>4, <3>1, <3>4, FS_Subset
  <2>13. /\ \A t \in from : Cardinality(UpTo(t, from)) \in Nat \ {0}
         /\ \A t, u \in from : Cardinality(UpTo(t, from)) = Cardinality(UpTo(u, from)) => t = u
    <3>1. \A t \in from : t[1] \in Nat /\ t[2][1] \in Nat /\ t[2][2] \in Nat /\ t = <<t[1], <<t[2][1], t[2][2]>>>>
      BY <2>10, <2>11, YieldsFacts
    <3> QED
      BY <2>12, <3>1, PlacesDiffer
  <2>14. /\ \A t \in from : id[t] \in Nat /\ id[t] \notin DOMAIN objects
         /\ \A t, u \in from : id[t] = id[u] => t = u
    <3>1. IsFiniteSet(DOMAIN objects) /\ seq \in Nat
      BY DEF Named
    <3>2. \A k \in Nat \ {0} : FreshId(k) \in Nat /\ FreshId(k) \notin DOMAIN objects
      BY <3>1, FreshIdFacts
    <3>3. 0 \in Nat
      OBVIOUS
    <3>4. \A j, k \in Nat \ {0} : FreshId(j) = FreshId(k) => j = k
      BY <3>1, <3>3, FreshIdsFacts
    <3> QED
      BY <2>5, <2>13, <3>2, <3>4
  <2>15. seq' \in Nat
    <3>1. Cardinality(from) \in Nat
      BY <2>12, FS_CardinalityType
    <3> QED
      BY <2>7, <3>1, FreshIdsFacts DEF Named
  <2>16. PICK ids : ids = {id[t] : t \in from} /\ ids = DOMAIN placed
    BY <2>6
  <2>17. IsFiniteSet(ids) /\ ids \subseteq Nat /\ ids \cap DOMAIN objects = {}
    <3>1. id = [t \in from |-> id[t]]
      BY <2>5
    <3>2. IsFiniteSet(ids)
      BY <2>12, <2>16, <3>1, ImageFinite
    <3> QED
      BY <2>14, <2>16, <3>2
  <2>18. ASSUME NEW t \in from
         PROVE  id[t] \in DOMAIN placed /\ placed[id[t]] = [kind |-> Item(t[2]), site |-> objects[t[1]].site]
    <3>1. (CHOOSE u \in from : id[u] = id[t]) = t
      BY <2>14
    <3> QED
      BY <2>6, <3>1
  <2>19. ASSUME NEW i \in DOMAIN placed PROVE placed[i].kind \notin {"plant", "carcass"}
    <3>1. PICK t \in from : i = id[t]
      BY <2>16
    <3>2. Item(t[2]) \notin {"plant", "carcass"}
      BY <2>11, LandAssumption DEF LandAssumption
    <3>3. placed[i] = [kind |-> Item(t[2]), site |-> objects[t[1]].site]
      BY <2>18, <3>1
    <3> QED
      BY <3>2, <3>3
  \* the registers
  <2>20. DOMAIN placed \cap DOMAIN objects = {} /\ gone \subseteq IdsOfKind("plant") \cup DOMAIN lots
    BY <2>9, <2>16, <2>17
  <2>21. DOMAIN lots' = DOMAIN lots \ gone /\ \A l \in DOMAIN lots' : lots'[l] = age[l]
    BY <2>7, <2>9 DEF Without
  <2>22. Named' /\ RegistersAgree'
    <3>1. DOMAIN plants' = (DOMAIN plants \ gone) \cup {i \in DOMAIN placed : placed[i].kind = "plant"}
      BY <2>7, <2>10, <2>19
    <3>2. DOMAIN lots' = (DOMAIN lots \ gone) \cup {i \in DOMAIN placed : placed[i].kind = "carcass"}
      BY <2>19, <2>21
    <3>3. IsFiniteSet(DOMAIN placed) /\ DOMAIN placed \subseteq Nat /\ lost' = lost
      BY <1>1, <2>16, <2>17
    <3> QED
      BY <2>7, <2>15, <2>20, <3>1, <3>2, <3>3, PassKeeps
  <2>23. /\ \A i \in DOMAIN objects \ gone : objects'[i] = objects[i]
         /\ \A i \in DOMAIN placed : i \in DOMAIN objects' /\ objects'[i] = placed[i]
    <3>1. /\ DOMAIN objects' = (DOMAIN objects \ gone) \cup DOMAIN placed
          /\ \A i \in DOMAIN objects \ gone : objects'[i] = objects[i]
          /\ \A i \in DOMAIN placed : objects'[i] = placed[i]
      BY <2>7, <2>20, AlterFacts
    <3> QED
      BY <3>1
  \* the ledger
  <2>24. ASSUME NEW c \in DOMAIN lots
         PROVE  /\ c \in DOMAIN made /\ made'[c].age = age[c] /\ made'[c].site = made[c].site
                /\ made'[c].out = With(made[c].out, [y \in Products(lots[c], age[c]) |-> id[<<c, y>>]])
                /\ made[c].age = lots[c] /\ made[c].site = objects[c].site
    BY <2>7 DEF Ledger
  <2>25. DOMAIN made' = DOMAIN made /\ \A c \in DOMAIN made \ DOMAIN lots : made'[c] = made[c]
    BY <2>7
  <2>26. Ledger'
    <3>1. ASSUME NEW l \in DOMAIN lots'
          PROVE  /\ l \in DOMAIN made' /\ lots'[l] \in 0..End
                 /\ made'[l].age = lots'[l] /\ made'[l].site = objects'[l].site
      BY <2>8, <2>10, <2>21, <2>23, <2>24, <2>25
    <3>2. End' = End
      BY DEF End
    <3> QED
      BY <3>1, <3>2 DEF Ledger
  \* the products
  <2>27. ASSUME NEW c \in DOMAIN made
         PROVE  /\ DOMAIN made'[c].out = Products(0, made'[c].age)
                /\ made'[c].site = made[c].site
                /\ \A y \in DOMAIN made'[c].out :
                     \/ y \in DOMAIN made[c].out /\ made'[c].out[y] = made[c].out[y]
                     \/ <<c, y>> \in from /\ made'[c].out[y] = id[<<c, y>>]
    <3>1. CASE c \notin DOMAIN lots
      BY <2>25, <3>1 DEF ProductsOnce
    <3>2. CASE c \in DOMAIN lots
      <4>1. PICK new : new = Products(lots[c], age[c])
        OBVIOUS
      <4>2. PICK old : old = made[c].out
        OBVIOUS
      <4>3. DOMAIN old = Products(0, lots[c])
        <5>1. DOMAIN made[c].out = Products(0, made[c].age)
          BY DEF ProductsOnce
        <5> QED
          BY <2>24, <3>2, <4>2, <5>1
      <4>4. Products(0, age[c]) = DOMAIN old \cup new /\ new \subseteq Yields
        BY <2>8, <3>2, <4>1, <4>3, ProductsAdd
      <4>5. made'[c].out = With(old, [y \in new |-> id[<<c, y>>]])
        BY <2>24, <3>2, <4>1, <4>2
      <4>6. /\ DOMAIN made'[c].out = DOMAIN old \cup new
            /\ \A y \in DOMAIN old : made'[c].out[y] = old[y]
            /\ \A y \in new \ DOMAIN old : made'[c].out[y] = id[<<c, y>>]
        BY <4>5 DEF With
      <4>7. \A y \in new : <<c, y>> \in from
        BY <2>4, <3>2, <4>1, <4>4
      <4> QED
        BY <2>24, <3>2, <4>2, <4>4, <4>6, <4>7
    <3> QED
      BY <3>1, <3>2
  <2>28. ASSUME NEW c \in DOMAIN made, NEW y \in DOMAIN made[c].out
         PROVE  /\ made[c].out[y] \in DOMAIN objects
                /\ made[c].out[y] \in DOMAIN objects'
                /\ objects'[made[c].out[y]] = [kind |-> Item(y), site |-> made[c].site]
    <3>1. PICK i : i = made[c].out[y]
      OBVIOUS
    <3>2. i \in DOMAIN objects /\ objects[i] = [kind |-> Item(y), site |-> made[c].site]
      BY <3>1 DEF ProductsOnce
    <3>3. y \in Yields
      <4>1. y \in Products(0, made[c].age)
        BY DEF ProductsOnce
      <4> QED
        BY <4>1 DEF Products
    <3>4. objects[i].kind \notin {"plant", "carcass"}
      BY <3>2, <3>3, LandAssumption DEF LandAssumption
    <3> QED
      BY <2>7, <2>20, <3>1, <3>2, <3>4, Kept
  <2>29. ASSUME NEW c \in DOMAIN made, NEW y, <<c, y>> \in from
         PROVE  /\ id[<<c, y>>] \notin DOMAIN objects /\ id[<<c, y>>] \in DOMAIN objects'
                /\ objects'[id[<<c, y>>]] = [kind |-> Item(y), site |-> made[c].site]
    <3>1. PICK t \in from : t = <<c, y>> /\ t[1] = c /\ t[2] = y
      BY <2>29
    <3>2. c \in DOMAIN lots
      BY <2>11, <3>1
    <3>3. placed[id[t]] = [kind |-> Item(y), site |-> made[c].site]
      BY <2>18, <2>24, <3>1, <3>2
    <3> QED
      BY <2>14, <2>18, <2>23, <3>1, <3>3
  <2>30. ProductsOnce'
    <3>1. ASSUME NEW c \in DOMAIN made', NEW y \in DOMAIN made'[c].out
          PROVE  /\ made'[c].out[y] \in DOMAIN objects'
                 /\ objects'[made'[c].out[y]] = [kind |-> Item(y), site |-> made'[c].site]
      <4>1. /\ c \in DOMAIN made /\ made'[c].site = made[c].site
            /\ \/ y \in DOMAIN made[c].out /\ made'[c].out[y] = made[c].out[y]
               \/ <<c, y>> \in from /\ made'[c].out[y] = id[<<c, y>>]
        BY <2>25, <2>27
      <4>2. CASE y \in DOMAIN made[c].out /\ made'[c].out[y] = made[c].out[y]
        BY <2>28, <4>1, <4>2
      <4>3. CASE <<c, y>> \in from /\ made'[c].out[y] = id[<<c, y>>]
        BY <2>29, <4>1, <4>3
      <4> QED
        BY <4>1, <4>2, <4>3
    <3>2. ASSUME NEW c \in DOMAIN made', NEW d \in DOMAIN made',
                 NEW y \in DOMAIN made'[c].out, NEW z \in DOMAIN made'[d].out,
                 made'[c].out[y] = made'[d].out[z]
          PROVE  c = d /\ y = z
      <4>1. /\ c \in DOMAIN made
            /\ \/ y \in DOMAIN made[c].out /\ made'[c].out[y] = made[c].out[y]
               \/ <<c, y>> \in from /\ made'[c].out[y] = id[<<c, y>>]
        BY <2>25, <2>27
      <4>2. /\ d \in DOMAIN made
            /\ \/ z \in DOMAIN made[d].out /\ made'[d].out[z] = made[d].out[z]
               \/ <<d, z>> \in from /\ made'[d].out[z] = id[<<d, z>>]
        BY <2>25, <2>27
      <4>3. PICK o : o = made'[c].out[y] /\ o = made'[d].out[z]
        BY <3>2
      <4>4. /\ y \in DOMAIN made[c].out /\ made[c].out[y] = o => o \in DOMAIN objects
            /\ z \in DOMAIN made[d].out /\ made[d].out[z] = o => o \in DOMAIN objects
        BY <2>28, <4>1, <4>2
      <4>5. CASE o \in DOMAIN objects
        <5>1. y \in DOMAIN made[c].out /\ o = made[c].out[y]
          BY <2>29, <4>1, <4>3, <4>5
        <5>2. z \in DOMAIN made[d].out /\ o = made[d].out[z]
          BY <2>29, <4>2, <4>3, <4>5
        <5>3. \A v \in DOMAIN made[c].out, w \in DOMAIN made[d].out :
                made[c].out[v] = made[d].out[w] => c = d /\ v = w
          BY <4>1, <4>2 DEF ProductsOnce
        <5> QED
          BY <5>1, <5>2, <5>3
      <4>6. CASE o \notin DOMAIN objects
        <5>1. <<c, y>> \in from /\ o = id[<<c, y>>]
          BY <4>1, <4>3, <4>4, <4>6
        <5>2. <<d, z>> \in from /\ o = id[<<d, z>>]
          BY <4>2, <4>3, <4>4, <4>6
        <5>3. <<c, y>> = <<d, z>>
          BY <2>14, <5>1, <5>2
        <5> QED
          BY <5>3
      <4> QED
        BY <4>5, <4>6
    <3>3. \A c \in DOMAIN made' : DOMAIN made'[c].out = Products(0, made'[c].age)
      BY <2>25, <2>27
    <3>4. \A y : Item(y)' = Item(y)
      BY DEF Item
    <3> QED
      BY <3>1, <3>2, <3>3, <3>4 DEF ProductsOnce, Products, StateAt
  <2> QED
    BY <1>1, <2>22, <2>26, <2>30, WeatherSame
<1> QED
  BY <1>2, <1>3

-----------------------------------------------------------------------------
(* The theorems.                                                              *)

LEMMA InitHolds == Init => LandInvariant
<1> SUFFICES ASSUME Init PROVE LandInvariant
  OBVIOUS
<1>1. PICK wet \in [Coarse -> Bands] : cells = NewCells(wet)
  BY DEF Init
<1>2. /\ objects = [i \in DOMAIN FixturePlants |-> [kind |-> "plant", site |-> FixturePlants[i]]]
      /\ spatial = DOMAIN FixturePlants /\ known = [a \in Agents |-> DOMAIN FixturePlants]
      /\ plants = [i \in DOMAIN FixturePlants |-> [length |-> MatureAt, streak |-> 0]]
      /\ lots = <<>> /\ seq = 0 /\ nav = Ground /\ before = [c \in Coarse |-> None]
      /\ touched = {} /\ made = <<>> /\ lost = [ghosts |-> {}, stranded |-> {}]
  BY DEF Init
<1>3. DOMAIN lots = {} /\ DOMAIN made = {} /\ DOMAIN objects = DOMAIN FixturePlants
  BY <1>2
<1>4. IdsOfKind("plant") = DOMAIN FixturePlants /\ IdsOfKind("carcass") = {}
  BY <1>2 DEF IdsOfKind
<1>5. IsFiniteSet(DOMAIN objects)
  BY <1>3, LandAssumption DEF LandAssumption
<1>6. Named
  BY <1>2, <1>4, <1>5 DEF Named
<1>7. RegistersAgree
  BY <1>2, <1>3, <1>4 DEF RegistersAgree
<1>8. Ledger /\ ProductsOnce
  BY <1>3 DEF Ledger, ProductsOnce
<1>9. Weather
  <2>1. \A c \in Coarse : /\ cells[c] = [terrain |-> Ground[Centre[c]], frozenFrom |-> None, wet |-> wet[c]]
                          /\ Ground[Centre[c]] \in Terrain /\ wet[c] \in Bands
    BY <1>1, LandAssumption DEF NewCells, LandAssumption
  <2>2. None # Ice /\ Origin \notin Terrain
    BY LandAssumption DEF LandAssumption
  <2>3. cells \in [Coarse -> [terrain : Terrain, frozenFrom : Terrain \cup {None}, wet : Bands]]
    <3>1. PICK R : R = [terrain : Terrain, frozenFrom : Terrain \cup {None}, wet : Bands]
      OBVIOUS
    <3>2. ASSUME NEW c \in Coarse PROVE cells[c] \in R
      <4>1. PICK t \in Terrain, w \in Bands : cells[c] = [terrain |-> t, frozenFrom |-> None, wet |-> w]
        BY <2>1
      <4> QED
        BY <3>1, <4>1
    <3>3. cells = [c \in Coarse |-> cells[c]]
      BY <1>1 DEF NewCells
    <3> QED
      BY <3>1, <3>2, <3>3
  <2>4. \A c \in Coarse : cells[c].terrain \in Terrain /\ cells[c].frozenFrom = None /\ before[c] = None
    <3>1. ASSUME NEW c \in Coarse PROVE cells[c].terrain \in Terrain /\ cells[c].frozenFrom = None
      <4>1. PICK t \in Terrain, w \in Bands : cells[c] = [terrain |-> t, frozenFrom |-> None, wet |-> w]
        BY <2>1
      <4> QED
        BY <4>1
    <3> QED
      BY <1>2, <3>1
  <2>5. IceRemembers
    BY <2>4 DEF IceRemembers
  <2>6. NavFollowsClimate
    <3>1. \A s \in Sites : CoarseOf[s] \in Coarse /\ Ground[s] \in Terrain
      BY LandAssumption DEF LandAssumption
    <3> QED
      BY <1>2, <2>2, <2>4, <3>1 DEF NavFollowsClimate
  <2> QED
    BY <2>2, <2>3, <2>4, <2>5, <2>6 DEF Weather
<1> QED
  BY <1>6, <1>7, <1>8, <1>9 DEF LandInvariant

LEMMA NextKeeps == LandInvariant /\ [Next]_vars => LandInvariant'
<1> SUFFICES ASSUME LandInvariant, [Next]_vars PROVE LandInvariant'
  OBVIOUS
<1>1. CASE Begin
  BY <1>1, StillKeeps DEF Begin
<1>2. CASE EndApply
  BY <1>2, StillKeeps DEF EndApply
<1>3. CASE Climate
  BY <1>3, ClimateKeeps
<1>4. CASE Flora
  BY <1>4, FloraKeeps
<1>5. CASE Decay
  BY <1>5, DecayKeeps
<1>6. CASE Resume
  BY <1>6, ResumeKeeps
<1>7. ASSUME NEW s \in Sites, Kill(s) PROVE LandInvariant'
  BY <1>7, KillKeeps
<1>8. ASSUME NEW id \in DOMAIN lots, Feed(id) PROVE LandInvariant'
  BY <1>8, FeedKeeps
<1>9. ASSUME NEW p \in DOMAIN plants, NEW amount \in 1..2, Graze(p, amount) PROVE LandInvariant'
  BY <1>9, GrazeKeeps
<1>10. CASE UNCHANGED vars
  BY <1>10, StillKeeps DEF vars, things, weather
<1> QED
  BY <1>1, <1>2, <1>3, <1>4, <1>5, <1>6, <1>7, <1>8, <1>9, <1>10 DEF Next

\* The registers, the lots' ledger, the products and the weather hold together at every step:
\* each pass writes the object table, the index, what agents know, the plants and the lots so
\* that they tell of the same things (env.go PlaceObject, RemoveObject and the three passes).
THEOREM LandHolds == Spec => []LandInvariant
<1>1. Init => LandInvariant
  BY InitHolds
<1>2. LandInvariant /\ [Next]_vars => LandInvariant'
  BY NextKeeps
<1> QED
  BY <1>1, <1>2, PTL DEF Spec

\* The object table, the index, each agent's knowledge, the plants and the lots always agree,
\* but for the ghosts and the stranded carcasses that a resume leaves.
THEOREM RegistersAgreeHolds == Spec => []RegistersAgree
<1>1. LandInvariant => RegistersAgree
  BY DEF LandInvariant
<1> QED
  BY <1>1, LandHolds, PTL

\* The navmap shows the terrain of the climate grid wherever that has changed and the
\* fixture's elsewhere, and the thaw rules' sentinel never reaches either (env.go, step.go).
THEOREM NavFollowsClimateHolds == Spec => []NavFollowsClimate
<1>1. LandInvariant => NavFollowsClimate
  BY DEF LandInvariant, Weather
<1> QED
  BY <1>1, LandHolds, PTL

\* A cell remembers the terrain it froze from while it is ice and nothing otherwise, under
\* rules by which ice only thaws (climate.go FrozenFrom).
THEOREM IceRemembersHolds == Spec => []IceRemembers
<1>1. LandInvariant => IceRemembers
  BY DEF LandInvariant, Weather
<1> QED
  BY <1>1, LandHolds, PTL

\* A carcass leaves the products of the states it passed, where it lay, each once, however
\* many states one pass takes it through and however many carcasses share the pass.
THEOREM ProductsOnceHolds == Spec => []ProductsOnce
<1>1. LandInvariant => ProductsOnce
  BY DEF LandInvariant
<1> QED
  BY <1>1, LandHolds, PTL
===============================================================================
