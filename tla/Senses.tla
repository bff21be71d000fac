------------------------------- MODULE Senses -------------------------------
(***************************************************************************)
(* What a creature can perceive where it stands: the spatial hash that answers  *)
(* every "who is near" (engine/space/spatial), the line of sight marched        *)
(* through it (engine/mind/perception), and the shelter from wind and sky that   *)
(* blockers give (engine/env/exposure, world/shelter.go).  The world is the      *)
(* actor: it inserts, moves and removes what it holds, asks, and installs the     *)
(* shelter it was generated with.                                            *)
(*                                                                         *)
(* Abstractions.  Positions are points of a small square grid; the geometry of  *)
(* the march is exact (lengths are compared by their squares).  A bucket is a     *)
(* set: answers are sorted.  Exposure counts in parts of Whole.  Smell and         *)
(* Hearing, whose answers the agent drops, are left out.                       *)
(***************************************************************************)
EXTENDS Integers, Sequences, FiniteSets, FiniteSetsExt, SequencesExt, Functions

CONSTANTS
  Things,       \* what the hash may hold
  Opaque,       \* those of them that block sight (WorldSnapshot.IsOpaque)
  Xs, Ys,       \* the coordinates they take
  CellSize,     \* core.spatial_hash_cell
  SightRadius,  \* perception.sight_radius
  Hexes,        \* the navmap cells in bounds
  Barriers,     \* exposure.Blocker: [at, length, opacity]; length = ceil(Height * ShadowCellsPerHeight)
  Whole, Falloff, MinEpsilon, \* no attenuation; loss of attenuation per cell; exposure.Config.MinEpsilon
  Coverages     \* coverage of a coverer, in parts of Whole

VARIABLES
  buckets, idToCell, entities,      \* SpatialHash
  blockers, slots, cover            \* World.exposureBlockers, Cache.slots, World.exposureCover
senseVars == <<buckets, idToCell, entities, blockers, slots, cover>>

Sectors == 0..5
Places2D == Xs \X Ys
None == <<>>
Restricted(f, S) == [x \in DOMAIN f \cap S |-> f[x]]

-----------------------------------------------------------------------------
(* SpatialHash.                                                              *)

\* floorDiv rounds towards minus infinity, as \div does
CellOf(p) == <<p[1] \div CellSize, p[2] \div CellSize>>
BucketAt(b, c) == IF c \in DOMAIN b THEN b[c] ELSE {}
AddTo(b, c, id, p) == [b EXCEPT ![c] = @ \cup {<<id, p>>}]
RemoveFromBucket(b, c, id) == [b EXCEPT ![c] = {e \in @ : e[1] # id}]

Record(id, p) ==
  /\ idToCell' = [k \in DOMAIN idToCell \cup {id} |-> IF k = id THEN CellOf(p) ELSE idToCell[k]]
  /\ entities' = [k \in DOMAIN entities \cup {id} |-> IF k = id THEN p ELSE entities[k]]

Insert(id, p) ==
  /\ buckets' = AddTo(IF id \in DOMAIN idToCell THEN RemoveFromBucket(buckets, idToCell[id], id) ELSE buckets, CellOf(p), id, p)
  /\ Record(id, p)

\* Move: in place while the cell stays the same.
Move_InPlace(id, p) ==
  /\ buckets' = IF id \notin DOMAIN idToCell THEN AddTo(buckets, CellOf(p), id, p)
                ELSE IF idToCell[id] = CellOf(p) THEN buckets
                ELSE AddTo(RemoveFromBucket(buckets, idToCell[id], id), CellOf(p), id, p)
  /\ Record(id, p)
Move(id, p) ==
  /\ buckets' =
       IF id \in DOMAIN idToCell /\ idToCell[id] = CellOf(p)
       THEN [buckets EXCEPT ![CellOf(p)] = {IF e[1] = id THEN <<id, p>> ELSE e : e \in @}]
       ELSE AddTo(IF id \in DOMAIN idToCell THEN RemoveFromBucket(buckets, idToCell[id], id) ELSE buckets, CellOf(p), id, p)
  /\ Record(id, p)

Erase(id) ==
  /\ id \in DOMAIN idToCell
  /\ buckets' = RemoveFromBucket(buckets, idToCell[id], id)
  /\ idToCell' = Restricted(idToCell, Things \ {id})
  /\ entities' = Restricted(entities, Things \ {id})

DistSq(p, q) == (p[1] - q[1]) * (p[1] - q[1]) + (p[2] - q[2]) * (p[2] - q[2])

\* NearbyEntities: only the cells that the square around the centre touches are scanned.
NearbyEntities(p, radius) ==
  LET lo == CellOf(<<p[1] - radius, p[2] - radius>>)
      hi == CellOf(<<p[1] + radius, p[2] + radius>>)
  IN UNION {{e \in BucketAt(buckets, c) : DistSq(e[2], p) <= radius * radius} : c \in (lo[1]..hi[1]) \X (lo[2]..hi[2])}

-----------------------------------------------------------------------------
(* Sight.                                                                    *)

Floor(dSq) == CHOOSE n \in 0..dSq : n * n <= dSq /\ (n + 1) * (n + 1) > dSq

\* The i-th point of the march from o to t is near enough to n for the query at it to return
\* n.  From three units on, the points are one unit apart and the query reaches 3/5; nearer
\* targets are marched in thirds of the way, and the query reaches a fifth of it (1/2 at least).
NearMarch(o, t, i, n) ==
  LET dSq == DistSq(o, t)
      along == (n[1] - o[1]) * (t[1] - o[1]) + (n[2] - o[2]) * (t[2] - o[2])
      far == 25 * (DistSq(o, n) + i * i) - 9
      third == <<3 * (n[1] - o[1]) - i * (t[1] - o[1]), 3 * (n[2] - o[2]) - i * (t[2] - o[2])>>
  IN IF dSq >= 9
     THEN far <= 0 \/ (along > 0 /\ far * far * dSq <= 2500 * i * i * along * along)
     ELSE LET gap == third[1] * third[1] + third[2] * third[2] IN 4 * gap <= 9 \/ 25 * gap <= 9 * dSq

\* isOccluded: an opaque entity near the march, ahead of the observer and before the target.
IsOccluded(o, target, t) ==
  LET steps == IF DistSq(o, t) >= 9 THEN Floor(DistSq(o, t)) ELSE 3 IN
  \E i \in 1..(steps - 1) : \E n \in (DOMAIN entities \cap Opaque) \ {target} :
    LET p == entities[n]
        along == (p[1] - o[1]) * (t[1] - o[1]) + (p[2] - o[2]) * (t[2] - o[2])
    IN NearMarch(o, t, i, p) /\ along > 0 /\ along < DistSq(o, t)

\* Sight: what stands where the observer stands is skipped, itself foremost.
Sight(o) == {e \in NearbyEntities(o, SightRadius) : e[2] # o /\ ~IsOccluded(o, e[1], e[2])}

-----------------------------------------------------------------------------
(* Exposure.                                                                 *)

\* newNavTopo: the neighbour in the direction of each wind sector
Downwind == << <<1, 0>>, <<0, 1>>, <<-1, 1>>, <<-1, 0>>, <<0, -1>>, <<1, -1>> >>
Step(c, s, d) == <<c[1] + d * Downwind[s + 1][1], c[2] + d * Downwind[s + 1][2]>>

Attenuation(b, d) == IF (d - 1) * Falloff >= Whole THEN 0 ELSE (b.opacity * (Whole - (d - 1) * Falloff)) \div Whole

\* the cells a blocker shadows: downwind until the length, the border or the end of its power
Shadow(b, s) ==
  {d \in 1..b.length : Attenuation(b, d) > 0 /\ \A j \in 1..d : Step(b.at, s, j) \in Hexes}

\* Build: what the blockers leave of the wind, as a sparse field.
Build(s, bs) ==
  LET touched == UNION {{Step(b.at, s, d) : d \in Shadow(b, s)} : b \in bs}
      shadows(c) == {<<b, d>> \in bs \X (1..Cardinality(Hexes)) : d \in Shadow(b, s) /\ Step(b.at, s, d) = c}
      left(c) == FoldSet(LAMBDA x, e : (e * (Whole - Attenuation(x[1], x[2]))) \div Whole, Whole, shadows(c))
      eps(c) == Max({MinEpsilon, left(c)})
  IN [c \in {c \in touched : eps(c) # Whole} |-> eps(c)]
Epsilon(field, c) == IF c \in DOMAIN field THEN field[c] ELSE Whole

\* BuildCover, for coverers of one cell each
BuildCover(coverage) == [c \in {c \in DOMAIN coverage : coverage[c] > 0} |-> Max({MinEpsilon, Whole - coverage[c]})]

\* Cache.Field, as localWindAt asks for it, and what it answers
LocalWind(s) ==
  /\ slots' = [slots EXCEPT ![s] = IF @ = {} THEN {Build(s, blockers)} ELSE @]
  /\ UNCHANGED <<blockers, cover, buckets, idToCell, entities>>

InstallShelter_KeepsCache(bs, coverage) ==
  /\ blockers' = bs /\ UNCHANGED slots
  /\ cover' = BuildCover(coverage)
InstallShelter(bs, coverage) ==
  /\ blockers' = bs
  /\ slots' = [s \in Sectors |-> {}]
  /\ cover' = BuildCover(coverage)

\* localTempMoistureAt: between what it is and the mean, by the cover overhead.
Felt(actual, mean, c) == actual + ((mean - actual) * (Whole - Epsilon(cover, c))) \div Whole

-----------------------------------------------------------------------------
SensesInit ==
  /\ buckets = [c \in {CellOf(p) : p \in Places2D} |-> {}] /\ idToCell = None /\ entities = None
  /\ blockers = {} /\ slots = [s \in Sectors |-> {}] /\ cover = None

Shelter == /\ \E bs \in SUBSET Barriers, k \in Coverages : InstallShelter(bs, [c \in {b.at : b \in bs} |-> k])
           /\ UNCHANGED <<buckets, idToCell, entities>>
Place == /\ \E id \in Things, p \in Places2D : Insert(id, p) \/ Move(id, p)
         /\ UNCHANGED <<blockers, slots, cover>>
Vanish == (\E id \in Things : Erase(id)) /\ UNCHANGED <<blockers, slots, cover>>

\* bound: the wind is asked for in two sectors between installations
Asked == Cardinality({s \in Sectors : slots'[s] # {}}) <= 2

\* bound: things move while there is no shelter to ask about, and shelter is installed with
\* nothing in the hash: the two share no state
SensesNext ==
  \/ blockers = {} /\ UNION Range(slots) = {} /\ (Place \/ Vanish)
  \/ DOMAIN entities = {} /\ (Shelter \/ \E s \in Sectors : LocalWind(s) /\ Asked)

-----------------------------------------------------------------------------
(* Properties.                                                               *)

\* After any insertions, moves and removals the hash answers every question of distance as
\* a look at every entity would: none is missed at a border of cells, reported where it was,
\* or twice.
NearbyExact ==
  \A p \in Places2D, r \in 0..(2 * CellSize) :
    NearbyEntities(p, r) = {<<id, entities[id]>> : id \in {id \in DOMAIN entities : DistSq(entities[id], p) <= r * r}}

\* The march is a line of sight: what stands exactly on the way hides what is behind it, from
\* wherever it is looked at; and what hides stands between and within 3/5 of the line.
SightIsLine ==
  \A o \in Places2D : LET seen == Sight(o) IN \A id \in DOMAIN entities :
    LET t == entities[id]
        way == <<t[1] - o[1], t[2] - o[2]>>
        rel(n) == <<entities[n][1] - o[1], entities[n][2] - o[2]>>
        along(n) == rel(n)[1] * way[1] + rel(n)[2] * way[2]
        cross(n) == rel(n)[1] * way[2] - rel(n)[2] * way[1]
        between == {n \in (DOMAIN entities \cap Opaque) \ {id} : along(n) > 0 /\ along(n) < DistSq(o, t)}
    IN (t # o /\ DistSq(o, t) <= SightRadius * SightRadius) =>
       /\ (\E n \in between : cross(n) = 0) => <<id, t>> \notin seen
       /\ <<id, t>> \notin seen => \E n \in between : 25 * cross(n) * cross(n) <= 9 * DistSq(o, t)

\* Shelter lies in the lee: the wind that reaches a cell past one blocker is the wind that
\* would reach the blocker's cell from the opposite side past one standing there; another
\* blocker never lets more wind through; and the cached answer is the one the installed
\* blockers give.
LeeOnly ==
  \A s \in Sectors : \A field \in slots[s] :
    /\ \A b \in blockers : LET alone == Build(s, {b}) IN \A c \in Hexes :
         /\ Epsilon(field, c) <= Epsilon(alone, c)
         /\ Epsilon(alone, c) = Epsilon(Build((s + 3) % 6, {[b EXCEPT !.at = c]}), b.at)
    /\ \A c \in DOMAIN field : \E b \in blockers : c \in DOMAIN Build(s, {b})

\* Cover brings what is felt from the weather towards the mean, never past it.
CoverBetween ==
  \A c \in Hexes, actual, mean \in {0, Whole} :
    Felt(actual, mean, c) \in Min({actual, mean})..Max({actual, mean})
=============================================================================
