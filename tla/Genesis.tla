------------------------------ MODULE Genesis ------------------------------
(***************************************************************************)
(* How a world begins, and a species begins again (tools/worldgen, the hex       *)
(* layout of engine/space/navmap, engine/world/respawn.go): relief becomes        *)
(* terrain, terrain is populated, the first of each species becomes its anchor,   *)
(* and where a species dies out founders arrive at the anchor, whatever has        *)
(* become of the ground there.                                               *)
(*                                                                         *)
(* Abstractions.  The noise may yield any of Reliefs, in hundredths; a draw may    *)
(* hit any cell; moisture is given by the distance to water it falls with.  A       *)
(* point of the world is the hexagon it lies in: the layout holds all of those,      *)
(* the navmap only those whose centre is in bounds.  Headings, ages, the seeds of     *)
(* the streams, agents, objects and lots (placed as listed) are left out.              *)
(***************************************************************************)
EXTENDS Integers, Sequences, FiniteSets, FiniteSetsExt, SequencesExt

CONSTANTS
  Cols, Rows,      \* OffsetDimsOf
  Charted,         \* the cells whose centre is in bounds
  Fringe,          \* the others that points of the world lie in
  LeastRiver,      \* the least catchment of a river (6), if the land is small
  Starts,          \* what a load begins with: [relief, explicit, listed, density, targets]
  Plants,          \* the species of plants
  Capacity(_, _, _), \* CarryingCapacity of a species on a terrain so far from water
  KRef,            \* floraDensityKRef
  Impassable,      \* the terrains nobody enters
  Barred,          \* species of animals -> the terrains it cannot enter
  MaxTries,        \* maxPlaceTries, densityMaxTriesPerSlot
  MaxFloods        \* bound: cells the climate drowns
VARIABLES
  stage,    \* "load", "place", "live", or "error": Load gave up
  start,    \* the Start chosen
  land,     \* what GenerateTerrain made of it
  queue,    \* the placements still to be made
  tries,    \* tries of the first of them
  placed,   \* plants and animals: [id, species, cell]
  anchors,  \* respawnAnchors
  flooded,  \* terrain overrides of the navmap
  arrived   \* the animals runRespawn has just made
genesisVars == <<stage, start, land, queue, tries, placed, anchors, flooded, arrived>>
None == <<>>
-----------------------------------------------------------------------------
(* The layout: offset(col, row) and axial(q, r).                               *)
Layout == (0..Cols - 1) \X (0..Rows - 1)
World == Charted \cup Fringe
HexDirs == << <<1, 0>>, <<1, -1>>, <<0, -1>>, <<-1, 0>>, <<-1, 1>>, <<0, 1>> >>
AxialToOffset(a) == <<a[1], a[2] + (a[1] + (a[1] % 2)) \div 2>>
OffsetToAxial(c) == <<c[1], c[2] - (c[1] + (c[1] % 2)) \div 2>>
OffsetNeighborsOf(c) ==
  [i \in DOMAIN HexDirs |->
     AxialToOffset(<<OffsetToAxial(c)[1] + HexDirs[i][1], OffsetToAxial(c)[2] + HexDirs[i][2]>>)]
Around(c) == SelectSeq(OffsetNeighborsOf(c), LAMBDA d : d \in Layout)
InOrder(S, Less(_, _)) ==
  [i \in 1..Cardinality(S) |-> CHOOSE x \in S : Cardinality({y \in S : Less(y, x)}) = i - 1]
Before(c, d) == c[2] < d[2] \/ (c[2] = d[2] /\ c[1] < d[1])   \* row-major

\* the per mille of the relief's values that lie below, nearest rank
QuantileOf(e, permille) ==
  LET rank == (permille * Cols * Rows) \div 1000 IN
  CHOOSE v \in Range(e) :
    /\ Cardinality({c \in Layout : e[c] < v}) <= rank
    /\ rank < Cardinality({c \in Layout : e[c] <= v})
-----------------------------------------------------------------------------
(* GenerateTerrain: sea, hydrology, materials, moisture.                         *)
Downhill(e, c) ==
  LET nbs == Around(c)
      lower == {i \in DOMAIN nbs : e[nbs[i]] < e[c]}
      lowest == {i \in lower : \A j \in lower : e[nbs[i]] <= e[nbs[j]]}
  IN IF lower = {} THEN None ELSE nbs[Min(lowest)]

\* A plausible bug: the lowest cells are visited first.
DrainOrder_Upwards(e, cells) ==
  InOrder(cells, LAMBDA c, d : e[c] < e[d] \/ (e[c] = e[d] /\ Before(c, d)))
DrainOrder(e, cells) ==
  InOrder(cells, LAMBDA c, d : e[c] > e[d] \/ (e[c] = e[d] /\ Before(c, d)))

Accumulate(order, down) ==
  FoldLeft(LAMBDA acc, c :
             LET rained == [acc EXCEPT ![c] = @ + 1] IN
             IF down[c] = None THEN rained ELSE [rained EXCEPT ![down[c]] = @ + rained[c]],
           [c \in Layout |-> 0], order)

RiverThreshold(dry) == Max({LeastRiver, Cardinality(dry) \div 22})
Carved(e, acc, threshold) == Max({0, e - (15 * Min({acc, 3 * threshold})) \div (3 * threshold)})

\* breadth first from every cell of water
RECURSIVE Reached(_, _)
Reached(dist, frontier) ==
  IF frontier = <<>> THEN dist
  ELSE LET c == Head(frontier)
           found == SelectSeq(Around(c), LAMBDA d : dist[d] > dist[c] + 1)
       IN Reached([d \in Layout |-> IF d \in Range(found) THEN dist[c] + 1 ELSE dist[d]],
                  Tail(frontier) \o found)
WaterDistance(water) ==
  Reached([c \in Layout |-> IF c \in water THEN 0 ELSE Cols * Rows], InOrder(water, Before))

Material(e, level, c, wet) ==
  CASE e >= level.rock -> "bare_rock"
    [] e < level.rock /\ e >= level.mountain -> "mountain"
    [] e < level.mountain /\ e <= level.sea + 6 /\ Range(Around(c)) \cap wet # {} -> "sand"
    [] OTHER -> "soil"

GenerateTerrain(e) ==
  LET level == [sea |-> QuantileOf(e, 160), mountain |-> QuantileOf(e, 860), rock |-> QuantileOf(e, 965)]
      sea == {c \in Layout : e[c] < level.sea}
      dry == Layout \ sea
      down == [c \in Layout |-> IF c \in sea THEN None ELSE Downhill(e, c)]
      acc == Accumulate(DrainOrder(e, dry), down)
      lakes == {c \in dry : down[c] = None}
      rivers == {c \in dry \ lakes : acc[c] >= RiverThreshold(dry)}
      water == sea \cup lakes \cup rivers
  IN [cells |-> [c \in Layout |->
                   CASE c \in sea -> "sea" [] c \in lakes -> "lake" [] c \in rivers -> "river"
                     [] OTHER -> Material(e[c], level, c, water)],
      elevation |-> [c \in Layout |-> IF c \in rivers THEN Carved(e[c], acc[c], RiverThreshold(dry)) ELSE e[c]],
      dist |-> WaterDistance(water), down |-> down, catchment |-> acc]
-----------------------------------------------------------------------------
(* Load: materialize, then place the listed and the numerous, in a fixed order.   *)
Sorted(S) == InOrder(S, LAMBDA a, b : a.id < b.id)
Slots(s) ==
  LET Of(S) == Sorted({[id |-> l.id, species |-> l.species, listed |-> TRUE] :
                         l \in {m \in s.listed : m.species \in S}})
      Many(S) == FlattenSeq([i \in 1..Cardinality(S) |->
                   LET sp == InOrder(S, LAMBDA a, b : a < b)[i] IN
                   [k \in 1..s.density[sp] |-> [id |-> 10 * sp + k, species |-> sp, listed |-> FALSE]]])
  IN Of(Plants) \o Of(DOMAIN Barred)
       \o Many(DOMAIN s.density \cap Plants) \o Many(DOMAIN s.density \cap DOMAIN Barred)

GenesisInit ==
  /\ stage = "load" /\ start = None /\ land = None /\ queue = <<>> /\ tries = 0
  /\ placed = {} /\ anchors = <<>> /\ flooded = {} /\ arrived = {}

\* an explicit layout has no moisture: validateFixtureShape lets it have no relief either
Materialize(s) ==
  /\ stage = "load"
  /\ start' = s
  /\ land' = IF s.explicit = None THEN GenerateTerrain(s.relief)
             ELSE [cells |-> s.explicit, dist |-> [c \in Layout |-> Cols * Rows]]
  /\ queue' = Slots(s) /\ stage' = "place"
  /\ UNCHANGED <<tries, placed, anchors, flooded, arrived>>

AnimalCanOccupy(sp, terrain) == terrain \notin Impassable /\ terrain \notin Barred[sp]
FloraK(sp, c) == Capacity(sp, land.cells[c], land.dist[c])
MayTake(slot, c) ==
  IF slot.listed THEN land.cells[c] = "soil"
  ELSE IF slot.species \in Plants THEN FloraK(slot.species, c) > 0
  ELSE AnimalCanOccupy(slot.species, land.cells[c])
MayRefuse(slot, c) ==
  \/ ~MayTake(slot, c)
  \/ ~slot.listed /\ slot.species \in Plants /\ FloraK(slot.species, c) < KRef

Take(c) ==
  /\ stage = "place" /\ queue # <<>> /\ MayTake(Head(queue), c)
  /\ placed' = placed \cup {[id |-> Head(queue).id, species |-> Head(queue).species, cell |-> c]}
  /\ queue' = Tail(queue) /\ tries' = 0
  /\ UNCHANGED <<stage, start, land, anchors, flooded, arrived>>

\* out of tries, a listed placement fails the load, a numerous one is skipped
Refuse(c) ==
  /\ stage = "place" /\ queue # <<>> /\ MayRefuse(Head(queue), c)
  /\ IF tries + 1 < MaxTries THEN tries' = tries + 1 /\ UNCHANGED <<stage, queue>>
     ELSE /\ tries' = 0
          /\ IF Head(queue).listed THEN stage' = "error" /\ UNCHANGED queue
             ELSE queue' = Tail(queue) /\ UNCHANGED stage
  /\ UNCHANGED <<start, land, placed, anchors, flooded, arrived>>

Animals == {a \in placed : a.species \in DOMAIN Barred}
Members(sp) == {a \in Animals : a.species = sp}
\* respawnInputs: the first of each species, in the order of the IDs
Anchors == [sp \in {a.species : a \in Animals} |->
              (CHOOSE a \in Members(sp) : \A b \in Members(sp) : a.id <= b.id).cell]
Install ==
  /\ stage = "place" /\ queue = <<>>
  /\ stage' = "live" /\ anchors' = Anchors
  /\ UNCHANGED <<start, land, queue, tries, placed, flooded, arrived>>
-----------------------------------------------------------------------------
(* The world lives: animals die, the climate drowns soil, extinct species return.  *)
TerrainAt(c) == IF c \notin Charted THEN "" ELSE IF c \in flooded THEN "lake" ELSE land.cells[c]
CanRespawnAt(sp, c) == TerrainAt(c) \notin Barred[sp]

Die(a) ==
  /\ stage = "live" /\ a \in Animals
  /\ placed' = placed \ {a} /\ arrived' = {}
  /\ UNCHANGED <<stage, start, land, queue, tries, anchors, flooded>>

Flood(c) ==
  /\ stage = "live" /\ TerrainAt(c) = "soil" /\ Cardinality(flooded) < MaxFloods
  /\ flooded' = flooded \cup {c} /\ arrived' = {}
  /\ UNCHANGED <<stage, start, land, queue, tries, placed, anchors>>

Origin == <<0, 0>>
AnchorOf(sp) == IF sp \in DOMAIN anchors THEN anchors[sp] ELSE Origin
Near(c) == {c} \cup (Range(OffsetNeighborsOf(c)) \cap World)
RespawnPos(sp, base) ==
  {c \in Near(base) : CanRespawnAt(sp, c)} \cup
    (IF CanRespawnAt(sp, base) THEN {base} ELSE Near(base))

\* runRespawn for one extinct species: each founder near one who came before, or the anchor
Founders(sp) ==
  FoldLeft(LAMBDA groups, k : UNION {{Append(f, c) : c \in UNION {RespawnPos(sp, d) : d \in Range(f)}} : f \in groups},
           {<<c>> : c \in RespawnPos(sp, AnchorOf(sp))}, [k \in 1..start.targets[sp] - 1 |-> k])
Revive(sp) ==
  /\ stage = "live" /\ DOMAIN anchors # {}   \* a world loaded without animals has no respawn
  /\ Members(sp) = {} /\ sp \in DOMAIN start.targets
  /\ \E f \in Founders(sp) :
       LET news == {[id |-> 100 * sp + k, species |-> sp, cell |-> f[k]] : k \in DOMAIN f} IN
       placed' = placed \cup news /\ arrived' = news
  /\ UNCHANGED <<stage, start, land, queue, tries, anchors, flooded>>

GenesisNext ==
  \/ \E s \in Starts : Materialize(s)
  \/ \E c \in World : Take(c) \/ Refuse(c)
  \/ Install
  \/ \E a \in Animals : Die(a)
  \/ \E c \in Charted : Flood(c)
  \/ \E sp \in DOMAIN Barred : Revive(sp)
-----------------------------------------------------------------------------
(* Properties.                                                               *)
Generated == stage = "place" /\ tries = 0 /\ placed = {} /\ start.explicit = None
Wet == {"sea", "lake", "river"}
RECURSIVE Course(_)
Course(c) == IF land.down[c] = None THEN {c} ELSE {c} \cup Course(land.down[c])
Distance(c, d) ==
  LET a == OffsetToAxial(c)
      b == OffsetToAxial(d)
      q == a[1] - b[1]
      r == a[2] - b[2]
      abs(n) == IF n < 0 THEN -n ELSE n
  IN (abs(q) + abs(q + r) + abs(r)) \div 2

\* The rain that a cell gathers is the land it drains (the order of the cells is right, none is
\* counted twice or too late); so a river, once one, runs on to lake or sea, and its bed, cut
\* deeper the more it carries, never rises (generate_terrain.go, hydrology).
RiversRun ==
  Generated =>
    /\ \A c \in {d \in Layout : land.cells[d] # "sea"} :
         land.catchment[c] = Cardinality({d \in Layout : land.cells[d] # "sea" /\ c \in Course(d)})
    /\ \A c \in Layout : land.cells[c] = "river" =>
         /\ land.cells[land.down[c]] \in Wet
         /\ land.cells[land.down[c]] = "river" => land.elevation[land.down[c]] <= land.elevation[c]

\* The moisture that the climate and the plants start from falls with the true distance to the
\* nearest water, across the shifted columns of the layout (waterDistanceBFS).
WetByDistance ==
  Generated =>
    \A c \in Layout :
      LET far == {Distance(c, d) : d \in {x \in Layout : land.cells[x] \in Wet}}
      IN far # {} /\ land.dist[c] = Min(far)

\* Who was placed for its number stands, as the world reads the ground, where its kind can
\* live; and who comes back after all had died does too, unless the anchor itself is no place
\* for it: drowned since, or never set because none was placed (density.go, respawn.go).
AtHome(a) == TerrainAt(a.cell) \notin Barred[a.species]
Settled ==
  /\ stage = "live" /\ flooded = {} =>
       \A p \in placed : p.id \in 11..99 /\ p.cell \in Charted =>
         IF p.species \in Plants THEN Capacity(p.species, TerrainAt(p.cell), land.dist[p.cell]) > 0
         ELSE AtHome(p) /\ TerrainAt(p.cell) \notin Impassable
  /\ \A a \in arrived : AtHome(a) \/ ~CanRespawnAt(a.species, AnchorOf(a.species))
=============================================================================
