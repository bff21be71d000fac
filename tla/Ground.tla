------------------------------- MODULE Ground -------------------------------
(***************************************************************************)
(* The navigation cost field, the path search over it and the potential fields  *)
(* flooded through it (engine/space/navmap, pathfind, field; world/hazard.go,   *)
(* world/water.go).  The world repaints terrain; walls and trails are changed   *)
(* by the calls navmap offers.                                               *)
(*                                                                         *)
(* Abstractions.  A position is a hexagon and one of seven places in it, and   *)
(* distance is counted in steps between such places: a metric under which, as  *)
(* under Euclid's, the six neighbours are equally far.  A cost is a whole      *)
(* number: the wear multiplier counts in parts of Full.  String-pulling the    *)
(* waypoints (they follow the cell path) and the ceiling of 2^22 expansions     *)
(* (there are fewer cells) are left out.                                      *)
(***************************************************************************)
EXTENDS Integers, Sequences, FiniteSets, SequencesExt, FiniteSetsExt

CONSTANTS
  Cells,        \* the cells whose centre is in bounds, as <<q, r>>
  Types,        \* content/terrain.yaml: TerrainID -> [cost, passable, needs]
  Base,         \* terrainSrc: the layout the map was built with
  WearMax, Full, MinFactor, \* wear limit; multiplier of no wear and of WearMax, times Full
  Drinkable, FieldDecay,    \* the drinkable terrains; field decay per unit of distance
  MaxEdits      \* bound: calls that change the map

VARIABLES
  overrides,    \* NavMap.terrainOverrides: cell -> terrain, sparse
  footprint,    \* NavMap.footprint: the walled cells
  wear,         \* NavMap.wear: cell -> positive wear, sparse
  edits         \* bound: changes so far
groundVars == <<overrides, footprint, wear, edits>>

ASSUME GroundAssumption ==
  /\ Base \in [Cells -> DOMAIN Types]
  /\ \A t \in DOMAIN Types : Types[t].cost >= 1
  /\ MinFactor \in 1..Full /\ (Full - MinFactor) % WearMax = 0

-----------------------------------------------------------------------------
(* Hexagons: hex.go.                                                         *)

HexDirs == << <<1, 0>>, <<1, -1>>, <<0, -1>>, <<-1, 0>>, <<-1, 1>>, <<0, 1>> >>
Abs(n) == IF n < 0 THEN -n ELSE n
Neighbors(c) == {<<c[1] + d[1], c[2] + d[2]>> : d \in Range(HexDirs)}
InBounds(c) == c \in Cells

\* a position: a cell and an offset of at most one step from its centre
Places(c) == {[cell |-> c, off |-> o] : o \in Range(HexDirs) \cup {<<0, 0>>}}
CellCenter(c) == [cell |-> c, off |-> <<0, 0>>]
HexDistance(a, b) == (Abs(a[1] - b[1]) + Abs(a[1] + a[2] - b[1] - b[2]) + Abs(a[2] - b[2])) \div 2
Distance(p, q) ==
  LET at(x) == <<3 * x.cell[1] + x.off[1], 3 * x.cell[2] + x.off[2]>> IN HexDistance(at(p), at(q))

-----------------------------------------------------------------------------
(* Queries.                                                                  *)

TerrainIDAt(c) == IF c \in DOMAIN overrides THEN overrides[c] ELSE Base[c]
Passable(c) == InBounds(c) /\ c \notin footprint /\ Types[TerrainIDAt(c)].passable
BaseCost(c) == Types[TerrainIDAt(c)].cost
WearMultiplier(c) ==
  IF c \in DOMAIN wear THEN Full - wear[c] * ((Full - MinFactor) \div WearMax) ELSE Full
StepCost(from, to) == BaseCost(to) * WearMultiplier(to) * Distance(CellCenter(from), CellCenter(to))

\* one of the tags the terrain asks for is enough
Traversable(c, caps) ==
  Passable(c) /\ LET needs == Types[TerrainIDAt(c)].needs IN needs = {} \/ needs \cap caps # {}

-----------------------------------------------------------------------------
(* Path: A* over cells.                                                      *)

Heuristic_Unworn(c, goal) == Distance(CellCenter(c), goal) * Full
Heuristic(c, goal) == Distance(CellCenter(c), goal) * MinFactor

\* openHeap.Less: by f, then R, then Q.
Sooner(a, b) ==
  \/ a.f < b.f
  \/ a.f = b.f /\ (a.cell[2] < b.cell[2] \/ (a.cell[2] = b.cell[2] /\ a.cell[1] < b.cell[1]))
Popped(open) == CHOOSE a \in open : \A b \in open \ {a} : Sooner(a, b)

\* what popping one node does to the search: g, from, closed and the open set
Expanded(s, node, goal, caps) ==
  LET c == node.cell
      better == {n \in Neighbors(c) \ s.closed :
                   Traversable(n, caps) /\ (n \in DOMAIN s.g => s.g[c] + StepCost(c, n) < s.g[n])}
      g == [n \in better |-> s.g[c] + StepCost(c, n)]
  IN [g |-> g @@ s.g, from |-> [n \in better |-> c] @@ s.from, closed |-> s.closed \cup {c},
      open |-> (s.open \ {node}) \cup {[cell |-> n, f |-> g[n] + Heuristic(n, goal)] : n \in better}]

RECURSIVE Searched(_, _, _)
Searched(s, goal, caps) ==
  IF s.open = {} THEN s
  ELSE LET node == Popped(s.open) IN
       IF node.cell = goal.cell THEN s
       ELSE IF node.cell \in s.closed THEN Searched([s EXCEPT !.open = @ \ {node}], goal, caps)
       ELSE Searched(Expanded(s, node, goal, caps), goal, caps)

RECURSIVE Reconstruct(_, _, _)
Reconstruct(from, start, c) == IF c = start THEN <<c>> ELSE Append(Reconstruct(from, start, from[c]), c)

Path(start, goal, caps) ==
  IF ~Traversable(goal.cell, caps) THEN [ok |-> FALSE]
  ELSE IF start.cell = goal.cell
  THEN [ok |-> TRUE, cells |-> <<goal.cell>>, cost |-> Distance(start, goal) * BaseCost(start.cell)]
  ELSE LET first == [cell |-> start.cell, f |-> Heuristic(start.cell, goal)]
           s == Searched([g |-> start.cell :> 0, from |-> <<>>, closed |-> {}, open |-> {first}], goal, caps)
       IN IF s.open = {} THEN [ok |-> FALSE]
          ELSE [ok |-> TRUE, cells |-> Reconstruct(s.from, start.cell, goal.cell), cost |-> s.g[goal.cell]]

-----------------------------------------------------------------------------
(* Field.Build: the flood from weighted sources, strongest first.             *)

Strongest(heap) == CHOOSE a \in heap : \A b \in heap : a.v >= b.v

RECURSIVE Flooded(_, _)
Flooded(heap, field) ==
  IF heap = {} THEN field
  ELSE LET cur == Strongest(heap)
           v == cur.v - FieldDecay * 3
           reached == IF cur.v < field[cur.cell] THEN {}
                      ELSE {n \in Neighbors(cur.cell) : Passable(n) /\ v > 0 /\ (n \in DOMAIN field => v > field[n])}
       IN Flooded((heap \ {cur}) \cup {[cell |-> n, v |-> v] : n \in reached}, [n \in reached |-> v] @@ field)

Build(weight) == Flooded({[cell |-> c, v |-> weight[c]] : c \in DOMAIN weight}, weight)

\* buildHazardField and buildWaterField: the weights of their sources.
CellDanger(c) == IF ~Passable(c) THEN 12 ELSE Min({12, 2 * (BaseCost(c) - 1)})
Hazard == [c \in {c \in Cells : CellDanger(c) > 2} |-> CellDanger(c)]
Water == [c \in {c \in Cells : TerrainIDAt(c) \in Drinkable} |-> 12]

-----------------------------------------------------------------------------
(* Mutations.                                                                *)

Edit == edits < MaxEdits /\ edits' = edits + 1
Drop(f, S) == [x \in DOMAIN f \ S |-> f[x]]

SetTerrain_Keeps(c, t) == overrides' = (c :> t) @@ overrides
SetTerrain(c, t) == overrides' = IF t = Base[c] THEN Drop(overrides, {c}) ELSE (c :> t) @@ overrides
Repaint == \E c \in Cells, t \in DOMAIN Types : Edit /\ SetTerrain(c, t) /\ UNCHANGED <<footprint, wear>>

StampFootprint(c, passable) == footprint' = IF passable THEN footprint \ {c} ELSE footprint \cup {c}
Stamp == \E c \in Cells, p \in BOOLEAN : Edit /\ StampFootprint(c, p) /\ UNCHANGED <<overrides, wear>>

Deposit(c, amount) ==
  wear' = (c :> Min({WearMax, amount + IF c \in DOMAIN wear THEN wear[c] ELSE 0})) @@ wear
Wear == \E c \in Cells, a \in 1..WearMax : Edit /\ Deposit(c, a) /\ UNCHANGED <<overrides, footprint>>

Decay ==
  /\ Edit /\ wear # <<>>
  /\ wear' = [c \in {c \in DOMAIN wear : wear[c] > 1} |-> wear[c] - 1]
  /\ UNCHANGED <<overrides, footprint>>

GroundInit == overrides = <<>> /\ footprint = {} /\ wear = <<>> /\ edits = 0
GroundNext == Repaint \/ Stamp \/ Wear \/ Decay

-----------------------------------------------------------------------------
(* Properties, and what they compare with.                                   *)

\* the least cost of going from start to every cell, by relaxing every step as often as
\* there are cells
RECURSIVE Relaxed(_, _, _)
Relaxed(g, caps, n) ==
  IF n = 0 THEN g
  ELSE LET reach == {c \in Cells : Traversable(c, caps) /\ Neighbors(c) \cap DOMAIN g # {}}
           via(c) == Min({g[b] + StepCost(b, c) : b \in Neighbors(c) \cap DOMAIN g})
       IN Relaxed([c \in reach \cup DOMAIN g |->
                    IF c \in DOMAIN g /\ (c \notin reach \/ g[c] <= via(c)) THEN g[c] ELSE via(c)], caps, n - 1)

\* A route goes from cell to neighbouring cell, enters nothing walled, closed or beyond the
\* walker's abilities, costs the sum of its steps and no route is cheaper; there is none
\* only when there is none: whatever was painted, walled or worn, and although the estimate
\* that guides the search may exceed the true cost (the goal need not lie at its cell's
\* centre).
RoutesCheapest(starts, caps) ==
  \A from \in starts :
    LET least == Relaxed(from :> 0, caps, Cardinality(Cells)) IN
    \A c \in Cells \ {from} : \A goal \in Places(c) :
      LET p == Path(CellCenter(from), goal, caps) IN
      /\ p.ok <=> c \in DOMAIN least
      /\ p.ok => /\ p.cost = least[c] /\ p.cells[1] = from /\ Last(p.cells) = c
                 /\ \A i \in 2..Len(p.cells) :
                      p.cells[i] \in Neighbors(p.cells[i - 1]) /\ Traversable(p.cells[i], caps)
                 /\ p.cost = FoldSet(LAMBDA i, sum : sum + StepCost(p.cells[i - 1], p.cells[i]), 0, 2..Len(p.cells))

\* A field is the strongest of its sources at every cell, each weakened by the way through
\* passable ground: no cell could still be raised by a neighbour, each is either a source at
\* its weight or owes its strength to a neighbour, and the layout a cell was built with is
\* never kept as a change to it.
FieldIsMax(weight) ==
  LET field == Build(weight)
      from(n) == {field[c] - FieldDecay * 3 : c \in Neighbors(n) \cap DOMAIN field}
  IN /\ \A c \in DOMAIN field :
          /\ c \in DOMAIN weight => field[c] >= weight[c]
          /\ (c \in DOMAIN weight /\ field[c] = weight[c]) \/ (Passable(c) /\ field[c] \in from(c))
     /\ \A n \in Cells : Passable(n) => \A v \in from(n) : v > 0 => n \in DOMAIN field /\ field[n] >= v
OverridesAreChanges == \A c \in DOMAIN overrides : overrides[c] # Base[c]
=============================================================================
