-------------------------------- MODULE Land --------------------------------
(***************************************************************************)
(* The land under the animals (engine/world/env.go, engine/env): plants that  *)
(* grow, seed and die, carcasses that rot or are eaten, terrain that dries,   *)
(* floods, freezes and thaws, and the registers that must agree about them:   *)
(* the object table, the spatial index, what each agent knows, the plants,    *)
(* the decaying lots and the two terrain grids.                              *)
(*                                                                         *)
(*   rest    - between two ticks; a captured world may be resumed here;       *)
(*   apply   - the animals kill, eat carcasses and graze, any number of times;*)
(*   climate, flora, decay - the environment passes, each on its own cadence. *)
(*                                                                         *)
(* Abstractions.  A position is the navmap cell it lies in.  Moisture is      *)
(* counted in the bands the transition rules tell apart, and temperature is   *)
(* any of the bands of Temps (season, hour and rain move it everywhere).  A   *)
(* plant's site lets it thrive, merely lets it live, or makes it ail, and its  *)
(* length is counted in steps; a lot ages by any of Gains.  All plants are of *)
(* one species and every perishable lot is a carcass.  Width, wind, snow,     *)
(* scent, and the elapsed hours (a climate pass is one hour) are left out.    *)
(***************************************************************************)
EXTENDS Naturals, Sequences, FiniteSets

CONSTANTS
  Agents,
  Sites,          \* the navmap cells
  Coarse,         \* the climate cells
  CoarseOf,       \* CoarseOf[s]: the climate cell the centre of s lies in
  Centre,         \* Centre[c]: the navmap cell at the centre of climate cell c
  Terrain,        \* the terrain ids of content/terrain.yaml
  Ground,         \* Ground[s]: the fixture's terrain
  FixturePlants,  \* the fixture's plants: id -> site; their IDs are no "obj:N" ones
  Ice, Origin,    \* Config.IceType and the reserved thaw target
  None,
  Rules,          \* content/climate.yaml: [from, to, temps, bands] in file order
  Temps, Bands,   \* temperature and moisture bands; Bands = 0..n
  RainHardCap, RainDurMin, RainDurMax,
  Hysteresis,     \* flora passes of ailing a plant dies of, 0 for never
  MatureAt, MaxLength, CarryingCapacity,
  Stages,         \* the carcass's decay states: [at, yields]; the last is its end
  Gains,          \* the ages one decay pass may add
  ClimateStep, FloraStep, DecayStep, Cycle, \* cadences, and a common multiple of them
  MaxSeq          \* bound: the last "obj:N" a run of the model may allocate

VARIABLES
  clock, turn,   \* World.tick modulo Cycle, and the part of the tick
  objects,       \* World.objects: id -> [kind, site]
  spatial,       \* the IDs of the objects in World.spatial
  known,         \* World.knownObjects: of each agent
  plants,        \* flora.State: id -> [length, streak]
  lots,          \* decay.State: id -> age
  seq,           \* World.nextObjectSeq
  cells,         \* climate.State: of each climate cell [terrain, frozenFrom, wet]
  rain,          \* climate.RainProcess: [raining, left, dry]
  nav,           \* the navmap's terrain
  before,        \* history: the terrain each climate cell last froze from
  touched,       \* history: the climate cells changed since the world was installed
  made,          \* history: of each carcass spawned since then [age, site, out]: its products
  lost           \* history: what the last resume left behind: [ghosts, stranded]

vars == <<clock, turn, objects, spatial, known, plants, lots, seq, cells, rain, nav,
          before, touched, made, lost>>
things == <<objects, spatial, known, plants, lots, seq, made>>
weather == <<cells, rain, nav, before, touched>>

\* What a carcass may turn into: the entries of the transforms, as <<state, entry>>.
Yields == UNION {{i} \X (DOMAIN Stages[i].yields) : i \in DOMAIN Stages}
Item(y) == Stages[y[1]].yields[y[2]]

ASSUME LandAssumption ==
  /\ CoarseOf \in [Sites -> Coarse] /\ Centre \in [Coarse -> Sites]
  /\ \A c \in Coarse : CoarseOf[Centre[c]] = c
  /\ Ground \in [Sites -> Terrain] /\ Origin \notin Terrain \cup {Ice} /\ None \notin Terrain \cup {Ice, Origin}
  /\ IsFiniteSet(DOMAIN FixturePlants) /\ DOMAIN FixturePlants \cap Nat = {}
  /\ Rules \in Seq([from : Terrain, to : Terrain \cup {Origin}, temps : SUBSET Temps, bands : SUBSET Bands])
  /\ \A i \in DOMAIN Rules : Rules[i].from # Rules[i].to /\ (Rules[i].from = Ice => Rules[i].to = Origin)
  /\ RainHardCap \in Nat \ {0} /\ RainDurMin \in Nat \ {0} /\ RainDurMax \in Nat
  /\ Stages \in Seq([at : Nat, yields : Seq(STRING)])
  /\ \A i, j \in DOMAIN Stages : i < j => Stages[i].at < Stages[j].at
  /\ Len(Stages) > 1 /\ Stages[1].at = 0 /\ Stages[Len(Stages)].yields = <<>>
  /\ \A y \in Yields : Item(y) \notin {"plant", "carcass"}
  /\ Gains \subseteq Nat

Tick(turnNow, turnNext) == turn = turnNow /\ turn' = turnNext
Due(step) == clock % step = 0
IdsOfKind(k) == {i \in DOMAIN objects : objects[i].kind = k}
Without(f, S) == [x \in DOMAIN f \ S |-> f[x]]
With(f, g) == [x \in DOMAIN f \cup DOMAIN g |-> IF x \in DOMAIN f THEN f[x] ELSE g[x]]
Only(x, v) == [y \in {x} |-> v]

-----------------------------------------------------------------------------
(* The object table.                                                         *)

\* allocObjectID: the k-th ID that it hands out counts up from seq over those in use.
FreshId(k) ==
  CHOOSE i \in (seq + 1)..(seq + k + Cardinality(DOMAIN objects)) :
    i \notin DOMAIN objects /\ Cardinality(((seq + 1)..i) \ DOMAIN objects) = k
FreshIds(n) == {FreshId(k) : k \in 1..n}
SeqAfter(n) == IF n = 0 THEN seq ELSE FreshId(n)

\* bound: there is room for n more objects and for what the lots may still turn into.
Room(n) == FreshId(n + Cardinality(Yields) * Cardinality(DOMAIN lots)) <= MaxSeq

\* PlaceObject and RemoveObject, of a whole pass at once.
Alter_Forgets(placed, removed) ==
  /\ objects' = With(Without(objects, removed), placed)
  /\ spatial' = (spatial \ removed) \cup DOMAIN placed
  /\ known' = [a \in Agents |-> known[a] \cup DOMAIN placed]
Alter(placed, removed) ==
  /\ objects' = With(Without(objects, removed), placed)
  /\ spatial' = (spatial \ removed) \cup DOMAIN placed
  /\ known' = [a \in Agents |-> (known[a] \ removed) \cup DOMAIN placed]

-----------------------------------------------------------------------------
(* Apply: what the animals do to the land.                                   *)

Begin == Tick("rest", "apply") /\ UNCHANGED <<clock, things, weather, lost>>

\* spawnCarcass.
Kill(s) ==
  /\ turn = "apply" /\ Room(1 + Cardinality(Yields))
  /\ LET id == FreshId(1) IN
       /\ Alter(Only(id, [kind |-> "carcass", site |-> s]), {})
       /\ lots' = With(lots, Only(id, 0))
       /\ made' = With(Only(id, [age |-> 0, site |-> s, out |-> <<>>]), made)
       /\ seq' = id
  /\ UNCHANGED <<clock, turn, plants, weather, lost>>

\* resolveFeedCarcass: a carcass without a lot has no supply and is left alone.
Edible == IdsOfKind("carcass") \cap DOMAIN lots
ConsumeCarcass(id) == Alter(<<>>, {id}) /\ lots' = Without(lots, {id})
Feed(id) ==
  /\ turn = "apply" /\ id \in Edible
  /\ ConsumeCarcass(id)
  /\ UNCHANGED <<clock, turn, plants, seq, made, weather, lost>>

\* nearestForageFloraID: a bare plant is not food.
Forage == {p \in spatial \cap DOMAIN plants : plants[p].length > 0}
GrazeLength(p, amount) == [plants EXCEPT ![p].length = IF amount > @ THEN 0 ELSE @ - amount]
Graze(p, amount) ==
  /\ turn = "apply" /\ p \in Forage
  /\ plants' = GrazeLength(p, amount)
  /\ UNCHANGED <<clock, turn, objects, spatial, known, lots, seq, made, weather, lost>>

EndApply == Tick("apply", "climate") /\ UNCHANGED <<clock, things, weather, lost>>

-----------------------------------------------------------------------------
(* The climate pass.                                                         *)

\* the rain process of Step: it may start in any dry hour, and must at the hard cap.
Rain(starts, lasts) ==
  IF rain.raining
  THEN IF rain.left <= 1 THEN [raining |-> FALSE, left |-> 0, dry |-> 0]
       ELSE [rain EXCEPT !.left = @ - 1]
  ELSE IF starts \/ rain.dry + 1 >= RainHardCap
       THEN [raining |-> TRUE, left |-> lasts, dry |-> 0]
       ELSE [rain EXCEPT !.dry = @ + 1]

\* an hour of rain may cross two bands, an hour of evaporation one.
Moisten(w, raining) == Bands \cap IF raining THEN w..(w + 2) ELSE {w} \cup {b \in Bands : b + 1 = w}

\* Rules.Eval: the first rule for the terrain that fires.
Eval(terrain, temp, wet) ==
  LET hits == {i \in DOMAIN Rules : Rules[i].from = terrain /\ temp \in Rules[i].temps /\ wet \in Rules[i].bands}
  IN IF hits = {} THEN None ELSE Rules[CHOOSE i \in hits : \A j \in hits : i <= j].to

\* the transition of one climate cell; an ice cell without an origin stays.
Evolve_KeepsOrigin(cell, temp, wet) ==
  LET to == Eval(cell.terrain, temp, wet)
      c == [cell EXCEPT !.wet = wet]
  IN CASE to = None \/ (to = Origin /\ cell.frozenFrom = None) -> c
       [] to = Origin /\ cell.frozenFrom # None -> [c EXCEPT !.terrain = cell.frozenFrom]
       [] to = Ice -> [c EXCEPT !.terrain = Ice, !.frozenFrom = cell.terrain]
       [] OTHER -> [c EXCEPT !.terrain = to]
Evolve(cell, temp, wet) ==
  LET to == Eval(cell.terrain, temp, wet)
      c == [cell EXCEPT !.wet = wet]
  IN CASE to = None \/ (to = Origin /\ cell.frozenFrom = None) -> c
       [] to = Origin /\ cell.frozenFrom # None ->
            [c EXCEPT !.terrain = cell.frozenFrom, !.frozenFrom = None]
       [] to = Ice -> [c EXCEPT !.terrain = Ice, !.frozenFrom = cell.terrain]
       [] OTHER -> [c EXCEPT !.terrain = to]

\* the transitions are carried over to every navmap cell of the climate cell.
Paint_Centre(next, changed) ==
  [s \in Sites |-> IF CoarseOf[s] \in changed /\ s = Centre[CoarseOf[s]] THEN next[CoarseOf[s]].terrain ELSE nav[s]]
Paint(next, changed) ==
  [s \in Sites |-> IF CoarseOf[s] \in changed THEN next[CoarseOf[s]].terrain ELSE nav[s]]

ClimateStepped(next) ==
  LET changed == {c \in Coarse : next[c].terrain # cells[c].terrain} IN
  /\ cells' = next
  /\ nav' = Paint(next, changed)
  /\ touched' = touched \cup changed
  /\ before' = [c \in Coarse |-> IF c \in changed /\ next[c].terrain = Ice THEN cells[c].terrain ELSE before[c]]

Climate ==
  /\ Tick("climate", "flora")
  /\ IF ~Due(ClimateStep) THEN UNCHANGED weather
     ELSE \E starts \in BOOLEAN, lasts \in RainDurMin..RainDurMax, temp \in Temps, wet \in [Coarse -> Bands] :
            /\ rain' = Rain(starts, lasts)
            /\ \A c \in Coarse : wet[c] \in Moisten(cells[c].wet, rain'.raining)
            /\ ClimateStepped([c \in Coarse |-> Evolve(cells[c], temp, wet[c])])
  /\ UNCHANGED <<clock, things, lost>>

-----------------------------------------------------------------------------
(* The flora pass.                                                           *)

Grown(p, site) ==
  [length |-> IF site = "thrives" /\ plants[p].length < MaxLength THEN plants[p].length + 1 ELSE plants[p].length,
   streak |-> IF site = "ails" THEN plants[p].streak + 1 ELSE 0]
Dies(grown) == Hysteresis > 0 /\ grown.streak >= Hysteresis

\* floraNeighborCount, from the spatial index and the plants as they were.
Neighbors(p) == {q \in spatial \cap DOMAIN plants : q # p /\ objects[q].site = objects[p].site}
Parents(grown) ==
  {p \in DOMAIN grown : ~Dies(grown[p]) /\ grown[p].length >= MatureAt /\ Cardinality(Neighbors(p)) < CarryingCapacity}

Seedling == [length |-> 0, streak |-> 0]

Flora ==
  /\ Tick("flora", "decay")
  /\ IF ~Due(FloraStep) THEN UNCHANGED things
     ELSE \E site \in [DOMAIN plants -> {"thrives", "lives", "ails"}] :
          LET grown == [p \in DOMAIN plants |-> Grown(p, site[p])]
              died == {p \in DOMAIN plants : Dies(grown[p])}
          IN \E seeding \in SUBSET Parents(grown) :
             LET ids == FreshIds(Cardinality(seeding)) IN
             /\ seeding # {} => Room(Cardinality(seeding))
             /\ \E lands \in [ids -> Sites] :
                  Alter([i \in ids |-> [kind |-> "plant", site |-> lands[i]]], died)
             /\ plants' = With(Without(grown, died), [i \in ids |-> Seedling])
             /\ seq' = SeqAfter(Cardinality(seeding))
             /\ UNCHANGED <<lots, made>>
  /\ UNCHANGED <<clock, weather, lost>>

-----------------------------------------------------------------------------
(* The decay pass.                                                           *)

StateAt(age) == CHOOSE i \in DOMAIN Stages : Stages[i].at <= age /\ \A j \in DOMAIN Stages : Stages[j].at <= age => j <= i

\* the products of every state passed through.
Products_Landed(old, new) == {y \in Yields : StateAt(old) < StateAt(new) /\ y[1] = StateAt(new)}
Products(old, new) == {y \in Yields : StateAt(old) < y[1] /\ y[1] <= StateAt(new)}

\* the order of deltas.Transformed: by lot, by state, by entry (the lots by the number of
\* their ID, which the code compares as text, and the entries as content/ lists them: which
\* of the new IDs each product gets is all that depends on it).
UpTo(t, from) ==
  {u \in from :
     \/ u[1] < t[1]
     \/ u[1] = t[1] /\ u[2][1] < t[2][1]
     \/ u[1] = t[1] /\ u[2][1] = t[2][1] /\ u[2][2] <= t[2][2]}

\* bound: a lot at its end has no use for a higher age.
Aged(age, gain) == LET end == Stages[Len(Stages)].at IN IF age + gain > end THEN end ELSE age + gain

Decay ==
  /\ Tick("decay", "rest")
  /\ clock' = (clock + 1) % Cycle
  /\ IF ~Due(DecayStep) THEN UNCHANGED things
     ELSE \E gain \in [DOMAIN lots -> Gains] :
          LET age == [l \in DOMAIN lots |-> Aged(lots[l], gain[l])]
              gone == {l \in DOMAIN lots : StateAt(age[l]) = Len(Stages)}
              from == {t \in (DOMAIN lots) \X Yields : t[2] \in Products(lots[t[1]], age[t[1]])}
              id == [t \in from |-> FreshId(Cardinality(UpTo(t, from)))]
              placed == [i \in {id[t] : t \in from} |->
                           LET t == CHOOSE t \in from : id[t] = i IN
                           [kind |-> Item(t[2]), site |-> objects[t[1]].site]]
          IN /\ Alter(placed, gone)
             /\ lots' = Without(age, gone)
             /\ made' = [c \in DOMAIN made |->
                           IF c \notin DOMAIN lots THEN made[c]
                           ELSE [age |-> age[c], site |-> made[c].site,
                                 out |-> With(made[c].out, [y \in Products(lots[c], age[c]) |-> id[<<c, y>>]])]]
             /\ seq' = SeqAfter(Cardinality(from))
             /\ UNCHANGED plants
  /\ UNCHANGED <<weather, lost>>

-----------------------------------------------------------------------------
(* Capture and resume: RestoreState of the state captured now, into a world    *)
(* newly installed from the same fixture.                                      *)

\* captureEnvState and the restore functions of state_env.go carry these over as they are.
EnvKept == UNCHANGED <<plants, cells, rain>>

\* rebuildSpatialHash inserts; what the fixture put there stays.
RebuildSpatial == spatial' = DOMAIN FixturePlants \cup DOMAIN objects

Resume ==
  /\ turn = "rest"
  /\ RebuildSpatial /\ EnvKept
  /\ lots' = <<>> /\ seq' = 0
  /\ nav' = Ground
  /\ touched' = {} /\ made' = <<>>
  /\ lost' = [ghosts |-> DOMAIN FixturePlants \ DOMAIN objects, stranded |-> IdsOfKind("carcass")]
  /\ UNCHANGED <<clock, turn, objects, known, before>>

-----------------------------------------------------------------------------
\* climate.New: the terrain and its moisture under the centre of each cell.
NewCells(wet) == [c \in Coarse |-> [terrain |-> Ground[Centre[c]], frozenFrom |-> None, wet |-> wet[c]]]

Init ==
  /\ clock = 0 /\ turn = "rest"
  /\ objects = [i \in DOMAIN FixturePlants |-> [kind |-> "plant", site |-> FixturePlants[i]]]
  /\ spatial = DOMAIN FixturePlants
  /\ known = [a \in Agents |-> DOMAIN FixturePlants]
  /\ plants = [i \in DOMAIN FixturePlants |-> [length |-> MatureAt, streak |-> 0]]
  /\ lots = <<>> /\ seq = 0
  /\ \E wet \in [Coarse -> Bands] : cells = NewCells(wet)
  /\ rain = [raining |-> FALSE, left |-> 0, dry |-> 0]
  /\ nav = Ground
  /\ before = [c \in Coarse |-> None]
  /\ touched = {} /\ made = <<>> /\ lost = [ghosts |-> {}, stranded |-> {}]

Next ==
  \/ Begin \/ EndApply \/ Climate \/ Flora \/ Decay \/ Resume
  \/ \E s \in Sites : Kill(s)
  \/ \E id \in DOMAIN lots : Feed(id)
  \/ \E p \in DOMAIN plants, amount \in 1..2 : Graze(p, amount)

Spec == Init /\ [][Next]_vars

-----------------------------------------------------------------------------
(* Properties.                                                               *)

\* Every register tells of the same things after any sequence of kills, meals, growth,
\* death and decay: what each agent knows is what exists, the plants are the plant objects,
\* the spatial index holds every object and nothing else, and each carcass has its lot.
\* The only exceptions are those a resume leaves: the fixture's dead plants in the index,
\* and the carcasses of the captured world, which neither rot nor feed anybody again.
RegistersAgree ==
  /\ \A a \in Agents : known[a] = DOMAIN objects
  /\ DOMAIN plants = IdsOfKind("plant")
  /\ DOMAIN objects \subseteq spatial /\ spatial \ DOMAIN objects = lost.ghosts
  /\ DOMAIN lots = IdsOfKind("carcass") \ lost.stranded

\* Whatever the weather did, a navmap cell shows its climate cell's terrain once that has
\* changed, and until then the fixture's; the thaw rule's sentinel reaches neither grid.
NavFollowsClimate ==
  \A s \in Sites :
    /\ nav[s] = IF CoarseOf[s] \in touched THEN cells[CoarseOf[s]].terrain ELSE Ground[s]
    /\ nav[s] # Origin /\ cells[CoarseOf[s]].terrain # Origin

\* Ice remembers what it froze from, and nothing else does: through drought, thaw and
\* resume the water that returns is the one that froze (climate.go: FrozenFrom is "" when
\* the cell is not ice).
IceRemembers ==
  \A c \in Coarse : cells[c].frozenFrom = IF cells[c].terrain = Ice THEN before[c] ELSE None

\* A carcass leaves exactly the products of the states it passed, where it lay, each once:
\* none is skipped when it rots through several states at once, none appears of one that
\* was eaten first, and no two products are one object.
ProductsOnce ==
  /\ \A c \in DOMAIN made : LET m == made[c] IN
       /\ DOMAIN m.out = Products(0, m.age)
       /\ \A y \in DOMAIN m.out :
            m.out[y] \in DOMAIN objects /\ objects[m.out[y]] = [kind |-> Item(y), site |-> m.site]
  /\ \A c, d \in DOMAIN made : \A y \in DOMAIN made[c].out, z \in DOMAIN made[d].out :
       made[c].out[y] = made[d].out[z] => c = d /\ y = z
=============================================================================
