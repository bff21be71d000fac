-------------------------------- MODULE Scent --------------------------------
(***************************************************************************)
(* The scent field (engine/space/scent) as the world lays it (world/fauna.go    *)
(* runScentEnv, world/state_env.go rebuildScent): the airborne plume of the     *)
(* animals, made anew every tick; the plume of plants and carcasses, made anew  *)
(* on the bulk cadence and kept in between; and the track that passing animals *)
(* leave on the ground, which fades.                                          *)
(*                                                                         *)
(* Abstractions.  An intensity is a whole number: a unit of magnitude is 100,  *)
(* so that what a cell keeps (60) and gives (3 an eighth) is whole; wind is    *)
(* given by the eighths it makes of a donation; a fading track is divided and  *)
(* rounded down, the floor being 1.  A position is the cell it lies in.        *)
(***************************************************************************)
EXTENDS Integers, Sequences, FiniteSets, FiniteSetsExt, Functions, TLC

CONSTANTS
  Creatures,     \* the animals
  Emits,         \* Emits[a]: the airborne channels its species' content tags name
  Growing,       \* the plants and carcasses
  GrowsAt,       \* GrowsAt[p]: its cell
  StaticChannel, \* StaticChannel[p]: "food" or "carrion"
  Haunts,        \* the cells the animals visit
  Winds,         \* winds: offset -> eighths of a donation, eight in all
  TrailShare, TrailFade, TrailCap, \* content's spoor of the "prey" channel; 0 < share for none
  ScentSpread,   \* the bulk cadence
  MaxSize        \* bound: the magnitude of a plant

VARIABLES
  sniff,         \* World.tick modulo ScentSpread
  herd,          \* of each animal [at, hidden], between two scent passes
  size,          \* magnitude of each plant or carcass, 0 when it is gone
  committed, static, staticPend, trail, \* Grid's layers; pending is empty between passes
  laid,          \* history: size at the last static rebuild, sources and wind of the last plume
  visited,       \* history: passes since a cell was last trodden by exposed prey
  resumed        \* history: static rebuilds until a resume is forgotten, and if just now
scentVars == <<sniff, herd, size, committed, static, staticPend, trail, laid, visited, resumed>>

Channels == {"food", "prey", "predator", "carrion"}
Offsets == {-1, 0, 1} \X {-1, 0, 1} \ {<<0, 0>>}
Empty == [ch \in Channels |-> <<>>]
At(buf, c) == IF c \in DOMAIN buf THEN buf[c] ELSE 0
Total(buf) == FoldFunction(+, 0, buf)

ASSUME ScentAssumption ==
  /\ \A w \in Winds : DOMAIN w = Offsets /\ Total(w) = 8
  /\ \A a \in Creatures : Emits[a] \subseteq {"prey", "predator"}
  /\ \A p \in Growing : StaticChannel[p] \in {"food", "carrion"}
  /\ TrailFade > 1 /\ ScentSpread > 0

-----------------------------------------------------------------------------
(* Grid.                                                                     *)

Add(buf, c, v) == IF v <= 0 THEN buf ELSE (c :> At(buf, c) + v) @@ buf

\* spreadInto: each cell keeps 0.6 of its intensity; its neighbours get 0.6 of the rest.
Spread_Copies(buf, wind) ==
  LET reached == DOMAIN buf \cup {<<c[1] + o[1], c[2] + o[2]>> : c \in DOMAIN buf, o \in Offsets} IN
  [c \in reached |-> At(buf, c) +
     FoldSet(LAMBDA o, sum : sum + (At(buf, <<c[1] - o[1], c[2] - o[2]>>) * 24 * wind[o]) \div 800, 0, Offsets)]
Spread(buf, wind) ==
  LET reached == DOMAIN buf \cup {<<c[1] + o[1], c[2] + o[2]>> : c \in DOMAIN buf, o \in Offsets}
      got(c) == FoldSet(LAMBDA o, sum : sum + (At(buf, <<c[1] - o[1], c[2] - o[2]>>) * 24 * wind[o]) \div 800, 0, Offsets)
  IN [c \in reached |-> At(buf, c) - (At(buf, c) * 40) \div 100 + got(c)]

\* what a set of sources <<cell, channel, magnitude>> adds to a buffer
Deposited(layer, sources) ==
  [ch \in Channels |-> FoldSet(LAMBDA s, buf : Add(buf, s[2], 100 * s[4]), layer[ch], {s \in sources : s[3] = ch})]

\* Deposit's track: only the prey channel leaves one, up to the cap.
Tracks(marks, feet) ==
  [c \in DOMAIN marks \cup feet |->
    IF c \notin feet THEN marks[c]
    ELSE LET v == At(marks, c) + TrailShare * Cardinality({a \in Creatures : "prey" \in Emits[a] /\ ~herd[a].hidden /\ herd[a].at = c})
         IN IF v > TrailCap THEN TrailCap ELSE v]

DecayTrail_Visited == [c \in {c \in DOMAIN trail : trail[c] \div TrailFade > 0} |-> IF c \in {herd[a].at : a \in Creatures} THEN trail[c] ELSE trail[c] \div TrailFade]
DecayTrail == [c \in {c \in DOMAIN trail : trail[c] \div TrailFade > 0} |-> trail[c] \div TrailFade]

\* Read of an airborne channel in still air: the layers are summed, and the way leads towards
\* the centroid of the cells in reach.
Gradient(ch, pos, reach) ==
  LET near == {o \in Offsets : o[1] * o[1] + o[2] * o[2] <= reach * reach}
      airborne(o) == At(static[ch], <<pos[1] + o[1], pos[2] + o[2]>>) + At(committed[ch], <<pos[1] + o[1], pos[2] + o[2]>>)
      weigh(i) == FoldSet(LAMBDA o, sum : sum + o[i] * airborne(o), 0, near)
  IN <<weigh(1), weigh(2)>>

-----------------------------------------------------------------------------
(* What the world deposits.                                                  *)

\* depositAnimalScent: hidden prey gives no prey scent.
Scented(a) == {<<a, herd[a].at, ch, 1>> : ch \in {ch \in Emits[a] : ch = "prey" => ~herd[a].hidden}}
AnimalSources == UNION {Scented(a) : a \in Creatures}
Feet == {s[2] : s \in {s \in AnimalSources : s[3] = "prey"}}

\* depositFloraScent and depositObjectScent; a bare plant smells of nothing.
StaticSources(sz) == {<<p, GrowsAt[p], StaticChannel[p], sz[p]>> : p \in {p \in Growing : sz[p] > 0}}

\* bound: the fades that bring any track to nothing; the count of passes stops there
Memory == CHOOSE n \in 1..TrailCap : TrailFade ^ n > TrailCap /\ TrailFade ^ (n - 1) <= TrailCap

-----------------------------------------------------------------------------
Roam(a, to, hides) ==
  /\ hides => "prey" \in Emits[a]   \* bound: nothing depends on whether others hide
  /\ herd' = [herd EXCEPT ![a] = [at |-> to, hidden |-> hides]]
  /\ UNCHANGED <<sniff, size, committed, static, staticPend, trail, laid, visited, resumed>>

Grow(p, n) ==
  /\ size' = [size EXCEPT ![p] = n]
  /\ UNCHANGED <<sniff, herd, committed, static, staticPend, trail, laid, visited, resumed>>

\* runScentEnv: DecayTrail, the animals, Spread, Commit, and on the cadence the rest.
RunScentEnv(wind) ==
  /\ sniff' = (sniff + 1) % ScentSpread
  /\ trail' = Tracks(DecayTrail, Feet)
  /\ committed' = [ch \in Channels |-> Spread(Deposited(Empty, AnimalSources)[ch], wind)]
  /\ laid' = [size |-> IF sniff = 0 THEN size ELSE laid.size, air |-> AnimalSources, wind |-> wind]
  /\ visited' = [c \in Haunts |-> IF c \in Feet THEN 0 ELSE IF visited[c] = Memory THEN Memory ELSE visited[c] + 1]
  /\ IF sniff = 0
     THEN /\ static' = [ch \in Channels |-> Spread(Deposited(staticPend, StaticSources(size))[ch], wind)]
          /\ staticPend' = Empty
          /\ resumed' = [left |-> IF resumed.left = 0 THEN 0 ELSE resumed.left - 1, now |-> FALSE]
     ELSE UNCHANGED <<static, staticPend>> /\ resumed' = [resumed EXCEPT !.now = FALSE]
  /\ UNCHANGED <<herd, size>>

\* rebuildScent after a restore into a newly installed grid: the pass of the last tick again,
\* except that the plume is spread on the cadence only and the static rebuild is not committed.
RebuildScent(wind) ==
  LET last == (sniff + ScentSpread - 1) % ScentSpread
      plume == Deposited(Empty, AnimalSources) IN
  /\ trail' = Tracks(<<>>, Feet)
  /\ static' = Empty
  /\ staticPend' = IF last = 0 THEN Deposited(Empty, StaticSources(size)) ELSE Empty
  /\ committed' = IF last = 0 THEN [ch \in Channels |-> Spread(plume[ch], wind)] ELSE plume
  /\ laid' = [size |-> size, air |-> AnimalSources, wind |-> wind]
  /\ visited' = [c \in Haunts |-> IF c \in Feet THEN 0 ELSE Memory]
  /\ resumed' = [left |-> 2, now |-> TRUE]
  /\ UNCHANGED <<sniff, herd, size>>

ScentInit ==
  /\ sniff = 0
  /\ herd \in [Creatures -> [at : {CHOOSE c \in Haunts : TRUE}, hidden : {FALSE}]]
  /\ size = [p \in Growing |-> 0]
  /\ committed = Empty /\ static = Empty /\ staticPend = Empty /\ trail = <<>>
  /\ laid = [size |-> size, air |-> {}, wind |-> CHOOSE w \in Winds : TRUE]
  /\ visited = [c \in Haunts |-> Memory]
  /\ resumed = [left |-> 0, now |-> FALSE]

ScentNext ==
  \/ \E a \in Creatures, to \in Haunts, h \in BOOLEAN : Roam(a, to, h)
  \/ \E p \in Growing, n \in 0..MaxSize : Grow(p, n)
  \/ \E w \in Winds : RunScentEnv(w) \/ RebuildScent(w)

-----------------------------------------------------------------------------
(* Properties.                                                               *)

\* Nothing smells that is not there: unless the world was just resumed, every airborne
\* channel holds what its sources gave less what spreading loses, whatever the wind (all of
\* it drifts and none is made), and the plants' layer is that of the plants as the last
\* rebuild found them, laid once.
ScentBalanced ==
  /\ ~resumed.now => \A ch \in Channels : Total(committed[ch]) = 84 * Cardinality({s \in laid.air : s[3] = ch})
  /\ resumed.left = 0 =>
       \A ch \in Channels :
         Total(static[ch]) = 84 * FoldSet(LAMBDA p, sum : sum + laid.size[p], 0, {p \in Growing : StaticChannel[p] = ch})

\* In still air a plume with one source leads to it from every cell it reaches: who follows
\* the gradient is never led away.
PlumeLeadsHome ==
  \A s \in laid.air :
    (~resumed.now /\ (\A o \in Offsets : laid.wind[o] = 1) /\ {t \in laid.air : t[3] = s[3]} = {s}) =>
      \A c \in DOMAIN committed[s[3]] \ {s[2]} :
        LET g == Gradient(s[3], c, 1) IN g[1] * (s[2][1] - c[1]) + g[2] * (s[2][2] - c[2]) > 0

\* A track lies only where exposed prey passed not long ago: every fade divides it, so the
\* cap bounds how long; what hid leaves none.
TracksAreFresh ==
  \A c \in Haunts : At(trail, c) * TrailFade ^ visited[c] <= TrailCap
=============================================================================
