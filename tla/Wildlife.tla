------------------------------ MODULE Wildlife ------------------------------
(***************************************************************************)
(* One simulation tick of the animals: hunting, hiding, breeding, death     *)
(* and the re-introduction of an extinct species (engine/fauna, and the     *)
(* fauna files of engine/world).  A tick runs in one goroutine, in phases:  *)
(*   plan   - fauna.Step proposes one intent per animal from a snapshot;    *)
(*   commit - pass 1: every animal commits its own state;                   *)
(*   cross  - pass 2: strikes, deaths and conceptions, which write OTHER    *)
(*            animals too;                                                  *)
(*   end    - respawn, and the clock advances.                              *)
(* Plan, commit and cross visit the animals in ID order, so what one animal *)
(* writes in pass 2 is what the next one finds.                             *)
(*                                                                         *)
(* Abstractions.  Positions are not kept: every test of a distance (sight,  *)
(* engagement reach, conception reach, cover) may go either way.  Utilities *)
(* and drives are not kept: an active animal may choose any action of its   *)
(* species, and Vital may rise, stay or bleed; the cap that wounds leave on *)
(* it is folded into these draws.  Tick-valued deadlines are kept as the    *)
(* ticks still to go.  Every species has a diet (content/objects.yaml), so  *)
(* an engaged animal always looks up its partner.  Carcasses, grazing,      *)
(* drinking and scent are left out, as are the agents: they target objects  *)
(* of a kind (bindTarget), never an animal, and write none of this state.   *)
(***************************************************************************)
EXTENDS Naturals, FiniteSets

CONSTANTS
  Ids,            \* animal IDs; < is their (lexical) order
  None,           \* no animal
  Herds,          \* the worlds a run may start from: a set of functions ID -> species
  Species, Predators,
  Prey,           \* Prey[s]: the species whose tags the diet of s matches
  Acts,           \* Acts[s]: the actions species s may choose
  Strength,       \* the contested stat of each animal
  Targets(_, _),  \* founders re-introduced of a species, by the herd a world began with
  MaxVital, MaxStamina,
  Damages, ExchangeTicks, CooldownTicks,   \* what one draw may give
  HideTicks, MateTicks, MatureTicks

VARIABLES
  targets,   \* World.respawnTargets: the founder-group size of each species, 0 for none
  animals,   \* World.animals: the record of each living animal, None otherwise
  intents,   \* the intent each animal proposed this tick, None if it proposed none
  phase,     \* plan, commit, cross or end
  turn,      \* the animals this phase has still to visit
  strikes,   \* history: <<attacker, target>> of the strikes applied this tick
  bred,      \* history: MateTicks per conception of an animal, less the ticks since
  died       \* history: the animals that died this tick

vars == <<targets, animals, intents, phase, turn, strikes, bred, died>>

Actions == {"Attack", "Evade", "Mate", "Rest", "Idle"}
Animal ==
  [species : Species, vital : 0..MaxVital, stamina : 0..MaxStamina, act : Actions,
   partner : Ids \cup {None}, next : Nat, rest : Nat, hidden : Nat, mate : Nat, young : Nat]
Intent ==
  [act : Actions, target : Ids \cup {None}, damage : Nat, mateWith : Ids \cup {None},
   partner : Ids \cup {None}, next : Nat, rest : Nat, stamina : 0..MaxStamina]

ASSUME WildlifeAssumption ==
  /\ Ids \subseteq Nat /\ None \notin Ids \cup Animal \cup Intent
  /\ Predators \subseteq Species
  /\ Prey \in [Species -> SUBSET Species]
  /\ Acts \in [Species -> SUBSET {"Attack", "Evade", "Mate", "Rest"}]
  /\ Strength \in [Ids -> Nat]
  /\ MaxVital \in Nat \ {0} /\ MaxStamina \in Nat
  /\ Damages \subseteq Nat /\ ExchangeTicks \subseteq Nat /\ CooldownTicks \subseteq Nat
  /\ HideTicks \in Nat /\ MateTicks \in Nat /\ MatureTicks \in Nat
  /\ \A h \in Herds :
       /\ DOMAIN h \subseteq Ids
       /\ \A i \in DOMAIN h : h[i] \in Species
       /\ \A s \in Species : Targets(h, s) \in Nat

Alive == {i \in Ids : animals[i] # None}
First(S) == CHOOSE i \in S : \A j \in S : i <= j
Down(n) == IF n = 0 THEN 0 ELSE n - 1
Up(n, max) == IF n < max THEN n + 1 ELSE max

-----------------------------------------------------------------------------
(* The animals a world begins with, is given back, or bears. *)

Fresh(s, young) ==
  [species |-> s, vital |-> MaxVital, stamina |-> MaxStamina, act |-> "Idle",
   partner |-> None, next |-> 0, rest |-> 0, hidden |-> 0, mate |-> 0, young |-> young]

\* allocAnimalID never repeats an ID; an ID nobody remembers stands for a new one.
Unused == {i \in Ids \ (Alive \cup died) :
             /\ intents[i] = None
             /\ \A j \in Alive : animals[j].partner # i}

-----------------------------------------------------------------------------
(* Plan: fauna.Step over the snapshot.                                       *)

IsPredator(a) == a.species \in Predators

\* combatTarget: the partner while engaged, else any prey that may be nearest in sight.
CombatTargets(self) ==
  LET a == animals[self] IN
  IF a.partner # None
  THEN IF a.partner \in Alive THEN {a.partner} ELSE {None}
  ELSE {None} \cup {o \in Alive \ {self} : animals[o].species \in Prey[a.species]}

ShouldDisengage_Blind(a, target, far) == a.stamina = 0 \/ (target # None /\ far)
ShouldDisengage(a, target, far) == a.stamina = 0 \/ target = None \/ far

Hold(a) == [target |-> None, damage |-> 0, partner |-> a.partner, next |-> a.next, rest |-> a.rest]

\* The outcomes of resolveCombat: let go, do nothing, engage, close in, or exchange.
ResolveCombat(a, act, target, far) ==
  CASE a.partner # None /\ ShouldDisengage(a, target, far) ->
         {[Hold(a) EXCEPT !.partner = None, !.next = 0]}
    [] a.partner # None /\ ~ShouldDisengage(a, target, far) /\ act = "Attack" ->
         IF a.next > 0 THEN {[Hold(a) EXCEPT !.target = a.partner]}
         ELSE {[target |-> a.partner, damage |-> d, partner |-> a.partner, next |-> n, rest |-> a.rest] :
                 d \in Damages, n \in ExchangeTicks}
    [] a.partner = None /\ act = "Attack" /\ target # None /\ a.rest = 0 ->
         {[target |-> target, damage |-> 0, partner |-> target, next |-> n, rest |-> r] :
            n \in ExchangeTicks, r \in CooldownTicks}
    [] OTHER -> {Hold(a)}

\* mateTarget: nobody, or any partner that may be the nearest in sight.
MateReady(a) == a.young = 0 /\ a.mate = 0
Mates(self, act) ==
  {None} \cup {o \in Alive \ {self} :
                 /\ act = "Mate" /\ MateReady(animals[self])
                 /\ animals[o].species = animals[self].species /\ MateReady(animals[o])}

NextStamina_Fresh(a, engaged) == Up(a.stamina, MaxStamina)
NextStamina(a, engaged) == IF engaged THEN Down(a.stamina) ELSE Up(a.stamina, MaxStamina)

Proposal(combat, act, mateWith, stamina) ==
  [act |-> act, target |-> combat.target, damage |-> combat.damage, mateWith |-> mateWith,
   partner |-> combat.partner, next |-> combat.next, rest |-> combat.rest, stamina |-> stamina]

FullPipeline(self) ==
  LET a == animals[self] IN
  UNION {{Proposal(c, act, m, NextStamina(a, c.partner # None)) :
            c \in UNION {ResolveCombat(a, act, t, far) : t \in CombatTargets(self), far \in BOOLEAN},
            m \in Mates(self, act)} : act \in Acts[a.species]}

\* A dormant animal holds its action; only the free non-predators are ever dormant.
CheapPath(self) ==
  LET a == animals[self] IN
  IF IsPredator(a) \/ a.partner # None THEN {}
  ELSE {Proposal(Hold(a), a.act, None, a.stamina)}

-----------------------------------------------------------------------------
(* The combined apply: who may act on a contested target.                    *)

Stat(i) == IF i \in Alive THEN Strength[i] ELSE 0
Beats_Ties(i, j) == Stat(i) > Stat(j)
Beats(i, j) == Stat(i) > Stat(j) \/ (Stat(i) = Stat(j) /\ i < j)
Rivals(self) == {i \in Ids \ {self} : intents[i] # None /\ intents[i].target = intents[self].target}

\* Evaluated anew in each pass, from the stats of the animals then alive.
Loser(self) == intents[self].target # None /\ \E i \in Rivals(self) : Beats(i, self)

\* commitAnimalOwnState: v is the Vital after regeneration and bleeding.
OwnState(a, i, v) ==
  [a EXCEPT !.vital = v, !.stamina = i.stamina, !.act = i.act, !.partner = i.partner,
            !.next = i.next, !.rest = i.rest, !.young = Down(a.young)]
NextVital(a) == {v \in 0..MaxVital : v <= a.vital + 1}

\* applyAnimalHiding, after the animal's own commit; cover and the roll may fail.
MayHide(a) == ~IsPredator(a) /\ a.partner = None /\ a.hidden = 0 /\ a.act = "Evade"
Hidings(a) == {a} \cup (IF MayHide(a) THEN {[a EXCEPT !.hidden = HideTicks + 1]} ELSE {})

\* applyAnimalAttack: the target is hurt, both are engaged and flushed, a kill removes it.
Struck_Hidden(t, self, i) ==
  [t EXCEPT !.vital = IF t.vital > i.damage THEN t.vital - i.damage ELSE 0,
            !.partner = self, !.next = i.next, !.rest = i.rest]
Struck_FirstLock(t, self, i) ==
  [t EXCEPT !.vital = IF t.vital > i.damage THEN t.vital - i.damage ELSE 0,
            !.partner = IF t.partner = None THEN self ELSE t.partner,
            !.next = i.next, !.rest = i.rest, !.hidden = 0]
Struck(t, self, i) ==
  [t EXCEPT !.vital = IF t.vital > i.damage THEN t.vital - i.damage ELSE 0,
            !.partner = self, !.next = i.next, !.rest = i.rest, !.hidden = 0]
Strikes(self) == intents[self].target \in Alive
AfterAttack(self) ==
  LET i == intents[self] IN
  IF ~Strikes(self) THEN animals
  ELSE LET t == Struck(animals[i.target], self, i) IN
       [animals EXCEPT ![self].partner = i.target, ![self].hidden = 0,
                       ![i.target] = IF t.vital = 0 THEN None ELSE t]

\* applyAnimalCombat: the attack, then the death of an animal that bled out.
AfterCombat_NoBleed(self) == AfterAttack(self)
AfterCombat(self) ==
  LET as == AfterAttack(self) IN
  IF as[self].vital = 0 THEN [as EXCEPT ![self] = None] ELSE as

\* applyAnimalMate, but for the distance.  as is the world its combat left behind.
Reciprocal(self, other) ==
  intents[other] # None /\ intents[other].mateWith = self
MayConceive(as, self) ==
  LET other == intents[self].mateWith IN
  /\ other # None
  /\ ~(Reciprocal(self, other) /\ self > other)
  /\ as[self] # None /\ as[other] # None
  /\ as[other].act = "Mate"
  /\ as[self].mate = 0 /\ as[other].mate = 0
AfterMating_SelfOnly(as, self, born) ==
  [as EXCEPT ![born] = Fresh(as[self].species, MatureTicks), ![self].mate = MateTicks]
AfterMating(as, self, born) ==
  LET other == intents[self].mateWith IN
  [as EXCEPT ![born] = Fresh(as[self].species, MatureTicks),
             ![self].mate = MateTicks, ![other].mate = MateTicks]

-----------------------------------------------------------------------------
Init ==
  /\ \E h \in Herds :
       /\ \E young \in [DOMAIN h -> 0..MatureTicks] :
            animals = [i \in Ids |-> IF i \in DOMAIN h THEN Fresh(h[i], young[i]) ELSE None]
       /\ targets = [s \in Species |-> Targets(h, s)]
       /\ turn = DOMAIN h
       /\ phase = IF DOMAIN h = {} THEN "end" ELSE "plan"
  /\ intents = [i \in Ids |-> None]
  /\ strikes = {} /\ died = {} /\ bred = [i \in Ids |-> 0]

\* Once an animal is done it is the next one's turn, then the next phase's.
Advance(self, next, all) ==
  /\ turn' = IF turn = {self} THEN all ELSE turn \ {self}
  /\ phase' = IF turn = {self} THEN next ELSE phase

Plan(self) ==
  /\ phase = "plan" /\ turn # {} /\ self = First(turn)
  /\ \E i \in FullPipeline(self) \cup CheapPath(self) : intents' = [intents EXCEPT ![self] = i]
  /\ Advance(self, "commit", Alive)
  /\ UNCHANGED <<targets, animals, strikes, bred, died>>

Commit(self) ==
  /\ phase = "commit" /\ self = First(turn)
  /\ ~Loser(self)
  /\ \E v \in NextVital(animals[self]) :
       \E a \in Hidings(OwnState(animals[self], intents[self], v)) :
         animals' = [animals EXCEPT ![self] = a]
  /\ Advance(self, "cross", Alive)
  /\ UNCHANGED <<targets, intents, strikes, bred, died>>

\* The rival of a stronger animal commits nothing: not even its own tiring or ageing.
LoseCommit(self) ==
  /\ phase = "commit" /\ self = First(turn)
  /\ Loser(self)
  /\ Advance(self, "cross", Alive)
  /\ UNCHANGED <<targets, animals, intents, strikes, bred, died>>

Cross(self) ==
  /\ phase = "cross" /\ self = First(turn)
  /\ self \in Alive /\ ~Loser(self)
  /\ LET as == AfterCombat(self) IN
       /\ \/ animals' = as /\ bred' = [i \in Ids |-> IF as[i] = None THEN 0 ELSE bred[i]]
          \/ \E born \in Unused :
               /\ MayConceive(as, self)
               /\ animals' = AfterMating(as, self, born)
               /\ bred' = [bred EXCEPT ![self] = @ + MateTicks, ![intents[self].mateWith] = @ + MateTicks]
       /\ died' = died \cup {i \in Alive : as[i] = None}
  /\ strikes' = IF Strikes(self) THEN strikes \cup {<<self, intents[self].target>>} ELSE strikes
  /\ Advance(self, "end", {})
  /\ UNCHANGED <<targets, intents>>

\* Pass 2 skips the dead, and the rivals of an animal that is (still) stronger.
SkipCross(self) ==
  /\ phase = "cross" /\ self = First(turn)
  /\ self \notin Alive \/ Loser(self)
  /\ Advance(self, "end", {})
  /\ UNCHANGED <<targets, animals, intents, strikes, bred, died>>

-----------------------------------------------------------------------------
(* The end of the tick: runRespawn, on its cadence, then w.tick++.           *)

Extinct == {s \in Species : targets[s] > 0 /\ \A i \in Alive : animals[i].species # s}

\* A founder group of each extinct species; each arrival's age is drawn.
Arrivals == {Fresh(s, young) : s \in Extinct, young \in 0..MatureTicks}
Immigrants ==
  {f \in [Unused -> Arrivals \cup {None}] :
     \A s \in Extinct : Cardinality({i \in Unused : f[i] # None /\ f[i].species = s}) = targets[s]}

Aged(a) == [a EXCEPT !.next = Down(a.next), !.rest = Down(a.rest),
                     !.hidden = Down(a.hidden), !.mate = Down(a.mate)]

NextTick(as) ==
  LET living == {i \in Ids : as[i] # None} IN
  /\ animals' = [i \in Ids |-> IF i \in living THEN Aged(as[i]) ELSE None]
  /\ intents' = [i \in Ids |-> None]
  /\ turn' = living
  /\ phase' = IF living = {} THEN "end" ELSE "plan"
  /\ strikes' = {} /\ died' = {}
  /\ bred' = [i \in Ids |-> Down(bred[i])]
  /\ UNCHANGED targets

EndTick == phase = "end" /\ NextTick(animals)

Respawn ==
  /\ phase = "end" /\ Extinct # {}
  /\ \E f \in Immigrants :
       NextTick([i \in Ids |-> IF i \in Unused THEN f[i] ELSE animals[i]])

-----------------------------------------------------------------------------
Next ==
  \/ \E self \in Ids : Plan(self) \/ Commit(self) \/ LoseCommit(self) \/ Cross(self) \/ SkipCross(self)
  \/ EndTick \/ Respawn

Spec == Init /\ [][Next]_vars /\ WF_vars(Next)
-----------------------------------------------------------------------------
(* Properties.  "Between ticks" is any state of phase "end".                  *)

\* Between ticks no animal is alive without Vital, whichever of the two passes took the
\* last of it, and although a losing rival is skipped by both (killAnimal's two callers).
NoZombies == phase = "end" => \A i \in Alive : animals[i].vital > 0

\* Nobody stays engaged with the dead, and nobody engaged is hidden: between ticks an
\* engagement names a living animal, or one that died in this very tick (removeAnimal clears
\* no reference to the removed), although an animal hides in pass 1, not knowing that it is
\* struck in pass 2, or attacks from its hiding place (applyAnimalHiding, applyAnimalAttack).
EngagedInTheOpen ==
  phase = "end" =>
    \A i \in Alive : animals[i].partner # None =>
      /\ animals[i].partner \in Alive \cup died
      /\ animals[i].partner \in Alive => animals[i].hidden = 0

\* The mutual lock does not depend on the order of the IDs: after a tick in which a strike
\* landed, attacker and target, if they live, are engaged, with one they struck or were
\* struck by in this tick (a hunter may itself be hunted).
Locked(i) == <<i, animals[i].partner>> \in strikes \/ <<animals[i].partner, i>> \in strikes
MutualLock ==
  phase = "end" => \A s \in strikes : \A i \in {s[1], s[2]} \cap Alive : Locked(i)

\* One rival at a time: a second animal strikes the same target in a tick only if the one
\* that struck first died of its wounds or its hunger in that tick.
RivalsTakeTurns ==
  phase = "end" =>
    \A s, r \in strikes : s # r /\ s[2] = r[2] => s[1] \in died \/ r[1] \in died

\* Breeding is paced: whether it courted, was courted or both, an animal that conceived does
\* not conceive again before its refractory window is over (both parents' MateCooldownUntil).
BirthsPaced == \A i \in Ids : bred[i] <= MateTicks

\* A hunt ends: a predator tires, loses its prey or kills it, and is free again and again -
\* even one that a stronger rival keeps from acting, and so from tiring (LoseCommit).
Hunting(i) == animals[i] # None /\ IsPredator(animals[i]) /\ animals[i].partner # None
HuntEnds == \A i \in Ids : []<>~Hunting(i)

=============================================================================
