---------------------------- MODULE WildlifeProofs ----------------------------
(***************************************************************************)
(* Proofs about the animals of one tick, for every herd, food web and      *)
(* order of strength: any number of hunters and hunted, hunters that are   *)
(* hunted themselves, any damage, and any outcome of sight, reach, cover   *)
(* and courtship.                                                          *)
(***************************************************************************)
EXTENDS Wildlife, FiniteOrders

Typed ==
  /\ targets \in [Species -> Nat]
  /\ animals \in [Ids -> Animal \cup {None}]
  /\ intents \in [Ids -> Intent \cup {None}]
  /\ phase \in {"plan", "commit", "cross", "end"}
  /\ turn \subseteq Ids /\ (turn = {} <=> phase = "end")
  /\ strikes \subseteq Ids \X Ids
  /\ died \subseteq Ids \ Alive
  /\ bred \in [Ids -> Nat]
  /\ phase \in {"plan", "commit"} => strikes = {} /\ died = {}

\* Those this tick began with and those born in it.
Seen == Alive \cup died

\* What an intent may be, and who has made one.
FitIntent(i) ==
  LET p == intents[i] IN
  /\ p.target # None => p.act = "Attack" /\ p.partner = p.target
  /\ p.mateWith # None => p.act = "Mate" /\ p.mateWith # i
  /\ p.partner # None => p.partner \in Seen /\ p.partner # i
Proposed ==
  /\ turn \subseteq Seen
  /\ \A i \in Ids : intents[i] # None => i \in Seen /\ FitIntent(i)
  /\ phase = "plan" => \A i \in Alive \ turn : intents[i] # None
  /\ phase = "commit" => \A i \in Alive : intents[i] # None
  /\ phase = "cross" => \A i \in turn : intents[i] # None

\* An intent agrees with the animal it is of, until pass 2 touches the animal.
Grounded ==
  phase \in {"plan", "commit"} =>
    \A i \in Alive : intents[i] # None =>
      IF intents[i].target # None
      THEN animals[i].partner \in {None, intents[i].target}
      ELSE intents[i].partner \in {None, animals[i].partner}

\* Has committed in pass 1 and has still to act in pass 2.
Pending(i) ==
  /\ (phase = "commit" /\ i \notin turn) \/ (phase = "cross" /\ i \in turn)
  /\ intents[i] # None /\ ~Loser(i)

Committed(i) == phase \in {"cross", "end"} \/ (phase = "commit" /\ i \notin turn)

Alert ==
  \A i \in Alive :
    /\ animals[i].partner # i
    /\ Committed(i) => animals[i].partner \in Seen \cup {None}
    /\ animals[i].partner \in Alive =>
         animals[i].hidden = 0 \/ (Pending(i) /\ intents[i].target = animals[i].partner)

Vigorous == \A i \in Alive : animals[i].vital > 0 \/ Pending(i)

Struggles ==
  /\ \A s \in strikes :
       /\ s[1] \in Seen /\ s[2] \in Seen /\ s[1] # s[2]
       /\ intents[s[1]] # None /\ intents[s[1]].target = s[2]
       /\ s[1] \in Alive => ~Loser(s[1])
       /\ \A i \in {s[1], s[2]} \cap Alive : Locked(i)
  /\ \A s, r \in strikes : s # r /\ s[2] = r[2] => s[1] \in died \/ r[1] \in died

Paced ==
  \A i \in Ids :
    /\ i \in Alive => bred[i] <= animals[i].mate /\ animals[i].mate <= MateTicks
    /\ i \notin Alive => bred[i] = 0

WildlifeInvariant == Typed /\ Proposed /\ Grounded /\ Alert /\ Vigorous /\ Struggles /\ Paced

-----------------------------------------------------------------------------
(* The operators.                                                            *)

\* An animal whose turn it is is one of those waiting: any set of numbers has a least one.
LEMMA FirstIsIn ==
  ASSUME NEW S, S \subseteq Nat, S # {}
  PROVE  First(S) \in S
BY LeastExists DEF First

LEMMA AnimalFields ==
  ASSUME NEW a \in Animal
  PROVE  /\ a # None /\ a.species \in Species /\ a.vital \in 0..MaxVital /\ a.stamina \in 0..MaxStamina
         /\ a.act \in Actions /\ a.partner \in Ids \cup {None} /\ a.next \in Nat /\ a.rest \in Nat
         /\ a.hidden \in Nat /\ a.mate \in Nat /\ a.young \in Nat
BY WildlifeAssumption DEF Animal, WildlifeAssumption

LEMMA IntentFields ==
  ASSUME NEW p \in Intent
  PROVE  /\ p # None /\ p.act \in Actions /\ p.target \in Ids \cup {None} /\ p.damage \in Nat
         /\ p.mateWith \in Ids \cup {None} /\ p.partner \in Ids \cup {None} /\ p.next \in Nat
         /\ p.rest \in Nat /\ p.stamina \in 0..MaxStamina
BY WildlifeAssumption DEF Intent, WildlifeAssumption

LEMMA FreshFacts ==
  ASSUME NEW s \in Species, NEW young \in 0..MatureTicks
  PROVE  LET a == Fresh(s, young) IN
         /\ a \in Animal /\ a # None /\ a.species = s /\ a.vital = MaxVital /\ MaxVital > 0
         /\ a.partner = None /\ a.hidden = 0 /\ a.mate = 0
<1>1. MaxVital \in 0..MaxVital /\ MaxStamina \in 0..MaxStamina /\ MaxVital > 0
  BY WildlifeAssumption DEF WildlifeAssumption
<1>2. young \in Nat /\ "Idle" \in Actions
  BY WildlifeAssumption DEF WildlifeAssumption, Actions
<1>3. Fresh(s, young) \in Animal
  BY <1>1, <1>2 DEF Fresh, Animal
<1> QED
  BY <1>1, <1>3, AnimalFields DEF Fresh

\* The outcomes of combat: who strikes attacks the one it is engaged with; who does not
\* strike stays with its partner or lets go of it; and nobody stays with the dead.
LEMMA CombatFacts ==
  ASSUME Typed, NEW self \in Alive, animals[self].partner # self, NEW act, NEW far \in BOOLEAN,
         NEW t \in CombatTargets(self), NEW c \in ResolveCombat(animals[self], act, t, far)
  PROVE  /\ c.target \in Ids \cup {None} /\ c.damage \in Nat /\ c.partner \in Ids \cup {None}
         /\ c.next \in Nat /\ c.rest \in Nat
         /\ c.target # None => act = "Attack" /\ c.partner = c.target /\ animals[self].partner \in {None, c.target}
         /\ c.target = None => c.partner \in {None, animals[self].partner}
         /\ c.partner # None => c.partner \in Alive \ {self}
<1> DEFINE a == animals[self]
<1>1. a \in Animal /\ self \in Ids
  BY DEF Typed, Alive
<1>2. a.partner \in Ids \cup {None} /\ a.next \in Nat /\ a.rest \in Nat /\ a.partner # self
  BY <1>1, AnimalFields
<1>3. None \notin Ids /\ Damages \subseteq Nat /\ ExchangeTicks \subseteq Nat /\ CooldownTicks \subseteq Nat
  BY WildlifeAssumption DEF WildlifeAssumption
<1>4. Alive \subseteq Ids
  BY DEF Alive
<1>5. t \in {None} \cup (Alive \ {self}) /\ (a.partner # None => t = IF a.partner \in Alive THEN a.partner ELSE None)
  BY <1>2 DEF CombatTargets
<1>6. Hold(a).target = None /\ Hold(a).damage = 0 /\ Hold(a).partner = a.partner
      /\ Hold(a).next = a.next /\ Hold(a).rest = a.rest
  BY DEF Hold
<1> HIDE DEF a
<1>7. CASE a.partner # None /\ ShouldDisengage(a, t, far)
  <2>1. c = [Hold(a) EXCEPT !.partner = None, !.next = 0]
    BY <1>7 DEF ResolveCombat, a
  <2>2. c.target = None /\ c.damage = 0 /\ c.partner = None /\ c.next = 0 /\ c.rest = a.rest
    BY <2>1 DEF Hold
  <2> QED
    BY <1>2, <2>2 DEF a
<1>8. CASE a.partner # None /\ ~ShouldDisengage(a, t, far) /\ act = "Attack"
  <2>1. t = a.partner /\ a.partner \in Alive
    BY <1>5, <1>8 DEF ShouldDisengage
  <2>2. CASE a.next > 0
    <3>1. c = [Hold(a) EXCEPT !.target = a.partner]
      BY <1>8, <2>2 DEF ResolveCombat, a
    <3>2. c.target = a.partner /\ c.damage = 0 /\ c.partner = a.partner /\ c.next = a.next /\ c.rest = a.rest
      BY <3>1 DEF Hold
    <3> QED
      BY <1>2, <1>8, <2>1, <3>2 DEF a
  <2>3. CASE ~(a.next > 0)
    <3>1. PICK d \in Damages, n \in ExchangeTicks :
            c = [target |-> a.partner, damage |-> d, partner |-> a.partner, next |-> n, rest |-> a.rest]
      BY <1>8, <2>3 DEF ResolveCombat, a
    <3> QED
      BY <1>2, <1>3, <1>8, <2>1, <3>1 DEF a
  <2> QED
    BY <2>2, <2>3
<1>9. CASE a.partner = None /\ act = "Attack" /\ t # None /\ a.rest = 0
  <2>1. PICK n \in ExchangeTicks, r \in CooldownTicks :
          c = [target |-> t, damage |-> 0, partner |-> t, next |-> n, rest |-> r]
    BY <1>9 DEF ResolveCombat, a
  <2> QED
    BY <1>3, <1>4, <1>5, <1>9, <2>1 DEF a
<1>10. CASE /\ ~(a.partner # None /\ ShouldDisengage(a, t, far))
            /\ ~(a.partner # None /\ ~ShouldDisengage(a, t, far) /\ act = "Attack")
            /\ ~(a.partner = None /\ act = "Attack" /\ t # None /\ a.rest = 0)
  <2>1. c = Hold(a)
    BY <1>10 DEF ResolveCombat, a
  <2>2. a.partner # None => a.partner \in Alive
    BY <1>5, <1>10 DEF ShouldDisengage
  <2> QED
    BY <1>2, <1>6, <2>1, <2>2 DEF a
<1> QED
  BY <1>7, <1>8, <1>9, <1>10

LEMMA StaminaFacts ==
  ASSUME NEW a \in Animal
  PROVE  Down(a.stamina) \in 0..MaxStamina /\ Up(a.stamina, MaxStamina) \in 0..MaxStamina
<1>1. a.stamina \in 0..MaxStamina /\ MaxStamina \in Nat
  BY AnimalFields, WildlifeAssumption DEF WildlifeAssumption
<1> QED
  BY <1>1 DEF Up, Down

\* What an animal proposes: an intent that fits the others it is about, and the animal itself.
FitFor(self, p) ==
  /\ p.target # None => p.act = "Attack" /\ p.partner = p.target
  /\ p.mateWith # None => p.act = "Mate" /\ p.mateWith # self
  /\ p.partner # None => p.partner \in Alive \ {self}
  /\ IF p.target # None THEN animals[self].partner \in {None, p.target} ELSE p.partner \in {None, animals[self].partner}

LEMMA ProposalFacts ==
  ASSUME Typed, NEW self \in Alive, animals[self].partner # self,
         NEW p \in FullPipeline(self) \cup CheapPath(self)
  PROVE  p \in Intent /\ FitFor(self, p)
<1> DEFINE a == animals[self]
<1>1. a \in Animal /\ self \in Ids /\ Alive \subseteq Ids /\ None \notin Ids
  BY WildlifeAssumption DEF Typed, Alive, WildlifeAssumption
<1>2. /\ a.species \in Species /\ a.act \in Actions /\ a.partner \in Ids \cup {None} /\ a.next \in Nat /\ a.rest \in Nat
      /\ a.stamina \in 0..MaxStamina
  BY <1>1, AnimalFields
<1>3. CASE p \in FullPipeline(self)
  <2>1. PICK act \in Acts[a.species] :
          p \in {Proposal(c, act, m, NextStamina(a, c.partner # None)) :
                   c \in UNION {ResolveCombat(a, act, t, far) : t \in CombatTargets(self), far \in BOOLEAN},
                   m \in Mates(self, act)}
    BY <1>3 DEF FullPipeline
  <2>2. PICK c \in UNION {ResolveCombat(a, act, t, far) : t \in CombatTargets(self), far \in BOOLEAN}, m \in Mates(self, act) :
          p = Proposal(c, act, m, NextStamina(a, c.partner # None))
    BY <2>1
  <2>3. PICK t \in CombatTargets(self), far \in BOOLEAN : c \in ResolveCombat(a, act, t, far)
    BY <2>2
  <2>4. /\ c.target \in Ids \cup {None} /\ c.damage \in Nat /\ c.partner \in Ids \cup {None}
        /\ c.next \in Nat /\ c.rest \in Nat
        /\ c.target # None => act = "Attack" /\ c.partner = c.target /\ a.partner \in {None, c.target}
        /\ c.target = None => c.partner \in {None, a.partner}
        /\ c.partner # None => c.partner \in Alive \ {self}
    BY <2>3, CombatFacts
  <2>5. act \in Actions
    <3>1. Acts[a.species] \subseteq {"Attack", "Evade", "Mate", "Rest"}
      BY <1>2, WildlifeAssumption DEF WildlifeAssumption
    <3> QED
      BY <3>1 DEF Actions
  <2>6. m \in Ids \cup {None} /\ (m # None => act = "Mate" /\ m # self)
    BY <1>1 DEF Mates
  <2> DEFINE n == NextStamina(a, c.partner # None)
  <2>7. n \in 0..MaxStamina
    BY <1>1, StaminaFacts DEF NextStamina
  <2> HIDE DEF n, a
  <2>8. p = [act |-> act, target |-> c.target, damage |-> c.damage, mateWith |-> m,
             partner |-> c.partner, next |-> c.next, rest |-> c.rest, stamina |-> n]
    BY <2>2 DEF Proposal, n
  <2>9. p \in Intent
    BY <2>4, <2>5, <2>6, <2>7, <2>8 DEF Intent
  <2> QED
    BY <2>4, <2>6, <2>8, <2>9 DEF FitFor, a
<1>4. CASE p \in CheapPath(self)
  <2>1. a.partner = None /\ p = Proposal(Hold(a), a.act, None, a.stamina)
    BY <1>4 DEF CheapPath
  <2>2. p = [act |-> a.act, target |-> None, damage |-> 0, mateWith |-> None,
             partner |-> None, next |-> a.next, rest |-> a.rest, stamina |-> a.stamina]
    BY <2>1 DEF Proposal, Hold
  <2>3. p \in Intent
    BY <1>2, <2>2 DEF Intent
  <2> QED
    BY <2>1, <2>2, <2>3 DEF FitFor
<1> QED
  BY <1>3, <1>4

-----------------------------------------------------------------------------
(* The phases.                                                               *)

\* The order of the visits: the turn passes to one of those waiting, and the phase ends with
\* the last of them.
LEMMA AdvanceFacts ==
  ASSUME Typed, NEW self, NEW next, NEW all, turn # {}, self = First(turn), Advance(self, next, all)
  PROVE  /\ self \in turn /\ self \in Ids
         /\ \/ turn' = turn \ {self} /\ turn' # {} /\ phase' = phase
            \/ turn' = all /\ phase' = next /\ turn = {self}
<1>1. turn \subseteq Nat
  BY WildlifeAssumption DEF Typed, WildlifeAssumption
<1>2. self \in turn
  BY <1>1, FirstIsIn
<1> QED
  BY <1>2 DEF Typed, Advance

LEMMA InitHolds == Init => WildlifeInvariant
<1> SUFFICES ASSUME Init PROVE WildlifeInvariant
  OBVIOUS
<1>1. PICK h \in Herds :
        /\ \E young \in [DOMAIN h -> 0..MatureTicks] :
             animals = [i \in Ids |-> IF i \in DOMAIN h THEN Fresh(h[i], young[i]) ELSE None]
        /\ targets = [s \in Species |-> Targets(h, s)]
        /\ turn = DOMAIN h
        /\ phase = IF DOMAIN h = {} THEN "end" ELSE "plan"
  BY DEF Init
<1>2. PICK young \in [DOMAIN h -> 0..MatureTicks] :
        animals = [i \in Ids |-> IF i \in DOMAIN h THEN Fresh(h[i], young[i]) ELSE None]
  BY <1>1
<1>3. DOMAIN h \subseteq Ids /\ (\A i \in DOMAIN h : h[i] \in Species) /\ \A s \in Species : Targets(h, s) \in Nat
  BY WildlifeAssumption DEF WildlifeAssumption
<1>4. \A i \in DOMAIN h : LET a == animals[i] IN
        a \in Animal /\ a # None /\ a.vital > 0 /\ a.partner = None /\ a.hidden = 0 /\ a.mate = 0
  <2> SUFFICES ASSUME NEW i \in DOMAIN h
               PROVE LET a == Fresh(h[i], young[i]) IN
                     a \in Animal /\ a # None /\ a.vital > 0 /\ a.partner = None /\ a.hidden = 0 /\ a.mate = 0
    BY <1>2, <1>3
  <2>1. h[i] \in Species /\ young[i] \in 0..MatureTicks
    BY <1>2, <1>3
  <2> QED
    BY <2>1, FreshFacts
<1>5. Alive = DOMAIN h /\ \A i \in Ids \ DOMAIN h : animals[i] = None
  BY <1>2, <1>3, <1>4 DEF Alive
<1>6. /\ intents = [i \in Ids |-> None] /\ strikes = {} /\ died = {} /\ bred = [i \in Ids |-> 0]
      /\ None \notin Ids /\ MateTicks \in Nat
  BY WildlifeAssumption DEF Init, WildlifeAssumption
<1>7. Typed
  <2>1. animals \in [Ids -> Animal \cup {None}]
    BY <1>2, <1>4, <1>5
  <2>2. targets \in [Species -> Nat]
    BY <1>1, <1>3
  <2> QED
    BY <1>1, <1>3, <1>6, <2>1, <2>2 DEF Typed
<1>8. Proposed /\ Grounded
  <2>1. turn = Alive /\ phase \in {"plan", "end"} /\ \A i \in Ids : intents[i] = None
    BY <1>1, <1>5, <1>6
  <2>2. Proposed
    BY <2>1 DEF Proposed, Seen
  <2>3. Grounded
    BY <2>1 DEF Grounded, Alive
  <2> QED
    BY <2>2, <2>3
<1>9. Alert /\ Vigorous
  BY <1>1, <1>3, <1>4, <1>5, <1>6 DEF Alert, Vigorous, Committed
<1>10. Struggles
  BY <1>6 DEF Struggles
<1>11. Paced
  BY <1>4, <1>5, <1>6 DEF Paced
<1> QED
  BY <1>7, <1>8, <1>9, <1>10, <1>11 DEF WildlifeInvariant

\* In the first two phases nobody dies, so whoever waits is alive.
LEMMA EarlyFacts ==
  ASSUME WildlifeInvariant, phase \in {"plan", "commit"}, NEW self \in turn
  PROVE  /\ died = {} /\ strikes = {} /\ Seen = Alive /\ self \in Alive
         /\ Alive \subseteq Ids /\ None \notin Ids
         /\ animals[self] \in Animal /\ animals[self].partner # self
<1>1. died = {} /\ strikes = {} /\ Seen = Alive
  BY DEF WildlifeInvariant, Typed, Seen
<1>2. self \in Alive
  BY <1>1 DEF WildlifeInvariant, Proposed
<1>3. animals[self] \in Animal /\ Alive \subseteq Ids /\ None \notin Ids
  BY <1>2, WildlifeAssumption DEF WildlifeInvariant, Typed, Alive, WildlifeAssumption
<1> QED
  BY <1>1, <1>2, <1>3 DEF WildlifeInvariant, Alert

LEMMA PlanStep ==
  ASSUME WildlifeInvariant, NEW self \in Ids, Plan(self)
  PROVE  WildlifeInvariant'
<1>1. phase = "plan" /\ turn # {} /\ self = First(turn) /\ Advance(self, "commit", Alive)
      /\ UNCHANGED <<targets, animals, strikes, bred, died>>
  BY DEF Plan
<1>2. PICK p \in FullPipeline(self) \cup CheapPath(self) : intents' = [intents EXCEPT ![self] = p]
  BY DEF Plan
<1>3. Typed /\ Proposed /\ Grounded /\ Alert /\ Vigorous /\ Struggles /\ Paced
  BY DEF WildlifeInvariant
<1>4. /\ self \in turn
      /\ \/ turn' = turn \ {self} /\ turn' # {} /\ phase' = "plan"
         \/ turn' = Alive /\ phase' = "commit" /\ turn = {self}
  BY <1>1, <1>3, AdvanceFacts
<1>5. /\ died = {} /\ strikes = {} /\ Seen = Alive /\ self \in Alive
      /\ Alive \subseteq Ids /\ None \notin Ids
      /\ animals[self] \in Animal /\ animals[self].partner # self
  BY <1>1, <1>4, EarlyFacts
<1>6. p \in Intent /\ FitFor(self, p) /\ p # None
  BY <1>3, <1>5, ProposalFacts, IntentFields
<1>7. Alive' = Alive /\ Seen' = Seen
  BY <1>1 DEF Alive, Seen
<1>8. intents'[self] = p /\ \A i \in Ids : i # self => intents'[i] = intents[i]
  BY <1>2, <1>3 DEF Typed
<1>9. Typed'
  <2>1. intents' \in [Ids -> Intent \cup {None}]
    BY <1>2, <1>3, <1>6 DEF Typed
  <2>2. turn' \subseteq Ids /\ (turn' = {} <=> phase' = "end") /\ phase' \in {"plan", "commit"}
    BY <1>3, <1>4, <1>5 DEF Typed
  <2> QED
    BY <1>1, <1>3, <1>5, <1>7, <2>1, <2>2 DEF Typed
<1>10. Proposed'
  <2>1. turn' \subseteq Seen'
    BY <1>3, <1>4, <1>5, <1>7 DEF Proposed
  <2>2. FitIntent(self)'
    BY <1>5, <1>6, <1>7, <1>8 DEF FitIntent, FitFor
  <2>3. ASSUME NEW i \in Ids, intents'[i] # None PROVE i \in Seen' /\ FitIntent(i)'
    <3>1. CASE i = self
      BY <1>5, <1>7, <2>2, <3>1
    <3>2. CASE i # self
      BY <1>3, <1>7, <1>8, <2>3, <3>2 DEF Proposed, FitIntent
    <3> QED
      BY <3>1, <3>2
  <2>4. ASSUME NEW i \in Alive, i \notin turn \/ i = self PROVE intents'[i] # None
    BY <1>1, <1>3, <1>5, <1>6, <1>8, <2>4 DEF Proposed
  <2> QED
    BY <1>4, <1>7, <2>1, <2>3, <2>4 DEF Proposed
<1>11. Grounded'
  <2> SUFFICES ASSUME NEW i \in Alive, intents'[i] # None
               PROVE  IF intents'[i].target # None
                      THEN animals[i].partner \in {None, intents'[i].target}
                      ELSE intents'[i].partner \in {None, animals[i].partner}
    BY <1>1, <1>7 DEF Grounded
  <2>1. CASE i = self
    BY <1>6, <1>8, <2>1 DEF FitFor
  <2>2. CASE i # self
    BY <1>1, <1>3, <1>5, <1>8, <2>2 DEF Grounded
  <2> QED
    BY <2>1, <2>2
<1>12. Alert'
  <2> SUFFICES ASSUME NEW i \in Alive
               PROVE  /\ animals[i].partner # i
                      /\ ~Committed(i)'
                      /\ animals[i].partner \in Alive => animals[i].hidden = 0
    BY <1>1, <1>7 DEF Alert
  <2>1. ~Committed(i)'
    BY <1>4 DEF Committed
  <2>2. ~Pending(i)
    BY <1>1 DEF Pending
  <2> QED
    BY <1>3, <2>1, <2>2 DEF Alert
<1>13. Vigorous'
  BY <1>1, <1>3, <1>7 DEF Vigorous, Pending
<1>14. Struggles' /\ Paced'
  BY <1>1, <1>3, <1>5, <1>7 DEF Struggles, Paced
<1> QED
  BY <1>9, <1>10, <1>11, <1>12, <1>13, <1>14 DEF WildlifeInvariant

\* Contests are decided by who is alive and by the intents alone.
LEMMA LoserSame ==
  ASSUME intents' = intents, Alive' = Alive, NEW i
  PROVE  Loser(i)' <=> Loser(i)
<1>1. \A j, k : Beats(j, k)' <=> Beats(j, k)
  BY DEF Beats, Stat
<1>2. Rivals(i)' = Rivals(i)
  BY DEF Rivals
<1> QED
  BY <1>1, <1>2 DEF Loser

\* The own commit takes over what was proposed, and hides only who is free.
LEMMA OwnFacts ==
  ASSUME NEW a \in Animal, NEW p \in Intent, NEW v \in NextVital(a), NEW b \in Hidings(OwnState(a, p, v))
  PROVE  /\ b \in Animal /\ b # None /\ b.partner = p.partner /\ b.mate = a.mate
         /\ b.hidden = a.hidden \/ p.partner = None
<1> DEFINE o == OwnState(a, p, v)
<1>1. o \in Animal /\ o.partner = p.partner /\ o.mate = a.mate /\ o.hidden = a.hidden
  <2>1. v \in 0..MaxVital /\ Down(a.young) \in Nat
    BY AnimalFields DEF NextVital, Down
  <2>2. /\ p.act \in Actions /\ p.partner \in Ids \cup {None} /\ p.next \in Nat
        /\ p.rest \in Nat /\ p.stamina \in 0..MaxStamina
    BY IntentFields
  <2>3. o = [a EXCEPT !.vital = v, !.stamina = p.stamina, !.act = p.act, !.partner = p.partner,
                      !.next = p.next, !.rest = p.rest, !.young = Down(a.young)]
    BY DEF OwnState
  <2> HIDE DEF o
  <2> QED
    BY <2>1, <2>2, <2>3 DEF Animal
<1> HIDE DEF o
<1>2. b = o \/ (o.partner = None /\ b = [o EXCEPT !.hidden = HideTicks + 1])
  BY DEF Hidings, MayHide, o
<1>3. HideTicks + 1 \in Nat
  BY WildlifeAssumption DEF WildlifeAssumption
<1>4. b \in Animal /\ b.partner = o.partner /\ b.mate = o.mate /\ (b.hidden = o.hidden \/ o.partner = None)
  BY <1>1, <1>2, <1>3 DEF Animal
<1> QED
  BY <1>1, <1>4, AnimalFields

\* What a step of pass 1 leaves of the rest, whether the animal commits or loses.
LEMMA Pass1Facts ==
  ASSUME WildlifeInvariant, NEW self \in Ids, phase = "commit", self = First(turn),
         Advance(self, "cross", Alive), UNCHANGED <<targets, intents, strikes, bred, died>>,
         animals' \in [Ids -> Animal \cup {None}], Alive' = Alive,
         \A i \in Ids : i # self => animals'[i] = animals[i]
  PROVE  /\ self \in turn /\ self \in Alive /\ Seen' = Seen /\ Seen = Alive /\ died = {} /\ strikes = {}
         /\ intents[self] \in Intent /\ FitIntent(self)
         /\ ~Pending(self) /\ \A i \in Ids : Loser(i)' <=> Loser(i)
         /\ Typed' /\ Proposed'
         /\ \A i \in Alive : i = self \/ (Committed(i)' <=> Committed(i))
         /\ \A i \in Alive : i # self /\ Pending(i) => Pending(i)'
         /\ Committed(self)' /\ (~Loser(self) => Pending(self)')
<1>1. Typed /\ Proposed /\ turn # {} /\ Alive \subseteq Ids
  BY DEF WildlifeInvariant, Typed, Alive
<1>2. /\ self \in turn
      /\ \/ turn' = turn \ {self} /\ turn' # {} /\ phase' = "commit"
         \/ turn' = Alive /\ phase' = "cross" /\ turn = {self}
  BY <1>1, AdvanceFacts
<1>3. died = {} /\ strikes = {} /\ Seen = Alive /\ self \in Alive
  BY <1>2, EarlyFacts
<1>4. Seen' = Seen
  BY DEF Seen
<1>5. \A i \in Ids : Loser(i)' <=> Loser(i)
  BY LoserSame
<1>6. intents[self] # None /\ intents[self] \in Intent /\ FitIntent(self)
  BY <1>1, <1>3 DEF Typed, Proposed
<1>7. Typed'
  BY <1>1, <1>2, <1>3 DEF Typed
<1>8. Proposed'
  <2>1. turn' \subseteq Seen' /\ \A i \in turn' : intents[i] # None
    BY <1>1, <1>2, <1>3, <1>4 DEF Proposed
  <2>2. \A i \in Ids : FitIntent(i)' <=> FitIntent(i)
    BY <1>4 DEF FitIntent
  <2>3. \A i \in Alive : intents[i] # None
    BY <1>1 DEF Proposed
  <2> QED
    BY <1>1, <1>2, <1>4, <2>1, <2>2, <2>3 DEF Proposed
<1>9. \A i \in Alive : i = self \/ (Committed(i)' <=> Committed(i))
  BY <1>2 DEF Committed
<1>10. \A i \in Alive : i # self /\ Pending(i) => Pending(i)'
  BY <1>1, <1>2, <1>5 DEF Pending
<1>11. Committed(self)' /\ (~Loser(self) => Pending(self)')
  BY <1>2, <1>3, <1>5, <1>6 DEF Committed, Pending
<1>12. ~Pending(self)
  BY <1>2 DEF Pending
<1> QED
  BY <1>2, <1>3, <1>4, <1>5, <1>6, <1>7, <1>8, <1>9, <1>10, <1>11, <1>12

LEMMA CommitStep ==
  ASSUME WildlifeInvariant, NEW self \in Ids, Commit(self)
  PROVE  WildlifeInvariant'
<1>1. phase = "commit" /\ self = First(turn) /\ ~Loser(self) /\ Advance(self, "cross", Alive)
      /\ UNCHANGED <<targets, intents, strikes, bred, died>>
  BY DEF Commit
<1>0. PICK v \in NextVital(animals[self]) :
         \E b \in Hidings(OwnState(animals[self], intents[self], v)) : animals' = [animals EXCEPT ![self] = b]
  BY DEF Commit
<1>2. PICK b \in Hidings(OwnState(animals[self], intents[self], v)) : animals' = [animals EXCEPT ![self] = b]
  BY <1>0
<1>3. Typed /\ Proposed /\ Grounded /\ Alert /\ Vigorous /\ Struggles /\ Paced
  BY DEF WildlifeInvariant
<1>4. self \in turn
  BY <1>1, <1>3, AdvanceFacts DEF Typed
<1>5. /\ self \in Alive /\ Alive \subseteq Ids /\ None \notin Ids
      /\ animals[self] \in Animal /\ animals[self].partner # self
  BY <1>1, <1>4, EarlyFacts
<1>6. intents[self] \in Intent
  BY <1>1, <1>3, <1>5 DEF Typed, Proposed
<1>7. /\ b \in Animal /\ b # None /\ b.partner = intents[self].partner /\ b.mate = animals[self].mate
      /\ b.hidden = animals[self].hidden \/ intents[self].partner = None
  BY <1>5, <1>6, OwnFacts
<1>8. /\ animals' \in [Ids -> Animal \cup {None}]
      /\ animals'[self] = b /\ \A i \in Ids : i # self => animals'[i] = animals[i]
  BY <1>2, <1>3, <1>7 DEF Typed
<1>9. Alive' = Alive
  BY <1>5, <1>7, <1>8 DEF Alive
<1>10. /\ Seen' = Seen /\ Seen = Alive /\ died = {} /\ strikes = {}
       /\ FitIntent(self) /\ ~Pending(self)
       /\ Typed' /\ Proposed'
       /\ \A i \in Alive : i = self \/ (Committed(i)' <=> Committed(i))
       /\ \A i \in Alive : i # self /\ Pending(i) => Pending(i)'
       /\ Pending(self)'
  BY <1>1, <1>8, <1>9, Pass1Facts
<1>11. IF intents[self].target # None THEN b.partner = intents[self].target
       ELSE b.partner \in {None, animals[self].partner}
  BY <1>1, <1>3, <1>5, <1>6, <1>7, <1>10, IntentFields DEF Grounded, FitIntent
<1>12. Grounded'
  <2> SUFFICES ASSUME NEW i \in Alive, intents[i] # None
               PROVE  IF intents[i].target # None
                      THEN animals'[i].partner \in {None, intents[i].target}
                      ELSE intents[i].partner \in {None, animals'[i].partner}
    BY <1>1, <1>9 DEF Grounded
  <2>1. CASE i = self
    BY <1>7, <1>8, <1>11, <2>1
  <2>2. CASE i # self
    BY <1>1, <1>3, <1>5, <1>8, <2>2 DEF Grounded
  <2> QED
    BY <2>1, <2>2
<1>13. Alert'
  <2> SUFFICES ASSUME NEW i \in Alive
               PROVE  /\ animals'[i].partner # i
                      /\ Committed(i)' => animals'[i].partner \in Seen \cup {None}
                      /\ animals'[i].partner \in Alive =>
                           animals'[i].hidden = 0 \/ (Pending(i)' /\ intents[i].target = animals'[i].partner)
    BY <1>1, <1>9, <1>10 DEF Alert
  <2>1. CASE i = self
    <3>1. b.partner # self /\ b.partner \in Seen \cup {None}
      BY <1>5, <1>7, <1>10 DEF FitIntent
    <3>2. CASE intents[self].target # None
      BY <1>8, <1>10, <1>11, <2>1, <3>1, <3>2
    <3>3. CASE intents[self].target = None
      <4>1. b.partner \in Alive => b.hidden = animals[self].hidden /\ animals[self].partner = b.partner
        BY <1>5, <1>7, <1>11, <3>3
      <4>2. b.partner \in Alive => b.hidden = 0
        BY <1>3, <1>5, <1>10, <4>1 DEF Alert
      <4> QED
        BY <1>8, <2>1, <3>1, <4>2
    <3> QED
      BY <3>2, <3>3
  <2>2. CASE i # self
    BY <1>3, <1>5, <1>8, <1>10, <2>2 DEF Alert
  <2> QED
    BY <2>1, <2>2
<1>14. Vigorous'
  <2> SUFFICES ASSUME NEW i \in Alive PROVE animals'[i].vital > 0 \/ Pending(i)'
    BY <1>9 DEF Vigorous
  <2> QED
    BY <1>3, <1>5, <1>8, <1>10 DEF Vigorous
<1>15. Struggles' /\ Paced'
  <2>1. Paced'
    BY <1>1, <1>3, <1>7, <1>8, <1>9 DEF Paced
  <2> QED
    BY <1>1, <1>10, <2>1 DEF Struggles
<1> QED
  BY <1>10, <1>12, <1>13, <1>14, <1>15 DEF WildlifeInvariant

LEMMA LoseCommitStep ==
  ASSUME WildlifeInvariant, NEW self \in Ids, LoseCommit(self)
  PROVE  WildlifeInvariant'
<1>1. phase = "commit" /\ self = First(turn) /\ Loser(self) /\ Advance(self, "cross", Alive)
      /\ UNCHANGED <<targets, animals, intents, strikes, bred, died>>
  BY DEF LoseCommit
<1>2. Typed /\ Proposed /\ Grounded /\ Alert /\ Vigorous /\ Struggles /\ Paced
  BY DEF WildlifeInvariant
<1>3. animals' \in [Ids -> Animal \cup {None}] /\ Alive' = Alive
  BY <1>1, <1>2 DEF Typed, Alive
<1>4. /\ self \in turn /\ self \in Alive /\ Seen' = Seen /\ Seen = Alive /\ strikes = {}
      /\ intents[self] \in Intent /\ FitIntent(self) /\ ~Pending(self)
      /\ Typed' /\ Proposed'
      /\ \A i \in Alive : i = self \/ (Committed(i)' <=> Committed(i))
      /\ \A i \in Alive : i # self /\ Pending(i) => Pending(i)'
  BY <1>1, <1>3, Pass1Facts
<1>5. Grounded'
  BY <1>1, <1>2, <1>3 DEF Grounded
<1>6. animals[self].partner \in Seen \cup {None}
  <2>1. intents[self].target # None /\ intents[self] # None
    BY <1>1, <1>4, IntentFields DEF Loser
  <2> QED
    BY <1>1, <1>2, <1>4, <2>1 DEF Grounded, FitIntent
<1>7. Alert'
  <2> SUFFICES ASSUME NEW i \in Alive
               PROVE  /\ animals[i].partner # i
                      /\ Committed(i)' => animals[i].partner \in Seen \cup {None}
                      /\ animals[i].partner \in Alive =>
                           animals[i].hidden = 0 \/ (Pending(i)' /\ intents[i].target = animals[i].partner)
    BY <1>1, <1>3, <1>4 DEF Alert
  <2> QED
    BY <1>2, <1>4, <1>6 DEF Alert
<1>8. Vigorous'
  BY <1>1, <1>2, <1>3, <1>4 DEF Vigorous
<1>9. Struggles' /\ Paced'
  BY <1>1, <1>2, <1>3, <1>4 DEF Struggles, Paced
<1> QED
  BY <1>4, <1>5, <1>7, <1>8, <1>9 DEF WildlifeInvariant

-----------------------------------------------------------------------------
(* Pass 2: what a strike, a death and a birth change.                         *)

LEMMA StruckFacts ==
  ASSUME NEW a \in Animal, NEW self \in Ids, NEW p \in Intent
  PROVE  LET b == Struck(a, self, p) IN
         b \in Animal /\ b # None /\ b.partner = self /\ b.hidden = 0 /\ b.mate = a.mate /\ b.vital \in Nat
<1> DEFINE v == IF a.vital > p.damage THEN a.vital - p.damage ELSE 0
           b == [a EXCEPT !.vital = v, !.partner = self, !.next = p.next, !.rest = p.rest, !.hidden = 0]
<1>1. a.vital \in 0..MaxVital /\ p.damage \in Nat /\ p.next \in Nat /\ p.rest \in Nat /\ MaxVital \in Nat
  BY AnimalFields, IntentFields, WildlifeAssumption DEF WildlifeAssumption
<1>2. v \in 0..MaxVital
  BY <1>1
<1>3. Struck(a, self, p) = b
  BY DEF Struck
<1> HIDE DEF v
<1>4. b \in Animal /\ b.partner = self /\ b.hidden = 0 /\ b.mate = a.mate /\ b.vital = v
  BY <1>1, <1>2 DEF Animal
<1> HIDE DEF b
<1> QED
  BY <1>2, <1>3, <1>4, AnimalFields

LEMMA AttackFacts ==
  ASSUME WildlifeInvariant, NEW self \in Alive, intents[self] # None
  PROVE  LET as == AfterAttack(self)
             t == intents[self].target IN
         /\ as \in [Ids -> Animal \cup {None}] /\ as[self] # None
         /\ ~Strikes(self) => as = animals
         /\ Strikes(self) =>
              /\ t \in Alive \ {self}
              /\ as[self].partner = t /\ as[self].hidden = 0 /\ as[self].mate = animals[self].mate
              /\ as[t] # None =>
                   as[t].partner = self /\ as[t].hidden = 0 /\ as[t].mate = animals[t].mate /\ as[t].vital > 0
              /\ \A j \in Ids \ {self, t} : as[j] = animals[j]
<1> DEFINE p == intents[self]
           t == p.target
           as == AfterAttack(self)
<1>1. /\ animals \in [Ids -> Animal \cup {None}] /\ self \in Ids /\ Alive \subseteq Ids /\ None \notin Ids
      /\ p \in Intent /\ animals[self] \in Animal /\ animals[self] # None /\ FitIntent(self)
  BY WildlifeAssumption DEF WildlifeInvariant, Typed, Proposed, Alive, WildlifeAssumption
<1>2. CASE ~Strikes(self)
  BY <1>1, <1>2 DEF AfterAttack
<1>3. CASE Strikes(self)
  <2>1. t \in Alive /\ t # self /\ t \in Ids /\ animals[t] \in Animal
    BY <1>1, <1>3, IntentFields DEF Strikes, FitIntent, Alive
  <2> DEFINE b == Struck(animals[t], self, p)
             a == [animals[self] EXCEPT !.partner = t, !.hidden = 0]
             u == IF b.vital = 0 THEN None ELSE b
  <2>2. b \in Animal /\ b # None /\ b.partner = self /\ b.hidden = 0 /\ b.mate = animals[t].mate /\ b.vital \in Nat
    BY <1>1, <2>1, StruckFacts
  <2>3. a \in Animal /\ a.partner = t /\ a.hidden = 0 /\ a.mate = animals[self].mate
    BY <1>1, <2>1 DEF Animal
  <2>4. as = [animals EXCEPT ![self].partner = t, ![self].hidden = 0, ![t] = u]
    BY <1>3 DEF AfterAttack
  <2> HIDE DEF b
  <2>5. as = [animals EXCEPT ![self] = a, ![t] = u]
    BY <1>1, <2>1, <2>4
  <2>6. u \in Animal \cup {None} /\ (u # None => u = b /\ u.vital > 0)
    BY <2>2
  <2> HIDE DEF a, u, as
  <2>7. /\ as \in [Ids -> Animal \cup {None}] /\ as[self] = a /\ as[t] = u
        /\ \A j \in Ids \ {self, t} : as[j] = animals[j]
    BY <1>1, <2>1, <2>3, <2>5, <2>6
  <2>8. a # None
    BY <2>3, AnimalFields
  <2> QED
    BY <1>3, <2>1, <2>2, <2>3, <2>6, <2>7, <2>8 DEF as
<1> QED
  BY <1>2, <1>3

\* as is the world the combat of self leaves: the struck and the bled out have died, the
\* striker and its target face each other, and nobody else is touched.
Leaves(self, as) ==
  LET t == intents[self].target IN
  \A j \in Ids : as[j] # None =>
    /\ j \in Alive /\ as[j].mate = animals[j].mate
    /\ IF Strikes(self) /\ j = self THEN as[j].partner = t /\ as[j].hidden = 0
       ELSE IF Strikes(self) /\ j = t THEN as[j].partner = self /\ as[j].hidden = 0
       ELSE as[j].partner = animals[j].partner /\ as[j].hidden = animals[j].hidden
    /\ IF j = self \/ (Strikes(self) /\ j = t) THEN as[j].vital > 0 ELSE as[j].vital = animals[j].vital

LEMMA DeathFacts ==
  ASSUME WildlifeInvariant, NEW self \in Alive, intents[self] # None
  PROVE  LET as == AfterCombat(self) IN
         /\ as \in [Ids -> Animal \cup {None}] /\ Leaves(self, as)
         /\ ~Strikes(self) /\ as[self] # None => as = animals
         /\ Strikes(self) => intents[self].target \in Alive \ {self}
<1> DEFINE t == intents[self].target
           at == AfterAttack(self)
           as == AfterCombat(self)
<1>1. /\ animals \in [Ids -> Animal \cup {None}] /\ self \in Ids /\ None \notin Ids
      /\ Alive = {i \in Ids : animals[i] # None}
  BY WildlifeAssumption DEF WildlifeInvariant, Typed, Alive, WildlifeAssumption
<1>2. /\ at \in [Ids -> Animal \cup {None}] /\ at[self] # None
      /\ ~Strikes(self) => at = animals
      /\ Strikes(self) =>
           /\ t \in Alive \ {self}
           /\ at[self].partner = t /\ at[self].hidden = 0 /\ at[self].mate = animals[self].mate
           /\ at[t] # None =>
                at[t].partner = self /\ at[t].hidden = 0 /\ at[t].mate = animals[t].mate /\ at[t].vital > 0
           /\ \A j \in Ids \ {self, t} : at[j] = animals[j]
  BY AttackFacts
<1>3. as = IF at[self].vital = 0 THEN [at EXCEPT ![self] = None] ELSE at
  BY DEF AfterCombat
<1> HIDE DEF at, as
<1>4. at[self].vital \in Nat
  <2>1. at[self] \in Animal
    BY <1>1, <1>2
  <2> QED
    BY <2>1, AnimalFields
<1>5. /\ as \in [Ids -> Animal \cup {None}]
      /\ \A j \in Ids : as[j] # None => as[j] = at[j] /\ (j = self => at[j].vital > 0)
      /\ \A j \in Ids : j # self => as[j] = at[j]
      /\ as[self] # None => as = at
  BY <1>1, <1>2, <1>3, <1>4
<1>6. Leaves(self, as)
  <2> SUFFICES ASSUME NEW j \in Ids, as[j] # None
               PROVE  /\ j \in Alive /\ as[j].mate = animals[j].mate
                      /\ IF Strikes(self) /\ j = self THEN as[j].partner = t /\ as[j].hidden = 0
                         ELSE IF Strikes(self) /\ j = t THEN as[j].partner = self /\ as[j].hidden = 0
                         ELSE as[j].partner = animals[j].partner /\ as[j].hidden = animals[j].hidden
                      /\ IF j = self \/ (Strikes(self) /\ j = t) THEN as[j].vital > 0 ELSE as[j].vital = animals[j].vital
    BY DEF Leaves
  <2>1. as[j] = at[j] /\ (j = self => at[j].vital > 0)
    BY <1>5
  <2>2. CASE ~Strikes(self)
    BY <1>1, <1>2, <2>1, <2>2
  <2>3. CASE Strikes(self)
    BY <1>1, <1>2, <2>1, <2>3
  <2> QED
    BY <2>2, <2>3
<1>7. ~Strikes(self) /\ as[self] # None => as = animals
  BY <1>2, <1>5
<1> QED
  BY <1>2, <1>5, <1>6, <1>7 DEF as

LEMMA MatedFacts ==
  ASSUME NEW a \in Animal
  PROVE  LET b == [a EXCEPT !.mate = MateTicks] IN
         /\ b \in Animal /\ b # None /\ b.mate = MateTicks
         /\ b.partner = a.partner /\ b.hidden = a.hidden /\ b.vital = a.vital
<1>1. PICK m : m = [a EXCEPT !.mate = MateTicks]
  OBVIOUS
<1>2. m \in Animal /\ m.mate = MateTicks /\ m.partner = a.partner /\ m.hidden = a.hidden /\ m.vital = a.vital
  BY <1>1, WildlifeAssumption DEF Animal, WildlifeAssumption
<1> QED
  BY <1>1, <1>2, AnimalFields

\* Who conceives has struck nobody, for one intent is not both; and so it was still free to.
LEMMA BirthFacts ==
  ASSUME WildlifeInvariant, NEW self \in Alive, intents[self] # None, NEW born \in Unused,
         MayConceive(AfterCombat(self), self)
  PROVE  LET other == intents[self].mateWith
             as == AfterMating(AfterCombat(self), self, born) IN
         /\ AfterCombat(self) = animals /\ ~Strikes(self)
         /\ other \in Alive \ {self} /\ born \in Ids \ Alive
         /\ animals[self].mate = 0 /\ animals[other].mate = 0
         /\ as \in [Ids -> Animal \cup {None}]
         /\ as[born] # None /\ as[born].vital > 0 /\ as[born].partner = None /\ as[born].hidden = 0 /\ as[born].mate = 0
         /\ \A j \in Alive :
              /\ as[j] # None /\ as[j].partner = animals[j].partner /\ as[j].hidden = animals[j].hidden
              /\ as[j].vital = animals[j].vital
              /\ as[j].mate = IF j \in {self, other} THEN MateTicks ELSE animals[j].mate
         /\ \A j \in Ids \ (Alive \cup {born}) : as[j] = None
<1> DEFINE other == intents[self].mateWith
           as == AfterMating(AfterCombat(self), self, born)
<1>1. /\ animals \in [Ids -> Animal \cup {None}] /\ self \in Ids /\ None \notin Ids
      /\ Alive = {i \in Ids : animals[i] # None} /\ MatureTicks \in Nat
      /\ intents[self] \in Intent /\ FitIntent(self)
  BY WildlifeAssumption DEF WildlifeInvariant, Typed, Proposed, Alive, WildlifeAssumption
<1>2. other # None /\ AfterCombat(self)[self] # None /\ AfterCombat(self)[other] # None
      /\ AfterCombat(self)[self].mate = 0 /\ AfterCombat(self)[other].mate = 0
  BY DEF MayConceive
<1>3. intents[self].target = None /\ other # self /\ other \in Ids
  BY <1>1, <1>2, IntentFields DEF FitIntent
<1>4. ~Strikes(self)
  BY <1>1, <1>3 DEF Strikes
<1>5. AfterCombat(self) = animals
  BY <1>2, <1>4, DeathFacts
<1>6. other \in Alive \ {self} /\ animals[self].mate = 0 /\ animals[other].mate = 0
  BY <1>1, <1>2, <1>3, <1>5
<1>7. born \in Ids \ Alive
  BY DEF Unused
<1> DEFINE f == Fresh(animals[self].species, MatureTicks)
           a == [animals[self] EXCEPT !.mate = MateTicks]
           b == [animals[other] EXCEPT !.mate = MateTicks]
<1>8. f \in Animal /\ f # None /\ f.vital > 0 /\ f.partner = None /\ f.hidden = 0 /\ f.mate = 0
  <2>1. animals[self].species \in Species /\ MatureTicks \in 0..MatureTicks
    BY <1>1, AnimalFields
  <2> QED
    BY <2>1, FreshFacts
<1>9. /\ a \in Animal /\ a # None /\ a.mate = MateTicks
      /\ a.partner = animals[self].partner /\ a.hidden = animals[self].hidden /\ a.vital = animals[self].vital
  BY <1>1, MatedFacts
<1>10. /\ b \in Animal /\ b # None /\ b.mate = MateTicks
       /\ b.partner = animals[other].partner /\ b.hidden = animals[other].hidden /\ b.vital = animals[other].vital
  BY <1>1, <1>6, MatedFacts
<1>11. as = [animals EXCEPT ![born] = f, ![self] = a, ![other] = b]
  <2>1. as = [animals EXCEPT ![born] = f, ![self].mate = MateTicks, ![other].mate = MateTicks]
    BY <1>5 DEF AfterMating
  <2> HIDE DEF f
  <2> QED
    BY <1>1, <1>6, <1>7, <2>1
<1> HIDE DEF f, a, b, as
<1>12. /\ as \in [Ids -> Animal \cup {None}] /\ as[born] = f /\ as[self] = a /\ as[other] = b
       /\ \A j \in Ids \ {born, self, other} : as[j] = animals[j]
  BY <1>1, <1>6, <1>7, <1>8, <1>9, <1>10, <1>11
<1>13. \A j \in Alive :
         /\ as[j] # None /\ as[j].partner = animals[j].partner /\ as[j].hidden = animals[j].hidden
         /\ as[j].vital = animals[j].vital
         /\ as[j].mate = IF j \in {self, other} THEN MateTicks ELSE animals[j].mate
  BY <1>1, <1>6, <1>7, <1>9, <1>10, <1>12
<1>14. \A j \in Ids \ (Alive \cup {born}) : as[j] = None
  BY <1>1, <1>6, <1>12
<1> QED
  BY <1>4, <1>5, <1>6, <1>7, <1>8, <1>12, <1>13, <1>14 DEF as

\* What pass 2 changes when it visits self: deaths and a birth, the two that strike face each
\* other, and all others stay as they were.
LEMMA CrossFacts ==
  ASSUME WildlifeInvariant, NEW self \in Ids, Cross(self)
  PROVE  LET t == intents[self].target IN
         /\ phase = "cross" /\ self \in turn /\ self \in Alive /\ intents[self] \in Intent /\ ~Loser(self)
         /\ Strikes(self) => t \in Alive \ {self}
         /\ animals' \in [Ids -> Animal \cup {None}]
         /\ died' = died \cup (Alive \ Alive')
         /\ \A j \in Alive' \ Alive :
              /\ j \in Unused
              /\ animals'[j].vital > 0 /\ animals'[j].partner = None /\ animals'[j].hidden = 0
         /\ \A j \in Alive' \cap Alive :
              /\ IF Strikes(self) /\ j = self THEN animals'[j].partner = t /\ animals'[j].hidden = 0
                 ELSE IF Strikes(self) /\ j = t THEN animals'[j].partner = self /\ animals'[j].hidden = 0
                 ELSE animals'[j].partner = animals[j].partner /\ animals'[j].hidden = animals[j].hidden
              /\ IF j = self \/ (Strikes(self) /\ j = t) THEN animals'[j].vital > 0
                 ELSE animals'[j].vital = animals[j].vital
         /\ bred' \in [Ids -> Nat] /\ Paced'
<1> DEFINE t == intents[self].target
           as == AfterCombat(self)
           other == intents[self].mateWith
<1>1. phase = "cross" /\ self = First(turn) /\ self \in Alive /\ ~Loser(self)
      /\ Advance(self, "end", {}) /\ died' = died \cup {i \in Alive : as[i] = None}
  BY DEF Cross
<1>2. Typed /\ Proposed /\ Paced
  BY DEF WildlifeInvariant
<1>3. self \in turn
  BY <1>1, <1>2, AdvanceFacts DEF Typed
<1>4. /\ animals \in [Ids -> Animal \cup {None}] /\ None \notin Ids /\ MateTicks \in Nat
      /\ Alive = {i \in Ids : animals[i] # None} /\ Alive' = {i \in Ids : animals'[i] # None}
      /\ bred \in [Ids -> Nat] /\ Alive \subseteq Ids
      /\ intents[self] \in Intent /\ intents[self] # None
  BY <1>1, <1>2, <1>3, WildlifeAssumption DEF Typed, Proposed, Alive, WildlifeAssumption
<1>5. /\ as \in [Ids -> Animal \cup {None}] /\ Leaves(self, as)
      /\ Strikes(self) => t \in Alive \ {self}
  BY <1>1, <1>4, DeathFacts
<1>6. CASE animals' = as /\ bred' = [i \in Ids |-> IF as[i] = None THEN 0 ELSE bred[i]]
  <2> HIDE DEF as
  <2>1. Alive' \subseteq Alive
    BY <1>4, <1>5, <1>6 DEF Leaves
  <2>2. died' = died \cup (Alive \ Alive')
    BY <1>1, <1>4, <1>6
  <2>3. bred' \in [Ids -> Nat]
    BY <1>4, <1>6
  <2>4. Paced'
    <3> SUFFICES ASSUME NEW i \in Ids
                 PROVE  /\ i \in Alive' => bred'[i] <= animals'[i].mate /\ animals'[i].mate <= MateTicks
                        /\ i \notin Alive' => bred'[i] = 0
      BY DEF Paced
    <3>1. CASE as[i] = None
      BY <1>4, <1>6, <3>1
    <3>2. CASE as[i] # None
      BY <1>2, <1>4, <1>5, <1>6, <3>2 DEF Leaves, Paced
    <3> QED
      BY <3>1, <3>2
  <2>5. \A j \in Alive' \cap Alive :
          /\ IF Strikes(self) /\ j = self THEN animals'[j].partner = t /\ animals'[j].hidden = 0
             ELSE IF Strikes(self) /\ j = t THEN animals'[j].partner = self /\ animals'[j].hidden = 0
             ELSE animals'[j].partner = animals[j].partner /\ animals'[j].hidden = animals[j].hidden
          /\ IF j = self \/ (Strikes(self) /\ j = t) THEN animals'[j].vital > 0
             ELSE animals'[j].vital = animals[j].vital
    BY <1>4, <1>5, <1>6 DEF Leaves
  <2> QED
    BY <1>1, <1>3, <1>4, <1>5, <1>6, <2>1, <2>2, <2>3, <2>4, <2>5
<1>7. CASE \E born \in Unused :
             /\ MayConceive(as, self)
             /\ animals' = AfterMating(as, self, born)
             /\ bred' = [bred EXCEPT ![self] = @ + MateTicks, ![other] = @ + MateTicks]
  <2>1. PICK born \in Unused :
             /\ MayConceive(as, self)
             /\ animals' = AfterMating(as, self, born)
             /\ bred' = [bred EXCEPT ![self] = @ + MateTicks, ![other] = @ + MateTicks]
    BY <1>7
  <2>2. /\ as = animals /\ ~Strikes(self)
        /\ other \in Alive \ {self} /\ born \in Ids \ Alive
        /\ animals[self].mate = 0 /\ animals[other].mate = 0
        /\ animals' \in [Ids -> Animal \cup {None}]
        /\ animals'[born] # None /\ animals'[born].vital > 0 /\ animals'[born].partner = None
        /\ animals'[born].hidden = 0 /\ animals'[born].mate = 0
        /\ \A j \in Alive :
             /\ animals'[j] # None /\ animals'[j].partner = animals[j].partner /\ animals'[j].hidden = animals[j].hidden
             /\ animals'[j].vital = animals[j].vital
             /\ animals'[j].mate = IF j \in {self, other} THEN MateTicks ELSE animals[j].mate
        /\ \A j \in Ids \ (Alive \cup {born}) : animals'[j] = None
    BY <1>1, <1>4, <2>1, BirthFacts
  <2> HIDE DEF as
  <2>3. Alive' = Alive \cup {born}
    BY <1>4, <2>2
  <2>4. died' = died \cup (Alive \ Alive')
    BY <1>1, <1>4, <2>2, <2>3
  <2>5. bred[self] = 0 /\ bred[other] = 0 /\ bred[born] = 0
    BY <1>1, <1>2, <1>4, <2>2 DEF Paced
  <2>6. /\ bred' \in [Ids -> Nat] /\ bred'[self] = MateTicks /\ bred'[other] = MateTicks
        /\ \A i \in Ids \ {self, other} : bred'[i] = bred[i]
    BY <1>1, <1>4, <2>1, <2>2, <2>5
  <2>7. Paced'
    <3> SUFFICES ASSUME NEW i \in Ids
                 PROVE  /\ i \in Alive' => bred'[i] <= animals'[i].mate /\ animals'[i].mate <= MateTicks
                        /\ i \notin Alive' => bred'[i] = 0
      BY DEF Paced
    <3>1. CASE i \in {self, other}
      BY <1>1, <1>4, <2>2, <2>3, <2>6, <3>1
    <3>2. CASE i = born
      BY <1>1, <1>4, <2>2, <2>3, <2>5, <2>6, <3>2
    <3>3. CASE i \notin {self, other, born}
      BY <1>2, <1>4, <2>2, <2>3, <2>6, <3>3 DEF Paced
    <3> QED
      BY <3>1, <3>2, <3>3
  <2>8. animals'[self].vital > 0
    <3>1. as[self] # None
      BY <1>1, <1>4, <2>2
    <3>2. as[self].vital > 0
      BY <1>4, <1>5, <3>1 DEF Leaves
    <3> QED
      BY <1>1, <2>2, <3>2
  <2> QED
    BY <1>1, <1>3, <1>4, <2>1, <2>2, <2>3, <2>4, <2>6, <2>7, <2>8
<1> QED
  BY <1>6, <1>7 DEF Cross

\* Nobody who has made an intent is born after it, so a contest only ever loses rivals: who may
\* act in pass 1 may act in pass 2.
LEMMA LoserShrinks ==
  ASSUME intents' = intents, NEW i \in Alive' \cap Alive, ~Loser(i),
         \A j \in Alive' \ Alive : intents[j] = None
  PROVE  ~Loser(i)'
<1> SUFFICES ASSUME Loser(i)' PROVE FALSE
  OBVIOUS
<1>1. PICK j \in Rivals(i)' : Beats(j, i)'
  BY DEF Loser
<1>2. j \in Rivals(i) /\ j \in Ids /\ intents[j] # None /\ intents[i].target # None
  BY <1>1 DEF Rivals, Loser
<1>3. j \in Alive' => j \in Alive
  BY <1>2
<1>4. i \in Ids /\ i \in Nat /\ j \in Nat /\ Strength[i] \in Nat /\ Strength[j] \in Nat
  BY <1>2, WildlifeAssumption DEF WildlifeAssumption, Alive
<1>5. Stat(i)' = Stat(i) /\ Stat(j)' <= Stat(j) /\ Stat(i) \in Nat /\ Stat(j) \in Nat /\ Stat(j)' \in Nat
  BY <1>3, <1>4 DEF Stat
<1>6. Beats(j, i)
  BY <1>1, <1>4, <1>5 DEF Beats
<1> QED
  BY <1>2, <1>6 DEF Loser

\* Of two that want the same target one always loses.
LEMMA TwoRivals ==
  ASSUME NEW i \in Ids, NEW j \in Ids, i # j, intents[i] # None, intents[j] # None,
         intents[i].target = intents[j].target, intents[i].target # None
  PROVE  Loser(i) \/ Loser(j)
<1>1. i \in Nat /\ j \in Nat /\ Stat(i) \in Nat /\ Stat(j) \in Nat
  BY WildlifeAssumption DEF WildlifeAssumption, Stat
<1>2. Beats(i, j) \/ Beats(j, i)
  BY <1>1 DEF Beats
<1>3. i \in Rivals(j) /\ j \in Rivals(i)
  BY DEF Rivals
<1> QED
  BY <1>2, <1>3 DEF Loser

LEMMA CrossStep ==
  ASSUME WildlifeInvariant, NEW self \in Ids, Cross(self)
  PROVE  WildlifeInvariant'
<1> DEFINE t == intents[self].target
<1>1. Typed /\ Proposed /\ Alert /\ Vigorous /\ Struggles
  BY DEF WildlifeInvariant
<1>2. /\ UNCHANGED <<targets, intents>> /\ Advance(self, "end", {}) /\ self = First(turn)
      /\ strikes' = IF Strikes(self) THEN strikes \cup {<<self, t>>} ELSE strikes
  BY DEF Cross
<1>3. /\ phase = "cross" /\ self \in turn /\ self \in Alive /\ intents[self] \in Intent /\ ~Loser(self)
      /\ Strikes(self) => t \in Alive \ {self}
      /\ animals' \in [Ids -> Animal \cup {None}]
      /\ died' = died \cup (Alive \ Alive')
      /\ \A j \in Alive' \ Alive :
           /\ j \in Unused
           /\ animals'[j].vital > 0 /\ animals'[j].partner = None /\ animals'[j].hidden = 0
      /\ \A j \in Alive' \cap Alive :
           /\ IF Strikes(self) /\ j = self THEN animals'[j].partner = t /\ animals'[j].hidden = 0
              ELSE IF Strikes(self) /\ j = t THEN animals'[j].partner = self /\ animals'[j].hidden = 0
              ELSE animals'[j].partner = animals[j].partner /\ animals'[j].hidden = animals[j].hidden
           /\ IF j = self \/ (Strikes(self) /\ j = t) THEN animals'[j].vital > 0
              ELSE animals'[j].vital = animals[j].vital
      /\ bred' \in [Ids -> Nat] /\ Paced'
  BY CrossFacts
<1> HIDE DEF t
<1>4. /\ Alive \subseteq Ids /\ Alive' \subseteq Ids /\ None \notin Ids
      /\ intents[self] # None /\ t \in Ids \cup {None} /\ t = intents[self].target
  BY <1>3, IntentFields, WildlifeAssumption DEF Alive, WildlifeAssumption, t
<1>5. /\ turn' \subseteq turn \ {self} /\ (phase' = "cross" \/ phase' = "end") /\ (turn' = {} <=> phase' = "end")
      /\ turn # {self} => turn' = turn \ {self} /\ phase' = "cross"
  <2>1. \/ turn' = turn \ {self} /\ turn' # {} /\ phase' = phase
        \/ turn' = {} /\ phase' = "end" /\ turn = {self}
    BY <1>1, <1>2, <1>3, AdvanceFacts
  <2> QED
    BY <1>3, <2>1
<1>6. \A j \in Alive' \ Alive : j \notin Seen /\ intents[j] = None /\ \A i \in Alive : animals[i].partner # j
  BY <1>3 DEF Unused, Seen
<1>7. Seen \subseteq Seen' /\ died \subseteq died' /\ \A j \in Seen : j \in Alive' => j \in Alive
  BY <1>3, <1>6 DEF Seen
<1>8. \A i \in Alive' \cap Alive : ~Loser(i) => ~Loser(i)'
  BY <1>2, <1>6, LoserShrinks
<1>9. \A i \in Alive' \cap Alive : i # self /\ Pending(i) => Pending(i)'
  BY <1>2, <1>3, <1>5, <1>8 DEF Pending
<1>10. Typed'
  <2>1. died' \subseteq Ids \ Alive'
    BY <1>1, <1>3, <1>4, <1>6 DEF Typed, Seen
  <2>2. strikes' \subseteq Ids \X Ids
    BY <1>1, <1>2, <1>3, <1>4 DEF Typed
  <2>3. turn' \subseteq Ids
    BY <1>1, <1>5 DEF Typed
  <2> QED
    BY <1>1, <1>2, <1>3, <1>5, <2>1, <2>2, <2>3 DEF Typed
<1>11. Proposed' /\ Grounded'
  <2>1. turn' \subseteq Seen'
    BY <1>1, <1>5, <1>7 DEF Proposed
  <2>2. \A i \in Ids : intents[i] # None => i \in Seen' /\ FitIntent(i)'
    BY <1>1, <1>2, <1>7 DEF Proposed, FitIntent
  <2> QED
    BY <1>1, <1>2, <1>3, <1>5, <2>1, <2>2 DEF Proposed, Grounded
<1>12. Alert'
  <2> SUFFICES ASSUME NEW i \in Alive'
               PROVE  /\ animals'[i].partner # i
                      /\ animals'[i].partner \in Seen' \cup {None}
                      /\ animals'[i].partner \in Alive' =>
                           animals'[i].hidden = 0 \/ (Pending(i)' /\ intents[i].target = animals'[i].partner)
    BY <1>2 DEF Alert
  <2>1. CASE i \notin Alive
    BY <1>3, <1>4, <2>1
  <2>2. CASE i \in Alive /\ Strikes(self) /\ i \in {self, t}
    BY <1>3, <1>4, <1>7, <2>2 DEF Seen
  <2>3. CASE i \in Alive /\ ~(Strikes(self) /\ i \in {self, t})
    <3>1. animals'[i].partner = animals[i].partner /\ animals'[i].hidden = animals[i].hidden
      BY <1>3, <2>3
    <3>2. animals[i].partner # i /\ animals[i].partner \in Seen \cup {None}
      BY <1>1, <1>3, <2>3 DEF Alert, Committed
    <3>3. animals[i].partner \in Alive' => animals[i].partner \in Alive
      BY <1>6, <2>3
    <3>4. ASSUME animals[i].partner \in Alive, animals[i].hidden # 0
          PROVE  Pending(i) /\ intents[i].target = animals[i].partner /\ i # self
      <4>1. Pending(i) /\ intents[i].target = animals[i].partner
        BY <1>1, <2>3, <3>4 DEF Alert
      <4>2. i # self
        BY <1>4, <2>3, <3>4, <4>1 DEF Strikes
      <4> QED
        BY <4>1, <4>2
    <3> QED
      BY <1>7, <1>9, <2>3, <3>1, <3>2, <3>3, <3>4
  <2> QED
    BY <2>1, <2>2, <2>3
<1>13. Vigorous'
  <2> SUFFICES ASSUME NEW i \in Alive' PROVE animals'[i].vital > 0 \/ Pending(i)'
    BY DEF Vigorous
  <2>1. CASE i \notin Alive \/ i = self \/ (Strikes(self) /\ i = t)
    BY <1>3, <2>1
  <2>2. CASE i \in Alive /\ ~(i = self \/ (Strikes(self) /\ i = t))
    BY <1>1, <1>3, <1>9, <2>2 DEF Vigorous
  <2> QED
    BY <2>1, <2>2
<1>14. Struggles'
  <2>1. \A s \in strikes' :
          /\ s[1] \in Seen /\ s[2] \in Seen /\ s[1] # s[2]
          /\ intents[s[1]] # None /\ intents[s[1]].target = s[2]
          /\ s[1] \in Alive => ~Loser(s[1])
    <3> SUFFICES ASSUME NEW s \in strikes'
                 PROVE  /\ s[1] \in Seen /\ s[2] \in Seen /\ s[1] # s[2]
                        /\ intents[s[1]] # None /\ intents[s[1]].target = s[2]
                        /\ s[1] \in Alive => ~Loser(s[1])
      OBVIOUS
    <3>1. CASE s \in strikes
      BY <1>1, <3>1 DEF Struggles
    <3>2. CASE s \notin strikes
      <4>1. s = <<self, t>> /\ Strikes(self)
        BY <1>2, <3>2
      <4> QED
        BY <1>3, <1>4, <4>1 DEF Seen
    <3> QED
      BY <3>1, <3>2
  <2>2. strikes \subseteq strikes'
    BY <1>2
  <2>3. ASSUME NEW s \in strikes', NEW i \in {s[1], s[2]} \cap Alive' PROVE Locked(i)'
    <3>1. i \in Alive
      BY <1>7, <2>1, <2>3
    <3>2. CASE Strikes(self) /\ i \in {self, t}
      <4>1. <<self, t>> \in strikes' /\ (i = self => animals'[i].partner = t) /\ (i # self => animals'[i].partner = self /\ i = t)
        BY <1>2, <1>3, <2>3, <3>1, <3>2
      <4> QED
        BY <4>1 DEF Locked
    <3>3. CASE ~(Strikes(self) /\ i \in {self, t})
      <4>1. animals'[i].partner = animals[i].partner
        BY <1>3, <2>3, <3>1, <3>3
      <4>2. s \in strikes
        BY <1>2, <2>3, <3>3
      <4>3. Locked(i)
        BY <1>1, <2>3, <3>1, <4>2 DEF Struggles
      <4> QED
        BY <2>2, <4>1, <4>3 DEF Locked
    <3> QED
      BY <3>2, <3>3
  <2>4. ASSUME NEW r \in strikes, Strikes(self), r[2] = t, r # <<self, t>> PROVE r[1] \in died
    <3>1. r \in Ids \X Ids
      BY <1>1 DEF Typed
    <3>2. r[1] # self /\ r[1] \in Ids
      BY <2>4, <3>1
    <3>3. t # None
      BY <1>3, <1>4, <2>4
    <3>4. Loser(r[1])
      BY <1>3, <1>4, <2>1, <2>2, <2>4, <3>2, <3>3, TwoRivals
    <3> QED
      BY <2>1, <2>2, <3>4 DEF Seen
  <2>5. \A s, r \in strikes' : s # r /\ s[2] = r[2] => s[1] \in died' \/ r[1] \in died'
    <3> SUFFICES ASSUME NEW s \in strikes', NEW r \in strikes', s # r, s[2] = r[2]
                 PROVE  s[1] \in died' \/ r[1] \in died'
      OBVIOUS
    <3>1. CASE s \in strikes /\ r \in strikes
      BY <1>1, <1>7, <3>1 DEF Struggles
    <3>2. CASE s \notin strikes
      <4>1. s = <<self, t>> /\ Strikes(self) /\ r \in strikes
        BY <1>2, <3>2
      <4> QED
        BY <1>7, <2>4, <4>1
    <3>3. CASE r \notin strikes
      <4>1. r = <<self, t>> /\ Strikes(self) /\ s \in strikes
        BY <1>2, <3>3
      <4> QED
        BY <1>7, <2>4, <4>1
    <3> QED
      BY <3>1, <3>2, <3>3
  <2>6. \A s \in strikes' : s[1] \in Alive' => s[1] \in Alive /\ ~Loser(s[1])'
    BY <1>7, <1>8, <2>1
  <2> QED
    BY <1>2, <1>7, <2>1, <2>3, <2>5, <2>6 DEF Struggles
<1> QED
  BY <1>3, <1>10, <1>11, <1>12, <1>13, <1>14 DEF WildlifeInvariant

LEMMA SkipCrossStep ==
  ASSUME WildlifeInvariant, NEW self \in Ids, SkipCross(self)
  PROVE  WildlifeInvariant'
<1>1. phase = "cross" /\ self = First(turn) /\ (self \notin Alive \/ Loser(self))
      /\ Advance(self, "end", {}) /\ UNCHANGED <<targets, animals, intents, strikes, bred, died>>
  BY DEF SkipCross
<1>2. Typed /\ Proposed /\ Alert /\ Vigorous /\ Struggles /\ Paced
  BY DEF WildlifeInvariant
<1>3. Alive' = Alive /\ Seen' = Seen
  BY <1>1 DEF Alive, Seen
<1>4. /\ self \in turn /\ turn' \subseteq turn \ {self} /\ (phase' = "cross" \/ phase' = "end")
      /\ (turn' = {} <=> phase' = "end")
      /\ turn # {self} => turn' = turn \ {self} /\ phase' = "cross"
  <2>1. /\ self \in turn
        /\ \/ turn' = turn \ {self} /\ turn' # {} /\ phase' = phase
           \/ turn' = {} /\ phase' = "end" /\ turn = {self}
    BY <1>1, <1>2, AdvanceFacts DEF Typed
  <2> QED
    BY <1>1, <2>1
<1>5. \A i \in Ids : Loser(i)' <=> Loser(i)
  BY <1>1, <1>3, LoserSame
<1>6. \A i \in Alive : Pending(i) => Pending(i)'
  BY <1>1, <1>2, <1>4, <1>5 DEF Pending, Alive
<1>7. Typed'
  BY <1>1, <1>2, <1>3, <1>4 DEF Typed
<1>8. Proposed' /\ Grounded'
  <2>1. \A i \in Ids : FitIntent(i)' <=> FitIntent(i)
    BY <1>1, <1>3 DEF FitIntent
  <2> QED
    BY <1>1, <1>2, <1>3, <1>4, <2>1 DEF Proposed, Grounded
<1>9. Alert'
  BY <1>1, <1>2, <1>3, <1>4, <1>6 DEF Alert, Committed
<1>10. Vigorous'
  BY <1>1, <1>2, <1>3, <1>6 DEF Vigorous
<1>11. Struggles'
  <2>1. \A i \in Alive : Locked(i)' <=> Locked(i)
    BY <1>1 DEF Locked
  <2>2. \A s \in strikes : s[1] \in Ids
    BY <1>2 DEF Typed
  <2> QED
    BY <1>1, <1>2, <1>3, <1>5, <2>1, <2>2 DEF Struggles
<1>12. Paced'
  BY <1>1, <1>2, <1>3 DEF Paced
<1> QED
  BY <1>7, <1>8, <1>9, <1>10, <1>11, <1>12 DEF WildlifeInvariant

-----------------------------------------------------------------------------
(* The end of the tick.                                                      *)

LEMMA AgedFacts ==
  ASSUME NEW a \in Animal
  PROVE  /\ Aged(a) \in Animal /\ Aged(a) # None
         /\ Aged(a).partner = a.partner /\ Aged(a).vital = a.vital
         /\ Aged(a).hidden = Down(a.hidden) /\ Aged(a).mate = Down(a.mate)
<1>1. Down(a.next) \in Nat /\ Down(a.rest) \in Nat /\ Down(a.hidden) \in Nat /\ Down(a.mate) \in Nat
  BY AnimalFields DEF Down
<1>2. PICK b : b = Aged(a)
  OBVIOUS
<1>3. b = [a EXCEPT !.next = Down(a.next), !.rest = Down(a.rest), !.hidden = Down(a.hidden), !.mate = Down(a.mate)]
  BY <1>2 DEF Aged
<1>4. /\ b \in Animal /\ b.partner = a.partner /\ b.vital = a.vital
      /\ b.hidden = Down(a.hidden) /\ b.mate = Down(a.mate)
  BY <1>1, <1>3 DEF Animal
<1> QED
  BY <1>2, <1>4, AnimalFields

\* The founders that come back are strangers: nobody is engaged with one of them.
LEMMA NextTickStep ==
  ASSUME WildlifeInvariant, phase = "end", NEW as \in [Ids -> Animal \cup {None}], NextTick(as),
         \A i \in Alive : as[i] = animals[i],
         \A i \in Ids \ Alive : as[i] # None =>
           i \in Unused /\ as[i].vital > 0 /\ as[i].partner = None /\ as[i].hidden = 0 /\ as[i].mate = 0
  PROVE  WildlifeInvariant'
<1> DEFINE living == {i \in Ids : as[i] # None}
<1>1. /\ animals' = [i \in Ids |-> IF i \in living THEN Aged(as[i]) ELSE None]
      /\ intents' = [i \in Ids |-> None]
      /\ turn' = living
      /\ phase' = IF living = {} THEN "end" ELSE "plan"
      /\ strikes' = {} /\ died' = {}
      /\ bred' = [i \in Ids |-> Down(bred[i])]
      /\ UNCHANGED targets
  BY DEF NextTick
<1>2. Typed /\ Alert /\ Vigorous /\ Paced
  BY DEF WildlifeInvariant
<1>3. /\ Alive = {i \in Ids : animals[i] # None} /\ None \notin Ids
      /\ animals \in [Ids -> Animal \cup {None}] /\ bred \in [Ids -> Nat] /\ MateTicks \in Nat
  BY <1>2, WildlifeAssumption DEF Typed, Alive, WildlifeAssumption
<1>4. \A i \in living :
        /\ as[i] \in Animal /\ animals'[i] \in Animal /\ animals'[i] # None
        /\ animals'[i].partner = as[i].partner /\ animals'[i].vital = as[i].vital
        /\ animals'[i].hidden = Down(as[i].hidden) /\ animals'[i].mate = Down(as[i].mate)
  BY <1>1, AgedFacts
<1>5. Alive' = living /\ Alive \subseteq living
  BY <1>1, <1>3, <1>4 DEF Alive
<1>6. Seen' = Alive'
  BY <1>1 DEF Seen
<1>7. Typed'
  <2>1. animals' \in [Ids -> Animal \cup {None}]
    BY <1>1, <1>4
  <2>2. bred' \in [Ids -> Nat]
    BY <1>1, <1>3 DEF Down
  <2> QED
    BY <1>1, <1>2, <2>1, <2>2 DEF Typed
<1>8. Proposed' /\ Grounded'
  BY <1>1, <1>3, <1>5, <1>6 DEF Proposed, Grounded
<1>9. Alert' /\ Vigorous'
  <2> SUFFICES ASSUME NEW i \in living
               PROVE  /\ animals'[i].partner # i /\ ~Committed(i)'
                      /\ animals'[i].partner \in living => animals'[i].hidden = 0
                      /\ animals'[i].vital > 0
    BY <1>5 DEF Alert, Vigorous
  <2>1. ~Committed(i)'
    BY <1>1 DEF Committed
  <2>2. CASE i \in Alive
    <3>1. ~Pending(i)
      BY DEF Pending
    <3>2. animals[i].vital > 0 /\ animals[i].partner # i
      BY <1>2, <2>2, <3>1 DEF Alert, Vigorous
    <3>3. ASSUME animals[i].partner \in living PROVE animals[i].hidden = 0
      <4>1. animals[i].partner \in Alive
        BY <2>2, <3>3 DEF Unused
      <4> QED
        BY <1>2, <2>2, <3>1, <4>1 DEF Alert
    <3>4. /\ animals'[i].partner = animals[i].partner /\ animals'[i].vital = animals[i].vital
          /\ animals'[i].hidden = Down(animals[i].hidden)
      BY <1>4, <2>2
    <3>5. animals'[i].partner \in living => animals'[i].hidden = 0
      BY <3>3, <3>4 DEF Down
    <3> QED
      BY <2>1, <3>2, <3>4, <3>5
  <2>3. CASE i \notin Alive
    <3>1. as[i].partner = None /\ as[i].hidden = 0 /\ as[i].vital > 0
      BY <2>3
    <3>2. animals'[i].partner = None /\ animals'[i].vital > 0 /\ animals'[i].hidden = 0
      BY <1>4, <3>1 DEF Down
    <3> QED
      BY <1>3, <2>1, <3>2
  <2> QED
    BY <2>2, <2>3
<1>10. Struggles'
  BY <1>1 DEF Struggles
<1>11. Paced'
  <2> SUFFICES ASSUME NEW i \in Ids
               PROVE  /\ i \in living => bred'[i] <= animals'[i].mate /\ animals'[i].mate <= MateTicks
                      /\ i \notin living => bred'[i] = 0
    BY <1>5 DEF Paced
  <2>1. bred'[i] = Down(bred[i]) /\ bred[i] \in Nat
    BY <1>1, <1>3
  <2>2. CASE i \in Alive
    <3>1. animals[i].mate \in Nat
      BY <1>3, <2>2, AnimalFields
    <3>2. bred[i] <= animals[i].mate /\ animals[i].mate <= MateTicks
      BY <1>2, <2>2 DEF Paced
    <3>3. i \in living /\ animals'[i].mate = Down(animals[i].mate)
      BY <1>4, <1>5, <2>2
    <3>4. Down(bred[i]) <= Down(animals[i].mate) /\ Down(animals[i].mate) <= MateTicks
      BY <1>3, <2>1, <3>1, <3>2 DEF Down
    <3> QED
      BY <2>1, <3>3, <3>4
  <2>3. CASE i \notin Alive
    <3>1. bred[i] = 0
      BY <1>2, <2>3 DEF Paced
    <3>2. i \in living => animals'[i].mate = 0
      BY <1>4, <2>3 DEF Down
    <3>3. bred'[i] = 0 /\ bred'[i] <= 0 /\ 0 <= MateTicks
      BY <1>3, <2>1, <3>1 DEF Down
    <3> QED
      BY <3>2, <3>3
  <2> QED
    BY <2>2, <2>3
<1> QED
  BY <1>7, <1>8, <1>9, <1>10, <1>11 DEF WildlifeInvariant

LEMMA EndTickStep ==
  ASSUME WildlifeInvariant, EndTick
  PROVE  WildlifeInvariant'
<1>1. phase = "end" /\ NextTick(animals)
  BY DEF EndTick
<1>2. animals \in [Ids -> Animal \cup {None}] /\ \A i \in Ids \ Alive : animals[i] = None
  BY DEF WildlifeInvariant, Typed, Alive
<1> QED
  BY <1>1, <1>2, NextTickStep

LEMMA RespawnStep ==
  ASSUME WildlifeInvariant, Respawn
  PROVE  WildlifeInvariant'
<1>1. PICK f \in Immigrants : NextTick([i \in Ids |-> IF i \in Unused THEN f[i] ELSE animals[i]])
  BY DEF Respawn
<1> DEFINE as == [i \in Ids |-> IF i \in Unused THEN f[i] ELSE animals[i]]
<1>2. phase = "end" /\ animals \in [Ids -> Animal \cup {None}]
  BY DEF Respawn, WildlifeInvariant, Typed
<1>3. \A i \in Unused : f[i] # None =>
        f[i] \in Animal /\ f[i].vital > 0 /\ f[i].partner = None /\ f[i].hidden = 0 /\ f[i].mate = 0
  <2> SUFFICES ASSUME NEW i \in Unused, f[i] # None
               PROVE  f[i] \in Animal /\ f[i].vital > 0 /\ f[i].partner = None /\ f[i].hidden = 0 /\ f[i].mate = 0
    OBVIOUS
  <2>1. f[i] \in Arrivals
    BY DEF Immigrants
  <2>2. PICK s \in Extinct, young \in 0..MatureTicks : f[i] = Fresh(s, young)
    BY <2>1 DEF Arrivals
  <2>3. s \in Species
    BY DEF Extinct
  <2> QED
    BY <2>2, <2>3, FreshFacts
<1>4. Unused \subseteq Ids /\ \A i \in Alive : i \notin Unused
  BY DEF Unused
<1>5. as \in [Ids -> Animal \cup {None}]
  <2>1. f \in [Unused -> Arrivals \cup {None}]
    BY DEF Immigrants
  <2> QED
    BY <1>2, <1>3, <1>4
<1>6. \A i \in Alive : as[i] = animals[i]
  BY <1>4 DEF Alive
<1>7. \A i \in Ids \ Alive : as[i] # None =>
        i \in Unused /\ as[i].vital > 0 /\ as[i].partner = None /\ as[i].hidden = 0 /\ as[i].mate = 0
  <2>1. \A i \in Ids \ Alive : animals[i] = None
    BY DEF Alive
  <2> QED
    BY <1>3, <1>4, <2>1
<1>8. NextTick(as)
  BY <1>1
<1> HIDE DEF as
<1> QED
  BY <1>2, <1>5, <1>6, <1>7, <1>8, NextTickStep

LEMMA StutterStep ==
  ASSUME WildlifeInvariant, UNCHANGED vars
  PROVE  WildlifeInvariant'
<1>1. /\ targets' = targets /\ animals' = animals /\ intents' = intents /\ phase' = phase
      /\ turn' = turn /\ strikes' = strikes /\ bred' = bred /\ died' = died
  BY DEF vars
<1>2. Alive' = Alive /\ Seen' = Seen
  BY <1>1 DEF Alive, Seen
<1>3. \A i : Loser(i)' <=> Loser(i)
  BY <1>1, <1>2, LoserSame
<1>4. \A i : (Pending(i)' <=> Pending(i)) /\ (Committed(i)' <=> Committed(i)) /\ (Locked(i)' <=> Locked(i))
  BY <1>1, <1>3 DEF Pending, Committed, Locked
<1>5. Typed' /\ Grounded' /\ Paced'
  BY <1>1, <1>2 DEF WildlifeInvariant, Typed, Grounded, Paced
<1>6. Proposed'
  BY <1>1, <1>2 DEF WildlifeInvariant, Proposed, FitIntent
<1>7. Alert' /\ Vigorous'
  BY <1>1, <1>2, <1>4 DEF WildlifeInvariant, Alert, Vigorous
<1>8. Struggles'
  BY <1>1, <1>2, <1>3, <1>4 DEF WildlifeInvariant, Struggles
<1> QED
  BY <1>5, <1>6, <1>7, <1>8 DEF WildlifeInvariant

LEMMA NextStep ==
  ASSUME WildlifeInvariant, [Next]_vars
  PROVE  WildlifeInvariant'
<1>1. ASSUME NEW self \in Ids, Plan(self) PROVE WildlifeInvariant'
  BY <1>1, PlanStep
<1>2. ASSUME NEW self \in Ids, Commit(self) PROVE WildlifeInvariant'
  BY <1>2, CommitStep
<1>3. ASSUME NEW self \in Ids, LoseCommit(self) PROVE WildlifeInvariant'
  BY <1>3, LoseCommitStep
<1>4. ASSUME NEW self \in Ids, Cross(self) PROVE WildlifeInvariant'
  BY <1>4, CrossStep
<1>5. ASSUME NEW self \in Ids, SkipCross(self) PROVE WildlifeInvariant'
  BY <1>5, SkipCrossStep
<1>6. CASE EndTick
  BY <1>6, EndTickStep
<1>7. CASE Respawn
  BY <1>7, RespawnStep
<1>8. CASE UNCHANGED vars
  BY <1>8, StutterStep
<1> QED
  BY <1>1, <1>2, <1>3, <1>4, <1>5, <1>6, <1>7, <1>8 DEF Next

-----------------------------------------------------------------------------
(* The theorems.                                                             *)

\* The types, and all that the properties below rest on, hold in every state.
THEOREM WildlifeHolds == Spec => []WildlifeInvariant
<1>1. WildlifeInvariant /\ [Next]_vars => WildlifeInvariant'
  BY NextStep
<1> QED
  BY <1>1, InitHolds, PTL DEF Spec

\* Between ticks nobody is alive without Vital: whom hunger or a wound drained in pass 1, or a
\* strike in pass 2, either pass 2 removed it, or a stronger rival kept it from acting in both
\* passes and it was never drained (killAnimal's two callers).
THEOREM NoZombiesHolds == Spec => []NoZombies
<1>1. WildlifeInvariant => NoZombies
  BY DEF WildlifeInvariant, Vigorous, NoZombies, Pending
<1> QED
  BY <1>1, WildlifeHolds, PTL

\* Nobody stays engaged with the dead of an earlier tick, and nobody hides from the one it is
\* engaged with (stepCombat's disengagement, applyAnimalHiding, applyAnimalAttack).
THEOREM EngagedInTheOpenHolds == Spec => []EngagedInTheOpen
<1>1. WildlifeInvariant => EngagedInTheOpen
  <2> SUFFICES ASSUME WildlifeInvariant, phase = "end", NEW i \in Alive, animals[i].partner # None
               PROVE  /\ animals[i].partner \in Alive \cup died
                      /\ animals[i].partner \in Alive => animals[i].hidden = 0
    BY DEF EngagedInTheOpen
  <2>1. Committed(i) /\ ~Pending(i)
    BY DEF Committed, Pending
  <2> QED
    BY <2>1 DEF WildlifeInvariant, Alert, Seen
<1> QED
  BY <1>1, WildlifeHolds, PTL

\* A strike locks the two that live, whatever the order of their IDs and however many strike
\* them in turn (applyAnimalAttack).
THEOREM MutualLockHolds == Spec => []MutualLock
<1>1. WildlifeInvariant => MutualLock
  BY DEF WildlifeInvariant, Struggles, MutualLock
<1> QED
  BY <1>1, WildlifeHolds, PTL

\* One rival at a time: a second strikes only over the first one's body (the losers of
\* combinedApply, evaluated anew in pass 2).
THEOREM RivalsTakeTurnsHolds == Spec => []RivalsTakeTurns
<1>1. WildlifeInvariant => RivalsTakeTurns
  BY DEF WildlifeInvariant, Struggles, RivalsTakeTurns
<1> QED
  BY <1>1, WildlifeHolds, PTL

\* Both parents wait out their refractory window (applyAnimalMate).
THEOREM BirthsPacedHolds == Spec => []BirthsPaced
<1>1. WildlifeInvariant => BirthsPaced
  <2> SUFFICES ASSUME WildlifeInvariant, NEW i \in Ids PROVE bred[i] <= MateTicks
    BY DEF BirthsPaced
  <2>1. Typed /\ Paced
    BY DEF WildlifeInvariant
  <2>2. MateTicks \in Nat /\ bred[i] \in Nat
    BY <2>1, WildlifeAssumption DEF Typed, WildlifeAssumption
  <2>3. CASE i \in Alive
    <3>1. animals[i] \in Animal
      BY <2>1, <2>3 DEF Typed, Alive
    <3>2. animals[i].mate \in Nat
      BY <3>1, AnimalFields
    <3> QED
      BY <2>1, <2>2, <2>3, <3>2 DEF Paced
  <2>4. CASE i \notin Alive
    BY <2>1, <2>2, <2>4 DEF Paced
  <2> QED
    BY <2>3, <2>4
<1> QED
  BY <1>1, WildlifeHolds, PTL
=============================================================================
