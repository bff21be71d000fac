---------------------------- MODULE SocietyProofs ----------------------------
(***************************************************************************)
(* Proofs about what the villagers come to believe of each other, for every     *)
(* number of agents and functions, every pattern of failing plans, trades and    *)
(* votes, and every threshold and delta.                                       *)
(***************************************************************************)
EXTENDS Society, FiniteOrders

-----------------------------------------------------------------------------
(* Beliefs.  A belief nobody has yet is as good as the one it would be seeded     *)
(* with, so the lemmas speak of BeliefAbout and not of domains.                   *)

Belief == [trust : Nat, honesty : 0..HonestySeed, disliked : BOOLEAN, relyOn : [Functions -> 0..RelyMax]]
Minds == UNION {[D -> Belief] : D \in SUBSET Agents}

LEMMA SeedIsBelief == Seed \in Belief /\ SelfBelief \in Belief /\ SelfBelief.honesty = HonestySeed
                      /\ SelfBelief.relyOn = NoReliance
<1>1. NoReliance \in [Functions -> 0..RelyMax]
  BY SocietyAssumption DEF SocietyAssumption, NoReliance
<1>2. HonestySeed \in 0..HonestySeed /\ TrustSeed \in Nat /\ TrustMax \in Nat
  BY SocietyAssumption DEF SocietyAssumption
<1> QED
  BY <1>1, <1>2 DEF Seed, SelfBelief, Belief

LEMMA BeliefType ==
  ASSUME NEW t \in Minds, NEW b
  PROVE  BeliefAbout(t, b) \in Belief
BY SeedIsBelief DEF BeliefAbout, Minds

LEMMA HoldingFacts ==
  ASSUME NEW t \in Minds, NEW b \in Agents, NEW v \in Belief
  PROVE  /\ Holding(t, b, v) \in Minds
         /\ \A c : BeliefAbout(Holding(t, b, v), c) = IF c = b THEN v ELSE BeliefAbout(t, c)
<1>1. PICK D \in SUBSET Agents : t \in [D -> Belief]
  BY DEF Minds
<1>2. D \cup {b} \in SUBSET Agents /\ DOMAIN t = D
  BY <1>1
<1>3. Holding(t, b, v) \in [D \cup {b} -> Belief]
  BY <1>1, <1>2 DEF Holding
<1>4. Holding(t, b, v) \in Minds
  BY <1>2, <1>3 DEF Minds
<1>5. \A c : BeliefAbout(Holding(t, b, v), c) = IF c = b THEN v ELSE BeliefAbout(t, c)
  BY DEF BeliefAbout, Holding
<1> QED
  BY <1>4, <1>5

\* t and u agree on everybody's honesty, and on who is relied on for what.
SameHonesty(t, u) == \A c : BeliefAbout(u, c).honesty = BeliefAbout(t, c).honesty
SameReliance(t, u) == \A c : BeliefAbout(u, c).relyOn = BeliefAbout(t, c).relyOn

LEMMA RejectionFacts ==
  ASSUME NEW t \in Minds, NEW b \in Agents
  PROVE  LET u == RecordTradeRejection(t, b) IN u \in Minds /\ SameHonesty(t, u) /\ SameReliance(t, u)
<1> DEFINE v == [BeliefAbout(t, b) EXCEPT !.disliked = TRUE]
<1>1. BeliefAbout(t, b) \in Belief
  BY BeliefType
<1>2. v \in Belief /\ v.honesty = BeliefAbout(t, b).honesty /\ v.relyOn = BeliefAbout(t, b).relyOn
  BY <1>1 DEF Belief
<1>3. RecordTradeRejection(t, b) = Holding(t, b, v)
  BY DEF RecordTradeRejection
<1> HIDE DEF v
<1> QED
  BY <1>2, <1>3, HoldingFacts DEF SameHonesty, SameReliance

LEMMA SuccessFacts ==
  ASSUME NEW t \in Minds, NEW b \in Agents
  PROVE  LET u == RecordTradeSuccess(t, b) IN u \in Minds /\ SameHonesty(t, u) /\ SameReliance(t, u)
<1> DEFINE n == AtMost(BeliefAbout(t, b).trust + 1, TrustMax)
           v == [BeliefAbout(t, b) EXCEPT !.trust = n]
<1>1. BeliefAbout(t, b) \in Belief
  BY BeliefType
<1>2. n \in Nat
  BY <1>1, SocietyAssumption DEF SocietyAssumption, Belief, AtMost
<1>3. RecordTradeSuccess(t, b) = Holding(t, b, v)
  BY DEF RecordTradeSuccess
<1> HIDE DEF n
<1>4. v \in Belief /\ v.honesty = BeliefAbout(t, b).honesty /\ v.relyOn = BeliefAbout(t, b).relyOn
  BY <1>1, <1>2 DEF Belief
<1> HIDE DEF v
<1> QED
  BY <1>3, <1>4, HoldingFacts DEF SameHonesty, SameReliance

\* Fraud costs honesty, of the one who lied alone.
LEMMA FraudFacts ==
  ASSUME NEW t \in Minds, NEW b \in Agents, NEW lied \in BOOLEAN
  PROVE  LET u == RecordFraud(t, b, lied) IN
         /\ u \in Minds /\ SameReliance(t, u)
         /\ \A c : BeliefAbout(u, c).honesty = BeliefAbout(t, c).honesty \/ (c = b /\ lied)
<1> DEFINE h == BeliefAbout(t, b).honesty
           n == IF h = 0 THEN 0 ELSE h - 1
           v == [BeliefAbout(t, b) EXCEPT !.honesty = n]
<1>1. CASE ~lied
  BY <1>1 DEF RecordFraud, SameReliance
<1>2. CASE lied
  <2>1. BeliefAbout(t, b) \in Belief
    BY BeliefType
  <2>2. n \in 0..HonestySeed
    BY <2>1, SocietyAssumption DEF SocietyAssumption, Belief
  <2>3. RecordFraud(t, b, lied) = Holding(t, b, v)
    BY <1>2 DEF RecordFraud
  <2> HIDE DEF n
  <2>4. v \in Belief /\ v.relyOn = BeliefAbout(t, b).relyOn
    BY <2>1, <2>2 DEF Belief
  <2> HIDE DEF v
  <2> DEFINE u == Holding(t, b, v)
  <2>5. u \in Minds /\ \A c : BeliefAbout(u, c) = IF c = b THEN v ELSE BeliefAbout(t, c)
    BY <2>4, HoldingFacts
  <2> HIDE DEF u
  <2>6. SameReliance(t, u)
    BY <2>4, <2>5 DEF SameReliance
  <2>7. \A c : BeliefAbout(u, c).honesty = BeliefAbout(t, c).honesty \/ (c = b /\ lied)
    BY <1>2, <2>5
  <2>8. RecordFraud(t, b, lied) = u
    BY <2>3 DEF u
  <2> QED
    BY <2>5, <2>6, <2>7, <2>8
<1> QED
  BY <1>1, <1>2

\* Reliance grows for one agent and one function, to RelyMax at most.
LEMMA ReliesMore ==
  ASSUME NEW t \in Minds, NEW b \in Agents, NEW fn \in Functions, NEW delta \in Nat
  PROVE  LET u == AdjustRelyOn(t, b, fn, delta) IN
         /\ u \in Minds /\ SameHonesty(t, u)
         /\ \A c \in Agents, f \in Functions :
              BeliefAbout(u, c).relyOn[f] =
                IF c = b /\ f = fn THEN AtMost(BeliefAbout(t, c).relyOn[f] + delta, RelyMax)
                ELSE BeliefAbout(t, c).relyOn[f]
<1> DEFINE r == BeliefAbout(t, b).relyOn
           n == AtMost(r[fn] + delta, RelyMax)
           s == [r EXCEPT ![fn] = n]
           v == [BeliefAbout(t, b) EXCEPT !.relyOn = s]
<1>1. BeliefAbout(t, b) \in Belief /\ r \in [Functions -> 0..RelyMax]
  BY BeliefType DEF Belief
<1>2. n \in 0..RelyMax
  BY <1>1, SocietyAssumption DEF SocietyAssumption, AtMost
<1>3. AdjustRelyOn(t, b, fn, delta) = Holding(t, b, v)
  BY DEF AdjustRelyOn
<1>4. s \in [Functions -> 0..RelyMax] /\ \A f \in Functions : s[f] = IF f = fn THEN n ELSE r[f]
  <2> HIDE DEF n, r
  <2> QED
    BY <1>1, <1>2
<1>5. v \in Belief /\ v.honesty = BeliefAbout(t, b).honesty /\ v.relyOn = s
  <2> HIDE DEF s
  <2> QED
    BY <1>1, <1>4 DEF Belief
<1> HIDE DEF s, v
<1> QED
  BY <1>3, <1>4, <1>5, HoldingFacts DEF SameHonesty

-----------------------------------------------------------------------------
(* Whom one turns to.                                                        *)

LEMMA AgentsAreNumbers == Agents \subseteq Nat /\ IsFiniteSet(Agents) /\ \A S \in SUBSET Agents : IsFiniteSet(S)
<1>1. Agents \subseteq Nat /\ IsFiniteSet(Agents)
  BY SocietyAssumption DEF SocietyAssumption
<1> QED
  BY <1>1, FS_Subset

LEMMA FirstFacts ==
  ASSUME NEW S \in SUBSET Agents, S # {}
  PROVE  First(S) \in S /\ \A j \in S : First(S) <= j
<1>1. S \subseteq Nat /\ IsFiniteSet(S)
  BY AgentsAreNumbers
<1>2. \E i \in S : \A j \in S : i <= j
  BY <1>1, SmallestExists
<1> QED
  BY <1>2 DEF First

LEMMA ProviderIsAgent ==
  ASSUME NEW a \in Agents, Agents # {a}, tom[a] \in Minds
  PROVE  BestProviderFor(a) \in Agents
<1> DEFINE C == Agents \ {a}
           lv == [b \in C |-> BeliefAbout(tom[a], b).trust]
           S == {b \in C : \A c \in C : BeliefAbout(tom[a], c).trust <= BeliefAbout(tom[a], b).trust}
<1>1. C # {} /\ C \subseteq Nat /\ IsFiniteSet(C)
  BY AgentsAreNumbers
<1>2. \A b : BeliefAbout(tom[a], b).trust \in Nat
  BY BeliefType DEF Belief
<1>3. lv \in [C -> Nat]
  BY <1>2
<1>4. \A b \in C : lv[b] = BeliefAbout(tom[a], b).trust
  OBVIOUS
<1> HIDE DEF lv, C
<1>5. PICK b \in C : \A c \in C \ {b} : lv[b] > lv[c] \/ (lv[b] = lv[c] /\ b < c)
  BY <1>1, <1>3, BestExists
<1>6. b \in S
  BY <1>2, <1>4, <1>5
<1>7. S \in SUBSET Agents /\ S # {}
  BY <1>6 DEF C
<1>8. First(S) \in S
  BY <1>7, FirstFacts
<1>9. BestProviderFor(a) = First(S)
  BY DEF BestProviderFor, C
<1> QED
  BY <1>8, <1>9 DEF C

\* Those relied on for a function, whether or not a belief about them is held.
LEMMA ReliedFacts ==
  ASSUME NEW t \in Minds, NEW fn \in Functions
  PROVE  /\ Relied(t, fn) \in SUBSET Agents
         /\ \A b \in Agents : b \in Relied(t, fn) <=> BeliefAbout(t, b).relyOn[fn] > 0
         /\ \A b \in Relied(t, fn) : t[b] = BeliefAbout(t, b)
         /\ \A b : BeliefAbout(t, b).relyOn[fn] \in 0..RelyMax
<1>1. PICK D \in SUBSET Agents : t \in [D -> Belief]
  BY DEF Minds
<1>2. \A b \in D : t[b] = BeliefAbout(t, b)
  BY <1>1 DEF BeliefAbout
<1>3. \A b \in Agents \ D : BeliefAbout(t, b).relyOn[fn] = 0
  BY <1>1 DEF BeliefAbout, Seed, NoReliance
<1>4. \A b : BeliefAbout(t, b).relyOn[fn] \in 0..RelyMax
  BY BeliefType DEF Belief
<1>5. Relied(t, fn) \subseteq D /\ \A b \in D : b \in Relied(t, fn) <=> BeliefAbout(t, b).relyOn[fn] > 0
  BY <1>1, <1>2 DEF Relied
<1> QED
  BY <1>2, <1>3, <1>4, <1>5

LEMMA MostReliedFacts ==
  ASSUME NEW t \in Minds, NEW fn \in Functions, NEW S \in SUBSET Relied(t, fn), S # {}
  PROVE  MostRelied(t, fn, S) \in S
<1> DEFINE lv == [b \in S |-> t[b].relyOn[fn]]
           M == {b \in S : \A c \in S : t[c].relyOn[fn] <= t[b].relyOn[fn]}
<1>1. S \in SUBSET Agents /\ S \subseteq Nat /\ IsFiniteSet(S)
  BY ReliedFacts, AgentsAreNumbers
<1>2. \A b \in S : t[b].relyOn[fn] \in Nat
  BY ReliedFacts, SocietyAssumption DEF SocietyAssumption
<1>3. lv \in [S -> Nat] /\ \A b \in S : lv[b] = t[b].relyOn[fn]
  BY <1>2
<1> HIDE DEF lv
<1>4. PICK b \in S : \A c \in S \ {b} : lv[b] > lv[c] \/ (lv[b] = lv[c] /\ b < c)
  BY <1>1, <1>3, BestExists
<1>5. b \in M
  BY <1>2, <1>3, <1>4
<1>6. First(M) \in M
  BY <1>1, <1>5, FirstFacts
<1>7. MostRelied(t, fn, S) = First(M)
  BY DEF MostRelied
<1> QED
  BY <1>6, <1>7

LEMMA VoteFacts ==
  ASSUME NEW t \in Minds, NEW a \in Agents
  PROVE  VoteOf(a, t) \in Agents \cup {None}
<1> DEFINE S == Relied(t, SafetyFunction) \ {a}
<1>1. SafetyFunction \in Functions
  BY SocietyAssumption DEF SocietyAssumption
<1>2. S \in SUBSET Agents /\ S \in SUBSET Relied(t, SafetyFunction)
  BY <1>1, ReliedFacts
<1>3. S # {} => MostRelied(t, SafetyFunction, S) \in S
  BY <1>1, <1>2, MostReliedFacts
<1> QED
  BY <1>2, <1>3 DEF VoteOf

-----------------------------------------------------------------------------
(* The shape of the state, and what the two phases do to beliefs.               *)

Signal == [act : Trades \cup {None}, toward : Agents \cup {None}, vote : Agents \cup {None}]

Shape ==
  /\ tom \in [Agents -> Minds]
  /\ deal \in [Agents -> [act : Trades \cup {None}, left : Nat]]
  /\ pendingOffers \in [Agents -> Agents \cup {None}]
  /\ inbox \in [Agents -> SUBSET (Agents \X Functions \X Agents)]
  /\ phase = "plan" => \A a \in Agents : inbox[a] = {}
  /\ phase \in {"plan", "apply"} /\ todo \in SUBSET Agents
  /\ signals \in [Agents -> Signal] /\ \A a \in Agents : signals[a].toward # a
  /\ offered \in SUBSET (Agents \X Agents)
  /\ owed \in [Agents -> [Agents -> [Functions -> 0..RelyMax]]]

LEMMA AcquaintedFacts ==
  ASSUME NEW t \in Minds
  PROVE  Acquainted(t) \in Minds /\ \A c : BeliefAbout(Acquainted(t), c) = BeliefAbout(t, c)
<1>1. \A c : BeliefAbout(t, c) \in Belief
  BY BeliefType
<1>2. Acquainted(t) \in [Agents -> Belief]
  BY <1>1 DEF Acquainted
<1>3. DOMAIN t \subseteq Agents
  BY DEF Minds
<1>4. \A c : BeliefAbout(Acquainted(t), c) = BeliefAbout(t, c)
  BY <1>3 DEF Acquainted, BeliefAbout
<1> QED
  BY <1>2, <1>4 DEF Minds

\* With nothing in the inbox, reading it changes nothing.
LEMMA NothingHeard ==
  ASSUME NEW a \in Agents, NEW t \in Minds, inbox[a] = {}
  PROVE  LET u == ProcessVoteSignals(a, t) IN u \in Minds /\ SameHonesty(t, u) /\ SameReliance(t, u)
<1> DEFINE u == ProcessVoteSignals(a, t)
           heard(b, fn) == Cardinality({s \in inbox[a] : s[1] \in DOMAIN t /\ s[2] = fn /\ s[3] = b})
           w(b) == [fn \in Functions |-> AtMost(t[b].relyOn[fn] + VoteRelyOnDelta * heard(b, fn), RelyMax)]
<1>1. PICK D \in SUBSET Agents : t \in [D -> Belief]
  BY DEF Minds
<1>2. ASSUME NEW b \in D, NEW fn \in Functions
      PROVE  AtMost(t[b].relyOn[fn] + VoteRelyOnDelta * heard(b, fn), RelyMax) = t[b].relyOn[fn]
  <2>1. {s \in inbox[a] : s[1] \in DOMAIN t /\ s[2] = fn /\ s[3] = b} = {}
    OBVIOUS
  <2>2. heard(b, fn) = 0
    BY <2>1, FS_EmptySet
  <2>3. t[b].relyOn[fn] \in 0..RelyMax
    BY <1>1 DEF Belief
  <2>4. VoteRelyOnDelta * 0 = 0
    BY SocietyAssumption DEF SocietyAssumption
  <2> HIDE DEF heard
  <2> QED
    BY <2>2, <2>3, <2>4, SocietyAssumption DEF SocietyAssumption, AtMost
<1>3. ASSUME NEW b \in D PROVE w(b) = t[b].relyOn
  <2>1. t[b].relyOn \in [Functions -> 0..RelyMax]
    BY <1>1 DEF Belief
  <2> HIDE DEF heard
  <2> QED
    BY <2>1, <1>2
<1>4. u = [b \in D |-> [t[b] EXCEPT !.relyOn = w(b)]]
  BY <1>1 DEF ProcessVoteSignals
<1> HIDE DEF w
<1>5. ASSUME NEW b \in D PROVE [t[b] EXCEPT !.relyOn = w(b)] = t[b]
  <2>1. t[b] \in Belief
    BY <1>1
  <2> QED
    BY <2>1, <1>3 DEF Belief
<1>6. u = t
  BY <1>1, <1>4, <1>5
<1> QED
  BY <1>6 DEF SameHonesty, SameReliance

\* The plan phase: a failed plan adds to the reliance on the best provider.
LEMMA TickEffect ==
  ASSUME Shape, phase = "plan", NEW a \in Agents, NEW fn \in Failing(a)
  PROVE  LET u == HandleRelianceTrigger(a, ProcessVoteSignals(a, tom[a]), fn) IN
         /\ u \in Minds /\ SameHonesty(tom[a], u)
         /\ \A c \in Agents, f \in Functions :
              BeliefAbout(u, c).relyOn[f] =
                IF f = fn /\ Agents # {a} /\ c = BestProviderFor(a)
                THEN AtMost(BeliefAbout(tom[a], c).relyOn[f] + RelyOnDelta, RelyMax)
                ELSE BeliefAbout(tom[a], c).relyOn[f]
<1> DEFINE t == ProcessVoteSignals(a, tom[a])
           u == HandleRelianceTrigger(a, t, fn)
           k == Acquainted(t)
<1>1. tom[a] \in Minds /\ inbox[a] = {}
  BY DEF Shape
<1>2. t \in Minds /\ SameHonesty(tom[a], t) /\ SameReliance(tom[a], t)
  BY <1>1, NothingHeard
<1> HIDE DEF t
<1>3. CASE fn = None \/ Agents = {a}
  <2>1. u = t
    BY <1>3 DEF HandleRelianceTrigger
  <2>2. None \notin Functions
    BY SocietyAssumption DEF SocietyAssumption
  <2> HIDE DEF u
  <2>3. \A c \in Agents, f \in Functions : BeliefAbout(u, c).relyOn[f] = BeliefAbout(tom[a], c).relyOn[f]
    BY <1>2, <2>1 DEF SameReliance
  <2> QED
    BY <1>2, <1>3, <2>1, <2>2, <2>3 DEF t, u
<1>4. CASE fn # None /\ Agents # {a}
  <2>1. fn \in Functions /\ RelyOnDelta \in Nat
    BY <1>4, SocietyAssumption DEF Failing, SocietyAssumption
  <2>2. BestProviderFor(a) \in Agents
    BY <1>1, <1>4, ProviderIsAgent
  <2>3. k \in Minds /\ \A c : BeliefAbout(k, c) = BeliefAbout(t, c)
    BY <1>2, AcquaintedFacts
  <2>4. u = AdjustRelyOn(k, BestProviderFor(a), fn, RelyOnDelta)
    BY <1>4 DEF HandleRelianceTrigger
  <2> HIDE DEF k, u
  <2>5. /\ u \in Minds /\ SameHonesty(k, u)
        /\ \A c \in Agents, f \in Functions :
             BeliefAbout(u, c).relyOn[f] =
               IF c = BestProviderFor(a) /\ f = fn THEN AtMost(BeliefAbout(k, c).relyOn[f] + RelyOnDelta, RelyMax)
               ELSE BeliefAbout(k, c).relyOn[f]
    BY <2>1, <2>2, <2>3, <2>4, ReliesMore
  <2>6. SameHonesty(tom[a], u)
    BY <1>2, <2>3, <2>5 DEF SameHonesty
  <2>7. \A c \in Agents, f \in Functions :
          BeliefAbout(u, c).relyOn[f] =
            IF c = BestProviderFor(a) /\ f = fn THEN AtMost(BeliefAbout(tom[a], c).relyOn[f] + RelyOnDelta, RelyMax)
            ELSE BeliefAbout(tom[a], c).relyOn[f]
    BY <1>2, <2>3, <2>5 DEF SameReliance
  <2> QED
    BY <1>4, <2>5, <2>6, <2>7 DEF t, u
<1> QED
  BY <1>3, <1>4

\* The apply phase, of everybody's beliefs about everybody: only the agent that applies its
\* signal may think less of somebody's honesty, and then of the cheat whose offer it held;
\* only those that hear a vote rely more on somebody.
BetterOrCheat(a, x, u) ==
  \A c : BeliefAbout(u, c).honesty = BeliefAbout(tom[x], c).honesty
         \/ (x = a /\ c = pendingOffers[a] /\ c # None /\ c \in Cheats)

\* What a trade signal does to the beliefs of x.
Dealt(a, x) ==
  LET act == IF signals[a].toward = None THEN None ELSE signals[a].act
  IN CASE act = "Accept" -> Traded(a, signals[a].toward, x)
       [] act = "Reject" /\ x = a -> Rejected(a, signals[a].toward)
       [] OTHER -> tom[x]

LEMMA DealtFacts ==
  ASSUME Shape, NEW a \in Agents, NEW x \in Agents
  PROVE  Dealt(a, x) \in Minds /\ SameReliance(tom[x], Dealt(a, x)) /\ BetterOrCheat(a, x, Dealt(a, x))
<1> DEFINE b == signals[a].toward
           act == IF signals[a].toward = None THEN None ELSE signals[a].act
           o == pendingOffers[a]
<1>1. /\ tom[x] \in Minds /\ tom[a] \in Minds /\ o \in Agents \cup {None}
      /\ signals[a].toward \in Agents \cup {None} /\ signals[a] \in Signal
  BY DEF Shape, Signal
<1>2. act # None => b \in Agents
  BY <1>1
<1>3. None \notin Trades
  BY SocietyAssumption DEF SocietyAssumption
<1>4. CASE act = "Accept" /\ x = a
  <2> DEFINE t == RecordTradeSuccess(tom[a], b)
             u == Judged(a, b, t)
  <2>1. t \in Minds /\ SameHonesty(tom[a], t) /\ SameReliance(tom[a], t)
    BY <1>1, <1>2, <1>3, <1>4, SuccessFacts DEF Trades
  <2>2. Dealt(a, x) = u
    <3>1. Traded(a, b, x) = u
      BY <1>4 DEF Shape, Traded
    <3>2. Dealt(a, x) = Traded(a, b, x)
      <4> HIDE DEF u
      <4> QED
        BY <1>4 DEF Dealt
    <3> QED
      BY <3>1, <3>2
  <2> HIDE DEF t
  <2>3. CASE o = None
    <3>1. u = t
      BY <2>3 DEF Judged
    <3> QED
      BY <2>1, <2>2, <3>1, <1>4 DEF SameHonesty, BetterOrCheat
  <2>4. CASE o # None
    <3>1. u = RecordFraud(t, o, o \in Cheats)
      BY <2>4 DEF Judged
    <3> DEFINE lied == o \in Cheats
    <3>2. o \in Agents /\ lied \in BOOLEAN
      BY <1>1, <2>4
    <3> HIDE DEF u, o
    <3>3. u = RecordFraud(t, o, lied)
      BY <3>1
    <3> HIDE DEF lied
    <3>6. /\ u \in Minds /\ SameReliance(t, u)
          /\ \A c : BeliefAbout(u, c).honesty = BeliefAbout(t, c).honesty \/ (c = o /\ lied)
      BY <2>1, <3>2, <3>3, FraudFacts
    <3>4. SameReliance(tom[x], u)
      BY <2>1, <3>6, <1>4 DEF SameReliance
    <3>5. BetterOrCheat(a, x, u)
      BY <2>1, <2>4, <3>6, <1>4 DEF SameHonesty, BetterOrCheat, o, lied
    <3> QED
      BY <2>2, <3>6, <3>4, <3>5
  <2> QED
    BY <2>3, <2>4
<1>5. CASE act = "Accept" /\ x # a /\ x = b
  <2>1. Dealt(a, x) = RecordTradeSuccess(tom[b], a)
    BY <1>5 DEF Dealt, Traded
  <2> QED
    BY <2>1, <1>1, <1>5, SuccessFacts DEF SameHonesty, BetterOrCheat
<1>6. CASE act = "Reject" /\ x = a
  <2> DEFINE whom == IF o = None THEN b ELSE o
  <2>1. whom \in Agents
    BY <1>1, <1>2, <1>3, <1>6 DEF Trades
  <2>2. Dealt(a, x) = RecordTradeRejection(tom[a], whom)
    BY <1>6 DEF Dealt, Rejected
  <2> HIDE DEF whom
  <2> QED
    BY <2>1, <2>2, <1>1, <1>6, RejectionFacts DEF SameHonesty, BetterOrCheat
<1>7. CASE ~(act = "Accept" /\ (x = a \/ x = b)) /\ ~(act = "Reject" /\ x = a)
  <2>1. Dealt(a, x) = tom[x]
    BY <1>7 DEF Dealt, Traded
  <2> QED
    BY <2>1, <1>1 DEF SameReliance, BetterOrCheat
<1> QED
  BY <1>4, <1>5, <1>6, <1>7

LEMMA ApplyEffect ==
  ASSUME Shape, NEW a \in Agents, ApplySignals(a), NEW x \in Agents
  PROVE  /\ tom'[x] \in Minds /\ BetterOrCheat(a, x, tom'[x])
         /\ \A c \in Agents, f \in Functions :
              BeliefAbout(tom'[x], c).relyOn[f] =
                IF x # a /\ f = SafetyFunction /\ c = signals[a].vote
                THEN AtMost(BeliefAbout(tom[x], c).relyOn[f] + VoteRelyOnDelta, RelyMax)
                ELSE BeliefAbout(tom[x], c).relyOn[f]
<1> DEFINE t == Dealt(a, x)
           vote == signals[a].vote
           u == tom'[x]
<1>1. t \in Minds /\ SameReliance(tom[x], t) /\ BetterOrCheat(a, x, t)
  BY DealtFacts
<1>2. u = HeardOf(a, vote, t, x)
  BY DEF ApplySignals, Dealt
<1>3. vote \in Agents \cup {None} /\ None \notin Agents
  BY SocietyAssumption DEF Shape, Signal, SocietyAssumption
<1> HIDE DEF t, u
<1>4. CASE x = a \/ vote = None
  <2>1. u = t
    BY <1>2, <1>4 DEF HeardOf
  <2> QED
    BY <2>1, <1>1, <1>3, <1>4 DEF SameReliance, u
<1>5. CASE x # a /\ vote # None
  <2>1. u = AdjustRelyOn(t, vote, SafetyFunction, VoteRelyOnDelta)
    BY <1>2, <1>5 DEF HeardOf
  <2>2. vote \in Agents /\ SafetyFunction \in Functions /\ VoteRelyOnDelta \in Nat
    BY <1>3, <1>5, SocietyAssumption DEF SocietyAssumption
  <2> HIDE DEF vote
  <2>3. /\ u \in Minds /\ SameHonesty(t, u)
        /\ \A c \in Agents, f \in Functions :
             BeliefAbout(u, c).relyOn[f] =
               IF c = vote /\ f = SafetyFunction THEN AtMost(BeliefAbout(t, c).relyOn[f] + VoteRelyOnDelta, RelyMax)
               ELSE BeliefAbout(t, c).relyOn[f]
    BY <1>1, <2>1, <2>2, ReliesMore
  <2>4. BetterOrCheat(a, x, u)
    BY <1>1, <2>3 DEF SameHonesty, BetterOrCheat
  <2>5. \A c \in Agents, f \in Functions :
          BeliefAbout(u, c).relyOn[f] =
            IF f = SafetyFunction /\ c = vote THEN AtMost(BeliefAbout(tom[x], c).relyOn[f] + VoteRelyOnDelta, RelyMax)
            ELSE BeliefAbout(tom[x], c).relyOn[f]
    BY <1>1, <2>3 DEF SameReliance
  <2> QED
    BY <1>5, <2>3, <2>4, <2>5 DEF u, vote
<1> QED
  BY <1>4, <1>5

-----------------------------------------------------------------------------
(* The shape is kept.                                                        *)

LEMMA InitShape == Init => Shape
<1> SUFFICES ASSUME Init PROVE Shape
  OBVIOUS
<1>1. tom \in [Agents -> Minds]
  <2>1. ASSUME NEW a \in Agents PROVE [b \in {a} |-> SelfBelief] \in Minds
    <3>1. {a} \in SUBSET Agents /\ [b \in {a} |-> SelfBelief] \in [{a} -> Belief]
      BY SeedIsBelief
    <3> QED
      BY <3>1 DEF Minds
  <2> QED
    BY <2>1 DEF Init
<1>2. signals \in [Agents -> Signal] /\ \A a \in Agents : signals[a].toward # a
  BY SocietyAssumption DEF Init, Silence, Signal, SocietyAssumption
<1>3. owed \in [Agents -> [Agents -> [Functions -> 0..RelyMax]]]
  BY SocietyAssumption DEF Init, NoReliance, SocietyAssumption
<1>4. deal \in [Agents -> [act : Trades \cup {None}, left : Nat]]
  BY DEF Init, Idle
<1> QED
  BY <1>1, <1>2, <1>3, <1>4 DEF Init, Shape

LEMMA DealsType ==
  ASSUME Shape, NEW a \in Agents, NEW d \in Deals(a)
  PROVE  /\ d \in [act : Trades \cup {None}, left : Nat]
         /\ (IF d.left <= 1 THEN Idle ELSE [d EXCEPT !.left = @ - 1]) \in [act : Trades \cup {None}, left : Nat]
<1>1. Idle \in [act : Trades \cup {None}, left : Nat]
  BY DEF Idle
<1>2. ASSUME NEW x \in Visible[a]
      PROVE  [act |-> x, left |-> Lasts[x]] \in [act : Trades \cup {None}, left : Nat]
  BY SocietyAssumption DEF SocietyAssumption
<1>3. d \in [act : Trades \cup {None}, left : Nat]
  BY <1>1, <1>2 DEF Deals, Shape
<1>4. ASSUME ~(d.left <= 1)
      PROVE  [d EXCEPT !.left = @ - 1] \in [act : Trades \cup {None}, left : Nat]
  <2> DEFINE n == d.left - 1
  <2>1. n \in Nat
    BY <1>3, <1>4
  <2> HIDE DEF n
  <2>2. [d EXCEPT !.left = n] \in [act : Trades \cup {None}, left : Nat]
    BY <1>3, <2>1
  <2> QED
    BY <2>2 DEF n
<1> QED
  BY <1>1, <1>3, <1>4

\* What a tick of a adds to what x should rely on b for f.
Due(a, fn, vote, x, b, f) ==
  AtMost(owed[x][b][f]
    + (IF x = a /\ f = fn /\ Agents # {a} /\ b = BestProviderFor(a) THEN RelyOnDelta ELSE 0)
    + (IF x # a /\ f = SafetyFunction /\ b = vote THEN VoteRelyOnDelta ELSE 0), RelyMax)

\* A tick of a, with the plan it failed and the vote it casts made explicit.
Ticks(a, fn, vote) ==
  /\ tom' = [tom EXCEPT ![a] = HandleRelianceTrigger(a, ProcessVoteSignals(a, tom[a]), fn)]
  /\ signals'[a].vote = vote
  /\ \A x \in Agents \ {a} : signals'[x] = signals[x]
  /\ owed' = [x \in Agents |-> [b \in Agents |-> [f \in Functions |-> Due(a, fn, vote, x, b, f)]]]
  /\ phase = "plan" /\ a \in todo /\ todo' = todo \ {a}
  /\ UNCHANGED <<pendingOffers, inbox, emergedRoles, phase, offered>>

LEMMA TickShape ==
  ASSUME Shape, NEW a \in Agents, AgentTick(a)
  PROVE  Shape' /\ \E fn \in Failing(a), vote \in Agents \cup {None} : Ticks(a, fn, vote)
<1> DEFINE t(fn) == HandleRelianceTrigger(a, ProcessVoteSignals(a, tom[a]), fn)
           v(fn, urgent) == IF urgent THEN VoteOf(a, t(fn)) ELSE None
           sig(d, toward, vote) == [act |-> d.act, toward |-> toward, vote |-> vote]
           next(d) == IF d.left <= 1 THEN Idle ELSE [d EXCEPT !.left = @ - 1]
<1>a. PICK fn \in Failing(a), d \in Deals(a), toward \in (Agents \ {a}) \cup {None}, urgent \in BOOLEAN :
       LET u == HandleRelianceTrigger(a, ProcessVoteSignals(a, tom[a]), fn)
           vote == IF urgent THEN VoteOf(a, u) ELSE None
       IN /\ d.act = None => toward = None
          /\ tom' = [tom EXCEPT ![a] = u]
          /\ deal' = [deal EXCEPT ![a] = IF d.left <= 1 THEN Idle ELSE [d EXCEPT !.left = @ - 1]]
          /\ signals' = [signals EXCEPT ![a] = [act |-> d.act, toward |-> toward, vote |-> vote]]
          /\ owed' = [x \in Agents |-> [b \in Agents |-> [f \in Functions |-> AtMost(owed[x][b][f]
               + (IF x = a /\ f = fn /\ Agents # {a} /\ b = BestProviderFor(a) THEN RelyOnDelta ELSE 0)
               + (IF x # a /\ f = SafetyFunction /\ b = vote THEN VoteRelyOnDelta ELSE 0), RelyMax)]]]
  <2> HIDE DEF t, v, sig, next
  <2> QED
    BY DEF AgentTick
<1>1. /\ tom' = [tom EXCEPT ![a] = t(fn)]
      /\ deal' = [deal EXCEPT ![a] = next(d)]
      /\ signals' = [signals EXCEPT ![a] = sig(d, toward, v(fn, urgent))]
      /\ owed' = [x \in Agents |-> [b \in Agents |-> [f \in Functions |-> Due(a, fn, v(fn, urgent), x, b, f)]]]
  BY <1>a DEF Due
<1>2. phase = "plan" /\ a \in todo /\ todo' = todo \ {a} /\ UNCHANGED <<pendingOffers, inbox, emergedRoles, phase, offered>>
  <2>1. phase = "plan" /\ todo # {} /\ a = First(todo) /\ todo' = todo \ {a}
        /\ UNCHANGED <<pendingOffers, inbox, emergedRoles, phase, offered>>
    BY DEF AgentTick
  <2> QED
    BY <2>1, FirstFacts DEF Shape
<1>3. t(fn) \in Minds
  BY <1>2, TickEffect
<1> HIDE DEF t
<1>4. v(fn, urgent) \in Agents \cup {None}
  BY <1>3, VoteFacts
<1>5. sig(d, toward, v(fn, urgent)) \in Signal /\ sig(d, toward, v(fn, urgent)).toward # a
      /\ sig(d, toward, v(fn, urgent)).vote = v(fn, urgent)
  <2> HIDE DEF v
  <2> QED
    BY <1>4, DealsType, SocietyAssumption DEF Signal, SocietyAssumption
<1>6. next(d) \in [act : Trades \cup {None}, left : Nat]
  BY DealsType
<1>7. \A x, b \in Agents, f \in Functions : Due(a, fn, v(fn, urgent), x, b, f) \in 0..RelyMax
  <2> TAKE x \in Agents, b \in Agents, f \in Functions
  <2> DEFINE n == IF x = a /\ f = fn /\ Agents # {a} /\ b = BestProviderFor(a) THEN RelyOnDelta ELSE 0
             m == IF x # a /\ f = SafetyFunction /\ b = v(fn, urgent) THEN VoteRelyOnDelta ELSE 0
  <2>1. n \in Nat /\ m \in Nat /\ RelyMax \in Nat
    BY SocietyAssumption DEF SocietyAssumption
  <2>2. owed[x][b][f] \in 0..RelyMax
    BY DEF Shape
  <2>3. Due(a, fn, v(fn, urgent), x, b, f) = AtMost(owed[x][b][f] + n + m, RelyMax)
    BY DEF Due
  <2> HIDE DEF n, m
  <2> QED
    BY <2>1, <2>2, <2>3 DEF AtMost
<1> HIDE DEF sig, next, v
<1>8. Shape'
  <2>1. tom' \in [Agents -> Minds]
    BY <1>1, <1>3 DEF Shape
  <2>2. deal' \in [Agents -> [act : Trades \cup {None}, left : Nat]]
    BY <1>1, <1>6 DEF Shape
  <2>3. signals' \in [Agents -> Signal] /\ \A x \in Agents : signals'[x].toward # x
    BY <1>1, <1>5 DEF Shape
  <2>4. owed' \in [Agents -> [Agents -> [Functions -> 0..RelyMax]]]
    BY <1>1, <1>7
  <2> QED
    BY <2>1, <2>2, <2>3, <2>4, <1>2 DEF Shape
<1>9. Ticks(a, fn, v(fn, urgent))
  <2>1. signals'[a] = sig(d, toward, v(fn, urgent)) /\ \A x \in Agents \ {a} : signals'[x] = signals[x]
    BY <1>1 DEF Shape
  <2> QED
    BY <1>1, <1>2, <1>5, <2>1 DEF Ticks, t
<1> QED
  BY <1>4, <1>8, <1>9

LEMMA ApplyShape ==
  ASSUME Shape, NEW a \in Agents, ApplySignals(a)
  PROVE  Shape' /\ phase = "apply" /\ a \in todo
<1> DEFINE s == signals[a]
           act == IF s.toward = None THEN None ELSE s.act
<1>1. phase = "apply" /\ a \in todo /\ todo' = todo \ {a} /\ UNCHANGED <<deal, emergedRoles, phase, signals, owed>>
  <2>1. phase = "apply" /\ todo # {} /\ a = First(todo) /\ todo' = todo \ {a}
        /\ UNCHANGED <<deal, emergedRoles, phase, signals, owed>>
    BY DEF ApplySignals
  <2> QED
    BY <2>1, FirstFacts DEF Shape
<1>2. tom' \in [Agents -> Minds]
  <2>1. \A x \in Agents : tom'[x] \in Minds
    BY ApplyEffect
  <2>2. \E g : tom' = [x \in Agents |-> g[x]]
    <3>1. tom' = [x \in Agents |-> tom'[x]]
      BY DEF ApplySignals
    <3> QED
      BY <3>1
  <2> QED
    BY <2>1, <2>2
<1>3. s \in Signal /\ SafetyFunction \in Functions
  BY SocietyAssumption DEF Shape, SocietyAssumption
<1>4. inbox' \in [Agents -> SUBSET (Agents \X Functions \X Agents)]
  <2>1. inbox' = [x \in Agents |-> IF x = a \/ s.vote = None THEN inbox[x]
                                   ELSE inbox[x] \cup {<<a, SafetyFunction, s.vote>>}]
    BY DEF ApplySignals
  <2>2. s.vote # None => <<a, SafetyFunction, s.vote>> \in Agents \X Functions \X Agents
    BY <1>3 DEF Signal
  <2> HIDE DEF s
  <2> QED
    BY <2>1, <2>2 DEF Shape
<1>5. pendingOffers' \in [Agents -> Agents \cup {None}] /\ offered' \in SUBSET (Agents \X Agents)
  <2>1. CASE act = "Offer"
    <3>1. Offer(a, s.toward)
      BY <2>1 DEF ApplySignals
    <3>2. None \notin Trades
      BY SocietyAssumption DEF SocietyAssumption
    <3>3. s.toward \in Agents
      BY <1>3, <2>1, <3>2 DEF Signal, Trades
    <3> HIDE DEF s
    <3> QED
      BY <3>1, <3>3 DEF Offer, Shape
  <2>2. CASE act \in {"Accept", "Reject"}
    <3>1. pendingOffers' = [pendingOffers EXCEPT ![a] = None] /\ UNCHANGED offered
      BY <2>2 DEF ApplySignals
    <3> QED
      BY <3>1 DEF Shape
  <2>3. CASE act \notin {"Offer", "Accept", "Reject"}
    <3>1. UNCHANGED <<pendingOffers, offered>>
      BY <2>3 DEF ApplySignals
    <3> QED
      BY <3>1 DEF Shape
  <2> QED
    BY <2>1, <2>2, <2>3
<1> QED
  BY <1>1, <1>2, <1>4, <1>5 DEF Shape

LEMMA RestShape == ASSUME Shape, StartApply \/ EndTick \/ UNCHANGED vars PROVE Shape'
<1>1. CASE StartApply
  BY <1>1 DEF StartApply, Shape
<1>2. CASE EndTick
  <2>1. signals' \in [Agents -> Signal] /\ \A a \in Agents : signals'[a].toward # a
    BY <1>2, SocietyAssumption DEF EndTick, Silence, Signal, SocietyAssumption
  <2> QED
    BY <1>2, <2>1 DEF EndTick, ReadPhase, Shape
<1>3. CASE UNCHANGED vars
  BY <1>3 DEF vars, Shape
<1> QED
  BY <1>1, <1>2, <1>3

-----------------------------------------------------------------------------
(* Honesty.  An offer that is still pending was really made, so blaming the one   *)
(* who made it is fair, whomever the accepter turned to.                         *)

Known == \A a \in Agents : pendingOffers[a] # None => <<pendingOffers[a], a>> \in offered
Sincere ==
  \A a \in Agents : \A b : BeliefAbout(tom[a], b).honesty < HonestySeed => b \in Cheats /\ <<b, a>> \in offered
Honest == Known /\ Sincere

LEMMA InitHonest == Init => Honest
<1> SUFFICES ASSUME Init PROVE Honest
  OBVIOUS
<1>1. HonestySeed \in Nat
  BY SocietyAssumption DEF SocietyAssumption
<1>2. \A a \in Agents : \A b : BeliefAbout(tom[a], b).honesty = HonestySeed
  BY SeedIsBelief DEF Init, BeliefAbout, Seed
<1>3. Sincere
  BY <1>1, <1>2 DEF Sincere
<1> QED
  BY <1>3 DEF Init, Honest, Known

LEMMA TickHonest ==
  ASSUME Shape, Honest, NEW a \in Agents, AgentTick(a)
  PROVE  Honest'
<1>1. PICK fn \in Failing(a), vote \in Agents \cup {None} : Ticks(a, fn, vote)
  BY TickShape
<1> DEFINE u == HandleRelianceTrigger(a, ProcessVoteSignals(a, tom[a]), fn)
<1>2. SameHonesty(tom[a], u)
  BY <1>1, TickEffect DEF Ticks
<1>3. tom' = [tom EXCEPT ![a] = u] /\ UNCHANGED <<pendingOffers, offered>>
  BY <1>1 DEF Ticks
<1> HIDE DEF u
<1>4. \A x \in Agents : \A b : BeliefAbout(tom'[x], b).honesty = BeliefAbout(tom[x], b).honesty
  BY <1>2, <1>3 DEF SameHonesty, Shape
<1> QED
  BY <1>3, <1>4 DEF Honest, Known, Sincere

LEMMA ApplyHonest ==
  ASSUME Shape, Honest, NEW a \in Agents, ApplySignals(a)
  PROVE  Honest'
<1> DEFINE s == signals[a]
           act == IF s.toward = None THEN None ELSE s.act
<1>1. offered \subseteq offered' /\ Known'
  <2>1. CASE act = "Offer"
    <3>1. Offer(a, s.toward)
      BY <2>1 DEF ApplySignals
    <3> HIDE DEF s
    <3> QED
      BY <3>1 DEF Offer, Shape, Honest, Known
  <2>2. CASE act \in {"Accept", "Reject"}
    <3>1. pendingOffers' = [pendingOffers EXCEPT ![a] = None] /\ UNCHANGED offered
      BY <2>2 DEF ApplySignals
    <3> QED
      BY <3>1 DEF Shape, Honest, Known
  <2>3. CASE act \notin {"Offer", "Accept", "Reject"}
    <3>1. UNCHANGED <<pendingOffers, offered>>
      BY <2>3 DEF ApplySignals
    <3> QED
      BY <3>1 DEF Honest, Known
  <2> QED
    BY <2>1, <2>2, <2>3
<1>2. ASSUME NEW x \in Agents, NEW b, BeliefAbout(tom'[x], b).honesty < HonestySeed
      PROVE  b \in Cheats /\ <<b, x>> \in offered'
  <2>1. BetterOrCheat(a, x, tom'[x])
    BY ApplyEffect
  <2>2. CASE BeliefAbout(tom'[x], b).honesty = BeliefAbout(tom[x], b).honesty
    BY <1>1, <1>2, <2>2 DEF Honest, Sincere
  <2>3. CASE x = a /\ b = pendingOffers[a] /\ b # None /\ b \in Cheats
    BY <1>1, <2>3 DEF Honest, Known
  <2> QED
    BY <2>1, <2>2, <2>3 DEF BetterOrCheat
<1> QED
  BY <1>1, <1>2 DEF Honest, Sincere

LEMMA RestHonest == ASSUME Honest, StartApply \/ EndTick \/ UNCHANGED vars PROVE Honest'
BY DEF StartApply, EndTick, vars, Honest, Known, Sincere

-----------------------------------------------------------------------------
(* The ledger of votes.  What is owed is what is believed and what is still to    *)
(* be heard, so a vote cast in the plan phase is counted when it is applied and   *)
(* never again; the sums stop at RelyMax wherever they are cut.                  *)

\* The voters whose signals have not been applied yet.
Unheard == IF phase = "plan" THEN Agents \ todo ELSE todo
Pending(x, b, f) == {c \in Unheard : c # x /\ f = SafetyFunction /\ signals[c].vote = b}

Balanced(x, b, f) ==
  owed[x][b][f] = AtMost(BeliefAbout(tom[x], b).relyOn[f] + VoteRelyOnDelta * Cardinality(Pending(x, b, f)), RelyMax)
Ledger == \A x, b \in Agents, f \in Functions : Balanced(x, b, f)

LEMMA Sums ==
  \A r, p, d, e, m \in Nat : AtMost(AtMost(r + p, m) + d + e, m) = AtMost(AtMost(r + d, m) + (p + e), m)
BY DEF AtMost

LEMMA PendingFinite ==
  ASSUME Shape, NEW x, NEW b, NEW f
  PROVE  /\ IsFiniteSet(Pending(x, b, f)) /\ Cardinality(Pending(x, b, f)) \in Nat
         /\ Pending(x, b, f) \in SUBSET Agents
<1>1. Pending(x, b, f) \in SUBSET Agents
  BY DEF Pending, Unheard, Shape
<1> QED
  BY <1>1, AgentsAreNumbers, FS_CardinalityType

LEMMA Reliance ==
  ASSUME Shape, NEW x \in Agents, NEW b, NEW f \in Functions
  PROVE  BeliefAbout(tom[x], b).relyOn[f] \in 0..RelyMax /\ RelyMax \in Nat /\ VoteRelyOnDelta \in Nat
BY BeliefType, SocietyAssumption DEF Shape, Belief, SocietyAssumption

LEMMA InitLedger == ASSUME Init PROVE Ledger
<1> SUFFICES ASSUME NEW x \in Agents, NEW b \in Agents, NEW f \in Functions PROVE Balanced(x, b, f)
  BY DEF Ledger
<1>1. Pending(x, b, f) = {}
  BY DEF Init, Pending, Unheard
<1>2. Cardinality(Pending(x, b, f)) = 0 /\ VoteRelyOnDelta * 0 = 0 /\ RelyMax \in Nat
  BY <1>1, FS_EmptySet, SocietyAssumption DEF SocietyAssumption
<1>3. BeliefAbout(tom[x], b).relyOn = NoReliance
  BY SeedIsBelief DEF Init, BeliefAbout, Seed
<1>4. owed[x][b][f] = 0 /\ BeliefAbout(tom[x], b).relyOn[f] = 0
  BY <1>3 DEF Init, NoReliance
<1> QED
  BY <1>2, <1>4 DEF Balanced, AtMost

LEMMA TickLedger ==
  ASSUME Shape, Ledger, NEW a \in Agents, AgentTick(a)
  PROVE  Ledger'
<1>1. PICK fn \in Failing(a), vote \in Agents \cup {None} : Ticks(a, fn, vote)
  BY TickShape
<1> DEFINE u == HandleRelianceTrigger(a, ProcessVoteSignals(a, tom[a]), fn)
<1>2. \A c \in Agents, f \in Functions :
        BeliefAbout(u, c).relyOn[f] =
          IF f = fn /\ Agents # {a} /\ c = BestProviderFor(a)
          THEN AtMost(BeliefAbout(tom[a], c).relyOn[f] + RelyOnDelta, RelyMax)
          ELSE BeliefAbout(tom[a], c).relyOn[f]
  BY <1>1, TickEffect DEF Ticks
<1>3. /\ tom' = [tom EXCEPT ![a] = u] /\ phase = "plan" /\ phase' = "plan" /\ a \in todo /\ todo' = todo \ {a}
      /\ signals'[a].vote = vote /\ \A x \in Agents \ {a} : signals'[x] = signals[x]
  BY <1>1 DEF Ticks
<1> HIDE DEF u
<1> SUFFICES ASSUME NEW x \in Agents, NEW b \in Agents, NEW f \in Functions PROVE Balanced(x, b, f)'
  BY DEF Ledger
<1> DEFINE P == Pending(x, b, f)
           n == Cardinality(P)
           r == BeliefAbout(tom[x], b).relyOn[f]
           d == IF x = a /\ f = fn /\ Agents # {a} /\ b = BestProviderFor(a) THEN RelyOnDelta ELSE 0
           e == IF x # a /\ f = SafetyFunction /\ b = vote THEN VoteRelyOnDelta ELSE 0
           p == VoteRelyOnDelta * n
           q == VoteRelyOnDelta * Cardinality(P')
<1>4. owed'[x][b][f] = AtMost(owed[x][b][f] + d + e, RelyMax)
  BY <1>1 DEF Ticks, Due
<1>5. owed[x][b][f] = AtMost(r + p, RelyMax)
  BY DEF Ledger, Balanced
<1>6. BeliefAbout(tom'[x], b).relyOn[f] = AtMost(r + d, RelyMax)
  <2>1. r \in 0..RelyMax /\ RelyMax \in Nat
    BY Reliance
  <2>2. d = 0 => AtMost(r + d, RelyMax) = r
    BY <2>1 DEF AtMost
  <2>3. RelyOnDelta # 0
    BY SocietyAssumption DEF SocietyAssumption
  <2>4. CASE x = a
    BY <1>2, <1>3, <2>2, <2>4 DEF Shape
  <2>5. CASE x # a
    <3>1. tom'[x] = tom[x] /\ d = 0
      BY <1>3, <2>5 DEF Shape
    <3> QED
      BY <2>2, <3>1
  <2> QED
    BY <2>4, <2>5
<1>7. q = p + e
  <2>1. n \in Nat /\ IsFiniteSet(P) /\ P \in SUBSET Agents /\ VoteRelyOnDelta \in Nat
    BY PendingFinite, Reliance
  <2>2. CASE x # a /\ f = SafetyFunction /\ b = vote
    <3>1. P' = P \cup {a} /\ a \notin P
      BY <1>3, <2>2 DEF Pending, Unheard, Shape
    <3>2. Cardinality(P') = n + 1
      BY <2>1, <3>1, FS_AddElement
    <3>3. VoteRelyOnDelta * (n + 1) = VoteRelyOnDelta * n + VoteRelyOnDelta
      BY <2>1
    <3> QED
      BY <2>2, <3>2, <3>3
  <2>3. CASE ~(x # a /\ f = SafetyFunction /\ b = vote)
    <3>1. P' = P
      BY <1>3, <2>3 DEF Pending, Unheard, Shape
    <3>2. p \in Nat
      BY <2>1
    <3> HIDE DEF P
    <3> QED
      BY <2>3, <3>1, <3>2
  <2> QED
    BY <2>2, <2>3
<1>8. r \in Nat /\ p \in Nat /\ d \in Nat /\ e \in Nat /\ RelyMax \in Nat
  <2>1. n \in Nat /\ r \in Nat /\ RelyMax \in Nat
    BY PendingFinite, Reliance
  <2>2. VoteRelyOnDelta \in Nat /\ RelyOnDelta \in Nat
    BY SocietyAssumption DEF SocietyAssumption
  <2> HIDE DEF n, r
  <2> QED
    BY <2>1, <2>2
<1>9. Balanced(x, b, f)' <=> owed'[x][b][f] = AtMost(BeliefAbout(tom'[x], b).relyOn[f] + q, RelyMax)
  BY DEF Balanced
<1> HIDE DEF r, d, e, p, q
<1> QED
  BY <1>4, <1>5, <1>6, <1>7, <1>8, <1>9, Sums

LEMMA ApplyLedger ==
  ASSUME Shape, Ledger, NEW a \in Agents, ApplySignals(a)
  PROVE  Ledger'
<1>1. phase = "apply" /\ phase' = "apply" /\ a \in todo /\ todo' = todo \ {a} /\ signals' = signals /\ owed' = owed
  <2>1. phase' = phase /\ todo' = todo \ {a} /\ signals' = signals /\ owed' = owed
    BY DEF ApplySignals
  <2> QED
    BY <2>1, ApplyShape
<1> SUFFICES ASSUME NEW x \in Agents, NEW b \in Agents, NEW f \in Functions PROVE Balanced(x, b, f)'
  BY DEF Ledger
<1> DEFINE P == Pending(x, b, f)
           m == Cardinality(P')
           r == BeliefAbout(tom[x], b).relyOn[f]
           p == VoteRelyOnDelta * m
           q == VoteRelyOnDelta * Cardinality(P)
           heard == x # a /\ f = SafetyFunction /\ b = signals[a].vote
           d == IF heard THEN VoteRelyOnDelta ELSE 0
<1>2. owed[x][b][f] = AtMost(r + q, RelyMax)
  BY DEF Ledger, Balanced
<1>3. r \in 0..RelyMax /\ RelyMax \in Nat /\ VoteRelyOnDelta \in Nat
  BY Reliance
<1>4. BeliefAbout(tom'[x], b).relyOn[f] = AtMost(r + d, RelyMax)
  <2>1. BeliefAbout(tom'[x], b).relyOn[f] = IF heard THEN AtMost(r + VoteRelyOnDelta, RelyMax) ELSE r
    BY ApplyEffect
  <2> HIDE DEF r, heard
  <2> QED
    BY <1>3, <2>1 DEF AtMost
<1>5. IsFiniteSet(P') /\ m \in Nat
  <2>1. P' \subseteq P
    BY <1>1 DEF Pending, Unheard
  <2> QED
    BY <2>1, PendingFinite, FS_Subset, FS_CardinalityType
<1>6. q = p + d
  <2>1. CASE heard
    <3>1. P = P' \cup {a} /\ a \notin P'
      BY <1>1, <2>1 DEF Pending, Unheard
    <3>2. Cardinality(P) = m + 1
      BY <1>5, <3>1, FS_AddElement
    <3>3. VoteRelyOnDelta * (m + 1) = VoteRelyOnDelta * m + VoteRelyOnDelta
      BY <1>3, <1>5
    <3> QED
      BY <2>1, <3>2, <3>3
  <2>2. CASE ~heard
    <3>1. P' = P
      BY <1>1, <2>2 DEF Pending, Unheard
    <3>2. p \in Nat
      BY <1>3, <1>5
    <3> HIDE DEF P
    <3> QED
      BY <2>2, <3>1, <3>2
  <2> QED
    BY <2>1, <2>2
<1>7. r \in Nat /\ p \in Nat /\ d \in Nat
  BY <1>3, <1>5
<1>8. Balanced(x, b, f)' <=> owed[x][b][f] = AtMost(BeliefAbout(tom'[x], b).relyOn[f] + p, RelyMax)
  BY <1>1 DEF Balanced
<1> HIDE DEF r, d, p, q
<1>9. AtMost(r + (p + d), RelyMax) = AtMost(AtMost(r + d, RelyMax) + p, RelyMax)
  BY <1>3, <1>7 DEF AtMost
<1> QED
  BY <1>2, <1>4, <1>6, <1>8, <1>9

LEMMA RestLedger == ASSUME Shape, Ledger, StartApply \/ EndTick \/ UNCHANGED vars PROVE Ledger'
<1>1. tom' = tom /\ owed' = owed
  BY DEF StartApply, EndTick, vars
<1>2. ASSUME NEW x \in Agents, NEW b \in Agents, NEW f \in Functions PROVE Pending(x, b, f)' = Pending(x, b, f)
  <2>1. CASE StartApply
    BY <2>1 DEF StartApply, Pending, Unheard
  <2>2. CASE EndTick
    BY <2>2 DEF EndTick, Pending, Unheard
  <2>3. CASE UNCHANGED vars
    BY <2>3 DEF vars, Pending, Unheard
  <2> QED
    BY <2>1, <2>2, <2>3
<1> QED
  BY <1>1, <1>2 DEF Ledger, Balanced

\* When the apply phase has visited everybody nothing is left to be heard.
LEMMA LedgerCloses == Shape /\ Ledger => VotesCountOnce
<1> SUFFICES ASSUME Shape, Ledger, phase = "apply", todo = {}, NEW x \in Agents, NEW b \in Agents
             PROVE  BeliefAbout(tom[x], b).relyOn = owed[x][b]
  BY DEF VotesCountOnce
<1>1. ASSUME NEW f \in Functions
      PROVE  owed[x][b][f] = BeliefAbout(tom[x], b).relyOn[f]
  <2>1. Pending(x, b, f) = {}
    BY DEF Pending, Unheard
  <2>2. Cardinality(Pending(x, b, f)) = 0
    BY <2>1, FS_EmptySet
  <2> DEFINE r == BeliefAbout(tom[x], b).relyOn[f]
  <2>3. r \in 0..RelyMax /\ RelyMax \in Nat /\ VoteRelyOnDelta \in Nat
    BY Reliance
  <2>4. VoteRelyOnDelta * 0 = 0
    BY <2>3
  <2>5. owed[x][b][f] = AtMost(r + 0, RelyMax)
    BY <2>2, <2>4 DEF Ledger, Balanced
  <2> HIDE DEF r
  <2>6. owed[x][b][f] = r
    BY <2>3, <2>5 DEF AtMost
  <2> QED
    BY <2>6 DEF r
<1>2. BeliefAbout(tom[x], b).relyOn \in [Functions -> 0..RelyMax]
  BY BeliefType DEF Shape, Belief
<1>3. owed[x][b] \in [Functions -> 0..RelyMax]
  BY DEF Shape
<1> QED
  BY <1>1, <1>2, <1>3

-----------------------------------------------------------------------------
(* Roles.  The scan skips a function nobody is relied on for, which is safe only   *)
(* because reliance never falls: a function with a holder is never skipped.       *)

HolderScanned == \A fn \in Functions : emergedRoles[fn] # None => fn \in Scanned
Roles == emergedRoles \in [Functions -> Agents \cup {None}] /\ HolderScanned /\ RolesReflectReliance

Wins(fn, h) ==
  /\ Votes(fn, h) > 0 /\ Votes(fn, h) * RoleShare[2] >= RoleShare[1] * Cardinality(Agents)
  /\ \A g \in Agents \ {h} : Votes(fn, g) < Votes(fn, h) \/ (Votes(fn, g) = Votes(fn, h) /\ h < g)

LEMMA VotesType == ASSUME NEW fn, NEW h PROVE Votes(fn, h) \in Nat
<1>1. Supporters(fn, h) \in SUBSET Agents
  BY DEF Supporters
<1> QED
  BY <1>1, AgentsAreNumbers, FS_CardinalityType DEF Votes

\* There is one agent with the plurality, and only that one can win.
LEMMA PluralityFacts ==
  ASSUME NEW fn, Agents # {}
  PROVE  /\ Plurality(fn) \in Agents
         /\ \A h \in Agents : Wins(fn, h) <=> h = Plurality(fn) /\ Converged(fn)
<1> DEFINE lv == [h \in Agents |-> Votes(fn, h)]
           S == {h \in Agents : \A g \in Agents : Votes(fn, g) <= Votes(fn, h)}
           p == Plurality(fn)
<1>1. \A h : Votes(fn, h) \in Nat
  BY VotesType
<1>2. lv \in [Agents -> Nat] /\ \A h \in Agents : lv[h] = Votes(fn, h)
  BY <1>1
<1> HIDE DEF lv
<1>3. PICK b \in Agents : \A c \in Agents \ {b} : lv[b] > lv[c] \/ (lv[b] = lv[c] /\ b < c)
  BY <1>2, AgentsAreNumbers, BestExists
<1>4. b \in S /\ S \in SUBSET Agents
  BY <1>1, <1>2, <1>3
<1>5. p \in S /\ \A h \in S : p <= h
  BY <1>4, FirstFacts DEF Plurality
<1>6. p = b
  <2>1. p \in Agents /\ p <= b /\ Votes(fn, b) <= Votes(fn, p)
    BY <1>4, <1>5
  <2>2. p # b => Votes(fn, b) > Votes(fn, p) \/ (Votes(fn, b) = Votes(fn, p) /\ b < p)
    BY <1>2, <1>3, <2>1
  <2>3. p \in Nat /\ b \in Nat
    BY <2>1, AgentsAreNumbers
  <2> HIDE DEF p
  <2> QED
    BY <1>1, <2>1, <2>2, <2>3
<1>7. ASSUME NEW h \in Agents, Wins(fn, h) PROVE h = p
  BY <1>1, <1>2, <1>3, <1>6, <1>7, AgentsAreNumbers DEF Wins
<1>8. Wins(fn, p) <=> Converged(fn)
  <2>1. \A g \in Agents \ {p} : Votes(fn, g) < Votes(fn, p) \/ (Votes(fn, g) = Votes(fn, p) /\ p < g)
    BY <1>1, <1>2, <1>3, <1>6
  <2> QED
    BY <2>1 DEF Wins, Converged
<1> QED
  BY <1>5, <1>7, <1>8

\* A function nobody is relied on for has no votes.
LEMMA Unscanned ==
  ASSUME NEW fn \in Functions, fn \notin Scanned, NEW h
  PROVE  ~Wins(fn, h)
<1>1. Supporters(fn, h) = {}
  BY DEF Scanned, Supporters
<1>2. Votes(fn, h) = 0
  BY <1>1, FS_EmptySet DEF Votes
<1> QED
  BY <1>2 DEF Wins

LEMMA InitRoles == ASSUME Init PROVE Roles
<1>1. \A a \in Agents : \A fn \in Functions : Relied(tom[a], fn) = {}
  <2> TAKE a \in Agents
  <2> TAKE fn \in Functions
  <2>1. tom[a] = [b \in {a} |-> SelfBelief] /\ SelfBelief.relyOn[fn] = 0
    BY SeedIsBelief DEF Init, NoReliance
  <2> QED
    BY <2>1 DEF Relied
<1>2. Scanned = {}
  BY <1>1 DEF Scanned
<1>3. \A fn \in Functions, h \in Agents : ~Wins(fn, h)
  BY <1>2, Unscanned
<1>4. RolesReflectReliance
  BY <1>3, SocietyAssumption DEF Init, RolesReflectReliance, Wins, SocietyAssumption
<1> QED
  BY <1>4 DEF Init, Roles, HolderScanned

\* Whoever is relied on stays relied on.
LEMMA RelianceGrows ==
  ASSUME Shape, Shape', NEW fn \in Functions, fn \in Scanned,
         \A x, c \in Agents, f \in Functions :
           BeliefAbout(tom'[x], c).relyOn[f] >= BeliefAbout(tom[x], c).relyOn[f]
  PROVE  fn \in Scanned'
<1>0. PICK x \in Agents : Relied(tom[x], fn) # {}
  BY DEF Scanned
<1>1. PICK b : b \in Relied(tom[x], fn)
  BY <1>0
<1>2. tom[x] \in Minds /\ tom'[x] \in Minds
  BY DEF Shape
<1>3. b \in Agents /\ BeliefAbout(tom[x], b).relyOn[fn] > 0
  BY <1>1, <1>2, ReliedFacts
<1>4. BeliefAbout(tom'[x], b).relyOn[fn] \in 0..RelyMax /\ BeliefAbout(tom[x], b).relyOn[fn] \in 0..RelyMax
      /\ RelyMax \in Nat
  BY <1>2, ReliedFacts, SocietyAssumption DEF SocietyAssumption
<1>5. BeliefAbout(tom'[x], b).relyOn[fn] >= BeliefAbout(tom[x], b).relyOn[fn]
  BY <1>3
<1>6. BeliefAbout(tom'[x], b).relyOn[fn] > 0
  BY <1>3, <1>4, <1>5
<1>7. b \in Relied(tom'[x], fn)
  BY <1>2, <1>3, <1>6, ReliedFacts
<1> QED
  BY <1>7 DEF Scanned

LEMMA TickGrows ==
  ASSUME Shape, NEW a \in Agents, AgentTick(a), NEW x \in Agents, NEW c \in Agents, NEW f \in Functions
  PROVE  BeliefAbout(tom'[x], c).relyOn[f] >= BeliefAbout(tom[x], c).relyOn[f]
<1>1. PICK fn \in Failing(a), vote \in Agents \cup {None} : Ticks(a, fn, vote)
  BY TickShape
<1> DEFINE u == HandleRelianceTrigger(a, ProcessVoteSignals(a, tom[a]), fn)
           r == BeliefAbout(tom[x], c).relyOn[f]
<1>2. r \in 0..RelyMax /\ RelyMax \in Nat /\ RelyOnDelta \in Nat
  BY Reliance, SocietyAssumption DEF SocietyAssumption
<1>3. CASE x = a
  <2>1. tom'[a] = u
    BY <1>1 DEF Ticks, Shape
  <2>2. BeliefAbout(u, c).relyOn[f] \in {r, AtMost(r + RelyOnDelta, RelyMax)}
    BY <1>1, <1>3, TickEffect DEF Ticks
  <2> HIDE DEF r, u
  <2>3. r >= r /\ AtMost(r + RelyOnDelta, RelyMax) >= r
    BY <1>2 DEF AtMost
  <2> QED
    BY <1>3, <2>1, <2>2, <2>3 DEF r
<1>4. CASE x # a
  <2>1. tom'[x] = tom[x]
    BY <1>1, <1>4 DEF Ticks, Shape
  <2>2. r >= r
    BY <1>2
  <2> QED
    BY <2>1, <2>2
<1> QED
  BY <1>3, <1>4

LEMMA ApplyGrows ==
  ASSUME Shape, NEW a \in Agents, ApplySignals(a), NEW x \in Agents, NEW c \in Agents, NEW f \in Functions
  PROVE  BeliefAbout(tom'[x], c).relyOn[f] >= BeliefAbout(tom[x], c).relyOn[f]
<1> DEFINE r == BeliefAbout(tom[x], c).relyOn[f]
<1>1. r \in 0..RelyMax /\ RelyMax \in Nat /\ VoteRelyOnDelta \in Nat
  BY Reliance
<1>2. BeliefAbout(tom'[x], c).relyOn[f] \in {r, AtMost(r + VoteRelyOnDelta, RelyMax)}
  BY ApplyEffect
<1> HIDE DEF r
<1>3. r >= r /\ AtMost(r + VoteRelyOnDelta, RelyMax) >= r
  BY <1>1 DEF AtMost
<1> QED
  BY <1>2, <1>3 DEF r

\* A step of an agent leaves the roles alone, and no tick begins with it.
LEMMA StepRoles ==
  ASSUME Shape, Roles, Shape', NEW a \in Agents, AgentTick(a) \/ ApplySignals(a)
  PROVE  Roles'
<1>1. \A x, c \in Agents, f \in Functions :
        BeliefAbout(tom'[x], c).relyOn[f] >= BeliefAbout(tom[x], c).relyOn[f]
  BY TickGrows, ApplyGrows
<1>2. emergedRoles' = emergedRoles /\ todo' = todo \ {a}
  BY DEF AgentTick, ApplySignals
<1>3. HolderScanned'
  BY <1>1, <1>2, RelianceGrows DEF Roles, HolderScanned
<1>4. todo' # Agents
  BY <1>2
<1> QED
  BY <1>2, <1>3, <1>4 DEF Roles, RolesReflectReliance

LEMMA EndRoles == ASSUME Shape, Roles, EndTick PROVE Roles'
<1>1. tom' = tom /\ emergedRoles' = RelianceScan
  BY DEF EndTick
<1>2. /\ Scanned' = Scanned
      /\ \A fn, h : Votes(fn, h)' = Votes(fn, h)
  BY <1>1 DEF Scanned, Votes, Supporters
<1>3. None \notin Agents
  BY SocietyAssumption DEF SocietyAssumption
<1>4. ASSUME NEW fn \in Functions
      PROVE  /\ RelianceScan[fn] \in Agents \cup {None}
             /\ RelianceScan[fn] # None => fn \in Scanned
             /\ \A h \in Agents : RelianceScan[fn] = h <=> Wins(fn, h)
  <2>1. CASE fn \notin Scanned
    <3>1. RelianceScan[fn] = None
      BY <2>1 DEF RelianceScan, Roles, HolderScanned
    <3> QED
      BY <3>1, <2>1, <1>3, Unscanned
  <2>2. CASE fn \in Scanned
    <3>1. Agents # {}
      BY <2>2 DEF Scanned
    <3>2. RelianceScan[fn] = IF Converged(fn) THEN Plurality(fn) ELSE None
      BY <2>2 DEF RelianceScan
    <3> QED
      BY <2>2, <3>1, <3>2, <1>3, PluralityFacts
  <2> QED
    BY <2>1, <2>2
<1>5. RelianceScan \in [Functions -> Agents \cup {None}]
  BY <1>4 DEF RelianceScan
<1>6. RolesReflectReliance'
  BY <1>1, <1>2, <1>4 DEF RolesReflectReliance, Wins
<1> QED
  BY <1>1, <1>2, <1>4, <1>5, <1>6 DEF Roles, HolderScanned

LEMMA RestRoles == ASSUME Shape, Roles, StartApply \/ UNCHANGED vars PROVE Roles'
<1>1. tom' = tom /\ emergedRoles' = emergedRoles
  BY DEF StartApply, vars
<1>2. /\ Scanned' = Scanned
      /\ \A fn, h : Votes(fn, h)' = Votes(fn, h)
  BY <1>1 DEF Scanned, Votes, Supporters
<1>3. phase' = "plan" => phase' = phase /\ todo' = todo
  BY DEF StartApply, vars
<1> QED
  BY <1>1, <1>2, <1>3 DEF Roles, HolderScanned, RolesReflectReliance

-----------------------------------------------------------------------------
(* The theorems.                                                             *)

Inv == Shape /\ Honest /\ Ledger /\ Roles

\* The shape of the state, the fairness of blame, the ledger of votes and the roles are
\* kept by every tick of an agent, every application of its signals and every turn of a phase.
THEOREM SocietyInvariant == Spec => []Inv
<1>1. Init => Inv
  BY InitShape, InitHonest, InitLedger, InitRoles DEF Inv
<1>2. Inv /\ [Next]_vars => Inv'
  <2> SUFFICES ASSUME Inv, [Next]_vars PROVE Inv'
    OBVIOUS
  <2> USE DEF Inv
  <2>1. ASSUME NEW a \in Agents, AgentTick(a) PROVE Inv'
    BY <2>1, TickShape, TickHonest, TickLedger, StepRoles
  <2>2. ASSUME NEW a \in Agents, ApplySignals(a) PROVE Inv'
    BY <2>2, ApplyShape, ApplyHonest, ApplyLedger, StepRoles
  <2>3. CASE StartApply
    BY <2>3, RestShape, RestHonest, RestLedger, RestRoles
  <2>4. CASE EndTick
    BY <2>4, RestShape, RestHonest, RestLedger, EndRoles
  <2>5. CASE UNCHANGED vars
    BY <2>5, RestShape, RestHonest, RestLedger, RestRoles
  <2> QED
    BY <2>1, <2>2, <2>3, <2>4, <2>5 DEF Next
<1> QED
  BY <1>1, <1>2, PTL DEF Spec

\* A vote, which reaches beliefs by two ways (applySignal and processIncomingSignals), is
\* counted once by everyone who hears it.
THEOREM VotesAreCountedOnce == Spec => []VotesCountOnce
<1>1. Inv => VotesCountOnce
  BY LedgerCloses DEF Inv
<1> QED
  BY <1>1, SocietyInvariant, PTL

\* The early exits of relianceScan never leave a role with one who has lost it.
THEOREM RolesAreEarned == Spec => []RolesReflectReliance
<1>1. Inv => RolesReflectReliance
  BY DEF Inv, Roles
<1> QED
  BY <1>1, SocietyInvariant, PTL

\* Nobody is thought a liar (tom.RecordFraud) who has not made the accuser a false offer.
THEOREM NobodyFalselyAccused == Spec => []NoFalseAccusation
<1>1. Inv => NoFalseAccusation
  <2> SUFFICES ASSUME Inv, NEW a \in Agents, NEW b \in DOMAIN tom[a], tom[a][b].honesty < HonestySeed
               PROVE  b \in Cheats /\ <<b, a>> \in offered
    BY DEF NoFalseAccusation
  <2>1. BeliefAbout(tom[a], b) = tom[a][b]
    BY DEF BeliefAbout
  <2> QED
    BY <2>1 DEF Inv, Honest, Sincere
<1> QED
  BY <1>1, SocietyInvariant, PTL
=============================================================================
