------------------------------ MODULE Society ------------------------------
(***************************************************************************)
(* What the villagers come to believe of each other (engine/mind/tom,        *)
(* agent/p6.go, world/reliance.go and the signals of world/tick.go): trust   *)
(* from trades, honesty from fraud, reliance from failed plans and from      *)
(* votes, and the roles that emerge when enough of the village relies on one.*)
(*                                                                         *)
(*   plan  - each agent folds the signals addressed to it, may shift its      *)
(*           reliance to the best provider, and prepares a trade signal and   *)
(*           a vote; the goroutines write only their own agent's beliefs and  *)
(*           read nothing another writes, so ID order stands for every order; *)
(*   apply - in agent-ID order the signals reach the others' beliefs;         *)
(*   end   - the emerged roles are recomputed and the signals forgotten.      *)
(*                                                                         *)
(* Abstractions.  Amounts are counted in steps of the smallest delta.  What   *)
(* a function asks of a provider (DefaultConfig.Functions: strength,          *)
(* intelligence) is a stat no evidence about another agent ever moves, so     *)
(* the provider is the most trusted one.  Any other agent may be the nearest  *)
(* one, any plan may fail or cost too much, any agent may feel urgency and    *)
(* any action may be given up for another.  Pruning is off, as in             *)
(* content/balance.yaml, so the time of the last sighting is not kept.  The   *)
(* functions are those of the engine's DefaultConfig: AgentConfig, which the   *)
(* driver uses, sets none, and then no reliance ever accrues.                  *)
(***************************************************************************)
EXTENDS Naturals, FiniteSets

CONSTANTS
  Agents,           \* agent IDs; < is their (lexical) order
  Functions,        \* Config.Functions: the services one may be relied on for
  SafetyFunction,   \* the one votes are about
  None,
  Burdened,         \* the agents whose plans may fail or cost more than RelyCostThreshold
  Cheats,           \* the agents whose offers claim too much (claimed - truth > FraudThreshold)
  TrustSeed, TrustMax,         \* trust of a new belief, and 1.0
  HonestySeed,                 \* honesty of a new belief
  RelyMax, RelyOnDelta, VoteRelyOnDelta, VoteRelyThreshold,
  Visible,          \* Visible[a]: the trade actions the gates let agent a plan
  Lasts,            \* ticks each trade action takes
  RoleShare         \* <<m, n>>: RoleConvergenceThreshold is m/n of the village

VARIABLES
  tom,           \* of each agent: a belief about every agent it knows, itself included
  deal,          \* the trade action each agent is in and the ticks it has left
  pendingOffers, \* World.pendingOffers: who made the offer each agent has not answered
  inbox,         \* World.pendingSignals: <<voter, function, holder>>
  emergedRoles,  \* World.emergedRoles
  phase, todo,   \* plan or apply, and the agents it has still to visit
  signals,       \* the signals each agent emitted this tick
  offered,       \* history: <<from, to>> of every offer made
  owed           \* history: what each agent's reliance should amount to

vars == <<tom, deal, pendingOffers, inbox, emergedRoles, phase, todo, signals, offered, owed>>

Trades == {"Offer", "Accept", "Reject"}

ASSUME SocietyAssumption ==
  /\ Agents \subseteq Nat /\ IsFiniteSet(Agents)
  /\ SafetyFunction \in Functions /\ None \notin Agents /\ None \notin Functions /\ None \notin Trades
  /\ Burdened \subseteq Agents /\ Cheats \subseteq Agents
  /\ TrustSeed \in Nat \ {0} /\ TrustMax \in Nat /\ TrustSeed <= TrustMax
  /\ HonestySeed \in Nat /\ RelyMax \in Nat
  /\ RelyOnDelta \in Nat \ {0} /\ VoteRelyOnDelta \in Nat \ {0} /\ VoteRelyThreshold \in Nat \ {0}
  /\ Visible \in [Agents -> SUBSET Trades] /\ Lasts \in [Trades -> Nat \ {0}]
  /\ RoleShare \in (Nat \ {0}) \X (Nat \ {0})

First(S) == CHOOSE i \in S : \A j \in S : i <= j
AtMost(n, max) == IF n > max THEN max ELSE n
NoReliance == [fn \in Functions |-> 0]

-----------------------------------------------------------------------------
(* Beliefs.                                                                  *)

Seed == [trust |-> TrustSeed, honesty |-> HonestySeed, disliked |-> FALSE, relyOn |-> NoReliance]
SelfBelief == [Seed EXCEPT !.trust = TrustMax]

\* getOrSeedBelief.
BeliefAbout(t, b) == IF b \in DOMAIN t THEN t[b] ELSE Seed
Holding(t, b, belief) == [x \in DOMAIN t \cup {b} |-> IF x = b THEN belief ELSE t[x]]

\* AdjustAffinity's sibling for rejections; only the sign of the affinity is kept.
RecordTradeRejection(t, b) == Holding(t, b, [BeliefAbout(t, b) EXCEPT !.disliked = TRUE])
RecordTradeSuccess(t, b) == Holding(t, b, [BeliefAbout(t, b) EXCEPT !.trust = AtMost(@ + 1, TrustMax)])
RecordFraud(t, b, lied) ==
  IF ~lied THEN t
  ELSE Holding(t, b, [BeliefAbout(t, b) EXCEPT !.honesty = IF @ = 0 THEN 0 ELSE @ - 1])
AdjustRelyOn(t, b, fn, delta) ==
  Holding(t, b, [BeliefAbout(t, b) EXCEPT !.relyOn[fn] = AtMost(@ + delta, RelyMax)])

\* BestProviderFor: the most trusted of the others, the lower ID on a tie; all of them
\* get a belief.
BestProviderFor(a) ==
  LET trust(b) == BeliefAbout(tom[a], b).trust
  IN First({b \in Agents \ {a} : \A c \in Agents \ {a} : trust(c) <= trust(b)})
Acquainted(t) == [b \in Agents |-> BeliefAbout(t, b)]

\* bestRelyOnFor: the other it relies on most, the lower ID on a tie.
Relied(t, fn) == {b \in DOMAIN t : t[b].relyOn[fn] > 0}
MostRelied(t, fn, S) == First({b \in S : \A c \in S : t[c].relyOn[fn] <= t[b].relyOn[fn]})

-----------------------------------------------------------------------------
(* Plan.                                                                     *)

\* processIncomingSignals: votes of trusted senders, in the order received.
ProcessVoteSignals(a, t) ==
  [b \in DOMAIN t |->
     [t[b] EXCEPT !.relyOn = [fn \in Functions |->
        AtMost(@[fn] + VoteRelyOnDelta * Cardinality({s \in inbox[a] : s[1] \in DOMAIN t /\ s[2] = fn /\ s[3] = b}),
               RelyMax)]]]

\* handleRelianceTrigger: the plan for fn failed, or cost too much.
HandleRelianceTrigger(a, t, fn) ==
  IF fn = None \/ Agents = {a} THEN t
  ELSE AdjustRelyOn(Acquainted(t), BestProviderFor(a), fn, RelyOnDelta)

Idle == [act |-> None, left |-> 0]

\* The trade actions an agent can be in this tick: the one it was in, or a new one; an
\* answer can be planned only while an offer is pending.
Deals(a) ==
  {deal[a], Idle}
  \cup {[act |-> x, left |-> Lasts[x]] :
          x \in {y \in Visible[a] : y = "Offer" \/ pendingOffers[a] # None}}

\* emitVoteIfEligible, for an agent that feels urgency: the holder it votes for.
VoteOf(a, t) ==
  LET S == Relied(t, SafetyFunction) \ {a}
      holder == MostRelied(t, SafetyFunction, S)
  IN IF S = {} THEN None
     ELSE IF t[holder].relyOn[SafetyFunction] < VoteRelyThreshold THEN None ELSE holder

Failing(a) == {None} \cup IF a \in Burdened THEN Functions ELSE {}

AgentTick(a) ==
  /\ phase = "plan" /\ todo # {} /\ a = First(todo) /\ todo' = todo \ {a}
  /\ \E fn \in Failing(a), d \in Deals(a), toward \in (Agents \ {a}) \cup {None}, urgent \in BOOLEAN :
       LET t == HandleRelianceTrigger(a, ProcessVoteSignals(a, tom[a]), fn)
           vote == IF urgent THEN VoteOf(a, t) ELSE None
       IN /\ d.act = None => toward = None
          /\ tom' = [tom EXCEPT ![a] = t]
          /\ deal' = [deal EXCEPT ![a] = IF d.left <= 1 THEN Idle ELSE [d EXCEPT !.left = @ - 1]]
          /\ signals' = [signals EXCEPT ![a] = [act |-> d.act, toward |-> toward, vote |-> vote]]
          /\ owed' = [x \in Agents |-> [b \in Agents |-> [f \in Functions |-> AtMost(owed[x][b][f]
               + (IF x = a /\ f = fn /\ Agents # {a} /\ b = BestProviderFor(a) THEN RelyOnDelta ELSE 0)
               + (IF x # a /\ f = SafetyFunction /\ b = vote THEN VoteRelyOnDelta ELSE 0), RelyMax)]]]
  /\ UNCHANGED <<pendingOffers, inbox, emergedRoles, phase, offered>>

-----------------------------------------------------------------------------
(* Apply: the signals of one agent, its trade signal before its vote.        *)

\* applySignal, of a signal towards somebody.
Offer(a, b) ==
  /\ pendingOffers' = [pendingOffers EXCEPT ![b] = a]
  /\ offered' = offered \cup {<<a, b>>}

\* The accepter finds out about the offer it holds, whoever it turns to.
Judged_Blamed(a, b, t) == IF pendingOffers[a] = None THEN t ELSE RecordFraud(t, b, pendingOffers[a] \in Cheats)
Judged(a, b, t) ==
  LET offeror == pendingOffers[a]
  IN IF offeror = None THEN t ELSE RecordFraud(t, offeror, offeror \in Cheats)

Traded(a, b, x) ==
  CASE x = a -> Judged(a, b, RecordTradeSuccess(tom[a], b))
    [] x = b -> RecordTradeSuccess(tom[b], a)
    [] OTHER -> tom[x]

\* A rejection counts against the offeror, or whoever is near when nothing was offered.
Rejected(a, b) == RecordTradeRejection(tom[a], IF pendingOffers[a] = None THEN b ELSE pendingOffers[a])

\* applyVoteSignal: every other agent, the voted one too, adopts the vote at once, and it is
\* also kept among the signals to be read.
HeardOf(a, vote, t, x) ==
  IF x = a \/ vote = None THEN t ELSE AdjustRelyOn(t, vote, SafetyFunction, VoteRelyOnDelta)

ApplySignals(a) ==
  /\ phase = "apply" /\ todo # {} /\ a = First(todo) /\ todo' = todo \ {a}
  /\ LET s == signals[a]
         act == IF s.toward = None THEN None ELSE s.act
         dealt == [x \in Agents |->
                     CASE act = "Accept" -> Traded(a, s.toward, x)
                       [] act = "Reject" /\ x = a -> Rejected(a, s.toward)
                       [] OTHER -> tom[x]]
     IN /\ tom' = [x \in Agents |-> HeardOf(a, s.vote, dealt[x], x)]
        /\ inbox' = [x \in Agents |-> IF x = a \/ s.vote = None THEN inbox[x]
                                      ELSE inbox[x] \cup {<<a, SafetyFunction, s.vote>>}]
        /\ CASE act = "Offer" -> Offer(a, s.toward)
             [] act \in {"Accept", "Reject"} ->
                  pendingOffers' = [pendingOffers EXCEPT ![a] = None] /\ UNCHANGED offered
             [] OTHER -> UNCHANGED <<pendingOffers, offered>>
  /\ UNCHANGED <<deal, emergedRoles, phase, signals, owed>>

-----------------------------------------------------------------------------
(* The end of the tick.                                                      *)

\* relianceScan: each agent votes for whom it relies on most, itself included.
Supporters(fn, h) == {a \in Agents : Relied(tom[a], fn) # {} /\ MostRelied(tom[a], fn, Relied(tom[a], fn)) = h}
Votes(fn, h) == Cardinality(Supporters(fn, h))
Plurality(fn) == First({h \in Agents : \A g \in Agents : Votes(fn, g) <= Votes(fn, h)})
Converged(fn) ==
  LET n == Votes(fn, Plurality(fn)) IN n > 0 /\ n * RoleShare[2] >= RoleShare[1] * Cardinality(Agents)

\* Only functions somebody has a reliance edge for are looked at.
Scanned == {fn \in Functions : \E a \in Agents : Relied(tom[a], fn) # {}}

RelianceScan_NeverClears ==
  [fn \in Functions |-> IF fn \in Scanned /\ Converged(fn) THEN Plurality(fn) ELSE emergedRoles[fn]]
RelianceScan ==
  [fn \in Functions |-> CASE fn \notin Scanned -> emergedRoles[fn]
                          [] fn \in Scanned /\ Converged(fn) -> Plurality(fn)
                          [] OTHER -> None]

\* readPhase, before the snapshot of the next tick is taken.
ReadPhase_Delivers == inbox
ReadPhase == [a \in Agents |-> {}]

Silence == [act |-> None, toward |-> None, vote |-> None]

StartApply ==
  /\ phase = "plan" /\ todo = {}
  /\ phase' = "apply" /\ todo' = Agents
  /\ UNCHANGED <<tom, deal, pendingOffers, inbox, emergedRoles, signals, offered, owed>>

EndTick ==
  /\ phase = "apply" /\ todo = {}
  /\ emergedRoles' = RelianceScan
  /\ inbox' = ReadPhase
  /\ signals' = [a \in Agents |-> Silence]
  /\ phase' = "plan" /\ todo' = Agents
  /\ UNCHANGED <<tom, deal, pendingOffers, offered, owed>>

Init ==
  /\ tom = [a \in Agents |-> [b \in {a} |-> SelfBelief]]
  /\ deal = [a \in Agents |-> Idle]
  /\ pendingOffers = [a \in Agents |-> None]
  /\ inbox = [a \in Agents |-> {}]
  /\ emergedRoles = [fn \in Functions |-> None]
  /\ phase = "plan" /\ todo = Agents
  /\ signals = [a \in Agents |-> Silence]
  /\ offered = {} /\ owed = [a \in Agents |-> [b \in Agents |-> NoReliance]]

Next == StartApply \/ EndTick \/ \E a \in Agents : AgentTick(a) \/ ApplySignals(a)

Spec == Init /\ [][Next]_vars

-----------------------------------------------------------------------------
(* Properties.                                                               *)

\* Whatever the order of plans and votes, at the end of a tick an agent relies on another
\* exactly as much as its own failures and the votes it heard add up to, each vote once
\* (applyVoteSignal writes a vote into the beliefs and also into pendingSignals, which
\* processVoteSignal would add again).
VotesCountOnce ==
  phase = "apply" /\ todo = {} =>
    \A a, b \in Agents : BeliefAbout(tom[a], b).relyOn = owed[a][b]

\* Between two ticks a function has a holder exactly when some agent has enough supporters
\* and nobody more: a holder that lost its support to the votes of a tick, or shares it with
\* a rival, is not kept by the scan's early exits.
RolesReflectReliance ==
  phase = "plan" /\ todo = Agents =>
    \A fn \in Functions, h \in Agents :
      emergedRoles[fn] = h <=>
        /\ Votes(fn, h) > 0 /\ Votes(fn, h) * RoleShare[2] >= RoleShare[1] * Cardinality(Agents)
        /\ \A g \in Agents \ {h} :
             Votes(fn, g) < Votes(fn, h) \/ (Votes(fn, g) = Votes(fn, h) /\ h < g)

\* An agent thinks less of another's honesty only if the other made it a false offer, even
\* when the offer was overwritten or answered towards somebody else.
NoFalseAccusation ==
  \A a \in Agents : \A b \in DOMAIN tom[a] :
    tom[a][b].honesty < HonestySeed => b \in Cheats /\ <<b, a>> \in offered
=============================================================================
