------------------------------- MODULE Drives -------------------------------
(***************************************************************************)
(* What an agent wants (engine/agent/tick.go phases 1 to 4, engine/mind/values,    *)
(* engine/mind/needs): needs grow with time and with the threats in sight, are       *)
(* weighed, and the one that leads becomes the goal, unless the present goal is       *)
(* near enough (stickiness and dead band), the village is in danger, or a threat is    *)
(* seen.  Village models what an agent then does; here a goal, once its plan has run      *)
(* its time undisturbed, is relieved.                                            *)
(*                                                                         *)
(* Abstractions.  Intensities, beliefs and qualities are whole numbers, one is          *)
(* Unit; of a belief, what the derivation of need from it uses is kept.  Of the other          *)
(* members' need for safety the sum and the least are given.                          *)
(***************************************************************************)
EXTENDS Integers, Sequences, FiniteSets, FiniteSetsExt, SequencesExt

CONSTANTS
  Needs,        \* the registry's dimensions in order of ID
  Consumable,   \* those that time drives; the others are conditional
  Safety,       \* Config.SafetyDim
  Rate, Setpoint, Weight, \* of each dimension: rate per tick, Def.Threshold (> 0), values.weights
  Unit,         \* one
  Relief, Toil, \* of each dimension: what its act takes off the intensity, and its ticks
  PerThreat, SafetyDecay, \* Config.ThreatPerThreatGain, ThreatSafetyDecay
  Stickiness, GoalDeadband,
  Others, MinCare, BondGain,  \* the agents it knows of; Config.MinCareThreshold, BondAffinityGain
  Affinities, Moods,    \* the affinities and estimated moods it may hold of them (0 = knows no mood)
  Members, Alarm,       \* size of the village; Config.SafetyThreatThreshold
  Unsafe,       \* the other members' need for safety: [sum, least], those considered
  Modes,        \* Config.CollectiveAggregationMode: those considered, of "mean" and "min"
  Protects,     \* it holds a protective collective value on Safety
  MaxThreats, Cap, \* bounds: threats in sight; intensity beyond which no alarm is followed
  Patience      \* bound: the longest wait for the goal once the alarm is worked off

VARIABLES
  want,         \* NeedIntensities
  aim,          \* Agent.Goal, "" for none
  toiled,       \* ticks the present plan has run
  care,         \* ToM: of each other, [affinity, mood]
  churned,      \* history: the last tick rebuilt, midway, the plan of the goal it kept
  calm,         \* history: the last tick had no override
  owed,         \* history: calm ticks until what the last alarm left undone is worked off
  waits         \* history: ticks each consumable need is saturated and not the goal
driveVars == <<want, aim, toiled, care, churned, calm, owed, waits>>

-----------------------------------------------------------------------------
(* needs.Def and values.                                                      *)

Clamp01(v) == Max({0, Min({Unit, v})})

UpdateConditionalNeeds(cur, threats) ==
  IF threats = 0 THEN Max({0, cur - SafetyDecay}) ELSE Min({Unit, cur + PerThreat * threats})

\* Standing, Salience and Priority: how much of the setpoint the need has eaten, weighed
Salience_Unscaled(d, intensity) == Clamp01(intensity * Unit)
Salience(d, intensity) == Clamp01((intensity * Unit) \div Setpoint[d])
Priority(d, intensity, weight) == Salience(d, intensity) * weight

\* DeriveReferentInput of another, for one who cannot estimate needs: mood stands for them,
\* and who is unknown is thought to suffer
Supposed_Mirrored(belief) == IF belief.mood = 0 THEN Unit ELSE Clamp01(belief.mood)
Supposed(belief) == IF belief.mood = 0 THEN Unit ELSE Unit - Clamp01(belief.mood)

-----------------------------------------------------------------------------
(* Appraisal.                                                                *)

Prio(w, d) == Priority(d, w[d], Weight[d])
\* appraise: by priority, then in order of ID
TopOf(w) ==
  LET most == Max({Prio(w, d) : d \in Range(Needs)}) IN SelectSeq(Needs, LAMBDA d : Prio(w, d) = most)[1]

\* appraiseOthers: those it cares for, weighed with the bond
ForOthers(beliefs) ==
  Max({0} \cup {Priority(d, Supposed(beliefs[o]), Weight[d] * (Unit + beliefs[o].affinity * BondGain)) :
                  d \in Range(Needs), o \in {o \in Others : beliefs[o].affinity > MinCare}})

\* appraiseCollective: the mean of all members, or the least of them (values.go calls that one
\* the worst off, who by intensity is the best off)
ForVillage(w, unsafe, mode) ==
  LET intensity == IF mode = "min" THEN Min({w[Safety], unsafe.least}) ELSE (w[Safety] + unsafe.sum) \div Members
  IN IF Protects THEN Priority(Safety, intensity, Weight[Safety]) ELSE 0

\* what loosens the planner's gates (a place's quality is always whole: PlaceQuality)
Urgency(w, beliefs, unsafe, mode) ==
  Max({Prio(w, TopOf(w)) * Unit, ForOthers(beliefs), ForVillage(w, unsafe, mode) * Unit})

\* defensiveCollectiveGoal: the members' mean satisfaction is under the threshold, in either mode
Defensive(w, unsafe) == Protects /\ Unit * Members - (w[Safety] + unsafe.sum) < Alarm * Members

-----------------------------------------------------------------------------
(* A tick.                                                                   *)

\* history: how long the acts take that bring every need to rest, each growing meanwhile (an act
\* gives more than grows in its time)
Arrears(w) ==
  LET alone(d) == Toil[d] * ((w[d] + Relief[d] - Toil[d] * Rate[d] - 1) \div (Relief[d] - Toil[d] * Rate[d]))
  IN FoldSet(LAMBDA d, sum : sum + alone(d), 0, Consumable)

MediateGoal(w) ==
  IF aim = "" \/ Prio(w, TopOf(w)) - (Prio(w, aim) + Stickiness) > GoalDeadband THEN TopOf(w) ELSE aim

\* a threat empties the plan; without one the plan is rebuilt when mediation or an override
\* changed the goal, also when the override put it back
Tick(threats, unsafe) ==
  LET safe == UpdateConditionalNeeds(want[Safety], threats)
      w == [d \in Range(Needs) |-> IF d = Safety THEN safe
                                   ELSE IF d \in Consumable THEN want[d] + Rate[d] ELSE want[d]]
      mediated == MediateGoal(w)
      defended == IF Defensive(w, unsafe) THEN Safety ELSE mediated
      final == IF threats > 0 THEN Safety ELSE defended
      replan == threats > 0 \/ mediated # aim \/ defended # mediated \/ final # defended \/ toiled = 0
      run == IF replan THEN 1 ELSE toiled + 1
      done == run >= Toil[final]     \* ApplyOutcome: the effect, and the goal is cleared
      eased == IF done THEN [w EXCEPT ![final] = Max({0, @ - Relief[final]})] ELSE w
      alarmed == threats > 0 \/ Defensive(w, unsafe)
  IN /\ alarmed => \A d \in Consumable : w[d] <= Cap   \* bound: on how far an alarm is followed
     /\ want' = eased
     /\ aim' = IF done THEN "" ELSE final
     /\ toiled' = IF done THEN 0 ELSE run
     /\ churned' = (replan /\ toiled > 0 /\ final = aim)
     /\ calm' = ~alarmed
     /\ owed' = IF alarmed THEN Patience + Arrears(eased) ELSE Max({0, owed - 1})
     /\ waits' = [d \in Consumable |-> IF w[d] >= Setpoint[d] /\ final # d THEN Min({Patience + 1, waits[d] + 1}) ELSE 0]
     /\ UNCHANGED care

\* what it learns of the others: engine/mind/tom
Regard(o, a, m) == care' = [care EXCEPT ![o] = [affinity |-> a, mood |-> m]]

DrivesInit ==
  /\ want = [d \in Range(Needs) |-> 0] /\ aim = "" /\ toiled = 0
  /\ care = [o \in Others |-> [affinity |-> 0, mood |-> 0]]
  /\ churned = FALSE /\ calm = FALSE /\ owed = 0 /\ waits = [d \in Consumable |-> 0]

DrivesNext ==
  \/ \E t \in 0..MaxThreats, u \in Unsafe : Tick(t, u)
  \/ /\ aim = "" /\ ~calm   \* bound: what it thinks of others touches none of the rest
     /\ \E o \in Others, a \in Affinities, m \in Moods : Regard(o, a, m)
     /\ UNCHANGED <<want, aim, toiled, churned, calm, owed, waits>>

-----------------------------------------------------------------------------
(* Properties.                                                               *)

\* No need starves: needs grow without bound, while an alarm lasts all of them; but once it has
\* been calm for as long as the acts take that work off what the alarm left undone, no saturated
\* need has waited longer than for the acts before it, however sticky the goals are and whichever
\* need overtakes.
NoNeedStarves == owed = 0 => \A d \in Consumable : waits[d] <= Patience

\* Left alone, a plan runs to its end: it is rebuilt midway for the same goal only while a
\* threat is in sight or the village in danger (each tick mediation takes the goal away and the
\* override puts it back).
PlansRun == churned => ~calm

\* Strangers do not stir it: what it believes of those it does not care for never changes its
\* urgency, a better mood in those it cares for never raises it, and it never falls under
\* its own need.
UrgencyFromCare ==
  \A o \in Others, a \in Affinities, m \in Moods, u \in Unsafe, mode \in Modes :
    LET other == [care EXCEPT ![o] = [affinity |-> a, mood |-> m]]
        now == Urgency(want, care, u, mode)
        then == Urgency(want, other, u, mode)
    IN /\ (a <= MinCare /\ care[o].affinity <= MinCare) => now = then
       /\ (a = care[o].affinity /\ m >= care[o].mood /\ care[o].mood # 0) => then <= now
       /\ now >= Prio(want, TopOf(want)) * Unit
=============================================================================
