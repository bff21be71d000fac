------------------------------- MODULE Instinct -------------------------------
(***************************************************************************)
(* How a prey animal makes up its mind (fauna.Step over the rules that          *)
(* content/objects.yaml gives its species): most ticks it is dormant and carries   *)
(* on with what it was doing; the smell of a predator, or its turn in the dormant     *)
(* cadence, makes it look around, feel, weigh its actions and turn; the world then      *)
(* lays the effect of the action on its drives (world/fauna_apply.go).  Wildlife         *)
(* models what animals do to each other.                                      *)
(*                                                                         *)
(* Abstractions.  Drives are whole numbers up to Full.  What is around is given      *)
(* anew every tick, in coordinates in which the animal stands at the origin and         *)
(* faces along the first axis: so position and heading need no variable, and of           *)
(* steering the direction aimed at is kept (not the jitter, the bend away from hazards,     *)
(* the turn rate, or the step).  Temperature and crowding are even.                   *)
(***************************************************************************)
EXTENDS Integers, Sequences, FiniteSets, FiniteSetsExt

CONSTANTS
  Acts,          \* the species' candidate actions, in order of ID
  Channel,       \* SteerChannel of each
  Effort,        \* of each, what a tick of it adds to fatigue (a world's rates by effort tag)
  Utility(_, _, _, _), \* of an action, the drives, the smell of food and the daylight
  HungerRate, FatigueRate, FearDecay, WaryLevel, FleeLevel, Full, \* the species' drives
  VitalDrainAbove, MaxVital,
  GrazeGain,     \* hunger a grazing tick takes
  WakeCooldown, DormantPeriod, SleepWake, \* snap.Cadence
  SightSq,       \* the square of the sight radius
  FovSq,         \* 1/cos^2 of fov_arc, the half angle of sight
  Packs,         \* what may be around in a tick: sets of [off, concealed]
  Offsets,       \* where a predator may be when flight is judged
  Scents         \* intensities of the predator scent

VARIABLES
  feel,          \* Drives: hunger, fatigue, fear
  doing,         \* CurrentAction
  awake,         \* ticks of ActiveUntil still to come
  vigor,         \* Vital
  cadence,       \* (Tick + phase(ID)) modulo DormantPeriod
  lapse,         \* history: ticks since it last decided
  scare,         \* history: ticks since a smell that had to wake it, up to WakeCooldown + 1
  sensed,        \* history: [level, ago]: the fear last set and the ticks since
  plenty         \* history: ticks with food at hand and no sign of a predator
instinctVars == <<feel, doing, awake, vigor, cadence, lapse, scare, sensed, plenty>>

Patience == DormantPeriod + FleeLevel \div FearDecay
Bounded(v) == Max({0, Min({Full, v})})   \* clamp01

-----------------------------------------------------------------------------
(* Sense.                                                                    *)

LenSq(o) == o[1] * o[1] + o[2] * o[2]
Dot(a, b) == a[1] * b[1] + a[2] * b[2]

\* sightQuery: within the half angle of sight, a concealed one at half the distance
Visible(pack) ==
  {p \in pack : /\ p.off[1] >= 0 /\ FovSq * p.off[1] * p.off[1] >= LenSq(p.off)
                /\ LenSq(p.off) * (IF p.concealed THEN 4 ELSE 1) <= SightSq}
NearestSeen(seen) ==
  CHOOSE p \in seen : \A q \in seen : LenSq(p.off) < LenSq(q.off) \/ (LenSq(p.off) = LenSq(q.off) /\ p.id <= q.id)

\* M7: the sum of the ways from all seen, each weighed with the inverse of its distance; here
\* times the product of all the squared distances
Repulsion_Far(seen) == <<-FoldSet(LAMBDA p, s : s + p.off[1], 0, seen), -FoldSet(LAMBDA p, s : s + p.off[2], 0, seen)>>
Repulsion(seen) ==
  LET share(p) == FoldSet(LAMBDA q, m : m * LenSq(q.off), 1, seen \ {p})
      sum(i) == FoldSet(LAMBDA p, s : s - p.off[i] * share(p), 0, {p \in seen : p.off # <<0, 0>>})
  IN <<sum(1), sum(2)>>

Ahead == <<1, 0>>
Away(o) == IF o = <<0, 0>> THEN Ahead ELSE <<-o[1], -o[2]>>

\* fleeAwayDir: from the resultant, from the nearest, from the smell, or straight on
FleeAwayDir(seen, smellDir) ==
  LET nearest == NearestSeen(seen).off IN
  IF Cardinality(seen) >= 2 /\ Repulsion(seen) # <<0, 0>> THEN Repulsion(seen)
  ELSE IF seen # {} /\ nearest # <<0, 0>> THEN Away(nearest)
  ELSE IF smellDir # <<0, 0>> THEN Away(smellDir)
  ELSE Ahead

\* baseSteerDir, of the channels a prey animal has; at, where there is one, is the direction
\* of the food smelled or of the cover found
BaseSteerDir(channel, seen, smellDir, at) ==
  CASE channel \in {"flee:predator", "wary:predator"} -> FleeAwayDir(seen, smellDir)
    [] channel = "seek:cover" -> IF at # <<0, 0>> THEN at ELSE FleeAwayDir(seen, smellDir)
    [] channel = "seek:food" -> IF at # <<0, 0>> THEN at ELSE Ahead
    [] OTHER -> Ahead

-----------------------------------------------------------------------------
(* Drives and actions.                                                       *)

\* DriveUpdate: what is seen overrules what is smelled; either sets fear, up or down
DriveUpdate(d, sees, smells) ==
  [hunger |-> Bounded(d.hunger + HungerRate), fatigue |-> Bounded(d.fatigue + FatigueRate),
   fear |-> IF sees THEN FleeLevel ELSE IF smells THEN WaryLevel ELSE Bounded(d.fear - FearDecay)]
CheapDriveAdvance_Frozen(d) ==
  [hunger |-> Bounded(d.hunger + HungerRate), fatigue |-> Bounded(d.fatigue + FatigueRate), fear |-> d.fear]
CheapDriveAdvance(d) ==
  [hunger |-> Bounded(d.hunger + HungerRate), fatigue |-> Bounded(d.fatigue + FatigueRate),
   fear |-> Bounded(d.fear - FearDecay)]

\* scoreAction: the most useful; the first in order of ID if there are several
ScoreAction(d, food, day) ==
  LET most == Max({Utility(Acts[i], d, food, day) : i \in DOMAIN Acts})
  IN Acts[Min({i \in DOMAIN Acts : Utility(Acts[i], d, food, day) = most})]

\* nextVital: it bleeds while hunger, as it was before the tick, is at its worst
NextVigor(d) == IF d.hunger >= VitalDrainAbove THEN Max({0, vigor - 1}) ELSE Min({MaxVital, vigor + 1})

\* the world's part: applyAnimalFatigue and applyAnimalGraze
Effects(d, act, food) ==
  [d EXCEPT !.fatigue = Bounded(@ + Effort[act]),
            !.hunger = IF Channel[act] = "seek:food" /\ food > 0 THEN Bounded(@ - GrazeGain) ELSE @]

-----------------------------------------------------------------------------
(* A tick: here is the smell where it stands, near the one in its smell radius.  *)

WakeThreshold_Deep == IF Channel[doing] = "state:sleep" THEN 100 ELSE 0
WakeThreshold == IF Channel[doing] = "state:sleep" THEN SleepWake ELSE 0

\* what an animal that decides makes of the tick, and what one that does not
FullPipeline(seen, near, food, day) ==
  LET d == DriveUpdate(feel, seen # {}, near > 0) IN [drives |-> d, action |-> ScoreAction(d, food, day)]
CheapPath == [drives |-> CheapDriveAdvance(feel), action |-> doing]

Step(here, near, pack, food, day) ==
  LET woken == here > WakeThreshold
      decides == woken \/ awake > 0 \/ cadence = 0
      seen == Visible(pack)
      intent == IF decides THEN FullPipeline(seen, near, food, day) ELSE CheapPath
      level == IF seen # {} THEN FleeLevel ELSE WaryLevel
  IN /\ vigor > 0
     /\ feel' = Effects(intent.drives, intent.action, food)
     /\ doing' = intent.action
     /\ awake' = IF woken THEN WakeCooldown ELSE Max({0, awake - 1})
     /\ vigor' = NextVigor(feel)
     /\ cadence' = (cadence + 1) % DormantPeriod
     /\ lapse' = IF decides THEN 0 ELSE lapse + 1
     /\ scare' = IF here > SleepWake \/ (here > 0 /\ Channel[doing] # "state:sleep") THEN 0 ELSE Min({WakeCooldown + 1, scare + 1})
     /\ sensed' = IF decides /\ (seen # {} \/ near > 0) THEN [level |-> level, ago |-> 0]
                  ELSE IF FearDecay * (sensed.ago + 1) > sensed.level THEN [level |-> 0, ago |-> 0]
                  ELSE [sensed EXCEPT !.ago = @ + 1]
     /\ plenty' = IF food > 0 /\ near = 0 /\ seen = {} THEN Min({Patience, plenty + 1}) ELSE 0

\* a newborn or a newcomer; its place in the cadence hangs on its ID
InstinctInit ==
  /\ feel = [hunger |-> 0, fatigue |-> 0, fear |-> 0]
  /\ doing = Acts[1] /\ awake = 0 /\ vigor = MaxVital
  /\ cadence \in 0..(DormantPeriod - 1)
  /\ lapse = 0 /\ scare = WakeCooldown + 1 /\ sensed = [level |-> 0, ago |-> 0] /\ plenty = 0

Live == \E here, near \in Scents, pack \in Packs, food, day \in {0, 1} :
          here <= near /\ Step(here, near, pack, food, day)
Starved == vigor = 0 /\ UNCHANGED instinctVars   \* killAnimal
InstinctNext == Live \/ Starved

-----------------------------------------------------------------------------
(* Properties.                                                               *)

\* Dormancy never makes it deaf: it decides at least once in DormantPeriod ticks however it is
\* woken and falls dormant in between, every tick from the smell that wakes it until
\* WakeCooldown ticks later, and whichever way it spends the ticks its fear is the one last
\* set, cooled by the ticks since.
Vigilant ==
  /\ lapse < DormantPeriod
  /\ scare <= WakeCooldown => lapse = 0
  /\ feel.fear = sensed.level - FearDecay * sensed.ago

\* Nothing starves amid plenty: where food is at hand and no predator has shown for a while, hunger
\* is off its worst - fear has cooled, and neither sleep, rest nor the cadence kept it away.
FedAmidPlenty == plenty = Patience => feel.hunger < VitalDrainAbove

\* Flight is not into the arms of the nearest: from one predator or between two, seen, half
\* hidden or only smelled, whoever flees, or takes cover where there is none, does not aim
\* towards the nearest seen; what it does see outweighs what it smells.
FleesApart ==
  feel = [hunger |-> 0, fatigue |-> 0, fear |-> 0] /\ lapse = 0 /\ plenty = 0 =>   \* it hangs on no variable
    \A a, b \in Offsets \ {<<0, 0>>}, shy \in BOOLEAN, smellDir \in {<<0, 0>>, <<1, 0>>, <<0, 1>>} :
      LET seen == Visible({[id |-> 1, off |-> a, concealed |-> FALSE], [id |-> 2, off |-> b, concealed |-> shy]})
          dir == BaseSteerDir("flee:predator", seen, smellDir, <<0, 0>>)
      IN /\ seen # {} => Dot(dir, NearestSeen(seen).off) <= 0
         /\ seen = {} /\ smellDir # <<0, 0>> => Dot(dir, smellDir) < 0
         /\ BaseSteerDir("seek:cover", seen, smellDir, <<0, 0>>) = dir
=============================================================================
