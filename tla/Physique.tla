------------------------------- MODULE Physique -------------------------------
(***************************************************************************)
(* An agent's body, and what it comes to think of itself (engine/agent:         *)
(* execute, updateDynamics, ApplyOutcome; engine/world: resolveOutcome): acts      *)
(* tire and sleep restores, need drives adrenaline up and calm lets it fall,       *)
(* at the price of strength and mood, and every tick of an act is measured         *)
(* against what the agent expected of itself, which moves its mood and its idea    *)
(* of its own skill.  The gates of Deliberation read what results.              *)
(*                                                                         *)
(* Abstractions.  Levels are whole numbers; a pull or a correction of less than     *)
(* one is lost, or rounded up to one.  One skill stands for the stats an act uses.   *)
(* Resentment is in Village.                                                *)
(***************************************************************************)
EXTENDS Integers, FiniteSets, FiniteSetsExt

CONSTANTS
  Acts,            \* id -> [drain, rest, difficulty]: per tick; difficulty 0 asks for no stat
  StaminaMax, RegenRest, RegenSleep, SleepRestRate,
  AdrMax, AdrSurge, AdrDecay,
  CrashDebt, Dip,  \* AdrDecay times CrashStaminaPenalty, and times Lambda
  Pull,            \* one over MoodDecay; the baseline is 0
  Lambda, Whole,   \* weight of an outcome upon the mood; whole progress
  RealSkill, MaxSkill,
  HardStamina, ApathyMood, RageAdrenaline,   \* thresholds of the gates
  Nights, Calm, Settling, Practice           \* bounds of the histories below

VARIABLES
  stamina, adrenaline, mood,
  skill,      \* ToM of itself: the mean
  slept, calmly, settled, practised
     \* histories: ticks asleep, without urgency and without disappointment in a row; tries
physiqueVars == <<stamina, adrenaline, mood, skill, slept, calmly, settled, practised>>

Clamp(v, top) == Max({0, Min({top, v})})

-----------------------------------------------------------------------------
(* execute                                                                  *)

\* A plausible bug: the boundary belongs to resting.
ResolveRegenRate_Above(act) == IF Acts[act].rest > SleepRestRate THEN RegenSleep ELSE RegenRest
\* Sleep is told from rest by what it gives to the need.
ResolveRegenRate(act) == IF Acts[act].rest >= SleepRestRate THEN RegenSleep ELSE RegenRest
ApplyStaminaDelta(act) ==
  LET regen == IF Acts[act].drain = 0 /\ Acts[act].rest > 0 THEN ResolveRegenRate(act) ELSE 0
  IN Clamp(stamina - Acts[act].drain + regen, StaminaMax)

-----------------------------------------------------------------------------
(* updateDynamics: without urgency every tick is paid for as a crash, also when no adrenaline   *)
(* is left.                                                                 *)

\* The pull toward the baseline.
Drawn(m) == IF m < 0 THEN m + (-m) \div Pull ELSE m - m \div Pull
UpdateDynamics(s, urgent) ==
  IF urgent
  THEN [stamina |-> s, adrenaline |-> Clamp(adrenaline + AdrSurge, AdrMax), mood |-> Drawn(mood)]
  ELSE [stamina |-> Clamp(s - CrashDebt, StaminaMax), adrenaline |-> Clamp(adrenaline - AdrDecay, AdrMax),
        mood |-> Drawn(mood - Dip)]

-----------------------------------------------------------------------------
(* resolveOutcome and ApplyOutcome.                                           *)

Progress(level, act) ==
  IF Acts[act].difficulty = 0 THEN Whole ELSE Min({Whole, (level * Whole) \div Acts[act].difficulty})
Actual(act) == Progress(RealSkill, act)
ComputeExpected(act) == Progress(skill, act)

\* what the world shows it of itself: the real level, less what it fell short of
Shown(act) == (RealSkill * Actual(act)) \div Whole
\* Observe: a step towards what is seen, and none when the evidence weighs nothing.
Observe(seen, weight) ==
  IF weight = 0 \/ skill = seen THEN skill ELSE IF skill > seen THEN skill - 1 ELSE skill + 1
\* A plausible bug: only success teaches.
FoldEvidence_Flattering(act) == IF Actual(act) < Whole THEN skill ELSE Observe(Shown(act), Whole)
FoldEvidence(act) == IF Acts[act].difficulty = 0 THEN skill ELSE Observe(Shown(act), Actual(act))

Disposed(m, act) == m + Lambda * (Actual(act) - ComputeExpected(act))

\* One tick of an agent that carries on act; done: it was the last of its plan; lost: another
\* had the better of it over the object, and nothing is learnt or felt of it.
Tick(act, urgent, done, lost) ==
  LET b == UpdateDynamics(ApplyStaminaDelta(act), urgent)
      down == ~lost /\ ComputeExpected(act) > Actual(act)
      tried == ~lost /\ Acts[act].difficulty # 0
  IN /\ ~(done /\ lost)
     /\ stamina' = b.stamina
     /\ adrenaline' = IF done THEN 0 ELSE b.adrenaline
     /\ mood' = IF lost THEN b.mood ELSE Disposed(b.mood, act)
     /\ skill' = IF lost THEN skill ELSE FoldEvidence(act)
     /\ slept' = IF Acts[act].rest >= SleepRestRate THEN Min({Nights, slept + 1}) ELSE 0
     /\ calmly' = IF urgent THEN 0 ELSE Min({Calm, calmly + 1})
     /\ settled' = IF down THEN 0 ELSE Min({Settling, settled + 1})
     /\ practised' = IF tried THEN Min({Practice, practised + 1}) ELSE practised

\* No plan, nothing to carry on: only the body goes on.
Idle(urgent) ==
  LET b == UpdateDynamics(stamina, urgent) IN
  /\ stamina' = b.stamina /\ adrenaline' = b.adrenaline /\ mood' = b.mood
  /\ slept' = 0 /\ calmly' = IF urgent THEN 0 ELSE Min({Calm, calmly + 1})
  /\ settled' = Min({Settling, settled + 1})
  /\ UNCHANGED <<skill, practised>>

\* enterApathy: giving up crashes the adrenaline.
EnterApathy == adrenaline' = 0 /\ UNCHANGED <<stamina, mood, skill, slept, calmly, settled, practised>>

PhysiqueInit ==
  /\ stamina = StaminaMax /\ adrenaline = 0 /\ mood = 0
  /\ skill \in 0..MaxSkill      \* sampled with a belief noise
  /\ slept = 0 /\ calmly = 0 /\ settled = 0 /\ practised = 0
PhysiqueNext ==
  \/ \E act \in DOMAIN Acts, urgent, done, lost \in BOOLEAN : Tick(act, urgent, done, lost)
  \/ \E urgent \in BOOLEAN : Idle(urgent)
  \/ EnterApathy

-----------------------------------------------------------------------------
(* Properties                                                              *)

\* Exhaustion passes: whatever came before and however calm it is, a night's sleep brings back
\* the strength for hard acts, though every calm tick of it is charged as a crash (rest does
\* not: it gives less than the crash takes).
SleepRestores == slept = Nights => stamina >= HardStamina

\* Gloom passes: no run of failures, and no length of calm, leaves an agent under the apathy
\* threshold once it has met no disappointment for a while.
MoodHeals == settled = Settling => mood > ApathyMood

\* Disappointment ends: with practice an agent expects no more of itself than it achieves, at
\* whatever it tries, however highly it thought of itself.
ExpectsNoMore == practised = Practice => \A act \in DOMAIN Acts : ComputeExpected(act) <= Actual(act)

\* Rage is of the moment: what makes hard acts cheap is gone after a while without urgency, and
\* comes of more than one urgent tick.
RagePasses == calmly = Calm => adrenaline < RageAdrenaline
=============================================================================
