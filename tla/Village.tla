------------------------------- MODULE Village -------------------------------
(***************************************************************************)
(* The villagers' decision loop and the world tick around it (engine/agent,  *)
(* engine/world/tick.go).  A tick reads, plans, collects and applies:        *)
(*   plan  - one goroutine per agent perceives, chooses a goal, replans if    *)
(*           it must, and proposes an intent; it writes its own agent only     *)
(*           and sees the others as the read phase froze them;                 *)
(*   apply - in agent-ID order, one goroutine resolves the contests for        *)
(*           objects and gives each agent the outcome of its intent;           *)
(*   end   - the losers' triggers are kept for the next tick.                  *)
(*                                                                         *)
(* Abstractions.  Need intensities, stats beliefs, mood and stamina are not   *)
(* kept: the appraisal may rank the dimensions in any order, a rival goal may *)
(* or may not beat the current one by the deadband, the planner may fail or   *)
(* find any plan of PlansOf, and the object bound may be any known one of the *)
(* kind (the nearest depends on positions).  Travel may end at any tick up to *)
(* its cap.  FailStreak is cut off at ApathyFailStreak, the only value it is  *)
(* compared with, and the list of latent goals is kept as a set.  Held Values *)
(* are nil in every world the program starts, so collective goals are left    *)
(* out, and so are signals, which Society models.                            *)
(***************************************************************************)
EXTENDS Naturals, Sequences, FiniteSets

CONSTANTS
  Agents,        \* agent IDs; < is their (lexical) order
  Dims,          \* the need dimensions; < is their (lexical) order
  Registries,    \* the needs registries a world may be given: subsets of Dims
  SafetyDim,     \* Config.SafetyDim
  None,
  Objects, Kind, \* the objects of the world, and Kind[o]
  Acts,          \* the action catalogue, and of each action:
  TargetKind,    \*   the kind of object it works on, or None
  Travels,       \*   the locomotion actions
  Hostile,       \*   those whose tags ThreatTags names
  Duration,      \*   its duration in ticks (for a journey, its cap)
  Difficulty,    \*   the level of its stats it needs, 0 if it uses none
  PlansOf,       \* the plans the planner may find for a dimension
  Level,         \* Level[a][x]: the real level of agent a in the stats of action x
  Clever,        \* the agents whose perceived intelligence allows rebinding
  ApathyFailStreak

VARIABLES
  dims,      \* the needs registry of this world
  minds,     \* of each agent: goal, plan, at (PlanIdx + 1), elapsed, coping, streak, latent
  triggers,  \* World.resentmentTriggers: who beat each agent to an object last tick
  grudges,   \* of each agent: those towards whom affinity was dropped (accrueResentment)
  shown,     \* the snapshot's frozenActionTags, as the agents whose action looks hostile
  phase,     \* plan or apply
  todo,      \* the agents this phase has still to visit
  intents,   \* the intent collected from each agent, None if there is none
  planFor,   \* history: the dimension the agent's last plan was built for
  asked,     \* history: the agents that called the planner this tick
  used       \* history: <<agent, object>> of the intents applied, not interrupted, this tick

vars == <<dims, minds, triggers, grudges, shown, phase, todo, intents, planFor, asked, used>>

Modes == {"Idle", "Rebinding", "Longing", "Latent", "Apathy"}

ASSUME VillageAssumption ==
  /\ Agents \subseteq Nat /\ IsFiniteSet(Agents) /\ Dims \subseteq Nat /\ SafetyDim \in Dims
  /\ Registries \subseteq {R \in SUBSET Dims : SafetyDim \in R /\ IsFiniteSet(R)}
  /\ None \notin Dims \cup Objects \cup Agents
  /\ None \notin [act : Acts, target : Objects \cup {None}]
  /\ PlansOf \in [Dims -> SUBSET (Seq(Acts) \ {<<>>})]
  /\ TargetKind \in [Acts -> {Kind[o] : o \in Objects} \cup {None}]
  /\ Travels \subseteq Acts /\ Hostile \subseteq Acts
  /\ Duration \in [Acts -> Nat] /\ Difficulty \in [Acts -> Nat]
  /\ Level \in [Agents -> [Acts -> Nat]]
  /\ Clever \subseteq Agents /\ ApathyFailStreak \in Nat \ {0}

First(S) == CHOOSE i \in S : \A j \in S : i <= j
HasSteps(m) == m.at <= Len(m.plan)
Current(m) == m.plan[m.at]

-----------------------------------------------------------------------------
(* Goals.                                                                    *)

\* appraise: the dimensions by priority, any order of them.
Orders == {s \in [1..Cardinality(dims) -> dims] : \A i, j \in DOMAIN s : s[i] = s[j] => i = j}

ClearGoal(m) == [m EXCEPT !.goal = None, !.plan = <<>>, !.at = 1, !.elapsed = 0]

\* mediateGoal: the top dimension takes over an empty goal, or beats the current one.
MediateGoal(m, order, beats) ==
  IF m.goal = None \/ beats THEN order[1] ELSE m.goal

-----------------------------------------------------------------------------
(* The coping cascade.                                                       *)

PushLatent(m, mode) == [ClearGoal(m) EXCEPT !.coping = mode, !.latent = @ \cup {m.goal}]

EnterApathy(m) == [ClearGoal(m) EXCEPT !.coping = "Apathy", !.latent = {}]

\* From Latent, the step to Apathy waits for the streak.
Brood(m) == IF m.streak >= ApathyFailStreak THEN EnterApathy(m) ELSE m

CanRebind(m, order) == Len(order) >= 2 /\ (order[2] # m.goal \/ Len(order) >= 3)

\* The second choice replaces goal and plan; the third, when the second is the goal
\* that just failed, replaces the goal alone.
Rebind_KeepsPlan(m, order) ==
  LET r == [m EXCEPT !.coping = "Idle", !.streak = 0] IN
  IF order[2] = m.goal THEN [r EXCEPT !.goal = order[3]] ELSE [r EXCEPT !.goal = order[2]]
Rebind(m, order) ==
  LET r == [m EXCEPT !.coping = "Idle", !.streak = 0] IN
  IF order[2] = m.goal THEN [r EXCEPT !.goal = order[3]]
  ELSE [r EXCEPT !.goal = order[2], !.plan = <<>>, !.at = 1, !.elapsed = 0]

EnterCopingCascade(a, mind, order) ==
  LET m == [mind EXCEPT !.streak = IF @ < ApathyFailStreak THEN @ + 1 ELSE @] IN
  CASE m.coping = "Apathy" -> m
    [] m.coping = "Latent" -> Brood(m)
    [] m.coping = "Longing" /\ a \in Clever -> [m EXCEPT !.coping = "Latent"]
    [] m.coping = "Rebinding" /\ a \in Clever -> PushLatent(m, "Longing")
    [] m.coping = "Idle" /\ a \in Clever /\ CanRebind(m, order) -> Rebind(m, order)
    [] m.coping = "Idle" /\ a \in Clever /\ ~CanRebind(m, order) -> PushLatent(m, "Longing")
    [] OTHER -> PushLatent(m, "Latent")

-----------------------------------------------------------------------------
(* Plan: Agent.Tick over the frozen snapshot.                                *)

NeedsReplan_Unspent(m, goalChanged) == goalChanged \/ m.plan = <<>>
NeedsReplan(m, goalChanged) == goalChanged \/ ~HasSteps(m)

NewPlan(m, plan) ==
  [m EXCEPT !.plan = plan, !.at = 1, !.elapsed = 0, !.coping = "Idle", !.streak = 0]

\* bindTarget: an object of the action's kind, none if the action or the world has none.
BindTargets(act) ==
  LET known == {o \in Objects : Kind[o] = TargetKind[act]} IN
  IF TargetKind[act] = None \/ known = {} THEN {None} ELSE known

\* accrueResentment: only a Latent agent acts on its triggers.
Accrue(m, a) == IF m.coping = "Latent" THEN grudges[a] \cup triggers[a] ELSE grudges[a]

\* A threat is another agent, in sight, whose frozen action looks hostile.
Threats(a) == IF shown \ {a} = {} THEN {FALSE} ELSE BOOLEAN

\* What the agent pursues after perceiving and mediating: a threat empties the plan and
\* forces the safety dimension, whatever was mediated.
Aim(a, order, beats, threat) ==
  LET seen == IF threat THEN [minds[a] EXCEPT !.plan = <<>>] ELSE minds[a]
      mediated == MediateGoal(seen, order, beats)
      goal == IF threat THEN SafetyDim ELSE mediated
      m == [seen EXCEPT !.goal = goal]
  IN [mind |-> m, replan |-> NeedsReplan(m, mediated # seen.goal \/ goal # mediated)]

\* execute, and the resentment of the plan phase.
Propose(a, m) ==
  /\ IF HasSteps(m)
     THEN \E target \in BindTargets(Current(m)) :
            intents' = [intents EXCEPT ![a] = [act |-> Current(m), target |-> target]]
     ELSE UNCHANGED intents
  /\ minds' = [minds EXCEPT ![a] = IF HasSteps(m) THEN [m EXCEPT !.elapsed = @ + 1] ELSE m]
  /\ grudges' = [grudges EXCEPT ![a] = Accrue(m, a)]
  /\ todo' = todo \ {a}
  /\ UNCHANGED <<dims, triggers, shown, phase, used>>

KeepOn(a, aim) ==
  /\ ~aim.replan
  /\ Propose(a, aim.mind)
  /\ UNCHANGED <<planFor, asked>>

\* The planner found a plan, or failed and the agent copes.
Replan(a, aim) ==
  /\ aim.replan
  /\ asked' = asked \cup {a}
  /\ \E plan \in PlansOf[aim.mind.goal] : Propose(a, NewPlan(aim.mind, plan))
  /\ planFor' = [planFor EXCEPT ![a] = aim.mind.goal]

Cope(a, aim, order) ==
  /\ aim.replan
  /\ asked' = asked \cup {a}
  /\ Propose(a, EnterCopingCascade(a, aim.mind, order))
  /\ UNCHANGED planFor

AgentTick(a) ==
  /\ phase = "plan" /\ a \in todo
  /\ \E order \in Orders, beats \in BOOLEAN, threat \in Threats(a) :
       LET aim == Aim(a, order, beats, threat) IN
       \/ KeepOn(a, aim)
       \/ Replan(a, aim)
       \/ Cope(a, aim, order)

-----------------------------------------------------------------------------
(* Apply: contests and outcomes.                                             *)

Proposed == {a \in Agents : intents[a] # None}

\* buildConflictGroups: the agents whose intents name the object.  A world with animals applies
\* both kinds together (applyCombinedIntents), by the same rule over the stats of both; but what
\* an animal targets is an animal (combatTarget) and what an agent binds is a world object it
\* knows (bindTarget), so that no animal is among them.
Contenders(o) == {a \in Proposed : intents[a].target = o}

\* conflictWinnerIdx: the highest real stat, the lower ID on a tie.
Winner(o) ==
  CHOOSE a \in Contenders(o) : \A b \in Contenders(o) \ {a} :
    LET la == Level[a][intents[a].act]
        lb == Level[b][intents[b].act]
    IN la > lb \/ (la = lb /\ a < b)

IsConflictLoser_Better(a) ==
  /\ intents[a].target # None
  /\ LET w == Winner(intents[a].target) IN Level[w][intents[w].act] > Level[a][intents[a].act]
IsConflictLoser(a) == intents[a].target # None /\ Winner(intents[a].target) # a

\* resolveOutcome: without a conflict, success and completion are separate verdicts.
Succeeds(a) == LET act == intents[a].act IN Difficulty[act] = 0 \/ Level[a][act] >= Difficulty[act]
Completions(a) ==
  LET act == intents[a].act
      due == minds[a].elapsed >= Duration[act]
  IN IF act \in Travels THEN {TRUE, due} ELSE {due}

\* Agent.ApplyOutcome.
ApplyOutcome(m, interrupted, succeeded, completed) ==
  LET moved == IF completed \/ interrupted THEN [m EXCEPT !.at = @ + 1, !.elapsed = 0] ELSE m
      eased == IF succeeded /\ completed
               THEN [moved EXCEPT !.streak = 0, !.coping = IF @ = "Apathy" THEN "Idle" ELSE @]
               ELSE moved
  IN IF completed /\ ~HasSteps(moved) THEN [ClearGoal(eased) EXCEPT !.coping = "Idle"] ELSE eased

Resolve(a) ==
  /\ phase = "apply" /\ todo # {} /\ a = First(todo)
  /\ todo' = todo \ {a}
  /\ IF intents[a] = None THEN UNCHANGED <<minds, used>>
     ELSE IF IsConflictLoser(a)
     THEN /\ minds' = [minds EXCEPT ![a] = ApplyOutcome(@, TRUE, FALSE, FALSE)]
          /\ UNCHANGED used
     ELSE /\ \E completed \in Completions(a) :
               minds' = [minds EXCEPT ![a] = ApplyOutcome(@, FALSE, Succeeds(a), completed)]
          /\ used' = used \cup {<<a, intents[a].target>>}
  /\ UNCHANGED <<dims, triggers, grudges, shown, phase, intents, planFor, asked>>

-----------------------------------------------------------------------------
(* The tick.                                                                 *)

StartApply ==
  /\ phase = "plan" /\ todo = {}
  /\ phase' = "apply" /\ todo' = Agents
  /\ UNCHANGED <<dims, minds, triggers, grudges, shown, intents, planFor, asked, used>>

\* finishApplyPhase regroups the intents for the triggers; the next read phase freezes
\* what every agent is seen doing.
ConflictTriggers ==
  [a \in Agents |-> IF intents[a] # None /\ IsConflictLoser(a) THEN {Winner(intents[a].target)} ELSE {}]
Looks == {a \in Agents : HasSteps(minds[a]) /\ Current(minds[a]) \in Hostile}

EndTick ==
  /\ phase = "apply" /\ todo = {}
  /\ triggers' = ConflictTriggers
  /\ shown' = Looks
  /\ phase' = "plan" /\ todo' = Agents
  /\ intents' = [a \in Agents |-> None]
  /\ asked' = {} /\ used' = {}
  /\ UNCHANGED <<dims, minds, grudges, planFor>>

NewMind == [goal |-> None, plan |-> <<>>, at |-> 1, elapsed |-> 0,
            coping |-> "Idle", streak |-> 0, latent |-> {}]

Init ==
  /\ dims \in Registries
  /\ minds = [a \in Agents |-> NewMind]
  /\ triggers = [a \in Agents |-> {}] /\ grudges = [a \in Agents |-> {}]
  /\ shown = {} /\ phase = "plan" /\ todo = Agents
  /\ intents = [a \in Agents |-> None]
  /\ planFor = [a \in Agents |-> None]
  /\ asked = {} /\ used = {}

Next == StartApply \/ EndTick \/ \E a \in Agents : AgentTick(a) \/ Resolve(a)

Spec == Init /\ [][Next]_vars

-----------------------------------------------------------------------------
(* Properties.                                                               *)

Mind ==
  [goal : Dims \cup {None}, plan : Seq(Acts), at : Nat \ {0}, elapsed : Nat,
   coping : Modes, streak : 0..ApathyFailStreak, latent : SUBSET Dims]

\* The shape of the village's state.
TypeOK ==
  /\ dims \in Registries
  /\ minds \in [Agents -> Mind]
  /\ triggers \in [Agents -> SUBSET Agents] /\ grudges \in [Agents -> SUBSET Agents]
  /\ shown \subseteq Agents /\ phase \in {"plan", "apply"} /\ todo \subseteq Agents
  /\ intents \in [Agents -> {None} \cup [act : Acts, target : Objects \cup {None}]]
  /\ planFor \in [Agents -> Dims \cup {None}]
  /\ asked \subseteq Agents /\ used \subseteq Agents \X (Objects \cup {None})

\* A step an agent has still to take belongs to a plan made for the goal it now pursues,
\* and an agent with steps left is not coping with a failure: whatever threat, change of
\* goal, substitution or lost contest came in between (mediateGoal and rebindSubstitute
\* replace a goal without looking at the plan; ApplyOutcome's recovery from Apathy is
\* therefore never needed).
PlanServesGoal ==
  \A a \in Agents :
    HasSteps(minds[a]) => minds[a].goal = planFor[a] /\ minds[a].coping = "Idle"

\* No agent freezes: by the end of the plan phase each has proposed an intent or has just
\* called the planner, even when its plan's last step was interrupted
\* (needsReplan: "the village-wide stasis seen under resource contention").
NoStasis ==
  phase = "apply" => \A a \in Agents : intents[a] # None \/ a \in asked

\* An object serves one agent a tick, and the loser's trigger, regrouped after every
\* outcome was applied, names that agent: an agent blames exactly who took what it wanted.
BlameIsFair ==
  /\ \A u, v \in used : u[2] = v[2] /\ u[2] # None => u = v
  /\ phase = "apply" /\ todo = {} =>
       \A a \in Agents : intents[a] # None =>
         LET o == intents[a].target IN
         \/ <<a, o>> \in used /\ ConflictTriggers[a] = {}
         \/ o # None /\ \E b \in Agents : <<b, o>> \in used /\ ConflictTriggers[a] = {b}
=============================================================================
