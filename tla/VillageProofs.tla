---------------------------- MODULE VillageProofs ----------------------------
(***************************************************************************)
(* Proofs about the villagers' decision loop, for every village: any number of *)
(* agents, any catalogue, any needs registry and any plans the planner finds.   *)
(* The order of the appraisal, threats, contests and travel times are whatever   *)
(* they may be.                                                              *)
(***************************************************************************)
EXTENDS Village, FiniteOrders

-----------------------------------------------------------------------------
(* The mind's transitions, one at a time.                                    *)

\* An order ranks at least one dimension, and what it ranks are dimensions.
LEMMA OrderFacts ==
  ASSUME dims \in Registries, NEW order \in Orders
  PROVE  /\ DOMAIN order = 1..Cardinality(dims) /\ Cardinality(dims) \in Nat \ {0}
         /\ \A i \in DOMAIN order : order[i] \in Dims
         /\ Len(order) = Cardinality(dims)
         /\ \A i, j \in DOMAIN order : order[i] = order[j] => i = j
<1>1. IsFiniteSet(dims) /\ SafetyDim \in dims /\ dims \subseteq Dims
  BY VillageAssumption DEF VillageAssumption
<1>2. Cardinality(dims) \in Nat
  BY <1>1, FS_CardinalityType
<1>3. Cardinality(dims) # 0
  BY <1>1, FS_EmptySet
<1>4. order \in [1..Cardinality(dims) -> dims]
  BY DEF Orders
<1>5. Len(order) = Cardinality(dims)
  BY <1>2, <1>4
<1> QED
  BY <1>1, <1>2, <1>3, <1>4, <1>5 DEF Orders

\* A mind with one field changed is a mind.
LEMMA OneField ==
  ASSUME NEW m \in Mind, NEW g \in Dims \cup {None}, NEW p \in Seq(Acts), NEW i \in Nat \ {0},
         NEW e \in Nat, NEW c \in Modes, NEW s \in 0..ApathyFailStreak, NEW l \in SUBSET Dims
  PROVE  /\ [m EXCEPT !.goal = g] \in Mind /\ [m EXCEPT !.plan = p] \in Mind
         /\ [m EXCEPT !.at = i] \in Mind /\ [m EXCEPT !.elapsed = e] \in Mind
         /\ [m EXCEPT !.coping = c] \in Mind /\ [m EXCEPT !.streak = s] \in Mind
         /\ [m EXCEPT !.latent = l] \in Mind
<1> HIDE DEF Modes
<1> QED
  BY DEF Mind

LEMMA Samples ==
  /\ None \in Dims \cup {None} /\ <<>> \in Seq(Acts) /\ Len(<<>>) = 0 /\ 1 \in Nat \ {0} /\ 0 \in Nat
  /\ "Idle" \in Modes /\ "Longing" \in Modes /\ "Latent" \in Modes /\ "Apathy" \in Modes
  /\ 0 \in 0..ApathyFailStreak /\ {} \in SUBSET Dims
BY VillageAssumption DEF VillageAssumption, Modes

\* Starting a plan afresh: the three fields that go together.
LEMMA FreshPlan ==
  ASSUME NEW m \in Mind, NEW p \in Seq(Acts)
  PROVE  [m EXCEPT !.plan = p, !.at = 1, !.elapsed = 0] \in Mind
<1> DEFINE m1 == [m EXCEPT !.plan = p]
           m2 == [m1 EXCEPT !.at = 1]
           m3 == [m2 EXCEPT !.elapsed = 0]
<1>1. m1 \in Mind
  BY OneField, Samples
<1>2. m2 \in Mind
  BY <1>1, OneField, Samples
<1>3. m3 \in Mind
  BY <1>2, OneField, Samples, ZenonT(30)
<1> QED
  BY <1>3

\* Clearing the goal, and giving up on it, leave a mind without steps.
LEMMA ClearGoalFacts ==
  ASSUME NEW m \in Mind
  PROVE  /\ ClearGoal(m) \in Mind /\ ~HasSteps(ClearGoal(m))
         /\ ClearGoal(m).plan = <<>> /\ ClearGoal(m).at = 1
<1> DEFINE m1 == [m EXCEPT !.goal = None]
           m2 == [m1 EXCEPT !.plan = <<>>, !.at = 1, !.elapsed = 0]
<1>1. m1 \in Mind
  BY OneField, Samples
<1>2. m2 \in Mind
  BY <1>1, FreshPlan, Samples
<1>3. ClearGoal(m) = m2
  BY DEF ClearGoal
<1>4. ClearGoal(m).plan = <<>> /\ ClearGoal(m).at = 1
  BY DEF ClearGoal, Mind
<1> QED
  BY <1>2, <1>3, <1>4, Samples DEF HasSteps

LEMMA PushLatentFacts ==
  ASSUME NEW m \in Mind, m.goal \in Dims, NEW mode \in Modes
  PROVE  PushLatent(m, mode) \in Mind /\ ~HasSteps(PushLatent(m, mode))
<1> DEFINE c == ClearGoal(m)
           m1 == [c EXCEPT !.coping = mode]
           l == m1.latent \cup {m.goal}
           m2 == [m1 EXCEPT !.latent = l]
<1>1. c \in Mind /\ c.plan = <<>> /\ c.at = 1
  BY ClearGoalFacts
<1> HIDE DEF c
<1>2. m1 \in Mind
  BY <1>1, OneField, Samples, ZenonT(30)
<1>3. l \in SUBSET Dims
  BY <1>2 DEF Mind
<1>4. m2 \in Mind
  <2> HIDE DEF l, m1
  <2> QED
    BY <1>2, <1>3, OneField, Samples
<1>5. PushLatent(m, mode) = m2
  BY DEF PushLatent, c
<1>6. m2.plan = <<>> /\ m2.at = 1
  BY <1>1 DEF Mind
<1> QED
  BY <1>4, <1>5, <1>6, Samples DEF HasSteps

LEMMA EnterApathyFacts ==
  ASSUME NEW m \in Mind
  PROVE  EnterApathy(m) \in Mind /\ ~HasSteps(EnterApathy(m))
<1> DEFINE c == ClearGoal(m)
           m1 == [c EXCEPT !.coping = "Apathy"]
           m2 == [m1 EXCEPT !.latent = {}]
<1>1. c \in Mind /\ c.plan = <<>> /\ c.at = 1
  BY ClearGoalFacts
<1> HIDE DEF c
<1>2. m1 \in Mind
  BY <1>1, OneField, Samples, ZenonT(30)
<1>3. m2 \in Mind
  BY <1>2, OneField, Samples, ZenonT(30)
<1>4. EnterApathy(m) = m2
  BY DEF EnterApathy, c
<1>5. m2.plan = <<>> /\ m2.at = 1
  BY <1>1 DEF Mind
<1> QED
  BY <1>3, <1>4, <1>5, Samples DEF HasSteps

\* The second choice: the third branch keeps the plan, and then has the third goal.
LEMMA RebindFacts ==
  ASSUME dims \in Registries, NEW order \in Orders, NEW m \in Mind, CanRebind(m, order)
  PROVE  /\ Rebind(m, order) \in Mind
         /\ HasSteps(Rebind(m, order)) => HasSteps(m) /\ order[2] = m.goal
<1> DEFINE i == [m EXCEPT !.coping = "Idle"]
           r == [i EXCEPT !.streak = 0]
<1>1. /\ order[2] \in Dims /\ (order[2] = m.goal => order[3] \in Dims)
  BY OrderFacts DEF CanRebind
<1>2. i \in Mind
  BY OneField, Samples
<1>3. r \in Mind /\ r.plan = m.plan /\ r.at = m.at
  <2>1. r \in Mind
    BY <1>2, OneField, Samples, ZenonT(30)
  <2>2. r.plan = m.plan /\ r.at = m.at
    BY DEF Mind
  <2> QED
    BY <2>1, <2>2
<1>4. CASE order[2] = m.goal
  <2> DEFINE n == [r EXCEPT !.goal = order[3]]
  <2>1. Rebind(m, order) = n
    BY <1>4 DEF Rebind
  <2>2. n \in Mind
    BY <1>1, <1>3, <1>4, OneField, Samples, ZenonT(30)
  <2>3. n.plan = m.plan /\ n.at = m.at
    BY <1>3 DEF Mind
  <2> QED
    BY <2>1, <2>2, <2>3, <1>4 DEF HasSteps
<1>5. CASE order[2] # m.goal
  <2> DEFINE g == [r EXCEPT !.goal = order[2]]
             n == [g EXCEPT !.plan = <<>>, !.at = 1, !.elapsed = 0]
  <2>1. Rebind(m, order) = n
    BY <1>5 DEF Rebind
  <2>2. g \in Mind
    BY <1>1, <1>3, OneField, Samples, ZenonT(30)
  <2>3. n \in Mind
    BY <2>2, FreshPlan, Samples
  <2>4. n.plan = <<>> /\ n.at = 1
    BY <2>2 DEF Mind
  <2> QED
    BY <2>1, <2>3, <2>4, Samples DEF HasSteps
<1> QED
  BY <1>4, <1>5

\* The cascade leaves no steps behind for any other goal: it keeps the plan only where it
\* kept the goal, the mode it already had, or took the third choice.
LEMMA CascadeFacts ==
  ASSUME dims \in Registries, NEW order \in Orders, NEW m \in Mind, m.goal \in Dims, NEW a
  PROVE  /\ EnterCopingCascade(a, m, order) \in Mind
         /\ HasSteps(EnterCopingCascade(a, m, order)) =>
              HasSteps(m) /\ (m.coping = "Idle" => order[2] = m.goal /\ DOMAIN order # {1})
<1> DEFINE n == [m EXCEPT !.streak = IF @ < ApathyFailStreak THEN @ + 1 ELSE @]
           c == EnterCopingCascade(a, m, order)
<1>1. n \in Mind /\ n.goal = m.goal /\ n.plan = m.plan /\ n.at = m.at /\ n.coping = m.coping
  <2> DEFINE t == IF m.streak < ApathyFailStreak THEN m.streak + 1 ELSE m.streak
  <2>1. t \in 0..ApathyFailStreak
    BY VillageAssumption DEF VillageAssumption, Mind
  <2> HIDE DEF t
  <2>2. [m EXCEPT !.streak = t] \in Mind
    BY <2>1, OneField, Samples
  <2>3. n = [m EXCEPT !.streak = t]
    BY DEF t
  <2>4. n.goal = m.goal /\ n.plan = m.plan /\ n.at = m.at /\ n.coping = m.coping
    BY DEF Mind
  <2> QED
    BY <2>2, <2>3, <2>4
<1>2. HasSteps(n) <=> HasSteps(m)
  BY <1>1 DEF HasSteps
<1>3. CanRebind(n, order) => 2 \in DOMAIN order
  BY OrderFacts DEF CanRebind
<1>4. n.coping \in Modes
  BY <1>1 DEF Mind
<1> HIDE DEF n
<1>5. CASE n.coping = "Apathy"
  <2>1. c = n
    BY <1>5 DEF EnterCopingCascade, n
  <2> QED
    BY <2>1, <1>1, <1>2, <1>5
<1>6. CASE n.coping = "Latent"
  <2>1. c = Brood(n)
    BY <1>6 DEF EnterCopingCascade, n
  <2>2. c = n \/ c = EnterApathy(n)
    BY <2>1 DEF Brood
  <2> QED
    BY <2>2, <1>1, <1>2, <1>6, EnterApathyFacts
<1>7. CASE n.coping = "Longing" /\ a \in Clever
  <2>1. c = [n EXCEPT !.coping = "Latent"]
    BY <1>7 DEF EnterCopingCascade, n
  <2>2. c \in Mind /\ (HasSteps(c) <=> HasSteps(n))
    BY <2>1, <1>1 DEF Mind, Modes, HasSteps
  <2> QED
    BY <2>2, <1>1, <1>2, <1>7
<1>8. CASE n.coping = "Idle" /\ a \in Clever /\ CanRebind(n, order)
  <2>1. c = Rebind(n, order)
    BY <1>8 DEF EnterCopingCascade, n
  <2> QED
    BY <2>1, <1>1, <1>2, <1>3, <1>8, RebindFacts
<1>9. CASE \/ n.coping = "Rebinding"
           \/ n.coping = "Idle" /\ ~(a \in Clever /\ CanRebind(n, order))
           \/ n.coping = "Longing" /\ a \notin Clever
  <2>1. c = PushLatent(n, "Longing") \/ c = PushLatent(n, "Latent")
    BY <1>9 DEF EnterCopingCascade, n
  <2> QED
    BY <2>1, <1>1, PushLatentFacts DEF Modes
<1> QED
  BY <1>4, <1>5, <1>6, <1>7, <1>8, <1>9 DEF Modes

-----------------------------------------------------------------------------
(* Planning.                                                                 *)

NewPlanIsMind ==
  \A m \in Mind, plan \in Seq(Acts) :
    /\ NewPlan(m, plan) \in Mind
    /\ NewPlan(m, plan).goal = m.goal /\ NewPlan(m, plan).coping = "Idle"

LEMMA NewPlanFacts == NewPlanIsMind
<1> SUFFICES ASSUME NEW m \in Mind, NEW plan \in Seq(Acts)
             PROVE  /\ NewPlan(m, plan) \in Mind
                    /\ NewPlan(m, plan).goal = m.goal /\ NewPlan(m, plan).coping = "Idle"
  BY DEF NewPlanIsMind
<1> DEFINE m1 == [m EXCEPT !.plan = plan, !.at = 1, !.elapsed = 0]
           m2 == [m1 EXCEPT !.coping = "Idle"]
           m3 == [m2 EXCEPT !.streak = 0]
<1>1. m1 \in Mind
  BY FreshPlan
<1>2. m2 \in Mind
  <2> HIDE DEF m1
  <2>1. [m1 EXCEPT !.coping = "Idle"] \in Mind
    BY <1>1, OneField, Samples
  <2> QED
    BY <2>1
<1>3. m3 \in Mind
  <2> HIDE DEF m1, m2
  <2>1. [m2 EXCEPT !.streak = 0] \in Mind
    BY <1>2, OneField, Samples, ZenonT(30)
  <2> QED
    BY <2>1
<1>4. NewPlan(m, plan) = m3
  BY DEF NewPlan
<1>5. m3.goal = m.goal /\ m3.coping = "Idle"
  BY DEF Mind
<1> QED
  BY <1>3, <1>4, <1>5

\* What an agent aims at is a dimension.  If it carries on, it has steps and its goal and
\* plan are untouched; if it has steps and plans anew, the goal it turned to is the first choice.
LEMMA AimFacts ==
  ASSUME TypeOK, NEW a \in Agents, NEW order \in Orders, NEW beats \in BOOLEAN, NEW threat \in BOOLEAN
  PROVE  LET aim == Aim(a, order, beats, threat)
             m == aim.mind
         IN /\ m \in Mind /\ m.goal \in Dims /\ m.coping = minds[a].coping
            /\ ~aim.replan => HasSteps(m) /\ HasSteps(minds[a]) /\ m.goal = minds[a].goal
            /\ HasSteps(m) => HasSteps(minds[a])
            /\ aim.replan /\ HasSteps(m) => m.goal = order[1]
<1> DEFINE seen == IF threat THEN [minds[a] EXCEPT !.plan = <<>>] ELSE minds[a]
           mediated == MediateGoal(seen, order, beats)
           goal == IF threat THEN SafetyDim ELSE mediated
           m == [seen EXCEPT !.goal = goal]
           aim == Aim(a, order, beats, threat)
<1>1. minds[a] \in Mind /\ dims \in Registries
  BY DEF TypeOK
<1>2. seen \in Mind
  BY <1>1, OneField, Samples
<1>3. /\ seen.goal = minds[a].goal /\ seen.coping = minds[a].coping /\ seen.at = minds[a].at
      /\ seen.plan = IF threat THEN <<>> ELSE minds[a].plan
  BY <1>1 DEF Mind
<1> HIDE DEF seen
<1>4. order[1] \in Dims /\ SafetyDim \in Dims
  BY <1>1, OrderFacts, VillageAssumption DEF VillageAssumption
<1>5. /\ mediated \in Dims
      /\ mediated # seen.goal => mediated = order[1]
  BY <1>2, <1>4 DEF MediateGoal, Mind
<1> HIDE DEF mediated
<1>6. goal \in Dims
  BY <1>4, <1>5
<1>7. m \in Mind
  <2> HIDE DEF goal
  <2>1. goal \in Dims \cup {None}
    BY <1>6
  <2>2. [seen EXCEPT !.goal = goal] \in Mind
    BY <1>2, <2>1, OneField, Samples, ZenonT(30)
  <2> QED
    BY <2>2
<1>8. m.goal = goal /\ m.coping = seen.coping /\ m.plan = seen.plan /\ m.at = seen.at
  BY <1>2 DEF Mind
<1>9. aim.mind = m /\ aim.replan = NeedsReplan(m, mediated # seen.goal \/ goal # mediated)
  BY DEF Aim, seen, mediated
<1> HIDE DEF aim, m
<1>10. aim.replan <=> mediated # seen.goal \/ goal # mediated \/ ~HasSteps(m)
  BY <1>9 DEF NeedsReplan
<1>11. HasSteps(m) => ~threat /\ HasSteps(minds[a])
  BY <1>3, <1>7, <1>8, Samples DEF HasSteps, Mind
<1>12. HasSteps(m) /\ aim.replan => m.goal = order[1]
  BY <1>5, <1>8, <1>10, <1>11
<1>13. ~aim.replan => HasSteps(m) /\ m.goal = minds[a].goal
  BY <1>3, <1>8, <1>10
<1> QED
  BY <1>3, <1>6, <1>7, <1>8, <1>9, <1>11, <1>12, <1>13 DEF aim

-----------------------------------------------------------------------------
(* The winner of a contest.                                                  *)

\* Of the agents that name an object one wins, and it is one of them.
LEMMA WinnerContends ==
  ASSUME TypeOK, NEW o, Contenders(o) # {}
  PROVE  Winner(o) \in Contenders(o)
<1> DEFINE C == Contenders(o)
           lv == [c \in C |-> Level[c][intents[c].act]]
<1>1. C \subseteq Agents /\ IsFiniteSet(C) /\ C \subseteq Nat
  <2>1. C \subseteq Agents
    BY DEF Contenders, Proposed
  <2>2. IsFiniteSet(Agents) /\ Agents \subseteq Nat
    BY VillageAssumption DEF VillageAssumption
  <2> QED
    BY <2>1, <2>2, FS_Subset
<1>2. ASSUME NEW c \in C PROVE Level[c][intents[c].act] \in Nat
  <2>1. intents[c] \in [act : Acts, target : Objects \cup {None}]
    BY <1>1 DEF TypeOK, Contenders, Proposed
  <2> QED
    BY <1>1, <2>1, VillageAssumption DEF VillageAssumption
<1>3. lv \in [C -> Nat]
  BY <1>2
<1> HIDE DEF lv
<1>4. PICK a \in C : \A b \in C \ {a} : lv[a] > lv[b] \/ (lv[a] = lv[b] /\ a < b)
  BY <1>1, <1>3, BestExists
<1>5. \A b \in C \ {a} : \/ Level[a][intents[a].act] > Level[b][intents[b].act]
                         \/ Level[a][intents[a].act] = Level[b][intents[b].act] /\ a < b
  BY <1>4 DEF lv
<1> QED
  BY <1>5 DEF Winner

-----------------------------------------------------------------------------
(* The inductive invariant.                                                  *)

\* What a tick leaves behind: whoever has had its turn proposed something or asked the
\* planner, and what an object was used for is what its winner proposed.
Accounted ==
  /\ \A a \in Agents : phase = "apply" \/ a \notin todo => intents[a] # None \/ a \in asked
  /\ phase = "plan" => used = {}
  /\ \A u \in used : /\ intents[u[1]] # None /\ u[2] = intents[u[1]].target
                     /\ u[2] # None => u[1] = Winner(u[2])
  /\ phase = "apply" =>
       \A a \in Agents \ todo :
         intents[a] # None /\ ~IsConflictLoser(a) => <<a, intents[a].target>> \in used

VillageInv == TypeOK /\ PlanServesGoal /\ Accounted

LEMMA InitInv == Init => VillageInv
<1> SUFFICES ASSUME Init PROVE VillageInv
  OBVIOUS
<1>1. NewMind \in Mind
  BY Samples DEF NewMind, Mind
<1>2. ~HasSteps(NewMind)
  BY Samples DEF NewMind, HasSteps
<1>3. TypeOK
  BY <1>1 DEF Init, TypeOK
<1>4. PlanServesGoal
  BY <1>2 DEF Init, PlanServesGoal
<1>5. Accounted
  BY DEF Init, Accounted
<1> QED
  BY <1>3, <1>4, <1>5 DEF VillageInv

\* What every turn of the plan phase leaves: n is what the agent's mind has become, and the
\* plan it follows, if any, is the one it is said to follow.
LEMMA ProposeInv ==
  ASSUME VillageInv, phase = "plan", NEW a \in Agents, a \in todo, NEW n \in Mind, Propose(a, n),
         planFor' \in [Agents -> Dims \cup {None}], asked' \in SUBSET Agents, asked \subseteq asked',
         \A b \in Agents \ {a} : planFor'[b] = planFor[b],
         HasSteps(n) => n.goal = planFor'[a] /\ n.coping = "Idle",
         HasSteps(n) \/ a \in asked'
  PROVE  VillageInv'
<1> DEFINE stepped == IF HasSteps(n) THEN [n EXCEPT !.elapsed = @ + 1] ELSE n
<1>1. TypeOK /\ PlanServesGoal /\ Accounted
  BY DEF VillageInv
<1>2. stepped \in Mind /\ stepped.goal = n.goal /\ stepped.plan = n.plan /\ stepped.at = n.at
      /\ stepped.coping = n.coping
  <2> DEFINE e == n.elapsed + 1
  <2>1. e \in Nat
    BY DEF Mind
  <2>2. [n EXCEPT !.elapsed = e] \in Mind
    <3> HIDE DEF e
    <3> QED
      BY <2>1, OneField, Samples, ZenonT(30)
  <2>3. stepped = IF HasSteps(n) THEN [n EXCEPT !.elapsed = e] ELSE n
    OBVIOUS
  <2>4. /\ [n EXCEPT !.elapsed = e].goal = n.goal /\ [n EXCEPT !.elapsed = e].plan = n.plan
        /\ [n EXCEPT !.elapsed = e].at = n.at /\ [n EXCEPT !.elapsed = e].coping = n.coping
    BY DEF Mind
  <2> QED
    BY <2>2, <2>3, <2>4
<1>3. minds' = [minds EXCEPT ![a] = stepped]
  BY DEF Propose
<1> HIDE DEF stepped
<1>4. minds' \in [Agents -> Mind]
  BY <1>1, <1>2, <1>3 DEF TypeOK
<1>5. /\ intents' \in [Agents -> {None} \cup [act : Acts, target : Objects \cup {None}]]
      /\ \A b \in Agents \ {a} : intents'[b] = intents[b]
      /\ HasSteps(n) => intents'[a] # None
  <2>1. CASE HasSteps(n)
    <3>1. n.at \in 1..Len(n.plan) /\ n.plan \in Seq(Acts)
      BY <2>1 DEF HasSteps, Mind
    <3>2. Current(n) \in Acts
      BY <3>1 DEF Current
    <3>3. PICK target \in BindTargets(Current(n)) :
            intents' = [intents EXCEPT ![a] = [act |-> Current(n), target |-> target]]
      BY <2>1 DEF Propose
    <3>4. target \in Objects \cup {None}
      BY <3>3 DEF BindTargets
    <3>5. [act |-> Current(n), target |-> target] \in [act : Acts, target : Objects \cup {None}]
      BY <3>2, <3>4
    <3>6. [act |-> Current(n), target |-> target] # None
      BY <3>5, VillageAssumption DEF VillageAssumption
    <3>7. intents \in [Agents -> {None} \cup [act : Acts, target : Objects \cup {None}]]
      BY <1>1 DEF TypeOK
    <3> QED
      BY <3>3, <3>5, <3>6, <3>7
  <2>2. CASE ~HasSteps(n)
    BY <1>1, <2>2 DEF Propose, TypeOK
  <2> QED
    BY <2>1, <2>2
<1>6. grudges' \in [Agents -> SUBSET Agents]
  <2>1. Accrue(n, a) \in SUBSET Agents
    BY <1>1 DEF Accrue, TypeOK
  <2>2. grudges' = [grudges EXCEPT ![a] = Accrue(n, a)]
    BY DEF Propose
  <2> QED
    BY <1>1, <2>1, <2>2 DEF TypeOK
<1>7. todo' = todo \ {a} /\ UNCHANGED <<dims, triggers, shown, phase, used>>
  BY DEF Propose
<1>8. TypeOK'
  BY <1>1, <1>4, <1>5, <1>6, <1>7 DEF TypeOK
<1>9. PlanServesGoal'
  <2> SUFFICES ASSUME NEW b \in Agents, HasSteps(minds'[b])
               PROVE  minds'[b].goal = planFor'[b] /\ minds'[b].coping = "Idle"
    BY DEF PlanServesGoal, HasSteps
  <2>1. CASE b = a
    <3>1. minds'[b] = stepped
      BY <1>1, <1>3, <2>1 DEF TypeOK
    <3> QED
      BY <3>1, <1>2, <2>1 DEF HasSteps
  <2>2. CASE b # a
    BY <1>1, <1>3, <2>2 DEF TypeOK, PlanServesGoal
  <2> QED
    BY <2>1, <2>2
<1>10. Accounted'
  <2>1. used' = {} /\ phase' = "plan"
    BY <1>1, <1>7 DEF Accounted
  <2>2. \A b \in Agents : b \notin todo' => intents'[b] # None \/ b \in asked'
    BY <1>1, <1>5, <1>7 DEF Accounted
  <2> QED
    BY <2>1, <2>2 DEF Accounted
<1> QED
  BY <1>8, <1>9, <1>10 DEF VillageInv

LEMMA AgentTickInv ==
  ASSUME VillageInv, NEW a \in Agents, AgentTick(a)
  PROVE  VillageInv'
<1>1. TypeOK /\ PlanServesGoal /\ phase = "plan" /\ a \in todo
  BY DEF VillageInv, AgentTick
<1>2. PICK order \in Orders, beats \in BOOLEAN, threat \in Threats(a) :
        LET aim == Aim(a, order, beats, threat) IN
        KeepOn(a, aim) \/ Replan(a, aim) \/ Cope(a, aim, order)
  BY DEF AgentTick
<1> DEFINE aim == Aim(a, order, beats, threat)
           m == aim.mind
<1>3. threat \in BOOLEAN
  BY DEF Threats
<1>4. /\ m \in Mind /\ m.goal \in Dims /\ m.coping = minds[a].coping
      /\ ~aim.replan => HasSteps(m) /\ HasSteps(minds[a]) /\ m.goal = minds[a].goal
      /\ HasSteps(m) => HasSteps(minds[a])
      /\ aim.replan /\ HasSteps(m) => m.goal = order[1]
  BY <1>1, <1>3, AimFacts
<1>5. KeepOn(a, aim) \/ Replan(a, aim) \/ Cope(a, aim, order)
  BY <1>2
<1> HIDE DEF aim
<1>6. /\ planFor \in [Agents -> Dims \cup {None}] /\ asked \in SUBSET Agents
      /\ dims \in Registries
  BY <1>1 DEF TypeOK
<1>7. HasSteps(minds[a]) => minds[a].goal = planFor[a] /\ minds[a].coping = "Idle"
  BY <1>1 DEF PlanServesGoal
<1>8. CASE KeepOn(a, aim)
  <2>1. ~aim.replan /\ Propose(a, m) /\ planFor' = planFor /\ asked' = asked
    BY <1>8 DEF KeepOn
  <2> QED
    BY <2>1, <1>1, <1>4, <1>6, <1>7, ProposeInv
<1>9. CASE Replan(a, aim)
  <2>1. /\ asked' = asked \cup {a} /\ planFor' = [planFor EXCEPT ![a] = m.goal]
    BY <1>9 DEF Replan
  <2>2. PICK plan \in PlansOf[m.goal] : Propose(a, NewPlan(m, plan))
    BY <1>9 DEF Replan
  <2>3. plan \in Seq(Acts)
    BY <1>4, VillageAssumption DEF VillageAssumption
  <2>4. NewPlan(m, plan) \in Mind /\ NewPlan(m, plan).goal = m.goal /\ NewPlan(m, plan).coping = "Idle"
    BY <1>4, <2>3, NewPlanFacts DEF NewPlanIsMind
  <2>5. /\ planFor' \in [Agents -> Dims \cup {None}] /\ planFor'[a] = m.goal
        /\ \A b \in Agents \ {a} : planFor'[b] = planFor[b]
        /\ asked' \in SUBSET Agents /\ asked \subseteq asked' /\ a \in asked'
    BY <2>1, <1>4, <1>6
  <2> QED
    BY <2>2, <2>4, <2>5, <1>1, ProposeInv
<1>10. CASE Cope(a, aim, order)
  <2> DEFINE n == EnterCopingCascade(a, m, order)
  <2>1. aim.replan /\ asked' = asked \cup {a} /\ planFor' = planFor /\ Propose(a, n)
    BY <1>10 DEF Cope
  <2>2. /\ n \in Mind
        /\ HasSteps(n) => HasSteps(m) /\ (m.coping = "Idle" => order[2] = m.goal /\ DOMAIN order # {1})
    BY <1>4, <1>6, CascadeFacts
  <2> HIDE DEF n
  \* a plan kept by the cascade would be kept for the third choice, and the goal would be
  \* both the first and the second
  <2>3. ~HasSteps(n)
    <3> SUFFICES ASSUME HasSteps(n) PROVE FALSE
      OBVIOUS
    <3>1. m.coping = "Idle" /\ m.goal = order[1]
      BY <2>1, <2>2, <1>4, <1>7
    <3>2. order[2] = order[1] /\ DOMAIN order # {1}
      BY <2>2, <3>1
    <3>3. DOMAIN order = 1..Cardinality(dims) /\ Cardinality(dims) \in Nat \ {0}
      BY <1>6, OrderFacts
    <3>4. 1 \in DOMAIN order /\ 2 \in DOMAIN order
      BY <3>2, <3>3
    <3>5. \A i, j \in DOMAIN order : order[i] = order[j] => i = j
      BY <1>6, OrderFacts
    <3> QED
      BY <3>2, <3>4, <3>5
  <2>4. asked' \in SUBSET Agents /\ asked \subseteq asked' /\ a \in asked'
    BY <2>1, <1>6
  <2> QED
    BY <2>1, <2>2, <2>3, <2>4, <1>1, <1>6, ProposeInv
<1> QED
  BY <1>5, <1>8, <1>9, <1>10

-----------------------------------------------------------------------------
(* The apply phase.                                                          *)

\* An outcome leaves the steps of the plan that is there, or none.
LEMMA OutcomeFacts ==
  ASSUME NEW m \in Mind, NEW interrupted \in BOOLEAN, NEW succeeded \in BOOLEAN, NEW completed \in BOOLEAN
  PROVE  LET n == ApplyOutcome(m, interrupted, succeeded, completed) IN
         /\ n \in Mind
         /\ HasSteps(n) => HasSteps(m) /\ n.goal = m.goal /\ (m.coping = "Idle" => n.coping = "Idle")
<1> DEFINE i == m.at + 1
           m1 == [m EXCEPT !.at = i]
           m2 == [m1 EXCEPT !.elapsed = 0]
           moved == IF completed \/ interrupted THEN m2 ELSE m
           mode == IF moved.coping = "Apathy" THEN "Idle" ELSE moved.coping
           e1 == [moved EXCEPT !.streak = 0]
           e2 == [e1 EXCEPT !.coping = mode]
           eased == IF succeeded /\ completed THEN e2 ELSE moved
           n == ApplyOutcome(m, interrupted, succeeded, completed)
<1> SUFFICES /\ n \in Mind
             /\ HasSteps(n) => HasSteps(m) /\ n.goal = m.goal /\ (m.coping = "Idle" => n.coping = "Idle")
  OBVIOUS
<1>1. m1 \in Mind
  <2>1. i \in Nat \ {0}
    BY DEF Mind
  <2> HIDE DEF i
  <2> QED
    BY <2>1, OneField, Samples
<1>2. m2 \in Mind
  <2> HIDE DEF m1
  <2> QED
    BY <1>1, OneField, Samples
<1>3. moved \in Mind /\ moved.goal = m.goal /\ moved.coping = m.coping /\ (HasSteps(moved) => HasSteps(m))
  <2>1. m2.goal = m.goal /\ m2.coping = m.coping /\ m2.plan = m.plan /\ m2.at = m.at + 1
    BY DEF Mind
  <2>2. m.at \in Nat /\ Len(m.plan) \in Nat
    BY DEF Mind
  <2>3. HasSteps(m2) => HasSteps(m)
    BY <2>1, <2>2 DEF HasSteps
  <2> QED
    BY <1>2, <2>1, <2>3
<1>4. [m EXCEPT !.at = @ + 1, !.elapsed = 0] = m2
  OBVIOUS
<1> HIDE DEF m2
<1>5. mode \in Modes
  BY <1>3, Samples DEF Mind
<1>6. e2 \in Mind
  <2> HIDE DEF moved, mode
  <2>1. e1 \in Mind
    BY <1>3, OneField, Samples, ZenonT(30)
  <2> HIDE DEF e1
  <2> QED
    BY <2>1, <1>5, OneField, Samples
<1>7. /\ e2.goal = moved.goal /\ e2.plan = moved.plan /\ e2.at = moved.at /\ e2.coping = mode
  <2> HIDE DEF moved, mode
  <2> QED
    BY <1>3 DEF Mind
<1>8. [moved EXCEPT !.streak = 0, !.coping = IF @ = "Apathy" THEN "Idle" ELSE @] = e2
  <2> HIDE DEF moved
  <2> QED
    BY <1>3 DEF Mind
<1> HIDE DEF e2
<1>9. /\ eased \in Mind /\ eased.goal = m.goal /\ (HasSteps(eased) => HasSteps(m))
      /\ m.coping = "Idle" => eased.coping = "Idle"
  <2>1. HasSteps(e2) => HasSteps(moved)
    BY <1>7 DEF HasSteps
  <2> QED
    BY <2>1, <1>3, <1>6, <1>7
<1> HIDE DEF eased
<1>10. n = IF completed /\ ~HasSteps(moved) THEN [ClearGoal(eased) EXCEPT !.coping = "Idle"] ELSE eased
  <2> DEFINE mv == IF completed \/ interrupted THEN [m EXCEPT !.at = @ + 1, !.elapsed = 0] ELSE m
             ea == IF succeeded /\ completed
                   THEN [mv EXCEPT !.streak = 0, !.coping = IF @ = "Apathy" THEN "Idle" ELSE @] ELSE mv
  <2>1. n = IF completed /\ ~HasSteps(mv) THEN [ClearGoal(ea) EXCEPT !.coping = "Idle"] ELSE ea
    BY DEF ApplyOutcome
  <2>2. mv = moved
    BY <1>4
  <2>3. ea = eased
    BY <2>2, <1>8 DEF eased
  <2> HIDE DEF mv, ea, n, moved
  <2> QED
    BY <2>1, <2>2, <2>3
<1> HIDE DEF n, moved
<1>11. CASE completed /\ ~HasSteps(moved)
  <2> DEFINE c == ClearGoal(eased)
  <2>1. c \in Mind /\ c.plan = <<>> /\ c.at = 1
    BY <1>9, ClearGoalFacts
  <2> HIDE DEF c
  <2>2. [c EXCEPT !.coping = "Idle"] \in Mind
    BY <2>1, OneField, Samples
  <2>3. [c EXCEPT !.coping = "Idle"].plan = <<>> /\ [c EXCEPT !.coping = "Idle"].at = 1
    BY <2>1 DEF Mind
  <2>4. n = [c EXCEPT !.coping = "Idle"]
    BY <1>10, <1>11 DEF c
  <2>5. n.plan = <<>> /\ n.at = 1
    BY <2>3, <2>4
  <2>6. ~HasSteps(n)
    BY <2>5, Samples DEF HasSteps
  <2> QED
    BY <2>2, <2>4, <2>6
<1>12. CASE ~(completed /\ ~HasSteps(moved))
  BY <1>9, <1>10, <1>12
<1> QED
  BY <1>11, <1>12

\* Whoever is still to be visited, there is a first of them.
LEMMA FirstIsMember ==
  ASSUME TypeOK, todo # {}
  PROVE  First(todo) \in todo
<1>1. todo \subseteq Agents /\ IsFiniteSet(Agents) /\ Agents \subseteq Nat
  BY VillageAssumption DEF VillageAssumption, TypeOK
<1>2. todo \subseteq Nat /\ IsFiniteSet(todo)
  BY <1>1, FS_Subset
<1> QED
  BY <1>2, SmallestExists DEF First

LEMMA ResolveInv ==
  ASSUME VillageInv, NEW a \in Agents, Resolve(a)
  PROVE  VillageInv'
<1>1. TypeOK /\ PlanServesGoal /\ Accounted /\ phase = "apply" /\ a \in todo
  <2>1. TypeOK /\ PlanServesGoal /\ Accounted
    BY DEF VillageInv
  <2>2. phase = "apply" /\ todo # {} /\ a = First(todo)
    BY DEF Resolve
  <2>3. First(todo) \in todo
    BY <2>1, <2>2, FirstIsMember
  <2> QED
    BY <2>1, <2>2, <2>3
<1>2. UNCHANGED <<dims, triggers, grudges, shown, phase, intents, planFor, asked>> /\ todo' = todo \ {a}
  BY DEF Resolve
<1>3. minds[a] \in Mind
  BY <1>1 DEF TypeOK
<1>4. Succeeds(a) \in BOOLEAN /\ Completions(a) \subseteq BOOLEAN
  <2>1. Succeeds(a) \in BOOLEAN
    BY Zenon DEF Succeeds
  <2>2. (minds[a].elapsed >= Duration[intents[a].act]) \in BOOLEAN
    OBVIOUS
  <2>3. Completions(a) \subseteq BOOLEAN
    BY <2>2, Zenon DEF Completions
  <2> QED
    BY <2>1, <2>3
\* the mind that resolving leaves: the same, or that of an outcome
<1>5. PICK n \in Mind :
        /\ minds' = [minds EXCEPT ![a] = n]
        /\ HasSteps(n) => /\ HasSteps(minds[a]) /\ n.goal = minds[a].goal
                          /\ minds[a].coping = "Idle" => n.coping = "Idle"
  <2>1. CASE intents[a] = None
    <3>1. minds' = minds
      BY <2>1 DEF Resolve
    <3>2. minds' = [minds EXCEPT ![a] = minds[a]]
      BY <3>1, <1>1 DEF TypeOK
    <3> QED
      BY <3>2, <1>3
  <2>2. CASE intents[a] # None /\ IsConflictLoser(a)
    <3>1. minds' = [minds EXCEPT ![a] = ApplyOutcome(minds[a], TRUE, FALSE, FALSE)]
      BY <2>2 DEF Resolve
    <3> QED
      BY <3>1, <1>3, OutcomeFacts
  <2>3. CASE intents[a] # None /\ ~IsConflictLoser(a)
    <3>1. PICK completed \in Completions(a) :
            minds' = [minds EXCEPT ![a] = ApplyOutcome(minds[a], FALSE, Succeeds(a), completed)]
      BY <2>3 DEF Resolve
    <3>2. completed \in BOOLEAN /\ Succeeds(a) \in BOOLEAN
      BY <1>4, <2>3, <3>1
    <3> QED
      BY <3>1, <3>2, <1>3, OutcomeFacts
  <2> QED
    BY <2>1, <2>2, <2>3
<1>6. /\ used' = used \/ used' = used \cup {<<a, intents[a].target>>}
      /\ used' # used => intents[a] # None /\ ~IsConflictLoser(a)
      /\ intents[a] # None /\ ~IsConflictLoser(a) => <<a, intents[a].target>> \in used'
  BY DEF Resolve
<1>7. intents[a] # None => intents[a].target \in Objects \cup {None}
  BY <1>1 DEF TypeOK
<1>8. TypeOK'
  <2>1. minds' \in [Agents -> Mind]
    BY <1>1, <1>5 DEF TypeOK
  <2>2. used' \subseteq Agents \X (Objects \cup {None})
    BY <1>1, <1>6, <1>7 DEF TypeOK
  <2> QED
    BY <2>1, <2>2, <1>1, <1>2 DEF TypeOK
<1>9. PlanServesGoal'
  <2> SUFFICES ASSUME NEW b \in Agents, HasSteps(minds'[b])
               PROVE  minds'[b].goal = planFor[b] /\ minds'[b].coping = "Idle"
    BY <1>2 DEF PlanServesGoal, HasSteps
  <2>1. CASE b = a
    <3>1. minds'[b] = n
      BY <1>1, <1>5, <2>1 DEF TypeOK
    <3> QED
      BY <3>1, <2>1, <1>1, <1>5 DEF PlanServesGoal
  <2>2. CASE b # a
    <3>1. minds'[b] = minds[b]
      BY <1>1, <1>5, <2>2 DEF TypeOK
    <3> QED
      BY <3>1, <1>1 DEF PlanServesGoal
  <2> QED
    BY <2>1, <2>2
<1>10. Accounted'
  <2>1. \A o : Winner(o)' = Winner(o)
    BY <1>2 DEF Winner, Contenders, Proposed
  <2>2. \A b : IsConflictLoser(b)' <=> IsConflictLoser(b)
    BY <1>2, <2>1 DEF IsConflictLoser
  <2>3. \A b \in Agents : intents[b] # None \/ b \in asked
    BY <1>1 DEF Accounted
  <2>4. \A u \in used' : /\ intents[u[1]] # None /\ u[2] = intents[u[1]].target
                         /\ u[2] # None => u[1] = Winner(u[2])
    <3>1. ASSUME intents[a] # None, ~IsConflictLoser(a), intents[a].target # None
          PROVE  a = Winner(intents[a].target)
      BY <3>1 DEF IsConflictLoser
    <3> QED
      BY <3>1, <1>1, <1>6 DEF Accounted
  <2>5. \A b \in Agents \ todo' : intents[b] # None /\ ~IsConflictLoser(b) => <<b, intents[b].target>> \in used'
    BY <1>1, <1>2, <1>6 DEF Accounted
  <2> QED
    BY <1>1, <1>2, <2>1, <2>2, <2>3, <2>4, <2>5 DEF Accounted
<1> QED
  BY <1>8, <1>9, <1>10 DEF VillageInv

\* A trigger names an agent.
LEMMA TriggersAreAgents ==
  ASSUME TypeOK
  PROVE  ConflictTriggers \in [Agents -> SUBSET Agents]
<1> SUFFICES ASSUME NEW a \in Agents, intents[a] # None, IsConflictLoser(a)
             PROVE  Winner(intents[a].target) \in Agents
  BY DEF ConflictTriggers
<1>1. a \in Contenders(intents[a].target)
  BY DEF Contenders, Proposed
<1>2. Winner(intents[a].target) \in Contenders(intents[a].target)
  BY <1>1, WinnerContends
<1> QED
  BY <1>2 DEF Contenders, Proposed

LEMMA PhaseInv ==
  ASSUME VillageInv, StartApply \/ EndTick
  PROVE  VillageInv'
<1>1. TypeOK /\ PlanServesGoal /\ Accounted
  BY DEF VillageInv
<1>2. CASE StartApply
  <2>1. TypeOK'
    BY <1>1, <1>2 DEF StartApply, TypeOK
  <2>2. PlanServesGoal'
    BY <1>1, <1>2 DEF StartApply, PlanServesGoal, HasSteps
  <2>3. Accounted'
    BY <1>1, <1>2 DEF StartApply, Accounted
  <2> QED
    BY <2>1, <2>2, <2>3 DEF VillageInv
<1>3. CASE EndTick
  <2>1. TypeOK'
    <3>1. triggers' \in [Agents -> SUBSET Agents] /\ shown' \subseteq Agents
      BY <1>1, <1>3, TriggersAreAgents DEF EndTick, Looks
    <3> QED
      BY <3>1, <1>1, <1>3 DEF EndTick, TypeOK
  <2>2. PlanServesGoal'
    BY <1>1, <1>3 DEF EndTick, PlanServesGoal, HasSteps
  <2>3. Accounted'
    BY <1>1, <1>3 DEF EndTick, Accounted
  <2> QED
    BY <2>1, <2>2, <2>3 DEF VillageInv
<1> QED
  BY <1>2, <1>3

LEMMA StutterInv ==
  ASSUME VillageInv, UNCHANGED vars
  PROVE  VillageInv'
<1>1. \A o : Winner(o)' = Winner(o)
  BY DEF Winner, Contenders, Proposed, vars
<1>2. \A b : IsConflictLoser(b)' <=> IsConflictLoser(b)
  BY <1>1 DEF IsConflictLoser, vars
<1>3. TypeOK'
  BY DEF VillageInv, TypeOK, vars
<1>4. PlanServesGoal'
  BY DEF VillageInv, PlanServesGoal, HasSteps, vars
<1>5. Accounted'
  BY <1>1, <1>2 DEF VillageInv, Accounted, vars
<1> QED
  BY <1>3, <1>4, <1>5 DEF VillageInv

-----------------------------------------------------------------------------
(* The theorems.                                                             *)

\* The inductive invariant of the decision loop: the shape of the state, plans that serve
\* the goal, and every turn accounted for.
THEOREM VillageInvariant == Spec => []VillageInv
<1>1. Init => VillageInv
  BY InitInv
<1>2. VillageInv /\ [Next]_vars => VillageInv'
  <2> SUFFICES ASSUME VillageInv, [Next]_vars PROVE VillageInv'
    OBVIOUS
  <2>1. CASE StartApply \/ EndTick
    BY <2>1, PhaseInv
  <2>2. CASE \E a \in Agents : AgentTick(a)
    BY <2>2, AgentTickInv
  <2>3. CASE \E a \in Agents : Resolve(a)
    BY <2>3, ResolveInv
  <2>4. CASE UNCHANGED vars
    BY <2>4, StutterInv
  <2> QED
    BY <2>1, <2>2, <2>3, <2>4 DEF Next
<1> QED
  BY <1>1, <1>2, PTL DEF Spec

\* Whatever threat, change of goal, substitution or lost contest comes in between, in a
\* village of any size an agent's remaining steps belong to a plan made for the goal it
\* pursues, and it is not coping with a failure (mediateGoal, rebindSubstitute).
THEOREM PlansServeGoals == Spec => []PlanServesGoal
BY VillageInvariant, PTL DEF VillageInv

\* No agent freezes: by the end of the plan phase each has proposed an intent or has just
\* called the planner (needsReplan).
THEOREM NobodyFreezes == Spec => []NoStasis
<1>1. VillageInv => NoStasis
  BY DEF VillageInv, Accounted, NoStasis
<1> QED
  BY <1>1, VillageInvariant, PTL

\* An object serves one agent a tick, and a loser blames exactly the agent it served, for
\* any number of contenders (conflictWinnerIdx, finishApplyPhase).
THEOREM BlameFollowsContest == Spec => []BlameIsFair
<1>1. VillageInv => BlameIsFair
  <2> SUFFICES ASSUME VillageInv PROVE BlameIsFair
    OBVIOUS
  <2>1. TypeOK /\ Accounted
    BY DEF VillageInv
  <2>2. ASSUME NEW u \in used, NEW v \in used, u[2] = v[2], u[2] # None PROVE u = v
    <3>1. u[1] = v[1]
      BY <2>1, <2>2 DEF Accounted
    <3>2. u \in Agents \X (Objects \cup {None}) /\ v \in Agents \X (Objects \cup {None})
      BY <2>1 DEF TypeOK
    <3> QED
      BY <2>2, <3>1, <3>2
  <2>3. ASSUME phase = "apply", todo = {}, NEW a \in Agents, intents[a] # None
        PROVE  LET o == intents[a].target IN
               \/ <<a, o>> \in used /\ ConflictTriggers[a] = {}
               \/ o # None /\ \E b \in Agents : <<b, o>> \in used /\ ConflictTriggers[a] = {b}
    <3> DEFINE o == intents[a].target
    <3>1. CASE ~IsConflictLoser(a)
      BY <2>1, <2>3, <3>1 DEF Accounted, ConflictTriggers
    <3>2. CASE IsConflictLoser(a)
      <4>1. o # None /\ a \in Contenders(o)
        BY <2>3, <3>2 DEF IsConflictLoser, Contenders, Proposed
      <4>2. Winner(o) \in Contenders(o)
        BY <2>1, <4>1, WinnerContends
      <4>3. Winner(o) \in Agents /\ intents[Winner(o)] # None /\ intents[Winner(o)].target = o
        BY <4>2 DEF Contenders, Proposed
      <4>4. ~IsConflictLoser(Winner(o))
        BY <4>3 DEF IsConflictLoser
      <4>5. <<Winner(o), o>> \in used
        BY <2>1, <2>3, <4>3, <4>4 DEF Accounted
      <4>6. ConflictTriggers[a] = {Winner(o)}
        BY <2>3, <3>2 DEF ConflictTriggers
      <4> QED
        BY <4>1, <4>3, <4>5, <4>6
    <3> QED
      BY <3>1, <3>2
  <2> QED
    BY <2>2, <2>3 DEF BlameIsFair
<1> QED
  BY <1>1, VillageInvariant, PTL
=============================================================================
