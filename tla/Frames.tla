------------------------------- MODULE Frames -------------------------------
(***************************************************************************)
(* What the entries of the stream say of each thing on the screen           *)
(* (world/agentframe.go, renderframe.go, env.go, and applyEvent of           *)
(* useWorld.ts).  EventFeed and LiveView order entries and leave their        *)
(* content out; here the order is the stream's, and one tick is followed       *)
(* through its phases: agents plan and act, animals act, climate, flora and    *)
(* respawn, and last the two frames.  An agent's row is told by differences,    *)
(* an animal's in full, a plant's when a step of the flora changed it, a cell's  *)
(* when its terrain changed; births, deaths, goals and finished actions have     *)
(* entries of their own.                                                     *)
(*                                                                         *)
(* Abstractions.  pos stands for an agent's place and mood, a pose for an        *)
(* animal's whole row, a stage for a plant's.  An entry is missed when its        *)
(* append failed, when it was trimmed unread, and when the view is paused.         *)
(***************************************************************************)
EXTENDS Integers, FiniteSets, SequencesExt

CONSTANTS
  Agents, Animals, Plants, Cells,
  Sites, Poses, Stages, Kinds,  \* what the rows are made of
  Goals, Safe,                   \* Safe: Config.SafetyDim
  Plans,                         \* plans the planner may return
  Founders,                      \* [animals, flora, terrain]: the world when the page is loaded
  MaxChanges                     \* bound: what happens in the world, and steps with a missed entry

VARIABLES
  agents,         \* agent -> [pos, goal, plan], plan from PlanIdx on
  animals, flora, \* partial functions: animal -> pose, plant -> stage
  terrain,        \* cell -> kind
  given,          \* animal and plant IDs allocated so far
  lastAgentFrame, pendingFloraFrame, pendingTerrainFrame,
  phase, todo,    \* where the tick is, and the agents still to act in it
  view,           \* the client's [agents, animals, flora, terrain]
  missed,         \* history: what the last entry on it, that was missed, told
  unsettled,      \* history: what is drawn from something weaker than a row of a frame
  changes         \* history

frameVars == <<agents, animals, flora, terrain, given, lastAgentFrame, pendingFloraFrame,
               pendingTerrainFrame, phase, todo, view, missed, unsettled, changes>>
world == <<agents, animals, flora, terrain, given>>
buffers == <<lastAgentFrame, pendingFloraFrame, pendingTerrainFrame>>

NoGoal == ""
Fields == {"pos", "goal", "action"}
Ticked == "ticked"  \* the check mark before the name of the action that was done
Newborn == "newborn"
RowOf(id) == <<id, "row">>
Without(f, ids) == [id \in DOMAIN f \ ids |-> f[id]]

CurrentAction(a) == IF agents[a].plan = <<>> THEN "" ELSE Head(agents[a].plan)

-----------------------------------------------------------------------------
(* The entries, and what the client makes of each.                           *)

GoalSelected(a, g) == [type |-> "GoalSelected", id |-> a, goal |-> g]
ActionDone(a) == [type |-> "ActionDone", id |-> a]
AnimalBorn(b) == [type |-> "AnimalBorn", id |-> b]
AnimalDied(b) == [type |-> "AnimalDied", id |-> b]
PlantDied(p) == [type |-> "PlantDied", id |-> p]

ApplyEvent(v, e) ==
  CASE e.type = "GoalSelected" -> [v EXCEPT !.agents[e.id].goal = e.goal]
    [] e.type = "ActionDone" -> [v EXCEPT !.agents[e.id].action = Ticked]
    [] e.type = "AnimalBorn" -> [v EXCEPT !.animals = (e.id :> Newborn) @@ @]
    [] e.type = "AnimalDied" -> [v EXCEPT !.animals = Without(@, {e.id})]
    [] e.type = "PlantDied" -> [v EXCEPT !.flora = Without(@, {e.id})]
    [] e.type = "AgentFrame" -> [v EXCEPT !.agents = [a \in DOMAIN e.rows |-> e.rows[a] @@ @[a]] @@ @]
    [] e.type = "WorldFrame" ->
         [v EXCEPT !.animals = e.animals @@ @, !.flora = e.flora @@ @, !.terrain = e.terrain @@ @]

\* What a row of the entry, or a death, tells for good.
Told(e) ==
  CASE e.type = "AgentFrame" -> UNION {{a} \X DOMAIN e.rows[a] : a \in DOMAIN e.rows}
    [] e.type = "WorldFrame" -> {RowOf(id) : id \in DOMAIN e.animals \cup DOMAIN e.flora \cup DOMAIN e.terrain}
    [] e.type \in {"AnimalDied", "PlantDied"} -> {RowOf(e.id)}
    [] OTHER -> {}

\* What it only suggests: a goal before the plan for it is made, an action that is over.
Hinted(e) ==
  CASE e.type = "GoalSelected" -> {<<e.id, "goal">>}
    [] e.type = "ActionDone" -> {<<e.id, "action">>}
    [] OTHER -> {}

Spent(n) == changes' = changes + n /\ changes' <= MaxChanges
Count(happens) == IF happens THEN 1 ELSE 0

\* Each of the entries reaches the view, in their order, or is missed; doubts is what else is
\* no longer told by a row.
Send(entries, doubts, happens) ==
  \E lost \in SUBSET DOMAIN entries :
    LET heard == {entries[i] : i \in DOMAIN entries \ lost}
    IN  /\ Spent(Count(happens) + Count(lost # {}))
        /\ view' = FoldLeft(ApplyEvent, view, SelectSeq(entries, LAMBDA e : e \in heard))
        /\ missed' = (missed \ UNION {Told(e) : e \in heard}) \cup UNION {Told(entries[i]) : i \in lost}
        /\ unsettled' = (unsettled \ UNION {Told(e) : e \in heard}) \cup UNION {Hinted(e) : e \in heard} \cup doubts

-----------------------------------------------------------------------------
(* The tick: agents plan.                                                    *)

\* A plausible bug: a tick starts with the rows of the last one.
ReadPhase_Keeps == UNCHANGED <<pendingFloraFrame, pendingTerrainFrame>>
ReadPhase == pendingFloraFrame' = <<>> /\ pendingTerrainFrame' = <<>>

Begin ==
  /\ phase = "rest" /\ phase' = "plan" /\ todo' = Agents /\ ReadPhase
  /\ UNCHANGED <<world, lastAgentFrame, view, missed, unsettled, changes>>

Turn(ph, a) == phase = ph /\ a \in todo /\ todo' = todo \ {a} /\ phase' = phase
EndTurns(ph, next) ==
  /\ phase = ph /\ phase' = next /\ todo' = Agents
  /\ UNCHANGED <<world, buffers, view, missed, unsettled, changes>>

Scare(alarm, a) == IF alarm THEN <<GoalSelected(a, Safe)>> ELSE <<>>

\* A goal is kept or changed, and a plan for it found.
Select(a) ==
  /\ Turn("plan", a)
  /\ \E alarm \in BOOLEAN, g \in Goals, p \in Plans :
       /\ alarm => g = Safe
       /\ agents' = [agents EXCEPT ![a].goal = g, ![a].plan = p]
       /\ Send(Scare(alarm, a) \o <<GoalSelected(a, g)>>, {}, TRUE)
  /\ UNCHANGED <<animals, flora, terrain, given, buffers>>

\* None is: the agent rebinds, longs, gives up or stays as it is.
Cope(a) ==
  /\ Turn("plan", a)
  /\ \E alarm \in BOOLEAN, g \in Goals \cup {NoGoal}, p \in {<<>>, agents[a].plan} :
       /\ alarm => p = <<>>
       /\ agents' = [agents EXCEPT ![a].goal = g, ![a].plan = p]
       /\ Send(Scare(alarm, a), {}, TRUE)
  /\ UNCHANGED <<animals, flora, terrain, given, buffers>>

-----------------------------------------------------------------------------
(* Agents and animals act.                                                   *)

\* ApplyOutcome: the action goes on, or it is completed, or interrupted with the goal still wanted.
Act(a) ==
  /\ Turn("apply", a) /\ agents[a].plan # <<>>
  /\ \E over, completed \in BOOLEAN, at \in Sites :
       LET rest == IF over THEN Tail(agents[a].plan) ELSE agents[a].plan
       IN  /\ agents' = [agents EXCEPT ![a].pos = at, ![a].plan = rest,
                                       ![a].goal = IF over /\ completed /\ rest = <<>> THEN NoGoal ELSE @]
           /\ Send(IF over THEN <<ActionDone(a)>> ELSE <<>>, {}, TRUE)
  /\ UNCHANGED <<animals, flora, terrain, given, buffers>>

Fauna(entries, doubts) ==
  /\ phase = "apply" /\ Send(entries, doubts, TRUE)
  /\ UNCHANGED <<agents, terrain, buffers, phase, todo>>

Move(b, pose) ==
  /\ b \in DOMAIN animals /\ animals' = [animals EXCEPT ![b] = pose]
  /\ Fauna(<<>>, {}) /\ UNCHANGED <<flora, given>>
KillAnimal(b) ==
  /\ b \in DOMAIN animals /\ animals' = Without(animals, {b})
  /\ Fauna(<<AnimalDied(b)>>, {}) /\ UNCHANGED <<flora, given>>
Mate(b, pose) ==
  /\ b \in Animals \ given /\ given' = given \cup {b} /\ animals # <<>>
  /\ animals' = (b :> pose) @@ animals
  /\ Fauna(<<AnimalBorn(b)>>, {}) /\ UNCHANGED flora
\* A grazed plant is shorter at once, and no entry says so.
Graze(p, stage) ==
  /\ p \in DOMAIN flora /\ stage < flora[p] /\ flora' = [flora EXCEPT ![p] = stage]
  /\ Fauna(<<>>, {RowOf(p)}) /\ UNCHANGED <<animals, given>>

-----------------------------------------------------------------------------
(* The environment, in its order.                                            *)

RunClimateEnv ==
  /\ phase = "climate" /\ phase' = "flora"
  /\ \E cells \in SUBSET Cells, k \in Kinds :
       /\ Spent(Count(cells # {}))
       /\ terrain' = [c \in cells |-> k] @@ terrain
       /\ pendingTerrainFrame' = [c \in cells |-> k] @@ pendingTerrainFrame
  /\ UNCHANGED <<agents, animals, flora, given, lastAgentFrame, pendingFloraFrame, todo, view, missed, unsettled>>

\* A step of the flora, when it is due: seedlings, deaths, and survivors that changed.
RunFloraEnv ==
  /\ phase = "flora" /\ phase' = "respawn"
  /\ \E spawned \in SUBSET (Plants \ given), died \in SUBSET DOMAIN flora :
       \E grown \in SUBSET (DOMAIN flora \ died) :
         \E stage \in [spawned \cup grown -> Stages] :
           /\ \A p \in grown : stage[p] >= flora[p]
           /\ spawned # {} => \E p \in DOMAIN flora : TRUE
           /\ given' = given \cup spawned
           /\ flora' = stage @@ Without(flora, died)
           /\ pendingFloraFrame' = stage @@ pendingFloraFrame
           /\ Send(SetToSeq({PlantDied(p) : p \in died}), {}, spawned \cup died \cup grown # {})
  /\ UNCHANGED <<agents, animals, terrain, lastAgentFrame, pendingTerrainFrame, todo>>

RunRespawn ==
  /\ phase = "respawn" /\ phase' = "frames"
  /\ \E born \in SUBSET (Animals \ given) :
       \E pose \in [born -> Poses] :
         /\ given' = given \cup born
         /\ animals' = pose @@ animals
         /\ Send(SetToSeq({AnimalBorn(b) : b \in born}), {}, born # {})
  /\ UNCHANGED <<agents, flora, terrain, buffers, todo>>

-----------------------------------------------------------------------------
(* The frames.                                                               *)

\* agentFrameState
Shown(a) == [pos |-> agents[a].pos, goal |-> agents[a].goal, action |-> CurrentAction(a)]
\* A plausible bug: an empty goal or action is left out of the row.
Differs_OmitsEmpty(a) == {f \in Fields : (a \notin DOMAIN lastAgentFrame \/ lastAgentFrame[a][f] # Shown(a)[f]) /\ Shown(a)[f] # ""}
Differs(a) == {f \in Fields : a \notin DOMAIN lastAgentFrame \/ lastAgentFrame[a][f] # Shown(a)[f]}
EmitAgentFrame ==
  LET changed == {a \in Agents : Differs(a) # {}}
      rows == [a \in changed |-> [f \in Differs(a) |-> Shown(a)[f]]]
  IN  IF changed = {} THEN <<>> ELSE <<[type |-> "AgentFrame", rows |-> rows]>>

EmitWorldFrame ==
  <<[type |-> "WorldFrame", animals |-> animals, flora |-> pendingFloraFrame, terrain |-> pendingTerrainFrame]>>

\* finishApplyPhase: the frames come last.
EmitFrames ==
  /\ phase = "frames" /\ phase' = "rest"
  /\ Send(EmitAgentFrame \o EmitWorldFrame, {}, FALSE)
  /\ lastAgentFrame' = [a \in Agents |-> Shown(a)]
  /\ UNCHANGED <<world, pendingFloraFrame, pendingTerrainFrame, todo>>

-----------------------------------------------------------------------------
(* The baselines: the roster (agentDigest has no current action), the plants and, on the   *)
(* first load alone, the terrain.  Animals have none.                        *)

Roster == [a \in Agents |-> [Shown(a) EXCEPT !.action = ""]]

Reacquire ==
  /\ phase = "rest" /\ missed # {}
  /\ view' = [view EXCEPT !.agents = Roster, !.flora = flora]
  /\ missed' = {k \in missed : k[1] \in Animals \cup Cells}
  /\ unsettled' = Agents \X {"action"}
  /\ UNCHANGED <<world, buffers, phase, todo, changes>>

\* A world has been built and a page is loaded, before or after the world's first frame.
FramesInit ==
  /\ agents \in [Agents -> [pos : Sites, goal : {NoGoal}, plan : {<<>>}]]
  /\ animals = Founders.animals /\ flora = Founders.flora /\ terrain = Founders.terrain
  /\ given = DOMAIN animals \cup DOMAIN flora
  /\ lastAgentFrame \in {<<>>, [a \in Agents |-> Shown(a)]}
  /\ pendingFloraFrame = <<>> /\ pendingTerrainFrame = <<>> /\ phase = "rest" /\ todo = {}
  /\ view = [agents |-> Roster, animals |-> <<>>, flora |-> flora, terrain |-> terrain]
  /\ missed = {RowOf(b) : b \in DOMAIN animals} /\ unsettled = Agents \X {"action"}
  /\ changes = 0

FramesNext ==
  \/ Begin \/ EndTurns("plan", "apply") \/ EndTurns("apply", "climate")
  \/ \E a \in Agents : Select(a) \/ Cope(a) \/ Act(a)
  \/ \E b \in Animals, pose \in Poses : Move(b, pose) \/ Mate(b, pose)
  \/ \E b \in Animals : KillAnimal(b)
  \/ \E p \in Plants, s \in Stages : Graze(p, s)
  \/ RunClimateEnv \/ RunFloraEnv \/ RunRespawn \/ EmitFrames \/ Reacquire

-----------------------------------------------------------------------------
(* Properties, between ticks.                                                *)

Same(drawn, real, id) ==
  (id \in DOMAIN drawn <=> id \in DOMAIN real) /\ (id \in DOMAIN real => drawn[id] = real[id])

\* Differences, births and deaths add up: an agent is drawn where it is, with its goal, unless
\* a selection was only hinted at since the goal was last sent; and its action is the one under way,
\* one that was done, or blank after a reload, never one of a plan given up
\* (emitAgentFrame, applyEvent).
AgentsDrawn ==
  phase = "rest" => \A a \in Agents, f \in Fields : <<a, f>> \notin missed =>
    \/ view.agents[a][f] = Shown(a)[f]
    \/ <<a, f>> \in unsettled /\ (f = "action" => view.agents[a][f] \in {Ticked, ""})

\* No ghosts: an animal, a plant or a cell is drawn as it is unless the entry that told its last
\* change was missed; a plant that was grazed may be drawn taller until the flora next
\* changes it, but not if it is dead (emitWorldFrame, runFloraEnv, killAnimal).
NatureDrawn ==
  phase = "rest" =>
    /\ \A b \in Animals : RowOf(b) \notin missed => Same(view.animals, animals, b)
    /\ \A c \in Cells : RowOf(c) \notin missed => Same(view.terrain, terrain, c)
    /\ \A p \in Plants : RowOf(p) \notin missed =>
         \/ Same(view.flora, flora, p)
         \/ RowOf(p) \in unsettled /\ p \in DOMAIN view.flora \cap DOMAIN flora /\ view.flora[p] > flora[p]
=============================================================================
