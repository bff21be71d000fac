-------------------------------- MODULE MCParts --------------------------------
(***************************************************************************)
(* Thirteen parts of the system that share no state, each in a small instance, in one  *)
(* run: the faculties of the world's creatures, the ground they use them on, and   *)
(* the stores and the view that show what became of them.  focus says which of      *)
(* them lives in a behaviour; the others stay as they begin.                        *)
(***************************************************************************)
EXTENDS Ground, Scent, BackupTable

VARIABLES
  focus,
  stage, start, land, queue, tries, placed, anchors, flooded, arrived, \* Genesis
  buckets, idToCell, entities, blockers, slots, cover,             \* Senses
  facts, self, intensity, goal,                                    \* Deliberation
  want, aim, toiled, care, churned, calm, owed, waits,               \* Drives
  stamina, adrenaline, mood, skill, slept, calmly, settled, practised, \* Physique
  feel, doing, awake, vigor, cadence, lapse, scare, sensed, plenty, \* Instinct
  text,                                                            \* Formula
  ttl, live, stub, published, gone, adrift,                        \* LiveKeys
  godMode, real, beliefs, roles, stored, changes,                  \* GodView
  agents, animals, flora, terrain, given, lastAgentFrame, pendingFloraFrame, \* Frames
  pendingTerrainFrame, phase, todo, view, missed, unsettled, shocks
dawn == <<stage, start, land, queue, tries, placed, anchors, flooded, arrived>>
eyes == <<buckets, idToCell, entities, blockers, slots, cover>>
mind == <<facts, self, intensity, goal>>
heart == <<want, aim, toiled, care, churned, calm, owed, waits>>
body == <<stamina, adrenaline, mood, skill, slept, calmly, settled, practised>>
redis == <<ttl, live, stub, published, gone, adrift>>
screen == <<agents, animals, flora, terrain, given, lastAgentFrame, pendingFloraFrame, pendingTerrainFrame,
            phase, todo, view, missed, unsettled, shocks>>
god == <<godMode, real, beliefs, roles, stored, changes>>
rabbit == <<feel, doing, awake, vigor, cadence, lapse, scare, sensed, plenty>>

-----------------------------------------------------------------------------
(* Ground: six cells, a way round and a way through.  Scent: a deer, a wolf, a carcass. *)

Patch == {<<0, 0>>, <<1, 0>>, <<2, 0>>, <<0, 1>>, <<1, 1>>, <<2, 1>>}
Terrain == [plain |-> [cost |-> 1, passable |-> TRUE, needs |-> {}],
            rough |-> [cost |-> 3, passable |-> TRUE, needs |-> {}],
            ford |-> [cost |-> 2, passable |-> TRUE, needs |-> {"swim"}],
            lake |-> [cost |-> 1, passable |-> FALSE, needs |-> {}]]
Layout == [c \in Patch |-> IF c = <<1, 0>> THEN "rough" ELSE IF c = <<1, 1>> THEN "ford" ELSE "plain"]

Beasts == [deer |-> {"prey"}, wolf |-> {"predator"}]
Where == [grass |-> <<1, 0>>, bones |-> <<0, 0>>]
Smells == [grass |-> "food", bones |-> "carrion"]
TwoCells == {<<0, 0>>, <<1, 0>>}
StillAndEast == {[o \in Offsets |-> 1], [o \in Offsets |-> 1 + o[1]]}

-----------------------------------------------------------------------------
(* Genesis: every relief of three heights between three fixed corners; and three worlds to    *)
(* populate with grass (1), deer (3) and fish (4), one of them without water.                 *)

Square == (0..2) \X (0..2)
Hills(low, f) == [c \in Square |-> IF c = low THEN 0 ELSE IF c = <<2, 2>> THEN 100 ELSE IF c = <<0, 2>> THEN 50 ELSE f[c]]
Bare == [relief |-> <<>>, explicit |-> <<>>, listed |-> {}, density |-> <<>>, targets |-> <<>>]
Lands == {[Bare EXCEPT !.relief = Hills(<<0, 0>>, f)] :
            f \in [Square \ {<<0, 0>>, <<2, 2>>, <<0, 2>>} -> {0, 50, 100}]}
Animals == [Bare EXCEPT !.density = 3 :> 1 @@ 4 :> 1, !.targets = 3 :> 2 @@ 4 :> 1]
Grasses == [Bare EXCEPT !.listed = {[id |-> 1, species |-> 1]}, !.density = 1 :> 1 @@ 4 :> 1, !.targets = 4 :> 1]
Worlds == {[Animals EXCEPT !.relief = Hills(<<0, 0>>, [c \in Square |-> 20 * (c[1] + c[2])])],
           [Grasses EXCEPT !.relief = Hills(<<1, 1>>, [c \in Square |-> 50])],
           [Animals EXCEPT !.explicit = [c \in Square |-> "soil"], !.targets = 4 :> 1]}
Richness(sp, ground, far) == IF ground # "soil" \/ far > 3 THEN 0 ELSE IF far <= 1 THEN 4 ELSE 2
Dawn == INSTANCE Genesis WITH
  Cols <- 3, Rows <- 3, Charted <- {<<0, 0>>, <<0, 1>>, <<1, 1>>, <<1, 2>>},
  Fringe <- {<<0, 2>>, <<2, 0>>, <<2, 1>>, <<2, 2>>}, LeastRiver <- 3, Starts <- Lands \cup Worlds,
  Plants <- {1}, Capacity <- Richness, KRef <- 4, Impassable <- {"sea"},
  Barred <- 3 :> {"sea"} @@ 4 :> {"soil", "sand", "mountain", "bare_rock"}, MaxTries <- 2, MaxFloods <- 1

-----------------------------------------------------------------------------
(* Senses: buckets of two by two on both sides of the origin; three barriers.     *)

HexPatch == {<<q, r>> \in (-2..2) \X (-2..2) : q + r \in -2..2}
Walls == {[at |-> <<0, 0>>, length |-> 2, opacity |-> 4], [at |-> <<1, 0>>, length |-> 3, opacity |-> 2],
          [at |-> <<-1, 1>>, length |-> 1, opacity |-> 4]}
Eye == INSTANCE Senses WITH
  Things <- {"oak", "ant"}, Opaque <- {"oak"}, Xs <- -1..3, Ys <- -1..0, CellSize <- 2, SightRadius <- 4,
  Hexes <- HexPatch, Barriers <- Walls, Whole <- 8, Falloff <- 4, MinEpsilon <- 1, Coverages <- {0, 8}

-----------------------------------------------------------------------------
(* Deliberation: nine actions of content/actions.yaml, four gates.                *)

Act(id, tags, req, any, out) == [id |-> id, tags |-> tags, requires |-> req, any |-> any, produces |-> out]
NineActs ==
  << Act("Approach", {"effort:low"}, <<>>, <<>>, {"near_other"}),
     Act("Beg", {"social"}, <<"near_other">>, <<>>, {"has_food"}),
     Act("Eat", {"effort:low"}, <<"has_food">>, <<>>, {"has_Satiety"}),
     Act("Feast", {"social"}, <<"has_food", "near_other">>, <<>>, {"has_Satiety", "has_Social"}),
     Act("Forage", {"effort:low", "abstraction:low"}, <<"at_target">>, <<>>, {"has_food"}),
     Act("Hunt", {"effort:high", "violent:low"}, <<"at_target">>, <<>>, {"has_food"}),
     Act("MoveTo", {"effort:low"}, <<>>, <<>>, {"at_target"}),
     Act("Signal", {"social"}, <<>>, <<"near_other", "at_target">>, {"has_Social"}),
     Act("Take", {"effort:low", "norm:transgressive"}, <<"near_other", "owned_by_other">>, <<>>, {"has_food"}) >>
Asks(x, op, v) == [is |-> "level", of |-> x, op |-> op, than |-> v]
Tagged(t) == [is |-> "tag", of |-> t]
FourGates ==
  { [tags |-> {"abstraction:low"}, test |-> Asks("Intelligence", ">=", 1), mult |-> 0],
    [tags |-> {"norm:transgressive"}, mult |-> 0,
     test |-> [is |-> "or", of |-> <<Asks("Honesty", "<", 1),
                [is |-> "and", of |-> <<Asks("Urgency", ">", 1), Asks("Honesty", "<", 2)>>]>>]],
    [tags |-> {"effort:high"}, mult |-> 0,
     test |-> [is |-> "or", of |-> <<[is |-> "not", of |-> Tagged("effort:high")], Asks("Stamina", ">=", 1)>>]],
    [tags |-> {"effort:high", "violent:low"}, mult |-> 50,
     test |-> [is |-> "and", of |-> <<Asks("Adrenaline", ">=", 1),
                [is |-> "or", of |-> <<Tagged("effort:high"), Tagged("violent:low")>>]>>]] }
Costs == [t \in {"effort:low", "effort:high", "violent:low", "norm:transgressive", "social"} |->
           CASE t = "effort:low" -> 20 [] t = "effort:high" -> 90 [] t = "violent:low" -> 45
             [] t = "norm:transgressive" -> 150 [] OTHER -> 5]
Mind == INSTANCE Deliberation WITH
  Catalogue <- NineActs, Gates <- FourGates, TagCost <- Costs,
  NeedRate <- [Satiety |-> 1, Social |-> 1], Threshold <- [Satiety |-> 1, Social |-> 1],
  Dims <- <<"Rest", "Satiety", "Social">>,
  HasPred <- [Rest |-> "has_Rest", Satiety |-> "has_Satiety", Social |-> "has_Social"],
  Facts <- {"at_target", "near_other", "has_food", "owned_by_other"},
  Levels <- [Intelligence |-> {0, 2}, Honesty |-> {0, 1}, Urgency |-> {0, 2}, Stamina |-> {0, 1}, Adrenaline |-> {1}],
  UrgencyThreshold <- 1, Lookahead <- 1, BaseHorizon <- 2, MaxIntelligence <- 2,
  MaxNodes <- 16, MaxDepth <- 6, MaxActions <- 8, Intensities <- {0, 1}

-----------------------------------------------------------------------------
(* Drives: two needs of its own and its safety, one other agent.                  *)

Heart == INSTANCE Drives WITH
  Needs <- <<"Safety", "Satiety", "Social">>, Consumable <- {"Satiety", "Social"}, Safety <- "Safety",
  Rate <- [Satiety |-> 1, Social |-> 1, Safety |-> 0],
  Setpoint <- [Satiety |-> 4, Social |-> 4, Safety |-> 4],
  Weight <- [Satiety |-> 3, Social |-> 2, Safety |-> 4], Unit <- 4,
  Relief <- [Satiety |-> 4, Social |-> 3, Safety |-> 0], Toil <- [Satiety |-> 2, Social |-> 1, Safety |-> 2],
  PerThreat <- 2, SafetyDecay <- 1, Stickiness <- 2, GoalDeadband <- 1,
  Others <- {"ann"}, MinCare <- 1, BondGain <- 1, Affinities <- {0, 2}, Moods <- {0, 1, 3},
  Members <- 3, Alarm <- 1, Unsafe <- {[sum |-> 0, least |-> 0], [sum |-> 5, least |-> 1], [sum |-> 8, least |-> 4]},
  Modes <- {"mean", "min"}, Protects <- TRUE, MaxThreats <- 1, Cap <- 8, Patience <- 6

-----------------------------------------------------------------------------
(* Physique: the balance keeps the order of content/balance.yaml: rest gives less than a    *)
(* crash takes, and sleep more.                                              *)

FiveActs == [Talk |-> [drain |-> 0, rest |-> 0, difficulty |-> 0], Rest |-> [drain |-> 0, rest |-> 1, difficulty |-> 0],
             Sleep |-> [drain |-> 0, rest |-> 3, difficulty |-> 0], Forage |-> [drain |-> 1, rest |-> 0, difficulty |-> 2],
             Hunt |-> [drain |-> 3, rest |-> 0, difficulty |-> 4]]
Flesh == INSTANCE Physique WITH
  Acts <- FiveActs, StaminaMax <- 7, RegenRest <- 1, RegenSleep <- 3, SleepRestRate <- 3,
  AdrMax <- 5, AdrSurge <- 3, AdrDecay <- 1, CrashDebt <- 2, Dip <- 1, Pull <- 3, Lambda <- 2, Whole <- 4,
  RealSkill <- 2, MaxSkill <- 4, HardStamina <- 3, ApathyMood <- -5, RageAdrenaline <- 4,
  Nights <- 3, Calm <- 2, Settling <- 3, Practice <- 2

-----------------------------------------------------------------------------
(* Instinct: the rabbit of content/objects.yaml, its utilities forty times.        *)

RabbitActs == <<"Flee", "Graze", "Hide", "MoveTo", "Rest", "Sleep", "Wary">>
RabbitUtility(a, d, food, day) ==
  CASE a = "Flee" -> 60 * d.fear - 120
    [] a = "Graze" -> d.hunger * (3 + 10 * food) - 18 * d.fear
    [] a = "Hide" -> 70 * d.fear - 140
    [] a = "MoveTo" -> 4
    [] a = "Rest" -> 4 * d.fatigue - 5 * d.hunger - 25 * d.fear
    [] a = "Sleep" -> 32 * (1 - day) + 3 * d.fatigue - 5 * d.hunger - 30 * d.fear
    [] a = "Wary" -> 11 * d.fear
Wolf(o, c) == [id |-> 1, off |-> o, concealed |-> c]
Rabbit == INSTANCE Instinct WITH
  Acts <- RabbitActs,
  Channel <- [Flee |-> "flee:predator", Graze |-> "seek:food", Hide |-> "seek:cover", MoveTo |-> "",
              Rest |-> "no:locomotion", Sleep |-> "state:sleep", Wary |-> "wary:predator"],
  Effort <- [Flee |-> 1, Graze |-> -1, Hide |-> 1, MoveTo |-> -1, Rest |-> -1, Sleep |-> -3, Wary |-> -1],
  Utility <- RabbitUtility, HungerRate <- 1, FatigueRate <- 1, FearDecay <- 1, WaryLevel <- 2, FleeLevel <- 4,
  Full <- 4, VitalDrainAbove <- 4, MaxVital <- 2, GrazeGain <- 2, WakeCooldown <- 2, DormantPeriod <- 3,
  SleepWake <- 1, SightSq <- 18, FovSq <- 33,
  Packs <- {{}, {Wolf(<<2, 1>>, FALSE)}, {Wolf(<<3, 0>>, TRUE)}, {Wolf(<<-1, 0>>, FALSE)}},
  Offsets <- (0..4) \X (-4..4), Scents <- {0, 1, 2}

-----------------------------------------------------------------------------
(* Formula: five of fifteen keys.                                              *)

Script == INSTANCE Formula WITH
  Keys <- {"A", "p", "h", "1", ".", " ", "(", ")", "-", "*", "<", "=", "!", "&", "|"},
  KnownStats <- {<<"A">>}, KnownPreds <- [n \in {<<"p">>, <<"h">>} |-> IF n = <<"p">> THEN 0 ELSE 1],
  Want <- "bool", Values <- {-1, 0, 2}, MaxLength <- 5

-----------------------------------------------------------------------------
(* The stores: hours for the windows of a day; three observers with two roles among them. *)

Redis == INSTANCE LiveKeys WITH Beings <- {"ann"}, Blobs <- {1}, Ticks <- {0}, Revisions <- {1, 2}
God == INSTANCE GodView WITH
  Agents <- {"ann", "bob", "cid"}, Stats <- {"wit"}, Functions <- {"heal", "rule"},
  Means <- {1, 2}, Shares <- {1}, Settled <- {<<>>, [heal |-> "ann", rule |-> "bob"]},
  MaxChanges <- 3

(* The frames: one agent, two animals and two plants of which the second is yet to come. *)

Screen == INSTANCE Frames WITH
  Agents <- {"ann"}, Animals <- {"fox", "kit"}, Plants <- {"oak", "nut"}, Cells <- {"ford"},
  Sites <- {"home"}, Poses <- {"trot"}, Stages <- {0, 1}, Kinds <- {"ice", "water"},
  Goals <- {"eat", "safe"}, Safe <- "safe", Plans <- {<<"walk">>, <<"run", "hide">>},
  Founders <- [animals |-> [fox |-> "trot"], flora |-> [oak |-> 0], terrain |-> [ford |-> "water"]],
  changes <- shocks, MaxChanges <- 3

-----------------------------------------------------------------------------
Init ==
  /\ focus \in {"ground", "genesis", "scent", "senses", "mind", "drives", "body", "instinct", "formula",
               "redis", "postgres", "god", "screen"}
  /\ GroundInit /\ Dawn!GenesisInit /\ ScentInit /\ Eye!SensesInit /\ Mind!DeliberationInit /\ Heart!DrivesInit /\ Flesh!PhysiqueInit
  /\ Rabbit!InstinctInit /\ Script!FormulaInit
  /\ Redis!LiveKeysInit /\ BackupInit /\ God!GodViewInit /\ Screen!FramesInit
  /\ focus # "body" => skill = 0
  /\ focus # "instinct" => cadence = 0
  /\ focus # "redis" => ~ttl
  /\ focus # "postgres" => lag = 0
  /\ focus # "god" => ~godMode /\ roles = <<>>
  /\ focus # "screen" => lastAgentFrame = <<>>

Next ==
  \/ /\ focus = "ground" /\ GroundNext
     /\ UNCHANGED <<focus, dawn, scentVars, eyes, mind, heart, body, rabbit, text, redis, backupVars, god, screen>>
  \/ /\ focus = "genesis" /\ Dawn!GenesisNext
     /\ UNCHANGED <<focus, groundVars, scentVars, eyes, mind, heart, body, rabbit, text, redis, backupVars, god, screen>>
  \/ /\ focus = "scent" /\ ScentNext
     /\ UNCHANGED <<focus, groundVars, dawn, eyes, mind, heart, body, rabbit, text, redis, backupVars, god, screen>>
  \/ /\ focus = "senses" /\ Eye!SensesNext
     /\ UNCHANGED <<focus, groundVars, dawn, scentVars, mind, heart, body, rabbit, text, redis, backupVars, god, screen>>
  \/ /\ focus = "mind" /\ Mind!DeliberationNext
     /\ UNCHANGED <<focus, groundVars, dawn, scentVars, eyes, heart, body, rabbit, text, redis, backupVars, god, screen>>
  \/ /\ focus = "drives" /\ Heart!DrivesNext
     /\ UNCHANGED <<focus, groundVars, dawn, scentVars, eyes, mind, body, rabbit, text, redis, backupVars, god, screen>>
  \/ /\ focus = "body" /\ Flesh!PhysiqueNext
     /\ UNCHANGED <<focus, groundVars, dawn, scentVars, eyes, mind, heart, rabbit, text, redis, backupVars, god, screen>>
  \/ /\ focus = "instinct" /\ Rabbit!InstinctNext
     /\ UNCHANGED <<focus, groundVars, dawn, scentVars, eyes, mind, heart, body, text, redis, backupVars, god, screen>>
  \/ /\ focus = "formula" /\ Script!FormulaNext
     /\ UNCHANGED <<focus, groundVars, dawn, scentVars, eyes, mind, heart, body, rabbit, redis, backupVars, god, screen>>
  \/ /\ focus = "redis" /\ Redis!LiveKeysNext
     /\ UNCHANGED <<focus, groundVars, dawn, scentVars, eyes, mind, heart, body, rabbit, text, backupVars, god, screen>>
  \/ /\ focus = "postgres" /\ BackupNext
     /\ UNCHANGED <<focus, groundVars, dawn, scentVars, eyes, mind, heart, body, rabbit, text, redis, god, screen>>
  \/ /\ focus = "god" /\ stored = God!None /\ God!GodViewNext
     /\ UNCHANGED <<focus, groundVars, dawn, scentVars, eyes, mind, heart, body, rabbit, text, redis, backupVars, screen>>
  \/ /\ focus = "screen" /\ Screen!FramesNext
     /\ UNCHANGED <<focus, groundVars, dawn, scentVars, eyes, mind, heart, body, rabbit, text, redis, backupVars, god>>

Spec == Init /\ [][Next]_<<focus, groundVars, dawn, scentVars, eyes, mind, heart, body, rabbit, text, redis, backupVars, god, screen>>

-----------------------------------------------------------------------------
(* What each faculty promises, in the words of its module.                       *)

\* The ground and what is sensed on it: routes are the cheapest for whoever walks and whoever
\* swims, fields are the strongest of their sources, an undone change leaves no trace; rivers run
\* to the sea, it is wet near water, and who settles a new world can live there; nothing smells
\* that is not there, a plume leads to its source, tracks are fresh; who is near is found wherever
\* it went, what hides stands between, the wind is broken in the lee alone, cover tempers the
\* weather (navmap, pathfind, field, worldgen, scent, spatial, perception, exposure).
GroundSound ==
  /\ focus = "ground" =>
       /\ RoutesCheapest({<<0, 0>>}, {}) /\ RoutesCheapest({<<0, 0>>}, {"swim"})
       /\ FieldIsMax(Hazard) /\ FieldIsMax(Water)
       /\ OverridesAreChanges
  /\ focus = "genesis" => Dawn!RiversRun /\ Dawn!WetByDistance /\ Dawn!Settled
  /\ focus = "scent" => ScentBalanced /\ PlumeLeadsHome /\ TracksAreFresh
  /\ focus = "senses" => Eye!NearbyExact /\ Eye!SightIsLine /\ Eye!LeeOnly /\ Eye!CoverBetween

\* The agent's mind: plans can be carried out and are the cheapest, no need starves however
\* goals stick, strangers stir no urgency, and a plan left alone runs to its end; exhaustion, gloom
\* and rage pass, and it learns what to expect of itself (planner, values, agent).
MindSound ==
  /\ focus = "mind" => Mind!PlanRuns /\ Mind!PlanCheapest
  /\ focus = "drives" => Heart!NoNeedStarves /\ Heart!UrgencyFromCare /\ Heart!PlansRun
  /\ focus = "body" =>
       Flesh!SleepRestores /\ Flesh!MoodHeals /\ Flesh!ExpectsNoMore /\ Flesh!RagePasses

\* The animal's mind and the formulas it is written in: dormancy is never deaf, none starves amid
\* plenty, flight is apart; a formula means what it says and evaluates everywhere (fauna, expr).
InstinctSound ==
  /\ focus = "instinct" => Rabbit!Vigilant /\ Rabbit!FedAmidPlenty /\ Rabbit!FleesApart
  /\ focus = "formula" => Script!ReadsAsWritten /\ Script!EvaluatesEverywhere

\* The stores and what is shown of them: the fakes the tests run on behave as the stores do, a
\* marker stands until the next, nothing of an expired run lingers; and the god view shows minds
\* as they were stored, channel by channel, to those alone who may see them; on the screen
\* differences, rows, births and deaths add up to the world.
StoresSound ==
  /\ focus = "redis" => Redis!StubMirrors /\ Redis!MarkerStands /\ Redis!NothingLingers
  /\ focus = "postgres" => FakePrunesAlike
  /\ focus = "god" =>
       God!ReputationIsSpread /\ God!ChannelsApart /\ God!GateHolds /\ God!FactionsFollowEdges
  /\ focus = "screen" => Screen!AgentsDrawn /\ Screen!NatureDrawn
=============================================================================
