----------------------------- MODULE Deliberation -----------------------------
(***************************************************************************)
(* How an agent turns the need it minds most into a sequence of actions          *)
(* (engine/mind/planner over the registries of engine/mind/actions, gates and     *)
(* needs): backwards from the goal through producers and their preconditions,       *)
(* past the gates its nature and its state put before actions, within a budget.      *)
(* The facts it starts from and its own state change as it lives.                     *)
(*                                                                         *)
(* Abstractions.  Costs are whole numbers (hundredths), a stat or a body scalar       *)
(* is one of a few levels, and sequences of IDs are in ID order as Load sorts them.     *)
(* Of the trace the cost is kept; that gates were relaxed shows in the plan it allows.    *)
(***************************************************************************)
EXTENDS Integers, Sequences, FiniteSets, FiniteSetsExt, SequencesExt

CONSTANTS
  Catalogue,    \* actions.Registry: in ID order, [id, tags, requires, any, produces]
  Gates,        \* gates.Registry: a set of [tags, test, mult]; mult = 0 for a visibility gate
  TagCost,      \* planner.tag_costs
  NeedRate, Threshold, \* of each consumable need: decay per tick and setpoint
  Dims, HasPred, \* the dimensions in order of ID; the predicate of having each
  Facts,        \* the predicates the world may make true
  Levels,       \* of each stat and body scalar: the values it takes here
  UrgencyThreshold, Lookahead, BaseHorizon, MaxIntelligence,
  MaxNodes, MaxDepth, MaxActions,
  Intensities   \* bound: the need intensities considered

VARIABLES
  facts,        \* AgentSnapshot.SatisfiedFacts
  self,         \* its own idea of its stats, and its body: name -> level
  intensity,    \* NeedIntensities
  goal          \* the dimension that leads the priorities
mindVars == <<facts, self, intensity, goal>>

-----------------------------------------------------------------------------
(* Gates.                                                                    *)

Compare(v, op, x) ==
  CASE op = ">=" -> v >= x [] op = ">" -> v > x [] op = "<" -> v < x
    [] op = "<=" -> v <= x [] op = "==" -> v = x [] op = "!=" -> v # x

RECURSIVE EvalExpr(_, _)
EvalExpr(expr, tags) ==
  CASE expr.is = "level" -> Compare(self[expr.of], expr.op, expr.than)  \* a stat or a body scalar
    [] expr.is = "tag" -> expr.of \in tags
    [] expr.is = "and" -> \A i \in DOMAIN expr.of : EvalExpr(expr.of[i], tags)
    [] expr.is = "or" -> \E i \in DOMAIN expr.of : EvalExpr(expr.of[i], tags)
    [] expr.is = "not" -> ~EvalExpr(expr.of, tags)

Matching(a) == {g \in Gates : g.tags = {} \/ g.tags \cap a.tags # {}}
Shown(a) == \A g \in Matching(a) : g.mult # 0 \/ EvalExpr(g.test, a.tags)
\* cost rules never hide; their multipliers are in hundredths
Multiplied(a, cost) ==
  FoldSet(LAMBDA g, c : (c * g.mult) \div 100, cost, {g \in Matching(a) : g.mult # 0 /\ EvalExpr(g.test, a.tags)})

Cost(a) == Multiplied(a, FoldSet(LAMBDA t, c : c + TagCost[t], 0, a.tags \cap DOMAIN TagCost))

\* a hidden action is available to the desperate
Visible_Always(a) == TRUE
Visible(a) == Shown(a) \/ self.Urgency > UrgencyThreshold

-----------------------------------------------------------------------------
(* The search.                                                               *)

Producers(p) == SelectSeq(Catalogue, LAMBDA a : p \in a.produces)

\* a result: ok | unreachable | budget, with the nodes expanded so far
Found(seq, cost, n) == [kind |-> "ok", seq |-> seq, cost |-> cost, n |-> n]
Failed(kind, n) == [kind |-> kind, seq |-> <<>>, cost |-> 0, n |-> n]
Joined(first, then) == Found(first.seq \o then.seq, first.cost + then.cost, then.n)
Within(r) == IF Len(r.seq) > MaxActions THEN Failed("budget", r.n) ELSE r

RECURSIVE FindBestSequence(_, _), Prepare(_, _)

\* findBestSequence: the cheapest visible producer with what it needs first.  All producers
\* are expanded before any is followed; one too long with its preparation is passed over.
Cheaper(best, a, pre) ==
  IF pre.kind = "budget" THEN pre
  ELSE IF pre.kind = "unreachable" \/ Len(pre.seq) + 1 > MaxActions
          \/ (best.kind = "ok" /\ pre.cost + Cost(a) >= best.cost)
  THEN [best EXCEPT !.n = pre.n]
  ELSE Found(Append(pre.seq, a), pre.cost + Cost(a), pre.n)
FindBestSequence(p, n) ==
  LET all == Producers(p)
      consider(best, a) == IF best.kind = "budget" THEN best ELSE Cheaper(best, a, Prepare(a, best.n))
  IN IF p \in facts THEN Found(<<>>, 0, n)
     ELSE IF n + Len(all) > MaxNodes THEN Failed("budget", n)
     ELSE FoldLeft(consider, Failed("unreachable", n + Len(all)), SelectSeq(all, Visible))

\* decomposePreconditions: everything required, each for itself and in order, then the
\* cheapest of the alternatives (a true one ends the look for others)
Easier(best, r) ==
  IF r.kind = "budget" THEN r
  ELSE IF r.kind = "unreachable"
          \/ (best.kind = "ok" /\ r.seq # <<>>
                /\ (r.cost > best.cost \/ (r.cost = best.cost /\ Len(r.seq) >= Len(best.seq))))
  THEN [best EXCEPT !.n = r.n]
  ELSE r
Prepare_FirstOnly(a, n) ==
  LET r == FindBestSequence(a.requires[1], n) IN IF a.requires = <<>> THEN Found(<<>>, 0, n) ELSE r
Prepare(a, n) ==
  LET both(acc, r) == IF r.kind # "ok" THEN r ELSE Joined(acc, r)
      require(acc, p) == IF acc.kind # "ok" THEN acc ELSE both(acc, FindBestSequence(p, acc.n))
      alternative(best, p) ==
        IF best.kind = "budget" \/ (best.kind = "ok" /\ best.seq = <<>>) THEN best
        ELSE Easier(best, FindBestSequence(p, best.n))
      choose(needed) ==
        IF needed.kind # "ok" \/ a.any = <<>> THEN needed
        ELSE Within(both(needed, FoldLeft(alternative, Failed("unreachable", needed.n), a.any)))
  IN IF MaxDepth <= 0 THEN Failed("budget", n)
     ELSE choose(Within(FoldLeft(require, Found(<<>>, 0, n), a.requires)))

-----------------------------------------------------------------------------
(* Foresight and the plan.                                                   *)

\* computeHorizon: none for those who think too little of their wits
ComputeHorizon ==
  IF self.Intelligence < Lookahead THEN 0 ELSE Max({1, (BaseHorizon * self.Intelligence) \div MaxIntelligence})

\* forwardSimProvision: Demand over the horizon against what is left before the threshold
Provisioned ==
  IF ComputeHorizon = 0 THEN <<>>
  ELSE SelectSeq(Dims, LAMBDA d : d \in DOMAIN NeedRate /\ NeedRate[d] * ComputeHorizon > Threshold[d] - intensity[d])

Has(d) == HasPred[d]   \* dimensionToProducerPredicate

Preceded(own, first) ==
  IF first.kind = "budget" \/ Len(own.seq) > MaxActions THEN Failed("budget", first.n)
  ELSE Within(Found(first.seq \o own.seq, first.cost + own.cost, first.n))
Plan ==
  LET also(acc, r) == IF r.kind = "budget" THEN r ELSE Joined(acc, r)   \* unreachable adds nothing
      provide(acc, d) == IF acc.kind = "budget" THEN acc ELSE also(acc, FindBestSequence(Has(d), acc.n))
      foresee(own) ==
        IF own.kind # "ok" THEN own
        ELSE Preceded(own, FoldLeft(provide, Found(<<>>, 0, own.n), Provisioned))
  IN foresee(FindBestSequence(Has(goal), 0))

-----------------------------------------------------------------------------
(* What changes between two plans.                                            *)

Learn == \E p \in Facts : facts' = (facts \cup {p}) \ (facts \cap {p}) /\ UNCHANGED <<self, intensity, goal>>
Change == \E x \in DOMAIN self : \E v \in Levels[x] : self' = [self EXCEPT ![x] = v] /\ UNCHANGED <<facts, intensity, goal>>
Want == \E d \in DOMAIN NeedRate, v \in Intensities : intensity' = [intensity EXCEPT ![d] = v] /\ UNCHANGED <<facts, self, goal>>
Turn == \E d \in Range(Dims) : goal' = d /\ UNCHANGED <<facts, self, intensity>>

DeliberationInit ==
  /\ facts = {} /\ goal = Head(Dims)
  /\ self = [x \in DOMAIN Levels |-> Min(Levels[x])]
  /\ intensity = [d \in DOMAIN NeedRate |-> 0]
DeliberationNext == Learn \/ Change \/ Want \/ Turn

-----------------------------------------------------------------------------
(* Properties, and what they compare with.                                   *)

Never == 1000000
Usable == {a \in Range(Catalogue) : Shown(a) \/ self.Urgency > UrgencyThreshold}
Known == facts \cup {Has(d) : d \in Range(Dims)} \cup UNION {a.produces : a \in Range(Catalogue)}

\* the least cost of making each predicate true with what is visible, by rounds: alternatives
\* once, requirements each for itself
RECURSIVE Least(_, _)
Least(c, rounds) ==
  IF rounds = 0 THEN c
  ELSE LET of(p) == IF p \in DOMAIN c THEN c[p] ELSE Never
           prepare(a) == FoldLeft(LAMBDA s, p : s + of(p), 0, a.requires)
                         + IF a.any = <<>> THEN 0 ELSE Min({of(p) : p \in Range(a.any)})
           ways(p) == {Cost(a) + prepare(a) : a \in {a \in Usable : p \in a.produces}}
       IN Least([p \in Known |-> IF p \in facts THEN 0 ELSE Min({Never} \cup ways(p))], rounds - 1)
LeastCost == Least([p \in facts |-> 0], Len(Catalogue) + 1)

\* A plan can be carried out: run in its order from the facts it was made from, every action
\* finds its preconditions true, none is hidden from the agent unless it is desperate, and at
\* the end the goal holds and with it every need that was provided for and can be.
Runs(plan, least) ==
  plan.kind = "ok" =>
    LET seq == plan.seq
        true(i) == facts \cup UNION {seq[j].produces : j \in 1..(i - 1)}
    IN /\ \A i \in DOMAIN seq :
            /\ Range(seq[i].requires) \subseteq true(i)
            /\ seq[i].any # <<>> => Range(seq[i].any) \cap true(i) # {}
            /\ Shown(seq[i]) \/ self.Urgency > UrgencyThreshold
       /\ Has(goal) \in true(Len(seq) + 1)
       /\ Len(seq) <= MaxActions
       /\ \A d \in Range(Provisioned) : least[Has(d)] < Never => Has(d) \in true(Len(seq) + 1)
PlanRuns == Runs(Plan, LeastCost)

\* It is the cheapest there is; and that there is none is said only when no visible action
\* leads there or the shortest way is too long for one plan.
Cheapest(own, least) ==
  /\ own.kind = "ok" => own.cost = least[Has(goal)]
  /\ own.kind = "unreachable" => least[Has(goal)] >= Never
  /\ own.kind = "budget" => own.n + Max({Len(Producers(p)) : p \in Known}) > MaxNodes
PlanCheapest == Cheapest(FindBestSequence(Has(goal), 0), LeastCost)
=============================================================================
