------------------------------- MODULE Formula -------------------------------
(***************************************************************************)
(* The formula language of the content files (engine/kernel/expr): what an      *)
(* author writes is cut into tokens, parsed by recursive descent, checked for     *)
(* kinds, and, if it is accepted, evaluated tick after tick against whatever        *)
(* stats and attributes there are.  The author types one character after another.    *)
(*                                                                         *)
(* Abstractions.  A character stands for its class: one letter of either case and     *)
(* one digit; of the six comparisons four, so that both two-character operators          *)
(* that begin like another are there.  Numbers are whole; a quotient is rounded down.     *)
(* A refusal is kept by the place it is given for.                               *)
(***************************************************************************)
EXTENDS Integers, Sequences, FiniteSets, FiniteSetsExt, SequencesExt

CONSTANTS
  Keys,         \* the characters the author uses
  KnownStats,   \* StatSet
  KnownPreds,   \* KnownPred: name -> arity
  Want,         \* the kind the site of the formula asks for
  Values,       \* what a stat or an attribute may be
  MaxLength     \* bound: characters

VARIABLE text   \* what has been typed

Lower == {"x", "p", "h"}
Upper == {"A"}
Letters == Lower \cup Upper
Nothing == <<>>

-----------------------------------------------------------------------------
(* lex: the longest token that begins here.                                  *)

Pairs == {<<"<", "=">>, <<">", "=">>, <<"=", "=">>, <<"!", "=">>}
Single == {"(", ")", "+", "-", "*", "/", "<", ">", "!", "&", "|"}
\* the last place of the run of characters of S from i on
RunEnd(s, i, S) == Max({j \in i..Len(s) : \A k \in i..j : s[k] \in S})

RECURSIVE Lex(_, _)
Lex(s, i) ==
  IF i > Len(s) THEN <<[is |-> "end", name |-> Nothing]>>
  ELSE IF s[i] = " " THEN Lex(s, i + 1)
  ELSE LET word == RunEnd(s, i, Letters \cup {"1", "."})
           whole == RunEnd(s, i, {"1"})
           number == IF whole < Len(s) /\ s[whole + 1] = "." THEN IF whole + 1 < Len(s) /\ s[whole + 2] = "1" THEN RunEnd(s, whole + 2, {"1"}) ELSE whole + 1 ELSE whole
           token(kind, j) == <<[is |-> kind, name |-> SubSeq(s, i, j)]>> \o Lex(s, j + 1)
       IN IF s[i] \in Letters THEN token("word", word)
          ELSE IF s[i] = "1" THEN token("number", number)
          ELSE IF i < Len(s) /\ <<s[i], s[i + 1]>> \in Pairs THEN token("operator", i + 1)
          ELSE IF s[i] \in Single THEN token("operator", i)
          ELSE <<[is |-> "bad", name |-> <<s[i]>>]>>   \* "=" alone, or an unknown character

-----------------------------------------------------------------------------
(* The parser.  A result is a node and the place after it, or the place of an error. *)

Levels == << {<<"|">>}, {<<"&">>},
             {<<"<">>, <<">">>, <<"<", "=">>, <<">", "=">>, <<"=", "=">>, <<"!", "=">>},
             {<<"+">>, <<"-">>}, {<<"*">>, <<"/">>} >>
Node(node, next) == [ok |-> TRUE, node |-> node, next |-> next]
Wrong(at) == [ok |-> FALSE, next |-> at]
IsOp(token, S) == token.is = "operator" /\ token.name \in S
Leaf(is, name) == [is |-> is, name |-> name]

\* classifyBare
Bare(name) ==
  IF \E i \in DOMAIN name : name[i] = "." THEN Leaf("attr", name)
  ELSE IF name \in DOMAIN KnownPreds /\ KnownPreds[name] = 0 THEN Leaf("pred", name)
  ELSE IF name[1] \in Upper THEN Leaf("stat", name)
  ELSE Leaf("attr", name)

\* parsePredCall
PredCall(ts, i) ==
  IF ~(ts[i].name \in DOMAIN KnownPreds /\ KnownPreds[ts[i].name] = 1) THEN Wrong(i)
  ELSE IF ts[i + 2].is # "word" THEN Wrong(i + 2)
  ELSE IF ~IsOp(ts[i + 3], {<<")">>}) THEN Wrong(i + 3)
  ELSE Node([is |-> "pred", name |-> ts[i].name, of |-> ts[i + 2].name], i + 4)

RECURSIVE Level(_, _, _), Loop(_, _, _), Unary(_, _)
Primary(ts, i) ==
  CASE ts[i].is = "number" -> Node(Leaf("lit", ts[i].name), i + 1)
    [] IsOp(ts[i], {<<"(">>}) ->
         LET inner == Level(1, ts, i + 1) IN
         IF ~inner.ok THEN inner
         ELSE IF IsOp(ts[inner.next], {<<")">>}) THEN Node(inner.node, inner.next + 1) ELSE Wrong(inner.next)
    [] ts[i].is = "word" ->
         IF IsOp(ts[i + 1], {<<"(">>}) THEN PredCall(ts, i)
         ELSE IF Bare(ts[i].name).is = "stat" /\ ts[i].name \notin KnownStats THEN Wrong(i)
         ELSE Node(Bare(ts[i].name), i + 1)
    [] OTHER -> Wrong(i)

Unary(ts, i) ==
  IF ~IsOp(ts[i], {<<"!">>}) THEN Primary(ts, i)
  ELSE LET r == Unary(ts, i + 1) IN IF r.ok THEN Node([is |-> "not", left |-> r.node], r.next) ELSE r

\* parseOr, parseAnd, parseCmp, parseAddSub and parseMulDiv have one shape: operands of the
\* next level, gathered to the left as long as operators of this level follow
Loop(k, ts, left) ==
  IF ~left.ok \/ ~IsOp(ts[left.next], Levels[k]) THEN left
  ELSE LET right == IF k = 5 THEN Unary(ts, left.next + 1) ELSE Level(k + 1, ts, left.next + 1) IN
       IF right.ok
       THEN Loop(k, ts, Node([is |-> "op", op |-> ts[left.next].name, left |-> left.node, right |-> right.node], right.next))
       ELSE right
Level_RightFirst(k, ts, i) ==
  LET left == IF k = 5 THEN Unary(ts, i) ELSE Level(k + 1, ts, i) IN
  IF ~left.ok \/ ~IsOp(ts[left.next], Levels[k]) THEN left
  ELSE LET right == Level(k, ts, left.next + 1) IN
       IF right.ok THEN Node([is |-> "op", op |-> ts[left.next].name, left |-> left.node, right |-> right.node], right.next) ELSE right
Level(k, ts, i) == Loop(k, ts, IF k = 5 THEN Unary(ts, i) ELSE Level(k + 1, ts, i))

-----------------------------------------------------------------------------
(* typecheck, collectReads and evalNode.                                     *)

Logical == {<<"&">>, <<"|">>}
RECURSIVE Typecheck(_), Reads(_), EvalNode(_, _)
Typecheck(n) ==
  CASE n.is \in {"lit", "stat", "attr"} -> "num"
    [] n.is = "pred" -> "bool"
    [] n.is = "not" -> IF Typecheck(n.left) = "bool" THEN "bool" ELSE "error"
    [] n.is = "op" ->
         LET operand == IF n.op \in Logical THEN "bool" ELSE "num" IN
         IF Typecheck(n.left) # operand \/ Typecheck(n.right) # operand THEN "error"
         ELSE IF n.op \in Levels[4] \cup Levels[5] THEN "num" ELSE "bool"

Reads(n) ==
  CASE n.is = "lit" -> {}
    [] n.is \in {"stat", "attr", "pred"} -> {n.name}
    [] n.is = "not" -> Reads(n.left)
    [] n.is = "op" -> Reads(n.left) \cup Reads(n.right)

\* Parse: the program, if the whole is a formula of the kind wanted
Parsed(s) ==
  LET ts == Lex(s, 1) IN
  IF \E i \in DOMAIN ts : ts[i].is = "bad" THEN Wrong(0)
  ELSE LET r == Level(1, ts, 1) IN IF r.ok /\ ts[r.next].is # "end" THEN Wrong(r.next) ELSE r
Accepted(s) == LET r == Parsed(s) IN r.ok /\ Typecheck(r.node) = Want

\* a digit is one; an attribute that is missing is zero
EvalNode(n, ctx) ==
  CASE n.is = "lit" -> Cardinality({i \in DOMAIN n.name : n.name[i] = "1"})
    [] n.is \in {"stat", "attr"} -> IF n.name \in DOMAIN ctx THEN ctx[n.name] ELSE 0
    [] n.is = "pred" -> n.name \in DOMAIN ctx /\ ctx[n.name] > 0
    [] n.is = "not" -> ~EvalNode(n.left, ctx)
    [] n.is = "op" ->
         LET l == EvalNode(n.left, ctx)
             r == EvalNode(n.right, ctx)
         IN CASE n.op = <<"|">> -> l \/ r
              [] n.op = <<"&">> -> l /\ r
              [] n.op = <<"<">> -> l < r
              [] n.op = <<">">> -> l > r
              [] n.op = <<"<", "=">> -> l <= r
              [] n.op = <<">", "=">> -> l >= r
              [] n.op = <<"=", "=">> -> l = r
              [] n.op = <<"!", "=">> -> l # r
              [] n.op = <<"+">> -> l + r
              [] n.op = <<"-">> -> l - r
              [] n.op = <<"*">> -> l * r
              [] n.op = <<"/">> -> IF r > 0 THEN l \div r ELSE IF r = 0 THEN 0 ELSE (-l) \div (-r)

-----------------------------------------------------------------------------
\* bound: nothing is typed after a mistake, which no more typing mends
Hopeful(s) ==
  LET ts == Lex(s, 1)
      r == Parsed(s)
  IN r.ok \/ r.next = Len(ts) \/ (ts[Len(ts)].is = "bad" /\ s[Len(s)] = "=")

FormulaInit == text = Nothing
FormulaNext ==
  /\ Len(text) < MaxLength /\ Hopeful(text)
  /\ \E c \in Keys : text' = Append(text, c)

-----------------------------------------------------------------------------
(* Properties, and what they compare with.                                   *)

\* The tree that the rules of precedence give a sequence of tokens, found from the top: split
\* at the last operator of the loosest level that stands outside all parentheses.
Depth(ts, i) ==
  Cardinality({j \in 1..i : IsOp(ts[j], {<<"(">>})}) - Cardinality({j \in 1..(i - 1) : IsOp(ts[j], {<<")">>})})
Outside(ts, S) == {i \in DOMAIN ts : IsOp(ts[i], S) /\ Depth(ts, i) = 0}

RECURSIVE Grammar(_)
Grammar(ts) ==
  LET n == Len(ts)
      loosest == {k \in DOMAIN Levels : Outside(ts, Levels[k]) # {}}
  IN IF loosest # {} THEN
       LET at == Max(Outside(ts, Levels[Min(loosest)]))
           left == Grammar(SubSeq(ts, 1, at - 1))
           right == Grammar(SubSeq(ts, at + 1, n))
       IN IF left = Nothing \/ right = Nothing THEN Nothing
          ELSE <<[is |-> "op", op |-> ts[at].name, left |-> left[1], right |-> right[1]]>>
     ELSE IF n >= 2 /\ IsOp(ts[1], {<<"!">>}) THEN
       LET inner == Grammar(Tail(ts)) IN IF inner = Nothing THEN Nothing ELSE <<[is |-> "not", left |-> inner[1]]>>
     ELSE IF n >= 2 /\ IsOp(ts[1], {<<"(">>}) /\ IsOp(ts[n], {<<")">>}) /\ \A i \in 2..n : Depth(ts, i) > 0
       THEN Grammar(SubSeq(ts, 2, n - 1))
     ELSE IF n = 1 /\ ts[1].is = "number" THEN <<Leaf("lit", ts[1].name)>>
     ELSE IF n = 1 /\ ts[1].is = "word" /\ (Bare(ts[1].name).is = "stat" => ts[1].name \in KnownStats)
       THEN <<Bare(ts[1].name)>>
     ELSE IF n = 4 /\ ts[1].is = "word" /\ IsOp(ts[2], {<<"(">>}) /\ ts[3].is = "word" /\ IsOp(ts[4], {<<")">>})
             /\ ts[1].name \in {p \in DOMAIN KnownPreds : KnownPreds[p] = 1}
       THEN <<[is |-> "pred", name |-> ts[1].name, of |-> ts[3].name]>>
     ELSE Nothing

\* A formula means what the precedence of its operators says, and everything else is refused:
\* descent finds the tree of the grammar whenever there is one, whatever is typed.
ReadsAsWritten ==
  LET ts == Lex(text, 1)
      r == Parsed(text)
  IN (\A i \in DOMAIN ts : ts[i].is # "bad") =>
       Grammar(Front(ts)) = IF r.ok THEN <<r.node>> ELSE Nothing

\* What is accepted can be evaluated wherever it is: it is of the kind the site wants in every
\* world, also where what it names is missing, and only what it reports to read can change it.
EvaluatesEverywhere ==
  Accepted(text) =>
    LET program == Parsed(text).node
        names == Reads(program)
        worlds == UNION {[S -> Values] : S \in SUBSET names}
    IN /\ \A w \in worlds : LET v == EvalNode(program, w) IN IF Want = "num" THEN v \in Int ELSE v \in BOOLEAN
       /\ \A w \in [names -> Values], v \in Values :
            EvalNode(program, [x \in names \cup {<<"x">>, <<"A">>, <<"p">>} |-> IF x \in names THEN w[x] ELSE v])
              = EvalNode(program, w)
=============================================================================
