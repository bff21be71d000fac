----------------------------- MODULE MCWildlife -----------------------------
(* Small worlds of wolves, deer and goats for TLC. *)
EXTENDS Wildlife

\* wolves hunt deer; deer evade and rest; goats, which nothing here hunts, court
Kinds == {"wolf", "deer", "goat"}
Wolves == {"wolf"}
Food == [s \in Kinds |-> IF s = "wolf" THEN {"deer"} ELSE {}]
Habits == [s \in Kinds |-> CASE s = "wolf" -> {"Attack", "Rest"}
                             [] s = "deer" -> {"Evade", "Rest"}
                             [] s = "goat" -> {"Mate", "Rest"}]

\* in World1 the two wolves are a match for each other, in World2 the later is stronger
Muscle == [i \in Ids |-> IF i = 1 THEN 1 ELSE 2]

\* two wolves after one deer, which has the lowest or the highest ID; a herd of goats
World1 == <<"deer", "wolf", "wolf">>
World2 == <<"wolf", "wolf", "deer">>
World3 == <<"goat", "goat", "goat">>
Worlds == {World1, World2, World3}

\* the prey come back as they were; a lost predator does not
ComeBack(h, s) == IF s = "wolf" THEN 0 ELSE Cardinality({i \in DOMAIN h : h[i] = s})
=============================================================================
