------------------------------ MODULE MCVillage ------------------------------
(* Small villages for TLC. *)
EXTENDS Village

\* two bushes to gather from, at which nobody is better, and a fight that frightens the other
SmallActs == {"walk", "gather", "fight"}
KindOf == [o \in Objects |-> "bush"]
Works == [x \in SmallActs |-> IF x = "gather" THEN "bush" ELSE None]
Lasts == [x \in SmallActs |-> IF x = "fight" THEN 1 ELSE 2]
Needs == [x \in SmallActs |-> IF x = "fight" THEN 2 ELSE 0]
Menu == [d \in Dims |-> CASE d = 1 -> {<<"gather">>, <<"walk", "gather">>} [] d = 2 -> {<<"fight">>}
                          [] d = 3 -> {<<"gather">>}]
Skill == [a \in Agents |-> [x \in SmallActs |-> IF x = "gather" THEN 1 ELSE a]]
=============================================================================
