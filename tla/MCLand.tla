------------------------------- MODULE MCLand -------------------------------
(* A small land for TLC: a pond and its shore, in one climate cell. *)
EXTENDS Land, TLC

CONSTANT Tuft   \* the fixture's only plant

SmallSites == {"water", "shore"}
Terrains == [s \in SmallSites |-> IF s = "water" THEN "lake" ELSE "soil"]
Lands == {"lake", "soil", "dry_dirt", "ice"}
Grid == [s \in SmallSites |-> "west"]
Centres == [c \in {"west"} |-> "water"]
Grass == Tuft :> "shore"

\* moisture bands: below 0.20, up to 0.40, above
Cold == {"frost"}
AnyTemp == {"frost", "warm"}
Content ==
  << [from |-> "lake", to |-> "ice", temps |-> Cold, bands |-> 0..2],
     [from |-> "ice", to |-> "__origin__", temps |-> {"warm"}, bands |-> 0..2],
     [from |-> "soil", to |-> "dry_dirt", temps |-> AnyTemp, bands |-> {0}],
     [from |-> "dry_dirt", to |-> "soil", temps |-> AnyTemp, bands |-> {2}],
     [from |-> "lake", to |-> "dry_dirt", temps |-> AnyTemp, bands |-> {0}] >>
Carcass == << [at |-> 0, yields |-> <<>>], [at |-> 1, yields |-> <<"bone">>], [at |-> 2, yields |-> <<>>] >>
=============================================================================
