----------------------------- MODULE MCRunDriver -----------------------------
(* Small instances of RunDriver.  Seed 1 is the fixture's map, 2 another. *)
EXTENDS RunDriver

OneSeed  == {2}
NoAnimals == {}
OneLayer  == {"flora"}
NoLayers  == {}
RedisOutages == {"redis"}
PgOutages == {"pg"}
AllHerds  == [s \in Seeds \cup {FixtureSeed} |-> Animals]

\* Two lifetimes are explored over a shorter history than one, and two signals over a
\* shorter one than one signal (why_trace.cfg).
ShorterLives ==
  /\ boots > 1 => requests <= 1 /\ Len(events) + seq <= 2
  /\ requests = 2 => seq <= 2

=============================================================================
