------------------------------ MODULE LiveView ------------------------------
(***************************************************************************)
(* One browser following the world: the producer of EventFeed, the SSE     *)
(* handler that replays and tails the event stream (platform/api/sse.go),  *)
(* and the client around the reducer: the baseline loaders and effects of  *)
(* useWorld.ts, the connection of useSSE.ts and its cursor in App.tsx.     *)
(*                                                                         *)
(* Fetches are asked, answered and accepted in separate steps, frames are  *)
(* in flight between the server's read and the client's dispatch, and an   *)
(* effect runs some time after the dispatch that caused it.                *)
(***************************************************************************)
EXTENDS EventFeed

INSTANCE WorldReducer WITH Layers <- Installed

CONSTANTS
    XInfoMayFail,    \* reading max-deleted-entry-id at connect may fail
    MayBeOvertaken,  \* trimming may pass the position of an open connection
    MayPause,        \* the viewer uses the pause button
    MaxDrops         \* bound: how often the connection is lost

ASSUME ViewAssumption ==
    /\ XInfoMayFail \in BOOLEAN /\ MayBeOvertaken \in BOOLEAN /\ MayPause \in BOOLEAN
    /\ MaxDrops \in Nat

VARIABLES
    view,    \* WorldState
    pos,     \* the handler's lastID: entries up to here are read; Closed
    tail,    \* the handler still asks for "$", the end of the stream
    wire,    \* frames sent and not yet dispatched
    loads,   \* baseline -> the fetch loop of its current generation
    seen,    \* the effects' dependencies when they last ran
    shown,   \* baseline -> the document last accepted (read by properties only)
    drops

clientVars == <<view, pos, tail, wire, loads, seen, shown, drops>>
vars == <<feedVars, clientVars>>

Closed   == -1
GapFrame == [kind |-> "gap", id |-> 0]

Idle == [state |-> "idle", rev |-> 0, cursor |-> 0, doc |-> NoDoc]

\* A new generation of a loader: the previous one's answer is discarded.
ask(r, c) == [state |-> "asked", rev |-> r, cursor |-> c, doc |-> NoDoc]

----------------------------------------------------------------------------
(* The SSE handler.                                                        *)

cursor_None == 0
\* App's cursorRef: strictly after the last applied entry.
cursor == IF view.lastApplied # 0 THEN view.lastApplied ELSE view.snapshotCursor

gapped_Never(c) == FALSE
\* Entries after the cursor were trimmed.
gapped(c) == c < maxDeleted

sseStartID_Oldest == 0
\* No cursor: the end of the stream.
sseStartID == Max(retained \cup {maxDeleted, 0})

Connect ==
    /\ view.snapshotLoaded /\ pos = Closed /\ wire = <<>>
    /\ \/ (cursor = 0 \/ XInfoMayFail) /\ pos' = sseStartID /\ tail' = TRUE /\ wire' = wire
       \/ cursor # 0 /\ gapped(cursor) /\ wire' = <<GapFrame>> /\ UNCHANGED <<pos, tail>>
       \/ cursor # 0 /\ ~gapped(cursor) /\ pos' = cursor /\ UNCHANGED <<tail, wire>>
    /\ UNCHANGED <<feedVars, view, loads, seen, shown, drops>>

\* An XREAD of "$" resolves it again: at the first one, after each that timed out.
BlockAtEnd ==
    /\ tail /\ pos < sseStartID /\ pos' = sseStartID
    /\ UNCHANGED <<feedVars, view, tail, wire, loads, seen, shown, drops>>

unread == {n \in retained : n > pos}

\* A stream is read in the order of its IDs.
inOrder(ids) ==
    [i \in 1..Cardinality(ids) |->
        CHOOSE n \in ids : Cardinality({m \in ids : m <= n}) = i]

frame(n) == [kind |-> log[n], id |-> n]

Read ==
    /\ pos # Closed /\ unread # {}
    /\ wire' = wire \o [i \in 1..Cardinality(unread) |-> frame(inOrder(unread)[i])]
    /\ pos' = Max(unread) /\ tail' = FALSE
    /\ UNCHANGED <<feedVars, view, loads, seen, shown, drops>>

\* The connection is lost, and what was in flight with it.
Drop ==
    /\ pos # Closed \/ wire # <<>>
    /\ drops < MaxDrops /\ drops' = drops + 1
    /\ pos' = Closed /\ tail' = FALSE /\ wire' = <<>>
    /\ UNCHANGED <<feedVars, view, loads, seen, shown>>

----------------------------------------------------------------------------
(* The client.                                                             *)

dispatch(f) == IF f = GapFrame THEN StreamGap(view) ELSE EVENT(view, f.kind, f.id)

Deliver ==
    /\ wire # <<>> /\ wire' = Tail(wire)
    /\ view' = dispatch(Head(wire))
    /\ UNCHANGED <<feedVars, pos, tail, loads, seen, shown, drops>>

\* The timer of a due refetch: a new generation of the snapshot loader.
Refetch ==
    /\ view.reacquire /\ view' = [view EXCEPT !.reacquire = FALSE]
    /\ loads' = [loads EXCEPT !["snapshot"] = ask(0, 0)]
    /\ UNCHANGED <<feedVars, pos, tail, wire, seen, shown, drops>>

fits_AnyCursor(b, q, doc) == doc # NoDoc /\ (b # "snapshot" => doc.rev = q.rev)
\* What a loader takes for an answer; anything else is retried.
fits(b, q, doc) ==
    /\ doc # NoDoc
    /\ b # "snapshot" => (q.rev # 0 => doc.rev = q.rev)
    /\ b = "flora" => (q.cursor # 0 => doc.cursor >= q.cursor)

Answer(b) ==
    /\ loads[b].state = "asked" /\ fits(b, loads[b], live[b])
    /\ loads' = [loads EXCEPT ![b].state = "answered", ![b].doc = live[b]]
    /\ UNCHANGED <<feedVars, view, pos, tail, wire, seen, shown, drops>>

\* What the dispatch of a fetched baseline makes of the view.
loaded(b, doc) ==
    CASE b = "snapshot" -> SNAPSHOT_LOADED(view, doc, At("agents", doc.at))
      [] b = "flora"    -> FLORA_LOADED(view, doc, At("flora", doc.at))
      [] b = "terrain"  -> TERRAIN_LOADED(view, At("terrain", doc.at))

\* The reducer leaves the view as it is.
rejected(b, doc) ==
    CASE b = "snapshot" -> stale(view, doc)
      [] b = "flora"    -> view.worldRevision # 0 /\ doc.rev # view.worldRevision
      [] b = "terrain"  -> FALSE

Accept(b) ==
    /\ loads[b].state = "answered"
    /\ view' = loaded(b, loads[b].doc)
    /\ shown' = IF rejected(b, loads[b].doc) THEN shown ELSE [shown EXCEPT ![b] = loads[b].doc]
    /\ loads' = [loads EXCEPT ![b] = Idle]
    /\ UNCHANGED <<feedVars, pos, tail, wire, seen, drops>>

\* The dependency lists of the two effects that start the env loaders.
deps(s) ==
    [terrain |-> <<s.snapshotLoaded, s.terrain = NoGrid, s.worldRevision>>,
     flora |-> <<s.snapshotLoaded, s.floraLoaded, s.worldRevision, s.snapshotCursor>>]

wanted(b) ==
    /\ b \in Installed /\ deps(view)[b] # seen[b] /\ view.snapshotLoaded
    /\ b = "terrain" => view.terrain = NoGrid
    /\ b = "flora" => ~view.floraLoaded

RunEffects ==
    /\ deps(view) # seen /\ seen' = deps(view)
    /\ loads' = [b \in Baselines |->
                    IF wanted(b)
                    THEN ask(view.worldRevision, IF b = "flora" THEN view.snapshotCursor ELSE 0)
                    ELSE loads[b]]
    /\ UNCHANGED <<feedVars, view, pos, tail, wire, shown, drops>>

TogglePause ==
    /\ MayPause /\ view' = TOGGLE_PAUSE(view)
    /\ UNCHANGED <<feedVars, pos, tail, wire, loads, seen, shown, drops>>

----------------------------------------------------------------------------

\* The page has just mounted: the snapshot is being fetched.
Init ==
    /\ FeedInit
    /\ view = initial /\ pos = Closed /\ tail = FALSE /\ wire = <<>>
    /\ loads = [b \in Baselines |-> IF b = "snapshot" THEN ask(0, 0) ELSE Idle]
    /\ seen = deps(initial) /\ shown = [b \in Baselines |-> NoDoc] /\ drops = 0

Feed ==
    /\ Produce
    /\ (pos # Closed /\ ~MayBeOvertaken) => maxDeleted' <= pos
    /\ UNCHANGED clientVars

Server == Connect \/ BlockAtEnd \/ Read \/ Drop
Loading == \E b \in Baselines : Answer(b) \/ Accept(b)
Client == Deliver \/ Refetch \/ Loading \/ RunEffects \/ TogglePause

Next == Feed \/ Server \/ Client

Spec == Init /\ [][Next]_vars

\* The ticks bring the backup cadence round again, server and browser keep
\* running: retries, timers, reconnections and reads all happen in the end.
Fairness ==
    /\ WF_vars(Feed /\ BeginFlush) /\ WF_vars(Feed /\ (WriteBaseline \/ Publish))
    /\ WF_vars(Connect) /\ WF_vars(Read)
    /\ WF_vars(Deliver) /\ WF_vars(Refetch) /\ WF_vars(RunEffects)
    /\ \A b \in Baselines : WF_vars(Answer(b)) /\ WF_vars(Accept(b))

FairSpec == Spec /\ Fairness

----------------------------------------------------------------------------
(* Properties.                                                             *)

\* No rebuild came between positions m and n.
sameWorld(m, n) == \A r \in DOMAIN log : (m < r /\ r <= n) => log[r] \notin Rebuilds

\* The view follows one world: none replaced it since the snapshot was taken.
\* (Another viewer's regen is answered by reloading the page by hand.)  A snapshot
\* without a cursor promises a live tail only.
OneWorld ==
    /\ view.snapshotLoaded /\ view.snapshotCursor # 0
    /\ sameWorld(shown["snapshot"].at, view.lastApplied)

\* The position of the history the view has reached: a snapshot written right
\* after a rebuild shows more than its cursor says.
reached == Max({view.lastApplied, shown["snapshot"].at})

\* Lossless late join: the roster drawn is the world's as of the last applied
\* entry, whatever was replayed, dropped, trimmed or reacquired on the way.
AgentsFollow == OneWorld => view.agents = At("agents", reached)

\* The plants drawn miss no change up to there, once a baseline of the same world
\* is drawn that is not older than the snapshot: no newer operation is lost under
\* the baseline, none the baseline includes is replayed over it.
FloraFollows ==
    (OneWorld /\ "flora" \in Installed /\ view.floraLoaded
        /\ sameWorld(shown["flora"].at, reached)
        /\ shown["flora"].cursor >= view.snapshotCursor)
    => view.flora >= At("flora", reached)

\* A buffered operation the flora baseline already includes is not replayed over
\* it: a plant that died before the baseline is not resurrected by it.
BaselineNotUndone ==
    [][("flora" \in Installed /\ ~reused /\ shown'["flora"] # shown["flora"] /\ view'.floraLoaded)
          => view'.flora >= At("flora", shown'["flora"].at)]_vars

\* The terrain grid is the world's, once the entries applied have reached a grid of
\* the same world that is not older than the snapshot (without trimming: a gap does
\* not bring the grid up to date).
TerrainFollows ==
    (OneWorld /\ "terrain" \in Installed /\ view.terrain # NoGrid
        /\ sameWorld(shown["terrain"].at, reached) /\ sameWorld(reached, shown["terrain"].at)
        /\ shown["terrain"].cursor >= view.snapshotCursor
        /\ view.lastApplied >= shown["terrain"].cursor)
    => view.terrain = At("terrain", reached)

\* All of it, whatever layers the world has.
ViewFollows == AgentsFollow /\ FloraFollows /\ TerrainFollows

\* An entry of an older world is never applied over a newer world's snapshot, unless
\* a revision was claimed twice: then the reducer cannot tell the two worlds' documents
\* apart by their tags.
OldWorldNeverReplays ==
    [][(~reused /\ wire # <<>> /\ wire' = Tail(wire) /\ view'.lastApplied # view.lastApplied)
          => sameWorld(Head(wire).id, shown["snapshot"].at)]_vars

\* Lost appends, failed writes, pauses, trims and the live tail may leave the
\* roster behind the world, never behind the snapshot it started from (while no
\* revision is claimed twice).
RosterNotOlder ==
    (view.snapshotLoaded /\ ~reused) => view.agents >= At("agents", shown["snapshot"].at)

\* Plants and roster drawn together come from baselines of one revision.
OneRevision ==
    ("flora" \in Installed /\ view.snapshotLoaded /\ view.floraLoaded)
        => shown["flora"].rev = shown["snapshot"].rev

\* Once the world falls quiet the roster drawn becomes the world's and stays so.
AgentsCatchUp == <>[](view.snapshotLoaded /\ view.agents = At("agents", Now))

\* Once the world falls quiet the plants drawn become the world's and stay so,
\* if no gap was reported on the way (an answer asked for
\* before a gap is accepted after it and may lie behind the fresh snapshot).
FloraCatchesUp ==
    [](wire # <<GapFrame>>) => <>[](view.floraLoaded /\ view.flora = At("flora", Now))

=============================================================================
