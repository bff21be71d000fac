---------------------------- MODULE WorldReducer ----------------------------
(***************************************************************************)
(* worldReducer (frontend/src/hooks/useWorld.ts): what each dispatched     *)
(* action makes of the browser's WorldState.  Pure functions of the state, *)
(* like the code.  A slice of the view (agents, flora, terrain) is the     *)
(* position of the world's history it shows; a queued operation is the     *)
(* stream ID of the entry that brought it.                                 *)
(***************************************************************************)
EXTENDS Integers, Sequences

CONSTANT Layers      \* env layers the snapshot flags "on"

NoGrid == -1         \* state.terrain = null

initial ==
    [agents |-> 0, flora |-> 0, terrain |-> NoGrid,
     pendingFloraOps |-> <<>>, pendingTerrainDeltas |-> <<>>,
     snapshotLoaded |-> FALSE, floraLoaded |-> FALSE,
     worldRevision |-> 0, snapshotCursor |-> 0, lastApplied |-> 0,
     reacquire |-> FALSE,          \* baselineRetries went up: a refetch is due
     paused |-> FALSE]

\* Entries on top of a value: the last one wins.
replay(base, ops) == IF ops = <<>> THEN base ELSE ops[Len(ops)]

applyTerrainDeltas(grid, deltas) == replay(grid, deltas)

applyFloraOps_Unfiltered(base, ops, cursor) == replay(base, ops)
\* An operation the baseline already includes is not replayed.
applyFloraOps(base, ops, cursor) ==
    LET newer == {i \in DOMAIN ops : cursor = 0 \/ ops[i] > cursor}
    IN  IF newer = {} THEN base ELSE ops[CHOOSE i \in newer : \A j \in newer : j <= i]

applyEvent(s, kind, id) ==
    IF s.paused THEN s ELSE
    CASE kind = "agents" -> [s EXCEPT !.agents = id]
      [] kind = "flora" -> IF s.floraLoaded
                           THEN [s EXCEPT !.flora = id]
                           ELSE [s EXCEPT !.pendingFloraOps = Append(@, id)]
      [] kind = "terrain" -> IF s.terrain # NoGrid
                             THEN [s EXCEPT !.terrain = applyTerrainDeltas(@, <<id>>)]
                             ELSE [s EXCEPT !.pendingTerrainDeltas = Append(@, id)]
      [] OTHER -> s

StreamGap_KeepsBaseline(s) == [s EXCEPT !.reacquire = TRUE]
StreamGap(s) ==
    [s EXCEPT !.reacquire = TRUE, !.snapshotLoaded = FALSE, !.floraLoaded = FALSE]

EVENT(s, kind, id) ==
    IF ~s.snapshotLoaded \/ (s.lastApplied # 0 /\ id <= s.lastApplied)
    THEN s
    ELSE [applyEvent(s, kind, id) EXCEPT !.lastApplied = id]

revisionSwitch(s, doc) == s.worldRevision # 0 /\ doc.rev # s.worldRevision

stale(s, doc) ==
    /\ ~revisionSwitch(s, doc) /\ s.snapshotLoaded
    /\ doc.cursor # 0 /\ s.lastApplied # 0 /\ doc.cursor < s.lastApplied

clearWorld_KeepsFlora(s) == [s EXCEPT !.terrain = NoGrid, !.pendingTerrainDeltas = <<>>]
clearWorld(s) ==
    [s EXCEPT !.flora = 0, !.floraLoaded = FALSE, !.pendingFloraOps = <<>>,
              !.terrain = NoGrid, !.pendingTerrainDeltas = <<>>]

\* What the availability flags of the snapshot make of the env layers.
flags(s) ==
    [s EXCEPT
        !.terrain = IF "terrain" \in Layers THEN @ ELSE NoGrid,
        !.pendingTerrainDeltas = IF "terrain" \in Layers THEN @ ELSE <<>>,
        !.flora = IF "flora" \in Layers THEN @ ELSE 0,
        !.pendingFloraOps = IF "flora" \in Layers THEN @ ELSE <<>>,
        !.floraLoaded = @ \/ "flora" \notin Layers]

\* doc is the snapshot's wrapper, agents the roster it carries.
SNAPSHOT_LOADED(s, doc, agents) ==
    IF stale(s, doc)
    THEN [s EXCEPT !.reacquire = TRUE]
    ELSE LET switched == revisionSwitch(s, doc)
             next == [s EXCEPT
                        !.agents = agents, !.snapshotLoaded = TRUE,
                        !.worldRevision = doc.rev, !.snapshotCursor = doc.cursor,
                        !.lastApplied = IF doc.cursor # 0 THEN doc.cursor
                                        ELSE IF switched THEN 0 ELSE @]
         IN  flags(IF switched THEN clearWorld(next) ELSE next)

TERRAIN_LOADED_Drops(s, grid) == [s EXCEPT !.terrain = grid, !.pendingTerrainDeltas = <<>>]
TERRAIN_LOADED(s, grid) ==
    [s EXCEPT !.terrain = applyTerrainDeltas(grid, s.pendingTerrainDeltas),
              !.pendingTerrainDeltas = <<>>]

FLORA_LOADED_Drops(s, doc, flora) ==
    [s EXCEPT !.flora = flora, !.pendingFloraOps = <<>>, !.floraLoaded = TRUE]
FLORA_LOADED(s, doc, flora) ==
    IF s.worldRevision # 0 /\ doc.rev # s.worldRevision
    THEN s
    ELSE [s EXCEPT !.flora = applyFloraOps(flora, s.pendingFloraOps, doc.cursor),
                   !.pendingFloraOps = <<>>, !.floraLoaded = TRUE]

TOGGLE_PAUSE(s) == [s EXCEPT !.paused = ~@]

=============================================================================
