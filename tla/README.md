# A TLA+ verification of medieval-sim

This directory specifies and checks the running system of `src/`: a Go process that
simulates one village and its wilderness tick by tick, keeps what viewers need in Redis,
keeps what must survive in Postgres, and a browser client that follows the world over a
server-sent event stream. The modules say what each part does, in the order the code does
it; the `.cfg` files check them with TLC on small instances; the `*Proofs.tla` modules
prove the most important results with TLAPS for every value of the constants.

## 1. Inventory

| component | state it keeps | operations | modelled in |
|---|---|---|---|
| **Run driver** `backend/main.go` | the current world, runLoop's counter, `worldPub` (revision, published), `multiEmitter.seq`, the why-trace buffer, `runSeed`, the restart and regen channels | boot, tick loop, restart/regen, flush, publication, finalisation | `RunDriver`, `TraceBuffer` |
| **Live store** `platform/persist/redis.go` | Redis: `meta`, the baselines `snapshot`/`flora`/`climate`/`terrain`, `tick`, entity hashes | InitMeta, WriteTick, Write*, PublishWorldRevision, Delete*, Purge, Expire | `RunDriver` (when each is called, with what outcome), `LiveKeys` (what each does, beside `FakeRedis`) |
| **Backup store** `platform/persist/postgres.go` | Postgres: `runs`, `events`, `snapshots` | UpsertRun, ResetRunData, WriteBackup, PruneSnapshots | `RunDriver`, `BackupTable` (the prune, beside `FakePg`) |
| **Event stream and SSE** `platform/events`, `platform/api`, `cmd/sse` | the Redis stream, `lastID`; one cursor per connection | Emit, replay and tail, gap detection; REST routes | `EventFeed`, `LiveView`, `Frames` (what the entries say), `GodView` and `LiveKeys` (the routes) |
| **Browser client** `frontend/src/hooks`, `utils` | `WorldState`: agents, plants, terrain, cursors, pending operations; loader generations | baseline fetches, event application, reconnect, pause, new map | `WorldReducer`, `LiveView`, `Frames` (not the new-map button) |
| **Kernel** `engine/kernel` | generator state, clock, parsed expressions | draw, advance, parse, check, evaluate | `Formula` (the expressions) |
| **Space** `engine/space` | spatial hash, navigation map, potential fields, scent field | insert/move/remove, query, paint, wear, path search, deposit/spread/decay | `Senses`, `Ground`, `Scent` |
| **Environment** `engine/env` | plants, climate cells, decaying lots, wind shelter | growth, grazing, seeding, decay, freezing, shelter | `Land`, `Senses` |
| **Mind** `engine/mind` | needs, values, beliefs about others, gates, plans | update, derive a goal, plan, believe | `Drives`, `Deliberation`, `Society`, `Senses` (sight) |
| **Agents and fauna** `engine/agent`, `engine/fauna` | one person's or animal's execution state, body, drives | tick, choose, act, cope, mate, fight, flee, sleep | `Village`, `Physique` (people), `Wildlife`, `Instinct` (animals) |
| **World tick** `engine/world` | all entities, pending offers and votes, emerged roles, lots, respawn timers | plan phase, apply phase, environment passes, capture and resume | `Village`, `Society`, `Wildlife`, `Land`, `Frames` |
| **World generation** `tools/worldgen` | none after `Load`: terrain, moisture, placements, respawn anchors | generate terrain, place, install; repopulate | `Genesis` |
| Configuration, snapshot encoding, economy harness and tools, drawing code, content, deployment | none that changes while the system runs | parsing, layout, batch experiments, drawing | not modelled: no behaviour over time |

How they interact. One goroutine (`runLoop`) owns the world. Each tick it calls `w.Tick()`
(which emits events through `multiEmitter` to the Redis stream and, the why-trace ones, to
the in-memory buffer), writes the tick key and, on the backup cadence, flushes: `writeLive`
writes the baselines one key at a time, `WriteBackup` commits the buffered events and the
snapshot blob in one Postgres transaction, and `publishIfReady` finally sets
`meta.world_revision`. HTTP handlers never touch the world: a restart or a regen is a signal
on a buffered channel that `runLoop` takes between ticks. Readers (the API, the SSE process,
the browser) see only Redis, at any instant, between any two of those writes.

Inside `w.Tick()` the agents plan concurrently, each writing only itself and reading the
others as a snapshot froze them; their intents are applied one after the other in the order
of their IDs; the fauna plans and applies in two passes; the environment passes run on their
cadences; and the registers of the world (objects, spatial index, each agent's knowledge,
plants, lots, two terrain grids) are kept in step by hand, each pass writing several.

What is hard here. A crash, a SIGTERM (which cancels the context every store call uses) or
an outage between any two store calls; calls applied whose reply is lost; a rebuild that
fails after it emitted; signals in any order; two process lifetimes over one Redis and one
Postgres; a client whose fetches, stream entries and reconnects interleave with all of it.
In the world: what one pass decided is used by the next, after some of those it was about
are gone; a plan outlives the goal it was made for; a vote reaches beliefs by two ways; one
death is written into five registers; a captured world is resumed without some of them.

What makes each part correct. Driver: a published revision is only ever announced over a
complete set of one world's baselines, and goes back only where a boot could not read it;
the stored why-trace is the
emitted one, once, in order, minus what was counted as trimmed; a signal is served. Client:
what is drawn is the state the applied events lead to, of one world, and in the end the
world's. People: a plan serves the goal pursued, nobody freezes, blame and reputation follow
what was done, roles follow reliance. Animals: no creature acts after it died, an engagement
is mutual and ends, breeding is paced, dormancy is never deaf. Land: the registers agree,
ice remembers, rot skips nothing. Space: an index, a route, a field answer what an exhaustive
look would. Stores: the fakes the tests run on behave as the stores do; pruning loses nothing
needed.

## 2. Modules

The driver:

* `TraceBuffer` — `eventBuffer`: `Emit`, `drain`, `takeDropped`, `restore`, `enforceLimit`
  as functions on a buffer value. The housekeeping filter of `Emit` (types that never reach
  Postgres) is applied by only emitting why-trace events.
* `RunDriver` — `main`, `runLoop`, `doRebuild`, `flushSnapshot`, `writeLive`, `worldPub`,
  `finalizeRun`. One action per store call. `pc` is the place in the goroutine's code, `job`
  the rebuild or flush being carried out and where it returns to, `todo` what `writeLive`
  still has to write. Process memory is reset by `Stopped`; Redis (`meta`, `live`,
  `tickKey`, `hashes`) and Postgres (`runs`, `events`, `snapshots`) survive. `emitted`,
  `history` and `reported` are history variables only properties read, and so is `misled`: a
  boot took a published revision it could not read for none, and has not published since.
* `PublishedWorld` — what the driver promises the readers of the live keys: baselines are
  tagged no older than the published revision, which rises, and a revision is published only
  over one world's complete set. It has one way out, because the code has it: a misled boot's
  tags and first publication may be older. `RunDriver!KeepsPromise` is `PW!Spec` under the
  mapping `published <- meta.rev`, `base <- live` restricted to the gating baselines.
* `MCRunDriver` — constant values for TLC.
* `RunDriverProofs` — theorems.

The live view:

* `EventFeed` — the producer as a viewer sees it: `events.Emitter` appending the world's
  sparse frames to the Redis stream (an append may fail and be forgotten), MAXLEN trimming,
  the baselines a flush writes one by one, the publication, and the three ways a world is
  replaced: regen (new revision; stream and baselines deleted, or not where the purge, which
  is best effort, fails), restart (same revision, nothing deleted), reboot (new emitter,
  nothing deleted; the published revision's successor, or 1 where it cannot be read).
  `reused` is a history variable: a process has claimed a revision that was claimed before,
  because it had not been published or could not be read.
* `WorldReducer` — `worldReducer` of `useWorld.ts`, case by case, as pure operators on the
  state record; no variables.
* `LiveView` — composes the feed with one connection of the SSE handler (`pos` is its
  `lastID`, `tail` says it still asks for `$`, `wire` holds frames in flight) and one
  browser (`view`, the loader generations `loads`, the effect dependencies `seen`). A fetch
  is asked, answered and accepted in three steps, and an effect runs some time after the
  dispatch that changed its dependencies. `shown`, the document last accepted of each
  baseline, is a history variable.
* `MCLiveView` — constant values for TLC. `LiveViewProofs` — theorems, and the lemmas about
  histories, the reading order and each case of the reducer they rest on.

The animals and the people:

* `Wildlife` — one simulation tick of the fauna in four phases: `Plan` (`fauna.Step`: one
  intent per animal from the snapshot, by the full pipeline or the dormant cheap path),
  `Commit`/`LoseCommit` (pass 1 of `applyCombinedIntents`: own state, hiding), `Cross`/
  `SkipCross` (pass 2: strike, death, conception) and `EndTick`/`Respawn`. `turn` holds the
  animals a phase has still to visit, in ID order. `strikes`, `died` and `bred` are history
  variables. `MCWildlife` — constant values. `WildlifeProofs` — theorems.
* `Village` — `agent.Tick` and the agents' part of `world.Tick`: perceive, mediate the goal,
  cope with failure, replan, bind a target, propose; then contests for objects, outcomes and
  the losers' triggers. `MCVillage` — constant values. `VillageProofs` — theorems.
* `Society` — beliefs about the others: trades and the honesty they show, votes, reliance,
  the roles that emerge (`tom.go`, `p6.go`, `applySignal`, `relianceScan`). `offered` and
  `owed` are history variables. `MCSociety` — constant values. `SocietyProofs` — theorems.
* `Land` — plants, carcasses, climate cells and the registers that name them, over kills,
  meals, the three environment passes and a resume. `MCLand` — constant values. `LandProofs` —
  theorems.

The faculties. Thirteen modules of parts that share no state with each other; each module
declares its own variables, `Init` and `Next`, and `MCParts` gives each its small instance
and lets one of them (`focus`) live in each behaviour. They stand for one another in the
models above by choices: what `Village` lets the planner return, `Deliberation` computes;
what `Village` lets the appraisal rank, `Drives` weighs; where `Wildlife` lets an animal
choose any action, `Instinct` says which; where `RunDriver` has an outcome of a store call,
`LiveKeys` and `BackupTable` have the keys and rows.

* `Ground` — `navmap`, `pathfind`, `field`, `hazard.go`, `water.go`: terrain repainted, walled
  and worn; A* with its lower bound; strongest-source fields.
* `Scent` — `scent`: the airborne layer, the static layer and its cadence, tracks, and the
  rebuild after a resume.
* `Senses` — `spatial`'s buckets, `perception`'s marched line of sight, `exposure`'s wind
  shelter with its per-sector cache, and cover.
* `Deliberation` — the backward planner over producers, with gates, costs and horizon.
* `Drives` — the growth of needs, priorities, concern for others and the village (by the mean of
  its members or, as `content/balance.yaml` selects, the least), goal mediation.
* `Physique` — stamina, adrenaline, mood and the agent's estimate of its own skill.
* `Instinct` — one prey animal: dormancy, scent wake-up, drives, utility choice, aim.
* `Formula` — lexer, parser, kind check and evaluation of `expr`.
* `LiveKeys` — `RedisLiveStore` beside `FakeRedis`, and what the API answers from each.
* `BackupTable` — `PgBackupStore`'s rows, retention and prune claim, beside `FakePg`'s.
  `BackupProofs` — theorems.
* `Genesis` — `tools/worldgen` and `respawn.go`: relief to rivers, lakes and moisture over the hex
  layout, placement by list and by number, anchors, and the return of a species that died out.
* `GodView` — `world.State`'s projection of beliefs and the god-view routes over it.
* `Frames` — what the stream's entries say of each thing drawn: an agent's row by
  differences, an animal's in full, a plant's or cell's when it changed; births, deaths, goals
  and finished actions in entries of their own; each entry heard or missed; `applyEvent`.

`RunDriver` and `EventFeed` look at the same flush and rebuild at two grains: `RunDriver`
has every store call, crash and outage, and shows what the stored baselines are; `EventFeed`
keeps what a viewer can tell apart (which baselines are written, with which tags) and adds
the stream, which the driver only appends to.

`FiniteOrders` — the facts about finite sets the proofs need: a least number exists, one that
is best at something with the lower number on a tie exists, and images are finite.

Abstractions of the driver. A world is its seed and a build number, so two worlds of one
seed are told apart. One tick emits at most one why-trace event, changes at most one animal,
and a rebuild emits at most one. The per-agent and per-animal hash writes of a flush are one
step (`entities`): they do not gate publication and no property reads them, so the runs have
no animals (`Animals` is empty) while the theorems hold for any set of them. A call has
three outcomes (`Outcomes`): applied and acknowledged, not applied, applied with its reply
lost; a SIGTERM makes every call made with the cancelled context fail. Redis is always
configured; the pure "stdout only" modes keep no shared state. Encoding failures and the
ten-second limit on the final flush are the same as a failed call.

Abstractions of the view. The world's rendered state is three slices (roster, plants,
terrain); a slice's value is the position of the history (`log`) at which it last changed,
so equality of values is equality of states and "older" can be said. Each slice is one cell:
which agent, plant or tile changed is not told apart, so the operations of two entities do
not commute here as they do in the code, and a lost operation always shows until the next
one of its slice. `Frames` has the entities and leaves the order to the stream's. Stream IDs are positions of `log`; like the wall-clock IDs of Redis they
grow over regens and reboots. A baseline without a cursor (`""` is 0) promises a live tail
only. XTRIM's `~` is any cut that leaves `MaxLen` entries; unless `MayBeOvertaken`, an open
connection is never more than the retained window behind, which 10 000 entries give it. The
guard against a stale snapshot is in `WorldReducer` although nothing in the current client
reaches it: only a StreamGap refetches the snapshot, and a StreamGap closes the guard.
Left out: the new-map button (`regenReady.ts` waits and reloads the page), the climate
layer, dead-agent and trace panels, visual effects, log lines.

Abstractions of the animals. Positions are not kept: a test of a distance may go either way.
Drives and utilities are not kept: an active animal may choose any action of its species, a
free animal of a hunted species may be dormant, and Vital may rise, stay or bleed in any
tick (the cap that scars leave on it included). A deadline is kept as the ticks still to go
to it. The floating-point Vital and Stamina are small counters: `MaxVital = 1` makes every
exchange a kill, which is when the order of the passes matters most. Every species has a
diet, as `content/objects.yaml` gives each one. An ID is taken anew once no engagement or
intent names it any more, where `allocAnimalID` counts up for ever. Agents' intents are left
out: an agent targets objects of a kind, never an animal, so the two kinds never contest
one target (`combinedConflictLoser` then says of the agents what `isConflictLoser` says). So are the parents' blended stats. Carcasses,
grazing and scent, which write none of the state kept here, are in `Land` and `Scent`.

Abstractions of the people. `Village` keeps a plan's steps and goal, not its costs: the
planner returns any plan for the goal (`Deliberation` says which), the appraisal any
admissible order (`Drives`), positions are left out and perception may miss anything.
`Society` keeps of a belief what votes, roles and honesty read. Both number the agents in
ID order, which is the order intents are applied in.

Abstractions of the land. Quantities are small counters, the weather a choice; distances are
replaced by the cells a plant or carcass stands in. Each faculty module states its own
abstractions in its header; where the code computes with floats they use scaled integers
that keep the comparisons the properties depend on.

## 3. Runs

Every run passes. The driver's, the view's and `parts` have `CHECK_DEADLOCK FALSE`: the
process may be down for good, a viewer's history is bounded, and a focus may be done. The
worlds of `wildlife`, `village`, `society` and `land` never stop.

| run | instance | properties | question |
|---|---|---|---|
| `publication` | two lifetimes, two signals, Redis outages at every call (the boot's read included) and lost replies, flora installed | `PublishedIsServable`, `PublishedWhole`, `BackOnlyWhenMisled`, `KeepsPromise` | what do readers of the live keys find, and when may the revision they were told go back? |
| `why_trace` | two lifetimes over one Postgres history, two signals, outages, a buffer of 2, up to 3 events | `TypeOK`, `TraceOnceInOrder`, `NoTraceLost`, `NoForeignTrace`, `ReplayCut` | is the trace stored once, in order, complete, and of this world? |
| `driver_liveness` | fair scheduler, Redis outages, two signals | `PendingIsPublished`, `SignalsServed` | is a pending revision published, is a signal served? |
| `late_join` | three slices, four steps of history with restarts, flushes at any time, one lost connection | `ViewFollows`, `BaselineNotUndone` | is what a late viewer sees the world as of the last entry applied, whatever the order of fetches, replay and tail? |
| `trimmed` | roster and plants, four steps of history with regens and reboots, trimming, failing writes, purges, publications and boot reads | `ViewFollows`, `OneRevision` | the same when entries and baselines go missing in ways the protocol detects |
| `failures` | the same with restarts, lost appends, XINFO errors, overtaking trims and pauses, three steps | `RosterNotOlder`, `OldWorldNeverReplays` | what remains true when entries are missed unnoticed |
| `viewer_liveness` | fair scheduler, trimming, one lost connection | `AgentsCatchUp`, `FloraCatchesUp` | does the viewer catch up once the world falls quiet? |
| `wildlife` | two wolves after one deer (first or last in ID order, the wolves a match or not), three goats; four IDs | `NoZombies`, `EngagedInTheOpen`, `MutualLock`, `RivalsTakeTurns`, `BirthsPaced`, `HuntEnds` | are the animals consistent between ticks, and does every hunt end? |
| `village` | two villagers, one of them clever, three need dimensions, two bushes, a fight, two registries | `PlanServesGoal`, `NoStasis`, `BlameIsFair` | does an agent always pursue what it wants, and blame only who won? |
| `society` | three villagers, two of them burdened, one a cheat, a role share of 3/4 | `VotesCountOnce`, `RolesReflectReliance`, `NoFalseAccusation` | do reputation and roles follow what was said and done? |
| `land` | a pond and its shore, one climate cell, a plant, one rain cycle, object IDs up to 2, a resume | `RegistersAgree`, `NavFollowsClimate`, `IceRemembers`, `ProductsOnce` | do the registers agree through seasons, meals, deaths and a resume? |
| `parts` | thirteen components, one to a behaviour (`focus`) | `GroundSound`, `MindSound`, `InstinctSound`, `StoresSound`, `HistorySound` | does each computation answer what its plain definition would? |

`ViewFollows` is `AgentsFollow`, `FloraFollows` and `TerrainFollows`. The properties of
`parts` each gather, by `focus`, what the modules of one kind promise; the modules state the
parts one by one with a comment each. `HistorySound` is `BackupTable`'s own: `HistoryKept`,
`ResumeIsLast`, `Thinned` and `CutsBacked`. They share one run because they share no state: their
state spaces add, they do not multiply. Type invariants are checked or proved where a proof
uses them.

The bounds are enough because each hazard needs few participants. Driver: a mixed set needs
one regen and one crash (two lifetimes, two signals), a reordered or lost event needs a
batch of two plus one event arriving meanwhile (three events, a buffer of two, a trim of
one), a reused revision or one that goes back needs two boots and an outage. `why_trace` checks the second lifetime with at most
one signal and two events emitted or stored, and two signals with two events
(`ShorterLives`, a state constraint). View: a lost update needs one entry before the
snapshot, one between snapshot and layer baseline and one after both; a gap needs a
snapshot, a lost connection and two entries; a mixed view needs one rebuild between two
fetches: four positions of history and one lost connection. `MaxLen = 1` makes every gap
occur that 10 000 allow. `trimmed` counts as one the states that differ in what cannot matter
any more (`Distinguished`, a VIEW: the ghost `reused`, which no action reads, and `published`
once no rebuild can follow). Village: a stale plan needs a goal, a substitute and a third; blame
needs a winner, a loser and an object each. Society: a false accusation needs an offer
overwritten by a third party; a plurality needs two candidates and an elector. Land: a stale
register needs one thing born, one dead and one resumed. `Genesis`: a 3×3 layout, the
smallest one hydrology runs on, with 729 reliefs (a river needs three cells downhill, a
moisture error needs an odd column between two waters), and three worlds to populate: the
hostile map without a place for a species, the drowned anchor, the fringe. `Frames`: one agent with
two goals, two animals, two plants and a cell, and three changes or missed entries: a ghost
needs a birth, a frame and a death that is missed. `Drives`: needs grow without bound; an alarm
is followed until one has grown to 8, twice the setpoint at which salience saturates, and what
comes after the alarm as long as it takes. `NoNeedStarves` counts accordingly: a need may wait
as long as the acts take that work off what the alarm left undone, and after that no longer
than `Patience`. Mutations of the
modelled code (`mutants` in `PROJECT.json`) are found by every property within these bounds.

Fairness. `driver_liveness`: `WF_vars(Step)`, the goroutine keeps running; strong fairness
of the restart and regen branches, because Go's `select` chooses uniformly among ready
cases. Nothing is assumed of the environment: `PendingIsPublished` itself says "if Redis
stays reachable and the process stays up". `viewer_liveness`: weak fairness of flushing (the
backup cadence comes round), of the handler's connect and read, and of the client's
dispatch, timers, effects, requests and answers (each is an event loop's pending task or a
retry with a bounded delay). Losing the connection, trimming and emitting are never forced.
`wildlife`: `WF_vars(Next)`, the tick loop keeps running; nothing is assumed of what the
animals choose or draw. `FloraCatchesUp` is about executions without a gap: after one, an
answer asked for before it may be accepted while the fresh snapshot is still on its way (the
StreamGap entry below). That nobody freezes in the village (`NoStasis`) is stated as safety, so
it needs no fairness.

### Disagreements between code and prose

Met while modelling; their consequences are why some properties above carry a condition, or
why a module models what the code does and a property says only what that supports. The
first list was reproduced by TLC counterexamples of these modules.

- Pass 2 visits the animals in ID order, so a courting animal conceives before an attacker with a higher ID kills it or its partner in the same pass; backend/engine/world/fauna_apply.go:65-66 says "It resolves after combat on each animal so a partner killed this tick cannot also conceive" (also SPEC-world-fauna.md). (`src/backend/engine/world/fauna_apply.go:79`)
- Conception asks of the partner only that its committed action is courtship, so two animals that court one and the same third animal can each conceive, with partners that picked another; content/actions.yaml says conception needs both "to have picked each other in the same tick (mutual consent, PD4-vi ⓒ)". (`src/backend/engine/world/fauna_mate_apply.go:57`)
- The boot ignores an error of HGETALL and keeps stored = 0, so it claims and later publishes revision 1 over any stored one; backend/main.go:309-310 says "read the stored revision and claim stored+1 — never backwards, never reused" (also docs/core/data-contracts.md:134-135). `publication` follows such boots: the publications that go back are theirs (`BackOnlyWhenMisled`); until then they store baselines older than the published revision, and readers are served those. (`src/backend/main.go:318`)
- "Never reused" fails without any outage too: what is claimed is the successor of the published revision, so one a process claimed, wrote baselines under and died before publishing is claimed again by the next, for another world; documents and stream entries of both carry it, and a viewer that holds a snapshot of the first takes entries and plants of the second for the same world. (`src/backend/main.go:316`)
- A restart rebuilds the fixture's seed without a new revision, so after a regen the snapshot of one map and the terrain of the other are stored under the same revision; docs/core/data-contracts.md:121-123 says the tags are there "so a reader can verify that a snapshot/terrain/flora set belongs to one published world", and backend/platform/persist/types.go:103 "so a mid-regen fetch pair can't mix revisions". (`src/backend/main.go:557`)
- A restart after a regen rebuilds the fixture's own seed and updates neither runSeed nor the runs row; docs/core/data-contracts.md:153 says "Reproduce from `seed + config_hash + last snapshot`". (`src/backend/main.go:275`)
- RedisLiveStore.WriteTick only SETs the tick key; backend/platform/persist/types.go:119 says "WriteTick sets sim:{run}:tick (fast read) and refreshes meta.tick." (`src/backend/platform/persist/redis.go:37`)
- The driver wires the live store with TTL 0 and only ever deletes the hashes of animals alive at a rebuild; backend/main.go:798-800 says "Staleness is TTL-bounded: dead animals' hashes and a flora set that empties out age off via the store's TTL". (`src/backend/main.go:162`)
- Any error of WriteBackup re-queues the batch, and the events table has no key on (run_id, seq), so a commit that succeeded but whose reply was lost stores every event twice; backend/main.go:733-735 says "a partial flush cannot exist. On failure NOTHING was stored, so the batch goes back into the buffer and the next flush retries it". (`src/backend/main.go:746`)
- finalizeRun marks the run completed and never calls Expire; docs/core/data-contracts.md:112 says "TTL: keep only active runs; on completion, back up to Postgres then expire." and backend/platform/persist/types.go:157 "Expire applies the TTL/expiry policy for a run (called on completion)." (`src/backend/main.go:865`)
- The terrain loader checks only the revision, and the terrain blob carries no stream cursor, so between the two writes of one flush (or after a failed terrain write) an older grid is accepted under a newer snapshot and the terrain deltas in between are lost for good; frontend/SPEC.md:138-139 says "the [capture, connect) window and any disconnect window are recovered losslessly". (`src/frontend/src/hooks/useWorld.ts:646`)
- StreamGap re-arms the snapshot and the flora baseline, not the terrain grid, so terrain deltas that were trimmed stay missing until a new revision; frontend/SPEC.md:148 says "Gap ⇒ reacquire, never a partial history". (`src/frontend/src/hooks/useWorld.ts:512`)
- StreamGap does not bump floraGen and FLORA_LOADED compares revisions only, so an answer asked for before the gap sets floraLoaded while the fresh snapshot is still on its way; frontend/src/hooks/useWorld.ts:520-521 says "after the fresh snapshot, /api/flora must reach at least that cursor before it is accepted". (`src/frontend/src/hooks/useWorld.ts:674`)
- The stale-snapshot guard requires snapshotLoaded, which StreamGap has just cleared, and no other path loads a second snapshot, so the refetched snapshot is taken whatever its cursor; frontend/SPEC.md:426-428 says "a snapshot whose cursor is behind `lastAppliedStreamId` (same revision) is rejected with `baselineRetries++` and nothing rolls back". (`src/frontend/src/hooks/useWorld.ts:438`)
- Once floraLoaded is set applyEvent applies every flora entry after lastAppliedStreamId, also those the baseline (whose cursor may be ahead of the stream position) already includes; frontend/SPEC.md:175-176 says operations are "replayed after replacement only when `op.streamId > baseline.stream_cursor`, so the newer live state wins". (`src/frontend/src/hooks/useWorld.ts:219`)
- An XINFO error makes the handler ignore the cursor and tail from "$", which silently skips the entries between them; docs/core/data-contracts.md:249-253 says of a client with a cursor that "retained entries between the snapshot capture and the connection are REPLAYED and flow gap-free into the live tail". (`src/backend/platform/api/sse.go:79`)
- max-deleted-entry-id is compared with the cursor at connect only, so a connection trimmed past while it is open reads on over the hole; backend/platform/api/sse.go:43-45 says retained entries "flow gap-free into the live tail", and docs/core/data-contracts.md:256-257 that a client reacquires "instead of silently applying a partial sparse history". (`src/backend/platform/api/sse.go:93`)
- A failed XADD loses the frame, the run goes on and its error is only printed when the run ends (backend/main.go:445-447); backend/platform/events/events.go:176 says "The run-driver checks this after a tick batch to decide whether to abort the run." (`src/backend/platform/events/events.go:119`)
- While paused applyEvent returns the state unchanged and the EVENT case still advances lastAppliedStreamId, so the paused entries are never shown; frontend/src/hooks/useSSE.ts:15-16 says "Reconnects therefore resume strictly after the last frame the reducer applied — no gap, no duplicates." (`src/frontend/src/hooks/useWorld.ts:134`)
- A restart rewinds the world under the same revision, so baselines of both worlds pass the client's revision check; docs/core/data-contracts.md:122-123 says the tags let a reader "verify that a snapshot/terrain/flora set belongs to one published world without atomic multi-key reads (mismatch ⇒ refetch)". (`src/backend/main.go:557`)
- TERRAIN_LOADED carries no revision and the reducer does not compare one; the loader's generation is only bumped when the effect of the new snapshot runs, so an answer resolved before that still dispatches the old grid; frontend/SPEC.md:416-417 says "a terrain grid tagged with a different revision than expected is retried, never dispatched". (`src/frontend/src/hooks/useWorld.ts:652`)
- The loader retries for the old revision for ever, and nothing refetches the snapshot, so the page never gets terrain until it is reloaded; frontend/src/hooks/useWorld.ts:864 says such a grid "is retried until the matching one is published" and :18 that a failure "must never permanently stall the bootstrap". (`src/frontend/src/hooks/useWorld.ts:865`)
- Pass 2 asks again who wins, from the animals then alive, so when the winner has struck and died in that pass (Stat 0, or no longer there) a rival that lost pass 1, and committed nothing, strikes the same target as well; backend/engine/world/SPEC-world-fauna.md:147-149 sends a contested target to "the shared conflict model, SPEC-tick.md", where (backend/engine/world/SPEC-tick.md:121,123) the "Winner" is "the contender with the higher relevant **Real Stat**" and "Losers: receive `agent.ActionOutcome{Status: Interrupted}`". (`src/backend/engine/world/fauna_apply.go:74`)

Agents.

- With three or more need dimensions a clever agent always finds another goal to rebind to and resets `FailStreak`, so it never reaches Longing, Latent or Apathy, which `coping.go`:11-13 and `SPEC-coping` describe as the end of the ladder. The recovery from Apathy in `outcome.go` is never reached; the third branch of `rebindSubstitute` keeps the plan of the goal it replaces; the list of latent goals only grows.
- While a threat is in sight, or the village alarm holds, the plan is rebuilt every tick, so an action of several ticks never completes.
- `MemberNeedIntensities` reads the live maps of other agents during the concurrent plan phase, where everything else is read from the frozen snapshot.
- Every tick without urgency is charged as an adrenaline crash, also at adrenaline 0 (`dynamics.go`:26-33; `SPEC-dynamics` speaks of a long panic). The debt, 0.015 a tick, exceeds what Rest restores (0.010), so Rest never tops up Stamina although `content/actions.yaml`:191 says so: only Sleep does. An agent whose real stat is 0 never learns of it: the weight of its evidence is 0.
- `DeriveReferentInput` computes a `MaxIntensity` nobody uses; the collective mode "min", which the shipped content selects, takes the least intensity, so that the member best off decides and one at ease silences the village; `values.go`:138 says "worst-off member drives urgency", `balance.yaml` the least safety. The village alarm (`defensiveCollectiveGoal`) takes the mean in either mode.
- Needs grow without bound (`decayNeeds`), and are cut to [0, 1e9] only by an act's effect: what an alarm of n ticks leaves undone takes acts in proportion to n to work off, during which the needs of lower weight wait.
- The planner records as Candidates and Chosen (its `SPEC.md`:125,137) also what it tried in nested predicates and in branches it rejected; a decomposition longer than `MaxActions` is fatal (`search.go`:228) where one action more is skipped (:134); `MaxDepth` never bites; `sortDimensionPriority` is unused.
- A world snapshot's Tags hold only the Kind, so opaque and scented objects exist only if their kind is so named: in the program sight is never blocked and objects do not smell. What stands where the observer stands is not seen.
- `AgentConfig` (`platform/config/accessors.go`:20-140) leaves Functions empty: no reliance, vote or role arises in the program until it is filled. `Reject` without a pending offer makes the agent dislike whoever is near; `emitSignal` re-sends every tick; `IncomingSignals` is always empty, so gossip never arrives; `GossipUpdate` sets LastSeen 0, which makes the belief the first one pruned; `PruneBeliefs` keeps the last by ID, its comment says the most recent.

Space and environment.

- The path search's `EstimateCost` "NEVER greater than the true Path cost" (`pathfind.go`:115-118) fails for an off-centre start or goal on worn cells; `Ground` therefore states the bound between cell centres. The wear of `navmap` and `pathfind` is used by tests only.
- A climate cell that freezes or thaws repaints all its navmap cells, so shore soil becomes lake after one winter. The hazard and water fields are built once and do not see it.
- A resume is not "byte-identical" (`SPEC-tick.md`:185-188): decaying lots' states and positions, storage, navmap terrain, the ID counters, animals' Age and gestation, `FailStreak`, reliance and offers are not restored; static scent is absent until the next cadence, or doubled at a cadence boundary; a carcass without its lot blocks feeding.
- World generation: `hex.go` says odd columns are shifted down, its code (and the browser's) shifts them up. A point in a cell whose centre is out of bounds is judged by the layout when something is placed there and reads as no terrain ever after, so a plant there has capacity 0. The "guaranteed-passable anchor" of `respawn.go`:157 is not one when the climate drowned it, when the animal was placed by list (a fish on soil), or when the species found no place and has none (the map's corner). Placement refuses sea to a fish, respawn does not. A river bed may end up below the lake it runs into, whose cell is not carved.

Fauna, stores and god view.

- `steerFull` tests only the full stride though its comment says the path; the cheap path ignores sleep and barred locomotion; the sleeper's wake test is `>` where its comment and `world.yaml` say at least; a scent lowers fear from fleeing to wary. `nonCombatDeathCause` reads the drains after the effects, `nextVital` bled on those before.
- `redisWriteAdapter.Get` returns "" for a missing key, so `GET /api/snapshot` answers an empty 200 where the handler and the fake mean 404; `WriteClimate` leaves a stale `apparent_temp` where the fake replaces it; the real `Expire` cannot remove entity hashes, the fake does. A prune that failed has claimed its slot and waits six hours. On equal `created_at` the retention prefers the higher tick, `LatestSnapshot` the later id.
- The snapshot's agents have no current action (`state.go`:64), so a late viewer draws none until it changes; `docs/core/data-contracts.md`:262 calls the snapshot and what is replayed after it "the lossless late-join baseline".
- `AgentFrame` compares the ends of ticks, `GoalSelected` tells what happened within: a goal chosen and done with in one tick, or an alarm followed by coping, stays drawn though it is not pursued; the check mark of a finished action stays while the next one has the same name.
- No baseline and no frame takes an animal away within a revision: one whose `AnimalDied` was missed is drawn until the page is reloaded, StreamGap or not. A plant grazed between two steps of the flora keeps its height on the screen.
- The god view's digest (`state.go`:58) has neither affinity nor trust, so `/api/god/relations` reports zeros and, with Functions empty, no edges. `buildObserverClusters` breaks ties in map order, against the determinism rule D12. `/api/god/why` always answers 503 (`main.go`:412 passes no reader).

## 4. Proofs

`RunDriverProofs` proves, for every set of seeds, layers, cadence, bound and pattern of
outages, crashes and signals: `TypeCorrect`, `PublicationInvariant`, `Servability`,
`WholePublication`, `MonotoneRevision` (`Spec => BackOnlyWhenMisled`) and `Refinement`
(`Spec => PW!Spec`). Nothing is assumed of the boot's read of the stored revision: where it
fails, the code takes the revision for 0, `misled` records it, and the statements say what
still holds. `WholePublication` needs no such distinction: a set is never mixed. The other three
except the time from a misled claim to the first publication after it, and no longer:
`PublishIfReady`, once applied, makes the published revision the driver's own again.

The argument. `PublishedIsServable` is not inductive: to know that publishing `rev` is safe
one must know that a clean flush wrote everything. `PublicationInv` adds: (a) from the boot
claim on, `rev` dominates `meta.rev`, unless misled; (b) in the flush, as
long as `ok` holds, every gating baseline the flush has passed shows exactly `(rev, world)`;
(c) `todo` is empty once the flush is past its writes. Lemmas `RevisionStep`, `FlushStep` and
`ReaderView` preserve the three parts; `PublishStep` derives from (b) that a publication finds
a whole set; the refinement follows with one step lemma (`PromiseStep`).

The why-trace. The same module proves what becomes of the events for every capacity of the
buffer, any number of lifetimes and every outcome of every call: `NoForeignTraceHolds` and
`ReplayCutHolds` without an assumption; `TraceOnceInOrderHolds` and `NoTraceLostHolds` under
`AckMayBeLost = FALSE`, which both need: a commit applied with its reply lost is stored and
queued again, a reset applied with its reply lost wipes the trace of a world that goes on. Each step changes the rows (`events`), the queue
(`buf`) and the batch in hand (`job.batch`) in one of few ways; the lemmas of the section
"views of steps" say which, so that every invariant is followed over those ways and not over
each store call. `Bookkeeping` relates `pc`, the batch and the counters; `Provenance` says
where each event comes from: the world in hand, the history that counts, or the candidate
being built. `Ordered` puts rows, batch and queue in one rising line of each process's
numbers; `SnapshotsCut` keeps every row of a process on its side of every snapshot's
`last_event_seq`; `Balance` counts: what was emitted is stored, in hand, queued, reported as
trimmed or still to be reported. Its first section supplies what a trim keeps and counts, for
every buffer (`EnforceLimitKeepsNewest`).

`LiveViewProofs` proves, for every history, layers, failure switches and number of lost
connections, `OneRevisionDrawn`: plants and roster drawn together come from baselines of one
revision. `OneRevision` compares two documents accepted at different times, so it is not
inductive. `RevisionInv` ties both to the one field the reducer decides by: a snapshot shown
has the view's revision, plants shown have it too (`FloraTagged`, which must also hold while
a gap has closed the snapshot), an answer in flight carries a real revision (`LoadsTagged`),
and plants are only ever asked for once the view has one. The reducer lemmas
(`SnapshotSetsRevision`: a snapshot of another revision closes the plants;
`FloraKeepsRevision`: plants of another revision are refused) carry the step `Accept`; every
other step leaves the revision alone.

`OneRevisionDrawn` holds whatever is claimed. What follows is proved as long as `~reused`: no
process has claimed a revision that was claimed before (section 3). After that one revision
names two worlds, and no client can tell their entries apart. `reused` never falls
(`ReusedForGood`), so each invariant is proved as `~reused => ...` along the prefix.

The same module proves `RosterNotOlderHolds`, `OldWorldNeverReplaysHolds` and
`BaselineNotUndoneHolds`, for every instance and with every failure: appends are
lost, connections overtaken, pauses pressed, purges and `XINFO` fail. They follow from
`ViewInvariant`.
Its parts: the frames in flight and the operations held back are entries of the history, in
order, after what was applied and up to what was read (`Frames`, `Positions`); a document,
whether stored, in flight or shown, stands `Apart` from the entries still to come: each of them
is after the position the document shows, or not after the cursor it is tagged with
(`Documents`); and what is drawn of a slice is no later than anything still to come (`Drawn`).
`Apart` is what a flush guarantees by reading the cursor before it captures the world, and a
rebuild by emitting its own frame first; it is why replay by cursor is right. The history
only grows, so the lemmas about a history (`LastFacts`, `GrowFacts`, `InOrderFacts`) are
stated for any sequence, and each action of the feed, the server and the client has one
lemma saying which of these parts it touches.

On top of `ViewInvariant` it proves that the view follows the world: `ViewFollowsHolds`, the
property of `late_join` and `trimmed`, for every history, set of layers and number of lost
connections, with regens, restarts, reboots and failing writes of baselines. Beside `~reused`
two hypotheses remain, each a switch of the model. `Lossless`: no append is lost, no `XINFO` fails, no trim
overtakes an open connection, nobody presses pause. And nothing is trimmed where there is a
grid, because a gap fetches snapshot and plants again but not the grid; for roster and plants
(`RosterAndPlantsFollow`) any trimming is allowed. Each hypothesis is needed: with any one of the
four switches of `Lossless` on in `trimmed`, or trimming on in `late_join`, TLC finds
`ViewFollows` violated. (`~reused` is what the proof rests on; TLC finds no violation of `ViewFollows`
without it in `trimmed`, because `OneWorld` already asks for entries of the snapshot's world.)

The argument. `Retention`: what the stream no longer holds was trimmed (then `maxDeleted`
tells), deleted by a regen, or is the mark of a rebuild; a cursor leaves only such marks
between itself and the state it stands for. Hence `Gapless`: of the world the snapshot
belongs to, every entry before one that still comes has been applied or comes too. This is
where a gap must be reported for certain, and why a connection resumes at the greater of
snapshot and applied position. Hence an entry, when applied, is the next one of its world (`EntryWorld`),
and a step that applies nothing and draws no snapshot leaves the world shown where it was
(`StillWorld`). The layers then differ only in what waits. The roster waits for nothing
(`AgentsDrawn`). Plants wait in a queue that is in order and behind what still comes
(`Queued`), and `FloraDrawn` says that every operation since the snapshot waits or is drawn;
a baseline taken replays those after its cursor. Changes of the grid wait without a cursor
to filter them, so `TerrainDrawn` says that all since the snapshot wait, that the last one
decides, and that a grid ahead of the entries applied is its own document's. Each part was
checked by TLC as an invariant before it was proved.

`WildlifeProofs` proves all five safety properties of the animals, for any herd, food web,
order of strength and damage (`WildlifeHolds`). `NoZombies` needs most of the rest: an animal struck dead is buried by the same step, a
rival that loses a contest is passed over by both passes, and both must agree on who lost
although pass 2 asks again with some contenders gone. The invariant adds what an intent may
say and when it still agrees with its animal (`FitIntent`, `Proposed`, `Pending`), that a
strike breaks cover and sleep (`Alert`), that what struck whom in this tick locks those who
live (`Struggles`), and the refractory ledger. That a contest can only shrink in pass 2 makes
`RivalsTakeTurns` provable: a second winner needs the first one gone.

`LandProofs` proves all four properties of the land, for any map, fixture, weather rules and
stages of rot (`LandHolds`). `RegistersAgree` holds up to the ghosts and the stranded
carcasses a resume leaves, which the invariant names (`Named`): a fresh number is above every
number in any register, also after a resume. `Ledger` ties what is known of a carcass to its
lot while it has one, which makes `ProductsOnce` inductive over passes that take a carcass
through several stages at once, in the strict order in which products get their numbers.
`Weather` is `NavFollowsClimate` and `IceRemembers` together: a repainted cell is remembered
from the navmap, so neither is inductive without the other.

`VillageProofs` proves, for every set of agents, objects and dimensions (`VillageInvariant`),
that a plan serves the goal pursued (`PlansServeGoals`), that nobody is left with nothing to
do and no reason to plan again (`NobodyFreezes`), and that a loser blames who beat it
(`BlameFollowsContest`). None is inductive alone: the invariant adds the type, that a goal
without a plan is always one about to be planned for, and that in the apply phase the
contests already settled name winners that proposed.

`SocietyProofs` proves `VotesAreCountedOnce`, `RolesAreEarned` and `NobodyFalselyAccused`
from `SocietyInvariant`, which is `Shape /\ Honest /\ Ledger /\ Roles`. `Honest`: a pending
offer was really made and blame falls only on a real false offer. `Ledger`: what a hearer
owes a candidate is what it believes plus the votes it has not heard yet, cut at `RelyMax`
wherever the sum passes it. `Roles`: reliance never falls, so a function that has a holder
is scanned again; the holder is the one with the plurality, unique because ties go to the
lower number. `FiniteOrders` supplies that the best of a finite set exists, by induction
over the strict-subset order.

`BackupProofs` proves `HistorySound`, for any runs, clock delay and interval and any retention
whose windows and buckets nest (`HistorySoundHolds`); flushes, resets, failed statements and
restarts come in any order and number. The lemmas about tables come first. `NthFacts` and
`KeptFacts`: the rows kept are those at the indices, each once. `BandFacts`: the SQL window
orders a bucket totally, so a band statement spares exactly the row that ranks first; it was
written latest of its bucket. `BucketsNest`: what is one bucket of ten minutes is within one
of a day, which is why a row thinned out of the younger band still has its cover in the
older. The invariant `BackupInv` says for every row ever written what must still cover it at
this instant (`Kept`), that the rows are among those written, that a prune never outlasts the
instant it began in, that the event a row names is there (`Cuts`), and how far the
pruning has come (`Thinning`): the last two statements need that an earlier one's work stands.
Each statement keeps `Kept` by itself, so it does not matter after which of them a prune
breaks off or the process ends. `ResumeIsLast` follows: the newest row written is covered by
one that is no older, and none is newer. That `FakePg` prunes alike (`FakePrunesAlike`) is a fold
over the rows and stays with TLC.

Model-checked only: the faculties (recursive definitions over paths, plans, floods,
formulas), the fakes beside the stores (`StoresSound`), and liveness, which with ENABLED is
outside the prover. The assumptions used are
the named ones on the constants
(`DriverAssumption`, `BufferLimits`, `FeedAssumption`, `ViewAssumption`,
`VillageAssumption`, `SocietyAssumption`, `WildlifeAssumption`, `LandAssumption`,
`BackupAssumption`), which TLC
evaluates in the runs, and the switches named above. Of those, `LandAssumption` says of
the content what `content/climate.yaml` and the fixture have: a rule out of ice only ever
leads to `__origin__`, what a carcass leaves is neither plant nor carcass, and a fixture's
plant is not called `obj:N`.

## 5. Plan and what is not modelled

Next: lemmas about the operators of the faculties that are not recursive; the resume of
agents and animals; positions and steering; the browser's new-map flow.

Not modelled, with reasons. Configuration, content and deployment: read once at start.
Snapshot encoding: the layout of documents, which fails only as the call that writes them
does. The random generator and the clock: a counter through a published function and a
division; every draw is a choice in these modules. Weather and season: smooth functions of
the time of day and the year, inputs of `Land`. Stat inheritance and held values: arithmetic
over distributions. String-pulled waypoints and hex/point conversion: geometry over reals.
Smell and hearing of agents: computed and dropped by the agent. Drawing, visual effects, dead-agent and
trace panels: no state others read. The economy harness and tuners: outside the running
system.
