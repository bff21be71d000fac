------------------------------ MODULE RunDriver ------------------------------
(***************************************************************************)
(* The run driver of medieval-sim (backend/main.go): the single goroutine  *)
(* that ticks the world, rebuilds it on restart/regen signals, flushes its *)
(* baselines to the Redis live keys, commits the why-trace to Postgres and *)
(* publishes world_revision LAST.                                          *)
(*                                                                         *)
(* One action per store call, because a crash, a SIGTERM, an outage or a   *)
(* reader of the live keys can come between any two of them.  The process  *)
(* memory is lost in a crash; Redis and Postgres survive it.  A world is   *)
(* abstracted to its map seed and a build number; ids, ticks and events    *)
(* are what the properties tell apart.                                     *)
(***************************************************************************)
EXTENDS TraceBuffer, FiniteSets

CONSTANTS
    Seeds,            \* map seeds a regen may use (positive: 0 asks for a random one)
    FixtureSeed,      \* the seed of the fixture file
    Animals, Roster,  \* animal ids; the ones a freshly built map of a seed starts with
    Installed,        \* env layers on: subset of {"flora", "climate", "terrain"}
    HasPg,            \* POSTGRES_DSN is set
    BackupEvery,      \* backup cadence in ticks (0 never flushes)
    Limit,            \* -ticks; 0 runs until SIGTERM
    TickSleep,        \* TICK_SLEEP_MS > 0
    AckMayBeLost,     \* a store may apply a call whose reply is lost
    Outages,          \* the stores that may become unreachable: subset of {"redis", "pg"}
    MaxBoots, MaxRequests, MaxSeq, TickWrap   \* bounds of the checked instance

ASSUME DriverAssumption ==
    /\ Seeds \subseteq Nat \ {0} /\ FixtureSeed \in Nat \ {0}
    /\ Installed \subseteq {"flora", "climate", "terrain"}
    /\ Roster \in [Seeds \cup {FixtureSeed} -> SUBSET Animals]
    /\ BackupEvery \in Nat /\ Limit \in Nat /\ TickWrap \in Nat \ {0}
    /\ HasPg \in BOOLEAN /\ TickSleep \in BOOLEAN
    /\ AckMayBeLost \in BOOLEAN
    /\ Outages \subseteq {"redis", "pg"}
    /\ MaxBoots \in Nat /\ MaxRequests \in Nat /\ MaxSeq \in Nat

VARIABLES
    pc,         \* where the goroutine is; "down" when no process runs
    job,        \* the rebuild or flush in progress: [kind, seed, ret]
    todo,       \* what writeLive has still to write
    world,      \* the world being ticked: [seed, id]
    candidate,  \* the rebuilt world not yet swapped in
    herd,       \* the live animals of world
    tick, i,    \* the world's tick (mod TickWrap) and runLoop's counter
    rev, published, ok,        \* worldPub, and baselineOK of the flush
    seq, buf, old,             \* multiEmitter.seq, eventBuffer, drained batch
    runSeed, backup,           \* main's runSeed; backupStore # nil
    restartCh, regenCh, term,  \* buffered(1) signals; sigCtx cancelled
    meta, live, tickKey, hashes,   \* Redis: meta hash, baselines, tick, animals
    runs, events, snapshots,       \* Postgres: runs row, events, snapshots
    redisUp, pgUp,                 \* the stores' reachability
    boots, requests, built,        \* bounded counters
    emitted, history, reported,    \* history variables, read by properties only:
    misled      \* ... a boot took a revision it could not read for none, and
                \* nothing was published since

procVars  == <<world, candidate, herd, tick, i, runSeed, backup>>
pubVars   == <<rev, published, ok>>
traceVars == <<seq, buf, old, emitted, reported>>
sigVars   == <<restartCh, regenCh, term>>
redisVars == <<meta, live, tickKey, hashes>>
pgVars    == <<runs, events, snapshots>>
envVars   == <<redisUp, pgUp, boots, requests, misled>>
vars == <<pc, job, todo, procVars, pubVars, traceVars, sigVars, redisVars, pgVars,
          envVars, built, history>>

----------------------------------------------------------------------------
(* Values.                                                                 *)

Keys   == {"snapshot"} \cup Installed
Gated  == Keys \ {"climate"}     \* the baselines a bootstrap client needs
Absent == [rev |-> 0, world |-> [seed |-> 0, id |-> 0]]
NoWorld == [seed |-> 0, id |-> 0]
NoJob  == [kind |-> "none", seed |-> 0, ret |-> "loop"]
NoRun  == [seed |-> 0, status |-> "none"]

\* writeLive's order, "entities" standing for the agent and animal hashes.
Order == [snapshot |-> 1, entities |-> 2, flora |-> 3, climate |-> 4, terrain |-> 5]
IsNext(k) == k \in todo /\ \A l \in todo : Order[k] <= Order[l]

Rows(s)  == {s[n] : n \in DOMAIN s}
Final    == job.ret = "final_meta"   \* the final flush uses a fresh context

\* What can come of a store call: applied and acknowledged, not applied, or
\* applied with its reply lost.  sigCtx cancelled fails every call made with it.
Outcomes(up) ==
    IF up /\ (Final \/ ~term) THEN {"ok"}
    ELSE IF AckMayBeLost THEN {"failed", "unacked"} ELSE {"failed"}
applied(r) == r \in {"ok", "unacked"}

----------------------------------------------------------------------------
(* Emission: multiEmitter stamps seq, eventBuffer queues when backup is on. *)

\* What world id leaves of buffer b, seq and emitted: at most one why-trace event.
Emissions(b, boot, on, id) ==
    LET e == [boot |-> boot, seq |-> seq, of |-> id]
    IN  {[buf |-> b, seq |-> seq, emitted |-> emitted]} \cup
        IF on /\ seq < MaxSeq
        THEN {[buf |-> Emit(b, e), seq |-> seq + 1, emitted |-> emitted \cup {e}]}
        ELSE {}

Emitting(m) == buf' = m.buf /\ seq' = m.seq /\ emitted' = m.emitted

----------------------------------------------------------------------------
(* Process start: main up to the tick loop.                                 *)

\* Stores wired (an unreachable Postgres disables backup for this process),
\* world built from the fixture.
Boot ==
    /\ pc = "down" /\ boots < MaxBoots
    /\ boots' = boots + 1 /\ built' = built + 1
    /\ backup' = (HasPg /\ pgUp)
    /\ world' = [seed |-> FixtureSeed, id |-> built + 1]
    /\ herd' = Roster[FixtureSeed] /\ runSeed' = FixtureSeed
    /\ history' = {built + 1}
    /\ \E m \in Emissions(NewBuffer, boots + 1, HasPg /\ pgUp, built + 1) : Emitting(m)
    /\ pc' = "init_meta"
    /\ UNCHANGED <<job, todo, candidate, tick, i, pubVars, old, reported, sigVars,
                   redisVars, pgVars, redisUp, pgUp, requests, misled>>

InitMeta(t, status) ==
    \E r \in Outcomes(redisUp) :
        meta' = IF applied(r) THEN [meta EXCEPT !.tick = t, !.status = status] ELSE meta

BootInitMeta ==
    /\ pc = "init_meta"
    /\ InitMeta(0, "running")
    /\ pc' = IF backup THEN "upsert_run" ELSE "claim"
    /\ UNCHANGED <<job, todo, procVars, pubVars, traceVars, sigVars, live, tickKey, hashes,
                   pgVars, envVars, built, history>>

UpsertRun(status) ==
    \E r \in Outcomes(pgUp) :
        runs' = IF applied(r) THEN [seed |-> runSeed, status |-> status] ELSE runs

BootUpsertRun ==
    /\ pc = "upsert_run"
    /\ UpsertRun("running")
    /\ pc' = "claim"
    /\ UNCHANGED <<job, todo, procVars, pubVars, traceVars, sigVars, redisVars,
                   events, snapshots, envVars, built, history>>

claim_One(stored) == 1
claim(stored) == stored + 1

\* The boot rule: claim stored + 1.  An HGETALL that fails, in an outage or after
\* SIGTERM, counts as stored = 0: revision 1 is claimed over any published one.
ClaimRevision ==
    /\ pc = "claim"
    /\ IF "ok" \in Outcomes(redisUp)
       THEN rev' = claim(meta.rev) /\ UNCHANGED misled
       ELSE rev' = claim(0) /\ misled' = (misled \/ meta.rev > 0)
    /\ published' = FALSE
    /\ pc' = "loop"
    /\ UNCHANGED <<job, todo, procVars, ok, traceVars, sigVars, redisVars, pgVars,
                   redisUp, pgUp, boots, requests, built, history>>

----------------------------------------------------------------------------
(* runLoop.                                                                 *)

More == Limit = 0 \/ i < Limit

BeginFlush(kind, seed, ret) ==
    /\ job' = [kind |-> kind, seed |-> seed, ret |-> ret]
    /\ todo' = Keys \cup {"entities"} /\ ok' = TRUE
    /\ pc' = "write"

\* The loop ends: tick limit reached, or sigCtx done in either select.
LoopEnd ==
    /\ pc \in {"loop", "sleep"}
    /\ (pc = "loop" /\ ~More) \/ term
    /\ BeginFlush("flush", 0, "final_meta")
    /\ UNCHANGED <<procVars, rev, published, traceVars, sigVars, redisVars, pgVars,
                   envVars, built, history>>

\* doRestart / doRegen, from the select at the top of the loop or in the sleep.
Select(at) ==
    /\ pc = at
    /\ at = "loop" => More
    /\ pc' = "rebuild"
    /\ UNCHANGED <<todo, procVars, pubVars, traceVars, term, redisVars, pgVars,
                   envVars, built, history>>

SelectRestart(at, ret) ==
    /\ Select(at)
    /\ restartCh /\ restartCh' = FALSE
    /\ job' = [kind |-> "restart", seed |-> FixtureSeed, ret |-> ret]
    /\ UNCHANGED regenCh

SelectRegen_WhenPublished(at, ret) ==
    /\ Select(at)
    /\ published /\ regenCh # <<>> /\ regenCh' = <<>> /\ UNCHANGED restartCh
    /\ \E s \in Seeds : job' = [kind |-> "regen", seed |-> s, ret |-> ret]

SelectRegen(at, ret) ==
    /\ Select(at)
    /\ regenCh # <<>> /\ regenCh' = <<>>
    /\ \E s \in Seeds :
          /\ regenCh[1] # 0 => s = regenCh[1]
          /\ job' = [kind |-> "regen", seed |-> s, ret |-> ret]
    /\ UNCHANGED restartCh

\* default at the top of the loop; the timer in the sleep.
SelectNone ==
    /\ \/ pc = "loop" /\ More /\ ~restartCh /\ regenCh = <<>> /\ ~term /\ pc' = "tick"
       \/ pc = "sleep" /\ pc' = "advance"
    /\ UNCHANGED <<job, todo, procVars, pubVars, traceVars, sigVars, redisVars, pgVars,
                   envVars, built, history>>

AfterTick == IF TickSleep THEN "sleep" ELSE "advance"

\* w.Tick(): an animal may die or be born, a why-trace event may be emitted.
Tick ==
    /\ pc = "tick"
    /\ tick' = (tick + 1) % TickWrap
    /\ \E a \in Animals \cup {"none"} :
          herd' = IF a \in herd THEN herd \ {a} ELSE herd \cup ({a} \cap Animals)
    /\ \E m \in Emissions(buf, boots, backup, world.id) : Emitting(m)
    /\ pc' = "write_tick"
    /\ UNCHANGED <<job, todo, world, candidate, i, runSeed, backup, pubVars, old, reported,
                   sigVars, redisVars, pgVars, envVars, built, history>>

\* WriteTick sets the tick key only; then the backup cadence is tested.
WriteTick ==
    /\ pc = "write_tick"
    /\ \E r \in Outcomes(redisUp) : tickKey' = IF applied(r) THEN tick ELSE tickKey
    /\ IF BackupEvery > 0 /\ tick % BackupEvery = 0
       THEN BeginFlush("flush", 0, AfterTick)
       ELSE pc' = AfterTick /\ UNCHANGED <<job, todo, ok>>
    /\ UNCHANGED <<procVars, rev, published, traceVars, sigVars, meta, live, hashes,
                   pgVars, envVars, built, history>>

Advance ==
    /\ pc = "advance"
    /\ i' = IF Limit = 0 THEN 0 ELSE i + 1
    /\ pc' = "loop"
    /\ UNCHANGED <<job, todo, world, candidate, herd, tick, runSeed, backup, pubVars, traceVars,
                   sigVars, redisVars, pgVars, envVars, built, history>>

----------------------------------------------------------------------------
(* doRebuild.                                                               *)

abort_KeepsCandidate(b, batch) == restore(b, batch)
abort_DropsBatch(b, batch) == drain(b)

\* The candidate's events are discarded and the old batch goes back, once.
abort(b, batch) == restore(drain(b), batch)

\* The buffer is drained, then the candidate is built; building may fail (after
\* it emitted something), which leaves the current world running.
RebuildFails ==
    /\ pc = "rebuild"
    /\ built' = built + 1
    /\ \E m \in Emissions(drain(buf), boots, backup, built + 1) :
          Emitting([m EXCEPT !.buf = abort(m.buf, buf.evs)])
    /\ pc' = job.ret
    /\ UNCHANGED <<job, todo, procVars, pubVars, old, reported, sigVars, redisVars, pgVars,
                   envVars, history>>

Rebuild ==
    /\ pc = "rebuild"
    /\ built' = built + 1
    /\ candidate' = [seed |-> job.seed, id |-> built + 1]
    /\ old' = buf.evs
    /\ \E m \in Emissions(drain(buf), boots, backup, built + 1) : Emitting(m)
    /\ pc' = IF job.kind = "regen" /\ backup THEN "reset" ELSE "purge_entities"
    /\ UNCHANGED <<job, todo, world, herd, tick, i, runSeed, backup, pubVars, reported, sigVars,
                   redisVars, pgVars, envVars, history>>

\* ResetRunData: one transaction, mandatory.  Its failure aborts the regen.
Reset ==
    /\ pc = "reset"
    /\ \E r \in Outcomes(pgUp) :
        /\ IF applied(r)
           THEN /\ runs' = [seed |-> job.seed, status |-> "running"]
                /\ events' = <<>> /\ snapshots' = {}
           ELSE UNCHANGED pgVars
        /\ IF r = "ok"
           THEN pc' = "purge_entities" /\ UNCHANGED <<buf, old, candidate>>
           ELSE /\ buf' = abort(buf, old)
                /\ old' = <<>> /\ candidate' = NoWorld
                /\ pc' = job.ret
    /\ UNCHANGED <<job, todo, world, herd, tick, i, runSeed, backup, pubVars, seq, emitted,
                   reported, sigVars, redisVars, envVars, built, history>>

\* Best-effort DEL of the outgoing world's animal hashes: its LIVE animals only.
PurgeEntities ==
    /\ pc = "purge_entities"
    /\ \E r \in Outcomes(redisUp) :
          hashes' = IF applied(r) THEN hashes \ herd ELSE hashes
    /\ pc' = IF job.kind = "regen" THEN "purge_keys" ELSE "swap"
    /\ UNCHANGED <<job, todo, procVars, pubVars, traceVars, sigVars, meta, live, tickKey,
                   pgVars, envVars, built, history>>

\* Best-effort DEL of the fixed keys; main's runSeed follows the new map.
PurgeRunKeys ==
    /\ pc = "purge_keys"
    /\ \E r \in Outcomes(redisUp) :
          IF applied(r) THEN live' = [k \in Keys |-> Absent] /\ tickKey' = -1
                        ELSE UNCHANGED <<live, tickKey>>
    /\ runSeed' = job.seed
    /\ pc' = "regen_meta"
    /\ UNCHANGED <<job, todo, world, candidate, herd, tick, i, backup, pubVars, traceVars,
                   sigVars, meta, hashes, pgVars, envVars, built, history>>

RegenInitMeta ==
    /\ pc = "regen_meta"
    /\ InitMeta(0, "running")
    /\ pc' = "swap"
    /\ UNCHANGED <<job, todo, procVars, pubVars, traceVars, sigVars, live, tickKey, hashes,
                   pgVars, envVars, built, history>>

requeue_Always(kind, b, batch) == restore(b, batch)
requeue(kind, b, batch) == IF kind = "restart" THEN restore(b, batch) ELSE b

\* A restart re-queues the old batch ahead of the candidate's; a regen drops it
\* and claims the next revision.  Then the fresh world is flushed at once.
Swap ==
    /\ pc = "swap"
    /\ buf' = requeue(job.kind, buf, old)
    /\ old' = <<>>
    /\ IF job.kind = "regen" THEN rev' = rev + 1 /\ published' = FALSE
                             ELSE UNCHANGED <<rev, published>>
    /\ history' = IF job.kind = "regen" THEN {candidate.id} ELSE history \cup {candidate.id}
    /\ world' = candidate /\ candidate' = NoWorld
    /\ herd' = Roster[candidate.seed] /\ tick' = 0 /\ i' = 0
    /\ BeginFlush(job.kind, job.seed, job.ret)
    /\ UNCHANGED <<runSeed, backup, seq, emitted, reported, sigVars, redisVars, pgVars,
                   envVars, built>>

----------------------------------------------------------------------------
(* flushSnapshot, publishIfReady, finalizeRun.                              *)

gates_NoFlora(k) == k \in {"snapshot", "terrain"}
\* The writes whose failure clears baselineOK.
gates(k) == k \in {"snapshot", "flora", "terrain"}

\* One live-key write of writeLive; snapshot, flora and terrain gate baselineOK.
WriteLive ==
    /\ pc = "write"
    /\ \E k \in todo, r \in Outcomes(redisUp) :
        /\ IsNext(k)
        /\ hashes' = IF k = "entities" /\ applied(r) THEN hashes \cup herd ELSE hashes
        /\ live' = IF k # "entities" /\ applied(r)
                   THEN [live EXCEPT ![k] = [rev |-> rev, world |-> world]]
                   ELSE live
        /\ ok' = (ok /\ (r = "ok" \/ ~gates(k)))
        /\ todo' = todo \ {k}
        /\ pc' = IF todo' # {} THEN "write" ELSE IF backup THEN "backup" ELSE "publish"
    /\ UNCHANGED <<job, procVars, rev, published, traceVars, sigVars, meta, tickKey, pgVars,
                   envVars, built, history>>

lastSeq_First(evs) == IF evs = <<>> THEN -1 ELSE evs[1].seq
lastSeq_Count(evs) == Len(evs) - 1
\* The batch's max seq; -1 stands for NULL.
lastSeq(evs) == IF evs = <<>> THEN -1 ELSE evs[Len(evs)].seq

\* WriteBackup: the drained batch and the snapshot row in one transaction; the
\* batch goes back into the buffer when the call returns an error.
WriteBackup ==
    /\ pc = "backup"
    /\ reported' = reported + buf.dropped
    /\ \E r \in Outcomes(pgUp) :
        /\ IF applied(r)
           THEN /\ events' = events \o buf.evs
                /\ snapshots' = snapshots \cup
                      {[boot |-> boots, of |-> world.id, tick |-> tick, at |-> seq,
                        last |-> lastSeq(buf.evs)]}
           ELSE UNCHANGED <<events, snapshots>>
        /\ buf' = IF r = "ok" THEN drain(takeDropped(buf))
                              ELSE restore(drain(takeDropped(buf)), buf.evs)
    /\ pc' = "publish"
    /\ UNCHANGED <<job, todo, procVars, pubVars, seq, old, emitted, sigVars, redisVars, runs,
                   envVars, built, history>>

pending_Always == ~published
pending == ok /\ ~published

publishedAfter_Optimistic(r) == TRUE
publishedAfter(r) == r = "ok"

\* One HSET publishes the pending revision; anything short of "ok" keeps it pending.
PublishIfReady ==
    /\ pc = "publish"
    /\ IF pending
       THEN \E r \in Outcomes(redisUp) :
              /\ meta' = IF applied(r) THEN [meta EXCEPT !.rev = rev] ELSE meta
              /\ misled' = (misled /\ ~applied(r))
              /\ published' = publishedAfter(r)
       ELSE UNCHANGED <<meta, misled, published>>
    /\ pc' = job.ret
    /\ UNCHANGED <<job, todo, procVars, rev, ok, traceVars, sigVars, live, tickKey, hashes,
                   pgVars, redisUp, pgUp, boots, requests, built, history>>

FinalMeta ==
    /\ pc = "final_meta"
    /\ InitMeta(tick, "completed")
    /\ pc' = IF backup THEN "final_run" ELSE "exit"
    /\ UNCHANGED <<job, todo, procVars, pubVars, traceVars, sigVars, live, tickKey, hashes,
                   pgVars, envVars, built, history>>

FinalRun ==
    /\ pc = "final_run"
    /\ UpsertRun("completed")
    /\ pc' = "exit"
    /\ UNCHANGED <<job, todo, procVars, pubVars, traceVars, sigVars, redisVars,
                   events, snapshots, envVars, built, history>>

----------------------------------------------------------------------------
(* The environment: API signals, SIGTERM, crashes, outages.                 *)

\* The process is gone and its memory with it; the stores stay as they are.
Stopped ==
    /\ pc' = "down" /\ job' = NoJob /\ todo' = {}
    /\ world' = NoWorld /\ candidate' = NoWorld /\ herd' = {} /\ tick' = 0 /\ i' = 0
    /\ runSeed' = 0 /\ backup' = FALSE
    /\ rev' = 0 /\ published' = FALSE /\ ok' = FALSE
    /\ seq' = 0 /\ buf' = NewBuffer /\ old' = <<>> /\ emitted' = {} /\ reported' = 0
    /\ restartCh' = FALSE /\ regenCh' = <<>> /\ term' = FALSE /\ history' = {}
    /\ UNCHANGED <<redisVars, pgVars, envVars, built>>

Exit  == pc = "exit" /\ Stopped
Crash == pc # "down" /\ Stopped

\* A signal sent while one is pending coalesces with it (the state is unchanged).
RequestRestart ==
    /\ pc # "down" /\ ~restartCh /\ requests < MaxRequests
    /\ restartCh' = TRUE /\ requests' = requests + 1
    /\ UNCHANGED <<pc, job, todo, procVars, pubVars, traceVars, regenCh, term, redisVars, pgVars,
                   redisUp, pgUp, boots, misled, built, history>>

RequestRegen(s) ==
    /\ pc # "down" /\ regenCh = <<>> /\ requests < MaxRequests
    /\ regenCh' = <<s>> /\ requests' = requests + 1
    /\ UNCHANGED <<pc, job, todo, procVars, pubVars, traceVars, restartCh, term, redisVars, pgVars,
                   redisUp, pgUp, boots, misled, built, history>>

Sigterm ==
    /\ pc # "down" /\ ~term /\ term' = TRUE
    /\ UNCHANGED <<pc, job, todo, procVars, pubVars, traceVars, restartCh, regenCh, redisVars,
                   pgVars, envVars, built, history>>

\* An outage of one store begins or ends.
Toggle ==
    /\ \/ "redis" \in Outages /\ redisUp' = ~redisUp /\ UNCHANGED pgUp
       \/ "pg" \in Outages /\ pgUp' = ~pgUp /\ UNCHANGED redisUp
    /\ UNCHANGED <<pc, job, todo, procVars, pubVars, traceVars, sigVars, redisVars, pgVars,
                   boots, requests, misled, built, history>>

----------------------------------------------------------------------------

Init ==
    /\ pc = "down" /\ job = NoJob /\ todo = {}
    /\ world = NoWorld /\ candidate = NoWorld /\ herd = {} /\ tick = 0 /\ i = 0
    /\ runSeed = 0 /\ backup = FALSE
    /\ rev = 0 /\ published = FALSE /\ ok = FALSE
    /\ seq = 0 /\ buf = NewBuffer /\ old = <<>> /\ emitted = {} /\ reported = 0
    /\ restartCh = FALSE /\ regenCh = <<>> /\ term = FALSE
    /\ meta = [rev |-> 0, tick |-> 0, status |-> "none"]
    /\ live = [k \in Keys |-> Absent] /\ tickKey = -1 /\ hashes = {}
    /\ runs = NoRun /\ events = <<>> /\ snapshots = {}
    /\ redisUp = TRUE /\ pgUp = TRUE
    /\ boots = 0 /\ requests = 0 /\ built = 0 /\ history = {} /\ misled = FALSE

Rebuilding == RebuildFails \/ Rebuild \/ Reset \/ PurgeEntities \/ PurgeRunKeys
              \/ RegenInitMeta \/ Swap

Flushing == WriteLive \/ WriteBackup \/ PublishIfReady

Selecting == \/ SelectRestart("loop", "tick") \/ SelectRestart("sleep", "advance")
             \/ SelectRegen("loop", "tick") \/ SelectRegen("sleep", "advance")

\* The goroutine's own steps.
Step == \/ BootInitMeta \/ BootUpsertRun \/ ClaimRevision
        \/ LoopEnd \/ Selecting \/ SelectNone \/ Tick \/ WriteTick \/ Advance
        \/ Rebuilding \/ Flushing \/ FinalMeta \/ FinalRun \/ Exit

Environment == \/ Boot \/ Crash \/ RequestRestart \/ Sigterm \/ Toggle
               \/ \E s \in Seeds \cup {0} : RequestRegen(s)

Next == Step \/ Environment

Spec == Init /\ [][Next]_vars

\* The goroutine is never descheduled for good, and Go's select picks uniformly
\* among ready channels, so a branch ready again and again is taken.
Fairness ==
    /\ WF_vars(Step)
    /\ SF_vars(SelectRestart("loop", "tick") \/ SelectRestart("sleep", "advance"))
    /\ SF_vars(SelectRegen("loop", "tick") \/ SelectRegen("sleep", "advance"))

FairSpec == Spec /\ Fairness

----------------------------------------------------------------------------
(* Type invariant.                                                         *)

WorldType == [seed : Seeds \cup {0, FixtureSeed}, id : Nat]
EventType == [boot : Nat, seq : Nat, of : Nat]
PCs == {"down", "init_meta", "upsert_run", "claim", "loop", "tick", "write_tick", "sleep",
        "advance", "rebuild", "reset", "purge_entities", "purge_keys", "regen_meta", "swap",
        "write", "backup", "publish", "final_meta", "final_run", "exit"}

Replacing == {"reset", "purge_entities", "purge_keys", "regen_meta", "swap"}

ProcessType ==
    /\ pc \in PCs
    /\ job \in [kind : {"none", "flush", "restart", "regen"},
                seed : Seeds \cup {0, FixtureSeed},
                ret : {"loop", "tick", "sleep", "advance", "final_meta"}]
    /\ todo \in SUBSET (Keys \cup {"entities"})
    /\ world \in WorldType /\ candidate \in WorldType
    /\ herd \in SUBSET Animals /\ tick \in Nat /\ i \in Nat
    /\ rev \in Nat /\ published \in BOOLEAN /\ ok \in BOOLEAN
    /\ runSeed \in Nat /\ backup \in BOOLEAN
    /\ restartCh \in BOOLEAN /\ term \in BOOLEAN /\ regenCh \in Seq(Seeds \cup {0})
    /\ boots \in Nat /\ requests \in Nat /\ built \in Nat
    /\ pc = "rebuild" => job.seed # 0
    /\ pc \in Replacing => candidate.seed # 0

TraceType ==
    /\ seq \in Nat /\ old \in Seq(EventType)
    /\ buf \in [evs : Seq(EventType), dropped : Nat]
    /\ events \in Seq(EventType)
    /\ emitted \in SUBSET EventType /\ history \in SUBSET Nat /\ reported \in Nat

StoreType ==
    /\ meta \in [rev : Nat, tick : Nat, status : {"none", "running", "completed"}]
    /\ live \in [Keys -> [rev : Nat, world : WorldType]]
    /\ tickKey \in Nat \cup {-1} /\ hashes \in SUBSET Animals
    /\ runs \in [seed : Nat, status : {"none", "running", "completed"}]
    /\ redisUp \in BOOLEAN /\ pgUp \in BOOLEAN /\ misled \in BOOLEAN

\* Every variable holds a value of the kind the code gives it.
TypeOK == ProcessType /\ TraceType /\ StoreType

----------------------------------------------------------------------------
(* Publication.                                                            *)

\* Whoever reads revision N in meta never finds an older snapshot, flora or
\* terrain baseline: each is at least as new, or absent while a regen replaces
\* it.  (publishIfReady after writeLive; PublishWorldRevision's contract.)  What
\* suspends it is a boot that could not read N and writes its own baselines under
\* revision 1; the first publication after that restores it.
PublishedIsServable ==
    ~misled => \A k \in Gated : live[k] # Absent => live[k].rev >= meta.rev

Claimed == PCs \ {"down", "init_meta", "upsert_run", "claim"}

\* Why the promise holds: from the boot claim on, the driver's revision is at
\* least the published one unless a boot was misled, and while a flush that has
\* not failed yet is under way, every baseline it has passed shows the driver's
\* revision and world.
PublicationInv ==
    /\ pc \in Claimed => rev > 0 /\ (misled \/ rev >= meta.rev)
    /\ pc \in {"backup", "publish"} => todo = {}
    /\ (pc \in {"write", "backup", "publish"} /\ ok) =>
          \A k \in Gated \ todo : live[k] = [rev |-> rev, world |-> world]
    /\ PublishedIsServable

\* A revision appears in meta, or counts as published, only when every gating
\* baseline is already stored under it and all of them come from the one world the
\* driver is running: no crash, outage, signal or failed boot read between two
\* writes lets a mixed set be published.
PublishedWhole ==
    [][meta'.rev # meta.rev \/ (published' /\ ~published) =>
          \A k \in Gated : live[k] = [rev |-> meta'.rev, world |-> world]]_vars

\* The published revision goes back only at the first publication of a process that
\* could not read it at boot: no crash, regen, outage or lost reply does it.  (main.go
\* promises "never backwards, never reused" without that exception.)
BackOnlyWhenMisled == [][meta'.rev >= meta.rev \/ misled]_vars

\* The driver implements the abstract promise PublishedWorld.
PW == INSTANCE PublishedWorld
        WITH Baselines <- Gated, Missing <- Absent,
             published <- meta.rev, base <- [k \in Gated |-> live[k]]
KeepsPromise == PW!Spec

\* A pending revision is published once Redis stays reachable and the process
\* stays up: the backup cadence retries flush and publication.
PendingIsPublished == <>[](redisUp /\ pc # "down" /\ ~term) => <>[](meta.rev = rev)

\* A restart or regen signal is consumed (or the process ends).
SignalsServed == /\ (regenCh # <<>>) ~> (regenCh = <<>>)
                 /\ restartCh ~> ~restartCh

----------------------------------------------------------------------------
(* Why-trace.                                                              *)

Rising(s) == \A m, n \in DOMAIN s : m < n /\ s[m].boot = s[n].boot => s[m].seq < s[n].seq
OfBoot(s) == {e \in Rows(s) : e.boot = boots}
Settled   == pc \notin Replacing \cup {"down"}

\* The rows committed, then what is still queued: the seq of each process's events
\* rises strictly, so none is stored twice or out of order, whatever failed between.
TraceOnceInOrder == Rising(events \o old \o buf.evs)

\* Every event of the worlds whose history still counts (a regen wipes it, a
\* restart appends to it) is stored or queued, except the trimmed ones, which
\* are counted for the warning.
NoTraceLost ==
    Settled =>
        LET kept == {e \in emitted : e.of \in history}
        IN  Cardinality(kept \ (Rows(events) \cup Rows(buf.evs))) <= reported + buf.dropped

\* Nothing a discarded candidate or a wiped map emitted reaches the buffer or
\* the stored trace of the continuing world.
NoForeignTrace ==
    Settled => \A e \in OfBoot(events) \cup Rows(buf.evs) : e.of \in history

\* A snapshot row cuts this process's stored trace consistently: the rows at or
\* below last_event_seq are exactly those emitted before the snapshot.
ReplayCut ==
    \A s \in snapshots : s.last # -1 =>
        \A e \in Rows(events) : e.boot = s.boot => (e.seq <= s.last <=> e.seq < s.at)

=============================================================================
