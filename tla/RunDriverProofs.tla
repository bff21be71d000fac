--------------------------- MODULE RunDriverProofs ---------------------------
(***************************************************************************)
(* Theorems about the run driver, for every seed set, env configuration,   *)
(* cadence, bound and pattern of crashes, outages and signals; and first   *)
(* what the operators of its why-trace buffer return, for every limit,     *)
(* buffer and batch.                                                       *)
(***************************************************************************)
EXTENDS RunDriver, FiniteSetTheorems, TLAPS

----------------------------------------------------------------------------
(* The why-trace buffer.                                                   *)

Buffers(E) == [evs : Seq(E), dropped : Nat]

\* enforceLimit leaves a buffer within the limit whose events are a suffix of
\* the ones it was given, and counts exactly the events it cut.
LEMMA EnforceLimitKeepsNewest ==
    ASSUME NEW E, NEW b \in Buffers(E)
    PROVE  /\ enforceLimit(b) \in Buffers(E)
           /\ Len(enforceLimit(b).evs) <= MaxEvents
           /\ LET cut == Len(b.evs) - Len(enforceLimit(b).evs)
              IN  /\ cut >= 0
                  /\ enforceLimit(b).dropped = b.dropped + cut
                  /\ \A n \in 1..Len(enforceLimit(b).evs) :
                        enforceLimit(b).evs[n] = b.evs[n + cut]
<1> DEFINE drop == Len(b.evs) - (MaxEvents - TrimEvents)
<1>1. b.evs \in Seq(E) /\ b.dropped \in Nat /\ Len(b.evs) \in Nat
  BY DEF Buffers
<1>2. CASE Len(b.evs) <= MaxEvents
  <2>1. enforceLimit(b) = b
    BY <1>2 DEF enforceLimit
  <2> QED
    BY <1>1, <1>2, <2>1
<1>3. CASE Len(b.evs) > MaxEvents
  <2>1. PICK k : k = drop
    OBVIOUS
  <2>2. k \in Nat /\ k >= 1 /\ k <= Len(b.evs) /\ Len(b.evs) - k <= MaxEvents
    BY <1>1, <1>3, <2>1, BufferLimits
  <2>3. /\ SubSeq(b.evs, k + 1, Len(b.evs)) \in Seq(E)
        /\ Len(SubSeq(b.evs, k + 1, Len(b.evs))) = Len(b.evs) - k
        /\ \A n \in 1..(Len(b.evs) - k) : SubSeq(b.evs, k + 1, Len(b.evs))[n] = b.evs[n + k]
    BY <1>1, <2>2
  <2>4. enforceLimit(b) = [evs |-> SubSeq(b.evs, k + 1, Len(b.evs)), dropped |-> b.dropped + k]
    <3>1. ~(Len(b.evs) <= MaxEvents)
      BY <1>1, <1>3, BufferLimits
    <3> QED
      BY <2>1, <3>1 DEF enforceLimit
  <2>5. PICK u : u = SubSeq(b.evs, k + 1, Len(b.evs))
    OBVIOUS
  <2>6. /\ u \in Seq(E) /\ Len(u) = Len(b.evs) - k
        /\ \A n \in 1..(Len(b.evs) - k) : u[n] = b.evs[n + k]
        /\ enforceLimit(b) = [evs |-> u, dropped |-> b.dropped + k]
    BY <2>3, <2>4, <2>5
  <2>7. enforceLimit(b).evs = u /\ enforceLimit(b).dropped = b.dropped + k
    BY <2>6
  <2>8. enforceLimit(b) \in Buffers(E)
    BY <1>1, <2>2, <2>6 DEF Buffers
  <2>9. Len(b.evs) - Len(u) = k /\ Len(u) <= MaxEvents
    BY <1>1, <2>2, <2>6
  <2>10. PICK x, d : x = enforceLimit(b).evs /\ d = enforceLimit(b).dropped
    OBVIOUS
  <2>11. x = u /\ d = b.dropped + k
    BY <2>7, <2>10
  <2>12. \A n \in 1..Len(x) : x[n] = b.evs[n + (Len(b.evs) - Len(x))]
    BY <2>6, <2>9, <2>11
  <2>13. PICK cut : cut = Len(b.evs) - Len(x)
    OBVIOUS
  <2>14. cut = k /\ Len(x) <= MaxEvents
    BY <2>9, <2>11, <2>13
  <2>15. cut >= 0 /\ d = b.dropped + cut
    BY <2>2, <2>11, <2>14
  <2>16. \A n \in 1..Len(x) : x[n] = b.evs[n + cut]
    BY <2>12, <2>13
  <2> QED
    BY <2>8, <2>10, <2>13, <2>14, <2>15, <2>16
<1>4. Len(b.evs) <= MaxEvents \/ Len(b.evs) > MaxEvents
  BY <1>1, BufferLimits
<1> QED
  BY <1>2, <1>3, <1>4

\* An emission leaves a buffer.
LEMMA EmitType ==
    ASSUME NEW E, NEW b \in Buffers(E), NEW e \in E
    PROVE  Emit(b, e) \in Buffers(E)
<1>1. b.evs \in Seq(E) /\ b.dropped \in Nat /\ b = [evs |-> b.evs, dropped |-> b.dropped]
  BY DEF Buffers
<1>2. Append(b.evs, e) \in Seq(E)
  BY <1>1
<1>3. [b EXCEPT !.evs = Append(@, e)] \in Buffers(E)
  BY <1>1, <1>2 DEF Buffers
<1> QED
  BY <1>3, EnforceLimitKeepsNewest DEF Emit

\* So does a batch put back before what was buffered meanwhile.
LEMMA RestoreType ==
    ASSUME NEW E, NEW b \in Buffers(E), NEW s \in Seq(E)
    PROVE  restore(b, s) \in Buffers(E)
<1>1. b.evs \in Seq(E) /\ b.dropped \in Nat /\ b = [evs |-> b.evs, dropped |-> b.dropped]
  BY DEF Buffers
<1>2. s \o b.evs \in Seq(E)
  BY <1>1
<1>3. [b EXCEPT !.evs = s \o @] \in Buffers(E)
  BY <1>1, <1>2 DEF Buffers
<1> QED
  BY <1>3, EnforceLimitKeepsNewest DEF restore

\* So do handing the events over and reporting how many were dropped.
LEMMA DrainType ==
    ASSUME NEW E, NEW b \in Buffers(E)
    PROVE  drain(b) \in Buffers(E) /\ takeDropped(b) \in Buffers(E)
<1>1. b.evs \in Seq(E) /\ b.dropped \in Nat /\ b = [evs |-> b.evs, dropped |-> b.dropped]
  BY DEF Buffers
<1>2. <<>> \in Seq(E)
  OBVIOUS
<1> QED
  BY <1>1, <1>2 DEF Buffers, drain, takeDropped

----------------------------------------------------------------------------
(* Type correctness.                                                       *)

LEMMA SeedIsNat ==
    ASSUME NEW s \in Seeds \cup {0, FixtureSeed}
    PROVE  s \in Nat
  BY DriverAssumption

LEMMA TypeInit == Init => TypeOK
<1> SUFFICES ASSUME Init PROVE TypeOK
  OBVIOUS
<1>1. ProcessType
  <2>1. job \in [kind : {"none", "flush", "restart", "regen"}, seed : Seeds \cup {0, FixtureSeed},
                 ret : {"loop", "tick", "sleep", "advance", "final_meta"}]
    BY DEF Init, NoJob
  <2>2. world \in WorldType /\ candidate \in WorldType
    BY DEF Init, NoWorld, WorldType
  <2>3. regenCh \in Seq(Seeds \cup {0})
    BY DEF Init
  <2> QED
    BY <2>1, <2>2, <2>3 DEF Init, ProcessType, PCs, Replacing
<1>2. TraceType
  BY DEF Init, TraceType, NewBuffer
<1>3. StoreType
  BY DEF Init, StoreType, NoRun, Absent, WorldType
<1> QED
  BY <1>1, <1>2, <1>3 DEF TypeOK

\* What an emission leaves is a buffer, a sequence number and a set of events.
LEMMA EmissionType ==
    ASSUME NEW b \in Buffers(EventType), NEW n \in Nat, NEW on \in BOOLEAN, NEW d \in Nat,
           seq \in Nat, emitted \in SUBSET EventType,
           NEW m \in Emissions(b, n, on, d)
    PROVE  m.buf \in Buffers(EventType) /\ m.seq \in Nat /\ m.emitted \in SUBSET EventType
<1> DEFINE ev == [boot |-> n, seq |-> seq, of |-> d]
<1>1. ev \in EventType
  BY DEF EventType
<1>2. Emit(b, ev) \in Buffers(EventType)
  BY <1>1, EmitType
<1>3. \/ m = [buf |-> b, seq |-> seq, emitted |-> emitted]
      \/ m = [buf |-> Emit(b, ev), seq |-> seq + 1, emitted |-> emitted \cup {ev}]
  BY DEF Emissions
<1> HIDE DEF ev
<1> QED
  BY <1>1, <1>2, <1>3

MetaType == [rev : Nat, tick : Nat, status : {"none", "running", "completed"}]

LEMMA InitMetaType ==
    ASSUME meta \in MetaType, NEW t \in Nat, NEW st \in {"running", "completed"}, InitMeta(t, st)
    PROVE  meta' \in MetaType /\ meta'.rev = meta.rev
<1>1. meta' = meta \/ meta' = [meta EXCEPT !.tick = t, !.status = st]
  BY DEF InitMeta
<1> QED
  BY <1>1 DEF MetaType

LEMMA TypeStep == TypeOK /\ [Next]_vars => TypeOK'
<1> SUFFICES ASSUME TypeOK, [Next]_vars PROVE TypeOK'
  OBVIOUS
<1> USE DEF TypeOK, ProcessType, TraceType, StoreType, PCs, Replacing, procVars, pubVars, traceVars, sigVars,
            redisVars, pgVars, envVars
<1>a. /\ job.seed \in Seeds \cup {0, FixtureSeed}
      /\ job.ret \in {"loop", "tick", "sleep", "advance", "final_meta"}
      /\ job.kind \in {"none", "flush", "restart", "regen"}
  OBVIOUS
<1>b. job.seed \in Nat
  BY <1>a, SeedIsNat
<1>c. NoWorld \in WorldType
  BY DEF NoWorld, WorldType
<1>d. buf \in Buffers(EventType)
  BY DEF Buffers
<1>e. /\ world.seed \in Seeds \cup {0, FixtureSeed} /\ world.id \in Nat
      /\ candidate.seed \in Seeds \cup {0, FixtureSeed} /\ candidate.id \in Nat
  BY DEF WorldType
<1>1. CASE BootInitMeta
  <2>1. meta' \in MetaType
    BY <1>1, InitMetaType DEF BootInitMeta, MetaType
  <2> QED
    BY <1>1, <2>1 DEF BootInitMeta, MetaType
<1>2. CASE BootUpsertRun
  BY <1>2, DriverAssumption DEF BootUpsertRun, UpsertRun
<1>3. CASE ClaimRevision
  <2>1. meta.rev \in Nat
    OBVIOUS
  <2>2. rev' \in Nat
    BY <1>3, <2>1 DEF ClaimRevision, claim
  <2>3. published' \in BOOLEAN /\ pc' \in PCs
    BY <1>3 DEF ClaimRevision
  <2>4. misled' \in BOOLEAN
    <3>1. misled \in BOOLEAN
      OBVIOUS
    <3>2. misled' = misled \/ misled' = (misled \/ meta.rev > 0)
      BY <1>3 DEF ClaimRevision
    <3> QED
      BY <3>1, <3>2, Zenon
  <2>5. UNCHANGED <<job, todo, procVars, ok, traceVars, sigVars, redisVars, pgVars,
                    redisUp, pgUp, boots, requests, built, history>>
    BY <1>3 DEF ClaimRevision
  <2>6. pc' = "loop"
    BY <1>3 DEF ClaimRevision
  <2>7. ProcessType'
    BY <2>2, <2>3, <2>5, <2>6
  <2>8. TraceType' /\ StoreType'
    BY <2>4, <2>5
  <2> QED
    BY <2>7, <2>8
<1>4. CASE LoopEnd
  BY <1>4, DriverAssumption DEF LoopEnd, BeginFlush
<1>5. CASE SelectNone
  BY <1>5, DriverAssumption DEF SelectNone
<1>6. CASE WriteTick
  <2>1. tickKey' \in Nat \cup {-1}
    BY <1>6 DEF WriteTick
  <2>2. CASE BeginFlush("flush", 0, AfterTick)
    <3>1. job' \in [kind : {"none", "flush", "restart", "regen"}, seed : Seeds \cup {0, FixtureSeed},
                    ret : {"loop", "tick", "sleep", "advance", "final_meta"}]
      BY <2>2 DEF BeginFlush, AfterTick
    <3>2. ProcessType'
      BY <1>6, <2>2, <3>1 DEF WriteTick, BeginFlush
    <3>3. TraceType'
      BY <1>6 DEF WriteTick
    <3>4. StoreType'
      BY <1>6, <2>1 DEF WriteTick
    <3> QED
      BY <3>2, <3>3, <3>4
  <2>3. CASE pc' = AfterTick /\ UNCHANGED <<job, todo, ok>>
    BY <1>6, <2>1, <2>3 DEF WriteTick, AfterTick
  <2> QED
    BY <1>6, <2>2, <2>3 DEF WriteTick
<1>7. CASE Advance
  BY <1>7, DriverAssumption DEF Advance
<1>8. CASE PurgeEntities
  BY <1>8, DriverAssumption DEF PurgeEntities
<1>9. CASE PurgeRunKeys
  <2>1. Absent \in [rev : Nat, world : WorldType]
    BY DEF Absent, WorldType
  <2>2. live' \in [Keys -> [rev : Nat, world : WorldType]] /\ tickKey' \in Nat \cup {-1}
    BY <1>9, <2>1 DEF PurgeRunKeys
  <2> QED
    BY <1>9, <1>b, <2>2 DEF PurgeRunKeys
<1>10. CASE RegenInitMeta
  <2>1. meta' \in MetaType
    BY <1>10, InitMetaType DEF RegenInitMeta, MetaType
  <2> QED
    BY <1>10, <2>1 DEF RegenInitMeta, MetaType
<1>11. CASE WriteLive
  BY <1>11, DriverAssumption DEF WriteLive
<1>12. CASE PublishIfReady
  <2>1. meta' = meta \/ meta' = [meta EXCEPT !.rev = rev]
    BY <1>12 DEF PublishIfReady
  <2>2. meta' \in MetaType
    BY <2>1 DEF MetaType
  <2>3. published' \in BOOLEAN
    BY <1>12 DEF PublishIfReady, publishedAfter
  <2>4. pc' \in {"loop", "tick", "sleep", "advance", "final_meta"}
    BY <1>12, <1>a DEF PublishIfReady
  <2>5. UNCHANGED <<job, todo, procVars, rev, ok, traceVars, sigVars, live, tickKey, hashes,
                    pgVars, redisUp, pgUp, boots, requests, built, history>>
    BY <1>12 DEF PublishIfReady
  <2>6. ProcessType'
    BY <2>3, <2>4, <2>5
  <2>8. misled' \in BOOLEAN
    <3>1. misled \in BOOLEAN
      OBVIOUS
    <3>2. misled' = misled \/ \E r \in Outcomes(redisUp) : misled' = (misled /\ ~applied(r))
      BY <1>12 DEF PublishIfReady
    <3> QED
      BY <3>1, <3>2, Zenon
  <2>7. TraceType' /\ StoreType'
    BY <2>2, <2>5, <2>8 DEF MetaType
  <2> QED
    BY <2>6, <2>7
<1>13. CASE FinalMeta
  <2>1. meta' \in MetaType
    BY <1>13, InitMetaType DEF FinalMeta, MetaType
  <2> QED
    BY <1>13, <2>1 DEF FinalMeta, MetaType
<1>14. CASE FinalRun
  BY <1>14, DriverAssumption DEF FinalRun, UpsertRun
<1>15. CASE RequestRestart
  BY <1>15, DriverAssumption DEF RequestRestart
<1>16. CASE Sigterm
  BY <1>16, DriverAssumption DEF Sigterm
<1>17. CASE Toggle
  <2>1. redisUp' \in BOOLEAN /\ pgUp' \in BOOLEAN
    BY <1>17 DEF Toggle
  <2>2. UNCHANGED <<pc, job, todo, procVars, pubVars, traceVars, sigVars, redisVars, pgVars,
                    boots, requests, misled, built, history>>
    BY <1>17 DEF Toggle
  <2> QED
    BY <2>1, <2>2
<1>18. CASE UNCHANGED vars
  BY <1>18 DEF vars
<1>19. CASE \E at \in {"loop", "sleep"}, ret \in {"tick", "advance"} : SelectRestart(at, ret)
  <2>1. PICK at \in {"loop", "sleep"}, ret \in {"tick", "advance"} : SelectRestart(at, ret)
    BY <1>19
  <2>2. job' \in [kind : {"none", "flush", "restart", "regen"}, seed : Seeds \cup {0, FixtureSeed},
                   ret : {"loop", "tick", "sleep", "advance", "final_meta"}]
    BY <2>1 DEF SelectRestart
  <2>3. restartCh' = FALSE /\ pc' = "rebuild" /\ job'.seed # 0
    BY <2>1, DriverAssumption DEF SelectRestart, Select
  <2>4. UNCHANGED <<todo, procVars, pubVars, traceVars, term, regenCh, redisVars, pgVars,
                    envVars, built, history>>
    BY <2>1 DEF SelectRestart, Select
  <2>5. ProcessType'
    BY <2>2, <2>3, <2>4
  <2>6. TraceType' /\ StoreType'
    BY <2>4
  <2> QED
    BY <2>5, <2>6
<1>20. CASE \E at \in {"loop", "sleep"}, ret \in {"tick", "advance"} : SelectRegen(at, ret)
  <2>1. PICK at \in {"loop", "sleep"}, ret \in {"tick", "advance"} : SelectRegen(at, ret)
    BY <1>20
  <2>2. job' \in [kind : {"none", "flush", "restart", "regen"}, seed : Seeds \cup {0, FixtureSeed},
                   ret : {"loop", "tick", "sleep", "advance", "final_meta"}]
    BY <2>1 DEF SelectRegen
  <2>3. regenCh' = <<>> /\ pc' = "rebuild" /\ job'.seed # 0
    BY <2>1, DriverAssumption DEF SelectRegen, Select
  <2> QED
    BY <2>1, <2>2, <2>3 DEF SelectRegen, Select
<1>21. CASE Boot
  <2>1. NewBuffer \in Buffers(EventType)
    BY DEF NewBuffer, Buffers
  <2>2. buf' \in Buffers(EventType) /\ seq' \in Nat /\ emitted' \in SUBSET EventType
    <3>1. PICK m \in Emissions(NewBuffer, boots + 1, HasPg /\ pgUp, built + 1) : Emitting(m)
      BY <1>21 DEF Boot
    <3>2. /\ (HasPg /\ pgUp) \in BOOLEAN /\ boots + 1 \in Nat /\ built + 1 \in Nat
          /\ seq \in Nat /\ emitted \in SUBSET EventType
      OBVIOUS
    <3>3. m.buf \in Buffers(EventType) /\ m.seq \in Nat /\ m.emitted \in SUBSET EventType
      <4> HIDE DEF TypeOK, ProcessType, TraceType, StoreType
      <4> QED
        BY <2>1, <3>2, EmissionType
    <3> QED
      BY <3>1, <3>3 DEF Emitting
  <2>3. world' \in WorldType /\ herd' \in SUBSET Animals
    BY <1>21, DriverAssumption DEF Boot, WorldType
  <2>4. ProcessType'
    BY <1>21, <2>3, DriverAssumption DEF Boot
  <2>5. TraceType'
    BY <1>21, <2>2 DEF Boot, Buffers
  <2>6. StoreType'
    BY <1>21, DriverAssumption DEF Boot
  <2> QED
    BY <2>4, <2>5, <2>6
<1>22. CASE Tick
  <2>1. buf' \in Buffers(EventType) /\ seq' \in Nat /\ emitted' \in SUBSET EventType
    <3>1. PICK m \in Emissions(buf, boots, backup, world.id) : Emitting(m)
      BY <1>22 DEF Tick
    <3>2. backup \in BOOLEAN /\ boots \in Nat /\ world.id \in Nat
          /\ seq \in Nat /\ emitted \in SUBSET EventType
      BY DEF WorldType
    <3>3. m.buf \in Buffers(EventType) /\ m.seq \in Nat /\ m.emitted \in SUBSET EventType
      <4> HIDE DEF TypeOK, ProcessType, TraceType, StoreType
      <4> QED
        BY <1>d, <1>e, <3>1, <3>2, EmissionType
    <3> QED
      BY <3>1, <3>3 DEF Emitting
  <2>2. tick' \in Nat /\ herd' \in SUBSET Animals
    BY <1>22, DriverAssumption DEF Tick
  <2>3. /\ pc' = "write_tick"
        /\ UNCHANGED <<job, todo, world, candidate, i, runSeed, backup, pubVars, old, reported,
                       sigVars, redisVars, pgVars, envVars, built, history>>
    <3> HIDE DEF TypeOK, ProcessType, TraceType, StoreType
    <3> QED
      BY <1>22 DEF Tick
  <2>4. ProcessType'
    BY <2>2, <2>3
  <2>5. TraceType'
    BY <2>1, <2>3 DEF Buffers
  <2>6. StoreType'
    BY <2>3
  <2> QED
    BY <2>4, <2>5, <2>6
<1>23. CASE RebuildFails
  <2>1. drain(buf) \in Buffers(EventType) /\ buf.evs \in Seq(EventType)
    BY DrainType DEF Buffers
  <2>2. PICK m \in Emissions(drain(buf), boots, backup, built + 1) :
           Emitting([m EXCEPT !.buf = abort(m.buf, buf.evs)])
    BY <1>23 DEF RebuildFails
  <2>3. m.buf \in Buffers(EventType) /\ m.seq \in Nat /\ m.emitted \in SUBSET EventType
    <3>1. backup \in BOOLEAN /\ boots \in Nat /\ built + 1 \in Nat
          /\ seq \in Nat /\ emitted \in SUBSET EventType
      OBVIOUS
    <3> HIDE DEF TypeOK, ProcessType, TraceType, StoreType
    <3> QED
      BY <2>1, <3>1, EmissionType
  <2>4. abort(m.buf, buf.evs) \in Buffers(EventType)
    BY <2>1, <2>3, DrainType, RestoreType DEF abort
  <2>5. m = [buf |-> m.buf, seq |-> m.seq, emitted |-> m.emitted]
    BY DEF Emissions
  <2>6. buf' = abort(m.buf, buf.evs) /\ seq' = m.seq /\ emitted' = m.emitted
    BY <2>2, <2>5 DEF Emitting
  <2>7. pc' = job.ret /\ built' = built + 1
    BY <1>23 DEF RebuildFails
  <2>8. UNCHANGED <<job, todo, procVars, pubVars, old, reported, sigVars, redisVars, pgVars,
                    envVars, history>>
    BY <1>23 DEF RebuildFails
  <2>9. ProcessType'
    BY <1>a, <2>7, <2>8
  <2>10. TraceType'
    BY <2>3, <2>4, <2>6, <2>8 DEF Buffers
  <2>11. StoreType'
    BY <2>8
  <2> QED
    BY <2>9, <2>10, <2>11
<1>24. CASE Rebuild
  <2>1. drain(buf) \in Buffers(EventType) /\ buf.evs \in Seq(EventType)
    BY DrainType DEF Buffers
  <2>2. buf' \in Buffers(EventType) /\ seq' \in Nat /\ emitted' \in SUBSET EventType
    <3>1. PICK m \in Emissions(drain(buf), boots, backup, built + 1) : Emitting(m)
      BY <1>24 DEF Rebuild
    <3>2. backup \in BOOLEAN /\ boots \in Nat /\ built + 1 \in Nat
          /\ seq \in Nat /\ emitted \in SUBSET EventType
      OBVIOUS
    <3>3. m.buf \in Buffers(EventType) /\ m.seq \in Nat /\ m.emitted \in SUBSET EventType
      <4> HIDE DEF TypeOK, ProcessType, TraceType, StoreType
      <4> QED
        BY <2>1, <3>1, <3>2, EmissionType
    <3> QED
      BY <3>1, <3>3 DEF Emitting
  <2>3. candidate' \in WorldType
    BY <1>24 DEF Rebuild, WorldType
  <2>4. ProcessType'
    BY <1>24, <2>3 DEF Rebuild
  <2>5. TraceType'
    BY <1>24, <2>1, <2>2 DEF Rebuild, Buffers
  <2>6. StoreType'
    BY <1>24 DEF Rebuild
  <2> QED
    BY <2>4, <2>5, <2>6
<1>25. CASE Reset
  <2>1. abort(buf, old) \in Buffers(EventType)
    BY <1>d, DrainType, RestoreType DEF abort
  <2>2. PICK r \in Outcomes(pgUp) :
        /\ IF applied(r)
           THEN /\ runs' = [seed |-> job.seed, status |-> "running"]
                /\ events' = <<>> /\ snapshots' = {}
           ELSE UNCHANGED pgVars
        /\ IF r = "ok"
           THEN pc' = "purge_entities" /\ UNCHANGED <<buf, old, candidate>>
           ELSE /\ buf' = abort(buf, old)
                /\ old' = <<>> /\ candidate' = NoWorld
                /\ pc' = job.ret
    BY <1>25 DEF Reset
  <2>3. runs' \in [seed : Nat, status : {"none", "running", "completed"}] /\ events' \in Seq(EventType)
    <3>1. CASE applied(r)
      BY <1>b, <2>2, <3>1
    <3>2. CASE ~applied(r)
      BY <2>2, <3>2
    <3> QED
      BY <3>1, <3>2
  <2>4. buf' \in Buffers(EventType) /\ old' \in Seq(EventType) /\ candidate' \in WorldType /\ pc' \in PCs
    <3>1. CASE r = "ok"
      BY <1>d, <2>2, <3>1
    <3>2. CASE r # "ok"
      BY <1>a, <1>c, <2>1, <2>2, <3>2
    <3> QED
      BY <3>1, <3>2
  <2>5. UNCHANGED <<job, todo, world, herd, tick, i, runSeed, backup, pubVars, seq, emitted,
                    reported, sigVars, redisVars, envVars, built, history>>
    BY <1>25 DEF Reset
  <2>6. (pc' = "purge_entities" /\ UNCHANGED candidate) \/ pc' = job.ret
    BY <2>2
  <2>7. ProcessType'
    BY <1>25, <1>a, <2>4, <2>5, <2>6 DEF Reset
  <2>8. TraceType'
    BY <2>3, <2>4, <2>5 DEF Buffers
  <2>9. StoreType'
    BY <2>3, <2>5
  <2> QED
    BY <2>7, <2>8, <2>9
<1>26. CASE Swap
  <2>1. buf' \in Buffers(EventType)
    <3>1. restore(buf, old) \in Buffers(EventType)
      BY <1>d, RestoreType
    <3> QED
      BY <1>26, <1>d, <3>1 DEF Swap, requeue
  <2>2. candidate.seed \in Seeds \cup {FixtureSeed}
    BY <1>26, <1>e DEF Swap
  <2>3. job' \in [kind : {"none", "flush", "restart", "regen"}, seed : Seeds \cup {0, FixtureSeed},
                   ret : {"loop", "tick", "sleep", "advance", "final_meta"}]
    BY <1>26, <1>a DEF Swap, BeginFlush
  <2>4. herd' \in SUBSET Animals
    <3>1. herd' = Roster[candidate.seed]
      BY <1>26 DEF Swap
    <3> QED
      BY <2>2, <3>1, DriverAssumption
  <2>5. rev' \in Nat /\ published' \in BOOLEAN
    <3>1. (rev' = rev + 1 /\ published' = FALSE) \/ UNCHANGED <<rev, published>>
      BY <1>26 DEF Swap
    <3>2. rev \in Nat /\ published \in BOOLEAN
      OBVIOUS
    <3>3. rev' \in Nat
      BY <3>1, <3>2
    <3>4. published' \in BOOLEAN
      BY <3>1, <3>2, Zenon
    <3> QED
      BY <3>3, <3>4
  <2>6. history' \in SUBSET Nat
    BY <1>26, <1>e DEF Swap
  <2> QED
    BY <1>26, <1>c, <2>1, <2>3, <2>4, <2>5, <2>6 DEF Swap, BeginFlush, Buffers
<1>27. CASE WriteBackup
  <2>1. drain(takeDropped(buf)) \in Buffers(EventType)
    BY <1>d, DrainType
  <2>2. restore(drain(takeDropped(buf)), buf.evs) \in Buffers(EventType)
    BY <2>1, RestoreType
  <2>3. buf' \in Buffers(EventType)
    BY <1>27, <2>1, <2>2 DEF WriteBackup
  <2>4. events' \in Seq(EventType)
    <3>1. buf.evs \in Seq(EventType) /\ events \in Seq(EventType)
      BY <1>d DEF Buffers
    <3>2. events' = events \o buf.evs \/ events' = events
      BY <1>27 DEF WriteBackup
    <3>3. events \o buf.evs \in Seq(EventType)
      BY <3>1
    <3> QED
      BY <3>1, <3>2, <3>3
  <2>5. reported' \in Nat
    BY <1>27 DEF WriteBackup
  <2>6. pc' = "publish"
        /\ UNCHANGED <<job, todo, procVars, pubVars, seq, old, emitted, sigVars, redisVars, runs,
                       envVars, built, history>>
    BY <1>27 DEF WriteBackup
  <2>7. ProcessType'
    BY <2>6
  <2>8. TraceType'
    BY <2>3, <2>4, <2>5, <2>6 DEF Buffers
  <2>9. StoreType'
    BY <2>4, <2>6
  <2> QED
    BY <2>7, <2>8, <2>9
<1>28. CASE Exit \/ Crash
  <2>1. Stopped
    BY <1>28 DEF Exit, Crash
  <2>2. NewBuffer \in Buffers(EventType)
    BY DEF NewBuffer, Buffers
  <2>3. job' \in [kind : {"none", "flush", "restart", "regen"}, seed : Seeds \cup {0, FixtureSeed},
                   ret : {"loop", "tick", "sleep", "advance", "final_meta"}]
    BY <2>1 DEF Stopped, NoJob
  <2>4. ProcessType'
    <3>1. UNCHANGED <<boots, requests, built>>
      BY <2>1 DEF Stopped
    <3>2. /\ pc' = "down" /\ todo' = {} /\ world' = NoWorld /\ candidate' = NoWorld /\ herd' = {}
          /\ tick' = 0 /\ i' = 0 /\ runSeed' = 0 /\ backup' = FALSE /\ rev' = 0
          /\ published' = FALSE /\ ok' = FALSE /\ restartCh' = FALSE /\ regenCh' = <<>> /\ term' = FALSE
      BY <2>1 DEF Stopped
    <3>3. boots \in Nat /\ requests \in Nat /\ built \in Nat
      OBVIOUS
    <3>4. <<>> \in Seq(Seeds \cup {0}) /\ {} \in SUBSET (Keys \cup {"entities"}) /\ {} \in SUBSET Animals
      OBVIOUS
    <3> HIDE DEF TypeOK
    <3> QED
      BY <1>c, <2>3, <3>1, <3>2, <3>3, <3>4
  <2>5. TraceType'
    BY <2>1, <2>2 DEF Stopped, Buffers
  <2>6. StoreType'
    BY <2>1 DEF Stopped
  <2> QED
    BY <2>4, <2>5, <2>6
<1>29. CASE \E s \in Seeds \cup {0} : RequestRegen(s)
  BY <1>29 DEF RequestRegen
<1> QED
  BY <1>1, <1>2, <1>3, <1>4, <1>5, <1>6, <1>7, <1>8, <1>9, <1>10, <1>11, <1>12, <1>13, <1>14,
     <1>15, <1>16, <1>17, <1>18, <1>19, <1>20, <1>21, <1>22, <1>23, <1>24, <1>25, <1>26, <1>27,
     <1>28, <1>29
  DEF Next, Step, Environment, Rebuilding, Flushing, Selecting

\* Every variable always holds a value of the kind the code gives it.
THEOREM TypeCorrect == Spec => []TypeOK
  BY TypeInit, TypeStep, PTL DEF Spec

----------------------------------------------------------------------------
(* Publication.                                                            *)

\* What any step does to the readers' view: nothing, one baseline write with
\* the driver's own tag, the cleanup of a regen, publication by a clean flush, or
\* a boot that cannot read what is published.
Untouched == meta'.rev = meta.rev /\ UNCHANGED <<live, misled>>
Writes(k) == /\ pc = "write" /\ meta'.rev = meta.rev /\ UNCHANGED misled
             /\ live' = [live EXCEPT ![k] = [rev |-> rev, world |-> world]]
Purges    == /\ meta'.rev = meta.rev /\ UNCHANGED misled
             /\ live' = [k \in Keys |-> Absent]
Publishes == /\ pc = "publish" /\ ok /\ meta'.rev = rev /\ misled' = FALSE
             /\ UNCHANGED <<live, world>>
Misleads  == meta.rev > 0 /\ misled' = TRUE /\ UNCHANGED <<meta, live>>

LEMMA ReaderView ==
    ASSUME TypeOK, [Next]_vars
    PROVE  Untouched \/ (\E k \in Keys : Writes(k)) \/ Purges \/ Publishes \/ Misleads
<1> USE DEF redisVars, envVars
<1>0. meta \in MetaType
  BY DEF TypeOK, StoreType, MetaType
<1>1. CASE BootInitMeta
  <2>1. meta'.rev = meta.rev
    BY <1>0, <1>1, InitMetaType DEF BootInitMeta
  <2> QED
    BY <1>1, <2>1 DEF BootInitMeta, Untouched
<1>2. CASE FinalMeta
  <2>1. tick \in Nat
    BY DEF TypeOK, ProcessType
  <2>2. meta'.rev = meta.rev
    BY <1>0, <1>2, <2>1, InitMetaType DEF FinalMeta
  <2> QED
    BY <1>2, <2>2 DEF FinalMeta, Untouched
<1>3. CASE RegenInitMeta
  <2>1. meta'.rev = meta.rev
    BY <1>0, <1>3, InitMetaType DEF RegenInitMeta
  <2> QED
    BY <1>3, <2>1 DEF RegenInitMeta, Untouched
<1>4. CASE WriteLive
  <2>1. PICK k \in todo, r \in Outcomes(redisUp) :
           live' = IF k # "entities" /\ applied(r)
                   THEN [live EXCEPT ![k] = [rev |-> rev, world |-> world]]
                   ELSE live
    BY <1>4 DEF WriteLive
  <2>2. k \in Keys \cup {"entities"}
    BY DEF TypeOK, ProcessType
  <2>3. pc = "write" /\ meta' = meta /\ misled' = misled
    BY <1>4 DEF WriteLive
  <2> QED
    BY <2>1, <2>2, <2>3 DEF Untouched, Writes
<1>5. CASE PurgeRunKeys
  BY <1>5 DEF PurgeRunKeys, Untouched, Purges
<1>6. CASE PublishIfReady
  <2>1. \/ meta' = meta /\ misled' = misled
        \/ ok /\ meta' = [meta EXCEPT !.rev = rev] /\ misled' = FALSE
    <3>1. CASE pending
      <4>1. PICK r \in Outcomes(redisUp) :
               /\ meta' = IF applied(r) THEN [meta EXCEPT !.rev = rev] ELSE meta
               /\ misled' = (misled /\ ~applied(r))
        BY <1>6, <3>1 DEF PublishIfReady
      <4>2. misled \in BOOLEAN
        BY DEF TypeOK, StoreType
      <4>3. CASE applied(r)
        BY <3>1, <4>1, <4>3 DEF pending
      <4>4. CASE ~applied(r)
        <5>1. misled' = misled
          BY <4>1, <4>2, <4>4, Zenon
        <5> QED
          BY <4>1, <4>4, <5>1
      <4> QED
        BY <4>3, <4>4
    <3>2. CASE ~pending
      BY <1>6, <3>2 DEF PublishIfReady
    <3> QED
      BY <3>1, <3>2
  <2>2. pc = "publish" /\ UNCHANGED <<live, world>>
    BY <1>6 DEF PublishIfReady, procVars
  <2> QED
    BY <1>0, <2>1, <2>2 DEF Untouched, Publishes, MetaType
<1>7. CASE Exit \/ Crash
  BY <1>7 DEF Exit, Crash, Stopped, Untouched
<1>10. CASE ClaimRevision
  <2>1. misled \in BOOLEAN /\ meta.rev \in Nat
    BY DEF TypeOK, StoreType
  <2>2. UNCHANGED <<meta, live>> /\ (misled' = misled \/ misled' = (misled \/ meta.rev > 0))
    BY <1>10 DEF ClaimRevision
  <2>3. CASE misled' = misled
    BY <2>2, <2>3 DEF Untouched
  <2>4. CASE misled' = (misled \/ meta.rev > 0)
    <3>1. CASE meta.rev > 0
      <4>1. misled' = TRUE
        BY <2>4, <3>1, Zenon
      <4> QED
        BY <2>2, <3>1, <4>1 DEF Misleads
    <3>2. CASE ~(meta.rev > 0)
      <4>1. misled' = misled
        BY <2>1, <2>4, <3>2, Zenon
      <4> QED
        BY <2>2, <4>1 DEF Untouched
    <3> QED
      BY <3>1, <3>2
  <2> QED
    BY <2>2, <2>3, <2>4
<1>8. CASE \/ BootUpsertRun \/ LoopEnd \/ Selecting \/ SelectNone \/ Tick
           \/ WriteTick \/ Advance \/ RebuildFails \/ Rebuild \/ Reset \/ PurgeEntities \/ Swap
           \/ WriteBackup \/ FinalRun \/ Boot \/ RequestRestart \/ Sigterm \/ Toggle
           \/ (\E s \in Seeds \cup {0} : RequestRegen(s))
  BY <1>8 DEF BootUpsertRun, LoopEnd, Selecting, SelectNone, Tick, WriteTick, Advance,
     RebuildFails, Rebuild, Reset, PurgeEntities, Swap, WriteBackup, FinalRun, Boot, RequestRestart,
     Sigterm, Toggle, RequestRegen, SelectRestart, SelectRegen, Select, Untouched
<1>9. CASE UNCHANGED vars
  BY <1>9 DEF vars, Untouched
<1> QED
  BY <1>1, <1>2, <1>3, <1>4, <1>5, <1>6, <1>7, <1>8, <1>9, <1>10
  DEF Next, Step, Environment, Rebuilding, Flushing

LEMMA PublicationInit == Init => PublicationInv
  BY DEF Init, PublicationInv, Claimed, PCs, PublishedIsServable, Gated, Keys

\* The boot claims the successor of what it reads; from then on the revision moves
\* only by the claim of a regen.
LEMMA RevisionStep ==
    ASSUME TypeOK, [Next]_vars
    PROVE  \/ pc' \notin Claimed
           \/ pc \in Claimed /\ rev' \in {rev, rev + 1}
           \/ meta' = meta /\ (rev' = meta.rev + 1 \/ (rev' = 1 /\ misled'))
<1> USE DEF Claimed, PCs
<1>0. job.ret \in {"loop", "tick", "sleep", "advance", "final_meta"}
  BY DEF TypeOK, ProcessType
<1>1. CASE ClaimRevision
  <2>1. \/ rev' = meta.rev + 1
        \/ rev' = 1 /\ misled' = (misled \/ meta.rev > 0)
    BY <1>1 DEF ClaimRevision, claim
  <2>2. meta' = meta /\ meta.rev \in Nat
    BY <1>1 DEF ClaimRevision, redisVars, TypeOK, StoreType
  <2>3. CASE rev' = 1 /\ misled' = (misled \/ meta.rev > 0)
    <3>1. CASE meta.rev > 0
      <4>1. misled'
        BY <2>3, <3>1, Zenon
      <4> QED
        BY <2>2, <2>3, <4>1
    <3>2. CASE ~(meta.rev > 0)
      BY <2>2, <2>3, <3>2
    <3> QED
      BY <3>1, <3>2
  <2> QED
    BY <2>1, <2>2, <2>3
<1>2. CASE Swap
  <2>1. pc = "swap" /\ (rev' = rev + 1 \/ rev' = rev)
    BY <1>2 DEF Swap
  <2> QED
    BY <2>1
<1>3. CASE BootInitMeta \/ BootUpsertRun \/ Boot
  BY <1>3 DEF BootInitMeta, BootUpsertRun, Boot
<1>4. CASE Exit \/ Crash
  BY <1>4 DEF Exit, Crash, Stopped
<1>5. CASE LoopEnd \/ WriteTick \/ WriteLive \/ WriteBackup \/ PublishIfReady
  <2>1. pc \in {"loop", "sleep", "write_tick", "write", "backup", "publish"} /\ rev' = rev
    BY <1>5 DEF LoopEnd, WriteTick, WriteLive, WriteBackup, PublishIfReady, pubVars
  <2> QED
    BY <2>1
<1>6. CASE Selecting
  <2>1. pc \in {"loop", "sleep"} /\ rev' = rev
    BY <1>6 DEF Selecting, SelectRestart, SelectRegen, Select, pubVars
  <2> QED
    BY <2>1
<1>7. CASE SelectNone \/ Tick \/ Advance \/ RebuildFails \/ Rebuild \/ Reset \/ PurgeEntities
           \/ PurgeRunKeys \/ RegenInitMeta \/ FinalMeta \/ FinalRun
  <2>1. /\ rev' = rev
        /\ pc \in {"loop", "sleep", "tick", "advance", "rebuild", "reset", "purge_entities",
                   "purge_keys", "regen_meta", "final_meta", "final_run"}
    BY <1>7 DEF SelectNone, Tick, Advance, RebuildFails, Rebuild, Reset, PurgeEntities,
                PurgeRunKeys, RegenInitMeta, FinalMeta, FinalRun, pubVars
  <2> QED
    BY <2>1
<1>8. CASE RequestRestart \/ Sigterm \/ Toggle \/ (\E s \in Seeds \cup {0} : RequestRegen(s))
           \/ UNCHANGED vars
  <2>1. pc' = pc /\ rev' = rev
    BY <1>8 DEF RequestRestart, Sigterm, Toggle, RequestRegen, vars, pubVars
  <2> QED
    BY <2>1
<1> QED
  BY <1>1, <1>2, <1>3, <1>4, <1>5, <1>6, <1>7, <1>8
  DEF Next, Step, Environment, Rebuilding, Flushing

\* How a flush progresses: it starts with everything to write, passes one key
\* at a time, and goes on to Postgres and publication when none is left.
FlushPhase == {"write", "backup", "publish"}

LEMMA FlushStep ==
    ASSUME TypeOK, [Next]_vars
    PROVE  \/ pc' \notin FlushPhase
           \/ pc' = "write" /\ todo' = Keys \cup {"entities"}
           \/ WriteLive
           \/ pc = "backup" /\ pc' = "publish" /\ UNCHANGED <<todo, ok, rev, world, live>>
           \/ UNCHANGED <<pc, todo, ok, rev, world, live>>
<1> USE DEF FlushPhase
<1>0. job.ret \in {"loop", "tick", "sleep", "advance", "final_meta"}
  BY DEF TypeOK, ProcessType
<1>1. CASE LoopEnd \/ WriteTick \/ Swap
  BY <1>1 DEF LoopEnd, WriteTick, Swap, BeginFlush, AfterTick
<1>2. CASE WriteBackup
  BY <1>2 DEF WriteBackup, pubVars, procVars, redisVars
<1>3. CASE PublishIfReady \/ RebuildFails \/ Reset
  BY <1>0, <1>3 DEF PublishIfReady, RebuildFails, Reset
<1>4. CASE Exit \/ Crash
  BY <1>4 DEF Exit, Crash, Stopped
<1>5. CASE \/ BootInitMeta \/ BootUpsertRun \/ Boot \/ ClaimRevision \/ SelectNone \/ Tick \/ Advance
           \/ Rebuild \/ PurgeEntities \/ PurgeRunKeys \/ RegenInitMeta \/ FinalMeta \/ FinalRun
           \/ Selecting
  BY <1>5 DEF BootInitMeta, BootUpsertRun, Boot, ClaimRevision, SelectNone, Tick, Advance, Rebuild,
              PurgeEntities, PurgeRunKeys, RegenInitMeta, FinalMeta, FinalRun, AfterTick,
              Selecting, SelectRestart, SelectRegen, Select
<1>6. CASE RequestRestart \/ Sigterm \/ Toggle \/ (\E s \in Seeds \cup {0} : RequestRegen(s))
           \/ UNCHANGED vars
  BY <1>6 DEF RequestRestart, Sigterm, Toggle, RequestRegen, vars, pubVars, procVars, redisVars
<1> QED
  BY <1>1, <1>2, <1>3, <1>4, <1>5, <1>6
  DEF Next, Step, Environment, Rebuilding, Flushing

LEMMA PublicationStep ==
    ASSUME TypeOK, TypeOK', PublicationInv, [Next]_vars
    PROVE  PublicationInv'
<1>0. /\ rev \in Nat /\ meta.rev \in Nat /\ rev' \in Nat /\ meta'.rev \in Nat
      /\ live \in [Keys -> [rev : Nat, world : WorldType]]
  BY DEF TypeOK, ProcessType, StoreType
<1>1. pc' \in Claimed => rev' > 0 /\ (misled' \/ rev' >= meta'.rev)
  <2>1. \/ misled' /\ meta'.rev = meta.rev
        \/ meta'.rev = meta.rev /\ misled' = misled
        \/ meta'.rev = rev
    BY ReaderView DEF Untouched, Writes, Purges, Publishes, Misleads
  <2>2. pc \in Claimed => rev > 0 /\ (misled \/ rev >= meta.rev)
    BY DEF PublicationInv
  <2>3. CASE pc \in Claimed /\ rev' \in {rev, rev + 1}
    BY <1>0, <2>1, <2>2, <2>3
  <2>4. CASE meta' = meta /\ (rev' = meta.rev + 1 \/ (rev' = 1 /\ misled'))
    BY <1>0, <2>4
  <2> QED
    BY <2>3, <2>4, RevisionStep
<1>2. /\ pc' \in {"backup", "publish"} => todo' = {}
      /\ (pc' \in FlushPhase /\ ok') =>
            \A k \in Gated \ todo' : live'[k] = [rev |-> rev', world |-> world']
  <2>1. CASE pc' \notin FlushPhase
    BY <2>1 DEF FlushPhase
  <2>2. CASE pc' = "write" /\ todo' = Keys \cup {"entities"}
    BY <2>2 DEF Gated
  <2>3. CASE WriteLive
    <3>1. PICK k \in todo, r \in Outcomes(redisUp) :
            /\ live' = IF k # "entities" /\ applied(r)
                       THEN [live EXCEPT ![k] = [rev |-> rev, world |-> world]]
                       ELSE live
            /\ ok' = (ok /\ (r = "ok" \/ ~gates(k)))
            /\ todo' = todo \ {k}
            /\ pc' = IF todo' # {} THEN "write" ELSE IF backup THEN "backup" ELSE "publish"
      BY <2>3 DEF WriteLive
    <3>2. pc = "write" /\ rev' = rev /\ world' = world
      BY <2>3 DEF WriteLive, procVars
    <3>3. pc' \in {"backup", "publish"} => todo' = {}
      BY <3>1
    <3>4. ASSUME ok', NEW l \in Gated \ todo'
          PROVE  live'[l] = [rev |-> rev', world |-> world']
      <4>1. ok /\ (r = "ok" \/ ~gates(k))
        BY <3>1, <3>4
      <4>2. l \in Keys /\ gates(l) /\ l # "entities"
        BY <3>4, DriverAssumption DEF Gated, Keys, gates
      <4>3. CASE l = k
        <5>1. r = "ok"
          BY <4>1, <4>2, <4>3
        <5>2. live' = [live EXCEPT ![k] = [rev |-> rev, world |-> world]]
          BY <3>1, <4>2, <4>3, <5>1 DEF applied
        <5> QED
          BY <1>0, <3>2, <4>2, <4>3, <5>2
      <4>4. CASE l # k
        <5>1. l \in Gated \ todo
          BY <3>1, <3>4, <4>4
        <5>2. live[l] = [rev |-> rev, world |-> world]
          BY <3>2, <4>1, <5>1 DEF PublicationInv
        <5>3. live'[l] = live[l]
          BY <1>0, <3>1, <4>2, <4>4
        <5> QED
          BY <3>2, <5>2, <5>3
      <4> QED
        BY <4>3, <4>4
    <3> QED
      BY <3>3, <3>4
  <2>4. CASE pc = "backup" /\ pc' = "publish" /\ UNCHANGED <<todo, ok, rev, world, live>>
    BY <2>4 DEF PublicationInv
  <2>5. CASE UNCHANGED <<pc, todo, ok, rev, world, live>>
    BY <2>5 DEF PublicationInv, FlushPhase
  <2> QED
    BY <2>1, <2>2, <2>3, <2>4, <2>5, FlushStep
<1>3. PublishedIsServable'
  <2> SUFFICES ASSUME ~misled', NEW l \in Gated, live'[l] # Absent
               PROVE  live'[l].rev >= meta'.rev
    BY DEF PublishedIsServable, Gated, Keys
  <2>0. l \in Keys
    BY DEF Gated
  <2>1. CASE Untouched
    BY <2>1 DEF Untouched, PublicationInv, PublishedIsServable
  <2>2. ASSUME NEW k \in Keys, Writes(k)
        PROVE  live'[l].rev >= meta'.rev
    <3>1. rev >= meta.rev /\ ~misled
      BY <2>2 DEF Writes, PublicationInv, Claimed, PCs
    <3>2. CASE l = k
      BY <1>0, <2>0, <2>2, <3>1, <3>2 DEF Writes
    <3>3. CASE l # k
      <4>1. live'[l] = live[l] /\ meta'.rev = meta.rev
        BY <1>0, <2>0, <2>2, <3>3 DEF Writes
      <4> QED
        BY <3>1, <4>1 DEF PublicationInv, PublishedIsServable
    <3> QED
      BY <3>2, <3>3
  <2>3. CASE Purges
    BY <2>0, <2>3 DEF Purges
  <2>4. CASE Publishes
    <3>1. live[l] = [rev |-> rev, world |-> world]
      BY <2>4 DEF Publishes, PublicationInv
    <3> QED
      BY <1>0, <2>4, <3>1 DEF Publishes
  <2>5. ~Misleads
    BY DEF Misleads
  <2> QED
    BY <2>1, <2>2, <2>3, <2>4, <2>5, ReaderView
<1> QED
  BY <1>1, <1>2, <1>3 DEF PublicationInv, FlushPhase, Claimed, PCs, PublishedIsServable, Gated, Keys

\* The publication invariant holds in every state, whatever call fails, the boot's
\* read of the stored revision among them (main treats a failed read as 0).
THEOREM PublicationInvariant == Spec => []PublicationInv
<1>1. TypeOK /\ TypeOK' /\ PublicationInv /\ [Next]_vars => PublicationInv'
  BY PublicationStep
<1> QED
  BY <1>1, PublicationInit, TypeCorrect, PTL DEF Spec

\* Whoever reads a revision in meta never then finds an older gating baseline, but
\* for a misled boot's until its first publication.
THEOREM Servability == Spec => []PublishedIsServable
<1>1. PublicationInv => PublishedIsServable
  BY DEF PublicationInv
<1> QED
  BY <1>1, PublicationInvariant, PTL

\* What a publication shows: the driver's revision, with every gating baseline
\* stored under it, and not below the one before unless a boot was misled.
LEMMA PublishStep ==
    ASSUME TypeOK, PublicationInv, Publishes
    PROVE  /\ meta'.rev >= meta.rev \/ misled
           /\ \A k \in Gated : live[k] = [rev |-> meta'.rev, world |-> world]
           /\ UNCHANGED live /\ misled' = FALSE
<1>1. rev \in Nat /\ meta.rev \in Nat /\ (misled \/ rev >= meta.rev)
  BY DEF TypeOK, ProcessType, StoreType, Publishes, PublicationInv, Claimed, PCs
<1>2. \A k \in Gated : live[k] = [rev |-> rev, world |-> world]
  BY DEF Publishes, PublicationInv
<1> QED
  BY <1>1, <1>2 DEF Publishes

\* A revision counts as published by a publication only.
LEMMA CountedStep ==
    ASSUME TypeOK, [Next]_vars, published', ~published
    PROVE  Publishes
<1> USE DEF pubVars
<1>1. CASE PublishIfReady
  <2>1. PICK r \in Outcomes(redisUp) :
           /\ meta' = IF applied(r) THEN [meta EXCEPT !.rev = rev] ELSE meta
           /\ misled' = (misled /\ ~applied(r))
           /\ published' = publishedAfter(r)
    BY <1>1 DEF PublishIfReady
  <2>2. pc = "publish" /\ UNCHANGED <<live, world>> /\ pending
    BY <1>1 DEF PublishIfReady, procVars
  <2>3. applied(r)
    BY <2>1 DEF publishedAfter, applied
  <2>4. meta'.rev = rev
    BY <2>1, <2>3 DEF TypeOK, StoreType
  <2>5. misled' = FALSE
    BY <2>1, <2>3
  <2> QED
    BY <2>2, <2>4, <2>5 DEF Publishes, pending
<1>2. CASE ClaimRevision \/ Exit \/ Crash \/ Swap \/ WriteLive \/ LoopEnd \/ WriteTick
  BY <1>2 DEF ClaimRevision, Exit, Crash, Stopped, Swap, WriteLive, LoopEnd, WriteTick
<1>3. CASE \/ BootInitMeta \/ BootUpsertRun \/ Boot \/ Selecting \/ SelectNone \/ Tick \/ Advance
           \/ RebuildFails \/ Rebuild \/ Reset \/ PurgeEntities \/ PurgeRunKeys \/ RegenInitMeta
           \/ WriteBackup \/ FinalMeta \/ FinalRun
  BY <1>3 DEF BootInitMeta, BootUpsertRun, Boot, Selecting, SelectRestart, SelectRegen, Select, SelectNone,
     Tick, Advance, RebuildFails, Rebuild, Reset, PurgeEntities, PurgeRunKeys, RegenInitMeta, WriteBackup,
     FinalMeta, FinalRun
<1>4. CASE RequestRestart \/ Sigterm \/ Toggle \/ (\E s \in Seeds \cup {0} : RequestRegen(s))
           \/ UNCHANGED vars
  BY <1>4 DEF RequestRestart, Sigterm, Toggle, RequestRegen, vars
<1> QED
  BY <1>1, <1>2, <1>3, <1>4 DEF Next, Step, Environment, Rebuilding, Flushing

\* A revision appears in meta, or counts as published, only over a complete set of
\* one world's baselines.
THEOREM WholePublication == Spec => PublishedWhole
<1>1. TypeOK /\ PublicationInv /\ [Next]_vars =>
        [meta'.rev # meta.rev \/ (published' /\ ~published) =>
           \A k \in Gated : live[k] = [rev |-> meta'.rev, world |-> world]]_vars
  <2> SUFFICES ASSUME TypeOK, PublicationInv, [Next]_vars,
                      meta'.rev # meta.rev \/ (published' /\ ~published)
               PROVE  \A k \in Gated : live[k] = [rev |-> meta'.rev, world |-> world]
    OBVIOUS
  <2>1. Publishes
    BY ReaderView, CountedStep DEF Untouched, Writes, Purges, Misleads
  <2> QED
    BY <2>1, PublishStep
<1> QED
  BY <1>1, TypeCorrect, PublicationInvariant, PTL DEF Spec, PublishedWhole

\* The published revision goes back only at the first publication after a boot that
\* could not read it, over any number of restarts.
THEOREM MonotoneRevision == Spec => BackOnlyWhenMisled
<1>1. TypeOK /\ PublicationInv /\ [Next]_vars => [meta'.rev >= meta.rev \/ misled]_vars
  <2> SUFFICES ASSUME TypeOK, PublicationInv, [Next]_vars
               PROVE  meta'.rev >= meta.rev \/ misled
    OBVIOUS
  <2>1. CASE meta'.rev = meta.rev
    BY <2>1 DEF TypeOK, StoreType
  <2>2. CASE Publishes
    BY <2>2, PublishStep
  <2> QED
    BY <2>1, <2>2, ReaderView DEF Untouched, Writes, Purges, Misleads
<1> QED
  BY <1>1, TypeCorrect, PublicationInvariant, PTL DEF Spec, BackOnlyWhenMisled

----------------------------------------------------------------------------
(* The driver implements the abstract promise.                             *)

LEMMA PromiseInit == Init => PW!Init
  BY DEF Init, PW!Init, Gated, Keys

LEMMA PromiseStep ==
    ASSUME TypeOK, TypeOK', PublicationInv, [Next]_vars
    PROVE  [PW!Next]_(PW!vars)
<1> DEFINE base == [k \in Gated |-> live[k]]
<1>0. /\ live \in [Keys -> [rev : Nat, world : WorldType]] /\ Gated \subseteq Keys
      /\ rev \in Nat /\ meta.rev \in Nat
  BY DEF TypeOK, ProcessType, StoreType, Gated
<1>1. CASE Untouched
  BY <1>1 DEF Untouched, PW!vars
<1>2. ASSUME NEW k \in Keys, Writes(k)
      PROVE  [PW!Next]_(PW!vars)
  <2>1. (rev >= meta.rev \/ misled) /\ meta'.rev = meta.rev /\ misled' = misled
    BY <1>2 DEF Writes, PublicationInv, Claimed, PCs
  <2>2. CASE k \in Gated
    <3>1. base'[k] = [rev |-> rev, world |-> world]
      BY <1>0, <1>2, <2>2 DEF Writes
    <3>2. base' = [base EXCEPT ![k] = base'[k]]
      BY <1>0, <1>2, <2>2, <3>1 DEF Writes
    <3>3. PW!Store(k, base'[k])
      BY <2>1, <3>1, <3>2 DEF PW!Store
    <3> QED
      BY <2>2, <3>3 DEF PW!Next
  <2>3. CASE k \notin Gated
    <3>1. \A l \in Gated : live'[l] = live[l]
      BY <1>0, <1>2, <2>3 DEF Writes
    <3>2. base' = base
      BY <3>1
    <3> QED
      BY <2>1, <3>2 DEF PW!vars
  <2> QED
    BY <2>2, <2>3
<1>3. CASE Purges
  <2>1. base' = [k \in Gated |-> Absent]
    BY <1>0, <1>3 DEF Purges
  <2>2. PW!Withdraw
    BY <1>3, <2>1 DEF PW!Withdraw, Purges
  <2> QED
    BY <2>2 DEF PW!Next
<1>4. CASE Publishes
  <2>1. /\ meta'.rev >= meta.rev \/ misled
        /\ UNCHANGED live /\ misled' = FALSE
        /\ \A k \in Gated : live[k] = [rev |-> meta'.rev, world |-> world]
    BY <1>4, PublishStep
  <2>2. "snapshot" \in Gated
    BY DEF Gated, Keys
  <2>3. base["snapshot"].world = world
    BY <2>1, <2>2
  <2>4. CASE meta'.rev > meta.rev \/ misled
    <3>1. PW!Publish(meta'.rev, base["snapshot"].world)
      BY <2>1, <2>3, <2>4 DEF PW!Publish
    <3> QED
      BY <2>2, <3>1 DEF PW!Next
  <2>5. CASE ~(meta'.rev > meta.rev) /\ ~misled
    <3>1. meta'.rev = meta.rev
      BY <1>0, <1>4, <2>1, <2>5 DEF Publishes
    <3>2. misled' = misled
      BY <2>1, <2>5 DEF TypeOK, StoreType
    <3> QED
      BY <2>1, <3>1, <3>2 DEF PW!vars
  <2> QED
    BY <2>4, <2>5
<1>5. CASE Misleads
  <2>1. PW!Mislead
    BY <1>5 DEF Misleads, PW!Mislead
  <2> QED
    BY <2>1 DEF PW!Next
<1> QED
  BY <1>1, <1>2, <1>3, <1>4, <1>5, ReaderView

\* Every behaviour of the driver, however it is crashed, cut off, signalled or
\* misled, is a behaviour of PublishedWorld.
THEOREM Refinement == Spec => KeepsPromise
<1>1. TypeOK /\ TypeOK' /\ PublicationInv /\ [Next]_vars => [PW!Next]_(PW!vars)
  BY PromiseStep
<1> QED
  BY <1>1, PromiseInit, TypeCorrect, PublicationInvariant, PTL DEF Spec, KeepsPromise, PW!Spec

----------------------------------------------------------------------------
(* Rows of a queue.                                                        *)

\* Of each process, everything in A was emitted before anything in B.
Below(A, B) == \A e \in A, f \in B : e.boot = f.boot => e.seq < f.seq

\* t holds all of A but what it has counted since n.
Holds(t, A, n) ==
    /\ Rows(t.evs) \subseteq A /\ t.dropped >= n
    /\ IsFiniteSet(A \ Rows(t.evs))
    /\ Cardinality(A \ Rows(t.evs)) <= t.dropped - n

\* t holds what it has not trimmed of s, in order.
Survives(t, s, n) ==
    /\ t \in Buffers(EventType) /\ Holds(t, Rows(s), n)
    /\ Rising(s) => Rising(t.evs)
    /\ t.evs # <<>> => s # <<>> /\ lastSeq(t.evs) = lastSeq(s)

\* ... of s and, behind it, of what b held.
Joined(t, s, b) ==
    /\ t \in Buffers(EventType) /\ Holds(t, Rows(s) \cup Rows(b.evs), b.dropped)
    /\ Rising(s) /\ Rising(b.evs) /\ Below(Rows(s), Rows(b.evs)) => Rising(t.evs)
    /\ t.evs # <<>> => IF b.evs = <<>> THEN s # <<>> /\ lastSeq(t.evs) = lastSeq(s)
                                       ELSE lastSeq(t.evs) = lastSeq(b.evs)

\* ... of what b held and, behind it, of e.
Grown(t, b, e) ==
    /\ t \in Buffers(EventType) /\ Holds(t, Rows(b.evs) \cup {e}, b.dropped)
    /\ Rising(b.evs) /\ Below(Rows(b.evs), {e}) => Rising(t.evs)
    /\ t.evs # <<>> => lastSeq(t.evs) = e.seq

\* The rows of a concatenation and of an appended queue.
LEMMA RowsOf ==
    ASSUME NEW s \in Seq(EventType), NEW t \in Seq(EventType), NEW e \in EventType
    PROVE  /\ Rows(<<>>) = {} /\ Rows(s) \subseteq EventType
           /\ Rows(s \o t) = Rows(s) \cup Rows(t)
           /\ Rows(Append(s, e)) = Rows(s) \cup {e}
<1>1. Rows(<<>>) = {} /\ Rows(s) \subseteq EventType
  BY DEF Rows
<1>2. Rows(s \o t) = Rows(s) \cup Rows(t)
  <2>1. /\ Len(s) \in Nat /\ Len(t) \in Nat /\ Len(s \o t) = Len(s) + Len(t)
        /\ DOMAIN s = 1..Len(s) /\ DOMAIN t = 1..Len(t) /\ DOMAIN (s \o t) = 1..(Len(s) + Len(t))
    OBVIOUS
  <2>2. /\ \A n \in 1..Len(s) : (s \o t)[n] = s[n]
        /\ \A n \in 1..Len(t) : (s \o t)[n + Len(s)] = t[n]
    OBVIOUS
  <2>3. PICK u, k, l : u = s \o t /\ k = Len(s) /\ l = Len(t)
    OBVIOUS
  <2>4. /\ k \in Nat /\ l \in Nat
        /\ DOMAIN s = 1..k /\ DOMAIN t = 1..l /\ DOMAIN u = 1..(k + l)
        /\ \A n \in 1..k : u[n] = s[n]
        /\ \A n \in 1..l : u[n + k] = t[n]
    BY <2>1, <2>2, <2>3
  <2>5. ASSUME NEW n \in DOMAIN u PROVE u[n] \in Rows(s) \cup Rows(t)
    <3>1. CASE n <= k
      BY <2>4, <2>5, <3>1 DEF Rows
    <3>2. CASE n > k
      <4>1. n - k \in 1..l /\ u[n] = t[n - k]
        BY <2>4, <2>5, <3>2
      <4> QED
        BY <2>4, <4>1 DEF Rows
    <3> QED
      BY <2>4, <2>5, <3>1, <3>2
  <2>6. \A n \in DOMAIN s : s[n] \in Rows(u)
    BY <2>4 DEF Rows
  <2>7. ASSUME NEW n \in DOMAIN t PROVE t[n] \in Rows(u)
    <3>1. n + k \in DOMAIN u /\ u[n + k] = t[n]
      BY <2>4, <2>7
    <3> QED
      BY <3>1 DEF Rows
  <2>8. Rows(u) = Rows(s) \cup Rows(t)
    BY <2>5, <2>6, <2>7 DEF Rows
  <2> QED
    BY <2>3, <2>8
<1>3. Rows(Append(s, e)) = Rows(s) \cup {e}
  <2>1. /\ Len(s) \in Nat /\ DOMAIN s = 1..Len(s) /\ DOMAIN Append(s, e) = 1..(Len(s) + 1)
        /\ \A n \in 1..Len(s) : Append(s, e)[n] = s[n]
        /\ Append(s, e)[Len(s) + 1] = e
    OBVIOUS
  <2>2. PICK u, k : u = Append(s, e) /\ k = Len(s)
    OBVIOUS
  <2>3. /\ k \in Nat /\ DOMAIN s = 1..k /\ DOMAIN u = 1..(k + 1)
        /\ \A n \in 1..k : u[n] = s[n]
        /\ u[k + 1] = e
    BY <2>1, <2>2
  <2>4. k + 1 \in DOMAIN u /\ \A n \in DOMAIN u : n \in 1..k \/ n = k + 1
    BY <2>3
  <2>5. Rows(u) = Rows(s) \cup {e}
    BY <2>3, <2>4 DEF Rows
  <2> QED
    BY <2>2, <2>5
<1> QED
  BY <1>1, <1>2, <1>3

\* Two rising queues, the first below the second, make a rising one.
LEMMA RisingConcat ==
    ASSUME NEW s \in Seq(EventType), NEW t \in Seq(EventType),
           Rising(s), Rising(t), Below(Rows(s), Rows(t))
    PROVE  Rising(s \o t)
<1>1. /\ Len(s) \in Nat /\ Len(t) \in Nat
      /\ DOMAIN s = 1..Len(s) /\ DOMAIN t = 1..Len(t) /\ DOMAIN (s \o t) = 1..(Len(s) + Len(t))
      /\ \A n \in 1..Len(s) : (s \o t)[n] = s[n]
      /\ \A n \in 1..Len(t) : (s \o t)[n + Len(s)] = t[n]
  OBVIOUS
<1>2. PICK u, k, l : u = s \o t /\ k = Len(s) /\ l = Len(t)
  OBVIOUS
<1>3. /\ k \in Nat /\ l \in Nat
      /\ DOMAIN s = 1..k /\ DOMAIN t = 1..l /\ DOMAIN u = 1..(k + l)
      /\ \A n \in 1..k : u[n] = s[n]
      /\ \A n \in 1..l : u[n + k] = t[n]
  BY <1>1, <1>2
<1>4. ASSUME NEW m \in DOMAIN u, NEW n \in DOMAIN u, m < n, u[m].boot = u[n].boot
      PROVE  u[m].seq < u[n].seq
  <2>1. CASE n <= k
    <3>1. m \in DOMAIN s /\ n \in DOMAIN s /\ u[m] = s[m] /\ u[n] = s[n]
      BY <1>3, <1>4, <2>1
    <3> QED
      BY <1>4, <3>1 DEF Rising
  <2>2. CASE m > k
    <3>1. m - k \in DOMAIN t /\ n - k \in DOMAIN t /\ m - k < n - k
      BY <1>3, <1>4, <2>2
    <3>2. u[m] = t[m - k] /\ u[n] = t[n - k]
      BY <1>3, <1>4, <2>2
    <3> QED
      BY <1>4, <3>1, <3>2 DEF Rising
  <2>3. CASE m <= k /\ n > k
    <3>1. m \in DOMAIN s /\ u[m] = s[m] /\ n - k \in DOMAIN t /\ u[n] = t[n - k]
      BY <1>3, <1>4, <2>3
    <3>2. u[m] \in Rows(s) /\ u[n] \in Rows(t)
      BY <3>1 DEF Rows
    <3> QED
      BY <1>4, <3>2 DEF Below
  <2> QED
    BY <1>3, <1>4, <2>1, <2>2, <2>3
<1>5. Rising(u)
  BY <1>4 DEF Rising
<1> QED
  BY <1>2, <1>5

\* What the limit leaves: the newest of the queue in their order, and the count
\* of the rest.
LEMMA Trimmed ==
    ASSUME NEW b \in Buffers(EventType), NEW t, t = enforceLimit(b)
    PROVE  Survives(t, b.evs, b.dropped)
<1>1. /\ t \in Buffers(EventType)
      /\ Len(b.evs) - Len(t.evs) >= 0
      /\ t.dropped = b.dropped + (Len(b.evs) - Len(t.evs))
      /\ \A n \in 1..Len(t.evs) : t.evs[n] = b.evs[n + (Len(b.evs) - Len(t.evs))]
  BY EnforceLimitKeepsNewest
<1>2. /\ b.evs \in Seq(EventType) /\ t.evs \in Seq(EventType) /\ b.dropped \in Nat
      /\ Len(b.evs) \in Nat /\ Len(t.evs) \in Nat
      /\ DOMAIN b.evs = 1..Len(b.evs) /\ DOMAIN t.evs = 1..Len(t.evs)
  BY <1>1 DEF Buffers
<1>3. PICK p, q, k, l : p = b.evs /\ q = t.evs /\ l = Len(q) /\ k = Len(p) - Len(q)
  OBVIOUS
<1>a. k \in Nat /\ l \in Nat /\ Len(p) = k + l
  BY <1>1, <1>2, <1>3
<1>b. /\ DOMAIN p = 1..(k + l) /\ DOMAIN q = 1..l
      /\ p \in Seq(EventType) /\ q \in Seq(EventType) /\ Len(q) = l
      /\ \A n \in 1..l : q[n] = p[n + k]
  BY <1>1, <1>2, <1>3, <1>a
<1>c. t.dropped = b.dropped + k /\ b.dropped \in Nat
  BY <1>1, <1>2, <1>3
<1>4. /\ k \in Nat /\ l \in Nat /\ DOMAIN p = 1..(k + l) /\ DOMAIN q = 1..l
      /\ \A n \in 1..l : q[n] = p[n + k]
      /\ t.dropped = b.dropped + k /\ b.dropped \in Nat
      /\ p \in Seq(EventType) /\ q \in Seq(EventType) /\ Len(p) = k + l /\ Len(q) = l
  BY <1>a, <1>b, <1>c
<1>5. Rows(q) \subseteq Rows(p)
  <2>1. \A n \in 1..l : n + k \in DOMAIN p
    BY <1>4
  <2> QED
    BY <1>4, <2>1 DEF Rows
<1>6. Rising(p) => Rising(q)
  <2> SUFFICES ASSUME Rising(p), NEW m \in 1..l, NEW n \in 1..l, m < n, q[m].boot = q[n].boot
               PROVE  q[m].seq < q[n].seq
    BY <1>4 DEF Rising
  <2>1. m + k \in DOMAIN p /\ n + k \in DOMAIN p /\ m + k < n + k
    BY <1>4
  <2>2. q[m] = p[m + k] /\ q[n] = p[n + k]
    BY <1>4
  <2> QED
    BY <2>1, <2>2 DEF Rising
<1>7. q # <<>> => p # <<>> /\ lastSeq(q) = lastSeq(p)
  <2> SUFFICES ASSUME q # <<>> PROVE p # <<>> /\ lastSeq(q) = lastSeq(p)
    OBVIOUS
  <2>1. l >= 1
    BY <1>4
  <2>2. q[l] = p[k + l] /\ p # <<>>
    BY <1>4, <2>1
  <2> QED
    BY <1>4, <2>2 DEF lastSeq
<1>8. IsFiniteSet(Rows(p) \ Rows(q)) /\ Cardinality(Rows(p) \ Rows(q)) <= k
  <2>1. PICK f : f = [n \in 1..k |-> p[n]]
    OBVIOUS
  <2>2. PICK C : C = {p[n] : n \in 1..k}
    OBVIOUS
  <2>3. f \in [1..k -> C] /\ \A c \in C : \E n \in 1..k : f[n] = c
    BY <2>1, <2>2
  <2>4. f \in Surjection(1..k, C)
    BY <2>3 DEF Surjection
  <2>5. IsFiniteSet(1..k) /\ Cardinality(1..k) <= k
    <3>1. 1 \in Int /\ k \in Int
      BY <1>4
    <3>2. IsFiniteSet(1..k) /\ Cardinality(1..k) = IF 1 > k THEN 0 ELSE k - 1 + 1
      BY <3>1, FS_Interval
    <3> QED
      BY <1>4, <3>2
  <2>6. IsFiniteSet(C) /\ Cardinality(C) <= Cardinality(1..k)
    BY <2>4, <2>5, FS_Surjection
  <2>7. Rows(p) \ Rows(q) \subseteq C
    <3> SUFFICES ASSUME NEW n \in 1..(k + l), p[n] \notin Rows(q) PROVE p[n] \in C
      BY <1>4 DEF Rows
    <3>1. ~(n > k)
      <4> SUFFICES ASSUME n > k PROVE FALSE
        OBVIOUS
      <4>1. n - k \in 1..l /\ q[n - k] = p[n]
        BY <1>4
      <4> QED
        BY <1>4, <4>1 DEF Rows
    <3>2. n \in 1..k
      BY <1>4, <3>1
    <3> QED
      BY <2>2, <3>2
  <2>8. IsFiniteSet(Rows(p) \ Rows(q)) /\ Cardinality(Rows(p) \ Rows(q)) <= Cardinality(C)
    BY <2>6, <2>7, FS_Subset
  <2>9. Cardinality(Rows(p) \ Rows(q)) \in Nat /\ Cardinality(C) \in Nat /\ Cardinality(1..k) \in Nat
    BY <2>5, <2>6, <2>8, FS_CardinalityType
  <2>10. ASSUME NEW x \in Nat, NEW y \in Nat, NEW z \in Nat, x <= y, y <= z, z <= k
         PROVE  x <= k
    BY <1>4, <2>10
  <2> QED
    BY <2>5, <2>6, <2>8, <2>9, <2>10
<1>9. Holds(t, Rows(p), b.dropped)
  <2>1. t.dropped >= b.dropped /\ t.dropped - b.dropped = k
    BY <1>4
  <2>2. Rows(t.evs) = Rows(q)
    BY <1>3
  <2> QED
    BY <1>5, <1>8, <2>1, <2>2 DEF Holds
<1> QED
  BY <1>1, <1>3, <1>6, <1>7, <1>9 DEF Survives

\* What restore, Emit and drain leave, in these terms.
LEMMA Restored ==
    ASSUME NEW b \in Buffers(EventType), NEW s \in Seq(EventType), NEW t, t = restore(b, s)
    PROVE  Joined(t, s, b)
<1>1. PICK p, d : b = [evs |-> p, dropped |-> d] /\ p \in Seq(EventType) /\ d \in Nat
  BY DEF Buffers
<1>2. b.evs = p /\ b.dropped = d
  BY <1>1
<1>3. s \o p \in Seq(EventType) /\ p \in Seq(EventType)
  BY <1>1
<1>4. Rows(s \o p) = Rows(s) \cup Rows(p)
  <2>1. [boot |-> 0, seq |-> 0, of |-> 0] \in EventType
    BY DEF EventType
  <2> QED
    BY <1>3, <2>1, RowsOf
<1>5. Rising(s) /\ Rising(p) /\ Below(Rows(s), Rows(p)) => Rising(s \o p)
  BY <1>3, RisingConcat
<1>6. s \o p # <<>> => IF p = <<>> THEN s # <<>> /\ lastSeq(s \o p) = lastSeq(s)
                                   ELSE lastSeq(s \o p) = lastSeq(p)
  <2>1. CASE p = <<>>
    <3>1. s \o p = s
      BY <2>1
    <3> QED
      BY <2>1, <3>1
  <2>2. CASE p # <<>>
    <3>1. /\ s \o p # <<>> /\ Len(p) >= 1 /\ Len(s \o p) = Len(s) + Len(p)
          /\ (s \o p)[Len(s) + Len(p)] = p[Len(p)]
      BY <1>3, <2>2
    <3> QED
      BY <2>2, <3>1 DEF lastSeq
  <2> QED
    BY <2>1, <2>2
<1>7. PICK u : u = s \o p
  OBVIOUS
<1>8. PICK c : c = [evs |-> u, dropped |-> d]
  OBVIOUS
<1>9. [b EXCEPT !.evs = s \o @] = c
  <2>1. u = s \o b.evs
    BY <1>2, <1>7
  <2>2. [b EXCEPT !.evs = u] = c
    BY <1>1, <1>8
  <2> QED
    BY <2>1, <2>2
<1>10. c \in Buffers(EventType) /\ c.evs = u /\ c.dropped = b.dropped
  BY <1>1, <1>3, <1>7, <1>8 DEF Buffers
<1>11. t = enforceLimit(c)
  BY <1>9 DEF restore
<1>12. /\ t \in Buffers(EventType)
       /\ Holds(t, Rows(u), b.dropped)
       /\ Rising(u) => Rising(t.evs)
       /\ t.evs # <<>> => u # <<>> /\ lastSeq(t.evs) = lastSeq(u)
  BY <1>10, <1>11, Trimmed DEF Survives
<1> QED
  BY <1>2, <1>4, <1>5, <1>6, <1>7, <1>12 DEF Joined

\* A batch put back into an empty buffer.
LEMMA Requeued ==
    ASSUME NEW b \in Buffers(EventType), b.evs = <<>>, NEW s \in Seq(EventType), NEW t, t = restore(b, s),
           NEW n \in Nat, n <= b.dropped
    PROVE  Survives(t, s, n)
<1>1. Joined(t, s, b) /\ Rows(b.evs) = {}
  BY Restored DEF Rows
<1>2. t \in Buffers(EventType) /\ Holds(t, Rows(s), b.dropped)
  BY <1>1 DEF Joined
<1>3. Holds(t, Rows(s), n)
  <2>1. t.dropped \in Nat /\ b.dropped \in Nat
    BY <1>2 DEF Buffers
  <2>2. IsFiniteSet(Rows(s) \ Rows(t.evs)) => Cardinality(Rows(s) \ Rows(t.evs)) \in Nat
    BY FS_CardinalityType
  <2> QED
    BY <1>2, <2>1, <2>2 DEF Holds
<1>4. Rising(s) => Rising(t.evs)
  <2>1. Rising(b.evs)
    BY DEF Rising
  <2> QED
    BY <1>1, <2>1 DEF Joined, Below
<1> QED
  BY <1>1, <1>2, <1>3, <1>4 DEF Joined, Survives

LEMMA Received ==
    ASSUME NEW b \in Buffers(EventType), NEW e \in EventType, NEW t, t = Emit(b, e)
    PROVE  Grown(t, b, e)
<1>1. PICK p, d : b = [evs |-> p, dropped |-> d] /\ p \in Seq(EventType) /\ d \in Nat
  BY DEF Buffers
<1>2. b.evs = p /\ b.dropped = d
  BY <1>1
<1>3. p \in Seq(EventType) /\ Append(p, e) \in Seq(EventType) /\ Append(p, e) # <<>>
  <2>1. p \in Seq(EventType) /\ Append(p, e) \in Seq(EventType)
    BY <1>1
  <2>2. Len(Append(p, e)) = Len(p) + 1 /\ Len(p) \in Nat
    BY <2>1
  <2> QED
    BY <2>1, <2>2
<1>4. Rows(Append(p, e)) = Rows(p) \cup {e}
  BY <1>3, RowsOf
<1>5. Rising(p) /\ Below(Rows(p), {e}) => Rising(Append(p, e))
  <2>1. /\ Len(p) \in Nat /\ DOMAIN p = 1..Len(p) /\ DOMAIN Append(p, e) = 1..(Len(p) + 1)
        /\ \A n \in 1..Len(p) : Append(p, e)[n] = p[n]
        /\ Append(p, e)[Len(p) + 1] = e
    BY <1>3
  <2>2. PICK v, l : v = Append(p, e) /\ l = Len(p)
    OBVIOUS
  <2>3. /\ l \in Nat /\ DOMAIN p = 1..l /\ DOMAIN v = 1..(l + 1)
        /\ \A n \in 1..l : v[n] = p[n]
        /\ v[l + 1] = e
    BY <2>1, <2>2
  <2>4. ASSUME Rising(p), Below(Rows(p), {e}), NEW m \in 1..(l + 1), NEW n \in 1..(l + 1), m < n,
               v[m].boot = v[n].boot
        PROVE  v[m].seq < v[n].seq
    <3>1. m \in 1..l /\ v[m] = p[m]
      BY <2>3, <2>4
    <3>2. CASE n \in 1..l
      BY <2>3, <2>4, <3>1, <3>2 DEF Rising
    <3>3. CASE n = l + 1
      <4>1. p[m] \in Rows(p) /\ v[n] = e
        BY <2>3, <3>1, <3>3 DEF Rows
      <4> QED
        BY <2>4, <3>1, <4>1 DEF Below
    <3> QED
      BY <2>3, <3>2, <3>3
  <2>5. Rising(p) /\ Below(Rows(p), {e}) => Rising(v)
    BY <2>3, <2>4 DEF Rising
  <2> QED
    BY <2>2, <2>5
<1>6. lastSeq(Append(p, e)) = e.seq
  <2>1. Append(p, e)[Len(Append(p, e))] = e
    BY <1>3
  <2> QED
    BY <1>3, <2>1 DEF lastSeq
<1>7. PICK u : u = Append(p, e)
  OBVIOUS
<1>8. PICK c : c = [evs |-> u, dropped |-> d]
  OBVIOUS
<1>9. [b EXCEPT !.evs = Append(@, e)] = c
  <2>1. u = Append(b.evs, e)
    BY <1>2, <1>7
  <2>2. [b EXCEPT !.evs = u] = c
    BY <1>1, <1>8
  <2> QED
    BY <2>1, <2>2
<1>10. c \in Buffers(EventType) /\ c.evs = u /\ c.dropped = b.dropped
  BY <1>1, <1>3, <1>7, <1>8 DEF Buffers
<1>11. t = enforceLimit(c)
  BY <1>9 DEF Emit
<1>12. /\ t \in Buffers(EventType)
       /\ Holds(t, Rows(u), b.dropped)
       /\ Rising(u) => Rising(t.evs)
       /\ t.evs # <<>> => u # <<>> /\ lastSeq(t.evs) = lastSeq(u)
  BY <1>10, <1>11, Trimmed DEF Survives
<1> QED
  BY <1>2, <1>4, <1>5, <1>6, <1>7, <1>12 DEF Grown

LEMMA Fresh ==
    NewBuffer \in Buffers(EventType) /\ NewBuffer.evs = <<>> /\ NewBuffer.dropped = 0
  BY DEF NewBuffer, Buffers

LEMMA Drained ==
    ASSUME NEW b \in Buffers(EventType)
    PROVE  /\ drain(b) \in Buffers(EventType) /\ drain(b).evs = <<>> /\ drain(b).dropped = b.dropped
           /\ drain(takeDropped(b)) = NewBuffer
<1>1. PICK p, d : b = [evs |-> p, dropped |-> d] /\ p \in Seq(EventType) /\ d \in Nat
  BY DEF Buffers
<1>2. drain(b) = [evs |-> <<>>, dropped |-> d]
  BY <1>1 DEF drain
<1>4. takeDropped(b) = [evs |-> p, dropped |-> 0]
  BY <1>1 DEF takeDropped
<1>5. drain(takeDropped(b)) = [evs |-> <<>>, dropped |-> 0]
  BY <1>4 DEF drain
<1>3. \A n \in Nat : [evs |-> <<>>, dropped |-> n] \in Buffers(EventType)
  BY DEF Buffers
<1> QED
  BY <1>1, <1>2, <1>3, <1>5 DEF NewBuffer

\* What was missing and what the queue has trimmed since is all that is missing now.
LEMMA Counted ==
    ASSUME NEW X, IsFiniteSet(X), NEW A, NEW t \in Buffers(EventType), NEW n \in Nat, NEW r \in Nat,
           Holds(t, A, n), Cardinality(X) <= r + n,
           NEW Y, Y \subseteq X \cup (A \ Rows(t.evs))
    PROVE  IsFiniteSet(Y) /\ Cardinality(Y) <= r + t.dropped
<1>1. PICK C : C = A \ Rows(t.evs)
  OBVIOUS
<1>2. PICK d : d = t.dropped
  OBVIOUS
<1>3. IsFiniteSet(C) /\ Cardinality(C) <= d - n /\ d \in Nat
  BY <1>1, <1>2 DEF Holds, Buffers
<1>4. /\ IsFiniteSet(X \cup C)
      /\ Cardinality(X \cup C) = Cardinality(X) + Cardinality(C) - Cardinality(X \cap C)
  BY <1>3, FS_Union
<1>5. IsFiniteSet(Y) /\ Cardinality(Y) <= Cardinality(X \cup C)
  BY <1>1, <1>4, FS_Subset
<1>6. IsFiniteSet(X \cap C)
  BY FS_Intersection
<1>7. /\ Cardinality(X) \in Nat /\ Cardinality(C) \in Nat /\ Cardinality(X \cap C) \in Nat
      /\ Cardinality(X \cup C) \in Nat /\ Cardinality(Y) \in Nat
  BY <1>3, <1>4, <1>5, <1>6, FS_CardinalityType
<1>8. PICK x, c, k, xc, y : /\ x = Cardinality(X) /\ c = Cardinality(C) /\ k = Cardinality(X \cap C)
                            /\ xc = Cardinality(X \cup C) /\ y = Cardinality(Y)
  OBVIOUS
<1>9. y <= r + d
  BY <1>3, <1>4, <1>5, <1>7, <1>8
<1> QED
  BY <1>2, <1>5, <1>8, <1>9

----------------------------------------------------------------------------
(* What a step does to the trace.                                          *)

\* The trace and its worlds are left alone, and a replacement goes on as it was.
Quiet ==
    /\ UNCHANGED <<seq, buf, old, emitted, reported, events, snapshots, history, boots, built,
                   backup, world, candidate>>
    /\ pc' = "down" <=> pc = "down"
    /\ pc' \in Replacing <=> pc \in Replacing
    /\ pc' = "reset" <=> pc = "reset"
    /\ pc' \in Replacing \cup {"rebuild"} =>
          job' = job \/ (pc \in {"loop", "sleep"} /\ job'.kind \in {"restart", "regen"})
    /\ pc' = "rebuild" => pc \in {"rebuild", "loop", "sleep"}
    /\ pc' = "rebuild" /\ pc # "rebuild" => job'.kind \in {"restart", "regen"}
    /\ pc' = "backup" => backup \/ pc = "backup"

\* World d leaves b in the buffer, or b and one event more.
EmitsFrom(b, d) ==
    LET e == [boot |-> boots', seq |-> seq, of |-> d]
    IN  \/ buf' = b /\ UNCHANGED <<seq, emitted>>
        \/ backup' /\ Grown(buf', b, e) /\ seq' = seq + 1 /\ emitted' = emitted \cup {e}

\* A process starts on a world of its own.
Starts ==
    /\ pc = "down" /\ pc' = "init_meta"
    /\ boots' = boots + 1 /\ built' = built + 1
    /\ history' = {built + 1} /\ world'.id = built + 1
    /\ EmitsFrom(NewBuffer, built + 1)
    /\ UNCHANGED <<old, reported, events, snapshots>>

\* The world ticks.
Ticks ==
    /\ pc = "tick" /\ pc' = "write_tick"
    /\ EmitsFrom(buf, world.id)
    /\ UNCHANGED <<old, reported, events, snapshots, history, boots, built, backup, world>>

\* The candidate is built behind a drained buffer, or is not.
Built ==
    /\ pc = "rebuild" /\ pc' \in {"reset", "purge_entities"}
    /\ IF pc' = "reset" THEN job.kind = "regen" ELSE job.kind = "regen" => ~backup
    /\ built' = built + 1 /\ candidate'.id = built + 1
    /\ old' = buf.evs
    /\ EmitsFrom(drain(buf), built + 1)
    /\ UNCHANGED <<job, reported, events, snapshots, history, boots, backup, world>>

NotBuilt ==
    /\ pc = "rebuild" /\ pc' = job.ret
    /\ built' = built + 1
    /\ Survives(buf', buf.evs, buf.dropped)
    /\ \/ UNCHANGED <<seq, emitted>>
       \/ seq' = seq + 1 /\ emitted' = emitted \cup {[boot |-> boots, seq |-> seq, of |-> built + 1]}
    /\ UNCHANGED <<old, reported, events, snapshots, history, boots, backup, world>>

\* The regen's transaction empties the stored trace, or sends the driver back.
Wipes ==
    /\ pc = "reset" /\ pc' = "purge_entities"
    /\ events' = <<>> /\ snapshots' = {}
    /\ UNCHANGED <<job, candidate, seq, buf, old, emitted, reported, history, boots, built, backup,
                   world>>

Aborts ==
    /\ pc = "reset" /\ pc' = job.ret
    /\ Survives(buf', old, buf.dropped) /\ old' = <<>>
    /\ UNCHANGED <<events, snapshots>> \/ (AckMayBeLost /\ events' = <<>> /\ snapshots' = {})
    /\ UNCHANGED <<seq, emitted, reported, history, boots, built, backup, world>>

\* The candidate becomes the world.
Swaps ==
    /\ pc = "swap" /\ pc' = "write"
    /\ IF job.kind = "restart" THEN Joined(buf', old, buf) ELSE buf' = buf
    /\ old' = <<>>
    /\ history' = IF job.kind = "regen" THEN {candidate.id} ELSE history \cup {candidate.id}
    /\ world' = candidate
    /\ UNCHANGED <<seq, emitted, reported, events, snapshots, boots, built, backup>>

\* The batch is committed, or goes back into the buffer, or both.
Stores(b) ==
    /\ events' = events \o b.evs
    /\ snapshots' = snapshots \cup {[boot |-> boots, of |-> world.id, tick |-> tick, at |-> seq,
                                     last |-> lastSeq(b.evs)]}

Backs ==
    /\ pc = "backup" /\ pc' = "publish"
    /\ reported' = reported + buf.dropped
    /\ \/ Stores(buf) /\ buf' = NewBuffer
       \/ UNCHANGED <<events, snapshots>> /\ Survives(buf', buf.evs, 0)
       \/ AckMayBeLost /\ Stores(buf) /\ Survives(buf', buf.evs, 0)
    /\ UNCHANGED <<old, seq, emitted, history, boots, built, backup, world>>

\* What the emission of a step leaves, in these terms.
LEMMA EmissionView ==
    ASSUME TypeOK, boots' \in Nat, NEW b \in Buffers(EventType), NEW d \in Nat,
           NEW m \in Emissions(b, boots', backup', d), Emitting(m)
    PROVE  EmitsFrom(b, d)
<1>1. PICK e : e = [boot |-> boots', seq |-> seq, of |-> d]
  OBVIOUS
<1>2. e \in EventType
  BY <1>1 DEF TypeOK, TraceType, EventType
<1>3. \/ m = [buf |-> b, seq |-> seq, emitted |-> emitted]
      \/ backup' /\ m = [buf |-> Emit(b, e), seq |-> seq + 1, emitted |-> emitted \cup {e}]
  BY <1>1 DEF Emissions
<1>4. Grown(Emit(b, e), b, e)
  BY <1>2, Received
<1>5. \/ buf' = b /\ seq' = seq /\ emitted' = emitted
      \/ backup' /\ buf' = Emit(b, e) /\ seq' = seq + 1 /\ emitted' = emitted \cup {e}
  BY <1>3 DEF Emitting
<1> QED
  BY <1>1, <1>4, <1>5 DEF EmitsFrom

\* Every step of the driver or its environment is one of these.
LEMMA TraceView ==
    ASSUME TypeOK, [Next]_vars
    PROVE  \/ Quiet \/ Stopped \/ Starts \/ Ticks \/ Built \/ NotBuilt \/ Wipes \/ Aborts
           \/ Swaps \/ Backs
<1>0. job.ret \in {"loop", "tick", "sleep", "advance", "final_meta"}
  BY DEF TypeOK, ProcessType
<1>a. /\ buf \in Buffers(EventType) /\ buf.evs \in Seq(EventType) /\ old \in Seq(EventType)
      /\ buf.dropped \in Nat /\ world.id \in Nat
      /\ boots \in Nat /\ built \in Nat /\ seq \in Nat
      /\ emitted \in SUBSET EventType /\ backup \in BOOLEAN
  BY DEF TypeOK, ProcessType, TraceType, Buffers, WorldType
<1>1. CASE Exit \/ Crash
  BY <1>1 DEF Exit, Crash
<1>2. CASE Boot
  <2>1. boots' = boots + 1 /\ backup' = (HasPg /\ pgUp) /\ world'.id = built + 1
    BY <1>2 DEF Boot
  <2>2. EmitsFrom(NewBuffer, built + 1)
    <3>1. NewBuffer \in Buffers(EventType) /\ boots' \in Nat /\ built + 1 \in Nat
      BY <1>a, <2>1, Fresh
    <3>2. PICK m \in Emissions(NewBuffer, boots', backup', built + 1) : Emitting(m)
      BY <1>2, <2>1 DEF Boot
    <3> QED
      BY <3>1, <3>2, EmissionView
  <2> QED
    BY <1>2, <2>1, <2>2 DEF Boot, Starts, pgVars
<1>3. CASE Tick
  <2>1. UNCHANGED <<old, reported, events, snapshots, history, boots, built, backup, world>>
    BY <1>3 DEF Tick, pgVars, envVars
  <2>2. EmitsFrom(buf, world.id)
    BY <1>a, <1>3, <2>1, EmissionView DEF Tick
  <2> QED
    BY <1>3, <2>1, <2>2 DEF Tick, Ticks
<1>4. CASE Rebuild
  <2>1. UNCHANGED <<job, reported, events, snapshots, history, boots, backup, world>>
    BY <1>4 DEF Rebuild, pgVars, envVars
  <2>2. EmitsFrom(drain(buf), built + 1)
    BY <1>a, <1>4, <2>1, Drained, EmissionView DEF Rebuild
  <2>3. candidate'.id = built + 1
    BY <1>4 DEF Rebuild
  <2> QED
    BY <1>4, <2>1, <2>2, <2>3 DEF Rebuild, Built
<1>5. CASE RebuildFails
  <2>1. UNCHANGED <<old, reported, events, snapshots, history, boots, backup, world>>
    BY <1>5 DEF RebuildFails, pgVars, envVars, procVars
  <2> DEFINE e == [boot |-> boots, seq |-> seq, of |-> built + 1]
  <2>2. PICK m \in Emissions(drain(buf), boots, backup, built + 1) :
           Emitting([m EXCEPT !.buf = abort(m.buf, buf.evs)])
    BY <1>5 DEF RebuildFails
  <2>3. \/ m = [buf |-> drain(buf), seq |-> seq, emitted |-> emitted]
        \/ m = [buf |-> Emit(drain(buf), e), seq |-> seq + 1, emitted |-> emitted \cup {e}]
    BY DEF Emissions
  <2>4. e \in EventType
    BY <1>a DEF EventType
  <2> HIDE DEF e
  <2>5. buf' = abort(m.buf, buf.evs) /\ seq' = m.seq /\ emitted' = m.emitted
    BY <2>2, <2>3 DEF Emitting
  <2>6. /\ drain(buf) \in Buffers(EventType) /\ drain(buf).dropped = buf.dropped
        /\ Emit(drain(buf), e) \in Buffers(EventType)
        /\ Emit(drain(buf), e).dropped >= drain(buf).dropped
    BY <1>a, <2>4, Drained, Received DEF Grown, Holds
  <2>7. m.buf \in Buffers(EventType) /\ m.buf.dropped >= buf.dropped
    <3>1. buf.dropped >= buf.dropped
      BY <1>a DEF Buffers
    <3> QED
      BY <2>3, <2>6, <3>1
  <2>8. UNCHANGED <<seq, emitted>> \/ (seq' = seq + 1 /\ emitted' = emitted \cup {e})
    <3>1. CASE m = [buf |-> drain(buf), seq |-> seq, emitted |-> emitted]
      BY <2>5, <3>1
    <3>2. CASE m = [buf |-> Emit(drain(buf), e), seq |-> seq + 1, emitted |-> emitted \cup {e}]
      <4>1. m.seq = seq + 1 /\ m.emitted = emitted \cup {e}
        BY <3>2
      <4> QED
        BY <2>5, <4>1
    <3> QED
      BY <2>3, <3>1, <3>2
  <2>9. buf' = restore(drain(m.buf), buf.evs)
    BY <2>5 DEF abort
  <2>10. pc = "rebuild" /\ pc' = job.ret /\ built' = built + 1
    BY <1>5 DEF RebuildFails
  <2>11. Survives(buf', buf.evs, buf.dropped)
    BY <1>a, <2>7, <2>9, Drained, Requeued
  <2> QED
    BY <2>1, <2>8, <2>10, <2>11 DEF NotBuilt, e
<1>6. CASE Reset
  <2>1. UNCHANGED <<job, seq, emitted, reported, history, boots, built, backup, world>>
    BY <1>6 DEF Reset, envVars
  <2>2. PICK r \in Outcomes(pgUp) :
        /\ IF applied(r)
           THEN events' = <<>> /\ snapshots' = {}
           ELSE UNCHANGED pgVars
        /\ IF r = "ok"
           THEN pc' = "purge_entities" /\ UNCHANGED <<buf, old, candidate>>
           ELSE /\ buf' = abort(buf, old)
                /\ old' = <<>> /\ candidate' = NoWorld
                /\ pc' = job.ret
    BY <1>6 DEF Reset
  <2>3. r = "unacked" => AckMayBeLost
    BY DEF Outcomes
  <2>4. CASE r = "ok"
    BY <1>6, <2>1, <2>2, <2>4 DEF Reset, Wipes, applied
  <2>5. CASE r # "ok"
    <3>1. buf' = restore(drain(buf), old) /\ old' = <<>> /\ pc' = job.ret /\ pc = "reset"
      BY <1>6, <2>2, <2>5 DEF Reset, abort
    <3>2. UNCHANGED <<events, snapshots>> \/ (AckMayBeLost /\ events' = <<>> /\ snapshots' = {})
      BY <2>2, <2>3, <2>5 DEF applied, pgVars
    <3>3. Survives(buf', old, buf.dropped)
      <4>1. buf.dropped <= drain(buf).dropped
        BY <1>a, Drained
      <4> QED
        BY <1>a, <3>1, <4>1, Drained, Requeued
    <3> QED
      BY <2>1, <3>1, <3>2, <3>3 DEF Aborts
  <2> QED
    BY <2>4, <2>5
<1>7. CASE Swap
  <2>1. UNCHANGED <<seq, emitted, reported, events, snapshots, boots, built, backup>>
    BY <1>7 DEF Swap, pgVars, envVars
  <2>2. IF job.kind = "restart" THEN Joined(buf', old, buf) ELSE buf' = buf
    BY <1>a, <1>7, Restored DEF Swap, requeue
  <2> QED
    BY <1>7, <2>1, <2>2 DEF Swap, Swaps, BeginFlush
<1>8. CASE WriteBackup
  <2>1. UNCHANGED <<old, seq, emitted, history, boots, built, backup, world>>
    BY <1>8 DEF WriteBackup, procVars, envVars
  <2>2. PICK r \in Outcomes(pgUp) :
        /\ IF applied(r) THEN Stores(buf) ELSE UNCHANGED <<events, snapshots>>
        /\ buf' = IF r = "ok" THEN drain(takeDropped(buf))
                              ELSE restore(drain(takeDropped(buf)), buf.evs)
    BY <1>8 DEF WriteBackup, Stores
  <2>3. r = "unacked" => AckMayBeLost
    BY DEF Outcomes
  <2>4. drain(takeDropped(buf)) = NewBuffer
    BY <1>a, Drained
  <2>5. Survives(restore(NewBuffer, buf.evs), buf.evs, 0)
    <3>1. NewBuffer \in Buffers(EventType) /\ NewBuffer.evs = <<>> /\ 0 <= NewBuffer.dropped
      BY Fresh
    <3> QED
      BY <1>a, <3>1, Requeued
  <2> QED
    BY <1>8, <2>1, <2>2, <2>3, <2>4, <2>5 DEF WriteBackup, Backs, applied
<1>9. CASE BootInitMeta \/ BootUpsertRun \/ ClaimRevision \/ SelectNone \/ FinalMeta \/ FinalRun
  BY <1>9 DEF BootInitMeta, BootUpsertRun, ClaimRevision, SelectNone, FinalMeta, FinalRun, Quiet,
              procVars, traceVars, pgVars, envVars, Replacing
<1>14. CASE LoopEnd \/ WriteTick
  BY <1>14 DEF LoopEnd, WriteTick, BeginFlush, AfterTick, Quiet, procVars, traceVars, pgVars, envVars,
               Replacing
<1>15. CASE Advance
  BY <1>15 DEF Advance, Quiet, traceVars, pgVars, envVars, Replacing
<1>16. CASE PublishIfReady
  BY <1>0, <1>16 DEF PublishIfReady, Quiet, procVars, traceVars, pgVars, envVars, Replacing
<1>10. CASE WriteLive
  BY <1>10 DEF WriteLive, Quiet, procVars, traceVars, pgVars, envVars, Replacing
<1>11. CASE PurgeEntities \/ RegenInitMeta
  BY <1>11 DEF PurgeEntities, RegenInitMeta, Quiet, procVars, traceVars, pgVars, envVars, Replacing
<1>17. CASE PurgeRunKeys
  BY <1>17 DEF PurgeRunKeys, Quiet, traceVars, pgVars, envVars, Replacing
<1>12. CASE Selecting
  BY <1>12 DEF Selecting, SelectRestart, SelectRegen, Select, Quiet, procVars, traceVars, pgVars,
               envVars, Replacing
<1>13. CASE RequestRestart \/ Sigterm \/ (\E s \in Seeds \cup {0} : RequestRegen(s))
  BY <1>13 DEF RequestRestart, Sigterm, RequestRegen, Quiet, procVars, traceVars, pgVars, envVars,
               Replacing
<1>18. CASE Toggle
  <2>1. UNCHANGED <<pc, job, procVars, traceVars, pgVars, boots, built, history>>
    BY <1>18 DEF Toggle
  <2> QED
    BY <2>1 DEF Quiet, procVars, traceVars, pgVars, Replacing
<1>19. CASE UNCHANGED vars
  BY <1>19 DEF vars, Quiet, procVars, traceVars, pgVars, envVars, Replacing
<1> QED
  BY <1>1, <1>2, <1>3, <1>4, <1>5, <1>6, <1>7, <1>8, <1>9, <1>10, <1>11, <1>12, <1>13,
     <1>14, <1>15, <1>16, <1>17, <1>18, <1>19
  DEF Next, Step, Environment, Rebuilding, Flushing

----------------------------------------------------------------------------
(* What the trace keeps to.                                                *)

\* Emitted by this process or an earlier one, under a number already given.
Past(e) == e.boot <= boots /\ (pc # "down" /\ e.boot = boots => e.seq < seq)
Queued  == Rows(old) \cup Rows(buf.evs)

Bookkeeping ==
    /\ pc = "down" => buf = NewBuffer /\ emitted = {} /\ reported = 0
    /\ pc \notin Replacing => old = <<>>
    /\ pc \in Replacing \cup {"rebuild"} => job.kind \in {"restart", "regen"}
    /\ pc = "reset" => job.kind = "regen"
    /\ pc = "backup" => backup
    /\ \A e \in Rows(events) : Past(e)
    /\ \A e \in Queued : e.boot = boots /\ e.seq < seq
    /\ \A e \in emitted : e.boot = boots /\ e.seq < seq

\* The kinds of values that the proofs below use.
LEMMA Kinds ==
    ASSUME TypeOK
    PROVE  /\ boots \in Nat /\ seq \in Nat /\ built \in Nat /\ reported \in Nat
           /\ buf \in Buffers(EventType) /\ buf.evs \in Seq(EventType) /\ buf.dropped \in Nat
           /\ old \in Seq(EventType) /\ events \in Seq(EventType)
           /\ Rows(events) \cup Queued \cup emitted \subseteq EventType
           /\ world.id \in Nat /\ candidate.id \in Nat
           /\ job.ret \in {"loop", "tick", "sleep", "advance", "final_meta"}
<1>1. /\ boots \in Nat /\ seq \in Nat /\ built \in Nat /\ reported \in Nat
      /\ buf \in Buffers(EventType) /\ buf.evs \in Seq(EventType) /\ buf.dropped \in Nat
      /\ old \in Seq(EventType) /\ events \in Seq(EventType) /\ emitted \subseteq EventType
  BY DEF TypeOK, ProcessType, TraceType, Buffers
<1>2. \A s \in Seq(EventType) : Rows(s) \subseteq EventType
  BY DEF Rows
<1>3. /\ world.id \in Nat /\ candidate.id \in Nat
      /\ job.ret \in {"loop", "tick", "sleep", "advance", "final_meta"}
  BY DEF TypeOK, ProcessType, WorldType
<1> QED
  BY <1>1, <1>2, <1>3 DEF Queued

LEMMA NoRows == Rows(<<>>) = {} /\ Rows(NewBuffer.evs) = {}
  BY Fresh DEF Rows

\* The rows a step may leave in the queue, and the numbers after it.
LEMMA EmitsRows ==
    ASSUME TypeOK, NEW b, NEW d, EmitsFrom(b, d)
    PROVE  /\ \A e \in Rows(buf'.evs) : e \in Rows(b.evs) \/ (e.boot = boots' /\ e.seq = seq /\ e.of = d /\ backup')
           /\ \A e \in emitted' : e \in emitted \/ (e.boot = boots' /\ e.seq = seq /\ e.of = d)
           /\ seq' \in {seq, seq + 1}
           /\ seq' = seq => Rows(buf'.evs) = Rows(b.evs) /\ emitted' = emitted
<1>1. PICK e : e = [boot |-> boots', seq |-> seq, of |-> d]
  OBVIOUS
<1>2. \/ buf' = b /\ seq' = seq /\ emitted' = emitted
      \/ backup' /\ Grown(buf', b, e) /\ seq' = seq + 1 /\ emitted' = emitted \cup {e}
  BY <1>1 DEF EmitsFrom
<1>3. e.boot = boots' /\ e.seq = seq /\ e.of = d
  BY <1>1
<1>4. seq \in Nat /\ seq + 1 # seq
  BY Kinds
<1> QED
  BY <1>2, <1>3, <1>4 DEF Grown, Holds

\* A commit moves rows, and makes none.
LEMMA BacksRows ==
    ASSUME TypeOK, Backs
    PROVE  /\ Rows(buf'.evs) \subseteq Rows(buf.evs)
           /\ Rows(events') \subseteq Rows(events) \cup Rows(buf.evs)
<1>1. Rows(events \o buf.evs) = Rows(events) \cup Rows(buf.evs)
  <2>1. [boot |-> 0, seq |-> 0, of |-> 0] \in EventType
    BY DEF EventType
  <2> QED
    BY <2>1, Kinds, RowsOf
<1>2. events' = events \o buf.evs \/ events' = events
  BY DEF Backs, Stores
<1>3. buf' = NewBuffer \/ Survives(buf', buf.evs, 0)
  BY DEF Backs
<1> QED
  BY <1>1, <1>2, <1>3, NoRows DEF Survives, Holds

LEMMA BookkeepingInit == Init => Bookkeeping
  BY NoRows, Fresh DEF Init, Bookkeeping, Queued, Replacing

\* Queued rows are this process's, and numbered before the next one.
LEMMA BookkeepingStep ==
    ASSUME TypeOK, Bookkeeping, [Next]_vars
    PROVE  Bookkeeping'
<1> USE DEF Replacing
<1>0. /\ boots \in Nat /\ seq \in Nat /\ reported \in Nat /\ buf.dropped \in Nat
      /\ \A e \in Rows(events) \cup Queued \cup emitted : e.boot \in Nat /\ e.seq \in Nat
      /\ job.ret \in {"loop", "tick", "sleep", "advance", "final_meta"}
  BY Kinds DEF EventType
<1>1. CASE Quiet
  BY <1>1 DEF Quiet, Bookkeeping, Past, Queued
<1>2. CASE Stopped
  <2>1. /\ pc' = "down" /\ buf' = NewBuffer /\ old' = <<>> /\ emitted' = {} /\ reported' = 0
        /\ events' = events /\ boots' = boots
    BY <1>2 DEF Stopped, pgVars, envVars
  <2>2. Rows(buf'.evs) = {} /\ Rows(old') = {}
    BY <2>1, NoRows
  <2> QED
    BY <2>1, <2>2 DEF Bookkeeping, Past, Queued
<1>3. CASE Starts
  <2>1. /\ pc' = "init_meta" /\ boots' = boots + 1 /\ old' = <<>> /\ events' = events
        /\ old = <<>> /\ emitted = {} /\ pc = "down"
    BY <1>3 DEF Starts, Bookkeeping
  <2>2. /\ \A e \in Rows(buf'.evs) : e.boot = boots' /\ e.seq = seq
        /\ \A e \in emitted' : e.boot = boots' /\ e.seq = seq
        /\ seq' \in {seq, seq + 1}
        /\ seq' = seq => Rows(buf'.evs) = {} /\ emitted' = {}
    BY <1>3, <2>1, EmitsRows, NoRows DEF Starts
  <2>3. Rows(old') = {}
    BY <2>1, NoRows
  <2> QED
    BY <1>0, <2>1, <2>2, <2>3 DEF Bookkeeping, Past, Queued
<1>4. CASE Ticks
  <2>1. /\ pc = "tick" /\ pc' = "write_tick"
        /\ UNCHANGED <<old, events, boots, backup>>
    BY <1>4 DEF Ticks
  <2>2. /\ \A e \in Rows(buf'.evs) : e \in Rows(buf.evs) \/ (e.boot = boots' /\ e.seq = seq)
        /\ \A e \in emitted' : e \in emitted \/ (e.boot = boots' /\ e.seq = seq)
        /\ seq' \in {seq, seq + 1}
        /\ seq' = seq => Rows(buf'.evs) = Rows(buf.evs) /\ emitted' = emitted
    BY <1>4, EmitsRows DEF Ticks
  <2> QED
    BY <1>0, <2>1, <2>2 DEF Bookkeeping, Past, Queued
<1>5. CASE Built
  <2>1. /\ pc = "rebuild" /\ pc' \in {"reset", "purge_entities"}
        /\ pc' = "reset" => job.kind = "regen"
        /\ UNCHANGED <<job, events, boots, backup>> /\ old' = buf.evs
    BY <1>5 DEF Built
  <2>2. Rows(drain(buf).evs) = {}
    BY Kinds, Drained, NoRows
  <2>3. /\ \A e \in Rows(buf'.evs) : e.boot = boots' /\ e.seq = seq
        /\ \A e \in emitted' : e \in emitted \/ (e.boot = boots' /\ e.seq = seq)
        /\ seq' \in {seq, seq + 1}
        /\ seq' = seq => Rows(buf'.evs) = {} /\ emitted' = emitted
    BY <1>5, <2>2, EmitsRows DEF Built
  <2>4. Rows(old') = Rows(buf.evs)
    BY <2>1
  <2> QED
    BY <1>0, <2>1, <2>3, <2>4 DEF Bookkeeping, Past, Queued
<1>6. CASE NotBuilt
  <2>1. /\ pc = "rebuild" /\ pc' = job.ret
        /\ UNCHANGED <<events, boots, backup, old>>
    BY <1>6 DEF NotBuilt
  <2>2. Rows(buf'.evs) \subseteq Rows(buf.evs)
    BY <1>6 DEF NotBuilt, Survives, Holds
  <2>3. /\ \A e \in emitted' : e \in emitted \/ (e.boot = boots /\ e.seq = seq)
        /\ seq' \in {seq, seq + 1} /\ (seq' = seq => emitted' = emitted)
    BY <1>0, <1>6 DEF NotBuilt
  <2> QED
    BY <1>0, <2>1, <2>2, <2>3 DEF Bookkeeping, Past, Queued
<1>7. CASE Wipes
  <2>1. /\ pc = "reset" /\ pc' = "purge_entities" /\ events' = <<>>
        /\ UNCHANGED <<job, seq, buf, old, emitted, boots, backup>>
    BY <1>7 DEF Wipes
  <2>2. Rows(events') = {}
    BY <2>1, NoRows
  <2> QED
    BY <2>1, <2>2 DEF Bookkeeping, Past, Queued
<1>8. CASE Aborts
  <2>1. /\ pc = "reset" /\ pc' = job.ret /\ old' = <<>> /\ events' \in {events, <<>>}
        /\ UNCHANGED <<seq, emitted, boots, backup>>
    BY <1>8 DEF Aborts
  <2>2. Rows(buf'.evs) \subseteq Rows(old) /\ Rows(old') = {} /\ Rows(events') \subseteq Rows(events)
    BY <1>8, <2>1, NoRows DEF Aborts, Survives, Holds
  <2> QED
    BY <1>0, <2>1, <2>2 DEF Bookkeeping, Past, Queued
<1>9. CASE Swaps
  <2>1. /\ pc = "swap" /\ pc' = "write" /\ old' = <<>>
        /\ UNCHANGED <<seq, emitted, events, boots, backup>>
    BY <1>9 DEF Swaps
  <2>2. Rows(buf'.evs) \subseteq Rows(old) \cup Rows(buf.evs) /\ Rows(old') = {}
    BY <1>9, NoRows DEF Swaps, Joined, Holds
  <2> QED
    BY <2>1, <2>2 DEF Bookkeeping, Past, Queued
<1>10. CASE Backs
  <2>1. /\ pc = "backup" /\ pc' = "publish" /\ UNCHANGED <<seq, old, emitted, boots, backup>>
    BY <1>10 DEF Backs
  <2>2. /\ Rows(buf'.evs) \subseteq Rows(buf.evs)
        /\ Rows(events') \subseteq Rows(events) \cup Rows(buf.evs)
    BY <1>10, BacksRows
  <2> QED
    BY <1>0, <2>1, <2>2 DEF Bookkeeping, Past, Queued
<1> QED
  BY <1>1, <1>2, <1>3, <1>4, <1>5, <1>6, <1>7, <1>8, <1>9, <1>10, TraceView

\* A regen whose stored trace has gone: until the swap, only the candidate counts.
Wiped == pc \in Replacing \ {"reset"} /\ job.kind = "regen"

Provenance ==
    /\ \A d \in history : d <= built
    /\ \A e \in emitted : e.of <= built
    /\ pc # "down" => world.id \in history
    /\ pc \in Replacing => candidate.id \notin history /\ candidate.id <= built
    /\ pc # "down" => \A e \in OfBoot(events) : e.of \in history
    /\ \A e \in Rows(old) : e.of \in history
    /\ \A e \in Rows(buf.evs) : IF pc \in Replacing THEN e.of = candidate.id ELSE e.of \in history
    /\ pc # "down" /\ (~backup \/ Wiped) => OfBoot(events) = {}

LEMMA ProvenanceInit == Init => Provenance
  BY NoRows, Fresh DEF Init, Provenance, Replacing, Wiped

\* Rows stay with the worlds whose history counts.
LEMMA ProvenanceStep ==
    ASSUME TypeOK, Bookkeeping, Provenance, [Next]_vars
    PROVE  Provenance'
<1> USE DEF Replacing, OfBoot
<1>0. /\ boots \in Nat /\ built \in Nat /\ history \subseteq Nat
      /\ world.id \in Nat /\ candidate.id \in Nat
      /\ \A e \in Rows(events) : e.boot \in Nat
      /\ \A e \in emitted : e.of \in Nat
      /\ job.ret \in {"loop", "tick", "sleep", "advance", "final_meta"}
  BY Kinds DEF EventType, TypeOK, TraceType
<1>1. CASE Quiet
  <2>1. Wiped' => Wiped
    BY <1>1 DEF Quiet, Wiped
  <2> QED
    BY <1>1, <2>1 DEF Quiet, Provenance
<1>2. CASE Stopped
  <2>1. pc' = "down" /\ buf' = NewBuffer /\ old' = <<>> /\ history' = {} /\ emitted' = {}
    BY <1>2 DEF Stopped
  <2>2. Rows(buf'.evs) = {} /\ Rows(old') = {}
    BY <2>1, NoRows
  <2> QED
    BY <2>1, <2>2 DEF Provenance
<1>3. CASE Starts
  <2>1. /\ pc' = "init_meta" /\ boots' = boots + 1 /\ old' = <<>> /\ events' = events
        /\ built' = built + 1 /\ history' = {built + 1} /\ world'.id = built + 1
    BY <1>3 DEF Starts, Bookkeeping
  <2>2. \A e \in Rows(buf'.evs) \cup emitted' : e.of = built + 1
    BY <1>3, EmitsRows, NoRows DEF Starts, Bookkeeping
  <2>3. Rows(old') = {}
    BY <2>1, NoRows
  <2>4. OfBoot(events)' = {}
    BY <1>0, <2>1 DEF Bookkeeping, Past
  <2> QED
    BY <1>0, <2>1, <2>2, <2>3, <2>4 DEF Provenance
<1>4. CASE Ticks
  <2>1. /\ pc = "tick" /\ pc' = "write_tick"
        /\ UNCHANGED <<old, events, boots, backup, history, built, world>>
    BY <1>4 DEF Ticks
  <2>2. /\ \A e \in Rows(buf'.evs) : e \in Rows(buf.evs) \/ e.of = world.id
        /\ \A e \in emitted' : e \in emitted \/ e.of = world.id
    BY <1>4, EmitsRows DEF Ticks
  <2> QED
    BY <2>1, <2>2 DEF Provenance, Wiped
<1>5. CASE Built
  <2>1. /\ pc = "rebuild" /\ pc' \in {"reset", "purge_entities"}
        /\ UNCHANGED <<job, events, boots, backup, history, world>> /\ old' = buf.evs
        /\ built' = built + 1 /\ candidate'.id = built + 1
        /\ pc' = "purge_entities" => (job.kind = "regen" => ~backup)
    BY <1>5 DEF Built
  <2>2. Rows(drain(buf).evs) = {}
    BY Kinds, Drained, NoRows
  <2>3. /\ \A e \in Rows(buf'.evs) : e.of = built + 1
        /\ \A e \in emitted' : e \in emitted \/ e.of = built + 1
    BY <1>5, <2>2, EmitsRows DEF Built
  <2>4. Rows(old') = Rows(buf.evs)
    BY <2>1
  <2>5. Wiped' => ~backup
    BY <2>1 DEF Wiped
  <2> QED
    BY <1>0, <2>1, <2>3, <2>4, <2>5 DEF Provenance
<1>6. CASE NotBuilt
  <2>1. /\ pc = "rebuild" /\ pc' = job.ret /\ built' = built + 1
        /\ UNCHANGED <<events, boots, backup, old, history, world>>
    BY <1>6 DEF NotBuilt
  <2>2. Rows(buf'.evs) \subseteq Rows(buf.evs)
    BY <1>6 DEF NotBuilt, Survives, Holds
  <2>3. \A e \in emitted' : e \in emitted \/ e.of = built + 1
    BY <1>6 DEF NotBuilt
  <2> QED
    BY <1>0, <2>1, <2>2, <2>3 DEF Provenance, Wiped
<1>7. CASE Wipes
  <2>1. /\ pc = "reset" /\ pc' = "purge_entities" /\ events' = <<>>
        /\ UNCHANGED <<job, buf, old, emitted, boots, backup, candidate, history, built, world>>
    BY <1>7 DEF Wipes
  <2>2. Rows(events') = {}
    BY <2>1, NoRows
  <2> QED
    BY <2>1, <2>2 DEF Provenance
<1>8. CASE Aborts
  <2>1. /\ pc = "reset" /\ pc' = job.ret /\ old' = <<>> /\ events' \in {events, <<>>}
        /\ UNCHANGED <<emitted, boots, backup, history, built, world>>
    BY <1>8 DEF Aborts
  <2>2. Rows(buf'.evs) \subseteq Rows(old) /\ Rows(old') = {} /\ Rows(events') \subseteq Rows(events)
    BY <1>8, <2>1, NoRows DEF Aborts, Survives, Holds
  <2> QED
    BY <1>0, <2>1, <2>2 DEF Provenance, Wiped
<1>9. CASE Swaps
  <2>1. /\ pc = "swap" /\ pc' = "write" /\ old' = <<>> /\ world' = candidate
        /\ UNCHANGED <<emitted, events, boots, backup, built>>
        /\ history' = IF job.kind = "regen" THEN {candidate.id} ELSE history \cup {candidate.id}
    BY <1>9 DEF Swaps
  <2>2. Rows(old') = {}
    BY <2>1, NoRows
  <2>3. CASE job.kind = "regen"
    <3>1. buf' = buf /\ Wiped
      BY <1>9, <2>1, <2>3 DEF Swaps, Wiped
    <3> QED
      BY <2>1, <2>2, <2>3, <3>1 DEF Provenance, Wiped
  <2>4. CASE job.kind # "regen"
    <3>1. Rows(buf'.evs) \subseteq Rows(old) \cup Rows(buf.evs)
      BY <1>9 DEF Swaps, Joined, Holds
    <3> QED
      BY <2>1, <2>2, <2>4, <3>1 DEF Provenance, Wiped
  <2> QED
    BY <2>3, <2>4
<1>10. CASE Backs
  <2>1. /\ pc = "backup" /\ pc' = "publish"
        /\ UNCHANGED <<old, emitted, boots, backup, history, built, world>>
    BY <1>10 DEF Backs
  <2>2. /\ Rows(buf'.evs) \subseteq Rows(buf.evs)
        /\ Rows(events') \subseteq Rows(events) \cup Rows(buf.evs)
    BY <1>10, BacksRows
  <2>3. backup
    BY <2>1 DEF Bookkeeping
  <2> QED
    BY <2>1, <2>2, <2>3 DEF Provenance, Wiped
<1> QED
  BY <1>1, <1>2, <1>3, <1>4, <1>5, <1>6, <1>7, <1>8, <1>9, <1>10, TraceView

\* Everything the trace keeps, with what it rests on.
THEOREM ProvenanceHolds == Spec => [](Bookkeeping /\ Provenance)
<1>1. Init => Bookkeeping /\ Provenance
  BY BookkeepingInit, ProvenanceInit
<1>2. TypeOK /\ Bookkeeping /\ Provenance /\ [Next]_vars => Bookkeeping' /\ Provenance'
  BY BookkeepingStep, ProvenanceStep
<1> QED
  BY <1>1, <1>2, TypeCorrect, PTL DEF Spec

\* Nothing of a discarded candidate or a wiped map is queued or stored once the
\* driver runs on, whatever was refused, lost or cut short on the way.
THEOREM NoForeignTraceHolds == Spec => []NoForeignTrace
<1>1. Bookkeeping /\ Provenance => NoForeignTrace
  BY DEF Provenance, NoForeignTrace, Settled
<1> QED
  BY <1>1, ProvenanceHolds, PTL

----------------------------------------------------------------------------
(* Once, and in order.                                                     *)

Ordered ==
    /\ Rising(events) /\ Rising(old) /\ Rising(buf.evs)
    /\ Below(Rows(events), Queued) /\ Below(Rows(old), Rows(buf.evs))

\* An event emitted next goes behind everything queued.
LEMMA EmitsOrder ==
    ASSUME TypeOK, NEW b \in Buffers(EventType), NEW d, EmitsFrom(b, d), Rising(b.evs),
           \A e \in Rows(b.evs) : e.boot = boots' => e.seq < seq
    PROVE  Rising(buf'.evs)
<1>1. PICK e : e = [boot |-> boots', seq |-> seq, of |-> d]
  OBVIOUS
<1>2. buf' = b \/ Grown(buf', b, e)
  BY <1>1 DEF EmitsFrom
<1>3. Below(Rows(b.evs), {e})
  BY <1>1 DEF Below
<1> QED
  BY <1>2, <1>3 DEF Grown

LEMMA OrderedInit == Init => Ordered
<1>1. Rising(<<>>)
  BY DEF Rising
<1> QED
  BY <1>1, NoRows, Fresh DEF Init, Ordered, Below, Queued

\* No step puts a row before an earlier one: a batch returns ahead of what came since.
LEMMA OrderedStep ==
    ASSUME TypeOK, Bookkeeping, Ordered, AckMayBeLost = FALSE, [Next]_vars
    PROVE  Ordered'
<1> USE DEF Replacing, Below, Queued
<1>0. /\ boots \in Nat /\ seq \in Nat
      /\ \A e \in Rows(events) \cup Queued : e.boot \in Nat /\ e.seq \in Nat
      /\ job.ret \in {"loop", "tick", "sleep", "advance", "final_meta"}
      /\ buf \in Buffers(EventType) /\ old \in Seq(EventType) /\ buf.evs \in Seq(EventType)
      /\ events \in Seq(EventType)
  BY Kinds DEF EventType
<1>a. Rising(<<>>) /\ Rows(<<>>) = {}
  BY NoRows DEF Rising
<1>b. /\ \A e \in Queued : e.boot = boots /\ e.seq < seq
      /\ pc # "down" => \A e \in Rows(events) : e.boot = boots => e.seq < seq
      /\ \A e \in Rows(events) : e.boot <= boots
  BY DEF Bookkeeping, Past
<1>1. CASE Quiet
  BY <1>1 DEF Quiet, Ordered
<1>2. CASE Stopped
  <2>1. buf' = NewBuffer /\ old' = <<>> /\ events' = events
    BY <1>2 DEF Stopped, pgVars
  <2>2. buf'.evs = <<>>
    BY <2>1, Fresh
  <2> QED
    BY <1>a, <2>1, <2>2 DEF Ordered
<1>3. CASE Starts
  <2>1. boots' = boots + 1 /\ old' = old /\ old = <<>> /\ events' = events
    BY <1>3 DEF Starts, Bookkeeping
  <2>2. \A e \in Rows(buf'.evs) : e.boot = boots'
    BY <1>3, EmitsRows, NoRows DEF Starts
  <2>3. Rising(NewBuffer.evs)
    BY <1>a, Fresh
  <2>4. Rising(buf'.evs)
    BY <1>3, <2>3, EmitsOrder, NoRows, Fresh DEF Starts
  <2> QED
    BY <1>0, <1>a, <1>b, <2>1, <2>2, <2>4 DEF Ordered
<1>4. CASE Ticks
  <2>1. pc = "tick" /\ UNCHANGED <<old, events, boots>>
    BY <1>4 DEF Ticks
  <2>2. \A e \in Rows(buf'.evs) : e \in Rows(buf.evs) \/ (e.boot = boots /\ e.seq = seq)
    BY <1>4, <2>1, EmitsRows DEF Ticks
  <2>3. Rising(buf'.evs)
    BY <1>0, <1>4, <1>b, <2>1, EmitsOrder DEF Ticks, Ordered
  <2> QED
    BY <1>0, <1>b, <2>1, <2>2, <2>3 DEF Ordered
<1>5. CASE Built
  <2>1. pc = "rebuild" /\ UNCHANGED <<events, boots>> /\ old' = buf.evs
    BY <1>5 DEF Built
  <2>2. drain(buf) \in Buffers(EventType) /\ Rows(drain(buf).evs) = {} /\ Rising(drain(buf).evs)
    BY <1>0, <1>a, Drained
  <2>3. \A e \in Rows(buf'.evs) : e.boot = boots /\ e.seq = seq
    BY <1>5, <2>1, <2>2, EmitsRows DEF Built
  <2>4. Rising(buf'.evs)
    BY <1>5, <2>2, EmitsOrder DEF Built
  <2>5. Rows(old') = Rows(buf.evs) /\ Rising(old')
    BY <2>1 DEF Ordered
  <2> QED
    BY <1>0, <1>b, <2>1, <2>3, <2>4, <2>5 DEF Ordered
<1>6. CASE NotBuilt
  <2>1. pc = "rebuild" /\ UNCHANGED <<events, boots, old>>
    BY <1>6 DEF NotBuilt
  <2>2. Rows(buf'.evs) \subseteq Rows(buf.evs) /\ Rising(buf'.evs)
    BY <1>6 DEF NotBuilt, Survives, Holds, Ordered
  <2> QED
    BY <2>1, <2>2 DEF Ordered
<1>7. CASE Wipes
  <2>1. events' = <<>> /\ UNCHANGED <<buf, old>>
    BY <1>7 DEF Wipes
  <2> QED
    BY <1>a, <2>1 DEF Ordered
<1>8. CASE Aborts
  <2>1. old' = <<>> /\ events' = events
    BY <1>8 DEF Aborts
  <2>2. Rows(buf'.evs) \subseteq Rows(old) /\ Rising(buf'.evs)
    BY <1>8 DEF Aborts, Survives, Holds, Ordered
  <2> QED
    BY <1>a, <2>1, <2>2 DEF Ordered
<1>9. CASE Swaps
  <2>1. old' = <<>> /\ events' = events
    BY <1>9 DEF Swaps
  <2>2. Rows(buf'.evs) \subseteq Rows(old) \cup Rows(buf.evs) /\ Rising(buf'.evs)
    BY <1>9 DEF Swaps, Joined, Holds, Ordered
  <2> QED
    BY <1>a, <2>1, <2>2 DEF Ordered
<1>10. CASE Backs
  <2>1. pc = "backup" /\ old' = old /\ old = <<>>
    BY <1>10 DEF Backs, Bookkeeping
  <2>2. CASE Stores(buf) /\ buf' = NewBuffer
    <3>1. events' = events \o buf.evs /\ buf'.evs = <<>>
      BY <2>2, Fresh DEF Stores
    <3>2. Rising(events')
      BY <1>0, <3>1, RisingConcat DEF Ordered
    <3> QED
      BY <1>a, <2>1, <3>1, <3>2 DEF Ordered
  <2>3. CASE UNCHANGED <<events, snapshots>> /\ Survives(buf', buf.evs, 0)
    <3>1. Rows(buf'.evs) \subseteq Rows(buf.evs) /\ Rising(buf'.evs) /\ events' = events
      BY <2>3 DEF Survives, Holds, Ordered
    <3> QED
      BY <2>1, <3>1 DEF Ordered
  <2> QED
    BY <1>10, <2>2, <2>3 DEF Backs
<1> QED
  BY <1>1, <1>2, <1>3, <1>4, <1>5, <1>6, <1>7, <1>8, <1>9, <1>10, TraceView

\* The stored rows and then the queued ones rise strictly in each process's
\* numbers, through every failed commit, aborted rebuild, restart and crash,
\* as long as a reply that a store sends is not lost.
THEOREM TraceOnceInOrderHolds ==
    ASSUME AckMayBeLost = FALSE
    PROVE  Spec => []TraceOnceInOrder
<1>1. TypeOK /\ Bookkeeping /\ Ordered /\ [Next]_vars => Ordered'
  BY OrderedStep
<1>2. TypeOK /\ Ordered => TraceOnceInOrder
  <2> SUFFICES ASSUME TypeOK, Ordered PROVE TraceOnceInOrder
    OBVIOUS
  <2>1. /\ events \in Seq(EventType) /\ old \in Seq(EventType) /\ buf.evs \in Seq(EventType)
    BY Kinds
  <2>2. PICK w : w = events \o old
    OBVIOUS
  <2>3. w \in Seq(EventType) /\ Rising(w)
    BY <2>1, <2>2, RisingConcat DEF Ordered, Below, Queued
  <2>4. Rows(w) = Rows(events) \cup Rows(old)
    <3>1. [boot |-> 0, seq |-> 0, of |-> 0] \in EventType
      BY DEF EventType
    <3> QED
      BY <2>1, <2>2, <3>1, RowsOf
  <2>5. Rising(w \o buf.evs)
    BY <2>1, <2>3, <2>4, RisingConcat DEF Ordered, Below, Queued
  <2> QED
    BY <2>2, <2>5 DEF TraceOnceInOrder
<1> QED
  BY <1>1, <1>2, OrderedInit, ProvenanceHolds, TypeCorrect, PTL DEF Spec

----------------------------------------------------------------------------
(* Snapshots cut the trace.                                                *)

\* The last of s is, of this process, the latest of A.
Tops(s, A) == s # <<>> => \A e \in A : e.boot = boots => e.seq <= lastSeq(s)

Cuts(s, e) == e.boot = s.boot => (e.seq <= s.last <=> e.seq < s.at)

SnapshotsCut ==
    /\ Tops(old, Rows(events) \cup Rows(old))
    /\ Tops(buf.evs, Rows(events) \cup Queued)
    /\ \A s \in snapshots :
          /\ s.boot \in Nat /\ s.at \in Nat /\ s.last \in Int
          /\ s.boot <= boots /\ s.last < s.at
          /\ pc # "down" /\ s.boot = boots => s.at <= seq
          /\ s.last # -1 => \A e \in Rows(events) \cup Queued : Cuts(s, e)

\* last_event_seq is the number of a row of the batch.
LEMMA LastIsRow ==
    ASSUME NEW s \in Seq(EventType), s # <<>>
    PROVE  \E e \in Rows(s) : lastSeq(s) = e.seq
<1>1. Len(s) \in DOMAIN s
  OBVIOUS
<1>2. s[Len(s)] \in Rows(s)
  BY <1>1 DEF Rows
<1> QED
  BY <1>2 DEF lastSeq

\* The event emitted is the buffer's last.
LEMMA EmitsLast ==
    ASSUME NEW b, NEW d, EmitsFrom(b, d)
    PROVE  buf'.evs # <<>> => lastSeq(buf'.evs) = seq \/ (buf' = b /\ seq' = seq)
<1>1. PICK e : e = [boot |-> boots', seq |-> seq, of |-> d]
  OBVIOUS
<1>2. (buf' = b /\ seq' = seq) \/ Grown(buf', b, e)
  BY <1>1 DEF EmitsFrom
<1>3. e.seq = seq
  BY <1>1
<1> QED
  BY <1>2, <1>3 DEF Grown

LEMMA SnapshotsCutInit == Init => SnapshotsCut
  BY NoRows, Fresh DEF Init, SnapshotsCut, Tops

\* A batch is stored with all before it, and later events are numbered after.
LEMMA SnapshotsCutStep ==
    ASSUME TypeOK, Bookkeeping, SnapshotsCut, [Next]_vars
    PROVE  SnapshotsCut'
<1> USE DEF Replacing, Tops, Cuts, Queued
<1>0. /\ boots \in Nat /\ seq \in Nat
      /\ \A e \in Rows(events) \cup Queued : e.boot \in Nat /\ e.seq \in Nat
      /\ job.ret \in {"loop", "tick", "sleep", "advance", "final_meta"}
      /\ buf \in Buffers(EventType) /\ buf.evs \in Seq(EventType)
  BY Kinds DEF EventType
<1>a. Rows(<<>>) = {}
  BY NoRows
<1>b. /\ \A e \in Queued : e.boot = boots /\ e.seq < seq
      /\ pc # "down" => \A e \in Rows(events) : e.boot = boots => e.seq < seq
      /\ \A e \in Rows(events) : e.boot <= boots
  BY DEF Bookkeeping, Past
<1>c. \A s \in snapshots :
          /\ s.boot \in Nat /\ s.at \in Nat /\ s.last \in Int
          /\ s.boot <= boots /\ s.last < s.at
          /\ pc # "down" /\ s.boot = boots => s.at <= seq
          /\ s.last # -1 => \A e \in Rows(events) \cup Queued : Cuts(s, e)
  BY DEF SnapshotsCut
<1>1. CASE Quiet
  BY <1>1 DEF Quiet, SnapshotsCut
<1>2. CASE Stopped
  <2>1. /\ pc' = "down" /\ buf' = NewBuffer /\ old' = <<>> /\ UNCHANGED <<events, snapshots, boots>>
    BY <1>2 DEF Stopped, pgVars, envVars
  <2>2. buf'.evs = <<>>
    BY <2>1, Fresh
  <2> QED
    BY <1>a, <1>c, <2>1, <2>2 DEF SnapshotsCut
<1>3. CASE Starts
  <2>1. boots' = boots + 1 /\ old' = <<>> /\ UNCHANGED <<events, snapshots>>
    BY <1>3 DEF Starts, Bookkeeping
  <2>2. /\ \A e \in Rows(buf'.evs) : e.boot = boots' /\ e.seq = seq
        /\ seq' \in {seq, seq + 1}
    BY <1>3, EmitsRows, NoRows DEF Starts
  <2>3. buf'.evs # <<>> => lastSeq(buf'.evs) = seq
    BY <1>3, EmitsLast, Fresh DEF Starts
  <2>4. \A e \in Rows(events) : e.boot # boots'
    BY <1>0, <1>b, <2>1
  <2>5. \A s \in snapshots : s.boot <= boots' /\ s.boot # boots'
    BY <1>0, <1>c, <2>1
  <2> QED
    BY <1>0, <1>a, <1>c, <2>1, <2>2, <2>3, <2>4, <2>5 DEF SnapshotsCut
<1>4. CASE Ticks
  <2>1. pc = "tick" /\ UNCHANGED <<old, events, snapshots, boots>>
    BY <1>4 DEF Ticks
  <2>2. /\ \A e \in Rows(buf'.evs) : e \in Rows(buf.evs) \/ (e.boot = boots /\ e.seq = seq)
        /\ seq' \in {seq, seq + 1}
    BY <1>4, <2>1, EmitsRows DEF Ticks
  <2>3. buf'.evs # <<>> => lastSeq(buf'.evs) = seq \/ (buf' = buf /\ seq' = seq)
    BY <1>4, EmitsLast DEF Ticks
  <2>4. Tops(old, Rows(events) \cup Rows(old))' /\ Tops(buf.evs, Rows(events) \cup Queued)'
    BY <1>0, <1>b, <2>1, <2>2, <2>3 DEF SnapshotsCut
  <2> QED
    BY <1>0, <1>c, <2>1, <2>2, <2>4 DEF SnapshotsCut
<1>5. CASE Built
  <2>1. pc = "rebuild" /\ UNCHANGED <<events, snapshots, boots>> /\ old' = buf.evs /\ old = <<>>
    BY <1>5 DEF Built, Bookkeeping
  <2>2. drain(buf).evs = <<>>
    BY <1>0, Drained
  <2>3. /\ \A e \in Rows(buf'.evs) : e.boot = boots /\ e.seq = seq
        /\ seq' \in {seq, seq + 1}
    BY <1>5, <1>a, <2>1, <2>2, EmitsRows DEF Built
  <2>4. buf'.evs # <<>> => lastSeq(buf'.evs) = seq
    BY <1>5, <2>2, EmitsLast DEF Built
  <2>5. Tops(old, Rows(events) \cup Rows(old))' /\ Tops(buf.evs, Rows(events) \cup Queued)'
    BY <1>0, <1>b, <2>1, <2>3, <2>4 DEF SnapshotsCut
  <2> QED
    BY <1>0, <1>c, <2>1, <2>3, <2>5 DEF SnapshotsCut
<1>6. CASE NotBuilt
  <2>1. /\ pc = "rebuild" /\ pc' = job.ret /\ UNCHANGED <<events, snapshots, boots, old>> /\ old = <<>>
        /\ seq' \in {seq, seq + 1}
    BY <1>6 DEF NotBuilt, Bookkeeping
  <2>2. /\ Rows(buf'.evs) \subseteq Rows(buf.evs)
        /\ buf'.evs # <<>> => buf.evs # <<>> /\ lastSeq(buf'.evs) = lastSeq(buf.evs)
    BY <1>6 DEF NotBuilt, Survives, Holds
  <2>3. Tops(old, Rows(events) \cup Rows(old))' /\ Tops(buf.evs, Rows(events) \cup Queued)'
    BY <2>1, <2>2 DEF SnapshotsCut
  <2> QED
    BY <1>0, <1>c, <2>1, <2>2, <2>3 DEF SnapshotsCut
<1>7. CASE Wipes
  <2>1. events' = <<>> /\ snapshots' = {} /\ UNCHANGED <<buf, old, boots>>
    BY <1>7 DEF Wipes
  <2> QED
    BY <1>a, <2>1 DEF SnapshotsCut
<1>8. CASE Aborts
  <2>1. /\ pc = "reset" /\ old' = <<>> /\ UNCHANGED <<boots, seq>>
        /\ (UNCHANGED <<events, snapshots>> \/ (events' = <<>> /\ snapshots' = {}))
    BY <1>8 DEF Aborts
  <2>2. /\ Rows(buf'.evs) \subseteq Rows(old)
        /\ buf'.evs # <<>> => old # <<>> /\ lastSeq(buf'.evs) = lastSeq(old)
    BY <1>8 DEF Aborts, Survives, Holds
  <2>3. Rows(events') \subseteq Rows(events) /\ snapshots' \subseteq snapshots
    BY <1>a, <2>1
  <2>4. Tops(old, Rows(events) \cup Rows(old))' /\ Tops(buf.evs, Rows(events) \cup Queued)'
    BY <1>a, <2>1, <2>2, <2>3 DEF SnapshotsCut
  <2> QED
    BY <1>a, <1>c, <2>1, <2>2, <2>3, <2>4 DEF SnapshotsCut
<1>9. CASE Swaps
  <2>1. pc = "swap" /\ old' = <<>> /\ UNCHANGED <<events, snapshots, boots, seq>>
    BY <1>9 DEF Swaps
  <2>2. /\ Rows(buf'.evs) \subseteq Rows(old) \cup Rows(buf.evs)
        /\ buf'.evs # <<>> => IF buf.evs = <<>> THEN old # <<>> /\ lastSeq(buf'.evs) = lastSeq(old)
                                                ELSE lastSeq(buf'.evs) = lastSeq(buf.evs)
    BY <1>9 DEF Swaps, Joined, Holds
  <2>3. buf.evs = <<>> => Rows(buf.evs) = {}
    BY <1>a
  <2>4. Tops(old, Rows(events) \cup Rows(old))' /\ Tops(buf.evs, Rows(events) \cup Queued)'
    BY <1>a, <2>1, <2>2, <2>3 DEF SnapshotsCut
  <2> QED
    BY <1>a, <1>c, <2>1, <2>2, <2>4 DEF SnapshotsCut
<1>10. CASE Backs
  <2>1. pc = "backup" /\ pc' = "publish" /\ old' = old /\ old = <<>> /\ UNCHANGED <<boots, seq>>
    BY <1>10 DEF Backs, Bookkeeping
  <2>2. /\ Rows(buf'.evs) \subseteq Rows(buf.evs)
        /\ Rows(events') \subseteq Rows(events) \cup Rows(buf.evs)
    BY <1>10, BacksRows
  <2>3. buf'.evs # <<>> => buf.evs # <<>> /\ lastSeq(buf'.evs) = lastSeq(buf.evs)
    BY <1>10, Fresh DEF Backs, Survives
  <2>4. Tops(old, Rows(events) \cup Rows(old))' /\ Tops(buf.evs, Rows(events) \cup Queued)'
    BY <2>1, <2>2, <2>3 DEF SnapshotsCut
  <2>5. PICK r : r = [boot |-> boots, of |-> world.id, tick |-> tick, at |-> seq, last |-> lastSeq(buf.evs)]
    OBVIOUS
  <2>6. snapshots' \subseteq snapshots \cup {r}
    BY <1>10, <2>5 DEF Backs, Stores
  <2>7. r.boot = boots /\ r.at = seq /\ r.last = lastSeq(buf.evs)
    BY <2>5
  <2>8. r.last \in Int /\ r.last < seq
    <3>1. CASE buf.evs = <<>>
      BY <1>0, <2>7, <3>1 DEF lastSeq
    <3>2. CASE buf.evs # <<>>
      BY <1>0, <1>b, <2>7, <3>2, LastIsRow
    <3> QED
      BY <3>1, <3>2
  <2>9. r.last # -1 => \A e \in Rows(events) \cup Queued : Cuts(r, e)
    <3>1. r.last # -1 => buf.evs # <<>>
      BY <2>7 DEF lastSeq
    <3> QED
      BY <1>b, <2>1, <2>7, <3>1 DEF SnapshotsCut
  <2> QED
    BY <1>0, <1>c, <2>1, <2>2, <2>4, <2>6, <2>7, <2>8, <2>9 DEF SnapshotsCut
<1> QED
  BY <1>1, <1>2, <1>3, <1>4, <1>5, <1>6, <1>7, <1>8, <1>9, <1>10, TraceView

\* Whatever was dropped, retried or stored twice, a snapshot's last_event_seq
\* parts each process's stored trace where the snapshot was taken.
THEOREM ReplayCutHolds == Spec => []ReplayCut
<1>1. TypeOK /\ Bookkeeping /\ SnapshotsCut /\ [Next]_vars => SnapshotsCut'
  BY SnapshotsCutStep
<1>2. SnapshotsCut => ReplayCut
  BY DEF SnapshotsCut, ReplayCut, Cuts
<1> QED
  BY <1>1, <1>2, SnapshotsCutInit, ProvenanceHolds, TypeCorrect, PTL DEF Spec

----------------------------------------------------------------------------
(* Nothing is lost without being counted.                                  *)

\* Events the stored or the queued trace owes: of the worlds that count, and of the
\* candidate that may come to.
Owed == {e \in emitted : (~Wiped /\ e.of \in history) \/ (pc \in Replacing /\ e.of = candidate.id)}
Missing == Owed \ (Rows(events) \cup Queued)

Balance ==
    /\ IsFiniteSet(emitted)
    /\ Cardinality(Missing) <= reported + buf.dropped

\* An emission misses no more than what it trims.
LEMMA EmitsCount ==
    ASSUME TypeOK, NEW b \in Buffers(EventType), NEW d, EmitsFrom(b, d), NEW r \in Nat,
           NEW X, IsFiniteSet(X), Cardinality(X) <= r + b.dropped,
           NEW Y, Y \subseteq X \cup ((Rows(b.evs) \cup (emitted' \ emitted)) \ Rows(buf'.evs))
    PROVE  Cardinality(Y) <= r + buf'.dropped
<1>1. PICK e : e = [boot |-> boots', seq |-> seq, of |-> d]
  OBVIOUS
<1>2. CASE buf' = b /\ emitted' = emitted
  <2>1. Y \subseteq X
    BY <1>2
  <2>2. Cardinality(Y) <= Cardinality(X) /\ IsFiniteSet(Y)
    BY <2>1, FS_Subset
  <2>3. Cardinality(Y) \in Nat /\ Cardinality(X) \in Nat /\ b.dropped \in Nat
    BY <2>2, FS_CardinalityType DEF Buffers
  <2> QED
    BY <1>2, <2>2, <2>3
<1>3. CASE Grown(buf', b, e) /\ emitted' = emitted \cup {e}
  <2>1. buf' \in Buffers(EventType) /\ Holds(buf', Rows(b.evs) \cup {e}, b.dropped) /\ b.dropped \in Nat
    BY <1>3 DEF Grown, Buffers
  <2>2. Y \subseteq X \cup ((Rows(b.evs) \cup {e}) \ Rows(buf'.evs))
    BY <1>3
  <2>3. PICK A, t, n : A = Rows(b.evs) \cup {e} /\ t = buf' /\ n = b.dropped
    OBVIOUS
  <2>4. t \in Buffers(EventType) /\ Holds(t, A, n) /\ n \in Nat /\ Cardinality(X) <= r + n
    BY <2>1, <2>3
  <2>5. Y \subseteq X \cup (A \ Rows(t.evs))
    BY <2>2, <2>3
  <2>6. Cardinality(Y) <= r + t.dropped
    BY <2>4, <2>5, Counted, ZenonT(30)
  <2> QED
    BY <2>3, <2>6
<1> QED
  BY <1>1, <1>2, <1>3 DEF EmitsFrom

LEMMA EmitsFinite ==
    ASSUME NEW b, NEW d, EmitsFrom(b, d), IsFiniteSet(emitted)
    PROVE  IsFiniteSet(emitted')
<1>1. PICK e : e = [boot |-> boots', seq |-> seq, of |-> d]
  OBVIOUS
<1>2. emitted' = emitted \/ emitted' = emitted \cup {e}
  BY <1>1 DEF EmitsFrom
<1> QED
  BY <1>2, FS_AddElement

LEMMA BalanceInit == Init => Balance
<1> SUFFICES ASSUME Init PROVE Balance
  OBVIOUS
<1>1. emitted = {} /\ Missing = {} /\ reported = 0 /\ buf.dropped = 0
  BY Fresh DEF Init, Missing, Owed
<1> QED
  BY <1>1, FS_EmptySet DEF Balance

\* Whatever leaves the queue is stored, counted, or of a world that counts no more.
LEMMA BalanceStep ==
    ASSUME TypeOK, Bookkeeping, Provenance, Balance, AckMayBeLost = FALSE, [Next]_vars
    PROVE  Balance'
<1> USE DEF Replacing, Queued
<1>0. /\ boots \in Nat /\ built \in Nat /\ reported \in Nat /\ history \subseteq Nat
      /\ \A e \in emitted : e.of \in Nat /\ e.of <= built /\ e.boot = boots
      /\ \A d \in history : d <= built
      /\ job.ret \in {"loop", "tick", "sleep", "advance", "final_meta"}
      /\ buf \in Buffers(EventType) /\ buf.dropped \in Nat
  BY Kinds DEF EventType, TypeOK, TraceType, Provenance, Bookkeeping
<1>a. Rows(<<>>) = {}
  BY NoRows
<1>b. PICK X : X = Missing
  OBVIOUS
<1>c. IsFiniteSet(X) /\ Cardinality(X) <= reported + buf.dropped
  <2>1. X \subseteq emitted
    BY <1>b DEF Missing, Owed
  <2> QED
    BY <1>b, <2>1, FS_Subset DEF Balance
<1>d. pc \notin Replacing => ~Wiped /\ old = <<>> /\ Rows(old) = {}
  BY <1>a DEF Wiped, Bookkeeping
<1>e. ASSUME emitted' = emitted, reported' = reported, buf'.dropped = buf.dropped, Missing' \subseteq X
      PROVE  Balance'
  <2>1. IsFiniteSet(Missing') /\ Cardinality(Missing') <= Cardinality(X)
    BY <1>c, <1>e, FS_Subset
  <2>2. Cardinality(X) \in Nat /\ Cardinality(Missing') \in Nat
    BY <1>c, <2>1, FS_CardinalityType
  <2> QED
    BY <1>0, <1>c, <1>e, <2>1, <2>2 DEF Balance
<1>1. CASE Quiet
  <2>1. Missing' = Missing
    BY <1>1 DEF Quiet, Missing, Owed, Wiped
  <2> QED
    BY <1>1, <1>b, <1>e, <2>1 DEF Quiet
<1>2. CASE Stopped
  <2>1. emitted' = {} /\ reported' = 0 /\ buf' = NewBuffer /\ Missing' = {}
    BY <1>2 DEF Stopped, Missing, Owed
  <2> QED
    BY <2>1, Fresh, FS_EmptySet DEF Balance
<1>3. CASE Starts
  <2>1. /\ EmitsFrom(NewBuffer, built + 1) /\ reported' = 0 /\ emitted = {} /\ old' = old
        /\ NewBuffer \in Buffers(EventType) /\ NewBuffer.dropped = 0
    BY <1>3, Fresh DEF Starts, Bookkeeping
  <2>2. IsFiniteSet(emitted')
    BY <2>1, EmitsFinite, FS_EmptySet
  <2>3. Missing' \subseteq {} \cup ((Rows(NewBuffer.evs) \cup (emitted' \ emitted)) \ Rows(buf'.evs))
    BY <2>1 DEF Missing, Owed
  <2>4. IsFiniteSet({}) /\ Cardinality({}) <= 0 + NewBuffer.dropped
    BY <2>1, FS_EmptySet
  <2>5. Cardinality(Missing') <= 0 + buf'.dropped
    BY <2>1, <2>3, <2>4, EmitsCount
  <2> QED
    BY <2>1, <2>2, <2>5 DEF Balance
<1>4. CASE Ticks
  <2>1. /\ pc = "tick" /\ pc' = "write_tick" /\ EmitsFrom(buf, world.id)
        /\ UNCHANGED <<old, events, history, reported>>
    BY <1>4 DEF Ticks
  <2>2. IsFiniteSet(emitted')
    BY <2>1, EmitsFinite DEF Balance
  <2>3. Missing' \subseteq X \cup ((Rows(buf.evs) \cup (emitted' \ emitted)) \ Rows(buf'.evs))
    BY <1>b, <1>d, <2>1 DEF Missing, Owed
  <2>4. Cardinality(Missing') <= reported + buf'.dropped
    BY <1>0, <1>c, <2>1, <2>3, EmitsCount
  <2> QED
    BY <2>1, <2>2, <2>4 DEF Balance
<1>5. CASE Built
  <2>1. /\ pc = "rebuild" /\ EmitsFrom(drain(buf), built + 1) /\ candidate'.id = built + 1
        /\ UNCHANGED <<events, history, reported>> /\ old' = buf.evs
    BY <1>5 DEF Built
  <2>2. drain(buf) \in Buffers(EventType) /\ drain(buf).dropped = buf.dropped /\ Rows(drain(buf).evs) = {}
    BY <1>0, <1>a, Drained
  <2>3. IsFiniteSet(emitted')
    BY <2>1, EmitsFinite DEF Balance
  <2>4. Rows(old') = Rows(buf.evs)
    BY <2>1
  <2>5. \A e \in emitted : e.of # built + 1
    BY <1>0
  <2>6. Missing' \subseteq X \cup ((Rows(drain(buf).evs) \cup (emitted' \ emitted)) \ Rows(buf'.evs))
    BY <1>b, <1>d, <2>1, <2>4, <2>5 DEF Missing, Owed
  <2>7. Cardinality(Missing') <= reported + buf'.dropped
    BY <1>0, <1>c, <2>1, <2>2, <2>6, EmitsCount
  <2> QED
    BY <2>1, <2>3, <2>7 DEF Balance
<1>6. CASE NotBuilt
  <2>1. /\ pc = "rebuild" /\ pc' = job.ret /\ Survives(buf', buf.evs, buf.dropped)
        /\ UNCHANGED <<events, history, reported, old>>
    BY <1>6 DEF NotBuilt
  <2>2. PICK e : e = [boot |-> boots, seq |-> seq, of |-> built + 1]
    OBVIOUS
  <2>3. emitted' = emitted \/ emitted' = emitted \cup {e}
    BY <1>6, <2>2 DEF NotBuilt
  <2>4. IsFiniteSet(emitted')
    BY <2>3, FS_AddElement DEF Balance
  <2>5. e.of \notin history
    BY <1>0, <2>2
  <2>6. Missing' \subseteq X \cup (Rows(buf.evs) \ Rows(buf'.evs))
    BY <1>0, <1>b, <1>d, <2>1, <2>3, <2>5 DEF Missing, Owed
  <2>7. Cardinality(Missing') <= reported + buf'.dropped
    BY <1>0, <1>c, <2>1, <2>6, Counted DEF Survives
  <2> QED
    BY <2>1, <2>4, <2>7 DEF Balance
<1>7. CASE Wipes
  <2>1. /\ pc = "reset" /\ pc' = "purge_entities" /\ events' = <<>>
        /\ UNCHANGED <<job, buf, old, emitted, boots, candidate, history, reported>>
    BY <1>7 DEF Wipes
  <2>2. Wiped' /\ ~Wiped
    BY <2>1 DEF Wiped, Bookkeeping
  <2>3. \A e \in emitted : e.of = candidate.id => e \notin Rows(events)
    BY <1>0, <2>1 DEF Provenance, OfBoot
  <2>4. Missing' \subseteq X
    BY <1>b, <2>1, <2>2, <2>3 DEF Missing, Owed
  <2> QED
    BY <1>e, <2>1, <2>4
<1>8. CASE Aborts
  <2>1. /\ pc = "reset" /\ pc' = job.ret /\ old' = <<>> /\ Survives(buf', old, buf.dropped)
        /\ UNCHANGED <<events, emitted, history, reported>>
    BY <1>8 DEF Aborts
  <2>2. ~Wiped
    BY <2>1 DEF Wiped
  <2>3. \A e \in Rows(buf.evs) : e.of \notin history
    BY <2>1 DEF Provenance
  <2>4. Missing' \subseteq X \cup (Rows(old) \ Rows(buf'.evs))
    BY <1>0, <1>b, <2>1, <2>2, <2>3 DEF Missing, Owed
  <2>5. Cardinality(Missing') <= reported + buf'.dropped
    BY <1>0, <1>c, <2>1, <2>4, Counted DEF Survives
  <2> QED
    BY <2>1, <2>5 DEF Balance
<1>9. CASE Swaps
  <2>1. /\ pc = "swap" /\ pc' = "write" /\ old' = <<>>
        /\ UNCHANGED <<events, emitted, reported>>
        /\ history' = IF job.kind = "regen" THEN {candidate.id} ELSE history \cup {candidate.id}
    BY <1>9 DEF Swaps
  <2>2. CASE job.kind = "regen"
    <3>1. buf' = buf /\ Wiped
      BY <1>9, <2>1, <2>2 DEF Swaps, Wiped
    <3>2. \A e \in Rows(old) : e.of # candidate.id
      BY <2>1 DEF Provenance
    <3>3. Missing' \subseteq X
      BY <1>b, <2>1, <2>2, <3>1, <3>2 DEF Missing, Owed
    <3> QED
      BY <1>e, <2>1, <3>1, <3>3
  <2>3. CASE job.kind = "restart"
    <3>1. Joined(buf', old, buf) /\ ~Wiped
      BY <1>9, <2>1, <2>3 DEF Swaps, Wiped
    <3>2. Missing' \subseteq X \cup ((Rows(old) \cup Rows(buf.evs)) \ Rows(buf'.evs))
      BY <1>b, <2>1, <2>3, <3>1 DEF Missing, Owed
    <3>3. Cardinality(Missing') <= reported + buf'.dropped
      BY <1>0, <1>c, <3>1, <3>2, Counted DEF Joined
    <3> QED
      BY <2>1, <3>3 DEF Balance
  <2> QED
    BY <2>1, <2>2, <2>3 DEF Bookkeeping
<1>10. CASE Backs
  <2>1. /\ pc = "backup" /\ pc' = "publish" /\ UNCHANGED <<old, emitted, history>>
        /\ reported' = reported + buf.dropped
    BY <1>10 DEF Backs
  <2>2. CASE Stores(buf) /\ buf' = NewBuffer
    <3>1. Rows(events') = Rows(events) \cup Rows(buf.evs)
      <4>1. [boot |-> 0, seq |-> 0, of |-> 0] \in EventType
        BY DEF EventType
      <4> QED
        BY <2>2, <4>1, Kinds, RowsOf DEF Stores
    <3>2. Missing' \subseteq X
      BY <1>b, <1>d, <2>1, <3>1 DEF Missing, Owed
    <3>3. IsFiniteSet(Missing') /\ Cardinality(Missing') <= Cardinality(X)
      BY <1>c, <3>2, FS_Subset
    <3>4. Cardinality(X) \in Nat /\ Cardinality(Missing') \in Nat
      BY <1>c, <3>3, FS_CardinalityType
    <3>5. buf'.dropped = 0
      BY <2>2, Fresh
    <3>6. Cardinality(Missing') <= reported' + buf'.dropped
      BY <1>0, <1>c, <2>1, <3>3, <3>4, <3>5
    <3> QED
      BY <2>1, <3>6 DEF Balance
  <2>3. CASE UNCHANGED <<events, snapshots>> /\ Survives(buf', buf.evs, 0)
    <3>1. Missing' \subseteq X \cup (Rows(buf.evs) \ Rows(buf'.evs))
      BY <1>b, <1>d, <2>1, <2>3 DEF Missing, Owed
    <3>2. reported' \in Nat /\ Cardinality(X) <= reported' + 0
      <4>1. Cardinality(X) \in Nat
        BY <1>c, FS_CardinalityType
      <4> QED
        BY <1>0, <1>c, <2>1, <4>1
    <3>3. Cardinality(Missing') <= reported' + buf'.dropped
      BY <1>c, <2>3, <3>1, <3>2, Counted DEF Survives
    <3> QED
      BY <2>1, <3>3 DEF Balance
  <2> QED
    BY <1>10, <2>2, <2>3 DEF Backs
<1> QED
  BY <1>1, <1>2, <1>3, <1>4, <1>5, <1>6, <1>7, <1>8, <1>9, <1>10, TraceView

\* Of the worlds whose history counts, the events neither stored nor queued are
\* no more than the trims that were reported or are still to be, as long as a
\* reply that a store sends is not lost.
THEOREM NoTraceLostHolds ==
    ASSUME AckMayBeLost = FALSE
    PROVE  Spec => []NoTraceLost
<1>1. TypeOK /\ Bookkeeping /\ Provenance /\ Balance /\ [Next]_vars => Balance'
  BY BalanceStep
<1>2. Bookkeeping /\ Balance => NoTraceLost
  <2> SUFFICES ASSUME Bookkeeping, Balance, Settled
               PROVE  LET kept == {e \in emitted : e.of \in history}
                      IN  Cardinality(kept \ (Rows(events) \cup Rows(buf.evs))) <= reported + buf.dropped
    BY DEF NoTraceLost
  <2>1. pc \notin Replacing /\ ~Wiped /\ Rows(old) = {}
    BY NoRows DEF Settled, Wiped, Bookkeeping
  <2>2. Missing = {e \in emitted : e.of \in history} \ (Rows(events) \cup Rows(buf.evs))
    BY <2>1 DEF Missing, Owed, Queued
  <2> QED
    BY <2>2 DEF Balance
<1> QED
  BY <1>1, <1>2, BalanceInit, ProvenanceHolds, TypeCorrect, PTL DEF Spec

=============================================================================
