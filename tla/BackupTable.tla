---------------------------- MODULE BackupTable ----------------------------
(***************************************************************************)
(* The backup store (platform/persist): PgBackupStore's rows, and beside them  *)
(* those of FakePg, the store the tests run on, under the driver's one         *)
(* sequence: a flush is a transaction, and a flush that committed asks for the  *)
(* old rows to be pruned, which is four statements with a failure or a crash    *)
(* between any two of them.                                                   *)
(*                                                                         *)
(* Abstractions.  Time is counted in units; rows keep their order of insertion, *)
(* which is the order of their IDs.  A flush either has why-trace events or none, *)
(* and the last one stands for the batch.  The blob and the runs row, which      *)
(* UpsertRun and ResetRunData replace whole, are left out.                      *)
(***************************************************************************)
EXTENDS Integers, Sequences, SequencesExt, FiniteSets

CONSTANTS
  RunIDs, Ticks,
  KeepAllWindow, MidWindow, MidBucket, CoarseBucket, MaxAge, Interval,
  Lags,                  \* how far the database's clock may be behind the driver's
  MaxClock, MaxRows, MaxFaults \* bounds: the last instant, the committed flushes, the faults

\* The order of the pruneXxx constants: an hour, a day of ten-minute buckets, three days of
\* one-day buckets.
ASSUME BackupAssumption ==
  /\ KeepAllWindow \in Nat /\ MidWindow \in Nat /\ MaxAge \in Nat
  /\ KeepAllWindow <= MidWindow /\ MidWindow <= MaxAge
  /\ MidBucket \in Nat \ {0} /\ CoarseBucket \in Nat \ {0}
  /\ \E k \in 1..CoarseBucket : CoarseBucket = k * MidBucket
  /\ Lags \subseteq Nat /\ Ticks \subseteq Nat /\ RunIDs # {}

VARIABLES
  now, lag, run,         \* the driver's clock, the database's delay, the process's run
  rows, log,       \* Postgres: snapshots [run, tick, at, seq], events [run, seq, at]
  lastPrune,             \* PgBackupStore.lastPrune: in memory, 0 for none
  maint,                 \* the pruning under way: [now, left], left the statements to come
  fRows, fLog, fLastPrune, \* FakePg
  written,               \* history: every row since its run was last reset
  torn                   \* history: how often a prune broke off or the process was restarted

backupVars == <<now, lag, run, rows, log, lastPrune, maint, fRows, fLog, fLastPrune,
                written, torn>>

Idle == [now |-> 0, left |-> 0]

-----------------------------------------------------------------------------
(* Retention                                                               *)

\* A plausible bug: the statement forgets its WHERE run_id.
Of_All(r, x) == TRUE
Of(r, x) == x.run = r
\* A plausible bug: the window is ordered the wrong way round.
RanksBefore_Oldest(t, j, i) == t[j].at < t[i].at \/ (t[j].at = t[i].at /\ j < i)
\* The order of the SQL window: latest created_at, then tick, then ID.
RanksBefore(t, j, i) ==
  \/ t[j].at > t[i].at
  \/ t[j].at = t[i].at /\ t[j].tick > t[i].tick
  \/ t[j].at = t[i].at /\ t[j].tick = t[i].tick /\ j > i
\* The rows at the indices kept, in their order.
Nth(keep, n) == CHOOSE i \in keep : Cardinality({j \in keep : j <= i}) = n
KeepIndices(t, keep) == [n \in 1..Cardinality(keep) |-> t[Nth(keep, n)]]
\* pruneBandSQL: of each bucket of the band [lower, upper) the first alone.
PruneBand(t, r, lower, upper, bucket) ==
  LET band == {i \in DOMAIN t : Of(r, t[i]) /\ t[i].at >= lower /\ t[i].at < upper}
      Behind(i) == \E j \in band : t[j].at \div bucket = t[i].at \div bucket /\ RanksBefore(t, j, i)
  IN KeepIndices(t, {i \in DOMAIN t : ~(i \in band /\ Behind(i))})
DropOlder(t, r, cutoff) == KeepIndices(t, {i \in DOMAIN t : ~(Of(r, t[i]) /\ t[i].at < cutoff)})

\* FakePg.PruneSnapshots: one pass in the order of insertion, keeping the best of each bucket
\* so far.
Sifted(t, r, n) ==
  LET Key(x) == IF x.at < n - MidWindow THEN <<1, x.at \div CoarseBucket>>
                ELSE <<0, x.at \div MidBucket>>
      Sift(acc, i) ==
        LET x == t[i]
            j == acc.keep[Key(x)]
        IN IF Of(r, x) /\ x.at < n - MaxAge THEN [acc EXCEPT !.prune = @ \cup {i}]
           ELSE IF ~Of(r, x) \/ x.at >= n - KeepAllWindow THEN acc
           ELSE IF Key(x) \notin DOMAIN acc.keep THEN [acc EXCEPT !.keep = (Key(x) :> i) @@ @]
           ELSE IF x.at > t[j].at \/ (x.at = t[j].at /\ x.tick >= t[j].tick)
             THEN [keep |-> (Key(x) :> i) @@ acc.keep, prune |-> acc.prune \cup {j}]
           ELSE [acc EXCEPT !.prune = @ \cup {i}]
      sifted == FoldLeft(Sift, [keep |-> <<>>, prune |-> {}], [i \in DOMAIN t |-> i])
  IN KeepIndices(t, DOMAIN t \ sifted.prune)

\* claimPrune: at most once per Interval, whatever becomes of it.
MayPrune(last) == last[run] = 0 \/ now >= last[run] + Interval

-----------------------------------------------------------------------------
(* The operations                                                          *)

Row(tick, seq) == [run |-> run, tick |-> tick, at |-> now - lag, seq |-> seq]
Batch(seq) == IF seq = 0 THEN <<>> ELSE << [run |-> run, seq |-> seq, at |-> now - lag] >>
Claimed(last) == IF MayPrune(last) THEN [last EXCEPT ![run] = now] ELSE last

\* FakePg: the rows are appended, and pruned at once if the claim is given.
FakeWriteBackup(tick, seq) ==
  LET added == Append(fRows, Row(tick, seq))
      logged == fLog \o Batch(seq)
  IN /\ fLastPrune' = Claimed(fLastPrune)
     /\ fRows' = IF MayPrune(fLastPrune) THEN Sifted(added, run, now) ELSE added
     /\ fLog' = IF MayPrune(fLastPrune) THEN DropOlder(logged, run, now - MaxAge) ELSE logged

\* WriteBackup, one transaction, then PruneSnapshots up to its first statement.
WriteBackup(tick, seq) ==
  /\ maint.left = 0 /\ Len(written) < MaxRows
  /\ rows' = Append(rows, Row(tick, seq)) /\ log' = log \o Batch(seq)
  /\ written' = Append(written, Row(tick, seq))
  /\ lastPrune' = Claimed(lastPrune)
  /\ maint' = IF MayPrune(lastPrune) THEN [now |-> now, left |-> 4] ELSE Idle
  /\ FakeWriteBackup(tick, seq)
  /\ UNCHANGED <<now, lag, run, torn>>

\* PruneSnapshots: the next of its four statements; the driver waits for it.
Statement ==
  /\ maint.left > 0
  /\ LET n == maint.now IN
     /\ log' = IF maint.left = 4 THEN DropOlder(log, run, n - MaxAge) ELSE log
     /\ rows' = CASE maint.left = 4 -> rows
                  [] maint.left = 3 -> DropOlder(rows, run, n - MaxAge)
                  [] maint.left = 2 -> PruneBand(rows, run, n - MidWindow, n - KeepAllWindow, MidBucket)
                  [] maint.left = 1 -> PruneBand(rows, run, n - MaxAge, n - MidWindow, CoarseBucket)
  /\ maint' = [maint EXCEPT !.left = @ - 1]
  /\ UNCHANGED <<now, lag, run, lastPrune, fRows, fLog, fLastPrune, written, torn>>

\* A statement fails: what was deleted is deleted, and the claim stands.
BreakOff ==
  /\ maint.left > 0 /\ torn < MaxFaults
  /\ maint' = Idle /\ torn' = torn + 1
  /\ UNCHANGED <<now, lag, run, rows, log, lastPrune, fRows, fLog, fLastPrune, written>>

\* ResetRunData: one transaction; its failure changes nothing and is no step.
OfOthers(t) == KeepIndices(t, {i \in DOMAIN t : t[i].run # run})
FakeResetRunData == fRows' = OfOthers(fRows) /\ fLog' = OfOthers(fLog)
ResetRunData ==
  /\ maint.left = 0
  /\ rows' = OfOthers(rows) /\ log' = OfOthers(log)
  /\ FakeResetRunData
  /\ written' = OfOthers(written) /\ maint' = Idle
  /\ UNCHANGED <<now, lag, run, lastPrune, fLastPrune, torn>>

\* The process dies and another serves r: the claims were in its memory.  No test can do this
\* to the fake.
Restart(r) ==
  /\ torn < MaxFaults
  /\ run' = r /\ lastPrune' = [q \in RunIDs |-> 0] /\ maint' = Idle /\ torn' = torn + 1
  /\ UNCHANGED <<now, lag, rows, log, fRows, fLog, fLastPrune, written>>

Pass ==
  /\ maint.left = 0 /\ now < MaxClock /\ written # <<>>
  /\ now' = now + 1
  /\ UNCHANGED <<lag, run, rows, log, lastPrune, maint, fRows, fLog, fLastPrune, written, torn>>

\* LatestSnapshot: the newest by creation, the last inserted among equals.
Latest(t, r) ==
  LET mine == {i \in DOMAIN t : t[i].run = r}
      best == {i \in mine : \A j \in mine : t[j].at < t[i].at \/ (t[j].at = t[i].at /\ j <= i)}
  IN {t[i] : i \in best}
\* FakePg.LatestSnapshot: one pass, a later row taking over unless it is older.
FakeLatest(t, r) ==
  LET mine == {i \in DOMAIN t : t[i].run = r}
      Over(best, i) == IF i \notin mine THEN best
                       ELSE IF best = 0 THEN i ELSE IF t[i].at < t[best].at THEN best ELSE i
      best == FoldLeft(Over, 0, [i \in DOMAIN t |-> i])
  IN IF best = 0 THEN {} ELSE {t[best]}

-----------------------------------------------------------------------------
BackupInit ==
  /\ lag \in Lags /\ now = 1 + lag /\ run = CHOOSE r \in RunIDs : TRUE
  /\ rows = <<>> /\ log = <<>>
  /\ lastPrune = [r \in RunIDs |-> 0] /\ maint = Idle
  /\ fRows = <<>> /\ fLog = <<>>
  /\ fLastPrune = [r \in RunIDs |-> 0]
  /\ written = <<>> /\ torn = 0

BackupNext ==
  \/ \E t \in Ticks : WriteBackup(t, t * now)
  \/ Statement \/ BreakOff \/ Pass
  \/ ResetRunData
  \/ \E r \in RunIDs : Restart(r)

-----------------------------------------------------------------------------
(* Properties                                                              *)

\* The fake prunes in one pass with its own loop what the store prunes with four SQL statements:
\* between two flushes they hold the same rows, whatever was written when.
FakePrunesAlike ==
  torn = 0 /\ maint.left = 0 =>
    /\ rows = fRows /\ log = fLog
    /\ \A r \in RunIDs : Latest(rows, r) = FakeLatest(fRows, r)

\* Pruning thins history and never loses it: of everything written the newest of each bucket
\* is still there until it is too old, however often pruning ran, broke off or was started
\* over by another process.
HistoryKept ==
  \A i \in DOMAIN written :
    LET w == written[i]
        Covers(x, width) == x.run = w.run /\ x.at >= w.at /\ x.at \div width = w.at \div width
        Held(width) == \E j \in DOMAIN rows : Covers(rows[j], width)
    IN /\ w.at >= now - MaxAge => Held(CoarseBucket)
       /\ w.at >= now - MidWindow => Held(MidBucket)
       /\ w.at >= now - KeepAllWindow => w \in {rows[j] : j \in DOMAIN rows}

\* The point to resume from is as new as the row written last: retention never takes it.  (Among
\* rows of one instant LatestSnapshot prefers the later ID and retention the higher tick.)
ResumeIsLast ==
  \A r \in RunIDs :
    LET Created(t) == {x.at : x \in Latest(t, r)}
    IN \A a \in Created(written) : a >= now - MaxAge => Created(rows) = {a}

\* When the last statement is through, no bucket of either band holds two rows.
Thinned ==
  maint.now > 0 /\ maint.left = 0 /\ lastPrune[run] = maint.now =>
    \A i, j \in DOMAIN rows :
      LET n == maint.now
          Mid(x) == x.run = run /\ x.at >= n - MidWindow /\ x.at < n - KeepAllWindow
          Old(x) == x.run = run /\ x.at < n - MidWindow
      IN i # j => /\ Mid(rows[i]) /\ Mid(rows[j]) =>
                       rows[i].at \div MidBucket # rows[j].at \div MidBucket
                  /\ Old(rows[i]) /\ Old(rows[j]) =>
                       rows[i].at \div CoarseBucket # rows[j].at \div CoarseBucket

\* A snapshot's last_event_seq names an event that is there: the two were committed together,
\* and the events go first only when both are too old.
CutsBacked ==
  \A i \in DOMAIN rows :
    LET s == rows[i] IN
    s.seq # 0 /\ s.at >= now - MaxAge =>
      [run |-> s.run, seq |-> s.seq, at |-> s.at] \in {log[j] : j \in DOMAIN log}

\* What Postgres holds is a history to rely on.
HistorySound == HistoryKept /\ ResumeIsLast /\ Thinned /\ CutsBacked
=============================================================================
