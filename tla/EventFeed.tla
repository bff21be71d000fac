------------------------------ MODULE EventFeed ------------------------------
(***************************************************************************)
(* The producing side of the live view: the world's emissions appended to  *)
(* the Redis event stream by events.Emitter, the stream's trimming and     *)
(* deletion, and the baselines a flush leaves in the live keys.            *)
(*                                                                         *)
(* log is the history of the world: entry n is the slice of the rendered   *)
(* state that emission n changed, or how the world was replaced.  Stream   *)
(* entry IDs are positions of log: both only grow, across regens too (IDs  *)
(* are wall-clock times).  A baseline carries what the code writes (its    *)
(* revision and stream cursor, 0 for "") and, as its content, the position *)
(* of log it shows.                                                        *)
(***************************************************************************)
EXTENDS Integers, Sequences, FiniteSets, FiniteSetsExt

CONSTANTS
    Kinds,       \* slices the world changes: subset of {"agents", "flora", "terrain"}
    Installed,   \* env layers with a baseline: subset of {"flora", "terrain"}
    Rebuilds,    \* replacements of the world: subset of {"regen", "restart", "reboot"}
    XAddMayFail, \* an append may fail (transport error, recorded and ignored)
    SetMayFail,  \* a call on the live keys may fail (the others are still made)
    Trims,       \* MAXLEN trimming happens
    MaxLen,      \* the least number of entries a trim leaves (10 000 in the code)
    MaxLog       \* bound of the checked instance: emissions and replacements

ASSUME FeedAssumption ==
    /\ Kinds \subseteq {"agents", "flora", "terrain"}
    /\ Installed \subseteq {"flora", "terrain"}
    /\ Kinds \ {"agents"} \subseteq Installed
    /\ Rebuilds \subseteq {"regen", "restart", "reboot"}
    /\ XAddMayFail \in BOOLEAN /\ SetMayFail \in BOOLEAN /\ Trims \in BOOLEAN
    /\ MaxLen \in Nat \ {0} /\ MaxLog \in Nat \ {0}

VARIABLES
    log,         \* history of the world
    retained,    \* entry IDs the stream holds
    maxDeleted,  \* the stream's max-deleted-entry-id (0-0 is 0)
    lastID,      \* Emitter.lastID ("" is 0)
    rev,         \* the driver's revision
    flush,       \* what the flush in progress has still to write, in order
    live,        \* the baselines in Redis
    published,   \* meta.world_revision
    reused       \* a process has claimed a revision that was claimed before it

feedVars == <<log, retained, maxDeleted, lastID, rev, flush, live, published, reused>>

Baselines == {"snapshot"} \cup Installed
NoDoc     == [rev |-> 0, cursor |-> 0, at |-> 0]
Now       == Len(log)

\* The position at which slice k last changed, as of position n: the value of
\* the slice in the world's state at n.
Written(k, n) == {m \in DOMAIN log : m <= n /\ log[m] \in {k} \cup Rebuilds}
At(k, n) == IF Written(k, n) = {} THEN 0 ELSE Max(Written(k, n))

----------------------------------------------------------------------------
(* Emission: a failed append is recorded and the cursor stays.             *)

\* XADD MAXLEN ~: append, then perhaps drop a prefix, never below MaxLen.
XAdd(id) ==
    \E cut \in {0} \cup (IF Trims THEN retained ELSE {}) :
        LET kept == {n \in retained : n > cut} \cup {id}
        IN  /\ cut # 0 => Cardinality(kept) >= MaxLen
            /\ retained' = kept
            /\ maxDeleted' = IF cut = 0 THEN maxDeleted ELSE cut

Emit(k) ==
    /\ flush = <<>> /\ Now < MaxLog
    /\ log' = Append(log, k)
    /\ \/ XAdd(Now + 1) /\ lastID' = Now + 1
       \/ XAddMayFail /\ UNCHANGED <<retained, maxDeleted, lastID>>
    /\ UNCHANGED <<rev, flush, live, published, reused>>

----------------------------------------------------------------------------
(* Flush: the baselines, one write at a time, from one instant.             *)

\* The baselines, then the revision r if it is still to be published.
writeOrder(r) ==
    SelectSeq(<<"snapshot", "flora", "terrain", "meta">>,
              LAMBDA b : b \in Baselines \/ (b = "meta" /\ published # r))

\* The backup cadence falls on a tick, which has emitted its frames.
BeginFlush ==
    /\ flush = <<>> /\ flush' = writeOrder(rev) /\ log[Now] \notin Rebuilds
    /\ UNCHANGED <<log, retained, maxDeleted, lastID, rev, live, published, reused>>

stamp == [rev |-> rev, cursor |-> lastID, at |-> Now]

\* A write that fails leaves the revision unpublished; the others are still made.
WriteBaseline ==
    /\ flush # <<>> /\ Head(flush) # "meta"
    /\ \/ live' = [live EXCEPT ![Head(flush)] = stamp] /\ flush' = Tail(flush)
       \/ /\ SetMayFail /\ live' = live
          /\ flush' = SelectSeq(Tail(flush), LAMBDA b : b # "meta")
    /\ UNCHANGED <<log, retained, maxDeleted, lastID, rev, published, reused>>

Publish ==
    /\ flush = <<"meta">> /\ flush' = <<>>
    /\ published' = rev \/ (SetMayFail /\ published' = published)
    /\ UNCHANGED <<log, retained, maxDeleted, lastID, rev, live, reused>>

----------------------------------------------------------------------------
(* The world is replaced.                                                  *)

Rebuild(how) ==
    /\ flush = <<>> /\ Now < MaxLog /\ how \in Rebuilds
    /\ log' = Append(log, how)

\* A regen deletes the stream and the baselines in one call that may fail, then
\* flushes the new world.
Regen ==
    /\ Rebuild("regen")
    /\ rev' = rev + 1
    /\ \/ retained' = {} /\ maxDeleted' = 0 /\ live' = [b \in Baselines |-> NoDoc]
       \/ SetMayFail /\ UNCHANGED <<retained, maxDeleted, live>>
    /\ flush' = writeOrder(rev + 1)
    /\ UNCHANGED <<lastID, published, reused>>

\* A restart keeps revision, stream and baselines, and flushes.
Restart ==
    /\ Rebuild("restart")
    /\ flush' = writeOrder(rev)
    /\ UNCHANGED <<retained, maxDeleted, lastID, rev, live, published, reused>>

\* A new process and a new emitter; nothing is deleted.  The revision claimed is
\* the published one's successor, or 1 when it cannot be read: what the process
\* before had claimed and not published is claimed again.
Reboot ==
    /\ Rebuild("reboot")
    /\ \/ rev' = published + 1
       \/ SetMayFail /\ rev' = 1
    /\ reused' = (reused \/ rev' <= rev)
    /\ lastID' = 0
    /\ UNCHANGED <<retained, maxDeleted, flush, live, published>>

----------------------------------------------------------------------------

\* The first tick has been emitted, nothing has been flushed.
FeedInit ==
    /\ log = <<"agents">> /\ retained = {1} /\ maxDeleted = 0 /\ lastID = 1
    /\ rev = 1 /\ flush = <<>> /\ live = [b \in Baselines |-> NoDoc]
    /\ published = 0 /\ reused = FALSE

Emitting == \E k \in Kinds : Emit(k)
Produce  == Emitting \/ BeginFlush \/ WriteBaseline \/ Publish \/ Regen \/ Restart \/ Reboot

=============================================================================
