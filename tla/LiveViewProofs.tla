--------------------------- MODULE LiveViewProofs ---------------------------
(***************************************************************************)
(* Proofs about the live view, for every history, set of layers, capacity  *)
(* and number of lost connections, and whichever of the failures may       *)
(* happen: lost appends, failed writes, XINFO errors, trims that overtake, *)
(* pauses, regens, restarts and reboots.                                   *)
(*                                                                         *)
(* First, what is drawn together is of one revision. Then what the client  *)
(* and its connection hold: the frames in flight, the operations buffered, *)
(* the documents fetched and what is drawn of them (ViewInvariant). From   *)
(* it, that the roster is no older than its snapshot, that an old world is *)
(* never replayed over a new one, and that no baseline is undone.          *)
(*                                                                         *)
(* Last, that the view follows the world where nothing is lost on the way: *)
(* what left the stream is accounted for (Retention), the entries that     *)
(* come do so without a gap (Gapless), what waits for a document is in     *)
(* order and complete (Queued, DeltasWait), and so each layer drawn is the *)
(* world's as of the last applied entry.                                   *)
(***************************************************************************)
EXTENDS LiveView, FiniteOrders

\* The fields of the view that decide it.
HasRevision(s) == {"snapshotLoaded", "floraLoaded", "worldRevision"} \subseteq DOMAIN s

SameRevision(s, t) ==
    /\ t.snapshotLoaded = s.snapshotLoaded
    /\ t.floraLoaded = s.floraLoaded
    /\ t.worldRevision = s.worldRevision

\* A document in the store carries a revision.
Tagged(doc) == doc # NoDoc => doc.rev # 0

\* The view's revision is the one of the snapshot shown, and of the plants.
SnapshotTagged ==
    view.snapshotLoaded => view.worldRevision # 0 /\ view.worldRevision = shown["snapshot"].rev
FloraTagged ==
    ("flora" \in Installed /\ view.floraLoaded)
        => view.worldRevision # 0 /\ view.worldRevision = shown["flora"].rev

\* An answer is a document of the store, and plants are asked for only once a
\* snapshot has named a revision.
LoadsTagged ==
    \A b \in Baselines :
        /\ loads[b].state = "answered" => loads[b].doc.rev # 0
        /\ (b = "flora" /\ loads[b].state # "idle") => view.worldRevision # 0

Shape ==
    /\ DOMAIN live = Baselines /\ DOMAIN loads = Baselines /\ DOMAIN shown = Baselines
    /\ \A b \in Baselines : {"state", "rev", "cursor", "doc"} \subseteq DOMAIN loads[b]
    /\ HasRevision(view)

\* What is stored is tagged, and unless a revision was claimed twice nothing above
\* the driver's is published.
StoreTagged ==
    /\ rev \in Nat \ {0} /\ \A b \in Baselines : Tagged(live[b])
    /\ published \in Nat /\ (reused \/ published <= rev)

RevisionInv == Shape /\ StoreTagged /\ SnapshotTagged /\ FloraTagged /\ LoadsTagged

----------------------------------------------------------------------------
(* The reducer.                                                            *)

\* An entry applied to the view leaves revision and flags alone.
LEMMA EventKeepsRevision ==
    ASSUME NEW s, HasRevision(s), NEW kind, NEW id
    PROVE  HasRevision(EVENT(s, kind, id)) /\ SameRevision(s, EVENT(s, kind, id))
<1>1. HasRevision(applyEvent(s, kind, id)) /\ SameRevision(s, applyEvent(s, kind, id))
  BY DEF HasRevision, SameRevision, applyEvent
<1>2. QED
  BY <1>1 DEF HasRevision, SameRevision, EVENT

\* A gap closes the baselines and keeps the revision.
LEMMA GapKeepsRevision ==
    ASSUME NEW s, HasRevision(s)
    PROVE  /\ HasRevision(StreamGap(s)) /\ StreamGap(s).worldRevision = s.worldRevision
           /\ StreamGap(s).snapshotLoaded = FALSE /\ StreamGap(s).floraLoaded = FALSE
BY DEF HasRevision, StreamGap

\* A snapshot names the revision of the view, and keeps no plants of another one.
LEMMA SnapshotSetsRevision ==
    ASSUME NEW s, HasRevision(s), NEW doc, NEW agents, ~stale(s, doc)
    PROVE  LET t == SNAPSHOT_LOADED(s, doc, agents)
           IN  /\ HasRevision(t) /\ t.worldRevision = doc.rev
               /\ ("flora" \in Installed /\ t.floraLoaded)
                     => s.floraLoaded /\ (s.worldRevision # 0 => s.worldRevision = doc.rev)
<1> DEFINE switched == revisionSwitch(s, doc)
           next == [s EXCEPT
                        !.agents = agents, !.snapshotLoaded = TRUE,
                        !.worldRevision = doc.rev, !.snapshotCursor = doc.cursor,
                        !.lastApplied = IF doc.cursor # 0 THEN doc.cursor
                                        ELSE IF switched THEN 0 ELSE @]
           cleared == IF switched THEN clearWorld(next) ELSE next
<1>1. /\ HasRevision(next) /\ next.worldRevision = doc.rev
      /\ next.floraLoaded = s.floraLoaded
  BY DEF HasRevision
<1>2. /\ HasRevision(cleared) /\ cleared.worldRevision = doc.rev
      /\ cleared.floraLoaded = IF switched THEN FALSE ELSE s.floraLoaded
  <2> HIDE DEF next, switched
  <2>1. QED  BY <1>1 DEF HasRevision, clearWorld, cleared
<1>3. SNAPSHOT_LOADED(s, doc, agents) = flags(cleared)
  BY DEF SNAPSHOT_LOADED
<1>4. /\ HasRevision(flags(cleared)) /\ flags(cleared).worldRevision = doc.rev
      /\ "flora" \in Installed => (flags(cleared).floraLoaded <=> cleared.floraLoaded)
  <2> HIDE DEF cleared
  <2>1. QED  BY <1>2 DEF HasRevision, flags
<1>5. ~switched => (s.worldRevision # 0 => s.worldRevision = doc.rev)
  BY DEF revisionSwitch
<1>6. QED
  <2> HIDE DEF cleared, switched
  <2>1. QED  BY <1>2, <1>3, <1>4, <1>5

\* Plants are taken only for the revision of the view.
LEMMA FloraKeepsRevision ==
    ASSUME NEW s, HasRevision(s), NEW doc, NEW flora,
           s.worldRevision # 0, doc.rev = s.worldRevision
    PROVE  LET t == FLORA_LOADED(s, doc, flora)
           IN  /\ HasRevision(t) /\ t.worldRevision = s.worldRevision
               /\ t.snapshotLoaded = s.snapshotLoaded
BY DEF HasRevision, FLORA_LOADED

\* A grid taken leaves revision and flags alone.
LEMMA TerrainKeepsRevision ==
    ASSUME NEW s, HasRevision(s), NEW grid
    PROVE  HasRevision(TERRAIN_LOADED(s, grid)) /\ SameRevision(s, TERRAIN_LOADED(s, grid))
BY DEF HasRevision, SameRevision, TERRAIN_LOADED

----------------------------------------------------------------------------
(* The invariant.                                                          *)

\* Nothing is drawn and nothing stored to begin with.
LEMMA RevisionInit == Init => RevisionInv
<1> SUFFICES ASSUME Init PROVE RevisionInv
  OBVIOUS
<1>1. HasRevision(view) /\ ~view.snapshotLoaded /\ ~view.floraLoaded
  BY DEF Init, initial, HasRevision
<1>2. Shape
  BY <1>1 DEF Init, FeedInit, Shape, ask, Idle
<1>3. StoreTagged
  BY DEF Init, FeedInit, StoreTagged, Tagged, Baselines
<1>4. LoadsTagged
  BY DEF Init, LoadsTagged, ask, Idle
<1>5. QED
  BY <1>1, <1>2, <1>3, <1>4 DEF RevisionInv, SnapshotTagged, FloraTagged

\* The producer only ever stores documents of its revision.
LEMMA FeedKeepsRevision ==
    ASSUME RevisionInv, Feed
    PROVE  RevisionInv'
<1>1. UNCHANGED clientVars
  BY DEF Feed
<1>2. DOMAIN live' = Baselines /\ StoreTagged'
  <2>1. CASE Emitting
    BY <2>1 DEF Emitting, Emit, XAdd, RevisionInv, Shape, StoreTagged
  <2>2. CASE BeginFlush
    BY <2>2 DEF BeginFlush, RevisionInv, Shape, StoreTagged
  <2>3. CASE WriteBaseline
    <3>1. /\ UNCHANGED <<rev, published, reused>>
          /\ (live' = [live EXCEPT ![Head(flush)] = stamp] \/ live' = live)
      BY <2>3 DEF WriteBaseline
    <3>2. stamp.rev # 0
      BY DEF stamp, RevisionInv, StoreTagged
    <3>3. QED
      BY <3>1, <3>2 DEF RevisionInv, Shape, StoreTagged, Tagged
  <2>4. CASE Regen
    <3>1. rev \in Nat \ {0} /\ rev' = rev + 1 /\ UNCHANGED <<published, reused>>
      BY <2>4 DEF Regen, RevisionInv, StoreTagged
    <3>2. rev' \in Nat \ {0} /\ (reused \/ published <= rev')
      BY <3>1 DEF RevisionInv, StoreTagged
    <3>3. DOMAIN live' = Baselines /\ \A b \in Baselines : Tagged(live'[b])
      BY <2>4 DEF Regen, RevisionInv, Shape, StoreTagged, Tagged
    <3>4. QED
      BY <3>1, <3>2, <3>3 DEF RevisionInv, StoreTagged
  <2>5. CASE Restart
    BY <2>5 DEF Restart, RevisionInv, Shape, StoreTagged
  <2>6. CASE Reboot
    <3>1. /\ rev \in Nat \ {0} /\ published \in Nat /\ (rev' = published + 1 \/ rev' = 1)
          /\ (reused' <=> (reused \/ rev' <= rev)) /\ UNCHANGED <<live, published>>
      BY <2>6 DEF Reboot, RevisionInv, StoreTagged
    <3>2. rev' \in Nat \ {0} /\ (rev' > rev => published <= rev')
      BY <3>1
    <3>3. rev' <= rev \/ rev' > rev
      BY <3>1, <3>2
    <3>4. QED
      BY <3>1, <3>2, <3>3 DEF RevisionInv, Shape, StoreTagged
  <2>7. CASE Publish
    <3>1. UNCHANGED <<rev, live, reused>> /\ (published' = rev \/ published' = published)
      BY <2>7 DEF Publish
    <3>2. QED
      BY <3>1 DEF RevisionInv, Shape, StoreTagged
  <2>8. QED
    BY <2>1, <2>2, <2>3, <2>4, <2>5, <2>6, <2>7 DEF Feed, Produce
<1>3. QED
  BY <1>1, <1>2 DEF RevisionInv, Shape, SnapshotTagged, FloraTagged, LoadsTagged, clientVars

\* Connection steps touch neither store nor view.
LEMMA ServerKeepsRevision ==
    ASSUME RevisionInv, Server
    PROVE  RevisionInv'
<1>1. UNCHANGED <<rev, live, published, reused, view, loads, shown>>
  BY DEF Server, Connect, BlockAtEnd, Read, Drop, feedVars
<1>2. QED
  BY <1>1 DEF RevisionInv, Shape, StoreTagged, SnapshotTagged, FloraTagged, LoadsTagged

\* A frame dispatched keeps one revision drawn.
LEMMA DeliverKeepsRevision ==
    ASSUME RevisionInv, Deliver
    PROVE  RevisionInv'
<1>1. UNCHANGED <<rev, live, published, reused, loads, shown>> /\ view' = dispatch(Head(wire))
  BY DEF Deliver, feedVars
<1>2. HasRevision(view)
  BY DEF RevisionInv, Shape
<1>3. /\ HasRevision(view') /\ view'.worldRevision = view.worldRevision
      /\ view'.snapshotLoaded => view.snapshotLoaded
      /\ view'.floraLoaded => view.floraLoaded
  <2>1. CASE Head(wire) = GapFrame
    <3>1. view' = StreamGap(view)
      BY <1>1, <2>1 DEF dispatch
    <3>2. QED
      BY <1>2, <3>1, GapKeepsRevision
  <2>2. CASE Head(wire) # GapFrame
    <3>1. view' = EVENT(view, Head(wire).kind, Head(wire).id)
      BY <1>1, <2>2 DEF dispatch
    <3>2. HasRevision(view') /\ SameRevision(view, view')
      BY <1>2, <3>1, EventKeepsRevision
    <3>3. QED
      BY <3>2 DEF SameRevision
  <2>3. QED
    BY <2>1, <2>2
<1>4. QED
  BY <1>1, <1>3 DEF RevisionInv, Shape, StoreTagged, SnapshotTagged, FloraTagged, LoadsTagged

\* Asking, answering and the effects change the loads alone.
LEMMA AskingKeepsRevision ==
    ASSUME RevisionInv, Refetch \/ (\E b \in Baselines : Answer(b)) \/ RunEffects \/ TogglePause
    PROVE  RevisionInv'
<1> DEFINE NewLoads ==
        /\ DOMAIN loads' = Baselines
        /\ \A b \in Baselines : {"state", "rev", "cursor", "doc"} \subseteq DOMAIN loads'[b]
        /\ \A b \in Baselines :
              /\ loads'[b].state = "answered" => loads'[b].doc.rev # 0
              /\ (b = "flora" /\ loads'[b].state # "idle") => view.worldRevision # 0
<1>1. HasRevision(view)
  BY DEF RevisionInv, Shape
<1>2. UNCHANGED <<rev, live, published, reused, shown>> /\ HasRevision(view') /\ SameRevision(view, view')
  BY <1>1 DEF Refetch, Answer, RunEffects, TogglePause, TOGGLE_PAUSE, feedVars,
              HasRevision, SameRevision
<1>3. NewLoads
  <2>1. CASE Refetch
    BY <2>1 DEF Refetch, ask, RevisionInv, Shape, LoadsTagged
  <2>2. ASSUME NEW b \in Baselines, Answer(b) PROVE NewLoads
    <3>1. loads' = [loads EXCEPT ![b].state = "answered", ![b].doc = live[b]]
      BY <2>2 DEF Answer
    <3>2. live[b].rev # 0 /\ loads[b].state = "asked"
      BY <2>2 DEF Answer, fits, RevisionInv, StoreTagged, Tagged
    <3>3. /\ {"state", "rev", "cursor", "doc"} \subseteq DOMAIN loads[b]
          /\ DOMAIN loads = Baselines
      BY DEF RevisionInv, Shape
    <3>4. QED
      BY <3>1, <3>2, <3>3 DEF RevisionInv, Shape, LoadsTagged
  <2>3. CASE RunEffects
    <3>1. loads' = [b \in Baselines |->
                    IF wanted(b)
                    THEN ask(view.worldRevision, IF b = "flora" THEN view.snapshotCursor ELSE 0)
                    ELSE loads[b]]
      BY <2>3 DEF RunEffects
    <3>2. \A b \in Baselines : wanted(b) => view.worldRevision # 0
      BY DEF wanted, RevisionInv, SnapshotTagged
    <3>3. QED
      BY <3>1, <3>2 DEF ask, RevisionInv, Shape, LoadsTagged
  <2>4. CASE TogglePause
    BY <2>4 DEF TogglePause, RevisionInv, Shape, LoadsTagged
  <2>5. QED
    BY <2>1, <2>2, <2>3, <2>4
<1>4. QED
  BY <1>2, <1>3 DEF RevisionInv, Shape, StoreTagged, SnapshotTagged, FloraTagged,
                    LoadsTagged, SameRevision

\* A document taken keeps one revision drawn: a snapshot names it, plants must agree.
LEMMA AcceptKeepsRevision ==
    ASSUME RevisionInv, NEW b \in Baselines, Accept(b)
    PROVE  RevisionInv'
<1> DEFINE doc == loads[b].doc
<1>1. /\ UNCHANGED <<rev, live, published, reused>> /\ loads[b].state = "answered" /\ doc.rev # 0
      /\ view' = loaded(b, doc) /\ loads' = [loads EXCEPT ![b] = Idle]
      /\ shown' = IF rejected(b, doc) THEN shown ELSE [shown EXCEPT ![b] = doc]
  BY DEF Accept, feedVars, RevisionInv, LoadsTagged
<1>2. HasRevision(view) /\ (b = "flora" => view.worldRevision # 0)
  BY <1>1 DEF RevisionInv, Shape, LoadsTagged
<1>3. SUFFICES /\ HasRevision(view') /\ SnapshotTagged' /\ FloraTagged'
               /\ (view.worldRevision # 0 => view'.worldRevision # 0)
  BY <1>1 DEF RevisionInv, Shape, StoreTagged, LoadsTagged, Idle
<1> HIDE DEF doc
<1>4. CASE b = "snapshot" /\ stale(view, doc)
  <2>1. view' = [view EXCEPT !.reacquire = TRUE] /\ shown' = shown
    BY <1>1, <1>4 DEF loaded, rejected, SNAPSHOT_LOADED
  <2>2. QED
    BY <1>2, <2>1 DEF HasRevision, RevisionInv, SnapshotTagged, FloraTagged
<1>5. CASE b = "snapshot" /\ ~stale(view, doc)
  <2>1. /\ HasRevision(view') /\ view'.worldRevision = doc.rev
        /\ ("flora" \in Installed /\ view'.floraLoaded)
              => view.floraLoaded /\ (view.worldRevision # 0 => view.worldRevision = doc.rev)
    BY <1>1, <1>2, <1>5, SnapshotSetsRevision DEF loaded
  <2>2. shown' = [shown EXCEPT !["snapshot"] = doc]
    BY <1>1, <1>5 DEF rejected
  <2>3. shown'["snapshot"] = doc /\ shown'["flora"] = shown["flora"]
    BY <2>2 DEF RevisionInv, Shape, Baselines
  <2>4. QED
    BY <1>1, <2>1, <2>3 DEF RevisionInv, SnapshotTagged, FloraTagged
<1>6. CASE b = "flora" /\ doc.rev # view.worldRevision
  <2>1. view' = view /\ shown' = shown
    BY <1>1, <1>2, <1>6 DEF loaded, rejected, FLORA_LOADED
  <2>2. QED
    BY <1>2, <2>1 DEF RevisionInv, SnapshotTagged, FloraTagged
<1>7. CASE b = "flora" /\ doc.rev = view.worldRevision
  <2>1. /\ HasRevision(view') /\ view'.worldRevision = view.worldRevision
        /\ view'.snapshotLoaded = view.snapshotLoaded
    BY <1>1, <1>2, <1>7, FloraKeepsRevision DEF loaded
  <2>2. shown' = [shown EXCEPT !["flora"] = doc]
    BY <1>1, <1>7 DEF rejected
  <2>3. shown'["flora"] = doc /\ shown'["snapshot"] = shown["snapshot"]
    BY <1>7, <2>2 DEF RevisionInv, Shape, Baselines
  <2>4. QED
    BY <1>2, <1>7, <2>1, <2>3 DEF RevisionInv, SnapshotTagged, FloraTagged
<1>8. CASE b = "terrain"
  <2>1. HasRevision(view') /\ SameRevision(view, view')
    BY <1>1, <1>2, <1>8, TerrainKeepsRevision DEF loaded
  <2>2. shown'["flora"] = shown["flora"] /\ shown'["snapshot"] = shown["snapshot"]
    BY <1>1, <1>8 DEF RevisionInv, Shape, Baselines
  <2>3. QED
    BY <2>1, <2>2 DEF RevisionInv, SnapshotTagged, FloraTagged, SameRevision
<1>9. b \in {"snapshot", "flora", "terrain"}
  BY FeedAssumption DEF Baselines
<1>10. QED
  BY <1>4, <1>5, <1>6, <1>7, <1>8, <1>9

\* The revision of the view, of the plants and of every answer waiting agree in
\* every reachable state.
THEOREM RevisionInvariant == Spec => []RevisionInv
<1>1. RevisionInv /\ [Next]_vars => RevisionInv'
  <2> SUFFICES ASSUME RevisionInv, [Next]_vars PROVE RevisionInv'
    OBVIOUS
  <2>1. CASE Feed
    BY <2>1, FeedKeepsRevision
  <2>2. CASE Server
    BY <2>2, ServerKeepsRevision
  <2>3. CASE Client
    <3>1. CASE Deliver
      BY <3>1, DeliverKeepsRevision
    <3>2. CASE Refetch \/ (\E b \in Baselines : Answer(b)) \/ RunEffects \/ TogglePause
      BY <3>2, AskingKeepsRevision
    <3>3. CASE \E b \in Baselines : Accept(b)
      BY <3>3, AcceptKeepsRevision
    <3>4. QED
      BY <2>3, <3>1, <3>2, <3>3 DEF Client, Loading
  <2>4. CASE UNCHANGED vars
    BY <2>4 DEF vars, feedVars, clientVars, RevisionInv, Shape, StoreTagged,
                SnapshotTagged, FloraTagged, LoadsTagged
  <2>5. QED
    BY <2>1, <2>2, <2>3, <2>4 DEF Next
<1>2. QED
  BY <1>1, RevisionInit, PTL DEF Spec

\* Plants and roster drawn together come from baselines of one revision.
THEOREM OneRevisionDrawn == Spec => []OneRevision
<1>1. RevisionInv => OneRevision
  BY DEF RevisionInv, SnapshotTagged, FloraTagged, OneRevision
<1>2. QED
  BY <1>1, RevisionInvariant, PTL

----------------------------------------------------------------------------
(* Sets of stream IDs.                                                     *)

\* The largest of finitely many numbers is one of them.
LEMMA MaxFacts ==
    ASSUME NEW S, S \subseteq Nat, IsFiniteSet(S), S # {}
    PROVE  Max(S) \in S /\ \A y \in S : y <= Max(S)
<1> DEFINE lv == [i \in S |-> i]
<1>1. lv \in [S -> Nat] /\ \A i \in S : lv[i] = i
  OBVIOUS
<1> HIDE DEF lv
<1>2. PICK a \in S : \A b \in S \ {a} : lv[a] > lv[b] \/ (lv[a] = lv[b] /\ a < b)
  BY <1>1, BestExists
<1>3. \A y \in S : a >= y
  <2> SUFFICES ASSUME NEW y \in S PROVE a >= y
    OBVIOUS
  <2> QED
    BY <1>1, <1>2
<1>4. \E x \in S : \A y \in S : x >= y
  BY <1>3
<1>5. Max(S) \in S /\ \A y \in S : Max(S) >= y
  BY <1>4 DEF Max
<1> QED
  BY <1>5

\* Reading in order visits each entry once, the lower ID first.
LEMMA InOrderFacts ==
    ASSUME NEW S, S \subseteq Nat, IsFiniteSet(S)
    PROVE  /\ Cardinality(S) \in Nat
           /\ \A i \in 1..Cardinality(S) : inOrder(S)[i] \in S
           /\ \A n \in S : \E i \in 1..Cardinality(S) : inOrder(S)[i] = n
           /\ \A i, j \in 1..Cardinality(S) : i < j => inOrder(S)[i] < inOrder(S)[j]
<1> DEFINE N == Cardinality(S)
           upto(n) == {m \in S : m <= n}
           rank == [n \in S |-> Cardinality(upto(n))]
<1>1. N \in Nat /\ IsFiniteSet(1..N) /\ Cardinality(1..N) = N
  <2>1. N \in Nat
    BY FS_CardinalityType
  <2>2. 1 \in Int /\ N \in Int
    BY <2>1
  <2>3. IsFiniteSet(1..N) /\ Cardinality(1..N) = IF 1 > N THEN 0 ELSE N - 1 + 1
    BY <2>2, FS_Interval
  <2> QED
    BY <2>1, <2>3
<1>2. ASSUME NEW n \in S PROVE rank[n] \in 1..N /\ IsFiniteSet(upto(n)) /\ rank[n] = Cardinality(upto(n))
  <2>1. upto(n) \in SUBSET S /\ n \in upto(n)
    OBVIOUS
  <2>2. IsFiniteSet(upto(n)) /\ Cardinality(upto(n)) <= N
    BY <2>1, FS_Subset
  <2>3. Cardinality(upto(n)) \in Nat /\ (Cardinality(upto(n)) = 0 => upto(n) = {})
    BY <2>2, FS_CardinalityType, FS_EmptySet
  <2>4. rank[n] = Cardinality(upto(n))
    OBVIOUS
  <2> HIDE DEF rank, upto, N
  <2>5. Cardinality(upto(n)) # 0
    BY <2>1, <2>3
  <2>6. PICK c : c = Cardinality(upto(n))
    OBVIOUS
  <2>7. c \in 1..N
    BY <1>1, <2>2, <2>3, <2>5, <2>6
  <2> QED
    BY <2>2, <2>4, <2>6, <2>7
<1>3. ASSUME NEW m \in S, NEW n \in S, m < n PROVE rank[m] < rank[n]
  <2>1. upto(m) \in SUBSET upto(n) /\ n \in upto(n) /\ n \notin upto(m)
    <3>1. \A x \in S : x <= m => x <= n
      BY <1>3
    <3>2. n <= n /\ ~(n <= m)
      BY <1>3
    <3> QED
      BY <3>1, <3>2
  <2>2. IsFiniteSet(upto(n))
    BY <1>2
  <2>3. Cardinality(upto(m)) <= Cardinality(upto(n)) /\ (Cardinality(upto(n)) = Cardinality(upto(m)) => upto(n) = upto(m))
    BY <2>1, <2>2, FS_Subset
  <2>4. rank[m] = Cardinality(upto(m)) /\ rank[n] = Cardinality(upto(n)) /\ rank[m] \in Nat /\ rank[n] \in Nat
    BY <1>1, <1>2
  <2> HIDE DEF rank, upto
  <2> QED
    BY <2>1, <2>3, <2>4
<1>4. rank \in Injection(S, 1..N)
  <2>1. rank \in [S -> 1..N]
    <3>1. \A n \in S : Cardinality(upto(n)) \in 1..N
      <4> SUFFICES ASSUME NEW n \in S PROVE Cardinality(upto(n)) \in 1..N
        OBVIOUS
      <4> QED
        BY <1>2
    <3> HIDE DEF upto, N
    <3> QED
      BY <3>1
  <2>2. \A m, n \in S : rank[m] = rank[n] => m = n
    <3> SUFFICES ASSUME NEW m \in S, NEW n \in S, rank[m] = rank[n] PROVE m = n
      OBVIOUS
    <3>1. rank[m] \in Nat /\ rank[n] \in Nat /\ m \in Nat /\ n \in Nat
      BY <1>1, <1>2
    <3>2. (m < n => rank[m] < rank[n]) /\ (n < m => rank[n] < rank[m])
      BY <1>3
    <3> HIDE DEF rank
    <3> QED
      BY <3>1, <3>2
  <2> HIDE DEF rank, N
  <2> QED
    BY <2>1, <2>2 DEF Injection, IsInjective
<1>5. rank \in Surjection(S, 1..N)
  <2> HIDE DEF rank
  <2> QED
    BY <1>1, <1>4, FS_Injection
<1>6. ASSUME NEW i \in 1..N
      PROVE  inOrder(S)[i] \in S /\ rank[inOrder(S)[i]] = i
  <2>1. \E n \in S : rank[n] = i
    <3> HIDE DEF rank, N
    <3> QED
      BY <1>5 DEF Surjection
  <2>2. \E n \in S : Cardinality(upto(n)) = i
    BY <2>1
  <2>3. inOrder(S)[i] = CHOOSE n \in S : Cardinality(upto(n)) = i
    BY DEF inOrder
  <2>4. PICK o : o = inOrder(S)[i]
    OBVIOUS
  <2> HIDE DEF upto, N
  <2>5. o \in S /\ Cardinality(upto(o)) = i
    BY <2>2, <2>3, <2>4
  <2> QED
    BY <2>4, <2>5
<1> HIDE DEF rank
<1>7. \A n \in S : \E i \in 1..N : inOrder(S)[i] = n
  <2> SUFFICES ASSUME NEW n \in S PROVE inOrder(S)[rank[n]] = n
    BY <1>2
  <2>1. rank[n] \in 1..N
    BY <1>2
  <2>2. inOrder(S)[rank[n]] \in S /\ rank[inOrder(S)[rank[n]]] = rank[n]
    BY <1>6, <2>1
  <2> QED
    BY <1>4, <2>2 DEF Injection, IsInjective
<1>8. \A i, j \in 1..N : i < j => inOrder(S)[i] < inOrder(S)[j]
  <2> SUFFICES ASSUME NEW i \in 1..N, NEW j \in 1..N, i < j PROVE inOrder(S)[i] < inOrder(S)[j]
    OBVIOUS
  <2>1. PICK m, n : m = inOrder(S)[i] /\ n = inOrder(S)[j]
    OBVIOUS
  <2>2. m \in S /\ n \in S /\ rank[m] = i /\ rank[n] = j
    BY <1>6, <2>1
  <2>3. ~(n < m) /\ n # m
    <3>1. n < m => rank[n] < rank[m]
      BY <1>3, <2>2
    <3> QED
      BY <2>2, <3>1, <1>1
  <2>4. m \in Nat /\ n \in Nat
    BY <2>2
  <2> QED
    BY <2>1, <2>3, <2>4
<1> QED
  BY <1>1, <1>6, <1>7, <1>8

----------------------------------------------------------------------------
(* The history.  At and sameWorld speak of log; here they are              *)
(* functions of a history, so that it can be followed as it grows, and so  *)
(* is the revision of a position while none is claimed twice (RevIn).      *)

WrittenIn(l, k, n) == {m \in DOMAIN l : m <= n /\ l[m] \in {k} \cup Rebuilds}
LastIn(l, k, n) == IF WrittenIn(l, k, n) = {} THEN 0 ELSE Max(WrittenIn(l, k, n))
RevIn(l, n) == 1 + Cardinality({m \in DOMAIN l : m <= n /\ l[m] \in {"regen", "reboot"}})
OneIn(l, m, n) == \A r \in DOMAIN l : (m < r /\ r <= n) => l[r] \notin Rebuilds

\* A history one emission or replacement longer.
Longer(l, x, h) ==
    /\ DOMAIN l = 1..Len(l) /\ Len(l) \in Nat /\ DOMAIN h = 1..(Len(l) + 1)
    /\ \A m \in 1..Len(l) : h[m] = l[m]
    /\ h[Len(l) + 1] = x

\* The entry a slice shows is the last of its kind, or a replacement, so far.
LEMMA LastFacts ==
    ASSUME NEW l, NEW L \in Nat, DOMAIN l = 1..L, NEW k, NEW n \in Nat
    PROVE  /\ LastIn(l, k, n) \in Nat /\ LastIn(l, k, n) <= n
           /\ LastIn(l, k, n) # 0 => LastIn(l, k, n) \in 1..L /\ l[LastIn(l, k, n)] \in {k} \cup Rebuilds
           /\ \A m \in 1..L : (m <= n /\ l[m] \in {k} \cup Rebuilds) => m <= LastIn(l, k, n)
<1> DEFINE W == WrittenIn(l, k, n)
<1>1. W \subseteq 1..L /\ W \subseteq Nat
  BY DEF WrittenIn
<1>2. IsFiniteSet(W)
  <2>1. 1 \in Int /\ L \in Int
    OBVIOUS
  <2>2. IsFiniteSet(1..L)
    BY <2>1, FS_Interval
  <2> HIDE DEF W
  <2> QED
    BY <1>1, <2>2, FS_Subset
<1>3. W # {} => Max(W) \in W /\ \A y \in W : y <= Max(W)
  <2> HIDE DEF W
  <2> QED
    BY <1>1, <1>2, MaxFacts
<1>4. LastIn(l, k, n) = IF W = {} THEN 0 ELSE Max(W)
  BY DEF LastIn
<1>5. \A m : m \in W <=> (m \in 1..L /\ m <= n /\ l[m] \in {k} \cup Rebuilds)
  BY DEF WrittenIn
<1>6. PICK x : x = LastIn(l, k, n)
  OBVIOUS
<1> HIDE DEF W
<1>7. CASE W = {}
  BY <1>4, <1>5, <1>7
<1>8. CASE W # {}
  <2>1. x \in W /\ \A y \in W : y <= x
    BY <1>3, <1>4, <1>6, <1>8
  <2>2. x \in 1..L /\ x <= n /\ l[x] \in {k} \cup Rebuilds
    BY <1>5, <2>1
  <2>3. \A m \in 1..L : (m <= n /\ l[m] \in {k} \cup Rebuilds) => m <= x
    BY <1>5, <2>1
  <2>4. x \in Nat
    BY <2>2
  <2> QED
    BY <1>6, <2>2, <2>3, <2>4
<1> QED
  BY <1>7, <1>8

\* What a position shows does not change as the history grows.
LEMMA GrownFacts ==
    ASSUME NEW l, NEW x, NEW h, Longer(l, x, h), NEW n \in 0..Len(l)
    PROVE  /\ \A k : LastIn(h, k, n) = LastIn(l, k, n)
           /\ RevIn(h, n) = RevIn(l, n)
           /\ \A m \in Nat : OneIn(h, m, n) <=> OneIn(l, m, n)
<1>1. /\ \A m \in DOMAIN l : m \in DOMAIN h /\ h[m] = l[m]
      /\ \A m \in DOMAIN h : m <= n => m \in DOMAIN l
  BY DEF Longer
<1>2. \A k : WrittenIn(h, k, n) = WrittenIn(l, k, n)
  BY <1>1 DEF WrittenIn
<1>3. {m \in DOMAIN h : m <= n /\ h[m] \in {"regen", "reboot"}} = {m \in DOMAIN l : m <= n /\ l[m] \in {"regen", "reboot"}}
  BY <1>1
<1>4. \A m \in Nat : OneIn(h, m, n) <=> OneIn(l, m, n)
  BY <1>1 DEF OneIn
<1>5. \A k : LastIn(h, k, n) = LastIn(l, k, n)
  BY <1>2 DEF LastIn
<1>6. RevIn(h, n) = RevIn(l, n)
  BY <1>3 DEF RevIn
<1> QED
  BY <1>4, <1>5, <1>6

\* Revisions only rise along a history.
LEMMA RevFacts ==
    ASSUME NEW l, NEW L \in Nat, DOMAIN l = 1..L, NEW m \in Nat, NEW n \in Nat, m <= n
    PROVE  RevIn(l, m) \in Nat \ {0} /\ RevIn(l, m) <= RevIn(l, n)
<1> DEFINE claims(i) == {r \in DOMAIN l : r <= i /\ l[r] \in {"regen", "reboot"}}
<1>1. IsFiniteSet(claims(n))
  <2>1. 1 \in Int /\ L \in Int
    OBVIOUS
  <2>2. IsFiniteSet(1..L) /\ claims(n) \in SUBSET (1..L)
    BY <2>1, FS_Interval
  <2> HIDE DEF claims
  <2> QED
    BY <2>2, FS_Subset
<1>2. claims(m) \in SUBSET claims(n)
  OBVIOUS
<1>3. RevIn(l, m) = 1 + Cardinality(claims(m)) /\ RevIn(l, n) = 1 + Cardinality(claims(n))
  BY DEF RevIn
<1> HIDE DEF claims
<1>4. IsFiniteSet(claims(m)) /\ Cardinality(claims(m)) <= Cardinality(claims(n))
  BY <1>1, <1>2, FS_Subset
<1>5. Cardinality(claims(m)) \in Nat /\ Cardinality(claims(n)) \in Nat
  BY <1>1, <1>4, FS_CardinalityType
<1> QED
  BY <1>3, <1>4, <1>5

\* A regen or a reboot claims the next revision, anything else keeps it.
LEMMA RevGrown ==
    ASSUME NEW l, NEW x, NEW h, Longer(l, x, h)
    PROVE  RevIn(h, Len(l) + 1) = IF x \in {"regen", "reboot"} THEN RevIn(l, Len(l)) + 1 ELSE RevIn(l, Len(l))
<1> DEFINE A == {m \in DOMAIN l : m <= Len(l) /\ l[m] \in {"regen", "reboot"}}
           B == {m \in DOMAIN h : m <= Len(l) + 1 /\ h[m] \in {"regen", "reboot"}}
<1>1. B = IF x \in {"regen", "reboot"} THEN A \cup {Len(l) + 1} ELSE A
  BY DEF Longer
<1>2. Len(l) + 1 \notin A
  BY DEF Longer
<1>3. IsFiniteSet(A)
  <2>1. 1 \in Int /\ Len(l) \in Int
    BY DEF Longer
  <2>2. IsFiniteSet(1..Len(l)) /\ A \in SUBSET (1..Len(l))
    BY <2>1, FS_Interval DEF Longer
  <2> HIDE DEF A
  <2> QED
    BY <2>2, FS_Subset
<1>4. RevIn(l, Len(l)) = 1 + Cardinality(A) /\ RevIn(h, Len(l) + 1) = 1 + Cardinality(B)
  BY DEF RevIn
<1> HIDE DEF A, B
<1>5. Cardinality(A) \in Nat
  BY <1>3, FS_CardinalityType
<1>6. Cardinality(B) = IF x \in {"regen", "reboot"} THEN Cardinality(A) + 1 ELSE Cardinality(A)
  BY <1>1, <1>2, <1>3, FS_AddElement
<1> QED
  BY <1>4, <1>5, <1>6

----------------------------------------------------------------------------
(* The reducer, field by field.                                            *)

Slices == Kinds \cup {"agents"}
Doc    == [rev : Nat, cursor : Nat, at : Nat]
View   == [agents : Nat, flora : Nat, terrain : Nat \cup {NoGrid},
           pendingFloraOps : Seq(Nat), pendingTerrainDeltas : Seq(Nat),
           snapshotLoaded : BOOLEAN, floraLoaded : BOOLEAN,
           worldRevision : Nat, snapshotCursor : Nat, lastApplied : Nat,
           reacquire : BOOLEAN, paused : BOOLEAN]

\* An entry the cursor lets pass is applied, or queued for a baseline to come.
LEMMA EventFacts ==
    ASSUME NEW s \in View, NEW kind \in Slices, NEW id \in Nat,
           s.snapshotLoaded, id > s.lastApplied, NEW t, t = EVENT(s, kind, id)
    PROVE  /\ t \in View /\ t.lastApplied = id
           /\ (t.snapshotLoaded <=> s.snapshotLoaded) /\ (t.floraLoaded <=> s.floraLoaded)
           /\ t.worldRevision = s.worldRevision /\ t.snapshotCursor = s.snapshotCursor
           /\ (t.reacquire <=> s.reacquire) /\ (t.paused <=> s.paused)
           /\ t.agents = IF ~s.paused /\ kind = "agents" THEN id ELSE s.agents
           /\ t.flora = IF ~s.paused /\ kind = "flora" /\ s.floraLoaded THEN id ELSE s.flora
           /\ t.pendingFloraOps =
                IF ~s.paused /\ kind = "flora" /\ ~s.floraLoaded
                THEN Append(s.pendingFloraOps, id) ELSE s.pendingFloraOps
           /\ t.terrain = IF ~s.paused /\ kind = "terrain" /\ s.terrain # NoGrid
                          THEN id ELSE s.terrain
           /\ t.pendingTerrainDeltas =
                IF ~s.paused /\ kind = "terrain" /\ s.terrain = NoGrid
                THEN Append(s.pendingTerrainDeltas, id) ELSE s.pendingTerrainDeltas
<1>1. s.lastApplied \in Nat /\ ~(~s.snapshotLoaded \/ (s.lastApplied # 0 /\ id <= s.lastApplied))
  BY DEF View
<1>2. EVENT(s, kind, id) = [applyEvent(s, kind, id) EXCEPT !.lastApplied = id]
  BY <1>1 DEF EVENT
<1>3. kind \in {"agents", "flora", "terrain"}
  BY FeedAssumption DEF Slices
<1>4. applyTerrainDeltas(s.terrain, <<id>>) = id
  BY DEF applyTerrainDeltas, replay
<1>5. s.pendingFloraOps \in Seq(Nat) /\ s.pendingTerrainDeltas \in Seq(Nat)
  BY DEF View
<1>6. PICK o, d : o = Append(s.pendingFloraOps, id) /\ d = Append(s.pendingTerrainDeltas, id)
  OBVIOUS
<1>7. o \in Seq(Nat) /\ d \in Seq(Nat)
  BY <1>5, <1>6
<1>8. PICK e : e = applyEvent(s, kind, id)
  OBVIOUS
<1>9. t = [e EXCEPT !.lastApplied = id]
  BY <1>2, <1>8
<1>10. /\ e \in View
       /\ e.snapshotLoaded = s.snapshotLoaded /\ e.floraLoaded = s.floraLoaded
       /\ e.worldRevision = s.worldRevision /\ e.snapshotCursor = s.snapshotCursor
       /\ e.reacquire = s.reacquire /\ e.paused = s.paused
       /\ e.agents = (IF ~s.paused /\ kind = "agents" THEN id ELSE s.agents)
       /\ e.flora = (IF ~s.paused /\ kind = "flora" /\ s.floraLoaded THEN id ELSE s.flora)
       /\ e.pendingFloraOps = (IF ~s.paused /\ kind = "flora" /\ ~s.floraLoaded THEN o ELSE s.pendingFloraOps)
       /\ e.terrain = (IF ~s.paused /\ kind = "terrain" /\ s.terrain # NoGrid THEN id ELSE s.terrain)
       /\ e.pendingTerrainDeltas =
            (IF ~s.paused /\ kind = "terrain" /\ s.terrain = NoGrid THEN d ELSE s.pendingTerrainDeltas)
  <2>1. CASE s.paused
    <3>1. e = s
      BY <1>8, <2>1 DEF applyEvent
    <3> QED
      BY <2>1, <3>1
  <2>2. CASE ~s.paused /\ kind = "agents"
    <3>1. e = [s EXCEPT !.agents = id]
      BY <1>8, <2>2 DEF applyEvent
    <3> QED
      BY <2>2, <3>1 DEF View
  <2>3. CASE ~s.paused /\ kind = "flora" /\ s.floraLoaded
    <3>1. e = [s EXCEPT !.flora = id]
      BY <1>8, <2>3 DEF applyEvent
    <3> QED
      BY <2>3, <3>1 DEF View
  <2>4. CASE ~s.paused /\ kind = "flora" /\ ~s.floraLoaded
    <3>1. e = [s EXCEPT !.pendingFloraOps = o]
      BY <1>6, <1>8, <2>4 DEF applyEvent
    <3> QED
      BY <1>7, <2>4, <3>1 DEF View
  <2>5. CASE ~s.paused /\ kind = "terrain" /\ s.terrain # NoGrid
    <3>1. e = [s EXCEPT !.terrain = id]
      BY <1>4, <1>8, <2>5 DEF applyEvent
    <3> QED
      BY <2>5, <3>1 DEF View
  <2>6. CASE ~s.paused /\ kind = "terrain" /\ s.terrain = NoGrid
    <3>1. e = [s EXCEPT !.pendingTerrainDeltas = d]
      BY <1>6, <1>8, <2>6 DEF applyEvent
    <3> QED
      BY <1>7, <2>6, <3>1 DEF View
  <2> QED
    BY <1>3, <2>1, <2>2, <2>3, <2>4, <2>5, <2>6
<1>11. /\ t \in View /\ t.lastApplied = id
       /\ t.snapshotLoaded = e.snapshotLoaded /\ t.floraLoaded = e.floraLoaded
       /\ t.worldRevision = e.worldRevision /\ t.snapshotCursor = e.snapshotCursor
       /\ t.reacquire = e.reacquire /\ t.paused = e.paused /\ t.agents = e.agents
       /\ t.flora = e.flora /\ t.pendingFloraOps = e.pendingFloraOps
       /\ t.terrain = e.terrain /\ t.pendingTerrainDeltas = e.pendingTerrainDeltas
  BY <1>9, <1>10 DEF View
<1> QED
  BY <1>6, <1>8, <1>10, <1>11

\* A gap closes both baselines and keeps everything else.
LEMMA GapFacts ==
    ASSUME NEW s \in View
    PROVE  /\ StreamGap(s) \in View
           /\ StreamGap(s) = [s EXCEPT !.reacquire = TRUE, !.snapshotLoaded = FALSE, !.floraLoaded = FALSE]
BY DEF StreamGap, View

\* What a snapshot that is taken makes of the view: a switch of revision clears
\* the layers, an absent layer stays empty.
LEMMA SnapshotFacts ==
    ASSUME NEW s \in View, NEW doc \in Doc, NEW agents \in Nat, ~stale(s, doc),
           NEW t, t = SNAPSHOT_LOADED(s, doc, agents),
           NEW sw \in BOOLEAN, sw <=> revisionSwitch(s, doc)
    PROVE  /\ t \in View /\ t.agents = agents /\ t.snapshotLoaded
           /\ t.worldRevision = doc.rev /\ t.snapshotCursor = doc.cursor
           /\ t.lastApplied = IF doc.cursor # 0 THEN doc.cursor
                              ELSE IF sw THEN 0 ELSE s.lastApplied
           /\ (t.reacquire <=> s.reacquire) /\ (t.paused <=> s.paused)
           /\ t.pendingFloraOps = IF sw \/ "flora" \notin Installed THEN <<>> ELSE s.pendingFloraOps
           /\ "flora" \in Installed =>
                /\ t.floraLoaded <=> ~sw /\ s.floraLoaded
                /\ t.flora = IF sw THEN 0 ELSE s.flora
           /\ t.pendingTerrainDeltas =
                IF sw \/ "terrain" \notin Installed THEN <<>> ELSE s.pendingTerrainDeltas
           /\ t.terrain = IF sw \/ "terrain" \notin Installed THEN NoGrid ELSE s.terrain
<1> DEFINE switched == revisionSwitch(s, doc)
           applied == IF doc.cursor # 0 THEN doc.cursor ELSE IF switched THEN 0 ELSE s.lastApplied
           next == [s EXCEPT
                        !.agents = agents, !.snapshotLoaded = TRUE,
                        !.worldRevision = doc.rev, !.snapshotCursor = doc.cursor,
                        !.lastApplied = IF doc.cursor # 0 THEN doc.cursor
                                        ELSE IF switched THEN 0 ELSE @]
           cleared == IF switched THEN clearWorld(next) ELSE next
<1>1. SNAPSHOT_LOADED(s, doc, agents) = flags(cleared)
  BY DEF SNAPSHOT_LOADED
<1>2. doc.rev \in Nat /\ doc.cursor \in Nat /\ applied \in Nat
  BY DEF Doc, View
<1>3. next = [s EXCEPT !.agents = agents, !.snapshotLoaded = TRUE, !.worldRevision = doc.rev,
                       !.snapshotCursor = doc.cursor, !.lastApplied = applied]
  BY DEF View
<1>4. PICK r, c, a : r = doc.rev /\ c = doc.cursor /\ a = applied /\ (sw <=> switched)
  OBVIOUS
<1> HIDE DEF applied, next, switched
<1>5. /\ next \in View /\ next.agents = agents /\ next.snapshotLoaded = TRUE
      /\ next.worldRevision = r /\ next.snapshotCursor = c /\ next.lastApplied = a
      /\ next.reacquire = s.reacquire /\ next.paused = s.paused
      /\ next.pendingFloraOps = s.pendingFloraOps /\ next.pendingTerrainDeltas = s.pendingTerrainDeltas
      /\ next.floraLoaded = s.floraLoaded /\ next.flora = s.flora /\ next.terrain = s.terrain
  BY <1>2, <1>3, <1>4 DEF View
<1>6. <<>> \in Seq(Nat)
  OBVIOUS
<1>7. /\ cleared \in View /\ cleared.agents = agents /\ cleared.snapshotLoaded = TRUE
      /\ cleared.worldRevision = r /\ cleared.snapshotCursor = c /\ cleared.lastApplied = a
      /\ cleared.reacquire = s.reacquire /\ cleared.paused = s.paused
      /\ cleared.pendingFloraOps = (IF sw THEN <<>> ELSE s.pendingFloraOps)
      /\ cleared.pendingTerrainDeltas = (IF sw THEN <<>> ELSE s.pendingTerrainDeltas)
      /\ cleared.floraLoaded = (IF sw THEN FALSE ELSE s.floraLoaded)
      /\ cleared.flora = (IF sw THEN 0 ELSE s.flora)
      /\ cleared.terrain = (IF sw THEN NoGrid ELSE s.terrain)
  <2>1. CASE sw
    <3>1. cleared = [next EXCEPT !.flora = 0, !.floraLoaded = FALSE, !.pendingFloraOps = <<>>,
                                 !.terrain = NoGrid, !.pendingTerrainDeltas = <<>>]
      BY <1>4, <2>1 DEF clearWorld
    <3> HIDE DEF cleared
    <3> QED
      BY <1>5, <1>6, <2>1, <3>1 DEF View
  <2>2. CASE ~sw
    <3>1. cleared = next
      BY <1>4, <2>2
    <3> QED
      BY <1>5, <2>2, <3>1
  <2> QED
    BY <2>1, <2>2
<1> HIDE DEF cleared
<1>8. t = flags(cleared)
  BY <1>1
<1>9. t = [cleared EXCEPT
        !.terrain = IF "terrain" \in Installed THEN @ ELSE NoGrid,
        !.pendingTerrainDeltas = IF "terrain" \in Installed THEN @ ELSE <<>>,
        !.flora = IF "flora" \in Installed THEN @ ELSE 0,
        !.pendingFloraOps = IF "flora" \in Installed THEN @ ELSE <<>>,
        !.floraLoaded = @ \/ "flora" \notin Installed]
  BY <1>8 DEF flags
<1>10. /\ t.agents = cleared.agents /\ t.snapshotLoaded = cleared.snapshotLoaded
       /\ t.worldRevision = cleared.worldRevision /\ t.snapshotCursor = cleared.snapshotCursor
       /\ t.lastApplied = cleared.lastApplied
       /\ t.reacquire = cleared.reacquire /\ t.paused = cleared.paused
       /\ t.pendingFloraOps = (IF "flora" \in Installed THEN cleared.pendingFloraOps ELSE <<>>)
       /\ t.pendingTerrainDeltas = (IF "terrain" \in Installed THEN cleared.pendingTerrainDeltas ELSE <<>>)
       /\ t.terrain = (IF "terrain" \in Installed THEN cleared.terrain ELSE NoGrid)
       /\ t.flora = (IF "flora" \in Installed THEN cleared.flora ELSE 0)
       /\ t.floraLoaded = (cleared.floraLoaded \/ "flora" \notin Installed)
  BY <1>7, <1>9 DEF View
<1>11. t \in View
  <2>1. PICK tr, td, fl, fo, on :
           /\ tr = IF "terrain" \in Installed THEN cleared.terrain ELSE NoGrid
           /\ td = IF "terrain" \in Installed THEN cleared.pendingTerrainDeltas ELSE <<>>
           /\ fl = IF "flora" \in Installed THEN cleared.flora ELSE 0
           /\ fo = IF "flora" \in Installed THEN cleared.pendingFloraOps ELSE <<>>
           /\ on = (cleared.floraLoaded \/ "flora" \notin Installed)
    OBVIOUS
  <2>2. /\ tr \in Nat \cup {NoGrid} /\ td \in Seq(Nat) /\ fl \in Nat
        /\ fo \in Seq(Nat) /\ on \in BOOLEAN
    BY <1>6, <1>7, <2>1 DEF View
  <2>3. t = [cleared EXCEPT !.terrain = tr, !.pendingTerrainDeltas = td, !.flora = fl,
                            !.pendingFloraOps = fo, !.floraLoaded = on]
    BY <1>7, <1>9, <2>1 DEF View
  <2>4. \A u \in View : [u EXCEPT !.terrain = tr, !.pendingTerrainDeltas = td] \in View
    BY <2>2 DEF View
  <2>5. \A u \in View : [u EXCEPT !.flora = fl, !.pendingFloraOps = fo, !.floraLoaded = on] \in View
    BY <2>2 DEF View
  <2>6. PICK u : u = [cleared EXCEPT !.terrain = tr, !.pendingTerrainDeltas = td]
    OBVIOUS
  <2>7. u \in View /\ [u EXCEPT !.flora = fl, !.pendingFloraOps = fo, !.floraLoaded = on] \in View
    BY <1>7, <2>4, <2>5, <2>6
  <2>8. t = [u EXCEPT !.flora = fl, !.pendingFloraOps = fo, !.floraLoaded = on]
    BY <1>7, <2>3, <2>6 DEF View
  <2> QED
    BY <2>7, <2>8
<1>12. "flora" \in Installed => t.floraLoaded = cleared.floraLoaded
  BY <1>7, <1>10 DEF View
<1>13. a = IF doc.cursor # 0 THEN doc.cursor ELSE IF sw THEN 0 ELSE s.lastApplied
  BY <1>4 DEF applied
<1>14. /\ t.agents = agents /\ t.worldRevision = doc.rev /\ t.snapshotCursor = doc.cursor
       /\ t.lastApplied = a /\ t.snapshotLoaded
  BY <1>4, <1>7, <1>10
<1>15. (t.reacquire <=> s.reacquire) /\ (t.paused <=> s.paused)
  BY <1>7, <1>10
<1>16. /\ t.pendingFloraOps = (IF sw \/ "flora" \notin Installed THEN <<>> ELSE s.pendingFloraOps)
       /\ t.pendingTerrainDeltas = (IF sw \/ "terrain" \notin Installed THEN <<>> ELSE s.pendingTerrainDeltas)
       /\ t.terrain = (IF sw \/ "terrain" \notin Installed THEN NoGrid ELSE s.terrain)
  BY <1>7, <1>10
<1>17. "flora" \in Installed => /\ t.floraLoaded <=> ~sw /\ s.floraLoaded
                                /\ t.flora = (IF sw THEN 0 ELSE s.flora)
  BY <1>7, <1>10, <1>12
<1> QED
  BY <1>11, <1>13, <1>14, <1>15, <1>16, <1>17

\* Replaying the queue over a baseline leaves the last operation the baseline
\* does not include, or the baseline.
LEMMA ReplayFacts ==
    ASSUME NEW base \in Nat, NEW ops \in Seq(Nat), NEW c \in Nat
    PROVE  LET r == applyFloraOps(base, ops, c)
           IN  /\ r \in Nat
               /\ \/ r = base /\ \A i \in DOMAIN ops : c # 0 /\ ops[i] <= c
                  \/ \E i \in DOMAIN ops :
                        /\ r = ops[i] /\ (c = 0 \/ ops[i] > c)
                        /\ \A j \in DOMAIN ops : (c = 0 \/ ops[j] > c) => j <= i
<1> DEFINE newer == {i \in DOMAIN ops : c = 0 \/ ops[i] > c}
<1>1. /\ DOMAIN ops = 1..Len(ops) /\ Len(ops) \in Nat
      /\ \A i \in DOMAIN ops : ops[i] \in Nat
  OBVIOUS
<1>2. newer \subseteq Nat /\ newer \subseteq 1..Len(ops)
  BY <1>1
<1>3. IsFiniteSet(newer)
  <2>1. 1 \in Int /\ Len(ops) \in Int
    BY <1>1
  <2>2. IsFiniteSet(1..Len(ops))
    BY <2>1, FS_Interval
  <2> HIDE DEF newer
  <2> QED
    BY <1>2, <2>2, FS_Subset
<1>4. CASE newer = {}
  <2>1. applyFloraOps(base, ops, c) = base
    BY <1>4 DEF applyFloraOps
  <2>2. \A i \in DOMAIN ops : ~(c = 0 \/ ops[i] > c)
    BY <1>4
  <2>3. \A i \in DOMAIN ops : c # 0 /\ ops[i] <= c
    BY <1>1, <2>2
  <2> QED
    BY <2>1, <2>3
<1>5. CASE newer # {}
  <2>1. \E i \in newer : \A j \in newer : j <= i
    <3> HIDE DEF newer
    <3> QED
      BY <1>2, <1>3, <1>5, MaxFacts
  <2>2. PICK i : i = CHOOSE x \in newer : \A j \in newer : j <= x
    OBVIOUS
  <2>3. i \in newer /\ \A j \in newer : j <= i
    <3> HIDE DEF newer
    <3> QED
      BY <2>1, <2>2
  <2>4. applyFloraOps(base, ops, c) = ops[i]
    BY <1>5, <2>2 DEF applyFloraOps
  <2>5. /\ i \in DOMAIN ops /\ (c = 0 \/ ops[i] > c)
        /\ \A j \in DOMAIN ops : (c = 0 \/ ops[j] > c) => j <= i
    BY <2>3
  <2>6. ops[i] \in Nat
    BY <1>1, <2>5
  <2> HIDE DEF newer
  <2> QED
    BY <2>4, <2>5, <2>6
<1> QED
  BY <1>4, <1>5

\* Plants are taken for the revision of the view, with what was queued replayed.
LEMMA FloraFacts ==
    ASSUME NEW s \in View, NEW doc \in Doc, NEW flora \in Nat, s.worldRevision # 0
    PROVE  /\ FLORA_LOADED(s, doc, flora) \in View
           /\ doc.rev # s.worldRevision => FLORA_LOADED(s, doc, flora) = s
           /\ doc.rev = s.worldRevision =>
                FLORA_LOADED(s, doc, flora) =
                   [s EXCEPT !.flora = applyFloraOps(flora, s.pendingFloraOps, doc.cursor),
                             !.pendingFloraOps = <<>>, !.floraLoaded = TRUE]
<1>1. s.pendingFloraOps \in Seq(Nat) /\ doc.cursor \in Nat
  BY DEF View, Doc
<1>2. PICK r : r = applyFloraOps(flora, s.pendingFloraOps, doc.cursor)
  OBVIOUS
<1>3. r \in Nat
  BY <1>1, <1>2, ReplayFacts
<1>4. <<>> \in Seq(Nat)
  OBVIOUS
<1>5. CASE doc.rev # s.worldRevision
  BY <1>5 DEF FLORA_LOADED
<1>6. CASE doc.rev = s.worldRevision
  <2>1. FLORA_LOADED(s, doc, flora) = [s EXCEPT !.flora = r, !.pendingFloraOps = <<>>, !.floraLoaded = TRUE]
    BY <1>2, <1>6 DEF FLORA_LOADED
  <2>2. [s EXCEPT !.flora = r, !.pendingFloraOps = <<>>, !.floraLoaded = TRUE] \in View
    BY <1>3, <1>4 DEF View
  <2> QED
    BY <1>2, <1>6, <2>1, <2>2
<1> QED
  BY <1>5, <1>6

\* A grid is taken with the last delta queued on top.
LEMMA TerrainFacts ==
    ASSUME NEW s \in View, NEW grid \in Nat
    PROVE  /\ TERRAIN_LOADED(s, grid) \in View
           /\ replay(grid, s.pendingTerrainDeltas) \in Nat
           /\ TERRAIN_LOADED(s, grid) =
                [s EXCEPT !.terrain = replay(grid, s.pendingTerrainDeltas), !.pendingTerrainDeltas = <<>>]
<1>1. s.pendingTerrainDeltas \in Seq(Nat)
  BY DEF View
<1>2. PICK r : r = replay(grid, s.pendingTerrainDeltas)
  OBVIOUS
<1>3. r \in Nat
  BY <1>1, <1>2 DEF replay
<1>4. <<>> \in Seq(Nat)
  OBVIOUS
<1>5. TERRAIN_LOADED(s, grid) = [s EXCEPT !.terrain = r, !.pendingTerrainDeltas = <<>>]
  BY <1>2 DEF TERRAIN_LOADED, applyTerrainDeltas
<1>6. [s EXCEPT !.terrain = r, !.pendingTerrainDeltas = <<>>] \in View
  BY <1>3, <1>4 DEF View
<1> QED
  BY <1>2, <1>3, <1>5, <1>6
----------------------------------------------------------------------------
(* What is on its way to the view, and how it relates to the baselines.    *)

Frame == [kind : Slices \cup {"gap"}, id : Nat]
Load  == [state : {"idle", "asked", "answered"}, rev : Nat, cursor : Nat, doc : Doc]

Sent   == {wire[i].id : i \in DOMAIN wire} \ {0}
Unread == IF pos = Closed THEN {} ELSE unread
Coming == Sent \cup Unread
Queue  == {view.pendingFloraOps[i] : i \in DOMAIN view.pendingFloraOps}
\* Every entry that may still reach the view, or waits in it for a baseline.
Held   == retained \cup Sent \cup Queue
\* The baselines stored, fetched and drawn.
Docs ==
    {d \in Doc : d # NoDoc /\ \E b \in Baselines :
                    d = live[b] \/ d = loads[b].doc \/ d = shown[b]}

Typed ==
    /\ log \in Seq(Slices \cup Rebuilds)
    /\ retained \subseteq DOMAIN log /\ \A n \in retained : log[n] \in Slices
    /\ maxDeleted \in Nat /\ lastID \in 0..Len(log) /\ rev \in Nat
    /\ live \in [Baselines -> Doc] /\ shown \in [Baselines -> Doc]
    /\ loads \in [Baselines -> Load]
    /\ view \in View /\ pos \in Nat \cup {Closed} /\ wire \in Seq(Frame)

\* Frames carry entries of the history in its order; a gap travels alone.
Frames ==
    /\ \A i \in DOMAIN wire :
          \/ wire[i] = GapFrame /\ wire = <<GapFrame>> /\ pos = Closed
          \/ wire[i].id \in DOMAIN log /\ wire[i].kind = log[wire[i].id] /\ wire[i].kind \in Slices
    /\ \A i, j \in DOMAIN wire : i < j => wire[i].id < wire[j].id
    /\ pos = Closed => Sent = {} /\ ~tail
    /\ \A n \in Sent : n <= pos

\* The emitter's cursor is not behind what it appended, and is set once
\* anything of its revision has reached the view.
Positions ==
    /\ rev = RevIn(log, Len(log)) /\ view.worldRevision <= rev
    /\ Held \subseteq DOMAIN log /\ view.lastApplied <= Len(log)
    /\ lastID # 0 => \A n \in Held : n <= lastID
    /\ (view.worldRevision = rev /\ (view.lastApplied # 0 \/ Coming # {} \/ Queue # {}))
          => lastID # 0

\* A baseline stands on one side of every entry held: what its cursor does not
\* cover came after the state it shows.
Apart(d) ==
    /\ d.at \in 0..Len(log) /\ d.cursor \in 0..Len(log) /\ d.rev = RevIn(log, d.at)
    /\ d.rev = rev => IF d.cursor # 0 THEN lastID # 0 ELSE lastID = 0 \/ lastID > d.at
    /\ d.cursor # 0 => \A n \in Held : n <= d.cursor \/ n > d.at
    /\ (d.cursor = 0 /\ d.rev = view.worldRevision)
          => /\ \A n \in Coming \cup Queue : n > d.at
             /\ view.lastApplied = 0 \/ view.lastApplied > d.at
\* A baseline without a cursor was written before its revision's first entry.
Before(d, e) == (e.rev = d.rev /\ d.cursor = 0 /\ e.cursor # 0) => e.cursor > d.at

Documents == \A d \in Docs : Apart(d) /\ \A e \in Docs : Before(d, e)

\* A view that is drawn has its snapshot, fetches no other, and is behind all that comes.
Drawn ==
    /\ view.snapshotLoaded => loads["snapshot"].state = "idle" /\ ~view.reacquire
    /\ view.reacquire => loads["snapshot"].state = "idle"
    /\ ~view.snapshotLoaded => pos = Closed /\ wire = <<>>
    /\ view.worldRevision = 0 => view.lastApplied = 0 /\ Queue = {}
    /\ \A b \in Baselines : loads[b].state = "answered" => loads[b].doc # NoDoc
    /\ view.snapshotLoaded =>
          /\ shown["snapshot"] # NoDoc /\ view.snapshotCursor = shown["snapshot"].cursor
          /\ view.lastApplied >= view.snapshotCursor
          /\ \A n \in Coming : n > shown["snapshot"].at /\ n > view.lastApplied

\* The entries under way, unread and waiting, one by one.
LEMMA Members ==
    /\ \A n : n \in Sent <=> \E i \in DOMAIN wire : n = wire[i].id /\ n # 0
    /\ \A n : n \in Unread <=> pos # Closed /\ n \in retained /\ n > pos
    /\ \A n : n \in Queue <=> \E i \in DOMAIN view.pendingFloraOps : n = view.pendingFloraOps[i]
BY DEF Sent, Unread, unread, Queue

\* Reading sends what was not read, in order.
LEMMA ReadFacts ==
    ASSUME Typed, Frames, Read
    PROVE  /\ wire' \in Seq(Frame) /\ pos' \in Nat /\ Frames'
           /\ Sent' = Sent \cup Unread /\ Unread' = {}
<1> DEFINE N == Cardinality(unread)
           o == inOrder(unread)
<1>1. /\ pos \in Nat /\ unread # {} /\ pos' = Max(unread)
      /\ wire' = wire \o [i \in 1..N |-> frame(o[i])]
      /\ UNCHANGED <<log, retained>>
  BY DEF Read, Typed, feedVars
<1>2. unread \subseteq Nat /\ unread \subseteq DOMAIN log /\ IsFiniteSet(unread)
  <2>1. unread \subseteq DOMAIN log /\ DOMAIN log = 1..Len(log) /\ Len(log) \in Nat
    BY DEF Typed, unread
  <2>2. 1 \in Int /\ Len(log) \in Int
    BY <2>1
  <2>3. IsFiniteSet(1..Len(log))
    BY <2>2, FS_Interval
  <2>4. IsFiniteSet(unread)
    BY <2>1, <2>3, FS_Subset
  <2> QED
    BY <2>1, <2>4
<1>3. /\ N \in Nat /\ \A i \in 1..N : o[i] \in unread
      /\ \A n \in unread : \E i \in 1..N : o[i] = n
      /\ \A i, j \in 1..N : i < j => o[i] < o[j]
  BY <1>2, InOrderFacts
<1>4. PICK c, q, g : /\ c = N /\ q = o /\ g = [i \in 1..N |-> frame(o[i])]
  OBVIOUS
<1> HIDE DEF N, o
<1>5. \A n \in unread : /\ n > pos /\ n # 0 /\ n \in DOMAIN log /\ n \in Nat /\ log[n] \in Slices
                        /\ frame(n) = [kind |-> log[n], id |-> n] /\ frame(n) \in Frame
  BY <1>1, <1>2 DEF unread, Typed, frame, Frame
<1>6. /\ c \in Nat /\ DOMAIN g = 1..c
      /\ \A i \in 1..c : q[i] \in unread /\ g[i] = frame(q[i]) /\ g[i].id = q[i] /\ g[i].kind = log[q[i]]
      /\ \A n \in unread : \E i \in 1..c : q[i] = n
      /\ \A i, j \in 1..c : i < j => q[i] < q[j]
      /\ g \in Seq(Frame) /\ Len(g) = c
  BY <1>3, <1>4, <1>5
<1>7. PICK l : l = Len(wire)
  OBVIOUS
<1>8. /\ l \in Nat /\ DOMAIN wire = 1..l /\ wire \in Seq(Frame)
      /\ wire' \in Seq(Frame) /\ DOMAIN wire' = 1..(l + c)
      /\ \A i \in 1..l : wire'[i] = wire[i]
      /\ \A i \in (l + 1)..(l + c) : wire'[i] = g[i - l] /\ i - l \in 1..c
      /\ \A i \in 1..c : wire'[l + i] = g[i] /\ l + i \in 1..(l + c)
  BY <1>1, <1>4, <1>6, <1>7 DEF Typed
<1>9. pos' \in unread /\ pos' \in Nat /\ \A n \in unread : n <= pos'
  BY <1>1, <1>2, MaxFacts
<1>10. \A i \in 1..l : /\ wire[i] # GapFrame
                       /\ wire[i].id \in DOMAIN log /\ wire[i].kind = log[wire[i].id]
                       /\ wire[i].kind \in Slices /\ wire[i].id \in Nat /\ wire[i].id # 0
                       /\ wire[i].id <= pos
  <2> SUFFICES ASSUME NEW i \in 1..l
               PROVE  /\ wire[i] # GapFrame
                      /\ wire[i].id \in DOMAIN log /\ wire[i].kind = log[wire[i].id]
                      /\ wire[i].kind \in Slices /\ wire[i].id \in Nat /\ wire[i].id # 0
                      /\ wire[i].id <= pos
    OBVIOUS
  <2>1. pos # Closed /\ i \in DOMAIN wire
    BY <1>1, <1>8 DEF Closed
  <2>2. wire[i].id \in DOMAIN log /\ wire[i].kind = log[wire[i].id] /\ wire[i].kind \in Slices
    BY <2>1 DEF Frames
  <2>3. "gap" \notin Slices
    BY FeedAssumption DEF Slices
  <2>4. wire[i] # GapFrame
    BY <2>2, <2>3 DEF GapFrame
  <2>5. DOMAIN log = 1..Len(log) /\ Len(log) \in Nat
    BY DEF Typed
  <2>6. wire[i].id \in Nat /\ wire[i].id # 0
    BY <2>2, <2>5
  <2>7. wire[i].id \in Sent
    BY <2>1, <2>6, Members
  <2> QED
    BY <2>2, <2>4, <2>6, <2>7 DEF Frames
<1>11. \A i \in 1..(l + c) : /\ wire'[i].id \in DOMAIN log /\ wire'[i].kind = log[wire'[i].id]
                             /\ wire'[i].kind \in Slices /\ wire'[i].id \in Nat /\ wire'[i].id # 0
                             /\ wire'[i].id <= pos'
  <2> SUFFICES ASSUME NEW i \in 1..(l + c)
               PROVE  /\ wire'[i].id \in DOMAIN log /\ wire'[i].kind = log[wire'[i].id]
                      /\ wire'[i].kind \in Slices /\ wire'[i].id \in Nat /\ wire'[i].id # 0
                      /\ wire'[i].id <= pos'
    OBVIOUS
  <2>1. CASE i \in 1..l
    BY <1>1, <1>5, <1>8, <1>9, <1>10, <2>1
  <2>2. CASE i \in (l + 1)..(l + c)
    <3>1. wire'[i] = g[i - l] /\ i - l \in 1..c
      BY <1>8, <2>2
    <3>2. q[i - l] \in unread /\ wire'[i].id = q[i - l] /\ wire'[i].kind = log[q[i - l]]
      BY <1>6, <3>1
    <3> QED
      BY <1>5, <1>9, <3>2
  <2> QED
    BY <1>6, <1>8, <2>1, <2>2
<1>12. \A i, j \in 1..(l + c) : i < j => wire'[i].id < wire'[j].id
  <2> SUFFICES ASSUME NEW i \in 1..(l + c), NEW j \in 1..(l + c), i < j PROVE wire'[i].id < wire'[j].id
    OBVIOUS
  <2>1. CASE j \in 1..l
    <3>1. i \in 1..l
      BY <1>6, <1>8, <2>1
    <3> QED
      BY <1>8, <2>1, <3>1 DEF Frames
  <2>2. CASE i \in 1..l /\ j \in (l + 1)..(l + c)
    <3>1. PICK x, y : x = wire[i].id /\ y = q[j - l]
      OBVIOUS
    <3>2. wire'[j].id = y /\ y \in unread
      BY <1>6, <1>8, <2>2, <3>1
    <3>3. wire'[i].id = x
      BY <1>8, <2>2, <3>1
    <3>4. x \in Nat /\ x <= pos
      BY <1>10, <2>2, <3>1
    <3>5. y \in Nat /\ y > pos /\ pos \in Nat
      BY <1>1, <1>5, <3>2
    <3> QED
      BY <3>2, <3>3, <3>4, <3>5
  <2>3. CASE i \in (l + 1)..(l + c) /\ j \in (l + 1)..(l + c)
    <3>1. /\ wire'[i].id = q[i - l] /\ wire'[j].id = q[j - l]
          /\ i - l \in 1..c /\ j - l \in 1..c
      BY <1>6, <1>8, <2>3
    <3>2. i - l < j - l
      BY <1>8, <2>3
    <3> QED
      BY <1>6, <3>1, <3>2
  <2> QED
    BY <1>6, <1>8, <2>1, <2>2, <2>3
<1>13. Sent' = Sent \cup Unread
  <2>1. \A n : n \in Sent <=> \E i \in 1..l : n = wire[i].id
    BY <1>8, <1>10, Members
  <2>2. \A n : n \in Sent' <=> \E i \in 1..(l + c) : n = wire'[i].id
    BY <1>8, <1>11 DEF Sent
  <2>3. Unread = unread
    BY <1>1 DEF Unread, Closed
  <2>4. \A n : n \in Sent => n \in Sent'
    <3> SUFFICES ASSUME NEW i \in 1..l PROVE \E j \in 1..(l + c) : wire[i].id = wire'[j].id
      BY <2>1, <2>2
    <3>1. i \in 1..(l + c)
      BY <1>6, <1>8
    <3> QED
      BY <1>8, <3>1
  <2>5. \A n \in unread : n \in Sent'
    <3> SUFFICES ASSUME NEW n \in unread PROVE \E j \in 1..(l + c) : n = wire'[j].id
      BY <2>2
    <3>1. PICK i \in 1..c : q[i] = n
      BY <1>6
    <3>2. l + i \in 1..(l + c) /\ wire'[l + i].id = n
      BY <1>6, <1>8, <3>1
    <3> QED
      BY <3>2
  <2>6. \A i \in 1..(l + c) : wire'[i].id \in Sent \/ wire'[i].id \in unread
    <3> SUFFICES ASSUME NEW i \in 1..(l + c) PROVE wire'[i].id \in Sent \/ wire'[i].id \in unread
      OBVIOUS
    <3>1. i \in 1..l \/ i \in (l + 1)..(l + c)
      BY <1>6, <1>8
    <3>2. CASE i \in 1..l
      BY <1>8, <2>1, <3>2
    <3>3. CASE i \in (l + 1)..(l + c)
      <4>1. i - l \in 1..c /\ wire'[i] = g[i - l]
        BY <1>8, <3>3
      <4>2. q[i - l] \in unread /\ g[i - l].id = q[i - l]
        BY <1>6, <4>1
      <4> QED
        BY <4>1, <4>2
    <3> QED
      BY <3>1, <3>2, <3>3
  <2> QED
    BY <2>2, <2>3, <2>4, <2>5, <2>6
<1>14. Unread' = {}
  <2>1. \A n \in retained : n > pos => n <= pos'
    BY <1>9 DEF unread
  <2>2. \A n \in retained' : ~(n > pos')
    <3> SUFFICES ASSUME NEW n \in retained PROVE ~(n > pos')
      BY <1>1
    <3>1. n \in Nat
      BY DEF Typed
    <3>2. pos' > pos
      BY <1>5, <1>9
    <3> QED
      BY <1>1, <1>9, <2>1, <3>1, <3>2
  <2> QED
    BY <2>2 DEF Unread, unread
<1>15. Frames'
  <2>1. pos' # Closed
    BY <1>9 DEF Closed
  <2>2. \A n \in Sent' : n <= pos'
    BY <1>8, <1>11 DEF Sent
  <2> QED
    BY <1>1, <1>8, <1>11, <1>12, <2>1, <2>2 DEF Frames
<1> QED
  BY <1>8, <1>9, <1>13, <1>14, <1>15
\* Dispatching takes the lowest of what is coming; a gap is the last frame there is.
LEMMA DeliverFacts ==
    ASSUME Typed, Frames, Deliver
    PROVE  /\ wire' \in Seq(Frame) /\ Frames'
           /\ Unread' = Unread /\ Sent' \subseteq Sent
           /\ \/ Head(wire) = GapFrame /\ pos = Closed /\ wire' = <<>>
              \/ /\ Head(wire) # GapFrame /\ Head(wire).id \in Sent
                 /\ Head(wire).id \in DOMAIN log /\ Head(wire).id \in Nat
                 /\ Head(wire).kind = log[Head(wire).id] /\ Head(wire).kind \in Slices
                 /\ Sent' = Sent \ {Head(wire).id}
                 /\ \A n \in Sent' \cup Unread : n > Head(wire).id
<1>1. /\ wire # <<>> /\ wire' = Tail(wire) /\ wire \in Seq(Frame)
      /\ UNCHANGED <<log, retained, pos, tail>>
  BY DEF Deliver, Typed, feedVars
<1>2. PICK l : l = Len(wire)
  OBVIOUS
<1>3. PICK h : h = Head(wire)
  OBVIOUS
<1>4. /\ l \in Nat \ {0} /\ DOMAIN wire = 1..l /\ 1 \in 1..l /\ h = wire[1]
      /\ wire' \in Seq(Frame) /\ DOMAIN wire' = 1..(l - 1)
      /\ \A i \in 1..(l - 1) : wire'[i] = wire[i + 1] /\ i + 1 \in 1..l
      /\ l = 1 => wire' = <<>>
  BY <1>1, <1>2, <1>3
<1>5. \A i \in 1..l : wire[i] \in Frame /\ wire[i].id \in Nat
  <2>1. \A i \in 1..l : wire[i] \in Frame
    BY <1>1, <1>4
  <2>2. \A x \in Frame : x.id \in Nat
    BY DEF Frame
  <2> QED
    BY <2>1, <2>2
<1>6. \A i, j \in 1..l : i < j => wire[i].id < wire[j].id
  BY <1>4 DEF Frames
<1>7. \A i \in 1..l : \/ wire[i] = GapFrame /\ wire = <<GapFrame>> /\ pos = Closed
                      \/ wire[i].id \in DOMAIN log /\ wire[i].kind = log[wire[i].id] /\ wire[i].kind \in Slices
  BY <1>4 DEF Frames
<1>8. \A n : n \in Sent <=> \E i \in 1..l : n = wire[i].id /\ n # 0
  BY <1>4, Members
<1>9. \A n : n \in Sent' <=> \E i \in 1..(l - 1) : n = wire'[i].id /\ n # 0
  BY <1>4 DEF Sent
<1>10. Sent' \subseteq Sent
  <2> SUFFICES ASSUME NEW n \in Sent' PROVE n \in Sent
    OBVIOUS
  <2>1. PICK i \in 1..(l - 1) : n = wire'[i].id /\ n # 0
    BY <1>9
  <2> QED
    BY <1>4, <1>8, <2>1
<1>11. Unread' = Unread
  BY <1>1 DEF Unread, unread
<1>12. Frames'
  <2>1. \A i \in 1..(l - 1) :
          wire'[i].id \in DOMAIN log /\ wire'[i].kind = log[wire'[i].id] /\ wire'[i].kind \in Slices
    <3> SUFFICES ASSUME NEW i \in 1..(l - 1)
                 PROVE  wire[i + 1].id \in DOMAIN log /\ wire[i + 1].kind = log[wire[i + 1].id] /\ wire[i + 1].kind \in Slices
      BY <1>4
    <3>1. wire # <<GapFrame>>
      <4>1. l # 1
        BY <1>4
      <4> QED
        BY <1>2, <4>1
    <3> QED
      BY <1>4, <1>7, <3>1
  <2>2. \A i, j \in 1..(l - 1) : i < j => wire'[i].id < wire'[j].id
    <3> SUFFICES ASSUME NEW i \in 1..(l - 1), NEW j \in 1..(l - 1), i < j PROVE wire[i + 1].id < wire[j + 1].id
      BY <1>4
    <3>1. i + 1 \in 1..l /\ j + 1 \in 1..l /\ i + 1 < j + 1
      BY <1>4
    <3> QED
      BY <1>6, <3>1
  <2>3. (pos = Closed => Sent' = {} /\ ~tail) /\ \A n \in Sent' : n <= pos
    BY <1>10 DEF Frames
  <2> QED
    BY <1>1, <1>4, <2>1, <2>2, <2>3 DEF Frames
<1>13. CASE h = GapFrame
  <2>1. wire = <<GapFrame>> /\ pos = Closed
    <3>1. "gap" \notin Slices /\ h.kind = "gap"
      BY <1>13, FeedAssumption DEF Slices, GapFrame
    <3> QED
      BY <1>4, <1>7, <1>13, <3>1
  <2>2. l = 1
    BY <1>2, <2>1
  <2> QED
    BY <1>3, <1>4, <1>10, <1>11, <1>12, <1>13, <2>1, <2>2
<1>14. CASE h # GapFrame
  <2>1. h.id \in DOMAIN log /\ h.kind = log[h.id] /\ h.kind \in Slices /\ h.id \in Nat
    BY <1>4, <1>5, <1>7, <1>14
  <2>2. DOMAIN log = 1..Len(log) /\ Len(log) \in Nat
    BY DEF Typed
  <2>3. h.id # 0 /\ h.id \in Sent
    BY <1>4, <1>8, <2>1, <2>2
  <2>4. \A i \in 1..(l - 1) : wire'[i].id > h.id
    <3> SUFFICES ASSUME NEW i \in 1..(l - 1) PROVE wire[i + 1].id > h.id
      BY <1>4
    <3>1. i + 1 \in 1..l /\ 1 < i + 1
      BY <1>4
    <3>2. wire[1].id < wire[i + 1].id
      BY <1>4, <1>6, <3>1
    <3> QED
      BY <1>4, <1>5, <3>1, <3>2
  <2>5. \A n \in Sent' : n > h.id /\ n \in Nat
    <3> SUFFICES ASSUME NEW n \in Sent' PROVE n > h.id /\ n \in Nat
      OBVIOUS
    <3>1. PICK i \in 1..(l - 1) : n = wire'[i].id
      BY <1>9
    <3> QED
      BY <1>4, <1>5, <2>4, <3>1
  <2>6. Sent' = Sent \ {h.id}
    <3>1. ASSUME NEW n \in Sent, n # h.id PROVE n \in Sent'
      <4>1. PICK i \in 1..l : n = wire[i].id /\ n # 0
        BY <1>8
      <4>2. i # 1
        BY <1>4, <3>1, <4>1
      <4>3. i - 1 \in 1..(l - 1) /\ (i - 1) + 1 = i
        BY <1>4, <4>2
      <4>4. wire'[i - 1] = wire[i]
        BY <1>4, <4>3
      <4> QED
        BY <1>9, <4>1, <4>3, <4>4
    <3>2. ~(h.id > h.id)
      BY <2>1
    <3> QED
      BY <1>10, <2>5, <3>1, <3>2
  <2>7. \A n \in Unread : n > h.id
    <3> SUFFICES ASSUME NEW n \in Unread PROVE n > h.id
      OBVIOUS
    <3>1. pos # Closed /\ n > pos /\ n \in retained
      BY Members
    <3>2. n \in Nat /\ pos \in Nat /\ h.id <= pos
      BY <2>2, <2>3, <3>1 DEF Typed, Frames
    <3> QED
      BY <2>1, <3>1, <3>2
  <2> QED
    BY <1>3, <1>4, <1>10, <1>11, <1>12, <1>14, <2>1, <2>3, <2>5, <2>6, <2>7
<1> QED
  BY <1>13, <1>14

\* A connection opens at the cursor, at the end of the stream, or tells of a gap.
LEMMA ConnectFacts ==
    ASSUME Typed, Frames, Connect
    PROVE  /\ wire' \in Seq(Frame) /\ pos' \in Nat \cup {Closed} /\ Frames'
           /\ Sent = {} /\ Unread = {} /\ Sent' = {}
           /\ \/ pos' \in Nat /\ Unread' = {}
              \/ wire' = <<GapFrame>> /\ pos' = Closed /\ Unread' = {}
              \/ /\ cursor # 0 /\ ~gapped(cursor) /\ wire' = <<>> /\ pos' = cursor /\ pos' \in Nat
                 /\ Unread' = {n \in retained : n > cursor}
<1>1. /\ view.snapshotLoaded /\ pos = Closed /\ wire = <<>> /\ UNCHANGED <<log, retained, view>>
  BY DEF Connect, feedVars
<1>2. Sent = {} /\ Unread = {}
  BY <1>1, Members
<1>3. cursor \in Nat
  BY DEF cursor, Typed, View
<1>4. ASSUME pos' = sseStartID, wire' = wire
      PROVE  pos' \in Nat /\ Unread' = {}
  <2>1. PICK M : M = retained \cup {maxDeleted, 0}
    OBVIOUS
  <2>2. DOMAIN log = 1..Len(log) /\ Len(log) \in Nat /\ retained \subseteq DOMAIN log /\ maxDeleted \in Nat
    BY DEF Typed
  <2>3. M \subseteq Nat /\ M # {} /\ retained \subseteq M
    BY <2>1, <2>2
  <2>4. IsFiniteSet(M)
    <3>1. 1 \in Int /\ Len(log) \in Int
      BY <2>2
    <3>2. IsFiniteSet(1..Len(log))
      BY <3>1, FS_Interval
    <3>3. IsFiniteSet(retained)
      BY <2>2, <3>2, FS_Subset
    <3>4. IsFiniteSet(retained \cup {maxDeleted})
      BY <3>3, FS_AddElement
    <3>5. IsFiniteSet((retained \cup {maxDeleted}) \cup {0})
      BY <3>4, FS_AddElement
    <3>6. M = (retained \cup {maxDeleted}) \cup {0}
      BY <2>1
    <3> QED
      BY <3>5, <3>6
  <2>5. pos' = Max(M)
    BY <1>4, <2>1 DEF sseStartID
  <2>6. pos' \in Nat /\ \A n \in retained : n <= pos' /\ n \in Nat
    BY <2>3, <2>4, <2>5, MaxFacts
  <2>7. \A n \in retained' : ~(n > pos')
    BY <1>1, <2>6
  <2> QED
    BY <2>6, <2>7 DEF Unread, unread
<1>5. ASSUME wire' = <<>>, pos' \in Nat
      PROVE  wire' \in Seq(Frame) /\ Sent' = {} /\ Frames'
  <2>1. Sent' = {}
    BY <1>5 DEF Sent
  <2>2. pos' # Closed
    BY <1>5 DEF Closed
  <2> QED
    BY <1>5, <2>1, <2>2 DEF Frames
<1>6. CASE pos' = sseStartID /\ wire' = wire
  BY <1>1, <1>2, <1>4, <1>5, <1>6
<1>7. CASE cursor # 0 /\ gapped(cursor) /\ wire' = <<GapFrame>> /\ UNCHANGED <<pos, tail>>
  <2>1. GapFrame \in Frame /\ GapFrame.id = 0
    BY DEF GapFrame, Frame
  <2>2. wire' \in Seq(Frame) /\ DOMAIN wire' = {1} /\ wire'[1] = GapFrame
    BY <1>7, <2>1
  <2>3. Sent' = {}
    BY <2>1, <2>2 DEF Sent
  <2>4. pos' = Closed /\ ~tail'
    BY <1>1, <1>7 DEF Frames
  <2>5. Unread' = {}
    BY <2>4 DEF Unread
  <2>6. Frames'
    BY <1>7, <2>2, <2>3, <2>4 DEF Frames
  <2> QED
    BY <1>2, <1>7, <2>2, <2>3, <2>4, <2>5, <2>6
<1>8. CASE cursor # 0 /\ ~gapped(cursor) /\ pos' = cursor /\ UNCHANGED <<tail, wire>>
  <2>1. pos' \in Nat /\ wire' = <<>>
    BY <1>1, <1>3, <1>8
  <2>2. pos' # Closed
    BY <2>1 DEF Closed
  <2>3. Unread' = {n \in retained : n > cursor}
    BY <1>1, <1>8, <2>2 DEF Unread, unread
  <2> QED
    BY <1>2, <1>5, <1>8, <2>1, <2>3
<1> QED
  BY <1>6, <1>7, <1>8 DEF Connect
\* What is coming is held, and positions are numbers.
LEMMA HeldFacts ==
    ASSUME Typed, Positions
    PROVE  /\ Coming \subseteq Held /\ Queue \subseteq Held /\ retained \subseteq Held
           /\ Held \subseteq Nat /\ Coming \subseteq Nat /\ Queue \subseteq Nat
           /\ DOMAIN log = 1..Len(log) /\ Len(log) \in Nat /\ \A n \in Held : n <= Len(log)
           /\ view.lastApplied \in Nat /\ view.worldRevision \in Nat /\ view.snapshotCursor \in Nat
           /\ lastID \in Nat /\ rev \in Nat
<1>1. DOMAIN log = 1..Len(log) /\ Len(log) \in Nat
  BY DEF Typed
<1>2. Unread \subseteq retained
  BY Members
<1>3. Coming \subseteq Held /\ Queue \subseteq Held /\ retained \subseteq Held
  BY <1>2 DEF Coming, Held
<1>4. view \in View /\ lastID \in Nat /\ rev \in Nat
  BY <1>1 DEF Typed
<1>5. view.lastApplied \in Nat /\ view.worldRevision \in Nat /\ view.snapshotCursor \in Nat
  BY <1>4 DEF View
<1>6. Held \subseteq 1..Len(log)
  BY <1>1 DEF Positions
<1> QED
  BY <1>1, <1>3, <1>4, <1>5, <1>6

\* A document counts positions and revisions, and no later revision than the driver's.
LEMMA DocFacts ==
    ASSUME Typed, Positions, Documents, NEW d \in Docs
    PROVE  /\ d.at \in Nat /\ d.cursor \in Nat /\ d.rev \in Nat \ {0} /\ d.rev <= rev
           /\ d.at <= Len(log) /\ d.cursor <= Len(log)
<1>1. d \in Doc
  BY DEF Docs
<1>2. d.at \in Nat /\ d.cursor \in Nat
  BY <1>1 DEF Doc
<1>3. d.at <= Len(log) /\ d.cursor <= Len(log) /\ d.rev = RevIn(log, d.at)
  BY <1>2, HeldFacts DEF Documents, Apart
<1>4. RevIn(log, d.at) \in Nat \ {0} /\ RevIn(log, d.at) <= RevIn(log, Len(log))
  <2>1. Len(log) \in Nat /\ DOMAIN log = 1..Len(log)
    BY HeldFacts
  <2>2. PICK L : L = Len(log)
    OBVIOUS
  <2> QED
    BY <1>2, <1>3, <2>1, <2>2, RevFacts
<1> QED
  BY <1>2, <1>3, <1>4 DEF Positions

\* Steps in which history and emitter rest: an entry held may be sent, applied,
\* queued or forgotten, and no document is new.
LEMMA QuietKeeps ==
    ASSUME Typed, Typed', Positions, Documents,
           UNCHANGED <<log, rev, lastID>>,
           view'.worldRevision = view.worldRevision,
           view'.lastApplied = view.lastApplied \/ view'.lastApplied \in Coming,
           Queue' \subseteq Queue \cup Coming,
           \A n \in Coming' : n \in Coming \/ (n \in Held /\ view.lastApplied # 0 /\ n > view.lastApplied),
           Held' \subseteq Held, Docs' \subseteq Docs
    PROVE  Positions' /\ Documents'
<1>1. /\ Coming \subseteq Held /\ Queue \subseteq Held
      /\ Held \subseteq Nat
      /\ DOMAIN log = 1..Len(log) /\ Len(log) \in Nat /\ \A n \in Held : n <= Len(log)
      /\ view.lastApplied \in Nat
  BY HeldFacts
<1>2. PICK a, b, w : a = view.lastApplied /\ b = view'.lastApplied /\ w = view.worldRevision
  OBVIOUS
<1>3. a \in Nat /\ (b = a \/ b \in Coming) /\ view'.worldRevision = w
  BY <1>1, <1>2
<1>4. Positions'
  <2>1. b <= Len(log)
    BY <1>1, <1>2, <1>3 DEF Positions
  <2>2. (b # 0 \/ Coming' # {} \/ Queue' # {}) => (a # 0 \/ Coming # {} \/ Queue # {})
    BY <1>2, <1>3
  <2> QED
    BY <1>2, <1>3, <2>1, <2>2 DEF Positions
<1>5. ASSUME NEW d \in Docs PROVE Apart(d)'
  <2>1. Apart(d) /\ d.at \in Nat /\ d.cursor \in Nat
    BY <1>5, DocFacts DEF Documents
  <2>2. ASSUME d.cursor = 0, d.rev = w
        PROVE  /\ \A n \in Coming' \cup Queue' : n > d.at
               /\ b = 0 \/ b > d.at
    <3>1. /\ \A n \in Coming \cup Queue : n > d.at
          /\ a = 0 \/ a > d.at
      BY <1>2, <2>1, <2>2 DEF Apart
    <3>2. ASSUME NEW n \in Coming' PROVE n > d.at
      <4>1. CASE n \in Coming
        BY <3>1, <4>1
      <4>2. CASE n \in Held /\ a # 0 /\ n > a
        BY <1>1, <1>3, <2>1, <3>1, <4>2
      <4> QED
        BY <1>2, <4>1, <4>2
    <3> QED
      BY <1>3, <3>1, <3>2
  <2> QED
    BY <1>2, <1>3, <2>1, <2>2 DEF Apart
<1>6. Documents'
  BY <1>5 DEF Documents, Before
<1> QED
  BY <1>4, <1>6

\* The history grows by an entry that is not appended to the stream: a lost
\* append, or a replacement of the world.
LEMMA GrowKeeps ==
    ASSUME Typed, Typed', Positions, Documents,
           NEW x, log' = Append(log, x),
           \/ rev' = rev /\ lastID' = lastID /\ x \notin {"regen", "reboot"}
           \/ rev' = rev + 1 /\ lastID' \in {lastID, 0} /\ x \in {"regen", "reboot"},
           UNCHANGED view,
           Coming' \subseteq Coming, Held' \subseteq Held, Docs' \subseteq Docs
    PROVE  Positions' /\ Documents'
<1>1. /\ Coming \subseteq Held /\ Queue \subseteq Held
      /\ Held \subseteq Nat
      /\ DOMAIN log = 1..Len(log) /\ Len(log) \in Nat /\ \A n \in Held : n <= Len(log)
      /\ view.lastApplied \in Nat /\ view.worldRevision \in Nat /\ rev \in Nat /\ lastID \in Nat
  BY HeldFacts
<1>2. Queue' = Queue
  BY DEF Queue
<1>3. Longer(log, x, log') /\ Len(log') = Len(log) + 1
  BY <1>1 DEF Longer, Typed
<1>4. PICK L : L = Len(log)
  OBVIOUS
<1>5. rev' = RevIn(log', L + 1)
  <2>1. RevIn(log', Len(log) + 1) = IF x \in {"regen", "reboot"} THEN RevIn(log, Len(log)) + 1 ELSE RevIn(log, Len(log))
    BY <1>3, RevGrown
  <2> QED
    BY <1>4, <2>1 DEF Positions
<1>6. DOMAIN log' = 1..(L + 1)
  BY <1>3, <1>4 DEF Longer
<1>7. Positions'
  <2>1. view.worldRevision <= rev' /\ (view.worldRevision = rev' => rev' = rev)
    BY <1>1 DEF Positions
  <2>2. Held' \subseteq DOMAIN log' /\ view.lastApplied <= L + 1
    <3>1. Held \subseteq 1..(L + 1)
      BY <1>1, <1>4 DEF Positions
    <3> QED
      BY <1>1, <1>4, <1>6, <3>1 DEF Positions
  <2>3. lastID' # 0 => lastID' = lastID
    OBVIOUS
  <2>4. lastID' # 0 => \A n \in Held' : n <= lastID'
    BY <2>3 DEF Positions
  <2>5. (view.worldRevision = rev' /\ (view.lastApplied # 0 \/ Coming' # {} \/ Queue' # {})) => lastID' # 0
    BY <1>1, <1>2, <2>1 DEF Positions
  <2> QED
    BY <1>3, <1>4, <1>5, <2>1, <2>2, <2>4, <2>5 DEF Positions
<1>8. ASSUME NEW d \in Docs PROVE Apart(d)'
  <2>1. /\ Apart(d) /\ d.at \in Nat /\ d.cursor \in Nat /\ d.rev \in Nat /\ d.rev <= rev
        /\ d.at <= L /\ d.cursor <= L
    BY <1>4, <1>8, DocFacts DEF Documents
  <2>2. d.at \in 0..Len(log)
    BY <1>1, <1>4, <2>1
  <2>3. RevIn(log', d.at) = RevIn(log, d.at)
    BY <1>3, <2>2, GrownFacts
  <2>4. d.at \in 0..Len(log') /\ d.cursor \in 0..Len(log')
    BY <1>1, <1>3, <1>4, <2>1
  <2>5. d.rev = rev' => IF d.cursor # 0 THEN lastID' # 0 ELSE lastID' = 0 \/ lastID' > d.at
    BY <1>1, <2>1 DEF Apart
  <2> QED
    BY <1>2, <2>1, <2>3, <2>4, <2>5 DEF Apart
<1>9. Documents'
  BY <1>8 DEF Documents, Before
<1> QED
  BY <1>7, <1>9

\* An entry is appended to history and stream.
LEMMA AppendKeeps ==
    ASSUME Typed, Typed', Positions, Documents,
           NEW x, log' = Append(log, x), x \notin {"regen", "reboot"},
           rev' = rev, lastID' = Len(log) + 1, UNCHANGED view,
           Coming' \subseteq Coming \cup {Len(log) + 1}, Held' \subseteq Held \cup {Len(log) + 1},
           Docs' \subseteq Docs
    PROVE  Positions' /\ Documents'
<1>1. /\ Coming \subseteq Held /\ Queue \subseteq Held
      /\ Held \subseteq Nat
      /\ DOMAIN log = 1..Len(log) /\ Len(log) \in Nat /\ \A n \in Held : n <= Len(log)
      /\ view.lastApplied \in Nat /\ view.worldRevision \in Nat /\ rev \in Nat /\ lastID \in Nat
  BY HeldFacts
<1>2. Queue' = Queue
  BY DEF Queue
<1>3. Longer(log, x, log') /\ Len(log') = Len(log) + 1
  BY <1>1 DEF Longer, Typed
<1>4. PICK L : L = Len(log)
  OBVIOUS
<1>5. rev' = RevIn(log', L + 1)
  <2>1. RevIn(log', Len(log) + 1) = IF x \in {"regen", "reboot"} THEN RevIn(log, Len(log)) + 1 ELSE RevIn(log, Len(log))
    BY <1>3, RevGrown
  <2> QED
    BY <1>4, <2>1 DEF Positions
<1>6. DOMAIN log' = 1..(L + 1)
  BY <1>3, <1>4 DEF Longer
<1>7. \A n \in Held' : n \in 1..(L + 1) /\ (n \in Held \/ n = L + 1)
  BY <1>1, <1>4 DEF Positions
<1>8. Positions'
  <2>1. view.lastApplied <= L + 1
    BY <1>1, <1>4 DEF Positions
  <2> QED
    BY <1>1, <1>3, <1>4, <1>5, <1>6, <1>7, <2>1 DEF Positions
<1>9. ASSUME NEW d \in Docs PROVE Apart(d)'
  <2>1. /\ Apart(d) /\ d.at \in Nat /\ d.cursor \in Nat
        /\ d.at <= L /\ d.cursor <= L
    BY <1>4, <1>9, DocFacts DEF Documents
  <2>2. d.at \in 0..Len(log)
    BY <1>1, <1>4, <2>1
  <2>3. RevIn(log', d.at) = RevIn(log, d.at)
    BY <1>3, <2>2, GrownFacts
  <2>4. d.at \in 0..Len(log') /\ d.cursor \in 0..Len(log')
    BY <1>1, <1>3, <1>4, <2>1
  <2>5. lastID' # 0 /\ lastID' > d.at
    BY <1>1, <1>4, <2>1
  <2>6. d.cursor # 0 => \A n \in Held' : n <= d.cursor \/ n > d.at
    BY <1>1, <1>4, <1>7, <2>1 DEF Apart
  <2>7. ASSUME d.cursor = 0, d.rev = view.worldRevision
        PROVE  \A n \in Coming' \cup Queue' : n > d.at
    <3>1. \A n \in Coming \cup Queue : n > d.at
      BY <2>1, <2>7 DEF Apart
    <3>2. L + 1 > d.at
      BY <1>1, <1>4, <2>1
    <3> QED
      BY <1>2, <1>4, <3>1, <3>2
  <2> QED
    BY <2>1, <2>3, <2>4, <2>5, <2>6, <2>7 DEF Apart
<1>10. Documents'
  BY <1>9 DEF Documents, Before
<1> QED
  BY <1>8, <1>10

\* A baseline is written: it stands apart from everything held, and what its
\* revision's other baselines say of the cursor agrees with it.
LEMMA StampKeeps ==
    ASSUME Typed, Typed', Positions, Documents,
           UNCHANGED <<log, rev, lastID, view>>,
           Coming' = Coming, Held' = Held, Docs' \subseteq Docs \cup {stamp}
    PROVE  Positions' /\ Documents'
<1>1. /\ Coming \subseteq Held /\ Queue \subseteq Held
      /\ Held \subseteq Nat
      /\ DOMAIN log = 1..Len(log) /\ Len(log) \in Nat /\ \A n \in Held : n <= Len(log)
      /\ view.lastApplied \in Nat /\ view.worldRevision \in Nat /\ rev \in Nat /\ lastID \in Nat
  BY HeldFacts
<1>2. Queue' = Queue
  BY DEF Queue
<1>3. Positions'
  BY <1>2 DEF Positions
<1>4. PICK d : d = stamp
  OBVIOUS
<1>5. d.rev = rev /\ d.cursor = lastID /\ d.at = Len(log)
  BY <1>4 DEF stamp, Now
<1>6. Apart(d)'
  <2>1. d.at \in 0..Len(log) /\ d.cursor \in 0..Len(log)
    BY <1>1, <1>5 DEF Typed
  <2>2. d.cursor # 0 => \A n \in Held : n <= d.cursor \/ n > d.at
    BY <1>5 DEF Positions
  <2>3. (d.cursor = 0 /\ d.rev = view.worldRevision) => Coming = {} /\ Queue = {} /\ view.lastApplied = 0
    BY <1>5 DEF Positions
  <2>4. d.rev = RevIn(log, d.at)
    BY <1>5 DEF Positions
  <2> QED
    BY <1>2, <1>5, <2>1, <2>2, <2>3, <2>4 DEF Apart
<1>7. ASSUME NEW e \in Docs PROVE Apart(e)' /\ Before(d, e) /\ Before(e, d)
  <2>1. Apart(e) /\ e.at \in Nat
    BY <1>7, DocFacts DEF Documents
  <2>2. Apart(e)'
    BY <1>2, <2>1 DEF Apart
  <2> QED
    BY <1>5, <2>1, <2>2 DEF Apart, Before
<1>8. Before(d, d) /\ \A e, g \in Docs : Before(e, g)
  BY DEF Before, Documents
<1>9. \A e \in Docs' : e \in Docs \/ e = d
  BY <1>4
<1>10. Documents'
  BY <1>6, <1>7, <1>8, <1>9 DEF Documents, Before
<1> QED
  BY <1>3, <1>10
----------------------------------------------------------------------------
(* The invariant under every step.                                         *)

ViewInv == RevisionInv /\ Typed /\ Frames /\ Positions /\ Documents /\ Drawn

\* A slice's value at a position of the history, as a function of the history.
LEMMA AtIs == \A k, n : At(k, n) = LastIn(log, k, n)
BY DEF At, Written, LastIn, WrittenIn

\* A value shown at a position was written no later.
LEMMA AtNat ==
    ASSUME Typed, NEW k, NEW n \in Nat
    PROVE  At(k, n) \in Nat /\ At(k, n) <= n
<1>1. PICK L : L = Len(log)
  OBVIOUS
<1>2. L \in Nat /\ DOMAIN log = 1..L
  BY <1>1 DEF Typed
<1>3. LastIn(log, k, n) \in Nat /\ LastIn(log, k, n) <= n
  BY <1>2, LastFacts
<1> QED
  BY <1>3, AtIs

\* Where the documents are kept.
LEMMA Kept ==
    ASSUME Typed
    PROVE  /\ "snapshot" \in Baselines
           /\ \A b \in Baselines : /\ live[b] \in Docs \cup {NoDoc} /\ shown[b] \in Docs \cup {NoDoc}
                                   /\ loads[b] \in Load /\ loads[b].doc \in Docs \cup {NoDoc}
<1>1. \A b \in Baselines : live[b] \in Doc /\ shown[b] \in Doc /\ loads[b] \in Load
  BY DEF Typed
<1>2. \A q \in Load : q.doc \in Doc
  BY DEF Load
<1> QED
  BY <1>1, <1>2 DEF Docs, Baselines

\* A step that moves documents about makes none.
LEMMA NoNewDocs ==
    ASSUME Typed, \A b \in Baselines : /\ live'[b] \in Docs \cup {NoDoc}
                                       /\ shown'[b] \in Docs \cup {NoDoc}
                                       /\ loads'[b].doc \in Docs \cup {NoDoc}
    PROVE  Docs' \subseteq Docs
BY DEF Docs

\* The feed touches what is held through the stream alone.
LEMMA FeedSets ==
    ASSUME Typed, NEW S, retained' \subseteq retained \cup S, UNCHANGED <<view, pos, wire>>
    PROVE  Coming' \subseteq Coming \cup S /\ Held' \subseteq Held \cup S
<1>1. Sent' = Sent /\ Queue' = Queue
  BY DEF Sent, Queue
<1>2. Unread' \subseteq Unread \cup S
  BY DEF Unread, unread
<1> QED
  BY <1>1, <1>2 DEF Coming, Held

\* The history grows by an entry or a replacement and keeps its type.
LEMMA GrowTyped ==
    ASSUME Typed, Frames, NEW x \in Slices \cup Rebuilds, log' = Append(log, x),
           \/ retained' \subseteq retained
           \/ x \in Slices /\ retained' \subseteq retained \cup {Len(log) + 1},
           maxDeleted' \in Nat, lastID' \in 0..(Len(log) + 1), rev' \in Nat,
           live' \in [Baselines -> Doc], UNCHANGED clientVars
    PROVE  Typed' /\ Frames'
<1>1. /\ log' \in Seq(Slices \cup Rebuilds) /\ Len(log') = Len(log) + 1 /\ Len(log) \in Nat
      /\ DOMAIN log = 1..Len(log) /\ DOMAIN log' = 1..(Len(log) + 1)
      /\ \A m \in 1..Len(log) : log'[m] = log[m]
      /\ log'[Len(log) + 1] = x
  BY DEF Typed
<1>2. PICK L : L = Len(log)
  OBVIOUS
<1>3. DOMAIN log \subseteq DOMAIN log'
  BY <1>1
<1>4. retained' \subseteq DOMAIN log' /\ \A n \in retained' : log'[n] \in Slices
  <2>1. \A n \in retained : n \in DOMAIN log' /\ log'[n] \in Slices
    BY <1>1, <1>3 DEF Typed
  <2>2. L + 1 \in DOMAIN log' /\ log'[L + 1] = x
    BY <1>1, <1>2
  <2> QED
    BY <1>2, <2>1, <2>2
<1>5. Typed'
  <2>1. lastID' \in 0..Len(log')
    BY <1>1
  <2>2. /\ shown' \in [Baselines -> Doc] /\ loads' \in [Baselines -> Load]
        /\ view' \in View /\ pos' \in Nat \cup {Closed} /\ wire' \in Seq(Frame)
    BY DEF Typed, clientVars
  <2> QED
    BY <1>1, <1>4, <2>1, <2>2 DEF Typed
<1>6. Frames'
  <2>1. wire' = wire /\ pos' = pos /\ tail' = tail /\ Sent' = Sent
    BY DEF clientVars, Sent
  <2>2. ASSUME NEW i \in DOMAIN wire
        PROVE  \/ wire[i] = GapFrame /\ wire = <<GapFrame>> /\ pos = Closed
               \/ wire[i].id \in DOMAIN log' /\ wire[i].kind = log'[wire[i].id] /\ wire[i].kind \in Slices
    BY <1>1, <1>3 DEF Frames
  <2> QED
    BY <2>1, <2>2 DEF Frames
<1> QED
  BY <1>5, <1>6

\* A new entry is ahead of everything the view shows.
LEMMA FeedDrawn ==
    ASSUME Typed, Positions, Documents, Drawn, UNCHANGED clientVars,
           Coming' \subseteq Coming \cup {Len(log) + 1}
    PROVE  Drawn'
<1>1. UNCHANGED <<view, pos, wire, loads, shown>> /\ Queue' = Queue
  BY DEF clientVars, Queue
<1>2. ASSUME view.snapshotLoaded, NEW n \in Coming'
      PROVE  n > shown["snapshot"].at /\ n > view.lastApplied
  <2>1. CASE n \in Coming
    BY <1>2, <2>1 DEF Drawn
  <2>2. CASE n = Len(log) + 1
    <3>1. shown["snapshot"] \in Docs
      BY <1>2, Kept DEF Drawn
    <3>2. shown["snapshot"].at \in Nat /\ shown["snapshot"].at <= Len(log)
      BY <3>1, DocFacts
    <3> QED
      BY <2>2, <3>2, HeldFacts DEF Positions
  <2> QED
    BY <2>1, <2>2
<1> QED
  BY <1>1, <1>2 DEF Drawn

\* The producer's steps: emission, flush, and replacement of the world.
LEMMA FeedKeepsView ==
    ASSUME ViewInv, Feed, ~reused'
    PROVE  ViewInv'
<1>1. /\ UNCHANGED clientVars /\ UNCHANGED <<view, pos, wire, loads, shown>>
      /\ Typed /\ Frames /\ Positions /\ Documents /\ Drawn
  BY DEF Feed, ViewInv, clientVars
<1>2. RevisionInv'
  BY FeedKeepsRevision DEF ViewInv
<1>3. /\ Len(log) \in Nat /\ DOMAIN log = 1..Len(log) /\ lastID \in Nat /\ rev \in Nat
      /\ lastID <= Len(log)
  BY <1>1, HeldFacts DEF Typed
<1>4. \A b \in Baselines : shown[b] \in Docs \cup {NoDoc} /\ loads[b].doc \in Docs \cup {NoDoc}
                           /\ live[b] \in Docs \cup {NoDoc}
  BY <1>1, Kept
<1>5. NoDoc \in Doc
  BY DEF NoDoc, Doc
<1>6. CASE Emitting
  <2>1. PICK k \in Kinds : Emit(k)
    BY <1>6 DEF Emitting
  <2>2. /\ log' = Append(log, k) /\ rev' = rev /\ live' = live
        /\ k \in Slices \cup Rebuilds /\ k \in Slices /\ k \notin {"regen", "reboot"}
    BY <2>1, FeedAssumption DEF Emit, Slices
  <2>3. Docs' \subseteq Docs
    BY <1>1, <1>4, <2>2, NoNewDocs
  <2>4. live' \in [Baselines -> Doc]
    BY <1>1, <2>2 DEF Typed
  <2>5. CASE XAdd(Now + 1) /\ lastID' = Now + 1
    <3>1. retained' \subseteq retained \cup {Len(log) + 1} /\ maxDeleted' \in Nat
      <4>1. PICK cut \in {0} \cup (IF Trims THEN retained ELSE {}) :
               LET kept == {n \in retained : n > cut} \cup {Now + 1}
               IN  /\ retained' = kept
                   /\ maxDeleted' = IF cut = 0 THEN maxDeleted ELSE cut
        BY <2>5 DEF XAdd
      <4>2. cut \in Nat
        BY <1>1, <1>3, <4>1 DEF Typed
      <4> QED
        BY <1>1, <4>1, <4>2 DEF Now, Typed
    <3>2. lastID' = Len(log) + 1 /\ lastID' \in 0..(Len(log) + 1)
      BY <1>3, <2>5 DEF Now
    <3>3. Typed' /\ Frames'
      BY <1>1, <1>3, <2>2, <2>4, <3>1, <3>2, GrowTyped
    <3>4. Coming' \subseteq Coming \cup {Len(log) + 1} /\ Held' \subseteq Held \cup {Len(log) + 1}
      BY <1>1, <3>1, FeedSets
    <3>5. Positions' /\ Documents'
      BY <1>1, <2>2, <2>3, <3>2, <3>3, <3>4, AppendKeeps
    <3> QED
      BY <1>1, <1>2, <3>3, <3>4, <3>5, FeedDrawn DEF ViewInv
  <2>6. CASE UNCHANGED <<retained, maxDeleted, lastID>>
    <3>1. lastID' \in 0..(Len(log) + 1) /\ maxDeleted' \in Nat
      BY <1>1, <1>3, <2>6 DEF Typed
    <3>2. Typed' /\ Frames'
      BY <1>1, <1>3, <2>2, <2>4, <2>6, <3>1, GrowTyped
    <3>3. Coming' \subseteq Coming \cup {} /\ Held' \subseteq Held \cup {}
      BY <1>1, <2>6, FeedSets
    <3>4. Positions' /\ Documents'
      BY <1>1, <2>2, <2>3, <2>6, <3>2, <3>3, GrowKeeps
    <3> QED
      BY <1>1, <1>2, <3>2, <3>3, <3>4, FeedDrawn DEF ViewInv
  <2> QED
    BY <2>1, <2>5, <2>6 DEF Emit
<1>7. CASE BeginFlush \/ WriteBaseline \/ Publish
  <2>1. UNCHANGED <<log, retained, maxDeleted, lastID, rev>>
    BY <1>7 DEF BeginFlush, WriteBaseline, Publish
  <2>2. live' = live \/ live' = [live EXCEPT ![Head(flush)] = stamp]
    BY <1>7 DEF BeginFlush, WriteBaseline, Publish
  <2>3. stamp \in Doc
    BY <1>3 DEF stamp, Now, Doc
  <2>4. live' \in [Baselines -> Doc] /\ \A b \in Baselines : live'[b] \in {live[b], stamp}
    BY <1>1, <2>2, <2>3 DEF Typed
  <2>5. Typed' /\ Frames'
    <3>1. Typed'
      BY <1>1, <2>1, <2>4 DEF Typed
    <3>2. Frames'
      BY <1>1, <2>1 DEF Frames, Sent, clientVars
    <3> QED
      BY <3>1, <3>2
  <2>6. Sent' = Sent /\ Unread' = Unread /\ Queue' = Queue
    BY <1>1, <2>1 DEF Sent, Unread, unread, Queue
  <2>7. Coming' = Coming /\ Held' = Held
    BY <2>1, <2>6 DEF Coming, Held
  <2>8. Docs' \subseteq Docs \cup {stamp}
    BY <1>1, <1>4, <2>4 DEF Docs
  <2>9. Positions' /\ Documents'
    BY <1>1, <2>1, <2>5, <2>7, <2>8, StampKeeps
  <2> QED
    BY <1>1, <1>2, <2>5, <2>7, <2>9, FeedDrawn DEF ViewInv
<1>8. CASE Regen \/ Restart \/ Reboot
  <2>1. PICK how \in Rebuilds : /\ log' = Append(log, how) /\ how \in {"regen", "restart", "reboot"}
                                /\ \/ rev' = rev /\ lastID' = lastID /\ how \notin {"regen", "reboot"}
                                   \/ rev' = rev + 1 /\ lastID' \in {lastID, 0} /\ how \in {"regen", "reboot"}
    <3>1. CASE Regen \/ Restart
      BY <3>1 DEF Regen, Restart, Rebuild
    <3>2. CASE Reboot
      <4>1. /\ rev \in Nat \ {0} /\ published \in Nat /\ (reused \/ published <= rev)
            /\ (rev' = published + 1 \/ rev' = 1) /\ (reused' <=> (reused \/ rev' <= rev))
        BY <3>2 DEF Reboot, ViewInv, RevisionInv, StoreTagged
      <4>2. published <= rev /\ ~(rev' <= rev)
        BY <4>1
      <4>3. rev' = rev + 1
        BY <4>1, <4>2
      <4> QED
        BY <3>2, <4>3 DEF Reboot, Rebuild
    <3> QED
      BY <1>8, <3>1, <3>2
  <2>2. /\ retained' \subseteq retained /\ maxDeleted' \in Nat
        /\ \A b \in Baselines : live'[b] \in {live[b], NoDoc}
        /\ live' \in [Baselines -> Doc]
    BY <1>1, <1>5, <1>8 DEF Regen, Restart, Reboot, Typed
  <2>3. Docs' \subseteq Docs
    BY <1>1, <1>4, <2>2, NoNewDocs
  <2>4. lastID' \in 0..(Len(log) + 1) /\ rev' \in Nat
    BY <1>3, <2>1
  <2>5. how \in Slices \cup Rebuilds
    BY <2>1
  <2>6. Typed' /\ Frames'
    BY <1>1, <2>1, <2>2, <2>4, <2>5, GrowTyped
  <2>7. Coming' \subseteq Coming \cup {} /\ Held' \subseteq Held \cup {}
    BY <1>1, <2>2, FeedSets
  <2>8. Positions' /\ Documents'
    BY <1>1, <2>1, <2>3, <2>6, <2>7, GrowKeeps
  <2> QED
    BY <1>1, <1>2, <2>6, <2>7, <2>8, FeedDrawn DEF ViewInv
<1> QED
  BY <1>6, <1>7, <1>8 DEF Feed, Produce
\* The server's steps and the lost connection.
LEMMA ServerKeepsView ==
    ASSUME ViewInv, Server
    PROVE  ViewInv'
<1>1. Typed /\ Frames /\ Positions /\ Documents /\ Drawn
  BY DEF ViewInv
<1>2. UNCHANGED feedVars /\ UNCHANGED <<view, loads, seen, shown>>
  BY DEF Server, Connect, BlockAtEnd, Read, Drop
<1>3. UNCHANGED <<log, retained, lastID, rev, live>> /\ Queue' = Queue
  BY <1>2 DEF feedVars, Queue
<1>4. RevisionInv'
  BY ServerKeepsRevision DEF ViewInv
<1>5. Docs' \subseteq Docs
  BY <1>1, <1>2, <1>3, Kept, NoNewDocs
<1>6. /\ Coming \subseteq Held /\ retained \subseteq Held /\ Held \subseteq Nat
      /\ view.lastApplied \in Nat /\ view.snapshotCursor \in Nat
  BY <1>1, HeldFacts
<1>7. SUFFICES /\ Frames' /\ wire' \in Seq(Frame) /\ pos' \in Nat \cup {Closed}
               /\ Sent' \subseteq Coming
               /\ \A n \in Coming' : \/ n \in Coming
                                     \/ /\ n \in retained /\ view.lastApplied # 0 /\ n > view.lastApplied
                                        /\ n > shown["snapshot"].at
               /\ ~view.snapshotLoaded => pos' = Closed /\ wire' = <<>>
  <2>1. Typed'
    BY <1>1, <1>2, <1>3, <1>7 DEF Typed, feedVars
  <2>2. Held' \subseteq Held
    BY <1>3, <1>6, <1>7 DEF Held
  <2>3. \A n \in Coming' : n \in Coming \/ (n \in Held /\ view.lastApplied # 0 /\ n > view.lastApplied)
    BY <1>6, <1>7
  <2>4. Positions' /\ Documents'
    BY <1>1, <1>2, <1>3, <1>5, <2>1, <2>2, <2>3, QuietKeeps
  <2>5. Drawn'
    BY <1>1, <1>2, <1>3, <1>7 DEF Drawn
  <2> QED
    BY <1>4, <1>7, <2>1, <2>4, <2>5 DEF ViewInv
<1>8. CASE Connect
  <2>1. /\ wire' \in Seq(Frame) /\ pos' \in Nat \cup {Closed} /\ Frames' /\ Sent' = {}
        /\ \/ Unread' = {}
           \/ cursor # 0 /\ Unread' = {n \in retained : n > cursor}
    BY <1>1, <1>8, ConnectFacts
  <2>2. view.snapshotLoaded
    BY <1>8 DEF Connect
  <2>3. /\ shown["snapshot"] \in Docs /\ view.snapshotCursor = shown["snapshot"].cursor
        /\ view.lastApplied >= view.snapshotCursor
        /\ view.worldRevision = shown["snapshot"].rev
    BY <1>1, <2>2, Kept DEF Drawn, ViewInv, RevisionInv, SnapshotTagged
  <2>4. cursor # 0 => cursor = view.lastApplied
    BY <1>6, <2>3 DEF cursor
  <2>5. ASSUME cursor # 0, NEW n \in retained, n > cursor
        PROVE  n > shown["snapshot"].at
    <3>1. PICK d : d = shown["snapshot"]
      OBVIOUS
    <3>2. d.at \in Nat /\ d.cursor \in Nat /\ Apart(d)
      BY <1>1, <2>3, <3>1, DocFacts DEF Documents
    <3>3. n \in Nat /\ n \in Held
      BY <1>6
    <3>4. CASE d.cursor # 0
      BY <1>6, <2>3, <2>4, <2>5, <3>1, <3>2, <3>3, <3>4 DEF Apart
    <3>5. CASE d.cursor = 0
      <4>1. view.lastApplied > d.at
        BY <1>6, <2>3, <2>4, <2>5, <3>1, <3>2, <3>5 DEF Apart
      <4> QED
        BY <1>6, <2>4, <2>5, <3>1, <3>2, <3>3, <4>1
    <3> QED
      BY <3>1, <3>4, <3>5
  <2>6. \A n \in Coming' : n \in retained /\ view.lastApplied # 0 /\ n > view.lastApplied /\ n > shown["snapshot"].at
    BY <2>1, <2>4, <2>5 DEF Coming
  <2> QED
    BY <2>1, <2>2, <2>6
<1>9. CASE BlockAtEnd
  <2>1. /\ pos # Closed /\ pos \in Nat /\ wire' = wire /\ UNCHANGED tail
        /\ pos' = sseStartID /\ pos < sseStartID
    BY <1>1, <1>9 DEF BlockAtEnd, Frames, Typed
  <2>2. PICK M : M = retained \cup {maxDeleted, 0}
    OBVIOUS
  <2>3. DOMAIN log = 1..Len(log) /\ Len(log) \in Nat /\ retained \subseteq DOMAIN log /\ maxDeleted \in Nat
    BY <1>1 DEF Typed
  <2>4. M \subseteq Nat /\ M # {} /\ retained \subseteq M
    BY <2>2, <2>3
  <2>5. IsFiniteSet(M)
    <3>1. 1 \in Int /\ Len(log) \in Int
      BY <2>3
    <3>2. IsFiniteSet(1..Len(log))
      BY <3>1, FS_Interval
    <3>3. IsFiniteSet(retained)
      BY <2>3, <3>2, FS_Subset
    <3>4. IsFiniteSet(retained \cup {maxDeleted})
      BY <3>3, FS_AddElement
    <3>5. IsFiniteSet((retained \cup {maxDeleted}) \cup {0})
      BY <3>4, FS_AddElement
    <3>6. M = (retained \cup {maxDeleted}) \cup {0}
      BY <2>2
    <3> QED
      BY <3>5, <3>6
  <2>6. pos' = Max(M)
    BY <2>1, <2>2 DEF sseStartID
  <2>7. pos' \in Nat /\ pos' > pos /\ \A n \in retained : n <= pos' /\ n \in Nat
    BY <2>1, <2>4, <2>5, <2>6, MaxFacts
  <2>8. Sent' = Sent /\ Sent \subseteq Nat
    BY <1>6, <2>1 DEF Sent, Coming
  <2>9. pos' # Closed
    BY <2>7 DEF Closed
  <2>10. Unread' = {}
    <3>1. \A n \in retained' : ~(n > pos')
      BY <1>3, <2>7
    <3> QED
      BY <3>1 DEF Unread, unread
  <2>11. \A n \in Sent : n <= pos'
    BY <1>1, <2>1, <2>7, <2>8 DEF Frames
  <2>12. Frames'
    BY <1>1, <1>3, <2>1, <2>8, <2>9, <2>11 DEF Frames
  <2>13. view.snapshotLoaded
    BY <1>1, <2>1 DEF Drawn
  <2> QED
    BY <1>1, <2>1, <2>7, <2>8, <2>10, <2>12, <2>13 DEF Coming, Typed
<1>10. CASE Read
  <2>1. /\ wire' \in Seq(Frame) /\ pos' \in Nat /\ Frames'
        /\ Sent' = Sent \cup Unread /\ Unread' = {}
    BY <1>1, <1>10, ReadFacts
  <2>2. view.snapshotLoaded
    BY <1>1, <1>10 DEF Read, Drawn
  <2> QED
    BY <2>1, <2>2 DEF Coming
<1>11. CASE Drop
  <2>1. pos' = Closed /\ wire' = <<>> /\ ~tail'
    BY <1>11 DEF Drop
  <2>2. Sent' = {} /\ Unread' = {}
    BY <2>1 DEF Sent, Unread
  <2>3. Frames'
    BY <2>1, <2>2 DEF Frames
  <2> QED
    BY <2>1, <2>2, <2>3 DEF Coming
<1> QED
  BY <1>8, <1>9, <1>10, <1>11 DEF Server

\* Dispatching a frame.
LEMMA DeliverKeepsView ==
    ASSUME ViewInv, Deliver
    PROVE  ViewInv'
<1>1. Typed /\ Frames /\ Positions /\ Documents /\ Drawn /\ view \in View
  BY DEF ViewInv, Typed
<1>2. /\ UNCHANGED <<log, retained, lastID, rev, live, loads, shown, pos>>
      /\ UNCHANGED feedVars /\ wire # <<>> /\ view' = dispatch(Head(wire))
  BY DEF Deliver, feedVars
<1>3. /\ wire' \in Seq(Frame) /\ Frames'
      /\ Unread' = Unread /\ Sent' \subseteq Sent
      /\ \/ Head(wire) = GapFrame /\ pos = Closed /\ wire' = <<>>
         \/ /\ Head(wire) # GapFrame /\ Head(wire).id \in Sent
            /\ Head(wire).id \in DOMAIN log /\ Head(wire).id \in Nat
            /\ Head(wire).kind = log[Head(wire).id] /\ Head(wire).kind \in Slices
            /\ \A n \in Sent' \cup Unread : n > Head(wire).id
  BY <1>1, DeliverFacts
<1>4. RevisionInv'
  BY DeliverKeepsRevision DEF ViewInv
<1>5. Docs' \subseteq Docs
  BY <1>1, <1>2, Kept, NoNewDocs
<1>6. Coming' \subseteq Coming /\ Coming \subseteq Held /\ Sent \subseteq Coming /\ Held \subseteq Nat
  BY <1>1, <1>3, HeldFacts DEF Coming
<1>7. view.snapshotLoaded
  BY <1>1, <1>2 DEF Drawn
<1>8. /\ loads["snapshot"].state = "idle" /\ ~view.reacquire
      /\ shown["snapshot"] # NoDoc /\ view.snapshotCursor = shown["snapshot"].cursor
      /\ view.lastApplied >= view.snapshotCursor
      /\ \A n \in Coming : n > shown["snapshot"].at /\ n > view.lastApplied
  BY <1>1, <1>7 DEF Drawn
<1>9. view.worldRevision # 0
  BY <1>7 DEF ViewInv, RevisionInv, SnapshotTagged
<1>10. CASE Head(wire) = GapFrame /\ pos = Closed /\ wire' = <<>>
  <2>1. view' = [view EXCEPT !.reacquire = TRUE, !.snapshotLoaded = FALSE, !.floraLoaded = FALSE]
        /\ view' \in View
    BY <1>1, <1>2, <1>10, GapFacts DEF dispatch
  <2>2. /\ view'.reacquire /\ ~view'.snapshotLoaded /\ view'.worldRevision = view.worldRevision
        /\ view'.lastApplied = view.lastApplied /\ view'.pendingFloraOps = view.pendingFloraOps
    BY <1>1, <2>1 DEF View
  <2>3. Queue' = Queue
    BY <2>2 DEF Queue
  <2>4. Typed'
    BY <1>1, <1>2, <1>3, <2>1 DEF Typed, feedVars
  <2>5. Held' \subseteq Held
    BY <1>2, <1>3, <2>3 DEF Held
  <2>6. Positions' /\ Documents'
    BY <1>1, <1>2, <1>5, <1>6, <2>2, <2>3, <2>4, <2>5, QuietKeeps
  <2>7. Drawn'
    BY <1>1, <1>2, <1>8, <1>9, <1>10, <2>2 DEF Drawn
  <2> QED
    BY <1>3, <1>4, <2>4, <2>6, <2>7 DEF ViewInv
<1>11. CASE Head(wire) # GapFrame
  <2>1. PICK id, kind : id = Head(wire).id /\ kind = Head(wire).kind
    OBVIOUS
  <2>2. id \in Sent /\ id \in Nat /\ kind \in Slices /\ \A n \in Coming' : n > id
    BY <1>3, <1>11, <2>1 DEF Coming
  <2>3. id > view.lastApplied /\ view' = EVENT(view, kind, id)
    BY <1>2, <1>6, <1>8, <1>11, <2>1, <2>2 DEF dispatch
  <2>4. /\ view' \in View /\ view'.lastApplied = id
        /\ (view'.snapshotLoaded <=> view.snapshotLoaded)
        /\ view'.worldRevision = view.worldRevision /\ view'.snapshotCursor = view.snapshotCursor
        /\ (view'.reacquire <=> view.reacquire)
        /\ \/ view'.pendingFloraOps = view.pendingFloraOps
           \/ view'.pendingFloraOps = Append(view.pendingFloraOps, id)
    <3>1. PICK s : s = view
      OBVIOUS
    <3>2. s \in View /\ s.snapshotLoaded /\ id > s.lastApplied
      BY <1>1, <1>7, <2>3, <3>1
    <3>6. PICK t : t = EVENT(s, kind, id)
      OBVIOUS
    <3>3. /\ t \in View /\ t.lastApplied = id
          /\ (t.snapshotLoaded <=> s.snapshotLoaded)
          /\ t.worldRevision = s.worldRevision /\ t.snapshotCursor = s.snapshotCursor
          /\ (t.reacquire <=> s.reacquire)
          /\ t.pendingFloraOps =
               IF ~s.paused /\ kind = "flora" /\ ~s.floraLoaded
               THEN Append(s.pendingFloraOps, id) ELSE s.pendingFloraOps
      BY <2>2, <3>2, <3>6, EventFacts
    <3>4. view' = t
      BY <2>3, <3>1, <3>6
    <3> QED
      BY <3>1, <3>3, <3>4
  <2>5. Queue' \subseteq Queue \cup {id}
    <3>1. CASE view'.pendingFloraOps = view.pendingFloraOps
      BY <3>1 DEF Queue
    <3>2. CASE view'.pendingFloraOps = Append(view.pendingFloraOps, id)
      <4>1. PICK q : q = view.pendingFloraOps
        OBVIOUS
      <4>2. q \in Seq(Nat)
        BY <1>1, <4>1 DEF View
      <4>3. PICK r : r = Append(q, id)
        OBVIOUS
      <4>4. \A i \in DOMAIN r : r[i] = id \/ (i \in DOMAIN q /\ r[i] = q[i])
        BY <4>2, <4>3
      <4>5. view'.pendingFloraOps = r
        BY <3>2, <4>1, <4>3
      <4> QED
        BY <4>1, <4>4, <4>5 DEF Queue
    <3> QED
      BY <2>4, <3>1, <3>2
  <2>6. Typed'
    BY <1>1, <1>2, <1>3, <2>4 DEF Typed, feedVars
  <2>7. Held' \subseteq Held
    BY <1>2, <1>3, <2>2, <2>5 DEF Held
  <2>8. id \in Coming /\ Queue' \subseteq Queue \cup Coming
    BY <1>6, <2>2, <2>5
  <2>9. Positions' /\ Documents'
    BY <1>1, <1>2, <1>5, <1>6, <2>4, <2>6, <2>7, <2>8, QuietKeeps
  <2>10. Drawn'
    <3>1. id >= view.snapshotCursor
      BY <1>1, <1>8, <2>2, <2>3, HeldFacts
    <3> QED
      BY <1>1, <1>2, <1>6, <1>7, <1>8, <1>9, <2>2, <2>4, <3>1 DEF Drawn
  <2> QED
    BY <1>3, <1>4, <2>6, <2>9, <2>10 DEF ViewInv
<1> QED
  BY <1>3, <1>10, <1>11
\* Asking, answering, the effects and the pause button.
LEMMA AskingKeepsView ==
    ASSUME ViewInv, Refetch \/ (\E b \in Baselines : Answer(b)) \/ RunEffects \/ TogglePause
    PROVE  ViewInv'
<1>1. /\ Typed /\ Frames /\ Positions /\ Documents /\ Drawn /\ view \in View
      /\ loads \in [Baselines -> Load]
  BY DEF ViewInv, Typed
<1>2. UNCHANGED feedVars /\ UNCHANGED <<log, retained, maxDeleted, lastID, rev, live, shown, pos, tail, wire>>
  BY DEF Refetch, Answer, RunEffects, TogglePause, feedVars
<1>3. RevisionInv'
  BY AskingKeepsRevision DEF ViewInv
<1>4. /\ view' \in View /\ view'.worldRevision = view.worldRevision /\ view'.lastApplied = view.lastApplied
      /\ view'.pendingFloraOps = view.pendingFloraOps /\ view'.snapshotLoaded = view.snapshotLoaded
      /\ view'.snapshotCursor = view.snapshotCursor
      /\ view'.reacquire => view.reacquire /\ ~Refetch
  <2>1. CASE Refetch
    BY <1>1, <2>1 DEF Refetch, View
  <2>2. CASE UNCHANGED view /\ ~Refetch
    BY <1>1, <2>2
  <2>3. CASE TogglePause /\ ~Refetch
    BY <1>1, <2>3 DEF TogglePause, TOGGLE_PAUSE, View
  <2> QED
    BY <2>1, <2>2, <2>3 DEF Answer, RunEffects
<1>5. Queue' = Queue /\ Sent' = Sent /\ Unread' = Unread
  BY <1>2, <1>4 DEF Queue, Sent, Unread, unread
<1>6. Coming' = Coming /\ Held' = Held
  BY <1>2, <1>5 DEF Coming, Held
<1>7. \A x, y \in Nat : ask(x, y) \in Load /\ ask(x, y).doc = NoDoc /\ ask(x, y).state = "asked"
  BY DEF ask, Load, NoDoc, Doc
<1>8. /\ loads' \in [Baselines -> Load]
      /\ \A b \in Baselines : loads'[b].doc \in {loads[b].doc, live[b], NoDoc}
      /\ \A b \in Baselines : loads'[b].state = "answered" => loads'[b].doc # NoDoc
      /\ loads["snapshot"].state = "idle" /\ ~Refetch => loads'["snapshot"].state = "idle"
  <2>1. CASE Refetch
    <3>1. PICK q : q = ask(0, 0)
      OBVIOUS
    <3>2. q \in Load /\ q.doc = NoDoc /\ q.state = "asked"
      BY <1>7, <3>1
    <3>3. loads' = [loads EXCEPT !["snapshot"] = q]
      BY <2>1, <3>1 DEF Refetch
    <3> QED
      BY <1>1, <2>1, <3>2, <3>3 DEF Drawn
  <2>2. ASSUME NEW b \in Baselines, Answer(b)
        PROVE  /\ loads' \in [Baselines -> Load]
               /\ \A c \in Baselines : loads'[c].doc \in {loads[c].doc, live[c], NoDoc}
               /\ \A c \in Baselines : loads'[c].state = "answered" => loads'[c].doc # NoDoc
               /\ loads["snapshot"].state = "idle" => loads'["snapshot"].state = "idle"
    <3>1. PICK q : q = [loads[b] EXCEPT !.state = "answered", !.doc = live[b]]
      OBVIOUS
    <3>2. loads[b] \in Load /\ live[b] \in Doc /\ live[b] # NoDoc /\ loads[b].state = "asked"
      BY <1>1, <2>2 DEF Answer, fits, Typed
    <3>3. q \in Load /\ q.doc = live[b]
      BY <3>1, <3>2 DEF Load
    <3>4. loads' = [loads EXCEPT ![b].state = "answered", ![b].doc = live[b]]
      BY <2>2 DEF Answer
    <3>5. loads' = [loads EXCEPT ![b] = q]
      BY <1>1, <3>1, <3>2, <3>4
    <3>6. \A c \in Baselines : loads'[c] = IF c = b THEN q ELSE loads[c]
      BY <1>1, <3>5
    <3>7. loads' \in [Baselines -> Load]
      BY <1>1, <3>3, <3>5
    <3> QED
      BY <1>1, <3>2, <3>3, <3>6, <3>7, Kept DEF Drawn
  <2>3. CASE RunEffects
    <3>1. PICK qt, qf : qt = ask(view.worldRevision, 0) /\ qf = ask(view.worldRevision, view.snapshotCursor)
      OBVIOUS
    <3>2. view.worldRevision \in Nat /\ view.snapshotCursor \in Nat /\ 0 \in Nat
      BY <1>1 DEF View
    <3>3. qt \in Load /\ qf \in Load /\ qt.doc = NoDoc /\ qf.doc = NoDoc /\ qt.state = "asked" /\ qf.state = "asked"
      BY <1>7, <3>1, <3>2
    <3>4. \A b \in Baselines : wanted(b) => b # "snapshot"
      BY FeedAssumption DEF wanted
    <3>5. loads' = [b \in Baselines |->
                    IF wanted(b)
                    THEN ask(view.worldRevision, IF b = "flora" THEN view.snapshotCursor ELSE 0)
                    ELSE loads[b]]
      BY <2>3 DEF RunEffects
    <3>6. \A b \in Baselines : loads'[b] = loads[b] \/ (wanted(b) /\ loads'[b] \in {qt, qf})
      BY <3>1, <3>5
    <3>7. DOMAIN loads' = Baselines /\ loads' = [b \in Baselines |-> loads'[b]]
      BY <3>5
    <3>8. \A b \in Baselines : loads'[b] \in Load
      BY <1>1, <3>3, <3>6
    <3>9. loads' \in [Baselines -> Load]
      BY <3>7, <3>8
    <3> QED
      BY <1>1, <3>3, <3>4, <3>6, <3>9, Kept DEF Drawn
  <2>4. CASE TogglePause
    BY <1>1, <2>4 DEF TogglePause, Drawn
  <2> QED
    BY <2>1, <2>2, <2>3, <2>4
<1>9. Typed'
  BY <1>1, <1>2, <1>4, <1>8 DEF Typed
<1>10. Docs' \subseteq Docs
  BY <1>1, <1>2, <1>8, Kept, NoNewDocs
<1>11. Positions' /\ Documents'
  BY <1>1, <1>2, <1>4, <1>5, <1>6, <1>9, <1>10, QuietKeeps
<1>12. Frames'
  BY <1>1, <1>2, <1>5 DEF Frames
<1>13. Drawn'
  <2>1. view.snapshotLoaded => ~Refetch
    BY <1>1 DEF Refetch, Drawn
  <2> QED
    BY <1>1, <1>2, <1>4, <1>5, <1>6, <1>8, <2>1 DEF Drawn
<1> QED
  BY <1>3, <1>9, <1>11, <1>12, <1>13 DEF ViewInv
\* A snapshot is taken by a view that has none: nothing is under way.
LEMMA TakeSnapshot ==
    ASSUME ViewInv, Accept("snapshot")
    PROVE  /\ ~view.snapshotLoaded /\ ~view.reacquire
           /\ loads["snapshot"].doc \in Docs /\ loads["snapshot"].doc \in Doc
           /\ ~stale(view, loads["snapshot"].doc)
           /\ view' = SNAPSHOT_LOADED(view, loads["snapshot"].doc, At("agents", loads["snapshot"].doc.at))
           /\ shown' = [shown EXCEPT !["snapshot"] = loads["snapshot"].doc]
           /\ At("agents", loads["snapshot"].doc.at) \in Nat
           /\ Coming = {} /\ Coming' = {}
<1>1. Typed /\ Frames /\ Positions /\ Documents /\ Drawn
  BY DEF ViewInv
<1>2. PICK doc : doc = loads["snapshot"].doc
  OBVIOUS
<1>3. loads["snapshot"].state = "answered" /\ "snapshot" \in Baselines
  BY DEF Accept, Baselines
<1>4. ~view.snapshotLoaded /\ ~view.reacquire /\ doc # NoDoc
  BY <1>1, <1>2, <1>3 DEF Drawn
<1>5. doc \in Docs /\ doc \in Doc
  BY <1>1, <1>2, <1>3, <1>4, Kept DEF Docs
<1>6. ~stale(view, doc)
  BY <1>4 DEF stale
<1>7. view' = SNAPSHOT_LOADED(view, doc, At("agents", doc.at))
  BY <1>2 DEF Accept, loaded
<1>8. shown' = [shown EXCEPT !["snapshot"] = doc]
  BY <1>2, <1>6 DEF Accept, rejected
<1>9. At("agents", doc.at) \in Nat
  <2>1. doc.at \in Nat
    BY <1>1, <1>5, DocFacts
  <2> QED
    BY <1>1, <2>1, AtNat
<1>10. pos = Closed /\ wire = <<>> /\ pos' = Closed /\ wire' = <<>>
  BY <1>1, <1>4 DEF Drawn, Accept
<1>11. Coming = {} /\ Coming' = {}
  BY <1>10 DEF Coming, Sent, Unread
<1> QED
  BY <1>2, <1>4, <1>5, <1>6, <1>7, <1>8, <1>9, <1>11

\* A snapshot taken keeps what the client holds consistent.
LEMMA SnapshotKeepsView ==
    ASSUME ViewInv, Accept("snapshot")
    PROVE  ViewInv'
<1>1. /\ Typed /\ Frames /\ Positions /\ Documents /\ Drawn /\ view \in View
      /\ loads \in [Baselines -> Load] /\ shown \in [Baselines -> Doc] /\ "snapshot" \in Baselines
  BY DEF ViewInv, Typed, Baselines
<1>2. /\ UNCHANGED feedVars /\ UNCHANGED <<log, retained, maxDeleted, lastID, rev, live, pos, tail, wire>>
      /\ loads' = [loads EXCEPT !["snapshot"] = Idle]
  BY DEF Accept, feedVars
<1>3. RevisionInv'
  BY <1>1, AcceptKeepsRevision DEF ViewInv
<1>4. PICK doc, agents : doc = loads["snapshot"].doc /\ agents = At("agents", doc.at)
  OBVIOUS
<1>5. /\ ~view.reacquire /\ doc \in Docs /\ doc \in Doc /\ doc # NoDoc
      /\ ~stale(view, doc) /\ agents \in Nat
      /\ view' = SNAPSHOT_LOADED(view, doc, agents)
      /\ shown' = [shown EXCEPT !["snapshot"] = doc]
      /\ Coming = {} /\ Coming' = {}
  BY <1>4, TakeSnapshot DEF Docs
<1>6. PICK s : s = view
  OBVIOUS
<1>7. PICK u : u = SNAPSHOT_LOADED(s, doc, agents)
  OBVIOUS
<1>27. PICK sw \in BOOLEAN : sw <=> revisionSwitch(s, doc)
  OBVIOUS
<1>8. s \in View /\ ~stale(s, doc) /\ doc \in Doc /\ agents \in Nat
  BY <1>1, <1>5, <1>6
<1>9. /\ u \in View /\ u.snapshotLoaded
      /\ u.worldRevision = doc.rev /\ u.snapshotCursor = doc.cursor
      /\ u.lastApplied = IF doc.cursor # 0 THEN doc.cursor
                         ELSE IF sw THEN 0 ELSE s.lastApplied
      /\ (u.reacquire <=> s.reacquire)
      /\ u.pendingFloraOps = IF sw \/ "flora" \notin Installed THEN <<>> ELSE s.pendingFloraOps
  BY <1>7, <1>8, <1>27, SnapshotFacts
<1>10. view' = u
  BY <1>5, <1>6, <1>7
<1>11. /\ u \in View /\ u.snapshotLoaded
       /\ u.worldRevision = doc.rev /\ u.snapshotCursor = doc.cursor
       /\ u.lastApplied = IF doc.cursor # 0 THEN doc.cursor
                          ELSE IF sw THEN 0 ELSE view.lastApplied
       /\ ~u.reacquire
       /\ u.pendingFloraOps = (IF sw \/ "flora" \notin Installed THEN <<>> ELSE view.pendingFloraOps)
       /\ sw <=> view.worldRevision # 0 /\ doc.rev # view.worldRevision
  BY <1>5, <1>6, <1>9, <1>27 DEF revisionSwitch
<1>12. Queue' \subseteq Queue /\ (sw => Queue' = {})
  <2>1. view'.pendingFloraOps = view.pendingFloraOps \/ view'.pendingFloraOps = <<>>
    BY <1>10, <1>11
  <2>2. sw => view'.pendingFloraOps = <<>>
    BY <1>10, <1>11
  <2> QED
    BY <2>1, <2>2 DEF Queue
<1>13. Idle \in Load /\ Idle.state = "idle" /\ Idle.doc = NoDoc
  BY DEF Idle, Load, NoDoc, Doc
<1>14. /\ loads' \in [Baselines -> Load] /\ loads'["snapshot"] = Idle
       /\ \A b \in Baselines : loads'[b] = loads[b] \/ loads'[b] = Idle
       /\ shown' \in [Baselines -> Doc] /\ shown'["snapshot"] = doc
       /\ \A b \in Baselines : shown'[b] \in {shown[b], doc}
  <2>1. PICK q : q = Idle
    OBVIOUS
  <2> QED
    BY <1>1, <1>2, <1>5, <1>13, <2>1
<1>15. Typed'
  BY <1>1, <1>2, <1>10, <1>11, <1>14 DEF Typed
<1>16. Docs' \subseteq Docs
  BY <1>1, <1>2, <1>5, <1>13, <1>14, Kept, NoNewDocs
<1>17. Sent' = Sent
  BY <1>2 DEF Sent
<1>18. Held' \subseteq Held
  BY <1>2, <1>12, <1>17 DEF Held
<1>19. /\ view.lastApplied \in Nat /\ view.worldRevision \in Nat /\ rev \in Nat /\ lastID \in Nat
       /\ Len(log) \in Nat /\ Held \subseteq Nat
  BY <1>1, HeldFacts
<1>20. /\ doc.at \in Nat /\ doc.cursor \in Nat /\ doc.rev \in Nat \ {0} /\ doc.rev <= rev
       /\ doc.cursor <= Len(log) /\ Apart(doc)
  BY <1>1, <1>5, DocFacts DEF Documents
<1>21. \/ view.worldRevision = 0 /\ view.lastApplied = 0 /\ Queue = {}
       \/ sw /\ Queue' = {}
       \/ ~sw /\ view.worldRevision = doc.rev
  BY <1>1, <1>11, <1>12 DEF Drawn
<1>22. Positions'
  <2>1. u.lastApplied <= Len(log)
    BY <1>1, <1>11, <1>19, <1>20 DEF Positions
  <2>2. (doc.rev = rev /\ (u.lastApplied # 0 \/ Queue' # {})) => lastID # 0
    <3>1. CASE doc.cursor # 0
      BY <1>20, <3>1 DEF Apart
    <3>2. CASE doc.cursor = 0
      BY <1>1, <1>11, <1>12, <1>21, <3>2 DEF Positions
    <3> QED
      BY <1>20, <3>1, <3>2
  <2>3. lastID # 0 => \A n \in Held' : n <= lastID
    BY <1>1, <1>18 DEF Positions
  <2> QED
    BY <1>1, <1>2, <1>5, <1>10, <1>11, <1>18, <1>20, <2>1, <2>2, <2>3 DEF Positions
<1>23. ASSUME NEW d \in Docs PROVE Apart(d)'
  <2>1. Apart(d) /\ Before(d, doc) /\ d.at \in Nat /\ d.cursor \in Nat
    BY <1>1, <1>5, <1>23, DocFacts DEF Documents
  <2>2. ASSUME d.cursor = 0, d.rev = doc.rev
        PROVE  (\A n \in Queue' : n > d.at) /\ (u.lastApplied = 0 \/ u.lastApplied > d.at)
    <3>1. view.worldRevision = doc.rev => /\ \A n \in Queue : n > d.at
                                          /\ view.lastApplied = 0 \/ view.lastApplied > d.at
      BY <2>1, <2>2 DEF Apart
    <3>2. \A n \in Queue' : n > d.at
      BY <1>12, <1>21, <3>1
    <3>3. CASE doc.cursor # 0
      <4>1. doc.cursor > d.at
        BY <2>1, <2>2, <3>3 DEF Before
      <4> QED
        BY <1>11, <3>2, <3>3, <4>1
    <3>4. CASE doc.cursor = 0
      <4>1. u.lastApplied = 0 \/ u.lastApplied > d.at
        BY <1>11, <1>21, <3>1, <3>4
      <4> QED
        BY <3>2, <4>1
    <3> QED
      BY <3>3, <3>4
  <2>3. d.cursor # 0 => \A n \in Held' : n <= d.cursor \/ n > d.at
    BY <1>18, <2>1 DEF Apart
  <2>4. Coming' = {}
    BY <1>5
  <2> QED
    BY <1>2, <1>10, <1>11, <2>1, <2>2, <2>3, <2>4 DEF Apart
<1>24. Documents'
  BY <1>1, <1>16, <1>23 DEF Documents, Before
<1>25. Drawn'
  <2>1. u.lastApplied >= doc.cursor
    BY <1>11, <1>19, <1>20
  <2>2. \A b \in Baselines : loads'[b].state = "answered" => loads'[b].doc # NoDoc
    BY <1>1, <1>13, <1>14 DEF Drawn
  <2>3. u.worldRevision # 0
    BY <1>11, <1>20
  <2> QED
    BY <1>5, <1>10, <1>11, <1>13, <1>14, <2>1, <2>2, <2>3 DEF Drawn
<1>26. Frames'
  BY <1>1, <1>2, <1>17 DEF Frames
<1> QED
  BY <1>3, <1>15, <1>22, <1>24, <1>25, <1>26 DEF ViewInv

\* What taking plants or a grid does: nothing but to their own layer, and to what waits for it.
LEMMA TakeLayer ==
    ASSUME ViewInv, NEW b \in Baselines \ {"snapshot"}, Accept(b)
    PROVE  /\ view' \in View
           /\ view'.worldRevision = view.worldRevision /\ view'.lastApplied = view.lastApplied
           /\ view'.snapshotLoaded = view.snapshotLoaded /\ view'.snapshotCursor = view.snapshotCursor
           /\ view'.reacquire = view.reacquire /\ view'.agents = view.agents
           /\ view'.pendingFloraOps = view.pendingFloraOps \/ view'.pendingFloraOps = <<>>
           /\ loads[b].doc \in Docs
<1>1. Typed /\ Positions /\ Documents /\ Drawn /\ view \in View
  BY DEF ViewInv, Typed
<1>2. PICK doc : doc = loads[b].doc
  OBVIOUS
<1>3. loads[b].state = "answered" /\ view' = loaded(b, doc)
  BY <1>2 DEF Accept
<1>4. doc # NoDoc
  BY <1>1, <1>2, <1>3 DEF Drawn
<1>5. doc \in Docs /\ doc \in Doc /\ doc.at \in Nat
  <2>1. doc \in Docs
    BY <1>1, <1>2, <1>4, Kept
  <2> QED
    BY <1>1, <2>1, DocFacts DEF Docs
<1>6. PICK x, s : x = At(b, doc.at) /\ s = view
  OBVIOUS
<1>7. x \in Nat /\ s \in View
  BY <1>1, <1>5, <1>6, AtNat
<1>8. CASE b = "flora"
  <2>1. view' = FLORA_LOADED(s, doc, x)
    BY <1>3, <1>6, <1>8 DEF loaded
  <2>2. s.worldRevision # 0
    BY <1>3, <1>6, <1>8 DEF ViewInv, RevisionInv, LoadsTagged
  <2>3. /\ FLORA_LOADED(s, doc, x) \in View
        /\ doc.rev # s.worldRevision => FLORA_LOADED(s, doc, x) = s
        /\ doc.rev = s.worldRevision =>
             FLORA_LOADED(s, doc, x) = [s EXCEPT !.flora = applyFloraOps(x, s.pendingFloraOps, doc.cursor),
                                                 !.pendingFloraOps = <<>>, !.floraLoaded = TRUE]
    BY <1>5, <1>7, <2>2, FloraFacts, ZenonT(30)
  <2>4. PICK r : r = applyFloraOps(x, s.pendingFloraOps, doc.cursor)
    OBVIOUS
  <2>5. \/ view' = s
        \/ view' = [s EXCEPT !.flora = r, !.pendingFloraOps = <<>>, !.floraLoaded = TRUE]
    BY <2>1, <2>3, <2>4
  <2> QED
    <3>1. CASE view' = s
      BY <1>2, <1>5, <1>6, <1>7, <3>1
    <3>2. CASE view' = [s EXCEPT !.flora = r, !.pendingFloraOps = <<>>, !.floraLoaded = TRUE]
      <4>1. view' \in View
        BY <2>1, <2>3
      <4> QED
        BY <1>2, <1>5, <1>6, <1>7, <3>2, <4>1 DEF View
    <3> QED
      BY <2>5, <3>1, <3>2
<1>9. CASE b = "terrain"
  <2>1. view' = TERRAIN_LOADED(s, x)
    BY <1>3, <1>6, <1>9 DEF loaded
  <2>2. /\ TERRAIN_LOADED(s, x) \in View
        /\ TERRAIN_LOADED(s, x) =
             [s EXCEPT !.terrain = replay(x, s.pendingTerrainDeltas), !.pendingTerrainDeltas = <<>>]
    BY <1>7, TerrainFacts
  <2>3. PICK r : r = replay(x, s.pendingTerrainDeltas)
    OBVIOUS
  <2>4. view' = [s EXCEPT !.terrain = r, !.pendingTerrainDeltas = <<>>]
    BY <2>1, <2>2, <2>3
  <2> QED
    BY <1>2, <1>5, <1>6, <1>7, <2>1, <2>2, <2>4 DEF View
<1>10. b \in {"flora", "terrain"}
  BY FeedAssumption DEF Baselines
<1> QED
  BY <1>8, <1>9, <1>10

\* So do plants or a grid taken.
LEMMA LayerKeepsView ==
    ASSUME ViewInv, NEW b \in Baselines \ {"snapshot"}, Accept(b)
    PROVE  ViewInv'
<1>1. /\ Typed /\ Frames /\ Positions /\ Documents /\ Drawn
      /\ loads \in [Baselines -> Load] /\ shown \in [Baselines -> Doc] /\ "snapshot" \in Baselines
  BY DEF ViewInv, Typed, Baselines
<1>2. /\ UNCHANGED feedVars /\ UNCHANGED <<log, retained, maxDeleted, lastID, rev, live, pos, tail, wire>>
      /\ loads' = [loads EXCEPT ![b] = Idle]
      /\ shown' = shown \/ shown' = [shown EXCEPT ![b] = loads[b].doc]
  BY DEF Accept, feedVars
<1>3. RevisionInv'
  BY AcceptKeepsRevision DEF ViewInv
<1>4. /\ view' \in View
      /\ view'.worldRevision = view.worldRevision /\ view'.lastApplied = view.lastApplied
      /\ view'.snapshotLoaded = view.snapshotLoaded /\ view'.snapshotCursor = view.snapshotCursor
      /\ view'.reacquire = view.reacquire
      /\ view'.pendingFloraOps = view.pendingFloraOps \/ view'.pendingFloraOps = <<>>
      /\ loads[b].doc \in Docs
  BY TakeLayer
<1>5. Sent' = Sent /\ Unread' = Unread /\ Queue' \subseteq Queue
  BY <1>2, <1>4 DEF Sent, Unread, unread, Queue
<1>6. Coming' = Coming /\ Held' \subseteq Held
  BY <1>2, <1>5 DEF Coming, Held
<1>7. Idle \in Load /\ Idle.state = "idle" /\ Idle.doc = NoDoc
  BY DEF Idle, Load, NoDoc, Doc
<1>8. PICK doc, q : doc = loads[b].doc /\ q = Idle
  OBVIOUS
<1>9. /\ loads' \in [Baselines -> Load] /\ loads'["snapshot"] = loads["snapshot"]
      /\ \A c \in Baselines : loads'[c] = loads[c] \/ loads'[c] = q
      /\ shown' \in [Baselines -> Doc] /\ shown'["snapshot"] = shown["snapshot"]
      /\ \A c \in Baselines : shown'[c] \in {shown[c], doc}
  <2>1. doc \in Doc
    BY <1>4, <1>8 DEF Docs
  <2> QED
    BY <1>1, <1>2, <1>7, <1>8, <2>1
<1>10. Typed'
  BY <1>1, <1>2, <1>4, <1>9 DEF Typed
<1>11. Docs' \subseteq Docs
  BY <1>1, <1>2, <1>4, <1>7, <1>8, <1>9, Kept, NoNewDocs
<1>12. Positions' /\ Documents'
  BY <1>1, <1>2, <1>4, <1>5, <1>6, <1>10, <1>11, QuietKeeps
<1>13. Frames'
  BY <1>1, <1>2, <1>5 DEF Frames
<1>14. Drawn'
  BY <1>1, <1>2, <1>4, <1>5, <1>6, <1>7, <1>8, <1>9 DEF Drawn
<1> QED
  BY <1>3, <1>10, <1>12, <1>13, <1>14 DEF ViewInv

\* Nothing is held to begin with.
LEMMA ViewInit == Init => ViewInv
<1> SUFFICES ASSUME Init PROVE ViewInv
  OBVIOUS
<1>1. RevisionInv
  BY RevisionInit
<1>2. /\ log = <<"agents">> /\ retained = {1} /\ maxDeleted = 0 /\ lastID = 1 /\ rev = 1
      /\ live = [b \in Baselines |-> NoDoc] /\ shown = [b \in Baselines |-> NoDoc]
      /\ view = initial /\ pos = Closed /\ tail = FALSE /\ wire = <<>>
      /\ loads = [b \in Baselines |-> IF b = "snapshot" THEN ask(0, 0) ELSE Idle]
  BY DEF Init, FeedInit
<1>3. /\ log \in Seq(Slices \cup Rebuilds) /\ DOMAIN log = {1} /\ Len(log) = 1 /\ log[1] = "agents"
      /\ "agents" \in Slices
  BY <1>2 DEF Slices
<1>4. NoDoc \in Doc /\ ask(0, 0) \in Load /\ Idle \in Load /\ ask(0, 0).doc = NoDoc /\ Idle.doc = NoDoc
  BY DEF NoDoc, Doc, ask, Idle, Load
<1>5. view \in View
  <2>1. <<>> \in Seq(Nat)
    OBVIOUS
  <2> QED
    BY <1>2, <2>1 DEF initial, View
<1>6. ask(0, 0).state = "asked" /\ Idle.state = "idle"
  BY DEF ask, Idle
<1>7. loads \in [Baselines -> Load] /\ \A b \in Baselines : loads[b].doc = NoDoc /\ loads[b].state # "answered"
  <2>1. PICK q, r : q = ask(0, 0) /\ r = Idle
    OBVIOUS
  <2>2. /\ q \in Load /\ r \in Load /\ q.doc = NoDoc /\ r.doc = NoDoc
        /\ q.state = "asked" /\ r.state = "idle"
    BY <1>4, <1>6, <2>1
  <2>3. loads = [b \in Baselines |-> IF b = "snapshot" THEN q ELSE r]
    BY <1>2, <2>1
  <2>4. \A b \in Baselines : loads[b] \in {q, r}
    BY <2>3
  <2>5. loads \in [Baselines -> Load]
    BY <2>2, <2>3
  <2> QED
    BY <2>2, <2>4, <2>5
<1>8. Typed
  <2>1. wire \in Seq(Frame)
    BY <1>2
  <2> QED
    BY <1>2, <1>3, <1>4, <1>5, <1>7, <2>1 DEF Typed
<1>9. /\ ~view.snapshotLoaded /\ view.worldRevision = 0 /\ view.lastApplied = 0 /\ ~view.reacquire
      /\ view.pendingFloraOps = <<>>
  BY <1>2 DEF initial
<1>10. Sent = {} /\ Unread = {} /\ Queue = {}
  BY <1>2, <1>9 DEF Sent, Unread, Queue
<1>11. Frames
  BY <1>2, <1>10 DEF Frames
<1>12. RevIn(log, Len(log)) = 1
  <2> DEFINE claims == {m \in DOMAIN log : m <= Len(log) /\ log[m] \in {"regen", "reboot"}}
  <2>1. claims = {}
    BY <1>3
  <2>2. RevIn(log, Len(log)) = 1 + Cardinality(claims)
    BY DEF RevIn
  <2> HIDE DEF claims
  <2>3. Cardinality(claims) = 0
    BY <2>1, FS_EmptySet
  <2> QED
    BY <2>2, <2>3
<1>13. Positions
  BY <1>2, <1>3, <1>9, <1>10, <1>12 DEF Positions, Held, Coming
<1>14. Docs = {}
  BY <1>2, <1>7 DEF Docs
<1>15. Documents
  BY <1>14 DEF Documents
<1>16. Drawn
  BY <1>2, <1>7, <1>9, <1>10 DEF Drawn
<1> QED
  BY <1>1, <1>8, <1>11, <1>13, <1>15, <1>16 DEF ViewInv

\* Every step keeps what the client holds consistent.
LEMMA ViewStep == ViewInv /\ ~reused' /\ [Next]_vars => ViewInv'
<1> SUFFICES ASSUME ViewInv, ~reused', [Next]_vars PROVE ViewInv'
  OBVIOUS
<1>1. CASE Feed
  BY <1>1, FeedKeepsView
<1>2. CASE Server
  BY <1>2, ServerKeepsView
<1>3. CASE Client
  <2>1. CASE Deliver
    BY <2>1, DeliverKeepsView
  <2>2. CASE Refetch \/ (\E b \in Baselines : Answer(b)) \/ RunEffects \/ TogglePause
    BY <2>2, AskingKeepsView
  <2>3. ASSUME NEW b \in Baselines, Accept(b) PROVE ViewInv'
    <3>1. CASE b = "snapshot"
      BY <2>3, <3>1, SnapshotKeepsView
    <3>2. CASE b # "snapshot"
      BY <2>3, <3>2, LayerKeepsView
    <3> QED
      BY <3>1, <3>2
  <2> QED
    BY <1>3, <2>1, <2>2, <2>3 DEF Client, Loading
<1>4. CASE UNCHANGED vars
  <2>1. /\ UNCHANGED <<log, retained, maxDeleted, lastID, rev, flush, live, published, reused>>
        /\ UNCHANGED <<view, pos, tail, wire, loads, shown>>
    BY <1>4 DEF vars, feedVars, clientVars
  <2>2. RevisionInv'
    BY <2>1 DEF ViewInv, RevisionInv, Shape, StoreTagged, SnapshotTagged, FloraTagged, LoadsTagged
  <2>3. Sent' = Sent /\ Unread' = Unread /\ Queue' = Queue /\ Docs' = Docs
    BY <2>1 DEF Sent, Unread, unread, Queue, Docs
  <2>4. Held' = Held /\ Coming' = Coming
    BY <2>1, <2>3 DEF Held, Coming
  <2> QED
    BY <2>1, <2>2, <2>3, <2>4
       DEF ViewInv, Typed, Frames, Positions, Documents, Apart, Drawn
<1> QED
  BY <1>1, <1>2, <1>3, <1>4 DEF Next

\* A revision claimed twice stays so.
LEMMA ReusedForGood == reused /\ [Next]_vars => reused'
<1> SUFFICES ASSUME reused, [Next]_vars PROVE reused'
  OBVIOUS
<1>1. CASE Feed
  BY <1>1 DEF Feed, Produce, Emitting, Emit, BeginFlush, WriteBaseline, Publish, Regen, Restart, Reboot
<1>2. CASE Server
  BY <1>2 DEF Server, Connect, BlockAtEnd, Read, Drop, feedVars
<1>3. CASE Client
  BY <1>3 DEF Client, Loading, Deliver, Refetch, Answer, Accept, RunEffects, TogglePause, feedVars
<1>4. CASE UNCHANGED vars
  BY <1>4 DEF vars, feedVars
<1> QED
  BY <1>1, <1>2, <1>3, <1>4 DEF Next

\* In every state reached without claiming a revision twice the entries on their way
\* to the view, those waiting in it and the baselines stored, fetched and drawn fit
\* together: a baseline stands apart from every entry, and a drawn view is behind
\* all that comes.
THEOREM ViewInvariant == Spec => [](~reused => ViewInv)
<1>1. (~reused => ViewInv) /\ [Next]_vars => (~reused' => ViewInv')
  BY ViewStep, ReusedForGood
<1>2. QED
  BY <1>1, ViewInit, PTL DEF Spec

----------------------------------------------------------------------------
(* The properties.                                                         *)

\* A position in the past shows what it showed.
LEMMA PastKept ==
    ASSUME Typed, log' = log \/ \E x : log' = Append(log, x), NEW k, NEW n \in 0..Len(log)
    PROVE  LastIn(log', k, n) = LastIn(log, k, n)
<1>1. CASE log' = log
  BY <1>1
<1>2. ASSUME NEW x, log' = Append(log, x) PROVE LastIn(log', k, n) = LastIn(log, k, n)
  <2>1. Longer(log, x, log')
    BY <1>2 DEF Longer, Typed
  <2> QED
    BY <2>1, GrownFacts
<1> QED
  BY <1>1, <1>2

\* No step takes anything back from the history.
LEMMA HistoryGrows ==
    ASSUME Next
    PROVE  log' = log \/ \E x : log' = Append(log, x)
<1>1. CASE Feed
  <2>1. CASE Emitting
    BY <2>1 DEF Emitting, Emit
  <2>2. CASE BeginFlush \/ WriteBaseline \/ Publish
    BY <2>2 DEF BeginFlush, WriteBaseline, Publish
  <2>3. CASE Regen \/ Restart \/ Reboot
    BY <2>3 DEF Regen, Restart, Reboot, Rebuild
  <2> QED
    BY <1>1, <2>1, <2>2, <2>3 DEF Feed, Produce
<1>2. CASE Server
  BY <1>2 DEF Server, Connect, BlockAtEnd, Read, Drop, feedVars
<1>3. CASE Client
  BY <1>3 DEF Client, Loading, Deliver, Refetch, Answer, Accept, RunEffects, TogglePause, feedVars
<1> QED
  BY <1>1, <1>2, <1>3 DEF Next

\* The roster drawn is never behind the snapshot it started from.
RosterInv ==
    view.snapshotLoaded => view.agents >= LastIn(log, "agents", shown["snapshot"].at)

\* Every step keeps the roster no older than its snapshot.
LEMMA RosterStep == ViewInv /\ RosterInv /\ [Next]_vars => RosterInv'
<1> SUFFICES ASSUME ViewInv, RosterInv, [Next]_vars, view'.snapshotLoaded
             PROVE  view'.agents >= LastIn(log', "agents", shown'["snapshot"].at)
  BY DEF RosterInv
<1>1. Typed /\ Frames /\ Positions /\ Documents /\ Drawn /\ view \in View
  BY DEF ViewInv, Typed
<1>2. ASSUME view.snapshotLoaded, shown'["snapshot"] = shown["snapshot"], Next
      PROVE  /\ LastIn(log', "agents", shown'["snapshot"].at) = LastIn(log, "agents", shown["snapshot"].at)
             /\ LastIn(log, "agents", shown["snapshot"].at) <= shown["snapshot"].at
             /\ LastIn(log, "agents", shown["snapshot"].at) \in Nat
             /\ shown["snapshot"].at \in Nat
  <2>1. shown["snapshot"] \in Docs
    BY <1>1, <1>2, Kept DEF Drawn
  <2>2. PICK a : a = shown["snapshot"].at
    OBVIOUS
  <2>3. a \in Nat /\ a \in 0..Len(log)
    BY <1>1, <2>1, <2>2, DocFacts DEF Documents, Apart
  <2>4. LastIn(log', "agents", a) = LastIn(log, "agents", a)
    BY <1>1, <1>2, <2>3, HistoryGrows, PastKept
  <2>5. At("agents", a) \in Nat /\ At("agents", a) <= a
    BY <1>1, <2>3, AtNat
  <2> QED
    BY <1>2, <2>2, <2>3, <2>4, <2>5, AtIs
<1>3. ASSUME Next, view.snapshotLoaded, shown'["snapshot"] = shown["snapshot"], view'.agents = view.agents
      PROVE  view'.agents >= LastIn(log', "agents", shown'["snapshot"].at)
  BY <1>2, <1>3 DEF RosterInv
<1>4. CASE Feed \/ Server
  <2>1. UNCHANGED <<view, shown>>
    BY <1>4 DEF Feed, clientVars, Server, Connect, BlockAtEnd, Read, Drop
  <2> QED
    BY <1>3, <1>4, <2>1 DEF Next
<1>5. CASE Refetch \/ (\E b \in Baselines : Answer(b)) \/ RunEffects \/ TogglePause
  <2>1. view'.agents = view.agents /\ view'.snapshotLoaded = view.snapshotLoaded /\ shown' = shown
    BY <1>1, <1>5 DEF Refetch, Answer, RunEffects, TogglePause, TOGGLE_PAUSE, View
  <2> QED
    BY <1>3, <1>5, <2>1 DEF Next, Client, Loading
<1>6. CASE Deliver
  <2>1. shown' = shown /\ view' = dispatch(Head(wire)) /\ wire # <<>> /\ Next
    BY <1>6 DEF Deliver, Next, Client
  <2>2. view.snapshotLoaded
    BY <1>1, <2>1 DEF Drawn
  <2>3. Head(wire) # GapFrame
    <3>1. SUFFICES ASSUME Head(wire) = GapFrame PROVE ~view'.snapshotLoaded
      OBVIOUS
    <3>2. view' = [view EXCEPT !.reacquire = TRUE, !.snapshotLoaded = FALSE, !.floraLoaded = FALSE]
      BY <1>1, <2>1, <3>1, GapFacts DEF dispatch
    <3> QED
      BY <1>1, <3>2 DEF View
  <2>4. PICK id, kind : id = Head(wire).id /\ kind = Head(wire).kind
    OBVIOUS
  <2>5. id \in Sent /\ id \in Nat /\ kind \in Slices
    BY <1>1, <1>6, <2>3, <2>4, DeliverFacts
  <2>6. id > view.lastApplied /\ id > shown["snapshot"].at
    BY <1>1, <2>2, <2>5 DEF Drawn, Coming
  <2>7. PICK s : s = view
    OBVIOUS
  <2>12. PICK t : t = EVENT(s, kind, id)
    OBVIOUS
  <2>8. t.agents = IF ~s.paused /\ kind = "agents" THEN id ELSE s.agents
    <3>1. s \in View /\ s.snapshotLoaded /\ id > s.lastApplied
      BY <1>1, <2>2, <2>6, <2>7
    <3> QED
      BY <2>5, <2>12, <3>1, EventFacts
  <2>9. view' = t
    BY <2>1, <2>3, <2>4, <2>7, <2>12 DEF dispatch
  <2>10. view'.agents = id \/ view'.agents = view.agents
    BY <2>7, <2>8, <2>9
  <2>11. CASE view'.agents = id
    BY <1>2, <2>1, <2>2, <2>5, <2>6, <2>11
  <2> QED
    BY <1>3, <2>1, <2>2, <2>10, <2>11
<1>7. ASSUME NEW b \in Baselines \ {"snapshot"}, Accept(b)
      PROVE  view'.agents >= LastIn(log', "agents", shown'["snapshot"].at)
  <2>1. view'.agents = view.agents /\ view'.snapshotLoaded = view.snapshotLoaded
    BY <1>7, TakeLayer
  <2>2. shown'["snapshot"] = shown["snapshot"]
    BY <1>7 DEF Accept
  <2>3. Next
    BY <1>7 DEF Next, Client, Loading
  <2> QED
    BY <1>3, <2>1, <2>2, <2>3
<1>8. CASE Accept("snapshot")
  <2>1. PICK doc, agents : doc = loads["snapshot"].doc /\ agents = At("agents", doc.at)
    OBVIOUS
  <2>2. /\ doc \in Docs /\ doc \in Doc /\ ~stale(view, doc) /\ agents \in Nat
        /\ view' = SNAPSHOT_LOADED(view, doc, agents)
        /\ shown' = [shown EXCEPT !["snapshot"] = doc]
    BY <1>8, <2>1, TakeSnapshot
  <2>3. PICK s : s = view
    OBVIOUS
  <2>9. PICK t : t = SNAPSHOT_LOADED(s, doc, agents)
    OBVIOUS
  <2>29. PICK sw \in BOOLEAN : sw <=> revisionSwitch(s, doc)
    OBVIOUS
  <2>4. t.agents = agents
    <3>1. s \in View /\ ~stale(s, doc) /\ doc \in Doc /\ agents \in Nat
      BY <1>1, <2>2, <2>3
    <3> QED
      BY <2>9, <2>29, <3>1, SnapshotFacts
  <2>5. view' = t
    BY <2>2, <2>3, <2>9
  <2>6. view'.agents = agents
    BY <2>4, <2>5
  <2>7. shown'["snapshot"] = doc /\ log' = log
    BY <1>1, <1>8, <2>2 DEF Typed, Baselines, Accept, feedVars
  <2>8. agents = LastIn(log, "agents", doc.at)
    BY <2>1, AtIs
  <2> QED
    BY <2>2, <2>6, <2>7, <2>8
<1>9. CASE UNCHANGED vars
  <2>1. UNCHANGED <<log, view, shown>>
    BY <1>9 DEF vars, feedVars, clientVars
  <2> QED
    BY <2>1 DEF RosterInv
<1> QED
  BY <1>4, <1>5, <1>6, <1>7, <1>8, <1>9 DEF Next, Client, Loading

\* Whatever is lost, trimmed, paused or rebuilt, the roster drawn is not behind the
\* snapshot it started from, as long as no revision is claimed twice.
THEOREM RosterNotOlderHolds == Spec => []RosterNotOlder
<1>1. Init => RosterInv
  BY DEF Init, initial, RosterInv
<1>2. (~reused => RosterInv) => RosterNotOlder
  BY AtIs DEF RosterInv, RosterNotOlder
<1>3. (~reused => ViewInv) /\ (~reused => RosterInv) /\ [Next]_vars => (~reused' => RosterInv')
  BY RosterStep, ReusedForGood
<1> QED
  BY <1>1, <1>2, <1>3, ViewInvariant, PTL DEF Spec

\* An entry is applied only over the snapshot of its own world or an older one: it
\* came after the position the snapshot shows (as long as no revision is claimed
\* twice).
THEOREM OldWorldNeverReplaysHolds == Spec => OldWorldNeverReplays
<1> DEFINE Applied ==
        (~reused /\ wire # <<>> /\ wire' = Tail(wire) /\ view'.lastApplied # view.lastApplied)
          => sameWorld(Head(wire).id, shown["snapshot"].at)
<1>1. (~reused => ViewInv) /\ [Next]_vars => [Applied]_vars
  <2> SUFFICES ASSUME ViewInv, Next, wire # <<>>, view'.lastApplied # view.lastApplied
               PROVE  wire' = Tail(wire) => sameWorld(Head(wire).id, shown["snapshot"].at)
    OBVIOUS
  <2>1. Typed /\ Frames /\ Positions /\ Documents /\ Drawn /\ view \in View
    BY DEF ViewInv, Typed
  <2>2. view.snapshotLoaded
    BY <2>1 DEF Drawn
  <2>3. ~Feed /\ ~Server
    BY DEF Feed, clientVars, Server, Connect, BlockAtEnd, Read, Drop
  <2>4. ~(Refetch \/ (\E b \in Baselines : Answer(b)) \/ RunEffects \/ TogglePause)
    BY <2>1 DEF Refetch, Answer, RunEffects, TogglePause, TOGGLE_PAUSE, View
  <2>5. ~\E b \in Baselines : Accept(b)
    <3> SUFFICES ASSUME NEW b \in Baselines, Accept(b) PROVE FALSE
      OBVIOUS
    <3>1. b = "snapshot"
      BY TakeLayer
    <3> QED
      BY <2>2, <3>1, TakeSnapshot
  <2>6. CASE Deliver
    <3>1. Head(wire) # GapFrame
      <4>1. SUFFICES ASSUME Head(wire) = GapFrame PROVE view'.lastApplied = view.lastApplied
        OBVIOUS
      <4>2. view' = [view EXCEPT !.reacquire = TRUE, !.snapshotLoaded = FALSE, !.floraLoaded = FALSE]
        BY <2>1, <2>6, <4>1, GapFacts DEF Deliver, dispatch
      <4> QED
        BY <2>1, <4>2 DEF View
    <3>2. PICK id, a : id = Head(wire).id /\ a = shown["snapshot"].at
      OBVIOUS
    <3>3. id \in Sent /\ id \in Nat
      BY <2>1, <2>6, <3>1, <3>2, DeliverFacts
    <3>4. id > a /\ shown["snapshot"] \in Docs
      BY <2>1, <2>2, <3>2, <3>3, Kept DEF Drawn, Coming
    <3>5. a \in Nat
      BY <2>1, <3>2, <3>4, DocFacts
    <3>6. DOMAIN log \subseteq Nat
      BY <2>1 DEF Typed
    <3>7. \A r \in DOMAIN log : ~(id < r /\ r <= a)
      BY <3>3, <3>4, <3>5, <3>6
    <3> QED
      BY <3>2, <3>7 DEF sameWorld
  <2> QED
    BY <2>3, <2>4, <2>5, <2>6 DEF Next, Client, Loading
<1> QED
  BY <1>1, ViewInvariant, PTL DEF Spec, OldWorldNeverReplays

\* Plants are never drawn older than the baseline just taken: a queued operation is
\* replayed over it only if it came after the state the baseline shows.
THEOREM BaselineNotUndoneHolds == Spec => BaselineNotUndone
<1> DEFINE Undone ==
        ("flora" \in Installed /\ ~reused /\ shown'["flora"] # shown["flora"] /\ view'.floraLoaded)
          => view'.flora >= At("flora", shown'["flora"].at)
<1>1. (~reused => ViewInv) /\ [Next]_vars => [Undone]_vars
  <2> SUFFICES ASSUME ViewInv, Next, "flora" \in Installed, shown'["flora"] # shown["flora"]
               PROVE  view'.flora >= At("flora", shown'["flora"].at)
    OBVIOUS
  <2>1. Typed /\ Frames /\ Positions /\ Documents /\ Drawn /\ view \in View
    BY DEF ViewInv, Typed
  <2>2. "flora" \in Baselines
    BY DEF Baselines
  <2>3. ~Feed /\ ~Server
    BY DEF Feed, clientVars, Server, Connect, BlockAtEnd, Read, Drop
  <2>4. ~(Deliver \/ Refetch \/ (\E b \in Baselines : Answer(b)) \/ RunEffects \/ TogglePause)
    BY DEF Deliver, Refetch, Answer, RunEffects, TogglePause
  <2>5. Accept("flora")
    <3>1. PICK b \in Baselines : Accept(b)
      BY <2>3, <2>4 DEF Next, Client, Loading
    <3>2. b = "flora"
      BY <2>1, <3>1 DEF Accept, Typed
    <3> QED
      BY <3>1, <3>2
  <2>6. PICK doc, s : doc = loads["flora"].doc /\ s = view
    OBVIOUS
  <2>7. doc \in Docs /\ "flora" # "snapshot"
    BY <2>2, <2>5, <2>6, TakeLayer
  <2>8. loads["flora"].state = "answered" /\ view' = loaded("flora", doc) /\ shown'["flora"] = doc
    <3>1. ~rejected("flora", doc)
      BY <2>5, <2>6 DEF Accept
    <3>2. shown' = [shown EXCEPT !["flora"] = doc]
      BY <2>5, <2>6, <3>1 DEF Accept
    <3> QED
      BY <2>1, <2>2, <2>5, <2>6, <3>2 DEF Accept, Typed
  <2>9. view.worldRevision # 0
    BY <2>2, <2>8 DEF ViewInv, RevisionInv, LoadsTagged
  <2>10. doc.rev = view.worldRevision
    <3>1. ~rejected("flora", doc)
      BY <2>5, <2>6 DEF Accept
    <3> QED
      BY <2>9, <3>1 DEF rejected
  <2>11. /\ doc \in Doc /\ doc.at \in Nat /\ doc.cursor \in Nat /\ Apart(doc)
         /\ log' = log
    BY <2>1, <2>5, <2>7, DocFacts DEF Docs, Documents, Accept, feedVars
  <2>12. PICK x : x = At("flora", doc.at)
    OBVIOUS
  <2>13. x \in Nat /\ x <= doc.at
    BY <2>1, <2>11, <2>12, AtNat
  <2>14. s.pendingFloraOps \in Seq(Nat) /\ s \in View
    BY <2>1, <2>6 DEF View
  <2>15. PICK r : r = applyFloraOps(x, s.pendingFloraOps, doc.cursor)
    OBVIOUS
  <2>16. view'.flora = r
    <3>1. view' = FLORA_LOADED(s, doc, x)
      BY <2>6, <2>8, <2>12 DEF loaded
    <3>2. FLORA_LOADED(s, doc, x) = [s EXCEPT !.flora = applyFloraOps(x, s.pendingFloraOps, doc.cursor),
                                              !.pendingFloraOps = <<>>, !.floraLoaded = TRUE]
      BY <2>6, <2>9, <2>10, <2>11, <2>13, <2>14, FloraFacts, ZenonT(30)
    <3>3. view' = [s EXCEPT !.flora = r, !.pendingFloraOps = <<>>, !.floraLoaded = TRUE]
      BY <2>15, <3>1, <3>2
    <3> QED
      BY <2>14, <3>3 DEF View
  <2>17. \/ r = x
         \/ \E i \in DOMAIN s.pendingFloraOps :
               r = s.pendingFloraOps[i] /\ (doc.cursor = 0 \/ s.pendingFloraOps[i] > doc.cursor)
    BY <2>11, <2>13, <2>14, <2>15, ReplayFacts
  <2>18. r >= x
    <3>1. CASE r = x
      BY <2>13, <3>1
    <3>2. ASSUME NEW i \in DOMAIN s.pendingFloraOps,
                 r = s.pendingFloraOps[i], doc.cursor = 0 \/ s.pendingFloraOps[i] > doc.cursor
          PROVE  r >= x
      <4>1. r \in Queue /\ r \in Held /\ r \in Nat
        BY <2>1, <2>6, <3>2, HeldFacts DEF Queue
      <4>2. r > doc.at
        <5>1. CASE doc.cursor # 0
          BY <2>11, <3>2, <4>1, <5>1 DEF Apart
        <5>2. CASE doc.cursor = 0
          BY <2>10, <2>11, <4>1, <5>2 DEF Apart
        <5> QED
          BY <5>1, <5>2
      <4> QED
        BY <2>11, <2>13, <4>1, <4>2
    <3> QED
      BY <2>17, <3>1, <3>2
  <2> QED
    BY <2>8, <2>12, <2>16, <2>18
<1> QED
  BY <1>1, ViewInvariant, PTL DEF Spec, BaselineNotUndone

----------------------------------------------------------------------------
(* Nothing is missed: without lost appends, failing XINFO, overtaking trims *)
(* and pauses every entry of the world drawn reaches the view, in order.   *)

Lossless == ~XAddMayFail /\ ~XInfoMayFail /\ ~MayBeOvertaken /\ ~MayPause

\* What the stream no longer holds was trimmed, deleted by a regen, or is no entry
\* of it; a cursor leaves nothing but replacements between itself and the state shown.
Retention ==
    /\ maxDeleted <= Len(log) /\ \A n \in retained : n > maxDeleted
    /\ \A m \in DOMAIN log \ retained :
          \/ log[m] \in Rebuilds
          \/ m <= maxDeleted
          \/ \E g \in DOMAIN log : g > m /\ log[g] = "regen" /\ \A n \in retained : n > g
    /\ lastID # 0 => \A m \in DOMAIN log : lastID < m => log[m] \in Rebuilds
    /\ \A d \in Docs : /\ d.cursor <= d.at
                       /\ d.cursor # 0 => \A m \in DOMAIN log : (d.cursor < m /\ m <= d.at) => log[m] \in Rebuilds

\* Positions up to which the connection will bring everything: those of the entries
\* that come, and of the next one while it is open.
Horizon == Coming \cup IF pos = Closed THEN {} ELSE {Len(log) + 1}

\* No entry of the snapshot's world is skipped on the way to one that comes.
Gapless ==
    /\ pos <= Len(log) /\ ~view.paused
    /\ tail => view.snapshotCursor = 0
    /\ (view.snapshotLoaded /\ view.snapshotCursor # 0) =>
          \A n \in Horizon : OneIn(log, shown["snapshot"].at, n) =>
              \A m \in DOMAIN log :
                 (shown["snapshot"].at < m /\ m < n /\ m > view.lastApplied) => m \in Coming

\* Operations waiting for a flora baseline are in order and behind what still comes.
Queued ==
    /\ \A i, j \in DOMAIN view.pendingFloraOps :
          i < j => view.pendingFloraOps[i] < view.pendingFloraOps[j]
    /\ \A op \in Queue :
          /\ \A n \in Coming : n > op
          /\ op <= cursor \/ \A n \in retained : n > op
          /\ (~view.snapshotLoaded \/ wire = <<GapFrame>>) => \A n \in retained : n > op

\* Nothing is missed.
FlowInv == Retention /\ Gapless /\ Queued

\* A dispatched frame closes the view, or applies the lowest entry that comes.
LEMMA DeliverView ==
    ASSUME ViewInv, Deliver
    PROVE  /\ UNCHANGED <<feedVars, pos, tail, loads, shown>> /\ view.snapshotLoaded
           /\ log' = log /\ retained' = retained
           /\ \/ /\ wire = <<GapFrame>> /\ pos = Closed /\ wire' = <<>> /\ Coming' = {}
                 /\ ~view'.snapshotLoaded /\ ~view'.floraLoaded
                 /\ \A f \in {"agents", "flora", "terrain", "pendingFloraOps", "pendingTerrainDeltas",
                             "worldRevision", "snapshotCursor", "lastApplied", "paused"} : view'[f] = view[f]
              \/ \E id \in Coming :
                    /\ Coming' = Coming \ {id} /\ \A n \in Coming' : n > id
                    /\ id \in Nat /\ id > view.lastApplied /\ id > shown["snapshot"].at
                    /\ id \in DOMAIN log /\ log[id] \in Slices
                    /\ wire' # <<GapFrame>>
                    /\ view' = EVENT(view, log[id], id)
<1>1. Typed /\ Frames /\ Positions /\ Documents /\ Drawn /\ view \in View
  BY DEF ViewInv, Typed
<1>2. /\ UNCHANGED <<feedVars, pos, tail, loads, shown>> /\ wire # <<>> /\ view' = dispatch(Head(wire))
      /\ log' = log /\ retained' = retained /\ wire' = Tail(wire)
  BY DEF Deliver, feedVars
<1>3. view.snapshotLoaded
  BY <1>1, <1>2 DEF Drawn
<1>4. /\ Unread' = Unread
      /\ \/ Head(wire) = GapFrame /\ pos = Closed /\ wire' = <<>>
         \/ /\ Head(wire) # GapFrame /\ Head(wire).id \in Sent
            /\ Head(wire).id \in DOMAIN log /\ Head(wire).id \in Nat
            /\ Head(wire).kind = log[Head(wire).id] /\ Head(wire).kind \in Slices
            /\ Sent' = Sent \ {Head(wire).id}
            /\ \A n \in Sent' \cup Unread : n > Head(wire).id
  BY <1>1, DeliverFacts
<1>5. PICK h, id : h = Head(wire) /\ id = h.id
  OBVIOUS
<1>6. CASE h = GapFrame /\ pos = Closed /\ wire' = <<>>
  <2>1. wire = <<GapFrame>>
    <3>1. wire[1] = GapFrame /\ 1 \in DOMAIN wire
      BY <1>1, <1>2, <1>5, <1>6 DEF Typed
    <3>2. "gap" \notin Slices
      BY FeedAssumption DEF Slices
    <3> QED
      BY <1>1, <3>1, <3>2 DEF Frames, GapFrame
  <2>2. Coming' = {}
    BY <1>2, <1>6 DEF Coming, Sent, Unread
  <2>3. view' = [view EXCEPT !.reacquire = TRUE, !.snapshotLoaded = FALSE, !.floraLoaded = FALSE]
    BY <1>1, <1>2, <1>5, <1>6, GapFacts DEF dispatch
  <2>4. ~view'.snapshotLoaded /\ ~view'.floraLoaded
    BY <1>1, <2>3 DEF View
  <2>5. \A f \in {"agents", "flora", "terrain", "pendingFloraOps", "pendingTerrainDeltas",
                  "worldRevision", "snapshotCursor", "lastApplied", "paused"} : view'[f] = view[f]
    BY <1>1, <2>3 DEF View
  <2> QED
    BY <1>2, <1>3, <1>6, <2>1, <2>2, <2>4, <2>5
<1>7. CASE /\ h # GapFrame /\ id \in Sent /\ id \in DOMAIN log /\ id \in Nat
           /\ h.kind = log[id] /\ h.kind \in Slices
           /\ Sent' = Sent \ {id}
           /\ \A n \in Sent' \cup Unread : n > id
  <2>1. id \in Coming /\ Coming' = Coming \ {id}
    BY <1>4, <1>7 DEF Coming
  <2>2. \A n \in Coming' : n > id
    BY <1>4, <1>7 DEF Coming
  <2>3. id > view.lastApplied /\ id > shown["snapshot"].at
    BY <1>1, <1>3, <2>1 DEF Drawn
  <2>4. view' = EVENT(view, log[id], id)
    BY <1>2, <1>5, <1>7 DEF dispatch
  <2>5. wire' # <<GapFrame>>
    <3>1. SUFFICES ASSUME wire' = <<GapFrame>> PROVE FALSE
      OBVIOUS
    <3>2. wire'[1] = GapFrame /\ 1 \in DOMAIN wire' /\ Len(wire') = 1
      BY <3>1
    <3>3. wire[2] = GapFrame /\ 2 \in DOMAIN wire /\ Len(wire) = 2
      BY <1>1, <1>2, <3>2 DEF Typed
    <3>4. "gap" \notin Slices
      BY FeedAssumption DEF Slices
    <3>5. wire = <<GapFrame>>
      BY <1>1, <3>3, <3>4 DEF Frames, GapFrame
    <3> QED
      BY <3>3, <3>5
  <2> QED
    BY <1>2, <1>3, <1>7, <2>1, <2>2, <2>3, <2>4, <2>5
<1> QED
  BY <1>4, <1>5, <1>6, <1>7

\* What the dispatch of an entry does to the layers.
LEMMA EventView ==
    ASSUME ViewInv, view.snapshotLoaded, NEW kind \in Slices, NEW id \in Nat, id > view.lastApplied,
           view' = EVENT(view, kind, id), Lossless => ~view.paused
    PROVE  /\ view' \in View /\ view'.lastApplied = id
           /\ (view'.snapshotLoaded <=> view.snapshotLoaded) /\ (view'.floraLoaded <=> view.floraLoaded)
           /\ view'.worldRevision = view.worldRevision /\ view'.snapshotCursor = view.snapshotCursor
           /\ (view'.reacquire <=> view.reacquire) /\ (view'.paused <=> view.paused)
           /\ \/ view'.pendingFloraOps = view.pendingFloraOps
              \/ view'.pendingFloraOps = Append(view.pendingFloraOps, id)
           /\ Lossless =>
                /\ view'.agents = IF kind = "agents" THEN id ELSE view.agents
                /\ view'.flora = IF kind = "flora" /\ view.floraLoaded THEN id ELSE view.flora
                /\ view'.pendingFloraOps =
                     IF kind = "flora" /\ ~view.floraLoaded
                     THEN Append(view.pendingFloraOps, id) ELSE view.pendingFloraOps
                /\ view'.terrain = IF kind = "terrain" /\ view.terrain # NoGrid THEN id ELSE view.terrain
                /\ view'.pendingTerrainDeltas =
                     IF kind = "terrain" /\ view.terrain = NoGrid
                     THEN Append(view.pendingTerrainDeltas, id) ELSE view.pendingTerrainDeltas
<1>1. PICK s : s = view
  OBVIOUS
<1>2. s \in View /\ s.snapshotLoaded /\ id > s.lastApplied
  BY <1>1 DEF ViewInv, Typed
<1>8. PICK t : t = EVENT(s, kind, id)
  OBVIOUS
<1>3. /\ t \in View /\ t.lastApplied = id
      /\ (t.snapshotLoaded <=> s.snapshotLoaded) /\ (t.floraLoaded <=> s.floraLoaded)
      /\ t.worldRevision = s.worldRevision /\ t.snapshotCursor = s.snapshotCursor
      /\ (t.reacquire <=> s.reacquire) /\ (t.paused <=> s.paused)
      /\ t.agents = IF ~s.paused /\ kind = "agents" THEN id ELSE s.agents
      /\ t.flora = IF ~s.paused /\ kind = "flora" /\ s.floraLoaded THEN id ELSE s.flora
      /\ t.pendingFloraOps =
           IF ~s.paused /\ kind = "flora" /\ ~s.floraLoaded
           THEN Append(s.pendingFloraOps, id) ELSE s.pendingFloraOps
      /\ t.terrain = IF ~s.paused /\ kind = "terrain" /\ s.terrain # NoGrid
                     THEN id ELSE s.terrain
      /\ t.pendingTerrainDeltas =
           IF ~s.paused /\ kind = "terrain" /\ s.terrain = NoGrid
           THEN Append(s.pendingTerrainDeltas, id) ELSE s.pendingTerrainDeltas
  BY <1>2, <1>8, EventFacts
<1>4. view' = t
  BY <1>1, <1>8
<1>5. /\ view' \in View /\ view'.lastApplied = id
      /\ (view'.snapshotLoaded <=> view.snapshotLoaded) /\ (view'.floraLoaded <=> view.floraLoaded)
      /\ view'.worldRevision = view.worldRevision /\ view'.snapshotCursor = view.snapshotCursor
      /\ (view'.reacquire <=> view.reacquire) /\ (view'.paused <=> view.paused)
  BY <1>1, <1>3, <1>4
<1>6. \/ view'.pendingFloraOps = view.pendingFloraOps
      \/ view'.pendingFloraOps = Append(view.pendingFloraOps, id)
  BY <1>1, <1>3, <1>4
<1>7. ASSUME Lossless
      PROVE  /\ view'.agents = (IF kind = "agents" THEN id ELSE view.agents)
             /\ view'.flora = (IF kind = "flora" /\ view.floraLoaded THEN id ELSE view.flora)
             /\ view'.pendingFloraOps =
                  (IF kind = "flora" /\ ~view.floraLoaded
                   THEN Append(view.pendingFloraOps, id) ELSE view.pendingFloraOps)
             /\ view'.terrain = (IF kind = "terrain" /\ view.terrain # NoGrid THEN id ELSE view.terrain)
             /\ view'.pendingTerrainDeltas =
                  (IF kind = "terrain" /\ view.terrain = NoGrid
                   THEN Append(view.pendingTerrainDeltas, id) ELSE view.pendingTerrainDeltas)
  <2>1. ~s.paused
    BY <1>1, <1>7
  <2> QED
    BY <1>1, <1>3, <1>4, <2>1
<1> QED
  BY <1>5, <1>6, <1>7

\* What a taken snapshot does to the layers.
LEMMA SnapshotView ==
    ASSUME ViewInv, Accept("snapshot"), NEW doc, doc = loads["snapshot"].doc
    PROVE  /\ doc \in Docs /\ shown'["snapshot"] = doc /\ Coming' = {} /\ Coming = {}
           /\ UNCHANGED <<feedVars, pos, tail, wire>>
           /\ \A b \in Baselines \ {"snapshot"} : shown'[b] = shown[b] /\ loads'[b] = loads[b]
           /\ ~view.snapshotLoaded /\ view' \in View /\ view'.snapshotLoaded
           /\ view'.snapshotCursor = doc.cursor /\ view'.worldRevision = doc.rev
           /\ doc.cursor # 0 => view'.lastApplied = doc.cursor
           /\ (view'.paused <=> view.paused)
           /\ view'.agents = LastIn(log, "agents", doc.at)
           /\ view'.pendingFloraOps = view.pendingFloraOps \/ view'.pendingFloraOps = <<>>
           /\ "flora" \in Installed => (view'.floraLoaded => view.floraLoaded /\ view'.flora = view.flora)
           /\ view'.terrain = NoGrid \/ view'.terrain = view.terrain
           /\ view'.pendingTerrainDeltas = <<>> \/ view'.pendingTerrainDeltas = view.pendingTerrainDeltas
<1>1. PICK agents, s : agents = At("agents", doc.at) /\ s = view
  OBVIOUS
<1>2. /\ doc \in Docs /\ doc \in Doc /\ ~stale(view, doc) /\ agents \in Nat /\ ~view.snapshotLoaded
      /\ view' = SNAPSHOT_LOADED(view, doc, agents)
      /\ shown' = [shown EXCEPT !["snapshot"] = doc]
      /\ Coming = {} /\ Coming' = {}
  BY <1>1, TakeSnapshot
<1>12. PICK t : t = SNAPSHOT_LOADED(s, doc, agents)
  OBVIOUS
<1>32. PICK sw \in BOOLEAN : sw <=> revisionSwitch(s, doc)
  OBVIOUS
<1>4. s \in View /\ ~stale(s, doc) /\ doc \in Doc /\ agents \in Nat
  BY <1>1, <1>2 DEF ViewInv, Typed
<1>3. /\ t \in View /\ t.agents = agents /\ t.snapshotLoaded
      /\ t.worldRevision = doc.rev /\ t.snapshotCursor = doc.cursor
      /\ t.lastApplied = IF doc.cursor # 0 THEN doc.cursor
                         ELSE IF sw THEN 0 ELSE s.lastApplied
      /\ (t.paused <=> s.paused)
      /\ t.pendingFloraOps = IF sw \/ "flora" \notin Installed THEN <<>> ELSE s.pendingFloraOps
      /\ "flora" \in Installed =>
           /\ t.floraLoaded <=> ~sw /\ s.floraLoaded
           /\ t.flora = IF sw THEN 0 ELSE s.flora
      /\ t.pendingTerrainDeltas =
           IF sw \/ "terrain" \notin Installed THEN <<>> ELSE s.pendingTerrainDeltas
      /\ t.terrain = IF sw \/ "terrain" \notin Installed THEN NoGrid ELSE s.terrain
  BY <1>4, <1>12, <1>32, SnapshotFacts
<1>5. view' = t
  BY <1>1, <1>2, <1>12
<1>6. shown \in [Baselines -> Doc] /\ loads \in [Baselines -> Load] /\ "snapshot" \in Baselines
  BY DEF ViewInv, Typed, Baselines
<1>7. /\ shown'["snapshot"] = doc
      /\ \A b \in Baselines \ {"snapshot"} : shown'[b] = shown[b]
  BY <1>2, <1>6
<1>8. UNCHANGED <<feedVars, pos, tail, wire>> /\ loads' = [loads EXCEPT !["snapshot"] = Idle]
  BY DEF Accept
<1>9. \A b \in Baselines \ {"snapshot"} : loads'[b] = loads[b]
  BY <1>6, <1>8
<1>10. agents = LastIn(log, "agents", doc.at)
  BY <1>1, AtIs
<1>11. "flora" \in Installed => (view'.floraLoaded => view.floraLoaded /\ view'.flora = view.flora)
  BY <1>1, <1>3, <1>5
<1> QED
  BY <1>1, <1>2, <1>3, <1>5, <1>7, <1>8, <1>9, <1>10, <1>11

\* What taken plants do: they are drawn with what waited replayed, or turned down.
LEMMA FloraView ==
    ASSUME ViewInv, "flora" \in Baselines, Accept("flora"),
           NEW doc, doc = loads["flora"].doc, NEW base, base = LastIn(log, "flora", doc.at)
    PROVE  /\ doc \in Docs /\ base \in Nat /\ base <= doc.at
           /\ shown'["snapshot"] = shown["snapshot"]
           /\ \/ UNCHANGED <<view, shown>>
              \/ /\ shown'["flora"] = doc /\ view'.floraLoaded /\ view'.pendingFloraOps = <<>>
                 /\ view'.flora \in Nat /\ view'.flora >= base
                 /\ \/ view'.flora = base /\ \A op \in Queue : doc.cursor # 0 /\ op <= doc.cursor
                    \/ \E i \in DOMAIN view.pendingFloraOps :
                          /\ view'.flora = view.pendingFloraOps[i]
                          /\ \A j \in DOMAIN view.pendingFloraOps :
                                (doc.cursor = 0 \/ view.pendingFloraOps[j] > doc.cursor) => j <= i
<1>1. Typed /\ Frames /\ Positions /\ Documents /\ Drawn /\ view \in View
  BY DEF ViewInv, Typed
<1>2. PICK s : s = view
  OBVIOUS
<1>3. doc \in Docs
  <2>1. "flora" # "snapshot"
    OBVIOUS
  <2> QED
    BY <2>1, TakeLayer
<1>4. /\ loads["flora"].state = "answered" /\ view' = loaded("flora", doc)
      /\ shown' = IF rejected("flora", doc) THEN shown ELSE [shown EXCEPT !["flora"] = doc]
  BY DEF Accept
<1>5. view.worldRevision # 0
  BY <1>4 DEF ViewInv, RevisionInv, LoadsTagged
<1>6. /\ doc \in Doc /\ doc.at \in Nat /\ doc.cursor \in Nat /\ Apart(doc)
  BY <1>1, <1>3, DocFacts DEF Docs, Documents
<1>7. PICK x : x = At("flora", doc.at)
  OBVIOUS
<1>8. x \in Nat /\ x <= doc.at /\ x = LastIn(log, "flora", doc.at)
  <2>1. x = LastIn(log, "flora", doc.at)
    BY <1>7, AtIs
  <2>2. At("flora", doc.at) \in Nat /\ At("flora", doc.at) <= doc.at
    BY <1>1, <1>6, AtNat
  <2> QED
    BY <1>7, <2>1, <2>2
<1>9. s.pendingFloraOps \in Seq(Nat) /\ s \in View /\ s.worldRevision # 0
  BY <1>1, <1>2, <1>5 DEF View
<1>10. PICK r : r = applyFloraOps(x, s.pendingFloraOps, doc.cursor)
  OBVIOUS
<1>11. view' = FLORA_LOADED(s, doc, x)
  BY <1>2, <1>4, <1>7 DEF loaded
<1>12. /\ doc.rev # s.worldRevision => FLORA_LOADED(s, doc, x) = s
       /\ doc.rev = s.worldRevision =>
            FLORA_LOADED(s, doc, x) = [s EXCEPT !.flora = applyFloraOps(x, s.pendingFloraOps, doc.cursor),
                                                !.pendingFloraOps = <<>>, !.floraLoaded = TRUE]
  BY <1>9 DEF FLORA_LOADED
<1>13. CASE doc.rev # s.worldRevision
  <2>1. rejected("flora", doc)
    BY <1>2, <1>5, <1>13 DEF rejected
  <2>2. view' = view /\ shown' = shown
    BY <1>2, <1>4, <1>11, <1>12, <1>13, <2>1
  <2> QED
    BY <1>2, <1>3, <1>8, <2>2
<1>14. CASE doc.rev = s.worldRevision
  <2>1. ~rejected("flora", doc)
    BY <1>2, <1>14 DEF rejected
  <2>2. shown'["flora"] = doc /\ shown'["snapshot"] = shown["snapshot"]
    BY <1>1, <1>4, <2>1 DEF Typed
  <2>3. view' = [s EXCEPT !.flora = r, !.pendingFloraOps = <<>>, !.floraLoaded = TRUE]
    BY <1>10, <1>11, <1>12, <1>14
  <2>4. view'.flora = r /\ view'.floraLoaded /\ view'.pendingFloraOps = <<>>
    BY <1>9, <2>3 DEF View
  <2>5. /\ r \in Nat
        /\ \/ r = x /\ \A i \in DOMAIN s.pendingFloraOps : doc.cursor # 0 /\ s.pendingFloraOps[i] <= doc.cursor
           \/ \E i \in DOMAIN s.pendingFloraOps :
                 /\ r = s.pendingFloraOps[i] /\ (doc.cursor = 0 \/ s.pendingFloraOps[i] > doc.cursor)
                 /\ \A j \in DOMAIN s.pendingFloraOps : (doc.cursor = 0 \/ s.pendingFloraOps[j] > doc.cursor) => j <= i
    BY <1>6, <1>8, <1>9, <1>10, ReplayFacts
  <2>6. r >= x
    <3>1. CASE r = x
      BY <1>8, <3>1
    <3>2. ASSUME NEW i \in DOMAIN s.pendingFloraOps,
                 r = s.pendingFloraOps[i], doc.cursor = 0 \/ s.pendingFloraOps[i] > doc.cursor
          PROVE  r >= x
      <4>1. r \in Queue /\ r \in Held /\ r \in Nat
        BY <1>1, <1>2, <3>2, HeldFacts DEF Queue
      <4>2. r > doc.at
        <5>1. CASE doc.cursor # 0
          BY <1>6, <3>2, <4>1, <5>1 DEF Apart
        <5>2. CASE doc.cursor = 0
          BY <1>2, <1>6, <1>14, <4>1, <5>2 DEF Apart
        <5> QED
          BY <5>1, <5>2
      <4> QED
        BY <1>6, <1>8, <4>1, <4>2
    <3> QED
      BY <2>5, <3>1, <3>2
  <2>7. CASE r = x /\ \A i \in DOMAIN s.pendingFloraOps : doc.cursor # 0 /\ s.pendingFloraOps[i] <= doc.cursor
    <3>1. \A op \in Queue : doc.cursor # 0 /\ op <= doc.cursor
      BY <1>2, <2>7 DEF Queue
    <3> QED
      BY <1>2, <1>3, <1>8, <2>2, <2>4, <2>5, <2>6, <2>7, <3>1
  <2>8. CASE \E i \in DOMAIN s.pendingFloraOps :
                 /\ r = s.pendingFloraOps[i] /\ (doc.cursor = 0 \/ s.pendingFloraOps[i] > doc.cursor)
                 /\ \A j \in DOMAIN s.pendingFloraOps : (doc.cursor = 0 \/ s.pendingFloraOps[j] > doc.cursor) => j <= i
    BY <1>2, <1>3, <1>8, <2>2, <2>4, <2>5, <2>6, <2>8
  <2> QED
    BY <2>5, <2>7, <2>8
<1> QED
  BY <1>13, <1>14

\* What a taken grid does: it is drawn with the last delta that waited on top.
LEMMA TerrainView ==
    ASSUME ViewInv, "terrain" \in Baselines, Accept("terrain"),
           NEW doc, doc = loads["terrain"].doc, NEW base, base = LastIn(log, "terrain", doc.at)
    PROVE  /\ doc \in Docs /\ base \in Nat /\ base <= doc.at
           /\ shown'["snapshot"] = shown["snapshot"] /\ shown'["terrain"] = doc
           /\ view'.terrain = replay(base, view.pendingTerrainDeltas) /\ view'.terrain \in Nat
           /\ view'.pendingTerrainDeltas = <<>>
           /\ view'.flora = view.flora /\ view'.floraLoaded = view.floraLoaded
           /\ view'.pendingFloraOps = view.pendingFloraOps
<1>1. Typed /\ Positions /\ Documents /\ view \in View
  BY DEF ViewInv, Typed
<1>2. PICK s : s = view
  OBVIOUS
<1>3. doc \in Docs
  <2>1. "terrain" # "snapshot"
    OBVIOUS
  <2> QED
    BY <2>1, TakeLayer
<1>4. view' = loaded("terrain", doc) /\ shown' = [shown EXCEPT !["terrain"] = doc]
  BY DEF Accept, rejected
<1>5. doc.at \in Nat
  BY <1>1, <1>3, DocFacts
<1>6. base \in Nat /\ base <= doc.at /\ At("terrain", doc.at) = base
  BY <1>1, <1>5, AtNat, AtIs
<1>7. view' = TERRAIN_LOADED(s, base)
  BY <1>2, <1>4, <1>6 DEF loaded
<1>8. PICK r : r = replay(base, s.pendingTerrainDeltas)
  OBVIOUS
<1>9. r \in Nat /\ view' = [s EXCEPT !.terrain = r, !.pendingTerrainDeltas = <<>>]
  BY <1>1, <1>2, <1>6, <1>7, <1>8, TerrainFacts
<1>10. /\ view'.terrain = r /\ view'.pendingTerrainDeltas = <<>>
       /\ view'.flora = s.flora /\ view'.floraLoaded = s.floraLoaded
       /\ view'.pendingFloraOps = s.pendingFloraOps
  BY <1>1, <1>2, <1>9 DEF View
<1>11. shown'["snapshot"] = shown["snapshot"] /\ shown'["terrain"] = doc
  BY <1>1, <1>4 DEF Typed
<1> QED
  BY <1>2, <1>3, <1>6, <1>8, <1>9, <1>10, <1>11

----------------------------------------------------------------------------
(* Where the documents come from, and what is retained.                    *)

\* Only a flush makes a document: the stamp of the moment.
LEMMA NewDocs ==
    ASSUME ViewInv, Next
    PROVE  Docs' \subseteq Docs \cup {stamp} /\ (log' # log => Docs' \subseteq Docs)
<1>1. /\ Typed /\ Drawn /\ live \in [Baselines -> Doc] /\ shown \in [Baselines -> Doc]
      /\ loads \in [Baselines -> Load]
  BY DEF ViewInv, Typed
<1>2. \A b \in Baselines : shown[b] \in Docs \cup {NoDoc} /\ loads[b].doc \in Docs \cup {NoDoc}
                           /\ live[b] \in Docs \cup {NoDoc}
  BY <1>1, Kept
<1>3. CASE Feed /\ ~WriteBaseline
  <2>1. live' = live \/ live' = [b \in Baselines |-> NoDoc]
    BY <1>3 DEF Feed, Produce, Emitting, Emit, BeginFlush, Publish, Regen, Restart, Reboot
  <2>2. UNCHANGED <<loads, shown>>
    BY <1>3 DEF Feed, clientVars
  <2>3. \A b \in Baselines : live'[b] \in Docs \cup {NoDoc}
    BY <1>2, <2>1
  <2> QED
    BY <1>1, <1>2, <2>2, <2>3, NoNewDocs
<1>4. CASE Feed /\ WriteBaseline
  <2>1. /\ live' = live \/ live' = [live EXCEPT ![Head(flush)] = stamp]
        /\ log' = log /\ UNCHANGED <<loads, shown>>
    BY <1>4 DEF Feed, WriteBaseline, clientVars
  <2>2. \A b \in Baselines : live'[b] \in {live[b], stamp}
    BY <1>1, <2>1
  <2>3. \A d \in Docs' : d \in Docs \cup {stamp}
    <3> SUFFICES ASSUME NEW d \in Docs' PROVE d \in Docs \cup {stamp}
      OBVIOUS
    <3>1. /\ d \in Doc /\ d # NoDoc
          /\ \E b \in Baselines : d = live'[b] \/ d = loads'[b].doc \/ d = shown'[b]
      BY DEF Docs
    <3> QED
      BY <1>2, <2>1, <2>2, <3>1
  <2> QED
    BY <2>1, <2>3
<1>5. CASE Server
  <2>1. UNCHANGED <<live, loads, shown>>
    BY <1>5 DEF Server, Connect, BlockAtEnd, Read, Drop, feedVars
  <2> QED
    BY <1>1, <1>2, <2>1, NoNewDocs
<1>6. CASE Client
  <2>1. UNCHANGED <<log, live>>
    BY <1>6 DEF Client, Loading, Deliver, Refetch, Answer, Accept, RunEffects, TogglePause, feedVars
  <2>2. \A b \in Baselines : shown'[b] \in {shown[b], loads[b].doc}
    <3>1. CASE Deliver \/ Refetch \/ RunEffects \/ TogglePause \/ \E b \in Baselines : Answer(b)
      BY <3>1 DEF Deliver, Refetch, Answer, RunEffects, TogglePause
    <3>2. ASSUME NEW b \in Baselines, Accept(b)
          PROVE  \A c \in Baselines : shown'[c] \in {shown[c], loads[c].doc}
      <4>1. shown' = shown \/ shown' = [shown EXCEPT ![b] = loads[b].doc]
        BY <3>2 DEF Accept
      <4> QED
        BY <1>1, <4>1
    <3> QED
      BY <1>6, <3>1, <3>2 DEF Client, Loading
  <2>3. \A b \in Baselines : loads'[b].doc \in {loads[b].doc, live[b], NoDoc}
    <3>1. CASE Deliver \/ TogglePause
      BY <3>1 DEF Deliver, TogglePause
    <3>2. \A x, y : ask(x, y).doc = NoDoc /\ Idle.doc = NoDoc
      BY DEF ask, Idle
    <3>3. CASE Refetch
      <4>1. PICK q : q = ask(0, 0)
        OBVIOUS
      <4>2. loads' = [loads EXCEPT !["snapshot"] = q] /\ q.doc = NoDoc
        BY <3>2, <3>3, <4>1 DEF Refetch
      <4> QED
        BY <1>1, <4>2
    <3>4. ASSUME NEW b \in Baselines, Answer(b)
          PROVE  \A c \in Baselines : loads'[c].doc \in {loads[c].doc, live[c], NoDoc}
      <4>1. PICK q : q = [loads[b] EXCEPT !.state = "answered", !.doc = live[b]]
        OBVIOUS
      <4>2. q.doc = live[b]
        <5>1. loads[b] \in Load
          BY <1>1
        <5> QED
          BY <4>1, <5>1 DEF Load
      <4>3. loads' = [loads EXCEPT ![b].state = "answered", ![b].doc = live[b]]
        BY <3>4 DEF Answer
      <4>4. loads' = [loads EXCEPT ![b] = q]
        BY <1>1, <4>1, <4>3
      <4> QED
        BY <1>1, <4>2, <4>4
    <3>5. CASE RunEffects
      <4>1. \A b \in Baselines : loads'[b] = loads[b] \/ \E x, y : loads'[b] = ask(x, y)
        BY <3>5 DEF RunEffects
      <4> QED
        BY <3>2, <4>1
    <3>6. ASSUME NEW b \in Baselines, Accept(b)
          PROVE  \A c \in Baselines : loads'[c].doc \in {loads[c].doc, live[c], NoDoc}
      <4>1. loads' = [loads EXCEPT ![b] = Idle]
        BY <3>6 DEF Accept
      <4> QED
        BY <1>1, <3>2, <4>1
    <3> QED
      BY <1>6, <3>1, <3>3, <3>4, <3>5, <3>6 DEF Client, Loading
  <2>4. \A b \in Baselines : /\ live'[b] \in Docs \cup {NoDoc} /\ shown'[b] \in Docs \cup {NoDoc}
                             /\ loads'[b].doc \in Docs \cup {NoDoc}
    BY <1>2, <2>1, <2>2, <2>3
  <2> QED
    BY <1>1, <2>4, NoNewDocs
<1> QED
  BY <1>3, <1>4, <1>5, <1>6 DEF Next

\* One append that is not lost: the entry is retained, a prefix may be dropped.
LEMMA Appended ==
    ASSUME Typed, Retention, Lossless, NEW k \in Kinds, Emit(k)
    PROVE  /\ Longer(log, k, log') /\ k \in Slices /\ lastID' = Len(log) + 1
           /\ Len(log) + 1 \in retained' /\ retained' \subseteq retained \cup {Len(log) + 1}
           /\ maxDeleted' \in Nat /\ maxDeleted <= maxDeleted' /\ maxDeleted' <= Len(log)
           /\ \A n \in retained : n \in retained' <=> n > maxDeleted'
           /\ ~Trims => maxDeleted' = maxDeleted
<1>1. /\ log' = Append(log, k) /\ XAdd(Now + 1) /\ lastID' = Now + 1
  BY DEF Emit, Lossless
<1>2. PICK L : L = Len(log)
  OBVIOUS
<1>3. /\ L \in Nat /\ DOMAIN log = 1..L /\ retained \subseteq 1..L /\ maxDeleted \in Nat /\ maxDeleted <= L
      /\ \A n \in retained : n > maxDeleted
  BY <1>2 DEF Typed, Retention
<1>4. PICK cut \in {0} \cup (IF Trims THEN retained ELSE {}) :
          /\ retained' = {n \in retained : n > cut} \cup {Now + 1}
          /\ maxDeleted' = IF cut = 0 THEN maxDeleted ELSE cut
  BY <1>1 DEF XAdd
<1>5. Longer(log, k, log')
  BY <1>1, <1>2, <1>3 DEF Longer, Typed
<1>6. k \in Slices
  BY DEF Slices
<1>7. /\ cut \in Nat /\ cut # 0 => cut \in retained /\ Trims
  BY <1>3, <1>4
<1>8. retained' = {n \in retained : n > cut} \cup {L + 1}
  BY <1>2, <1>4 DEF Now
<1>9. maxDeleted' \in Nat /\ maxDeleted <= maxDeleted' /\ maxDeleted' <= L
  BY <1>3, <1>4, <1>7
<1>10. \A n \in retained : n \in retained' <=> n > maxDeleted'
  <2> SUFFICES ASSUME NEW n \in retained PROVE n \in retained' <=> n > maxDeleted'
    OBVIOUS
  <2>1. n \in Nat /\ n <= L /\ n > maxDeleted
    BY <1>3
  <2>2. n \in retained' <=> n > cut
    BY <1>3, <1>8, <2>1
  <2> QED
    BY <1>3, <1>4, <1>7, <2>1, <2>2
<1> QED
  BY <1>1, <1>2, <1>4, <1>5, <1>6, <1>7, <1>8, <1>9, <1>10 DEF Now

\* The world is replaced: the history has its entry, the stream keeps all or nothing.
LEMMA Replaced ==
    ASSUME Typed, Regen \/ Restart \/ Reboot
    PROVE  \E x \in Rebuilds :
             /\ Longer(log, x, log') /\ lastID' \in {0, lastID}
             /\ \/ retained' = retained /\ maxDeleted' = maxDeleted
                \/ x = "regen" /\ retained' = {} /\ maxDeleted' = 0
<1>1. PICK x \in Rebuilds :
         /\ log' = Append(log, x) /\ lastID' \in {0, lastID}
         /\ \/ retained' = retained /\ maxDeleted' = maxDeleted
            \/ x = "regen" /\ retained' = {} /\ maxDeleted' = 0
  BY DEF Regen, Restart, Reboot, Rebuild
<1>2. Longer(log, x, log')
  BY <1>1 DEF Longer, Typed
<1> QED
  BY <1>1, <1>2

----------------------------------------------------------------------------
(* Retention: what left the stream, and what a cursor stands for.          *)

\* Connection and client leave stream and store alone.
LEMMA FeedOnly == Next => Feed \/ UNCHANGED feedVars
BY DEF Next, Server, Connect, BlockAtEnd, Read, Drop, Client, Deliver, Refetch,
       Loading, Answer, Accept, RunEffects, TogglePause

\* What a cursor covers of a document does not change as the history grows.
LEMMA DocsRetained ==
    ASSUME ViewInv, Retention, Next, NEW d \in Docs
    PROVE  /\ d.cursor <= d.at
           /\ d.cursor # 0 => \A m \in DOMAIN log' : (d.cursor < m /\ m <= d.at) => log'[m] \in Rebuilds
<1>1. d.at \in Nat /\ d.cursor \in Nat /\ d.at <= Len(log) /\ Len(log) \in Nat /\ DOMAIN log = 1..Len(log)
  BY DocFacts, HeldFacts DEF ViewInv
<1>2. /\ d.cursor <= d.at
      /\ d.cursor # 0 => \A m \in DOMAIN log : (d.cursor < m /\ m <= d.at) => log[m] \in Rebuilds
  BY DEF Retention
<1>3. log' = log \/ \E x : log' = Append(log, x)
  BY HistoryGrows
<1>4. \A m \in DOMAIN log' : m <= d.at => m \in DOMAIN log /\ log'[m] = log[m]
  <2>1. CASE log' = log
    BY <2>1
  <2>2. ASSUME NEW x, log' = Append(log, x)
        PROVE  \A m \in DOMAIN log' : m <= d.at => m \in DOMAIN log /\ log'[m] = log[m]
    <3>1. Longer(log, x, log')
      BY <2>2 DEF Longer, ViewInv, Typed
    <3> QED
      BY <1>1, <3>1 DEF Longer
  <2> QED
    BY <1>3, <2>1, <2>2
<1> QED
  BY <1>2, <1>4

\* Every step keeps what left the stream accounted for.
LEMMA RetentionStep ==
    ASSUME ViewInv, Retention, Lossless, [Next]_vars
    PROVE  Retention'
<1>1. /\ Typed /\ Len(log) \in Nat /\ DOMAIN log = 1..Len(log) /\ retained \subseteq 1..Len(log)
      /\ maxDeleted \in Nat /\ lastID \in 0..Len(log)
  BY DEF ViewInv, Typed
<1>2. PICK L : L = Len(log)
  OBVIOUS
<1>3. /\ maxDeleted <= L /\ \A n \in retained : n > maxDeleted
      /\ \A m \in DOMAIN log \ retained :
            \/ log[m] \in Rebuilds
            \/ m <= maxDeleted
            \/ \E g \in DOMAIN log : g > m /\ log[g] = "regen" /\ \A n \in retained : n > g
      /\ lastID # 0 => \A m \in DOMAIN log : lastID < m => log[m] \in Rebuilds
  BY <1>2 DEF Retention
<1>4. CASE UNCHANGED vars
  <2>1. UNCHANGED <<log, retained, maxDeleted, lastID>> /\ Docs' = Docs
    BY <1>4 DEF vars, feedVars, clientVars, Docs
  <2> QED
    BY <2>1 DEF Retention
<1>5. ASSUME Next, \A d \in Docs' : d \in Docs \/ (d = stamp /\ log' = log)
      PROVE  \A d \in Docs' : /\ d.cursor <= d.at
                              /\ d.cursor # 0 => \A m \in DOMAIN log' : (d.cursor < m /\ m <= d.at) => log'[m] \in Rebuilds
  <2> SUFFICES ASSUME NEW d \in Docs'
               PROVE  /\ d.cursor <= d.at
                      /\ d.cursor # 0 => \A m \in DOMAIN log' : (d.cursor < m /\ m <= d.at) => log'[m] \in Rebuilds
    OBVIOUS
  <2>1. CASE d \in Docs
    BY <1>5, <2>1, DocsRetained
  <2>2. CASE d = stamp /\ log' = log
    <3>1. d.cursor = lastID /\ d.at = L
      BY <1>2, <2>2 DEF stamp, Now
    <3> QED
      BY <1>1, <1>2, <1>3, <2>2, <3>1
  <2> QED
    BY <1>5, <2>1, <2>2
<1>6. ASSUME Next
      PROVE  \A d \in Docs' : /\ d.cursor <= d.at
                              /\ d.cursor # 0 => \A m \in DOMAIN log' : (d.cursor < m /\ m <= d.at) => log'[m] \in Rebuilds
  <2>1. Docs' \subseteq Docs \cup {stamp} /\ (log' # log => Docs' \subseteq Docs)
    BY <1>6, NewDocs
  <2> QED
    BY <1>5, <1>6, <2>1
<1>7. ASSUME Next, UNCHANGED <<log, retained, maxDeleted, lastID>>
      PROVE  Retention'
  BY <1>2, <1>3, <1>6, <1>7 DEF Retention
<1>8. ASSUME Next, NEW k \in Kinds, Emit(k)
      PROVE  Retention'
  <2>1. /\ Longer(log, k, log') /\ lastID' = L + 1
        /\ L + 1 \in retained' /\ retained' \subseteq retained \cup {L + 1}
        /\ maxDeleted' \in Nat /\ maxDeleted <= maxDeleted' /\ maxDeleted' <= L
        /\ \A n \in retained : n \in retained' <=> n > maxDeleted'
    BY <1>1, <1>2, <1>8, Appended
  <2>2. DOMAIN log' = 1..(L + 1) /\ (\A m \in 1..L : log'[m] = log[m]) /\ Len(log') = L + 1
    BY <1>1, <1>2, <1>8, <2>1 DEF Longer, Emit
  <2>3. maxDeleted' <= Len(log') /\ \A n \in retained' : n > maxDeleted'
    BY <1>1, <1>2, <2>1, <2>2
  <2>4. ASSUME NEW m \in DOMAIN log' \ retained'
        PROVE  \/ log'[m] \in Rebuilds
               \/ m <= maxDeleted'
               \/ \E g \in DOMAIN log' : g > m /\ log'[g] = "regen" /\ \A n \in retained' : n > g
    <3>1. m \in 1..L /\ log'[m] = log[m]
      BY <1>1, <1>2, <2>1, <2>2
    <3>2. CASE m \in retained
      BY <2>1, <3>1, <3>2
    <3>3. ASSUME NEW g \in DOMAIN log, g > m, log[g] = "regen", \A n \in retained : n > g
          PROVE  g \in DOMAIN log' /\ log'[g] = "regen" /\ \A n \in retained' : n > g
      BY <1>1, <1>2, <2>1, <2>2, <3>3
    <3> QED
      BY <1>1, <1>2, <1>3, <2>1, <3>1, <3>2, <3>3
  <2>5. lastID' # 0 => \A m \in DOMAIN log' : lastID' < m => log'[m] \in Rebuilds
    BY <1>1, <1>2, <2>1, <2>2
  <2> QED
    BY <1>6, <1>8, <2>3, <2>4, <2>5 DEF Retention
<1>9. ASSUME Next, Regen \/ Restart \/ Reboot
      PROVE  Retention'
  <2>1. PICK x \in Rebuilds :
             /\ Longer(log, x, log') /\ lastID' \in {0, lastID}
             /\ \/ retained' = retained /\ maxDeleted' = maxDeleted
                \/ x = "regen" /\ retained' = {} /\ maxDeleted' = 0
    BY <1>1, <1>9, Replaced
  <2>2. DOMAIN log' = 1..(L + 1) /\ (\A m \in 1..L : log'[m] = log[m]) /\ Len(log') = L + 1 /\ log'[L + 1] = x
    <3>1. Len(log') = Len(log) + 1
      BY <1>1, <1>9 DEF Regen, Restart, Reboot, Rebuild
    <3> QED
      BY <1>1, <1>2, <2>1, <3>1 DEF Longer
  <2>3. maxDeleted' <= Len(log') /\ \A n \in retained' : n > maxDeleted'
    <3>1. Len(log') = L + 1 /\ L \in Nat /\ maxDeleted \in Nat /\ maxDeleted <= L
      BY <1>1, <1>2, <1>3, <2>2
    <3>2. CASE retained' = retained /\ maxDeleted' = maxDeleted
      BY <1>3, <3>1, <3>2
    <3>3. CASE retained' = {} /\ maxDeleted' = 0
      BY <3>1, <3>3
    <3> QED
      BY <2>1, <3>2, <3>3
  <2>4. ASSUME NEW m \in DOMAIN log' \ retained'
        PROVE  \/ log'[m] \in Rebuilds
               \/ m <= maxDeleted'
               \/ \E g \in DOMAIN log' : g > m /\ log'[g] = "regen" /\ \A n \in retained' : n > g
    <3>1. CASE m = L + 1
      BY <2>1, <2>2, <3>1
    <3>2. CASE m # L + 1
      <4>1. m \in 1..L /\ log'[m] = log[m]
        BY <1>1, <1>2, <2>2, <3>2
      <4>2. CASE retained' = retained /\ maxDeleted' = maxDeleted
        <5>1. ASSUME NEW g \in DOMAIN log, g > m, log[g] = "regen", \A n \in retained : n > g
              PROVE  g \in DOMAIN log' /\ log'[g] = "regen" /\ \A n \in retained' : n > g
          BY <1>1, <1>2, <2>2, <4>2, <5>1
        <5> QED
          BY <1>1, <1>2, <1>3, <4>1, <4>2, <5>1
      <4>3. CASE x = "regen" /\ retained' = {} /\ maxDeleted' = 0
        <5>1. L + 1 \in DOMAIN log' /\ L + 1 > m /\ log'[L + 1] = "regen"
          BY <1>1, <1>2, <2>2, <4>1, <4>3
        <5> QED
          BY <4>3, <5>1
      <4> QED
        BY <2>1, <4>2, <4>3
    <3> QED
      BY <3>1, <3>2
  <2>5. lastID' # 0 => \A m \in DOMAIN log' : lastID' < m => log'[m] \in Rebuilds
    BY <1>1, <1>2, <1>3, <2>1, <2>2
  <2> QED
    BY <1>6, <1>9, <2>3, <2>4, <2>5 DEF Retention
<1>10. ASSUME Next, Feed PROVE Retention'
  <2>1. CASE BeginFlush \/ WriteBaseline \/ Publish
    BY <1>7, <1>10, <2>1 DEF BeginFlush, WriteBaseline, Publish
  <2> QED
    BY <1>8, <1>9, <1>10, <2>1 DEF Feed, Produce, Emitting
<1>11. ASSUME Next, ~Feed PROVE Retention'
  BY <1>7, <1>11, FeedOnly DEF feedVars
<1> QED
  BY <1>4, <1>10, <1>11

----------------------------------------------------------------------------
(* Gapless: what comes, comes without a gap.                               *)

\* Only history and what the stream holds, the position and what is under way, and
\* the snapshot drawn and what was applied over it matter.
LEMMA GaplessQuiet ==
    ASSUME Gapless, UNCHANGED <<log, pos, tail>>, Coming' = Coming,
           view'.snapshotLoaded <=> view.snapshotLoaded, view'.paused <=> view.paused,
           view'.snapshotCursor = view.snapshotCursor, view'.lastApplied = view.lastApplied,
           shown'["snapshot"] = shown["snapshot"]
    PROVE  Gapless'
<1>1. Horizon' = Horizon
  BY DEF Horizon
<1> QED
  BY <1>1 DEF Gapless

\* Without a connection nothing comes.
LEMMA GaplessClosed ==
    ASSUME Coming' = {}, pos' = Closed, Len(log') \in Nat, ~view'.paused, ~tail'
    PROVE  Gapless'
<1>1. Horizon' = {}
  BY DEF Horizon
<1> QED
  BY <1>1 DEF Gapless, Closed

\* The end of the stream is a position of the history.
LEMMA StartFacts ==
    ASSUME Typed, Retention
    PROVE  sseStartID \in Nat /\ sseStartID <= Len(log)
<1>1. PICK M : M = retained \cup {maxDeleted, 0}
  OBVIOUS
<1>2. PICK L : L = Len(log)
  OBVIOUS
<1>3. /\ L \in Nat /\ DOMAIN log = 1..L /\ retained \subseteq DOMAIN log
      /\ maxDeleted \in Nat /\ maxDeleted <= L
  BY <1>2 DEF Typed, Retention
<1>4. M \subseteq Nat /\ M # {} /\ M \subseteq 0..L
  BY <1>1, <1>3
<1>5. IsFiniteSet(M)
  <2>1. 0 \in Int /\ L \in Int
    BY <1>3
  <2>2. IsFiniteSet(0..L)
    BY <2>1, FS_Interval
  <2> QED
    BY <1>4, <2>2, FS_Subset
<1>6. Max(M) \in M
  BY <1>4, <1>5, MaxFacts
<1> QED
  BY <1>1, <1>2, <1>3, <1>4, <1>6 DEF sseStartID

\* A regen is a replacement of the world.
LEMMA RegenRebuilds ==
    ASSUME Typed, NEW g \in DOMAIN log, log[g] = "regen"
    PROVE  "regen" \in Rebuilds
<1>1. log[g] \in Slices \cup Rebuilds
  BY DEF Typed
<1>2. "regen" \notin Slices
  BY FeedAssumption DEF Slices
<1> QED
  BY <1>1, <1>2

\* A connection resumes where the view is, or reports a gap and closes.
LEMMA ConnectGapless ==
    ASSUME ViewInv, Retention, Gapless, Lossless, Connect
    PROVE  Gapless'
<1>1. /\ Typed /\ Frames /\ Positions /\ Drawn /\ view \in View /\ ~XInfoMayFail
  BY DEF ViewInv, Typed, Lossless
<1>2. PICK L : L = Len(log)
  OBVIOUS
<1>3. /\ L \in Nat /\ DOMAIN log = 1..L /\ retained \subseteq 1..L /\ maxDeleted \in Nat
      /\ view.lastApplied \in Nat /\ view.snapshotCursor \in Nat /\ view.lastApplied <= L
  BY <1>1, <1>2, HeldFacts DEF Typed, Positions
<1>4. /\ view.snapshotLoaded /\ pos = Closed /\ UNCHANGED <<log, retained, view, shown>>
      /\ ~tail /\ ~view.paused /\ view.snapshotCursor <= L /\ view.lastApplied >= view.snapshotCursor
  BY <1>1, <1>2, <1>3 DEF Connect, feedVars, Frames, Drawn, Gapless
<1>5. /\ Sent' = {}
      /\ \/ pos' \in Nat /\ Unread' = {}
         \/ wire' = <<GapFrame>> /\ pos' = Closed /\ Unread' = {}
         \/ /\ cursor # 0 /\ ~gapped(cursor) /\ wire' = <<>> /\ pos' = cursor /\ pos' \in Nat
            /\ Unread' = {n \in retained : n > cursor}
  BY <1>1, ConnectFacts
<1>6. CASE cursor = 0 /\ pos' = sseStartID /\ tail' = TRUE
  <2>1. view.snapshotCursor = 0
    BY <1>6 DEF cursor
  <2>2. pos' <= Len(log')
    BY <1>1, <1>4, <1>6, StartFacts
  <2> QED
    BY <1>4, <2>1, <2>2 DEF Gapless
<1>7. CASE cursor # 0 /\ gapped(cursor) /\ wire' = <<GapFrame>> /\ UNCHANGED <<pos, tail>>
  <2>1. Coming' = {}
    BY <1>4, <1>5, <1>7 DEF Coming, Unread
  <2> QED
    BY <1>2, <1>3, <1>4, <1>7, <2>1, GaplessClosed
<1>8. CASE cursor # 0 /\ ~gapped(cursor) /\ pos' = cursor /\ UNCHANGED <<tail, wire>>
  <2>1. cursor = view.lastApplied \/ (view.lastApplied = 0 /\ cursor = view.snapshotCursor)
    BY DEF cursor
  <2>2. pos' \in Nat /\ pos' <= L /\ pos' # Closed
    BY <1>3, <1>4, <1>8, <2>1 DEF Closed
  <2>3. Coming' = {n \in retained : n > cursor}
    <3>1. Unread' = {n \in retained : n > cursor}
      BY <1>4, <1>8, <2>2 DEF Unread, unread
    <3> QED
      BY <1>5, <3>1 DEF Coming
  <2>4. cursor >= maxDeleted /\ cursor \in Nat
    BY <1>3, <1>8, <2>1 DEF gapped
  <2>5. PICK a : a = shown["snapshot"].at
    OBVIOUS
  <2>6. ASSUME view.snapshotCursor # 0, NEW n, n \in Horizon', OneIn(log, a, n),
               NEW m \in DOMAIN log, a < m, m < n, m > view.lastApplied
        PROVE  m \in Coming'
    <3>1. cursor = view.lastApplied
      BY <1>3, <1>4, <2>1, <2>6
    <3>2. SUFFICES ASSUME m \notin retained PROVE FALSE
      BY <2>3, <2>6, <3>1
    <3>3. n \in retained \/ n = L + 1
      BY <1>2, <1>4, <2>2, <2>3, <2>6 DEF Horizon
    <3>4. n \in Nat /\ m \in Nat
      <4>1. m \in Nat
        BY <1>3
      <4>2. n \in Nat
        <5>1. CASE n \in retained
          BY <1>3, <5>1
        <5>2. CASE n = L + 1
          BY <1>3, <5>2
        <5> QED
          BY <3>3, <5>1, <5>2
      <4> QED
        BY <4>1, <4>2
    <3>5. log[m] \notin Rebuilds
      BY <2>6, <3>4 DEF OneIn
    <3>6. ~(m <= maxDeleted)
      BY <1>3, <2>4, <2>6, <3>1, <3>4
    <3>7. PICK g \in DOMAIN log : g > m /\ log[g] = "regen" /\ \A i \in retained : i > g
      BY <2>6, <3>2, <3>5, <3>6 DEF Retention
    <3>8. g <= n
      <4>1. g \in Nat /\ g <= L
        BY <1>3
      <4>2. CASE n \in retained
        BY <3>4, <3>7, <4>1, <4>2
      <4>3. CASE n = L + 1
        BY <1>3, <4>1, <4>3
      <4> QED
        BY <3>3, <4>2, <4>3
    <3>9. a < g
      <4>1. a \in Nat
        <5>1. shown["snapshot"] \in Doc
          BY <1>1 DEF Typed, Baselines
        <5> QED
          BY <2>5, <5>1 DEF Doc
      <4> QED
        BY <1>3, <2>6, <3>4, <3>7, <4>1
    <3>10. log[g] \notin Rebuilds
      BY <2>6, <3>8, <3>9 DEF OneIn
    <3> QED
      BY <1>1, <3>7, <3>10, RegenRebuilds
  <2>7. pos' <= Len(log')
    BY <1>2, <1>4, <2>2
  <2> QED
    BY <1>4, <1>8, <2>5, <2>6, <2>7 DEF Gapless
<1> QED
  BY <1>1, <1>6, <1>7, <1>8 DEF Connect

\* The horizon before and after a step, position by position.
LEMMA HorizonIs ==
    /\ \A n : n \in Horizon <=> n \in Coming \/ (pos # Closed /\ n = Len(log) + 1)
    /\ \A n : n \in Horizon' <=> n \in Coming' \/ (pos' # Closed /\ n = Len(log') + 1)
BY DEF Horizon

\* An entry appended comes behind those before it; a regen closes one world.
LEMMA FeedGapless ==
    ASSUME ViewInv, Retention, Gapless, Lossless, Feed
    PROVE  Gapless'
<1>1. /\ Typed /\ Frames /\ Positions /\ Documents /\ Drawn /\ ~MayBeOvertaken
  BY DEF ViewInv, Lossless
<1>2. PICK L : L = Len(log)
  OBVIOUS
<1>3. /\ L \in Nat /\ DOMAIN log = 1..L /\ retained \subseteq 1..L /\ maxDeleted \in Nat
      /\ pos \in Nat \cup {Closed}
  BY <1>2 DEF Typed, ViewInv
<1>4. /\ UNCHANGED <<view, pos, tail, wire, shown>> /\ (pos # Closed => maxDeleted' <= pos)
      /\ Sent' = Sent /\ ~view.paused
  BY <1>1 DEF Feed, clientVars, Sent, Gapless
<1>5. CASE BeginFlush \/ WriteBaseline \/ Publish
  <2>1. UNCHANGED <<log, retained>>
    BY <1>5 DEF BeginFlush, WriteBaseline, Publish
  <2>2. Coming' = Coming
    BY <1>4, <2>1 DEF Coming, Unread, unread
  <2> QED
    BY <1>4, <2>1, <2>2, GaplessQuiet
<1>6. ASSUME pos = Closed, Len(log') \in Nat
      PROVE  Gapless'
  <2>1. Sent = {} /\ ~tail
    BY <1>1, <1>6 DEF Frames
  <2>2. Coming' = {}
    BY <1>4, <1>6, <2>1 DEF Coming, Unread
  <2> QED
    BY <1>4, <1>6, <2>1, <2>2, GaplessClosed
<1>7. PICK a : a = shown["snapshot"].at
  OBVIOUS
<1>8. (view.snapshotLoaded) => a \in Nat /\ a <= L
  <2>1. view.snapshotLoaded => shown["snapshot"] \in Docs
    BY <1>1, Kept DEF Drawn
  <2> QED
    BY <1>1, <1>2, <1>7, <2>1, DocFacts
<1>9. (view.snapshotLoaded /\ view.snapshotCursor # 0) =>
          \A n : (n \in Horizon /\ OneIn(log, a, n)) =>
              \A m \in DOMAIN log : (a < m /\ m < n /\ m > view.lastApplied) => m \in Coming
  BY <1>7 DEF Gapless
<1>10. Coming \subseteq 1..L
  BY <1>1, <1>3, HeldFacts DEF Positions
<1>11. ASSUME NEW x, Longer(log, x, log'), Len(log') = L + 1, pos # Closed,
              view.snapshotLoaded /\ view.snapshotCursor # 0 =>
                 \A n : (n \in Horizon' /\ OneIn(log', a, n)) =>
                    \A m \in DOMAIN log' : (a < m /\ m < n /\ m > view.lastApplied) => m \in Coming'
       PROVE  Gapless'
  <2>1. pos' <= Len(log')
    BY <1>2, <1>3, <1>4, <1>11 DEF Gapless
  <2>2. tail' => view'.snapshotCursor = 0
    BY <1>4 DEF Gapless
  <2> QED
    BY <1>4, <1>7, <1>11, <2>1, <2>2 DEF Gapless
<1>12. ASSUME NEW k \in Kinds, Emit(k) PROVE Gapless'
  <2>1. /\ Longer(log, k, log') /\ Len(log') = L + 1
        /\ L + 1 \in retained' /\ retained' \subseteq retained \cup {L + 1}
        /\ \A n \in retained : n \in retained' <=> n > maxDeleted'
        /\ maxDeleted' \in Nat
    <3>1. Len(log') = Len(log) + 1
      BY <1>1, <1>12 DEF Typed, Emit
    <3> QED
      BY <1>1, <1>2, <1>12, <3>1, Appended
  <2>2. CASE pos = Closed
    BY <1>3, <1>6, <2>1, <2>2
  <2>3. CASE pos # Closed
    <3>1. Coming' = Coming \cup {L + 1}
      <4>1. pos \in Nat /\ pos <= L /\ maxDeleted' <= pos
        BY <1>2, <1>3, <1>4, <2>3 DEF Gapless
      <4>2. Unread = {n \in retained : n > pos} /\ Unread' = {n \in retained' : n > pos}
        BY <1>4, <2>3 DEF Unread, unread
      <4>3. \A n \in retained : n > pos => n \in retained'
        BY <1>3, <2>1, <4>1
      <4>4. Unread' = Unread \cup {L + 1}
        <5>1. ASSUME NEW n, n \in Unread' PROVE n \in Unread \cup {L + 1}
          BY <2>1, <4>2, <5>1
        <5>2. L + 1 > pos
          BY <1>3, <4>1
        <5>3. ASSUME NEW n, n \in Unread \cup {L + 1} PROVE n \in Unread'
          BY <2>1, <4>2, <4>3, <5>2, <5>3
        <5> QED
          BY <5>1, <5>3
      <4> QED
        BY <1>4, <4>4 DEF Coming
    <3>2. ASSUME view.snapshotLoaded, view.snapshotCursor # 0, NEW n, n \in Horizon', OneIn(log', a, n),
                 NEW m, m \in DOMAIN log', a < m, m < n, m > view.lastApplied
          PROVE  m \in Coming'
      <4>1. DOMAIN log' = 1..(L + 1) /\ \A i \in 1..L : log'[i] = log[i]
        BY <1>2, <2>1 DEF Longer
      <4>2. CASE m = L + 1
        BY <3>1, <4>2
      <4>3. CASE m # L + 1
        <5>1. m \in 1..L /\ m \in DOMAIN log
          BY <1>3, <3>2, <4>1, <4>3
        <5>2. n \in Coming \/ n \in {L + 1, L + 2}
          <6>1. n \in Coming' \/ n = Len(log') + 1
            BY <3>2, HorizonIs
          <6>2. (L + 1) + 1 = L + 2
            BY <1>3
          <6> QED
            BY <2>1, <3>1, <6>1, <6>2
        <5>3. PICK z : z = IF n \in Coming THEN n ELSE L + 1
          OBVIOUS
        <5>4. z \in Horizon
          BY <1>2, <2>3, <5>3 DEF Horizon
        <5>5. z <= n /\ m < z /\ z \in Nat
          <6>1. CASE n \in Coming
            BY <1>3, <1>10, <3>2, <5>1, <5>3, <6>1
          <6>2. CASE n \notin Coming
            BY <1>3, <5>1, <5>2, <5>3, <6>2
          <6> QED
            BY <6>1, <6>2
        <5>6. n \in Nat
          <6>1. CASE n \in Coming
            BY <1>10, <6>1
          <6>2. CASE n \in {L + 1, L + 2}
            BY <1>3, <6>2
          <6> QED
            BY <5>2, <6>1, <6>2
        <5>7. OneIn(log, a, z)
          <6>1. SUFFICES ASSUME NEW r \in DOMAIN log, a < r, r <= z PROVE log[r] \notin Rebuilds
            BY DEF OneIn
          <6>2. r \in 1..L /\ r <= n
            BY <1>3, <5>5, <5>6, <6>1
          <6>3. r \in DOMAIN log' /\ log'[r] = log[r]
            BY <1>3, <4>1, <6>2
          <6> QED
            BY <3>2, <6>1, <6>2, <6>3 DEF OneIn
        <5>8. m \in Coming
          BY <1>9, <3>2, <5>1, <5>4, <5>5, <5>7
        <5> QED
          BY <3>1, <5>8
      <4> QED
        BY <4>2, <4>3
    <3> QED
      BY <1>11, <2>1, <2>3, <3>2
  <2> QED
    BY <2>2, <2>3
<1>13. CASE Regen \/ Restart \/ Reboot
  <2>1. PICK x \in Rebuilds :
             /\ Longer(log, x, log')
             /\ \/ retained' = retained
                \/ x = "regen" /\ retained' = {}
    BY <1>1, <1>13, Replaced
  <2>2. DOMAIN log' = 1..(L + 1) /\ (\A m \in 1..L : log'[m] = log[m]) /\ Len(log') = L + 1 /\ log'[L + 1] = x
    <3>1. Len(log') = Len(log) + 1
      BY <1>1, <1>13 DEF Regen, Restart, Reboot, Rebuild, Typed
    <3> QED
      BY <1>2, <2>1, <3>1 DEF Longer
  <2>3. CASE pos = Closed
    BY <1>3, <1>6, <2>2, <2>3
  <2>4. CASE pos # Closed
    <3>1. Unread = {n \in retained : n > pos} /\ Unread' = {n \in retained' : n > pos}
      BY <1>4, <2>4 DEF Unread, unread
    <3>2. ASSUME view.snapshotLoaded, view.snapshotCursor # 0, NEW n, n \in Horizon', OneIn(log', a, n),
                 NEW m, m \in DOMAIN log', a < m, m < n, m > view.lastApplied
          PROVE  m \in Coming'
      <4>1. n # L + 2
        <5>1. SUFFICES ASSUME n = L + 2 PROVE FALSE
          OBVIOUS
        <5>2. L + 1 \in DOMAIN log' /\ a < L + 1 /\ L + 1 <= n
          BY <1>3, <1>8, <2>2, <3>2, <5>1
        <5> QED
          BY <2>1, <2>2, <3>2, <5>2 DEF OneIn
      <4>2. n \in Coming' /\ n \in Coming
        <5>1. n \in Coming'
          <6>1. n \in Coming' \/ n = Len(log') + 1
            BY <3>2, HorizonIs
          <6>2. (L + 1) + 1 = L + 2
            BY <1>3
          <6> QED
            BY <2>2, <4>1, <6>1, <6>2
        <5>2. Unread' \subseteq Unread
          BY <2>1, <3>1
        <5> QED
          BY <1>4, <5>1, <5>2 DEF Coming
      <4>3. n \in 1..L /\ n \in Horizon
        BY <1>10, <4>2 DEF Horizon
      <4>4. m \in 1..L /\ m \in DOMAIN log
        BY <1>3, <2>2, <3>2, <4>3
      <4>5. OneIn(log, a, n)
        <5>1. SUFFICES ASSUME NEW r \in DOMAIN log, a < r, r <= n PROVE log[r] \notin Rebuilds
          BY DEF OneIn
        <5>2. r \in DOMAIN log' /\ log'[r] = log[r]
          BY <1>3, <2>2, <5>1
        <5> QED
          BY <3>2, <5>1, <5>2 DEF OneIn
      <4>6. m \in Coming
        BY <1>9, <3>2, <4>3, <4>4, <4>5
      <4>7. CASE retained' = retained
        BY <1>4, <3>1, <4>6, <4>7 DEF Coming
      <4>8. CASE retained' = {}
        <5>1. n \in Sent
          BY <1>4, <3>1, <4>2, <4>8 DEF Coming
        <5>2. n <= pos /\ pos \in Nat
          BY <1>1, <1>3, <2>4, <5>1 DEF Frames
        <5>3. m \notin Unread
          BY <1>3, <3>1, <3>2, <4>3, <4>4, <5>2
        <5> QED
          BY <1>4, <4>6, <5>3 DEF Coming
      <4> QED
        BY <2>1, <4>7, <4>8
    <3> QED
      BY <1>11, <2>1, <2>2, <2>4, <3>2
  <2> QED
    BY <2>3, <2>4
<1> QED
  BY <1>5, <1>12, <1>13 DEF Feed, Produce, Emitting

\* Taking plants or a grid does not pause, and no load does anything to the connection.
LEMMA LayerQuiet ==
    ASSUME ViewInv, NEW b \in Baselines \ {"snapshot"}, Accept(b)
    PROVE  /\ UNCHANGED <<feedVars, pos, tail, wire, seen, drops>> /\ Coming' = Coming
           /\ UNCHANGED <<log, retained, maxDeleted>>
           /\ (view'.paused <=> view.paused) /\ (view'.snapshotLoaded <=> view.snapshotLoaded)
           /\ view'.lastApplied = view.lastApplied /\ view'.snapshotCursor = view.snapshotCursor
           /\ view'.agents = view.agents /\ view'.worldRevision = view.worldRevision
           /\ shown'["snapshot"] = shown["snapshot"]
<1>1. view \in View /\ view' = loaded(b, loads[b].doc) /\ b \in {"flora", "terrain"}
  BY FeedAssumption DEF ViewInv, Typed, Accept, Baselines
<1>2. UNCHANGED <<feedVars, pos, tail, wire, seen, drops>> /\ UNCHANGED <<log, retained, maxDeleted>>
  BY DEF Accept, feedVars
<1>3. Coming' = Coming
  BY <1>2 DEF Coming, Sent, Unread, unread
<1>4. view'.paused <=> view.paused
  <2>1. PICK s : s = view
    OBVIOUS
  <2>2. CASE b = "flora"
    <3>1. view' = FLORA_LOADED(s, loads[b].doc, At("flora", loads[b].doc.at))
      BY <1>1, <2>1, <2>2 DEF loaded
    <3> QED
      BY <1>1, <2>1, <3>1 DEF FLORA_LOADED, View
  <2>3. CASE b = "terrain"
    <3>1. view' = TERRAIN_LOADED(s, At("terrain", loads[b].doc.at))
      BY <1>1, <2>1, <2>3 DEF loaded
    <3> QED
      BY <1>1, <2>1, <3>1 DEF TERRAIN_LOADED, View
  <2> QED
    BY <1>1, <2>2, <2>3
<1>5. shown'["snapshot"] = shown["snapshot"]
  BY DEF Accept
<1> QED
  BY <1>2, <1>3, <1>4, <1>5, TakeLayer

\* Asking, answering and the effects leave connection, stream and drawing alone.
LEMMA AskingQuiet ==
    ASSUME ViewInv, Lossless, Refetch \/ (\E b \in Baselines : Answer(b)) \/ RunEffects \/ TogglePause
    PROVE  /\ UNCHANGED <<feedVars, pos, tail, wire, shown>> /\ Coming' = Coming
           /\ UNCHANGED <<log, retained, maxDeleted>>
           /\ \A f \in DOMAIN view \ {"reacquire"} : view'[f] = view[f]
<1>1. view \in View /\ ~TogglePause
  BY DEF ViewInv, Typed, Lossless, TogglePause
<1>2. UNCHANGED <<feedVars, pos, tail, wire, shown>> /\ UNCHANGED <<log, retained, maxDeleted>>
  BY <1>1 DEF Refetch, Answer, RunEffects, feedVars
<1>3. Coming' = Coming
  BY <1>2 DEF Coming, Sent, Unread, unread
<1>4. \A f \in DOMAIN view \ {"reacquire"} : view'[f] = view[f]
  <2>1. CASE Refetch
    BY <1>1, <2>1 DEF Refetch, View
  <2>2. CASE (\E b \in Baselines : Answer(b)) \/ RunEffects
    BY <2>2 DEF Answer, RunEffects
  <2> QED
    BY <1>1, <2>1, <2>2
<1> QED
  BY <1>2, <1>3, <1>4

\* The fields a view has.
LEMMA ViewFields ==
    ASSUME NEW s, s \in View
    PROVE  DOMAIN s = {"agents", "flora", "terrain", "pendingFloraOps", "pendingTerrainDeltas",
                       "snapshotLoaded", "floraLoaded", "worldRevision", "snapshotCursor",
                       "lastApplied", "reacquire", "paused"}
BY DEF View

\* The lowest entry that comes is the one applied.
LEMMA DeliverGapless ==
    ASSUME ViewInv, Retention, Gapless, Lossless, Deliver
    PROVE  Gapless'
<1>1. /\ Typed /\ Len(log) \in Nat /\ DOMAIN log = 1..Len(log) /\ Coming \subseteq Nat /\ ~view.paused
      /\ pos \in Nat \cup {Closed} /\ view.lastApplied \in Nat /\ Frames
  BY HeldFacts DEF ViewInv, Typed, Gapless
<1>2. /\ UNCHANGED <<feedVars, pos, tail, loads, shown>> /\ log' = log /\ view.snapshotLoaded
      /\ \/ /\ wire = <<GapFrame>> /\ pos = Closed /\ Coming' = {} /\ view'.paused = view.paused
         \/ \E id \in Coming :
               /\ Coming' = Coming \ {id} /\ id \in Nat /\ id > view.lastApplied
               /\ id \in DOMAIN log /\ log[id] \in Slices
               /\ view' = EVENT(view, log[id], id)
  BY DeliverView
<1>3. CASE /\ wire = <<GapFrame>> /\ pos = Closed /\ Coming' = {} /\ view'.paused = view.paused
  <2>1. ~tail
    BY <1>1, <1>3 DEF Frames
  <2> QED
    BY <1>1, <1>2, <1>3, <2>1, GaplessClosed
<1>4. ASSUME NEW id \in Coming,
             /\ Coming' = Coming \ {id} /\ id \in Nat /\ id > view.lastApplied
             /\ id \in DOMAIN log /\ log[id] \in Slices
             /\ view' = EVENT(view, log[id], id)
      PROVE  Gapless'
  <2>1. /\ view'.lastApplied = id /\ (view'.snapshotLoaded <=> view.snapshotLoaded)
        /\ view'.snapshotCursor = view.snapshotCursor /\ (view'.paused <=> view.paused)
    BY <1>1, <1>2, <1>4, EventView
  <2>2. ASSUME NEW n, n \in Horizon' PROVE n \in Horizon
    BY <1>2, <1>4, <2>2, HorizonIs
  <2>3. PICK a : a = shown["snapshot"].at
    OBVIOUS
  <2>4. ASSUME view.snapshotCursor # 0, NEW n, n \in Horizon', OneIn(log, a, n),
               NEW m, m \in DOMAIN log, a < m, m < n, m > id
        PROVE  m \in Coming'
    <3>1. m > view.lastApplied /\ m # id
      BY <1>1, <1>4, <2>4
    <3>2. m \in Coming
      BY <1>2, <2>2, <2>3, <2>4, <3>1 DEF Gapless
    <3> QED
      BY <1>4, <3>1, <3>2
  <2>5. view'.snapshotLoaded /\ view'.snapshotCursor # 0 =>
          \A n \in Horizon' : OneIn(log', shown'["snapshot"].at, n) =>
              \A m \in DOMAIN log' :
                 (shown'["snapshot"].at < m /\ m < n /\ m > view'.lastApplied) => m \in Coming'
    BY <1>2, <2>1, <2>3, <2>4
  <2>6. pos' <= Len(log') /\ ~view'.paused /\ (tail' => view'.snapshotCursor = 0)
    BY <1>2, <2>1 DEF Gapless
  <2> QED
    BY <2>5, <2>6 DEF Gapless
<1> QED
  BY <1>2, <1>3, <1>4

\* Every step keeps the connection without a gap.
LEMMA GaplessStep ==
    ASSUME ViewInv, Retention, Gapless, Lossless, [Next]_vars
    PROVE  Gapless'
<1>1. /\ Typed /\ Frames /\ Len(log) \in Nat /\ DOMAIN log = 1..Len(log) /\ pos \in Nat \cup {Closed}
      /\ view \in View /\ ~view.paused /\ Drawn /\ retained \subseteq DOMAIN log /\ "snapshot" \in Baselines
  BY DEF ViewInv, Typed, Gapless, Baselines
<1>2. CASE UNCHANGED vars
  <2>1. UNCHANGED <<log, pos, tail, view, shown>> /\ Coming' = Coming
    BY <1>2 DEF vars, feedVars, clientVars, Coming, Sent, Unread, unread
  <2> QED
    BY <2>1, GaplessQuiet
<1>3. CASE Read
  <2>1. /\ UNCHANGED <<log, retained, view, shown>> /\ pos # Closed /\ unread # {} /\ pos' = Max(unread) /\ tail' = FALSE
    BY <1>3 DEF Read, feedVars
  <2>2. Sent' = Sent \cup Unread /\ Unread' = {} /\ pos' \in Nat
    BY <1>1, <1>3, ReadFacts
  <2>3. Coming' = Coming
    BY <2>2 DEF Coming
  <2>4. pos' <= Len(log)
    <3>1. PICK S : S = unread
      OBVIOUS
    <3>2. S \subseteq DOMAIN log /\ S \subseteq Nat
      BY <1>1, <3>1 DEF unread
    <3>3. IsFiniteSet(S)
      <4>1. 1 \in Int /\ Len(log) \in Int
        BY <1>1
      <4>2. IsFiniteSet(1..Len(log))
        BY <4>1, FS_Interval
      <4> QED
        BY <1>1, <3>2, <4>2, FS_Subset
    <3>4. Max(S) \in S
      BY <2>1, <3>1, <3>2, <3>3, MaxFacts
    <3> QED
      BY <1>1, <2>1, <3>1, <3>2, <3>4
  <2>5. \A n : n \in Horizon' => n \in Horizon
    BY <2>1, <2>3, HorizonIs
  <2> QED
    BY <1>1, <2>1, <2>3, <2>4, <2>5 DEF Gapless
<1>4. CASE BlockAtEnd
  <2>1. /\ UNCHANGED <<log, tail, view>> /\ tail /\ pos' = sseStartID
    BY <1>4 DEF BlockAtEnd, feedVars
  <2>2. pos' <= Len(log')
    BY <1>1, <2>1, StartFacts
  <2> QED
    BY <1>1, <2>1, <2>2 DEF Gapless
<1>5. CASE Drop
  <2>1. /\ UNCHANGED <<log, view>> /\ pos' = Closed /\ ~tail' /\ wire' = <<>>
    BY <1>5 DEF Drop, feedVars
  <2>2. Coming' = {}
    BY <2>1 DEF Coming, Sent, Unread
  <2> QED
    BY <1>1, <2>1, <2>2, GaplessClosed
<1>6. CASE Refetch \/ (\E b \in Baselines : Answer(b)) \/ RunEffects \/ TogglePause
  <2>1. /\ UNCHANGED <<feedVars, pos, tail, wire, shown>> /\ Coming' = Coming /\ log' = log
        /\ \A f \in DOMAIN view \ {"reacquire"} : view'[f] = view[f]
    BY <1>6, AskingQuiet
  <2>2. /\ view'.snapshotLoaded = view.snapshotLoaded /\ view'.paused = view.paused
        /\ view'.snapshotCursor = view.snapshotCursor /\ view'.lastApplied = view.lastApplied
    BY <1>1, <2>1, ViewFields
  <2> QED
    BY <2>1, <2>2, GaplessQuiet
<1>7. ASSUME NEW b \in Baselines \ {"snapshot"}, Accept(b) PROVE Gapless'
  <2>1. /\ UNCHANGED <<log, pos, tail>> /\ Coming' = Coming
        /\ (view'.paused <=> view.paused) /\ (view'.snapshotLoaded <=> view.snapshotLoaded)
        /\ view'.lastApplied = view.lastApplied /\ view'.snapshotCursor = view.snapshotCursor
        /\ shown'["snapshot"] = shown["snapshot"]
    BY <1>7, LayerQuiet
  <2> QED
    BY <2>1, GaplessQuiet
<1>8. CASE Accept("snapshot")
  <2>1. UNCHANGED <<feedVars, pos, tail, wire>> /\ ~view.snapshotLoaded /\ Coming' = {} /\ (view'.paused <=> view.paused)
    BY <1>8, SnapshotView
  <2>2. pos = Closed /\ ~tail /\ log' = log
    BY <1>1, <2>1 DEF Drawn, Frames, feedVars
  <2> QED
    BY <1>1, <2>1, <2>2, GaplessClosed
<1> QED
  BY <1>1, <1>2, <1>3, <1>4, <1>5, <1>6, <1>7, <1>8, FeedGapless, ConnectGapless, DeliverGapless
     DEF Next, Server, Client, Loading

----------------------------------------------------------------------------
(* Queued: operations wait in the order they came, behind what still comes. *)

\* Nothing joins the queue, and what newly comes or is retained is behind it.
LEMMA QueuedKept ==
    ASSUME Queued, NEW S, Coming' \subseteq Coming \cup S, retained' \subseteq retained \cup S,
           \A op \in Queue : \A n \in S : n > op,
           view'.pendingFloraOps = view.pendingFloraOps \/ view'.pendingFloraOps = <<>>,
           \A op \in Queue : op <= cursor' \/ \A n \in retained : n > op,
           \A op \in Queue : (~view'.snapshotLoaded \/ wire' = <<GapFrame>>) => \A n \in retained : n > op
    PROVE  Queued'
<1>1. CASE view'.pendingFloraOps = view.pendingFloraOps
  <2>1. Queue' = Queue
    BY <1>1 DEF Queue
  <2> QED
    BY <1>1, <2>1 DEF Queued
<1>2. CASE view'.pendingFloraOps = <<>>
  <2>1. PICK e : e = view'.pendingFloraOps
    OBVIOUS
  <2>2. DOMAIN e = {}
    BY <1>2, <2>1
  <2>3. Queue' = {} /\ \A i, j \in DOMAIN view'.pendingFloraOps : FALSE
    BY <2>1, <2>2 DEF Queue
  <2> QED
    BY <2>3 DEF Queued
<1> QED
  BY <1>1, <1>2

\* A queue that only gets shorter, with less to come, stays in order.
LEMMA QueuedLess ==
    ASSUME Queued, Coming' \subseteq Coming, retained' \subseteq retained,
           view'.pendingFloraOps = view.pendingFloraOps \/ view'.pendingFloraOps = <<>>,
           \A op \in Queue : op <= cursor' \/ \A n \in retained : n > op,
           \A op \in Queue : (~view'.snapshotLoaded \/ wire' = <<GapFrame>>) => \A n \in retained : n > op
    PROVE  Queued'
<1>1. PICK S : S = {}
  OBVIOUS
<1>2. Coming' \subseteq Coming \cup S /\ retained' \subseteq retained \cup S
  OBVIOUS
<1>3. \A op \in Queue : \A n \in S : n > op
  BY <1>1
<1> QED
  BY <1>2, <1>3, QueuedKept

\* What is appended is behind all that waits.
LEMMA FeedQueued ==
    ASSUME ViewInv, Queued, Retention, Lossless, Feed
    PROVE  Queued'
<1>1. Typed /\ UNCHANGED <<view, pos, wire>> /\ cursor' = cursor
  BY DEF ViewInv, Feed, clientVars, cursor
<1>2. PICK L : L = Len(log)
  OBVIOUS
<1>3. L \in Nat /\ \A op \in Queue : op \in Nat /\ L + 1 > op
  BY <1>2, HeldFacts DEF ViewInv
<1>4. ASSUME NEW S, retained' \subseteq retained \cup S, S \subseteq {L + 1}
      PROVE  Queued'
  <2>1. Coming' \subseteq Coming \cup S
    BY <1>1, <1>4, FeedSets
  <2>2. \A op \in Queue : \A n \in S : n > op
    BY <1>3, <1>4
  <2>3. /\ \A op \in Queue : op <= cursor' \/ \A n \in retained : n > op
        /\ \A op \in Queue : (~view'.snapshotLoaded \/ wire' = <<GapFrame>>) => \A n \in retained : n > op
    BY <1>1 DEF Queued
  <2>4. view'.pendingFloraOps = view.pendingFloraOps
    BY <1>1
  <2> QED
    BY <1>4, <2>1, <2>2, <2>3, <2>4, QueuedKept
<1>5. ASSUME NEW k \in Kinds, Emit(k) PROVE Queued'
  <2>1. retained' \subseteq retained \cup {L + 1}
    BY <1>1, <1>2, <1>5, Appended
  <2> QED
    BY <1>4, <2>1
<1>6. CASE Regen \/ Restart \/ Reboot
  <2>1. retained' \subseteq retained \cup {}
    BY <1>6 DEF Regen, Restart, Reboot
  <2> QED
    BY <1>4, <2>1
<1>7. CASE BeginFlush \/ WriteBaseline \/ Publish
  <2>1. retained' \subseteq retained \cup {}
    BY <1>7 DEF BeginFlush, WriteBaseline, Publish
  <2> QED
    BY <1>4, <2>1
<1> QED
  BY <1>5, <1>6, <1>7 DEF Feed, Produce, Emitting

\* What a connection brings is behind all that waits.
LEMMA ConnectQueued ==
    ASSUME ViewInv, Queued, Retention, Connect
    PROVE  Queued'
<1>1. /\ Typed /\ Frames /\ retained \subseteq Nat /\ Queue \subseteq Nat /\ maxDeleted \in Nat /\ cursor \in Nat
      /\ \A n \in retained : n > maxDeleted
  BY HeldFacts DEF ViewInv, Typed, cursor, Retention
<1>2. /\ UNCHANGED <<retained, view>> /\ view.snapshotLoaded /\ wire = <<>>
  BY DEF Connect, feedVars
<1>3. /\ Sent' = {}
      /\ \/ Unread' = {}
         \/ Unread' = {n \in retained : n > cursor}
  BY <1>1, ConnectFacts
<1>4. cursor' = cursor
  BY <1>2 DEF cursor
<1>5. \A op \in Queue : op <= cursor \/ \A n \in retained : n > op
  BY DEF Queued
<1>6. \A op \in Queue : \A n \in Coming' : n > op
  <2> SUFFICES ASSUME NEW op \in Queue, NEW n, n \in Coming' PROVE n > op
    OBVIOUS
  <2>1. n \in retained /\ n > cursor
    BY <1>3 DEF Coming
  <2> QED
    BY <1>1, <1>5, <2>1
<1>7. \A op \in Queue : wire' = <<GapFrame>> => \A n \in retained : n > op
  <2> SUFFICES ASSUME NEW op \in Queue, wire' = <<GapFrame>>, NEW n \in retained PROVE n > op
    OBVIOUS
  <2>1. gapped(cursor)
    <3>1. wire' # <<>>
      OBVIOUS
    <3> QED
      BY <1>2, <3>1 DEF Connect
  <2>2. cursor < maxDeleted
    BY <2>1 DEF gapped
  <2> QED
    BY <1>1, <1>5, <2>2
<1>8. \A op \in Queue : (~view'.snapshotLoaded \/ wire' = <<GapFrame>>) => \A n \in retained : n > op
  BY <1>2, <1>7
<1>9. Coming' \subseteq Coming \cup Coming' /\ retained' \subseteq retained \cup Coming'
  BY <1>2
<1>10. view'.pendingFloraOps = view.pendingFloraOps
  BY <1>2
<1>11. \A op \in Queue : op <= cursor' \/ \A n \in retained : n > op
  BY <1>4, <1>5
<1>12. PICK S : S = Coming'
  OBVIOUS
<1> QED
  BY <1>6, <1>8, <1>9, <1>10, <1>11, <1>12, QueuedKept

\* What is dispatched joins the queue at its end.
LEMMA DeliverQueued ==
    ASSUME ViewInv, Queued, Gapless, Lossless, Deliver
    PROVE  Queued'
<1>1. /\ Typed /\ view \in View /\ Queue \subseteq Nat /\ view.lastApplied \in Nat
  BY HeldFacts DEF ViewInv, Typed
<1>2. /\ retained' = retained /\ view.snapshotLoaded
      /\ \/ /\ wire = <<GapFrame>> /\ Coming' = {}
            /\ \A f \in {"agents", "flora", "terrain", "pendingFloraOps", "pendingTerrainDeltas",
                         "worldRevision", "snapshotCursor", "lastApplied", "paused"} : view'[f] = view[f]
         \/ \E id \in Coming :
               /\ Coming' = Coming \ {id} /\ \A n \in Coming' : n > id
               /\ id \in Nat /\ id > view.lastApplied
               /\ log[id] \in Slices
               /\ wire' # <<GapFrame>>
               /\ view' = EVENT(view, log[id], id)
  BY DeliverView
<1>3. CASE /\ wire = <<GapFrame>> /\ Coming' = {}
           /\ \A f \in {"agents", "flora", "terrain", "pendingFloraOps", "pendingTerrainDeltas",
                        "worldRevision", "snapshotCursor", "lastApplied", "paused"} : view'[f] = view[f]
  <2>1. view'.pendingFloraOps = view.pendingFloraOps /\ cursor' = cursor
    BY <1>3 DEF cursor
  <2>2. \A op \in Queue : \A n \in retained : n > op
    BY <1>3 DEF Queued
  <2>3. Coming' \subseteq Coming /\ retained' \subseteq retained
    BY <1>2, <1>3
  <2> QED
    BY <2>1, <2>2, <2>3, QueuedLess
<1>4. ASSUME NEW id \in Coming,
             /\ Coming' = Coming \ {id} /\ \A n \in Coming' : n > id
             /\ id \in Nat /\ id > view.lastApplied
             /\ log[id] \in Slices
             /\ wire' # <<GapFrame>>
             /\ view' = EVENT(view, log[id], id)
      PROVE  Queued'
  <2>1. /\ view'.lastApplied = id /\ view'.snapshotLoaded
        /\ \/ view'.pendingFloraOps = view.pendingFloraOps
           \/ view'.pendingFloraOps = Append(view.pendingFloraOps, id)
    BY <1>1, <1>2, <1>4, EventView DEF Gapless
  <2>2. cursor' = id
    BY <1>1, <1>4, <2>1 DEF cursor
  <2>3. \A op \in Queue : op < id /\ op \in Nat
    BY <1>1, <1>4 DEF Queued
  <2>4. CASE view'.pendingFloraOps = view.pendingFloraOps
    <3>1. Coming' \subseteq Coming /\ retained' \subseteq retained
      BY <1>2, <1>4
    <3>2. \A op \in Queue : op <= cursor'
      BY <1>4, <2>2, <2>3
    <3> QED
      BY <1>4, <2>1, <2>4, <3>1, <3>2, QueuedLess
  <2>5. CASE view'.pendingFloraOps = Append(view.pendingFloraOps, id)
    <3>1. PICK q, a, N : q = view.pendingFloraOps /\ a = view'.pendingFloraOps /\ N = Len(q)
      OBVIOUS
    <3>2. /\ q \in Seq(Nat) /\ N \in Nat /\ DOMAIN q = 1..N /\ DOMAIN a = 1..(N + 1)
          /\ \A i \in 1..N : a[i] = q[i]
          /\ a[N + 1] = id
      BY <1>1, <1>4, <2>5, <3>1 DEF View
    <3>3. \A i \in 1..N : q[i] \in Queue
      BY <3>1, <3>2 DEF Queue
    <3>4. \A op : op \in Queue' => op \in Queue \/ op = id
      <4> SUFFICES ASSUME NEW op, op \in Queue' PROVE op \in Queue \/ op = id
        OBVIOUS
      <4>1. PICK i \in 1..(N + 1) : op = a[i]
        BY <3>1, <3>2 DEF Queue
      <4>2. i \in 1..N \/ i = N + 1
        BY <3>2
      <4> QED
        BY <3>2, <3>3, <4>1, <4>2
    <3>5. ASSUME NEW i \in DOMAIN a, NEW j \in DOMAIN a, i < j PROVE a[i] < a[j]
      <4>1. i \in 1..N /\ (j \in 1..N \/ j = N + 1)
        BY <3>2, <3>5
      <4>2. CASE j \in 1..N
        BY <3>1, <3>2, <3>5, <4>1, <4>2 DEF Queued
      <4>3. CASE j = N + 1
        BY <2>3, <3>2, <3>3, <4>1, <4>3
      <4> QED
        BY <4>1, <4>2, <4>3
    <3>6. ASSUME NEW op, op \in Queue'
          PROVE  /\ \A n \in Coming' : n > op
                 /\ op <= cursor'
      <4>1. op = id \/ (op \in Nat /\ op < id)
        BY <2>3, <3>4, <3>6
      <4>2. op <= cursor'
        BY <1>4, <2>2, <4>1
      <4>3. ASSUME NEW n, n \in Coming' PROVE n > op
        <5>1. n \in Nat
          BY <1>4, <4>3, HeldFacts DEF ViewInv
        <5> QED
          BY <1>4, <4>1, <4>3, <5>1
      <4> QED
        BY <4>2, <4>3
    <3> QED
      BY <1>4, <2>1, <3>1, <3>5, <3>6 DEF Queued
  <2> QED
    BY <2>1, <2>4, <2>5
<1> QED
  BY <1>2, <1>3, <1>4

\* Every step keeps the queue in order.
LEMMA QueuedStep ==
    ASSUME ViewInv, Retention, Gapless, Queued, Lossless, [Next]_vars
    PROVE  Queued'
<1>1. Typed /\ Frames /\ view \in View /\ Drawn
  BY DEF ViewInv, Typed
<1>2. ASSUME Coming' \subseteq Coming, retained' = retained, cursor' = cursor,
             view'.pendingFloraOps = view.pendingFloraOps \/ view'.pendingFloraOps = <<>>,
             view'.snapshotLoaded <=> view.snapshotLoaded,
             wire' = <<GapFrame>> => wire = <<GapFrame>>
      PROVE  Queued'
  <2>1. /\ \A op \in Queue : op <= cursor' \/ \A n \in retained : n > op
        /\ \A op \in Queue : (~view'.snapshotLoaded \/ wire' = <<GapFrame>>) => \A n \in retained : n > op
    BY <1>2 DEF Queued
  <2>2. Coming' \subseteq Coming /\ retained' \subseteq retained
    BY <1>2
  <2> QED
    BY <1>2, <2>1, <2>2, QueuedLess
<1>3. CASE UNCHANGED vars
  <2>1. UNCHANGED <<retained, view, wire>> /\ Coming' = Coming /\ cursor' = cursor
    BY <1>3 DEF vars, feedVars, clientVars, Coming, Sent, Unread, unread, cursor
  <2> QED
    BY <1>2, <2>1
<1>4. CASE Read
  <2>1. UNCHANGED <<log, retained, view>> /\ cursor' = cursor
    BY <1>4 DEF Read, feedVars, cursor
  <2>2. Sent' = Sent \cup Unread /\ Unread' = {} /\ pos' \in Nat /\ Frames'
    BY <1>1, <1>4, ReadFacts
  <2>3. Coming' = Coming
    BY <2>2 DEF Coming
  <2>4. wire' # <<GapFrame>>
    <3>1. SUFFICES ASSUME wire' = <<GapFrame>> PROVE FALSE
      OBVIOUS
    <3>2. wire'[1] = GapFrame /\ 1 \in DOMAIN wire'
      BY <3>1
    <3>3. GapFrame.kind \notin Slices
      BY FeedAssumption DEF Slices, GapFrame
    <3>4. pos' = Closed
      BY <2>2, <3>2, <3>3 DEF Frames
    <3> QED
      BY <2>2, <3>4 DEF Closed
  <2> QED
    BY <1>2, <2>1, <2>3, <2>4
<1>5. CASE BlockAtEnd
  <2>1. UNCHANGED <<retained, view, wire>> /\ cursor' = cursor /\ Sent' = Sent
    BY <1>5 DEF BlockAtEnd, feedVars, cursor, Sent
  <2>2. Unread' \subseteq Unread
    <3>1. pos # Closed /\ pos < pos' /\ pos \in Nat /\ retained \subseteq Nat
      BY <1>1, <1>5, HeldFacts DEF BlockAtEnd, Frames, Typed, ViewInv
    <3>2. pos' \in Nat
      BY <1>1, <1>5, StartFacts DEF BlockAtEnd
    <3> QED
      <4> SUFFICES ASSUME NEW n, n \in Unread' PROVE n \in Unread
        OBVIOUS
      <4>1. n \in retained /\ n > pos' /\ n \in Nat
        BY <2>1, <3>1, Members DEF Unread, unread
      <4>2. n > pos
        BY <3>1, <3>2, <4>1
      <4> QED
        BY <3>1, <4>1, <4>2 DEF Unread, unread
  <2> QED
    BY <1>2, <2>1, <2>2 DEF Coming
<1>6. CASE Drop
  <2>1. UNCHANGED <<retained, view>> /\ cursor' = cursor /\ pos' = Closed /\ wire' = <<>>
    BY <1>6 DEF Drop, feedVars, cursor
  <2>2. Coming' = {}
    BY <2>1 DEF Coming, Sent, Unread
  <2> QED
    BY <1>2, <2>1, <2>2
<1>7. CASE Refetch \/ (\E b \in Baselines : Answer(b)) \/ RunEffects \/ TogglePause
  <2>1. /\ UNCHANGED wire /\ Coming' = Coming /\ retained' = retained
        /\ \A f \in DOMAIN view \ {"reacquire"} : view'[f] = view[f]
    BY <1>7, AskingQuiet
  <2>2. /\ view'.snapshotLoaded = view.snapshotLoaded /\ view'.pendingFloraOps = view.pendingFloraOps
        /\ view'.snapshotCursor = view.snapshotCursor /\ view'.lastApplied = view.lastApplied
    BY <1>1, <2>1, ViewFields
  <2>3. cursor' = cursor
    BY <2>2 DEF cursor
  <2> QED
    BY <1>2, <2>1, <2>2, <2>3
<1>8. ASSUME NEW b \in Baselines \ {"snapshot"}, Accept(b) PROVE Queued'
  <2>1. /\ UNCHANGED wire /\ Coming' = Coming /\ retained' = retained
        /\ (view'.snapshotLoaded <=> view.snapshotLoaded)
        /\ view'.lastApplied = view.lastApplied /\ view'.snapshotCursor = view.snapshotCursor
    BY <1>8, LayerQuiet
  <2>2. view'.pendingFloraOps = view.pendingFloraOps \/ view'.pendingFloraOps = <<>>
    BY <1>8, TakeLayer
  <2>3. cursor' = cursor
    BY <2>1 DEF cursor
  <2> QED
    BY <1>2, <2>1, <2>2, <2>3
<1>9. CASE Accept("snapshot")
  <2>1. /\ UNCHANGED <<feedVars, wire>> /\ ~view.snapshotLoaded /\ Coming' = {}
        /\ view'.pendingFloraOps = view.pendingFloraOps \/ view'.pendingFloraOps = <<>>
    BY <1>9, SnapshotView
  <2>2. retained' = retained /\ \A op \in Queue : \A n \in retained : n > op
    BY <2>1 DEF Queued, feedVars
  <2>3. Coming' \subseteq Coming /\ retained' \subseteq retained
    BY <2>1, <2>2
  <2> QED
    BY <2>1, <2>2, <2>3, QueuedLess
<1> QED
  BY <1>1, <1>3, <1>4, <1>5, <1>6, <1>7, <1>8, <1>9, FeedQueued, ConnectQueued, DeliverQueued
     DEF Next, Server, Client, Loading

----------------------------------------------------------------------------
(* The world the view follows, from one step to the next.                  *)

\* The last entry of a slice: earlier positions show no later one, and the two
\* agree unless something came between.
LEMMA LastBetween ==
    ASSUME NEW l, NEW L \in Nat, DOMAIN l = 1..L, NEW k, NEW m \in Nat, NEW n \in Nat, m <= n,
           NEW x, x = LastIn(l, k, m), NEW y, y = LastIn(l, k, n)
    PROVE  /\ x \in Nat /\ y \in Nat /\ x <= m /\ y <= n /\ x <= y
           /\ y <= m => x = y
           /\ y > m => y \in DOMAIN l /\ l[y] \in {k} \cup Rebuilds
<1>1. /\ x \in Nat /\ x <= m
      /\ x # 0 => x \in 1..L /\ l[x] \in {k} \cup Rebuilds
      /\ \A i \in 1..L : (i <= m /\ l[i] \in {k} \cup Rebuilds) => i <= x
  BY LastFacts
<1>2. /\ y \in Nat /\ y <= n
      /\ y # 0 => y \in 1..L /\ l[y] \in {k} \cup Rebuilds
      /\ \A i \in 1..L : (i <= n /\ l[i] \in {k} \cup Rebuilds) => i <= y
  BY LastFacts
<1>3. x <= y
  <2>1. CASE x = 0
    BY <1>2, <2>1
  <2>2. CASE x # 0
    <3>1. x <= n
      BY <1>1
    <3> QED
      BY <1>1, <1>2, <2>2, <3>1
  <2> QED
    BY <2>1, <2>2
<1>4. y <= m => y <= x
  BY <1>1, <1>2
<1> QED
  BY <1>1, <1>2, <1>3, <1>4

\* The greater of two positions.
LEMMA MaxOfTwo ==
    ASSUME NEW a \in Nat, NEW b \in Nat
    PROVE  Max({a, b}) = IF a >= b THEN a ELSE b
<1>1. PICK S : S = {a, b}
  OBVIOUS
<1>2. S \subseteq Nat /\ S # {}
  BY <1>1
<1>3. IsFiniteSet(S)
  <2>1. IsFiniteSet({a})
    BY FS_Singleton
  <2>2. IsFiniteSet({a} \cup {b})
    BY <2>1, FS_AddElement
  <2>3. S = {a} \cup {b}
    BY <1>1
  <2> QED
    BY <2>2, <2>3
<1>4. Max(S) \in S /\ \A y \in S : y <= Max(S)
  BY <1>2, <1>3, MaxFacts
<1>5. PICK x : x = Max(S)
  OBVIOUS
<1>6. (x = a \/ x = b) /\ a <= x /\ b <= x
  BY <1>1, <1>4, <1>5
<1>7. x = IF a >= b THEN a ELSE b
  BY <1>6
<1> QED
  BY <1>1, <1>5, <1>7

\* What is drawn has a place in the history.
LEMMA ReachedFacts ==
    ASSUME ViewInv, view.snapshotLoaded
    PROVE  /\ shown["snapshot"] \in Docs /\ shown["snapshot"].at \in Nat /\ shown["snapshot"].at <= Len(log)
           /\ view.lastApplied \in Nat /\ view.lastApplied <= Len(log)
           /\ shown["snapshot"].cursor = view.snapshotCursor /\ view.lastApplied >= view.snapshotCursor
           /\ reached = (IF view.lastApplied >= shown["snapshot"].at THEN view.lastApplied ELSE shown["snapshot"].at)
           /\ reached \in Nat /\ reached <= Len(log)
           /\ reached >= view.lastApplied /\ reached >= shown["snapshot"].at
<1>1. shown["snapshot"] \in Docs
  BY Kept DEF ViewInv, Drawn
<1>2. PICK a, b : a = view.lastApplied /\ b = shown["snapshot"].at
  OBVIOUS
<1>3. b \in Nat /\ b <= Len(log) /\ a \in Nat /\ a <= Len(log)
  BY <1>1, <1>2, DocFacts, HeldFacts DEF ViewInv, Positions
<1>4. shown["snapshot"].cursor = view.snapshotCursor /\ a >= view.snapshotCursor
  BY <1>2 DEF ViewInv, Drawn
<1>5. reached = IF a >= b THEN a ELSE b
  BY <1>2, <1>3, MaxOfTwo DEF reached
<1>6. reached \in Nat /\ reached <= Len(log) /\ reached >= a /\ reached >= b
  BY <1>3, <1>5
<1> QED
  BY <1>1, <1>2, <1>3, <1>4, <1>5, <1>6

\* What past positions show, and whether they are of one world, is settled.
LEMMA PastSettled ==
    ASSUME Typed, log' = log \/ \E x : log' = Append(log, x)
    PROVE  /\ \A k : \A n \in 0..Len(log) : LastIn(log', k, n) = LastIn(log, k, n)
           /\ \A m \in Nat : \A n \in 0..Len(log) : OneIn(log', m, n) <=> OneIn(log, m, n)
           /\ \A n \in 0..Len(log) : (n \in DOMAIN log' <=> n \in DOMAIN log)
                                     /\ (n \in DOMAIN log => log'[n] = log[n])
<1>1. CASE log' = log
  BY <1>1
<1>2. ASSUME NEW x, log' = Append(log, x)
      PROVE  /\ \A k : \A n \in 0..Len(log) : LastIn(log', k, n) = LastIn(log, k, n)
             /\ \A m \in Nat : \A n \in 0..Len(log) : OneIn(log', m, n) <=> OneIn(log, m, n)
             /\ \A n \in 0..Len(log) : (n \in DOMAIN log' <=> n \in DOMAIN log)
                                       /\ (n \in DOMAIN log => log'[n] = log[n])
  <2>1. Longer(log, x, log')
    BY <1>2 DEF Longer, Typed
  <2>2. \A k : \A n \in 0..Len(log) : LastIn(log', k, n) = LastIn(log, k, n)
    BY <2>1, GrownFacts
  <2>3. \A m \in Nat : \A n \in 0..Len(log) : OneIn(log', m, n) <=> OneIn(log, m, n)
    BY <2>1, GrownFacts
  <2>4. \A n \in 0..Len(log) : (n \in DOMAIN log' <=> n \in DOMAIN log)
                               /\ (n \in DOMAIN log => log'[n] = log[n])
    BY <2>1 DEF Longer
  <2> QED
    BY <2>2, <2>3, <2>4
<1> QED
  BY <1>1, <1>2

\* A step that applies nothing and draws no snapshot leaves the world where it was.
LEMMA WorldKept ==
    ASSUME ViewInv, log' = log \/ \E x : log' = Append(log, x),
           view'.snapshotLoaded <=> view.snapshotLoaded, view'.snapshotCursor = view.snapshotCursor,
           view'.lastApplied = view.lastApplied, shown'["snapshot"] = shown["snapshot"]
    PROVE  /\ reached' = reached /\ (OneWorld' <=> OneWorld)
           /\ \A k : view.snapshotLoaded => LastIn(log', k, reached') = LastIn(log, k, reached)
<1>1. reached' = reached
  BY DEF reached
<1>2. Typed
  BY DEF ViewInv
<1>3. ASSUME view.snapshotLoaded
      PROVE  /\ OneWorld' <=> OneWorld
             /\ \A k : LastIn(log', k, reached') = LastIn(log, k, reached)
  <2>1. PICK a, n : a = shown["snapshot"].at /\ n = view.lastApplied
    OBVIOUS
  <2>2. a \in Nat /\ n \in 0..Len(log) /\ reached \in 0..Len(log)
    BY <1>3, <2>1, ReachedFacts
  <2>3. OneIn(log', a, n) <=> OneIn(log, a, n)
    BY <1>2, <2>2, PastSettled
  <2>4. OneWorld <=> (view.snapshotCursor # 0 /\ OneIn(log, a, n))
    BY <1>3, <2>1 DEF OneWorld, sameWorld, OneIn
  <2>5. OneWorld' <=> (view.snapshotCursor # 0 /\ OneIn(log', a, n))
    BY <1>3, <2>1 DEF OneWorld, sameWorld, OneIn
  <2>6. \A k : LastIn(log', k, reached) = LastIn(log, k, reached)
    BY <1>2, <2>2, PastSettled
  <2> QED
    BY <1>1, <2>3, <2>4, <2>5, <2>6
<1>4. CASE ~view.snapshotLoaded
  BY <1>1, <1>4 DEF OneWorld
<1> QED
  BY <1>1, <1>3, <1>4

\* An entry that is applied is the next one of its world: nothing lies between
\* what the view had reached and it.
LEMMA EntryWorld ==
    ASSUME ViewInv, Gapless, Lossless, view.snapshotLoaded, view'.snapshotLoaded,
           NEW id \in Coming, Coming' = Coming \ {id}, \A n \in Coming' : n > id,
           id \in Nat, id > view.lastApplied, id > shown["snapshot"].at,
           id \in DOMAIN log, log[id] \in Slices, log' = log,
           view'.lastApplied = id, view'.snapshotCursor = view.snapshotCursor,
           shown'["snapshot"] = shown["snapshot"], OneWorld'
    PROVE  /\ OneWorld /\ reached' = id /\ reached \in Nat /\ reached < id
           /\ OneIn(log, shown["snapshot"].at, id)
           /\ \A m \in DOMAIN log : ~(reached < m /\ m < id)
           /\ \A k : LastIn(log, k, id) = IF log[id] = k THEN id ELSE LastIn(log, k, reached)
<1>1. PICK a, b, L : a = shown["snapshot"].at /\ b = view.lastApplied /\ L = Len(log)
  OBVIOUS
<1>2. a \in Nat /\ b \in Nat /\ id \in Nat /\ id > b /\ id > a /\ Coming \subseteq Nat /\ DOMAIN log = 1..L /\ L \in Nat
  BY <1>1, ReachedFacts, HeldFacts DEF ViewInv
<1>3. reached = IF b >= a THEN b ELSE a
  BY <1>1, ReachedFacts
<1>4. reached \in Nat /\ reached < id /\ reached >= a /\ reached >= b
  BY <1>2, <1>3
<1>5. reached' = id
  <2>1. reached' = Max({id, a})
    BY <1>1 DEF reached
  <2> QED
    BY <1>2, <2>1, MaxOfTwo
<1>6. view.snapshotCursor # 0 /\ OneIn(log, a, id)
  BY <1>1 DEF OneWorld, sameWorld, OneIn
<1>7. OneWorld
  <2>1. OneIn(log, a, b)
    <3>1. \A r \in DOMAIN log : r <= b => r <= id
      BY <1>2
    <3> QED
      BY <1>6, <3>1 DEF OneIn
  <2> QED
    BY <1>1, <1>6, <2>1 DEF OneWorld, sameWorld, OneIn
<1>8. ASSUME NEW m, m \in DOMAIN log, reached < m, m < id PROVE FALSE
  <2>1. m \in Nat /\ a < m /\ m > b
    BY <1>2, <1>4, <1>8
  <2>2. id \in Horizon
    BY HorizonIs
  <2>3. m \in Coming
    BY <1>1, <1>6, <1>8, <2>1, <2>2 DEF Gapless
  <2>4. m > id
    BY <1>8, <2>1, <2>3
  <2> QED
    BY <1>2, <1>8, <2>1, <2>4
<1>9. log[id] \notin Rebuilds
  BY FeedAssumption DEF Slices
<1>10. ASSUME NEW k PROVE LastIn(log, k, id) = IF log[id] = k THEN id ELSE LastIn(log, k, reached)
  <2>1. PICK x, y : x = LastIn(log, k, reached) /\ y = LastIn(log, k, id)
    OBVIOUS
  <2>2. PICK r : r = reached
    OBVIOUS
  <2>3. /\ x \in Nat /\ y \in Nat /\ x <= r /\ y <= id /\ x <= y
        /\ y <= r => x = y
        /\ y > r => y \in DOMAIN log /\ log[y] \in {k} \cup Rebuilds
    <3>1. r \in Nat /\ r <= id /\ id \in Nat /\ L \in Nat /\ DOMAIN log = 1..L
      BY <1>2, <1>4, <2>2
    <3>2. x = LastIn(log, k, r) /\ y = LastIn(log, k, id)
      BY <2>1, <2>2
    <3> QED
      BY <3>1, <3>2, LastBetween
  <2>4. CASE y <= r
    <3>1. log[id] # k
      <4>1. \A i \in 1..L : (i <= id /\ log[i] \in {k} \cup Rebuilds) => i <= y
        BY <1>2, <2>1, LastFacts
      <4>2. log[id] = k => id <= y
        BY <1>2, <4>1
      <4> QED
        BY <1>4, <2>2, <2>3, <2>4, <4>2, <1>2
    <3> QED
      BY <2>1, <2>3, <2>4, <3>1
  <2>5. CASE y > r
    <3>1. y = id
      BY <1>2, <1>8, <2>2, <2>3, <2>5
    <3>2. log[id] = k
      BY <1>9, <2>3, <2>5, <3>1
    <3> QED
      BY <2>1, <3>1, <3>2
  <2>6. r \in Nat
    BY <1>4, <2>2
  <2> QED
    BY <2>3, <2>4, <2>5, <2>6
<1> QED
  BY <1>1, <1>4, <1>5, <1>6, <1>7, <1>8, <1>10

\* A snapshot shows at least what its cursor says, and starts the world anew.
LEMMA SnapshotWorld ==
    ASSUME ViewInv, Retention, Accept("snapshot"), NEW doc, doc = loads["snapshot"].doc, OneWorld'
    PROVE  /\ doc.cursor # 0 /\ doc.cursor <= doc.at /\ doc.cursor \in Nat /\ doc.at \in Nat /\ doc.at <= Len(log)
           /\ reached' = doc.at /\ view'.lastApplied = doc.cursor
           /\ \A m \in DOMAIN log : (doc.cursor < m /\ m <= doc.at) => log[m] \in Rebuilds
<1>1. /\ doc \in Docs /\ shown'["snapshot"] = doc /\ view'.snapshotCursor = doc.cursor
      /\ doc.cursor # 0 => view'.lastApplied = doc.cursor
  BY SnapshotView
<1>2. doc.cursor # 0
  BY <1>1 DEF OneWorld
<1>3. doc.at \in Nat /\ doc.cursor \in Nat /\ doc.at <= Len(log)
  BY <1>1, DocFacts DEF ViewInv
<1>4. doc.cursor <= doc.at /\ \A m \in DOMAIN log : (doc.cursor < m /\ m <= doc.at) => log[m] \in Rebuilds
  BY <1>1, <1>2 DEF Retention
<1>5. reached' = doc.at
  <2>1. reached' = Max({doc.cursor, doc.at})
    BY <1>1, <1>2 DEF reached
  <2>2. PICK a, b : a = doc.cursor /\ b = doc.at
    OBVIOUS
  <2>3. Max({a, b}) = IF a >= b THEN a ELSE b
    BY <1>3, <2>2, MaxOfTwo
  <2> QED
    BY <1>3, <1>4, <2>1, <2>2, <2>3
<1> QED
  BY <1>1, <1>2, <1>3, <1>4, <1>5

----------------------------------------------------------------------------
(* What is drawn, layer by layer.                                          *)

\* The roster is the world's as of the position reached.
AgentsDrawn == OneWorld => view.agents = LastIn(log, "agents", reached)

\* Of the changes to the plants since the snapshot all wait for the baseline, or are
\* drawn: over a baseline of the same world that the snapshot does not overtake.
FloraDrawn ==
    /\ view.floraLoaded => loads["flora"].state = "idle" /\ shown["flora"] # NoDoc
    /\ (OneWorld /\ ~view.floraLoaded) =>
          \A m \in DOMAIN log :
             (log[m] = "flora" /\ shown["snapshot"].at < m /\ m <= view.lastApplied) => m \in Queue
    /\ (OneWorld /\ view.floraLoaded /\ OneIn(log, shown["flora"].at, reached)
          /\ shown["flora"].cursor >= view.snapshotCursor)
       => view.flora >= LastIn(log, "flora", reached)
    /\ (~view.snapshotLoaded /\ view.floraLoaded)
       => view.flora >= LastIn(log, "flora", shown["flora"].at)

\* A step in which nothing is applied or accepted.
Still ==
    /\ log' = log \/ \E x : log' = Append(log, x)
    /\ shown' = shown /\ \A f \in DOMAIN view \ {"reacquire"} : view'[f] = view[f]
    /\ view'.reacquire => view.reacquire
    /\ \A b \in Baselines \ {"snapshot"} :
          loads[b].state = "idle" => loads'[b].state = "idle" \/ wanted(b)

\* A step applies an entry, takes a document, or is still.
LEMMA StepKinds ==
    ASSUME ViewInv, Lossless, [Next]_vars
    PROVE  Still \/ Deliver \/ Accept("snapshot") \/ \E b \in Baselines \ {"snapshot"} : Accept(b)
<1>1. view \in View /\ loads \in [Baselines -> Load]
  BY DEF ViewInv, Typed
<1>2. CASE UNCHANGED vars
  BY <1>2 DEF vars, feedVars, clientVars, Still
<1>3. CASE Feed \/ Server
  <2>1. UNCHANGED <<view, shown, loads>>
    BY <1>3 DEF Feed, clientVars, Server, Connect, BlockAtEnd, Read, Drop
  <2>2. Next
    BY <1>3 DEF Next
  <2> QED
    BY <2>1, <2>2, HistoryGrows DEF Still
<1>4. CASE Refetch \/ (\E b \in Baselines : Answer(b)) \/ RunEffects \/ TogglePause
  <2>1. /\ shown' = shown /\ log' = log
        /\ \A f \in DOMAIN view \ {"reacquire"} : view'[f] = view[f]
    BY <1>4, AskingQuiet
  <2>2. ~TogglePause
    BY DEF TogglePause, Lossless
  <2>3. view'.reacquire => view.reacquire
    BY <1>1, <1>4, <2>2 DEF Refetch, Answer, RunEffects
  <2>4. \A b \in Baselines \ {"snapshot"} :
          loads[b].state = "idle" => loads'[b].state = "idle" \/ wanted(b)
    <3>1. CASE Refetch
      <4>1. PICK q : q = ask(0, 0)
        OBVIOUS
      <4>2. loads' = [loads EXCEPT !["snapshot"] = q]
        BY <3>1, <4>1 DEF Refetch
      <4> QED
        BY <1>1, <4>2
    <3>2. ASSUME NEW b \in Baselines, Answer(b)
          PROVE  \A c \in Baselines : loads[c].state = "idle" => loads'[c] = loads[c]
      <4>1. PICK q : q = [loads[b] EXCEPT !.state = "answered", !.doc = live[b]]
        OBVIOUS
      <4>2. loads' = [loads EXCEPT ![b].state = "answered", ![b].doc = live[b]] /\ loads[b].state = "asked"
        BY <3>2 DEF Answer
      <4>3. loads' = [loads EXCEPT ![b] = q]
        BY <1>1, <4>1, <4>2
      <4> QED
        BY <1>1, <4>2, <4>3
    <3>3. CASE RunEffects
      <4>1. \A b \in Baselines : wanted(b) \/ loads'[b] = loads[b]
        BY <3>3 DEF RunEffects
      <4> QED
        BY <4>1
    <3> QED
      BY <1>4, <2>2, <3>1, <3>2, <3>3
  <2> QED
    BY <2>1, <2>3, <2>4 DEF Still
<1> QED
  BY <1>2, <1>3, <1>4 DEF Next, Client, Loading

\* A still step leaves what is drawn of the world as it was.
LEMMA StillWorld ==
    ASSUME ViewInv, Still
    PROVE  /\ reached' = reached /\ (OneWorld' <=> OneWorld)
           /\ \A k : view.snapshotLoaded => LastIn(log', k, reached') = LastIn(log, k, reached)
           /\ \A f \in {"agents", "flora", "terrain", "pendingFloraOps", "pendingTerrainDeltas", "snapshotLoaded",
                       "floraLoaded", "worldRevision", "snapshotCursor", "lastApplied", "paused"} : view'[f] = view[f]
<1>1. view \in View
  BY DEF ViewInv, Typed
<1>2. \A f \in {"agents", "flora", "terrain", "pendingFloraOps", "pendingTerrainDeltas", "snapshotLoaded",
               "floraLoaded", "worldRevision", "snapshotCursor", "lastApplied", "paused"} : view'[f] = view[f]
  BY <1>1, ViewFields DEF Still
<1>3. /\ view'.snapshotLoaded = view.snapshotLoaded /\ view'.snapshotCursor = view.snapshotCursor
      /\ view'.lastApplied = view.lastApplied /\ shown'["snapshot"] = shown["snapshot"]
      /\ log' = log \/ \E x : log' = Append(log, x)
  BY <1>2 DEF Still
<1>4. /\ reached' = reached /\ (OneWorld' <=> OneWorld)
      /\ \A k : view.snapshotLoaded => LastIn(log', k, reached') = LastIn(log, k, reached)
  BY <1>3, WorldKept
<1> QED
  BY <1>2, <1>4

\* A dispatched entry, in the terms the layers need.
LEMMA EntryFacts ==
    ASSUME ViewInv, Gapless, Lossless, Deliver
    PROVE  /\ shown' = shown /\ loads' = loads /\ log' = log /\ view.snapshotLoaded
           /\ \/ ~view'.snapshotLoaded /\ ~view'.floraLoaded /\ wire = <<GapFrame>>
              \/ \E id \in Nat :
                    /\ id \in DOMAIN log /\ id > view.lastApplied /\ log[id] \in Slices
                    /\ view' = EVENT(view, log[id], id) /\ view'.snapshotLoaded /\ view'.lastApplied = id
                    /\ view'.snapshotCursor = view.snapshotCursor /\ wire' # <<GapFrame>>
                    /\ OneWorld' =>
                         /\ OneWorld /\ reached' = id /\ reached \in Nat /\ reached < id
                         /\ OneIn(log, shown["snapshot"].at, id)
                         /\ \A m \in DOMAIN log : ~(reached < m /\ m < id)
                         /\ \A k : LastIn(log, k, id) = IF log[id] = k THEN id ELSE LastIn(log, k, reached)
<1>1. /\ UNCHANGED <<feedVars, pos, tail, loads, shown>> /\ view.snapshotLoaded /\ log' = log
      /\ \/ wire = <<GapFrame>> /\ ~view'.snapshotLoaded /\ ~view'.floraLoaded
         \/ \E id \in Coming :
               /\ Coming' = Coming \ {id} /\ \A n \in Coming' : n > id
               /\ id \in Nat /\ id > view.lastApplied /\ id > shown["snapshot"].at
               /\ id \in DOMAIN log /\ log[id] \in Slices
               /\ wire' # <<GapFrame>>
               /\ view' = EVENT(view, log[id], id)
  BY DeliverView
<1>2. ASSUME NEW id \in Coming,
             /\ Coming' = Coming \ {id} /\ \A n \in Coming' : n > id
             /\ id \in Nat /\ id > view.lastApplied /\ id > shown["snapshot"].at
             /\ id \in DOMAIN log /\ log[id] \in Slices
             /\ wire' # <<GapFrame>>
             /\ view' = EVENT(view, log[id], id)
      PROVE  /\ view'.snapshotLoaded /\ view'.lastApplied = id /\ view'.snapshotCursor = view.snapshotCursor
             /\ OneWorld' =>
                  /\ OneWorld /\ reached' = id /\ reached \in Nat /\ reached < id
                  /\ OneIn(log, shown["snapshot"].at, id)
                  /\ \A m \in DOMAIN log : ~(reached < m /\ m < id)
                  /\ \A k : LastIn(log, k, id) = IF log[id] = k THEN id ELSE LastIn(log, k, reached)
  <2>1. view'.snapshotLoaded /\ view'.lastApplied = id /\ view'.snapshotCursor = view.snapshotCursor
    BY <1>1, <1>2, EventView DEF Gapless
  <2>2. ASSUME OneWorld'
        PROVE  /\ OneWorld /\ reached' = id /\ reached \in Nat /\ reached < id
               /\ OneIn(log, shown["snapshot"].at, id)
               /\ \A m \in DOMAIN log : ~(reached < m /\ m < id)
               /\ \A k : LastIn(log, k, id) = IF log[id] = k THEN id ELSE LastIn(log, k, reached)
    <3>1. shown'["snapshot"] = shown["snapshot"]
      BY <1>1
    <3> QED
      BY <1>1, <1>2, <2>1, <2>2, <3>1, EntryWorld
  <2> QED
    BY <2>1, <2>2
<1>3. ASSUME NEW id \in Coming,
             /\ Coming' = Coming \ {id} /\ \A n \in Coming' : n > id
             /\ id \in Nat /\ id > view.lastApplied /\ id > shown["snapshot"].at
             /\ id \in DOMAIN log /\ log[id] \in Slices
             /\ wire' # <<GapFrame>>
             /\ view' = EVENT(view, log[id], id)
      PROVE  \E i \in Nat :
                    /\ i \in DOMAIN log /\ i > view.lastApplied /\ log[i] \in Slices
                    /\ view' = EVENT(view, log[i], i) /\ view'.snapshotLoaded /\ view'.lastApplied = i
                    /\ view'.snapshotCursor = view.snapshotCursor /\ wire' # <<GapFrame>>
                    /\ OneWorld' =>
                         /\ OneWorld /\ reached' = i /\ reached \in Nat /\ reached < i
                         /\ OneIn(log, shown["snapshot"].at, i)
                         /\ \A m \in DOMAIN log : ~(reached < m /\ m < i)
                         /\ \A k : LastIn(log, k, i) = IF log[i] = k THEN i ELSE LastIn(log, k, reached)
  BY <1>2, <1>3
<1>4. shown' = shown /\ loads' = loads
  BY <1>1
<1> QED
  BY <1>1, <1>3, <1>4

\* The roster stays the world's.
LEMMA AgentsStep ==
    ASSUME ViewInv, Retention, Gapless, Lossless, AgentsDrawn, [Next]_vars
    PROVE  AgentsDrawn'
<1> SUFFICES ASSUME OneWorld' PROVE view'.agents = LastIn(log', "agents", reached')
  BY DEF AgentsDrawn
<1>1. view'.snapshotLoaded
  BY DEF OneWorld
<1>2. CASE Still
  <2>1. /\ OneWorld /\ view'.agents = view.agents
        /\ view.snapshotLoaded => LastIn(log', "agents", reached') = LastIn(log, "agents", reached)
    BY <1>2, StillWorld
  <2>2. view.snapshotLoaded
    BY <2>1 DEF OneWorld
  <2> QED
    BY <2>1, <2>2 DEF AgentsDrawn
<1>3. CASE Deliver
  <2>1. /\ log' = log /\ view.snapshotLoaded
        /\ \E id \in Nat :
              /\ id \in DOMAIN log /\ id > view.lastApplied /\ log[id] \in Slices
              /\ view' = EVENT(view, log[id], id)
              /\ OneWorld' =>
                   /\ OneWorld /\ reached' = id
                   /\ \A k : LastIn(log, k, id) = IF log[id] = k THEN id ELSE LastIn(log, k, reached)
    BY <1>1, <1>3, EntryFacts
  <2>2. PICK id \in Nat :
              /\ id \in DOMAIN log /\ id > view.lastApplied /\ log[id] \in Slices
              /\ view' = EVENT(view, log[id], id)
              /\ OneWorld /\ reached' = id
              /\ \A k : LastIn(log, k, id) = IF log[id] = k THEN id ELSE LastIn(log, k, reached)
    BY <2>1
  <2>3. view'.agents = IF log[id] = "agents" THEN id ELSE view.agents
    BY <2>1, <2>2, EventView DEF Gapless
  <2>4. LastIn(log', "agents", reached') = IF log[id] = "agents" THEN id ELSE LastIn(log, "agents", reached)
    BY <2>1, <2>2
  <2> QED
    BY <2>2, <2>3, <2>4 DEF AgentsDrawn
<1>4. CASE Accept("snapshot")
  <2>1. PICK doc : doc = loads["snapshot"].doc
    OBVIOUS
  <2>2. view'.agents = LastIn(log, "agents", doc.at) /\ log' = log
    BY <1>4, <2>1, SnapshotView DEF feedVars
  <2>3. reached' = doc.at
    BY <1>4, <2>1, SnapshotWorld
  <2> QED
    BY <2>2, <2>3
<1>5. ASSUME NEW b \in Baselines \ {"snapshot"}, Accept(b)
      PROVE  view'.agents = LastIn(log', "agents", reached')
  <2>1. /\ log' = log /\ (view'.snapshotLoaded <=> view.snapshotLoaded)
        /\ view'.lastApplied = view.lastApplied /\ view'.snapshotCursor = view.snapshotCursor
        /\ view'.agents = view.agents /\ shown'["snapshot"] = shown["snapshot"]
    BY <1>5, LayerQuiet
  <2>2. /\ OneWorld
        /\ view.snapshotLoaded => LastIn(log', "agents", reached') = LastIn(log, "agents", reached)
    BY <2>1, WorldKept
  <2> QED
    BY <1>1, <2>1, <2>2 DEF AgentsDrawn
<1> QED
  BY <1>2, <1>3, <1>4, <1>5, StepKinds

\* The four parts of it, to be shown one by one.
LEMMA FloraParts ==
    ASSUME view'.floraLoaded => loads'["flora"].state = "idle" /\ shown'["flora"] # NoDoc,
           (OneWorld' /\ ~view'.floraLoaded) =>
              \A m \in DOMAIN log' :
                 (log'[m] = "flora" /\ shown'["snapshot"].at < m /\ m <= view'.lastApplied) => m \in Queue',
           (OneWorld' /\ view'.floraLoaded /\ OneIn(log', shown'["flora"].at, reached')
              /\ shown'["flora"].cursor >= view'.snapshotCursor)
           => view'.flora >= LastIn(log', "flora", reached'),
           (~view'.snapshotLoaded /\ view'.floraLoaded)
           => view'.flora >= LastIn(log', "flora", shown'["flora"].at)
    PROVE  FloraDrawn'
BY DEF FloraDrawn

\* The document of the plants, once it is one, lies in the past.
LEMMA ShownFacts ==
    ASSUME ViewInv, NEW b \in Baselines, shown[b] # NoDoc
    PROVE  shown[b] \in Docs /\ shown[b].at \in 0..Len(log) /\ shown[b].at \in Nat /\ shown[b].cursor \in Nat
<1>1. shown[b] \in Docs
  BY Kept DEF ViewInv
<1>2. /\ shown[b].at \in Nat /\ shown[b].at <= Len(log) /\ shown[b].cursor \in Nat
  BY <1>1, DocFacts DEF ViewInv
<1>3. Len(log) \in Nat
  BY HeldFacts DEF ViewInv
<1> QED
  BY <1>1, <1>2, <1>3

\* An appended history is a longer one.
LEMMA AppendLonger ==
    ASSUME Typed, NEW x, log' = Append(log, x)
    PROVE  Longer(log, x, log')
BY DEF Longer, Typed

\* Nothing is applied and the plants stay as they are.
LEMMA FloraKept ==
    ASSUME ViewInv, FloraDrawn, "flora" \in Baselines, log' = log \/ \E x : log' = Append(log, x),
           shown'["snapshot"] = shown["snapshot"], shown'["flora"] = shown["flora"],
           reached' = reached, OneWorld' <=> OneWorld,
           view.snapshotLoaded => LastIn(log', "flora", reached') = LastIn(log, "flora", reached),
           view'.snapshotLoaded <=> view.snapshotLoaded, view'.floraLoaded <=> view.floraLoaded,
           view'.flora = view.flora, view'.pendingFloraOps = view.pendingFloraOps,
           view'.lastApplied = view.lastApplied, view'.snapshotCursor = view.snapshotCursor,
           view.floraLoaded => loads'["flora"].state = "idle"
    PROVE  FloraDrawn'
<1>1. view'.floraLoaded => loads'["flora"].state = "idle" /\ shown'["flora"] # NoDoc
  BY DEF FloraDrawn
<1>2. Typed /\ Len(log) \in Nat /\ DOMAIN log = 1..Len(log)
  BY HeldFacts DEF ViewInv
<1>3. ASSUME OneWorld', ~view'.floraLoaded, NEW m, m \in DOMAIN log', log'[m] = "flora",
             shown'["snapshot"].at < m, m <= view'.lastApplied
      PROVE  m \in Queue'
  <2>1. view.snapshotLoaded
    BY <1>3 DEF OneWorld
  <2>2. view.lastApplied \in Nat /\ view.lastApplied <= Len(log) /\ shown["snapshot"].at \in Nat
    BY <2>1, ReachedFacts
  <2>3. m \in 0..Len(log)
    <3>1. PICK L, a, b : L = Len(log) /\ a = shown["snapshot"].at /\ b = view.lastApplied
      OBVIOUS
    <3>2. m \in 1..L \/ m \in 1..(L + 1)
      <4>1. CASE log' = log
        BY <1>2, <1>3, <3>1, <4>1
      <4>2. ASSUME NEW x, log' = Append(log, x) PROVE m \in 1..(L + 1)
        <5>1. Longer(log, x, log')
          BY <1>2, <4>2, AppendLonger
        <5> QED
          BY <1>3, <3>1, <5>1 DEF Longer
      <4> QED
        BY <4>1, <4>2
    <3>3. m \in Nat /\ a < m /\ m <= b /\ b <= L /\ L \in Nat /\ b \in Nat
      BY <1>2, <1>3, <2>2, <3>1, <3>2
    <3> QED
      BY <3>1, <3>3
  <2>4. m \in DOMAIN log /\ log[m] = "flora"
    BY <1>2, <1>3, <2>3, PastSettled
  <2>5. m \in Queue
    BY <1>3, <2>4 DEF FloraDrawn
  <2> QED
    BY <2>5 DEF Queue
<1>4. ASSUME OneWorld', view'.floraLoaded, OneIn(log', shown'["flora"].at, reached'),
             shown'["flora"].cursor >= view'.snapshotCursor
      PROVE  view'.flora >= LastIn(log', "flora", reached')
  <2>1. view.snapshotLoaded /\ OneWorld /\ shown["flora"] # NoDoc
    BY <1>4 DEF OneWorld, FloraDrawn
  <2>2. shown["flora"].at \in Nat /\ reached \in 0..Len(log)
    BY <2>1, ShownFacts, ReachedFacts
  <2>3. OneIn(log, shown["flora"].at, reached)
    BY <1>2, <1>4, <2>2, PastSettled
  <2> QED
    BY <1>4, <2>1, <2>3 DEF FloraDrawn
<1>5. ASSUME ~view'.snapshotLoaded, view'.floraLoaded
      PROVE  view'.flora >= LastIn(log', "flora", shown'["flora"].at)
  <2>1. shown["flora"] # NoDoc
    BY <1>5 DEF FloraDrawn
  <2>2. shown["flora"].at \in 0..Len(log)
    BY <2>1, ShownFacts
  <2>3. LastIn(log', "flora", shown["flora"].at) = LastIn(log, "flora", shown["flora"].at)
    BY <1>2, <2>2, PastSettled
  <2> QED
    BY <1>5, <2>3 DEF FloraDrawn
<1> QED
  BY <1>1, <1>3, <1>4, <1>5, FloraParts

\* An entry reaches the plants, or waits for them.
LEMMA FloraDelivered ==
    ASSUME ViewInv, Gapless, Lossless, FloraDrawn, "flora" \in Baselines, Deliver
    PROVE  FloraDrawn'
<1>1. /\ shown' = shown /\ loads' = loads /\ log' = log /\ view.snapshotLoaded /\ ~view.paused
      /\ view \in View /\ Len(log) \in Nat /\ DOMAIN log = 1..Len(log)
  BY EntryFacts, HeldFacts DEF Gapless, ViewInv, Typed
<1>2. CASE ~view'.snapshotLoaded /\ ~view'.floraLoaded
  <2>1. ~OneWorld'
    BY <1>2 DEF OneWorld
  <2> QED
    BY <1>2, <2>1, FloraParts
<1>3. ASSUME NEW id \in Nat,
             /\ id \in DOMAIN log /\ id > view.lastApplied /\ log[id] \in Slices
             /\ view' = EVENT(view, log[id], id) /\ view'.snapshotLoaded /\ view'.lastApplied = id
             /\ view'.snapshotCursor = view.snapshotCursor,
             OneWorld' =>
                  /\ OneWorld /\ reached' = id /\ reached \in Nat /\ reached < id
                  /\ \A m \in DOMAIN log : ~(reached < m /\ m < id)
                  /\ \A k : LastIn(log, k, id) = IF log[id] = k THEN id ELSE LastIn(log, k, reached)
      PROVE  FloraDrawn'
  <2>1. /\ view'.floraLoaded <=> view.floraLoaded
        /\ view'.flora = (IF log[id] = "flora" /\ view.floraLoaded THEN id ELSE view.flora)
        /\ view'.pendingFloraOps = (IF log[id] = "flora" /\ ~view.floraLoaded
                                    THEN Append(view.pendingFloraOps, id) ELSE view.pendingFloraOps)
    <3>1. PICK kind : kind = log[id]
      OBVIOUS
    <3> QED
      BY <1>1, <1>3, <3>1, EventView
  <2>2. view'.floraLoaded => loads'["flora"].state = "idle" /\ shown'["flora"] # NoDoc
    BY <1>1, <2>1 DEF FloraDrawn
  <2>3. \A m \in Queue : m \in Queue'
    <3>1. CASE view'.pendingFloraOps = view.pendingFloraOps
      BY <3>1 DEF Queue
    <3>2. CASE view'.pendingFloraOps = Append(view.pendingFloraOps, id)
      <4>1. PICK q, a : q = view.pendingFloraOps /\ a = view'.pendingFloraOps
        OBVIOUS
      <4>2. q \in Seq(Nat) /\ a = Append(q, id)
        BY <1>1, <3>2, <4>1 DEF View
      <4>3. \A i \in DOMAIN q : i \in DOMAIN a /\ a[i] = q[i]
        BY <4>2
      <4> QED
        BY <4>1, <4>3 DEF Queue
    <3> QED
      BY <2>1, <3>1, <3>2
  <2>4. ASSUME OneWorld', ~view'.floraLoaded, NEW m, m \in DOMAIN log, log[m] = "flora",
               shown["snapshot"].at < m, m <= id
        PROVE  m \in Queue'
    <3>1. CASE m <= view.lastApplied
      BY <1>3, <2>1, <2>3, <2>4, <3>1 DEF FloraDrawn
    <3>2. CASE ~(m <= view.lastApplied)
      <4>1. m \in Nat /\ view.lastApplied \in Nat /\ shown["snapshot"].at \in Nat
            /\ reached = (IF view.lastApplied >= shown["snapshot"].at THEN view.lastApplied ELSE shown["snapshot"].at)
        BY <1>1, <2>4, ReachedFacts
      <4>2. reached < m
        BY <2>4, <3>2, <4>1
      <4>3. m = id
        BY <1>3, <2>4, <4>1, <4>2
      <4>4. view'.pendingFloraOps = Append(view.pendingFloraOps, id)
        BY <2>1, <2>4, <4>3
      <4>5. PICK q, a : q = view.pendingFloraOps /\ a = view'.pendingFloraOps
        OBVIOUS
      <4>6. q \in Seq(Nat) /\ a = Append(q, id)
        BY <1>1, <4>4, <4>5 DEF View
      <4>7. Len(q) + 1 \in DOMAIN a /\ a[Len(q) + 1] = id
        BY <4>6
      <4> QED
        BY <4>3, <4>5, <4>7 DEF Queue
    <3> QED
      BY <3>1, <3>2
  <2>5. ASSUME OneWorld', view'.floraLoaded, OneIn(log, shown["flora"].at, id),
               shown["flora"].cursor >= view.snapshotCursor
        PROVE  view'.flora >= LastIn(log, "flora", id)
    <3>1. /\ OneWorld /\ reached \in Nat /\ reached < id
          /\ LastIn(log, "flora", id) = IF log[id] = "flora" THEN id ELSE LastIn(log, "flora", reached)
      BY <1>3, <2>5
    <3>2. OneIn(log, shown["flora"].at, reached)
      <4>1. \A r \in DOMAIN log : r <= reached => r <= id
        BY <1>1, <1>3, <3>1
      <4> QED
        BY <2>5, <4>1 DEF OneIn
    <3>3. view.flora >= LastIn(log, "flora", reached)
      BY <2>1, <2>5, <3>1, <3>2 DEF FloraDrawn
    <3>4. CASE log[id] = "flora"
      BY <1>3, <2>1, <2>5, <3>1, <3>4
    <3>5. CASE log[id] # "flora"
      BY <2>1, <3>1, <3>3, <3>5
    <3> QED
      BY <3>4, <3>5
  <2>6. (OneWorld' /\ ~view'.floraLoaded) =>
              \A m \in DOMAIN log' :
                 (log'[m] = "flora" /\ shown'["snapshot"].at < m /\ m <= view'.lastApplied) => m \in Queue'
    BY <1>1, <1>3, <2>4
  <2>7. (OneWorld' /\ view'.floraLoaded /\ OneIn(log', shown'["flora"].at, reached')
              /\ shown'["flora"].cursor >= view'.snapshotCursor)
           => view'.flora >= LastIn(log', "flora", reached')
    BY <1>1, <1>3, <2>5
  <2> QED
    BY <1>3, <2>2, <2>6, <2>7, FloraParts
<1> QED
  BY <1>2, <1>3, EntryFacts

\* A snapshot taken over plants that stay is not newer than they are.
LEMMA FloraResnapped ==
    ASSUME ViewInv, Retention, Lossless, FloraDrawn, "flora" \in Installed, Accept("snapshot")
    PROVE  FloraDrawn'
<1>1. "flora" \in Baselines \ {"snapshot"} /\ "flora" \notin Rebuilds
  BY FeedAssumption DEF Baselines
<1>2. PICK doc : doc = loads["snapshot"].doc
  OBVIOUS
<1>3. /\ log' = log /\ ~view.snapshotLoaded /\ view'.snapshotLoaded /\ shown'["snapshot"] = doc
      /\ shown'["flora"] = shown["flora"] /\ loads'["flora"] = loads["flora"]
      /\ view'.floraLoaded => view.floraLoaded /\ view'.flora = view.flora
      /\ view'.snapshotCursor = doc.cursor
  BY <1>1, <1>2, SnapshotView DEF feedVars
<1>4. OneWorld' => /\ doc.cursor # 0 /\ doc.cursor <= doc.at /\ doc.cursor \in Nat /\ doc.at \in Nat
                   /\ reached' = doc.at /\ view'.lastApplied = doc.cursor
                   /\ \A m \in DOMAIN log : (doc.cursor < m /\ m <= doc.at) => log[m] \in Rebuilds
  BY <1>2, SnapshotWorld
<1>5. view'.floraLoaded => loads'["flora"].state = "idle" /\ shown'["flora"] # NoDoc
  BY <1>3 DEF FloraDrawn
<1>6. PICK L : L = Len(log)
  OBVIOUS
<1>7. L \in Nat /\ DOMAIN log = 1..L
  BY <1>6, HeldFacts DEF ViewInv
<1>8. (OneWorld' /\ ~view'.floraLoaded) =>
          \A m \in DOMAIN log' :
             (log'[m] = "flora" /\ shown'["snapshot"].at < m /\ m <= view'.lastApplied) => m \in Queue'
  <2> SUFFICES ASSUME OneWorld', NEW m \in DOMAIN log', doc.at < m, m <= view'.lastApplied PROVE FALSE
    BY <1>3
  <2>1. m \in Nat
    BY <1>3, <1>7
  <2> QED
    BY <1>4, <2>1
<1>9. ASSUME OneWorld', view'.floraLoaded, OneIn(log, shown["flora"].at, doc.at),
             shown["flora"].cursor >= doc.cursor
      PROVE  view'.flora >= LastIn(log, "flora", doc.at)
  <2>1. PICK f : f = shown["flora"]
    OBVIOUS
  <2>2. view.floraLoaded /\ f # NoDoc /\ view'.flora = view.flora
    BY <1>3, <1>9, <2>1 DEF FloraDrawn
  <2>3. f.at \in Nat /\ f.cursor \in Nat /\ f.cursor <= f.at
    <3>1. f \in Docs /\ f.at \in Nat /\ f.cursor \in Nat
      BY <1>1, <2>1, <2>2, ShownFacts
    <3> QED
      BY <3>1 DEF Retention
  <2>4. view.flora >= LastIn(log, "flora", f.at)
    BY <1>3, <2>1, <2>2 DEF FloraDrawn
  <2>5. PICK x, y : x = LastIn(log, "flora", f.at) /\ y = LastIn(log, "flora", doc.at)
    OBVIOUS
  <2>6. view.flora \in Nat
    BY DEF ViewInv, Typed, View
  <2>7. y \in Nat /\ y <= doc.at /\ (y # 0 => y \in 1..L /\ log[y] \in {"flora"} \cup Rebuilds)
    BY <1>4, <1>7, <1>9, <2>5, LastFacts
  <2>8. x \in Nat /\ \A m \in 1..L : (m <= f.at /\ log[m] \in {"flora"} \cup Rebuilds) => m <= x
    BY <1>7, <2>3, <2>5, LastFacts
  <2>9. CASE y <= f.at
    BY <2>2, <2>4, <2>5, <2>6, <2>7, <2>8, <2>9
  <2>10. CASE ~(y <= f.at)
    <3>1. y # 0 /\ f.at < y /\ y \in DOMAIN log
      BY <1>7, <2>3, <2>7, <2>10
    <3>2. log[y] \notin Rebuilds
      BY <1>9, <2>1, <2>7, <3>1 DEF OneIn
    <3>3. doc.cursor < y
      BY <1>4, <1>9, <2>1, <2>3, <2>7, <3>1
    <3> QED
      BY <1>4, <1>9, <2>7, <3>1, <3>2, <3>3
  <2> QED
    BY <2>9, <2>10
<1>10. (OneWorld' /\ view'.floraLoaded /\ OneIn(log', shown'["flora"].at, reached')
              /\ shown'["flora"].cursor >= view'.snapshotCursor)
           => view'.flora >= LastIn(log', "flora", reached')
  BY <1>3, <1>4, <1>9
<1> QED
  BY <1>3, <1>5, <1>8, <1>10, FloraParts

\* Plants taken in are drawn with every operation that waited and that they do not show.
LEMMA FloraTaken ==
    ASSUME ViewInv, Retention, Queued, FloraDrawn, "flora" \in Baselines, Accept("flora")
    PROVE  FloraDrawn'
<1>1. PICK doc, base : doc = loads["flora"].doc /\ base = LastIn(log, "flora", doc.at)
  OBVIOUS
<1>2. /\ log' = log /\ (view'.snapshotLoaded <=> view.snapshotLoaded)
      /\ view'.lastApplied = view.lastApplied /\ view'.snapshotCursor = view.snapshotCursor
      /\ shown'["snapshot"] = shown["snapshot"]
  <2>1. "flora" \in Baselines \ {"snapshot"}
    OBVIOUS
  <2> QED
    BY <2>1, LayerQuiet
<1>3. /\ loads["flora"].state = "answered" /\ loads'["flora"].state = "idle"
  BY DEF Accept, Idle, ViewInv, Typed
<1>4. ~view.floraLoaded
  BY <1>3 DEF FloraDrawn
<1>5. /\ reached' = reached /\ (OneWorld' <=> OneWorld)
      /\ view.snapshotLoaded => LastIn(log', "flora", reached') = LastIn(log, "flora", reached)
  BY <1>2, WorldKept
<1>6. /\ doc \in Docs /\ base \in Nat /\ base <= doc.at
      /\ \/ UNCHANGED <<view, shown>>
         \/ /\ shown'["flora"] = doc /\ view'.floraLoaded /\ view'.pendingFloraOps = <<>>
            /\ view'.flora \in Nat /\ view'.flora >= base
            /\ \/ view'.flora = base /\ \A op \in Queue : doc.cursor # 0 /\ op <= doc.cursor
               \/ \E i \in DOMAIN view.pendingFloraOps :
                     /\ view'.flora = view.pendingFloraOps[i]
                     /\ \A j \in DOMAIN view.pendingFloraOps :
                           (doc.cursor = 0 \/ view.pendingFloraOps[j] > doc.cursor) => j <= i
  BY <1>1, FloraView
<1>7. CASE UNCHANGED <<view, shown>>
  BY <1>2, <1>3, <1>5, <1>7, FloraKept
<1>8. /\ doc \in Doc /\ doc # NoDoc /\ doc.at \in Nat /\ doc.cursor \in Nat /\ doc.cursor <= doc.at
      /\ Queue \subseteq Nat /\ Len(log) \in Nat /\ DOMAIN log = 1..Len(log)
  BY <1>6, DocFacts, HeldFacts DEF Docs, Retention, ViewInv
<1>9. PICK q : q = view.pendingFloraOps
  OBVIOUS
<1>10. /\ q \in Seq(Nat) /\ \A i \in DOMAIN q : q[i] \in Queue /\ q[i] \in Nat
       /\ \A i, j \in DOMAIN q : i < j => q[i] < q[j]
  <2>1. q \in Seq(Nat)
    BY <1>9 DEF ViewInv, Typed, View
  <2> QED
    BY <1>9, <2>1 DEF Queue, Queued
<1>11. ASSUME shown'["flora"] = doc, view'.floraLoaded, view'.flora \in Nat, view'.flora >= base,
              \/ view'.flora = base /\ \A op \in Queue : doc.cursor # 0 /\ op <= doc.cursor
              \/ \E i \in DOMAIN view.pendingFloraOps :
                    /\ view'.flora = view.pendingFloraOps[i]
                    /\ \A j \in DOMAIN view.pendingFloraOps :
                          (doc.cursor = 0 \/ view.pendingFloraOps[j] > doc.cursor) => j <= i
       PROVE  FloraDrawn'
  <2>1. ASSUME OneWorld, OneIn(log, doc.at, reached), doc.cursor >= view.snapshotCursor
        PROVE  view'.flora >= LastIn(log, "flora", reached)
    <3>1. PICK s, y, r : s = shown["snapshot"] /\ y = LastIn(log, "flora", reached) /\ r = reached
      OBVIOUS
    <3>2. view.snapshotLoaded /\ view.snapshotCursor # 0
      BY <2>1 DEF OneWorld
    <3>3. /\ s \in Docs /\ s.at \in Nat /\ s.cursor = view.snapshotCursor
          /\ view.lastApplied \in Nat /\ r \in Nat
          /\ r = (IF view.lastApplied >= s.at THEN view.lastApplied ELSE s.at)
      BY <3>1, <3>2, ReachedFacts
    <3>4. /\ y \in Nat /\ y <= r
          /\ y # 0 => y \in DOMAIN log /\ log[y] \in {"flora"} \cup Rebuilds
      BY <1>8, <3>1, <3>3, LastFacts
    <3>5. CASE y <= doc.at
      <4>1. \A m \in DOMAIN log : (m <= doc.at /\ log[m] \in {"flora"} \cup Rebuilds) => m <= base
        BY <1>1, <1>8, LastFacts
      <4>2. y <= base
        BY <1>6, <3>4, <3>5, <4>1
      <4> QED
        BY <1>6, <1>11, <3>1, <3>4, <4>2
    <3>6. CASE ~(y <= doc.at)
      <4>1. y # 0 /\ doc.at < y /\ y \in DOMAIN log
        BY <1>8, <3>4, <3>6
      <4>2. log[y] = "flora" /\ "flora" \notin Rebuilds
        BY <2>1, <3>1, <3>4, <4>1, FeedAssumption DEF OneIn
      <4>3. CASE y <= s.at
        <5>1. s.cursor # 0 /\ s.cursor \in Nat
          BY <3>2, <3>3, DocFacts DEF ViewInv
        <5>2. s.cursor < y
          BY <1>8, <2>1, <3>3, <3>4, <4>1, <5>1
        <5>3. log[y] \in Rebuilds
          BY <3>3, <4>1, <4>3, <5>1, <5>2 DEF Retention
        <5> QED
          BY <4>2, <5>3
      <4>4. CASE ~(y <= s.at)
        <5>1. s.at < y /\ y <= view.lastApplied
          BY <3>3, <3>4, <4>4
        <5>2. y \in Queue
          BY <1>4, <2>1, <3>1, <4>1, <4>2, <5>1 DEF FloraDrawn
        <5>3. y > doc.cursor
          BY <1>8, <3>4, <4>1
        <5>4. PICK j \in DOMAIN q : y = q[j]
          BY <1>9, <5>2 DEF Queue
        <5>5. PICK i \in DOMAIN q : view'.flora = q[i] /\ j <= i
          <6>1. ~(\A op \in Queue : doc.cursor # 0 /\ op <= doc.cursor)
            BY <1>8, <3>4, <5>2, <5>3
          <6> QED
            BY <1>9, <1>11, <5>3, <5>4, <6>1
        <5>6. q[j] <= q[i]
          <6>1. i \in Nat /\ j \in Nat
            BY <1>10
          <6>2. i = j \/ j < i
            BY <5>5, <6>1
          <6>3. q[i] \in Nat /\ q[j] \in Nat /\ (j < i => q[j] < q[i])
            BY <1>10
          <6> QED
            BY <6>2, <6>3
        <5> QED
          BY <1>10, <3>1, <5>4, <5>5, <5>6
      <4> QED
        BY <4>3, <4>4
    <3> QED
      BY <3>5, <3>6
  <2>2. (OneWorld' /\ view'.floraLoaded /\ OneIn(log', shown'["flora"].at, reached')
              /\ shown'["flora"].cursor >= view'.snapshotCursor)
           => view'.flora >= LastIn(log', "flora", reached')
    BY <1>2, <1>5, <1>11, <2>1
  <2>3. view'.flora >= LastIn(log', "flora", shown'["flora"].at)
    BY <1>1, <1>2, <1>11
  <2> QED
    BY <1>3, <1>8, <1>11, <2>2, <2>3, FloraParts
<1> QED
  BY <1>6, <1>7, <1>11

\* Every step keeps the plants the world's, or what they lack waiting.
LEMMA FloraStep ==
    ASSUME ViewInv, Retention, Gapless, Queued, Lossless, "flora" \in Installed, FloraDrawn, [Next]_vars
    PROVE  FloraDrawn'
<1>1. "flora" \in Baselines /\ "flora" \in Baselines \ {"snapshot"} /\ loads \in [Baselines -> Load]
  BY DEF Baselines, ViewInv, Typed
<1>2. CASE Still
  <2>1. /\ reached' = reached /\ (OneWorld' <=> OneWorld)
        /\ view.snapshotLoaded => LastIn(log', "flora", reached') = LastIn(log, "flora", reached)
    BY <1>2, StillWorld
  <2>2. /\ view'.snapshotLoaded = view.snapshotLoaded /\ view'.floraLoaded = view.floraLoaded
        /\ view'.flora = view.flora /\ view'.pendingFloraOps = view.pendingFloraOps
        /\ view'.lastApplied = view.lastApplied /\ view'.snapshotCursor = view.snapshotCursor
    BY <1>2, StillWorld
  <2>3. /\ log' = log \/ \E x : log' = Append(log, x)
        /\ shown' = shown
        /\ view.floraLoaded => loads'["flora"].state = "idle"
    <3>1. view.floraLoaded => ~wanted("flora")
      BY DEF wanted
    <3> QED
      BY <1>1, <1>2, <3>1 DEF Still, FloraDrawn
  <2> QED
    BY <1>1, <2>1, <2>2, <2>3, FloraKept
<1>3. CASE Deliver
  BY <1>1, <1>3, FloraDelivered
<1>4. CASE Accept("snapshot")
  BY <1>4, FloraResnapped
<1>5. CASE Accept("flora")
  BY <1>1, <1>5, FloraTaken
<1>6. ASSUME "terrain" \in Baselines \ {"snapshot"}, Accept("terrain") PROVE FloraDrawn'
  <2>1. /\ log' = log /\ (view'.snapshotLoaded <=> view.snapshotLoaded)
        /\ view'.lastApplied = view.lastApplied /\ view'.snapshotCursor = view.snapshotCursor
        /\ shown'["snapshot"] = shown["snapshot"]
    BY <1>6, LayerQuiet
  <2>2. /\ reached' = reached /\ (OneWorld' <=> OneWorld)
        /\ view.snapshotLoaded => LastIn(log', "flora", reached') = LastIn(log, "flora", reached)
    BY <2>1, WorldKept
  <2>3. /\ view'.flora = view.flora /\ view'.floraLoaded = view.floraLoaded
        /\ view'.pendingFloraOps = view.pendingFloraOps
    <3>1. PICK doc, base : doc = loads["terrain"].doc /\ base = LastIn(log, "terrain", doc.at)
      OBVIOUS
    <3> QED
      BY <1>6, <3>1, TerrainView
  <2>4. shown'["flora"] = shown["flora"] /\ loads'["flora"] = loads["flora"]
    BY <1>1, <1>6 DEF Accept
  <2>5. view.floraLoaded => loads'["flora"].state = "idle"
    BY <2>4 DEF FloraDrawn
  <2> QED
    BY <1>1, <2>1, <2>2, <2>3, <2>4, <2>5, FloraKept
<1>7. \A b \in Baselines \ {"snapshot"} : b = "flora" \/ b = "terrain"
  BY FeedAssumption DEF Baselines
<1> QED
  BY <1>2, <1>3, <1>4, <1>5, <1>6, <1>7, StepKinds

\* A stream that is not trimmed reports no gap: the snapshot is taken once.
NoGap == maxDeleted = 0 /\ wire # <<GapFrame>> /\ ~view.reacquire

\* The grid is fetched under a snapshot, until it is drawn.
GridFetched ==
    /\ ~view.snapshotLoaded =>
          /\ view.terrain = NoGrid /\ view.pendingTerrainDeltas = <<>>
          /\ loads["terrain"].state = "idle"
    /\ view.terrain # NoGrid => loads["terrain"].state = "idle" /\ shown["terrain"] # NoDoc

\* What waits for the grid are changes since the snapshot, in order; all of them, while
\* one world is followed.
DeltasWait ==
    /\ \A i \in DOMAIN view.pendingTerrainDeltas :
          /\ view.pendingTerrainDeltas[i] \in DOMAIN log /\ log[view.pendingTerrainDeltas[i]] = "terrain"
          /\ shown["snapshot"].at < view.pendingTerrainDeltas[i] /\ view.pendingTerrainDeltas[i] <= view.lastApplied
          /\ \A j \in DOMAIN view.pendingTerrainDeltas :
                i < j => view.pendingTerrainDeltas[i] < view.pendingTerrainDeltas[j]
    /\ (OneWorld /\ view.terrain = NoGrid) =>
          \A m \in DOMAIN log :
             (log[m] = "terrain" /\ shown["snapshot"].at < m /\ m <= view.lastApplied) =>
                \E i \in DOMAIN view.pendingTerrainDeltas : m = view.pendingTerrainDeltas[i]

\* The grid drawn is the world's, or its own document's that the entries have not reached.
GridDrawn ==
    (OneWorld /\ view.terrain # NoGrid
        /\ OneIn(log, shown["terrain"].at, reached) /\ OneIn(log, reached, shown["terrain"].at)
        /\ shown["terrain"].cursor >= view.snapshotCursor) =>
    \/ view.terrain = LastIn(log, "terrain", reached)
    \/ view.terrain = LastIn(log, "terrain", shown["terrain"].at) /\ reached < shown["terrain"].at

\* What keeps the grid following, where nothing is trimmed.
TerrainDrawn == NoGap /\ GridFetched /\ DeltasWait /\ GridDrawn

\* Without trimming no step reports a gap.
LEMMA NoGapStep ==
    ASSUME ViewInv, Retention, Gapless, Lossless, ~Trims, NoGap, ~reused', [Next]_vars
    PROVE  NoGap'
<1>1. Typed /\ Frames /\ view \in View /\ cursor \in Nat
  BY DEF ViewInv, Typed, cursor, View
<1>2. maxDeleted' = 0
  <2>1. ASSUME NEW k \in Kinds, Emit(k) PROVE maxDeleted' = 0
    BY <1>1, <2>1, Appended DEF NoGap
  <2>2. CASE BeginFlush \/ WriteBaseline \/ Publish \/ Regen \/ Restart \/ Reboot
    BY <2>2 DEF BeginFlush, WriteBaseline, Publish, Regen, Restart, Reboot, NoGap
  <2>3. CASE UNCHANGED maxDeleted
    BY <2>3 DEF NoGap
  <2>4. (\E k \in Kinds : Emit(k)) \/ BeginFlush \/ WriteBaseline \/ Publish
         \/ Regen \/ Restart \/ Reboot \/ UNCHANGED maxDeleted
    BY FeedOnly DEF Feed, Produce, Emitting, feedVars, vars
  <2> QED
    BY <2>1, <2>2, <2>3, <2>4
<1>3. ViewInv'
  BY ViewStep
<1>4. wire' # <<GapFrame>>
  <2>1. CASE UNCHANGED wire
    BY <2>1 DEF NoGap
  <2>2. CASE Connect
    <3>1. ~gapped(cursor)
      BY <1>1 DEF gapped, NoGap
    <3> QED
      BY <2>2, <3>1 DEF Connect, NoGap
  <2>3. CASE Read
    <3>1. pos' \in Nat /\ Frames'
      BY <1>1, <2>3, ReadFacts
    <3>2. SUFFICES ASSUME wire' = <<GapFrame>> PROVE FALSE
      OBVIOUS
    <3>3. wire'[1] = GapFrame /\ 1 \in DOMAIN wire'
      BY <3>2
    <3>4. GapFrame.kind \notin Slices
      BY FeedAssumption DEF Slices, GapFrame
    <3>5. pos' = Closed
      BY <3>1, <3>3, <3>4 DEF Frames
    <3> QED
      BY <3>1, <3>5 DEF Closed
  <2>4. CASE Drop
    BY <2>4 DEF Drop
  <2>5. CASE Deliver
    BY <2>5, DeliverView DEF NoGap
  <2>6. UNCHANGED wire \/ Connect \/ Read \/ Drop \/ Deliver
    BY DEF Next, Feed, Server, BlockAtEnd, Client, Refetch, Loading, Answer, Accept, RunEffects, TogglePause,
           vars, clientVars
  <2> QED
    BY <2>1, <2>2, <2>3, <2>4, <2>5, <2>6
<1>5. ~view'.reacquire
  <2>1. CASE Still
    BY <2>1 DEF Still, NoGap
  <2>2. CASE Deliver
    <3>1. view'.snapshotLoaded
      BY <2>2, EntryFacts DEF NoGap
    <3> QED
      BY <1>3, <3>1 DEF ViewInv, Drawn
  <2>3. CASE Accept("snapshot")
    <3>1. PICK doc : doc = loads["snapshot"].doc
      OBVIOUS
    <3>2. view'.snapshotLoaded
      BY <2>3, <3>1, SnapshotView
    <3> QED
      BY <1>3, <3>2 DEF ViewInv, Drawn
  <2>4. ASSUME NEW b \in Baselines \ {"snapshot"}, Accept(b) PROVE ~view'.reacquire
    BY <2>4, TakeLayer DEF NoGap
  <2> QED
    BY <2>1, <2>2, <2>3, <2>4, StepKinds
<1> QED
  BY <1>2, <1>4, <1>5 DEF NoGap

\* Taking plants leaves the grid and what waits for it.
LEMMA FloraLeavesGrid ==
    ASSUME ViewInv, Accept("flora")
    PROVE  view'.terrain = view.terrain /\ view'.pendingTerrainDeltas = view.pendingTerrainDeltas
<1>1. view \in View /\ view' = FLORA_LOADED(view, loads["flora"].doc, At("flora", loads["flora"].doc.at))
  BY DEF ViewInv, Typed, Accept, loaded
<1>2. PICK s, d, x : s = view /\ d = loads["flora"].doc /\ x = At("flora", d.at)
  OBVIOUS
<1>3. view' = FLORA_LOADED(s, d, x) /\ s \in View
  BY <1>1, <1>2
<1>4. FLORA_LOADED(s, d, x).terrain = s.terrain
      /\ FLORA_LOADED(s, d, x).pendingTerrainDeltas = s.pendingTerrainDeltas
  BY <1>3 DEF FLORA_LOADED, View
<1> QED
  BY <1>2, <1>3, <1>4

\* A view without a gap has its snapshot for good, and takes it over no grid.
LEMMA SnapshotGrid ==
    ASSUME ViewInv, GridFetched, Accept("snapshot")
    PROVE  view'.terrain = NoGrid /\ view'.pendingTerrainDeltas = <<>> /\ view'.snapshotLoaded
<1>1. PICK doc : doc = loads["snapshot"].doc
  OBVIOUS
<1>2. /\ ~view.snapshotLoaded /\ view'.snapshotLoaded
      /\ view'.terrain = NoGrid \/ view'.terrain = view.terrain
      /\ view'.pendingTerrainDeltas = <<>> \/ view'.pendingTerrainDeltas = view.pendingTerrainDeltas
  BY <1>1, SnapshotView
<1> QED
  BY <1>2 DEF GridFetched

\* What an entry does to the grid and what waits for it.
LEMMA EntryGrid ==
    ASSUME ViewInv, Gapless, Lossless, NoGap, Deliver
    PROVE  /\ shown' = shown /\ loads' = loads /\ log' = log /\ view.snapshotLoaded /\ view'.snapshotLoaded
           /\ view'.terrain = NoGrid <=> view.terrain = NoGrid
           /\ \E id \in Nat :
                 /\ id \in DOMAIN log /\ id > view.lastApplied /\ log[id] \in Slices
                 /\ view'.lastApplied = id /\ view'.snapshotCursor = view.snapshotCursor
                 /\ view'.terrain = (IF log[id] = "terrain" /\ view.terrain # NoGrid THEN id ELSE view.terrain)
                 /\ view'.pendingTerrainDeltas =
                      (IF log[id] = "terrain" /\ view.terrain = NoGrid
                       THEN Append(view.pendingTerrainDeltas, id) ELSE view.pendingTerrainDeltas)
                 /\ OneWorld' =>
                         /\ OneWorld /\ reached' = id /\ reached \in Nat /\ reached < id
                         /\ OneIn(log, shown["snapshot"].at, id)
                         /\ \A m \in DOMAIN log : ~(reached < m /\ m < id)
                         /\ \A k : LastIn(log, k, id) = IF log[id] = k THEN id ELSE LastIn(log, k, reached)
<1>1. shown' = shown /\ loads' = loads /\ log' = log /\ view.snapshotLoaded
  BY EntryFacts
<1>2. PICK id \in Nat :
         /\ id \in DOMAIN log /\ id > view.lastApplied /\ log[id] \in Slices
         /\ view' = EVENT(view, log[id], id) /\ view'.snapshotLoaded /\ view'.lastApplied = id
         /\ view'.snapshotCursor = view.snapshotCursor
         /\ OneWorld' =>
                 /\ OneWorld /\ reached' = id /\ reached \in Nat /\ reached < id
                 /\ OneIn(log, shown["snapshot"].at, id)
                 /\ \A m \in DOMAIN log : ~(reached < m /\ m < id)
                 /\ \A k : LastIn(log, k, id) = IF log[id] = k THEN id ELSE LastIn(log, k, reached)
  BY EntryFacts DEF NoGap
<1>3. PICK kind : kind = log[id]
  OBVIOUS
<1>4. /\ view'.terrain = (IF kind = "terrain" /\ view.terrain # NoGrid THEN id ELSE view.terrain)
      /\ view'.pendingTerrainDeltas =
           (IF kind = "terrain" /\ view.terrain = NoGrid
            THEN Append(view.pendingTerrainDeltas, id) ELSE view.pendingTerrainDeltas)
  BY <1>1, <1>2, <1>3, EventView DEF Gapless
<1>5. view'.terrain = NoGrid <=> view.terrain = NoGrid
  BY <1>4 DEF NoGrid
<1> QED
  BY <1>1, <1>2, <1>3, <1>4, <1>5

\* Every step keeps the grid fetched under its snapshot.
LEMMA FetchedStep ==
    ASSUME ViewInv, Gapless, Lossless, "terrain" \in Installed, NoGap, GridFetched, [Next]_vars
    PROVE  GridFetched'
<1>1. "terrain" \in Baselines \ {"snapshot"} /\ loads \in [Baselines -> Load] /\ shown \in [Baselines -> Doc]
  BY DEF Baselines, ViewInv, Typed
<1>2. CASE Still
  <2>1. /\ view'.snapshotLoaded = view.snapshotLoaded /\ view'.terrain = view.terrain
        /\ view'.pendingTerrainDeltas = view.pendingTerrainDeltas
    BY <1>2, StillWorld
  <2>2. shown' = shown /\ (loads["terrain"].state = "idle" => loads'["terrain"].state = "idle" \/ wanted("terrain"))
    BY <1>1, <1>2 DEF Still
  <2> QED
    BY <2>1, <2>2 DEF GridFetched, wanted
<1>3. CASE Deliver
  <2>1. /\ shown' = shown /\ loads' = loads /\ view'.snapshotLoaded
        /\ view'.terrain = NoGrid <=> view.terrain = NoGrid
    BY <1>3, EntryGrid
  <2> QED
    BY <2>1 DEF GridFetched
<1>4. CASE Accept("snapshot")
  BY <1>4, SnapshotGrid DEF GridFetched
<1>5. ASSUME "flora" \in Baselines \ {"snapshot"}, Accept("flora") PROVE GridFetched'
  <2>1. view'.snapshotLoaded <=> view.snapshotLoaded
    BY <1>5, LayerQuiet
  <2>2. loads'["terrain"] = loads["terrain"] /\ shown'["terrain"] = shown["terrain"]
    BY <1>1, <1>5 DEF Accept
  <2>3. view'.terrain = view.terrain /\ view'.pendingTerrainDeltas = view.pendingTerrainDeltas
    BY <1>5, FloraLeavesGrid
  <2> QED
    BY <2>1, <2>2, <2>3 DEF GridFetched
<1>6. CASE Accept("terrain")
  <2>1. PICK doc, base : doc = loads["terrain"].doc /\ base = LastIn(log, "terrain", doc.at)
    OBVIOUS
  <2>2. doc \in Docs /\ shown'["terrain"] = doc
    BY <1>1, <1>6, <2>1, TerrainView
  <2>3. loads["terrain"].state = "answered" /\ loads'["terrain"].state = "idle"
    BY <1>1, <1>6 DEF Accept, Idle
  <2>4. view'.snapshotLoaded
    <3>1. view'.snapshotLoaded <=> view.snapshotLoaded
      BY <1>1, <1>6, LayerQuiet
    <3> QED
      BY <2>3, <3>1 DEF GridFetched
  <2>5. doc # NoDoc
    BY <2>2 DEF Docs
  <2> QED
    BY <2>2, <2>3, <2>4, <2>5 DEF GridFetched
<1>7. \A b \in Baselines \ {"snapshot"} : b = "flora" \/ b = "terrain"
  BY FeedAssumption DEF Baselines
<1> QED
  BY <1>2, <1>3, <1>4, <1>5, <1>6, <1>7, StepKinds

\* Every change that waits for the grid is one of the history that was applied.
LEMMA DeltasKept ==
    ASSUME ViewInv, GridFetched, DeltasWait, log' = log \/ \E x : log' = Append(log, x),
           shown'["snapshot"] = shown["snapshot"], OneWorld' <=> OneWorld,
           view'.terrain = view.terrain, view'.pendingTerrainDeltas = view.pendingTerrainDeltas,
           view'.lastApplied = view.lastApplied
    PROVE  DeltasWait'
<1>1. /\ Typed /\ Len(log) \in Nat /\ DOMAIN log = 1..Len(log)
      /\ view.lastApplied \in Nat /\ view.lastApplied <= Len(log)
  BY HeldFacts DEF ViewInv, Positions
<1>2. PICK q, a, b : q = view.pendingTerrainDeltas /\ a = shown["snapshot"].at /\ b = view.lastApplied
  OBVIOUS
<1>3. \A m \in DOMAIN log : m \in DOMAIN log' /\ log'[m] = log[m]
  <2> SUFFICES ASSUME NEW m \in DOMAIN log PROVE m \in DOMAIN log' /\ log'[m] = log[m]
    OBVIOUS
  <2>1. m \in 0..Len(log)
    BY <1>1
  <2> QED
    BY <1>1, <2>1, PastSettled
<1>4. ASSUME NEW m, m \in DOMAIN log', a < m, m <= b, view.snapshotLoaded
      PROVE  m \in DOMAIN log /\ log'[m] = log[m]
  <2>1. PICK L : L = Len(log)
    OBVIOUS
  <2>2. m \in 1..L \/ m \in 1..(L + 1)
    <3>1. CASE log' = log
      BY <1>1, <1>4, <2>1, <3>1
    <3>2. ASSUME NEW x, log' = Append(log, x) PROVE m \in 1..(L + 1)
      <4>1. Longer(log, x, log')
        BY <1>1, <3>2, AppendLonger
      <4> QED
        BY <1>4, <2>1, <4>1 DEF Longer
    <3> QED
      BY <3>1, <3>2
  <2>3. m \in 1..L
    BY <1>1, <1>2, <1>4, <2>1, <2>2
  <2> QED
    BY <1>1, <1>3, <2>1, <2>3
<1>5. ASSUME NEW i \in DOMAIN q
      PROVE  /\ q[i] \in DOMAIN log' /\ log'[q[i]] = "terrain" /\ a < q[i] /\ q[i] <= b
             /\ \A j \in DOMAIN q : i < j => q[i] < q[j]
  BY <1>2, <1>3, <1>5 DEF DeltasWait
<1>6. ASSUME OneWorld', view'.terrain = NoGrid, NEW m, m \in DOMAIN log', log'[m] = "terrain", a < m, m <= b
      PROVE  \E i \in DOMAIN q : m = q[i]
  <2>1. OneWorld /\ view.snapshotLoaded /\ view.terrain = NoGrid
    BY <1>6 DEF OneWorld
  <2>2. m \in DOMAIN log /\ log[m] = "terrain"
    BY <1>4, <1>6, <2>1
  <2> QED
    BY <1>2, <1>6, <2>1, <2>2 DEF DeltasWait
<1> QED
  BY <1>2, <1>5, <1>6 DEF DeltasWait

\* A change dispatched before the grid is there joins what waits for it.
LEMMA DeltasDelivered ==
    ASSUME ViewInv, Gapless, Lossless, NoGap, DeltasWait, Deliver
    PROVE  DeltasWait'
<1>1. PICK q, Q, a, b : q = view.pendingTerrainDeltas /\ Q = view'.pendingTerrainDeltas
                        /\ a = shown["snapshot"].at /\ b = view.lastApplied
  OBVIOUS
<1>2. /\ shown' = shown /\ log' = log /\ view.snapshotLoaded
      /\ view'.terrain = NoGrid <=> view.terrain = NoGrid
  BY EntryGrid
<1>3. PICK id \in Nat :
          /\ id \in DOMAIN log /\ id > b /\ view'.lastApplied = id
          /\ Q = (IF log[id] = "terrain" /\ view.terrain = NoGrid THEN Append(q, id) ELSE q)
          /\ OneWorld' => OneWorld /\ \A m \in DOMAIN log : ~(reached < m /\ m < id)
  BY <1>1, EntryGrid
<1>4. /\ q \in Seq(Nat) /\ a \in Nat /\ b \in Nat /\ DOMAIN log \subseteq Nat
      /\ reached = (IF b >= a THEN b ELSE a)
  <2>1. q \in Seq(Nat)
    BY <1>1 DEF ViewInv, Typed, View
  <2> QED
    BY <1>1, <1>2, <2>1, ReachedFacts, HeldFacts DEF ViewInv
<1>5. id > a
  <2>1. \E n \in Nat : n > shown["snapshot"].at /\ n \in DOMAIN log /\ view' = EVENT(view, log[n], n) /\ n > view.lastApplied /\ log[n] \in Slices
    BY DeliverView DEF NoGap
  <2>2. PICK n \in Nat : n > a /\ view' = EVENT(view, log[n], n) /\ n > b /\ log[n] \in Slices
    BY <1>1, <2>1
  <2>3. view'.lastApplied = n
    BY <1>1, <1>2, <2>2, EventView DEF Gapless
  <2> QED
    BY <1>3, <2>2, <2>3
<1>6. \A i \in DOMAIN q : /\ q[i] \in DOMAIN log /\ log[q[i]] = "terrain" /\ a < q[i] /\ q[i] <= b
                          /\ \A j \in DOMAIN q : i < j => q[i] < q[j]
  BY <1>1 DEF DeltasWait
<1>7. /\ DOMAIN q \subseteq DOMAIN Q /\ \A i \in DOMAIN q : Q[i] = q[i]
      /\ \A i \in DOMAIN Q : i \in DOMAIN q \/ (Q[i] = id /\ log[id] = "terrain" /\ i = Len(q) + 1)
      /\ (log[id] = "terrain" /\ view.terrain = NoGrid) => \E i \in DOMAIN Q : id = Q[i]
  <2>1. CASE log[id] = "terrain" /\ view.terrain = NoGrid
    <3>1. Q = Append(q, id)
      BY <1>3, <2>1
    <3>2. /\ DOMAIN q = 1..Len(q) /\ Len(q) \in Nat /\ DOMAIN Q = 1..(Len(q) + 1)
          /\ \A i \in DOMAIN q : Q[i] = q[i]
          /\ Q[Len(q) + 1] = id
      BY <1>4, <3>1
    <3> QED
      BY <2>1, <3>2
  <2>2. CASE ~(log[id] = "terrain" /\ view.terrain = NoGrid)
    <3>1. Q = q
      BY <1>3, <2>2
    <3> QED
      BY <2>2, <3>1
  <2> QED
    BY <2>1, <2>2
<1>8. ASSUME NEW i \in DOMAIN Q
      PROVE  /\ Q[i] \in DOMAIN log /\ log[Q[i]] = "terrain" /\ a < Q[i] /\ Q[i] <= id
             /\ \A j \in DOMAIN Q : i < j => Q[i] < Q[j]
  <2>1. DOMAIN q = 1..Len(q) /\ Len(q) \in Nat
    BY <1>4
  <2>2. CASE i \in DOMAIN q
    <3>1. q[i] \in Nat /\ q[i] <= b /\ Q[i] = q[i]
      BY <1>4, <1>6, <1>7, <2>2
    <3>2. Q[i] < id
      BY <1>3, <1>4, <3>1
    <3>3. \A j \in DOMAIN Q : i < j => Q[i] < Q[j]
      <4> SUFFICES ASSUME NEW j \in DOMAIN Q, i < j PROVE Q[i] < Q[j]
        OBVIOUS
      <4>1. CASE j \in DOMAIN q
        BY <1>6, <1>7, <2>2, <4>1
      <4>2. CASE j \notin DOMAIN q
        BY <1>7, <3>2, <4>2
      <4> QED
        BY <4>1, <4>2
    <3> QED
      BY <1>3, <1>6, <2>2, <3>1, <3>2, <3>3
  <2>3. CASE i \notin DOMAIN q
    <3>1. Q[i] = id /\ log[id] = "terrain" /\ i = Len(q) + 1
      BY <1>7, <2>3
    <3>2. \A j \in DOMAIN Q : ~(i < j)
      <4> SUFFICES ASSUME NEW j \in DOMAIN Q, i < j PROVE FALSE
        OBVIOUS
      <4>1. j \in 1..Len(q) \/ j = Len(q) + 1
        BY <1>7, <2>1
      <4> QED
        BY <2>1, <3>1, <4>1
    <3> QED
      BY <1>3, <1>5, <3>1, <3>2
  <2> QED
    BY <2>2, <2>3
<1>9. ASSUME OneWorld', view'.terrain = NoGrid, NEW m, m \in DOMAIN log, log[m] = "terrain", a < m, m <= id
      PROVE  \E i \in DOMAIN Q : m = Q[i]
  <2>1. OneWorld /\ view.terrain = NoGrid
    BY <1>2, <1>3, <1>9
  <2>2. m \in Nat
    BY <1>4, <1>9
  <2>3. CASE m <= b
    <3>1. PICK i \in DOMAIN q : m = q[i]
      BY <1>1, <1>9, <2>1, <2>3 DEF DeltasWait
    <3> QED
      BY <1>7, <3>1
  <2>4. CASE ~(m <= b)
    <3>1. reached < m
      BY <1>4, <1>9, <2>2, <2>4
    <3>2. m = id
      BY <1>3, <1>9, <2>2, <3>1
    <3> QED
      BY <1>7, <1>9, <2>1, <3>2
  <2> QED
    BY <2>3, <2>4
<1> QED
  BY <1>1, <1>2, <1>3, <1>8, <1>9 DEF DeltasWait

\* Every step keeps the changes that wait complete and in order.
LEMMA DeltasStep ==
    ASSUME ViewInv, Retention, Gapless, Lossless, "terrain" \in Installed,
           NoGap, GridFetched, DeltasWait, [Next]_vars
    PROVE  DeltasWait'
<1>1. "terrain" \in Baselines \ {"snapshot"}
  BY DEF Baselines
<1>2. CASE Still
  <2>1. /\ OneWorld' <=> OneWorld
        /\ view'.terrain = view.terrain /\ view'.pendingTerrainDeltas = view.pendingTerrainDeltas
        /\ view'.lastApplied = view.lastApplied
    BY <1>2, StillWorld
  <2>2. shown'["snapshot"] = shown["snapshot"] /\ (log' = log \/ \E x : log' = Append(log, x))
    BY <1>2 DEF Still
  <2> QED
    BY <2>1, <2>2, DeltasKept
<1>3. CASE Deliver
  BY <1>3, DeltasDelivered
<1>4. CASE Accept("snapshot")
  <2>1. PICK q : q = view'.pendingTerrainDeltas
    OBVIOUS
  <2>2. q = <<>>
    BY <1>4, <2>1, SnapshotGrid
  <2>3. DOMAIN q = {}
    BY <2>2
  <2>4. PICK doc : doc = loads["snapshot"].doc
    OBVIOUS
  <2>5. ASSUME OneWorld', NEW m, m \in DOMAIN log', shown'["snapshot"].at < m, m <= view'.lastApplied
        PROVE  FALSE
    <3>1. /\ shown'["snapshot"] = doc /\ log' = log /\ view'.lastApplied = doc.cursor
          /\ doc.cursor <= doc.at /\ doc.cursor \in Nat /\ doc.at \in Nat
      BY <1>4, <2>4, <2>5, SnapshotView, SnapshotWorld DEF feedVars
    <3>2. m \in Nat
      BY <2>5, <3>1, HeldFacts DEF ViewInv
    <3> QED
      BY <2>5, <3>1, <3>2
  <2> QED
    BY <2>1, <2>3, <2>5 DEF DeltasWait
<1>5. ASSUME "flora" \in Baselines \ {"snapshot"}, Accept("flora") PROVE DeltasWait'
  <2>1. /\ log' = log /\ (view'.snapshotLoaded <=> view.snapshotLoaded)
        /\ view'.lastApplied = view.lastApplied /\ view'.snapshotCursor = view.snapshotCursor
        /\ shown'["snapshot"] = shown["snapshot"]
    BY <1>5, LayerQuiet
  <2>2. OneWorld' <=> OneWorld
    BY <2>1, WorldKept
  <2>3. view'.terrain = view.terrain /\ view'.pendingTerrainDeltas = view.pendingTerrainDeltas
    BY <1>5, FloraLeavesGrid
  <2> QED
    BY <2>1, <2>2, <2>3, DeltasKept
<1>6. CASE Accept("terrain")
  <2>1. PICK doc, base, q : doc = loads["terrain"].doc /\ base = LastIn(log, "terrain", doc.at)
                            /\ q = view'.pendingTerrainDeltas
    OBVIOUS
  <2>2. view'.terrain \in Nat /\ q = <<>>
    BY <1>1, <1>6, <2>1, TerrainView
  <2>3. DOMAIN q = {} /\ view'.terrain # NoGrid
    BY <2>2 DEF NoGrid
  <2> QED
    BY <2>1, <2>3 DEF DeltasWait
<1>7. \A b \in Baselines \ {"snapshot"} : b = "flora" \/ b = "terrain"
  BY FeedAssumption DEF Baselines
<1> QED
  BY <1>2, <1>3, <1>4, <1>5, <1>6, <1>7, StepKinds

\* Nothing is applied to the grid and it stays as it is.
LEMMA GridKept ==
    ASSUME ViewInv, GridFetched, GridDrawn, "terrain" \in Baselines, log' = log \/ \E x : log' = Append(log, x),
           shown'["terrain"] = shown["terrain"], reached' = reached, OneWorld' <=> OneWorld,
           view.snapshotLoaded => LastIn(log', "terrain", reached') = LastIn(log, "terrain", reached),
           view'.terrain = view.terrain, view'.snapshotCursor = view.snapshotCursor
    PROVE  GridDrawn'
<1> SUFFICES ASSUME OneWorld', view'.terrain # NoGrid,
                    OneIn(log', shown'["terrain"].at, reached'), OneIn(log', reached', shown'["terrain"].at),
                    shown'["terrain"].cursor >= view'.snapshotCursor
             PROVE  \/ view'.terrain = LastIn(log', "terrain", reached')
                    \/ view'.terrain = LastIn(log', "terrain", shown'["terrain"].at) /\ reached' < shown'["terrain"].at
  BY DEF GridDrawn
<1>1. Typed /\ OneWorld /\ view.snapshotLoaded /\ view.terrain # NoGrid /\ shown["terrain"] # NoDoc
  BY DEF ViewInv, OneWorld, GridFetched
<1>2. PICK c : c = shown["terrain"].at
  OBVIOUS
<1>3. c \in 0..Len(log) /\ c \in Nat /\ reached \in 0..Len(log) /\ reached \in Nat
  BY <1>1, <1>2, ShownFacts, ReachedFacts
<1>4. OneIn(log, c, reached) /\ OneIn(log, reached, c) /\ LastIn(log', "terrain", c) = LastIn(log, "terrain", c)
  BY <1>1, <1>2, <1>3, PastSettled
<1>5. view.terrain = LastIn(log, "terrain", reached) \/ (view.terrain = LastIn(log, "terrain", c) /\ reached < c)
  BY <1>1, <1>2, <1>4 DEF GridDrawn
<1> QED
  BY <1>1, <1>2, <1>4, <1>5

\* A change dispatched reaches the grid drawn.
LEMMA GridDelivered ==
    ASSUME ViewInv, Gapless, Lossless, "terrain" \in Baselines, NoGap, GridFetched, GridDrawn, Deliver
    PROVE  GridDrawn'
<1>1. shown' = shown /\ log' = log /\ (view'.terrain = NoGrid <=> view.terrain = NoGrid) /\ view.snapshotLoaded
  BY EntryGrid
<1>2. PICK id \in Nat :
          /\ id \in DOMAIN log /\ log[id] \in Slices /\ view'.snapshotCursor = view.snapshotCursor
          /\ view'.terrain = (IF log[id] = "terrain" /\ view.terrain # NoGrid THEN id ELSE view.terrain)
          /\ OneWorld' =>
                  /\ OneWorld /\ reached' = id /\ reached \in Nat /\ reached < id
                  /\ OneIn(log, shown["snapshot"].at, id)
                  /\ \A k : LastIn(log, k, id) = IF log[id] = k THEN id ELSE LastIn(log, k, reached)
  BY EntryGrid
<1> SUFFICES ASSUME OneWorld', view'.terrain # NoGrid,
                    OneIn(log', shown'["terrain"].at, reached'), OneIn(log', reached', shown'["terrain"].at),
                    shown'["terrain"].cursor >= view'.snapshotCursor
             PROVE  \/ view'.terrain = LastIn(log', "terrain", reached')
                    \/ view'.terrain = LastIn(log', "terrain", shown'["terrain"].at) /\ reached' < shown'["terrain"].at
  BY DEF GridDrawn
<1>3. PICK c, a, r : c = shown["terrain"].at /\ a = shown["snapshot"].at /\ r = reached
  OBVIOUS
<1>4. /\ OneWorld /\ reached' = id /\ r \in Nat /\ r < id /\ OneIn(log, a, id)
      /\ view.terrain # NoGrid /\ shown["terrain"] # NoDoc
      /\ OneIn(log, c, id) /\ OneIn(log, id, c)
      /\ LastIn(log, "terrain", id) = IF log[id] = "terrain" THEN id ELSE LastIn(log, "terrain", r)
  BY <1>1, <1>2, <1>3 DEF GridFetched
<1>5. c \in Nat /\ a \in Nat /\ r >= a /\ Len(log) \in Nat /\ DOMAIN log = 1..Len(log)
  BY <1>1, <1>3, <1>4, ShownFacts, ReachedFacts, HeldFacts DEF ViewInv
<1>6. CASE log[id] = "terrain"
  BY <1>1, <1>2, <1>4, <1>6
<1>7. CASE log[id] # "terrain"
  <2>1. view'.terrain = view.terrain /\ LastIn(log, "terrain", id) = LastIn(log, "terrain", r)
    BY <1>2, <1>4, <1>7
  <2>2. OneIn(log, c, r) /\ OneIn(log, r, c)
    <3>1. \A m \in DOMAIN log : m <= r => m <= id
      BY <1>4, <1>5
    <3>2. \A m \in DOMAIN log : r < m => a < m
      BY <1>4, <1>5
    <3>3. \A m \in DOMAIN log : m <= id \/ id < m
      BY <1>4, <1>5
    <3> QED
      BY <1>4, <3>1, <3>2, <3>3 DEF OneIn
  <2>3. view.terrain = LastIn(log, "terrain", r) \/ (view.terrain = LastIn(log, "terrain", c) /\ r < c)
    BY <1>1, <1>2, <1>3, <1>4, <2>2 DEF GridDrawn
  <2>4. CASE view.terrain = LastIn(log, "terrain", r)
    BY <1>1, <1>4, <2>1, <2>4
  <2>5. CASE view.terrain = LastIn(log, "terrain", c) /\ r < c
    <3>1. CASE id < c
      BY <1>1, <1>3, <1>4, <2>1, <2>5, <3>1
    <3>2. CASE ~(id < c)
      <4>1. PICK x, y, z : x = LastIn(log, "terrain", r) /\ y = LastIn(log, "terrain", c) /\ z = LastIn(log, "terrain", id)
        OBVIOUS
      <4>2. PICK L : L = Len(log)
        OBVIOUS
      <4>3. r <= c /\ c <= id /\ L \in Nat /\ DOMAIN log = 1..L
        BY <1>4, <1>5, <2>5, <3>2, <4>2
      <4>4. x \in Nat /\ y \in Nat /\ x <= y
        BY <1>4, <1>5, <4>1, <4>3, LastBetween
      <4>5. z \in Nat /\ y <= z
        BY <1>4, <1>5, <4>1, <4>3, LastBetween
      <4>6. y = z
        BY <2>1, <4>1, <4>4, <4>5
      <4> QED
        BY <1>1, <1>4, <2>1, <2>5, <4>1, <4>6
    <3> QED
      BY <3>1, <3>2
  <2> QED
    BY <2>3, <2>4, <2>5
<1> QED
  BY <1>6, <1>7

\* A grid taken in is drawn with all that waited, and shows the world's unless its
\* document is ahead of what was applied.
LEMMA GridTaken ==
    ASSUME ViewInv, Retention, "terrain" \in Baselines, GridFetched, DeltasWait, Accept("terrain")
    PROVE  GridDrawn'
<1>1. PICK doc, base : doc = loads["terrain"].doc /\ base = LastIn(log, "terrain", doc.at)
  OBVIOUS
<1>2. /\ log' = log /\ (view'.snapshotLoaded <=> view.snapshotLoaded)
      /\ view'.lastApplied = view.lastApplied /\ view'.snapshotCursor = view.snapshotCursor
      /\ shown'["snapshot"] = shown["snapshot"]
  <2>1. "terrain" \in Baselines \ {"snapshot"}
    OBVIOUS
  <2> QED
    BY <2>1, LayerQuiet
<1>3. reached' = reached /\ (OneWorld' <=> OneWorld)
  BY <1>2, WorldKept
<1>4. PICK q, t : q = view.pendingTerrainDeltas /\ t = view'.terrain
  OBVIOUS
<1>5. /\ doc \in Docs /\ base \in Nat /\ base <= doc.at /\ shown'["terrain"] = doc
      /\ t = replay(base, q)
  BY <1>1, <1>4, TerrainView
<1>6. view.terrain = NoGrid
  <2>1. loads["terrain"].state = "answered"
    BY DEF Accept
  <2> QED
    BY <2>1 DEF GridFetched
<1>7. /\ doc.at \in Nat /\ doc.cursor \in Nat /\ doc.cursor <= doc.at
      /\ Len(log) \in Nat /\ DOMAIN log = 1..Len(log)
  BY <1>5, DocFacts, HeldFacts DEF Retention, ViewInv
<1> SUFFICES ASSUME OneWorld, OneIn(log, doc.at, reached), OneIn(log, reached, doc.at),
                    doc.cursor >= view.snapshotCursor
             PROVE  \/ t = LastIn(log, "terrain", reached)
                    \/ t = LastIn(log, "terrain", doc.at) /\ reached < doc.at
  BY <1>2, <1>3, <1>4, <1>5 DEF GridDrawn
<1>8. PICK s, b, r, y, L : /\ s = shown["snapshot"] /\ b = view.lastApplied /\ r = reached
                           /\ y = LastIn(log, "terrain", reached) /\ L = Len(log)
  OBVIOUS
<1>9. view.snapshotLoaded /\ view.snapshotCursor # 0 /\ OneIn(log, s.at, b)
  BY <1>8 DEF OneWorld, sameWorld, OneIn
<1>10. /\ s \in Docs /\ s.at \in Nat /\ s.cursor = view.snapshotCursor
       /\ b \in Nat /\ r \in Nat /\ r = (IF b >= s.at THEN b ELSE s.at)
  BY <1>8, <1>9, ReachedFacts
<1>11. /\ y \in Nat /\ y <= r
       /\ y # 0 => y \in 1..L /\ log[y] \in {"terrain"} \cup Rebuilds
       /\ \A m \in 1..L : (m <= r /\ log[m] \in {"terrain"} \cup Rebuilds) => m <= y
  BY <1>7, <1>8, <1>10, LastFacts
<1>12. ASSUME y # 0, y > s.at PROVE \E i \in DOMAIN q : y = q[i]
  <2>1. y <= b /\ y \in DOMAIN log /\ y > s.at
    BY <1>7, <1>8, <1>10, <1>11, <1>12
  <2>2. log[y] \notin Rebuilds
    BY <1>9, <2>1 DEF OneIn
  <2>3. log[y] = "terrain"
    BY <1>11, <1>12, <2>2
  <2> QED
    BY <1>4, <1>6, <1>8, <2>1, <2>3 DEF DeltasWait
<1>13. \A i \in DOMAIN q : /\ q[i] \in DOMAIN log /\ log[q[i]] = "terrain" /\ s.at < q[i] /\ q[i] <= b
                           /\ \A j \in DOMAIN q : i < j => q[i] < q[j]
  BY <1>4, <1>8 DEF DeltasWait
<1>14. q \in Seq(Nat)
  BY <1>4 DEF ViewInv, Typed, View
<1>15. CASE q = <<>>
  <2>1. t = base /\ DOMAIN q = {}
    BY <1>5, <1>15 DEF replay
  <2>2. ~(y # 0 /\ y > s.at)
    BY <1>12, <2>1
  <2>3. CASE r < doc.at
    BY <1>1, <1>8, <2>1, <2>3
  <2>4. CASE ~(r < doc.at)
    <3>1. doc.at <= r
      BY <1>7, <1>10, <2>4
    <3>2. y <= doc.at
      <4>1. SUFFICES ASSUME y > doc.at PROVE FALSE
        BY <1>7, <1>11
      <4>2. y # 0 /\ y \in DOMAIN log /\ y <= s.at
        BY <1>7, <1>8, <1>10, <1>11, <2>2, <4>1
      <4>3. log[y] \notin Rebuilds
        BY <1>8, <1>11, <4>1, <4>2 DEF OneIn
      <4>4. s.cursor # 0 /\ s.cursor \in Nat /\ s.cursor < y
        <5>1. s.cursor \in Nat
          BY <1>10, DocFacts DEF ViewInv
        <5> QED
          BY <1>7, <1>9, <1>10, <1>11, <4>1, <5>1
      <4> QED
        BY <1>10, <4>2, <4>3, <4>4 DEF Retention
    <3>3. base = y
      <4>1. doc.at \in Nat /\ r \in Nat /\ doc.at <= r /\ L \in Nat /\ DOMAIN log = 1..L
        BY <1>7, <1>8, <1>10, <3>1
      <4>2. y = LastIn(log, "terrain", r)
        BY <1>8
      <4>3. PICK da : da = doc.at
        OBVIOUS
      <4> QED
        BY <1>1, <3>2, <4>1, <4>2, <4>3, LastBetween
    <3> QED
      BY <1>8, <2>1, <3>3
  <2> QED
    BY <2>3, <2>4
<1>16. CASE q # <<>>
  <2>1. PICK N : N = Len(q)
    OBVIOUS
  <2>2. N \in Nat \ {0} /\ DOMAIN q = 1..N /\ t = q[N] /\ N \in DOMAIN q
    BY <1>5, <1>14, <1>16, <2>1 DEF replay
  <2>3. /\ t \in DOMAIN log /\ log[t] = "terrain" /\ s.at < t /\ t <= b /\ t \in Nat
    BY <1>7, <1>13, <2>2
  <2>4. t <= y
    BY <1>7, <1>8, <1>10, <1>11, <2>3
  <2>5. y # 0 /\ y > s.at
    BY <1>10, <1>11, <2>3, <2>4
  <2>6. PICK i \in DOMAIN q : y = q[i]
    BY <1>12, <2>5
  <2>7. y <= t
    <3>1. i = N \/ i < N
      BY <2>2
    <3>2. i < N => q[i] < q[N]
      BY <1>13, <2>2
    <3> QED
      BY <1>11, <2>2, <2>3, <2>6, <3>1, <3>2
  <2> QED
    BY <1>8, <1>11, <2>3, <2>4, <2>7
<1> QED
  BY <1>15, <1>16

\* Every step keeps the grid the world's, or ahead of the entries by its own document.
LEMMA GridStep ==
    ASSUME ViewInv, Retention, Gapless, Lossless, "terrain" \in Installed,
           NoGap, GridFetched, DeltasWait, GridDrawn, [Next]_vars
    PROVE  GridDrawn'
<1>1. "terrain" \in Baselines \ {"snapshot"}
  BY DEF Baselines
<1>2. CASE Still
  <2>1. /\ reached' = reached /\ (OneWorld' <=> OneWorld)
        /\ view.snapshotLoaded => LastIn(log', "terrain", reached') = LastIn(log, "terrain", reached)
        /\ view'.terrain = view.terrain /\ view'.snapshotCursor = view.snapshotCursor
    BY <1>2, StillWorld
  <2>2. shown'["terrain"] = shown["terrain"] /\ (log' = log \/ \E x : log' = Append(log, x))
    BY <1>2 DEF Still
  <2> QED
    BY <1>1, <2>1, <2>2, GridKept
<1>3. CASE Deliver
  BY <1>1, <1>3, GridDelivered
<1>4. CASE Accept("snapshot")
  BY <1>4, SnapshotGrid DEF GridDrawn
<1>5. ASSUME "flora" \in Baselines \ {"snapshot"}, Accept("flora") PROVE GridDrawn'
  <2>1. /\ log' = log /\ (view'.snapshotLoaded <=> view.snapshotLoaded)
        /\ view'.lastApplied = view.lastApplied /\ view'.snapshotCursor = view.snapshotCursor
        /\ shown'["snapshot"] = shown["snapshot"]
    BY <1>5, LayerQuiet
  <2>2. /\ reached' = reached /\ (OneWorld' <=> OneWorld)
        /\ view.snapshotLoaded => LastIn(log', "terrain", reached') = LastIn(log, "terrain", reached)
    BY <2>1, WorldKept
  <2>3. view'.terrain = view.terrain
    BY <1>5, FloraLeavesGrid
  <2>4. shown'["terrain"] = shown["terrain"]
    BY <1>5 DEF Accept
  <2> QED
    BY <1>1, <2>1, <2>2, <2>3, <2>4, GridKept
<1>6. CASE Accept("terrain")
  BY <1>1, <1>6, GridTaken
<1>7. \A b \in Baselines \ {"snapshot"} : b = "flora" \/ b = "terrain"
  BY FeedAssumption DEF Baselines
<1> QED
  BY <1>2, <1>3, <1>4, <1>5, <1>6, <1>7, StepKinds

\* Every step keeps all that concerns the grid.
LEMMA TerrainStep ==
    ASSUME ViewInv, Retention, Gapless, Lossless, "terrain" \in Installed, ~Trims, TerrainDrawn,
           ~reused', [Next]_vars
    PROVE  TerrainDrawn'
<1>1. NoGap /\ GridFetched /\ DeltasWait /\ GridDrawn
  BY DEF TerrainDrawn
<1>2. NoGap'
  BY <1>1, NoGapStep
<1>3. GridFetched'
  BY <1>1, FetchedStep
<1>4. DeltasWait'
  BY <1>1, DeltasStep
<1>5. GridDrawn'
  BY <1>1, GridStep
<1> QED
  BY <1>2, <1>3, <1>4, <1>5 DEF TerrainDrawn

----------------------------------------------------------------------------
(* The view follows the world.                                             *)

\* What is held is consistent, nothing is missed, and the layers follow.
FollowInv ==
    /\ ViewInv /\ FlowInv /\ AgentsDrawn
    /\ "flora" \in Installed => FloraDrawn

\* One entry is in the stream, and nothing is connected, waiting or drawn.
LEMMA FlowInit == Init => FlowInv
<1> SUFFICES ASSUME Init PROVE FlowInv
  OBVIOUS
<1>1. /\ log = <<"agents">> /\ retained = {1} /\ maxDeleted = 0 /\ lastID = 1
      /\ live = [b \in Baselines |-> NoDoc] /\ shown = [b \in Baselines |-> NoDoc]
      /\ view = initial /\ pos = Closed /\ tail = FALSE /\ wire = <<>>
      /\ loads = [b \in Baselines |-> IF b = "snapshot" THEN ask(0, 0) ELSE Idle]
  BY DEF Init, FeedInit
<1>2. Docs = {}
  <2>1. \A b \in Baselines : live[b] = NoDoc /\ shown[b] = NoDoc /\ loads[b].doc = NoDoc
    BY <1>1 DEF ask, Idle
  <2> QED
    BY <2>1 DEF Docs
<1>3. Len(log) = 1 /\ DOMAIN log = {1}
  BY <1>1
<1>4. Retention
  BY <1>1, <1>2, <1>3 DEF Retention
<1>5. ~view.snapshotLoaded /\ ~view.paused /\ view.pendingFloraOps = <<>>
  BY <1>1 DEF initial
<1>6. Gapless
  <2>1. pos <= Len(log)
    BY <1>1, <1>3 DEF Closed
  <2> QED
    BY <1>1, <1>5, <2>1 DEF Gapless
<1>7. Queued
  <2>1. PICK e : e = view.pendingFloraOps
    OBVIOUS
  <2>2. DOMAIN e = {}
    BY <1>5, <2>1
  <2>3. Queue = {}
    BY <2>1, <2>2 DEF Queue
  <2> QED
    BY <2>1, <2>2, <2>3 DEF Queued
<1> QED
  BY <1>4, <1>6, <1>7 DEF FlowInv

\* Nothing is drawn to begin with.
LEMMA FollowInit == Init => FollowInv
<1> SUFFICES ASSUME Init PROVE FollowInv
  OBVIOUS
<1>1. ~view.snapshotLoaded /\ ~view.floraLoaded
  BY DEF Init, initial
<1>2. AgentsDrawn /\ FloraDrawn
  BY <1>1 DEF AgentsDrawn, FloraDrawn, OneWorld
<1> QED
  BY <1>2, ViewInit, FlowInit DEF FollowInv

\* Every step keeps the roster and the plants following.
LEMMA FollowStep ==
    ASSUME Lossless, FollowInv, ~reused', [Next]_vars
    PROVE  FollowInv'
<1>1. ViewInv /\ Retention /\ Gapless /\ Queued /\ AgentsDrawn /\ ("flora" \in Installed => FloraDrawn)
  BY DEF FollowInv, FlowInv
<1>2. ViewInv'
  BY <1>1, ViewStep
<1>3. Retention'
  BY <1>1, RetentionStep
<1>4. Gapless'
  BY <1>1, GaplessStep
<1>5. Queued'
  BY <1>1, QueuedStep
<1>6. AgentsDrawn'
  BY <1>1, AgentsStep
<1>7. ("flora" \in Installed => FloraDrawn)'
  BY <1>1, FloraStep
<1> QED
  BY <1>2, <1>3, <1>4, <1>5, <1>6, <1>7 DEF FollowInv, FlowInv

\* With no append lost, no pause and no trim that overtakes a connection, roster and
\* plants drawn are the world's as of the last applied entry, across late joins, gaps,
\* reconnections, regens, restarts and reboots, whatever is trimmed, as long as no
\* revision is claimed twice.
THEOREM RosterAndPlantsFollow ==
    ASSUME Lossless
    PROVE  Spec => [](~reused => AgentsFollow /\ FloraFollows)
<1>1. FollowInv => AgentsFollow /\ FloraFollows
  <2> SUFFICES ASSUME FollowInv PROVE AgentsFollow /\ FloraFollows
    OBVIOUS
  <2>1. AgentsFollow
    BY AtIs DEF FollowInv, AgentsDrawn, AgentsFollow
  <2>2. FloraFollows
    <3> SUFFICES ASSUME OneWorld, "flora" \in Installed, view.floraLoaded,
                        sameWorld(shown["flora"].at, reached),
                        shown["flora"].cursor >= view.snapshotCursor
                 PROVE  view.flora >= At("flora", reached)
      BY DEF FloraFollows
    <3>1. OneIn(log, shown["flora"].at, reached)
      BY DEF sameWorld, OneIn
    <3> QED
      BY <3>1, AtIs DEF FollowInv, FloraDrawn
  <2> QED
    BY <2>1, <2>2
<1>2. (~reused => FollowInv) /\ [Next]_vars => (~reused' => FollowInv')
  BY FollowStep, ReusedForGood
<1> QED
  BY <1>1, <1>2, FollowInit, PTL DEF Spec

\* All layers together: under the same conditions, and without trimming where there is
\* a grid (a gap does not bring it up to date), the view follows the world.
THEOREM ViewFollowsHolds ==
    ASSUME Lossless, "terrain" \in Installed => ~Trims
    PROVE  Spec => [](~reused => ViewFollows)
<1> DEFINE Inv == FollowInv /\ ("terrain" \in Installed => TerrainDrawn)
<1>1. Init => Inv
  <2> SUFFICES ASSUME Init PROVE "terrain" \in Installed => TerrainDrawn
    BY FollowInit
  <2>1. /\ maxDeleted = 0 /\ wire = <<>> /\ ~view.reacquire /\ ~view.snapshotLoaded
        /\ view.terrain = NoGrid /\ view.pendingTerrainDeltas = <<>>
        /\ loads = [b \in Baselines |-> IF b = "snapshot" THEN ask(0, 0) ELSE Idle]
    BY DEF Init, FeedInit, initial
  <2>2. "terrain" \in Installed => loads["terrain"].state = "idle"
    BY <2>1 DEF Baselines, Idle
  <2>3. \A i \in DOMAIN view.pendingTerrainDeltas : FALSE
    <3>1. PICK e : e = view.pendingTerrainDeltas
      OBVIOUS
    <3>2. DOMAIN e = {}
      BY <2>1, <3>1
    <3> QED
      BY <3>1, <3>2
  <2>4. wire # <<GapFrame>>
    BY <2>1
  <2> QED
    BY <2>1, <2>2, <2>3, <2>4 DEF TerrainDrawn, NoGap, GridFetched, DeltasWait, GridDrawn, OneWorld
<1>2. (~reused => Inv) /\ [Next]_vars => (~reused' => Inv')
  <2> SUFFICES ASSUME Inv, ~reused', [Next]_vars PROVE Inv'
    BY ReusedForGood
  <2>1. FollowInv'
    BY FollowStep
  <2>2. ("terrain" \in Installed => TerrainDrawn)'
    BY TerrainStep DEF FollowInv, FlowInv
  <2> QED
    BY <2>1, <2>2
<1>3. Inv => TerrainFollows
  <2> SUFFICES ASSUME Inv, OneWorld, "terrain" \in Installed, view.terrain # NoGrid,
                      sameWorld(shown["terrain"].at, reached), sameWorld(reached, shown["terrain"].at),
                      shown["terrain"].cursor >= view.snapshotCursor,
                      view.lastApplied >= shown["terrain"].cursor
               PROVE  view.terrain = At("terrain", reached)
    BY DEF TerrainFollows
  <2>1. PICK d, r : d = shown["terrain"] /\ r = reached
    OBVIOUS
  <2>2. /\ ViewInv /\ Retention /\ GridDrawn /\ d # NoDoc /\ "terrain" \in Baselines
        /\ view.snapshotLoaded /\ view.snapshotCursor # 0
    BY <2>1 DEF FollowInv, FlowInv, TerrainDrawn, GridFetched, Baselines, OneWorld
  <2>3. /\ d \in Docs /\ d.at \in Nat /\ d.cursor \in Nat /\ d.at <= Len(log)
        /\ r \in Nat /\ r >= view.lastApplied /\ view.lastApplied \in Nat /\ view.snapshotCursor \in Nat
        /\ Len(log) \in Nat /\ DOMAIN log = 1..Len(log)
    BY <2>1, <2>2, ShownFacts, ReachedFacts, DocFacts, HeldFacts DEF ViewInv
  <2>4. OneIn(log, d.at, r) /\ OneIn(log, r, d.at)
    BY <2>1 DEF sameWorld, OneIn
  <2>5. view.terrain = LastIn(log, "terrain", r) \/ r < d.at
    BY <2>1, <2>2, <2>4 DEF GridDrawn
  <2>6. ~(r < d.at)
    <3>1. SUFFICES ASSUME r < d.at PROVE FALSE
      OBVIOUS
    <3>2. d.at \in DOMAIN log /\ d.cursor # 0 /\ d.cursor < d.at
      BY <2>1, <2>2, <2>3, <3>1
    <3>3. log[d.at] \in Rebuilds
      BY <2>2, <2>3, <3>2 DEF Retention
    <3> QED
      BY <2>3, <2>4, <3>1, <3>2, <3>3 DEF OneIn
  <2> QED
    BY <2>1, <2>5, <2>6, AtIs
<1>4. Spec => [](~reused => TerrainFollows)
  <2> HIDE DEF Inv
  <2> QED
    BY <1>1, <1>2, <1>3, PTL DEF Spec
<1>5. Spec => [](~reused => AgentsFollow /\ FloraFollows)
  BY RosterAndPlantsFollow
<1>6. AgentsFollow /\ FloraFollows /\ TerrainFollows => ViewFollows
  BY DEF ViewFollows
<1> QED
  BY <1>4, <1>5, <1>6, PTL

=============================================================================
