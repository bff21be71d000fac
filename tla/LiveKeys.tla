------------------------------ MODULE LiveKeys ------------------------------
(***************************************************************************)
(* The live keys of one run (platform/persist), written twice: by            *)
(* RedisLiveStore, one or two client calls each of which may fail, and by     *)
(* FakeRedis, the in-memory store every test of the driver and of the API is  *)
(* run on; and the routes of platform/api that read them.  What the tests     *)
(* show of the program is worth as much as the two agree.                     *)
(*                                                                         *)
(* Abstractions.  A hash and a string are functions from fields to values, a  *)
(* string having the one field "blob"; a key that is absent is the empty one.  *)
(* The availability flags of terrain and flora change with the revision they   *)
(* are published with.  A key with a time to live may lapse at any time.       *)
(***************************************************************************)
EXTENDS Naturals, FiniteSets, TLC

CONSTANTS
  Beings,    \* agents and animals: their hashes are written alike
  Blobs,     \* contents
  Ticks, Revisions

VARIABLES
  ttl,       \* whether NewRedisLiveStore was given a time to live (the driver gives 0)
  live,      \* what Redis holds: key -> [fields, bound]
  stub,      \* what FakeRedis holds: key -> fields
  published, \* history: the revision last published since the run last expired, 0 for none
  gone,      \* history: Expire was called and nothing written since
  adrift     \* history: the beings whose last write failed after its HSET

liveVars == <<ttl, live, stub, published, gone, adrift>>

Strings == {"snapshot", "flora", "terrain", "tick"}
Keys == Strings \cup {"meta", "climate"} \cup Beings
NoFields == [f \in {} |-> f]
Blob(v) == [blob |-> v]

(* The client: go-redis behind redisWriteAdapter, fakeGoRedisClient in the store's own tests. *)

SetKey(r, k, v, bound) == [r EXCEPT ![k] = [fields |-> Blob(v), bound |-> bound]]
HSet(r, k, f) == [r EXCEPT ![k].fields = f @@ @]
Del(r, ks) == [k \in Keys |-> IF k \in ks THEN [fields |-> NoFields, bound |-> FALSE] ELSE r[k]]
Bound(r, k) == [r EXCEPT ![k].bound = TRUE]
\* A missing key reads as the empty string and no error.
Get(r, k) == r[k].fields

Meta(t, status) == [tick |-> t, status |-> status]
Marker(rev) == [world_revision |-> rev]

-----------------------------------------------------------------------------
(* FakeRedis                                                               *)

FakeWriteTick(t) == stub' = [stub EXCEPT !["tick"] = Blob(t), !["meta"] = [tick |-> t] @@ @]
FakeWriteBlob(k, v) == stub' = [stub EXCEPT ![k] = Blob(v)]
FakeWriteBeing(b, v) == stub' = [stub EXCEPT ![b] = Blob(v)]
FakeWriteClimate(f) == stub' = [stub EXCEPT !["climate"] = f]
FakeInitMeta(t, status) == stub' = [stub EXCEPT !["meta"] = Meta(t, status) @@ @]
FakePublishWorldRevision(rev) == stub' = [stub EXCEPT !["meta"] = Marker(rev) @@ @]
FakeExpire == stub' = [k \in Keys |-> NoFields]

-----------------------------------------------------------------------------
(* The operations of LiveStore, each done to both stores.                     *)

\* WriteTick: the interface promises meta's tick as well, and only the fake writes it.
WriteTick(t) ==
  /\ live' = SetKey(live, "tick", t, FALSE) /\ FakeWriteTick(t)
  /\ gone' = FALSE /\ UNCHANGED <<ttl, published, adrift>>

WriteBlob(k, v) ==
  /\ live' = SetKey(live, k, v, ttl) /\ FakeWriteBlob(k, v)
  /\ gone' = FALSE /\ UNCHANGED <<ttl, published, adrift>>
WriteSnapshot(v) == WriteBlob("snapshot", v)
WriteFlora(v) == WriteBlob("flora", v)
WriteTerrain(v) == WriteBlob("terrain", v)

\* WriteAgent, WriteAnimal: an HSET, then with a time to live an EXPIRE that may fail alone.
WriteBeing(b, v) ==
  /\ \E fails \in (IF ttl THEN BOOLEAN ELSE {FALSE}) :
       LET r == HSet(live, b, Blob(v)) IN
       /\ live' = IF ttl /\ ~fails THEN Bound(r, b) ELSE r
       /\ adrift' = IF fails /\ ~live[b].bound THEN adrift \cup {b} ELSE adrift \ {b}
  /\ FakeWriteBeing(b, v)
  /\ gone' = FALSE /\ UNCHANGED <<ttl, published>>

\* WriteClimate: the apparent temperature is there only while animals live; HSET does not take
\* away what it is not given, the fake replaces the whole.
WriteClimate(f) ==
  /\ live' = HSet(live, "climate", f) /\ FakeWriteClimate(f)
  /\ gone' = FALSE /\ UNCHANGED <<ttl, published, adrift>>

\* A plausible bug: the meta hash is replaced rather than updated.
InitMeta_Replaces(t, status) ==
  /\ live' = [live EXCEPT !["meta"].fields = Meta(t, status)] /\ FakeInitMeta(t, status)
  /\ gone' = FALSE /\ UNCHANGED <<ttl, published, adrift>>
InitMeta(t, status) ==
  /\ live' = HSet(live, "meta", Meta(t, status)) /\ FakeInitMeta(t, status)
  /\ gone' = FALSE /\ UNCHANGED <<ttl, published, adrift>>

PublishWorldRevision(rev) ==
  /\ live' = HSet(live, "meta", Marker(rev)) /\ FakePublishWorldRevision(rev)
  /\ published' = rev
  /\ gone' = FALSE /\ UNCHANGED <<ttl, adrift>>

\* A plausible bug: a key added later is not listed.
Listed_Older == Keys \ (Beings \cup {"climate"})
\* Expire: the real store knows the fixed keys, the fake sweeps by prefix too.
Listed == Keys \ Beings
Expire ==
  /\ live' = Del(live, Listed) /\ FakeExpire
  /\ published' = 0 /\ gone' = TRUE
  /\ UNCHANGED <<ttl, adrift>>

\* Redis drops a key whose time is over.
Lapse(k) ==
  /\ live[k].bound
  /\ live' = Del(live, {k})
  /\ UNCHANGED <<ttl, stub, published, gone, adrift>>

-----------------------------------------------------------------------------
(* The routes: what a GET answers, through Redis and through the fake.        *)

Missing == [error |-> "missing"]
ReadSnapshot == Get(live, "snapshot")
FakeReadSnapshot == IF stub["snapshot"] = NoFields THEN Missing ELSE stub["snapshot"]

NotFound == [code |-> 404, body |-> NoFields]
Found(f) == [code |-> 200, body |-> f]
HandleSnapshot(blob) == IF blob = Missing THEN NotFound ELSE Found(blob)
\* handleTerrain and handleFlora.
HandleBaseline(f) == IF f = NoFields THEN NotFound ELSE Found(f)
HandleMeta(f) == IF f = NoFields THEN NotFound ELSE Found(f)
HandleAgent(f) == IF f = NoFields THEN NotFound ELSE Found(f)

-----------------------------------------------------------------------------
LiveKeysInit ==
  /\ ttl \in BOOLEAN
  /\ live = [k \in Keys |-> [fields |-> NoFields, bound |-> FALSE]]
  /\ stub = [k \in Keys |-> NoFields]
  /\ published = 0 /\ gone = FALSE /\ adrift = {}

LiveKeysNext ==
  \/ \E t \in Ticks : WriteTick(t)
  \/ \E v \in Blobs : WriteSnapshot(v) \/ WriteFlora(v) \/ WriteTerrain(v)
  \/ \E b \in Beings, v \in Blobs : WriteBeing(b, v)
  \/ WriteClimate([wind |-> 1]) \/ WriteClimate([wind |-> 1, apparent |-> 1])
  \/ \E t \in Ticks, s \in {"running", "completed"} : InitMeta(t, s)
  \/ \E r \in Revisions : r >= published /\ PublishWorldRevision(r)
  \/ Expire
  \/ \E k \in Keys : Lapse(k)

-----------------------------------------------------------------------------
(* Properties                                                              *)

Except(f, drop) == [x \in DOMAIN f \ drop |-> f[x]]

\* As the driver configures it, a browser is told the same by Redis as by the fake the tests
\* run on, with exactly these exceptions: a snapshot that is not there is an empty 200 and not
\* a 404; meta's tick; and the agents of an expired run, whom only the fake forgets
\* (redis.go against redis_fake.go, routes.go).
StubMirrors ==
  ~ttl =>
    /\ \A k \in {"flora", "terrain"} : HandleBaseline(Get(live, k)) = HandleBaseline(stub[k])
    /\ HandleSnapshot(ReadSnapshot).body = HandleSnapshot(FakeReadSnapshot).body
    /\ Except(HandleMeta(Get(live, "meta")).body, {"tick"})
         = Except(HandleMeta(stub["meta"]).body, {"tick"})
    /\ \A b \in Beings :
         HandleAgent(stub[b]).code = 200 => HandleAgent(Get(live, b)) = HandleAgent(stub[b])

\* The marker a client polls is the revision last published: no refresh of the meta hash, by
\* either store, takes it back or makes one up (InitMeta, PublishWorldRevision).
MarkerStands ==
  /\ published # 0 <=> "world_revision" \in DOMAIN live["meta"].fields
  /\ published # 0 => live["meta"].fields["world_revision"] = published
  /\ published # 0 => stub["meta"]["world_revision"] = published

\* With a time to live an expired run clears itself away: what Expire cannot name is due to
\* lapse, but for a hash whose EXPIRE call failed and was not written again.
NothingLingers ==
  ttl /\ gone => \A k \in Keys : live[k].fields = NoFields \/ live[k].bound \/ k \in adrift
=============================================================================
