------------------------------ MODULE GodView ------------------------------
(***************************************************************************)
(* What the god view tells of the agents' minds (platform/api/godview_*.go,   *)
(* routes.go, world.State): the world projects who believes what of whom into  *)
(* the snapshot, and each route works its answer out of the snapshot that is    *)
(* stored when it is asked.  A reputation is never stored: it is a distribution *)
(* over observers, and a faction is no more than those who rely most on one     *)
(* role holder.                                                              *)
(*                                                                         *)
(* Abstractions.  A mean is given as [sum, n] and a variance as the numerator    *)
(* over n squared.  JSON decoding, the shapes older snapshots had, and the       *)
(* variance of a belief are left out.  An answer is the set of what a handler     *)
(* may write, for it goes through the roles in the order of a Go map.            *)
(***************************************************************************)
EXTENDS Integers, FiniteSets, FiniteSetsExt, SequencesExt

CONSTANTS
  Agents, Stats, Functions,
  Means, Shares,          \* what an estimate may be, and a reliance (above zero)
  Settled,                \* the roles that may have emerged at the start
  MaxChanges              \* bound: the changes of mind in a behaviour

VARIABLES
  godMode,   \* Config.GodMode
  real,      \* Agent.RealStats
  beliefs,   \* ToM: observer -> subject -> [est, rely], partial functions
  roles,     \* World.emergedRoles, a partial function
  stored,    \* the snapshot in the live store, None or what Captured gave
  changes    \* history: how many changes so far

godVars == <<godMode, real, beliefs, roles, stored, changes>>

None == [none |-> TRUE]
NoBelief == [est |-> <<>>, rely |-> <<>>]
Blank == [none |-> FALSE]

-----------------------------------------------------------------------------
(* The snapshot: affinity and trust are not projected.                        *)

TomDigest == [o \in {a \in Agents : beliefs[a] # <<>>} |-> beliefs[o]]
Captured ==
  [none |-> FALSE, real |-> real, roles |-> roles, digest |-> TomDigest,
   self |-> [a \in Agents |-> IF a \in DOMAIN beliefs[a] THEN beliefs[a][a].est ELSE <<>>]]

-----------------------------------------------------------------------------
(* The routes                                                              *)

Forbidden == [code |-> 403]
NotFound == [code |-> 404]
Partial == [code |-> 206]
Ok(b) == [code |-> 200, body |-> b]

\* A plausible bug: either key opens the gate.
GodViewGate_Either(asked) == godMode \/ asked
GodViewGate(asked) == godMode /\ asked
FindAgentInWorld(id) == id \in DOMAIN stored.real
\* extractTomDigest: an empty digest is not written, and one that is not there answers 206.
HasDigest == stored.digest # <<>>
\* What every handler does before it computes: the gate, the snapshot, the agent, the digest.
Guarded(asked, id, Bodies) ==
  IF ~GodViewGate(asked) THEN {Forbidden}
  ELSE IF stored = None \/ ~FindAgentInWorld(id) THEN {NotFound}
  ELSE IF ~HasDigest THEN {Partial}
  ELSE {Ok(b) : b \in Bodies}

Sum(f, S) == MapThenSumSet(LAMBDA x : f[x], S)
\* A plausible bug: the subject is asked about itself.
Raters_Self(d, s, st) == {o \in DOMAIN d : s \in DOMAIN d[o] /\ st \in DOMAIN d[o][s].est}
\* The observers whose opinion of s on a stat is on record.
Raters(d, s, st) == {o \in DOMAIN d \ {s} : s \in DOMAIN d[o] /\ st \in DOMAIN d[o][s].est}
Opinion(d, s, st) == [o \in Raters(d, s, st) |-> d[o][s].est[st]]
OthersEstimateMean(d, s, st) ==
  [sum |-> Sum(Opinion(d, s, st), Raters(d, s, st)), n |-> Cardinality(Raters(d, s, st))]

HandleGodDivergence(asked, id) ==
  Guarded(asked, id,
    LET sn == stored IN
    { [st \in DOMAIN sn.real[id] \cup DOMAIN sn.self[id] |->
         [real |-> IF st \in DOMAIN sn.real[id] THEN sn.real[id][st] ELSE 0,
          self |-> IF st \in DOMAIN sn.self[id] THEN sn.self[id][st] ELSE 0,
          others |-> OthersEstimateMean(sn.digest, id, st)]] })

\* buildObserverClusters: the holder relied on most; the first of equals met in the map.
Reliance(d, o, f, h) ==
  IF h \in DOMAIN d[o] /\ f \in DOMAIN d[o][h].rely THEN d[o][h].rely[f] ELSE 0
Holders(d, rs, o) ==
  LET best == Max({0} \cup {Reliance(d, o, f, rs[f]) : f \in DOMAIN rs})
  IN IF best = 0 THEN {"unknown"} ELSE {rs[f] : f \in {g \in DOMAIN rs : Reliance(d, o, g, rs[g]) = best}}
BuildObserverClusters(d, rs) ==
  {c \in [DOMAIN d -> Agents \cup {"unknown"}] : \A o \in DOMAIN d : c[o] \in Holders(d, rs, o)}

StatReputation(d, c, s, st) ==
  LET raters == Raters(d, s, st)
      said == Opinion(d, s, st)
      n == Cardinality(raters)
      total == Sum(said, raters)
      squares == MapThenSumSet(LAMBDA o : said[o] * said[o], raters)
      \* its members are all of the cluster, its mean is of those who have an opinion
      Faction(label) ==
        LET heard == {o \in raters : c[o] = label}
        IN [id |-> label, agents |-> {o \in DOMAIN d : c[o] = label},
            sum |-> Sum(said, heard), n |-> Cardinality(heard)]
  IN [sum |-> total, n |-> n, variance |-> n * squares - total * total,
      factions |-> {Faction(c[o]) : o \in raters}]

HandleGodReputation(asked, id) ==
  Guarded(asked, id,
    LET d == stored.digest
        rated == {st \in Stats : Raters(d, id, st) # {}}
    IN {[st \in rated |-> StatReputation(d, c, id, st)] : c \in BuildObserverClusters(d, stored.roles)})

\* handleGodRelations: an edge for every reliance; affinity and trust read as zero, for they
\* are not in the digest.
Edges(d) ==
  { [from |-> e[1], to |-> e[2], affinity |-> 0, rely |-> d[e[1]][e[2]].rely] :
      e \in {x \in Agents \X Agents : x[1] # x[2] /\ x[1] \in DOMAIN d /\ x[2] \in DOMAIN d[x[1]]
                                      /\ d[x[1]][x[2]].rely # <<>>} }
HandleGodRelations(asked) == Guarded(asked, CHOOSE a \in Agents : TRUE, {Edges(stored.digest)})

\* handleAgent: the real stats are merged in when both ask for them and the snapshot has them.
HandleAgent(asked, id) ==
  IF godMode /\ asked /\ stored # None /\ id \in DOMAIN stored.real
  THEN {Ok([real_stats |-> stored.real[id]])} ELSE {Ok(Blank)}

-----------------------------------------------------------------------------
(* Minds change, and the driver's flush stores what they are.                 *)

Put(f, k, v) == [x \in DOMAIN f \cup {k} |-> IF x = k THEN v ELSE f[x]]
Of(o, s) == IF s \in DOMAIN beliefs[o] THEN beliefs[o][s] ELSE NoBelief
Change(o, s, b) ==
  /\ changes < MaxChanges /\ changes' = changes + 1
  /\ beliefs' = [beliefs EXCEPT ![o] = Put(@, s, b)]
  /\ UNCHANGED <<godMode, real, roles, stored>>

Estimate(o, s, st, m) == Change(o, s, [Of(o, s) EXCEPT !.est = Put(@, st, m)])
Rely(o, s, f, share) == o # s /\ Change(o, s, [Of(o, s) EXCEPT !.rely = Put(@, f, share)])
Emerge(f, h) ==
  /\ changes < MaxChanges /\ changes' = changes + 1
  /\ roles' = Put(roles, f, h)
  /\ UNCHANGED <<godMode, real, beliefs, stored>>

FlushSnapshot ==
  /\ stored' = Captured
  /\ UNCHANGED <<godMode, real, beliefs, roles, changes>>

GodViewInit ==
  /\ godMode \in BOOLEAN
  /\ real = [a \in Agents |-> [st \in Stats |-> 0]]
  /\ beliefs = [a \in Agents |-> <<>>] /\ roles \in Settled
  /\ stored = None /\ changes = 0

GodViewNext ==
  \/ \E o, s \in Agents, st \in Stats, m \in Means : Estimate(o, s, st, m)
  \/ \E o, s \in Agents, f \in Functions, x \in Shares : Rely(o, s, f, x)
  \/ \E f \in Functions, h \in Agents : Emerge(f, h)
  \/ FlushSnapshot

-----------------------------------------------------------------------------
(* Properties                                                              *)

Bodies(answers) == {a.body : a \in {b \in answers : b.code = 200}}

\* A reputation is the spread of what others think and nothing else: every opinion is in one
\* faction and counted once, the subject's own in none, and it is uncontested (variance zero)
\* exactly when all agree (handleGodReputation, D6).
ReputationIsSpread ==
  stored # None =>
    \A id \in Agents : \A body \in Bodies(HandleGodReputation(TRUE, id)) : \A st \in DOMAIN body :
      LET r == body[st]
          heard == {o \in Agents \ {id} : o \in DOMAIN stored.digest /\ id \in DOMAIN stored.digest[o]
                                          /\ st \in DOMAIN stored.digest[o][id].est}
          said == {stored.digest[o][id].est[st] : o \in heard}
      IN /\ r.n = Cardinality(heard)
         /\ MapThenSumSet(LAMBDA f : f.n, r.factions) = r.n
         /\ MapThenSumSet(LAMBDA f : f.sum, r.factions) = r.sum
         /\ \A f, g \in r.factions : f # g => f.agents \cap g.agents = {}
         /\ (r.variance = 0) = (Cardinality(said) = 1)

\* Real, believed of oneself and believed by others are three channels that never mix (D8):
\* what others think is no part of self, and self is no part of what others think.
ChannelsApart ==
  stored # None =>
    \A id \in Agents : \A body \in Bodies(HandleGodDivergence(TRUE, id)) : \A st \in DOMAIN body :
      LET others == {o \in DOMAIN stored.digest \ {id} :
                       id \in DOMAIN stored.digest[o] /\ st \in DOMAIN stored.digest[o][id].est}
      IN /\ body[st].real = stored.real[id][st]
         /\ body[st].self # 0 => id \in DOMAIN stored.digest /\ st \in DOMAIN stored.digest[id][id].est
         /\ body[st].others.n = Cardinality(others)

\* Nothing of the hidden world is shown unless the server was started so and the request asks
\* for it (godViewGate, handleAgent).
GateHolds ==
  \A asked \in BOOLEAN : ~(godMode /\ asked) =>
    \A id \in Agents :
      /\ Bodies(HandleAgent(asked, id)) = {Blank}
      /\ HandleGodDivergence(asked, id) \cup HandleGodReputation(asked, id)
           \cup HandleGodRelations(asked) = {Forbidden}

\* The two views of reliance agree: who is in a holder's faction has an edge to that holder
\* (buildObserverClusters, handleGodRelations).
FactionsFollowEdges ==
  stored # None =>
    \A c \in BuildObserverClusters(stored.digest, stored.roles) : \A o \in DOMAIN c :
      c[o] # "unknown" /\ c[o] # o =>
        \E e \in Edges(stored.digest) : e.from = o /\ e.to = c[o]
=============================================================================
