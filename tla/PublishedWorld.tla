---------------------------- MODULE PublishedWorld ----------------------------
(***************************************************************************)
(* What the run driver promises the readers of the Redis live keys, with   *)
(* everything else forgotten: the revision published in meta, and for each *)
(* gating baseline (snapshot, flora, terrain) the stored document's        *)
(* revision tag and the world it shows.                                    *)
(*                                                                         *)
(* A boot that cannot read the published revision takes it for none.  From *)
(* then until the next publication the tags may be older than what readers *)
(* were told; that publication may go back, and makes the promise good.    *)
(***************************************************************************)
EXTENDS Integers

CONSTANTS Baselines,   \* the keys a bootstrap client needs
          Missing      \* a key that holds nothing

VARIABLES published,   \* meta.world_revision
          base,        \* baseline key -> [rev, world]
          misled       \* a boot mistook the published revision for none since

vars == <<published, base, misled>>

Init == published = 0 /\ base = [k \in Baselines |-> Missing] /\ misled = FALSE

\* There is something published, and a boot fails to read it.
Mislead ==
    /\ published > 0
    /\ misled' = TRUE
    /\ UNCHANGED <<published, base>>

\* One baseline write: tagged no older than what readers were told.
Store(k, doc) ==
    /\ doc.rev >= published \/ misled
    /\ base' = [base EXCEPT ![k] = doc]
    /\ UNCHANGED <<published, misled>>

\* The cleanup of a regen.
Withdraw ==
    /\ base' = [k \in Baselines |-> Missing]
    /\ UNCHANGED <<published, misled>>

\* Publication: forward, but for a misled boot's, and every baseline already shows
\* one world under it.
Publish(r, w) ==
    /\ r > published \/ misled
    /\ \A k \in Baselines : base[k] = [rev |-> r, world |-> w]
    /\ published' = r /\ misled' = FALSE
    /\ UNCHANGED base

Next == \/ Mislead
        \/ \E k \in Baselines : Store(k, base'[k])
        \/ Withdraw
        \/ \E k \in Baselines : Publish(published', base[k].world)

Spec == Init /\ [][Next]_vars

===============================================================================
