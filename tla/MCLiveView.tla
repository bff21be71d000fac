----------------------------- MODULE MCLiveView -----------------------------
(* Small instances of LiveView. *)
EXTENDS LiveView

AllKinds == {"agents", "flora", "terrain"}
AgentsAndFlora == {"agents", "flora"}
FloraOn == {"flora"}
AllOn == {"flora", "terrain"}
NoRebuild == {}
OnlyRestart == {"restart"}
NewRevisions == {"regen", "reboot"}
AnyRebuild == {"regen", "restart", "reboot"}

\* What a run that asks nothing of `reused` tells apart: no action reads `reused`,
\* and with the history at its bound no rebuild follows, so that `published` only
\* decides whether a flush ends with a step that writes it.
Distinguished ==
    <<log, retained, maxDeleted, lastID, rev, flush, live,
      IF Now = MaxLog THEN 0 ELSE published, clientVars>>

=============================================================================
