SPECIFICATION Spec
CONSTANTS
  Kinds <- AgentsAndFlora
  Installed <- FloraOn
  Rebuilds <- AnyRebuild
  XAddMayFail = TRUE
  SetMayFail = TRUE
  Trims = TRUE
  MaxLen = 1
  MaxLog = 3
  XInfoMayFail = TRUE
  MayBeOvertaken = TRUE
  MayPause = TRUE
  MaxDrops = 1
INVARIANTS RosterNotOlder
PROPERTIES OldWorldNeverReplays
CHECK_DEADLOCK FALSE
