SPECIFICATION Spec
CONSTANTS
  Kinds <- AgentsAndFlora
  Installed <- FloraOn
  Rebuilds <- NewRevisions
  XAddMayFail = FALSE
  SetMayFail = TRUE
  Trims = TRUE
  MaxLen = 1
  MaxLog = 4
  XInfoMayFail = FALSE
  MayBeOvertaken = FALSE
  MayPause = FALSE
  MaxDrops = 1
INVARIANTS ViewFollows OneRevision

VIEW Distinguished
CHECK_DEADLOCK FALSE
