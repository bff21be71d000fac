SPECIFICATION FairSpec
CONSTANTS
  Kinds <- AgentsAndFlora
  Installed <- FloraOn
  Rebuilds <- NoRebuild
  XAddMayFail = FALSE
  SetMayFail = FALSE
  Trims = TRUE
  MaxLen = 1
  MaxLog = 3
  XInfoMayFail = FALSE
  MayBeOvertaken = FALSE
  MayPause = FALSE
  MaxDrops = 1

PROPERTIES AgentsCatchUp FloraCatchesUp
CHECK_DEADLOCK FALSE
