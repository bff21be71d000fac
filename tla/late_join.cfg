SPECIFICATION Spec
CONSTANTS
  Kinds <- AllKinds
  Installed <- AllOn
  Rebuilds <- OnlyRestart
  XAddMayFail = FALSE
  SetMayFail = FALSE
  Trims = FALSE
  MaxLen = 1
  MaxLog = 4
  XInfoMayFail = FALSE
  MayBeOvertaken = FALSE
  MayPause = FALSE
  MaxDrops = 1
INVARIANTS ViewFollows
PROPERTIES BaselineNotUndone

CHECK_DEADLOCK FALSE
