SPECIFICATION Spec
CONSTANTS
  Agents = {1, 2, 3}
  Functions = {safety}
  SafetyFunction = safety
  None = None
  Burdened = {1, 3}
  Cheats = {2}
  TrustSeed = 1
  TrustMax = 2
  HonestySeed = 1
  RelyMax = 2
  RelyOnDelta = 2
  VoteRelyOnDelta = 1
  VoteRelyThreshold = 2
  Visible <- Callings
  Lasts <- Durations
  RoleShare <- Most
INVARIANTS VotesCountOnce RolesReflectReliance NoFalseAccusation
