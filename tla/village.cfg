SPECIFICATION Spec
CONSTANTS
  Agents = {1, 2}
  Dims = {1, 2, 3}
  Registries = {{1, 2}, {1, 2, 3}}
  SafetyDim = 2
  None = None
  Objects = {bush1, bush2}
  Kind <- KindOf
  Acts <- SmallActs
  TargetKind <- Works
  Travels = {"walk"}
  Hostile = {"fight"}
  Duration <- Lasts
  Difficulty <- Needs
  PlansOf <- Menu
  Level <- Skill
  Clever = {2}
  ApathyFailStreak = 3
INVARIANTS PlanServesGoal NoStasis BlameIsFair
