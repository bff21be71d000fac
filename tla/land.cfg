SPECIFICATION Spec
CONSTANTS
  Agents = {villager}
  Sites <- SmallSites
  Coarse = {"west"}
  CoarseOf <- Grid
  Centre <- Centres
  Terrain <- Lands
  Ground <- Terrains
  FixturePlants <- Grass
  Tuft = tuft
  Ice = "ice"
  Origin = "__origin__"
  None = None
  Rules <- Content
  Temps <- AnyTemp
  Bands = {0, 1, 2}
  RainHardCap = 2
  RainDurMin = 1
  RainDurMax = 1
  Hysteresis = 2
  MatureAt = 1
  MaxLength = 1
  CarryingCapacity = 1
  Stages <- Carcass
  Gains = {0, 1, 2}
  ClimateStep = 1
  FloraStep = 1
  DecayStep = 1
  Cycle = 1
  MaxSeq = 2
INVARIANTS RegistersAgree NavFollowsClimate IceRemembers ProductsOnce
