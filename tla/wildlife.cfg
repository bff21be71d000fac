SPECIFICATION Spec
CONSTANTS
  Ids = {1, 2, 3, 4}
  None = None
  Herds <- Worlds
  Species <- Kinds
  Predators <- Wolves
  Prey <- Food
  Acts <- Habits
  Strength <- Muscle
  Targets <- ComeBack
  MaxVital = 1
  MaxStamina = 2
  Damages = {1}
  ExchangeTicks = {1}
  CooldownTicks = {2}
  HideTicks = 1
  MateTicks = 3
  MatureTicks = 1
INVARIANTS NoZombies EngagedInTheOpen MutualLock RivalsTakeTurns BirthsPaced
PROPERTIES HuntEnds
