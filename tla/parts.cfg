SPECIFICATION Spec
CONSTANTS
  Cells <- Patch
  Types <- Terrain
  Base <- Layout
  WearMax = 2
  Full = 3
  MinFactor = 1
  Drinkable = {"lake"}
  FieldDecay = 1
  MaxEdits = 2
  Creatures = {"deer", "wolf"}
  Emits <- Beasts
  Growing = {"bones"}
  GrowsAt <- Where
  StaticChannel <- Smells
  Haunts <- TwoCells
  Winds <- StillAndEast
  TrailShare = 3
  TrailFade = 2
  TrailCap = 5
  ScentSpread = 2
  MaxSize = 1
  RunIDs = {"old", "new"}
  Ticks = {0, 1}
  KeepAllWindow = 1
  MidWindow = 4
  MidBucket = 2
  CoarseBucket = 4
  MaxAge = 8
  Interval = 2
  Lags = {0, 2}
  MaxClock = 9
  MaxRows = 3
  MaxFaults = 1
INVARIANTS GroundSound MindSound InstinctSound StoresSound HistorySound
CHECK_DEADLOCK FALSE
