SPECIFICATION Spec
CONSTANTS
  Seeds <- OneSeed
  FixtureSeed = 1
  Animals <- NoAnimals
  Roster <- AllHerds
  Installed <- NoLayers
  HasPg = TRUE
  BackupEvery = 1
  Limit = 0
  TickSleep = FALSE
  AckMayBeLost = FALSE
  Outages <- PgOutages
  MaxBoots = 2
  MaxRequests = 2
  MaxSeq = 3
  TickWrap = 1
  MaxEvents = 2
  TrimEvents = 1
INVARIANTS TypeOK TraceOnceInOrder NoTraceLost NoForeignTrace ReplayCut
CHECK_DEADLOCK FALSE
CONSTRAINT ShorterLives
