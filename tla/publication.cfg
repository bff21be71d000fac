SPECIFICATION Spec
CONSTANTS
  Seeds <- OneSeed
  FixtureSeed = 1
  Animals <- NoAnimals
  Roster <- AllHerds
  Installed <- OneLayer
  HasPg = FALSE
  BackupEvery = 1
  Limit = 0
  TickSleep = TRUE
  AckMayBeLost = TRUE
  Outages <- RedisOutages
  MaxBoots = 2
  MaxRequests = 2
  MaxSeq = 0
  TickWrap = 1
  MaxEvents = 2
  TrimEvents = 1
INVARIANTS PublishedIsServable
PROPERTIES PublishedWhole BackOnlyWhenMisled KeepsPromise
CHECK_DEADLOCK FALSE
