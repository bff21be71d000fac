SPECIFICATION FairSpec
CONSTANTS
  Seeds <- OneSeed
  FixtureSeed = 1
  Animals <- NoAnimals
  Roster <- AllHerds
  Installed <- NoLayers
  HasPg = FALSE
  BackupEvery = 1
  Limit = 0
  TickSleep = TRUE
  AckMayBeLost = FALSE
  Outages <- RedisOutages
  MaxBoots = 1
  MaxRequests = 2
  MaxSeq = 0
  TickWrap = 1
  MaxEvents = 2
  TrimEvents = 1

PROPERTIES PendingIsPublished SignalsServed
CHECK_DEADLOCK FALSE
