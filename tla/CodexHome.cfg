SPECIFICATION FairSpec
CONSTANTS
  Spawns = {s1, s2}
  NoSpawn = none
  MaxClock = 3
  MaxMishaps = 1
INVARIANTS
  TypeOK
PROPERTIES
  TakesTheNewer
  SpawnsSettle
