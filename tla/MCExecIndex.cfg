SPECIFICATION FairSpec
CONSTANTS
  run = run
  w1 = w1
  w2 = w2
  Runs = {run}
  RunOf <- MCRunOf
  Warm = {w1, w2}
  Sweepers = {s1, s2}
  MaxAttempts = 2
  MaxMishaps = 1
INVARIANTS
  TypeOK
  NothingSlips
  GapIsKills
PROPERTIES
    QueueDrains
CHECK_DEADLOCK FALSE
