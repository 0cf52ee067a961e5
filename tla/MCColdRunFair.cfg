SPECIFICATION FairSpec
CONSTANTS
  Workers = {w1, w2}
  Runs = {r1}
  MaxAttempts = 3
  MaxPosts = 1
  MaxAborts = 2
  MaxCrashes = 0
  MaxOutages = 0
PROPERTIES
  ImplementsContract
  AcceptedIsDone
  KilledIsDone
CHECK_DEADLOCK FALSE
