SPECIFICATION Spec
CONSTANTS
  Workers = {w1, w2}
  Runs = {r1}
  MaxAttempts = 2
  MaxPosts = 2
  MaxAborts = 1
  MaxCrashes = 1
  MaxOutages = 1
SYMMETRY WorkerSymmetry
INVARIANTS
  TypeOK
  DoneAtMostOnce
  AbortedWhilePreparing
  KilledStaysDead
  KillIsToldBeforeDone
CHECK_DEADLOCK FALSE
