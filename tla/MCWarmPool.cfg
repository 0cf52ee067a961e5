SPECIFICATION Spec
CONSTANTS
  Turns = {t1, t2}
  Sessions = {s1, s2}
  Workers = {w1, w2}
  Reapers = {w1}
  None = None
  MaxWarm = 1
  MaxEvents = 2
  MaxImpatient = 1
SYMMETRY Interchangeable
INVARIANTS
  TypeOK
  CeilingHolds
  ServedByItsGeneration
  DrainKeepsTurns
CHECK_DEADLOCK FALSE
