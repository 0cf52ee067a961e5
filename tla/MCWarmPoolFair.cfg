SPECIFICATION FairSpec
CONSTANTS
  Turns = {t1, t2}
  Sessions = {s1}
  Workers = {w1}
  Reapers = {w1}
  None = None
  MaxWarm = 1
  MaxEvents = 2
  MaxImpatient = 0
PROPERTIES
  NothingLeaks
CHECK_DEADLOCK FALSE
