SPECIFICATION FairSpec
CONSTANTS
  Cards = {c1}
  Sweeps = {watchdog, tool, mono}
  Foreign = {mono}
  Ticking = {watchdog}
  MaxFaults = 1
  MaxRequeues = 1
INVARIANTS
  TypeOK
  FiresOnceUnlessRaced
  NoRunUnderReadyCard
PROPERTY ReadyIsSwept
CHECK_DEADLOCK FALSE
