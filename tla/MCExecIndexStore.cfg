SPECIFICATION Spec
CONSTANTS
  run = run
  long = long
  short = short
  Runs = {run}
  Upserts = {long, short}
  RunOf <- MCRunOf
  SizeOf <- MCSizeOf
  Readers = {search}
  Pruner = pruner
  MaxConns = 2
  MaxMishaps = 1
INVARIANTS
  TypeOK
  AcknowledgedUnlessPoisoned
  RunIsOneVersion
CHECK_DEADLOCK FALSE
