SPECIFICATION Spec
CONSTANTS
  run = run
  long = long
  short = short
  Runs = {run}
  Upserts = {long, short}
  RunOf <- MCRunOf
  SizeOf <- MCSizeOf
  Readers = {search}
  Pruner = pruner
  MaxConns = 3
  MaxMishaps = 1
INVARIANT AcknowledgedIsStored
CHECK_DEADLOCK FALSE
