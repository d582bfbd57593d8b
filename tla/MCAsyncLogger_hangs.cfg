\* ezlog_deinit waits for a worker that spins.
SPECIFICATION Spec
CONSTANTS
  r1 = r1
  r2 = r2
  Record <- TwoRecords
  MaxGens = 2
  MayThrow = FALSE
PROPERTY DeinitAlwaysReturns
\* ezlog_deinit ends the logger, after which nothing is left to do.
CHECK_DEADLOCK FALSE
