\* ezlog_deinit drops what is queued.
SPECIFICATION Spec
CONSTANTS
  r1 = r1
  r2 = r2
  Record <- TwoRecords
  MaxGens = 1
  MayThrow = FALSE
INVARIANT DeinitDrains
\* ezlog_deinit ends the logger, after which nothing is left to do.
CHECK_DEADLOCK FALSE
