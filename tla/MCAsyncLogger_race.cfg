\* A record is written to a closed file.
SPECIFICATION Spec
CONSTANTS
  r1 = r1
  r2 = r2
  Record <- TwoRecords
  MaxGens = 2
  MayThrow = FALSE
INVARIANT WritesToOpenFile
\* ezlog_deinit ends the logger, after which nothing is left to do.
CHECK_DEADLOCK FALSE
