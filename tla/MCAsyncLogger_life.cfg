\* From construction to deletion: rolling, throwing, deletion.
SPECIFICATION Spec
CONSTANTS
  r1 = r1
  r2 = r2
  Record <- TwoRecords
  MaxGens = 4
  MayThrow = TRUE
INVARIANT TypeOK
INVARIANT Conservation
INVARIANT StaleWriteBound
PROPERTY ImplementsLogPipe
PROPERTY EventuallyWritten
PROPERTY DeinitReturns
\* ezlog_deinit ends the logger, after which nothing is left to do.
CHECK_DEADLOCK FALSE
