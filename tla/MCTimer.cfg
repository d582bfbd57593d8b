\* Three notifying threads and a routine that may throw.
SPECIFICATION Spec
CONSTANTS
  n1 = n1
  n2 = n2
  n3 = n3
  Notifiers <- ThreeNotifiers
  MayThrow = TRUE
INVARIANT TypeOK
INVARIANT StoppedMeansQuiet
PROPERTY ImplementsPeriodicWorker
PROPERTY RoutineRecurs
PROPERTY StopReturns
\* The owner may destroy the timer, after which nothing is left to run.
CHECK_DEADLOCK FALSE
