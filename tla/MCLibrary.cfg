\* Two lives of the asynchronous logger, shared by two threads.
SPECIFICATION Spec
CONSTANTS
  t1 = t1
  t2 = t2
  r1 = r1
  Thread <- Threads
  Free = Free
  Null = Null
  Level <- OneLevel
  LogLevel <- OneLevel
  Hook <- AnyHook
  MaxInits = 2
  Record <- OneRecord
  MaxGens = 2
  MayThrow = TRUE
INVARIANT TypeOK
INVARIANT CallsAreOne
PROPERTY ImplementsLogService
PROPERTY CallsEnd
\* A hook that logs stops the library.
CHECK_DEADLOCK FALSE
