\* Threads that log, assert, initialise and end the library at any time.
SPECIFICATION Spec
CONSTANTS
  t1 = t1
  t2 = t2
  t3 = t3
  Thread <- ThreeThreads
  Free = Free
  Null = Null
  Level <- Levels
  LogLevel <- LogLevels
  Hook <- AnyHook
  MaxInits = 2
INVARIANT TypeOK
INVARIANT LoggerHasItsConfig
INVARIANT CommitIsSafe
INVARIANT NoNullConfig
PROPERTY MutexReleased
\* An assert hook that logs stops the library, and threads may all crash.
CHECK_DEADLOCK FALSE
