\* An assert hook that logs, as in README.md.
SPECIFICATION Spec
CONSTANTS
  t1 = t1
  t2 = t2
  t3 = t3
  Thread <- ThreeThreads
  Free = Free
  Null = Null
  Level <- OneLevel
  LogLevel <- OneLevel
  Hook <- Logs
  MaxInits = 1
PROPERTY AssertEnds
\* An assert hook that logs stops the library, and threads may all crash.
CHECK_DEADLOCK FALSE
