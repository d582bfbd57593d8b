\* Two records of every shape, read back from a file that may end anywhere.
SPECIFICATION Spec
CONSTANTS
  Base = 16
  Tag <- Tags
  Level <- Levels
  ThreadId <- Ids
  Line <- Lines
  Name <- Names
  Text <- Texts
  Data <- Datas
  Time <- Clock
  Beyond <- Behind
  Short <- Shorts
  MaxRecords = 2
INVARIANT TypeOK
INVARIANT ReadsBack
\* The bound on the records ends the run.
CHECK_DEADLOCK FALSE
