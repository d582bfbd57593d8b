\* The bytes of a byte record, as a BIT STRING.
SPECIFICATION Spec
CONSTANTS
  Base = 16
  Tag <- Tags
  Level <- Levels
  ThreadId <- Ids
  Line <- Lines
  Name <- Names
  Text <- Texts
  Data <- Datas
  Time <- Clock
  Beyond <- Behind
  Short <- Shorts
  MaxRecords = 1
INVARIANT BitsReadBack
\* The bound on the records ends the run.
CHECK_DEADLOCK FALSE
