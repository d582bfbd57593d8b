\* A path whose last dot is in the name of a directory is not rolled.
SPECIFICATION Spec
CONSTANTS
  a = a
  b = b
  out = out
  NoPath = NoPath
  Char <- Characters
  Digit <- Digits
  Dot = "."
  Open = "("
  Close = ")"
  Path <- Files
  Console <- None
  Unrollable <- Files
  Slots = 2
  Rolling = TRUE
  MaxRecords = 2
  MaxRestarts = 0
PROPERTY RollStartsNewFile
\* When the logger may not be made again nothing is left to do.
CHECK_DEADLOCK FALSE
