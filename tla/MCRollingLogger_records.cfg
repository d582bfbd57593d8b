\* Two files and a standard stream: where every record goes.
SPECIFICATION Spec
CONSTANTS
  a = a
  b = b
  out = out
  NoPath = NoPath
  Char <- Characters
  Digit <- Digits
  Dot = "."
  Open = "("
  Close = ")"
  Path <- FilesAndStdout
  Console <- Stdout
  Unrollable <- None
  Slots = 3
  Rolling = TRUE
  MaxRecords = 3
  MaxRestarts = 1
SYMMETRY Symmetry
INVARIANT TypeOK
INVARIANT EachOnce
INVARIANT DurableWhenIdle
INVARIANT KeepsNewest
\* When the logger may not be made again nothing is left to do.
CHECK_DEADLOCK FALSE
