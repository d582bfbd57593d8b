------------------------------ MODULE LogPipe ------------------------------
(***************************************************************************)
(* What a logger promises the caller of ezlog_write_log: every record it   *)
(* accepts is written at most once, records are written in the order they  *)
(* were accepted, and none is written after ezlog_deinit has returned.     *)
(***************************************************************************)
EXTENDS Naturals, Sequences

CONSTANT Record  \* the records the program may log

VARIABLES
  accepted,  \* the records a commit took, oldest first
  written,   \* the records handed to the file, oldest first
  open       \* ezlog_deinit has not returned

vars == <<accepted, written, open>>

Init == accepted = <<>> /\ written = <<>> /\ open = TRUE

Accept(r) ==
  /\ open
  /\ accepted' = Append(accepted, r)
  /\ UNCHANGED <<written, open>>

Emit ==
  /\ open
  /\ Len(written) < Len(accepted)
  /\ written' = Append(written, accepted[Len(written) + 1])
  /\ UNCHANGED <<accepted, open>>

Close == open /\ open' = FALSE /\ UNCHANGED <<accepted, written>>

Next == (\E r \in Record : Accept(r)) \/ Emit \/ Close

Spec == Init /\ [][Next]_vars
=============================================================================
