----------------------------- MODULE LogService -----------------------------
(***************************************************************************)
(* What the library in asynchronous mode promises a program that calls it  *)
(* from several threads: from the first record after ezlog_init() to the   *)
(* return of ezlog_deinit() it is a LogPipe, and in between it takes and   *)
(* writes nothing. The next life begins with nothing of the last one.      *)
(***************************************************************************)
EXTENDS Naturals, Sequences

CONSTANT Record  \* the records the program may log

VARIABLES accepted, written, open  \* those of LogPipe, of one life

vars == <<accepted, written, open>>

Pipe == INSTANCE LogPipe

Init == accepted = <<>> /\ written = <<>> /\ open = FALSE

Begin == ~open /\ open' = TRUE /\ UNCHANGED <<accepted, written>>

End == open /\ open' = FALSE /\ accepted' = <<>> /\ written' = <<>>

Next == Begin \/ (\E r \in Record : Pipe!Accept(r)) \/ Pipe!Emit \/ End

Spec == Init /\ [][Next]_vars
=============================================================================
