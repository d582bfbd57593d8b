--------------------------- MODULE PeriodicWorker ---------------------------
(***************************************************************************)
(* What the class timer (src/src/timer.h) promises its owner: between      *)
(* start() and the return of stop() a routine is run again and again, one  *)
(* run at a time; outside that window it is never run.                     *)
(***************************************************************************)
VARIABLES
  life,  \* "on" from start() until stop() has returned, "off" otherwise
  busy   \* the routine is being run

vars == <<life, busy>>

Init == life = "off" /\ busy = FALSE

TurnOn   == life = "off" /\ life' = "on" /\ UNCHANGED busy
BeginRun == life = "on" /\ ~busy /\ busy' = TRUE /\ UNCHANGED life
EndRun   == life = "on" /\ busy /\ busy' = FALSE /\ UNCHANGED life
TurnOff  == life = "on" /\ ~busy /\ life' = "off" /\ UNCHANGED busy

Next == TurnOn \/ BeginRun \/ EndRun \/ TurnOff

Spec == Init /\ [][Next]_vars
=============================================================================
