------------------------------- MODULE MCTimer -------------------------------
(* A timer with three notifying threads, for TLC.                          *)
EXTENDS Timer

CONSTANTS n1, n2, n3

ThreeNotifiers == {n1, n2, n3}
=============================================================================
