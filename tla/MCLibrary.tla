----------------------------- MODULE MCLibrary -----------------------------
(* Two threads and an asynchronous logger of two lives, for TLC.           *)
EXTENDS Library

CONSTANTS t1, t2, r1

Threads   == {t1, t2}
OneRecord == {r1}
OneLevel  == {0}
AnyHook   == {"return", "log", "throw"}
=============================================================================
