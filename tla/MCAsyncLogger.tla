--------------------------- MODULE MCAsyncLogger ---------------------------
(* An asynchronous logger and a handful of records, for TLC.               *)
EXTENDS AsyncLogger

CONSTANTS r1, r2

TwoRecords == {r1, r2}
=============================================================================
