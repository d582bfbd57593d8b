----------------------------- MODULE MCEzlogApi -----------------------------
(* Threads that use the library, for TLC.                                  *)
EXTENDS EzlogApi

CONSTANTS t1, t2, t3

ThreeThreads == {t1, t2, t3}

\* The least, one in the middle and one that is none; with the default options,
\* which let the least through, the configured levels are one equal to it, one
\* below it and one above it.
Levels    == {0, 3, 6}
LogLevels == {3, 255}
OneLevel  == {0}

Logs    == {"log"}
AnyHook == {"return", "log", "throw"}
=============================================================================
