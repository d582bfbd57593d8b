---------------------------- MODULE EzlogApiProofs ----------------------------
(***************************************************************************)
(* Theorems about the C interface, for any set of threads, any number of   *)
(* initialisations and any assert hook.                                    *)
(***************************************************************************)
EXTENDS EzlogApi, TLAPS

(***************************************************************************)
(* The inductive invariant. A thread inside the logger, the assert hook or *)
(* ezlog_deinit holds g_mutex (Holds), so that nobody deletes what it      *)
(* uses. A thread past the null test of ezlog_write_log or ezlog_assert    *)
(* has a configuration, and one past the making of the logger a logger     *)
(* (Equipped); one past the test of the level, that no ezlog_deinit has    *)
(* overtaken, has a configuration too: NoNullConfig rests on it.           *)
(***************************************************************************)
Holds ==
  \A t \in Thread :
    pc[t] \in {"make", "made", "commit", "hook", "deinit"} => mutex = t

Equipped ==
  \A t \in Thread :
    /\ pc[t] \in {"make", "made", "hook"} => config # Null
    /\ At(t, "made") => logger # Null

WriteConfigured == \A t \in Thread : At(t, "write") => config # Null \/ t \in late

IInv ==
  /\ TypeOK
  /\ Holds
  /\ Equipped
  /\ WriteConfigured
  /\ LoggerHasItsConfig
  /\ CommitIsSafe
  /\ NoNullConfig

LEMMA InitIInv == Init => IInv
BY EzlogAssumption
   DEF Init, IInv, TypeOK, Holds, Equipped, WriteConfigured, LoggerHasItsConfig,
       CommitIsSafe, NoNullConfig, At, Places

LEMMA NextIInv == IInv /\ [Next]_vars => IInv'
<1> SUFFICES ASSUME IInv, [Next]_vars PROVE IInv'
  OBVIOUS
<1> USE EzlogAssumption DEF IInv, TypeOK, Places, Holds, Equipped, WriteConfigured,
        LoggerHasItsConfig, CommitIsSafe, NoNullConfig, At, Goto, IsLevelWritable,
        ValidLevel
<1>1. ASSUME NEW t \in Thread, InitLibrary(t) PROVE IInv'
  BY <1>1 DEF InitLibrary, AssertHook, Config
<1>2. ASSUME NEW t \in Thread, InitDefault(t) PROVE IInv'
  BY <1>2 DEF InitDefault, AssertHook, Config
<1>3. ASSUME NEW t \in Thread, Log(t) PROVE IInv'
  BY <1>3 DEF Log
<1>4. ASSUME NEW t \in Thread, LogUnasked(t) PROVE IInv'
  BY <1>4 DEF LogUnasked
<1>5. ASSUME NEW t \in Thread, CheckFails(t) PROVE IInv'
  BY <1>5 DEF CheckFails
<1>6. ASSUME NEW t \in Thread, CheckPasses(t) PROVE IInv'
  BY <1>6 DEF CheckPasses
<1>7. ASSUME NEW t \in Thread, EnterWrite(t) PROVE IInv'
  BY <1>7 DEF EnterWrite
<1>8. ASSUME NEW t \in Thread, WriteToNull(t) PROVE IInv'
  BY <1>8 DEF WriteToNull
<1>9. ASSUME NEW t \in Thread, AssertFails(t) PROVE IInv'
  BY <1>9 DEF AssertFails
<1>10. ASSUME NEW t \in Thread, EnterDeinit(t) PROVE IInv'
  BY <1>10 DEF EnterDeinit
<1>11. ASSUME NEW t \in Thread, MakeLogger(t) PROVE IInv'
  BY <1>11 DEF MakeLogger
<1>12. ASSUME NEW t \in Thread, Refuse(t) PROVE IInv'
  BY <1>12 DEF Refuse
<1>13. ASSUME NEW t \in Thread, EnterCommit(t) PROVE IInv'
  BY <1>13 DEF EnterCommit
<1>14. ASSUME NEW t \in Thread, LeaveWrite(t) PROVE IInv'
  BY <1>14 DEF LeaveWrite
<1>15. ASSUME NEW t \in Thread, Throw(t) PROVE IInv'
  BY <1>15 DEF Throw
<1>16. ASSUME NEW t \in Thread, HookEnds(t) PROVE IInv'
  BY <1>16 DEF HookEnds
<1>17. ASSUME NEW t \in Thread, HookLogs(t) PROVE IInv'
  BY <1>17 DEF HookLogs
<1>18. ASSUME NEW t \in Thread, LeaveDeinit(t) PROVE IInv'
  BY <1>18 DEF LeaveDeinit
<1>19. CASE UNCHANGED vars
  BY <1>19 DEF vars
<1> QED
  BY <1>1, <1>2, <1>3, <1>4, <1>5, <1>6, <1>7, <1>8, <1>9, <1>10,
     <1>11, <1>12, <1>13, <1>14, <1>15, <1>16, <1>17, <1>18, <1>19
     DEF Next, Outside, Inside

THEOREM Invariance == Spec => []IInv
BY InitIInv, NextIInv, PTL DEF Spec

\* The pointers and the mutex keep their types.
THEOREM TypeCorrect == Spec => []TypeOK
<1>1. IInv => TypeOK  BY DEF IInv
<1> QED  BY <1>1, Invariance, PTL

\* The logger's configuration lives as long as the logger (ezlog.cpp,
\* ezlog_init, ezlog_write_log_args, ezlog_deinit).
THEOREM ConfigOutlivesLogger == Spec => []LoggerHasItsConfig
<1>1. IInv => LoggerHasItsConfig  BY DEF IInv
<1> QED  BY <1>1, Invariance, PTL

\* Nobody deletes the logger under a commit, and what is committed is of a level
\* that the configuration in use lets through (ezlog.cpp:337-385, SCOPE_LOCK).
THEOREM CommitsAreSafe == Spec => []CommitIsSafe
<1>1. IInv => CommitIsSafe  BY DEF IInv
<1> QED  BY <1>1, Invariance, PTL

\* ezlog_write_log reads a null g_config only in a thread that ezlog_deinit
\* overtook inside a LOG macro (ezlog.cpp:337-360, ezlog.h:194-201) or that did not ask.
THEOREM OnlyOvertakenCallsFail == Spec => []NoNullConfig
<1>1. IInv => NoNullConfig  BY DEF IInv
<1> QED  BY <1>1, Invariance, PTL
=============================================================================
