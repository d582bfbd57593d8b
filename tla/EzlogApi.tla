------------------------------ MODULE EzlogApi ------------------------------
(***************************************************************************)
(* The C interface (src/src/ezlog.cpp, src/include/ezlog.h): the functions *)
(* that threads of a program call, the mutex they all take, and the two    *)
(* pointers it protects. The logger itself is behind ezlog_write_log and   *)
(* ezlog_deinit; AsyncLogger and RollingLogger model it, and Library puts  *)
(* it behind this interface.                                               *)
(*                                                                         *)
(* A function that takes g_mutex and calls neither a hook of the program   *)
(* nor the logger is one step. The others hold g_mutex from a step to a    *)
(* later one.                                                              *)
(***************************************************************************)
EXTENDS Naturals

CONSTANTS
  Thread,    \* the threads of the program
  Free,      \* g_mutex is not held
  Null,      \* no configuration, no logger
  Level,     \* the levels that callers ask for, an unsigned char
  LogLevel,  \* the levels that programs configure, an unsigned char too
  Hook,      \* how a hook may end: "return", "log", "throw"; else it spins
  MaxInits   \* bound: how often the library is initialised

Config == [id : 1..MaxInits, log_level : 0..255, assert_hook : {"default", "own"}]

ASSUME EzlogAssumption ==
  /\ Free \notin Thread /\ Null \notin Config
  /\ Level \subseteq 0..255 /\ LogLevel \subseteq 0..255
  /\ Hook \subseteq {"return", "log", "throw"}
  /\ MaxInits \in Nat

VARIABLES
  mutex,   \* who holds g_mutex
  config,  \* what g_config points to
  logger,  \* the configuration g_logger points to, or Null without a logger
  inits,   \* how many configurations were made
  pc,      \* where each thread is
  asked,   \* the level that each thread logs at, or logged at last
  late     \* history: the threads whose call of ezlog_write_log follows no
           \* test of the level, or follows one that ezlog_deinit overtook

vars == <<mutex, config, logger, inits, pc, asked, late>>

\* "check": the level is tested first; "write": ezlog_write_log is called;
\* the others are inside it, the assert hook or ezlog_deinit, g_mutex held
Places == {"idle", "check", "write", "make", "made", "commit", "hook", "deinit", "crashed"}

TypeOK ==
  /\ mutex \in Thread \cup {Free}
  /\ inits \in 0..MaxInits
  /\ config \in Config \cup {Null} /\ logger \in Config \cup {Null}
  /\ pc \in [Thread -> Places] /\ asked \in [Thread -> 0..255]
  /\ late \subseteq Thread

At(t, here)   == pc[t] = here
Goto(t, next) == pc' = [pc EXCEPT ![t] = next]

\* EZLOG_LEVEL_FATAL to EZLOG_LEVEL_VERBOSE.
ValidLevel == 0..5

IsLevelWritable(level) ==
  level \in ValidLevel /\ config # Null /\ level <= config.log_level

\* The assert hook is the program's, not the one that sleeps for ever.
OwnHook == config.assert_hook = "own"

-----------------------------------------------------------------------------
(* Fault variants of the actions below: what the code would do with the    *)
(* named mistake in it. Runs replace one action by its fault.              *)

\* A null assert hook is copied with the rest of the options and stays null.
Fault_AssertHookKept(given) == given

\* ezlog_init() does not refuse a second call.
Fault_InitTwice(t) ==
  /\ At(t, "idle") /\ mutex = Free
  /\ inits < MaxInits
  /\ inits' = inits + 1
  /\ \E level \in LogLevel :
       config' = [id |-> inits', log_level |-> level, assert_hook |-> "own"]
  /\ UNCHANGED <<mutex, logger, pc, asked, late>>

\* _is_level_writable() does not look for a null g_config.
Fault_CheckLevelOnly(t) ==
  /\ At(t, "check") /\ mutex = Free
  /\ asked[t] \in ValidLevel
  /\ Goto(t, "write")
  /\ UNCHANGED <<mutex, config, logger, inits, asked, late>>

\* ezlog_write_log() trusts the level that the macro has tested.
Fault_CommitUnchecked(t) ==
  /\ At(t, "made")
  /\ Goto(t, "commit")
  /\ UNCHANGED <<mutex, config, logger, inits, asked, late>>

\* g_mutex is locked and unlocked by hand, not by a guard.
Fault_ThrowLocked(t) ==
  /\ At(t, "make") \/ At(t, "commit")
  /\ Goto(t, "idle")
  /\ UNCHANGED <<mutex, config, logger, inits, asked, late>>

-----------------------------------------------------------------------------
Init ==
  /\ mutex = Free /\ config = Null /\ logger = Null /\ inits = 0
  /\ pc = [t \in Thread |-> "idle"] /\ asked = [t \in Thread |-> 0] /\ late = {}

\* What assert_hook is set to: a null one gets the default hook.
AssertHook(given) == IF given = "null" THEN "default" ELSE given

\* ezlog_init() with the options of the program; when there is a configuration
\* already, or no memory for one, it fails and changes nothing.
InitLibrary(t) ==
  /\ At(t, "idle") /\ mutex = Free
  /\ config = Null /\ inits < MaxInits
  /\ inits' = inits + 1
  /\ \E level \in LogLevel, hook \in {"null", "own"} :
       config' = [id |-> inits', log_level |-> level, assert_hook |-> AssertHook(hook)]
  /\ UNCHANGED <<mutex, logger, pc, asked, late>>

\* ezlog_init(NULL): everything is zero, the level EZLOG_LEVEL_FATAL.
InitDefault(t) ==
  /\ At(t, "idle") /\ mutex = Free
  /\ config = Null /\ inits < MaxInits
  /\ inits' = inits + 1
  /\ config' = [id |-> inits', log_level |-> 0, assert_hook |-> AssertHook("null")]
  /\ UNCHANGED <<mutex, logger, pc, asked, late>>

\* A thread comes to one of the LOG macros, whether the library is initialised
\* or not.
Log(t) ==
  /\ At(t, "idle")
  /\ \E level \in Level : asked' = [asked EXCEPT ![t] = level]
  /\ Goto(t, "check")
  /\ UNCHANGED <<mutex, config, logger, inits, late>>

\* A thread calls ezlog_write_log() itself, as README.md:55-69 does.
LogUnasked(t) ==
  /\ At(t, "idle")
  /\ \E level \in Level : asked' = [asked EXCEPT ![t] = level]
  /\ Goto(t, "write")
  /\ late' = IF config = Null THEN late \cup {t} ELSE late
  /\ UNCHANGED <<mutex, config, logger, inits>>

\* ezlog_is_level_writable().
CheckFails(t) ==
  /\ At(t, "check") /\ mutex = Free
  /\ ~IsLevelWritable(asked[t])
  /\ Goto(t, "idle")
  /\ UNCHANGED <<mutex, config, logger, inits, asked, late>>

CheckPasses(t) ==
  /\ At(t, "check") /\ mutex = Free
  /\ IsLevelWritable(asked[t])
  /\ Goto(t, "write")
  /\ UNCHANGED <<mutex, config, logger, inits, asked, late>>

\* ezlog_write_log_args(), ezlog_write_hex(): without a logger they read
\* g_config, null or not, to make one.
EnterWrite(t) ==
  /\ At(t, "write") /\ mutex = Free
  /\ logger # Null \/ config # Null
  /\ mutex' = t
  /\ late' = late \ {t}
  /\ Goto(t, IF logger = Null THEN "make" ELSE "made")
  /\ UNCHANGED <<config, logger, inits, asked>>

WriteToNull(t) ==
  /\ At(t, "write") /\ mutex = Free
  /\ logger = Null /\ config = Null
  /\ Goto(t, "crashed")
  /\ UNCHANGED <<mutex, config, logger, inits, asked, late>>

\* The constructor asks the path hook where to.
MakeLogger(t) ==
  /\ At(t, "make")
  /\ logger' = config
  /\ Goto(t, "made")
  /\ UNCHANGED <<mutex, config, inits, asked, late>>

\* The level is tested again.
Refuse(t) ==
  /\ At(t, "made")
  /\ ~IsLevelWritable(asked[t])
  /\ mutex' = Free
  /\ Goto(t, "idle")
  /\ UNCHANGED <<config, logger, inits, asked, late>>

EnterCommit(t) ==
  /\ At(t, "made")
  /\ IsLevelWritable(asked[t])
  /\ Goto(t, "commit")
  /\ UNCHANGED <<mutex, config, logger, inits, asked, late>>

\* commit() returns, having called the encoder, the path and the roll hook.
LeaveWrite(t) ==
  /\ At(t, "commit")
  /\ mutex' = Free
  /\ Goto(t, "idle")
  /\ UNCHANGED <<config, logger, inits, asked, late>>

\* The strings made of a null func, file or path throw, and so may a hook, and
\* the making of a logger when memory is short: the exception leaves the C
\* interface, and the guard releases g_mutex. The caller goes on.
Throw(t) ==
  /\ At(t, "make") \/ At(t, "commit")
  /\ mutex' = Free
  /\ Goto(t, "idle")
  /\ UNCHANGED <<config, logger, inits, asked, late>>

\* ezlog_assert() of a condition that fails calls the hook; without a
\* configuration, or when the condition holds, it does nothing.
AssertFails(t) ==
  /\ At(t, "idle") /\ mutex = Free
  /\ config # Null
  /\ mutex' = t
  /\ Goto(t, "hook")
  /\ UNCHANGED <<config, logger, inits, asked, late>>

HookEnds(t) ==
  /\ At(t, "hook") /\ OwnHook
  /\ Hook \cap {"return", "throw"} # {}
  /\ mutex' = Free
  /\ Goto(t, "idle")
  /\ UNCHANGED <<config, logger, inits, asked, late>>

\* A hook calls the library, which takes g_mutex: the assert hook, or one that
\* commit() or the logger's constructor calls.
HookLogs(t) ==
  /\ "log" \in Hook
  /\ At(t, "make") \/ At(t, "commit") \/ (At(t, "hook") /\ OwnHook)
  /\ \E next \in {"check", "write"} : Goto(t, next)
  /\ UNCHANGED <<mutex, config, logger, inits, asked, late>>

\* ezlog_deinit(): the logger goes first, for it uses the configuration, and
\* its destructor may have to wait for the worker.
EnterDeinit(t) ==
  /\ At(t, "idle") /\ mutex = Free
  /\ mutex' = t
  /\ Goto(t, "deinit")
  /\ UNCHANGED <<config, logger, inits, asked, late>>

LeaveDeinit(t) ==
  /\ At(t, "deinit")
  /\ logger' = Null
  /\ config' = Null
  /\ mutex' = Free
  /\ late' = late \cup {u \in Thread : At(u, "write")}
  /\ Goto(t, "idle")
  /\ UNCHANGED <<inits, asked>>

-----------------------------------------------------------------------------
\* The steps of a thread that is outside the library, or waits for g_mutex ...
Outside(t) ==
  \/ InitLibrary(t) \/ InitDefault(t)
  \/ Log(t) \/ LogUnasked(t) \/ CheckFails(t) \/ CheckPasses(t)
  \/ EnterWrite(t) \/ WriteToNull(t)
  \/ AssertFails(t) \/ EnterDeinit(t)

\* ... and of the one that holds it.
Inside(t) ==
  \/ MakeLogger(t) \/ Refuse(t) \/ EnterCommit(t) \/ LeaveWrite(t) \/ Throw(t)
  \/ HookEnds(t) \/ HookLogs(t)
  \/ LeaveDeinit(t)

Next == \E t \in Thread : Outside(t) \/ Inside(t)

(***************************************************************************)
(* A call that can go on does; nobody has to make a call. g_mutex is not a *)
(* fair lock, so only the steps that need no other thread to let go of it  *)
(* are relied on. That commit() and the logger's destructor come to an end *)
(* is part of it: Library looks into that.                                 *)
(***************************************************************************)
Fairness == \A t \in Thread : WF_vars(Inside(t)) /\ WF_vars(EnterWrite(t))

Spec == Init /\ [][Next]_vars /\ Fairness

-----------------------------------------------------------------------------
(* Properties.                                                             *)

(***************************************************************************)
(* The logger keeps a pointer to the configuration it was made with, and   *)
(* that configuration is alive and the one in use for as long as the       *)
(* logger is, through any number of ezlog_init() and ezlog_deinit().       *)
(***************************************************************************)
LoggerHasItsConfig == logger # Null => logger = config

(***************************************************************************)
(* While a thread is in commit(), in the logger and in the hooks of the    *)
(* configuration, no other thread deletes them or enters; and its record   *)
(* is one that the configuration in use lets through, though ezlog_deinit  *)
(* and ezlog_init may have put another in the place of the one that the    *)
(* LOG macro asked, or nobody may have asked.                              *)
(***************************************************************************)
CommitIsSafe ==
  \A t \in Thread :
    At(t, "commit") => mutex = t /\ logger # Null /\ IsLevelWritable(asked[t])

(***************************************************************************)
(* The LOG macros do nothing before ezlog_init() and after ezlog_deinit(): *)
(* ezlog_write_log(), which reads g_config unasked, is not reached without *)
(* one, unless the caller does not ask or ezlog_deinit() comes between the *)
(* test of the level and the call, which are two critical sections. A      *)
(* program avoids that which ends the library when its threads have        *)
(* stopped logging, as test/main.cpp does.                                 *)
(***************************************************************************)
NoNullConfig == \A t \in Thread : At(t, "crashed") => t \in late

(***************************************************************************)
(* Whoever holds g_mutex lets it go, though a record may be refused, a     *)
(* logger not be made, or an exception pass through the library; but for a *)
(* thread whose hook calls the library, which waits for itself, and one in *)
(* the default assert hook.                                                *)
(***************************************************************************)
WaitsForItself(t) == mutex = t /\ (At(t, "check") \/ At(t, "write"))

AsleepInHook(t) == At(t, "hook") /\ ~OwnHook

MutexReleased ==
  Hook \cap {"return", "throw"} # {} =>
    \A t \in Thread : mutex = t ~> (mutex # t \/ WaitsForItself(t) \/ AsleepInHook(t))

(***************************************************************************)
(* README.md:71-82 shows an assert hook that logs, and test/main.cpp:115   *)
(* has one. A failed assertion then never ends, and nothing is logged any  *)
(* more: the hook is called with g_mutex held, and ezlog_write_log() waits *)
(* for it.                                                                 *)
(***************************************************************************)
AssertEnds == \A t \in Thread : (At(t, "hook") /\ OwnHook) ~> mutex # t
=============================================================================
