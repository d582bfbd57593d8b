------------------------------ MODULE Library ------------------------------
(***************************************************************************)
(* The library in asynchronous mode: the threads of a program that call    *)
(* the C interface (EzlogApi) and the logger behind it (AsyncLogger),      *)
(* through several lives. The thread that holds g_mutex is the calling     *)
(* thread of AsyncLogger: it constructs the logger, commits to it, calls   *)
(* its hooks and deletes it. The worker takes no g_mutex, and ezlog_deinit *)
(* waits for it with g_mutex held.                                         *)
(***************************************************************************)
EXTENDS Naturals, Sequences

CONSTANTS Thread, Free, Null, Level, LogLevel, Hook, MaxInits, Record, MaxGens, MayThrow

VARIABLES
  mutex, config, logger, inits, pc, asked, late,      \* the C interface
  started, running, worker, owner, notifier,          \* the timer
  api, buffers, batch, flusher, gens, cand, held,     \* the logger
  accepted, log, dropped

C == INSTANCE EzlogApi
A == INSTANCE AsyncLogger

\* The constants are those of the parts.
ASSUME LibraryAssumption == C!EzlogAssumption /\ A!AsyncAssumption

callVars == <<mutex, config, logger, inits, pc, asked, late>>
logVars  == <<started, running, worker, owner, notifier, api, buffers, batch,
              flusher, gens, cand, held, accepted, log, dropped>>
vars == <<callVars, logVars>>

TypeOK == C!TypeOK /\ A!TypeOK

-----------------------------------------------------------------------------
(* Fault variants of the actions below: what the code would do with the    *)
(* named mistake in it. Runs replace one action by its fault.              *)

\* ezlog_deinit() deletes the logger without stopping it.
Fault_LeaveDeinitAtOnce(t) == C!LeaveDeinit(t) /\ UNCHANGED logVars

\* g_mutex is held for do_commit() only, not for the flush() that follows.
Fault_LeaveBeforeFlush(t) == C!LeaveWrite(t) /\ UNCHANGED logVars

\* flush_buffers() takes g_mutex to look at what it writes through.
Fault_FlushLocked ==
  /\ mutex = Free
  /\ A!FlushStep
  /\ UNCHANGED callVars

-----------------------------------------------------------------------------
Init == C!Init /\ A!Init

\* What a thread does to the C interface alone.
CallStep(t) ==
  /\ C!Outside(t) \/ C!Refuse(t) \/ C!HookEnds(t) \/ C!HookLogs(t)
  /\ UNCHANGED logVars

\* new async_logger(g_config); a thread for it is there.
MakeLogger(t) == C!MakeLogger(t) /\ A!Construct

\* commit() as far as do_commit(): the destination may not be writable and the
\* encoder may return nothing, and then it is all there is to commit().
EnterCommit(t) ==
  /\ C!EnterCommit(t)
  /\ \/ A!CommitEmpty
     \/ \E r \in Record : A!Commit(r)
     \/ UNCHANGED logVars

\* The rest of commit().
Flush(t) ==
  /\ C!At(t, "commit")
  /\ \/ A!SamePath \/ A!NewPath \/ A!NoRoll \/ A!Roll \/ A!ReleaseOld
     \/ A!NotifyNobody \/ A!NotifyWorker \/ A!SignalWorker
  /\ UNCHANGED callVars

LeaveWrite(t) == C!LeaveWrite(t) /\ api = "ready" /\ UNCHANGED logVars

\* The constructor of the logger throws, or flush(), or commit() before it.
Throw(t) ==
  /\ C!Throw(t)
  /\ A!HookThrows \/ (api \in {"none", "ready"} /\ UNCHANGED logVars)

\* ezlog_deinit() deletes the logger, if there is one ...
DeleteLogger(t) ==
  /\ C!At(t, "deinit")
  /\ A!Deinit \/ A!StopTimer \/ A!Delete
  /\ UNCHANGED callVars

\* ... and the next one begins anew.
LeaveDeinit(t) ==
  /\ C!LeaveDeinit(t)
  /\ api \in {"none", "gone"}
  /\ started' = FALSE /\ running' = FALSE /\ worker' = "none" /\ owner' = "new"
  /\ api' = "none" /\ flusher' = "swap"
  /\ gens' = <<>> /\ cand' = 0 /\ held' = 0
  /\ buffers' = <<>> /\ batch' = <<>>
  /\ accepted' = <<>> /\ log' = <<>> /\ dropped' = <<>>
  /\ UNCHANGED notifier

WorkerWakes == A!WorkerLoop /\ UNCHANGED callVars

WorkerFlushes == A!FlushStep /\ UNCHANGED callVars

\* The worker runs out of memory, and is gone.
WorkerThrows == A!Throw /\ UNCHANGED callVars

-----------------------------------------------------------------------------
\* The steps of the thread that holds g_mutex.
Inside(t) ==
  \/ MakeLogger(t) \/ EnterCommit(t) \/ Flush(t) \/ LeaveWrite(t) \/ Throw(t)
  \/ DeleteLogger(t) \/ LeaveDeinit(t)

Next ==
  \/ \E t \in Thread : CallStep(t) \/ Inside(t)
  \/ WorkerWakes
  \/ WorkerFlushes
  \/ WorkerThrows

(***************************************************************************)
(* Every thread that can take a step eventually does; g_mutex is not a     *)
(* fair lock, and the interval of the timer need not elapse.               *)
(***************************************************************************)
Fairness ==
  /\ \A t \in Thread : WF_vars(Inside(t) \/ (mutex = t /\ CallStep(t)))
  /\ A!T!WorkerFairness
  /\ WF_vars(WorkerFlushes)

Spec == Init /\ [][Next]_vars /\ Fairness

-----------------------------------------------------------------------------
(* Properties.                                                             *)

(***************************************************************************)
(* To the logger the threads are one: whenever g_mutex is free no call is  *)
(* half done inside it, and the logger that g_logger points to is there,   *)
(* with its worker, from its construction until it is deleted, which is    *)
(* over when ezlog_deinit returns. AsyncLogger, with its one calling       *)
(* thread, rests on it.                                                    *)
(***************************************************************************)
CallsAreOne ==
  /\ mutex = Free => api = IF logger = Null THEN "none" ELSE "ready"
  /\ logger = Null => worker = "none" /\ buffers = <<>> /\ batch = <<>>
  /\ api \in {"path", "redirect", "roll", "reopen", "notify", "signal"} =>
       \E t \in Thread : mutex = t /\ logger # Null

(***************************************************************************)
(* The library implements LogService, with the calls of all threads as its *)
(* one client: the life of a log is that of the logger g_logger points to, *)
(* and the worker writes nothing before or after it, nor a record of one   *)
(* life in another.                                                        *)
(***************************************************************************)
Service == INSTANCE LogService WITH written <- A!Written, open <- logger # Null

ImplementsLogService == Service!Spec

(***************************************************************************)
(* Every call comes to its end and releases g_mutex, ezlog_deinit too,     *)
(* which waits for the worker with g_mutex held, wherever the worker is    *)
(* and though the interval may never elapse. The exceptions are a thread   *)
(* whose hook calls the library, one in the default assert hook, and one   *)
(* in ezlog_deinit whose worker waits for a destination that cannot be     *)
(* opened, or has gone with an exception and left _running set: g_mutex is *)
(* held for ever then, and no thread logs any more. A commit never waits   *)
(* for the worker.                                                         *)
(***************************************************************************)
CallsEnd ==
  \A t \in Thread :
    mutex = t ~> \/ mutex # t
                 \/ C!WaitsForItself(t) \/ C!AsleepInHook(t)
                 \/ C!At(t, "deinit") /\ A!Stuck
=============================================================================
