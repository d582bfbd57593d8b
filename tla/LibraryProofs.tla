---------------------------- MODULE LibraryProofs ----------------------------
(***************************************************************************)
(* Theorems about the library in asynchronous mode, for any set of threads *)
(* and records and any number of initialisations and destinations. Those   *)
(* about the two parts hold in it too: each of its steps is a step of the  *)
(* C interface, and of the logger or the beginning of a new one.           *)
(***************************************************************************)
EXTENDS Library, TLAPS

CP == INSTANCE EzlogApiProofs
AP == INSTANCE AsyncLoggerProofs

(***************************************************************************)
(* The inductive invariant. A thread inside the library holds g_mutex; a   *)
(* logger is being made where there is none, but a configuration; and the  *)
(* logger is there when g_logger says so. A call half done in the logger   *)
(* is that of the thread that holds g_mutex: it is in commit(), or waits   *)
(* for itself since a hook has logged; and the logger is being deleted, or *)
(* has been, only while a thread is in ezlog_deinit.                       *)
(***************************************************************************)
Typed ==
  /\ pc \in [Thread -> C!Places]
  /\ api \in {"none", "ready", "path", "redirect", "roll", "reopen", "notify", "signal",
             "deinit", "gone"}

Holds ==
  \A t \in Thread :
    pc[t] \in {"make", "made", "commit", "hook", "deinit"} => mutex = t

Making == \A t \in Thread : pc[t] = "make" => config # Null /\ logger = Null

Alive ==
  /\ logger = Null <=> api = "none"
  /\ api = "none" => /\ worker = "none" /\ buffers = <<>> /\ batch = <<>>
                     /\ accepted = <<>> /\ log = <<>>

HalfDone ==
  /\ api \in {"path", "redirect", "roll", "reopen", "notify", "signal"} =>
       \E t \in Thread : mutex = t /\ pc[t] \in {"commit", "check", "write"}
  /\ api \in {"deinit", "gone"} => \E t \in Thread : pc[t] = "deinit"

IInv == Typed /\ Holds /\ Making /\ Alive /\ HalfDone

LEMMA InitIInv == Init => IInv
BY DEF Init, C!Init, A!Init, A!T!Init, IInv, Typed, C!Places, Holds, Making, Alive, HalfDone

LEMMA NextIInv == IInv /\ [Next]_vars => IInv'
<1> SUFFICES ASSUME IInv, [Next]_vars PROVE IInv'
  OBVIOUS
<1>a. Free \notin Thread
  BY LibraryAssumption DEF C!EzlogAssumption
<1> USE <1>a DEF IInv, Typed, C!Places, Holds, Making, Alive, HalfDone, C!At, C!Goto
<1>1. ASSUME NEW t \in Thread, CallStep(t) PROVE IInv'
  <2> USE <1>1 DEF CallStep, logVars
  <2>1. CASE C!InitLibrary(t) \/ C!InitDefault(t)
    BY <2>1 DEF C!InitLibrary, C!InitDefault
  <2>2. CASE C!Log(t) \/ C!LogUnasked(t)
    BY <2>2 DEF C!Log, C!LogUnasked
  <2>3. CASE C!CheckFails(t) \/ C!CheckPasses(t)
    BY <2>3 DEF C!CheckFails, C!CheckPasses
  <2>4. CASE C!EnterWrite(t) \/ C!WriteToNull(t)
    BY <2>4 DEF C!EnterWrite, C!WriteToNull
  <2>5. CASE C!AssertFails(t) \/ C!EnterDeinit(t)
    BY <2>5 DEF C!AssertFails, C!EnterDeinit
  <2>6. CASE C!Refuse(t) \/ C!HookEnds(t)
    BY <2>6 DEF C!Refuse, C!HookEnds
  <2>7. CASE C!HookLogs(t)
    BY <2>7 DEF C!HookLogs
  <2> QED
    BY <2>1, <2>2, <2>3, <2>4, <2>5, <2>6, <2>7 DEF C!Outside
<1>2. ASSUME NEW t \in Thread, MakeLogger(t) PROVE IInv'
  BY <1>2 DEF MakeLogger, C!MakeLogger, A!Construct, A!T!Start, A!queueVars
<1>3. ASSUME NEW t \in Thread, EnterCommit(t) PROVE IInv'
  BY <1>3 DEF EnterCommit, C!EnterCommit, A!CommitEmpty, A!Commit, A!timerVars,
              A!queueVars, logVars
<1>4. ASSUME NEW t \in Thread, Flush(t) PROVE IInv'
  BY <1>4 DEF Flush, A!SamePath, A!NewPath, A!NoRoll, A!Roll, A!ReleaseOld,
              A!Assigning, A!NotifyNobody, A!NotifyWorker, A!SignalWorker, A!T!Notify, A!T!Signal, A!timerVars,
              A!queueVars, callVars
<1>5. ASSUME NEW t \in Thread, LeaveWrite(t) PROVE IInv'
  BY <1>5 DEF LeaveWrite, C!LeaveWrite, logVars
<1>6. ASSUME NEW t \in Thread, Throw(t) PROVE IInv'
  BY <1>6 DEF Throw, C!Throw, A!HookThrows, A!timerVars, A!queueVars, logVars
<1>7. ASSUME NEW t \in Thread, DeleteLogger(t) PROVE IInv'
  BY <1>7 DEF DeleteLogger, A!Deinit, A!StopTimer, A!Delete, A!T!Stop, A!T!Poll,
              A!T!DrainSignal, A!T!DrainDone, A!T!Destroy, A!queueVars, callVars
<1>8. ASSUME NEW t \in Thread, LeaveDeinit(t) PROVE IInv'
  BY <1>8 DEF LeaveDeinit, C!LeaveDeinit
<1>9. CASE WorkerWakes
  BY <1>9 DEF WorkerWakes, A!WorkerLoop, A!T!WorkerLoop, A!T!EnterLoop, A!T!EnterWait,
              A!T!Timeout, A!T!CheckStarted, A!T!Leave, A!queueVars, callVars
<1>10. CASE WorkerFlushes
  BY <1>10 DEF WorkerFlushes, A!FlushStep, A!Swap, A!Load, A!Pin, A!Retry, A!Write,
               A!Finish, A!T!RoutineReturns, A!timerVars, A!queueVars, callVars
<1>11. CASE WorkerThrows
  BY <1>11 DEF WorkerThrows, A!Throw, A!T!RoutineThrows, A!queueVars, callVars
<1>12. CASE UNCHANGED vars
  BY <1>12 DEF vars, callVars, logVars
<1> QED
  BY <1>1, <1>2, <1>3, <1>4, <1>5, <1>6, <1>7, <1>8, <1>9, <1>10, <1>11, <1>12
     DEF Next, Inside

THEOREM Invariance == Spec => []IInv
BY InitIInv, NextIInv, PTL DEF Spec

\* To the logger the threads are one (ezlog.cpp:337-400, SCOPE_LOCK).
THEOREM OneCallAtATime == Spec => []CallsAreOne
<1>1. IInv => CallsAreOne
  BY LibraryAssumption DEF C!EzlogAssumption, IInv, Typed, Holds, Alive, HalfDone, CallsAreOne
<1> QED  BY <1>1, Invariance, PTL

-----------------------------------------------------------------------------
(* The two parts.                                                          *)

LEMMA Assumptions == CP!EzlogAssumption /\ AP!AsyncAssumption
BY LibraryAssumption
   DEF C!EzlogAssumption, C!Config, CP!EzlogAssumption, CP!Config,
       A!AsyncAssumption, AP!AsyncAssumption

\* The parts of Library and those that the theorems are about are the same.
LEMMA SameCalls == (C!Init <=> CP!Init) /\ (C!Next <=> CP!Next)
BY DEF C!Init, C!Next, C!Outside, C!Inside, C!Places, C!At, C!Goto, C!InitLibrary,
       C!InitDefault, C!Log, C!LogUnasked, C!CheckFails, C!CheckPasses, C!EnterWrite,
       C!WriteToNull, C!AssertFails, C!EnterDeinit, C!MakeLogger, C!Refuse,
       C!EnterCommit, C!LeaveWrite, C!Throw, C!HookEnds, C!HookLogs, C!LeaveDeinit,
       C!IsLevelWritable, C!ValidLevel, C!OwnHook, C!AssertHook,
       CP!Init, CP!Next, CP!Outside, CP!Inside, CP!Places, CP!At, CP!Goto,
       CP!InitLibrary, CP!InitDefault, CP!Log, CP!LogUnasked, CP!CheckFails,
       CP!CheckPasses, CP!EnterWrite, CP!WriteToNull, CP!AssertFails, CP!EnterDeinit,
       CP!MakeLogger, CP!Refuse, CP!EnterCommit, CP!LeaveWrite, CP!Throw, CP!HookEnds,
       CP!HookLogs, CP!LeaveDeinit, CP!IsLevelWritable, CP!ValidLevel, CP!OwnHook,
       CP!AssertHook

LEMMA CallsStep == [Next]_vars => [C!Next]_callVars
BY DEF Next, Inside, vars, CallStep, MakeLogger, EnterCommit, Flush, LeaveWrite, Throw,
       DeleteLogger, LeaveDeinit, WorkerWakes, WorkerFlushes, WorkerThrows, callVars, C!Next,
       C!Outside, C!Inside

LEMMA LoggerStep ==
  [Next]_vars => [A!Next]_logVars \/ \E t \in Thread : LeaveDeinit(t)
BY DEF Next, Inside, vars, CallStep, MakeLogger, EnterCommit, Flush, LeaveWrite, Throw,
       DeleteLogger, WorkerWakes, WorkerFlushes, WorkerThrows, A!Next, A!ApiStep

LEMMA SameLoggerInit == A!Init <=> AP!Init
BY DEF A!Init, A!T!Init, AP!Init, AP!T!Init

LEMMA SameLogger == A!Next <=> AP!Next
BY DEF A!Next, A!Construct, A!ConstructFails, A!Unwind, A!Commit, A!CommitEmpty,
       A!SamePath, A!NewPath, A!NoRoll, A!Roll, A!HookThrows, A!NotifyNobody,
       A!NotifyWorker, A!SignalWorker, A!Deinit, A!StopTimer, A!Delete, A!WorkerLoop,
       A!Throw, A!Swap, A!Load, A!PinOutcomes, A!Pin, A!Retry, A!Write, A!Finish,
       A!ApiStep, A!FlushStep, A!Cur, A!Writable, A!Closed, A!Released, A!Assigning,
       A!OpenNext, A!ReleaseOld, A!Kept, A!Holding, A!timerVars, A!queueVars, A!destVars, A!ToSet, A!T!Start,
       A!T!StartFails, A!T!Stop, A!T!Poll, A!T!PollThrows, A!T!DrainSignal,
       A!T!DrainDone, A!T!Destroy, A!T!EnterLoop, A!T!EnterWait, A!T!Timeout,
       A!T!CheckStarted, A!T!Leave, A!T!RoutineReturns, A!T!RoutineThrows, A!T!Notify,
       A!T!Signal, A!T!WorkerLoop, AP!Next, AP!Construct, AP!ConstructFails,
       AP!Unwind, AP!Commit, AP!CommitEmpty, AP!SamePath, AP!NewPath, AP!NoRoll,
       AP!Roll, AP!HookThrows, AP!NotifyNobody, AP!NotifyWorker, AP!SignalWorker,
       AP!Deinit, AP!StopTimer, AP!Delete, AP!WorkerLoop, AP!Throw, AP!Swap, AP!Load,
       AP!PinOutcomes, AP!Pin, AP!Retry, AP!Write, AP!Finish, AP!ApiStep,
       AP!FlushStep, AP!Cur, AP!Writable, AP!Closed, AP!Released, AP!Assigning,
       AP!OpenNext, AP!ReleaseOld, AP!Kept, AP!Holding, AP!timerVars, AP!queueVars, AP!destVars, AP!ToSet, AP!T!Start,
       AP!T!StartFails, AP!T!Stop, AP!T!Poll, AP!T!PollThrows, AP!T!DrainSignal,
       AP!T!DrainDone, AP!T!Destroy, AP!T!EnterLoop, AP!T!EnterWait, AP!T!Timeout,
       AP!T!CheckStarted, AP!T!Leave, AP!T!RoutineReturns, AP!T!RoutineThrows,
       AP!T!Notify, AP!T!Signal, AP!T!WorkerLoop

(***************************************************************************)
(* The invariant of the logger survives the end of its life: the state is  *)
(* that of a logger to be made, and no thread is in a timer any more.      *)
(***************************************************************************)
LEMMA NewLife ==
  ASSUME AP!IInv, NEW t \in Thread, LeaveDeinit(t)
  PROVE  AP!IInv'
<1> USE DEF LeaveDeinit
<1>1. AP!TypeOK'
  <2>1. AP!T!TypeOK'
    BY DEF AP!IInv, AP!TypeOK, AP!T!TypeOK, AP!T!WorkerStates, AP!T!OwnerStates
  <2>2. \A S : <<>> \in Seq(S)
    OBVIOUS
  <2>3. AP!Cur' = 0
    BY DEF AP!Cur
  <2> QED
    BY <2>1, <2>2, <2>3 DEF AP!TypeOK, AP!ApiStates, AP!FlusherStates
<1>2. AP!Phases'
  BY DEF AP!Phases, AP!Assigning
<1>3. AP!Conservation' /\ AP!LogOrder' /\ AP!StaleWriteBound'
  BY DEF AP!Conservation, AP!Written, AP!LogOrder, AP!StaleWriteBound
<1> QED
  BY <1>1, <1>2, <1>3 DEF AP!IInv

Parts == CP!IInv /\ AP!IInv

LEMMA InitParts == Init => Parts
BY Assumptions, SameCalls, SameLoggerInit, CP!InitIInv, AP!InitIInv DEF Init, Parts

LEMMA NextParts == Parts /\ [Next]_vars => Parts'
<1> SUFFICES ASSUME Parts, [Next]_vars PROVE Parts'
  OBVIOUS
<1>1. CP!IInv'
  <2>1. [CP!Next]_(CP!vars)
    BY CallsStep, SameCalls DEF callVars, CP!vars
  <2> QED
    BY <2>1, Assumptions, CP!NextIInv DEF Parts
<1>2. CASE [A!Next]_logVars
  <2>1. [AP!Next]_(AP!vars)
    BY <1>2, SameLogger DEF logVars, AP!vars, AP!timerVars, AP!queueVars, AP!destVars
  <2> QED
    BY <1>1, <2>1, Assumptions, AP!NextIInv DEF Parts
<1>3. CASE \E t \in Thread : LeaveDeinit(t)
  BY <1>1, <1>3, NewLife DEF Parts
<1> QED
  BY <1>2, <1>3, LoggerStep

THEOREM PartsInvariance == Spec => []Parts
BY InitParts, NextParts, PTL DEF Spec

\* The state of the library keeps its type through all its lives.
THEOREM TypeCorrect == Spec => []TypeOK
<1>1. CP!IInv => C!TypeOK
  BY DEF CP!IInv, CP!TypeOK, CP!Config, CP!Places, C!TypeOK, C!Config, C!Places
<1>2. AP!IInv => A!TypeOK
  BY DEF AP!IInv, AP!TypeOK, AP!T!TypeOK, AP!T!WorkerStates, AP!T!OwnerStates,
         AP!ApiStates, AP!FlusherStates, AP!GenStates, AP!Cur, AP!LogEntry,
         A!TypeOK, A!T!TypeOK, A!T!WorkerStates, A!T!OwnerStates, A!ApiStates,
         A!FlusherStates, A!GenStates, A!Cur, A!LogEntry
<1> QED
  BY <1>1, <1>2, PartsInvariance, PTL DEF Parts, TypeOK

(***************************************************************************)
(* With the logger behind it the C interface is as safe as EzlogApiProofs  *)
(* has it: nobody deletes logger or configuration under a commit, and only *)
(* calls that ezlog_deinit overtook, or that did not ask, read a null      *)
(* g_config (ezlog.cpp:337-400).                                           *)
(***************************************************************************)
THEOREM CallsAreSafe ==
  Spec => [](C!LoggerHasItsConfig /\ C!CommitIsSafe /\ C!NoNullConfig)
<1>1. CP!IInv => C!LoggerHasItsConfig /\ C!CommitIsSafe /\ C!NoNullConfig
  BY DEF CP!IInv, CP!LoggerHasItsConfig, CP!CommitIsSafe, CP!NoNullConfig, CP!At,
         CP!IsLevelWritable, CP!ValidLevel,
         C!LoggerHasItsConfig, C!CommitIsSafe, C!NoNullConfig, C!At,
         C!IsLevelWritable, C!ValidLevel
<1> QED
  BY <1>1, PartsInvariance, PTL DEF Parts

(***************************************************************************)
(* Called by any number of threads, in each of its lives, the asynchronous *)
(* logger loses no record between do_commit() and flush_buffers(), and     *)
(* writes one at most to a destination that was replaced                   *)
(* (async_logger.cpp:28-77 under ezlog.cpp:337-400).                       *)
(***************************************************************************)
THEOREM RecordsAreKept == Spec => [](A!Conservation /\ A!StaleWriteBound)
<1>1. AP!IInv => A!Conservation /\ A!StaleWriteBound
  BY DEF AP!IInv, AP!Conservation, AP!Written, AP!StaleWriteBound,
         A!Conservation, A!Written, A!StaleWriteBound
<1> QED
  BY <1>1, PartsInvariance, PTL DEF Parts

-----------------------------------------------------------------------------
(* The refinement of LogService. The steps of the logger are those of a    *)
(* LogPipe; they are taken only while g_logger is there, for without a     *)
(* logger there are no records; and the end of the logger comes before     *)
(* that of the service, which is when ezlog_deinit() forgets it.           *)

LEMMA ServiceInit == Init => Service!Init
BY DEF Init, C!Init, A!Init, Service!Init, A!Written

\* Only the making of the logger and ezlog_deinit() change g_logger.
LEMMA LoggerSteady ==
  ASSUME [Next]_vars
  PROVE  \/ \E t \in Thread : MakeLogger(t) \/ LeaveDeinit(t)
         \/ UNCHANGED logger
BY DEF Next, Inside, vars, callVars, CallStep, EnterCommit, Flush, LeaveWrite, Throw,
       DeleteLogger, WorkerWakes, WorkerFlushes, WorkerThrows, C!Outside, C!InitLibrary,
       C!InitDefault, C!Log, C!LogUnasked, C!CheckFails, C!CheckPasses, C!EnterWrite,
       C!WriteToNull, C!AssertFails, C!EnterDeinit, C!Refuse, C!EnterCommit,
       C!LeaveWrite, C!Throw, C!HookEnds, C!HookLogs

LEMMA ServiceNext ==
  IInv /\ IInv' /\ Parts /\ Parts' /\ [Next]_vars => [Service!Next]_(Service!vars)
<1> SUFFICES ASSUME IInv, IInv', Parts, Parts', [Next]_vars
             PROVE  [Service!Next]_(Service!vars)
  OBVIOUS
<1>1. ASSUME NEW t \in Thread, MakeLogger(t) PROVE Service!Begin
  BY <1>1 DEF MakeLogger, C!MakeLogger, C!At, A!Construct, A!queueVars, A!Written,
              IInv, Making, Service!Begin
<1>2. ASSUME NEW t \in Thread, LeaveDeinit(t)
      PROVE  Service!End \/ UNCHANGED Service!vars
  BY <1>2 DEF LeaveDeinit, C!LeaveDeinit, A!Written, IInv, Alive, Service!End,
              Service!vars
<1>3. CASE UNCHANGED logger /\ [A!Next]_logVars
  <2>1. [AP!Pipe!Next]_(AP!Pipe!vars)
    <3>1. [AP!Next]_(AP!vars)
      BY <1>3, SameLogger
         DEF logVars, AP!vars, AP!timerVars, AP!queueVars, AP!destVars
    <3> QED
      BY <3>1, Assumptions, AP!RefinesNext DEF Parts
  <2>2. \/ \E r \in Record : AP!Pipe!Accept(r)
        \/ AP!Pipe!Emit
        \/ UNCHANGED <<accepted, A!Written>>
    BY <2>1 DEF AP!Pipe!Next, AP!Pipe!Close, AP!Pipe!vars, AP!Written, A!Written
  <2>3. accepted \in Seq(Record) /\ accepted' \in Seq(Record)
    BY DEF Parts, AP!IInv, AP!TypeOK
  <2>4. ASSUME NEW r \in Record, AP!Pipe!Accept(r) PROVE Service!Pipe!Accept(r)
    <3>1. accepted' # <<>>
      BY <2>3, <2>4 DEF AP!Pipe!Accept
    <3> QED
      BY <1>3, <2>4, <3>1
         DEF AP!Pipe!Accept, AP!Written, A!Written, IInv, Alive, Service!Pipe!Accept
  <2>5. CASE AP!Pipe!Emit
    <3>1. accepted # <<>>
      BY <2>5, <2>3 DEF AP!Pipe!Emit, AP!Written, Parts, AP!IInv, AP!TypeOK
    <3> QED
      BY <1>3, <2>5, <3>1
         DEF AP!Pipe!Emit, AP!Written, A!Written, IInv, Alive, Service!Pipe!Emit,
             Service!Next
  <2> QED
    BY <1>3, <2>2, <2>4, <2>5 DEF Service!Next, Service!vars
<1> QED
  BY <1>1, <1>2, <1>3, LoggerSteady, LoggerStep DEF Service!Next

\* Through g_mutex and all its lives the library is one log, whatever its threads
\* do (ezlog.cpp:337-400, async_logger.cpp).
THEOREM Refinement == Spec => ImplementsLogService
BY ServiceInit, ServiceNext, Invariance, PartsInvariance, PTL
   DEF Spec, ImplementsLogService, Service!Spec
=============================================================================
