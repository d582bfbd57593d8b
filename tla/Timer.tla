-------------------------------- MODULE Timer --------------------------------
(***************************************************************************)
(* The class timer (src/src/timer.cpp): a thread made by std::async that   *)
(* sleeps on a condition variable and runs a routine each time it wakes.   *)
(* One thread, the owner, constructs, starts, stops and destroys the timer;*)
(* any number of threads call notify().                                    *)
(*                                                                         *)
(* Each critical section of timer::_mutex is one step: it neither blocks   *)
(* nor touches anything another thread reads outside the mutex, except     *)
(* that wait_for() leaves it, which is where EnterWait ends. What is read  *)
(* outside the mutex, _running above all, is read in a step of its own.    *)
(***************************************************************************)
CONSTANTS
  Notifiers,  \* threads that call notify()
  MayThrow    \* the routine may leave by an exception (out of memory)

ASSUME TimerAssumption == MayThrow \in BOOLEAN

VARIABLES
  started,   \* timer::_started
  running,   \* timer::_running
  worker,    \* where the worker thread is
  owner,     \* where the owning thread is
  notifier   \* where each notifying thread is

vars == <<started, running, worker, owner, notifier>>

\* "none": no thread yet; "done": the future is ready
WorkerStates == {"none", "top", "prewait", "waiting", "woken", "routine", "leaving", "done"}
\* "failed": start() has thrown; "terminated": the process has ended
OwnerStates  == {"new", "up", "failed", "polling", "draining", "stopped",
                 "destroyed", "terminated"}

TypeOK ==
  /\ started \in BOOLEAN
  /\ running \in BOOLEAN
  /\ worker \in WorkerStates
  /\ owner \in OwnerStates
  /\ notifier \in [Notifiers -> {"idle", "locking"}]

-----------------------------------------------------------------------------
(* Fault variants of the actions below: what the code would do with the    *)
(* named mistake in it. Runs replace one action by its fault.              *)

\* std::async() without launch::async: the thread may be deferred.
Fault_StartDeferred ==
  /\ owner \in {"new", "stopped"}
  /\ started' = TRUE
  /\ worker' = "deferred"
  /\ owner' = "up"
  /\ UNCHANGED <<running, notifier>>

\* stop() without its first loop: it may overtake the start of the thread.
Fault_PollSkipped ==
  /\ owner = "polling"
  /\ owner' = "draining"
  /\ UNCHANGED <<started, running, worker, notifier>>

\* stop() signals once and then only waits.
Fault_DrainSignalOnce ==
  /\ owner = "draining"
  /\ running
  /\ started
  /\ started' = FALSE
  /\ worker' = IF worker = "waiting" THEN "woken" ELSE worker
  /\ UNCHANGED <<running, owner, notifier>>

\* stop() returns once it has asked, without waiting for _running.
Fault_DrainDoneEarly ==
  /\ owner = "draining"
  /\ ~started
  /\ owner' = "stopped"
  /\ UNCHANGED <<started, running, worker, notifier>>

\* wait() instead of wait_for().
Fault_TimeoutNever == FALSE /\ UNCHANGED vars

-----------------------------------------------------------------------------
Init ==
  /\ started = FALSE
  /\ running = FALSE
  /\ worker = "none"
  /\ owner = "new"
  /\ notifier = [n \in Notifiers |-> "idle"]

-----------------------------------------------------------------------------
(* The owner: start(), stop() and the destructor.                          *)

\* start() on a timer that is not started; on a started one it does nothing.
Start ==
  /\ owner \in {"new", "stopped"}
  /\ ~started
  /\ started' = TRUE
  /\ worker' = "top"
  /\ owner' = "up"
  /\ UNCHANGED <<running, notifier>>

\* std::async() cannot make a thread and throws: _started stays TRUE, and the
\* future is the one of an earlier start, or has no state.
StartFails ==
  /\ owner \in {"new", "stopped"}
  /\ ~started
  /\ started' = TRUE
  /\ owner' = "failed"
  /\ UNCHANGED <<running, worker, notifier>>

\* stop() on a started timer; on any other it returns at once.
Stop ==
  /\ owner \in {"up", "failed"}
  /\ owner' = "polling"
  /\ UNCHANGED <<started, running, worker, notifier>>

\* The first loop of stop(): leave it once the thread runs or has ended.
Poll ==
  /\ owner = "polling"
  /\ worker = "done" \/ running
  /\ owner' = "draining"
  /\ UNCHANGED <<started, running, worker, notifier>>

\* A future without a state cannot be waited for: wait_for() throws, out of the
\* destructor that called stop().
PollThrows ==
  /\ owner = "polling"
  /\ worker = "none"
  /\ owner' = "terminated"
  /\ UNCHANGED <<started, running, worker, notifier>>

\* The body of the second loop: ask the worker to leave and wake it.
DrainSignal ==
  /\ owner = "draining"
  /\ running
  /\ started' = FALSE
  /\ worker' = IF worker = "waiting" THEN "woken" ELSE worker
  /\ UNCHANGED <<running, owner, notifier>>

\* The second loop ends: stop() returns.
DrainDone ==
  /\ owner = "draining"
  /\ ~running
  /\ owner' = "stopped"
  /\ UNCHANGED <<started, running, worker, notifier>>

\* ~timer() on a timer that was stopped, or never started; the future's
\* destructor joins the thread. No thread is inside notify(): the owner sees to
\* that. (On a timer whose second start failed, the stop() of the destructor
\* changes as little as the one before it.)
Destroy ==
  /\ owner \in {"new", "stopped"}
  /\ worker \in {"none", "done"}
  /\ \A n \in Notifiers : notifier[n] = "idle"
  /\ owner' = "destroyed"
  /\ UNCHANGED <<started, running, worker, notifier>>

-----------------------------------------------------------------------------
(* notify(): the test of _running, then the signal under the mutex.        *)

Notify(n) ==
  /\ owner # "destroyed"
  /\ notifier[n] = "idle"
  /\ running
  /\ notifier' = [notifier EXCEPT ![n] = "locking"]
  /\ UNCHANGED <<started, running, worker, owner>>

Signal(n) ==
  /\ notifier[n] = "locking"
  /\ worker' = IF worker = "waiting" THEN "woken" ELSE worker
  /\ notifier' = [notifier EXCEPT ![n] = "idle"]
  /\ UNCHANGED <<started, running, owner>>

-----------------------------------------------------------------------------
(* The worker thread.                                                      *)

EnterLoop ==
  /\ worker = "top"
  /\ running' = TRUE
  /\ worker' = "prewait"
  /\ UNCHANGED <<started, owner, notifier>>

EnterWait ==
  /\ worker = "prewait"
  /\ worker' = "waiting"
  /\ UNCHANGED <<started, running, owner, notifier>>

\* wait_for() ends without a signal: the interval has elapsed, or the thread
\* was woken for no reason, as a condition variable may.
Timeout ==
  /\ worker = "waiting"
  /\ worker' = "woken"
  /\ UNCHANGED <<started, running, owner, notifier>>

\* Awake with the mutex held again: run the routine, or leave the loop.
CheckStarted ==
  /\ worker = "woken"
  /\ worker' = IF started THEN "routine" ELSE "leaving"
  /\ UNCHANGED <<started, running, owner, notifier>>

RoutineReturns ==
  /\ worker = "routine"
  /\ worker' = "top"
  /\ UNCHANGED <<started, running, owner, notifier>>

\* The exception is stored in the future; _running keeps its value.
RoutineThrows ==
  /\ MayThrow
  /\ worker = "routine"
  /\ worker' = "done"
  /\ UNCHANGED <<started, running, owner, notifier>>

Leave ==
  /\ worker = "leaving"
  /\ running' = FALSE
  /\ worker' = "done"
  /\ UNCHANGED <<started, owner, notifier>>

-----------------------------------------------------------------------------
OwnerStep ==
  \/ Start \/ StartFails \/ Destroy
  \/ Stop \/ Poll \/ PollThrows \/ DrainSignal \/ DrainDone

WorkerLoop == EnterLoop \/ EnterWait \/ Timeout \/ CheckStarted \/ Leave

Next ==
  \/ OwnerStep
  \/ \E n \in Notifiers : Notify(n) \/ Signal(n)
  \/ WorkerLoop
  \/ RoutineReturns
  \/ RoutineThrows

(***************************************************************************)
(* Every thread that can take a step eventually does, and the routine      *)
(* returns. Nobody has to call anything, and the interval, which may be    *)
(* EZLOG_INFINITE, need not elapse: a property that relies on it says so.  *)
(***************************************************************************)
WorkerFairness ==
  /\ WF_vars(EnterLoop)
  /\ WF_vars(EnterWait)
  /\ WF_vars(CheckStarted)
  /\ WF_vars(Leave)

StopFairness ==
  /\ WF_vars(Poll \/ PollThrows)
  /\ WF_vars(DrainSignal)
  /\ WF_vars(DrainDone)

Fairness ==
  /\ WorkerFairness
  /\ StopFairness
  /\ WF_vars(RoutineReturns)
  /\ \A n \in Notifiers : WF_vars(Signal(n))

Spec == Init /\ [][Next]_vars /\ Fairness

-----------------------------------------------------------------------------
(* Properties.                                                             *)

\* The routine has thrown: the thread is gone but _running is still TRUE.
Threw == worker = "done" /\ running

(***************************************************************************)
(* When stop() has returned, the worker has left its loop for good: no run *)
(* of the routine is under way or can follow, so what the routine uses may *)
(* be destroyed (~async_logger relies on it). Where a start has failed     *)
(* stop() says the same of the thread before, or does not return.          *)
(***************************************************************************)
StoppedMeansQuiet == owner = "stopped" => worker = "done" /\ ~running

(***************************************************************************)
(* stop() returns, however it is interleaved with the start of the thread, *)
(* with notify() and with a run of the routine, and even when the interval *)
(* never elapses, with two exceptions: after a routine that threw _running *)
(* stays TRUE and the second loop of stop() never ends; and the stop() of  *)
(* a timer that never got a thread ends the process.                       *)
(***************************************************************************)
StopReturns ==
  (owner = "polling") ~> (owner \in {"stopped", "terminated"} \/ Threw)

(***************************************************************************)
(* A started timer whose interval elapses runs its routine again and again,*)
(* whether or not anybody calls notify().                                  *)
(***************************************************************************)
RoutineRecurs ==
  WF_vars(Timeout) => []<>(worker = "routine" \/ owner # "up" \/ Threw)

(***************************************************************************)
(* The timer implements PeriodicWorker: the routine is never run before    *)
(* start() nor after stop() has returned, and never twice at a time.       *)
(***************************************************************************)
Abstract == INSTANCE PeriodicWorker WITH
  life <- IF owner \in {"up", "polling", "draining"} THEN "on" ELSE "off",
  busy <- worker = "routine"

ImplementsPeriodicWorker == Abstract!Spec
=============================================================================
