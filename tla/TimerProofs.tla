----------------------------- MODULE TimerProofs -----------------------------
(***************************************************************************)
(* Theorems about the timer, for any set of notifying threads, any         *)
(* interval and a routine that may or may not throw.                       *)
(***************************************************************************)
EXTENDS Timer, TLAPS

(***************************************************************************)
(* The inductive invariant. StoppedMeansQuiet is not inductive: the test   *)
(* of _running that ends stop() is worth something only because the first  *)
(* loop of stop() waited for the thread to set it (Handshake), and because *)
(* it stays TRUE for as long as the thread is in its loop (RunningInLoop). *)
(***************************************************************************)
Lifecycle ==
  /\ worker = "none" => ~running
  /\ owner = "new" => worker = "none" /\ ~started
  /\ owner \in {"up", "failed", "polling"} => started
  /\ owner \in {"up", "draining"} => worker # "none"
  /\ owner = "failed" => worker \in {"none", "done"} /\ ~running
  /\ owner \in {"destroyed", "terminated"} => worker \in {"none", "done"}

RunningInLoop ==
  worker \in {"prewait", "waiting", "woken", "routine", "leaving"} => running

Handshake == owner = "draining" /\ ~running => worker = "done"

IInv ==
  /\ TypeOK
  /\ Lifecycle
  /\ RunningInLoop
  /\ Handshake
  /\ StoppedMeansQuiet

-----------------------------------------------------------------------------
LEMMA InitIInv == Init => IInv
BY DEF Init, IInv, TypeOK, Lifecycle, RunningInLoop, Handshake,
       StoppedMeansQuiet, WorkerStates, OwnerStates

LEMMA NextIInv == IInv /\ [Next]_vars => IInv'
<1> SUFFICES ASSUME IInv, [Next]_vars
             PROVE  IInv'
  OBVIOUS
<1> USE DEF IInv, TypeOK, Lifecycle, RunningInLoop, Handshake,
            StoppedMeansQuiet, WorkerStates, OwnerStates
<1>1. CASE Start           BY <1>1 DEF Start
<1>17. CASE StartFails     BY <1>17 DEF StartFails
<1>18. CASE PollThrows     BY <1>18 DEF PollThrows
<1>2. CASE Stop            BY <1>2 DEF Stop
<1>3. CASE Poll            BY <1>3 DEF Poll
<1>4. CASE DrainSignal     BY <1>4 DEF DrainSignal
<1>5. CASE DrainDone       BY <1>5 DEF DrainDone
<1>6. CASE Destroy         BY <1>6 DEF Destroy
<1>7. ASSUME NEW n \in Notifiers, Notify(n) PROVE IInv'
  BY <1>7 DEF Notify
<1>8. ASSUME NEW n \in Notifiers, Signal(n) PROVE IInv'
  BY <1>8 DEF Signal
<1>9. CASE EnterLoop       BY <1>9 DEF EnterLoop
<1>10. CASE EnterWait      BY <1>10 DEF EnterWait
<1>11. CASE Timeout        BY <1>11 DEF Timeout
<1>12. CASE CheckStarted   BY <1>12 DEF CheckStarted
<1>13. CASE Leave          BY <1>13 DEF Leave
<1>14. CASE RoutineReturns BY <1>14 DEF RoutineReturns
<1>15. CASE RoutineThrows  BY <1>15 DEF RoutineThrows
<1>16. CASE UNCHANGED vars BY <1>16 DEF vars
<1> QED
  BY <1>1, <1>2, <1>3, <1>4, <1>5, <1>6, <1>7, <1>8, <1>9, <1>10, <1>11,
     <1>12, <1>13, <1>14, <1>15, <1>16, <1>17, <1>18 DEF Next, OwnerStep, WorkerLoop

\* The inductive invariant holds in every reachable state.
THEOREM Invariance == Spec => []IInv
BY InitIInv, NextIInv, PTL DEF Spec

\* The variables of the timer keep their types.
THEOREM TypeCorrect == Spec => []TypeOK
<1>1. IInv => TypeOK  BY DEF IInv
<1> QED  BY <1>1, Invariance, PTL

\* Once stop() has returned the worker has left its loop for good (timer.cpp,
\* stop and the worker's lambda).
THEOREM StopIsFinal == Spec => []StoppedMeansQuiet
<1>1. IInv => StoppedMeansQuiet  BY DEF IInv
<1> QED  BY <1>1, Invariance, PTL

-----------------------------------------------------------------------------
(* The refinement: one step of the timer is one step of PeriodicWorker, or *)
(* changes nothing it speaks of.                                           *)

LEMMA RefinesInit == Init => Abstract!Init
BY DEF Init, Abstract!Init

LEMMA RefinesNext == IInv /\ [Next]_vars => [Abstract!Next]_(Abstract!vars)
<1> SUFFICES ASSUME IInv, [Next]_vars
             PROVE  [Abstract!Next]_(Abstract!vars)
  OBVIOUS
<1> USE DEF IInv, TypeOK, Lifecycle, RunningInLoop, Handshake,
            StoppedMeansQuiet, WorkerStates, OwnerStates, Abstract!vars
<1>1. CASE Start
  BY <1>1 DEF Start, Abstract!Next, Abstract!TurnOn
<1>17. CASE StartFails     BY <1>17 DEF StartFails
<1>18. CASE PollThrows
  BY <1>18 DEF PollThrows, Abstract!Next, Abstract!TurnOff
<1>2. CASE Stop
  BY <1>2 DEF Stop, Abstract!Next, Abstract!TurnOn
<1>3. CASE Poll            BY <1>3 DEF Poll
<1>4. CASE DrainSignal     BY <1>4 DEF DrainSignal
<1>5. CASE DrainDone
  BY <1>5 DEF DrainDone, Abstract!Next, Abstract!TurnOff
<1>6. CASE Destroy         BY <1>6 DEF Destroy
<1>7. ASSUME NEW n \in Notifiers, Notify(n) PROVE UNCHANGED Abstract!vars
  BY <1>7 DEF Notify
<1>8. ASSUME NEW n \in Notifiers, Signal(n) PROVE UNCHANGED Abstract!vars
  BY <1>8 DEF Signal
<1>9. CASE EnterLoop       BY <1>9 DEF EnterLoop
<1>10. CASE EnterWait      BY <1>10 DEF EnterWait
<1>11. CASE Timeout        BY <1>11 DEF Timeout
<1>12. CASE CheckStarted
  BY <1>12 DEF CheckStarted, Abstract!Next, Abstract!BeginRun
<1>13. CASE Leave          BY <1>13 DEF Leave
<1>14. CASE RoutineReturns
  BY <1>14 DEF RoutineReturns, Abstract!Next, Abstract!EndRun
<1>15. CASE RoutineThrows
  BY <1>15 DEF RoutineThrows, Abstract!Next, Abstract!EndRun
<1>16. CASE UNCHANGED vars BY <1>16 DEF vars
<1> QED
  BY <1>1, <1>2, <1>3, <1>4, <1>5, <1>6, <1>7, <1>8, <1>9, <1>10, <1>11,
     <1>12, <1>13, <1>14, <1>15, <1>16, <1>17, <1>18 DEF Next, OwnerStep, WorkerLoop

\* The timer never runs its routine outside start() .. stop(), nor two runs at
\* a time (timer.cpp, the whole class).
THEOREM Refinement == Spec => ImplementsPeriodicWorker
BY RefinesInit, RefinesNext, Invariance, PTL
   DEF Spec, ImplementsPeriodicWorker, Abstract!Spec
=============================================================================
