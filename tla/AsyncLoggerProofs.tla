-------------------------- MODULE AsyncLoggerProofs --------------------------
(***************************************************************************)
(* Theorems about the asynchronous logger, for any set of records, any     *)
(* number of destinations, any interval, and a routine that may throw.     *)
(***************************************************************************)
EXTENDS AsyncLogger, SequenceTheorems, TLAPS

(***************************************************************************)
(* The inductive invariant. Conservation needs to know where the worker    *)
(* is: the local queue of flush_buffers() is empty outside the function,   *)
(* and the worker is gone when the logger is deleted, so that only         *)
(* _buffers can hold anything then. StaleWriteBound needs the order of the *)
(* destinations: the worker's pointer is never behind the log, and no      *)
(* record has followed its destination's replacement into it yet. While    *)
(* _dest is being assigned there is a destination before the current one.  *)
(***************************************************************************)
Phases ==
  /\ flusher # "swap" => worker = "routine"
  /\ flusher = "swap" => batch = <<>>
  /\ flusher \in {"pin", "write"} => batch # <<>> /\ cand # 0
  /\ api \in {"none", "unwind"} => worker = "none"
  /\ api = "none" => gens = <<>>
  /\ api = "gone" => worker \in {"none", "done"}
  /\ api # "gone" => dropped = <<>>
  /\ Assigning => Cur > 1

LogOrder ==
  /\ \A i \in DOMAIN log :
       /\ log[i].dest <= log[i].at /\ log[i].at <= Cur
       /\ log[i].dest <= cand
  /\ flusher \in {"pin", "write"} =>
       \A i \in DOMAIN log : log[i].dest = cand => log[i].at = cand

IInv == TypeOK /\ Phases /\ Conservation /\ LogOrder /\ StaleWriteBound

-----------------------------------------------------------------------------
(* Facts about the sequences.                                              *)

LEMMA WrittenIsSeq ==
  ASSUME log \in Seq(LogEntry)
  PROVE  Written \in Seq(Record) /\ Len(Written) = Len(log)
<1>1. \A i \in 1..Len(log) : log[i] \in LogEntry
  OBVIOUS
<1>2. Written \in [1..Len(log) -> Record]
  BY <1>1 DEF Written, LogEntry
<1> QED  BY <1>2, Len(log) \in Nat

LEMMA WrittenAppend ==
  ASSUME log \in Seq(LogEntry), NEW e \in LogEntry, log' = Append(log, e)
  PROVE  Written' = Append(Written, e.rec)
<1>1. log' \in Seq(LogEntry) /\ Len(log') = Len(log) + 1 /\ Len(log) \in Nat
  OBVIOUS
<1>2. \A i \in 1..Len(log) : log'[i] = log[i]
  OBVIOUS
<1>3. log'[Len(log) + 1] = e
  OBVIOUS
<1>4. Written' = [i \in 1..(Len(log) + 1) |-> log'[i].rec]
  BY <1>1 DEF Written
<1>5. Written = [i \in 1..Len(log) |-> log[i].rec]
  BY DEF Written
<1>6. Written \in Seq(Record) /\ Len(Written) = Len(log)
  BY WrittenIsSeq
<1>7. Append(Written, e.rec) = [i \in 1..(Len(log) + 1) |->
                                 IF i = Len(log) + 1 THEN e.rec ELSE Written[i]]
  BY <1>6
<1> QED  BY <1>1, <1>2, <1>3, <1>4, <1>5, <1>7

LEMMA ConcatAppend ==
  ASSUME NEW S, NEW x \in Seq(S), NEW y \in Seq(S), NEW e \in S
  PROVE  x \o Append(y, e) = Append(x \o y, e)
OBVIOUS

LEMMA MoveHead ==
  ASSUME NEW S, NEW x \in Seq(S), NEW y \in Seq(S), y # <<>>
  PROVE  Append(x, Head(y)) \o Tail(y) = x \o y
OBVIOUS

LEMMA EmptyConcat ==
  ASSUME NEW S, NEW x \in Seq(S)
  PROVE  x \o <<>> = x /\ <<>> \o x = x
OBVIOUS

-----------------------------------------------------------------------------
(* The operators on destinations.                                          *)

LEMMA ReleasedType ==
  ASSUME NEW gs \in Seq(GenStates), NEW g \in 1..Len(gs)
  PROVE  Released(gs, g) \in Seq(GenStates) /\ Len(Released(gs, g)) = Len(gs)
BY DEF Released, Closed, GenStates

LEMMA OpenNextType ==
  ASSUME gens \in Seq(GenStates), OpenNext
  PROVE  gens' \in Seq(GenStates) /\ gens' # <<>> /\ Cur' = Cur + 1
<1>1. PICK s \in GenStates : gens' = Append(gens, s)
  BY DEF OpenNext, GenStates
<1> QED  BY <1>1 DEF Cur

LEMMA ReleaseOldType ==
  ASSUME gens \in Seq(GenStates), Assigning => Cur > 1, ReleaseOld
  PROVE  gens' \in Seq(GenStates) /\ gens' # <<>> /\ Cur' = Cur
<1>1. Cur - 1 \in 1..Len(gens)
  BY DEF Cur, ReleaseOld
<1>2. gens' \in Seq(GenStates) /\ Len(gens') = Len(gens)
  BY <1>1, ReleasedType DEF ReleaseOld
<1> QED  BY <1>1, <1>2 DEF Cur

LEMMA HoldingType ==
  ASSUME gens \in Seq(GenStates), held \in 0..Cur, NEW h \in 0..Cur, Holding(h)
  PROVE  gens' \in Seq(GenStates) /\ Cur' = Cur /\ held' = h
<1>1. CASE held \in {0, h} \cup Kept
  BY <1>1 DEF Holding, Cur
<1>2. CASE held \notin {0, h} \cup Kept
  <2>1. held \in 1..Len(gens)
    BY <1>2 DEF Cur
  <2> QED  BY <1>2, <2>1, ReleasedType DEF Holding, Cur
<1> QED  BY <1>1, <1>2

\* The worker holds a destination that has been made, or none.
LEMMA PinOutcomesType ==
  ASSUME Cur \in Nat, cand \in 0..Cur, held \in 0..Cur, Assigning => Cur > 1,
         NEW h \in PinOutcomes
  PROVE  h \in 0..Cur
<1>1. (cand..Cur) \cup Kept \subseteq 0..Cur
  BY DEF Kept
<1> QED  BY <1>1 DEF PinOutcomes

-----------------------------------------------------------------------------
(* The timer inside the logger.                                            *)

\* Whatever the logger does, the timer in it takes a step of its own or none.
LEMMA UsesTimer == [Next]_vars => [T!Next]_timerVars
<1> SUFFICES ASSUME [Next]_vars PROVE [T!Next]_timerVars
  OBVIOUS
<1> USE DEF timerVars, T!Next, T!OwnerStep
<1>1. CASE Construct
  BY <1>1 DEF Construct
<1>2. CASE CommitEmpty
  BY <1>2 DEF CommitEmpty
<1>3. ASSUME NEW r \in Record, Commit(r) PROVE [T!Next]_timerVars
  BY <1>3 DEF Commit
<1>4. CASE SamePath
  BY <1>4 DEF SamePath
<1>5. CASE NewPath
  BY <1>5 DEF NewPath
<1>6. CASE NoRoll
  BY <1>6 DEF NoRoll
<1>7. CASE Roll
  BY <1>7 DEF Roll
<1>8. CASE NotifyNobody
  BY <1>8 DEF NotifyNobody
<1>9. CASE NotifyWorker
  BY <1>9 DEF NotifyWorker
<1>10. CASE SignalWorker
  BY <1>10 DEF SignalWorker
<1>11. CASE Deinit
  BY <1>11 DEF Deinit
<1>12. CASE StopTimer
  BY <1>12 DEF StopTimer
<1>13. CASE Delete
  BY <1>13 DEF Delete
<1>14. CASE WorkerLoop
  BY <1>14 DEF WorkerLoop
<1>15. CASE Throw
  BY <1>15 DEF Throw
<1>16. CASE Swap
  BY <1>16 DEF Swap
<1>17. CASE Load
  BY <1>17 DEF Load
<1>18. CASE Pin
  BY <1>18 DEF Pin
<1>19. CASE Retry
  BY <1>19 DEF Retry
<1>20. CASE Write
  BY <1>20 DEF Write
<1>21. CASE Finish
  BY <1>21 DEF Finish
<1>23. CASE ConstructFails
  BY <1>23 DEF ConstructFails
<1>24. CASE Unwind
  BY <1>24 DEF Unwind
<1>25. CASE HookThrows
  BY <1>25 DEF HookThrows
<1>26. CASE ReleaseOld
  BY <1>26 DEF ReleaseOld
<1>22. CASE UNCHANGED vars
  BY <1>22 DEF vars
<1> QED
  BY <1>1, <1>2, <1>3, <1>4, <1>5, <1>6, <1>7, <1>8, <1>9, <1>10, <1>11, <1>12, <1>13, <1>14, <1>15, <1>16, <1>17, <1>18, <1>19, <1>20, <1>21, <1>22,
     <1>23, <1>24, <1>25, <1>26
     DEF Next, ApiStep, FlushStep

LEMMA TimerType == T!TypeOK /\ [T!Next]_timerVars => T!TypeOK'
<1> SUFFICES ASSUME T!TypeOK, [T!Next]_timerVars PROVE T!TypeOK'
  OBVIOUS
<1> USE DEF T!TypeOK, T!WorkerStates, T!OwnerStates
<1>1. CASE T!Start  BY <1>1 DEF T!Start
<1>2. CASE T!Stop  BY <1>2 DEF T!Stop
<1>3. CASE T!Poll  BY <1>3 DEF T!Poll
<1>4. CASE T!DrainSignal  BY <1>4 DEF T!DrainSignal
<1>5. CASE T!DrainDone  BY <1>5 DEF T!DrainDone
<1>6. CASE T!Destroy  BY <1>6 DEF T!Destroy
<1>7. CASE T!EnterLoop  BY <1>7 DEF T!EnterLoop
<1>8. CASE T!EnterWait  BY <1>8 DEF T!EnterWait
<1>9. CASE T!Timeout  BY <1>9 DEF T!Timeout
<1>10. CASE T!CheckStarted  BY <1>10 DEF T!CheckStarted
<1>11. CASE T!Leave  BY <1>11 DEF T!Leave
<1>12. CASE T!RoutineReturns  BY <1>12 DEF T!RoutineReturns
<1>13. CASE T!RoutineThrows  BY <1>13 DEF T!RoutineThrows
<1>14. ASSUME NEW n \in {"api"}, T!Notify(n) PROVE T!TypeOK'
  BY <1>14 DEF T!Notify
<1>15. ASSUME NEW n \in {"api"}, T!Signal(n) PROVE T!TypeOK'
  BY <1>15 DEF T!Signal
<1>17. CASE T!StartFails  BY <1>17 DEF T!StartFails
<1>18. CASE T!PollThrows  BY <1>18 DEF T!PollThrows
<1>16. CASE UNCHANGED timerVars  BY <1>16 DEF timerVars
<1> QED
  BY <1>1, <1>2, <1>3, <1>4, <1>5, <1>6, <1>7, <1>8, <1>9, <1>10, <1>11,
     <1>12, <1>13, <1>14, <1>15, <1>16, <1>17, <1>18 DEF T!Next, T!OwnerStep, T!WorkerLoop

-----------------------------------------------------------------------------
(* Each part of the invariant is preserved by every step.                  *)

LEMMA TypeStep == TypeOK /\ Phases /\ [Next]_vars => TypeOK'
<1> SUFFICES ASSUME TypeOK, Phases, [Next]_vars PROVE TypeOK'
  OBVIOUS
<1>t. T!TypeOK'
  BY UsesTimer, TimerType DEF TypeOK
<1>g. Cur = Len(gens) /\ Cur' = Len(gens') /\ Cur \in Nat
  BY DEF Cur, TypeOK
<1>w. worker = "routine" => gens # <<>> /\ Cur \in 1..Len(gens)
  BY <1>g DEF TypeOK, Phases
<1> USE DEF TypeOK, ApiStates, FlusherStates, queueVars, destVars
<1>c. UNCHANGED gens => Cur' = Cur
  BY DEF Cur
<1>1. CASE Construct
  <2>1. cand = 0 /\ held = 0
    BY <1>1, <1>g DEF Construct, Phases
  <2>2. PICK s \in GenStates : gens' = <<s>>
    BY <1>1 DEF Construct, GenStates
  <2>3. gens' \in Seq(GenStates) /\ gens' # <<>> /\ Cur' = 1
    BY <2>2, <1>g
  <2> QED  BY <1>1, <1>t, <2>1, <2>3 DEF Construct
<1>2. CASE CommitEmpty
  BY <1>2, <1>t, <1>c DEF CommitEmpty
<1>3. ASSUME NEW r \in Record, Commit(r) PROVE TypeOK'
  BY <1>3, <1>t, <1>c DEF Commit
<1>4. CASE SamePath
  BY <1>4, <1>t, <1>c DEF SamePath
<1>5. CASE NewPath
  <2>1. gens' \in Seq(GenStates) /\ gens' # <<>> /\ Cur' = Cur + 1
    BY <1>5, OpenNextType DEF NewPath
  <2> QED  BY <1>5, <1>t, <1>g, <2>1 DEF NewPath
<1>6. CASE NoRoll
  BY <1>6, <1>t, <1>c DEF NoRoll
<1>7. CASE Roll
  <2>1. gens' \in Seq(GenStates) /\ gens' # <<>> /\ Cur' = Cur + 1
    BY <1>7, OpenNextType DEF Roll
  <2> QED  BY <1>7, <1>t, <1>g, <2>1 DEF Roll
<1>8. CASE NotifyNobody
  BY <1>8, <1>t, <1>c DEF NotifyNobody
<1>9. CASE NotifyWorker
  BY <1>9, <1>t, <1>c DEF NotifyWorker
<1>10. CASE SignalWorker
  BY <1>10, <1>t, <1>c DEF SignalWorker
<1>11. CASE Deinit
  BY <1>11, <1>t, <1>c DEF Deinit
<1>12. CASE StopTimer
  BY <1>12, <1>t, <1>c DEF StopTimer
<1>13. CASE Delete
  <2>1. Cur \in 1..Len(gens)
    BY <1>13, <1>g DEF Delete
  <2>2. gens' \in Seq(GenStates) /\ Len(gens') = Len(gens)
    BY <1>13, <2>1, ReleasedType DEF Delete
  <2> QED  BY <1>13, <1>t, <1>g, <2>1, <2>2 DEF Delete
<1>14. CASE WorkerLoop
  BY <1>14, <1>t, <1>c DEF WorkerLoop
<1>15. CASE Throw
  BY <1>15, <1>t, <1>c DEF Throw
<1>16. CASE Swap
  BY <1>16, <1>t, <1>c DEF Swap
<1>17. CASE Load
  BY <1>17, <1>t, <1>w, <1>g, <1>c DEF Load
<1>18. CASE Pin
  <2>1. PICK h \in PinOutcomes : Holding(h)
    BY <1>18 DEF Pin
  <2>2. h \in 0..Cur
    BY <1>g, PinOutcomesType DEF Phases
  <2>3. gens' \in Seq(GenStates) /\ Cur' = Cur /\ held' = h
    BY <2>1, <2>2, HoldingType
  <2>4. Cur # 0
    BY <1>18, <1>w DEF Pin
  <2>5. gens' # <<>>
    BY <1>g, <2>3, <2>4
  <2> QED  BY <1>18, <1>t, <2>2, <2>3, <2>5 DEF Pin
<1>19. CASE Retry
  BY <1>19, <1>t, <1>c DEF Retry
<1>20. CASE Write
  <2> DEFINE e == [rec |-> Head(batch), dest |-> cand, at |-> Cur,
                   lost |-> gens[cand] = "closed"]
  <2>1. batch # <<>> /\ cand # 0
    BY <1>20 DEF Write, Phases
  <2>2. Head(batch) \in Record /\ Tail(batch) \in Seq(Record)
    BY <2>1
  <2>3. e \in LogEntry
    BY <1>20, <1>g, <1>w, <2>1, <2>2 DEF LogEntry, Write
  <2>4. log' \in Seq(LogEntry)
    BY <1>20, <2>3 DEF Write
  <2> QED  BY <1>20, <1>t, <1>c, <2>2, <2>4 DEF Write
<1>21. CASE Finish
  <2>1. Holding(0) /\ 0 \in 0..Cur
    BY <1>21, <1>g DEF Finish
  <2>2. gens' \in Seq(GenStates) /\ Cur' = Cur /\ held' = 0
    BY <2>1, HoldingType
  <2>3. Cur # 0
    BY <1>21, <1>w DEF Finish, Phases
  <2>4. gens' # <<>>
    BY <1>g, <2>2, <2>3
  <2> QED  BY <1>21, <1>t, <1>g, <2>2, <2>4 DEF Finish
<1>23. CASE ConstructFails
  <2>1. cand = 0 /\ held = 0
    BY <1>23, <1>g DEF ConstructFails, Phases
  <2>2. PICK s \in GenStates : gens' = <<s>>
    BY <1>23 DEF ConstructFails, GenStates
  <2>3. gens' \in Seq(GenStates) /\ gens' # <<>> /\ Cur' = 1
    BY <2>2, <1>g
  <2> QED  BY <1>23, <1>t, <2>1, <2>3 DEF ConstructFails
<1>24. CASE Unwind
  BY <1>24, <1>t, <1>c DEF Unwind
<1>25. CASE HookThrows
  BY <1>25, <1>t, <1>c DEF HookThrows
<1>26. CASE ReleaseOld
  <2>1. gens' \in Seq(GenStates) /\ gens' # <<>> /\ Cur' = Cur
    BY <1>26, ReleaseOldType DEF Phases
  <2> QED  BY <1>26, <1>t, <2>1 DEF ReleaseOld
<1>22. CASE UNCHANGED vars
  BY <1>22, <1>t, <1>c DEF vars
<1> QED
  BY <1>1, <1>2, <1>3, <1>4, <1>5, <1>6, <1>7, <1>8, <1>9, <1>10, <1>11,
     <1>12, <1>13, <1>14, <1>15, <1>16, <1>17, <1>18, <1>19, <1>20, <1>21, <1>22,
     <1>23, <1>24, <1>25, <1>26
     DEF Next, ApiStep, FlushStep

LEMMA PhasesStep == TypeOK /\ Phases /\ [Next]_vars => Phases'
<1> SUFFICES ASSUME TypeOK, Phases, [Next]_vars PROVE Phases'
  OBVIOUS
<1>g. Cur = Len(gens) /\ Cur \in Nat
  BY DEF Cur, TypeOK
<1>w. worker = "routine" => Cur # 0
  BY <1>g DEF TypeOK, Phases
<1>c. UNCHANGED gens => Cur' = Cur
  BY DEF Cur
<1>h. ASSUME NEW h \in 0..Cur, Holding(h) PROVE Cur' = Cur
  BY <1>h, HoldingType DEF TypeOK
<1> USE DEF TypeOK, Phases, Assigning, queueVars, destVars, timerVars, vars
<1>1. CASE Construct
  BY <1>1, <1>c DEF Construct, T!Start
<1>2. CASE CommitEmpty
  BY <1>2, <1>c DEF CommitEmpty
<1>3. ASSUME NEW r \in Record, Commit(r) PROVE Phases'
  BY <1>3, <1>c DEF Commit
<1>4. CASE SamePath
  BY <1>4, <1>c DEF SamePath
<1>5. CASE NewPath
  <2>1. Cur' = Cur + 1 /\ Cur # 0
    BY <1>5, <1>g, OpenNextType DEF NewPath
  <2> QED  BY <1>5, <1>g, <2>1 DEF NewPath, OpenNext
<1>6. CASE NoRoll
  BY <1>6, <1>c DEF NoRoll
<1>7. CASE Roll
  <2>1. Cur' = Cur + 1 /\ Cur # 0
    BY <1>7, <1>g, OpenNextType DEF Roll
  <2> QED  BY <1>7, <1>g, <2>1 DEF Roll, OpenNext
<1>8. CASE NotifyNobody
  BY <1>8, <1>c DEF NotifyNobody
<1>9. CASE NotifyWorker
  BY <1>9, <1>c DEF NotifyWorker, T!Notify
<1>10. CASE SignalWorker
  BY <1>10, <1>c DEF SignalWorker, T!Signal
<1>11. CASE Deinit
  BY <1>11, <1>c DEF Deinit, T!Stop
<1>12. CASE StopTimer
  BY <1>12, <1>c DEF StopTimer, T!Poll, T!DrainSignal, T!DrainDone
<1>13. CASE Delete
  BY <1>13, <1>c DEF Delete, T!Destroy
<1>14. CASE WorkerLoop
  BY <1>14, <1>c DEF WorkerLoop, T!WorkerLoop, T!EnterLoop, T!EnterWait, T!Timeout,
          T!CheckStarted, T!Leave
<1>15. CASE Throw
  BY <1>15, <1>c DEF Throw, T!RoutineThrows
<1>16. CASE Swap
  BY <1>16, <1>c DEF Swap
<1>17. CASE Load
  BY <1>17, <1>g, <1>w, <1>c DEF Load
<1>18. CASE Pin
  <2>1. PICK h \in PinOutcomes : Holding(h)
    BY <1>18 DEF Pin
  <2>2. Cur' = Cur
    BY <1>g, <1>h, <2>1, PinOutcomesType
  <2> QED  BY <1>18, <2>2 DEF Pin
<1>19. CASE Retry
  BY <1>19, <1>c DEF Retry
<1>20. CASE Write
  BY <1>20, <1>c DEF Write
<1>21. CASE Finish
  <2>1. Cur' = Cur
    BY <1>21, <1>g, <1>h DEF Finish
  <2> QED  BY <1>21, <2>1 DEF Finish, T!RoutineReturns
<1>23. CASE ConstructFails
  BY <1>23, <1>c DEF ConstructFails, T!StartFails
<1>24. CASE Unwind
  BY <1>24, <1>c DEF Unwind, T!Stop, T!PollThrows
<1>25. CASE HookThrows
  BY <1>25, <1>c DEF HookThrows
<1>26. CASE ReleaseOld
  <2>1. Cur' = Cur
    BY <1>26, ReleaseOldType
  <2> QED  BY <1>26, <2>1 DEF ReleaseOld, Assigning
<1>22. CASE UNCHANGED vars
  BY <1>22, <1>c DEF vars
<1> QED
  BY <1>1, <1>2, <1>3, <1>4, <1>5, <1>6, <1>7, <1>8, <1>9, <1>10, <1>11,
     <1>12, <1>13, <1>14, <1>15, <1>16, <1>17, <1>18, <1>19, <1>20, <1>21, <1>22,
     <1>23, <1>24, <1>25, <1>26
     DEF Next, ApiStep, FlushStep

LEMMA ConservationStep ==
  TypeOK /\ Phases /\ Conservation /\ [Next]_vars => Conservation'
<1> SUFFICES ASSUME TypeOK, Phases, Conservation, [Next]_vars
             PROVE  Conservation'
  OBVIOUS
<1>w. Written \in Seq(Record)
  BY WrittenIsSeq DEF TypeOK
<1>q. /\ batch \in Seq(Record) /\ buffers \in Seq(Record)
      /\ accepted = ((Written \o batch) \o buffers) \o dropped
      /\ Written \o batch \in Seq(Record)
      /\ (Written \o batch) \o buffers \in Seq(Record)
  BY <1>w DEF TypeOK, Conservation
<1>u. UNCHANGED queueVars => Conservation'
  BY DEF Conservation, Written, queueVars
<1>1. CASE Construct
  BY <1>1, <1>u DEF Construct
<1>2. CASE CommitEmpty
  BY <1>2, <1>u DEF CommitEmpty
<1>3. ASSUME NEW r \in Record, Commit(r) PROVE Conservation'
  <2>1. accepted = (Written \o batch) \o buffers
    BY <1>3, <1>q, EmptyConcat DEF Commit, Phases
  <2>2. accepted' = (Written \o batch) \o buffers'
    <3>1. (Written \o batch) \o Append(buffers, r)
            = Append((Written \o batch) \o buffers, r)
      BY <1>3, <1>q, ConcatAppend
    <3> QED  BY <1>3, <2>1, <3>1 DEF Commit
  <2>3. buffers' \in Seq(Record) /\ dropped' = <<>>
    BY <1>3, <1>q DEF Commit, Phases
  <2>4. UNCHANGED <<Written, batch>>
    BY <1>3 DEF Commit, Written
  <2>5. (Written \o batch) \o buffers' \in Seq(Record)
    BY <1>q, <2>3
  <2> QED  BY <2>2, <2>3, <2>4, <2>5, EmptyConcat DEF Conservation
<1>4. CASE SamePath
  BY <1>4, <1>u DEF SamePath
<1>5. CASE NewPath
  BY <1>5, <1>u DEF NewPath
<1>6. CASE NoRoll
  BY <1>6, <1>u DEF NoRoll
<1>7. CASE Roll
  BY <1>7, <1>u DEF Roll
<1>8. CASE NotifyNobody
  BY <1>8, <1>u DEF NotifyNobody
<1>9. CASE NotifyWorker
  BY <1>9, <1>u DEF NotifyWorker
<1>10. CASE SignalWorker
  BY <1>10, <1>u DEF SignalWorker
<1>11. CASE Deinit
  BY <1>11, <1>u DEF Deinit
<1>12. CASE StopTimer
  BY <1>12, <1>u DEF StopTimer
<1>13. CASE Delete
  <2>1. batch = <<>> /\ dropped = <<>>
    BY <1>13 DEF Delete, Phases, T!Destroy
  <2>2. UNCHANGED <<Written, batch, accepted>>
    BY <1>13 DEF Delete, Written
  <2>3. /\ (Written \o batch) \o <<>> = Written \o batch
        /\ ((Written \o batch) \o buffers) \o <<>> = (Written \o batch) \o buffers
    BY <1>q, EmptyConcat
  <2> QED  BY <1>13, <1>q, <2>1, <2>2, <2>3 DEF Delete, Conservation
<1>14. CASE WorkerLoop
  BY <1>14, <1>u DEF WorkerLoop
<1>15. CASE Throw
  BY <1>15, <1>u DEF Throw
<1>16. CASE Swap
  <2>1. batch = <<>> /\ batch' = buffers /\ buffers' = <<>>
        /\ UNCHANGED <<Written, accepted, dropped>>
    BY <1>16 DEF Swap, Phases, Written
  <2>2. Written \o batch = Written /\ (Written \o buffers) \o <<>> = Written \o buffers
    BY <1>w, <1>q, <2>1, EmptyConcat
  <2> QED  BY <1>q, <2>1, <2>2 DEF Conservation
<1>17. CASE Load
  BY <1>17, <1>u DEF Load
<1>18. CASE Pin
  BY <1>18, <1>u DEF Pin
<1>19. CASE Retry
  BY <1>19, <1>u DEF Retry
<1>20. CASE Write
  <2> DEFINE e == [rec |-> Head(batch), dest |-> cand, at |-> Cur,
                   lost |-> gens[cand] = "closed"]
  <2>1. batch # <<>>
    BY <1>20 DEF Write, Phases
  <2>2. e \in LogEntry
    BY <1>20, TypeStep, <2>1 DEF TypeOK, Write, LogEntry, Phases, Cur
  <2>3. Written' = Append(Written, Head(batch))
    BY <1>20, <2>2, WrittenAppend DEF Write, TypeOK
  <2>4. Written' \o batch' = Written \o batch
    BY <1>20, <1>w, <1>q, <2>1, <2>3, MoveHead DEF Write
  <2> QED  BY <1>20, <1>q, <2>4 DEF Write, Conservation
<1>21. CASE Finish
  BY <1>21, <1>u DEF Finish
<1>23. CASE ConstructFails
  BY <1>23, <1>u DEF ConstructFails
<1>24. CASE Unwind
  BY <1>24, <1>u DEF Unwind
<1>25. CASE HookThrows
  BY <1>25, <1>u DEF HookThrows
<1>26. CASE ReleaseOld
  BY <1>26, <1>u DEF ReleaseOld
<1>22. CASE UNCHANGED vars
  BY <1>22, <1>u DEF vars
<1> QED
  BY <1>1, <1>2, <1>3, <1>4, <1>5, <1>6, <1>7, <1>8, <1>9, <1>10, <1>11,
     <1>12, <1>13, <1>14, <1>15, <1>16, <1>17, <1>18, <1>19, <1>20, <1>21, <1>22,
     <1>23, <1>24, <1>25, <1>26
     DEF Next, ApiStep, FlushStep

LEMMA OrderStep ==
  TypeOK /\ Phases /\ LogOrder /\ StaleWriteBound /\ [Next]_vars
    => LogOrder' /\ StaleWriteBound'
<1> SUFFICES ASSUME TypeOK, Phases, LogOrder, StaleWriteBound, [Next]_vars
             PROVE  LogOrder' /\ StaleWriteBound'
  OBVIOUS
<1>t. TypeOK'
  BY TypeStep
<1>g. Cur \in Nat /\ Cur' \in Nat /\ cand \in Nat
  BY <1>t DEF TypeOK, Cur
<1>l. \A i \in DOMAIN log : log[i].dest \in Nat /\ log[i].at \in Nat
  <2>1. \A i \in DOMAIN log : log[i] \in LogEntry
    BY DEF TypeOK
  <2> QED  BY <2>1 DEF LogEntry
<1>c. UNCHANGED gens => Cur' = Cur
  BY DEF Cur
\* A step that neither writes nor moves the worker's pointer.
<1>u. ASSUME UNCHANGED <<log, cand>>, Cur <= Cur',
             flusher' \in {"pin", "write"} => flusher \in {"pin", "write"}
      PROVE  LogOrder' /\ StaleWriteBound'
  BY <1>u, <1>g, <1>l DEF LogOrder, StaleWriteBound
<1> USE DEF queueVars, destVars
<1>1. CASE Construct
  <2>1. Cur = 0
    BY <1>1 DEF Construct, Phases, Cur
  <2> QED  BY <1>1, <2>1, <1>g, <1>u DEF Construct
<1>2. CASE CommitEmpty
  BY <1>2, <1>c, <1>g, <1>u DEF CommitEmpty
<1>3. ASSUME NEW r \in Record, Commit(r) PROVE LogOrder' /\ StaleWriteBound'
  BY <1>3, <1>c, <1>g, <1>u DEF Commit
<1>4. CASE SamePath
  BY <1>4, <1>c, <1>g, <1>u DEF SamePath
<1>5. CASE NewPath
  <2>1. Cur' = Cur + 1
    BY <1>5, OpenNextType DEF NewPath, TypeOK
  <2> QED  BY <1>5, <2>1, <1>g, <1>u DEF NewPath
<1>6. CASE NoRoll
  BY <1>6, <1>c, <1>g, <1>u DEF NoRoll
<1>7. CASE Roll
  <2>1. Cur' = Cur + 1
    BY <1>7, OpenNextType DEF Roll, TypeOK
  <2> QED  BY <1>7, <2>1, <1>g, <1>u DEF Roll
<1>8. CASE NotifyNobody
  BY <1>8, <1>c, <1>g, <1>u DEF NotifyNobody
<1>9. CASE NotifyWorker
  BY <1>9, <1>c, <1>g, <1>u DEF NotifyWorker
<1>10. CASE SignalWorker
  BY <1>10, <1>c, <1>g, <1>u DEF SignalWorker
<1>11. CASE Deinit
  BY <1>11, <1>c, <1>g, <1>u DEF Deinit
<1>12. CASE StopTimer
  BY <1>12, <1>c, <1>g, <1>u DEF StopTimer
<1>13. CASE Delete
  <2>1. Cur' = Cur
    BY <1>13, ReleasedType DEF Delete, TypeOK, Cur
  <2> QED  BY <1>13, <2>1, <1>g, <1>u DEF Delete
<1>14. CASE WorkerLoop
  BY <1>14, <1>c, <1>g, <1>u DEF WorkerLoop
<1>15. CASE Throw
  BY <1>15, <1>c, <1>g, <1>u DEF Throw
<1>16. CASE Swap
  BY <1>16, <1>c, <1>g, <1>u DEF Swap
<1>17. CASE Load
  <2>1. UNCHANGED log /\ cand' = Cur /\ Cur' = Cur
    BY <1>17, <1>c DEF Load
  <2>2. \A i \in DOMAIN log : log[i].dest <= Cur
    BY <1>g, <1>l DEF LogOrder
  <2>3. \A i \in DOMAIN log : log[i].dest = Cur => log[i].at = Cur
    BY <1>g, <1>l DEF LogOrder
  <2> QED  BY <2>1, <2>2, <2>3 DEF LogOrder, StaleWriteBound
<1>18. CASE Pin
  <2>1. PICK h \in PinOutcomes : Holding(h)
    BY <1>18 DEF Pin
  <2>2. h \in 0..Cur
    BY <1>g, PinOutcomesType DEF TypeOK, Phases
  <2>3. Cur' = Cur
    BY <2>1, <2>2, HoldingType DEF TypeOK
  <2> QED  BY <1>18, <2>3, <1>g, <1>u DEF Pin
<1>19. CASE Retry
  BY <1>19, <1>c, <1>g, <1>u DEF Retry
<1>20. CASE Write
  <2> DEFINE n == Len(log) + 1
             e == [rec |-> Head(batch), dest |-> cand, at |-> Cur,
                   lost |-> gens[cand] = "closed"]
  <2>1. UNCHANGED cand /\ Cur' = Cur /\ flusher' = "load" /\ cand <= Cur
    BY <1>20, <1>c DEF Write, TypeOK
  <2>2. log' = Append(log, e) /\ Len(log) \in Nat
    BY <1>20 DEF Write, TypeOK
  <2>3. /\ DOMAIN log = 1..Len(log) /\ DOMAIN log' = 1..n
        /\ \A i \in 1..Len(log) : log'[i] = log[i]
        /\ log'[n].dest = cand /\ log'[n].at = Cur
    BY <2>2 DEF TypeOK
  <2>4. LogOrder'
    BY <1>g, <2>1, <2>2, <2>3 DEF LogOrder
  <2>5. ASSUME NEW i \in DOMAIN log', NEW j \in DOMAIN log', i < j
        PROVE  /\ log'[i].dest <= log'[j].dest
               /\ log'[i].dest = log'[j].dest => log'[i].at = log'[i].dest
    <3>1. i \in 1..Len(log)
      BY <2>2, <2>3, <2>5
    <3>2. CASE j \in 1..Len(log)
      BY <3>1, <3>2, <2>3, <2>5 DEF StaleWriteBound
    <3>3. CASE j = n
      BY <1>20, <3>1, <3>3, <2>3 DEF LogOrder, Write
    <3> QED  BY <3>2, <3>3, <2>2, <2>3
  <2> QED  BY <2>4, <2>5 DEF StaleWriteBound
<1>21. CASE Finish
  <2>1. Holding(0) /\ 0 \in 0..Cur
    BY <1>21, <1>g DEF Finish
  <2>2. Cur' = Cur
    BY <2>1, HoldingType DEF TypeOK
  <2> QED  BY <1>21, <2>2, <1>g, <1>u DEF Finish
<1>23. CASE ConstructFails
  <2>1. Cur = 0
    BY <1>23 DEF ConstructFails, Phases, Cur
  <2> QED  BY <1>23, <2>1, <1>g, <1>u DEF ConstructFails
<1>24. CASE Unwind
  BY <1>24, <1>c, <1>g, <1>u DEF Unwind
<1>25. CASE HookThrows
  BY <1>25, <1>c, <1>g, <1>u DEF HookThrows
<1>26. CASE ReleaseOld
  <2>1. Cur' = Cur
    BY <1>26, ReleaseOldType DEF Phases, TypeOK
  <2> QED  BY <1>26, <2>1, <1>g, <1>u DEF ReleaseOld
<1>22. CASE UNCHANGED vars
  BY <1>22, <1>c, <1>g, <1>u DEF vars
<1> QED
  BY <1>1, <1>2, <1>3, <1>4, <1>5, <1>6, <1>7, <1>8, <1>9, <1>10, <1>11,
     <1>12, <1>13, <1>14, <1>15, <1>16, <1>17, <1>18, <1>19, <1>20, <1>21, <1>22,
     <1>23, <1>24, <1>25, <1>26
     DEF Next, ApiStep, FlushStep

LEMMA InitIInv == Init => IInv
<1> SUFFICES ASSUME Init PROVE IInv
  OBVIOUS
<1>1. Cur = 0 /\ Written = <<>>
  BY DEF Init, Cur, Written
<1>2. TypeOK
  <2>1. T!TypeOK
    BY DEF Init, T!Init, T!TypeOK, T!WorkerStates, T!OwnerStates
  <2>2. cand \in 0..Cur /\ held \in 0..Cur
    BY <1>1 DEF Init
  <2> QED  BY <2>1, <2>2 DEF Init, TypeOK, ApiStates, FlusherStates
<1>3. Phases
  BY DEF Init, Phases, Assigning, T!Init
<1>4. Conservation
  BY <1>1 DEF Init, Conservation
<1>5. LogOrder /\ StaleWriteBound
  BY DEF Init, LogOrder, StaleWriteBound
<1> QED  BY <1>2, <1>3, <1>4, <1>5 DEF IInv

LEMMA NextIInv == IInv /\ [Next]_vars => IInv'
BY TypeStep, PhasesStep, ConservationStep, OrderStep DEF IInv

\* The inductive invariant holds in every reachable state.
THEOREM Invariance == Spec => []IInv
BY InitIInv, NextIInv, PTL DEF Spec

\* The state of the logger keeps its type; in particular the worker never
\* uses a destination that was never made.
THEOREM TypeCorrect == Spec => []TypeOK
<1>1. IInv => TypeOK  BY DEF IInv
<1> QED  BY <1>1, Invariance, PTL

\* No record is lost, duplicated or overtaken on its way from do_commit() to
\* flush_buffers() (async_logger.cpp).
THEOREM NothingLost == Spec => []Conservation
<1>1. IInv => Conservation  BY DEF IInv
<1> QED  BY <1>1, Invariance, PTL

\* At most one record follows the replacement of its destination into it
\* (async_logger.cpp, flush_buffers, against basic_logger.cpp, flush).
THEOREM StaleWritesBounded == Spec => []StaleWriteBound
<1>1. IInv => StaleWriteBound  BY DEF IInv
<1> QED  BY <1>1, Invariance, PTL

-----------------------------------------------------------------------------
(* The refinement: one step of the logger is one step of LogPipe, or       *)
(* changes nothing it speaks of.                                           *)

LEMMA NextOfConcat ==
  ASSUME NEW S, NEW w \in Seq(S), NEW b \in Seq(S), NEW c \in Seq(S),
         NEW d \in Seq(S), b # <<>>
  PROVE  /\ Len(w) < Len(((w \o b) \o c) \o d)
         /\ (((w \o b) \o c) \o d)[Len(w) + 1] = Head(b)
<1>1. w \o b \in Seq(S) /\ Len(w \o b) = Len(w) + Len(b) /\ Len(b) > 0
      /\ (w \o b)[Len(w) + 1] = Head(b)
  OBVIOUS
<1>2. /\ (w \o b) \o c \in Seq(S)
      /\ Len((w \o b) \o c) = Len(w \o b) + Len(c)
      /\ ((w \o b) \o c)[Len(w) + 1] = (w \o b)[Len(w) + 1]
  BY <1>1
<1>3. /\ Len(((w \o b) \o c) \o d) = Len((w \o b) \o c) + Len(d)
      /\ (((w \o b) \o c) \o d)[Len(w) + 1] = ((w \o b) \o c)[Len(w) + 1]
  BY <1>1, <1>2
<1> QED  BY <1>1, <1>2, <1>3

LEMMA RefinesInit == Init => Pipe!Init
BY DEF Init, Pipe!Init, Written

LEMMA RefinesNext == IInv /\ [Next]_vars => [Pipe!Next]_(Pipe!vars)
<1> SUFFICES ASSUME IInv, [Next]_vars PROVE [Pipe!Next]_(Pipe!vars)
  OBVIOUS
<1>i. TypeOK /\ Phases /\ Conservation
  BY DEF IInv
<1>u. ASSUME UNCHANGED <<accepted, log>>, api # "gone", api' # "gone"
      PROVE  UNCHANGED Pipe!vars
  BY <1>u DEF Pipe!vars, Written
<1>v. ASSUME UNCHANGED <<accepted, log, api>>
      PROVE  UNCHANGED Pipe!vars
  BY <1>v DEF Pipe!vars, Written
<1> USE DEF queueVars
<1>1. CASE Construct
  BY <1>1, <1>u, <1>v DEF Construct
<1>2. CASE CommitEmpty
  BY <1>2, <1>u, <1>v DEF CommitEmpty
<1>3. ASSUME NEW r \in Record, Commit(r) PROVE [Pipe!Next]_(Pipe!vars)
  <2>1. Pipe!Accept(r)
    BY <1>3 DEF Commit, Pipe!Accept, Written
  <2> QED  BY <2>1 DEF Pipe!Next
<1>4. CASE SamePath
  BY <1>4, <1>u, <1>v DEF SamePath
<1>5. CASE NewPath
  BY <1>5, <1>u, <1>v DEF NewPath
<1>6. CASE NoRoll
  BY <1>6, <1>u, <1>v DEF NoRoll
<1>7. CASE Roll
  BY <1>7, <1>u, <1>v DEF Roll
<1>8. CASE NotifyNobody
  BY <1>8, <1>u, <1>v DEF NotifyNobody
<1>9. CASE NotifyWorker
  BY <1>9, <1>u, <1>v DEF NotifyWorker
<1>10. CASE SignalWorker
  BY <1>10, <1>u, <1>v DEF SignalWorker
<1>11. CASE Deinit
  BY <1>11, <1>u, <1>v DEF Deinit
<1>12. CASE StopTimer
  BY <1>12, <1>u, <1>v DEF StopTimer
<1>13. CASE Delete
  <2>1. Pipe!Close
    BY <1>13 DEF Delete, Pipe!Close, Written
  <2> QED  BY <2>1 DEF Pipe!Next
<1>14. CASE WorkerLoop
  BY <1>14, <1>u, <1>v DEF WorkerLoop
<1>15. CASE Throw
  BY <1>15, <1>u, <1>v DEF Throw
<1>16. CASE Swap
  BY <1>16, <1>u, <1>v DEF Swap
<1>17. CASE Load
  BY <1>17, <1>u, <1>v DEF Load
<1>18. CASE Pin
  BY <1>18, <1>u, <1>v DEF Pin
<1>19. CASE Retry
  BY <1>19, <1>u, <1>v DEF Retry
<1>20. CASE Write
  <2> DEFINE e == [rec |-> Head(batch), dest |-> cand, at |-> Cur,
                   lost |-> gens[cand] = "closed"]
  <2>1. batch # <<>> /\ api # "gone" /\ UNCHANGED <<api, accepted>>
    BY <1>20, <1>i DEF Write, Phases
  <2>2. e \in LogEntry
    BY <1>20, <1>i, <2>1 DEF TypeOK, Write, LogEntry, Phases, Cur
  <2>3. Written' = Append(Written, Head(batch))
    BY <1>20, <1>i, <2>2, WrittenAppend DEF Write, TypeOK
  <2>4. Written \in Seq(Record)
    BY <1>i, WrittenIsSeq DEF TypeOK
  <2>5. Len(Written) < Len(accepted) /\ accepted[Len(Written) + 1] = Head(batch)
    <3>1. batch \in Seq(Record) /\ buffers \in Seq(Record) /\ dropped \in Seq(Record)
      BY <1>i DEF TypeOK
    <3>2. accepted = ((Written \o batch) \o buffers) \o dropped
      BY <1>i DEF Conservation
    <3> QED  BY <2>1, <2>4, <3>1, <3>2, NextOfConcat
  <2>6. Pipe!Emit
    BY <2>1, <2>3, <2>5 DEF Pipe!Emit
  <2> QED  BY <2>6 DEF Pipe!Next
<1>21. CASE Finish
  BY <1>21, <1>u, <1>v DEF Finish
<1>23. CASE ConstructFails
  BY <1>23, <1>u, <1>v DEF ConstructFails
<1>24. CASE Unwind
  BY <1>24, <1>u, <1>v DEF Unwind
<1>25. CASE HookThrows
  BY <1>25, <1>u, <1>v DEF HookThrows
<1>26. CASE ReleaseOld
  BY <1>26, <1>u, <1>v DEF ReleaseOld, Assigning
<1>22. CASE UNCHANGED vars
  BY <1>22, <1>v DEF vars
<1> QED
  BY <1>1, <1>2, <1>3, <1>4, <1>5, <1>6, <1>7, <1>8, <1>9, <1>10, <1>11,
     <1>12, <1>13, <1>14, <1>15, <1>16, <1>17, <1>18, <1>19, <1>20, <1>21, <1>22,
     <1>23, <1>24, <1>25, <1>26
     DEF Next, ApiStep, FlushStep

\* The asynchronous logger writes what was committed, in order, at most once
\* and not after its deletion (async_logger.cpp, the whole class).
THEOREM Refinement == Spec => ImplementsLogPipe
BY RefinesInit, RefinesNext, Invariance, PTL
   DEF Spec, ImplementsLogPipe, Pipe!Spec
=============================================================================
