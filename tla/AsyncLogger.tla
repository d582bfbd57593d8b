---------------------------- MODULE AsyncLogger ----------------------------
(***************************************************************************)
(* The asynchronous logger (src/src/async_logger.cpp) on top of            *)
(* basic_logger (src/src/basic_logger.cpp) and the timer: one logger, from *)
(* its construction by the first record to its deletion by ezlog_deinit.   *)
(*                                                                         *)
(* Two threads meet here. The calling thread, "api", commits records; the  *)
(* calls of the library are serialised by g_mutex, so one thread stands    *)
(* for all callers. The worker thread of the timer runs flush_buffers().   *)
(* They share the queue _buffers, which a mutex protects, and the pointer  *)
(* basic_logger::_dest, which nothing protects: flush() replaces it while  *)
(* flush_buffers() copies it.                                              *)
(*                                                                         *)
(* Each destination object that _dest ever points to is a generation, and  *)
(* gens[g] tells whether its file is open, could not be opened, or has     *)
(* been closed because the last reference to the object went away.         *)
(***************************************************************************)
EXTENDS Naturals, Sequences, SequencesExt

CONSTANTS
  Record,    \* the records the program may log, each at most once
  MaxGens,   \* bound: how many destinations _dest goes through
  MayThrow   \* flush_buffers() may run out of memory before it swaps

ASSUME AsyncAssumption ==
  MaxGens \in Nat /\ MayThrow \in BOOLEAN

VARIABLES
  started, running, worker, owner, notifier,  \* the timer
  api,       \* where the calling thread is
  buffers,   \* async_logger::_buffers
  batch,     \* the local queue of flush_buffers()
  flusher,   \* where the worker is in flush_buffers()
  gens,      \* the state of every destination; _dest is the last one
  cand,      \* the destination the worker's local `dest` points to
  held,      \* the destination the worker's `dest` keeps alive, 0 if none
  accepted,  \* history: the records do_commit() queued
  log,       \* history: the records handed to fwrite
  dropped    \* history: the records destroyed in _buffers

timerVars == <<started, running, worker, owner, notifier>>
queueVars == <<buffers, batch, accepted, log, dropped>>
destVars  == <<gens, cand, held>>
vars == <<timerVars, queueVars, destVars, api, flusher>>

T == INSTANCE Timer WITH Notifiers <- {"api"}

ApiStates     == {"none", "unwind", "ready", "path", "redirect", "roll", "reopen",
                  "notify", "signal", "deinit", "gone"}
FlusherStates == {"swap", "load", "pin", "write"}
GenStates     == {"open", "failed", "closed"}

Cur      == Len(gens)
Writable == gens[Cur] = "open"

\* dest: the generation written through; at: the one _dest pointed to then;
\* lost: the file had been closed already.
LogEntry == [rec : Record, dest : Nat \ {0}, at : Nat \ {0}, lost : BOOLEAN]

TypeOK ==
  /\ T!TypeOK
  /\ api \in ApiStates
  /\ flusher \in FlusherStates
  /\ buffers \in Seq(Record) /\ batch \in Seq(Record)
  /\ accepted \in Seq(Record) /\ dropped \in Seq(Record)
  /\ gens \in Seq(GenStates) /\ (api # "none" => gens # <<>>)
  /\ cand \in 0..Cur /\ held \in 0..Cur
  /\ log \in Seq(LogEntry)

(***************************************************************************)
(* A reference goes away: the destination g is closed if it was open.      *)
(***************************************************************************)
Closed(s) == IF s = "open" THEN "closed" ELSE s

Released(gs, g) == [gs EXCEPT ![g] = Closed(@)]

(***************************************************************************)
(* _dest = make_shared<destination>(path): the new file is opened, or not, *)
(* and _dest points to the new destination. The reference count follows    *)
(* the pointer, and then the old destination is released: until ReleaseOld *)
(* the caller keeps both alive.                                            *)
(***************************************************************************)
Assigning == api \in {"redirect", "reopen"}

OpenNext == \E s \in {"open", "failed"} : gens' = Append(gens, s)

Kept == IF Assigning THEN {Cur - 1, Cur} ELSE {Cur}

\* The worker's `dest` keeps h alive from now on, and no other destination.
Holding(h) ==
  /\ held' = h
  /\ gens' = IF held \in {0, h} \cup Kept THEN gens ELSE Released(gens, held)

-----------------------------------------------------------------------------
(* Fault variants of the actions below: what the code would do with the    *)
(* named mistake in it. Runs replace one action by its fault.              *)

\* The constructor starts the timer but leaves _dest null.
Fault_ConstructWithoutDest ==
  /\ api = "none"
  /\ T!Start
  /\ api' = "ready"
  /\ UNCHANGED <<queueVars, destVars, flusher>>

\* flush_buffers() copies the queue instead of swapping it.
Fault_SwapCopies ==
  /\ worker = "routine"
  /\ flusher = "swap"
  /\ batch' = buffers
  /\ flusher' = "load"
  /\ UNCHANGED <<timerVars, destVars, api, buffers, accepted, log, dropped>>

\* `dest = _dest` is moved out of the loop over the records.
Fault_LoadOncePerBatch ==
  /\ worker = "routine"
  /\ flusher = "load"
  /\ batch # <<>>
  /\ cand' = IF held = 0 THEN Cur ELSE held
  /\ flusher' = IF held = 0 THEN "pin" ELSE "write"
  /\ UNCHANGED <<timerVars, queueVars, gens, held, api>>

\* The destructor forgets to stop the timer.
Fault_DeinitWithoutStop ==
  /\ api = "ready"
  /\ api' = "gone"
  /\ dropped' = buffers
  /\ buffers' = <<>>
  /\ gens' = IF held = Cur THEN gens ELSE Released(gens, Cur)
  /\ UNCHANGED <<timerVars, cand, held, batch, flusher, accepted, log>>

-----------------------------------------------------------------------------
Init ==
  /\ T!Init
  /\ api = "none"
  /\ flusher = "swap"
  /\ gens = <<>> /\ cand = 0 /\ held = 0
  /\ buffers = <<>> /\ batch = <<>>
  /\ accepted = <<>> /\ log = <<>> /\ dropped = <<>>

-----------------------------------------------------------------------------
(* The calling thread.                                                     *)

\* The constructors: the first destination is opened, the timer started.
Construct ==
  /\ api = "none"
  /\ T!Start
  /\ \E s \in {"open", "failed"} : gens' = <<s>>
  /\ api' = "ready"
  /\ UNCHANGED <<queueVars, cand, held, flusher>>

\* The timer cannot make its thread: the exception takes the half-made logger
\* apart, beginning with the timer, whose destructor stops what never started.
ConstructFails ==
  /\ api = "none"
  /\ T!StartFails
  /\ \E s \in {"open", "failed"} : gens' = <<s>>
  /\ api' = "unwind"
  /\ UNCHANGED <<queueVars, cand, held, flusher>>

Unwind ==
  /\ api = "unwind"
  /\ T!Stop \/ T!PollThrows
  /\ UNCHANGED <<queueVars, destVars, api, flusher>>

\* commit() of a record: do_commit() queues it. With a destination that is
\* not writable, or a record the encoder refuses, commit() does nothing.
Commit(r) ==
  /\ api = "ready"
  /\ Writable
  /\ r \notin ToSet(accepted)
  /\ accepted' = Append(accepted, r)
  /\ buffers' = Append(buffers, r)
  /\ api' = "path"
  /\ UNCHANGED <<timerVars, destVars, flusher, batch, log, dropped>>

\* commit() of a record that is encoded to nothing queues nothing but flushes.
CommitEmpty ==
  /\ api = "ready"
  /\ Writable
  /\ api' = "path"
  /\ UNCHANGED <<timerVars, queueVars, destVars, flusher>>

\* flush(): the path hook returned the path in use.
SamePath ==
  /\ api = "path"
  /\ api' = "roll"
  /\ UNCHANGED <<timerVars, queueVars, destVars, flusher>>

\* flush(): it returned another one.
NewPath ==
  /\ api = "path"
  /\ Cur < MaxGens
  /\ OpenNext
  /\ api' = "redirect"
  /\ UNCHANGED <<timerVars, queueVars, cand, held, flusher>>

\* flush(): rolling is off or the roll hook said no.
NoRoll ==
  /\ api = "roll"
  /\ api' = "notify"
  /\ UNCHANGED <<timerVars, queueVars, destVars, flusher>>

\* flush(): the file is renamed, or not, and the path opened anew.
Roll ==
  /\ api = "roll"
  /\ Cur < MaxGens
  /\ OpenNext
  /\ api' = "reopen"
  /\ UNCHANGED <<timerVars, queueVars, cand, held, flusher>>

\* The assignment of _dest ends: the destination before is closed unless the
\* worker keeps it alive.
ReleaseOld ==
  /\ Assigning
  /\ gens' = IF held = Cur - 1 THEN gens ELSE Released(gens, Cur - 1)
  /\ api' = IF api = "redirect" THEN "roll" ELSE "notify"
  /\ UNCHANGED <<timerVars, queueVars, cand, held, flusher>>

\* flush(): a hook throws, or the path it returns is NULL, which the string made
\* of it does not take. The record is queued, but nobody is notified.
HookThrows ==
  /\ api \in {"path", "roll"}
  /\ api' = "ready"
  /\ UNCHANGED <<timerVars, queueVars, destVars, flusher>>

\* do_flush() calls timer::notify(), which does nothing unless _running ...
NotifyNobody ==
  /\ api = "notify"
  /\ ~running
  /\ api' = "ready"
  /\ UNCHANGED <<timerVars, queueVars, destVars, flusher>>

NotifyWorker ==
  /\ api = "notify"
  /\ T!Notify("api")
  /\ api' = "signal"
  /\ UNCHANGED <<queueVars, destVars, flusher>>

\* ... and otherwise signals the condition variable.
SignalWorker ==
  /\ api = "signal"
  /\ T!Signal("api")
  /\ api' = "ready"
  /\ UNCHANGED <<queueVars, destVars, flusher>>

\* ezlog_deinit() deletes the logger: ~async_logger() stops the timer ...
Deinit ==
  /\ api = "ready"
  /\ T!Stop
  /\ api' = "deinit"
  /\ UNCHANGED <<queueVars, destVars, flusher>>

StopTimer ==
  /\ api = "deinit"
  /\ T!Poll \/ T!DrainSignal \/ T!DrainDone
  /\ UNCHANGED <<queueVars, destVars, api, flusher>>

\* ... and its members go: what is left in _buffers, the timer, and _dest.
Delete ==
  /\ api = "deinit"
  /\ T!Destroy
  /\ dropped' = buffers
  /\ buffers' = <<>>
  /\ gens' = Released(gens, Cur)
  /\ api' = "gone"
  /\ UNCHANGED <<cand, held, batch, flusher, accepted, log>>

-----------------------------------------------------------------------------
(* The worker thread: the loop of the timer, and flush_buffers().          *)

WorkerLoop ==
  /\ T!WorkerLoop
  /\ UNCHANGED <<queueVars, destVars, api, flusher>>

\* The local queue cannot be allocated.
Throw ==
  /\ flusher = "swap"
  /\ T!RoutineThrows
  /\ UNCHANGED <<queueVars, destVars, api, flusher>>

\* swap(_buffers, buffers), under the mutex.
Swap ==
  /\ worker = "routine"
  /\ flusher = "swap"
  /\ batch' = buffers
  /\ buffers' = <<>>
  /\ flusher' = "load"
  /\ UNCHANGED <<timerVars, destVars, api, accepted, log, dropped>>

\* dest = _dest, first half: the pointer is read.
Load ==
  /\ worker = "routine"
  /\ flusher = "load"
  /\ batch # <<>>
  /\ cand' = Cur
  /\ flusher' = "pin"
  /\ UNCHANGED <<timerVars, queueVars, gens, held, api>>

(***************************************************************************)
(* Second half: a reference is taken and the previous one released. The    *)
(* count is read after the pointer, while _dest may be replaced, and so it *)
(* is the count of any destination from the candidate to the current one,  *)
(* or, with the pointer replaced and the count not yet, of the one before. *)
(* The reference keeps that destination alive, which need not be the one   *)
(* pointed to; it keeps none alive when the count was freed meanwhile.     *)
(***************************************************************************)
PinOutcomes ==
  LET counted == (cand..Cur) \cup Kept
  IN  (counted \cap (Kept \cup {held}))
        \cup IF counted \subseteq {Cur, held} THEN {} ELSE {0}

Pin ==
  /\ worker = "routine"
  /\ flusher = "pin"
  /\ \E h \in PinOutcomes : Holding(h)
  /\ flusher' = "write"
  /\ UNCHANGED <<timerVars, queueVars, cand, api>>

\* The destination is not writable: the loop reads _dest again. Whether a
\* destination that was destroyed meanwhile looks writable is anybody's guess.
Retry ==
  /\ worker = "routine"
  /\ flusher = "write"
  /\ gens[cand] # "open"
  /\ flusher' = "load"
  /\ UNCHANGED <<timerVars, queueVars, destVars, api>>

\* One record is written and flushed, and popped.
Write ==
  /\ worker = "routine"
  /\ flusher = "write"
  /\ gens[cand] # "failed"
  /\ log' = Append(log, [rec |-> Head(batch), dest |-> cand, at |-> Cur,
                         lost |-> gens[cand] = "closed"])
  /\ batch' = Tail(batch)
  /\ flusher' = "load"
  /\ UNCHANGED <<timerVars, destVars, api, buffers, accepted, dropped>>

\* All written: flush_buffers() returns and its `dest` goes away.
Finish ==
  /\ flusher = "load"
  /\ batch = <<>>
  /\ T!RoutineReturns
  /\ Holding(0)
  /\ flusher' = "swap"
  /\ UNCHANGED <<queueVars, cand, api>>

-----------------------------------------------------------------------------
ApiStep ==
  \/ Construct \/ ConstructFails \/ Unwind
  \/ CommitEmpty \/ (\E r \in Record : Commit(r))
  \/ SamePath \/ NewPath \/ NoRoll \/ Roll \/ ReleaseOld \/ HookThrows
  \/ NotifyNobody \/ NotifyWorker \/ SignalWorker
  \/ Deinit \/ StopTimer \/ Delete

FlushStep == Swap \/ Load \/ Pin \/ Retry \/ Write \/ Finish

Next == ApiStep \/ WorkerLoop \/ Throw \/ FlushStep

(***************************************************************************)
(* Every thread that can take a step eventually does: the worker, and a    *)
(* call that has begun, deletion included. Nobody has to call anything.    *)
(***************************************************************************)
Fairness ==
  /\ T!WorkerFairness
  /\ WF_vars(FlushStep)
  /\ WF_vars(SamePath \/ NewPath)
  /\ WF_vars(NoRoll \/ Roll)
  /\ WF_vars(ReleaseOld)
  /\ WF_vars(NotifyNobody \/ NotifyWorker)
  /\ WF_vars(SignalWorker)
  /\ T!StopFairness
  /\ WF_vars(Delete)

Spec == Init /\ [][Next]_vars /\ Fairness

-----------------------------------------------------------------------------
(* Properties.                                                             *)

Written == [i \in DOMAIN log |-> log[i].rec]

\* The routine has thrown, and the thread is gone.
Threw == T!Threw

(***************************************************************************)
(* Between do_commit() and fwrite() no record is lost, duplicated or       *)
(* overtaken, however commits, swaps and the end of the timer interleave:  *)
(* each is written, in the worker's hands, queued, or was still queued     *)
(* when the logger was deleted, in the order of the commits.               *)
(***************************************************************************)
Conservation == accepted = Written \o batch \o buffers \o dropped

(***************************************************************************)
(* Rolling or redirecting the log while the worker writes: the worker      *)
(* reads _dest again for each record, so at most one record follows the    *)
(* replacement of a destination into it, and the worker never goes back to *)
(* an older destination.                                                   *)
(***************************************************************************)
StaleWriteBound ==
  \A i, j \in DOMAIN log :
    i < j => /\ log[i].dest <= log[j].dest
             /\ log[i].dest = log[j].dest => log[i].at = log[i].dest

(***************************************************************************)
(* A record the worker has taken is written, whatever else happens, the    *)
(* deletion of the logger included. A record in _buffers is written too if *)
(* async_log_update_interval is finite, although a signal sent while the   *)
(* worker is busy is lost, and none is sent when a hook throws; or else    *)
(* ezlog_deinit() finds it still queued and drops it (see DeinitDrains).   *)
(* Of neither is this so when the destination cannot be opened, after      *)
(* which the worker waits for another one that may never come, or when the *)
(* routine has thrown.                                                     *)
(***************************************************************************)
Stuck == Threw \/ (gens # <<>> /\ gens[Cur] = "failed")

EventuallyWritten ==
  \A r \in Record :
    /\ r \in ToSet(batch) ~> (r \in ToSet(Written) \/ Stuck)
    /\ WF_timerVars(T!Timeout) =>
         (r \in ToSet(buffers) ~>
            (r \in ToSet(Written) \/ r \in ToSet(dropped) \/ Stuck))

(***************************************************************************)
(* ezlog_deinit() returns from whatever point the worker is at, though the *)
(* interval may never elapse, unless the destination cannot be opened or   *)
(* the routine threw.                                                      *)
(***************************************************************************)
DeinitReturns == api = "deinit" ~> (api = "gone" \/ Stuck)

(***************************************************************************)
(* The asynchronous logger implements LogPipe.                             *)
(***************************************************************************)
Pipe == INSTANCE LogPipe WITH written <- Written, open <- api # "gone"

ImplementsLogPipe == Pipe!Spec

(***************************************************************************)
(* include/ezlog.h:179 promises that ezlog_deinit() outputs what is left   *)
(* in the asynchronous buffer. It does not: the worker leaves its loop as  *)
(* soon as it is told to, without another run of flush_buffers().          *)
(***************************************************************************)
DeinitDrains == dropped = <<>>

(***************************************************************************)
(* include/ezlog.h:179 promises that ezlog_deinit() releases the library's *)
(* resources. When the destination could not be opened after a record was  *)
(* queued, the worker spins in flush_buffers() waiting for another one     *)
(* that no call will provide, and ezlog_deinit() waits for the worker.     *)
(***************************************************************************)
DeinitAlwaysReturns == api = "deinit" ~> api = "gone"

(***************************************************************************)
(* README.md:5 promises asynchronous output and rolling logs. Together     *)
(* they may lose a record: the worker copies _dest while flush() replaces  *)
(* it, and writes through a destination whose file has been closed.        *)
(***************************************************************************)
WritesToOpenFile == \A i \in DOMAIN log : ~log[i].lost
=============================================================================
