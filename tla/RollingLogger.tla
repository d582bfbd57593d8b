--------------------------- MODULE RollingLogger ---------------------------
(***************************************************************************)
(* The synchronous logger (src/src/logger.cpp) on top of basic_logger and  *)
(* destination (src/src/basic_logger.cpp, destination.cpp), together with  *)
(* the files it leaves behind: one record at a time goes through commit()  *)
(* and flush(), the output path may change, the file may be rolled, and    *)
(* the process may die between any two steps and be started again.         *)
(*                                                                         *)
(* Records are the numbers 1, 2, ... in the order of their commits. A file *)
(* is the sequence of its records; a file that is absent is empty. What    *)
(* fwrite() takes stays in the stream's buffer, which is lost when the     *)
(* process dies, until the stream is flushed, closed or measured.          *)
(***************************************************************************)
EXTENDS Integers, Sequences, SequencesExt

CONSTANTS
  Path,        \* what the path hook may answer
  Console,     \* of these, the standard streams "$stdout" and "$stderr"
  Unrollable,  \* of these, the paths whose last dot is in a directory's name
  NoPath,      \* the path of a destination that could not be opened
  Slots,       \* how many rolled files a path has; the code's 5
  Rolling,     \* ezlog_config_st::enable_rolling_log
  MaxRecords,  \* bound: records committed
  MaxRestarts  \* bound: how often the logger is made anew

ASSUME RollingAssumption ==
  /\ Console \subseteq Path /\ Unrollable \subseteq Path /\ NoPath \notin Path
  /\ Slots \in Nat \ {0} /\ Rolling \in BOOLEAN
  /\ MaxRecords \in Nat /\ MaxRestarts \in Nat

VARIABLES
  pc,        \* where the calling thread is
  path,      \* _dest->get_path(), NoPath if the destination is not writable
  target,    \* flush()'s local copy of the path, NoPath when it is not needed
  idx,       \* basic_logger::_roll_index
  buf,       \* what the stream of a path holds back
  live,      \* the file at a path
  present,   \* the paths at which there is a file
  rolled,    \* the files a path was rolled to, by index
  count,     \* history: how many records commit() took
  erased,    \* history: the records of the rolled files that were replaced
  lost,      \* history: the records that died in a buffer
  starts,    \* history: how often the logger was made
  threw,     \* history: an exception of a hook has cut the last flush() short
  inTurn     \* history: while a path had rolled files, the index moved only
             \* because its own file was renamed

destVars == <<path, target, idx>>
fileVars == <<buf, live, present, rolled>>
histVars == <<count, erased, lost, starts, threw, inTurn>>
vars == <<pc, destVars, fileVars, histVars>>

Index == 0..(Slots - 1)

TypeOK ==
  /\ pc \in {"down", "idle", "path", "roll", "reopen", "flush"}
  /\ path \in Path \cup {NoPath} /\ target \in Path \cup {NoPath}
  /\ idx \in Index
  /\ buf \in [Path -> Seq(1..MaxRecords)]
  /\ live \in [Path -> Seq(1..MaxRecords)] /\ present \subseteq Path
  /\ rolled \in [Path -> [Index -> Seq(1..MaxRecords)]]
  /\ count \in 0..MaxRecords
  /\ erased \in [Path -> SUBSET (1..MaxRecords)]
  /\ lost \subseteq 1..MaxRecords
  /\ starts \in 0..MaxRestarts + 1
  /\ threw \in BOOLEAN
  /\ inTurn \in [Path -> BOOLEAN]

-----------------------------------------------------------------------------
(* The C library, as destination and logger use it.                        *)

\* _dest becomes a destination for p: fopen(p, "a+"), which truncates nothing
\* and may fail, or one of the standard streams.
OpenDest(p) ==
  \/ path' = p /\ present' = present \cup {p}
  \/ p \notin Console /\ path' = NoPath /\ UNCHANGED present

\* The buffers of the streams in ps go to their files.
Drained(ps) ==
  /\ live' = [p \in Path |-> IF p \in ps THEN live[p] \o buf[p] ELSE live[p]]
  /\ buf'  = [p \in Path |-> IF p \in ps THEN <<>> ELSE buf[p]]

\* A file is closed with its destination, a standard stream is not.
Closing == {path} \ (Console \cup {NoPath})

-----------------------------------------------------------------------------
(* Fault variants of the actions below: what the code would do with the    *)
(* named mistake in it. Runs replace one action by its fault.              *)

\* The index is not wrapped round after the last rolled file.
Fault_NextIndexUnwrapped == idx + 1

\* fopen(p, "w+"): the rolled file is there, but so is a truncated live one.
Fault_ReopenTruncates ==
  /\ pc = "reopen"
  /\ OpenDest(target)
  /\ live' = [live EXCEPT ![target] = <<>>]
  /\ target' = NoPath
  /\ pc' = "flush"
  /\ UNCHANGED <<idx, buf, rolled, histVars>>

\* The old destination is leaked when the path changes.
Fault_NewPathLeaks ==
  /\ pc = "path"
  /\ \E p \in Path \ {path} : target' = p /\ OpenDest(p)
  /\ pc' = "roll"
  /\ UNCHANGED <<idx, buf, live, rolled, histVars>>

\* The index stops at its last value instead of starting again.
Fault_NextIndexSaturates == IF idx = Slots - 1 THEN idx ELSE idx + 1

-----------------------------------------------------------------------------
NextIndex == (idx + 1) % Slots

\* The index is moved and is not the next one any more for the paths in ps.
IndexMoves(ps) ==
  inTurn' = [p \in Path |-> inTurn[p] /\
               (p \in ps => \A i \in Index : rolled[p][i] = <<>>)]

Init ==
  /\ pc = "down" /\ path = NoPath /\ target = NoPath /\ idx = 0
  /\ buf = [p \in Path |-> <<>>] /\ live = [p \in Path |-> <<>>] /\ present = {}
  /\ rolled = [p \in Path |-> [i \in Index |-> <<>>]]
  /\ count = 0 /\ erased = [p \in Path |-> {}] /\ lost = {} /\ starts = 0
  /\ threw = FALSE /\ inTurn = [p \in Path |-> TRUE]

\* The constructor: the first destination, and rolling from index 0.
Construct ==
  /\ pc = "down"
  /\ starts <= MaxRestarts
  /\ \E p \in Path : OpenDest(p)
  /\ idx' = 0
  /\ pc' = "idle"
  /\ starts' = starts + 1
  /\ IndexMoves(Path)
  /\ UNCHANGED <<target, buf, live, rolled, count, erased, lost, threw>>

-----------------------------------------------------------------------------
(* commit() and flush().                                                   *)

\* commit(): do_commit() writes the record to the stream in use. What the
\* path hook answers now is asked for afterwards. With a destination that is
\* not writable commit() and flush() do nothing: the hook is not asked again.
Commit ==
  /\ pc = "idle"
  /\ path # NoPath
  /\ count < MaxRecords
  /\ count' = count + 1
  /\ buf' = [buf EXCEPT ![path] = Append(@, count + 1)]
  /\ pc' = "path"
  /\ UNCHANGED <<destVars, live, present, rolled>>
  /\ UNCHANGED <<erased, lost, starts, threw, inTurn>>

\* A record that is encoded to nothing writes nothing but flushes.
CommitEmpty ==
  /\ pc = "idle"
  /\ path # NoPath
  /\ pc' = "path"
  /\ UNCHANGED <<destVars, fileVars, histVars>>

\* flush(): the path hook names the path in use.
SamePath ==
  /\ pc = "path"
  /\ target' = path
  /\ pc' = "roll"
  /\ UNCHANGED <<path, idx, fileVars, histVars>>

\* It names another one: the new file is opened and the old stream closed.
NewPath ==
  /\ pc = "path"
  /\ \E p \in Path \ {path} : target' = p /\ OpenDest(p)
  /\ Drained(Closing)
  /\ pc' = "roll"
  /\ UNCHANGED <<idx, rolled, histVars>>

\* Rolling is off, or the file is measured, which empties the stream's
\* buffer, and the roll hook says no.
NoRoll ==
  /\ pc = "roll"
  /\ Drained(IF Rolling THEN {path} \ {NoPath} ELSE {})
  /\ target' = NoPath
  /\ pc' = "flush"
  /\ UNCHANGED <<path, idx, present, rolled, histVars>>

\* The roll hook says yes: the index moves on, the file is renamed over the
\* one that had the new index ...
Rename ==
  /\ pc = "roll"
  /\ Rolling
  /\ target \in present \ (Console \cup Unrollable)
  /\ idx' = NextIndex
  /\ buf' = [p \in Path |-> IF p = path THEN <<>> ELSE buf[p]]
  /\ LET now == IF path = target THEN live[target] \o buf[target] ELSE live[target]
     IN  rolled' = [rolled EXCEPT ![target][idx'] = now]
  /\ live' = [live EXCEPT ![target] = <<>>]
  /\ present' = present \ {target}
  /\ erased' = [erased EXCEPT ![target] = @ \cup ToSet(rolled[target][idx'])]
  /\ IndexMoves(Path \ {target})
  /\ pc' = "reopen"
  /\ UNCHANGED <<path, target, count, lost, starts, threw>>

\* ... or the renaming fails and only the index has moved ...
RenameFails ==
  /\ pc = "roll"
  /\ Rolling
  /\ idx' = NextIndex
  /\ Drained({path} \ {NoPath})
  /\ IndexMoves(Path)
  /\ pc' = "reopen"
  /\ UNCHANGED <<path, target, present, rolled>>
  /\ UNCHANGED <<count, erased, lost, starts, threw>>

\* ... and the path is opened anew either way.
Reopen ==
  /\ pc = "reopen"
  /\ OpenDest(target)
  /\ target' = NoPath
  /\ pc' = "flush"
  /\ UNCHANGED <<idx, buf, live, rolled, histVars>>

\* do_flush(): fflush() of the stream in use. A destination that could not be
\* opened has none, and fflush(NULL) empties every stream.
Flush ==
  /\ pc = "flush"
  /\ Drained(IF path = NoPath THEN Path ELSE {path})
  /\ threw' = FALSE
  /\ pc' = "idle"
  /\ UNCHANGED <<destVars, present, rolled>>
  /\ UNCHANGED <<count, erased, lost, starts, inTurn>>

\* The path hook throws, or returns NULL, which the string made of it does not
\* take: the exception leaves commit() with the record in the stream.
PathHookThrows ==
  /\ pc = "path"
  /\ threw' = TRUE
  /\ pc' = "idle"
  /\ UNCHANGED <<destVars, fileVars, count, erased, lost, starts, inTurn>>

\* The roll hook throws, after the file has been measured.
RollHookThrows ==
  /\ pc = "roll"
  /\ Rolling
  /\ Drained({path} \ {NoPath})
  /\ target' = NoPath
  /\ threw' = TRUE
  /\ pc' = "idle"
  /\ UNCHANGED <<path, idx, present, rolled>>
  /\ UNCHANGED <<count, erased, lost, starts, inTurn>>

-----------------------------------------------------------------------------
(* The end of the logger, and of the process.                              *)

\* ezlog_deinit() deletes the logger; the standard streams stay.
Deinit ==
  /\ pc = "idle"
  /\ Drained(Closing)
  /\ path' = NoPath
  /\ threw' = FALSE
  /\ pc' = "down"
  /\ UNCHANGED <<target, idx, present, rolled>>
  /\ UNCHANGED <<count, erased, lost, starts, inTurn>>

\* The process dies; the C library may have written a buffer out before.
Crash ==
  /\ pc # "down"
  /\ \E spilled \in SUBSET {p \in Path : buf[p] # <<>>} :
       /\ live' = [p \in Path |-> IF p \in spilled THEN live[p] \o buf[p] ELSE live[p]]
       /\ lost' = lost \cup UNION {ToSet(buf[p]) : p \in Path \ spilled}
  /\ buf' = [p \in Path |-> <<>>]
  /\ path' = NoPath /\ target' = NoPath
  /\ threw' = FALSE
  /\ pc' = "down"
  /\ UNCHANGED <<idx, present, rolled>>
  /\ UNCHANGED <<count, erased, starts, inTurn>>

-----------------------------------------------------------------------------
FlushSteps ==
  \/ SamePath \/ NewPath \/ NoRoll \/ RenameFails \/ Rename \/ Reopen \/ Flush
  \/ PathHookThrows \/ RollHookThrows

Next == Construct \/ Commit \/ CommitEmpty \/ FlushSteps \/ Deinit \/ Crash

Spec == Init /\ [][Next]_vars

-----------------------------------------------------------------------------
(* Properties.                                                             *)

\* Where the records of a path may be: the files it was rolled to, by their
\* index, its own file, and the stream's buffer.
Place == 0..(Slots + 1)

Held(p, s) ==
  IF s < Slots THEN rolled[p][s] ELSE IF s = Slots THEN live[p] ELSE buf[p]

Found(r, p, s) == r \in ToSet(Held(p, s))

(***************************************************************************)
(* Whatever happens to the path, the files, the hooks and the process, a   *)
(* record that commit() took is in one place and there once, unless it was *)
(* in a rolled file that has been replaced or in a buffer that died: then  *)
(* it is nowhere.                                                          *)
(***************************************************************************)
EachOnce ==
  /\ \A p \in Path, s \in Place :
       /\ IsInjective(Held(p, s))
       /\ \A r \in ToSet(Held(p, s)) :
            \A q \in Path : \A t \in Place : Found(r, q, t) => q = p /\ t = s
  /\ \A r \in 1..count :
       (\E p \in Path : \E s \in Place : Found(r, p, s))
         <=> r \notin lost /\ \A p \in Path : r \notin erased[p]

(***************************************************************************)
(* When no call is under way nothing waits in the stream of a file, be it  *)
(* in use or no longer: the death of the process costs the one record      *)
(* whose commit() had not returned. Two may still hold the records whose   *)
(* flush() did not reach them: a standard stream that was left for another *)
(* path, and the stream in use when a hook threw.                          *)
(***************************************************************************)
DurableWhenIdle ==
  pc \in {"idle", "down"} =>
    \A p \in Path : buf[p] # <<>> => p \in Console \/ (p = path /\ threw)

(***************************************************************************)
(* A file holds its records in the order of their commits. And rolling     *)
(* forgets the oldest records of a path first: its rolled files, from the  *)
(* index after the current one round to it, its own file and what is not   *)
(* yet in that, come in the order of the commits, all newer than what was  *)
(* erased. The paths share one index, and a failed renaming or a restart   *)
(* moves it too: each of these takes the turn of a path's oldest file      *)
(* away, and newer records may go before it.                               *)
(***************************************************************************)
Ascends(s) == \A j, k \in DOMAIN s : j < k => s[j] < s[k]

\* R comes before S, every record of it.
Before(R, S) == \A r \in R : \A s \in S : r < s

\* The order of the places: the oldest rolled file first.
Turn(s) ==
  IF s >= Slots THEN s + 1 ELSE IF s > idx THEN s - idx ELSE s - idx + Slots

KeepsNewest ==
  \A p \in Path :
    /\ \A s \in Place : Ascends(Held(p, s))
    /\ Before(ToSet(live[p]), ToSet(buf[p]))
    /\ inTurn[p] =>
         \A s \in Place :
           /\ Before(erased[p], ToSet(Held(p, s)))
           /\ \A t \in Place :
                Turn(s) < Turn(t) => Before(ToSet(Held(p, s)), ToSet(Held(p, t)))

(***************************************************************************)
(* include/ezlog.h:66 says that a true answer of the roll hook makes a new *)
(* log file and redirects the output to it. For a path whose last dot is   *)
(* in the name of a directory the renaming must fail, and the output goes  *)
(* on into the old file.                                                   *)
(***************************************************************************)
RollStartsNewFile ==
  [][pc = "reopen" /\ path' \in Path \ Console => live'[path'] = <<>>]_vars
=============================================================================
