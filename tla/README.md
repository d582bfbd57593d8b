# Verification of ezlog

ezlog is a small logging library in C++11 with a C interface. A program calls `ezlog_init`
with a configuration full of hooks, logs through macros, and calls `ezlog_deinit`. The log
goes to a file or a standard stream, at once or through a worker thread, and the file may be
rolled. This directory holds TLA+ models of the library, the TLC configurations that check
them and the TLAPS proofs about them.

To run things, in this directory:

    tlc -config MCTimer.cfg MCTimer                # any run of PROJECT.json
    tlapm TimerProofs.tla                         # any *Proofs module

`PROJECT.json` lists the components, the runs, the hazards, the theorems, and for each
definition of a module the source lines it stands for. Paths below are relative to the
repository.

## 1. Inventory

### Components

| component | state it keeps | operations | who calls it |
|---|---|---|---|
| C interface, `src/ezlog.cpp`, `include/ezlog.h` | `g_mutex`, `g_config`, `g_logger` | `ezlog_init`, `ezlog_is_level_writable`, `ezlog_assert`, `ezlog_write_log(_args)`, `ezlog_write_hex`, `ezlog_deinit`, buffers | any thread of the program |
| `basic_logger`, `src/basic_logger.cpp` | `_config`, `_dest`, `_roll_index`, `_mutex` | `commit` (twice), `flush`; `do_commit` and `do_flush` are the subclasses' | the C interface, with `g_mutex` held |
| `logger`, `src/logger.cpp` | none | `do_commit` = `fwrite`, `do_flush` = `fflush` | `basic_logger` |
| `async_logger`, `src/async_logger.cpp` | `_buffers`, `_timer` | `do_commit` queues, `do_flush` notifies, `flush_buffers` writes | `basic_logger`; `flush_buffers` runs in the timer's thread |
| `destination`, `src/destination.cpp` | a `FILE*`, its path, whether to close it | constructor (`fopen` "a+"), destructor, `get_size`, `is_writable` | `basic_logger`, and the worker through a `shared_ptr` |
| `timer`, `src/timer.cpp` | `_started`, `_running`, `_mutex`, `_event`, `_future` | `start`, `notify`, `stop`, destructor, the thread's loop | `async_logger` |
| ASN.1 encoder, `src/asn.1/` | none | `get_count_of_bytes`, `to_big_endian`, `encode_length`, `encode` of each type | the default encoders of the C interface |
| text formatting, `_format` in `src/ezlog.cpp`, `src/format.cpp` | none | `vsnprintf` twice | the default text encoder; messages of the platform layer |
| platform layer, `src/system.cpp`, `src/platform_compatibility.cpp`, `macros.h` | none | error text, `memcpy_s`, lock macros | everything |
| test, example and benchmark programs, build files | - | - | - |

### How they interact

* Every function of the C interface takes `g_mutex`, a non-recursive mutex, for its whole
  duration. `commit`, the hooks it calls (path, roll, encoders) and the assert hook all run
  with it held. So at most one thread is in a logger at a time, and the concurrency inside the
  library is between that thread and the worker.
* The first record makes the logger, a `logger` or an `async_logger`, and gives it the pointer
  `g_config`. `ezlog_deinit` deletes the logger and then the configuration.
* `basic_logger::commit` checks that the destination is writable, encodes, calls `do_commit`
  under `basic_logger::_mutex`, and then `flush`. `flush` asks the path hook where to write,
  replaces `_dest` if the path changed, asks the roll hook, renames the file to the next of
  five names and opens it anew, and calls `do_flush`. The record that makes the path change is
  thus already in the old file.
* `async_logger` has the queue `_buffers`, protected by the logger's mutex, and the
  destination pointer `_dest`, which `flush` assigns and `flush_buffers` copies, protected by
  nothing.
* `timer` runs `flush_buffers` in a thread of its own each time its condition variable is
  signalled (`notify`) or `async_log_update_interval` seconds have passed. `stop` waits for
  the thread to begin, then clears `_started` and signals until `_running` is false.
  `ezlog_deinit` waits for it with `g_mutex` held.

### What is hard here, and what correct means

| component | what is hard | correct when |
|---|---|---|
| timer | signals sent to a worker that is not waiting are lost; `_running` is read outside the mutex; `stop` may overtake the start of the thread; the routine may throw; there may be no thread to be had | no run of the routine outside `start`..`stop`; `stop` returns, also with an interval that never ends; a started timer keeps running its routine |
| async logger | commits while the worker swaps and works; a roll or a redirection while the worker copies `_dest`; deletion in the middle of a batch; a file that cannot be opened | no record lost, duplicated or overtaken; at most one record follows a replaced destination; a queued record is written, unless `ezlog_deinit` comes before the worker; `ezlog_deinit` returns |
| logger, basic_logger, destination | several paths over one roll index; renames that fail; crashes and restarts; hooks that throw after the record was taken; what the C library still holds in a buffer when the path changes | each record in exactly one place; nothing waits in a buffer between calls; rolling forgets the oldest first |
| C interface | threads that log, assert, initialise and end the library at any time; the level is tested twice, in two critical sections; hooks run under the mutex, and may throw or log | the logger never outlives or changes its configuration; nobody deletes it under a commit; nothing is committed at a level that the configuration in use shuts out; no null configuration is read; the mutex is released |
| ASN.1 encoder | limits of lengths and integers; a file that ends anywhere, and a record of which `fwrite` took a part | what is encoded can be decoded; a damaged record spoils none before it |
| text formatting (`_format`) | the size `vsnprintf` asks for and the size it is given | the whole text is in the record |

`PROJECT.json` "hazards" lists each hard case at its line, with the properties that watch it,
or the reason why none does.

## 2. Modules

| module | models | composed of |
|---|---|---|
| `PeriodicWorker` | abstract: what a timer promises | |
| `Timer` | `src/timer.cpp` | implements `PeriodicWorker` |
| `TimerProofs` | theorems about `Timer` | |
| `LogPipe` | abstract: what a logger promises the caller | |
| `AsyncLogger` | `src/async_logger.cpp`, `basic_logger` as the worker sees it | instance of `Timer`; implements `LogPipe` |
| `AsyncLoggerProofs` | theorems about `AsyncLogger` | |
| `RollingLogger` | `src/logger.cpp`, `basic_logger.cpp`, `destination.cpp`, and the files on disk | |
| `RollingLoggerProofs` | theorems about `RollingLogger` | |
| `RolledNames` | the name a rolled file gets in `src/basic_logger.cpp` | |
| `RolledNamesProofs` | different paths and indices, different names | |
| `Asn1` | `src/asn.1`, and a reader of its bytes | |
| `Asn1Proofs` | what the encoder writes, the reader reads | |
| `LogFile` | the default encoders in `src/ezlog.cpp` and the file they fill | extends `Asn1` |
| `LogFileProofs` | theorems about `LogFile` | extends `Asn1Proofs` |
| `EzlogApi` | `src/ezlog.cpp` without the encoders | |
| `EzlogApiProofs` | theorems about `EzlogApi` | |
| `LogService` | abstract: what the library promises the threads of a program | instance of `LogPipe` |
| `Library` | the library in asynchronous mode: threads, `g_mutex`, logger and worker, through several lives | instances of `EzlogApi` and `AsyncLogger`; implements `LogService` |
| `LibraryProofs` | theorems about `Library` | instances of `EzlogApiProofs` and `AsyncLoggerProofs` |
| `MC...` | the small instances TLC checks | one per model |

Each model ends its state with *fault variants*: an action as it would be with a plausible
mistake in the code. They are in no next-state relation. Replacing an action by its fault
makes TLC report the property it is paired with in `PROJECT.json` "mutants", so every property
is known to be able to fail.

### Timer

`started` and `running` are the two flags. `_running` is an atomic, which `notify` and `stop`
read without the mutex. `_started` is a plain `bool`: `start` writes it before the thread
exists and `stop` writes it under `_mutex`, under which the worker reads it. `worker` is the
program counter of the thread that `std::async` made: `top` (before `_running = true`),
`prewait`, `waiting` (in `wait_for`, mutex released), `woken`, `routine`, `leaving`, `done`
(the future is ready). `owner` is where the owning thread is: `polling` and `draining` are the
two loops of `stop`. `notifier[n]` is `locking` between the test of `_running` and the lock in
`notify`.

A critical section of `timer::_mutex` is one step, because nothing inside blocks and what it
changes is only read by others under the mutex or in a step of their own. `wait_for` is left
by a signal, or without one (`Timeout`: the interval has elapsed, or a spurious wake-up). A
signal to a worker that is not waiting does nothing. The waits of `stop` on the future only
pace its loops and are left out: a 1 ms wait that ends without the future being ready is a
step that changes nothing. `DrainDone` is the loop condition found false. The case `deferred`
cannot occur for a thread launched with `launch::async`. `start` after `stop` is allowed, as
it is in the code.

`StartFails` is `std::async` that finds no thread and throws: `_started` stays true, and the
owner is `failed`. If the timer never had a thread its future has no state, and the `stop()`
of the destructor throws out of it when it waits for that future, which ends the process
(`PollThrows`, `terminated`); if an earlier thread has ended, `stop()` returns at once.

### AsyncLogger

One logger from construction to deletion. The thread `api` stands for all callers, since
`g_mutex` lets one in at a time. Its program counter goes through a call: `ready`, `path`
(queued; the path hook is next), `redirect`, `roll`, `reopen`, `notify`, `signal`, and
`deinit`, `gone`. The worker's program counter is the timer's while it sleeps, and `flusher`
inside `flush_buffers`: `swap`, `load`, `pin`, `write`.

A destination object is a *generation*: `gens[g]` is `open`, `failed` (its `fopen` failed) or
`closed` (the last reference is gone), and `_dest` always points to the last one. `_dest =
make_shared(path)` is two steps: `NewPath` or `Roll` opens the next generation and moves the
pointer, and `ReleaseOld` gives up the one before, which the caller keeps alive in between
(`redirect`, `reopen`). `dest = _dest` in the worker is two steps as well, reading the pointer
(`Load`) and taking the reference (`Pin`). Nothing orders the two assignments, which is a data
race, and `PinOutcomes` are the things that may have happened: the reference counts on any
generation from the one pointed to to the current one, also on the one before, when the
pointer is new and the count is not; on the one the worker still held; or on nothing. `Write`
through a closed generation is recorded as `lost`. A write and its `fflush` are one step, as
nothing else looks at the stream in between.

Histories: `accepted` (what `do_commit` queued), `log` (each `fwrite`: the record, the
generation written to, the one current at that moment), `dropped` (what was in `_buffers` when
it was destroyed). A batch is popped one record at a time.

`EventuallyWritten` has two parts. A record that the worker has taken is written, whatever
the caller does, `ezlog_deinit` included. A record still in `_buffers` is written if the
interval is finite, or else it is there that `ezlog_deinit` finds it and drops it, which is
the subject of `DeinitDrains`. `Stuck` is the exception to both.

`HookThrows` is a path or roll hook that throws, or returns NULL, in `flush`: the record is
queued and nobody is told. `ConstructFails` and `Unwind` are a worker thread that cannot be
made.

### RollingLogger

The calling thread's program counter goes `idle`, `path`, `roll`, `reopen`, `flush`. A file is
the sequence of its records. `live[p]` is the file at path `p`, `buf[p]` what its stream holds
back, `rolled[p][i]` the file named with index `i`, `idx` is `_roll_index`. What the C library
does is modelled where the code calls it: `fwrite` fills the buffer, `fflush`, `fclose` and
the `fseek` of `get_size` empty it (`Drained`), `fopen` in mode `a+` creates but never
truncates, `rename` replaces its target. `fopen` and `rename` may fail at any time. After an
`fopen` that failed no commit is taken until `ezlog_deinit`: `commit` and `flush` return
before they ask the path hook (basic_logger.cpp:88, 140), so nothing replaces the destination.
`fflush` of a destination that could not be opened is `fflush(NULL)`, which empties every
stream. `Crash` may happen between any two steps; each buffer may or may not have been written
out by then. `Construct` after a crash starts again at index 0 with the files that are there.
`PathHookThrows` and `RollHookThrows` leave `flush` in the middle: the record stays in the
stream's buffer until the next call (`threw`), and that is the only record that may wait
there.

`Place` numbers the places of a path where a record may be: its rolled files, its own file,
and the stream's buffer (`Held`). `EachOnce` says that a record that was taken is found in one
place of one path, once, or went with a replaced file or a lost buffer and is found nowhere.

`inTurn[p]` is a history variable: it becomes false when, while `p` has rolled files, the
index moves for any other reason than a successful rename of `p`. `KeepsNewest` is stated for
the paths for which it is true; the hazards say what can happen to the others.

A rolled file is known by its path and index. That these stand for different files is
`RolledNames`: the index goes in brackets before the last dot of the path, wherever that is. A
program whose path hook returns the rolled name of another of its paths is not modelled.
`Unrollable` is the set of the paths whose last dot is followed by a slash.

### EzlogApi

`mutex`, `config` and `logger` are the three globals. A configuration has a number, so that
the logger's pointer can be told from a newer configuration at the same place, its level, and
its assert hook: the program's, or, for one that is NULL (`AssertHook`), the default one,
which sleeps for ever. `InitDefault` is `ezlog_init(NULL)`: level `FATAL` only. A function
that takes the mutex and calls neither a hook nor the logger is one step.

`Log`, `CheckPasses` and `EnterWrite` are the two critical sections of a `__LOG` macro, the
first of which tests the level; `LogUnasked` is a program that calls `ezlog_write_log` itself,
as the README's does. Inside, a logger is made if there is none (`MakeLogger`), the level is
tested again (`Refuse`, `EnterCommit`), and the record is committed. `Throw` is an exception
that passes through the C interface: of a hook, of a `std::string` made of a null file,
function or path, of `new`. The program catches it; one that does not ends, which is `Crash`
in `RollingLogger`. `HookLogs` is any hook that calls the library.

The history `late` is the set of the threads whose call of `ezlog_write_log` no test of the
level stands for: because `ezlog_deinit` came in between, or because they did not ask. In a
program that uses the macros and ends the library when its threads have stopped logging it
stays empty, so that `NoNullConfig` says that no thread reads a null `g_config`.

### Library

`EzlogApi` takes for granted that `commit` and the deletion of the logger end, and
`AsyncLogger` that it is called by one thread at a time. `Library` puts them together: each
step of the thread that holds `g_mutex` is a step of both where it concerns both (`MakeLogger`
is `C!MakeLogger` and `A!Construct`, `EnterCommit` is `C!EnterCommit` and `A!Commit`, ...),
and the worker's steps leave the C interface alone. `LeaveDeinit` has to wait until the logger
is gone, and the next `MakeLogger` begins a new one. `CallsAreOne` is what `AsyncLogger` takes
for granted, `CallsEnd` what `EzlogApi` does. A worker thread that cannot be made ends the
process and is left to `AsyncLogger`.

`WorkerThrows` is a `flush_buffers` that throws. The thread is gone and `_running` stays true,
so the `ezlog_deinit` that follows waits for ever with `g_mutex` held, and every other thread
for `g_mutex`. `CallsEnd` has this as an exception (`A!Stuck`), as it has an `ezlog_deinit`
whose worker waits for a destination that could not be opened, and a thread whose hook logs or
sleeps. All the other calls end, commits to a logger without a worker among them.

`LogService` is `LogPipe` through several lives: `Begin` and `End` around any number of
`Accept` and `Emit`. `Library` implements it with `written <- A!Written` and `open <- logger #
Null`: to all its threads together the library is one log, in the order in which they got
`g_mutex`, and the worker writes nothing while `g_logger` is null, which is why `ezlog_deinit`
has to wait for the worker before it forgets the logger.

### Asn1 and LogFile

`Asn1` has the encoder as operators, and a reader of tags and definite lengths, which the
repository does not have. Each limit in `get_count_of_bytes` is half a power of 256; with
`Base = 16` the same limits are 8, 128, 2048, ... so that TLC reaches the two- and three-byte
lengths, the integer that takes a byte more than its type has (read from behind the object:
any of `Beyond`), and the one that needs more than seven bytes and is encoded to nothing.
`LogFile` appends records to a file, each a sequence of seven elements as `_text_log_to_asn1`
and `_byte_log_to_asn1` build it. `_format` gives `vsnprintf` a buffer without room for the
terminating NUL, so a text record holds the text without its last character (`Formatted`).
`WriteTextPart` and `WriteBytesPart` are `fwrite` that takes a part of a record, which nobody
notices. The history `logged` has each record, where it ends in the file, and whether it is
all there. The file is opened in mode `a+`, so a record goes to its end (`Appended`), which
`TypeOK` relies on when it says that the records end one behind another. `ReadsBack` compares
what a reader finds, wherever the file ends, with what was logged: but for the last character
of a text, an integer in the upper half of its type, and what lies behind a damaged record, it
is the same.

The reader takes the body of an element for what it is. For a byte record that is not what
ASN.1 makes of it: the body of a BIT STRING begins with the number of its unused bits (X.690,
8.6.2), which `bit_string::encode` leaves out. `Bits` reads a body in that way, and
`BitsReadBack`, violated, says that it finds the data.

`get_count_of_bytes` gives 0 for what needs more than seven bytes, so a string of `Limit(7)`
bytes would get no length at all. `LogFileAssumption` has every string shorter than
`Limit(6)`, 2^47 with bytes of eight bits, which is the size of the address space of a 64-bit
process; seven of them and three integers are then still shorter than `Limit(7)`.

## 3. What the runs show

| run | instance | properties | result |
|---|---|---|---|
| `timer` | 3 notifiers, the routine may throw, a start may fail | `TypeOK`, `StoppedMeansQuiet`, `ImplementsPeriodicWorker`, `RoutineRecurs`, `StopReturns` | hold, 271 states |
| `async_life` | 2 records, 4 destinations, hooks and the worker may throw | `TypeOK`, `Conservation`, `StaleWriteBound`, `ImplementsLogPipe`, `EventuallyWritten`, `DeinitReturns` | hold, 155 thousand states |
| `async_drains` | 2 records, 1 destination | `DeinitDrains` | **violated** |
| `async_hangs` | 2 records, 2 destinations | `DeinitAlwaysReturns` | **violated** |
| `async_race` | 2 records, 2 destinations | `WritesToOpenFile` | **violated** |
| `rolling` | 2 files and stdout, 3 rolled files each, 3 records, 1 restart, hooks that throw | `TypeOK`, `KeepsNewest`, `EachOnce`, `DurableWhenIdle` | hold, 1.3 million states |
| `rolling_dots` | 1 file with its last dot in a directory | `RollStartsNewFile` | **violated** |
| `api_safety` | 3 threads, 2 initialisations, 3 levels, hooks that return, throw or log | `TypeOK`, `LoggerHasItsConfig`, `CommitIsSafe`, `NoNullConfig`, `MutexReleased` | hold, 276 thousand states |
| `library` | 2 threads, 2 lives of an asynchronous logger, 1 record and 2 destinations in each, the worker may throw | `TypeOK`, `CallsAreOne`, `ImplementsLogService`, `CallsEnd` | hold, 157 thousand states |
| `encoding` | 2 records, each written whole or in part, bytes of 4 bits | `TypeOK`, `ReadsBack` | hold, 28 thousand states |
| `encoding_bits` | 1 record | `BitsReadBack` | **violated** |
| `api_hook` | an assert hook that logs | `AssertEnds` | **violated** |

### Where the code and its documentation disagree

1. `DeinitDrains`: `include/ezlog.h:179` says `ezlog_deinit` outputs what is left in the
   asynchronous buffer. The worker leaves its loop without another run of `flush_buffers`
   (`timer.cpp:55-59`), and the queue is destroyed.
2. `DeinitAlwaysReturns`: once the path hook has named a file that cannot be opened, a worker
   with a record in hand spins in `flush_buffers` (`async_logger.cpp:38-47`). `commit` and
   `flush` return early in that state, so `_dest` is never replaced, and `ezlog_deinit` waits
   for the worker for ever.
3. `WritesToOpenFile`: the unsynchronised copy of `_dest` lets the worker write through a file
   that a roll has just closed.
4. `RollStartsNewFile`: the name is split at the last dot of the whole path, so `logs.d/app`
   would be renamed into a directory `logs(1).d`; the rename fails and the same file is opened
   again, every time the roll hook says yes.
5. `AssertEnds`: the assert hook of the README and of the test program logs. It is called with
   `g_mutex` held, and `ezlog_write_log` takes that mutex again.
6. `BitsReadBack`: the bytes that `include/ezlog.h:170-174` says `ezlog_write_hex` outputs are
   given the tag `ASN1_TAG_BIT_STRING` (`asn.1/object.h:18`) but not the octet that the body of
   a BIT STRING begins with, so a reader of ASN.1 takes the first of them for it.

### Bounds, and why they are enough

* **Notifiers (3).** A notifier's two steps touch `worker` only. Two already give a signal
  that arrives while another is under way; the proofs hold for any number.
* **Records (2), destinations (4; 1 or 2 in the violated runs).** `StaleWriteBound` needs two
  records on one destination and a third destination, and the worker's copy of `_dest` can span
  two assignments of it; liveness is per record. The proofs hold for any number of both.
* **`Slots` (3; the code's 5).** The index must wrap, and a path must have an older and a
  newer rolled file when it does; with 3 slots and 3 records every slot is filled, and a call
  that commits nothing then rolls over the first. `Slots` occurs only in `% Slots`.
* **Two files.** One path and another that shares its index; a third adds no new relation
  between two paths. The standard stream is there too.
* **`MaxRestarts` (1).** A second start with files already there; a third is the same.
* **Encoding.** Two records, so that one follows another, whole or damaged; the strings have
  the lengths 0, 7, 8 and 128 and bytes that look like tags and lengths. Any prefix of the
  file is read.
* **Threads (3), initialisations (2).** One in the logger, one waiting, one ending the library
  and beginning it again with another level. The levels are one that every configuration lets
  through, one that some do, and one that is none.
* **`library`.** Two threads and two lives: one thread logs while the other ends the life. Two
  destinations, so that a roll meets a batch in the worker's hands. One record: what the
  composition adds is when calls begin and end, which needs no second one. The order of
  records is checked with two in `async_life`, and proved of the composition for any number.

Symmetry is used only in `rolling`, which checks invariants. Deadlock is not checked, because
each system may come to rest: the timer and the logger end by destruction, the rolling logger
by its bound on restarts, and the threads of `EzlogApi` by reading a null configuration or by
a hook that never returns.

### Fairness

* `Timer`: weak fairness of every step of the worker and of `stop`, except `Timeout`: threads
  are scheduled, and loops go on. `RoutineReturns` is fair because `flush_buffers` has its own
  fairness in `AsyncLogger`. The interval may be `EZLOG_INFINITE`, so no timeout is assumed:
  `StopReturns` and `DeinitReturns` hold without one, and `RoutineRecurs` and
  `EventuallyWritten` state `WF(Timeout)`, a finite interval, as their premise. Nobody has to
  call `start`, `stop` or `notify`.
* `AsyncLogger`: the same, with a call that has begun going on to its end. No call has to be
  made, and the destination never has to become writable.
* `EzlogApi` and `Library`: a thread inside the library goes on, and in `Library` the worker
  does. `g_mutex` is not a fair lock, so no property depends on a thread eventually getting it
  against the others.
* `RollingLogger` has safety properties only.

## 4. What is proved

The proof modules hold for every value of the constants, under the `ASSUME` of each model
(`TimerAssumption`, `AsyncAssumption`, `RollingAssumption`, `NamesAssumption`,
`EzlogAssumption`, `LibraryAssumption`, `Asn1Assumption`, `LogFileAssumption`), which TLC
evaluates in each run. They give the constants their types, tell characters and tags apart,
and bound the length of a string by what there is room for in memory.

**Timer** (`TimerProofs`). The inductive invariant adds to `TypeOK` what `worker` and `owner`
say about the two flags: no thread before `start`, `_started` true until the second loop of
`stop`, `_running` true from the top of the loop to its end, and that once `stop` has left its
first loop the thread has begun. The last part is why the first loop exists: without it
`~_running` would also be true of a thread that is yet to start, and `StoppedMeansQuiet` would
not be inductive. From it: `TypeCorrect`, `StopIsFinal` and the refinement of
`PeriodicWorker`.

**AsyncLogger** (`AsyncLoggerProofs`). `Conservation` alone is not inductive: that deletion
moves only `_buffers` to `dropped` requires that the worker is gone and its batch is empty by
then (`Phases`), which comes from the timer's states. `Phases` also has it that there is a
destination before the one being assigned, which `ReleaseOld` gives up. `StaleWriteBound`
requires that the worker's pointer is never behind the log, and that while the worker has a
destination in hand no record has followed that destination's replacement into it
(`LogOrder`). The steps of the timer are taken over by `UsesTimer`, `[Next]_vars =>
[T!Next]_timerVars`. From the invariant: `TypeCorrect`, `NothingLost`, `StaleWritesBounded`
and `Refinement` of `LogPipe`, in which the record written next is shown to be the one
accepted next by way of `Conservation`.

**RollingLogger** (`RollingLoggerProofs`). `DurableWhenIdle` speaks of the moments without a
call only; the invariant says where a record may wait during one (`Waiting`): in a console, or
in the stream of `path`, and there not between the measuring of the file and its reopening,
unless a hook threw. That is why a roll can replace the destination without closing a stream
that holds something. It needs `Targets`: the copy of the path in `flush` is a path, not that
of a failed destination.

For `EachOnce` and `KeepsNewest` the invariant speaks of the contents of the places as sets
(`Contents`): every place ascends (`Chronicle`), only records that were committed are known
(`Known`), each is in one place (`InOnePlace`) and in some (`InSomePlace`), and the places
come in turn (`InTurnOrder`). Each step then either appends the newest record to a buffer, or
moves what one place holds to the end of another, or into the history variables (`Moved`); the
three parts are shown once for such moves, and each action is shown to be one. From it:
`TypeCorrect`, `NothingWaits`, `OneCopy` and `NewestKept`.

**RolledNames** (`RolledNamesProofs`). `NamesDiffer`: if two paths and indices give the same
name, they are the same. The last dot of a name is that of its suffix, four characters behind
the base name (`LastDotOfName`), so the two base names are of the same length, and the rest
follows character by character.

**EzlogApi** (`EzlogApiProofs`). The invariant ties each thread's position to the mutex:
whoever is inside holds it (`Holds`), and has a configuration, and a logger once it is made
(`Equipped`). For `NoNullConfig` it adds that a thread before `ezlog_write_log` has a
configuration unless it is `late` (`WriteConfigured`). From it: `TypeCorrect`,
`ConfigOutlivesLogger`, `CommitsAreSafe` and `OnlyOvertakenCallsFail`.

**Library** (`LibraryProofs`). What makes `CallsAreOne` inductive is `HalfDone`: a call half
done in the logger is that of the thread with `g_mutex`, which is in `commit`, or for ever
waits for itself after a hook has logged; and a logger is being deleted, or has been, only
under a thread in `ezlog_deinit`. From it: `OneCallAtATime`. The invariants of the two parts
are then taken over as they are (`PartsInvariance`): each step of the library is a step of
`EzlogApi` or leaves its variables alone, and is a step of `AsyncLogger`, leaves its variables
alone, or begins a new logger, for which the invariant holds because it holds initially. So
every theorem on an invariant of the parts is one about the library: `TypeCorrect`,
`CallsAreSafe`, `RecordsAreKept`. `Refinement` of `LogService` needs both, and that without a
logger there are no records (`Alive`).

**Asn1** (`Asn1Proofs`). `IntegerReadsBack`: Horner's rule in the reader undoes the divisions
of `to_big_endian`, with the invariant that after `i` bytes the reader has the value divided
by `Base^(n-i)`. `SequenceReadsBack`: the reader goes from the start of one element to the
start of the next, since tag, length and body of an element say how long it is (`WholeIs`),
and so finds each (`ElementsFromIs`), in whatever lengths and with whatever bytes in the
bodies. Both are inductions over the length of the data. The library's induction theorems
take an operator, which the provers cannot instantiate; here an induction is on the least
element of the set of the numbers for which the claim is false (`LeastNumber`), a set and not
an operator, and the recursive definitions are recursive functions.

**LogFile** (`LogFileProofs`). `ReadsBack` is not inductive: what a reader finds in a file
says nothing of the bytes behind the last whole record, and there the next one is written. The
invariant (`IsLog`, beside `Typed`) has the bytes instead: the file is the records logged,
each as far as it was taken, one behind another, and nothing else. That the records end in the
file in their order, the rest of `TypeOK`, follows from it. `ReadsBack` follows from it
(`RecordsReadBack`): the file up to any point before the end of the first torn record is a
number of whole elements and a part of one more, of which the reader finds the former
(`CleanIs`, `ThereAre`, `RecordsAreFound`), and each body is the seven elements of its record
(`RecordReadsBack`). Behind the first torn record the theorem promises nothing but that those
before it are found.

**Only model-checked.** The liveness properties (`StopReturns`, `RoutineRecurs`,
`EventuallyWritten`, `DeinitReturns`, `MutexReleased`, `CallsEnd`), as the prover handles
neither fairness nor `ENABLED`; and the six disagreements. Every other property of every
passing run is a theorem.

## 5. What is not modelled

* Colours, and `src/format.cpp`, which nothing in the library calls.
* Failing allocations, except the one in `flush_buffers` that ends the worker and those that
  make an exception of a call (`Throw`); the memory that is not given back when one passes.
* The size that the roll hook is given: it may answer anything. `get_size` measures the file
  the worker may be writing to, within one of its steps.
* Encoders of the program; to `AsyncLogger` and `RollingLogger` a record is what an encoder
  returned.
* `ezlog_buffer_append_data` and its companions: one allocation each, with no shared state.
* `set_config` and the copy constructor of `basic_logger`, which nothing calls.
* The platform layer, the export lists, the build files and scripts, and the test, example and
  benchmark programs: no state of the library, or none at all. The programs are read for what
  they expect of the library.
* The memory the queue takes: `async_log_buffer_size` is not read anywhere.

## 6. Plan

Done, in this order: `Timer`, since the asynchronous mode rests on its shutdown;
`AsyncLogger`, the only place where two threads of the library meet; `RollingLogger`, which
decides where records end up; `EzlogApi`, which lets the program in; proofs for all four;
`Asn1` and `LogFile`; the failure paths of all of them (a thread that cannot be made, hooks
that throw, `fwrite` that takes a part); proofs that each record is in one place and that
rolling forgets the oldest first; `Library`, which puts the parts together; `RolledNames`;
`LogService`, and proofs that the library implements it and keeps what its parts promise;
proofs that what the encoder writes can be read.

What could follow: a refinement for the synchronous logger. It takes and writes a record in
one step, which `LogPipe` does in two, so it needs an abstract specification that allows both,
or a stuttering variable.
