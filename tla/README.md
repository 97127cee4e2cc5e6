# A TLA+ model of CLPKM

CLPKM makes OpenCL kernels preemptible.  A daemon collects which kinds of work
(computation, memory copies) the high-priority processes of a machine are
doing.  A runtime library, loaded in front of the vendor's OpenCL library,
reports to it in a high-priority process and waits for it in a low-priority
one.  The kernels of low-priority processes are rewritten when they are built,
so that they stop when their time slice is over and go on in a later run.

This directory models those parts in TLA+, model-checks them with TLC and
proves theorems about them with TLAPS.  `PROJECT.json` is the index: the
components, the runs with their properties, the source lines every definition
translates, the hazards the properties are for, and the theorems.

## 1. The system

| Component | State | Operations |
|---|---|---|
| Daemon (`daemon/Main.cpp`, `daemon/TaskKind.hpp`) | per-process bitmaps, counts per kind, run level, last announced level | `SetHighPrioTaskBitmap`, `GetConfig`, `NameOwnerChanged`, `RunLevelChanged`, SIGTERM, SIGHUP |
| Schedule service, high priority (`runtime/ScheduleService.cpp`) | counts and bitmap of the calls in flight, a timer per kind, the last report | `SchedStart`, `SchedEnd`, `BindToEvent`, event callbacks, the worker that reports |
| Schedule service, low priority (same file) | the run level as known here, a condition variable per kind | `SchedStart` (waits), the worker that reads signals and notifies |
| Runtime tables (`runtime/Interface.cpp`, `RuntimeKeeper.hpp`) | queues with their shadow queue and `TaskBlocker`; programs; kernels with arguments and a pool of kernel objects | the intercepted OpenCL calls |
| Kernel runs (`runtime/Callback.cpp`) | a `CallbackData` per launch: kernel object, buffers, header, events | `MetaEnqueue`, `ResumeOrFinish`, `UpdateHeader`, `CallbackCleanup` |
| Reordering (`runtime/Support.cpp`) | `TaskBlocker` | `Reorder`, `ReorderCore` |
| Instrumented kernel (`cc/Instrumentor.cpp`, `toolkit.cl`) | header entry and live value buffer per work-item, copy of `__local` data and stop counters per group | prologue, checkpoints, barriers, epilogue |
| Build (`runtime/CompilerDriver.cpp`, `clpkm.sh`) | pipes, temporary files, the code cache on disk | `Compile`, the driver script |
| Layout of a launch (`runtime/Support.cpp`, `Interface.cpp`, `cc/Instrumentor.cpp`, `toolkit.cl`) | sizes and addresses, computed by each side for itself | `FindWorkGroupSize`, the sizes of `clEnqueueNDRangeKernel`, `__get_linear_id`, `__clpkm_store_*` |
| Inliner and renamer (`inliner/Main.cpp`, `rename-lst-gen/Main.cpp`) | calls still to be inlined, snippets, the call chain | `PerformInline`, `GenCodeSnippet`, renaming |
| Tools around them | none that outlives a call | live variable analysis, vendor lookup, benchmarks |

How they interact:

* Runtime and daemon talk over D-Bus.  A high-priority process makes one
  synchronous call at a time from its worker thread; the daemon broadcasts
  `RunLevelChanged`; a low-priority process subscribes, then asks `GetConfig`,
  then follows the signals.  The bus tells everybody when a process leaves.
* Every enqueueing call and every run of a kernel takes a `SchedGuard` of its
  kind, which counts in a high-priority process and waits in a low-priority one.
* A launch in a low-priority process becomes a chain of runs on an out-of-order
  shadow queue: run, read the header, callback, maybe write the header, run
  again.  A user event (`Final`) stands for the kernel in the application's
  queue, and `TaskBlocker` keeps the order of an in-order queue.
* Host and device share the header: 1 not started, 0 finished, *n* resume at
  *n*, *-n* blocked at barrier *n*.
* Builds of several processes share a code cache of files.
* Threads of an application share the three tables, each under an upgrade
  mutex, and each entry's own mutexes; a kernel's entry points into its
  program's.  Entries go when the application releases its last reference.
* Host, compiler and device library each compute where a work-item's data are;
  nothing but their agreement keeps the data apart.

What is hard: reports, departures and signals crossing each other; timers that
fire while they are re-armed; notifications after an unlock; a callback thread
that outlives the call, the kernel or the queue entry it refers to; failing
vendor calls in the middle of a chain; a barrier that some work-items reach in
one run and some in the next; three pipes between two processes; two processes
writing one cache entry; locks of tables, entries and queues held across waits,
while handles are freed and come back.  `PROJECT.json` lists these as hazards, each at its
line.

## 2. The modules

| Module | Models | Runs, proofs |
|---|---|---|
| `Daemon` | the daemon, its message loop and the bus | `MCDaemon`, `DaemonProofs` |
| `TaskBitmap` | the bit arithmetic of `TaskKind.hpp` on words | `MCDaemon` |
| `HighClients` | abstract: what the system needs of high-priority processes | |
| `HighPrioProc` | the high-priority client; refines `HighClients` | `MCHighPrioProc`, `HighPrioProcProofs` |
| `LowPrioProc` | the low-priority client | `MCLowPrioProc`, `LowPrioProcProofs` |
| `SchedSystem` | `Daemon` with high- and low-priority clients | `MCSchedSystem`, `SchedSystemProofs` |
| `InOrderQueue` | abstract: a command queue as applications know it | |
| `KernelRuns` | launches, runs, callbacks, reordering; refines `InOrderQueue` | `MCKernelRuns`, `KernelRunsProofs` |
| `KernelItems` | abstract: the work-items of a kernel nobody preempts | |
| `PreemptedKernel` | the generated kernel and the header; refines `KernelItems` | `MCPreemptedKernel`, `PreemptedKernelProofs` |
| `Build` | `Compile`, `clpkm.sh` and the code cache | `MCBuild`, `BuildProofs` |
| `Inliner` | `clinliner`, and the renaming before it | `MCBuild` |
| `Tables` | queues, programs and kernels: calls, locks, references | `MCTables`, `TablesProofs` |
| `Launch` | the layout of a launch | `MCTables` |

In every module an operator `X_Y` just before `X` is `X` with a plausible bug.
Nothing uses it; put in the place of `X` it makes the property it belongs to
fail, which shows that the property says something about `X`.

### Daemon

`inbox`, `rpc`, `signals`, `subscribed`, `gone` are the bus: one order of
messages for the daemon, one outstanding call per process, the unread signals
per subscriber.  `ProcBitmap`, `CountOfEachTaskKind`, `GlobalBitmap` are struct
`Task`; a bitmap is the set of its 1 bits.  `pc` follows the loop of `main`:
`CheckTerminate`, `ProcessMessage` (one `sd_bus_process` with the whole
handler), `AnnounceRunLevel` when there is no message left, `Wait`, `WakeUp`.
`OnTerminate` may come anywhere.  Callers may report any bits, repeat
themselves, and leave with requests queued; the bus delivers their departure
after what they sent.  Messages are not lost: D-Bus runs over local sockets.

`TaskBitmap` redoes the handlers' arithmetic on words: two's complement,
shifts, `IsNotZero` by sign extension, `AssignBits`, the mask test.  A bitmap
has `Width` bits and a count `CountWidth`, as `task_bitmap` and `unsigned` differ
in width.  `WordsAreSets` says, in every state of `Daemon` and for the message
that comes next, that the words are the sets that `Daemon` works with.

### Schedule service

`HighPrioProc`: a call in flight (`task`) is a guard, then maybe bound to an
event; it ends by its destructor or by the event's callback.  `timer` and
`fired` are the timerfds.  The worker is `Poll` (the revents it got), `UpdateMap`
(the section under the mutex), `DaemonSets` and `CallReturns` (the synchronous
call).  Between any two of them calls start and end and timers fire or are
re-armed.  `HighClients` keeps of this what the daemon depends on: a report
covers all that runs and keeps, beyond that, only what was reported before.

`LowPrioProc`: threads test the predicate under the mutex, sleep, wake (also
spuriously), and run; the worker holds the mutex from the first message of a
batch to the last (`TakeLock`, `ProcessSignal`, `EndBatch`), then notifies kind
by kind without it.

`SchedSystem` extends `Daemon` with what the processes run, report and know.
High-priority processes are those of `HighClients`.  Low-priority processes go
through `StartBus` (`AddMatch`, `CallGetConfig`, `ReadConfig`) and follow the
signals.  Any process may leave at any time.

### Kernel runs

`KernelRuns` has the calls (`PrepareKernel`, `Launch`, `EnqueueMarker` for
`clEnqueueNDRangeKernel`; `Copy` for every command that goes through
`Reorder`), the device (`WriteHeader`, `StartRun`, `EndRun`, `AbortRun`) and the
callback (`Inspect`, `Resume`, `Cleanup`).  `MetaEnqueue` may fail at each of
its vendor calls: before the run is enqueued, after it, or with the callback
already set.  The wait list of a command is any set of events the application
has, plus the blocker.  `BlockerMutex` is held from `Launch` to `EnqueueMarker`.
`ReleaseKernel` removes the `KernelInfo`.  Whether the header says that the
kernel has finished, goes on, or may pass a barrier is open, up to `MaxRun`
runs.  A use of freed memory sets `usedFreed` and ends the behaviour: what
happens then is undefined.

All launches use one kernel of one queue, the case in which they share state.
The wait for a free run level is not modelled here: where the code waits, the
model's steps can be delayed at will, and the wait's own correctness is that of
`LowPrioProc`.

### Tables

`Tables` has the calls that create, retain, use and release queues, programs
and kernels, by several threads.  `refs` is what the application holds,
`vendor` the vendor's count, `queueTable`, `programTable`, `kernelTable`,
`refCount` and `profile` the runtime's entries.  `mode` and `barred` are the
three `boost::upgrade_mutex`es: readers, one of which may be the one that can
rise to be the writer, and writers, which keep new readers out while they wait;
`mutex` has the plain mutexes.  A section that takes a lock and waits for
nothing in it is one step; wherever a call waits with a lock held, there are two:
`FindToRelease`, `DropReference`, `Erase`, `VendorRelease` are the last
`clReleaseKernel`, `FindQueue` to `Enqueue` a launch, which holds both table
locks to its end.

The application calls what OpenCL allows: it uses objects it has a reference
to, it does not release the last reference to an object another call is using,
and, as a FIXME in the code (`Interface.cpp:197`) demands, it builds a program
once.  It may release a program before its kernels: `clSetKernelArg` and
launches then read a freed profile (the FIXME at `Interface.cpp:446`); the model
records this in `fault` and stops there.  A handle whose count has reached 0 may
be returned by the next creation, while other calls are under way.

### Launch

`FindWorkGroupSize` enumerates factors and their choices in the code's order.
The other operators are the numbers of the host (`NumOfThread`, `WorkGrpSize`,
`MetadataSize`, the buffers), of the compiler (`ReqPrvSize`, `ReqLocSize`, the
offsets) and of the device (`GlobalId`, `StorePrivate`, `StoreLocal`).  A live
variable is its size and alignment.  There is one step, the choice of the local
work size.  The properties compare the three sides with one another, over
`launch`es that `MCTables` enumerates.

Assumed: the size of a variable is a multiple of its alignment, as `toolkit.cl`
says it must be, and all sizes are positive.

### Preempted kernel

The kernel makes `NumOfRound` rounds of an outer loop; each round is an inner
loop, a write to the work-item's word, a barrier, a look at the group's words.
Two `barrier()` calls take turns.  This shape has what the instrumentor treats
specially: a checkpoint at the end of nested loop bodies, barriers in a loop,
more than one barrier, data in `__local` or `__global` memory.  `Enter` is the
prologue, `Dispatch` the `switch`, `Loop` and `BodyEnd` the loop bodies with
their checkpoints, `CallBarrier`, `Look`, `Uncount` the stop protocol around the
original barrier, `Exit`, `Number`, `Store` the epilogue that saves `__local`
data.  `BarrierOpens` is the device: a barrier releases a group when all
work-items that have not left the kernel are at one.  That left work-items do
not count is what the generated code relies on, and what NVIDIA devices do.
`ResumeOrFinish` is the host with `UpdateHeader`.  Whether a time slice is over
is open at every checkpoint.

### Build

Each build is a parent (`Compile`) and a driver (`clpkm.sh`).  The parent
writes the source, reads stdout to its end, then stderr, then waits.  The driver
looks into the cache, compiles or not, copies its two result files into the
cache (truncation and writing are separate steps) and writes code to stdout and
profile or log to stderr, a pipe of `Capacity` chunks.  The driver may fail to
start, fail at any stage, or be killed.

### Inliner

A program is a sequence of functions with parameters and one returned
expression, which lists its nodes in the order Clang visits them.
`ExecuteAction` takes any function that has calls, since the map it iterates
over is ordered by address; `InlineCallee`, `ReplaceText`, `SkipBuiltin` and
`RemoveRecord` are the recursion of `PerformInline`, with `callChain` as its
stack.  `code` is the rewriter's text: a replaced call is a block that holds the
arguments as they were and the snippet as generated.  `Value` evaluates both
forms, the block with C's scoping, in which a parameter is in scope in its own
initializer and in those that follow: without the renaming of `NewName`
arguments would be captured.

## 3. The runs

| Run | Bounds | Shows |
|---|---|---|
| `Daemon` | 2 high, 1 low process, 2 valid kinds and 1 invalid bit, bitmaps of 3 bits, counts of 2 bits, 1 unread signal, 5 reports (`MCDaemon!Maps`) | types; `RunLevelIsCensus`; `WordsAreSets`; `DeadAreForgotten`; `SleepsAnnounced`; calls are answered; SIGTERM takes effect with the next message |
| `HighPrioProc` | 2 calls, 2 kinds | counts, ticks, reports, the one-second reservation; refines `HighClients`; a kind that stays in use, or unused, becomes known to the daemon |
| `LowPrioProc` | 2 threads, 2 kinds, 2 unread messages | no lost wakeup; waiters start; the process ends with the daemon |
| `SchedSystem` | 2 high, 1 low process, 1 kind, 3 changes, 2 unread signals | at rest levels are those of the live processes; a kind in use is held back, an unused one freed |
| `KernelRuns` | 2 launches, 1 copy, 2 runs each, 1 failure, release or not | kernel objects are exclusive; runs see their header; refines `InOrderQueue`; every command ends |
| `PreemptedKernel` | 1 group of 3, 3 rounds, loops of 0 or 1 iterations | blocked work-items are at one barrier; writes before a barrier are seen behind it; refines `KernelItems`; the kernel ends |
| `Build` | 2 builds, pipe of 1 chunk, 2 chunks of text, 1 kill; 20,736 programs of 3 functions | own results are whole; cache hits find files; `Compile` returns if what goes to stderr fits into the pipe (without that it deadlocks, `CompilerDriver.cpp:118`); inlining turns down recursion and nothing else, and keeps what the functions compute |
| `Tables` | 3 threads, 1 queue, 1 program, 2 kernels, 2 references each; launches of up to 3 dimensions, sizes up to 12 | legal calls find their entries, inserting never finds an old one; entries live exactly as long as references; calls do not wait for one another for ever; the work-group size fits; the header's pieces are the groups; saved data is whole and apart |

`Tables` and `Build` start either in the system or in a launch, respectively a
program to inline: the two parts share a run and no behaviour.

Four runs show a disagreement between the code and what its comments or log
lines say; TLC finds the behaviour.

* `Daemon_sigterm`: SIGTERM just before the wait is not acted on until a message
  arrives (`daemon/Main.cpp:379`).
* `HighPrioProc_leak`: the sign that tells the callback to release an event is
  lost for the kind whose value is 0 (`ScheduleService.cpp:83`).
* `SchedSystem_stale`: `GetConfig` in the middle of a batch hands out a level
  that is gone at the batch's end and that no signal corrects
  (`daemon/Main.cpp:350`).  `HeardLevelIsCurrent`, which does hold, is the
  guarantee that remains: it speaks of processes that have read a signal.
* `KernelRuns_release`: the callback returns a kernel object to a `KernelInfo`
  that the last `clReleaseKernel` has destroyed (`Callback.cpp:145`).

Why the bounds are enough to be interesting: two high-priority processes give a
count that passes through 2, which is the sign bit of a count of two bits, and a
bit held by one while the other leaves; two kinds make a report that raises one
kind and keeps another back, and a word in which one kind's bit changes beside
the other's.  The daemon's reports are few so that two kinds stay small: one
process has kind 0, with and without kind 1, and a report that mixes a valid with
the invalid bit; the other comes and goes with kind 1.  Three
work-items are the fewest with a group that splits into those that finish, those
blocked and those preempted, and a last batch of two that shares the `__local`
data of three; three rounds bring the first barrier back after the second.  Two
launches are enough to share a pool and to follow each other, the copy stands
before, between or behind them.  A pipe of one chunk with up to two chunks of
text has both the text that fits and the one that does not.  Three threads are
the fewest with a writer that waits for a reader that waits for a mutex; with
two references and two kernels, a kernel is released while it is retained, and
another inserted meanwhile.  A launch is computed dimension by dimension and
variable by variable: three dimensions have a middle one, and the variables have
every copy unit, one more than a word and one less.  Three functions are enough
for recursion through another function and for a snippet in a snippet in an
argument.  The bounds
themselves are constants: `MaxSignals` (unread signals), `MaxChanges` (changes
of what runs), `MaxRun`, `MaxFailure`, `MaxTrip`, `NumOfRound`, `MaxText`,
`MaxKill`, `MaxRef` (references to an object).

Deadlock is an error in `HighPrioProc`.  The other systems may stop: the daemon
exits, all processes leave, all commands end, the kernel finishes, all builds
return, a launch has its size.  In `Tables` the application may make another
call in most states, so a deadlock of calls would hide from TLC's own test:
`CallsGoOn` says that one of the calls under way has a step, or a queue waits
for the device.

Fairness:

* `Daemon`, `SchedSystem`: the daemon's thread and the workers take steps they
  can take (weak fairness).  Nobody is obliged to start or end a task, to
  join or to leave.
* `HighPrioProc`: armed timers expire and the worker runs.
* `LowPrioProc`: the worker runs, and a woken thread gets the mutex while it
  stays free.  `WaiterStarts` assumes in addition that the signals stop for a
  while, since the worker holds the mutex as long as there are messages.
* `KernelRuns`, `PreemptedKernel`: some step that is possible is taken.  Every
  behaviour without stuttering is finite or, for the kernel, makes progress in
  each run, so nothing stronger is needed.
* `Build`: the operating system runs each process that can go on.  No
  driver is obliged to fail at its start or to be killed.
* `Tables`: none.  That each single call returns does not follow from the code:
  the upgrade lock lets new readers in while it waits to rise, so readers that
  overlap for ever keep a release waiting.

## 4. The proofs

TLAPS proves, for every value of the constants that the assumptions below allow:

| Theorem | Statement |
|---|---|
| `DaemonProofs!TypeCorrect` | the daemon's tables hold valid kinds only |
| `DaemonProofs!RunLevelCorrect` | counts and run level are the census of the processes on record |
| `DaemonProofs!AnnouncementsCorrect` | the daemon never waits with an unannounced level |
| `DaemonProofs!DeparturesCorrect` | a dead process is on record only while its departure is unread |
| `HighPrioProcProofs!TypeCorrect` | types; the unsigned counts do not go below zero |
| `HighPrioProcProofs!CountCorrect` | counts and bits are those of the calls in flight |
| `HighPrioProcProofs!NoTickIsLost` | an unreported change has its timer armed |
| `HighPrioProcProofs!ReportsArrive` | the daemon's record is the last report |
| `HighPrioProcProofs!ReservationHolds` | a kind is given back by the one-second timer only |
| `HighPrioProcProofs!ImplementsHighClient` | the process refines `HighClients` |
| `LowPrioProcProofs!TypeCorrect` | types |
| `LowPrioProcProofs!WakeupsAreNotLost` | a sleeper on a free kind is about to be notified |
| `SchedSystemProofs!SystemKeepsTheService` | the daemon's three properties hold in the composed system |
| `SchedSystemProofs!RecordsFollowReports` | the record of a live process is its last report, unless one is on its way |
| `SchedSystemProofs!HeardLevelsAreCurrent` | at rest, who has read a signal knows the level of the live processes |
| `KernelRunsProofs!ObjectsStayExclusive` | no kernel object is used by two launches, or in the pool and in use |
| `KernelRunsProofs!RunsWaitForTheirHeader` | a run starts after the write of the header it needs |
| `KernelRunsProofs!TheOrderIsKept` | the queue refines `InOrderQueue` |
| `PreemptedKernelProofs!BlockedTogether` | the blocked work-items of a group are blocked at one barrier |
| `PreemptedKernelProofs!WrittenIsRead` | writes before a barrier are seen behind it, across runs |
| `PreemptedKernelProofs!PreemptionIsHidden` | the preempted kernel refines `KernelItems` |
| `BuildProofs!OwnBuildsAreWhole` | a build's own results are whole |
| `BuildProofs!HitsAreAnswered` | a cache hit finds its files |
| `TablesProofs!TablesAreTyped` | types; no count goes below zero |
| `TablesProofs!LegalCallsAreServed` | legal calls find their entries; inserting never finds an old one |
| `TablesProofs!EntriesAreReferences` | entries and counts are those of the application's references |

Assumptions on constants: `HighProcs`, `LowProcs`, `Tasks`, `Launches` and the
`Threads` of `Tables` are finite, `Kinds` is a subset of `Bits`, `COMPUTING` is a
kind, bounds are naturals, and group sizes, pipe sizes and numbers of rounds are
positive.  In
`SchedSystem` no process is both of high and of low priority: `CLPKM_PRIORITY`
chooses one of the two services (`ScheduleService.cpp:104`).  Objects of
different types differ, and names that stand for nothing (`NULL`, the header's
write) name no object or command.  `Groups`, in `PreemptedKernel`, may be any
set; a group is finite.

*Daemon.*  `CensusInv` is `TypeOK /\ RunLevelIsCensus`.  The types alone are
not inductive: that a count stays a natural when an old bit is subtracted needs
the count to be the number of processes with that bit.  `CensusAfterUpdate` is
the arithmetic of one `UpdateProcBitmap`: recording a map for a process adds it
to the sets of the kinds of the new map, removes it from the others, and the
cardinalities follow by adding or removing one element.  `AnnouncementsCorrect`
and `DeparturesCorrect` use the types; the latter has two lemmas about the
inbox, one for appending (a departure stays behind what its process sent), one
for reading (a request of a dead process may put it back on record, but then
its departure is still to come).

*High-priority process.*  `IInv` joins the types, `CountIsRunning`,
`NoLostTick` and `ToldIsReported`.  `NoLostTick` needs `CountIsRunning`: that a
bit rises exactly when the count leaves 0, the moment the timer is armed, is a
fact about the count.  `StartKeepsIInv` and `EndKeepsIInv` are the two critical
sections; `UpdateMapKeepsIInv` shows that a tick is consumed only together with
the report of its change.  The refinement maps a start or end to `Run`, the
worker's locked section to `Report`, the daemon's step and the return to
`Record` and `Return`, the rest to stuttering.

*Low-priority process.*  `NoLostWakeup` is not inductive: when the worker ends a
batch, what matters is that each sleeper's bit was in `OldBitmap`.  `IInv` has
that as `SleepersAreCovered`, and that notifications are pending only while the
worker is notifying.

*The composed system.*  `StepsAreTheDaemons` shows that a step of `SchedSystem`
is a step of `Daemon` or a report, so the lemmas of `DaemonProofs` apply to all
but reports, and `ReportKeepsBus` treats those.  For `RecordFollowsReports` the
invariant is `ReportsAreTracked`: a live process has at most one message in the
inbox, its last report; while the call waits the report is there, and otherwise
it is the process's record.  `HeardLevelIsCurrent` needs two more:
`OnlyHighAreRecorded`, for the census is of the processes on record, and
`LevelIsLastHeard` (a process that has read a signal has either its newest
announcement unread or its level current), with `SleepsAnnounced`, which says
what the newest announcement is.

*Kernel runs.*  `ObjectInv` adds to `ObjectsAreExclusive` that a launch has its
object from `PrepareKernel` until its `Work` is freed (`WorkHasObject`).
`ProgressInv` says how far each command is: what has not been enqueued has left
no trace, `BlockerMutex` is held by the launch at the queue's end, what has been
issued is in the queue.  `RunsSeeTheirHeader` then follows with `HeaderIsAwaited`:
a header write that is under way is in the wait list of the run to come.  For
the order, `OrderKept` says that of two commands in an in-order queue the later
one has not begun before the earlier one is over, because it waits for it or for
one in between; `BlockerIsLast` is why a new command need only wait for the
blocker, and `UserListIsKept` that the application's own events are waited for.
Each step is then a step of `InOrderQueue` or a stutter.

*Preempted kernel.*  `SameBarrier` is far from inductive.  Its invariant says,
of each group, that its work-items are `InStep` (from one opening of a barrier
to the next they all enter, work, look, leave or pass), that they have been let
through equally many barriers (`FreedTogether`, of which a loop entry, a barrier
entry and its negative give different accounts), that each stop is the group's
size less the work-items counted at it (`StopsCount`), and that who has looked
knows whether all are there (`LooksAreRight`).  The refinement and `SameBarrier`
follow.  `WritesAreSeen` needs four more, about the `__local` words: the final
stop counts who has left (`FinalStopCounts`); a batch of leaving work-items has
the numbers from its size downwards (`BatchesAreRight`); in the last batch every
word is saved or in the share of somebody who has yet to save
(`StoresAreRight`), for which `SharesCover` shows that the shares of a batch are
all words; and a word, or its copy between two runs, is the last round its
work-item came to a barrier in (`WordsAreRight`).

*Build.*  A driver that has found its entry never writes and one that has not
never reads (`HitReads`), and nothing removes files of the entry (`FilesStay`).
What an own build returns therefore depends on its own steps alone, whatever
others do to the cache.

*Tables.*  The invariant is an account for each object.  For queues and
programs, the vendor's count is the application's references and those that
calls under way have yet to give back (`CountIsRight`), and the entry is there
until the call that erases it (`QueueEntry`, `ProgramEntry`); for kernels the
same holds of `RefCount` while the entry is there (`KernelEntry`).  That two
releases do not both see the last reference rests on the locks: a table has at
most one thread that writes or is about to (`OneIsStrong`), and a release is
that thread until the vendor has released (`ReleaseIsStrong`).  A reused handle
starts a new account, since the vendor gives it out again only at count 0.

Out of the prover's reach, and so model-checked only:

* the liveness properties (fairness and `ENABLED`), and `Tables!CallsGoOn`,
  which speaks of `ENABLED` steps;
* `TaskBitmap!WordsAreSets` (bitwise operators) and
  `Inliner!InliningKeepsMeaning` (a recursive evaluation);
* the three properties of `Launch`, which are about sums and products over the
  dimensions and variables of a launch, built with folds: what a fold computes
  for sequences of any length needs induction.

## 5. Not modelled

* Start-up of the daemon, the configuration file and its reload on SIGHUP; bus
  failures, each of which ends the daemon.
* The configuration decides nothing in the daemon, which hands it out, and no
  document says what a reload guarantees.
* The contents of kernel arguments: `clSetKernelArg` keeps a pointer, which the
  launch reads.  Callbacks are no part of `Tables`: they take `KernelInfo.Mutex`
  for a moment and no table lock.  A driver that ran all its callbacks on one
  thread could make a blocking command, a launch and a `clReleaseKernel` wait
  for each other through that mutex.
* Calls of OpenCL that break its rules, other than those the code answers with
  an error (`IsRefused`, requests with invalid bits).
* Device properties beyond the limits on work-groups; `ToHumanReadable`.
* What the instrumentor finds out before it generates code: which variables are
  live, and costs; `return` inside a kernel and loops with `continue`.  In
  `PreemptedKernel` the saved variables are those live at each resume point.
  Variables aligned beyond their size (by an attribute) are left out of
  `Launch`; the device library copies them by words and drops the rest.
* In the inliner: functions with several returns or statements before them,
  `void` functions, macros, prototypes.
* Clang and its patches, the vendor's OpenCL, logging, resource wrappers,
  benchmarks.
* Contents of code, profiles and buffers, beyond whole or partial, written or
  not.

## 6. Plan

All components that keep state of their own are modelled, and their safety
invariants and refinements are proved, but for `CallsGoOn`, `WordsAreSets` and
the pure computations of `Launch` and `Inliner`.  What could come next:

1. `Launch`: the facts about a single dimension and a single variable that its
   properties rest on (`Pad` reaches the next multiple of 4, the shares of
   `StoreLocal` are disjoint) do not need induction.
2. An invariant for `CallsGoOn` without `ENABLED`: which thread a call waits
   for, and that this relation has no cycle.

Possible extensions of the model: a second work-group in `PreemptedKernel` (two
groups of two, one round, are about 37,000 states and show nothing that one
group does not: groups share no state but the header, whose division is in
`HeaderIsByGroup`), an early `return` in its kernel, and functions of several
statements in `Inliner`.
