----------------------------- MODULE LowPrioProc -----------------------------
(***************************************************************************)
(* The schedule service client of a low-priority process,                   *)
(* src/runtime/ScheduleService.cpp: threads that wait in SchedStart on the  *)
(* condition variable of their kind until no high-priority process runs     *)
(* that kind, and LowPrioProcWorker, which reads RunLevelChanged and wakes  *)
(* them.                                                                    *)
(*                                                                          *)
(* The worker holds Mutex from the first sd_bus_process of a batch until    *)
(* the batch is exhausted; a thread's critical section is one step.         *)
(***************************************************************************)
EXTENDS Integers, FiniteSets, Sequences

CONSTANTS
  Threads,      \* application and callback threads that schedule tasks
  Kinds,        \* task_kind
  MaxSignals    \* bound: messages waiting on the bus

ASSUME BoundAssumption == MaxSignals \in Nat

VARIABLES
  thread,       \* per thread: its state and the kind it asks for
  Bitmap,       \* the run level as this process knows it
  signals,      \* messages waiting on the bus connection
  OldBitmap,    \* the level at the worker's last notification
  toNotify,     \* condition variables the worker has yet to notify
  worker,       \* where the worker is
  terminated    \* TermEventFd is readable

workerVars == <<OldBitmap, toNotify, worker>>
vars       == <<thread, Bitmap, signals, workerVars, terminated>>

Level(m)   == [type |-> "level", map |-> m]
DaemonGone == [type |-> "gone", map |-> {}]

Alive    == worker # "aborted"

(* X_Y, just before X, is X with a plausible bug: one a property below would  *)
(* notice.                                                                   *)

LockFree_BetweenMessages == TRUE
LockFree == worker # "process"

-----------------------------------------------------------------------------
(* SchedStart on a low-priority process. *)

\* Take the mutex and test the predicate: return, or join the wait set.
TestPredicate(t, k) ==
  thread' = [thread EXCEPT ![t] =
               [st |-> IF k \in Bitmap THEN "waiting" ELSE "running", kind |-> k]]

SchedStart(t, k) ==
  /\ Alive
  /\ LockFree
  /\ thread[t].st = "idle"
  /\ TestPredicate(t, k)
  /\ UNCHANGED <<Bitmap, signals, workerVars, terminated>>

\* wait returns, with or without a notification; the predicate decides.
WakeSpuriously(t) ==
  /\ Alive
  /\ thread[t].st = "waiting"
  /\ thread' = [thread EXCEPT ![t].st = "woken"]
  /\ UNCHANGED <<Bitmap, signals, workerVars, terminated>>

Recheck(t) ==
  /\ Alive
  /\ LockFree
  /\ thread[t].st = "woken"
  /\ TestPredicate(t, thread[t].kind)
  /\ UNCHANGED <<Bitmap, signals, workerVars, terminated>>

\* The guard dies; SchedEnd returns at once on a low-priority process.
SchedEnd(t) ==
  /\ Alive
  /\ thread[t].st = "running"
  /\ thread' = [thread EXCEPT ![t].st = "idle"]
  /\ UNCHANGED <<Bitmap, signals, workerVars, terminated>>

-----------------------------------------------------------------------------
(* LowPrioProcWorker. *)

\* Take the mutex, first and after every ppoll; leave the loop if ppoll saw the
\* termination event.
TakeLock ==
  /\ worker = "lock"
  /\ worker' = "process"
  /\ UNCHANGED <<thread, Bitmap, signals, OldBitmap, toNotify, terminated>>

\* Where the worker is after a message.
AfterMessage_Ignored(msg) == worker
AfterMessage(msg) == IF msg.type = "gone" THEN "aborted" ELSE worker

\* sd_bus_process dispatches one message: RunLevelChangeWatcher stores the
\* level, DaemonNameOwnerChangeWatcher aborts the process.
ProcessSignal ==
  /\ worker = "process"
  /\ signals # <<>>
  /\ signals' = Tail(signals)
  /\ Bitmap' = IF Head(signals).type = "level" THEN Head(signals).map ELSE Bitmap
  /\ worker' = AfterMessage(Head(signals))
  /\ UNCHANGED <<thread, OldBitmap, toNotify, terminated>>

\* The bits that went from 1 to 0.
ClearedBitmap == OldBitmap \ Bitmap

\* sd_bus_process returned 0: find the bits that went from 1 to 0, unlock.
EndBatch ==
  /\ worker = "process"
  /\ signals = <<>>
  /\ toNotify' = ClearedBitmap
  /\ OldBitmap' = Bitmap
  /\ worker' = "notify"
  /\ UNCHANGED <<thread, Bitmap, signals, terminated>>

WaitsFor(t, k) == thread[t].st = "waiting" /\ thread[t].kind = k

\* The threads a notification of CV[k] wakes.
Woken_One(k) == LET W == {t \in Threads : WaitsFor(t, k)}
                IN  IF W = {} THEN {} ELSE {CHOOSE t \in W : TRUE}
Woken(k) == {t \in Threads : WaitsFor(t, k)}

NotifyAll(k) ==
  /\ worker = "notify"
  /\ k \in toNotify
  /\ toNotify' = toNotify \ {k}
  /\ thread' = [t \in Threads |->
                  IF t \in Woken(k) THEN [thread[t] EXCEPT !.st = "woken"]
                                    ELSE thread[t]]
  /\ UNCHANGED <<Bitmap, signals, OldBitmap, worker, terminated>>

\* ppoll returns.
Poll ==
  /\ worker = "notify"
  /\ toNotify = {}
  /\ signals # <<>> \/ terminated
  /\ worker' = IF terminated THEN "exit" ELSE "lock"
  /\ UNCHANGED <<thread, Bitmap, signals, OldBitmap, toNotify, terminated>>

Terminate ==
  /\ Alive
  /\ ~terminated
  /\ terminated' = TRUE
  /\ UNCHANGED <<thread, Bitmap, signals, workerVars>>

-----------------------------------------------------------------------------
(* The bus. *)

RunLevelChanged(m) ==
  /\ Alive
  /\ Len(signals) < MaxSignals
  /\ DaemonGone \notin {signals[i] : i \in DOMAIN signals}
  /\ signals' = Append(signals, Level(m))
  /\ UNCHANGED <<thread, Bitmap, workerVars, terminated>>

\* The daemon's name loses its owner: nothing follows.
DaemonDisconnects ==
  /\ Alive
  /\ DaemonGone \notin {signals[i] : i \in DOMAIN signals}
  /\ signals' = Append(signals, DaemonGone)
  /\ UNCHANGED <<thread, Bitmap, workerVars, terminated>>

-----------------------------------------------------------------------------
\* StartBus has read the configuration: Bitmap is what GetConfig replied, and
\* signals that came before the reply are queued.
Init ==
  /\ thread \in [Threads -> [st : {"idle"}, kind : Kinds]]
  /\ Bitmap \in SUBSET Kinds
  /\ signals \in {<<>>} \cup {<<Level(m)>> : m \in SUBSET Kinds}
  /\ OldBitmap = Bitmap
  /\ toNotify = {}
  /\ worker = "lock"
  /\ terminated = FALSE

Worker == TakeLock \/ ProcessSignal \/ EndBatch \/ (\E k \in Kinds : NotifyAll(k)) \/ Poll

Next ==
  \/ \E t \in Threads, k \in Kinds : SchedStart(t, k)
  \/ \E t \in Threads : WakeSpuriously(t)
  \/ \E t \in Threads : Recheck(t)
  \/ \E t \in Threads : SchedEnd(t)
  \/ TakeLock
  \/ ProcessSignal
  \/ EndBatch
  \/ \E k \in Kinds : NotifyAll(k)
  \/ Poll
  \/ Terminate
  \/ \E m \in SUBSET Kinds : RunLevelChanged(m)
  \/ DaemonDisconnects

Spec == Init /\ [][Next]_vars

\* The worker runs, and a woken thread gets a mutex that stays free.
Fairness == WF_vars(Worker) /\ \A t \in Threads : WF_vars(Recheck(t))

FairSpec == Spec /\ Fairness

-----------------------------------------------------------------------------
(* Properties. *)

Messages == [type : {"level"}, map : SUBSET Kinds] \cup {DaemonGone}

\* The type invariant.
TypeOK ==
  /\ thread \in [Threads -> [st : {"idle", "waiting", "woken", "running"}, kind : Kinds]]
  /\ Bitmap \subseteq Kinds
  /\ signals \in Seq(Messages)
  /\ OldBitmap \subseteq Kinds
  /\ toNotify \subseteq Kinds
  /\ worker \in {"lock", "process", "notify", "exit", "aborted"}
  /\ terminated \in BOOLEAN

\* No wakeup is lost: a thread asleep on a kind the process knows to be free is
\* one the worker is about to notify, because it will see the bit fall at the
\* end of this batch or has seen it fall and not notified that kind yet.
NoLostWakeup ==
  \A t \in Threads, k \in Kinds :
    WaitsFor(t, k) /\ k \notin Bitmap /\ Alive =>
      \/ worker = "process" /\ k \in OldBitmap
      \/ worker = "notify" /\ k \in toNotify

\* Outside a batch the worker has compared the level with its OldBitmap: no
\* thread can fall asleep on a bit whose fall the worker would overlook.
SleepersAreCovered ==
  /\ Alive /\ LockFree => OldBitmap = Bitmap
  /\ \A t \in Threads, k \in Kinds : WaitsFor(t, k) => k \in OldBitmap \cup toNotify

\* The signals stop.
QuietBus == <>[](signals = <<>>)

\* A thread that waits for a kind which is known to be free starts, once the
\* bus is quiet, unless the kind is taken again or the process ends.
WaiterStarts ==
  QuietBus =>
    \A t \in Threads, k \in Kinds :
      (WaitsFor(t, k) /\ k \notin Bitmap) ~>
        (thread[t].st = "running" \/ k \in Bitmap \/ ~Alive)

\* A low-priority process does not outlive the daemon ("the daemon has
\* disconnected!"), whatever is queued before the news and whoever waits.
AbortsWithoutDaemon ==
  (DaemonGone \in {signals[i] : i \in DOMAIN signals}) ~> (~Alive \/ terminated)
=============================================================================
