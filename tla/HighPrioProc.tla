---------------------------- MODULE HighPrioProc ----------------------------
(***************************************************************************)
(* The schedule service client of a high-priority process,                  *)
(* src/runtime/ScheduleService.cpp: the API calls that hold a SchedGuard,   *)
(* the event callbacks that end a task, the per-kind timerfds, and          *)
(* HighPrioProcWorker, which tells the daemon what the process is running.  *)
(*                                                                          *)
(* SchedStart, SchedEnd and the worker's locked section hold Mutex from end *)
(* to end, so each is one step.  A timerfd is what armed it (SchedStart: in *)
(* 1 ns, SchedEnd: in 1 s) and whether it has expired unread.               *)
(***************************************************************************)
EXTENDS Integers, FiniteSets

CONSTANTS
  Tasks,        \* API calls that may be in flight at once
  Kinds,        \* task_kind
  COMPUTING     \* the kind whose value is 0

ASSUME TasksAssumption == IsFiniteSet(Tasks)
ASSUME KindsAssumption == COMPUTING \in Kinds

VARIABLES
  task,         \* per call: its state, its kind, the sign of its callback data
  ownedEvents,  \* calls whose event only the runtime refers to, not yet released
  Count,        \* high_prio_task::Count
  Bitmap,       \* the kinds this process is running
  timer,        \* who armed TimerFd[k] last, "off" once read
  fired,        \* TimerFd[k] is readable
  PollFd,       \* revents of the worker's last ppoll, as the kinds with POLLIN
  OldBitmap,    \* the worker's last reported bitmap
  worker,       \* where the worker is
  told,         \* the bitmap the daemon has on record
  terminated    \* TermEventFd is readable

clientVars == <<task, ownedEvents, Count, Bitmap>>
workerVars == <<PollFd, OldBitmap, worker, told>>
vars       == <<clientVars, timer, fired, workerVars, terminated>>

-----------------------------------------------------------------------------
(* Scheduling a task. *)

\* timerfd_settime: whatever expired before is forgotten.
Arm(k, by) ==
  /\ timer' = [timer EXCEPT ![k] = by]
  /\ fired' = [fired EXCEPT ![k] = FALSE]

(* X_Y, just before X, is X with a plausible bug: one a property below would  *)
(* notice.                                                                   *)

\* Count after one more task of kind k, and whether it is the first one.
Started_FirstOnly(k) == IF Count[k] = 0 THEN 1 ELSE Count[k]
Started(k) == Count[k] + 1

IsFirst_UnlessArmed(k) == Count[k] = 0 /\ timer[k] = "off"
IsFirst(k) == Count[k] = 0

\* SchedStart on a high-priority process never waits.
SchedStart(t, k) ==
  /\ task[t].st = "idle"
  /\ task' = [task EXCEPT ![t] = [st |-> "guard", kind |-> k, negative |-> FALSE]]
  /\ Count' = [Count EXCEPT ![k] = Started(k)]
  /\ Bitmap' = Bitmap \cup {k}
  /\ IF IsFirst(k) THEN Arm(k, "start") ELSE UNCHANGED <<timer, fired>>
  /\ UNCHANGED <<ownedEvents, workerVars, terminated>>

\* The last task of kind k ends.
IsLast_Any(k) == Count[k] > 0
IsLast(k) == Count[k] = 1

SchedEnd(k) ==
  /\ Count' = [Count EXCEPT ![k] = @ - 1]
  /\ Bitmap' = IF IsLast(k) THEN Bitmap \ {k} ELSE Bitmap \cup {k}
  /\ IF IsLast(k) THEN Arm(k, "end") ELSE UNCHANGED <<timer, fired>>

\* The guard is destroyed unbound: the call was synchronous or it failed.
DestroyGuard(t) ==
  /\ task[t].st = "guard"
  /\ SchedEnd(task[t].kind)
  /\ task' = [task EXCEPT ![t].st = "idle"]
  /\ UNCHANGED <<ownedEvents, workerVars, terminated>>

\* BindToEvent: the kind travels as the callback's data, negated when the
\* callback has to release the event; -0 is 0.
BindToEvent(t, GottaReleaseEvent) ==
  /\ task[t].st = "guard"
  /\ task' = [task EXCEPT ![t].st = "bound",
                          ![t].negative = GottaReleaseEvent /\ task[t].kind # COMPUTING]
  /\ ownedEvents' = IF GottaReleaseEvent THEN ownedEvents \cup {t} ELSE ownedEvents
  /\ UNCHANGED <<Count, Bitmap, timer, fired, workerVars, terminated>>

SchedEndOnEventCallback(t) ==
  /\ task[t].st = "bound"
  /\ ownedEvents' = IF task[t].negative THEN ownedEvents \ {t} ELSE ownedEvents
  /\ SchedEnd(task[t].kind)
  /\ task' = [task EXCEPT ![t].st = "idle"]
  /\ UNCHANGED <<workerVars, terminated>>

\* The kernel's timer expires.
Expire(k) ==
  /\ timer[k] # "off"
  /\ ~fired[k]
  /\ fired' = [fired EXCEPT ![k] = TRUE]
  /\ UNCHANGED <<clientVars, timer, workerVars, terminated>>

-----------------------------------------------------------------------------
(* HighPrioProcWorker. *)

\* ppoll returns: with the termination event the loop is left.
Poll ==
  /\ worker = "poll"
  /\ terminated \/ \E k \in Kinds : fired[k]
  /\ PollFd' = {k \in Kinds : fired[k]}
  /\ worker' = IF terminated THEN "exit" ELSE "lock"
  /\ UNCHANGED <<clientVars, timer, fired, OldBitmap, told, terminated>>

\* The kinds that turned 0 since the last report.
ClearedBitmap == OldBitmap \ Bitmap

\* The timers read here: reported by ppoll and not re-armed since.
Ticks_Stale == PollFd
Ticks == {k \in PollFd : fired[k]}

\* A cleared bit is reported only if its timer went off.
MapToSet_TickedOnly == (Bitmap \cap Ticks) \cup (OldBitmap \ Ticks)
MapToSet_NeverClears == Bitmap \cup ClearedBitmap
MapToSet == Bitmap \cup (ClearedBitmap \ Ticks)

IsChanged_OnRaise == MapToSet \ OldBitmap # {}
IsChanged == MapToSet # OldBitmap

UpdateMap ==
  /\ worker = "lock"
  /\ timer' = [k \in Kinds |-> IF k \in Ticks THEN "off" ELSE timer[k]]
  /\ fired' = [k \in Kinds |-> fired[k] /\ k \notin Ticks]
  /\ OldBitmap' = MapToSet
  /\ worker' = IF IsChanged THEN "call" ELSE "poll"
  /\ UNCHANGED <<clientVars, PollFd, told, terminated>>

\* The daemon executes the worker's SetHighPrioTaskBitmap call.
DaemonSets ==
  /\ worker = "call"
  /\ told' = OldBitmap
  /\ worker' = "reply"
  /\ UNCHANGED <<clientVars, timer, fired, PollFd, OldBitmap, terminated>>

\* sd_bus_call_method returns.
CallReturns ==
  /\ worker = "reply"
  /\ worker' = "poll"
  /\ UNCHANGED <<clientVars, timer, fired, PollFd, OldBitmap, told, terminated>>

\* Terminate, called while the process exits.
Terminate ==
  /\ ~terminated
  /\ terminated' = TRUE
  /\ UNCHANGED <<clientVars, timer, fired, workerVars>>

-----------------------------------------------------------------------------
Init ==
  /\ task = [t \in Tasks |-> [st |-> "idle", kind |-> COMPUTING, negative |-> FALSE]]
  /\ ownedEvents = {}
  /\ Count = [k \in Kinds |-> 0]
  /\ Bitmap = {}
  /\ timer = [k \in Kinds |-> "off"]
  /\ fired = [k \in Kinds |-> FALSE]
  /\ PollFd = {}
  /\ OldBitmap = {}
  /\ worker = "poll"
  /\ told = {}
  /\ terminated = FALSE

Worker == Poll \/ UpdateMap \/ DaemonSets \/ CallReturns

Next ==
  \/ \E t \in Tasks, k \in Kinds : SchedStart(t, k)
  \/ \E t \in Tasks : DestroyGuard(t)
  \/ \E t \in Tasks, GottaReleaseEvent \in BOOLEAN : BindToEvent(t, GottaReleaseEvent)
  \/ \E t \in Tasks : SchedEndOnEventCallback(t)
  \/ \E k \in Kinds : Expire(k)
  \/ Poll
  \/ UpdateMap
  \/ DaemonSets
  \/ CallReturns
  \/ Terminate

Spec == Init /\ [][Next]_vars

\* The worker thread is scheduled, the daemon answers, armed timers expire.
Fairness == WF_vars(Worker) /\ \A k \in Kinds : WF_vars(Expire(k))

FairSpec == Spec /\ Fairness

-----------------------------------------------------------------------------
(* Properties. *)

\* The type invariant: every Count is a natural number, so --Count never wraps.
TypeOK ==
  /\ task \in [Tasks -> [st : {"idle", "guard", "bound"}, kind : Kinds,
                         negative : BOOLEAN]]
  /\ ownedEvents \subseteq Tasks
  /\ Count \in [Kinds -> Nat]
  /\ Bitmap \subseteq Kinds
  /\ timer \in [Kinds -> {"off", "start", "end"}]
  /\ fired \in [Kinds -> BOOLEAN]
  /\ PollFd \subseteq Kinds
  /\ OldBitmap \subseteq Kinds
  /\ worker \in {"poll", "lock", "call", "reply", "exit"}
  /\ told \subseteq Kinds
  /\ terminated \in BOOLEAN

\* The calls in flight of kind k: guards not destroyed, events not completed.
Running(k) == {t \in Tasks : task[t].st # "idle" /\ task[t].kind = k}

\* Every task is started once and ended once, by its guard or by its event's
\* callback: the count is the number of calls in flight, the bit says whether
\* there is one.
CountIsRunning ==
  /\ \A k \in Kinds : Count[k] = Cardinality(Running(k))
  /\ Bitmap = {k \in Kinds : Running(k) # {}}

\* No change is lost: while what the worker has reported differs from what the
\* process runs, the timer of that kind is armed by the change and has not been
\* consumed, whichever of its ticks, ppoll and re-arming came first.
NoLostTick ==
  \A k \in Kinds :
    /\ k \in Bitmap \ OldBitmap => timer[k] = "start"
    /\ k \in OldBitmap \ Bitmap => timer[k] = "end"

\* What the daemon has on record is the last report, unless one is on its way.
ToldIsReported == worker # "call" => told = OldBitmap

\* A kind is given back only when a whole second passed since its last task
\* ended ("Reserve the resource for a while"): by the tick of the timer SchedEnd
\* armed, never by an older one of SchedStart's.
ReservesTheResource ==
  [][\A k \in OldBitmap \ OldBitmap' :
       k \notin Bitmap /\ timer[k] = "end" /\ fired[k]]_vars

\* A kind that keeps running becomes known to the daemon, and one that stays
\* unused is given back.
RunningBecomesKnown ==
  \A k \in Kinds :
    /\ (k \in Bitmap) ~> (k \in told \/ k \notin Bitmap \/ terminated)
    /\ (k \notin Bitmap) ~> (k \notin told \/ k \in Bitmap \/ terminated)

\* An event bound with GottaReleaseEvent is released by the callback: the only
\* ones not released belong to tasks still bound.
BoundEventsReleased == \A t \in ownedEvents : task[t].st = "bound"

-----------------------------------------------------------------------------
\* What the rest of the system relies on: the client of HighClients.
Client == INSTANCE HighClients WITH
  HighProcs <- {"self"},
  running   <- [h \in {"self"} |-> Bitmap],
  reported  <- [h \in {"self"} |-> OldBitmap],
  recorded  <- [h \in {"self"} |-> told],
  calling   <- [h \in {"self"} |->
                  IF worker \in {"call", "reply"} THEN worker ELSE "no"]

\* Every report covers all the process runs when it is made and keeps, beyond
\* that, only kinds reported before; reports do not overlap.
IsHighClient == Client!Spec
=============================================================================
