------------------------------ MODULE KernelRuns ------------------------------
(***************************************************************************)
(* A low-priority process's command queue: the calls that put commands in  *)
(* it (clEnqueueNDRangeKernel in Interface.cpp, every other command        *)
(* through Reorder in Support.cpp), the runs a kernel is cut into on the   *)
(* out-of-order shadow queue (MetaEnqueue), and the callback that starts   *)
(* the next run or finishes (ResumeOrFinish, Callback.cpp).                *)
(*                                                                         *)
(* All kernel commands run one kernel of the application; its KernelInfo,  *)
(* with the pool of kernel objects, goes away at the last clReleaseKernel. *)
(* A vendor call or a command on the device may fail, MaxFailure times in  *)
(* a behaviour.  Waiting for a free run level is not modelled here (see    *)
(* LowPrioProc): where the code waits, a step may be delayed at will.      *)
(*                                                                         *)
(* What an object that has been freed does is undefined: usedFreed records *)
(* the use, and nothing happens after it.                                  *)
(*                                                                         *)
(* X_Y, defined just before X, is X with a plausible bug.                  *)
(***************************************************************************)
EXTENDS Integers, Sequences, FiniteSets

CONSTANTS Launches,     \* the calls of clEnqueueNDRangeKernel
          Copies,       \* the calls that enqueue another command
          NULL,         \* no event, no kernel object
          MaxRun,       \* the most runs a kernel is cut into
          MaxFailure,   \* the most failures in a behaviour
          MayRelease    \* does the application release the kernel?

Commands == Launches \cup Copies
Objects == 1 .. Cardinality(Launches)
HeaderWrite == "header write"         \* its event, in the wait list of a run

ASSUME ConstantsAssumption ==
  /\ IsFiniteSet(Launches) /\ Launches \cap Copies = {}
  /\ NULL \notin Commands \cup Objects /\ HeaderWrite \notin Commands
  /\ MaxRun \in Nat \ {0} /\ MaxFailure \in Nat /\ MayRelease \in BOOLEAN

VARIABLES
  shallReorder,   \* QueueInfo.ShallReorder: an in-order queue
  taskBlocker,    \* QueueInfo.TaskBlocker
  blockerLock,    \* who holds QueueInfo.BlockerMutex
  pool,           \* KernelInfo.Pool
  inTable,        \* is there a KernelInfo?
  call,           \* how far the call of each command is
  object,         \* Work.Kernel
  work,           \* the CallbackData: "none", "live" or "freed"
  list,           \* the wait list a command is enqueued with
  userList,       \* the wait list the application passed
  run,            \* a kernel's run on the device, or a copy
  runs,           \* how many there have been
  headerWrite,    \* the last header write: "none", "queued", "done", "failed"
  hooked,         \* is ResumeOrFinish set on the run's header read?
  callback,       \* how far the callback is
  status,         \* of the event that ends the command
  queue,          \* the commands in the application's queue, markers included
  failures, usedFreed

queueInfo == <<shallReorder, taskBlocker, blockerLock>>
host == <<taskBlocker, blockerLock, pool, inTable, call>>
works == <<object, work, callback, hooked>>
device == <<run, runs, headerWrite, status>>
lists == <<list, userList, queue>>
vars == <<shallReorder, host, works, device, lists, failures, usedFreed>>

Fails == failures < MaxFailure /\ failures' = failures + 1
Works == UNCHANGED failures

Init ==
  /\ shallReorder \in BOOLEAN
  /\ taskBlocker = NULL /\ blockerLock = NULL
  /\ pool = << >> /\ inTable = TRUE
  /\ call = [c \in Commands |-> "none"]
  /\ object = [c \in Launches |-> NULL]
  /\ work = [c \in Launches |-> "none"]
  /\ list = [c \in Commands |-> {}] /\ userList = [c \in Commands |-> {}]
  /\ run = [c \in Commands |-> "none"] /\ runs = [c \in Launches |-> 0]
  /\ headerWrite = [c \in Launches |-> "none"]
  /\ hooked = [c \in Launches |-> FALSE]
  /\ callback = [c \in Launches |-> "none"]
  /\ status = [c \in Commands |-> "pending"]
  /\ queue = << >>
  /\ failures = 0
  /\ usedFreed = "nothing"

-----------------------------------------------------------------------------
(* The calls. *)

\* A kernel object nobody has: what clCreateKernel returns.
InUse == {object[c] : c \in Launches} \cup {pool[n] : n \in DOMAIN pool}
NewObject == CHOOSE o \in Objects : o \notin InUse

\* Step 0: a kernel object from the pool, or a new one.
Pooled_Kept(p) == p
Pooled(p) == SubSeq(p, 1, Len(p) - 1)

PrepareKernel(c) ==
  /\ call[c] = "none" /\ inTable
  /\ \/ /\ pool # << >>
        /\ object' = [object EXCEPT ![c] = pool[Len(pool)]]
        /\ pool' = Pooled(pool)
        /\ call' = [call EXCEPT ![c] = "prepared"]
        /\ Works
     \/ /\ pool = << >>
        /\ \/ /\ object' = [object EXCEPT ![c] = NewObject]
              /\ call' = [call EXCEPT ![c] = "prepared"]
              /\ Works
           \/ /\ Fails
              /\ call' = [call EXCEPT ![c] = "refused"]
              /\ UNCHANGED object
        /\ UNCHANGED pool
  /\ UNCHANGED <<shallReorder, taskBlocker, blockerLock, inTable, work, callback,
                 hooked, device, lists, usedFreed>>

\* Events the application has been given.
Returned == {c \in Commands : call[c] = "returned"}

Blockers_User(c) == {}
Blockers(c) == IF taskBlocker = NULL THEN {} ELSE {taskBlocker}

\* The wait list: the application's, and the blocker.  BlockerMutex is held
\* from here to the end of the call.
MakeList(c, more) ==
  /\ blockerLock = NULL
  /\ \E user \in SUBSET Returned :
       /\ userList' = [userList EXCEPT ![c] = user]
       /\ list' = [list EXCEPT ![c] = user \cup Blockers(c) \cup more]

\* MetaEnqueue, under the lock of the Work: the run, the read of the header
\* that waits for it, the callback on the read, a flush.  It may fail before
\* the run is enqueued, after it, or after the callback is set.
MetaEnqueue(c, succeeds, fails) ==
  \/ /\ Works /\ succeeds
     /\ run' = [run EXCEPT ![c] = "queued"]
     /\ hooked' = [hooked EXCEPT ![c] = TRUE]
  \/ /\ Fails /\ fails
     /\ \/ UNCHANGED <<run, hooked>>
        \/ run' = [run EXCEPT ![c] = "queued"] /\ UNCHANGED hooked
        \/ run' = [run EXCEPT ![c] = "queued"] /\ hooked' = [hooked EXCEPT ![c] = TRUE]

\* The first run, which also waits for the metadata to be written.
Launch(c) ==
  /\ call[c] = "prepared"
  /\ MakeList(c, {HeaderWrite})
  /\ MetaEnqueue(c,
       /\ work' = [work EXCEPT ![c] = "live"]
       /\ call' = [call EXCEPT ![c] = "queued"]
       /\ queue' = Append(queue, c)
       /\ blockerLock' = c
       /\ UNCHANGED object,
       /\ work' = [work EXCEPT ![c] = "freed"]
       /\ call' = [call EXCEPT ![c] = "refused"]
       /\ object' = [object EXCEPT ![c] = NULL]
       /\ UNCHANGED <<blockerLock, queue>>)
  /\ headerWrite' = [headerWrite EXCEPT ![c] = "queued"]
  /\ runs' = [runs EXCEPT ![c] = 1]
  /\ UNCHANGED <<shallReorder, taskBlocker, pool, inTable, callback, status, usedFreed>>

\* The marker that stands for the kernel in the application's queue, and the
\* blocker of the commands to come.
Blocker_Unchanged(c) == taskBlocker
Blocker(c) == IF shallReorder THEN c ELSE taskBlocker

EnqueueMarker(c) ==
  /\ call[c] = "queued"
  /\ blockerLock' = NULL
  /\ \/ /\ Works
        /\ taskBlocker' = Blocker(c)
        /\ call' = [call EXCEPT ![c] = "returned"]
        /\ UNCHANGED <<work, object, usedFreed>>
     \/ /\ Fails
        /\ call' = [call EXCEPT ![c] = "refused"]
        /\ IF work[c] = "live"
           THEN /\ work' = [work EXCEPT ![c] = "freed"]
                /\ object' = [object EXCEPT ![c] = NULL]
                /\ UNCHANGED usedFreed
           ELSE usedFreed' = "work" /\ UNCHANGED <<work, object>>
        /\ UNCHANGED taskBlocker
  /\ UNCHANGED <<shallReorder, pool, inTable, callback, hooked, device, lists>>

\* ReorderCore: a command that is no kernel.
Copy(c) ==
  /\ c \in Copies /\ call[c] = "none"
  /\ MakeList(c, {})
  /\ \/ /\ Works
        /\ run' = [run EXCEPT ![c] = "queued"]
        /\ queue' = Append(queue, c)
        /\ taskBlocker' = Blocker(c)
        /\ call' = [call EXCEPT ![c] = "returned"]
     \/ /\ Fails
        /\ call' = [call EXCEPT ![c] = "refused"]
        /\ UNCHANGED <<run, queue, taskBlocker>>
  /\ UNCHANGED <<shallReorder, blockerLock, pool, inTable, works, runs, headerWrite,
                 status, usedFreed>>

\* The last clReleaseKernel.  The application may make it when it launches
\* nothing any more: OpenCL keeps the kernel until its commands have ended.
ReleaseKernel ==
  /\ MayRelease /\ inTable
  /\ \A c \in Launches : call[c] \in {"returned", "refused"}
  /\ inTable' = FALSE
  /\ pool' = << >>
  /\ UNCHANGED <<shallReorder, taskBlocker, blockerLock, call, works, device, lists,
                 failures, usedFreed>>
-----------------------------------------------------------------------------
(* The device.  It does the commands of the shadow queue in any order that *)
(* their wait lists allow, those of an in-order queue in turn.             *)

Done(c, e) == IF e = HeaderWrite THEN headerWrite[c] = "done" ELSE status[e] = "ok"
Failed(c, e) == IF e = HeaderWrite THEN headerWrite[c] = "failed" ELSE status[e] = "error"

Before(c) == {queue[n] : n \in {m \in 1 .. Len(queue) : \A k \in 1 .. m : queue[k] # c}}
InTurn(c) ==
  shallReorder /\ c \in Copies =>
    \A d \in Before(c) : status[d] # "pending" \/ call[d] = "refused"

WriteHeader(c) ==
  /\ headerWrite[c] = "queued"
  /\ \/ Works /\ headerWrite' = [headerWrite EXCEPT ![c] = "done"]
     \/ Fails /\ headerWrite' = [headerWrite EXCEPT ![c] = "failed"]
  /\ UNCHANGED <<shallReorder, host, works, run, runs, status, lists, usedFreed>>

StartRun(c) ==
  /\ run[c] = "queued" /\ InTurn(c)
  /\ \A e \in list[c] : Done(c, e)
  /\ run' = [run EXCEPT ![c] = "running"]
  /\ UNCHANGED <<shallReorder, host, works, runs, headerWrite, status, lists,
                 failures, usedFreed>>

\* The end of a copy is its event; the end of a run calls the callback.
EndsWith(c, outcome) ==
  status' = IF c \in Copies THEN [status EXCEPT ![c] = outcome] ELSE status

EndRun(c) ==
  /\ run[c] = "running"
  /\ \/ Works /\ run' = [run EXCEPT ![c] = "ended"] /\ EndsWith(c, "ok")
     \/ Fails /\ run' = [run EXCEPT ![c] = "failed"] /\ EndsWith(c, "error")
  /\ UNCHANGED <<shallReorder, host, works, runs, headerWrite, lists, usedFreed>>

\* A command that waits for one that failed is given up.
AbortRun(c) ==
  /\ run[c] = "queued"
  /\ \E e \in list[c] : Failed(c, e)
  /\ run' = [run EXCEPT ![c] = "aborted"]
  /\ EndsWith(c, "error")
  /\ UNCHANGED <<shallReorder, host, works, runs, headerWrite, lists, failures,
                 usedFreed>>

-----------------------------------------------------------------------------
(* ResumeOrFinish. *)

SetFinal(c, outcome) == status' = [status EXCEPT ![c] = outcome]
GoOn(c, where) == callback' = [callback EXCEPT ![c] = where]

\* The handler of __ocl_error sets the final event, too.
OnError_NoFinal(c) == GoOn(c, "cleanup") /\ UNCHANGED status
OnError(c) == GoOn(c, "cleanup") /\ SetFinal(c, "error")

IsDue(c) == hooked[c] /\ run[c] \in {"ended", "failed", "aborted"} /\ callback[c] = "none"
HasFailed(c) == run[c] # "ended" \/ headerWrite[c] = "failed"

\* The header says that all work-items have finished, that some have not, or
\* that some may pass a barrier: then it has to be written back.
Events_None(progress) == {}
Events(progress) == IF progress < 0 THEN {HeaderWrite} ELSE {}

Inspect(c) ==
  /\ IsDue(c) /\ work[c] = "live" /\ inTable
  /\ hooked' = [hooked EXCEPT ![c] = FALSE]
  /\ \/ /\ HasFailed(c) /\ OnError(c) /\ Works
        /\ UNCHANGED <<headerWrite, list>>
     \/ /\ ~HasFailed(c)
        /\ \/ /\ SetFinal(c, "ok") /\ GoOn(c, "cleanup") /\ Works
              /\ UNCHANGED <<headerWrite, list>>
           \/ /\ runs[c] < MaxRun
              /\ \E progress \in {1, -1} :
                   /\ list' = [list EXCEPT ![c] = Events(progress)]
                   /\ headerWrite' = [headerWrite EXCEPT ![c] =
                                        IF progress < 0 THEN "queued" ELSE "none"]
              /\ GoOn(c, "resume") /\ Works
              /\ UNCHANGED status
           \/ Fails /\ OnError(c) /\ UNCHANGED <<headerWrite, list>>
  /\ UNCHANGED <<shallReorder, host, object, work, run, runs, queue, userList,
                 usedFreed>>

Resume(c) ==
  /\ callback[c] = "resume" /\ work[c] = "live"
  /\ MetaEnqueue(c,
       /\ GoOn(c, "none")
       /\ runs' = [runs EXCEPT ![c] = @ + 1]
       /\ UNCHANGED status,
       OnError(c) /\ UNCHANGED runs)
  /\ UNCHANGED <<shallReorder, host, object, work, headerWrite, lists, usedFreed>>

\* CallbackCleanup: the kernel object goes back to the pool.
Cleanup(c) ==
  /\ callback[c] = "cleanup" /\ work[c] = "live" /\ inTable
  /\ pool' = Append(pool, object[c])
  /\ object' = [object EXCEPT ![c] = NULL]
  /\ work' = [work EXCEPT ![c] = "freed"]
  /\ GoOn(c, "none")
  /\ UNCHANGED <<queueInfo, inTable, call, hooked, device, lists, failures, usedFreed>>

\* The callback finds its Work or the KernelInfo gone.
UseFreed(c) ==
  /\ \/ /\ IsDue(c) \/ callback[c] # "none"
        /\ work[c] = "freed"
        /\ usedFreed' = "work"
     \/ /\ IsDue(c) \/ callback[c] = "cleanup"
        /\ work[c] = "live" /\ ~inTable
        /\ usedFreed' = "kernel info"
  /\ UNCHANGED <<shallReorder, host, works, device, lists, failures>>

-----------------------------------------------------------------------------
CallStep(c) ==
  \/ c \in Launches /\ (PrepareKernel(c) \/ Launch(c) \/ EnqueueMarker(c))
  \/ Copy(c)

DeviceStep(c) ==
  \/ c \in Launches /\ WriteHeader(c)
  \/ StartRun(c) \/ EndRun(c) \/ AbortRun(c)

CallbackStep(c) == Inspect(c) \/ Resume(c) \/ Cleanup(c) \/ UseFreed(c)

Next ==
  /\ usedFreed = "nothing"
  /\ \/ \E c \in Commands : CallStep(c) \/ DeviceStep(c)
     \/ \E c \in Launches : CallbackStep(c)
     \/ ReleaseKernel

Spec == Init /\ [][Next]_vars

\* Calls return, the device works, the driver makes its callbacks: there are
\* finitely many steps to take, and none is put off for ever.
FairSpec == Spec /\ WF_vars(Next)

-----------------------------------------------------------------------------
(* Correctness. *)

\* No kernel object is used by two launches that are under way, or by one
\* while it is in the pool: their arguments would overwrite each other.
ObjectsAreExclusive ==
  /\ \A c, d \in Launches : object[c] # NULL /\ object[c] = object[d] => c = d
  /\ \A n \in DOMAIN pool :
       /\ \A m \in DOMAIN pool : pool[m] = pool[n] => m = n
       /\ \A c \in Launches : object[c] # pool[n]

\* A run starts with the header the host meant it to have.  HostMetadata is
\* what the write reads and what the read after the run overwrites.
RunsSeeTheirHeader ==
  \A c \in Launches : run[c] = "running" => headerWrite[c] # "queued"

\* Whatever the runs, the queue is the one the application knows.
HasStarted(c) == \/ c \in Launches /\ runs[c] > 1
                 \/ run[c] \in {"running", "ended", "failed"}
Progress(c) ==
  IF status[c] # "pending" THEN "ended" ELSE IF HasStarted(c) THEN "running" ELSE "issued"
State(c) ==
  CASE call[c] \in {"none", "prepared"}    -> "new"
    [] call[c] \in {"queued", "returned"}  -> Progress(c)
    [] call[c] = "refused"                 -> "refused"
IsIssued(c) == call[c] \in {"queued", "returned"} \/ \E n \in DOMAIN queue : queue[n] = c

Queue == INSTANCE InOrderQueue WITH
  inOrder <- shallReorder,
  issued <- queue,
  lists <- [c \in Commands |-> IF IsIssued(c) THEN userList[c] ELSE {}],
  st <- [c \in Commands |-> State(c)]
KeepsTheOrder == Queue!Spec

\* A command whose call returned ends, in success or error, and so do those
\* that wait for it: no failure leaves the final event unset.
HasEnded(c) == call[c] = "returned" => status[c] # "pending"
EveryCommandEnds == <>[](usedFreed = "nothing" => \A c \in Commands : HasEnded(c))

\* The callback returns the kernel object to a pool that is still there.
KernelInfoIsKept == usedFreed # "kernel info"
=============================================================================
