-------------------------- MODULE KernelRunsProofs --------------------------
(***************************************************************************)
(* What holds of a queue of any number of launches and copies, runs and     *)
(* failures: kernel objects are exclusive, a run sees its header, and the   *)
(* order of the commands is the one of a queue without clpkm.              *)
(***************************************************************************)
EXTENDS KernelRuns, FiniteSetTheorems, SequenceTheorems, TLAPS

CallStates == {"none", "prepared", "queued", "returned", "refused"}
RunStates == {"none", "queued", "running", "ended", "failed", "aborted"}

\* The queue's state, typed.
IsTyped ==
  /\ shallReorder \in BOOLEAN
  /\ taskBlocker \in Commands \cup {NULL} /\ blockerLock \in Commands \cup {NULL}
  /\ pool \in Seq(Objects) /\ object \in [Launches -> Objects \cup {NULL}]
  /\ call \in [Commands -> CallStates]
  /\ work \in [Launches -> {"none", "live", "freed"}]
  /\ list \in [Commands -> SUBSET (Commands \cup {HeaderWrite})]
  /\ userList \in [Commands -> SUBSET Commands]
  /\ run \in [Commands -> RunStates] /\ runs \in [Launches -> Nat]
  /\ headerWrite \in [Launches -> {"none", "queued", "done", "failed"}]
  /\ hooked \in [Launches -> BOOLEAN]
  /\ callback \in [Launches -> {"none", "resume", "cleanup"}]
  /\ status \in [Commands -> {"pending", "ok", "error"}]
  /\ queue \in Seq(Commands)

-----------------------------------------------------------------------------
(* The steps that call MetaEnqueue, spelt out. *)

\* A launch enqueues the first run and is in the queue, or frees its Work.
LaunchEffect(c) ==
  /\ call[c] = "prepared" /\ blockerLock = NULL
  /\ \E user \in SUBSET Returned :
       /\ userList' = [userList EXCEPT ![c] = user]
       /\ list' = [list EXCEPT ![c] = user \cup Blockers(c) \cup {HeaderWrite}]
  /\ headerWrite' = [headerWrite EXCEPT ![c] = "queued"]
  /\ runs' = [runs EXCEPT ![c] = 1]
  /\ run' = run \/ run' = [run EXCEPT ![c] = "queued"]
  /\ hooked' = hooked \/ hooked' = [hooked EXCEPT ![c] = TRUE]
  /\ UNCHANGED <<shallReorder, taskBlocker, pool, inTable, callback, status, usedFreed>>
  /\ \/ /\ run' = [run EXCEPT ![c] = "queued"]
        /\ work' = [work EXCEPT ![c] = "live"] /\ object' = object
        /\ call' = [call EXCEPT ![c] = "queued"]
        /\ queue' = Append(queue, c) /\ blockerLock' = c
     \/ /\ work' = [work EXCEPT ![c] = "freed"]
        /\ object' = [object EXCEPT ![c] = NULL]
        /\ call' = [call EXCEPT ![c] = "refused"]
        /\ queue' = queue /\ blockerLock' = blockerLock

\* The call that launches a kernel has that effect.
LEMMA LaunchForm == \A c \in Launches : Launch(c) => LaunchEffect(c)
BY DEF LaunchEffect, Launch, MakeList, MetaEnqueue

\* A run that follows is enqueued, or the final event is set to an error.
ResumeEffect(c) ==
  /\ callback[c] = "resume" /\ work[c] = "live"
  /\ run' = run \/ run' = [run EXCEPT ![c] = "queued"]
  /\ hooked' = hooked \/ hooked' = [hooked EXCEPT ![c] = TRUE]
  /\ UNCHANGED <<shallReorder, host, object, work, headerWrite, lists, usedFreed>>
  /\ \/ /\ run' = [run EXCEPT ![c] = "queued"]
        /\ callback' = [callback EXCEPT ![c] = "none"]
        /\ runs' = [runs EXCEPT ![c] = @ + 1]
        /\ status' = status
     \/ /\ callback' = [callback EXCEPT ![c] = "cleanup"]
        /\ status' = [status EXCEPT ![c] = "error"]
        /\ runs' = runs

\* Resuming a kernel has that effect.
LEMMA ResumeForm == \A c \in Launches : Resume(c) => ResumeEffect(c)
BY DEF ResumeEffect, Resume, MetaEnqueue, GoOn, OnError, SetFinal

\* The callback, when it looks at the header that has been read.
InspectEffect(c) ==
  /\ IsDue(c) /\ work[c] = "live" /\ inTable
  /\ hooked' = [hooked EXCEPT ![c] = FALSE]
  /\ UNCHANGED <<shallReorder, host, object, work, run, runs, queue, userList, usedFreed>>
  /\ \/ /\ callback' = [callback EXCEPT ![c] = "cleanup"]
        /\ \/ status' = [status EXCEPT ![c] = "error"]
           \/ status' = [status EXCEPT ![c] = "ok"] /\ run[c] = "ended"
        /\ UNCHANGED <<headerWrite, list>>
     \/ /\ callback' = [callback EXCEPT ![c] = "resume"] /\ run[c] = "ended"
        /\ status' = status
        /\ \/ /\ list' = [list EXCEPT ![c] = {HeaderWrite}]
              /\ headerWrite' = [headerWrite EXCEPT ![c] = "queued"]
           \/ /\ list' = [list EXCEPT ![c] = {}]
              /\ headerWrite' = [headerWrite EXCEPT ![c] = "none"]

\* The first half of ResumeOrFinish has that effect.
LEMMA InspectForm == \A c \in Launches : Inspect(c) => InspectEffect(c)
<1>1. Events(1) = {} /\ Events(-1) = {HeaderWrite}
  BY DEF Events
<1>2. QED
  BY <1>1 DEF InspectEffect, Inspect, HasFailed, OnError, SetFinal, GoOn, Works, Fails

-----------------------------------------------------------------------------
(* Types. *)

\* The queue is empty and nothing has been called.
LEMMA TypesInit == Init => IsTyped
<1>1. << >> \in Seq(Objects) /\ << >> \in Seq(Commands)
  BY EmptySeq
<1>2. QED
  BY <1>1 DEF Init, IsTyped, CallStates, RunStates, Commands

\* NewObject finds an object nobody has: there are as many as launches, and the
\* one that asks has none.
LEMMA NewObjectIsNew ==
  ASSUME IsTyped, pool = << >>, NEW c \in Launches, object[c] = NULL
  PROVE  NewObject \in Objects /\ \A d \in Launches : object[d] # NewObject
<1> DEFINE others == {object[d] : d \in Launches \ {c}}
<1>1. IsFiniteSet(Launches \ {c})
      /\ Cardinality(Launches \ {c}) = Cardinality(Launches) - 1
      /\ Cardinality(Launches) \in Nat
  BY ConstantsAssumption, FS_RemoveElement, FS_CardinalityType
<1>2. IsFiniteSet(others) /\ Cardinality(others) <= Cardinality(Launches \ {c})
  <2> DEFINE h == [d \in Launches \ {c} |-> object[d]]
  <2>1. h \in Surjection(Launches \ {c}, others)
    BY DEF Surjection
  <2>2. QED
    BY <1>1, <2>1, FS_Surjection
<1>3. IsFiniteSet(Objects) /\ Cardinality(Objects) = Cardinality(Launches)
  BY <1>1, FS_Interval DEF Objects
<1>4. ~(Objects \subseteq others)
  <2>1. SUFFICES ASSUME Objects \subseteq others PROVE FALSE
    OBVIOUS
  <2>2. Cardinality(Objects) <= Cardinality(others)
    BY <1>2, <2>1, FS_Subset
  <2>3. Cardinality(others) \in Nat /\ Cardinality(Launches \ {c}) \in Nat
    BY <1>1, <1>2, FS_CardinalityType
  <2>4. QED
    BY <1>1, <1>2, <1>3, <2>2, <2>3
<1>5. \E o \in Objects : o \notin InUse
  <2>1. PICK o \in Objects : o \notin others
    BY <1>4
  <2>2. o # NULL
    BY ConstantsAssumption
  <2>3. QED
    BY <2>1, <2>2 DEF InUse
<1>6. NewObject \in Objects /\ NewObject \notin InUse
  BY <1>5 DEF NewObject
<1>7. QED
  BY <1>6 DEF InUse

\* What the pool's end is and what is left of it.
LEMMA PoolEnd ==
  ASSUME IsTyped, pool # << >>
  PROVE  /\ Len(pool) \in Nat \ {0} /\ pool[Len(pool)] \in Objects
         /\ Pooled(pool) \in Seq(Objects) /\ Len(Pooled(pool)) = Len(pool) - 1
         /\ \A n \in 1 .. Len(pool) - 1 : Pooled(pool)[n] = pool[n]
<1>1. Len(pool) \in Nat \ {0}
  BY EmptySeq, LenProperties DEF IsTyped
<1>2. pool[Len(pool)] \in Objects
  BY <1>1, ElementOfSeq DEF IsTyped
<1>3. \A n \in 1 .. Len(pool) - 1 : pool[n] \in Objects
  BY <1>1, ElementOfSeq DEF IsTyped
<1>4. Len(SubSeq(pool, 1, Len(pool) - 1)) = Len(pool) - 1
  <2>1. PICK n \in Nat : n = Len(pool) - 1
    BY <1>1
  <2>2. Len(SubSeq(pool, 1, n)) = n
    BY <1>3, <2>1, SubSeqProperties
  <2>3. QED
    BY <2>1, <2>2
<1>5. SubSeq(pool, 1, Len(pool) - 1) \in Seq(Objects)
  BY <1>1 DEF IsTyped
<1>6. \A n \in 1 .. Len(pool) - 1 : SubSeq(pool, 1, Len(pool) - 1)[n] = pool[n]
  BY <1>1 DEF IsTyped
<1>7. QED
  BY <1>1, <1>2, <1>4, <1>5, <1>6 DEF Pooled

\* Types are kept by the calls.
LEMMA CallTypes ==
  ASSUME IsTyped, NEW c \in Commands, CallStep(c),
         \A d \in Launches : call[d] = "none" => object[d] = NULL
  PROVE  IsTyped'
<1>a. /\ call \in [Commands -> CallStates] /\ run \in [Commands -> RunStates]
      /\ runs \in [Launches -> Nat] /\ taskBlocker \in Commands \cup {NULL}
  BY DEF IsTyped
<1>b. queue \in Seq(Commands)
  BY DEF IsTyped
<1>1. CASE c \in Launches /\ PrepareKernel(c)
  <2>1. pool' \in Seq(Objects) /\ object' \in [Launches -> Objects \cup {NULL}]
    <3>1. CASE pool = << >>
      BY <1>1, <3>1, NewObjectIsNew DEF PrepareKernel, IsTyped
    <3>2. CASE pool # << >>
      BY <1>1, <3>2, PoolEnd DEF PrepareKernel, IsTyped
    <3>3. QED
      BY <3>1, <3>2
  <2>2. call' \in [Commands -> CallStates]
    BY <1>1, <1>a DEF PrepareKernel, CallStates
  <2>3. QED
    BY <1>1, <2>1, <2>2 DEF PrepareKernel, device, lists, IsTyped
<1>2. CASE c \in Launches /\ Launch(c)
  <2>0. LaunchEffect(c)
    BY <1>2, LaunchForm
  <2>1. PICK user \in SUBSET Returned :
              /\ userList' = [userList EXCEPT ![c] = user]
              /\ list' = [list EXCEPT ![c] = user \cup Blockers(c) \cup {HeaderWrite}]
    BY <2>0 DEF LaunchEffect, IsTyped
  <2>2. list' \in [Commands -> SUBSET (Commands \cup {HeaderWrite})]
        /\ userList' \in [Commands -> SUBSET Commands]
    BY <2>1 DEF Returned, Blockers, IsTyped
  <2>3. queue' \in Seq(Commands)
    <3>1. Append(queue, c) \in Seq(Commands)
      BY <1>b, AppendProperties
    <3>2. queue' = Append(queue, c) \/ queue' = queue
      BY <2>0 DEF LaunchEffect
    <3>3. QED
      BY <3>1, <3>2, <1>b
  <2>4. /\ call' \in [Commands -> CallStates] /\ run' \in [Commands -> RunStates]
        /\ runs' \in [Launches -> Nat]
    BY <2>0, <1>a DEF LaunchEffect, CallStates, RunStates
  <2>5. /\ headerWrite' \in [Launches -> {"none", "queued", "done", "failed"}]
        /\ hooked' \in [Launches -> BOOLEAN]
    BY <2>0 DEF LaunchEffect, IsTyped
  <2>6. /\ work' \in [Launches -> {"none", "live", "freed"}]
        /\ object' \in [Launches -> Objects \cup {NULL}]
        /\ blockerLock' \in Commands \cup {NULL}
        /\ UNCHANGED <<shallReorder, taskBlocker, pool, callback, status>>
    BY <2>0 DEF LaunchEffect, IsTyped
  <2>7. QED
    BY <2>2, <2>3, <2>4, <2>5, <2>6 DEF IsTyped
<1>3. CASE c \in Launches /\ EnqueueMarker(c)
  <2>1. /\ taskBlocker' \in Commands \cup {NULL} /\ blockerLock' \in Commands \cup {NULL}
        /\ call' \in [Commands -> CallStates]
    BY <1>3 DEF EnqueueMarker, Blocker, CallStates, IsTyped
  <2>2. /\ work' \in [Launches -> {"none", "live", "freed"}]
        /\ object' \in [Launches -> Objects \cup {NULL}]
    BY <1>3 DEF EnqueueMarker, IsTyped
  <2>3. QED
    BY <1>3, <2>1, <2>2 DEF EnqueueMarker, device, lists, IsTyped
<1>4. CASE Copy(c)
  <2>1. PICK user \in SUBSET Returned :
              /\ userList' = [userList EXCEPT ![c] = user]
              /\ list' = [list EXCEPT ![c] = user \cup Blockers(c) \cup {}]
    BY <1>4 DEF Copy, MakeList
  <2>2. list' \in [Commands -> SUBSET (Commands \cup {HeaderWrite})]
        /\ userList' \in [Commands -> SUBSET Commands]
    BY <2>1 DEF Returned, Blockers, IsTyped
  <2>3. queue' \in Seq(Commands)
    BY <1>4, <1>b, AppendProperties DEF Copy
  <2>4. call' \in [Commands -> CallStates] /\ taskBlocker' \in Commands \cup {NULL}
    BY <1>4, <1>a DEF Copy, Blocker, CallStates
  <2>5. run' \in [Commands -> RunStates]
    BY <1>4, <1>a DEF Copy, RunStates
  <2>6. QED
    BY <1>4, <2>2, <2>3, <2>4, <2>5 DEF Copy, works, IsTyped
<1>5. QED
  BY <1>1, <1>2, <1>3, <1>4 DEF CallStep

\* They are by the device and the callback.
LEMMA DeviceTypes ==
  ASSUME IsTyped,
         \/ \E c \in Commands : DeviceStep(c)
         \/ \E c \in Launches : CallbackStep(c)
         \/ ReleaseKernel,
         \A c \in Launches : work[c] = "live" => object[c] # NULL
  PROVE  IsTyped'
<1>a. /\ call \in [Commands -> CallStates] /\ run \in [Commands -> RunStates]
      /\ runs \in [Launches -> Nat] /\ taskBlocker \in Commands \cup {NULL}
  BY DEF IsTyped
<1>b. queue \in Seq(Commands)
  BY DEF IsTyped
<1>1. ASSUME NEW c \in Commands, DeviceStep(c) PROVE IsTyped'
  <2>1. CASE c \in Launches /\ WriteHeader(c)
    BY <2>1 DEF WriteHeader, host, works, lists, IsTyped
  <2>2. CASE StartRun(c) \/ EndRun(c) \/ AbortRun(c)
    <3>1. run' \in [Commands -> RunStates]
      BY <2>2, <1>a DEF StartRun, EndRun, AbortRun, RunStates
    <3>2. status' \in [Commands -> {"pending", "ok", "error"}]
      BY <2>2 DEF StartRun, EndRun, AbortRun, EndsWith, IsTyped
    <3>3. QED
      BY <2>2, <3>1, <3>2 DEF StartRun, EndRun, AbortRun, host, works, lists, IsTyped
  <2>3. QED
    BY <1>1, <2>1, <2>2 DEF DeviceStep
<1>2. ASSUME NEW c \in Launches, Inspect(c) PROVE IsTyped'
  <2>0. InspectEffect(c)
    BY <1>2, InspectForm
  <2>1. list' \in [Commands -> SUBSET (Commands \cup {HeaderWrite})]
    BY <2>0 DEF InspectEffect, IsTyped
  <2>2. /\ headerWrite' \in [Launches -> {"none", "queued", "done", "failed"}]
        /\ callback' \in [Launches -> {"none", "resume", "cleanup"}]
        /\ status' \in [Commands -> {"pending", "ok", "error"}]
        /\ hooked' \in [Launches -> BOOLEAN]
    BY <2>0 DEF InspectEffect, IsTyped
  <2>3. QED
    BY <2>0, <2>1, <2>2 DEF InspectEffect, host, IsTyped
<1>3. ASSUME NEW c \in Launches, Resume(c) PROVE IsTyped'
  <2>0. ResumeEffect(c)
    BY <1>3, ResumeForm
  <2>1. runs' \in [Launches -> Nat] /\ run' \in [Commands -> RunStates]
    BY <2>0, <1>a DEF ResumeEffect, RunStates
  <2>2. /\ callback' \in [Launches -> {"none", "resume", "cleanup"}]
        /\ status' \in [Commands -> {"pending", "ok", "error"}]
        /\ hooked' \in [Launches -> BOOLEAN]
    BY <2>0 DEF ResumeEffect, IsTyped
  <2>3. QED
    BY <2>0, <2>1, <2>2 DEF ResumeEffect, host, lists, IsTyped
<1>4. ASSUME NEW c \in Launches, Cleanup(c) PROVE IsTyped'
  <2>1. pool' \in Seq(Objects)
    BY <1>4, AppendProperties DEF Cleanup, IsTyped
  <2>2. QED
    BY <1>4, <2>1 DEF Cleanup, GoOn, queueInfo, device, lists, IsTyped
<1>5. ASSUME NEW c \in Launches, UseFreed(c) PROVE IsTyped'
  BY <1>5 DEF UseFreed, host, works, device, lists, IsTyped
<1>6. CASE ReleaseKernel
  BY <1>6, EmptySeq DEF ReleaseKernel, works, device, lists, IsTyped
<1>7. QED
  BY <1>1, <1>2, <1>3, <1>4, <1>5, <1>6 DEF CallbackStep

-----------------------------------------------------------------------------
(* Kernel objects. *)

\* A launch has an object from step 0 of the call on until its Work is freed.
WorkHasObject ==
  \A c \in Launches :
    /\ call[c] = "none" => object[c] = NULL
    /\ call[c] = "prepared" \/ work[c] = "live" => object[c] # NULL
    /\ call[c] \in {"none", "prepared"} => work[c] = "none"

ObjectInv == IsTyped /\ WorkHasObject /\ ObjectsAreExclusive

\* Nobody has an object yet.
LEMMA ObjectInit == Init => ObjectInv
<1> SUFFICES ASSUME Init PROVE ObjectInv
  OBVIOUS
<1>1. WorkHasObject /\ ObjectsAreExclusive
  BY DEF Init, WorkHasObject, ObjectsAreExclusive, Commands
<1>2. QED
  BY <1>1, TypesInit DEF ObjectInv

\* Step 0 takes the object from the pool's end or a new one.
LEMMA PrepareKeepsObjects ==
  ASSUME ObjectInv, NEW c \in Launches, PrepareKernel(c)
  PROVE  WorkHasObject' /\ ObjectsAreExclusive'
<1>a. /\ call \in [Commands -> CallStates] /\ c \in Commands
      /\ object \in [Launches -> Objects \cup {NULL}] /\ object[c] = NULL
      /\ work[c] = "none" /\ UNCHANGED work /\ NULL \notin Objects /\ call[c] = "none"
      /\ Len(pool) \in Nat /\ DOMAIN pool = 1 .. Len(pool)
  BY ConstantsAssumption, LenProperties
  DEF ObjectInv, IsTyped, WorkHasObject, PrepareKernel, Commands
<1>b. WorkHasObject /\ ObjectsAreExclusive /\ IsTyped
  BY DEF ObjectInv
<1>1. CASE pool # << >>
  <2>1. /\ object' = [object EXCEPT ![c] = pool[Len(pool)]] /\ pool' = Pooled(pool)
        /\ call' = [call EXCEPT ![c] = "prepared"]
    BY <1>1 DEF PrepareKernel
  <2>2. /\ Len(pool) \in Nat \ {0} /\ pool[Len(pool)] \in Objects
        /\ Len(pool') = Len(pool) - 1 /\ DOMAIN pool' = 1 .. Len(pool')
        /\ \A n \in 1 .. Len(pool) - 1 : pool'[n] = pool[n]
    BY <1>1, <1>b, <2>1, PoolEnd, LenProperties
  <2>3. WorkHasObject'
    BY <1>a, <1>b, <2>1, <2>2 DEF WorkHasObject
  <2>4. ASSUME NEW d \in Launches, NEW e \in Launches, object'[d] # NULL,
               object'[d] = object'[e]
        PROVE  d = e
    BY <1>a, <1>b, <2>1, <2>2, <2>4 DEF ObjectsAreExclusive
  <2>5. ASSUME NEW n \in DOMAIN pool'
        PROVE  /\ \A m \in DOMAIN pool' : pool'[m] = pool'[n] => m = n
               /\ \A d \in Launches : object'[d] # pool'[n]
    BY <1>a, <1>b, <2>1, <2>2 DEF ObjectsAreExclusive
  <2>6. QED
    BY <2>3, <2>4, <2>5 DEF ObjectsAreExclusive
<1>2. CASE /\ pool = << >> /\ object' = [object EXCEPT ![c] = NewObject]
           /\ call' = [call EXCEPT ![c] = "prepared"]
  <2>1. NewObject \in Objects /\ \A d \in Launches : object[d] # NewObject
    BY <1>2, <1>a, <1>b, NewObjectIsNew
  <2>2. pool' = pool
    BY <1>2 DEF PrepareKernel
  <2>3. WorkHasObject'
    BY <1>2, <1>a, <1>b, <2>1, <2>2 DEF WorkHasObject
  <2>4. QED
    BY <1>2, <1>a, <1>b, <2>1, <2>2, <2>3 DEF ObjectsAreExclusive
<1>3. CASE pool = << >> /\ object' = object /\ call' = [call EXCEPT ![c] = "refused"]
  <2>1. pool' = pool
    BY <1>3 DEF PrepareKernel
  <2>2. QED
    BY <1>3, <1>a, <1>b, <2>1 DEF WorkHasObject, ObjectsAreExclusive
<1>4. QED
  BY <1>1, <1>2, <1>3 DEF PrepareKernel

\* Losing objects, by the end of a launch or of the KernelInfo, disturbs nothing.
LEMMA LosingKeepsObjects ==
  ASSUME ObjectsAreExclusive, object \in [Launches -> Objects \cup {NULL}],
         pool \in Seq(Objects), pool' = pool \/ pool' = << >>,
         object' = object \/ \E c \in Launches : object' = [object EXCEPT ![c] = NULL]
  PROVE  ObjectsAreExclusive'
<1>1. NULL \notin Objects /\ \A n \in DOMAIN pool : pool[n] \in Objects
  BY ConstantsAssumption, LenProperties
<1>2. \A n \in DOMAIN pool' : n \in DOMAIN pool /\ pool'[n] = pool[n]
  OBVIOUS
<1>3. \A c \in Launches : object'[c] = object[c] \/ object'[c] = NULL
  OBVIOUS
<1>4. QED
  BY <1>1, <1>2, <1>3 DEF ObjectsAreExclusive

\* CallbackCleanup puts the object of a launch at the pool's end.
LEMMA CleanupKeepsObjects ==
  ASSUME ObjectInv, NEW c \in Launches, Cleanup(c)
  PROVE  WorkHasObject' /\ ObjectsAreExclusive'
<1>a. WorkHasObject /\ ObjectsAreExclusive /\ IsTyped
  BY DEF ObjectInv
<1>1. /\ object \in [Launches -> Objects \cup {NULL}] /\ object[c] \in Objects
      /\ NULL \notin Objects /\ work \in [Launches -> {"none", "live", "freed"}]
      /\ pool \in Seq(Objects)
  BY <1>a, ConstantsAssumption DEF Cleanup, WorkHasObject, IsTyped
<1>2. /\ object' = [object EXCEPT ![c] = NULL] /\ work' = [work EXCEPT ![c] = "freed"]
      /\ work[c] = "live" /\ call' = call /\ pool' = Append(pool, object[c])
  BY DEF Cleanup
<1>3. /\ DOMAIN pool = 1 .. Len(pool) /\ DOMAIN pool' = 1 .. Len(pool) + 1
      /\ Len(pool) \in Nat /\ pool'[Len(pool) + 1] = object[c]
      /\ \A n \in 1 .. Len(pool) : pool'[n] = pool[n] /\ pool[n] \in Objects
  BY <1>1, <1>2, AppendProperties, LenProperties
<1>4. WorkHasObject'
  BY <1>a, <1>1, <1>2 DEF WorkHasObject
<1>5. ASSUME NEW d \in Launches, NEW e \in Launches, object'[d] # NULL,
             object'[d] = object'[e]
      PROVE  d = e
  BY <1>a, <1>1, <1>2, <1>5 DEF ObjectsAreExclusive
<1>6. ASSUME NEW n \in DOMAIN pool'
      PROVE  /\ \A m \in DOMAIN pool' : pool'[m] = pool'[n] => m = n
             /\ \A d \in Launches : object'[d] # pool'[n]
  BY <1>a, <1>1, <1>2, <1>3 DEF ObjectsAreExclusive
<1>7. QED
  BY <1>4, <1>5, <1>6 DEF ObjectsAreExclusive

\* Every step keeps the objects apart.
LEMMA ObjectStep == ObjectInv /\ [Next]_vars => ObjectInv'
<1> SUFFICES ASSUME ObjectInv, [Next]_vars PROVE ObjectInv'
  OBVIOUS
<1>a. WorkHasObject /\ ObjectsAreExclusive /\ IsTyped
  BY DEF ObjectInv
<1>b. /\ call \in [Commands -> CallStates] /\ Launches \cap Copies = {}
      /\ object \in [Launches -> Objects \cup {NULL}] /\ pool \in Seq(Objects)
      /\ work \in [Launches -> {"none", "live", "freed"}] /\ Launches \subseteq Commands
  BY <1>a, ConstantsAssumption DEF IsTyped, Commands
<1>1. ASSUME NEW c \in Commands, CallStep(c) PROVE ObjectInv'
  <2>1. IsTyped'
    BY <1>1, <1>a, CallTypes DEF WorkHasObject
  <2>2. CASE c \in Launches /\ PrepareKernel(c)
    BY <2>1, <2>2, PrepareKeepsObjects DEF ObjectInv
  <2>3. CASE c \in Launches /\ Launch(c)
    <3>1. LaunchEffect(c)
      BY <2>3, LaunchForm
    <3>2. WorkHasObject'
      BY <1>a, <1>b, <3>1 DEF WorkHasObject, LaunchEffect
    <3>3. ObjectsAreExclusive'
      BY <1>a, <1>b, <2>3, <3>1, LosingKeepsObjects DEF LaunchEffect
    <3>4. QED
      BY <2>1, <3>2, <3>3 DEF ObjectInv
  <2>4. CASE c \in Launches /\ EnqueueMarker(c)
    <3>1. WorkHasObject'
      BY <1>a, <1>b, <2>4 DEF WorkHasObject, EnqueueMarker
    <3>2. ObjectsAreExclusive'
      BY <1>a, <1>b, <2>4, LosingKeepsObjects DEF EnqueueMarker
    <3>3. QED
      BY <2>1, <3>1, <3>2 DEF ObjectInv
  <2>5. CASE Copy(c)
    <3>1. /\ UNCHANGED <<pool, object, work>>
          /\ \A d \in Launches : call'[d] = call[d]
      BY <1>b, <2>5 DEF Copy, works
    <3>2. WorkHasObject' /\ ObjectsAreExclusive'
      BY <1>a, <3>1 DEF WorkHasObject, ObjectsAreExclusive
    <3>3. QED
      BY <2>1, <3>2 DEF ObjectInv
  <2>6. QED
    BY <1>1, <2>2, <2>3, <2>4, <2>5 DEF CallStep
<1>2. CASE \/ \E c \in Commands : DeviceStep(c)
           \/ \E c \in Launches : CallbackStep(c)
           \/ ReleaseKernel
  <2>1. IsTyped'
    BY <1>2, <1>a, DeviceTypes DEF WorkHasObject
  <2>2. CASE \E c \in Launches : Cleanup(c)
    BY <2>1, <2>2, CleanupKeepsObjects DEF ObjectInv
  <2>3. CASE ~\E c \in Launches : Cleanup(c)
    <3>1. UNCHANGED <<object, work, call>> /\ (pool' = pool \/ pool' = << >>)
      BY <1>2, <2>3
      DEF DeviceStep, WriteHeader, StartRun, EndRun, AbortRun, CallbackStep, Inspect,
          Resume, UseFreed, ReleaseKernel, host, works
    <3>2. WorkHasObject'
      BY <1>a, <3>1 DEF WorkHasObject
    <3>3. ObjectsAreExclusive'
      BY <1>a, <1>b, <3>1, LosingKeepsObjects
    <3>4. QED
      BY <2>1, <3>2, <3>3 DEF ObjectInv
  <2>4. QED
    BY <2>2, <2>3
<1>3. CASE UNCHANGED vars
  BY <1>3 DEF vars, host, works, device, lists, ObjectInv, IsTyped, WorkHasObject,
              ObjectsAreExclusive
<1>4. QED
  BY <1>1, <1>2, <1>3 DEF Next

\* The pool of kernel objects gives no object to two launches: not to one whose
\* call fails after it took the object, nor while a callback still has to return
\* the object of a launch that has ended.
THEOREM ObjectsStayExclusive == Spec => []ObjectsAreExclusive
<1>1. ObjectInv => ObjectsAreExclusive
  BY DEF ObjectInv
<1>2. QED
  BY ObjectInit, ObjectStep, <1>1, PTL DEF Spec

-----------------------------------------------------------------------------
(* How far a command is. *)

\* A command whose call has not come to the queue has left no trace there or on
\* the device.
NothingYet(c) ==
  call[c] \in {"none", "prepared"} =>
    /\ run[c] = "none" /\ status[c] = "pending"
    /\ \A n \in DOMAIN queue : queue[n] # c
    /\ c \in Launches => callback[c] = "none" /\ ~hooked[c]

\* A run is counted, and is resumed when it has ended.
RunIsCounted(c) ==
  /\ run[c] # "none" => runs[c] >= 1
  /\ callback[c] = "resume" => run[c] = "ended"

\* BlockerMutex is held by the launch at the queue's end, which waits for its
\* marker.
LockIsHeld ==
  /\ blockerLock # NULL => /\ queue # << >> /\ queue[Len(queue)] = blockerLock
                           /\ call[blockerLock] = "queued"
  /\ \A c \in Commands : call[c] = "queued" => blockerLock = c

QueueIsIssued ==
  \A c \in Commands : call[c] \in {"queued", "returned"} =>
    \E n \in DOMAIN queue : queue[n] = c

ProgressInv == /\ \A c \in Commands : NothingYet(c)
               /\ \A c \in Launches : RunIsCounted(c)
               /\ LockIsHeld
               /\ QueueIsIssued

\* What is in the queue after a command has been put there.
LEMMA QueueEnd ==
  ASSUME IsTyped, NEW c \in Commands, queue' = Append(queue, c)
  PROVE  /\ Len(queue) \in Nat /\ DOMAIN queue = 1 .. Len(queue)
         /\ Len(queue') = Len(queue) + 1 /\ DOMAIN queue' = 1 .. Len(queue) + 1
         /\ queue'[Len(queue) + 1] = c /\ queue' # << >>
         /\ \A n \in 1 .. Len(queue) : queue'[n] = queue[n]
<1>1. queue \in Seq(Commands)
  BY DEF IsTyped
<1>2. QED
  BY <1>1, AppendProperties, LenProperties, EmptySeq

\* Nothing has been called.
LEMMA ProgressInit == Init => ProgressInv
BY DEF Init, ProgressInv, NothingYet, RunIsCounted, LockIsHeld, QueueIsIssued, Commands

\* The calls keep track: what they put in the queue they have not put there yet.
LEMMA CallProgress ==
  ASSUME IsTyped, ProgressInv, NEW c \in Commands, CallStep(c)
  PROVE  ProgressInv'
<1>a. /\ call \in [Commands -> CallStates] /\ run \in [Commands -> RunStates]
      /\ runs \in [Launches -> Nat] /\ hooked \in [Launches -> BOOLEAN]
      /\ Launches \cap Copies = {} /\ Launches \subseteq Commands
      /\ NULL \notin Commands /\ blockerLock \in Commands \cup {NULL}
  BY ConstantsAssumption DEF IsTyped, Commands
<1>b. (\A d \in Commands : NothingYet(d)) /\ (\A d \in Launches : RunIsCounted(d))
  BY DEF ProgressInv
<1>c. LockIsHeld /\ QueueIsIssued
  BY DEF ProgressInv
<1>1. CASE c \in Launches /\ PrepareKernel(c)
  <2>1. /\ UNCHANGED <<run, status, queue, callback, hooked, runs, blockerLock>>
        /\ call[c] = "none"
        /\ \/ call' = [call EXCEPT ![c] = "prepared"]
           \/ call' = [call EXCEPT ![c] = "refused"]
    BY <1>1 DEF PrepareKernel, device, lists
  <2>2. \A d \in Commands : NothingYet(d)'
    BY <1>a, <1>b, <2>1 DEF NothingYet
  <2>3. \A d \in Launches : RunIsCounted(d)'
    BY <1>b, <2>1 DEF RunIsCounted
  <2>4. LockIsHeld' /\ QueueIsIssued'
    BY <1>a, <1>c, <2>1 DEF LockIsHeld, QueueIsIssued
  <2>5. QED
    BY <2>2, <2>3, <2>4 DEF ProgressInv
<1>2. CASE c \in Launches /\ Launch(c)
  <2>1. LaunchEffect(c)
    BY <1>2, LaunchForm
  <2>2. CASE /\ call' = [call EXCEPT ![c] = "queued"]
             /\ queue' = Append(queue, c) /\ blockerLock' = c
    <3>1. \A d \in Commands : NothingYet(d)'
      BY <1>a, <1>b, <2>1, <2>2, QueueEnd DEF LaunchEffect, NothingYet
    <3>2. LockIsHeld'
      BY <1>a, <1>c, <2>1, <2>2, QueueEnd DEF LaunchEffect, LockIsHeld
    <3>3. QueueIsIssued'
      <4>1. \A n \in DOMAIN queue : n \in DOMAIN queue' /\ queue'[n] = queue[n]
        BY <2>2, QueueEnd
      <4>2. Len(queue) + 1 \in DOMAIN queue' /\ queue'[Len(queue) + 1] = c
        BY <2>2, QueueEnd
      <4>3. \A d \in Commands \ {c} : call'[d] = call[d]
        BY <1>a, <2>2
      <4>4. QED
        BY <1>c, <4>1, <4>2, <4>3 DEF QueueIsIssued
    <3>4. \A d \in Launches : RunIsCounted(d)'
      BY <1>a, <1>2, <1>b, <2>1 DEF LaunchEffect, RunIsCounted, NothingYet
    <3>5. QED
      BY <3>1, <3>2, <3>3, <3>4 DEF ProgressInv
  <2>3. CASE /\ call' = [call EXCEPT ![c] = "refused"]
             /\ queue' = queue /\ blockerLock' = blockerLock
    <3>1. \A d \in Commands : NothingYet(d)'
      BY <1>a, <1>b, <2>1, <2>3 DEF LaunchEffect, NothingYet
    <3>2. LockIsHeld' /\ QueueIsIssued'
      BY <1>a, <1>c, <2>1, <2>3 DEF LaunchEffect, LockIsHeld, QueueIsIssued
    <3>3. \A d \in Launches : RunIsCounted(d)'
      BY <1>a, <1>2, <1>b, <2>1 DEF LaunchEffect, RunIsCounted, NothingYet
    <3>4. QED
      BY <3>1, <3>2, <3>3 DEF ProgressInv
  <2>4. QED
    BY <2>1, <2>2, <2>3 DEF LaunchEffect
<1>3. CASE c \in Launches /\ EnqueueMarker(c)
  <2>1. /\ UNCHANGED <<run, status, queue, callback, hooked, runs>>
        /\ call[c] = "queued" /\ blockerLock' = NULL
        /\ \/ call' = [call EXCEPT ![c] = "returned"]
           \/ call' = [call EXCEPT ![c] = "refused"]
    BY <1>3 DEF EnqueueMarker, device, lists
  <2>2. \A d \in Commands : NothingYet(d)'
    BY <1>a, <1>b, <2>1 DEF NothingYet
  <2>3. \A d \in Launches : RunIsCounted(d)'
    BY <1>b, <2>1 DEF RunIsCounted
  <2>4. LockIsHeld' /\ QueueIsIssued'
    BY <1>a, <1>c, <2>1 DEF LockIsHeld, QueueIsIssued
  <2>5. QED
    BY <2>2, <2>3, <2>4 DEF ProgressInv
<1>4. CASE Copy(c)
  <2>1. /\ UNCHANGED <<status, callback, hooked, runs, blockerLock>>
        /\ c \in Copies /\ call[c] = "none" /\ blockerLock = NULL
    BY <1>4 DEF Copy, MakeList, works
  <2>2. CASE /\ run' = [run EXCEPT ![c] = "queued"] /\ queue' = Append(queue, c)
             /\ call' = [call EXCEPT ![c] = "returned"]
    <3>1. \A d \in Commands : NothingYet(d)'
      BY <1>a, <1>b, <2>1, <2>2, QueueEnd DEF NothingYet
    <3>2. LockIsHeld'
      BY <1>a, <1>c, <2>1, <2>2, QueueEnd DEF LockIsHeld
    <3>3. QueueIsIssued'
      BY <1>a, <1>c, <2>1, <2>2, QueueEnd DEF QueueIsIssued
    <3>4. \A d \in Launches : RunIsCounted(d)'
      BY <1>a, <1>b, <2>1, <2>2 DEF RunIsCounted
    <3>5. QED
      BY <3>1, <3>2, <3>3, <3>4 DEF ProgressInv
  <2>3. CASE /\ call' = [call EXCEPT ![c] = "refused"] /\ UNCHANGED <<run, queue>>
    <3>1. \A d \in Commands : NothingYet(d)'
      BY <1>a, <1>b, <2>1, <2>3 DEF NothingYet
    <3>2. \A d \in Launches : RunIsCounted(d)'
      BY <1>b, <2>1, <2>3 DEF RunIsCounted
    <3>3. LockIsHeld' /\ QueueIsIssued'
      BY <1>a, <1>c, <2>1, <2>3 DEF LockIsHeld, QueueIsIssued
    <3>4. QED
      BY <3>1, <3>2, <3>3 DEF ProgressInv
  <2>4. QED
    BY <1>4, <2>2, <2>3 DEF Copy
<1>5. QED
  BY <1>1, <1>2, <1>3, <1>4 DEF CallStep

\* The device and the callback touch commands that are in the queue.
LEMMA DeviceProgress ==
  ASSUME IsTyped, ProgressInv,
         \/ \E c \in Commands : DeviceStep(c)
         \/ \E c \in Launches : CallbackStep(c)
         \/ ReleaseKernel
  PROVE  ProgressInv'
<1>a. /\ run \in [Commands -> RunStates] /\ runs \in [Launches -> Nat]
      /\ status \in [Commands -> {"pending", "ok", "error"}]
      /\ hooked \in [Launches -> BOOLEAN] /\ Launches \subseteq Commands
      /\ callback \in [Launches -> {"none", "resume", "cleanup"}]
  BY DEF IsTyped, Commands
<1>b. (\A d \in Commands : NothingYet(d)) /\ (\A d \in Launches : RunIsCounted(d))
  BY DEF ProgressInv
<1>c. UNCHANGED <<call, queue, blockerLock>>
  BY DEF DeviceStep, WriteHeader, StartRun, EndRun, AbortRun, CallbackStep, Inspect,
         Resume, UseFreed, Cleanup, ReleaseKernel, host, works, queueInfo, lists
<1>d. LockIsHeld' /\ QueueIsIssued'
  BY <1>c DEF ProgressInv, LockIsHeld, QueueIsIssued
<1>1. ASSUME NEW c \in Commands, DeviceStep(c) PROVE ProgressInv'
  <2>1. /\ UNCHANGED <<callback, hooked, runs>>
        /\ \/ UNCHANGED <<run, status>>
           \/ /\ run[c] \in {"queued", "running"}
              /\ \/ run[c] = "queued" /\ run' = [run EXCEPT ![c] = "running"]
                 \/ run' = [run EXCEPT ![c] = "ended"]
                 \/ run' = [run EXCEPT ![c] = "failed"]
                 \/ run' = [run EXCEPT ![c] = "aborted"]
              /\ \/ status' = status
                 \/ status' = [status EXCEPT ![c] = "ok"]
                 \/ status' = [status EXCEPT ![c] = "error"]
    BY <1>1 DEF DeviceStep, WriteHeader, StartRun, EndRun, AbortRun, EndsWith, works
  <2>2. \A d \in Commands : NothingYet(d)'
    BY <1>a, <1>b, <1>c, <2>1 DEF NothingYet
  <2>3. \A d \in Launches : RunIsCounted(d)'
    BY <1>a, <1>b, <2>1 DEF RunIsCounted
  <2>4. QED
    BY <1>d, <2>2, <2>3 DEF ProgressInv
<1>2. ASSUME NEW c \in Launches, Inspect(c) PROVE ProgressInv'
  <2>1. InspectEffect(c)
    BY <1>2, InspectForm
  <2>2. \A d \in Commands : NothingYet(d)'
    BY <1>a, <1>b, <1>c, <2>1 DEF InspectEffect, IsDue, NothingYet
  <2>3. \A d \in Launches : RunIsCounted(d)'
    BY <1>a, <1>b, <2>1 DEF InspectEffect, RunIsCounted
  <2>4. QED
    BY <1>d, <2>2, <2>3 DEF ProgressInv
<1>3. ASSUME NEW c \in Launches, Resume(c) PROVE ProgressInv'
  <2>1. ResumeEffect(c)
    BY <1>3, ResumeForm
  <2>2. \A d \in Commands : NothingYet(d)'
    BY <1>a, <1>b, <1>c, <2>1 DEF ResumeEffect, NothingYet
  <2>3. \A d \in Launches : RunIsCounted(d)'
    BY <1>a, <1>b, <2>1 DEF ResumeEffect, RunIsCounted
  <2>4. QED
    BY <1>d, <2>2, <2>3 DEF ProgressInv
<1>4. ASSUME NEW c \in Launches, Cleanup(c) PROVE ProgressInv'
  <2>1. /\ UNCHANGED <<run, runs, status, hooked>> /\ callback[c] = "cleanup"
        /\ callback' = [callback EXCEPT ![c] = "none"]
    BY <1>4 DEF Cleanup, GoOn, device
  <2>2. \A d \in Commands : NothingYet(d)'
    BY <1>a, <1>b, <1>c, <2>1 DEF NothingYet
  <2>3. \A d \in Launches : RunIsCounted(d)'
    BY <1>a, <1>b, <2>1 DEF RunIsCounted
  <2>4. QED
    BY <1>d, <2>2, <2>3 DEF ProgressInv
<1>5. ASSUME UNCHANGED <<run, runs, status, hooked, callback>> PROVE ProgressInv'
  BY <1>b, <1>c, <1>d, <1>5 DEF ProgressInv, NothingYet, RunIsCounted
<1>6. QED
  BY <1>1, <1>2, <1>3, <1>4, <1>5 DEF CallbackStep, UseFreed, ReleaseKernel, works, device

-----------------------------------------------------------------------------
(* Headers. *)

\* A header write that is under way is in the wait list of the run to come.
HeaderIsAwaited ==
  \A c \in Launches : headerWrite[c] = "queued" => HeaderWrite \in list[c]

RunInv == ObjectInv /\ ProgressInv
HeaderInv == RunInv /\ HeaderIsAwaited /\ RunsSeeTheirHeader

\* At first there are no launches.
LEMMA RunInit == Init => RunInv
BY ObjectInit, ProgressInit DEF RunInv

\* Every step of the host, the device and the callback thread keeps the invariant.
LEMMA RunStep == RunInv /\ [Next]_vars => RunInv'
<1> SUFFICES ASSUME RunInv, [Next]_vars PROVE RunInv'
  OBVIOUS
<1>1. ObjectInv' /\ IsTyped
  BY ObjectStep DEF RunInv, ObjectInv
<1>2. CASE Next
  BY <1>1, <1>2, CallProgress, DeviceProgress DEF Next, RunInv
<1>3. CASE UNCHANGED vars
  <2>1. UNCHANGED <<call, run, runs, status, queue, callback, hooked, blockerLock>>
    BY <1>3 DEF vars, host, works, device, lists
  <2>2. QED
    BY <1>1, <2>1
    DEF RunInv, ProgressInv, NothingYet, RunIsCounted, LockIsHeld, QueueIsIssued
<1>4. QED
  BY <1>2, <1>3

\* A launch and a callback make the run wait for the write they enqueue; a run
\* that starts has waited.
LEMMA HeaderStep == HeaderInv /\ [Next]_vars => HeaderInv'
<1> SUFFICES ASSUME HeaderInv, [Next]_vars
             PROVE  HeaderIsAwaited' /\ RunsSeeTheirHeader'
  BY RunStep DEF HeaderInv
<1>a. /\ run \in [Commands -> RunStates] /\ Launches \subseteq Commands
      /\ headerWrite \in [Launches -> {"none", "queued", "done", "failed"}]
      /\ list \in [Commands -> SUBSET (Commands \cup {HeaderWrite})]
      /\ Launches \cap Copies = {}
  BY ConstantsAssumption DEF HeaderInv, RunInv, ObjectInv, IsTyped, Commands
<1>b. HeaderIsAwaited /\ RunsSeeTheirHeader
  BY DEF HeaderInv
<1>1. ASSUME NEW c \in Launches, Launch(c)
      PROVE  HeaderIsAwaited' /\ RunsSeeTheirHeader'
  <2>1. LaunchEffect(c) /\ NothingYet(c)
    BY <1>1, <1>a, LaunchForm DEF HeaderInv, RunInv, ProgressInv
  <2>2. run'[c] # "running" /\ HeaderWrite \in list'[c]
    BY <1>a, <2>1 DEF LaunchEffect, NothingYet
  <2>3. \A d \in Launches \ {c} :
          run'[d] = run[d] /\ headerWrite'[d] = headerWrite[d] /\ list'[d] = list[d]
    BY <1>a, <2>1 DEF LaunchEffect
  <2>4. QED
    BY <1>b, <2>2, <2>3 DEF HeaderIsAwaited, RunsSeeTheirHeader
<1>2. ASSUME NEW c \in Copies, Copy(c)
      PROVE  HeaderIsAwaited' /\ RunsSeeTheirHeader'
  <2>1. \A d \in Launches :
          run'[d] = run[d] /\ headerWrite'[d] = headerWrite[d] /\ list'[d] = list[d]
    BY <1>2, <1>a DEF Copy, MakeList
  <2>2. QED
    BY <1>b, <2>1 DEF HeaderIsAwaited, RunsSeeTheirHeader
<1>3. ASSUME NEW c \in Launches, WriteHeader(c)
      PROVE  HeaderIsAwaited' /\ RunsSeeTheirHeader'
  BY <1>3, <1>a, <1>b DEF WriteHeader, lists, HeaderIsAwaited, RunsSeeTheirHeader
<1>4. ASSUME NEW c \in Commands, StartRun(c) \/ EndRun(c) \/ AbortRun(c)
      PROVE  HeaderIsAwaited' /\ RunsSeeTheirHeader'
  <2>1. UNCHANGED <<list, headerWrite>> /\ \A d \in Launches \ {c} : run'[d] = run[d]
    BY <1>4, <1>a DEF StartRun, EndRun, AbortRun, lists
  <2>2. CASE StartRun(c)
    <3>1. \A e \in list[c] : Done(c, e)
      BY <2>2 DEF StartRun
    <3>2. c \in Launches => headerWrite[c] # "queued"
      BY <1>b, <3>1 DEF HeaderIsAwaited, Done
    <3>3. QED
      BY <1>b, <2>1, <3>2 DEF HeaderIsAwaited, RunsSeeTheirHeader
  <2>3. CASE run'[c] # "running"
    BY <1>b, <2>1, <2>3 DEF HeaderIsAwaited, RunsSeeTheirHeader
  <2>4. QED
    BY <1>4, <1>a, <2>2, <2>3 DEF EndRun, AbortRun
<1>5. ASSUME NEW c \in Launches, Inspect(c)
      PROVE  HeaderIsAwaited' /\ RunsSeeTheirHeader'
  <2>1. InspectEffect(c)
    BY <1>5, InspectForm
  <2>2. run' = run /\ run[c] # "running"
    BY <2>1 DEF InspectEffect, IsDue
  <2>3. headerWrite'[c] = "queued" => HeaderWrite \in list'[c]
    BY <1>a, <1>b, <2>1 DEF InspectEffect, HeaderIsAwaited
  <2>4. \A d \in Launches \ {c} : headerWrite'[d] = headerWrite[d] /\ list'[d] = list[d]
    BY <1>a, <2>1 DEF InspectEffect
  <2>5. QED
    BY <1>b, <2>2, <2>3, <2>4 DEF HeaderIsAwaited, RunsSeeTheirHeader
<1>6. ASSUME NEW c \in Launches, Resume(c)
      PROVE  HeaderIsAwaited' /\ RunsSeeTheirHeader'
  <2>1. ResumeEffect(c) /\ RunIsCounted(c)
    BY <1>6, ResumeForm DEF HeaderInv, RunInv, ProgressInv
  <2>2. run'[c] # "running" /\ UNCHANGED <<headerWrite, list>>
    BY <1>a, <2>1 DEF ResumeEffect, RunIsCounted, lists
  <2>3. \A d \in Launches \ {c} : run'[d] = run[d]
    BY <1>a, <2>1 DEF ResumeEffect
  <2>4. QED
    BY <1>b, <2>2, <2>3 DEF HeaderIsAwaited, RunsSeeTheirHeader
<1>7. CASE UNCHANGED <<run, headerWrite, list>>
  BY <1>7, <1>b DEF HeaderIsAwaited, RunsSeeTheirHeader
<1>8. QED
  BY <1>1, <1>2, <1>3, <1>4, <1>5, <1>6, <1>7
  DEF Next, CallStep, DeviceStep, CallbackStep, PrepareKernel, EnqueueMarker, Copy,
      Cleanup, UseFreed, ReleaseKernel, device, lists, vars

\* No run of a kernel starts, after a launch or after a callback that has to let
\* work-items pass a barrier, before the header it was given has been written.
THEOREM RunsWaitForTheirHeader == Spec => []RunsSeeTheirHeader
<1>1. Init => HeaderInv
  BY RunInit DEF Init, HeaderInv, HeaderIsAwaited, RunsSeeTheirHeader, Commands
<1>2. HeaderInv => RunsSeeTheirHeader
  BY DEF HeaderInv
<1>3. QED
  BY <1>1, HeaderStep, <1>2, PTL DEF Spec

-----------------------------------------------------------------------------
(* The order.  What the blocker is for: of two commands in the queue, the   *)
(* later one has not started before the earlier one is over, and until it   *)
(* is the later one waits, for the earlier one or for one in between.       *)

Over(c) == status[c] # "pending" \/ call[c] = "refused"
Begun(c) == HasStarted(c) \/ status[c] = "ok"

\* Command n of the queue waits for one at place m or later.
WaitsFrom(m, n) == \E k \in m .. n - 1 : queue[k] \in list[queue[n]]

OrderKept ==
  shallReorder =>
    \A n \in DOMAIN queue : \A m \in 1 .. n - 1 :
      Over(queue[m]) \/ (~Begun(queue[n]) /\ WaitsFrom(m, n))

\* No command that counts comes after the blocker: the commands to come need
\* only wait for it.
BlockerIsLast ==
  shallReorder =>
    \A n \in DOMAIN queue :
      \/ call[queue[n]] \in {"queued", "refused"}
      \/ \E k \in n .. Len(queue) : queue[k] = taskBlocker

\* A first run waits for all the application wanted it to.
UserListIsKept ==
  \A c \in Commands :
    /\ userList[c] \subseteq Returned
    /\ run[c] = "queued" /\ ~HasStarted(c) /\ status[c] = "pending" =>
         userList[c] \subseteq list[c]

OrderInv == RunInv /\ OrderKept /\ BlockerIsLast /\ UserListIsKept

\* At first no command is in the queue.
LEMMA OrderInit == Init => OrderInv
BY RunInit DEF Init, OrderInv, OrderKept, BlockerIsLast, UserListIsKept, HasStarted, Commands

\* Once over, a command stays so, and so does a call that returned.
LEMMA OverIsStable ==
  ASSUME RunInv, Next
  PROVE  /\ \A c \in Commands : Over(c) => Over(c)'
         /\ Returned \subseteq Returned'
         /\ shallReorder' = shallReorder
<1>a. /\ call \in [Commands -> CallStates] /\ Launches \subseteq Commands
      /\ status \in [Commands -> {"pending", "ok", "error"}]
  BY DEF RunInv, ObjectInv, IsTyped, Commands
<1>1. shallReorder' = shallReorder
  BY DEF Next, CallStep, PrepareKernel, Launch, EnqueueMarker, Copy, DeviceStep, WriteHeader,
         StartRun, EndRun, AbortRun, CallbackStep, Inspect, Resume, Cleanup, UseFreed,
         ReleaseKernel, queueInfo
<1>2. ASSUME NEW c \in Commands, CallStep(c)
      PROVE  /\ status' = status
             /\ \E now \in CallStates : call' = [call EXCEPT ![c] = now]
             /\ call[c] \in {"none", "prepared", "queued"}
  <2>1. CASE c \in Launches /\ PrepareKernel(c)
    BY <2>1 DEF PrepareKernel, device, CallStates
  <2>2. CASE c \in Launches /\ Launch(c)
    BY <2>2, LaunchForm DEF LaunchEffect, CallStates
  <2>3. CASE c \in Launches /\ EnqueueMarker(c)
    BY <2>3 DEF EnqueueMarker, device, CallStates
  <2>4. CASE Copy(c)
    BY <2>4 DEF Copy, CallStates
  <2>5. QED
    BY <1>2, <2>1, <2>2, <2>3, <2>4 DEF CallStep
<1>3. ASSUME NEW c \in Commands, CallStep(c)
      PROVE  (\A d \in Commands : Over(d) => Over(d)') /\ Returned \subseteq Returned'
  BY <1>3, <1>2, <1>a DEF Over, Returned
<1>4. ASSUME ~\E c \in Commands : CallStep(c)
      PROVE  call' = call /\ \A d \in Commands : status'[d] = status[d] \/ status'[d] # "pending"
  <2>1. CASE \E c \in Commands : DeviceStep(c)
    BY <2>1, <1>a DEF DeviceStep, WriteHeader, StartRun, EndRun, AbortRun, EndsWith, host
  <2>2. CASE \E c \in Launches : CallbackStep(c)
    <3>1. PICK c \in Launches : CallbackStep(c)
      BY <2>2
    <3>2. CASE Inspect(c) \/ Resume(c)
      BY <3>2, <1>a, InspectForm, ResumeForm DEF InspectEffect, ResumeEffect, host
    <3>3. CASE Cleanup(c) \/ UseFreed(c)
      BY <3>3 DEF Cleanup, UseFreed, host, device
    <3>4. QED
      BY <3>1, <3>2, <3>3 DEF CallbackStep
  <2>3. CASE ReleaseKernel
    BY <2>3 DEF ReleaseKernel, device
  <2>4. QED
    BY <1>4, <2>1, <2>2, <2>3 DEF Next
<1>5. QED
  BY <1>1, <1>3, <1>4 DEF Over, Returned

\* A step of one command that is not put in the queue: either it leaves its list
\* alone and does not begin, or everything before it is over.
LEMMA OrderMoves ==
  ASSUME OrderInv, NEW c \in Commands,
         \A d \in Commands : Over(d) => Over(d)',
         queue' = queue, shallReorder' = shallReorder,
         \A d \in Commands \ {c} : (Begun(d)' => Begun(d)) /\ list'[d] = list[d],
         \/ (Begun(c)' => Begun(c)) /\ list'[c] = list[c]
         \/ shallReorder => \A n \in DOMAIN queue : queue[n] = c =>
              \A m \in 1 .. n - 1 : Over(queue[m])
  PROVE  OrderKept'
<1>a. OrderKept /\ DOMAIN queue = 1 .. Len(queue) /\ Len(queue) \in Nat
      /\ \A n \in DOMAIN queue : queue[n] \in Commands
  BY LenProperties DEF OrderInv, RunInv, ObjectInv, IsTyped
<1>1. ASSUME shallReorder, NEW n \in DOMAIN queue, NEW m \in 1 .. n - 1
      PROVE  Over(queue[m])' \/ (~Begun(queue[n])' /\ WaitsFrom(m, n)')
  <2>1. m \in DOMAIN queue /\ queue[m] \in Commands /\ queue[n] \in Commands
    BY <1>a
  <2>2. Over(queue[m]) => Over(queue[m])'
    <3> DEFINE d == queue[m]
    <3>1. Over(d) => Over(d)'
      BY <2>1
    <3>2. QED
      BY <3>1 DEF Over
  <2>3. Over(queue[m]) \/ (~Begun(queue[n]) /\ WaitsFrom(m, n))
    BY <1>a, <1>1 DEF OrderKept
  <2>4. CASE ~Over(queue[m])
    <3>1. (Begun(queue[n])' => Begun(queue[n])) /\ list'[queue[n]] = list[queue[n]]
      BY <1>1, <2>1, <2>4 DEF Begun, HasStarted
    <3>2. QED
      BY <2>3, <2>4, <3>1 DEF WaitsFrom
  <2>5. QED
    BY <2>2, <2>4
<1>2. QED
  BY <1>1 DEF OrderKept

\* A command is put in the queue behind the blocker.
LEMMA OrderGrows ==
  ASSUME OrderInv, NEW c \in Commands, queue' = Append(queue, c), blockerLock = NULL,
         call[c] \in {"none", "prepared"}, shallReorder' = shallReorder,
         \A d \in Commands : Over(d) => Over(d)',
         \A d \in Commands \ {c} : (Begun(d)' => Begun(d)) /\ list'[d] = list[d],
         ~Begun(c)', Blockers(c) \subseteq list'[c]
  PROVE  OrderKept'
<1>a. /\ OrderKept /\ BlockerIsLast /\ LockIsHeld /\ NothingYet(c) /\ IsTyped
      /\ NULL \notin Commands
  BY ConstantsAssumption DEF OrderInv, RunInv, ObjectInv, ProgressInv
<1>l. PICK len \in Nat : len = Len(queue)
  BY <1>a, QueueEnd
<1>b. /\ DOMAIN queue = 1 .. len /\ DOMAIN queue' = 1 .. len + 1 /\ queue'[len + 1] = c
      /\ \A n \in 1 .. len : queue'[n] = queue[n]
  BY <1>a, <1>l, QueueEnd
<1>c. \A n \in 1 .. len : queue[n] \in Commands \ {c}
  <2>1. queue \in Seq(Commands)
    BY <1>a DEF IsTyped
  <2>2. \A n \in 1 .. len : queue[n] \in Commands
    BY <1>l, <2>1
  <2>3. QED
    BY <1>a, <1>b, <2>2 DEF NothingYet
<1>1. ASSUME shallReorder, NEW n \in 1 .. len, NEW m \in 1 .. n - 1
      PROVE  Over(queue[m])' \/ (~Begun(queue[n])' /\ WaitsFrom(m, n)')
  <2> DEFINE d == queue[m]
             e == queue[n]
  <2>1. m \in 1 .. len /\ d \in Commands /\ e \in Commands \ {c}
    BY <1>b, <1>c
  <2>2. queue'[m] = d /\ queue'[n] = e
    BY <1>b, <2>1
  <2>3. Over(d) \/ (~Begun(e) /\ WaitsFrom(m, n))
    BY <1>a, <1>b, <1>1 DEF OrderKept
  <2>4. Over(d) => Over(queue[m])'
    BY <2>1, <2>2 DEF Over
  <2>5. ~Begun(e) => ~Begun(queue[n])'
    BY <2>1, <2>2 DEF Begun, HasStarted
  <2>6. WaitsFrom(m, n) => WaitsFrom(m, n)'
    BY <1>b, <2>1, <2>2 DEF WaitsFrom
  <2>7. QED
    BY <2>3, <2>4, <2>5, <2>6
<1>2. ASSUME shallReorder, NEW m \in 1 .. len
      PROVE  Over(queue[m])' \/ WaitsFrom(m, len + 1)'
  <2>d. PICK d \in Commands : d = queue[m]
    BY <1>c
  <2>1. call[d] # "queued"
    BY <1>a, <2>d DEF LockIsHeld
  <2>2. CASE call[d] = "refused"
    <3>1. Over(d)'
      BY <2>2 DEF Over
    <3>2. QED
      BY <1>b, <2>d, <3>1 DEF Over
  <2>3. CASE call[d] # "refused"
    <3>1. PICK k \in m .. len : queue[k] = taskBlocker
      BY <1>a, <1>b, <1>l, <1>2, <2>d, <2>1, <2>3 DEF BlockerIsLast
    <3>2. taskBlocker \in Blockers(c)
      BY <1>a, <1>b, <1>c, <3>1 DEF Blockers
    <3>3. queue'[k] \in list'[queue'[len + 1]]
      BY <1>b, <3>1, <3>2
    <3>4. k \in m .. (len + 1) - 1
      BY <1>b, <3>1
    <3>5. QED
      BY <3>3, <3>4, <1>b DEF WaitsFrom
  <2>4. QED
    BY <2>2, <2>3
<1>3. ASSUME shallReorder, NEW n \in DOMAIN queue', NEW m \in 1 .. n - 1
      PROVE  Over(queue[m])' \/ (~Begun(queue[n])' /\ WaitsFrom(m, n)')
  <2>1. CASE n = len + 1
    <3>1. ~Begun(queue[n])'
      BY <1>b, <2>1 DEF Begun, HasStarted
    <3>2. QED
      BY <1>2, <1>3, <1>b, <2>1, <3>1
  <2>2. CASE n # len + 1
    BY <1>1, <1>3, <1>b, <2>2
  <2>3. QED
    BY <2>1, <2>2
<1>4. QED
  BY <1>3 DEF OrderKept

\* When a first run starts, everything before it is over.
LEMMA StartsInOrder ==
  ASSUME OrderInv, NEW c \in Commands, StartRun(c), shallReorder,
         NEW n \in DOMAIN queue, queue[n] = c, NEW m \in 1 .. n - 1
  PROVE  Over(queue[m])
<1>a. /\ OrderKept /\ DOMAIN queue = 1 .. Len(queue) /\ Len(queue) \in Nat
      /\ \A k \in DOMAIN queue : queue[k] \in Commands
      /\ HeaderWrite \notin Commands
  BY ConstantsAssumption, LenProperties DEF OrderInv, RunInv, ObjectInv, IsTyped
<1>1. SUFFICES ASSUME ~Over(queue[m]) PROVE FALSE
  OBVIOUS
<1>2. PICK k \in m .. n - 1 : queue[k] \in list[c]
  BY <1>a, <1>1 DEF OrderKept, WaitsFrom
<1>3. k \in DOMAIN queue /\ queue[k] \in Commands /\ m \in DOMAIN queue
  BY <1>a, <1>2
<1>4. status[queue[k]] = "ok"
  BY <1>a, <1>2, <1>3 DEF StartRun, Done
<1>5. CASE k = m
  BY <1>1, <1>4, <1>5 DEF Over
<1>6. CASE k # m
  <2>1. m \in 1 .. k - 1
    BY <1>a, <1>2, <1>6
  <2>2. QED
    BY <1>a, <1>1, <1>3, <1>4, <2>1 DEF OrderKept, Begun
<1>7. QED
  BY <1>5, <1>6

\* The order is kept by every step.
LEMMA OrderKeptStep == OrderInv /\ Next => OrderKept'
<1> SUFFICES ASSUME OrderInv, Next PROVE OrderKept'
  OBVIOUS
<1>a. /\ call \in [Commands -> CallStates] /\ run \in [Commands -> RunStates]
      /\ runs \in [Launches -> Nat] /\ status \in [Commands -> {"pending", "ok", "error"}]
      /\ list \in [Commands -> SUBSET (Commands \cup {HeaderWrite})]
      /\ Launches \subseteq Commands /\ Launches \cap Copies = {}
  BY ConstantsAssumption DEF OrderInv, RunInv, ObjectInv, IsTyped, Commands
<1>b. /\ \A c \in Commands : Over(c) => Over(c)'
      /\ shallReorder' = shallReorder
  BY OverIsStable DEF OrderInv
<1>c. /\ \A c \in Commands : NothingYet(c)
      /\ \A c \in Launches : RunIsCounted(c)
  BY DEF OrderInv, RunInv, ProgressInv
<1>1. ASSUME NEW c \in Launches, Launch(c) PROVE OrderKept'
  <2>1. LaunchEffect(c) /\ c \in Commands /\ NothingYet(c)
    BY <1>1, <1>a, <1>c, LaunchForm
  <2>2. \A d \in Commands \ {c} : (Begun(d)' => Begun(d)) /\ list'[d] = list[d]
    BY <1>a, <2>1 DEF LaunchEffect, Begun, HasStarted
  <2>3. CASE queue' = queue
    <3>1. \A n \in DOMAIN queue : queue[n] # c
      BY <2>1 DEF LaunchEffect, NothingYet
    <3>2. QED
      BY <1>b, <2>1, <2>2, <2>3, <3>1, OrderMoves
  <2>4. CASE queue' = Append(queue, c) /\ run' = [run EXCEPT ![c] = "queued"]
    <3>1. ~Begun(c)'
      BY <1>a, <2>1, <2>4 DEF LaunchEffect, NothingYet, Begun, HasStarted
    <3>2. Blockers(c) \subseteq list'[c]
      BY <1>a, <2>1 DEF LaunchEffect
    <3>3. blockerLock = NULL /\ call[c] \in {"none", "prepared"}
      BY <2>1 DEF LaunchEffect
    <3>4. QED
      BY <1>b, <2>1, <2>2, <2>4, <3>1, <3>2, <3>3, OrderGrows
  <2>5. QED
    BY <2>1, <2>3, <2>4 DEF LaunchEffect
<1>2. ASSUME NEW c \in Copies, Copy(c) PROVE OrderKept'
  <2>1. c \in Commands /\ NothingYet(c) /\ call[c] = "none" /\ blockerLock = NULL
        /\ UNCHANGED <<runs, status>>
    BY <1>2, <1>c DEF Copy, MakeList, Commands
  <2>2. \A d \in Commands \ {c} : (Begun(d)' => Begun(d)) /\ list'[d] = list[d]
    BY <1>2, <1>a, <2>1 DEF Copy, MakeList, Begun, HasStarted
  <2>3. CASE queue' = queue
    <3>1. \A n \in DOMAIN queue : queue[n] # c
      BY <2>1 DEF NothingYet
    <3>2. QED
      BY <1>b, <2>1, <2>2, <2>3, <3>1, OrderMoves
  <2>4. CASE queue' = Append(queue, c) /\ run' = [run EXCEPT ![c] = "queued"]
    <3>1. ~Begun(c)'
      BY <1>a, <1>2, <2>1, <2>4 DEF NothingYet, Begun, HasStarted
    <3>2. Blockers(c) \subseteq list'[c]
      BY <1>2, <1>a, <2>1 DEF Copy, MakeList
    <3>3. QED
      BY <1>b, <2>1, <2>2, <2>4, <3>1, <3>2, OrderGrows
  <2>5. QED
    BY <1>2, <2>3, <2>4 DEF Copy
<1>3. ASSUME NEW c \in Commands, StartRun(c) PROVE OrderKept'
  <2>1. UNCHANGED <<queue, list, runs, status>> /\ run' = [run EXCEPT ![c] = "running"]
    BY <1>3 DEF StartRun, lists
  <2>2. \A d \in Commands \ {c} : (Begun(d)' => Begun(d)) /\ list'[d] = list[d]
    BY <1>a, <2>1 DEF Begun, HasStarted
  <2>3. shallReorder => \A n \in DOMAIN queue : queue[n] = c =>
          \A m \in 1 .. n - 1 : Over(queue[m])
    BY <1>3, StartsInOrder
  <2>4. QED
    BY <1>b, <2>1, <2>2, <2>3, OrderMoves
<1>4. ASSUME NEW c \in Commands, EndRun(c) \/ AbortRun(c) PROVE OrderKept'
  <2>1. UNCHANGED <<queue, list, runs>>
    BY <1>4 DEF EndRun, AbortRun, lists
  <2>2. \A d \in Commands \ {c} : (Begun(d)' => Begun(d)) /\ list'[d] = list[d]
    BY <1>4, <1>a, <2>1 DEF EndRun, AbortRun, EndsWith, Begun, HasStarted
  <2>3. Begun(c)' => Begun(c)
    BY <1>4, <1>a, <2>1 DEF EndRun, AbortRun, EndsWith, Begun, HasStarted
  <2>4. QED
    BY <1>b, <2>1, <2>2, <2>3, OrderMoves
<1>5. ASSUME NEW c \in Commands, Begun(c)
      PROVE  shallReorder => \A n \in DOMAIN queue : queue[n] = c =>
               \A m \in 1 .. n - 1 : Over(queue[m])
  BY <1>5 DEF OrderInv, OrderKept
<1>6. ASSUME NEW c \in Launches, Inspect(c) PROVE OrderKept'
  <2>1. InspectEffect(c) /\ c \in Commands
    BY <1>6, <1>a, InspectForm
  <2>2. \A d \in Commands \ {c} : (Begun(d)' => Begun(d)) /\ list'[d] = list[d]
    BY <1>a, <2>1 DEF InspectEffect, Begun, HasStarted
  <2>3. Begun(c) \/ ((Begun(c)' => Begun(c)) /\ list'[c] = list[c])
    BY <1>a, <2>1 DEF InspectEffect, Begun, HasStarted
  <2>4. queue' = queue
    BY <2>1 DEF InspectEffect
  <2>5. QED
    BY <1>b, <1>5, <2>1, <2>2, <2>3, <2>4, OrderMoves
<1>7. ASSUME NEW c \in Launches, Resume(c) PROVE OrderKept'
  <2>1. ResumeEffect(c) /\ c \in Commands /\ RunIsCounted(c)
    BY <1>7, <1>a, <1>c, ResumeForm
  <2>2. \A d \in Commands \ {c} : (Begun(d)' => Begun(d)) /\ list'[d] = list[d]
    BY <1>a, <2>1 DEF ResumeEffect, lists, Begun, HasStarted
  <2>3. Begun(c)
    BY <2>1 DEF ResumeEffect, RunIsCounted, Begun, HasStarted
  <2>4. queue' = queue
    BY <2>1 DEF ResumeEffect, lists
  <2>5. QED
    BY <1>b, <1>5, <2>1, <2>2, <2>3, <2>4, OrderMoves
<1>8. ASSUME UNCHANGED <<queue, list, run, runs, status>> PROVE OrderKept'
  <2>1. ASSUME shallReorder, NEW n \in DOMAIN queue, NEW m \in 1 .. n - 1
        PROVE  Over(queue[m])' \/ (~Begun(queue[n])' /\ WaitsFrom(m, n)')
    <3>1. Over(queue[m]) \/ (~Begun(queue[n]) /\ WaitsFrom(m, n))
      BY <2>1 DEF OrderInv, OrderKept
    <3>2. queue[m] \in Commands
      <4>1. queue \in Seq(Commands)
        BY DEF OrderInv, RunInv, ObjectInv, IsTyped
      <4>2. QED
        BY <2>1, <4>1, LenProperties
    <3>3. Over(queue[m]) => Over(queue[m])'
      BY <1>b, <1>8, <3>2 DEF Over
    <3>4. QED
      BY <1>8, <3>1, <3>3 DEF Begun, HasStarted, WaitsFrom
  <2>2. QED
    BY <1>b, <1>8, <2>1 DEF OrderKept
<1>9. QED
  BY <1>1, <1>2, <1>3, <1>4, <1>6, <1>7, <1>8
  DEF Next, CallStep, DeviceStep, CallbackStep, PrepareKernel, EnqueueMarker, WriteHeader,
      Copy, Cleanup, UseFreed, ReleaseKernel, device, lists

\* The blocker is the last command that counts: whoever has the lock moves it to
\* the queue's end or is refused.
LEMMA BlockerStep == OrderInv /\ Next => BlockerIsLast'
<1> SUFFICES ASSUME OrderInv, Next, shallReorder PROVE BlockerIsLast'
  BY OverIsStable DEF OrderInv, BlockerIsLast
<1>a. /\ call \in [Commands -> CallStates] /\ Launches \subseteq Commands
      /\ IsTyped /\ BlockerIsLast /\ LockIsHeld
  BY DEF OrderInv, RunInv, ObjectInv, ProgressInv, IsTyped, Commands
<1>b. \A c \in Commands : NothingYet(c)
  BY DEF OrderInv, RunInv, ProgressInv
<1>l. PICK len \in Nat : len = Len(queue) /\ DOMAIN queue = 1 .. len
  BY <1>a, LenProperties DEF IsTyped
<1>q. \A n \in 1 .. len : queue[n] \in Commands
  BY <1>a, <1>l, LenProperties DEF IsTyped
<1>n. \A n \in 1 .. len : \/ call[queue[n]] \in {"queued", "refused"}
                          \/ \E k \in n .. len : queue[k] = taskBlocker
  BY <1>a, <1>l DEF BlockerIsLast
<1>1. ASSUME NEW c \in Commands, call[c] \in {"none", "prepared"},
             \E now \in CallStates : call' = [call EXCEPT ![c] = now],
             queue' = queue, taskBlocker' = taskBlocker
      PROVE  BlockerIsLast'
  <2>1. \A n \in 1 .. len : queue[n] # c
    BY <1>1, <1>b, <1>l DEF NothingYet
  <2>2. \A n \in 1 .. len : call'[queue[n]] = call[queue[n]]
    BY <1>1, <1>a, <1>q, <2>1
  <2>3. QED
    BY <1>1, <1>l, <1>n, <2>2 DEF BlockerIsLast
<1>2. ASSUME NEW c \in Commands, queue' = Append(queue, c), call[c] \in {"none", "prepared"},
             blockerLock = NULL,
             \/ /\ taskBlocker' = taskBlocker
                /\ call' = [call EXCEPT ![c] = "queued"]
             \/ taskBlocker' = c
      PROVE  BlockerIsLast'
  <2>1. /\ Len(queue') = len + 1 /\ DOMAIN queue' = 1 .. len + 1
        /\ queue'[len + 1] = c /\ \A n \in 1 .. len : queue'[n] = queue[n]
    BY <1>2, <1>a, <1>l, QueueEnd
  <2>2. CASE taskBlocker' = c
    BY <2>1, <2>2 DEF BlockerIsLast
  <2>3. CASE taskBlocker' = taskBlocker /\ call' = [call EXCEPT ![c] = "queued"]
    <3>1. \A n \in 1 .. len : queue[n] # c
      BY <1>2, <1>b, <1>l DEF NothingYet
    <3>2. \A n \in 1 .. len : call'[queue'[n]] = call[queue[n]]
      BY <1>a, <1>q, <2>1, <2>3, <3>1
    <3>3. call'[queue'[len + 1]] = "queued"
      BY <1>a, <2>1, <2>3
    <3>4. \A n \in 1 .. len : \A k \in n .. len :
            k \in n .. len + 1 /\ k \in 1 .. len
      OBVIOUS
    <3>5. QED
      BY <1>n, <2>1, <2>3, <3>2, <3>3, <3>4 DEF BlockerIsLast
  <2>4. QED
    BY <1>2, <2>2, <2>3
<1>3. ASSUME NEW c \in Launches, PrepareKernel(c) PROVE BlockerIsLast'
  <2>1. \E now \in CallStates : call' = [call EXCEPT ![c] = now]
    BY <1>3 DEF PrepareKernel, CallStates
  <2>2. QED
    BY <1>1, <1>3, <1>a, <2>1 DEF PrepareKernel, lists
<1>4. ASSUME NEW c \in Launches, Launch(c) PROVE BlockerIsLast'
  <2>1. LaunchEffect(c) /\ c \in Commands
    BY <1>4, <1>a, LaunchForm
  <2>2. QED
    BY <1>1, <1>2, <2>1 DEF LaunchEffect, CallStates
<1>5. ASSUME NEW c \in Copies, Copy(c) PROVE BlockerIsLast'
  <2>1. c \in Commands /\ call[c] \in {"none", "prepared"} /\ blockerLock = NULL
    BY <1>5 DEF Copy, MakeList, Commands
  <2>2. CASE queue' = Append(queue, c) /\ taskBlocker' = Blocker(c)
    BY <1>2, <2>1, <2>2 DEF Blocker
  <2>3. CASE /\ call' = [call EXCEPT ![c] = "refused"]
             /\ queue' = queue /\ taskBlocker' = taskBlocker
    <3>1. \E now \in CallStates : call' = [call EXCEPT ![c] = now]
      BY <2>3 DEF CallStates
    <3>2. QED
      BY <1>1, <2>1, <2>3, <3>1
  <2>4. QED
    BY <1>5, <2>2, <2>3 DEF Copy
<1>6. ASSUME NEW c \in Launches, EnqueueMarker(c) PROVE BlockerIsLast'
  <2>1. /\ call[c] = "queued" /\ queue' = queue /\ c \in Commands
        /\ \/ taskBlocker' = c
           \/ taskBlocker' = taskBlocker /\ call' = [call EXCEPT ![c] = "refused"]
    BY <1>6, <1>a DEF EnqueueMarker, Blocker, lists
  <2>2. blockerLock = c /\ queue # << >> /\ queue[len] = c /\ c # NULL
    BY <1>a, <1>l, <2>1, ConstantsAssumption DEF LockIsHeld
  <2>3. CASE taskBlocker' = c
    BY <1>l, <2>1, <2>2, <2>3 DEF BlockerIsLast
  <2>4. CASE taskBlocker' = taskBlocker /\ call' = [call EXCEPT ![c] = "refused"]
    <3>1. \A n \in 1 .. len : \/ call'[queue[n]] \in {"queued", "refused"}
                              \/ call'[queue[n]] = call[queue[n]]
      BY <1>a, <1>q, <2>4
    <3>2. QED
      BY <1>l, <1>n, <2>1, <2>4, <3>1 DEF BlockerIsLast
  <2>5. QED
    BY <2>1, <2>3, <2>4
<1>7. ASSUME UNCHANGED <<call, queue, taskBlocker>> PROVE BlockerIsLast'
  BY <1>7, <1>l, <1>n DEF BlockerIsLast
<1>8. QED
  BY <1>3, <1>4, <1>5, <1>6, <1>7
  DEF Next, CallStep, DeviceStep, CallbackStep, Copy, WriteHeader, StartRun, EndRun,
      AbortRun, Inspect, Resume, Cleanup, UseFreed, ReleaseKernel, host, lists, queueInfo

\* A list is made of what has returned; only a run that follows has another.
LEMMA UserListStep == OrderInv /\ Next => UserListIsKept'
<1> SUFFICES ASSUME OrderInv, Next PROVE UserListIsKept'
  OBVIOUS
<1>a. /\ run \in [Commands -> RunStates] /\ runs \in [Launches -> Nat]
      /\ status \in [Commands -> {"pending", "ok", "error"}]
      /\ list \in [Commands -> SUBSET (Commands \cup {HeaderWrite})]
      /\ userList \in [Commands -> SUBSET Commands]
      /\ Launches \subseteq Commands /\ Launches \cap Copies = {}
  BY ConstantsAssumption DEF OrderInv, RunInv, ObjectInv, IsTyped, Commands
<1>b. UserListIsKept /\ Returned \subseteq Returned'
  BY OverIsStable DEF OrderInv
<1>c. ASSUME NEW c \in Commands,
             \A d \in Commands \ {c} :
               /\ run'[d] = run[d] /\ status'[d] = status[d]
               /\ userList'[d] = userList[d] /\ list'[d] = list[d]
               /\ d \in Launches => runs'[d] = runs[d],
             userList'[c] \subseteq Returned,
             run'[c] = "queued" /\ ~HasStarted(c)' /\ status'[c] = "pending" =>
               userList'[c] \subseteq list'[c]
      PROVE  UserListIsKept'
  BY <1>b, <1>c DEF UserListIsKept, HasStarted
<1>1. ASSUME NEW c \in Launches, Launch(c) PROVE UserListIsKept'
  <2>1. LaunchEffect(c) /\ c \in Commands
    BY <1>1, <1>a, LaunchForm
  <2>2. userList'[c] \subseteq list'[c] /\ userList'[c] \subseteq Returned
    BY <1>a, <2>1 DEF LaunchEffect
  <2>3. \A d \in Commands \ {c} :
          /\ run'[d] = run[d] /\ status'[d] = status[d]
          /\ userList'[d] = userList[d] /\ list'[d] = list[d]
          /\ d \in Launches => runs'[d] = runs[d]
    BY <1>a, <2>1 DEF LaunchEffect
  <2>4. QED
    BY <1>c, <2>1, <2>2, <2>3
<1>2. ASSUME NEW c \in Copies, Copy(c) PROVE UserListIsKept'
  <2>1. c \in Commands /\ UNCHANGED <<status, runs>>
    BY <1>2 DEF Copy, Commands
  <2>2. userList'[c] \subseteq list'[c] /\ userList'[c] \subseteq Returned
    BY <1>2, <1>a, <2>1 DEF Copy, MakeList
  <2>3. \A d \in Commands \ {c} :
          run'[d] = run[d] /\ userList'[d] = userList[d] /\ list'[d] = list[d]
    BY <1>2, <1>a, <2>1 DEF Copy, MakeList
  <2>4. QED
    BY <1>c, <2>1, <2>2, <2>3
<1>3. ASSUME NEW c \in Commands, StartRun(c) \/ EndRun(c) \/ AbortRun(c)
      PROVE  UserListIsKept'
  <2>1. run'[c] # "queued" /\ UNCHANGED <<list, userList, runs>>
        /\ userList[c] \subseteq Returned
    BY <1>3, <1>a, <1>b DEF StartRun, EndRun, AbortRun, lists, UserListIsKept
  <2>2. \A d \in Commands \ {c} : run'[d] = run[d] /\ status'[d] = status[d]
    BY <1>3, <1>a DEF StartRun, EndRun, AbortRun, EndsWith
  <2>3. QED
    BY <1>c, <2>1, <2>2
<1>4. ASSUME NEW c \in Launches, Inspect(c) PROVE UserListIsKept'
  <2>1. InspectEffect(c) /\ c \in Commands
    BY <1>4, <1>a, InspectForm
  <2>2. run'[c] # "queued" /\ UNCHANGED <<run, userList, runs>>
        /\ userList[c] \subseteq Returned
    BY <1>a, <1>b, <2>1 DEF InspectEffect, IsDue, UserListIsKept
  <2>3. \A d \in Commands \ {c} : status'[d] = status[d] /\ list'[d] = list[d]
    BY <1>a, <2>1 DEF InspectEffect
  <2>4. QED
    BY <1>c, <2>1, <2>2, <2>3
<1>5. ASSUME NEW c \in Launches, Resume(c) PROVE UserListIsKept'
  <2>1. ResumeEffect(c) /\ c \in Commands /\ RunIsCounted(c)
    BY <1>5, <1>a, ResumeForm DEF OrderInv, RunInv, ProgressInv
  <2>2. status'[c] = "error" \/ runs'[c] > 1
    BY <1>a, <2>1 DEF ResumeEffect, RunIsCounted
  <2>3. \A d \in Commands \ {c} :
          /\ run'[d] = run[d] /\ status'[d] = status[d]
          /\ userList'[d] = userList[d] /\ list'[d] = list[d]
          /\ d \in Launches => runs'[d] = runs[d]
    BY <1>a, <2>1 DEF ResumeEffect, lists
  <2>4. userList'[c] \subseteq Returned
    BY <1>b, <2>1 DEF ResumeEffect, lists, UserListIsKept
  <2>5. run'[c] = "queued" /\ ~HasStarted(c)' /\ status'[c] = "pending" =>
          userList'[c] \subseteq list'[c]
    BY <2>2 DEF HasStarted
  <2>6. QED
    BY <1>c, <2>1, <2>3, <2>4, <2>5
<1>6. ASSUME UNCHANGED <<run, runs, status, list, userList>> PROVE UserListIsKept'
  BY <1>6, <1>b DEF UserListIsKept, HasStarted
<1>7. QED
  BY <1>1, <1>2, <1>3, <1>4, <1>5, <1>6
  DEF Next, CallStep, DeviceStep, CallbackStep, PrepareKernel, EnqueueMarker, Copy,
      WriteHeader, Cleanup, UseFreed, ReleaseKernel, device, lists

\* Every step keeps what the order of the commands rests on.
LEMMA OrderStep == OrderInv /\ [Next]_vars => OrderInv'
<1> SUFFICES ASSUME OrderInv, [Next]_vars PROVE OrderInv'
  OBVIOUS
<1>1. RunInv'
  BY RunStep DEF OrderInv
<1>2. CASE Next
  BY <1>1, <1>2, OrderKeptStep, BlockerStep, UserListStep DEF OrderInv
<1>3. CASE UNCHANGED vars
  <2>1. UNCHANGED <<shallReorder, taskBlocker, call, run, runs, status, list, userList, queue>>
    BY <1>3 DEF vars, host, works, device, lists
  <2>2. OrderKept' /\ BlockerIsLast' /\ UserListIsKept'
    BY <2>1 DEF OrderInv, OrderKept, BlockerIsLast, UserListIsKept, Over, Begun, HasStarted,
                WaitsFrom, Returned
  <2>3. QED
    BY <1>1, <2>2 DEF OrderInv
<1>4. QED
  BY <1>2, <1>3

-----------------------------------------------------------------------------
(* Refinement: the queue the application knows.                             *)

\* The states an application tells apart, one by one.
LEMMA States ==
  ASSUME IsTyped, NEW c \in Commands
  PROVE  /\ call[c] \in {"none", "prepared"} => State(c) = "new"
         /\ call[c] = "refused" => State(c) = "refused"
         /\ call[c] \in {"queued", "returned"} =>
              /\ status[c] # "pending" => State(c) = "ended"
              /\ status[c] = "pending" /\ HasStarted(c) => State(c) = "running"
              /\ status[c] = "pending" /\ ~HasStarted(c) => State(c) = "issued"
<1>1. call[c] \in CallStates
  BY DEF IsTyped
<1>2. QED
  BY <1>1 DEF State, Progress, CallStates

\* A step that leaves alone what an application sees of a command.
LEMMA StateKept ==
  ASSUME IsTyped, IsTyped', NEW c \in Commands, run'[c] = run[c], status'[c] = status[c],
         call'[c] = call[c], c \in Launches => runs'[c] = runs[c]
  PROVE  State(c)' = State(c)
<1>1. HasStarted(c)' <=> HasStarted(c)
  BY DEF HasStarted
<1>2. call[c] \in CallStates /\ call'[c] \in CallStates
  BY DEF IsTyped
<1>3. QED
  BY <1>1, <1>2 DEF State, Progress, CallStates

\* What is issued is what is in the queue.
LEMMA IssuedIsQueued ==
  ASSUME RunInv, NEW c \in Commands
  PROVE  IsIssued(c) <=> \E n \in DOMAIN queue : queue[n] = c
BY DEF RunInv, ProgressInv, QueueIsIssued, IsIssued

\* A command that is over in the queue with clpkm is over without.
LEMMA OverIsOver ==
  ASSUME RunInv, NEW c \in Commands, Over(c), ~(call[c] \in {"none", "prepared"})
  PROVE  State(c) \in {"ended", "refused"}
<1>1. call[c] \in CallStates /\ IsTyped
  BY DEF RunInv, ObjectInv, IsTyped
<1>2. QED
  BY <1>1, States DEF Over, CallStates

\* A step that puts nothing in the queue and moves one command on.
LEMMA StateMoves ==
  ASSUME RunInv, RunInv', NEW c \in Commands, queue' = queue, shallReorder' = shallReorder,
         \A d \in Commands : (\E n \in DOMAIN queue : queue[n] = d) =>
           userList'[d] = userList[d],
         \A d \in Commands \ {c} : State(d)' = State(d),
         \/ State(c)' = State(c)
         \/ State(c)' = "refused"
         \/ State(c) \in {"issued", "running"} /\ State(c)' = "ended"
         \/ /\ State(c) = "issued" /\ State(c)' = "running"
            /\ \E n \in DOMAIN queue : queue[n] = c
            /\ \A d \in userList[c] : d \in Commands /\ State(d) \in {"ended", "refused"}
            /\ shallReorder => \A d \in Queue!Before(c) :
                 d \in Commands /\ State(d) \in {"ended", "refused"}
  PROVE  [Queue!Next]_(Queue!vars)
<1> DEFINE st == [d \in Commands |-> State(d)]
           lists_ == [d \in Commands |-> IF IsIssued(d) THEN userList[d] ELSE {}]
<1>1. lists_' = lists_
  <2>1. ASSUME NEW d \in Commands
        PROVE  (IF IsIssued(d) THEN userList[d] ELSE {})' =
                 IF IsIssued(d) THEN userList[d] ELSE {}
    <3>1. IsIssued(d) <=> \E n \in DOMAIN queue : queue[n] = d
      BY IssuedIsQueued
    <3>2. IsIssued(d)' <=> \E n \in DOMAIN queue' : queue'[n] = d
      BY DEF RunInv, ProgressInv, QueueIsIssued, IsIssued
    <3>3. QED
      BY <3>1, <3>2
  <2>2. QED
    BY <2>1
<1>2. st' = [st EXCEPT ![c] = State(c)']
  OBVIOUS
<1>3. CASE State(c)' = State(c)
  <2>1. st' = st
    BY <1>3
  <2>2. QED
    BY <1>1, <2>1 DEF Queue!vars
<1>4. CASE State(c)' = "refused" /\ State(c) # "refused"
  <2>1. Queue!Refuse(c)
    BY <1>1, <1>2, <1>4 DEF Queue!Refuse
  <2>2. QED
    BY <2>1 DEF Queue!Next
<1>5. CASE State(c) \in {"issued", "running"} /\ State(c)' = "ended"
  <2>1. Queue!End(c)
    BY <1>1, <1>2, <1>5 DEF Queue!End
  <2>2. QED
    BY <2>1 DEF Queue!Next
<1>6. CASE /\ State(c) = "issued" /\ State(c)' = "running"
           /\ \E n \in DOMAIN queue : queue[n] = c
           /\ \A d \in userList[c] : d \in Commands /\ State(d) \in {"ended", "refused"}
           /\ shallReorder => \A d \in Queue!Before(c) :
                d \in Commands /\ State(d) \in {"ended", "refused"}
  <2>1. lists_[c] = userList[c]
    BY <1>6, IssuedIsQueued
  <2>2. Queue!Start(c)
    BY <1>1, <1>2, <1>6, <2>1 DEF Queue!Start, Queue!IsOver
  <2>3. QED
    BY <2>2 DEF Queue!Next
<1>7. QED
  BY <1>3, <1>4, <1>5, <1>6

\* A step that puts a command in the queue: the application issues it.
LEMMA StateGrows ==
  ASSUME RunInv, RunInv', NEW c \in Commands, queue' = Append(queue, c),
         shallReorder' = shallReorder, NEW user \in SUBSET Returned,
         userList' = [userList EXCEPT ![c] = user],
         \A d \in Commands \ {c} : State(d)' = State(d),
         State(c) = "new", State(c)' = "issued",
         \A n \in DOMAIN queue : queue[n] # c
  PROVE  [Queue!Next]_(Queue!vars)
<1> DEFINE st == [d \in Commands |-> State(d)]
           lists_ == [d \in Commands |-> IF IsIssued(d) THEN userList[d] ELSE {}]
<1>a. IsTyped /\ userList \in [Commands -> SUBSET Commands]
  BY DEF RunInv, ObjectInv, IsTyped
<1>1. lists_' = [lists_ EXCEPT ![c] = user]
  <2>1. ASSUME NEW d \in Commands
        PROVE  (IF IsIssued(d) THEN userList[d] ELSE {})' =
                 IF d = c THEN user ELSE IF IsIssued(d) THEN userList[d] ELSE {}
    <3>1. IsIssued(d) <=> \E n \in DOMAIN queue : queue[n] = d
      BY IssuedIsQueued
    <3>2. IsIssued(d)' <=> \E n \in DOMAIN queue' : queue'[n] = d
      BY DEF RunInv, ProgressInv, QueueIsIssued, IsIssued
    <3>3. (\E n \in DOMAIN queue' : queue'[n] = d) <=>
            d = c \/ \E n \in DOMAIN queue : queue[n] = d
      BY <1>a, QueueEnd
    <3>4. userList'[d] = IF d = c THEN user ELSE userList[d]
      BY <1>a
    <3>5. QED
      BY <3>1, <3>2, <3>3, <3>4
  <2>2. QED
    BY <2>1
<1>2. st' = [st EXCEPT ![c] = "issued"] /\ st[c] = "new"
  OBVIOUS
<1>3. user \in SUBSET {d \in Commands : st[d] # "new"}
  <2>1. ASSUME NEW d \in user PROVE d \in Commands /\ st[d] # "new"
    <3>1. d \in Commands /\ call[d] = "returned"
      BY DEF Returned
    <3>2. State(d) \in {"ended", "running", "issued"}
      <4>1. status[d] \in {"pending", "ok", "error"}
        BY <1>a, <3>1 DEF IsTyped
      <4>2. QED
        BY <1>a, <3>1, <4>1, States
    <3>3. QED
      BY <3>1, <3>2
  <2>2. QED
    BY <2>1
<1>4. Queue!Issue(c)
  BY <1>1, <1>2, <1>3 DEF Queue!Issue
<1>5. QED
  BY <1>4 DEF Queue!Next

\* The queue is empty, no command is known.
LEMMA QueueInit == Init => Queue!Init
<1> SUFFICES ASSUME Init PROVE Queue!Init
  OBVIOUS
<1>1. ASSUME NEW c \in Commands
      PROVE  State(c) = "new" /\ ~IsIssued(c)
  <2>1. IsTyped /\ call[c] = "none" /\ DOMAIN queue = {}
    BY TypesInit DEF Init
  <2>2. QED
    BY <2>1, States DEF IsIssued
<1>2. QED
  BY <1>1 DEF Init, Queue!Init

\* The calls issue commands or refuse them.
LEMMA QueueCalls ==
  ASSUME OrderInv, OrderInv', NEW c \in Commands, CallStep(c)
  PROVE  [Queue!Next]_(Queue!vars)
<1>a. /\ IsTyped /\ IsTyped' /\ RunInv /\ RunInv' /\ NothingYet(c)
      /\ Launches \cap Copies = {} /\ Launches \subseteq Commands
  BY ConstantsAssumption DEF OrderInv, RunInv, ObjectInv, ProgressInv, Commands
<1>b. /\ call \in [Commands -> CallStates] /\ run \in [Commands -> RunStates]
      /\ runs \in [Launches -> Nat] /\ status \in [Commands -> {"pending", "ok", "error"}]
      /\ userList \in [Commands -> SUBSET Commands]
      /\ call' \in [Commands -> CallStates]
  BY <1>a DEF IsTyped
<1>c. ASSUME call'[c] = "refused"
      PROVE  State(c)' = "refused"
  BY <1>c DEF State
<1>1. CASE c \in Launches /\ PrepareKernel(c)
  <2>1. /\ UNCHANGED <<run, runs, status, userList, queue, shallReorder>>
        /\ call[c] = "none"
        /\ \/ call' = [call EXCEPT ![c] = "prepared"]
           \/ call' = [call EXCEPT ![c] = "refused"]
    BY <1>1 DEF PrepareKernel, device, lists
  <2>2. \A d \in Commands \ {c} : State(d)' = State(d)
    BY <1>a, <1>b, <2>1, StateKept
  <2>3. CASE call' = [call EXCEPT ![c] = "prepared"]
    <3>1. State(c) = "new" /\ State(c)' = "new"
      BY <1>b, <2>1, <2>3 DEF State
    <3>2. QED
      BY <1>a, <2>1, <2>2, <3>1, StateMoves
  <2>4. CASE call' = [call EXCEPT ![c] = "refused"]
    BY <1>a, <1>b, <1>c, <2>1, <2>2, <2>4, StateMoves
  <2>5. QED
    BY <2>1, <2>3, <2>4
<1>2. CASE c \in Launches /\ Launch(c)
  <2>1. LaunchEffect(c)
    BY <1>2, LaunchForm
  <2>2. PICK user \in SUBSET Returned : userList' = [userList EXCEPT ![c] = user]
    BY <2>1 DEF LaunchEffect
  <2>3. \A n \in DOMAIN queue : queue[n] # c
    BY <1>a, <2>1 DEF LaunchEffect, NothingYet
  <2>4. \A d \in Commands \ {c} :
          /\ run'[d] = run[d] /\ status'[d] = status[d] /\ call'[d] = call[d]
          /\ d \in Launches => runs'[d] = runs[d]
    BY <1>b, <2>1 DEF LaunchEffect
  <2>5. \A d \in Commands \ {c} : State(d)' = State(d)
    BY <1>a, <2>4, StateKept
  <2>6. shallReorder' = shallReorder /\ State(c) = "new"
    BY <2>1 DEF LaunchEffect, State
  <2>7. CASE /\ call' = [call EXCEPT ![c] = "queued"] /\ queue' = Append(queue, c)
             /\ run' = [run EXCEPT ![c] = "queued"]
    <3>1. State(c)' = "issued"
      BY <1>2, <1>a, <1>b, <2>1, <2>7
      DEF LaunchEffect, NothingYet, State, Progress, HasStarted
    <3>2. QED
      BY <1>a, <2>2, <2>3, <2>5, <2>6, <2>7, <3>1, StateGrows
  <2>8. CASE call' = [call EXCEPT ![c] = "refused"] /\ queue' = queue
    <3>1. State(c)' = "refused"
      BY <1>b, <1>c, <2>8
    <3>2. \A d \in Commands : (\E n \in DOMAIN queue : queue[n] = d) =>
             userList'[d] = userList[d]
      BY <1>b, <2>2, <2>3
    <3>3. QED
      BY <1>a, <2>5, <2>6, <2>8, <3>1, <3>2, StateMoves
  <2>9. QED
    BY <2>1, <2>7, <2>8 DEF LaunchEffect
<1>3. CASE c \in Launches /\ EnqueueMarker(c)
  <2>1. /\ UNCHANGED <<run, runs, status, userList, queue, shallReorder>>
        /\ call[c] = "queued"
        /\ \/ call' = [call EXCEPT ![c] = "returned"]
           \/ call' = [call EXCEPT ![c] = "refused"]
    BY <1>3 DEF EnqueueMarker, device, lists
  <2>2. \A d \in Commands \ {c} : State(d)' = State(d)
    BY <1>a, <1>b, <2>1, StateKept
  <2>3. CASE call' = [call EXCEPT ![c] = "returned"]
    <3>1. State(c)' = State(c)
      BY <1>b, <2>1, <2>3 DEF State, Progress, HasStarted
    <3>2. QED
      BY <1>a, <2>1, <2>2, <3>1, StateMoves
  <2>4. CASE call' = [call EXCEPT ![c] = "refused"]
    BY <1>a, <1>b, <1>c, <2>1, <2>2, <2>4, StateMoves
  <2>5. QED
    BY <2>1, <2>3, <2>4
<1>4. CASE Copy(c)
  <2>1. /\ UNCHANGED <<runs, status, shallReorder>> /\ c \in Copies /\ call[c] = "none"
    BY <1>4 DEF Copy
  <2>2. PICK user \in SUBSET Returned : userList' = [userList EXCEPT ![c] = user]
    BY <1>4 DEF Copy, MakeList
  <2>3. \A n \in DOMAIN queue : queue[n] # c
    BY <1>a, <2>1 DEF NothingYet
  <2>4. \A d \in Commands \ {c} : run'[d] = run[d] /\ call'[d] = call[d]
    BY <1>4, <1>b DEF Copy
  <2>5. \A d \in Commands \ {c} : State(d)' = State(d)
    BY <1>a, <2>1, <2>4, StateKept
  <2>6. State(c) = "new"
    BY <2>1 DEF State
  <2>7. CASE /\ call' = [call EXCEPT ![c] = "returned"] /\ queue' = Append(queue, c)
             /\ run' = [run EXCEPT ![c] = "queued"]
    <3>1. State(c)' = "issued"
      BY <1>a, <1>b, <2>1, <2>7 DEF NothingYet, State, Progress, HasStarted
    <3>2. QED
      BY <1>a, <2>1, <2>2, <2>3, <2>5, <2>6, <2>7, <3>1, StateGrows
  <2>8. CASE call' = [call EXCEPT ![c] = "refused"] /\ queue' = queue
    <3>1. State(c)' = "refused"
      BY <1>b, <1>c, <2>8
    <3>2. \A d \in Commands : (\E n \in DOMAIN queue : queue[n] = d) =>
             userList'[d] = userList[d]
      BY <1>b, <2>2, <2>3
    <3>3. QED
      BY <1>a, <2>1, <2>5, <2>8, <3>1, <3>2, StateMoves
  <2>9. QED
    BY <1>4, <2>7, <2>8 DEF Copy
<1>5. QED
  BY <1>1, <1>2, <1>3, <1>4 DEF CallStep

\* A first run that starts finds its wait list and, in an in-order queue, all
\* that was issued before it over.
LEMMA StartIsAllowed ==
  ASSUME OrderInv, NEW c \in Commands, StartRun(c), State(c) = "issued"
  PROVE  /\ \E n \in DOMAIN queue : queue[n] = c
         /\ \A d \in userList[c] : d \in Commands /\ State(d) \in {"ended", "refused"}
         /\ shallReorder => \A d \in Queue!Before(c) :
              d \in Commands /\ State(d) \in {"ended", "refused"}
<1>a. /\ IsTyped /\ RunInv /\ UserListIsKept /\ QueueIsIssued /\ LockIsHeld
      /\ HeaderWrite \notin Commands
  BY ConstantsAssumption DEF OrderInv, RunInv, ObjectInv, ProgressInv
<1>b. /\ call[c] \in CallStates /\ status[c] \in {"pending", "ok", "error"}
      /\ queue \in Seq(Commands) /\ userList[c] \subseteq Commands
  BY <1>a DEF IsTyped
<1>1. /\ call[c] \in {"queued", "returned"} /\ status[c] = "pending" /\ ~HasStarted(c)
  BY <1>a, <1>b, States DEF CallStates
<1>2. PICK n \in DOMAIN queue : queue[n] = c
  BY <1>a, <1>1 DEF QueueIsIssued
<1>3. ASSUME NEW d \in userList[c] PROVE State(d) \in {"ended", "refused"}
  <2>1. d \in Commands /\ d # HeaderWrite /\ d \in list[c] /\ call[d] = "returned"
    BY <1>a, <1>b, <1>1 DEF UserListIsKept, StartRun, Returned
  <2>2. status[d] = "ok"
    BY <2>1 DEF StartRun, Done
  <2>3. QED
    BY <1>a, <2>1, <2>2, OverIsOver DEF Over
<1>4. ASSUME shallReorder, NEW d \in Queue!Before(c)
      PROVE  d \in Commands /\ State(d) \in {"ended", "refused"}
  <2>1. PICK m \in 1 .. Len(queue) : d = queue[m] /\ \A k \in 1 .. m : queue[k] # c
    BY <1>4 DEF Queue!Before
  <2>2. m \in DOMAIN queue /\ m \in 1 .. n - 1 /\ d \in Commands
    BY <1>b, <1>2, <2>1, LenProperties
  <2>3. Over(d)
    BY <1>2, <1>4, <2>1, <2>2, StartsInOrder
  <2>4. ~(call[d] \in {"none", "prepared"})
    BY <2>1, <2>2 DEF OrderInv, RunInv, ProgressInv, NothingYet
  <2>5. QED
    BY <1>a, <2>2, <2>3, <2>4, OverIsOver
<1>5. QED
  BY <1>b, <1>2, <1>3, <1>4

\* The device starts commands and ends copies, the callback ends kernels.
LEMMA QueueDevice ==
  ASSUME OrderInv, OrderInv',
         \/ \E c \in Commands : DeviceStep(c)
         \/ \E c \in Launches : CallbackStep(c)
         \/ ReleaseKernel
  PROVE  [Queue!Next]_(Queue!vars)
<1>a. /\ IsTyped /\ IsTyped' /\ RunInv /\ RunInv'
      /\ Launches \cap Copies = {} /\ Launches \subseteq Commands
  BY ConstantsAssumption DEF OrderInv, RunInv, ObjectInv, Commands
<1>b. /\ call \in [Commands -> CallStates] /\ run \in [Commands -> RunStates]
      /\ runs \in [Launches -> Nat] /\ status \in [Commands -> {"pending", "ok", "error"}]
  BY <1>a DEF IsTyped
<1>c. UNCHANGED <<queue, userList, shallReorder, call>>
  BY DEF DeviceStep, WriteHeader, StartRun, EndRun, AbortRun, CallbackStep, Inspect,
         Resume, UseFreed, Cleanup, ReleaseKernel, host, works, queueInfo, lists
<1>d. ASSUME NEW c \in Commands,
             \A d \in Commands \ {c} :
               /\ run'[d] = run[d] /\ status'[d] = status[d]
               /\ d \in Launches => runs'[d] = runs[d],
             \/ State(c)' = State(c)
             \/ State(c) \in {"issued", "running"} /\ State(c)' = "ended"
             \/ State(c) = "issued" /\ State(c)' = "running" /\ StartRun(c)
      PROVE  [Queue!Next]_(Queue!vars)
  <2>1. \A d \in Commands \ {c} : State(d)' = State(d)
    BY <1>a, <1>c, <1>d, StateKept
  <2>2. CASE State(c) = "issued" /\ State(c)' = "running" /\ StartRun(c)
    BY <1>a, <1>c, <2>1, <2>2, StartIsAllowed, StateMoves
  <2>3. CASE \/ State(c)' = State(c)
             \/ State(c) \in {"issued", "running"} /\ State(c)' = "ended"
    BY <1>a, <1>c, <2>1, <2>3, StateMoves
  <2>4. QED
    BY <1>d, <2>2, <2>3
<1>e. ASSUME NEW c \in Commands,
             \/ status'[c] = status[c] /\ (HasStarted(c)' <=> HasStarted(c))
             \/ status'[c] # "pending"
      PROVE  \/ State(c)' = State(c)
             \/ State(c) \in {"issued", "running"} /\ State(c)' = "ended"
  <2>1. call[c] \in CallStates /\ call'[c] = call[c]
    BY <1>b, <1>c
  <2>2. CASE call[c] \in {"queued", "returned"}
    BY <1>e, <2>1, <2>2 DEF State, Progress
  <2>3. CASE call[c] \notin {"queued", "returned"}
    BY <2>1, <2>3 DEF State, CallStates
  <2>4. QED
    BY <2>2, <2>3
<1>1. ASSUME NEW c \in Commands, StartRun(c) PROVE [Queue!Next]_(Queue!vars)
  <2>1. run' = [run EXCEPT ![c] = "running"] /\ UNCHANGED <<runs, status>>
    BY <1>1 DEF StartRun
  <2>2. HasStarted(c)'
    BY <1>b, <2>1 DEF HasStarted
  <2>3. State(c)' = State(c) \/ (State(c) = "issued" /\ State(c)' = "running")
    <3>1. call[c] \in CallStates /\ call'[c] = call[c] /\ status'[c] = status[c]
      BY <1>b, <1>c, <2>1
    <3>2. CASE call[c] \in {"queued", "returned"}
      <4>1. State(c) = Progress(c) /\ State(c)' = Progress(c)'
        BY <3>1, <3>2 DEF State
      <4>2. QED
        BY <2>2, <3>1, <4>1 DEF Progress
    <3>3. CASE call[c] \notin {"queued", "returned"}
      BY <3>1, <3>3 DEF State, CallStates
    <3>4. QED
      BY <3>2, <3>3
  <2>4. QED
    BY <1>1, <1>b, <1>d, <2>1, <2>3
<1>2. ASSUME NEW c \in Commands, EndRun(c) \/ AbortRun(c)
      PROVE  [Queue!Next]_(Queue!vars)
  <2>1. /\ runs' = runs /\ \A d \in Commands \ {c} : run'[d] = run[d] /\ status'[d] = status[d]
        /\ status'[c] = status[c] \/ status'[c] # "pending"
        /\ c \in Launches => status'[c] = status[c]
    BY <1>2, <1>a, <1>b DEF EndRun, AbortRun, EndsWith
  <2>2. HasStarted(c)' <=> HasStarted(c)
    BY <1>2, <1>b DEF EndRun, AbortRun, HasStarted
  <2>3. QED
    BY <1>d, <1>e, <2>1, <2>2
<1>3. ASSUME NEW c \in Launches, Inspect(c) PROVE [Queue!Next]_(Queue!vars)
  <2>1. InspectEffect(c) /\ c \in Commands
    BY <1>3, <1>a, InspectForm
  <2>2. /\ UNCHANGED <<run, runs>> /\ \A d \in Commands \ {c} : status'[d] = status[d]
        /\ status'[c] = status[c] \/ status'[c] # "pending"
    BY <1>b, <2>1 DEF InspectEffect
  <2>3. HasStarted(c)' <=> HasStarted(c)
    BY <2>2 DEF HasStarted
  <2>4. QED
    BY <1>d, <1>e, <2>1, <2>2, <2>3
<1>4. ASSUME NEW c \in Launches, Resume(c) PROVE [Queue!Next]_(Queue!vars)
  <2>1. ResumeEffect(c) /\ c \in Commands /\ RunIsCounted(c)
    BY <1>4, <1>a, ResumeForm DEF RunInv, ProgressInv
  <2>2. \A d \in Commands \ {c} :
          /\ run'[d] = run[d] /\ status'[d] = status[d]
          /\ d \in Launches => runs'[d] = runs[d]
    BY <1>b, <2>1 DEF ResumeEffect
  <2>3. HasStarted(c)
    BY <2>1 DEF ResumeEffect, RunIsCounted, HasStarted
  <2>4. CASE runs' = [runs EXCEPT ![c] = @ + 1] /\ status' = status
    <3>1. HasStarted(c)'
      BY <1>b, <2>1, <2>4 DEF ResumeEffect, RunIsCounted, HasStarted
    <3>2. QED
      BY <1>d, <1>e, <2>1, <2>2, <2>3, <2>4, <3>1
  <2>5. CASE status' = [status EXCEPT ![c] = "error"]
    <3>1. status'[c] = "error"
      BY <1>b, <2>1, <2>5
    <3>2. QED
      BY <1>d, <1>e, <2>1, <2>2, <3>1
  <2>6. QED
    BY <2>1, <2>4, <2>5 DEF ResumeEffect
<1>5. ASSUME UNCHANGED <<run, runs, status>> PROVE [Queue!Next]_(Queue!vars)
  <2>1. ASSUME NEW c \in Commands
        PROVE  State(c)' = State(c) /\ (IsIssued(c)' <=> IsIssued(c))
    <3>1. State(c)' = State(c)
      BY <1>a, <1>c, <1>5, StateKept
    <3>2. QED
      BY <1>c, <3>1 DEF IsIssued
  <2>2. QED
    BY <1>c, <2>1 DEF Queue!vars
<1>6. QED
  BY <1>1, <1>2, <1>3, <1>4, <1>5
  DEF DeviceStep, CallbackStep, WriteHeader, Cleanup, UseFreed, ReleaseKernel, device

\* Every step is one of the application's queue or leaves it as it is.
LEMMA QueueStep == OrderInv /\ OrderInv' /\ [Next]_vars => [Queue!Next]_(Queue!vars)
<1> SUFFICES ASSUME OrderInv, OrderInv', [Next]_vars
             PROVE  [Queue!Next]_(Queue!vars)
  OBVIOUS
<1>1. CASE Next
  BY <1>1, QueueCalls, QueueDevice DEF Next
<1>2. CASE UNCHANGED vars
  <2>1. UNCHANGED <<shallReorder, call, run, runs, status, userList, queue>>
    BY <1>2 DEF vars, host, works, device, lists
  <2>2. ASSUME NEW c \in Commands
        PROVE  State(c)' = State(c) /\ (IsIssued(c)' <=> IsIssued(c))
    <3>1. IsTyped /\ IsTyped'
      BY DEF OrderInv, RunInv, ObjectInv
    <3>2. State(c)' = State(c)
      BY <2>1, <3>1, StateKept
    <3>3. QED
      BY <2>1, <3>2 DEF IsIssued
  <2>3. QED
    BY <2>1, <2>2 DEF Queue!vars
<1>3. QED
  BY <1>1, <1>2

\* The queue that clpkm makes of a queue, a shadow queue and a blocker keeps the
\* order of the application's queue: no command starts before its wait list and,
\* in an in-order queue, the commands issued before it are over, though kernels
\* are cut into runs, fail, or are refused after their first run was enqueued.
THEOREM TheOrderIsKept == Spec => KeepsTheOrder
<1>1. Spec => []OrderInv
  BY OrderInit, OrderStep, PTL DEF Spec
<1>2. QED
  BY <1>1, QueueInit, QueueStep, PTL DEF Spec, KeepsTheOrder, Queue!Spec
=============================================================================
