-------------------------- MODULE LowPrioProcProofs --------------------------
(***************************************************************************)
(* What holds of a low-priority process for any number of threads and any   *)
(* set of kinds: no wakeup is lost.                                         *)
(***************************************************************************)
EXTENDS LowPrioProc, SequenceTheorems, TLAPS

\* SleepersAreCovered is the strengthening NoLostWakeup needs; notifications are
\* pending only while the worker is notifying.
IInv == /\ TypeOK
        /\ SleepersAreCovered
        /\ toNotify # {} => worker = "notify"

\* The strengthening implies the property.
LEMMA CoveredSleepersAreWoken == IInv => NoLostWakeup
BY DEF IInv, TypeOK, SleepersAreCovered, NoLostWakeup, WaitsFor, Alive, LockFree

\* The worker starts from the level GetConfig replied, with no sleeper.
LEMMA IInit == Init => IInv
<1> SUFFICES ASSUME Init PROVE IInv
  OBVIOUS
<1>1. \A m \in SUBSET Kinds : <<Level(m)>> \in Seq(Messages)
  BY DEF Level, Messages
<1>2. signals \in Seq(Messages)
  BY <1>1, EmptySeq DEF Init
<1>3. thread \in [Threads -> [st : {"idle", "waiting", "woken", "running"}, kind : Kinds]]
  BY DEF Init
<1>4. TypeOK
  BY <1>2, <1>3 DEF Init, TypeOK
<1>5. SleepersAreCovered
  BY DEF Init, SleepersAreCovered, WaitsFor
<1>6. QED
  BY <1>4, <1>5 DEF Init, IInv

\* A thread's step: it falls asleep only on a bit the worker has seen set.
LEMMA ThreadStep ==
  ASSUME IInv, NEW t \in Threads, NEW k \in Kinds,
         \/ LockFree /\ TestPredicate(t, k)
         \/ thread[t].st = "waiting" /\ thread' = [thread EXCEPT ![t].st = "woken"]
         \/ thread' = [thread EXCEPT ![t].st = "idle"],
         Alive, UNCHANGED <<Bitmap, signals, workerVars, terminated>>
  PROVE  IInv'
<1>1. thread' \in [Threads -> [st : {"idle", "waiting", "woken", "running"}, kind : Kinds]]
  BY DEF IInv, TypeOK, TestPredicate
<1>2. TypeOK'
  BY <1>1 DEF IInv, TypeOK, workerVars
<1>3. ASSUME NEW u \in Threads, NEW j \in Kinds, WaitsFor(u, j)'
      PROVE  WaitsFor(u, j) \/ (LockFree /\ j \in Bitmap)
  BY <1>3 DEF IInv, TypeOK, TestPredicate, WaitsFor
<1>4. SleepersAreCovered'
  BY <1>3 DEF IInv, SleepersAreCovered, workerVars, Alive, LockFree
<1>5. QED
  BY <1>2, <1>4 DEF IInv, workerVars

\* The worker's steps and the bus leave every sleeper covered.
LEMMA WorkerStep ==
  ASSUME IInv,
         \/ TakeLock \/ ProcessSignal \/ EndBatch \/ Poll \/ Terminate
         \/ DaemonDisconnects
         \/ \E k \in Kinds : NotifyAll(k)
         \/ \E m \in SUBSET Kinds : RunLevelChanged(m)
  PROVE  IInv'
<1> USE DEF IInv
<1>1. CASE TakeLock
  BY <1>1 DEF TakeLock, TypeOK, SleepersAreCovered, WaitsFor, LockFree, Alive
<1>2. CASE ProcessSignal
  <2>1. Head(signals) \in Messages /\ signals' \in Seq(Messages)
    BY <1>2, HeadTailProperties DEF ProcessSignal, AfterMessage, TypeOK
  <2>2. Bitmap' \subseteq Kinds
    BY <1>2, <2>1 DEF ProcessSignal, AfterMessage, Messages, DaemonGone, TypeOK
  <2>3. QED
    BY <1>2, <2>1, <2>2
    DEF ProcessSignal, AfterMessage, TypeOK, SleepersAreCovered, WaitsFor, LockFree, Alive
<1>3. CASE EndBatch
  BY <1>3 DEF EndBatch, ClearedBitmap, TypeOK, SleepersAreCovered, WaitsFor, LockFree, Alive
<1>4. CASE \E k \in Kinds : NotifyAll(k)
  <2>1. PICK k \in Kinds : NotifyAll(k)
    BY <1>4
  <2>2. thread' \in [Threads -> [st : {"idle", "waiting", "woken", "running"},
                                 kind : Kinds]]
    BY <2>1 DEF NotifyAll, Woken, TypeOK
  <2>3. TypeOK'
    BY <2>1, <2>2 DEF NotifyAll, Woken, TypeOK
  <2>4. ASSUME NEW u \in Threads, NEW j \in Kinds, WaitsFor(u, j)'
        PROVE  WaitsFor(u, j) /\ j # k
    BY <2>1, <2>4 DEF NotifyAll, Woken, WaitsFor, TypeOK
  <2>5. SleepersAreCovered'
    BY <2>1, <2>4 DEF NotifyAll, Woken, SleepersAreCovered, LockFree, Alive
  <2>6. QED
    BY <2>1, <2>3, <2>5 DEF NotifyAll
<1>5. CASE Poll
  BY <1>5 DEF Poll, TypeOK, SleepersAreCovered, WaitsFor, LockFree, Alive
<1>6. CASE Terminate
  BY <1>6 DEF Terminate, TypeOK, SleepersAreCovered, WaitsFor, LockFree, Alive, workerVars
<1>7. CASE \E m \in SUBSET Kinds : RunLevelChanged(m)
  <2>1. PICK m \in SUBSET Kinds : RunLevelChanged(m)
    BY <1>7
  <2>2. Level(m) \in Messages
    BY DEF Level, Messages
  <2>3. signals' \in Seq(Messages)
    BY <2>1, <2>2, AppendProperties DEF RunLevelChanged, TypeOK
  <2>4. QED
    BY <2>1, <2>3
    DEF RunLevelChanged, TypeOK, SleepersAreCovered, WaitsFor, LockFree, Alive, workerVars
<1>8. CASE DaemonDisconnects
  <2>1. signals' \in Seq(Messages)
    BY <1>8, AppendProperties DEF DaemonDisconnects, TypeOK, Messages
  <2>2. QED
    BY <1>8, <2>1
    DEF DaemonDisconnects, TypeOK, SleepersAreCovered, WaitsFor, LockFree, Alive, workerVars
<1>9. QED
  BY <1>1, <1>2, <1>3, <1>4, <1>5, <1>6, <1>7, <1>8

\* Every step keeps the invariant.
LEMMA IStep == IInv /\ [Next]_vars => IInv'
<1> SUFFICES ASSUME IInv, [Next]_vars PROVE IInv'
  OBVIOUS
<1>1. CASE \E t \in Threads, k \in Kinds : SchedStart(t, k)
  BY <1>1, ThreadStep DEF SchedStart
<1>2. CASE \E t \in Threads : WakeSpuriously(t) \/ Recheck(t) \/ SchedEnd(t)
  <2>1. PICK t \in Threads : WakeSpuriously(t) \/ Recheck(t) \/ SchedEnd(t)
    BY <1>2
  <2>2. thread[t].kind \in Kinds
    BY DEF IInv, TypeOK
  <2>3. QED
    BY <2>1, <2>2, ThreadStep DEF WakeSpuriously, Recheck, SchedEnd
<1>3. CASE UNCHANGED vars
  BY <1>3 DEF vars, workerVars, IInv, TypeOK, SleepersAreCovered, WaitsFor, LockFree, Alive
<1>4. QED
  BY <1>1, <1>2, <1>3, WorkerStep DEF Next

\* The process's types.
THEOREM TypeCorrect == Spec => []TypeOK
<1>1. IInv => TypeOK
  BY DEF IInv
<1>2. QED
  BY IInit, IStep, <1>1, PTL DEF Spec

\* A thread that sleeps on a free kind is about to be notified.
THEOREM WakeupsAreNotLost == Spec => []NoLostWakeup
BY IInit, IStep, CoveredSleepersAreWoken, PTL DEF Spec
=============================================================================
