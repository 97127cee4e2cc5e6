------------------------- MODULE HighPrioProcProofs -------------------------
(***************************************************************************)
(* What holds of a high-priority process for any number of calls in flight  *)
(* and any set of kinds: its counts, the reports that are never lost, the   *)
(* second a kind stays reserved, and that it is a client as HighClients     *)
(* describes it.                                                            *)
(***************************************************************************)
EXTENDS HighPrioProc, FiniteSetTheorems, TLAPS

\* The inductive invariant: NoLostTick and ToldIsReported need the bits to say
\* whether the counts are 0, which CountIsRunning gives.
IInv == TypeOK /\ CountIsRunning /\ NoLostTick /\ ToldIsReported

\* The calls in flight of a kind are finitely many.
LEMMA RunningIsFinite ==
  \A k \in Kinds : IsFiniteSet(Running(k)) /\ Cardinality(Running(k)) \in Nat
<1>1. \A k \in Kinds : Running(k) \in SUBSET Tasks
  BY DEF Running
<1>2. QED
  BY <1>1, TasksAssumption, FS_Subset, FS_CardinalityType

\* A process starts with nothing in flight.
LEMMA IInit == Init => IInv
<1> SUFFICES ASSUME Init PROVE IInv
  OBVIOUS
<1>1. TypeOK
  BY KindsAssumption DEF Init, TypeOK
<1>2. \A k \in Kinds : Running(k) = {}
  BY DEF Init, Running
<1>3. CountIsRunning
  BY <1>2, FS_EmptySet DEF CountIsRunning, Init
<1>4. NoLostTick /\ ToldIsReported
  BY DEF Init, NoLostTick, ToldIsReported
<1>5. QED
  BY <1>1, <1>3, <1>4 DEF IInv

\* SchedStart adds a call, sets the bit, and arms the timer if it was clear.
LEMMA StartKeepsIInv ==
  ASSUME IInv, NEW t \in Tasks, NEW k \in Kinds, SchedStart(t, k)
  PROVE  IInv'
<1> USE DEF IInv
<1>1. /\ \A j \in Kinds : Running(j)' = IF j = k THEN Running(k) \cup {t} ELSE Running(j)
      /\ t \notin Running(k)
  BY DEF SchedStart, Started, IsFirst, Running, TypeOK
<1>2. /\ Cardinality(Running(k)') = Cardinality(Running(k)) + 1
      /\ Running(k)' # {}
  BY <1>1, RunningIsFinite, FS_AddElement
<1>3. CountIsRunning'
  <2>1. \A j \in Kinds : Count'[j] = Cardinality(Running(j)')
    BY <1>1, <1>2 DEF SchedStart, Started, IsFirst, CountIsRunning, TypeOK
  <2>2. Bitmap' = {j \in Kinds : Running(j)' # {}}
    BY <1>1, <1>2 DEF SchedStart, Started, IsFirst, CountIsRunning
  <2>3. QED
    BY <2>1, <2>2 DEF CountIsRunning
<1>4. TypeOK'
  <2>1. task' \in [Tasks -> [st : {"idle", "guard", "bound"}, kind : Kinds,
                             negative : BOOLEAN]]
    BY DEF SchedStart, Started, IsFirst, TypeOK
  <2>2. Count' \in [Kinds -> Nat]
    BY DEF SchedStart, Started, IsFirst, TypeOK
  <2>3. timer' \in [Kinds -> {"off", "start", "end"}] /\ fired' \in [Kinds -> BOOLEAN]
    BY DEF SchedStart, Started, IsFirst, Arm, TypeOK
  <2>4. QED
    BY <2>1, <2>2, <2>3 DEF SchedStart, Started, IsFirst, TypeOK, workerVars
<1>5. NoLostTick'
  <2>1. k \notin Bitmap <=> Count[k] = 0
    BY RunningIsFinite, FS_EmptySet DEF CountIsRunning
  <2>2. CASE Count[k] = 0
    BY <2>1, <2>2 DEF SchedStart, Started, IsFirst, Arm, NoLostTick, TypeOK, workerVars
  <2>3. CASE Count[k] # 0
    BY <2>1, <2>3 DEF SchedStart, Started, IsFirst, NoLostTick, workerVars
  <2>4. QED
    BY <2>2, <2>3
<1>6. ToldIsReported'
  BY DEF SchedStart, Started, IsFirst, ToldIsReported, workerVars
<1>7. QED
  BY <1>3, <1>4, <1>5, <1>6

\* The end of a call, by its guard or by its event: one call less, and the last
\* one clears the bit and arms the timer.
LEMMA EndKeepsIInv ==
  ASSUME IInv, NEW t \in Tasks, task[t].st # "idle", SchedEnd(task[t].kind),
         task' = [task EXCEPT ![t].st = "idle"], ownedEvents' \subseteq Tasks,
         UNCHANGED <<workerVars, terminated>>
  PROVE  IInv'
<1> USE DEF IInv
<1> DEFINE k == task[t].kind
<1>0. k \in Kinds
  BY DEF TypeOK
<1>1. /\ \A j \in Kinds : Running(j)' = IF j = k THEN Running(k) \ {t} ELSE Running(j)
      /\ t \in Running(k)
  BY <1>0 DEF Running, TypeOK
<1>2. /\ Count[k] = Cardinality(Running(k))
      /\ Cardinality(Running(k)') = Cardinality(Running(k)) - 1
      /\ Cardinality(Running(k)') \in Nat
      /\ Running(k)' = {} <=> Cardinality(Running(k)') = 0
  <2>1. IsFiniteSet(Running(k)) /\ Cardinality(Running(k)) \in Nat
    BY <1>0, RunningIsFinite
  <2>2. /\ IsFiniteSet(Running(k) \ {t})
        /\ Cardinality(Running(k) \ {t}) = Cardinality(Running(k)) - 1
    BY <1>1, <2>1, FS_RemoveElement
  <2>3. Cardinality(Running(k) \ {t}) \in Nat
    BY <2>2, FS_CardinalityType
  <2>4. Running(k) \ {t} = {} <=> Cardinality(Running(k) \ {t}) = 0
    BY <2>2, FS_EmptySet
  <2>5. Running(k)' = Running(k) \ {t}
    BY <1>0, <1>1
  <2>6. QED
    BY <1>0, <2>2, <2>3, <2>4, <2>5 DEF CountIsRunning
<1>3. CountIsRunning'
  <2>1. \A j \in Kinds : Count'[j] = Cardinality(Running(j)')
    BY <1>0, <1>1, <1>2 DEF SchedEnd, IsLast, CountIsRunning, TypeOK
  <2>2. Count[k] = 1 <=> Running(k)' = {}
    BY <1>2, RunningIsFinite, <1>0
  <2>3. Bitmap' = {j \in Kinds : Running(j)' # {}}
    BY <1>0, <1>1, <2>2 DEF SchedEnd, IsLast, CountIsRunning
  <2>4. QED
    BY <2>1, <2>3 DEF CountIsRunning
<1>4. TypeOK'
  <2>1. Count' \in [Kinds -> Nat]
    BY <1>0, <1>2, RunningIsFinite DEF SchedEnd, IsLast, TypeOK
  <2>2. task' \in [Tasks -> [st : {"idle", "guard", "bound"}, kind : Kinds,
                             negative : BOOLEAN]]
    BY DEF TypeOK
  <2>3. timer' \in [Kinds -> {"off", "start", "end"}] /\ fired' \in [Kinds -> BOOLEAN]
    BY DEF SchedEnd, IsLast, Arm, TypeOK
  <2>4. Bitmap' \subseteq Kinds
    BY <1>0 DEF SchedEnd, IsLast, TypeOK
  <2>5. QED
    BY <2>1, <2>2, <2>3, <2>4 DEF TypeOK, workerVars
<1>5. NoLostTick'
  <2>1. k \in Bitmap
    BY <1>0, <1>1 DEF CountIsRunning
  <2>2. QED
    BY <1>0, <2>1 DEF SchedEnd, IsLast, Arm, NoLostTick, TypeOK, workerVars
<1>6. ToldIsReported'
  BY DEF ToldIsReported, workerVars
<1>7. QED
  BY <1>3, <1>4, <1>5, <1>6

\* Steps that leave the calls, the counts and the bits alone keep CountIsRunning.
LEMMA FrameCount ==
  ASSUME CountIsRunning, UNCHANGED <<Count, Bitmap>>,
         \A k \in Kinds : Running(k)' = Running(k)
  PROVE  CountIsRunning'
BY DEF CountIsRunning

\* The worker's locked section consumes a tick only if it reports its change.
LEMMA UpdateMapKeepsIInv ==
  ASSUME IInv, UpdateMap
  PROVE  IInv'
<1> USE DEF IInv
<1>1. UNCHANGED clientVars /\ told' = told /\ worker = "lock"
  BY DEF UpdateMap
<1>2. CountIsRunning'
  BY <1>1, FrameCount DEF clientVars, Running
<1>3. TypeOK'
  BY DEF UpdateMap, TypeOK, MapToSet, ClearedBitmap, Ticks, clientVars
<1>4. NoLostTick'
  BY DEF UpdateMap, NoLostTick, TypeOK, MapToSet, ClearedBitmap, Ticks, clientVars
<1>5. ToldIsReported'
  BY DEF UpdateMap, IsChanged, ToldIsReported
<1>6. QED
  BY <1>2, <1>3, <1>4, <1>5

\* Every step keeps the invariant.
LEMMA IStep == IInv /\ [Next]_vars => IInv'
<1> SUFFICES ASSUME IInv, [Next]_vars PROVE IInv'
  OBVIOUS
<1>1. CASE \E t \in Tasks, k \in Kinds : SchedStart(t, k)
  BY <1>1, StartKeepsIInv
<1>2. CASE \E t \in Tasks : DestroyGuard(t)
  BY <1>2, EndKeepsIInv DEF DestroyGuard, IInv, TypeOK
<1>3. CASE \E t \in Tasks, GottaReleaseEvent \in BOOLEAN : BindToEvent(t, GottaReleaseEvent)
  <2>1. PICK t \in Tasks, own \in BOOLEAN : BindToEvent(t, own)
    BY <1>3
  <2>2. \A k \in Kinds : Running(k)' = Running(k)
    BY <2>1 DEF BindToEvent, Running, IInv, TypeOK
  <2>3. TypeOK'
    BY <2>1 DEF BindToEvent, IInv, TypeOK, workerVars
  <2>4. NoLostTick' /\ ToldIsReported'
    BY <2>1 DEF BindToEvent, IInv, NoLostTick, ToldIsReported, workerVars
  <2>5. CountIsRunning'
    BY <2>1, <2>2, FrameCount DEF BindToEvent, IInv, workerVars
  <2>6. QED
    BY <2>3, <2>4, <2>5 DEF IInv
<1>4. CASE \E t \in Tasks : SchedEndOnEventCallback(t)
  BY <1>4, EndKeepsIInv DEF SchedEndOnEventCallback, IInv, TypeOK
<1>5. CASE \E k \in Kinds : Expire(k)
  BY <1>5, FrameCount
  DEF Expire, IInv, TypeOK, NoLostTick, ToldIsReported, clientVars, workerVars, Running
<1>6. CASE Poll
  BY <1>6, FrameCount
  DEF Poll, IInv, TypeOK, NoLostTick, ToldIsReported, clientVars, Running
<1>7. CASE UpdateMap
  BY <1>7, UpdateMapKeepsIInv
<1>8. CASE DaemonSets
  BY <1>8, FrameCount
  DEF DaemonSets, IInv, TypeOK, NoLostTick, ToldIsReported, clientVars, Running
<1>9. CASE CallReturns
  BY <1>9, FrameCount
  DEF CallReturns, IInv, TypeOK, NoLostTick, ToldIsReported, clientVars, Running
<1>10. CASE Terminate
  BY <1>10, FrameCount
  DEF Terminate, IInv, TypeOK, NoLostTick, ToldIsReported, clientVars, workerVars, Running
<1>11. CASE UNCHANGED vars
  BY <1>11, FrameCount
  DEF vars, IInv, TypeOK, NoLostTick, ToldIsReported, clientVars, workerVars, Running
<1>12. QED
  BY <1>1, <1>2, <1>3, <1>4, <1>5, <1>6, <1>7, <1>8, <1>9, <1>10, <1>11 DEF Next

\* The invariant holds in every reachable state.
LEMMA IInvHolds == Spec => []IInv
BY IInit, IStep, PTL DEF Spec

\* Types, in particular that --Count never goes below zero.
THEOREM TypeCorrect == Spec => []TypeOK
<1>1. IInv => TypeOK
  BY DEF IInv
<1>2. QED
  BY IInvHolds, <1>1, PTL

\* The counts are the calls in flight.
THEOREM CountCorrect == Spec => []CountIsRunning
<1>1. IInv => CountIsRunning
  BY DEF IInv
<1>2. QED
  BY IInvHolds, <1>1, PTL

\* A change that is not reported yet has its timer armed.
THEOREM NoTickIsLost == Spec => []NoLostTick
<1>1. IInv => NoLostTick
  BY DEF IInv
<1>2. QED
  BY IInvHolds, <1>1, PTL

\* The daemon's record is the last report that is not on its way.
THEOREM ReportsArrive == Spec => []ToldIsReported
<1>1. IInv => ToldIsReported
  BY DEF IInv
<1>2. QED
  BY IInvHolds, <1>1, PTL

\* A kind is given back by the tick of the one-second timer only.
THEOREM ReservationHolds == Spec => ReservesTheResource
<1>1. IInv /\ [Next]_vars =>
        [\A k \in OldBitmap \ OldBitmap' :
           k \notin Bitmap /\ timer[k] = "end" /\ fired[k]]_vars
  <2> SUFFICES ASSUME IInv, [Next]_vars, NEW k \in OldBitmap, k \notin OldBitmap'
               PROVE  k \notin Bitmap /\ timer[k] = "end" /\ fired[k]
    OBVIOUS
  <2>1. UpdateMap
    BY DEF Next, vars, workerVars, SchedStart, DestroyGuard, BindToEvent,
           SchedEndOnEventCallback, Expire, Poll, DaemonSets, CallReturns, Terminate
  <2>2. k \notin Bitmap /\ k \in Ticks
    BY <2>1 DEF UpdateMap, MapToSet, ClearedBitmap
  <2>3. timer[k] = "end"
    BY <2>2 DEF IInv, NoLostTick, TypeOK
  <2>4. QED
    BY <2>2, <2>3 DEF Ticks
<1>2. QED
  BY IInvHolds, <1>1, PTL DEF Spec, ReservesTheResource

-----------------------------------------------------------------------------
(* Refinement: scheduling runs a kind or stops it, the worker's locked      *)
(* section makes a report, the rest of the call is the same call.           *)

\* A process starts as a client that has nothing to report.
LEMMA ClientInit == Init => Client!Init
BY DEF Init, Client!Init

\* The map the locked section computes is one a client may report.
LEMMA MapToSetIsReport ==
  ASSUME TypeOK, MapToSet # OldBitmap
  PROVE  MapToSet \in Client!Reports("self")
BY DEF Client!Reports, MapToSet, ClearedBitmap, TypeOK

\* Every step is a step of the client or leaves it as it is.
LEMMA ClientStep == TypeOK /\ [Next]_vars => [Client!Next]_(Client!vars)
<1> SUFFICES ASSUME TypeOK, [Next]_vars PROVE [Client!Next]_(Client!vars)
  OBVIOUS
<1>1. CASE UNCHANGED <<OldBitmap, told, worker>> /\ Bitmap' \subseteq Kinds
  <2>1. Client!Run("self", Bitmap')
    BY <1>1 DEF Client!Run
  <2>2. QED
    BY <1>1, <2>1 DEF Client!Next
<1>2. ASSUME NEW t \in Tasks, NEW k \in Kinds, SchedStart(t, k)
      PROVE  UNCHANGED <<OldBitmap, told, worker>> /\ Bitmap' \subseteq Kinds
  BY <1>2 DEF SchedStart, Started, IsFirst, TypeOK, workerVars
<1>3. ASSUME NEW t \in Tasks, DestroyGuard(t) \/ SchedEndOnEventCallback(t)
      PROVE  UNCHANGED <<OldBitmap, told, worker>> /\ Bitmap' \subseteq Kinds
  BY <1>3 DEF DestroyGuard, SchedEndOnEventCallback, SchedEnd, IsLast, TypeOK, workerVars
<1>4. ASSUME NEW t \in Tasks, NEW own \in BOOLEAN, BindToEvent(t, own)
      PROVE  UNCHANGED <<OldBitmap, told, worker>> /\ Bitmap' \subseteq Kinds
  BY <1>4 DEF BindToEvent, TypeOK, workerVars
<1>5. CASE UpdateMap
  <2>1. CASE MapToSet = OldBitmap
    BY <1>5, <2>1 DEF UpdateMap, IsChanged, clientVars, Client!vars
  <2>2. CASE MapToSet # OldBitmap
    <3>1. MapToSet \in Client!Reports("self") /\ MapToSet \in SUBSET Kinds
      BY <2>2, MapToSetIsReport DEF MapToSet, ClearedBitmap, TypeOK
    <3>2. Client!Report("self", MapToSet)
      BY <1>5, <2>2, <3>1 DEF UpdateMap, IsChanged, clientVars, Client!Report
    <3>3. QED
      BY <3>1, <3>2 DEF Client!Next
  <2>3. QED
    BY <2>1, <2>2
<1>6. CASE DaemonSets
  <2>1. Client!Record("self")
    BY <1>6 DEF DaemonSets, clientVars, Client!Record
  <2>2. QED
    BY <2>1 DEF Client!Next
<1>7. CASE CallReturns
  <2>1. Client!Return("self")
    BY <1>7 DEF CallReturns, clientVars, Client!Return
  <2>2. QED
    BY <2>1 DEF Client!Next
<1>8. CASE Poll
  BY <1>8 DEF Poll, clientVars, Client!vars
<1>9. CASE \E k \in Kinds : Expire(k)
  BY <1>9 DEF Expire, clientVars, workerVars, Client!vars
<1>10. CASE Terminate
  BY <1>10 DEF Terminate, clientVars, workerVars, Client!vars
<1>11. CASE UNCHANGED vars
  BY <1>11 DEF vars, clientVars, workerVars, Client!vars
<1>12. QED
  BY <1>1, <1>2, <1>3, <1>4, <1>5, <1>6, <1>7, <1>8, <1>9, <1>10, <1>11 DEF Next

\* A high-priority process is a client as the composed system assumes it: every
\* report covers what it runs and one call is made at a time.
THEOREM ImplementsHighClient == Spec => IsHighClient
BY ClientInit, ClientStep, TypeCorrect, PTL DEF Spec, IsHighClient, Client!Spec
=============================================================================
