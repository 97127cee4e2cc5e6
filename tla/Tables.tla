------------------------------- MODULE Tables -------------------------------
(***************************************************************************)
(* The tables of command queues, programs and kernels of a low-priority    *)
(* process (RuntimeKeeper.hpp), and the OpenCL calls of Interface.cpp and  *)
(* Support.cpp that look them up, add to them and take from them, with     *)
(* the locks they hold and what they wait for while they hold them.        *)
(*                                                                         *)
(* Threads of the application call at any time, as OpenCL allows: a thread *)
(* uses an object while the application has a reference to it, the last    *)
(* reference is released when no other call uses the object, and, as a     *)
(* FIXME of the code demands, a program is built once.  A handle that the  *)
(* vendor has freed may come back as that of a new object.  The            *)
(* application takes at most MaxRef references to an object.               *)
(*                                                                         *)
(* A section that holds a lock for good and waits for nothing in it is one *)
(* step.  Calls the runtime does not intercept change the vendor's counts  *)
(* alone.  The commands of a queue end when the device gets there; what    *)
(* they do meanwhile is in KernelRuns.                                     *)
(*                                                                         *)
(* X_Y, defined just before X, is X with a plausible bug.                  *)
(***************************************************************************)
EXTENDS Integers, FiniteSets

CONSTANTS Threads, Queues, Programs, Kernels, NULL, MaxRef

Handles == Queues \cup Programs \cup Kernels
Locks == {"QT", "PT", "KT"}

ASSUME ConstantsAssumption ==
  /\ MaxRef \in Nat \ {0} /\ NULL \notin Handles \cup Threads /\ IsFiniteSet(Threads)
  /\ Queues \cap Programs = {} /\ Queues \cap Kernels = {} /\ Programs \cap Kernels = {}

VARIABLES
  refs,      \* the application's references to each object
  vendor,    \* the vendor's reference count of each object, 0 for a free handle
  queueTable, kernelTable,    \* the keys of QT and KT
  programTable,  \* PT: "absent", "built", or "failed" for a null ShadowProgram
  refCount,  \* KernelInfo.RefCount
  profile,   \* the program with the ProfileList that KernelInfo.Profile is in,
             \* NULL when that list has been freed
  mode,      \* how each thread holds each boost::upgrade_mutex
  barred,    \* and whether a thread that waits for it keeps readers out
  mutex,     \* who holds a KernelInfo.Mutex, a BlockerMutex, the static mutex of
             \* clReleaseCommandQueue (under "QT") and clReleaseProgram ("PT")
  at,        \* how far each thread's call is
  uses,      \* the objects of the call
  busy,      \* queues with a kernel that has yet to finish
  fault      \* what went wrong: "insertion", "refused", "freed"

entries == <<queueTable, programTable, kernelTable, refCount, profile>>
locking == <<mode, barred, mutex>>
vars == <<refs, vendor, entries, locking, at, uses, busy, fault>>

Init ==
  /\ refs = [h \in Handles |-> 0] /\ vendor = [h \in Handles |-> 0]
  /\ queueTable = {} /\ kernelTable = {}
  /\ programTable = [p \in Programs |-> "absent"]
  /\ refCount = [k \in Kernels |-> 0] /\ profile = [k \in Kernels |-> NULL]
  /\ mode = [l \in Locks |-> [t \in Threads |-> "none"]]
  /\ barred = [l \in Locks |-> FALSE]
  /\ mutex = [h \in Queues \cup Kernels \cup {"QT", "PT"} |-> NULL]
  /\ at = [t \in Threads |-> "idle"] /\ uses = [t \in Threads |-> {}]
  /\ busy = {}
  /\ fault = "none"

-----------------------------------------------------------------------------
(* boost::upgrade_mutex: readers, one of which may be the one that can rise *)
(* to be the writer; a plain writer that has to wait keeps new readers out  *)
(* until the next time the lock is free.                                    *)

Others(t, l, modes) == \E u \in Threads \ {t} : mode[l][u] \in modes
Holds(t, l, m) == mode' = [mode EXCEPT ![l][t] = m]

MayRead(t, l) == ~barred[l] /\ ~Others(t, l, {"unique"})

LockShared(t, l) == MayRead(t, l) /\ Holds(t, l, "shared")

LockUpgrade(t, l) ==
  ~barred[l] /\ ~Others(t, l, {"unique", "upgrade"}) /\ Holds(t, l, "upgrade")

IsFree(t, l) == ~Others(t, l, {"shared", "upgrade", "unique"})

\* The reader that can rise waits for the others to leave.
MayRise_Plain(t, l) == IsFree(t, l) /\ mode[l][t] = "none"
MayRise(t, l) == IsFree(t, l) /\ mode[l][t] = "upgrade"

\* What t gives up; the last one to leave lets readers in again.
UnlockAll(t) ==
  /\ mode' = [l \in Locks |-> [mode[l] EXCEPT ![t] = "none"]]
  /\ barred' = [l \in Locks |-> barred[l] /\ ~(mode[l][t] # "none" /\ IsFree(t, l))]

\* Given up by the writer, for good or to be the upgrading reader again.
Unbar(l) == barred' = [barred EXCEPT ![l] = FALSE]

UnlockMutexes(t) == mutex' = [h \in DOMAIN mutex |-> IF mutex[h] = t THEN NULL ELSE mutex[h]]

Bar(l) == ~barred[l] /\ barred' = [barred EXCEPT ![l] = TRUE]

-----------------------------------------------------------------------------
(* The application.                                                         *)

Goto(t, step) == at' = [at EXCEPT ![t] = step]
Is(t, step) == at[t] = step /\ fault = "none"

\* The call is over.
Return(t) == at' = [at EXCEPT ![t] = "idle"] /\ uses' = [uses EXCEPT ![t] = {}]

\* What the code tests or relies on; if it fails, nothing happens any more.
Expect(holds, otherwise) == fault' = IF holds THEN fault ELSE otherwise

Releasing == {"release", "drop", "erase", "vendor release"}
InUse(h) == \E t \in Threads : h \in uses[t] /\ at[t] \notin Releasing

Call(t, step, objects) ==
  /\ Is(t, "idle")
  /\ \A h \in objects : refs[h] > 0
  /\ Goto(t, step)
  /\ uses' = [uses EXCEPT ![t] = objects]
  /\ UNCHANGED <<refs, vendor, entries, locking, busy, fault>>

\* A call that takes a reference away: not the last one of an object in use.
CallRelease(t, h) ==
  /\ Is(t, "idle")
  /\ refs[h] > 0 /\ (refs[h] = 1 => ~InUse(h))
  /\ refs' = [refs EXCEPT ![h] = @ - 1]
  /\ Goto(t, "release")
  /\ uses' = [uses EXCEPT ![t] = {h}]
  /\ UNCHANGED <<vendor, entries, locking, busy, fault>>

IsUnbuilt(p) ==
  programTable[p] = "absent" /\ \A t \in Threads : p \in uses[t] => at[t] # "build"

StartCall(t) ==
  \/ \E p \in Programs : IsUnbuilt(p) /\ Call(t, "build", {p})
  \/ \E p \in Programs : Call(t, "create kernel", {p})
  \/ \E k \in Kernels : refs[k] < MaxRef /\ Call(t, "retain kernel", {k})
  \/ \E k \in Kernels : Call(t, "set argument", {k})
  \/ \E q \in Queues, k \in Kernels : Call(t, "launch", {q, k})
  \/ \E q \in Queues : Call(t, "command", {q})
  \/ \E h \in Handles : CallRelease(t, h)

\* clCreateProgramWithSource, clRetainProgram and clRetainCommandQueue go
\* straight to the vendor.
CreateProgram(t) ==
  /\ Is(t, "idle")
  /\ \E p \in Programs :
       /\ vendor[p] = 0
       /\ vendor' = [vendor EXCEPT ![p] = 1] /\ refs' = [refs EXCEPT ![p] = 1]
  /\ UNCHANGED <<entries, locking, at, uses, busy, fault>>

Retain(t) ==
  /\ Is(t, "idle")
  /\ \E h \in Queues \cup Programs :
       /\ refs[h] \in 1 .. MaxRef - 1
       /\ vendor' = [vendor EXCEPT ![h] = @ + 1] /\ refs' = [refs EXCEPT ![h] = @ + 1]
  /\ UNCHANGED <<entries, locking, at, uses, busy, fault>>

-----------------------------------------------------------------------------
(* Queues: clCreateCommandQueue, clReleaseCommandQueue.                     *)

CreateQueue(t) ==
  /\ Is(t, "idle")
  /\ \E q \in Queues :
       /\ vendor[q] = 0
       /\ vendor' = [vendor EXCEPT ![q] = 1]
       /\ uses' = [uses EXCEPT ![t] = {q}]
       /\ busy' = busy \ {q}
  /\ Goto(t, "insert queue")
  /\ UNCHANGED <<refs, entries, locking, fault>>

InsertQueue(t) ==
  /\ Is(t, "insert queue") /\ IsFree(t, "QT")
  /\ \E q \in uses[t] :
       /\ Expect(q \notin queueTable, "insertion")
       /\ queueTable' = queueTable \cup {q}
       /\ refs' = [refs EXCEPT ![q] = 1]
  /\ Unbar("QT") /\ Return(t)
  /\ UNCHANGED <<vendor, programTable, kernelTable, refCount, profile, mode, mutex, busy>>

\* The vendor's count, read under the upgrade lock and the static mutex, says
\* whether the entry has to go; both are held until the vendor has released.
IsLast_OffByOne(h) == vendor[h] < 1
IsLast(h) == vendor[h] <= 1

CountReferences(t, l, h) ==
  /\ mutex[l] = NULL
  /\ mutex' = [mutex EXCEPT ![l] = t]
  /\ Goto(t, IF IsLast(h) THEN "erase" ELSE "vendor release")

ReleaseQueue(t) ==
  /\ Is(t, "release") /\ LockUpgrade(t, "QT")
  /\ \E q \in uses[t] \cap Queues :
       Expect(q \in queueTable, "refused") /\ CountReferences(t, "QT", q)
  /\ UNCHANGED <<refs, vendor, entries, barred, uses, busy>>

-----------------------------------------------------------------------------
(* Programs: clBuildProgram, whose compiler runs before it takes the lock   *)
(* (module Build), and clReleaseProgram.                                    *)

InsertProgram(t) ==
  /\ Is(t, "build") /\ IsFree(t, "PT")
  /\ \E p \in uses[t] :
       /\ Expect(programTable[p] = "absent", "insertion")
       /\ \E result \in {"built", "failed"} :
            programTable' = [programTable EXCEPT ![p] = result]
  /\ Unbar("PT") /\ Return(t)
  /\ UNCHANGED <<refs, vendor, queueTable, kernelTable, refCount, profile, mode, mutex, busy>>

ReleaseProgram(t) ==
  /\ Is(t, "release") /\ LockUpgrade(t, "PT")
  /\ \E p \in uses[t] \cap Programs :
       \/ programTable[p] # "absent" /\ CountReferences(t, "PT", p)
       \/ programTable[p] = "absent" /\ Goto(t, "vendor release") /\ UNCHANGED mutex
  /\ UNCHANGED <<refs, vendor, entries, barred, uses, busy, fault>>

-----------------------------------------------------------------------------
(* Kernels: clCreateKernel, clRetainKernel, clReleaseKernel.                *)

\* ProgramTable stays locked while the kernel is put in its table.
CreateKernel(t) ==
  /\ Is(t, "create kernel")
  /\ \/ \E p \in uses[t], k \in Kernels :
          /\ programTable[p] = "built" /\ vendor[k] = 0
          /\ LockShared(t, "PT")
          /\ vendor' = [vendor EXCEPT ![k] = 1]
          /\ uses' = [uses EXCEPT ![t] = {p, k}]
          /\ Goto(t, "insert kernel")
     \/ MayRead(t, "PT") /\ Return(t) /\ UNCHANGED <<mode, vendor>>
  /\ UNCHANGED <<refs, entries, barred, mutex, busy, fault>>

FirstCount_Zero == 0
FirstCount == 1

InsertKernel(t) ==
  /\ Is(t, "insert kernel") /\ IsFree(t, "KT")
  /\ \E p \in uses[t] \cap Programs, k \in uses[t] \cap Kernels :
       /\ Expect(k \notin kernelTable, "insertion")
       /\ kernelTable' = kernelTable \cup {k}
       /\ refCount' = [refCount EXCEPT ![k] = FirstCount]
       /\ profile' = [profile EXCEPT ![k] = p]
       /\ refs' = [refs EXCEPT ![k] = 1]
  /\ Return(t)
  /\ mode' = [mode EXCEPT !["PT"][t] = "none"]
  /\ barred' = [barred EXCEPT !["KT"] = FALSE, !["PT"] = @ /\ ~IsFree(t, "PT")]
  /\ UNCHANGED <<vendor, queueTable, programTable, mutex, busy>>

\* The vendor is not told: KernelInfo has a count of its own.
Retained_Not(n) == n
Retained(n) == n + 1

FindToRetain(t) ==
  /\ Is(t, "retain kernel") /\ LockShared(t, "KT")
  /\ Expect(uses[t] \subseteq kernelTable, "refused")
  /\ Goto(t, "retain")
  /\ UNCHANGED <<refs, vendor, entries, barred, mutex, uses, busy>>

RetainKernel(t) ==
  /\ Is(t, "retain")
  /\ \E k \in uses[t] :
       /\ mutex[k] = NULL
       /\ refCount' = [refCount EXCEPT ![k] = Retained(@)]
       /\ refs' = [refs EXCEPT ![k] = @ + 1]
  /\ UnlockAll(t) /\ Return(t)
  /\ UNCHANGED <<vendor, queueTable, programTable, kernelTable, profile, mutex, busy, fault>>

FindToRelease(t) ==
  /\ Is(t, "release") /\ LockUpgrade(t, "KT")
  /\ uses[t] \subseteq Kernels
  /\ Expect(uses[t] \subseteq kernelTable, "refused")
  /\ Goto(t, "drop")
  /\ UNCHANGED <<refs, vendor, entries, barred, mutex, uses, busy>>

\* The last release keeps KernelInfo.Mutex while it waits for the readers.
DropReference(t) ==
  /\ Is(t, "drop")
  /\ \E k \in uses[t] :
       /\ mutex[k] = NULL
       /\ refCount' = [refCount EXCEPT ![k] = @ - 1]
       /\ \/ refCount[k] > 1 /\ UnlockAll(t) /\ Return(t) /\ UNCHANGED mutex
          \/ /\ refCount[k] <= 1
             /\ mutex' = [mutex EXCEPT ![k] = t]
             /\ Goto(t, "erase")
             /\ UNCHANGED <<mode, barred, uses>>
  /\ UNCHANGED <<refs, vendor, queueTable, programTable, kernelTable, profile, busy, fault>>

\* clSetKernelArg reads the profile and waits for nothing but the lock.
ReadProfile(k) ==
  Expect(k \in kernelTable /\ profile[k] # NULL,
         IF k \in kernelTable THEN "freed" ELSE "refused")

SetKernelArg(t) ==
  /\ Is(t, "set argument") /\ MayRead(t, "KT")
  /\ \E k \in uses[t] : ReadProfile(k)
  /\ Return(t)
  /\ UNCHANGED <<refs, vendor, entries, locking, busy>>

-----------------------------------------------------------------------------
(* What the three calls that release an object have in common.              *)

TableOf(h) == IF h \in Queues THEN "QT" ELSE IF h \in Programs THEN "PT" ELSE "KT"

\* With a program go the profiles of its kernels.  The writer of KernelTable lets
\* go of the mutex of the entry and stays the writer until the vendor has
\* released, the others turn readers again.
Erase(t) ==
  /\ Is(t, "erase")
  /\ \E h \in uses[t] :
       /\ MayRise(t, TableOf(h))
       /\ queueTable' = queueTable \ {h} /\ kernelTable' = kernelTable \ {h}
       /\ programTable' = [p \in Programs |-> IF p = h THEN "absent" ELSE programTable[p]]
       /\ profile' = [k \in Kernels |-> IF profile[k] = h THEN NULL ELSE profile[k]]
       /\ \/ h \in Kernels /\ Holds(t, "KT", "unique") /\ UnlockMutexes(t) /\ UNCHANGED barred
          \/ h \notin Kernels /\ Unbar(TableOf(h)) /\ UNCHANGED <<mode, mutex>>
  /\ Goto(t, "vendor release")
  /\ UNCHANGED <<refs, vendor, refCount, uses, busy, fault>>

VendorRelease(t) ==
  /\ Is(t, "vendor release")
  /\ vendor' = [h \in Handles |-> vendor[h] - (IF h \in uses[t] THEN 1 ELSE 0)]
  /\ UnlockMutexes(t) /\ UnlockAll(t) /\ Return(t)
  /\ UNCHANGED <<refs, entries, busy, fault>>

-----------------------------------------------------------------------------
(* Commands: clEnqueueNDRangeKernel, and Reorder for the others.            *)

FindQueue(t) ==
  /\ \/ Is(t, "launch") /\ Goto(t, "find kernel")
     \/ Is(t, "command") /\ Goto(t, "reorder")
  /\ LockShared(t, "QT")
  /\ Expect(uses[t] \cap Queues \subseteq queueTable, "refused")
  /\ UNCHANGED <<refs, vendor, entries, barred, mutex, uses, busy>>

LaunchKernel(t) ==
  /\ Is(t, "find kernel") /\ LockShared(t, "KT")
  /\ \E k \in uses[t] \cap Kernels : ReadProfile(k)
  /\ Goto(t, "pool")
  /\ UNCHANGED <<refs, vendor, entries, barred, mutex, uses, busy>>

\* KernelInfo.Mutex is held to take a kernel object from the pool, ...
TakeFromPool(t) ==
  /\ Is(t, "pool")
  /\ \A k \in uses[t] \cap Kernels : mutex[k] = NULL
  /\ Goto(t, "wait list")
  /\ UNCHANGED <<refs, vendor, entries, locking, uses, busy, fault>>

\* ... BlockerMutex from the making of the wait list on.
LockBlocker(t, step) ==
  \E q \in uses[t] \cap Queues :
    mutex[q] = NULL /\ mutex' = [mutex EXCEPT ![q] = t] /\ Goto(t, step)

MakeWaitList(t) ==
  /\ Is(t, "wait list") /\ LockBlocker(t, "enqueue")
  /\ UNCHANGED <<refs, vendor, entries, mode, barred, uses, busy, fault>>

\* The end of a call that holds BlockerMutex.
LeaveQueue(t) ==
  UnlockMutexes(t) /\ UnlockAll(t) /\ Return(t)

\* Where MetaEnqueue waits for the run level; the launch may fail.
Enqueue(t) ==
  /\ Is(t, "enqueue")
  /\ busy' \in {busy, busy \cup (uses[t] \cap Queues)}
  /\ LeaveQueue(t)
  /\ UNCHANGED <<refs, vendor, entries, fault>>

\* A blocking command ends with the locks held, after the kernel before it.
ReorderCore(t) ==
  /\ Is(t, "reorder")
  /\ \/ LockBlocker(t, "blocking") /\ UNCHANGED <<mode, barred, uses>>
     \/ \A q \in uses[t] : mutex[q] = NULL /\ LeaveQueue(t)
  /\ UNCHANGED <<refs, vendor, entries, busy, fault>>

BlockingCommandEnds(t) ==
  /\ Is(t, "blocking") /\ uses[t] \cap busy = {}
  /\ LeaveQueue(t)
  /\ UNCHANGED <<refs, vendor, entries, busy, fault>>

\* ResumeOrFinish sets the final event of the kernel.
Finish(q) ==
  /\ q \in busy /\ fault = "none"
  /\ busy' = busy \ {q}
  /\ UNCHANGED <<refs, vendor, entries, locking, at, uses, fault>>

-----------------------------------------------------------------------------
\* A writer that finds its lock held.
WaitForWrite(t) ==
  /\ \/ Is(t, "insert queue") /\ ~IsFree(t, "QT") /\ Bar("QT")
     \/ Is(t, "build") /\ ~IsFree(t, "PT") /\ Bar("PT")
     \/ Is(t, "insert kernel") /\ ~IsFree(t, "KT") /\ Bar("KT")
  /\ UNCHANGED <<refs, vendor, entries, mode, mutex, at, uses, busy, fault>>

Step(t) ==
  \/ InsertQueue(t) \/ ReleaseQueue(t) \/ InsertProgram(t) \/ ReleaseProgram(t)
  \/ CreateKernel(t) \/ InsertKernel(t) \/ FindToRetain(t) \/ RetainKernel(t)
  \/ FindToRelease(t) \/ DropReference(t) \/ SetKernelArg(t) \/ Erase(t) \/ VendorRelease(t)
  \/ FindQueue(t) \/ LaunchKernel(t) \/ TakeFromPool(t) \/ MakeWaitList(t) \/ Enqueue(t)
  \/ ReorderCore(t) \/ BlockingCommandEnds(t)

Next ==
  \/ \E t \in Threads :
       StartCall(t) \/ CreateProgram(t) \/ Retain(t) \/ CreateQueue(t) \/ WaitForWrite(t) \/ Step(t)
  \/ \E q \in Queues : Finish(q)

Spec == Init /\ [][Next]_vars

-----------------------------------------------------------------------------
TypeOK ==
  /\ refs \in [Handles -> Nat] /\ vendor \in [Handles -> Nat]
  /\ queueTable \subseteq Queues /\ kernelTable \subseteq Kernels
  /\ programTable \in [Programs -> {"absent", "built", "failed"}]
  /\ refCount \in [Kernels -> Nat] /\ profile \in [Kernels -> Programs \cup {NULL}]
  /\ mode \in [Locks -> [Threads -> {"none", "shared", "upgrade", "unique"}]]
  /\ barred \in [Locks -> BOOLEAN]
  /\ mutex \in [Queues \cup Kernels \cup {"QT", "PT"} -> Threads \cup {NULL}]
  /\ uses \in [Threads -> SUBSET Handles] /\ busy \subseteq Queues
  /\ fault \in {"none", "insertion", "refused", "freed"}

\* A call that OpenCL allows never finds an object missing that the application
\* holds, nor a new handle in the table already: the INTER_ASSERTs "insertion to
\* queue table didn't take place" and those of programs and kernels never fail,
\* however the vendor reuses handles.
LegalCallsSucceed == fault \notin {"insertion", "refused"}

\* The tables follow the application's references: an object it holds is in its
\* table with its count, and an entry nobody holds is about to be erased by a
\* call under way; no release leaves a shadow queue, a shadow program or a pool
\* of kernels behind.
EntriesFollowReferences ==
  LET Held(h) == refs[h] > 0
      Unused(h) == \A t \in Threads : h \notin uses[t]
  IN /\ \A q \in Queues : /\ Held(q) => q \in queueTable
                          /\ q \in queueTable => Held(q) \/ ~Unused(q)
     /\ \A p \in Programs : programTable[p] # "absent" => Held(p) \/ ~Unused(p)
     /\ \A k \in Kernels : /\ Held(k) => k \in kernelTable /\ refCount[k] >= refs[k]
                           /\ Unused(k) /\ k \in kernelTable => refCount[k] = refs[k]
                           /\ k \in kernelTable => Held(k) \/ ~Unused(k)
     /\ \A h \in Queues \cup Programs : Unused(h) => vendor[h] = refs[h]

\* "Is deadlock possible here?", asks clReleaseKernel, which waits for the readers
\* of the table with KernelInfo.Mutex held.  Not among the calls: whichever locks
\* they hold and wait for, one of those under way can go on, or a queue waits for
\* a kernel that the device has yet to finish.
CallsGoOn ==
  (\E t \in Threads : at[t] # "idle") /\ fault = "none" =>
    busy # {} \/ \E t \in Threads : ENABLED Step(t)
=============================================================================
