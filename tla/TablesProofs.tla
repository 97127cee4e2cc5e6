----------------------------- MODULE TablesProofs -----------------------------
(***************************************************************************)
(* What holds of the tables for any number of threads, queues, programs and *)
(* kernels, and however often the vendor gives a handle out again:          *)
(* LegalCallsSucceed and EntriesFollowReferences, from an account, for each *)
(* object, of the references that the calls under way have yet to give      *)
(* back.                                                                    *)
(***************************************************************************)
EXTENDS Tables, FiniteSetTheorems, TLAPS

-----------------------------------------------------------------------------
(* The inductive invariant.                                                 *)

Phases ==
  {"idle", "build", "create kernel", "retain kernel", "retain", "set argument", "drop",
   "insert queue", "command", "reorder", "blocking", "launch", "find kernel", "pool",
   "wait list", "enqueue", "insert kernel", "release", "erase", "vendor release"}

\* The objects a call uses, by how far it is.
Fits(s, X) ==
  LET One(S) == \E x \in S : X = {x}
      Two(S, T) == \E x \in S, y \in T : X = {x, y}
  IN /\ s = "idle" => X = {}
     /\ s \in {"build", "create kernel"} => One(Programs)
     /\ s \in {"retain kernel", "retain", "set argument", "drop"} => One(Kernels)
     /\ s \in {"insert queue", "command", "reorder", "blocking"} => One(Queues)
     /\ s \in {"launch", "find kernel", "pool", "wait list", "enqueue"} => Two(Queues, Kernels)
     /\ s = "insert kernel" => Two(Programs, Kernels)
     /\ s \in {"release", "erase", "vendor release"} => One(Handles)

CallsFit == at \in [Threads -> Phases] /\ \A t \in Threads : Fits(at[t], uses[t])

\* Calls that have yet to give the vendor's reference back, or to hand out the
\* first one.
Owing == Releasing \cup {"insert queue"}
Pending(h) == {t \in Threads : h \in uses[t] /\ at[t] \in Owing}

\* The vendor's only reference is that of a call before the insertion or past the
\* erasure.
IsUnlisted(h) ==
  /\ vendor[h] = 1
  /\ \E t \in Threads : h \in uses[t] /\ at[t] \in {"insert queue", "vendor release"}

\* Queues and programs: the vendor counts the application's references and those
\* of the calls.
CountIsRight(h) ==
  /\ vendor[h] = refs[h] + Cardinality(Pending(h))
  /\ \A t \in Threads : h \in uses[t] /\ at[t] \in {"insert queue", "erase"} => vendor[h] = 1

QueueEntry(q) == q \in queueTable <=> vendor[q] > 0 /\ ~IsUnlisted(q)
ProgramEntry(p) == programTable[p] # "absent" => vendor[p] > 0 /\ ~IsUnlisted(p)

\* Kernels: calls that have yet to lower the count the runtime keeps.
Dropping(k) == {t \in Threads : k \in uses[t] /\ at[t] \in {"release", "drop"}}

Alone == {"insert kernel", "erase", "vendor release"}

KernelEntry(k) ==
  /\ k \in kernelTable => vendor[k] = 1 /\ refCount[k] = refs[k] + Cardinality(Dropping(k))
  /\ k \notin kernelTable => refs[k] = 0 /\ Dropping(k) = {}
  /\ k \in kernelTable /\ refCount[k] = 0 =>
       \E t \in Threads : k \in uses[t] /\ at[t] = "erase"
  /\ \A t \in Threads : k \in uses[t] =>
       /\ at[t] = "erase" => k \in kernelTable /\ refCount[k] = 0
       /\ at[t] \in {"insert kernel", "vendor release"} => k \notin kernelTable /\ vendor[k] = 1
  /\ \A t, u \in Threads :
       k \in uses[t] /\ k \in uses[u] /\ at[t] \in Alone /\ at[u] \in Alone => t = u

\* The account of one object.
ObjectInv(h) ==
  /\ h \in Queues \cup Programs => CountIsRight(h)
  /\ h \in Queues => QueueEntry(h)
  /\ h \in Programs => ProgramEntry(h)
  /\ h \in Kernels => KernelEntry(h)

ObjectsAreRight == \A h \in Handles : ObjectInv(h)

\* The application holds what its calls use, but for what they create or release.
UsedAreHeld ==
  \A t \in Threads : \A h \in uses[t] :
    \/ refs[h] > 0
    \/ at[t] \in Owing
    \/ at[t] = "insert kernel" /\ h \in Kernels

\* A program is built by one call, before it has an entry.
BuildIsAlone ==
  \A t \in Threads, p \in Programs : p \in uses[t] /\ at[t] = "build" =>
    /\ programTable[p] = "absent"
    /\ \A u \in Threads : p \in uses[u] /\ at[u] = "build" => u = t

\* A table has one thread that writes or is about to; a call that releases a queue
\* or a program is that thread until the vendor has released.
Strong == {"upgrade", "unique"}

OneIsStrong ==
  \A l \in Locks : \A t, u \in Threads :
    mode[l][t] \in Strong /\ mode[l][u] \in Strong => t = u

ReleaseIsStrong ==
  \A t \in Threads : \A h \in uses[t] \ Kernels :
    at[t] \in {"erase", "vendor release"} => mode[TableOf(h)][t] \in Strong

IInv ==
  /\ TypeOK /\ LegalCallsSucceed
  /\ CallsFit
  /\ ObjectsAreRight
  /\ UsedAreHeld /\ BuildIsAlone
  /\ OneIsStrong /\ ReleaseIsStrong

-----------------------------------------------------------------------------
(* How far a call is and what it uses change together.                      *)

Moves(t, s, X) == at' = [at EXCEPT ![t] = s] /\ uses' = [uses EXCEPT ![t] = X]

\* A move concerns one call.
LEMMA Moved ==
  ASSUME TypeOK, CallsFit, NEW t \in Threads, NEW s, NEW X, Moves(t, s, X)
  PROVE  /\ at'[t] = s /\ uses'[t] = X
         /\ \A u \in Threads : u # t => at'[u] = at[u] /\ uses'[u] = uses[u]
BY DEF TypeOK, CallsFit, Moves

\* The next step of a call has the objects it needs.
LEMMA MoveFits ==
  ASSUME TypeOK, CallsFit, NEW t \in Threads, NEW s \in Phases, NEW X \in SUBSET Handles,
         Fits(s, X), Moves(t, s, X)
  PROVE  CallsFit' /\ uses' \in [Threads -> SUBSET Handles]
<1>1. at' \in [Threads -> Phases] /\ uses' \in [Threads -> SUBSET Handles]
  BY DEF TypeOK, CallsFit, Moves
<1>2. \A u \in Threads : Fits(at'[u], uses'[u])
  <2>1. TAKE u \in Threads
  <2>2. CASE u = t
    BY <2>2, Moved
  <2>3. CASE u # t
    <3>1. at'[u] = at[u] /\ uses'[u] = uses[u] /\ Fits(at[u], uses[u])
      BY <2>3, Moved DEF CallsFit
    <3>2. QED
      BY <3>1
  <2>4. QED
    BY <2>2, <2>3
<1>3. QED
  BY <1>1, <1>2 DEF CallsFit

\* How a finite count of threads follows a set that one thread enters or leaves.
LEMMA CountFollows ==
  ASSUME NEW S \in SUBSET Threads, NEW T \in SUBSET Threads, NEW t \in Threads,
         \A u \in Threads : u # t => (u \in S <=> u \in T)
  PROVE  /\ IsFiniteSet(S) /\ Cardinality(S) \in Nat /\ Cardinality(T) \in Nat
         /\ t \in S /\ t \in T => Cardinality(T) = Cardinality(S)
         /\ t \notin S /\ t \notin T => Cardinality(T) = Cardinality(S)
         /\ t \in S /\ t \notin T => Cardinality(T) = Cardinality(S) - 1
         /\ t \notin S /\ t \in T => Cardinality(T) = Cardinality(S) + 1
<1>1. IsFiniteSet(S) /\ IsFiniteSet(T)
  BY ConstantsAssumption, FS_Subset
<1>2. Cardinality(S) \in Nat /\ Cardinality(T) \in Nat
  BY <1>1, FS_CardinalityType
<1>3. (t \in S <=> t \in T) => S = T
  OBVIOUS
<1>4. t \in S /\ t \notin T => T = S \ {t}
  OBVIOUS
<1>5. t \notin S /\ t \in T => T = S \cup {t}
  OBVIOUS
<1>6. /\ Cardinality(S \ {t}) = IF t \in S THEN Cardinality(S) - 1 ELSE Cardinality(S)
      /\ Cardinality(S \cup {t}) = IF t \in S THEN Cardinality(S) ELSE Cardinality(S) + 1
  BY <1>1, FS_AddElement, FS_RemoveElement
<1>7. QED
  BY <1>1, <1>2, <1>3, <1>4, <1>5, <1>6

\* A finite set of threads counts 0 when it is empty, and one when it has a member
\* and no other.
LEMMA CountOfThreads ==
  ASSUME NEW S \in SUBSET Threads
  PROVE  /\ Cardinality(S) \in Nat
         /\ Cardinality(S) = 0 <=> S = {}
         /\ \A t \in S : Cardinality(S) = 1 => S = {t}
         /\ \A t \in S : Cardinality(S) >= 1
<1>1. IsFiniteSet(S)
  BY ConstantsAssumption, FS_Subset
<1>2. Cardinality(S) \in Nat /\ (Cardinality(S) = 0 <=> S = {})
  BY <1>1, FS_CardinalityType, FS_EmptySet
<1>3. ASSUME NEW t \in S PROVE Cardinality(S) >= 1 /\ (Cardinality(S) = 1 => S = {t})
  <2>1. Cardinality(S \ {t}) = Cardinality(S) - 1 /\ IsFiniteSet(S \ {t})
    BY <1>1, FS_RemoveElement
  <2>2. Cardinality(S \ {t}) \in Nat /\ (Cardinality(S \ {t}) = 0 <=> S \ {t} = {})
    BY <2>1, FS_CardinalityType, FS_EmptySet
  <2>3. QED
    BY <1>2, <2>1, <2>2
<1>4. QED
  BY <1>2, <1>3

\* A call that owes a reference has it counted; when that is the vendor's only one,
\* the application has none and no other call owes one.
LEMMA OwedIsCounted ==
  ASSUME TypeOK, NEW h \in Queues \cup Programs, CountIsRight(h)
  PROVE  /\ \A t \in Pending(h) : vendor[h] >= 1
         /\ \A t \in Pending(h) : vendor[h] = 1 => refs[h] = 0 /\ Pending(h) = {t}
         /\ refs[h] > 0 => vendor[h] > 0 /\ ~IsUnlisted(h)
<1>1. refs[h] \in Nat /\ vendor[h] \in Nat
  BY DEF TypeOK, Handles
<1>2. Pending(h) \in SUBSET Threads
  BY DEF Pending
<1>3. vendor[h] = refs[h] + Cardinality(Pending(h))
  BY DEF CountIsRight
<1>4. /\ \A t \in Pending(h) : vendor[h] >= 1
      /\ \A t \in Pending(h) : vendor[h] = 1 => refs[h] = 0 /\ Pending(h) = {t}
  BY <1>1, <1>2, <1>3, CountOfThreads
<1>5. refs[h] > 0 => vendor[h] > 0
  BY <1>1, <1>2, <1>3, CountOfThreads
<1>6. IsUnlisted(h) => vendor[h] = 1 /\ \E t \in Threads : t \in Pending(h)
  BY DEF IsUnlisted, Pending, Owing, Releasing
<1>7. QED
  BY <1>1, <1>4, <1>5, <1>6

\* An object that the application holds is in its table.
LEMMA HeldIsListed ==
  ASSUME TypeOK, ObjectsAreRight, NEW h \in Handles, refs[h] > 0
  PROVE  /\ h \in Queues => h \in queueTable
         /\ h \in Kernels => h \in kernelTable
         /\ h \in Kernels => vendor[h] = 1 /\ refCount[h] >= refs[h]
<1>1. ObjectInv(h) /\ refs[h] \in Nat
  BY DEF ObjectsAreRight, TypeOK
<1>2. h \in Queues => h \in queueTable
  BY <1>1, OwedIsCounted DEF ObjectInv, QueueEntry
<1>3. Cardinality(Dropping(h)) \in Nat
  BY CountOfThreads DEF Dropping
<1>4. h \in Kernels => h \in kernelTable /\ vendor[h] = 1 /\ refCount[h] >= refs[h]
  <2>1. SUFFICES ASSUME h \in Kernels
                 PROVE  h \in kernelTable /\ vendor[h] = 1 /\ refCount[h] >= refs[h]
    OBVIOUS
  <2>2. /\ h \in kernelTable =>
             vendor[h] = 1 /\ refCount[h] = refs[h] + Cardinality(Dropping(h))
        /\ h \notin kernelTable => refs[h] = 0
    BY <1>1, <2>1 DEF ObjectInv, KernelEntry
  <2>3. h \in kernelTable
    BY <1>1, <2>2
  <2>4. QED
    BY <1>1, <1>3, <2>2, <2>3
<1>5. QED
  BY <1>2, <1>4

-----------------------------------------------------------------------------
(* The account of an object that a step does not touch.                     *)

\* The phases the account speaks of; of "insert kernel" only that of a kernel does.
Marked == Owing \cup {"insert kernel"}
MarksOf(h) == IF h \in Kernels THEN Marked ELSE Owing

SameEntry(h) ==
  /\ refs'[h] = refs[h] /\ vendor'[h] = vendor[h]
  /\ h \in queueTable' <=> h \in queueTable
  /\ h \in kernelTable' <=> h \in kernelTable
  /\ h \in Programs => programTable'[h] = programTable[h]
  /\ h \in Kernels => refCount'[h] = refCount[h]

Untouched(h) ==
  /\ SameEntry(h)
  /\ \A t \in Threads, s \in MarksOf(h) :
       (h \in uses'[t] /\ at'[t] = s) <=> (h \in uses[t] /\ at[t] = s)

\* What is right stays right.
LEMMA UntouchedIsRight ==
  ASSUME NEW h \in Handles, ObjectInv(h), Untouched(h)
  PROVE  ObjectInv(h)'
<1>1. /\ refs'[h] = refs[h] /\ vendor'[h] = vendor[h]
      /\ h \in queueTable' <=> h \in queueTable
      /\ h \in kernelTable' <=> h \in kernelTable
      /\ h \in Programs => programTable'[h] = programTable[h]
      /\ h \in Kernels => refCount'[h] = refCount[h]
  BY DEF Untouched, SameEntry
<1>2. ASSUME NEW t \in Threads
      PROVE  /\ \A s \in {"insert queue", "release", "drop", "erase", "vendor release"} :
                  (h \in uses'[t] /\ at'[t] = s) <=> (h \in uses[t] /\ at[t] = s)
             /\ h \in Kernels => \A s \in Alone :
                  (h \in uses'[t] /\ at'[t] = s) <=> (h \in uses[t] /\ at[t] = s)
  BY DEF Untouched, MarksOf, Marked, Owing, Releasing, Alone
<1>3. Pending(h)' = Pending(h)
  BY <1>2 DEF Pending, Owing, Releasing
<1>4. Dropping(h)' = Dropping(h)
  BY <1>2 DEF Dropping
<1>5. IsUnlisted(h)' <=> IsUnlisted(h)
  BY <1>1, <1>2 DEF IsUnlisted
<1>6. h \in Queues \cup Programs => CountIsRight(h)'
  BY <1>1, <1>2, <1>3 DEF CountIsRight, ObjectInv
<1>7. (h \in Queues => QueueEntry(h)') /\ (h \in Programs => ProgramEntry(h)')
  BY <1>1, <1>5 DEF QueueEntry, ProgramEntry, ObjectInv
<1>8. h \in Kernels => KernelEntry(h)'
  <2>1. SUFFICES ASSUME h \in Kernels, KernelEntry(h) PROVE KernelEntry(h)'
    BY DEF ObjectInv
  <2>2. ASSUME NEW t \in Threads, h \in uses'[t], at'[t] \in Alone
        PROVE  h \in uses[t] /\ at[t] = at'[t]
    BY <1>2, <2>2, <2>1
  <2>3. /\ h \in kernelTable' =>
             vendor'[h] = 1 /\ refCount'[h] = refs'[h] + Cardinality(Dropping(h)')
        /\ h \notin kernelTable' => refs'[h] = 0 /\ Dropping(h)' = {}
    BY <1>1, <1>4, <2>1 DEF KernelEntry
  <2>4. h \in kernelTable' /\ refCount'[h] = 0 =>
          \E t \in Threads : h \in uses'[t] /\ at'[t] = "erase"
    BY <1>1, <1>2, <2>1 DEF KernelEntry
  <2>5. ASSUME NEW t \in Threads, h \in uses'[t]
        PROVE  /\ at'[t] = "erase" => h \in kernelTable' /\ refCount'[h] = 0
               /\ at'[t] \in {"insert kernel", "vendor release"} =>
                    h \notin kernelTable' /\ vendor'[h] = 1
    BY <1>1, <1>2, <2>1, <2>5 DEF KernelEntry, Alone
  <2>6. ASSUME NEW t \in Threads, NEW u \in Threads, h \in uses'[t], h \in uses'[u],
               at'[t] \in Alone, at'[u] \in Alone
        PROVE  t = u
    BY <2>2, <2>1, <2>6 DEF KernelEntry
  <2>7. QED
    BY <2>3, <2>4, <2>5, <2>6 DEF KernelEntry
<1>9. QED
  BY <1>6, <1>7, <1>8 DEF ObjectInv

\* An object that is neither used by the call that moves, before or after, in a
\* phase the account speaks of.
LEMMA MoveLeavesUntouched ==
  ASSUME TypeOK, CallsFit, NEW t \in Threads, NEW s, NEW X, Moves(t, s, X), NEW h,
         h \notin uses[t] \/ at[t] \notin MarksOf(h),
         h \notin X \/ s \notin MarksOf(h)
  PROVE  \A u \in Threads, r \in MarksOf(h) :
           (h \in uses'[u] /\ at'[u] = r) <=> (h \in uses[u] /\ at[u] = r)
<1>1. /\ at'[t] = s /\ uses'[t] = X
      /\ \A u \in Threads : u # t => at'[u] = at[u] /\ uses'[u] = uses[u]
  BY Moved
<1>2. TAKE u \in Threads, r \in MarksOf(h)
<1>3. CASE u = t
  BY <1>1, <1>3
<1>4. CASE u # t
  BY <1>1, <1>4
<1>5. QED
  BY <1>3, <1>4

\* The set of calls that owe a reference to h follows the call that moves, and so
\* does that of the calls that have a kernel's count to lower.
LEMMA MovedSets ==
  ASSUME TypeOK, CallsFit, NEW t \in Threads, NEW s, NEW X, Moves(t, s, X), NEW h
  PROVE  /\ Pending(h) \in SUBSET Threads /\ Pending(h)' \in SUBSET Threads
         /\ t \in Pending(h) <=> h \in uses[t] /\ at[t] \in Owing
         /\ t \in Pending(h)' <=> h \in X /\ s \in Owing
         /\ \A u \in Threads : u # t => (u \in Pending(h) <=> u \in Pending(h)')
         /\ Dropping(h) \in SUBSET Threads /\ Dropping(h)' \in SUBSET Threads
         /\ t \in Dropping(h) <=> h \in uses[t] /\ at[t] \in {"release", "drop"}
         /\ t \in Dropping(h)' <=> h \in X /\ s \in {"release", "drop"}
         /\ \A u \in Threads : u # t => (u \in Dropping(h) <=> u \in Dropping(h)')
<1>1. /\ at'[t] = s /\ uses'[t] = X
      /\ \A u \in Threads : u # t => at'[u] = at[u] /\ uses'[u] = uses[u]
  BY Moved
<1>2. QED
  BY <1>1 DEF Pending, Dropping

\* The counts of those two sets.
LEMMA MovedCounts ==
  ASSUME TypeOK, CallsFit, NEW t \in Threads, NEW s, NEW X, Moves(t, s, X), NEW h
  PROVE  /\ Cardinality(Pending(h)) \in Nat /\ Cardinality(Pending(h)') \in Nat
         /\ t \notin Pending(h) /\ t \in Pending(h)' =>
              Cardinality(Pending(h)') = Cardinality(Pending(h)) + 1
         /\ t \in Pending(h) /\ t \notin Pending(h)' =>
              Cardinality(Pending(h)') = Cardinality(Pending(h)) - 1
         /\ (t \in Pending(h) <=> t \in Pending(h)') =>
              Cardinality(Pending(h)') = Cardinality(Pending(h))
         /\ Cardinality(Dropping(h)) \in Nat /\ Cardinality(Dropping(h)') \in Nat
         /\ t \notin Dropping(h) /\ t \in Dropping(h)' =>
              Cardinality(Dropping(h)') = Cardinality(Dropping(h)) + 1
         /\ t \in Dropping(h) /\ t \notin Dropping(h)' =>
              Cardinality(Dropping(h)') = Cardinality(Dropping(h)) - 1
         /\ (t \in Dropping(h) <=> t \in Dropping(h)') =>
              Cardinality(Dropping(h)') = Cardinality(Dropping(h))
<1>1. /\ Cardinality(Pending(h)) \in Nat /\ Cardinality(Pending(h)') \in Nat
      /\ t \notin Pending(h) /\ t \in Pending(h)' => Cardinality(Pending(h)') = Cardinality(Pending(h)) + 1
      /\ t \in Pending(h) /\ t \notin Pending(h)' => Cardinality(Pending(h)') = Cardinality(Pending(h)) - 1
      /\ (t \in Pending(h) <=> t \in Pending(h)') => Cardinality(Pending(h)') = Cardinality(Pending(h))
  <2>1. PICK S \in SUBSET Threads : S = Pending(h)
    BY MovedSets
  <2>2. PICK T \in SUBSET Threads : T = Pending(h)'
    BY MovedSets
  <2>3. \A u \in Threads : u # t => (u \in S <=> u \in T)
    BY <2>1, <2>2, MovedSets
  <2>4. QED
    BY <2>1, <2>2, <2>3, CountFollows
<1>2. /\ Cardinality(Dropping(h)) \in Nat /\ Cardinality(Dropping(h)') \in Nat
      /\ t \notin Dropping(h) /\ t \in Dropping(h)' => Cardinality(Dropping(h)') = Cardinality(Dropping(h)) + 1
      /\ t \in Dropping(h) /\ t \notin Dropping(h)' => Cardinality(Dropping(h)') = Cardinality(Dropping(h)) - 1
      /\ (t \in Dropping(h) <=> t \in Dropping(h)') => Cardinality(Dropping(h)') = Cardinality(Dropping(h))
  <2>1. PICK S \in SUBSET Threads : S = Dropping(h)
    BY MovedSets
  <2>2. PICK T \in SUBSET Threads : T = Dropping(h)'
    BY MovedSets
  <2>3. \A u \in Threads : u # t => (u \in S <=> u \in T)
    BY <2>1, <2>2, MovedSets
  <2>4. QED
    BY <2>1, <2>2, <2>3, CountFollows
<1>3. QED
  BY <1>1, <1>2

\* How the count of the calls that owe a reference to h changes.
LEMMA PendingCount ==
  ASSUME TypeOK, CallsFit, NEW t \in Threads, NEW s, NEW X, Moves(t, s, X), NEW h
  PROVE  /\ Cardinality(Pending(h)) \in Nat
         /\ at[t] \notin Owing /\ h \in X /\ s \in Owing =>
              Cardinality(Pending(h)') = Cardinality(Pending(h)) + 1
         /\ h \in uses[t] /\ at[t] \in Owing /\ s \notin Owing =>
              Cardinality(Pending(h)') = Cardinality(Pending(h)) - 1
         /\ (h \in uses[t] /\ at[t] \in Owing) /\ h \in X /\ s \in Owing =>
              Cardinality(Pending(h)') = Cardinality(Pending(h))
<1>1. /\ t \in Pending(h) <=> h \in uses[t] /\ at[t] \in Owing
      /\ t \in Pending(h)' <=> h \in X /\ s \in Owing
  BY MovedSets
<1>2. QED
  BY <1>1, MovedCounts

\* The same for those that have a count to lower.
LEMMA DroppingCount ==
  ASSUME TypeOK, CallsFit, NEW t \in Threads, NEW s, NEW X, Moves(t, s, X), NEW h
  PROVE  /\ Cardinality(Dropping(h)) \in Nat
         /\ at[t] \notin {"release", "drop"} /\ h \in X /\ s \in {"release", "drop"} =>
              Cardinality(Dropping(h)') = Cardinality(Dropping(h)) + 1
         /\ h \in uses[t] /\ at[t] \in {"release", "drop"} /\ s \notin {"release", "drop"} =>
              Cardinality(Dropping(h)') = Cardinality(Dropping(h)) - 1
         /\ h \in uses[t] /\ at[t] \in {"release", "drop"} /\ h \in X /\ s \in {"release", "drop"} =>
              Cardinality(Dropping(h)') = Cardinality(Dropping(h))
         /\ at[t] \notin {"release", "drop"} /\ s \notin {"release", "drop"} =>
              Dropping(h)' = Dropping(h)
<1>1. /\ t \in Dropping(h) <=> h \in uses[t] /\ at[t] \in {"release", "drop"}
      /\ t \in Dropping(h)' <=> h \in X /\ s \in {"release", "drop"}
      /\ Dropping(h) \in SUBSET Threads /\ Dropping(h)' \in SUBSET Threads
      /\ \A u \in Threads : u # t => (u \in Dropping(h) <=> u \in Dropping(h)')
  BY MovedSets
<1>2. at[t] \notin {"release", "drop"} /\ s \notin {"release", "drop"} =>
        Dropping(h)' = Dropping(h)
  BY <1>1
<1>3. /\ Cardinality(Dropping(h)) \in Nat
      /\ t \notin Dropping(h) /\ t \in Dropping(h)' =>
           Cardinality(Dropping(h)') = Cardinality(Dropping(h)) + 1
      /\ t \in Dropping(h) /\ t \notin Dropping(h)' =>
           Cardinality(Dropping(h)') = Cardinality(Dropping(h)) - 1
      /\ (t \in Dropping(h) <=> t \in Dropping(h)') =>
           Cardinality(Dropping(h)') = Cardinality(Dropping(h))
  BY MovedCounts
<1>4. QED
  BY <1>1, <1>2, <1>3

-----------------------------------------------------------------------------
(* The other parts of the invariant, when a call moves.                     *)

\* A call goes on with objects that are held, and no reference that another call
\* relies on is given up.
LEMMA MoveKeepsHeld ==
  ASSUME TypeOK, CallsFit, UsedAreHeld,
         NEW t \in Threads, NEW s, NEW X \in SUBSET Handles, Moves(t, s, X),
         \A h \in Handles : refs[h] > 0 => refs'[h] > 0,
         \A h \in X : refs'[h] > 0 \/ s \in Owing \/ (s = "insert kernel" /\ h \in Kernels)
  PROVE  UsedAreHeld'
<1>1. /\ at'[t] = s /\ uses'[t] = X
      /\ \A u \in Threads : u # t => at'[u] = at[u] /\ uses'[u] = uses[u]
  BY Moved
<1>2. ASSUME NEW u \in Threads, NEW h \in uses'[u]
      PROVE  refs'[h] > 0 \/ at'[u] \in Owing \/ (at'[u] = "insert kernel" /\ h \in Kernels)
  <2>1. CASE u = t
    BY <1>1, <1>2, <2>1
  <2>2. CASE u # t
    <3>1. h \in uses[u] /\ h \in Handles /\ at'[u] = at[u]
      BY <1>1, <1>2, <2>2 DEF TypeOK
    <3>2. QED
      BY <3>1 DEF UsedAreHeld
  <2>3. QED
    BY <2>1, <2>2
<1>3. QED
  BY <1>2 DEF UsedAreHeld

\* A call that does not go on to build a program.
LEMMA MoveKeepsBuilds ==
  ASSUME TypeOK, CallsFit, BuildIsAlone,
         NEW t \in Threads, NEW s, NEW X, Moves(t, s, X), s # "build",
         \A p \in Programs : programTable[p] = "absent" => programTable'[p] = "absent"
  PROVE  BuildIsAlone'
<1>1. /\ at'[t] = s /\ uses'[t] = X
      /\ \A u \in Threads : u # t => at'[u] = at[u] /\ uses'[u] = uses[u]
  BY Moved
<1>2. \A u \in Threads : at'[u] = "build" => at[u] = "build" /\ uses'[u] = uses[u]
  BY <1>1
<1>3. QED
  BY <1>2 DEF BuildIsAlone

\* A call that changes no more than how it holds the locks itself.
OwnLocks(t) ==
  /\ \A l \in Locks, u \in Threads : u # t => mode'[l][u] = mode[l][u]
  /\ \A l \in Locks : mode'[l][t] \in Strong =>
       mode[l][t] \in Strong \/ \A u \in Threads \ {t} : mode[l][u] \notin Strong

\* The one that writes stays the one, and a call that releases is still it.
LEMMA MoveKeepsLocks ==
  ASSUME TypeOK, CallsFit, OneIsStrong, ReleaseIsStrong,
         NEW t \in Threads, NEW s, NEW X, Moves(t, s, X), OwnLocks(t),
         \A h \in X \ Kernels : s \in {"erase", "vendor release"} =>
           mode'[TableOf(h)][t] \in Strong
  PROVE  OneIsStrong' /\ ReleaseIsStrong'
<1>1. /\ at'[t] = s /\ uses'[t] = X
      /\ \A u \in Threads : u # t => at'[u] = at[u] /\ uses'[u] = uses[u]
  BY Moved
<1>2. OneIsStrong'
  BY DEF OneIsStrong, OwnLocks
<1>3. ASSUME NEW u \in Threads, NEW h \in uses'[u] \ Kernels,
             at'[u] \in {"erase", "vendor release"}
      PROVE  mode'[TableOf(h)][u] \in Strong
  <2>1. CASE u = t
    BY <1>1, <1>3, <2>1
  <2>2. CASE u # t
    <3>1. mode[TableOf(h)][u] \in Strong
      BY <1>1, <1>3, <2>2 DEF ReleaseIsStrong
    <3>2. TableOf(h) \in Locks
      BY DEF TableOf, Locks
    <3>3. QED
      BY <2>2, <3>1, <3>2 DEF OwnLocks
  <2>3. QED
    BY <2>1, <2>2
<1>4. (\A u \in Threads : \A h \in uses[u] \ Kernels :
         at[u] \in {"erase", "vendor release"} => mode[TableOf(h)][u] \in Strong)'
  BY <1>3 DEF TableOf
<1>5. QED
  BY <1>2, <1>4 DEF ReleaseIsStrong

-----------------------------------------------------------------------------
(* Steps that leave the accounts alone.                                     *)

accounts == <<refs, vendor, queueTable, programTable, kernelTable, refCount>>

QuietMove(t, s, X) ==
  /\ Moves(t, s, X)
  /\ at[t] \notin Marked /\ s \in Phases \ Marked
  /\ X \in SUBSET Handles /\ Fits(s, X)
  /\ \A h \in X : refs[h] > 0
  /\ s = "build" => \A p \in X : IsUnbuilt(p)
  /\ UNCHANGED accounts

\* What a call does between looking an object up and its end.
LEMMA QuietKeeps ==
  ASSUME TypeOK, CallsFit, ObjectsAreRight, UsedAreHeld, BuildIsAlone,
         NEW t \in Threads, NEW s, NEW X, QuietMove(t, s, X)
  PROVE  /\ CallsFit' /\ ObjectsAreRight' /\ UsedAreHeld' /\ BuildIsAlone'
         /\ uses' \in [Threads -> SUBSET Handles]
<1>1. /\ Moves(t, s, X) /\ at[t] \notin Marked /\ s \notin Marked /\ s \in Phases
      /\ X \in SUBSET Handles /\ Fits(s, X)
      /\ \A h \in X : refs[h] > 0
      /\ s = "build" => \A p \in X : IsUnbuilt(p)
  BY DEF QuietMove
<1>2. /\ refs' = refs /\ vendor' = vendor /\ queueTable' = queueTable
      /\ programTable' = programTable /\ kernelTable' = kernelTable /\ refCount' = refCount
  BY DEF QuietMove, accounts
<1>3. CallsFit' /\ uses' \in [Threads -> SUBSET Handles]
  BY <1>1, MoveFits
<1>4. ObjectsAreRight'
  <2>1. ASSUME NEW h \in Handles PROVE Untouched(h)
    <3>1. \A u \in Threads, r \in MarksOf(h) :
            (h \in uses'[u] /\ at'[u] = r) <=> (h \in uses[u] /\ at[u] = r)
      BY <1>1, MoveLeavesUntouched DEF MarksOf, Marked
    <3>2. QED
      BY <1>2, <3>1 DEF Untouched, SameEntry
  <2>2. QED
    BY <2>1, UntouchedIsRight DEF ObjectsAreRight
<1>5. UsedAreHeld'
  BY <1>1, <1>2, MoveKeepsHeld
<1>6. BuildIsAlone'
  <2>1. CASE s # "build"
    BY <1>1, <1>2, <2>1, MoveKeepsBuilds
  <2>2. CASE s = "build"
    <3>1. /\ at'[t] = "build" /\ uses'[t] = X
          /\ \A u \in Threads : u # t => at'[u] = at[u] /\ uses'[u] = uses[u]
      BY <1>1, <2>2, Moved
    <3>2. \A p \in X : /\ programTable[p] = "absent"
                       /\ \A u \in Threads : p \in uses[u] => at[u] # "build"
      BY <1>1, <2>2 DEF IsUnbuilt
    <3>3. ASSUME NEW u \in Threads, NEW p \in Programs, p \in uses'[u], at'[u] = "build"
          PROVE  /\ programTable'[p] = "absent"
                 /\ \A v \in Threads : p \in uses'[v] /\ at'[v] = "build" => v = u
      BY <1>2, <3>1, <3>2, <3>3 DEF BuildIsAlone
    <3>4. QED
      BY <3>3 DEF BuildIsAlone
  <2>3. QED
    BY <2>1, <2>2
<1>7. QED
  BY <1>3, <1>4, <1>5, <1>6

-----------------------------------------------------------------------------
(* The locks.                                                               *)

LockModes == [Locks -> [Threads -> {"none", "shared", "upgrade", "unique"}]]

LocksTyped ==
  /\ mode \in LockModes
  /\ barred \in [Locks -> BOOLEAN]
  /\ mutex \in [Queues \cup Kernels \cup {"QT", "PT"} -> Threads \cup {NULL}]

\* Taking a lock is a matter between the thread and that lock.
LEMMA HoldsType ==
  ASSUME LocksTyped, NEW t \in Threads, NEW l \in Locks,
         NEW m \in {"none", "shared", "upgrade", "unique"}, Holds(t, l, m)
  PROVE  /\ mode' \in LockModes
         /\ mode'[l][t] = m
         /\ \A k \in Locks, u \in Threads : k # l \/ u # t => mode'[k][u] = mode[k][u]
BY DEF LocksTyped, LockModes, Holds

\* A reader is not strong; the upgrading reader and the writer are, and find
\* nobody else so.
LEMMA LockEffects ==
  ASSUME LocksTyped, NEW t \in Threads, NEW l \in Locks
  PROVE  /\ LockShared(t, l) => OwnLocks(t) /\ mode' \in LockModes
         /\ LockUpgrade(t, l) => /\ OwnLocks(t) /\ mode'[l][t] = "upgrade"
                                 /\ mode' \in LockModes
         /\ MayRise(t, l) /\ Holds(t, l, "unique") =>
              /\ OwnLocks(t) /\ mode'[l][t] = "unique"
              /\ mode' \in LockModes
<1>1. LockShared(t, l) =>
        OwnLocks(t) /\ mode' \in LockModes
  BY HoldsType DEF LockShared, OwnLocks, Strong
<1>2. LockUpgrade(t, l) => /\ OwnLocks(t) /\ mode'[l][t] = "upgrade"
                           /\ mode' \in LockModes
  BY HoldsType DEF LockUpgrade, OwnLocks, Strong, Others
<1>3. MayRise(t, l) /\ Holds(t, l, "unique") =>
        /\ OwnLocks(t) /\ mode'[l][t] = "unique"
        /\ mode' \in LockModes
  BY HoldsType DEF MayRise, IsFree, OwnLocks, Strong, Others
<1>4. QED
  BY <1>1, <1>2, <1>3

\* Giving up locks.
LEMMA UnlockEffects ==
  ASSUME LocksTyped, NEW t \in Threads
  PROVE  /\ mode' = mode => OwnLocks(t)
         /\ UnlockAll(t) =>
              /\ OwnLocks(t) /\ barred' \in [Locks -> BOOLEAN]
              /\ mode' \in LockModes
         /\ UnlockMutexes(t) =>
              mutex' \in [Queues \cup Kernels \cup {"QT", "PT"} -> Threads \cup {NULL}]
<1>1. mode' = mode => OwnLocks(t)
  BY DEF OwnLocks
<1>2. ASSUME UnlockAll(t)
      PROVE  /\ OwnLocks(t) /\ barred' \in [Locks -> BOOLEAN]
             /\ mode' \in LockModes
  <2>1. mode' = [l \in Locks |-> [mode[l] EXCEPT ![t] = "none"]]
    BY <1>2 DEF UnlockAll
  <2>2. \A l \in Locks : mode[l] \in [Threads -> {"none", "shared", "upgrade", "unique"}]
    BY DEF LocksTyped, LockModes
  <2>3. mode' \in LockModes
    BY <2>1, <2>2 DEF LockModes
  <2>4. OwnLocks(t)
    BY <2>1, <2>2 DEF OwnLocks, Strong
  <2>5. barred' \in [Locks -> BOOLEAN]
    BY <1>2 DEF UnlockAll, LocksTyped
  <2>6. QED
    BY <2>3, <2>4, <2>5
<1>3. UnlockMutexes(t) =>
        mutex' \in [Queues \cup Kernels \cup {"QT", "PT"} -> Threads \cup {NULL}]
  BY DEF UnlockMutexes, LocksTyped
<1>4. QED
  BY <1>1, <1>2, <1>3

\* A thread that holds a mutex.
LEMMA MutexType ==
  ASSUME LocksTyped, NEW t \in Threads, NEW h, mutex' = [mutex EXCEPT ![h] = t]
  PROVE  mutex' \in [Queues \cup Kernels \cup {"QT", "PT"} -> Threads \cup {NULL}]
BY DEF LocksTyped

-----------------------------------------------------------------------------
(* Each action keeps the invariant: those that leave the accounts alone.    *)

\* An action that is a quiet move keeps the whole invariant.
LEMMA QuietActionKeeps ==
  ASSUME IInv, NEW t \in Threads, NEW s, NEW X, QuietMove(t, s, X), OwnLocks(t),
         LocksTyped', busy' \subseteq Queues, profile' = profile,
         fault' \in {"none", "freed"}
  PROVE  IInv'
<1>1. /\ TypeOK /\ CallsFit /\ ObjectsAreRight /\ UsedAreHeld /\ BuildIsAlone
      /\ OneIsStrong /\ ReleaseIsStrong
  BY DEF IInv
<1>2. /\ CallsFit' /\ ObjectsAreRight' /\ UsedAreHeld' /\ BuildIsAlone'
      /\ uses' \in [Threads -> SUBSET Handles]
  BY <1>1, QuietKeeps
<1>3. OneIsStrong' /\ ReleaseIsStrong'
  <2>1. Moves(t, s, X) /\ s \notin {"erase", "vendor release"}
    BY DEF QuietMove, Marked, Owing, Releasing
  <2>2. QED
    BY <1>1, <2>1, MoveKeepsLocks
<1>4. TypeOK'
  BY <1>1, <1>2 DEF TypeOK, QuietMove, accounts, LocksTyped, LockModes
<1>5. LegalCallsSucceed'
  BY DEF LegalCallsSucceed
<1>6. QED
  BY <1>2, <1>3, <1>4, <1>5 DEF IInv

\* Going on in a call, with the same objects; and returning.
LEMMA GotoMoves ==
  ASSUME TypeOK, NEW t \in Threads, NEW s
  PROVE  /\ Goto(t, s) /\ uses' = uses => Moves(t, s, uses[t])
         /\ Return(t) => Moves(t, "idle", {})
<1>1. uses = [uses EXCEPT ![t] = uses[t]]
  BY DEF TypeOK
<1>2. QED
  BY <1>1 DEF Goto, Return, Moves

\* The objects of a call that is not releasing or creating one are held.
LEMMA CallHolds ==
  ASSUME IInv, NEW t \in Threads, at[t] \notin Marked
  PROVE  /\ uses[t] \in SUBSET Handles
         /\ \A h \in uses[t] : refs[h] > 0
BY DEF IInv, TypeOK, UsedAreHeld, Marked

\* Going on and returning are quiet.
LEMMA GoingOnIsQuiet ==
  ASSUME IInv, NEW t \in Threads, at[t] \notin Marked, UNCHANGED accounts,
         NEW s \in Phases, s \notin Marked, s # "build"
  PROVE  /\ Goto(t, s) /\ uses' = uses /\ Fits(s, uses[t]) => QuietMove(t, s, uses[t])
         /\ Return(t) => QuietMove(t, "idle", {})
<1>1. TypeOK
  BY DEF IInv
<1>2. "idle" \in Phases \ Marked /\ Fits("idle", {})
  BY DEF Phases, Marked, Owing, Releasing, Fits
<1>3. QED
  BY <1>1, <1>2, GotoMoves, CallHolds DEF QuietMove

\* What the invariant says of the locks, the fault and the variables that quiet
\* actions may change.
LEMMA InvTypes ==
  ASSUME IInv
  PROVE  /\ LocksTyped /\ busy \subseteq Queues /\ fault \in {"none", "freed"}
         /\ at \in [Threads -> Phases]
BY DEF IInv, TypeOK, LocksTyped, LockModes, LegalCallsSucceed, CallsFit

\* The calls of the application.
LEMMA StartCallKeeps ==
  ASSUME IInv, NEW t \in Threads, StartCall(t)
  PROVE  IInv' \/ \E h \in Handles : CallRelease(t, h)
<1>1. ASSUME NEW s \in Phases, NEW X \in SUBSET Handles, Call(t, s, X),
             Fits(s, X), s \notin Marked, s = "build" => \A p \in X : IsUnbuilt(p)
      PROVE  IInv'
  <2>1. QuietMove(t, s, X)
    BY <1>1 DEF Call, Is, Goto, Moves, QuietMove, accounts, entries, Marked, Owing, Releasing
  <2>2. OwnLocks(t) /\ LocksTyped' /\ busy' \subseteq Queues /\ profile' = profile
    BY <1>1, InvTypes, UnlockEffects DEF Call, entries, locking, LocksTyped
  <2>3. fault' \in {"none", "freed"}
    BY <1>1, InvTypes DEF Call
  <2>4. QED
    BY <2>1, <2>2, <2>3, QuietActionKeeps
<1> USE DEF Phases, Marked, Owing, Releasing, Fits, Handles
<1>2. ASSUME NEW p \in Programs, IsUnbuilt(p), Call(t, "build", {p}) PROVE IInv'
  BY <1>1, <1>2
<1>3. ASSUME NEW p \in Programs, Call(t, "create kernel", {p}) PROVE IInv'
  BY <1>1, <1>3
<1>4. ASSUME NEW k \in Kernels, Call(t, "retain kernel", {k}) PROVE IInv'
  BY <1>1, <1>4
<1>5. ASSUME NEW k \in Kernels, Call(t, "set argument", {k}) PROVE IInv'
  BY <1>1, <1>5
<1>6. ASSUME NEW q \in Queues, NEW k \in Kernels, Call(t, "launch", {q, k}) PROVE IInv'
  BY <1>1, <1>6
<1>7. ASSUME NEW q \in Queues, Call(t, "command", {q}) PROVE IInv'
  BY <1>1, <1>7
<1>8. QED
  BY <1>2, <1>3, <1>4, <1>5, <1>6, <1>7 DEF StartCall

\* The entry of a kernel that a call under way uses is there.
LEMMA KernelIsFound ==
  ASSUME IInv, NEW t \in Threads, at[t] \notin Marked, fault = "none"
  PROVE  /\ \A k \in uses[t] \cap Kernels : ReadProfile(k) => fault' \in {"none", "freed"}
         /\ uses[t] \cap Kernels \subseteq kernelTable
         /\ uses[t] \cap Queues \subseteq queueTable
<1>1. TypeOK /\ ObjectsAreRight
  BY DEF IInv
<1>2. \A h \in uses[t] : (h \in Queues => h \in queueTable) /\ (h \in Kernels => h \in kernelTable)
  BY <1>1, CallHolds, HeldIsListed
<1>3. QED
  BY <1>2 DEF ReadProfile, Expect

\* clSetKernelArg.
LEMMA SetKernelArgKeeps ==
  ASSUME IInv, NEW t \in Threads, SetKernelArg(t)
  PROVE  IInv'
<1>1. /\ at[t] = "set argument" /\ fault = "none" /\ at[t] \notin Marked
      /\ Return(t) /\ UNCHANGED accounts /\ profile' = profile
      /\ mode' = mode /\ barred' = barred /\ mutex' = mutex /\ busy' = busy
  BY DEF SetKernelArg, Is, entries, locking, accounts, Marked, Owing, Releasing
<1>2. QuietMove(t, "idle", {})
  BY <1>1, GoingOnIsQuiet DEF Phases, Marked, Owing, Releasing
<1>3. OwnLocks(t) /\ LocksTyped' /\ busy' \subseteq Queues
  BY <1>1, InvTypes, UnlockEffects DEF LocksTyped
<1>4. fault' \in {"none", "freed"}
  <2>1. uses[t] \subseteq Kernels
    BY <1>1 DEF IInv, CallsFit, Fits
  <2>2. QED
    BY <1>1, <2>1, KernelIsFound DEF SetKernelArg
<1>5. QED
  BY <1>1, <1>2, <1>3, <1>4, QuietActionKeeps

\* clRetainKernel looks its kernel up.
LEMMA FindToRetainKeeps ==
  ASSUME IInv, NEW t \in Threads, FindToRetain(t)
  PROVE  IInv'
<1>1. /\ at[t] = "retain kernel" /\ fault = "none" /\ at[t] \notin Marked
      /\ Goto(t, "retain") /\ uses' = uses /\ UNCHANGED accounts /\ profile' = profile
      /\ LockShared(t, "KT") /\ barred' = barred /\ mutex' = mutex /\ busy' = busy
  BY DEF FindToRetain, Is, entries, accounts, Marked, Owing, Releasing
<1>2. uses[t] \subseteq Kernels /\ Fits("retain", uses[t])
  BY <1>1 DEF IInv, CallsFit, Fits
<1>3. QuietMove(t, "retain", uses[t])
  BY <1>1, <1>2, GoingOnIsQuiet DEF Phases, Marked, Owing, Releasing
<1>4. OwnLocks(t) /\ LocksTyped' /\ busy' \subseteq Queues
  BY <1>1, InvTypes, LockEffects DEF LocksTyped, Locks
<1>5. fault' \in {"none", "freed"}
  BY <1>1, <1>2, KernelIsFound DEF FindToRetain, Expect
<1>6. QED
  BY <1>1, <1>3, <1>4, <1>5, QuietActionKeeps

\* A launch or another command looks its queue up.
LEMMA FindQueueKeeps ==
  ASSUME IInv, NEW t \in Threads, FindQueue(t)
  PROVE  IInv'
<1>1. /\ at[t] \in {"launch", "command"} /\ fault = "none" /\ at[t] \notin Marked
      /\ uses' = uses /\ UNCHANGED accounts /\ profile' = profile
      /\ LockShared(t, "QT") /\ barred' = barred /\ mutex' = mutex /\ busy' = busy
  BY DEF FindQueue, Is, entries, accounts, Marked, Owing, Releasing
<1>2. PICK s \in {"find kernel", "reorder"} : Goto(t, s) /\ Fits(s, uses[t])
  BY DEF FindQueue, Is, IInv, CallsFit, Fits
<1>3. QuietMove(t, s, uses[t])
  BY <1>1, <1>2, GoingOnIsQuiet DEF Phases, Marked, Owing, Releasing
<1>4. OwnLocks(t) /\ LocksTyped' /\ busy' \subseteq Queues
  BY <1>1, InvTypes, LockEffects DEF LocksTyped, Locks
<1>5. fault' \in {"none", "freed"}
  BY <1>1, KernelIsFound DEF FindQueue, Expect
<1>6. QED
  BY <1>1, <1>3, <1>4, <1>5, QuietActionKeeps

\* A launch looks its kernel up.
LEMMA LaunchKernelKeeps ==
  ASSUME IInv, NEW t \in Threads, LaunchKernel(t)
  PROVE  IInv'
<1>1. /\ at[t] = "find kernel" /\ fault = "none" /\ at[t] \notin Marked
      /\ Goto(t, "pool") /\ uses' = uses /\ UNCHANGED accounts /\ profile' = profile
      /\ LockShared(t, "KT") /\ barred' = barred /\ mutex' = mutex /\ busy' = busy
  BY DEF LaunchKernel, Is, entries, accounts, Marked, Owing, Releasing
<1>2. Fits("pool", uses[t])
  BY <1>1 DEF IInv, CallsFit, Fits
<1>3. QuietMove(t, "pool", uses[t])
  BY <1>1, <1>2, GoingOnIsQuiet DEF Phases, Marked, Owing, Releasing
<1>4. OwnLocks(t) /\ LocksTyped' /\ busy' \subseteq Queues
  BY <1>1, InvTypes, LockEffects DEF LocksTyped, Locks
<1>5. fault' \in {"none", "freed"}
  BY <1>1, KernelIsFound DEF LaunchKernel
<1>6. QED
  BY <1>1, <1>3, <1>4, <1>5, QuietActionKeeps

\* The rest of a launch, and of the other commands, changes mutexes and locks only.
LEMMA CommandKeeps ==
  ASSUME IInv, NEW t \in Threads,
         TakeFromPool(t) \/ MakeWaitList(t) \/ Enqueue(t) \/ ReorderCore(t)
           \/ BlockingCommandEnds(t)
  PROVE  IInv'
<1>1. /\ at[t] \in {"pool", "wait list", "enqueue", "reorder", "blocking"}
      /\ fault = "none" /\ fault' = "none" /\ at[t] \notin Marked
      /\ UNCHANGED accounts /\ profile' = profile
  BY DEF TakeFromPool, MakeWaitList, Enqueue, ReorderCore, BlockingCommandEnds, Is, entries,
         accounts, Marked, Owing, Releasing
<1>2. busy' \subseteq Queues
  BY InvTypes DEF TakeFromPool, MakeWaitList, Enqueue, ReorderCore, BlockingCommandEnds
<1>3. \/ LeaveQueue(t)
      \/ /\ \E s \in {"wait list", "enqueue", "blocking"} : Goto(t, s) /\ Fits(s, uses[t])
         /\ uses' = uses /\ mode' = mode /\ barred' = barred
         /\ mutex' = mutex \/ \E q \in Queues : mutex' = [mutex EXCEPT ![q] = t]
  BY DEF TakeFromPool, MakeWaitList, Enqueue, ReorderCore, BlockingCommandEnds, LockBlocker,
         locking, Is, IInv, CallsFit, Fits
<1>4. CASE LeaveQueue(t)
  <2>1. QuietMove(t, "idle", {})
    BY <1>1, <1>4, GoingOnIsQuiet DEF LeaveQueue, Phases, Marked, Owing, Releasing
  <2>2. OwnLocks(t) /\ LocksTyped'
    BY <1>4, InvTypes, UnlockEffects DEF LeaveQueue, LocksTyped
  <2>3. QED
    BY <1>1, <1>2, <2>1, <2>2, QuietActionKeeps
<1>5. CASE ~LeaveQueue(t)
  <2>1. PICK s \in {"wait list", "enqueue", "blocking"} : Goto(t, s) /\ Fits(s, uses[t])
    BY <1>3, <1>5
  <2>2. QuietMove(t, s, uses[t])
    BY <1>1, <1>3, <1>5, <2>1, GoingOnIsQuiet DEF Phases, Marked, Owing, Releasing
  <2>3. mutex' \in [Queues \cup Kernels \cup {"QT", "PT"} -> Threads \cup {NULL}]
    BY <1>3, <1>5, InvTypes, MutexType DEF LocksTyped
  <2>4. OwnLocks(t) /\ LocksTyped'
    BY <1>3, <1>5, <2>3, InvTypes, UnlockEffects DEF LocksTyped
  <2>5. QED
    BY <1>1, <1>2, <2>2, <2>4, QuietActionKeeps
<1>6. QED
  BY <1>4, <1>5

-----------------------------------------------------------------------------
(* The actions that change the account of one object.                       *)

TablesTyped ==
  /\ refs \in [Handles -> Nat] /\ vendor \in [Handles -> Nat]
  /\ queueTable \subseteq Queues /\ kernelTable \subseteq Kernels
  /\ programTable \in [Programs -> {"absent", "built", "failed"}]
  /\ refCount \in [Kernels -> Nat] /\ profile \in [Kernels -> Programs \cup {NULL}]
  /\ busy \subseteq Queues

\* What is left to show of an action that takes no reference of the application's
\* away and puts no program in its table.
LEMMA TouchKeeps ==
  ASSUME IInv, NEW t \in Threads, NEW s \in Phases, NEW X \in SUBSET Handles,
         Moves(t, s, X), Fits(s, X), s # "build",
         \A h \in Handles : refs[h] > 0 => refs'[h] > 0,
         \A h \in X : refs'[h] > 0 \/ s \in Owing \/ (s = "insert kernel" /\ h \in Kernels),
         \A p \in Programs : programTable[p] = "absent" => programTable'[p] = "absent",
         OwnLocks(t),
         \A h \in X \ Kernels : s \in {"erase", "vendor release"} =>
           mode'[TableOf(h)][t] \in Strong,
         LocksTyped', TablesTyped', fault' \in {"none", "freed"}, ObjectsAreRight'
  PROVE  IInv'
<1>1. TypeOK /\ CallsFit /\ UsedAreHeld /\ BuildIsAlone /\ OneIsStrong /\ ReleaseIsStrong
  BY DEF IInv
<1>2. CallsFit' /\ uses' \in [Threads -> SUBSET Handles]
  BY <1>1, MoveFits
<1>3. UsedAreHeld' /\ BuildIsAlone'
  BY <1>1, MoveKeepsHeld, MoveKeepsBuilds
<1>4. OneIsStrong' /\ ReleaseIsStrong'
  BY <1>1, MoveKeepsLocks
<1>5. TypeOK' /\ LegalCallsSucceed'
  BY <1>2 DEF TypeOK, LocksTyped, LockModes, TablesTyped, LegalCallsSucceed
<1>6. QED
  BY <1>2, <1>3, <1>4, <1>5 DEF IInv

\* The same of the action that ends a call.
LEMMA EndKeeps ==
  ASSUME IInv, NEW t \in Threads, Moves(t, "idle", {}),
         \A h \in Handles : refs[h] > 0 => refs'[h] > 0,
         \A p \in Programs : programTable[p] = "absent" => programTable'[p] = "absent",
         OwnLocks(t), LocksTyped', TablesTyped', fault' \in {"none", "freed"}, ObjectsAreRight'
  PROVE  IInv'
<1>1. "idle" \in Phases /\ {} \in SUBSET Handles /\ Fits("idle", {}) /\ "idle" # "build"
  BY DEF Phases, Fits
<1>2. \A h \in {} : refs'[h] > 0 \/ "idle" \in Owing \/ ("idle" = "insert kernel" /\ h \in Kernels)
  OBVIOUS
<1>3. \A h \in {} \ Kernels : "idle" \in {"erase", "vendor release"} =>
        mode'[TableOf(h)][t] \in Strong
  OBVIOUS
<1>4. QED
  BY <1>1, <1>2, <1>3, TouchKeeps

\* The tables' types, from the invariant.
LEMMA InvTables ==
  ASSUME IInv
  PROVE  TablesTyped /\ TypeOK /\ CallsFit /\ ObjectsAreRight /\ LocksTyped
BY InvTypes DEF IInv, TypeOK, TablesTyped

\* An object that the call that moves does not use in a phase its account speaks
\* of, and whose counts and entry stay.
LEMMA LeftAlone ==
  ASSUME TypeOK, CallsFit, ObjectsAreRight,
         NEW t \in Threads, NEW s, NEW X, Moves(t, s, X), NEW h \in Handles,
         h \notin uses[t] \/ at[t] \notin MarksOf(h),
         h \notin X \/ s \notin MarksOf(h),
         SameEntry(h)
  PROVE  ObjectInv(h)'
<1>1. Untouched(h)
  BY MoveLeavesUntouched DEF Untouched
<1>2. QED
  BY <1>1, UntouchedIsRight DEF ObjectsAreRight

\* A new queue: the vendor's only reference is that of the call.
LEMMA CreateQueueKeeps ==
  ASSUME IInv, NEW t \in Threads, CreateQueue(t)
  PROVE  IInv'
<1>t. TablesTyped /\ TypeOK /\ CallsFit /\ ObjectsAreRight /\ LocksTyped
  BY InvTables
<1>1. PICK q \in Queues :
        /\ at[t] = "idle" /\ vendor[q] = 0 /\ Moves(t, "insert queue", {q})
        /\ vendor' = [vendor EXCEPT ![q] = 1]
        /\ busy' = busy \ {q}
  BY DEF CreateQueue, Is, Goto, Moves
<1>z. vendor[q] = 0
  BY <1>1
<1>m. Moves(t, "insert queue", {q}) /\ at[t] = "idle"
  BY <1>1
<1>2. /\ refs' = refs /\ queueTable' = queueTable /\ programTable' = programTable
      /\ kernelTable' = kernelTable /\ refCount' = refCount /\ profile' = profile
      /\ mode' = mode /\ barred' = barred /\ mutex' = mutex /\ fault' = "none"
  BY DEF CreateQueue, Is, entries, locking
<1>3. q \in Handles /\ ObjectInv(q) /\ CountIsRight(q) /\ QueueEntry(q)
      /\ q \notin Programs /\ q \notin Kernels
  BY <1>t, ConstantsAssumption DEF ObjectsAreRight, ObjectInv, Handles
<1>4. refs[q] = 0 /\ Cardinality(Pending(q)) = 0 /\ q \notin queueTable
  <2>1. Pending(q) \in SUBSET Threads /\ refs[q] \in Nat
    BY <1>t, <1>3 DEF Pending, TypeOK
  <2>2. Cardinality(Pending(q)) \in Nat /\ vendor[q] = refs[q] + Cardinality(Pending(q))
    BY <1>3, <2>1, CountOfThreads DEF CountIsRight
  <2>3. refs[q] = 0 /\ Cardinality(Pending(q)) = 0
    BY <1>z, <2>1, <2>2
  <2>4. q \notin queueTable
    BY <1>z, <1>3 DEF QueueEntry
  <2>5. QED
    BY <2>3, <2>4
<1>5. /\ at'[t] = "insert queue" /\ uses'[t] = {q}
      /\ \A u \in Threads : u # t => at'[u] = at[u] /\ uses'[u] = uses[u]
      /\ vendor'[q] = 1
  BY <1>1, <1>3, <1>t, Moved DEF TypeOK
<1>6. ObjectInv(q)'
  <2>1. Cardinality(Pending(q)') = 1
    <3>1. at[t] \notin Owing /\ q \in {q} /\ "insert queue" \in Owing
      BY <1>m DEF Owing, Releasing
    <3>2. Cardinality(Pending(q)') = Cardinality(Pending(q)) + 1
      BY <1>m, <1>t, <3>1, PendingCount
    <3>3. Cardinality(Pending(q)) = 0
      BY <1>4
    <3>4. QED
      BY <3>2, <3>3
  <2>2. CountIsRight(q)'
    <3>1. vendor'[q] = refs'[q] + Cardinality(Pending(q)')
      <4>1. refs'[q] = 0 /\ vendor'[q] = 1
        BY <1>2, <1>4, <1>5
      <4>2. QED
        BY <2>1, <4>1
    <3>2. QED
      BY <1>5, <3>1 DEF CountIsRight
  <2>3. QueueEntry(q)'
    BY <1>2, <1>4, <1>5 DEF QueueEntry, IsUnlisted
  <2>4. QED
    BY <1>3, <2>2, <2>3 DEF ObjectInv
<1>7. ASSUME NEW h \in Handles, h # q PROVE ObjectInv(h)'
  <2>1. at[t] \notin MarksOf(h) /\ h \notin {q}
    BY <1>1, <1>7 DEF MarksOf, Marked, Owing, Releasing
  <2>2. vendor'[h] = vendor[h]
    BY <1>1, <1>7, <1>t DEF TablesTyped
  <2>3. SameEntry(h)
    BY <1>2, <2>2 DEF SameEntry
  <2>4. QED
    BY <1>m, <1>t, <2>1, <2>3, LeftAlone
<1>8. ObjectsAreRight'
  BY <1>6, <1>7 DEF ObjectsAreRight
<1>9. TablesTyped' /\ LocksTyped' /\ OwnLocks(t)
  BY <1>1, <1>2, <1>t DEF TablesTyped, LocksTyped, OwnLocks
<1>10. "insert queue" \in Phases /\ {q} \in SUBSET Handles /\ Fits("insert queue", {q})
  BY <1>3 DEF Phases, Fits
<1>11. QED
  BY <1>1, <1>2, <1>8, <1>9, <1>10, TouchKeeps DEF Owing

\* The queue gets its entry, and the application its reference.
LEMMA InsertQueueKeeps ==
  ASSUME IInv, NEW t \in Threads, InsertQueue(t)
  PROVE  IInv'
<1>t. TablesTyped /\ TypeOK /\ CallsFit /\ ObjectsAreRight /\ LocksTyped
  BY InvTables
<1>m. Moves(t, "idle", {})
  BY <1>t, GotoMoves DEF InsertQueue
<1>1. at[t] = "insert queue"
  BY DEF InsertQueue, Is
<1>2. PICK q \in Queues : uses[t] = {q}
  BY <1>1, <1>t DEF CallsFit, Fits
<1>3. /\ queueTable' = queueTable \cup {q} /\ refs' = [refs EXCEPT ![q] = 1]
      /\ Expect(q \notin queueTable, "insertion")
  BY <1>2 DEF InsertQueue
<1>4. /\ vendor' = vendor /\ programTable' = programTable
      /\ kernelTable' = kernelTable /\ refCount' = refCount /\ profile' = profile
      /\ mode' = mode /\ mutex' = mutex /\ busy' = busy /\ Unbar("QT") /\ fault = "none"
  BY DEF InsertQueue, Is
<1>5. q \in Handles /\ ObjectInv(q) /\ CountIsRight(q) /\ QueueEntry(q)
      /\ q \notin Programs /\ q \notin Kernels
  BY <1>t, ConstantsAssumption DEF ObjectsAreRight, ObjectInv, Handles
<1>6. /\ vendor[q] = 1 /\ q \in uses[t]
  BY <1>1, <1>2, <1>5 DEF CountIsRight
<1>7. t \in Pending(q) /\ refs[q] = 0 /\ Pending(q) = {t}
  <2>1. t \in Pending(q)
    BY <1>1, <1>6 DEF Pending, Owing
  <2>2. QED
    BY <1>5, <1>6, <1>t, <2>1, OwedIsCounted
<1>8. q \notin queueTable
  BY <1>1, <1>5, <1>6 DEF QueueEntry, IsUnlisted
<1>9. refs'[q] = 1 /\ vendor'[q] = 1
  BY <1>3, <1>4, <1>5, <1>6, <1>t DEF TablesTyped
<1>10. ObjectInv(q)'
  <2>1. \A u \in Threads : u \notin Pending(q)'
    <3>1. t \notin Pending(q)'
      BY <1>m, <1>t, MovedSets
    <3>2. \A u \in Threads : u # t => u \notin Pending(q)
      BY <1>7
    <3>3. \A u \in Threads : u # t => (u \in Pending(q) <=> u \in Pending(q)')
      BY <1>m, <1>t, MovedSets
    <3>4. QED
      BY <3>1, <3>2, <3>3
  <2>2. Cardinality(Pending(q)') = 0
    <3>1. Pending(q)' \in SUBSET Threads
      BY <1>m, <1>t, MovedSets
    <3>2. PICK S \in SUBSET Threads : S = Pending(q)'
      BY <3>1
    <3>3. S = {}
      BY <2>1, <3>2
    <3>4. QED
      BY <3>2, <3>3, CountOfThreads
  <2>3. \A u \in Threads : ~(q \in uses'[u] /\ at'[u] \in Owing)
    BY <2>1 DEF Pending
  <2>4. CountIsRight(q)'
    <3>1. vendor'[q] = refs'[q] + Cardinality(Pending(q)')
      BY <1>9, <2>2
    <3>2. QED
      BY <1>9, <3>1 DEF CountIsRight
  <2>5. QueueEntry(q)'
    <3>1. ~IsUnlisted(q)'
      BY <2>3 DEF IsUnlisted, Owing, Releasing
    <3>2. vendor'[q] > 0 /\ q \in queueTable'
      BY <1>3, <1>9
    <3>3. QED
      BY <3>1, <3>2 DEF QueueEntry
  <2>6. QED
    BY <1>5, <2>4, <2>5 DEF ObjectInv
<1>11. ASSUME NEW h \in Handles, h # q PROVE ObjectInv(h)'
  <2>1. h \notin uses[t] /\ h \notin {}
    BY <1>2, <1>11
  <2>2. refs'[h] = refs[h] /\ (h \in queueTable' <=> h \in queueTable)
    BY <1>3, <1>11, <1>t DEF TablesTyped
  <2>3. SameEntry(h)
    BY <1>4, <2>2 DEF SameEntry
  <2>4. QED
    BY <1>m, <1>t, <2>1, <2>3, LeftAlone
<1>12. ObjectsAreRight'
  BY <1>10, <1>11 DEF ObjectsAreRight
<1>13. TablesTyped' /\ LocksTyped' /\ OwnLocks(t)
  BY <1>3, <1>4, <1>t DEF TablesTyped, LocksTyped, OwnLocks, Unbar
<1>14. fault' \in {"none", "freed"}
  BY <1>4, <1>8, <1>3 DEF Expect
<1>15. \A h \in Handles : refs[h] > 0 => refs'[h] > 0
  BY <1>3, <1>9, <1>t DEF TablesTyped
<1>16. "idle" \in Phases /\ {} \in SUBSET Handles /\ Fits("idle", {})
  BY DEF Phases, Fits
<1>17. QED
  BY <1>m, <1>4, <1>12, <1>13, <1>14, <1>15, <1>16, TouchKeeps

\* A call that releases a queue or a program counts the vendor's references.
Counts(t, s, h) ==
  /\ at[t] = "release" /\ uses[t] = {h}
  /\ s \in {"erase", "vendor release"}
  /\ s = "erase" => vendor[h] <= 1

\* It goes on to the erasure only if it holds the only one; then, and as long as
\* there are others, the object counts as listed.
LEMMA CountedIsRight ==
  ASSUME TypeOK, CallsFit, NEW h \in Queues \cup Programs, CountIsRight(h),
         NEW t \in Threads, NEW s, Counts(t, s, h), Moves(t, s, uses[t]),
         vendor' = vendor, refs' = refs
  PROVE  /\ CountIsRight(h)'
         /\ vendor[h] >= 1
         /\ ~IsUnlisted(h)
         /\ (vendor[h] > 1 \/ s = "erase") => ~IsUnlisted(h)'
<1>c. /\ at[t] = "release" /\ uses[t] = {h}
      /\ s \in {"erase", "vendor release"}
      /\ s = "erase" => vendor[h] <= 1
  BY DEF Counts
<1>1. t \in Pending(h) /\ h \in uses[t]
  BY <1>c DEF Pending, Owing, Releasing
<1>2. vendor[h] >= 1 /\ (vendor[h] = 1 => Pending(h) = {t})
  BY <1>1, OwedIsCounted
<1>3. vendor[h] \in Nat
  BY DEF TypeOK, Handles
<1>4. /\ at'[t] = s /\ uses'[t] = uses[t]
      /\ \A u \in Threads : u # t => at'[u] = at[u] /\ uses'[u] = uses[u]
  BY Moved
<1>5. Pending(h)' = Pending(h)
  <2>1. s \in Owing
    BY <1>c DEF Owing, Releasing
  <2>2. t \in Pending(h)'
    BY <1>1, <2>1, MovedSets
  <2>3. \A u \in Threads : u # t => (u \in Pending(h) <=> u \in Pending(h)')
    BY MovedSets
  <2>4. \A u \in Threads : u \in Pending(h) <=> u \in Pending(h)'
    BY <1>1, <2>2, <2>3
  <2>5. Pending(h) \in SUBSET Threads /\ Pending(h)' \in SUBSET Threads
    BY MovedSets
  <2>6. QED
    BY <2>4, <2>5
<1>6. \A u \in Threads : vendor[h] = 1 /\ h \in uses[u] /\ at[u] \in Owing => u = t
  BY <1>2 DEF Pending
<1>7. ~IsUnlisted(h)
  BY <1>c, <1>6 DEF IsUnlisted, Owing, Releasing
<1>8. CountIsRight(h)'
  <2>1. vendor'[h] = refs'[h] + Cardinality(Pending(h)')
    BY <1>5 DEF CountIsRight
  <2>2. s = "erase" => vendor[h] = 1
    <3>1. ASSUME s = "erase" PROVE vendor[h] <= 1
      BY <1>c, <3>1
    <3>2. vendor[h] <= 1 => vendor[h] = 1
      BY <1>2, <1>3
    <3>3. QED
      BY <3>1, <3>2
  <2>3. ASSUME NEW u \in Threads, h \in uses'[u], at'[u] \in {"insert queue", "erase"}
        PROVE  vendor'[h] = 1
    <3>1. CASE u = t
      <4>1. s = "erase"
        BY <1>c, <1>4, <2>3, <3>1
      <4>2. QED
        BY <2>2, <4>1
    <3>2. CASE u # t
      BY <1>4, <2>3, <3>2 DEF CountIsRight
    <3>3. QED
      BY <3>1, <3>2
  <2>4. QED
    BY <2>1, <2>3 DEF CountIsRight
<1>9. ASSUME vendor[h] > 1 \/ s = "erase" PROVE ~IsUnlisted(h)'
  <2>e. vendor[h] = 1 => s = "erase"
    BY <1>9
  <2>1. ASSUME vendor[h] = 1, NEW u \in Threads, h \in uses'[u],
               at'[u] \in {"insert queue", "vendor release"}
        PROVE  FALSE
    <3>1. s = "erase"
      BY <2>e, <2>1
    <3>2. u # t
      BY <1>4, <2>1, <3>1
    <3>3. QED
      BY <1>4, <1>6, <2>1, <3>2 DEF Owing, Releasing
  <2>2. QED
    BY <2>1 DEF IsUnlisted
<1>10. QED
  BY <1>2, <1>7, <1>8, <1>9

\* clReleaseQueue and clReleaseProgram, once the lock is theirs.
LEMMA ReleaseQueueKeeps ==
  ASSUME IInv, NEW t \in Threads, ReleaseQueue(t)
  PROVE  IInv'
<1>t. TablesTyped /\ TypeOK /\ CallsFit /\ ObjectsAreRight /\ LocksTyped
  BY InvTables
<1>1. at[t] = "release" /\ fault = "none"
  BY DEF ReleaseQueue, Is
<1>2. PICK q \in Queues : /\ uses[t] = {q} /\ Expect(q \in queueTable, "refused")
                          /\ CountReferences(t, "QT", q)
  BY <1>1, <1>t DEF ReleaseQueue, CallsFit, Fits
<1>3. /\ refs' = refs /\ vendor' = vendor /\ queueTable' = queueTable
      /\ programTable' = programTable /\ kernelTable' = kernelTable
      /\ refCount' = refCount /\ profile' = profile /\ barred' = barred /\ uses' = uses
      /\ busy' = busy
  BY DEF ReleaseQueue, entries
<1>u. uses[t] = {q}
  BY <1>2
<1>4. PICK s : s = IF IsLast(q) THEN "erase" ELSE "vendor release"
  OBVIOUS
<1>5. Counts(t, s, q) /\ s \in Owing
  BY <1>1, <1>2, <1>4 DEF Counts, IsLast, Owing, Releasing
<1>m. Moves(t, s, uses[t])
  BY <1>2, <1>3, <1>4, <1>t, GotoMoves DEF CountReferences
<1>6. q \in Handles /\ CountIsRight(q) /\ QueueEntry(q) /\ q \notin Programs /\ q \notin Kernels
  BY <1>t, ConstantsAssumption DEF ObjectsAreRight, ObjectInv, Handles
<1>7. /\ CountIsRight(q)' /\ vendor[q] >= 1 /\ ~IsUnlisted(q)
      /\ (vendor[q] > 1 \/ s = "erase") => ~IsUnlisted(q)'
  BY <1>3, <1>5, <1>6, <1>m, <1>t, CountedIsRight
<1>8. vendor[q] > 1 \/ s = "erase"
  <2>1. vendor[q] \in Nat
    BY <1>6, <1>t DEF TablesTyped
  <2>2. ~(vendor[q] > 1) => vendor[q] <= 1
    BY <2>1
  <2>3. vendor[q] <= 1 => s = "erase"
    BY <1>4 DEF IsLast
  <2>4. QED
    BY <2>2, <2>3
<1>9. q \in queueTable
  <2>1. vendor[q] \in Nat
    BY <1>6, <1>t DEF TablesTyped
  <2>2. vendor[q] > 0
    BY <1>7, <2>1
  <2>3. QED
    BY <1>6, <1>7, <2>2 DEF QueueEntry
<1>10. ObjectInv(q)'
  <2>1. QueueEntry(q)'
    <3>1. vendor[q] > 0 /\ ~IsUnlisted(q)
      BY <1>6, <1>9 DEF QueueEntry
    <3>2. ~IsUnlisted(q)'
      BY <1>7, <1>8
    <3>3. vendor'[q] > 0 /\ q \in queueTable'
      BY <1>3, <1>9, <3>1
    <3>4. QED
      BY <3>2, <3>3 DEF QueueEntry
  <2>2. QED
    BY <1>6, <1>7, <2>1 DEF ObjectInv
<1>11. ASSUME NEW h \in Handles, h # q PROVE ObjectInv(h)'
  <2>1. h \notin uses[t]
    BY <1>u, <1>11
  <2>2. SameEntry(h)
    BY <1>3 DEF SameEntry
  <2>3. QED
    BY <1>m, <1>t, <2>1, <2>2, LeftAlone
<1>12. ObjectsAreRight'
  BY <1>10, <1>11 DEF ObjectsAreRight
<1>13. LockUpgrade(t, "QT") /\ "QT" \in Locks
  BY DEF ReleaseQueue, Locks
<1>14. TablesTyped' /\ LocksTyped' /\ OwnLocks(t)
  <2>1. mutex' \in [Queues \cup Kernels \cup {"QT", "PT"} -> Threads \cup {NULL}]
    BY <1>2, <1>t, MutexType DEF CountReferences
  <2>2. mode' \in LockModes /\ OwnLocks(t)
    BY <1>13, <1>t, LockEffects
  <2>3. QED
    BY <1>3, <1>t, <2>1, <2>2 DEF TablesTyped, LocksTyped
<1>15. \A h \in uses[t] : mode'[TableOf(h)][t] \in Strong
  <2>1. mode'["QT"][t] \in Strong
    BY <1>13, <1>t, LockEffects DEF Strong
  <2>2. TableOf(q) = "QT"
    BY DEF TableOf
  <2>3. QED
    BY <1>u, <2>1, <2>2
<1>16. fault' \in {"none", "freed"}
  BY <1>1, <1>2, <1>9 DEF Expect
<1>17. s \in Phases /\ s # "build" /\ uses[t] \in SUBSET Handles /\ Fits(s, uses[t])
  BY <1>4, <1>u, <1>6 DEF Phases, Fits
<1>18. QED
  BY <1>m, <1>3, <1>5, <1>12, <1>14, <1>15, <1>16, <1>17, TouchKeeps

\* The same of a program, which has no entry if it was not built.
LEMMA ReleaseProgramKeeps ==
  ASSUME IInv, NEW t \in Threads, ReleaseProgram(t)
  PROVE  IInv'
<1>t. TablesTyped /\ TypeOK /\ CallsFit /\ ObjectsAreRight /\ LocksTyped
  BY InvTables
<1>1. at[t] = "release" /\ fault' = "none"
  BY DEF ReleaseProgram, Is
<1>2. PICK p \in Programs :
        /\ uses[t] = {p}
        /\ \/ programTable[p] # "absent" /\ CountReferences(t, "PT", p)
           \/ programTable[p] = "absent" /\ Goto(t, "vendor release") /\ UNCHANGED mutex
  BY <1>1, <1>t DEF ReleaseProgram, CallsFit, Fits
<1>3. /\ refs' = refs /\ vendor' = vendor /\ queueTable' = queueTable
      /\ programTable' = programTable /\ kernelTable' = kernelTable
      /\ refCount' = refCount /\ profile' = profile /\ barred' = barred /\ uses' = uses
      /\ busy' = busy
  BY DEF ReleaseProgram, entries
<1>u. uses[t] = {p}
  BY <1>2
<1>4. PICK s : /\ s = IF programTable[p] # "absent" /\ IsLast(p) THEN "erase"
                                                              ELSE "vendor release"
  OBVIOUS
<1>5. Counts(t, s, p) /\ s \in Owing
  BY <1>1, <1>2, <1>4 DEF Counts, IsLast, Owing, Releasing
<1>m. Moves(t, s, uses[t])
  BY <1>2, <1>3, <1>4, <1>t, GotoMoves DEF CountReferences
<1>6. p \in Handles /\ CountIsRight(p) /\ ProgramEntry(p) /\ p \notin Queues /\ p \notin Kernels
  BY <1>t, ConstantsAssumption DEF ObjectsAreRight, ObjectInv, Handles
<1>7. /\ CountIsRight(p)' /\ vendor[p] >= 1
      /\ (vendor[p] > 1 \/ s = "erase") => ~IsUnlisted(p)'
  BY <1>3, <1>5, <1>6, <1>m, <1>t, CountedIsRight
<1>8. programTable[p] # "absent" => vendor[p] > 1 \/ s = "erase"
  <2>1. vendor[p] \in Nat
    BY <1>6, <1>t DEF TablesTyped
  <2>2. ~(vendor[p] > 1) => vendor[p] <= 1
    BY <2>1
  <2>3. vendor[p] <= 1 /\ programTable[p] # "absent" => s = "erase"
    BY <1>4 DEF IsLast
  <2>4. QED
    BY <2>2, <2>3
<1>10. ObjectInv(p)'
  <2>1. ProgramEntry(p)'
    <3>1. vendor'[p] > 0
      <4>1. vendor[p] \in Nat
        BY <1>6, <1>t DEF TablesTyped
      <4>2. vendor[p] > 0
        BY <1>7, <4>1
      <4>3. QED
        BY <1>3, <4>2
    <3>2. programTable[p] # "absent" => ~IsUnlisted(p)'
      BY <1>7, <1>8
    <3>3. QED
      BY <1>3, <3>1, <3>2 DEF ProgramEntry
  <2>2. QED
    BY <1>6, <1>7, <2>1 DEF ObjectInv
<1>11. ASSUME NEW h \in Handles, h # p PROVE ObjectInv(h)'
  <2>1. h \notin uses[t]
    BY <1>u, <1>11
  <2>2. SameEntry(h)
    BY <1>3 DEF SameEntry
  <2>3. QED
    BY <1>m, <1>t, <2>1, <2>2, LeftAlone
<1>12. ObjectsAreRight'
  BY <1>10, <1>11 DEF ObjectsAreRight
<1>13. LockUpgrade(t, "PT") /\ "PT" \in Locks
  BY DEF ReleaseProgram, Locks
<1>14. TablesTyped' /\ LocksTyped' /\ OwnLocks(t)
  <2>1. mutex' \in [Queues \cup Kernels \cup {"QT", "PT"} -> Threads \cup {NULL}]
    BY <1>2, <1>t, MutexType DEF CountReferences, LocksTyped
  <2>2. mode' \in LockModes /\ OwnLocks(t)
    BY <1>13, <1>t, LockEffects
  <2>3. QED
    BY <1>3, <1>t, <2>1, <2>2 DEF TablesTyped, LocksTyped
<1>15. \A h \in uses[t] : mode'[TableOf(h)][t] \in Strong
  <2>1. mode'["PT"][t] \in Strong
    BY <1>13, <1>t, LockEffects DEF Strong
  <2>2. TableOf(p) = "PT"
    BY <1>6 DEF TableOf
  <2>3. QED
    BY <1>u, <2>1, <2>2
<1>16. s \in Phases /\ s # "build" /\ uses[t] \in SUBSET Handles /\ Fits(s, uses[t])
  BY <1>4, <1>u, <1>6 DEF Phases, Fits
<1>17. QED
  BY <1>m, <1>1, <1>3, <1>5, <1>12, <1>14, <1>15, <1>16, TouchKeeps

-----------------------------------------------------------------------------
(* The account of the object that a step is about.                          *)

\* No other call than t is in one of these phases with h.
Solo(t, h, phases) == \A u \in Threads : u # t /\ h \in uses[u] => at[u] \notin phases

\* What is left to show of an action, in general.
LEMMA StepKeeps ==
  ASSUME IInv, NEW t \in Threads, NEW s \in Phases, NEW X \in SUBSET Handles,
         Moves(t, s, X), Fits(s, X), OwnLocks(t),
         \A h \in X \ Kernels : s \in {"erase", "vendor release"} =>
           mode'[TableOf(h)][t] \in Strong,
         LocksTyped', TablesTyped', fault' \in {"none", "freed"}, ObjectsAreRight',
         UsedAreHeld', BuildIsAlone'
  PROVE  IInv'
<1>1. TypeOK /\ CallsFit /\ OneIsStrong /\ ReleaseIsStrong
  BY DEF IInv
<1>2. CallsFit' /\ uses' \in [Threads -> SUBSET Handles]
  BY <1>1, MoveFits
<1>3. OneIsStrong' /\ ReleaseIsStrong'
  BY <1>1, MoveKeepsLocks
<1>4. TypeOK' /\ LegalCallsSucceed'
  BY <1>2 DEF TypeOK, LocksTyped, LockModes, TablesTyped, LegalCallsSucceed
<1>5. QED
  BY <1>2, <1>3, <1>4 DEF IInv

\* The phases in which the vendor's reference is the only one.
OnlyOne == {"insert queue", "erase"}
ToOnlyOne(s, X, h) == h \in X /\ s \in OnlyOne

\* The vendor's count of a queue or a program, when a call moves.
LEMMA CountStep ==
  ASSUME TypeOK, CallsFit, NEW t \in Threads, NEW s, NEW X, Moves(t, s, X), NEW h,
         CountIsRight(h),
         vendor'[h] = refs'[h] + Cardinality(Pending(h)'),
         vendor'[h] = vendor[h] \/ Solo(t, h, OnlyOne),
         ToOnlyOne(s, X, h) => vendor'[h] = 1
  PROVE  CountIsRight(h)'
<1>1. /\ at'[t] = s /\ uses'[t] = X
      /\ \A u \in Threads : u # t => at'[u] = at[u] /\ uses'[u] = uses[u]
  BY Moved
<1>2. ASSUME NEW u \in Threads, h \in uses'[u], at'[u] \in OnlyOne
      PROVE  vendor'[h] = 1
  <2>1. CASE u = t
    BY <1>1, <1>2, <2>1 DEF ToOnlyOne
  <2>2. CASE u # t
    <3>1. h \in uses[u] /\ at[u] \in OnlyOne
      BY <1>1, <1>2, <2>2
    <3>2. vendor[h] = 1
      BY <3>1 DEF CountIsRight, OnlyOne
    <3>3. ~Solo(t, h, OnlyOne)
      BY <2>2, <3>1 DEF Solo
    <3>4. QED
      BY <3>2, <3>3
  <2>3. QED
    BY <2>1, <2>2
<1>3. QED
  BY <1>2 DEF CountIsRight, OnlyOne

\* Whether the vendor's only reference is one of those calls' follows from the calls
\* when that count stays.
LEMMA UnlistedStep ==
  ASSUME TypeOK, CallsFit, NEW t \in Threads, NEW s, NEW X, Moves(t, s, X), NEW h,
         vendor'[h] = vendor[h],
         s \notin {"insert queue", "vendor release"},
         at[t] \notin {"insert queue", "vendor release"}
  PROVE  IsUnlisted(h)' <=> IsUnlisted(h)
<1>1. /\ at'[t] = s /\ uses'[t] = X
      /\ \A u \in Threads : u # t => at'[u] = at[u] /\ uses'[u] = uses[u]
  BY Moved
<1>2. QED
  BY <1>1 DEF IsUnlisted

\* A handle that the vendor has freed is nobody's.
LEMMA FreeIsUnused ==
  ASSUME TypeOK, NEW h \in Queues \cup Programs, CountIsRight(h), vendor[h] = 0
  PROVE  refs[h] = 0 /\ Pending(h) = {} /\ Cardinality(Pending(h)) = 0
<1>1. Pending(h) \in SUBSET Threads /\ refs[h] \in Nat
  BY DEF Pending, TypeOK, Handles
<1>2. Cardinality(Pending(h)) \in Nat /\ vendor[h] = refs[h] + Cardinality(Pending(h))
  BY <1>1, CountOfThreads DEF CountIsRight
<1>3. refs[h] = 0 /\ Cardinality(Pending(h)) = 0
  BY <1>1, <1>2
<1>4. QED
  BY <1>1, <1>3, CountOfThreads

\* Kernels: where the call goes, and what its kernel is like there.
ToAlone(s, X, k) ==
  /\ k \in X /\ s = "erase" => k \in kernelTable' /\ refCount'[k] = 0
  /\ k \in X /\ s \in {"insert kernel", "vendor release"} =>
       k \notin kernelTable' /\ vendor'[k] = 1
  /\ k \in kernelTable' /\ refCount'[k] = 0 => k \in X /\ s = "erase"

\* The account of a kernel that no other call is alone with, when a call moves.
LEMMA KernelStep ==
  ASSUME TypeOK, CallsFit, NEW t \in Threads, NEW s, NEW X, Moves(t, s, X),
         NEW k \in Kernels, Solo(t, k, Alone), ToAlone(s, X, k),
         k \in kernelTable' =>
           vendor'[k] = 1 /\ refCount'[k] = refs'[k] + Cardinality(Dropping(k)'),
         k \notin kernelTable' => refs'[k] = 0 /\ Dropping(k)' = {}
  PROVE  KernelEntry(k)'
<1>1. /\ at'[t] = s /\ uses'[t] = X
      /\ \A u \in Threads : u # t => at'[u] = at[u] /\ uses'[u] = uses[u]
  BY Moved
<1>2. ASSUME NEW u \in Threads, k \in uses'[u], at'[u] \in Alone
      PROVE  u = t
  BY <1>1, <1>2 DEF Solo
<1>3. ASSUME k \in kernelTable', refCount'[k] = 0
      PROVE  \E u \in Threads : k \in uses'[u] /\ at'[u] = "erase"
  BY <1>1, <1>3 DEF ToAlone
<1>4. ASSUME NEW u \in Threads, k \in uses'[u]
      PROVE  /\ at'[u] = "erase" => k \in kernelTable' /\ refCount'[k] = 0
             /\ at'[u] \in {"insert kernel", "vendor release"} =>
                  k \notin kernelTable' /\ vendor'[k] = 1
  BY <1>1, <1>2, <1>4 DEF ToAlone, Alone
<1>5. QED
  BY <1>2, <1>3, <1>4 DEF KernelEntry

\* Who is alone with a kernel.
LEMMA KernelSolo ==
  ASSUME NEW k \in Kernels, KernelEntry(k), NEW t \in Threads
  PROVE  /\ k \in uses[t] /\ at[t] \in Alone => Solo(t, k, Alone)
         /\ k \in kernelTable /\ refCount[k] # 0 => Solo(t, k, Alone)
         /\ vendor[k] = 0 => Solo(t, k, Alone) /\ k \notin kernelTable
<1>1. k \in uses[t] /\ at[t] \in Alone => Solo(t, k, Alone)
  BY DEF KernelEntry, Solo
<1>2. k \in kernelTable /\ refCount[k] # 0 => Solo(t, k, Alone)
  BY DEF KernelEntry, Solo, Alone
<1>3. ASSUME vendor[k] = 0 PROVE Solo(t, k, Alone) /\ k \notin kernelTable
  <2>1. k \in kernelTable => vendor[k] = 1
    BY DEF KernelEntry
  <2>2. k \notin kernelTable /\ vendor[k] # 1
    BY <1>3, <2>1
  <2>3. \A u \in Threads : k \in uses[u] => at[u] \notin Alone
    BY <2>2 DEF KernelEntry, Alone
  <2>4. QED
    BY <2>2, <2>3 DEF Solo
<1>4. QED
  BY <1>1, <1>2, <1>3

\* An application that gives a reference back.  It may be the last one to an object:
\* then no other call uses it, but to release it.
LEMMA CallReleaseKeeps ==
  ASSUME IInv, NEW t \in Threads, NEW h \in Handles, CallRelease(t, h)
  PROVE  IInv'
<1>t. TablesTyped /\ TypeOK /\ CallsFit /\ ObjectsAreRight /\ LocksTyped
  BY InvTables
<1>m. Moves(t, "release", {h}) /\ at[t] = "idle"
  BY DEF CallRelease, Is, Goto, Moves
<1>1. /\ refs[h] > 0 /\ (refs[h] = 1 => ~InUse(h))
      /\ refs' = [refs EXCEPT ![h] = @ - 1]
  BY DEF CallRelease
<1>2. /\ vendor' = vendor /\ queueTable' = queueTable /\ programTable' = programTable
      /\ kernelTable' = kernelTable /\ refCount' = refCount /\ profile' = profile
      /\ mode' = mode /\ barred' = barred /\ mutex' = mutex /\ busy' = busy /\ fault' = "none"
  BY DEF CallRelease, Is, entries, locking
<1>3. /\ refs[h] \in Nat /\ refs'[h] = refs[h] - 1 /\ refs' \in [Handles -> Nat]
      /\ \A g \in Handles : g # h => refs'[g] = refs[g]
  BY <1>1, <1>t DEF TablesTyped
<1>4. ObjectInv(h) /\ (h \in Queues \cup Programs => h \notin Kernels)
  BY <1>t, ConstantsAssumption DEF ObjectsAreRight
<1>p. /\ at[t] \notin {"insert queue", "vendor release"}
      /\ "release" \notin {"insert queue", "vendor release"}
  BY <1>m
<1>5. ASSUME h \in Queues \cup Programs PROVE ObjectInv(h)'
  <2>1. CountIsRight(h)
    BY <1>4, <1>5 DEF ObjectInv
  <2>2. Cardinality(Pending(h)') = Cardinality(Pending(h)) + 1 /\ Cardinality(Pending(h)) \in Nat
    <3>1. at[t] \notin Owing /\ h \in {h} /\ "release" \in Owing
      BY <1>m DEF Owing, Releasing
    <3>2. QED
      BY <1>m, <1>t, <3>1, PendingCount
  <2>3. vendor'[h] = refs'[h] + Cardinality(Pending(h)')
    <3>1. vendor[h] = refs[h] + Cardinality(Pending(h))
      BY <2>1 DEF CountIsRight
    <3>2. QED
      BY <1>2, <1>3, <2>2, <3>1
  <2>4. ~ToOnlyOne("release", {h}, h)
    BY DEF ToOnlyOne, OnlyOne
  <2>5. CountIsRight(h)'
    BY <1>2, <1>m, <1>t, <2>1, <2>3, <2>4, CountStep
  <2>6. IsUnlisted(h)' <=> IsUnlisted(h)
    BY <1>2, <1>m, <1>p, <1>t, UnlistedStep
  <2>7. (h \in Queues => QueueEntry(h)') /\ (h \in Programs => ProgramEntry(h)')
    BY <1>2, <1>4, <2>6 DEF QueueEntry, ProgramEntry, ObjectInv
  <2>8. QED
    BY <1>4, <1>5, <2>5, <2>7 DEF ObjectInv
<1>6. ASSUME h \in Kernels PROVE ObjectInv(h)'
  <2>1. KernelEntry(h) /\ h \notin Queues /\ h \notin Programs
    BY <1>4, <1>6 DEF ObjectInv
  <2>2. h \in kernelTable /\ vendor[h] = 1 /\ refCount[h] >= refs[h]
    BY <1>1, <1>6, <1>t, HeldIsListed
  <2>3. refCount[h] # 0 /\ refCount[h] \in Nat
    BY <1>1, <1>3, <1>6, <2>2, <1>t DEF TablesTyped
  <2>4. Solo(t, h, Alone)
    BY <1>6, <2>1, <2>2, <2>3, KernelSolo
  <2>5. ToAlone("release", {h}, h)
    BY <1>2, <2>3 DEF ToAlone
  <2>6. /\ Cardinality(Dropping(h)') = Cardinality(Dropping(h)) + 1
        /\ Cardinality(Dropping(h)) \in Nat
    <3>1. at[t] \notin {"release", "drop"} /\ h \in {h} /\ "release" \in {"release", "drop"}
      BY <1>m
    <3>2. QED
      BY <1>m, <1>t, <3>1, DroppingCount
  <2>7. refCount'[h] = refs'[h] + Cardinality(Dropping(h)')
    <3>1. refCount[h] = refs[h] + Cardinality(Dropping(h))
      BY <2>1, <2>2 DEF KernelEntry
    <3>2. QED
      BY <1>2, <1>3, <2>6, <3>1
  <2>8. h \in kernelTable' /\ vendor'[h] = 1
    BY <1>2, <2>2
  <2>9. KernelEntry(h)'
    BY <1>6, <1>m, <1>t, <2>4, <2>5, <2>7, <2>8, KernelStep
  <2>10. QED
    BY <1>6, <2>1, <2>9 DEF ObjectInv
<1>7. ASSUME NEW g \in Handles, g # h PROVE ObjectInv(g)'
  <2>1. at[t] \notin MarksOf(g) /\ g \notin {h}
    BY <1>m, <1>7 DEF MarksOf, Marked, Owing, Releasing
  <2>2. SameEntry(g)
    BY <1>2, <1>3, <1>7 DEF SameEntry
  <2>3. QED
    BY <1>m, <1>t, <2>1, <2>2, LeftAlone
<1>8. ObjectsAreRight'
  BY <1>5, <1>6, <1>7 DEF ObjectsAreRight, Handles
<1>9. UsedAreHeld'
  <2>1. /\ at'[t] = "release" /\ uses'[t] = {h}
        /\ \A u \in Threads : u # t => at'[u] = at[u] /\ uses'[u] = uses[u]
    BY <1>m, <1>t, Moved
  <2>2. ASSUME NEW u \in Threads, NEW g \in uses'[u]
        PROVE  refs'[g] > 0 \/ at'[u] \in Owing \/ (at'[u] = "insert kernel" /\ g \in Kernels)
    <3>1. CASE u = t
      BY <2>1, <3>1 DEF Owing, Releasing
    <3>2. CASE u # t
      <4>1. g \in uses[u] /\ g \in Handles /\ at'[u] = at[u]
        BY <1>t, <2>1, <2>2, <3>2 DEF TypeOK
      <4>2. refs[g] > 0 \/ at[u] \in Owing \/ (at[u] = "insert kernel" /\ g \in Kernels)
        BY <4>1 DEF IInv, UsedAreHeld
      <4>3. CASE g = h /\ refs[h] = 1
        <5>1. at[u] \in Releasing
          BY <1>1, <4>1, <4>3 DEF InUse
        <5>2. QED
          BY <4>1, <5>1 DEF Owing
      <4>4. CASE ~(g = h /\ refs[h] = 1)
        <5>1. refs[g] > 0 => refs'[g] > 0
          BY <1>3, <4>1, <4>4
        <5>2. QED
          BY <4>1, <4>2, <5>1
      <4>5. QED
        BY <4>3, <4>4
    <3>3. QED
      BY <3>1, <3>2
  <2>3. QED
    BY <2>2 DEF UsedAreHeld
<1>10. BuildIsAlone'
  BY <1>2, <1>m, <1>t, MoveKeepsBuilds DEF IInv
<1>11. TablesTyped' /\ LocksTyped' /\ OwnLocks(t)
  BY <1>2, <1>3, <1>t DEF TablesTyped, LocksTyped, OwnLocks
<1>12. "release" \in Phases /\ {h} \in SUBSET Handles /\ Fits("release", {h})
  BY DEF Phases, Fits
<1>13. QED
  BY <1>m, <1>2, <1>8, <1>9, <1>10, <1>11, <1>12, StepKeeps

\* A call that returns at once does not move.
LEMMA StayingMoves ==
  ASSUME TypeOK, CallsFit, NEW t \in Threads, at[t] = "idle", at' = at, uses' = uses
  PROVE  Moves(t, "idle", {}) /\ Fits("idle", {}) /\ "idle" \in Phases /\ {} \in SUBSET Handles
<1>1. uses[t] = {}
  BY DEF CallsFit, Fits
<1>2. at = [at EXCEPT ![t] = "idle"] /\ uses = [uses EXCEPT ![t] = {}]
  BY <1>1 DEF TypeOK, CallsFit
<1>3. QED
  BY <1>2 DEF Moves, Fits, Phases

\* A call that owes no reference before and after does not change the count of those
\* that do.
LEMMA PendingStays ==
  ASSUME TypeOK, CallsFit, NEW t \in Threads, NEW s, NEW X, Moves(t, s, X), NEW h,
         h \notin uses[t] \/ at[t] \notin Owing, s \notin Owing
  PROVE  Cardinality(Pending(h)') = Cardinality(Pending(h)) /\ Cardinality(Pending(h)) \in Nat
<1>1. t \notin Pending(h) /\ t \notin Pending(h)'
  BY MovedSets
<1>2. QED
  BY <1>1, MovedCounts

\* clCreateProgramWithSource: the handle may be an old one.
LEMMA CreateProgramKeeps ==
  ASSUME IInv, NEW t \in Threads, CreateProgram(t)
  PROVE  IInv'
<1>t. TablesTyped /\ TypeOK /\ CallsFit /\ ObjectsAreRight /\ LocksTyped
  BY InvTables
<1>1. PICK p \in Programs :
        /\ vendor[p] = 0
        /\ vendor' = [vendor EXCEPT ![p] = 1] /\ refs' = [refs EXCEPT ![p] = 1]
  BY DEF CreateProgram
<1>2. /\ queueTable' = queueTable /\ programTable' = programTable
      /\ kernelTable' = kernelTable /\ refCount' = refCount /\ profile' = profile
      /\ mode' = mode /\ barred' = barred /\ mutex' = mutex /\ busy' = busy /\ fault' = "none"
      /\ at' = at /\ uses' = uses /\ at[t] = "idle"
  BY DEF CreateProgram, Is, entries, locking
<1>m. /\ Moves(t, "idle", {}) /\ Fits("idle", {}) /\ "idle" \in Phases
      /\ {} \in SUBSET Handles
  BY <1>2, <1>t, StayingMoves
<1>3. /\ refs'[p] = 1 /\ vendor'[p] = 1
      /\ refs' \in [Handles -> Nat] /\ vendor' \in [Handles -> Nat]
      /\ \A g \in Handles : g # p => refs'[g] = refs[g] /\ vendor'[g] = vendor[g]
  BY <1>1, <1>t DEF TablesTyped, Handles
<1>4. p \in Handles /\ CountIsRight(p) /\ ProgramEntry(p) /\ p \notin Queues /\ p \notin Kernels
  BY <1>t, ConstantsAssumption DEF ObjectsAreRight, ObjectInv, Handles
<1>5. refs[p] = 0 /\ Cardinality(Pending(p)) = 0 /\ Pending(p) = {}
  BY <1>1, <1>4, <1>t, FreeIsUnused
<1>o. at[t] \notin Owing /\ "idle" \notin Owing
  BY <1>2 DEF Owing, Releasing
<1>6. CountIsRight(p)'
  <2>1. Cardinality(Pending(p)') = 0
    BY <1>5, <1>m, <1>o, <1>t, PendingStays
  <2>2. vendor'[p] = refs'[p] + Cardinality(Pending(p)')
    BY <1>3, <2>1
  <2>3. vendor'[p] = 1
    BY <1>3
  <2>4. Solo(t, p, OnlyOne)
    <3>1. \A u \in Threads : p \in uses[u] => at[u] \notin Owing
      BY <1>5 DEF Pending
    <3>2. QED
      BY <3>1 DEF Solo, Owing, OnlyOne, Releasing
  <2>5. QED
    BY <1>4, <1>m, <1>t, <2>2, <2>3, <2>4, CountStep
<1>7. ProgramEntry(p)'
  <2>1. vendor[p] = 0 => programTable[p] = "absent"
    <3>1. ASSUME vendor[p] = 0 PROVE ~(vendor[p] > 0)
      BY <3>1
    <3>2. QED
      BY <1>4, <3>1 DEF ProgramEntry
  <2>2. programTable'[p] = "absent"
    BY <1>1, <1>2, <2>1
  <2>3. QED
    BY <2>2 DEF ProgramEntry
<1>8. ObjectInv(p)'
  BY <1>4, <1>6, <1>7 DEF ObjectInv
<1>9. ASSUME NEW g \in Handles, g # p PROVE ObjectInv(g)'
  <2>1. at[t] \notin MarksOf(g) /\ g \notin {}
    BY <1>2 DEF MarksOf, Marked, Owing, Releasing
  <2>2. SameEntry(g)
    BY <1>2, <1>3, <1>9 DEF SameEntry
  <2>3. QED
    BY <1>m, <1>t, <2>1, <2>2, LeftAlone
<1>10. ObjectsAreRight'
  BY <1>8, <1>9 DEF ObjectsAreRight
<1>11. TablesTyped' /\ LocksTyped' /\ OwnLocks(t)
  BY <1>2, <1>3, <1>t DEF TablesTyped, LocksTyped, OwnLocks
<1>12. \A g \in Handles : refs[g] > 0 => refs'[g] > 0
  BY <1>3
<1>13. QED
  BY <1>m, <1>2, <1>10, <1>11, <1>12, TouchKeeps

\* clRetainProgram, clRetainCommandQueue.
LEMMA RetainKeeps ==
  ASSUME IInv, NEW t \in Threads, Retain(t)
  PROVE  IInv'
<1>t. TablesTyped /\ TypeOK /\ CallsFit /\ ObjectsAreRight /\ LocksTyped
  BY InvTables
<1>1. PICK h \in Queues \cup Programs :
        /\ refs[h] \in 1 .. MaxRef - 1
        /\ vendor' = [vendor EXCEPT ![h] = @ + 1] /\ refs' = [refs EXCEPT ![h] = @ + 1]
  BY DEF Retain
<1>2. /\ queueTable' = queueTable /\ programTable' = programTable
      /\ kernelTable' = kernelTable /\ refCount' = refCount /\ profile' = profile
      /\ mode' = mode /\ barred' = barred /\ mutex' = mutex /\ busy' = busy /\ fault' = "none"
      /\ at' = at /\ uses' = uses /\ at[t] = "idle"
  BY DEF Retain, Is, entries, locking
<1>m. /\ Moves(t, "idle", {}) /\ Fits("idle", {}) /\ "idle" \in Phases
      /\ {} \in SUBSET Handles
  BY <1>2, <1>t, StayingMoves
<1>3. /\ refs[h] \in Nat /\ refs[h] > 0 /\ vendor[h] \in Nat
      /\ refs'[h] = refs[h] + 1 /\ vendor'[h] = vendor[h] + 1
      /\ refs' \in [Handles -> Nat] /\ vendor' \in [Handles -> Nat]
      /\ \A g \in Handles : g # h => refs'[g] = refs[g] /\ vendor'[g] = vendor[g]
  BY <1>1, <1>t DEF TablesTyped, Handles
<1>4. h \in Handles /\ ObjectInv(h) /\ CountIsRight(h) /\ h \notin Kernels
  BY <1>t, ConstantsAssumption DEF ObjectsAreRight, ObjectInv, Handles
<1>5. /\ \A u \in Pending(h) : vendor[h] # 1
      /\ vendor[h] > 0 /\ ~IsUnlisted(h)
  BY <1>3, <1>4, <1>t, OwedIsCounted
<1>o. at[t] \notin Owing /\ "idle" \notin Owing
  BY <1>2 DEF Owing, Releasing
<1>6. CountIsRight(h)'
  <2>1. Cardinality(Pending(h)') = Cardinality(Pending(h)) /\ Cardinality(Pending(h)) \in Nat
    BY <1>m, <1>o, <1>t, PendingStays
  <2>2. vendor'[h] = refs'[h] + Cardinality(Pending(h)')
    <3>1. vendor[h] = refs[h] + Cardinality(Pending(h))
      BY <1>4 DEF CountIsRight
    <3>2. QED
      BY <1>3, <2>1, <3>1
  <2>3. ~ToOnlyOne("idle", {}, h)
    BY DEF ToOnlyOne
  <2>4. Solo(t, h, OnlyOne)
    <3>1. ASSUME NEW u \in Threads, h \in uses[u], at[u] \in OnlyOne PROVE FALSE
      <4>1. u \in Pending(h)
        BY <3>1 DEF Pending, Owing, Releasing, OnlyOne
      <4>2. vendor[h] = 1
        BY <1>4, <3>1 DEF CountIsRight, OnlyOne
      <4>3. QED
        BY <1>5, <4>1, <4>2
    <3>2. QED
      BY <3>1 DEF Solo
  <2>5. QED
    BY <1>4, <1>m, <1>t, <2>2, <2>3, <2>4, CountStep
<1>7. ~IsUnlisted(h)' /\ vendor'[h] > 0
  <2>1. vendor'[h] # 1 /\ vendor'[h] > 0
    BY <1>3, <1>5
  <2>2. QED
    BY <2>1 DEF IsUnlisted
<1>8. ObjectInv(h)'
  <2>1. (h \in Queues => QueueEntry(h)') /\ (h \in Programs => ProgramEntry(h)')
    BY <1>2, <1>4, <1>5, <1>7 DEF QueueEntry, ProgramEntry, ObjectInv
  <2>2. QED
    BY <1>4, <1>6, <2>1 DEF ObjectInv
<1>9. ASSUME NEW g \in Handles, g # h PROVE ObjectInv(g)'
  <2>1. at[t] \notin MarksOf(g) /\ g \notin {}
    BY <1>2 DEF MarksOf, Marked, Owing, Releasing
  <2>2. SameEntry(g)
    BY <1>2, <1>3, <1>9 DEF SameEntry
  <2>3. QED
    BY <1>m, <1>t, <2>1, <2>2, LeftAlone
<1>10. ObjectsAreRight'
  BY <1>8, <1>9 DEF ObjectsAreRight
<1>11. TablesTyped' /\ LocksTyped' /\ OwnLocks(t)
  BY <1>2, <1>3, <1>t DEF TablesTyped, LocksTyped, OwnLocks
<1>12. \A g \in Handles : refs[g] > 0 => refs'[g] > 0
  BY <1>3
<1>13. QED
  BY <1>m, <1>2, <1>10, <1>11, <1>12, TouchKeeps

\* clBuildProgram puts the program in its table.
LEMMA InsertProgramKeeps ==
  ASSUME IInv, NEW t \in Threads, InsertProgram(t)
  PROVE  IInv'
<1>t. TablesTyped /\ TypeOK /\ CallsFit /\ ObjectsAreRight /\ LocksTyped
  BY InvTables
<1>m. Moves(t, "idle", {}) /\ at[t] = "build"
  BY <1>t, GotoMoves DEF InsertProgram, Is
<1>1. PICK p \in Programs : uses[t] = {p}
  BY <1>m, <1>t DEF CallsFit, Fits
<1>2. /\ Expect(programTable[p] = "absent", "insertion")
      /\ \E result \in {"built", "failed"} : programTable' = [programTable EXCEPT ![p] = result]
  BY <1>1 DEF InsertProgram
<1>3. /\ refs' = refs /\ vendor' = vendor /\ queueTable' = queueTable
      /\ kernelTable' = kernelTable /\ refCount' = refCount /\ profile' = profile
      /\ mode' = mode /\ mutex' = mutex /\ busy' = busy /\ Unbar("PT") /\ fault = "none"
  BY DEF InsertProgram, Is
<1>4. p \in Handles /\ CountIsRight(p) /\ p \notin Queues /\ p \notin Kernels
  BY <1>t, ConstantsAssumption DEF ObjectsAreRight, ObjectInv, Handles
<1>5. /\ programTable' \in [Programs -> {"absent", "built", "failed"}]
      /\ \A r \in Programs : r # p => programTable'[r] = programTable[r]
  BY <1>2, <1>t DEF TablesTyped
<1>6. /\ programTable[p] = "absent"
      /\ \A u \in Threads : p \in uses[u] /\ at[u] = "build" => u = t
  BY <1>1, <1>m DEF IInv, BuildIsAlone
<1>7. refs[p] > 0 /\ vendor[p] > 0 /\ ~IsUnlisted(p)
  <2>1. refs[p] > 0
    <3>1. at[t] \notin Marked
      BY <1>m DEF Marked, Owing, Releasing
    <3>2. QED
      BY <1>1, <3>1, CallHolds
  <2>2. QED
    BY <1>4, <1>t, <2>1, OwedIsCounted
<1>p. /\ at[t] \notin {"insert queue", "vendor release"}
      /\ "idle" \notin {"insert queue", "vendor release"}
      /\ at[t] \notin Owing /\ "idle" \notin Owing
  BY <1>m DEF Owing, Releasing
<1>8. ObjectInv(p)'
  <2>1. Cardinality(Pending(p)') = Cardinality(Pending(p))
    BY <1>m, <1>p, <1>t, PendingStays
  <2>2. vendor'[p] = refs'[p] + Cardinality(Pending(p)')
    BY <1>3, <1>4, <2>1 DEF CountIsRight
  <2>3. ~ToOnlyOne("idle", {}, p)
    BY DEF ToOnlyOne
  <2>4. CountIsRight(p)'
    BY <1>3, <1>4, <1>m, <1>t, <2>2, <2>3, CountStep
  <2>5. ~IsUnlisted(p)'
    BY <1>3, <1>7, <1>m, <1>p, <1>t, UnlistedStep
  <2>6. ProgramEntry(p)'
    BY <1>3, <1>7, <2>5 DEF ProgramEntry
  <2>7. QED
    BY <1>4, <2>4, <2>6 DEF ObjectInv
<1>9. ASSUME NEW g \in Handles, g # p PROVE ObjectInv(g)'
  <2>1. g \notin uses[t] /\ g \notin {}
    BY <1>1, <1>9
  <2>2. SameEntry(g)
    BY <1>3, <1>5, <1>9 DEF SameEntry
  <2>3. QED
    BY <1>m, <1>t, <2>1, <2>2, LeftAlone
<1>10. ObjectsAreRight'
  BY <1>8, <1>9 DEF ObjectsAreRight
<1>11. BuildIsAlone'
  <2>1. /\ at'[t] = "idle"
        /\ \A u \in Threads : u # t => at'[u] = at[u] /\ uses'[u] = uses[u]
    BY <1>m, <1>t, Moved
  <2>2. ASSUME NEW u \in Threads, NEW r \in Programs, r \in uses'[u], at'[u] = "build"
        PROVE  /\ programTable'[r] = "absent"
               /\ \A v \in Threads : r \in uses'[v] /\ at'[v] = "build" => v = u
    <3>1. u # t /\ r \in uses[u] /\ at[u] = "build"
      BY <2>1, <2>2
    <3>2. r # p
      BY <1>6, <3>1
    <3>3. programTable[r] = "absent" /\ \A v \in Threads : r \in uses[v] /\ at[v] = "build" => v = u
      BY <3>1 DEF IInv, BuildIsAlone
    <3>4. QED
      BY <1>5, <2>1, <3>2, <3>3
  <2>3. QED
    BY <2>2 DEF BuildIsAlone
<1>12. UsedAreHeld'
  <2>1. UsedAreHeld /\ {} \in SUBSET Handles
    BY DEF IInv
  <2>2. \A h \in Handles : refs[h] > 0 => refs'[h] > 0
    BY <1>3
  <2>3. QED
    BY <1>m, <1>t, <2>1, <2>2, MoveKeepsHeld
<1>13. TablesTyped' /\ LocksTyped' /\ OwnLocks(t)
  BY <1>3, <1>5, <1>t DEF TablesTyped, LocksTyped, OwnLocks, Unbar
<1>14. fault' \in {"none", "freed"}
  BY <1>2, <1>3, <1>6 DEF Expect
<1>15. "idle" \in Phases /\ {} \in SUBSET Handles /\ Fits("idle", {})
  BY DEF Phases, Fits
<1>16. QED
  BY <1>m, <1>10, <1>11, <1>12, <1>13, <1>14, <1>15, StepKeeps

\* clCreateKernel: it returns for a program that was not built, or goes on with the
\* vendor's kernel.
LEMMA CreateKernelKeeps ==
  ASSUME IInv, NEW t \in Threads, CreateKernel(t)
  PROVE  IInv'
<1>t. TablesTyped /\ TypeOK /\ CallsFit /\ ObjectsAreRight /\ LocksTyped
  BY InvTables
<1>1. at[t] = "create kernel" /\ at[t] \notin Marked /\ at[t] \notin {"release", "drop"}
  BY DEF CreateKernel, Is, Marked, Owing, Releasing
<1>2. /\ refs' = refs /\ queueTable' = queueTable /\ programTable' = programTable
      /\ kernelTable' = kernelTable /\ refCount' = refCount /\ profile' = profile
      /\ barred' = barred /\ mutex' = mutex /\ busy' = busy /\ fault' = "none"
  BY DEF CreateKernel, Is, entries
<1>3. CASE Return(t) /\ UNCHANGED <<mode, vendor>>
  <2>1. QuietMove(t, "idle", {})
    BY <1>1, <1>2, <1>3, GoingOnIsQuiet DEF accounts, Phases, Marked, Owing, Releasing
  <2>2. OwnLocks(t) /\ LocksTyped' /\ busy' \subseteq Queues
    BY <1>2, <1>3, InvTypes, UnlockEffects DEF LocksTyped
  <2>3. QED
    BY <1>2, <2>1, <2>2, QuietActionKeeps
<1>4. CASE ~(Return(t) /\ UNCHANGED <<mode, vendor>>)
  <2>u. PICK p \in Programs : uses[t] = {p}
    BY <1>1, <1>t DEF CallsFit, Fits
  <2>1. PICK k \in Kernels :
          /\ vendor[k] = 0 /\ LockShared(t, "PT")
          /\ vendor' = [vendor EXCEPT ![k] = 1]
          /\ Moves(t, "insert kernel", {p, k})
    BY <1>4, <2>u DEF CreateKernel, Goto, Moves
  <2>m. Moves(t, "insert kernel", {p, k})
    BY <2>1
  <2>2. vendor[k] = 0 /\ LockShared(t, "PT") /\ vendor' = [vendor EXCEPT ![k] = 1]
    BY <2>1
  <2>3. /\ vendor'[k] = 1 /\ vendor' \in [Handles -> Nat]
        /\ \A g \in Handles : g # k => vendor'[g] = vendor[g]
    BY <2>2, <1>t DEF TablesTyped, Handles
  <2>4. /\ k \in Handles /\ KernelEntry(k) /\ k \notin Queues /\ k \notin Programs
        /\ p \in Handles /\ p \notin Kernels
    BY <1>t, ConstantsAssumption DEF ObjectsAreRight, ObjectInv, Handles
  <2>5. Solo(t, k, Alone) /\ k \notin kernelTable
    BY <2>2, <2>4, KernelSolo
  <2>6. refs[k] = 0 /\ Dropping(k) = {}
    BY <2>4, <2>5 DEF KernelEntry
  <2>7. ObjectInv(k)'
    <3>1. Dropping(k)' = Dropping(k)
      <4>1. "insert kernel" \notin {"release", "drop"}
        OBVIOUS
      <4>2. QED
        BY <1>1, <1>t, <2>m, <4>1, DroppingCount
    <3>2. k \notin kernelTable' /\ refs'[k] = 0 /\ Dropping(k)' = {}
      BY <1>2, <2>5, <2>6, <3>1
    <3>3. ToAlone("insert kernel", {p, k}, k)
      BY <2>3, <3>2 DEF ToAlone
    <3>4. KernelEntry(k)'
      BY <1>t, <2>m, <2>5, <3>2, <3>3, KernelStep
    <3>5. QED
      BY <2>4, <3>4 DEF ObjectInv
  <2>8. ASSUME NEW g \in Handles, g # k PROVE ObjectInv(g)'
    <3>1. at[t] \notin MarksOf(g)
      BY <1>1 DEF MarksOf, Marked
    <3>2. g \notin {p, k} \/ "insert kernel" \notin MarksOf(g)
      BY <2>4, <2>8 DEF MarksOf, Owing, Releasing
    <3>3. SameEntry(g)
      BY <1>2, <2>3, <2>8 DEF SameEntry
    <3>4. QED
      BY <1>t, <2>m, <3>1, <3>2, <3>3, LeftAlone
  <2>9. ObjectsAreRight'
    BY <2>7, <2>8 DEF ObjectsAreRight
  <2>10. TablesTyped' /\ LocksTyped' /\ OwnLocks(t)
    BY <1>2, <1>t, <2>2, <2>3, LockEffects DEF TablesTyped, LocksTyped, Locks
  <2>11. refs[p] > 0
    BY <1>1, <2>u, CallHolds
  <2>12. /\ "insert kernel" \in Phases /\ {p, k} \in SUBSET Handles
         /\ Fits("insert kernel", {p, k})
    BY <2>4 DEF Phases, Fits
  <2>13. \A h \in {p, k} : refs'[h] > 0 \/ h \in Kernels
    BY <1>2, <2>11
  <2>14. QED
    BY <1>2, <2>m, <2>9, <2>10, <2>12, <2>13, TouchKeeps
<1>5. QED
  BY <1>3, <1>4

\* The kernel gets its entry, and the application its reference.
LEMMA InsertKernelKeeps ==
  ASSUME IInv, NEW t \in Threads, InsertKernel(t)
  PROVE  IInv'
<1>t. TablesTyped /\ TypeOK /\ CallsFit /\ ObjectsAreRight /\ LocksTyped
  BY InvTables
<1>m. Moves(t, "idle", {}) /\ at[t] = "insert kernel"
  BY <1>t, GotoMoves DEF InsertKernel, Is
<1>u. PICK p \in Programs, k \in Kernels : uses[t] = {p, k}
  BY <1>m, <1>t DEF CallsFit, Fits
<1>1. /\ k \in Handles /\ KernelEntry(k) /\ k \notin Queues /\ k \notin Programs
      /\ p \in Handles /\ p \notin Kernels
  BY <1>t, ConstantsAssumption DEF ObjectsAreRight, ObjectInv, Handles
<1>2. /\ Expect(k \notin kernelTable, "insertion")
      /\ kernelTable' = kernelTable \cup {k}
      /\ refCount' = [refCount EXCEPT ![k] = 1]
      /\ profile' = [profile EXCEPT ![k] = p]
      /\ refs' = [refs EXCEPT ![k] = 1]
  <2>1. uses[t] \cap Programs = {p} /\ uses[t] \cap Kernels = {k}
    BY <1>1, <1>u
  <2>2. QED
    BY <2>1 DEF InsertKernel, FirstCount
<1>3. /\ vendor' = vendor /\ queueTable' = queueTable /\ programTable' = programTable
      /\ mutex' = mutex /\ busy' = busy /\ fault = "none"
      /\ mode' = [mode EXCEPT !["PT"][t] = "none"]
      /\ barred' = [barred EXCEPT !["KT"] = FALSE, !["PT"] = @ /\ ~IsFree(t, "PT")]
  BY DEF InsertKernel, Is
<1>4. /\ refs'[k] = 1 /\ refCount'[k] = 1 /\ k \in kernelTable'
      /\ refs' \in [Handles -> Nat] /\ refCount' \in [Kernels -> Nat]
      /\ \A g \in Handles : g # k => refs'[g] = refs[g]
      /\ \A g \in Kernels : g # k => refCount'[g] = refCount[g]
      /\ kernelTable' \subseteq Kernels /\ profile' \in [Kernels -> Programs \cup {NULL}]
      /\ \A g : g # k => (g \in kernelTable' <=> g \in kernelTable)
  BY <1>1, <1>2, <1>t DEF TablesTyped
<1>5. Solo(t, k, Alone) /\ k \notin kernelTable /\ vendor[k] = 1
  <2>1. k \in uses[t]
    BY <1>u
  <2>2. k \notin kernelTable /\ vendor[k] = 1
    BY <1>m, <1>1, <2>1 DEF KernelEntry
  <2>3. Solo(t, k, Alone)
    BY <1>m, <1>1, <2>1, KernelSolo DEF Alone
  <2>4. QED
    BY <2>2, <2>3
<1>6. refs[k] = 0 /\ Dropping(k) = {}
  BY <1>1, <1>5 DEF KernelEntry
<1>7. ObjectInv(k)'
  <2>1. Dropping(k)' = Dropping(k)
    <3>1. "idle" \notin {"release", "drop"} /\ at[t] \notin {"release", "drop"}
      BY <1>m
    <3>2. QED
      BY <1>m, <1>t, <3>1, DroppingCount
  <2>2. Cardinality(Dropping(k)') = 0
    <3>1. {} \in SUBSET Threads
      OBVIOUS
    <3>2. QED
      BY <1>6, <2>1, <3>1, CountOfThreads
  <2>3. vendor'[k] = 1 /\ refCount'[k] = refs'[k] + Cardinality(Dropping(k)')
    BY <1>3, <1>4, <1>5, <2>2
  <2>4. ToAlone("idle", {}, k)
    BY <1>4 DEF ToAlone
  <2>5. KernelEntry(k)'
    BY <1>4, <1>5, <1>m, <1>t, <2>3, <2>4, KernelStep
  <2>6. QED
    BY <1>1, <2>5 DEF ObjectInv
<1>8. ASSUME NEW g \in Handles, g # k PROVE ObjectInv(g)'
  <2>1. g \notin uses[t] \/ at[t] \notin MarksOf(g)
    BY <1>m, <1>u, <1>1, <1>8 DEF MarksOf, Owing, Releasing
  <2>2. SameEntry(g)
    BY <1>3, <1>4, <1>8 DEF SameEntry
  <2>3. g \notin {}
    OBVIOUS
  <2>4. QED
    BY <1>m, <1>t, <2>1, <2>2, <2>3, LeftAlone
<1>9. ObjectsAreRight'
  BY <1>7, <1>8 DEF ObjectsAreRight
<1>10. mode' \in LockModes /\ OwnLocks(t) /\ barred' \in [Locks -> BOOLEAN]
  <2>1. "PT" \in Locks /\ "KT" \in Locks
    BY DEF Locks
  <2>2. Holds(t, "PT", "none")
    BY <1>3 DEF Holds
  <2>3. /\ mode' \in LockModes /\ mode'["PT"][t] = "none"
        /\ \A l \in Locks, u \in Threads : l # "PT" \/ u # t => mode'[l][u] = mode[l][u]
    BY <1>t, <2>1, <2>2, HoldsType
  <2>4. OwnLocks(t)
    BY <2>3 DEF OwnLocks, Strong
  <2>5. barred' \in [Locks -> BOOLEAN]
    BY <1>3, <1>t DEF LocksTyped, IsFree, Others
  <2>6. QED
    BY <2>3, <2>4, <2>5
<1>11. TablesTyped' /\ LocksTyped'
  BY <1>3, <1>4, <1>10, <1>t DEF TablesTyped, LocksTyped
<1>12. fault' \in {"none", "freed"}
  BY <1>2, <1>3, <1>5 DEF Expect
<1>13. \A g \in Handles : refs[g] > 0 => refs'[g] > 0
  BY <1>4
<1>14. \A q \in Programs : programTable[q] = "absent" => programTable'[q] = "absent"
  BY <1>3
<1>15. QED
  BY <1>m, <1>9, <1>10, <1>11, <1>12, <1>13, <1>14, EndKeeps

\* clRetainKernel raises the count of the runtime and the application's together.
LEMMA RetainKernelKeeps ==
  ASSUME IInv, NEW t \in Threads, RetainKernel(t)
  PROVE  IInv'
<1>t. TablesTyped /\ TypeOK /\ CallsFit /\ ObjectsAreRight /\ LocksTyped
  BY InvTables
<1>m. Moves(t, "idle", {}) /\ at[t] = "retain"
  BY <1>t, GotoMoves DEF RetainKernel, Is
<1>u. PICK k \in Kernels : uses[t] = {k}
  BY <1>m, <1>t DEF CallsFit, Fits
<1>1. k \in Handles /\ KernelEntry(k) /\ k \notin Queues /\ k \notin Programs
  BY <1>t, ConstantsAssumption DEF ObjectsAreRight, ObjectInv, Handles
<1>2. /\ refCount' = [refCount EXCEPT ![k] = @ + 1]
      /\ refs' = [refs EXCEPT ![k] = @ + 1]
  BY <1>u DEF RetainKernel, Retained
<1>3. /\ vendor' = vendor /\ queueTable' = queueTable /\ programTable' = programTable
      /\ kernelTable' = kernelTable /\ profile' = profile
      /\ mutex' = mutex /\ busy' = busy /\ fault' = "none" /\ UnlockAll(t)
  BY DEF RetainKernel, Is
<1>n. refs[k] \in Nat /\ refCount[k] \in Nat
  BY <1>1, <1>t DEF TablesTyped
<1>4. /\ refs'[k] = refs[k] + 1 /\ refCount'[k] = refCount[k] + 1
      /\ refs' \in [Handles -> Nat] /\ refCount' \in [Kernels -> Nat]
      /\ \A g \in Handles : g # k => refs'[g] = refs[g]
      /\ \A g \in Kernels : g # k => refCount'[g] = refCount[g]
  BY <1>1, <1>2, <1>t DEF TablesTyped
<1>5. k \in kernelTable /\ vendor[k] = 1 /\ refs[k] > 0 /\ refCount[k] >= refs[k]
  <2>1. at[t] \notin Marked
    BY <1>m DEF Marked, Owing, Releasing
  <2>2. refs[k] > 0
    BY <1>u, <2>1, CallHolds
  <2>3. QED
    BY <1>1, <1>t, <2>2, HeldIsListed
<1>6. Solo(t, k, Alone)
  <2>1. refCount[k] # 0
    BY <1>5, <1>n
  <2>2. QED
    BY <1>1, <1>5, <2>1, KernelSolo
<1>7. ObjectInv(k)'
  <2>1. Dropping(k)' = Dropping(k)
    <3>1. "idle" \notin {"release", "drop"} /\ at[t] \notin {"release", "drop"}
      BY <1>m
    <3>2. QED
      BY <1>m, <1>t, <3>1, DroppingCount
  <2>2. refCount'[k] = refs'[k] + Cardinality(Dropping(k)')
    <3>1. refCount[k] = refs[k] + Cardinality(Dropping(k))
      BY <1>1, <1>5 DEF KernelEntry
    <3>2. Cardinality(Dropping(k)) \in Nat /\ Cardinality(Dropping(k)') = Cardinality(Dropping(k))
      BY <2>1, <1>m, <1>t, MovedCounts
    <3>3. QED
      BY <1>4, <1>n, <3>1, <3>2
  <2>3. refCount'[k] # 0
    BY <1>4, <1>n
  <2>4. ToAlone("idle", {}, k)
    BY <2>3 DEF ToAlone
  <2>5. k \in kernelTable' /\ vendor'[k] = 1
    BY <1>3, <1>5
  <2>6. KernelEntry(k)'
    BY <1>6, <1>m, <1>t, <2>2, <2>4, <2>5, KernelStep
  <2>7. QED
    BY <1>1, <2>6 DEF ObjectInv
<1>8. ASSUME NEW g \in Handles, g # k PROVE ObjectInv(g)'
  <2>1. g \notin uses[t] /\ g \notin {}
    BY <1>u, <1>8
  <2>2. SameEntry(g)
    BY <1>3, <1>4, <1>8 DEF SameEntry
  <2>3. QED
    BY <1>m, <1>t, <2>1, <2>2, LeftAlone
<1>9. ObjectsAreRight'
  BY <1>7, <1>8 DEF ObjectsAreRight
<1>10. TablesTyped' /\ LocksTyped' /\ OwnLocks(t)
  BY <1>3, <1>4, <1>t, UnlockEffects DEF TablesTyped, LocksTyped
<1>11. \A g \in Handles : refs[g] > 0 => refs'[g] > 0
  BY <1>4, <1>n
<1>12. "idle" \in Phases /\ {} \in SUBSET Handles /\ Fits("idle", {})
  BY DEF Phases, Fits
<1>13. QED
  BY <1>m, <1>3, <1>9, <1>10, <1>11, <1>12, TouchKeeps

\* A call with a kernel's count to lower finds the kernel, and has its share counted.
LEMMA DroppingIsCounted ==
  ASSUME TypeOK, NEW k \in Kernels, KernelEntry(k), NEW t \in Threads,
         k \in uses[t], at[t] \in {"release", "drop"}
  PROVE  /\ k \in kernelTable /\ vendor[k] = 1 /\ Solo(t, k, Alone)
         /\ refCount[k] = refs[k] + Cardinality(Dropping(k))
         /\ Cardinality(Dropping(k)) \in Nat /\ Cardinality(Dropping(k)) >= 1
         /\ refCount[k] \in Nat /\ refs[k] \in Nat /\ refCount[k] >= 1
<1>1. t \in Dropping(k) /\ Dropping(k) \in SUBSET Threads
  BY DEF Dropping
<1>2. k \in kernelTable
  BY <1>1 DEF KernelEntry
<1>3. vendor[k] = 1 /\ refCount[k] = refs[k] + Cardinality(Dropping(k))
  BY <1>2 DEF KernelEntry
<1>4. Cardinality(Dropping(k)) \in Nat /\ Cardinality(Dropping(k)) >= 1
  BY <1>1, CountOfThreads
<1>5. refCount[k] \in Nat /\ refs[k] \in Nat
  BY DEF TypeOK, Handles
<1>6. refCount[k] >= 1 /\ refCount[k] # 0
  BY <1>3, <1>4, <1>5
<1>7. Solo(t, k, Alone)
  BY <1>2, <1>6, KernelSolo
<1>8. QED
  BY <1>2, <1>3, <1>4, <1>5, <1>6, <1>7

\* clReleaseKernel looks its kernel up.
LEMMA FindToReleaseKeeps ==
  ASSUME IInv, NEW t \in Threads, FindToRelease(t)
  PROVE  IInv'
<1>t. TablesTyped /\ TypeOK /\ CallsFit /\ ObjectsAreRight /\ LocksTyped
  BY InvTables
<1>1. at[t] = "release" /\ uses[t] \subseteq Kernels
  BY DEF FindToRelease, Is
<1>2. PICK k \in Kernels : uses[t] = {k}
  BY <1>1, <1>t DEF CallsFit, Fits
<1>m. Moves(t, "drop", {k}) /\ at[t] \in {"release", "drop"} /\ k \in uses[t]
  BY <1>1, <1>2, <1>t, GotoMoves DEF FindToRelease
<1>3. /\ refs' = refs /\ vendor' = vendor /\ queueTable' = queueTable
      /\ programTable' = programTable /\ kernelTable' = kernelTable
      /\ refCount' = refCount /\ profile' = profile /\ barred' = barred
      /\ mutex' = mutex /\ busy' = busy
  BY DEF FindToRelease, entries
<1>4. k \in Handles /\ KernelEntry(k) /\ k \notin Queues /\ k \notin Programs
  BY <1>t, ConstantsAssumption DEF ObjectsAreRight, ObjectInv, Handles
<1>5. /\ k \in kernelTable /\ vendor[k] = 1 /\ Solo(t, k, Alone)
      /\ refCount[k] = refs[k] + Cardinality(Dropping(k))
      /\ refCount[k] \in Nat /\ refCount[k] >= 1
  BY <1>4, <1>m, <1>t, DroppingIsCounted
<1>6. ObjectInv(k)'
  <2>1. Cardinality(Dropping(k)') = Cardinality(Dropping(k))
    <3>1. k \in {k} /\ "drop" \in {"release", "drop"}
      OBVIOUS
    <3>2. QED
      BY <1>m, <1>t, <3>1, DroppingCount
  <2>2. k \in kernelTable' /\ vendor'[k] = 1 /\ refCount'[k] = refs'[k] + Cardinality(Dropping(k)')
    BY <1>3, <1>5, <2>1
  <2>3. refCount'[k] # 0
    BY <1>3, <1>5
  <2>4. ToAlone("drop", {k}, k)
    BY <2>3 DEF ToAlone
  <2>5. KernelEntry(k)'
    BY <1>5, <1>m, <1>t, <2>2, <2>4, KernelStep
  <2>6. QED
    BY <1>4, <2>5 DEF ObjectInv
<1>7. ASSUME NEW g \in Handles, g # k PROVE ObjectInv(g)'
  <2>1. g \notin uses[t] /\ g \notin {k}
    BY <1>2, <1>7
  <2>2. SameEntry(g)
    BY <1>3 DEF SameEntry
  <2>3. QED
    BY <1>m, <1>t, <2>1, <2>2, LeftAlone
<1>8. ObjectsAreRight'
  BY <1>6, <1>7 DEF ObjectsAreRight
<1>9. TablesTyped' /\ LocksTyped' /\ OwnLocks(t)
  <2>1. LockUpgrade(t, "KT") /\ "KT" \in Locks
    BY DEF FindToRelease, Locks
  <2>2. QED
    BY <1>3, <1>t, <2>1, LockEffects DEF TablesTyped, LocksTyped
<1>10. fault' \in {"none", "freed"}
  BY <1>2, <1>5 DEF FindToRelease, Is, Expect
<1>11. "drop" \in Phases /\ {k} \in SUBSET Handles /\ Fits("drop", {k}) /\ "drop" \in Owing
  BY <1>4 DEF Phases, Fits, Owing, Releasing
<1>12. QED
  BY <1>m, <1>3, <1>8, <1>9, <1>10, <1>11, TouchKeeps

\* It lowers the count, and goes on to erase the entry if that was the last of it.
LEMMA DropReferenceKeeps ==
  ASSUME IInv, NEW t \in Threads, DropReference(t)
  PROVE  IInv'
<1>t. TablesTyped /\ TypeOK /\ CallsFit /\ ObjectsAreRight /\ LocksTyped
  BY InvTables
<1>1. at[t] = "drop"
  BY DEF DropReference, Is
<1>2. PICK k \in Kernels : uses[t] = {k}
  BY <1>1, <1>t DEF CallsFit, Fits
<1>u. at[t] \in {"release", "drop"} /\ k \in uses[t]
  BY <1>1, <1>2
<1>3. /\ refs' = refs /\ vendor' = vendor /\ queueTable' = queueTable
      /\ programTable' = programTable /\ kernelTable' = kernelTable
      /\ profile' = profile /\ busy' = busy /\ fault' = "none"
      /\ refCount' = [refCount EXCEPT ![k] = @ - 1]
  BY <1>2 DEF DropReference, Is
<1>4. k \in Handles /\ KernelEntry(k) /\ k \notin Queues /\ k \notin Programs
  BY <1>t, ConstantsAssumption DEF ObjectsAreRight, ObjectInv, Handles
<1>5. /\ k \in kernelTable /\ vendor[k] = 1 /\ Solo(t, k, Alone)
      /\ refCount[k] = refs[k] + Cardinality(Dropping(k))
      /\ Cardinality(Dropping(k)) \in Nat /\ Cardinality(Dropping(k)) >= 1
      /\ refCount[k] \in Nat /\ refs[k] \in Nat /\ refCount[k] >= 1
  BY <1>4, <1>u, <1>t, DroppingIsCounted
<1>6. /\ refCount'[k] = refCount[k] - 1 /\ refCount' \in [Kernels -> Nat]
      /\ \A g \in Kernels : g # k => refCount'[g] = refCount[g]
  BY <1>3, <1>5, <1>t DEF TablesTyped
<1>7. ASSUME NEW s \in {"idle", "erase"}, NEW X \in SUBSET {k}, Moves(t, s, X),
             ToAlone(s, X, k)
      PROVE  ObjectsAreRight'
  <2>1. Cardinality(Dropping(k)') = Cardinality(Dropping(k)) - 1
    <3>1. s \notin {"release", "drop"}
      BY <1>7
    <3>2. QED
      BY <1>7, <1>u, <1>t, <3>1, DroppingCount
  <2>2. k \in kernelTable' /\ vendor'[k] = 1 /\ refCount'[k] = refs'[k] + Cardinality(Dropping(k)')
    BY <1>3, <1>5, <1>6, <2>1
  <2>3. KernelEntry(k)'
    BY <1>5, <1>7, <1>t, <2>2, KernelStep
  <2>4. ObjectInv(k)'
    BY <1>4, <2>3 DEF ObjectInv
  <2>5. ASSUME NEW g \in Handles, g # k PROVE ObjectInv(g)'
    <3>1. g \notin uses[t] /\ g \notin X
      BY <1>2, <1>7, <2>5
    <3>2. SameEntry(g)
      BY <1>3, <1>6, <2>5 DEF SameEntry
    <3>3. QED
      BY <1>7, <1>t, <3>1, <3>2, LeftAlone
  <2>6. QED
    BY <2>4, <2>5 DEF ObjectsAreRight
<1>8. \A g \in Handles : refs[g] > 0 => refs'[g] > 0
  BY <1>3
<1>9. CASE refCount[k] > 1
  <2>1. UnlockAll(t) /\ Return(t) /\ mutex' = mutex
    BY <1>2, <1>5, <1>9 DEF DropReference
  <2>2. Moves(t, "idle", {})
    BY <1>t, <2>1, GotoMoves
  <2>3. ToAlone("idle", {}, k)
    <3>1. refCount'[k] # 0
      BY <1>5, <1>6, <1>9
    <3>2. QED
      BY <3>1 DEF ToAlone
  <2>4. ObjectsAreRight'
    <3>1. {} \in SUBSET {k} /\ "idle" \in {"idle", "erase"}
      OBVIOUS
    <3>2. QED
      BY <1>7, <2>2, <2>3, <3>1
  <2>5. TablesTyped' /\ LocksTyped' /\ OwnLocks(t)
    BY <1>3, <1>6, <1>t, <2>1, UnlockEffects DEF TablesTyped, LocksTyped
  <2>6. "idle" \in Phases /\ {} \in SUBSET Handles /\ Fits("idle", {})
    BY DEF Phases, Fits
  <2>7. QED
    BY <1>3, <1>8, <2>2, <2>4, <2>5, <2>6, TouchKeeps
<1>10. CASE ~(refCount[k] > 1)
  <2>1. /\ mutex' = [mutex EXCEPT ![k] = t] /\ Goto(t, "erase")
        /\ mode' = mode /\ barred' = barred /\ uses' = uses
    BY <1>2, <1>10 DEF DropReference
  <2>2. Moves(t, "erase", {k})
    BY <1>2, <1>t, <2>1, GotoMoves
  <2>3. ToAlone("erase", {k}, k)
    <3>1. refCount'[k] = 0 /\ k \in kernelTable'
      BY <1>3, <1>5, <1>6, <1>10
    <3>2. QED
      BY <3>1 DEF ToAlone
  <2>4. ObjectsAreRight'
    <3>1. {k} \in SUBSET {k} /\ "erase" \in {"idle", "erase"}
      OBVIOUS
    <3>2. QED
      BY <1>7, <2>2, <2>3, <3>1
  <2>5. TablesTyped' /\ LocksTyped' /\ OwnLocks(t)
    <3>1. mutex' \in [Queues \cup Kernels \cup {"QT", "PT"} -> Threads \cup {NULL}]
      BY <1>t, <2>1, MutexType
    <3>2. QED
      BY <1>3, <1>6, <1>t, <2>1, <3>1, UnlockEffects DEF TablesTyped, LocksTyped
  <2>6. /\ "erase" \in Phases /\ {k} \in SUBSET Handles /\ Fits("erase", {k})
        /\ "erase" \in Owing /\ {k} \ Kernels = {}
    BY <1>4 DEF Phases, Fits, Owing, Releasing
  <2>7. QED
    BY <1>3, <1>8, <2>2, <2>4, <2>5, <2>6, TouchKeeps
<1>11. QED
  BY <1>9, <1>10

\* The entry goes; with it the last of the application's interest, for the call that
\* erases has the only reference.
LEMMA EraseKeeps ==
  ASSUME IInv, NEW t \in Threads, Erase(t)
  PROVE  IInv'
<1>t. TablesTyped /\ TypeOK /\ CallsFit /\ ObjectsAreRight /\ LocksTyped
  BY InvTables
<1>1. at[t] = "erase" /\ Goto(t, "vendor release")
  BY DEF Erase, Is
<1>2. PICK h \in Handles : uses[t] = {h}
  BY <1>1, <1>t DEF CallsFit, Fits
<1>e. /\ MayRise(t, TableOf(h))
      /\ queueTable' = queueTable \ {h} /\ kernelTable' = kernelTable \ {h}
      /\ programTable' = [p \in Programs |-> IF p = h THEN "absent" ELSE programTable[p]]
      /\ profile' = [k \in Kernels |-> IF profile[k] = h THEN NULL ELSE profile[k]]
      /\ \/ h \in Kernels /\ Holds(t, "KT", "unique") /\ UnlockMutexes(t) /\ UNCHANGED barred
         \/ h \notin Kernels /\ Unbar(TableOf(h)) /\ UNCHANGED <<mode, mutex>>
  <2>1. \A g \in uses[t] : g = h
    BY <1>2
  <2>2. QED
    BY <2>1, Zenon DEF Erase
<1>3. /\ queueTable' = queueTable \ {h} /\ kernelTable' = kernelTable \ {h}
      /\ programTable' = [p \in Programs |-> IF p = h THEN "absent" ELSE programTable[p]]
      /\ profile' = [k \in Kernels |-> IF profile[k] = h THEN NULL ELSE profile[k]]
  BY <1>e
<1>4. /\ MayRise(t, TableOf(h))
      /\ \/ h \in Kernels /\ Holds(t, "KT", "unique") /\ UnlockMutexes(t) /\ UNCHANGED barred
         \/ h \notin Kernels /\ Unbar(TableOf(h)) /\ UNCHANGED <<mode, mutex>>
  BY <1>e
<1>5. /\ refs' = refs /\ vendor' = vendor /\ refCount' = refCount /\ uses' = uses
      /\ busy' = busy /\ fault' = "none"
  BY DEF Erase, Is
<1>m. Moves(t, "vendor release", {h})
  BY <1>1, <1>2, <1>5, <1>t, GotoMoves
<1>6. /\ queueTable' \subseteq Queues /\ kernelTable' \subseteq Kernels
      /\ programTable' \in [Programs -> {"absent", "built", "failed"}]
      /\ profile' \in [Kernels -> Programs \cup {NULL}]
      /\ \A p \in Programs : programTable'[p] = IF p = h THEN "absent" ELSE programTable[p]
      /\ h \notin queueTable' /\ h \notin kernelTable'
  BY <1>3, <1>t DEF TablesTyped
<1>7. /\ ObjectInv(h) /\ (h \in Queues => h \notin Programs /\ h \notin Kernels)
      /\ (h \in Programs => h \notin Queues /\ h \notin Kernels)
      /\ (h \in Kernels => h \notin Queues /\ h \notin Programs)
  BY <1>t, ConstantsAssumption DEF ObjectsAreRight
<1>u. h \in uses[t]
  BY <1>2
<1>8. ASSUME h \in Queues \cup Programs PROVE ObjectInv(h)'
  <2>1. CountIsRight(h)
    BY <1>7, <1>8 DEF ObjectInv
  <2>2. vendor[h] = 1
    BY <1>1, <1>u, <2>1 DEF CountIsRight
  <2>3. Cardinality(Pending(h)') = Cardinality(Pending(h))
    <3>1. (h \in uses[t] /\ at[t] \in Owing) /\ h \in {h} /\ "vendor release" \in Owing
      BY <1>1, <1>u DEF Owing, Releasing
    <3>2. QED
      BY <1>m, <1>t, <3>1, PendingCount
  <2>4. vendor'[h] = refs'[h] + Cardinality(Pending(h)')
    BY <1>5, <2>1, <2>3 DEF CountIsRight
  <2>5. ~ToOnlyOne("vendor release", {h}, h)
    BY DEF ToOnlyOne, OnlyOne
  <2>6. CountIsRight(h)'
    BY <1>5, <1>m, <1>t, <2>1, <2>4, <2>5, CountStep
  <2>7. h \in Queues => QueueEntry(h)'
    <3>1. at'[t] = "vendor release" /\ uses'[t] = {h}
      BY <1>m, <1>t, Moved
    <3>2. IsUnlisted(h)'
      BY <1>5, <2>2, <3>1 DEF IsUnlisted
    <3>3. h \notin queueTable'
      BY <1>6
    <3>4. QED
      BY <3>2, <3>3 DEF QueueEntry
  <2>8. h \in Programs => ProgramEntry(h)'
    BY <1>6 DEF ProgramEntry
  <2>9. QED
    BY <1>7, <1>8, <2>6, <2>7, <2>8 DEF ObjectInv
<1>9. ASSUME h \in Kernels PROVE ObjectInv(h)'
  <2>1. KernelEntry(h)
    BY <1>7, <1>9 DEF ObjectInv
  <2>2. h \in kernelTable /\ refCount[h] = 0
    BY <1>1, <1>u, <2>1 DEF KernelEntry
  <2>3. vendor[h] = 1 /\ refCount[h] = refs[h] + Cardinality(Dropping(h))
    BY <2>1, <2>2 DEF KernelEntry
  <2>4. Solo(t, h, Alone)
    BY <1>1, <1>9, <1>u, <2>1, KernelSolo DEF Alone
  <2>5. Dropping(h)' = Dropping(h) /\ Cardinality(Dropping(h)) \in Nat
    <3>1. at[t] \notin {"release", "drop"} /\ "vendor release" \notin {"release", "drop"}
      BY <1>1
    <3>2. QED
      BY <1>m, <1>t, <3>1, DroppingCount
  <2>6. refs[h] = 0 /\ Dropping(h) = {}
    <3>1. refs[h] \in Nat
      BY <1>t DEF TablesTyped
    <3>2. refs[h] = 0 /\ Cardinality(Dropping(h)) = 0
      BY <2>2, <2>3, <2>5, <3>1
    <3>3. Dropping(h) \in SUBSET Threads
      BY DEF Dropping
    <3>4. QED
      BY <3>2, <3>3, CountOfThreads
  <2>7. ToAlone("vendor release", {h}, h)
    BY <1>5, <1>6, <2>3 DEF ToAlone
  <2>8. refs'[h] = 0 /\ Dropping(h)' = {}
    BY <1>5, <2>5, <2>6
  <2>9. KernelEntry(h)'
    BY <1>6, <1>9, <1>m, <1>t, <2>4, <2>7, <2>8, KernelStep
  <2>10. QED
    BY <1>7, <1>9, <2>9 DEF ObjectInv
<1>10. ASSUME NEW g \in Handles, g # h PROVE ObjectInv(g)'
  <2>1. g \notin uses[t] /\ g \notin {h}
    BY <1>2, <1>10
  <2>2. SameEntry(g)
    BY <1>3, <1>5, <1>6, <1>10 DEF SameEntry
  <2>3. QED
    BY <1>m, <1>t, <2>1, <2>2, LeftAlone
<1>11. ObjectsAreRight'
  BY <1>8, <1>9, <1>10 DEF ObjectsAreRight, Handles
<1>12. /\ OwnLocks(t) /\ LocksTyped'
       /\ h \notin Kernels => mode'[TableOf(h)][t] \in Strong
  <2>1. CASE h \in Kernels
    <3>1. MayRise(t, "KT") /\ Holds(t, "KT", "unique") /\ UnlockMutexes(t) /\ barred' = barred
      BY <1>4, <1>7, <2>1 DEF TableOf
    <3>2. "KT" \in Locks
      BY DEF Locks
    <3>3. OwnLocks(t) /\ mode' \in LockModes
      BY <1>t, <3>1, <3>2, LockEffects
    <3>4. QED
      BY <1>t, <2>1, <3>1, <3>3, UnlockEffects DEF LocksTyped
  <2>2. CASE h \notin Kernels
    <3>1. Unbar(TableOf(h)) /\ mode' = mode /\ mutex' = mutex
      BY <1>4, <2>2
    <3>2. mode[TableOf(h)][t] \in Strong
      BY <1>1, <1>u, <2>2 DEF IInv, ReleaseIsStrong
    <3>3. barred' \in [Locks -> BOOLEAN]
      BY <1>t, <3>1 DEF Unbar, LocksTyped
    <3>4. OwnLocks(t)
      BY <1>t, <3>1, UnlockEffects
    <3>5. mode'[TableOf(h)][t] \in Strong
      BY <3>1, <3>2
    <3>6. QED
      BY <1>t, <3>1, <3>3, <3>4, <3>5 DEF LocksTyped
  <2>3. QED
    BY <2>1, <2>2
<1>13. TablesTyped'
  BY <1>5, <1>6, <1>t DEF TablesTyped
<1>14. \A g \in {h} \ Kernels : mode'[TableOf(g)][t] \in Strong
  BY <1>12
<1>15. /\ "vendor release" \in Phases /\ {h} \in SUBSET Handles /\ Fits("vendor release", {h})
       /\ "vendor release" \in Owing
  BY DEF Phases, Fits, Owing, Releasing
<1>16. /\ \A g \in Handles : refs[g] > 0 => refs'[g] > 0
       /\ \A p \in Programs : programTable[p] = "absent" => programTable'[p] = "absent"
  BY <1>5, <1>6
<1>17. QED
  BY <1>m, <1>5, <1>11, <1>12, <1>13, <1>14, <1>15, <1>16, TouchKeeps

\* The call gives the vendor's reference back, and the locks.
LEMMA VendorReleaseKeeps ==
  ASSUME IInv, NEW t \in Threads, VendorRelease(t)
  PROVE  IInv'
<1>t. TablesTyped /\ TypeOK /\ CallsFit /\ ObjectsAreRight /\ LocksTyped
  BY InvTables
<1>m. Moves(t, "idle", {}) /\ at[t] = "vendor release"
  BY <1>t, GotoMoves DEF VendorRelease, Is
<1>1. PICK h \in Handles : uses[t] = {h}
  BY <1>m, <1>t DEF CallsFit, Fits
<1>u. h \in uses[t]
  BY <1>1
<1>2. /\ refs' = refs /\ queueTable' = queueTable /\ programTable' = programTable
      /\ kernelTable' = kernelTable /\ refCount' = refCount /\ profile' = profile
      /\ busy' = busy /\ fault' = "none" /\ UnlockMutexes(t) /\ UnlockAll(t)
  BY DEF VendorRelease, Is, entries
<1>3. \A g \in Handles : vendor'[g] = vendor[g] - (IF g \in {h} THEN 1 ELSE 0)
  BY <1>1 DEF VendorRelease
<1>4. /\ vendor[h] \in Nat /\ vendor'[h] = vendor[h] - 1
      /\ \A g \in Handles : g # h => vendor'[g] = vendor[g]
  BY <1>3, <1>t DEF TablesTyped
<1>5. /\ ObjectInv(h) /\ (h \in Queues => h \notin Programs /\ h \notin Kernels)
      /\ (h \in Programs => h \notin Queues /\ h \notin Kernels)
      /\ (h \in Kernels => h \notin Queues /\ h \notin Programs)
  BY <1>t, ConstantsAssumption DEF ObjectsAreRight
<1>6. ASSUME h \in Queues \cup Programs PROVE vendor[h] >= 1 /\ ObjectInv(h)'
  <2>1. CountIsRight(h)
    BY <1>5, <1>6 DEF ObjectInv
  <2>2. t \in Pending(h)
    BY <1>m, <1>u DEF Pending, Owing, Releasing
  <2>3. vendor[h] >= 1 /\ (vendor[h] = 1 => Pending(h) = {t})
    BY <1>6, <1>t, <2>1, <2>2, OwedIsCounted
  <2>4. /\ Cardinality(Pending(h)') = Cardinality(Pending(h)) - 1
        /\ Cardinality(Pending(h)) \in Nat
    <3>1. h \in uses[t] /\ at[t] \in Owing /\ "idle" \notin Owing
      BY <1>m, <1>u DEF Owing, Releasing
    <3>2. QED
      BY <1>m, <1>t, <3>1, PendingCount
  <2>5. vendor'[h] = refs'[h] + Cardinality(Pending(h)')
    <3>1. vendor[h] = refs[h] + Cardinality(Pending(h)) /\ refs[h] \in Nat
      BY <1>t, <2>1 DEF CountIsRight, TablesTyped
    <3>2. QED
      BY <1>2, <1>4, <2>4, <3>1
  <2>6. Solo(t, h, OnlyOne)
    <3>1. ASSUME NEW u \in Threads, u # t, h \in uses[u], at[u] \in OnlyOne PROVE FALSE
      <4>1. u \in Pending(h)
        BY <3>1 DEF Pending, Owing, Releasing, OnlyOne
      <4>2. vendor[h] = 1
        BY <2>1, <3>1 DEF CountIsRight, OnlyOne
      <4>3. QED
        BY <2>3, <3>1, <4>1, <4>2
    <3>2. QED
      BY <3>1 DEF Solo
  <2>7. ~ToOnlyOne("idle", {}, h)
    BY DEF ToOnlyOne
  <2>8. CountIsRight(h)'
    BY <1>m, <1>t, <2>1, <2>5, <2>6, <2>7, CountStep
  <2>9. ~IsUnlisted(h)'
    <3>1. /\ at'[t] = "idle" /\ uses'[t] = {}
          /\ \A u \in Threads : u # t => at'[u] = at[u] /\ uses'[u] = uses[u]
      BY <1>m, <1>t, Moved
    <3>2. ASSUME NEW u \in Threads, h \in uses'[u], at'[u] \in {"insert queue", "vendor release"}
          PROVE  FALSE
      <4>1. u # t /\ h \in uses[u] /\ at[u] \in {"insert queue", "vendor release"}
        BY <3>1, <3>2
      <4>2. at[u] = "vendor release"
        BY <2>6, <4>1 DEF Solo, OnlyOne
      <4>3. h \notin Kernels /\ TableOf(h) \in Locks
        BY <1>5, <1>6 DEF TableOf, Locks
      <4>4. mode[TableOf(h)][t] \in Strong /\ mode[TableOf(h)][u] \in Strong
        BY <1>m, <1>u, <4>1, <4>2, <4>3 DEF IInv, ReleaseIsStrong
      <4>5. QED
        BY <4>1, <4>3, <4>4 DEF IInv, OneIsStrong
    <3>3. QED
      BY <3>2 DEF IsUnlisted
  <2>10. vendor[h] = 1 <=> IsUnlisted(h)
    BY <1>m, <1>u DEF IsUnlisted
  <2>11. vendor'[h] > 0 <=> vendor[h] > 0 /\ ~IsUnlisted(h)
    <3>1. vendor'[h] > 0 <=> vendor[h] # 1
      BY <1>4, <2>3
    <3>2. vendor[h] > 0
      BY <1>4, <2>3
    <3>3. QED
      BY <2>10, <3>1, <3>2
  <2>12. (h \in Queues => QueueEntry(h)') /\ (h \in Programs => ProgramEntry(h)')
    BY <1>2, <1>5, <2>9, <2>11 DEF QueueEntry, ProgramEntry, ObjectInv
  <2>13. QED
    BY <1>5, <1>6, <2>3, <2>8, <2>12 DEF ObjectInv
<1>7. ASSUME h \in Kernels PROVE vendor[h] >= 1 /\ ObjectInv(h)'
  <2>1. KernelEntry(h)
    BY <1>5, <1>7 DEF ObjectInv
  <2>2. h \notin kernelTable /\ vendor[h] = 1
    BY <1>m, <1>u, <2>1 DEF KernelEntry
  <2>3. Solo(t, h, Alone)
    BY <1>m, <1>7, <1>u, <2>1, KernelSolo DEF Alone
  <2>4. Dropping(h)' = Dropping(h)
    <3>1. at[t] \notin {"release", "drop"} /\ "idle" \notin {"release", "drop"}
      BY <1>m
    <3>2. QED
      BY <1>m, <1>t, <3>1, DroppingCount
  <2>5. h \notin kernelTable' /\ refs'[h] = 0 /\ Dropping(h)' = {}
    <3>1. refs[h] = 0 /\ Dropping(h) = {}
      BY <2>1, <2>2 DEF KernelEntry
    <3>2. QED
      BY <1>2, <2>2, <2>4, <3>1
  <2>6. ToAlone("idle", {}, h)
    BY <2>5 DEF ToAlone
  <2>7. KernelEntry(h)'
    BY <1>7, <1>m, <1>t, <2>3, <2>5, <2>6, KernelStep
  <2>8. vendor[h] >= 1
    BY <2>2
  <2>9. QED
    BY <1>5, <1>7, <2>7, <2>8 DEF ObjectInv
<1>8. ASSUME NEW g \in Handles, g # h PROVE ObjectInv(g)'
  <2>1. g \notin uses[t] /\ g \notin {}
    BY <1>1, <1>8
  <2>2. vendor'[g] = vendor[g]
    BY <1>4, <1>8
  <2>3. SameEntry(g)
    <3>1. /\ refs' = refs /\ queueTable' = queueTable /\ programTable' = programTable
          /\ kernelTable' = kernelTable /\ refCount' = refCount
      BY <1>2
    <3>2. QED
      BY <2>2, <3>1 DEF SameEntry
  <2>4. Moves(t, "idle", {}) /\ TypeOK /\ CallsFit /\ ObjectsAreRight
    BY <1>m, <1>t
  <2>5. QED
    BY <2>1, <2>3, <2>4, LeftAlone
<1>9. ObjectsAreRight' /\ vendor[h] >= 1
  BY <1>6, <1>7, <1>8 DEF ObjectsAreRight, Handles
<1>10. vendor' \in [Handles -> Nat]
  <2>1. \A g \in Handles : vendor'[g] \in Nat
    BY <1>4, <1>9, <1>t DEF TablesTyped
  <2>2. vendor' = [g \in Handles |-> vendor'[g]]
    BY DEF VendorRelease
  <2>3. QED
    BY <2>1, <2>2
<1>11. TablesTyped' /\ LocksTyped' /\ OwnLocks(t)
  BY <1>2, <1>10, <1>t, UnlockEffects DEF TablesTyped, LocksTyped
<1>12. \A g \in Handles : refs[g] > 0 => refs'[g] > 0
  BY <1>2
<1>13. "idle" \in Phases /\ {} \in SUBSET Handles /\ Fits("idle", {})
  BY DEF Phases, Fits
<1>14. QED
  BY <1>m, <1>2, <1>9, <1>11, <1>12, <1>13, TouchKeeps

-----------------------------------------------------------------------------
(* The invariant holds.                                                     *)

\* Steps that change no more than what keeps readers out, or which queues wait for a
\* kernel.
LEMMA WaitingKeeps ==
  ASSUME IInv,
         UNCHANGED <<refs, vendor, entries, mode, mutex, at, uses, fault>>,
         barred' \in [Locks -> BOOLEAN], busy' \subseteq Queues
  PROVE  IInv'
<1>t. TablesTyped /\ TypeOK /\ CallsFit /\ ObjectsAreRight /\ LocksTyped
  BY InvTables
<1>1. /\ refs' = refs /\ vendor' = vendor /\ queueTable' = queueTable
      /\ programTable' = programTable /\ kernelTable' = kernelTable
      /\ refCount' = refCount /\ profile' = profile /\ mode' = mode /\ mutex' = mutex
      /\ at' = at /\ uses' = uses /\ fault' = fault
  BY DEF entries
<1>2. ObjectsAreRight'
  <2>1. ASSUME NEW h \in Handles PROVE Untouched(h)
    BY <1>1 DEF Untouched, SameEntry
  <2>2. QED
    BY <1>t, <2>1, UntouchedIsRight DEF ObjectsAreRight
<1>3. TypeOK' /\ LegalCallsSucceed'
  BY <1>1 DEF IInv, TypeOK, LegalCallsSucceed
<1>4. CallsFit' /\ UsedAreHeld' /\ BuildIsAlone'
  <2>1. CallsFit'
    <3>1. at' = at /\ uses' = uses
      BY <1>1
    <3>2. QED
      BY <1>t, <3>1 DEF CallsFit
  <2>2. UsedAreHeld'
    BY <1>1 DEF IInv, UsedAreHeld
  <2>3. BuildIsAlone'
    BY <1>1 DEF IInv, BuildIsAlone
  <2>4. QED
    BY <2>1, <2>2, <2>3
<1>5. OneIsStrong' /\ ReleaseIsStrong'
  BY <1>1 DEF IInv, OneIsStrong, ReleaseIsStrong, TableOf
<1>6. QED
  BY <1>2, <1>3, <1>4, <1>5 DEF IInv

\* At first there are no objects and no calls.
LEMMA IInit == Init => IInv
<1> SUFFICES ASSUME Init PROVE IInv
  OBVIOUS
<1>1. TypeOK /\ LegalCallsSucceed /\ CallsFit
  BY DEF Init, TypeOK, LegalCallsSucceed, CallsFit, Fits, Phases, Handles, Locks
<1>2. \A t \in Threads : at[t] = "idle" /\ uses[t] = {}
  BY DEF Init
<1>3. ASSUME NEW h \in Handles PROVE ObjectInv(h)
  <2>1. Pending(h) = {} /\ Dropping(h) = {}
    BY <1>2 DEF Pending, Dropping
  <2>2. Cardinality({}) = 0
    BY FS_EmptySet
  <2>3. refs[h] = 0 /\ vendor[h] = 0 /\ h \notin queueTable /\ h \notin kernelTable
    BY DEF Init
  <2>4. CountIsRight(h)
    <3>1. vendor[h] = refs[h] + Cardinality(Pending(h))
      BY <2>1, <2>2, <2>3
    <3>2. QED
      BY <1>2, <3>1 DEF CountIsRight
  <2>5. QueueEntry(h) /\ (h \in Programs => ProgramEntry(h))
    BY <2>3 DEF QueueEntry, ProgramEntry, Init
  <2>6. KernelEntry(h)
    BY <1>2, <2>1, <2>3 DEF KernelEntry
  <2>7. QED
    BY <2>4, <2>5, <2>6 DEF ObjectInv
<1>4. UsedAreHeld /\ BuildIsAlone /\ ReleaseIsStrong
  BY <1>2 DEF UsedAreHeld, BuildIsAlone, ReleaseIsStrong
<1>5. OneIsStrong
  BY DEF Init, OneIsStrong, Strong
<1>6. QED
  BY <1>1, <1>3, <1>4, <1>5 DEF IInv, ObjectsAreRight

\* Every action keeps it.
LEMMA IStep == IInv /\ [Next]_vars => IInv'
<1> SUFFICES ASSUME IInv, [Next]_vars PROVE IInv'
  OBVIOUS
<1>1. barred \in [Locks -> BOOLEAN] /\ busy \subseteq Queues
  BY DEF IInv, TypeOK
<1>2. ASSUME NEW t \in Threads, StartCall(t) PROVE IInv'
  BY <1>2, StartCallKeeps, CallReleaseKeeps
<1>3. ASSUME NEW t \in Threads, CreateProgram(t) \/ Retain(t) \/ CreateQueue(t) PROVE IInv'
  BY <1>3, CreateProgramKeeps, RetainKeeps, CreateQueueKeeps
<1>4. ASSUME NEW t \in Threads, WaitForWrite(t) PROVE IInv'
  <2>1. /\ barred' \in [Locks -> BOOLEAN] /\ busy' \subseteq Queues
        /\ UNCHANGED <<refs, vendor, entries, mode, mutex, at, uses, fault>>
    BY <1>1, <1>4 DEF WaitForWrite, Bar
  <2>2. QED
    BY <2>1, WaitingKeeps
<1>5. ASSUME NEW t \in Threads, Step(t) PROVE IInv'
  BY <1>5, InsertQueueKeeps, ReleaseQueueKeeps, InsertProgramKeeps, ReleaseProgramKeeps,
     CreateKernelKeeps, InsertKernelKeeps, FindToRetainKeeps, RetainKernelKeeps,
     FindToReleaseKeeps, DropReferenceKeeps, SetKernelArgKeeps, EraseKeeps,
     VendorReleaseKeeps, FindQueueKeeps, LaunchKernelKeeps, CommandKeeps DEF Step
<1>6. ASSUME NEW q \in Queues, Finish(q) PROVE IInv'
  <2>1. /\ barred' \in [Locks -> BOOLEAN] /\ busy' \subseteq Queues
        /\ UNCHANGED <<refs, vendor, entries, mode, mutex, at, uses, fault>>
    BY <1>1, <1>6 DEF Finish, locking
  <2>2. QED
    BY <2>1, WaitingKeeps
<1>7. CASE UNCHANGED vars
  <2>1. /\ barred' \in [Locks -> BOOLEAN] /\ busy' \subseteq Queues
        /\ UNCHANGED <<refs, vendor, entries, mode, mutex, at, uses, fault>>
    BY <1>1, <1>7 DEF vars, locking
  <2>2. QED
    BY <2>1, WaitingKeeps
<1>8. QED
  BY <1>2, <1>3, <1>4, <1>5, <1>6, <1>7 DEF Next

\* The accounts say of the tables what the application can see of them.
LEMMA IInvImplies == IInv => EntriesFollowReferences
<1> SUFFICES ASSUME IInv PROVE EntriesFollowReferences
  OBVIOUS
<1> DEFINE Unused(h) == \A t \in Threads : h \notin uses[t]
<1>t. TablesTyped /\ TypeOK /\ ObjectsAreRight
  BY InvTables
<1>1. \A h \in Handles : Unused(h) => Pending(h) = {} /\ Dropping(h) = {}
  BY DEF Pending, Dropping
<1>2. Cardinality({}) = 0
  BY FS_EmptySet
<1>3. ASSUME NEW h \in Queues \cup Programs, Unused(h)
      PROVE  /\ vendor[h] = refs[h]
             /\ h \in Queues /\ h \in queueTable => refs[h] > 0
             /\ h \in Programs /\ programTable[h] # "absent" => refs[h] > 0
  <2>1. ObjectInv(h) /\ h \in Handles
    BY <1>t DEF ObjectsAreRight, Handles
  <2>2. vendor[h] = refs[h] + Cardinality(Pending(h)) /\ refs[h] \in Nat
    BY <1>t, <2>1 DEF ObjectInv, CountIsRight, TablesTyped
  <2>3. vendor[h] = refs[h]
    <3>1. Pending(h) = {}
      BY <1>1, <1>3, <2>1
    <3>2. Cardinality(Pending(h)) = 0
      BY <1>2, <3>1
    <3>3. QED
      BY <2>2, <3>2
  <2>4. /\ h \in Queues /\ h \in queueTable => vendor[h] > 0
        /\ h \in Programs /\ programTable[h] # "absent" => vendor[h] > 0
    BY <2>1 DEF ObjectInv, QueueEntry, ProgramEntry
  <2>5. QED
    BY <2>3, <2>4
<1>4. ASSUME NEW k \in Kernels, Unused(k), k \in kernelTable
      PROVE  refCount[k] = refs[k] /\ refs[k] > 0
  <2>1. KernelEntry(k) /\ k \in Handles
    BY <1>t DEF ObjectsAreRight, ObjectInv, Handles
  <2>2. refCount[k] = refs[k] + Cardinality(Dropping(k)) /\ refs[k] \in Nat
    BY <1>4, <1>t, <2>1 DEF KernelEntry, TablesTyped
  <2>3. refCount[k] = refs[k]
    BY <1>1, <1>2, <1>4, <2>1, <2>2
  <2>4. refCount[k] # 0
    BY <1>4, <2>1 DEF KernelEntry
  <2>5. QED
    BY <2>2, <2>3, <2>4
<1>5. ASSUME NEW h \in Handles, refs[h] > 0
      PROVE  /\ h \in Queues => h \in queueTable
             /\ h \in Kernels => h \in kernelTable /\ refCount[h] >= refs[h]
  BY <1>5, <1>t, HeldIsListed
<1>6. QED
  BY <1>3, <1>4, <1>5 DEF EntriesFollowReferences, Handles

\* The tables, the counts and the locks have their types in every state, however the
\* calls of the application interleave.
THEOREM TablesAreTyped == Spec => []TypeOK
<1>1. IInv => TypeOK
  BY DEF IInv
<1>2. QED
  BY IInit, IStep, <1>1, PTL DEF Spec

\* No call that OpenCL allows finds an object of the application's missing from its
\* table, and no insertion finds the handle there: the INTER_ASSERTs on what insert
\* returns hold even when the vendor gives a freed handle out while the call that
\* freed it still runs.
THEOREM LegalCallsAreServed == Spec => []LegalCallsSucceed
<1>1. IInv => LegalCallsSucceed
  BY DEF IInv
<1>2. QED
  BY IInit, IStep, <1>1, PTL DEF Spec

\* What the application holds is in its table with at least its count, and an entry
\* that it does not hold is one that a call is about to erase: releases that race, and
\* creations that reuse handles, leave nothing behind.
THEOREM EntriesAreReferences == Spec => []EntriesFollowReferences
BY IInit, IStep, IInvImplies, PTL DEF Spec
=============================================================================
