--------------------------- MODULE PreemptedKernel ---------------------------
(***************************************************************************)
(* A kernel as clpkm runs it: the code the instrumentor (cc/) generates    *)
(* around loops, barriers and returns, the device library (toolkit.cl),    *)
(* and the host's summary of the header between two runs (UpdateHeader).   *)
(*                                                                         *)
(* A kernel is run again and again.  In each run a work-item resumes where *)
(* its header entry says, and leaves again, its live values saved, when    *)
(* its time slice is over at the end of a loop body or when it stands at a *)
(* barrier that not all of its group have reached.  The modelled kernel    *)
(* makes NumOfRound rounds of an outer loop; a round is an inner loop, a   *)
(* write to the work-item's own word, a barrier (two barrier() calls in    *)
(* the source take turns), and a look at the words of the group.  The      *)
(* words are __local memory (lost at the end of a run, so saved and        *)
(* loaded) when usesLocal, __global memory otherwise.                      *)
(*                                                                         *)
(* X_Y, defined just before X, is X with a plausible bug.                  *)
(***************************************************************************)
EXTENDS Integers, FiniteSets

CONSTANTS Groups,       \* work-groups
          GroupSize,    \* __clpkm_grp_size, the local work size
          NumOfRound,   \* how often a work-item meets a barrier
          MaxTrip       \* the bound on the iterations of a round

ASSUME ConstantsAssumption ==
  /\ GroupSize \in Nat \ {0}
  /\ NumOfRound \in Nat \ {0}
  /\ MaxTrip \in Nat

LocalIds == 0 .. GroupSize - 1
Items == Groups \X LocalIds
Group(g) == {g} \X LocalIds
GroupOf(i) == Group(i[1])
LocalId(i) == i[2]

\* Header entries: 0 has finished, 1 has not started, a nonce from 2 on is the
\* place to resume from, -nonce the barrier that blocks the work-item.
Finished == 0
Fresh == 1
LoopNonce == 2                        \* the inner loop
Sites == 0 .. 1                       \* the barrier() calls of the source
SiteOf(round) == round % 2
BarrierNonce(site) == 3 + site
OuterNonce == 5                       \* the outer loop
BarrierNonces == {BarrierNonce(s) : s \in Sites}

Garbage == -1                         \* the value of a variable nobody has set

VARIABLES
  usesLocal,    \* does the kernel have __local data?
  trips,        \* the iterations a work-item makes in each round
  pc,           \* what a work-item does next
  prv,          \* its private variables
  hdr,          \* __clpkm_hdr in the device's buffer
  savedPrv,     \* __clpkm_prv, the live value buffer
  savedLocal,   \* __clpkm_local, the copy of __local memory
  mem,          \* the words the work-items communicate through
  barrierStop,  \* __clpkm_barrier_stop
  finalStop,    \* __clpkm_final_stop
  finished      \* the host has seen a header of zeros

kernel == <<usesLocal, trips>>
saved == <<hdr, savedPrv, savedLocal>>
shared == <<mem, barrierStop, finalStop>>
vars == <<kernel, pc, prv, saved, shared, finished>>

Privates == [round |-> Garbage, trip |-> Garbage, remain |-> Garbage,
             batch |-> Garbage, exitId |-> Garbage]

Goto(i, label) == pc' = [pc EXCEPT ![i] = label]

\* A barrier lets a group's work-items go when all that have not left the
\* kernel are at one, whichever call of barrier() that is: where a work-item
\* waits, and where it goes on.
Resumes == [init |-> "switch", counted |-> "look", looked |-> "uncount",
            original |-> "passed", batched |-> "number", numbered |-> "store"]

BarrierOpens(g) ==
  /\ \E i \in Group(g) : pc[i] # "left"
  /\ \A i \in Group(g) : pc[i] \in DOMAIN Resumes \cup {"left"}
  /\ pc' = [i \in Items |-> IF i \in Group(g) /\ pc[i] # "left"
                            THEN Resumes[pc[i]] ELSE pc[i]]
  /\ UNCHANGED <<kernel, prv, saved, shared, finished>>

\* The prologue: the stops are set by the work-items their indices fall to,
\* and the __local data is loaded, by every work-item that has run before.
InitBarrierStop(i) ==
  [barrierStop EXCEPT ![i[1]] =
     [s \in Sites |-> IF s % GroupSize = LocalId(i) THEN GroupSize ELSE @[s]]]
InitFinalStop(i) ==
  IF LocalId(i) = 0 THEN [finalStop EXCEPT ![i[1]] = GroupSize] ELSE finalStop

LoadsLocal_InLoop(i) == usesLocal /\ hdr[i] = LoopNonce
LoadsLocal(i) == usesLocal /\ hdr[i] # Fresh

Enter(i) ==
  /\ pc[i] = "entry"
  /\ barrierStop' = InitBarrierStop(i)
  /\ finalStop' = InitFinalStop(i)
  /\ mem' = IF LoadsLocal(i)
            THEN [j \in Items |-> IF j \in GroupOf(i) THEN savedLocal[j] ELSE mem[j]]
            ELSE mem
  /\ Goto(i, "init")
  /\ UNCHANGED <<kernel, prv, saved, finished>>

\* switch (__clpkm_hdr[__clpkm_id]), and the loads at the case labels.
Dispatch(i) ==
  /\ pc[i] = "switch"
  /\ \/ /\ hdr[i] = Fresh
        /\ prv' = [prv EXCEPT ![i].round = 1, ![i].trip = 0]
        /\ Goto(i, "loop")
     \/ /\ hdr[i] = LoopNonce
        /\ prv' = [prv EXCEPT ![i].round = savedPrv[i].round,
                              ![i].trip = savedPrv[i].trip]
        /\ Goto(i, "loop")
     \/ /\ hdr[i] \in BarrierNonces \cup {OuterNonce}
        /\ prv' = [prv EXCEPT ![i].round = savedPrv[i].round]
        /\ Goto(i, IF hdr[i] = OuterNonce THEN "advance" ELSE "passed")
     \/ /\ hdr[i] <= Finished
        /\ Goto(i, "exit")
        /\ UNCHANGED prv
  /\ UNCHANGED <<kernel, saved, shared, finished>>

\* The header entry, and the variables that are live where it resumes.
Live_AfterLoop(nonce, p) == [round |-> p.round, trip |-> Garbage]
Live(nonce, p) ==
  [round |-> p.round, trip |-> IF nonce = LoopNonce THEN p.trip ELSE Garbage]
Checkpoint(i, entry, p) ==
  /\ hdr' = [hdr EXCEPT ![i] = entry]
  /\ savedPrv' = [savedPrv EXCEPT ![i] = Live(entry, p)]
  /\ Goto(i, "exit")
  /\ UNCHANGED savedLocal

\* One iteration of the inner loop.  Whether the time slice is over at its
\* end is up to the clock.
Loop(i) ==
  /\ pc[i] = "loop" /\ prv[i].trip < trips[i]
  /\ prv' = [prv EXCEPT ![i].trip = @ + 1]
  /\ \/ UNCHANGED <<pc, saved>>
     \/ Checkpoint(i, LoopNonce, prv'[i])
  /\ UNCHANGED <<kernel, shared, finished>>

\* The write of the round, and atomic_dec(&__clpkm_barrier_stop[..]).
CallBarrier(i) ==
  /\ pc[i] = "loop" /\ prv[i].trip = trips[i]
  /\ mem' = [mem EXCEPT ![i] = prv[i].round]
  /\ barrierStop' = [barrierStop EXCEPT ![i[1]][SiteOf(prv[i].round)] = @ - 1]
  /\ Goto(i, "counted")
  /\ UNCHANGED <<kernel, prv, saved, finalStop, finished>>

Look(i) ==
  /\ pc[i] = "look"
  /\ prv' = [prv EXCEPT ![i].remain = barrierStop[i[1]][SiteOf(prv[i].round)]]
  /\ Goto(i, "looked")
  /\ UNCHANGED <<kernel, saved, shared, finished>>

\* Puts the stop back; whoever found it above zero leaves, blocked.
Uncounted(i) ==
  [barrierStop EXCEPT ![i[1]][SiteOf(prv[i].round)] = @ + 1]
AllHere_AnyTime(i) == TRUE
AllHere(i) == prv[i].remain = 0

Uncount(i) ==
  /\ pc[i] = "uncount"
  /\ barrierStop' = Uncounted(i)
  /\ \/ AllHere(i) /\ Goto(i, "original") /\ UNCHANGED saved
     \/ ~AllHere(i) /\ Checkpoint(i, -BarrierNonce(SiteOf(prv[i].round)), prv[i])
  /\ UNCHANGED <<kernel, prv, mem, finalStop, finished>>

\* Behind the barrier: the work-item reads the words of its group.  Then the
\* end of the outer loop's body, where the time slice may be over.
Pass(i) ==
  /\ pc[i] = "passed"
  /\ Goto(i, "body end")
  /\ UNCHANGED <<kernel, prv, saved, shared, finished>>

BodyEnd(i) ==
  /\ pc[i] = "body end"
  /\ \/ Goto(i, "advance") /\ UNCHANGED saved
     \/ Checkpoint(i, OuterNonce, prv[i])
  /\ UNCHANGED <<kernel, prv, shared, finished>>

\* The next round, or the end: __clpkm_hdr[__clpkm_id] = 0.
Advance(i) ==
  /\ pc[i] = "advance"
  /\ \/ /\ prv[i].round < NumOfRound
        /\ prv' = [prv EXCEPT ![i].round = @ + 1, ![i].trip = 0]
        /\ Goto(i, "loop")
        /\ UNCHANGED hdr
     \/ /\ prv[i].round = NumOfRound
        /\ hdr' = [hdr EXCEPT ![i] = Finished]
        /\ Goto(i, "exit")
        /\ UNCHANGED prv
  /\ UNCHANGED <<kernel, savedPrv, savedLocal, shared, finished>>

\* __CLPKM_SV_LOC_AND_RET: the work-items that leave last save the __local
\* data, each its share of the words.
Exit(i) ==
  /\ pc[i] = "exit"
  /\ IF usesLocal
     THEN /\ prv' = [prv EXCEPT ![i].batch = finalStop[i[1]]]
          /\ Goto(i, "batched")
     ELSE Goto(i, "left") /\ UNCHANGED prv
  /\ UNCHANGED <<kernel, saved, shared, finished>>

Number(i) ==
  /\ pc[i] = "number"
  /\ prv' = [prv EXCEPT ![i].exitId = finalStop[i[1]] - 1]
  /\ finalStop' = [finalStop EXCEPT ![i[1]] = @ - 1]
  /\ Goto(i, "numbered")
  /\ UNCHANGED <<kernel, saved, mem, barrierStop, finished>>

\* __clpkm_store_local with the work-item's number and the batch's size.
Share_OfGroup(i) == {j \in GroupOf(i) : LocalId(j) = prv[i].exitId}
Share(i) == {j \in GroupOf(i) : /\ LocalId(j) >= prv[i].exitId
                                /\ (LocalId(j) - prv[i].exitId) % prv[i].batch = 0}

Store(i) ==
  /\ pc[i] = "store"
  /\ savedLocal' = IF finalStop[i[1]] # 0 THEN savedLocal
                   ELSE [j \in Items |-> IF j \in Share(i) THEN mem[j] ELSE savedLocal[j]]
  /\ Goto(i, "left")
  /\ UNCHANGED <<kernel, prv, hdr, savedPrv, shared, finished>>

\* The host's look at the header.  A group all of whose work-items are blocked
\* may pass: its entries turn positive.
MayPass_Some(g) == \E i \in Group(g) : hdr[i] < 0
MayPass(g) == \A i \in Group(g) : hdr[i] < 0

UpdatedHeader == [i \in Items |-> IF MayPass(i[1]) THEN -hdr[<<i[1], 0>>] ELSE hdr[i]]

Progress_Nonzero == IF \E i \in Items : hdr[i] # Finished THEN 1 ELSE 0
Progress == IF \E g \in Groups : MayPass(g) THEN -1
            ELSE IF \E i \in Items : hdr[i] # Finished THEN 1 ELSE 0

RunIsOver == \A i \in Items : pc[i] = "left"

\* ResumeOrFinish.  The header is written only if it has changed; what a run
\* holds in registers and __local memory does not outlive it.
ResumeOrFinish ==
  /\ RunIsOver /\ ~finished
  /\ finished' = (Progress = 0)
  /\ hdr' = IF Progress < 0 THEN UpdatedHeader ELSE hdr
  /\ IF Progress = 0 THEN UNCHANGED <<pc, prv, shared>>
     ELSE /\ pc' = [i \in Items |-> "entry"]
          /\ prv' = [i \in Items |-> Privates]
          /\ barrierStop' = [g \in Groups |-> [s \in Sites |-> Garbage]]
          /\ finalStop' = [g \in Groups |-> Garbage]
          /\ mem' = IF usesLocal THEN [i \in Items |-> Garbage] ELSE mem
  /\ UNCHANGED <<kernel, savedPrv, savedLocal>>

\* The first run: the header has been filled with ones.
Init ==
  /\ usesLocal \in BOOLEAN
  /\ trips \in [Items -> 0 .. MaxTrip]
  /\ pc = [i \in Items |-> "entry"]
  /\ prv = [i \in Items |-> Privates]
  /\ hdr = [i \in Items |-> Fresh]
  /\ savedPrv = [i \in Items |-> [round |-> Garbage, trip |-> Garbage]]
  /\ savedLocal = [i \in Items |-> Garbage]
  /\ mem = [i \in Items |-> Garbage]
  /\ barrierStop = [g \in Groups |-> [s \in Sites |-> Garbage]]
  /\ finalStop = [g \in Groups |-> Garbage]
  /\ finished = FALSE

ItemStep(i) ==
  \/ Enter(i) \/ Dispatch(i) \/ Loop(i) \/ CallBarrier(i) \/ Look(i) \/ Uncount(i)
  \/ Pass(i) \/ BodyEnd(i) \/ Advance(i) \/ Exit(i) \/ Number(i) \/ Store(i)

Next ==
  \/ \E i \in Items : ItemStep(i)
  \/ \E g \in Groups : BarrierOpens(g)
  \/ ResumeOrFinish

Spec == Init /\ [][Next]_vars

\* A device runs the work-items of a kernel it has started to their end, and
\* calls the host back.
FairSpec == Spec /\ WF_vars(Next)

-----------------------------------------------------------------------------
(* Correctness. *)

\* Work-items blocked in one group are blocked at the same barrier: what
\* UpdateHeader asserts ("some threads reach different barrier!") before it
\* gives all of them the tag of one.
SameBarrier ==
  RunIsOver => \A i, j \in Items :
    i[1] = j[1] /\ hdr[i] < 0 /\ hdr[j] < 0 => hdr[i] = hdr[j]

\* A work-item behind a barrier reads what its group wrote before it, however
\* many runs of the kernel came between the writes and the read: __local
\* memory survives, and nothing older than the barrier's round is seen.
WritesAreSeen ==
  \A i \in Items : pc[i] = "passed" =>
    \A j \in GroupOf(i) : mem[j] \in {prv[i].round, prv[i].round + 1}

\* Where a work-item is in the source program: in its variables while it runs,
\* in the header and the live value buffer otherwise.
At(round, trip, st) == [round |-> round, trip |-> trip, st |-> st]

Position(i) ==
  CASE pc[i] = "loop" -> At(prv[i].round, prv[i].trip, "loop")
    [] pc[i] \in {"counted", "look", "looked", "uncount", "original", "passed"}
         -> At(prv[i].round, 0, "barrier")
    [] pc[i] \in {"body end", "advance"} -> At(prv[i].round, 0, "passed")
    [] OTHER ->
         CASE hdr[i] = Fresh     -> At(1, 0, "loop")
           [] hdr[i] = LoopNonce -> At(savedPrv[i].round, savedPrv[i].trip, "loop")
           [] hdr[i] = Finished  -> At(NumOfRound, 0, "end")
           [] hdr[i] = OuterNonce -> At(savedPrv[i].round, 0, "passed")
           [] OTHER              -> At(savedPrv[i].round, 0, "barrier")

\* The preempted kernel is the kernel: no iteration is lost or repeated by a
\* checkpoint, and no work-item is behind a barrier that one of its group has
\* not reached.
Kernel == INSTANCE KernelItems WITH pos <- [i \in Items |-> Position(i)]
IsTheKernel == Kernel!Spec

\* The kernel comes to its end, whenever the clock preempts it: each run does
\* a loop body or opens a barrier.
KernelFinishes == <>finished
=============================================================================
