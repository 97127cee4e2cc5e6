----------------------------- MODULE KernelItems -----------------------------
(***************************************************************************)
(* What a kernel's work-items promise when nothing preempts them: each one *)
(* runs a loop and then a barrier, NumOfRound times over, and passes the   *)
(* barrier of a round only when every work-item of its group has arrived   *)
(* at it.  PreemptedKernel shows that the code clpkm generates, the header *)
(* and the runs of the kernel that the host repeats keep that promise.     *)
(***************************************************************************)
EXTENDS Integers

CONSTANTS Items,        \* the work-items
          GroupOf(_),   \* the work-items of a work-item's group
          NumOfRound    \* how often a work-item meets a barrier

VARIABLES trips,        \* how many iterations a work-item makes in each round
          pos           \* where a work-item is in the source program

vars == <<trips, pos>>

Start == [round |-> 1, trip |-> 0, st |-> "loop"]

Init == trips \in [Items -> Nat] /\ pos = [i \in Items |-> Start]

\* The loop of the kernel: one more iteration.
Iterate(i) ==
  /\ pos[i].st = "loop" /\ pos[i].trip < trips[i]
  /\ pos' = [pos EXCEPT ![i].trip = @ + 1]

\* The loop is over: the work-item calls barrier().
Arrive(i) ==
  /\ pos[i].st = "loop" /\ pos[i].trip = trips[i]
  /\ pos' = [pos EXCEPT ![i].trip = 0, ![i].st = "barrier"]

HasArrived(i, round) ==
  \/ pos[i].round > round
  \/ pos[i].round = round /\ pos[i].st # "loop"

Pass(i) ==
  /\ pos[i].st = "barrier"
  /\ \A j \in GroupOf(i) : HasArrived(j, pos[i].round)
  /\ pos' = [pos EXCEPT ![i].st = "passed"]

\* The next round, or the end of the kernel.
Advance(i) ==
  /\ pos[i].st = "passed"
  /\ pos' = [pos EXCEPT ![i] =
       IF @.round = NumOfRound THEN [@ EXCEPT !.st = "end"]
       ELSE [Start EXCEPT !.round = pos[i].round + 1]]

Next == /\ \E i \in Items : Iterate(i) \/ Arrive(i) \/ Pass(i) \/ Advance(i)
        /\ UNCHANGED trips

Spec == Init /\ [][Next]_vars
=============================================================================
