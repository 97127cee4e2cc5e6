----------------------------- MODULE InOrderQueue -----------------------------
(***************************************************************************)
(* A command queue as an application knows it: a command starts when the   *)
(* commands of its wait list have ended and, if the queue is an in-order   *)
(* one, all commands issued before it have.  A command whose call reported *)
(* an error has no place in the order.  KernelRuns shows that the queues   *)
(* clpkm builds out of a queue, a shadow queue and a blocker do the same.  *)
(***************************************************************************)
EXTENDS Naturals, Sequences

CONSTANTS Commands

VARIABLES inOrder,      \* is it an in-order queue?
          issued,       \* the commands in the order they were issued
          lists,        \* the wait list of each
          st            \* "new", "issued", "running", "ended" or "refused"

vars == <<inOrder, issued, lists, st>>

Init ==
  /\ inOrder \in BOOLEAN
  /\ issued = << >>
  /\ lists = [c \in Commands |-> {}]
  /\ st = [c \in Commands |-> "new"]

IsOver(c) == st[c] \in {"ended", "refused"}
Before(c) == {issued[n] : n \in {m \in 1 .. Len(issued) :
                                   \A k \in 1 .. m : issued[k] # c}}

Issue(c) ==
  /\ st[c] = "new"
  /\ issued' = Append(issued, c)
  /\ \E list \in SUBSET {d \in Commands : st[d] # "new"} :
       lists' = [lists EXCEPT ![c] = list]
  /\ st' = [st EXCEPT ![c] = "issued"]

Start(c) ==
  /\ st[c] = "issued"
  /\ \A d \in lists[c] : IsOver(d)
  /\ inOrder => \A d \in Before(c) : IsOver(d)
  /\ st' = [st EXCEPT ![c] = "running"]
  /\ UNCHANGED <<issued, lists>>

\* A command that failed, or one that waited for it, ends without running.
End(c) ==
  /\ st[c] \in {"issued", "running"}
  /\ st' = [st EXCEPT ![c] = "ended"]
  /\ UNCHANGED <<issued, lists>>

\* The call reports an error, however far the command has come.
Refuse(c) ==
  /\ st[c] # "refused"
  /\ st' = [st EXCEPT ![c] = "refused"]
  /\ UNCHANGED <<issued, lists>>

Next == /\ \E c \in Commands : Issue(c) \/ Start(c) \/ End(c) \/ Refuse(c)
        /\ UNCHANGED inOrder

Spec == Init /\ [][Next]_vars
=============================================================================
