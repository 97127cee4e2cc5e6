----------------------------- MODULE HighClients -----------------------------
(***************************************************************************)
(* What the system sees of high-priority processes: each runs some kinds of *)
(* task, and reports them to the daemon with one synchronous call at a time.*)
(* A report covers every kind the process runs at that moment; a kind it    *)
(* does not run any more may stay in the reports for a while.               *)
(***************************************************************************)
CONSTANTS HighProcs, Kinds

VARIABLES running, reported, recorded, calling

vars == <<running, reported, recorded, calling>>

Init ==
  /\ running = [h \in HighProcs |-> {}]
  /\ reported = [h \in HighProcs |-> {}]
  /\ recorded = [h \in HighProcs |-> {}]
  /\ calling = [h \in HighProcs |-> "no"]

\* A first task of a kind starts, or the last one ends.
Run(h, map) ==
  /\ running' = [running EXCEPT ![h] = map]
  /\ UNCHANGED <<reported, recorded, calling>>

\* The maps h may report now.
Reports(h) == {map \in SUBSET Kinds : /\ running[h] \subseteq map
                                      /\ map \subseteq running[h] \cup reported[h]
                                      /\ map # reported[h]}

Report(h, map) ==
  /\ calling[h] = "no"
  /\ map \in Reports(h)
  /\ reported' = [reported EXCEPT ![h] = map]
  /\ calling' = [calling EXCEPT ![h] = "call"]
  /\ UNCHANGED <<running, recorded>>

\* The daemon executes the call.
Record(h) ==
  /\ calling[h] = "call"
  /\ recorded' = [recorded EXCEPT ![h] = reported[h]]
  /\ calling' = [calling EXCEPT ![h] = "reply"]
  /\ UNCHANGED <<running, reported>>

Return(h) ==
  /\ calling[h] = "reply"
  /\ calling' = [calling EXCEPT ![h] = "no"]
  /\ UNCHANGED <<running, reported, recorded>>

Next ==
  \/ \E h \in HighProcs, map \in SUBSET Kinds : Run(h, map)
  \/ \E h \in HighProcs, map \in SUBSET Kinds : Report(h, map)
  \/ \E h \in HighProcs : Record(h)
  \/ \E h \in HighProcs : Return(h)

Spec == Init /\ [][Next]_vars
=============================================================================
