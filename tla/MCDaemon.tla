------------------------------ MODULE MCDaemon ------------------------------
(* Daemon on a small instance: two kinds and an invalid bit in a word of three *)
(* bits, counts of two bits, so that the count of two processes is a sign bit. *)
EXTENDS TaskBitmap

CONSTANTS h1, h2, l1

\* What the processes report: h1 always runs kind 0, maybe kind 1 too, and has
\* one report that mixes a valid with the invalid bit; h2 runs kind 1 or nothing.
Maps(p) == IF p = h1 THEN {{0}, {0, 1}, {1, 2}} ELSE {{}, {1}}
ReportsAreFew ==
  \A i \in DOMAIN inbox : inbox[i].type = "set" => inbox[i].map \in Maps(inbox[i].from)

MCNext == Next /\ ReportsAreFew'
MCFairSpec == Init /\ [][MCNext]_vars /\ WF_vars(DaemonStep)
=============================================================================
