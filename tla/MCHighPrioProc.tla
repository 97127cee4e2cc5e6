--------------------------- MODULE MCHighPrioProc ---------------------------
(* HighPrioProc on a small instance: its parameters as model values. *)
EXTENDS HighPrioProc

CONSTANTS t1, t2, MEMCPY
=============================================================================
