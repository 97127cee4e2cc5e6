---------------------------- MODULE MCLowPrioProc ----------------------------
(* LowPrioProc on a small instance: its parameters as model values. *)
EXTENDS LowPrioProc

CONSTANTS t1, t2, COMPUTING, MEMCPY
=============================================================================
