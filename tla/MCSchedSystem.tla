---------------------------- MODULE MCSchedSystem ----------------------------
(* SchedSystem on a small instance. *)
EXTENDS SchedSystem

CONSTANTS h1, h2, l1

=============================================================================
