-------------------------- MODULE MCPreemptedKernel --------------------------
(* An instance of PreemptedKernel for TLC: model values for the group. *)
EXTENDS PreemptedKernel

CONSTANT g1
=============================================================================
