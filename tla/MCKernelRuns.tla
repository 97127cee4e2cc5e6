----------------------------- MODULE MCKernelRuns -----------------------------
(* An instance of KernelRuns for TLC: model values for the calls. *)
EXTENDS KernelRuns

CONSTANTS k1, k2, c1
=============================================================================
