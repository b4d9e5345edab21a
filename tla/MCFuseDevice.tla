--------------------------- MODULE MCFuseDevice ---------------------------
(* Model values for FuseDevice. *)
EXTENDS FuseDevice, TLC

CONSTANTS d1, d2, v1, v2

Symmetry == Permutations(Daemons) \union Permutations(Mounters)
===========================================================================
