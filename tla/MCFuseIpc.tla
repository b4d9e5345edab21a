----------------------------- MODULE MCFuseIpc -----------------------------
(* FuseIpc on small instances. *)
EXTENDS FuseIpc

CONSTANTS r1, r2, r3, s1, s2

Symmetry == Permutations(Servers) \union Permutations(Requesters \ {Mounter})
=============================================================================
