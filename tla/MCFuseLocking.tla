--------------------------- MODULE MCFuseLocking ---------------------------
(***************************************************************************)
(* Instances of FuseLocking for TLC: two directories with a file in each.  *)
(***************************************************************************)
EXTENDS FuseLocking

CONSTANTS t1, t2, t3

\* The directories have the lower addresses.
ParentsBelow == [n \in 1..4 |-> IF n = 3 THEN 1 ELSE IF n = 4 THEN 2 ELSE 0]
\* The directories have the higher addresses.
ParentsAbove == [n \in 1..4 |-> IF n = 1 THEN 4 ELSE IF n = 2 THEN 3 ELSE 0]

Symmetry == Permutations({t1, t2, t3})
=============================================================================
