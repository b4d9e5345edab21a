------------------------------ MODULE MCHNode ------------------------------
(***************************************************************************)
(* Instances of HNode for TLC.                                             *)
(***************************************************************************)
EXTENDS HNode

CONSTANTS t1, t2, i1, i2, k1, k2, a1, a2, v1, v2

TwoThreads == {t1, t2}
TwoInos    == {i1, i2}
TwoKinds   == {k1, k2}
TwoVNodes  == {v1, v2}
TwoAddrs   == {a1, a2}
\* i1 may come back with another type or generation.
ThreeEntries == {[ino |-> i1, kind |-> k1], [ino |-> i1, kind |-> k2],
                 [ino |-> i2, kind |-> k1]}
AllFaults  == {"malloc", "vnode_create"}
=============================================================================
