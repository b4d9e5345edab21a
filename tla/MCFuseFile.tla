----------------------------- MODULE MCFuseFile -----------------------------
(***************************************************************************)
(* The instance of FuseFile for TLC.                                       *)
(***************************************************************************)
EXTENDS FuseFile

CONSTANTS t1, t2

TwoThreads == {t1, t2}
=============================================================================
