---------------------------- MODULE MCAtomicMutex ----------------------------
(***************************************************************************)
(* Instances of AtomicMutex for TLC.                                       *)
(***************************************************************************)
EXTENDS AtomicMutex

CONSTANTS p1, p2, p3

ThreeProcs == {p1, p2, p3}
Children == {p2, p3}
===============================================================================
