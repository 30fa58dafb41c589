---------------------------- MODULE MCStackBuffer ----------------------------
(***************************************************************************)
(* An instance of StackBuffer for TLC: messages of no, one, three, six     *)
(* (too many with a footer) and seven bytes for a buffer of six units.     *)
(***************************************************************************)
EXTENDS StackBuffer, TLC

CONSTANTS m0, m1, m2, m3, m4

MCMsgs == {m0, m1, m2, m3, m4}
MCSizeOf == (m0 :> 0) @@ (m1 :> 1) @@ (m2 :> 3) @@ (m3 :> 7) @@ (m4 :> 6)
===============================================================================
