------------------------------ MODULE MCUtilities ------------------------------
(***************************************************************************)
(* An instance of Utilities for TLC.  A byte is scaled down to one bit and *)
(* an int to four bytes of them; packed structures have an int of two or   *)
(* three bits, so that both kinds of signed member occur.                  *)
(***************************************************************************)
EXTENDS Utilities

M(bits, signed, width) == [bits |-> bits, signed |-> signed, width |-> width]

MCLayouts ==
  {<<M(b, s, w)>> : b \in {4}, s \in BOOLEAN, w \in 1 .. 4}
    \cup {<<M(3, s, v), M(3, t, w)>> : s, t \in BOOLEAN, v \in 1 .. 2, w \in 1 .. 2}
    \cup {<<M(2, FALSE, 1), M(4, TRUE, 3)>>, <<M(4, TRUE, 3), M(2, FALSE, 1)>>,
          <<M(2, TRUE, 1), M(2, FALSE, 1), M(2, TRUE, 2)>>,
          <<M(3, FALSE, 2), M(2, TRUE, 1), M(2, TRUE, 1)>>}

MCTypes == {[bits |-> b, signed |-> s] : b \in {2, 3}, s \in BOOLEAN}

===============================================================================
