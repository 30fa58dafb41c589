----------------------------- MODULE MCInterprocess -----------------------------
(***************************************************************************)
(* An instance of Interprocess for TLC: the children of all five tests.    *)
(***************************************************************************)
EXTENDS Interprocess

MCKids == {"counter", "filler", "holder", "changer", "waiter", "poster"}

\* As if the function of the last child were declared noexcept.
MCNothrow == {"poster"}

===============================================================================
