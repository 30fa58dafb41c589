---------------------------- MODULE MCDynamicVector ----------------------------
(***************************************************************************)
(* Instances of DynamicVector for TLC.                                     *)
(***************************************************************************)
EXTENDS DynamicVector

CONSTANTS v1, v2, b1, b2, b3, b4, e1, e2

OneVec == {v1}
TwoVecs == {v1, v2}
FourBlocks == {b1, b2, b3, b4}
OneVal == {e1}

\* One element more than fills a size_type.
LongRanges == {[i \in 1 .. MaxSize + 1 |-> e1]}

T(def, ctor, copy, move, triv) ==
  [ndef |-> def, nctor |-> ctor, ncopy |-> copy, nmove |-> move, triv |-> triv]

\* Like int, std::string, and a class whose copies throw.
MCTypes == {T(TRUE, TRUE, TRUE, TRUE, TRUE), T(TRUE, FALSE, FALSE, TRUE, FALSE),
            T(FALSE, FALSE, FALSE, FALSE, FALSE)}

===============================================================================
