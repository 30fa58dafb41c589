---------------------------- MODULE MCSmallVector ----------------------------
(***************************************************************************)
(* Instances of SmallVector for TLC.                                       *)
(***************************************************************************)
EXTENDS SmallVector

CONSTANTS v1, v2, b1, b2, b3, e1, e2

OneVec == {v1}
TwoVecs == {v1, v2}
TwoBlocks == {b1, b2}
ThreeBlocks == {b1, b2, b3}
OneVal == {e1}
TwoVals == {e1, e2}

\* One element more than fills a size_type, which wraps to none, and three more.
LongRanges == {[i \in 1 .. MaxSize + k |-> e1] : k \in {1, 3}}

T(def, ctor, copy, move, triv) ==
  [ndef |-> def, nctor |-> ctor, ncopy |-> copy, nmove |-> move, triv |-> triv]

\* Like int, std::shared_ptr, std::string, a class with only a throwing copy
\* constructor, and one whose default constructor is nothrow besides.
MCTypes == {T(TRUE, TRUE, TRUE, TRUE, TRUE), T(TRUE, TRUE, TRUE, TRUE, FALSE),
            T(TRUE, FALSE, FALSE, TRUE, FALSE), T(FALSE, FALSE, FALSE, FALSE, FALSE),
            T(TRUE, FALSE, FALSE, FALSE, FALSE), T(FALSE, TRUE, FALSE, TRUE, TRUE)}

===============================================================================
