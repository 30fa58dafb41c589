---------------------------- MODULE MCStaticVector ----------------------------
(***************************************************************************)
(* Instances of StaticVector for TLC.                                      *)
(***************************************************************************)
EXTENDS StaticVector

CONSTANTS v1, v2, b1, e1, e2

TwoVecs == {v1, v2}
OneBlock == {b1}
TwoVals == {e1, e2}

\* One element more than fills a size_type.
LongRanges == {[i \in 1 .. MaxSize + 1 |-> e1]}

T(def, ctor, copy, move, triv) ==
  [ndef |-> def, nctor |-> ctor, ncopy |-> copy, nmove |-> move, triv |-> triv]

\* Like int, a std::shared_ptr, a std::string, and a class whose copies throw.
MCTypes == {T(TRUE, TRUE, TRUE, TRUE, TRUE), T(TRUE, TRUE, TRUE, TRUE, FALSE),
            T(TRUE, FALSE, FALSE, TRUE, FALSE), T(FALSE, FALSE, FALSE, FALSE, FALSE)}

===============================================================================
