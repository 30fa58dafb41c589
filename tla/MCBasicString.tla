----------------------------- MODULE MCBasicString -----------------------------
(***************************************************************************)
(* An instance of BasicString for TLC.                                     *)
(***************************************************************************)
EXTENDS BasicString

CONSTANTS s1, s2, b1, b2, b3, x

OneStr == {s1}
TwoStrs == {s1, s2}
ThreeBlocks == {b1, b2, b3}
BothTags == {"buffered", "static"}

MCAlphabet == {x, Nul}

\* Short texts, some of which hold the terminator's value or repeat.
MCTexts == {<<>>, <<x>>, <<x, Nul>>, <<x, x>>}
MCHugeTexts == {[i \in 1 .. n |-> x] : n \in {MaxLength, MaxLength + 2}}

\* Counts around the sizes whose bytes, or whose raw size, wrap.
MCHuge == {13, MaxLength - 1, MaxLength}
MCReserved == {0, 3, 7}

\* Short and buffered or long and in a block.
MCShared == {<<>>, <<x, Nul>>, [i \in 1 .. 4 |-> IF i = 2 THEN Nul ELSE x]}

===============================================================================
