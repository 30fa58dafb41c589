---------------------------------- MODULE Bwt ----------------------------------
(***************************************************************************)
(* algo/bwt.h: encode and decode of the Burrows-Wheeler transform with an  *)
(* end marker.  encode orders the rotations by string_view::compare, which *)
(* takes a char for an unsigned char; decode orders the characters by <,   *)
(* which on a plain char compares signed values.                           *)
(***************************************************************************)
EXTENDS Integers, Sequences, SequencesExt, FiniteSets

CONSTANTS
  CharBits,  \* the width of char_type
  EndMarker  \* the template parameter of encode and decode

Chars == 0 .. 2^CharBits - 1

ASSUME BwtAssumption == CharBits \in Nat \ {0} /\ EndMarker \in Chars

\* The value of a character as operator< sees it.
Ordered(c, signed) == IF signed /\ c >= 2^(CharBits - 1) THEN c - 2^CharBits ELSE c

\* string_view::compare(...) < 0 on two views of one length.
Precedes(v, w) ==
  \E i \in DOMAIN v : v[i] < w[i] /\ \A j \in 1 .. i - 1 : v[j] = w[j]

\* A faulty encode, whose table holds the text once, without its marker.
EncodeForgetsMarker(text) ==
  IF text = <<>> THEN <<>> ELSE
  LET sz == Len(text)
      table == text \o text
      rotvec == SortSeq([i \in 1 .. sz |-> i], LAMBDA l, r :
                  Precedes(SubSeq(table, l, l + sz - 1), SubSeq(table, r, r + sz - 1)))
  IN  [i \in 1 .. sz |-> table[rotvec[i] + sz - 1]] \o <<EndMarker>>

encode(text) ==
  IF text = <<>> THEN <<>> ELSE
  LET sz == Len(text) + 1
      table == (text \o <<EndMarker>>) \o (text \o <<EndMarker>>)
      f_view(ix) == SubSeq(table, ix, ix + sz - 1)
      rotvec == SortSeq([i \in 1 .. sz |-> i], LAMBDA l, r : Precedes(f_view(l), f_view(r)))
  IN  [i \in 1 .. sz |-> table[rotvec[i] + sz - 1]]

\* l_shift[i]: where the character of row i, as often as it has come before
\* in the sorted column, stands in the encoded text.
LShift(arr, signed) ==
  LET sorted_bwt == SortSeq(arr, LAMBDA c, d : Ordered(c, signed) < Ordered(d, signed))
      nth(i) == Cardinality({j \in 1 .. i : sorted_bwt[j] = sorted_bwt[i]})
  IN  [i \in DOMAIN arr |->
         CHOOSE k \in DOMAIN arr :
           /\ arr[k] = sorted_bwt[i]
           /\ Cardinality({j \in 1 .. k : arr[j] = arr[k]}) = nth(i)]

\* The rows are followed from the marker's; the last one is the marker's own.
decode(arr, signed) ==
  IF ~Contains(arr, EndMarker) THEN <<>> ELSE
  LET l_shift == LShift(arr, signed)
      x0 == SelectInSeq(arr, LAMBDA c : c = EndMarker)
      row[i \in 0 .. Len(arr)] == IF i = 0 THEN x0 ELSE l_shift[row[i - 1]]
  IN  [i \in 1 .. Len(arr) - 1 |-> arr[row[i]]]

===============================================================================
