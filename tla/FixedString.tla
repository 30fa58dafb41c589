------------------------------- MODULE FixedString -------------------------------
(***************************************************************************)
(* basic_fixed_string.h: a string of N characters is its array data_ of    *)
(* N + 1 of them.  Nothing checks that an array a string is made from ends *)
(* with a null character.                                                  *)
(***************************************************************************)
EXTENDS Integers, Sequences

CONSTANT Nul  \* char_type{}

fixed_size(string) == Len(string) - 1
fixed_view(string) == SubSeq(string, 1, fixed_size(string))

\* concat_fixed_string: begin() .. end() of both, then *it = {}.
concat_fixed_string(l, r) == (fixed_view(l) \o fixed_view(r)) \o <<Nul>>

\* char_traits::length finds the first null character; without one it reads
\* past the array.
terminated(string) == \E i \in DOMAIN string : string[i] = Nul
null_terminated_buffor_view(string) ==
  LET length == CHOOSE n \in 0 .. fixed_size(string) :
                  string[n + 1] = Nul /\ \A i \in 1 .. n : string[i] # Nul
  IN  SubSeq(string, 1, length)

fixed_equal(l, r) == fixed_size(l) = fixed_size(r) /\ fixed_view(l) = fixed_view(r)

===============================================================================
