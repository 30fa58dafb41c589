---------------------------------- MODULE Words ----------------------------------
(***************************************************************************)
(* The functions on words of utils/utility_cxx20.h (the ones used where    *)
(* the standard library has none), utils/unaligned.h and the packed word   *)
(* of composed_pointer_with_data.h.  The bytes of a word have ByteBits     *)
(* bits; an int has four of them.                                          *)
(***************************************************************************)
EXTENDS Integers, Sequences, Bitwise

CONSTANTS
  ByteBits,  \* the width of a byte
  Align      \* alignof(T) of a composed pointer, a power of two

ASSUME WordsAssumption == ByteBits \in Nat \ {0} /\ Align \in {2, 4, 8}

IntBytes == 4
Digits(bytes) == bytes * ByteBits

----------------------------------------------------------------------------
(* Comparison of integers of the types t and u: [bits, signed]. *)

MakeUnsigned(n, type) == n % 2^type.bits

cmp_less(n, t, m, u) ==
  IF t.signed = u.signed THEN n < m
  ELSE IF t.signed THEN n < 0 \/ MakeUnsigned(n, t) < m
  ELSE m >= 0 /\ n < MakeUnsigned(m, u)

cmp_equal(n, t, m, u) ==
  IF t.signed = u.signed THEN n = m
  ELSE IF t.signed THEN n >= 0 /\ MakeUnsigned(n, t) = m
  ELSE m >= 0 /\ n = MakeUnsigned(m, u)

cmp_not_equal(n, t, m, u) == ~cmp_equal(n, t, m, u)
cmp_greater(n, t, m, u) == cmp_less(m, u, n, t)
cmp_less_equal(n, t, m, u) == ~cmp_greater(n, t, m, u)
cmp_greater_equal(n, t, m, u) == ~cmp_less(n, t, m, u)

----------------------------------------------------------------------------
(* Zero bits. *)

LowestBit(word) == CHOOSE k \in 0 .. word : word % 2^(k + 1) # 0 /\ word % 2^k = 0
HighestBit(word) == CHOOSE k \in 0 .. word : 2^k <= word /\ word < 2^(k + 1)

\* __builtin_clz of a word of that many bytes, __builtin_ctz of an unsigned.
clz(word, bytes) == Digits(bytes) - 1 - HighestBit(word)
ctz(word) == LowestBit(word)

countl_zero(word, bytes) ==
  IF word = 0 THEN Digits(bytes)
  ELSE IF bytes < IntBytes THEN clz(word, IntBytes) - ByteBits * (IntBytes - bytes)
  ELSE clz(word, bytes)

\* What countr_zero can return: __builtin_ctz takes an unsigned, and of no
\* bit its result is undefined.
countr_zero(word, bytes) ==
  LET argument == word % 2^Digits(IntBytes)
  IN  IF word = 0 THEN {Digits(bytes)}
      ELSE IF bytes < IntBytes THEN {ctz(word) - ByteBits * (IntBytes - bytes)}
      ELSE IF argument = 0 THEN 0 .. Digits(IntBytes)
      ELSE {ctz(argument)}

----------------------------------------------------------------------------
(* Bytes. *)

\* swap_bytes_impl_t: the pairs from the outermost inwards.
byteswap(bytes) ==
  LET sz == Len(bytes)
      swapped[ix \in 0 .. sz \div 2] ==
        IF ix = 0 THEN bytes
        ELSE [swapped[ix - 1] EXCEPT ![ix] = swapped[ix - 1][sz + 1 - ix],
                                     ![sz + 1 - ix] = swapped[ix - 1][ix]]
  IN  swapped[sz \div 2]

\* unaligned_store returns where it stopped; unaligned_load_fwd goes there.
unaligned_store(memory, it, bytes) ==
  [memory |-> [i \in DOMAIN memory |->
                 IF i \in it .. it + Len(bytes) - 1 THEN bytes[i - it + 1] ELSE memory[i]],
   it     |-> it + Len(bytes)]
unaligned_load(memory, it, size) == SubSeq(memory, it, it + size - 1)
unaligned_load_fwd(memory, it, size) ==
  [value |-> unaligned_load(memory, it, size), it |-> it + size]

----------------------------------------------------------------------------
(* composed_pointer_with_data: data in the bits an aligned pointer leaves. *)

data_mask == Align - 1
ptr(word) == word - (word & data_mask)
data(word) == word & data_mask

\* The constructor does not call validate.
Composed(pointer, value) == pointer | value
set_ptr(word, pointer) == pointer | (word & data_mask)
set_data(word, value) == ptr(word) | value
validate(value) == value <= data_mask

===============================================================================
