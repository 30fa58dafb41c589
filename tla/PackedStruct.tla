------------------------------ MODULE PackedStruct ------------------------------
(***************************************************************************)
(* utils/meta_packed_struct.h: pack_value and unpack_value.  A layout is a *)
(* sequence of members [bits, signed, width]: the width of the value type, *)
(* whether that type is signed, and the member's BitWidth.  Values are the *)
(* words that represent them.  The code forms a mask with 1u: a shift of   *)
(* it past the width of int is undefined.                                  *)
(***************************************************************************)
EXTENDS Integers, Sequences, Bitwise

CONSTANT IntBits  \* the width of unsigned, the type of 1u

ASSUME PackedAssumption == IntBits \in Nat \ {0}

bitmask_v(bits, n) == (2^n - 1) % 2^bits

\* static_cast to an unsigned type of that width.
Cast(word, bits) == word % 2^bits
Complement(word, bits) == 2^bits - 1 - word

compress_value(member, value) == value & bitmask_v(member.bits, member.width)

\* pack_value, over the members from the i-th on.
Pack(layout, values, packBits) ==
  LET offset[i \in 1 .. Len(layout)] ==
        IF i = 1 THEN 0 ELSE offset[i - 1] + layout[i - 1].width
      mine(i) == Cast(compress_value(layout[i], values[i]) * 2^offset[i], packBits)
      rest[i \in 1 .. Len(layout)] ==
        IF i = Len(layout) THEN mine(i) ELSE rest[i + 1] | mine(i)
  IN  rest[1]

\* v & (1u << (bit_width - 1)): what the sign bit can be read as.
SignBit(v, width) ==
  IF width > IntBits THEN BOOLEAN ELSE {(v & 2^(width - 1)) # 0}

\* The words uncompress_value can return.
uncompress_value(member, packed) ==
  LET v == Cast(packed, member.bits)
      neg_fill_mask == Complement(bitmask_v(member.bits, member.width), member.bits)
  IN  IF ~member.signed \/ neg_fill_mask = 0 THEN {v}
      ELSE {IF sign_bit THEN neg_fill_mask | v ELSE v : sign_bit \in SignBit(v, member.width)}

\* A faulty unpack_value, which adds up the offsets of a word it has shifted.
UnpackShiftsTwice(layout, pack) ==
  LET offset[i \in 1 .. Len(layout)] ==
        IF i = 1 THEN 0 ELSE offset[i - 1] + layout[i - 1].width
      shifted[i \in 1 .. Len(layout)] ==
        IF i = 1 THEN pack ELSE shifted[i - 1] \div 2^offset[i]
  IN  [i \in 1 .. Len(layout) |->
         uncompress_value(layout[i], shifted[i] & (2^layout[i].width - 1))]

\* unpack_value: each member shifts the word by the width of the one before.
Unpack(layout, pack) ==
  LET shifted[i \in 1 .. Len(layout)] ==
        IF i = 1 THEN pack ELSE shifted[i - 1] \div 2^layout[i - 1].width
  IN  [i \in 1 .. Len(layout) |->
         uncompress_value(layout[i], shifted[i] & (2^layout[i].width - 1))]

===============================================================================
