------------------------------ MODULE StringGrowth ------------------------------
(***************************************************************************)
(* The size arithmetic of detail/string_func.h: the capacity a string asks *)
(* for is its raw size (the terminator included) in bytes, rounded up past *)
(* the next multiple of eight, in the unsigned type size_type.             *)
(***************************************************************************)
EXTENDS Integers

CONSTANTS
  MaxLength,  \* std::numeric_limits<size_type>::max(), npos
  CharSize    \* sizeof(char_type)

\* A size_type has eight bits at least; four are enough.
ASSUME LengthAssumption ==
  /\ MaxLength \in Nat /\ MaxLength >= 15
  /\ CharSize \in {1, 2, 4}

Lengths == 0 .. MaxLength
npos == MaxLength

\* static_cast<size_type>: unsigned truncation.
ToLength(n) == n % (MaxLength + 1)

\* growth(raw): both the product and the sum are truncated.
growth(raw) ==
  LET byte_size == ToLength(CharSize * raw)
  IN  ((ToLength(byte_size + 8) \div 8) * 8) \div CharSize

===============================================================================
