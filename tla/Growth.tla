-------------------------------- MODULE Growth --------------------------------
(***************************************************************************)
(* The size arithmetic of detail/vector_func.h and uninitialized_constexpr *)
(* .h: sums and differences are truncated to the unsigned size_type of the *)
(* container, and growth() works in a type twice as wide (or as wide, for  *)
(* a 64-bit size_type) before it saturates.                                *)
(***************************************************************************)
EXTENDS Integers

CONSTANTS
  MaxSize,  \* std::numeric_limits<size_type>::max()
  MaxCalc   \* std::numeric_limits<growth_size_type_select_t<size_type>>::max()

ASSUME SizeAssumption ==
  /\ MaxSize \in Nat \ {0}
  /\ MaxCalc \in Nat
  /\ MaxCalc >= MaxSize

Sizes == 0 .. MaxSize

\* static_cast<size_type>: unsigned truncation.
ToSize(n) == n % (MaxSize + 1)
ToCalc(n) == n % (MaxCalc + 1)

\* A faulty growth, which saturates where it should report that nothing fits.
GrowthSaturates(old, new) ==
  LET grown == (old + new) + (old + new) \div 2 + 1
  IN  IF grown < MaxSize THEN grown ELSE MaxSize

\* growth(old_size, new_elements): floor(1.5 * (old + new)) + 1, saturated at
\* the largest size, and 0 when the sum itself does not fit.
growth(old, new) ==
  LET minimal == ToCalc(old + new)
      grown   == ToCalc(minimal + minimal \div 2 + 1)
  IN  IF minimal > MaxSize THEN 0
      ELSE IF grown < MaxSize THEN grown ELSE MaxSize

===============================================================================
