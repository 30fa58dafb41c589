------------------------------ MODULE BufferLayout ------------------------------
(***************************************************************************)
(* How many elements fit into a small_vector for nothing                   *)
(* (detail/vector_storage.h): the pointer, the capacity and the size of a  *)
(* heap block need room in any case, and the buffer shares it.  Sizes are  *)
(* in bytes, for a pointer of eight: value is sizeof(value_type) and size  *)
(* is sizeof(size_type).                                                   *)
(***************************************************************************)
EXTENDS Integers

Pointer == 8
SizeTypes == {1, 2, 4, 8}

Larger(m, n) == IF m < n THEN n ELSE m
Aligned(n, to) == ((n + to - 1) \div to) * to

struct_min_byte_size(size) ==
  LET size_req   == Pointer + 3 * size
      align_size == Larger(Pointer, size)
  IN  (size_req \div align_size) * align_size
        + IF size_req % align_size # 0 THEN align_size ELSE 0

union_min_number_of_elements(value, size) ==
  (struct_min_byte_size(size) - (1 + size)) \div value

at_least(value, size, min_required) ==
  Larger(union_min_number_of_elements(value, size), min_required)

\* sizeof(small_vector_storage) with n elements in its buffer: the union, the
\* byte of active_ in the union's padding where it has some, and size_.
StorageSize(value, size, n) ==
  LET union == Larger(value * n, Pointer + size)
  IN  Aligned(Aligned(union + 1, size) + size, Pointer)

=================================================================================
