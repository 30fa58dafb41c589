----------------------------- MODULE StringStorage -----------------------------
(***************************************************************************)
(* The functions of detail/string_func.h.  A string keeps its characters,  *)
(* and behind them a terminator, in the storage of a small_vector (a       *)
(* buffer of N characters or a heap block) or of a static_vector (the      *)
(* buffer only).  Characters are trivial: nothing here constructs,         *)
(* destroys or throws, so a function is written as what it makes of one    *)
(* string's storage.                                                       *)
(*                                                                         *)
(* A storage value st says how the call ended (out), whether the           *)
(* characters are in a block (dyn) that the call has just allocated (new), *)
(* what size_ is, and the characters of the block or buffer, of which      *)
(* Junk are indeterminate.  Lost stands for storage after an access        *)
(* outside it, through null, or after its release.                         *)
(***************************************************************************)
EXTENDS Integers, Sequences, FiniteSets, StringGrowth

CONSTANTS
  N,        \* buffered_capacity, the terminator included
  Nul,      \* char_type{}
  Junk,     \* a character that was never written
  Lost,
  NoBlock   \* nullptr

ASSUME BufferAssumption == N \in Lengths \ {0}

\* A buffer of a default-constructed union is zeroed, other storage is not.
Filled(c, ch) == [i \in 0 .. c - 1 |-> ch]
Zeroed(c) == Filled(c, Nul)
Unset(c) == Filled(c, Junk)

Cap(s) == Cardinality(DOMAIN s)
Inside(s, a, n) == s # Lost /\ a >= 0 /\ n >= 0 /\ a + n <= Cap(s)

\* n characters from a on: a range whose end comes first is not one.
Chars(s, a, n) ==
  IF n = 0 THEN <<>>
  ELSE IF Inside(s, a, n) THEN [i \in 1 .. n |-> s[a + i - 1]] ELSE Lost

\* uninitialized_copy of the characters xs to a, as memmove does it.
Write(s, a, xs) ==
  IF xs = <<>> THEN s
  ELSE IF xs # Lost /\ Inside(s, a, Len(xs))
    THEN [i \in DOMAIN s |-> IF i \in a .. a + Len(xs) - 1 THEN xs[i - a + 1] ELSE s[i]]
    ELSE Lost

\* Inside one block, in whichever direction keeps the source intact.
CopyWithin(s, a, n, d) == Write(s, d, Chars(s, a, n))

cond_null_terminate(s, n) == Write(s, n, <<Nul>>)

Fill(n, ch) == [i \in 1 .. n |-> ch]

\* A source range: characters from elsewhere, or a part of the string itself.
Foreign(xs) == [own |-> FALSE, xs |-> xs]
Own(first, last) == [own |-> TRUE, first |-> first, last |-> last]

\* What the iterators of a source read when the string's storage holds s.
From(src, s) == IF src.own THEN Chars(s, src.first, src.last - src.first) ELSE src.xs

\* static_cast<size_type>(std::ranges::distance(first, last))
Distance(src) == ToLength(IF src.own THEN src.last - src.first ELSE Len(src.xs))

-------------------------------------------------------------------------------
InPlace(st, s, n) == [out |-> st.out, dyn |-> st.dyn, new |-> st.new, size |-> n, s |-> s]
InBlock(st, s, n) == [out |-> st.out, dyn |-> TRUE, new |-> TRUE, size |-> n, s |-> s]
InBuffer(st, s, n) == [out |-> st.out, dyn |-> FALSE, new |-> FALSE, size |-> n, s |-> s]
Refused(st, out) == [st EXCEPT !.out = out]

\* No room: a string that cannot reallocate throws std::length_error.
Overflow(realloc, st, grown) == IF realloc THEN grown ELSE Refused(st, "length_error")

RawSize(n) == ToLength(n + 1)

clear(st) == InPlace(st, cond_null_terminate(st.s, 0), 0)

\* A faulty shrink, which keeps the buffer for what needs one place more.
ShrinkForgetsTerminator(st) ==
  IF Cap(st.s) <= N THEN st
  ELSE IF N < st.size
    THEN IF growth(RawSize(st.size)) = Cap(st.s) THEN st
         ELSE InBlock(st, Write(Unset(growth(RawSize(st.size))), 0,
                                Chars(st.s, 0, st.size)), st.size)
    ELSE InBuffer(st, cond_null_terminate(Write(Zeroed(N), 0, Chars(st.s, 0, st.size)),
                                          st.size), st.size)

\* The characters are copied to a smaller block without a terminator, or to the
\* buffer with one.
shrink_to_fit(st) ==
  IF Cap(st.s) <= N THEN st
  ELSE IF N < RawSize(st.size)
    THEN IF growth(RawSize(st.size)) = Cap(st.s) THEN st
         ELSE InBlock(st, Write(Unset(growth(RawSize(st.size))), 0,
                                Chars(st.s, 0, st.size)), st.size)
    ELSE InBuffer(st, cond_null_terminate(Write(Zeroed(N), 0, Chars(st.s, 0, st.size)),
                                          st.size), st.size)

\* uninitialized_construct: the storage is new, and sz may be less than Len(xs).
uninitialized_construct(realloc, st, sz, xs) ==
  LET Hold(s) == cond_null_terminate(Write(s, 0, xs), Len(xs))
  IN  IF N < RawSize(sz)
        THEN Overflow(realloc, st, InBlock(st, Hold(Unset(growth(RawSize(sz)))), sz))
        ELSE InPlace(st, Hold(st.s), sz)

\* uninitialized_assign: a block that the buffer makes unnecessary is released
\* before the source is read.
uninitialized_assign(realloc, st, sz, src) ==
  LET Hold(s, xs) == IF xs = Lost THEN Lost
                     ELSE cond_null_terminate(Write(s, 0, xs), Len(xs))
      unpins == realloc /\ RawSize(sz) <= N /\ st.dyn
  IN  IF unpins
        THEN InBuffer(st, Hold(Zeroed(N), From(src, Lost)), sz)
      ELSE IF Cap(st.s) < RawSize(sz)
        THEN Overflow(realloc, st,
               InBlock(st, Hold(Unset(growth(RawSize(sz))), From(src, st.s)), sz))
        ELSE InPlace(st, Hold(st.s, From(src, st.s)), sz)

assign_copy(realloc, st, src) == uninitialized_assign(realloc, st, Distance(src), src)
fill_assign(realloc, st, sz, ch) ==
  uninitialized_assign(realloc, st, sz, Foreign(Fill(sz, ch)))

\* The terminator is copied with the characters.
reserve(st, n) ==
  IF RawSize(n) <= Cap(st.s) THEN st
  ELSE InBlock(st, Write(Unset(growth(RawSize(n))), 0, Chars(st.s, 0, st.size + 1)),
               st.size)

\* The capacity an operation is told of: in place with the terminator's place, in a
\* new block without it.
buff_cap(st, sz) ==
  IF RawSize(sz) <= Cap(st.s) THEN Cap(st.s) ELSE ToLength(growth(RawSize(sz)) - 1)

\* op(data, buff_cap) writes the characters xs to a and returns the size n.
resize_and_overwrite(realloc, st, sz, a, xs, n) ==
  LET Done(s) == cond_null_terminate(Write(s, a, xs), n)
      new     == Write(Unset(growth(RawSize(sz))), 0, Chars(st.s, 0, st.size))
  IN  IF RawSize(sz) <= Cap(st.s) THEN InPlace(st, Done(st.s), n)
      ELSE Overflow(realloc, st, InBlock(st, Done(new), n))

resize(realloc, st, sz, ch) ==
  resize_and_overwrite(realloc, st, sz, st.size,
                       IF sz > st.size THEN Fill(sz - st.size, ch) ELSE <<>>, sz)

append_fill(realloc, st, count, ch) ==
  LET sz == ToLength(st.size + count)
  IN  resize_and_overwrite(realloc, st, sz, st.size,
                           IF sz < st.size THEN Lost ELSE Fill(sz - st.size, ch), sz)

append_copy(realloc, st, src) ==
  LET sz == ToLength(st.size + Distance(src))
  IN  resize_and_overwrite(realloc, st, sz, st.size, From(src, st.s), sz)

push_back(realloc, st, ch) == append_fill(realloc, st, 1, ch)

\* A faulty replace of as many characters as there are, which copies front to
\* back: what overlaps repeats.
ReplaceFrontToBack(realloc, st, pos, old, new, src) ==
  IF pos > st.size THEN Refused(st, "out_of_range")
  ELSE IF old = new /\ src.own /\ src.first < pos /\ pos < src.last /\ pos + old <= st.size
    THEN InPlace(st, Write(st.s, pos, [i \in 1 .. new |->
                             st.s[src.first + ((i - 1) % (pos - src.first))]]), st.size)
    ELSE st

\* replace_aux: in place, the tail is moved first and the source read then.
replace_aux(realloc, st, pos, old, new, src) ==
  LET n    == ToLength(st.size - old + new)
      c    == growth(RawSize(n))
      tail == st.size - (pos + old)
      \* in place
      moved == IF old = new THEN st.s ELSE CopyWithin(st.s, pos + old, tail, pos + new)
      here  == Write(moved, pos, From(src, moved))
      \* in a new block
      head  == Write(Write(Unset(c), 0, Chars(st.s, 0, pos)), pos, From(src, st.s))
      there == Write(head, pos + new, Chars(st.s, pos + old, tail))
  IN  IF pos > st.size THEN Refused(st, "out_of_range")
      ELSE IF RawSize(n) <= Cap(st.s) THEN InPlace(st, cond_null_terminate(here, n), n)
      ELSE Overflow(realloc, st, InBlock(st, cond_null_terminate(there, n), n))

replace_copy(realloc, st, pos, count, src) ==
  replace_aux(realloc, st, pos, count, Distance(src), src)
replace_fill(realloc, st, pos, count, count2, ch) ==
  replace_aux(realloc, st, pos, count, count2, Foreign(Fill(count2, ch)))
insert_copy(realloc, st, pos, src) == replace_copy(realloc, st, pos, 0, src)
insert_fill(realloc, st, pos, count, ch) == replace_fill(realloc, st, pos, 0, count, ch)

\* A faulty erase, which leaves the old terminator where it was.
EraseForgetsTerminator(st, index, count) ==
  LET c == IF count < st.size - index THEN count ELSE st.size - index
  IN  InPlace(st, CopyWithin(st.s, index + c, st.size - index - c, index), st.size - c)

\* count is limited to what follows index; a larger index is not refused.
erase(st, index, count) ==
  LET room == ToLength(st.size - index)
      c    == IF count < room THEN count ELSE room
      rpos == ToLength(index + c)
      n    == ToLength(st.size - c)
  IN  InPlace(st, cond_null_terminate(CopyWithin(st.s, rpos, st.size - rpos, index), n), n)

pop_back(st) ==
  InPlace(st, cond_null_terminate(st.s, ToLength(st.size - 1)), ToLength(st.size - 1))

===============================================================================
