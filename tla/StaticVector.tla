----------------------------- MODULE StaticVector -----------------------------
(***************************************************************************)
(* static_vector: the functions of vector_func.h over the fixed storage    *)
(* static_vector_storage<V, N>, which never allocates.  Its operations are *)
(* the buffered cases of VectorStorage, except that for a trivially        *)
(* copyable type construction and assignment are defaulted and copy the    *)
(* object representation.  split_by_half moves the upper half of one       *)
(* vector to the end of another.                                           *)
(***************************************************************************)
EXTENDS SmallVector

ASSUME StaticAssumption == ~Realloc /\ N > 0 /\ N % 2 = 0

\* The model's stand-in for std::is_trivially_copyable_v<V>.
TriviallyCopyable == ty.triv /\ ty.ncopy /\ ty.nmove

\* The defaulted members: a moved-from vector keeps its elements.
Bitwise(v, w) ==
  /\ TriviallyCopyable /\ w \in alive
  /\ vec' = [vec EXCEPT ![v] = vec[w]]
  /\ mem' = [mem EXCEPT ![v] = mem[w]]
  /\ \/ v \notin alive /\ alive' = alive \cup {v} /\ Called("construct_copy", v, <<w>>, "ok")
     \/ v \in alive /\ UNCHANGED alive /\ Called("assign_copy", v, <<w>>, "ok")
  /\ UNCHANGED <<ty, heap, leaked>>

\* construct_move, construct_copy, assign_move and assign_copy of the storage.
ByElement(v, w) ==
  /\ ~TriviallyCopyable
  /\ ConstructMove(v, w) \/ ConstructCopy(v, w) \/ AssignMove(v, w) \/ AssignCopy(v, w)

\* Faulty splits: the moved half is not destroyed, or the middle of an odd number
\* of elements stays nowhere.
SplitNoDestroy(v, w) ==
  LET half == Size(v) \div 2
  IN  /\ {v, w} \subseteq alive /\ v # w /\ FreeSpace(w) >= Size(v) - half
      /\ mem' = [mem EXCEPT ![w] = Construct(@, Size(w), Read(mem[v], half, Size(v) - half))]
      /\ vec' = [vec EXCEPT ![v].size = half, ![w].size = @ + Size(v) - half]
      /\ Called("split_by_half", v, <<w>>, "ok")
      /\ UNCHANGED <<ty, alive, heap, leaked>>

SplitDropsMiddle(v, w) ==
  LET half == Size(v) \div 2
  IN  /\ {v, w} \subseteq alive /\ v # w /\ FreeSpace(w) >= half
      /\ mem' = [mem EXCEPT ![v] = Destroy(@, half, Size(v)),
                            ![w] = Construct(@, Size(w), Read(mem[v], Size(v) - half, half))]
      /\ vec' = [vec EXCEPT ![v].size = half, ![w].size = @ + half]
      /\ Called("split_by_half", v, <<w>>, "ok")
      /\ UNCHANGED <<ty, alive, heap, leaked>>

\* split_by_half: the check compares the free space of w with size/2 rounded
\* down, the move takes size/2 rounded up.
SplitByHalf(v, w) ==
  LET half  == Size(v) \div 2
      count == Size(v) - half
      grown == Read(mem[v], half, count)
      Into(s) == [i \in 0 .. (IF Size(w) + count > N THEN Size(w) + count ELSE N) - 1 |->
                    IF i \in DOMAIN s THEN s[i] ELSE Raw]
  IN  /\ {v, w} \subseteq alive /\ v # w
      /\ UNCHANGED <<ty, alive, heap, leaked>>
      /\ \/ /\ FreeSpace(w) >= half
            /\ \E fate \in IF ty.nmove THEN {"ok"} ELSE CopyFate(ty, count) :
                 \/ /\ fate = "ok"
                    /\ mem' = [mem EXCEPT ![v] = Destroy(@, half, Size(v)),
                                          ![w] = Construct(Into(@), Size(w), grown)]
                    /\ vec' = [vec EXCEPT ![v].size = half, ![w].size = @ + count]
                    /\ Called("split_by_half", v, <<w>>, "ok")
                 \/ /\ fate # "ok" /\ UNCHANGED <<vec, mem>>
                    /\ Called("split_by_half", v, <<w>>, fate)
         \/ /\ FreeSpace(w) < half /\ UNCHANGED <<vec, mem>>
            /\ Called("split_by_half", v, <<w>>, "out_of_storage")

NextStatic ==
  \/ /\ last = NoCall
     /\ \/ \E v \in Vecs : Lifetime(v)
        \/ \E v, w \in Vecs : \/ Bitwise(v, w) \/ ByElement(v, w)
                              \/ Swap(v, w) \/ SwapAborts(v, w)
                              \/ SplitByHalf(v, w)
        \/ \E v \in Editing : Edit(v)
  \/ Return

SpecStatic == Init /\ [][NextStatic]_vars

-------------------------------------------------------------------------------
\* A vector becomes unsound in three ways only: a move assignment whose copies
\* throw keeps the size of the elements it has destroyed, split_by_half writes
\* one element behind a full buffer, and insert is given a range that is longer
\* than size_type can count.
StaticLifetimes ==
  Terminated \/ \A v \in alive :
    \/ Sound(v)
    \/ last.v = v /\ last.out = "threw" /\ last.op = "assign_move"
    \/ last.op = "split_by_half" /\ Size(v) = N + 1
    \/ InsertsTooMany(v)

\* A split that reports success neither loses, duplicates nor reorders elements:
\* the upper half of v stands behind what w held, the rest is still in v.
SplitKeepsElements ==
  [][ last'.op = "split_by_half" /\ last'.out = "ok" =>
        \E v, w \in alive :
          /\ last'.v = v /\ last'.args = <<w>>
          /\ SubSeq(Elements(w)', 1, Size(w)) = Elements(w)
          /\ Elements(v) = Elements(v)' \o SubSeq(Elements(w)', Size(w) + 1, Size(w)')
          /\ Size(v)' = Size(v) \div 2 ]_vars

\* A static vector never touches the heap, whatever it is asked to hold.
NeverAllocates == heap = {} /\ \A v \in Vecs : ~IsDynamic(v)

===============================================================================
