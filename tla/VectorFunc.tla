------------------------------ MODULE VectorFunc ------------------------------
(***************************************************************************)
(* The functions of detail/vector_func.h, which small_vector and           *)
(* static_vector share: every operation that changes one vector.  Each     *)
(* action stands for one whole call, with the outcome it reports: "ok",    *)
(* "out_of_storage" (the member functions turn it into std::bad_alloc),    *)
(* "threw" or "terminated".  A throwing call ends in the state its guards  *)
(* and unwinders leave behind.                                             *)
(***************************************************************************)
EXTENDS VectorStorage

CONSTANTS
  Vals,     \* values of elements
  Zero,     \* the value of a value-initialized element
  Realloc,  \* support_reallocation()
  MaxSrc    \* bound of the model: the longest range passed to insert

ASSUME FuncAssumption ==
  /\ Zero \in Vals /\ {Raw, Moved, Bad} \cap Vals = {}
  /\ Realloc \in BOOLEAN /\ MaxSrc \in Nat

FreeSpace(v) == ToSize(Capacity(v) - Size(v))
Positions(v) == 0 .. Size(v)

\* The step writes slots s and size n into the storage v already has.
Write(v, s, n) ==
  /\ mem' = [mem EXCEPT ![Data(v)] = s]
  /\ vec' = [vec EXCEPT ![v].size = n]
  /\ UNCHANGED <<ty, alive, heap, leaked>>

\* The argument of emplace: a new value, or a reference to element arg.at of v.
Args(v) == [kind : {"value"}, val : Vals] \cup [kind : {"element"}, at : Span(0, Size(v))]
\* The value found through it when the slots of v are s.
Through(arg, s) == IF arg.kind = "value" THEN arg.val ELSE Get(s, arg.at)
\* The value it has when the call is made.
Passed(v, arg) == Through(arg, Slots(v))
\* The call's arguments: the value, and whether it was one of the vector's own.
Given(v, arg) == <<Passed(v, arg)>> \o IF arg.kind = "value" THEN <<>> ELSE <<"own">>

-------------------------------------------------------------------------------
(* emplace_back and push_back *)

EmplaceBackUnchecked(v, arg) ==
  /\ Size(v) < Capacity(v)
  /\ \E fate \in ArgFate(ty) :
       \/ /\ fate = "ok"
          /\ Write(v, Construct(Slots(v), Size(v), <<Passed(v, arg)>>), ToSize(Size(v) + 1))
          /\ Called("emplace_back", v, Given(v, arg), "ok")
       \/ fate # "ok" /\ Unchanged("emplace_back", v, Given(v, arg), fate)

\* Both the construction and the relocation cannot throw: the old elements are
\* relocated first, and the argument is read after that.
EmplaceBackRelocateFirst(v, arg, c) ==
  LET n   == Size(v)
      old == Destroy(Slots(v), 0, n)
      \* a bitwise relocation leaves the bytes of the source where they were
      x   == Through(arg, IF ty.triv THEN Slots(v) ELSE old)
      new == Construct(Construct(Blank(c), 0, Elements(v)), n, <<x>>)
  IN  /\ ty.nctor /\ NothrowRelocate(ty)
      /\ Exchange(v, NewBlock, new, ToSize(n + 1), old, "emplace_back")
      /\ Called("emplace_back", v, Given(v, arg), "ok")

\* A faulty order: the argument is read when the elements have already gone.
EmplaceBackConstructLast(v, arg, c) ==
  LET n   == Size(v)
      old == Destroy(Slots(v), 0, n)
      new == Construct(Construct(Blank(c), 0, Elements(v)), n, <<Through(arg, old)>>)
  IN  /\ ~(ty.nctor /\ NothrowRelocate(ty))
      /\ Exchange(v, NewBlock, new, ToSize(n + 1), old, "emplace_back")
      /\ Called("emplace_back", v, Given(v, arg), "ok")

\* Otherwise the new element is built first and destroyed when a copy throws.
EmplaceBackConstructFirst(v, arg, c) ==
  LET n    == Size(v)
      el   == Construct(Blank(c), n, <<Passed(v, arg)>>)
      done == Construct(el, 0, Elements(v))
      undo == IF NothrowRelocate(ty) THEN el ELSE Destroy(el, n, n + 1)
  IN  /\ ~(ty.nctor /\ NothrowRelocate(ty))
      /\ \/ /\ "threw" \in ArgFate(ty)
            /\ Unwind(NewBlock, Blank(c), FALSE, "emplace_back")
            /\ Called("emplace_back", v, Given(v, arg), "threw")
         \/ \E fate \in RelocateFate(ty, n) :
              \/ /\ fate = "ok"
                 /\ Exchange(v, NewBlock, done, ToSize(n + 1),
                             Destroy(Slots(v), 0, n), "emplace_back")
                 /\ Called("emplace_back", v, Given(v, arg), "ok")
              \/ /\ fate # "ok"
                 /\ Unwind(NewBlock, undo, FALSE, "emplace_back")
                 /\ Called("emplace_back", v, Given(v, arg), fate)

EmplaceBack(v, arg) ==
  /\ v \in alive
  /\ \/ EmplaceBackUnchecked(v, arg)
     \/ /\ Size(v) >= Capacity(v)
        /\ \/ /\ Realloc /\ growth(Size(v), 1) # 0
              /\ \/ EmplaceBackRelocateFirst(v, arg, growth(Size(v), 1))
                 \/ EmplaceBackConstructFirst(v, arg, growth(Size(v), 1))
              /\ UNCHANGED <<ty, alive>>
           \/ \* no growth possible, or no memory
              Unchanged("emplace_back", v, Given(v, arg), "out_of_storage")

-------------------------------------------------------------------------------
(* emplace *)

EmplaceAtEnd(v, arg) ==
  \E fate \in ArgFate(ty) :
    \/ /\ fate = "ok"
       /\ Write(v, Construct(Slots(v), Size(v), <<Passed(v, arg)>>), ToSize(Size(v) + 1))
       /\ Called("emplace", v, <<Size(v)>> \o Given(v, arg), "ok")
    \/ fate # "ok" /\ Unchanged("emplace", v, <<Size(v)>> \o Given(v, arg), fate)

\* emplace_unchecked_impl before the end: the last element goes to raw storage,
\* the size grows, the others shift, and only then the argument is read.
EmplaceShift(v, pos, arg) ==
  LET end     == Size(v) - 1
      opened  == IF ty.nmove THEN MoveToRaw(Slots(v), end, 1, end + 1)
                             ELSE Construct(Slots(v), end + 1, Read(Slots(v), end, 1))
      shifted == MoveWithin(opened, pos, end - pos, pos + 1)
      args    == <<pos>> \o Given(v, arg)
  IN  \/ \E fate \in MoveIfNoexceptFate(ty, 1) \ {"ok"} :
            Unchanged("emplace", v, args, fate)
      \/ /\ Write(v, Assign(shifted, pos, <<Through(arg, shifted)>>), ToSize(Size(v) + 1))
         /\ Called("emplace", v, args, "ok")
      \/ \* the temporary, or its move assignment, threw
         /\ ~ty.nctor \/ ~ty.nmove
         /\ Write(v, shifted, ToSize(Size(v) + 1))
         /\ Called("emplace", v, args, "threw")
      \/ \E k \in Span(0, end - pos) :  \* after k shifts a move assignment threw
            /\ ~ty.nmove
            /\ Write(v, MoveWithin(opened, end - k, k, end - k + 1), ToSize(Size(v) + 1))
            /\ Called("emplace", v, args, "threw")

\* Growth in the middle: the new element, the lower part, the upper part; each
\* guard destroys its part when a later copy throws.
EmplaceRealloc(v, pos, arg, c) ==
  LET n     == Size(v)
      args  == <<pos>> \o Given(v, arg)
      el    == Construct(Blank(c), pos, <<Passed(v, arg)>>)
      lower == Construct(el, 0, Read(Slots(v), 0, pos))
      whole == Construct(lower, pos + 1, Read(Slots(v), pos, n - pos))
      b     == NewBlock
  IN  \/ /\ "threw" \in ArgFate(ty)
         /\ Unwind(b, Blank(c), ty.nctor /\ ty.nmove, "emplace")
         /\ Called("emplace", v, args, "threw")
      \/ \E fate \in (IF ty.nmove THEN {} ELSE CopyFate(ty, pos)) \ {"ok"} :
            /\ Unwind(b, Destroy(el, pos, pos + 1), FALSE, "emplace")
            /\ Called("emplace", v, args, fate)
      \/ \E fate \in (IF ty.nmove THEN {} ELSE CopyFate(ty, n - pos)) \ {"ok"} :
            /\ Unwind(b, Destroy(Destroy(lower, 0, pos), pos, pos + 1), FALSE, "emplace")
            /\ Called("emplace", v, args, fate)
      \/ /\ Exchange(v, b, whole, ToSize(n + 1), Destroy(Slots(v), 0, n), "emplace")
         /\ Called("emplace", v, args, "ok")

Emplace(v, pos, arg) ==
  /\ v \in alive
  /\ \/ /\ FreeSpace(v) # 0
        /\ IF pos = Size(v) THEN EmplaceAtEnd(v, arg) ELSE EmplaceShift(v, pos, arg)
     \/ /\ FreeSpace(v) = 0
        /\ \/ /\ Realloc /\ growth(Size(v), 1) # 0
              /\ EmplaceRealloc(v, pos, arg, growth(Size(v), 1))
              /\ UNCHANGED <<ty, alive>>
           \/ Unchanged("emplace", v, <<pos>> \o Given(v, arg), "out_of_storage")

-------------------------------------------------------------------------------
(* insert of a range xs of objects of the value type, which are copied *)

\* is_nothrow_move_constr_and_constr_v<T, T>: what insert is noexcept on.
InsertNoexcept == ty.nmove

\* At least as many new elements as there are from pos to the end.
InsertOverEnd(v, pos, xs) ==
  LET u     == ToSize(Len(xs))
      old   == Size(v) - pos
      ext   == ToSize(Len(xs) - old)
      tail  == IF u > old THEN Construct(Slots(v), pos + old, SubSeq(xs, old + 1, old + ext))
                          ELSE Slots(v)
      size1 == IF u > old THEN ToSize(Size(v) + ext) ELSE Size(v)
      moved == MoveToRaw(tail, pos, old, pos + u)
      Done(fate, s, n) == /\ Write(v, s, n)
                          /\ Called("insert", v, <<pos, xs>>, Leaves(fate, InsertNoexcept))
  IN  \/ \E fate \in CopyFate(ty, IF u > old THEN ext ELSE 0) \ {"ok"} :
            Done(fate, Slots(v), Size(v))
      \/ \E k \in Span(0, old) :   \* after k moves to raw storage one threw
            ~ty.nmove /\ Done("threw", LeaveMoved(tail, pos, pos + k), size1)
      \/ \E k \in Span(0, old) :   \* after k copy assignments one threw
            /\ ~ty.ncopy
            /\ Done("threw", Assign(moved, pos, SubSeq(xs, 1, k)), ToSize(Size(v) + u))
      \/ Done("ok", Assign(moved, pos, SubSeq(xs, 1, old)), ToSize(Size(v) + u))

\* Fewer new elements than there are from pos to the end.
InsertInside(v, pos, xs) ==
  LET u      == ToSize(Len(xs))
      old    == Size(v) - pos
      keep   == old - u
      opened == MoveToRaw(Slots(v), pos + keep, u, pos + old)
      moved  == MoveWithin(opened, pos, keep, pos + u)
      size1  == ToSize(Size(v) + u)
      Done(fate, s, n) == /\ Write(v, s, n)
                          /\ Called("insert", v, <<pos, xs>>, Leaves(fate, InsertNoexcept))
  IN  \/ \E k \in Span(0, u) :
            ~ty.nmove /\ Done("threw", LeaveMoved(Slots(v), pos + keep, pos + keep + k), Size(v))
      \/ \E k \in Span(0, keep) :
            ~ty.nmove /\ Done("threw", MoveWithin(opened, pos + keep - k, k, pos + old - k), size1)
      \/ \E k \in Span(0, Len(xs)) :
            ~ty.ncopy /\ Done("threw", Assign(moved, pos, SubSeq(xs, 1, k)), size1)
      \/ Done("ok", Assign(moved, pos, xs), size1)

InsertRealloc(v, pos, xs, c) ==
  LET n     == Size(v)
      u     == ToSize(Len(xs))
      ext   == Construct(Blank(c), pos, SubSeq(xs, 1, u))
      lower == Construct(ext, 0, Read(Slots(v), 0, pos))
      whole == Construct(lower, pos + u, Read(Slots(v), pos, n - pos))
      b     == NewBlock
      Undo(fate, s, noop) == /\ Unwind(b, s, noop, "insert")
                             /\ Called("insert", v, <<pos, xs>>, Leaves(fate, InsertNoexcept))
  IN  \/ \E fate \in CopyFate(ty, u) \ {"ok"} : Undo(fate, Blank(c), InsertNoexcept)
      \/ \E fate \in (IF ty.nmove THEN {} ELSE CopyFate(ty, pos)) \ {"ok"} :
            Undo(fate, Destroy(ext, pos, pos + u), InsertNoexcept)
      \/ \E fate \in (IF ty.nmove THEN {} ELSE CopyFate(ty, n - pos)) \ {"ok"} :
            Undo(fate, Destroy(Destroy(lower, 0, pos), pos, pos + u), InsertNoexcept)
      \/ /\ Exchange(v, b, whole, ToSize(n + u), Destroy(Slots(v), 0, n), "insert")
         /\ Called("insert", v, <<pos, xs>>, "ok")

Insert(v, pos, xs) ==
  /\ v \in alive
  /\ LET u == ToSize(Len(xs))
     IN  \/ Len(xs) = 0 /\ Unchanged("insert", v, <<pos, xs>>, "ok")
         \/ /\ Len(xs) > 0 /\ u <= FreeSpace(v)
            /\ IF u >= Size(v) - pos THEN InsertOverEnd(v, pos, xs)
                                     ELSE InsertInside(v, pos, xs)
         \/ /\ u > FreeSpace(v)
            /\ \/ /\ Realloc /\ growth(Size(v), u) # 0
                  /\ InsertRealloc(v, pos, xs, growth(Size(v), u))
                  /\ UNCHANGED <<ty, alive>>
               \/ Unchanged("insert", v, <<pos, xs>>, "out_of_storage")

\* A source range whose end precedes its beginning.
InsertReversed(v) ==
  v \in alive /\ Unchanged("insert", v, <<0, <<>>>>, "invalid_source_range")

-------------------------------------------------------------------------------
(* erase, erase_at_end, pop_back, clear *)

\* A faulty truncation, which destroys nothing.
TruncateKeepsObjects(v, n) == Write(v, Slots(v), n)

\* erase_at_end_impl
Truncate(v, n) == Write(v, Destroy(Slots(v), n, Size(v)), n)

\* The elements behind last are moved down onto first and the rest destroyed.
EraseRange(v, first, end, op, args) ==
  LET tail    == Size(v) - end
      closed  == MoveWithin(Slots(v), end, tail, first)
  IN  \/ /\ first = end /\ Unchanged(op, v, args, "ok")
      \/ /\ first # end
         /\ \/ /\ Write(v, Destroy(closed, first + tail, Size(v)), first + tail)
               /\ Called(op, v, args, "ok")
            \/ \E k \in Span(0, tail) :   \* after k move assignments one threw
                  /\ ~ty.nmove
                  /\ Write(v, MoveWithin(Slots(v), end, k, first), Size(v))
                  /\ Called(op, v, args, "threw")

\* erase(pos); at the end it does nothing.
Erase(v, pos) ==
  v \in alive /\ EraseRange(v, pos, IF pos = Size(v) THEN pos ELSE pos + 1, "erase", <<pos>>)

Erase2(v, first, end) ==
  v \in alive /\ first <= end /\ EraseRange(v, first, end, "erase_range", <<first, end>>)

EraseAtEnd(v, pos) ==
  /\ v \in alive
  /\ IF pos < Size(v) THEN Truncate(v, pos) /\ Called("erase_at_end", v, <<pos>>, "ok")
                      ELSE Unchanged("erase_at_end", v, <<pos>>, "ok")

\* On an empty vector the call is undefined.
PopBack(v) ==
  /\ v \in alive /\ Size(v) > 0
  /\ Truncate(v, Size(v) - 1)
  /\ Called("erase_at_end", v, <<Size(v) - 1>>, "ok")

Clear(v) ==
  v \in alive /\ Truncate(v, 0) /\ Called("erase_at_end", v, <<0>>, "ok")

-------------------------------------------------------------------------------
(* reserve, shrink_to_fit, resize *)

\* relocate_elements_dyn: the elements move to a block of capacity c.
RelocateDyn(v, c, op, args) ==
  \/ /\ \E fate \in RelocateFate(ty, Size(v)) :
          \/ /\ fate = "ok"
             /\ Exchange(v, NewBlock, Construct(Blank(c), 0, Elements(v)), Size(v),
                         Destroy(Slots(v), 0, Size(v)), op)
             /\ Called(op, v, args, "ok")
          \/ /\ fate # "ok"
             /\ Unwind(NewBlock, Blank(c), NothrowRelocate(ty), op)
             /\ Called(op, v, args, fate)
     /\ UNCHANGED <<ty, alive>>
  \/ Unchanged(op, v, args, "out_of_storage")

\* relocate_elements_static: switch_static_priv_ makes the buffer active, the
\* elements follow; cond_except_holder_revert puts the block back on a throw.
RelocateStatic(v, op) ==
  \E fate \in RelocateFate(ty, Size(v)) :
    \/ /\ fate = "ok"
       /\ vec' = [vec EXCEPT ![v] = Buffered(Size(v))]
       /\ mem' = [mem EXCEPT ![v] = Construct(Blank(N), 0, Elements(v)), ![Data(v)] = Blank(0)]
       /\ heap' = heap \ Owned(v)
       /\ leaked' = leaked \cup LeakOf(Destroy(Slots(v), 0, Size(v)), op)
       /\ Called(op, v, <<>>, "ok")
       /\ UNCHANGED <<ty, alive>>
    \/ fate # "ok" /\ Unchanged(op, v, <<>>, fate)

\* A faulty reserve, which a vector of fixed capacity has too and which looks at the
\* size instead of the capacity.
ReserveAnywhere(v, c) ==
  /\ v \in alive
  /\ \/ c < MaxSize /\ c > Size(v) /\ RelocateDyn(v, c, "reserve", <<c>>)
     \/ c >= MaxSize /\ Unchanged("reserve", v, <<c>>, "out_of_storage")

Reserve(v, c) ==
  /\ v \in alive /\ Realloc
  /\ \/ /\ c < MaxSize /\ c > Capacity(v)
        /\ RelocateDyn(v, c, "reserve", <<c>>)
     \/ /\ c < MaxSize /\ c <= Capacity(v)
        /\ Unchanged("reserve", v, <<c>>, "ok")
     \/ c >= MaxSize /\ Unchanged("reserve", v, <<c>>, "out_of_storage")

ShrinkToFit(v) ==
  /\ v \in alive /\ Realloc
  /\ \/ /\ FreeSpace(v) # 0 /\ (N = 0 \/ Capacity(v) > N)
        /\ IF N = 0 \/ Size(v) > N THEN RelocateDyn(v, Size(v), "shrink_to_fit", <<>>)
                                    ELSE RelocateStatic(v, "shrink_to_fit")
     \/ /\ FreeSpace(v) = 0 \/ (N > 0 /\ Capacity(v) <= N)
        /\ Unchanged("shrink_to_fit", v, <<>>, "ok")

Zeros(n) == [i \in 1 .. n |-> Zero]

\* default_append in a new block of capacity c, which growth() gave.
AppendRealloc(v, count, c) ==
  LET n        == Size(v)
      nothrow  == NothrowRelocate(ty) /\ ty.ndef
      tail     == Construct(Blank(c), n, Zeros(count))
      undo     == IF ty.nmove THEN tail ELSE Destroy(tail, n, n + count)
      NoexAll  == ty.nmove /\ ty.ndef
  IN  \/ \E fate \in (IF nothrow THEN {} ELSE ValueFate(ty, count)) \ {"ok"} :
            /\ Unwind(NewBlock, Blank(c), nothrow, "resize")
            /\ Called("resize", v, <<n + count>>, Leaves(fate, NoexAll))
      \/ \E fate \in (IF ty.nmove \/ nothrow THEN {} ELSE CopyFate(ty, n)) \ {"ok"} :
            /\ Unwind(NewBlock, undo, nothrow, "resize")
            /\ Called("resize", v, <<n + count>>, Leaves(fate, NoexAll))
      \/ /\ Exchange(v, NewBlock, Construct(tail, 0, Elements(v)), ToSize(n + count),
                      Destroy(Slots(v), 0, n), "resize")
         /\ Called("resize", v, <<n + count>>, "ok")

DefaultAppend(v, count) ==
  \/ /\ count <= FreeSpace(v)
     /\ \E fate \in ValueFate(ty, count) :
          \/ /\ fate = "ok"
             /\ Write(v, Construct(Slots(v), Size(v), Zeros(count)), ToSize(Size(v) + count))
             /\ Called("resize", v, <<Size(v) + count>>, "ok")
          \/ fate # "ok" /\ Unchanged("resize", v, <<Size(v) + count>>, fate)
  \/ /\ count > FreeSpace(v)
     /\ \/ /\ Realloc
           /\ AppendRealloc(v, count, growth(Size(v), count))
           /\ UNCHANGED <<ty, alive>>
        \/ Unchanged("resize", v, <<Size(v) + count>>, "out_of_storage")

\* A static vector's max_size() is its capacity, a small vector's MaxSize.
MaxElements == IF Realloc THEN MaxSize ELSE N

Resize(v, n) ==
  /\ v \in alive
  /\ \/ n = Size(v) /\ Unchanged("resize", v, <<n>>, "ok")
     \/ /\ n > Size(v) /\ n <= MaxElements
        /\ DefaultAppend(v, ToSize(n - Size(v)))
     \/ /\ n < Size(v) /\ n <= MaxElements
        /\ Truncate(v, n) /\ Called("resize", v, <<n>>, "ok")
     \/ n > MaxElements /\ n # Size(v) /\ Unchanged("resize", v, <<n>>, "out_of_storage")

===============================================================================
