----------------------------- MODULE SmallVector -----------------------------
(***************************************************************************)
(* A program that uses several small_vectors: every public operation of    *)
(* small_vector.h, in any order, each on a vector inside its lifetime.     *)
(* The program stops at std::terminate, and at an unsound vector, which    *)
(* C++ gives no meaning to.                                                *)
(***************************************************************************)
EXTENDS VectorFunc

CONSTANTS
  LongSources, \* ranges of more elements than size_type can count
  AliasArgs,   \* emplace and push_back are also passed the vector's own elements
  Editing      \* bound of the model: the vectors that are edited in place

ASSUME ProgramAssumption ==
  AliasArgs \in BOOLEAN /\ Editing \subseteq Vecs /\ LongSources \subseteq Seq(Vals)

Sources == (UNION {[1 .. n -> Vals] : n \in 0 .. MaxSrc}) \cup LongSources
ArgsOf(v) == {a \in Args(v) : AliasArgs \/ a.kind = "value"}

Lifetime(v) == DefaultConstruct(v) \/ DestroyVector(v)

Between(v, w) ==
  \/ ConstructMove(v, w) \/ ConstructCopy(v, w)
  \/ AssignMove(v, w) \/ AssignCopy(v, w)
  \/ Swap(v, w) \/ SwapAborts(v, w)

Edit(v) ==
  \/ \E arg \in ArgsOf(v) : EmplaceBack(v, arg)
  \/ \E arg \in ArgsOf(v), pos \in Positions(v) : Emplace(v, pos, arg)
  \/ \E xs \in Sources, pos \in Positions(v) : Insert(v, pos, xs)
  \/ InsertReversed(v)
  \/ \E pos \in Positions(v) : Erase(v, pos) \/ EraseAtEnd(v, pos)
  \/ \E first, end \in Positions(v) : Erase2(v, first, end)
  \/ PopBack(v)
  \/ Clear(v)
  \/ ShrinkToFit(v)
  \/ \E n \in Sizes : Reserve(v, n) \/ Resize(v, n)

Init == StorageInit

\* The program has seen the outcome of its call and goes on.
Return ==
  /\ last # NoCall /\ Running
  /\ last' = NoCall
  /\ UNCHANGED <<ty, alive, vec, heap, mem, leaked>>

Next ==
  \/ /\ last = NoCall
     /\ \/ \E v \in Vecs : Lifetime(v)
        \/ \E v, w \in Vecs : Between(v, w)
        \/ \E v \in Editing : Edit(v)
  \/ Return

Spec == Init /\ [][Next]_vars

-------------------------------------------------------------------------------
Terminated == last.out = "terminated"

\* emplace_back reads its argument after a relocation, and not as bytes; the
\* argument is an element of the vector.
RelocatesFirst == ty.nctor /\ ty.nmove /\ ~ty.triv
OwnGiven == last.args[Len(last.args)] = "own"
MisreadsOwn(v) ==
  last.v = v /\ last.op = "emplace_back" /\ RelocatesFirst /\ OwnGiven

\* insert was given a range longer than size_type can count.
InsertsTooMany(v) ==
  last.v = v /\ last.op = "insert" /\ Len(last.args[2]) > MaxSize

\* Exactly the slots below size() hold objects, in storage that belongs to the
\* vector, whatever sequence of calls, failed allocations and exceptions led
\* here.  The only calls that leave a vector unsound are copy and move
\* assignments that fail half way: they free the old block or destroy the old
\* elements and keep the pointer or the size; and emplace_back of an element of
\* the vector itself, when a growth relocates that element before it is read;
\* and insert of a range that is longer than size_type can count.
LifetimesExact ==
  Terminated \/ \A v \in alive :
    \/ Sound(v)
    \/ last.v = v /\ last.out = "threw" /\ last.op \in {"assign_copy", "assign_move"}
    \/ MisreadsOwn(v) \/ InsertsTooMany(v)

\* Every allocated block has exactly one owner, so nothing is freed twice and
\* nothing is lost; a vector whose block is active has no object in its buffer.
\* No call abandons storage with live objects in it, except a swap of a
\* buffered vector with a dynamic one, which copies the buffered elements and
\* overwrites them with the other side's pointer without destroying them.
BlocksOwnedOnce ==
  Terminated \/
    /\ heap \subseteq UNION {Owned(v) : v \in alive}
    /\ \A v, w \in alive : v # w => Owned(v) \cap Owned(w) = {}
    /\ \A v \in Vecs \ alive : Owned(v) = {} /\ ~AnyLive(mem[v])
    /\ \A v \in alive : IsDynamic(v) => ~AnyLive(mem[v])
    /\ leaked \subseteq {"swap"}

\* std::terminate is reached only for a type with a throwing copy constructor
\* and a nothrow default constructor or move (uninitialized_copy_n and insert
\* take their noexcept from those), or in a swap, which is noexcept.
TerminatesOnlyOnCopies ==
  Terminated => \/ ~ty.ncopy /\ (ty.ndef \/ ty.nmove)
                \/ last.op = "swap" /\ ~(ty.ncopy /\ ty.nmove)

\* The vectors implement sequences, with the guarantees VectorValue states.
Value == INSTANCE VectorValue WITH
           val <- [v \in Vecs |-> IF v \in alive THEN Elements(v) ELSE <<>>]

Refines == Value!Spec

\* A growth that is refused or that throws changes nothing a caller can see:
\* neither the elements nor the capacity, the storage or the set of blocks.  An
\* insert gives this guarantee when it is made at the end.
StrongOps == {"emplace_back", "reserve", "resize", "shrink_to_fit",
              "construct_copy", "construct_move"}
AtEnd(call) == call.op = "insert" /\ call.args[1] = Size(call.v)
StrongGuarantee ==
  [][ last'.out \notin {"ok", "terminated"} /\ (last'.op \in StrongOps \/ AtEnd(last')) =>
        UNCHANGED <<alive, vec, heap, mem, leaked>> ]_vars

\* A call that leaves a vector no larger than the capacity it had neither moves
\* its elements to other storage nor changes that capacity: references into the
\* vector stay valid after a reserve, whatever is erased and inserted again.
StaysInPlace ==
  [][ \A v \in alive \cap alive' :
        \/ Size(v)' > Capacity(v)
        \/ last'.op \in {"reserve", "shrink_to_fit", "assign_copy", "assign_move",
                         "swap", "construct_move"}
        \/ Data(v)' = Data(v) /\ Capacity(v)' = Capacity(v) ]_vars

\* emplace_back and push_back copy or move the right value even when they are
\* given a reference to an element of the vector, except when a growth relocates
\* the elements before it reads the argument, and not as bytes.
AliasedAppend ==
  [][ \A v \in alive \cap alive' :
        last'.op = "emplace_back" /\ last'.out = "ok" /\ last'.v = v =>
          \/ Elements(v)' = Append(Elements(v), last'.args[1])
          \/ Data(v)' # Data(v) /\ RelocatesFirst ]_vars

===============================================================================
