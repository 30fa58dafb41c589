-------------------------- MODULE SmallVector_proofs --------------------------
(***************************************************************************)
(* Proofs about small_vector, for every number of vectors and blocks,      *)
(* every capacity of the buffer, every width of size_type and every set of *)
(* values and value types: exactly the slots below size() hold objects,    *)
(* every block has one owner, std::terminate is reached only by the types  *)
(* that can, a call that fails changes nothing where the library promises  *)
(* that, and a call that fits into the capacity moves no element to other  *)
(* storage.  The vectors implement the sequences VectorValue states, and   *)
(* emplace_back appends what it was given.  The module also proves what    *)
(* growth() returns and how many elements fit into the buffer for nothing. *)
(*                                                                         *)
(* The argument: between two calls the state is Good.  Every call from a   *)
(* good state is Proper, which says in one formula what it does to the     *)
(* storage, to the elements and to the other vectors.  A call is shown     *)
(* proper by one of the step lemmas: it changes nothing (QuietStep),       *)
(* writes into the storage it has (WriteStep), takes a new block           *)
(* (ExchangeStep), gives one up (UnwindStep), or leaves the vectors it     *)
(* touches in order (Completes).                                           *)
(*                                                                         *)
(* For the refinement, a call Alters some vectors: the others keep their   *)
(* records and their slots, so a caller sees the same sequences in them    *)
(* (View).  What it makes of the vectors it alters is what their slots     *)
(* hold afterwards (Holds), which is followed through the operators of     *)
(* SlotMemory slot by slot.  A lemma for each call then names the step of  *)
(* VectorValue it is (ValueEdits, ValueFails, ValueMoves and so on).       *)
(***************************************************************************)
EXTENDS SmallVector, BufferLayout, FiniteSetTheorems, TLAPS

-------------------------------------------------------------------------------
(* The arithmetic of growth().                                                 *)

\* A sum that fits the wider type is not truncated.
LEMMA Fits ==
  ASSUME NEW n \in Nat, NEW m \in Nat, n <= m
  PROVE  n % (m + 1) = n
OBVIOUS

\* The grown capacity before it is saturated.
Grown(n) == n + n \div 2 + 1

\* Halving a natural number.
LEMMA Half ==
  ASSUME NEW n \in Nat
  PROVE  n \div 2 \in Nat /\ n \div 2 <= n /\ n <= 2 * (n \div 2) + 1
OBVIOUS

\* growth() either refuses, exactly when the elements cannot be counted, or it
\* returns a capacity that holds the old and the new elements, that size_type can
\* represent and that is larger than old + new unless that is the largest size.
\* The premise is that the calculation itself fits: nothing but this makes the
\* comparison with max_size in the code meaningful.
THEOREM GrowthHoldsAll ==
  ASSUME NEW old \in Sizes, NEW new \in Sizes, Grown(old + new) <= MaxCalc
  PROVE  /\ growth(old, new) = 0 <=> old + new > MaxSize
         /\ old + new <= MaxSize =>
              /\ growth(old, new) \in old + new .. MaxSize
              /\ growth(old, new) = old + new => old + new = MaxSize
<1> DEFINE n == old + new
<1>1. /\ MaxSize \in Nat \ {0} /\ MaxCalc \in Nat /\ n \in Nat
  BY SizeAssumption DEF Sizes
<1>2. /\ n \div 2 \in Nat /\ n <= MaxCalc /\ Grown(n) \in Nat
  BY <1>1, Half DEF Grown
<1>3. ToCalc(n) = n /\ ToCalc(Grown(n)) = Grown(n)
  BY <1>1, <1>2, Fits DEF ToCalc
<1>4. growth(old, new) = IF n > MaxSize THEN 0
                         ELSE IF Grown(n) < MaxSize THEN Grown(n) ELSE MaxSize
  BY <1>3 DEF growth, Grown
<1>5. Grown(n) > n
  BY <1>1, <1>2 DEF Grown
<1> HIDE DEF n
<1>6. /\ growth(old, new) = 0 <=> n > MaxSize
      /\ n <= MaxSize => /\ growth(old, new) \in n .. MaxSize
                         /\ growth(old, new) = n => n = MaxSize
  BY <1>1, <1>2, <1>4, <1>5
<1> QED
  BY <1>6 DEF n

\* For an 8, 16 or 32 bit size_type the calculation is made in a type at least
\* twice as wide, and the premise holds for all arguments.
THEOREM GrowthWide ==
  ASSUME MaxCalc >= 3 * MaxSize + 1, NEW old \in Sizes, NEW new \in Sizes
  PROVE  Grown(old + new) <= MaxCalc
<1>1. MaxSize \in Nat \ {0} /\ MaxCalc \in Nat /\ old + new \in Nat /\ old + new <= 2 * MaxSize
  BY SizeAssumption DEF Sizes
<1>2. (old + new) \div 2 <= MaxSize
  BY <1>1, Half
<1> QED
  BY <1>1, <1>2, Half DEF Grown

-------------------------------------------------------------------------------
(* The size of the in-object buffer.                                           *)

\* The room of the four size_types.
LEMMA Rooms ==
  /\ struct_min_byte_size(1) = 16 /\ struct_min_byte_size(2) = 16
  /\ struct_min_byte_size(4) = 24 /\ struct_min_byte_size(8) = 32
BY DEF struct_min_byte_size, Larger, Pointer

\* How much division leaves over.
LEMMA Quotient ==
  ASSUME NEW room \in Nat, NEW value \in Nat \ {0}
  PROVE  /\ room \div value \in Nat
         /\ value * (room \div value) \in Nat
         /\ value * (room \div value) <= room
         /\ value * ((room \div value) + 1) = value * (room \div value) + value
         /\ room < value * (room \div value) + value
<1> DEFINE q == room \div value
<1>1. q \in Nat /\ room = value * q + (room % value) /\ room % value \in 0 .. value - 1
  OBVIOUS
<1>2. value * q \in Nat /\ value * (q + 1) = value * q + value
  BY <1>1
<1> QED
  BY <1>1, <1>2

\* sizeof of a storage whose buffer has that many bytes.
LEMMA StorageBytes ==
  ASSUME NEW size \in SizeTypes, NEW value \in Nat, NEW n \in Nat, NEW bytes \in Nat,
         bytes = value * n
  PROVE  /\ bytes <= struct_min_byte_size(size) - 1 - size =>
              StorageSize(value, size, n) = struct_min_byte_size(size)
         /\ bytes > struct_min_byte_size(size) - 1 - size =>
              StorageSize(value, size, n) > struct_min_byte_size(size)
<1> DEFINE union == Larger(bytes, Pointer + size)
<1>1. StorageSize(value, size, n) = Aligned(Aligned(union + 1, size) + size, Pointer)
  BY DEF StorageSize
<1>2. CASE size = 1
  BY <1>1, <1>2, Rooms DEF Aligned, Larger, Pointer
<1>3. CASE size = 2
  BY <1>1, <1>3, Rooms DEF Aligned, Larger, Pointer
<1>4. CASE size = 4
  BY <1>1, <1>4, Rooms DEF Aligned, Larger, Pointer
<1>5. CASE size = 8
  BY <1>1, <1>5, Rooms DEF Aligned, Larger, Pointer
<1> QED
  BY <1>2, <1>3, <1>4, <1>5 DEF SizeTypes

\* A small_vector with union_min_number_of_elements in its buffer is no larger
\* than one that has only a heap block, and with one element more it is larger;
\* at_least() returns no fewer elements than it is asked for or than fit.
THEOREM BufferFills ==
  ASSUME NEW size \in SizeTypes, NEW value \in Nat \ {0}, NEW wanted \in Nat
  PROVE  LET n == union_min_number_of_elements(value, size)
         IN  /\ StorageSize(value, size, n) = struct_min_byte_size(size)
             /\ StorageSize(value, size, n + 1) > struct_min_byte_size(size)
             /\ at_least(value, size, wanted) \in {n, wanted}
             /\ at_least(value, size, wanted) >= n /\ at_least(value, size, wanted) >= wanted
<1> DEFINE room == struct_min_byte_size(size) - (1 + size)
           n == union_min_number_of_elements(value, size)
<1>1. room \in Nat /\ struct_min_byte_size(size) \in Nat /\ size \in Nat
  BY Rooms DEF SizeTypes
<1>2. n = room \div value
  BY DEF union_min_number_of_elements
<1> HIDE DEF room, n
<1>3. /\ n \in Nat /\ value * n \in Nat /\ value * n <= room
      /\ value * (n + 1) \in Nat /\ value * (n + 1) > room
  BY <1>1, <1>2, Quotient
<1>4. room = struct_min_byte_size(size) - 1 - size
  BY <1>1 DEF room
<1>5. StorageSize(value, size, n) = struct_min_byte_size(size)
  BY <1>1, <1>3, <1>4, StorageBytes
<1>6. StorageSize(value, size, n + 1) > struct_min_byte_size(size)
  <2>1. n + 1 \in Nat
    BY <1>3
  <2> QED
    BY <1>1, <1>3, <1>4, <2>1, StorageBytes
<1>7. /\ at_least(value, size, wanted) \in {n, wanted}
      /\ at_least(value, size, wanted) >= n /\ at_least(value, size, wanted) >= wanted
  BY <1>3 DEF at_least, n, Larger
<1> QED
  BY <1>5, <1>6, <1>7 DEF n

(* Storage.  Objects live in a set of slots of a block, and each operator of   *)
(* SlotMemory adds slots to that set, takes slots away or leaves it as it is.  *)

\* A value that is an object's.
Living(x) == x \notin {Raw, Bad}

\* A block of storage of capacity c.
IsBlock(s, c) == s = [i \in 0 .. c - 1 |-> s[i]]

\* A block of capacity c in which objects live exactly in the slots L.
Occupied(s, c, L) ==
  /\ IsBlock(s, c)
  /\ \A i \in 0 .. c - 1 : IF i \in L THEN Living(s[i]) ELSE s[i] = Raw

\* A sequence of values of objects.
Objects(xs) == Len(xs) \in Nat /\ \A j \in 1 .. Len(xs) : Living(xs[j])

\* Fresh storage holds no object.
LEMMA BlankOccupied ==
  ASSUME NEW c \in Int
  PROVE  Occupied(Blank(c), c, {})
BY DEF Occupied, IsBlock, Blank

\* Only the capacity and the slots matter, not how their set is written.
LEMMA SameSlots ==
  ASSUME NEW s, NEW c \in Int, NEW L, Occupied(s, c, L), NEW K,
         \A i \in 0 .. c - 1 : i \in L <=> i \in K
  PROVE  Occupied(s, c, K)
BY DEF Occupied, IsBlock

\* Storage without objects can be given up.
LEMMA NoObjects ==
  ASSUME NEW s, NEW c \in Int, Occupied(s, c, {})
  PROVE  ~AnyLive(s)
BY DEF Occupied, IsBlock, AnyLive

\* What is read from slots with objects are their values.
LEMMA ReadObjects ==
  ASSUME NEW s, NEW c \in Int, NEW L, Occupied(s, c, L),
         NEW a \in Int, NEW n \in Nat, Span(a, a + n) \subseteq L \cap (0 .. c - 1)
  PROVE  /\ Len(Read(s, a, n)) = n /\ Objects(Read(s, a, n))
         /\ \A j \in 1 .. n : Read(s, a, n)[j] = s[a + j - 1]
<1> DEFINE xs == Read(s, a, n)
           S == {xs[j] : j \in 1 .. n}
<1>1. xs \in [1 .. n -> S]
  BY DEF Read
<1>2. Len(xs) = n
  BY <1>1
<1>3. \A j \in 1 .. n : xs[j] = Get(s, a + j - 1)
  BY DEF Read
<1>4. \A j \in 1 .. n : a + j - 1 \in Span(a, a + n)
  BY DEF Span
<1>5. DOMAIN s = 0 .. c - 1 /\ \A i \in L \cap (0 .. c - 1) : Living(s[i])
  BY DEF Occupied, IsBlock
<1>6. \A j \in 1 .. n : xs[j] = s[a + j - 1] /\ Living(xs[j])
  BY <1>3, <1>4, <1>5 DEF Get, Living
<1> QED
  BY <1>2, <1>6 DEF Objects

\* Objects constructed where none lived.
LEMMA ConstructOccupied ==
  ASSUME NEW s, NEW c \in Int, NEW L, Occupied(s, c, L),
         NEW a \in Int, NEW xs, Objects(xs), Span(a, a + Len(xs)) \cap L = {}
  PROVE  Occupied(Construct(s, a, xs), c, L \cup Span(a, a + Len(xs)))
<1>1. \A i \in Span(a, a + Len(xs)) : i - a + 1 \in 1 .. Len(xs)
  BY DEF Span, Objects
<1> QED
  BY <1>1 DEF Occupied, IsBlock, Construct, Objects

\* Objects assigned to.
LEMMA AssignOccupied ==
  ASSUME NEW s, NEW c \in Int, NEW L, Occupied(s, c, L),
         NEW a \in Int, NEW xs, Objects(xs), Span(a, a + Len(xs)) \subseteq L
  PROVE  Occupied(Assign(s, a, xs), c, L)
<1>1. \A i \in Span(a, a + Len(xs)) : i - a + 1 \in 1 .. Len(xs)
  BY DEF Span, Objects
<1> QED
  BY <1>1 DEF Occupied, IsBlock, Assign, Objects, Living

\* Objects destroyed.
LEMMA DestroyOccupied ==
  ASSUME NEW s, NEW c \in Int, NEW L, Occupied(s, c, L), NEW a, NEW b,
         Span(a, b) \subseteq L
  PROVE  Occupied(Destroy(s, a, b), c, L \ Span(a, b))
BY DEF Occupied, IsBlock, Destroy, Living

\* Moved-from objects are objects still.
LEMMA LeaveMovedOccupied ==
  ASSUME NEW s, NEW c \in Int, NEW L, Occupied(s, c, L), NEW a, NEW b
  PROVE  Occupied(LeaveMoved(s, a, b), c, L)
BY SlotAssumption DEF Occupied, IsBlock, LeaveMoved, Living

\* Objects move-assigned to others of the same block.
LEMMA MoveWithinOccupied ==
  ASSUME NEW s, NEW c \in Int, NEW L, Occupied(s, c, L),
         NEW a \in Int, NEW n \in Int, NEW d \in Int,
         Span(a, a + n) \subseteq L \cap (0 .. c - 1), Span(d, d + n) \subseteq L
  PROVE  Occupied(MoveWithin(s, a, n, d), c, L)
<1>1. \A i \in Span(d, d + n) : i - d + a \in Span(a, a + n)
  BY DEF Span
<1> QED
  BY <1>1, SlotAssumption DEF Occupied, IsBlock, MoveWithin, Get, Living

\* Objects moved to slots where none lived.
LEMMA MoveToRawOccupied ==
  ASSUME NEW s, NEW c \in Int, NEW L, Occupied(s, c, L),
         NEW a \in Int, NEW n \in Nat, NEW d \in Int,
         Span(a, a + n) \subseteq L \cap (0 .. c - 1), Span(d, d + n) \cap L = {}
  PROVE  Occupied(MoveToRaw(s, a, n, d), c, L \cup Span(d, d + n))
<1> DEFINE xs == Read(s, a, n)
           left == LeaveMoved(s, a, a + n)
<1>1. Len(xs) = n /\ Objects(xs)
  <2>1. Len(Read(s, a, n)) = n /\ Objects(Read(s, a, n))
    BY ReadObjects
  <2> QED
    BY <2>1
<1>2. Occupied(left, c, L)
  BY LeaveMovedOccupied
<1> HIDE DEF xs, left
<1>3. Occupied(Construct(left, d, xs), c, L \cup Span(d, d + n))
  BY <1>1, <1>2, ConstructOccupied
<1> QED
  BY <1>3 DEF MoveToRaw, xs, left

-------------------------------------------------------------------------------
(* The state between two calls, and what a call may do to it.                  *)

Traits == [ndef : BOOLEAN, nctor : BOOLEAN, ncopy : BOOLEAN, nmove : BOOLEAN,
           triv : BOOLEAN]

StorageRecord ==
  [active : {"buffered"}, ptr : {NoBlock}, cap : {0}, size : Sizes]
    \cup [active : {"dynamic"}, ptr : Blocks \cup {NoBlock}, cap : Sizes, size : Sizes]

\* The storage of a living vector has the capacity its record says.
Typed ==
  /\ ty \in Traits /\ alive \subseteq Vecs /\ heap \subseteq Blocks
  /\ vec \in [Vecs -> StorageRecord]
  /\ mem = [p \in Places |-> mem[p]]
  /\ IsBlock(mem[NoBlock], 0)
  /\ \A v \in Vecs : IsBlock(mem[v], N)
  /\ \A v \in alive : IsBlock(Slots(v), Capacity(v))

\* No block has two owners, a vector that is not alive has nothing, and a vector
\* with a block has nothing in its buffer.
Owning ==
  /\ \A v, w \in alive : v # w => Owned(v) \cap Owned(w) = {}
  /\ \A v \in Vecs \ alive : Owned(v) = {} /\ ~AnyLive(mem[v])
  /\ \A v \in alive : IsDynamic(v) => ~AnyLive(mem[v])

\* The states in which a program makes a call.
Good == Typed /\ Owning /\ \A v \in alive : Sound(v)

\* An allocated block without an owner.
Lost(b) == b \in heap /\ \A v \in alive : b \notin Owned(v)

\* The calls that leave a vector unsound.
AssignFails(v) ==
  last.v = v /\ last.out = "threw" /\ last.op \in {"assign_copy", "assign_move"}
Excused(v) == AssignFails(v) \/ MisreadsOwn(v) \/ InsertsTooMany(v)

OnlyCopies == \/ ~ty.ncopy /\ (ty.ndef \/ ty.nmove)
              \/ last.op = "swap" /\ ~(ty.ncopy /\ ty.nmove)

\* What a call does that leaves v unsound: the copies of a move assignment throw, or
\* those of a copy assignment that has to grow; emplace_back moves v to another
\* block before it reads the argument; or an insert counts too few elements.
Slips(v) ==
  \/ last'.v = v /\ last'.out = "threw" /\ last'.op = "assign_move"
  \/ /\ last'.v = v /\ last'.out = "threw" /\ last'.op = "assign_copy"
     /\ \E w \in alive : Size(w) > Capacity(v)
  \/ MisreadsOwn(v)' /\ Data(v)' # Data(v)
  \/ InsertsTooMany(v)'

\* A call that ends with the storage in order.
Orderly ==
  /\ (\A v \in alive' : Sound(v)') => Typed'
  /\ Owning'
  /\ \A b : Lost(b)' => Lost(b)
  /\ leaked' \subseteq leaked \cup IF last'.op = "swap" THEN {"swap"} ELSE {}
  /\ \A v \in alive' : Sound(v)' \/ Slips(v)

\* The bodies of StrongGuarantee and StaysInPlace.
Strong ==
  last'.out \notin {"ok", "terminated"} /\ (last'.op \in StrongOps \/ AtEnd(last')) =>
    UNCHANGED <<alive, vec, heap, mem, leaked>>

Stays ==
  \A v \in alive \cap alive' :
    \/ Size(v)' > Capacity(v)
    \/ last'.op \in {"reserve", "shrink_to_fit", "assign_copy", "assign_move",
                     "swap", "construct_move"}
    \/ Data(v)' = Data(v) /\ Capacity(v)' = Capacity(v)

\* What every call does.
Proper ==
  /\ Terminated' => OnlyCopies'
  /\ Terminated' \/ Orderly
  /\ Strong /\ Stays

\* The program waits for a call, or has seen one end.
Inv == (Running => Typed) /\ LifetimesExact /\ BlocksOwnedOnce /\ TerminatesOnlyOnCopies

\* The constants in the form the proofs use them.
LEMMA Constants ==
  /\ MaxSize \in Nat \ {0} /\ N \in Nat /\ N <= MaxSize /\ NoBlock \notin Blocks
  /\ \A v \in Vecs : v \notin Blocks /\ v # NoBlock
  /\ Realloc \in BOOLEAN /\ Types \subseteq Traits
BY SizeAssumption, StorageAssumption, FuncAssumption DEF Sizes, Traits

\* Truncation gives a size, and leaves a size as it is.
LEMMA Truncated ==
  /\ \A n \in Int : ToSize(n) \in Sizes
  /\ \A n \in Sizes : ToSize(n) = n
BY SizeAssumption DEF ToSize, Sizes

\* The facts about one vector of a good state.
LEMMA OfVector ==
  ASSUME Good, NEW v \in alive
  PROVE  /\ v \in Vecs /\ vec[v] \in StorageRecord
         /\ Size(v) \in Nat /\ Capacity(v) \in Nat /\ Size(v) <= Capacity(v)
         /\ Capacity(v) <= MaxSize
         /\ Data(v) \in Places
         /\ Occupied(Slots(v), Capacity(v), Span(0, Size(v)))
         /\ IsDynamic(v) => Data(v) \in heap \cup {NoBlock} /\ Data(v) = vec[v].ptr
         /\ ~IsDynamic(v) => Data(v) = v /\ Capacity(v) = N
<1>1. v \in Vecs /\ vec[v] \in StorageRecord
  BY DEF Good, Typed
<1>2. Size(v) \in Nat /\ Capacity(v) \in Nat /\ Capacity(v) <= MaxSize
  BY <1>1, Constants DEF StorageRecord, Size, Capacity, IsDynamic, Sizes
<1>3. IsDynamic(v) => Data(v) \in heap \cup {NoBlock} /\ Data(v) = vec[v].ptr
  BY DEF Good, Sound, Data
<1>4. ~IsDynamic(v) => Data(v) = v /\ Capacity(v) = N
  BY DEF Data, Capacity
<1>5. Data(v) \in Places
  BY <1>1, <1>3, <1>4 DEF Places, Good, Typed
<1>6. Sound(v) /\ IsBlock(Slots(v), Capacity(v))
  BY DEF Good, Typed
<1>7. Occupied(Slots(v), Capacity(v), Span(0, Size(v)))
  BY <1>2, <1>6 DEF Sound, Occupied, IsBlock, Span, Living
<1> QED
  BY <1>1, <1>2, <1>3, <1>4, <1>5, <1>6, <1>7 DEF Sound

\* Storage with the right slots occupied makes a vector sound.
LEMMA MakesSound ==
  ASSUME NEW v, IsDynamic(v) /\ vec[v].ptr # NoBlock => vec[v].ptr \in heap,
         Size(v) \in Nat, Capacity(v) \in Nat, Size(v) <= Capacity(v),
         Occupied(Slots(v), Capacity(v), Span(0, Size(v)))
  PROVE  Sound(v)
BY DEF Sound, Occupied, IsBlock, Span, Living

\* Copying may throw, and the exception may meet a noexcept function.
CopiesThrow == ~ty.ncopy /\ (ty.ndef \/ ty.nmove)

\* Two vectors keep their elements in different places.
LEMMA Apart ==
  ASSUME Good, NEW v \in alive, NEW w \in alive, v # w
  PROVE  Data(v) # Data(w) \/ (Data(v) = NoBlock /\ Data(w) = NoBlock)
<1>1. IsDynamic(v) /\ IsDynamic(w) => Data(v) # Data(w) \/ Data(v) = NoBlock
  BY DEF Good, Owning, Owned, Data
<1>2. Data(v) \in (heap \cup {NoBlock}) \cup {v} /\ Data(w) \in (heap \cup {NoBlock}) \cup {w}
  BY OfVector
<1>3. /\ IsDynamic(v) => Data(v) \notin Vecs
      /\ IsDynamic(w) => Data(w) \notin Vecs
      /\ v \in Vecs /\ w \in Vecs
  BY OfVector, Constants DEF Good, Typed
<1> QED
  BY <1>1, <1>2, <1>3, OfVector

\* A vector that a call does not touch.
LEMMA Untouched ==
  ASSUME Good, NEW w \in alive, vec'[w] = vec[w], mem'[Data(w)] = mem[Data(w)],
         Owned(w) \subseteq heap'
  PROVE  /\ Sound(w)' /\ Owned(w)' = Owned(w) /\ IsDynamic(w)' = IsDynamic(w)
         /\ Slots(w)' = Slots(w) /\ Capacity(w)' = Capacity(w) /\ Size(w)' = Size(w)
         /\ Data(w)' = Data(w)
<1>1. /\ Owned(w)' = Owned(w) /\ IsDynamic(w)' = IsDynamic(w) /\ Data(w)' = Data(w)
      /\ Capacity(w)' = Capacity(w) /\ Size(w)' = Size(w) /\ Slots(w)' = Slots(w)
  BY DEF Owned, IsDynamic, Data, Capacity, Size, Slots
<1>2. Sound(w)
  BY DEF Good
<1> QED
  BY <1>1, <1>2 DEF Sound, Owned

\* The allocator's block is fresh.
LEMMA FreshBlock ==
  ASSUME NEW used, MemoryLeft(used)
  PROVE  BlockOutside(used) \in Blocks \ used
<1>1. \E b \in Blocks \ used : TRUE
  BY DEF MemoryLeft
<1> QED
  BY <1>1, Zenon DEF BlockOutside

\* A call that changes no vector.
LEMMA QuietStep ==
  ASSUME Good, NEW op, NEW v, NEW args, NEW out, Unchanged(op, v, args, out),
         out = "terminated" => CopiesThrow \/ (op = "swap" /\ ~(ty.ncopy /\ ty.nmove))
  PROVE  Proper
<1>1. /\ UNCHANGED <<ty, alive, vec, heap, mem, leaked>>
      /\ last' = [op |-> op, v |-> v, args |-> args, out |-> out]
  BY DEF Unchanged, Called
<1>2. Terminated' => OnlyCopies'
  BY <1>1 DEF Terminated, OnlyCopies, CopiesThrow
<1>3. \A w \in alive : /\ Sound(w)' /\ Owned(w)' = Owned(w) /\ IsDynamic(w)' = IsDynamic(w)
                       /\ Slots(w)' = Slots(w) /\ Capacity(w)' = Capacity(w)
                       /\ Data(w)' = Data(w)
  <2>1. \A w \in alive : Owned(w) \subseteq heap
    BY DEF Good, Sound, Owned
  <2> QED
    BY <1>1, <2>1, Untouched
<1>4. Typed'
  BY <1>1, <1>3 DEF Good, Typed
<1>5. Owning'
  BY <1>1, <1>3 DEF Good, Owning, AnyLive, Owned, IsDynamic
<1>6. Orderly
  BY <1>1, <1>3, <1>4, <1>5 DEF Orderly, Lost
<1>7. Strong /\ Stays
  BY <1>1, <1>3 DEF Strong, Stays
<1> QED
  BY <1>2, <1>6, <1>7 DEF Proper

\* A call that changes the storage of the vectors in V alone, which own the blocks
\* in Old before it and the blocks in New after it, and gives them no block that
\* another vector has.
Touches(V, Old, New) ==
  /\ V \subseteq Vecs /\ alive' \subseteq Vecs /\ alive' \ V = alive \ V /\ ty' = ty
  /\ vec' \in [Vecs -> StorageRecord] /\ \A w \in Vecs \ V : vec'[w] = vec[w]
  /\ mem' = [p \in Places |-> mem'[p]] /\ mem'[NoBlock] = mem[NoBlock]
  /\ \A p \in Places : p \notin V \cup Old \cup New => mem'[p] = mem[p]
  /\ Old = UNION {Owned(x) : x \in V} /\ New = UNION {Owned(x)' : x \in V}
  /\ heap' \subseteq Blocks /\ heap \ Old \subseteq heap' /\ New \cap (heap \ Old) = {}
  /\ \A x \in V : /\ IsBlock(mem'[x], N)
                  /\ x \notin alive' => Owned(x)' = {} /\ ~AnyLive(mem'[x])
                  /\ IsDynamic(x)' => ~AnyLive(mem'[x])
  /\ \A x, y \in V \cap alive' : x # y => Owned(x)' \cap Owned(y)' = {}

\* The other vectors keep what they have, and what the call leaves in order in the
\* vectors it touches is in order in the whole program.
LEMMA SomeVectors ==
  ASSUME Good, NEW V, NEW Old, NEW New, Touches(V, Old, New)
  PROVE  /\ (\A x \in V \cap alive' : IsBlock(Slots(x)', Capacity(x)')) => Typed'
         /\ Owning'
         /\ heap' \subseteq (heap \ Old) \cup New => \A b : Lost(b)' => Lost(b)
         /\ \A w \in alive \ V :
              Sound(w)' /\ Data(w)' = Data(w) /\ Capacity(w)' = Capacity(w)
<1>0. /\ V \subseteq Vecs /\ alive' \subseteq Vecs /\ alive' \ V = alive \ V /\ ty' = ty
      /\ vec' \in [Vecs -> StorageRecord] /\ \A w \in Vecs \ V : vec'[w] = vec[w]
      /\ mem' = [p \in Places |-> mem'[p]] /\ mem'[NoBlock] = mem[NoBlock]
      /\ \A p \in Places : p \notin V \cup Old \cup New => mem'[p] = mem[p]
      /\ Old = UNION {Owned(x) : x \in V} /\ New = UNION {Owned(x)' : x \in V}
      /\ heap' \subseteq Blocks /\ heap \ Old \subseteq heap' /\ New \cap (heap \ Old) = {}
      /\ \A x \in V : /\ IsBlock(mem'[x], N)
                      /\ x \notin alive' => Owned(x)' = {} /\ ~AnyLive(mem'[x])
                      /\ IsDynamic(x)' => ~AnyLive(mem'[x])
      /\ \A x, y \in V \cap alive' : x # y => Owned(x)' \cap Owned(y)' = {}
  BY DEF Touches
<1>1. /\ vec \in [Vecs -> StorageRecord] /\ alive \subseteq Vecs /\ heap \subseteq Blocks
      /\ mem = [p \in Places |-> mem[p]]
  BY DEF Good, Typed
<1>2. \A x \in V, w \in alive \ V : Owned(w) \cap Owned(x) = {}
  BY <1>0, <1>1 DEF Good, Owning
<1>3. \A w \in alive \ V : Owned(w) \subseteq heap \ Old
  <2> SUFFICES ASSUME NEW w \in alive \ V
               PROVE  Owned(w) \subseteq heap \ Old
    OBVIOUS
  <2>1. Owned(w) \subseteq heap
    BY DEF Good, Sound, Owned
  <2> QED
    BY <1>0, <1>2, <2>1
<1>4. \A w \in alive \ V :
        Data(w) = NoBlock \/ (Data(w) = w /\ ~IsDynamic(w)) \/ Data(w) \in Owned(w)
  BY DEF Data, Owned
<1>5. \A x \in Vecs : Owned(x) \subseteq Blocks /\ Owned(x)' \subseteq Blocks
  BY <1>0, <1>1, Constants DEF Owned, IsDynamic, StorageRecord
<1>6. Old \subseteq Blocks /\ New \subseteq Blocks
  BY <1>0, <1>5
<1>7. \A w \in Vecs \ V : mem'[w] = mem[w]
  BY <1>0, <1>6, Constants DEF Places
<1>8. \A w \in alive \ V : mem'[Data(w)] = mem[Data(w)]
  <2> SUFFICES ASSUME NEW w \in alive \ V
               PROVE  mem'[Data(w)] = mem[Data(w)]
    OBVIOUS
  <2>1. CASE Data(w) \in Owned(w)
    <3>1. Data(w) \in Blocks /\ Data(w) \notin Old /\ Data(w) \notin New
      BY <1>0, <1>1, <1>3, <1>5, <2>1
    <3> QED
      BY <1>0, <3>1, Constants DEF Places
  <2> QED
    BY <1>0, <1>1, <1>4, <1>7, <2>1
<1>9. \A w \in alive \ V :
        /\ Sound(w)' /\ Owned(w)' = Owned(w) /\ IsDynamic(w)' = IsDynamic(w)
        /\ Slots(w)' = Slots(w) /\ Capacity(w)' = Capacity(w) /\ Data(w)' = Data(w)
  BY <1>0, <1>1, <1>3, <1>8, Untouched
<1>10. ASSUME \A x \in V \cap alive' : IsBlock(Slots(x)', Capacity(x)')
       PROVE  Typed'
  <2>1. \A w \in Vecs : IsBlock(mem'[w], N)
    BY <1>0, <1>7 DEF Good, Typed
  <2>2. IsBlock(mem'[NoBlock], 0)
    BY <1>0 DEF Good, Typed
  <2>3. \A w \in alive \ V : IsBlock(Slots(w), Capacity(w))
    BY DEF Good, Typed
  <2>4. \A w \in alive' : IsBlock(Slots(w)', Capacity(w)')
    BY <1>0, <1>9, <1>10, <2>3
  <2> QED
    BY <1>0, <2>1, <2>2, <2>4 DEF Good, Typed
<1>11. Owning'
  <2>1. \A w, u \in alive' : w # u => Owned(w)' \cap Owned(u)' = {}
    <3> SUFFICES ASSUME NEW w \in alive', NEW u \in alive', w # u
                 PROVE  Owned(w)' \cap Owned(u)' = {}
      OBVIOUS
    <3>1. CASE w \in V /\ u \in V
      BY <1>0, <3>1
    <3>2. CASE w \notin V /\ u \notin V
      BY <1>0, <1>9, <3>2 DEF Good, Owning
    <3>3. CASE w \in V /\ u \notin V
      <4>1. Owned(w)' \subseteq New /\ Owned(u)' \subseteq heap \ Old
        BY <1>0, <1>3, <1>9, <3>3
      <4> QED
        BY <1>0, <4>1
    <3>4. CASE w \notin V /\ u \in V
      <4>1. Owned(u)' \subseteq New /\ Owned(w)' \subseteq heap \ Old
        BY <1>0, <1>3, <1>9, <3>4
      <4> QED
        BY <1>0, <4>1
    <3> QED
      BY <3>1, <3>2, <3>3, <3>4
  <2>2. \A w \in Vecs \ alive' : Owned(w)' = {} /\ ~AnyLive(mem'[w])
    <3> SUFFICES ASSUME NEW w \in Vecs \ alive', w \notin V
                 PROVE  Owned(w)' = {} /\ ~AnyLive(mem'[w])
      BY <1>0
    <3>1. w \in Vecs \ alive /\ vec'[w] = vec[w] /\ mem'[w] = mem[w]
      BY <1>0, <1>7
    <3> QED
      BY <1>0, <3>1 DEF Good, Owning, Owned, IsDynamic
  <2>3. \A w \in alive' : IsDynamic(w)' => ~AnyLive(mem'[w])
    BY <1>0, <1>1, <1>7, <1>9 DEF Good, Owning
  <2> QED
    BY <2>1, <2>2, <2>3 DEF Owning, AnyLive
<1>12. ASSUME heap' \subseteq (heap \ Old) \cup New, NEW b, Lost(b)'
       PROVE  Lost(b)
  <2>1. b \in heap' /\ \A w \in alive' : b \notin Owned(w)'
    BY <1>12 DEF Lost
  <2>2. \A x \in V : b \notin Owned(x)'
    BY <1>0, <2>1
  <2>3. b \in heap \ Old
    BY <1>0, <1>12, <2>1, <2>2
  <2>4. \A w \in alive : b \notin Owned(w)
    <3> SUFFICES ASSUME NEW w \in alive
                 PROVE  b \notin Owned(w)
      OBVIOUS
    <3>1. CASE w \in V
      BY <1>0, <2>3, <3>1
    <3>2. CASE w \notin V
      BY <1>0, <1>9, <2>1, <3>2
    <3> QED
      BY <3>1, <3>2
  <2> QED
    BY <2>3, <2>4 DEF Lost
<1> QED
  BY <1>9, <1>10, <1>11, <1>12

\* The same for a single living vector.
LEMMA OneVector ==
  ASSUME Good, NEW v \in alive, NEW rec \in StorageRecord,
         UNCHANGED <<ty, alive>>, vec' = [vec EXCEPT ![v] = rec],
         mem' = [p \in Places |-> mem'[p]],
         \A p \in Places : p \notin {Data(v), v} \cup Owned(v)' => mem'[p] = mem[p],
         mem'[NoBlock] = mem[NoBlock],
         IsBlock(mem'[v], N), IsDynamic(v)' => ~AnyLive(mem'[v]),
         heap' \subseteq Blocks, heap' \subseteq (heap \ Owned(v)) \cup Owned(v)',
         heap \ Owned(v) \subseteq heap', Owned(v)' \cap (heap \ Owned(v)) = {}
  PROVE  /\ IsBlock(Slots(v)', Capacity(v)') => Typed'
         /\ Owning'
         /\ \A b : Lost(b)' => Lost(b)
         /\ \A w \in alive \ {v} :
              Sound(w)' /\ Data(w)' = Data(w) /\ Capacity(w)' = Capacity(w)
<1>1. /\ v \in Vecs /\ vec \in [Vecs -> StorageRecord] /\ alive \subseteq Vecs /\ alive' = alive
  BY OfVector DEF Good, Typed
<1>2. Data(v) \in {v, NoBlock} \cup Owned(v)
  BY DEF Data, Owned
<1> DEFINE V == {v}
           Old == Owned(v)
           New == Owned(v)'
<1>3. V \subseteq Vecs /\ alive' \subseteq Vecs /\ alive' \ V = alive \ V
      /\ \A w \in Vecs \ V : vec'[w] = vec[w]
  BY <1>1
<1>4. /\ Old = UNION {Owned(x) : x \in V} /\ New = UNION {Owned(x)' : x \in V}
      /\ \A x, y \in V \cap alive' : x # y => Owned(x)' \cap Owned(y)' = {}
  OBVIOUS
<1>5. \A p \in Places : p \notin V \cup Old \cup New => mem'[p] = mem[p]
  BY <1>2
<1>6. \A x \in V : /\ IsBlock(mem'[x], N)
                   /\ x \notin alive' => Owned(x)' = {} /\ ~AnyLive(mem'[x])
                   /\ IsDynamic(x)' => ~AnyLive(mem'[x])
  BY <1>1
<1>7. heap \ Old \subseteq heap' /\ New \cap (heap \ Old) = {} /\ heap' \subseteq (heap \ Old) \cup New
  OBVIOUS
<1>8. v \in V /\ \A x \in V : x = v
  OBVIOUS
<1> HIDE DEF V, Old, New
<1>9. Touches(V, Old, New)
  BY <1>1, <1>3, <1>4, <1>5, <1>6, <1>7 DEF Touches
<1> QED
  BY <1>7, <1>8, <1>9, SomeVectors

\* A vector whose new storage holds the right objects.
LEMMA NowSound ==
  ASSUME NEW v, NEW c \in Nat, NEW n \in Nat, n <= c, Capacity(v)' = c, Size(v)' = n,
         Owned(v)' \subseteq heap', Occupied(Slots(v)', c, Span(0, n))
  PROVE  Sound(v)'
BY DEF Sound, Owned, Occupied, IsBlock, Span, Living

\* A call on v that writes slots and a size into the storage v has.
LEMMA WriteStep ==
  ASSUME Good, NEW v \in alive, NEW s, NEW n \in Sizes, Write(v, s, n),
         NEW op, NEW args, NEW out, Called(op, v, args, out),
         IsBlock(s, Capacity(v)),
         \/ Occupied(s, Capacity(v), Span(0, n)) /\ n <= Capacity(v)
         \/ op = "insert" /\ Len(args[2]) > MaxSize,
         out = "terminated" => CopiesThrow,
         \/ out \in {"ok", "terminated"}
         \/ op \in {"emplace", "erase", "erase_range"}
         \/ op = "insert" /\ args[1] # Size(v)
         \/ s = Slots(v) /\ n = Size(v)
  PROVE  Proper
<1> DEFINE rec == [vec[v] EXCEPT !.size = n]
<1>1. /\ UNCHANGED <<ty, alive, heap, leaked>>
      /\ mem' = [mem EXCEPT ![Data(v)] = s]
      /\ vec' = [vec EXCEPT ![v] = rec]
      /\ last' = [op |-> op, v |-> v, args |-> args, out |-> out]
  BY DEF Write, Called
<1>2. /\ v \in Vecs /\ vec[v] \in StorageRecord /\ Data(v) \in Places
      /\ Capacity(v) \in Nat /\ mem = [p \in Places |-> mem[p]] /\ n \in Nat
      /\ vec \in [Vecs -> StorageRecord] /\ heap \subseteq Blocks
  BY OfVector, Constants DEF Good, Typed, Sizes
<1>3. rec \in StorageRecord /\ vec'[v] = rec
  BY <1>1, <1>2 DEF StorageRecord
<1>4. /\ Size(v)' = n /\ Owned(v)' = Owned(v) /\ IsDynamic(v)' = IsDynamic(v)
      /\ Data(v)' = Data(v) /\ Capacity(v)' = Capacity(v)
  BY <1>3, <1>2 DEF Size, Owned, IsDynamic, Data, Capacity, StorageRecord
<1>5. Slots(v)' = s /\ \A p \in Places : p # Data(v) => mem'[p] = mem[p]
  BY <1>1, <1>2, <1>4 DEF Slots
<1>6. mem'[NoBlock] = mem[NoBlock]
  <2>1. CASE Data(v) = NoBlock
    <3>1. IsBlock(mem[NoBlock], 0) /\ IsBlock(mem[NoBlock], Capacity(v))
      BY <2>1 DEF Good, Typed, Slots
    <3>2. Capacity(v) = 0
      BY <1>2, <3>1 DEF IsBlock
    <3> QED
      BY <1>1, <1>2, <2>1, <3>1, <3>2 DEF IsBlock
  <2> QED
    BY <1>5, <2>1 DEF Places
<1>7. IsBlock(mem'[v], N) /\ (IsDynamic(v)' => ~AnyLive(mem'[v]))
  <2>1. CASE IsDynamic(v)
    BY <1>2, <1>5, <2>1, OfVector, Constants DEF Places, Good, Typed, Owning
  <2>2. CASE ~IsDynamic(v)
    BY <1>1, <1>2, <1>4, <2>2, OfVector
  <2> QED
    BY <2>1, <2>2
<1>8. Owned(v) \subseteq heap
  BY DEF Good, Sound, Owned
<1>9. /\ Typed' /\ Owning' /\ \A b : Lost(b)' => Lost(b)
      /\ \A w \in alive \ {v} : Sound(w)' /\ Data(w)' = Data(w) /\ Capacity(w)' = Capacity(w)
  <2> HIDE DEF rec
  <2>1. mem' = [p \in Places |-> mem'[p]]
    BY <1>1, <1>2
  <2>2. /\ heap' \subseteq Blocks /\ heap' \subseteq (heap \ Owned(v)) \cup Owned(v)'
        /\ heap \ Owned(v) \subseteq heap' /\ Owned(v)' \cap (heap \ Owned(v)) = {}
    BY <1>1, <1>2, <1>4, <1>8
  <2>3. \A p \in Places : p \notin {Data(v), v} \cup Owned(v)' => mem'[p] = mem[p]
    BY <1>5
  <2>4. IsBlock(Slots(v)', Capacity(v)')
    BY <1>4, <1>5
  <2>5. UNCHANGED <<ty, alive>> /\ vec' = [vec EXCEPT ![v] = rec] /\ rec \in StorageRecord
    BY <1>1, <1>3
  <2> QED
    BY <1>6, <1>7, <2>1, <2>2, <2>3, <2>4, <2>5, OneVector
<1>10. Occupied(s, Capacity(v), Span(0, n)) /\ n <= Capacity(v) => Sound(v)'
  BY <1>1, <1>2, <1>4, <1>5, <1>8, NowSound
<1>11. \A w \in alive' : Sound(w)' \/ Slips(w)
  BY <1>1, <1>9, <1>10 DEF Slips, InsertsTooMany
<1>12. Orderly
  BY <1>1, <1>9, <1>11 DEF Orderly
<1>13. Strong
  <2>1. CASE s = Slots(v) /\ n = Size(v)
    <3>1. mem' = mem
      BY <1>1, <1>2, <2>1 DEF Slots
    <3>2. vec' = vec
      BY <1>1, <1>2, <2>1 DEF Size, StorageRecord
    <3> QED
      BY <1>1, <3>1, <3>2 DEF Strong
  <2> QED
    BY <1>1, <2>1 DEF Strong, AtEnd, StrongOps
<1>14. Stays
  BY <1>1, <1>4, <1>9 DEF Stays
<1>15. Terminated' => OnlyCopies'
  BY <1>1 DEF Terminated, OnlyCopies, CopiesThrow
<1> QED
  BY <1>12, <1>13, <1>14, <1>15 DEF Proper

\* A call that takes a new block for v.
LEMMA ExchangeStep ==
  ASSUME Good, NEW v \in alive, NEW new, NEW c \in Sizes, NEW n \in Sizes, n <= c,
         NEW old, NEW op, NEW args, Exchange(v, NewBlock, new, n, old, op),
         UNCHANGED <<ty, alive>>, Called(op, v, args, "ok"), IsBlock(new, c),
         \/ Occupied(new, c, Span(0, n))
         \/ op = "emplace_back" /\ RelocatesFirst /\ args[Len(args)] = "own",
         ~AnyLive(old), n > Capacity(v) \/ op \in {"reserve", "shrink_to_fit"}
  PROVE  Proper
<1> DEFINE b == NewBlock
           rec == Dynamic(b, c, n)
<1>0. c \in Nat /\ n \in Nat
  BY Constants DEF Sizes
<1>1. b \in Blocks \ heap /\ Cardinality(DOMAIN new) = c
  <2>1. b \in Blocks \ heap
    BY FreshBlock DEF Exchange, NewBlock
  <2>2. DOMAIN new = 0 .. c - 1
    BY DEF IsBlock
  <2> QED
    BY <1>0, <2>1, <2>2, FS_Interval
<1>2. /\ vec' = [vec EXCEPT ![v] = rec]
      /\ heap' = (heap \cup {b}) \ Owned(v)
      /\ mem' = [mem EXCEPT ![b] = new, ![Data(v)] = Released(Data(v))]
      /\ leaked' = leaked
      /\ last' = [op |-> op, v |-> v, args |-> args, out |-> "ok"]
  BY <1>1 DEF Exchange, Called, LeakOf, NoLeak
<1> HIDE DEF b
<1>3. /\ v \in Vecs /\ vec[v] \in StorageRecord /\ Data(v) \in Places /\ b \in Places
      /\ mem = [p \in Places |-> mem[p]] /\ b # Data(v) /\ b # NoBlock /\ b # v
      /\ vec \in [Vecs -> StorageRecord] /\ heap \subseteq Blocks
  BY <1>1, OfVector, Constants DEF Good, Typed, Places
<1>4. rec \in StorageRecord /\ vec'[v] = rec
  BY <1>1, <1>2, <1>3 DEF StorageRecord, Dynamic
<1>5. /\ Size(v)' = n /\ Owned(v)' = {b} /\ IsDynamic(v)'
      /\ Data(v)' = b /\ Capacity(v)' = c
  BY <1>3, <1>4 DEF Size, Owned, IsDynamic, Data, Capacity, Dynamic
<1>6. /\ mem'[b] = new /\ mem'[Data(v)] = Released(Data(v))
      /\ \A p \in Places : p \notin {b, Data(v)} => mem'[p] = mem[p]
      /\ mem' = [p \in Places |-> mem'[p]]
  BY <1>2, <1>3
<1>7. Slots(v)' = new
  BY <1>5, <1>6 DEF Slots
<1>8. mem'[NoBlock] = mem[NoBlock]
  <2>1. IsBlock(mem[NoBlock], 0)
    BY DEF Good, Typed
  <2>2. NoBlock \in Places /\ NoBlock \notin Vecs
    BY Constants DEF Places
  <2> QED
    BY <1>3, <1>6, <2>1, <2>2 DEF IsBlock, Released, Blank
<1>9. IsBlock(mem'[v], N) /\ ~AnyLive(mem'[v])
  <2>1. CASE IsDynamic(v)
    BY <1>3, <1>6, <2>1, OfVector, Constants DEF Places, Good, Typed, Owning
  <2>2. CASE ~IsDynamic(v)
    <3>1. mem'[v] = Blank(N)
      BY <1>3, <1>6, <2>2, OfVector DEF Released
    <3>2. Occupied(Blank(N), N, {})
      BY Constants, BlankOccupied
    <3> QED
      BY <3>1, <3>2, Constants, NoObjects DEF Occupied
  <2> QED
    BY <2>1, <2>2
<1>10. /\ Typed' /\ Owning' /\ \A x : Lost(x)' => Lost(x)
       /\ \A w \in alive \ {v} : Sound(w)' /\ Data(w)' = Data(w) /\ Capacity(w)' = Capacity(w)
  <2> HIDE DEF rec
  <2>1. /\ heap' \subseteq Blocks /\ heap' \subseteq (heap \ Owned(v)) \cup Owned(v)'
        /\ heap \ Owned(v) \subseteq heap' /\ Owned(v)' \cap (heap \ Owned(v)) = {}
    <3>1. Owned(v) \subseteq heap
      BY DEF Good, Sound, Owned
    <3> QED
      BY <1>1, <1>2, <1>3, <1>5, <3>1
  <2>2. \A p \in Places : p \notin {Data(v), v} \cup Owned(v)' => mem'[p] = mem[p]
    BY <1>5, <1>6
  <2> QED
    BY <1>2, <1>4, <1>5, <1>6, <1>7, <1>8, <1>9, <2>1, <2>2, OneVector
<1>11. Occupied(new, c, Span(0, n)) => Sound(v)'
  <2>1. Owned(v)' \subseteq heap'
    <3>1. b \notin Owned(v)
      BY <1>1 DEF Good, Sound, Owned
    <3> QED
      BY <1>2, <1>5, <3>1
  <2> QED
    BY <1>0, <1>5, <1>7, <2>1, NowSound
<1>12. \A w \in alive' : Sound(w)' \/ Slips(w)
  <2>1. op = "emplace_back" /\ RelocatesFirst /\ args[Len(args)] = "own" => MisreadsOwn(v)'
    BY <1>2 DEF MisreadsOwn, RelocatesFirst, OwnGiven
  <2> QED
    BY <1>2, <1>3, <1>5, <1>10, <1>11, <2>1 DEF Slips
<1>13. Orderly
  BY <1>2, <1>10, <1>12 DEF Orderly
<1>14. Strong /\ Stays
  BY <1>2, <1>5, <1>10 DEF Strong, Stays
<1> QED
  BY <1>2, <1>13, <1>14 DEF Proper, Terminated

\* An exception in a call that holds a new block.
LEMMA UnwindStep ==
  ASSUME Good, NEW v, NEW b, NEW new, NEW noop, NEW op, NEW args, NEW out,
         Unwind(b, new, noop, op), UNCHANGED <<ty, alive>>, Called(op, v, args, out),
         \/ out = "threw" /\ ~noop /\ ~AnyLive(new)
         \/ out = "terminated" /\ CopiesThrow
  PROVE  Proper
<1>1. CASE out = "threw"
  <2>1. Unchanged(op, v, args, out)
    BY <1>1 DEF Unwind, Unchanged, LeakOf, NoLeak
  <2> QED
    BY <1>1, <2>1, QuietStep
<1>2. CASE out = "terminated" /\ CopiesThrow
  <2>1. UNCHANGED <<ty, alive, vec>> /\ last'.out = "terminated"
    BY <1>2 DEF Unwind, Called
  <2>2. Terminated' /\ OnlyCopies'
    BY <1>2, <2>1 DEF Terminated, OnlyCopies, CopiesThrow
  <2>3. Strong /\ Stays
    BY <2>1 DEF Strong, Stays, Data, Capacity, IsDynamic
  <2> QED
    BY <2>2, <2>3 DEF Proper
<1> QED
  BY <1>1, <1>2

-------------------------------------------------------------------------------
(* What the operations on one vector are made of.                              *)

\* The type the size calculation is made in is wide enough: true for an 8, 16 or
\* 32 bit size_type, not for a 64 bit one.
WideGrowth == Realloc => MaxCalc >= 3 * MaxSize + 1

\* A capacity from growth() holds the old and the new elements.
LEMMA Grows ==
  ASSUME WideGrowth, Realloc, NEW n \in Sizes, NEW m \in Sizes, growth(n, m) # 0
  PROVE  growth(n, m) \in Sizes /\ n + m \in Sizes /\ n + m <= growth(n, m)
<1>1. Grown(n + m) <= MaxCalc
  BY GrowthWide DEF WideGrowth
<1>2. n + m <= MaxSize /\ growth(n, m) \in n + m .. MaxSize
  BY <1>1, GrowthHoldsAll, Constants DEF Sizes
<1> QED
  BY <1>2, Constants DEF Sizes

\* The free space is the difference of capacity and size, without a wrap.
LEMMA Free ==
  ASSUME Good, NEW v \in alive
  PROVE  FreeSpace(v) = Capacity(v) - Size(v)
<1>1. Capacity(v) - Size(v) \in Sizes
  BY OfVector, Constants DEF Sizes
<1> QED
  BY <1>1, Truncated DEF FreeSpace

\* The sources of insert hold objects.
LEMMA Part ==
  ASSUME NEW xs \in Seq(Vals), NEW i \in Int, NEW j \in Int,
         1 <= i, i <= j + 1, j <= Len(xs)
  PROVE  Len(SubSeq(xs, i, j)) = j - i + 1 /\ Objects(SubSeq(xs, i, j))
<1>1. \A x \in Vals : Living(x)
  BY FuncAssumption DEF Living
<1>2. /\ Len(SubSeq(xs, i, j)) = j - i + 1
      /\ \A k \in 1 .. j - i + 1 : SubSeq(xs, i, j)[k] = xs[i + k - 1] /\ xs[i + k - 1] \in Vals
  OBVIOUS
<1> QED
  BY <1>1, <1>2 DEF Objects

\* The ranges a program inserts are sequences of objects.
LEMMA SourceObjects ==
  ASSUME NEW xs \in Sources
  PROVE  xs \in Seq(Vals) /\ Len(xs) \in Nat /\ Objects(xs)
<1>1. xs \in Seq(Vals)
  <2>1. \A n \in Nat : [1 .. n -> Vals] \subseteq Seq(Vals)
    OBVIOUS
  <2>2. xs \in LongSources \/ \E n \in 0 .. MaxSrc : xs \in [1 .. n -> Vals]
    BY DEF Sources
  <2> QED
    BY <2>1, <2>2, ProgramAssumption, FuncAssumption
<1>2. \A x \in Vals : Living(x)
  BY FuncAssumption DEF Living
<1> QED
  BY <1>1, <1>2 DEF Objects

\* One object.
LEMMA Single ==
  ASSUME NEW x, Living(x)
  PROVE  Len(<<x>>) = 1 /\ Objects(<<x>>)
BY DEF Objects

\* Value-initialized elements are objects.
LEMMA ZeroObjects ==
  ASSUME NEW n \in Nat
  PROVE  Len(Zeros(n)) = n /\ Objects(Zeros(n))
<1>1. Zeros(n) \in [1 .. n -> Vals]
  BY FuncAssumption DEF Zeros
<1>2. \A x \in Vals : Living(x)
  BY FuncAssumption DEF Living
<1>3. Len(Zeros(n)) = n
  BY <1>1
<1> QED
  BY <1>1, <1>2, <1>3 DEF Objects

\* The value passed to emplace.
LEMMA Argument ==
  ASSUME Good, NEW v \in alive, NEW arg \in ArgsOf(v),
         NEW s, NEW n \in Nat, Occupied(s, Capacity(v), Span(0, n)), Size(v) <= n
  PROVE  Living(Through(arg, s)) /\ Living(Passed(v, arg))
<1>1. CASE arg \in [kind : {"value"}, val : Vals]
  BY <1>1, FuncAssumption DEF Through, Passed, Living
<1>2. CASE arg \in [kind : {"element"}, at : Span(0, Size(v))]
  <2>1. arg.at \in 0 .. Capacity(v) - 1 /\ arg.at \in Span(0, n) /\ arg.at \in Span(0, Size(v))
    BY <1>2, OfVector DEF Span
  <2>2. \A t : \A m \in {n, Size(v)} :
          Occupied(t, Capacity(v), Span(0, m)) => Living(Get(t, arg.at))
    BY <2>1 DEF Occupied, IsBlock, Get, Living
  <2> QED
    BY <1>2, <2>2, OfVector DEF Through, Passed
<1> QED
  BY <1>1, <1>2 DEF ArgsOf, Args

\* A call given an element of the vector itself says so.
LEMMA OwnElement ==
  ASSUME NEW v, NEW arg, arg.kind # "value"
  PROVE  Given(v, arg)[Len(Given(v, arg))] = "own"
<1>1. Given(v, arg) = <<Passed(v, arg)>> \o <<"own">>
  BY DEF Given
<1> QED
  BY <1>1

\* What the traits say about exceptions.
LEMMA Fates ==
  ASSUME Good
  PROVE  /\ \A n : \A f \in CopyFate(ty, n) \ {"ok"} :
              f \in {"threw", "terminated"} /\ ~ty.ncopy /\ (f = "terminated" => CopiesThrow)
         /\ \A n : \A f \in RelocateFate(ty, n) \ {"ok"} :
              f \in {"threw", "terminated"} /\ ~NothrowRelocate(ty) /\ ~ty.ncopy
              /\ (f = "terminated" => CopiesThrow)
         /\ \A n : \A f \in MoveIfNoexceptFate(ty, n) \ {"ok"} :
              f \in {"threw", "terminated"} /\ ~ty.nmove /\ (f = "terminated" => CopiesThrow)
         /\ \A n : ValueFate(ty, n) \subseteq {"ok", "threw"}
         /\ \A n : "threw" \in ValueFate(ty, n) => ~ty.ndef
         /\ ArgFate(ty) \subseteq {"ok", "threw"}
         /\ "threw" \in ArgFate(ty) => ~ty.nctor
<1>1. ty \in Traits
  BY DEF Good, Typed
<1>2. \A n : \A f \in CopyFate(ty, n) \ {"ok"} :
        f \in {"threw", "terminated"} /\ ~ty.ncopy /\ (f = "terminated" => CopiesThrow)
  BY <1>1 DEF Traits, CopyFate, Throws, Leaves, CopiesThrow
<1> QED
  BY <1>1, <1>2 DEF RelocateFate, MoveIfNoexceptFate, ValueFate, ArgFate, Throws, Traits

\* The fate of insert, which is noexcept when moving cannot throw.
LEMMA InsertFates ==
  ASSUME Good
  PROVE  /\ \A n : \A f \in CopyFate(ty, n) \ {"ok"} :
              /\ Leaves(f, InsertNoexcept) \in {"threw", "terminated"}
              /\ Leaves(f, InsertNoexcept) = "threw" => ~InsertNoexcept
              /\ Leaves(f, InsertNoexcept) = "terminated" => CopiesThrow
         /\ ~ty.nmove => Leaves("threw", InsertNoexcept) = "threw"
         /\ ~ty.ncopy => /\ Leaves("threw", InsertNoexcept) \in {"threw", "terminated"}
                         /\ Leaves("threw", InsertNoexcept) = "terminated" => CopiesThrow
         /\ Leaves("ok", InsertNoexcept) = "ok"
BY Fates DEF Leaves, InsertNoexcept, CopiesThrow

\* The operators of SlotMemory keep a block a block.
LEMMA SameBlock ==
  ASSUME NEW s, NEW c, IsBlock(s, c)
  PROVE  /\ \A a, xs : IsBlock(Construct(s, a, xs), c) /\ IsBlock(Assign(s, a, xs), c)
         /\ \A a, b : IsBlock(Destroy(s, a, b), c) /\ IsBlock(LeaveMoved(s, a, b), c)
         /\ \A a, n, d : IsBlock(MoveWithin(s, a, n, d), c) /\ IsBlock(MoveToRaw(s, a, n, d), c)
<1>1. DOMAIN s = 0 .. c - 1
  BY DEF IsBlock
<1>2. /\ \A a, xs : IsBlock(Construct(s, a, xs), c) /\ IsBlock(Assign(s, a, xs), c)
      /\ \A a, b : IsBlock(Destroy(s, a, b), c) /\ IsBlock(LeaveMoved(s, a, b), c)
      /\ \A a, n, d : IsBlock(MoveWithin(s, a, n, d), c)
  BY <1>1 DEF IsBlock, Construct, Assign, Destroy, LeaveMoved, MoveWithin
<1>3. \A a, n, d : IsBlock(MoveToRaw(s, a, n, d), c)
  BY <1>1 DEF IsBlock, Construct, LeaveMoved, MoveToRaw
<1> QED
  BY <1>2, <1>3

\* Fresh storage can be given up, also after the objects put into it are destroyed.
LEMMA BlankEmpty ==
  ASSUME NEW c \in Int
  PROVE  ~AnyLive(Blank(c))
BY BlankOccupied, NoObjects

\* Objects constructed in fresh storage, and destroyed again.
LEMMA Placed ==
  ASSUME NEW c \in Int, NEW a \in Int, NEW xs, Objects(xs)
  PROVE  /\ Occupied(Construct(Blank(c), a, xs), c, Span(a, a + Len(xs)))
         /\ ~AnyLive(Destroy(Construct(Blank(c), a, xs), a, a + Len(xs)))
<1> DEFINE K == Span(a, a + Len(xs))
<1>1. Occupied(Construct(Blank(c), a, xs), c, {} \cup K)
  BY BlankOccupied, ConstructOccupied
<1>2. {} \cup K = K /\ K \ K = {}
  OBVIOUS
<1>3. Occupied(Construct(Blank(c), a, xs), c, K)
  BY <1>1, <1>2
<1>4. Occupied(Destroy(Construct(Blank(c), a, xs), a, a + Len(xs)), c, K \ K)
  BY <1>3, DestroyOccupied
<1> HIDE DEF K
<1>5. Occupied(Destroy(Construct(Blank(c), a, xs), a, a + Len(xs)), c, {})
  BY <1>2, <1>4
<1> QED
  BY <1>3, <1>5, NoObjects DEF K

\* Elements appended behind the last.
LEMMA Extended ==
  ASSUME NEW s, NEW c \in Nat, NEW n \in Nat, Occupied(s, c, Span(0, n)),
         NEW xs, Objects(xs)
  PROVE  Occupied(Construct(s, n, xs), c, Span(0, n + Len(xs)))
<1>1. Occupied(Construct(s, n, xs), c, Span(0, n) \cup Span(n, n + Len(xs)))
  BY ConstructOccupied DEF Span
<1>2. Span(0, n) \cup Span(n, n + Len(xs)) = Span(0, n + Len(xs))
  BY DEF Span, Objects
<1> QED
  BY <1>1, <1>2

\* The elements of a vector as objects.
LEMMA ElementObjects ==
  ASSUME Good, NEW v \in alive, NEW a \in Nat, NEW n \in Nat, a + n <= Size(v)
  PROVE  Len(Read(Slots(v), a, n)) = n /\ Objects(Read(Slots(v), a, n))
<1>1. Occupied(Slots(v), Capacity(v), Span(0, Size(v))) /\ Size(v) <= Capacity(v)
      /\ Size(v) \in Nat /\ Capacity(v) \in Nat
  BY OfVector
<1>2. Span(a, a + n) \subseteq Span(0, Size(v)) \cap (0 .. Capacity(v) - 1)
  BY <1>1 DEF Span
<1> QED
  BY <1>1, <1>2, ReadObjects

\* The elements of a vector in fresh storage.
LEMMA Copied ==
  ASSUME Good, NEW v \in alive, NEW c \in Nat
  PROVE  Occupied(Construct(Blank(c), 0, Elements(v)), c, Span(0, Size(v)))
<1>1. Len(Elements(v)) = Size(v) /\ Objects(Elements(v)) /\ Size(v) \in Nat
  BY ElementObjects, OfVector DEF Elements
<1>2. Occupied(Blank(c), c, Span(0, 0))
  BY BlankOccupied, SameSlots DEF Span
<1>3. Occupied(Construct(Blank(c), 0, Elements(v)), c, Span(0, 0 + Len(Elements(v))))
  BY <1>1, <1>2, Extended
<1> QED
  BY <1>1, <1>3

\* The storage of a vector whose elements have been destroyed.
LEMMA Emptied ==
  ASSUME Good, NEW v \in alive
  PROVE  ~AnyLive(Destroy(Slots(v), 0, Size(v)))
<1>1. Occupied(Slots(v), Capacity(v), Span(0, Size(v))) /\ Capacity(v) \in Nat
  BY OfVector
<1>2. Occupied(Destroy(Slots(v), 0, Size(v)), Capacity(v), Span(0, Size(v)) \ Span(0, Size(v)))
  BY <1>1, DestroyOccupied
<1> QED
  BY <1>1, <1>2, NoObjects, SameSlots

\* New storage with the objects xs between the elements below and above pos.
LEMMA Parted ==
  ASSUME Good, NEW v \in alive, NEW pos \in Positions(v), NEW xs, Objects(xs),
         NEW c \in Nat, Size(v) + Len(xs) <= c,
         NEW el, el = Construct(Blank(c), pos, xs),
         NEW lower, lower = Construct(el, 0, Read(Slots(v), 0, pos))
  PROVE  /\ ~AnyLive(Destroy(el, pos, pos + Len(xs)))
         /\ ~AnyLive(Destroy(Destroy(lower, 0, pos), pos, pos + Len(xs)))
         /\ Occupied(Construct(lower, pos + Len(xs), Read(Slots(v), pos, Size(v) - pos)),
                     c, Span(0, Size(v) + Len(xs)))
<1> DEFINE u == Len(xs)
<1>1. pos \in Nat /\ pos <= Size(v) /\ Size(v) \in Nat /\ u \in Nat
  BY OfVector DEF Positions, Objects
<1>2. Occupied(el, c, Span(pos, pos + u)) /\ ~AnyLive(Destroy(el, pos, pos + u))
  BY <1>1, Placed
<1>3. Objects(Read(Slots(v), 0, pos)) /\ Len(Read(Slots(v), 0, pos)) = pos
  BY <1>1, ElementObjects
<1>4. Objects(Read(Slots(v), pos, Size(v) - pos)) /\ Len(Read(Slots(v), pos, Size(v) - pos)) = Size(v) - pos
  BY <1>1, ElementObjects
<1>5. Occupied(lower, c, Span(pos, pos + u) \cup Span(0, 0 + pos))
  <2>1. Span(0, 0 + pos) \cap Span(pos, pos + u) = {}
    BY <1>1 DEF Span
  <2> QED
    BY <1>1, <1>2, <1>3, <2>1, ConstructOccupied
<1>6. ~AnyLive(Destroy(Destroy(lower, 0, pos), pos, pos + u))
  <2> DEFINE K == Span(pos, pos + u) \cup Span(0, 0 + pos)
             L == (K \ Span(0, pos)) \ Span(pos, pos + u)
  <2>1. Occupied(lower, c, K) /\ Span(0, pos) \subseteq K
        /\ Span(pos, pos + u) \subseteq K \ Span(0, pos) /\ L = {}
    BY <1>1, <1>5 DEF Span
  <2> HIDE DEF K
  <2>2. Occupied(Destroy(lower, 0, pos), c, K \ Span(0, pos))
    BY <2>1, DestroyOccupied
  <2>3. Occupied(Destroy(Destroy(lower, 0, pos), pos, pos + u), c, L)
    BY <2>1, <2>2, DestroyOccupied
  <2> HIDE DEF L
  <2>4. Occupied(Destroy(Destroy(lower, 0, pos), pos, pos + u), c, {})
    BY <2>1, <2>3
  <2> QED
    BY <2>4, NoObjects
<1>7. Occupied(Construct(lower, pos + u, Read(Slots(v), pos, Size(v) - pos)), c, Span(0, Size(v) + u))
  <2> DEFINE K == Span(pos, pos + u) \cup Span(0, 0 + pos)
             M == Span(pos + u, pos + u + (Size(v) - pos))
  <2>1. M \cap K = {} /\ \A i \in 0 .. c - 1 : i \in K \cup M <=> i \in Span(0, Size(v) + u)
    BY <1>1 DEF Span
  <2>2. Occupied(lower, c, K)
    BY <1>5
  <2>3. pos + u \in Int /\ Size(v) - pos \in Nat
    BY <1>1
  <2> HIDE DEF K
  <2>4. Occupied(Construct(lower, pos + u, Read(Slots(v), pos, Size(v) - pos)), c, K \cup M)
    BY <1>4, <2>1, <2>2, <2>3, ConstructOccupied
  <2> HIDE DEF M
  <2> QED
    BY <2>1, <2>4, SameSlots
<1> QED
  BY <1>2, <1>6, <1>7

-------------------------------------------------------------------------------
(* The operations on one vector.                                               *)

\* emplace_back and push_back.
LEMMA EmplaceBackProper ==
  ASSUME Good, WideGrowth, NEW v \in alive, NEW arg \in ArgsOf(v), EmplaceBack(v, arg)
  PROVE  Proper
<1> DEFINE n == Size(v)
           args == Given(v, arg)
<1>1. /\ n \in Nat /\ Capacity(v) \in Nat /\ n <= Capacity(v) /\ Capacity(v) <= MaxSize
      /\ Occupied(Slots(v), Capacity(v), Span(0, n)) /\ n \in Sizes /\ 1 \in Sizes
  BY OfVector, Constants DEF Sizes
<1>2. Living(Passed(v, arg)) /\ Living(Through(arg, Slots(v)))
  BY <1>1, Argument
<1>3. CASE EmplaceBackUnchecked(v, arg)
  <2> DEFINE s == Construct(Slots(v), n, <<Passed(v, arg)>>)
  <2>1. PICK fate \in ArgFate(ty) :
          \/ fate = "ok" /\ Write(v, s, ToSize(n + 1)) /\ Called("emplace_back", v, args, "ok")
          \/ fate # "ok" /\ Unchanged("emplace_back", v, args, fate)
    BY <1>3 DEF EmplaceBackUnchecked
  <2>2. CASE fate # "ok"
    BY <2>1, <2>2, Fates, QuietStep
  <2>3. CASE fate = "ok"
    <3>1. n + 1 <= Capacity(v) /\ n + 1 \in Sizes /\ ToSize(n + 1) = n + 1
      BY <1>1, <1>3, Truncated, Constants DEF EmplaceBackUnchecked, Sizes
    <3>2. Occupied(s, Capacity(v), Span(0, n + 1))
      <4>1. Occupied(s, Capacity(v), Span(0, n + Len(<<Passed(v, arg)>>)))
        BY <1>1, <1>2, Single, Extended
      <4> QED
        BY <1>2, <4>1, Single
    <3>3. Write(v, s, n + 1) /\ Called("emplace_back", v, args, "ok")
      BY <2>1, <2>3, <3>1
    <3>4. IsBlock(s, Capacity(v))
      BY <3>2 DEF Occupied
    <3> HIDE DEF s, n, args
    <3> QED
      BY <3>1, <3>2, <3>3, <3>4, WriteStep
  <2> QED
    BY <2>2, <2>3
<1>4. CASE Unchanged("emplace_back", v, args, "out_of_storage")
  BY <1>4, QuietStep
<1>5. ASSUME n >= Capacity(v), Realloc, growth(n, 1) # 0, UNCHANGED <<ty, alive>>,
             \/ EmplaceBackRelocateFirst(v, arg, growth(n, 1))
             \/ EmplaceBackConstructFirst(v, arg, growth(n, 1))
      PROVE  Proper
  <2> DEFINE c == growth(n, 1)
             old == Destroy(Slots(v), 0, n)
             moved == Construct(Blank(c), 0, Elements(v))
  <2>1. c \in Sizes /\ n + 1 \in Sizes /\ n + 1 <= c /\ c \in Nat /\ ToSize(n + 1) = n + 1
    BY <1>1, <1>5, Grows, Truncated, Constants DEF Sizes
  <2>2. ~AnyLive(old) /\ Occupied(moved, c, Span(0, n)) /\ n + 1 > Capacity(v)
    BY <1>1, <1>5, <2>1, Emptied, Copied
  <2>3. CASE EmplaceBackRelocateFirst(v, arg, c)
    <3> DEFINE x == Through(arg, IF ty.triv THEN Slots(v) ELSE old)
               new == Construct(moved, n, <<x>>)
    <3>1. Exchange(v, NewBlock, new, n + 1, old, "emplace_back")
          /\ Called("emplace_back", v, args, "ok")
      BY <2>1, <2>3 DEF EmplaceBackRelocateFirst
    <3>2. IsBlock(new, c)
      BY <2>2, SameBlock DEF Occupied
    <3>3. \/ Occupied(new, c, Span(0, n + 1))
          \/ RelocatesFirst /\ args[Len(args)] = "own"
      <4>1. CASE Living(x)
        <5>1. Occupied(new, c, Span(0, n + Len(<<x>>)))
          BY <1>1, <2>1, <2>2, <4>1, Single, Extended
        <5> QED
          BY <4>1, <5>1, Single
      <4>2. CASE ~Living(x)
        <5>1. ~ty.triv /\ arg.kind # "value"
          BY <1>2, <4>2 DEF Through, Passed
        <5> QED
          BY <2>3, <5>1, OwnElement DEF EmplaceBackRelocateFirst, RelocatesFirst, NothrowRelocate
      <4> QED
        BY <4>1, <4>2
    <3> HIDE DEF new, old, c, n, args
    <3> QED
      BY <1>5, <2>1, <2>2, <3>1, <3>2, <3>3, ExchangeStep
  <2>4. CASE EmplaceBackConstructFirst(v, arg, c)
    <3> DEFINE xs == <<Passed(v, arg)>>
               el == Construct(Blank(c), n, xs)
               done == Construct(el, 0, Elements(v))
    <3>1. Objects(xs) /\ Len(xs) = 1 /\ n \in Positions(v)
      BY <1>1, <1>2, Single DEF Positions
    <3>2. ~AnyLive(Destroy(el, n, n + 1)) /\ Occupied(done, c, Span(0, n + 1))
      <4> HIDE DEF xs
      <4>0. n \in Nat /\ c \in Nat /\ n + 1 <= c
        BY <1>1, <2>1
      <4>1. Occupied(el, c, Span(n, n + 1)) /\ ~AnyLive(Destroy(el, n, n + 1))
        <5>1. n \in Int /\ c \in Int /\ n + Len(xs) = n + 1
          BY <3>1, <4>0
        <5> HIDE DEF n, c
        <5>2. /\ Occupied(el, c, Span(n, n + Len(xs)))
              /\ ~AnyLive(Destroy(el, n, n + Len(xs)))
          BY <3>1, <5>1, Placed
        <5> QED
          BY <5>1, <5>2
      <4>2. Objects(Elements(v)) /\ Len(Elements(v)) = n
        BY <1>1, ElementObjects DEF Elements
      <4>3. Occupied(done, c, Span(n, n + 1) \cup Span(0, 0 + n))
        <5>1. Span(0, 0 + n) \cap Span(n, n + 1) = {}
          BY <4>0 DEF Span
        <5> QED
          BY <4>0, <4>1, <4>2, <5>1, ConstructOccupied
      <4>4. \A i \in 0 .. c - 1 :
              i \in Span(n, n + 1) \cup Span(0, 0 + n) <=> i \in Span(0, n + 1)
        BY <4>0 DEF Span
      <4> QED
        BY <4>0, <4>1, <4>3, <4>4, SameSlots
    <3>3. CASE "threw" \in ArgFate(ty) /\ Unwind(NewBlock, Blank(c), FALSE, "emplace_back")
               /\ Called("emplace_back", v, args, "threw")
      <4>1. ~AnyLive(Blank(c))
        BY <2>1, BlankEmpty
      <4> HIDE DEF c, args
      <4> QED
        BY <1>5, <3>3, <4>1, UnwindStep
    <3>4. ASSUME Exchange(v, NewBlock, done, n + 1, old, "emplace_back"),
                 Called("emplace_back", v, args, "ok")
          PROVE  Proper
      <4>1. IsBlock(done, c)
        BY <3>2 DEF Occupied
      <4> HIDE DEF done, old, c, n, args
      <4> QED
        BY <1>5, <2>1, <2>2, <3>2, <3>4, <4>1, ExchangeStep
    <3>5. ASSUME NEW fate \in RelocateFate(ty, n) \ {"ok"},
                 Unwind(NewBlock, IF NothrowRelocate(ty) THEN el ELSE Destroy(el, n, n + 1),
                        FALSE, "emplace_back"),
                 Called("emplace_back", v, args, fate)
          PROVE  Proper
      <4>1. /\ fate \in {"threw", "terminated"} /\ (fate = "terminated" => CopiesThrow)
            /\ ~NothrowRelocate(ty)
        BY <3>5, Fates
      <4>2. Unwind(NewBlock, Destroy(el, n, n + 1), FALSE, "emplace_back")
        BY <3>5, <4>1
      <4> HIDE DEF el, n, args
      <4> QED
        BY <1>5, <3>2, <3>5, <4>1, <4>2, UnwindStep
    <3> QED
      BY <2>1, <2>4, <3>3, <3>4, <3>5 DEF EmplaceBackConstructFirst
  <2> QED
    BY <1>5, <2>3, <2>4
<1> QED
  BY <1>3, <1>4, <1>5 DEF EmplaceBack

\* emplace before the end, in the storage the vector has.
LEMMA EmplaceShiftProper ==
  ASSUME Good, NEW v \in alive, NEW arg \in ArgsOf(v), NEW pos \in Positions(v),
         pos # Size(v), Size(v) < Capacity(v), EmplaceShift(v, pos, arg)
  PROVE  Proper
<1> DEFINE n == Size(v)
           c == Capacity(v)
           end == n - 1
           opened == IF ty.nmove THEN MoveToRaw(Slots(v), end, 1, end + 1)
                                 ELSE Construct(Slots(v), end + 1, Read(Slots(v), end, 1))
           shifted == MoveWithin(opened, pos, end - pos, pos + 1)
           args == <<pos>> \o Given(v, arg)
<1>1. /\ n \in Nat /\ c \in Nat /\ n + 1 <= c /\ pos \in Nat /\ pos <= end /\ end \in Nat
      /\ Occupied(Slots(v), c, Span(0, n))
  BY OfVector DEF Positions
<1>2. n + 1 \in Sizes /\ ToSize(n + 1) = n + 1
  BY <1>1, OfVector, Truncated, Constants DEF Sizes
<1>3. Occupied(opened, c, Span(0, n + 1))
  <2>1. Occupied(MoveToRaw(Slots(v), end, 1, end + 1), c, Span(0, n) \cup Span(end + 1, end + 1 + 1))
    BY <1>1, MoveToRawOccupied DEF Span
  <2>2. Objects(Read(Slots(v), end, 1)) /\ Len(Read(Slots(v), end, 1)) = 1
    <3>1. end + 1 <= Size(v)
      BY <1>1
    <3> HIDE DEF end
    <3> QED
      BY <1>1, <3>1, ElementObjects
  <2>3. Occupied(Construct(Slots(v), end + 1, Read(Slots(v), end, 1)), c,
                 Span(0, n + Len(Read(Slots(v), end, 1))))
    BY <1>1, <2>2, Extended
  <2>4. Span(0, n) \cup Span(end + 1, end + 1 + 1) = Span(0, n + 1)
    BY <1>1 DEF Span
  <2> QED
    BY <2>1, <2>2, <2>3, <2>4
<1> HIDE DEF opened
<1>4. \A k \in Nat : k <= end - pos =>
        Occupied(MoveWithin(opened, end - k, k, end - k + 1), c, Span(0, n + 1))
  BY <1>1, <1>3, MoveWithinOccupied DEF Span
<1>5. Occupied(shifted, c, Span(0, n + 1))
  <2>1. end - (end - pos) = pos /\ end - pos \in Nat
    BY <1>1
  <2> QED
    BY <1>1, <1>4, <2>1
<1>6. Occupied(Assign(shifted, pos, <<Through(arg, shifted)>>), c, Span(0, n + 1))
  <2>1. Living(Through(arg, shifted))
    BY <1>1, <1>5, Argument
  <2> DEFINE xs == <<Through(arg, shifted)>>
  <2>2. Objects(xs) /\ Len(xs) = 1
    BY <2>1, Single
  <2>3. Span(pos, pos + Len(xs)) \subseteq Span(0, n + 1)
    BY <1>1, <2>2 DEF Span
  <2> HIDE DEF xs, shifted
  <2>4. Occupied(Assign(shifted, pos, xs), c, Span(0, n + 1))
    <3>1. pos \in Int /\ c \in Int
      BY <1>1
    <3> HIDE DEF n, c
    <3> QED
      BY <1>5, <2>2, <2>3, <3>1, AssignOccupied
  <2> QED
    BY <2>4 DEF xs
<1>7. ASSUME NEW s, Occupied(s, c, Span(0, n + 1)), NEW out \in {"ok", "threw"},
             Write(v, s, ToSize(n + 1)), Called("emplace", v, args, out)
      PROVE  Proper
  <2>1. IsBlock(s, c) /\ Write(v, s, n + 1) /\ n + 1 <= c
    BY <1>1, <1>2, <1>7 DEF Occupied
  <2> HIDE DEF n, args
  <2> QED
    BY <1>2, <1>7, <2>1, WriteStep
<1>8. ASSUME NEW fate \in MoveIfNoexceptFate(ty, 1) \ {"ok"}, Unchanged("emplace", v, args, fate)
      PROVE  Proper
  BY <1>8, Fates, QuietStep
<1>9. ASSUME NEW k \in Span(0, end - pos),
             Write(v, MoveWithin(opened, end - k, k, end - k + 1), ToSize(n + 1)),
             Called("emplace", v, args, "threw")
      PROVE  Proper
  BY <1>1, <1>4, <1>7, <1>9 DEF Span
<1> HIDE DEF shifted, args
<1> QED
  BY <1>5, <1>6, <1>7, <1>8, <1>9 DEF EmplaceShift, opened, shifted, args

\* emplace when the storage is full.
LEMMA EmplaceReallocProper ==
  ASSUME Good, WideGrowth, Realloc, NEW v \in alive, NEW arg \in ArgsOf(v),
         NEW pos \in Positions(v), Size(v) = Capacity(v), growth(Size(v), 1) # 0,
         EmplaceRealloc(v, pos, arg, growth(Size(v), 1)), UNCHANGED <<ty, alive>>
  PROVE  Proper
<1> DEFINE n == Size(v)
           c == growth(n, 1)
           args == <<pos>> \o Given(v, arg)
           xs == <<Passed(v, arg)>>
           el == Construct(Blank(c), pos, xs)
           lower == Construct(el, 0, Read(Slots(v), 0, pos))
           whole == Construct(lower, pos + 1, Read(Slots(v), pos, n - pos))
           old == Destroy(Slots(v), 0, n)
<1>1. /\ n \in Nat /\ pos \in Nat /\ pos <= n /\ Capacity(v) = n /\ n \in Sizes /\ 1 \in Sizes
      /\ Occupied(Slots(v), Capacity(v), Span(0, n)) /\ Capacity(v) \in Nat
  BY OfVector, Constants DEF Positions, Sizes
<1>2. c \in Sizes /\ c \in Nat /\ n + 1 \in Sizes /\ n + 1 <= c /\ ToSize(n + 1) = n + 1
  BY <1>1, Grows, Truncated, Constants DEF Sizes
<1>3. Objects(xs) /\ Len(xs) = 1
  BY <1>1, Argument, Single
<1> HIDE DEF xs
<1>4. /\ ~AnyLive(Destroy(el, pos, pos + 1))
      /\ ~AnyLive(Destroy(Destroy(lower, 0, pos), pos, pos + 1))
      /\ Occupied(whole, c, Span(0, n + 1))
  <2>1. pos + Len(xs) = pos + 1 /\ n + Len(xs) = n + 1
    BY <1>3
  <2> DEFINE upper == Construct(lower, pos + Len(xs), Read(Slots(v), pos, n - pos))
  <2>2. /\ ~AnyLive(Destroy(el, pos, pos + Len(xs)))
        /\ ~AnyLive(Destroy(Destroy(lower, 0, pos), pos, pos + Len(xs)))
        /\ Occupied(upper, c, Span(0, n + Len(xs)))
    <3> HIDE DEF c
    <3> QED
      BY <1>2, <1>3, <2>1, Parted
  <2> QED
    BY <2>1, <2>2
<1>5. ~AnyLive(Blank(c)) /\ ~AnyLive(old)
  BY <1>2, BlankEmpty, Emptied
<1>6. ASSUME NEW fate, NEW new, NEW noop, ~AnyLive(new), Unwind(NewBlock, new, noop, "emplace"),
             Called("emplace", v, args, fate),
             \/ fate = "threw" /\ ~noop
             \/ fate = "terminated" /\ CopiesThrow
      PROVE  Proper
  <2> HIDE DEF args
  <2> QED
    BY <1>6, UnwindStep
<1>7. ASSUME Exchange(v, NewBlock, whole, n + 1, old, "emplace"), Called("emplace", v, args, "ok")
      PROVE  Proper
  <2>1. IsBlock(whole, c) /\ n + 1 > Capacity(v)
    BY <1>1, <1>4 DEF Occupied
  <2> HIDE DEF whole, old, args, c, n
  <2> QED
    BY <1>2, <1>4, <1>5, <1>7, <2>1, ExchangeStep
<1>8. \A f \in (IF ty.nmove THEN {} ELSE CopyFate(ty, pos)) \ {"ok"} :
        f = "threw" \/ (f = "terminated" /\ CopiesThrow)
  BY Fates
<1>9. \A f \in (IF ty.nmove THEN {} ELSE CopyFate(ty, n - pos)) \ {"ok"} :
        f = "threw" \/ (f = "terminated" /\ CopiesThrow)
  BY Fates
<1>10. "threw" \in ArgFate(ty) => ~(ty.nctor /\ ty.nmove)
  BY Fates
<1>11. \/ /\ "threw" \in ArgFate(ty)
          /\ Unwind(NewBlock, Blank(c), ty.nctor /\ ty.nmove, "emplace")
          /\ Called("emplace", v, args, "threw")
       \/ \E fate \in (IF ty.nmove THEN {} ELSE CopyFate(ty, pos)) \ {"ok"} :
            /\ Unwind(NewBlock, Destroy(el, pos, pos + 1), FALSE, "emplace")
            /\ Called("emplace", v, args, fate)
       \/ \E fate \in (IF ty.nmove THEN {} ELSE CopyFate(ty, n - pos)) \ {"ok"} :
            /\ Unwind(NewBlock, Destroy(Destroy(lower, 0, pos), pos, pos + 1), FALSE, "emplace")
            /\ Called("emplace", v, args, fate)
       \/ /\ Exchange(v, NewBlock, whole, n + 1, old, "emplace")
          /\ Called("emplace", v, args, "ok")
  BY <1>2 DEF EmplaceRealloc, xs
<1> HIDE DEF el, lower, whole, old, args, c, n
<1> QED
  BY <1>4, <1>5, <1>6, <1>7, <1>8, <1>9, <1>10, <1>11

\* emplace at the end, in the storage the vector has.
LEMMA EmplaceAtEndProper ==
  ASSUME Good, NEW v \in alive, NEW arg \in ArgsOf(v), Size(v) < Capacity(v),
         EmplaceAtEnd(v, arg)
  PROVE  Proper
<1> DEFINE n == Size(v)
           args == <<n>> \o Given(v, arg)
           xs == <<Passed(v, arg)>>
           s == Construct(Slots(v), n, xs)
<1>1. /\ n \in Nat /\ Capacity(v) \in Nat /\ n + 1 <= Capacity(v) /\ Capacity(v) <= MaxSize
      /\ Occupied(Slots(v), Capacity(v), Span(0, n))
  BY OfVector
<1>2. n + 1 \in Sizes /\ ToSize(n + 1) = n + 1
  BY <1>1, Truncated, Constants DEF Sizes
<1>3. Objects(xs) /\ Len(xs) = 1
  BY <1>1, Argument, Single
<1>4. PICK fate \in ArgFate(ty) :
        \/ fate = "ok" /\ Write(v, s, n + 1) /\ Called("emplace", v, args, "ok")
        \/ fate # "ok" /\ Unchanged("emplace", v, args, fate)
  BY <1>2 DEF EmplaceAtEnd
<1>5. CASE fate # "ok"
  BY <1>4, <1>5, Fates, QuietStep
<1>6. CASE fate = "ok"
  <2> HIDE DEF xs
  <2>1. Occupied(s, Capacity(v), Span(0, n + 1)) /\ IsBlock(s, Capacity(v))
    <3>1. Occupied(s, Capacity(v), Span(0, n + Len(xs)))
      BY <1>1, <1>3, Extended
    <3> QED
      BY <1>3, <3>1 DEF Occupied
  <2> HIDE DEF s, n, args
  <2> QED
    BY <1>1, <1>2, <1>4, <1>6, <2>1, WriteStep
<1> QED
  BY <1>5, <1>6

\* emplace.
LEMMA EmplaceProper ==
  ASSUME Good, WideGrowth, NEW v \in alive, NEW arg \in ArgsOf(v), NEW pos \in Positions(v),
         Emplace(v, pos, arg)
  PROVE  Proper
<1>1. /\ Size(v) \in Nat /\ Capacity(v) \in Nat /\ Size(v) <= Capacity(v)
      /\ FreeSpace(v) = Capacity(v) - Size(v)
  BY OfVector, Free
<1>2. CASE FreeSpace(v) # 0 /\ pos = Size(v) /\ EmplaceAtEnd(v, arg)
  BY <1>1, <1>2, EmplaceAtEndProper
<1>3. CASE FreeSpace(v) # 0 /\ pos # Size(v) /\ EmplaceShift(v, pos, arg)
  BY <1>1, <1>3, EmplaceShiftProper
<1>4. CASE /\ FreeSpace(v) = 0 /\ Realloc /\ growth(Size(v), 1) # 0
           /\ EmplaceRealloc(v, pos, arg, growth(Size(v), 1)) /\ UNCHANGED <<ty, alive>>
  BY <1>1, <1>4, EmplaceReallocProper
<1>5. CASE Unchanged("emplace", v, <<pos>> \o Given(v, arg), "out_of_storage")
  BY <1>5, QuietStep
<1> QED
  BY <1>2, <1>3, <1>4, <1>5 DEF Emplace

-------------------------------------------------------------------------------
\* insert that writes slots and a size: they are right if size_type can count the
\* elements of the range.
LEMMA InsertWrites ==
  ASSUME Good, NEW v \in alive, NEW pos \in Positions(v), NEW xs \in Sources,
         NEW s, NEW m \in Sizes, NEW out, Write(v, s, m),
         Called("insert", v, <<pos, xs>>, out),
         IsBlock(s, Capacity(v)), out = "terminated" => CopiesThrow,
         \/ out \in {"ok", "terminated"} \/ pos # Size(v)
         \/ s = Slots(v) /\ m = Size(v),
         Len(xs) <= MaxSize => Occupied(s, Capacity(v), Span(0, m)) /\ m <= Capacity(v)
  PROVE  Proper
<1> DEFINE args == <<pos, xs>>
<1>1. args[1] = pos /\ args[2] = xs /\ Called("insert", v, args, out)
  OBVIOUS
<1>2. (Occupied(s, Capacity(v), Span(0, m)) /\ m <= Capacity(v)) \/ Len(args[2]) > MaxSize
  BY SourceObjects, Constants, <1>1
<1> HIDE DEF args
<1> QED
  BY <1>1, <1>2, WriteStep

\* insert of at least as many elements as there are from pos to the end.
LEMMA InsertOverEndProper ==
  ASSUME Good, NEW v \in alive, NEW pos \in Positions(v), NEW xs \in Sources, Len(xs) > 0,
         ToSize(Len(xs)) <= FreeSpace(v), ToSize(Len(xs)) >= Size(v) - pos,
         InsertOverEnd(v, pos, xs)
  PROVE  Proper
<1> DEFINE n     == Size(v)
           c     == Capacity(v)
           len   == Len(xs)
           u     == ToSize(len)
           old   == n - pos
           ext   == ToSize(len - old)
           tail  == IF u > old THEN Construct(Slots(v), pos + old, SubSeq(xs, old + 1, old + ext))
                               ELSE Slots(v)
           size1 == IF u > old THEN ToSize(n + ext) ELSE n
           size2 == ToSize(n + u)
           moved == MoveToRaw(tail, pos, old, pos + u)
           out(fate) == Leaves(fate, InsertNoexcept)
<1>1. \/ \E fate \in CopyFate(ty, IF u > old THEN ext ELSE 0) \ {"ok"} :
            Write(v, Slots(v), n) /\ Called("insert", v, <<pos, xs>>, out(fate))
      \/ \E k \in Span(0, old) :
            /\ ~ty.nmove
            /\ Write(v, LeaveMoved(tail, pos, pos + k), size1)
            /\ Called("insert", v, <<pos, xs>>, out("threw"))
      \/ \E k \in Span(0, old) :
            /\ ~ty.ncopy
            /\ Write(v, Assign(moved, pos, SubSeq(xs, 1, k)), size2)
            /\ Called("insert", v, <<pos, xs>>, out("threw"))
      \/ /\ Write(v, Assign(moved, pos, SubSeq(xs, 1, old)), size2)
         /\ Called("insert", v, <<pos, xs>>, out("ok"))
  BY Zenon DEF InsertOverEnd
<1>2. /\ n \in Nat /\ c \in Nat /\ n <= c /\ c <= MaxSize /\ MaxSize \in Nat
      /\ Occupied(Slots(v), c, Span(0, n)) /\ FreeSpace(v) = c - n
      /\ pos \in Nat /\ pos <= n /\ old \in Nat /\ u \in Nat /\ u <= c - n /\ u >= old
      /\ pos + old = n
  BY OfVector, Constants, Free, Truncated, SourceObjects DEF Positions, Sizes
<1>3. xs \in Seq(Vals) /\ len \in Nat
  BY SourceObjects
<1>4. n = Size(v) /\ c = Capacity(v) /\ len = Len(xs) /\ old = n - pos
  OBVIOUS
<1>5. /\ u = ToSize(len) /\ ext = ToSize(len - old) /\ size2 = ToSize(n + u)
      /\ size1 = IF u > old THEN ToSize(n + ext) ELSE n
  OBVIOUS
<1>6. tail = IF u > old THEN Construct(Slots(v), pos + old, SubSeq(xs, old + 1, old + ext))
                        ELSE Slots(v)
  OBVIOUS
<1>7. moved = MoveToRaw(tail, pos, old, pos + u)
  OBVIOUS
<1> HIDE DEF tail, moved, size1, size2, ext, u, old, out, len, n, c
<1>8. size1 \in Sizes /\ size2 \in Sizes /\ n \in Sizes /\ ext \in Sizes
  <2>1. len - old \in Int /\ n + u \in Int
    BY <1>2, <1>3
  <2>2. ext \in Sizes /\ size2 \in Sizes /\ n \in Sizes
    BY <1>2, <1>5, <2>1, Truncated DEF Sizes
  <2>3. n + ext \in Int
    BY <1>2, <2>2 DEF Sizes
  <2> QED
    BY <1>5, <2>2, <2>3, Truncated
<1>9. ASSUME NEW s, NEW m \in Sizes, NEW o, Write(v, s, m), Called("insert", v, <<pos, xs>>, o),
             IsBlock(s, c), o = "terminated" => CopiesThrow,
             \/ o \in {"ok", "terminated"} \/ pos # n
             \/ s = Slots(v) /\ m = n,
             len <= MaxSize => Occupied(s, c, Span(0, m)) /\ m <= c
      PROVE  Proper
  BY <1>4, <1>9, InsertWrites
<1>10. /\ IsBlock(Slots(v), c) /\ \A k : IsBlock(LeaveMoved(tail, pos, pos + k), c)
       /\ \A ys : IsBlock(Assign(moved, pos, ys), c)
  <2>1. IsBlock(Slots(v), c)
    BY <1>2 DEF Occupied
  <2>2. IsBlock(tail, c)
    BY <1>6, <2>1, SameBlock
  <2>3. IsBlock(moved, c)
    BY <1>7, <2>2, SameBlock
  <2> QED
    BY <2>1, <2>2, <2>3, SameBlock
<1>11. ASSUME len <= MaxSize
       PROVE  /\ u = len /\ ext = u - old /\ size2 = n + u /\ size1 = n + (u - old)
              /\ Occupied(tail, c, Span(0, size1))
  <2>1. u = len
    BY <1>3, <1>5, <1>11, Truncated DEF Sizes
  <2>2. len - old \in Sizes /\ n + u \in Sizes /\ n + (u - old) \in Sizes
    BY <1>2, <1>3, <1>11, <2>1 DEF Sizes
  <2>3. ext = u - old /\ size2 = n + u
    BY <1>5, <2>1, <2>2, Truncated
  <2>4. size1 = n + (u - old)
    BY <1>2, <1>5, <2>2, <2>3, Truncated
  <2>5. CASE u > old
    <3> DEFINE ys == SubSeq(xs, old + 1, old + ext)
    <3>1. Objects(ys) /\ Len(ys) = u - old
      <4>1. /\ old + 1 \in Int /\ old + ext \in Int /\ 1 <= old + 1
            /\ old + 1 <= (old + ext) + 1 /\ old + ext <= Len(xs)
            /\ (old + ext) - (old + 1) + 1 = u - old
        <5>1. Len(xs) = u /\ Len(xs) \in Nat
          BY <1>3, <1>4, <2>1
        <5> QED
          BY <1>2, <2>3, <5>1
      <4> QED
        BY <1>3, <4>1, Part
    <3> HIDE DEF ys
    <3>2. Occupied(Construct(Slots(v), n, ys), c, Span(0, n + Len(ys)))
      BY <1>2, <3>1, Extended
    <3>3. pos + old = n
      BY <1>2
    <3> QED
      BY <1>6, <2>1, <2>3, <2>4, <2>5, <3>1, <3>2, <3>3 DEF ys
  <2>6. CASE u = old
    <3>1. size1 = n /\ tail = Slots(v)
      BY <1>2, <1>6, <2>4, <2>6
    <3> QED
      BY <1>2, <2>1, <2>3, <2>4, <3>1
  <2> QED
    BY <1>2, <2>5, <2>6
<1>12. ASSUME len <= MaxSize, NEW k \in 0 .. old
       PROVE  /\ Occupied(LeaveMoved(tail, pos, pos + k), c, Span(0, size1))
              /\ Occupied(Assign(moved, pos, SubSeq(xs, 1, k)), c, Span(0, size2))
              /\ size1 <= c /\ size2 <= c
  <2>1. /\ u = len /\ size2 = n + u /\ size1 = n + (u - old)
        /\ Occupied(tail, c, Span(0, size1))
    BY <1>11, <1>12
  <2>2. pos + u = size1 /\ pos + u + old = size2 /\ size1 <= size2 /\ size2 <= c
        /\ pos + old = n /\ n <= size1 /\ size1 \in Nat /\ size2 \in Nat
    BY <1>2, <2>1
  <2>3. Occupied(moved, c, Span(0, size2))
    <3>1. /\ Span(pos, pos + old) \subseteq Span(0, size1) \cap (0 .. c - 1)
          /\ Span(pos + u, pos + u + old) \cap Span(0, size1) = {}
          /\ Span(0, size1) \cup Span(pos + u, pos + u + old) = Span(0, size2)
      BY <1>2, <2>2 DEF Span
    <3>2. pos \in Int /\ pos + u \in Int /\ c \in Int /\ old \in Nat
      BY <1>2
    <3>3. Occupied(moved, c, Span(0, size1) \cup Span(pos + u, pos + u + old))
      BY <1>7, <2>1, <3>1, <3>2, MoveToRawOccupied
    <3> QED
      BY <3>1, <3>3
  <2>4. Objects(SubSeq(xs, 1, k)) /\ Len(SubSeq(xs, 1, k)) = k
    <3>1. 1 \in Int /\ k \in Int /\ 1 <= 1 /\ 1 <= k + 1 /\ k <= Len(xs) /\ k - 1 + 1 = k
      BY <1>2, <1>4, <1>12, <2>1
    <3> QED
      BY <1>3, <3>1, Part
  <2> DEFINE ys == SubSeq(xs, 1, k)
  <2>5. Span(pos, pos + Len(ys)) \subseteq Span(0, size2) /\ pos \in Int /\ c \in Int
        /\ Objects(ys)
    BY <1>2, <1>12, <2>2, <2>4 DEF Span
  <2> HIDE DEF ys
  <2>6. Occupied(Assign(moved, pos, ys), c, Span(0, size2))
    BY <2>3, <2>5, AssignOccupied
  <2>7. Occupied(LeaveMoved(tail, pos, pos + k), c, Span(0, size1))
    BY <2>1, <2>5, LeaveMovedOccupied
  <2> QED
    BY <1>2, <2>2, <2>6, <2>7 DEF ys
<1>13. /\ \A k \in Span(0, old) : k \in 0 .. old /\ pos # n
       /\ old \in 0 .. old
  BY <1>2 DEF Span
<1>14. ASSUME NEW fate \in CopyFate(ty, IF u > old THEN ext ELSE 0) \ {"ok"},
              Write(v, Slots(v), n), Called("insert", v, <<pos, xs>>, out(fate))
       PROVE  Proper
  BY <1>2, <1>8, <1>9, <1>10, <1>14, InsertFates DEF out
<1>15. ASSUME NEW k \in Span(0, old), ~ty.nmove, Write(v, LeaveMoved(tail, pos, pos + k), size1),
              Called("insert", v, <<pos, xs>>, out("threw"))
       PROVE  Proper
  BY <1>8, <1>9, <1>10, <1>12, <1>13, <1>15, InsertFates DEF out
<1>16. ASSUME NEW k \in Span(0, old), ~ty.ncopy,
              Write(v, Assign(moved, pos, SubSeq(xs, 1, k)), size2),
              Called("insert", v, <<pos, xs>>, out("threw"))
       PROVE  Proper
  BY <1>8, <1>9, <1>10, <1>12, <1>13, <1>16, InsertFates DEF out
<1>17. ASSUME Write(v, Assign(moved, pos, SubSeq(xs, 1, old)), size2),
              Called("insert", v, <<pos, xs>>, out("ok"))
       PROVE  Proper
  BY <1>8, <1>9, <1>10, <1>12, <1>13, <1>17, InsertFates DEF out
<1> QED
  BY <1>1, <1>14, <1>15, <1>16, <1>17

\* insert of fewer elements than there are from pos to the end.
LEMMA InsertInsideProper ==
  ASSUME Good, NEW v \in alive, NEW pos \in Positions(v), NEW xs \in Sources, Len(xs) > 0,
         ToSize(Len(xs)) <= FreeSpace(v), ToSize(Len(xs)) < Size(v) - pos,
         InsertInside(v, pos, xs)
  PROVE  Proper
<1> DEFINE n      == Size(v)
           c      == Capacity(v)
           len    == Len(xs)
           u      == ToSize(len)
           old    == n - pos
           keep   == old - u
           opened == MoveToRaw(Slots(v), pos + keep, u, pos + old)
           moved  == MoveWithin(opened, pos, keep, pos + u)
           size1  == ToSize(n + u)
           out(fate) == Leaves(fate, InsertNoexcept)
<1>1. \/ \E k \in Span(0, u) :
            /\ ~ty.nmove
            /\ Write(v, LeaveMoved(Slots(v), pos + keep, pos + keep + k), n)
            /\ Called("insert", v, <<pos, xs>>, out("threw"))
      \/ \E k \in Span(0, keep) :
            /\ ~ty.nmove
            /\ Write(v, MoveWithin(opened, pos + keep - k, k, pos + old - k), size1)
            /\ Called("insert", v, <<pos, xs>>, out("threw"))
      \/ \E k \in Span(0, len) :
            /\ ~ty.ncopy
            /\ Write(v, Assign(moved, pos, SubSeq(xs, 1, k)), size1)
            /\ Called("insert", v, <<pos, xs>>, out("threw"))
      \/ /\ Write(v, Assign(moved, pos, xs), size1)
         /\ Called("insert", v, <<pos, xs>>, out("ok"))
  BY Zenon DEF InsertInside
<1>2. /\ n \in Nat /\ c \in Nat /\ n <= c /\ c <= MaxSize /\ MaxSize \in Nat
      /\ Occupied(Slots(v), c, Span(0, n)) /\ FreeSpace(v) = c - n
      /\ pos \in Nat /\ pos < n /\ old \in Nat /\ u \in Nat /\ u <= c - n /\ u < old
      /\ pos + old = n /\ keep \in Nat /\ pos + keep + u = n /\ keep + u = old
  <2>1. /\ n \in Nat /\ c \in Nat /\ n <= c /\ c <= MaxSize /\ MaxSize \in Nat
        /\ Occupied(Slots(v), c, Span(0, n)) /\ FreeSpace(v) = c - n
        /\ pos \in Nat /\ pos <= n /\ u \in Nat /\ u <= FreeSpace(v) /\ u < old
    BY OfVector, Constants, Free, Truncated, SourceObjects DEF Positions, Sizes
  <2> HIDE DEF u, n, c
  <2> QED
    BY <2>1
<1>3. xs \in Seq(Vals) /\ len \in Nat /\ Objects(xs)
  BY SourceObjects
<1>4. n = Size(v) /\ c = Capacity(v) /\ len = Len(xs)
  OBVIOUS
<1>5. u = ToSize(len) /\ size1 = ToSize(n + u)
  OBVIOUS
<1>6. opened = MoveToRaw(Slots(v), pos + keep, u, pos + old)
  OBVIOUS
<1>7. moved = MoveWithin(opened, pos, keep, pos + u)
  OBVIOUS
<1> HIDE DEF opened, moved, size1, keep, old, u, out, len, n, c
<1>8. size1 = n + u /\ size1 \in Sizes /\ n \in Sizes /\ size1 <= c
  <2>1. n + u \in Sizes /\ n \in Sizes /\ n + u <= c
    BY <1>2 DEF Sizes
  <2> QED
    BY <1>5, <2>1, Truncated
<1>9. ASSUME NEW s, NEW m \in Sizes, NEW o, Write(v, s, m), Called("insert", v, <<pos, xs>>, o),
             IsBlock(s, c), o = "terminated" => CopiesThrow,
             len <= MaxSize => Occupied(s, c, Span(0, m)) /\ m <= c
      PROVE  Proper
  <2>1. pos # n
    BY <1>2
  <2> QED
    BY <1>4, <1>9, <2>1, InsertWrites
<1>10. Occupied(opened, c, Span(0, size1))
  <2>1. /\ Span(pos + keep, pos + keep + u) \subseteq Span(0, n) \cap (0 .. c - 1)
        /\ Span(pos + old, pos + old + u) \cap Span(0, n) = {}
        /\ Span(0, n) \cup Span(pos + old, pos + old + u) = Span(0, n + u)
    BY <1>2 DEF Span
  <2>2. pos + keep \in Int /\ pos + old \in Int /\ c \in Int /\ u \in Nat
    BY <1>2
  <2>3. Occupied(opened, c, Span(0, n) \cup Span(pos + old, pos + old + u))
    BY <1>2, <1>6, <2>1, <2>2, MoveToRawOccupied
  <2> QED
    BY <1>8, <2>1, <2>3
<1>11. Occupied(moved, c, Span(0, size1))
  <2>1. /\ Span(pos, pos + keep) \subseteq Span(0, size1) \cap (0 .. c - 1)
        /\ Span(pos + u, pos + u + keep) \subseteq Span(0, size1)
    BY <1>2, <1>8 DEF Span
  <2>2. pos \in Int /\ pos + u \in Int /\ c \in Int /\ keep \in Int
    BY <1>2
  <2> QED
    BY <1>7, <1>10, <2>1, <2>2, MoveWithinOccupied
<1>12. ASSUME NEW k \in Span(0, u), ~ty.nmove,
              Write(v, LeaveMoved(Slots(v), pos + keep, pos + keep + k), n),
              Called("insert", v, <<pos, xs>>, out("threw"))
       PROVE  Proper
  <2>1. Occupied(LeaveMoved(Slots(v), pos + keep, pos + keep + k), c, Span(0, n))
    BY <1>2, LeaveMovedOccupied
  <2> QED
    BY <1>2, <1>8, <1>9, <1>12, <2>1, InsertFates DEF Occupied, out
<1>13. ASSUME NEW k \in Span(0, keep), ~ty.nmove,
              Write(v, MoveWithin(opened, pos + keep - k, k, pos + old - k), size1),
              Called("insert", v, <<pos, xs>>, out("threw"))
       PROVE  Proper
  <2> DEFINE a == pos + keep - k
             d == pos + old - k
  <2>1. /\ a \in Int /\ k \in Int /\ d \in Int /\ c \in Int
        /\ Span(a, a + k) \subseteq Span(0, size1) \cap (0 .. c - 1)
        /\ Span(d, d + k) \subseteq Span(0, size1)
    BY <1>2, <1>8, <1>13 DEF Span
  <2> HIDE DEF a, d
  <2>2. Occupied(MoveWithin(opened, a, k, d), c, Span(0, size1))
    BY <1>10, <2>1, MoveWithinOccupied
  <2> QED
    BY <1>8, <1>9, <1>13, <2>2, InsertFates DEF Occupied, out, a, d
<1>14. /\ \A ys : IsBlock(Assign(moved, pos, ys), c)
       /\ \A ys : Objects(ys) /\ Len(ys) <= u => Occupied(Assign(moved, pos, ys), c, Span(0, size1))
  <2>1. \A ys : IsBlock(Assign(moved, pos, ys), c)
    BY <1>11, SameBlock DEF Occupied
  <2>2. ASSUME NEW ys, Objects(ys), Len(ys) <= u
        PROVE  Occupied(Assign(moved, pos, ys), c, Span(0, size1))
    <3>1. Span(pos, pos + Len(ys)) \subseteq Span(0, size1) /\ pos \in Int /\ c \in Int
      BY <1>2, <1>8, <2>2 DEF Span, Objects
    <3> QED
      BY <1>11, <2>2, <3>1, AssignOccupied
  <2> QED
    BY <2>1, <2>2
<1>15. len <= MaxSize => u = len
  BY <1>3, <1>5, Truncated DEF Sizes
<1>16. ASSUME NEW k \in Span(0, len), ~ty.ncopy,
              Write(v, Assign(moved, pos, SubSeq(xs, 1, k)), size1),
              Called("insert", v, <<pos, xs>>, out("threw"))
       PROVE  Proper
  <2>1. Objects(SubSeq(xs, 1, k)) /\ Len(SubSeq(xs, 1, k)) = k /\ k \in Nat /\ k <= len
    <3>1. 1 \in Int /\ k \in Int /\ 1 <= 1 /\ 1 <= k + 1 /\ k <= len /\ k - 1 + 1 = k /\ k \in Nat
      BY <1>3, <1>16 DEF Span
    <3> QED
      BY <1>3, <1>4, <3>1, Part
  <2>2. len <= MaxSize => Occupied(Assign(moved, pos, SubSeq(xs, 1, k)), c, Span(0, size1))
    BY <1>14, <1>15, <2>1
  <2> QED
    BY <1>8, <1>9, <1>14, <1>16, <2>2, InsertFates DEF out
<1>17. ASSUME Write(v, Assign(moved, pos, xs), size1), Called("insert", v, <<pos, xs>>, out("ok"))
       PROVE  Proper
  <2>1. len <= MaxSize => Occupied(Assign(moved, pos, xs), c, Span(0, size1))
    BY <1>2, <1>3, <1>4, <1>14, <1>15
  <2> QED
    BY <1>8, <1>9, <1>14, <1>17, <2>1, InsertFates DEF out
<1> QED
  BY <1>1, <1>12, <1>13, <1>16, <1>17

\* insert when there is too little free space: the number of elements is the one
\* size_type can represent, and as many are copied.
LEMMA InsertReallocProper ==
  ASSUME Good, WideGrowth, Realloc, NEW v \in alive, NEW pos \in Positions(v),
         NEW xs \in Sources, NEW u, u = ToSize(Len(xs)), u > FreeSpace(v),
         NEW c, c = growth(Size(v), u), c # 0,
         InsertRealloc(v, pos, xs, c), UNCHANGED <<ty, alive>>
  PROVE  Proper
<1> DEFINE n == Size(v)
           args == <<pos, xs>>
           ys == SubSeq(xs, 1, u)
           ext == Construct(Blank(c), pos, ys)
           lower == Construct(ext, 0, Read(Slots(v), 0, pos))
           whole == Construct(lower, pos + u, Read(Slots(v), pos, n - pos))
           old == Destroy(Slots(v), 0, n)
           out(fate) == Leaves(fate, InsertNoexcept)
<1>1. \/ \E fate \in CopyFate(ty, u) \ {"ok"} :
            Unwind(NewBlock, Blank(c), InsertNoexcept, "insert") /\ Called("insert", v, args, out(fate))
      \/ \E fate \in (IF ty.nmove THEN {} ELSE CopyFate(ty, pos)) \ {"ok"} :
            /\ Unwind(NewBlock, Destroy(ext, pos, pos + u), InsertNoexcept, "insert")
            /\ Called("insert", v, args, out(fate))
      \/ \E fate \in (IF ty.nmove THEN {} ELSE CopyFate(ty, n - pos)) \ {"ok"} :
            /\ Unwind(NewBlock, Destroy(Destroy(lower, 0, pos), pos, pos + u), InsertNoexcept,
                      "insert")
            /\ Called("insert", v, args, out(fate))
      \/ /\ Exchange(v, NewBlock, whole, ToSize(n + u), old, "insert")
         /\ Called("insert", v, args, "ok")
  BY DEF InsertRealloc
<1>2. /\ n \in Nat /\ pos \in Nat /\ pos <= n /\ n \in Sizes /\ u \in Sizes /\ u \in Nat
      /\ Capacity(v) \in Nat /\ FreeSpace(v) = Capacity(v) - n
  BY OfVector, Constants, Free, SourceObjects, Truncated DEF Positions, Sizes
<1>3. c \in Sizes /\ n + u \in Sizes /\ n + u <= c /\ c \in Nat
  BY <1>2, Grows DEF Sizes
<1>4. ToSize(n + u) = n + u /\ n + u > Capacity(v)
  BY <1>2, <1>3, Truncated
<1>5. u <= Len(xs)
  <2>1. Len(xs) \in Nat /\ MaxSize \in Nat
    BY SourceObjects, Constants
  <2> QED
    BY <2>1 DEF ToSize
<1>6. Objects(ys) /\ Len(ys) = u
  <2>1. 1 \in Int /\ u \in Int /\ 1 <= 1 /\ 1 <= u + 1 /\ u - 1 + 1 = u
    BY <1>2
  <2> QED
    BY <1>5, <2>1, SourceObjects, Part
<1>7. /\ ~AnyLive(Destroy(ext, pos, pos + u))
      /\ ~AnyLive(Destroy(Destroy(lower, 0, pos), pos, pos + u))
      /\ Occupied(whole, c, Span(0, n + u))
  <2> HIDE DEF ys
  <2> QED
    BY <1>3, <1>6, Parted
<1>8. ~AnyLive(Blank(c)) /\ ~AnyLive(old)
  BY <1>3, BlankEmpty, Emptied
<1> HIDE DEF ext, lower, ys
<1>9. ASSUME NEW n1, NEW fate \in CopyFate(ty, n1) \ {"ok"}, NEW new, ~AnyLive(new),
             Unwind(NewBlock, new, InsertNoexcept, "insert"), Called("insert", v, args, out(fate))
      PROVE  Proper
  <2>1. \/ out(fate) = "threw" /\ ~InsertNoexcept
        \/ out(fate) = "terminated" /\ CopiesThrow
    BY <1>9, InsertFates
  <2> HIDE DEF args, out
  <2> QED
    BY <1>9, <2>1, UnwindStep
<1>10. ASSUME Exchange(v, NewBlock, whole, n + u, old, "insert"), Called("insert", v, args, "ok")
       PROVE  Proper
  <2>1. IsBlock(whole, c)
    BY <1>7 DEF Occupied
  <2> HIDE DEF whole, old, args, n
  <2> QED
    BY <1>3, <1>4, <1>7, <1>8, <1>10, <2>1, ExchangeStep
<1> HIDE DEF whole, old, args, out, n
<1> QED
  BY <1>1, <1>4, <1>7, <1>8, <1>9, <1>10

\* insert.
LEMMA InsertProper ==
  ASSUME Good, WideGrowth, NEW v \in alive, NEW pos \in Positions(v), NEW xs \in Sources,
         Insert(v, pos, xs)
  PROVE  Proper
<1> DEFINE u == ToSize(Len(xs))
<1>1. CASE Unchanged("insert", v, <<pos, xs>>, "ok") \/ Unchanged("insert", v, <<pos, xs>>, "out_of_storage")
  BY <1>1, QuietStep
<1>2. CASE Len(xs) > 0 /\ u <= FreeSpace(v) /\ u >= Size(v) - pos /\ InsertOverEnd(v, pos, xs)
  BY <1>2, InsertOverEndProper
<1>3. CASE Len(xs) > 0 /\ u <= FreeSpace(v) /\ ~(u >= Size(v) - pos) /\ InsertInside(v, pos, xs)
  <2>1. u < Size(v) - pos
    <3>1. Size(v) - pos \in Int /\ u \in Int
      BY OfVector, SourceObjects, Truncated, Constants DEF Positions, Sizes
    <3> QED
      BY <1>3, <3>1
  <2> QED
    BY <1>3, <2>1, InsertInsideProper
<1>4. CASE /\ u > FreeSpace(v) /\ Realloc /\ growth(Size(v), u) # 0
           /\ InsertRealloc(v, pos, xs, growth(Size(v), u)) /\ UNCHANGED <<ty, alive>>
  BY <1>4, InsertReallocProper
<1> QED
  BY <1>1, <1>2, <1>3, <1>4 DEF Insert

-------------------------------------------------------------------------------
\* The elements from n on are destroyed.
LEMMA TruncateProper ==
  ASSUME Good, NEW v \in alive, NEW n \in Nat, n <= Size(v), Truncate(v, n),
         NEW op, NEW args, Called(op, v, args, "ok")
  PROVE  Proper
<1> DEFINE s == Destroy(Slots(v), n, Size(v))
           K == Span(0, Size(v))
           L == Span(n, Size(v))
<1>1. /\ Size(v) \in Nat /\ Capacity(v) \in Nat /\ Size(v) <= Capacity(v)
      /\ Capacity(v) <= MaxSize /\ MaxSize \in Nat /\ Occupied(Slots(v), Capacity(v), K)
  BY OfVector, Constants
<1>2. n \in Sizes /\ n <= Capacity(v)
  BY <1>1 DEF Sizes
<1>3. L \subseteq K /\ K \ L = Span(0, n)
  BY <1>1 DEF Span
<1>4. Occupied(s, Capacity(v), K \ L)
  BY <1>1, <1>3, DestroyOccupied
<1> HIDE DEF K, L
<1>5. Occupied(s, Capacity(v), Span(0, n)) /\ IsBlock(s, Capacity(v))
  BY <1>3, <1>4 DEF Occupied
<1>6. Write(v, s, n)
  BY DEF Truncate
<1> HIDE DEF s
<1> QED
  BY <1>2, <1>5, <1>6, WriteStep

\* erase of a range, which the single erase is a case of.
LEMMA EraseProper ==
  ASSUME Good, NEW v \in alive, NEW first \in Positions(v), NEW end \in Positions(v),
         first <= end, NEW op \in {"erase", "erase_range"}, NEW args,
         EraseRange(v, first, end, op, args)
  PROVE  Proper
<1> DEFINE n == Size(v)
           c == Capacity(v)
           tail == n - end
           closed == MoveWithin(Slots(v), end, tail, first)
           s == Destroy(closed, first + tail, n)
<1>1. /\ n \in Nat /\ c \in Nat /\ n <= c /\ c <= MaxSize /\ MaxSize \in Nat
      /\ Occupied(Slots(v), c, Span(0, n))
      /\ first \in Nat /\ end \in Nat /\ first <= end /\ end <= n
      /\ tail \in Nat /\ end + tail = n
  BY OfVector, Constants DEF Positions
<1>2. \/ Unchanged(op, v, args, "ok")
      \/ Write(v, s, first + tail) /\ Called(op, v, args, "ok")
      \/ \E k \in Span(0, tail) : /\ Write(v, MoveWithin(Slots(v), end, k, first), n)
                                  /\ Called(op, v, args, "threw")
  BY DEF EraseRange
<1>3. c = Capacity(v) /\ n = Size(v)
  OBVIOUS
<1>4. \A k \in Nat : k <= tail => Occupied(MoveWithin(Slots(v), end, k, first), c, Span(0, n))
  <2> HIDE DEF tail, n, c
  <2> SUFFICES ASSUME NEW k \in Nat, k <= tail
               PROVE  Occupied(MoveWithin(Slots(v), end, k, first), c, Span(0, n))
    OBVIOUS
  <2>1. /\ Span(end, end + k) \subseteq Span(0, n) \cap (0 .. c - 1)
        /\ Span(first, first + k) \subseteq Span(0, n)
    BY <1>1 DEF Span
  <2>2. end \in Int /\ k \in Int /\ first \in Int /\ c \in Int
    BY <1>1
  <2> QED
    BY <1>1, <2>1, <2>2, MoveWithinOccupied
<1>5. first + tail \in Sizes /\ first + tail <= c /\ n \in Sizes
  BY <1>1 DEF Sizes
<1>6. Occupied(closed, c, Span(0, n))
  <2>1. tail <= tail
    BY <1>1
  <2> QED
    BY <1>1, <1>4, <2>1
<1> HIDE DEF tail, closed
<1>7. Occupied(s, c, Span(0, first + tail))
  <2> DEFINE K == Span(0, n)
             L == Span(first + tail, n)
  <2>1. L \subseteq K /\ K \ L = Span(0, first + tail)
    BY <1>1 DEF Span
  <2>2. c \in Int /\ Occupied(closed, c, K)
    BY <1>1, <1>6
  <2>3. Occupied(s, c, K \ L)
    BY <2>1, <2>2, DestroyOccupied
  <2> HIDE DEF K, L
  <2> QED
    BY <2>1, <2>3
<1> HIDE DEF s, n, c
<1>8. CASE Unchanged(op, v, args, "ok")
  BY <1>8, QuietStep
<1>9. CASE Write(v, s, first + tail) /\ Called(op, v, args, "ok")
  <2>1. IsBlock(s, c)
    BY <1>7 DEF Occupied
  <2> QED
    BY <1>3, <1>5, <1>7, <1>9, <2>1, WriteStep
<1>10. ASSUME NEW k \in Span(0, tail), Write(v, MoveWithin(Slots(v), end, k, first), n),
              Called(op, v, args, "threw")
       PROVE  Proper
  <2> DEFINE t == MoveWithin(Slots(v), end, k, first)
  <2>1. k \in Nat /\ k <= tail
    BY <1>1, <1>10 DEF Span
  <2>2. Occupied(t, c, Span(0, n)) /\ IsBlock(t, c)
    BY <1>4, <2>1 DEF Occupied
  <2>3. n <= c /\ Write(v, t, n)
    BY <1>1, <1>10
  <2> HIDE DEF t
  <2> QED
    BY <1>3, <1>5, <1>10, <2>2, <2>3, WriteStep
<1> QED
  BY <1>2, <1>8, <1>9, <1>10

\* reserve and shrink_to_fit: the elements move to a new block.
LEMMA RelocateDynProper ==
  ASSUME Good, NEW v \in alive, NEW c \in Sizes, Size(v) <= c,
         NEW op \in {"reserve", "shrink_to_fit"}, NEW args, RelocateDyn(v, c, op, args)
  PROVE  Proper
<1> DEFINE n == Size(v)
           new == Construct(Blank(c), 0, Elements(v))
           old == Destroy(Slots(v), 0, n)
<1>1. c \in Nat /\ n \in Nat /\ n \in Sizes
  BY OfVector, Constants DEF Sizes
<1>2. ~AnyLive(Blank(c)) /\ ~AnyLive(old) /\ Occupied(new, c, Span(0, n)) /\ IsBlock(new, c)
  BY <1>1, BlankEmpty, Emptied, Copied DEF Occupied
<1>3. CASE Unchanged(op, v, args, "out_of_storage")
  BY <1>3, QuietStep
<1>4. ASSUME NEW fate \in RelocateFate(ty, n), UNCHANGED <<ty, alive>>,
             \/ /\ fate = "ok" /\ Exchange(v, NewBlock, new, n, old, op)
                /\ Called(op, v, args, "ok")
             \/ /\ fate # "ok" /\ Unwind(NewBlock, Blank(c), NothrowRelocate(ty), op)
                /\ Called(op, v, args, fate)
      PROVE  Proper
  <2>1. CASE fate = "ok"
    <3> HIDE DEF new, old, n
    <3> QED
      BY <1>1, <1>2, <1>4, <2>1, ExchangeStep DEF n
  <2>2. CASE fate # "ok"
    <3>1. ~NothrowRelocate(ty) /\ (fate = "threw" \/ (fate = "terminated" /\ CopiesThrow))
      BY <1>4, <2>2, Fates
    <3> QED
      BY <1>2, <1>4, <2>2, <3>1, UnwindStep
  <2> QED
    BY <2>1, <2>2
<1> QED
  BY <1>3, <1>4 DEF RelocateDyn

\* shrink_to_fit: the elements move into the vector's own buffer.
LEMMA RelocateStaticProper ==
  ASSUME Good, NEW v \in alive, Capacity(v) > N, Size(v) <= N,
         RelocateStatic(v, "shrink_to_fit")
  PROVE  Proper
<1> DEFINE n == Size(v)
           rec == Buffered(n)
           new == Construct(Blank(N), 0, Elements(v))
           b == Data(v)
<1>1. PICK fate \in RelocateFate(ty, n) :
        \/ /\ fate = "ok"
           /\ vec' = [vec EXCEPT ![v] = rec]
           /\ mem' = [mem EXCEPT ![v] = new, ![b] = Blank(0)]
           /\ heap' = heap \ Owned(v)
           /\ leaked' = leaked \cup LeakOf(Destroy(Slots(v), 0, n), "shrink_to_fit")
           /\ Called("shrink_to_fit", v, <<>>, "ok")
           /\ UNCHANGED <<ty, alive>>
        \/ fate # "ok" /\ Unchanged("shrink_to_fit", v, <<>>, fate)
  BY Zenon DEF RelocateStatic
<1>2. CASE fate # "ok"
  BY <1>1, <1>2, Fates, QuietStep
<1>3. CASE fate = "ok"
  <2>1. /\ vec' = [vec EXCEPT ![v] = rec]
        /\ mem' = [mem EXCEPT ![v] = new, ![b] = Blank(0)]
        /\ heap' = heap \ Owned(v) /\ UNCHANGED <<ty, alive>> /\ leaked' = leaked
        /\ last' = [op |-> "shrink_to_fit", v |-> v, args |-> <<>>, out |-> "ok"]
    BY <1>1, <1>3, Emptied DEF Called, LeakOf, NoLeak
  <2>2. /\ v \in Vecs /\ vec[v] \in StorageRecord /\ n \in Nat /\ N \in Nat /\ n <= N
        /\ IsDynamic(v) /\ b \in heap \cup {NoBlock} /\ b \in Places /\ v \in Places
        /\ mem = [p \in Places |-> mem[p]] /\ vec \in [Vecs -> StorageRecord]
        /\ heap \subseteq Blocks /\ b # v /\ v # NoBlock /\ N <= MaxSize
    BY OfVector, Constants DEF Good, Typed, Places
  <2> HIDE DEF b
  <2>3. rec \in StorageRecord /\ vec'[v] = rec /\ NoBlock \in Places
    BY <2>1, <2>2, Constants DEF StorageRecord, Buffered, Sizes, Places
  <2>4. /\ Size(v)' = n /\ Owned(v)' = {} /\ ~IsDynamic(v)' /\ Data(v)' = v /\ Capacity(v)' = N
    BY <2>3 DEF Size, Owned, IsDynamic, Data, Capacity, Buffered
  <2>5. /\ mem'[v] = new /\ mem'[b] = Blank(0) /\ mem' = [p \in Places |-> mem'[p]]
        /\ \A p \in Places : p \notin {v, b} => mem'[p] = mem[p]
    BY <2>1, <2>2
  <2>6. Occupied(new, N, Span(0, n)) /\ IsBlock(new, N)
    BY <2>2, Copied DEF Occupied
  <2> HIDE DEF new, rec, n
  <2>7. mem'[NoBlock] = mem[NoBlock]
    <3>1. IsBlock(mem[NoBlock], 0)
      BY DEF Good, Typed
    <3> QED
      BY <2>2, <2>3, <2>5, <3>1 DEF IsBlock, Blank
  <2>8. /\ heap' \subseteq Blocks /\ heap' \subseteq (heap \ Owned(v)) \cup Owned(v)'
        /\ heap \ Owned(v) \subseteq heap' /\ Owned(v)' \cap (heap \ Owned(v)) = {}
        /\ Owned(v)' \subseteq heap'
    BY <2>1, <2>2, <2>4
  <2>9. \A p \in Places : p \notin {Data(v), v} \cup Owned(v)' => mem'[p] = mem[p]
    BY <2>5 DEF b
  <2>10. Slots(v)' = new
    BY <2>4, <2>5 DEF Slots
  <2>11. /\ Typed' /\ Owning' /\ \A x : Lost(x)' => Lost(x)
         /\ \A w \in alive \ {v} : Sound(w)' /\ Data(w)' = Data(w) /\ Capacity(w)' = Capacity(w)
    BY <2>1, <2>3, <2>4, <2>5, <2>6, <2>7, <2>8, <2>9, <2>10, OneVector
  <2>12. Sound(v)'
    BY <2>2, <2>4, <2>6, <2>8, <2>10, NowSound
  <2>13. Orderly
    BY <2>1, <2>11, <2>12 DEF Orderly
  <2>14. Strong /\ Stays
    BY <2>1, <2>11 DEF Strong, Stays
  <2> QED
    BY <2>1, <2>13, <2>14 DEF Proper, Terminated
<1> QED
  BY <1>2, <1>3

\* reserve.
LEMMA ReserveProper ==
  ASSUME Good, NEW v \in alive, NEW c \in Sizes, Reserve(v, c)
  PROVE  Proper
<1>1. Size(v) \in Nat /\ Capacity(v) \in Nat /\ Size(v) <= Capacity(v) /\ c \in Nat
  BY OfVector, Constants DEF Sizes
<1>2. CASE c > Capacity(v) /\ RelocateDyn(v, c, "reserve", <<c>>)
  BY <1>1, <1>2, RelocateDynProper
<1>3. CASE \/ Unchanged("reserve", v, <<c>>, "ok")
           \/ Unchanged("reserve", v, <<c>>, "out_of_storage")
  BY <1>3, QuietStep
<1> QED
  BY <1>2, <1>3 DEF Reserve

\* shrink_to_fit.
LEMMA ShrinkToFitProper ==
  ASSUME Good, NEW v \in alive, ShrinkToFit(v)
  PROVE  Proper
<1>1. Size(v) \in Nat /\ Size(v) \in Sizes /\ N \in Nat
  BY OfVector, Constants DEF Sizes
<1>2. CASE RelocateDyn(v, Size(v), "shrink_to_fit", <<>>)
  BY <1>1, <1>2, RelocateDynProper
<1>3. CASE Capacity(v) > N /\ ~(Size(v) > N) /\ RelocateStatic(v, "shrink_to_fit")
  BY <1>1, <1>3, RelocateStaticProper
<1>4. CASE Unchanged("shrink_to_fit", v, <<>>, "ok")
  BY <1>4, QuietStep
<1> QED
  BY <1>2, <1>3, <1>4 DEF ShrinkToFit

\* resize to more elements, in a new block.
LEMMA AppendReallocProper ==
  ASSUME Good, WideGrowth, Realloc, NEW v \in alive, NEW count \in Sizes,
         count > FreeSpace(v), Size(v) + count <= MaxSize,
         NEW c, c = growth(Size(v), count),
         AppendRealloc(v, count, c), UNCHANGED <<ty, alive>>
  PROVE  Proper
<1> DEFINE n       == Size(v)
           nothrow == NothrowRelocate(ty) /\ ty.ndef
           zs      == Zeros(count)
           tail    == Construct(Blank(c), n, zs)
           undo    == IF ty.nmove THEN tail ELSE Destroy(tail, n, n + count)
           new     == Construct(tail, 0, Elements(v))
           old     == Destroy(Slots(v), 0, n)
           NoexAll == ty.nmove /\ ty.ndef
           args    == <<n + count>>
<1>1. \/ \E fate \in (IF nothrow THEN {} ELSE ValueFate(ty, count)) \ {"ok"} :
            /\ Unwind(NewBlock, Blank(c), nothrow, "resize")
            /\ Called("resize", v, args, Leaves(fate, NoexAll))
      \/ \E fate \in (IF ty.nmove \/ nothrow THEN {} ELSE CopyFate(ty, n)) \ {"ok"} :
            /\ Unwind(NewBlock, undo, nothrow, "resize")
            /\ Called("resize", v, args, Leaves(fate, NoexAll))
      \/ /\ Exchange(v, NewBlock, new, ToSize(n + count), old, "resize")
         /\ Called("resize", v, args, "ok")
  BY Zenon DEF AppendRealloc
<1>2. /\ n \in Nat /\ n \in Sizes /\ count \in Nat /\ Capacity(v) \in Nat
      /\ FreeSpace(v) = Capacity(v) - n /\ n + count > Capacity(v) /\ n + count \in Sizes
  BY OfVector, Constants, Free DEF Sizes
<1>3. c # 0
  BY <1>2, GrowthWide, GrowthHoldsAll, Constants DEF WideGrowth, Sizes
<1>4. c \in Sizes /\ c \in Nat /\ n + count <= c /\ ToSize(n + count) = n + count
  BY <1>2, <1>3, Grows, Truncated DEF Sizes
<1>5. Objects(zs) /\ Len(zs) = count
  BY <1>2, ZeroObjects
<1>6. Objects(Elements(v)) /\ Len(Elements(v)) = n
  BY <1>2, ElementObjects DEF Elements
<1> HIDE DEF zs
<1>7. Occupied(tail, c, Span(n, n + count)) /\ ~AnyLive(Destroy(tail, n, n + count))
  <2>1. n \in Int /\ c \in Int /\ n + Len(zs) = n + count
    BY <1>2, <1>4, <1>5
  <2>2. Occupied(tail, c, Span(n, n + Len(zs))) /\ ~AnyLive(Destroy(tail, n, n + Len(zs)))
    BY <1>5, <2>1, Placed
  <2> QED
    BY <2>1, <2>2
<1> HIDE DEF tail
<1>8. Occupied(new, c, Span(0, n + count)) /\ IsBlock(new, c)
  <2> DEFINE K == Span(n, n + count)
             L == Span(0, 0 + n)
  <2>1. L \cap K = {} /\ \A i \in 0 .. c - 1 : i \in K \cup L <=> i \in Span(0, n + count)
    BY <1>2 DEF Span
  <2>2. 0 \in Int /\ c \in Int /\ Span(0, 0 + Len(Elements(v))) = L
    BY <1>4, <1>6
  <2> HIDE DEF L, K
  <2>3. Occupied(new, c, K \cup L)
    <3>1. Occupied(tail, c, K)
      BY <1>7 DEF K
    <3> QED
      BY <1>6, <2>1, <2>2, <3>1, ConstructOccupied
  <2> QED
    BY <2>1, <2>2, <2>3, SameSlots DEF Occupied
<1>9. ~AnyLive(Blank(c)) /\ ~AnyLive(old)
  BY <1>4, BlankEmpty, Emptied
<1> HIDE DEF new, old, args
<1>10. ty.nmove \in BOOLEAN /\ ty.ndef \in BOOLEAN /\ nothrow \in BOOLEAN
       /\ (NoexAll => nothrow)
  BY DEF Good, Typed, Traits, NothrowRelocate
<1>11. ASSUME NEW fate \in (IF nothrow THEN {} ELSE ValueFate(ty, count)) \ {"ok"},
              Unwind(NewBlock, Blank(c), nothrow, "resize"),
              Called("resize", v, args, Leaves(fate, NoexAll))
       PROVE  Proper
  <2>1. ~nothrow /\ fate = "threw" /\ Leaves(fate, NoexAll) = "threw"
    BY <1>10, <1>11, Fates DEF Leaves
  <2> HIDE DEF nothrow, NoexAll
  <2> QED
    BY <1>9, <1>11, <2>1, UnwindStep
<1>12. ASSUME NEW fate \in (IF ty.nmove \/ nothrow THEN {} ELSE CopyFate(ty, n)) \ {"ok"},
              Unwind(NewBlock, undo, nothrow, "resize"),
              Called("resize", v, args, Leaves(fate, NoexAll))
       PROVE  Proper
  <2>1. /\ ~nothrow /\ ~ty.nmove /\ Leaves(fate, NoexAll) = fate /\ fate \in {"threw", "terminated"}
        /\ (fate = "terminated" => CopiesThrow)
    BY <1>10, <1>12, Fates DEF Leaves
  <2>2. ~AnyLive(undo)
    BY <1>7, <2>1
  <2> HIDE DEF nothrow, NoexAll, undo
  <2> QED
    BY <1>12, <2>1, <2>2, UnwindStep
<1>13. ASSUME Exchange(v, NewBlock, new, n + count, old, "resize"), Called("resize", v, args, "ok")
       PROVE  Proper
  <2> HIDE DEF n
  <2> QED
    BY <1>2, <1>4, <1>8, <1>9, <1>13, ExchangeStep
<1> HIDE DEF undo, nothrow, NoexAll, n
<1> QED
  BY <1>1, <1>4, <1>11, <1>12, <1>13

\* resize.
LEMMA ResizeProper ==
  ASSUME Good, WideGrowth, NEW v \in alive, NEW n \in Sizes, Resize(v, n)
  PROVE  Proper
<1>1. /\ Size(v) \in Nat /\ Capacity(v) \in Nat /\ Size(v) <= Capacity(v) /\ n \in Nat
      /\ Capacity(v) <= MaxSize /\ MaxSize \in Nat /\ Occupied(Slots(v), Capacity(v), Span(0, Size(v)))
      /\ FreeSpace(v) = Capacity(v) - Size(v) /\ n <= MaxSize
  BY OfVector, Constants, Free DEF Sizes
<1>2. CASE n < Size(v) /\ Truncate(v, n) /\ Called("resize", v, <<n>>, "ok")
  BY <1>1, <1>2, TruncateProper
<1>3. CASE Unchanged("resize", v, <<n>>, "ok") \/ Unchanged("resize", v, <<n>>, "out_of_storage")
  BY <1>3, QuietStep
<1>4. CASE n > Size(v) /\ DefaultAppend(v, ToSize(n - Size(v)))
  <2> DEFINE count == n - Size(v)
  <2>1. count \in Nat /\ count \in Sizes /\ ToSize(count) = count /\ Size(v) + count = n
    BY <1>1, <1>4, Truncated DEF Sizes
  <2>2. DefaultAppend(v, count)
    BY <1>4, <2>1
  <2> HIDE DEF count
  <2>3. ToSize(Size(v) + count) = n
    BY <2>1, Truncated
  <2>4. CASE /\ count > FreeSpace(v) /\ Realloc /\ UNCHANGED <<ty, alive>>
             /\ AppendRealloc(v, count, growth(Size(v), count))
    BY <1>1, <2>1, <2>4, AppendReallocProper
  <2>5. CASE Unchanged("resize", v, <<Size(v) + count>>, "out_of_storage")
    BY <2>5, QuietStep
  <2>6. ASSUME NEW fate \in ValueFate(ty, count), fate # "ok",
               Unchanged("resize", v, <<Size(v) + count>>, fate)
        PROVE  Proper
    BY <2>6, Fates, QuietStep
  <2>7. ASSUME count <= FreeSpace(v), Called("resize", v, <<Size(v) + count>>, "ok"),
               Write(v, Construct(Slots(v), Size(v), Zeros(count)), ToSize(Size(v) + count))
        PROVE  Proper
    <3> DEFINE s == Construct(Slots(v), Size(v), Zeros(count))
    <3>1. Objects(Zeros(count)) /\ Len(Zeros(count)) = count
      BY <2>1, ZeroObjects
    <3>2. Occupied(s, Capacity(v), Span(0, Size(v) + Len(Zeros(count))))
      BY <1>1, <3>1, Extended
    <3>3. Occupied(s, Capacity(v), Span(0, n)) /\ IsBlock(s, Capacity(v))
      BY <2>1, <3>1, <3>2 DEF Occupied
    <3>4. n <= Capacity(v) /\ Write(v, s, n)
      BY <1>1, <2>1, <2>3, <2>7
    <3> HIDE DEF s
    <3> QED
      BY <2>7, <3>3, <3>4, WriteStep
  <2> QED
    BY <2>2, <2>4, <2>5, <2>6, <2>7 DEF DefaultAppend
<1> QED
  BY <1>2, <1>3, <1>4 DEF Resize

\* Every operation on one vector.
LEMMA EditProper ==
  ASSUME Good, WideGrowth, NEW v, Edit(v)
  PROVE  Proper
<1>1. v \in alive
  BY DEF Edit, EmplaceBack, Emplace, Insert, InsertReversed, Erase, EraseAtEnd, Erase2, PopBack,
         Clear, ShrinkToFit, Reserve, Resize
<1>2. Size(v) \in Nat
  BY <1>1, OfVector
<1>3. CASE \E arg \in ArgsOf(v) : EmplaceBack(v, arg)
  BY <1>1, <1>3, EmplaceBackProper
<1>4. CASE \E arg \in ArgsOf(v), pos \in Positions(v) : Emplace(v, pos, arg)
  BY <1>1, <1>4, EmplaceProper
<1>5. CASE \E xs \in Sources, pos \in Positions(v) : Insert(v, pos, xs)
  BY <1>1, <1>5, InsertProper
<1>6. CASE InsertReversed(v)
  BY <1>6, QuietStep DEF InsertReversed
<1>7. ASSUME NEW pos \in Positions(v), Erase(v, pos)
      PROVE  Proper
  <2> DEFINE end == IF pos = Size(v) THEN pos ELSE pos + 1
  <2>1. end \in Positions(v) /\ pos <= end
    BY <1>2 DEF Positions
  <2>2. EraseRange(v, pos, end, "erase", <<pos>>)
    BY <1>7 DEF Erase
  <2> HIDE DEF end
  <2> QED
    BY <1>1, <2>1, <2>2, EraseProper
<1>8. ASSUME NEW pos \in Positions(v), EraseAtEnd(v, pos)
      PROVE  Proper
  <2>1. pos \in Nat
    BY <1>2 DEF Positions
  <2>2. CASE pos < Size(v) /\ Truncate(v, pos) /\ Called("erase_at_end", v, <<pos>>, "ok")
    BY <1>1, <1>2, <2>1, <2>2, TruncateProper
  <2>3. CASE Unchanged("erase_at_end", v, <<pos>>, "ok")
    BY <2>3, QuietStep
  <2> QED
    BY <1>8, <2>2, <2>3 DEF EraseAtEnd
<1>9. ASSUME NEW first \in Positions(v), NEW end \in Positions(v), Erase2(v, first, end)
      PROVE  Proper
  BY <1>1, <1>9, EraseProper DEF Erase2
<1>10. CASE PopBack(v)
  <2>1. Size(v) - 1 \in Nat /\ Size(v) - 1 <= Size(v)
    BY <1>2, <1>10 DEF PopBack
  <2> QED
    BY <1>1, <1>10, <2>1, TruncateProper DEF PopBack
<1>11. CASE Clear(v)
  BY <1>1, <1>2, <1>11, TruncateProper DEF Clear
<1>12. CASE ShrinkToFit(v)
  BY <1>1, <1>12, ShrinkToFitProper
<1>13. CASE \E n \in Sizes : Reserve(v, n) \/ Resize(v, n)
  BY <1>1, <1>13, ReserveProper, ResizeProper
<1> QED
  BY <1>3, <1>4, <1>5, <1>6, <1>7, <1>8, <1>9, <1>10, <1>11, <1>12, <1>13 DEF Edit

-------------------------------------------------------------------------------
(* The operations on storage, with an in-class buffer.                         *)

\* A call that leaves the storage of the vectors in V in order.
LEMMA Completes ==
  ASSUME Good, NEW V, NEW Old, NEW New, Touches(V, Old, New),
         heap' \subseteq (heap \ Old) \cup New,
         NEW op, NEW v, NEW args, NEW out, Called(op, v, args, out),
         leaked' \subseteq leaked \cup IF op = "swap" THEN {"swap"} ELSE {},
         \A x \in V \cap alive' : Sound(x)' => IsBlock(Slots(x)', Capacity(x)'),
         \A x \in V \cap alive' : Sound(x)' \/ Slips(x),
         out = "ok" \/ op \in {"assign_copy", "assign_move"},
         out = "terminated" => CopiesThrow,
         \/ op \in {"assign_copy", "assign_move", "swap", "construct_move"}
         \/ V \cap alive \cap alive' = {}
  PROVE  Proper
<1>1. last' = [op |-> op, v |-> v, args |-> args, out |-> out]
  BY DEF Called
<1>2. /\ (\A x \in V \cap alive' : IsBlock(Slots(x)', Capacity(x)')) => Typed'
      /\ Owning' /\ \A b : Lost(b)' => Lost(b)
      /\ \A w \in alive \ V :
           Sound(w)' /\ Data(w)' = Data(w) /\ Capacity(w)' = Capacity(w)
  BY SomeVectors
<1>3. alive' \ V = alive \ V /\ ty' = ty
  BY DEF Touches
<1>4. \A x \in alive' : Sound(x)' \/ Slips(x)
  BY <1>2, <1>3
<1>5. Orderly
  BY <1>1, <1>2, <1>4 DEF Orderly
<1>6. Strong
  BY <1>1 DEF Strong, StrongOps, AtEnd
<1>7. Stays
  BY <1>1, <1>2, <1>3 DEF Stays
<1>8. Terminated' => OnlyCopies'
  BY <1>1, <1>3 DEF Terminated, OnlyCopies, CopiesThrow
<1> QED
  BY <1>5, <1>6, <1>7, <1>8 DEF Proper

\* A buffer without objects.
LEMMA EmptyBuffer ==
  ASSUME NEW s, NEW c \in Int, IsBlock(s, c), ~AnyLive(s)
  PROVE  Occupied(s, c, {}) /\ Occupied(s, c, Span(0, 0))
<1>1. Occupied(s, c, {})
  <2>1. DOMAIN s = 0 .. c - 1
    BY DEF IsBlock
  <2> QED
    BY <2>1 DEF Occupied, AnyLive
<1>2. Span(0, 0) = {}
  BY DEF Span
<1> QED
  BY <1>1, <1>2

\* Objects put into a buffer without objects.
LEMMA Filled ==
  ASSUME NEW s, NEW c \in Int, IsBlock(s, c), ~AnyLive(s), NEW xs, Objects(xs)
  PROVE  Occupied(Construct(s, 0, xs), c, Span(0, Len(xs)))
<1> DEFINE K == Span(0, 0 + Len(xs))
<1>1. Occupied(Construct(s, 0, xs), c, {} \cup K)
  BY EmptyBuffer, ConstructOccupied
<1>2. {} \cup K = Span(0, Len(xs))
  BY DEF Objects
<1> HIDE DEF K
<1> QED
  BY <1>1, <1>2

\* The buffers of a good state.
LEMMA Buffers ==
  ASSUME Good
  PROVE  /\ \A x \in Vecs : IsBlock(mem[x], N)
         /\ \A x \in Vecs : IsDynamic(x) \/ x \notin alive => ~AnyLive(mem[x])
         /\ \A x \in Vecs \ alive : Owned(x) = {}
         /\ IsBlock(mem[NoBlock], 0) /\ mem[NoBlock] = Blank(0)
         /\ \A x \in Vecs : Data(x) \in {x, NoBlock} \cup Owned(x)
<1>1. IsBlock(mem[NoBlock], 0)
  BY DEF Good, Typed
<1>2. mem[NoBlock] = Blank(0)
  BY <1>1 DEF IsBlock, Blank
<1> QED
  BY <1>1, <1>2 DEF Good, Typed, Owning, Data, Owned

\* The default constructor.
LEMMA DefaultConstructProper ==
  ASSUME Good, NEW v \in Vecs, DefaultConstruct(v)
  PROVE  Proper
<1> DEFINE V == {v}
<1>1. /\ v \notin alive /\ alive' = alive \cup {v} /\ vec' = [vec EXCEPT ![v] = Empty]
      /\ UNCHANGED <<ty, heap, mem, leaked>> /\ Called("construct", v, <<>>, "ok")
  BY DEF DefaultConstruct
<1>2. /\ vec \in [Vecs -> StorageRecord] /\ alive \subseteq Vecs /\ heap \subseteq Blocks
      /\ mem = [p \in Places |-> mem[p]] /\ Owned(v) = {}
  BY <1>1 DEF Good, Typed, Owning
<1>3. Empty \in StorageRecord /\ vec'[v] = Empty
  BY <1>1, <1>2, Constants DEF Empty, StorageRecord, Buffered, Dynamic, Sizes
<1>4. /\ Size(v)' = 0 /\ Owned(v)' = {} /\ IsDynamic(v)' = (N = 0)
      /\ Data(v)' = (IF N = 0 THEN NoBlock ELSE v) /\ Capacity(v)' = N
  BY <1>3 DEF Size, Owned, IsDynamic, Data, Capacity, Empty, Buffered, Dynamic
<1>5. Slots(v)' = (IF N = 0 THEN mem[NoBlock] ELSE mem[v])
  BY <1>1, <1>4 DEF Slots
<1>6. Touches(V, {}, {})
  <2>1. {} = UNION {Owned(x) : x \in V} /\ {} = UNION {Owned(x)' : x \in V}
    BY <1>2, <1>4
  <2>2. \A w \in Vecs \ V : vec'[w] = vec[w]
    BY <1>1, <1>2
  <2>3. \A x \in V : /\ IsBlock(mem'[x], N) /\ ~AnyLive(mem'[x]) /\ Owned(x)' = {}
    BY <1>1, <1>4, Buffers
  <2>4. \A x, y \in V \cap alive' : x # y => Owned(x)' \cap Owned(y)' = {}
    OBVIOUS
  <2>5. vec' \in [Vecs -> StorageRecord] /\ alive' \ V = alive \ V /\ alive' \subseteq Vecs
    BY <1>1, <1>2, <1>3
  <2> QED
    BY <1>1, <1>2, <2>1, <2>2, <2>3, <2>4, <2>5 DEF Touches
<1>7. Occupied(Slots(v)', N, Span(0, 0))
  <2>1. N \in Int /\ IsBlock(mem[v], N) /\ ~AnyLive(mem[v])
    BY <1>1, Constants, Buffers
  <2>2. Occupied(Blank(0), 0, Span(0, 0))
    BY BlankOccupied DEF Span
  <2> QED
    BY <1>5, <2>1, <2>2, EmptyBuffer, Buffers
<1>8. Sound(v)' /\ IsBlock(Slots(v)', Capacity(v)')
  <2>1. N \in Nat /\ 0 \in Nat /\ 0 <= N
    BY Constants
  <2> QED
    BY <1>4, <1>7, <2>1, NowSound DEF Occupied
<1>9. V \cap alive \cap alive' = {} /\ \A x \in V : x = v
  BY <1>1
<1> HIDE DEF V
<1> QED
  BY <1>1, <1>6, <1>8, <1>9, Completes

\* The destructor.
LEMMA DestroyVectorProper ==
  ASSUME Good, NEW v \in Vecs, DestroyVector(v)
  PROVE  Proper
<1> DEFINE V == {v}
           Old == Owned(v)
           b == Data(v)
<1>1. /\ v \in alive /\ alive' = alive \ {v} /\ vec' = [vec EXCEPT ![v] = Empty]
      /\ heap' = heap \ Old /\ mem' = [mem EXCEPT ![b] = Released(b)]
      /\ ty' = ty /\ Called("destroy", v, <<>>, "ok")
  BY DEF DestroyVector
<1>2. leaked' = leaked
  BY <1>1, Emptied DEF DestroyVector, LeakOf, NoLeak
<1>3. /\ vec \in [Vecs -> StorageRecord] /\ alive \subseteq Vecs /\ heap \subseteq Blocks
      /\ mem = [p \in Places |-> mem[p]] /\ v \in Vecs /\ b \in Places
      /\ b \in {v, NoBlock} \cup Old
      /\ IsDynamic(v) => b \in heap \cup {NoBlock}
      /\ ~IsDynamic(v) => b = v
  BY <1>1, OfVector, Buffers DEF Good, Typed
<1>4. Empty \in StorageRecord /\ vec'[v] = Empty
  BY <1>1, <1>3, Constants DEF Empty, StorageRecord, Buffered, Dynamic, Sizes
<1>5. Owned(v)' = {}
  BY <1>4 DEF Owned, IsDynamic, Empty, Buffered, Dynamic
<1> HIDE DEF b
<1>6. /\ mem'[b] = Released(b) /\ mem' = [p \in Places |-> mem'[p]]
      /\ \A p \in Places : p # b => mem'[p] = mem[p]
  BY <1>1, <1>3
<1>7. mem'[NoBlock] = mem[NoBlock]
  <2>1. Released(NoBlock) = Blank(0) /\ NoBlock \in Places
    BY Constants DEF Released, Places
  <2> QED
    BY <1>6, <2>1, Buffers
<1>8. IsBlock(mem'[v], N) /\ ~AnyLive(mem'[v])
  <2>1. CASE IsDynamic(v)
    <3>1. v # b /\ v \in Places
      BY <1>3, <2>1, Constants DEF Places
    <3> QED
      BY <1>3, <1>6, <2>1, <3>1, Buffers
  <2>2. CASE ~IsDynamic(v)
    <3>1. mem'[v] = Blank(N)
      BY <1>3, <1>6, <2>2 DEF Released
    <3>2. Occupied(Blank(N), N, {}) /\ N \in Int
      BY Constants, BlankOccupied
    <3> QED
      BY <3>1, <3>2, NoObjects DEF Occupied
  <2> QED
    BY <2>1, <2>2
<1>9. Touches(V, Old, {})
  <2>1. Old = UNION {Owned(x) : x \in V} /\ {} = UNION {Owned(x)' : x \in V}
    BY <1>5
  <2>2. \A w \in Vecs \ V : vec'[w] = vec[w]
    BY <1>1, <1>3
  <2>3. \A x \in V : /\ IsBlock(mem'[x], N) /\ ~AnyLive(mem'[x]) /\ Owned(x)' = {}
    BY <1>5, <1>8
  <2>4. \A x, y \in V \cap alive' : x # y => Owned(x)' \cap Owned(y)' = {}
    OBVIOUS
  <2>5. /\ vec' \in [Vecs -> StorageRecord] /\ alive' \ V = alive \ V /\ alive' \subseteq Vecs
        /\ V \subseteq Vecs
    BY <1>1, <1>3, <1>4
  <2>6. \A p \in Places : p \notin V \cup Old \cup {} => mem'[p] = mem[p]
    BY <1>3, <1>6, <1>7
  <2>7. heap' \subseteq Blocks /\ heap \ Old \subseteq heap' /\ {} \cap (heap \ Old) = {}
    BY <1>1, <1>3
  <2>8. ty' = ty /\ mem' = [p \in Places |-> mem'[p]] /\ mem'[NoBlock] = mem[NoBlock]
    BY <1>1, <1>6, <1>7
  <2> HIDE DEF V, Old
  <2> QED
    BY <2>1, <2>2, <2>3, <2>4, <2>5, <2>6, <2>7, <2>8 DEF Touches
<1>10. V \cap alive' = {} /\ heap' \subseteq (heap \ Old) \cup {}
  BY <1>1
<1> HIDE DEF V, Old
<1> QED
  BY <1>1, <1>2, <1>9, <1>10, Completes

\* v takes the block of w.
LEMMA TakesBlock ==
  ASSUME Good, N > 0, NEW v \in Vecs, NEW w \in alive, v # w, IsDynamic(w), TakeBlock(v, w),
         NEW Old, Old = Owned(v) \cup Owned(w), heap' = heap \ Owned(v), ty' = ty,
         alive' = alive \cup {v},
         mem' = [p \in Places |-> mem'[p]], mem'[NoBlock] = mem[NoBlock],
         \A p \in Places : p \notin {v} \cup Owned(v) => mem'[p] = mem[p],
         IsBlock(mem'[v], N), ~AnyLive(mem'[v])
  PROVE  /\ Touches({v, w}, Old, Owned(w)) /\ heap' \subseteq (heap \ Old) \cup Owned(w)
         /\ \A x \in {v, w} : Sound(x)' /\ IsBlock(Slots(x)', Capacity(x)')
<1> DEFINE V == {v, w}
           New == Owned(w)
<1>1. /\ w \in Vecs /\ vec[w] \in StorageRecord /\ Size(w) \in Nat /\ Capacity(w) \in Nat
      /\ Size(w) <= Capacity(w) /\ Occupied(Slots(w), Capacity(w), Span(0, Size(w)))
      /\ vec \in [Vecs -> StorageRecord] /\ alive \subseteq Vecs /\ heap \subseteq Blocks
      /\ Owned(w) \subseteq heap /\ N \in Nat /\ Data(w) \in Owned(w) \cup {NoBlock}
      /\ Data(w) \in Places
  BY OfVector, Constants DEF Good, Typed, Sound, Owned, Data
<1>2. Owned(v) \cap Owned(w) = {} /\ Owned(v) \subseteq Blocks /\ Owned(w) \subseteq Blocks
  <2>1. Owned(v) \cap Owned(w) = {}
    BY DEF Good, Owning
  <2>2. Owned(v) \subseteq Blocks /\ Owned(w) \subseteq Blocks
    BY <1>1, Constants DEF Owned, IsDynamic, StorageRecord
  <2> QED
    BY <2>1, <2>2
<1>3. Buffered(0) \in StorageRecord
  BY Constants DEF StorageRecord, Buffered, Sizes
<1>4. vec'[v] = vec[w] /\ vec'[w] = Buffered(0) /\ vec' \in [Vecs -> StorageRecord]
      /\ \A x \in Vecs \ V : vec'[x] = vec[x]
  BY <1>1, <1>3 DEF TakeBlock
<1>5. /\ Size(v)' = Size(w) /\ Capacity(v)' = Capacity(w) /\ Owned(v)' = Owned(w)
      /\ Data(v)' = Data(w) /\ IsDynamic(v)'
      /\ Size(w)' = 0 /\ Capacity(w)' = N /\ Owned(w)' = {} /\ Data(w)' = w /\ ~IsDynamic(w)'
  BY <1>4 DEF Size, Capacity, Owned, Data, IsDynamic, Buffered
<1>6. w \notin {v} \cup Owned(v) /\ w \in Places /\ (Data(w) \notin {v} \cup Owned(v))
  BY <1>1, <1>2, Constants DEF Places
<1>7. mem'[w] = mem[w] /\ Slots(w)' = mem[w] /\ Slots(v)' = Slots(w)
  BY <1>1, <1>5, <1>6 DEF Slots
<1>8. IsBlock(mem[w], N) /\ ~AnyLive(mem[w])
  BY <1>1, Buffers
<1>9. Sound(v)' /\ IsBlock(Slots(v)', Capacity(v)')
  <2>1. Owned(v)' \subseteq heap'
    BY <1>1, <1>2, <1>5
  <2> QED
    BY <1>1, <1>5, <1>7, <2>1, NowSound DEF Occupied
<1>10. Sound(w)' /\ IsBlock(Slots(w)', Capacity(w)')
  <2>1. Occupied(mem[w], N, Span(0, 0)) /\ 0 \in Nat /\ 0 <= N
    BY <1>1, <1>8, EmptyBuffer
  <2>2. Owned(w)' \subseteq heap'
    BY <1>5
  <2> QED
    BY <1>1, <1>5, <1>7, <1>8, <2>1, <2>2, NowSound
<1>11. Old = UNION {Owned(x) : x \in V} /\ New = UNION {Owned(x)' : x \in V}
  BY <1>5
<1>12. \A x \in V : /\ IsBlock(mem'[x], N)
                    /\ x \notin alive' => Owned(x)' = {} /\ ~AnyLive(mem'[x])
                    /\ IsDynamic(x)' => ~AnyLive(mem'[x])
  BY <1>7, <1>8
<1>13. \A x, y \in V \cap alive' : x # y => Owned(x)' \cap Owned(y)' = {}
  BY <1>5
<1>14. \A p \in Places : p \notin V \cup Old \cup New => mem'[p] = mem[p]
  OBVIOUS
<1>15. heap' \subseteq Blocks /\ heap \ Old \subseteq heap' /\ New \cap (heap \ Old) = {}
       /\ heap' \subseteq (heap \ Old) \cup New
  BY <1>1, <1>2
<1>16. V \subseteq Vecs /\ alive' \subseteq Vecs /\ alive' \ V = alive \ V
  BY <1>1
<1> HIDE DEF V, New
<1>17. Touches(V, Old, New)
  BY <1>4, <1>11, <1>12, <1>13, <1>14, <1>15, <1>16 DEF Touches
<1> QED
  BY <1>9, <1>10, <1>15, <1>17 DEF V, New

\* The elements of w's buffer move into v's buffer.
LEMMA MovesBuffer ==
  ASSUME Good, N > 0, NEW v \in Vecs, NEW w \in alive, v # w, ~IsDynamic(w),
         vec' = [vec EXCEPT ![v] = Buffered(Size(w)), ![w] = Buffered(0)],
         heap' = heap \ Owned(v), ty' = ty, alive' = alive \cup {v},
         mem' = [p \in Places |-> mem'[p]], mem'[NoBlock] = mem[NoBlock],
         \A p \in Places : p \notin {v, w} \cup Owned(v) => mem'[p] = mem[p],
         mem'[v] = Construct(Blank(N), 0, Elements(w)),
         mem'[w] = Destroy(mem[w], 0, Size(w))
  PROVE  /\ Touches({v, w}, Owned(v), {}) /\ heap' \subseteq (heap \ Owned(v)) \cup {}
         /\ \A x \in {v, w} : Sound(x)' /\ IsBlock(Slots(x)', Capacity(x)')
<1> DEFINE V == {v, w}
           Old == Owned(v)
           n == Size(w)
<1>1. /\ w \in Vecs /\ n \in Nat /\ n <= N /\ Capacity(w) = N /\ Slots(w) = mem[w]
      /\ vec \in [Vecs -> StorageRecord] /\ alive \subseteq Vecs /\ heap \subseteq Blocks
      /\ N \in Nat /\ N <= MaxSize /\ Owned(w) = {} /\ MaxSize \in Nat
  BY OfVector, Constants DEF Good, Typed, Slots, Owned
<1>2. Buffered(0) \in StorageRecord /\ Buffered(n) \in StorageRecord
  BY <1>1 DEF StorageRecord, Buffered, Sizes
<1>3. vec'[v] = Buffered(n) /\ vec'[w] = Buffered(0) /\ vec' \in [Vecs -> StorageRecord]
      /\ \A x \in Vecs \ V : vec'[x] = vec[x]
  BY <1>1, <1>2
<1>4. /\ Size(v)' = n /\ Capacity(v)' = N /\ Owned(v)' = {} /\ Data(v)' = v /\ ~IsDynamic(v)'
      /\ Size(w)' = 0 /\ Capacity(w)' = N /\ Owned(w)' = {} /\ Data(w)' = w /\ ~IsDynamic(w)'
  BY <1>3 DEF Size, Capacity, Owned, Data, IsDynamic, Buffered
<1>5. Occupied(mem'[v], N, Span(0, n)) /\ IsBlock(mem'[v], N)
  BY <1>1, Copied DEF Occupied
<1>6. IsBlock(mem'[w], N) /\ ~AnyLive(mem'[w])
  <2>1. IsBlock(mem[w], N)
    BY <1>1, Buffers
  <2> QED
    BY <1>1, <2>1, SameBlock, Emptied
<1>7. Slots(v)' = mem'[v] /\ Slots(w)' = mem'[w]
  BY <1>4 DEF Slots
<1>8. Occupied(mem'[w], N, Span(0, 0)) /\ 0 \in Nat /\ 0 <= N
  BY <1>1, <1>6, EmptyBuffer
<1>9. Sound(v)' /\ Sound(w)'
  <2>1. Owned(v)' \subseteq heap' /\ Owned(w)' \subseteq heap'
    BY <1>4
  <2> QED
    BY <1>1, <1>4, <1>5, <1>7, <1>8, <2>1, NowSound
<1>10. Old = UNION {Owned(x) : x \in V} /\ {} = UNION {Owned(x)' : x \in V}
  BY <1>1, <1>4
<1>11. \A x \in V : IsBlock(mem'[x], N) /\ x \in alive' /\ ~IsDynamic(x)' /\ Owned(x)' = {}
  BY <1>4, <1>5, <1>6
<1>12. \A x, y \in V \cap alive' : x # y => Owned(x)' \cap Owned(y)' = {}
  BY <1>11
<1>13. \A p \in Places : p \notin V \cup Old \cup {} => mem'[p] = mem[p]
  OBVIOUS
<1>14. heap' \subseteq Blocks /\ heap \ Old \subseteq heap' /\ {} \cap (heap \ Old) = {}
       /\ heap' \subseteq (heap \ Old) \cup {}
  BY <1>1
<1>15. V \subseteq Vecs /\ alive' \subseteq Vecs /\ alive' \ V = alive \ V
  BY <1>1
<1> HIDE DEF V, Old, n
<1>16. Touches(V, Old, {})
  BY <1>3, <1>10, <1>11, <1>12, <1>13, <1>14, <1>15 DEF Touches
<1> QED
  BY <1>4, <1>5, <1>6, <1>7, <1>9, <1>14, <1>16 DEF V, Old

\* The move constructor.
LEMMA ConstructMoveProper ==
  ASSUME Good, NEW v \in Vecs, NEW w \in Vecs, ConstructMove(v, w)
  PROVE  Proper
<1>1. /\ N > 0 /\ v \notin alive /\ w \in alive /\ v # w /\ Owned(v) = {}
      /\ mem = [p \in Places |-> mem[p]] /\ v \in Places /\ w \in Places
      /\ v # NoBlock /\ w # NoBlock /\ vec \in [Vecs -> StorageRecord]
  BY Constants DEF ConstructMove, Good, Typed, Owning, Places
<1>2. PICK fate \in IF IsDynamic(w) THEN {"ok"}
                    ELSE {Leaves(f, ty.nmove) : f \in RelocateFate(ty, Size(w))} :
        \/ /\ fate = "ok"
           /\ alive' = alive \cup {v}
           /\ IF IsDynamic(w) THEN TakeBlock(v, w) /\ UNCHANGED mem
                              ELSE RelocateBuffer(v, w)
           /\ Called("construct_move", v, <<w>>, "ok")
           /\ UNCHANGED <<ty, heap, leaked>>
        \/ fate # "ok" /\ Unchanged("construct_move", v, <<w>>, fate)
  BY DEF ConstructMove
<1>3. CASE fate # "ok"
  <2>1. PICK f \in RelocateFate(ty, Size(w)) : fate = Leaves(f, ty.nmove)
    BY <1>2, <1>3
  <2>2. fate = "terminated" => CopiesThrow
    BY <1>3, <2>1, Fates DEF Leaves, NothrowRelocate
  <2> QED
    BY <1>2, <1>3, <2>2, QuietStep
<1>4. CASE fate = "ok" /\ IsDynamic(w)
  <2>1. Touches({v, w}, Owned(v) \cup Owned(w), Owned(w))
        /\ heap' \subseteq (heap \ (Owned(v) \cup Owned(w))) \cup Owned(w)
        /\ \A x \in {v, w} : Sound(x)' /\ IsBlock(Slots(x)', Capacity(x)')
    <3>1. IsBlock(mem'[v], N) /\ ~AnyLive(mem'[v]) /\ mem' = mem
      BY <1>1, <1>2, <1>4, Buffers
    <3>2. heap' = heap \ Owned(v)
      BY <1>1, <1>2, <1>4
    <3> DEFINE Old == Owned(v) \cup Owned(w)
    <3>3. Old = Owned(v) \cup Owned(w)
      OBVIOUS
    <3> HIDE DEF Old
    <3>4. Touches({v, w}, Old, Owned(w)) /\ heap' \subseteq (heap \ Old) \cup Owned(w)
          /\ \A x \in {v, w} : Sound(x)' /\ IsBlock(Slots(x)', Capacity(x)')
      BY <1>1, <1>2, <1>4, <3>1, <3>2, <3>3, TakesBlock
    <3> QED
      BY <3>4 DEF Old
  <2> DEFINE V == {v, w}
             Old == Owned(v) \cup Owned(w)
             New == Owned(w)
  <2>2. Touches(V, Old, New) /\ heap' \subseteq (heap \ Old) \cup New
        /\ \A x \in V : Sound(x)' /\ IsBlock(Slots(x)', Capacity(x)')
    BY <2>1
  <2> HIDE DEF V, Old, New
  <2> QED
    BY <1>2, <1>4, <2>2, Completes
<1>5. CASE fate = "ok" /\ ~IsDynamic(w)
  <2>1. /\ mem' = [mem EXCEPT ![v] = Construct(Blank(N), 0, Elements(w)),
                              ![w] = Destroy(mem[w], 0, Size(w))]
        /\ vec' = [vec EXCEPT ![v] = Buffered(Size(w)), ![w] = Buffered(0)]
    BY <1>2, <1>5 DEF RelocateBuffer
  <2>2. /\ mem' = [p \in Places |-> mem'[p]] /\ mem'[NoBlock] = mem[NoBlock]
        /\ \A p \in Places : p \notin {v, w} \cup Owned(v) => mem'[p] = mem[p]
        /\ mem'[v] = Construct(Blank(N), 0, Elements(w))
        /\ mem'[w] = Destroy(mem[w], 0, Size(w))
    BY <1>1, <2>1 DEF Places
  <2>3. heap' = heap \ Owned(v)
    BY <1>1, <1>2, <1>5
  <2>4. /\ Touches({v, w}, Owned(v), {}) /\ heap' \subseteq (heap \ Owned(v)) \cup {}
        /\ \A x \in {v, w} : Sound(x)' /\ IsBlock(Slots(x)', Capacity(x)')
    BY <1>1, <1>2, <1>5, <2>1, <2>2, <2>3, MovesBuffer
  <2> DEFINE V == {v, w}
  <2>5. Touches(V, Owned(v), {}) /\ \A x \in V : Sound(x)' /\ IsBlock(Slots(x)', Capacity(x)')
    BY <2>4
  <2> HIDE DEF V
  <2> QED
    BY <1>2, <1>5, <2>4, <2>5, Completes
<1> QED
  BY <1>2, <1>3, <1>4, <1>5

\* Move assignment.
LEMMA AssignMoveProper ==
  ASSUME Good, NEW v \in Vecs, NEW w \in Vecs, AssignMove(v, w)
  PROVE  Proper
<1> DEFINE b == Data(v)
           cleared == [mem EXCEPT ![b] = Released(b)]
<1>1. /\ N > 0 /\ v \in alive /\ w \in alive /\ v # w /\ heap' = heap \ Owned(v)
      /\ ty' = ty /\ alive' = alive /\ alive' = alive \cup {v}
      /\ mem = [p \in Places |-> mem[p]] /\ v \in Places /\ w \in Places /\ NoBlock \in Places
      /\ v # NoBlock /\ w # NoBlock /\ vec \in [Vecs -> StorageRecord] /\ alive \subseteq Vecs
      /\ heap \subseteq Blocks
  BY Constants DEF AssignMove, Good, Typed, Places
<1>2. leaked' = leaked
  BY <1>1, Emptied DEF AssignMove, LeakOf, NoLeak
<1>3. b \in Places /\ b \in {v, NoBlock} \cup Owned(v) /\ b # w
      /\ (IsDynamic(v) => b # v) /\ (~IsDynamic(v) => b = v)
      /\ Owned(v) \subseteq Blocks /\ v \notin Owned(v) /\ w \notin Owned(v) /\ NoBlock \notin Owned(v)
  <2>1. Owned(v) \subseteq Blocks
    BY <1>1, Constants DEF Owned, IsDynamic, StorageRecord
  <2>2. b \in Places /\ b \in {v, NoBlock} \cup Owned(v)
    BY <1>1, OfVector, Buffers
  <2>3. (IsDynamic(v) => b # v) /\ (~IsDynamic(v) => b = v)
    BY <1>1, OfVector, Constants
  <2> QED
    BY <1>1, <2>1, <2>2, <2>3, Constants
<1>4. Released(NoBlock) = mem[NoBlock] /\ Released(v) = Blank(N)
  BY <1>1, Constants, Buffers DEF Released
<1> HIDE DEF b
<1>5. /\ cleared = [p \in Places |-> cleared[p]]
      /\ cleared[b] = Released(b) /\ \A p \in Places : p # b => cleared[p] = mem[p]
      /\ cleared[NoBlock] = mem[NoBlock]
      /\ \A p \in Places : p \notin {v} \cup Owned(v) => cleared[p] = mem[p]
  BY <1>1, <1>3, <1>4
<1>6. IsBlock(cleared[v], N) /\ ~AnyLive(cleared[v])
  <2>1. CASE IsDynamic(v)
    BY <1>1, <1>3, <1>5, <2>1, Buffers
  <2>2. CASE ~IsDynamic(v)
    <3>1. cleared[v] = Blank(N) /\ N \in Int
      BY <1>3, <1>4, <1>5, <2>2, Constants
    <3> QED
      BY <3>1, BlankOccupied, NoObjects DEF Occupied
  <2> QED
    BY <2>1, <2>2
<1>7. \/ /\ IsDynamic(w) /\ mem' = cleared /\ TakeBlock(v, w)
         /\ Called("assign_move", v, <<w>>, "ok")
      \/ /\ ~IsDynamic(w)
         /\ mem' = [cleared EXCEPT ![v] = Construct(Blank(N), 0, Elements(w)),
                                   ![w] = Destroy(mem[w], 0, Size(w))]
         /\ vec' = [vec EXCEPT ![v] = Buffered(Size(w)), ![w] = Buffered(0)]
         /\ Called("assign_move", v, <<w>>, "ok")
      \/ /\ ~IsDynamic(w)
         /\ \E fate \in RelocateFate(ty, Size(w)) \ {"ok"} :
              /\ mem' = cleared
              /\ vec' = [vec EXCEPT ![v] = Buffered(Size(v))]
              /\ Called("assign_move", v, <<w>>, Leaves(fate, ty.nmove))
  BY Zenon DEF AssignMove, b
<1> HIDE DEF cleared
<1>8. CASE IsDynamic(w) /\ mem' = cleared /\ TakeBlock(v, w) /\ Called("assign_move", v, <<w>>, "ok")
  <2> DEFINE V == {v, w}
             Old == Owned(v) \cup Owned(w)
             New == Owned(w)
  <2>1. Old = Owned(v) \cup Owned(w)
    OBVIOUS
  <2> HIDE DEF Old
  <2>2. Touches({v, w}, Old, Owned(w)) /\ heap' \subseteq (heap \ Old) \cup Owned(w)
        /\ \A x \in {v, w} : Sound(x)' /\ IsBlock(Slots(x)', Capacity(x)')
    BY <1>1, <1>5, <1>6, <1>8, <2>1, TakesBlock
  <2>3. Touches(V, Old, New) /\ heap' \subseteq (heap \ Old) \cup New
        /\ \A x \in V : Sound(x)' /\ IsBlock(Slots(x)', Capacity(x)')
    BY <2>2
  <2> HIDE DEF V, New
  <2> QED
    BY <1>2, <1>8, <2>3, Completes
<1>9. CASE /\ ~IsDynamic(w)
           /\ mem' = [cleared EXCEPT ![v] = Construct(Blank(N), 0, Elements(w)),
                                     ![w] = Destroy(mem[w], 0, Size(w))]
           /\ vec' = [vec EXCEPT ![v] = Buffered(Size(w)), ![w] = Buffered(0)]
           /\ Called("assign_move", v, <<w>>, "ok")
  <2>1. /\ mem' = [p \in Places |-> mem'[p]] /\ mem'[NoBlock] = mem[NoBlock]
        /\ \A p \in Places : p \notin {v, w} \cup Owned(v) => mem'[p] = mem[p]
        /\ mem'[v] = Construct(Blank(N), 0, Elements(w))
        /\ mem'[w] = Destroy(mem[w], 0, Size(w))
    BY <1>1, <1>5, <1>9
  <2>2. /\ Touches({v, w}, Owned(v), {}) /\ heap' \subseteq (heap \ Owned(v)) \cup {}
        /\ \A x \in {v, w} : Sound(x)' /\ IsBlock(Slots(x)', Capacity(x)')
    BY <1>1, <1>9, <2>1, MovesBuffer
  <2> DEFINE V == {v, w}
  <2>3. Touches(V, Owned(v), {}) /\ \A x \in V : Sound(x)' /\ IsBlock(Slots(x)', Capacity(x)')
    BY <2>2
  <2> HIDE DEF V
  <2> QED
    BY <1>2, <1>9, <2>2, <2>3, Completes
<1>10. ASSUME NEW fate \in RelocateFate(ty, Size(w)) \ {"ok"}, mem' = cleared,
              vec' = [vec EXCEPT ![v] = Buffered(Size(v))],
              Called("assign_move", v, <<w>>, Leaves(fate, ty.nmove))
       PROVE  Proper
  <2> DEFINE V == {v}
             Old == Owned(v)
             out == Leaves(fate, ty.nmove)
  <2>1. out \in {"threw", "terminated"} /\ (out = "terminated" => CopiesThrow)
    BY <1>10, Fates DEF Leaves, NothrowRelocate
  <2> HIDE DEF out
  <2>2. Buffered(Size(v)) \in StorageRecord
    <3>1. Size(v) \in Nat /\ Size(v) <= MaxSize /\ MaxSize \in Nat
      BY <1>1, OfVector, Constants
    <3> QED
      BY <3>1 DEF StorageRecord, Buffered, Sizes
  <2>3. vec'[v] = Buffered(Size(v)) /\ vec' \in [Vecs -> StorageRecord]
        /\ \A x \in Vecs \ V : vec'[x] = vec[x]
    BY <1>1, <1>10, <2>2
  <2>4. Capacity(v)' = N /\ Owned(v)' = {} /\ Data(v)' = v /\ ~IsDynamic(v)'
    BY <2>3 DEF Capacity, Owned, Data, IsDynamic, Buffered
  <2>5. Slots(v)' = mem'[v] /\ IsBlock(mem'[v], N)
    BY <1>6, <1>10, <2>4 DEF Slots
  <2>6. Old = UNION {Owned(x) : x \in V} /\ {} = UNION {Owned(x)' : x \in V}
    BY <2>4
  <2>7. \A x \in V : IsBlock(mem'[x], N) /\ x \in alive' /\ ~IsDynamic(x)' /\ Owned(x)' = {}
    BY <1>1, <2>4, <2>5
  <2>8. \A x, y \in V \cap alive' : x # y => Owned(x)' \cap Owned(y)' = {}
    OBVIOUS
  <2>9. \A p \in Places : p \notin V \cup Old \cup {} => mem'[p] = mem[p]
    BY <1>5, <1>10
  <2>10. heap' \subseteq Blocks /\ heap \ Old \subseteq heap' /\ {} \cap (heap \ Old) = {}
         /\ heap' \subseteq (heap \ Old) \cup {}
    BY <1>1
  <2>11. V \subseteq Vecs /\ alive' \subseteq Vecs /\ alive' \ V = alive \ V
    BY <1>1
  <2>12. mem' = [p \in Places |-> mem'[p]] /\ mem'[NoBlock] = mem[NoBlock]
    BY <1>5, <1>10
  <2>13. \A x \in V : IsBlock(Slots(x)', Capacity(x)') /\ (out = "threw" => Slips(x))
    BY <1>10, <2>4, <2>5 DEF Slips, Called, out
  <2> HIDE DEF V, Old
  <2>14. Touches(V, Old, {})
    BY <1>1, <2>3, <2>6, <2>7, <2>8, <2>9, <2>10, <2>11, <2>12 DEF Touches
  <2>15. Called("assign_move", v, <<w>>, out)
    BY <1>10 DEF out
  <2>16. CASE out = "threw"
    BY <1>2, <2>10, <2>13, <2>14, <2>15, <2>16, Completes
  <2>17. CASE out = "terminated"
    <3>1. Terminated' /\ last'.op = "assign_move"
      BY <2>15, <2>17 DEF Called, Terminated
    <3>2. OnlyCopies'
      BY <1>1, <2>1, <2>17 DEF OnlyCopies, CopiesThrow
    <3>3. Strong /\ Stays
      BY <2>15, <2>17 DEF Called, Strong, Stays
    <3> QED
      BY <3>1, <3>2, <3>3 DEF Proper
  <2> QED
    BY <2>1, <2>16, <2>17
<1> QED
  BY <1>7, <1>8, <1>9, <1>10

\* The slots of null.
LEMMA NullCapacity ==
  ASSUME Good, NEW v \in alive, Data(v) = NoBlock
  PROVE  Capacity(v) = 0
<1>1. IsBlock(mem[NoBlock], 0) /\ IsBlock(Slots(v), Capacity(v)) /\ Slots(v) = mem[NoBlock]
  BY DEF Good, Typed, Slots
<1>2. DOMAIN mem[NoBlock] = 0 .. 0 - 1 /\ DOMAIN mem[NoBlock] = 0 .. Capacity(v) - 1
  BY <1>1 DEF IsBlock
<1>3. Capacity(v) \in Nat
  BY OfVector
<1>4. \A c \in Nat : 0 .. 0 - 1 = 0 .. c - 1 => c = 0
  <2> SUFFICES ASSUME NEW c \in Nat, c # 0 PROVE 0 .. 0 - 1 # 0 .. c - 1
    OBVIOUS
  <2>1. 0 \in 0 .. c - 1 /\ 0 \notin 0 .. 0 - 1
    OBVIOUS
  <2> QED
    BY <2>1
<1> QED
  BY <1>2, <1>3, <1>4

\* A call that gives the vector v another record.
Gives(v, rec) ==
  /\ rec \in StorageRecord /\ vec' = [vec EXCEPT ![v] = rec]
  /\ ty' = ty /\ v \in alive' /\ alive' = alive \cup {v}
  /\ mem' = [p \in Places |-> mem'[p]] /\ mem'[NoBlock] = mem[NoBlock]
  /\ \A p \in Places : p \notin {v} \cup Owned(v) \cup Owned(v)' => mem'[p] = mem[p]
  /\ IsBlock(mem'[v], N) /\ (IsDynamic(v)' => ~AnyLive(mem'[v]))
  /\ heap' \subseteq Blocks /\ heap \ Owned(v) \subseteq heap'
  /\ Owned(v)' \cap (heap \ Owned(v)) = {}

\* Such a call touches v alone.
LEMMA OneTouched ==
  ASSUME Good, NEW v \in Vecs, NEW rec, Gives(v, rec),
         NEW V, V = {v}, NEW Old, Old = Owned(v), NEW New, New = Owned(v)'
  PROVE  Touches(V, Old, New)
<1>0. /\ rec \in StorageRecord /\ vec' = [vec EXCEPT ![v] = rec]
      /\ ty' = ty /\ v \in alive' /\ alive' = alive \cup {v}
      /\ mem' = [p \in Places |-> mem'[p]] /\ mem'[NoBlock] = mem[NoBlock]
      /\ \A p \in Places : p \notin {v} \cup Old \cup New => mem'[p] = mem[p]
      /\ IsBlock(mem'[v], N) /\ (IsDynamic(v)' => ~AnyLive(mem'[v]))
      /\ heap' \subseteq Blocks /\ heap \ Old \subseteq heap' /\ New \cap (heap \ Old) = {}
  BY DEF Gives
<1>1. vec \in [Vecs -> StorageRecord] /\ alive \subseteq Vecs
  BY DEF Good, Typed
<1>2. /\ vec' \in [Vecs -> StorageRecord] /\ vec'[v] = rec
      /\ \A w \in Vecs \ V : vec'[w] = vec[w]
  BY <1>0, <1>1
<1>3. Old = UNION {Owned(x) : x \in V} /\ New = UNION {Owned(x)' : x \in V}
  OBVIOUS
<1>4. \A x \in V : /\ IsBlock(mem'[x], N)
                   /\ x \in alive'
                   /\ IsDynamic(x)' => ~AnyLive(mem'[x])
  BY <1>0
<1>5. \A x, y \in V \cap alive' : x # y => Owned(x)' \cap Owned(y)' = {}
  OBVIOUS
<1>6. V \subseteq Vecs /\ alive' \subseteq Vecs /\ alive' \ V = alive \ V
  BY <1>0, <1>1
<1>7. \A p \in Places : p \notin V \cup Old \cup New => mem'[p] = mem[p]
  BY <1>0
<1>8. heap \ Old \subseteq heap' /\ New \cap (heap \ Old) = {}
  BY <1>0
<1> QED
  BY <1>0, <1>2, <1>3, <1>4, <1>5, <1>6, <1>7, <1>8 DEF Touches

\* The call changes the records of the vectors in V, their storage and blocks that
\* were free, and nothing else.
Alters(V) ==
  /\ alive' \ V = alive \ V
  /\ \A w \in Vecs \ V : vec'[w] = vec[w]
  /\ \A p \in Places :
       mem'[p] = mem[p] \/ p \in V \/ p \in Blocks \ heap \/ \E x \in V : p \in Owned(x)

\* What touches some vectors alone alters them alone.
LEMMA TouchesAlters ==
  ASSUME NEW V, NEW Old, NEW New, Touches(V, Old, New)
  PROVE  Alters(V)
<1>1. /\ alive' \ V = alive \ V /\ vec' \in [Vecs -> StorageRecord]
      /\ \A w \in Vecs \ V : vec'[w] = vec[w]
      /\ \A p \in Places : p \notin V \cup Old \cup New => mem'[p] = mem[p]
      /\ Old = UNION {Owned(x) : x \in V} /\ New = UNION {Owned(x)' : x \in V}
      /\ New \cap (heap \ Old) = {} /\ V \subseteq Vecs
  BY DEF Touches
<1>2. \A x \in V : Owned(x)' \subseteq Blocks
  BY <1>1 DEF Owned, IsDynamic, StorageRecord
<1>3. New \subseteq Blocks
  BY <1>1, <1>2
<1>4. \A p \in Old : \E x \in V : p \in Owned(x)
  BY <1>1
<1>5. \A p \in New : p \in Old \/ p \in Blocks \ heap
  BY <1>1, <1>3
<1> QED
  BY <1>1, <1>4, <1>5 DEF Alters

\* A call that gives one vector another record alters it alone.
LEMMA OneAlters ==
  ASSUME Good, NEW v \in Vecs, NEW rec, Gives(v, rec)
  PROVE  Alters({v})
<1>1. PICK V, Old, New : V = {v} /\ Old = Owned(v) /\ New = Owned(v)'
  OBVIOUS
<1>2. Touches(V, Old, New)
  BY <1>1, OneTouched
<1> QED
  BY <1>1, <1>2, TouchesAlters

\* One vector is left in order.
LEMMA OneCompletes ==
  ASSUME Good, NEW v \in Vecs, NEW rec, Gives(v, rec),
         heap' \subseteq (heap \ Owned(v)) \cup Owned(v)', leaked' = leaked,
         NEW op, op \in {"assign_copy", "construct_copy"},
         NEW w, NEW out, Called(op, v, <<w>>, out), out = "terminated" => CopiesThrow,
         op = "construct_copy" => v \notin alive /\ out = "ok",
         Sound(v)' => IsBlock(Slots(v)', Capacity(v)'),
         \/ Sound(v)'
         \/ /\ op = "assign_copy" /\ out \in {"threw", "terminated"}
            /\ \E x \in alive : Size(x) > Capacity(v)
  PROVE  Proper
<1> DEFINE V == {v}
           Old == Owned(v)
           New == Owned(v)'
<1>1. V = {v} /\ Old = Owned(v) /\ New = Owned(v)'
  OBVIOUS
<1>2. \A x \in V \cap alive' : x = v
  OBVIOUS
<1>3. op = "construct_copy" => V \cap alive \cap alive' = {}
  OBVIOUS
<1>4. heap' \subseteq (heap \ Old) \cup New
  OBVIOUS
<1> HIDE DEF V, Old, New
<1>5. Touches(V, Old, New)
  BY <1>1, OneTouched
<1>6. CASE Sound(v)' \/ out = "threw"
  <2>1. Sound(v)' \/ Slips(v)
    BY <1>6 DEF Called, Slips
  <2>2. \A x \in V \cap alive' : Sound(x)' => IsBlock(Slots(x)', Capacity(x)')
    BY <1>2
  <2>3. \A x \in V \cap alive' : Sound(x)' \/ Slips(x)
    BY <1>2, <2>1
  <2>4. leaked' \subseteq leaked \cup IF op = "swap" THEN {"swap"} ELSE {}
    OBVIOUS
  <2> HIDE DEF V
  <2>5. \/ op \in {"assign_copy", "assign_move", "swap", "construct_move"}
        \/ V \cap alive \cap alive' = {}
    BY <1>3
  <2>6. out = "ok" \/ op \in {"assign_copy", "assign_move"}
    OBVIOUS
  <2> QED
    BY <1>5, <1>4, <2>2, <2>3, <2>4, <2>5, <2>6, Completes
<1>7. CASE ~Sound(v)' /\ out # "threw"
  <2>1. out = "terminated" /\ op = "assign_copy"
    BY <1>7
  <2>2. Terminated' /\ last'.op = "assign_copy" /\ last'.out = "terminated"
    BY <2>1 DEF Called, Terminated
  <2>3. OnlyCopies'
    BY <2>1 DEF OnlyCopies, CopiesThrow, Gives
  <2>4. Strong /\ Stays
    BY <2>2 DEF Strong, Stays
  <2> QED
    BY <2>2, <2>3, <2>4 DEF Proper
<1> QED
  BY <1>6, <1>7

\* The copy constructor.
LEMMA ConstructCopyProper ==
  ASSUME Good, NEW v \in Vecs, NEW w \in Vecs, ConstructCopy(v, w)
  PROVE  Proper
<1> DEFINE n == Size(w)
           b == NewBlock
           new == Construct(Blank(n), 0, Elements(w))
<1>1. /\ N > 0 /\ v \notin alive /\ w \in alive /\ Owned(v) = {} /\ v \in Places
      /\ ~AnyLive(mem[v]) /\ IsBlock(mem[v], N) /\ mem = [p \in Places |-> mem[p]]
      /\ v # NoBlock /\ v \notin Blocks /\ heap \subseteq Blocks /\ NoBlock \notin Blocks
      /\ N \in Nat /\ NoBlock \in Places /\ N <= MaxSize /\ MaxSize \in Nat
      /\ Data(v) \in {v, NoBlock} /\ (Data(v) = v \/ Data(v) = NoBlock)
  <2>1. v \notin alive
    BY DEF ConstructCopy
  <2>2. Owned(v) = {} /\ ~AnyLive(mem[v]) /\ Data(v) \in {v, NoBlock}
    BY <2>1, Buffers DEF Good, Owning
  <2> QED
    BY <2>1, <2>2, Constants DEF ConstructCopy, Good, Typed, Places
<1>2. n \in Nat /\ n \in Sizes /\ n <= MaxSize
  BY <1>1, OfVector DEF Sizes
<1>3. Len(Elements(w)) = n /\ Objects(Elements(w))
  <2>1. 0 \in Nat /\ 0 + n <= Size(w)
    BY <1>2
  <2>2. Len(Read(Slots(w), 0, n)) = n /\ Objects(Read(Slots(w), 0, n))
    BY <1>1, <1>2, <2>1, ElementObjects
  <2> QED
    BY <2>2 DEF Elements
<1> HIDE DEF n
<1>4. CASE \E out : Unchanged("construct_copy", v, <<w>>, out)
                    /\ (out = "terminated" => CopiesThrow)
  BY <1>4, QuietStep
<1>5. CASE /\ \E fate \in CopyFate(ty, n) \ {"ok"} :
                Called("construct_copy", v, <<w>>, fate)
                /\ Unwind(b, Blank(n), ty.ncopy, "construct_copy")
           /\ UNCHANGED <<ty, alive>>
  <2>1. PICK fate \in CopyFate(ty, n) \ {"ok"} :
                Called("construct_copy", v, <<w>>, fate)
                /\ Unwind(b, Blank(n), ty.ncopy, "construct_copy")
    BY <1>5
  <2>2. fate \in {"threw", "terminated"} /\ ~ty.ncopy /\ (fate = "terminated" => CopiesThrow)
    BY <2>1, Fates
  <2>3. ~AnyLive(Blank(n))
    BY <1>2, BlankEmpty
  <2> HIDE DEF b
  <2> QED
    BY <1>5, <2>1, <2>2, <2>3, UnwindStep
<1>6. CASE /\ n <= N
           /\ mem' = [mem EXCEPT ![v] = Construct(mem[v], 0, Elements(w))]
           /\ vec' = [vec EXCEPT ![v] = Buffered(n)]
           /\ alive' = alive \cup {v}
           /\ Called("construct_copy", v, <<w>>, "ok")
           /\ UNCHANGED <<ty, heap, leaked>>
  <2>1. Occupied(mem'[v], N, Span(0, n)) /\ IsBlock(mem'[v], N)
    <3>1. mem'[v] = Construct(mem[v], 0, Elements(w))
      BY <1>1, <1>6
    <3>2. Occupied(Construct(mem[v], 0, Elements(w)), N, Span(0, Len(Elements(w))))
      BY <1>1, <1>3, Filled
    <3> QED
      BY <1>3, <3>1, <3>2 DEF Occupied
  <2>2. Buffered(n) \in StorageRecord
    BY <1>2 DEF StorageRecord, Buffered
  <2>3. vec'[v] = Buffered(n)
    BY <1>6 DEF Good, Typed
  <2>4. /\ Size(v)' = n /\ Capacity(v)' = N /\ Owned(v)' = {} /\ Data(v)' = v /\ ~IsDynamic(v)'
    BY <2>3 DEF Size, Capacity, Owned, Data, IsDynamic, Buffered
  <2>5. Slots(v)' = mem'[v] /\ Owned(v)' \subseteq heap'
    BY <2>4 DEF Slots
  <2>6. Sound(v)' /\ IsBlock(Slots(v)', Capacity(v)')
    BY <1>1, <1>2, <1>6, <2>1, <2>4, <2>5, NowSound
  <2>7. /\ mem' = [p \in Places |-> mem'[p]] /\ mem'[NoBlock] = mem[NoBlock]
        /\ \A p \in Places : p \notin {v} \cup Owned(v) \cup Owned(v)' => mem'[p] = mem[p]
    BY <1>1, <1>6
  <2>8. heap' \subseteq Blocks /\ heap \ Owned(v) \subseteq heap'
        /\ Owned(v)' \cap (heap \ Owned(v)) = {} /\ heap' \subseteq (heap \ Owned(v)) \cup Owned(v)'
    BY <1>1, <1>6, <2>4
  <2>9. v \in alive' /\ alive' = alive \cup {v} /\ vec' = [vec EXCEPT ![v] = Buffered(n)]
        /\ ty' = ty /\ leaked' = leaked /\ Called("construct_copy", v, <<w>>, "ok")
    BY <1>6
  <2>10. v \notin alive /\ "construct_copy" \in {"assign_copy", "construct_copy"}
         /\ (IsDynamic(v)' => ~AnyLive(mem'[v])) /\ IsBlock(mem'[v], N)
    BY <1>1, <2>1, <2>4
  <2>11. Gives(v, Buffered(n))
    BY <2>2, <2>7, <2>8, <2>9, <2>10 DEF Gives
  <2> QED
    BY <1>1, <2>6, <2>8, <2>9, <2>11, OneCompletes
<1>7. CASE /\ n > N
           /\ Exchange(v, b, new, n, mem[v], "construct_copy")
           /\ alive' = alive \cup {v}
           /\ Called("construct_copy", v, <<w>>, "ok")
           /\ UNCHANGED ty
  <2>1. b \in Blocks \ heap
    BY <1>7, FreshBlock DEF Exchange, NewBlock
  <2> HIDE DEF b
  <2>2. Occupied(new, n, Span(0, n)) /\ IsBlock(new, n)
    BY <1>1, <1>2, Copied DEF n, Occupied
  <2>3. Cardinality(DOMAIN new) = n
    <3>1. DOMAIN new = 0 .. n - 1
      BY <2>2 DEF IsBlock
    <3>2. \A i \in Nat : Cardinality(0 .. i - 1) = i
      BY FS_Interval
    <3> QED
      BY <1>2, <3>1, <3>2
  <2> HIDE DEF new
  <2>4. /\ vec' = [vec EXCEPT ![v] = Dynamic(b, n, n)] /\ heap' = heap \cup {b}
        /\ mem' = [mem EXCEPT ![b] = new, ![Data(v)] = Released(Data(v))]
        /\ leaked' = leaked
    BY <1>1, <1>7, <2>3 DEF Exchange, LeakOf, NoLeak
  <2>5. Dynamic(b, n, n) \in StorageRecord
    BY <1>2, <2>1 DEF StorageRecord, Dynamic
  <2>6. vec'[v] = Dynamic(b, n, n)
    BY <2>4 DEF Good, Typed
  <2>7. /\ Size(v)' = n /\ Capacity(v)' = n /\ Owned(v)' = {b} /\ Data(v)' = b /\ IsDynamic(v)'
    BY <1>1, <2>1, <2>6 DEF Size, Capacity, Owned, Data, IsDynamic, Dynamic
  <2>8. /\ mem' = [p \in Places |-> mem'[p]] /\ mem'[b] = new
        /\ mem'[NoBlock] = mem[NoBlock]
        /\ \A p \in Places : p \notin {v} \cup {b} => mem'[p] = mem[p]
        /\ mem'[v] = mem[v] \/ mem'[v] = Blank(N)
    <3>1. Released(NoBlock) = mem[NoBlock] /\ Released(v) = Blank(N)
      BY Constants, Buffers DEF Released
    <3>2. b \in Places /\ b # v /\ b # NoBlock
      BY <1>1, <2>1 DEF Places
    <3>3. CASE Data(v) = v
      BY <1>1, <2>4, <3>1, <3>2, <3>3
    <3>4. CASE Data(v) = NoBlock
      BY <1>1, <2>4, <3>1, <3>2, <3>4
    <3> QED
      BY <1>1, <3>3, <3>4
  <2>9. IsBlock(mem'[v], N) /\ ~AnyLive(mem'[v])
    <3>1. Occupied(Blank(N), N, {})
      BY <1>1, BlankOccupied
    <3>2. IsBlock(Blank(N), N) /\ ~AnyLive(Blank(N))
      BY <1>1, <3>1, NoObjects DEF Occupied
    <3> QED
      BY <1>1, <2>8, <3>2
  <2>10. Slots(v)' = new /\ Owned(v)' \subseteq heap'
    BY <2>4, <2>7, <2>8 DEF Slots
  <2>11. Sound(v)' /\ IsBlock(Slots(v)', Capacity(v)')
    BY <1>2, <2>2, <2>7, <2>10, NowSound
  <2>12. heap' \subseteq Blocks /\ heap \ Owned(v) \subseteq heap'
        /\ Owned(v)' \cap (heap \ Owned(v)) = {} /\ heap' \subseteq (heap \ Owned(v)) \cup Owned(v)'
    BY <1>1, <2>1, <2>4, <2>7
  <2>13. v \in alive' /\ alive' = alive \cup {v} /\ ty' = ty
         /\ Called("construct_copy", v, <<w>>, "ok")
    BY <1>7
  <2>14. \A p \in Places : p \notin {v} \cup Owned(v) \cup Owned(v)' => mem'[p] = mem[p]
    BY <2>7, <2>8
  <2>15. mem' = [p \in Places |-> mem'[p]] /\ mem'[NoBlock] = mem[NoBlock]
    BY <2>8
  <2>16. v \notin alive /\ "construct_copy" \in {"assign_copy", "construct_copy"}
         /\ vec' = [vec EXCEPT ![v] = Dynamic(b, n, n)] /\ leaked' = leaked
    BY <1>1, <2>4
  <2>17. Gives(v, Dynamic(b, n, n))
    BY <2>5, <2>9, <2>12, <2>13, <2>14, <2>15, <2>16 DEF Gives
  <2> QED
    BY <1>1, <2>4, <2>11, <2>12, <2>13, <2>17, OneCompletes
<1>8. \E fate \in CopyFate(ty, n) :
       \/ /\ n > N /\ fate = "ok"
          /\ Exchange(v, b, new, n, mem[v], "construct_copy")
          /\ alive' = alive \cup {v}
          /\ Called("construct_copy", v, <<w>>, "ok")
          /\ UNCHANGED ty
       \/ /\ n > N /\ fate # "ok"
          /\ Unwind(b, Blank(n), ty.ncopy, "construct_copy")
          /\ Called("construct_copy", v, <<w>>, fate)
          /\ UNCHANGED <<ty, alive>>
       \/ n > N /\ Unchanged("construct_copy", v, <<w>>, "threw")
       \/ /\ n <= N /\ fate = "ok"
          /\ mem' = [mem EXCEPT ![v] = Construct(mem[v], 0, Elements(w))]
          /\ vec' = [vec EXCEPT ![v] = Buffered(n)]
          /\ alive' = alive \cup {v}
          /\ Called("construct_copy", v, <<w>>, "ok")
          /\ UNCHANGED <<ty, heap, leaked>>
       \/ n <= N /\ fate # "ok" /\ Unchanged("construct_copy", v, <<w>>, fate)
  BY Zenon DEF ConstructCopy, n, b, new
<1>9. \A fate \in CopyFate(ty, n) : fate = "terminated" => CopiesThrow
  BY Fates
<1> HIDE DEF b, new
<1> QED
  BY <1>4, <1>5, <1>6, <1>7, <1>8, <1>9

\* The block of a vector.
LEMMA OwnedBlock ==
  ASSUME NEW v
  PROVE  /\ ~IsDynamic(v) => Owned(v) = {}
         /\ IsDynamic(v) => Owned(v) = {Data(v)} \ {NoBlock}
BY DEF Owned, IsDynamic, Data

\* A living vector's block is allocated.
LEMMA OwnedAllocated ==
  ASSUME Good, NEW v \in alive
  PROVE  Owned(v) \subseteq heap
BY DEF Good, Sound, Owned, IsDynamic

\* What an assignment copies.
LEMMA Source ==
  ASSUME Good, NEW v \in alive, NEW w \in alive,
         NEW n, n = IF v = w THEN 0 ELSE Size(w)
  PROVE  /\ n \in Nat /\ n \in Sizes /\ n <= MaxSize
         /\ Len(Read(Slots(w), 0, n)) = n /\ Objects(Read(Slots(w), 0, n))
<1>1. Size(w) \in Nat /\ Size(w) <= Capacity(w) /\ Capacity(w) <= MaxSize /\ Capacity(w) \in Nat
      /\ MaxSize \in Nat
  BY OfVector, Constants
<1>2. n \in Nat /\ n <= Size(w) /\ n <= MaxSize /\ n \in Sizes
  BY <1>1 DEF Sizes
<1> QED
  BY <1>2, ElementObjects

\* The part of a copy assignment that frees the block of v.
Clears(v, m) ==
  m = [mem EXCEPT ![Data(v)] = IF Owned(v) # {} THEN Blank(0) ELSE Blank(Capacity(v))]

\* What storage is like when the block of v is freed or its slots are emptied.
LEMMA Cleared ==
  ASSUME Good, NEW v \in alive, NEW m, Clears(v, m)
  PROVE  /\ m = [p \in Places |-> m[p]] /\ m[NoBlock] = mem[NoBlock]
         /\ \A p \in Places : p \notin {v} \cup Owned(v) => m[p] = mem[p]
         /\ IsBlock(m[v], N) /\ ~AnyLive(m[v])
         /\ Owned(v) = {} => m[Data(v)] = Blank(Capacity(v))
<1>1. /\ v \in Vecs /\ Data(v) \in Places /\ Capacity(v) \in Nat /\ N \in Nat /\ v \in Places
      /\ mem = [p \in Places |-> mem[p]] /\ v # NoBlock /\ NoBlock \in Places
      /\ mem[NoBlock] = Blank(0) /\ IsBlock(mem[v], N) /\ v \notin Owned(v)
      /\ NoBlock \notin Owned(v) /\ Data(v) \in {v, NoBlock} \cup Owned(v)
  <2>1. v \in Vecs
    BY OfVector
  <2>2. Owned(v) \subseteq Blocks
    BY <2>1, Constants DEF Good, Typed, Owned, IsDynamic, StorageRecord
  <2> QED
    BY <2>1, <2>2, OfVector, Constants, Buffers DEF Good, Typed, Places
<1>2. \A c \in Nat : IsBlock(Blank(c), c) /\ ~AnyLive(Blank(c))
  BY BlankOccupied, BlankEmpty DEF Occupied
<1>3. /\ m = [p \in Places |-> m[p]] /\ \A p \in Places : p # Data(v) => m[p] = mem[p]
      /\ m[Data(v)] = IF Owned(v) # {} THEN Blank(0) ELSE Blank(Capacity(v))
  BY <1>1 DEF Clears
<1>4. CASE Data(v) = NoBlock
  <2>1. Capacity(v) = 0
    BY <1>4, NullCapacity
  <2>2. m[NoBlock] = mem[NoBlock]
    BY <1>1, <1>3, <1>4, <2>1
  <2>3. IsDynamic(v)
    BY <1>1, <1>4, OfVector
  <2>4. m[v] = mem[v] /\ ~AnyLive(mem[v])
    BY <1>1, <1>3, <1>4, <2>3, Buffers
  <2> QED
    BY <1>1, <1>3, <1>4, <2>2, <2>4
<1>5. CASE Data(v) = v
  <2>1. ~IsDynamic(v) /\ Owned(v) = {} /\ Capacity(v) = N
    <3>1. ~IsDynamic(v)
      BY <1>1, <1>5, OfVector, Constants DEF Good, Typed
    <3> QED
      BY <3>1, OfVector, OwnedBlock
  <2>2. m[v] = Blank(N)
    BY <1>3, <1>5, <2>1
  <2> QED
    BY <1>1, <1>2, <1>3, <1>5, <2>1, <2>2
<1>6. CASE Data(v) \in Owned(v)
  <2>1. IsDynamic(v)
    BY <1>6, OwnedBlock
  <2>2. Owned(v) # {} /\ Data(v) # v /\ Data(v) # NoBlock
    BY <1>1, <1>6
  <2> QED
    BY <1>1, <1>3, <1>6, <2>1, <2>2, Buffers
<1> QED
  BY <1>1, <1>4, <1>5, <1>6

\* Copy assignment.
LEMMA AssignCopyProper ==
  ASSUME Good, NEW v \in Vecs, NEW w \in Vecs, AssignCopy(v, w)
  PROVE  Proper /\ Alters({v})
<1> DEFINE n        == IF v = w THEN 0 ELSE Size(w)
           xs       == Read(Slots(w), 0, n)
           grows    == Capacity(v) < n
           unpins   == ~grows /\ IsDynamic(v) /\ n <= N
           place    == IF unpins THEN v ELSE Data(v)
           freed    == IF grows \/ unpins THEN Owned(v) ELSE {}
           emptied  == IF unpins THEN Buffered(0) ELSE [vec[v] EXCEPT !.size = 0]
           cleared  == [mem EXCEPT ![Data(v)] = IF freed # {} THEN Blank(0)
                                                  ELSE Blank(Capacity(v))]
           b        == BlockOutside(heap \ freed)
<1>1. \E fate \in CopyFate(ty, n) :
           \/ /\ grows /\ fate = "ok" /\ MemoryLeft(heap \ freed)
              /\ /\ heap' = (heap \ freed) \cup {b}
                 /\ mem' = [cleared EXCEPT ![b] = Construct(Blank(n), 0, xs)]
                 /\ vec' = [vec EXCEPT ![v] = Dynamic(b, n, n)]
              /\ Called("assign_copy", v, <<w>>, "ok")
           \/ /\ grows
              /\ heap' = heap \ freed
              /\ mem' = cleared
              /\ vec' = [vec EXCEPT ![v] = emptied]
              /\ Called("assign_copy", v, <<w>>, IF fate = "ok" THEN "threw" ELSE fate)
           \/ /\ ~grows
              /\ heap' = heap \ freed
              /\ mem' = IF fate = "ok"
                           THEN [cleared EXCEPT ![place] = Construct(@, 0, xs)]
                           ELSE cleared
              /\ vec' = [vec EXCEPT ![v] = [emptied EXCEPT !.size =
                                              IF fate = "ok" THEN n ELSE 0]]
              /\ Called("assign_copy", v, <<w>>, fate)
  BY Zenon DEF AssignCopy
<1>2. /\ N > 0 /\ v \in alive /\ w \in alive /\ ty' = ty /\ alive' = alive
  BY DEF AssignCopy
<1>3. leaked' = leaked
  BY <1>2, Emptied DEF AssignCopy, LeakOf, NoLeak
<1>4. n \in Nat /\ n \in Sizes /\ n <= MaxSize /\ Len(xs) = n /\ Objects(xs)
  BY <1>2, Source
<1>5. /\ vec \in [Vecs -> StorageRecord] /\ vec[v] \in StorageRecord /\ Capacity(v) \in Nat
      /\ alive \subseteq Vecs /\ heap \subseteq Blocks /\ N \in Nat /\ NoBlock \notin Blocks
      /\ v \notin Blocks /\ Owned(v) \subseteq Blocks /\ NoBlock \in Places /\ v # NoBlock
      /\ Data(v) \in Places /\ mem = [p \in Places |-> mem[p]] /\ v \in Places
      /\ 0 \in Sizes /\ N <= MaxSize /\ MaxSize \in Nat
  <2>1. vec[v] \in StorageRecord /\ Capacity(v) \in Nat /\ Data(v) \in Places
    BY <1>2, OfVector
  <2>2. Owned(v) \subseteq Blocks
    BY <2>1, Constants DEF Owned, IsDynamic, StorageRecord
  <2> QED
    BY <2>1, <2>2, Constants DEF Good, Typed, Places, Sizes
<1>6. \A fate \in CopyFate(ty, n) \ {"ok"} :
        fate \in {"threw", "terminated"} /\ (fate = "terminated" => CopiesThrow)
  BY Fates
<1>7. /\ v \in alive' /\ alive' = alive \cup {v}
  BY <1>2
<1>8. [vec[v] EXCEPT !.size = 0] \in StorageRecord /\ Buffered(0) \in StorageRecord
  BY <1>5 DEF StorageRecord, Buffered
<1>9. grows => freed = Owned(v) /\ ~unpins
  OBVIOUS
<1>10. cleared = [mem EXCEPT ![Data(v)] = IF freed # {} THEN Blank(0) ELSE Blank(Capacity(v))]
  OBVIOUS
<1> HIDE DEF n
<1> HIDE DEF xs, freed, b, cleared
<1>11. CASE /\ grows /\ MemoryLeft(heap \ freed)
            /\ heap' = (heap \ freed) \cup {b}
            /\ mem' = [cleared EXCEPT ![b] = Construct(Blank(n), 0, xs)]
            /\ vec' = [vec EXCEPT ![v] = Dynamic(b, n, n)]
            /\ Called("assign_copy", v, <<w>>, "ok")
  <2>1. b \in Blocks \ (heap \ freed) /\ freed = Owned(v)
    BY <1>9, <1>11, FreshBlock DEF b
  <2>2. Dynamic(b, n, n) \in StorageRecord
    BY <1>4, <2>1 DEF StorageRecord, Dynamic
  <2>3. vec'[v] = Dynamic(b, n, n)
    BY <1>5, <1>11
  <2>4. /\ Size(v)' = n /\ Capacity(v)' = n /\ Owned(v)' = {b} /\ Data(v)' = b /\ IsDynamic(v)'
    BY <1>5, <2>1, <2>3 DEF Size, Capacity, Owned, Data, IsDynamic, Dynamic
  <2>5. /\ cleared = [p \in Places |-> cleared[p]] /\ cleared[NoBlock] = mem[NoBlock]
        /\ \A p \in Places : p \notin {v} \cup Owned(v) => cleared[p] = mem[p]
        /\ IsBlock(cleared[v], N) /\ ~AnyLive(cleared[v])
    <3>1. Clears(v, cleared)
      BY <1>10, <2>1 DEF Clears
    <3> QED
      BY <1>2, <3>1, Cleared
  <2>6. b \in Places /\ b # v /\ b # NoBlock
    BY <1>5, <2>1 DEF Places
  <2>7. /\ mem' = [p \in Places |-> mem'[p]] /\ mem'[b] = Construct(Blank(n), 0, xs)
        /\ \A p \in Places : p # b => mem'[p] = cleared[p]
    BY <1>11, <2>5, <2>6
  <2>8. mem'[NoBlock] = mem[NoBlock] /\ IsBlock(mem'[v], N) /\ ~AnyLive(mem'[v])
    BY <1>5, <2>5, <2>6, <2>7
  <2>9. \A p \in Places : p \notin {v} \cup Owned(v) \cup Owned(v)' => mem'[p] = mem[p]
    BY <2>4, <2>5, <2>7
  <2>10. heap' \subseteq Blocks /\ heap \ Owned(v) \subseteq heap'
         /\ Owned(v)' \cap (heap \ Owned(v)) = {} /\ heap' \subseteq (heap \ Owned(v)) \cup Owned(v)'
         /\ Owned(v)' \subseteq heap'
    BY <1>5, <1>11, <2>1, <2>4
  <2>11. Occupied(mem'[b], n, Span(0, n)) /\ IsBlock(mem'[b], n)
    <3>1. n \in Int /\ Occupied(Blank(n), n, {})
      BY <1>4, BlankOccupied
    <3>2. IsBlock(Blank(n), n) /\ ~AnyLive(Blank(n))
      BY <3>1, NoObjects DEF Occupied
    <3>3. Occupied(Construct(Blank(n), 0, xs), n, Span(0, Len(xs)))
      BY <1>4, <3>1, <3>2, Filled
    <3> QED
      BY <1>4, <2>7, <3>3 DEF Occupied
  <2>12. Slots(v)' = mem'[b]
    BY <2>4 DEF Slots
  <2>13. Sound(v)' /\ IsBlock(Slots(v)', Capacity(v)')
    BY <1>4, <2>4, <2>10, <2>11, <2>12, NowSound
  <2>14. vec' = [vec EXCEPT ![v] = Dynamic(b, n, n)] /\ Called("assign_copy", v, <<w>>, "ok")
    BY <1>11
  <2>15. Gives(v, Dynamic(b, n, n))
    BY <1>2, <1>7, <2>2, <2>7, <2>8, <2>9, <2>10, <2>14 DEF Gives
  <2>16. Alters({v})
    BY <2>15, OneAlters
  <2>17. Proper
    BY <1>3, <2>10, <2>13, <2>14, <2>15, OneCompletes
  <2> QED
    BY <2>16, <2>17
<1>12. ASSUME NEW out, out \in {"threw", "terminated"}, out = "terminated" => CopiesThrow,
              grows, heap' = heap \ freed, mem' = cleared, vec' = [vec EXCEPT ![v] = emptied],
              Called("assign_copy", v, <<w>>, out)
       PROVE  Proper /\ Alters({v})
  <2> DEFINE rec == [vec[v] EXCEPT !.size = 0]
  <2>1. vec' = [vec EXCEPT ![v] = rec] /\ freed = Owned(v)
    BY <1>9, <1>12
  <2>2. vec'[v] = rec
    BY <1>5, <2>1
  <2>3. /\ vec'[v].active = vec[v].active /\ vec'[v].ptr = vec[v].ptr /\ vec'[v].cap = vec[v].cap
    BY <1>5, <2>2 DEF StorageRecord
  <2> HIDE DEF rec
  <2>4. /\ Owned(v)' = Owned(v) /\ Data(v)' = Data(v) /\ IsDynamic(v)' = IsDynamic(v)
        /\ Capacity(v)' = Capacity(v)
    BY <2>3 DEF Owned, Data, IsDynamic, Capacity
  <2>5. /\ mem' = [p \in Places |-> mem'[p]] /\ mem'[NoBlock] = mem[NoBlock]
        /\ \A p \in Places : p \notin {v} \cup Owned(v) => mem'[p] = mem[p]
        /\ IsBlock(mem'[v], N) /\ ~AnyLive(mem'[v])
        /\ Owned(v) = {} => mem'[Data(v)] = Blank(Capacity(v))
    <3>1. Clears(v, cleared) /\ mem' = cleared
      BY <1>10, <1>12, <2>1 DEF Clears
    <3> QED
      BY <1>2, <3>1, Cleared
  <2>6. Sound(v)' => IsBlock(Slots(v)', Capacity(v)')
    <3>1. Owned(v) # {} => ~Sound(v)'
      BY <1>12, <2>1, <2>3, <2>4 DEF Sound, Owned, IsDynamic
    <3>2. Owned(v) = {} => Slots(v)' = Blank(Capacity(v))
      BY <2>4, <2>5 DEF Slots
    <3>3. IsBlock(Blank(Capacity(v)), Capacity(v))
      BY <1>5, BlankOccupied DEF Occupied
    <3> QED
      BY <2>4, <3>1, <3>2, <3>3
  <2>7. heap' \subseteq Blocks /\ heap \ Owned(v) \subseteq heap'
        /\ Owned(v)' \cap (heap \ Owned(v)) = {} /\ heap' \subseteq (heap \ Owned(v)) \cup Owned(v)'
    BY <1>5, <1>12, <2>1, <2>4
  <2>8. rec \in StorageRecord
    BY <1>8 DEF rec
  <2>9. \A p \in Places : p \notin {v} \cup Owned(v) \cup Owned(v)' => mem'[p] = mem[p]
    BY <2>5
  <2>10. Gives(v, rec)
    BY <1>2, <1>7, <2>1, <2>5, <2>7, <2>8, <2>9 DEF Gives
  <2>11. \E x \in alive : Size(x) > Capacity(v)
    <3>1. v # w /\ n = Size(w)
      BY <1>5, <1>12 DEF n
    <3> QED
      BY <1>2, <1>12, <3>1
  <2>12. Alters({v})
    BY <2>10, OneAlters
  <2> QED
    BY <1>3, <1>12, <2>6, <2>7, <2>10, <2>11, <2>12, OneCompletes
<1>13. ASSUME NEW fate \in CopyFate(ty, n), ~grows, heap' = heap \ freed,
              mem' = IF fate = "ok" THEN [cleared EXCEPT ![place] = Construct(@, 0, xs)]
                                    ELSE cleared,
              vec' = [vec EXCEPT ![v] = [emptied EXCEPT !.size = IF fate = "ok" THEN n ELSE 0]],
              Called("assign_copy", v, <<w>>, fate)
       PROVE  Proper /\ Alters({v})
  <2> DEFINE k == IF fate = "ok" THEN n ELSE 0
             ys == IF fate = "ok" THEN xs ELSE <<>>
             c == IF unpins THEN N ELSE Capacity(v)
             rec == [emptied EXCEPT !.size = k]
  <2>1. k \in Nat /\ k \in Sizes /\ k <= MaxSize /\ k <= n
    BY <1>4, <1>5
  <2>2. c \in Nat /\ n <= c /\ k <= c
    BY <1>4, <1>5, <1>13, <2>1
  <2>3. /\ rec \in StorageRecord /\ rec.size = k
        /\ unpins => rec.active = "buffered"
        /\ ~unpins => rec.active = vec[v].active /\ rec.ptr = vec[v].ptr /\ rec.cap = vec[v].cap
    <3>1. CASE unpins
      <4>1. rec = Buffered(k)
        BY <3>1 DEF Buffered
      <4> QED
        BY <2>1, <3>1, <4>1 DEF StorageRecord, Buffered
    <3>2. CASE ~unpins
      <4>1. rec = [vec[v] EXCEPT !.size = k]
        BY <1>5, <3>2 DEF StorageRecord
      <4> QED
        BY <1>5, <2>1, <3>2, <4>1 DEF StorageRecord
    <3> QED
      BY <3>1, <3>2
  <2> HIDE DEF rec, k
  <2>4. vec' = [vec EXCEPT ![v] = rec] /\ vec'[v] = rec
    BY <1>5, <1>13 DEF rec, k
  <2>5. /\ Size(v)' = k /\ Capacity(v)' = c /\ Data(v)' = place
        /\ unpins => Owned(v)' = {} /\ ~IsDynamic(v)'
        /\ ~unpins => Owned(v)' = Owned(v) /\ IsDynamic(v)' = IsDynamic(v)
    BY <2>3, <2>4 DEF Size, Capacity, Owned, Data, IsDynamic
  <2>6. /\ cleared = [p \in Places |-> cleared[p]] /\ cleared[NoBlock] = mem[NoBlock]
        /\ \A p \in Places : p \notin {v} \cup Owned(v) => cleared[p] = mem[p]
        /\ IsBlock(cleared[v], N) /\ (unpins \/ IsDynamic(v) => ~AnyLive(cleared[v]))
        /\ IsBlock(cleared[place], c) /\ ~AnyLive(cleared[place])
        /\ place \in Places /\ (place # v => place \in Owned(v) /\ ~unpins)
    <3>1. CASE unpins
      <4>1. freed = Owned(v) /\ place = v /\ c = N
        BY <3>1 DEF freed
      <4>2. /\ cleared = [p \in Places |-> cleared[p]] /\ cleared[NoBlock] = mem[NoBlock]
            /\ \A p \in Places : p \notin {v} \cup Owned(v) => cleared[p] = mem[p]
            /\ IsBlock(cleared[v], N) /\ ~AnyLive(cleared[v])
        <5>1. Clears(v, cleared)
          BY <1>10, <4>1 DEF Clears
        <5> QED
          BY <1>2, <5>1, Cleared
      <4> QED
        BY <1>5, <4>1, <4>2
    <3>2. CASE ~unpins
      <4>1. freed = {} /\ place = Data(v) /\ c = Capacity(v)
        BY <1>13, <3>2 DEF freed
      <4>2. cleared = [mem EXCEPT ![Data(v)] = Blank(Capacity(v))]
        BY <1>10, <4>1
      <4>3. Data(v) # NoBlock
        <5>1. ASSUME Data(v) = NoBlock PROVE FALSE
          <6>1. Capacity(v) = 0 /\ IsDynamic(v)
            BY <1>2, <1>5, <5>1, NullCapacity, OfVector
          <6> QED
            BY <1>2, <1>4, <1>5, <1>13, <3>2, <6>1
        <5> QED
          BY <5>1
      <4>4. Data(v) \in {v, NoBlock} \cup Owned(v) /\ (~IsDynamic(v) => Data(v) = v)
            /\ (IsDynamic(v) => Data(v) # v) /\ (~IsDynamic(v) => Capacity(v) = N)
        <5>1. Data(v) \in {v, NoBlock} \cup Owned(v)
          BY Buffers
        <5>2. IsDynamic(v) => Data(v) \in heap \cup {NoBlock}
          BY <1>2, OfVector
        <5> QED
          BY <1>2, <1>5, <5>1, <5>2, OfVector
      <4>5. IsBlock(Blank(Capacity(v)), Capacity(v)) /\ ~AnyLive(Blank(Capacity(v)))
        BY <1>5, BlankOccupied, BlankEmpty DEF Occupied
      <4>6. /\ cleared = [p \in Places |-> cleared[p]] /\ cleared[Data(v)] = Blank(Capacity(v))
            /\ \A p \in Places : p # Data(v) => cleared[p] = mem[p]
        BY <1>5, <4>2
      <4>7. IsBlock(cleared[v], N) /\ (IsDynamic(v) => ~AnyLive(cleared[v]))
        <5>1. CASE IsDynamic(v)
          BY <1>5, <4>4, <4>6, <5>1, Buffers
        <5>2. CASE ~IsDynamic(v)
          BY <4>4, <4>5, <4>6, <5>2
        <5> QED
          BY <5>1, <5>2
      <4>8. \A p \in Places : p \notin {v} \cup Owned(v) => cleared[p] = mem[p]
        BY <4>3, <4>4, <4>6
      <4>9. cleared[NoBlock] = mem[NoBlock]
        BY <1>5, <4>3, <4>6
      <4> QED
        BY <1>5, <3>2, <4>1, <4>3, <4>4, <4>5, <4>6, <4>7, <4>8, <4>9
    <3> QED
      BY <3>1, <3>2
  <2>7. /\ unpins => freed = Owned(v)
        /\ ~unpins => freed = {}
    BY <1>13 DEF freed
  <2>8. unpins => IsDynamic(v)
    OBVIOUS
  <2> HIDE DEF unpins, place, c
  <2>9. /\ mem' = [p \in Places |-> mem'[p]]
        /\ \A p \in Places : p # place => mem'[p] = cleared[p]
        /\ Occupied(mem'[place], c, Span(0, k))
    <3>1. CASE fate = "ok"
      <4>1. mem' = [cleared EXCEPT ![place] = Construct(cleared[place], 0, xs)]
        BY <1>13, <3>1
      <4>2. Occupied(Construct(cleared[place], 0, xs), c, Span(0, Len(xs)))
        BY <1>4, <2>2, <2>6, Filled
      <4>3. Len(xs) = k
        BY <1>4, <3>1 DEF k
      <4> QED
        BY <2>6, <4>1, <4>2, <4>3
    <3>2. CASE fate # "ok"
      <4>1. mem' = cleared /\ k = 0
        BY <1>13, <3>2 DEF k
      <4>2. Occupied(cleared[place], c, Span(0, 0))
        BY <2>2, <2>6, EmptyBuffer
      <4> QED
        BY <2>6, <4>1, <4>2
    <3> QED
      BY <3>1, <3>2
  <2>10. mem'[NoBlock] = mem[NoBlock] /\ IsBlock(mem'[v], N) /\ (IsDynamic(v)' => ~AnyLive(mem'[v]))
    <3>1. NoBlock # place
      <4>1. NoBlock \notin Owned(v)
        BY <1>5
      <4> QED
        BY <1>5, <2>6, <4>1
    <3>2. mem'[NoBlock] = mem[NoBlock]
      BY <1>5, <2>6, <2>9, <3>1
    <3>3. CASE place = v
      <4>1. ~IsDynamic(v)'
        <5>1. CASE unpins
          BY <2>5, <5>1
        <5>2. CASE ~unpins
          <6>1. Data(v) = v
            BY <3>3, <5>2 DEF place
          <6>2. ~IsDynamic(v)
            BY <1>2, <1>5, <6>1, OfVector
          <6> QED
            BY <2>5, <5>2, <6>2
        <5> QED
          BY <5>1, <5>2
      <4>2. c = N
        <5>1. IsDynamic(v)' = FALSE /\ Capacity(v)' = N
          BY <4>1 DEF Capacity
        <5> QED
          BY <2>5, <5>1
      <4>3. IsBlock(mem'[v], N)
        BY <2>9, <3>3, <4>2 DEF Occupied
      <4> QED
        BY <3>2, <4>1, <4>3
    <3>4. CASE place # v
      BY <1>5, <2>5, <2>6, <2>9, <3>2, <3>4
    <3> QED
      BY <3>3, <3>4
  <2>11. \A p \in Places : p \notin {v} \cup Owned(v) \cup Owned(v)' => mem'[p] = mem[p]
    BY <2>6, <2>9
  <2>12. heap' \subseteq Blocks /\ heap \ Owned(v) \subseteq heap'
         /\ Owned(v)' \cap (heap \ Owned(v)) = {} /\ heap' \subseteq (heap \ Owned(v)) \cup Owned(v)'
         /\ Owned(v)' \subseteq heap'
    <3>1. Owned(v) \subseteq heap
      BY <1>2, OwnedAllocated
    <3> QED
      BY <1>5, <1>13, <2>5, <2>7, <3>1
  <2>13. Slots(v)' = mem'[place]
    BY <2>5 DEF Slots
  <2>14. Sound(v)' /\ IsBlock(Slots(v)', Capacity(v)')
    <3>1. Sound(v)'
      BY <2>1, <2>2, <2>5, <2>9, <2>12, <2>13, NowSound
    <3> QED
      BY <2>5, <2>9, <2>13, <3>1 DEF Occupied
  <2>15. Gives(v, rec)
    BY <1>2, <1>7, <2>3, <2>4, <2>9, <2>10, <2>11, <2>12 DEF Gives
  <2>16. Called("assign_copy", v, <<w>>, fate) /\ (fate = "terminated" => CopiesThrow)
    BY <1>6, <1>13
  <2>17. Alters({v})
    BY <2>15, OneAlters
  <2> QED
    BY <1>3, <2>12, <2>14, <2>15, <2>16, <2>17, OneCompletes
<1>14. PICK fate \in CopyFate(ty, n) :
           \/ /\ grows /\ fate = "ok" /\ MemoryLeft(heap \ freed)
              /\ /\ heap' = (heap \ freed) \cup {b}
                 /\ mem' = [cleared EXCEPT ![b] = Construct(Blank(n), 0, xs)]
                 /\ vec' = [vec EXCEPT ![v] = Dynamic(b, n, n)]
              /\ Called("assign_copy", v, <<w>>, "ok")
           \/ /\ grows
              /\ heap' = heap \ freed
              /\ mem' = cleared
              /\ vec' = [vec EXCEPT ![v] = emptied]
              /\ Called("assign_copy", v, <<w>>, IF fate = "ok" THEN "threw" ELSE fate)
           \/ /\ ~grows
              /\ heap' = heap \ freed
              /\ mem' = IF fate = "ok"
                           THEN [cleared EXCEPT ![place] = Construct(@, 0, xs)]
                           ELSE cleared
              /\ vec' = [vec EXCEPT ![v] = [emptied EXCEPT !.size =
                                              IF fate = "ok" THEN n ELSE 0]]
              /\ Called("assign_copy", v, <<w>>, fate)
  BY <1>1
<1> HIDE DEF grows, emptied, place
<1>15. CASE /\ grows
            /\ heap' = heap \ freed
            /\ mem' = cleared
            /\ vec' = [vec EXCEPT ![v] = emptied]
            /\ Called("assign_copy", v, <<w>>, IF fate = "ok" THEN "threw" ELSE fate)
  <2> DEFINE out == IF fate = "ok" THEN "threw" ELSE fate
  <2>1. out \in {"threw", "terminated"} /\ (out = "terminated" => CopiesThrow)
    BY <1>6
  <2> HIDE DEF out
  <2>2. Called("assign_copy", v, <<w>>, out)
    BY <1>15 DEF out
  <2> QED
    BY <1>12, <1>15, <2>1, <2>2
<1> QED
  BY <1>11, <1>13, <1>14, <1>15

\* One side of a swap: v has the record w had.
LEMMA SwapSide ==
  ASSUME Good, NEW v \in alive, NEW w \in alive, vec'[v] = vec[w], heap' = heap,
         \A p \in Places : p \notin Vecs => mem'[p] = mem[p],
         ~IsDynamic(w) => Occupied(mem'[v], N, Span(0, Size(w)))
  PROVE  /\ Sound(v)' /\ IsBlock(Slots(v)', Capacity(v)')
         /\ Owned(v)' = Owned(w) /\ IsDynamic(v)' = IsDynamic(w)
<1>1. /\ Size(v)' = Size(w) /\ Capacity(v)' = Capacity(w) /\ Owned(v)' = Owned(w)
      /\ IsDynamic(v)' = IsDynamic(w) /\ Data(v)' = (IF IsDynamic(w) THEN Data(w) ELSE v)
  BY DEF Size, Capacity, Owned, IsDynamic, Data
<1>2. /\ w \in Vecs /\ Size(w) \in Nat /\ Capacity(w) \in Nat /\ Size(w) <= Capacity(w)
      /\ Occupied(Slots(w), Capacity(w), Span(0, Size(w))) /\ Data(w) \in Places
      /\ IsDynamic(w) => Data(w) \in heap \cup {NoBlock}
      /\ ~IsDynamic(w) => Capacity(w) = N
      /\ Owned(w) \subseteq heap /\ heap \subseteq Blocks
  BY OfVector, OwnedAllocated DEF Good, Typed
<1>3. Slots(v)' = IF IsDynamic(w) THEN mem'[Data(w)] ELSE mem'[v]
  BY <1>1 DEF Slots
<1>4. IsDynamic(w) => Slots(v)' = Slots(w)
  <2>1. IsDynamic(w) => Data(w) \notin Vecs
    BY <1>2, Constants
  <2> QED
    BY <1>2, <1>3, <2>1 DEF Slots
<1>5. Occupied(Slots(v)', Capacity(w), Span(0, Size(w)))
  BY <1>2, <1>3, <1>4
<1>6. Sound(v)'
  BY <1>1, <1>2, <1>5, NowSound
<1>7. IsBlock(Slots(v)', Capacity(v)')
  BY <1>1, <1>5 DEF Occupied
<1> QED
  BY <1>1, <1>6, <1>7

\* Two vectors that have exchanged their records and the contents of their buffers.
LEMMA Swapped ==
  ASSUME Good, NEW v \in alive, NEW w \in alive, v # w,
         vec' = [vec EXCEPT ![v] = vec[w], ![w] = vec[v]], UNCHANGED <<ty, alive, heap>>,
         mem' = [p \in Places |-> mem'[p]],
         \A p \in Places : p \notin {v, w} => mem'[p] = mem[p],
         \A x \in {v, w} : IsBlock(mem'[x], N),
         IF IsDynamic(w) THEN ~AnyLive(mem'[v]) ELSE Occupied(mem'[v], N, Span(0, Size(w))),
         IF IsDynamic(v) THEN ~AnyLive(mem'[w]) ELSE Occupied(mem'[w], N, Span(0, Size(v)))
  PROVE  /\ Touches({v, w}, Owned(v) \cup Owned(w), Owned(v) \cup Owned(w))
         /\ \A x \in {v, w} : Sound(x)' /\ IsBlock(Slots(x)', Capacity(x)')
<1> DEFINE V == {v, w}
           Old == Owned(v) \cup Owned(w)
<1>1. /\ v \in Vecs /\ w \in Vecs /\ vec \in [Vecs -> StorageRecord] /\ alive \subseteq Vecs
      /\ NoBlock \in Places /\ NoBlock \notin Vecs /\ heap \subseteq Blocks
      /\ Owned(v) \cap Owned(w) = {}
  BY Constants DEF Good, Typed, Owning, Places
<1>2. /\ vec' \in [Vecs -> StorageRecord] /\ vec'[v] = vec[w] /\ vec'[w] = vec[v]
      /\ \A x \in Vecs \ V : vec'[x] = vec[x]
  BY <1>1
<1>3. \A p \in Places : p \notin Vecs => mem'[p] = mem[p]
  BY <1>1
<1>4. /\ Sound(v)' /\ IsBlock(Slots(v)', Capacity(v)')
      /\ Owned(v)' = Owned(w) /\ IsDynamic(v)' = IsDynamic(w)
  BY <1>2, <1>3, SwapSide
<1>5. /\ Sound(w)' /\ IsBlock(Slots(w)', Capacity(w)')
      /\ Owned(w)' = Owned(v) /\ IsDynamic(w)' = IsDynamic(v)
  BY <1>2, <1>3, SwapSide
<1>6. mem'[NoBlock] = mem[NoBlock] /\ mem' = [p \in Places |-> mem'[p]] /\ ty' = ty
  BY <1>1, <1>3
<1>7. \A x \in V : /\ IsBlock(mem'[x], N) /\ x \in alive'
                   /\ IsDynamic(x)' => ~AnyLive(mem'[x])
  BY <1>4, <1>5
<1>8. \A x, y \in V \cap alive' : x # y => Owned(x)' \cap Owned(y)' = {}
  BY <1>1, <1>4, <1>5
<1>9. Old = UNION {Owned(x) : x \in V} /\ Old = UNION {Owned(x)' : x \in V}
  BY <1>4, <1>5
<1>10. V \subseteq Vecs /\ alive' \subseteq Vecs /\ alive' \ V = alive \ V
  BY <1>1
<1>11. heap' \subseteq Blocks /\ heap \ Old \subseteq heap' /\ Old \cap (heap \ Old) = {}
  BY <1>1
<1>12. \A p \in Places : p \notin V \cup Old \cup Old => mem'[p] = mem[p]
  OBVIOUS
<1> HIDE DEF V, Old
<1>13. Touches(V, Old, Old)
  BY <1>2, <1>6, <1>7, <1>8, <1>9, <1>10, <1>11, <1>12 DEF Touches
<1> QED
  BY <1>4, <1>5, <1>13 DEF V, Old

\* The two buffers of a swap; s has no more elements than l.
LEMMA UnevenSides ==
  ASSUME NEW c \in Nat, NEW ms, NEW ml, NEW j \in Nat, NEW k \in Nat, j <= k, k <= c,
         Occupied(ms, c, Span(0, j)), Occupied(ml, c, Span(0, k))
  PROVE  /\ Occupied(Construct(Assign(ms, 0, Read(ml, 0, j)), j, Read(ml, j, k - j)),
                     c, Span(0, k))
         /\ Occupied(Destroy(Assign(ml, 0, Read(ms, 0, j)), j, k), c, Span(0, j))
<1>1. /\ Len(Read(ml, 0, j)) = j /\ Objects(Read(ml, 0, j))
      /\ Len(Read(ms, 0, j)) = j /\ Objects(Read(ms, 0, j))
      /\ Len(Read(ml, j, k - j)) = k - j /\ Objects(Read(ml, j, k - j))
  <2>1. Span(0, 0 + j) \subseteq Span(0, j) \cap (0 .. c - 1)
        /\ Span(0, 0 + j) \subseteq Span(0, k) \cap (0 .. c - 1)
        /\ Span(j, j + (k - j)) \subseteq Span(0, k) \cap (0 .. c - 1)
        /\ k - j \in Nat
    BY DEF Span
  <2>2. Len(Read(ml, 0, j)) = j /\ Objects(Read(ml, 0, j))
    BY <2>1, ReadObjects
  <2>3. Len(Read(ms, 0, j)) = j /\ Objects(Read(ms, 0, j))
    BY <2>1, ReadObjects
  <2>4. Len(Read(ml, j, k - j)) = k - j /\ Objects(Read(ml, j, k - j))
    BY <2>1, ReadObjects
  <2> QED
    BY <2>2, <2>3, <2>4
<1>2. Occupied(Assign(ms, 0, Read(ml, 0, j)), c, Span(0, j))
  <2>1. Span(0, 0 + Len(Read(ml, 0, j))) \subseteq Span(0, j)
    BY <1>1 DEF Span
  <2> QED
    BY <1>1, <2>1, AssignOccupied
<1>3. Occupied(Assign(ml, 0, Read(ms, 0, j)), c, Span(0, k))
  <2>1. Span(0, 0 + Len(Read(ms, 0, j))) \subseteq Span(0, k)
    BY <1>1 DEF Span
  <2> QED
    BY <1>1, <2>1, AssignOccupied
<1> DEFINE xs == Read(ml, j, k - j)
           s == Assign(ms, 0, Read(ml, 0, j))
           t == Assign(ml, 0, Read(ms, 0, j))
<1> HIDE DEF xs, s, t
<1>4. Occupied(Construct(s, j, xs), c, Span(0, j + Len(xs)))
  BY <1>1, <1>2, Extended DEF xs, s
<1>5. j + Len(xs) = k
  BY <1>1 DEF xs
<1>6. Occupied(Destroy(t, j, k), c, Span(0, k) \ Span(j, k))
  <2>1. Span(j, k) \subseteq Span(0, k)
    BY DEF Span
  <2> QED
    BY <1>3, <2>1, DestroyOccupied DEF t
<1>7. Span(0, k) \ Span(j, k) = Span(0, j)
  BY DEF Span
<1> QED
  BY <1>4, <1>5, <1>6, <1>7 DEF xs, s, t

\* swap.
LEMMA SwapProper ==
  ASSUME Good, NEW v \in Vecs, NEW w \in Vecs, Swap(v, w)
  PROVE  Proper
<1>1. /\ v \in alive /\ w \in alive /\ v # w /\ UNCHANGED <<ty, alive, heap>>
      /\ vec' = [vec EXCEPT ![v] = vec[w], ![w] = vec[v]] /\ Called("swap", v, <<w>>, "ok")
      /\ mem = [p \in Places |-> mem[p]] /\ v \in Places /\ w \in Places /\ N \in Nat
      /\ \A x \in {v, w} : IsBlock(mem[x], N)
  BY Constants, Buffers DEF Swap, Good, Typed, Places
<1>2. \A x \in {v, w} :
        /\ Size(x) \in Nat /\ Size(x) <= Capacity(x)
        /\ IsDynamic(x) => ~AnyLive(mem[x])
        /\ ~IsDynamic(x) => Occupied(mem[x], N, Span(0, Size(x))) /\ Slots(x) = mem[x]
                            /\ Capacity(x) = N
  <2> SUFFICES ASSUME NEW x \in {v, w}
               PROVE  /\ Size(x) \in Nat /\ Size(x) <= Capacity(x)
                      /\ IsDynamic(x) => ~AnyLive(mem[x])
                      /\ ~IsDynamic(x) => Occupied(mem[x], N, Span(0, Size(x)))
                                          /\ Slots(x) = mem[x] /\ Capacity(x) = N
    OBVIOUS
  <2>1. x \in alive /\ x \in Vecs
    BY <1>1
  <2>2. ~IsDynamic(x) => Slots(x) = mem[x] /\ Capacity(x) = N
    BY <2>1, OfVector DEF Slots
  <2> QED
    BY <2>1, <2>2, OfVector, Buffers
<1> DEFINE Done == /\ mem' = [p \in Places |-> mem'[p]]
                   /\ \A p \in Places : p \notin {v, w} => mem'[p] = mem[p]
                   /\ \A x \in {v, w} : IsBlock(mem'[x], N)
                   /\ IF IsDynamic(w) THEN ~AnyLive(mem'[v])
                                      ELSE Occupied(mem'[v], N, Span(0, Size(w)))
                   /\ IF IsDynamic(v) THEN ~AnyLive(mem'[w])
                                      ELSE Occupied(mem'[w], N, Span(0, Size(v)))
                   /\ leaked' \subseteq leaked \cup {"swap"}
<1>3. Done => Proper
  <2> SUFFICES ASSUME Done PROVE Proper
    OBVIOUS
  <2> DEFINE V == {v, w}
             Old == Owned(v) \cup Owned(w)
  <2>1. Touches(V, Old, Old) /\ \A x \in V : Sound(x)' /\ IsBlock(Slots(x)', Capacity(x)')
    BY <1>1, Swapped
  <2>2. heap' \subseteq (heap \ Old) \cup Old
    BY <1>1
  <2> HIDE DEF V, Old
  <2> QED
    BY <1>1, <2>1, <2>2, Completes
<1>4. CASE ~IsDynamic(v) /\ ~IsDynamic(w) /\ UnevenSwap(v, w) /\ UNCHANGED leaked
  <2>1. ASSUME NEW s, NEW l, {s, l} = {v, w}, s # l, Size(s) <= Size(l),
               mem' = [mem EXCEPT
                 ![s] = Construct(Assign(mem[s], 0, Read(mem[l], 0, Size(s))), Size(s),
                                  Read(mem[l], Size(s), Size(l) - Size(s))),
                 ![l] = Destroy(Assign(mem[l], 0, Read(mem[s], 0, Size(s))), Size(s), Size(l))]
        PROVE  Done
    <3>1. /\ s \in {v, w} /\ l \in {v, w} /\ s \in Places /\ l \in Places
          /\ (s = v /\ l = w) \/ (s = w /\ l = v)
      BY <1>1, <2>1
    <3>2. /\ Occupied(mem[s], N, Span(0, Size(s))) /\ Occupied(mem[l], N, Span(0, Size(l)))
          /\ Size(s) \in Nat /\ Size(l) \in Nat /\ Size(l) <= N
      BY <1>2, <1>4, <3>1
    <3>3. /\ mem'[s] = Construct(Assign(mem[s], 0, Read(mem[l], 0, Size(s))), Size(s),
                                 Read(mem[l], Size(s), Size(l) - Size(s)))
          /\ mem'[l] = Destroy(Assign(mem[l], 0, Read(mem[s], 0, Size(s))), Size(s), Size(l))
          /\ mem' = [p \in Places |-> mem'[p]]
          /\ \A p \in Places : p \notin {s, l} => mem'[p] = mem[p]
      BY <1>1, <2>1, <3>1
    <3>4. Occupied(mem'[s], N, Span(0, Size(l))) /\ Occupied(mem'[l], N, Span(0, Size(s)))
      BY <1>1, <2>1, <3>2, <3>3, UnevenSides
    <3>5. IsBlock(mem'[s], N) /\ IsBlock(mem'[l], N)
      BY <3>4 DEF Occupied
    <3>6. CASE s = v /\ l = w
      BY <1>4, <3>3, <3>4, <3>5, <3>6
    <3>7. CASE s = w /\ l = v
      BY <1>4, <3>3, <3>4, <3>5, <3>7
    <3> QED
      BY <3>1, <3>6, <3>7
  <2>2. CASE Size(v) > Size(w)
    <3>1. mem' = [mem EXCEPT
            ![w] = Construct(Assign(mem[w], 0, Read(mem[v], 0, Size(w))), Size(w),
                             Read(mem[v], Size(w), Size(v) - Size(w))),
            ![v] = Destroy(Assign(mem[v], 0, Read(mem[w], 0, Size(w))), Size(w), Size(v))]
      BY <1>1, <1>4, <2>2 DEF UnevenSwap
    <3>2. Size(w) <= Size(v)
      BY <1>2, <2>2
    <3> HIDE DEF Done
    <3> QED
      BY <1>1, <1>3, <2>1, <3>1, <3>2
  <2>3. CASE ~(Size(v) > Size(w))
    <3>1. mem' = [mem EXCEPT
            ![v] = Construct(Assign(mem[v], 0, Read(mem[w], 0, Size(v))), Size(v),
                             Read(mem[w], Size(v), Size(w) - Size(v))),
            ![w] = Destroy(Assign(mem[w], 0, Read(mem[v], 0, Size(v))), Size(v), Size(w))]
      BY <1>1, <1>4, <2>3 DEF UnevenSwap
    <3>2. Size(v) <= Size(w)
      BY <1>2, <2>3
    <3> HIDE DEF Done
    <3> QED
      BY <1>1, <1>3, <2>1, <3>1, <3>2
  <2> HIDE DEF Done
  <2> QED
    BY <1>3, <2>2, <2>3
<1>5. ASSUME NEW b, NEW d, {b, d} = {v, w}, b # d, ~IsDynamic(b), IsDynamic(d), MixedSwap(b, d)
      PROVE  Done
  <2>1. /\ b \in {v, w} /\ d \in {v, w} /\ b \in Places /\ d \in Places /\ b \in alive
        /\ (b = v /\ d = w) \/ (b = w /\ d = v)
    BY <1>1, <1>5
  <2>2. mem' = [mem EXCEPT ![d] = Construct(mem[d], 0, Elements(b)), ![b] = Blank(N)]
    BY <1>1, <1>5, <2>1 DEF MixedSwap
  <2>3. /\ mem'[d] = Construct(mem[d], 0, Elements(b)) /\ mem'[b] = Blank(N)
        /\ mem' = [p \in Places |-> mem'[p]]
        /\ \A p \in Places : p \notin {b, d} => mem'[p] = mem[p]
    BY <1>1, <1>5, <2>1, <2>2
  <2>4. Len(Elements(b)) = Size(b) /\ Objects(Elements(b))
    <3>1. Size(b) \in Nat /\ 0 + Size(b) <= Size(b) /\ 0 \in Nat
      BY <1>2, <2>1
    <3> QED
      BY <2>1, <3>1, ElementObjects DEF Elements
  <2>5. Occupied(mem'[d], N, Span(0, Size(b)))
    <3>1. IsBlock(mem[d], N) /\ ~AnyLive(mem[d]) /\ N \in Int
      BY <1>1, <1>2, <1>5, <2>1
    <3> QED
      BY <2>3, <2>4, <3>1, Filled
  <2>6. IsBlock(mem'[b], N) /\ ~AnyLive(mem'[b])
    BY <1>1, <2>3, BlankOccupied, BlankEmpty DEF Occupied
  <2>7. IsBlock(mem'[d], N)
    BY <2>5 DEF Occupied
  <2>8. leaked' \subseteq leaked \cup {"swap"}
    BY <1>5 DEF MixedSwap, LeakOf, NoLeak
  <2>9. CASE b = v /\ d = w
    BY <1>5, <2>3, <2>5, <2>6, <2>7, <2>8, <2>9
  <2>10. CASE b = w /\ d = v
    BY <1>5, <2>3, <2>5, <2>6, <2>7, <2>8, <2>10
  <2> QED
    BY <2>1, <2>9, <2>10
<1>6. CASE IsDynamic(v) /\ IsDynamic(w) /\ UNCHANGED <<mem, leaked>>
  <2>1. Done
    BY <1>1, <1>2, <1>6
  <2> QED
    BY <1>3, <2>1
<1> HIDE DEF Done
<1>7. CASE ~IsDynamic(v) /\ IsDynamic(w) /\ MixedSwap(v, w)
  BY <1>1, <1>3, <1>5, <1>7
<1>8. CASE IsDynamic(v) /\ ~IsDynamic(w) /\ MixedSwap(w, v)
  BY <1>1, <1>3, <1>5, <1>8
<1> QED
  BY <1>4, <1>6, <1>7, <1>8 DEF Swap

\* A swap that ends the program.
LEMMA SwapAbortsProper ==
  ASSUME Good, NEW v \in Vecs, NEW w \in Vecs, SwapAborts(v, w)
  PROVE  Proper
<1>1. Unchanged("swap", v, <<w>>, "terminated")
  BY DEF SwapAborts
<1>2. ~(ty.ncopy /\ ty.nmove)
  <2>1. ~ty.nmove \/ ~ty.ncopy \/ RelocateFate(ty, 1) # {"ok"}
    BY DEF SwapAborts
  <2> QED
    BY <2>1 DEF RelocateFate, NothrowRelocate
<1> QED
  BY <1>1, <1>2, QuietStep

\* The operations of two vectors.
LEMMA BetweenProper ==
  ASSUME Good, NEW v \in Vecs, NEW w \in Vecs, Between(v, w)
  PROVE  Proper
BY ConstructMoveProper, ConstructCopyProper, AssignMoveProper, AssignCopyProper,
   SwapProper, SwapAbortsProper DEF Between

\* Construction and destruction.
LEMMA LifetimeProper ==
  ASSUME Good, NEW v \in Vecs, Lifetime(v)
  PROVE  Proper
BY DefaultConstructProper, DestroyVectorProper DEF Lifetime

-------------------------------------------------------------------------------
(* The names of the calls.                                                     *)

\* A call that has a name.
LEMMA Names ==
  ASSUME NEW op, NEW v, NEW args, NEW out,
         Called(op, v, args, out) \/ Unchanged(op, v, args, out)
  PROVE  last'.op = op
BY DEF Called, Unchanged

\* The calls that involve two vectors.
LEMMA BetweenOp ==
  ASSUME NEW v, NEW w, Between(v, w)
  PROVE  last'.op \in {"construct_move", "construct_copy", "assign_move", "assign_copy", "swap"}
<1>1. ASSUME ConstructMove(v, w) PROVE last'.op = "construct_move"
  BY <1>1, Names, Zenon DEF ConstructMove
<1>2. ASSUME ConstructCopy(v, w) PROVE last'.op = "construct_copy"
  BY <1>2, Names, Zenon DEF ConstructCopy
<1>3. ASSUME AssignMove(v, w) PROVE last'.op = "assign_move"
  BY <1>3, Names, Zenon DEF AssignMove
<1>4. ASSUME AssignCopy(v, w) PROVE last'.op = "assign_copy"
  BY <1>4, Names, Zenon DEF AssignCopy
<1>5. ASSUME Swap(v, w) \/ SwapAborts(v, w) PROVE last'.op = "swap"
  BY <1>5, Names, Zenon DEF Swap, SwapAborts
<1> QED
  BY <1>1, <1>2, <1>3, <1>4, <1>5 DEF Between

\* The names of the calls that edit one vector.
EditOps == {"emplace_back", "emplace", "insert", "erase", "erase_range", "erase_at_end",
            "reserve", "shrink_to_fit", "resize"}

\* The calls that involve one vector.
LEMMA EditOp ==
  ASSUME NEW v, Edit(v)
  PROVE  /\ last'.op \in EditOps
         /\ last'.op = "emplace_back" => \E arg \in ArgsOf(v) : EmplaceBack(v, arg)
<1>1. ASSUME NEW arg, EmplaceBack(v, arg) PROVE last'.op = "emplace_back"
  BY <1>1, Names, Zenon
     DEF EmplaceBack, EmplaceBackUnchecked, EmplaceBackRelocateFirst, EmplaceBackConstructFirst
<1>2. ASSUME NEW pos, NEW arg, Emplace(v, pos, arg) PROVE last'.op = "emplace"
  <2>1. ASSUME EmplaceAtEnd(v, arg) PROVE last'.op = "emplace"
    BY <2>1, Names, Zenon DEF EmplaceAtEnd
  <2>2. ASSUME EmplaceShift(v, pos, arg) PROVE last'.op = "emplace"
    BY <2>2, Names, Zenon DEF EmplaceShift
  <2>3. ASSUME NEW c, EmplaceRealloc(v, pos, arg, c) PROVE last'.op = "emplace"
    BY <2>3, Names, Zenon DEF EmplaceRealloc
  <2> QED
    BY <1>2, <2>1, <2>2, <2>3, Names, Zenon DEF Emplace
<1>3. ASSUME NEW pos, NEW xs, Insert(v, pos, xs) PROVE last'.op = "insert"
  <2>1. ASSUME InsertOverEnd(v, pos, xs) PROVE last'.op = "insert"
    BY <2>1, Names, Zenon DEF InsertOverEnd
  <2>2. ASSUME InsertInside(v, pos, xs) PROVE last'.op = "insert"
    BY <2>2, Names, Zenon DEF InsertInside
  <2>3. ASSUME NEW c, InsertRealloc(v, pos, xs, c) PROVE last'.op = "insert"
    BY <2>3, Names, Zenon DEF InsertRealloc
  <2> QED
    BY <1>3, <2>1, <2>2, <2>3, Names, Zenon DEF Insert
<1>4. ASSUME NEW first, NEW end, NEW op, NEW args, EraseRange(v, first, end, op, args)
      PROVE  last'.op = op
  BY <1>4, Names, Zenon DEF EraseRange
<1>5. ASSUME NEW pos, EraseAtEnd(v, pos) \/ PopBack(v) \/ Clear(v)
      PROVE  last'.op = "erase_at_end"
  BY <1>5, Names, Zenon DEF EraseAtEnd, PopBack, Clear
<1>6. ASSUME NEW c, NEW op, NEW args, RelocateDyn(v, c, op, args) PROVE last'.op = op
  BY <1>6, Names, Zenon DEF RelocateDyn
<1>7. ASSUME ShrinkToFit(v) PROVE last'.op = "shrink_to_fit"
  <2>1. ASSUME RelocateStatic(v, "shrink_to_fit") PROVE last'.op = "shrink_to_fit"
    BY <2>1, Names, Zenon DEF RelocateStatic
  <2> QED
    BY <1>6, <1>7, <2>1, Names, Zenon DEF ShrinkToFit
<1>8. ASSUME NEW n, Reserve(v, n) PROVE last'.op = "reserve"
  BY <1>6, <1>8, Names, Zenon DEF Reserve
<1>9. ASSUME NEW n, Resize(v, n) PROVE last'.op = "resize"
  <2>1. ASSUME NEW count, NEW c, AppendRealloc(v, count, c) PROVE last'.op = "resize"
    BY <2>1, Names, Zenon DEF AppendRealloc
  <2>2. ASSUME NEW count, DefaultAppend(v, count) PROVE last'.op = "resize"
    BY <2>1, <2>2, Names, Zenon DEF DefaultAppend
  <2> QED
    BY <1>9, <2>2, Names, Zenon DEF Resize
<1>10. ASSUME InsertReversed(v) PROVE last'.op = "insert"
  BY <1>10, Names DEF InsertReversed
<1>11. ASSUME NEW pos, NEW end, Erase(v, pos) \/ Erase2(v, pos, end)
       PROVE  last'.op \in {"erase", "erase_range"}
  BY <1>4, <1>11 DEF Erase, Erase2
<1> QED
  BY <1>1, <1>2, <1>3, <1>5, <1>7, <1>8, <1>9, <1>10, <1>11 DEF Edit, EditOps

-------------------------------------------------------------------------------
(* The invariant of a program.                                                 *)

\* The invariant holds at the start.
LEMMA InitInv == Init => Inv
<1> SUFFICES ASSUME Init PROVE Inv
  OBVIOUS
<1>1. /\ ty \in Types /\ alive = {} /\ vec = [v \in Vecs |-> Empty] /\ heap = {}
      /\ mem = [p \in Places |-> Released(p)] /\ leaked = {} /\ last = NoCall
  BY DEF Init, StorageInit, NoLeak
<1>2. Empty \in StorageRecord
  BY Constants DEF Empty, StorageRecord, Buffered, Dynamic, Sizes
<1>3. \A v \in Vecs : mem[v] = Blank(N) /\ Owned(v) = {}
  BY <1>1 DEF Places, Released, Owned, IsDynamic, Empty, Buffered, Dynamic
<1>4. mem[NoBlock] = Blank(0)
  BY <1>1, Constants DEF Places, Released
<1>5. \A c \in {0, N} : IsBlock(Blank(c), c) /\ ~AnyLive(Blank(c))
  BY Constants, BlankOccupied, BlankEmpty DEF Occupied
<1>6. ty \in Traits
  BY <1>1, Constants
<1>7. vec \in [Vecs -> StorageRecord]
  BY <1>1, <1>2
<1>8. mem = [p \in Places |-> mem[p]]
  BY <1>1
<1>9. Typed
  BY <1>1, <1>3, <1>4, <1>5, <1>6, <1>7, <1>8 DEF Typed
<1>10. LifetimesExact /\ ~Terminated
  BY <1>1 DEF LifetimesExact, Terminated, NoCall
<1>11. BlocksOwnedOnce
  BY <1>1, <1>3, <1>5 DEF BlocksOwnedOnce
<1> QED
  BY <1>9, <1>10, <1>11 DEF Inv, TerminatesOnlyOnCopies

\* The program makes its calls in good states.
LEMMA ReadyGood ==
  ASSUME Inv, last = NoCall
  PROVE  Good
<1>1. ~Terminated /\ \A v : ~Excused(v)
  BY DEF Terminated, Excused, AssignFails, MisreadsOwn, InsertsTooMany, NoCall
<1>2. \A v \in alive : Sound(v)
  BY <1>1 DEF Inv, LifetimesExact, Excused, AssignFails
<1>3. Typed
  BY <1>1, <1>2 DEF Inv, Running, Terminated
<1>4. Owning
  BY <1>1 DEF Inv, BlocksOwnedOnce, Owning
<1> QED
  BY <1>2, <1>3, <1>4 DEF Good

\* A proper call keeps the invariant.
LEMMA ProperInv ==
  ASSUME Inv, last = NoCall, Proper
  PROVE  Inv'
<1>1. ~Terminated
  BY DEF Terminated, NoCall
<1>2. TerminatesOnlyOnCopies'
  BY DEF Proper, TerminatesOnlyOnCopies, OnlyCopies
<1>3. CASE Terminated'
  BY <1>2, <1>3 DEF Inv, LifetimesExact, BlocksOwnedOnce, Running, Terminated
<1>4. CASE ~Terminated'
  <2>1. Orderly
    BY <1>4 DEF Proper
  <2>2. (Running => Typed)'
    BY <2>1 DEF Orderly, Running
  <2>3. LifetimesExact'
    BY <2>1 DEF Orderly, LifetimesExact, Slips
  <2>4. heap' \subseteq UNION {Owned(v)' : v \in alive'}
    <3>1. \A b : ~Lost(b)
      BY <1>1 DEF Inv, BlocksOwnedOnce, Lost
    <3>2. \A b : ~Lost(b)'
      BY <2>1, <3>1 DEF Orderly
    <3> QED
      BY <3>2 DEF Lost
  <2>5. leaked' \subseteq {"swap"}
    BY <1>1, <2>1 DEF Orderly, Inv, BlocksOwnedOnce
  <2>6. BlocksOwnedOnce'
    BY <2>1, <2>4, <2>5 DEF Orderly, Owning, BlocksOwnedOnce
  <2> QED
    BY <1>2, <2>2, <2>3, <2>6 DEF Inv
<1> QED
  BY <1>3, <1>4

\* Every vector is as it was.
LEMMA SameVectors ==
  ASSUME UNCHANGED <<vec, heap, mem>>, NEW v
  PROVE  Sound(v)' <=> Sound(v)
<1>1. vec' = vec /\ heap' = heap /\ mem' = mem
  OBVIOUS
<1> QED
  BY <1>1 DEF Sound, IsDynamic, Slots, Capacity, Size, Data

\* Who owns what is the same.
LEMMA SameOwners ==
  ASSUME UNCHANGED <<alive, vec, heap, mem, leaked>>, ~Terminated' => ~Terminated,
         BlocksOwnedOnce
  PROVE  BlocksOwnedOnce'
<1>1. \A v : Owned(v)' = Owned(v) /\ (IsDynamic(v)' <=> IsDynamic(v))
  BY DEF Owned, IsDynamic
<1> DEFINE own == UNION {Owned(v) : v \in alive}
<1>2. own' = own
  BY <1>1
<1> HIDE DEF own
<1> SUFFICES ASSUME ~Terminated' PROVE BlocksOwnedOnce'
  BY DEF BlocksOwnedOnce
<1>3. /\ heap \subseteq own
      /\ \A v, w \in alive : v # w => Owned(v) \cap Owned(w) = {}
      /\ \A v \in Vecs \ alive : Owned(v) = {} /\ ~AnyLive(mem[v])
      /\ \A v \in alive : IsDynamic(v) => ~AnyLive(mem[v])
      /\ leaked \subseteq {"swap"}
  BY DEF BlocksOwnedOnce, own
<1>4. heap' \subseteq own'
  BY <1>2, <1>3
<1>5. /\ \A v, w \in alive' : v # w => Owned(v)' \cap Owned(w)' = {}
      /\ \A v \in Vecs \ alive' : Owned(v)' = {} /\ ~AnyLive(mem'[v])
      /\ \A v \in alive' : IsDynamic(v)' => ~AnyLive(mem'[v])
      /\ leaked' \subseteq {"swap"}
  BY <1>1, <1>3
<1>6. heap' \subseteq UNION {Owned(v)' : v \in alive'}
  BY <1>4 DEF own
<1> QED
  BY <1>5, <1>6 DEF BlocksOwnedOnce

\* The program goes on after a call.
LEMMA ReturnInv ==
  ASSUME Inv, Return
  PROVE  Inv' /\ Strong /\ Stays
<1>1. /\ UNCHANGED <<ty, alive, vec, heap, mem, leaked>> /\ last' = NoCall /\ Running
  BY DEF Return
<1>2. ~Terminated /\ ~Terminated' /\ \A v \in alive : Sound(v)
  BY <1>1 DEF Running, Terminated, NoCall
<1>3. \A v : /\ Owned(v)' = Owned(v) /\ IsDynamic(v)' = IsDynamic(v) /\ Slots(v)' = Slots(v)
             /\ Capacity(v)' = Capacity(v) /\ Size(v)' = Size(v) /\ Data(v)' = Data(v)
  BY <1>1 DEF Owned, IsDynamic, Slots, Capacity, Size, Data
<1>4. \A v \in alive' : Sound(v)'
  BY <1>1, <1>2, SameVectors
<1>5. Typed'
  BY <1>1, <1>3 DEF Inv, Typed
<1>6. BlocksOwnedOnce'
  BY <1>1, <1>2, SameOwners DEF Inv
<1>7. Strong /\ Stays
  <2>1. Strong
    BY <1>1 DEF Strong, NoCall
  <2>2. \A v : Data(v)' = Data(v) /\ Capacity(v)' = Capacity(v)
    BY <1>3
  <2>3. Stays
    BY <2>2, Zenon DEF Stays
  <2> QED
    BY <2>1, <2>3
<1>8. LifetimesExact' /\ TerminatesOnlyOnCopies'
  BY <1>2, <1>4 DEF LifetimesExact, TerminatesOnlyOnCopies
<1> QED
  BY <1>5, <1>6, <1>7, <1>8 DEF Inv

\* Nothing happens.
LEMMA StutterInv ==
  ASSUME Inv, UNCHANGED vars
  PROVE  Inv'
<1>1. UNCHANGED <<ty, alive, vec, heap, mem, leaked, last>>
  BY DEF vars
<1>2. \A v : /\ Owned(v)' = Owned(v) /\ IsDynamic(v)' = IsDynamic(v) /\ Slots(v)' = Slots(v)
             /\ Capacity(v)' = Capacity(v) /\ Size(v)' = Size(v)
  BY <1>1 DEF Owned, IsDynamic, Slots, Capacity, Size, Data
<1>3. \A v : /\ Sound(v)' <=> Sound(v)
             /\ MisreadsOwn(v)' <=> MisreadsOwn(v)
             /\ InsertsTooMany(v)' <=> InsertsTooMany(v)
  BY <1>1, SameVectors DEF MisreadsOwn, InsertsTooMany, RelocatesFirst, OwnGiven
<1>4. (Running => Typed)'
  <2>1. ASSUME Typed PROVE Typed'
    BY <1>1, <1>2, <2>1 DEF Typed
  <2>2. ASSUME Running' PROVE Running
    BY <1>1, <1>3, <2>2 DEF Running
  <2> QED
    BY <2>1, <2>2 DEF Inv
<1>5. Terminated' = Terminated /\ TerminatesOnlyOnCopies'
  BY <1>1 DEF Inv, TerminatesOnlyOnCopies, Terminated
<1>6. LifetimesExact'
  BY <1>1, <1>3, <1>5 DEF Inv, LifetimesExact
<1>7. BlocksOwnedOnce'
  BY <1>1, <1>5, SameOwners DEF Inv
<1> QED
  BY <1>4, <1>5, <1>6, <1>7 DEF Inv

\* A step of the program.
LEMMA NextInv ==
  ASSUME WideGrowth, Inv, Next
  PROVE  Inv' /\ Strong /\ Stays
<1>1. CASE Return
  BY <1>1, ReturnInv
<1>2. CASE last = NoCall /\ Proper
  BY <1>2, ProperInv DEF Proper
<1>3. ASSUME last = NoCall, NEW v \in Vecs, Lifetime(v) PROVE Proper
  BY <1>3, ReadyGood, LifetimeProper
<1>4. ASSUME last = NoCall, NEW v \in Vecs, NEW w \in Vecs, Between(v, w) PROVE Proper
  BY <1>4, ReadyGood, BetweenProper
<1>5. ASSUME last = NoCall, NEW v \in Editing, Edit(v) PROVE Proper
  BY <1>5, ReadyGood, EditProper
<1> QED
  BY <1>1, <1>2, <1>3, <1>4, <1>5 DEF Next

\* The invariant holds for every number of vectors and blocks, every capacity of
\* the buffer, every width of size_type and every set of values and value types.
THEOREM Invariance ==
  ASSUME WideGrowth
  PROVE  Spec => []Inv
<1>1. Inv /\ [Next]_vars => Inv'
  BY NextInv, StutterInv
<1> QED
  BY <1>1, InitInv, PTL DEF Spec

\* Exactly the slots below size() hold objects, with the exceptions
\* LifetimesExact names.
THEOREM LifetimesExactHolds ==
  ASSUME WideGrowth
  PROVE  Spec => []LifetimesExact
<1>1. Inv => LifetimesExact
  BY DEF Inv
<1> QED
  BY <1>1, Invariance, PTL

\* Every block has one owner, and only a swap abandons objects.
THEOREM BlocksOwnedOnceHolds ==
  ASSUME WideGrowth
  PROVE  Spec => []BlocksOwnedOnce
<1>1. Inv => BlocksOwnedOnce
  BY DEF Inv
<1> QED
  BY <1>1, Invariance, PTL

\* Which types can make a call end in std::terminate.
THEOREM TerminatesOnlyOnCopiesHolds ==
  ASSUME WideGrowth
  PROVE  Spec => []TerminatesOnlyOnCopies
<1>1. Inv => TerminatesOnlyOnCopies
  BY DEF Inv
<1> QED
  BY <1>1, Invariance, PTL

\* A call that fails, of those that promise it, has changed nothing.
THEOREM StrongGuaranteeHolds ==
  ASSUME WideGrowth
  PROVE  Spec => StrongGuarantee
<1>1. Inv /\ [Next]_vars => [Strong]_vars
  BY NextInv
<1> QED
  BY <1>1, Invariance, PTL DEF Spec, StrongGuarantee, Strong

\* A call that fits in the capacity moves nothing to other storage.
THEOREM StaysInPlaceHolds ==
  ASSUME WideGrowth
  PROVE  Spec => StaysInPlace
<1>1. Inv /\ [Next]_vars => [Stays]_vars
  BY NextInv
<1> QED
  BY <1>1, Invariance, PTL DEF Spec, StaysInPlace, Stays

-------------------------------------------------------------------------------
(* What the vectors hold: the sequences a caller sees.                         *)

\* The sequence a vector stands for.
Seen(v) == IF v \in alive THEN Elements(v) ELSE <<>>
View == [v \in Vecs |-> Seen(v)]

\* Then the other vectors hold what they held.
LEMMA OthersKeep ==
  ASSUME Good, NEW V, V \subseteq Vecs, Alters(V), NEW w \in Vecs \ V
  PROVE  Seen(w)' = Seen(w)
<1>1. /\ alive' \ V = alive \ V /\ vec'[w] = vec[w]
      /\ \A p \in Places :
           mem'[p] = mem[p] \/ p \in V \/ p \in Blocks \ heap \/ \E x \in V : p \in Owned(x)
  BY DEF Alters
<1>2. w \in alive' <=> w \in alive
  BY <1>1
<1>3. Size(w)' = Size(w) /\ Data(w)' = Data(w)
  BY <1>1 DEF Size, Data, IsDynamic
<1>4. ASSUME w \in alive PROVE mem'[Data(w)] = mem[Data(w)]
  <2>1. /\ Data(w) \in Places /\ Data(w) \in {w, NoBlock} \cup Owned(w)
        /\ Owned(w) \subseteq heap /\ heap \subseteq Blocks
    BY <1>4, OfVector, Buffers, OwnedAllocated DEF Good, Typed
  <2>2. \A x \in V : x \in alive \/ Owned(x) = {}
    BY Buffers
  <2>3. \A x \in V : Owned(x) \cap Owned(w) = {}
    BY <1>4, <2>2 DEF Good, Owning
  <2>4. \A x \in V : Owned(x) \subseteq heap
    BY <2>2, OwnedAllocated
  <2>5. w \notin heap /\ NoBlock \notin heap /\ w \notin Blocks /\ NoBlock \notin Blocks
        /\ NoBlock \notin V
    BY <2>1, Constants
  <2>6. Data(w) \notin V /\ Data(w) \notin Blocks \ heap
    BY <2>1, <2>5, Constants
  <2>7. \A x \in V : Data(w) \notin Owned(x)
    BY <2>1, <2>3, <2>4, <2>5
  <2> QED
    BY <1>1, <2>1, <2>6, <2>7
<1>5. w \in alive => Elements(w)' = Elements(w)
  BY <1>3, <1>4 DEF Elements, Slots
<1> QED
  BY <1>2, <1>5 DEF Seen

\* A call that changes one vector.
LEMMA OneChanges ==
  ASSUME Good, NEW v \in Vecs, Alters({v}), NEW s, Seen(v)' = s
  PROVE  View' = [View EXCEPT ![v] = s]
<1>1. \A w \in Vecs : Seen(w)' = IF w = v THEN s ELSE Seen(w)
  BY OthersKeep
<1> QED
  BY <1>1 DEF View

\* A call that changes no vector.
LEMMA NoneChanges ==
  ASSUME Good, Alters({})
  PROVE  View' = View
<1>1. \A w \in Vecs : Seen(w)' = Seen(w)
  BY OthersKeep
<1> QED
  BY <1>1 DEF View

\* A call that changes nothing at all.
LEMMA QuietView ==
  ASSUME Good, NEW op, NEW v, NEW args, NEW out, Unchanged(op, v, args, out)
  PROVE  Alters({}) /\ View' = View /\ alive' = alive
<1>1. UNCHANGED <<ty, alive, vec, heap, mem, leaked>>
  BY DEF Unchanged
<1>2. Alters({})
  BY <1>1 DEF Alters
<1> QED
  BY <1>1, <1>2, NoneChanges

\* A call that writes slots and a size into the storage v has.
LEMMA WriteView ==
  ASSUME Good, NEW v \in alive, NEW s, NEW n, Write(v, s, n), IsBlock(s, Capacity(v))
  PROVE  Alters({v}) /\ alive' = alive /\ Seen(v)' = Read(s, 0, n)
<1>1. /\ alive' = alive /\ vec' = [vec EXCEPT ![v].size = n]
      /\ mem' = [mem EXCEPT ![Data(v)] = s]
  BY DEF Write
<1>2. /\ v \in Vecs /\ Data(v) \in Places /\ Data(v) \in {v, NoBlock} \cup Owned(v)
      /\ vec \in [Vecs -> StorageRecord] /\ mem = [p \in Places |-> mem[p]]
  BY OfVector, Buffers DEF Good, Typed
<1>3. Data(v) = NoBlock => s = mem[NoBlock]
  BY NullCapacity, Buffers DEF IsBlock
<1>4. \A p \in Places :
        mem'[p] = mem[p] \/ p \in {v} \/ p \in Blocks \ heap \/ \E x \in {v} : p \in Owned(x)
  BY <1>1, <1>2, <1>3
<1>5. Alters({v})
  BY <1>1, <1>2, <1>4 DEF Alters
<1>6. Size(v)' = n /\ Data(v)' = Data(v) /\ mem'[Data(v)] = s
  BY <1>1, <1>2 DEF Size, Data, IsDynamic, StorageRecord
<1> QED
  BY <1>1, <1>5, <1>6 DEF Seen, Elements, Slots

\* A call that puts v into a new block.
LEMMA ExchangeView ==
  ASSUME Good, NEW v \in Vecs, NEW new, NEW n, NEW old, NEW op,
         Exchange(v, NewBlock, new, n, old, op), alive' = alive \cup {v}
  PROVE  Alters({v}) /\ Seen(v)' = Read(new, 0, n) /\ Data(v)' # Data(v)
<1> DEFINE b == NewBlock
<1>1. b \in Blocks \ heap
  BY FreshBlock DEF Exchange, NewBlock
<1>2. /\ vec' = [vec EXCEPT ![v] = Dynamic(b, Cardinality(DOMAIN new), n)]
      /\ mem' = [mem EXCEPT ![b] = new, ![Data(v)] = Released(Data(v))]
  BY DEF Exchange
<1>3. /\ Data(v) \in {v, NoBlock} \cup Owned(v) /\ mem[NoBlock] = Blank(0)
      /\ vec \in [Vecs -> StorageRecord] /\ mem = [p \in Places |-> mem[p]]
      /\ alive \subseteq Vecs /\ v \in Places /\ b \in Places /\ v # b /\ b # NoBlock
      /\ NoBlock \notin Vecs
  BY <1>1, Buffers, Constants DEF Good, Typed, Places
<1>4. Owned(v) \subseteq heap
  BY Buffers, OwnedAllocated
<1> HIDE DEF b
<1>5. Data(v) # b
  BY <1>1, <1>3, <1>4
<1>6. Data(v) = NoBlock => Released(Data(v)) = mem[NoBlock]
  BY <1>3 DEF Released
<1>7. \A p \in Places :
        mem'[p] = mem[p] \/ p \in {v} \/ p \in Blocks \ heap \/ \E x \in {v} : p \in Owned(x)
  BY <1>1, <1>2, <1>3, <1>6
<1>8. Alters({v})
  BY <1>2, <1>3, <1>7 DEF Alters
<1>9. Size(v)' = n /\ Data(v)' = b /\ mem'[b] = new
  BY <1>2, <1>3, <1>5 DEF Size, Data, IsDynamic, Dynamic
<1> QED
  BY <1>5, <1>8, <1>9 DEF Seen, Elements, Slots

\* An exception in a call that holds a new block.
LEMMA UnwindView ==
  ASSUME Good, NEW new, NEW noop, NEW op, Unwind(NewBlock, new, noop, op), alive' = alive
  PROVE  View' = View
<1>1. NewBlock \in Blocks \ heap
  BY FreshBlock DEF Unwind, NewBlock
<1>2. vec' = vec /\ (mem' = mem \/ mem' = [mem EXCEPT ![NewBlock] = new])
  BY DEF Unwind
<1>3. mem = [p \in Places |-> mem[p]]
  BY DEF Good, Typed
<1>4. \A p \in Places : mem'[p] = mem[p] \/ p \in Blocks \ heap
  BY <1>1, <1>2, <1>3
<1>5. Alters({})
  BY <1>2, <1>4 DEF Alters
<1> QED
  BY <1>5, NoneChanges

-------------------------------------------------------------------------------
(* Steps of VectorValue.                                                       *)

\* A call that ends the program.
LEMMA ValueTerminates ==
  ASSUME last'.out = "terminated"
  PROVE  Value!Next
BY DEF Value!Next, Value!Terminate

\* A call that fails and leaves every sequence alone.
LEMMA ValueFails ==
  ASSUME View' = View, alive' = alive,
         last'.out \in {"out_of_storage", "invalid_source_range", "threw", "terminated"}
  PROVE  Value!Next
<1>1. CASE last'.out = "terminated"
  BY <1>1, ValueTerminates
<1>2. CASE last'.out # "terminated"
  <2>1. Value!Fail
    BY <1>2 DEF Value!Fail, View, Seen
  <2> QED
    BY <2>1 DEF Value!Next
<1> QED
  BY <1>1, <1>2

\* A call that throws and only promises that nothing is lost.
LEMMA ValueBasic ==
  ASSUME Good, NEW v \in Vecs, Alters({v}), alive' = alive, last'.v = v,
         last'.out \in {"threw", "terminated"},
         last'.op \in {"emplace", "insert", "erase", "erase_range", "assign_copy", "assign_move"}
  PROVE  Value!Next
<1>1. CASE last'.out = "terminated"
  BY <1>1, ValueTerminates
<1>2. CASE last'.out = "threw"
  <2>1. \A w \in Vecs \ {v} : Seen(w)' = Seen(w)
    BY OthersKeep
  <2>2. Value!Fail
    BY <1>2, <2>1 DEF Value!Fail, Value!BasicOnly, Seen
  <2> QED
    BY <2>2 DEF Value!Next
<1> QED
  BY <1>1, <1>2

\* Parts of a sequence, and a sequence put into another.
Before(e, n) == SubSeq(e, 1, n)
Behind(e, n) == SubSeq(e, n + 1, Len(e))
Inserted(e, pos, xs) == Before(e, pos) \o xs \o Behind(e, pos)

\* What a call that edits a vector makes of its sequence e.
Yields(op, args, e, s) ==
  \/ op = "emplace_back" /\ s = Append(e, args[1])
  \/ op = "emplace" /\ s = Inserted(e, args[1], <<args[2]>>)
  \/ op = "insert" /\ s = Inserted(e, args[1], args[2])
  \/ op = "erase" /\ s = Before(e, args[1]) \o Behind(e, args[1] + 1)
  \/ op = "erase_range" /\ s = Before(e, args[1]) \o Behind(e, args[2])
  \/ op = "erase_at_end" /\ s = Before(e, args[1])
  \/ op = "resize" /\ s = IF args[1] <= Len(e) THEN Before(e, args[1])
                          ELSE e \o [i \in 1 .. args[1] - Len(e) |-> Zero]
  \/ op \in {"reserve", "shrink_to_fit"} /\ s = e

\* A call that edits one vector.
LEMMA ValueEdits ==
  ASSUME Good, NEW v \in alive, Alters({v}), alive' = alive,
         NEW op, NEW args, Called(op, v, args, "ok"), NEW s, Seen(v)' = s,
         NEW e, e = Elements(v),
         Yields(op, args, e, s)
  PROVE  Value!Next
<1>1. v \in Vecs /\ Seen(v) = e
  BY OfVector DEF Seen
<1>2. last'.op = op /\ last'.v = v /\ last'.args = args /\ last'.out = "ok"
  BY DEF Called
<1> DEFINE f == [w \in Vecs |-> IF w \in alive THEN Elements(w) ELSE <<>>]
<1>3. f[v] = e
  BY <1>1 DEF Seen
<1>4. f' = [f EXCEPT ![v] = s]
  <2>1. View' = [View EXCEPT ![v] = s]
    BY <1>1, OneChanges
  <2> QED
    BY <2>1 DEF View, Seen
<1>5. Value!Edit(v)
  <2> USE <1>2, <1>3, <1>4 DEF Value!Edit, Value!Arg, Value!Becomes, Value!InsertAt,
        Value!Prefix, Value!Suffix, Inserted, Before, Behind
  <2>1. CASE op = "emplace_back" /\ s = Append(e, args[1])
    BY <2>1
  <2>2. CASE op = "emplace" /\ s = Inserted(e, args[1], <<args[2]>>)
    BY <2>2
  <2>3. CASE op = "insert" /\ s = Inserted(e, args[1], args[2])
    BY <2>3
  <2>4. CASE op = "erase" /\ s = Before(e, args[1]) \o Behind(e, args[1] + 1)
    BY <2>4
  <2>5. CASE op = "erase_range" /\ s = Before(e, args[1]) \o Behind(e, args[2])
    BY <2>5
  <2>6. CASE op = "erase_at_end" /\ s = Before(e, args[1])
    BY <2>6
  <2>7. CASE op = "resize" /\ s = IF args[1] <= Len(e) THEN Before(e, args[1])
                                  ELSE e \o [i \in 1 .. args[1] - Len(e) |-> Zero]
    BY <2>7
  <2>8. CASE op \in {"reserve", "shrink_to_fit"} /\ s = e
    BY <2>8
  <2> QED
    BY ONLY <2>1, <2>2, <2>3, <2>4, <2>5, <2>6, <2>7, <2>8, Yields(op, args, e, s), Zenon
    DEF Yields
<1> QED
  BY <1>1, <1>5 DEF Value!Next

\* emplace of an element of the vector itself.
LEMMA ValueOwn ==
  ASSUME Good, NEW v \in alive, Alters({v}), alive' = alive,
         NEW op \in {"emplace_back", "emplace"}, NEW args, Called(op, v, args, "ok"),
         args[Len(args)] = "own", NEW s, Seen(v)' = s, Len(s) = Len(Elements(v)) + 1
  PROVE  Value!Next
<1>1. v \in Vecs /\ Seen(v) = Elements(v)
  BY OfVector DEF Seen
<1>2. last'.op = op /\ last'.v = v /\ last'.args = args /\ last'.out = "ok"
  BY DEF Called
<1> DEFINE f == [w \in Vecs |-> IF w \in alive THEN Elements(w) ELSE <<>>]
<1>3. f[v] = Elements(v)
  BY <1>1 DEF Seen
<1>4. f' = [f EXCEPT ![v] = s]
  BY <1>1, OneChanges DEF View, Seen
<1>5. f'[v] = s /\ \A w \in Vecs \ {v} : f'[w] = f[w]
  BY <1>1, <1>4
<1>6. Value!GivenOwn(v)
  BY <1>2, <1>3, <1>5 DEF Value!GivenOwn
<1> QED
  BY <1>1, <1>6 DEF Value!Next, Value!Edit

\* insert of more elements than can be counted.
LEMMA ValueTooMany ==
  ASSUME Good, NEW v \in alive, Alters({v}), alive' = alive,
         last'.op = "insert", last'.v = v, Len(last'.args[2]) > MaxSize
  PROVE  Value!Next
<1>1. v \in Vecs
  BY OfVector
<1>2. \A w \in Vecs \ {v} : Seen(w)' = Seen(w)
  BY <1>1, OthersKeep
<1>3. Value!GivenTooMany(v)
  BY <1>2 DEF Value!GivenTooMany, Value!Arg, Seen
<1> QED
  BY <1>1, <1>3 DEF Value!Next, Value!Edit

-------------------------------------------------------------------------------
(* Sequences of the values in slots.                                           *)

\* The slots from 0 on hold the sequence r.
Holds(s, r) ==
  \A i \in 0 .. Len(r) - 1 : i \in DOMAIN s /\ s[i] # Raw /\ s[i] = r[i + 1]

\* What the slots hold is what is read from them.
LEMMA ReadHeld ==
  ASSUME NEW s, NEW S, NEW r, r \in Seq(S), Holds(s, r)
  PROVE  Read(s, 0, Len(r)) = r
<1> DEFINE n == Len(r)
<1>1. n \in Nat /\ r = [j \in 1 .. n |-> r[j]]
  OBVIOUS
<1>2. \A j \in 1 .. n : Get(s, 0 + j - 1) = r[j]
  <2> SUFFICES ASSUME NEW j \in 1 .. n PROVE Get(s, 0 + j - 1) = r[j]
    OBVIOUS
  <2>1. j - 1 \in 0 .. Len(r) - 1 /\ (j - 1) + 1 = j /\ 0 + j - 1 = j - 1
    BY <1>1
  <2> QED
    BY <2>1 DEF Get, Holds
<1> HIDE DEF n
<1>3. [j \in 1 .. n |-> Get(s, 0 + j - 1)] = [j \in 1 .. n |-> r[j]]
  BY <1>2
<1> QED
  BY <1>1, <1>3 DEF Read, n

\* Values of the elements of v, and those a program can add.
Worths(v) == Vals \cup {Slots(v)[i] : i \in Span(0, Size(v))}

\* The elements of a vector are what its slots hold.
LEMMA OfElements ==
  ASSUME Good, NEW v \in alive
  PROVE  /\ Elements(v) \in Seq(Worths(v)) /\ Len(Elements(v)) = Size(v)
         /\ \A i \in 0 .. Size(v) - 1 :
              Elements(v)[i + 1] = Slots(v)[i] /\ Living(Slots(v)[i]) /\ i \in DOMAIN Slots(v)
<1> DEFINE n == Size(v)
           s == Slots(v)
<1>1. n \in Nat /\ Capacity(v) \in Nat /\ n <= Capacity(v) /\ Occupied(s, Capacity(v), Span(0, n))
  BY OfVector
<1>2. \A i \in 0 .. n - 1 : Living(s[i]) /\ i \in DOMAIN s /\ i \in Span(0, n)
  BY <1>1 DEF Occupied, IsBlock, Span
<1>3. \A j \in 1 .. n : j - 1 \in 0 .. n - 1 /\ 0 + j - 1 = j - 1
  BY <1>1
<1>4. \A j \in 1 .. n : Get(s, 0 + j - 1) = s[j - 1]
  BY <1>2, <1>3 DEF Get, Living
<1>5. Elements(v) = [j \in 1 .. n |-> Get(s, 0 + j - 1)]
  BY DEF Elements, Read
<1>6. Elements(v) \in [1 .. n -> Worths(v)]
  BY <1>2, <1>3, <1>4, <1>5 DEF Worths
<1>7. \A i \in 0 .. n - 1 : i + 1 \in 1 .. n /\ (i + 1) - 1 = i
  BY <1>1
<1>8. \A i \in 0 .. n - 1 : Elements(v)[i + 1] = s[i]
  BY <1>4, <1>5, <1>7
<1> HIDE DEF n, s
<1>9. Elements(v) \in Seq(Worths(v)) /\ Len(Elements(v)) = n
  BY <1>1, <1>6
<1> QED
  BY <1>2, <1>8, <1>9 DEF n, s

\* A sequence with another behind it.
LEMMA Joined ==
  ASSUME NEW S, NEW e, e \in Seq(S), NEW xs, xs \in Seq(S), NEW r, r = e \o xs
  PROVE  /\ r \in Seq(S) /\ Len(r) = Len(e) + Len(xs)
         /\ \A j \in 1 .. Len(e) + Len(xs) : r[j] = IF j <= Len(e) THEN e[j] ELSE xs[j - Len(e)]
OBVIOUS

\* The slots hold r, of length m.
HoldsAll(S, r, t, m) == r \in Seq(S) /\ Len(r) = m /\ Holds(t, r)

\* The slots hold e and behind it xs.
Follows(t, e, xs) ==
  LET n == Len(e)
      u == Len(xs)
  IN  /\ \A i \in 0 .. n - 1 : i \in DOMAIN t /\ t[i] = e[i + 1] /\ t[i] # Raw
      /\ \A i \in n .. n + u - 1 : i \in DOMAIN t /\ t[i] = xs[i - n + 1] /\ t[i] # Raw

\* This is the sequence they hold.
LEMMA HoldsJoined ==
  ASSUME NEW S, NEW e, e \in Seq(S), NEW xs, xs \in Seq(S), NEW r, r = e \o xs,
         NEW t, Follows(t, e, xs), NEW m, m = Len(e) + Len(xs)
  PROVE  HoldsAll(S, r, t, m)
<1>1. PICK n, u : n = Len(e) /\ u = Len(xs)
  OBVIOUS
<1>2. n \in Nat /\ u \in Nat /\ m = n + u
  BY <1>1
<1>3. /\ r \in Seq(S) /\ Len(r) = n + u
      /\ \A j \in 1 .. n + u : r[j] = IF j <= n THEN e[j] ELSE xs[j - n]
  BY <1>1, Joined
<1>4. ASSUME NEW i \in 0 .. n + u - 1 PROVE i \in DOMAIN t /\ t[i] # Raw /\ t[i] = r[i + 1]
  <2>1. /\ i + 1 \in 1 .. n + u
        /\ i < n => i \in 0 .. n - 1 /\ i + 1 <= n
        /\ n <= i => i \in n .. n + u - 1 /\ ~(i + 1 <= n) /\ (i + 1) - n = i - n + 1
        /\ i < n \/ n <= i
    BY ONLY <1>2, <1>4
  <2>2. CASE i < n
    BY <1>1, <1>3, <2>1, <2>2 DEF Follows
  <2>3. CASE n <= i
    BY <1>1, <1>3, <2>1, <2>3 DEF Follows
  <2> QED
    BY <2>1, <2>2, <2>3
<1> QED
  BY <1>2, <1>3, <1>4 DEF Holds, HoldsAll

\* The slots hold e with xs put into it at pos.
Spliced(t, e, pos, xs) ==
  LET n == Len(e)
      u == Len(xs)
  IN  /\ 0 .. n + u - 1 \subseteq DOMAIN t
      /\ \A i \in 0 .. pos - 1 : t[i] = e[i + 1] /\ t[i] # Raw
      /\ \A i \in pos .. pos + u - 1 : t[i] = xs[i - pos + 1] /\ t[i] # Raw
      /\ \A i \in pos + u .. n + u - 1 : t[i] = e[i - u + 1] /\ t[i] # Raw

\* This is the sequence they hold.
LEMMA HoldsInserted ==
  ASSUME NEW S, NEW e, e \in Seq(S), NEW xs, xs \in Seq(S), NEW pos, pos \in 0 .. Len(e),
         NEW r, r = Inserted(e, pos, xs), NEW t, Spliced(t, e, pos, xs)
  PROVE  r \in Seq(S) /\ Len(r) = Len(e) + Len(xs) /\ Holds(t, r)
<1> DEFINE a == SubSeq(e, 1, pos)
           b == SubSeq(e, pos + 1, Len(e))
<1>1. /\ a \in Seq(S) /\ Len(a) = pos /\ \A j \in 1 .. pos : a[j] = e[j]
      /\ b \in Seq(S) /\ Len(b) = Len(e) - pos /\ \A j \in 1 .. Len(e) - pos : b[j] = e[pos + j]
  OBVIOUS
<1>2. r = a \o xs \o b
  BY DEF Inserted, Before, Behind
<1>3. pos \in Nat /\ Len(e) \in Nat /\ pos <= Len(e) /\ Len(xs) \in Nat
  OBVIOUS
<1> HIDE DEF a, b
<1>9. PICK c : c = a \o xs
  OBVIOUS
<1>4. /\ c \in Seq(S) /\ Len(c) = pos + Len(xs)
      /\ \A j \in 1 .. pos + Len(xs) : c[j] = IF j <= pos THEN a[j] ELSE xs[j - pos]
  <2>1. /\ c \in Seq(S) /\ Len(c) = Len(a) + Len(xs)
        /\ \A j \in 1 .. Len(a) + Len(xs) : c[j] = IF j <= Len(a) THEN a[j] ELSE xs[j - Len(a)]
    <3>1. a \in Seq(S)
      BY <1>1
    <3> QED
      BY ONLY xs \in Seq(S), <1>9, <3>1, Joined
  <2> QED
    BY <1>1, <2>1
<1>5. /\ r \in Seq(S) /\ Len(r) = pos + Len(xs) + (Len(e) - pos)
      /\ \A j \in 1 .. Len(r) :
           r[j] = IF j <= pos + Len(xs) THEN c[j] ELSE b[j - (pos + Len(xs))]
  <2>1. /\ r \in Seq(S) /\ Len(r) = Len(c) + Len(b)
        /\ \A j \in 1 .. Len(c) + Len(b) : r[j] = IF j <= Len(c) THEN c[j] ELSE b[j - Len(c)]
    <3>1. c \in Seq(S) /\ b \in Seq(S)
      BY <1>1, <1>4
    <3>2. r = c \o b
      BY <1>2, <1>9
    <3> QED
      BY ONLY <3>1, <3>2, Joined
  <2> QED
    BY <1>1, <1>4, <2>1
<1>6. Len(r) = Len(e) + Len(xs)
  BY <1>3, <1>5
<1>7. ASSUME NEW i \in 0 .. Len(e) + Len(xs) - 1
      PROVE  /\ i < pos => r[i + 1] = e[i + 1]
             /\ pos <= i /\ i < pos + Len(xs) => r[i + 1] = xs[i - pos + 1]
             /\ pos + Len(xs) <= i => r[i + 1] = e[i - Len(xs) + 1]
  <2>1. i + 1 \in 1 .. Len(r) /\ i \in Nat
    BY <1>3, <1>6
  <2>2. CASE i < pos
    <3>1. i + 1 <= pos + Len(xs) /\ i + 1 \in 1 .. pos + Len(xs) /\ i + 1 <= pos /\ i + 1 \in 1 .. pos
      BY <1>3, <2>1, <2>2
    <3>2. r[i + 1] = e[i + 1]
      BY <1>1, <1>4, <1>5, <2>1, <3>1
    <3>3. ~(pos <= i) /\ ~(pos + Len(xs) <= i)
      BY <1>3, <2>1, <2>2
    <3> QED
      BY <3>2, <3>3
  <2>3. CASE pos <= i /\ i < pos + Len(xs)
    <3>1. /\ i + 1 <= pos + Len(xs) /\ i + 1 \in 1 .. pos + Len(xs) /\ ~(i + 1 <= pos)
          /\ (i + 1) - pos = i - pos + 1
      BY <1>3, <2>1, <2>3
    <3>2. r[i + 1] = xs[(i + 1) - pos]
      BY <1>4, <1>5, <2>1, <3>1
    <3>3. r[i + 1] = xs[i - pos + 1]
      BY <3>1, <3>2
    <3>4. ~(i < pos) /\ ~(pos + Len(xs) <= i)
      BY <1>3, <2>1, <2>3
    <3> QED
      BY <3>3, <3>4
  <2>4. CASE pos + Len(xs) <= i
    <3> DEFINE k == (i + 1) - (pos + Len(xs))
    <3>1. k \in 1 .. Len(e) - pos /\ pos + k = i - Len(xs) + 1 /\ ~(i + 1 <= pos + Len(xs))
      BY <1>3, <2>1, <2>4
    <3>2. r[i + 1] = b[k]
      BY <1>5, <2>1, <3>1
    <3> HIDE DEF k
    <3>3. r[i + 1] = e[pos + k]
      BY <1>1, <3>1, <3>2
    <3>4. r[i + 1] = e[i - Len(xs) + 1]
      BY <3>1, <3>3
    <3>5. ~(i < pos) /\ ~(i < pos + Len(xs))
      BY <1>3, <2>1, <2>4
    <3> QED
      BY <3>4, <3>5
  <2> QED
    BY <1>3, <2>1, <2>2, <2>3, <2>4
<1>8. PICK n, u : n = Len(e) /\ u = Len(xs)
  OBVIOUS
<1>10. ASSUME NEW i \in 0 .. n + u - 1
       PROVE  i \in DOMAIN t /\ t[i] # Raw /\ t[i] = r[i + 1]
  <2>1. /\ i < pos => r[i + 1] = e[i + 1]
        /\ pos <= i /\ i < pos + u => r[i + 1] = xs[i - pos + 1]
        /\ pos + u <= i => r[i + 1] = e[i - u + 1]
    BY <1>7, <1>8
  <2>2. /\ i < pos => i \in 0 .. pos - 1
        /\ pos <= i /\ i < pos + u => i \in pos .. pos + u - 1
        /\ pos + u <= i => i \in pos + u .. n + u - 1
        /\ i < pos \/ (pos <= i /\ i < pos + u) \/ pos + u <= i
    BY <1>3, <1>8
  <2> QED
    BY <1>8, <2>1, <2>2 DEF Spliced
<1> QED
  BY <1>5, <1>6, <1>8, <1>10 DEF Holds

\* The slots hold e with the elements from a to b - 1 cut out.
Closed(t, e, a, b) ==
  LET n == Len(e)
  IN  /\ 0 .. n - (b - a) - 1 \subseteq DOMAIN t
      /\ \A i \in 0 .. a - 1 : t[i] = e[i + 1] /\ t[i] # Raw
      /\ \A i \in a .. n - (b - a) - 1 : t[i] = e[i + (b - a) + 1] /\ t[i] # Raw

\* Sequence r is e with them cut out, of length m.
Cutting(S, e, a, b, r, t, m) ==
  /\ e \in Seq(S) /\ a \in 0 .. Len(e) /\ b \in 0 .. Len(e) /\ a <= b
  /\ r = Before(e, a) \o Behind(e, b) /\ Closed(t, e, a, b) /\ m = Len(e) - (b - a)

\* The slots hold r.
LEMMA HoldsCut ==
  ASSUME NEW S, NEW e, NEW a, NEW b, NEW r, NEW t, NEW m, Cutting(S, e, a, b, r, t, m)
  PROVE  HoldsAll(S, r, t, m)
<1>0. /\ e \in Seq(S) /\ a \in 0 .. Len(e) /\ b \in 0 .. Len(e) /\ a <= b
      /\ r = Before(e, a) \o Behind(e, b) /\ Closed(t, e, a, b) /\ m = Len(e) - (b - a)
  BY DEF Cutting
<1> DEFINE x == SubSeq(e, 1, a)
           y == SubSeq(e, b + 1, Len(e))
<1>1. /\ x \in Seq(S) /\ Len(x) = a /\ \A j \in 1 .. a : x[j] = e[j]
      /\ y \in Seq(S) /\ Len(y) = Len(e) - b /\ \A j \in 1 .. Len(e) - b : y[j] = e[b + j]
  <2>1. e \in Seq(S) /\ a \in 0 .. Len(e) /\ b \in 0 .. Len(e)
    BY <1>0
  <2> QED
    BY ONLY <2>1
<1>2. r = x \o y
  BY <1>0 DEF Before, Behind
<1>3. a \in Nat /\ b \in Nat /\ Len(e) \in Nat /\ a <= Len(e) /\ b <= Len(e) /\ a <= b
  BY ONLY <1>0
<1> HIDE DEF x, y
<1>4. /\ r \in Seq(S) /\ Len(r) = a + (Len(e) - b)
      /\ \A j \in 1 .. Len(r) : r[j] = IF j <= a THEN x[j] ELSE y[j - a]
  <2>1. x \in Seq(S) /\ y \in Seq(S)
    BY <1>1
  <2>2. /\ r \in Seq(S) /\ Len(r) = Len(x) + Len(y)
        /\ \A j \in 1 .. Len(x) + Len(y) : r[j] = IF j <= Len(x) THEN x[j] ELSE y[j - Len(x)]
    BY ONLY <1>2, <2>1, Joined
  <2>3. Len(x) = a /\ Len(y) = Len(e) - b
    BY <1>1
  <2> QED
    BY ONLY <2>2, <2>3
<1>5. Len(r) = Len(e) - (b - a)
  BY ONLY <1>3, <1>4
<1>6. ASSUME NEW i \in 0 .. Len(e) - (b - a) - 1
      PROVE  (i < a => r[i + 1] = e[i + 1]) /\ (a <= i => r[i + 1] = e[i + (b - a) + 1])
  <2>1. i + 1 \in 1 .. Len(r) /\ i \in Nat
    BY <1>3, <1>5
  <2>2. CASE i < a
    <3>1. i + 1 <= a /\ i + 1 \in 1 .. a
      BY <1>3, <2>1, <2>2
    <3> QED
      BY <1>1, <1>4, <2>1, <2>2, <3>1
  <2>3. CASE a <= i
    <3> DEFINE k == (i + 1) - a
    <3>1. k \in 1 .. Len(e) - b /\ b + k = i + (b - a) + 1 /\ ~(i + 1 <= a) /\ ~(i < a)
      <4>1. i \in 0 .. Len(e) - (b - a) - 1
        OBVIOUS
      <4> QED
        BY ONLY <1>3, <2>3, <4>1
    <3>2. r[i + 1] = y[k]
      BY <1>4, <2>1, <3>1
    <3> HIDE DEF k
    <3> QED
      BY <1>1, <3>1, <3>2
  <2> QED
    BY <1>3, <2>1, <2>2, <2>3
<1>7. PICK n : n = Len(e)
  OBVIOUS
<1>8. ASSUME NEW i \in 0 .. n - (b - a) - 1
      PROVE  i \in DOMAIN t /\ t[i] # Raw /\ t[i] = r[i + 1]
  <2>1. (i < a => r[i + 1] = e[i + 1]) /\ (a <= i => r[i + 1] = e[i + (b - a) + 1])
    BY <1>6, <1>7
  <2>2. /\ i < a => i \in 0 .. a - 1
        /\ a <= i => i \in a .. n - (b - a) - 1
        /\ i < a \/ a <= i
    BY <1>3, <1>7
  <2> QED
    BY <1>0, <1>7, <2>1, <2>2 DEF Closed
<1> QED
  BY <1>0, <1>4, <1>5, <1>7, <1>8 DEF Holds, HoldsAll

\* The slots hold the beginning of e.
Begins(t, e, a) == \A i \in 0 .. a - 1 : i \in DOMAIN t /\ t[i] = e[i + 1] /\ t[i] # Raw

\* Such slots hold the elements before a.
LEMMA HoldsBefore ==
  ASSUME NEW S, NEW e, e \in Seq(S), NEW a, a \in 0 .. Len(e), NEW r, r = Before(e, a),
         NEW t, Begins(t, e, a)
  PROVE  r \in Seq(S) /\ Len(r) = a /\ Holds(t, r)
<1>1. r = SubSeq(e, 1, a) /\ a \in Nat /\ a <= Len(e)
  BY DEF Before
<1>2. r \in Seq(S) /\ Len(r) = a /\ \A j \in 1 .. a : r[j] = e[j]
  BY <1>1
<1>3. ASSUME NEW i \in 0 .. a - 1 PROVE i \in DOMAIN t /\ t[i] # Raw /\ t[i] = r[i + 1]
  <2>1. i + 1 \in 1 .. a
    BY <1>1
  <2> QED
    BY <1>2, <2>1 DEF Begins
<1> QED
  BY <1>2, <1>3 DEF Holds

-------------------------------------------------------------------------------
(* The operations on one vector refine VectorValue.                            *)

\* The facts about the slots and the elements of one vector.
LEMMA OfSlots ==
  ASSUME Good, NEW v \in alive, NEW n, n = Size(v), NEW c, c = Capacity(v),
         NEW s, s = Slots(v), NEW e, e = Elements(v), NEW S, S = Worths(v)
  PROVE  /\ n \in Nat /\ c \in Nat /\ n <= c /\ c <= MaxSize /\ DOMAIN s = 0 .. c - 1
         /\ IsBlock(s, c) /\ Occupied(s, c, Span(0, n))
         /\ e \in Seq(S) /\ Len(e) = n /\ Vals \subseteq S
         /\ \A i \in 0 .. n - 1 : s[i] = e[i + 1] /\ s[i] # Raw /\ s[i] # Bad
         /\ \A i \in n .. c - 1 : s[i] = Raw
<1>1. /\ n \in Nat /\ c \in Nat /\ n <= c /\ c <= MaxSize /\ Occupied(s, c, Span(0, n))
      /\ IsBlock(s, c) /\ DOMAIN s = 0 .. c - 1
  BY OfVector DEF Occupied, IsBlock
<1>2. \A i \in n .. c - 1 : s[i] = Raw
  BY <1>1 DEF Occupied, Span
<1> QED
  BY <1>1, <1>2, OfElements DEF Worths, Living

\* The value passed to emplace is one of these.
LEMMA PassedWorth ==
  ASSUME Good, NEW v \in alive, NEW arg \in ArgsOf(v)
  PROVE  /\ Passed(v, arg) \in Worths(v) /\ Living(Passed(v, arg))
         /\ Given(v, arg)[1] = Passed(v, arg) /\ Len(Given(v, arg)) \in {1, 2}
         /\ arg.kind # "value" => /\ Given(v, arg)[Len(Given(v, arg))] = "own"
                                  /\ Len(Given(v, arg)) = 2
<1>1. Living(Passed(v, arg))
  BY OfVector, Argument
<1>2. CASE arg \in [kind : {"value"}, val : Vals]
  <2>1. Passed(v, arg) = arg.val /\ arg.val \in Vals /\ arg.kind = "value"
    BY <1>2 DEF Passed, Through
  <2>2. Given(v, arg) = <<Passed(v, arg)>>
    BY <2>1 DEF Given
  <2> QED
    BY <1>1, <2>1, <2>2 DEF Worths
<1>3. CASE arg \in [kind : {"element"}, at : Span(0, Size(v))]
  <2>1. arg.kind # "value" /\ arg.at \in Span(0, Size(v))
    BY <1>3
  <2>2. Passed(v, arg) = Slots(v)[arg.at]
    BY <1>1, <2>1 DEF Passed, Through, Get, Living
  <2>3. Given(v, arg) = <<Passed(v, arg)>> \o <<"own">>
    BY <2>1 DEF Given
  <2>4. \A x : LET g == <<x>> \o <<"own">> IN g[1] = x /\ Len(g) = 2 /\ g[2] = "own"
    OBVIOUS
  <2>5. PICK x, g : x = Passed(v, arg) /\ g = Given(v, arg)
    OBVIOUS
  <2>6. g[1] = x /\ Len(g) = 2 /\ g[2] = "own"
    BY <2>3, <2>4, <2>5
  <2>7. Passed(v, arg) \in Worths(v)
    BY <2>1, <2>2 DEF Worths
  <2> QED
    BY <1>1, <2>1, <2>5, <2>6, <2>7
<1> QED
  BY <1>2, <1>3 DEF ArgsOf, Args

\* Block s of capacity c becomes t when the objects xs are built from slot a on.
Builds(s, c, a, xs, t) ==
  /\ DOMAIN t = 0 .. c - 1
  /\ \A i \in 0 .. c - 1 :
       /\ i < a \/ a + Len(xs) <= i => t[i] = s[i]
       /\ a <= i /\ i < a + Len(xs) /\ s[i] = Raw => t[i] = xs[i - a + 1]

\* Objects constructed from slot a on.
LEMMA Built ==
  ASSUME NEW s, NEW c, c \in Int, DOMAIN s = 0 .. c - 1, NEW a, a \in Int,
         NEW xs, Len(xs) \in Nat, NEW t, t = Construct(s, a, xs)
  PROVE  Builds(s, c, a, xs, t)
<1>1. PICK k : k = Len(xs)
  OBVIOUS
<1>2. t = [i \in 0 .. c - 1 |-> IF i \in Span(a, a + k)
                                 THEN IF s[i] = Raw THEN xs[i - a + 1] ELSE Bad ELSE s[i]]
  BY <1>1 DEF Construct
<1>3. \A i \in 0 .. c - 1 : i \in Span(a, a + k) <=> a <= i /\ i < a + k
  BY <1>1 DEF Span
<1>4. ASSUME NEW i \in 0 .. c - 1
      PROVE  (a <= i /\ i < a + k) <=> ~(i < a \/ a + k <= i)
  BY <1>1
<1> QED
  BY <1>1, <1>2, <1>3, <1>4 DEF Builds

\* The same with fresh storage.
Fresh(c, a, xs, t) ==
  /\ DOMAIN t = 0 .. c - 1
  /\ \A i \in 0 .. c - 1 :
       /\ i < a \/ a + Len(xs) <= i => t[i] = Raw
       /\ a <= i /\ i < a + Len(xs) => t[i] = xs[i - a + 1]

\* Objects constructed in fresh storage.
LEMMA BuiltFresh ==
  ASSUME NEW c, c \in Int, NEW a, a \in Int, NEW xs, Len(xs) \in Nat,
         NEW t, t = Construct(Blank(c), a, xs)
  PROVE  Fresh(c, a, xs, t)
<1>1. PICK s : s = Blank(c)
  OBVIOUS
<1>2. DOMAIN s = 0 .. c - 1 /\ \A i \in 0 .. c - 1 : s[i] = Raw
  BY <1>1 DEF Blank
<1>3. Builds(s, c, a, xs, t)
  BY <1>1, <1>2, Built
<1> QED
  BY <1>2, <1>3 DEF Builds, Fresh

\* One object put into slot a.
Puts(s, c, a, x, t) ==
  DOMAIN t = 0 .. c - 1 /\ t[a] = x /\ \A i \in 0 .. c - 1 : i # a => t[i] = s[i]

\* One object constructed.
LEMMA BuiltOne ==
  ASSUME NEW s, NEW c, c \in Int, DOMAIN s = 0 .. c - 1, NEW a, a \in 0 .. c - 1, s[a] = Raw,
         NEW x, NEW t, t = Construct(s, a, <<x>>)
  PROVE  Puts(s, c, a, x, t)
<1>1. PICK xs : xs = <<x>>
  OBVIOUS
<1>2. Len(xs) = 1 /\ xs[1] = x /\ t = Construct(s, a, xs) /\ a \in Int /\ Len(xs) \in Nat
  BY <1>1
<1>3. Builds(s, c, a, xs, t)
  BY ONLY c \in Int, DOMAIN s = 0 .. c - 1, <1>2, Built
<1>4. t[a] = xs[a - a + 1] /\ a - a + 1 = 1
  <2>1. a \in 0 .. c - 1 /\ a <= a /\ a < a + Len(xs) /\ a - a + 1 = 1
    BY <1>2
  <2> QED
    BY <1>3, <2>1 DEF Builds
<1>5. \A i \in 0 .. c - 1 : i # a => i < a \/ a + 1 <= i
  BY <1>2
<1>6. \A i \in 0 .. c - 1 : i # a => t[i] = s[i]
  BY <1>2, <1>3, <1>5 DEF Builds
<1> QED
  BY <1>2, <1>3, <1>4, <1>6 DEF Builds, Puts

\* One element more.
LEMMA OneMore ==
  ASSUME NEW S, NEW e, e \in Seq(S), NEW x \in S, NEW n, n = Len(e), NEW t,
         0 .. n \subseteq DOMAIN t,
         \A i \in 0 .. n - 1 : t[i] = e[i + 1] /\ t[i] # Raw, t[n] = x, x # Raw
  PROVE  Read(t, 0, n + 1) = Append(e, x)
<1>1. PICK r : r = Append(e, x)
  OBVIOUS
<1>2. r \in Seq(S) /\ Len(r) = n + 1 /\ r[n + 1] = x /\ \A i \in 1 .. n : r[i] = e[i]
  BY <1>1
<1>3. n \in Nat
  OBVIOUS
<1>4. Holds(t, r)
  <2> SUFFICES ASSUME NEW i \in 0 .. n PROVE i \in DOMAIN t /\ t[i] # Raw /\ t[i] = r[i + 1]
    BY <1>2, <1>3 DEF Holds
  <2>1. CASE i = n
    BY <1>2, <1>3, <2>1
  <2>2. CASE i # n
    <3>1. i \in 0 .. n - 1 /\ i + 1 \in 1 .. n
      BY <1>3, <2>2
    <3> QED
      BY <1>2, <3>1
  <2> QED
    BY <2>1, <2>2
<1>5. Read(t, 0, Len(r)) = r
  BY <1>2, <1>4, ReadHeld
<1> QED
  BY <1>1, <1>2, <1>5

\* What AliasedAppend says of one vector.
Appends(v) ==
  last'.op = "emplace_back" /\ last'.out = "ok" /\ last'.v = v =>
    \/ Elements(v)' = Append(Elements(v), last'.args[1])
    \/ Data(v)' # Data(v) /\ RelocatesFirst

\* A call that has appended the right value.
LEMMA AppendedRight ==
  ASSUME Good, NEW v \in alive, NEW arg \in ArgsOf(v), Alters({v}), alive' = alive,
         NEW s, Seen(v)' = s, Called("emplace_back", v, Given(v, arg), "ok"),
         s = Append(Elements(v), Passed(v, arg))
  PROVE  Value!Next /\ Appends(v)
<1>1. Given(v, arg)[1] = Passed(v, arg)
  BY PassedWorth
<1>2. Value!Next
  <2>1. PICK args : args = Given(v, arg)
    OBVIOUS
  <2>2. PICK e : e = Elements(v)
    OBVIOUS
  <2>3. Called("emplace_back", v, args, "ok") /\ s = Append(e, args[1])
    BY <1>1, <2>1, <2>2
  <2>4. Yields("emplace_back", args, e, s)
    BY <2>3 DEF Yields
  <2> QED
    BY <2>2, <2>3, <2>4, ValueEdits
<1>3. last'.args = Given(v, arg) /\ Elements(v)' = s
  BY DEF Called, Seen
<1>4. Appends(v)
  BY <1>1, <1>3 DEF Appends
<1> QED
  BY <1>2, <1>4

\* A call that has not appended anything.
LEMMA AppendedNothing ==
  ASSUME View' = View, alive' = alive, NEW v, NEW op, NEW args, NEW out,
         Called(op, v, args, out), out \in {"out_of_storage", "threw", "terminated"}
  PROVE  Value!Next /\ \A w : Appends(w)
<1>1. last'.out = out
  BY DEF Called
<1> QED
  BY <1>1, ValueFails DEF Appends

\* emplace_back and push_back.
LEMMA EmplaceBackRefines ==
  ASSUME Good, WideGrowth, NEW v \in alive, NEW arg \in ArgsOf(v), EmplaceBack(v, arg)
  PROVE  Value!Next /\ Appends(v)
<1>1. PICK n, c, s, e, S : /\ n = Size(v) /\ c = Capacity(v) /\ s = Slots(v)
                           /\ e = Elements(v) /\ S = Worths(v)
  OBVIOUS
<1>2. /\ n \in Nat /\ c \in Nat /\ n <= c /\ c <= MaxSize /\ DOMAIN s = 0 .. c - 1
      /\ IsBlock(s, c)
      /\ e \in Seq(S) /\ Len(e) = n /\ Vals \subseteq S
      /\ \A i \in 0 .. n - 1 : s[i] = e[i + 1] /\ s[i] # Raw /\ s[i] # Bad
      /\ \A i \in n .. c - 1 : s[i] = Raw
  BY <1>1, OfSlots
<1>3. PICK x, args : x = Passed(v, arg) /\ args = Given(v, arg)
  OBVIOUS
<1>4. x \in S /\ Living(x) /\ args[1] = x /\ x # Raw
  BY <1>1, <1>3, PassedWorth DEF Living
<1>5. v \in Vecs
  BY OfVector
<1>6. n \in Sizes /\ 1 \in Sizes /\ MaxSize \in Nat
  BY <1>2, Constants DEF Sizes
<1>7. CASE EmplaceBackUnchecked(v, arg)
  <2> DEFINE t == Construct(s, n, <<x>>)
  <2>1. PICK fate \in ArgFate(ty) :
          \/ fate = "ok" /\ Write(v, t, ToSize(n + 1)) /\ Called("emplace_back", v, args, "ok")
          \/ fate # "ok" /\ Unchanged("emplace_back", v, args, fate)
    BY <1>1, <1>3, <1>7 DEF EmplaceBackUnchecked
  <2>2. CASE fate # "ok"
    <3>1. fate = "threw"
      BY <2>1, <2>2, Fates
    <3> QED
      BY <2>1, <2>2, <3>1, QuietView, AppendedNothing DEF Unchanged
  <2>3. CASE fate = "ok"
    <3>1. n + 1 <= c /\ ToSize(n + 1) = n + 1
      BY <1>1, <1>2, <1>7, Truncated, Constants DEF EmplaceBackUnchecked, Sizes
    <3>2. /\ DOMAIN t = 0 .. c - 1 /\ t[n] = x
          /\ \A i \in 0 .. n - 1 : t[i] = s[i]
      <4>1. n \in 0 .. c - 1 /\ s[n] = Raw
        BY <1>2, <3>1
      <4>2. PICK r : r = t
        OBVIOUS
      <4>3. c \in Int /\ DOMAIN s = 0 .. c - 1 /\ r = Construct(s, n, <<x>>)
        BY <1>2, <4>2
      <4>4. Puts(s, c, n, x, r)
        BY ONLY <4>1, <4>3, BuiltOne
      <4> HIDE DEF t
      <4> QED
        BY <1>2, <3>1, <4>2, <4>4 DEF Puts
    <3>3. IsBlock(t, c)
      BY <1>2, SameBlock
    <3> HIDE DEF t
    <3>4. Read(t, 0, n + 1) = Append(e, x)
      <4>1. /\ 0 .. n \subseteq DOMAIN t
            /\ \A i \in 0 .. n - 1 : t[i] = e[i + 1] /\ t[i] # Raw
        BY <1>2, <3>1, <3>2
      <4>2. t[n] = x /\ x # Raw /\ x \in S
        BY <1>4, <3>2
      <4> QED
        BY <1>2, <4>1, <4>2, OneMore
    <3>5. Write(v, t, n + 1) /\ Called("emplace_back", v, Given(v, arg), "ok")
      BY <1>3, <2>1, <2>3, <3>1
    <3>6. Alters({v}) /\ alive' = alive /\ Seen(v)' = Read(t, 0, n + 1)
      BY <1>1, <3>3, <3>5, WriteView
    <3>7. PICK r : r = Read(t, 0, n + 1)
      OBVIOUS
    <3> QED
      BY <1>1, <1>3, <3>4, <3>5, <3>6, <3>7, AppendedRight
  <2> QED
    BY <2>2, <2>3
<1>8. CASE Unchanged("emplace_back", v, args, "out_of_storage")
  BY <1>8, QuietView, AppendedNothing DEF Unchanged
<1>9. ASSUME n >= c, Realloc, growth(n, 1) # 0, UNCHANGED <<ty, alive>>,
             \/ EmplaceBackRelocateFirst(v, arg, growth(n, 1))
             \/ EmplaceBackConstructFirst(v, arg, growth(n, 1))
      PROVE  Value!Next /\ Appends(v)
  <2>1. PICK k : k = growth(n, 1)
    OBVIOUS
  <2>2. k \in Nat /\ n + 1 <= k /\ ToSize(n + 1) = n + 1
    BY <1>6, <1>9, <2>1, Grows, Truncated, Constants DEF Sizes
  <2> DEFINE old == Destroy(s, 0, n)
             m == Construct(Blank(k), 0, e)
  <2>3. /\ DOMAIN m = 0 .. k - 1 /\ \A i \in 0 .. n - 1 : m[i] = s[i]
        /\ m[n] = Raw
    <3>1. PICK z : z = 0
      OBVIOUS
    <3>2. Fresh(k, z, e, m)
      <4>1. m = Construct(Blank(k), z, e) /\ z \in Int /\ k \in Int /\ Len(e) \in Nat
        BY <1>2, <2>2, <3>1
      <4> HIDE DEF m
      <4> QED
        BY <4>1, BuiltFresh
    <3> HIDE DEF m
    <3> QED
      BY <1>2, <2>2, <3>1, <3>2 DEF Fresh
  <2>4. ASSUME NEW t, DOMAIN t = 0 .. k - 1, t[n] = x, \A i \in 0 .. n - 1 : t[i] = s[i],
               Exchange(v, NewBlock, t, n + 1, old, "emplace_back"),
               Called("emplace_back", v, args, "ok")
        PROVE  Value!Next /\ Appends(v)
    <3>1. Read(t, 0, n + 1) = Append(e, x)
      <4>1. /\ 0 .. n \subseteq DOMAIN t /\ n = Len(e) /\ e \in Seq(S)
            /\ \A i \in 0 .. n - 1 : t[i] = e[i + 1] /\ t[i] # Raw
        BY <1>2, <2>2, <2>4
      <4>2. x \in S /\ t[n] = x /\ x # Raw
        BY <1>4, <2>4
      <4> QED
        BY ONLY <4>1, <4>2, OneMore
    <3>2. alive' = alive /\ alive' = alive \cup {v}
      BY <1>9
    <3> HIDE DEF old
    <3>3. Alters({v}) /\ Seen(v)' = Read(t, 0, n + 1)
      BY <1>5, <2>4, <3>2, ExchangeView
    <3>4. Called("emplace_back", v, Given(v, arg), "ok")
      BY <1>3, <2>4
    <3>5. PICK r : r = Read(t, 0, n + 1)
      OBVIOUS
    <3> QED
      BY <1>1, <1>3, <3>1, <3>2, <3>3, <3>4, <3>5, AppendedRight
  <2>5. CASE EmplaceBackRelocateFirst(v, arg, k)
    <3> DEFINE y == Through(arg, IF ty.triv THEN s ELSE old)
               t == Construct(m, n, <<y>>)
    <3>1. /\ Exchange(v, NewBlock, t, n + 1, old, "emplace_back")
          /\ Called("emplace_back", v, args, "ok")
          /\ ty.nctor /\ NothrowRelocate(ty)
      BY <1>1, <1>3, <2>2, <2>5 DEF EmplaceBackRelocateFirst
    <3>2. CASE y = x
      <4>1. DOMAIN t = 0 .. k - 1 /\ t[n] = x /\ \A i \in 0 .. n - 1 : t[i] = s[i]
        <5> HIDE DEF m, y
        <5>1. n \in 0 .. k - 1 /\ k \in Int
          BY <1>2, <2>2
        <5>2. Puts(m, k, n, x, t)
          <6>1. t = Construct(m, n, <<x>>) /\ DOMAIN m = 0 .. k - 1 /\ m[n] = Raw
            BY <2>3, <3>2
          <6> HIDE DEF t
          <6> QED
            BY <5>1, <6>1, BuiltOne
        <5> HIDE DEF t
        <5> QED
          BY <1>2, <2>2, <2>3, <5>2 DEF Puts
      <4> HIDE DEF t, old
      <4> QED
        BY <2>4, <3>1, <4>1
    <3>3. CASE y # x
      <4>1. ~ty.triv /\ arg.kind # "value"
        BY <1>1, <1>3, <3>3 DEF Through, Passed
      <4>2. RelocatesFirst
        BY <3>1, <4>1 DEF RelocatesFirst, NothrowRelocate
      <4>3. args[Len(args)] = "own"
        BY <1>3, <4>1, PassedWorth
      <4> HIDE DEF t, old
      <4>4. alive' = alive /\ alive' = alive \cup {v}
        BY <1>9
      <4>5. Alters({v}) /\ Seen(v)' = Read(t, 0, n + 1) /\ Data(v)' # Data(v)
        BY <1>5, <3>1, <4>4, ExchangeView
      <4>6. Appends(v)
        BY <4>2, <4>5 DEF Appends
      <4>7. PICK r : r = Read(t, 0, n + 1)
        OBVIOUS
      <4>8. Len(r) = n + 1
        BY <1>2, <4>7 DEF Read
      <4>9. Len(r) = Len(Elements(v)) + 1
        BY <1>1, <1>2, <4>8
      <4> QED
        BY <3>1, <4>3, <4>4, <4>5, <4>6, <4>7, <4>9, ValueOwn
    <3> QED
      BY <3>2, <3>3
  <2>6. CASE EmplaceBackConstructFirst(v, arg, k)
    <3> DEFINE el == Construct(Blank(k), n, <<x>>)
               t == Construct(el, 0, e)
    <3>1. CASE Unwind(NewBlock, Blank(k), FALSE, "emplace_back")
               /\ Called("emplace_back", v, args, "threw")
      BY <1>9, <3>1, UnwindView, AppendedNothing
    <3>2. CASE \E fate \in RelocateFate(ty, n) \ {"ok"} : \E u :
                 Unwind(NewBlock, u, FALSE, "emplace_back")
                 /\ Called("emplace_back", v, args, fate)
      BY <1>9, <3>2, Fates, UnwindView, AppendedNothing
    <3>3. CASE /\ Exchange(v, NewBlock, t, n + 1, old, "emplace_back")
               /\ Called("emplace_back", v, args, "ok")
      <4>1. DOMAIN el = 0 .. k - 1 /\ el[n] = x /\ \A i \in 0 .. n - 1 : el[i] = Raw
        <5>1. n \in 0 .. k - 1 /\ k \in Int
          BY <1>2, <2>2
        <5>2. DOMAIN Blank(k) = 0 .. k - 1 /\ \A i \in 0 .. k - 1 : Blank(k)[i] = Raw
          BY DEF Blank
        <5>3. Puts(Blank(k), k, n, x, el)
          BY <5>1, <5>2, BuiltOne
        <5> HIDE DEF el
        <5> QED
          BY <1>2, <2>2, <5>2, <5>3 DEF Puts
      <4>2. DOMAIN t = 0 .. k - 1 /\ t[n] = x /\ \A i \in 0 .. n - 1 : t[i] = s[i]
        <5> HIDE DEF el
        <5>1. PICK z : z = 0
          OBVIOUS
        <5>2. Builds(el, k, z, e, t)
          <6>1. t = Construct(el, z, e) /\ z \in Int /\ k \in Int /\ Len(e) \in Nat
                /\ DOMAIN el = 0 .. k - 1
            BY <1>2, <2>2, <4>1, <5>1
          <6> HIDE DEF t
          <6> QED
            BY <6>1, Built
        <5> HIDE DEF t
        <5> QED
          BY <1>2, <2>2, <4>1, <5>1, <5>2 DEF Builds
      <4> HIDE DEF t, old
      <4> QED
        BY <2>4, <3>3, <4>2
    <3> QED
      BY <1>1, <1>3, <2>2, <2>6, <3>1, <3>2, <3>3 DEF EmplaceBackConstructFirst
  <2> QED
    BY <1>9, <2>1, <2>5, <2>6
<1> QED
  BY <1>1, <1>3, <1>7, <1>8, <1>9 DEF EmplaceBack

\* A call that writes the right sequence into the storage v has.
LEMMA WriteEdits ==
  ASSUME Good, NEW v \in alive, NEW t, NEW m, Write(v, t, m), IsBlock(t, Capacity(v)),
         NEW op, NEW args, Called(op, v, args, "ok"), NEW e, e = Elements(v),
         NEW S, NEW r, r \in Seq(S), m = Len(r), Holds(t, r), Yields(op, args, e, r)
  PROVE  Value!Next
<1>1. Alters({v}) /\ alive' = alive /\ Seen(v)' = Read(t, 0, m)
  BY WriteView
<1>2. Read(t, 0, Len(r)) = r
  BY ReadHeld
<1> QED
  BY <1>1, <1>2, ValueEdits

\* A call that puts the right sequence into a new block.
LEMMA ExchangeEdits ==
  ASSUME Good, NEW v \in alive, NEW t, NEW m, NEW old, UNCHANGED <<ty, alive>>,
         NEW op, Exchange(v, NewBlock, t, m, old, op),
         NEW args, Called(op, v, args, "ok"), NEW e, e = Elements(v),
         NEW S, NEW r, r \in Seq(S), m = Len(r), Holds(t, r), Yields(op, args, e, r)
  PROVE  Value!Next
<1>1. v \in Vecs /\ alive' = alive /\ alive' = alive \cup {v}
  BY OfVector
<1>2. Alters({v}) /\ Seen(v)' = Read(t, 0, m)
  BY <1>1, ExchangeView
<1>3. Read(t, 0, Len(r)) = r
  BY ReadHeld
<1> QED
  BY <1>1, <1>2, <1>3, ValueEdits

\* A call that changes nothing and fails.
LEMMA QuietFails ==
  ASSUME Good, NEW op, NEW v, NEW args, NEW out, Unchanged(op, v, args, out),
         out \in {"out_of_storage", "invalid_source_range", "threw", "terminated"}
  PROVE  Value!Next
<1>1. last'.out = out
  BY DEF Unchanged, Called
<1> QED
  BY <1>1, QuietView, ValueFails

\* A call that changes nothing and succeeds.
LEMMA QuietEdits ==
  ASSUME Good, NEW v \in alive, NEW op, NEW args, Unchanged(op, v, args, "ok"),
         NEW e, e = Elements(v), Yields(op, args, e, e)
  PROVE  Value!Next
<1>1. UNCHANGED <<ty, alive, vec, heap, mem, leaked>> /\ Called(op, v, args, "ok")
  BY DEF Unchanged
<1>2. Alters({v}) /\ Seen(v)' = e
  BY <1>1 DEF Alters, Seen, Elements, Slots, Data, IsDynamic, Size
<1> QED
  BY <1>1, <1>2, ValueEdits

\* A call that gives up a new block and fails.
LEMMA UnwindFails ==
  ASSUME Good, UNCHANGED <<ty, alive>>, NEW new, NEW noop, NEW op,
         Unwind(NewBlock, new, noop, op), NEW v, NEW args, NEW out, Called(op, v, args, out),
         out \in {"threw", "terminated"}
  PROVE  Value!Next
<1>1. last'.out = out
  BY DEF Called
<1> QED
  BY <1>1, UnwindView, ValueFails

\* A call that writes something and throws.
LEMMA WriteFails ==
  ASSUME Good, NEW v \in alive, NEW t, NEW m, Write(v, t, m), IsBlock(t, Capacity(v)),
         NEW op \in {"emplace", "insert", "erase", "erase_range", "assign_copy"},
         NEW args, NEW out \in {"threw", "terminated"}, Called(op, v, args, out)
  PROVE  Value!Next
<1>1. Alters({v}) /\ alive' = alive /\ v \in Vecs
  BY WriteView, OfVector
<1>2. last'.v = v /\ last'.out = out /\ last'.op = op
  BY DEF Called
<1> QED
  BY <1>1, <1>2, ValueBasic

-------------------------------------------------------------------------------
(* What the operators of SlotMemory make of each slot.                         *)

\* Block s of capacity c becomes t when xs is assigned to the objects from slot a on.
Assigns(s, c, a, xs, t) ==
  /\ DOMAIN t = 0 .. c - 1
  /\ \A i \in 0 .. c - 1 :
       /\ i < a \/ a + Len(xs) <= i => t[i] = s[i]
       /\ a <= i /\ i < a + Len(xs) /\ s[i] # Raw => t[i] = xs[i - a + 1]

\* Objects assigned from slot a on.
LEMMA Assigned ==
  ASSUME NEW s, NEW c, c \in Int, DOMAIN s = 0 .. c - 1, NEW a, a \in Int,
         NEW xs, Len(xs) \in Nat, NEW t, t = Assign(s, a, xs)
  PROVE  Assigns(s, c, a, xs, t)
<1>1. PICK k : k = Len(xs)
  OBVIOUS
<1>2. t = [i \in 0 .. c - 1 |-> IF i \in Span(a, a + k)
                                 THEN IF s[i] # Raw THEN xs[i - a + 1] ELSE Bad ELSE s[i]]
  BY <1>1 DEF Assign
<1>3. \A i \in 0 .. c - 1 : i \in Span(a, a + k) <=> a <= i /\ i < a + k
  BY <1>1 DEF Span
<1>4. ASSUME NEW i \in 0 .. c - 1
      PROVE  (a <= i /\ i < a + k) <=> ~(i < a \/ a + k <= i)
  BY <1>1
<1> QED
  BY <1>1, <1>2, <1>3, <1>4 DEF Assigns

\* One object assigned.
LEMMA AssignedOne ==
  ASSUME NEW s, NEW c, c \in Int, DOMAIN s = 0 .. c - 1, NEW a, a \in 0 .. c - 1, s[a] # Raw,
         NEW x, NEW t, t = Assign(s, a, <<x>>)
  PROVE  Puts(s, c, a, x, t)
<1>1. PICK xs : xs = <<x>>
  OBVIOUS
<1>2. Len(xs) = 1 /\ xs[1] = x /\ t = Assign(s, a, xs) /\ a \in Int /\ Len(xs) \in Nat
  BY <1>1
<1>3. Assigns(s, c, a, xs, t)
  BY ONLY c \in Int, DOMAIN s = 0 .. c - 1, <1>2, Assigned
<1>4. t[a] = xs[a - a + 1] /\ a - a + 1 = 1
  <2>1. a \in 0 .. c - 1 /\ a <= a /\ a < a + Len(xs) /\ a - a + 1 = 1
    BY <1>2
  <2> QED
    BY <1>3, <2>1 DEF Assigns
<1>5. \A i \in 0 .. c - 1 : i # a => i < a \/ a + 1 <= i
  BY <1>2
<1>6. \A i \in 0 .. c - 1 : i # a => t[i] = s[i]
  BY <1>2, <1>3, <1>5 DEF Assigns
<1> QED
  BY <1>2, <1>3, <1>4, <1>6 DEF Assigns, Puts

\* Block s becomes t when the objects in the slots a..b-1 are destroyed.
Destroys(s, c, a, b, t) ==
  DOMAIN t = 0 .. c - 1 /\ \A i \in 0 .. c - 1 : i < a \/ b <= i => t[i] = s[i]

\* Objects destroyed in a range of slots.
LEMMA Destroyed ==
  ASSUME NEW s, NEW c, c \in Int, DOMAIN s = 0 .. c - 1, NEW a, a \in Int, NEW b, b \in Int,
         NEW t, t = Destroy(s, a, b)
  PROVE  Destroys(s, c, a, b, t)
<1>1. t = [i \in 0 .. c - 1 |-> IF i \in Span(a, b) THEN IF s[i] # Raw THEN Raw ELSE Bad ELSE s[i]]
  BY DEF Destroy
<1>2. \A i \in 0 .. c - 1 : i < a \/ b <= i => i \notin Span(a, b)
  BY DEF Span
<1> QED
  BY <1>1, <1>2 DEF Destroys

\* Block s becomes t when n objects from slot a on are move-assigned to those from d on.
MovesIn(s, c, a, n, d, t) ==
  /\ DOMAIN t = 0 .. c - 1
  /\ \A i \in 0 .. c - 1 :
       /\ d <= i /\ i < d + n /\ s[i] # Raw /\ i - d + a \in 0 .. c - 1 /\ s[i - d + a] # Raw
            => t[i] = s[i - d + a]
       /\ (i < d \/ d + n <= i) /\ (i < a \/ a + n <= i) => t[i] = s[i]
       /\ (i < d \/ d + n <= i) /\ a <= i /\ i < a + n /\ s[i] # Raw => t[i] = Moved

\* Objects moved to objects of the same block.
LEMMA MovedIn ==
  ASSUME NEW s, NEW c, c \in Int, DOMAIN s = 0 .. c - 1, NEW a, a \in Int,
         NEW n, n \in Int, NEW d, d \in Int, NEW t, t = MoveWithin(s, a, n, d)
  PROVE  MovesIn(s, c, a, n, d, t)
<1>1. t = [i \in 0 .. c - 1 |->
             IF i \in Span(d, d + n) THEN IF s[i] # Raw THEN Get(s, i - d + a) ELSE Bad
             ELSE IF i \in Span(a, a + n) /\ s[i] # Raw THEN Moved
             ELSE s[i]]
  BY DEF MoveWithin
<1>2. \A i \in 0 .. c - 1 : /\ i \in Span(a, a + n) <=> a <= i /\ i < a + n
                            /\ i \in Span(d, d + n) <=> d <= i /\ i < d + n
  BY DEF Span
<1>3. \A i \in 0 .. c - 1 : i - d + a \in 0 .. c - 1 /\ s[i - d + a] # Raw
                              => Get(s, i - d + a) = s[i - d + a]
  BY DEF Get
<1>4. DOMAIN t = 0 .. c - 1
  BY <1>1
<1>5. ASSUME NEW i \in 0 .. c - 1
      PROVE  t[i] = IF d <= i /\ i < d + n THEN IF s[i] # Raw THEN Get(s, i - d + a) ELSE Bad
                    ELSE IF a <= i /\ i < a + n /\ s[i] # Raw THEN Moved
                    ELSE s[i]
  BY <1>1, <1>2
<1>6. ASSUME NEW i \in 0 .. c - 1
      PROVE  /\ (d <= i /\ i < d + n) <=> ~(i < d \/ d + n <= i)
             /\ (a <= i /\ i < a + n) <=> ~(i < a \/ a + n <= i)
  OBVIOUS
<1> QED
  BY <1>3, <1>4, <1>5, <1>6 DEF MovesIn

\* Block s becomes t when n objects are moved from slot a on to raw slots from d on.
MovesOut(s, c, a, n, d, t) ==
  /\ DOMAIN t = 0 .. c - 1
  /\ \A i \in 0 .. c - 1 :
       /\ d <= i /\ i < d + n /\ s[i] = Raw /\ i - d + a \in 0 .. c - 1 /\ s[i - d + a] # Raw
            => t[i] = s[i - d + a]
       /\ (i < d \/ d + n <= i) /\ (i < a \/ a + n <= i) => t[i] = s[i]
       /\ (i < d \/ d + n <= i) /\ a <= i /\ i < a + n /\ s[i] # Raw => t[i] = Moved

\* Objects moved to slots where none lived.
LEMMA MovedOut ==
  ASSUME NEW s, NEW c, c \in Int, DOMAIN s = 0 .. c - 1, NEW a, a \in Int,
         NEW n, n \in Nat, NEW d, d \in Int, NEW t, t = MoveToRaw(s, a, n, d)
  PROVE  MovesOut(s, c, a, n, d, t)
<1>1. PICK q, xs : q = LeaveMoved(s, a, a + n) /\ xs = Read(s, a, n)
  OBVIOUS
<1>2. /\ DOMAIN q = 0 .. c - 1
      /\ \A i \in 0 .. c - 1 : /\ s[i] = Raw \/ i < a \/ a + n <= i => q[i] = s[i]
                               /\ a <= i /\ i < a + n /\ s[i] # Raw => q[i] = Moved
  <2>1. q = [i \in 0 .. c - 1 |-> IF i \in Span(a, a + n) /\ s[i] # Raw THEN Moved ELSE s[i]]
    BY <1>1 DEF LeaveMoved
  <2>2. \A i \in 0 .. c - 1 : i \in Span(a, a + n) <=> a <= i /\ i < a + n
    BY DEF Span
  <2>3. \A i \in 0 .. c - 1 : i < a \/ a + n <= i => ~(a <= i /\ i < a + n)
    OBVIOUS
  <2> QED
    BY <2>1, <2>2, <2>3
<1>3. n = Len(xs) /\ \A j \in 1 .. n : xs[j] = Get(s, a + j - 1)
  BY <1>1 DEF Read
<1>4. Builds(q, c, d, xs, t)
  <2>1. t = Construct(q, d, xs) /\ DOMAIN q = 0 .. c - 1 /\ Len(xs) \in Nat
    BY <1>1, <1>2, <1>3 DEF MoveToRaw
  <2> QED
    BY ONLY c \in Int, d \in Int, <2>1, Built
<1>5. /\ DOMAIN t = 0 .. c - 1
      /\ \A i \in 0 .. c - 1 : i < d \/ d + n <= i => t[i] = q[i]
      /\ \A i \in 0 .. c - 1 : d <= i /\ i < d + n /\ q[i] = Raw => t[i] = xs[i - d + 1]
  BY <1>3, <1>4 DEF Builds
<1>6. \A i \in 0 .. c - 1 : d <= i /\ i < d + n =>
        i - d + 1 \in 1 .. n /\ a + (i - d + 1) - 1 = i - d + a
  OBVIOUS
<1>7. \A i \in 0 .. c - 1 : i - d + a \in 0 .. c - 1 /\ s[i - d + a] # Raw
                              => Get(s, i - d + a) = s[i - d + a]
  BY DEF Get
<1>8. ASSUME NEW i \in 0 .. c - 1, d <= i, i < d + n, s[i] = Raw, i - d + a \in 0 .. c - 1,
             s[i - d + a] # Raw
      PROVE  t[i] = s[i - d + a]
  <2>1. t[i] = xs[i - d + 1]
    BY <1>2, <1>5, <1>8
  <2> QED
    BY <1>3, <1>6, <1>7, <1>8, <2>1
<1> QED
  BY <1>2, <1>5, <1>8 DEF MovesOut

\* The arguments of emplace.
LEMMA EmplaceArgs ==
  ASSUME Good, NEW v \in alive, NEW arg \in ArgsOf(v), NEW pos,
         NEW args, args = <<pos>> \o Given(v, arg)
  PROVE  /\ args[1] = pos /\ args[2] = Passed(v, arg)
         /\ arg.kind # "value" => args[Len(args)] = "own"
<1>1. PICK x, g : x = Passed(v, arg) /\ g = Given(v, arg)
  OBVIOUS
<1>2. CASE arg.kind = "value"
  <2>1. g = <<x>>
    <3>1. g = <<x>> \o <<>>
      BY <1>1, <1>2 DEF Given
    <3> QED
      BY <3>1
  <2>2. \A p, y : LET h == <<p>> \o <<y>> IN h[1] = p /\ h[2] = y
    OBVIOUS
  <2>3. args = <<pos>> \o <<x>>
    BY <1>1, <2>1
  <2> QED
    BY ONLY <1>1, <1>2, <2>2, <2>3
<1>3. CASE arg.kind # "value"
  <2>1. \A p, y : LET h == <<p>> \o (<<y>> \o <<"own">>)
                  IN  h[1] = p /\ h[2] = y /\ Len(h) = 3 /\ h[3] = "own"
    OBVIOUS
  <2>2. g = <<x>> \o <<"own">>
    BY <1>1, <1>3 DEF Given
  <2>3. args = <<pos>> \o (<<x>> \o <<"own">>)
    BY <1>1, <2>2
  <2> QED
    BY ONLY <1>1, <2>1, <2>3
<1> QED
  BY <1>2, <1>3

\* emplace at the end.
LEMMA EmplaceAtEndRefines ==
  ASSUME Good, NEW v \in alive, NEW arg \in ArgsOf(v), Size(v) < Capacity(v),
         EmplaceAtEnd(v, arg)
  PROVE  Value!Next
<1>1. PICK n, c, s, e, S : /\ n = Size(v) /\ c = Capacity(v) /\ s = Slots(v)
                           /\ e = Elements(v) /\ S = Worths(v)
  OBVIOUS
<1>2. /\ n \in Nat /\ c \in Nat /\ n < c /\ c <= MaxSize /\ DOMAIN s = 0 .. c - 1
      /\ IsBlock(s, c)
      /\ e \in Seq(S) /\ Len(e) = n /\ Vals \subseteq S
      /\ \A i \in 0 .. n - 1 : s[i] = e[i + 1] /\ s[i] # Raw /\ s[i] # Bad
      /\ \A i \in n .. c - 1 : s[i] = Raw
  BY <1>1, OfSlots
<1>3. PICK x, args : x = Passed(v, arg) /\ args = <<n>> \o Given(v, arg)
  OBVIOUS
<1>4. x \in S /\ x # Raw /\ args[1] = n /\ args[2] = x
  BY <1>1, <1>3, PassedWorth, EmplaceArgs DEF Living
<1>5. ToSize(n + 1) = n + 1
  BY <1>2, Truncated, Constants DEF Sizes
<1>6. PICK t : t = Construct(s, n, <<x>>)
  OBVIOUS
<1>7. PICK fate \in ArgFate(ty) :
        \/ fate = "ok" /\ Write(v, t, n + 1) /\ Called("emplace", v, args, "ok")
        \/ fate # "ok" /\ Unchanged("emplace", v, args, fate)
  BY <1>1, <1>3, <1>5, <1>6 DEF EmplaceAtEnd
<1>8. CASE fate # "ok"
  <2>1. fate = "threw"
    BY <1>8, Fates
  <2> QED
    BY <1>7, <1>8, <2>1, QuietFails
<1>9. CASE fate = "ok"
  <2>1. Puts(s, c, n, x, t)
    <3>1. n \in 0 .. c - 1 /\ s[n] = Raw /\ c \in Int
      BY <1>2
    <3> QED
      BY <1>2, <1>6, <3>1, BuiltOne
  <2>2. IsBlock(t, c)
    BY <1>2, <1>6, SameBlock
  <2>3. PICK xs, r : xs = <<x>> /\ r = Inserted(e, n, xs)
    OBVIOUS
  <2>4. xs \in Seq(S) /\ Len(xs) = 1 /\ xs[1] = x
    BY <1>4, <2>3
  <2>5. r \in Seq(S) /\ Len(r) = n + 1 /\ Holds(t, r)
    <3>1. Spliced(t, e, n, xs)
      BY <1>2, <1>4, <2>1, <2>4 DEF Spliced, Puts
    <3> QED
      BY <1>2, <2>3, <2>4, <3>1, HoldsInserted
  <2>6. Yields("emplace", args, e, r)
    BY <1>4, <2>3 DEF Yields
  <2>7. Write(v, t, n + 1) /\ Called("emplace", v, args, "ok") /\ IsBlock(t, Capacity(v))
    BY <1>1, <1>7, <1>9, <2>2
  <2>8. PICK m : m = n + 1
    OBVIOUS
  <2> QED
    BY <1>1, <2>5, <2>6, <2>7, <2>8, WriteEdits
<1> QED
  BY <1>8, <1>9

\* The slots when the elements from pos on have been moved up by one.
MovesUp(s, c, n, pos, t) ==
  /\ DOMAIN t = 0 .. c - 1 /\ t[pos] # Raw
  /\ \A i \in 0 .. pos - 1 : t[i] = s[i]
  /\ \A i \in pos + 1 .. n : t[i] = s[i - 1]

\* emplace opens slot pos: the last element is moved to raw storage, the others to objects.
LEMMA MovedUp ==
  ASSUME Good, NEW s, NEW c, c \in Nat, DOMAIN s = 0 .. c - 1, NEW n, n \in Nat, n < c,
         NEW pos, pos \in 0 .. n - 1, \A i \in 0 .. n - 1 : s[i] # Raw, s[n] = Raw,
         NEW opened, NEW shifted,
         opened = IF ty.nmove THEN MoveToRaw(s, n - 1, 1, n - 1 + 1)
                              ELSE Construct(s, n - 1 + 1, Read(s, n - 1, 1)),
         shifted = MoveWithin(opened, pos, n - 1 - pos, pos + 1)
  PROVE  MovesUp(s, c, n, pos, shifted)
<1>1. PICK end, one, d : end = n - 1 /\ one = 1 /\ d = n
  OBVIOUS
<1>2. end \in Int /\ one \in Nat /\ d \in Int /\ n - 1 + 1 = d /\ c \in Int
  BY <1>1
<1>3. /\ DOMAIN opened = 0 .. c - 1 /\ opened[n] = s[n - 1] /\ opened[n - 1] # Raw
      /\ \A i \in 0 .. n - 2 : opened[i] = s[i]
  <2>1. CASE ty.nmove
    <3>1. opened = MoveToRaw(s, end, one, d)
      BY <1>1, <1>2, <2>1
    <3>2. MovesOut(s, c, end, one, d, opened)
      BY ONLY DOMAIN s = 0 .. c - 1, <1>2, <3>1, MovedOut
    <3>3. opened[n] = s[n - 1]
      <4>1. n \in 0 .. c - 1 /\ d <= n /\ n < d + one /\ n - d + end = n - 1 /\ n - 1 \in 0 .. n - 1
        BY <1>1
      <4>2. n - d + end \in 0 .. c - 1 /\ s[n - d + end] # Raw /\ s[n] = Raw
        BY <4>1
      <4> QED
        BY <3>2, <4>1, <4>2 DEF MovesOut
    <3>4. opened[n - 1] # Raw
      <4>1. n - 1 \in 0 .. c - 1 /\ n - 1 < d /\ end <= n - 1 /\ n - 1 < end + one /\ s[n - 1] # Raw
        BY <1>1
      <4> QED
        BY <3>2, <4>1, SlotAssumption DEF MovesOut
    <3>5. ASSUME NEW i \in 0 .. n - 2 PROVE opened[i] = s[i]
      <4>1. i \in 0 .. c - 1 /\ i < d /\ i < end
        BY <1>1
      <4> QED
        BY <3>2, <4>1 DEF MovesOut
    <3> QED
      BY <3>2, <3>3, <3>4, <3>5 DEF MovesOut
  <2>2. CASE ~ty.nmove
    <3>1. PICK xs : xs = Read(s, end, one)
      OBVIOUS
    <3>2. Len(xs) = 1 /\ xs[1] = s[n - 1]
      <4>1. end + 1 - 1 \in DOMAIN s /\ s[end + 1 - 1] # Raw /\ end + 1 - 1 = n - 1
        BY <1>1
      <4>2. xs = [j \in 1 .. 1 |-> Get(s, end + j - 1)]
        BY <1>1, <3>1 DEF Read
      <4>3. Get(s, end + 1 - 1) = s[n - 1]
        BY <4>1 DEF Get
      <4> QED
        BY <4>2, <4>3
    <3>3. Builds(s, c, d, xs, opened)
      <4>1. opened = Construct(s, d, xs) /\ Len(xs) \in Nat
        BY <1>1, <1>2, <2>2, <3>1, <3>2
      <4> QED
        BY ONLY DOMAIN s = 0 .. c - 1, <1>2, <4>1, Built
    <3>4. opened[n] = s[n - 1]
      <4>1. n \in 0 .. c - 1 /\ d <= n /\ n < d + Len(xs) /\ n - d + 1 = 1 /\ s[n] = Raw
        BY <1>1, <3>2
      <4>2. opened[n] = xs[n - d + 1]
        BY <3>3, <4>1 DEF Builds
      <4> QED
        BY <3>2, <4>1, <4>2
    <3>5. ASSUME NEW i \in 0 .. n - 1 PROVE opened[i] = s[i]
      <4>1. i \in 0 .. c - 1 /\ i < d
        BY <1>1
      <4> QED
        BY <3>3, <4>1 DEF Builds
    <3>6. n - 1 \in 0 .. n - 1 /\ \A i \in 0 .. n - 2 : i \in 0 .. n - 1
      OBVIOUS
    <3> QED
      BY <3>3, <3>4, <3>5, <3>6 DEF Builds
  <2> QED
    BY <2>1, <2>2
<1>4. PICK m, p : m = n - 1 - pos /\ p = pos + 1
  OBVIOUS
<1>5. m \in Int /\ p \in Int /\ pos \in Int /\ shifted = MoveWithin(opened, pos, m, p)
      /\ DOMAIN opened = 0 .. c - 1
  BY <1>3, <1>4
<1>6. MovesIn(opened, c, pos, m, p, shifted)
  BY ONLY <1>2, <1>5, MovedIn
<1>7. \A i \in 0 .. n : opened[i] # Raw
  <2> SUFFICES ASSUME NEW i \in 0 .. n PROVE opened[i] # Raw
    OBVIOUS
  <2>1. i = n \/ i = n - 1 \/ (i \in 0 .. n - 2 /\ i \in 0 .. n - 1)
    OBVIOUS
  <2>2. n - 1 \in 0 .. n - 1
    OBVIOUS
  <2> QED
    BY <1>3, <2>1, <2>2
<1>8. shifted[pos] # Raw
  <2>1. pos \in 0 .. c - 1 /\ pos < p /\ pos \in 0 .. n
    BY <1>4
  <2>2. (pos < pos + m) \/ (pos + m <= pos)
    BY <1>4
  <2> QED
    BY <1>6, <1>7, <2>1, <2>2, SlotAssumption DEF MovesIn
<1>9. ASSUME NEW i \in 0 .. pos - 1 PROVE shifted[i] = s[i]
  <2>1. i \in 0 .. c - 1 /\ i < p /\ i < pos /\ i \in 0 .. n - 2
    BY <1>4
  <2> QED
    BY <1>3, <1>6, <2>1 DEF MovesIn
<1>10. ASSUME NEW i \in pos + 1 .. n PROVE shifted[i] = s[i - 1]
  <2>1. CASE i = n
    <3>1. i \in 0 .. c - 1 /\ p + m <= i /\ pos + m <= i
      BY <1>4, <2>1
    <3> QED
      BY <1>3, <1>6, <2>1, <3>1 DEF MovesIn
  <2>2. CASE i # n
    <3>1. /\ i \in 0 .. c - 1 /\ p <= i /\ i < p + m /\ i \in 0 .. n
          /\ i - p + pos = i - 1 /\ i - 1 \in 0 .. c - 1 /\ i - 1 \in 0 .. n - 2 /\ i - 1 \in 0 .. n
      BY <1>4, <2>2
    <3> QED
      BY ONLY <1>3, <1>6, <1>7, <3>1 DEF MovesIn
  <2> QED
    BY <2>1, <2>2
<1> QED
  BY <1>6, <1>8, <1>9, <1>10 DEF MovesUp, MovesIn

\* emplace before the end.
LEMMA EmplaceShiftRefines ==
  ASSUME Good, NEW v \in alive, NEW arg \in ArgsOf(v), NEW pos \in Positions(v),
         pos # Size(v), Size(v) < Capacity(v), EmplaceShift(v, pos, arg)
  PROVE  Value!Next
<1>1. PICK n, c, s, e, S : /\ n = Size(v) /\ c = Capacity(v) /\ s = Slots(v)
                           /\ e = Elements(v) /\ S = Worths(v)
  OBVIOUS
<1>2. /\ n \in Nat /\ c \in Nat /\ n < c /\ c <= MaxSize /\ DOMAIN s = 0 .. c - 1
      /\ IsBlock(s, c)
      /\ e \in Seq(S) /\ Len(e) = n /\ Vals \subseteq S
      /\ \A i \in 0 .. n - 1 : s[i] = e[i + 1] /\ s[i] # Raw /\ s[i] # Bad
      /\ \A i \in n .. c - 1 : s[i] = Raw
  BY <1>1, OfSlots
<1>3. PICK x, args : x = Passed(v, arg) /\ args = <<pos>> \o Given(v, arg)
  OBVIOUS
<1>4. /\ x \in S /\ x # Raw /\ args[1] = pos /\ args[2] = x
      /\ arg.kind # "value" => args[Len(args)] = "own"
  BY <1>1, <1>3, PassedWorth, EmplaceArgs DEF Living
<1>5. ToSize(n + 1) = n + 1 /\ pos \in 0 .. n - 1
  BY <1>1, <1>2, Truncated, Constants DEF Sizes, Positions
<1>6. PICK opened, shifted :
        /\ opened = IF ty.nmove THEN MoveToRaw(s, n - 1, 1, n - 1 + 1)
                                ELSE Construct(s, n - 1 + 1, Read(s, n - 1, 1))
        /\ shifted = MoveWithin(opened, pos, n - 1 - pos, pos + 1)
  OBVIOUS
<1>7. PICK y, t : y = Through(arg, shifted) /\ t = Assign(shifted, pos, <<y>>)
  OBVIOUS
<1>8. \/ \E fate \in MoveIfNoexceptFate(ty, 1) \ {"ok"} : Unchanged("emplace", v, args, fate)
      \/ Write(v, t, n + 1) /\ Called("emplace", v, args, "ok")
      \/ Write(v, shifted, n + 1) /\ Called("emplace", v, args, "threw")
      \/ \E k \in Span(0, n - 1 - pos) :
            /\ Write(v, MoveWithin(opened, n - 1 - k, k, n - 1 - k + 1), n + 1)
            /\ Called("emplace", v, args, "threw")
  BY <1>1, <1>3, <1>5, <1>6, <1>7 DEF EmplaceShift
<1>9. IsBlock(opened, c) /\ IsBlock(shifted, c) /\ IsBlock(t, c)
  BY <1>2, <1>6, <1>7, SameBlock
<1>10. CASE \E fate \in MoveIfNoexceptFate(ty, 1) \ {"ok"} : Unchanged("emplace", v, args, fate)
  BY <1>10, Fates, QuietFails
<1>11. CASE \/ Write(v, shifted, n + 1) /\ Called("emplace", v, args, "threw")
            \/ \E k \in Span(0, n - 1 - pos) :
                  /\ Write(v, MoveWithin(opened, n - 1 - k, k, n - 1 - k + 1), n + 1)
                  /\ Called("emplace", v, args, "threw")
  <2>1. \E q : IsBlock(q, c) /\ Write(v, q, n + 1) /\ Called("emplace", v, args, "threw")
    BY <1>9, <1>11, SameBlock
  <2>2. PICK q : IsBlock(q, Capacity(v)) /\ Write(v, q, n + 1) /\ Called("emplace", v, args, "threw")
    BY <1>1, <2>1
  <2> QED
    BY <2>2, WriteFails
<1>12. CASE Write(v, t, n + 1) /\ Called("emplace", v, args, "ok")
  <2>1. CASE arg.kind # "value"
    <3>1. Alters({v}) /\ alive' = alive /\ Seen(v)' = Read(t, 0, n + 1)
      BY <1>1, <1>9, <1>12, WriteView
    <3>2. PICK r : r = Read(t, 0, n + 1)
      OBVIOUS
    <3>3. Len(r) = Len(Elements(v)) + 1
      BY <1>1, <1>2, <3>2 DEF Read
    <3> QED
      BY <1>4, <1>12, <2>1, <3>1, <3>2, <3>3, ValueOwn
  <2>2. CASE arg.kind = "value"
    <3>1. y = x
      BY <1>3, <1>7, <2>2 DEF Through, Passed
    <3>2. MovesUp(s, c, n, pos, shifted)
      <4>1. s[n] = Raw /\ n < c /\ \A i \in 0 .. n - 1 : s[i] # Raw
        BY <1>2
      <4> QED
        BY <1>2, <1>5, <1>6, <4>1, MovedUp
    <3>3. Puts(shifted, c, pos, x, t)
      <4>1. /\ pos \in 0 .. c - 1 /\ c \in Int /\ t = Assign(shifted, pos, <<x>>)
            /\ DOMAIN shifted = 0 .. c - 1 /\ shifted[pos] # Raw
        BY <1>2, <1>5, <1>7, <3>1, <3>2 DEF MovesUp
      <4> QED
        BY ONLY <4>1, AssignedOne
    <3>4. PICK xs, r : xs = <<x>> /\ r = Inserted(e, pos, xs)
      OBVIOUS
    <3>5. xs \in Seq(S) /\ Len(xs) = 1 /\ xs[1] = x
      BY <1>4, <3>4
    <3>6. Spliced(t, e, pos, xs)
      <4>1. 0 .. n + 1 - 1 \subseteq DOMAIN t
        BY <1>2, <3>3 DEF Puts
      <4>2. ASSUME NEW i \in 0 .. pos - 1 PROVE t[i] = e[i + 1] /\ t[i] # Raw
        <5>1. i \in 0 .. c - 1 /\ i \in 0 .. n - 1 /\ i # pos
          BY <1>2, <1>5
        <5>2. t[i] = s[i]
          BY <3>2, <3>3, <5>1 DEF Puts, MovesUp
        <5> QED
          BY <1>2, <5>1, <5>2
      <4>3. \A i \in pos .. pos + 1 - 1 : t[i] = xs[i - pos + 1] /\ t[i] # Raw
        <5>1. pos \in Int
          BY <1>5
        <5>2. \A i \in pos .. pos + 1 - 1 : i = pos /\ i - pos + 1 = 1
          BY ONLY <5>1
        <5>3. t[pos] = x
          BY <3>3 DEF Puts
        <5> QED
          BY ONLY <1>4, <3>5, <5>2, <5>3
      <4>4. \A i \in pos + 1 .. n + 1 - 1 : t[i] = e[i - 1 + 1] /\ t[i] # Raw
        <5> SUFFICES ASSUME NEW i \in pos + 1 .. n + 1 - 1
                     PROVE  t[i] = e[i - 1 + 1] /\ t[i] # Raw
          OBVIOUS
        <5>1. i \in pos + 1 .. n /\ i \in 0 .. c - 1 /\ i # pos /\ i - 1 \in 0 .. n - 1
          BY <1>2, <1>5
        <5>2. t[i] = s[i - 1]
          BY <3>2, <3>3, <5>1 DEF Puts, MovesUp
        <5> QED
          BY <1>2, <5>1, <5>2
      <4> QED
        BY <1>2, <3>5, <4>1, <4>2, <4>3, <4>4 DEF Spliced
    <3>7. r \in Seq(S) /\ Len(r) = n + 1 /\ Holds(t, r)
      <4>1. pos \in 0 .. Len(e) /\ e \in Seq(S) /\ xs \in Seq(S) /\ r = Inserted(e, pos, xs)
        BY <1>2, <1>5, <3>4, <3>5
      <4>2. r \in Seq(S) /\ Len(r) = Len(e) + Len(xs) /\ Holds(t, r)
        BY ONLY <3>6, <4>1, HoldsInserted
      <4> QED
        BY <1>2, <3>5, <4>2
    <3>8. Yields("emplace", args, e, r)
      BY <1>4, <3>4 DEF Yields
    <3>9. Write(v, t, n + 1) /\ Called("emplace", v, args, "ok") /\ IsBlock(t, Capacity(v))
      BY <1>1, <1>9, <1>12
    <3>10. PICK m : m = n + 1
      OBVIOUS
    <3> QED
      BY <1>1, <3>7, <3>8, <3>9, <3>10, WriteEdits
  <2> QED
    BY <2>1, <2>2
<1> QED
  BY <1>8, <1>10, <1>11, <1>12

\* New storage with the sequence xs between the elements below and above pos.
LEMMA PartedHolds ==
  ASSUME Good, NEW v \in alive, NEW pos \in Positions(v),
         NEW xs, NEW u, u = Len(xs), u \in Nat, \A j \in 1 .. u : xs[j] # Raw,
         NEW k \in Nat, Size(v) + u <= k,
         NEW el, el = Construct(Blank(k), pos, xs),
         NEW lower, lower = Construct(el, 0, Read(Slots(v), 0, pos)),
         NEW t, t = Construct(lower, pos + u, Read(Slots(v), pos, Size(v) - pos))
  PROVE  Spliced(t, Elements(v), pos, xs)
<1>1. PICK n, c, s, e, S : /\ n = Size(v) /\ c = Capacity(v) /\ s = Slots(v)
                           /\ e = Elements(v) /\ S = Worths(v)
  OBVIOUS
<1>2. /\ n \in Nat /\ DOMAIN s = 0 .. c - 1 /\ n <= c /\ c \in Nat /\ Len(e) = n
      /\ Occupied(s, c, Span(0, n))
      /\ \A i \in 0 .. n - 1 : s[i] = e[i + 1] /\ s[i] # Raw
  BY <1>1, OfSlots
<1>3. pos \in Nat /\ u \in Nat /\ pos <= n /\ n + u <= k /\ pos \in Int /\ k \in Int
  BY <1>1, <1>2 DEF Positions
<1>4. PICK a, b, d : a = Read(s, 0, pos) /\ b = Read(s, pos, d) /\ d = n - pos
  OBVIOUS
<1>5. /\ Len(a) = pos /\ \A j \in 1 .. pos : a[j] = e[j]
      /\ Len(b) = d /\ \A j \in 1 .. d : b[j] = e[pos + j]
  <2>1. ASSUME NEW f \in Nat, NEW m \in Nat, f + m <= n, NEW q, q = Read(s, f, m)
        PROVE  Len(q) = m /\ \A j \in 1 .. m : q[j] = e[f + j]
    <3>1. q = [j \in 1 .. m |-> Get(s, f + j - 1)]
      BY <2>1 DEF Read
    <3>2. ASSUME NEW j \in 1 .. m PROVE Get(s, f + j - 1) = e[f + j]
      <4>1. f + j - 1 \in 0 .. n - 1 /\ f + j - 1 \in 0 .. c - 1 /\ f + j - 1 + 1 = f + j
        BY <1>2, <2>1
      <4>2. s[f + j - 1] = e[f + j - 1 + 1] /\ s[f + j - 1] # Raw
        BY <1>2, <4>1
      <4> QED
        BY <1>2, <4>1, <4>2 DEF Get
    <3> QED
      BY <3>1, <3>2
  <2>2. Len(a) = pos /\ \A j \in 1 .. pos : a[j] = e[0 + j]
    <3>1. PICK f : f = 0
      OBVIOUS
    <3>2. f \in Nat /\ f + pos <= n /\ a = Read(s, f, pos) /\ pos \in Nat
      BY <1>3, <1>4, <3>1
    <3>3. Len(a) = pos /\ \A j \in 1 .. pos : a[j] = e[f + j]
      BY ONLY <2>1, <3>2
    <3> QED
      BY <3>1, <3>3
  <2>3. d \in Nat /\ pos + d <= n
    BY <1>2, <1>3, <1>4
  <2>4. Len(b) = d /\ \A j \in 1 .. d : b[j] = e[pos + j]
    BY <1>3, <1>4, <2>1, <2>3
  <2> QED
    BY <2>2, <2>4
<1>6. /\ DOMAIN el = 0 .. k - 1
      /\ \A i \in 0 .. k - 1 : i < pos \/ pos + u <= i => el[i] = Raw
      /\ \A i \in 0 .. k - 1 : pos <= i /\ i < pos + u => el[i] = xs[i - pos + 1]
  <2>1. Len(xs) \in Nat /\ el = Construct(Blank(k), pos, xs)
    OBVIOUS
  <2>2. Fresh(k, pos, xs, el)
    BY ONLY <1>3, <2>1, BuiltFresh
  <2> QED
    BY <2>2 DEF Fresh
<1>7. /\ DOMAIN lower = 0 .. k - 1
      /\ \A i \in 0 .. k - 1 : pos <= i => lower[i] = el[i]
      /\ \A i \in 0 .. k - 1 : i < pos /\ el[i] = Raw => lower[i] = a[i + 1]
  <2>1. PICK z : z = 0
    OBVIOUS
  <2>2. Len(a) \in Nat /\ z \in Int /\ k \in Int /\ DOMAIN el = 0 .. k - 1
        /\ lower = Construct(el, z, a)
    BY <1>1, <1>3, <1>4, <1>5, <1>6, <2>1
  <2>3. Builds(el, k, z, a, lower)
    BY ONLY <2>2, Built
  <2>4. DOMAIN lower = 0 .. k - 1
    BY <2>3 DEF Builds
  <2>5. ASSUME NEW i \in 0 .. k - 1, pos <= i PROVE lower[i] = el[i]
    <3>1. z + Len(a) <= i
      BY <1>3, <1>5, <2>1, <2>5
    <3> QED
      BY <2>3, <3>1 DEF Builds
  <2>6. ASSUME NEW i \in 0 .. k - 1, i < pos, el[i] = Raw PROVE lower[i] = a[i + 1]
    <3>1. z <= i /\ i < z + Len(a) /\ i - z + 1 = i + 1
      BY <1>3, <1>5, <2>1, <2>6
    <3> QED
      BY <2>3, <2>6, <3>1 DEF Builds
  <2> QED
    BY <2>4, <2>5, <2>6
<1>8. /\ DOMAIN t = 0 .. k - 1
      /\ \A i \in 0 .. k - 1 : i < pos + u => t[i] = lower[i]
      /\ \A i \in 0 .. k - 1 : pos + u <= i /\ i < pos + u + d /\ lower[i] = Raw
           => t[i] = b[i - (pos + u) + 1]
  <2>1. PICK p : p = pos + u
    OBVIOUS
  <2>2. Len(b) \in Nat /\ p \in Int /\ k \in Int /\ DOMAIN lower = 0 .. k - 1
        /\ t = Construct(lower, p, b)
    <3>1. Len(b) \in Nat
      BY <1>2, <1>3, <1>4, <1>5
    <3>2. t = Construct(lower, p, b)
      BY <1>1, <1>4, <2>1
    <3> QED
      BY <1>3, <1>7, <2>1, <3>1, <3>2
  <2>3. Builds(lower, k, p, b, t)
    BY ONLY <2>2, Built
  <2> QED
    BY <1>5, <2>1, <2>3 DEF Builds
<1>9. 0 .. n + u - 1 \subseteq DOMAIN t
  BY <1>2, <1>3, <1>8
<1>10. ASSUME NEW i \in 0 .. pos - 1 PROVE t[i] = e[i + 1] /\ t[i] # Raw
  <2>1. i \in 0 .. k - 1 /\ i < pos /\ i < pos + u /\ i \in 0 .. n - 1 /\ i + 1 \in 1 .. pos
    BY <1>2, <1>3
  <2>2. lower[i] = a[i + 1]
    BY <1>6, <1>7, <2>1
  <2> QED
    BY <1>2, <1>5, <1>8, <2>1, <2>2
<1>11. ASSUME NEW i \in pos .. pos + u - 1 PROVE t[i] = xs[i - pos + 1] /\ t[i] # Raw
  <2>1. i \in 0 .. k - 1 /\ pos <= i /\ i < pos + u /\ i - pos + 1 \in 1 .. u
    BY ONLY <1>2, <1>3, <1>11
  <2> QED
    BY <1>6, <1>7, <1>8, <2>1
<1>12. ASSUME NEW i \in pos + u .. n + u - 1 PROVE t[i] = e[i - u + 1] /\ t[i] # Raw
  <2>1. /\ i \in 0 .. k - 1 /\ pos + u <= i /\ i < pos + u + d /\ pos <= i
        /\ i - (pos + u) + 1 \in 1 .. d /\ pos + (i - (pos + u) + 1) = i - u + 1
        /\ i - u \in 0 .. n - 1
    BY <1>2, <1>3, <1>4
  <2>2. t[i] = b[i - (pos + u) + 1]
    BY <1>6, <1>7, <1>8, <2>1
  <2>3. t[i] = e[i - u + 1]
    BY <1>5, <2>1, <2>2
  <2> QED
    BY <1>2, <2>1, <2>3
<1> QED
  BY <1>1, <1>2, <1>9, <1>10, <1>11, <1>12 DEF Spliced

\* What a call that puts xs into the elements e at pos yields.
LEMMA YieldsInserted ==
  ASSUME Good, NEW v \in alive, NEW e, e = Elements(v), NEW pos \in Positions(v),
         NEW xs, xs \in Seq(Worths(v)), NEW t, Spliced(t, e, pos, xs),
         NEW op, NEW args, args[1] = pos,
         (op = "emplace" /\ xs = <<args[2]>>) \/ (op = "insert" /\ xs = args[2])
  PROVE  \E r : /\ r \in Seq(Worths(v)) /\ Len(r) = Size(v) + Len(xs) /\ Holds(t, r)
                /\ Yields(op, args, e, r)
<1>1. PICK n, S : n = Size(v) /\ S = Worths(v)
  OBVIOUS
<1>2. e \in Seq(S) /\ Len(e) = n /\ n \in Nat /\ pos \in 0 .. Len(e) /\ xs \in Seq(S)
  BY <1>1, OfSlots DEF Positions
<1>3. PICK r : r = Inserted(e, pos, xs)
  OBVIOUS
<1>4. r \in Seq(S) /\ Len(r) = Len(e) + Len(xs) /\ Holds(t, r)
  <2>1. Spliced(t, e, pos, xs)
    OBVIOUS
  <2> QED
    BY ONLY <1>2, <1>3, <2>1, HoldsInserted
<1>5. Yields(op, args, e, r)
  BY <1>3 DEF Yields
<1> QED
  BY <1>1, <1>2, <1>4, <1>5

\* Such a call, in the storage v has.
LEMMA WriteInserts ==
  ASSUME Good, NEW v \in alive, NEW t, NEW m, Write(v, t, m), IsBlock(t, Capacity(v)),
         NEW pos \in Positions(v), NEW xs, xs \in Seq(Worths(v)), m = Size(v) + Len(xs),
         Spliced(t, Elements(v), pos, xs),
         NEW op, NEW args, Called(op, v, args, "ok"), args[1] = pos,
         (op = "emplace" /\ xs = <<args[2]>>) \/ (op = "insert" /\ xs = args[2])
  PROVE  Value!Next
<1>1. PICK e, S : e = Elements(v) /\ S = Worths(v)
  OBVIOUS
<1>2. PICK r : /\ r \in Seq(S) /\ Len(r) = Size(v) + Len(xs) /\ Holds(t, r)
               /\ Yields(op, args, e, r)
  BY <1>1, YieldsInserted
<1> QED
  BY <1>1, <1>2, WriteEdits

\* Such a call, in a new block.
LEMMA ExchangeInserts ==
  ASSUME Good, UNCHANGED <<ty, alive>>, NEW v \in alive, NEW t, NEW m, NEW old,
         NEW pos \in Positions(v), NEW xs, xs \in Seq(Worths(v)), m = Size(v) + Len(xs),
         Spliced(t, Elements(v), pos, xs),
         NEW op, Exchange(v, NewBlock, t, m, old, op),
         NEW args, Called(op, v, args, "ok"), args[1] = pos,
         (op = "emplace" /\ xs = <<args[2]>>) \/ (op = "insert" /\ xs = args[2])
  PROVE  Value!Next
<1>1. PICK e, S : e = Elements(v) /\ S = Worths(v)
  OBVIOUS
<1>2. PICK r : /\ r \in Seq(S) /\ Len(r) = Size(v) + Len(xs) /\ Holds(t, r)
               /\ Yields(op, args, e, r)
  BY <1>1, YieldsInserted
<1> QED
  BY <1>1, <1>2, ExchangeEdits

\* emplace into new storage.
LEMMA EmplaceReallocRefines ==
  ASSUME Good, UNCHANGED <<ty, alive>>, NEW v \in alive, NEW arg \in ArgsOf(v),
         NEW pos \in Positions(v), NEW k, k \in Nat, Size(v) + 1 <= k, Size(v) + 1 \in Sizes,
         EmplaceRealloc(v, pos, arg, k)
  PROVE  Value!Next
<1>1. PICK n, s, x, args, xs : /\ n = Size(v) /\ s = Slots(v) /\ x = Passed(v, arg)
                               /\ args = <<pos>> \o Given(v, arg) /\ xs = <<x>>
  OBVIOUS
<1>2. x \in Worths(v) /\ x # Raw /\ args[1] = pos /\ args[2] = x
  BY <1>1, PassedWorth, EmplaceArgs DEF Living
<1>3. xs \in Seq(Worths(v)) /\ Len(xs) = 1 /\ xs[1] = x
  BY <1>1, <1>2
<1>4. PICK el, lower, whole, old :
        /\ el = Construct(Blank(k), pos, xs)
        /\ lower = Construct(el, 0, Read(s, 0, pos))
        /\ whole = Construct(lower, pos + 1, Read(s, pos, n - pos))
        /\ old = Destroy(s, 0, n)
  OBVIOUS
<1>5. ToSize(n + 1) = n + 1
  BY <1>1, Truncated
<1>6. \/ \E new, noop : Unwind(NewBlock, new, noop, "emplace") /\ Called("emplace", v, args, "threw")
      \/ \E new, fate : /\ fate \in {"threw", "terminated"}
                        /\ Unwind(NewBlock, new, FALSE, "emplace")
                        /\ Called("emplace", v, args, fate)
      \/ /\ Exchange(v, NewBlock, whole, n + 1, old, "emplace")
         /\ Called("emplace", v, args, "ok")
  <2>1. \A f \in (IF ty.nmove THEN {} ELSE CopyFate(ty, pos)) \ {"ok"} : f \in {"threw", "terminated"}
    BY Fates
  <2>2. \A f \in (IF ty.nmove THEN {} ELSE CopyFate(ty, n - pos)) \ {"ok"} :
          f \in {"threw", "terminated"}
    BY Fates
  <2>3. \/ Unwind(NewBlock, Blank(k), ty.nctor /\ ty.nmove, "emplace")
           /\ Called("emplace", v, args, "threw")
        \/ \E fate \in (IF ty.nmove THEN {} ELSE CopyFate(ty, pos)) \ {"ok"} :
             /\ Unwind(NewBlock, Destroy(el, pos, pos + 1), FALSE, "emplace")
             /\ Called("emplace", v, args, fate)
        \/ \E fate \in (IF ty.nmove THEN {} ELSE CopyFate(ty, n - pos)) \ {"ok"} :
             /\ Unwind(NewBlock, Destroy(Destroy(lower, 0, pos), pos, pos + 1), FALSE, "emplace")
             /\ Called("emplace", v, args, fate)
        \/ /\ Exchange(v, NewBlock, whole, n + 1, old, "emplace")
           /\ Called("emplace", v, args, "ok")
    BY <1>1, <1>4, <1>5 DEF EmplaceRealloc
  <2> QED
    BY <2>1, <2>2, <2>3
<1>7. CASE \E new, noop : Unwind(NewBlock, new, noop, "emplace") /\ Called("emplace", v, args, "threw")
  BY <1>7, UnwindFails
<1>8. CASE \E new, fate : /\ fate \in {"threw", "terminated"}
                          /\ Unwind(NewBlock, new, FALSE, "emplace")
                          /\ Called("emplace", v, args, fate)
  BY <1>8, UnwindFails
<1>9. CASE /\ Exchange(v, NewBlock, whole, n + 1, old, "emplace")
           /\ Called("emplace", v, args, "ok")
  <2>1. PICK u : u = 1
    OBVIOUS
  <2>2. /\ u = Len(xs) /\ u \in Nat /\ Size(v) + u <= k
        /\ whole = Construct(lower, pos + u, Read(Slots(v), pos, Size(v) - pos))
        /\ lower = Construct(el, 0, Read(Slots(v), 0, pos))
    BY <1>1, <1>3, <1>4, <2>1
  <2>3. \A j \in 1 .. u : xs[j] # Raw
    <3>1. \A j \in 1 .. u : j = 1
      BY <2>1
    <3> QED
      BY <1>2, <1>3, <3>1
  <2>4. Spliced(whole, Elements(v), pos, xs)
    <3>1. el = Construct(Blank(k), pos, xs)
      BY <1>4
    <3> QED
      BY <2>2, <2>3, <3>1, PartedHolds
  <2>5. xs = <<args[2]>>
    BY <1>1, <1>2
  <2>6. PICK m : m = n + 1
    OBVIOUS
  <2>7. m = Size(v) + Len(xs)
    BY <1>1, <1>3, <2>6
  <2> QED
    BY <1>2, <1>3, <1>9, <2>4, <2>5, <2>6, <2>7, ExchangeInserts
<1> QED
  BY <1>6, <1>7, <1>8, <1>9

\* emplace.
LEMMA EmplaceRefines ==
  ASSUME Good, WideGrowth, NEW v \in alive, NEW arg \in ArgsOf(v), NEW pos \in Positions(v),
         Emplace(v, pos, arg)
  PROVE  Value!Next
<1>1. /\ Size(v) \in Nat /\ Capacity(v) \in Nat /\ Size(v) <= Capacity(v)
      /\ FreeSpace(v) = Capacity(v) - Size(v) /\ Size(v) \in Sizes /\ 1 \in Sizes
  BY OfVector, Free, Constants DEF Sizes
<1>2. CASE FreeSpace(v) # 0 /\ pos = Size(v) /\ EmplaceAtEnd(v, arg)
  BY <1>1, <1>2, EmplaceAtEndRefines
<1>3. CASE FreeSpace(v) # 0 /\ pos # Size(v) /\ EmplaceShift(v, pos, arg)
  BY <1>1, <1>3, EmplaceShiftRefines
<1>4. CASE /\ FreeSpace(v) = 0 /\ Realloc /\ growth(Size(v), 1) # 0
           /\ EmplaceRealloc(v, pos, arg, growth(Size(v), 1)) /\ UNCHANGED <<ty, alive>>
  <2>1. PICK k : k = growth(Size(v), 1)
    OBVIOUS
  <2>2. k \in Nat /\ Size(v) + 1 <= k /\ Size(v) + 1 \in Sizes
    BY <1>1, <1>4, <2>1, Grows DEF Sizes
  <2> QED
    BY <1>4, <2>1, <2>2, EmplaceReallocRefines
<1>5. CASE Unchanged("emplace", v, <<pos>> \o Given(v, arg), "out_of_storage")
  BY <1>5, QuietFails
<1> QED
  BY <1>2, <1>3, <1>4, <1>5 DEF Emplace

\* Slots of a vector with n elements e and room for u more.
Filling(s, c, e, n, u) ==
  /\ c \in Nat /\ n \in Nat /\ u \in Nat /\ n + u <= c /\ DOMAIN s = 0 .. c - 1
  /\ \A i \in 0 .. n - 1 : s[i] = e[i + 1] /\ s[i] # Raw
  /\ \A i \in n .. c - 1 : s[i] = Raw

\* What insert writes when there are as many new elements as behind pos, or more.
LEMMA OverEndSpliced ==
  ASSUME NEW s, NEW c, NEW e, NEW n, n = Len(e), NEW xs, xs \in Seq(Vals), NEW u, u = Len(xs),
         Filling(s, c, e, n, u), NEW pos, pos \in 0 .. n, NEW old, old = n - pos, old <= u,
         NEW tail, tail = IF u > old THEN Construct(s, n, SubSeq(xs, old + 1, u)) ELSE s,
         NEW moved, moved = MoveToRaw(tail, pos, old, pos + u),
         NEW t, t = Assign(moved, pos, SubSeq(xs, 1, old))
  PROVE  Spliced(t, e, pos, xs)
<1>20. c \in Nat /\ n \in Nat /\ u \in Nat /\ n + u <= c
  BY DEF Filling
<1>1. /\ DOMAIN s = 0 .. c - 1
      /\ \A i \in 0 .. n - 1 : s[i] = e[i + 1] /\ s[i] # Raw
      /\ \A i \in n .. c - 1 : s[i] = Raw
  BY DEF Filling
<1>2. /\ c \in Nat /\ n \in Nat /\ u \in Nat /\ n + u <= c
      /\ pos \in Nat /\ old \in Nat /\ pos + old = n /\ pos <= n /\ pos \in Int /\ c \in Int
      /\ old <= u
  <2>1. pos \in 0 .. n /\ old = n - pos /\ old <= u
    OBVIOUS
  <2> QED
    BY ONLY <1>20, <2>1
<1>3. \A j \in 1 .. u : xs[j] \in Vals /\ xs[j] # Raw
  BY FuncAssumption
<1>4. /\ DOMAIN tail = 0 .. c - 1 /\ \A i \in 0 .. n - 1 : tail[i] = s[i]
      /\ \A i \in n .. pos + u - 1 : tail[i] = xs[i - pos + 1]
      /\ \A i \in pos + u .. c - 1 : tail[i] = Raw
  <2>1. CASE u > old
    <3>1. PICK ys : ys = SubSeq(xs, old + 1, u)
      OBVIOUS
    <3>2. Len(ys) = u - old /\ \A j \in 1 .. u - old : ys[j] = xs[old + j]
      <4>1. xs \in Seq(Vals) /\ u = Len(xs)
        OBVIOUS
      <4>2. u \in Int /\ old \in Int /\ 0 <= old /\ old < u
        BY ONLY <1>2, <2>1
      <4> QED
        BY ONLY <3>1, <4>1, <4>2
    <3>3. Builds(s, c, n, ys, tail)
      <4>1. tail = Construct(s, n, ys) /\ DOMAIN s = 0 .. c - 1 /\ n \in Int /\ Len(ys) \in Nat
        BY <1>1, <1>2, <2>1, <3>1, <3>2
      <4> QED
        BY ONLY <1>2, <4>1, Built
    <3>4. ASSUME NEW i \in 0 .. n - 1 PROVE tail[i] = s[i]
      <4>1. i \in 0 .. c - 1 /\ i < n
        BY ONLY <1>2, <2>1, <3>4
      <4> QED
        BY <3>3, <4>1 DEF Builds
    <3>5. ASSUME NEW i \in n .. pos + u - 1 PROVE tail[i] = xs[i - pos + 1]
      <4>1. /\ i \in 0 .. c - 1 /\ i \in n .. c - 1 /\ n <= i /\ i < n + Len(ys)
            /\ i - n + 1 \in 1 .. u - old /\ old + (i - n + 1) = i - pos + 1
        BY ONLY <1>2, <2>1, <3>2, <3>5
      <4>2. tail[i] = ys[i - n + 1]
        BY <1>1, <3>3, <4>1 DEF Builds
      <4> QED
        BY <3>2, <4>1, <4>2
    <3>6. ASSUME NEW i \in pos + u .. c - 1 PROVE tail[i] = Raw
      <4>1. i \in 0 .. c - 1 /\ n + Len(ys) <= i /\ i \in n .. c - 1
        BY ONLY <1>2, <2>1, <3>2, <3>6
      <4> QED
        BY <1>1, <3>3, <4>1 DEF Builds
    <3> QED
      BY <3>3, <3>4, <3>5, <3>6 DEF Builds
  <2>2. CASE u = old
    <3>1. tail = s /\ pos + u = n
      BY <1>2, <2>2
    <3> QED
      BY <1>1, <3>1
  <2> QED
    BY <1>1, <1>2, <2>1, <2>2
<1>5. PICK d : d = pos + u
  OBVIOUS
<1>6. MovesOut(tail, c, pos, old, d, moved)
  <2>1. d \in Int /\ moved = MoveToRaw(tail, pos, old, d) /\ DOMAIN tail = 0 .. c - 1
    BY <1>1, <1>2, <1>4, <1>5
  <2> QED
    BY ONLY <1>2, <2>1, MovedOut
<1>7. ASSUME NEW i \in 0 .. pos - 1 PROVE moved[i] = s[i]
  <2>1. i \in 0 .. c - 1 /\ i < d /\ i < pos /\ i \in 0 .. n - 1
    BY ONLY <1>2, <1>5, <1>7
  <2> QED
    BY <1>4, <1>6, <2>1 DEF MovesOut
<1>8. ASSUME NEW i \in pos .. n - 1 PROVE moved[i] # Raw
  <2>1. i \in 0 .. c - 1 /\ i < d /\ pos <= i /\ i < pos + old /\ i \in 0 .. n - 1
    BY ONLY <1>2, <1>5, <1>8
  <2>2. tail[i] # Raw
    BY <1>1, <1>4, <2>1
  <2> QED
    BY <1>6, <2>1, <2>2, SlotAssumption DEF MovesOut
<1>9. ASSUME NEW i \in n .. pos + u - 1 PROVE moved[i] = xs[i - pos + 1]
  <2>1. i \in 0 .. c - 1 /\ i < d /\ pos + old <= i
    BY ONLY <1>2, <1>5, <1>9
  <2> QED
    BY <1>4, <1>6, <2>1 DEF MovesOut
<1>10. ASSUME NEW i \in pos + u .. n + u - 1 PROVE moved[i] = s[i - u]
  <2>1. /\ i \in 0 .. c - 1 /\ d <= i /\ i < d + old /\ i - d + pos = i - u
        /\ i - u \in 0 .. c - 1 /\ i - u \in 0 .. n - 1 /\ i \in pos + u .. c - 1
    BY ONLY <1>2, <1>5, <1>10
  <2>2. tail[i] = Raw /\ tail[i - u] = s[i - u] /\ tail[i - u] # Raw
    BY <1>1, <1>4, <2>1
  <2> QED
    BY <1>6, <2>1, <2>2 DEF MovesOut
<1>11. PICK zs : zs = SubSeq(xs, 1, old)
  OBVIOUS
<1>12. Len(zs) = old /\ \A j \in 1 .. old : zs[j] = xs[j]
  BY <1>2, <1>11
<1>13. Assigns(moved, c, pos, zs, t)
  <2>1. DOMAIN moved = 0 .. c - 1 /\ Len(zs) \in Nat /\ t = Assign(moved, pos, zs)
    BY <1>2, <1>6, <1>11, <1>12 DEF MovesOut
  <2> QED
    BY ONLY <1>2, <2>1, Assigned
<1>14. 0 .. n + u - 1 \subseteq DOMAIN t
  <2>1. DOMAIN t = 0 .. c - 1
    BY <1>13 DEF Assigns
  <2> QED
    BY ONLY <1>2, <2>1
<1>15. ASSUME NEW i \in 0 .. pos - 1 PROVE t[i] = e[i + 1] /\ t[i] # Raw
  <2>1. i \in 0 .. c - 1 /\ i < pos /\ i \in 0 .. n - 1
    BY ONLY <1>2, <1>15
  <2>2. t[i] = s[i]
    BY <1>7, <1>13, <2>1 DEF Assigns
  <2> QED
    BY <1>1, <2>1, <2>2
<1>16. ASSUME NEW i \in pos .. pos + u - 1 PROVE t[i] = xs[i - pos + 1] /\ t[i] # Raw
  <2>1. i \in 0 .. c - 1 /\ i - pos + 1 \in 1 .. u /\ pos <= i
    BY ONLY <1>2, <1>16
  <2>2. CASE i < n
    <3>1. i \in pos .. n - 1 /\ i < pos + Len(zs) /\ i - pos + 1 \in 1 .. old
      BY ONLY <1>2, <1>12, <2>1, <2>2, <1>16
    <3>2. t[i] = zs[i - pos + 1]
      BY <1>8, <1>13, <2>1, <3>1 DEF Assigns
    <3> QED
      BY <1>3, <1>12, <2>1, <3>1, <3>2
  <2>3. CASE n <= i
    <3>1. i \in n .. pos + u - 1 /\ pos + Len(zs) <= i
      BY ONLY <1>2, <1>12, <2>1, <2>3, <1>16
    <3>2. t[i] = xs[i - pos + 1]
      BY <1>9, <1>13, <2>1, <3>1 DEF Assigns
    <3> QED
      BY <1>3, <2>1, <3>2
  <2> QED
    BY <1>1, <2>1, <2>2, <2>3
<1>17. ASSUME NEW i \in pos + u .. n + u - 1 PROVE t[i] = e[i - u + 1] /\ t[i] # Raw
  <2>1. i \in 0 .. c - 1 /\ pos + Len(zs) <= i /\ i - u \in 0 .. n - 1
    BY ONLY <1>2, <1>12, <1>17
  <2>2. t[i] = s[i - u]
    BY <1>10, <1>13, <2>1 DEF Assigns
  <2> QED
    BY <1>1, <2>1, <2>2
<1> QED
  BY <1>14, <1>15, <1>16, <1>17 DEF Spliced

\* What insert writes when there are fewer new elements than behind pos.
LEMMA InsideSpliced ==
  ASSUME NEW s, NEW c, NEW e, NEW n, n = Len(e), NEW xs, xs \in Seq(Vals), NEW u, u = Len(xs),
         Filling(s, c, e, n, u), NEW pos, pos \in 0 .. n, u < n - pos,
         NEW keep, keep = n - pos - u,
         NEW opened, opened = MoveToRaw(s, pos + keep, u, n),
         NEW moved, moved = MoveWithin(opened, pos, keep, pos + u),
         NEW t, t = Assign(moved, pos, xs)
  PROVE  Spliced(t, e, pos, xs)
<1>20. c \in Nat /\ n \in Nat /\ u \in Nat /\ n + u <= c
  BY DEF Filling
<1>1. /\ DOMAIN s = 0 .. c - 1
      /\ \A i \in 0 .. n - 1 : s[i] = e[i + 1] /\ s[i] # Raw
      /\ \A i \in n .. c - 1 : s[i] = Raw
  BY DEF Filling
<1>2. /\ c \in Nat /\ n \in Nat /\ u \in Nat /\ n + u <= c
      /\ pos \in Nat /\ keep \in Nat /\ pos + u + keep = n /\ pos <= n /\ pos \in Int /\ c \in Int
      /\ keep \in Int
  <2>1. pos \in 0 .. n /\ keep = n - pos - u /\ u < n - pos
    OBVIOUS
  <2> QED
    BY ONLY <1>20, <2>1
<1>3. \A j \in 1 .. u : xs[j] \in Vals /\ xs[j] # Raw
  BY FuncAssumption
<1>4. PICK a, d : a = pos + keep /\ d = pos + u
  OBVIOUS
<1>5. a \in Int /\ d \in Int /\ n \in Int /\ a + u = n /\ d + keep = n
  BY <1>1, <1>2, <1>4
<1>6. MovesOut(s, c, a, u, n, opened)
  <2>1. u \in Nat /\ DOMAIN s = 0 .. c - 1 /\ opened = MoveToRaw(s, a, u, n)
    BY <1>1, <1>4
  <2> QED
    BY ONLY <1>2, <1>5, <2>1, MovedOut
<1>7. ASSUME NEW i \in 0 .. a - 1 PROVE opened[i] = s[i] /\ opened[i] # Raw
  <2>1. i \in 0 .. c - 1 /\ i < n /\ i < a /\ i \in 0 .. n - 1
    BY ONLY <1>2, <1>5, <1>7
  <2> QED
    BY <1>1, <1>6, <2>1 DEF MovesOut
<1>8. ASSUME NEW i \in a .. n - 1 PROVE opened[i] # Raw
  <2>1. i \in 0 .. c - 1 /\ i < n /\ a <= i /\ i < a + u /\ i \in 0 .. n - 1
    BY ONLY <1>2, <1>4, <1>5, <1>8
  <2> QED
    BY <1>1, <1>6, <2>1, SlotAssumption DEF MovesOut
<1>9. ASSUME NEW i \in n .. n + u - 1 PROVE opened[i] = s[i - u] /\ opened[i] # Raw
  <2>1. /\ i \in 0 .. c - 1 /\ i \in n .. c - 1 /\ n <= i /\ i < n + u /\ i - n + a = i - u
        /\ i - u \in 0 .. c - 1 /\ i - u \in 0 .. n - 1
    BY ONLY <1>2, <1>5, <1>9
  <2>2. s[i] = Raw /\ s[i - u] # Raw
    BY <1>1, <2>1
  <2> QED
    BY <1>6, <2>1, <2>2 DEF MovesOut
<1>10. MovesIn(opened, c, pos, keep, d, moved)
  <2>1. DOMAIN opened = 0 .. c - 1 /\ moved = MoveWithin(opened, pos, keep, d)
    BY <1>4, <1>6 DEF MovesOut
  <2> QED
    BY ONLY <1>2, <1>5, <2>1, MovedIn
<1>11. ASSUME NEW i \in 0 .. n - 1 PROVE opened[i] # Raw
  <2>1. i \in 0 .. a - 1 \/ i \in a .. n - 1
    BY ONLY <1>2, <1>5, <1>11
  <2> QED
    BY <1>7, <1>8, <2>1
<1>12. ASSUME NEW i \in 0 .. pos - 1 PROVE moved[i] = s[i]
  <2>1. i \in 0 .. c - 1 /\ i < d /\ i < pos /\ i \in 0 .. a - 1
    BY ONLY <1>2, <1>4, <1>12
  <2> QED
    BY <1>7, <1>10, <2>1 DEF MovesIn
<1>13. ASSUME NEW i \in pos .. pos + u - 1 PROVE moved[i] # Raw
  <2>1. i \in 0 .. c - 1 /\ i < d /\ pos <= i /\ i \in 0 .. n - 1
    BY ONLY <1>2, <1>4, <1>13
  <2>2. i < pos + keep \/ pos + keep <= i
    BY <1>2
  <2> QED
    BY <1>10, <1>11, <2>1, <2>2, SlotAssumption DEF MovesIn
<1>14. ASSUME NEW i \in pos + u .. n + u - 1 PROVE moved[i] = s[i - u]
  <2>1. CASE i < n
    <3>1. /\ i \in 0 .. c - 1 /\ d <= i /\ i < d + keep /\ i - d + pos = i - u
          /\ i - u \in 0 .. c - 1 /\ i - u \in 0 .. a - 1 /\ i \in 0 .. n - 1
      BY ONLY <1>2, <1>4, <1>5, <2>1, <1>14
    <3>2. opened[i] # Raw /\ opened[i - u] = s[i - u] /\ opened[i - u] # Raw
      BY <1>7, <1>11, <3>1
    <3> QED
      BY <1>10, <3>1, <3>2 DEF MovesIn
  <2>2. CASE n <= i
    <3>1. i \in 0 .. c - 1 /\ d + keep <= i /\ pos + keep <= i /\ i \in n .. n + u - 1
      BY ONLY <1>2, <1>4, <1>5, <2>2, <1>14
    <3> QED
      BY <1>9, <1>10, <3>1 DEF MovesIn
  <2> QED
    BY <1>1, <1>2, <2>1, <2>2
<1>15. Assigns(moved, c, pos, xs, t)
  <2>1. DOMAIN moved = 0 .. c - 1 /\ Len(xs) \in Nat /\ t = Assign(moved, pos, xs)
    BY <1>1, <1>10 DEF MovesIn
  <2> QED
    BY ONLY <1>2, <2>1, Assigned
<1>16. 0 .. n + u - 1 \subseteq DOMAIN t
  <2>1. DOMAIN t = 0 .. c - 1
    BY <1>15 DEF Assigns
  <2> QED
    BY ONLY <1>2, <2>1
<1>17. ASSUME NEW i \in 0 .. pos - 1 PROVE t[i] = e[i + 1] /\ t[i] # Raw
  <2>1. i \in 0 .. c - 1 /\ i < pos /\ i \in 0 .. n - 1
    BY ONLY <1>2, <1>17
  <2>2. t[i] = s[i]
    BY <1>12, <1>15, <2>1 DEF Assigns
  <2> QED
    BY <1>1, <2>1, <2>2
<1>18. ASSUME NEW i \in pos .. pos + u - 1 PROVE t[i] = xs[i - pos + 1] /\ t[i] # Raw
  <2>1. i \in 0 .. c - 1 /\ i - pos + 1 \in 1 .. u /\ pos <= i /\ i < pos + Len(xs)
    <3>1. Len(xs) = u
      OBVIOUS
    <3> QED
      BY ONLY <1>2, <1>18, <3>1
  <2>2. t[i] = xs[i - pos + 1]
    BY <1>13, <1>15, <2>1 DEF Assigns
  <2> QED
    BY <1>3, <2>1, <2>2
<1>19. ASSUME NEW i \in pos + u .. n + u - 1 PROVE t[i] = e[i - u + 1] /\ t[i] # Raw
  <2>1. i \in 0 .. c - 1 /\ pos + Len(xs) <= i /\ i - u \in 0 .. n - 1
    <3>1. Len(xs) = u
      OBVIOUS
    <3> QED
      BY ONLY <1>2, <1>19, <3>1
  <2>2. t[i] = s[i - u]
    BY <1>14, <1>15, <2>1 DEF Assigns
  <2> QED
    BY <1>1, <2>1, <2>2
<1> QED
  BY <1>16, <1>17, <1>18, <1>19 DEF Spliced

\* The parts of a sequence make the whole.
LEMMA WholeAgain ==
  ASSUME NEW S, NEW e, e \in Seq(S), NEW n, n \in 0 .. Len(e)
  PROVE  Before(e, n) \o Behind(e, n) = e
<1>1. PICK a, b, r, m : /\ a = SubSeq(e, 1, n) /\ b = SubSeq(e, n + 1, Len(e)) /\ r = a \o b
                        /\ m = Len(e)
  OBVIOUS
<1>2. /\ a \in Seq(S) /\ Len(a) = n /\ \A j \in 1 .. n : a[j] = e[j]
      /\ b \in Seq(S) /\ Len(b) = m - n /\ \A j \in 1 .. m - n : b[j] = e[n + j]
      /\ m \in Nat /\ n \in Nat /\ n <= m
  BY <1>1
<1>3. /\ r \in Seq(S) /\ Len(r) = Len(a) + Len(b)
      /\ \A j \in 1 .. Len(a) + Len(b) : r[j] = IF j <= Len(a) THEN a[j] ELSE b[j - Len(a)]
  <2>1. a \in Seq(S) /\ b \in Seq(S) /\ r = a \o b
    BY <1>1, <1>2
  <2> QED
    BY ONLY <2>1, Joined
<1>4. ASSUME NEW j \in 1 .. m PROVE r[j] = e[j]
  <2>1. CASE j <= n
    <3>1. j \in 1 .. n /\ j \in 1 .. Len(a) + Len(b)
      BY <1>2, <2>1
    <3> QED
      BY <1>2, <1>3, <2>1, <3>1
  <2>2. CASE ~(j <= n)
    <3>1. j - n \in 1 .. m - n /\ n + (j - n) = j /\ j \in 1 .. Len(a) + Len(b)
      BY <1>2, <2>2
    <3>2. r[j] = b[j - n]
      BY <1>2, <1>3, <2>2, <3>1
    <3> QED
      BY <1>2, <3>1, <3>2
  <2> QED
    BY <2>1, <2>2
<1>5. Len(r) = m
  BY <1>2, <1>3
<1>6. r = [j \in 1 .. m |-> r[j]] /\ e = [j \in 1 .. m |-> e[j]]
  <2>1. e \in Seq(S) /\ Len(e) = m /\ r \in Seq(S) /\ Len(r) = m
    BY <1>1, <1>3, <1>5
  <2> QED
    BY ONLY <2>1
<1>7. r = e
  BY <1>4, <1>6
<1> QED
  BY <1>1, <1>7 DEF Before, Behind

\* insert that writes something: the right slots t and size m, or it fails.
LEMMA InsertSteps ==
  ASSUME Good, NEW v \in alive, NEW pos \in Positions(v), NEW xs \in Sources, NEW t, NEW m,
         NEW q, NEW p, Write(v, q, p), IsBlock(q, Capacity(v)),
         NEW o, Called("insert", v, <<pos, xs>>, o),
         o \in {"threw", "terminated"} \/ (o = "ok" /\ q = t /\ p = m),
         Len(xs) <= MaxSize => Spliced(t, Elements(v), pos, xs) /\ m = Size(v) + Len(xs)
  PROVE  Value!Next
<1>1. PICK args : args = <<pos, xs>>
  OBVIOUS
<1>2. args[1] = pos /\ args[2] = xs /\ Called("insert", v, args, o)
  BY <1>1
<1>3. xs \in Seq(Vals) /\ Len(xs) \in Nat /\ MaxSize \in Nat
  BY SourceObjects, Constants
<1>4. CASE o \in {"threw", "terminated"}
  BY <1>2, <1>4, WriteFails
<1>5. CASE o = "ok" /\ q = t /\ p = m /\ Len(xs) <= MaxSize
  <2>1. xs \in Seq(Worths(v))
    <3>1. PICK S : S = Worths(v)
      OBVIOUS
    <3>2. Vals \subseteq S
      BY <3>1, OfSlots
    <3> QED
      BY <1>3, <3>1, <3>2
  <2> QED
    BY <1>2, <1>5, <2>1, WriteInserts
<1>6. CASE Len(xs) > MaxSize
  <2>1. Alters({v}) /\ alive' = alive
    BY WriteView
  <2>2. last'.op = "insert" /\ last'.v = v /\ last'.args = args
    BY <1>2 DEF Called
  <2> QED
    BY <1>2, <1>6, <2>1, <2>2, ValueTooMany
<1> QED
  BY <1>3, <1>4, <1>5, <1>6

\* The slots of a vector that has room for u elements more.
LEMMA IsFilling ==
  ASSUME Good, NEW v \in alive, NEW u, u \in Nat, u <= FreeSpace(v)
  PROVE  Filling(Slots(v), Capacity(v), Elements(v), Size(v), u) /\ Size(v) = Len(Elements(v))
<1>1. PICK n, c, s, e, S : /\ n = Size(v) /\ c = Capacity(v) /\ s = Slots(v)
                           /\ e = Elements(v) /\ S = Worths(v)
  OBVIOUS
<1>2. /\ n \in Nat /\ c \in Nat /\ n <= c /\ DOMAIN s = 0 .. c - 1 /\ Len(e) = n
      /\ \A i \in 0 .. n - 1 : s[i] = e[i + 1] /\ s[i] # Raw
      /\ \A i \in n .. c - 1 : s[i] = Raw
  BY <1>1, OfSlots
<1>3. n + u <= c
  BY <1>1, <1>2, Free
<1> QED
  BY <1>1, <1>2, <1>3 DEF Filling

\* insert of at least as many elements as there are from pos to the end.
LEMMA InsertOverEndRefines ==
  ASSUME Good, NEW v \in alive, NEW pos \in Positions(v), NEW xs \in Sources, Len(xs) > 0,
         ToSize(Len(xs)) <= FreeSpace(v), ToSize(Len(xs)) >= Size(v) - pos,
         InsertOverEnd(v, pos, xs)
  PROVE  Value!Next
<1>1. PICK n, c, s, len, u, old, ext :
        /\ n = Size(v) /\ c = Capacity(v) /\ s = Slots(v) /\ len = Len(xs) /\ u = ToSize(len)
        /\ old = n - pos /\ ext = ToSize(len - old)
  OBVIOUS
<1>2. PICK tail, size1, size2 :
        /\ tail = IF u > old THEN Construct(s, pos + old, SubSeq(xs, old + 1, old + ext)) ELSE s
        /\ size1 = (IF u > old THEN ToSize(n + ext) ELSE n) /\ size2 = ToSize(n + u)
  OBVIOUS
<1>3. PICK moved, t : /\ moved = MoveToRaw(tail, pos, old, pos + u)
                      /\ t = Assign(moved, pos, SubSeq(xs, 1, old))
  OBVIOUS
<1>4. \/ \E fate \in CopyFate(ty, IF u > old THEN ext ELSE 0) \ {"ok"} :
            Write(v, s, n) /\ Called("insert", v, <<pos, xs>>, Leaves(fate, InsertNoexcept))
      \/ \E k \in Span(0, old) :
            /\ ~ty.nmove
            /\ Write(v, LeaveMoved(tail, pos, pos + k), size1)
            /\ Called("insert", v, <<pos, xs>>, Leaves("threw", InsertNoexcept))
      \/ \E k \in Span(0, old) :
            /\ ~ty.ncopy
            /\ Write(v, Assign(moved, pos, SubSeq(xs, 1, k)), size2)
            /\ Called("insert", v, <<pos, xs>>, Leaves("threw", InsertNoexcept))
      \/ Write(v, t, size2) /\ Called("insert", v, <<pos, xs>>, Leaves("ok", InsertNoexcept))
  BY <1>1, <1>2, <1>3, Zenon DEF InsertOverEnd
<1>5. /\ IsBlock(s, c) /\ \A k : IsBlock(LeaveMoved(tail, pos, pos + k), c)
      /\ \A ys : IsBlock(Assign(moved, pos, ys), c)
  <2>1. IsBlock(s, c)
    BY <1>1, OfSlots
  <2>2. IsBlock(tail, c)
    BY <1>2, <2>1, SameBlock
  <2>3. IsBlock(moved, c)
    BY <1>3, <2>2, SameBlock
  <2> QED
    BY <2>1, <2>2, <2>3, SameBlock
<1>6. \E q, p, o : /\ Write(v, q, p) /\ IsBlock(q, c) /\ Called("insert", v, <<pos, xs>>, o)
                   /\ o \in {"threw", "terminated"} \/ (o = "ok" /\ q = t /\ p = size2)
  BY <1>3, <1>4, <1>5, InsertFates
<1>7. ASSUME len <= MaxSize
      PROVE  Spliced(t, Elements(v), pos, xs) /\ size2 = n + len
  <2>1. xs \in Seq(Vals) /\ len \in Nat /\ MaxSize \in Nat
    BY <1>1, SourceObjects, Constants
  <2>2. u = len
    BY <1>1, <1>7, <2>1, Truncated DEF Sizes
  <2>3. n \in Nat /\ c \in Nat /\ pos \in 0 .. n /\ n + u <= c /\ c <= MaxSize /\ old <= u
    BY <1>1, <2>1, <2>2, OfVector, Free DEF Positions
  <2>4. old \in Nat /\ pos + old = n /\ pos \in Nat
    BY <1>1, <2>3
  <2>5. ext = u - old /\ old + ext = u
    <3>1. len - old \in Sizes
      BY <2>1, <2>2, <2>3, <2>4, <1>7 DEF Sizes
    <3>2. ext = len - old
      BY <1>1, <3>1, Truncated
    <3> QED
      BY <2>1, <2>2, <2>4, <3>2
  <2>6. size2 = n + u
    <3>1. n + u \in Sizes
      BY <2>1, <2>2, <2>3 DEF Sizes
    <3> QED
      BY <1>2, <3>1, Truncated
  <2>7. PICK e : e = Elements(v)
    OBVIOUS
  <2>8. Filling(s, c, e, n, u) /\ n = Len(e)
    BY <1>1, <2>1, <2>2, <2>7, IsFilling
  <2>9. tail = IF u > old THEN Construct(s, n, SubSeq(xs, old + 1, u)) ELSE s
    BY <1>2, <2>4, <2>5
  <2>10. u = Len(xs) /\ old = n - pos /\ t = Assign(moved, pos, SubSeq(xs, 1, old))
         /\ moved = MoveToRaw(tail, pos, old, pos + u)
    BY <1>1, <1>3, <2>2
  <2>11. Spliced(t, e, pos, xs)
    BY ONLY <2>1, <2>3, <2>8, <2>9, <2>10, OverEndSpliced
  <2> QED
    BY <2>2, <2>6, <2>7, <2>11
<1> QED
  BY <1>1, <1>6, <1>7, InsertSteps

\* insert of fewer elements than there are from pos to the end.
LEMMA InsertInsideRefines ==
  ASSUME Good, NEW v \in alive, NEW pos \in Positions(v), NEW xs \in Sources, Len(xs) > 0,
         ToSize(Len(xs)) <= FreeSpace(v), ToSize(Len(xs)) < Size(v) - pos,
         InsertInside(v, pos, xs)
  PROVE  Value!Next
<1>1. PICK n, c, s, len, u, old, keep, size1 :
        /\ n = Size(v) /\ c = Capacity(v) /\ s = Slots(v) /\ len = Len(xs) /\ u = ToSize(len)
        /\ old = n - pos /\ keep = old - u /\ size1 = ToSize(n + u)
  OBVIOUS
<1>2. PICK opened, moved, t :
        /\ opened = MoveToRaw(s, pos + keep, u, pos + old)
        /\ moved = MoveWithin(opened, pos, keep, pos + u)
        /\ t = Assign(moved, pos, xs)
  OBVIOUS
<1>3. \/ \E k \in Span(0, u) :
            /\ ~ty.nmove
            /\ Write(v, LeaveMoved(s, pos + keep, pos + keep + k), n)
            /\ Called("insert", v, <<pos, xs>>, Leaves("threw", InsertNoexcept))
      \/ \E k \in Span(0, keep) :
            /\ ~ty.nmove
            /\ Write(v, MoveWithin(opened, pos + keep - k, k, pos + old - k), size1)
            /\ Called("insert", v, <<pos, xs>>, Leaves("threw", InsertNoexcept))
      \/ \E k \in Span(0, len) :
            /\ ~ty.ncopy
            /\ Write(v, Assign(moved, pos, SubSeq(xs, 1, k)), size1)
            /\ Called("insert", v, <<pos, xs>>, Leaves("threw", InsertNoexcept))
      \/ Write(v, t, size1) /\ Called("insert", v, <<pos, xs>>, Leaves("ok", InsertNoexcept))
  BY <1>1, <1>2, Zenon DEF InsertInside
<1>4. /\ \A a, b : IsBlock(LeaveMoved(s, a, b), c)
      /\ \A a, m, d : IsBlock(MoveWithin(opened, a, m, d), c)
      /\ \A ys : IsBlock(Assign(moved, pos, ys), c)
  <2>1. IsBlock(s, c)
    BY <1>1, OfSlots
  <2>2. IsBlock(opened, c)
    BY <1>2, <2>1, SameBlock
  <2>3. IsBlock(moved, c)
    BY <1>2, <2>2, SameBlock
  <2> QED
    BY <2>1, <2>2, <2>3, SameBlock
<1>5. \E q, p, o : /\ Write(v, q, p) /\ IsBlock(q, c) /\ Called("insert", v, <<pos, xs>>, o)
                   /\ o \in {"threw", "terminated"} \/ (o = "ok" /\ q = t /\ p = size1)
  BY <1>2, <1>3, <1>4, InsertFates
<1>6. ASSUME len <= MaxSize
      PROVE  Spliced(t, Elements(v), pos, xs) /\ size1 = n + len
  <2>1. xs \in Seq(Vals) /\ len \in Nat /\ MaxSize \in Nat
    BY <1>1, SourceObjects, Constants
  <2>2. u = len
    BY <1>1, <1>6, <2>1, Truncated DEF Sizes
  <2>3. n \in Nat /\ c \in Nat /\ pos \in 0 .. n /\ n + u <= c /\ c <= MaxSize /\ u < n - pos
    BY <1>1, <2>1, <2>2, OfVector, Free DEF Positions
  <2>4. pos + old = n /\ keep = n - pos - u
    BY <1>1, <2>3
  <2>5. size1 = n + u
    <3>1. n + u \in Sizes
      BY <2>1, <2>2, <2>3 DEF Sizes
    <3> QED
      BY <1>1, <3>1, Truncated
  <2>6. PICK e : e = Elements(v)
    OBVIOUS
  <2>7. Filling(s, c, e, n, u) /\ n = Len(e)
    BY <1>1, <2>1, <2>2, <2>6, IsFilling
  <2>8. /\ opened = MoveToRaw(s, pos + keep, u, n)
        /\ moved = MoveWithin(opened, pos, keep, pos + u)
        /\ t = Assign(moved, pos, xs) /\ u = Len(xs)
    BY <1>1, <1>2, <2>2, <2>4
  <2>9. Spliced(t, e, pos, xs)
    BY ONLY <2>1, <2>3, <2>4, <2>7, <2>8, InsideSpliced
  <2> QED
    BY <2>2, <2>5, <2>6, <2>9
<1> QED
  BY <1>1, <1>5, <1>6, InsertSteps

\* insert into new storage.
LEMMA InsertReallocRefines ==
  ASSUME Good, WideGrowth, Realloc, NEW v \in alive, NEW pos \in Positions(v),
         NEW xs \in Sources, NEW u, u = ToSize(Len(xs)),
         NEW k, k = growth(Size(v), u), k # 0,
         InsertRealloc(v, pos, xs, k), UNCHANGED <<ty, alive>>
  PROVE  Value!Next
<1>1. PICK n, s, args, ys : /\ n = Size(v) /\ s = Slots(v) /\ args = <<pos, xs>>
                            /\ ys = SubSeq(xs, 1, u)
  OBVIOUS
<1>2. PICK el, lower, whole, old :
        /\ el = Construct(Blank(k), pos, ys)
        /\ lower = Construct(el, 0, Read(s, 0, pos))
        /\ whole = Construct(lower, pos + u, Read(s, pos, n - pos))
        /\ old = Destroy(s, 0, n)
  OBVIOUS
<1>3. args[1] = pos /\ args[2] = xs /\ xs \in Seq(Vals) /\ Len(xs) \in Nat /\ MaxSize \in Nat
  BY <1>1, SourceObjects, Constants
<1>4. n \in Sizes /\ u \in Sizes
  BY <1>1, <1>3, OfVector, Constants, Truncated DEF Sizes
<1>5. k \in Nat /\ n + u <= k /\ ToSize(n + u) = n + u
  BY <1>1, <1>4, Grows, Truncated DEF Sizes
<1>6. \/ \E fate \in CopyFate(ty, u) \ {"ok"} :
            /\ Unwind(NewBlock, Blank(k), InsertNoexcept, "insert")
            /\ Called("insert", v, args, Leaves(fate, InsertNoexcept))
      \/ \E fate \in (IF ty.nmove THEN {} ELSE CopyFate(ty, pos)) \ {"ok"} :
            /\ Unwind(NewBlock, Destroy(el, pos, pos + u), InsertNoexcept, "insert")
            /\ Called("insert", v, args, Leaves(fate, InsertNoexcept))
      \/ \E fate \in (IF ty.nmove THEN {} ELSE CopyFate(ty, n - pos)) \ {"ok"} :
            /\ Unwind(NewBlock, Destroy(Destroy(lower, 0, pos), pos, pos + u), InsertNoexcept,
                      "insert")
            /\ Called("insert", v, args, Leaves(fate, InsertNoexcept))
      \/ /\ Exchange(v, NewBlock, whole, ToSize(n + u), old, "insert")
         /\ Called("insert", v, args, "ok")
  BY <1>1, <1>2, Zenon DEF InsertRealloc
<1>7. \/ \E new, o : /\ o \in {"threw", "terminated"}
                     /\ Unwind(NewBlock, new, InsertNoexcept, "insert")
                     /\ Called("insert", v, args, o)
      \/ Exchange(v, NewBlock, whole, n + u, old, "insert") /\ Called("insert", v, args, "ok")
  <2>1. \A m : \A f \in CopyFate(ty, m) \ {"ok"} : Leaves(f, InsertNoexcept) \in {"threw", "terminated"}
    BY InsertFates
  <2> QED
    BY <1>5, <1>6, <2>1
<1>8. CASE \E new, o : /\ o \in {"threw", "terminated"}
                       /\ Unwind(NewBlock, new, InsertNoexcept, "insert")
                       /\ Called("insert", v, args, o)
  BY <1>8, UnwindFails
<1>9. CASE Exchange(v, NewBlock, whole, n + u, old, "insert") /\ Called("insert", v, args, "ok")
  <2>1. CASE Len(xs) <= MaxSize
    <3>1. u = Len(xs)
      BY <1>3, <2>1, Truncated DEF Sizes
    <3>2. ys = xs
      <4>1. \A n0 : n0 = Len(xs) => SubSeq(xs, 1, n0) = xs
        BY <1>3
      <4> QED
        BY <1>1, <3>1, <4>1
    <3>3. \A j \in 1 .. u : xs[j] # Raw
      BY <1>3, <3>1, FuncAssumption
    <3>4. PICK e : e = Elements(v)
      OBVIOUS
    <3>5. Spliced(whole, e, pos, xs)
      <4>1. /\ u \in Nat /\ Size(v) + u <= k /\ el = Construct(Blank(k), pos, xs)
            /\ lower = Construct(el, 0, Read(Slots(v), 0, pos))
            /\ whole = Construct(lower, pos + u, Read(Slots(v), pos, Size(v) - pos))
        BY <1>1, <1>2, <1>3, <1>5, <3>1, <3>2
      <4> QED
        BY <1>5, <3>1, <3>3, <3>4, <4>1, PartedHolds
    <3>6. xs \in Seq(Worths(v))
      <4>1. PICK S : S = Worths(v)
        OBVIOUS
      <4>2. Vals \subseteq S
        BY <4>1, OfSlots
      <4> QED
        BY <1>3, <4>1, <4>2
    <3>7. PICK m : m = n + u
      OBVIOUS
    <3>8. m = Size(v) + Len(xs) /\ Exchange(v, NewBlock, whole, m, old, "insert")
      BY <1>1, <1>9, <3>1, <3>7
    <3> QED
      BY <1>3, <1>9, <3>4, <3>5, <3>6, <3>8, ExchangeInserts
  <2>2. CASE Len(xs) > MaxSize
    <3>1. v \in Vecs /\ alive' = alive /\ alive' = alive \cup {v}
      BY OfVector
    <3>2. Alters({v})
      BY <1>9, <3>1, ExchangeView
    <3>3. last'.op = "insert" /\ last'.v = v /\ last'.args = args
      BY <1>9 DEF Called
    <3> QED
      BY <1>3, <2>2, <3>1, <3>2, <3>3, ValueTooMany
  <2> QED
    BY <1>3, <2>1, <2>2
<1> QED
  BY <1>7, <1>8, <1>9

\* insert.
LEMMA InsertRefines ==
  ASSUME Good, WideGrowth, NEW v \in alive, NEW pos \in Positions(v), NEW xs \in Sources,
         Insert(v, pos, xs)
  PROVE  Value!Next
<1> DEFINE u == ToSize(Len(xs))
<1>1. CASE Unchanged("insert", v, <<pos, xs>>, "out_of_storage")
  BY <1>1, QuietFails
<1>2. CASE Len(xs) > 0 /\ u <= FreeSpace(v) /\ u >= Size(v) - pos /\ InsertOverEnd(v, pos, xs)
  BY <1>2, InsertOverEndRefines
<1>3. CASE Len(xs) > 0 /\ u <= FreeSpace(v) /\ ~(u >= Size(v) - pos) /\ InsertInside(v, pos, xs)
  <2>1. u < Size(v) - pos
    <3>1. Size(v) - pos \in Int /\ u \in Int
      BY OfVector, SourceObjects, Truncated, Constants DEF Positions, Sizes
    <3> QED
      BY <1>3, <3>1
  <2> QED
    BY <1>3, <2>1, InsertInsideRefines
<1>4. CASE /\ u > FreeSpace(v) /\ Realloc /\ growth(Size(v), u) # 0
           /\ InsertRealloc(v, pos, xs, growth(Size(v), u)) /\ UNCHANGED <<ty, alive>>
  BY <1>4, InsertReallocRefines
<1>5. CASE Len(xs) = 0 /\ Unchanged("insert", v, <<pos, xs>>, "ok")
  <2>1. PICK e, S, args : e = Elements(v) /\ S = Worths(v) /\ args = <<pos, xs>>
    OBVIOUS
  <2>2. e \in Seq(S) /\ pos \in 0 .. Len(e) /\ xs = <<>> /\ args[1] = pos /\ args[2] = xs
    <3>1. xs \in Seq(Vals)
      BY SourceObjects
    <3>2. xs = <<>>
      BY <1>5, <3>1
    <3> QED
      BY <2>1, <3>2, OfSlots DEF Positions
  <2>3. Inserted(e, pos, <<>>) = e
    <3>1. Before(e, pos) \o Behind(e, pos) = e
      BY <2>2, WholeAgain
    <3>2. PICK a : a = Before(e, pos)
      OBVIOUS
    <3>3. a \o <<>> = a
      <4>1. a \in Seq(S)
        BY <2>2, <3>2 DEF Before
      <4> QED
        BY <4>1
    <3> QED
      BY <3>1, <3>2, <3>3 DEF Inserted
  <2>4. Yields("insert", args, e, e)
    BY <2>2, <2>3 DEF Yields
  <2> QED
    BY <1>5, <2>1, <2>4, QuietEdits
<1> QED
  BY <1>1, <1>2, <1>3, <1>4, <1>5 DEF Insert

\* The whole of a sequence.
LEMMA BeforeEnd ==
  ASSUME NEW S, NEW e, e \in Seq(S)
  PROVE  Before(e, Len(e)) = e
BY DEF Before

\* erase of a range, which the single erase is a case of.
LEMMA EraseRefines ==
  ASSUME Good, NEW v \in alive, NEW first \in Positions(v), NEW end \in Positions(v),
         first <= end, NEW op \in {"erase", "erase_range"}, NEW args,
         EraseRange(v, first, end, op, args),
         NEW e, e = Elements(v), NEW r, r = Before(e, first) \o Behind(e, end),
         Yields(op, args, e, r)
  PROVE  Value!Next
<1>1. PICK n, c, s, S, tail : /\ n = Size(v) /\ c = Capacity(v) /\ s = Slots(v)
                              /\ S = Worths(v) /\ tail = n - end
  OBVIOUS
<1>2. /\ n \in Nat /\ c \in Nat /\ n <= c /\ DOMAIN s = 0 .. c - 1 /\ IsBlock(s, c)
      /\ e \in Seq(S) /\ Len(e) = n
      /\ \A i \in 0 .. n - 1 : s[i] = e[i + 1] /\ s[i] # Raw
  BY <1>1, OfSlots
<1>3. /\ n \in Nat /\ c \in Int /\ n <= c /\ first \in 0 .. n /\ end \in 0 .. n /\ first <= end
      /\ tail \in Nat /\ tail \in Int /\ tail = n - end /\ end \in Int /\ first \in Int
      /\ first + tail = n - (end - first)
  <2>1. first \in 0 .. n /\ end \in 0 .. n /\ first <= end
    BY <1>1 DEF Positions
  <2> QED
    BY ONLY <1>1, <1>2, <2>1
<1>4. PICK closed, t, m : /\ closed = MoveWithin(s, end, tail, first) /\ m = first + tail
                          /\ t = Destroy(closed, m, n)
  OBVIOUS
<1>5. \/ first = end /\ Unchanged(op, v, args, "ok")
      \/ Write(v, t, m) /\ Called(op, v, args, "ok")
      \/ \E k \in Span(0, tail) : /\ Write(v, MoveWithin(s, end, k, first), n)
                                  /\ Called(op, v, args, "threw")
  BY <1>1, <1>4 DEF EraseRange
<1>6. CASE first = end /\ Unchanged(op, v, args, "ok")
  <2>1. r = e
    BY <1>2, <1>3, <1>6, WholeAgain
  <2> QED
    BY <1>6, <2>1, QuietEdits
<1>7. CASE \E k \in Span(0, tail) : /\ Write(v, MoveWithin(s, end, k, first), n)
                                    /\ Called(op, v, args, "threw")
  <2>1. PICK q : Write(v, q, n) /\ IsBlock(q, Capacity(v)) /\ Called(op, v, args, "threw")
    BY <1>1, <1>2, <1>7, SameBlock
  <2> QED
    BY <2>1, WriteFails
<1>8. CASE Write(v, t, m) /\ Called(op, v, args, "ok")
  <2>1. MovesIn(s, c, end, tail, first, closed)
    <3>1. DOMAIN s = 0 .. c - 1 /\ closed = MoveWithin(s, end, tail, first)
      BY <1>2, <1>4
    <3> QED
      BY ONLY <1>3, <3>1, MovedIn
  <2>2. Destroys(closed, c, m, n, t)
    <3>1. DOMAIN closed = 0 .. c - 1 /\ m \in Int /\ n \in Int /\ t = Destroy(closed, m, n)
      BY <1>3, <1>4, <2>1 DEF MovesIn
    <3> QED
      BY ONLY <1>3, <3>1, Destroyed
  <2>3. ASSUME NEW i \in 0 .. first - 1 PROVE t[i] = e[i + 1] /\ t[i] # Raw
    <3>1. i \in 0 .. c - 1 /\ i < first /\ i < end /\ i < m /\ i \in 0 .. n - 1
      BY ONLY <1>3, <1>4, <2>3
    <3>2. closed[i] = s[i]
      BY <2>1, <3>1 DEF MovesIn
    <3> QED
      BY <1>2, <2>2, <3>1, <3>2 DEF Destroys
  <2>4. ASSUME NEW i \in first .. n - (end - first) - 1
        PROVE  t[i] = e[i + (end - first) + 1] /\ t[i] # Raw
    <3>1. /\ i \in 0 .. c - 1 /\ first <= i /\ i < first + tail /\ i < m /\ i \in 0 .. n - 1
          /\ i - first + end \in 0 .. c - 1 /\ i - first + end \in 0 .. n - 1
          /\ i + (end - first) + 1 = (i - first + end) + 1
      BY ONLY <1>3, <1>4, <2>4
    <3>2. closed[i] = s[i - first + end]
      BY <1>2, <2>1, <3>1 DEF MovesIn
    <3> QED
      BY <1>2, <2>2, <3>1, <3>2 DEF Destroys
  <2>5. Closed(t, e, first, end)
    <3>1. 0 .. n - (end - first) - 1 \subseteq DOMAIN t
      <4>1. DOMAIN t = 0 .. c - 1
        BY <2>2 DEF Destroys
      <4> QED
        BY ONLY <1>3, <4>1
    <3> QED
      BY <1>2, <2>3, <2>4, <3>1 DEF Closed
  <2>6. r \in Seq(S) /\ Len(r) = m /\ Holds(t, r)
    <3>1. m = Len(e) - (end - first)
      BY <1>2, <1>3, <1>4
    <3>2. Cutting(S, e, first, end, r, t, m)
      BY <1>2, <1>3, <2>5, <3>1 DEF Cutting
    <3>3. HoldsAll(S, r, t, m)
      BY ONLY <3>2, HoldsCut
    <3> QED
      BY <3>3 DEF HoldsAll
  <2>7. m = Len(r) /\ IsBlock(t, Capacity(v))
    <3>1. IsBlock(closed, c)
      BY <1>2, <1>4, SameBlock
    <3>2. IsBlock(t, c)
      BY <1>4, <3>1, SameBlock
    <3> QED
      BY <1>1, <1>3, <1>4, <2>6, <3>2
  <2> QED
    BY <1>8, <2>6, <2>7, WriteEdits
<1> QED
  BY <1>5, <1>6, <1>7, <1>8

\* erase of one element, also at the end.
LEMMA EraseOneRefines ==
  ASSUME Good, NEW v \in alive, NEW pos \in Positions(v), Erase(v, pos)
  PROVE  Value!Next
<1>1. PICK n, e, S, args : n = Size(v) /\ e = Elements(v) /\ S = Worths(v) /\ args = <<pos>>
  OBVIOUS
<1>2. e \in Seq(S) /\ Len(e) = n /\ n \in Nat /\ pos \in 0 .. n /\ args[1] = pos
  BY <1>1, OfSlots DEF Positions
<1>3. PICK end : end = IF pos = n THEN pos ELSE pos + 1
  OBVIOUS
<1>4. end \in Positions(v) /\ pos <= end
  BY <1>1, <1>2, <1>3 DEF Positions
<1>5. PICK r : r = Before(e, pos) \o Behind(e, end)
  OBVIOUS
<1>6. r = Before(e, pos) \o Behind(e, pos + 1)
  <2>1. CASE pos = n
    <3>1. Behind(e, pos) = <<>> /\ Behind(e, pos + 1) = <<>>
      BY <1>2, <2>1 DEF Behind
    <3>2. end = pos
      BY <1>3, <2>1
    <3> QED
      BY <1>5, <3>1, <3>2
  <2>2. CASE pos # n
    BY <1>3, <1>5, <2>2
  <2> QED
    BY <2>1, <2>2
<1>7. Yields("erase", args, e, r)
  BY <1>2, <1>6 DEF Yields
<1>8. EraseRange(v, pos, end, "erase", args)
  BY <1>1, <1>3 DEF Erase
<1> QED
  BY <1>1, <1>4, <1>5, <1>7, <1>8, EraseRefines

\* erase of a range.
LEMMA Erase2Refines ==
  ASSUME Good, NEW v \in alive, NEW first \in Positions(v), NEW end \in Positions(v),
         Erase2(v, first, end)
  PROVE  Value!Next
<1>1. PICK e, args, r : e = Elements(v) /\ args = <<first, end>>
                        /\ r = Before(e, first) \o Behind(e, end)
  OBVIOUS
<1>2. args[1] = first /\ args[2] = end /\ first <= end
      /\ EraseRange(v, first, end, "erase_range", args)
  BY <1>1 DEF Erase2
<1>3. Yields("erase_range", args, e, r)
  BY <1>1, <1>2 DEF Yields
<1> QED
  BY <1>1, <1>2, <1>3, EraseRefines

\* The elements from m on are destroyed.
LEMMA TruncateRefines ==
  ASSUME Good, NEW v \in alive, NEW m \in Positions(v), Truncate(v, m),
         NEW op, NEW args, Called(op, v, args, "ok"),
         NEW e, e = Elements(v), Yields(op, args, e, Before(e, m))
  PROVE  Value!Next
<1>1. PICK n, c, s, S : /\ n = Size(v) /\ c = Capacity(v) /\ s = Slots(v) /\ S = Worths(v)
  OBVIOUS
<1>2. /\ n \in Nat /\ c \in Nat /\ n <= c /\ DOMAIN s = 0 .. c - 1 /\ IsBlock(s, c)
      /\ e \in Seq(S) /\ Len(e) = n
      /\ \A i \in 0 .. n - 1 : s[i] = e[i + 1] /\ s[i] # Raw
  BY <1>1, OfSlots
<1>3. m \in 0 .. n /\ m \in Int /\ n \in Int /\ c \in Int
  BY <1>1, <1>2 DEF Positions
<1>4. PICK t, r : t = Destroy(s, m, n) /\ r = Before(e, m)
  OBVIOUS
<1>5. Destroys(s, c, m, n, t)
  <2>1. DOMAIN s = 0 .. c - 1
    BY <1>2
  <2> QED
    BY ONLY <1>3, <1>4, <2>1, Destroyed
<1>6. Begins(t, e, m)
  <2>1. ASSUME NEW i \in 0 .. m - 1 PROVE i \in DOMAIN t /\ t[i] = e[i + 1] /\ t[i] # Raw
    <3>1. i \in 0 .. c - 1 /\ i < m /\ i \in 0 .. n - 1
      BY <1>2, <1>3
    <3> QED
      BY <1>2, <1>5, <3>1 DEF Destroys
  <2> QED
    BY <2>1 DEF Begins
<1>7. r \in Seq(S) /\ Len(r) = m /\ Holds(t, r)
  <2>1. e \in Seq(S) /\ m \in 0 .. Len(e)
    BY <1>2, <1>3
  <2> QED
    BY ONLY <1>4, <1>6, <2>1, HoldsBefore
<1>8. Write(v, t, m) /\ IsBlock(t, Capacity(v))
  BY <1>1, <1>2, <1>4, SameBlock DEF Truncate
<1> QED
  BY <1>4, <1>7, <1>8, WriteEdits

\* erase_at_end, pop_back and clear.
LEMMA EraseAtEndRefines ==
  ASSUME Good, NEW v \in alive, NEW pos \in Positions(v),
         \/ EraseAtEnd(v, pos) \/ PopBack(v) \/ Clear(v)
  PROVE  Value!Next
<1>1. PICK n, e, S : n = Size(v) /\ e = Elements(v) /\ S = Worths(v)
  OBVIOUS
<1>2. e \in Seq(S) /\ Len(e) = n /\ n \in Nat /\ pos \in 0 .. n
  BY <1>1, OfSlots DEF Positions
<1>3. ASSUME NEW m \in Positions(v), Truncate(v, m), Called("erase_at_end", v, <<m>>, "ok")
      PROVE  Value!Next
  <2>1. PICK args : args = <<m>>
    OBVIOUS
  <2>2. args[1] = m /\ Called("erase_at_end", v, args, "ok")
    BY <1>3, <2>1
  <2>3. Yields("erase_at_end", args, e, Before(e, m))
    BY <2>2 DEF Yields
  <2> QED
    BY <1>1, <1>3, <2>2, <2>3, TruncateRefines
<1>4. CASE EraseAtEnd(v, pos) /\ pos < n
  BY <1>1, <1>3, <1>4 DEF EraseAtEnd
<1>5. CASE EraseAtEnd(v, pos) /\ ~(pos < n)
  <2>1. PICK args : args = <<pos>>
    OBVIOUS
  <2>2. args[1] = pos /\ pos = n /\ Unchanged("erase_at_end", v, args, "ok")
    BY <1>1, <1>2, <1>5, <2>1 DEF EraseAtEnd
  <2>3. Before(e, pos) = e
    BY <1>2, <2>2, BeforeEnd
  <2>4. Yields("erase_at_end", args, e, e)
    BY <2>2, <2>3 DEF Yields
  <2> QED
    BY <1>1, <2>2, <2>4, QuietEdits
<1>6. CASE PopBack(v)
  <2>1. PICK m : m = n - 1
    OBVIOUS
  <2>2. m \in Positions(v) /\ Truncate(v, m) /\ Called("erase_at_end", v, <<m>>, "ok")
    BY <1>1, <1>2, <1>6, <2>1 DEF PopBack, Positions
  <2> QED
    BY <1>3, <2>2
<1>7. CASE Clear(v)
  <2>1. PICK m : m = 0
    OBVIOUS
  <2>2. m \in Positions(v) /\ Truncate(v, m) /\ Called("erase_at_end", v, <<m>>, "ok")
    BY <1>1, <1>2, <1>7, <2>1 DEF Clear, Positions
  <2> QED
    BY <1>3, <2>2
<1> QED
  BY <1>4, <1>5, <1>6, <1>7

\* The elements copied into fresh storage.
LEMMA CopyHolds ==
  ASSUME Good, NEW v \in alive, NEW c, c \in Nat, Size(v) <= c, NEW e, e = Elements(v),
         NEW t, t = Construct(Blank(c), 0, e)
  PROVE  e \in Seq(Worths(v)) /\ Len(e) = Size(v) /\ Holds(t, e)
<1>1. PICK n, s, S, z : n = Size(v) /\ s = Slots(v) /\ S = Worths(v) /\ z = 0
  OBVIOUS
<1>2. /\ n \in Nat /\ e \in Seq(S) /\ Len(e) = n /\ n <= c
      /\ \A i \in 0 .. n - 1 : s[i] = e[i + 1] /\ s[i] # Raw
  BY <1>1, OfSlots
<1>3. Fresh(c, z, e, t)
  <2>1. c \in Int /\ z \in Int /\ Len(e) \in Nat /\ t = Construct(Blank(c), z, e)
    BY <1>1, <1>2
  <2> QED
    BY ONLY <2>1, BuiltFresh
<1>4. ASSUME NEW i \in 0 .. n - 1 PROVE i \in DOMAIN t /\ t[i] # Raw /\ t[i] = e[i + 1]
  <2>1. i \in 0 .. c - 1 /\ z <= i /\ i < z + n /\ i - z + 1 = i + 1
    BY <1>1, <1>2
  <2> QED
    BY <1>2, <1>3, <2>1 DEF Fresh
<1> QED
  BY <1>1, <1>2, <1>4 DEF Holds

\* reserve and shrink_to_fit that move the elements to a new block.
LEMMA RelocateDynRefines ==
  ASSUME Good, NEW v \in alive, NEW c, c \in Nat, Size(v) <= c,
         NEW op \in {"reserve", "shrink_to_fit"}, NEW args, RelocateDyn(v, c, op, args)
  PROVE  Value!Next
<1>1. PICK e, t, n, old : /\ e = Elements(v) /\ t = Construct(Blank(c), 0, e) /\ n = Size(v)
                          /\ old = Destroy(Slots(v), 0, n)
  OBVIOUS
<1>2. e \in Seq(Worths(v)) /\ n = Len(e) /\ Holds(t, e)
  BY <1>1, CopyHolds
<1>3. Yields(op, args, e, e)
  BY DEF Yields
<1>4. CASE Unchanged(op, v, args, "out_of_storage")
  BY <1>4, QuietFails
<1>5. ASSUME NEW fate \in RelocateFate(ty, n), fate # "ok", UNCHANGED <<ty, alive>>,
             Unwind(NewBlock, Blank(c), NothrowRelocate(ty), op), Called(op, v, args, fate)
      PROVE  Value!Next
  <2>1. fate \in {"threw", "terminated"}
    BY <1>5, Fates
  <2> QED
    BY <1>5, <2>1, UnwindFails
<1>6. ASSUME UNCHANGED <<ty, alive>>, Exchange(v, NewBlock, t, n, old, op), Called(op, v, args, "ok")
      PROVE  Value!Next
  BY <1>1, <1>2, <1>3, <1>6, ExchangeEdits
<1> QED
  BY <1>1, <1>4, <1>5, <1>6 DEF RelocateDyn

\* shrink_to_fit that moves the elements into the buffer.
LEMMA RelocateStaticRefines ==
  ASSUME Good, NEW v \in alive, Capacity(v) > N, Size(v) <= N, RelocateStatic(v, "shrink_to_fit")
  PROVE  Value!Next
<1>1. PICK e, t, n, b, args, op :
        /\ e = Elements(v) /\ t = Construct(Blank(N), 0, e) /\ n = Size(v) /\ b = Data(v)
        /\ args = <<>> /\ op = "shrink_to_fit"
  OBVIOUS
<1>2. N \in Nat
  BY Constants
<1>3. e \in Seq(Worths(v)) /\ Len(e) = n /\ Holds(t, e)
  BY <1>1, <1>2, CopyHolds
<1>4. \/ \E fate \in RelocateFate(ty, n) : fate # "ok" /\ Unchanged(op, v, args, fate)
      \/ /\ vec' = [vec EXCEPT ![v] = Buffered(n)]
         /\ mem' = [mem EXCEPT ![v] = t, ![b] = Blank(0)]
         /\ Called(op, v, args, "ok") /\ alive' = alive
  BY <1>1, Zenon DEF RelocateStatic
<1>5. CASE \E fate \in RelocateFate(ty, n) : fate # "ok" /\ Unchanged(op, v, args, fate)
  BY <1>5, Fates, QuietFails
<1>6. CASE /\ vec' = [vec EXCEPT ![v] = Buffered(n)]
           /\ mem' = [mem EXCEPT ![v] = t, ![b] = Blank(0)]
           /\ Called(op, v, args, "ok") /\ alive' = alive
  <2>1. /\ v \in Vecs /\ IsDynamic(v) /\ b \in {v, NoBlock} \cup Owned(v) /\ b # v
        /\ vec \in [Vecs -> StorageRecord] /\ mem = [p \in Places |-> mem[p]]
        /\ mem[NoBlock] = Blank(0) /\ v \in Places
    <3>1. /\ v \in Vecs /\ IsDynamic(v) /\ b \in heap \cup {NoBlock} /\ heap \subseteq Blocks
          /\ vec \in [Vecs -> StorageRecord] /\ mem = [p \in Places |-> mem[p]]
      BY <1>1, OfVector DEF Good, Typed
    <3>2. b \in {v, NoBlock} \cup Owned(v) /\ mem[NoBlock] = Blank(0)
      BY <1>1, <3>1, Buffers
    <3> QED
      BY <3>1, <3>2, Constants DEF Places
  <2>2. \A p \in Places :
          mem'[p] = mem[p] \/ p \in {v} \/ p \in Blocks \ heap \/ \E x \in {v} : p \in Owned(x)
    BY <1>6, <2>1
  <2>3. Alters({v})
    BY <1>6, <2>1, <2>2 DEF Alters
  <2>4. Size(v)' = n /\ Data(v)' = v /\ mem'[v] = t
    BY <1>6, <2>1 DEF Size, Data, IsDynamic, Buffered
  <2>5. Seen(v)' = Read(t, 0, n)
    BY <1>6, <2>4 DEF Seen, Elements, Slots
  <2>6. Read(t, 0, n) = e
    BY <1>3, ReadHeld
  <2>7. PICK r : r = e
    OBVIOUS
  <2>8. Yields(op, args, e, r)
    BY <1>1, <2>7 DEF Yields
  <2>9. Seen(v)' = r
    BY <2>5, <2>6, <2>7
  <2> QED
    BY <1>1, <1>6, <2>3, <2>8, <2>9, ValueEdits
<1> QED
  BY <1>4, <1>5, <1>6

\* reserve.
LEMMA ReserveRefines ==
  ASSUME Good, NEW v \in alive, NEW c \in Sizes, Reserve(v, c)
  PROVE  Value!Next
<1>1. Size(v) \in Nat /\ Capacity(v) \in Nat /\ Size(v) <= Capacity(v) /\ c \in Nat
  BY OfVector, Constants DEF Sizes
<1>2. PICK args, e, op : args = <<c>> /\ e = Elements(v) /\ op = "reserve"
  OBVIOUS
<1>3. Yields(op, args, e, e)
  BY <1>2 DEF Yields
<1>4. CASE c > Capacity(v) /\ RelocateDyn(v, c, op, args)
  BY <1>1, <1>2, <1>4, RelocateDynRefines
<1>5. CASE Unchanged(op, v, args, "ok")
  BY <1>2, <1>3, <1>5, QuietEdits
<1>6. CASE Unchanged(op, v, args, "out_of_storage")
  BY <1>6, QuietFails
<1> QED
  BY <1>2, <1>4, <1>5, <1>6 DEF Reserve

\* shrink_to_fit.
LEMMA ShrinkToFitRefines ==
  ASSUME Good, NEW v \in alive, ShrinkToFit(v)
  PROVE  Value!Next
<1>1. Size(v) \in Nat /\ N \in Nat
  BY OfVector, Constants
<1>2. PICK args, e, op, n : args = <<>> /\ e = Elements(v) /\ op = "shrink_to_fit" /\ n = Size(v)
  OBVIOUS
<1>3. Yields(op, args, e, e)
  BY <1>2 DEF Yields
<1>4. CASE RelocateDyn(v, n, op, args)
  BY <1>1, <1>2, <1>4, RelocateDynRefines
<1>5. CASE Unchanged(op, v, args, "ok")
  BY <1>2, <1>3, <1>5, QuietEdits
<1>6. CASE Capacity(v) > N /\ ~(Size(v) > N) /\ RelocateStatic(v, op)
  BY <1>1, <1>2, <1>6, RelocateStaticRefines
<1> QED
  BY <1>2, <1>4, <1>5, <1>6 DEF ShrinkToFit

\* Value-initialized elements as a sequence.
LEMMA ZeroSequence ==
  ASSUME NEW n, n \in Nat, NEW zs, zs = Zeros(n)
  PROVE  /\ zs \in Seq(Vals) /\ Len(zs) = n /\ zs = [i \in 1 .. n |-> Zero]
         /\ \A i \in 1 .. n : zs[i] # Raw
<1>1. zs = [i \in 1 .. n |-> Zero] /\ Zero \in Vals /\ Zero # Raw
  BY FuncAssumption DEF Zeros
<1>2. zs \in [1 .. n -> Vals]
  BY ONLY <1>1
<1>3. zs \in Seq(Vals) /\ Len(zs) = n
  BY ONLY <1>2, n \in Nat
<1>4. \A i \in 1 .. n : zs[i] # Raw
  BY <1>1
<1> QED
  BY <1>1, <1>3, <1>4

\* What a resize to more elements makes of a vector.
LEMMA YieldsLonger ==
  ASSUME NEW S, NEW e, e \in Seq(S), NEW k, k \in Nat, k # 0, NEW m, m = Len(e) + k,
         NEW args, args[1] = m, NEW r, r = e \o Zeros(k)
  PROVE  Yields("resize", args, e, r)
<1>1. PICK n : n = Len(e)
  OBVIOUS
<1>2. n \in Nat /\ m = n + k
  BY <1>1
<1>3. m - n = k /\ ~(m <= n)
  BY ONLY <1>2, k \in Nat, k # 0
<1>4. r = e \o [i \in 1 .. m - n |-> Zero]
  BY <1>3 DEF Zeros
<1> QED
  BY <1>1, <1>3, <1>4 DEF Yields

\* The first n + k of c slots hold the n elements e and the k elements zs.
Lengthened(t, c, e, n, zs, k) ==
  /\ c \in Nat /\ k \in Nat /\ n + k <= c /\ DOMAIN t = 0 .. c - 1
  /\ \A i \in 0 .. n - 1 : t[i] = e[i + 1]
  /\ \A i \in n .. n + k - 1 : t[i] = zs[i - n + 1]

\* What the slots hold when the elements of a vector have zeros behind them.
LEMMA LongerHolds ==
  ASSUME Good, NEW v \in alive, NEW e, e = Elements(v), NEW n, n = Size(v),
         NEW t, NEW c, NEW k, NEW zs, zs = Zeros(k), Lengthened(t, c, e, n, zs, k),
         NEW r, r = e \o zs, NEW m, m = n + k
  PROVE  HoldsAll(Worths(v), r, t, m)
<1>0. /\ c \in Nat /\ k \in Nat /\ n + k <= c /\ DOMAIN t = 0 .. c - 1
      /\ \A i \in 0 .. n - 1 : t[i] = e[i + 1]
      /\ \A i \in n .. n + k - 1 : t[i] = zs[i - n + 1]
  BY DEF Lengthened
<1>1. PICK s, S : s = Slots(v) /\ S = Worths(v)
  OBVIOUS
<1>2. /\ n \in Nat /\ e \in Seq(S) /\ Len(e) = n /\ Vals \subseteq S
      /\ \A i \in 0 .. n - 1 : s[i] = e[i + 1] /\ s[i] # Raw
  BY <1>1, OfSlots
<1>3. zs \in Seq(Vals) /\ Len(zs) = k /\ \A i \in 1 .. k : zs[i] # Raw
  BY <1>0, ZeroSequence
<1>4. zs \in Seq(S)
  BY <1>2, <1>3
<1>5. ASSUME NEW i \in 0 .. n - 1 PROVE i \in DOMAIN t /\ t[i] = e[i + 1] /\ t[i] # Raw
  <2>1. i \in 0 .. c - 1
    BY ONLY <1>0, <1>2, <1>5
  <2> QED
    BY <1>0, <1>2, <2>1
<1>6. ASSUME NEW i \in n .. n + k - 1 PROVE i \in DOMAIN t /\ t[i] = zs[i - n + 1] /\ t[i] # Raw
  <2>1. i \in 0 .. c - 1 /\ i - n + 1 \in 1 .. k
    BY ONLY <1>0, <1>2, <1>6
  <2> QED
    BY <1>0, <1>3, <2>1
<1>7. Follows(t, e, zs)
  BY <1>2, <1>3, <1>5, <1>6 DEF Follows
<1>8. m = Len(e) + Len(zs) /\ r = e \o zs
  BY <1>2, <1>3
<1>9. HoldsAll(S, r, t, m)
  BY ONLY <1>2, <1>4, <1>7, <1>8, HoldsJoined
<1> QED
  BY <1>1, <1>9

\* resize to more elements, in a new block.
LEMMA AppendReallocRefines ==
  ASSUME Good, WideGrowth, Realloc, NEW v \in alive, NEW k \in Sizes, k # 0,
         k > FreeSpace(v), Size(v) + k <= MaxSize,
         NEW c, c = growth(Size(v), k),
         AppendRealloc(v, k, c), UNCHANGED <<ty, alive>>
  PROVE  Value!Next
<1>1. PICK n, e, zs, tail, t, old, args, op, m :
        /\ n = Size(v) /\ e = Elements(v) /\ zs = Zeros(k) /\ tail = Construct(Blank(c), n, zs)
        /\ t = Construct(tail, 0, e) /\ old = Destroy(Slots(v), 0, n) /\ args = <<n + k>>
        /\ op = "resize" /\ m = n + k
  OBVIOUS
<1>2. PICK nothrow, NoexAll, undo :
        /\ nothrow = (NothrowRelocate(ty) /\ ty.ndef) /\ NoexAll = (ty.nmove /\ ty.ndef)
        /\ undo = IF ty.nmove THEN tail ELSE Destroy(tail, n, n + k)
  OBVIOUS
<1>3. \/ \E fate \in (IF nothrow THEN {} ELSE ValueFate(ty, k)) \ {"ok"} :
            /\ Unwind(NewBlock, Blank(c), nothrow, op)
            /\ Called(op, v, args, Leaves(fate, NoexAll))
      \/ \E fate \in (IF ty.nmove \/ nothrow THEN {} ELSE CopyFate(ty, n)) \ {"ok"} :
            /\ Unwind(NewBlock, undo, nothrow, op)
            /\ Called(op, v, args, Leaves(fate, NoexAll))
      \/ /\ Exchange(v, NewBlock, t, ToSize(n + k), old, op)
         /\ Called(op, v, args, "ok")
  BY <1>1, <1>2, Zenon DEF AppendRealloc
<1>4. CASE \E fate \in (IF nothrow THEN {} ELSE ValueFate(ty, k)) \ {"ok"} :
            /\ Unwind(NewBlock, Blank(c), nothrow, op)
            /\ Called(op, v, args, Leaves(fate, NoexAll))
  <2>1. \A fate \in (IF nothrow THEN {} ELSE ValueFate(ty, k)) \ {"ok"} :
          Leaves(fate, NoexAll) \in {"threw", "terminated"}
    BY Fates DEF Leaves
  <2> QED
    BY <1>4, <2>1, UnwindFails
<1>5. CASE \E fate \in (IF ty.nmove \/ nothrow THEN {} ELSE CopyFate(ty, n)) \ {"ok"} :
            /\ Unwind(NewBlock, undo, nothrow, op)
            /\ Called(op, v, args, Leaves(fate, NoexAll))
  <2>1. \A fate \in (IF ty.nmove \/ nothrow THEN {} ELSE CopyFate(ty, n)) \ {"ok"} :
          Leaves(fate, NoexAll) \in {"threw", "terminated"}
    BY Fates DEF Leaves
  <2> QED
    BY <1>5, <2>1, UnwindFails
<1>6. CASE Exchange(v, NewBlock, t, ToSize(n + k), old, op) /\ Called(op, v, args, "ok")
  <2>1. /\ n \in Nat /\ n \in Sizes /\ k \in Nat /\ Capacity(v) \in Nat
        /\ FreeSpace(v) = Capacity(v) - n /\ n + k > Capacity(v) /\ n + k \in Sizes
        /\ e \in Seq(Worths(v)) /\ Len(e) = n
    BY <1>1, OfVector, OfSlots, Constants, Free DEF Sizes
  <2>2. c # 0
    BY <1>1, <2>1, GrowthWide, GrowthHoldsAll, Constants DEF WideGrowth, Sizes
  <2>3. c \in Nat /\ n + k <= c /\ ToSize(n + k) = m
    BY <1>1, <2>1, <2>2, Grows, Truncated DEF Sizes
  <2>4. Fresh(c, n, zs, tail) /\ Len(zs) = k
    <3>1. Len(zs) = k
      BY <1>1, <2>1, ZeroSequence
    <3>2. c \in Int /\ n \in Int /\ Len(zs) \in Nat /\ tail = Construct(Blank(c), n, zs)
      BY <1>1, <2>1, <2>3, <3>1
    <3>3. Fresh(c, n, zs, tail)
      BY ONLY <3>2, BuiltFresh
    <3> QED
      BY <3>1, <3>3
  <2>5. PICK z : z = 0
    OBVIOUS
  <2>6. Builds(tail, c, z, e, t)
    <3>1. c \in Int /\ z \in Int /\ Len(e) \in Nat /\ t = Construct(tail, z, e)
          /\ DOMAIN tail = 0 .. c - 1
      BY <1>1, <2>1, <2>3, <2>4, <2>5 DEF Fresh
    <3> QED
      BY ONLY <3>1, Built
  <2>7. ASSUME NEW i \in 0 .. n - 1 PROVE t[i] = e[i + 1]
    <3>1. i \in 0 .. c - 1 /\ i < n /\ z <= i /\ i < z + n /\ i - z + 1 = i + 1
      BY <2>1, <2>3, <2>5
    <3>2. tail[i] = Raw
      BY <2>4, <3>1 DEF Fresh
    <3> QED
      BY <2>1, <2>6, <3>1, <3>2 DEF Builds
  <2>8. ASSUME NEW i \in n .. n + k - 1 PROVE t[i] = zs[i - n + 1]
    <3>1. i \in 0 .. c - 1 /\ n <= i /\ i < n + k /\ z + n <= i
      BY <2>1, <2>3, <2>5
    <3>2. tail[i] = zs[i - n + 1]
      BY <2>4, <3>1 DEF Fresh
    <3> QED
      BY <2>1, <2>6, <3>1, <3>2 DEF Builds
  <2>9. PICK r : r = e \o zs
    OBVIOUS
  <2>10. DOMAIN t = 0 .. c - 1
    BY <2>6 DEF Builds
  <2>11. HoldsAll(Worths(v), r, t, m)
    <3>1. Lengthened(t, c, e, n, zs, k)
      BY <2>1, <2>3, <2>7, <2>8, <2>10 DEF Lengthened
    <3> QED
      BY <1>1, <2>9, <3>1, LongerHolds
  <2>12. Yields(op, args, e, r)
    <3>1. k \in Nat /\ k # 0 /\ m = Len(e) + k /\ args[1] = m /\ e \in Seq(Worths(v))
          /\ r = e \o Zeros(k)
      BY <1>1, <2>1, <2>9
    <3>2. Yields("resize", args, e, r)
      BY ONLY <3>1, YieldsLonger
    <3> QED
      BY <1>1, <3>2
  <2>13. Exchange(v, NewBlock, t, m, old, op)
    BY <1>6, <2>3
  <2>14. r \in Seq(Worths(v)) /\ m = Len(r) /\ Holds(t, r) /\ e = Elements(v)
    BY <1>1, <2>11 DEF HoldsAll
  <2> QED
    BY <1>6, <2>12, <2>13, <2>14, ExchangeEdits
<1> QED
  BY <1>3, <1>4, <1>5, <1>6

\* resize to more elements, in place.
LEMMA AppendWriteRefines ==
  ASSUME Good, NEW v \in alive, NEW k \in Sizes, k # 0, k <= FreeSpace(v),
         NEW m, m = Size(v) + k, NEW args, args[1] = m,
         Write(v, Construct(Slots(v), Size(v), Zeros(k)), m), Called("resize", v, args, "ok")
  PROVE  Value!Next
<1>1. PICK n, c, s, e, zs, t : /\ n = Size(v) /\ c = Capacity(v) /\ s = Slots(v)
                               /\ e = Elements(v) /\ zs = Zeros(k) /\ t = Construct(s, n, zs)
  OBVIOUS
<1>2. /\ n \in Nat /\ c \in Nat /\ n <= c /\ DOMAIN s = 0 .. c - 1 /\ IsBlock(s, c)
      /\ e \in Seq(Worths(v)) /\ Len(e) = n
      /\ \A i \in 0 .. n - 1 : s[i] = e[i + 1]
      /\ \A i \in n .. c - 1 : s[i] = Raw
  BY <1>1, OfSlots
<1>3. k \in Nat /\ n + k <= c
  <2>1. FreeSpace(v) = c - n /\ k \in Nat
    BY <1>1, Free, Constants DEF Sizes
  <2> QED
    BY ONLY <1>2, <2>1, k <= FreeSpace(v)
<1>4. Len(zs) = k
  BY <1>1, <1>3, ZeroSequence
<1>5. Builds(s, c, n, zs, t)
  <2>1. c \in Int /\ n \in Int /\ Len(zs) \in Nat /\ t = Construct(s, n, zs) /\ DOMAIN s = 0 .. c - 1
    BY <1>1, <1>2, <1>3, <1>4
  <2> QED
    BY ONLY <2>1, Built
<1>6. ASSUME NEW i \in 0 .. n - 1 PROVE t[i] = e[i + 1]
  <2>1. i \in 0 .. c - 1 /\ i < n
    BY <1>2
  <2> QED
    BY <1>2, <1>5, <2>1 DEF Builds
<1>7. ASSUME NEW i \in n .. n + k - 1 PROVE t[i] = zs[i - n + 1]
  <2>1. i \in 0 .. c - 1 /\ n <= i /\ i < n + k /\ i \in n .. c - 1
    BY ONLY <1>2, <1>3, <1>7
  <2> QED
    BY <1>2, <1>4, <1>5, <2>1 DEF Builds
<1>8. PICK r : r = e \o zs
  OBVIOUS
<1>9. DOMAIN t = 0 .. c - 1
  BY <1>5 DEF Builds
<1>10. HoldsAll(Worths(v), r, t, m)
  <2>1. Lengthened(t, c, e, n, zs, k)
    BY <1>2, <1>3, <1>6, <1>7, <1>9 DEF Lengthened
  <2> QED
    BY <1>1, <1>8, <2>1, LongerHolds
<1>11. Yields("resize", args, e, r)
  <2>1. k \in Nat /\ k # 0 /\ m = Len(e) + k /\ args[1] = m /\ e \in Seq(Worths(v))
        /\ r = e \o Zeros(k)
    BY <1>1, <1>2, <1>3, <1>8
  <2> QED
    BY ONLY <2>1, YieldsLonger
<1>12. IsBlock(t, Capacity(v))
  BY <1>1, <1>2, SameBlock
<1>13. r \in Seq(Worths(v)) /\ m = Len(r) /\ Holds(t, r) /\ e = Elements(v) /\ Write(v, t, m)
  BY <1>1, <1>10 DEF HoldsAll
<1> QED
  BY <1>11, <1>12, <1>13, WriteEdits

\* resize.
LEMMA ResizeRefines ==
  ASSUME Good, WideGrowth, NEW v \in alive, NEW n \in Sizes, Resize(v, n)
  PROVE  Value!Next
<1>1. /\ Size(v) \in Nat /\ Capacity(v) \in Nat /\ Size(v) <= Capacity(v) /\ n \in Nat
      /\ Capacity(v) <= MaxSize /\ MaxSize \in Nat
      /\ FreeSpace(v) = Capacity(v) - Size(v) /\ n <= MaxSize
  BY OfVector, Constants, Free DEF Sizes
<1>2. PICK args, e, S : args = <<n>> /\ e = Elements(v) /\ S = Worths(v)
  OBVIOUS
<1>3. args[1] = n /\ e \in Seq(S) /\ Len(e) = Size(v)
  BY <1>2, OfSlots
<1>4. n <= Size(v) => Yields("resize", args, e, Before(e, n))
  BY <1>3 DEF Yields
<1>5. CASE n < Size(v) /\ Truncate(v, n) /\ Called("resize", v, args, "ok")
  <2>1. n \in Positions(v)
    BY <1>1, <1>5 DEF Positions
  <2>2. Yields("resize", args, e, Before(e, n))
    BY <1>1, <1>4, <1>5
  <2> QED
    BY <1>2, <1>5, <2>1, <2>2, TruncateRefines
<1>6. CASE n = Size(v) /\ Unchanged("resize", v, args, "ok")
  <2>1. Before(e, n) = e
    BY <1>3, <1>6, BeforeEnd
  <2>2. Yields("resize", args, e, e)
    BY <1>1, <1>4, <1>6, <2>1
  <2> QED
    BY <1>2, <1>6, <2>2, QuietEdits
<1>7. CASE Unchanged("resize", v, args, "out_of_storage")
  BY <1>7, QuietFails
<1>8. CASE n > Size(v) /\ DefaultAppend(v, ToSize(n - Size(v)))
  <2>1. PICK k : k = n - Size(v)
    OBVIOUS
  <2>2. k \in Nat /\ k # 0 /\ k \in Sizes /\ ToSize(k) = k /\ Size(v) + k = n /\ ToSize(n) = n
    BY <1>1, <1>8, <2>1, Truncated DEF Sizes
  <2>3. DefaultAppend(v, k)
    BY <1>8, <2>1, <2>2
  <2>4. CASE /\ k > FreeSpace(v) /\ Realloc /\ UNCHANGED <<ty, alive>>
             /\ AppendRealloc(v, k, growth(Size(v), k))
    BY <1>1, <2>2, <2>4, AppendReallocRefines
  <2>5. CASE Unchanged("resize", v, args, "out_of_storage")
    BY <2>5, QuietFails
  <2>6. ASSUME NEW fate \in ValueFate(ty, k), fate # "ok", Unchanged("resize", v, args, fate)
        PROVE  Value!Next
    BY <2>6, Fates, QuietFails
  <2>7. ASSUME k <= FreeSpace(v), Called("resize", v, args, "ok"),
               Write(v, Construct(Slots(v), Size(v), Zeros(k)), n)
        PROVE  Value!Next
    BY <1>3, <2>2, <2>7, AppendWriteRefines
  <2> QED
    BY <1>2, <2>2, <2>3, <2>4, <2>5, <2>6, <2>7 DEF DefaultAppend
<1> QED
  BY <1>2, <1>5, <1>6, <1>7, <1>8 DEF Resize

\* The outcome of a call names the vector it is made on.
LEMMA ForVector ==
  ASSUME NEW op, NEW v, NEW args, NEW out,
         Called(op, v, args, out) \/ Unchanged(op, v, args, out)
  PROVE  last'.v = v
BY DEF Called, Unchanged

\* Every call that edits one vector.
LEMMA EditRefines ==
  ASSUME Good, WideGrowth, NEW v, Edit(v)
  PROVE  Value!Next /\ \A w : Appends(w)
<1>1. v \in alive
  BY DEF Edit, EmplaceBack, Emplace, Insert, InsertReversed, Erase, EraseAtEnd, Erase2, PopBack,
         Clear, ShrinkToFit, Reserve, Resize
<1>2. ASSUME NEW arg \in ArgsOf(v), EmplaceBack(v, arg)
      PROVE  Value!Next /\ \A w : Appends(w)
  <2>1. last'.v = v
    BY <1>2, ForVector, Zenon
       DEF EmplaceBack, EmplaceBackUnchecked, EmplaceBackRelocateFirst, EmplaceBackConstructFirst
  <2>2. Value!Next /\ Appends(v)
    BY <1>1, <1>2, EmplaceBackRefines
  <2> QED
    BY <2>1, <2>2 DEF Appends
<1>3. CASE last'.op = "emplace_back"
  BY <1>2, <1>3, EditOp
<1>4. CASE last'.op # "emplace_back"
  <2>1. \A w : Appends(w)
    BY <1>4 DEF Appends
  <2>2. CASE \E arg \in ArgsOf(v), pos \in Positions(v) : Emplace(v, pos, arg)
    BY <1>1, <2>1, <2>2, EmplaceRefines
  <2>3. CASE \E xs \in Sources, pos \in Positions(v) : Insert(v, pos, xs)
    BY <1>1, <2>1, <2>3, InsertRefines
  <2>4. CASE InsertReversed(v)
    BY <2>1, <2>4, QuietFails DEF InsertReversed
  <2>5. CASE \E pos \in Positions(v) : Erase(v, pos) \/ EraseAtEnd(v, pos)
    BY <1>1, <2>1, <2>5, EraseOneRefines, EraseAtEndRefines
  <2>6. CASE \E first, end \in Positions(v) : Erase2(v, first, end)
    BY <1>1, <2>1, <2>6, Erase2Refines
  <2>7. CASE PopBack(v) \/ Clear(v)
    <3>1. PICK pos : pos = Size(v)
      OBVIOUS
    <3>2. pos \in Positions(v)
      BY <1>1, <3>1, OfVector DEF Positions
    <3> QED
      BY <1>1, <2>1, <2>7, <3>2, EraseAtEndRefines
  <2>8. CASE ShrinkToFit(v)
    BY <1>1, <2>1, <2>8, ShrinkToFitRefines
  <2>9. CASE \E n \in Sizes : Reserve(v, n) \/ Resize(v, n)
    BY <1>1, <2>1, <2>9, ReserveRefines, ResizeRefines
  <2>10. Value!Next
    BY <1>2, <2>2, <2>3, <2>4, <2>5, <2>6, <2>7, <2>8, <2>9 DEF Edit
  <2> QED
    BY <2>1, <2>10
<1> QED
  BY <1>3, <1>4

-------------------------------------------------------------------------------
(* The operations on storage refine VectorValue.                               *)

\* A call that changes two vectors.
LEMMA TwoChange ==
  ASSUME Good, NEW v \in Vecs, NEW w \in Vecs, v # w, NEW V, V = {v, w}, Alters(V),
         NEW s, Seen(v)' = s, NEW r, Seen(w)' = r
  PROVE  View' = [View EXCEPT ![v] = s, ![w] = r]
<1>1. \A x \in Vecs : Seen(x)' = IF x = w THEN r ELSE IF x = v THEN s ELSE Seen(x)
  BY OthersKeep
<1> QED
  BY <1>1 DEF View

\* A call that creates a vector.
LEMMA ValueCreates ==
  ASSUME Good, NEW v \in Vecs, v \notin alive, Alters({v}), alive' = alive \cup {v},
         NEW op, NEW args, Called(op, v, args, "ok"), NEW s, Seen(v)' = s,
         \/ op = "construct" /\ s = <<>>
         \/ op = "construct_copy" /\ \E w \in alive : s = Elements(w)
  PROVE  Value!Next
<1> DEFINE f == [w \in Vecs |-> IF w \in alive THEN Elements(w) ELSE <<>>]
<1>1. f' = [f EXCEPT ![v] = s]
  BY OneChanges DEF View, Seen
<1>2. last'.op = op /\ last'.v = v /\ last'.out = "ok"
  BY DEF Called
<1>3. \A w \in alive : f[w] = Elements(w)
  BY DEF Good, Typed
<1>4. Value!Construct(v)
  <2>1. CASE op = "construct" /\ s = <<>>
    BY <1>1, <1>2, <2>1 DEF Value!Construct, Value!Becomes
  <2>2. CASE op = "construct_copy" /\ \E w \in alive : s = Elements(w)
    <3>1. PICK w \in alive : s = f[w]
      BY <1>3, <2>2
    <3> QED
      BY <1>1, <1>2, <2>2, <3>1 DEF Value!Construct, Value!Becomes
  <2> QED
    BY <2>1, <2>2
<1> QED
  BY <1>4 DEF Value!Next

\* A call that moves one vector into another.
LEMMA ValueMoves ==
  ASSUME Good, NEW v \in Vecs, NEW w \in alive, v # w, NEW V, V = {v, w}, Alters(V),
         alive' = alive \cup {v}, NEW op, NEW args, args = <<w>>, Called(op, v, args, "ok"),
         Seen(v)' = Elements(w), Seen(w)' = <<>>,
         \/ op = "construct_move" /\ v \notin alive
         \/ op = "assign_move" /\ v \in alive
  PROVE  Value!Next
<1> DEFINE f == [x \in Vecs |-> IF x \in alive THEN Elements(x) ELSE <<>>]
<1>1. w \in Vecs
  BY DEF Good, Typed
<1>2. PICK s, r : s = Elements(w) /\ r = <<>>
  OBVIOUS
<1>3. f' = [f EXCEPT ![v] = s, ![w] = r]
  BY <1>1, <1>2, TwoChange DEF View, Seen
<1>4. last'.op = op /\ last'.v = v /\ last'.args = <<w>> /\ last'.out = "ok"
  BY DEF Called
<1>5. f[w] = s
  BY <1>1, <1>2
<1>6. f' = [f EXCEPT ![v] = f[w], ![w] = <<>>]
  BY <1>2, <1>3, <1>5
<1>7. CASE op = "construct_move" /\ v \notin alive
  <2>1. Value!Construct(v)
    BY <1>4, <1>6, <1>7 DEF Value!Construct
  <2> QED
    BY <2>1 DEF Value!Next
<1>8. CASE op = "assign_move" /\ v \in alive
  <2>1. alive' = alive
    BY <1>8
  <2>2. Value!AssignOrSwap(v, w)
    BY <1>4, <1>6, <1>8, <2>1 DEF Value!AssignOrSwap
  <2> QED
    BY <1>1, <2>2 DEF Value!Next
<1> QED
  BY <1>7, <1>8

\* A call that copies one vector into another, or a vector into itself.
LEMMA ValueAssigns ==
  ASSUME Good, NEW v \in alive, NEW w \in alive, Alters({v}), alive' = alive,
         Called("assign_copy", v, <<w>>, "ok"), NEW s, Seen(v)' = s,
         s = IF v = w THEN <<>> ELSE Elements(w)
  PROVE  Value!Next
<1> DEFINE f == [x \in Vecs |-> IF x \in alive THEN Elements(x) ELSE <<>>]
<1>1. v \in Vecs /\ w \in Vecs
  BY DEF Good, Typed
<1>2. f' = [f EXCEPT ![v] = s]
  BY <1>1, OneChanges DEF View, Seen
<1>3. /\ last'.op = "assign_copy" /\ last'.v = v /\ last'.args = <<w>> /\ last'.out = "ok"
  BY DEF Called
<1>4. f[w] = Elements(w)
  BY <1>1
<1>5. CASE v = w
  <2>1. Value!AssignOrSwap(v, w)
    BY <1>2, <1>3, <1>5 DEF Value!AssignOrSwap
  <2> QED
    BY <1>1, <2>1 DEF Value!Next
<1>6. CASE v # w
  <2>1. f' = [f EXCEPT ![v] = f[w]]
    BY <1>2, <1>4, <1>6
  <2>2. Value!AssignOrSwap(v, w)
    BY <1>3, <2>1 DEF Value!AssignOrSwap
  <2> QED
    BY <1>1, <2>2 DEF Value!Next
<1> QED
  BY <1>5, <1>6

\* A call that exchanges two vectors.
LEMMA ValueSwaps ==
  ASSUME Good, NEW v \in alive, NEW w \in alive, v # w, NEW V, V = {v, w}, Alters(V),
         alive' = alive, Called("swap", v, <<w>>, "ok"),
         Seen(v)' = Elements(w), Seen(w)' = Elements(v)
  PROVE  Value!Next
<1> DEFINE f == [x \in Vecs |-> IF x \in alive THEN Elements(x) ELSE <<>>]
<1>1. v \in Vecs /\ w \in Vecs
  BY DEF Good, Typed
<1>2. PICK s, r : s = Elements(w) /\ r = Elements(v)
  OBVIOUS
<1>3. f' = [f EXCEPT ![v] = s, ![w] = r]
  BY <1>1, <1>2, TwoChange DEF View, Seen
<1>4. last'.op = "swap" /\ last'.v = v /\ last'.args = <<w>> /\ last'.out = "ok"
  BY DEF Called
<1>5. f[w] = s /\ f[v] = r
  BY <1>1, <1>2
<1>6. f' = [f EXCEPT ![v] = f[w], ![w] = f[v]]
  BY <1>3, <1>5
<1>7. Value!AssignOrSwap(v, w)
  BY <1>4, <1>6 DEF Value!AssignOrSwap
<1> QED
  BY <1>1, <1>7 DEF Value!Next

\* Nothing is read from no slots.
LEMMA ReadNothing ==
  ASSUME NEW s
  PROVE  Read(s, 0, 0) = <<>>
<1>1. Read(s, 0, 0) \in Seq({Get(s, 0 + i - 1) : i \in 1 .. 0}) /\ Len(Read(s, 0, 0)) = 0
  BY DEF Read
<1> QED
  BY <1>1

\* The default constructor.
LEMMA DefaultConstructRefines ==
  ASSUME Good, NEW v \in Vecs, DefaultConstruct(v)
  PROVE  Value!Next
<1>1. /\ v \notin alive /\ alive' = alive \cup {v} /\ vec' = [vec EXCEPT ![v] = Empty]
      /\ mem' = mem /\ Called("construct", v, <<>>, "ok") /\ vec \in [Vecs -> StorageRecord]
  BY DEF DefaultConstruct, Good, Typed
<1>2. Alters({v})
  BY <1>1 DEF Alters
<1>3. Size(v)' = 0
  BY <1>1 DEF Size, Empty, Buffered, Dynamic
<1>4. Seen(v)' = Read(Slots(v)', 0, 0)
  BY <1>1, <1>3 DEF Seen, Elements
<1>5. Seen(v)' = <<>>
  <2>1. PICK s : s = Slots(v)'
    OBVIOUS
  <2> QED
    BY <1>4, <2>1, ReadNothing
<1>6. PICK r : r = <<>>
  OBVIOUS
<1> QED
  BY <1>1, <1>2, <1>5, <1>6, ValueCreates

\* The destructor.
LEMMA DestroyVectorRefines ==
  ASSUME Good, NEW v \in Vecs, DestroyVector(v)
  PROVE  Value!Next
<1> DEFINE f == [w \in Vecs |-> IF w \in alive THEN Elements(w) ELSE <<>>]
<1>1. /\ v \in alive /\ alive' = alive \ {v} /\ vec' = [vec EXCEPT ![v] = Empty]
      /\ mem' = [mem EXCEPT ![Data(v)] = Released(Data(v))]
      /\ Called("destroy", v, <<>>, "ok") /\ vec \in [Vecs -> StorageRecord]
      /\ mem = [p \in Places |-> mem[p]]
  BY DEF DestroyVector, Good, Typed
<1>2. /\ Data(v) \in {v, NoBlock} \cup Owned(v) /\ Data(v) \in Places
      /\ Released(NoBlock) = mem[NoBlock]
  BY <1>1, OfVector, Buffers, Constants DEF Released
<1>3. \A p \in Places :
        mem'[p] = mem[p] \/ p \in {v} \/ p \in Blocks \ heap \/ \E x \in {v} : p \in Owned(x)
  BY <1>1, <1>2
<1>4. Alters({v})
  BY <1>1, <1>3 DEF Alters
<1>5. Seen(v)' = <<>>
  BY <1>1 DEF Seen
<1>6. PICK r : r = <<>>
  OBVIOUS
<1>7. f' = [f EXCEPT ![v] = r]
  BY <1>4, <1>5, <1>6, OneChanges DEF View, Seen
<1>8. last'.op = "destroy" /\ last'.v = v /\ last'.out = "ok"
  BY <1>1 DEF Called
<1>9. Value!Destroy(v)
  BY <1>1, <1>6, <1>7, <1>8 DEF Value!Destroy, Value!Becomes
<1> QED
  BY <1>9 DEF Value!Next

\* Slots without objects are blank.
LEMMA NoneLive ==
  ASSUME NEW s, NEW c \in Int, IsBlock(s, c), ~AnyLive(s)
  PROVE  s = Blank(c)
<1>1. DOMAIN s = 0 .. c - 1 /\ s = [i \in DOMAIN s |-> s[i]]
  BY DEF IsBlock
<1> QED
  BY <1>1 DEF AnyLive, Blank

\* What a caller sees of slots that hold the sequence r.
LEMMA KeptSeen ==
  ASSUME NEW v, NEW b, NEW t, t = mem'[b], NEW S, NEW r, r \in Seq(S), v \in alive',
         Size(v)' = Len(r), Data(v)' = b, Holds(t, r)
  PROVE  Seen(v)' = r
<1>1. Read(t, 0, Len(r)) = r
  BY ReadHeld
<1>2. Seen(v)' = Read(t, 0, Len(r))
  BY DEF Seen, Elements, Slots
<1> QED
  BY <1>1, <1>2

\* The block of another vector's elements.
LEMMA BufferSeen ==
  ASSUME Good, NEW w \in alive, NEW t, t = Slots(w), NEW e, e = Elements(w)
  PROVE  e \in Seq(Worths(w)) /\ Len(e) = Size(w) /\ Holds(t, e)
<1>1. /\ e \in Seq(Worths(w)) /\ Len(e) = Size(w)
      /\ \A i \in 0 .. Size(w) - 1 : e[i + 1] = t[i] /\ i \in DOMAIN t
  BY OfElements
<1>2. PICK n, s, S, c : n = Size(w) /\ s = Slots(w) /\ S = Worths(w) /\ c = Capacity(w)
  OBVIOUS
<1>3. \A i \in 0 .. n - 1 : s[i] # Raw
  BY <1>2, OfSlots
<1> QED
  BY <1>1, <1>2, <1>3 DEF Holds

\* A vector that has taken the block of another one.
LEMMA TakenSeen ==
  ASSUME Good, NEW v \in Vecs, NEW w \in alive, v # w, IsDynamic(w), TakeBlock(v, w),
         v \in alive', w \in alive', mem'[Data(w)] = mem[Data(w)]
  PROVE  Seen(v)' = Elements(w) /\ Seen(w)' = <<>>
<1>1. vec'[v] = vec[w] /\ vec'[w] = Buffered(0)
  BY DEF TakeBlock, Good, Typed
<1>2. Size(v)' = Size(w) /\ Data(v)' = Data(w) /\ Size(w)' = 0
  BY <1>1 DEF Size, Data, IsDynamic, Buffered
<1>3. Seen(v)' = Elements(w)
  BY <1>2 DEF Seen, Elements, Slots
<1>4. PICK s : s = Slots(w)'
  OBVIOUS
<1>5. Seen(w)' = Read(s, 0, 0)
  BY <1>2, <1>4 DEF Seen, Elements
<1> QED
  BY <1>3, <1>5, ReadNothing

\* A vector whose buffer has taken the elements of another one's.
LEMMA RelocatedSeen ==
  ASSUME Good, NEW v \in Vecs, NEW w \in alive, v # w, ~IsDynamic(w),
         vec' = [vec EXCEPT ![v] = Buffered(Size(w)), ![w] = Buffered(0)],
         v \in alive', w \in alive', mem'[v] = Construct(Blank(N), 0, Elements(w))
  PROVE  Seen(v)' = Elements(w) /\ Seen(w)' = <<>>
<1>1. vec'[v] = Buffered(Size(w)) /\ vec'[w] = Buffered(0)
  BY DEF Good, Typed
<1>2. Size(v)' = Size(w) /\ Data(v)' = v /\ Size(w)' = 0
  BY <1>1 DEF Size, Data, IsDynamic, Buffered
<1>3. PICK e, t, S : e = Elements(w) /\ t = mem'[v] /\ S = Worths(w)
  OBVIOUS
<1>4. e \in Seq(S) /\ Len(e) = Size(w) /\ Holds(t, e)
  <2>1. N \in Nat /\ Size(w) <= N
    BY OfVector, Constants
  <2>2. t = Construct(Blank(N), 0, e)
    BY <1>3
  <2> QED
    BY <1>3, <2>1, <2>2, CopyHolds
<1>5. Seen(v)' = e
  BY <1>2, <1>3, <1>4, KeptSeen
<1>6. PICK s : s = Slots(w)'
  OBVIOUS
<1>7. Seen(w)' = Read(s, 0, 0)
  BY <1>2, <1>6 DEF Seen, Elements
<1> QED
  BY <1>3, <1>5, <1>7, ReadNothing

\* The move constructor.
LEMMA ConstructMoveRefines ==
  ASSUME Good, NEW v \in Vecs, NEW w \in Vecs, ConstructMove(v, w)
  PROVE  Value!Next
<1>1. /\ N > 0 /\ v \notin alive /\ w \in alive /\ v # w
      /\ mem = [p \in Places |-> mem[p]] /\ v \in Places /\ w \in Places
      /\ vec \in [Vecs -> StorageRecord]
  BY Constants DEF ConstructMove, Good, Typed, Places
<1>2. PICK fate \in IF IsDynamic(w) THEN {"ok"}
                    ELSE {Leaves(f, ty.nmove) : f \in RelocateFate(ty, Size(w))} :
        \/ /\ fate = "ok"
           /\ alive' = alive \cup {v}
           /\ IF IsDynamic(w) THEN TakeBlock(v, w) /\ UNCHANGED mem
                              ELSE RelocateBuffer(v, w)
           /\ Called("construct_move", v, <<w>>, "ok")
           /\ UNCHANGED <<ty, heap, leaked>>
        \/ fate # "ok" /\ Unchanged("construct_move", v, <<w>>, fate)
  BY DEF ConstructMove
<1>3. CASE fate # "ok"
  <2>1. PICK f \in RelocateFate(ty, Size(w)) : fate = Leaves(f, ty.nmove)
    BY <1>2, <1>3
  <2>2. fate \in {"threw", "terminated"}
    BY <1>3, <2>1, Fates DEF Leaves
  <2> QED
    BY <1>2, <1>3, <2>2, QuietFails
<1>4. PICK V, args, op : V = {v, w} /\ args = <<w>> /\ op = "construct_move"
  OBVIOUS
<1>5. CASE fate = "ok"
  <2>1. v \in alive' /\ w \in alive' /\ alive' = alive \cup {v} /\ Called(op, v, args, "ok")
    BY <1>1, <1>2, <1>4, <1>5
  <2>2. Alters(V) /\ Seen(v)' = Elements(w) /\ Seen(w)' = <<>>
    <3>1. CASE IsDynamic(w)
      <4>1. TakeBlock(v, w) /\ mem' = mem
        BY <1>2, <1>5, <3>1
      <4>2. Alters(V)
        BY <1>1, <1>4, <2>1, <4>1 DEF Alters, TakeBlock
      <4> QED
        BY <1>1, <2>1, <3>1, <4>1, <4>2, TakenSeen
    <3>2. CASE ~IsDynamic(w)
      <4>1. /\ mem' = [mem EXCEPT ![v] = Construct(Blank(N), 0, Elements(w)),
                                  ![w] = Destroy(mem[w], 0, Size(w))]
            /\ vec' = [vec EXCEPT ![v] = Buffered(Size(w)), ![w] = Buffered(0)]
        BY <1>2, <1>5, <3>2 DEF RelocateBuffer
      <4>2. Alters(V)
        BY <1>1, <1>4, <2>1, <4>1 DEF Alters
      <4>3. mem'[v] = Construct(Blank(N), 0, Elements(w))
        BY <1>1, <4>1
      <4> QED
        BY <1>1, <2>1, <3>2, <4>1, <4>2, <4>3, RelocatedSeen
    <3> QED
      BY <3>1, <3>2
  <2> QED
    BY <1>1, <1>4, <2>1, <2>2, ValueMoves
<1> QED
  BY <1>3, <1>5

\* Move assignment.
LEMMA AssignMoveRefines ==
  ASSUME Good, NEW v \in Vecs, NEW w \in Vecs, AssignMove(v, w)
  PROVE  Value!Next
<1>1. PICK b, cleared, V, args, op :
        /\ b = Data(v) /\ cleared = [mem EXCEPT ![b] = Released(b)]
        /\ V = {v, w} /\ args = <<w>> /\ op = "assign_move"
  OBVIOUS
<1>2. /\ v \in alive /\ w \in alive /\ v # w /\ alive' = alive /\ alive' = alive \cup {v}
      /\ mem = [p \in Places |-> mem[p]] /\ v \in Places /\ w \in Places /\ NoBlock \in Places
      /\ v # NoBlock /\ w # NoBlock /\ vec \in [Vecs -> StorageRecord]
  BY Constants DEF AssignMove, Good, Typed, Places
<1>3. b \in Places /\ b \in {v, NoBlock} \cup Owned(v) /\ Released(NoBlock) = mem[NoBlock]
  BY <1>1, <1>2, OfVector, Buffers, Constants DEF Released
<1>4. /\ cleared = [p \in Places |-> cleared[p]]
      /\ \A p \in Places : p \notin {v} \cup Owned(v) => cleared[p] = mem[p]
  BY <1>1, <1>2, <1>3
<1>5. \/ /\ IsDynamic(w) /\ mem' = cleared /\ TakeBlock(v, w)
         /\ Called(op, v, args, "ok")
      \/ /\ ~IsDynamic(w)
         /\ mem' = [cleared EXCEPT ![v] = Construct(Blank(N), 0, Elements(w)),
                                   ![w] = Destroy(mem[w], 0, Size(w))]
         /\ vec' = [vec EXCEPT ![v] = Buffered(Size(w)), ![w] = Buffered(0)]
         /\ Called(op, v, args, "ok")
      \/ /\ ~IsDynamic(w)
         /\ \E fate \in RelocateFate(ty, Size(w)) \ {"ok"} :
              /\ mem' = cleared
              /\ vec' = [vec EXCEPT ![v] = Buffered(Size(v))]
              /\ Called(op, v, args, Leaves(fate, ty.nmove))
  BY <1>1, Zenon DEF AssignMove
<1>6. CASE IsDynamic(w) /\ mem' = cleared /\ TakeBlock(v, w) /\ Called(op, v, args, "ok")
  <2>1. \A p \in Places :
          mem'[p] = mem[p] \/ p \in V \/ p \in Blocks \ heap \/ \E x \in V : p \in Owned(x)
    BY <1>1, <1>4, <1>6
  <2>2. Alters(V)
    BY <1>1, <1>2, <1>6, <2>1 DEF Alters, TakeBlock
  <2>3. mem'[Data(w)] = mem[Data(w)]
    <3>1. Data(w) \in Places /\ Data(w) \in Owned(w) \cup {NoBlock} /\ Owned(w) \subseteq Blocks
      BY <1>2, <1>6, OfVector, OwnedBlock, OwnedAllocated DEF Good, Typed
    <3>2. Owned(w) \cap Owned(v) = {} /\ Owned(v) \subseteq Blocks
      BY <1>2, OwnedAllocated DEF Good, Typed, Owning
    <3>3. Data(w) \notin {v} \cup Owned(v)
      BY <1>2, <3>1, <3>2, Constants
    <3> QED
      BY <1>4, <1>6, <3>1, <3>3
  <2>4. Seen(v)' = Elements(w) /\ Seen(w)' = <<>>
    BY <1>2, <1>6, <2>3, TakenSeen
  <2> QED
    BY <1>1, <1>2, <1>6, <2>2, <2>4, ValueMoves
<1>7. CASE /\ ~IsDynamic(w)
           /\ mem' = [cleared EXCEPT ![v] = Construct(Blank(N), 0, Elements(w)),
                                     ![w] = Destroy(mem[w], 0, Size(w))]
           /\ vec' = [vec EXCEPT ![v] = Buffered(Size(w)), ![w] = Buffered(0)]
           /\ Called(op, v, args, "ok")
  <2>1. /\ mem'[v] = Construct(Blank(N), 0, Elements(w))
        /\ \A p \in Places : p \notin {v, w} => mem'[p] = cleared[p]
    BY <1>2, <1>4, <1>7
  <2>2. \A p \in Places :
          mem'[p] = mem[p] \/ p \in V \/ p \in Blocks \ heap \/ \E x \in V : p \in Owned(x)
    BY <1>1, <1>4, <2>1
  <2>3. Alters(V)
    BY <1>1, <1>2, <1>7, <2>2 DEF Alters
  <2>4. Seen(v)' = Elements(w) /\ Seen(w)' = <<>>
    BY <1>2, <1>7, <2>1, RelocatedSeen
  <2> QED
    BY <1>1, <1>2, <1>7, <2>3, <2>4, ValueMoves
<1>8. ASSUME NEW fate \in RelocateFate(ty, Size(w)) \ {"ok"}, mem' = cleared,
             vec' = [vec EXCEPT ![v] = Buffered(Size(v))],
             Called(op, v, args, Leaves(fate, ty.nmove))
      PROVE  Value!Next
  <2>1. \A p \in Places :
          mem'[p] = mem[p] \/ p \in {v} \/ p \in Blocks \ heap \/ \E x \in {v} : p \in Owned(x)
    BY <1>4, <1>8
  <2>2. Alters({v})
    BY <1>2, <1>8, <2>1 DEF Alters
  <2>3. last'.v = v /\ last'.op = "assign_move" /\ last'.out \in {"threw", "terminated"}
    BY <1>1, <1>8, Fates DEF Called, Leaves
  <2> QED
    BY <1>2, <2>2, <2>3, ValueBasic
<1> QED
  BY <1>5, <1>6, <1>7, <1>8

\* The copy constructor.
LEMMA ConstructCopyRefines ==
  ASSUME Good, NEW v \in Vecs, NEW w \in Vecs, ConstructCopy(v, w)
  PROVE  Value!Next
<1>1. PICK n, e, S, m, new, args, op :
        /\ n = Size(w) /\ e = Elements(w) /\ S = Worths(w) /\ m = mem[v]
        /\ new = Construct(Blank(n), 0, e) /\ args = <<w>> /\ op = "construct_copy"
  OBVIOUS
<1>2. /\ v \notin alive /\ w \in alive /\ N \in Nat /\ n \in Nat /\ v \in Places
      /\ mem = [p \in Places |-> mem[p]] /\ vec \in [Vecs -> StorageRecord]
  BY <1>1, OfVector, Constants DEF ConstructCopy, Good, Typed, Places
<1>3. e \in Seq(S) /\ Len(e) = n /\ Holds(new, e)
  BY <1>1, <1>2, CopyHolds
<1>4. \E fate \in CopyFate(ty, n) :
       \/ /\ n > N /\ fate = "ok"
          /\ Exchange(v, NewBlock, new, n, m, op)
          /\ alive' = alive \cup {v}
          /\ Called(op, v, args, "ok")
          /\ UNCHANGED ty
       \/ /\ n > N /\ fate # "ok"
          /\ Unwind(NewBlock, Blank(n), ty.ncopy, op)
          /\ Called(op, v, args, fate)
          /\ UNCHANGED <<ty, alive>>
       \/ n > N /\ Unchanged(op, v, args, "threw")
       \/ /\ n <= N /\ fate = "ok"
          /\ mem' = [mem EXCEPT ![v] = Construct(m, 0, e)]
          /\ vec' = [vec EXCEPT ![v] = Buffered(n)]
          /\ alive' = alive \cup {v}
          /\ Called(op, v, args, "ok")
          /\ UNCHANGED <<ty, heap, leaked>>
       \/ n <= N /\ fate # "ok" /\ Unchanged(op, v, args, fate)
  BY <1>1, Zenon DEF ConstructCopy
<1>5. \A fate \in CopyFate(ty, n) \ {"ok"} : fate \in {"threw", "terminated"}
  BY Fates
<1>6. CASE \E out \in {"threw", "terminated"} : Unchanged(op, v, args, out)
  BY <1>6, QuietFails
<1>7. CASE \E out \in {"threw", "terminated"} :
             /\ Unwind(NewBlock, Blank(n), ty.ncopy, op)
             /\ Called(op, v, args, out)
             /\ UNCHANGED <<ty, alive>>
  BY <1>7, UnwindFails
<1>8. CASE /\ Exchange(v, NewBlock, new, n, m, op)
           /\ alive' = alive \cup {v}
           /\ Called(op, v, args, "ok")
  <2>1. Alters({v}) /\ Seen(v)' = Read(new, 0, n)
    BY <1>8, ExchangeView
  <2>2. Read(new, 0, n) = e
    BY <1>3, ReadHeld
  <2>3. Seen(v)' = e
    BY <2>1, <2>2
  <2>4. op = "construct_copy" /\ \E x \in alive : e = Elements(x)
    BY <1>1, <1>2
  <2> QED
    BY <1>2, <1>8, <2>1, <2>3, <2>4, ValueCreates
<1>9. CASE /\ n <= N
           /\ mem' = [mem EXCEPT ![v] = Construct(m, 0, e)]
           /\ vec' = [vec EXCEPT ![v] = Buffered(n)]
           /\ alive' = alive \cup {v}
           /\ Called(op, v, args, "ok")
  <2>1. m = Blank(N)
    BY <1>1, <1>2, Buffers, NoneLive
  <2>2. PICK t : t = Construct(Blank(N), 0, e)
    OBVIOUS
  <2>3. Holds(t, e)
    BY <1>1, <1>2, <1>9, <2>2, CopyHolds
  <2>4. mem'[v] = t
    BY <1>2, <1>9, <2>1, <2>2
  <2>5. vec'[v] = Buffered(n)
    BY <1>2, <1>9
  <2>6. Size(v)' = n /\ Data(v)' = v /\ v \in alive'
    BY <1>9, <2>5 DEF Size, Data, IsDynamic, Buffered
  <2>7. Seen(v)' = e
    BY <1>3, <2>3, <2>4, <2>6, KeptSeen
  <2>8. Alters({v})
    BY <1>2, <1>9 DEF Alters
  <2>9. op = "construct_copy" /\ \E x \in alive : e = Elements(x)
    BY <1>1, <1>2
  <2> QED
    BY <1>2, <1>9, <2>7, <2>8, <2>9, ValueCreates
<1> QED
  BY <1>4, <1>5, <1>6, <1>7, <1>8, <1>9

\* What a copy assignment copies: the elements of the source, and none of the vector itself.
LEMMA SourceHolds ==
  ASSUME Good, NEW v \in alive, NEW w \in alive, NEW n, n = (IF v = w THEN 0 ELSE Size(w)),
         NEW xs, xs = Read(Slots(w), 0, n), NEW c, c \in Nat, n <= c,
         NEW t, t = Construct(Blank(c), 0, xs)
  PROVE  /\ xs = (IF v = w THEN <<>> ELSE Elements(w))
         /\ \E S : xs \in Seq(S)
         /\ Len(xs) = n /\ Holds(t, xs)
<1>1. CASE v = w
  <2>1. n = 0
    BY <1>1
  <2>2. PICK s : s = Slots(w)
    OBVIOUS
  <2>3. xs = Read(s, 0, 0)
    BY <2>1, <2>2
  <2>4. xs = <<>>
    BY <2>3, ReadNothing
  <2>5. Len(xs) = 0 /\ xs \in Seq(Nat) /\ 0 .. Len(xs) - 1 = {}
    BY ONLY <2>4
  <2>6. Holds(t, xs)
    BY <2>5 DEF Holds
  <2> QED
    BY <1>1, <2>1, <2>4, <2>5, <2>6
<1>2. CASE v # w
  <2>1. n = Size(w) /\ xs = Elements(w)
    BY <1>2 DEF Elements
  <2>2. xs \in Seq(Worths(w)) /\ Len(xs) = Size(w) /\ Holds(t, xs)
    BY <2>1, CopyHolds
  <2> QED
    BY <1>2, <2>1, <2>2
<1> QED
  BY <1>1, <1>2

\* Copy assignment.
LEMMA AssignCopyRefines ==
  ASSUME Good, NEW v \in Vecs, NEW w \in Vecs, AssignCopy(v, w)
  PROVE  Value!Next
<1>1. PICK n, xs, grows, unpins, place, freed, emptied, cleared, b, args, op :
        /\ n        = IF v = w THEN 0 ELSE Size(w)
        /\ xs       = Read(Slots(w), 0, n)
        /\ grows    = (Capacity(v) < n)
        /\ unpins   = (~grows /\ IsDynamic(v) /\ n <= N)
        /\ place    = IF unpins THEN v ELSE Data(v)
        /\ freed    = IF grows \/ unpins THEN Owned(v) ELSE {}
        /\ emptied  = IF unpins THEN Buffered(0) ELSE [vec[v] EXCEPT !.size = 0]
        /\ cleared  = [mem EXCEPT ![Data(v)] = IF freed # {} THEN Blank(0)
                                                  ELSE Blank(Capacity(v))]
        /\ b        = BlockOutside(heap \ freed)
        /\ args = <<w>> /\ op = "assign_copy"
  OBVIOUS
<1>2. PICK fate \in CopyFate(ty, n) :
           \/ /\ grows /\ fate = "ok" /\ MemoryLeft(heap \ freed)
              /\ heap' = (heap \ freed) \cup {b}
              /\ mem' = [cleared EXCEPT ![b] = Construct(Blank(n), 0, xs)]
              /\ vec' = [vec EXCEPT ![v] = Dynamic(b, n, n)]
              /\ Called(op, v, args, "ok")
           \/ /\ grows
              /\ Called(op, v, args, IF fate = "ok" THEN "threw" ELSE fate)
           \/ /\ ~grows
              /\ mem' = IF fate = "ok"
                           THEN [cleared EXCEPT ![place] = Construct(@, 0, xs)]
                           ELSE cleared
              /\ vec' = [vec EXCEPT ![v] = [emptied EXCEPT !.size =
                                              IF fate = "ok" THEN n ELSE 0]]
              /\ Called(op, v, args, fate)
  BY <1>1, Zenon DEF AssignCopy
<1>3. /\ v \in alive /\ w \in alive /\ alive' = alive /\ n \in Nat /\ Capacity(v) \in Nat
      /\ N \in Nat /\ Alters({v}) /\ v \in Places /\ Data(v) \in Places
      /\ mem = [p \in Places |-> mem[p]] /\ vec \in [Vecs -> StorageRecord]
  <2>1. v \in alive /\ w \in alive /\ alive' = alive
    BY DEF AssignCopy
  <2>2. Alters({v})
    BY AssignCopyProper
  <2> QED
    BY <1>1, <2>1, <2>2, OfVector, Constants DEF Good, Typed, Places
<1>4. CASE \E out \in {"threw", "terminated"} : Called(op, v, args, out)
  <2>1. last'.v = v /\ last'.op = "assign_copy" /\ last'.out \in {"threw", "terminated"}
    BY <1>1, <1>4 DEF Called
  <2> QED
    BY <1>3, <2>1, ValueBasic
<1>5. ASSUME NEW c, c \in Nat, n <= c, NEW p, NEW t, t = Construct(Blank(c), 0, xs),
             mem'[p] = t, Data(v)' = p, Size(v)' = n, Called(op, v, args, "ok")
      PROVE  Value!Next
  <2>1. xs = (IF v = w THEN <<>> ELSE Elements(w)) /\ Len(xs) = n /\ Holds(t, xs)
        /\ \E S : xs \in Seq(S)
    BY <1>1, <1>3, <1>5, SourceHolds
  <2>2. PICK S : xs \in Seq(S)
    BY <2>1
  <2>3. Seen(v)' = xs
    BY <1>3, <1>5, <2>1, <2>2, KeptSeen
  <2> QED
    BY <1>1, <1>3, <1>5, <2>1, <2>3, ValueAssigns
<1>6. CASE /\ grows /\ MemoryLeft(heap \ freed)
           /\ mem' = [cleared EXCEPT ![b] = Construct(Blank(n), 0, xs)]
           /\ vec' = [vec EXCEPT ![v] = Dynamic(b, n, n)]
           /\ Called(op, v, args, "ok")
  <2>1. b \in Places
    BY <1>1, <1>6, FreshBlock DEF Places
  <2>2. mem'[b] = Construct(Blank(n), 0, xs) /\ vec'[v] = Dynamic(b, n, n)
    BY <1>1, <1>3, <1>6, <2>1
  <2>3. Data(v)' = b /\ Size(v)' = n
    BY <2>2 DEF Data, Size, IsDynamic, Dynamic
  <2> QED
    BY <1>3, <1>5, <1>6, <2>2, <2>3
<1>7. CASE /\ ~grows
           /\ mem' = [cleared EXCEPT ![place] = Construct(@, 0, xs)]
           /\ vec' = [vec EXCEPT ![v] = [emptied EXCEPT !.size = n]]
           /\ Called(op, v, args, "ok")
  <2>1. CASE unpins
    <3>1. IsDynamic(v) /\ n <= N /\ place = v /\ Data(v) # v
      <4>1. IsDynamic(v) /\ n <= N /\ place = v
        BY <1>1, <2>1
      <4>2. Data(v) \in heap \cup {NoBlock} /\ heap \subseteq Blocks
        BY <1>3, <4>1, OfVector DEF Good, Typed
      <4> QED
        BY <4>1, <4>2, Constants
    <3>2. cleared[v] = mem[v] /\ cleared = [p \in Places |-> cleared[p]]
      BY <1>1, <1>3, <3>1
    <3>3. mem[v] = Blank(N)
      BY <1>3, <3>1, Buffers, NoneLive
    <3>4. mem'[v] = Construct(Blank(N), 0, xs)
      BY <1>3, <1>7, <3>1, <3>2, <3>3
    <3>5. vec'[v] = Buffered(n)
      BY <1>1, <1>3, <1>7, <2>1 DEF Buffered
    <3>6. Data(v)' = v /\ Size(v)' = n
      BY <3>5 DEF Data, Size, IsDynamic, Buffered
    <3> QED
      BY <1>3, <1>5, <1>7, <3>1, <3>4, <3>6
  <2>2. CASE ~unpins
    <3>1. place = Data(v) /\ freed = {} /\ emptied = [vec[v] EXCEPT !.size = 0]
      BY <1>1, <1>7, <2>2
    <3>2. cleared = [mem EXCEPT ![Data(v)] = Blank(Capacity(v))]
      BY <1>1, <3>1
    <3>3. mem'[place] = Construct(Blank(Capacity(v)), 0, xs)
      BY <1>3, <1>7, <3>1, <3>2
    <3>4. n <= Capacity(v)
      <4>1. ~(Capacity(v) < n)
        BY <1>1, <1>7
      <4> QED
        BY <1>3, <4>1
    <3>5. vec'[v] = [vec[v] EXCEPT !.size = n]
      BY <1>3, <1>7, <3>1 DEF StorageRecord
    <3>6. Data(v)' = place /\ Size(v)' = n
      <4>1. vec[v] \in StorageRecord
        BY <1>3
      <4>2. vec'[v].active = vec[v].active /\ vec'[v].ptr = vec[v].ptr /\ vec'[v].size = n
        BY <3>5, <4>1 DEF StorageRecord
      <4> QED
        BY <3>1, <4>2 DEF Data, Size, IsDynamic
    <3> QED
      BY <1>3, <1>5, <1>7, <3>3, <3>4, <3>6
  <2> QED
    BY <2>1, <2>2
<1>8. fate # "ok" => fate \in {"threw", "terminated"}
  BY Fates
<1> QED
  BY <1>2, <1>4, <1>6, <1>7, <1>8

\* What is read from a block of capacity c.
Reads(s, c, a, n, xs) ==
  /\ Len(xs) = n
  /\ \A j \in 1 .. n : a + j - 1 \in 0 .. c - 1 /\ s[a + j - 1] # Raw => xs[j] = s[a + j - 1]

\* The values read are those in the slots, where these hold objects.
LEMMA IsRead ==
  ASSUME NEW s, NEW c, c \in Int, DOMAIN s = 0 .. c - 1, NEW a, a \in Int, NEW n, n \in Nat,
         NEW xs, xs = Read(s, a, n)
  PROVE  Reads(s, c, a, n, xs)
<1>1. xs = [j \in 1 .. n |-> Get(s, a + j - 1)]
  BY DEF Read
<1>2. Len(xs) = n
  <2> DEFINE S == {xs[j] : j \in 1 .. n}
  <2>1. xs \in [1 .. n -> S]
    BY <1>1
  <2> QED
    BY <2>1
<1>3. \A j \in 1 .. n : a + j - 1 \in 0 .. c - 1 /\ s[a + j - 1] # Raw
                          => Get(s, a + j - 1) = s[a + j - 1]
  BY DEF Get
<1> QED
  BY <1>1, <1>2, <1>3 DEF Reads

\* A block of capacity c holds the sequence e in its first slots, and nothing behind them.
Stores(s, c, e, n) ==
  /\ DOMAIN s = 0 .. c - 1 /\ Len(e) = n
  /\ \A i \in 0 .. n - 1 : s[i] = e[i + 1] /\ s[i] # Raw
  /\ \A i \in n .. c - 1 : s[i] = Raw

\* The two buffers of a swap exchange what they hold; s has no more elements than l.
LEMMA UnevenHolds ==
  ASSUME NEW c, c \in Nat, NEW s, NEW l, NEW j, j \in Nat, NEW k, k \in Nat, j <= k, k <= c,
         NEW e, NEW f, Stores(s, c, e, j), Stores(l, c, f, k), NEW t, NEW u,
         t = Construct(Assign(s, 0, Read(l, 0, j)), j, Read(l, j, k - j)),
         u = Destroy(Assign(l, 0, Read(s, 0, j)), j, k)
  PROVE  Holds(t, f) /\ Holds(u, e)
<1>1. PICK z, m, p, q, r, a, b : /\ z = 0 /\ m = k - j /\ p = Read(l, z, j) /\ q = Read(l, j, m)
                                 /\ r = Read(s, z, j) /\ a = Assign(s, z, p) /\ b = Assign(l, z, r)
  OBVIOUS
<1>2. c \in Int /\ z \in Int /\ j \in Int /\ k \in Int /\ j \in Nat /\ m \in Nat
      /\ DOMAIN s = 0 .. c - 1 /\ DOMAIN l = 0 .. c - 1 /\ Len(e) = j /\ Len(f) = k
  BY <1>1 DEF Stores
<1>3. Reads(l, c, z, j, p) /\ Reads(l, c, j, m, q) /\ Reads(s, c, z, j, r)
  <2>1. p = Read(l, z, j) /\ q = Read(l, j, m) /\ r = Read(s, z, j)
    BY <1>1
  <2> QED
    BY ONLY <1>2, <2>1, IsRead
<1>4. Len(p) \in Nat /\ Len(q) \in Nat /\ Len(r) \in Nat /\ Len(p) = j /\ Len(q) = m /\ Len(r) = j
  BY <1>2, <1>3 DEF Reads
<1>5. Assigns(s, c, z, p, a) /\ Assigns(l, c, z, r, b)
  <2>1. a = Assign(s, z, p) /\ b = Assign(l, z, r)
    BY <1>1
  <2> QED
    BY ONLY <1>2, <1>4, <2>1, Assigned
<1>6. DOMAIN a = 0 .. c - 1 /\ DOMAIN b = 0 .. c - 1
  BY <1>5 DEF Assigns
<1>7. Builds(a, c, j, q, t) /\ Destroys(b, c, j, k, u)
  <2>1. t = Construct(a, j, q) /\ u = Destroy(b, j, k)
    BY <1>1
  <2> QED
    BY ONLY <1>2, <1>4, <1>6, <2>1, Built, Destroyed
<1>8. ASSUME NEW i \in 0 .. c - 1, i < j
      PROVE  /\ t[i] = f[i + 1] /\ t[i] # Raw
             /\ u[i] = e[i + 1] /\ u[i] # Raw
  <2>1. i \in 0 .. j - 1 /\ i \in 0 .. k - 1 /\ z <= i /\ i < z + j /\ i - z + 1 = i + 1
        /\ i + 1 \in 1 .. j /\ z + (i + 1) - 1 = i
    BY <1>1, <1>8
  <2>2. l[i] = f[i + 1] /\ l[i] # Raw /\ s[i] = e[i + 1] /\ s[i] # Raw
    BY <2>1 DEF Stores
  <2>3. p[i + 1] = l[i] /\ r[i + 1] = s[i]
    BY <1>3, <2>1, <2>2 DEF Reads
  <2>4. a[i] = p[i + 1] /\ b[i] = r[i + 1]
    BY <1>4, <1>5, <2>1, <2>2 DEF Assigns
  <2>5. t[i] = a[i] /\ u[i] = b[i]
    BY <1>7, <1>8 DEF Builds, Destroys
  <2> QED
    BY <2>2, <2>3, <2>4, <2>5
<1>9. ASSUME NEW i \in 0 .. c - 1, j <= i, i < k
      PROVE  t[i] = f[i + 1] /\ t[i] # Raw
  <2>1. i \in 0 .. k - 1 /\ i \in j .. c - 1 /\ z + j <= i /\ i < j + m /\ i - j + 1 \in 1 .. m
        /\ j + (i - j + 1) - 1 = i
    BY <1>1, <1>2, <1>9
  <2>2. l[i] = f[i + 1] /\ l[i] # Raw /\ s[i] = Raw
    BY <2>1 DEF Stores
  <2>3. q[i - j + 1] = l[i]
    BY <1>3, <2>1, <2>2 DEF Reads
  <2>4. a[i] = Raw
    BY <1>4, <1>5, <2>1, <2>2 DEF Assigns
  <2>5. t[i] = q[i - j + 1]
    BY <1>4, <1>7, <1>9, <2>1, <2>4 DEF Builds
  <2> QED
    BY <2>2, <2>3, <2>5
<1>10. DOMAIN t = 0 .. c - 1 /\ DOMAIN u = 0 .. c - 1
  BY <1>7 DEF Builds, Destroys
<1>11. ASSUME NEW i \in 0 .. k - 1
       PROVE  i \in DOMAIN t /\ t[i] # Raw /\ t[i] = f[i + 1]
  <2>1. i \in 0 .. c - 1 /\ (i < j \/ (j <= i /\ i < k))
    BY <1>2, <1>11
  <2> QED
    BY <1>8, <1>9, <1>10, <2>1
<1>12. ASSUME NEW i \in 0 .. j - 1
       PROVE  i \in DOMAIN u /\ u[i] # Raw /\ u[i] = e[i + 1]
  <2>1. i \in 0 .. c - 1 /\ i < j
    BY <1>2, <1>12
  <2> QED
    BY <1>8, <1>10, <2>1
<1> QED
  BY <1>2, <1>11, <1>12 DEF Holds

\* What a vector's slots store.
LEMMA SlotsStore ==
  ASSUME Good, NEW v \in alive, NEW n, n = Size(v), NEW c, c = Capacity(v),
         NEW s, s = Slots(v), NEW e, e = Elements(v)
  PROVE  Stores(s, c, e, n) /\ e \in Seq(Worths(v)) /\ n \in Nat /\ c \in Nat /\ n <= c
<1>1. PICK S : S = Worths(v)
  OBVIOUS
<1>2. /\ n \in Nat /\ c \in Nat /\ n <= c /\ DOMAIN s = 0 .. c - 1
      /\ e \in Seq(S) /\ Len(e) = n
      /\ \A i \in 0 .. n - 1 : s[i] = e[i + 1] /\ s[i] # Raw
      /\ \A i \in n .. c - 1 : s[i] = Raw
  BY <1>1, OfSlots
<1> QED
  BY <1>1, <1>2 DEF Stores

\* A vector that has taken the record of another one.
LEMMA SwappedSeen ==
  ASSUME Good, NEW v \in alive, NEW w \in alive, v \in alive', vec'[v] = vec[w],
         \A p \in Places \ Vecs : mem'[p] = mem[p],
         NEW t, t = mem'[v], ~IsDynamic(w) => Holds(t, Elements(w))
  PROVE  Seen(v)' = Elements(w)
<1>1. Size(v)' = Size(w)
  BY DEF Size
<1>2. CASE IsDynamic(w)
  <2>1. Data(w) \in Places \ Vecs
    BY <1>2, OfVector, Constants DEF Good, Typed
  <2>2. Data(v)' = Data(w) /\ mem'[Data(w)] = mem[Data(w)]
    BY <1>2, <2>1 DEF Data, IsDynamic
  <2> QED
    BY <1>1, <2>2 DEF Seen, Elements, Slots
<1>3. CASE ~IsDynamic(w)
  <2>1. PICK e, S, n : e = Elements(w) /\ S = Worths(w) /\ n = Size(w)
    OBVIOUS
  <2>2. e \in Seq(S) /\ Len(e) = n
    BY <2>1, OfElements
  <2>3. Data(v)' = v /\ Size(v)' = Len(e)
    BY <1>1, <1>3, <2>1, <2>2 DEF Data, IsDynamic
  <2>4. Holds(t, e)
    BY <1>3, <2>1
  <2>5. Seen(v)' = e
    BY <2>2, <2>3, <2>4, KeptSeen
  <2> QED
    BY <2>1, <2>5
<1> QED
  BY <1>2, <1>3

\* Two buffered vectors, of which s has no more elements than l.
LEMMA UnevenSeen ==
  ASSUME Good, NEW s \in alive, NEW l \in alive, ~IsDynamic(s), ~IsDynamic(l),
         Size(s) <= Size(l), NEW t, NEW u,
         t = Construct(Assign(mem[s], 0, Read(mem[l], 0, Size(s))), Size(s),
                       Read(mem[l], Size(s), Size(l) - Size(s))),
         u = Destroy(Assign(mem[l], 0, Read(mem[s], 0, Size(s))), Size(s), Size(l))
  PROVE  Holds(t, Elements(l)) /\ Holds(u, Elements(s))
<1>1. PICK j, k, a, b, e, f : /\ j = Size(s) /\ k = Size(l) /\ a = mem[s] /\ b = mem[l]
                              /\ e = Elements(s) /\ f = Elements(l)
  OBVIOUS
<1>2. Capacity(s) = N /\ Slots(s) = a /\ Capacity(l) = N /\ Slots(l) = b
  BY <1>1, OfVector DEF Slots
<1>3. Stores(a, N, e, j) /\ Stores(b, N, f, k) /\ j \in Nat /\ k \in Nat /\ N \in Nat /\ k <= N
  BY <1>1, <1>2, SlotsStore
<1>4. /\ j <= k /\ t = Construct(Assign(a, 0, Read(b, 0, j)), j, Read(b, j, k - j))
      /\ u = Destroy(Assign(b, 0, Read(a, 0, j)), j, k)
  BY <1>1
<1>5. Holds(t, f) /\ Holds(u, e)
  BY ONLY <1>3, <1>4, UnevenHolds
<1> QED
  BY <1>1, <1>5

\* swap.
LEMMA SwapRefines ==
  ASSUME Good, NEW v \in Vecs, NEW w \in Vecs, Swap(v, w)
  PROVE  Value!Next
<1>1. /\ v \in alive /\ w \in alive /\ v # w /\ alive' = alive
      /\ vec' = [vec EXCEPT ![v] = vec[w], ![w] = vec[v]] /\ Called("swap", v, <<w>>, "ok")
      /\ mem = [p \in Places |-> mem[p]] /\ v \in Places /\ w \in Places /\ N \in Nat
      /\ vec \in [Vecs -> StorageRecord]
  BY Constants DEF Swap, Good, Typed, Places
<1>2. PICK t, u : t = mem'[v] /\ u = mem'[w]
  OBVIOUS
<1> DEFINE Done == /\ \A p \in Places : p \notin {v, w} => mem'[p] = mem[p]
                   /\ ~IsDynamic(w) => Holds(t, Elements(w))
                   /\ ~IsDynamic(v) => Holds(u, Elements(v))
<1>3. Done => Value!Next
  <2> SUFFICES ASSUME Done PROVE Value!Next
    OBVIOUS
  <2>1. vec'[v] = vec[w] /\ vec'[w] = vec[v]
    BY <1>1
  <2>2. \A p \in Places \ Vecs : mem'[p] = mem[p]
    OBVIOUS
  <2>3. Seen(v)' = Elements(w)
    BY <1>1, <1>2, <2>1, <2>2, SwappedSeen
  <2>4. Seen(w)' = Elements(v)
    BY <1>1, <1>2, <2>1, <2>2, SwappedSeen
  <2>5. PICK V : V = {v, w}
    OBVIOUS
  <2>6. Alters(V)
    BY <1>1, <2>5 DEF Alters
  <2> QED
    BY <1>1, <2>3, <2>4, <2>5, <2>6, ValueSwaps
<1>4. CASE ~IsDynamic(v) /\ ~IsDynamic(w) /\ UnevenSwap(v, w)
  <2>1. Size(v) \in Nat /\ Size(w) \in Nat
    BY <1>1, OfVector
  <2>2. CASE Size(v) > Size(w)
    <3>1. mem' = [mem EXCEPT
            ![w] = Construct(Assign(mem[w], 0, Read(mem[v], 0, Size(w))), Size(w),
                             Read(mem[v], Size(w), Size(v) - Size(w))),
            ![v] = Destroy(Assign(mem[v], 0, Read(mem[w], 0, Size(w))), Size(w), Size(v))]
      BY <1>1, <1>4, <2>2 DEF UnevenSwap
    <3>2. /\ u = Construct(Assign(mem[w], 0, Read(mem[v], 0, Size(w))), Size(w),
                           Read(mem[v], Size(w), Size(v) - Size(w)))
          /\ t = Destroy(Assign(mem[v], 0, Read(mem[w], 0, Size(w))), Size(w), Size(v))
          /\ \A p \in Places : p \notin {v, w} => mem'[p] = mem[p]
      BY <1>1, <1>2, <3>1
    <3>3. Size(w) <= Size(v)
      BY <2>1, <2>2
    <3>4. Holds(u, Elements(v)) /\ Holds(t, Elements(w))
      BY <1>1, <1>4, <3>2, <3>3, UnevenSeen
    <3> QED
      BY <1>3, <3>2, <3>4
  <2>3. CASE ~(Size(v) > Size(w))
    <3>1. mem' = [mem EXCEPT
            ![v] = Construct(Assign(mem[v], 0, Read(mem[w], 0, Size(v))), Size(v),
                             Read(mem[w], Size(v), Size(w) - Size(v))),
            ![w] = Destroy(Assign(mem[w], 0, Read(mem[v], 0, Size(v))), Size(v), Size(w))]
      BY <1>1, <1>4, <2>3 DEF UnevenSwap
    <3>2. /\ t = Construct(Assign(mem[v], 0, Read(mem[w], 0, Size(v))), Size(v),
                           Read(mem[w], Size(v), Size(w) - Size(v)))
          /\ u = Destroy(Assign(mem[w], 0, Read(mem[v], 0, Size(v))), Size(v), Size(w))
          /\ \A p \in Places : p \notin {v, w} => mem'[p] = mem[p]
      BY <1>1, <1>2, <3>1
    <3>3. Size(v) <= Size(w)
      BY <2>1, <2>3
    <3>4. Holds(t, Elements(w)) /\ Holds(u, Elements(v))
      BY <1>1, <1>4, <3>2, <3>3, UnevenSeen
    <3> QED
      BY <1>3, <3>2, <3>4
  <2> QED
    BY <2>2, <2>3
<1>5. ASSUME NEW b \in alive, NEW d \in alive, {b, d} = {v, w}, b # d, ~IsDynamic(b), IsDynamic(d),
             MixedSwap(b, d)
      PROVE  /\ \A p \in Places : p \notin {v, w} => mem'[p] = mem[p]
             /\ \E x : x = mem'[d] /\ Holds(x, Elements(b))
  <2>1. b \in Places /\ d \in Places
    BY <1>1, <1>5
  <2>2. mem' = [mem EXCEPT ![d] = Construct(mem[d], 0, Elements(b)), ![b] = Blank(N)]
    BY <1>1, <1>5, <2>1 DEF MixedSwap
  <2>3. mem[d] = Blank(N) /\ Size(b) <= N
    <3>1. d \in Vecs
      BY <1>5, OfVector
    <3>2. IsBlock(mem[d], N) /\ ~AnyLive(mem[d])
      BY <1>5, <3>1, Buffers
    <3> QED
      BY <1>1, <1>5, <3>2, NoneLive, OfVector
  <2>4. PICK e, x : e = Elements(b) /\ x = Construct(Blank(N), 0, e)
    OBVIOUS
  <2>5. mem'[d] = x /\ \A p \in Places : p \notin {b, d} => mem'[p] = mem[p]
    BY <1>1, <1>5, <2>1, <2>2, <2>3, <2>4
  <2>6. Holds(x, e)
    BY <1>1, <1>5, <2>3, <2>4, CopyHolds
  <2> QED
    BY <1>5, <2>4, <2>5, <2>6
<1>6. CASE IsDynamic(v) /\ IsDynamic(w) /\ mem' = mem
  BY <1>3, <1>6
<1>7. CASE ~IsDynamic(v) /\ IsDynamic(w) /\ MixedSwap(v, w)
  <2>1. /\ \A p \in Places : p \notin {v, w} => mem'[p] = mem[p]
        /\ Holds(u, Elements(v))
    BY <1>1, <1>2, <1>5, <1>7
  <2> QED
    BY <1>3, <1>7, <2>1
<1>8. CASE IsDynamic(v) /\ ~IsDynamic(w) /\ MixedSwap(w, v)
  <2>1. /\ \A p \in Places : p \notin {v, w} => mem'[p] = mem[p]
        /\ Holds(t, Elements(w))
    BY <1>1, <1>2, <1>5, <1>8
  <2> QED
    BY <1>3, <1>8, <2>1
<1> HIDE DEF Done
<1> QED
  BY <1>4, <1>6, <1>7, <1>8 DEF Swap

\* The operations of two vectors.
LEMMA BetweenRefines ==
  ASSUME Good, NEW v \in Vecs, NEW w \in Vecs, Between(v, w)
  PROVE  Value!Next
<1>1. CASE SwapAborts(v, w)
  BY <1>1, QuietFails DEF SwapAborts
<1> QED
  BY <1>1, ConstructMoveRefines, ConstructCopyRefines, AssignMoveRefines, AssignCopyRefines,
     SwapRefines DEF Between

\* Construction and destruction.
LEMMA LifetimeRefines ==
  ASSUME Good, NEW v \in Vecs, Lifetime(v)
  PROVE  Value!Next
BY DefaultConstructRefines, DestroyVectorRefines DEF Lifetime

\* They have names of their own.
LEMMA LifetimeOp ==
  ASSUME NEW v, Lifetime(v)
  PROVE  last'.op \in {"construct", "destroy"}
BY Names DEF Lifetime, DefaultConstruct, DestroyVector

\* A step that leaves every vector and its storage as they are.
LEMMA SameView ==
  ASSUME UNCHANGED <<alive, vec, mem>>
  PROVE  View' = View
<1>1. \A v : Elements(v)' = Elements(v)
  BY DEF Elements, Slots, Size, Data, IsDynamic
<1> QED
  BY <1>1 DEF View, Seen

\* A step of the program implements a step of VectorValue and appends what it should.
LEMMA NextRefines ==
  ASSUME WideGrowth, Inv, Next
  PROVE  Value!Next /\ \A w : Appends(w)
<1>1. CASE Return
  <2>1. /\ UNCHANGED <<alive, vec, mem>> /\ last'.op = "none"
    BY <1>1 DEF Return, NoCall
  <2>2. View' = View
    BY <2>1, SameView
  <2>3. Value!Return
    BY <2>1, <2>2 DEF Value!Return, View, Seen
  <2> QED
    BY <2>1, <2>3 DEF Value!Next, Appends
<1>2. ASSUME last = NoCall, NEW v \in Vecs, Lifetime(v)
      PROVE  Value!Next /\ \A w : Appends(w)
  <2>1. Value!Next
    BY <1>2, ReadyGood, LifetimeRefines
  <2> QED
    BY <1>2, <2>1, LifetimeOp DEF Appends
<1>3. ASSUME last = NoCall, NEW v \in Vecs, NEW w \in Vecs, Between(v, w)
      PROVE  Value!Next /\ \A x : Appends(x)
  <2>1. Value!Next
    BY <1>3, ReadyGood, BetweenRefines
  <2> QED
    BY <1>3, <2>1, BetweenOp DEF Appends
<1>4. ASSUME last = NoCall, NEW v \in Editing, Edit(v)
      PROVE  Value!Next /\ \A w : Appends(w)
  BY <1>4, ReadyGood, EditRefines
<1> QED
  BY <1>1, <1>2, <1>3, <1>4 DEF Next

\* emplace_back appends the value it was given, unless it was given an element of the
\* vector itself and a growth relocates that element before it is read.
THEOREM AliasedAppendHolds ==
  ASSUME WideGrowth
  PROVE  Spec => AliasedAppend
<1> DEFINE A == \A v \in alive \cap alive' : Appends(v)
<1>1. Inv /\ [Next]_vars => [A]_vars
  BY NextRefines
<1> QED
  BY <1>1, Invariance, PTL DEF Spec, AliasedAppend, Appends

\* The vectors implement the sequences VectorValue states: every call changes them as its
\* name says, and a call that fails leaves them alone or gives the basic guarantee.
THEOREM RefinesHolds ==
  ASSUME WideGrowth
  PROVE  Spec => Refines
<1>1. Init => Value!Init
  BY DEF Init, StorageInit, Value!Init
<1>2. Inv /\ [Next]_vars => [Value!Next]_(Value!vars)
  <2>1. ASSUME UNCHANGED vars PROVE UNCHANGED Value!vars
    <3>1. UNCHANGED <<alive, vec, mem, last>>
      BY <2>1 DEF vars
    <3>2. View' = View
      BY <3>1, SameView
    <3> QED
      BY <3>1, <3>2 DEF Value!vars, View, Seen
  <2> QED
    BY <2>1, NextRefines
<1> QED
  BY <1>1, <1>2, Invariance, PTL DEF Spec, Refines, Value!Spec

===============================================================================
