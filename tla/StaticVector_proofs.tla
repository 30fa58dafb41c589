-------------------------- MODULE StaticVector_proofs --------------------------
(***************************************************************************)
(* A static_vector never allocates, and exactly the slots below size()     *)
(* hold objects but in the cases StaticLifetimes names, for every          *)
(* capacity, every set of vectors, values and value types, and every width *)
(* of size_type.                                                           *)
(*                                                                         *)
(* The first part shows that the storage of every vector stays in its      *)
(* buffer (Fixed).  The second part takes from SmallVector_proofs what the *)
(* functions shared with small_vector do (Proper); what can go wrong there *)
(* with a block that is exchanged cannot go wrong in a buffer.  Left are   *)
(* the members static_vector has for itself: the bitwise copy and          *)
(* split_by_half.                                                          *)
(***************************************************************************)
EXTENDS StaticVector, SmallVector_proofs, SequenceTheorems

-------------------------------------------------------------------------------
(* Nothing is allocated.                                                       *)

\* The record of a vector that uses its buffer.
InBuffer == [active : {"buffered"}, ptr : {NoBlock}, cap : {0}, size : Int]

\* The part of the inductive invariant that says nothing is allocated.  A vector that holds more elements than its capacity
\* would be copied into a heap block, and split_by_half can make one; but the
\* program does not go on with such a vector.
Fixed ==
  /\ heap = {}
  /\ vec \in [Vecs -> InBuffer]
  /\ alive \subseteq Vecs
  /\ last = NoCall => \A v \in alive : Size(v) <= N

\* The constants in the form the proofs use them.
LEMMA StaticConstants ==
  /\ N \in Nat \ {0} /\ MaxSize \in Nat \ {0} /\ ~Realloc
  /\ \A n \in Int : ToSize(n) \in Int
BY SizeAssumption, StorageAssumption, StaticAssumption DEF ToSize, Sizes

\* While Fixed holds every vector is buffered and has its full capacity.
LEMMA FixedBuffers ==
  ASSUME Fixed, NEW v \in Vecs
  PROVE  /\ ~IsDynamic(v) /\ Capacity(v) = N /\ Owned(v) = {} /\ Data(v) = v
         /\ Size(v) \in Int
BY DEF Fixed, InBuffer, IsDynamic, Capacity, Owned, Data, Size

\* A step that keeps the heap empty and every record buffered, and ends in a
\* call, keeps Fixed.
LEMMA CallFixed ==
  ASSUME Fixed, heap' = {}, vec' \in [Vecs -> InBuffer], alive' \subseteq Vecs,
         NEW op, NEW v, NEW args, NEW out, Called(op, v, args, out), op # "none"
  PROVE  Fixed'
BY DEF Fixed, Called, NoCall

\* A call that changes no vector.
LEMMA QuietFixed ==
  ASSUME Fixed, NEW op, NEW v, NEW args, NEW out, Unchanged(op, v, args, out), op # "none"
  PROVE  Fixed'
BY CallFixed DEF Unchanged, Fixed

\* A call that writes slots and a size into the storage a vector has.
LEMMA WriteFixed ==
  ASSUME Fixed, NEW v \in Vecs, NEW s, NEW n \in Int, Write(v, s, n),
         NEW op, NEW w, NEW args, NEW out, Called(op, w, args, out), op # "none"
  PROVE  Fixed'
<1>1. vec' \in [Vecs -> InBuffer]
  BY DEF Write, Fixed, InBuffer
<1> QED
  BY <1>1, CallFixed DEF Write, Fixed

\* Fixed holds at the start.
LEMMA InitFixed == Init => Fixed
BY StaticConstants DEF Init, StorageInit, Fixed, InBuffer, Empty, Buffered

\* Construction and destruction.
LEMMA LifetimeFixed ==
  ASSUME Fixed, NEW v \in Vecs, Lifetime(v)
  PROVE  Fixed'
<1>1. Empty \in InBuffer
  BY StaticConstants DEF Empty, Buffered, InBuffer
<1>2. CASE DefaultConstruct(v)
  BY <1>1, <1>2, CallFixed DEF DefaultConstruct, Fixed
<1>3. CASE DestroyVector(v)
  BY <1>1, <1>3, CallFixed DEF DestroyVector, Fixed
<1> QED
  BY <1>2, <1>3 DEF Lifetime

\* Construction and assignment from another vector: no vector has more elements
\* than fit in the buffer, so that no block is asked for.
LEMMA ByElementFixed ==
  ASSUME Fixed, last = NoCall, NEW v \in Vecs, NEW w \in Vecs, ByElement(v, w)
  PROVE  Fixed'
<1> USE StaticConstants, FixedBuffers
<1>1. \A n \in Int : Buffered(n) \in InBuffer
  BY DEF Buffered, InBuffer
<1>2. w \in alive => Size(w) <= N
  BY DEF Fixed
<1>3. CASE ConstructMove(v, w)
  BY <1>1, <1>3, CallFixed, QuietFixed DEF ConstructMove, RelocateBuffer, Fixed
<1>4. CASE ConstructCopy(v, w)
  BY <1>1, <1>2, <1>4, CallFixed, QuietFixed DEF ConstructCopy, Fixed
<1>5. CASE AssignMove(v, w)
  BY <1>1, <1>5, CallFixed DEF AssignMove, Fixed
<1>6. CASE AssignCopy(v, w)
  <2> DEFINE n == IF v = w THEN 0 ELSE Size(w)
             size(fate) == IF fate = "ok" THEN n ELSE 0
             emptied == [vec[v] EXCEPT !.size = 0]
  <2>1. n \in Int /\ ~(Capacity(v) < n)
    BY <1>2, <1>6 DEF AssignCopy
  <2>2. PICK fate \in CopyFate(ty, n) :
          /\ heap' = heap \ {}
          /\ vec' = [vec EXCEPT ![v] = [emptied EXCEPT !.size = size(fate)]]
          /\ Called("assign_copy", v, <<w>>, fate)
    <3> HIDE StaticConstants
    <3> QED
      BY <1>6, <2>1, Zenon DEF AssignCopy
  <2>3. size(fate) \in Int
    BY <2>1
  <2>4. [emptied EXCEPT !.size = size(fate)] \in InBuffer
    BY <2>3 DEF Fixed, InBuffer
  <2>5. vec' \in [Vecs -> InBuffer]
    BY <2>2, <2>4 DEF Fixed
  <2> QED
    BY <2>2, <2>5, <1>6, CallFixed DEF AssignCopy, Fixed
<1> QED
  BY <1>3, <1>4, <1>5, <1>6 DEF ByElement

\* The bitwise copy of a trivially copyable vector.
LEMMA BitwiseFixed ==
  ASSUME Fixed, NEW v \in Vecs, NEW w \in Vecs, Bitwise(v, w)
  PROVE  Fixed'
<1>1. vec' \in [Vecs -> InBuffer]
  BY DEF Bitwise, Fixed
<1> QED
  BY <1>1, CallFixed DEF Bitwise, Fixed

\* A swap of two buffers.
LEMMA SwapFixed ==
  ASSUME Fixed, NEW v \in Vecs, NEW w \in Vecs, Swap(v, w) \/ SwapAborts(v, w)
  PROVE  Fixed'
<1>1. CASE Swap(v, w)
  <2>1. vec' \in [Vecs -> InBuffer]
    BY <1>1 DEF Swap, Fixed
  <2> QED
    BY <1>1, <2>1, CallFixed DEF Swap, Fixed
<1>2. CASE SwapAborts(v, w)
  BY <1>2, QuietFixed DEF SwapAborts
<1> QED
  BY <1>1, <1>2

\* split_by_half, the split that puts one element too many included.
LEMMA SplitFixed ==
  ASSUME Fixed, NEW v \in Vecs, NEW w \in Vecs, SplitByHalf(v, w)
  PROVE  Fixed'
<1> DEFINE half == Size(v) \div 2
           count == Size(v) - half
<1>1. half \in Int /\ count \in Int /\ vec[v] \in InBuffer /\ vec[w] \in InBuffer
  BY FixedBuffers DEF Fixed
<1>2. /\ UNCHANGED <<ty, alive, heap, leaked>>
      /\ \E fate : Called("split_by_half", v, <<w>>, fate)
  BY DEF SplitByHalf
<1>3. \/ UNCHANGED vec
      \/ vec' = [vec EXCEPT ![v].size = half, ![w].size = @ + count]
  BY Zenon DEF SplitByHalf
<1>4. vec' \in [Vecs -> InBuffer]
  BY <1>1, <1>3 DEF Fixed, InBuffer
<1> QED
  BY <1>2, <1>4, CallFixed DEF Fixed

\* emplace_back.
LEMMA EmplaceBackFixed ==
  ASSUME Fixed, NEW v \in Vecs, NEW arg, EmplaceBack(v, arg)
  PROVE  Fixed'
<1> USE StaticConstants, FixedBuffers
<1>1. ToSize(Size(v) + 1) \in Int
  OBVIOUS
<1>2. CASE EmplaceBackUnchecked(v, arg)
  BY <1>1, <1>2, WriteFixed, QuietFixed DEF EmplaceBackUnchecked
<1>3. CASE \E args : Unchanged("emplace_back", v, args, "out_of_storage")
  BY <1>3, QuietFixed
<1> QED
  BY <1>2, <1>3 DEF EmplaceBack

\* emplace.
LEMMA EmplaceFixed ==
  ASSUME Fixed, NEW v \in Vecs, NEW arg, NEW pos \in Positions(v), Emplace(v, pos, arg)
  PROVE  Fixed'
<1> USE StaticConstants, FixedBuffers
<1>1. ToSize(Size(v) + 1) \in Int
  OBVIOUS
<1>2. CASE EmplaceAtEnd(v, arg)
  BY <1>1, <1>2, WriteFixed, QuietFixed DEF EmplaceAtEnd
<1>3. CASE EmplaceShift(v, pos, arg)
  BY <1>1, <1>3, WriteFixed, QuietFixed DEF EmplaceShift
<1>4. CASE \E args : Unchanged("emplace", v, args, "out_of_storage")
  BY <1>4, QuietFixed
<1> QED
  BY <1>2, <1>3, <1>4 DEF Emplace

\* insert.
LEMMA InsertFixed ==
  ASSUME Fixed, NEW v \in Vecs, NEW pos \in Positions(v), NEW xs, Len(xs) \in Nat,
         Insert(v, pos, xs)
  PROVE  Fixed'
<1> USE StaticConstants, FixedBuffers
<1> DEFINE u     == ToSize(Len(xs))
           old   == Size(v) - pos
           ext   == ToSize(Len(xs) - old)
           size1 == IF u > old THEN ToSize(Size(v) + ext) ELSE Size(v)
           sizes == {Size(v), size1, ToSize(Size(v) + u)}
           Writes == \E s : \E m \in sizes : \E out :
                       Write(v, s, m) /\ Called("insert", v, <<pos, xs>>, out)
<1>1. sizes \subseteq Int
  <2>1. Len(xs) \in Int /\ pos \in Int
    BY DEF Positions
  <2>2. u \in Int /\ ext \in Int
    BY <2>1
  <2> HIDE DEF u, ext
  <2>3. Size(v) \in Int
    BY FixedBuffers
  <2> HIDE StaticConstants, FixedBuffers
  <2>4. Size(v) + ext \in Int /\ Size(v) + u \in Int
    BY <2>2, <2>3
  <2>5. ToSize(Size(v) + ext) \in Int /\ ToSize(Size(v) + u) \in Int
    BY <2>4, StaticConstants
  <2> QED
    BY <2>3, <2>5, Zenon
<1>2. Writes => Fixed'
  BY <1>1, WriteFixed
<1>3. CASE InsertOverEnd(v, pos, xs)
  <2> HIDE StaticConstants, FixedBuffers
  <2>1. Writes
    BY <1>3, Zenon DEF InsertOverEnd
  <2> QED
    BY <1>2, <2>1
<1>4. CASE InsertInside(v, pos, xs)
  <2> HIDE StaticConstants, FixedBuffers
  <2>1. Writes
    BY <1>4, Zenon DEF InsertInside
  <2> QED
    BY <1>2, <2>1
<1>5. CASE \E args, out : Unchanged("insert", v, args, out)
  BY <1>5, QuietFixed
<1> QED
  BY <1>3, <1>4, <1>5 DEF Insert

\* erase_at_end, pop_back and clear.
LEMMA TruncateFixed ==
  ASSUME Fixed, NEW v \in Vecs,
         (\E pos \in Positions(v) : EraseAtEnd(v, pos)) \/ PopBack(v) \/ Clear(v)
  PROVE  Fixed'
<1> USE StaticConstants, FixedBuffers
<1>1. ASSUME NEW n \in Int, NEW args, Truncate(v, n), Called("erase_at_end", v, args, "ok")
      PROVE  Fixed'
  BY <1>1, WriteFixed DEF Truncate
<1>2. CASE \E pos \in Positions(v) : EraseAtEnd(v, pos)
  BY <1>1, <1>2, QuietFixed DEF EraseAtEnd, Positions
<1>3. CASE PopBack(v) \/ Clear(v)
  BY <1>1, <1>3 DEF PopBack, Clear
<1> QED
  BY <1>2, <1>3

\* erase of one element and of a range.
LEMMA EraseFixed ==
  ASSUME Fixed, NEW v \in Vecs, NEW first \in Positions(v), NEW end \in Positions(v),
         Erase(v, first) \/ Erase2(v, first, end)
  PROVE  Fixed'
<1> USE StaticConstants, FixedBuffers
<1>1. first \in Int /\ end \in Int
  BY DEF Positions
<1>2. ASSUME NEW a \in Int, NEW b \in Int, NEW op, NEW args, op # "none",
             EraseRange(v, a, b, op, args)
      PROVE  Fixed'
  BY <1>2, WriteFixed, QuietFixed DEF EraseRange
<1>3. CASE Erase(v, first)
  BY <1>1, <1>2, <1>3 DEF Erase
<1>4. CASE Erase2(v, first, end)
  BY <1>1, <1>2, <1>4 DEF Erase2
<1> QED
  BY <1>3, <1>4

\* resize.
LEMMA ResizeFixed ==
  ASSUME Fixed, NEW v \in Vecs, NEW n \in Sizes, Resize(v, n)
  PROVE  Fixed'
<1> USE StaticConstants, FixedBuffers
<1>1. n \in Int
  BY SizeAssumption DEF Sizes
<1>2. ASSUME NEW count \in Int, DefaultAppend(v, count) PROVE Fixed'
  BY <1>2, WriteFixed, QuietFixed DEF DefaultAppend
<1>3. CASE Truncate(v, n) /\ Called("resize", v, <<n>>, "ok")
  BY <1>1, <1>3, WriteFixed DEF Truncate
<1>4. CASE \E out : Unchanged("resize", v, <<n>>, out)
  BY <1>4, QuietFixed
<1> QED
  BY <1>1, <1>2, <1>3, <1>4 DEF Resize

\* The operations on one vector; reserve and shrink_to_fit do not exist here.
LEMMA EditFixed ==
  ASSUME Fixed, NEW v \in Vecs, Edit(v)
  PROVE  Fixed'
<1>1. CASE \E arg \in ArgsOf(v) : EmplaceBack(v, arg)
  BY <1>1, EmplaceBackFixed
<1>2. CASE \E arg \in ArgsOf(v), pos \in Positions(v) : Emplace(v, pos, arg)
  BY <1>2, EmplaceFixed
<1>3. CASE \E pos \in Positions(v), xs \in Sources : Insert(v, pos, xs)
  <2>1. PICK pos \in Positions(v), xs \in Sources : Insert(v, pos, xs)
    BY <1>3
  <2>2. Len(xs) \in Nat
    <3>1. CASE xs \in LongSources
      <4>1. xs \in Seq(Vals)
        BY <3>1, ProgramAssumption
      <4> QED
        BY <4>1
    <3>2. CASE \E n \in 0 .. MaxSrc : xs \in [1 .. n -> Vals]
      BY <3>2, FuncAssumption
    <3> QED
      BY <3>1, <3>2 DEF Sources
  <2> QED
    BY <2>1, <2>2, InsertFixed
<1>4. CASE InsertReversed(v)
  BY <1>4, QuietFixed DEF InsertReversed
<1>5. CASE \E pos \in Positions(v) : Erase(v, pos) \/ \E end \in Positions(v) : Erase2(v, pos, end)
  BY <1>5, EraseFixed
<1>6. CASE (\E pos \in Positions(v) : EraseAtEnd(v, pos)) \/ PopBack(v) \/ Clear(v)
  BY <1>6, TruncateFixed
<1>7. CASE \E n \in Sizes : Resize(v, n)
  BY <1>7, ResizeFixed
<1>8. ~ShrinkToFit(v) /\ \A n : ~Reserve(v, n)
  BY StaticConstants DEF ShrinkToFit, Reserve
<1> QED
  BY <1>1, <1>2, <1>3, <1>4, <1>5, <1>6, <1>7, <1>8, Zenon DEF Edit

\* The program goes on only with sound vectors, which are not larger than N.
LEMMA ReturnFixed ==
  ASSUME Fixed, Return
  PROVE  Fixed'
<1>1. \A v \in alive : Size(v) <= N
  BY FixedBuffers DEF Return, Running, Sound, Fixed
<1> QED
  BY <1>1 DEF Return, Fixed, Size

\* A step of the program.
LEMMA NextFixed ==
  ASSUME Fixed, NextStatic
  PROVE  Fixed'
BY LifetimeFixed, ByElementFixed, BitwiseFixed, SwapFixed, SplitFixed, EditFixed, ReturnFixed,
   ProgramAssumption DEF NextStatic

\* Nothing happens.
LEMMA StutterFixed ==
  ASSUME Fixed, UNCHANGED vars
  PROVE  Fixed'
BY DEF vars, Fixed, Size

\* No operation of a static_vector allocates, although the code of most of them is
\* the one small_vector uses.
THEOREM NeverAllocatesHolds == SpecStatic => []NeverAllocates
<1>1. Fixed /\ [NextStatic]_vars => Fixed'
  BY NextFixed, StutterFixed
<1>2. Fixed => NeverAllocates
  BY FixedBuffers DEF Fixed, NeverAllocates
<1> QED
  BY <1>1, <1>2, InitFixed, PTL DEF SpecStatic

-------------------------------------------------------------------------------
(* The objects live in the slots below size().                                 *)

\* What is left of BlocksOwnedOnce when there are no blocks.
DeadEmpty == \A v \in Vecs \ alive : ~AnyLive(mem[v])

\* The inductive invariant.
InvStatic ==
  Fixed /\ (Running => Typed) /\ StaticLifetimes /\ (Terminated \/ DeadEmpty)

\* The cases StaticLifetimes names.
Named(v) ==
  \/ last.v = v /\ last.out = "threw" /\ last.op = "assign_move"
  \/ last.op = "split_by_half" /\ Size(v) = N + 1
  \/ InsertsTooMany(v)

\* The invariant after a call.
LEMMA CallInv ==
  ASSUME Fixed', ~Terminated' => /\ \A v \in alive' : Sound(v)' \/ Named(v)'
                                 /\ (\A v \in alive' : Sound(v)') => Typed'
                                 /\ DeadEmpty'
  PROVE  InvStatic'
<1>1. StaticLifetimes'
  BY DEF StaticLifetimes, Named
<1>2. (Running => Typed)'
  BY DEF Running, Terminated
<1> QED
  BY <1>1, <1>2 DEF InvStatic

\* The program makes its calls in good states.
LEMMA ReadyStatic ==
  ASSUME InvStatic, last = NoCall
  PROVE  Good
<1>1. ~Terminated /\ \A v : ~Named(v)
  BY DEF Terminated, Named, InsertsTooMany, NoCall
<1>2. \A v \in alive : Sound(v)
  BY <1>1 DEF InvStatic, StaticLifetimes, Named
<1>3. Typed
  BY <1>1, <1>2 DEF InvStatic, Running, Terminated
<1>4. \A v \in Vecs : Owned(v) = {} /\ ~IsDynamic(v)
  BY FixedBuffers DEF InvStatic
<1>5. Owning
  BY <1>1, <1>4 DEF InvStatic, Fixed, DeadEmpty, Owning
<1> QED
  BY <1>2, <1>3, <1>5 DEF Good

\* The calculation of growth() is never made.
LEMMA Narrow == WideGrowth
BY StaticAssumption DEF WideGrowth

\* A call that small_vector has too.
LEMMA ProperStatic ==
  ASSUME InvStatic, last = NoCall, Fixed', Proper
  PROVE  InvStatic'
<1>1. CASE Terminated'
  BY <1>1, CallInv
<1>2. CASE ~Terminated'
  <2>1. /\ Owning'
        /\ (\A v \in alive' : Sound(v)') => Typed'
        /\ \A v \in alive' : Sound(v)' \/ Slips(v)
    BY <1>2 DEF Proper, Orderly
  <2>2. DeadEmpty'
    BY <2>1 DEF Owning, DeadEmpty
  <2>3. alive \subseteq Vecs /\ alive' \subseteq Vecs
    BY DEF InvStatic, Fixed
  <2>4. \A w \in alive : Size(w) \in Int /\ Size(w) <= N
    BY FixedBuffers, <2>3 DEF InvStatic, Fixed
  <2>5. \A v \in Vecs : Capacity(v) = N /\ Data(v) = v /\ Size(v) \in Int
    BY FixedBuffers DEF InvStatic
  <2>6. \A v \in Vecs : Data(v)' = v
    BY DEF Fixed, InBuffer, IsDynamic, Data
  <2>7. ASSUME NEW v \in alive', Slips(v) PROVE Named(v)'
    <3>1. v \in Vecs /\ Data(v)' = Data(v)
      BY <2>3, <2>5, <2>6
    <3>2. ~\E w \in alive : Size(w) > Capacity(v)
      BY <2>4, <2>5, <3>1, StaticConstants
    <3> QED
      BY <2>7, <3>1, <3>2 DEF Slips, Named
  <2> QED
    BY <2>1, <2>2, <2>7, CallInv
<1> QED
  BY <1>1, <1>2

\* A vector that a call leaves alone, when nothing is allocated.
LEMMA KeptSound ==
  ASSUME Fixed, Fixed', NEW v \in Vecs, vec'[v] = vec[v], mem'[v] = mem[v]
  PROVE  Sound(v)' <=> Sound(v)
<1>1. /\ Size(v)' = Size(v) /\ Capacity(v)' = N /\ Data(v)' = v /\ ~IsDynamic(v)'
  BY DEF Size, Fixed, InBuffer, Capacity, IsDynamic, Data
<1>2. Slots(v)' = Slots(v) /\ Capacity(v) = N /\ ~IsDynamic(v)
  BY <1>1, FixedBuffers DEF Slots
<1> QED
  BY <1>1, <1>2 DEF Sound

\* A state of buffers.
LEMMA BuffersTyped ==
  ASSUME Good, Fixed', ty' = ty, mem' = [p \in Places |-> mem'[p]], mem'[NoBlock] = mem[NoBlock],
         \A v \in Vecs : vec'[v].size \in Sizes /\ IsBlock(mem'[v], N)
  PROVE  Typed'
<1>1. vec' \in [Vecs -> StorageRecord]
  BY DEF Fixed, InBuffer, StorageRecord
<1>2. \A v \in Vecs : Slots(v)' = mem'[v] /\ Capacity(v)' = N
  BY DEF Fixed, InBuffer, IsDynamic, Data, Capacity, Slots
<1>3. heap' \subseteq Blocks /\ alive' \subseteq Vecs /\ ty' \in Traits /\ IsBlock(mem'[NoBlock], 0)
  BY DEF Fixed, Good, Typed
<1> QED
  BY <1>1, <1>2, <1>3 DEF Typed

\* The defaulted copy and move of a trivially copyable type.
LEMMA BitwiseStatic ==
  ASSUME InvStatic, last = NoCall, Fixed', NEW v \in Vecs, NEW w \in Vecs, Bitwise(v, w)
  PROVE  InvStatic'
<1>1. Good /\ Fixed
  BY ReadyStatic DEF InvStatic
<1>2. /\ w \in alive /\ vec' = [vec EXCEPT ![v] = vec[w]] /\ mem' = [mem EXCEPT ![v] = mem[w]]
      /\ alive' = alive \cup {v} /\ UNCHANGED <<ty, heap, leaked>>
  BY DEF Bitwise
<1>3. /\ vec \in [Vecs -> StorageRecord] /\ mem = [p \in Places |-> mem[p]] /\ v \in Places
      /\ NoBlock \in Places /\ v # NoBlock /\ Vecs \subseteq Places
      /\ \A x \in Vecs : IsBlock(mem[x], N)
      /\ \A x \in Vecs : vec[x].size \in Sizes
  BY <1>1, Constants DEF Good, Typed, Places, StorageRecord
<1>4. /\ vec'[v] = vec[w] /\ mem'[v] = mem[w]
      /\ \A x \in Vecs \ {v} : vec'[x] = vec[x] /\ mem'[x] = mem[x]
      /\ mem' = [p \in Places |-> mem'[p]] /\ mem'[NoBlock] = mem[NoBlock]
  BY <1>2, <1>3
<1>5. Sound(v)'
  <2>1. Sound(w)
    BY <1>1, <1>2 DEF Good
  <2>2. /\ Size(w) = vec[w].size /\ Capacity(w) = N /\ Slots(w) = mem[w]
    BY <1>1, FixedBuffers DEF Size, Slots
  <2>3. /\ Size(v)' = vec[w].size /\ Capacity(v)' = N /\ Slots(v)' = mem[w] /\ ~IsDynamic(v)'
    BY <1>4 DEF Size, Fixed, InBuffer, Capacity, IsDynamic, Data, Slots
  <2> QED
    BY <2>1, <2>2, <2>3 DEF Sound
<1>6. \A x \in alive' : Sound(x)'
  BY <1>1, <1>2, <1>4, <1>5, KeptSound DEF Good, Typed
<1>7. Typed'
  BY <1>1, <1>2, <1>3, <1>4, BuffersTyped
<1>8. DeadEmpty'
  BY <1>1, <1>2, <1>4 DEF DeadEmpty, Good, Owning
<1> QED
  BY <1>6, <1>7, <1>8, CallInv

\* What a successful split does: with half elements left in v, count more are in w,
\* whose storage is as large as it has to be.
Splits(v, w, half, count, c, into) ==
  /\ {v, w} \subseteq alive /\ v # w
  /\ half \in Nat /\ count \in Nat /\ count <= half + 1 /\ half + count = Size(v)
  /\ half <= N - Size(w)
  /\ c = IF Size(w) + count > N THEN Size(w) + count ELSE N
  /\ into = [i \in 0 .. c - 1 |-> IF i \in DOMAIN mem[w] THEN mem[w][i] ELSE Raw]
  /\ half = Size(v) \div 2
  /\ mem' = [mem EXCEPT ![v] = Destroy(@, half, Size(v)),
                        ![w] = Construct(into, Size(w), Read(mem[v], half, count))]
  /\ vec' = [vec EXCEPT ![v].size = half, ![w].size = @ + count]
  /\ UNCHANGED <<ty, alive, heap, leaked>>
  /\ Called("split_by_half", v, <<w>>, "ok")

\* split_by_half succeeds like that, or changes nothing.
LEMMA SplitSucceeds ==
  ASSUME Good, Fixed, NEW v \in Vecs, NEW w \in Vecs, SplitByHalf(v, w)
  PROVE  \/ \E half, count, c, into : Splits(v, w, half, count, c, into)
         \/ UNCHANGED <<ty, alive, vec, heap, mem, leaked>> /\ last'.out # "ok"
<1> DEFINE half  == Size(v) \div 2
           count == Size(v) - half
           c     == IF Size(w) + count > N THEN Size(w) + count ELSE N
           into  == [i \in 0 .. c - 1 |-> IF i \in DOMAIN mem[w] THEN mem[w][i] ELSE Raw]
           grown == Read(mem[v], half, count)
<1>1. {v, w} \subseteq alive /\ v # w /\ UNCHANGED <<ty, alive, heap, leaked>>
  BY DEF SplitByHalf
<1>2. FreeSpace(w) = N - Size(w) /\ N - Size(w) \in Nat /\ mem \in [Places -> {mem[p] : p \in Places}]
      /\ w \in Places
  BY <1>1, Free, FixedBuffers, OfVector, StaticConstants DEF Good, Typed, Places
<1>3. /\ Size(v) \in Nat /\ half \in Nat /\ half <= Size(v) /\ Size(v) <= 2 * half + 1
  BY <1>1, OfVector, Half
<1>4. count \in Nat /\ count <= half + 1 /\ half + count = Size(v)
  <2> HIDE DEF half
  <2> QED
    BY <1>3
<1>5. \/ /\ FreeSpace(w) >= half
         /\ mem' = [mem EXCEPT ![v] = Destroy(@, half, Size(v)),
                               ![w] = Construct([i \in 0 .. c - 1 |-> IF i \in DOMAIN @ THEN @[i] ELSE Raw],
                                                Size(w), grown)]
         /\ vec' = [vec EXCEPT ![v].size = half, ![w].size = @ + count]
         /\ Called("split_by_half", v, <<w>>, "ok")
      \/ /\ UNCHANGED <<vec, mem>>
         /\ \E out : out # "ok" /\ Called("split_by_half", v, <<w>>, out)
  <2>1. "out_of_storage" # "ok"
    OBVIOUS
  <2> HIDE DEF half
  <2> QED
    BY <2>1, Zenon DEF SplitByHalf, half
<1>6. ASSUME UNCHANGED <<vec, mem>>, NEW out, out # "ok", Called("split_by_half", v, <<w>>, out)
      PROVE  UNCHANGED <<ty, alive, vec, heap, mem, leaked>> /\ last'.out # "ok"
  BY <1>1, <1>6 DEF Called
<1>7. ASSUME FreeSpace(w) >= half,
             mem' = [mem EXCEPT ![v] = Destroy(@, half, Size(v)),
                                ![w] = Construct([i \in 0 .. c - 1 |-> IF i \in DOMAIN @ THEN @[i] ELSE Raw],
                                                 Size(w), grown)],
             vec' = [vec EXCEPT ![v].size = half, ![w].size = @ + count],
             Called("split_by_half", v, <<w>>, "ok")
      PROVE  Splits(v, w, half, count, c, into)
  <2> HIDE DEF half, count, c
  <2>1. mem' = [mem EXCEPT ![v] = Destroy(@, half, Size(v)), ![w] = Construct(into, Size(w), grown)]
    BY <1>1, <1>2, <1>7
  <2>2. half <= N - Size(w)
    BY <1>2, <1>7
  <2> HIDE DEF into
  <2>3. half = Size(v) \div 2 /\ c = (IF Size(w) + count > N THEN Size(w) + count ELSE N)
    BY DEF half, c
  <2>4. into = [i \in 0 .. c - 1 |-> IF i \in DOMAIN mem[w] THEN mem[w][i] ELSE Raw]
    BY DEF into
  <2> QED
    BY <1>1, <1>3, <1>4, <1>7, <2>1, <2>2, <2>3, <2>4 DEF Splits
<1> HIDE DEF half, count, c, into
<1> QED
  BY <1>5, <1>6, <1>7

\* What the slots hold after a split.
LEMMA SplitSlots ==
  ASSUME Good, Fixed, Fixed', NEW v \in Vecs, NEW w \in Vecs,
         NEW half, NEW count, NEW c, NEW into, Splits(v, w, half, count, c, into)
  PROVE  /\ Size(v) \in Nat /\ Size(w) \in Nat /\ Size(v) <= N /\ Size(w) <= N
         /\ vec'[v].size = half /\ vec'[w].size = Size(w) + count
         /\ c \in Nat /\ Size(w) + count <= c
         /\ Occupied(mem[v], N, Span(0, Size(v))) /\ Occupied(mem[w], N, Span(0, Size(w)))
         /\ Occupied(mem'[v], N, Span(0, half)) /\ Occupied(mem'[w], c, Span(0, Size(w) + count))
         /\ \A i \in 0 .. half - 1 : mem'[v][i] = mem[v][i]
         /\ \A i \in 0 .. Size(w) - 1 : mem'[w][i] = mem[w][i]
         /\ \A i \in 0 .. count - 1 : mem'[w][Size(w) + i] = mem[v][half + i]
         /\ mem' = [p \in Places |-> mem'[p]] /\ mem'[NoBlock] = mem[NoBlock]
         /\ \A x \in Vecs \ {v, w} : vec'[x] = vec[x] /\ mem'[x] = mem[x]
<1> DEFINE n == Size(v)
           m == Size(w)
           grown == Read(mem[v], half, count)
<1>1. /\ {v, w} \subseteq alive /\ v # w
      /\ half \in Nat /\ count \in Nat /\ count <= half + 1 /\ half + count = n
      /\ half <= N - m
      /\ c = IF m + count > N THEN m + count ELSE N
      /\ into = [i \in 0 .. c - 1 |-> IF i \in DOMAIN mem[w] THEN mem[w][i] ELSE Raw]
      /\ mem' = [mem EXCEPT ![v] = Destroy(@, half, n), ![w] = Construct(into, m, grown)]
      /\ vec' = [vec EXCEPT ![v].size = half, ![w].size = @ + count]
  BY DEF Splits
<1>2. /\ n \in Nat /\ m \in Nat /\ N \in Nat /\ n <= N /\ m <= N
      /\ Occupied(mem[v], N, Span(0, n)) /\ Occupied(mem[w], N, Span(0, m))
      /\ vec \in [Vecs -> StorageRecord] /\ mem = [p \in Places |-> mem[p]]
      /\ Vecs \subseteq Places /\ NoBlock \in Places /\ NoBlock \notin Vecs
  BY <1>1, OfVector, FixedBuffers, Constants DEF Good, Typed, Places, Slots
<1>3. /\ vec'[v].size = half /\ vec'[w].size = m + count
      /\ mem'[v] = Destroy(mem[v], half, n) /\ mem'[w] = Construct(into, m, grown)
      /\ mem' = [p \in Places |-> mem'[p]] /\ mem'[NoBlock] = mem[NoBlock]
      /\ \A x \in Vecs \ {v, w} : vec'[x] = vec[x] /\ mem'[x] = mem[x]
  BY <1>1, <1>2 DEF StorageRecord, Size
<1>4. c \in Nat /\ m + count <= c /\ N <= c
  BY <1>1, <1>2
<1> HIDE DEF n, m, grown
<1>5. /\ n \in Nat /\ m \in Nat /\ N \in Nat /\ n <= N /\ m <= N /\ half \in Nat /\ count \in Nat
      /\ half + count = n /\ c \in Nat /\ m + count <= c /\ N <= c
  BY <1>1, <1>2, <1>4
<1>6. Occupied(mem[v], N, Span(0, n)) /\ Occupied(mem[w], N, Span(0, m))
  BY <1>2
<1>7. mem'[v] = Destroy(mem[v], half, n) /\ mem'[w] = Construct(into, m, grown)
  BY <1>3
<1>8. /\ DOMAIN mem[v] = 0 .. N - 1 /\ DOMAIN mem[w] = 0 .. N - 1
      /\ DOMAIN into = 0 .. c - 1 /\ IsBlock(into, c)
  BY <1>1, <1>2 DEF Occupied, IsBlock
<1>9. Occupied(into, c, Span(0, m)) /\ \A i \in 0 .. m - 1 : into[i] = mem[w][i]
  <2>1. \A i \in 0 .. c - 1 : into[i] = IF i \in 0 .. N - 1 THEN mem[w][i] ELSE Raw
    BY <1>1, <1>8
  <2>2. \A i \in 0 .. N - 1 : IF i \in Span(0, m) THEN Living(mem[w][i]) ELSE mem[w][i] = Raw
    BY <1>6 DEF Occupied
  <2>3. \A i : i \in Span(0, m) <=> i \in 0 .. m - 1
    BY <1>5 DEF Span
  <2>4. \A i \in 0 .. m - 1 : i \in 0 .. N - 1 /\ i \in 0 .. c - 1
    BY <1>5
  <2>5. \A i \in 0 .. c - 1 : IF i \in Span(0, m) THEN Living(into[i]) ELSE into[i] = Raw
    BY <2>1, <2>2, <2>3, <2>4
  <2> QED
    BY <1>8, <2>1, <2>4, <2>5 DEF Occupied
<1>10. /\ Len(grown) = count /\ Objects(grown)
      /\ \A i \in 0 .. count - 1 : grown[i + 1] = mem[v][half + i]
  <2>1. Span(half, half + count) \subseteq Span(0, n) \cap (0 .. N - 1)
    BY <1>5 DEF Span
  <2>2. /\ Len(grown) = count /\ Objects(grown)
        /\ \A j \in 1 .. count : grown[j] = mem[v][half + j - 1]
    <3>1. half \in Int /\ N \in Int
      BY <1>5
    <3> QED
      BY <1>5, <1>6, <2>1, <3>1, ReadObjects DEF grown
  <2>3. \A i \in 0 .. count - 1 : i + 1 \in 1 .. count /\ half + (i + 1) - 1 = half + i
    BY <1>1
  <2> QED
    BY <2>2, <2>3
<1>11. Occupied(mem'[w], c, Span(0, m + count))
  BY <1>1, <1>2, <1>3, <1>4, <1>9, <1>10, Extended
<1>12. Occupied(mem'[v], N, Span(0, half))
  <2>1. Span(half, n) \subseteq Span(0, n)
    BY <1>1, <1>2 DEF Span
  <2>2. Occupied(mem'[v], N, Span(0, n) \ Span(half, n))
    BY <1>2, <1>3, <2>1, DestroyOccupied
  <2>3. Span(0, n) \ Span(half, n) = Span(0, half)
    BY <1>1, <1>2 DEF Span
  <2> QED
    BY <2>2, <2>3
<1>13. \A i \in 0 .. half - 1 : mem'[v][i] = mem[v][i]
  BY <1>5, <1>7, <1>8 DEF Destroy, Span
<1>14. \A i \in 0 .. m - 1 : mem'[w][i] = mem[w][i]
  <2>1. \A i \in 0 .. m - 1 : i \in 0 .. c - 1 /\ i \notin Span(m, m + Len(grown))
    BY <1>5, <1>10 DEF Span
  <2>2. \A i \in 0 .. m - 1 : mem'[w][i] = into[i]
    BY <1>7, <1>8, <2>1 DEF Construct
  <2> QED
    BY <1>9, <2>2
<1>15. \A i \in 0 .. count - 1 : mem'[w][m + i] = mem[v][half + i]
  <2> SUFFICES ASSUME NEW i \in 0 .. count - 1 PROVE mem'[w][m + i] = mem[v][half + i]
    OBVIOUS
  <2> DEFINE k == m + i
  <2>1. /\ k \in 0 .. c - 1 /\ k \in Span(m, m + Len(grown)) /\ k \notin Span(0, m)
        /\ k - m + 1 = i + 1
    BY <1>5, <1>10 DEF Span
  <2> HIDE DEF k
  <2>2. into[k] = Raw
    BY <1>9, <2>1 DEF Occupied
  <2>3. mem'[w][k] = grown[k - m + 1]
    BY <1>7, <1>8, <2>1, <2>2 DEF Construct
  <2>4. mem'[w][k] = grown[i + 1]
    BY <2>1, <2>3
  <2> QED
    BY <1>10, <2>4 DEF k
<1> QED
  BY <1>1, <1>2, <1>3, <1>4, <1>11, <1>12, <1>13, <1>14, <1>15 DEF n, m

\* split_by_half.
LEMMA SplitStatic ==
  ASSUME InvStatic, last = NoCall, Fixed', NEW v \in Vecs, NEW w \in Vecs, SplitByHalf(v, w)
  PROVE  InvStatic'
<1>1. Good /\ Fixed
  BY ReadyStatic DEF InvStatic
<1>2. CASE UNCHANGED <<ty, alive, vec, heap, mem, leaked>>
  <2>1. \A x \in alive' : Sound(x)'
    BY <1>1, <1>2, SameVectors DEF Good
  <2>2. Typed'
    BY <1>1, <1>2, BuffersTyped DEF Good, Typed, StorageRecord
  <2>3. DeadEmpty'
    BY <1>1, <1>2 DEF DeadEmpty, Good, Owning
  <2> QED
    BY <2>1, <2>2, <2>3, CallInv
<1>3. ASSUME NEW half, NEW count, NEW c, NEW into, Splits(v, w, half, count, c, into)
      PROVE  InvStatic'
  <2>1. /\ {v, w} \subseteq alive /\ v # w /\ count <= half + 1 /\ half <= N - Size(w)
        /\ half \in Nat /\ count \in Nat /\ half + count = Size(v)
        /\ c = IF Size(w) + count > N THEN Size(w) + count ELSE N
        /\ UNCHANGED <<ty, alive, heap, leaked>> /\ Called("split_by_half", v, <<w>>, "ok")
    BY <1>3 DEF Splits
  <2>2. /\ Size(v) \in Nat /\ Size(w) \in Nat /\ Size(v) <= N /\ Size(w) <= N
        /\ vec'[v].size = half /\ vec'[w].size = Size(w) + count
        /\ Occupied(mem'[v], N, Span(0, half)) /\ Occupied(mem'[w], c, Span(0, Size(w) + count))
        /\ mem' = [p \in Places |-> mem'[p]] /\ mem'[NoBlock] = mem[NoBlock]
        /\ \A x \in Vecs \ {v, w} : vec'[x] = vec[x] /\ mem'[x] = mem[x]
    BY <1>1, <1>3, SplitSlots
  <2>3. N \in Nat /\ N <= MaxSize /\ MaxSize \in Nat
    BY Constants
  <2>4. \A x \in Vecs : /\ Size(x)' = vec'[x].size /\ Capacity(x)' = N /\ Slots(x)' = mem'[x]
                        /\ Owned(x)' = {}
    BY DEF Size, Fixed, InBuffer, Capacity, IsDynamic, Data, Slots, Owned
  <2>5. Sound(v)'
    BY <2>1, <2>2, <2>3, <2>4, NowSound
  <2>6. Size(w) + count <= N => Sound(w)' /\ IsBlock(mem'[w], N)
    BY <2>1, <2>2, <2>3, <2>4, NowSound DEF Occupied
  <2>7. Size(w) + count > N => Named(w)' /\ ~Sound(w)'
    <3>1. Size(w) + count > N => Size(w) + count = N + 1
      BY <2>1, <2>2, <2>3
    <3>2. last'.op = "split_by_half"
      BY <2>1 DEF Called
    <3> QED
      BY <2>2, <2>3, <2>4, <3>1, <3>2 DEF Named, Sound
  <2>8. \A x \in alive' \ {v, w} : Sound(x)'
    BY <1>1, <2>1, <2>2, KeptSound DEF Good, Typed
  <2>9. (\A x \in alive' : Sound(x)') => Typed'
    <3> SUFFICES ASSUME \A x \in alive' : Sound(x)' PROVE Typed'
      OBVIOUS
    <3>1. Size(w) + count <= N /\ IsBlock(mem'[w], N)
      BY <2>1, <2>2, <2>3, <2>6, <2>7
    <3>2. \A x \in Vecs : vec[x].size \in Sizes /\ IsBlock(mem[x], N)
      BY <1>1 DEF Good, Typed, StorageRecord
    <3>3. half \in Sizes /\ Size(w) + count \in Sizes
      BY <2>1, <2>2, <2>3, <3>1 DEF Sizes
    <3>4. \A x \in Vecs : vec'[x].size \in Sizes /\ IsBlock(mem'[x], N)
      BY <2>2, <3>1, <3>2, <3>3 DEF Occupied
    <3> QED
      BY <1>1, <2>1, <2>2, <3>4, BuffersTyped
  <2>10. DeadEmpty'
    BY <1>1, <2>1, <2>2 DEF DeadEmpty, Good, Owning
  <2>11. \A x \in alive' : Sound(x)' \/ Named(x)'
    BY <2>2, <2>3, <2>1, <2>5, <2>6, <2>7, <2>8
  <2> QED
    BY <2>9, <2>10, <2>11, CallInv
<1> QED
  BY <1>1, <1>2, <1>3, SplitSucceeds

\* The sequence of the values in the slots below n.
LEMMA ReadValues ==
  ASSUME NEW s, NEW c \in Nat, NEW n \in Nat, Occupied(s, c, Span(0, n)), n <= c
  PROVE  /\ Len(Read(s, 0, n)) = n /\ \A j \in 1 .. n : Read(s, 0, n)[j] = s[j - 1]
         /\ \A T : (\A i \in 0 .. n - 1 : s[i] \in T) => Read(s, 0, n) \in Seq(T)
<1> DEFINE xs == Read(s, 0, n)
<1>1. 0 \in Int /\ c \in Int /\ Span(0, 0 + n) \subseteq Span(0, n) \cap (0 .. c - 1)
  BY DEF Span
<1>2. Len(xs) = n /\ \A j \in 1 .. n : xs[j] = s[0 + j - 1]
  BY <1>1, ReadObjects
<1>3. xs = [j \in 1 .. n |-> xs[j]]
  BY DEF Read
<1> HIDE DEF xs
<1>4. \A j \in 1 .. n : xs[j] = s[j - 1]
  <2> SUFFICES ASSUME NEW j \in 1 .. n PROVE xs[j] = s[j - 1]
    OBVIOUS
  <2>1. 0 + j - 1 = j - 1
    OBVIOUS
  <2> QED
    BY <1>2, <2>1
<1>5. ASSUME NEW T, \A i \in 0 .. n - 1 : s[i] \in T
      PROVE  xs \in Seq(T)
  <2>1. \A j \in 1 .. n : xs[j] \in T
    <3> SUFFICES ASSUME NEW j \in 1 .. n PROVE xs[j] \in T
      OBVIOUS
    <3>1. j - 1 \in 0 .. n - 1
      OBVIOUS
    <3> QED
      BY <1>4, <1>5, <3>1
  <2> QED
    BY <1>3, <2>1
<1> QED
  BY <1>2, <1>4, <1>5 DEF xs

\* The body of SplitKeepsElements.
Kept ==
  last'.op = "split_by_half" /\ last'.out = "ok" =>
    \E v, w \in alive :
      /\ last'.v = v /\ last'.args = <<w>>
      /\ SubSeq(Elements(w)', 1, Size(w)) = Elements(w)
      /\ Elements(v) = Elements(v)' \o SubSeq(Elements(w)', Size(w) + 1, Size(w)')
      /\ Size(v)' = Size(v) \div 2

\* A split moves the upper half and nothing else.
LEMMA SplitKept ==
  ASSUME Good, Fixed, Fixed', NEW v \in Vecs, NEW w \in Vecs, SplitByHalf(v, w)
  PROVE  Kept
<1>1. CASE last'.out # "ok"
  BY <1>1 DEF Kept
<1>2. ASSUME NEW half, NEW count, NEW c, NEW into, Splits(v, w, half, count, c, into)
      PROVE  Kept
  <2> DEFINE n == Size(v)
             m == Size(w)
             ev == Elements(v)
             ew == Elements(w)
             fv == Elements(v)'
             fw == Elements(w)'
  <2>1. /\ {v, w} \subseteq alive /\ half \in Nat /\ count \in Nat /\ half + count = n
        /\ half = n \div 2 /\ Called("split_by_half", v, <<w>>, "ok")
    BY <1>2 DEF Splits
  <2>2. /\ n \in Nat /\ m \in Nat /\ n <= N /\ m <= N
        /\ vec'[v].size = half /\ vec'[w].size = m + count
        /\ c \in Nat /\ m + count <= c
        /\ Occupied(mem[v], N, Span(0, n)) /\ Occupied(mem[w], N, Span(0, m))
        /\ Occupied(mem'[v], N, Span(0, half)) /\ Occupied(mem'[w], c, Span(0, m + count))
        /\ \A i \in 0 .. half - 1 : mem'[v][i] = mem[v][i]
        /\ \A i \in 0 .. m - 1 : mem'[w][i] = mem[w][i]
        /\ \A i \in 0 .. count - 1 : mem'[w][m + i] = mem[v][half + i]
    BY <1>2, SplitSlots
  <2>3. \A x \in Vecs : /\ Size(x)' = vec'[x].size /\ Slots(x)' = mem'[x] /\ Slots(x) = mem[x]
    BY FixedBuffers DEF Size, Fixed, InBuffer, IsDynamic, Data, Slots
  <2>4. /\ Size(v)' = half /\ Size(w)' = m + count
        /\ ev = Read(mem[v], 0, n) /\ ew = Read(mem[w], 0, m)
        /\ fv = Read(mem'[v], 0, half) /\ fw = Read(mem'[w], 0, m + count)
    BY <2>2, <2>3 DEF Elements
  <2>5. N \in Nat /\ m + count \in Nat /\ half <= N
    BY <2>1, <2>2, Constants
  <2> HIDE DEF n, m, ev, ew, fv, fw
  <2> DEFINE T == {mem[v][i] : i \in Int} \cup {mem[w][i] : i \in Int}
                    \cup {mem'[v][i] : i \in Int} \cup {mem'[w][i] : i \in Int}
  <2>6. /\ Len(ev) = n /\ \A j \in 1 .. n : ev[j] = mem[v][j - 1]
    BY <2>2, <2>4, <2>5, ReadValues
  <2>7. /\ Len(ew) = m /\ \A j \in 1 .. m : ew[j] = mem[w][j - 1]
    BY <2>2, <2>4, <2>5, ReadValues
  <2>8. /\ Len(fv) = half /\ \A j \in 1 .. half : fv[j] = mem'[v][j - 1]
    BY <2>1, <2>2, <2>4, <2>5, ReadValues
  <2>9. /\ Len(fw) = m + count /\ \A j \in 1 .. m + count : fw[j] = mem'[w][j - 1]
    BY <2>2, <2>4, <2>5, ReadValues
  <2>10. ev \in Seq(T) /\ ew \in Seq(T) /\ fv \in Seq(T) /\ fw \in Seq(T)
    <3>1. /\ \A i \in Int : mem[v][i] \in T
          /\ \A i \in Int : mem[w][i] \in T
          /\ \A i \in Int : mem'[v][i] \in T
          /\ \A i \in Int : mem'[w][i] \in T
      OBVIOUS
    <3> HIDE DEF T
    <3>2. /\ \A i \in 0 .. n - 1 : mem[v][i] \in T
          /\ \A i \in 0 .. m - 1 : mem[w][i] \in T
          /\ \A i \in 0 .. half - 1 : mem'[v][i] \in T
      BY <3>1
    <3>3. ev \in Seq(T)
      BY <2>2, <2>4, <2>5, <3>2, ReadValues
    <3>4. ew \in Seq(T)
      BY <2>2, <2>4, <2>5, <3>2, ReadValues
    <3>5. fv \in Seq(T)
      BY <2>1, <2>2, <2>4, <2>5, <3>2, ReadValues
    <3>6. fw \in Seq(T)
      <4> DEFINE k == m + count
      <4>1. \A i \in 0 .. k - 1 : mem'[w][i] \in T
        BY <3>1
      <4>2. k \in Nat /\ k <= c /\ Occupied(mem'[w], c, Span(0, k)) /\ fw = Read(mem'[w], 0, k)
        BY <2>2, <2>4, <2>5
      <4> HIDE DEF k
      <4> QED
        BY <2>2, <4>1, <4>2, ReadValues
    <3> QED
      BY <3>3, <3>4, <3>5, <3>6
  <2> HIDE DEF T
  <2>11. \A j \in 1 .. m : fw[j] = ew[j]
    <3>1. \A j \in 1 .. m : j \in 1 .. m + count /\ j - 1 \in 0 .. m - 1
      BY <2>1, <2>2
    <3> QED
      BY <2>2, <2>7, <2>9, <3>1
  <2>12. \A j \in 1 .. half : fv[j] = ev[j]
    <3>1. \A j \in 1 .. half : j \in 1 .. n /\ j - 1 \in 0 .. half - 1
      BY <2>1, <2>2
    <3> QED
      BY <2>2, <2>6, <2>8, <3>1
  <2>13. \A j \in 1 .. count : fw[m + j] = ev[half + j]
    <3> SUFFICES ASSUME NEW j \in 1 .. count PROVE fw[m + j] = ev[half + j]
      OBVIOUS
    <3>1. /\ m + j \in 1 .. m + count /\ half + j \in 1 .. n /\ j - 1 \in 0 .. count - 1
          /\ (m + j) - 1 = m + (j - 1) /\ (half + j) - 1 = half + (j - 1)
      BY <2>1, <2>2
    <3>2. fw[m + j] = mem'[w][m + (j - 1)] /\ ev[half + j] = mem[v][half + (j - 1)]
      BY <2>6, <2>9, <3>1
    <3> QED
      BY <2>2, <3>1, <3>2
  <2>14. SubSeq(fw, 1, m) = ew
    BY <2>1, <2>2, <2>7, <2>9, <2>10, <2>11
  <2> DEFINE tail == SubSeq(fw, m + 1, m + count)
  <2>15. tail \in Seq(T) /\ Len(tail) = count /\ \A j \in 1 .. count : tail[j] = fw[m + j]
    <3>1. /\ \A j \in (m + 1) .. (m + count) : j \in 1 .. Len(fw)
      BY <2>1, <2>2, <2>9
    <3>2. (m + count) - (m + 1) + 1 = count
      BY <2>1, <2>2
    <3> QED
      BY <2>1, <2>2, <2>5, <2>9, <2>10, <3>1, <3>2
  <2> HIDE DEF tail
  <2>16. ev = fv \o tail
    <3> DEFINE xs == fv \o tail
    <3>1. /\ xs \in Seq(T) /\ Len(xs) = n
          /\ \A j \in 1 .. n : xs[j] = IF j <= half THEN fv[j] ELSE tail[j - half]
      <4>1. /\ xs \in Seq(T) /\ Len(xs) = Len(fv) + Len(tail)
            /\ \A j \in 1 .. Len(fv) + Len(tail) :
                 xs[j] = IF j <= Len(fv) THEN fv[j] ELSE tail[j - Len(fv)]
        BY <2>10, <2>15, ConcatProperties
      <4> HIDE DEF xs
      <4> QED
        BY <2>1, <2>8, <2>15, <4>1
    <3> HIDE DEF xs
    <3>2. \A j \in 1 .. n : xs[j] = ev[j]
      <4> SUFFICES ASSUME NEW j \in 1 .. n PROVE xs[j] = ev[j]
        OBVIOUS
      <4>1. CASE j <= half
        <5>1. j \in 1 .. half
          BY <2>1, <4>1
        <5>2. xs[j] = fv[j]
          BY <3>1, <4>1
        <5>3. fv[j] = ev[j]
          BY <2>12, <5>1
        <5> QED
          BY <5>2, <5>3
      <4>2. CASE j > half
        <5> DEFINE k == j - half
        <5>1. k \in 1 .. count /\ half + k = j
          BY <2>1, <2>2, <4>2
        <5>2. xs[j] = tail[k]
          BY <2>1, <3>1, <4>2
        <5> HIDE DEF k
        <5>3. tail[k] = ev[half + k]
          BY <2>13, <2>15, <5>1
        <5>4. ev[half + k] = ev[j]
          BY ONLY <5>1
        <5>5. xs[j] = ev[half + k]
          BY <5>2, <5>3
        <5> QED
          BY <5>4, <5>5
      <4> QED
        BY <2>1, <2>2, <4>1, <4>2
    <3> QED
      BY <2>6, <2>10, <3>1, <3>2, SeqEqual DEF xs
  <2>17. /\ SubSeq(Elements(w)', 1, Size(w)) = Elements(w)
         /\ Elements(v) = Elements(v)' \o SubSeq(Elements(w)', Size(w) + 1, Size(w)')
         /\ Size(v)' = Size(v) \div 2
    BY <2>1, <2>4, <2>14, <2>16 DEF n, m, ev, ew, fv, fw, tail
  <2>18. last'.v = v /\ last'.args = <<w>> /\ v \in alive /\ w \in alive
    BY <2>1 DEF Called
  <2> QED
    BY <2>17, <2>18 DEF Kept
<1> QED
  BY <1>1, <1>2, SplitSucceeds

\* A step of the program.
LEMMA NextStaticInv ==
  ASSUME InvStatic, NextStatic
  PROVE  InvStatic' /\ Kept
<1> Fixed /\ Fixed'
  BY NextFixed DEF InvStatic
<1>1. CASE Return
  <2>1. /\ UNCHANGED <<ty, alive, vec, heap, mem, leaked>> /\ last' = NoCall /\ Running
    BY <1>1 DEF Return
  <2>2. ~Terminated /\ \A v \in alive : Sound(v)
    BY <2>1 DEF Running, Terminated
  <2>3. \A v \in alive' : Sound(v)'
    BY <2>1, <2>2, SameVectors
  <2>4. Typed
    BY <2>1 DEF InvStatic
  <2>5. DeadEmpty'
    BY <2>1, <2>2 DEF InvStatic, DeadEmpty
  <2>6. \A v : Slots(v)' = Slots(v) /\ Capacity(v)' = Capacity(v)
    BY <2>1 DEF IsDynamic, Slots, Capacity, Data
  <2>7. Typed'
    BY <2>1, <2>4, <2>6 DEF Typed
  <2> QED
    BY <2>1, <2>3, <2>5, <2>7, CallInv DEF Kept, NoCall
<1>2. ASSUME last = NoCall, NEW v \in Vecs, Lifetime(v) PROVE InvStatic' /\ Kept
  <2>1. Good
    BY <1>2, ReadyStatic
  <2>2. last'.op # "split_by_half"
    BY <1>2 DEF Lifetime, DefaultConstruct, DestroyVector, Called
  <2> QED
    BY <1>2, <2>1, <2>2, LifetimeProper, ProperStatic DEF Kept
<1>3. ASSUME last = NoCall, NEW v \in Vecs, NEW w \in Vecs, Bitwise(v, w)
      PROVE  InvStatic' /\ Kept
  <2>1. last'.op # "split_by_half"
    BY <1>3 DEF Bitwise, Called
  <2> QED
    BY <1>3, <2>1, BitwiseStatic DEF Kept
<1>4. ASSUME last = NoCall, NEW v \in Vecs, NEW w \in Vecs,
             ByElement(v, w) \/ Swap(v, w) \/ SwapAborts(v, w)
      PROVE  InvStatic' /\ Kept
  <2>1. Good
    BY <1>4, ReadyStatic
  <2>2. Between(v, w)
    BY <1>4 DEF ByElement, Between
  <2>3. last'.op # "split_by_half"
    BY <2>2, BetweenOp
  <2> QED
    BY <1>4, <2>1, <2>2, <2>3, BetweenProper, ProperStatic DEF Kept
<1>5. ASSUME last = NoCall, NEW v \in Vecs, NEW w \in Vecs, SplitByHalf(v, w)
      PROVE  InvStatic' /\ Kept
  <2>1. Good
    BY <1>5, ReadyStatic
  <2> QED
    BY <1>5, <2>1, SplitStatic, SplitKept
<1>6. ASSUME last = NoCall, NEW v \in Editing, Edit(v) PROVE InvStatic' /\ Kept
  <2>1. Good /\ WideGrowth
    BY <1>6, ReadyStatic, Narrow
  <2>2. last'.op # "split_by_half"
    BY <1>6, EditOp DEF EditOps
  <2> QED
    BY <1>6, <2>1, <2>2, EditProper, ProperStatic DEF Kept
<1> QED
  BY <1>1, <1>2, <1>3, <1>4, <1>5, <1>6 DEF NextStatic

\* Nothing happens.
LEMMA StutterStatic ==
  ASSUME InvStatic, UNCHANGED vars
  PROVE  InvStatic'
<1>1. UNCHANGED <<ty, alive, vec, heap, mem, leaked, last>>
  BY DEF vars
<1>2. Fixed'
  BY StutterFixed DEF InvStatic
<1>3. \A v : /\ Sound(v)' <=> Sound(v)
             /\ Named(v)' <=> Named(v)
  BY <1>1, SameVectors DEF Named, InsertsTooMany, Size
<1>4. Terminated' <=> Terminated
  BY <1>1 DEF Terminated
<1>5. ASSUME ~Terminated PROVE \A v \in alive : Sound(v) \/ Named(v)
  BY <1>5 DEF InvStatic, StaticLifetimes, Named
<1>6. ASSUME ~Terminated, \A v \in alive : Sound(v) PROVE Typed
  BY <1>6 DEF InvStatic, Running, Terminated
<1>7. \A v : Slots(v)' = Slots(v) /\ Capacity(v)' = Capacity(v)
  BY <1>1 DEF IsDynamic, Slots, Capacity, Data
<1>8. ASSUME Typed PROVE Typed'
  BY <1>1, <1>7, <1>8 DEF Typed
<1>9. ASSUME ~Terminated PROVE DeadEmpty'
  BY <1>1, <1>9 DEF InvStatic, DeadEmpty
<1> QED
  BY <1>1, <1>2, <1>3, <1>4, <1>5, <1>6, <1>8, <1>9, CallInv

\* The invariant holds.
THEOREM InvarianceStatic == SpecStatic => []InvStatic
<1>1. Init => InvStatic
  <2> SUFFICES ASSUME Init PROVE InvStatic
    OBVIOUS
  <2>1. alive = {} /\ last = NoCall /\ mem = [p \in Places |-> Released(p)]
    BY DEF Init, StorageInit
  <2>2. Typed
    BY InitInv DEF Inv, Running, Init, StorageInit, NoCall
  <2>3. \A v \in Vecs : mem[v] = Blank(N)
    BY <2>1 DEF Places, Released
  <2>4. DeadEmpty
    BY <2>3, BlankEmpty, Constants DEF DeadEmpty
  <2>5. StaticLifetimes
    BY <2>1 DEF StaticLifetimes
  <2> QED
    BY <2>2, <2>4, <2>5, InitFixed DEF InvStatic
<1>2. InvStatic /\ [NextStatic]_vars => InvStatic'
  BY NextStaticInv, StutterStatic
<1> QED
  BY <1>1, <1>2, PTL DEF SpecStatic

\* A static_vector becomes unsound by a move assignment whose copies throw, by a
\* split that writes one element too many and by an insert that counts too few,
\* and by nothing else.
THEOREM StaticLifetimesHolds == SpecStatic => []StaticLifetimes
<1>1. InvStatic => StaticLifetimes
  BY DEF InvStatic
<1> QED
  BY <1>1, InvarianceStatic, PTL

\* A split that reports success keeps every element, in order, also the split that
\* writes one behind the buffer.
THEOREM SplitKeepsElementsHolds == SpecStatic => SplitKeepsElements
<1>1. InvStatic /\ [NextStatic]_vars => [Kept]_vars
  BY NextStaticInv
<1> QED
  BY <1>1, InvarianceStatic, PTL DEF SpecStatic, SplitKeepsElements, Kept

================================================================================
