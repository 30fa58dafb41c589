------------------------- MODULE DynamicVector_proofs -------------------------
(***************************************************************************)
(* A small_vector without an in-object buffer is sound after every call    *)
(* but the two AlwaysSound names, and loses a block only in a move         *)
(* assignment, for every number of vectors and blocks and every set of     *)
(* values and value types.  It implements the sequences of VectorValue.    *)
(*                                                                         *)
(* What the functions of vector_func.h do comes from SmallVector_proofs    *)
(* (Proper), and so do the lemmas about a call that touches a few vectors  *)
(* and leaves the others alone (Touches).  Left are the members of this    *)
(* specialization that involve two vectors.  A move assignment is why the  *)
(* invariant does not say that every block has an owner.  The refinement   *)
(* needs of it only that every call is made in a good state.               *)
(***************************************************************************)
EXTENDS DynamicVector, SmallVector_proofs

\* What every call does, and what every call but one does.
Neat ==
  Terminated' \/
    /\ (\A v \in alive' : Sound(v)') => Typed'
    /\ Owning' /\ leaked' \subseteq leaked
    /\ \A v \in alive' : Sound(v)' \/ MisreadsOwn(v)' \/ InsertsTooMany(v)'

Conserves == Terminated' \/ \A b : Lost(b)' => Lost(b)

Drops(v, w) == MoveAssign0(v, w) /\ Size(v) = 0 /\ Owned(v) # {}

\* The inductive invariant.
InvDynamic == (Running => Typed) /\ (Terminated \/ Owning) /\ AlwaysSound

\* The constants in the form the proofs use them.
LEMMA DynamicConstants ==
  /\ N = 0 /\ Realloc /\ 0 \in Sizes /\ Nothing \in StorageRecord
  /\ \A v \in Vecs : v \in Places /\ v # NoBlock /\ v \notin Blocks
  /\ NoBlock \in Places /\ NoBlock \notin Blocks
<1>1. 0 \in Sizes
  BY Constants DEF Sizes
<1> QED
  BY <1>1, DynamicAssumption, Constants DEF Nothing, Dynamic, StorageRecord, Places

\* Storage without slots.
LEMMA NoSlots ==
  ASSUME NEW s, IsBlock(s, 0)
  PROVE  ~AnyLive(s) /\ Occupied(s, 0, Span(0, 0))
<1>1. Occupied(s, 0, {}) /\ Occupied(s, 0, Span(0, 0))
  BY DEF Occupied
<1> QED
  BY <1>1, NoObjects

\* The buffers, which have no slots.
LEMMA NoBuffers ==
  ASSUME Good
  PROVE  /\ \A x \in Vecs : IsBlock(mem[x], 0) /\ ~AnyLive(mem[x])
         /\ mem = [p \in Places |-> mem[p]] /\ IsBlock(mem[NoBlock], 0)
         /\ vec \in [Vecs -> StorageRecord] /\ alive \subseteq Vecs /\ heap \subseteq Blocks
BY NoSlots, DynamicConstants DEF Good, Typed

\* A call that other specializations have too.
LEMMA ProperNeat ==
  ASSUME Good, Proper, last'.op \notin {"swap", "assign_move", "assign_copy"}
  PROVE  Neat /\ Conserves
<1>1. CASE Terminated'
  BY <1>1 DEF Neat, Conserves
<1>2. CASE ~Terminated'
  <2>1. Orderly
    BY <1>2 DEF Proper
  <2>2. \A v : Slips(v) => MisreadsOwn(v)' \/ InsertsTooMany(v)'
    BY DEF Slips
  <2>3. /\ (\A v \in alive' : Sound(v)') => Typed'
        /\ Owning' /\ \A b : Lost(b)' => Lost(b)
        /\ leaked' \subseteq leaked
        /\ \A v \in alive' : Sound(v)' \/ Slips(v)
    BY <2>1 DEF Orderly
  <2> QED
    BY <2>2, <2>3 DEF Neat, Conserves
<1> QED
  BY <1>1, <1>2

\* A call of which only the storage of the vectors in V is the subject.
LEMMA TouchesNeat ==
  ASSUME Good, NEW V, NEW Old, NEW New, Touches(V, Old, New), leaked' = leaked,
         \A x \in V \cap alive' : Sound(x)' /\ IsBlock(Slots(x)', Capacity(x)')
  PROVE  Neat /\ (heap' \subseteq (heap \ Old) \cup New => Conserves)
<1>1. /\ (\A x \in V \cap alive' : IsBlock(Slots(x)', Capacity(x)')) => Typed'
      /\ Owning'
      /\ heap' \subseteq (heap \ Old) \cup New => \A b : Lost(b)' => Lost(b)
      /\ \A w \in alive \ V : Sound(w)'
  BY SomeVectors
<1>2. alive' \ V = alive \ V
  BY DEF Touches
<1>3. \A x \in alive' : Sound(x)'
  BY <1>1, <1>2
<1> QED
  BY <1>1, <1>3 DEF Neat, Conserves

-------------------------------------------------------------------------------
(* The members that involve two vectors.                                       *)

\* v takes what w has, and frees the blocks in freed.
Takes(v, w, freed) ==
  /\ vec' = [vec EXCEPT ![v] = vec[w], ![w] = Nothing]
  /\ ty' = ty /\ alive' = alive \cup {v}
  /\ heap' = heap \ freed
  /\ mem' = [p \in Places |-> IF p \in freed THEN Blank(0) ELSE mem[p]]

\* Such a call leaves both vectors in order.
LEMMA TakesTouches ==
  ASSUME Good, NEW v \in Vecs, NEW w \in alive, v # w, NEW freed,
         freed \subseteq Owned(v), Takes(v, w, freed),
         NEW V, V = {v, w}, NEW Old, Old = Owned(v) \cup Owned(w), NEW New, New = Owned(w)
  PROVE  /\ Touches(V, Old, New)
         /\ \A x \in V : Sound(x)' /\ IsBlock(Slots(x)', Capacity(x)')
<1>1. /\ vec' = [vec EXCEPT ![v] = vec[w], ![w] = Nothing]
      /\ ty' = ty /\ alive' = alive \cup {v} /\ heap' = heap \ freed
      /\ mem' = [p \in Places |-> IF p \in freed THEN Blank(0) ELSE mem[p]]
  BY DEF Takes
<1>2. /\ w \in Vecs /\ vec[w] \in StorageRecord /\ Size(w) \in Nat /\ Capacity(w) \in Nat
      /\ Size(w) <= Capacity(w) /\ Occupied(Slots(w), Capacity(w), Span(0, Size(w)))
      /\ Data(w) \in Places /\ Owned(w) \subseteq heap
      /\ ~IsDynamic(w) => Capacity(w) = 0 /\ Data(w) = w
  BY OfVector, OwnedAllocated, DynamicConstants
<1>3. Owned(v) \cap Owned(w) = {} /\ Owned(v) \subseteq Blocks /\ Owned(w) \subseteq Blocks
  <2>1. Owned(v) \cap Owned(w) = {}
    BY DEF Good, Owning
  <2>2. Owned(v) \subseteq Blocks /\ Owned(w) \subseteq Blocks
    BY <1>2, NoBuffers, Constants DEF Owned, IsDynamic, StorageRecord
  <2> QED
    BY <2>1, <2>2
<1>4. /\ vec' \in [Vecs -> StorageRecord] /\ vec'[v] = vec[w] /\ vec'[w] = Nothing
      /\ \A x \in Vecs \ V : vec'[x] = vec[x]
  BY <1>1, <1>2, NoBuffers, DynamicConstants
<1>5. /\ Size(v)' = Size(w) /\ Capacity(v)' = Capacity(w) /\ Owned(v)' = Owned(w)
      /\ IsDynamic(v)' = IsDynamic(w) /\ Data(v)' = (IF IsDynamic(w) THEN Data(w) ELSE v)
      /\ Size(w)' = 0 /\ Capacity(w)' = 0 /\ Owned(w)' = {} /\ Data(w)' = NoBlock
  BY <1>4 DEF Size, Capacity, Owned, Data, IsDynamic, Nothing, Dynamic
<1>6. \A p \in Places : p \notin Owned(v) => mem'[p] = mem[p]
  BY <1>1
<1>7. \A x \in Vecs : mem'[x] = mem[x] /\ IsBlock(mem'[x], 0) /\ ~AnyLive(mem'[x])
  BY <1>3, <1>6, NoBuffers, DynamicConstants
<1>8. mem'[NoBlock] = mem[NoBlock] /\ mem' = [p \in Places |-> mem'[p]]
  BY <1>1, <1>3, DynamicConstants
<1>9. Occupied(Slots(v)', Capacity(w), Span(0, Size(w)))
  <2>1. CASE IsDynamic(w)
    <3>1. Data(w) \notin Owned(v)
      BY <1>2, <1>3, <2>1, DynamicConstants DEF Owned, Data
    <3>2. Slots(v)' = Slots(w)
      BY <1>2, <1>5, <1>6, <2>1, <3>1 DEF Slots
    <3> QED
      BY <1>2, <3>2
  <2>2. CASE ~IsDynamic(w)
    <3>1. Slots(v)' = mem'[v] /\ Capacity(w) = 0 /\ Size(w) = 0
      BY <1>2, <1>5, <2>2 DEF Slots
    <3> QED
      BY <1>7, <3>1, NoSlots
  <2> QED
    BY <2>1, <2>2
<1>10. Sound(v)' /\ IsBlock(Slots(v)', Capacity(v)')
  <2>1. Owned(v)' \subseteq heap'
    BY <1>1, <1>2, <1>3, <1>5
  <2> QED
    BY <1>2, <1>5, <1>9, <2>1, NowSound DEF Occupied
<1>11. Sound(w)' /\ IsBlock(Slots(w)', Capacity(w)')
  <2>1. Slots(w)' = mem[NoBlock] /\ Owned(w)' \subseteq heap'
    BY <1>5, <1>8 DEF Slots
  <2>2. IsBlock(Slots(w)', 0) /\ Occupied(Slots(w)', 0, Span(0, 0))
    BY <2>1, NoBuffers, NoSlots
  <2> QED
    BY <1>5, <2>1, <2>2, NowSound
<1>12. Old = UNION {Owned(x) : x \in V} /\ New = UNION {Owned(x)' : x \in V}
  BY <1>5
<1>13. \A x \in V : /\ IsBlock(mem'[x], N)
                    /\ x \notin alive' => Owned(x)' = {} /\ ~AnyLive(mem'[x])
                    /\ IsDynamic(x)' => ~AnyLive(mem'[x])
  BY <1>1, <1>2, <1>7, DynamicConstants
<1>14. \A x, y \in V \cap alive' : x # y => Owned(x)' \cap Owned(y)' = {}
  BY <1>5
<1>15. \A p \in Places : p \notin V \cup Old \cup New => mem'[p] = mem[p]
  BY <1>6
<1>16. heap' \subseteq Blocks /\ heap \ Old \subseteq heap' /\ New \cap (heap \ Old) = {}
  BY <1>1, <1>3, NoBuffers
<1>17. V \subseteq Vecs /\ alive' \subseteq Vecs /\ alive' \ V = alive \ V
  BY <1>1, <1>2, NoBuffers
<1>18. Touches(V, Old, New)
  BY <1>1, <1>4, <1>8, <1>12, <1>13, <1>14, <1>15, <1>16, <1>17 DEF Touches
<1> QED
  BY <1>10, <1>11, <1>18

\* The move constructor.
LEMMA MoveConstructNeat ==
  ASSUME Good, NEW v \in Vecs, NEW w \in Vecs, MoveConstruct0(v, w)
  PROVE  Neat /\ Conserves
<1> DEFINE V == {v, w}
           Old == Owned(v) \cup Owned(w)
           New == Owned(w)
<1>1. /\ v \notin alive /\ w \in alive /\ alive' = alive \cup {v}
      /\ vec' = [vec EXCEPT ![v] = vec[w], ![w] = Nothing]
      /\ UNCHANGED <<ty, heap, mem, leaked>>
  BY DEF MoveConstruct0
<1>2. mem' = [p \in Places |-> IF p \in {} THEN Blank(0) ELSE mem[p]]
  BY <1>1, NoBuffers
<1>3. Takes(v, w, {})
  BY <1>1, <1>2 DEF Takes
<1>4. v # w /\ {} \subseteq Owned(v) /\ leaked' = leaked
  BY <1>1
<1>5. heap' \subseteq (heap \ Old) \cup New
  <2>1. Owned(v) = {}
    BY <1>1 DEF Good, Owning
  <2> QED
    BY <1>1, <2>1
<1>6. V = {v, w} /\ Old = Owned(v) \cup Owned(w) /\ New = Owned(w)
  OBVIOUS
<1> HIDE DEF V, Old, New
<1>7. /\ Touches(V, Old, New)
      /\ \A x \in V : Sound(x)' /\ IsBlock(Slots(x)', Capacity(x)')
  BY <1>1, <1>3, <1>4, <1>6, TakesTouches
<1> QED
  BY <1>4, <1>5, <1>7, TouchesNeat

\* Move assignment loses a block when there are no elements in it.
LEMMA MoveAssignNeat ==
  ASSUME Good, NEW v \in Vecs, NEW w \in Vecs, MoveAssign0(v, w)
  PROVE  Neat /\ (Conserves \/ Drops(v, w))
<1> DEFINE V == {v, w}
           Old == Owned(v) \cup Owned(w)
           New == Owned(w)
           freed == IF Size(v) # 0 THEN Owned(v) ELSE {}
<1>1. /\ v \in alive /\ w \in alive /\ v # w
      /\ heap' = heap \ freed
      /\ mem' = [p \in Places |-> IF p \in freed THEN Blank(0) ELSE mem[p]]
      /\ leaked' = leaked \cup LeakOf(Destroy(Slots(v), 0, Size(v)), "assign_move")
      /\ vec' = [vec EXCEPT ![v] = vec[w], ![w] = Nothing]
      /\ UNCHANGED <<ty, alive>>
  BY DEF MoveAssign0
<1>2. freed \subseteq Owned(v)
  OBVIOUS
<1>3. leaked' = leaked
  BY <1>1, Emptied DEF LeakOf, NoLeak
<1>4. V = {v, w} /\ Old = Owned(v) \cup Owned(w) /\ New = Owned(w)
  OBVIOUS
<1>5. heap' \subseteq (heap \ Old) \cup New \/ Drops(v, w)
  BY <1>1 DEF Drops
<1> HIDE DEF V, Old, New, freed
<1>6. Takes(v, w, freed)
  <2>1. alive' = alive \cup {v}
    BY <1>1
  <2> QED
    BY <1>1, <2>1 DEF Takes
<1>7. /\ Touches(V, Old, New)
      /\ \A x \in V : Sound(x)' /\ IsBlock(Slots(x)', Capacity(x)')
  BY <1>1, <1>2, <1>4, <1>6, TakesTouches
<1> QED
  BY <1>3, <1>5, <1>7, TouchesNeat

\* swap.
LEMMA SwapNeat ==
  ASSUME Good, NEW v \in Vecs, NEW w \in Vecs, Swap0(v, w)
  PROVE  Neat /\ Conserves
<1> DEFINE V == {v, w}
           Old == Owned(v) \cup Owned(w)
<1>1. /\ v \in alive /\ w \in alive /\ v # w
      /\ vec' = [vec EXCEPT ![v] = vec[w], ![w] = vec[v]]
      /\ UNCHANGED <<ty, alive, heap>> /\ mem' = mem /\ leaked' = leaked
  BY DEF Swap0
<1>2. \A x \in {v, w} : /\ IsBlock(mem'[x], N) /\ ~AnyLive(mem'[x])
                        /\ Occupied(mem'[x], N, Span(0, 0))
  BY <1>1, NoBuffers, NoSlots, DynamicConstants
<1>3. \A x \in {v, w} : ~IsDynamic(x) => Size(x) = 0
  <2> SUFFICES ASSUME NEW x \in {v, w}, ~IsDynamic(x) PROVE Size(x) = 0
    OBVIOUS
  <2>1. Size(x) \in Nat /\ Size(x) <= 0
    BY <1>1, OfVector, DynamicConstants
  <2> QED
    BY <2>1
<1>4. IF IsDynamic(w) THEN ~AnyLive(mem'[v]) ELSE Occupied(mem'[v], N, Span(0, Size(w)))
  BY <1>2, <1>3
<1>5. IF IsDynamic(v) THEN ~AnyLive(mem'[w]) ELSE Occupied(mem'[w], N, Span(0, Size(v)))
  BY <1>2, <1>3
<1>6. /\ mem' = [p \in Places |-> mem'[p]]
      /\ \A p \in Places : p \notin {v, w} => mem'[p] = mem[p]
      /\ \A x \in {v, w} : IsBlock(mem'[x], N)
  BY <1>1, <1>2, NoBuffers
<1>7. /\ Touches(V, Old, Old)
      /\ \A x \in V : Sound(x)' /\ IsBlock(Slots(x)', Capacity(x)')
  BY <1>1, <1>4, <1>5, <1>6, Swapped
<1>8. heap' \subseteq (heap \ Old) \cup Old
  BY <1>1
<1> HIDE DEF V, Old
<1> QED
  BY <1>1, <1>7, <1>8, TouchesNeat

\* A vector that a call leaves in order.
Settled(v) == Sound(v)' /\ IsBlock(Slots(v)', Capacity(v)')

\* A vector that is given a new block with n objects in it, or nothing at all.
LEMMA RecordGiven ==
  ASSUME Good, NEW v \in Vecs, NEW rec, Gives(v, rec), leaked' = leaked,
         heap' \subseteq (heap \ Owned(v)) \cup Owned(v)',
         Settled(v)
  PROVE  Neat /\ Conserves
<1> DEFINE V == {v}
           Old == Owned(v)
           New == Owned(v)'
<1>1. V = {v} /\ Old = Owned(v) /\ New = Owned(v)'
  OBVIOUS
<1>2. \A x \in V \cap alive' : Sound(x)' /\ IsBlock(Slots(x)', Capacity(x)')
  BY DEF Settled
<1>3. heap' \subseteq (heap \ Old) \cup New
  OBVIOUS
<1> HIDE DEF V, Old, New
<1>4. Touches(V, Old, New)
  BY <1>1, OneTouched
<1> QED
  BY <1>2, <1>3, <1>4, TouchesNeat

\* The storage after the blocks of v have been given up and b has been taken.
LEMMA TakesNew ==
  ASSUME Good, NEW v \in Vecs, NEW b \in Blocks, b \notin heap \ Owned(v),
         NEW n \in Sizes, NEW new, Occupied(new, n, Span(0, n)),
         vec' = [vec EXCEPT ![v] = Dynamic(b, n, n)],
         heap' = (heap \ Owned(v)) \cup {b}, mem' = [p \in Places |-> mem'[p]],
         mem'[b] = new, mem'[NoBlock] = mem[NoBlock], mem'[v] = mem[v],
         \A p \in Places : p \notin {v, b} \cup Owned(v) => mem'[p] = mem[p],
         ty' = ty, v \in alive', alive' = alive \cup {v}, leaked' = leaked
  PROVE  Neat /\ Conserves
<1>1. vec'[v] = Dynamic(b, n, n)
  BY NoBuffers
<1>2. n \in Nat /\ b # NoBlock /\ Dynamic(b, n, n) \in StorageRecord
  BY DynamicConstants DEF Sizes, Dynamic, StorageRecord
<1>3. Size(v)' = n /\ Capacity(v)' = n /\ Owned(v)' = {b} /\ Data(v)' = b /\ Slots(v)' = new
  BY <1>1, <1>2 DEF Size, Capacity, Owned, Data, IsDynamic, Dynamic, Slots
<1>4. Settled(v)
  <2>1. n <= n /\ Owned(v)' \subseteq heap'
    BY <1>2, <1>3
  <2> QED
    BY <1>2, <1>3, <2>1, NowSound DEF Occupied, Settled
<1>5. IsBlock(mem'[v], N) /\ ~AnyLive(mem'[v])
  BY NoBuffers, DynamicConstants
<1>6. /\ heap' \subseteq Blocks /\ heap \ Owned(v) \subseteq heap'
      /\ Owned(v)' \cap (heap \ Owned(v)) = {}
      /\ heap' \subseteq (heap \ Owned(v)) \cup Owned(v)'
  BY <1>3, NoBuffers
<1>7. \A p \in Places : p \notin {v} \cup Owned(v) \cup Owned(v)' => mem'[p] = mem[p]
  BY <1>3
<1>8. Gives(v, Dynamic(b, n, n))
  BY <1>2, <1>5, <1>6, <1>7 DEF Gives
<1> QED
  BY <1>4, <1>6, <1>8, RecordGiven

\* The copy constructor.
LEMMA CopyConstructNeat ==
  ASSUME Good, NEW v \in Vecs, NEW w \in Vecs, CopyConstruct0(v, w)
  PROVE  Neat /\ Conserves
<1> DEFINE n == Size(w)
           b == NewBlock
           new == Construct(Blank(n), 0, Elements(w))
<1>1. v \notin alive /\ w \in alive
  BY DEF CopyConstruct0
<1>2. n \in Nat /\ n \in Sizes /\ Owned(v) = {}
  <2>1. n \in Nat /\ n <= MaxSize
    BY <1>1, OfVector, Constants
  <2>2. Owned(v) = {}
    BY <1>1, Buffers
  <2> QED
    BY <2>1, <2>2, Constants DEF Sizes
<1>3. Data(v) \in {v, NoBlock}
  BY <1>2, Buffers
<1>4. Occupied(new, n, Span(0, n))
  BY <1>1, <1>2, Copied
<1> HIDE DEF n, new
<1>5. CASE \E out : Unchanged("construct_copy", v, <<w>>, out)
                    /\ (out = "terminated" => CopiesThrow)
  <2>1. Proper
    BY <1>5, QuietStep
  <2>2. last'.op = "construct_copy"
    BY <1>5, Names
  <2> QED
    BY <2>1, <2>2, ProperNeat
<1>6. CASE /\ \E fate \in CopyFate(ty, n) \ {"ok"} :
                Called("construct_copy", v, <<w>>, fate)
                /\ Unwind(b, Blank(n), ty.ncopy, "construct_copy")
           /\ UNCHANGED <<ty, alive>>
  <2>1. PICK fate \in CopyFate(ty, n) \ {"ok"} :
                Called("construct_copy", v, <<w>>, fate)
                /\ Unwind(b, Blank(n), ty.ncopy, "construct_copy")
    BY <1>6
  <2>2. fate \in {"threw", "terminated"} /\ ~ty.ncopy /\ (fate = "terminated" => CopiesThrow)
    BY <2>1, Fates
  <2>3. ~AnyLive(Blank(n))
    BY <1>2, BlankEmpty
  <2> HIDE DEF b
  <2>4. Proper
    BY <1>6, <2>1, <2>2, <2>3, UnwindStep
  <2>5. last'.op = "construct_copy"
    BY <2>1, Names
  <2> QED
    BY <2>4, <2>5, ProperNeat
<1>7. CASE /\ Exchange(v, b, new, n, Blank(0), "construct_copy")
           /\ alive' = alive \cup {v}
           /\ UNCHANGED ty
  <2>1. b \in Blocks \ heap
    BY <1>7, FreshBlock DEF Exchange, NewBlock
  <2> HIDE DEF b
  <2>2. Cardinality(DOMAIN new) = n
    <3>1. DOMAIN new = 0 .. n - 1
      BY <1>4 DEF Occupied, IsBlock
    <3>2. \A i \in Nat : Cardinality(0 .. i - 1) = i
      BY FS_Interval
    <3> QED
      BY <1>2, <3>1, <3>2
  <2>3. ~AnyLive(Blank(0))
    BY BlankEmpty
  <2>4. /\ vec' = [vec EXCEPT ![v] = Dynamic(b, n, n)] /\ heap' = heap \cup {b}
        /\ mem' = [mem EXCEPT ![b] = new, ![Data(v)] = Released(Data(v))]
        /\ leaked' = leaked
    BY <1>2, <1>7, <2>2, <2>3 DEF Exchange, LeakOf, NoLeak
  <2>5. \A p \in {v, NoBlock} : Released(p) = mem[p] /\ p # b /\ p \in Places
    <3>1. Released(NoBlock) = Blank(0) /\ Released(v) = Blank(0)
      BY DynamicConstants DEF Released
    <3>2. \A p \in {v, NoBlock} : mem[p] = Blank(0)
      BY NoBuffers DEF IsBlock, Blank
    <3> QED
      BY <2>1, <3>1, <3>2, DynamicConstants
  <2>6. /\ mem' = [p \in Places |-> mem'[p]] /\ mem'[b] = new
        /\ \A p \in Places : p # b => mem'[p] = mem[p]
    BY <1>3, <2>1, <2>4, <2>5, NoBuffers DEF Places
  <2>7. mem'[v] = mem[v] /\ mem'[NoBlock] = mem[NoBlock]
    BY <2>5, <2>6
  <2>8. v \in alive' /\ alive' = alive \cup {v} /\ ty' = ty
    BY <1>7
  <2>9. heap' = (heap \ Owned(v)) \cup {b}
    BY <1>2, <2>4
  <2> QED
    BY <1>2, <1>4, <2>1, <2>4, <2>6, <2>7, <2>8, <2>9, TakesNew
<1>8. \/ \E fate \in CopyFate(ty, n) :
           \/ /\ fate = "ok"
              /\ Exchange(v, b, new, n, Blank(0), "construct_copy")
              /\ alive' = alive \cup {v}
              /\ Called("construct_copy", v, <<w>>, "ok")
              /\ UNCHANGED ty
           \/ /\ fate # "ok"
              /\ Unwind(b, Blank(n), ty.ncopy, "construct_copy")
              /\ Called("construct_copy", v, <<w>>, fate)
              /\ UNCHANGED <<ty, alive>>
      \/ Unchanged("construct_copy", v, <<w>>, "threw")
  BY Zenon DEF CopyConstruct0, n, b, new
<1> HIDE DEF b
<1> QED
  BY <1>5, <1>6, <1>7, <1>8

\* Copy assignment.
LEMMA CopyAssignNeat ==
  ASSUME Good, NEW v \in Vecs, NEW w \in Vecs, CopyAssign0(v, w)
  PROVE  Neat /\ Conserves
<1> DEFINE n       == IF v = w THEN 0 ELSE Size(w)
           xs      == Read(Slots(w), 0, n)
           kept    == heap \ Owned(v)
           cleared == [mem EXCEPT ![Data(v)] = Blank(0)]
           b       == BlockOutside(kept)
           c       == Capacity(v)
<1>1. v \in alive /\ w \in alive /\ UNCHANGED <<ty, alive>>
      /\ leaked' = leaked \cup LeakOf(Destroy(Slots(v), 0, Size(v)), "assign_copy")
  BY DEF CopyAssign0
<1>2. leaked' = leaked /\ ty' = ty /\ alive' = alive \cup {v} /\ v \in alive'
  BY <1>1, Emptied DEF LeakOf, NoLeak
<1>3. /\ n \in Nat /\ n \in Sizes /\ Len(xs) = n /\ Objects(xs)
  BY <1>1, Source
<1>4. \E fate \in CopyFate(ty, n) :
           \/ /\ c < n /\ fate = "ok" /\ MemoryLeft(kept)
              /\ heap' = kept \cup {b}
              /\ mem' = [cleared EXCEPT ![b] = Construct(Blank(n), 0, xs)]
              /\ vec' = [vec EXCEPT ![v] = Dynamic(b, n, n)]
              /\ Called("assign_copy", v, <<w>>, "ok")
           \/ /\ c < n
              /\ heap' = kept
              /\ mem' = cleared
              /\ vec' = [vec EXCEPT ![v] = Nothing]
              /\ Called("assign_copy", v, <<w>>, IF fate = "ok" THEN "threw" ELSE fate)
           \/ /\ c >= n
              /\ mem' = [mem EXCEPT ![Data(v)] =
                           IF fate = "ok" THEN Construct(Blank(c), 0, xs) ELSE Blank(c)]
              /\ vec' = [vec EXCEPT ![v].size = IF fate = "ok" THEN n ELSE 0]
              /\ Called("assign_copy", v, <<w>>, fate)
              /\ UNCHANGED heap
  BY Zenon DEF CopyAssign0, n, xs, kept, cleared, b, c
<1>5. /\ Data(v) \in Places /\ Data(v) \in {v, NoBlock} \cup Owned(v)
      /\ Owned(v) \subseteq Blocks /\ Owned(v) \subseteq heap
      /\ vec[v] \in StorageRecord /\ c \in Nat
  <2>1. Data(v) \in Places /\ vec[v] \in StorageRecord /\ c \in Nat
    BY <1>1, OfVector
  <2>2. Data(v) \in {v, NoBlock} \cup Owned(v)
    BY Buffers
  <2>3. Owned(v) \subseteq heap /\ heap \subseteq Blocks
    BY <1>1, OwnedAllocated, NoBuffers
  <2> QED
    BY <2>1, <2>2, <2>3
<1>6. /\ cleared = [p \in Places |-> cleared[p]]
      /\ \A p \in Places : p # Data(v) => cleared[p] = mem[p]
      /\ cleared[Data(v)] = Blank(0)
  BY <1>5, NoBuffers
<1>7. \A p \in {v, NoBlock} : mem[p] = Blank(0)
  BY NoBuffers DEF IsBlock, Blank
<1>8. /\ cleared[v] = mem[v] /\ cleared[NoBlock] = mem[NoBlock]
      /\ \A p \in Places : p \notin {v} \cup Owned(v) => cleared[p] = mem[p]
  BY <1>5, <1>6, <1>7, DynamicConstants
<1> HIDE DEF n, xs, cleared, c
<1>9. CASE /\ MemoryLeft(kept)
           /\ heap' = kept \cup {b}
           /\ mem' = [cleared EXCEPT ![b] = Construct(Blank(n), 0, xs)]
           /\ vec' = [vec EXCEPT ![v] = Dynamic(b, n, n)]
  <2>1. b \in Blocks /\ b \notin heap \ Owned(v)
    BY <1>9, FreshBlock
  <2> HIDE DEF b
  <2>2. Occupied(Construct(Blank(n), 0, xs), n, Span(0, n))
    <3>1. 0 \in Int /\ n \in Int /\ 0 + Len(xs) = n
      BY <1>3
    <3> QED
      BY <1>3, <3>1, Placed
  <2>3. b \in Places /\ b # v /\ b # NoBlock
    BY <2>1, DynamicConstants DEF Places
  <2>4. /\ mem' = [p \in Places |-> mem'[p]]
        /\ mem'[b] = Construct(Blank(n), 0, xs)
        /\ \A p \in Places : p # b => mem'[p] = cleared[p]
    BY <1>6, <1>9, <2>3
  <2>5. /\ mem'[v] = mem[v] /\ mem'[NoBlock] = mem[NoBlock]
        /\ \A p \in Places : p \notin {v, b} \cup Owned(v) => mem'[p] = mem[p]
    BY <1>8, <2>3, <2>4, DynamicConstants
  <2>6. heap' = (heap \ Owned(v)) \cup {b}
    BY <1>9
  <2> QED
    BY <1>2, <1>3, <1>9, <2>1, <2>2, <2>4, <2>5, <2>6, TakesNew
<1>10. CASE heap' = kept /\ mem' = cleared /\ vec' = [vec EXCEPT ![v] = Nothing]
  <2>1. vec'[v] = Nothing
    BY <1>10, NoBuffers
  <2>2. Size(v)' = 0 /\ Capacity(v)' = 0 /\ Owned(v)' = {} /\ Data(v)' = NoBlock
        /\ Slots(v)' = mem[NoBlock]
    BY <1>8, <1>10, <2>1
    DEF Size, Capacity, Owned, Data, IsDynamic, Nothing, Dynamic, Slots
  <2>3. IsBlock(Slots(v)', 0) /\ Occupied(Slots(v)', 0, Span(0, 0))
    BY <2>2, NoBuffers, NoSlots
  <2>4. Settled(v)
    <3>1. Owned(v)' \subseteq heap'
      BY <2>2
    <3> QED
      BY <2>2, <2>3, <3>1, NowSound DEF Settled
  <2>5. IsBlock(mem'[v], N) /\ ~AnyLive(mem'[v]) /\ mem' = [p \in Places |-> mem'[p]]
        /\ mem'[NoBlock] = mem[NoBlock]
        /\ \A p \in Places : p \notin {v} \cup Owned(v) \cup Owned(v)' => mem'[p] = mem[p]
    BY <1>6, <1>8, <1>10, <2>2, NoBuffers, DynamicConstants
  <2>6. /\ heap' \subseteq Blocks /\ heap \ Owned(v) \subseteq heap'
        /\ Owned(v)' \cap (heap \ Owned(v)) = {}
        /\ heap' \subseteq (heap \ Owned(v)) \cup Owned(v)'
    BY <1>10, <2>2, NoBuffers
  <2>7. Gives(v, Nothing)
    BY <1>2, <1>10, <2>5, <2>6, DynamicConstants DEF Gives
  <2> QED
    BY <1>2, <2>4, <2>6, <2>7, RecordGiven
<1>11. ASSUME NEW k \in {n, 0}, NEW s, c >= n, Occupied(s, c, Span(0, k)),
              mem' = [mem EXCEPT ![Data(v)] = s], vec' = [vec EXCEPT ![v].size = k],
              heap' = heap
       PROVE  Neat /\ Conserves
  <2> DEFINE rec == [vec[v] EXCEPT !.size = k]
  <2>1. k \in Nat /\ k \in Sizes /\ k <= c
    BY <1>3, <1>5, <1>11, DynamicConstants
  <2>2. rec \in StorageRecord /\ vec' = [vec EXCEPT ![v] = rec]
    BY <1>5, <1>11, <2>1 DEF StorageRecord
  <2>3. vec'[v] = rec /\ rec.active = vec[v].active /\ rec.ptr = vec[v].ptr
        /\ rec.cap = vec[v].cap /\ rec.size = k
    BY <1>5, <2>2, NoBuffers DEF StorageRecord
  <2> HIDE DEF rec
  <2>4. Size(v)' = k /\ Capacity(v)' = c /\ Owned(v)' = Owned(v) /\ Data(v)' = Data(v)
    BY <2>3 DEF Size, Capacity, Owned, Data, IsDynamic, c
  <2>5. Slots(v)' = s
    BY <1>5, <1>11, <2>4, NoBuffers DEF Slots
  <2>6. Settled(v)
    <3>1. Owned(v)' \subseteq heap'
      BY <1>5, <1>11, <2>4
    <3> QED
      BY <1>5, <1>11, <2>1, <2>4, <2>5, <3>1, NowSound DEF Occupied, Settled
  <2>7. IsBlock(s, c) /\ (Data(v) \in {v, NoBlock} => c = 0)
    <3>1. Data(v) = NoBlock => c = 0
      BY <1>1, NullCapacity DEF c
    <3>2. Data(v) = v => c = 0
      <4>1. v \notin heap \cup {NoBlock}
        BY NoBuffers, DynamicConstants
      <4> QED
        BY <1>1, <4>1, OfVector, DynamicConstants DEF c
    <3> QED
      BY <1>11, <3>1, <3>2 DEF Occupied
  <2>8. Data(v) \in {v, NoBlock} => s = Blank(0)
    BY <2>7 DEF IsBlock, Blank
  <2>9. /\ mem'[v] = mem[v] /\ mem'[NoBlock] = mem[NoBlock]
        /\ mem' = [p \in Places |-> mem'[p]]
        /\ \A p \in Places : p \notin {v} \cup Owned(v) \cup Owned(v)' => mem'[p] = mem[p]
    BY <1>5, <1>7, <1>11, <2>8, NoBuffers, DynamicConstants
  <2>10. IsBlock(mem'[v], N) /\ ~AnyLive(mem'[v])
    BY <2>9, NoBuffers, DynamicConstants
  <2>11. /\ heap' \subseteq Blocks /\ heap \ Owned(v) \subseteq heap'
         /\ Owned(v)' \cap (heap \ Owned(v)) = {}
         /\ heap' \subseteq (heap \ Owned(v)) \cup Owned(v)'
    BY <1>11, <2>4, NoBuffers
  <2>12. Gives(v, rec)
    BY <1>2, <2>2, <2>9, <2>10, <2>11 DEF Gives
  <2> QED
    BY <1>2, <2>6, <2>11, <2>12, RecordGiven
<1>12. ASSUME NEW fate, c >= n,
              mem' = [mem EXCEPT ![Data(v)] =
                        IF fate = "ok" THEN Construct(Blank(c), 0, xs) ELSE Blank(c)],
              vec' = [vec EXCEPT ![v].size = IF fate = "ok" THEN n ELSE 0],
              heap' = heap
       PROVE  Neat /\ Conserves
  <2>1. Occupied(Construct(Blank(c), 0, xs), c, Span(0, n))
    <3>1. 0 \in Int /\ c \in Int /\ 0 + Len(xs) = n
      BY <1>3, <1>5
    <3> QED
      BY <1>3, <3>1, Placed
  <2>2. Occupied(Blank(c), c, Span(0, 0))
    <3>1. Span(0, 0) = {}
      BY DEF Span
    <3> QED
      BY <1>5, <3>1, BlankOccupied
  <2>3. CASE fate = "ok"
    BY <1>11, <1>12, <2>1, <2>3
  <2>4. CASE fate # "ok"
    BY <1>11, <1>12, <2>2, <2>4
  <2> QED
    BY <2>3, <2>4
<1> HIDE DEF b, kept
<1> QED
  BY <1>4, <1>9, <1>10, <1>12

-------------------------------------------------------------------------------
(* The invariant of a program.                                                 *)

\* The members that involve two vectors.
LEMMA BetweenNeat ==
  ASSUME Good, NEW v \in Vecs, NEW w \in Vecs, Between0(v, w)
  PROVE  Neat /\ (Conserves \/ Drops(v, w))
BY MoveConstructNeat, CopyConstructNeat, MoveAssignNeat, CopyAssignNeat, SwapNeat DEF Between0

\* Construction and destruction.
LEMMA LifetimeNeat ==
  ASSUME Good, NEW v \in Vecs, Lifetime(v)
  PROVE  Neat /\ Conserves
<1>1. last'.op \in {"construct", "destroy"}
  BY DEF Lifetime, DefaultConstruct, DestroyVector, Called
<1> QED
  BY <1>1, LifetimeProper, ProperNeat

\* The calls that involve one vector.
LEMMA EditNeat ==
  ASSUME WideGrowth, Good, NEW v \in Editing, Edit(v)
  PROVE  Neat /\ Conserves
<1>1. last'.op \in EditOps
  BY EditOp
<1> QED
  BY <1>1, EditProper, ProperNeat DEF EditOps

LEMMA InitDynamic == Init => InvDynamic
<1> SUFFICES ASSUME Init PROVE InvDynamic
  OBVIOUS
<1>1. Inv /\ alive = {} /\ leaked = {} /\ last = NoCall
  BY InitInv DEF Init, StorageInit, NoLeak
<1>2. ~Terminated
  BY <1>1 DEF Terminated, NoCall
<1>3. Owning
  BY <1>1, <1>2 DEF Inv, BlocksOwnedOnce, Owning
<1>4. AlwaysSound
  BY <1>1 DEF AlwaysSound, NoLeak
<1> QED
  BY <1>1, <1>3, <1>4 DEF InvDynamic, Inv

\* The program makes its calls in good states.
LEMMA ReadyDynamic ==
  ASSUME InvDynamic, last = NoCall
  PROVE  Good /\ leaked = {}
<1>1. ~Terminated /\ \A v : ~MisreadsOwn(v) /\ ~InsertsTooMany(v)
  BY DEF Terminated, MisreadsOwn, InsertsTooMany, NoCall
<1>2. \A v \in alive : Sound(v)
  BY <1>1 DEF InvDynamic, AlwaysSound
<1>3. Typed
  BY <1>1, <1>2 DEF InvDynamic, Running, Terminated
<1> QED
  BY <1>1, <1>2, <1>3 DEF InvDynamic, AlwaysSound, Good, NoLeak

\* A call keeps the invariant.
LEMMA NeatInv ==
  ASSUME InvDynamic, last = NoCall, Neat
  PROVE  InvDynamic'
<1>1. leaked = {}
  BY ReadyDynamic
<1>2. CASE Terminated'
  BY <1>2 DEF InvDynamic, AlwaysSound, Running, Terminated
<1>3. CASE ~Terminated'
  <2>1. /\ (\A v \in alive' : Sound(v)') => Typed'
        /\ Owning' /\ leaked' = {}
        /\ \A v \in alive' : Sound(v)' \/ MisreadsOwn(v)' \/ InsertsTooMany(v)'
    BY <1>1, <1>3 DEF Neat
  <2>2. AlwaysSound'
    BY <2>1 DEF AlwaysSound, Owning, NoLeak
  <2>3. (Running => Typed)'
    BY <2>1 DEF Running
  <2> QED
    BY <2>1, <2>2, <2>3 DEF InvDynamic
<1> QED
  BY <1>2, <1>3

\* A step that leaves every vector and every block alone.
LEMMA QuietDynamic ==
  ASSUME InvDynamic, UNCHANGED <<ty, alive, vec, heap, mem, leaked>>,
         \/ Running /\ last' = NoCall
         \/ last' = last
  PROVE  InvDynamic' /\ Conserves
<1>1. \A v : /\ Owned(v)' = Owned(v) /\ IsDynamic(v)' = IsDynamic(v) /\ Slots(v)' = Slots(v)
             /\ Capacity(v)' = Capacity(v)
  BY DEF Owned, IsDynamic, Slots, Capacity, Data
<1>2. \A v : Sound(v)' <=> Sound(v)
  BY SameVectors
<1>3. (\A v \in alive : Sound(v)) <=> (\A v \in alive' : Sound(v)')
  BY <1>2
<1>4. Typed <=> Typed'
  BY <1>1 DEF Typed
<1>5. Owning <=> Owning'
  BY <1>1 DEF Owning
<1>6. Conserves
  BY <1>1 DEF Conserves, Lost
<1>7. CASE Running /\ last' = NoCall
  <2>1. ~Terminated /\ ~Terminated' /\ \A v \in alive : Sound(v)
    BY <1>7 DEF Running, Terminated, NoCall
  <2>2. Typed' /\ Owning'
    BY <1>4, <1>5, <1>7, <2>1 DEF InvDynamic
  <2>3. leaked' = NoLeak
    BY <2>1 DEF InvDynamic, AlwaysSound, NoLeak
  <2>4. AlwaysSound'
    BY <1>3, <2>1, <2>2, <2>3 DEF AlwaysSound, Owning, NoLeak
  <2> QED
    BY <1>6, <2>2, <2>4 DEF InvDynamic
<1>8. CASE last' = last
  <2>1. \A v : /\ MisreadsOwn(v)' <=> MisreadsOwn(v)
               /\ InsertsTooMany(v)' <=> InsertsTooMany(v)
    BY <1>8 DEF MisreadsOwn, InsertsTooMany, RelocatesFirst, OwnGiven
  <2>2. (Terminated' <=> Terminated) /\ (Running' <=> Running)
    BY <1>3, <1>8 DEF Terminated, Running
  <2>3. AlwaysSound'
    <3>1. CASE Terminated
      BY <2>2, <3>1 DEF AlwaysSound
    <3>2. CASE ~Terminated
      <4>1. /\ \A v \in alive' : Sound(v)' \/ MisreadsOwn(v)' \/ InsertsTooMany(v)'
            /\ \A v, w \in alive' : v # w => Owned(v)' \cap Owned(w)' = {}
            /\ leaked' = NoLeak
        BY <1>1, <1>2, <2>1, <3>2 DEF InvDynamic, AlwaysSound, NoLeak
      <4> QED
        BY <4>1 DEF AlwaysSound, NoLeak
    <3> QED
      BY <3>1, <3>2
  <2> QED
    BY <1>4, <1>5, <1>6, <2>2, <2>3 DEF InvDynamic
<1> QED
  BY <1>7, <1>8

\* A step of the program.
LEMMA NextDynamic ==
  ASSUME WideGrowth, InvDynamic, Next0
  PROVE  InvDynamic' /\ (Conserves \/ \E v, w \in alive : Drops(v, w))
<1>1. CASE Return
  <2>1. UNCHANGED <<ty, alive, vec, heap, mem, leaked>> /\ Running /\ last' = NoCall
    BY <1>1 DEF Return
  <2> QED
    BY <2>1, QuietDynamic
<1>2. ASSUME last = NoCall, NEW v \in Vecs, Lifetime(v) PROVE InvDynamic' /\ Conserves
  BY <1>2, ReadyDynamic, LifetimeNeat, NeatInv
<1>3. ASSUME last = NoCall, NEW v \in Vecs, NEW w \in Vecs, Between0(v, w)
      PROVE  InvDynamic' /\ (Conserves \/ \E x, y \in alive : Drops(x, y))
  <2>1. Neat /\ (Conserves \/ Drops(v, w))
    BY <1>3, ReadyDynamic, BetweenNeat
  <2>2. Drops(v, w) => v \in alive /\ w \in alive
    BY DEF Drops, MoveAssign0
  <2> QED
    BY <1>3, <2>1, <2>2, NeatInv
<1>4. ASSUME last = NoCall, NEW v \in Editing, Edit(v) PROVE InvDynamic' /\ Conserves
  BY <1>4, ReadyDynamic, EditNeat, NeatInv
<1> QED
  BY <1>1, <1>2, <1>3, <1>4 DEF Next0

\* The invariant holds for every number of vectors and blocks and every set of
\* values and value types.
THEOREM InvarianceDynamic ==
  ASSUME WideGrowth
  PROVE  Spec0 => []InvDynamic
<1>1. InvDynamic /\ [Next0]_vars => InvDynamic'
  BY NextDynamic, QuietDynamic DEF vars
<1> QED
  BY <1>1, InitDynamic, PTL DEF Spec0

\* Without an in-object buffer no call that fails leaves a vector unsound, no
\* block has two owners and no object is lost with its storage.
THEOREM AlwaysSoundHolds ==
  ASSUME WideGrowth
  PROVE  Spec0 => []AlwaysSound
<1>1. InvDynamic => AlwaysSound
  BY DEF InvDynamic
<1> QED
  BY <1>1, InvarianceDynamic, PTL

\* A block that loses its owner was dropped by a move assignment to a vector that
\* has the block but no elements in it.
LEMMA DropsOnly ==
  ASSUME Conserves \/ \E v, w \in alive : Drops(v, w)
  PROVE  \/ Orphans' \subseteq Orphans \/ Terminated'
         \/ \E v, w \in alive : MoveAssign0(v, w) /\ Size(v) = 0 /\ Owned(v) # {}
<1>1. CASE \E v, w \in alive : Drops(v, w)
  BY <1>1 DEF Drops
<1>2. CASE Conserves /\ ~Terminated'
  <2>1. \A b : Lost(b)' => Lost(b)
    BY <1>2 DEF Conserves
  <2>2. \A b : /\ b \in Orphans <=> Lost(b)
               /\ b \in Orphans' <=> Lost(b)'
    BY DEF Orphans, Lost
  <2> QED
    BY <2>1, <2>2
<1> QED
  BY <1>1, <1>2

\* No call loses a block but such a move assignment.
THEOREM OrphansOnlyFromMovesHolds ==
  ASSUME WideGrowth
  PROVE  Spec0 => OrphansOnlyFromMoves
<1>1. InvDynamic /\ [Next0]_vars =>
        [ Orphans' \subseteq Orphans \/ Terminated'
          \/ \E v, w \in alive : MoveAssign0(v, w) /\ Size(v) = 0 /\ Owned(v) # {} ]_vars
  BY NextDynamic, DropsOnly
<1> QED
  BY <1>1, InvarianceDynamic, PTL DEF Spec0, OrphansOnlyFromMoves

-------------------------------------------------------------------------------
(* The members that involve two vectors refine VectorValue.                    *)

\* A vector that has been given the record of another one holds its elements.
LEMMA GivenSeen ==
  ASSUME Good, NEW v \in alive', NEW w \in alive, vec'[v] = vec[w],
         Owned(w) # {} => mem'[Data(w)] = mem[Data(w)]
  PROVE  Seen(v)' = Elements(w)
<1>1. Size(v)' = Size(w)
  BY DEF Size
<1>2. CASE Owned(w) # {}
  <2>1. IsDynamic(w) /\ mem'[Data(w)] = mem[Data(w)]
    BY <1>2, OwnedBlock
  <2>2. Data(v)' = Data(w)
    BY <2>1 DEF Data, IsDynamic
  <2> QED
    BY <1>1, <2>1, <2>2 DEF Seen, Elements, Slots
<1>3. CASE Owned(w) = {}
  <2>1. Capacity(w) = 0
    <3>1. CASE IsDynamic(w)
      <4>1. Data(w) = NoBlock
        BY <1>3, <3>1, OwnedBlock
      <4> QED
        BY <4>1, NullCapacity
    <3>2. CASE ~IsDynamic(w)
      BY <3>2, OfVector, DynamicConstants
    <3> QED
      BY <3>1, <3>2
  <2>2. Size(w) = 0
    <3>1. Size(w) \in Nat /\ Size(w) <= Capacity(w)
      BY OfVector
    <3> QED
      BY <2>1, <3>1
  <2>3. PICK s, t : s = Slots(w) /\ t = Slots(v)'
    OBVIOUS
  <2>4. Elements(w) = Read(s, 0, 0) /\ Seen(v)' = Read(t, 0, 0)
    BY <1>1, <2>2, <2>3 DEF Seen, Elements
  <2> QED
    BY <2>4, ReadNothing
<1> QED
  BY <1>2, <1>3

\* A vector that has been given nothing holds no elements.
LEMMA NothingSeen ==
  ASSUME NEW w \in alive', vec'[w] = Nothing
  PROVE  Seen(w)' = <<>>
<1>1. Size(w)' = 0
  BY DEF Size, Nothing, Dynamic
<1>2. PICK s : s = Slots(w)'
  OBVIOUS
<1>3. Seen(w)' = Read(s, 0, 0)
  BY <1>1, <1>2 DEF Seen, Elements
<1> QED
  BY <1>3, ReadNothing

\* A call that moves the record of w to v, and frees blocks v had.
LEMMA MovedRefines ==
  ASSUME Good, NEW v \in Vecs, NEW w \in alive, v # w, alive' = alive \cup {v},
         vec' = [vec EXCEPT ![v] = vec[w], ![w] = Nothing],
         NEW freed, freed \subseteq Owned(v),
         mem' = [p \in Places |-> IF p \in freed THEN Blank(0) ELSE mem[p]],
         NEW op, NEW args, args = <<w>>, Called(op, v, args, "ok"),
         \/ op = "construct_move" /\ v \notin alive
         \/ op = "assign_move" /\ v \in alive
  PROVE  Value!Next
<1>1. PICK V : V = {v, w}
  OBVIOUS
<1>2. w \in Vecs /\ vec'[v] = vec[w] /\ vec'[w] = Nothing
  BY NoBuffers
<1>3. Alters(V)
  BY <1>1, <1>2, NoBuffers DEF Alters
<1>4. Owned(w) # {} => mem'[Data(w)] = mem[Data(w)]
  <2> SUFFICES ASSUME Owned(w) # {} PROVE mem'[Data(w)] = mem[Data(w)]
    OBVIOUS
  <2>1. Data(w) \in Owned(w) /\ Data(w) \in Places
    BY OwnedBlock, OfVector
  <2>2. Owned(v) \cap Owned(w) = {}
    BY <1>2 DEF Good, Owning
  <2> QED
    BY <2>1, <2>2
<1>5. Seen(v)' = Elements(w)
  BY <1>2, <1>4, GivenSeen
<1>6. Seen(w)' = <<>>
  BY <1>2, NothingSeen
<1> QED
  BY <1>1, <1>3, <1>5, <1>6, ValueMoves

\* The move constructor.
LEMMA MoveConstruct0Refines ==
  ASSUME Good, NEW v \in Vecs, NEW w \in Vecs, MoveConstruct0(v, w)
  PROVE  Value!Next
<1>1. /\ v \notin alive /\ w \in alive /\ alive' = alive \cup {v} /\ mem' = mem
      /\ vec' = [vec EXCEPT ![v] = vec[w], ![w] = Nothing]
      /\ Called("construct_move", v, <<w>>, "ok")
  BY DEF MoveConstruct0
<1>2. PICK freed, op, args : freed = {} /\ op = "construct_move" /\ args = <<w>>
  OBVIOUS
<1>3. mem' = [p \in Places |-> IF p \in freed THEN Blank(0) ELSE mem[p]]
  BY <1>1, <1>2, NoBuffers
<1>4. freed \subseteq Owned(v) /\ Called(op, v, args, "ok") /\ v # w
  BY <1>1, <1>2
<1> QED
  BY <1>1, <1>2, <1>3, <1>4, MovedRefines

\* Move assignment.
LEMMA MoveAssign0Refines ==
  ASSUME Good, NEW v \in Vecs, NEW w \in Vecs, MoveAssign0(v, w)
  PROVE  Value!Next
<1>1. PICK freed, op, args :
        freed = (IF Size(v) # 0 THEN Owned(v) ELSE {}) /\ op = "assign_move" /\ args = <<w>>
  OBVIOUS
<1>2. /\ v \in alive /\ w \in alive /\ v # w /\ alive' = alive \cup {v}
      /\ mem' = [p \in Places |-> IF p \in freed THEN Blank(0) ELSE mem[p]]
      /\ vec' = [vec EXCEPT ![v] = vec[w], ![w] = Nothing]
      /\ Called(op, v, args, "ok")
  BY <1>1 DEF MoveAssign0
<1>3. freed \subseteq Owned(v)
  BY <1>1
<1> QED
  BY <1>1, <1>2, <1>3, MovedRefines

\* swap.
LEMMA Swap0Refines ==
  ASSUME Good, NEW v \in Vecs, NEW w \in Vecs, Swap0(v, w)
  PROVE  Value!Next
<1>1. /\ v \in alive /\ w \in alive /\ v # w /\ alive' = alive /\ mem' = mem
      /\ vec' = [vec EXCEPT ![v] = vec[w], ![w] = vec[v]]
      /\ Called("swap", v, <<w>>, "ok")
  BY DEF Swap0
<1>2. vec'[v] = vec[w] /\ vec'[w] = vec[v]
  BY <1>1, NoBuffers
<1>3. Seen(v)' = Elements(w) /\ Seen(w)' = Elements(v)
  BY <1>1, <1>2, GivenSeen
<1>4. PICK V : V = {v, w}
  OBVIOUS
<1>5. Alters(V)
  BY <1>1, <1>4, NoBuffers DEF Alters
<1> QED
  BY <1>1, <1>3, <1>4, <1>5, ValueSwaps

\* The copy constructor.
LEMMA CopyConstruct0Refines ==
  ASSUME Good, NEW v \in Vecs, NEW w \in Vecs, CopyConstruct0(v, w)
  PROVE  Value!Next
<1>1. PICK n, e, S, old, new, args, op :
        /\ n = Size(w) /\ e = Elements(w) /\ S = Worths(w) /\ old = Blank(0)
        /\ new = Construct(Blank(n), 0, e) /\ args = <<w>> /\ op = "construct_copy"
  OBVIOUS
<1>2. v \notin alive /\ w \in alive /\ n \in Nat
  BY <1>1, OfVector DEF CopyConstruct0
<1>3. e \in Seq(S) /\ Len(e) = n /\ Holds(new, e)
  BY <1>1, <1>2, CopyHolds
<1>4. \/ \E fate \in CopyFate(ty, n) :
           \/ /\ fate = "ok"
              /\ Exchange(v, NewBlock, new, n, old, op)
              /\ alive' = alive \cup {v}
              /\ Called(op, v, args, "ok")
              /\ UNCHANGED ty
           \/ /\ fate # "ok"
              /\ Unwind(NewBlock, Blank(n), ty.ncopy, op)
              /\ Called(op, v, args, fate)
              /\ UNCHANGED <<ty, alive>>
      \/ Unchanged(op, v, args, "threw")
  BY <1>1, Zenon DEF CopyConstruct0
<1>5. \A fate \in CopyFate(ty, n) \ {"ok"} : fate \in {"threw", "terminated"}
  BY Fates
<1>6. CASE Unchanged(op, v, args, "threw")
  BY <1>6, QuietFails
<1>7. CASE \E out \in {"threw", "terminated"} :
             /\ Unwind(NewBlock, Blank(n), ty.ncopy, op)
             /\ Called(op, v, args, out)
             /\ UNCHANGED <<ty, alive>>
  BY <1>7, UnwindFails
<1>8. CASE /\ Exchange(v, NewBlock, new, n, old, op)
           /\ alive' = alive \cup {v}
           /\ Called(op, v, args, "ok")
  <2>1. Alters({v}) /\ Seen(v)' = Read(new, 0, n)
    BY <1>8, ExchangeView
  <2>2. Read(new, 0, n) = e
    BY <1>3, ReadHeld
  <2>3. Seen(v)' = e
    BY <2>1, <2>2
  <2>4. op = "construct_copy" /\ \E x \in alive : e = Elements(x)
    BY <1>1, <1>2
  <2> QED
    BY <1>2, <1>8, <2>1, <2>3, <2>4, ValueCreates
<1> QED
  BY <1>4, <1>5, <1>6, <1>7, <1>8

\* Copy assignment.
LEMMA CopyAssign0Refines ==
  ASSUME Good, NEW v \in Vecs, NEW w \in Vecs, CopyAssign0(v, w)
  PROVE  Value!Next
<1>1. PICK n, xs, kept, cleared, b, c, args, op :
        /\ n       = IF v = w THEN 0 ELSE Size(w)
        /\ xs      = Read(Slots(w), 0, n)
        /\ kept    = heap \ Owned(v)
        /\ cleared = [mem EXCEPT ![Data(v)] = Blank(0)]
        /\ b       = BlockOutside(kept)
        /\ c       = Capacity(v)
        /\ args = <<w>> /\ op = "assign_copy"
  OBVIOUS
<1>2. PICK fate \in CopyFate(ty, n) :
           \/ /\ c < n /\ fate = "ok" /\ MemoryLeft(kept)
              /\ mem' = [cleared EXCEPT ![b] = Construct(Blank(n), 0, xs)]
              /\ vec' = [vec EXCEPT ![v] = Dynamic(b, n, n)]
              /\ Called(op, v, args, "ok")
           \/ /\ c < n
              /\ mem' = cleared
              /\ vec' = [vec EXCEPT ![v] = Nothing]
              /\ Called(op, v, args, IF fate = "ok" THEN "threw" ELSE fate)
           \/ /\ c >= n
              /\ mem' = [mem EXCEPT ![Data(v)] =
                           IF fate = "ok" THEN Construct(Blank(c), 0, xs) ELSE Blank(c)]
              /\ vec' = [vec EXCEPT ![v].size = IF fate = "ok" THEN n ELSE 0]
              /\ Called(op, v, args, fate)
  BY <1>1, Zenon DEF CopyAssign0
<1>3. /\ v \in alive /\ w \in alive /\ alive' = alive /\ n \in Nat /\ c \in Nat
      /\ Data(v) \in Places /\ Data(v) \in {v, NoBlock} \cup Owned(v)
      /\ mem = [p \in Places |-> mem[p]] /\ vec \in [Vecs -> StorageRecord]
      /\ Len(xs) = n /\ Objects(xs)
  <2>1. v \in alive /\ w \in alive /\ alive' = alive
    BY DEF CopyAssign0
  <2>2. n \in Nat /\ Len(xs) = n /\ Objects(xs)
    BY <1>1, <2>1, Source
  <2> QED
    BY <1>1, <2>1, <2>2, OfVector, Buffers, NoBuffers
<1>4. ASSUME \A x \in Vecs \ {v} : vec'[x] = vec[x], mem'[NoBlock] = mem[NoBlock],
             \A x \in Places : x = Data(v) \/ x \in Blocks \ kept \/ mem'[x] = mem[x]
      PROVE  Alters({v})
  <2>1. \A x \in Places :
          mem'[x] = mem[x] \/ x \in {v} \/ x \in Blocks \ heap \/ \E y \in {v} : x \in Owned(y)
    BY <1>1, <1>3, <1>4
  <2> QED
    BY <1>3, <1>4, <2>1 DEF Alters
<1>5. CASE \E out \in {"threw", "terminated"} : Alters({v}) /\ Called(op, v, args, out)
  <2>1. last'.v = v /\ last'.op = "assign_copy" /\ last'.out \in {"threw", "terminated"}
    BY <1>1, <1>5 DEF Called
  <2> QED
    BY <1>3, <1>5, <2>1, ValueBasic
<1>6. ASSUME NEW k, k \in Nat, n <= k, NEW p, NEW t, t = Construct(Blank(k), 0, xs),
              mem'[p] = t, Data(v)' = p, Size(v)' = n, Alters({v}), Called(op, v, args, "ok")
       PROVE  Value!Next
  <2>1. xs = (IF v = w THEN <<>> ELSE Elements(w)) /\ Len(xs) = n /\ Holds(t, xs)
        /\ \E S : xs \in Seq(S)
    BY <1>1, <1>3, <1>6, SourceHolds
  <2>2. PICK S : xs \in Seq(S)
    BY <2>1
  <2>3. Seen(v)' = xs
    BY <1>3, <1>6, <2>1, <2>2, KeptSeen
  <2> QED
    BY <1>1, <1>3, <1>6, <2>1, <2>3, ValueAssigns
<1>7. /\ mem[NoBlock] = Blank(0) /\ NoBlock \in Places /\ NoBlock \notin Blocks
      /\ cleared = [p \in Places |-> cleared[p]] /\ cleared[NoBlock] = mem[NoBlock]
      /\ \A x \in Places : x = Data(v) \/ cleared[x] = mem[x]
  <2>1. mem[NoBlock] = Blank(0) /\ NoBlock \in Places /\ NoBlock \notin Blocks
    BY Buffers, DynamicConstants
  <2> QED
    BY <1>1, <1>3, <2>1
<1>8. CASE /\ MemoryLeft(kept)
           /\ mem' = [cleared EXCEPT ![b] = Construct(Blank(n), 0, xs)]
           /\ vec' = [vec EXCEPT ![v] = Dynamic(b, n, n)]
           /\ Called(op, v, args, "ok")
  <2>1. b \in Blocks \ kept /\ b \in Places /\ b # NoBlock
    BY <1>1, <1>7, <1>8, FreshBlock DEF Places
  <2>2. mem'[b] = Construct(Blank(n), 0, xs) /\ vec'[v] = Dynamic(b, n, n)
    BY <1>3, <1>7, <1>8, <2>1
  <2>3. Data(v)' = b /\ Size(v)' = n
    BY <2>2 DEF Data, Size, IsDynamic, Dynamic
  <2>4. Alters({v})
    BY <1>3, <1>4, <1>7, <1>8, <2>1
  <2>5. n <= n
    BY <1>3
  <2>6. PICK t : t = Construct(Blank(n), 0, xs)
    OBVIOUS
  <2>7. mem'[b] = t
    BY <2>2, <2>6
  <2> QED
    BY <1>3, <1>6, <1>8, <2>3, <2>4, <2>5, <2>6, <2>7
<1>9. ASSUME mem' = cleared, vec' = [vec EXCEPT ![v] = Nothing] PROVE Alters({v})
  BY <1>3, <1>4, <1>7, <1>9
<1>10. ASSUME NEW s, IsBlock(s, c), mem' = [mem EXCEPT ![Data(v)] = s],
             NEW k, vec' = [vec EXCEPT ![v].size = k]
      PROVE  Alters({v}) /\ mem'[Data(v)] = s /\ Data(v)' = Data(v) /\ Size(v)' = k
  <2>1. Data(v) = NoBlock => s = Blank(0)
    <3>1. Data(v) = NoBlock => c = 0
      BY <1>1, <1>3, NullCapacity
    <3> QED
      BY <1>10, <3>1 DEF IsBlock, Blank
  <2>2. mem'[NoBlock] = mem[NoBlock]
    BY <1>3, <1>7, <1>10, <2>1
  <2>3. Alters({v})
    BY <1>3, <1>4, <1>10, <2>2
  <2>4. vec[v] \in StorageRecord /\ vec'[v] = [vec[v] EXCEPT !.size = k]
    BY <1>3, <1>10
  <2>5. vec'[v].active = vec[v].active /\ vec'[v].ptr = vec[v].ptr /\ vec'[v].size = k
    BY <2>4 DEF StorageRecord
  <2> QED
    BY <1>3, <1>10, <2>3, <2>5 DEF Data, Size, IsDynamic
<1>11. IsBlock(Construct(Blank(c), 0, xs), c) /\ IsBlock(Blank(c), c)
  <2>1. 0 \in Int /\ c \in Int /\ 0 + Len(xs) = n
    BY <1>3
  <2>2. Occupied(Construct(Blank(c), 0, xs), c, Span(0, n))
    BY <1>3, <2>1, Placed
  <2>3. Occupied(Blank(c), c, {})
    BY <2>1, BlankOccupied
  <2> QED
    BY <2>2, <2>3 DEF Occupied
<1>12. CASE /\ c >= n
            /\ mem' = [mem EXCEPT ![Data(v)] = Construct(Blank(c), 0, xs)]
            /\ vec' = [vec EXCEPT ![v].size = n]
            /\ Called(op, v, args, "ok")
  <2>1. PICK p, t : p = Data(v) /\ t = Construct(Blank(c), 0, xs)
    OBVIOUS
  <2>2. Alters({v}) /\ mem'[p] = t /\ Data(v)' = p /\ Size(v)' = n
    BY <1>10, <1>11, <1>12, <2>1
  <2>3. n <= c
    BY <1>3, <1>12
  <2> QED
    BY <1>3, <1>6, <1>12, <2>1, <2>2, <2>3
<1>13. ASSUME mem' = [mem EXCEPT ![Data(v)] = Blank(c)], vec' = [vec EXCEPT ![v].size = 0]
       PROVE  Alters({v})
  BY <1>10, <1>11, <1>13
<1>14. fate # "ok" => fate \in {"threw", "terminated"}
  BY Fates
<1>15. CASE fate = "ok"
  <2>1. CASE mem' = cleared /\ vec' = [vec EXCEPT ![v] = Nothing] /\ Called(op, v, args, "threw")
    BY <1>5, <1>9, <2>1
  <2> QED
    BY <1>2, <1>8, <1>12, <1>15, <2>1
<1>16. CASE fate # "ok"
  BY <1>2, <1>5, <1>9, <1>13, <1>14, <1>16
<1> QED
  BY <1>15, <1>16

\* The members that involve two vectors.
LEMMA Between0Refines ==
  ASSUME Good, NEW v \in Vecs, NEW w \in Vecs, Between0(v, w)
  PROVE  Value!Next
BY MoveConstruct0Refines, CopyConstruct0Refines, MoveAssign0Refines, CopyAssign0Refines,
   Swap0Refines DEF Between0

\* A step of the program implements a step of VectorValue.
LEMMA Next0Refines ==
  ASSUME WideGrowth, InvDynamic, Next0
  PROVE  Value!Next
<1>1. CASE Return
  <2>1. UNCHANGED <<alive, vec, mem>> /\ last'.op = "none"
    BY <1>1 DEF Return, NoCall
  <2>2. View' = View
    BY <2>1, SameView
  <2>3. Value!Return
    BY <2>1, <2>2 DEF Value!Return, View, Seen
  <2> QED
    BY <2>3 DEF Value!Next
<1>2. ASSUME last = NoCall, NEW v \in Vecs, Lifetime(v) PROVE Value!Next
  BY <1>2, ReadyDynamic, LifetimeRefines
<1>3. ASSUME last = NoCall, NEW v \in Vecs, NEW w \in Vecs, Between0(v, w) PROVE Value!Next
  BY <1>3, ReadyDynamic, Between0Refines
<1>4. ASSUME last = NoCall, NEW v \in Editing, Edit(v) PROVE Value!Next
  BY <1>4, ReadyDynamic, EditRefines
<1> QED
  BY <1>1, <1>2, <1>3, <1>4 DEF Next0

\* Without an in-object buffer, too, the vectors implement the sequences VectorValue
\* states.
THEOREM RefinesDynamicHolds ==
  ASSUME WideGrowth
  PROVE  Spec0 => Refines
<1>1. Init => Value!Init
  BY DEF Init, StorageInit, Value!Init
<1>2. InvDynamic /\ [Next0]_vars => [Value!Next]_(Value!vars)
  <2>1. ASSUME UNCHANGED vars PROVE UNCHANGED Value!vars
    <3>1. UNCHANGED <<alive, vec, mem, last>>
      BY <2>1 DEF vars
    <3>2. View' = View
      BY <3>1, SameView
    <3> QED
      BY <3>1, <3>2 DEF Value!vars, View, Seen
  <2> QED
    BY <2>1, Next0Refines
<1> QED
  BY <1>1, <1>2, InvarianceDynamic, PTL DEF Spec0, Refines, Value!Spec

================================================================================
