---------------------------- MODULE VectorStorage ----------------------------
(***************************************************************************)
(* The storage of a small_vector (detail/vector_storage.h): a union of an  *)
(* in-class buffer of N slots and a pointer to a heap block, the flag that *)
(* says which of the two is active, and the size.  This module holds the   *)
(* state of a set of vectors that share one heap, and the operations of    *)
(* small_vector_storage<V, S, N> for N > 0: construction, assignment, swap *)
(* and destruction.  Module DynamicVector holds the specialization for     *)
(* N = 0 and module StaticVector the fixed-capacity storage.               *)
(***************************************************************************)
EXTENDS SlotMemory, FiniteSets, Growth

CONSTANTS
  Vecs,      \* the vectors of the program
  Blocks,    \* the blocks the allocator can hand out
  NoBlock,   \* nullptr
  N,         \* buffered_capacity
  Types      \* the value types: records of traits (see SlotMemory)

ASSUME StorageAssumption ==
  /\ NoBlock \notin Blocks /\ Vecs \cap (Blocks \cup {NoBlock}) = {}
  /\ N \in Sizes
  /\ Types \subseteq [ndef : BOOLEAN, nctor : BOOLEAN, ncopy : BOOLEAN,
                      nmove : BOOLEAN, triv : BOOLEAN]

VARIABLES
  ty,      \* the value type the templates are instantiated with
  alive,   \* the vectors inside their lifetime
  vec,     \* [Vecs -> [active, ptr, cap, size]]: active_, data_.dynamic, size_
  heap,    \* the blocks that are allocated
  mem,     \* the slots of each buffer and of each block
  leaked,  \* the operations that abandoned storage with live objects in it
  last     \* the call that has just been made and its outcome, or NoCall

vars == <<ty, alive, vec, heap, mem, leaked, last>>

Places == Vecs \cup Blocks \cup {NoBlock}

Buffered(n) == [active |-> "buffered", ptr |-> NoBlock, cap |-> 0, size |-> n]
Dynamic(b, c, n) == [active |-> "dynamic", ptr |-> b, cap |-> c, size |-> n]

\* A default-constructed storage; with N = 0 there is only the dynamic member.
Empty == IF N = 0 THEN Dynamic(NoBlock, 0, 0) ELSE Buffered(0)

IsDynamic(v) == vec[v].active = "dynamic"
Size(v) == vec[v].size
\* data() and capacity()
Data(v) == IF IsDynamic(v) THEN vec[v].ptr ELSE v
Capacity(v) == IF IsDynamic(v) THEN vec[v].cap ELSE N
Slots(v) == mem[Data(v)]
Owned(v) == IF IsDynamic(v) THEN {vec[v].ptr} \ {NoBlock} ELSE {}

\* The elements a caller sees.
Elements(v) == Read(Slots(v), 0, Size(v))

NoLeak == {}
LeakOf(s, op) == IF AnyLive(s) THEN {op} ELSE NoLeak

\* The vector can be used and destroyed: its storage is its own, and exactly
\* the slots below its size hold objects.
Sound(v) ==
  /\ IsDynamic(v) /\ vec[v].ptr # NoBlock => vec[v].ptr \in heap
  /\ Size(v) <= Capacity(v)
  /\ \A i \in DOMAIN Slots(v) :
       IF i < Size(v) THEN Slots(v)[i] \notin {Raw, Bad} ELSE Slots(v)[i] = Raw

\* Nothing the program does after an unsound state or std::terminate counts.
Running == last.out # "terminated" /\ \A v \in alive : Sound(v)

NoCall == [op |-> "none", v |-> NoBlock, args |-> <<>>, out |-> "ok"]
Called(op, v, args, out) == last' = [op |-> op, v |-> v, args |-> args, out |-> out]

\* A call that leaves every vector as it was.
Unchanged(op, v, args, out) ==
  /\ Called(op, v, args, out)
  /\ UNCHANGED <<ty, alive, vec, heap, mem, leaked>>

\* The allocator's choice of a free block does not matter.
BlockOutside(used) == CHOOSE b \in Blocks \ used : TRUE
NewBlock == BlockOutside(heap)
MemoryLeft(used) == Blocks \ used # {}
Released(p) == IF p \in Vecs THEN Blank(N) ELSE Blank(0)

\* exchange_priv_ and the release of the storage it returns: v takes the block
\* b with the slots new and the size n, and gives up storage left as old.
Exchange(v, b, new, n, old, op) ==
  /\ MemoryLeft(heap)
  /\ vec' = [vec EXCEPT ![v] = Dynamic(b, Cardinality(DOMAIN new), n)]
  /\ heap' = (heap \cup {b}) \ Owned(v)
  /\ mem' = [mem EXCEPT ![b] = new, ![Data(v)] = Released(Data(v))]
  /\ leaked' = leaked \cup LeakOf(old, op)

\* A faulty holder, which never frees its block.
UnwindForgets(b, new, noop, op) ==
  /\ heap' = heap \cup {b}
  /\ mem' = [mem EXCEPT ![b] = new]
  /\ leaked' = leaked \cup LeakOf(new, op)
  /\ UNCHANGED vec

\* An exception leaves a call that holds the new block b with the slots new:
\* cond_except_holder frees it unless it was instantiated as a no-op.
Unwind(b, new, noop, op) ==
  /\ MemoryLeft(heap)
  /\ heap' = IF noop THEN heap \cup {b} ELSE heap
  /\ mem' = IF noop THEN [mem EXCEPT ![b] = new] ELSE mem
  /\ leaked' = leaked \cup LeakOf(new, op)
  /\ UNCHANGED vec

-------------------------------------------------------------------------------
DefaultConstruct(v) ==
  /\ v \notin alive
  /\ alive' = alive \cup {v}
  /\ vec' = [vec EXCEPT ![v] = Empty]
  /\ Called("construct", v, <<>>, "ok")
  /\ UNCHANGED <<ty, heap, mem, leaked>>

\* A faulty destructor, which frees the block of a vector with elements only.
DestroyIfElements(v) ==
  /\ v \in alive
  /\ alive' = alive \ {v}
  /\ vec' = [vec EXCEPT ![v] = Empty]
  /\ heap' = heap \ (IF Size(v) # 0 THEN Owned(v) ELSE {})
  /\ mem' = [mem EXCEPT ![Data(v)] = Released(Data(v))]
  /\ leaked' = leaked \cup LeakOf(Destroy(Slots(v), 0, Size(v)), "destroy")
  /\ Called("destroy", v, <<>>, "ok")
  /\ UNCHANGED ty

\* ~small_vector
DestroyVector(v) ==
  /\ v \in alive
  /\ alive' = alive \ {v}
  /\ vec' = [vec EXCEPT ![v] = Empty]
  /\ heap' = heap \ Owned(v)
  /\ mem' = [mem EXCEPT ![Data(v)] = Released(Data(v))]
  /\ leaked' = leaked \cup LeakOf(Destroy(Slots(v), 0, Size(v)), "destroy")
  /\ Called("destroy", v, <<>>, "ok")
  /\ UNCHANGED ty

\* A faulty relocation, which leaves w as it was.
RelocateBufferKeeps(v, w) ==
  /\ mem' = [mem EXCEPT ![v] = Construct(Blank(N), 0, Elements(w))]
  /\ vec' = [vec EXCEPT ![v] = Buffered(Size(w))]

\* The elements of w's buffer are relocated into v's buffer; both sizes change.
RelocateBuffer(v, w) ==
  /\ mem' = [mem EXCEPT ![v] = Construct(Blank(N), 0, Elements(w)),
                        ![w] = Destroy(mem[w], 0, Size(w))]
  /\ vec' = [vec EXCEPT ![v] = Buffered(Size(w)), ![w] = Buffered(0)]

\* Faulty takeovers: w keeps its size, or everything.
TakeBlockKeepSize(v, w) == vec' = [vec EXCEPT ![v] = vec[w], ![w] = Buffered(Size(w))]
TakeBlockShare(v, w) == vec' = [vec EXCEPT ![v] = vec[w]]

\* v takes w's block, w is left empty and buffered.
TakeBlock(v, w) == vec' = [vec EXCEPT ![v] = vec[w], ![w] = Buffered(0)]

ConstructMove(v, w) ==
  /\ N > 0 /\ v \notin alive /\ w \in alive
  /\ \E fate \in IF IsDynamic(w) THEN {"ok"}
                 ELSE {Leaves(f, ty.nmove) : f \in RelocateFate(ty, Size(w))} :
       \/ /\ fate = "ok"
          /\ alive' = alive \cup {v}
          /\ IF IsDynamic(w) THEN TakeBlock(v, w) /\ UNCHANGED mem
                             ELSE RelocateBuffer(v, w)
          /\ Called("construct_move", v, <<w>>, "ok")
          /\ UNCHANGED <<ty, heap, leaked>>
       \/ fate # "ok" /\ Unchanged("construct_move", v, <<w>>, fate)

\* Move assignment destroys v's elements and frees its block first.
AssignMove(v, w) ==
  /\ N > 0 /\ {v, w} \subseteq alive /\ v # w
  /\ leaked' = leaked \cup LeakOf(Destroy(Slots(v), 0, Size(v)), "assign_move")
  /\ heap' = heap \ Owned(v)
  /\ UNCHANGED <<ty, alive>>
  /\ LET cleared == [mem EXCEPT ![Data(v)] = Released(Data(v))]
     IN  \/ /\ IsDynamic(w)
            /\ mem' = cleared
            /\ TakeBlock(v, w)
            /\ Called("assign_move", v, <<w>>, "ok")
         \/ /\ ~IsDynamic(w)
            /\ mem' = [cleared EXCEPT ![v] = Construct(Blank(N), 0, Elements(w)),
                                      ![w] = Destroy(mem[w], 0, Size(w))]
            /\ vec' = [vec EXCEPT ![v] = Buffered(Size(w)), ![w] = Buffered(0)]
            /\ Called("assign_move", v, <<w>>, "ok")
         \/ \* the copies of a throwing type fail: size_ is still v's old size
            /\ ~IsDynamic(w)
            /\ \E fate \in RelocateFate(ty, Size(w)) \ {"ok"} :
                 /\ mem' = cleared
                 /\ vec' = [vec EXCEPT ![v] = Buffered(Size(v))]
                 /\ Called("assign_move", v, <<w>>, Leaves(fate, ty.nmove))

ConstructCopy(v, w) ==
  /\ N > 0 /\ v \notin alive /\ w \in alive
  /\ \E fate \in CopyFate(ty, Size(w)) :
       \/ /\ Size(w) > N /\ fate = "ok"
          /\ LET new == Construct(Blank(Size(w)), 0, Elements(w))
             IN  Exchange(v, NewBlock, new, Size(w), mem[v], "construct_copy")
          /\ alive' = alive \cup {v}
          /\ Called("construct_copy", v, <<w>>, "ok")
          /\ UNCHANGED ty
       \/ /\ Size(w) > N /\ fate # "ok"
          /\ Unwind(NewBlock, Blank(Size(w)), ty.ncopy, "construct_copy")
          /\ Called("construct_copy", v, <<w>>, fate)
          /\ UNCHANGED <<ty, alive>>
       \/ \* sv_allocate returned null: std::bad_alloc
          Size(w) > N /\ Unchanged("construct_copy", v, <<w>>, "threw")
       \/ /\ Size(w) <= N /\ fate = "ok"
          /\ mem' = [mem EXCEPT ![v] = Construct(mem[v], 0, Elements(w))]
          /\ vec' = [vec EXCEPT ![v] = Buffered(Size(w))]
          /\ alive' = alive \cup {v}
          /\ Called("construct_copy", v, <<w>>, "ok")
          /\ UNCHANGED <<ty, heap, leaked>>
       \/ Size(w) <= N /\ fate # "ok" /\ Unchanged("construct_copy", v, <<w>>, fate)

\* Copy assignment, v = w included.  v's elements are destroyed and its size set
\* to zero before rh.size_ is read; a block that is too small, or that the
\* buffer makes unnecessary, is freed before the copies are made.
AssignCopy(v, w) ==
  /\ N > 0 /\ {v, w} \subseteq alive
  /\ UNCHANGED <<ty, alive>>
  /\ leaked' = leaked \cup LeakOf(Destroy(Slots(v), 0, Size(v)), "assign_copy")
  /\ LET n        == IF v = w THEN 0 ELSE Size(w)
         xs       == Read(Slots(w), 0, n)
         grows    == Capacity(v) < n
         unpins   == ~grows /\ IsDynamic(v) /\ n <= N
         place    == IF unpins THEN v ELSE Data(v)
         freed    == IF grows \/ unpins THEN Owned(v) ELSE {}
         emptied  == IF unpins THEN Buffered(0) ELSE [vec[v] EXCEPT !.size = 0]
         cleared  == [mem EXCEPT ![Data(v)] = IF freed # {} THEN Blank(0)
                                                ELSE Blank(Capacity(v))]
     IN  \E fate \in CopyFate(ty, n) :
           \/ /\ grows /\ fate = "ok" /\ MemoryLeft(heap \ freed)
              /\ LET b == BlockOutside(heap \ freed)
                 IN  /\ heap' = (heap \ freed) \cup {b}
                     /\ mem' = [cleared EXCEPT ![b] = Construct(Blank(n), 0, xs)]
                     /\ vec' = [vec EXCEPT ![v] = Dynamic(b, n, n)]
              /\ Called("assign_copy", v, <<w>>, "ok")
           \/ \* no memory, or a copy that threw: v keeps the pointer it freed
              /\ grows
              /\ heap' = heap \ freed
              /\ mem' = cleared
              /\ vec' = [vec EXCEPT ![v] = emptied]
              /\ Called("assign_copy", v, <<w>>, IF fate = "ok" THEN "threw" ELSE fate)
           \/ /\ ~grows
              /\ heap' = heap \ freed
              /\ mem' = IF fate = "ok"
                           THEN [cleared EXCEPT ![place] = Construct(@, 0, xs)]
                           ELSE cleared
              /\ vec' = [vec EXCEPT ![v] = [emptied EXCEPT !.size =
                                              IF fate = "ok" THEN n ELSE 0]]
              /\ Called("assign_copy", v, <<w>>, fate)

\* uninitialized_uneven_range_swap: the common part is swapped, the rest of the
\* longer buffer is relocated behind the shorter one.
UnevenSwap(v, w) ==
  LET short == IF Size(v) > Size(w) THEN w ELSE v
      long  == IF short = v THEN w ELSE v
      k     == Size(short)
  IN  mem' = [mem EXCEPT
        ![short] = Construct(Assign(@, 0, Read(mem[long], 0, k)), k,
                             Read(mem[long], k, Size(long) - k)),
        ![long]  = Destroy(Assign(@, 0, Read(mem[short], 0, k)), k, Size(long))]

\* One side buffered, the other dynamic: b's elements are *copied* into d's
\* buffer and then b's buffer is overwritten by d's pointer, with its objects.
MixedSwap(b, d) ==
  /\ mem' = [mem EXCEPT ![d] = Construct(@, 0, Elements(b)), ![b] = Blank(N)]
  /\ leaked' = leaked \cup LeakOf(mem[b], "swap")

\* swap; the member function is noexcept, so no exception leaves it.
Swap(v, w) ==
  /\ N > 0 /\ {v, w} \subseteq alive /\ v # w
  /\ \/ /\ ~IsDynamic(v) /\ ~IsDynamic(w) /\ UnevenSwap(v, w) /\ UNCHANGED leaked
     \/ /\ ~IsDynamic(v) /\ IsDynamic(w)  /\ MixedSwap(v, w)
     \/ /\ IsDynamic(v)  /\ ~IsDynamic(w) /\ MixedSwap(w, v)
     \/ /\ IsDynamic(v)  /\ IsDynamic(w)  /\ UNCHANGED <<mem, leaked>>
  /\ vec' = [vec EXCEPT ![v] = vec[w], ![w] = vec[v]]
  /\ Called("swap", v, <<w>>, "ok")
  /\ UNCHANGED <<ty, alive, heap>>

\* A swap that runs a copy or a move which may throw can end the program.
SwapAborts(v, w) ==
  /\ N > 0 /\ {v, w} \subseteq alive /\ v # w
  /\ \/ /\ ~IsDynamic(v) /\ ~IsDynamic(w)
        /\ \/ Size(v) > 0 /\ Size(w) > 0 /\ ~ty.nmove
           \/ Size(v) # Size(w) /\ RelocateFate(ty, 1) # {"ok"}
     \/ /\ IsDynamic(v) # IsDynamic(w)
        /\ ~ty.ncopy
        /\ Size(IF IsDynamic(v) THEN w ELSE v) > 0
  /\ Unchanged("swap", v, <<w>>, "terminated")

StorageInit ==
  /\ ty \in Types
  /\ alive = {}
  /\ vec = [v \in Vecs |-> Empty]
  /\ heap = {}
  /\ mem = [p \in Places |-> Released(p)]
  /\ leaked = NoLeak
  /\ last = NoCall

===============================================================================
