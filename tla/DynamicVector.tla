---------------------------- MODULE DynamicVector ----------------------------
(***************************************************************************)
(* small_vector<V, S, 0>: the specialization of small_vector_storage       *)
(* without an in-class buffer.  A vector owns a heap block or, with data() *)
(* null, nothing.  The functions of vector_func.h are those of SmallVector *)
(* with N = 0; the storage operations are the ones below.                  *)
(***************************************************************************)
EXTENDS SmallVector

CONSTANT MaxOrphans  \* bound of the model: the blocks move assignments lose

ASSUME DynamicAssumption == N = 0 /\ Realloc /\ MaxOrphans \in Nat

Nothing == Dynamic(NoBlock, 0, 0)

MoveConstruct0(v, w) ==
  /\ v \notin alive /\ w \in alive
  /\ alive' = alive \cup {v}
  /\ vec' = [vec EXCEPT ![v] = vec[w], ![w] = Nothing]
  /\ Called("construct_move", v, <<w>>, "ok")
  /\ UNCHANGED <<ty, heap, mem, leaked>>

\* Blocks nobody owns.
Orphans == heap \ UNION {Owned(v) : v \in alive}

\* v's block is freed only when v has elements.
MoveAssign0(v, w) ==
  /\ {v, w} \subseteq alive /\ v # w
  /\ Size(v) = 0 /\ Owned(v) # {} => Cardinality(Orphans) < MaxOrphans
  /\ LET freed == IF Size(v) # 0 THEN Owned(v) ELSE {}
     IN  /\ heap' = heap \ freed
         /\ mem' = [p \in Places |-> IF p \in freed THEN Blank(0) ELSE mem[p]]
         /\ leaked' = leaked \cup LeakOf(Destroy(Slots(v), 0, Size(v)), "assign_move")
  /\ vec' = [vec EXCEPT ![v] = vec[w], ![w] = Nothing]
  /\ Called("assign_move", v, <<w>>, "ok")
  /\ UNCHANGED <<ty, alive>>

\* A faulty swap, which loses one side.
Swap0OneSide(v, w) ==
  /\ {v, w} \subseteq alive /\ v # w
  /\ vec' = [vec EXCEPT ![v] = vec[w]]
  /\ Called("swap", v, <<w>>, "ok")
  /\ UNCHANGED <<ty, alive, heap, mem, leaked>>

Swap0(v, w) ==
  /\ {v, w} \subseteq alive /\ v # w
  /\ vec' = [vec EXCEPT ![v] = vec[w], ![w] = vec[v]]
  /\ Called("swap", v, <<w>>, "ok")
  /\ UNCHANGED <<ty, alive, heap, mem, leaked>>

CopyConstruct0(v, w) ==
  /\ v \notin alive /\ w \in alive
  /\ \/ \E fate \in CopyFate(ty, Size(w)) :
          \/ /\ fate = "ok"
             /\ Exchange(v, NewBlock, Construct(Blank(Size(w)), 0, Elements(w)), Size(w),
                         Blank(0), "construct_copy")
             /\ alive' = alive \cup {v}
             /\ Called("construct_copy", v, <<w>>, "ok")
             /\ UNCHANGED ty
          \/ /\ fate # "ok"
             /\ Unwind(NewBlock, Blank(Size(w)), ty.ncopy, "construct_copy")
             /\ Called("construct_copy", v, <<w>>, fate)
             /\ UNCHANGED <<ty, alive>>
     \/ Unchanged("construct_copy", v, <<w>>, "threw")

\* Unlike the buffered storage, this one forgets the block it has freed before
\* the new one is requested, and keeps a block that is large enough.
CopyAssign0(v, w) ==
  /\ {v, w} \subseteq alive
  /\ UNCHANGED <<ty, alive>>
  /\ leaked' = leaked \cup LeakOf(Destroy(Slots(v), 0, Size(v)), "assign_copy")
  /\ LET n       == IF v = w THEN 0 ELSE Size(w)
         xs      == Read(Slots(w), 0, n)
         kept    == heap \ Owned(v)
         cleared == [mem EXCEPT ![Data(v)] = Blank(0)]
         b       == BlockOutside(kept)
     IN  \E fate \in CopyFate(ty, n) :
           \/ /\ Capacity(v) < n /\ fate = "ok" /\ MemoryLeft(kept)
              /\ heap' = kept \cup {b}
              /\ mem' = [cleared EXCEPT ![b] = Construct(Blank(n), 0, xs)]
              /\ vec' = [vec EXCEPT ![v] = Dynamic(b, n, n)]
              /\ Called("assign_copy", v, <<w>>, "ok")
           \/ /\ Capacity(v) < n   \* std::bad_alloc, or a copy that threw
              /\ heap' = kept
              /\ mem' = cleared
              /\ vec' = [vec EXCEPT ![v] = Nothing]
              /\ Called("assign_copy", v, <<w>>, IF fate = "ok" THEN "threw" ELSE fate)
           \/ /\ Capacity(v) >= n
              /\ mem' = [mem EXCEPT ![Data(v)] =
                           IF fate = "ok" THEN Construct(Blank(Capacity(v)), 0, xs)
                                          ELSE Blank(Capacity(v))]
              /\ vec' = [vec EXCEPT ![v].size = IF fate = "ok" THEN n ELSE 0]
              /\ Called("assign_copy", v, <<w>>, fate)
              /\ UNCHANGED heap

Between0(v, w) ==
  \/ MoveConstruct0(v, w) \/ CopyConstruct0(v, w)
  \/ MoveAssign0(v, w) \/ CopyAssign0(v, w)
  \/ Swap0(v, w)

Next0 ==
  \/ /\ last = NoCall
     /\ \/ \E v \in Vecs : Lifetime(v)
        \/ \E v, w \in Vecs : Between0(v, w)
        \/ \E v \in Editing : Edit(v)
  \/ Return

Spec0 == Init /\ [][Next0]_vars

-------------------------------------------------------------------------------
\* In this specialization no call that fails leaves a vector unsound: that takes
\* emplace_back of an element of the vector itself or an insert of more elements
\* than size_type can count.  No call leaves two vectors with one block, and no
\* object is lost with its storage.
AlwaysSound ==
  Terminated \/
    /\ \A v \in alive : Sound(v) \/ MisreadsOwn(v) \/ InsertsTooMany(v)
    /\ \A v, w \in alive : v # w => Owned(v) \cap Owned(w) = {}
    /\ leaked = NoLeak

\* No call loses a block, except a move assignment to a vector that has a block
\* but no elements in it.
OrphansOnlyFromMoves ==
  [][ Orphans' \subseteq Orphans \/ Terminated'
      \/ \E v, w \in alive : MoveAssign0(v, w) /\ Size(v) = 0 /\ Owned(v) # {} ]_vars

===============================================================================
