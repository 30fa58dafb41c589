------------------------------ MODULE SlotMemory ------------------------------
(***************************************************************************)
(* Raw storage and object lifetimes, as uninitialized_constexpr.h handles  *)
(* them.  A block of storage is a function from 0..capacity-1 to slots; a  *)
(* slot is Raw (no object lives there), Moved (a moved-from object) or the *)
(* value of the object living in it.  Bad marks what the C++ abstract      *)
(* machine gives no meaning to: an object constructed over a live one, a   *)
(* destructor, an assignment or a read applied to raw storage.             *)
(***************************************************************************)
EXTENDS Integers, Sequences

CONSTANTS Raw, Moved, Bad

ASSUME SlotAssumption == Raw # Moved /\ Raw # Bad /\ Moved # Bad

Blank(c) == [i \in 0 .. c - 1 |-> Raw]

\* The slots a..b-1 of a block.
Span(a, b) == a .. b - 1

Get(s, i) == IF i \in DOMAIN s /\ s[i] # Raw THEN s[i] ELSE Bad

\* The values of the objects in slots a..a+n-1, as a sequence.
Read(s, a, n) == [i \in 1 .. n |-> Get(s, a + i - 1)]

\* std::construct_at on consecutive slots from a on.
Construct(s, a, xs) ==
  [i \in DOMAIN s |->
     IF i \in Span(a, a + Len(xs))
       THEN IF s[i] = Raw THEN xs[i - a + 1] ELSE Bad
       ELSE s[i]]

\* Copy assignment to objects that already live in the slots from a on.
Assign(s, a, xs) ==
  [i \in DOMAIN s |->
     IF i \in Span(a, a + Len(xs))
       THEN IF s[i] # Raw THEN xs[i - a + 1] ELSE Bad
       ELSE s[i]]

\* destroy_range(data, first, last)
Destroy(s, a, b) ==
  [i \in DOMAIN s |->
     IF i \in Span(a, b) THEN IF s[i] # Raw THEN Raw ELSE Bad ELSE s[i]]

\* The sources of a completed move construction or move assignment.
LeaveMoved(s, a, b) ==
  [i \in DOMAIN s |-> IF i \in Span(a, b) /\ s[i] # Raw THEN Moved ELSE s[i]]

\* std::move / std::move_backward inside one block: n objects from slot a are
\* move-assigned to the slots from d on; what is not overwritten is moved from.
MoveWithin(s, a, n, d) ==
  [i \in DOMAIN s |->
     IF i \in Span(d, d + n) THEN IF s[i] # Raw THEN Get(s, i - d + a) ELSE Bad
     ELSE IF i \in Span(a, a + n) /\ s[i] # Raw THEN Moved
     ELSE s[i]]

\* uninitialized_move_n inside one block, from slot a to raw slots from d on.
MoveToRaw(s, a, n, d) == Construct(LeaveMoved(s, a, a + n), d, Read(s, a, n))

AnyLive(s) == \E i \in DOMAIN s : s[i] # Raw

-------------------------------------------------------------------------------
(***************************************************************************)
(* Exceptions.  A value type is a record of the traits the library looks   *)
(* at: ndef, ncopy, nmove say that its default constructor, copying and    *)
(* moving cannot throw, nctor that construction from the arguments of      *)
(* emplace cannot, triv that it is trivially relocatable.  The fate of a   *)
(* call over n objects is "ok", "threw" (the exception leaves the call,    *)
(* whose own range_unwinder has destroyed what it had built) or            *)
(* "terminated" (the exception meets a noexcept function).                 *)
(***************************************************************************)
Throws(may, n) == IF may /\ n > 0 THEN {"ok", "threw"} ELSE {"ok"}

\* An exception that leaves a function whose noexcept condition is nx.
Leaves(fate, nx) == IF fate = "threw" /\ nx THEN "terminated" ELSE fate

\* A faulty copy, which is noexcept for every type.
CopyFateNoexcept(t, n) == {Leaves(f, TRUE) : f \in Throws(~t.ncopy, n)}

\* uninitialized_copy_n is noexcept when T is nothrow *default* constructible.
CopyFate(t, n) == {Leaves(f, t.ndef) : f \in Throws(~t.ncopy, n)}

\* uninitialized_move_n, and std::move over assigned objects.
MoveFate(t, n) == Throws(~t.nmove, n)

\* uninitialized_value_construct_n
ValueFate(t, n) == Throws(~t.ndef, n)

\* std::construct_at with the arguments of emplace.
ArgFate(t) == Throws(~t.nctor, 1)

NothrowRelocate(t) == t.triv \/ t.nmove

\* uninitialized_relocate_n where the type allows it, otherwise
\* uninitialized_relocate_with_copy_n.
RelocateFate(t, n) == IF NothrowRelocate(t) THEN {"ok"} ELSE CopyFate(t, n)

\* uninitialized_move_if_noexcept_n
MoveIfNoexceptFate(t, n) == IF t.nmove THEN {"ok"} ELSE CopyFate(t, n)

===============================================================================
