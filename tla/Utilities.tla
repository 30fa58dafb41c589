------------------------------- MODULE Utilities -------------------------------
(***************************************************************************)
(* A program that uses the library's small utilities: it either calls the  *)
(* functions that keep no state, one call after the other, or keeps values *)
(* in inclass stores.                                                      *)
(***************************************************************************)
EXTENDS Bwt, PackedStruct, Words, Sought, FixedString, BufferLayout, InclassStore

\* Bounds of the model.
CONSTANTS
  MaxText,    \* the length of a text that is encoded
  Layouts,    \* the packed structures
  PackBits,   \* the width of pack_type
  MaxRange,   \* the length of a range that is searched
  Types,      \* the integer types that are compared: [bits, signed]
  MaxArray,   \* the length of the array of a fixed string
  MaxElement  \* the size of an element of a small_vector

VARIABLES
  stateless,  \* the program calls the functions, and has no stores
  call        \* the call that has just been made, with its result

vars == <<stateless, call, storeVars>>

NoCall == [fn |-> "none"]

Init ==
  /\ stateless \in BOOLEAN /\ call = NoCall
  /\ StoreInit
  /\ stateless => class /\ kind = "full"

Calls(record) ==
  /\ stateless /\ call = NoCall
  /\ call' = record
  /\ UNCHANGED <<stateless, storeVars>>

\* A text is encoded and the outcome decoded.
CallBwt(text, signed) ==
  Calls([fn |-> "bwt", text |-> text, signed |-> signed, encoded |-> encode(text),
         decoded |-> decode(encode(text), signed)])

\* A structure is packed and the word unpacked into another one.
CallPack(layout, values) ==
  LET pack == Pack(layout, values, PackBits)
  IN  Calls([fn |-> "pack", layout |-> layout, values |-> values, pack |-> pack,
             unpacked |-> Unpack(layout, pack)])

\* A sorted range of n elements, below of which are less than the value.
CallSearch(n, below) ==
  Calls([fn |-> "search", below |-> below,
         found |-> bound_leaning(n, [i \in 0 .. n - 1 |-> i < below])])

CallCompare(n, t, m, u) ==
  Calls([fn |-> "compare", n |-> n, m |-> m,
         results |-> <<cmp_less(n, t, m, u), cmp_equal(n, t, m, u), cmp_greater(n, t, m, u),
                       cmp_less_equal(n, t, m, u), cmp_not_equal(n, t, m, u),
                       cmp_greater_equal(n, t, m, u)>>])

CallCount(word, bytes) ==
  Calls([fn |-> "count", word |-> word, bytes |-> bytes,
         left |-> countl_zero(word, bytes), right |-> countr_zero(word, bytes)])

\* A word is stored at a place in memory, its bytes swapped, and loaded again.
CallBytes(memory, it, bytes) ==
  LET stored == unaligned_store(memory, it, byteswap(bytes))
  IN  Calls([fn |-> "bytes", before |-> memory, at |-> it, bytes |-> bytes, stored |-> stored,
             loaded |-> unaligned_load_fwd(stored.memory, it, Len(bytes))])

\* A composed pointer is made, and then given another pointer and other data.
CallPointer(pointer, value, other, fresh) ==
  LET made == Composed(pointer, value)
  IN  Calls([fn |-> "pointer", pointer |-> pointer, value |-> value, other |-> other,
             fresh |-> fresh, made |-> made, moved |-> set_ptr(made, other),
             set |-> set_data(made, fresh)])

CallConcat(l, r) ==
  Calls([fn |-> "concat", l |-> l, r |-> r, both |-> concat_fixed_string(l, r),
         equal |-> fixed_equal(l, r)])

\* The buffer a small_vector gets when it is asked to hold wanted elements.
CallLayout(value, size, wanted) ==
  LET fits == union_min_number_of_elements(value, size)
  IN  Calls([fn |-> "layout", size |-> size, wanted |-> wanted, fits |-> fits,
             buffered |-> at_least(value, size, wanted),
             takes |-> StorageSize(value, size, fits),
             more |-> StorageSize(value, size, fits + 1)])

Return == call # NoCall /\ call' = NoCall /\ UNCHANGED <<stateless, storeVars>>

TypeValues(t) ==
  IF t.signed THEN -(2^(t.bits - 1)) .. 2^(t.bits - 1) - 1 ELSE 0 .. 2^t.bits - 1

Texts == UNION {[1 .. n -> Chars] : n \in 0 .. MaxText}
MemberValues(layout) ==
  {values \in [1 .. Len(layout) -> 0 .. 2^PackBits - 1] :
     \A i \in 1 .. Len(layout) : values[i] < 2^layout[i].bits}
ByteStrings(size) == [1 .. size -> 0 .. 1]
Arrays == UNION {[1 .. n -> {Nul, EndMarker}] : n \in 1 .. MaxArray}
Memory == [i \in 1 .. 6 |-> 0]

CallNext ==
  \/ \E text \in Texts, signed \in BOOLEAN : CallBwt(text, signed)
  \/ \E layout \in Layouts : \E values \in MemberValues(layout) : CallPack(layout, values)
  \/ \E n \in 0 .. MaxRange : \E below \in 0 .. n : CallSearch(n, below)
  \/ \E t, u \in Types : \E n \in TypeValues(t), m \in TypeValues(u) : CallCompare(n, t, m, u)
  \/ \E bytes \in {1, 2, 4, 8} : \E word \in 0 .. 2^Digits(bytes) - 1 : CallCount(word, bytes)
  \/ \E size \in {2, 4}, it \in 1 .. 3 : \E bytes \in ByteStrings(size) : CallBytes(Memory, it, bytes)
  \/ \E pointer, other \in {Align * k : k \in 0 .. 3}, value \in 0 .. Align,
        fresh \in {d \in 0 .. Align : validate(d)} :
       CallPointer(pointer, value, other, fresh)
  \/ \E l, r \in Arrays : CallConcat(l, r)
  \/ \E value \in 1 .. MaxElement, size \in SizeTypes, wanted \in 0 .. 4 :
       CallLayout(value, size, wanted)
  \/ Return

UseStores == ~stateless /\ StoreNext /\ UNCHANGED <<stateless, call>>

Next == CallNext \/ UseStores

Spec == Init /\ [][Next]_vars

----------------------------------------------------------------------------
(* Properties. *)

\* Both sorts of the transform put the characters in the same order.
OrdersAgree(chars, signed) ==
  \A c, d \in chars : c < d <=> Ordered(c, signed) < Ordered(d, signed)

\* Decoding an encoded text gives the text back, if the text does not contain
\* the end marker and the two orders agree on its characters: encode sorts
\* by unsigned characters and decode by those of the type (algo/bwt.h).
BwtRoundTrip ==
  call.fn = "bwt" /\ ~Contains(call.text, EndMarker)
      /\ OrdersAgree(Range(call.text) \cup {EndMarker}, call.signed) =>
    call.decoded = call.text

\* A packed structure unpacks to the low bits of each member's value, with
\* the sign of these bits, whatever the other members hold; only a signed
\* member wider than int may lose its sign (utils/meta_packed_struct.h).
PackRoundTrip ==
  call.fn = "pack" =>
    \A i \in DOMAIN call.layout :
      LET member == call.layout[i]
          low == call.values[i] % 2^member.width
          extended == IF member.signed /\ low >= 2^(member.width - 1)
                        THEN low + 2^member.bits - 2^member.width ELSE low
          reachable == ~member.signed \/ member.width <= IntBits \/ member.width = member.bits
      IN  IF reachable THEN call.unpacked[i] = {extended}
          ELSE extended \in call.unpacked[i] /\ low \in call.unpacked[i]

SearchFinds == call.fn = "search" => call.found = call.below

CompareExact ==
  call.fn = "compare" =>
    call.results = <<call.n < call.m, call.n = call.m, call.n > call.m,
                     call.n <= call.m, call.n # call.m, call.n >= call.m>>

\* The zeros of a word of that many bytes, counted from the left or the right.
ZerosLeft(word, bytes) ==
  CHOOSE k \in 0 .. Digits(bytes) :
    /\ word < 2^(Digits(bytes) - k)
    /\ k < Digits(bytes) => word >= 2^(Digits(bytes) - k - 1)
ZerosRight(word, bytes) ==
  CHOOSE k \in 0 .. Digits(bytes) :
    word % 2^k = 0 /\ (k = Digits(bytes) \/ word % 2^(k + 1) # 0)

\* countr_zero is right for words of four bytes and for those of eight that
\* have a bit in the lower half.
CountsZeros ==
  call.fn = "count" =>
    /\ call.left = ZerosLeft(call.word, call.bytes)
    /\ \/ call.word = 0
       \/ call.bytes = IntBytes
       \/ call.bytes > IntBytes /\ call.word % 2^Digits(IntBytes) # 0
       => call.right = {ZerosRight(call.word, call.bytes)}

BytesKept ==
  call.fn = "bytes" =>
    /\ call.loaded.value = Reverse(call.bytes)
    /\ call.loaded.it = call.stored.it
    /\ \A i \in DOMAIN call.before :
         i < call.at \/ i >= call.stored.it => call.stored.memory[i] = call.before[i]

\* A constructor's value that does not fit becomes part of the pointer, as
\* nothing validates it.
PartsApart ==
  call.fn = "pointer" =>
    /\ validate(call.value) =>
         ptr(call.made) = call.pointer /\ data(call.made) = call.value
    /\ ptr(call.moved) = call.other /\ data(call.moved) = data(call.made)
    /\ ptr(call.set) = ptr(call.made) /\ data(call.set) = call.fresh

\* Concatenation ends in a null character, even of arrays that have none.
ConcatEnds ==
  call.fn = "concat" =>
    /\ terminated(call.both)
    /\ fixed_view(call.both) = fixed_view(call.l) \o fixed_view(call.r)
    /\ \A i \in 1 .. fixed_size(call.l) : call.l[i] = Nul =>
         Len(null_terminated_buffor_view(call.both)) < i
    /\ call.equal <=> fixed_view(call.l) = fixed_view(call.r)

\* The buffer uses all the room a heap block needs anyway, and none more.
BufferFills ==
  call.fn = "layout" =>
    /\ call.takes = struct_min_byte_size(call.size) /\ call.takes < call.more
    /\ call.buffered >= call.wanted /\ call.buffered >= call.fits

\* The small functions compute what their definitions promise: the leaning
\* search finds the lower bound, comparison is that of the integers, zeros
\* are counted, bytes come back from where they were stored, a pointer and
\* its data stay apart, concatenation ends in a null character and a buffer
\* fills the room it has.
MatchesReference ==
  /\ SearchFinds /\ CompareExact /\ CountsZeros /\ BytesKept /\ PartsApart /\ ConcatEnds
  /\ BufferFills

\* A store inside its lifetime holds a value, and no operation uses one that
\* is not there, but for the store whose move assignment has thrown between
\* destroying and constructing, or has copied the bytes of a value with a
\* destructor after running it (inclass_storage.h: inclass_store_t).
StoreLifetimes ==
  [][/\ \A s \in inUse' :
          ~Whole(s)' => \/ s \in inUse /\ ~Whole(s)
                        \/ /\ did'.op = "move_assign" /\ did'.store = s
                           /\ class /\ (did'.threw \/ kind = "assigned")
     /\ astray' => \E s \in inUse : ~Whole(s)]_vars

===============================================================================
