------------------------------ MODULE BasicString ------------------------------
(***************************************************************************)
(* A program that uses several basic_string_t objects of one kind, the     *)
(* buffered one or the static one: the operations of basic_string.h, in    *)
(* any order, each on a string inside its lifetime and with arguments that *)
(* std::basic_string gives a meaning to.  The program stops at a call that *)
(* leaves the string's storage, at a null block and at std::terminate.     *)
(***************************************************************************)
EXTENDS StringStorage

CONSTANTS
  Strs,      \* the strings of the program
  Blocks,    \* the blocks the allocator can hand out
  Tags,      \* the storage tags: a subset of {"buffered", "static"}
  Alphabet,  \* the characters of the program
  Ch,        \* the one that counted operations are called with
  Texts,     \* the character ranges that calls are passed
  \* bounds of the model
  Editing,   \* the strings that are edited in place
  Shared,    \* the values with which two strings interact
  MaxLen,    \* no call leaves a string longer
  Reserved,  \* the arguments of reserve
  Huge,      \* counts near the limits of size_type
  HugeTexts  \* ranges whose length does not fit in size_type

ASSUME StringsAssumption ==
  /\ NoBlock \notin Blocks /\ Strs \cap (Blocks \cup {NoBlock}) = {}
  /\ Tags \subseteq {"buffered", "static"} /\ Editing \subseteq Strs
  /\ {Nul, Ch} \subseteq Alphabet /\ Junk \notin Alphabet
  /\ Texts \cup HugeTexts \subseteq Seq(Alphabet)
  /\ \A n \in Lengths : /\ Lost \notin [0 .. n - 1 -> Alphabet \cup {Junk}]
                        /\ Lost \notin [1 .. n -> Alphabet \cup {Junk}]
  /\ MaxLen \in Lengths /\ Reserved \cup Huge \subseteq Lengths

VARIABLES
  tag,    \* storage_tag, the template's parameter
  alive,  \* the strings inside their lifetime
  str,    \* [Strs -> [dyn, ptr, size]]: active_, data_.dynamic.data, size_
  heap,   \* the blocks that are allocated
  mem,    \* the characters of each buffer and each block
  last    \* the call that has just been made and its outcome, or NoCall

vars == <<tag, alive, str, heap, mem, last>>

Places == Strs \cup Blocks

supports_reallocation == tag = "buffered"
Fresh == IF supports_reallocation THEN Zeroed(N) ELSE Unset(N)
Released(p) == IF p \in Strs THEN Unset(N) ELSE Unset(0)

IsDynamic(v) == str[v].dyn
size(v) == str[v].size
data(v) == IF IsDynamic(v) THEN str[v].ptr ELSE v
Slots(v) == mem[data(v)]
Owned(v) == IF IsDynamic(v) THEN {str[v].ptr} ELSE {}
Buffered(n) == [dyn |-> FALSE, ptr |-> NoBlock, size |-> n]
Dynamic(b, n) == [dyn |-> TRUE, ptr |-> b, size |-> n]

\* view(), begin() .. end(): the characters a caller sees.
view(v) == Chars(Slots(v), 0, size(v))

capacity(v) == Cap(Slots(v)) - 1
at(v, index) == Slots(v)[index]

\* The place behind the characters, where the readers of c_str() stop.
NullTerminated(v) == at(v, size(v)) = Nul

\* Behind the terminator's place every character is as good as indeterminate.
Seen(s, n) ==
  [i \in DOMAIN s |-> IF i < n \/ (i = n /\ s[i] = Nul) THEN s[i] ELSE Junk]

\* The allocator hands out a block while there is one.
NewBlock == CHOOSE b \in Blocks \ heap : TRUE
MemoryLeft == Blocks \ heap # {}

NoCall == [op |-> "none", v |-> NoBlock, args |-> <<>>, out |-> "ok"]
Called(op, v, args, out) == last' = [op |-> op, v |-> v, args |-> args, out |-> out]

\* The call changes no string.
Stops(op, v, args, out) ==
  /\ Called(op, v, args, out)
  /\ UNCHANGED <<tag, alive, str, heap, mem>>

Storage(v) == [out |-> "ok", dyn |-> IsDynamic(v), new |-> FALSE, size |-> size(v),
               s |-> Slots(v)]
Newborn == [out |-> "ok", dyn |-> FALSE, new |-> FALSE, size |-> 0, s |-> Fresh]

\* v takes the storage st that a function has made of its own: a new block or the
\* buffer replaces the block it had, which is released.
Takes(v, st) ==
  LET b == IF st.new THEN NewBlock ELSE str[v].ptr
      place == IF st.dyn THEN b ELSE v
      freed == Owned(v) \ (IF st.dyn THEN {b} ELSE {})
  IN  /\ st.new => MemoryLeft
      /\ str' = [str EXCEPT ![v] = IF st.dyn THEN Dynamic(b, st.size) ELSE Buffered(st.size)]
      /\ heap' = (heap \ freed) \cup (IF st.dyn THEN {b} ELSE {})
      /\ mem' = [p \in Places |-> IF p = place THEN Seen(st.s, st.size)
                                  ELSE IF p \in freed \cup {v} THEN Released(p)
                                  ELSE mem[p]]

\* The call has accessed storage that is not the string's, or shows characters that
\* no call has written.
Meaningless(st) ==
  IF st.s = Lost THEN TRUE ELSE \E i \in 0 .. st.size - 1 : st.s[i] = Junk

\* The call op(args) on v makes st of its storage.  sv_allocate may return null,
\* which no function of string_func.h looks at.
Apply(op, v, args, st) ==
  \/ Meaningless(st) /\ Stops(op, v, args, "undefined")
  \/ st.new /\ Stops(op, v, args, "no_memory")
  \/ /\ ~Meaningless(st) /\ st.out = "ok" /\ st.size <= MaxLen
     /\ alive' = alive \cup {v}
     /\ Takes(v, st)
     /\ Called(op, v, args, "ok")
     /\ UNCHANGED tag
  \/ /\ ~Meaningless(st) /\ st.out # "ok"
     /\ IF v \in alive THEN Takes(v, st) ELSE UNCHANGED <<str, heap, mem>>
     /\ Called(op, v, args, st.out)
     /\ UNCHANGED <<tag, alive>>

-------------------------------------------------------------------------------
\* Construction and destruction.

Construct(v) == v \notin alive /\ Apply("construct", v, <<>>, Newborn)

ConstructFill(v, count, ch) ==
  /\ v \notin alive
  /\ Apply("construct_fill", v, <<count, ch>>,
           uninitialized_construct(supports_reallocation, Newborn, count, Fill(count, ch)))

ConstructRange(v, xs) ==
  /\ v \notin alive
  /\ Apply("construct_range", v, <<xs>>,
           uninitialized_construct(supports_reallocation, Newborn,
                                   Distance(Foreign(xs)), xs))

ConstructCopy(v, w) ==
  /\ v \notin alive /\ w \in alive
  /\ Apply("construct_copy", v, <<w>>,
           uninitialized_construct(supports_reallocation, Newborn, size(w), view(w)))

Destroy(v) ==
  /\ v \in alive /\ alive' = alive \ {v}
  /\ str' = [str EXCEPT ![v] = Buffered(0)]
  /\ heap' = heap \ Owned(v)
  /\ mem' = [p \in Places |-> IF p \in Owned(v) \cup {v} THEN Released(p) ELSE mem[p]]
  /\ Called("destroy", v, <<>>, "ok")
  /\ UNCHANGED tag

\* w has given its characters away: a block leaves a zeroed buffer behind, a
\* buffer the characters it had.
Emptied(w) == IF IsDynamic(w) THEN Zeroed(N) ELSE mem[w]

Ended(s, n, ends) == IF ends THEN cond_null_terminate(s, n) ELSE s

\* A faulty move: the block is shared.
TakeOverShares(v, w, s, ends) ==
  /\ str' = [str EXCEPT ![v] = str[w]]
  /\ heap' = heap \ Owned(v)
  /\ mem' = [p \in Places |->
       IF p = v THEN IF IsDynamic(w) THEN Released(v)
                     ELSE Seen(Ended(Write(s, 0, view(w)), size(w), ends), size(w))
       ELSE IF p \in Owned(v) THEN Released(p)
       ELSE mem[p]]

\* v takes what w holds, in a buffer that held s or in w's block; ends says
\* whether the call writes the terminator.
TakeOver(v, w, s, ends) ==
  /\ str' = [str EXCEPT ![v] = str[w], ![w] = Buffered(0)]
  /\ heap' = heap \ Owned(v)
  /\ mem' = [p \in Places |->
       IF p = w THEN Seen(Emptied(w), 0)
       ELSE IF p = v THEN IF IsDynamic(w) THEN Released(v)
                          ELSE Seen(Ended(Write(s, 0, view(w)), size(w), ends), size(w))
       ELSE IF p \in Owned(v) THEN Released(p)
       ELSE IF p \in Owned(w) THEN Seen(Ended(mem[p], size(w), ends), size(w))
       ELSE mem[p]]

\* The move constructor relies on what the storage of v held already.
ConstructMove(v, w) ==
  /\ v \notin alive /\ w \in alive
  /\ alive' = alive \cup {v}
  /\ TakeOver(v, w, Fresh, FALSE)
  /\ Called("construct_move", v, <<w>>, "ok")
  /\ UNCHANGED tag

-------------------------------------------------------------------------------
\* Assignment and swap.

AssignFill(v, count, ch) ==
  /\ v \in alive
  /\ Apply("assign_fill", v, <<count, ch>>,
           fill_assign(supports_reallocation, Storage(v), count, ch))

AssignRange(v, src) ==
  /\ v \in alive
  /\ Apply("assign", v, <<src>>, assign_copy(supports_reallocation, Storage(v), src))

\* operator=(basic_string_t const &) assigns the view of rh, which may be v.
AssignCopy(v, w) ==
  /\ {v, w} \subseteq alive
  /\ Apply("assign_copy", v, <<w>>,
           assign_copy(supports_reallocation, Storage(v),
                       IF v = w THEN Own(0, size(v)) ELSE Foreign(view(w))))

AssignMove(v, w) ==
  /\ {v, w} \subseteq alive /\ v # w /\ UNCHANGED <<tag, alive>>
  /\ TakeOver(v, w, IF IsDynamic(v) THEN Zeroed(N) ELSE mem[v], TRUE)
  /\ Called("assign_move", v, <<w>>, "ok")

\* v = std::move(v): a block is released and the buffer activated in its place,
\* but the size comes back.
AssignMoveSelf(v) ==
  /\ v \in alive
  /\ Apply("assign_move", v, <<v>>,
           IF IsDynamic(v)
             THEN InBuffer(Storage(v), cond_null_terminate(Zeroed(N), size(v)), size(v))
             ELSE InPlace(Storage(v), cond_null_terminate(Slots(v), size(v)), size(v)))

\* The buffered characters change places, and so do the blocks.
Swap(v, w) ==
  /\ {v, w} \subseteq alive /\ v # w /\ UNCHANGED <<tag, alive, heap>>
  /\ str' = [str EXCEPT ![v] = str[w], ![w] = str[v]]
  /\ LET Held(u) == Seen(cond_null_terminate(Write(Unset(N), 0, view(u)), size(u)), size(u))
     IN  mem' = [p \in Places |->
           IF p = v THEN IF IsDynamic(w) THEN Released(v) ELSE Held(w)
           ELSE IF p = w THEN IF IsDynamic(v) THEN Released(w) ELSE Held(v)
           ELSE IF p \in Owned(v) THEN cond_null_terminate(mem[p], size(v))
           ELSE IF p \in Owned(w) THEN cond_null_terminate(mem[p], size(w))
           ELSE mem[p]]
  /\ Called("swap", v, <<w>>, "ok")

-------------------------------------------------------------------------------
\* Operations on one string.

Clear(v) == Apply("clear", v, <<>>, clear(Storage(v)))

Reserve(v, n) ==
  supports_reallocation /\ Apply("reserve", v, <<n>>, reserve(Storage(v), n))

Resize(v, n, ch) ==
  Apply("resize", v, <<n, ch>>, resize(supports_reallocation, Storage(v), n, ch))

\* The caller's operation fills and returns r characters, or, with full, as many
\* as it is told there is room for.
ResizeAndOverwrite(v, n, r, full) ==
  LET k == IF full THEN buff_cap(Storage(v), n) ELSE r
  IN  Apply("resize_and_overwrite", v, <<n, r, full>>,
            resize_and_overwrite(supports_reallocation, Storage(v), n, 0, Fill(k, Ch), k))

ShrinkToFit(v) ==
  supports_reallocation /\ Apply("shrink_to_fit", v, <<>>, shrink_to_fit(Storage(v)))

\* insert(index, view), insert(index, first, last) and insert(pos, first, last)
Insert(v, index, src) ==
  Apply("insert", v, <<index, src>>,
        insert_copy(supports_reallocation, Storage(v), index, src))

\* insert(index, count, ch), insert(pos, count, ch) and insert(pos, ch)
InsertFill(v, index, count, ch) ==
  Apply("insert", v, <<index, Foreign(Fill(count, ch))>>,
        insert_fill(supports_reallocation, Storage(v), index, count, ch))

AppendFill(v, count, ch) ==
  Apply("append", v, <<Foreign(Fill(count, ch))>>,
        append_fill(supports_reallocation, Storage(v), count, ch))

\* append(view), append(first, last) and operator+=
AppendRange(v, src) ==
  Apply("append", v, <<src>>, append_copy(supports_reallocation, Storage(v), src))

\* append(view, index_str, count): substr refuses an index behind the end.
AppendSubstr(v, xs, index_str, count) ==
  IF index_str > Len(xs)
    THEN Stops("append_substr", v, <<xs, index_str, count>>, "out_of_range")
    ELSE LET rest == Len(xs) - index_str
             k    == IF count < rest THEN count ELSE rest
         IN  Apply("append_substr", v, <<xs, index_str, count>>,
                   append_copy(supports_reallocation, Storage(v),
                               Foreign(SubSeq(xs, index_str + 1, index_str + k))))

PushBack(v, ch) ==
  Apply("append", v, <<Foreign(<<ch>>)>>,
        push_back(supports_reallocation, Storage(v), ch))

\* erase(index, count) and erase(pos)
Erase(v, index, count) ==
  Apply("erase", v, <<index, count>>, erase(Storage(v), index, count))

\* erase(first, last): up to the end it is a resize.
EraseRange(v, first, end) ==
  /\ first <= end
  /\ Apply("erase", v, <<first, end - first>>,
           IF end # size(v) THEN erase(Storage(v), first, end - first)
           ELSE resize(supports_reallocation, Storage(v), first, Nul))

PopBack(v) ==
  /\ size(v) > 0
  /\ Apply("erase", v, <<size(v) - 1, 1>>, pop_back(Storage(v)))

\* replace(pos, count, view) and the overloads with iterators
Replace(v, pos, count, src) ==
  Apply("replace", v, <<pos, count, src>>,
        replace_copy(supports_reallocation, Storage(v), pos, count, src))

ReplaceFill(v, pos, count, count2, ch) ==
  Apply("replace", v, <<pos, count, Foreign(Fill(count2, ch))>>,
        replace_fill(supports_reallocation, Storage(v), pos, count, count2, ch))

\* substr and compare(pos1, count1, s) are noexcept, the view's are not.
Substr(v, pos) ==
  Stops("substr", v, <<pos>>, IF pos > size(v) THEN "terminated" ELSE "ok")

\* find(s, pos)
find(st, what, pos) ==
  LET found == {i \in pos .. st.size - Len(what) : Chars(st.s, i, Len(what)) = what}
  IN  IF found = {} THEN npos ELSE CHOOSE i \in found : \A j \in found : i <= j

\* A faulty round, which goes on at the place it has replaced.
RoundAgain(realloc, what, with, acc) ==
  IF acc.fpos = npos \/ acc.st.out # "ok" \/ acc.st.s = Lost THEN acc
  ELSE LET st == replace_copy(realloc, acc.st, acc.fpos, Len(what), Foreign(with))
       IN  [st |-> st, fpos |-> IF st.s = Lost THEN npos ELSE find(st, what, acc.fpos)]

\* A round of find_and_replace, which looks behind what it has put in.
Round(realloc, what, with, acc) ==
  IF acc.fpos = npos \/ acc.st.out # "ok" \/ acc.st.s = Lost THEN acc
  ELSE LET st == replace_copy(realloc, acc.st, acc.fpos, Len(what), Foreign(with))
       IN  [st |-> st, fpos |-> IF st.s = Lost THEN npos
                                ELSE find(st, what, ToLength(acc.fpos + Len(with)))]

\* A replace that throws leaves the rounds before it done.
find_and_replace(realloc, st, what, with) ==
  LET rounds[n \in Nat] ==
        IF n = 0 THEN [st |-> st, fpos |-> find(st, what, 0)]
        ELSE Round(realloc, what, with, rounds[n - 1])
  IN  IF what = <<>> THEN st ELSE rounds[st.size].st

FindAndReplace(v, what, with) ==
  Apply("find_and_replace", v, <<what, with>>,
        find_and_replace(supports_reallocation, Storage(v), what, with))

-------------------------------------------------------------------------------
\* The program.

Texts0 == Texts \cup HugeTexts
Sources(v) ==
  {Foreign(xs) : xs \in Texts0}
    \cup {Own(p[1], p[2]) : p \in {q \in (0 .. size(v)) \X (0 .. size(v)) : q[1] <= q[2]}}
Indexes(v) == 0 .. size(v) + 1
Counts == (0 .. MaxLen) \cup Huge
Small == 0 .. 2

Create(v) ==
  \/ Construct(v)
  \/ \E n \in Counts, ch \in {Nul, Ch} : ConstructFill(v, n, ch)
  \/ \E xs \in Texts0 : ConstructRange(v, xs)

Between(v, w) ==
  /\ \A u \in {v, w} \cap alive : view(u) \in Shared
  /\ \/ ConstructCopy(v, w) \/ ConstructMove(v, w)
     \/ AssignCopy(v, w) \/ AssignMove(v, w) \/ Swap(v, w)

Self(v) == AssignCopy(v, v) \/ AssignMoveSelf(v)

\* Edits are looked at while there is no other string.
Edit(v) ==
  /\ alive = {v}
  /\ \/ \E n \in Counts : AssignFill(v, n, Ch) \/ Resize(v, n, Nul) \/ Resize(v, n, Ch)
     \/ \E n \in Small \cup Huge : AppendFill(v, n, Ch)
     \/ \E src \in Sources(v) : AssignRange(v, src) \/ AppendRange(v, src)
     \/ \E xs \in Texts, i \in Small, n \in Small : AppendSubstr(v, xs, i, n)
     \/ Clear(v) \/ ShrinkToFit(v) \/ PopBack(v) \/ PushBack(v, Ch)
     \/ \E n \in Reserved \cup Huge : Reserve(v, n)
     \/ \E n, r \in 0 .. MaxLen, full \in BOOLEAN :
          r <= n /\ (full => r = 0) /\ ResizeAndOverwrite(v, n, r, full)
     \/ \E i \in Indexes(v) :
          \/ Substr(v, i)
          \/ \E n \in Small \cup Huge : InsertFill(v, i, n, Ch)
          \/ \E src \in Sources(v) : Insert(v, i, src)
          \/ \E n \in Small \cup {npos} : Erase(v, i, n)
     \/ \E i, j \in 0 .. size(v) : EraseRange(v, i, j)
     \/ \E i \in Indexes(v), n \in Small :
          \/ \E src \in Sources(v) : Replace(v, i, n, src)
          \/ \E m \in Small : ReplaceFill(v, i, n, m, Ch)
     \/ \E what, with \in Texts : FindAndReplace(v, what, with)

Init ==
  /\ tag \in Tags
  /\ alive = {}
  /\ str = [v \in Strs |-> Buffered(0)]
  /\ heap = {}
  /\ mem = [p \in Places |-> Released(p)]
  /\ last = NoCall

Running == last.out \notin {"undefined", "no_memory", "terminated"}

\* The program has seen the outcome of its call and goes on.
Return ==
  /\ last # NoCall /\ Running
  /\ last' = NoCall
  /\ UNCHANGED <<tag, alive, str, heap, mem>>

Next ==
  \/ /\ last = NoCall
     /\ \/ \E v \in Strs : Create(v) \/ Destroy(v) \/ Self(v)
        \/ \E v, w \in Strs : v # w /\ Between(v, w)
        \/ \E v \in Editing : Edit(v)
  \/ Return

Spec == Init /\ [][Next]_vars

-------------------------------------------------------------------------------
Outcomes == {"ok", "length_error", "out_of_range", "undefined", "no_memory", "terminated"}

\* Every string has storage of its own with a place for the terminator behind its
\* characters, every allocated block belongs to one living string, and a static
\* string never allocates.
StorageOwned ==
  /\ last.out \in Outcomes /\ heap \subseteq Blocks
  /\ heap = UNION {Owned(v) : v \in alive}
  /\ \A v \in alive :
       /\ size(v) <= capacity(v)
       /\ IsDynamic(v) => supports_reallocation
  /\ \A v, w \in alive : v # w => Owned(v) \cap Owned(w) = {}

\* The strings implement sequences of characters with the meaning StringValue
\* gives to every call.
Value == INSTANCE StringValue WITH
           val <- [v \in Strs |-> IF v \in alive THEN view(v) ELSE <<>>]

RefinesString == Value!Spec

\* The length that a call needs room for, by the arithmetic of the integers; of
\* find_and_replace, the length it cannot exceed.
Length(src) == IF src.own THEN src.last - src.first ELSE Len(src.xs)
Wanted(op, v, args) ==
  CASE op \in {"construct_fill", "assign_fill", "resize", "reserve",
               "resize_and_overwrite"} -> args[1]
    [] op = "construct_range" -> Len(args[1])
    [] op \in {"construct_copy", "assign_copy"} -> size(args[1])
    [] op = "assign" -> Length(args[1])
    [] op = "append" -> size(v) + Length(args[1])
    [] op = "append_substr" ->
         LET rest == Len(args[1]) - args[2]
         IN  size(v) + (IF args[3] < rest THEN args[3] ELSE rest)
    [] op = "insert" -> size(v) + Length(args[2])
    [] op = "replace" -> size(v) - args[2] + Length(args[3])
    [] op = "find_and_replace" /\ Len(args[1]) \in 1 .. Len(args[2]) ->
         size(v) + (size(v) \div Len(args[1])) * (Len(args[2]) - Len(args[1]))
    [] op = "shrink_to_fit" -> size(v)
    [] OTHER -> 0

\* A length whose bytes, rounded up, size_type can count.
Countable(n) ==
  IF supports_reallocation THEN CharSize * (n + 1) + 8 <= MaxLength ELSE n < MaxLength

\* The characters of the string itself, assigned to it where its block is no
\* longer needed: they are read after the block has been released.
AssignsReleased(v, n) == IsDynamic(v) /\ 0 < n /\ RawSize(n) <= N

LeavesStorage(op, v, args) ==
  \/ op = "erase" /\ args[1] > size(v)
  \/ op = "replace" /\ args[1] + args[2] > size(v)
  \/ op = "assign" /\ args[1].own /\ AssignsReleased(v, Length(args[1]))
  \/ op = "assign_copy" /\ args[1] = v /\ AssignsReleased(v, size(v))
  \/ op = "assign_move" /\ args[1] = v /\ IsDynamic(v) /\ size(v) >= N
  \/ op = "resize_and_overwrite" /\ args[3] /\ args[1] < Cap(Slots(v))
  \/ ~Countable(Wanted(op, v, args))

\* A call leaves the storage of its string, or shows what nobody has written, only
\* where it is one of these: an erase behind the end, which std::string refuses; a
\* replace of more characters than there are, which std::string cuts; a string
\* assigned to itself, whole or in part, while it holds a block that the buffer
\* makes unnecessary; a string longer than the buffer moved to itself;
\* resize_and_overwrite with an operation that fills all the room it is told of;
\* and a length that size_type, or the size in bytes in it, cannot hold, which is
\* not refused.
UndefinedOnly ==
  last.out = "undefined" => LeavesStorage(last.op, last.v, last.args)

\* c_str() ends where the string ends.  The exceptions: a static string is not
\* terminated when it is default constructed or move constructed; a string that
\* has been moved from keeps its first character there; and shrink_to_fit to a
\* smaller block leaves the terminator behind.  Reserve and what does not change
\* the string keep the missing terminator missing, every other call puts it back.
TerminatorKept ==
  [][ \A v \in alive' :
        \/ NullTerminated(v)'
        \/ v \in alive /\ ~NullTerminated(v) /\ view(v)' = view(v)
             /\ (v # last'.v \/ last'.op \in {"none", "reserve", "shrink_to_fit", "substr",
                                              "find_and_replace"}
                             \/ last'.out # "ok")
        \/ last'.op \in {"construct", "construct_move"} /\ ~supports_reallocation
        \/ last'.op = "construct_move" /\ ~NullTerminated(last'.args[1])
        \/ last'.op \in {"construct_move", "assign_move"} /\ last'.args = <<v>>
        \/ last'.op = "shrink_to_fit" /\ last'.v = v /\ IsDynamic(v)' ]_vars

\* A string assigned, appended to, inserted into or replaced by characters of its
\* own gets the characters the caller saw, except where the string is edited in
\* place, its length changes, and the source reaches behind the edited position:
\* the tail has been moved before the source is read.
OwnCharacters ==
  [][ \A v \in alive :
        LET Spliced(pos, count, src) ==
              Value!Splice(view(v), pos, count, SubSeq(view(v), src.first + 1, src.last))
            Gets(pos, count, src) ==
              src.own /\ pos + count <= size(v) =>
                \/ view(v)' = Spliced(pos, count, src)
                \/ /\ data(v)' = data(v) /\ Length(src) # count /\ src.last > pos
                   /\ last'.op \in {"insert", "replace"}
        IN  last'.v = v /\ last'.out = "ok" =>
              /\ last'.op = "assign" => Gets(0, size(v), last'.args[1])
              /\ last'.op = "append" => Gets(size(v), 0, last'.args[1])
              /\ last'.op = "insert" => Gets(last'.args[1], 0, last'.args[2])
              /\ last'.op = "replace" => Gets(last'.args[1], last'.args[2], last'.args[3])
    ]_vars

-------------------------------------------------------------------------------
\* string_ut.cc, "basic_string_shrink_to_fit": a string that has been shrunk is
\* null terminated.  The test looks at a copy of the string, which is.
ShrinkTerminates ==
  [][ \A v \in alive : last'.op = "shrink_to_fit" /\ last'.v = v /\ NullTerminated(v) =>
                          NullTerminated(v)' ]_vars

===============================================================================
