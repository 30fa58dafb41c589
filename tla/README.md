# small_vectors: specifications and proofs

This directory models the parts of small_vectors that keep state: the vectors,
the strings and their storage, the interprocess primitives and the processes that
use them, `expected` and the inclass store; and the small functions that keep
none, against reference definitions. The modules are written from the headers
under `include/small_vectors/` (and, for the program of several processes, from
`unit_tests/shared_mem_util_ut.cc`); `PROJECT.json` names, for every definition,
the lines it stands for. A run and the proofs of a module are started with

    tlc -config <name>.cfg MC<module>.tla        # e.g. StackBuffer.cfg MCStackBuffer.tla
    tlapm <module>_proofs.tla

## 1. Inventory

| component | state | operations | interacts with |
|---|---|---|---|
| `small_vector<V,S,N>` (`small_vector.h`, `detail/vector_func.h`) | an N-element buffer in the object *or* a heap block, the size, the flag that says which | construct, copy, move, assign, swap, append, insert, erase, resize, reserve, shrink | the user's type (may throw), the allocator (may refuse) |
| its storage (`detail/vector_storage.h`) | the union of buffer and block context | construct/assign copy and move, swap, exchange, destroy; guards that free a block when a step throws | `uninitialized_*` of `detail/uninitialized_constexpr.h` |
| `small_vector<V,S,0>` | a block or nothing | the same, specialised | as above |
| size of the in-object buffer (`detail/vector_storage.h`) | none | `struct_min_byte_size`, `union_min_number_of_elements`, `at_least` | gives `small_vector` its `N` |
| `static_vector` | a buffer and a size | the same functions without a heap, `split_by_half` | as above |
| `basic_string` (`basic_string.h`, `detail/string_func.h`) | the storage of a small_vector or of a static_vector, holding characters and a terminator | construct, assign, move, swap, insert, append, erase, replace, resize, `resize_and_overwrite`, reserve, shrink, `find_and_replace` | the allocator (its null is not looked at) |
| `basic_fixed_string` | a constant array | views, size, equality, concatenation | |
| `atomic_mutex` | one atomic flag in shared memory | `lock`, `try_lock(delay, tries)`, `unlock` | forked processes, which can be killed |
| `stack_buffer` | a byte buffer and an atomic index in shared memory | `push`, `top`, `pop` | one writer process, one reader process |
| `fork`, `fork_child_t` | the pid of a child that has not been joined | `fork`, `joinable`, `join` | `fork(2)`, `waitpid(2)`, signals |
| `shared_mem_utils` | a segment; objects at offsets, each behind the one before | `shared_type_decl`, `construct_at`, `ref` | all processes that map the segment |
| `ring_queue` | a buffer, a read and a write index in shared memory | writes only: the class is unfinished | |
| `expected<T,E>`, `expected<void,E>` | a union and `has_value_` | construct, assign, emplace, swap, value, monadic functions | the user's types (may throw) |
| `inclass_storage` | bytes that hold one value | construct, assign, destroy, access | the value's type (may throw) |
| `meta_packed_struct`, `composed_pointer_with_data` | one word | pack/unpack; pointer and data, get and set | |
| `algo/bwt.h`, `algo/bound_leaning_lower_bound.h`, integer utilities | none | encode/decode; search; comparisons, bit counts, byte swap, unaligned loads and stores | |

What is hard here, and what makes each component correct:

* **Vectors**: an exception or a refused allocation between any two of an
  operation's steps; the switch between buffer and heap; arguments that are
  elements of the vector itself; 8-bit size types, whose limits are reached in
  practice. Correct means: exactly the slots below `size()` hold objects, every
  block has one owner, nothing is freed or destroyed twice or lost, a failed growth
  changes nothing, the value is that of a sequence.
* **Strings**: the same switches, lengths that are computed in `size_type` and may
  wrap, sources that are a part of the string being edited, and a terminator that
  every path has to write. Correct means: storage has one owner and holds what
  `size()` says, the value is that of `std::basic_string`, `c_str()` ends where the
  string ends.
* **`atomic_mutex`**: processes interleave at every atomic access and die between
  any two. Correct means mutual exclusion, no lost update, progress.
* **`stack_buffer`**: the index moves before the bytes it stands for are written.
  Correct means a pop confirms exactly the message that top showed.
* **Processes over a segment** (`fork`, `join`, `shared_mem_utils`): children that
  are killed, throw or cannot be forked, waits that are interrupted, several
  processes that take turns on one word. Correct means that `join` tells what the
  child's function returned, that a test's expectations hold when it looks, that
  the number of the shared counter belongs to whose turn it is, and that without
  faults everything ends and is joined.
* **`expected`**: what lives in the union and `has_value_` must agree after every
  exception, and the noexcept specifications must be true.
* **`inclass_storage`**: an assignment that destroys and then constructs may throw
  in between. Correct means a store holds an object as long as it lives.
* **Functions without state**: widths of integers, signs of characters, a bit count
  of the wrong width. Correct means equal to the reference definition.

The hazards, each at its line with the property that covers it, are listed in
`PROJECT.json`; two have no property, with the reason beside them.

## 2. Modules

    Growth            the arithmetic of growth(), with the width of both integer types
      SlotMemory      raw storage, slot by slot: the uninitialized_* functions and
                      where they stop when a constructor throws
        VectorStorage the storage union, blocks, guards, copy/move/assign/swap
          VectorFunc  the operations of vector_func.h
            SmallVector    programs over several small_vectors     (MCSmallVector)
              DynamicVector  N = 0, the specialised storage          (MCDynamicVector)
            StaticVector   Realloc = FALSE, split_by_half          (MCStaticVector)
    VectorValue       abstract: each vector is a sequence

    StringGrowth      lengths in size_type and the string's growth()
      StringStorage   the functions of string_func.h, on one string's storage
        BasicString   programs over several strings                (MCBasicString)
    StringValue       abstract: each string is a sequence of characters

    Mutex             abstract: an owner or nobody
      AtomicMutex     the flag, and processes that lock, count, unlock, die (MCAtomicMutex)
    Stack             abstract: a sequence of messages
      StackBuffer     one writer, one reader, atomic steps and copies       (MCStackBuffer)
    Fork              children, what waitpid tells of them, join
      Interprocess    the segment, and the processes of five tests that use
                      counters, mutex, semaphores and objects in it         (MCInterprocess)
    ExpectedValue     abstract: a value or an error
      Expected        the union, the flag, the operations                   (MCExpected)

    Bwt, PackedStruct, Words, Sought, FixedString, BufferLayout, InclassStore
      Utilities       a program that calls them                             (MCUtilities)

    SmallVector_proofs (which StaticVector_proofs and DynamicVector_proofs extend),
    BasicString_proofs, AtomicMutex_proofs, StackBuffer_proofs, Interprocess_proofs,
    Expected_proofs
                      the theorems

### How state and actions correspond to the code

* `SlotMemory`/`VectorStorage`: `mem` is memory, per vector buffer and per heap
  block, a function from slot to an object's value, `Moved` (a moved-from object),
  `Raw` (no object) or `Bad` (an object that was written over a living one or read
  where none was). `vec[v]` is the record `small_vector_storage`: `active_`, `size_`
  and the context of the block. `heap` is the set of allocated blocks. `leaked`
  is a history variable: the operations that abandoned storage with live objects.
  `ty` is the value type as four noexcept facts and its trivial relocation; it is
  chosen in `Init`, so one run covers all the `if constexpr` paths of the types
  listed in the MC module.
* A call is one action of the model, since a vector is not shared between threads;
  what a call *can* stop at is not one outcome but a set: the `...Fate` operators
  of `SlotMemory` enumerate the places where a constructor throws, or where the
  exception meets a `noexcept` and becomes `std::terminate`. `last` records the
  call with its arguments and its outcome (`ok`, `out_of_storage`, `threw`, ...).
  `Return` forgets it, which keeps the state space small.
* `AtomicMutex`: one action for each compare-exchange, load or store; `pc` is the
  place of a process. `unlock` is called by the holder only (`std::unique_lock`).
  `Die` can happen between any two steps of a process in `Mortal`.
* `StackBuffer`: `PushCall`, `PushExchange`, `PushCopy`, `PushFooter`, `PushStore`
  are lines 134-166 of `stack_buffer.h`; `TopLoad`, `TopFooter`, `CopyRange`,
  `PopFooter`, `PopExchange` are lines 172-222 with the client's copy in between,
  as `unit_tests/stack_buffer_ut.cc` uses it. Bytes are `<<"byte", m, k>>`, so a
  message that was put together from two others is visible. The two processes move
  in any order. Three variables are history: `entries`, the blocks in the buffer and
  where they begin; `early`, what the reader has taken (the range, the size) from
  a block that a push was still writing; `spoilt`, what of that its pops have
  confirmed. `Kept` says that no pop has moved the index by a size read too early,
  nor under a push.
* `Expected`: `slot[o]["value"]`, `slot[o]["error"]` are the two members of the
  union (`lost` records the operations that constructed over a living object),
  `has` is `has_value_`. `how` says whether the argument is copied or moved.
  A throwing assignment may have lost the old value (`Moved`), a throwing move may
  have moved from its source. The class is used where the standard library has no
  `std::expected`; otherwise the header is an alias and there is nothing to model.
* `StringStorage`/`BasicString`: characters are trivial, so a call neither
  constructs, destroys nor throws in the middle, and an operator of
  `StringStorage` is what a function of `string_func.h` makes of one string's
  storage: whether it ends in a new block, the size, and every character of the
  block or buffer. `Junk` is a character nobody has written, `Lost` is storage
  after an access outside it, through null or after its release; a call that
  reaches it has the outcome `undefined` and ends the program. `Apply` gives the
  result to the string (`Takes` allocates and frees) and is where an allocation
  returns null, which the code does not look at (`no_memory`). Lengths are
  truncated by `ToLength` at every place where the code truncates. The tags
  `buffered` and `static` are chosen in `Init`.
* `Fork`/`Interprocess`: `mem` is the segment, a word per offset, and stays as it
  is from one test to the next; `proc`, `status` are the operating system's view
  of a child, `pid`, `joined` the parent's, and `returned` is history: what the child's
  function has returned. Every load, store and exchange of a
  word is an action; of a vector, a string or a structure in the segment only the
  number of the last change made to it is kept. Faults (a killed child, a function that
  throws, a refused fork, an interrupted wait) are at most `MaxFaults`;
  `faulted` and `failed` record in which test there was one and which expectation failed.
  `Changes` lists, for the child that fills the vector and string and the one that
  changes the three objects, what it expects to find and what it writes, in the
  order of its function (`finds`, `sets`); an expectation of a child that fails is
  recorded (`ChildExpects`) and the child goes on, as in the test. A child that is never joined can run on into the next test.
* `Utilities`: either a program of calls, where `call` holds the arguments and the
  results of the last one, or a program over inclass stores, whose `holds`
  says whether a store contains an object, a copy of an
  object's bytes, or none.

## 3. Runs

Passing runs:

| run | what it asks | bounds |
|---|---|---|
| `SmallVectorEdit` | one vector, every editing operation, exceptions and refusals everywhere, arguments that are its own elements, ranges longer than `size_type` counts: exact lifetimes, the value of a sequence, strong guarantee | `N = 1`, `max_size() = 5`, sources up to 2 elements and of 6 and 8, two values |
| `SmallVectorAssign` | two vectors, one of them edited: lifetimes, block ownership and values across copy, move, assignment and swap of all pairs of storages; when `std::terminate` is reached | `N = 1`, `max_size() = 3`, three blocks |
| `DynamicVector` | two vectors with `N = 0`: which calls leave one unsound, one way to lose a block, values | `max_size() = 2`, arguments that are own elements, ranges longer than `size_type` counts, four blocks, at most one orphaned block |
| `StaticVector` | two static vectors, `split_by_half`: lifetimes, no allocation, no element lost by a split | `N = 2`, `size_type` up to 3, arguments and ranges as above |
| `BasicString` | two strings, of both storage kinds, one of them edited: ownership, the value of a sequence of characters, the terminator, sources that are a part of the string, and which calls leave the storage | `N = 4` with the terminator, characters of 4 bytes, `size_type` up to 63, strings up to 6 characters, texts of 63 and 65, counts of 13, 62 and 63, three blocks |
| `AtomicMutex` | three processes, two of them may be killed: safety, refinement of `Mutex`, and the progress of `lock` | up to 2 tries, counter up to 3 |
| `StackBuffer` | one writer and one reader in any interleaving: tiling, pops, refinement of `Stack` and delivery, each up to the first pop that confirms what it read of a block under a push | messages of 0, 1, 3, 6 and 7 bytes in 6 units; no behaviour is followed beyond the pop that ends `Kept` |
| `Interprocess` | what join tells, which expectations of the parent and of the children hold, that only faults leave children behind, whose turn it is, and that everything ends and is joined | five tests, six children, counts up to 4, one fault |
| `Expected` | two objects, value and error types of every interesting kind: the flag, failures, what is lost or ended by an exception, values | two data values |
| `Utilities` | every input of small domains to the functions without state; every program over two inclass stores | bytes of one bit, characters of 2 bits in texts up to 4, packs of 4 bits, ranges up to 20, integers of 2 and 3 bits, arrays up to 4, elements up to 40 bytes |

Runs that TLC ends with a counterexample, each a place where the code does not do
what a comment or a test says (the quotations are in `PROJECT.json`):

| run | what happens |
|---|---|
| `StackPopConfirms` | a reader between the exchange and the copy of a push pops bytes that are not the message |
| `ShrinkTerminates` | `shrink_to_fit` to a smaller block does not write the terminator; the unit test looks at a copy, which has one |

Other departures have no run of their own. They are exceptions that a passing
property names, so that the property is exact and fails if there is another:

* `LifetimesExact`: a copy or move assignment that fails half way keeps the pointer
  to the freed block, or the size of the destroyed elements; `emplace_back(v[i])`
  reads the element where it no longer is, if a growth relocates first; `insert` of
  more elements than `size_type` counts is made in part and reports success;
* `StaticLifetimes`: `split_by_half` of an odd number of elements writes one slot behind a
  full buffer; a throwing move assignment and an insert that counts too few, as above;
* `AlwaysSound`: `emplace_back` of an own element and an insert that counts too few, as
  above; without a buffer no assignment is left half made;
* `BlocksOwnedOnce`: the swap of a buffered and a heap vector abandons objects;
* `TerminatesOnlyOnCopies`: an exception of a copy constructor in a growth ends in
  `std::terminate`, since `uninitialized_copy_n` takes its `noexcept` from the default
  constructor (`small_vector.h:267` promises the strong guarantee);
* `OrphansOnlyFromMoves`: with `N = 0`, move assignment to an empty vector that has
  a block loses the block (`vector_storage.h:936`);
* `Refines` of the vectors: `v = v` empties a vector (`size_` is set to zero before the
  size of the source is read);
* `ThrowsCostOnly`: with a throwing move the third branch of `reinit_expected`
  constructs over the old object without destroying it; `expected(in_place, x)` and
  `expected(unexpect, x)` are `noexcept` for every single argument, and the other
  operations it names end the program likewise;
* `UndefinedOnly`: an erase behind the end and a replace of more characters than there
  are; a string assigned to itself, whole or in part, when that releases its block; a long string
  moved to itself; `resize_and_overwrite`, when the operation fills what it is told
  is the capacity; and lengths whose bytes do not fit in `size_type`;
* `TerminatorKept`: besides `shrink_to_fit`, a static string that is default or move
  constructed has no terminator, and a string that was moved from keeps its first
  character;
* `OwnCharacters`: `insert` and `replace` in place move the tail before they read a
  source that may lie in it;
* `Tiled`, `PopReturnsTop`, `ImplementsStack`, `Delivered`: the promises of `stack_buffer`
  end with a pop that has read its size from a block under a push, or moves the index
  under one (the push's last store then undoes the pop, `stack_buffer.h:166`). If only the range
  was copied too early, the stack stays in order but that pop may take a message away that
  the reader has not got;
* `JoinTells`: join answers what the child's function returned, but a child that a
  signal ended counts as a success (`WEXITSTATUS` without `WIFEXITED`), and a
  `waitpid` that is interrupted is answered "failed", with the pid given up;
* `StraysFromFaults`: after that interrupted wait nothing can join the child any more;
* `ExpectationsHold`: the expectations `child_counter >= number_of_counts` and
  its counterpart for the parent can fail without any fault, since a process may find its turn
  come again every time it looks; the child's function then returns false, and
  the parent's expectation of `join` fails with it; a child left behind by one test runs on in the
  memory of the next;
* `BwtRoundTrip`: `encode` sorts by unsigned characters, `decode` by those of the type,
  and a text may not hold the end marker;
* `PackRoundTrip`: a signed member wider than `int` may lose its sign (a shift of `1u`
  past its width);
* `MatchesReference`: the fallback of `countr_zero` counts in an `unsigned` whatever the
  width; the constructor of a composed pointer does not validate its data;
* `StoreLifetimes`: a move assignment of `inclass_store_t` that throws, or that copies the bytes
  of a type with a destructor, leaves a store without an object.

Two more were met while modelling: `reserve(max_size())` of a vector that has that
capacity is refused (`vector_func.h:929`); and a message that fits `stack_buffer` only
without its footer is refused as "temporary" for ever (`stack_buffer.h:148`).

### Why the bounds are enough

A vector passes every threshold of its code within five elements: empty, within
the buffer, growth to the heap, growth between blocks, saturation at `max_size()`
(`MaxCalc` is the largest value of the wider type the growth is computed in: like
8 in 16 bits, it is more than three times `MaxSize`), refusal at `max_size()`. An
insertion has elements in front of it, elements that move to fresh slots and
elements that are assigned to, all at once, with two elements on two. A vector
interacts with one other vector at a time, so two of them meet in every
combination of storages. With two values an exchange of elements is visible.
Two processes race for an exchange, the third loses it; two tries are a failure
and another attempt. Messages of 0, 1 and 3 bytes take 1, 2 and
4 of the 6 units with their footers: the last two fill the buffer exactly, all three do
not fit, one of 6 bytes never does for its footer, and one of 7 is too long. Pushed in every
order, each that fits finds the buffer empty and in part filled, and a pop has blocks
of other sizes below its own. `IndexMod` leaves the index arithmetic of
`std::size_t` its wrap-around while no sum of the model reaches it by itself.
In `Expected` the operations touch at most two objects.

A string of six characters has passed from its buffer of four (three and the
terminator) to a block of six and on to a block of eight, and comes back by
assignment or `shrink_to_fit`; a text of two characters on an edit in the middle has
something in front and behind. A string is edited while it is the only one, since an
edit touches no other, and meets the second string in construction, assignment and
swap with the values of `Shared`.
Characters are `x` and the terminator itself, so a string with an embedded null
differs from a short one. `MaxLength = 63` with characters of 4 bytes is a
scale at which a length fits `size_type`, its bytes do not, and a rounded
size wraps to less than the buffer; the huge counts and texts are those at the
limits. What differs at other scales is the arithmetic alone, which the theorems
on `growth()` cover.

In `Interprocess` four counts give each process two turns, so each sees the other's
change twice. One fault is enough to reach every error path of the parent, and the
stray child that a fault leaves behind meets the next test. The tests follow one
another in `main`'s order in one segment.

In `Utilities` a byte of one bit makes words of 2, 4 and 8 bytes enumerable; the
texts contain every order of equal and different characters; ranges up to 20
take the leaning search through each of its probes and its binary tail.

### Fairness

`AtomicMutex` assumes that the operating system schedules every process that is
alive (weak fairness of the steps inside `lock`, of those inside `try_lock` and of
those of the critical section); nothing makes a process call `lock` again, and no
process is promised to win an exchange, which is why `LockProgress` says only that
*some* process gets in. `StackBuffer` assumes that both processes run and that the
clients repeat a failed push or pop, as the unit test's do. `Interprocess` assumes
that the parent and every running child are scheduled (weak fairness of the steps of
each); faults are not fair, so they need not happen, and `EndsJoined` promises an end
only without them: a holder that is killed leaves the parent at the mutex for
ever. The vectors, the strings, `Expected` and the utilities have safety properties
only: their calls end.

`CHECK_DEADLOCK FALSE` stands where a program may stop: at `std::terminate`, after
the bounded number of increments or when all processes are dead, when all
messages were sent and received, at an undefined call or a null block of a string,
and at the end of the parent's tests.

### Environment

The models are of the `NDEBUG` build (an assertion is no guard). `StackBuffer`
is sequentially consistent: the exchanges of the code have release order and the
loads acquire order, so reordering would only add to the faults found. Allocation
may always fail. Since C++ gives no meaning to an unsound vector, a program of
`SmallVector` does not go on after std::terminate, and its invariants name the
calls that can leave a vector unsound. Self-move of a vector and unlocking a mutex
one does not hold are misuses the models leave out. The calls on strings have
arguments to which `std::basic_string` gives a meaning, which is how the erase behind
the end comes in: there it is refused. `Interprocess` is sequentially consistent, too; its
semaphores and its mutex are modelled by what Boost's `interprocess_semaphore` and
`AtomicMutex` promise.

In `StackBuffer` nothing keeps the reader away from a push: between its exchange and its
last store it may call `top`, copy and `pop`, and what it finds is whatever the bytes say. Once a pop
has confirmed such a size the index may be anywhere and the buffer fails its
purpose, which is the run `StackPopConfirms`; the properties of the passing run promise
nothing from there on, and `CONSTRAINT Kept` spares TLC the states in which they are
true of anything. Up to that pop they are checked, and proved, for every interleaving,
those in which the reader looks at an unfinished block and its pop then fails or reads
the size anew among them. A writer that is killed takes no further step, which `Spec`
allows at any time.

## 4. Proofs

* **`AtomicMutex_proofs`**: type correctness, `MutualExclusion`, `NoLostUpdates`
  and the refinement of `Mutex`, for every set of processes and all bounds. The
  inductive invariant adds to mutual exclusion that the process about to write has
  read the current counter; without it the write could not be shown to add one.
* **`StackBuffer_proofs`**: `TypeOK`, `Tiled`, `PopReturnsTop` and the refinement of
  `Stack`, for every capacity, set of messages and sizes and every interleaving. What is
  inductive is `Kept => Inv`: a step out of `Kept` is a pop which confirms a size read too
  early (`KeptBefore`: there is no way back), and every other step keeps `Inv`. It adds
  what the writer has already written of its block, and what the reader looks
  at: either the block under the push, and then `early` says so of all it has
  taken there, or an entry, which stays one until the reader pops it. A push that
  ends while the reader is between the two turns the first into the second
  (`ReaderStays`). This is the argument why a compare-exchange on the index suffices (no ABA, since the only process that
  removes blocks is the reader itself). The refinement reads the abstract stack back
  from the bytes: `Below[i]` follows the footers downwards from `i`. That this
  recursion ends for every content of the memory (`BelowExists`), that it sees nothing
  above `i` (`BelowKept`) and that a block with its footer adds its message
  (`BelowBlock`) are inductions over the index; then `PushStore` is `Push`, a
  `PopExchange` that succeeds is `Pop`, or takes away a message that the reader copied
  too early (`TakenUnread`), and every other step leaves the stack alone.
* **`SmallVector_proofs`**: `LifetimesExact`, `BlocksOwnedOnce`, `TerminatesOnlyOnCopies`,
  `StrongGuarantee`, `StaysInPlace`, `AliasedAppend` and the refinement of `VectorValue`
  (`Refines`), for every number of vectors and blocks, capacity
  of the buffer, set of values and value type. The argument has four layers.
  *Memory*: `Occupied(s, c, L)` says that a block of capacity `c` holds objects in
  exactly the slots `L`; a lemma for each `uninitialized_*` operator tells which
  slots are occupied after it, wherever a constructor throws.
  *Storage*: `Touches(V, Old, New)` says that a call changes the vectors `V` only, which
  give up the blocks `Old` and get the blocks `New`, and `SomeVectors` concludes that nobody
  else's block or object is affected: the frame lemma which every call uses.
  *Calls*: each is shown to be `Proper`, which means that it ends in order (`Orderly`: what
  it was called on is sound, unless it is one of the `Slips` the property names), terminates
  only where `TerminatesOnlyOnCopies` says, and satisfies both action properties.
  The inductive invariant `Inv` is the conjunction of the three invariants and of `Typed`,
  which holds while the program runs: the representation of the records and the
  capacities of the blocks. The invariants do not carry themselves, since whether a block
  is large enough for `size()` is a fact of `Typed`, and whether the block that is freed is
  not the other vector's one of `Owning`. A program does not go on with an unsound vector, so
  after a slip only `Return` is missing from the proof's cases, not a call.
  *Values*: `View` is the sequence a caller sees in each vector, and `Alters(V)` says that a
  call leaves the records and the slots of the vectors outside `V` alone, hence what
  is seen in them (`OthersKeep`). What is seen in the others follows from their slots:
  `Holds(t, r)` says that the slots `t` hold the sequence `r`, and a lemma for each operator
  of `SlotMemory` says what each slot is afterwards (`Built`, `Assigned`, `MovedIn`,
  `MovedOut`, `Destroyed`), from which the two shifts of `insert`, the gap `emplace` opens and
  the closing of `erase` are put together (`OverEndSpliced`, `InsideSpliced`, `MovedUp`,
  `HoldsCut`). Each call then is the step of `VectorValue` its name says
  (`ValueEdits`, `ValueMoves`, `ValueSwaps`...) or one of its failures. The invariant
  is needed once more here: only a sound vector has objects in the slots that are read.
  `AliasedAppend` comes out of the same case split for `emplace_back`, where the value that
  arrives is the one given unless the growth has moved it away first.
  The theorems have one premise, `WideGrowth`: `MaxCalc >= 3 * MaxSize + 1`, which
  says that `growth()` computes in a type that is wide enough. It holds for `size_type`s
  of 8, 16 and 32 bits (`GrowthWide`); for 64 bits the calculation has no wider
  type, and a vector of more than two thirds of 2^64 elements would be needed to tell.
  The module also has `growth()` itself (`GrowthHoldsAll`: it refuses exactly when
  the elements cannot be counted, and otherwise returns a capacity that holds them) and
  `BufferFills`, for every element size and the four size types: the number of
  elements in the buffer is the largest that costs no memory.
* **`StaticVector_proofs`**: `NeverAllocates`, `StaticLifetimes` and `SplitKeepsElements`,
  for every capacity, type and program. `Fixed` says that every record is buffered
  and, between calls, that no size exceeds `N`: copying a larger vector would take the
  heap path of `assign_copy`, and `split_by_half` can make one, so the proof needs
  that a program does not go on with such a vector. The calls that a static_vector shares
  with small_vector are `Proper` by the lemmas above, without the premise, since a
  static_vector never grows; `split_by_half` and the bitwise copies are treated here.
  `SplitKeepsElements` follows the elements from slot to slot (`SplitSlots`) and reads them
  back (`ReadValues`).
* **`DynamicVector_proofs`**: `AlwaysSound`, `OrphansOnlyFromMoves` and the refinement of
  `VectorValue`, under `WideGrowth`.
  A call is `Neat` if it leaves vectors sound and blocks owned by one vector at most; it
  `Conserves` if no allocated block loses its owner, and the only one which does not is
  the move assignment that `Drops` the target's block. That every allocated block
  has an owner is therefore no invariant here, and the proof does without it. For the
  refinement the calls on one vector are those of `SmallVector_proofs`; the members on
  two vectors either pass a record on, and with it what is seen (`GivenSeen`), or
  copy into a block the others do not own.
* **`BasicString_proofs`**: `StorageOwned`, `UndefinedOnly` and `TerminatorKept`, for every
  number of strings and blocks, size of the buffer and of characters, `size_type` and set of
  texts. There are five layers.
  *Storage*: `Made(realloc, pinned, st)` says that what a function of `StringStorage` returns
  is either `Lost` or a block or buffer with a place behind `st.size` characters, in a
  block only where one is allowed, and in the buffer with just `N` places; there is a
  lemma for each function (`...Made`). The reason is that each of them writes a
  terminator at the size it returns, and a write outside is `Lost`. The one which does not,
  `shrink_to_fit` to a block, is safe since `growth()` is never one short
  (`GrowthNotOneShort`, even where it wraps). No premise on lengths is needed: where a size
  wraps, the access outside the block ends the run.
  *Meaning*: `Sound(st)` adds that nothing was lost and that the characters have been
  written (`Shown`). Each function has a second lemma (`...Sound`) with the premises under
  which it keeps that: that there is `Room` for the length, by the arithmetic of the
  integers; that what it is given to read is there (`Reads`, `Supplies`: a range of the string
  itself counts only as long as its block has not been released); that a range to
  replace lies in the string. `GrowthHoldsMore` turns `Room` into a block that holds it.
  *Calls*: `Good` says of a call that it makes storage again, and sound storage unless
  it is one of those that `LeavesStorage` lists; the lemmas `...Good` derive the premises from
  the list, and each exception on it is used by one of them.
  *Ownership*: the invariant `Owns` takes `StorageOwned` apart block by block and adds what
  storage holds and shows, and that a dead string has no block. `TakesOwns` covers all calls
  on one string; moves, swap and destruction have a lemma each. `UndefinedOnly` is about
  the call that has just ended, so it rests on `Owns` in the state before it.
  *The terminator*: `Closes(st, r)` says of a function that it has terminated the storage it
  returns, or thrown and left it alone. Most functions do (`...Closes`); that they terminate
  it at the size they return, and not at a size that has wrapped, follows from the
  storage not being lost (`HoldCloses`). `Ending` adds the three calls that carry along what
  was there, a buffer that was never terminated and the smaller block of
  `shrink_to_fit`; moves and `swap` say what they put behind the characters in their
  own lemmas. `EndKept(v)` is the property for one string, and `Proper` what every call is
  shown to keep.
  The turns of `find_and_replace` are an induction over data, which is possible in the
  form of sets: `SetInduction` follows from the well-foundedness of `<`, and `Repeated`
  builds the function of the turns from finite ones. Their invariant is `Replaced`: after
  `j` turns the size is the old one with `j` texts put in place of `j` others, and the search
  is behind the texts put in. Hence `j` is at most the old size divided by the length of
  what is looked for, which bounds the length the call needs.
  The module also has `growth()` itself: it returns more than it is given as long
  as the bytes and eight more can be counted (`GrowthHoldsMore`), which is the premise
  `Countable` of `UndefinedOnly`; and for characters of one byte it returns less
  when they cannot (`GrowthWraps`): the premise cannot be dropped.
* **`Interprocess_proofs`**: `JoinTells`, `TakesTurns`, `ExpectationsHold` and
  `StraysFromFaults`, for every number of counts and faults and
  whichever functions are noexcept. The invariant says, of each child, that its status
  is the one its function's result, its exception or a signal left (`Ended`), and that a
  pid which is kept has not been waited for (`Told`): without the latter a second answer
  could contradict the first. `ChildStep` reduces every action to the one
  child it is about. `TakesTurns` needs more than itself, too: `TInv` adds that in the
  first test no child but the counting one runs, and that the parent is in that test's
  body, so nobody else writes to the word. Between load and exchange the number can
  change only by the exchange of the other process, and that succeeds only from a
  number of the other parity; so a process that is about to move the number in its own turn
  still sees the number it has read.
  `ExpectationsHold` is proved test by test. A test is `Calm` while it has had no fault and no
  child of an earlier one is about; only then do the words say what has been done, because only
  its own children write to them (`OwnChildren`). `Counting`, `Filling`, `Holding`,
  `Changing` and `Posting` say it of the five tests: the number stays within its bounds, and a
  parent that has left its loop has seen the last one; the parent can have the mutex
  only when its holder has given it up, since it is told only after the holder has taken
  it; a semaphore is above zero only when what it announces is there. What the children
  expect to find is what the parent has constructed before it forked them, and what they
  have not written since (`FoundExpected`, from `ConstructWords` and the offsets of the
  declarations). `Lives` keeps the
  children in their tests, and whatever a test that is not calm finds wrong is excused and
  stays so (`Uncalm`, `ExcuseStays`). `StraysFromFaults` rests on `Settled`: whichever way a
  parent takes to the end of a test, also the one a fatal expectation cuts short, it
  has joined the test's children there, or there was a fault in the test.
* **`Expected_proofs`**: `TypeOK` and `FlagTellsWhatLives`, for every set of objects,
  every value and error type and every program. The two together are inductive:
  that each operation leaves one living object needs to know that what it moves,
  assigns or puts back was alive. One lemma (`InvSlots`) states the invariant slot
  by slot; `WriteStep` (objects replaced by objects of the same kind),
  `OnlySlotsStep` (a new content while sources are read) and `ExchangeStep`
  (`swap` of a value and an error) reduce each action to it.
  `ThrowsCostOnly` follows from what each action destroys without destroying it in the
  program's sense: only a reinitialisation whose construction may throw, and only
  with a throwing move. `FailureKeepsKinds` and `Refines` are properties of steps. For the
  refinement `Seen(o)` is what the abstract object holds; a successful call is a step
  of `ExpectedValue` (`Becomes` for the object, `ReadKept` for what it was moved from),
  and a failed one is `Fail`, because of `FailureKeepsKinds`.

The assumptions are the named `ASSUME`s of the modules, all of them evaluated by
the runs.

Only proved: `StaysInPlace`, that a vector which fits its capacity is not moved to other
storage. One comparison in each operation decides it, so no run spends time on it.

Only model-checked:

* `LockProgress`, `Delivered` and `EndsJoined`: liveness under fairness;
* `RefinesString` and `OwnCharacters` of the strings: the mapping reads the characters back
  one by one through `replace`, `insert` and the turns of `find_and_replace`, which
  would take a lemma on what each of some thirty functions leaves in every place;
* `BwtRoundTrip`, `PackRoundTrip` and `MatchesReference` of `Utilities`: what recursive
  definitions compute for every input is induction over data; and `StoreLifetimes`, since
  `Utilities` reaches the bitwise operators (through `PackedStruct`), and with these the prover
  has no SMT backend.

## 5. Not modelled, and plan

Not modelled (`PROJECT.json` has the reasons under `components`):

* `ring_queue`: it can write entries and move the write index, and has no read
  operation. Nothing ever stores the read index, so the branches for a wrapped queue
  cannot be reached and there is no round trip to state;
* the concepts, adapters, relocation traits, formatting and streams: compile-time
  predicates and output without state;
* the hooks for a hardened standard library, version and build.

Left out of parts that are modelled: comparisons, hashes and iterators; the searches of
the strings other than `find`, which pass a view to the standard library; the
converting constructors of `expected` from another `expected`, which take the
modelled paths; `accumulate`; opening and mapping the segment. `StorageSize` of the inclass store
is for elements that need no more alignment than the storage has; its free
construct functions return a store by value, and the copy is taken to be elided.

What could follow, in this order:

1. the refinement of sequences of the strings, proved;
2. `StackBuffer` with a second reader, which the header does not promise to support:
   which weaker guarantees still hold;
3. `ring_queue`, when it has a reader.
