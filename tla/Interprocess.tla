------------------------------ MODULE Interprocess ------------------------------
(***************************************************************************)
(* A program of several processes over one shared memory segment: the      *)
(* tests of unit_tests/shared_mem_util_ut.cc, which main runs one after    *)
(* the other in the same segment.  Each test constructs its objects there, *)
(* forks children that refer to the same offsets, joins them and looks at  *)
(* what they have done.  Children can be killed or throw, fork can be      *)
(* refused, and a signal can interrupt a join.                             *)
(***************************************************************************)
EXTENDS Fork, Sequences

CONSTANTS
  Parent,
  N        \* number_of_counts; spin counters stop at N, too

ASSUME CountsAssumption ==
  /\ N \in Nat /\ N % 2 = 0 /\ Parent \notin Kids
  /\ {"counter", "filler", "holder", "changer", "waiter", "poster"} \subseteq Kids

VARIABLES
  mem,     \* the words of the segment, by offset
  test,    \* the number of the parent's test
  pc,      \* where each process is
  curr,    \* its local value
  spins,   \* parent_counter_obj
  failed,  \* the expectations that have failed, with their tests
  faulted  \* the tests during which there was a fault

vars == <<forkVars, mem, test, pc, curr, spins, failed, faulted>>

Tests == <<"basic_shared_mem", "complex_objects", "atomic_mutex", "multiple_data",
           "semaphore">>

\* shared_type_decl: each object lies behind the one it is declared after.
decls == [basic_shared_mem |-> <<"sync_counter", "child_counter">>,
          complex_objects  |-> <<"vector">>,
          atomic_mutex     |-> <<"semaphore", "mutex">>,
          multiple_data    |-> <<"foo", "vector", "ref", "message">>,
          semaphore        |-> <<"semaphore", "semaphore2", "integer">>]

end_offset_of(prev) == prev + 1
offset(t, decl) ==
  LET end[i \in 0 .. Len(decls[t])] == IF i = 0 THEN 0 ELSE end_offset_of(end[i - 1])
      place == CHOOSE i \in DOMAIN decls[t] : decls[t][i] = decl
  IN  end[place - 1]
Words == 0 .. 3

\* ref<decl>(region), and a store to it.
ref(t, decl) == mem[offset(t, decl)]
Store(t, decl, x) == mem' = [mem EXCEPT ![offset(t, decl)] = x]

Children == [basic_shared_mem |-> <<"counter">>, complex_objects |-> <<"filler">>,
             atomic_mutex |-> <<"holder">>, multiple_data |-> <<"changer">>,
             semaphore |-> <<"waiter", "poster">>]
TestOf(c) == CHOOSE n \in DOMAIN Tests : \E i \in DOMAIN Children[Tests[n]] :
                                           Children[Tests[n]][i] = c
Current == Tests[test]

\* What construct_at puts into the segment: of a vector, a message or a structure
\* the number of the change that was made to it last.
Objects == [basic_shared_mem |-> [sync_counter |-> 0],
            complex_objects  |-> [vector |-> 1],
            atomic_mutex     |-> [mutex |-> 0, semaphore |-> 0],
            multiple_data    |-> [foo |-> 1, vector |-> 1, ref |-> 1, message |-> 1],
            semaphore        |-> [semaphore |-> 0, semaphore2 |-> 0, integer |-> 9]]

\* What the children of two tests expect to find and what they change, in their order:
\* a vector is looked at, resized, loses its last element and is filled.
finds(d, x) == [does |-> "finds", decl |-> d, number |-> x]
sets(d, x) == [does |-> "sets", decl |-> d, number |-> x]
vector_steps == <<finds("vector", 1), sets("vector", 2), sets("vector", 3), sets("vector", 4)>>
Changes == [filler  |-> vector_steps,
            changer |-> <<finds("foo", 1), sets("foo", 2)>> \o vector_steps \o
                        <<finds("message", 1), sets("message", 2), sets("ref", 2)>>]

AtMostN(n) == IF n < N THEN n ELSE N
To(p, label) == pc' = [pc EXCEPT ![p] = label]
Local(p, x) == curr' = [curr EXCEPT ![p] = x]
Expect(name, holds) ==
  failed' = IF holds THEN failed ELSE failed \cup {<<test, name>>}

-------------------------------------------------------------------------------
\* The loop of the counting test: child and parent move the counter in turn, the
\* child from even numbers, the parent from odd ones.

Turn(p) == IF p = Parent THEN 1 ELSE 0

Load(p, after) ==
  /\ pc[p] = "load"
  /\ Local(p, ref("basic_shared_mem", "sync_counter"))
  /\ To(p, IF curr'[p] < N THEN "act" ELSE after)
  /\ UNCHANGED <<forkVars, mem, test, spins, failed, faulted>>

\* A faulty turn, which the child takes whatever the number is.
ExchangeAnyTurn(p) ==
  IF ref("basic_shared_mem", "sync_counter") = curr[p] /\ Turn(p) \in {0, curr[p] % 2}
    THEN [mem EXCEPT ![offset("basic_shared_mem", "sync_counter")] = curr[p] + 1]
    ELSE mem

\* compare_exchange_strong, or yield when it is the other's turn.
Exchange(p) ==
  IF ref("basic_shared_mem", "sync_counter") = curr[p] /\ curr[p] % 2 = Turn(p)
    THEN [mem EXCEPT ![offset("basic_shared_mem", "sync_counter")] = curr[p] + 1]
    ELSE mem

CounterActs(c) ==
  /\ pc[c] = "act" /\ To(c, "load")
  /\ LET o == offset("basic_shared_mem", "child_counter")
     IN  mem' = [Exchange(c) EXCEPT ![o] = AtMostN(@ + 1)]
  /\ UNCHANGED <<forkVars, test, curr, spins, failed, faulted>>

ParentActs ==
  /\ pc[Parent] = "act" /\ To(Parent, "load")
  /\ mem' = Exchange(Parent)
  /\ spins' = AtMostN(spins + 1)
  /\ UNCHANGED <<forkVars, test, curr, failed, faulted>>

-------------------------------------------------------------------------------
\* The children.

Begin == [counter |-> "construct", filler |-> "change", holder |-> "lock",
          changer |-> "change", waiter |-> "post", poster |-> "wait"]

\* Opening the segment may throw.
Open(c) ==
  /\ pc[c] = "open" /\ To(c, Begin[c])
  /\ UNCHANGED <<forkVars, mem, test, curr, spins, failed, faulted>>

Return(c, result) ==
  /\ pc[c] = "return" /\ To(c, "returned") /\ Exit(c, result)
  /\ UNCHANGED <<mem, test, curr, spins, failed, faulted>>

Goes(c, from, to) ==
  /\ pc[c] = from /\ To(c, to)
  /\ UNCHANGED <<forkVars, test, spins, failed, faulted>>

\* The expectation of a child, in its own process.
ChildExpects(c, name, holds) ==
  failed' = failed \cup (IF holds THEN {} ELSE {<<TestOf(c), name>>})

Looks(c, name, holds) ==
  /\ pc[c] = "expect" /\ To(c, "return") /\ ChildExpects(c, name, holds)
  /\ UNCHANGED <<forkVars, mem, test, curr, spins, faulted>>

Counter(c) ==
  \/ Goes(c, "construct", "load") /\ Store("basic_shared_mem", "child_counter", 0)
       /\ UNCHANGED curr
  \/ Load(c, "expect")
  \/ CounterActs(c)
  \/ Looks(c, "child_spins", ref("basic_shared_mem", "child_counter") >= N)
  \/ Return(c, ref("basic_shared_mem", "child_counter") >= N)

Changer(c) ==
  LET todo == Changes[c]
      n    == curr[c] + 1
      t    == Tests[TestOf(c)]
      step == todo[n]
  IN  \/ /\ pc[c] = "change" /\ To(c, IF n = Len(todo) THEN "return" ELSE "change")
         /\ Local(c, n)
         /\ \/ step.does = "sets" /\ Store(t, step.decl, step.number) /\ UNCHANGED failed
            \/ /\ step.does = "finds" /\ UNCHANGED mem
               /\ ChildExpects(c, "found", ref(t, step.decl) = step.number)
         /\ UNCHANGED <<forkVars, test, spins, faulted>>
      \/ Return(c, TRUE)

\* A faulty holder, which announces itself before it has the mutex.
HolderHurries(c) ==
  \/ Goes(c, "lock", "sleep") /\ Store("atomic_mutex", "semaphore", 1) /\ UNCHANGED curr
  \/ /\ ref("atomic_mutex", "mutex") = 0
     /\ Goes(c, "sleep", "unlock") /\ Store("atomic_mutex", "mutex", 1) /\ Local(c, 1)
  \/ Goes(c, "unlock", "return") /\ Store("atomic_mutex", "mutex", 0) /\ UNCHANGED curr
  \/ Return(c, TRUE)

\* The mutex is taken before the parent is told, and held while the child sleeps.
Holder(c) ==
  \/ /\ ref("atomic_mutex", "mutex") = 0
     /\ Goes(c, "lock", "tell") /\ Store("atomic_mutex", "mutex", 1) /\ UNCHANGED curr
  \/ Goes(c, "tell", "sleep") /\ Store("atomic_mutex", "semaphore", 1) /\ UNCHANGED curr
  \/ Goes(c, "sleep", "unlock") /\ Local(c, 1) /\ UNCHANGED mem
  \/ Goes(c, "unlock", "return") /\ Store("atomic_mutex", "mutex", 0) /\ UNCHANGED curr
  \/ Return(c, TRUE)

Post(sem) == Store("semaphore", sem, ref("semaphore", sem) + 1)
Wait(sem) ==
  ref("semaphore", sem) > 0 /\ Store("semaphore", sem, ref("semaphore", sem) - 1)

Waiter(c) ==
  \/ Goes(c, "post", "wait") /\ Post("semaphore2") /\ UNCHANGED curr
  \/ Goes(c, "wait", "expect") /\ Wait("semaphore") /\ UNCHANGED curr
  \/ Looks(c, "waiter", ref("semaphore", "integer") = 2)
  \/ Return(c, TRUE)

\* A faulty poster, which keeps what it has done to itself.
PosterForgets(c) ==
  \/ Goes(c, "wait", "assign") /\ Wait("semaphore2") /\ UNCHANGED curr
  \/ Goes(c, "assign", "return") /\ Store("semaphore", "integer", 2) /\ UNCHANGED curr
  \/ Return(c, TRUE)

Poster(c) ==
  \/ Goes(c, "wait", "assign") /\ Wait("semaphore2") /\ UNCHANGED curr
  \/ Goes(c, "assign", "post") /\ Store("semaphore", "integer", 2) /\ UNCHANGED curr
  \/ Goes(c, "post", "return") /\ Post("semaphore") /\ UNCHANGED curr
  \/ Return(c, TRUE)

Runs(c) ==
  /\ proc[c] = "running"
  /\ \/ Open(c)
     \/ c = "counter" /\ Counter(c)
     \/ c \in {"filler", "changer"} /\ Changer(c)
     \/ c = "holder" /\ Holder(c)
     \/ c = "waiter" /\ Waiter(c)
     \/ c = "poster" /\ Poster(c)
-------------------------------------------------------------------------------
\* The parent.

Body == [basic_shared_mem |-> "load", complex_objects |-> "join", atomic_mutex |-> "spin",
         multiple_data |-> "join", semaphore |-> "join"]

\* After a test, or when a fatal expectation has ended it.
NextTest ==
  IF test < Len(Tests)
    THEN test' = test + 1 /\ To(Parent, "construct")
    ELSE UNCHANGED test /\ To(Parent, "done")
Fatal == NextTest \/ (To(Parent, "stopped") /\ UNCHANGED test)

Construct ==
  /\ pc[Parent] = "construct" /\ To(Parent, "fork")
  /\ LET new == Objects[Current]
         There(o) == {d \in DOMAIN new : offset(Current, d) = o}
     IN  mem' = [o \in Words |->
                   IF There(o) = {} THEN mem[o] ELSE new[CHOOSE d \in There(o) : TRUE]]
  /\ UNCHANGED <<forkVars, test, curr, spins, failed, faulted>>

\* The label behind the fork or the join of the i-th child.
Then(i, again, after) == IF i < Len(Children[Current]) THEN again ELSE after

Checked == Current \notin {"multiple_data", "semaphore"}
At(i, first, second) ==
  pc[Parent] = (IF i = 1 THEN first ELSE second) /\ i <= Len(Children[Current])

ForkChild(i) ==
  /\ At(i, "fork", "fork2")
  /\ LET c == Children[Current][i]
     IN  Fork(c) /\ pc' = [pc EXCEPT ![c] = "open", ![Parent] = Then(i, "fork2", Body[Current])]
  /\ UNCHANGED <<mem, test, curr, spins, failed, faulted>>

\* Without a child the test ends, where it looks.
ForkFails(i) ==
  /\ At(i, "fork", "fork2") /\ ForkRefused(Children[Current][i])
  /\ faulted' = faulted \cup {test}
  /\ Expect("forked", ~Checked)
  /\ IF Checked THEN Fatal ELSE To(Parent, Then(i, "fork2", Body[Current])) /\ UNCHANGED test
  /\ UNCHANGED <<mem, curr, spins>>

\* The parent of the mutex test waits for the child's word, takes the mutex, and
\* expects that the child has slept.
Spin ==
  /\ pc[Parent] = "spin" /\ ref("atomic_mutex", "semaphore") # 0 /\ To(Parent, "lock")
  /\ UNCHANGED <<forkVars, mem, test, curr, spins, failed, faulted>>

Lock ==
  /\ pc[Parent] = "lock" /\ ref("atomic_mutex", "mutex") = 0 /\ To(Parent, "unlock")
  /\ Store("atomic_mutex", "mutex", 1)
  /\ Expect("measured", curr["holder"] = 1)
  /\ UNCHANGED <<forkVars, test, curr, spins, faulted>>

Unlock ==
  /\ pc[Parent] = "unlock" /\ To(Parent, "join")
  /\ Store("atomic_mutex", "mutex", 0)
  /\ UNCHANGED <<forkVars, test, curr, spins, failed, faulted>>

\* The answer of a join: false is fatal, except in the counting test.
Answered(i) ==
  LET yes == joined'[Children[Current][i]] = "true"
  IN  /\ Expect("joined", yes)
      /\ IF yes \/ Current = "basic_shared_mem"
           THEN To(Parent, Then(i, "join2", "check")) /\ UNCHANGED test
           ELSE Fatal
      /\ UNCHANGED <<mem, curr, spins>>

JoinChild(i) ==
  /\ At(i, "join", "join2") /\ Join(Children[Current][i]) /\ Answered(i)
  /\ UNCHANGED faulted

JoinFails(i) ==
  /\ At(i, "join", "join2") /\ JoinInterrupted(Children[Current][i]) /\ Answered(i)
  /\ faulted' = faulted \cup {test}

\* A child that was never forked is joined through an empty optional where the test
\* has not looked.
JoinNothing(i) ==
  /\ At(i, "join", "join2")
  /\ proc[Children[Current][i]] = "none" /\ To(Parent, "undefined")
  /\ UNCHANGED <<forkVars, mem, test, curr, spins, failed, faulted>>

\* The expectations at the end of each test.
Results ==
  [basic_shared_mem |->
     {<<"counter", ref("basic_shared_mem", "sync_counter") = N>>,
      <<"child_spins", ref("basic_shared_mem", "child_counter") >= N>>,
      <<"parent_spins", spins >= N>>},
   complex_objects |-> {<<"vector", ref("complex_objects", "vector") = 4>>},
   atomic_mutex |-> {},
   multiple_data |->
     {<<d, ref("multiple_data", d) = (IF d = "vector" THEN 4 ELSE 2)>> :
        d \in {"foo", "vector", "message", "ref"}},
   semaphore |-> {<<"integer", ref("semaphore", "integer") = 2>>}]

Check ==
  /\ pc[Parent] = "check" /\ NextTest
  /\ failed' = failed \cup {<<test, r[1]>> : r \in {q \in Results[Current] : ~q[2]}}
  /\ UNCHANGED <<forkVars, mem, curr, spins, faulted>>

ParentRuns ==
  \/ Construct \/ Load(Parent, "join") \/ ParentActs \/ Spin \/ Lock \/ Unlock \/ Check
  \/ \E i \in {1, 2} : ForkChild(i) \/ JoinChild(i) \/ JoinNothing(i)

ParentFails == \E i \in {1, 2} : ForkFails(i) \/ JoinFails(i)

\* A signal kills a child, or the segment cannot be opened and its function throws.
Fails(c) ==
  /\ Kill(c) \/ (pc[c] = "open" /\ Throw(c))
  /\ To(c, "failed") /\ faulted' = faulted \cup {test}
  /\ UNCHANGED <<mem, test, curr, spins, failed>>

Init ==
  /\ ForkInit
  /\ mem = [o \in Words |-> 0] /\ test = 1
  /\ pc = [p \in Kids \cup {Parent} |-> IF p = Parent THEN "construct" ELSE "none"]
  /\ curr = [p \in Kids \cup {Parent} |-> 0] /\ spins = 0
  /\ failed = {} /\ faulted = {}

Next == ParentRuns \/ ParentFails \/ \E c \in Kids : Runs(c) \/ Fails(c)

\* Every process that can go on does; faults need not happen.
Spec == Init /\ [][Next]_vars /\ WF_vars(ParentRuns) /\ \A c \in Kids : WF_vars(Runs(c))

-------------------------------------------------------------------------------
\* What join has answered of a child that it has waited for is exactly what the child's
\* function returned, be it true or false, when it has returned; failure, when the
\* function threw; and success, when a signal ended it. Of any other child, which runs or
\* waits for ever to be asked again, the answer is failure.
JoinTells ==
  \A c \in Kids :
    joined[c] # "unasked" =>
      joined[c] = IF proc[c] # "gone" THEN "false"
                  ELSE IF status[c] \in {Signaled(SIGABRT), Signaled(SIGKILL)} THEN "true"
                  ELSE IF returned[c] = "nothing" THEN "false"
                  ELSE returned[c]

\* An earlier test's child that nobody has joined.
Stray(c, n) == TestOf(c) < n /\ proc[c] \notin {"none", "gone"}

\* A child runs on in the segment of later tests only if there was a fault in its own
\* test (a join was interrupted, and the pid forgotten): no way through a test, those that
\* a fatal expectation cuts short included, leaves one behind otherwise.
StraysFromFaults == \A c \in Kids : Stray(c, test) => TestOf(c) \in faulted

\* What a test expects of its children's work holds when it comes to look, unless
\* there was a fault during the test or a stray child of an earlier one is about.
\* The exceptions are the expectations that a process of the counting test has gone round
\* its loop as often as the counter was moved, which it need not, finding its turn come
\* again each time: the child then returns false, and join says so.
ExpectationsHold ==
  \A f \in failed :
    \/ f[2] \in {"child_spins", "parent_spins"}
    \/ f = <<1, "joined">> /\ returned["counter"] = "false"
    \/ f[1] \in faulted
    \/ \E c \in Kids : Stray(c, f[1])

\* The number of the counter belongs to the process whose turn it is: between its
\* load and its exchange nobody moves it.
TakesTurns ==
  test = 1 =>
    \A p \in {"counter", Parent} :
      pc[p] = "act" /\ curr[p] % 2 = Turn(p) =>
        curr[p] = ref("basic_shared_mem", "sync_counter")

\* Without faults the program comes to its end, and has joined every child.
EndsJoined ==
  <>(faulted # {} \/ (pc[Parent] = "done" /\ \A c \in Kids : proc[c] = "gone"))

===============================================================================
