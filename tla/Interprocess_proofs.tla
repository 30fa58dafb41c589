--------------------------- MODULE Interprocess_proofs ---------------------------
(***************************************************************************)
(* What fork_child_t::join tells, whose turn it is in the counting test,   *)
(* and what the tests find when they look at their children's work, for    *)
(* every set of children, number of counts and number of faults.           *)
(***************************************************************************)
EXTENDS Interprocess, TLAPS

Signals == {Signaled(SIGABRT), Signaled(SIGKILL)}
Success == Exited(EXIT_SUCCESS)
Failure == Exited(EXIT_FAILURE)

\* A child that has ended has come to the end of its function, of which it keeps
\* what it returned (only the counting one can return false), or failed, and its
\* status says which, but for the signals, which look like a success.
Ended(c) ==
  \/ pc[c] = "returned" /\ returned[c] = "true" /\ status[c] = Success
  \/ pc[c] = "returned" /\ returned[c] = "false" /\ status[c] = Failure /\ c = "counter"
  \/ pc[c] = "failed" /\ returned[c] = "nothing" /\ status[c] \in Signals \cup {Failure}

\* The inductive invariant: what join has answered was read off the status of a
\* child that was waited for, and a pid that is kept has not been waited for.
Told(c) ==
  /\ IF proc[c] \in {"zombie", "gone"} THEN Ended(c) ELSE returned[c] = "nothing"
  /\ joined[c] \in {"unasked", "true", "false"}
  /\ pid[c] => proc[c] # "gone"
  /\ joined[c] = "true" => proc[c] = "gone" /\ WEXITSTATUS(status[c]) = EXIT_SUCCESS
  /\ joined[c] = "false" =>
       proc[c] # "gone" \/ WEXITSTATUS(status[c]) # EXIT_SUCCESS

\* The children's states are recorded for every child.
Shaped ==
  /\ DOMAIN proc = Kids /\ DOMAIN status = Kids /\ DOMAIN pid = Kids /\ DOMAIN joined = Kids
  /\ DOMAIN returned = Kids
  /\ DOMAIN pc = Kids \cup {Parent}
  /\ proc = [c \in Kids |-> proc[c]] /\ status = [c \in Kids |-> status[c]]
  /\ pid = [c \in Kids |-> pid[c]] /\ joined = [c \in Kids |-> joined[c]]
  /\ returned = [c \in Kids |-> returned[c]]
  /\ pc = [p \in Kids \cup {Parent} |-> pc[p]]

IInv == Shaped /\ \A c \in Kids : Told(c)

LEMMA Words256 ==
  /\ WEXITSTATUS(Success) = EXIT_SUCCESS /\ WEXITSTATUS(Failure) # EXIT_SUCCESS
  /\ \A s \in Signals : WEXITSTATUS(s) = EXIT_SUCCESS
  /\ Failure \notin Signals /\ Success \notin Signals /\ Success # Failure
BY DEF WEXITSTATUS, Success, Failure, Signals, Exited, Signaled, SIGABRT, SIGKILL,
       EXIT_SUCCESS, EXIT_FAILURE

\* The invariant says what JoinTells says.
LEMMA Tells == IInv => JoinTells
<1> SUFFICES ASSUME IInv, NEW c \in Kids, joined[c] # "unasked"
             PROVE  joined[c] = IF proc[c] # "gone" THEN "false"
                                ELSE IF status[c] \in Signals THEN "true"
                                ELSE IF returned[c] = "nothing" THEN "false"
                                ELSE returned[c]
  BY DEF JoinTells, Signals
<1>1. Told(c)
  BY DEF IInv
<1>2. CASE proc[c] # "gone"
  BY <1>1, <1>2 DEF Told
<1>3. CASE proc[c] = "gone"
  <2>1. Ended(c)
    BY <1>1, <1>3 DEF Told
  <2>2. joined[c] = "true" <=> WEXITSTATUS(status[c]) = EXIT_SUCCESS
    BY <1>1, <1>3 DEF Told
  <2> QED
    BY <1>1, <1>3, <2>1, <2>2, Words256 DEF Told, Ended
<1> QED
  BY <1>2, <1>3

LEMMA Start == Init => IInv
<1> SUFFICES ASSUME Init PROVE IInv
  OBVIOUS
<1>1. Shaped
  BY DEF Init, ForkInit, Shaped
<1>2. ASSUME NEW c \in Kids PROVE Told(c)
  BY <1>2 DEF Init, ForkInit, Told
<1> QED
  BY <1>1, <1>2 DEF IInv

\* A step that leaves the children alone, and moves p, which is the parent or a
\* child that is running.
LEMMA MoveStep ==
  ASSUME IInv, UNCHANGED forkVars,
         NEW p, p = Parent \/ proc[p] = "running", NEW label, To(p, label)
  PROVE  IInv'
<1>1. Shaped'
  BY DEF IInv, Shaped, To, forkVars
<1>2. ASSUME NEW c \in Kids PROVE Told(c)'
  <2>1. Told(c) /\ DOMAIN pc = Kids \cup {Parent}
    BY DEF IInv, Shaped
  <2>2. proc[c] \in {"zombie", "gone"} => pc'[c] = pc[c]
    BY <2>1, CountsAssumption DEF To
  <2> QED
    BY <2>1, <2>2 DEF Told, Ended, forkVars
<1> QED
  BY <1>1, <1>2 DEF IInv

\* A step of one child d that moves it as well as its record.
LEMMA ChildStep ==
  ASSUME IInv, Shaped', NEW d,
         \A c \in Kids : c # d => /\ proc'[c] = proc[c] /\ status'[c] = status[c]
                                  /\ pid'[c] = pid[c] /\ joined'[c] = joined[c]
                                  /\ returned'[c] = returned[c] /\ pc'[c] = pc[c],
         d \in Kids => Told(d)'
  PROVE  IInv'
<1>1. ASSUME NEW c \in Kids PROVE Told(c)'
  <2>1. CASE c = d
    BY <2>1
  <2>2. CASE c # d
    BY <2>2 DEF IInv, Told, Ended
  <2> QED
    BY <2>1, <2>2
<1> QED
  BY <1>1 DEF IInv

\* A child's function returns; only the counting one can return false.
LEMMA ReturnStep ==
  ASSUME IInv, NEW c \in Kids, NEW result, Return(c, result), c = "counter" \/ result
  PROVE  IInv'
<1>1. /\ pc' = [pc EXCEPT ![c] = "returned"] /\ proc[c] = "running"
      /\ proc' = [proc EXCEPT ![c] = "zombie"]
      /\ status' = [status EXCEPT ![c] = IF result THEN Success ELSE Failure]
      /\ returned' = [returned EXCEPT ![c] = IF result THEN "true" ELSE "false"]
      /\ UNCHANGED <<pid, joined>>
  <2>1. Exited(IF result THEN EXIT_SUCCESS ELSE EXIT_FAILURE)
          = IF result THEN Success ELSE Failure
    BY DEF Success, Failure
  <2> QED
    BY <2>1 DEF Return, To, Exit, Ends
<1>2. Shaped'
  BY <1>1 DEF IInv, Shaped
<1>3. Told(c)'
  <2>1. /\ pc'[c] = "returned" /\ proc'[c] = "zombie"
        /\ status'[c] = IF result THEN Success ELSE Failure
        /\ returned'[c] = IF result THEN "true" ELSE "false"
    BY <1>1 DEF IInv, Shaped
  <2>2. joined[c] \in {"unasked", "false"}
    BY <1>1 DEF IInv, Told
  <2> QED
    BY <1>1, <2>1, <2>2 DEF Told, Ended
<1> QED
  BY <1>1, <1>2, <1>3, ChildStep

\* A child is killed, or its function throws.
LEMMA FailStep ==
  ASSUME IInv, NEW c \in Kids, Fails(c)
  PROVE  IInv'
<1>1. PICK s \in Signals \cup {Failure} : Ends(c, s) /\ UNCHANGED returned
  BY DEF Fails, Kill, Throw, Signals, Failure
<1>2. /\ pc' = [pc EXCEPT ![c] = "failed"] /\ proc[c] = "running"
      /\ proc' = [proc EXCEPT ![c] = "zombie"] /\ status' = [status EXCEPT ![c] = s]
      /\ UNCHANGED <<pid, joined, returned>>
  BY <1>1 DEF Fails, To, Ends
<1>3. Shaped'
  BY <1>2 DEF IInv, Shaped
<1>4. Told(c)'
  <2>1. pc'[c] = "failed" /\ proc'[c] = "zombie" /\ status'[c] = s
    BY <1>2 DEF IInv, Shaped
  <2>2. joined[c] \in {"unasked", "false"} /\ returned[c] = "nothing"
    BY <1>2 DEF IInv, Told
  <2> QED
    BY <1>2, <2>1, <2>2 DEF Told, Ended
<1> QED
  BY <1>2, <1>3, <1>4, ChildStep

\* A step of a child's function: it moves, or it returns.
LEMMA RunStep ==
  ASSUME IInv, NEW c \in Kids, Runs(c)
  PROVE  IInv'
<1>1. proc[c] = "running"
  BY DEF Runs
<1>2. ASSUME UNCHANGED forkVars, NEW label, To(c, label) PROVE IInv'
  BY <1>1, <1>2, MoveStep
<1>3. ASSUME NEW from, NEW to, Goes(c, from, to) PROVE IInv'
  BY <1>2, <1>3 DEF Goes
<1>4. CASE Open(c)
  BY <1>2, <1>4 DEF Open
<1>5. CASE c = "counter" /\ Counter(c)
  <2>1. CASE Load(c, "expect")
    <3>1. PICK label : To(c, label)
      BY <2>1 DEF Load
    <3> QED
      BY <2>1, <3>1, <1>2 DEF Load
  <2>2. CASE CounterActs(c)
    BY <2>2, <1>2 DEF CounterActs
  <2>3. CASE Return(c, ref("basic_shared_mem", "child_counter") >= N)
    BY <1>5, <2>3, ReturnStep
  <2>4. ASSUME NEW name, NEW holds, Looks(c, name, holds) PROVE IInv'
    BY <1>2, <2>4 DEF Looks
  <2> QED
    BY <1>3, <1>5, <2>1, <2>2, <2>3, <2>4 DEF Counter
<1>6. CASE Return(c, TRUE)
  BY <1>6, ReturnStep
<1>7. CASE Changer(c)
  <2> DEFINE n == curr[c] + 1
             to == IF n = Len(Changes[c]) THEN "return" ELSE "change"
  <2>1. (To(c, to) /\ UNCHANGED forkVars) \/ Return(c, TRUE)
    BY <1>7 DEF Changer
  <2> HIDE DEF to
  <2> QED
    BY <1>2, <1>6, <2>1
<1>8. CASE Holder(c)
  BY <1>3, <1>6, <1>8 DEF Holder
<1>9. CASE Waiter(c)
  <2>1. ASSUME NEW name, NEW holds, Looks(c, name, holds) PROVE IInv'
    BY <1>2, <2>1 DEF Looks
  <2> QED
    BY <1>3, <1>6, <1>9, <2>1 DEF Waiter
<1>10. CASE Poster(c)
  BY <1>3, <1>6, <1>10 DEF Poster
<1> QED
  BY <1>4, <1>5, <1>7, <1>8, <1>9, <1>10 DEF Runs

\* The parent goes on: its label changes and no child does.
LEMMA ParentMoves ==
  ASSUME IInv, UNCHANGED forkVars, NEW label, To(Parent, label)
  PROVE  IInv'
BY MoveStep

\* The end of a test.
LEMMA NextLabel ==
  /\ NextTest => \E label : To(Parent, label)
  /\ Fatal => \E label : To(Parent, label)
BY DEF NextTest, Fatal

\* The parent starts a child.
LEMMA ForkedStep ==
  ASSUME IInv, NEW c, NEW after, Fork(c),
         pc' = [pc EXCEPT ![c] = "open", ![Parent] = after]
  PROVE  IInv'
<1>1. /\ proc[c] = "none" /\ proc' = [proc EXCEPT ![c] = "running"]
      /\ pid' = [pid EXCEPT ![c] = TRUE] /\ UNCHANGED <<status, joined, returned>>
  BY DEF Fork
<1>2. Shaped'
  BY <1>1 DEF IInv, Shaped
<1>3. ASSUME c \in Kids PROVE Told(c)'
  <2>1. proc'[c] = "running" /\ joined'[c] = joined[c]
    BY <1>1, <1>3 DEF IInv, Shaped
  <2>2. Told(c)
    BY <1>3 DEF IInv
  <2>3. joined'[c] # "true" /\ returned'[c] = "nothing"
    BY <1>1, <2>1, <2>2 DEF Told
  <2> QED
    BY <2>1, <2>2, <2>3 DEF Told
<1>4. ASSUME NEW d \in Kids, d # c
      PROVE  /\ proc'[d] = proc[d] /\ status'[d] = status[d] /\ pid'[d] = pid[d]
             /\ joined'[d] = joined[d] /\ returned'[d] = returned[d] /\ pc'[d] = pc[d]
  BY <1>1, <1>4, CountsAssumption DEF IInv, Shaped
<1> QED
  BY <1>2, <1>3, <1>4, ChildStep

LEMMA ForkStep ==
  ASSUME IInv, NEW i, ForkChild(i)
  PROVE  IInv'
<1> DEFINE c == Children[Current][i]
           after == Then(i, "fork2", Body[Current])
<1>1. Fork(c) /\ pc' = [pc EXCEPT ![c] = "open", ![Parent] = after]
  BY DEF ForkChild
<1> HIDE DEF c, after
<1> QED
  BY <1>1, ForkedStep

\* A step of the parent after which it knows what join has answered for c.
LEMMA AnswerStep ==
  ASSUME IInv, NEW c, NEW label, To(Parent, label), UNCHANGED <<status, returned>>,
         \/ /\ proc[c] = "zombie" /\ proc' = [proc EXCEPT ![c] = "gone"]
            /\ joined' = [joined EXCEPT ![c] = IF EXIT_SUCCESS = WEXITSTATUS(status[c])
                                                 THEN "true" ELSE "false"]
         \/ pid[c] /\ UNCHANGED proc /\ joined' = [joined EXCEPT ![c] = "false"],
         pid' = [pid EXCEPT ![c] = FALSE]
  PROVE  IInv'
<1>1. Shaped'
  BY DEF IInv, Shaped, To
<1>2. ASSUME NEW d \in Kids PROVE pc'[d] = pc[d]
  BY CountsAssumption DEF IInv, Shaped, To
<1>3. ASSUME c \in Kids PROVE Told(c)'
  <2>1. pid'[c] = FALSE /\ Told(c)
    BY <1>3 DEF IInv, Shaped
  <2>2. pc'[c] = pc[c] /\ status'[c] = status[c]
    BY <1>2, <1>3
  <2>3. CASE proc[c] = "zombie" /\ proc'[c] = "gone"
              /\ joined'[c] = IF EXIT_SUCCESS = WEXITSTATUS(status[c]) THEN "true" ELSE "false"
    BY <2>1, <2>2, <2>3 DEF Told, Ended
  <2>4. CASE pid[c] /\ proc'[c] = proc[c] /\ joined'[c] = "false"
    BY <2>1, <2>2, <2>4 DEF Told, Ended
  <2> QED
    BY <1>3, <2>3, <2>4 DEF IInv, Shaped
<1>4. ASSUME NEW d \in Kids, d # c
      PROVE  /\ proc'[d] = proc[d] /\ status'[d] = status[d] /\ pid'[d] = pid[d]
             /\ joined'[d] = joined[d] /\ returned'[d] = returned[d] /\ pc'[d] = pc[d]
  BY <1>2, <1>4 DEF IInv, Shaped
<1> QED
  BY <1>1, <1>3, <1>4, ChildStep

\* What the parent does with an answer moves only itself.
LEMMA AnsweredLabel ==
  ASSUME NEW i, Answered(i)
  PROVE  \E label : To(Parent, label)
BY NextLabel DEF Answered

LEMMA JoinStep ==
  ASSUME IInv, NEW i, JoinChild(i) \/ JoinFails(i)
  PROVE  IInv'
<1> DEFINE c == Children[Current][i]
<1>1. PICK label : To(Parent, label)
  BY AnsweredLabel DEF JoinChild, JoinFails
<1>2. Join(c) \/ JoinInterrupted(c)
  BY DEF JoinChild, JoinFails
<1> HIDE DEF c
<1>3. CASE Join(c)
  BY <1>1, <1>3, AnswerStep DEF Join
<1>4. CASE JoinInterrupted(c)
  BY <1>1, <1>4, AnswerStep DEF JoinInterrupted, joinable
<1> QED
  BY <1>2, <1>3, <1>4

\* A refused fork changes no child's record.
LEMMA RefusedStep ==
  ASSUME IInv, NEW i, ForkFails(i)
  PROVE  IInv'
<1>1. PICK label : To(Parent, label)
  BY NextLabel DEF ForkFails
<1>2. UNCHANGED <<proc, status, pid, joined, returned>>
  BY DEF ForkFails, ForkRefused
<1>3. Shaped'
  BY <1>1, <1>2 DEF IInv, Shaped, To
<1>4. ASSUME NEW c \in Kids PROVE Told(c)'
  <2>1. pc'[c] = pc[c]
    BY <1>1, CountsAssumption DEF IInv, Shaped, To
  <2> QED
    BY <1>2, <2>1 DEF IInv, Told, Ended
<1> QED
  BY <1>3, <1>4 DEF IInv

LEMMA ParentStep ==
  ASSUME IInv, ParentRuns \/ ParentFails
  PROVE  IInv'
<1>1. CASE Construct
  BY <1>1, ParentMoves DEF Construct
<1>2. CASE Load(Parent, "join")
  <2>1. PICK label : To(Parent, label)
    BY <1>2 DEF Load
  <2> QED
    BY <1>2, <2>1, ParentMoves DEF Load
<1>3. CASE ParentActs
  BY <1>3, ParentMoves DEF ParentActs
<1>4. CASE Spin
  BY <1>4, ParentMoves DEF Spin
<1>5. CASE Lock
  BY <1>5, ParentMoves DEF Lock
<1>6. CASE Unlock
  BY <1>6, ParentMoves DEF Unlock
<1>7. CASE Check
  <2>1. PICK label : To(Parent, label)
    BY <1>7, NextLabel DEF Check
  <2> QED
    BY <1>7, <2>1, ParentMoves DEF Check
<1>8. ASSUME NEW i, JoinNothing(i) PROVE IInv'
  BY <1>8, ParentMoves DEF JoinNothing
<1> QED
  BY <1>1, <1>2, <1>3, <1>4, <1>5, <1>6, <1>7, <1>8, ForkStep, JoinStep, RefusedStep
  DEF ParentRuns, ParentFails

LEMMA Steps == IInv /\ [Next]_vars => IInv'
<1> SUFFICES ASSUME IInv, [Next]_vars PROVE IInv'
  OBVIOUS
<1>1. CASE UNCHANGED vars
  BY <1>1 DEF vars, forkVars, IInv, Shaped, Told, Ended
<1> QED
  BY <1>1, ParentStep, RunStep, FailStep DEF Next

\* join answers what the function of the child that it has waited for returned, true or
\* false; a function that threw is a failure and a child that a signal ended a success;
\* of a child that is not waited for the answer is failure: whatever the children do in
\* the segment, however often they fail.
THEOREM JoinTellsHolds == Spec => []JoinTells
<1>1. Spec => []IInv
  BY Start, Steps, PTL DEF Spec
<1> QED
  BY <1>1, Tells, PTL

-------------------------------------------------------------------------------
(* the turns of the counting test *)

\* The words of the counting test.
LEMMA CounterWords ==
  /\ offset("basic_shared_mem", "sync_counter") = 0
  /\ offset("basic_shared_mem", "child_counter") = 1
<1> DEFINE d == decls["basic_shared_mem"]
           Places(f) == f = [i \in 0 .. Len(d) |-> IF i = 0 THEN 0 ELSE end_offset_of(f[i - 1])]
           end == CHOOSE f : Places(f)
           place(x) == CHOOSE i \in DOMAIN d : d[i] = x
<1>1. d = <<"sync_counter", "child_counter">>
  BY DEF decls
<1>2. place("sync_counter") = 1 /\ place("child_counter") = 2
  BY <1>1
<1>3. \E f : Places(f)
  <2>1. Places([i \in 0 .. Len(d) |-> i])
    BY <1>1 DEF end_offset_of
  <2> QED
    BY <2>1
<1>4. Places(end)
  BY <1>3
<1>5. offset("basic_shared_mem", "sync_counter") = end[place("sync_counter") - 1]
      /\ offset("basic_shared_mem", "child_counter") = end[place("child_counter") - 1]
  BY DEF offset
<1>6. Len(d) = 2
  BY <1>1
<1> HIDE DEF d, end
<1>7. end[0] = 0 /\ end[1] = end_offset_of(end[0])
  BY <1>4, <1>6
<1> HIDE DEF place
<1> QED
  BY <1>2, <1>5, <1>7 DEF end_offset_of

Players == {"counter", Parent}
number == mem[0]

\* The inductive invariant of the turns: during the first test no child but the
\* counting one runs, the parent is in that test's body, and whoever is about to
\* exchange the number in its own turn has read it.
TInv ==
  /\ test \in Nat \ {0}
  /\ DOMAIN mem = Words /\ DOMAIN curr = Kids \cup {Parent}
  /\ test = 1 =>
       /\ pc[Parent] \in {"construct", "fork", "load", "act", "join", "check", "stopped",
                          "undefined", "done"}
       /\ pc[Parent] = "construct" => proc["counter"] = "none" /\ pc["counter"] = "none"
       /\ \A c \in Kids \ {"counter"} : proc[c] # "running"
       /\ number \in Int /\ \A p \in Players : curr[p] \in Int
       /\ \A p \in Players : pc[p] = "act" /\ curr[p] % 2 = Turn(p) => curr[p] = number

\* What the texts of the first test say.
LEMMA Early ==
  ASSUME test = 1
  PROVE  /\ Current = "basic_shared_mem" /\ Children[Current] = <<"counter">>
         /\ Len(Children[Current]) = 1 /\ Body[Current] = "load" /\ Checked
         /\ \A i, again, after : i = 1 => Then(i, again, after) = after
BY DEF Current, Tests, Children, Body, Checked, Then

\* The exchange of p moves the number only in the turn of p, which nobody else has.
LEMMA ExchangeTurn ==
  ASSUME DOMAIN mem = Words, number \in Int, NEW p
  PROVE  /\ DOMAIN Exchange(p) = Words
         /\ Exchange(p)[0] = number
            \/ (number = curr[p] /\ curr[p] % 2 = Turn(p) /\ Exchange(p)[0] = number + 1)
BY CounterWords DEF Exchange, ref, number, Words

\* In another test the invariant only bounds the test.
LEMMA LaterTest ==
  ASSUME TInv, test' \in Nat \ {0, 1}, DOMAIN mem' = Words, DOMAIN curr' = Kids \cup {Parent}
  PROVE  TInv'
BY DEF TInv

Walks == {"fork", "load", "join", "check", "stopped", "undefined"}

\* In the first test a process goes on and leaves the number and the local values alone.
LEMMA WalkStep ==
  ASSUME IInv, TInv, test = 1, UNCHANGED test, DOMAIN mem' = Words, mem'[0] = mem[0],
         UNCHANGED curr, NEW p \in Kids \cup {Parent}, NEW label, To(p, label), label # "act",
         IF p = Parent THEN label \in Walks ELSE proc[p] = "running",
         \A c \in Kids \ {"counter"} : proc'[c] # "running"
  PROVE  TInv'
<1>1. /\ pc'[p] = label /\ \A q \in Kids \cup {Parent} : q # p => pc'[q] = pc[q]
      /\ Parent \in Kids \cup {Parent} /\ "counter" \in Kids /\ Parent # "counter"
  BY CountsAssumption DEF IInv, Shaped, To
<1>2. CASE p = Parent
  BY <1>1, <1>2 DEF TInv, Players, number, Turn, Walks
<1>3. CASE p # Parent
  <2>1. p = "counter" /\ pc[Parent] # "construct" /\ pc'[Parent] = pc[Parent]
    BY <1>1, <1>3 DEF TInv
  <2> QED
    BY <1>1, <1>3, <2>1 DEF TInv, Players, number, Turn
<1> QED
  BY <1>2, <1>3

\* A load reads the number.
LEMMA LoadStep ==
  ASSUME IInv, TInv, test = 1, NEW p \in Players, NEW after, Load(p, after),
         after \in {"expect", "join"}, p # Parent => proc[p] = "running",
         p = Parent => after = "join"
  PROVE  TInv'
<1>1. p \in Kids \cup {Parent} /\ "counter" \in Kids /\ Parent # "counter"
  BY CountsAssumption DEF Players
<1>2. PICK label : To(p, label) /\ label \in {"act", after}
  BY DEF Load
<1>3. /\ curr'[p] = number /\ DOMAIN curr' = DOMAIN curr
      /\ \A q \in Kids \cup {Parent} : q # p => curr'[q] = curr[q]
      /\ UNCHANGED <<mem, test, proc>>
  BY <1>1, CounterWords DEF TInv, Load, Local, ref, number, forkVars
<1>4. pc'[p] = label /\ \A q \in Kids \cup {Parent} : q # p => pc'[q] = pc[q]
  BY <1>1, <1>2 DEF IInv, Shaped, To
<1>5. CASE p = Parent
  BY <1>1, <1>2, <1>3, <1>4, <1>5 DEF TInv, Players, number, Turn
<1>6. CASE p = "counter"
  BY <1>1, <1>2, <1>3, <1>4, <1>6 DEF TInv, Players, number, Turn
<1> QED
  BY <1>5, <1>6 DEF Players

\* An exchange moves the number only in the turn of the one that makes it.
LEMMA ActStep ==
  ASSUME IInv, TInv, test = 1, NEW p \in Players, NEW q \in Players, p # q,
         pc[p] = "act", To(p, "load"), UNCHANGED <<curr, test, proc>>,
         p # Parent => proc[p] = "running",
         DOMAIN mem' = Words, mem'[0] = Exchange(p)[0]
  PROVE  TInv'
<1>1. /\ p \in Kids \cup {Parent} /\ q \in Kids \cup {Parent}
      /\ "counter" \in Kids /\ Parent # "counter" /\ Players = {p, q}
  BY CountsAssumption DEF Players
<1>2. /\ number \in Int /\ curr[p] \in Int /\ curr[q] \in Int
      /\ pc[q] = "act" /\ curr[q] % 2 = Turn(q) => curr[q] = number
  BY DEF TInv
<1>3. \/ mem'[0] = number
      \/ number = curr[p] /\ curr[p] % 2 = Turn(p) /\ mem'[0] = number + 1
  BY <1>2, ExchangeTurn DEF TInv
<1>4. Turn(p) # Turn(q)
  BY <1>1 DEF Turn, Players
<1>5. pc'[p] = "load" /\ \A r \in Kids \cup {Parent} : r # p => pc'[r] = pc[r]
  BY <1>1 DEF IInv, Shaped, To
<1>6. mem'[0] \in Int
  BY <1>2, <1>3
<1>7. pc'[q] = "act" /\ curr[q] % 2 = Turn(q) => curr[q] = mem'[0]
  BY <1>1, <1>2, <1>3, <1>4, <1>5
<1>8. \A r \in Players : pc'[r] = "act" /\ curr[r] % 2 = Turn(r) => curr[r] = mem'[0]
  BY <1>1, <1>5, <1>7
<1>9. pc'[Parent] \in {"load", pc[Parent]} /\ (pc'[Parent] = "construct" => p # Parent)
  BY <1>1, <1>5
<1>10. pc[Parent] # "construct"
  BY DEF TInv, Players
<1> QED
  BY <1>6, <1>8, <1>9, <1>10 DEF TInv, number, Turn

\* The parent's steps in the first test.
LEMMA EarlyParent ==
  ASSUME IInv, TInv, test = 1, ParentRuns \/ ParentFails
  PROVE  TInv'
<1> USE Early
<1>0. /\ Parent \in Kids \cup {Parent} /\ Parent \in Players /\ "counter" \in Players
      /\ Parent # "counter" /\ DOMAIN mem = Words /\ DOMAIN curr = Kids \cup {Parent}
      /\ \A c \in Kids \ {"counter"} : proc[c] # "running"
  BY CountsAssumption DEF Players, TInv
<1>1. CASE Construct
  <2>1. /\ To(Parent, "fork") /\ UNCHANGED <<test, curr, proc>> /\ DOMAIN mem' = Words
    BY <1>1 DEF Construct, forkVars
  <2>2. mem'[0] = 0
    <3> DEFINE new == Objects["basic_shared_mem"]
               There(o) == {d \in DOMAIN new : offset("basic_shared_mem", d) = o}
    <3>1. new = [sync_counter |-> 0]
      BY DEF Objects
    <3>2. There(0) = {"sync_counter"}
      BY <3>1, CounterWords
    <3>3. (CHOOSE d \in There(0) : TRUE) = "sync_counter"
      BY <3>2
    <3>4. mem'[0] = IF There(0) = {} THEN mem[0] ELSE new[CHOOSE d \in There(0) : TRUE]
      BY <1>1 DEF Construct, Words
    <3> HIDE DEF new, There
    <3> QED
      BY <3>1, <3>2, <3>3, <3>4
  <2>3. pc["counter"] = "none" /\ pc'[Parent] = "fork" /\ pc'["counter"] = "none"
    BY <1>0, <1>1, <2>1 DEF Construct, TInv, IInv, Shaped, To, Players
  <2> QED
    BY <1>0, <2>1, <2>2, <2>3 DEF TInv, Players, number
<1>2. CASE Load(Parent, "join")
  BY <1>0, <1>2, LoadStep
<1>3. CASE ParentActs
  <2>1. /\ mem' = Exchange(Parent) /\ UNCHANGED <<curr, test, proc>>
        /\ pc[Parent] = "act" /\ To(Parent, "load")
    BY <1>3 DEF ParentActs, forkVars
  <2>2. DOMAIN mem' = Words
    BY <1>0, <2>1, ExchangeTurn DEF TInv
  <2> QED
    BY <1>0, <2>1, <2>2, ActStep
<1>4. CASE Spin \/ Lock \/ Unlock
  BY <1>4 DEF Spin, Lock, Unlock, TInv
<1>5. CASE Check
  <2>1. test' = 2 /\ UNCHANGED <<mem, curr>>
    BY <1>5 DEF Check, NextTest, Tests
  <2> QED
    BY <1>0, <2>1, LaterTest
<1>6. ASSUME NEW i \in {1, 2}, ForkChild(i)
      PROVE  TInv'
  <2>1. i = 1 /\ pc[Parent] = "fork" /\ Children[Current][i] = "counter"
    BY <1>6 DEF ForkChild, At
  <2> DEFINE d == Children[Current][i]
             after == Then(i, "fork2", Body[Current])
  <2>2. d = "counter" /\ after = "load"
    BY <2>1
  <2>3. /\ Fork(d) /\ pc' = [pc EXCEPT ![d] = "open", ![Parent] = after]
        /\ UNCHANGED <<mem, test, curr>>
    BY <1>6 DEF ForkChild
  <2> HIDE DEF d, after
  <2>4. /\ pc' = [pc EXCEPT !["counter"] = "open", ![Parent] = "load"]
        /\ proc' = [proc EXCEPT !["counter"] = "running"] /\ UNCHANGED <<mem, test, curr>>
    BY <2>2, <2>3 DEF Fork
  <2>5. pc'["counter"] = "open" /\ pc'[Parent] = "load"
    <3>1. DOMAIN pc = Kids \cup {Parent} /\ "counter" \in Kids
      BY CountsAssumption DEF IInv, Shaped
    <3> QED
      BY <1>0, <2>4, <3>1
  <2>6. \A c \in Kids \ {"counter"} : proc'[c] # "running"
    BY <1>0, <2>4 DEF IInv, Shaped
  <2> QED
    BY <1>0, <2>4, <2>5, <2>6 DEF TInv, Players, number
<1>7. ASSUME NEW i \in {1, 2}, JoinChild(i) \/ JoinFails(i)
      PROVE  TInv'
  <2>1. i = 1 /\ Answered(i) /\ (Join("counter") \/ JoinInterrupted("counter"))
    BY <1>7 DEF JoinChild, JoinFails, At
  <2>2. To(Parent, "check") /\ UNCHANGED <<mem, curr, test>>
    BY <2>1 DEF Answered
  <2>3. \A c \in Kids \ {"counter"} : proc'[c] # "running"
    BY <1>0, <2>1 DEF Join, JoinInterrupted, IInv, Shaped
  <2> QED
    BY <1>0, <2>2, <2>3, WalkStep DEF Walks
<1>8. ASSUME NEW i \in {1, 2}, JoinNothing(i)
      PROVE  TInv'
  <2>1. To(Parent, "undefined") /\ UNCHANGED <<mem, curr, test, proc>>
    BY <1>8 DEF JoinNothing, forkVars
  <2> QED
    BY <1>0, <2>1, WalkStep DEF Walks
<1>9. ASSUME NEW i \in {1, 2}, ForkFails(i)
      PROVE  TInv'
  <2>1. i = 1 /\ Fatal /\ UNCHANGED <<mem, curr, proc>>
    BY <1>9 DEF ForkFails, At, ForkRefused
  <2>2. CASE NextTest
    <3>1. test' = 2
      BY <2>2 DEF NextTest, Tests
    <3> QED
      BY <1>0, <2>1, <3>1, LaterTest
  <2>3. CASE To(Parent, "stopped") /\ UNCHANGED test
    BY <1>0, <2>1, <2>3, WalkStep DEF Walks
  <2> QED
    BY <2>1, <2>2, <2>3 DEF Fatal
<1> QED
  BY <1>1, <1>2, <1>3, <1>4, <1>5, <1>6, <1>7, <1>8, <1>9 DEF ParentRuns, ParentFails

\* The steps of the counting child, the only one that runs in the first test.
LEMMA EarlyChild ==
  ASSUME IInv, TInv, test = 1, NEW c \in Kids, Runs(c) \/ Fails(c)
  PROVE  TInv'
<1>0. /\ proc[c] = "running" /\ c = "counter" /\ c \in Kids \cup {Parent} /\ c # Parent
      /\ c \in Players /\ Parent \in Players
      /\ DOMAIN mem = Words /\ DOMAIN curr = Kids \cup {Parent} /\ UNCHANGED test
      /\ \A d \in Kids \ {"counter"} : proc[d] # "running"
  <2>1. proc[c] = "running"
    BY DEF Runs, Fails, Kill, Throw, Ends
  <2>2. Runs(c) => UNCHANGED test
    BY <2>1 DEF Runs, Open, Counter, Goes, Load, CounterActs, Looks, Return, Changer, Holder,
                Waiter, Poster, TInv
  <2> QED
    BY <2>1, <2>2, CountsAssumption DEF TInv, Fails, Players
<1>1. ASSUME NEW label, To(c, label), label # "act", UNCHANGED <<curr, test, proc>>,
             DOMAIN mem' = Words, mem'[0] = mem[0]
      PROVE  TInv'
  BY <1>0, <1>1, WalkStep
<1>2. CASE Open(c)
  <2>1. To(c, "construct") /\ UNCHANGED <<mem, curr, proc>>
    BY <1>0, <1>2 DEF Open, Begin, forkVars
  <2> QED
    BY <1>0, <1>1, <2>1
<1>3. CASE Counter(c)
  <2>1. CASE Goes(c, "construct", "load") /\ Store("basic_shared_mem", "child_counter", 0)
               /\ UNCHANGED curr
    <3>1. DOMAIN mem' = Words /\ mem'[0] = mem[0]
      BY <1>0, <2>1, CounterWords DEF Store
    <3> QED
      BY <1>0, <1>1, <2>1, <3>1 DEF Goes, forkVars
  <2>2. CASE Load(c, "expect")
    BY <1>0, <2>2, LoadStep
  <2>3. CASE CounterActs(c)
    <3>1. mem' = [Exchange(c) EXCEPT ![1] = AtMostN(@ + 1)]
      BY <2>3, CounterWords DEF CounterActs
    <3>2. DOMAIN Exchange(c) = Words
      BY <1>0, ExchangeTurn DEF TInv
    <3>3. DOMAIN mem' = Words /\ mem'[0] = Exchange(c)[0]
      BY <3>1, <3>2
    <3> QED
      BY <1>0, <2>3, <3>3, ActStep DEF CounterActs, forkVars
  <2>4. ASSUME NEW result, Return(c, result)
        PROVE  TInv'
    <3>1. /\ To(c, "returned") /\ UNCHANGED <<mem, curr>>
          /\ proc' = [proc EXCEPT ![c] = "zombie"]
      BY <2>4 DEF Return, Exit, Ends
    <3>2. \A d \in Kids \ {"counter"} : proc'[d] # "running"
      BY <1>0, <3>1 DEF IInv, Shaped
    <3> QED
      BY <1>0, <3>1, <3>2, WalkStep
  <2>5. ASSUME NEW name, NEW holds, Looks(c, name, holds)
        PROVE  TInv'
    <3>1. To(c, "return") /\ UNCHANGED <<mem, curr, test, proc>>
      BY <2>5 DEF Looks, forkVars
    <3> QED
      BY <1>0, <1>1, <3>1
  <2> QED
    BY <1>3, <2>1, <2>2, <2>3, <2>4, <2>5 DEF Counter
<1>4. CASE Fails(c)
  <2>1. /\ To(c, "failed") /\ UNCHANGED <<mem, curr>>
        /\ proc' = [proc EXCEPT ![c] = "zombie"]
    BY <1>4 DEF Fails, Kill, Throw, Ends
  <2>2. \A d \in Kids \ {"counter"} : proc'[d] # "running"
    BY <1>0, <2>1 DEF IInv, Shaped
  <2> QED
    BY <1>0, <2>1, <2>2, WalkStep
<1> QED
  BY <1>0, <1>2, <1>3, <1>4 DEF Runs

\* No step changes which words and which local values there are, and a step may
\* end a test but never goes back to an earlier one.
LEMMA Keeps ==
  ASSUME Next
  PROVE  /\ DOMAIN mem' = DOMAIN mem \/ DOMAIN mem' = Words
         /\ DOMAIN curr' = DOMAIN curr /\ test' \in {test, test + 1}
<1> DEFINE Kept == /\ DOMAIN mem' = DOMAIN mem \/ DOMAIN mem' = Words
                   /\ DOMAIN curr' = DOMAIN curr /\ test' \in {test, test + 1}
<1>1. ASSUME NEW p, NEW after, Load(p, after) PROVE Kept
  BY <1>1 DEF Load, Local
<1>2. ASSUME NEW t, NEW decl, NEW x, Store(t, decl, x) PROVE DOMAIN mem' = DOMAIN mem
  BY <1>2 DEF Store
<1>3. ASSUME NEW p PROVE DOMAIN Exchange(p) = DOMAIN mem
  BY DEF Exchange
<1>4. CASE ParentRuns
  <2>1. CASE Construct \/ ParentActs \/ Spin \/ Lock \/ Unlock
    BY <1>2, <1>3, <2>1 DEF Construct, ParentActs, Spin, Lock, Unlock
  <2>2. CASE Check
    BY <2>2 DEF Check, NextTest
  <2>3. ASSUME NEW i, ForkChild(i) \/ JoinNothing(i) PROVE Kept
    BY <2>3 DEF ForkChild, JoinNothing
  <2>4. ASSUME NEW i, JoinChild(i) PROVE Kept
    BY <2>4 DEF JoinChild, Answered, Fatal, NextTest
  <2> QED
    BY <1>1, <1>4, <2>1, <2>2, <2>3, <2>4 DEF ParentRuns
<1>5. CASE ParentFails
  <2>1. ASSUME NEW i, ForkFails(i) PROVE Kept
    BY <2>1 DEF ForkFails, Fatal, NextTest
  <2>2. ASSUME NEW i, JoinFails(i) PROVE Kept
    BY <2>2 DEF JoinFails, Answered, Fatal, NextTest
  <2> QED
    BY <1>5, <2>1, <2>2 DEF ParentFails
<1>6. ASSUME NEW c, Fails(c) PROVE Kept
  BY <1>6 DEF Fails
<1>7. ASSUME NEW c, Runs(c) PROVE Kept
  <2>1. CASE Open(c)
    BY <2>1 DEF Open
  <2>2. ASSUME NEW result, Return(c, result) PROVE Kept
    BY <2>2 DEF Return
  <2>3. ASSUME NEW from, NEW to, Goes(c, from, to), DOMAIN mem' = DOMAIN mem,
               UNCHANGED curr \/ \E x : Local(c, x)
        PROVE  Kept
    BY <2>3 DEF Goes, Local
  <2>9. ASSUME NEW name, NEW holds, Looks(c, name, holds) PROVE Kept
    BY <2>9 DEF Looks
  <2>4. CASE Counter(c)
    <3>1. CASE CounterActs(c)
      BY <1>3, <3>1 DEF CounterActs
    <3> QED
      BY <1>1, <1>2, <2>2, <2>3, <2>4, <2>9, <3>1 DEF Counter
  <2>5. CASE Changer(c)
    BY <1>2, <2>2, <2>5 DEF Changer, Local
  <2>6. CASE Holder(c)
    BY <1>2, <2>2, <2>3, <2>6 DEF Holder
  <2>7. CASE Waiter(c)
    BY <1>2, <2>2, <2>3, <2>7, <2>9 DEF Waiter, Post, Wait
  <2>8. CASE Poster(c)
    BY <1>2, <2>2, <2>3, <2>8 DEF Poster, Post, Wait
  <2> QED
    BY <1>7, <2>1, <2>4, <2>5, <2>6, <2>7, <2>8 DEF Runs
<1> QED
  BY <1>4, <1>5, <1>6, <1>7 DEF Next

LEMMA TurnsStep == IInv /\ TInv /\ [Next]_vars => TInv'
<1> SUFFICES ASSUME IInv, TInv, [Next]_vars PROVE TInv'
  OBVIOUS
<1>1. CASE UNCHANGED vars
  BY <1>1 DEF vars, forkVars, TInv, number
<1>2. CASE Next /\ test = 1
  BY <1>2, EarlyParent, EarlyChild DEF Next
<1>3. CASE Next /\ test # 1
  <2>1. test' \in Nat \ {0, 1}
    BY <1>3, Keeps DEF TInv
  <2> QED
    BY <1>3, <2>1, Keeps, LaterTest DEF TInv
<1> QED
  BY <1>1, <1>2, <1>3

\* Whoever is about to move the number in its own turn moves the number it has
\* read: nobody, the other process or a child of another test, comes between.
THEOREM TakesTurnsHolds == Spec => []TakesTurns
<1>1. Init => TInv
  BY CountsAssumption DEF Init, ForkInit, TInv, Players, number, Words
<1>2. IInv /\ TInv /\ [Next]_vars => TInv'
  BY TurnsStep
<1>3. TInv => TakesTurns
  BY CounterWords DEF TInv, TakesTurns, Players, ref, number
<1> QED
  BY <1>1, <1>2, <1>3, Start, Steps, PTL DEF Spec

-------------------------------------------------------------------------------
(* the expectations of the tests *)

KidsOf == <<{"counter"}, {"filler"}, {"holder"}, {"changer"}, {"waiter", "poster"}>>
Six == UNION {KidsOf[n] : n \in 1 .. 5}

\* No fault in this test, and no child of an earlier one about.
Calm == test \notin faulted /\ \A c \in Kids : ~Stray(c, test)

Excused(f) ==
  \/ f[2] \in {"child_spins", "parent_spins"}
  \/ f = <<1, "joined">> /\ returned["counter"] = "false"
  \/ f[1] \in faulted
  \/ \E c \in Kids : Stray(c, f[1])

\* Where the parent can be in each test.
Stops == {"construct", "fork", "join", "check", "stopped", "undefined", "done"}
Labels == <<Stops \cup {"load", "act"}, Stops, Stops \cup {"spin", "lock", "unlock"}, Stops,
            Stops \cup {"fork2", "join2"}>>

\* The life of a child: it is started in its own test, after the construction of
\* what it works on, and when it has failed there was a fault.
Lives(c) ==
  /\ proc[c] \in {"none", "running", "zombie", "gone"}
  /\ proc[c] = "none" <=> pc[c] = "none"
  /\ pc[c] \in {"none", "open"} => curr[c] = 0
  /\ pc[c] \in {"returned", "failed"} => proc[c] \in {"zombie", "gone"}
  /\ proc[c] # "none" =>
       c \in Six /\ TestOf(c) <= test /\ (TestOf(c) = test => pc[Parent] # "construct")
  /\ pc[c] = "failed" /\ TestOf(c) = test => test \in faulted

Fresh == {"none", "open", "change"}
Past == {"return", "returned"}

\* What the words of each test tell of its processes.
Counting ==
  /\ mem[0] \in 0 .. N
  /\ \A p \in Players : pc[p] = "act" => curr[p] < N
  /\ pc[Parent] \in {"join", "check"} => mem[0] = N
Filling ==
  /\ pc["filler"] = "change" => curr["filler"] \in 0 .. 3
  /\ pc[Parent] # "construct" /\ pc["filler"] \in Fresh =>
       (curr["filler"] = 0 => mem[0] = 1)
  /\ pc["filler"] \in Past => mem[0] = 4
Holding ==
  /\ pc[Parent] # "construct" /\ mem[0] # 0 => pc["holder"] \in {"sleep", "unlock"} \cup Past
  /\ pc["holder"] \in {"tell", "sleep", "unlock"} => mem[1] = 1
  /\ pc["holder"] \in {"unlock"} \cup Past => curr["holder"] = 1
  /\ pc[Parent] \in {"lock", "unlock"} => mem[0] # 0
  /\ pc[Parent] = "unlock" => pc["holder"] \in Past
Changing ==
  /\ pc["changer"] = "change" => curr["changer"] \in 0 .. 8
  /\ pc["changer"] \in Past => curr["changer"] = 9
  /\ pc[Parent] # "construct" /\ pc["changer"] \in Fresh =>
       /\ curr["changer"] = 0 => mem[0] = 1
       /\ curr["changer"] <= 2 => mem[1] = 1
       /\ curr["changer"] <= 6 => mem[3] = 1
  /\ pc["changer"] \in {"change"} \cup Past =>
       /\ curr["changer"] >= 2 => mem[0] = 2
       /\ curr["changer"] >= 6 => mem[1] = 4
       /\ curr["changer"] >= 8 => mem[3] = 2
       /\ curr["changer"] >= 9 => mem[2] = 2
Posting ==
  /\ pc[Parent] # "construct" => mem[0] \in Int /\ (mem[0] > 0 => mem[2] = 2)
  /\ pc["waiter"] \in {"expect"} \cup Past => mem[2] = 2
  /\ pc["poster"] \in {"post"} \cup Past => mem[2] = 2
Facts ==
  /\ test = 1 => Counting
  /\ test = 2 => Filling
  /\ test = 3 => Holding
  /\ test = 4 => Changing
  /\ test = 5 => Posting

Joins ==
  /\ pc[Parent] = "check" => \A c \in KidsOf[test] : pc[c] = "returned"
  /\ pc[Parent] = "join2" => pc["waiter"] = "returned"

\* A child that its test has left behind was left by a fault, also when the test is
\* about to end.
Settled ==
  /\ StraysFromFaults
  /\ pc[Parent] = "check" /\ test < 5 =>
       \A c \in KidsOf[test] : proc[c] = "gone" \/ test \in faulted

Orderly ==
  /\ test \in 1 .. 5 /\ faulted \subseteq 1 .. test
  /\ pc[Parent] \in Labels[test]
  /\ \A c \in Kids : Lives(c)

\* The inductive invariant: every child lives in its test unless a fault left it behind,
\* each failure has its excuse, and in a calm test the words are as its processes left
\* them.
EInv ==
  /\ Orderly /\ Settled
  /\ \A f \in failed : f[1] \in 1 .. test /\ Excused(f)
  /\ Calm => Facts /\ Joins

LEMMA Scripts ==
  /\ DOMAIN Tests = 1 .. 5 /\ Len(Tests) = 5
  /\ Children[Tests[1]] = <<"counter">> /\ Children[Tests[2]] = <<"filler">>
  /\ Children[Tests[3]] = <<"holder">> /\ Children[Tests[4]] = <<"changer">>
  /\ Children[Tests[5]] = <<"waiter", "poster">>
BY DEF Tests, Children

\* Each child has its test.
LEMMA Belongs ==
  /\ TestOf("counter") = 1 /\ TestOf("filler") = 2 /\ TestOf("holder") = 3
  /\ TestOf("changer") = 4 /\ TestOf("waiter") = 5 /\ TestOf("poster") = 5
<1> DEFINE Has(n, c) == \E i \in DOMAIN Children[Tests[n]] : Children[Tests[n]][i] = c
<1>1. \A n \in 1 .. 5 : \A c : Has(n, c) <=> c \in KidsOf[n]
  <2>1. ASSUME NEW c PROVE /\ Has(1, c) <=> c = "counter"
                           /\ Has(2, c) <=> c = "filler"
                           /\ Has(3, c) <=> c = "holder"
                           /\ Has(4, c) <=> c = "changer"
    BY Scripts
  <2>2. ASSUME NEW c PROVE Has(5, c) <=> c \in {"waiter", "poster"}
    BY Scripts
  <2> HIDE DEF Has
  <2>3. ASSUME NEW c, NEW n \in 1 .. 5 PROVE Has(n, c) <=> c \in KidsOf[n]
    <3>1. n = 1 \/ n = 2 \/ n = 3 \/ n = 4 \/ n = 5
      OBVIOUS
    <3> QED
      BY <2>1, <2>2, <3>1 DEF KidsOf
  <2> QED
    BY <2>3
<1>2. ASSUME NEW c PROVE TestOf(c) = CHOOSE n \in 1 .. 5 : Has(n, c)
  BY Scripts DEF TestOf
<1> HIDE DEF Has
<1>3. ASSUME NEW c, NEW n \in 1 .. 5, c \in KidsOf[n], \A m \in 1 .. 5 : c \in KidsOf[m] => m = n
      PROVE  TestOf(c) = n
  BY <1>1, <1>2, <1>3
<1>4. /\ KidsOf[1] = {"counter"} /\ KidsOf[2] = {"filler"} /\ KidsOf[3] = {"holder"}
      /\ KidsOf[4] = {"changer"} /\ KidsOf[5] = {"waiter", "poster"}
      /\ \A n \in 1 .. 5 : n = 1 \/ n = 2 \/ n = 3 \/ n = 4 \/ n = 5
  BY DEF KidsOf
<1> QED
  BY <1>3, <1>4

LEMMA Kinds ==
  /\ Six = {"counter", "filler", "holder", "changer", "waiter", "poster"}
  /\ Six \subseteq Kids /\ Parent \notin Six /\ \A c \in Six : TestOf(c) \in 1 .. 5
  /\ \A n \in 1 .. 5 : \A c : c \in KidsOf[n] <=> c \in Six /\ TestOf(c) = n
<1>1. /\ KidsOf[1] = {"counter"} /\ KidsOf[2] = {"filler"} /\ KidsOf[3] = {"holder"}
      /\ KidsOf[4] = {"changer"} /\ KidsOf[5] = {"waiter", "poster"}
      /\ \A n \in 1 .. 5 : n = 1 \/ n = 2 \/ n = 3 \/ n = 4 \/ n = 5
  BY DEF KidsOf
<1>2. Six = {"counter", "filler", "holder", "changer", "waiter", "poster"}
  <2>1. Six = KidsOf[1] \cup KidsOf[2] \cup KidsOf[3] \cup KidsOf[4] \cup KidsOf[5]
    <3>1. \A c : c \in Six <=> \E n \in 1 .. 5 : c \in KidsOf[n]
      BY DEF Six
    <3> QED
      BY <1>1, <3>1
  <2> QED
    BY <1>1, <2>1
<1> QED
  BY <1>1, <1>2, Belongs, CountsAssumption

\* The i-th child of the current test, and what the parent does behind it.
LEMMA Casting ==
  ASSUME test \in 1 .. 5, NEW i \in {1, 2}, i <= Len(Children[Current])
  PROVE  /\ Children[Current][i] \in KidsOf[test] /\ Children[Current][i] \in Six
         /\ TestOf(Children[Current][i]) = test
         /\ test \in 1 .. 4 => i = 1 /\ \A again, after : Then(i, again, after) = after
         /\ test = 5 => /\ i = 1 => Children[Current][i] = "waiter"
                        /\ i = 2 => Children[Current][i] = "poster"
                        /\ \A again, after : Then(i, again, after) = IF i = 1 THEN again ELSE after
<1>1. test = 1 \/ test = 2 \/ test = 3 \/ test = 4 \/ test = 5
  OBVIOUS
<1>2. /\ Len(Children[Tests[1]]) = 1 /\ Len(Children[Tests[2]]) = 1
      /\ Len(Children[Tests[3]]) = 1 /\ Len(Children[Tests[4]]) = 1
  BY Scripts
<1>3. Len(Children[Tests[5]]) = 2
  BY Scripts
<1>4. Children[Current][i] \in KidsOf[test]
  BY <1>1, <1>2, <1>3, Scripts DEF Current, KidsOf
<1> DEFINE many == Len(Children[Current])
<1>5. (test \in 1 .. 4 => many = 1) /\ (test = 5 => many = 2)
  BY <1>1, <1>2, <1>3 DEF Current
<1>6. i <= many /\ \A again, after : Then(i, again, after) = IF i < many THEN again ELSE after
  BY DEF Then
<1> HIDE DEF many
<1>7. test = 5 => /\ i = 1 => Children[Current][i] = "waiter"
                  /\ i = 2 => Children[Current][i] = "poster"
  BY Scripts DEF Current
<1>8. /\ test \in 1 .. 4 => i = 1 /\ ~(i < many)
      /\ test = 5 => (i < many <=> i = 1)
  BY <1>5, <1>6
<1> QED
  BY <1>4, <1>6, <1>7, <1>8, Kinds

\* An object lies behind the ones that are declared before it.
LEMMA Behind ==
  ASSUME NEW t, NEW n \in 1 .. 4, Len(decls[t]) = n, DOMAIN decls[t] = 1 .. n,
         NEW i \in 1 .. n, NEW decl, decls[t][i] = decl,
         \A j \in 1 .. n : decls[t][j] = decl => j = i
  PROVE  offset(t, decl) = i - 1
<1> DEFINE Follows(f) == f = [k \in 0 .. Len(decls[t]) |->
                            IF k = 0 THEN 0 ELSE end_offset_of(f[k - 1])]
           end == CHOOSE f : Follows(f)
           place == CHOOSE j \in DOMAIN decls[t] : decls[t][j] = decl
<1>1. place = i
  OBVIOUS
<1>2. \E f : Follows(f)
  <2>1. Follows([k \in 0 .. n |-> k])
    BY DEF end_offset_of
  <2> QED
    BY <2>1
<1>3. Follows(end)
  BY <1>2
<1>4. offset(t, decl) = end[place - 1]
  BY DEF offset
<1>5. \A k \in 0 .. n : end[k] = IF k = 0 THEN 0 ELSE end_offset_of(end[k - 1])
  BY <1>3
<1> HIDE DEF Follows, end, place
<1>6. end[0] = 0
  <2>1. 0 \in 0 .. n
    OBVIOUS
  <2> QED
    BY <1>5, <2>1
<1>7. ASSUME NEW k, NEW m, m \in 0 .. 2, k = m + 1, k <= n, end[m] = m
      PROVE  end[k] = k
  <2>1. k \in 0 .. n /\ k # 0 /\ k - 1 = m
    BY <1>7
  <2> QED
    BY <1>5, <1>7, <2>1 DEF end_offset_of
<1>8. 1 = 0 + 1 /\ 2 = 1 + 1 /\ 3 = 2 + 1
  OBVIOUS
<1>9. 1 <= n => end[1] = 1
  BY <1>6, <1>7, <1>8, 0 \in 0 .. 2
<1>10. 2 <= n => end[2] = 2
  BY <1>7, <1>8, <1>9, 1 \in 0 .. 2, 2 <= n => 1 <= n
<1>11. 3 <= n => end[3] = 3
  BY <1>7, <1>8, <1>10, 2 \in 0 .. 2, 3 <= n => 2 <= n
<1>12. i = 1 \/ i = 2 \/ i = 3 \/ i = 4
  OBVIOUS
<1> QED
  BY <1>1, <1>4, <1>6, <1>9, <1>10, <1>11, <1>12

\* The words of the tests.
LEMMA Offsets ==
  /\ offset("complex_objects", "vector") = 0
  /\ offset("atomic_mutex", "semaphore") = 0 /\ offset("atomic_mutex", "mutex") = 1
  /\ offset("multiple_data", "foo") = 0 /\ offset("multiple_data", "vector") = 1
  /\ offset("multiple_data", "ref") = 2 /\ offset("multiple_data", "message") = 3
  /\ offset("semaphore", "semaphore") = 0 /\ offset("semaphore", "semaphore2") = 1
  /\ offset("semaphore", "integer") = 2
<1>1. offset("complex_objects", "vector") = 0
  <2>1. decls["complex_objects"] = <<"vector">>
    BY DEF decls
  <2>2. /\ Len(decls["complex_objects"]) = 1 /\ DOMAIN decls["complex_objects"] = 1 .. 1
        /\ decls["complex_objects"][1] = "vector"
    BY <2>1
  <2>3. offset("complex_objects", "vector") = 1 - 1
    BY <2>2, 1 \in 1 .. 4, 1 \in 1 .. 1, Behind
  <2> QED
    BY <2>3
<1>2. /\ offset("atomic_mutex", "semaphore") = 0
      /\ offset("atomic_mutex", "mutex") = 1
  <2>1. decls["atomic_mutex"] = <<"semaphore", "mutex">>
    BY DEF decls
  <2>2. /\ Len(decls["atomic_mutex"]) = 2 /\ DOMAIN decls["atomic_mutex"] = 1 .. 2
        /\ decls["atomic_mutex"][1] = "semaphore"
        /\ decls["atomic_mutex"][2] = "mutex"
    BY <2>1
  <2>3. offset("atomic_mutex", "semaphore") = 1 - 1
    BY <2>2, 2 \in 1 .. 4, 1 \in 1 .. 2, Behind
  <2>4. offset("atomic_mutex", "mutex") = 2 - 1
    BY <2>2, 2 \in 1 .. 4, 2 \in 1 .. 2, Behind
  <2> QED
    BY <2>3, <2>4
<1>3. /\ offset("multiple_data", "foo") = 0
      /\ offset("multiple_data", "vector") = 1
      /\ offset("multiple_data", "ref") = 2
      /\ offset("multiple_data", "message") = 3
  <2>1. decls["multiple_data"] = <<"foo", "vector", "ref", "message">>
    BY DEF decls
  <2>2. /\ Len(decls["multiple_data"]) = 4 /\ DOMAIN decls["multiple_data"] = 1 .. 4
        /\ decls["multiple_data"][1] = "foo"
        /\ decls["multiple_data"][2] = "vector"
        /\ decls["multiple_data"][3] = "ref"
        /\ decls["multiple_data"][4] = "message"
    BY <2>1
  <2>3. offset("multiple_data", "foo") = 1 - 1
    BY <2>2, 4 \in 1 .. 4, 1 \in 1 .. 4, Behind
  <2>4. offset("multiple_data", "vector") = 2 - 1
    BY <2>2, 4 \in 1 .. 4, 2 \in 1 .. 4, Behind
  <2>5. offset("multiple_data", "ref") = 3 - 1
    BY <2>2, 4 \in 1 .. 4, 3 \in 1 .. 4, Behind
  <2>6. offset("multiple_data", "message") = 4 - 1
    BY <2>2, 4 \in 1 .. 4, 4 \in 1 .. 4, Behind
  <2> QED
    BY <2>3, <2>4, <2>5, <2>6
<1>4. /\ offset("semaphore", "semaphore") = 0
      /\ offset("semaphore", "semaphore2") = 1
      /\ offset("semaphore", "integer") = 2
  <2>1. decls["semaphore"] = <<"semaphore", "semaphore2", "integer">>
    BY DEF decls
  <2>2. /\ Len(decls["semaphore"]) = 3 /\ DOMAIN decls["semaphore"] = 1 .. 3
        /\ decls["semaphore"][1] = "semaphore"
        /\ decls["semaphore"][2] = "semaphore2"
        /\ decls["semaphore"][3] = "integer"
    BY <2>1
  <2>3. offset("semaphore", "semaphore") = 1 - 1
    BY <2>2, 3 \in 1 .. 4, 1 \in 1 .. 3, Behind
  <2>4. offset("semaphore", "semaphore2") = 2 - 1
    BY <2>2, 3 \in 1 .. 4, 2 \in 1 .. 3, Behind
  <2>5. offset("semaphore", "integer") = 3 - 1
    BY <2>2, 3 \in 1 .. 4, 3 \in 1 .. 3, Behind
  <2> QED
    BY <2>3, <2>4, <2>5
<1> QED
  BY <1>1, <1>2, <1>3, <1>4

\* What every step keeps: faults are remembered, a test is never taken up again,
\* and only the current test waits for its children.
Onward ==
  /\ test' \in {test, test + 1} /\ faulted \subseteq faulted'
  /\ returned["counter"] = "false" => returned'["counter"] = "false"
  /\ \A c \in Kids : proc[c] \notin {"none", "gone"} /\ proc'[c] \in {"none", "gone"} =>
                       TestOf(c) = test

\* An excuse remains one.
LEMMA ExcuseStays ==
  ASSUME Orderly, Onward, NEW f, f[1] \in 1 .. test, Excused(f)
  PROVE  Excused(f)'
<1>1. ASSUME NEW c \in Kids, TestOf(c) < f[1], proc[c] \notin {"none", "gone"}
      PROVE  proc'[c] \notin {"none", "gone"}
  <2>1. f[1] \in Nat /\ test \in Nat /\ f[1] <= test
    BY DEF Orderly
  <2>2. TestOf(c) \in Nat
    BY <1>1, Kinds DEF Orderly, Lives
  <2>3. TestOf(c) # test
    BY <1>1, <2>1, <2>2
  <2> QED
    BY <1>1, <2>3 DEF Onward
<1> QED
  BY <1>1 DEF Excused, Stray, Onward

\* In a test that is not calm everything is excused.
LEMMA Uncalm ==
  ASSUME Orderly, Onward, ~Calm, NEW f, NEW name, f = <<test, name>>
  PROVE  Excused(f)'
<1>1. f[1] = test
  OBVIOUS
<1>2. Excused(f)
  BY <1>1 DEF Calm, Excused
<1>3. f[1] \in 1 .. test
  BY <1>1 DEF Orderly
<1> QED
  BY <1>2, <1>3, ExcuseStays

\* Once a test is not calm any more it stays so.
LEMMA CalmBefore ==
  ASSUME Orderly, Onward, test' = test, Calm'
  PROVE  Calm
<1>1. test \notin faulted
  BY DEF Onward, Calm
<1>2. ASSUME NEW c \in Kids, Stray(c, test) PROVE FALSE
  <2>1. TestOf(c) < test /\ proc[c] \notin {"none", "gone"}
    BY <1>2 DEF Stray
  <2>2. TestOf(c) \in Nat /\ test \in Nat
    BY <2>1, Kinds DEF Orderly, Lives
  <2>3. proc'[c] \notin {"none", "gone"}
    BY <2>1, <2>2 DEF Onward
  <2> QED
    BY <1>2, <2>1, <2>3 DEF Calm, Stray
<1> QED
  BY <1>1, <1>2 DEF Calm

\* The failures after a step: the earlier ones, and those that have an excuse.
LEMMA FailedStep ==
  ASSUME EInv, Onward,
         \A f \in failed' : f \in failed \/ \E name : f = <<test, name>> /\ Excused(f)'
  PROVE  \A f \in failed' : f[1] \in 1 .. test' /\ Excused(f)'
<1>1. test \in Nat \ {0} /\ test' \in Nat /\ test <= test'
  BY DEF EInv, Orderly, Onward
<1>2. ASSUME NEW f \in failed, f \in failed' PROVE f[1] \in 1 .. test' /\ Excused(f)'
  <2>1. f[1] \in 1 .. test /\ Excused(f)
    BY DEF EInv
  <2> QED
    BY <1>1, <2>1, ExcuseStays DEF EInv
<1>3. ASSUME NEW f \in failed', NEW name, f = <<test, name>> PROVE f[1] \in 1 .. test'
  BY <1>1, <1>3
<1>4. ASSUME NEW f \in failed', f \notin failed PROVE f[1] \in 1 .. test' /\ Excused(f)'
  <2>1. PICK name : f = <<test, name>> /\ Excused(f)'
    BY <1>4
  <2> QED
    BY <1>3, <2>1
<1> QED
  BY <1>2, <1>4

\* A child moves, and ends its life when it returns or fails.
Moves(c, label) ==
  /\ proc[c] = "running" /\ To(c, label) /\ label \notin {"none", "open"} /\ UNCHANGED test
  /\ \A d \in Kids \ {c} : curr'[d] = curr[d] /\ returned'[d] = returned[d]
  /\ IF label \in {"returned", "failed"} THEN proc' = [proc EXCEPT ![c] = "zombie"]
                                         ELSE UNCHANGED proc
  /\ faulted' = IF label = "failed" THEN faulted \cup {test} ELSE faulted

LEMMA MovesStep ==
  ASSUME IInv, Orderly, NEW c \in Kids, NEW label, Moves(c, label)
  PROVE  Orderly' /\ Onward
<1>1. /\ pc'[c] = label /\ \A d \in Kids \cup {Parent} : d # c => pc'[d] = pc[d]
      /\ c # Parent /\ c \in Kids \cup {Parent}
  BY CountsAssumption DEF IInv, Shaped, To, Moves
<1>2. /\ proc'[c] = IF label \in {"returned", "failed"} THEN "zombie" ELSE "running"
      /\ \A d \in Kids : d # c => proc'[d] = proc[d]
  BY DEF IInv, Shaped, Moves
<1>3. /\ test' = test /\ faulted \subseteq faulted' /\ faulted' \subseteq faulted \cup {test}
      /\ label = "failed" => test \in faulted'
      /\ label \notin {"none", "open"} /\ proc[c] = "running"
      /\ \A d \in Kids : d # c => curr'[d] = curr[d] /\ returned'[d] = returned[d]
  BY DEF Moves
<1>4. Lives(c)'
  BY <1>1, <1>2, <1>3 DEF Orderly, Lives
<1>5. ASSUME NEW d \in Kids, d # c PROVE Lives(d)'
  <2>1. /\ proc'[d] = proc[d] /\ pc'[d] = pc[d] /\ curr'[d] = curr[d]
        /\ pc'[Parent] = pc[Parent] /\ Lives(d)
    BY <1>1, <1>2, <1>3, <1>5 DEF Orderly
  <2> QED
    BY <1>3, <2>1 DEF Lives
<1>6. test' \in 1 .. 5 /\ faulted' \subseteq 1 .. test' /\ pc'[Parent] \in Labels[test']
  BY <1>1, <1>3 DEF Orderly
<1>7. Onward
  <2>1. "counter" \in Kids /\ (returned["counter"] = "false" => c # "counter")
    BY <1>3, CountsAssumption DEF IInv, Told
  <2>2. returned["counter"] = "false" => returned'["counter"] = "false"
    BY <1>3, <2>1
  <2> QED
    BY <1>2, <1>3, <2>2 DEF Onward
<1> QED
  BY <1>4, <1>5, <1>6, <1>7 DEF Orderly

\* The parent goes on in its test or to the next one; it may have taken a child of
\* its test that has ended.
GoesOn(label) ==
  /\ To(Parent, label) /\ UNCHANGED returned /\ \A d \in Kids : curr'[d] = curr[d]
  /\ faulted' \in {faulted, faulted \cup {test}}
  /\ \/ UNCHANGED proc
     \/ \E c \in Kids : /\ TestOf(c) = test /\ proc[c] = "zombie"
                        /\ proc' = [proc EXCEPT ![c] = "gone"]
  /\ IF test' = test THEN label \in Labels[test] \ {"construct"}
                     ELSE test < 5 /\ test' = test + 1 /\ label = "construct"

LEMMA GoesOnStep ==
  ASSUME IInv, Orderly, NEW label, GoesOn(label)
  PROVE  Orderly' /\ Onward
<1>1. pc'[Parent] = label /\ \A d \in Kids : pc'[d] = pc[d]
  BY CountsAssumption DEF IInv, Shaped, To, GoesOn
<1>2. /\ test \in 1 .. 5 /\ test' \in 1 .. 5 /\ test' \in {test, test + 1}
      /\ label = "construct" => test' = test + 1
      /\ label \in Labels[test']
  <2>1. "construct" \in Labels[1] /\ "construct" \in Labels[2] /\ "construct" \in Labels[3]
        /\ "construct" \in Labels[4] /\ "construct" \in Labels[5]
    BY DEF Labels, Stops
  <2>2. \A n \in 1 .. 5 : n = 1 \/ n = 2 \/ n = 3 \/ n = 4 \/ n = 5
    OBVIOUS
  <2>3. test \in 1 .. 5 /\ test' \in 1 .. 5 /\ test' \in {test, test + 1}
    BY DEF GoesOn, Orderly
  <2>4. "construct" \in Labels[test']
    BY <2>1, <2>2, <2>3
  <2> QED
    BY <2>3, <2>4 DEF GoesOn
<1>3. /\ faulted \subseteq faulted' /\ faulted' \subseteq faulted \cup {test}
      /\ \A d \in Kids : curr'[d] = curr[d]
  BY DEF GoesOn
<1>4. \A d \in Kids : \/ proc'[d] = proc[d]
                      \/ proc[d] = "zombie" /\ proc'[d] = "gone" /\ TestOf(d) = test
  BY DEF IInv, Shaped, GoesOn
<1>5. ASSUME NEW d \in Kids PROVE Lives(d)'
  <2>1. Lives(d) /\ curr'[d] = curr[d] /\ pc'[d] = pc[d]
    BY <1>1, <1>3 DEF Orderly
  <2>2. proc[d] # "none" => TestOf(d) \in Nat
    BY <2>1, Kinds DEF Lives
  <2>3. proc[d] # "none" =>
          /\ d \in Six /\ TestOf(d) <= test'
          /\ TestOf(d) = test' => test' = test /\ label # "construct"
    BY <1>2, <2>1, <2>2 DEF Lives
  <2>4. pc[d] = "failed" /\ TestOf(d) = test' => test' \in faulted'
    BY <1>3, <2>1, <2>3 DEF Lives
  <2> QED
    BY <1>1, <1>4, <2>1, <2>3, <2>4 DEF Lives
<1>6. faulted' \subseteq 1 .. test'
  BY <1>2, <1>3 DEF Orderly
<1>7. Onward
  <2>1. "counter" \in Kids
    BY CountsAssumption
  <2> QED
    BY <1>1, <1>2, <1>3, <1>4, <2>1 DEF Onward, GoesOn
<1> QED
  BY <1>1, <1>2, <1>5, <1>6, <1>7 DEF Orderly

\* The parent starts a child of its test.
LEMMA StartStep ==
  ASSUME IInv, Orderly, NEW c \in Kids, NEW after, Fork(c), c \in Six, TestOf(c) = test,
         pc' = [pc EXCEPT ![c] = "open", ![Parent] = after],
         after \in Labels[test] \ {"construct"}, UNCHANGED <<test, curr, faulted>>
  PROVE  Orderly' /\ Onward
<1>1. /\ pc'[c] = "open" /\ pc'[Parent] = after /\ \A d \in Kids \ {c} : pc'[d] = pc[d]
  <2>1. /\ DOMAIN pc = Kids \cup {Parent} /\ c # Parent /\ "counter" \in Kids
        /\ c \in DOMAIN pc /\ Parent \in DOMAIN pc
        /\ \A d \in Kids : d # Parent /\ d \in DOMAIN pc
    BY CountsAssumption DEF IInv, Shaped
  <2>2. pc'[c] = "open" /\ pc'[Parent] = after /\ \A d \in Kids \ {c} : pc'[d] = pc[d]
    BY <2>1
  <2> QED
    BY <2>2
<1>2. /\ proc[c] = "none" /\ proc'[c] = "running"
      /\ \A d \in Kids \ {c} : proc'[d] = proc[d]
  BY DEF IInv, Shaped, Fork
<1>3. Lives(c)'
  BY <1>1, <1>2, Kinds DEF Orderly, Lives
<1>4. ASSUME NEW d \in Kids, d # c PROVE Lives(d)'
  BY <1>1, <1>2, <1>4 DEF Orderly, Lives
<1> QED
  BY <1>1, <1>2, <1>3, <1>4 DEF Orderly, Onward, Fork

\* A step of a child moves it, and may add an expectation that has failed.
Finds(c, name, holds) ==
  failed' = failed \cup (IF holds THEN {} ELSE {<<TestOf(c), name>>})

LEMMA RunsMoves ==
  ASSUME IInv, TInv, Orderly, NEW c \in Kids, Runs(c)
  PROVE  /\ \E label : Moves(c, label) /\ label # "failed"
         /\ \/ UNCHANGED failed
            \/ c = "counter" /\ \E holds : Finds(c, "child_spins", holds)
            \/ /\ c = "waiter" /\ pc[c] = "expect"
               /\ Finds(c, "waiter", ref("semaphore", "integer") = 2)
            \/ /\ c \in {"filler", "changer"} /\ pc[c] = "change"
               /\ LET step == Changes[c][curr[c] + 1]
                  IN  /\ step.does = "finds"
                      /\ Finds(c, "found", ref(Tests[TestOf(c)], step.decl) = step.number)
<1> DEFINE Moved == \E label : Moves(c, label) /\ label # "failed"
           Ends3 == {"none", "open", "returned", "failed"}
<1>1. proc[c] = "running" /\ c \in Six /\ c \in Kids \cup {Parent}
  BY DEF Runs, Orderly, Lives
<1>2. ASSUME NEW label, To(c, label), label \notin Ends3, UNCHANGED <<forkVars, test, faulted>>,
             \A d \in Kids \ {c} : curr'[d] = curr[d]
      PROVE  Moved
  <2>1. Moves(c, label)
    BY <1>1, <1>2 DEF Moves, forkVars
  <2> QED
    BY <1>2, <2>1
<1>3. ASSUME NEW result, Return(c, result) PROVE Moved /\ UNCHANGED failed
  <2>1. \A d \in Kids \ {c} : returned'[d] = returned[d]
    BY <1>3 DEF Return, Exit, IInv, Shaped
  <2>2. Moves(c, "returned")
    BY <1>1, <1>3, <2>1 DEF Moves, Return, Exit, Ends
  <2> QED
    BY <1>3, <2>2 DEF Return
<1>4. ASSUME NEW x, Local(c, x) PROVE \A d \in Kids \ {c} : curr'[d] = curr[d]
  BY <1>4 DEF Local, TInv
<1>5. ASSUME NEW from, NEW to, Goes(c, from, to), to \notin Ends3,
             UNCHANGED curr \/ \E x : Local(c, x)
      PROVE  Moved /\ UNCHANGED failed
  BY <1>2, <1>4, <1>5 DEF Goes
<1>6. CASE Open(c)
  <2>1. Begin[c] \notin Ends3
    BY <1>1, Kinds DEF Begin
  <2> QED
    BY <1>2, <1>6, <2>1 DEF Open
<1>7. ASSUME Load(c, "expect") PROVE Moved /\ UNCHANGED failed
  <2>1. PICK label : To(c, label) /\ label \in {"act", "expect"}
    BY <1>7 DEF Load
  <2> QED
    BY <1>2, <1>4, <1>7, <2>1 DEF Load
<1>13. ASSUME NEW name, NEW holds, Looks(c, name, holds)
       PROVE  Moved /\ pc[c] = "expect" /\ Finds(c, name, holds)
  BY <1>2, <1>13 DEF Looks, ChildExpects, Finds
<1>8. CASE c = "counter" /\ Counter(c)
  <2>1. CASE CounterActs(c)
    BY <1>2, <2>1 DEF CounterActs
  <2>2. CASE Goes(c, "construct", "load") /\ UNCHANGED curr
    BY <1>5, <2>2
  <2>3. CASE Looks(c, "child_spins", ref("basic_shared_mem", "child_counter") >= N)
    BY <1>8, <1>13, <2>3
  <2> QED
    BY <1>3, <1>7, <1>8, <2>1, <2>2, <2>3 DEF Counter
<1>9. CASE c \in {"filler", "changer"} /\ Changer(c)
  <2>1. CASE Return(c, TRUE)
    BY <1>3, <2>1
  <2>2. CASE ~Return(c, TRUE)
    <3> DEFINE step == Changes[c][curr[c] + 1]
    <3>1. PICK to \in {"return", "change"} : To(c, to)
      BY <1>9, <2>2 DEF Changer
    <3>2. Local(c, curr[c] + 1) /\ UNCHANGED <<forkVars, test, faulted>> /\ pc[c] = "change"
      BY <1>9, <2>2 DEF Changer
    <3>3. Moved
      BY <1>2, <1>4, <3>1, <3>2
    <3>4. \/ UNCHANGED failed
          \/ /\ step.does = "finds"
             /\ Finds(c, "found", ref(Tests[TestOf(c)], step.decl) = step.number)
      BY <1>9, <2>2 DEF Changer, ChildExpects, Finds
    <3> QED
      BY <1>9, <3>2, <3>3, <3>4
  <2> QED
    BY <2>1, <2>2
<1>10. CASE Holder(c)
  BY <1>3, <1>5, <1>10 DEF Holder
<1>11. CASE c = "waiter" /\ Waiter(c)
  BY <1>3, <1>5, <1>11, <1>13 DEF Waiter
<1>12. CASE Poster(c)
  BY <1>3, <1>5, <1>12 DEF Poster
<1> QED
  BY <1>6, <1>8, <1>9, <1>10, <1>11, <1>12 DEF Runs

\* A child that fails, fails its test.
LEMMA FailsMoves ==
  ASSUME NEW c \in Kids, Fails(c)
  PROVE  Moves(c, "failed") /\ UNCHANGED failed /\ test \in faulted'
BY DEF Fails, Kill, Throw, Ends, Moves

\* The counting child keeps the number within its bounds.
LEMMA CountingRuns ==
  ASSUME IInv, TInv, Orderly, test = 1, Counting, "counter" \in Kids, Runs("counter")
  PROVE  Counting'
<1> DEFINE c == "counter"
<1>1. /\ c # Parent /\ DOMAIN pc = Kids \cup {Parent} /\ DOMAIN curr = Kids \cup {Parent}
      /\ DOMAIN mem = Words /\ curr[c] \in Int /\ mem[0] \in Int /\ N \in Nat
  BY CountsAssumption DEF IInv, Shaped, TInv, Players, number
<1>2. ASSUME NEW label, To(c, label), label # "act", mem'[0] = mem[0], curr'[Parent] = curr[Parent]
      PROVE  Counting'
  <2>1. pc'[c] = label /\ pc'[Parent] = pc[Parent]
    BY <1>1, <1>2 DEF To
  <2> QED
    BY <1>2, <2>1 DEF Counting, Players
<1>3. CASE Open(c)
  BY <1>2, <1>3 DEF Open, Begin
<1>4. CASE Goes(c, "construct", "load") /\ Store("basic_shared_mem", "child_counter", 0)
             /\ UNCHANGED curr
  <2>1. mem'[0] = mem[0]
    BY <1>1, <1>4, CounterWords DEF Store, Words
  <2> QED
    BY <1>2, <1>4, <2>1 DEF Goes
<1>5. CASE Load(c, "expect")
  <2>1. /\ curr'[c] = mem[0] /\ curr'[Parent] = curr[Parent] /\ mem' = mem
        /\ pc'[c] = (IF curr'[c] < N THEN "act" ELSE "expect") /\ pc'[Parent] = pc[Parent]
    BY <1>1, <1>5, CounterWords DEF Load, Local, To, ref
  <2> QED
    BY <2>1 DEF Counting, Players
<1>6. CASE CounterActs(c)
  <2>1. mem' = [Exchange(c) EXCEPT ![1] = AtMostN(@ + 1)]
    BY <1>6, CounterWords DEF CounterActs
  <2>2. DOMAIN Exchange(c) = Words
    BY <1>1, ExchangeTurn DEF number
  <2>3. mem'[0] = Exchange(c)[0]
    BY <2>1, <2>2
  <2>4. mem'[0] = mem[0] \/ (mem[0] = curr[c] /\ mem'[0] = mem[0] + 1)
    BY <1>1, <2>3, ExchangeTurn DEF number
  <2>5. pc[c] = "act" /\ pc'[c] = "load" /\ pc'[Parent] = pc[Parent] /\ curr' = curr
    BY <1>1, <1>6 DEF CounterActs, To
  <2>6. curr[c] < N
    BY <2>5 DEF Counting, Players
  <2>7. mem'[0] \in 0 .. N /\ (mem[0] = N => mem'[0] = N)
    BY <1>1, <2>4, <2>6 DEF Counting
  <2> QED
    BY <2>5, <2>7 DEF Counting, Players
<1>7. ASSUME NEW result, Return(c, result) PROVE Counting'
  BY <1>2, <1>7 DEF Return
<1>8. ASSUME NEW name, NEW holds, Looks(c, name, holds) PROVE Counting'
  BY <1>2, <1>8 DEF Looks
<1> QED
  BY <1>3, <1>4, <1>5, <1>6, <1>7, <1>8 DEF Runs, Counter

\* The lists of the two children that find and set.
LEMMA Todo ==
  /\ \A d, x : finds(d, x).does = "finds" /\ finds(d, x).decl = d /\ finds(d, x).number = x
  /\ \A d, x : sets(d, x).does = "sets" /\ sets(d, x).decl = d /\ sets(d, x).number = x
BY DEF finds, sets

LEMMA VectorTodo ==
  /\ Len(vector_steps) = 4 /\ vector_steps[1] = finds("vector", 1)
  /\ vector_steps[2] = sets("vector", 2) /\ vector_steps[3] = sets("vector", 3)
  /\ vector_steps[4] = sets("vector", 4)
BY DEF vector_steps

LEMMA FillerTodo ==
  /\ Len(Changes["filler"]) = 4 /\ Changes["filler"][1] = finds("vector", 1)
  /\ \A n \in 2 .. 4 : Changes["filler"][n] = sets("vector", n)
<1>1. Changes["filler"] = vector_steps
  BY DEF Changes
<1>2. ASSUME NEW n \in 2 .. 4 PROVE n = 2 \/ n = 3 \/ n = 4
  OBVIOUS
<1> QED
  BY <1>1, <1>2, VectorTodo

LEMMA ChangerTodo ==
  /\ Len(Changes["changer"]) = 9
  /\ Changes["changer"][1] = finds("foo", 1) /\ Changes["changer"][2] = sets("foo", 2)
  /\ Changes["changer"][3] = finds("vector", 1)
  /\ \A n \in {4, 5, 6} : Changes["changer"][n] = sets("vector", n - 2)
  /\ Changes["changer"][7] = finds("message", 1) /\ Changes["changer"][8] = sets("message", 2)
  /\ Changes["changer"][9] = sets("ref", 2)
<1> DEFINE first == <<finds("foo", 1), sets("foo", 2)>>
           last == <<finds("message", 1), sets("message", 2), sets("ref", 2)>>
           S == {finds("foo", 1), finds("vector", 1), finds("message", 1)} \cup
                {sets(d, x) : d \in {"foo", "vector", "message", "ref"}, x \in 2 .. 4}
<1>1. Changes["changer"] = (first \o vector_steps) \o last
  BY DEF Changes
<1>2. /\ finds("foo", 1) \in S /\ finds("vector", 1) \in S /\ finds("message", 1) \in S
      /\ sets("foo", 2) \in S /\ sets("vector", 2) \in S /\ sets("vector", 3) \in S
      /\ sets("vector", 4) \in S /\ sets("message", 2) \in S /\ sets("ref", 2) \in S
  OBVIOUS
<1> HIDE DEF S
<1>3. first \in Seq(S) /\ vector_steps \in Seq(S) /\ last \in Seq(S)
  BY <1>2 DEF vector_steps
<1>4. Len(first) = 2 /\ first[1] = finds("foo", 1) /\ first[2] = sets("foo", 2)
  OBVIOUS
<1>5. /\ Len(last) = 3 /\ last[1] = finds("message", 1) /\ last[2] = sets("message", 2)
      /\ last[3] = sets("ref", 2)
  OBVIOUS
<1> HIDE DEF first, last
<1>0. ASSUME NEW s \in Seq(S), NEW t \in Seq(S)
      PROVE  /\ s \o t \in Seq(S) /\ Len(s \o t) = Len(s) + Len(t)
             /\ \A n \in 1 .. Len(s) + Len(t) :
                  (s \o t)[n] = IF n <= Len(s) THEN s[n] ELSE t[n - Len(s)]
  OBVIOUS
<1> DEFINE start == first \o vector_steps
           all == start \o last
<1>6. /\ start \in Seq(S) /\ Len(start) = Len(first) + Len(vector_steps)
      /\ \A n \in 1 .. Len(first) + Len(vector_steps) :
           start[n] = IF n <= Len(first) THEN first[n] ELSE vector_steps[n - Len(first)]
  BY <1>0, <1>3
<1> HIDE DEF start
<1>7. /\ Len(all) = Len(start) + Len(last)
      /\ \A n \in 1 .. Len(start) + Len(last) :
           all[n] = IF n <= Len(start) THEN start[n] ELSE last[n - Len(start)]
  BY <1>0, <1>3, <1>6
<1>8. Changes["changer"] = all
  BY <1>1 DEF start
<1> HIDE DEF all
<1>9. /\ Len(start) = 6 /\ start[1] = first[1] /\ start[2] = first[2]
      /\ start[3] = vector_steps[1] /\ start[4] = vector_steps[2]
      /\ start[5] = vector_steps[3] /\ start[6] = vector_steps[4]
  <2>1. Len(first) = 2 /\ Len(vector_steps) = 4 /\ Len(start) = 6
    BY <1>4, <1>6, VectorTodo
  <2>2. \A n \in 1 .. 6 : start[n] = IF n <= 2 THEN first[n] ELSE vector_steps[n - 2]
    BY <1>6, <2>1
  <2> QED
    BY <2>1, <2>2
<1>10. /\ Len(all) = 9 /\ \A n \in 1 .. 6 : all[n] = start[n]
       /\ all[7] = last[1] /\ all[8] = last[2] /\ all[9] = last[3]
  <2>1. Len(last) = 3 /\ Len(all) = 9
    BY <1>5, <1>7, <1>9
  <2>2. \A n \in 1 .. 9 : all[n] = IF n <= 6 THEN start[n] ELSE last[n - 6]
    BY <1>7, <1>9, <2>1
  <2> QED
    BY <2>1, <2>2
<1> QED
  BY <1>4, <1>5, <1>8, <1>9, <1>10, VectorTodo

\* What a step of one of the two children that work through a list does.
LEMMA ChangerStep ==
  ASSUME IInv, TInv, Orderly, NEW c \in {"filler", "changer"}, c \in Kids, Runs(c)
  PROVE  /\ pc'[Parent] = pc[Parent]
         /\ \/ /\ pc[c] = "open" /\ pc'[c] = "change" /\ curr[c] = 0 /\ UNCHANGED <<mem, curr>>
            \/ /\ pc[c] = "return" /\ pc'[c] = "returned" /\ UNCHANGED <<mem, curr>>
            \/ LET todo == Changes[c]
                   n    == curr[c] + 1
               IN  /\ pc[c] = "change"
                   /\ pc'[c] = IF n = Len(todo) THEN "return" ELSE "change"
                   /\ \/ /\ todo[n].does = "sets"
                         /\ Store(Tests[TestOf(c)], todo[n].decl, todo[n].number)
                      \/ todo[n].does = "finds" /\ UNCHANGED mem
                   /\ curr'[c] = n
<1>1. /\ DOMAIN pc = Kids \cup {Parent} /\ DOMAIN curr = Kids \cup {Parent}
      /\ c \in DOMAIN pc /\ Parent \in DOMAIN pc /\ c # Parent /\ Lives(c)
  BY CountsAssumption DEF IInv, Shaped, TInv, Orderly
<1>2. CASE Open(c)
  BY <1>1, <1>2 DEF Open, Begin, To, Lives
<1>3. CASE Return(c, TRUE)
  BY <1>1, <1>3 DEF Return, To
<1>4. CASE Changer(c)
  BY <1>1, <1>3, <1>4 DEF Changer, To, Local
<1>5. c = "filler" \/ c = "changer"
  OBVIOUS
<1> QED
  BY <1>2, <1>4, <1>5 DEF Runs

LEMMA FillingRuns ==
  ASSUME IInv, TInv, Orderly, Filling, "filler" \in Kids, Runs("filler")
  PROVE  Filling'
<1> DEFINE c == "filler"
<1>1. /\ DOMAIN mem = Words /\ Tests[TestOf(c)] = "complex_objects"
      /\ pc'[Parent] = pc[Parent]
  BY Belongs, ChangerStep DEF TInv, Tests
<1>2. CASE pc[c] = "open" /\ pc'[c] = "change" /\ curr[c] = 0 /\ UNCHANGED <<mem, curr>>
  BY <1>1, <1>2 DEF Filling, Fresh, Past
<1>3. CASE pc[c] = "return" /\ pc'[c] = "returned" /\ UNCHANGED <<mem, curr>>
  BY <1>1, <1>3 DEF Filling, Fresh, Past
<1>4. ASSUME NEW n, n = curr[c] + 1, pc[c] = "change",
             pc'[c] = IF n = Len(Changes[c]) THEN "return" ELSE "change",
             \/ /\ Changes[c][n].does = "sets"
                /\ Store(Tests[TestOf(c)], Changes[c][n].decl, Changes[c][n].number)
             \/ Changes[c][n].does = "finds" /\ UNCHANGED mem,
             curr'[c] = n
      PROVE  Filling'
  <2>1. curr[c] \in 0 .. 3
    BY <1>4 DEF Filling
  <2>2. n \in 1 .. 4 /\ n # 0
    BY <1>4, <2>1
  <2>3. CASE n = 1
    BY <1>4, <2>3, FillerTodo DEF Filling, Fresh, Past
  <2>4. CASE n \in 2 .. 4
    <3>1. Changes[c][n] = sets("vector", n)
      BY <2>4, FillerTodo
    <3>2. mem' = [mem EXCEPT ![0] = n]
      BY <1>1, <1>4, <3>1, Todo, Offsets DEF Store
    <3>3. mem'[0] = n
      BY <1>1, <3>2 DEF Words
    <3> QED
      BY <1>4, <2>2, <2>4, <3>3, FillerTodo DEF Filling, Fresh, Past
  <2> QED
    BY <2>2, <2>3, <2>4
<1> QED
  BY <1>2, <1>3, <1>4, ChangerStep

LEMMA ChangingRuns ==
  ASSUME IInv, TInv, Orderly, Changing, "changer" \in Kids, Runs("changer")
  PROVE  Changing'
<1> DEFINE c == "changer"
<1>1. /\ DOMAIN mem = Words /\ Tests[TestOf(c)] = "multiple_data"
      /\ pc'[Parent] = pc[Parent]
  BY Belongs, ChangerStep DEF TInv, Tests
<1>2. CASE pc[c] = "open" /\ pc'[c] = "change" /\ curr[c] = 0 /\ UNCHANGED <<mem, curr>>
  BY <1>1, <1>2 DEF Changing, Fresh, Past
<1>3. CASE pc[c] = "return" /\ pc'[c] = "returned" /\ UNCHANGED <<mem, curr>>
  BY <1>1, <1>3 DEF Changing, Fresh, Past
<1>4. ASSUME NEW n, n = curr[c] + 1, pc[c] = "change",
             pc'[c] = IF n = Len(Changes[c]) THEN "return" ELSE "change",
             \/ /\ Changes[c][n].does = "sets"
                /\ Store(Tests[TestOf(c)], Changes[c][n].decl, Changes[c][n].number)
             \/ Changes[c][n].does = "finds" /\ UNCHANGED mem,
             curr'[c] = n
      PROVE  Changing'
  <2> DEFINE m == curr[c]
             Untouched == pc[Parent] # "construct"
  <2>1. m \in 0 .. 8
    BY <1>4 DEF Changing
  <2>2. n \in 1 .. 9 /\ m = n - 1
    BY <1>4, <2>1
  <2>3. /\ Untouched => (m <= 2 => mem[1] = 1) /\ (m <= 6 => mem[3] = 1)
        /\ m >= 2 => mem[0] = 2
        /\ m >= 6 => mem[1] = 4
        /\ m >= 8 => mem[3] = 2
    BY <1>4 DEF Changing, Fresh
  <2>4. 0 \in DOMAIN mem /\ 1 \in DOMAIN mem /\ 2 \in DOMAIN mem /\ 3 \in DOMAIN mem
    BY <1>1 DEF Words
  <2> HIDE DEF m, Untouched
  <2>5. ASSUME n = Len(Changes[c]) => n = 9, n # Len(Changes[c]) => n \in 1 .. 8,
               /\ Untouched /\ n <= 2 => mem'[1] = 1
               /\ Untouched /\ n <= 6 => mem'[3] = 1
               /\ n >= 2 => mem'[0] = 2
               /\ n >= 6 => mem'[1] = 4
               /\ n >= 8 => mem'[3] = 2
               /\ n >= 9 => mem'[2] = 2
        PROVE  Changing'
    <3>1. n # 0 /\ curr'[c] = n /\ pc'[c] \in {"return", "change"} /\ (Untouched <=> pc'[Parent] # "construct")
      BY <1>1, <1>4, <2>2 DEF Untouched
    <3> QED
      BY <1>4, <2>5, <3>1 DEF Changing, Fresh, Past
  <2>6. Len(Changes[c]) = 9
    BY ChangerTodo
  <2>7. CASE n \in {1, 3, 7}
    <3>1. mem' = mem
      BY <1>4, <2>7, ChangerTodo, Todo
    <3> QED
      BY <2>2, <2>3, <2>5, <2>6, <2>7, <3>1
  <2>8. CASE n = 2
    <3>1. mem' = [mem EXCEPT ![0] = 2]
      BY <1>1, <1>4, <2>8, ChangerTodo, Todo, Offsets DEF Store
    <3>2. mem'[0] = 2 /\ mem'[1] = mem[1] /\ mem'[3] = mem[3]
      BY <2>4, <3>1
    <3> QED
      BY <2>2, <2>3, <2>5, <2>6, <2>8, <3>2
  <2>9. CASE n \in {4, 5, 6}
    <3>1. mem' = [mem EXCEPT ![1] = n - 2]
      BY <1>1, <1>4, <2>9, ChangerTodo, Todo, Offsets DEF Store
    <3>2. mem'[0] = mem[0] /\ mem'[1] = n - 2 /\ mem'[3] = mem[3]
      BY <2>4, <3>1
    <3> QED
      BY <2>2, <2>3, <2>5, <2>6, <2>9, <3>2
  <2>10. CASE n = 8
    <3>1. mem' = [mem EXCEPT ![3] = 2]
      BY <1>1, <1>4, <2>10, ChangerTodo, Todo, Offsets DEF Store
    <3>2. mem'[0] = mem[0] /\ mem'[1] = mem[1] /\ mem'[3] = 2
      BY <2>4, <3>1
    <3> QED
      BY <2>2, <2>3, <2>5, <2>6, <2>10, <3>2
  <2>11. CASE n = 9
    <3>1. mem' = [mem EXCEPT ![2] = 2]
      BY <1>1, <1>4, <2>11, ChangerTodo, Todo, Offsets DEF Store
    <3>2. mem'[0] = mem[0] /\ mem'[1] = mem[1] /\ mem'[3] = mem[3] /\ mem'[2] = 2
      BY <2>4, <3>1
    <3> QED
      BY <2>2, <2>3, <2>5, <2>6, <2>11, <3>2
  <2> QED
    BY <2>2, <2>7, <2>8, <2>9, <2>10, <2>11
<1> QED
  BY <1>2, <1>3, <1>4, ChangerStep

\* The holder tells its parent only when it has the mutex, which is free again when
\* it has slept.
LEMMA HoldingRuns ==
  ASSUME IInv, TInv, Orderly, Holding, "holder" \in Kids, Runs("holder")
  PROVE  Holding'
<1> DEFINE c == "holder"
<1>1. /\ 0 \in DOMAIN mem /\ 1 \in DOMAIN mem /\ c \in DOMAIN curr
      /\ ref("atomic_mutex", "mutex") = mem[1]
      /\ \A x : Store("atomic_mutex", "mutex", x) => mem' = [mem EXCEPT ![1] = x]
      /\ \A x : Store("atomic_mutex", "semaphore", x) => mem' = [mem EXCEPT ![0] = x]
  BY Offsets DEF TInv, Words, ref, Store
<1>2. ASSUME NEW label, To(c, label) PROVE pc'[c] = label /\ pc'[Parent] = pc[Parent]
  BY <1>2, CountsAssumption DEF IInv, Shaped, To
<1>3. CASE Open(c)
  BY <1>2, <1>3 DEF Open, Begin, Holding, Past
<1>4. CASE /\ mem[1] = 0 /\ Goes(c, "lock", "tell")
           /\ Store("atomic_mutex", "mutex", 1) /\ UNCHANGED curr
  BY <1>1, <1>2, <1>4 DEF Goes, Holding, Past
<1>5. CASE Goes(c, "tell", "sleep") /\ Store("atomic_mutex", "semaphore", 1) /\ UNCHANGED curr
  BY <1>1, <1>2, <1>5 DEF Goes, Holding, Past
<1>6. CASE Goes(c, "sleep", "unlock") /\ Local(c, 1) /\ UNCHANGED mem
  BY <1>1, <1>2, <1>6 DEF Goes, Holding, Past, Local
<1>7. CASE Goes(c, "unlock", "return") /\ Store("atomic_mutex", "mutex", 0) /\ UNCHANGED curr
  BY <1>1, <1>2, <1>7 DEF Goes, Holding, Past
<1>8. CASE Return(c, TRUE)
  BY <1>2, <1>8 DEF Return, Holding, Past
<1> QED
  BY <1>1, <1>3, <1>4, <1>5, <1>6, <1>7, <1>8 DEF Runs, Holder

\* The poster posts after its assignment, and nobody assigns anything else.
LEMMA PostingRuns ==
  ASSUME IInv, TInv, Orderly, Posting, pc[Parent] # "construct",
         NEW c \in {"waiter", "poster"}, c \in Kids, Runs(c)
  PROVE  Posting'
<1>1. /\ 0 \in DOMAIN mem /\ 1 \in DOMAIN mem /\ 2 \in DOMAIN mem
      /\ ref("semaphore", "semaphore") = mem[0] /\ ref("semaphore", "semaphore2") = mem[1]
      /\ \A x : Store("semaphore", "semaphore", x) => mem' = [mem EXCEPT ![0] = x]
      /\ \A x : Store("semaphore", "semaphore2", x) => mem' = [mem EXCEPT ![1] = x]
      /\ \A x : Store("semaphore", "integer", x) => mem' = [mem EXCEPT ![2] = x]
  BY Offsets DEF TInv, Words, ref, Store
<1>2. ASSUME NEW label, To(c, label)
      PROVE  /\ pc'[c] = label /\ pc'[Parent] = pc[Parent]
             /\ c # "waiter" => pc'["waiter"] = pc["waiter"]
             /\ c # "poster" => pc'["poster"] = pc["poster"]
  BY <1>2, CountsAssumption DEF IInv, Shaped, To
<1>3. mem[0] \in Int /\ (mem[0] > 0 => mem[2] = 2)
  BY DEF Posting
<1>4. ASSUME NEW label, To(c, label), label \notin {"expect", "post"} \cup Past, UNCHANGED mem
      PROVE  Posting'
  BY <1>2, <1>3, <1>4 DEF Posting, Past
<1>5. CASE Open(c)
  <2>1. CASE c = "poster"
    BY <1>4, <1>5, <2>1 DEF Open, Begin, Past
  <2>2. CASE c = "waiter"
    BY <1>2, <1>5, <2>2 DEF Open, Begin, Past, Posting
  <2> QED
    BY <2>1, <2>2
<1>6. CASE Return(c, TRUE)
  BY <1>2, <1>6 DEF Return, Posting, Past
<1>7. CASE c = "waiter" /\ Goes(c, "post", "wait") /\ Post("semaphore2")
  <2>1. mem'[0] = mem[0] /\ mem'[2] = mem[2]
    BY <1>1, <1>7 DEF Post
  <2> QED
    BY <1>2, <1>7, <2>1 DEF Goes, Posting, Past
<1>8. CASE c = "waiter" /\ Goes(c, "wait", "expect") /\ Wait("semaphore")
  <2>1. mem[0] > 0 /\ mem' = [mem EXCEPT ![0] = mem[0] - 1]
    BY <1>1, <1>8 DEF Wait
  <2>2. mem[2] = 2 /\ mem'[0] = mem[0] - 1 /\ mem'[2] = 2 /\ mem'[0] \in Int
    BY <1>1, <1>3, <2>1
  <2> QED
    BY <1>2, <1>8, <2>2 DEF Goes, Posting, Past
<1>9. CASE c = "waiter" /\ pc[c] = "expect" /\ To(c, "return") /\ UNCHANGED mem
  BY <1>2, <1>9 DEF Posting, Past
<1>10. CASE c = "poster" /\ Goes(c, "wait", "assign") /\ Wait("semaphore2")
  <2>1. mem'[0] = mem[0] /\ mem'[2] = mem[2]
    BY <1>1, <1>10 DEF Wait
  <2> QED
    BY <1>2, <1>10, <2>1 DEF Goes, Posting, Past
<1>11. CASE c = "poster" /\ Goes(c, "assign", "post") /\ Store("semaphore", "integer", 2)
  <2>1. mem'[0] = mem[0] /\ mem'[2] = 2
    BY <1>1, <1>11
  <2> QED
    BY <1>2, <1>11, <2>1 DEF Goes, Posting, Past
<1>12. CASE c = "poster" /\ Goes(c, "post", "return") /\ Post("semaphore")
  <2>1. mem' = [mem EXCEPT ![0] = mem[0] + 1] /\ mem[2] = 2
    BY <1>1, <1>12 DEF Post, Goes, Posting
  <2>2. mem'[0] = mem[0] + 1 /\ mem'[0] \in Int /\ mem'[2] = 2
    BY <1>1, <1>3, <2>1
  <2> QED
    BY <1>2, <1>12, <2>2 DEF Goes, Posting, Past
<1> QED
  BY <1>5, <1>6, <1>7, <1>8, <1>9, <1>10, <1>11, <1>12 DEF Runs, Waiter, Poster, Looks

\* In a calm test only its own children run.
LEMMA OwnChildren ==
  ASSUME Orderly, Calm, NEW c \in Kids, proc[c] = "running"
  PROVE  c \in KidsOf[test] /\ TestOf(c) = test /\ pc[Parent] # "construct"
<1>1. c \in Six /\ TestOf(c) <= test /\ TestOf(c) \in Nat /\ test \in 1 .. 5
  BY Kinds DEF Orderly, Lives
<1>2. TestOf(c) = test
  BY <1>1 DEF Calm, Stray
<1> QED
  BY <1>1, <1>2, Kinds DEF Orderly, Lives

\* A child's step in a calm test.
LEMMA FactsRuns ==
  ASSUME IInv, TInv, Orderly, Calm, Facts, NEW c \in Kids, Runs(c), test' = test
  PROVE  Facts'
<1>1. c \in KidsOf[test] /\ pc[Parent] # "construct" /\ test \in 1 .. 5
  BY OwnChildren DEF Runs, Orderly
<1>2. CASE test = 1
  <2>1. c = "counter"
    BY <1>1, <1>2 DEF KidsOf
  <2> QED
    BY <1>2, <2>1, CountingRuns DEF Facts
<1>3. CASE test = 2
  <2>1. c = "filler"
    BY <1>1, <1>3 DEF KidsOf
  <2> QED
    BY <1>3, <2>1, FillingRuns DEF Facts
<1>4. CASE test = 3
  <2>1. c = "holder"
    BY <1>1, <1>4 DEF KidsOf
  <2> QED
    BY <1>4, <2>1, HoldingRuns DEF Facts
<1>5. CASE test = 4
  <2>1. c = "changer"
    BY <1>1, <1>5 DEF KidsOf
  <2> QED
    BY <1>5, <2>1, ChangingRuns DEF Facts
<1>6. CASE test = 5
  <2>1. c \in {"waiter", "poster"}
    BY <1>1, <1>6 DEF KidsOf
  <2> QED
    BY <1>1, <1>6, <2>1, PostingRuns DEF Facts
<1> QED
  BY <1>1, <1>2, <1>3, <1>4, <1>5, <1>6

\* While a child runs its parent has not joined it.
LEMMA JoinsRuns ==
  ASSUME IInv, Orderly, Joins, NEW c \in Kids, NEW label, Moves(c, label)
  PROVE  Joins'
<1>1. ASSUME NEW d \in Six, pc[d] = "returned" PROVE pc'[d] = "returned"
  <2>1. d \in Kids /\ proc[d] # "running"
    BY <1>1, Kinds DEF Orderly, Lives
  <2> QED
    BY <1>1, <2>1 DEF IInv, Shaped, Moves, To
<1>2. pc'[Parent] = pc[Parent] /\ test' = test
  BY CountsAssumption DEF IInv, Shaped, Moves, To
<1>3. KidsOf[test] \subseteq Six /\ "waiter" \in Six
  BY Kinds DEF Orderly
<1> QED
  BY <1>1, <1>2, <1>3 DEF Joins

\* A child leaves nobody behind, and does not come back.
LEMMA SettledRuns ==
  ASSUME IInv, Orderly, Settled, NEW c \in Kids, NEW label, Moves(c, label)
  PROVE  Settled'
<1>1. pc'[Parent] = pc[Parent] /\ test' = test /\ faulted \subseteq faulted'
  BY CountsAssumption DEF IInv, Shaped, Moves, To
<1>2. ASSUME NEW d \in Kids PROVE proc'[d] = proc[d] \/ (d = c /\ proc[d] = "running")
  BY DEF IInv, Shaped, Moves
<1>3. StraysFromFaults'
  BY <1>1, <1>2 DEF Settled, StraysFromFaults, Stray
<1>4. ASSUME pc'[Parent] = "check", test' < 5, NEW d \in KidsOf[test']
      PROVE  proc'[d] = "gone" \/ test' \in faulted'
  <2>1. d \in Kids /\ (proc[d] = "gone" \/ test \in faulted)
    BY <1>1, <1>4, Kinds DEF Settled, Orderly
  <2>2. proc'[d] = proc[d] \/ proc[d] = "running"
    BY <1>2, <2>1
  <2> QED
    BY <1>1, <2>1, <2>2
<1> QED
  BY <1>3, <1>4 DEF Settled

\* The children's steps leave nothing in the segment that another child does not expect.
LEMMA FoundExpected ==
  ASSUME IInv, TInv, Orderly, Facts, NEW c \in {"filler", "changer"}, TestOf(c) = test,
         pc[c] = "change", pc[Parent] # "construct",
         NEW step, step = Changes[c][curr[c] + 1], step.does = "finds"
  PROVE  ref(Tests[TestOf(c)], step.decl) = step.number
<1> DEFINE m == curr[c]
<1>1. CASE c = "filler"
  <2>1. Filling /\ Tests[TestOf(c)] = "complex_objects"
    BY <1>1, Belongs DEF Facts, Tests
  <2>2. m \in 0 .. 3 /\ (m = 0 => mem[0] = 1)
    BY <1>1, <2>1 DEF Filling, Fresh
  <2>3. step = Changes["filler"][m + 1]
    BY <1>1
  <2> HIDE DEF m
  <2>4. m = 0 \/ m + 1 \in 2 .. 4
    BY <2>2
  <2>5. m = 0
    BY <2>3, <2>4, FillerTodo, Todo
  <2>6. step = finds("vector", 1) /\ mem[0] = 1
    BY <2>2, <2>3, <2>5, FillerTodo, 0 + 1 = 1
  <2> QED
    BY <2>1, <2>6, Todo, Offsets DEF ref
<1>2. CASE c = "changer"
  <2>1. Changing /\ Tests[TestOf(c)] = "multiple_data"
    BY <1>2, Belongs DEF Facts, Tests
  <2>2. /\ m \in 0 .. 8
        /\ m = 0 => mem[0] = 1
        /\ m <= 2 => mem[1] = 1
        /\ m <= 6 => mem[3] = 1
    BY <1>2, <2>1 DEF Changing, Fresh
  <2>3. step = Changes["changer"][m + 1]
    BY <1>2
  <2> HIDE DEF m
  <2>4. \/ m = 0 /\ m + 1 = 1
        \/ m = 2 /\ m + 1 = 3
        \/ m = 6 /\ m + 1 = 7
        \/ m + 1 = 2 \/ m + 1 \in {4, 5, 6} \/ m + 1 = 8 \/ m + 1 = 9
    BY <2>2
  <2>5. \/ m = 0 /\ step = finds("foo", 1)
        \/ m = 2 /\ step = finds("vector", 1)
        \/ m = 6 /\ step = finds("message", 1)
    BY <2>3, <2>4, ChangerTodo, Todo
  <2>6. \/ mem[0] = 1 /\ step = finds("foo", 1)
        \/ mem[1] = 1 /\ step = finds("vector", 1)
        \/ mem[3] = 1 /\ step = finds("message", 1)
    BY <2>2, <2>5
  <2> QED
    BY <2>1, <2>6, Todo, Offsets DEF ref
<1> QED
  BY <1>1, <1>2

\* The invariant under the steps of the children.
LEMMA ChildKeeps ==
  ASSUME IInv, TInv, EInv, NEW c \in Kids, Runs(c) \/ Fails(c)
  PROVE  EInv'
<1>0. Orderly /\ Settled
  BY DEF EInv
<1>1. CASE Fails(c)
  <2>1. Moves(c, "failed") /\ UNCHANGED failed /\ test \in faulted'
    BY <1>0, <1>1, FailsMoves
  <2>2. Orderly' /\ Onward /\ Settled'
    BY <1>0, <2>1, MovesStep, SettledRuns
  <2>3. \A f \in failed' : f[1] \in 1 .. test' /\ Excused(f)'
    BY <2>1, <2>2, FailedStep
  <2>4. ~Calm'
    BY <2>1 DEF Calm, Moves
  <2> QED
    BY <2>2, <2>3, <2>4 DEF EInv
<1>2. CASE Runs(c)
  <2>1. PICK label : Moves(c, label) /\ label # "failed"
    BY <1>0, <1>2, RunsMoves
  <2>2. Orderly' /\ Onward /\ Settled' /\ test' = test
    BY <1>0, <2>1, MovesStep, SettledRuns DEF Moves
  <2>3. ASSUME Calm PROVE Facts' /\ Joins'
    <3>1. Facts /\ Joins
      BY <2>3 DEF EInv
    <3> QED
      BY <1>0, <1>2, <2>1, <2>2, <2>3, <3>1, FactsRuns, JoinsRuns
  <2>4. Calm' => Facts' /\ Joins'
    BY <1>0, <2>2, <2>3, CalmBefore
  <2>5. CASE UNCHANGED failed
    <3>1. \A f \in failed' : f[1] \in 1 .. test' /\ Excused(f)'
      BY <2>2, <2>5, FailedStep
    <3> QED
      BY <2>2, <2>4, <3>1 DEF EInv
  <2>6. ASSUME NEW name, NEW holds, Finds(c, name, holds),
               name = "child_spins" \/ (TestOf(c) = test /\ (Calm => holds)) \/ TestOf(c) # test
        PROVE  EInv'
    <3>1. c \in Six /\ TestOf(c) \in 1 .. test
      BY <1>0, <1>2, Kinds DEF Orderly, Lives, Runs
    <3>2. proc[c] = "running" /\ proc'[c] \in {"running", "zombie"}
      BY <1>2, <2>1 DEF Runs, Moves, IInv, Shaped
    <3>3. ASSUME NEW f \in failed', f \notin failed
          PROVE  f[1] \in 1 .. test' /\ Excused(f)'
      <4>1. f = <<TestOf(c), name>> /\ ~holds
        BY <2>6, <3>3 DEF Finds
      <4>2. f[1] = TestOf(c) /\ f[2] = name
        BY <4>1
      <4>3. CASE name = "child_spins"
        BY <2>2, <3>1, <4>2, <4>3 DEF Excused
      <4>4. CASE TestOf(c) = test /\ (Calm => holds)
        BY <1>0, <2>2, <3>1, <4>1, <4>2, <4>4, Uncalm
      <4>5. CASE TestOf(c) # test
        <5>1. TestOf(c) < test /\ TestOf(c) \in faulted
          BY <1>0, <3>1, <3>2, <4>5 DEF Settled, StraysFromFaults, Stray, Orderly
        <5> QED
          BY <2>2, <3>1, <4>2, <5>1 DEF Excused, Onward
      <4> QED
        BY <2>6, <4>3, <4>4, <4>5
    <3>4. ASSUME NEW f \in failed PROVE f[1] \in 1 .. test' /\ Excused(f)'
      <4>1. f[1] \in 1 .. test /\ Excused(f)
        BY DEF EInv
      <4> QED
        BY <1>0, <2>2, <4>1, ExcuseStays
    <3> QED
      BY <2>2, <2>4, <3>3, <3>4 DEF EInv
  <2>7. ASSUME NEW holds, c = "counter", Finds(c, "child_spins", holds) PROVE EInv'
    BY <2>6, <2>7
  <2>8. CASE c = "waiter" /\ pc[c] = "expect" /\ Finds(c, "waiter", ref("semaphore", "integer") = 2)
    <3>1. TestOf(c) = 5 /\ test = 5
      BY <1>0, <1>2, <2>8, Belongs DEF Orderly, Lives, Runs
    <3>2. Calm => mem[2] = 2
      BY <2>8, <3>1 DEF EInv, Facts, Posting
    <3>3. ref("semaphore", "integer") = mem[2]
      BY Offsets DEF ref
    <3> QED
      BY <2>6, <2>8, <3>1, <3>2, <3>3
  <2>9. CASE /\ c \in {"filler", "changer"} /\ pc[c] = "change"
             /\ LET step == Changes[c][curr[c] + 1]
                IN  /\ step.does = "finds"
                    /\ Finds(c, "found", ref(Tests[TestOf(c)], step.decl) = step.number)
    <3> DEFINE step == Changes[c][curr[c] + 1]
               holds == ref(Tests[TestOf(c)], step.decl) = step.number
    <3>1. Finds(c, "found", holds) /\ step.does = "finds"
      BY <2>9
    <3>2. ASSUME TestOf(c) = test, Calm PROVE holds
      <4>1. pc[Parent] # "construct" /\ Facts
        BY <1>0, <1>2, <3>2, OwnChildren DEF EInv, Runs
      <4> QED
        BY <1>0, <2>9, <3>1, <3>2, <4>1, FoundExpected
    <3> HIDE DEF holds, step
    <3> QED
      BY <2>6, <3>1, <3>2
  <2> QED
    BY <1>0, <1>2, <2>5, <2>7, <2>8, <2>9, RunsMoves
<1> QED
  BY <1>1, <1>2

\* Some labels belong to one test only.
LEMMA Where ==
  ASSUME Orderly
  PROVE  /\ test \in 1 .. 5 /\ Stops \subseteq Labels[test]
         /\ pc[Parent] \in {"load", "act"} => test = 1
         /\ pc[Parent] \in {"spin", "lock", "unlock"} => test = 3
         /\ pc[Parent] \in {"fork2", "join2"} => test = 5
         /\ test = 1 => {"load", "act"} \subseteq Labels[test]
         /\ test = 3 => {"spin", "lock", "unlock"} \subseteq Labels[test]
         /\ test = 5 => {"fork2", "join2"} \subseteq Labels[test]
<1>1. test \in 1 .. 5 /\ pc[Parent] \in Labels[test]
  BY DEF Orderly
<1>2. test = 1 \/ test = 2 \/ test = 3 \/ test = 4 \/ test = 5
  BY <1>1
<1> QED
  BY <1>1, <1>2 DEF Labels, Stops

\* The end of a test.
LEMMA NextGoes ==
  ASSUME Orderly, NextTest
  PROVE  \E label : To(Parent, label) /\ IF test' = test THEN label = "done"
                                         ELSE test < 5 /\ test' = test + 1 /\ label = "construct"
BY Scripts DEF Orderly, NextTest

LEMMA FatalGoes ==
  ASSUME Orderly, Fatal
  PROVE  \E label : To(Parent, label) /\ IF test' = test THEN label \in {"done", "stopped"}
                                         ELSE test < 5 /\ test' = test + 1 /\ label = "construct"
BY NextGoes DEF Fatal

LEMMA ParentLabel ==
  ASSUME IInv, NEW label, To(Parent, label)
  PROVE  pc'[Parent] = label /\ \A d \in Kids : pc'[d] = pc[d]
BY CountsAssumption DEF IInv, Shaped, To

\* A child whose test has not come, or has not constructed its objects, is unborn.
LEMMA Unborn ==
  ASSUME Orderly, NEW c \in Six,
         TestOf(c) > test \/ (TestOf(c) = test /\ pc[Parent] = "construct")
  PROVE  pc[c] = "none"
<1>1. c \in Kids /\ TestOf(c) \in Nat /\ test \in Nat
  BY Kinds DEF Orderly
<1>2. proc[c] = "none"
  BY <1>1 DEF Orderly, Lives
<1> QED
  BY <1>1, <1>2 DEF Orderly, Lives

\* At the beginning of a test nothing has been done that belongs to it.
LEMMA FreshTest ==
  ASSUME IInv, Orderly, NEW label, To(Parent, label), label = "construct",
         test < 5, test' = test + 1
  PROVE  Facts' /\ Joins'
<1>1. pc'[Parent] = "construct" /\ \A d \in Kids : pc'[d] = pc[d]
  BY ParentLabel
<1>2. test \in 1 .. 4 /\ test' \in 2 .. 5 /\ test = test' - 1
  BY DEF Orderly
<1>3. ASSUME NEW c \in Six, TestOf(c) = test' PROVE pc'[c] = "none"
  BY <1>1, <1>2, <1>3, Unborn, Kinds
<1>4. /\ "filler" \in Six /\ "holder" \in Six /\ "changer" \in Six
      /\ "waiter" \in Six /\ "poster" \in Six
  BY Kinds
<1>5. /\ test' = 2 => pc'["filler"] = "none"
      /\ test' = 3 => pc'["holder"] = "none"
      /\ test' = 4 => pc'["changer"] = "none"
      /\ test' = 5 => pc'["waiter"] = "none"
      /\ test' = 5 => pc'["poster"] = "none"
  BY <1>3, <1>4, Belongs
<1>6. Facts'
  BY <1>1, <1>2, <1>4, <1>5 DEF Facts, Filling, Holding, Changing, Posting, Past
<1> QED
  BY <1>1, <1>6 DEF Joins

\* The invariant under a step of the parent that starts no child.
LEMMA GoesOnExpects ==
  ASSUME IInv, EInv, NEW label, GoesOn(label),
         \A f \in failed' : f \in failed \/ \E name : f = <<test, name>> /\ Excused(f)',
         test < 5 /\ (test' # test \/ label = "check") =>
           \A c \in KidsOf[test] : proc'[c] = "gone" \/ test \in faulted',
         test' = test /\ Calm /\ Calm' => Facts' /\ Joins'
  PROVE  EInv'
<1>1. Orderly /\ Orderly' /\ Onward
  BY GoesOnStep DEF EInv
<1>4. Settled'
  <2>1. pc'[Parent] = label
    BY ParentLabel DEF GoesOn
  <2>2. \A d \in Kids : proc'[d] = proc[d] \/ (proc[d] = "zombie" /\ proc'[d] = "gone")
    BY DEF GoesOn, IInv, Shaped
  <2>3. ASSUME NEW c \in Kids, Stray(c, test)' PROVE TestOf(c) \in faulted'
    <3>1. /\ TestOf(c) < test' /\ proc'[c] \notin {"none", "gone"}
          /\ proc[c] \notin {"none", "gone"}
      BY <2>2, <2>3 DEF Stray
    <3>2. c \in Six /\ TestOf(c) \in Nat /\ TestOf(c) <= test /\ test \in 1 .. 5
      BY <1>1, <3>1, Kinds DEF Orderly, Lives
    <3>3. CASE TestOf(c) < test
      BY <1>1, <3>1, <3>3 DEF EInv, Settled, StraysFromFaults, Stray, Onward
    <3>4. CASE TestOf(c) = test
      <4>1. test' # test /\ test < 5 /\ c \in KidsOf[test]
        BY <3>1, <3>2, <3>4, Kinds DEF GoesOn
      <4> QED
        BY <3>1, <3>4, <4>1
    <3> QED
      BY <3>2, <3>3, <3>4
  <2>4. ASSUME pc'[Parent] = "check", test' < 5, NEW c \in KidsOf[test']
        PROVE  proc'[c] = "gone" \/ test' \in faulted'
    <3>1. test' = test
      BY <2>1, <2>4 DEF GoesOn
    <3> QED
      BY <2>1, <2>4, <3>1
  <2> QED
    BY <2>3, <2>4 DEF Settled, StraysFromFaults
<1>2. \A f \in failed' : f[1] \in 1 .. test' /\ Excused(f)'
  BY <1>1, FailedStep
<1>3. Calm' => Facts' /\ Joins'
  <2>1. CASE test' = test
    BY <1>1, <2>1, CalmBefore
  <2>2. CASE test' # test
    BY <1>1, <2>2, FreshTest DEF GoesOn
  <2> QED
    BY <2>1, <2>2
<1> QED
  BY <1>1, <1>2, <1>3, <1>4 DEF EInv

\* The parent goes on in its test and touches nothing.
LEMMA QuietFacts ==
  ASSUME IInv, Orderly, Facts, UNCHANGED <<test, mem, curr>>, NEW label, To(Parent, label),
         pc[Parent] # "construct", label \notin {"construct", "act", "lock", "unlock"},
         test = 1 /\ label \in {"join", "check"} => pc[Parent] \in {"join", "check"}
  PROVE  Facts'
<1>1. pc'[Parent] = label /\ \A d \in Kids : pc'[d] = pc[d]
  BY ParentLabel
<1>2. /\ pc'["counter"] = pc["counter"] /\ pc'["filler"] = pc["filler"]
      /\ pc'["holder"] = pc["holder"] /\ pc'["changer"] = pc["changer"]
      /\ pc'["waiter"] = pc["waiter"] /\ pc'["poster"] = pc["poster"]
  BY <1>1, Kinds
<1>3. test = 1 => Counting'
  BY <1>1, <1>2 DEF Facts, Counting, Players
<1>4. test = 2 => Filling'
  BY <1>1, <1>2 DEF Facts, Filling
<1>5. test = 3 => Holding'
  BY <1>1, <1>2 DEF Facts, Holding
<1>6. test = 4 => Changing'
  BY <1>1, <1>2 DEF Facts, Changing
<1>7. test = 5 => Posting'
  BY <1>1, <1>2 DEF Facts, Posting
<1> QED
  BY <1>3, <1>4, <1>5, <1>6, <1>7 DEF Facts

\* What is constructed at the offset of an object.
LEMMA ConstructAt ==
  ASSUME Construct, NEW o \in Words, NEW x,
         {d \in DOMAIN Objects[Current] : offset(Current, d) = o} = {x}
  PROVE  mem'[o] = Objects[Current][x]
<1> DEFINE new == Objects[Current]
           There == {d \in DOMAIN new : offset(Current, d) = o}
<1>1. mem'[o] = IF There = {} THEN mem[o] ELSE new[CHOOSE d \in There : TRUE]
  BY DEF Construct
<1>2. There = {x}
  OBVIOUS
<1> HIDE DEF There, new
<1>3. (CHOOSE d \in There : TRUE) = x
  BY <1>2
<1>4. mem'[o] = new[x]
  BY <1>1, <1>2, <1>3
<1> QED
  BY <1>4 DEF new

\* A counter, and a semaphore, is constructed as zero, what a child finds as itself.
LEMMA ConstructWords ==
  ASSUME Construct
  PROVE  /\ test \in {1, 3, 5} => mem'[0] = 0
         /\ test = 2 => mem'[0] = 1
         /\ test = 4 => mem'[0] = 1 /\ mem'[1] = 1 /\ mem'[3] = 1
<1> DEFINE new == Objects[Current]
           There(o) == {d \in DOMAIN new : offset(Current, d) = o}
<1>0. 0 \in Words /\ 1 \in Words /\ 3 \in Words
  BY DEF Words
<1>1. CASE test = 1
  <2>1. Current = "basic_shared_mem" /\ new = [sync_counter |-> 0]
    BY <1>1 DEF Current, Tests, Objects
  <2>2. There(0) = {"sync_counter"}
    BY <2>1, CounterWords
  <2> QED
    BY <1>0, <1>1, <2>1, <2>2, ConstructAt
<1>2. CASE test = 2
  <2>1. Current = "complex_objects" /\ new = [vector |-> 1]
    BY <1>2 DEF Current, Tests, Objects
  <2>2. There(0) = {"vector"}
    BY <2>1, Offsets
  <2> QED
    BY <1>0, <1>2, <2>1, <2>2, ConstructAt
<1>3. CASE test = 3
  <2>1. Current = "atomic_mutex" /\ new = [mutex |-> 0, semaphore |-> 0]
    BY <1>3 DEF Current, Tests, Objects
  <2>2. There(0) = {"semaphore"}
    BY <2>1, Offsets
  <2>3. new["semaphore"] = 0
    BY <2>1
  <2> QED
    BY <1>0, <1>3, <2>2, <2>3, ConstructAt
<1>4. CASE test = 4
  <2>1. Current = "multiple_data" /\ new = [foo |-> 1, vector |-> 1, ref |-> 1, message |-> 1]
    BY <1>4 DEF Current, Tests, Objects
  <2>2. There(0) = {"foo"} /\ There(1) = {"vector"} /\ There(3) = {"message"}
    BY <2>1, Offsets
  <2>3. new["foo"] = 1 /\ new["vector"] = 1 /\ new["message"] = 1
    BY <2>1
  <2>4. mem'[0] = 1
    BY <1>0, <2>2, <2>3, ConstructAt
  <2>5. mem'[1] = 1
    BY <1>0, <2>2, <2>3, ConstructAt
  <2>6. mem'[3] = 1
    BY <1>0, <2>2, <2>3, ConstructAt
  <2> QED
    BY <1>4, <2>4, <2>5, <2>6
<1>5. CASE test = 5
  <2>1. Current = "semaphore" /\ new = [semaphore |-> 0, semaphore2 |-> 0, integer |-> 9]
    BY <1>5 DEF Current, Tests, Objects
  <2>2. There(0) = {"semaphore"}
    BY <2>1, Offsets
  <2>3. new["semaphore"] = 0
    BY <2>1
  <2> QED
    BY <1>0, <1>5, <2>2, <2>3, ConstructAt
<1> QED
  BY <1>1, <1>2, <1>3, <1>4, <1>5

LEMMA ConstructExpects ==
  ASSUME IInv, TInv, EInv, Construct
  PROVE  EInv'
<1>1. /\ Orderly /\ To(Parent, "fork") /\ UNCHANGED <<test, curr, failed, faulted, proc, returned>>
      /\ pc[Parent] = "construct"
  BY DEF EInv, Construct, forkVars
<1>2. GoesOn("fork")
  BY <1>1, Where DEF GoesOn, Stops
<1>3. pc'[Parent] = "fork" /\ \A d \in Kids : pc'[d] = pc[d]
  BY <1>1, ParentLabel
<1>4. ASSUME NEW c \in Six, TestOf(c) = test PROVE pc'[c] = "none"
  BY <1>1, <1>3, <1>4, Unborn, Kinds
<1>5. /\ "counter" \in Six /\ "filler" \in Six /\ "holder" \in Six /\ "changer" \in Six
      /\ "waiter" \in Six /\ "poster" \in Six
  BY Kinds
<1>6. /\ test = 1 => pc'["counter"] = "none"
      /\ test = 2 => pc'["filler"] = "none"
      /\ test = 3 => pc'["holder"] = "none"
      /\ test = 4 => pc'["changer"] = "none"
      /\ test = 5 => pc'["waiter"] = "none"
      /\ test = 5 => pc'["poster"] = "none"
  BY <1>4, <1>5, Belongs
<1>7. /\ test \in {1, 3, 5} => mem'[0] = 0
      /\ test = 2 => mem'[0] = 1
      /\ test = 4 => mem'[0] = 1 /\ mem'[1] = 1 /\ mem'[3] = 1
  BY ConstructWords
<1>8. N \in Nat
  BY CountsAssumption
<1>9. Facts'
  BY <1>1, <1>3, <1>6, <1>7, <1>8
  DEF Facts, Counting, Players, Filling, Holding, Changing, Posting, Past
<1>10. Joins'
  BY <1>3 DEF Joins
<1> QED
  BY <1>1, <1>2, <1>9, <1>10, GoesOnExpects

\* The parent's turns, and its waiting for the holder.
LEMMA TurnExpects ==
  ASSUME IInv, TInv, EInv, Load(Parent, "join") \/ ParentActs
  PROVE  EInv'
<1>1. /\ Orderly /\ test = 1 /\ Parent \in DOMAIN curr /\ "counter" # Parent
      /\ DOMAIN mem = Words /\ mem[0] \in Int /\ curr[Parent] \in Int /\ N \in Nat
      /\ "counter" \in Kids
  BY Where, CountsAssumption DEF EInv, Load, ParentActs, TInv, Players, number
<1>2. Calm => Counting
  BY <1>1 DEF EInv, Facts
<1>3. ASSUME NEW label, To(Parent, label), label \in {"load", "act", "join"},
             \A d \in Kids : curr'[d] = curr[d], UNCHANGED <<forkVars, test, failed, faulted>>,
             Calm => Counting'
      PROVE  EInv'
  <2>1. label \in Labels[test] \ {"construct"}
    BY <1>1, <1>3, Where DEF Stops
  <2>2. GoesOn(label)
    BY <1>3, <2>1 DEF GoesOn, forkVars
  <2>3. pc'[Parent] = label
    BY <1>3, ParentLabel
  <2>4. Calm => Facts' /\ Joins'
    BY <1>1, <1>3, <2>3 DEF Facts, Joins
  <2> QED
    BY <1>3, <2>2, <2>4, GoesOnExpects
<1>4. CASE Load(Parent, "join")
  <2>1. /\ curr'[Parent] = mem[0] /\ \A d \in Kids : curr'[d] = curr[d]
        /\ UNCHANGED <<mem, forkVars, test, failed, faulted>>
    BY <1>1, <1>4, CounterWords, CountsAssumption DEF Load, Local, ref, TInv
  <2>2. PICK label : To(Parent, label) /\ label = IF curr'[Parent] < N THEN "act" ELSE "join"
    BY <1>4 DEF Load
  <2>3. pc'[Parent] = label /\ pc'["counter"] = pc["counter"]
    BY <1>1, <2>2, ParentLabel
  <2>4. Calm => Counting'
    BY <1>1, <1>2, <2>1, <2>2, <2>3 DEF Counting, Players
  <2> QED
    BY <1>3, <2>1, <2>2, <2>4
<1>5. CASE ParentActs
  <2>1. /\ pc[Parent] = "act" /\ To(Parent, "load") /\ mem' = Exchange(Parent)
        /\ UNCHANGED <<forkVars, test, curr, failed, faulted>>
    BY <1>5 DEF ParentActs
  <2>2. pc'[Parent] = "load" /\ pc'["counter"] = pc["counter"]
    BY <1>1, <2>1, ParentLabel
  <2>3. mem'[0] = mem[0] \/ (mem[0] = curr[Parent] /\ mem'[0] = mem[0] + 1)
    BY <1>1, <2>1, ExchangeTurn DEF number
  <2>4. Calm => Counting'
    <3>1. ASSUME Calm PROVE mem'[0] \in 0 .. N
      <4>1. curr[Parent] < N /\ mem[0] \in 0 .. N
        BY <1>2, <2>1, <3>1 DEF Counting, Players
      <4> QED
        BY <1>1, <2>3, <4>1
    <3> QED
      BY <1>2, <2>1, <2>2, <3>1 DEF Counting, Players
  <2> QED
    BY <1>3, <2>1, <2>4
<1> QED
  BY <1>4, <1>5

LEMMA MutexExpects ==
  ASSUME IInv, TInv, EInv, Spin \/ Lock \/ Unlock
  PROVE  EInv'
<1>1. /\ Orderly /\ test = 3 /\ 0 \in DOMAIN mem /\ 1 \in DOMAIN mem /\ "holder" \in Kids
      /\ pc[Parent] # "construct"
  BY Where, CountsAssumption DEF EInv, Spin, Lock, Unlock, TInv, Words
<1>2. Calm => Holding
  BY <1>1 DEF EInv, Facts
<1>3. /\ ref("atomic_mutex", "mutex") = mem[1] /\ ref("atomic_mutex", "semaphore") = mem[0]
      /\ \A x : Store("atomic_mutex", "mutex", x) => mem' = [mem EXCEPT ![1] = x]
  BY Offsets DEF ref, Store
<1>4. ASSUME NEW label, To(Parent, label), label \in {"lock", "unlock", "join"},
             UNCHANGED <<forkVars, test, curr, faulted>>, Calm => Holding',
             \A f \in failed' : f \in failed \/ \E name : f = <<test, name>> /\ Excused(f)'
      PROVE  EInv'
  <2>1. label \in Labels[test] \ {"construct"}
    BY <1>1, <1>4, Where DEF Stops
  <2>2. GoesOn(label)
    BY <1>4, <2>1 DEF GoesOn, forkVars
  <2>3. pc'[Parent] = label
    BY <1>4, ParentLabel
  <2>4. Calm => Facts' /\ Joins'
    BY <1>1, <1>4, <2>3 DEF Facts, Joins
  <2> QED
    BY <1>4, <2>2, <2>4, GoesOnExpects
<1>5. CASE Spin
  <2>1. To(Parent, "lock") /\ mem[0] # 0 /\ UNCHANGED <<forkVars, mem, test, curr, failed, faulted>>
    BY <1>3, <1>5 DEF Spin
  <2>2. pc'[Parent] = "lock" /\ pc'["holder"] = pc["holder"]
    BY <1>1, <2>1, ParentLabel
  <2>3. Calm => Holding'
    BY <1>1, <1>2, <2>1, <2>2 DEF Holding
  <2> QED
    BY <1>4, <2>1, <2>3
<1>6. CASE Lock
  <2>1. /\ pc[Parent] = "lock" /\ To(Parent, "unlock") /\ mem[1] = 0
        /\ mem' = [mem EXCEPT ![1] = 1] /\ UNCHANGED <<forkVars, test, curr, faulted>>
        /\ failed' = IF curr["holder"] = 1 THEN failed ELSE failed \cup {<<test, "measured">>}
    BY <1>3, <1>6 DEF Lock, Expect
  <2>2. pc'[Parent] = "unlock" /\ pc'["holder"] = pc["holder"]
    BY <1>1, <2>1, ParentLabel
  <2>3. mem'[0] = mem[0] /\ mem'[1] = 1
    BY <1>1, <2>1
  <2>4. Calm => pc["holder"] \in Past /\ curr["holder"] = 1
    BY <1>1, <1>2, <2>1 DEF Holding
  <2>5. Calm => Holding'
    BY <1>1, <1>2, <2>1, <2>2, <2>3, <2>4 DEF Holding
  <2>6. GoesOn("unlock")
    BY <1>1, <2>1, Where DEF GoesOn, forkVars
  <2>7. ASSUME NEW f \in failed', f \notin failed
        PROVE  \E name : f = <<test, name>> /\ Excused(f)'
    <3>1. f = <<test, "measured">> /\ curr["holder"] # 1
      BY <2>1, <2>7
    <3> QED
      BY <1>1, <2>4, <2>6, <3>1, GoesOnStep, Uncalm
  <2> QED
    BY <1>4, <2>1, <2>5, <2>7
<1>7. CASE Unlock
  <2>1. /\ pc[Parent] = "unlock" /\ To(Parent, "join") /\ mem' = [mem EXCEPT ![1] = 0]
        /\ UNCHANGED <<forkVars, test, curr, failed, faulted>>
    BY <1>3, <1>7 DEF Unlock
  <2>2. pc'[Parent] = "join" /\ pc'["holder"] = pc["holder"]
    BY <1>1, <2>1, ParentLabel
  <2>3. mem'[0] = mem[0]
    BY <1>1, <2>1
  <2>4. Calm => Holding'
    BY <1>1, <1>2, <2>1, <2>2, <2>3 DEF Holding, Past
  <2> QED
    BY <1>4, <2>1, <2>4
<1> QED
  BY <1>5, <1>6, <1>7

\* The parent starts the i-th child of its test.
LEMMA ForkExpects ==
  ASSUME IInv, TInv, EInv, NEW i \in {1, 2}, ForkChild(i)
  PROVE  EInv'
<1> DEFINE c == Children[Current][i]
           after == Then(i, "fork2", Body[Current])
<1>1. /\ Orderly /\ pc[Parent] \in {"fork", "fork2"} /\ i <= Len(Children[Current])
      /\ Fork(c) /\ pc' = [pc EXCEPT ![c] = "open", ![Parent] = after]
      /\ UNCHANGED <<mem, test, curr, failed, faulted>> /\ Settled
  BY DEF EInv, ForkChild, At
<1>2. test \in 1 .. 5 /\ (i = 2 => test = 5)
  BY <1>1, Where, Casting DEF Orderly
<1>3. c \in KidsOf[test] /\ c \in Six /\ TestOf(c) = test /\ c \in Kids
  BY <1>1, <1>2, Casting, Kinds
<1>4. /\ test = 1 => after = "load"
      /\ test = 2 => after = "join"
      /\ test = 3 => after = "spin"
      /\ test = 4 => after = "join"
      /\ test = 5 => after \in {"fork2", "join"}
  <2>1. /\ test \in 1 .. 4 => after = Body[Current]
        /\ test = 5 => after = IF i = 1 THEN "fork2" ELSE Body[Current]
    BY <1>1, <1>2, Casting
  <2> HIDE DEF after
  <2> QED
    BY <1>2, <2>1 DEF Current, Tests, Body
<1> HIDE DEF c, after
<1>5. after \in Labels[test] \ {"construct"}
  <2>1. test = 1 \/ test = 2 \/ test = 3 \/ test = 4 \/ test = 5
    BY <1>2
  <2> QED
    BY <1>1, <1>4, <2>1, Where DEF Stops
<1>6. Orderly' /\ Onward
  BY <1>1, <1>3, <1>5, StartStep
<1>7. /\ pc'[c] = "open" /\ pc'[Parent] = after /\ \A d \in Kids \ {c} : pc'[d] = pc[d]
  <2>1. /\ DOMAIN pc = Kids \cup {Parent} /\ c # Parent /\ c \in DOMAIN pc
        /\ Parent \in DOMAIN pc /\ \A d \in Kids : d # Parent /\ d \in DOMAIN pc
    BY <1>3, CountsAssumption DEF IInv, Shaped
  <2> QED
    BY <1>1, <2>1
<1>8. pc[c] = "none"
  BY <1>1, <1>3 DEF Orderly, Lives, Fork
<1>9. \A f \in failed' : f[1] \in 1 .. test' /\ Excused(f)'
  BY <1>1, <1>6, FailedStep
<1>10. ASSUME Facts PROVE Facts'
  <2>1. CASE test = 1
    <3>1. c = "counter" /\ pc'["counter"] = "open" /\ pc'[Parent] = "load"
      BY <1>3, <1>4, <1>7, <2>1 DEF KidsOf
    <3> QED
      BY <1>1, <1>10, <2>1, <3>1 DEF Facts, Counting, Players
  <2>2. CASE test = 2
    <3>1. c = "filler" /\ pc'["filler"] = "open" /\ pc["filler"] = "none"
      BY <1>3, <1>7, <1>8, <2>2 DEF KidsOf
    <3>2. pc[Parent] # "construct" /\ Filling
      BY <1>1, <1>10, <2>2 DEF Facts
    <3>3. Filling'
      BY <1>1, <3>1, <3>2 DEF Filling, Fresh, Past
    <3> QED
      BY <1>1, <2>2, <3>3 DEF Facts
  <2>3. CASE test = 3
    <3>1. c = "holder" /\ pc'[Parent] = "spin"
      BY <1>3, <1>4, <1>7, <2>3 DEF KidsOf
    <3> QED
      BY <1>1, <1>7, <1>8, <1>10, <2>3, <3>1 DEF Facts, Holding, Past
  <2>4. CASE test = 4
    <3>1. c = "changer" /\ pc'["changer"] = "open" /\ pc["changer"] = "none"
      BY <1>3, <1>7, <1>8, <2>4 DEF KidsOf
    <3>2. pc[Parent] # "construct" /\ Changing
      BY <1>1, <1>10, <2>4 DEF Facts
    <3>3. Changing'
      BY <1>1, <3>1, <3>2 DEF Changing, Fresh, Past
    <3> QED
      BY <1>1, <2>4, <3>3 DEF Facts
  <2>5. CASE test = 5
    <3>1. c \in {"waiter", "poster"} /\ "waiter" \in Kids /\ "poster" \in Kids
      BY <1>3, <2>5, Kinds DEF KidsOf
    <3>2. Posting /\ pc[Parent] # "construct"
      BY <1>1, <1>10, <2>5 DEF Facts
    <3>3. /\ pc'["waiter"] \in {"open", pc["waiter"]} /\ pc'["poster"] \in {"open", pc["poster"]}
          /\ mem' = mem
      BY <1>1, <1>7, <3>1
    <3>4. Posting'
      BY <3>2, <3>3 DEF Posting, Past
    <3> QED
      BY <1>1, <2>5, <3>4 DEF Facts
  <2> QED
    BY <1>2, <2>1, <2>2, <2>3, <2>4, <2>5
<1>11. Joins'
  <2>1. pc'[Parent] \notin {"check", "join2"}
    BY <1>2, <1>4, <1>7
  <2> QED
    BY <2>1 DEF Joins
<1>12. Calm' => Facts' /\ Joins'
  BY <1>1, <1>6, <1>10, <1>11, CalmBefore DEF EInv
<1>13. Settled'
  <2>1. pc'[Parent] # "check"
    BY <1>2, <1>4, <1>7
  <2>2. ASSUME NEW d \in Kids, Stray(d, test)' PROVE TestOf(d) \in faulted'
    <3>1. d # c
      BY <1>1, <1>2, <1>3, <2>2 DEF Stray
    <3>2. proc'[d] = proc[d] /\ UNCHANGED <<test, faulted>>
      BY <1>1, <3>1 DEF Fork, IInv, Shaped
    <3> QED
      BY <1>1, <2>2, <3>2 DEF Settled, StraysFromFaults, Stray
  <2> QED
    BY <2>1, <2>2 DEF Settled, StraysFromFaults
<1> QED
  BY <1>6, <1>9, <1>12, <1>13 DEF EInv

\* A failure in a test that has had a fault is excused.
LEMMA FaultExcuses ==
  ASSUME Orderly, test \in faulted', NEW f, NEW name, f = <<test, name>>
  PROVE  Excused(f)'
BY DEF Excused

\* A fork is refused, which is a fault of the test.
LEMMA RefusedExpects ==
  ASSUME IInv, TInv, EInv, NEW i \in {1, 2}, ForkFails(i)
  PROVE  EInv'
<1>1. /\ Orderly /\ pc[Parent] \in {"fork", "fork2"} /\ i <= Len(Children[Current])
      /\ faulted' = faulted \cup {test} /\ UNCHANGED <<proc, returned, curr>>
      /\ \A f \in failed' : f \in failed \/ f = <<test, "forked">>
  BY DEF EInv, ForkFails, At, ForkRefused, Expect
<1>2. test \in 1 .. 5 /\ (i = 2 => test = 5)
  BY <1>1, Where, Casting DEF Orderly
<1>3. \E label : GoesOn(label)
  <2>1. CASE Fatal
    <3>1. PICK label : To(Parent, label) /\ IF test' = test THEN label \in {"done", "stopped"}
                         ELSE test < 5 /\ test' = test + 1 /\ label = "construct"
      BY <1>1, <2>1, FatalGoes
    <3>2. GoesOn(label)
      BY <1>1, <3>1, Where DEF GoesOn, Stops
    <3> QED
      BY <3>2
  <2>2. CASE ~Checked /\ To(Parent, Then(i, "fork2", Body[Current])) /\ UNCHANGED test
    <3> DEFINE after == Then(i, "fork2", Body[Current])
    <3>1. test \in {4, 5}
      BY <1>2, <2>2 DEF Checked, Current, Tests
    <3>2. /\ test = 4 => after = "join"
          /\ test = 5 => after \in {"fork2", "join"}
      <4>1. /\ test = 4 => after = Body[Current]
            /\ test = 5 => after = IF i = 1 THEN "fork2" ELSE Body[Current]
        BY <1>1, <1>2, Casting
      <4> HIDE DEF after
      <4> QED
        BY <3>1, <4>1 DEF Current, Tests, Body
    <3> HIDE DEF after
    <3>3. after \in Labels[test] \ {"construct"}
      BY <1>1, <3>1, <3>2, Where DEF Stops
    <3>4. GoesOn(after)
      BY <1>1, <2>2, <3>3 DEF GoesOn, after
    <3> QED
      BY <3>4
  <2> QED
    BY <2>1, <2>2 DEF ForkFails
<1>4. PICK label : GoesOn(label)
  BY <1>3
<1>5. test' = test => ~Calm'
  BY <1>1 DEF Calm
<1>6. ASSUME NEW f \in failed', f \notin failed
      PROVE  \E name : f = <<test, name>> /\ Excused(f)'
  BY <1>1, <1>6, FaultExcuses
<1>7. test \in faulted'
  BY <1>1
<1> QED
  BY <1>4, <1>5, <1>6, <1>7, GoesOnExpects

\* The parent gets an answer from join.
LEMMA AnswerExpects ==
  ASSUME IInv, TInv, EInv, NEW i \in {1, 2}, JoinChild(i) \/ JoinFails(i)
  PROVE  EInv'
<1> DEFINE d == Children[Current][i]
           yes == joined'[d] = "true"
           after == Then(i, "join2", "check")
<1>1. /\ Orderly /\ i <= Len(Children[Current])
      /\ pc[Parent] = (IF i = 1 THEN "join" ELSE "join2")
      /\ UNCHANGED <<mem, curr, returned>> /\ faulted' \in {faulted, faulted \cup {test}}
      /\ \/ Join(d) /\ UNCHANGED faulted
         \/ JoinInterrupted(d) /\ faulted' = faulted \cup {test}
  <2>1. /\ At(i, "join", "join2") /\ UNCHANGED <<mem, curr>>
        /\ \/ Join(d) /\ UNCHANGED faulted
           \/ JoinInterrupted(d) /\ faulted' = faulted \cup {test}
    BY DEF JoinChild, JoinFails, Answered
  <2> HIDE DEF d
  <2> QED
    BY <2>1 DEF At, EInv, Join, JoinInterrupted
<1>2. /\ failed' = IF yes THEN failed ELSE failed \cup {<<test, "joined">>}
      /\ IF yes \/ Current = "basic_shared_mem" THEN To(Parent, after) /\ UNCHANGED test ELSE Fatal
  BY DEF JoinChild, JoinFails, Answered, Expect
<1>3. test \in 1 .. 5 /\ (i = 2 => test = 5)
  BY <1>1, Where, Casting DEF Orderly
<1>4. /\ d \in KidsOf[test] /\ d \in Six /\ TestOf(d) = test /\ d \in Kids
      /\ test \in 1 .. 4 => i = 1 /\ after = "check"
      /\ test = 5 => /\ d = IF i = 1 THEN "waiter" ELSE "poster"
                     /\ after = IF i = 1 THEN "join2" ELSE "check"
  BY <1>1, <1>3, Casting, Kinds
<1>5. Current = "basic_shared_mem" <=> test = 1
  BY <1>3 DEF Current, Tests
<1> HIDE DEF d, after
<1>6. PICK label : /\ To(Parent, label)
                   /\ IF test' = test THEN label \in {"done", "stopped", after}
                      ELSE test < 5 /\ test' = test + 1 /\ label = "construct"
  BY <1>1, <1>2, FatalGoes
<1>7. GoesOn(label)
  <2>1. after \in Labels[test] \ {"construct"}
    BY <1>1, <1>3, <1>4, Where DEF Stops
  <2>2. \/ UNCHANGED proc
        \/ proc[d] = "zombie" /\ proc' = [proc EXCEPT ![d] = "gone"]
    BY <1>1 DEF Join, JoinInterrupted
  <2>3. test' = test => label \in Labels[test] \ {"construct"}
    BY <1>1, <1>6, <2>1, Where DEF Stops
  <2> QED
    BY <1>1, <1>4, <1>6, <2>2, <2>3 DEF GoesOn
<1>8. pc'[Parent] = label /\ \A c \in Kids : pc'[c] = pc[c]
  BY <1>6, ParentLabel
<1>9. Onward
  BY <1>1, <1>7, GoesOnStep
<1>10. CASE JoinInterrupted(d) /\ faulted' = faulted \cup {test}
  <2>1. test' = test => ~Calm'
    BY <1>10 DEF Calm
  <2>2. ASSUME NEW f \in failed', f \notin failed
        PROVE  \E name : f = <<test, name>> /\ Excused(f)'
    <3>1. f = <<test, "joined">>
      BY <1>2, <2>2
    <3> QED
      BY <1>1, <1>10, <3>1, FaultExcuses
  <2>3. test \in faulted'
    BY <1>10
  <2> QED
    BY <1>7, <2>1, <2>2, <2>3, GoesOnExpects
<1>11. CASE Join(d)
  <2>1. /\ proc[d] = "zombie"
        /\ joined'[d] = IF WEXITSTATUS(status[d]) = EXIT_SUCCESS THEN "true" ELSE "false"
    BY <1>4, <1>11 DEF Join, IInv, Shaped
  <2>2. Ended(d)
    BY <1>4, <2>1 DEF IInv, Told
  <2>3. Calm => pc[d] = "returned"
    BY <1>1, <1>4, <2>2 DEF Ended, Orderly, Lives, Calm
  <2>4. Calm /\ ~yes => d = "counter" /\ returned[d] = "false"
    BY <2>1, <2>2, <2>3, Words256 DEF Ended
  <2>5. ASSUME NEW f \in failed', f \notin failed
        PROVE  \E name : f = <<test, name>> /\ Excused(f)'
    <3>1. f = <<test, "joined">> /\ ~yes
      BY <1>2, <2>5
    <3>2. CASE ~Calm
      BY <1>1, <1>9, <3>1, <3>2, Uncalm
    <3>3. CASE Calm
      <4>1. d = "counter" /\ test = 1 /\ returned'["counter"] = "false"
        BY <1>4, <1>7, <2>4, <3>1, <3>3, Belongs DEF GoesOn
      <4>2. f = <<1, "joined">>
        BY <3>1, <4>1
      <4> QED
        BY <3>1, <4>1, <4>2 DEF Excused
    <3> QED
      BY <3>2, <3>3
  <2>6. ASSUME test' = test, Calm PROVE Facts'
    <3>1. Facts /\ label \in {"done", "stopped", "check", "join2"}
      BY <1>3, <1>4, <1>6, <2>6 DEF EInv
    <3> QED
      BY <1>1, <1>3, <1>6, <2>6, <3>1, QuietFacts
  <2>7. ASSUME test' = test, Calm PROVE Joins'
    <3>1. pc'[d] = "returned" /\ label \in {"done", "stopped", after} /\ Joins
      BY <1>4, <1>6, <1>8, <2>3, <2>7 DEF EInv
    <3>2. CASE test \in 1 .. 4
      <4>1. KidsOf[test] = {d} /\ label # "join2"
        <5>1. test = 1 \/ test = 2 \/ test = 3 \/ test = 4
          BY <3>2
        <5> QED
          BY <1>4, <3>1, <3>2, <5>1 DEF KidsOf
      <4> QED
        BY <1>8, <2>7, <3>1, <4>1 DEF Joins
    <3>3. CASE test = 5
      <4>1. KidsOf[test] = {"waiter", "poster"}
        BY <3>3 DEF KidsOf
      <4>2. i = 2 => pc'["waiter"] = "returned"
        BY <1>1, <1>8, <3>1, Kinds DEF Joins
      <4> QED
        BY <1>4, <1>8, <2>7, <3>1, <3>3, <4>1, <4>2 DEF Joins
    <3> QED
      BY <1>3, <3>2, <3>3
  <2>8. test < 5 => \A c \in KidsOf[test] : proc'[c] = "gone"
    <3>1. proc'[d] = "gone"
      BY <1>4, <1>11 DEF Join, IInv, Shaped
    <3>2. test < 5 => KidsOf[test] = {d}
      <4>1. test < 5 => test = 1 \/ test = 2 \/ test = 3 \/ test = 4
        BY <1>3
      <4> QED
        BY <1>4, <4>1 DEF KidsOf
    <3> QED
      BY <3>1, <3>2
  <2> QED
    BY <1>7, <2>5, <2>6, <2>7, <2>8, GoesOnExpects
<1> QED
  BY <1>1, <1>10, <1>11

\* What is expected at the end of a calm test is there.
LEMMA ResultsHold ==
  ASSUME Orderly, Calm, Facts, Joins, pc[Parent] = "check", NEW r \in Results[Current], ~r[2]
  PROVE  r[1] \in {"child_spins", "parent_spins"}
<1>1. test \in 1 .. 5 /\ \A c \in KidsOf[test] : pc[c] = "returned"
  BY DEF Orderly, Joins
<1>2. CASE test = 1
  <2>1. Current = "basic_shared_mem" /\ mem[0] = N
    BY <1>2 DEF Current, Tests, Facts, Counting
  <2>2. ref("basic_shared_mem", "sync_counter") = N
    BY <2>1, CounterWords DEF ref
  <2>3. r \in 
            {<<"counter", ref("basic_shared_mem", "sync_counter") = N>>,
             <<"child_spins", ref("basic_shared_mem", "child_counter") >= N>>,
             <<"parent_spins", spins >= N>>}
    BY <2>1, Zenon DEF Results
  <2>4. (ref("basic_shared_mem", "sync_counter") = N) = TRUE
    BY <2>2
  <2>5. CASE r = <<"counter", ref("basic_shared_mem", "sync_counter") = N>>
    <3>1. r = <<"counter", TRUE>>
      BY <2>4, <2>5
    <3> QED
      BY <3>1
  <2>6. CASE \/ r = <<"child_spins", ref("basic_shared_mem", "child_counter") >= N>>
             \/ r = <<"parent_spins", spins >= N>>
    BY <2>6
  <2> QED
    BY <2>3, <2>5, <2>6
<1>3. CASE test = 2
  <2>1. Current = "complex_objects" /\ mem[0] = 4
    BY <1>1, <1>3 DEF Current, Tests, Facts, Filling, KidsOf, Past
  <2>2. ref("complex_objects", "vector") = 4
    BY <2>1, Offsets DEF ref
  <2>3. r \in {<<"vector", ref("complex_objects", "vector") = 4>>}
    BY <2>1, Zenon DEF Results
  <2>4. (ref("complex_objects", "vector") = 4) = TRUE
    BY <2>2
  <2>5. r = <<"vector", TRUE>>
    BY <2>3, <2>4
  <2> QED
    BY <2>5
<1>4. CASE test = 3
  BY <1>4 DEF Current, Tests, Results
<1>5. CASE test = 4
  <2>1. Current = "multiple_data" /\ mem[0] = 2 /\ mem[1] = 4 /\ mem[3] = 2 /\ mem[2] = 2
    <3>1. pc["changer"] \in Past /\ Changing
      BY <1>1, <1>5 DEF Facts, KidsOf, Past
    <3>2. curr["changer"] = 9
      BY <3>1 DEF Changing
    <3> QED
      BY <1>5, <3>1, <3>2 DEF Current, Tests, Changing
  <2>2. \A e \in {"foo", "vector", "message", "ref"} :
          ref("multiple_data", e) = (IF e = "vector" THEN 4 ELSE 2)
    BY <2>1, Offsets DEF ref
  <2>3. r \in 
            {<<d, ref("multiple_data", d) = (IF d = "vector" THEN 4 ELSE 2)>> :
               d \in {"foo", "vector", "message", "ref"}}
    BY <2>1, Zenon DEF Results
  <2>4. PICK e \in {"foo", "vector", "message", "ref"} :
          r = <<e, ref("multiple_data", e) = (IF e = "vector" THEN 4 ELSE 2)>>
    BY <2>3
  <2>5. (ref("multiple_data", e) = (IF e = "vector" THEN 4 ELSE 2)) = TRUE
    BY <2>2
  <2>6. r = <<e, TRUE>>
    BY <2>4, <2>5
  <2> QED
    BY <2>6
<1>6. CASE test = 5
  <2>1. Current = "semaphore" /\ mem[2] = 2
    BY <1>1, <1>6 DEF Current, Tests, Facts, Posting, KidsOf, Past
  <2>2. ref("semaphore", "integer") = 2
    BY <2>1, Offsets DEF ref
  <2>3. r \in {<<"integer", ref("semaphore", "integer") = 2>>}
    BY <2>1, Zenon DEF Results
  <2>4. (ref("semaphore", "integer") = 2) = TRUE
    BY <2>2
  <2>5. r = <<"integer", TRUE>>
    BY <2>3, <2>4
  <2> QED
    BY <2>5
<1> QED
  BY <1>1, <1>2, <1>3, <1>4, <1>5, <1>6

LEMMA CheckExpects ==
  ASSUME IInv, TInv, EInv, Check
  PROVE  EInv'
<1>1. /\ Orderly /\ pc[Parent] = "check" /\ NextTest /\ UNCHANGED <<forkVars, mem, curr, faulted>>
      /\ failed' = failed \cup {<<test, r[1]>> : r \in {q \in Results[Current] : ~q[2]}}
  BY DEF EInv, Check
<1>2. PICK label : To(Parent, label) /\ IF test' = test THEN label = "done"
                     ELSE test < 5 /\ test' = test + 1 /\ label = "construct"
  BY <1>1, NextGoes
<1>3. GoesOn(label)
  BY <1>1, <1>2, Where DEF GoesOn, Stops, forkVars
<1>4. Onward
  BY <1>1, <1>3, GoesOnStep
<1>5. ASSUME NEW f \in failed', f \notin failed
      PROVE  \E name : f = <<test, name>> /\ Excused(f)'
  <2>1. PICK r \in Results[Current] : ~r[2] /\ f = <<test, r[1]>>
    BY <1>1, <1>5
  <2>2. CASE ~Calm
    BY <1>1, <1>4, <2>1, <2>2, Uncalm
  <2>3. CASE Calm
    <3>1. r[1] \in {"child_spins", "parent_spins"}
      BY <1>1, <2>1, <2>3, ResultsHold DEF EInv
    <3>2. f[2] \in {"child_spins", "parent_spins"}
      BY <2>1, <3>1
    <3> QED
      BY <2>1, <3>2 DEF Excused
  <2> QED
    BY <2>2, <2>3
<1>6. ASSUME test' = test, Calm PROVE Facts' /\ Joins'
  <2>1. label = "done" /\ Facts
    BY <1>2, <1>6 DEF EInv
  <2>2. pc'[Parent] = "done"
    BY <1>2, <2>1, ParentLabel
  <2> QED
    BY <1>1, <1>2, <1>6, <2>1, <2>2, QuietFacts DEF Joins
<1>7. test < 5 => \A c \in KidsOf[test] : proc'[c] = "gone" \/ test \in faulted'
  BY <1>1 DEF EInv, Settled, forkVars
<1> QED
  BY <1>3, <1>5, <1>6, <1>7, GoesOnExpects

LEMMA NothingExpects ==
  ASSUME IInv, TInv, EInv, NEW i \in {1, 2}, JoinNothing(i)
  PROVE  EInv'
<1>1. /\ Orderly /\ To(Parent, "undefined")
      /\ UNCHANGED <<forkVars, mem, test, curr, failed, faulted>>
      /\ pc[Parent] # "construct"
  BY DEF EInv, JoinNothing, At
<1>2. GoesOn("undefined")
  BY <1>1, Where DEF GoesOn, Stops, forkVars
<1>3. pc'[Parent] = "undefined"
  BY <1>1, ParentLabel
<1>4. Calm => Facts' /\ Joins'
  BY <1>1, <1>3, QuietFacts DEF EInv, Joins
<1> QED
  BY <1>1, <1>2, <1>4, GoesOnExpects

LEMMA ExpectsStart == Init => EInv
<1> SUFFICES ASSUME Init PROVE EInv
  OBVIOUS
<1>1. /\ test = 1 /\ faulted = {} /\ failed = {} /\ pc[Parent] = "construct"
      /\ \A c \in Kids : proc[c] = "none" /\ pc[c] = "none" /\ curr[c] = 0
      /\ mem[0] = 0 /\ "counter" \in Kids /\ N \in Nat
  BY CountsAssumption DEF Init, ForkInit, Words
<1>2. Orderly
  BY <1>1 DEF Orderly, Lives, Labels, Stops
<1>3. Facts /\ Joins /\ Settled
  BY <1>1 DEF Facts, Counting, Players, Joins, Settled, StraysFromFaults, Stray
<1> QED
  BY <1>1, <1>2, <1>3 DEF EInv

LEMMA ExpectsStep == IInv /\ TInv /\ EInv /\ [Next]_vars => EInv'
<1> SUFFICES ASSUME IInv, TInv, EInv, [Next]_vars PROVE EInv'
  OBVIOUS
<1>1. CASE UNCHANGED vars
  BY <1>1 DEF vars, forkVars, EInv, Orderly, Lives, Excused, Stray, Calm, Facts, Counting,
              Filling, Holding, Changing, Posting, Joins, Settled, StraysFromFaults
<1>2. CASE ParentRuns
  BY <1>2, ConstructExpects, TurnExpects, MutexExpects, CheckExpects, ForkExpects,
     AnswerExpects, NothingExpects DEF ParentRuns
<1>3. CASE ParentFails
  BY <1>3, RefusedExpects, AnswerExpects DEF ParentFails
<1> QED
  BY <1>1, <1>2, <1>3, ChildKeeps DEF Next

\* What a test expects of its children's work is there when it comes to look,
\* unless there was a fault during the test, or a child of an earlier test that
\* nobody has joined is about: for every number of counts, whatever faults there
\* are and in whatever order the processes go on.
THEOREM ExpectationsHoldHolds == Spec => []ExpectationsHold
<1>1. Init => TInv
  BY CountsAssumption DEF Init, ForkInit, TInv, Players, number, Words
<1>2. IInv /\ TInv /\ [Next]_vars => TInv'
  BY TurnsStep
<1>3. EInv => ExpectationsHold
  BY DEF EInv, Excused, ExpectationsHold
<1> QED
  BY <1>1, <1>2, <1>3, Start, Steps, ExpectsStart, ExpectsStep, PTL DEF Spec

\* A test's child is in the segment of later tests only if there was a fault in its own
\* test: nothing but a join that was interrupted forgets one, whichever expectation ends
\* the test.
THEOREM StraysFromFaultsHolds == Spec => []StraysFromFaults
<1>1. Init => TInv
  BY CountsAssumption DEF Init, ForkInit, TInv, Players, number, Words
<1>2. IInv /\ TInv /\ [Next]_vars => TInv'
  BY TurnsStep
<1>3. EInv => StraysFromFaults
  BY DEF EInv, Settled
<1> QED
  BY <1>1, <1>2, <1>3, Start, Steps, ExpectsStart, ExpectsStep, PTL DEF Spec

==================================================================================
