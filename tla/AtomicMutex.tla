----------------------------- MODULE AtomicMutex -----------------------------
(***************************************************************************)
(* atomic_mutex: one atomic flag in memory that several processes share.   *)
(* lock() spins on a compare-exchange, try_lock() makes a bounded number   *)
(* of attempts, unlock() is a compare-exchange back.  Nothing records the  *)
(* owner.  The callers use the mutex as std::unique_lock does: whoever     *)
(* locked it unlocks it, around a read and a write of an ordinary counter  *)
(* in the same memory.  A forked process may be killed between any two of  *)
(* its steps, and what it has locked stays locked.                         *)
(***************************************************************************)
EXTENDS Integers

CONSTANTS
  Procs,     \* the processes that have mapped the mutex
  NoOne,     \* nobody owns the mutex
  Mortal,    \* the processes that may be killed
  MaxTries,  \* bound of the model: the largest "tries" passed to try_lock
  MaxCount   \* bound of the model: no process enters when the counter is here

ASSUME MutexAssumption ==
  NoOne \notin Procs /\ Mortal \subseteq Procs /\ MaxTries \in Nat /\ MaxCount \in Nat

VARIABLES
  state,     \* state_
  pc,        \* where each process is
  left,      \* the attempts its try_lock has left
  seen,      \* the value of the counter it has read
  count,     \* the counter
  dead,      \* the processes that were killed
  completed  \* history: the number of increments made

vars == <<state, pc, left, seen, count, dead, completed>>

Init ==
  /\ state = FALSE
  /\ pc = [p \in Procs |-> "idle"]
  /\ left = [p \in Procs |-> 0]
  /\ seen = [p \in Procs |-> 0]
  /\ count = 0
  /\ dead = {}
  /\ completed = 0

Goto(p, from, to) == pc[p] = from /\ pc' = [pc EXCEPT ![p] = to]

\* A faulty exchange, which does not look at the flag.
ExchangeAnyway(value) == state' = value

\* state_.compare_exchange_strong(expected, value), which succeeds.
Exchange(value) == state = ~value /\ state' = value

CallLock(p) ==
  /\ count < MaxCount
  /\ Goto(p, "idle", "lock")
  /\ UNCHANGED <<state, left, seen, count, completed>>

LockTakes(p) ==
  /\ Goto(p, "lock", "locked") /\ Exchange(TRUE)
  /\ UNCHANGED <<left, seen, count, completed>>

\* The exchange fails and the process yields.
LockYields(p) ==
  /\ pc[p] = "lock" /\ state
  /\ UNCHANGED <<state, pc, left, seen, count, completed>>

\* try_lock(sleep_delay, tries)
CallTryLock(p, tries) ==
  /\ count < MaxCount
  /\ Goto(p, "idle", "try")
  /\ left' = [left EXCEPT ![p] = tries]
  /\ UNCHANGED <<state, seen, count, completed>>

TryTakes(p) ==
  /\ left[p] > 0
  /\ Goto(p, "try", "locked") /\ Exchange(TRUE)
  /\ UNCHANGED <<left, seen, count, completed>>

TryFails(p) ==
  /\ left[p] > 0 /\ pc[p] = "try" /\ state
  /\ left' = [left EXCEPT ![p] = @ - 1]
  /\ UNCHANGED <<state, pc, seen, count, completed>>

\* A faulty return, true when no attempt is left.
TryReturnsTrue(p) ==
  /\ left[p] = 0
  /\ Goto(p, "try", "locked")
  /\ UNCHANGED <<state, left, seen, count, completed>>

\* No attempt is left: try_lock returns false.
TryReturns(p) ==
  /\ left[p] = 0
  /\ Goto(p, "try", "idle")
  /\ UNCHANGED <<state, left, seen, count, completed>>

\* The caller's critical section.
Read(p) ==
  /\ Goto(p, "locked", "update")
  /\ seen' = [seen EXCEPT ![p] = count]
  /\ UNCHANGED <<state, left, count, completed>>

Write(p) ==
  /\ Goto(p, "update", "unlock")
  /\ count' = seen[p] + 1
  /\ completed' = completed + 1
  /\ UNCHANGED <<state, left, seen>>

\* A faulty unlock, whose exchange expects the wrong value.
UnlockNothing(p) ==
  /\ Goto(p, "unlock", "idle")
  /\ UNCHANGED <<state, left, seen, count, completed>>

Unlock(p) ==
  /\ Goto(p, "unlock", "idle")
  /\ IF state THEN Exchange(FALSE) ELSE UNCHANGED state
  /\ UNCHANGED <<left, seen, count, completed>>

\* The process is killed.
Die(p) ==
  /\ p \in Mortal /\ dead' = dead \cup {p}
  /\ UNCHANGED <<state, pc, left, seen, count, completed>>

InLock(p) == LockTakes(p) \/ LockYields(p)
InTryLock(p) == TryTakes(p) \/ TryFails(p) \/ TryReturns(p)
InSection(p) == Read(p) \/ Write(p) \/ Unlock(p)

Step(p) ==
  /\ p \notin dead
  /\ \/ /\ \/ CallLock(p) \/ \E tries \in 0 .. MaxTries : CallTryLock(p, tries)
           \/ InLock(p) \/ InTryLock(p) \/ InSection(p)
        /\ UNCHANGED dead
     \/ Die(p)

Next == \E p \in Procs : Step(p)

Spec == Init /\ [][Next]_vars

\* The operating system runs every process that is not killed; nothing says who
\* wins an exchange.
Alive(p, A) == p \notin dead /\ A /\ UNCHANGED dead
Fairness == \A p \in Procs : /\ WF_vars(Alive(p, InLock(p)))
                             /\ WF_vars(Alive(p, InTryLock(p)))
                             /\ WF_vars(Alive(p, InSection(p)))

FairSpec == Spec /\ Fairness

-------------------------------------------------------------------------------
TypeOK ==
  /\ state \in BOOLEAN
  /\ pc \in [Procs -> {"idle", "lock", "try", "locked", "update", "unlock"}]
  /\ left \in [Procs -> 0 .. MaxTries]
  /\ seen \in [Procs -> Nat]
  /\ count \in Nat /\ completed \in Nat
  /\ dead \subseteq Procs

Holds(p) == pc[p] \in {"locked", "update", "unlock"}

\* At most one process has the mutex, and the flag says whether one has it, be it
\* locked by lock() or by try_lock(), and however many processes were killed.
MutualExclusion ==
  /\ \A p, q \in Procs : Holds(p) /\ Holds(q) => p = q
  /\ state <=> \E p \in Procs : Holds(p)

\* No increment made under the mutex is lost.
NoLostUpdates == count = completed

\* The flag implements the promise of a mutex: the owner is the process between
\* a successful exchange and its unlock.
Owner == IF \E p \in Procs : Holds(p) THEN CHOOSE p \in Procs : Holds(p) ELSE NoOne
M == INSTANCE Mutex WITH owner <- Owner
ImplementsMutex == M!Spec

\* While a process spins in lock() some process gets the mutex, unless a process is
\* killed that holds it or that is the one spinning.  (That the spinning one gets it
\* is not promised.)
LockProgress ==
  (\E p \in Procs \ dead : pc[p] = "lock") ~>
    ((\E p \in Procs : pc[p] = "locked") \/ \E p \in dead : Holds(p) \/ pc[p] = "lock")

===============================================================================
