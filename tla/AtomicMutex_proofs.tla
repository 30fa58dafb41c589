-------------------------- MODULE AtomicMutex_proofs --------------------------
(***************************************************************************)
(* AtomicMutex for any number of processes, of which any may be killed.    *)
(***************************************************************************)
EXTENDS AtomicMutex, TLAPS

\* The inductive invariant: besides the flag and its one holder, a process that
\* is about to write has read the current value of the counter.
Inv ==
  /\ TypeOK
  /\ MutualExclusion
  /\ NoLostUpdates
  /\ \A p \in Procs : pc[p] = "update" => seen[p] = count

\* Inv holds at the start.
LEMMA InitInv == Init => Inv
<1> SUFFICES ASSUME Init PROVE Inv
  OBVIOUS
<1>1. TypeOK
  <2>1. state \in BOOLEAN
    BY DEF Init
  <2>2. left \in [Procs -> 0 .. MaxTries]
    BY MutexAssumption DEF Init
  <2> QED
    BY <2>1, <2>2 DEF Init, TypeOK
<1>2. \A p \in Procs : ~Holds(p) /\ pc[p] # "update"
  BY DEF Init, Holds
<1>3. MutualExclusion
  BY <1>2 DEF Init, MutualExclusion
<1> QED
  BY <1>1, <1>2, <1>3 DEF Init, Inv, NoLostUpdates

\* Every step of every process, being killed included, keeps Inv.
LEMMA NextInv == Inv /\ [Next]_vars => Inv'
<1> SUFFICES ASSUME Inv, [Next]_vars PROVE Inv'
  OBVIOUS
<1> USE MutexAssumption DEF Inv, TypeOK, MutualExclusion, NoLostUpdates, Holds
<1>1. ASSUME NEW p \in Procs, CallLock(p), UNCHANGED dead PROVE Inv'
  BY <1>1 DEF CallLock, Goto
<1>2. ASSUME NEW p \in Procs, LockTakes(p), UNCHANGED dead PROVE Inv'
  BY <1>2 DEF LockTakes, Goto, Exchange
<1>3. ASSUME NEW p \in Procs, LockYields(p), UNCHANGED dead PROVE Inv'
  BY <1>3 DEF LockYields
<1>4. ASSUME NEW p \in Procs, NEW tries \in 0 .. MaxTries, CallTryLock(p, tries),
             UNCHANGED dead
      PROVE Inv'
  BY <1>4 DEF CallTryLock, Goto
<1>5. ASSUME NEW p \in Procs, TryTakes(p), UNCHANGED dead PROVE Inv'
  BY <1>5 DEF TryTakes, Goto, Exchange
<1>6. ASSUME NEW p \in Procs, TryFails(p), UNCHANGED dead PROVE Inv'
  BY <1>6 DEF TryFails
<1>7. ASSUME NEW p \in Procs, TryReturns(p), UNCHANGED dead PROVE Inv'
  BY <1>7 DEF TryReturns, Goto
<1>8. ASSUME NEW p \in Procs, Read(p), UNCHANGED dead PROVE Inv'
  BY <1>8 DEF Read, Goto
<1>9. ASSUME NEW p \in Procs, Write(p), UNCHANGED dead PROVE Inv'
  BY <1>9 DEF Write, Goto
<1>10. ASSUME NEW p \in Procs, Unlock(p), UNCHANGED dead PROVE Inv'
  BY <1>10 DEF Unlock, Goto, Exchange
<1>11. ASSUME NEW p \in Procs, Die(p) PROVE Inv'
  BY <1>11 DEF Die
<1>12. CASE UNCHANGED vars
  BY <1>12 DEF vars
<1> QED
  BY <1>1, <1>2, <1>3, <1>4, <1>5, <1>6, <1>7, <1>8, <1>9, <1>10, <1>11, <1>12
     DEF Next, Step, InLock, InTryLock, InSection

\* Inv is an invariant of the specification.
THEOREM Invariance == Spec => []Inv
BY InitInv, NextInv, PTL DEF Spec

\* Every variable keeps its type: try_lock never counts below zero.
THEOREM TypeCorrect == Spec => []TypeOK
<1>1. Inv => TypeOK
  BY DEF Inv
<1> QED
  BY <1>1, Invariance, PTL

\* Two processes are never between their lock and their unlock together, and the
\* flag is set exactly while one is, killed or not.
THEOREM MutualExclusionHolds == Spec => []MutualExclusion
<1>1. Inv => MutualExclusion
  BY DEF Inv
<1> QED
  BY <1>1, Invariance, PTL

\* The counter that the mutex protects has counted every increment.
THEOREM NoLostUpdatesHolds == Spec => []NoLostUpdates
<1>1. Inv => NoLostUpdates
  BY DEF Inv
<1> QED
  BY <1>1, Invariance, PTL

-------------------------------------------------------------------------------
\* The owner that the refinement sees is the only process that holds the mutex.
LEMMA OwnerIs ==
  ASSUME MutualExclusion, NEW p \in Procs, Holds(p)
  PROVE  Owner = p
BY DEF Owner, MutualExclusion

\* Nobody owns a free mutex.
LEMMA NobodyOwns ==
  ASSUME \A p \in Procs : ~Holds(p)
  PROVE  Owner = NoOne
BY DEF Owner

\* The owner does not change when nobody starts or stops holding the mutex.
LEMMA OwnerKept ==
  ASSUME Inv, Inv', \A p \in Procs : Holds(p)' <=> Holds(p)
  PROVE  Owner' = Owner
<1>1. CASE \E p \in Procs : Holds(p)
  <2>1. PICK p \in Procs : Holds(p)
    BY <1>1
  <2>2. Owner = p
    BY <2>1, OwnerIs DEF Inv
  <2>3. Owner' = p
    BY <2>1 DEF Inv, MutualExclusion, Owner
  <2> QED
    BY <2>2, <2>3
<1>2. CASE \A p \in Procs : ~Holds(p)
  BY <1>2 DEF Owner
<1> QED
  BY <1>1, <1>2

\* A step of AtomicMutex is an acquisition, a release or a stutter of the mutex.
LEMMA StepImplements == Inv /\ Inv' /\ [Next]_vars => [M!Next]_Owner
<1> SUFFICES ASSUME Inv, Inv', [Next]_vars PROVE M!Next \/ Owner' = Owner
  BY DEF M!Next
<1>1. ASSUME NEW p \in Procs, LockTakes(p) \/ TryTakes(p) PROVE M!Acquire(p)
  <2>1. /\ pc' = [pc EXCEPT ![p] = "locked"]
        /\ state = FALSE
    BY <1>1 DEF LockTakes, TryTakes, Goto, Exchange, Inv, TypeOK
  <2>2. Owner = NoOne
    BY <2>1, NobodyOwns DEF Inv, MutualExclusion
  <2>3. Holds(p)'
    BY <2>1 DEF Holds, Inv, TypeOK
  <2>4. Owner' = p
    BY <2>3 DEF Inv, MutualExclusion, Owner
  <2> QED
    BY <2>2, <2>4 DEF M!Acquire
<1>2. ASSUME NEW p \in Procs, Unlock(p) PROVE M!Release(p)
  <2>1. /\ pc' = [pc EXCEPT ![p] = "idle"]
        /\ Holds(p)
    BY <1>2 DEF Unlock, Goto, Holds
  <2>2. Owner = p
    BY <2>1, OwnerIs DEF Inv
  <2>3. \A q \in Procs : ~Holds(q)'
    BY <2>1 DEF Inv, MutualExclusion, Holds, TypeOK
  <2>4. Owner' = NoOne
    BY <2>3 DEF Owner
  <2> QED
    BY <2>2, <2>4 DEF M!Release
<1>3. ASSUME NEW p \in Procs,
             \/ CallLock(p) \/ LockYields(p)
             \/ \E tries \in 0 .. MaxTries : CallTryLock(p, tries)
             \/ TryFails(p) \/ TryReturns(p) \/ Read(p) \/ Write(p) \/ Die(p)
      PROVE Owner' = Owner
  <2>1. \A q \in Procs : Holds(q)' <=> Holds(q)
    BY <1>3 DEF CallLock, LockYields, CallTryLock, TryFails, TryReturns, Read, Write, Die,
                Goto, Holds, Inv, TypeOK
  <2> QED
    BY <2>1, OwnerKept
<1>4. CASE UNCHANGED vars
  BY <1>4 DEF vars, Owner, Holds
<1> QED
  BY <1>1, <1>2, <1>3, <1>4 DEF Next, Step, InLock, InTryLock, InSection, M!Next

\* The atomic flag implements a mutex.
THEOREM Implementation == Spec => ImplementsMutex
<1>1. Init => M!Init
  BY DEF Init, M!Init, Owner, Holds
<1> QED
  BY <1>1, Invariance, StepImplements, PTL DEF Spec, ImplementsMutex, M!Spec
===============================================================================
