--------------------------------- MODULE Mutex ---------------------------------
(***************************************************************************)
(* What a mutex promises: it has at most one owner, it is acquired only    *)
(* when nobody owns it, and only its owner releases it.                    *)
(***************************************************************************)
CONSTANTS Procs, NoOne

VARIABLE owner

Init == owner = NoOne

Acquire(p) == owner = NoOne /\ owner' = p
Release(p) == owner = p /\ owner' = NoOne

Next == \E p \in Procs : Acquire(p) \/ Release(p)

Spec == Init /\ [][Next]_owner
===============================================================================
