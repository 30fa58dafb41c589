---------------------------- MODULE ExpectedValue ----------------------------
(***************************************************************************)
(* What expected promises, with no storage in sight: each object holds one *)
(* value or one error.  A call that succeeds leaves in its object what its *)
(* argument was; a moved-from source keeps its kind; a call that throws    *)
(* changes no kind at all.                                                 *)
(***************************************************************************)
CONSTANTS Objs, Moved

VARIABLES held, last

vars == <<held, last>>

Init == \A o \in Objs : held[o].kind = "none"

\* Objects other than o hold what they held, or were moved from.
OthersKept(o) ==
  \A p \in Objs \ {o} :
    held'[p] = held[p] \/ (/\ held[p].kind # "none" /\ last'.how = "move"
                           /\ held'[p] = [held[p] EXCEPT !.x = Moved])

\* The call leaves its argument in its object.
Becomes ==
  LET o == last'.obj
  IN  /\ o \in Objs /\ last'.out = "ok"
      /\ held'[o] = [kind |-> last'.kind, x |-> last'.arg]

Construct ==
  /\ last'.op \in {"in_place", "value", "unexpect", "unexpected", "construct_from"}
  /\ held[last'.obj].kind = "none" /\ Becomes /\ OthersKept(last'.obj)

\* The operand of a monadic operation may be moved from whatever the result is.
Compute ==
  /\ last'.op \in {"and_then", "or_else", "transform", "transform_error"}
  /\ held[last'.obj].kind = "none" /\ Becomes
  /\ \A p \in Objs \ {last'.obj} : held'[p] \in {held[p], [held[p] EXCEPT !.x = Moved]}

Assign ==
  /\ last'.op \in {"assign_from", "assign", "emplace"}
  /\ held[last'.obj].kind # "none" /\ Becomes /\ OthersKept(last'.obj)

Swap ==
  /\ last'.op = "swap" /\ last'.out = "ok"
  /\ \E o, p \in Objs : held' = [held EXCEPT ![o] = held[p], ![p] = held[o]]

Destroy ==
  /\ last'.op = "destroy"
  /\ \E o \in Objs : held[o].kind # "none" /\ held'[o].kind = "none"
                     /\ \A p \in Objs \ {o} : held'[p] = held[p]

Read == last'.op = "value" /\ last'.out = "ok" /\ UNCHANGED held

Fail ==
  /\ last'.out \in {"threw", "bad_access"}
  /\ \A p \in Objs : held'[p].kind = held[p].kind

Terminate == last'.out = "terminated"

Return == last'.op = "none" /\ UNCHANGED held

Next == Return \/ Construct \/ Compute \/ Assign \/ Swap \/ Destroy \/ Read \/ Fail \/ Terminate

Spec == Init /\ [][Next]_vars
===============================================================================
