------------------------------ MODULE InclassStore ------------------------------
(***************************************************************************)
(* inclass_storage.h: a value kept in bytes of its user, behind the class  *)
(* inclass_store_t or behind the free functions on inclass_storage_t.  The *)
(* value type is one of three kinds: "trivial", "full" (every member is    *)
(* the type's own and may throw) or "assigned" (a destructor of its own    *)
(* and the default assignments).                                           *)
(***************************************************************************)
EXTENDS Integers

CONSTANT Stores  \* the stores of the program

VARIABLES
  class,   \* the class is used, not the free functions
  kind,    \* the kind of value_type
  inUse,   \* the stores inside their lifetime, as the program knows
  holds,   \* [Stores -> {"none", "value", "bytes"}]: an object, or a copy of its bytes
  astray,  \* an operation has used an object that is not there
  did      \* the last operation, the store it changed and whether it threw

storeVars == <<class, kind, inUse, holds, astray, did>>

StoreInit ==
  /\ class \in BOOLEAN /\ kind \in {"trivial", "full", "assigned"}
  /\ inUse = {} /\ holds = [s \in Stores |-> "none"] /\ astray = FALSE
  /\ did = [op |-> "nothing", store |-> CHOOSE s \in Stores : TRUE, threw |-> FALSE]

MayThrow == IF kind = "full" THEN BOOLEAN ELSE {FALSE}
Whole(s) == holds[s] = "value"
Did(op, s, threw) == did' = [op |-> op, store |-> s, threw |-> threw]

\* Every constructor: construct_at, or the bytes of a trivial value.
Constructs(op, s, threw) ==
  /\ s \notin inUse /\ threw \in MayThrow
  /\ inUse' = IF threw THEN inUse ELSE inUse \cup {s}
  /\ holds' = IF threw THEN holds ELSE [holds EXCEPT ![s] = "value"]
  /\ Did(op, s, threw)
  /\ UNCHANGED <<class, kind>>

\* inclass_store_t(), inclass_store_t(args...), default_construct, construct_from.
StoreConstruct(s, threw) ==
  Constructs("construct", s, threw) /\ UNCHANGED astray

\* The copy and the move constructor, copy_construct and move_construct.
StoreConstructFrom(s, other, threw) ==
  /\ other \in inUse
  /\ Constructs("construct_from", s, threw)
  /\ astray' = (astray \/ ~Whole(other))

\* copy_assign and operator=(const &): the bytes or *ptr() = *other.ptr().
StoreCopyAssign(s, other, threw) ==
  /\ {s, other} \subseteq inUse /\ threw \in MayThrow
  /\ s = other => ~threw
  /\ astray' = (astray \/ (s # other /\ ~(Whole(s) /\ Whole(other))))
  /\ Did("copy_assign", s, threw)
  /\ UNCHANGED <<class, kind, inUse, holds>>

\* A faulty operator=(&&), which also destroys itself.
AssignDestroysItself(s, other, threw) ==
  /\ {s, other} \subseteq inUse /\ threw \in MayThrow
  /\ LET destroys == class /\ kind # "trivial"
     IN  holds' = [holds EXCEPT ![s] = IF ~destroys THEN @
                                        ELSE IF s = other \/ threw THEN "none"
                                        ELSE IF kind = "full" THEN "value" ELSE "bytes"]
  /\ astray' = (astray \/ (s # other /\ ~(Whole(s) /\ Whole(other))))
  /\ Did("move_assign", s, threw)
  /\ UNCHANGED <<class, kind, inUse>>

\* operator=(&&) destroys a value whose destructor is not trivial, then copies
\* the bytes of a trivially assigned one or constructs; move_assign assigns.
StoreMoveAssign(s, other, threw) ==
  /\ {s, other} \subseteq inUse /\ threw \in MayThrow
  /\ s = other => ~threw
  /\ LET destroys == class /\ kind # "trivial" /\ s # other
     IN  holds' = [holds EXCEPT ![s] = IF ~destroys THEN @
                                        ELSE IF threw THEN "none"
                                        ELSE IF kind = "full" THEN "value" ELSE "bytes"]
  /\ astray' = (astray \/ (s # other /\ ~(Whole(s) /\ Whole(other))))
  /\ Did("move_assign", s, threw)
  /\ UNCHANGED <<class, kind, inUse>>

\* operator* and operator->.
StoreAccess(s) ==
  /\ s \in inUse
  /\ astray' = (astray \/ ~Whole(s))
  /\ Did("access", s, FALSE)
  /\ UNCHANGED <<class, kind, inUse, holds>>

\* ~inclass_store_t and destroy.
StoreDestroy(s) ==
  /\ s \in inUse
  /\ astray' = (astray \/ ~Whole(s))
  /\ inUse' = inUse \ {s} /\ holds' = [holds EXCEPT ![s] = "none"]
  /\ Did("destroy", s, FALSE)
  /\ UNCHANGED <<class, kind>>

\* A program that has used an object that is not there does no more.
StoreNext ==
  /\ ~astray
  /\ \E s \in Stores, threw \in BOOLEAN :
       \/ StoreConstruct(s, threw)
       \/ \E other \in Stores \ {s} : StoreConstructFrom(s, other, threw)
       \/ \E other \in Stores : StoreCopyAssign(s, other, threw)
       \/ \E other \in Stores : StoreMoveAssign(s, other, threw)
       \/ StoreAccess(s)
       \/ StoreDestroy(s)

===============================================================================
