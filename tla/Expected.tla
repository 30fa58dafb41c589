------------------------------- MODULE Expected -------------------------------
(***************************************************************************)
(* The library's own expected<T, E> (utils/expected.h), which is used      *)
(* where the standard library has none: a union of a value and an error    *)
(* and the flag has_value_ that says which of the two lives.  Every        *)
(* operation is one action, with the outcome "ok", "threw", "bad_access"   *)
(* (value() of an error) or "terminated" (an exception met a noexcept).    *)
(* expected<void, E> is the case vt.void: its value is no object.          *)
(*                                                                         *)
(* A user type that throws in a move may have moved from its source; one   *)
(* that throws in an assignment may have lost the target's old value.      *)
(***************************************************************************)
CONSTANTS
  Objs,        \* the expected objects of the program
  Data,        \* values of T and of E
  Unit,        \* the value of void
  Moved, Raw,  \* a moved-from object, and no object at all
  ValueTypes,  \* the types T, records of traits
  ErrorTypes   \* the types E

\* cctor, mctor, cassign and massign say that copy and move construction and
\* assignment cannot throw.
Traits == [void : BOOLEAN, cctor : BOOLEAN, mctor : BOOLEAN, cassign : BOOLEAN,
           massign : BOOLEAN]

ASSUME ExpectedAssumption ==
  /\ Unit # Moved /\ Unit # Raw /\ Moved # Raw /\ {Unit, Moved, Raw} \cap Data = {}
  /\ ValueTypes \subseteq Traits /\ ErrorTypes \subseteq Traits
  /\ \A t \in ValueTypes : t.void => t.cctor /\ t.mctor /\ t.cassign /\ t.massign
  /\ \A t \in ErrorTypes : ~t.void

VARIABLES
  vt, et,  \* the types the template is instantiated with
  alive,   \* the objects inside their lifetime
  has,     \* has_value_
  slot,    \* what lives in the union of each object, as its value or its error
  lost,    \* the operations that reused the storage of a living object
  last     \* the call that has just been made and its outcome

vars == <<vt, et, alive, has, slot, lost, last>>

Kinds == {"value", "error"}
Ways == {"copy", "move"}
KindOf(flag) == IF flag THEN "value" ELSE "error"
Kind(o) == KindOf(has[o])
Held(o) == slot[o][Kind(o)]
Type(k) == IF k = "value" THEN vt ELSE et
Void(k) == k = "value" /\ vt.void
Inputs(k) == IF Void(k) THEN {Unit} ELSE Data

NothrowConstruct(k, how) == IF how = "copy" THEN Type(k).cctor ELSE Type(k).mctor
NothrowAssign(k, how) == IF how = "copy" THEN Type(k).cassign ELSE Type(k).massign

\* What reading x in this way leaves behind, when it succeeds and when it throws.
After(k, x, how) == IF how = "copy" \/ Void(k) THEN x ELSE Moved
AfterThrow(k, x, how) == {x, After(k, x, how)}

\* The slots of a union in which only a k lives, and one in which nothing does.
Only(k, x) == [j \in Kinds |-> IF j = k THEN x ELSE Raw]
Nothing == [j \in Kinds |-> Raw]

\* std::destroy_at of the k in the slots s.
Destroyed(s, k) == [s EXCEPT ![k] = Raw]

\* Constructing in the storage s ends the lifetime of what lives there.
Lost(s, op) == IF \E k \in Kinds : s[k] \notin {Raw, Unit} THEN {op} ELSE {}

\* The objects of src have been read as a k, which is now y.
Leave(f, src, k, y) == [q \in Objs |-> IF q \in src THEN [f[q] EXCEPT ![k] = y] ELSE f[q]]

NoCall == [op |-> "none", obj |-> Raw, kind |-> "value", arg |-> Raw, how |-> "copy",
           out |-> "ok"]
Called(op, o, k, x, how, out) ==
  last' = [op |-> op, obj |-> o, kind |-> k, arg |-> x, how |-> how, out |-> out]

Init ==
  /\ vt \in ValueTypes /\ et \in ErrorTypes
  /\ alive = {} /\ has = [o \in Objs |-> FALSE] /\ slot = [o \in Objs |-> Nothing]
  /\ lost = {} /\ last = NoCall

-------------------------------------------------------------------------------
(* construction and destruction *)

\* o begins its life holding x as its k, read from the objects of src.
Begin(o, k, x, how, src) ==
  /\ alive' = alive \cup {o}
  /\ has' = [has EXCEPT ![o] = k = "value"]
  /\ slot' = Leave([slot EXCEPT ![o] = Only(k, x)], src, k, After(k, x, how))
  /\ lost' = lost \cup Lost(slot[o], "construct")

\* Nothing changes but the sources of a construction that threw.
Spoil(k, x, how, src) ==
  /\ \E y \in AfterThrow(k, x, how) : slot' = Leave(slot, src, k, y)
  /\ UNCHANGED <<alive, has, lost>>

\* "unexpect" and "in_place" forward to a constructor they call noexcept whatever
\* it is; "value" and "unexpected" let its exception through.
Forms(k) == IF k = "error" THEN {"unexpect", "unexpected"}
            ELSE IF vt.void THEN {"in_place"} ELSE {"in_place", "value"}

\* A faulty construction, which takes every argument for a value.
ConstructValue(o, k, x, how, form) ==
  /\ o \notin alive /\ x \in Inputs(k) /\ form \in Forms(k)
  /\ Begin(o, "value", x, how, {}) /\ Called(form, o, k, x, how, "ok")
  /\ UNCHANGED <<vt, et>>

Construct(o, k, x, how, form) ==
  /\ o \notin alive /\ x \in Inputs(k) /\ form \in Forms(k)
  /\ \/ /\ Begin(o, k, x, how, {})
        /\ Called(form, o, k, x, how, "ok")
     \/ /\ ~NothrowConstruct(k, how)
        /\ Spoil(k, x, how, {})
        /\ Called(form, o, k, x, how,
                  IF form \in {"in_place", "unexpect"} THEN "terminated" ELSE "threw")
  /\ UNCHANGED <<vt, et>>

Source(p, how) == IF how = "move" THEN {p} ELSE {}

\* The copy and the move constructor are noexcept when both types have nothrow
\* *moves*.
ConstructFrom(o, p, how) ==
  /\ o \notin alive /\ p \in alive
  /\ LET k == Kind(p)
         x == Held(p)
     IN  \/ /\ Begin(o, k, x, how, Source(p, how))
            /\ Called("construct_from", o, k, x, how, "ok")
         \/ /\ ~NothrowConstruct(k, how)
            /\ Spoil(k, x, how, Source(p, how))
            /\ Called("construct_from", o, k, x, how,
                      IF vt.mctor /\ et.mctor THEN "terminated" ELSE "threw")
  /\ UNCHANGED <<vt, et>>

Destroy(o) ==
  /\ o \in alive /\ alive' = alive \ {o}
  /\ slot' = [slot EXCEPT ![o] = Destroyed(@, Kind(o))]
  /\ Called("destroy", o, Kind(o), Held(o), "copy", "ok")
  /\ UNCHANGED <<vt, et, has, lost>>

-------------------------------------------------------------------------------
(* assignment *)

\* A faulty assignment, noexcept whatever it calls.
AssignSameNoexcept(o, k, x, how, src, op, nx) ==
  /\ Kind(o) = k
  /\ \/ /\ slot' = Leave([slot EXCEPT ![o][k] = x], src, k, After(k, x, how))
        /\ Called(op, o, k, x, how, "ok")
     \/ /\ ~NothrowAssign(k, how)
        /\ Called(op, o, k, x, how, "terminated")
        /\ UNCHANGED slot
  /\ UNCHANGED <<has, lost>>

\* o holds a k already: T::operator= or E::operator=.  nx: it is called in a
\* function that is noexcept.
AssignSame(o, k, x, how, src, op, nx) ==
  /\ Kind(o) = k
  /\ \/ /\ slot' = Leave([slot EXCEPT ![o][k] = x], src, k, After(k, x, how))
        /\ Called(op, o, k, x, how, "ok")
     \/ /\ ~NothrowAssign(k, how)
        /\ \E y \in AfterThrow(k, x, how), z \in {Held(o), Moved} :
             slot' = Leave([slot EXCEPT ![o][k] = z], src, k, y)
        /\ Called(op, o, k, x, how, IF nx THEN "terminated" ELSE "threw")
  /\ UNCHANGED <<has, lost>>

\* A faulty reinit_expected, which ends the old object before the new one is sure.
ReinitDestroysFirst(o, k, x, how, src, op) ==
  /\ Kind(o) # k
  /\ \/ /\ slot' = Leave([slot EXCEPT ![o] = Only(k, x)], src, k, After(k, x, how))
        /\ has' = [has EXCEPT ![o] = k = "value"]
        /\ Called(op, o, k, x, how, "ok")
     \/ /\ ~NothrowConstruct(k, how)
        /\ slot' = [slot EXCEPT ![o] = Nothing]
        /\ Called(op, o, k, x, how, "threw")
        /\ UNCHANGED has
  /\ UNCHANGED lost

\* reinit_expected: o turns from an old kind into a k.  Where the construction may
\* throw, it is made in a temporary if that can be moved safely; if not, the old
\* object is moved aside, and neither destroyed where it was nor when it is put
\* back.  The void specialization just constructs its error.
ReinitExpected(o, k, x, how, src, op) ==
  LET old   == Kind(o)
      aside == [slot[o] EXCEPT ![old] = After(old, @, "move")]
      safe  == NothrowConstruct(k, how) \/ Type(k).mctor \/ Void(old)
      s     == IF safe THEN Destroyed(slot[o], old) ELSE aside
  IN  /\ old # k
      /\ \/ /\ slot' = Leave([slot EXCEPT ![o] = Only(k, x)], src, k, After(k, x, how))
            /\ has' = [has EXCEPT ![o] = k = "value"]
            /\ lost' = lost \cup Lost(s, op)
            /\ Called(op, o, k, x, how, "ok")
         \/ /\ ~NothrowConstruct(k, how)
            /\ \E y \in AfterThrow(k, x, how) :
                 slot' = Leave([slot EXCEPT ![o] = Only(old, Held(o))], src, k, y)
            /\ lost' = IF safe THEN lost ELSE lost \cup Lost(aside, op)
            /\ Called(op, o, k, x, how, "threw")
            /\ UNCHANGED has

\* What the requires clauses of the assignments and of swap ask for.
OneNothrowMove == vt.mctor \/ et.mctor

\* operator=(expected const &) and operator=(expected &&)
AssignFrom(o, p, how) ==
  /\ {o, p} \subseteq alive /\ o # p /\ OneNothrowMove
  /\ \/ AssignSame(o, Kind(p), Held(p), how, Source(p, how), "assign_from", FALSE)
     \/ ReinitExpected(o, Kind(p), Held(p), how, Source(p, how), "assign_from")
  /\ UNCHANGED <<vt, et, alive>>

\* operator=(Up &&) for a value, operator=(unexpected) for an error, which goes
\* through assign_unexpected: noexcept when the *construction* cannot throw.
Assign(o, k, x, how) ==
  /\ o \in alive /\ x \in Inputs(k) /\ ~Void(k)
  /\ OneNothrowMove \/ NothrowConstruct(k, how)
  /\ LET nx == k = "error" /\ ~vt.void /\ NothrowConstruct(k, how)
     IN  \/ AssignSame(o, k, x, how, {}, "assign", nx)
         \/ ReinitExpected(o, k, x, how, {}, "assign")
  /\ UNCHANGED <<vt, et, alive>>

\* A faulty emplace, which forgets to destroy what the object held.
EmplaceOver(o, x, how) ==
  /\ o \in alive /\ x \in Inputs("value") /\ NothrowConstruct("value", how)
  /\ slot' = [slot EXCEPT ![o] = Only("value", x)]
  /\ has' = [has EXCEPT ![o] = TRUE]
  /\ lost' = lost \cup Lost(slot[o], "emplace")
  /\ Called("emplace", o, "value", x, how, "ok")
  /\ UNCHANGED <<vt, et, alive>>

\* emplace exists for nothrow constructions only.
Emplace(o, x, how) ==
  /\ o \in alive /\ x \in Inputs("value") /\ NothrowConstruct("value", how)
  /\ slot' = [slot EXCEPT ![o] = Only("value", x)]
  /\ has' = [has EXCEPT ![o] = TRUE]
  /\ lost' = lost \cup Lost(Destroyed(slot[o], Kind(o)), "emplace")
  /\ Called("emplace", o, "value", x, how, "ok")
  /\ UNCHANGED <<vt, et, alive>>

-------------------------------------------------------------------------------
(* swap *)

\* Two values or two errors: std::swap, a move construction and two assignments.
SwapSame(o, p) ==
  LET k == Kind(o)
      x == Held(o)
      y == Held(p)
  IN  /\ Kind(p) = k
      /\ \/ /\ slot' = [slot EXCEPT ![o][k] = y, ![p][k] = x]
            /\ Called("swap", o, k, x, "move", "ok")
         \/ /\ ~(Type(k).mctor /\ Type(k).massign)
            /\ \E s \in {<<x, y>>, <<Moved, y>>, <<Moved, Moved>>, <<y, Moved>>} :
                 slot' = [slot EXCEPT ![o][k] = s[1], ![p][k] = s[2]]
            /\ Called("swap", o, k, x, "move", "threw")
      /\ UNCHANGED <<has, lost>>

\* A faulty swap of an error and a value, which forgets the flags.
SwapKeepsFlags(o, p) ==
  /\ has[o] /\ ~has[p]
  /\ slot' = [slot EXCEPT ![o] = slot[p], ![p] = slot[o]]
  /\ Called("swap", o, "value", Held(o), "move", "ok")
  /\ UNCHANGED <<has, lost>>

\* o has a value and p an error.  The one whose type has a nothrow move goes into
\* a temporary and its place is taken by the other; when that throws, the
\* temporary is put back.
SwapDifferent(o, p) ==
  LET first == IF et.mctor THEN p ELSE o      \* whose content is moved aside
      other == IF et.mctor THEN o ELSE p
      k     == Kind(other)
      place == Destroyed(slot[first], Kind(first))
  IN  /\ has[o] /\ ~has[p]
      /\ \/ /\ slot' = [slot EXCEPT ![first] = Only(k, Held(other)),
                                    ![other] = Only(Kind(first), Held(first))]
            /\ has' = [has EXCEPT ![o] = FALSE, ![p] = TRUE]
            /\ lost' = lost \cup Lost(place, "swap")
                            \cup Lost(Destroyed(slot[other], k), "swap")
            /\ Called("swap", o, "value", Held(o), "move", "ok")
         \/ /\ ~Type(k).mctor
            /\ \E y \in AfterThrow(k, Held(other), "move") :
                 slot' = [slot EXCEPT ![first] = Only(Kind(first), Held(first)),
                                      ![other][k] = y]
            /\ lost' = lost \cup Lost(place, "swap")
            /\ Called("swap", o, "value", Held(o), "move", "threw")
            /\ UNCHANGED has

Swap(o, p) ==
  /\ {o, p} \subseteq alive /\ o # p /\ OneNothrowMove
  /\ SwapSame(o, p) \/ SwapDifferent(o, p) \/ SwapDifferent(p, o)
  /\ UNCHANGED <<vt, et, alive>>

-------------------------------------------------------------------------------
(* access and the monadic operations *)

\* value() of an rvalue that holds an error moves the error into the exception.
Value(o, how) ==
  /\ o \in alive
  /\ \/ /\ has[o]
        /\ Called("value", o, "value", Held(o), how, "ok")
        /\ UNCHANGED slot
     \/ /\ ~has[o]
        /\ \/ /\ slot' = Leave(slot, {o}, "error", After("error", Held(o), how))
              /\ Called("value", o, "error", Held(o), how, "bad_access")
           \/ \* the exception object could not be built
              /\ ~(NothrowConstruct("error", how) /\ et.mctor)
              /\ \E y \in AfterThrow("error", Held(o), how) :
                   slot' = Leave(slot, {o}, "error", y)
              /\ Called("value", o, "error", Held(o), how, "threw")
  /\ UNCHANGED <<vt, et, alive, has, lost>>

Subject(op) == IF op \in {"and_then", "transform"} THEN "value" ELSE "error"

\* What p holds is not for f: it is passed on to the result through "in_place" or
\* "unexpect".
PassOn(op, o, p, how) ==
  LET k == Kind(p)
  IN  /\ k # Subject(op)
      /\ \/ /\ Begin(o, k, Held(p), how, Source(p, how))
            /\ Called(op, o, k, Held(p), how, "ok")
         \/ /\ ~NothrowConstruct(k, how)
            /\ Spoil(k, Held(p), how, Source(p, how))
            /\ Called(op, o, k, Held(p), how, "terminated")

\* f is given what p holds, which it may move from, and returns a k that is x.
\* and_then and or_else return f's result, transform moves it into the new object
\* and transform_error copies it.  f may throw.
Apply(op, o, p, how, k, x) ==
  LET j     == Kind(p)
      whole == op \in {"and_then", "or_else"}
      way   == IF op = "transform" THEN "move" ELSE "copy"
  IN  /\ j = Subject(op) /\ (whole \/ k = j) /\ x \in Inputs(k)
      /\ \E y \in AfterThrow(j, Held(p), how) :
           \/ /\ alive' = alive \cup {o}
              /\ has' = [has EXCEPT ![o] = k = "value"]
              /\ slot' = Leave([slot EXCEPT ![o] = Only(k, x)], Source(p, how), j, y)
              /\ Called(op, o, k, x, way, "ok")
           \/ /\ ~whole /\ ~NothrowConstruct(k, way)
              /\ slot' = Leave(slot, Source(p, how), j, y)
              /\ Called(op, o, k, x, way, "terminated")
              /\ UNCHANGED <<alive, has>>
           \/ /\ slot' = Leave(slot, Source(p, how), j, y)
              /\ Called(op, o, k, x, way, "threw")
              /\ UNCHANGED <<alive, has>>
      /\ UNCHANGED lost

\* or_else does not compile for an lvalue.
Monadic(op, o, p, how) ==
  /\ o \notin alive /\ p \in alive /\ (op = "or_else" => how = "move")
  /\ \/ PassOn(op, o, p, how)
     \/ \E k \in Kinds : \E x \in Inputs(k) : Apply(op, o, p, how, k, x)
  /\ UNCHANGED <<vt, et>>

Running == last.out # "terminated"

\* The program has seen the outcome of its call and goes on.
Return == last # NoCall /\ Running /\ last' = NoCall /\ UNCHANGED <<vt, et, alive, has, slot, lost>>

Call ==
  \/ \E o \in Objs, k \in Kinds, how \in Ways : \E x \in Inputs(k) :
       \/ \E form \in Forms(k) : Construct(o, k, x, how, form)
       \/ Assign(o, k, x, how)
  \/ \E o \in Objs, how \in Ways : \/ \E x \in Inputs("value") : Emplace(o, x, how)
                                   \/ Value(o, how)
  \/ \E o, p \in Objs, how \in Ways :
       \/ ConstructFrom(o, p, how) \/ AssignFrom(o, p, how)
       \/ \E op \in {"and_then", "transform", "or_else", "transform_error"} :
            Monadic(op, o, p, how)
  \/ \E o, p \in Objs : Swap(o, p)
  \/ \E o \in Objs : Destroy(o)

Next == (last = NoCall /\ Call) \/ Return

Spec == Init /\ [][Next]_vars

-------------------------------------------------------------------------------
\* What a living k can be.
Live(k) == IF Void(k) THEN {Unit} ELSE Data \cup {Moved}

TypeOK ==
  /\ vt \in ValueTypes /\ et \in ErrorTypes /\ alive \subseteq Objs
  /\ has \in [Objs -> BOOLEAN]
  /\ slot \in [Objs -> [Kinds -> Data \cup {Unit, Moved, Raw}]]
  /\ \A o \in Objs : \A k \in Kinds : slot[o][k] \in Live(k) \cup {Raw}

\* has_value_ tells what lives in the union, whatever has thrown: exactly that
\* object lives in an expected, and none in one that was destroyed.
FlagTellsWhatLives ==
  \A o \in Objs : \A k \in Kinds : slot[o][k] # Raw <=> o \in alive /\ k = Kind(o)

\* No object is overwritten without being destroyed when both types have moves
\* that cannot throw.
NothrowMovesLoseNothing == vt.mctor /\ et.mctor => lost = {}

\* An assignment or a swap that throws changes no expected from a value to an
\* error or back, and keeps what the target of a change of kind held.
FailureKeepsKinds ==
  [][ last'.out \in {"threw", "bad_access"} =>
        /\ UNCHANGED <<alive, has>>
        /\ last'.op \in {"assign_from", "assign"} /\ last'.kind # Kind(last'.obj) =>
             slot'[last'.obj] = slot[last'.obj] ]_vars

\* std::terminate is reached through the constructors and the monadic functions
\* that forward their arguments, through a copy constructor when both moves are
\* nothrow, and through the assignment of an unexpected whose construction cannot
\* throw and whose assignment can.
TerminatesOnly ==
  ~Running =>
    \/ last.op \in {"in_place", "unexpect", "and_then", "or_else", "transform",
                    "transform_error"}
    \/ last.op = "construct_from" /\ last.how = "copy" /\ vt.mctor /\ et.mctor
    \/ last.op = "assign" /\ last.kind = "error" /\ NothrowConstruct("error", last.how)

\* What a throwing operation of the user's types costs: neither an object where
\* moves cannot throw, nor the program but in the constructors, the monadic
\* functions and the assignments that are declared noexcept and are not.
ThrowsCostOnly == NothrowMovesLoseNothing /\ TerminatesOnly

\* The objects are sums of a value and an error.
Sum == INSTANCE ExpectedValue WITH
         held <- [o \in Objs |-> IF o \in alive THEN [kind |-> Kind(o), x |-> Held(o)]
                                                ELSE [kind |-> "none", x |-> Raw]]
Refines == Sum!Spec

===============================================================================
