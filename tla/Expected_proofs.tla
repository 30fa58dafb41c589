---------------------------- MODULE Expected_proofs ----------------------------
(***************************************************************************)
(* For every set of objects, all value and error types and every program:  *)
(* has_value_ tells what lives in an expected, a throw costs only what     *)
(* ThrowsCostOnly names and changes no kind, and the objects are sums of a *)
(* value and an error.                                                     *)
(***************************************************************************)
EXTENDS Expected, TLAPS

\* The inductive invariant: every slot holds what has_value_ says, an object of its
\* kind or none.
Inv == TypeOK /\ FlagTellsWhatLives

Stuff == Data \cup {Unit, Moved, Raw}

\* No object is raw.
LEMMA LiveNotRaw ==
  ASSUME NEW k \in Kinds
  PROVE  Raw \notin Live(k) /\ Live(k) \subseteq Stuff /\ Inputs(k) \subseteq Live(k)
BY ExpectedAssumption DEF Live, Stuff, Inputs

\* What an expected holds is an object of its kind.
LEMMA HeldLive ==
  ASSUME Inv, NEW o \in alive
  PROVE  o \in Objs /\ Kind(o) \in Kinds /\ Held(o) \in Live(Kind(o))
BY DEF Inv, TypeOK, FlagTellsWhatLives, Held, Kind, KindOf, Kinds

\* Reading an object leaves an object of the same kind.
LEMMA AfterLive ==
  ASSUME NEW k \in Kinds, NEW x \in Live(k), NEW how
  PROVE  After(k, x, how) \in Live(k) /\ AfterThrow(k, x, how) \subseteq Live(k)
BY DEF After, AfterThrow, Live

\* Inv as a statement about each slot.
LEMMA SlotsInv ==
  ASSUME Inv
  PROVE  /\ slot \in [Objs -> [Kinds -> Stuff]] /\ has \in [Objs -> BOOLEAN]
         /\ vt \in ValueTypes /\ et \in ErrorTypes /\ alive \subseteq Objs
         /\ \A q \in Objs : \A j \in Kinds :
              IF q \in alive /\ j = Kind(q) THEN slot[q][j] \in Live(j) ELSE slot[q][j] = Raw
BY LiveNotRaw DEF Inv, TypeOK, FlagTellsWhatLives, Stuff

\* A step establishes Inv when it leaves every slot like that.
LEMMA InvSlots ==
  ASSUME Inv, UNCHANGED <<vt, et>>, alive' \subseteq Objs, has' \in [Objs -> BOOLEAN],
         slot' \in [Objs -> [Kinds -> Stuff]],
         \A q \in Objs : \A j \in Kinds :
           IF q \in alive' /\ j = KindOf(has'[q]) THEN slot'[q][j] \in Live(j)
                                               ELSE slot'[q][j] = Raw
  PROVE  Inv'
<1>1. \A k \in Kinds : Live(k)' = Live(k)
  BY DEF Live, Void
<1>2. TypeOK'
  BY <1>1, SlotsInv DEF TypeOK, Stuff
<1>3. FlagTellsWhatLives'
  BY LiveNotRaw DEF FlagTellsWhatLives, Kind
<1> QED
  BY <1>2, <1>3 DEF Inv

\* A step that only writes living objects where there were some.
LEMMA WriteStep ==
  ASSUME Inv, UNCHANGED <<vt, et, alive, has>>, slot' \in [Objs -> [Kinds -> Stuff]],
         \A q \in Objs : \A j \in Kinds :
           slot'[q][j] = slot[q][j] \/ (q \in alive /\ j = Kind(q) /\ slot'[q][j] \in Live(j))
  PROVE  Inv'
BY SlotsInv, InvSlots DEF Kind

\* Reading objects of the kind k.
LEMMA LeaveStep ==
  ASSUME Inv, UNCHANGED <<vt, et, alive, has>>, NEW src,
         NEW k \in Kinds, NEW y \in Live(k), \A q \in src : q \in alive /\ Kind(q) = k,
         slot' = Leave(slot, src, k, y)
  PROVE  Inv'
<1>1. y \in Stuff /\ slot \in [Objs -> [Kinds -> Stuff]]
  BY LiveNotRaw, SlotsInv
<1>2. /\ slot' \in [Objs -> [Kinds -> Stuff]]
      /\ \A q \in Objs : \A i \in Kinds :
           slot'[q][i] = IF q \in src /\ i = k THEN y ELSE slot[q][i]
  BY <1>1 DEF Leave
<1> QED
  BY <1>2, WriteStep

\* A flag that is set to tell a k.
LEMMA FlagSet ==
  ASSUME Inv, NEW o \in Objs, NEW k \in Kinds, has' = [has EXCEPT ![o] = k = "value"]
  PROVE  /\ has' \in [Objs -> BOOLEAN] /\ KindOf(has'[o]) = k
         /\ \A q \in Objs : q # o => has'[q] = has[q]
<1>1. has \in [Objs -> BOOLEAN]
  BY SlotsInv
<1>2. has' \in [Objs -> BOOLEAN] /\ has'[o] = (k = "value")
  BY <1>1, Zenon
<1>3. \A q \in Objs : q # o => has'[q] = has[q]
  BY <1>1, Zenon
<1>4. KindOf(k = "value") = k
  BY DEF KindOf, Kinds
<1> QED
  BY <1>2, <1>3, <1>4, Zenon

\* Giving an object new contents x, while objects of src are read.
LEMMA OnlySlotsStep ==
  ASSUME Inv, UNCHANGED <<vt, et>>, NEW o \in Objs, NEW k \in Kinds, NEW x \in Live(k),
         alive' = alive \cup {o}, has' \in [Objs -> BOOLEAN], KindOf(has'[o]) = k,
         \A q \in Objs : q # o => has'[q] = has[q],
         NEW src, NEW j \in Kinds, NEW y \in Live(j),
         \A q \in src : q \in alive /\ q # o /\ Kind(q) = j,
         slot' = Leave([slot EXCEPT ![o] = Only(k, x)], src, j, y)
  PROVE  Inv'
<1>1. x \in Stuff /\ y \in Stuff /\ Raw \in Stuff /\ slot \in [Objs -> [Kinds -> Stuff]]
  BY LiveNotRaw, SlotsInv DEF Stuff
<1>2. /\ slot' \in [Objs -> [Kinds -> Stuff]]
      /\ \A q \in Objs : \A i \in Kinds :
           slot'[q][i] = IF q \in src /\ i = j THEN y
                         ELSE IF q = o THEN IF i = k THEN x ELSE Raw ELSE slot[q][i]
  BY <1>1 DEF Leave, Only
<1>3. ASSUME NEW q \in Objs, NEW i \in Kinds
      PROVE  IF q \in alive' /\ i = KindOf(has'[q]) THEN slot'[q][i] \in Live(i)
                                                   ELSE slot'[q][i] = Raw
  <2>1. CASE q = o
    <3>1. q \in alive' /\ q \notin src /\ slot'[q][i] = IF i = k THEN x ELSE Raw
      BY <2>1, <1>2
    <3> QED
      BY <2>1, <3>1
  <2>2. CASE q # o
    <3>1. (q \in alive' <=> q \in alive) /\ KindOf(has'[q]) = Kind(q)
      BY <2>2 DEF Kind
    <3>2. slot'[q][i] = IF q \in src /\ i = j THEN y ELSE slot[q][i]
      BY <2>2, <1>2
    <3> QED
      BY <3>1, <3>2, SlotsInv
  <2> QED
    BY <2>1, <2>2
<1> QED
  BY <1>2, <1>3, SlotsInv, InvSlots

\* The same, with nothing read.
LEMMA OnlyStep ==
  ASSUME Inv, UNCHANGED <<vt, et>>, NEW o \in Objs, NEW k \in Kinds, NEW x \in Live(k),
         alive' = alive \cup {o}, has' \in [Objs -> BOOLEAN], KindOf(has'[o]) = k,
         \A q \in Objs : q # o => has'[q] = has[q],
         slot' = [slot EXCEPT ![o] = Only(k, x)]
  PROVE  Inv'
<1>1. x \in Stuff /\ Raw \in Stuff /\ slot \in [Objs -> [Kinds -> Stuff]]
  BY LiveNotRaw, SlotsInv DEF Stuff
<1>2. /\ slot' \in [Objs -> [Kinds -> Stuff]]
      /\ \A q \in Objs : \A i \in Kinds :
           slot'[q][i] = IF q = o THEN IF i = k THEN x ELSE Raw ELSE slot[q][i]
  BY <1>1 DEF Only
<1>3. ASSUME NEW q \in Objs, NEW i \in Kinds
      PROVE  IF q \in alive' /\ i = KindOf(has'[q]) THEN slot'[q][i] \in Live(i)
                                                   ELSE slot'[q][i] = Raw
  <2>1. CASE q = o
    BY <2>1, <1>2
  <2>2. CASE q # o
    <3>1. (q \in alive' <=> q \in alive) /\ KindOf(has'[q]) = Kind(q)
      BY <2>2 DEF Kind
    <3>2. slot'[q][i] = slot[q][i]
      BY <2>2, <1>2
    <3> QED
      BY <3>1, <3>2, SlotsInv
  <2> QED
    BY <2>1, <2>2
<1> QED
  BY <1>2, <1>3, SlotsInv, InvSlots

\* The constructors of an object o that is not alive.
LEMMA BeginStep ==
  ASSUME Inv, UNCHANGED <<vt, et>>, NEW o \in Objs, NEW k \in Kinds, NEW x \in Live(k),
         NEW how, NEW src, \A q \in src : q \in alive /\ q # o /\ Kind(q) = k,
         Begin(o, k, x, how, src)
  PROVE  Inv'
<1>1. After(k, x, how) \in Live(k)
  BY AfterLive
<1>2. /\ has' \in [Objs -> BOOLEAN] /\ KindOf(has'[o]) = k
      /\ \A q \in Objs : q # o => has'[q] = has[q]
  BY FlagSet DEF Begin
<1> QED
  BY <1>1, <1>2, OnlySlotsStep DEF Begin

\* A construction that threw, which may have moved from its sources.
LEMMA SpoilStep ==
  ASSUME Inv, UNCHANGED <<vt, et>>, NEW k \in Kinds, NEW x \in Live(k),
         NEW how, NEW src, \A q \in src : q \in alive /\ Kind(q) = k,
         Spoil(k, x, how, src)
  PROVE  Inv'
<1>1. PICK y \in AfterThrow(k, x, how) : slot' = Leave(slot, src, k, y)
  BY DEF Spoil
<1>2. y \in Live(k)
  BY <1>1, AfterLive
<1> QED
  BY <1>1, <1>2, LeaveStep DEF Spoil

\* The constructors from a value, an unexpected or arguments.
LEMMA ConstructStep ==
  ASSUME Inv, NEW o \in Objs, NEW k \in Kinds, NEW x, NEW how, NEW form,
         Construct(o, k, x, how, form)
  PROVE  Inv'
<1>1. x \in Live(k) /\ UNCHANGED <<vt, et>>
  BY LiveNotRaw DEF Construct
<1>2. Begin(o, k, x, how, {}) \/ Spoil(k, x, how, {})
  BY DEF Construct
<1> QED
  BY <1>1, <1>2, BeginStep, SpoilStep

\* The copy and the move constructor.
LEMMA ConstructFromStep ==
  ASSUME Inv, NEW o \in Objs, NEW p \in Objs, NEW how, ConstructFrom(o, p, how)
  PROVE  Inv'
<1> DEFINE k == Kind(p)
           x == Held(p)
<1>1. /\ o \notin alive /\ p \in alive /\ UNCHANGED <<vt, et>>
      /\ Begin(o, k, x, how, Source(p, how)) \/ Spoil(k, x, how, Source(p, how))
  BY DEF ConstructFrom
<1>2. k \in Kinds /\ x \in Live(k)
  BY <1>1, HeldLive
<1>3. \A q \in Source(p, how) : q \in alive /\ q # o /\ Kind(q) = k
  BY <1>1 DEF Source
<1> HIDE DEF k, x
<1> QED
  BY <1>1, <1>2, <1>3, BeginStep, SpoilStep

\* The destructor.
LEMMA DestroyStep ==
  ASSUME Inv, NEW o \in Objs, Destroy(o)
  PROVE  Inv'
<1>1. /\ o \in alive /\ alive' = alive \ {o} /\ UNCHANGED <<vt, et, has>>
      /\ slot' = [slot EXCEPT ![o] = [slot[o] EXCEPT ![Kind(o)] = Raw]]
  BY DEF Destroy, Destroyed
<1>2. Kind(o) \in Kinds /\ Raw \in Stuff
  BY <1>1, HeldLive DEF Stuff
<1>3. /\ slot' \in [Objs -> [Kinds -> Stuff]]
      /\ \A q \in Objs : \A i \in Kinds :
           slot'[q][i] = IF q = o /\ i = Kind(o) THEN Raw ELSE slot[q][i]
  BY <1>1, <1>2, SlotsInv
<1>4. ASSUME NEW q \in Objs, NEW i \in Kinds
      PROVE  IF q \in alive' /\ i = KindOf(has'[q]) THEN slot'[q][i] \in Live(i)
                                                   ELSE slot'[q][i] = Raw
  BY <1>1, <1>3, SlotsInv DEF Kind
<1> QED
  BY <1>1, <1>3, <1>4, SlotsInv, InvSlots

\* An assignment to an object of the same kind, from objects of src.
LEMMA AssignSameStep ==
  ASSUME Inv, UNCHANGED <<vt, et, alive>>, NEW o \in alive, NEW k, NEW x \in Live(k), NEW how,
         NEW src, \A q \in src : q \in alive /\ Kind(q) = k, NEW op, NEW nx,
         AssignSame(o, k, x, how, src, op, nx)
  PROVE  Inv'
<1>1. /\ k = Kind(o) /\ k \in Kinds /\ o \in Objs /\ UNCHANGED has
      /\ Held(o) \in Live(k)
  BY HeldLive DEF AssignSame
<1>2. PICK y, z : /\ slot' = Leave([slot EXCEPT ![o][k] = z], src, k, y)
                  /\ y \in AfterThrow(k, x, how)
                  /\ z \in {x, Held(o)} \/ (~NothrowAssign(k, how) /\ z = Moved)
  <2>1. After(k, x, how) \in AfterThrow(k, x, how)
    BY DEF AfterThrow
  <2> QED
    BY <2>1 DEF AssignSame
<1>3. ~NothrowAssign(k, how) => Moved \in Live(k)
  BY SlotsInv, ExpectedAssumption DEF NothrowAssign, Type, Live, Void
<1>4. y \in Live(k) /\ z \in Live(k)
  BY <1>1, <1>2, <1>3, AfterLive
<1>5. y \in Stuff /\ z \in Stuff /\ slot \in [Objs -> [Kinds -> Stuff]]
  BY <1>1, <1>4, LiveNotRaw, SlotsInv
<1>6. /\ slot' \in [Objs -> [Kinds -> Stuff]]
      /\ \A q \in Objs : \A i \in Kinds :
           slot'[q][i] = IF q \in src /\ i = k THEN y
                         ELSE IF q = o /\ i = k THEN z ELSE slot[q][i]
  BY <1>1, <1>2, <1>5 DEF Leave
<1> QED
  BY <1>1, <1>4, <1>6, WriteStep

\* A change of kind.
LEMMA ReinitStep ==
  ASSUME Inv, UNCHANGED <<vt, et, alive>>, NEW o \in alive, NEW k \in Kinds, NEW x \in Live(k),
         NEW how, NEW src, \A q \in src : q \in alive /\ q # o /\ Kind(q) = k, NEW op,
         ReinitExpected(o, k, x, how, src, op)
  PROVE  Inv'
<1>1. /\ o \in Objs /\ Kind(o) \in Kinds /\ Held(o) \in Live(Kind(o))
      /\ After(k, x, how) \in Live(k) /\ AfterThrow(k, x, how) \subseteq Live(k)
      /\ alive \cup {o} = alive
  BY HeldLive, AfterLive
<1>2. CASE /\ slot' = Leave([slot EXCEPT ![o] = Only(k, x)], src, k, After(k, x, how))
           /\ has' = [has EXCEPT ![o] = k = "value"]
  <2>1. /\ has' \in [Objs -> BOOLEAN] /\ KindOf(has'[o]) = k
        /\ \A q \in Objs : q # o => has'[q] = has[q]
    BY <1>1, <1>2, FlagSet
  <2>2. slot' = Leave([slot EXCEPT ![o] = Only(k, x)], src, k, After(k, x, how))
    BY <1>2
  <2> QED
    BY <1>1, <2>1, <2>2, OnlySlotsStep
<1>3. CASE /\ \E y \in AfterThrow(k, x, how) :
                slot' = Leave([slot EXCEPT ![o] = Only(Kind(o), Held(o))], src, k, y)
           /\ UNCHANGED has
  <2>1. PICK y \in Live(k) :
          slot' = Leave([slot EXCEPT ![o] = Only(Kind(o), Held(o))], src, k, y)
    BY <1>1, <1>3
  <2>2. has' \in [Objs -> BOOLEAN] /\ KindOf(has'[o]) = Kind(o)
        /\ \A q \in Objs : q # o => has'[q] = has[q]
    BY <1>3, SlotsInv DEF Kind
  <2> QED
    BY <1>1, <2>1, <2>2, OnlySlotsStep
<1> QED
  BY <1>2, <1>3, Zenon DEF ReinitExpected

\* The copy and the move assignment.
LEMMA AssignFromStep ==
  ASSUME Inv, NEW o \in Objs, NEW p \in Objs, NEW how, AssignFrom(o, p, how)
  PROVE  Inv'
<1> DEFINE k   == Kind(p)
           x   == Held(p)
           src == Source(p, how)
<1>1. /\ o \in alive /\ p \in alive /\ o # p /\ UNCHANGED <<vt, et, alive>>
      /\ \/ AssignSame(o, k, x, how, src, "assign_from", FALSE)
         \/ ReinitExpected(o, k, x, how, src, "assign_from")
  BY DEF AssignFrom
<1>2. k \in Kinds /\ x \in Live(k)
  BY <1>1, HeldLive
<1>3. \A q \in src : q \in alive /\ q # o /\ Kind(q) = k
  BY <1>1 DEF Source
<1> HIDE DEF k, x, src
<1> QED
  BY <1>1, <1>2, <1>3, AssignSameStep, ReinitStep

\* The assignments of a value and of an unexpected.
LEMMA AssignStep ==
  ASSUME Inv, NEW o \in Objs, NEW k \in Kinds, NEW x, NEW how, Assign(o, k, x, how)
  PROVE  Inv'
<1>1. /\ o \in alive /\ x \in Live(k) /\ UNCHANGED <<vt, et, alive>>
  BY LiveNotRaw DEF Assign
<1>2. \/ \E nx : AssignSame(o, k, x, how, {}, "assign", nx)
      \/ ReinitExpected(o, k, x, how, {}, "assign")
  BY DEF Assign
<1> QED
  BY <1>1, <1>2, AssignSameStep, ReinitStep

\* emplace.
LEMMA EmplaceStep ==
  ASSUME Inv, NEW o \in Objs, NEW x, NEW how, Emplace(o, x, how)
  PROVE  Inv'
<1> DEFINE k == "value"
<1>1. /\ k \in Kinds /\ x \in Live(k) /\ UNCHANGED <<vt, et>>
      /\ alive' = alive \cup {o} /\ slot' = [slot EXCEPT ![o] = Only(k, x)]
  BY LiveNotRaw DEF Emplace, Kinds
<1>2. /\ has' \in [Objs -> BOOLEAN] /\ KindOf(has'[o]) = k
      /\ \A q \in Objs : q # o => has'[q] = has[q]
  <2>1. has' = [has EXCEPT ![o] = k = "value"]
    BY DEF Emplace
  <2> QED
    BY <1>1, <2>1, FlagSet
<1> HIDE DEF k
<1> QED
  BY <1>1, <1>2, OnlyStep

\* A swap of two values or of two errors.
LEMMA SwapSameStep ==
  ASSUME Inv, UNCHANGED <<vt, et, alive>>, NEW o \in alive, NEW p \in alive, SwapSame(o, p)
  PROVE  Inv'
<1>1. /\ o \in Objs /\ p \in Objs /\ Kind(p) = Kind(o) /\ Kind(o) \in Kinds
      /\ Held(o) \in Live(Kind(o)) /\ Held(p) \in Live(Kind(o)) /\ UNCHANGED has
  BY HeldLive DEF SwapSame
<1> DEFINE k == Kind(o)
<1> DEFINE throws == ~(Type(k).mctor /\ Type(k).massign)
           Maybe(a)  == a \in {Held(o), Held(p)} \/ (throws /\ a = Moved)
<1>2. PICK a, b : slot' = [slot EXCEPT ![o][k] = a, ![p][k] = b] /\ Maybe(a) /\ Maybe(b)
  <2>1. CASE slot' = [slot EXCEPT ![o][k] = Held(p), ![p][k] = Held(o)]
    BY <2>1
  <2>2. ASSUME throws,
               NEW s \in {<<Held(o), Held(p)>>, <<Moved, Held(p)>>, <<Moved, Moved>>,
                          <<Held(p), Moved>>},
               slot' = [slot EXCEPT ![o][k] = s[1], ![p][k] = s[2]]
        PROVE  \E a, b : slot' = [slot EXCEPT ![o][k] = a, ![p][k] = b] /\ Maybe(a) /\ Maybe(b)
    <3>1. Maybe(s[1]) /\ Maybe(s[2])
      BY <2>2
    <3> QED
      BY <2>2, <3>1, Zenon
  <2> QED
    BY <2>1, <2>2, Zenon DEF SwapSame
<1>3. throws => Moved \in Live(k)
  BY SlotsInv, ExpectedAssumption DEF Type, Live, Void
<1>4. a \in Live(k) /\ b \in Live(k) /\ k \in Kinds
  BY <1>1, <1>2, <1>3
<1> HIDE DEF k
<1>5. a \in Stuff /\ b \in Stuff /\ slot \in [Objs -> [Kinds -> Stuff]]
  BY <1>4, LiveNotRaw, SlotsInv
<1>6. /\ slot' \in [Objs -> [Kinds -> Stuff]]
      /\ \A q \in Objs : \A i \in Kinds :
           slot'[q][i] = IF q = p /\ i = k THEN b
                         ELSE IF q = o /\ i = k THEN a ELSE slot[q][i]
  BY <1>1, <1>2, <1>4, <1>5
<1> QED
  BY <1>1, <1>4, <1>6, WriteStep DEF k

\* Two objects of different kinds that exchange their contents.
LEMMA ExchangeStep ==
  ASSUME Inv, UNCHANGED <<vt, et, alive>>, NEW a \in alive, NEW b \in alive,
         a # b, NEW i \in Kinds, NEW j \in Kinds, NEW x \in Live(i), NEW y \in Live(j),
         slot' = [slot EXCEPT ![a] = Only(i, x), ![b] = Only(j, y)],
         has' \in [Objs -> BOOLEAN], KindOf(has'[a]) = i, KindOf(has'[b]) = j,
         \A q \in Objs \ {a, b} : has'[q] = has[q]
  PROVE  Inv'
<1>1. /\ x \in Stuff /\ y \in Stuff /\ Raw \in Stuff /\ slot \in [Objs -> [Kinds -> Stuff]]
      /\ a \in Objs /\ b \in Objs
  BY LiveNotRaw, SlotsInv DEF Stuff
<1>2. /\ slot' \in [Objs -> [Kinds -> Stuff]]
      /\ \A q \in Objs : \A m \in Kinds :
           slot'[q][m] = IF q = a THEN IF m = i THEN x ELSE Raw
                         ELSE IF q = b THEN IF m = j THEN y ELSE Raw ELSE slot[q][m]
  BY <1>1 DEF Only
<1>3. ASSUME NEW q \in Objs, NEW m \in Kinds
      PROVE  IF q \in alive' /\ m = KindOf(has'[q]) THEN slot'[q][m] \in Live(m)
                                                   ELSE slot'[q][m] = Raw
  <2>1. CASE q = a
    BY <2>1, <1>2
  <2>2. CASE q = b
    BY <2>2, <1>2
  <2>3. CASE q \notin {a, b}
    <3>1. q \in alive' <=> q \in alive
      OBVIOUS
    <3>2. KindOf(has'[q]) = Kind(q)
      BY <2>3 DEF Kind
    <3>3. slot'[q][m] = slot[q][m]
      BY <2>3, <1>2
    <3> QED
      BY <3>1, <3>2, <3>3, SlotsInv
  <2> QED
    BY <2>1, <2>2, <2>3
<1> QED
  BY <1>2, <1>3, SlotsInv, InvSlots

\* A swap of a value in o and an error in p.
LEMMA SwapDifferentStep ==
  ASSUME Inv, UNCHANGED <<vt, et, alive>>, NEW o \in alive, NEW p \in alive, o # p,
         SwapDifferent(o, p)
  PROVE  Inv'
<1>1. PICK first, other :
        /\ first = (IF et.mctor THEN p ELSE o)
        /\ other = (IF et.mctor THEN o ELSE p)
  OBVIOUS
<1> DEFINE i == Kind(first)
           k == Kind(other)
<1>2. /\ first \in alive /\ other \in alive /\ first # other
      /\ {first, other} = {o, p}
  BY <1>1
<1>3. /\ first \in Objs /\ other \in Objs /\ i \in Kinds /\ k \in Kinds
      /\ Held(first) \in Live(i) /\ Held(other) \in Live(k)
  BY <1>2, HeldLive
<1>4. has[o] /\ ~has[p]
  BY DEF SwapDifferent
<1>5. CASE /\ slot' = [slot EXCEPT ![first] = Only(k, Held(other)),
                                  ![other] = Only(i, Held(first))]
           /\ has' = [has EXCEPT ![o] = FALSE, ![p] = TRUE]
  <2>1. has \in [Objs -> BOOLEAN] /\ o \in Objs /\ p \in Objs
    BY SlotsInv
  <2>2. /\ has' \in [Objs -> BOOLEAN] /\ has'[o] = FALSE /\ has'[p] = TRUE
        /\ \A q \in Objs \ {o, p} : has'[q] = has[q]
    BY <1>5, <2>1, Zenon
  <2>3. KindOf(has'[o]) = Kind(p) /\ KindOf(has'[p]) = Kind(o)
    BY <1>4, <2>2, Zenon DEF KindOf, Kind
  <2>4. KindOf(has'[first]) = k /\ KindOf(has'[other]) = i
    BY <1>1, <2>3
  <2>5. \A q \in Objs \ {first, other} : has'[q] = has[q]
    BY <1>2, <2>2
  <2>6. slot' = [slot EXCEPT ![first] = Only(k, Held(other)),
                             ![other] = Only(i, Held(first))]
    BY <1>5
  <2> HIDE DEF i, k
  <2> QED
    BY <1>2, <1>3, <2>2, <2>4, <2>5, <2>6, ExchangeStep
<1>6. CASE /\ \E y \in AfterThrow(k, Held(other), "move") :
                slot' = [slot EXCEPT ![first] = Only(i, Held(first)), ![other][k] = y]
           /\ UNCHANGED has
  <2>1. PICK y \in AfterThrow(k, Held(other), "move") :
          slot' = [slot EXCEPT ![first] = Only(i, Held(first)), ![other][k] = y]
    BY <1>6
  <2> HIDE DEF i, k
  <2>2. y \in Live(k)
    BY <1>3, AfterLive
  <2>3. /\ y \in Stuff /\ Held(first) \in Stuff /\ Raw \in Stuff
        /\ slot \in [Objs -> [Kinds -> Stuff]]
    BY <1>3, <2>2, LiveNotRaw, SlotsInv DEF Stuff
  <2>4. /\ slot' \in [Objs -> [Kinds -> Stuff]]
        /\ \A q \in Objs : \A m \in Kinds :
             slot'[q][m] = IF q = first THEN IF m = i THEN Held(first) ELSE Raw
                           ELSE IF q = other /\ m = k THEN y ELSE slot[q][m]
    BY <1>2, <1>3, <2>1, <2>3 DEF Only
  <2>5. \A m \in Kinds : m # i => slot[first][m] = Raw
    BY <1>3, SlotsInv DEF i
  <2>6. \A q \in Objs : \A m \in Kinds :
          slot'[q][m] = slot[q][m] \/ (q \in alive /\ m = Kind(q) /\ slot'[q][m] \in Live(m))
    BY <1>2, <1>3, <2>2, <2>4, <2>5 DEF i, k
  <2> QED
    BY <1>6, <2>4, <2>6, WriteStep
<1> QED
  BY <1>1, <1>5, <1>6, Zenon DEF SwapDifferent

\* swap, whatever the two objects hold.
LEMMA SwapStep ==
  ASSUME Inv, NEW o \in Objs, NEW p \in Objs, Swap(o, p)
  PROVE  Inv'
<1>1. o \in alive /\ p \in alive /\ o # p /\ UNCHANGED <<vt, et, alive>>
  BY DEF Swap
<1>2. SwapSame(o, p) \/ SwapDifferent(o, p) \/ SwapDifferent(p, o)
  BY DEF Swap
<1> QED
  BY <1>1, <1>2, SwapSameStep, SwapDifferentStep

\* value(), whose exception may take the error along.
LEMMA ValueStep ==
  ASSUME Inv, NEW o \in Objs, NEW how, Value(o, how)
  PROVE  Inv'
<1>1. o \in alive /\ UNCHANGED <<vt, et, alive, has>>
  BY DEF Value
<1>2. CASE UNCHANGED slot
  BY <1>1, <1>2, SlotsInv, WriteStep
<1>3. CASE /\ ~has[o]
           /\ \E y \in AfterThrow("error", Held(o), how) : slot' = Leave(slot, {o}, "error", y)
  <2>1. Kind(o) = "error"
    BY <1>3, Zenon DEF Kind, KindOf
  <2>2. "error" \in Kinds /\ Held(o) \in Live("error")
    BY <1>1, <2>1, HeldLive
  <2>3. PICK y \in Live("error") : slot' = Leave(slot, {o}, "error", y)
    BY <1>3, <2>2, AfterLive
  <2> QED
    BY <1>1, <2>1, <2>2, <2>3, LeaveStep
<1>4. After("error", Held(o), how) \in AfterThrow("error", Held(o), how)
  BY DEF AfterThrow
<1> QED
  BY <1>2, <1>3, <1>4, Zenon DEF Value

\* What the operand holds is passed on.
LEMMA PassOnStep ==
  ASSUME Inv, UNCHANGED <<vt, et>>, NEW op, NEW o \in Objs, NEW p \in alive, o # p,
         NEW how, PassOn(op, o, p, how)
  PROVE  Inv'
<1> DEFINE k == Kind(p)
           x == Held(p)
<1>1. Begin(o, k, x, how, Source(p, how)) \/ Spoil(k, x, how, Source(p, how))
  BY DEF PassOn
<1>2. k \in Kinds /\ x \in Live(k)
  BY HeldLive
<1>3. \A q \in Source(p, how) : q \in alive /\ q # o /\ Kind(q) = k
  BY DEF Source
<1> HIDE DEF k, x
<1> QED
  BY <1>1, <1>2, <1>3, BeginStep, SpoilStep

\* f is called with what the operand holds.
LEMMA ApplyStep ==
  ASSUME Inv, UNCHANGED <<vt, et>>, NEW op, NEW o \in Objs, NEW p \in alive, o # p,
         NEW how, NEW k \in Kinds, NEW x \in Inputs(k), Apply(op, o, p, how, k, x)
  PROVE  Inv'
<1> DEFINE j   == Kind(p)
           src == Source(p, how)
<1>1. PICK y \in AfterThrow(j, Held(p), how) :
        \/ /\ alive' = alive \cup {o}
           /\ has' = [has EXCEPT ![o] = k = "value"]
           /\ slot' = Leave([slot EXCEPT ![o] = Only(k, x)], src, j, y)
        \/ /\ slot' = Leave(slot, src, j, y)
           /\ UNCHANGED <<alive, has>>
  BY Zenon DEF Apply
<1>2. x \in Live(k) /\ j \in Kinds /\ y \in Live(j)
  BY LiveNotRaw, HeldLive, AfterLive
<1>3. \A q \in src : q \in alive /\ q # o /\ Kind(q) = j
  BY DEF Source
<1> HIDE DEF j, src
<1>4. CASE /\ alive' = alive \cup {o}
           /\ has' = [has EXCEPT ![o] = k = "value"]
           /\ slot' = Leave([slot EXCEPT ![o] = Only(k, x)], src, j, y)
  <2>1. /\ has' \in [Objs -> BOOLEAN] /\ KindOf(has'[o]) = k
        /\ \A q \in Objs : q # o => has'[q] = has[q]
    BY <1>4, FlagSet
  <2>2. alive' = alive \cup {o} /\ slot' = Leave([slot EXCEPT ![o] = Only(k, x)], src, j, y)
    BY <1>4
  <2> QED
    BY <1>2, <1>3, <2>1, <2>2, OnlySlotsStep
<1>5. CASE slot' = Leave(slot, src, j, y) /\ UNCHANGED <<alive, has>>
  BY <1>2, <1>3, <1>5, LeaveStep
<1> QED
  BY <1>1, <1>4, <1>5, Zenon

\* The monadic operations.
LEMMA MonadicStep ==
  ASSUME Inv, NEW op, NEW o \in Objs, NEW p \in Objs, NEW how, Monadic(op, o, p, how)
  PROVE  Inv'
<1>1. /\ p \in alive /\ o # p /\ UNCHANGED <<vt, et>>
  BY DEF Monadic
<1>2. PassOn(op, o, p, how) \/ \E k \in Kinds : \E x \in Inputs(k) : Apply(op, o, p, how, k, x)
  BY DEF Monadic
<1> QED
  BY <1>1, <1>2, PassOnStep, ApplyStep

\* The program starts with no expected alive.
LEMMA InitInv == Init => Inv
BY ExpectedAssumption DEF Init, Inv, TypeOK, FlagTellsWhatLives, Nothing, Kinds

\* A call keeps the invariant.
LEMMA CallInv ==
  ASSUME Inv, Call
  PROVE  Inv'
<1>1. ASSUME NEW o \in Objs, NEW k \in Kinds, NEW how \in Ways, NEW x \in Inputs(k),
             (\E form \in Forms(k) : Construct(o, k, x, how, form)) \/ Assign(o, k, x, how)
      PROVE  Inv'
  BY <1>1, ConstructStep, AssignStep
<1>2. ASSUME NEW o \in Objs, NEW how \in Ways,
             (\E x \in Inputs("value") : Emplace(o, x, how)) \/ Value(o, how)
      PROVE  Inv'
  BY <1>2, EmplaceStep, ValueStep
<1>3. ASSUME NEW o \in Objs, NEW p \in Objs, NEW how \in Ways,
             \/ ConstructFrom(o, p, how) \/ AssignFrom(o, p, how)
             \/ \E op \in {"and_then", "transform", "or_else", "transform_error"} :
                  Monadic(op, o, p, how)
      PROVE  Inv'
  BY <1>3, ConstructFromStep, AssignFromStep, MonadicStep
<1>4. ASSUME NEW o \in Objs, NEW p \in Objs, Swap(o, p)
      PROVE  Inv'
  BY <1>4, SwapStep
<1>5. ASSUME NEW o \in Objs, Destroy(o)
      PROVE  Inv'
  BY <1>5, DestroyStep
<1> QED
  BY <1>1, <1>2, <1>3, <1>4, <1>5, Zenon DEF Call

\* So does every step.
LEMMA NextInv == Inv /\ [Next]_vars => Inv'
<1> SUFFICES ASSUME Inv, [Next]_vars
             PROVE  Inv'
  OBVIOUS
<1>1. CASE Call
  BY <1>1, CallInv
<1>2. CASE UNCHANGED <<vt, et, alive, has, slot>>
  BY <1>2, SlotsInv, WriteStep
<1> QED
  BY <1>1, <1>2 DEF Next, Return, vars

\* The state of every expected keeps its shape: the slots of its union hold values of
\* their types, moved-from objects or nothing.
THEOREM TypeCorrect == Spec => []TypeOK
BY InitInv, NextInv, PTL DEF Spec, Inv

\* has_value_ tells what lives in the union of every expected, whichever copies, moves,
\* assignments and functions of the user's types throw.
THEOREM FlagTellsWhatLivesHolds == Spec => []FlagTellsWhatLives
BY InitInv, NextInv, PTL DEF Spec, Inv

-------------------------------------------------------------------------------
(* what a throw costs *)

\* Constructing where nothing but a void value lives ends no lifetime.
LEMMA LostNothing ==
  ASSUME NEW s, \A k \in Kinds : s[k] \in {Raw, Unit}, NEW op
  PROVE  Lost(s, op) = {}
BY DEF Lost

\* Nothing lives where an object has not begun or has been destroyed.
LEMMA LostDead ==
  ASSUME Inv, NEW o \in Objs, o \notin alive, NEW op
  PROVE  Lost(slot[o], op) = {}
BY SlotsInv, LostNothing

\* Nor where what lived has just been destroyed.
LEMMA LostDestroyed ==
  ASSUME Inv, NEW o \in Objs, NEW op
  PROVE  Lost(Destroyed(slot[o], Kind(o)), op) = {}
<1>1. \A j \in Kinds : j # Kind(o) => slot[o][j] = Raw
  BY SlotsInv
<1>2. slot[o] \in [Kinds -> Stuff]
  BY SlotsInv
<1>3. \A j \in Kinds : Destroyed(slot[o], Kind(o))[j] = Raw
  BY <1>1, <1>2 DEF Destroyed
<1> QED
  BY <1>3, LostNothing

\* With two nothrow moves, neither kind's move throws.
LEMMA NothrowMove ==
  ASSUME vt.mctor, et.mctor, NEW k
  PROVE  Type(k).mctor
BY DEF Type

\* Between nothrow moves, a change of kind destroys the old object first.
LEMMA ReinitLosesNothing ==
  ASSUME Inv, vt.mctor, et.mctor, NEW o \in alive, NEW k, NEW x, NEW how, NEW src, NEW op,
         ReinitExpected(o, k, x, how, src, op)
  PROVE  lost' = lost
<1> DEFINE safe == NothrowConstruct(k, how) \/ Type(k).mctor \/ Void(Kind(o))
           aside == [slot[o] EXCEPT ![Kind(o)] = After(Kind(o), @, "move")]
           s     == IF safe THEN Destroyed(slot[o], Kind(o)) ELSE aside
<1>1. safe
  BY NothrowMove
<1>2. \/ lost' = lost \cup Lost(s, op)
      \/ lost' = IF safe THEN lost ELSE lost \cup Lost(aside, op)
  BY Zenon DEF ReinitExpected
<1>3. s = Destroyed(slot[o], Kind(o))
  BY <1>1
<1>4. Lost(s, op) = {}
  BY <1>3, SlotsInv, LostDestroyed
<1> HIDE DEF safe, aside, s
<1> QED
  BY <1>1, <1>2, <1>4

\* A constructor ends no lifetime.
LEMMA BeginLosesNothing ==
  ASSUME Inv, NEW o \in Objs, o \notin alive, NEW k, NEW x, NEW how, NEW src,
         Begin(o, k, x, how, src) \/ Spoil(k, x, how, src)
  PROVE  lost' = lost
<1>1. lost' = lost \cup Lost(slot[o], "construct") \/ lost' = lost
  BY DEF Begin, Spoil
<1> QED
  BY <1>1, LostDead

\* swap destroys before it constructs.
LEMMA SwapLosesNothing ==
  ASSUME Inv, NEW o \in alive, NEW p \in alive, SwapDifferent(o, p)
  PROVE  lost' = lost
<1>1. PICK first, other :
        /\ first = (IF et.mctor THEN p ELSE o)
        /\ other = (IF et.mctor THEN o ELSE p)
  OBVIOUS
<1> DEFINE place  == Lost(Destroyed(slot[first], Kind(first)), "swap")
           vacant == Lost(Destroyed(slot[other], Kind(other)), "swap")
<1>2. \/ lost' = lost \cup place \cup vacant
      \/ lost' = lost \cup place
  BY <1>1, Zenon DEF SwapDifferent
<1>3. first \in Objs /\ other \in Objs
  BY <1>1, SlotsInv
<1>4. place = {} /\ vacant = {}
  BY <1>3, LostDestroyed
<1> HIDE DEF place, vacant
<1> QED
  BY <1>2, <1>4

\* No call loses an object where both types have moves that cannot throw.
LEMMA CallLosesNothing ==
  ASSUME Inv, Call, vt.mctor, et.mctor
  PROVE  lost' = lost
<1>1. ASSUME NEW o \in Objs, NEW k \in Kinds, NEW how, NEW x, NEW form,
             Construct(o, k, x, how, form)
      PROVE  lost' = lost
  <2>1. /\ o \notin alive
        /\ Begin(o, k, x, how, {}) \/ Spoil(k, x, how, {})
    BY <1>1 DEF Construct
  <2> QED
    BY <2>1, BeginLosesNothing
<1>2. ASSUME NEW o \in Objs, NEW k \in Kinds, NEW how, NEW x, Assign(o, k, x, how)
      PROVE  lost' = lost
  <2>1. /\ o \in alive
        /\ \/ \E nx : AssignSame(o, k, x, how, {}, "assign", nx)
           \/ ReinitExpected(o, k, x, how, {}, "assign")
    BY <1>2 DEF Assign
  <2>2. (\E nx : AssignSame(o, k, x, how, {}, "assign", nx)) => lost' = lost
    BY DEF AssignSame
  <2> QED
    BY <2>1, <2>2, ReinitLosesNothing
<1>3. ASSUME NEW o \in Objs, NEW how, NEW x, Emplace(o, x, how)
      PROVE  lost' = lost
  <2>1. lost' = lost \cup Lost(Destroyed(slot[o], Kind(o)), "emplace")
    BY <1>3 DEF Emplace
  <2> QED
    BY <2>1, LostDestroyed
<1>4. ASSUME NEW o \in Objs, NEW p \in Objs, NEW how, ConstructFrom(o, p, how)
      PROVE  lost' = lost
  <2>1. /\ o \notin alive
        /\ \/ Begin(o, Kind(p), Held(p), how, Source(p, how))
           \/ Spoil(Kind(p), Held(p), how, Source(p, how))
    BY <1>4, Zenon DEF ConstructFrom
  <2> QED
    BY <2>1, BeginLosesNothing
<1>5. ASSUME NEW o \in Objs, NEW p \in Objs, NEW how, AssignFrom(o, p, how)
      PROVE  lost' = lost
  <2>1. /\ o \in alive
        /\ \/ AssignSame(o, Kind(p), Held(p), how, Source(p, how), "assign_from", FALSE)
           \/ ReinitExpected(o, Kind(p), Held(p), how, Source(p, how), "assign_from")
    BY <1>5 DEF AssignFrom
  <2>2. AssignSame(o, Kind(p), Held(p), how, Source(p, how), "assign_from", FALSE)
          => lost' = lost
    BY Zenon DEF AssignSame
  <2> QED
    BY <2>1, <2>2, ReinitLosesNothing
<1>6. ASSUME NEW o \in Objs, NEW p \in Objs, NEW how, NEW op, Monadic(op, o, p, how)
      PROVE  lost' = lost
  <2>1. /\ o \notin alive
        /\ PassOn(op, o, p, how) \/ \E k, x : Apply(op, o, p, how, k, x)
    BY <1>6 DEF Monadic
  <2>2. CASE PassOn(op, o, p, how)
    <3>1. \/ Begin(o, Kind(p), Held(p), how, Source(p, how))
          \/ Spoil(Kind(p), Held(p), how, Source(p, how))
      BY <2>2, Zenon DEF PassOn
    <3> QED
      BY <2>1, <3>1, BeginLosesNothing
  <2>3. CASE \E k, x : Apply(op, o, p, how, k, x)
    BY <2>3, Zenon DEF Apply
  <2> QED
    BY <2>1, <2>2, <2>3
<1>7. ASSUME NEW o \in Objs, NEW p \in Objs, Swap(o, p)
      PROVE  lost' = lost
  <2>1. o \in alive /\ p \in alive
    BY <1>7 DEF Swap
  <2>2. SwapSame(o, p) => lost' = lost
    BY Zenon DEF SwapSame
  <2>3. SwapSame(o, p) \/ SwapDifferent(o, p) \/ SwapDifferent(p, o)
    BY <1>7 DEF Swap
  <2> QED
    BY <2>1, <2>2, <2>3, SwapLosesNothing
<1>8. ASSUME NEW o \in Objs, NEW how, Value(o, how) \/ Destroy(o)
      PROVE  lost' = lost
  BY <1>8, Zenon DEF Value, Destroy
<1> QED
  BY <1>1, <1>2, <1>3, <1>4, <1>5, <1>6, <1>7, <1>8, Zenon DEF Call

\* The outcomes of an assignment and of a change of kind.
LEMMA AssignOutcome ==
  ASSUME NEW o, NEW k, NEW x, NEW how, NEW src, NEW op, NEW nx \in BOOLEAN,
         AssignSame(o, k, x, how, src, op, nx) \/ ReinitExpected(o, k, x, how, src, op)
  PROVE  /\ last'.op = op /\ last'.kind = k /\ last'.how = how
         /\ last'.out = "terminated" => nx
<1>1. \E out \in {"ok", "threw", "terminated"} :
        Called(op, o, k, x, how, out) /\ (out = "terminated" => nx)
  BY Zenon DEF AssignSame, ReinitExpected
<1> QED
  BY <1>1 DEF Called

\* A call that terminates is one of those the code declares noexcept.
LEMMA CallTerminates ==
  ASSUME Call
  PROVE  TerminatesOnly'
<1> DEFINE Quiet == \E op, o, k, x, how : \E out \in {"ok", "threw", "bad_access"} :
                      Called(op, o, k, x, how, out)
<1> DEFINE Forwards == {"in_place", "unexpect", "and_then", "or_else", "transform",
                        "transform_error"}
<1>0. Quiet => TerminatesOnly'
  BY DEF Called, TerminatesOnly, Running
<1>1. ASSUME NEW op \in Forwards, NEW o, NEW k, NEW x, NEW how, NEW out,
             Called(op, o, k, x, how, out)
      PROVE  TerminatesOnly'
  BY <1>1 DEF Called, TerminatesOnly
<1> HIDE DEF Quiet
<1>2. ASSUME NEW o \in Objs, NEW k \in Kinds, NEW how, NEW x, NEW form \in Forms(k),
             Construct(o, k, x, how, form)
      PROVE  TerminatesOnly'
  <2>1. \E out : /\ Called(form, o, k, x, how, out)
                 /\ form \in {"in_place", "unexpect"} \/ out \in {"ok", "threw"}
    BY <1>2, Zenon DEF Construct
  <2> QED
    BY <2>1, <1>0, <1>1, Zenon DEF Quiet
<1>3. ASSUME NEW o \in Objs, NEW k \in Kinds, NEW how, NEW x, Assign(o, k, x, how)
      PROVE  TerminatesOnly'
  <2> DEFINE nx == k = "error" /\ ~vt.void /\ NothrowConstruct(k, how)
  <2>1. /\ \/ AssignSame(o, k, x, how, {}, "assign", nx)
           \/ ReinitExpected(o, k, x, how, {}, "assign")
        /\ UNCHANGED et
    BY <1>3 DEF Assign
  <2>2. nx \in BOOLEAN
    OBVIOUS
  <2>3. nx => k = "error" /\ NothrowConstruct("error", how)
    OBVIOUS
  <2> HIDE DEF nx
  <2>4. /\ last'.op = "assign" /\ last'.kind = k /\ last'.how = how
        /\ last'.out = "terminated" => nx
    BY <2>1, <2>2, AssignOutcome
  <2>5. NothrowConstruct("error", how)' <=> NothrowConstruct("error", how)
    BY <2>1 DEF NothrowConstruct, Type
  <2> QED
    BY <2>3, <2>4, <2>5 DEF TerminatesOnly, Running, NothrowConstruct
<1>4. ASSUME NEW o \in Objs, NEW how, NEW x, Emplace(o, x, how)
      PROVE  TerminatesOnly'
  BY <1>4, <1>0, Zenon DEF Emplace, Quiet
<1>5. ASSUME NEW o \in Objs, NEW p \in Objs, NEW how \in Ways, ConstructFrom(o, p, how)
      PROVE  TerminatesOnly'
  <2>1. /\ UNCHANGED <<vt, et>>
        /\ \/ Called("construct_from", o, Kind(p), Held(p), how, "ok")
           \/ /\ ~NothrowConstruct(Kind(p), how)
              /\ Called("construct_from", o, Kind(p), Held(p), how,
                        IF vt.mctor /\ et.mctor THEN "terminated" ELSE "threw")
    BY <1>5, Zenon DEF ConstructFrom
  <2>2. ASSUME vt.mctor, et.mctor, ~NothrowConstruct(Kind(p), how)
        PROVE  how = "copy"
    BY <2>2, NothrowMove DEF NothrowConstruct
  <2> QED
    BY <2>1, <2>2 DEF Called, TerminatesOnly, Running
<1>6. ASSUME NEW o \in Objs, NEW p \in Objs, NEW how, AssignFrom(o, p, how)
      PROVE  TerminatesOnly'
  <2>1. last'.out # "terminated"
    BY <1>6, AssignOutcome DEF AssignFrom
  <2> QED
    BY <2>1 DEF TerminatesOnly, Running
<1>7. ASSUME NEW o \in Objs, NEW p \in Objs, NEW how,
             NEW op \in {"and_then", "transform", "or_else", "transform_error"},
             Monadic(op, o, p, how)
      PROVE  TerminatesOnly'
  <2>1. \E k, x, way, out : Called(op, o, k, x, way, out)
    BY <1>7, Zenon DEF Monadic, PassOn, Apply
  <2>2. op \in Forwards
    OBVIOUS
  <2> QED
    BY <2>1, <2>2, <1>1, Zenon
<1>8. ASSUME NEW o \in Objs, NEW p \in Objs, Swap(o, p)
      PROVE  TerminatesOnly'
  BY <1>8, <1>0, Zenon DEF Swap, SwapSame, SwapDifferent, Quiet
<1>9. ASSUME NEW o \in Objs, NEW how, Value(o, how) \/ Destroy(o)
      PROVE  TerminatesOnly'
  BY <1>9, <1>0, Zenon DEF Value, Destroy, Quiet
<1> QED
  BY <1>2, <1>3, <1>4, <1>5, <1>6, <1>7, <1>8, <1>9, Zenon DEF Call

\* No call changes the types.
LEMMA CallKeepsTypes ==
  ASSUME Call
  PROVE  UNCHANGED <<vt, et>>
<1>1. /\ \A o, k, x, how, form : Construct(o, k, x, how, form) => UNCHANGED <<vt, et>>
      /\ \A o, k, x, how : Assign(o, k, x, how) => UNCHANGED <<vt, et>>
      /\ \A o, x, how : Emplace(o, x, how) => UNCHANGED <<vt, et>>
  BY DEF Construct, Assign, Emplace
<1>2. /\ \A o, how : Value(o, how) => UNCHANGED <<vt, et>>
      /\ \A o, p, how : ConstructFrom(o, p, how) => UNCHANGED <<vt, et>>
      /\ \A o, p, how : AssignFrom(o, p, how) => UNCHANGED <<vt, et>>
  BY DEF Value, ConstructFrom, AssignFrom
<1>3. /\ \A op, o, p, how : Monadic(op, o, p, how) => UNCHANGED <<vt, et>>
      /\ \A o, p : Swap(o, p) => UNCHANGED <<vt, et>>
      /\ \A o : Destroy(o) => UNCHANGED <<vt, et>>
  BY DEF Monadic, Swap, Destroy
<1> QED
  BY <1>1, <1>2, <1>3, Zenon DEF Call

\* A step costs no more than ThrowsCostOnly says.
LEMMA ThrowsCostStep == Inv /\ ThrowsCostOnly /\ [Next]_vars => ThrowsCostOnly'
<1> SUFFICES ASSUME Inv, ThrowsCostOnly, [Next]_vars
             PROVE  ThrowsCostOnly'
  OBVIOUS
<1>1. CASE Call
  <2>1. UNCHANGED <<vt, et>>
    BY <1>1, CallKeepsTypes
  <2>2. NothrowMovesLoseNothing'
    BY <1>1, <2>1, CallLosesNothing DEF ThrowsCostOnly, NothrowMovesLoseNothing
  <2> QED
    BY <1>1, <2>2, CallTerminates DEF ThrowsCostOnly
<1>2. CASE Return
  BY <1>2 DEF Return, ThrowsCostOnly, NothrowMovesLoseNothing, TerminatesOnly, Running, NoCall
<1>3. CASE UNCHANGED vars
  BY <1>3 DEF vars, ThrowsCostOnly, NothrowMovesLoseNothing, TerminatesOnly, Running,
              NothrowConstruct, Type
<1> QED
  BY <1>1, <1>2, <1>3 DEF Next

\* A throw of the user's types costs no object where their moves are nothrow, and the
\* program only where the code forwards to a constructor, or assigns an error, inside a
\* noexcept function.
THEOREM ThrowsCostOnlyHolds == Spec => []ThrowsCostOnly
<1>1. Init => ThrowsCostOnly
  BY DEF Init, ThrowsCostOnly, NothrowMovesLoseNothing, TerminatesOnly, Running, NoCall
<1> QED
  BY <1>1, InitInv, NextInv, ThrowsCostStep, PTL DEF Spec

-------------------------------------------------------------------------------
(* a throw changes no kind *)

\* What an assignment or a swap that throws keeps.
KeepsKinds ==
  last'.out \in {"threw", "bad_access"} =>
    /\ UNCHANGED <<alive, has>>
    /\ last'.op \in {"assign_from", "assign"} /\ last'.kind # Kind(last'.obj) =>
         slot'[last'.obj] = slot[last'.obj]

\* An object of the kind k, and no other, is what its slots are.
LEMMA OnlyHeld ==
  ASSUME Inv, NEW o \in Objs
  PROVE  Only(Kind(o), Held(o)) = slot[o]
<1>1. slot[o] \in [Kinds -> Stuff] /\ \A j \in Kinds : j # Kind(o) => slot[o][j] = Raw
  BY SlotsInv
<1> QED
  BY <1>1 DEF Only, Held

\* The assignments and the change of kind.
LEMMA AssignKeepsKinds ==
  ASSUME Inv, UNCHANGED alive, NEW o \in alive, NEW k, NEW x, NEW how, NEW src, o \notin src,
         NEW op, NEW nx,
         AssignSame(o, k, x, how, src, op, nx) \/ ReinitExpected(o, k, x, how, src, op)
  PROVE  KeepsKinds
<1>1. CASE AssignSame(o, k, x, how, src, op, nx)
  <2>1. UNCHANGED has /\ k = Kind(o) /\ \E out : Called(op, o, k, x, how, out)
    BY <1>1, Zenon DEF AssignSame
  <2> QED
    BY <2>1 DEF KeepsKinds, Called
<1>2. CASE Called(op, o, k, x, how, "ok")
  BY <1>2 DEF KeepsKinds, Called
<1>3. ASSUME UNCHANGED has, Called(op, o, k, x, how, "threw"),
             NEW y, slot' = Leave([slot EXCEPT ![o] = Only(Kind(o), Held(o))], src, k, y)
      PROVE  KeepsKinds
  <2>1. o \in Objs /\ slot \in [Objs -> [Kinds -> Stuff]]
    BY SlotsInv
  <2>2. slot'[o] = slot[o]
    BY <1>3, <2>1, OnlyHeld DEF Leave
  <2> QED
    BY <1>3, <2>2 DEF KeepsKinds, Called
<1> QED
  BY <1>1, <1>2, <1>3, Zenon DEF ReinitExpected

\* A call that reports an outcome by itself, or keeps the flags.
LEMMA OtherKeepsKinds ==
  ASSUME NEW op, op \notin {"assign_from", "assign"}, NEW o, NEW k, NEW x, NEW how, NEW out,
         Called(op, o, k, x, how, out),
         out \in {"ok", "terminated"} \/ UNCHANGED <<alive, has>>
  PROVE  KeepsKinds
BY DEF KeepsKinds, Called

\* Every call keeps what KeepsKinds names.
LEMMA CallKeepsKinds ==
  ASSUME Inv, Call
  PROVE  KeepsKinds
<1> DEFINE Others == \E op, o, k, x, how, out :
              /\ op \notin {"assign_from", "assign"} /\ Called(op, o, k, x, how, out)
              /\ out \in {"ok", "terminated"} \/ UNCHANGED <<alive, has>>
<1>0. Others => KeepsKinds
  BY OtherKeepsKinds, Zenon
<1> HIDE DEF Others
<1>1. ASSUME NEW o \in Objs, NEW k \in Kinds, NEW how, NEW x, NEW form \in Forms(k),
             Construct(o, k, x, how, form)
      PROVE  KeepsKinds
  <2>1. form \notin {"assign_from", "assign"}
    BY DEF Forms
  <2>2. \E out : Called(form, o, k, x, how, out) /\ (out = "ok" \/ UNCHANGED <<alive, has>>)
    <3>1. Spoil(k, x, how, {}) => UNCHANGED <<alive, has>>
      BY DEF Spoil
    <3> QED
      BY <1>1, <3>1, Zenon DEF Construct
  <2> QED
    BY <2>1, <2>2, OtherKeepsKinds
<1>2. ASSUME NEW o \in Objs, NEW k \in Kinds, NEW how, NEW x, Assign(o, k, x, how)
      PROVE  KeepsKinds
  <2>1. /\ \/ \E nx : AssignSame(o, k, x, how, {}, "assign", nx)
           \/ ReinitExpected(o, k, x, how, {}, "assign")
        /\ UNCHANGED alive /\ o \in alive
    BY <1>2 DEF Assign
  <2> QED
    BY <2>1, AssignKeepsKinds
<1>3. ASSUME NEW o \in Objs, NEW how, NEW x, Emplace(o, x, how)
      PROVE  KeepsKinds
  BY <1>3, OtherKeepsKinds DEF Emplace
<1>4. ASSUME NEW o \in Objs, NEW p \in Objs, NEW how, ConstructFrom(o, p, how)
      PROVE  KeepsKinds
  <2> DEFINE k == Kind(p)
             x == Held(p)
  <2>1. Spoil(k, x, how, Source(p, how)) => UNCHANGED <<alive, has>>
    BY DEF Spoil
  <2>2. \E out : Called("construct_from", o, k, x, how, out)
                 /\ (out = "ok" \/ UNCHANGED <<alive, has>>)
    BY <1>4, <2>1, Zenon DEF ConstructFrom
  <2> QED
    BY <2>2, OtherKeepsKinds
<1>5. ASSUME NEW o \in Objs, NEW p \in Objs, NEW how, AssignFrom(o, p, how)
      PROVE  KeepsKinds
  <2>1. o \in alive /\ o # p /\ UNCHANGED alive
    BY <1>5 DEF AssignFrom
  <2>2. \/ AssignSame(o, Kind(p), Held(p), how, Source(p, how), "assign_from", FALSE)
        \/ ReinitExpected(o, Kind(p), Held(p), how, Source(p, how), "assign_from")
    BY <1>5 DEF AssignFrom
  <2>3. o \notin Source(p, how)
    BY <2>1 DEF Source
  <2> QED
    BY <2>1, <2>2, <2>3, AssignKeepsKinds
<1>6. ASSUME NEW o \in Objs, NEW p \in Objs, NEW how,
             NEW op \in {"and_then", "transform", "or_else", "transform_error"},
             Monadic(op, o, p, how)
      PROVE  KeepsKinds
  <2>1. \E k, x, way, out : Called(op, o, k, x, way, out)
                            /\ (out = "ok" \/ UNCHANGED <<alive, has>>)
    <3>1. \A k, x : Spoil(k, x, how, Source(p, how)) => UNCHANGED <<alive, has>>
      BY DEF Spoil
    <3>2. CASE PassOn(op, o, p, how)
      BY <3>1, <3>2, Zenon DEF PassOn
    <3>3. CASE \E k, x : Apply(op, o, p, how, k, x)
      BY <3>3, Zenon DEF Apply
    <3> QED
      BY <1>6, <3>2, <3>3, Zenon DEF Monadic
  <2> QED
    BY <2>1, OtherKeepsKinds
<1>7. ASSUME NEW o \in Objs, NEW p \in Objs, Swap(o, p)
      PROVE  KeepsKinds
  <2>1. ASSUME NEW a, NEW b, SwapSame(a, b) \/ SwapDifferent(a, b)
        PROVE  \E k, x, out : Called("swap", a, k, x, "move", out) /\ (out = "ok" \/ UNCHANGED has)
    BY <2>1, Zenon DEF SwapSame, SwapDifferent
  <2>2. UNCHANGED alive /\ (SwapSame(o, p) \/ SwapDifferent(o, p) \/ SwapDifferent(p, o))
    BY <1>7 DEF Swap
  <2> QED
    BY <2>1, <2>2, OtherKeepsKinds
<1>8. ASSUME NEW o \in Objs, NEW how, Value(o, how)
      PROVE  KeepsKinds
  <2>1. UNCHANGED <<alive, has>> /\ \E k, x, out : Called("value", o, k, x, how, out)
    BY <1>8, Zenon DEF Value
  <2> QED
    BY <2>1, OtherKeepsKinds
<1>9. ASSUME NEW o \in Objs, Destroy(o)
      PROVE  KeepsKinds
  BY <1>9, OtherKeepsKinds DEF Destroy
<1> QED
  BY <1>1, <1>2, <1>3, <1>4, <1>5, <1>6, <1>7, <1>8, <1>9, Zenon DEF Call

\* So does every step.
LEMMA StepKeepsKinds == Inv /\ [Next]_vars => KeepsKinds
<1> SUFFICES ASSUME Inv, [Next]_vars
             PROVE  KeepsKinds
  OBVIOUS
<1>1. CASE Call
  BY <1>1, CallKeepsKinds
<1>2. CASE Return
  BY <1>2 DEF Return, KeepsKinds, NoCall
<1>3. CASE UNCHANGED vars
  BY <1>3 DEF vars, KeepsKinds
<1> QED
  BY <1>1, <1>2, <1>3 DEF Next

\* An operation that throws leaves every expected alive with the kind it had, and an
\* assignment that was to change a kind leaves its target as it was.
THEOREM FailureKeepsKindsHolds == Spec => FailureKeepsKinds
<1>1. Inv /\ [Next]_vars =>
        [ last'.out \in {"threw", "bad_access"} =>
            /\ UNCHANGED <<alive, has>>
            /\ last'.op \in {"assign_from", "assign"} /\ last'.kind # Kind(last'.obj) =>
                 slot'[last'.obj] = slot[last'.obj] ]_vars
  BY StepKeepsKinds DEF KeepsKinds
<1> QED
  BY <1>1, InitInv, NextInv, PTL DEF Spec, FailureKeepsKinds

-------------------------------------------------------------------------------
(* the objects are sums of a value and an error *)

\* What an expected holds, as ExpectedValue sees it.
Seen(o) == IF o \in alive THEN [kind |-> Kind(o), x |-> Held(o)]
                          ELSE [kind |-> "none", x |-> Raw]

\* o lives as a k, and the other objects as what they were.
Turns(o, k) ==
  alive' = alive \cup {o} /\ KindOf(has'[o]) = k /\ \A q \in Objs : q # o => has'[q] = has[q]

\* The slots s are those of now, but for the k of o, which is x.
Puts(s, o, k, x) ==
  s \in [Objs -> [Kinds -> Stuff]] /\ s[o][k] = x /\ \A q \in Objs : q # o => s[q] = slot[q]

\* The objects of src are not o, and hold a j.
Reads(src, o, j) == o \notin src /\ \A q \in src : q \in alive /\ Kind(q) = j

\* o becomes a k that is x.
Becomes(o, k, x) == Seen(o)' = [kind |-> k, x |-> x]

\* The objects of src hold y, and the others what they held.
Leaves(o, src, y) ==
  \A q \in Objs \ {o} :
    Seen(q)' = IF q \in src THEN [kind |-> Kind(q), x |-> y] ELSE Seen(q)

\* o becomes a k that is x, and the objects of src hold y.
LEMMA SeenBecomes ==
  ASSUME Inv, NEW o \in Objs, NEW k \in Kinds, NEW x, NEW src, NEW j, NEW y, NEW rest,
         Turns(o, k), Reads(src, o, j), Puts(rest, o, k, x), slot' = Leave(rest, src, j, y)
  PROVE  Becomes(o, k, x) /\ Leaves(o, src, y)
<1> USE DEF Turns, Reads, Puts, Becomes, Leaves
<1>1. \A q \in Objs : slot'[q] = IF q \in src THEN [rest[q] EXCEPT ![j] = y] ELSE rest[q]
  BY DEF Leave
<1>2. Kind(o)' = k
  BY DEF Kind
<1>3. Held(o)' = x
  BY <1>1, <1>2 DEF Held
<1>4. ASSUME NEW q \in Objs \ {o}
      PROVE  Seen(q)' = IF q \in src THEN [kind |-> Kind(q), x |-> y] ELSE Seen(q)
  <2>1. Kind(q)' = Kind(q) /\ (q \in alive' <=> q \in alive) /\ rest[q] = slot[q]
    BY DEF Kind
  <2>2. CASE q \in src
    <3>1. q \in alive /\ Kind(q) = j /\ Kind(q) \in Kinds
      BY <2>2, HeldLive
    <3>2. slot'[q][j] = y
      BY <1>1, <2>2, <3>1
    <3> QED
      BY <2>1, <2>2, <3>1, <3>2 DEF Seen, Held
  <2>3. CASE q \notin src
    BY <1>1, <2>1, <2>3 DEF Seen, Held
  <2> QED
    BY <2>2, <2>3
<1> QED
  BY <1>2, <1>3, <1>4 DEF Seen

\* The other objects hold what they held, or were moved from.
ReadKept(o, how) ==
  \A q \in Objs \ {o} :
    \/ Seen(q)' = Seen(q)
    \/ q \in alive /\ how = "move" /\ Seen(q)' = [Seen(q) EXCEPT !.x = Moved]

\* A call whose object becomes its argument.
Makes(op, o, k, x, how) ==
  /\ Called(op, o, k, x, how, "ok") /\ Becomes(o, k, x)

\* Reading q leaves what it held or a moved-from object of its kind.
LEMMA SourceKept ==
  ASSUME Inv, NEW q \in alive, NEW how \in Ways,
         NEW y \in {Held(q), After(Kind(q), Held(q), how)}
  PROVE  [kind |-> Kind(q), x |-> y] = Seen(q)
           \/ (how = "move" /\ [kind |-> Kind(q), x |-> y] = [Seen(q) EXCEPT !.x = Moved])
BY DEF After, Seen, Ways

\* An object o becomes a k that is x, read from the objects of src.
LEMMA Becoming ==
  ASSUME Inv, NEW o \in Objs, NEW k \in Kinds, NEW x \in Live(k), NEW how \in Ways,
         alive' = alive \cup {o}, has' = [has EXCEPT ![o] = k = "value"],
         NEW src, NEW j, NEW y, Reads(src, o, j),
         \A q \in src : y \in {Held(q), After(j, Held(q), how)},
         slot' = Leave([slot EXCEPT ![o] = Only(k, x)], src, j, y)
  PROVE  Becomes(o, k, x) /\ ReadKept(o, how)
<1>1. Turns(o, k)
  BY FlagSet DEF Turns
<1>2. PICK rest : slot' = Leave(rest, src, j, y) /\ rest = [slot EXCEPT ![o] = Only(k, x)]
  OBVIOUS
<1>3. Puts(rest, o, k, x)
  BY <1>2, SlotsInv, LiveNotRaw DEF Puts, Only, Stuff
<1>4. Becomes(o, k, x) /\ Leaves(o, src, y)
  BY <1>1, <1>2, <1>3, SeenBecomes
<1>5. \A q \in src : q \in alive /\ Kind(q) = j
  BY DEF Reads
<1>6. \A q \in src : [kind |-> Kind(q), x |-> y] = Seen(q)
        \/ (how = "move" /\ [kind |-> Kind(q), x |-> y] = [Seen(q) EXCEPT !.x = Moved])
  BY <1>5, SourceKept
<1> QED
  BY <1>4, <1>5, <1>6 DEF ReadKept, Leaves

\* An object o that holds a k is assigned x, read from the objects of src.
LEMMA Assigning ==
  ASSUME Inv, NEW o \in alive, NEW k \in Kinds, NEW x \in Live(k), NEW how \in Ways,
         UNCHANGED <<alive, has>>, Kind(o) = k,
         NEW src, NEW y, Reads(src, o, k),
         \A q \in src : y \in {Held(q), After(k, Held(q), how)},
         slot' = Leave([slot EXCEPT ![o][k] = x], src, k, y)
  PROVE  Becomes(o, k, x) /\ ReadKept(o, how)
<1>1. Turns(o, k) /\ o \in Objs
  BY SlotsInv DEF Turns, Kind
<1>2. PICK rest : slot' = Leave(rest, src, k, y) /\ rest = [slot EXCEPT ![o][k] = x]
  OBVIOUS
<1>3. Puts(rest, o, k, x)
  BY <1>1, <1>2, SlotsInv, LiveNotRaw DEF Puts, Stuff
<1>4. Becomes(o, k, x) /\ Leaves(o, src, y)
  BY <1>1, <1>2, <1>3, SeenBecomes
<1>5. \A q \in src : q \in alive /\ Kind(q) = k
  BY DEF Reads
<1>6. \A q \in src : [kind |-> Kind(q), x |-> y] = Seen(q)
        \/ (how = "move" /\ [kind |-> Kind(q), x |-> y] = [Seen(q) EXCEPT !.x = Moved])
  BY <1>5, SourceKept
<1> QED
  BY <1>4, <1>5, <1>6 DEF ReadKept, Leaves

\* An assignment that succeeds, of the kind the object has or of the other.
LEMMA AssignMakes ==
  ASSUME Inv, NEW o \in alive, NEW k \in Kinds, NEW x \in Live(k), NEW how \in Ways,
         NEW src, NEW op, NEW nx, UNCHANGED alive, Reads(src, o, k),
         \A q \in src : x = Held(q),
         AssignSame(o, k, x, how, src, op, nx) \/ ReinitExpected(o, k, x, how, src, op),
         last'.out = "ok"
  PROVE  Makes(op, o, k, x, how) /\ ReadKept(o, how)
<1> DEFINE y == After(k, x, how)
<1>1. o \in Objs /\ alive' = alive \cup {o}
  BY SlotsInv
<1>2. \A q \in src : y \in {Held(q), After(k, Held(q), how)}
  OBVIOUS
<1>3. \A out : Called(op, o, k, x, how, out) => out = "ok"
  BY DEF Called
<1>4. CASE /\ Called(op, o, k, x, how, "ok") /\ has' = [has EXCEPT ![o] = k = "value"]
           /\ slot' = Leave([slot EXCEPT ![o] = Only(k, x)], src, k, y)
  <2> HIDE DEF y
  <2>1. Becomes(o, k, x) /\ ReadKept(o, how)
    BY <1>1, <1>2, <1>4, Becoming
  <2> QED
    BY <1>4, <2>1 DEF Makes
<1>5. CASE /\ Called(op, o, k, x, how, "ok") /\ UNCHANGED has /\ Kind(o) = k
           /\ slot' = Leave([slot EXCEPT ![o][k] = x], src, k, y)
  <2> HIDE DEF y
  <2>1. Becomes(o, k, x) /\ ReadKept(o, how)
    BY <1>2, <1>5, Assigning
  <2> QED
    BY <1>5, <2>1 DEF Makes
<1>6. CASE AssignSame(o, k, x, how, src, op, nx)
  BY <1>3, <1>5, <1>6, Zenon DEF AssignSame
<1>7. CASE ReinitExpected(o, k, x, how, src, op)
  BY <1>3, <1>4, <1>7, Zenon DEF ReinitExpected
<1> QED
  BY <1>6, <1>7

\* A call that makes its object what its argument is, as ExpectedValue sees it.
LEMMA SumMakes ==
  ASSUME NEW op, NEW o \in Objs, NEW k, NEW x, NEW how,
         Makes(op, o, k, x, how), ReadKept(o, how)
  PROVE  /\ Sum!Becomes /\ Sum!OthersKept(last'.obj) /\ last'.obj = o /\ last'.op = op
         /\ \A q \in Objs \ {o} : Seen(q)' \in {Seen(q), [Seen(q) EXCEPT !.x = Moved]}
<1>1. /\ last'.op = op /\ last'.obj = o /\ last'.kind = k /\ last'.arg = x
      /\ last'.how = how /\ last'.out = "ok"
  BY DEF Makes, Called
<1>2. Sum!Becomes
  BY <1>1 DEF Sum!Becomes, Makes, Becomes, Seen
<1>3. Sum!OthersKept(last'.obj)
  BY <1>1 DEF Sum!OthersKept, ReadKept, Seen, Kind, KindOf
<1>4. \A q \in Objs \ {o} : Seen(q)' \in {Seen(q), [Seen(q) EXCEPT !.x = Moved]}
  BY DEF ReadKept
<1> QED
  BY <1>1, <1>2, <1>3, <1>4

\* A construction that succeeds.
LEMMA BeginMakes ==
  ASSUME Inv, NEW o \in Objs, NEW k \in Kinds, NEW x \in Live(k), NEW how \in Ways,
         NEW src, NEW op, Reads(src, o, k), \A q \in src : x = Held(q),
         Begin(o, k, x, how, src), Called(op, o, k, x, how, "ok")
  PROVE  Makes(op, o, k, x, how) /\ ReadKept(o, how)
<1>1. PICK y : y = After(k, x, how)
  OBVIOUS
<1>2. /\ alive' = alive \cup {o} /\ has' = [has EXCEPT ![o] = k = "value"]
      /\ slot' = Leave([slot EXCEPT ![o] = Only(k, x)], src, k, y)
  BY <1>1 DEF Begin
<1>3. \A q \in src : y \in {Held(q), After(k, Held(q), how)}
  BY <1>1
<1> QED
  BY <1>2, <1>3, Becoming DEF Makes

\* A construction that succeeds is a Construct of the sum.
LEMMA SumConstructs ==
  ASSUME NEW o \in Objs, o \notin alive, NEW k, NEW x, NEW how,
         NEW op \in {"in_place", "value", "unexpect", "unexpected", "construct_from"},
         Makes(op, o, k, x, how), ReadKept(o, how)
  PROVE  Sum!Next
<1>1. /\ Sum!Becomes /\ Sum!OthersKept(last'.obj) /\ last'.obj = o /\ last'.op = op
  BY SumMakes
<1>2. Sum!Construct
  BY <1>1 DEF Sum!Construct
<1> QED
  BY <1>2 DEF Sum!Next

\* An assignment or an emplace that succeeds is an Assign of the sum.
LEMMA SumAssigns ==
  ASSUME NEW o \in Objs, o \in alive, NEW k, NEW x, NEW how,
         NEW op \in {"assign_from", "assign", "emplace"},
         Makes(op, o, k, x, how), ReadKept(o, how)
  PROVE  Sum!Next
<1>1. /\ Sum!Becomes /\ Sum!OthersKept(last'.obj) /\ last'.obj = o /\ last'.op = op
  BY SumMakes
<1>2. Kind(o) # "none"
  BY DEF Kind, KindOf
<1>3. Sum!Assign
  BY <1>1, <1>2 DEF Sum!Assign
<1> QED
  BY <1>3 DEF Sum!Next

\* A monadic operation that succeeds is a Compute of the sum.
LEMMA SumComputes ==
  ASSUME NEW o \in Objs, o \notin alive, NEW k, NEW x, NEW how,
         NEW op \in {"and_then", "or_else", "transform", "transform_error"},
         Called(op, o, k, x, how, "ok"), Becomes(o, k, x),
         NEW way, ReadKept(o, way)
  PROVE  Sum!Next
<1>1. /\ last'.op = op /\ last'.obj = o /\ last'.kind = k /\ last'.arg = x
      /\ last'.out = "ok"
  BY DEF Called
<1>2. Sum!Becomes
  BY <1>1 DEF Sum!Becomes, Becomes, Seen
<1>3. \A q \in Objs \ {o} : Seen(q)' \in {Seen(q), [Seen(q) EXCEPT !.x = Moved]}
  BY DEF ReadKept
<1> QED
  BY <1>1, <1>2, <1>3 DEF Sum!Next, Sum!Compute, Seen

\* What throws keeps the kinds, whatever the operation.
LEMMA SumFails ==
  ASSUME KeepsKinds, last'.out \in {"threw", "bad_access"}
  PROVE  Sum!Next
BY DEF KeepsKinds, Sum!Next, Sum!Fail, Kind, KindOf

\* Each operation that succeeds, in turn: the constructors,
LEMMA ConstructRefines ==
  ASSUME Inv, NEW o \in Objs, NEW k \in Kinds, NEW how \in Ways, NEW x \in Inputs(k),
         NEW form \in Forms(k), Construct(o, k, x, how, form), last'.out = "ok"
  PROVE  Sum!Next
<1>1. form \in {"in_place", "value", "unexpect", "unexpected"}
  BY DEF Forms
<1>2. o \notin alive /\ Begin(o, k, x, how, {}) /\ Called(form, o, k, x, how, "ok")
  BY DEF Construct, Called
<1>3. x \in Live(k)
  BY LiveNotRaw
<1>4. Reads({}, o, k)
  BY DEF Reads
<1> QED
  BY <1>1, <1>2, <1>3, <1>4, BeginMakes, SumConstructs

\* the copy and the move constructor,
LEMMA ConstructFromRefines ==
  ASSUME Inv, NEW o \in Objs, NEW p \in Objs, NEW how \in Ways, ConstructFrom(o, p, how),
         last'.out = "ok"
  PROVE  Sum!Next
<1>1. PICK k, x, src : k = Kind(p) /\ x = Held(p) /\ src = Source(p, how)
  OBVIOUS
<1>2. \A out : Called("construct_from", o, k, x, how, out) => out = "ok"
  BY DEF Called
<1>3. /\ o \notin alive /\ p \in alive
      /\ Begin(o, k, x, how, src) /\ Called("construct_from", o, k, x, how, "ok")
  BY <1>1, <1>2, Zenon DEF ConstructFrom
<1>4. k \in Kinds /\ x \in Live(k)
  BY <1>1, <1>3, HeldLive
<1>5. Reads(src, o, k) /\ \A q \in src : x = Held(q)
  BY <1>1, <1>3 DEF Reads, Source
<1> QED
  BY <1>3, <1>4, <1>5, BeginMakes, SumConstructs

\* the assignments of a value and of an unexpected,
LEMMA AssignRefines ==
  ASSUME Inv, NEW o \in Objs, NEW k \in Kinds, NEW how \in Ways, NEW x \in Inputs(k),
         Assign(o, k, x, how), last'.out = "ok"
  PROVE  Sum!Next
<1>1. /\ \/ \E nx : AssignSame(o, k, x, how, {}, "assign", nx)
         \/ ReinitExpected(o, k, x, how, {}, "assign")
      /\ o \in alive /\ UNCHANGED alive
  BY DEF Assign
<1>2. x \in Live(k) /\ Reads({}, o, k)
  BY LiveNotRaw DEF Reads
<1>3. Makes("assign", o, k, x, how) /\ ReadKept(o, how)
  BY <1>1, <1>2, AssignMakes
<1> QED
  BY <1>1, <1>3, SumAssigns

\* the copy and the move assignment,
LEMMA AssignFromRefines ==
  ASSUME Inv, NEW o \in Objs, NEW p \in Objs, NEW how \in Ways, AssignFrom(o, p, how),
         last'.out = "ok"
  PROVE  Sum!Next
<1>1. PICK k, x, src : k = Kind(p) /\ x = Held(p) /\ src = Source(p, how)
  OBVIOUS
<1>2. /\ o \in alive /\ p \in alive /\ o # p /\ UNCHANGED alive
      /\ \/ AssignSame(o, k, x, how, src, "assign_from", FALSE)
         \/ ReinitExpected(o, k, x, how, src, "assign_from")
  BY <1>1 DEF AssignFrom
<1>3. k \in Kinds /\ x \in Live(k)
  BY <1>1, <1>2, HeldLive
<1>4. Reads(src, o, k) /\ \A q \in src : x = Held(q)
  BY <1>1, <1>2 DEF Reads, Source
<1>5. Makes("assign_from", o, k, x, how) /\ ReadKept(o, how)
  BY <1>2, <1>3, <1>4, AssignMakes
<1> QED
  BY <1>2, <1>5, SumAssigns

\* emplace,
LEMMA EmplaceRefines ==
  ASSUME Inv, NEW o \in Objs, NEW how \in Ways, NEW x \in Inputs("value"), Emplace(o, x, how)
  PROVE  Sum!Next
<1>1. PICK k : k = "value"
  OBVIOUS
<1>2. /\ o \in alive /\ alive' = alive \cup {o} /\ has' = [has EXCEPT ![o] = k = "value"]
      /\ slot' = [slot EXCEPT ![o] = Only(k, x)] /\ Called("emplace", o, k, x, how, "ok")
  BY <1>1 DEF Emplace
<1>3. k \in Kinds /\ x \in Live(k) /\ Reads({}, o, k)
  BY <1>1, LiveNotRaw DEF Reads, Kinds
<1>4. slot' = Leave([slot EXCEPT ![o] = Only(k, x)], {}, k, x)
  BY <1>2, SlotsInv DEF Leave
<1>5. PICK src, j, y : src = {} /\ j = k /\ y = x
  OBVIOUS
<1>6. /\ Reads(src, o, j) /\ \A q \in src : y \in {Held(q), After(j, Held(q), how)}
      /\ slot' = Leave([slot EXCEPT ![o] = Only(k, x)], src, j, y)
  BY <1>3, <1>4, <1>5
<1>7. Becomes(o, k, x) /\ ReadKept(o, how)
  BY <1>2, <1>3, <1>6, Becoming
<1> QED
  BY <1>2, <1>7, SumAssigns DEF Makes

\* the destructor,
LEMMA DestroyRefines ==
  ASSUME Inv, NEW o \in Objs, Destroy(o)
  PROVE  Sum!Next
<1>1. /\ o \in alive /\ alive' = alive \ {o} /\ UNCHANGED has /\ last'.op = "destroy"
      /\ \A q \in Objs : q # o => slot'[q] = slot[q]
  BY SlotsInv DEF Destroy, Called
<1>2. \A q \in Objs : q # o => Seen(q)' = Seen(q)
  BY <1>1 DEF Seen, Kind, Held
<1>3. Kind(o) # "none"
  BY DEF Kind, KindOf
<1> QED
  BY <1>1, <1>2, <1>3 DEF Sum!Next, Sum!Destroy, Seen

\* value(),
LEMMA ValueRefines ==
  ASSUME Inv, NEW o \in Objs, NEW how, Value(o, how), last'.out = "ok"
  PROVE  Sum!Next
<1>1. UNCHANGED <<alive, has, slot>> /\ last'.op = "value"
  BY DEF Value, Called
<1> QED
  BY <1>1 DEF Sum!Next, Sum!Read, Kind, Held

\* Two objects exchange what they hold.
LEMMA SumSwaps ==
  ASSUME NEW o \in Objs, NEW p \in Objs, last'.op = "swap", last'.out = "ok",
         Seen(o)' = Seen(p), Seen(p)' = Seen(o),
         \A q \in Objs \ {o, p} : Seen(q)' = Seen(q)
  PROVE  Sum!Next
<1> DEFINE shown == [q \in Objs |-> Seen(q)]
           exchanged == [q \in Objs |-> Seen(q)']
<1>1. exchanged = [shown EXCEPT ![o] = shown[p], ![p] = shown[o]]
  OBVIOUS
<1>2. Sum!Swap
  BY <1>1 DEF Sum!Swap, Seen
<1> QED
  BY <1>2 DEF Sum!Next

\* swap,
LEMMA SwapRefines ==
  ASSUME Inv, NEW o \in Objs, NEW p \in Objs, Swap(o, p), last'.out = "ok"
  PROVE  Sum!Next
<1>1. o \in alive /\ p \in alive /\ o # p /\ UNCHANGED alive
  BY DEF Swap
<1>2. slot \in [Objs -> [Kinds -> Stuff]] /\ has \in [Objs -> BOOLEAN]
  BY SlotsInv
<1>3. CASE SwapSame(o, p)
  <2>1. PICK k : k = Kind(o)
    OBVIOUS
  <2>2. /\ Kind(p) = k /\ UNCHANGED has /\ last'.op = "swap"
        /\ slot' = [slot EXCEPT ![o][k] = Held(p), ![p][k] = Held(o)]
    BY <1>3, <2>1 DEF SwapSame, Called
  <2>3. k \in Kinds
    BY <1>1, <2>1, HeldLive
  <2>4. /\ slot'[o][k] = Held(p) /\ slot'[p][k] = Held(o)
        /\ \A q \in Objs \ {o, p} : slot'[q] = slot[q]
    BY <1>1, <1>2, <2>2, <2>3
  <2>5. Seen(o)' = Seen(p) /\ Seen(p)' = Seen(o)
    BY <1>1, <2>1, <2>2, <2>4 DEF Seen, Held, Kind
  <2>6. \A q \in Objs \ {o, p} : Seen(q)' = Seen(q)
    BY <1>1, <2>2, <2>4 DEF Seen, Held, Kind
  <2> QED
    BY <2>2, <2>5, <2>6, SumSwaps
<1>4. ASSUME NEW a \in alive, NEW b \in alive, a # b, SwapDifferent(a, b)
      PROVE  Sum!Next
  <2>1. PICK i, j, x, y : i = Kind(a) /\ j = Kind(b) /\ x = Held(a) /\ y = Held(b)
    OBVIOUS
  <2>2. i \in Kinds /\ j \in Kinds /\ x \in Stuff /\ y \in Stuff /\ a \in Objs /\ b \in Objs
    BY <2>1, HeldLive, LiveNotRaw
  <2>3. /\ last'.op = "swap" /\ has[a] /\ ~has[b] /\ has' = [has EXCEPT ![a] = FALSE, ![b] = TRUE]
        /\ \/ slot' = [slot EXCEPT ![a] = Only(j, y), ![b] = Only(i, x)]
           \/ slot' = [slot EXCEPT ![b] = Only(i, x), ![a] = Only(j, y)]
    BY <1>4, <2>1 DEF SwapDifferent, Called
  <2>4. slot'[a] = Only(j, y) /\ slot'[b] = Only(i, x)
        /\ \A q \in Objs \ {a, b} : slot'[q] = slot[q]
    BY <1>2, <1>4, <2>2, <2>3
  <2>5. KindOf(has'[a]) = j /\ KindOf(has'[b]) = i /\ \A q \in Objs \ {a, b} : has'[q] = has[q]
    BY <1>2, <1>4, <2>1, <2>2, <2>3 DEF Kind, KindOf
  <2>6. slot'[a][j] = y /\ slot'[b][i] = x
    BY <2>2, <2>4 DEF Only
  <2>7. Seen(a)' = Seen(b) /\ Seen(b)' = Seen(a)
    BY <1>1, <1>4, <2>1, <2>5, <2>6 DEF Seen, Held, Kind
  <2>8. \A q \in Objs \ {a, b} : Seen(q)' = Seen(q)
    BY <1>1, <2>4, <2>5 DEF Seen, Held, Kind
  <2> QED
    BY <2>2, <2>3, <2>7, <2>8, SumSwaps
<1> QED
  BY <1>1, <1>3, <1>4 DEF Swap

\* the monadic operations that pass on what they do not use,
LEMMA PassOnRefines ==
  ASSUME Inv, NEW o \in Objs, o \notin alive, NEW p \in alive, NEW how \in Ways,
         NEW op \in {"and_then", "transform", "or_else", "transform_error"},
         PassOn(op, o, p, how), last'.out = "ok"
  PROVE  Sum!Next
<1>1. PICK k, x, src : k = Kind(p) /\ x = Held(p) /\ src = Source(p, how)
  OBVIOUS
<1>2. \A out : Called(op, o, k, x, how, out) => out = "ok"
  BY DEF Called
<1>3. Begin(o, k, x, how, src) /\ Called(op, o, k, x, how, "ok")
  BY <1>1, <1>2, Zenon DEF PassOn
<1>4. k \in Kinds /\ x \in Live(k)
  BY <1>1, HeldLive
<1>5. Reads(src, o, k) /\ \A q \in src : x = Held(q)
  BY <1>1 DEF Reads, Source
<1>6. Makes(op, o, k, x, how) /\ ReadKept(o, how)
  BY <1>3, <1>4, <1>5, BeginMakes
<1> QED
  BY <1>6, SumComputes DEF Makes

\* those that call a function,
LEMMA ApplyRefines ==
  ASSUME Inv, NEW o \in Objs, o \notin alive, NEW p \in alive, NEW how \in Ways,
         NEW op \in {"and_then", "transform", "or_else", "transform_error"},
         NEW k \in Kinds, NEW x \in Inputs(k),
         Apply(op, o, p, how, k, x), last'.out = "ok"
  PROVE  Sum!Next
<1>1. PICK j, src, way : /\ j = Kind(p) /\ src = Source(p, how)
                         /\ way = (IF op = "transform" THEN "move" ELSE "copy")
  OBVIOUS
<1>2. \A out : Called(op, o, k, x, way, out) => out = "ok"
  BY DEF Called
<1>3. PICK y \in AfterThrow(j, Held(p), how) :
        /\ alive' = alive \cup {o} /\ has' = [has EXCEPT ![o] = k = "value"]
        /\ slot' = Leave([slot EXCEPT ![o] = Only(k, x)], src, j, y)
        /\ Called(op, o, k, x, way, "ok")
  BY <1>1, <1>2, Zenon DEF Apply
<1>4. x \in Live(k)
  BY LiveNotRaw
<1>5. Reads(src, o, j) /\ \A q \in src : y \in {Held(q), After(j, Held(q), how)}
  BY <1>1, <1>3 DEF Reads, Source, AfterThrow
<1>6. Becomes(o, k, x) /\ ReadKept(o, how)
  BY <1>3, <1>4, <1>5, Becoming
<1> QED
  BY <1>3, <1>6, SumComputes

\* and both.
LEMMA MonadicRefines ==
  ASSUME Inv, NEW o \in Objs, NEW p \in Objs, NEW how \in Ways,
         NEW op \in {"and_then", "transform", "or_else", "transform_error"},
         Monadic(op, o, p, how), last'.out = "ok"
  PROVE  Sum!Next
<1>1. o \notin alive /\ p \in alive
  BY DEF Monadic
<1>2. PassOn(op, o, p, how) \/ \E k \in Kinds : \E x \in Inputs(k) : Apply(op, o, p, how, k, x)
  BY DEF Monadic
<1> QED
  BY <1>1, <1>2, PassOnRefines, ApplyRefines

\* A call that succeeds is a step of the sum.
LEMMA SuccessRefines ==
  ASSUME Inv, Call, last'.out = "ok"
  PROVE  Sum!Next
<1>1. ASSUME NEW o \in Objs, NEW k \in Kinds, NEW how \in Ways, NEW x \in Inputs(k),
             (\E form \in Forms(k) : Construct(o, k, x, how, form)) \/ Assign(o, k, x, how)
      PROVE  Sum!Next
  BY <1>1, ConstructRefines, AssignRefines
<1>2. ASSUME NEW o \in Objs, NEW how \in Ways,
             (\E x \in Inputs("value") : Emplace(o, x, how)) \/ Value(o, how)
      PROVE  Sum!Next
  BY <1>2, EmplaceRefines, ValueRefines
<1>3. ASSUME NEW o \in Objs, NEW p \in Objs, NEW how \in Ways,
             \/ ConstructFrom(o, p, how) \/ AssignFrom(o, p, how)
             \/ \E op \in {"and_then", "transform", "or_else", "transform_error"} :
                  Monadic(op, o, p, how)
      PROVE  Sum!Next
  BY <1>3, ConstructFromRefines, AssignFromRefines, MonadicRefines
<1>4. ASSUME NEW o \in Objs, NEW p \in Objs, Swap(o, p)
      PROVE  Sum!Next
  BY <1>4, SwapRefines
<1>5. ASSUME NEW o \in Objs, Destroy(o)
      PROVE  Sum!Next
  BY <1>5, DestroyRefines
<1> QED
  BY <1>1, <1>2, <1>3, <1>4, <1>5, Zenon DEF Call

\* Every call reports one of four outcomes.
LEMMA Outcomes ==
  ASSUME Call
  PROVE  last'.out \in {"ok", "threw", "bad_access", "terminated"}
<1> DEFINE Told == last'.out \in {"ok", "threw", "bad_access", "terminated"}
<1>1. \A o, k, x, how, form : Construct(o, k, x, how, form) => Told
  BY DEF Construct, Called
<1>2. \A o, k, x, how, src, op, nx : AssignSame(o, k, x, how, src, op, nx) => Told
  BY DEF AssignSame, Called
<1>3. \A o, k, x, how, src, op : ReinitExpected(o, k, x, how, src, op) => Told
  BY DEF ReinitExpected, Called
<1>4. /\ \A o, k, x, how : Assign(o, k, x, how) => Told
      /\ \A o, p, how : AssignFrom(o, p, how) => Told
  BY <1>2, <1>3, Zenon DEF Assign, AssignFrom
<1>5. /\ \A o, x, how : Emplace(o, x, how) => Told
      /\ \A o, p, how : ConstructFrom(o, p, how) => Told
  BY DEF Emplace, ConstructFrom, Called
<1>6. /\ \A op, o, p, how : PassOn(op, o, p, how) => Told
      /\ \A op, o, p, how, k, x : Apply(op, o, p, how, k, x) => Told
  BY DEF PassOn, Apply, Called
<1>7. /\ \A op, o, p, how : Monadic(op, o, p, how) => Told
      /\ \A o, how : Value(o, how) => Told
  BY <1>6 DEF Monadic, Value, Called
<1>8. /\ \A o, p : SwapSame(o, p) => Told
      /\ \A o, p : SwapDifferent(o, p) => Told
  BY DEF SwapSame, SwapDifferent, Called
<1>9. /\ \A o, p : Swap(o, p) => Told
      /\ \A o : Destroy(o) => Told
  BY <1>8 DEF Swap, Destroy, Called
<1> HIDE DEF Told
<1>10. Told
  BY <1>1, <1>4, <1>5, <1>7, <1>9, Zenon DEF Call
<1> QED
  BY <1>10 DEF Told

\* Every step of an expected is a step of the sum.
LEMMA StepRefines == Inv /\ [Next]_vars => [Sum!Next]_Sum!vars
<1> SUFFICES ASSUME Inv, [Next]_vars
             PROVE  [Sum!Next]_Sum!vars
  OBVIOUS
<1>1. CASE Call
  <2>1. CASE last'.out = "ok"
    BY <1>1, <2>1, SuccessRefines
  <2>2. CASE last'.out \in {"threw", "bad_access"}
    BY <1>1, <2>2, CallKeepsKinds, SumFails
  <2>3. CASE last'.out = "terminated"
    BY <2>3 DEF Sum!Next, Sum!Terminate
  <2> QED
    BY <1>1, <2>1, <2>2, <2>3, Outcomes
<1>2. CASE Return
  BY <1>2 DEF Return, NoCall, Sum!Next, Sum!Return, Kind, Held
<1>3. CASE UNCHANGED vars
  BY <1>3 DEF vars, Sum!vars, Kind, Held
<1> QED
  BY <1>1, <1>2, <1>3 DEF Next

\* Every program of expected objects behaves as one of sums of a value and an error: what
\* succeeds leaves the argument in its object and moves at most from its operand, and
\* what throws changes no kind.
THEOREM RefinesHolds == Spec => Refines
<1>1. Init => Sum!Init
  BY DEF Init, Sum!Init
<1> QED
  BY <1>1, InitInv, NextInv, StepRefines, PTL DEF Spec, Refines, Sum!Spec

===============================================================================
