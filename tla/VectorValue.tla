----------------------------- MODULE VectorValue -----------------------------
(***************************************************************************)
(* What the vectors promise, with no storage in sight: each living vector  *)
(* is a sequence, and a call changes it the way its name says when its     *)
(* outcome is "ok".  A call that reports a failure leaves every sequence   *)
(* alone, except for the operations that only give the basic guarantee,    *)
(* after which the vector they were called on may hold anything.  After    *)
(* std::terminate nothing is promised.                                     *)
(***************************************************************************)
EXTENDS Integers, Sequences

CONSTANTS Vecs, Zero, MaxSize

VARIABLES val, alive, last

vars == <<val, alive, last>>

Init == val = [v \in Vecs |-> <<>>] /\ alive = {}

\* The call on v made with these arguments turns its sequence into s.
Becomes(op, v, s) ==
  last'.op = op /\ last'.v = v /\ last'.out = "ok" /\ val' = [val EXCEPT ![v] = s]
Arg(i) == last'.args[i]

Prefix(s, n) == SubSeq(s, 1, n)
Suffix(s, n) == SubSeq(s, n + 1, Len(s))
InsertAt(s, pos, xs) == Prefix(s, pos) \o xs \o Suffix(s, pos)

Construct(v) ==
  /\ v \notin alive /\ alive' = alive \cup {v}
  /\ \/ Becomes("construct", v, <<>>)
     \/ \E w \in alive :
          \/ Becomes("construct_copy", v, val[w])
          \/ /\ last'.op = "construct_move" /\ last'.out = "ok"
             /\ val' = [val EXCEPT ![v] = val[w], ![w] = <<>>]

Destroy(v) ==
  v \in alive /\ alive' = alive \ {v} /\ Becomes("destroy", v, <<>>)

\* Moving leaves the source empty.  Assigning a vector to itself by copy either
\* keeps its elements (a trivially copyable static_vector) or empties it.
AssignOrSwap(v, w) ==
  /\ {v, w} \subseteq alive /\ UNCHANGED alive
  /\ last'.v = v /\ last'.args = <<w>> /\ last'.out = "ok"
  /\ \/ last'.op = "assign_copy" /\ val' = [val EXCEPT ![v] = val[w]]
     \/ last'.op = "assign_copy" /\ v = w /\ val' = [val EXCEPT ![v] = <<>>]
     \/ last'.op = "assign_move" /\ val' = [val EXCEPT ![v] = val[w], ![w] = <<>>]
     \/ last'.op = "swap" /\ val' = [val EXCEPT ![v] = val[w], ![w] = val[v]]

\* Given one of the vector's own elements, they add an element that need not be
\* the one they were given: it can be read where it no longer is.
GivenOwn(v) ==
  /\ last'.op \in {"emplace_back", "emplace"} /\ last'.v = v /\ last'.out = "ok"
  /\ last'.args[Len(last'.args)] = "own"
  /\ Len(val'[v]) = Len(val[v]) + 1 /\ \A w \in Vecs \ {v} : val'[w] = val[w]

\* Given more elements than size_type can count, insert promises nothing.
GivenTooMany(v) ==
  /\ last'.op = "insert" /\ last'.v = v /\ Len(Arg(2)) > MaxSize
  /\ \A w \in Vecs \ {v} : val'[w] = val[w]

Edit(v) ==
  /\ v \in alive /\ UNCHANGED alive
  /\ \/ Becomes("emplace_back", v, Append(val[v], Arg(1)))
     \/ Becomes("emplace", v, InsertAt(val[v], Arg(1), <<Arg(2)>>))
     \/ GivenOwn(v)
     \/ GivenTooMany(v)
     \/ Becomes("insert", v, InsertAt(val[v], Arg(1), Arg(2)))
     \/ Becomes("erase", v, Prefix(val[v], Arg(1)) \o Suffix(val[v], Arg(1) + 1))
     \/ Becomes("erase_range", v, Prefix(val[v], Arg(1)) \o Suffix(val[v], Arg(2)))
     \/ Becomes("erase_at_end", v, Prefix(val[v], Arg(1)))
     \/ Becomes("resize", v, IF Arg(1) <= Len(val[v]) THEN Prefix(val[v], Arg(1))
                             ELSE val[v] \o [i \in 1 .. Arg(1) - Len(val[v]) |-> Zero])
     \/ \E op \in {"reserve", "shrink_to_fit"} : Becomes(op, v, val[v])

BasicOnly == {"emplace", "insert", "erase", "erase_range", "assign_copy", "assign_move"}

Fail ==
  /\ last'.out \in {"out_of_storage", "invalid_source_range", "threw"}
  /\ UNCHANGED alive
  /\ \A v \in Vecs : val'[v] = val[v] \/ (v = last'.v /\ last'.op \in BasicOnly
                                              /\ last'.out = "threw")

Terminate == last'.out = "terminated"

Return == last'.op = "none" /\ UNCHANGED <<val, alive>>

Next ==
  \/ \E v \in Vecs : Construct(v) \/ Destroy(v) \/ Edit(v)
  \/ \E v, w \in Vecs : AssignOrSwap(v, w)
  \/ Fail
  \/ Terminate
  \/ Return

Spec == Init /\ [][Next]_vars

===============================================================================
