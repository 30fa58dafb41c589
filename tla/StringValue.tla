------------------------------ MODULE StringValue ------------------------------
(***************************************************************************)
(* What the strings promise, with no storage in sight: each living string  *)
(* is a sequence of characters, and a call that ends "ok" changes it the   *)
(* way std::basic_string says.  A call that throws changes nothing, except *)
(* that find_and_replace may have replaced some of the occurrences.  After *)
(* a call that has no meaning, or no memory, nothing is promised.          *)
(***************************************************************************)
EXTENDS Integers, Sequences

CONSTANTS Strs, Nul, Ch

VARIABLES val, alive, last

vars == <<val, alive, last>>

Init == val = [v \in Strs |-> <<>>] /\ alive = {}

Succeeds(op, v) == last'.op = op /\ last'.v = v /\ last'.out = "ok"
Becomes(op, v, s) == Succeeds(op, v) /\ val' = [val EXCEPT ![v] = s]
Arg(i) == last'.args[i]

Times(n, ch) == [i \in 1 .. n |-> ch]
First(s, n) == SubSeq(s, 1, n)
After(s, n) == SubSeq(s, n + 1, Len(s))
AtMost(n, k) == IF n < k THEN n ELSE k

\* A source is a text, or the characters first .. last - 1 of the string itself.
Text(v, src) == IF src.own THEN SubSeq(val[v], src.first + 1, src.last) ELSE src.xs

\* count characters from pos on are replaced by xs.
Splice(s, pos, count, xs) == First(s, pos) \o xs \o After(s, pos + count)

\* The call puts the characters of src in the place of count others.  Where src
\* is a part of the string, an insert or a replace may find other characters in
\* it than the caller saw, but it leaves the rest of the string as it should.
Edits(op, v, pos, count, src) ==
  LET n == Len(Text(v, src))
  IN  \/ Becomes(op, v, Splice(val[v], pos, count, Text(v, src)))
      \/ /\ src.own /\ op \in {"insert", "replace"}
         /\ Len(val'[v]) = Len(val[v]) - count + n
         /\ Succeeds(op, v)
         /\ val' = [val EXCEPT ![v] = Splice(@, pos, count, SubSeq(val'[v], pos + 1, pos + n))]

\* Occurrences of what are replaced from the left, never inside a replacement:
\* the first k of them, or as many as there are.
ReplaceFirst(s, what, with, k) ==
  LET At(i) == i + Len(what) - 1 <= Len(s) /\ SubSeq(s, i, i + Len(what) - 1) = what
      from[i \in Nat, left \in Nat] ==
        IF i > Len(s) THEN <<>>
        ELSE IF left > 0 /\ At(i) THEN with \o from[i + Len(what), left - 1]
        ELSE <<s[i]>> \o from[i + 1, left]
  IN  IF what = <<>> THEN s ELSE from[1, k]

\* An erase behind the end is not refused: the string is extended up to there
\* with whatever its storage holds.
ErasesBehindEnd(v) ==
  /\ Len(val[v]) < Arg(1) /\ Len(val'[v]) = Arg(1)
  /\ Succeeds("erase", v)
  /\ val' = [val EXCEPT ![v] = @ \o After(val'[v], Len(@))]

\* A replace across the end, by as many characters: the string keeps its length.
ReplacesAcrossEnd(v) ==
  /\ Len(val[v]) < Arg(1) + Arg(2) /\ Len(Text(v, Arg(3))) = Arg(2)
  /\ Becomes("replace", v,
             First(Splice(val[v], Arg(1), Arg(2), Text(v, Arg(3))), Len(val[v])))

Construct(v) ==
  /\ v \notin alive /\ alive' = alive \cup {v}
  /\ \/ Becomes("construct", v, <<>>)
     \/ Becomes("construct_fill", v, Times(Arg(1), Arg(2)))
     \/ Becomes("construct_range", v, Arg(1))
     \/ \E w \in alive :
          \/ Becomes("construct_copy", v, val[w])
          \/ /\ last'.op = "construct_move" /\ last'.out = "ok"
             /\ val' = [val EXCEPT ![v] = val[w], ![w] = <<>>]

Destroy(v) == v \in alive /\ alive' = alive \ {v} /\ Becomes("destroy", v, <<>>)

\* Moving leaves the source empty.  A string moved to itself keeps its value or
\* only its length.
AssignOrSwap(v, w) ==
  /\ {v, w} \subseteq alive /\ UNCHANGED alive /\ last'.args = <<w>>
  /\ \/ Becomes("assign_copy", v, val[w])
     \/ v = w /\ Becomes("assign_move", v, val[v])
     \/ v = w /\ Becomes("assign_move", v, Times(Len(val[v]), Nul))
     \/ /\ v # w /\ last'.op = "assign_move" /\ last'.v = v
        /\ val' = [val EXCEPT ![v] = val[w], ![w] = <<>>]
     \/ /\ last'.op = "swap" /\ last'.v = v
        /\ val' = [val EXCEPT ![v] = val[w], ![w] = val[v]]

Edit(v) ==
  /\ v \in alive /\ last'.v = v /\ last'.out = "ok" /\ UNCHANGED alive
  /\ \/ Becomes("assign_fill", v, Times(Arg(1), Arg(2)))
     \/ last'.op = "assign" /\ Edits("assign", v, 0, Len(val[v]), Arg(1))
     \/ Becomes("clear", v, <<>>)
     \/ \E op \in {"reserve", "shrink_to_fit", "substr"} : Becomes(op, v, val[v])
     \/ Becomes("resize", v, First(val[v], AtMost(Arg(1), Len(val[v])))
                               \o Times(Arg(1) - AtMost(Arg(1), Len(val[v])), Arg(2)))
     \/ /\ last'.op = "resize_and_overwrite"
        /\ Succeeds("resize_and_overwrite", v)
        /\ val' = [val EXCEPT ![v] = Times(IF Arg(3) THEN Len(val'[v]) ELSE Arg(2), Ch)]
     \/ last'.op = "insert" /\ Edits("insert", v, Arg(1), 0, Arg(2))
     \/ last'.op = "append" /\ Edits("append", v, Len(val[v]), 0, Arg(1))
     \/ Becomes("append_substr", v,
                val[v] \o First(After(Arg(1), Arg(2)), AtMost(Arg(3), Len(Arg(1)) - Arg(2))))
     \/ /\ last'.op = "erase" /\ Arg(1) <= Len(val[v])
        /\ Becomes("erase", v, Splice(val[v], Arg(1), AtMost(Arg(2), Len(val[v]) - Arg(1)),
                                      <<>>))
     \/ last'.op = "erase" /\ ErasesBehindEnd(v)
     \/ /\ last'.op = "replace" /\ Arg(1) + Arg(2) <= Len(val[v])
        /\ Edits("replace", v, Arg(1), Arg(2), Arg(3))
     \/ last'.op = "replace" /\ ReplacesAcrossEnd(v)
     \/ Becomes("find_and_replace", v, ReplaceFirst(val[v], Arg(1), Arg(2), Len(val[v])))

Throw ==
  /\ last'.out \in {"length_error", "out_of_range"}
  /\ UNCHANGED alive
  /\ \/ UNCHANGED val
     \/ /\ last'.op = "find_and_replace"
        /\ \E k \in 0 .. Len(val[last'.v]) :
             val' = [val EXCEPT ![last'.v] = ReplaceFirst(@, Arg(1), Arg(2), k)]

Stop == last'.out \in {"undefined", "no_memory", "terminated"}

Return == last'.op = "none" /\ UNCHANGED <<val, alive>>

Next ==
  \/ \E v \in Strs : Construct(v) \/ Destroy(v) \/ Edit(v)
  \/ \E v, w \in Strs : AssignOrSwap(v, w)
  \/ Throw
  \/ Stop
  \/ Return

Spec == Init /\ [][Next]_vars

===============================================================================
