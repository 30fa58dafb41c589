--------------------------------- MODULE Sought ---------------------------------
(***************************************************************************)
(* algo/bound_leaning_lower_bound.h: the positions of a range are          *)
(* 0 .. n - 1, and less[i] holds of the elements below the value sought.   *)
(***************************************************************************)
EXTENDS Integers

\* std::lower_bound on the elements first .. last - 1.
LowerBound(first, last, less) ==
  CHOOSE p \in first .. last :
    (\A i \in first .. p - 1 : less[i]) /\ (\A i \in p .. last - 1 : ~less[i])

Middle(first, last, part) ==
  IF last - first = 1 THEN first ELSE first + part

\* Up from the middle, in steps of three quarters of what is left.
Up(from, to, less) ==
  LET middle(first) == Middle(first, to, (3 * (to - first)) \div 4)
      range[first \in from .. to] ==
        IF first = to THEN <<to, to>>
        ELSE IF less[middle(first)] THEN range[middle(first) + 1]
        ELSE <<first, middle(first)>>
  IN  range[from]

\* Down from the middle, keeping the first quarter of what is left.
Down(from, to, less) ==
  LET middle(last) == Middle(from, last, (last - from) \div 4)
      range[last \in from .. to] ==
        IF from = last THEN <<from, from>>
        ELSE IF less[middle(last)] THEN <<middle(last) + 1, last>>
        ELSE range[middle(last)]
  IN  range[to]

\* A faulty search, which goes down when the middle is below the value.
LeaningWrongWay(n, less) ==
  IF n = 0 THEN n ELSE
  LET middle == Middle(0, n, n \div 2)
      range == IF less[middle] THEN Down(0, middle, less) ELSE Up(middle + 1, n, less)
  IN  LowerBound(range[1], range[2], less)

bound_leaning(n, less) ==
  IF n = 0 THEN n ELSE
  LET middle == Middle(0, n, n \div 2)
      range == IF less[middle] THEN Up(middle + 1, n, less) ELSE Down(0, middle, less)
  IN  LowerBound(range[1], range[2], less)

===============================================================================
