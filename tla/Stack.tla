--------------------------------- MODULE Stack ---------------------------------
(***************************************************************************)
(* What a stack of messages promises: a pop hands out, whole, the message  *)
(* that was pushed last of those still there, and takes it away.           *)
(***************************************************************************)
EXTENDS Integers, Sequences

CONSTANT Msgs

VARIABLES
  stack,   \* the messages pushed and not popped
  popped   \* what the last pop handed out

vars == <<stack, popped>>

Init == stack = <<>> /\ popped = <<>>

Push(m) == stack' = Append(stack, m) /\ UNCHANGED popped

\* The message on the top is taken away.
Removal == stack # <<>> /\ stack' = SubSeq(stack, 1, Len(stack) - 1)

Pop == Removal /\ popped' = <<stack[Len(stack)]>>

Next == Pop \/ \E m \in Msgs : Push(m)

Spec == Init /\ [][Next]_vars
===============================================================================
