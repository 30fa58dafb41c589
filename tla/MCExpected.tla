------------------------------ MODULE MCExpected ------------------------------
(***************************************************************************)
(* Instances of Expected for TLC.                                          *)
(***************************************************************************)
EXTENDS Expected

CONSTANTS o1, o2, d1, d2

TwoObjs == {o1, o2}
TwoData == {d1, d2}

\* Every type whose moves throw only where its copies may: int, std::string, a class
\* whose assignments alone throw, a class without nothrow operations, and so on.
MCErrorTypes == {t \in Traits : ~t.void /\ (t.cctor => t.mctor) /\ (t.cassign => t.massign)}

\* Besides, void.
MCValueTypes == MCErrorTypes \cup
  {[void |-> TRUE, cctor |-> TRUE, mctor |-> TRUE, cassign |-> TRUE, massign |-> TRUE]}
===============================================================================
