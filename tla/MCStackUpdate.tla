---------------------------- MODULE MCStackUpdate ----------------------------
(***************************************************************************)
(* StackUpdate on two resource names and a few templates.                  *)
(***************************************************************************)
EXTENDS StackUpdate

A1 == [version |-> 1, needs |-> {}]
A2 == [version |-> 2, needs |-> {}]
A3 == [version |-> 3, needs |-> {"b"}]
B1 == [version |-> 1, needs |-> {"a"}]
B2 == [version |-> 2, needs |-> {}]

TwoNames == {"a", "b"}

(* b refers to a; a is changed; a is removed; a refers to b. *)
Chain    == [a |-> A1, b |-> B1]
Altered  == [a |-> A2, b |-> B1]
Alone    == [b |-> B2]
Reversed == [a |-> A3, b |-> B2]

FewTemplates == {Chain, Altered, Alone, Reversed}
FiveIds      == 1..5
AllFaults    == FaultKinds
CreateFault  == {"create"}
UpdateFault  == {"update"}
Either       == BOOLEAN
=============================================================================
