----------------------------- MODULE StackMutex ------------------------------
(***************************************************************************)
(* What the stack lock promises to the operations of one stack: from the   *)
(* moment an operation is admitted to the moment it leaves (because it     *)
(* ended, or because its engine died) no other operation is admitted.      *)
(***************************************************************************)
CONSTANT Requests
VARIABLE busy

Init == busy = {}

Admit(r) == busy = {} /\ busy' = {r}

Leave(r) == r \in busy /\ busy' = {}

Next == \E r \in Requests : Admit(r) \/ Leave(r)

Spec == Init /\ [][Next]_busy
=============================================================================
