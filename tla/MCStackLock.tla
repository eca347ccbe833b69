----------------------------- MODULE MCStackLock -----------------------------
(***************************************************************************)
(* StackLock on small instances.                                           *)
(***************************************************************************)
EXTENDS StackLock

CONSTANTS e1, e2, e3, o1, o2, o3, d1

TwoEngines   == {e1, e2}
ThreeEngines == {e1, e2, e3}
NoRequests   == {}
OneOp        == {o1}
TwoOps       == {o1, o2}
ThreeOps     == {o1, o2, o3}
OneDelete    == {d1}
=============================================================================
