---------------------------- MODULE MCScalingGroup ----------------------------
(***************************************************************************)
(* ScalingGroup on small instances: a policy that grows the group by half  *)
(* and one that shrinks it by two, both of which the bounds cut off, and   *)
(* updates that narrow the bounds, move them up or ask for a capacity.     *)
(***************************************************************************)
EXTENDS ScalingGroup, TLC

CONSTANTS h1, h2

TwoHandlers == {h1, h2}
UpAndDown   == {"up", "down"}
UpByHalf    == "up" :> "PercentChangeInCapacity" @@ "down" :> "ChangeInCapacity"
DownByTwo   == "up" :> 50 @@ "down" :> -2
UpCools     == {"up"}
UpTo(n)     == 1 .. n
FourInstances == UpTo(4)

Group(min, max, desired) == [min |-> min, max |-> max, desired |-> desired]
TwoTemplates == {Group(1, 2, 0), Group(2, 3, 3)}

Symmetric == Permutations(Handlers)

(* Bound: what is muddled or loose stays so, and nothing is promised of a  *)
(* group that is both.                                                     *)
OnCourse == ~(muddled /\ loose)

(* rows is read by no guard and rest by none either: two states that only  *)
(* differ in them go on alike, and the properties about them ask for       *)
(* ~muddled, which never comes back.                                       *)
Relevant == <<stored, stack, group, status, members, fresh, groupAge, cooling, pc,
              locals, muddled, loose,
              IF muddled THEN {} ELSE rows, IF muddled THEN 0 ELSE rest>>
=============================================================================
