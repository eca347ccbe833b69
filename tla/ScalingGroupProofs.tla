-------------------------- MODULE ScalingGroupProofs --------------------------
(***************************************************************************)
(* Proofs about ScalingGroup, for any policies, templates, instances,      *)
(* handlers and cooldowns.                                                 *)
(***************************************************************************)
EXTENDS ScalingGroup, FiniteSetTheorems, TLAPS

(* Where only an update, or a rollback, gets. *)
Task == {"turn", "target", "settle", "done", "refused", "failed", "flip"}

(* A handler at work has a caller and the properties of a template, and    *)
(* only a policy stamps itself, only an update flips the stack.            *)
Roles ==
  \A h \in Handlers :
    /\ pc[h] = "idle" => caller[h] = Nobody
    /\ pc[h] # "idle" =>
         caller[h] \in Policies \cup {Update, Rollback} /\ props[h] \in Properties
    /\ pc[h] \in {"policy", "stamppolicy"} => caller[h] \in Policies
    /\ pc[h] \in Task => Updater(h)

Typed == TypeOK /\ Roles

-----------------------------------------------------------------------------
(***************************************************************************)
(* The arithmetic of adjust and handle_update.                             *)
(***************************************************************************)
LEMMA PropertiesTyped ==
  /\ \A p \in Properties : /\ p.min \in Nat /\ p.max \in Nat /\ p.desired \in Nat
                           /\ p.min <= p.max
                           /\ p.desired = NoDesired \/ p.desired \in p.min .. p.max
BY PropertiesAssumption

(* What a policy asks for is a number. *)
LEMMA WantedInt ==
  ASSUME NEW type, NEW by \in Int, NEW capacity \in Int
  PROVE  Wanted(type, by, capacity) \in Int
<1>1. \A n \in Int : Rounded(n) \in Int
  BY DEF Rounded
<1>2. capacity * by \in Int
  OBVIOUS
<1>3. Rounded(capacity * by) \in Int
  BY <1>1, <1>2
<1> HIDE DEF Rounded
<1> QED BY <1>3 DEF Wanted

(* The capacity a resize decides on is one of the bounds, or lies between  *)
(* them, or is the present one, and then nothing is resized: whatever the  *)
(* policy asks for, however small or large the group is, a resize that     *)
(* begins asks for a capacity the template allows (the return statements   *)
(* of adjust).                                                             *)
THEOREM ResizeWithinBounds ==
  ASSUME NEW p \in Properties, NEW new \in Int, NEW capacity \in Nat,
         Bounded(new, capacity, p) # capacity
  PROVE  Bounded(new, capacity, p) \in p.min .. p.max
BY PropertiesTyped DEF Bounded

LEMMA BoundedNat ==
  ASSUME NEW p \in Properties, NEW new \in Int, NEW capacity \in Nat
  PROVE  Bounded(new, capacity, p) \in Nat
BY PropertiesTyped DEF Bounded

(* handle_update asks for a capacity the new template allows whenever the  *)
(* former one allowed the present capacity.                                *)
THEOREM TargetWithinBounds ==
  ASSUME NEW p \in Properties, NEW q \in Properties, NEW capacity \in p.min .. p.max
  PROVE  Target(p, q, capacity) \in q.min .. q.max
BY PropertiesTyped DEF Target, NoDesired

LEMMA TargetNat ==
  ASSUME NEW p \in Properties, NEW q \in Properties, NEW capacity \in Nat
  PROVE  Target(p, q, capacity) \in Nat
BY PropertiesTyped DEF Target

(* An update asks adjust for an ExactCapacity, which a capacity within the *)
(* bounds passes through.                                                  *)
LEMMA ExactBounded ==
  ASSUME NEW p \in Properties, NEW n \in p.min .. p.max, NEW capacity \in Nat
  PROVE  /\ Wanted("ExactCapacity", n, capacity) = n
         /\ Bounded(n, capacity, p) = n
BY PropertiesTyped DEF Wanted, Bounded

LEMMA Finite ==
  ASSUME NEW S \in SUBSET Instances
  PROVE  IsFiniteSet(S) /\ Cardinality(S) \in Nat
BY InstancesAssumption, FS_Subset, FS_CardinalityType

-----------------------------------------------------------------------------
LEMMA InitTyped == Init => Typed
<1> SUFFICES ASSUME Init PROVE Typed
  OBVIOUS
<1>1. 0 \in 0 .. GroupCooldown + 1
  BY CooldownAssumption
<1>2. PICK p \in Properties, S \in SUBSET Instances :
        /\ stored = p /\ members = S /\ rows = S /\ fresh = Instances \ S
    BY DEF Init
<1>3. /\ pc = [h \in Handlers |-> "idle"] /\ caller = [h \in Handlers |-> Nobody]
      /\ props = [h \in Handlers |-> NoProps] /\ was = [h \in Handlers |-> "COMPLETE"]
      /\ copy = [h \in Handlers |-> {}] /\ size = [h \in Handlers |-> 0]
      /\ ok = [h \in Handlers |-> FALSE]
      /\ stack = "COMPLETE" /\ group = "COMPLETE" /\ status = "COMPLETE" /\ cooling = {}
      /\ groupAge = 0 /\ rest = 0 /\ muddled = FALSE /\ loose = FALSE
    BY DEF Init
<1>4. TypeOK
  BY <1>1, <1>2, <1>3 DEF TypeOK, Labels, Statuses
<1>5. Roles
  BY <1>3 DEF Roles, Task
<1> QED BY <1>4, <1>5 DEF Typed

(* Moving on, and giving up, keep the types and the roles. *)
LEMMA Proceeds ==
  ASSUME Typed, NEW h \in Handlers, NEW from \in Labels \ {"idle"}, NEW to \in Labels,
         Proceed(h, from, to),
         to \in {"policy", "stamppolicy"} => caller[h] \in Policies,
         to \in Task => Updater(h)
  PROVE  /\ pc' \in [Handlers -> Labels]
         /\ caller' \in [Handlers -> Policies \cup {Update, Rollback, Nobody}]
         /\ props' \in [Handlers -> Properties \cup {NoProps}]
         /\ was' \in [Handlers -> Statuses]
         /\ copy' \in [Handlers -> SUBSET Instances]
         /\ size' \in [Handlers -> Nat]
         /\ ok' \in [Handlers -> BOOLEAN]
         /\ Roles'
<1> USE DEF Typed, TypeOK, Proceed, Goto
<1>1. CASE to = "idle"
  <2>1. "COMPLETE" \in Statuses
    BY DEF Statuses
  <2>2. Roles'
    BY <1>1 DEF Forget, Roles, Updater, Task
  <2>3. pc' \in [Handlers -> Labels]
    OBVIOUS
  <2>4. /\ caller' \in [Handlers -> Policies \cup {Update, Rollback, Nobody}]
        /\ props' \in [Handlers -> Properties \cup {NoProps}]
        /\ was' \in [Handlers -> Statuses]
    BY <1>1, <2>1 DEF Forget
  <2>5. /\ copy' = [copy EXCEPT ![h] = {}] /\ size' = [size EXCEPT ![h] = 0]
        /\ ok' = [ok EXCEPT ![h] = FALSE]
    BY <1>1 DEF Forget
  <2>6. copy' \in [Handlers -> SUBSET Instances]
    BY <2>5
  <2>7. size' \in [Handlers -> Nat]
    BY <2>5
  <2>8. ok' \in [Handlers -> BOOLEAN]
    BY <2>5
  <2> QED BY <2>2, <2>3, <2>4, <2>6, <2>7, <2>8
<1>2. CASE to # "idle"
  BY <1>2 DEF locals, Roles, Updater
<1> QED BY <1>1, <1>2

LEMMA NextTyped == Typed /\ [Next]_vars => Typed'
<1> SUFFICES ASSUME Typed, [Next]_vars PROVE Typed'
  OBVIOUS
<1>l. Labels = {"idle", "policy", "turn", "target", "group", "load", "begin",
                "apply", "store", "stampgroup", "stamppolicy", "refused", "failed",
                "settle", "done", "flip"}
  BY DEF Labels
<1>k. Task = {"turn", "target", "settle", "done", "refused", "failed", "flip"}
  BY DEF Task
<1>s. {"COMPLETE", "IN_PROGRESS", "FAILED"} = Statuses
  BY DEF Statuses
<1>g. GroupCooldown \in Nat
  BY CooldownAssumption
<1>u. Policies \cap {Update, Rollback} = {}
  BY PoliciesAssumption
<1>r. \A h \in Handlers : pc[h] # "idle" =>
        /\ Updater(h) => Returned(h) = "settle" /\ \A how : Raised(h, how) = how
        /\ ~Updater(h) => /\ Returned(h) = "stamppolicy" /\ \A how : Raised(h, how) = "idle"
                          /\ caller[h] \in Policies
  BY DEF Typed, Roles, Returned, Raised, Updater
<1>v. \A h \in Handlers : pc[h] # "idle" => Given(h) \in Properties /\ Former(h) \in Properties
  BY DEF Typed, TypeOK, Roles, Given, Former
<1>t. Typed => TypeOK /\ Roles
  BY DEF Typed
<1> USE DEF StackSame, NestedSame, AgesSame, HistorySame
<1>1. ASSUME NEW h \in Handlers, NEW p \in Policies, Signal(h, p) PROVE Typed'
  BY <1>1, <1>l, <1>k, <1>u DEF Signal, Goto, Typed, TypeOK, Roles, Updater
<1>2. ASSUME NEW h \in Handlers, NEW p \in Properties, UpdateStack(h, p) PROVE Typed'
  BY <1>2, <1>l, <1>k, <1>s, <1>u DEF UpdateStack, Goto, Typed, TypeOK, Roles, Updater
<1>3. ASSUME NEW h \in Handlers, PolicyCools(h) PROVE Typed'
  BY <1>3, <1>l, <1>k, Proceeds DEF PolicyCools, Typed, TypeOK
<1>4. ASSUME NEW h \in Handlers, PolicyFree(h) PROVE Typed'
  BY <1>4, <1>l, <1>k, Proceeds DEF PolicyFree, Typed, TypeOK
<1>5. ASSUME NEW h \in Handlers, UpdateTarget(h) PROVE Typed'
  <2>1. pc[h] = "target" /\ \E l \in {"settle", "group"} : pc' = [pc EXCEPT ![h] = l]
    BY <1>5 DEF UpdateTarget, Goto
  <2>2. was' \in [Handlers -> Statuses] /\ copy' \in [Handlers -> SUBSET Instances]
    BY <1>5 DEF UpdateTarget, Loaded, Typed, TypeOK
  <2>3. Target(Former(h), Given(h), Cardinality(copy'[h])) \in Nat
    BY <2>1, <2>2, <1>v, TargetNat, Finite
  <2>4. size' \in [Handlers -> Nat]
    BY <1>5, <2>3 DEF UpdateTarget, Typed, TypeOK
  <2>5. muddled' \in BOOLEAN
    BY <1>5 DEF UpdateTarget, Typed, TypeOK
  <2>6. Updater(h)
    BY <2>1, <1>k DEF Typed, Roles
  <2>7. Roles'
    BY <1>5, <2>1, <2>6, <1>k DEF UpdateTarget, Typed, TypeOK, Roles, Updater
  <2> QED BY <1>5, <1>l, <2>1, <2>2, <2>4, <2>5, <2>7 DEF UpdateTarget, Typed, TypeOK
<1>6. ASSUME NEW h \in Handlers, Flip(h) PROVE Typed'
  <2>1. loose' \in BOOLEAN
    BY <1>6 DEF Flip, Typed, TypeOK
  <2>2. Given(h) \in Properties
    BY <1>6, <1>v DEF Flip, Proceed, Goto
  <2> QED BY <1>6, <1>l, <1>k, <2>1, <2>2, Proceeds DEF Flip, Typed, TypeOK
<1>7. ASSUME NEW h \in Handlers, GroupCools(h) PROVE Typed'
  <2>1. pc[h] = "group" /\ Proceed(h, "group", Returned(h))
    BY <1>7 DEF GroupCools, Proceed, Goto
  <2>2. loose' \in BOOLEAN
    BY <1>7 DEF GroupCools, Typed, TypeOK
  <2> QED BY <1>7, <2>1, <2>2, <1>l, <1>k, <1>r, Proceeds DEF GroupCools, Typed, TypeOK
<1>8. ASSUME NEW h \in Handlers, GroupFree(h) PROVE Typed'
  BY <1>8, <1>l, <1>k, Proceeds DEF GroupFree, Typed, TypeOK
<1>9. ASSUME NEW h \in Handlers, Decide(h) PROVE Typed'
  <2>1. /\ was' \in [Handlers -> Statuses]
        /\ copy' \in [Handlers -> SUBSET Instances]
    BY <1>9 DEF Decide, Loaded, Typed, TypeOK
  <2>2. Cardinality(copy'[h]) \in Nat
    BY <2>1, Finite
  <2>3. caller[h] \in Policies \cup {Update, Rollback} /\ Given(h) \in Properties
    BY <1>9, <1>v DEF Decide, Goto, Typed, Roles
  <2>4. PICK n \in Int :
          size' = [size EXCEPT ![h] = Bounded(n, Cardinality(copy'[h]), Given(h))]
    <3> DEFINE c == Cardinality(copy'[h])
    <3>1. CASE Updater(h)
      <4>1. size[h] \in Int
        BY DEF Typed, TypeOK
      <4>2. Wanted("ExactCapacity", size[h], c) \in Int
        BY <4>1, <2>2, WantedInt
      <4> QED BY <3>1, <4>2, <1>9 DEF Decide
    <3>2. CASE ~Updater(h)
      <4>1. ScalingAdjustment[caller[h]] \in Int
        BY <2>3, <3>2, AdjustmentAssumption DEF Updater
      <4>2. Wanted(AdjustmentType[caller[h]], ScalingAdjustment[caller[h]], c) \in Int
        BY <4>1, <2>2, WantedInt
      <4> QED BY <3>2, <4>2, <1>9 DEF Decide
    <3> QED BY <3>1, <3>2
  <2>5. size' \in [Handlers -> Nat]
    BY <2>2, <2>3, <2>4, BoundedNat DEF Typed, TypeOK
  <2>6. pc[h] = "load" /\ \E l \in {"begin", Returned(h)} : pc' = [pc EXCEPT ![h] = l]
    BY <1>9 DEF Decide, Goto
  <2>7. Roles'
    BY <1>9, <2>6, <1>k, <1>r DEF Decide, Typed, TypeOK, Roles, Updater
  <2>8. pc' \in [Handlers -> Labels]
    BY <2>6, <1>l, <1>r DEF Typed, TypeOK
  <2> QED BY <1>9, <2>1, <2>5, <2>7, <2>8 DEF Decide, Typed, TypeOK
<1>10. ASSUME NEW h \in Handlers, TemplateRefused(h) PROVE Typed'
  <2>1. pc[h] = "begin"
    BY <1>10 DEF TemplateRefused, Proceed, Goto
  <2> QED BY <1>10, <2>1, <1>l, <1>k, <1>r, Proceeds DEF TemplateRefused, Typed, TypeOK
<1>11. ASSUME NEW h \in Handlers, BeginRefused(h) PROVE Typed'
  <2>1. pc[h] = "begin"
    BY <1>11 DEF BeginRefused, Proceed, Goto
  <2> QED BY <1>11, <2>1, <1>l, <1>k, <1>r, <1>s, Proceeds DEF BeginRefused, Typed, TypeOK
<1>12. ASSUME NEW h \in Handlers, Begin(h) PROVE Typed'
  BY <1>12, <1>l, <1>k, <1>s, Proceeds DEF Begin, Typed, TypeOK
<1>13. ASSUME NEW h \in Handlers, Apply(h) PROVE Typed'
  <2>1. PICK keep \in Youngest(copy[h], size[h]), new \in Upcoming(Missing(h)) :
          \E gone \in SUBSET (copy[h] \ keep), made \in SUBSET new, done \in BOOLEAN :
            /\ rows' = (rows \ gone) \cup made
            /\ fresh' = fresh \ new
            /\ copy' = [copy EXCEPT ![h] = keep \cup new]
            /\ ok' = [ok EXCEPT ![h] = done]
            /\ status' = IF done THEN "COMPLETE" ELSE "FAILED"
    BY <1>13 DEF Apply
  <2>2. keep \subseteq Instances /\ new \subseteq Instances
    BY DEF Youngest, Upcoming, Typed, TypeOK
  <2>3. /\ rows' \subseteq Instances /\ fresh' \subseteq Instances
        /\ copy' \in [Handlers -> SUBSET Instances]
        /\ ok' \in [Handlers -> BOOLEAN]
        /\ status' \in Statuses
    BY <2>1, <2>2, <1>s DEF Typed, TypeOK
  <2>4. pc' \in [Handlers -> Labels] /\ size' \in [Handlers -> Nat]
    BY <1>13, <1>l DEF Apply, Goto, Typed, TypeOK
  <2>5. Roles'
    BY <1>13, <1>k DEF Apply, Goto, Typed, TypeOK, Roles, Updater
  <2> QED BY <1>13, <2>3, <2>4, <2>5 DEF Apply, Typed, TypeOK
<1>14. ASSUME NEW h \in Handlers, Store(h) PROVE Typed'
  <2>1. pc[h] = "store"
    BY <1>14 DEF Store, Proceed, Goto
  <2>2. /\ members' \subseteq Instances /\ status' \in Statuses
        /\ loose' \in BOOLEAN /\ rest' \in 0 .. GroupCooldown + 1
    BY <1>14, <1>g, <1>s DEF Store, Typed, TypeOK
  <2>3. \E l \in {"stampgroup", Raised(h, "failed")} : Proceed(h, "store", l)
    BY <1>14 DEF Store
  <2> QED BY <1>14, <2>1, <2>2, <2>3, <1>l, <1>k, <1>r, Proceeds DEF Store, Typed, TypeOK
<1>15. ASSUME NEW h \in Handlers, StampGroup(h) PROVE Typed'
  <2>1. pc[h] = "stampgroup"
    BY <1>15 DEF StampGroup, Proceed, Goto
  <2> QED BY <1>15, <2>1, <1>g, <1>l, <1>k, <1>r, Proceeds DEF StampGroup, Typed, TypeOK
<1>16. ASSUME NEW h \in Handlers, StampPolicy(h) PROVE Typed'
  BY <1>16, <1>l, <1>k, Proceeds DEF StampPolicy, Typed, TypeOK
<1>17. ASSUME NEW h \in Handlers, Die(h) PROVE Typed'
  <2>1. pc[h] \in Labels \ {"idle"}
    BY <1>17 DEF Die, Typed, TypeOK
  <2>2. muddled' \in BOOLEAN /\ loose' \in BOOLEAN
    BY <1>17 DEF Die, Typed, TypeOK
  <2> QED BY <1>17, <2>1, <2>2, <1>l, <1>k, Proceeds DEF Die, Typed, TypeOK
<1>18. CASE Tick
  BY <1>18, <1>g DEF Tick, Older, locals, Typed, TypeOK, Roles, Updater
<1>19. CASE UNCHANGED vars
  BY <1>19 DEF vars, locals, Typed, TypeOK, Roles, Updater
<1>20. ASSUME NEW h \in Handlers, GroupsTurn(h) PROVE Typed'
  <2>1. pc[h] = "turn" /\ Updater(h)
    BY <1>20, <1>k DEF GroupsTurn, Proceed, Goto, Typed, Roles
  <2> QED BY <1>20, <2>1, <1>l, <1>k, <1>s, Proceeds DEF GroupsTurn, Typed, TypeOK
<1>21. ASSUME NEW h \in Handlers, GroupComplete(h) PROVE Typed'
  <2>1. pc[h] = "settle" /\ Updater(h)
    BY <1>21, <1>k DEF GroupComplete, Proceed, Goto, Typed, Roles
  <2> QED BY <1>21, <2>1, <1>l, <1>k, <1>s, Proceeds DEF GroupComplete, Typed, TypeOK
<1>22. ASSUME NEW h \in Handlers, GroupFails(h) PROVE Typed'
  BY <1>22, <1>s DEF GroupFails, locals, Typed, TypeOK, Roles, Updater
<1>23. ASSUME NEW h \in Handlers, RollBack(h) PROVE Typed'
  <2>1. pc[h] \in Task /\ \E l \in {"turn", "done"} : pc' = [pc EXCEPT ![h] = l]
    BY <1>23, <1>k DEF RollBack, Broken
  <2>2. loose' \in BOOLEAN
    BY <1>23 DEF RollBack, Typed, TypeOK
  <2>3. pc' \in [Handlers -> Labels] /\ caller' \in [Handlers -> Policies \cup {Update, Rollback, Nobody}]
    BY <1>23, <2>1, <1>l DEF RollBack, Typed, TypeOK
  <2>4. Roles'
    BY <1>23, <2>1, <1>k, <1>l DEF RollBack, Typed, TypeOK, Roles, Updater
  <2> QED BY <1>23, <2>2, <2>3, <2>4 DEF RollBack, Typed, TypeOK
<1>24. ASSUME NEW h \in Handlers, Succeed(h) PROVE Typed'
  <2>1. pc[h] = "done" /\ Updater(h)
    BY <1>24, <1>k DEF Succeed, Proceed, Goto, Typed, Roles
  <2> QED BY <1>24, <2>1, <1>l, <1>k, <1>s, Proceeds DEF Succeed, Typed, TypeOK
<1>25. ASSUME NEW h \in Handlers, Fail(h) PROVE Typed'
  <2>1. pc[h] \in Task /\ Updater(h)
    BY <1>25, <1>k DEF Fail, Broken, Typed, Roles
  <2>2. loose' \in BOOLEAN
    BY <1>25 DEF Fail, Typed, TypeOK
  <2> QED BY <1>25, <2>1, <2>2, <1>l, <1>k, <1>s, Proceeds DEF Fail, Typed, TypeOK
<1> QED
  BY <1>1, <1>2, <1>3, <1>4, <1>5, <1>6, <1>7, <1>8, <1>9, <1>10, <1>11, <1>12,
     <1>13, <1>14, <1>15, <1>16, <1>17, <1>18, <1>19, <1>20, <1>21, <1>22, <1>23,
     <1>24, <1>25 DEF Next, Adjust, UpdateTask

(* All the variables keep to their types; above all a group's capacity,    *)
(* whatever a policy subtracts from it, is never below zero (adjust).      *)
THEOREM TypeCorrect == Spec => []TypeOK
<1>1. Typed => TypeOK
  BY DEF Typed
<1> QED BY InitTyped, NextTyped, <1>1, PTL DEF Spec

-----------------------------------------------------------------------------
(***************************************************************************)
(* Resizes that do not overlap.                                            *)
(***************************************************************************)
IsResizer(h) == pc[h] \in Resizing \/ (pc[h] = "group" /\ Updater(h))

(* An update has loaded the nested stack when it gets to the group's       *)
(* cooldown, a signal when it begins.                                      *)
HasLoaded(h) ==
  pc[h] = "begin" \/ (pc[h] \in {"group", "load"} /\ Updater(h))

Alone == \A g, h \in Handlers : IsResizer(g) /\ IsResizer(h) => g = h

(* What a resizer has loaded is what there is. *)
Current ==
  \A h \in Handlers :
    /\ HasLoaded(h) => copy[h] = members /\ was[h] = status
    /\ pc[h] = "apply" => copy[h] = members /\ rows = members
    /\ pc[h] = "store" /\ ok[h] => rows = copy[h]

Accounted ==
  status = "COMPLETE" /\ (\A h \in Handlers : pc[h] # "store") => rows = members

(* The group's stamp is no older than the last successful resize, once it  *)
(* is written, and a resizer has found the group past its cooldown.        *)
Cooled ==
  GroupCooldown # 0 =>
    /\ (\A h \in Handlers : pc[h] # "stampgroup") => groupAge <= rest
    /\ \A h \in Handlers : pc[h] \in {"load", "begin", "apply"} => rest > GroupCooldown

Separate == ~muddled => Alone /\ Current /\ Accounted /\ Cooled

LEMMA ResizersAre == \A h \in Handlers : h \in Resizers <=> IsResizer(h)
BY DEF Resizers, IsResizer

LEMMA InitSeparate == Init => Separate
<1> SUFFICES ASSUME Init PROVE Separate
  OBVIOUS
<1>1. \A h \in Handlers : pc[h] = "idle"
  BY DEF Init
<1>2. rows = members /\ groupAge = 0 /\ rest = 0
  BY DEF Init
<1> QED
  BY <1>1, <1>2 DEF Separate, Alone, Current, Accounted, Cooled, IsResizer, HasLoaded, Resizing

LEMMA NextSeparate == Typed /\ Separate /\ [Next]_vars => Separate'
<1> SUFFICES ASSUME Typed, Separate, [Next]_vars, ~muddled' PROVE (Alone /\ Current /\ Accounted /\ Cooled)'
  BY DEF Separate
<1> DEFINE Inv == Alone /\ Current /\ Accounted /\ Cooled
<1>g. GroupCooldown \in Nat /\ rest \in Nat /\ groupAge \in Nat
  BY CooldownAssumption DEF Typed, TypeOK
<1>u. \A h \in Handlers :
        /\ Updater(h) => Returned(h) = "settle" /\ \A how : Raised(h, how) = how
        /\ ~Updater(h) => Returned(h) = "stamppolicy" /\ \A how : Raised(h, how) = "idle"
  BY DEF Returned, Raised
<1>t. /\ pc \in [Handlers -> Labels] /\ DOMAIN caller = Handlers /\ DOMAIN was = Handlers
      /\ DOMAIN copy = Handlers /\ DOMAIN ok = Handlers
  BY DEF Typed, TypeOK
<1>p. /\ \A h \in Handlers : pc[h] \in {"policy", "stamppolicy"} => ~Updater(h)
      /\ \A p \in Policies : p \notin {Update, Rollback}
  BY PoliciesAssumption DEF Typed, Roles, Updater
<1>m. muddled => muddled'
  BY DEF Next, Adjust, UpdateTask, Signal, UpdateStack, PolicyCools, PolicyFree, GroupsTurn,
         UpdateTarget, GroupComplete, GroupFails, RollBack, Succeed, Fail, Flip,
         GroupCools, GroupFree, Decide, TemplateRefused, BeginRefused, Begin, Apply, Store,
         StampGroup, StampPolicy, Die, Tick, HistorySame, vars
<1>i. Inv
  BY <1>m DEF Separate
<1>a. ASSUME NEW h \in Handlers, NEW from \in Labels, NEW to \in Task \cup {"idle"},
             Proceed(h, from, to),
             UNCHANGED <<status, members, rows, groupAge, rest>>,
             from \notin {"store", "stampgroup"}
      PROVE  Inv'
  <2>1. to \notin Resizing /\ to # "group"
    BY DEF Task, Resizing
  <2>2. pc' = [pc EXCEPT ![h] = to]
    BY <1>a DEF Proceed, Goto
  <2>3. \A g \in Handlers : g # h => /\ pc'[g] = pc[g] /\ caller'[g] = caller[g]
                                     /\ was'[g] = was[g] /\ copy'[g] = copy[g] /\ ok'[g] = ok[g]
    BY <1>a, <1>t DEF Proceed, Goto, Forget, locals
  <2>4. pc[h] \notin {"store", "stampgroup"} /\ pc'[h] = to
    BY <1>a, <1>t DEF Proceed, Goto
  <2>5. Cooled'
    BY <1>a, <1>i, <2>1, <2>3, <2>4 DEF Cooled, Resizing
  <2>6. Accounted'
    BY <1>a, <1>i, <2>1, <2>3, <2>4 DEF Accounted, Resizing
  <2>7. \A g \in Handlers : IsResizer(g)' => g # h /\ IsResizer(g)
    BY <2>1, <2>3, <2>4 DEF IsResizer, Updater
  <2>8. Alone'
    BY <1>i, <2>7 DEF Alone
  <2>9. Current'
    BY <1>a, <1>i, <2>1, <2>3, <2>4 DEF Current, HasLoaded, Updater, Resizing
  <2> QED BY <2>5, <2>6, <2>8, <2>9
<1>k. Task = {"turn", "target", "settle", "done", "refused", "failed", "flip"}
  BY DEF Task
<1>l. Labels = {"idle", "policy", "turn", "target", "group", "load", "begin",
                "apply", "store", "stampgroup", "stamppolicy", "refused", "failed",
                "settle", "done", "flip"}
  BY DEF Labels
<1> USE DEF StackSame, NestedSame, AgesSame, HistorySame, Goto
<1>1. ASSUME NEW h \in Handlers, NEW p \in Policies, Signal(h, p) PROVE Inv'
  BY <1>1, <1>i, <1>t DEF Signal, Alone, Current, Accounted, Cooled, IsResizer, HasLoaded,
                          Resizing, Updater
<1>2. ASSUME NEW h \in Handlers, NEW p \in Properties, UpdateStack(h, p) PROVE Inv'
  BY <1>2, <1>i, <1>t DEF UpdateStack, Alone, Current, Accounted, Cooled, IsResizer, HasLoaded,
                          Resizing, Updater
<1>3. ASSUME NEW h \in Handlers, PolicyCools(h) PROVE Inv'
  BY <1>3, <1>a, <1>l DEF PolicyCools
<1>4. ASSUME NEW h \in Handlers, PolicyFree(h) PROVE Inv'
  BY <1>4, <1>i, <1>t, <1>p DEF PolicyFree, Proceed, locals, Alone, Current, Accounted, Cooled,
                          IsResizer, HasLoaded, Resizing, Updater
<1>5. ASSUME NEW h \in Handlers, UpdateTarget(h) PROVE Inv'
  <2>1. \A g \in Handlers : ~IsResizer(g)
    BY <1>5, ResizersAre DEF UpdateTarget
  <2>2. \A g \in Handlers : g # h => /\ pc'[g] = pc[g] /\ caller'[g] = caller[g]
                                     /\ was'[g] = was[g] /\ copy'[g] = copy[g]
    BY <1>5, <1>t DEF UpdateTarget, Loaded
  <2>3. pc'[h] \in {"settle", "group"} /\ was'[h] = status /\ copy'[h] = members
    BY <1>5, <1>t DEF UpdateTarget
  <2>4. UNCHANGED <<status, members, rows, groupAge, rest, caller, ok>>
    BY <1>5 DEF UpdateTarget
  <2> QED
    BY <2>1, <2>2, <2>3, <2>4, <1>i DEF Alone, Current, Accounted, Cooled, IsResizer, HasLoaded,
                          Resizing, Updater
<1>6. ASSUME NEW h \in Handlers, Flip(h) PROVE Inv'
  BY <1>6, <1>a, <1>l DEF Flip
<1>7. ASSUME NEW h \in Handlers, GroupCools(h) PROVE Inv'
  BY <1>7, <1>i, <1>t, <1>u DEF GroupCools, Proceed, locals, Alone, Current, Accounted, Cooled,
                          IsResizer, HasLoaded, Resizing, Updater
<1>8. ASSUME NEW h \in Handlers, GroupFree(h) PROVE Inv'
  <2>1. \A g \in Handlers : IsResizer(g) => g = h
    BY <1>8, ResizersAre DEF GroupFree
  <2>2. UNCHANGED <<locals, status, members, rows, groupAge, rest>>
    BY <1>8 DEF GroupFree, Proceed
  <2>3. pc[h] = "group" /\ pc' = [pc EXCEPT ![h] = "load"]
    BY <1>8 DEF GroupFree, Proceed
  <2>4. GroupCooldown # 0 => groupAge > GroupCooldown
    BY <1>8, <1>g DEF GroupFree, InProgress
  <2>5. \A g \in Handlers : pc[g] # "stampgroup"
    BY <2>1, <2>3 DEF IsResizer, Resizing
  <2>6. Cooled'
    BY <1>g, <1>i, <1>t, <2>2, <2>3, <2>4, <2>5 DEF Cooled
  <2> QED
    BY <2>1, <2>2, <2>3, <2>6, <1>i, <1>t DEF locals, Alone, Current, Accounted,
                          IsResizer, HasLoaded, Resizing, Updater
<1>9. ASSUME NEW h \in Handlers, Decide(h) PROVE Inv'
  <2>1. pc[h] = "load" /\ \E l \in {"begin", Returned(h)} : pc' = [pc EXCEPT ![h] = l]
    BY <1>9 DEF Decide
  <2>2. \A g \in Handlers : g # h => was'[g] = was[g] /\ copy'[g] = copy[g]
    BY <1>9, <1>t DEF Decide, Loaded
  <2>3. was'[h] = status /\ copy'[h] = members
    BY <1>9, <1>i, <1>t, <2>1 DEF Decide, Loaded, Current, HasLoaded
  <2>4. UNCHANGED <<status, members, rows, groupAge, rest, caller, ok>>
    BY <1>9 DEF Decide
  <2> QED
    BY <2>1, <2>2, <2>3, <2>4, <1>i, <1>t, <1>u DEF Alone, Current, Accounted, Cooled,
                          IsResizer, HasLoaded, Resizing, Updater
<1>10. ASSUME NEW h \in Handlers, TemplateRefused(h) PROVE Inv'
  BY <1>10, <1>a, <1>u, <1>k, <1>l DEF TemplateRefused
<1>11. ASSUME NEW h \in Handlers, BeginRefused(h) PROVE Inv'
  <2>1. \A g \in Handlers : g # h => ~IsResizer(g)
    BY <1>11, <1>i DEF BeginRefused, Proceed, Alone, IsResizer, Resizing
  <2>2. pc' = [pc EXCEPT ![h] = Raised(h, "refused")] /\ Raised(h, "refused") \in {"refused", "idle"}
    BY <1>11, <1>u DEF BeginRefused, Proceed
  <2>3. \A g \in Handlers : g # h => /\ caller'[g] = caller[g] /\ was'[g] = was[g]
                                     /\ copy'[g] = copy[g] /\ ok'[g] = ok[g]
    BY <1>11, <1>t DEF BeginRefused, Proceed, Forget, locals
  <2>4. pc'[h] \in {"refused", "idle"} /\ \A g \in Handlers : g # h => pc'[g] = pc[g]
    BY <2>2, <1>t
  <2>5. \A g \in Handlers : ~IsResizer(g)'
    BY <2>1, <2>3, <2>4 DEF IsResizer, Resizing, Updater
  <2>6. Alone' /\ Current'
    BY <2>5 DEF Alone, Current, IsResizer, HasLoaded, Resizing
  <2>7. Accounted'
    BY <1>11 DEF BeginRefused, Accounted
  <2>8. Cooled'
    BY <1>11, <1>i, <2>1, <2>4 DEF BeginRefused, Proceed, Cooled, IsResizer, Resizing
  <2> QED BY <2>6, <2>7, <2>8
<1>12. ASSUME NEW h \in Handlers, Begin(h) PROVE Inv'
  <2>1. \A g \in Handlers : g # h => ~IsResizer(g)
    BY <1>12, <1>i DEF Begin, Proceed, Alone, IsResizer, Resizing
  <2>2. rows = members /\ copy[h] = members
    BY <1>12, <1>i, <2>1 DEF Begin, Proceed, Current, HasLoaded, Accounted, IsResizer, Resizing
  <2> QED
    BY <1>12, <2>1, <2>2, <1>i, <1>t DEF Begin, Proceed, locals, Alone, Current,
                          Accounted, Cooled, IsResizer, HasLoaded, Resizing, Updater
<1>13. ASSUME NEW h \in Handlers, Apply(h) PROVE Inv'
  <2>1. \A g \in Handlers : g # h => ~IsResizer(g)
    BY <1>13, <1>i DEF Apply, Alone, IsResizer, Resizing
  <2>2. pc[h] = "apply" /\ pc' = [pc EXCEPT ![h] = "store"]
    BY <1>13 DEF Apply
  <2>3. rows = copy[h]
    BY <2>2, <1>i DEF Current
  <2>4. PICK keep \in Youngest(copy[h], size[h]), new \in Upcoming(Missing(h)) :
          \E gone \in SUBSET (copy[h] \ keep), made \in SUBSET new, done \in BOOLEAN :
            /\ done => gone = copy[h] \ keep /\ made = new
            /\ rows' = (rows \ gone) \cup made
            /\ copy' = [copy EXCEPT ![h] = keep \cup new]
            /\ ok' = [ok EXCEPT ![h] = done]
    BY <1>13 DEF Apply
  <2>5. ok'[h] => rows' = copy'[h]
    <3>1. keep \subseteq copy[h]
      BY DEF Youngest
    <3> QED BY <2>4, <3>1, <2>3, <1>t
  <2>6. UNCHANGED <<members, caller, was, groupAge, rest>>
    BY <1>13 DEF Apply
  <2> QED
    BY <2>1, <2>2, <2>4, <2>5, <2>6, <1>i, <1>t DEF Alone, Current,
                          Accounted, Cooled, IsResizer, HasLoaded, Resizing, Updater
<1>14. ASSUME NEW h \in Handlers, Store(h) PROVE Inv'
  <2>1. \A g \in Handlers : g # h => ~IsResizer(g)
    BY <1>14, <1>i DEF Store, Proceed, Alone, IsResizer, Resizing
  <2>2. pc[h] = "store" /\ \E l \in {"idle", "failed", "stampgroup"} :
           pc' = [pc EXCEPT ![h] = l] /\ (ok[h] => l = "stampgroup")
    BY <1>14, <1>u DEF Store, Proceed
  <2>3. members' = copy[h] /\ rows' = rows /\ groupAge' = groupAge
        /\ status' = (IF ok[h] THEN "COMPLETE" ELSE "FAILED")
        /\ rest' = (IF ok[h] THEN 0 ELSE rest)
    BY <1>14 DEF Store
  <2>4. \A g \in Handlers : g # h =>
          caller'[g] = caller[g] /\ copy'[g] = copy[g] /\ was'[g] = was[g] /\ ok'[g] = ok[g]
    BY <1>14, <1>t DEF Store, Proceed, Forget, locals
  <2>5. Cooled'
    BY <2>1, <2>2, <2>3, <1>g, <1>i, <1>t DEF Cooled, IsResizer, Resizing
  <2>6. Accounted'
    BY <2>2, <2>3, <1>i DEF Current, Accounted
  <2>7. Alone' /\ Current'
    BY <2>1, <2>2, <2>4, <1>t DEF Alone, Current, IsResizer, HasLoaded, Resizing, Updater
  <2> QED BY <2>5, <2>6, <2>7
<1>15. ASSUME NEW h \in Handlers, StampGroup(h) PROVE Inv'
  <2>1. pc[h] = "stampgroup" /\ pc' = [pc EXCEPT ![h] = Returned(h)]
    BY <1>15 DEF StampGroup, Proceed
  <2>2. UNCHANGED <<locals, status, members, rows, rest>> /\ groupAge' = 0
    BY <1>15, <1>u DEF StampGroup, Proceed
  <2> QED
    BY <2>1, <2>2, <1>g, <1>i, <1>t, <1>u DEF locals, Alone, Current,
                          Accounted, Cooled, IsResizer, HasLoaded, Resizing, Updater
<1>16. ASSUME NEW h \in Handlers, StampPolicy(h) PROVE Inv'
  BY <1>16, <1>a, <1>l DEF StampPolicy
<1>17. ASSUME NEW h \in Handlers, Die(h) PROVE Inv'
  <2>1. pc[h] \notin {"store", "stampgroup"}
    BY <1>17 DEF Die
  <2> QED
    BY <1>17, <2>1, <1>t, <1>a DEF Die
<1>18. CASE Tick
  <2>1. groupAge <= rest => Older(groupAge) <= Older(rest)
    BY <1>g DEF Older
  <2>2. rest > GroupCooldown => Older(rest) > GroupCooldown
    BY <1>g DEF Older
  <2> HIDE DEF Older
  <2> QED
    BY <1>18, <2>1, <2>2, <1>i DEF Tick, locals, Alone, Current,
                          Accounted, Cooled, IsResizer, HasLoaded, Updater
<1>19. CASE UNCHANGED vars
  BY <1>19, <1>i DEF vars, locals, Alone, Current, Accounted, Cooled, IsResizer, HasLoaded, Updater
<1>20. ASSUME NEW h \in Handlers, GroupsTurn(h) PROVE Inv'
  BY <1>20, <1>a, <1>k, <1>l DEF GroupsTurn
<1>21. ASSUME NEW h \in Handlers, GroupComplete(h) PROVE Inv'
  BY <1>21, <1>a, <1>k, <1>l DEF GroupComplete
<1>22. ASSUME NEW h \in Handlers, GroupFails(h) PROVE Inv'
  BY <1>22, <1>i DEF GroupFails, locals, Alone, Current, Accounted, Cooled, IsResizer,
                          HasLoaded, Updater
<1>23. ASSUME NEW h \in Handlers, RollBack(h) PROVE Inv'
  BY <1>23, <1>i, <1>t DEF RollBack, Broken, Alone, Current, Accounted, Cooled, IsResizer,
                          HasLoaded, Resizing, Updater
<1>24. ASSUME NEW h \in Handlers, Succeed(h) PROVE Inv'
  BY <1>24, <1>a, <1>k, <1>l DEF Succeed
<1>25. ASSUME NEW h \in Handlers, Fail(h) PROVE Inv'
  <2>1. pc[h] \in Labels \ {"store", "stampgroup"}
    BY <1>25, <1>l DEF Fail, Broken
  <2> QED BY <1>25, <2>1, <1>a, <1>k, <1>l DEF Fail
<1> QED
  BY <1>1, <1>2, <1>3, <1>4, <1>5, <1>6, <1>7, <1>8, <1>9, <1>10, <1>11, <1>12,
     <1>13, <1>14, <1>15, <1>16, <1>17, <1>18, <1>19, <1>20, <1>21, <1>22, <1>23,
     <1>24, <1>25 DEF Next, Adjust, UpdateTask

(* A COMPLETE nested stack has the instances its stored template names, as *)
(* long as no two resizes overlap: neither an instance without a name nor  *)
(* a name without an instance (Stack.update_task).                         *)
THEOREM AlwaysAccounted == Spec => []InstancesAccounted
<1>1. Separate => InstancesAccounted
  BY DEF Separate, Accounted, InstancesAccounted
<1> QED BY InitTyped, NextTyped, InitSeparate, NextSeparate, <1>1, PTL DEF Spec

(* The cooldown holds: as long as no two resizes overlap, none touches an  *)
(* instance until the last successful one is older than the Cooldown       *)
(* (adjust, _cooldown_inprogress).                                         *)
THEOREM AlwaysCooled == Spec => CooldownKept
<1>1. ASSUME Typed, Separate, [Next]_vars, ~muddled, GroupCooldown # 0, rows' # rows
      PROVE  rest > GroupCooldown
  <2>1. PICK h \in Handlers : pc[h] = "apply"
    BY <1>1 DEF Next, Adjust, UpdateTask, Signal, UpdateStack, PolicyCools, PolicyFree, GroupsTurn,
         UpdateTarget, GroupComplete, GroupFails, RollBack, Succeed, Fail, Flip,
         GroupCools, GroupFree, Decide, TemplateRefused, BeginRefused, Begin, Apply, Store,
         StampGroup, StampPolicy, Die, Tick, NestedSame, Goto, vars
  <2> QED BY <1>1, <2>1 DEF Separate, Cooled
<1>2. Typed /\ Separate /\ [Next]_vars =>
        [~muddled /\ GroupCooldown # 0 /\ rows' # rows => rest > GroupCooldown]_vars
  BY <1>1
<1> QED BY InitTyped, NextTyped, InitSeparate, NextSeparate, <1>2, PTL DEF Spec, CooldownKept

-----------------------------------------------------------------------------
(***************************************************************************)
(* The bounds of the group.                                                *)
(***************************************************************************)
Within(n, p) == n \in p.min .. p.max

OneUpdate ==
  \A g, h \in Handlers : Updater(g) /\ Updater(h) => g = h

(* A stack is IN_PROGRESS until its update comes to state_set. *)
AtWork ==
  \A h \in Handlers : Updater(h) /\ pc[h] # "flip" => stack = "IN_PROGRESS"

(* Nothing names an instance that is still to be created. *)
NoneFresh ==
  /\ members \cap fresh = {}
  /\ \A h \in Handlers : copy[h] \cap fresh = {}

(* What a resize asks for, and what its template then names, is allowed by *)
(* the properties it works with.                                           *)
Allowed ==
  \A h \in Handlers :
    /\ pc[h] \in {"begin", "apply"} => Within(size[h], Given(h))
    /\ pc[h] = "store" => Within(Cardinality(copy[h]), Given(h))

(* Where an update has not resized the group yet, ...                      *)
Before == {"turn", "target", "group", "load", "begin", "refused"}

(* ... and where it has, if the group was to be resized at all.            *)
After == {"stampgroup", "settle", "done", "failed", "flip"}

(* What the update of handler h does to the group: it takes it from what   *)
(* the former properties allow to what the new ones do, and a rollback     *)
(* begins with the nested stack as the update has left it.                 *)
Takes(h) ==
  /\ pc[h] \in Before => Within(Cardinality(members), Former(h))
  /\ pc[h] \in After => Within(Cardinality(members), Given(h))
  /\ pc[h] \in {"group", "load"} => copy[h] = members /\ Within(size[h], Given(h))
  /\ pc[h] \in {"turn", "target"} /\ caller[h] = Rollback => copy[h] = members
  /\ pc[h] \in {"stampgroup", "settle", "done"} /\ caller[h] = Update => copy[h] = members

(* A signal works with the stored properties, which the group keeps to     *)
(* between updates.                                                        *)
Following ==
  ~loose =>
    /\ ~Updating => Within(Cardinality(members), stored)
    /\ \A h \in Handlers : pc[h] # "idle" /\ ~Updater(h) => props[h] = stored
    /\ \A h \in Handlers : Updater(h) => Takes(h)

InBounds == OneUpdate /\ AtWork /\ NoneFresh /\ Allowed /\ Following

(* A resize from a set of instances to a capacity names that many.         *)
LEMMA PlanSize ==
  ASSUME NEW S \in SUBSET Instances, NEW n \in Nat, S \cap fresh = {}, fresh \subseteq Instances,
         NEW keep \in Youngest(S, n),
         NEW new \in Upcoming(IF n > Cardinality(S) THEN n - Cardinality(S) ELSE 0)
  PROVE  Cardinality(keep \cup new) = n
<1>1. /\ keep \in SUBSET S
      /\ Cardinality(keep) = (IF n < Cardinality(S) THEN n ELSE Cardinality(S))
  BY DEF Youngest
<1>2. /\ new \in SUBSET fresh
      /\ Cardinality(new) = (IF n > Cardinality(S) THEN n - Cardinality(S) ELSE 0)
  BY DEF Upcoming
<1>3. /\ IsFiniteSet(keep) /\ IsFiniteSet(new)
      /\ Cardinality(S) \in Nat /\ Cardinality(keep) \in Nat /\ Cardinality(new) \in Nat
  BY <1>1, <1>2, Finite
<1>4. keep \cap new = {}
  BY <1>1, <1>2
<1>5. Cardinality(keep \cap new) = 0
  BY <1>4, FS_EmptySet
<1>6. Cardinality(keep \cup new) = Cardinality(keep) + Cardinality(new) - Cardinality(keep \cap new)
  BY <1>3, FS_Union
<1> QED BY <1>1, <1>2, <1>3, <1>5, <1>6

LEMMA InitInBounds == Init => InBounds
<1> SUFFICES ASSUME Init PROVE InBounds
  OBVIOUS
<1>1. PICK p \in Properties, S \in SUBSET Instances :
        /\ Cardinality(S) = (IF p.desired # NoDesired THEN p.desired ELSE p.min)
        /\ stored = p /\ members = S /\ fresh = Instances \ S
  BY DEF Init
<1>2. \A h \in Handlers : pc[h] = "idle" /\ caller[h] = Nobody /\ copy[h] = {}
  BY DEF Init
<1>3. Within(Cardinality(members), stored)
  BY <1>1, PropertiesTyped DEF Within
<1>4. \A h \in Handlers : ~Updater(h)
  BY <1>2 DEF Nobody, Update, Rollback, Updater
<1>5. OneUpdate /\ AtWork /\ NoneFresh /\ Allowed
  BY <1>1, <1>2, <1>4 DEF OneUpdate, AtWork, NoneFresh, Allowed
<1> QED BY <1>2, <1>3, <1>4, <1>5 DEF InBounds, Following

(* A step of handler h leaves the other handlers alone, ...                *)
Others(h) ==
  \A g \in Handlers : g # h =>
    /\ pc'[g] = pc[g] /\ caller'[g] = caller[g] /\ props'[g] = props[g]
    /\ copy'[g] = copy[g] /\ size'[g] = size[g]

(* ... and this is what is left to show of one that changes neither the    *)
(* stored properties nor the nested stack's template.                      *)
LEMMA OwnStep ==
  ASSUME InBounds, NEW h \in Handlers, Others(h),
         UNCHANGED <<stored, members>>, fresh' \subseteq fresh,
         loose => loose',
         Updater(h)' => Updater(h),
         stack' = stack \/ Updater(h),
         Updater(h)' /\ pc'[h] # "flip" => stack' = "IN_PROGRESS",
         copy'[h] \cap fresh' = {},
         pc'[h] \in {"begin", "apply"} => Within(size'[h], Given(h)'),
         pc'[h] = "store" => Within(Cardinality(copy'[h]), Given(h)'),
         ~loose' /\ ~Updating' => Within(Cardinality(members), stored),
         ~loose' /\ pc'[h] # "idle" /\ ~Updater(h)' => props'[h] = stored,
         ~loose' /\ Updater(h)' => Takes(h)'
  PROVE  InBounds'
<1>1. \A g \in Handlers : g # h =>
        /\ pc'[g] = pc[g] /\ props'[g] = props[g] /\ copy'[g] = copy[g] /\ size'[g] = size[g]
        /\ Updater(g)' = Updater(g) /\ Given(g)' = Given(g) /\ Former(g)' = Former(g)
        /\ caller'[g] = caller[g]
  BY DEF Others, Updater, Given, Former
<1>2. OneUpdate /\ AtWork /\ NoneFresh /\ Allowed /\ Following
  BY DEF InBounds
<1>3. OneUpdate'
  BY <1>1, <1>2 DEF OneUpdate
<1>4. AtWork'
  BY <1>1, <1>2 DEF AtWork, OneUpdate
<1>5. NoneFresh'
  BY <1>1, <1>2 DEF NoneFresh
<1>6. Allowed'
  BY <1>1, <1>2 DEF Allowed
<1>7. \A g \in Handlers : g # h => Takes(g)' = Takes(g)
  BY <1>1 DEF Takes
<1>8. Following'
  BY <1>1, <1>2, <1>7 DEF Following
<1> QED BY <1>3, <1>4, <1>5, <1>6, <1>8 DEF InBounds

(* A step of handler h that keeps what it has loaded, or drops all of it.  *)
LEMMA Moves ==
  ASSUME Typed, NEW h \in Handlers, NEW from, NEW to, Proceed(h, from, to)
  PROVE  /\ Others(h) /\ pc[h] = from /\ pc'[h] = to
         /\ to # "idle" => /\ caller'[h] = caller[h] /\ props'[h] = props[h]
                           /\ copy'[h] = copy[h] /\ size'[h] = size[h]
                           /\ Updater(h)' = Updater(h)
         /\ to = "idle" => copy'[h] = {} /\ ~Updater(h)'
<1>1. h \in DOMAIN pc /\ h \in DOMAIN caller /\ h \in DOMAIN copy
  BY DEF Typed, TypeOK
<1>2. Nobody \notin {Update, Rollback}
  BY DEF Nobody, Update, Rollback
<1>3. pc[h] = from /\ pc' = [pc EXCEPT ![h] = to] /\ pc'[h] = to
  BY <1>1 DEF Proceed, Goto
<1>4. CASE to # "idle"
  <2>1. UNCHANGED <<caller, props, copy, size>>
    BY <1>4 DEF Proceed, locals
  <2>2. Others(h)
    BY <1>3, <2>1 DEF Others
  <2> QED BY <1>3, <1>4, <2>1, <2>2 DEF Updater
<1>5. CASE to = "idle"
  <2>1. /\ copy' = [copy EXCEPT ![h] = {}] /\ caller' = [caller EXCEPT ![h] = Nobody]
        /\ props' = [props EXCEPT ![h] = NoProps] /\ size' = [size EXCEPT ![h] = 0]
    BY <1>5 DEF Proceed, Forget
  <2>2. Others(h)
    BY <1>3, <2>1 DEF Others
  <2> QED BY <1>1, <1>2, <1>3, <1>5, <2>1, <2>2 DEF Updater
<1> QED BY <1>3, <1>4, <1>5

LEMMA NextInBounds == Typed /\ InBounds /\ [Next]_vars => InBounds'
<1> SUFFICES ASSUME Typed, InBounds, [Next]_vars PROVE InBounds'
  OBVIOUS
<1>u. \A h \in Handlers :
        /\ Updater(h) => Returned(h) = "settle" /\ \A how : Raised(h, how) = how
        /\ ~Updater(h) => Returned(h) = "stamppolicy" /\ \A how : Raised(h, how) = "idle"
  BY DEF Returned, Raised
<1>t. \A h \in Handlers :
        /\ h \in DOMAIN pc /\ h \in DOMAIN caller /\ h \in DOMAIN props
        /\ h \in DOMAIN copy /\ h \in DOMAIN size
  BY DEF Typed, TypeOK
<1>n. \A p \in Policies \cup {Nobody} : p \notin {Update, Rollback}
  BY PoliciesAssumption DEF Nobody, Update, Rollback
<1>p. \A h \in Handlers :
        /\ pc[h] \in {"policy", "stamppolicy", "idle"} => ~Updater(h)
        /\ pc[h] \in Task => Updater(h)
  BY <1>n DEF Typed, Roles, Updater
<1>k. Task = {"turn", "target", "settle", "done", "refused", "failed", "flip"}
  BY DEF Task
<1>b. OneUpdate /\ AtWork /\ NoneFresh /\ Allowed /\ Following
  BY DEF InBounds
<1>s. ~loose => \A h \in Handlers :
        /\ ~Updating => Within(Cardinality(members), stored)
        /\ pc[h] # "idle" /\ ~Updater(h) => props[h] = stored
        /\ Updater(h) => Takes(h)
  BY <1>b DEF Following
<1>f. \A h \in Handlers : copy[h] \cap fresh = {}
  BY <1>b DEF NoneFresh
<1>w. \A h \in Handlers : Updater(h) => Updating /\ (pc[h] # "flip" => stack = "IN_PROGRESS")
  BY <1>b DEF AtWork, Updating
<1>g. \A h \in Handlers :
        UNCHANGED <<stored>> /\ caller'[h] = caller[h] /\ props'[h] = props[h] =>
          /\ Given(h)' = Given(h) /\ Former(h)' = Former(h) /\ Updater(h)' = Updater(h)
  BY DEF Given, Former, Updater
<1>x. \A h \in Handlers : stack' = stack /\ (Updater(h)' <=> Updater(h)) /\ Others(h)
        /\ ~Updating' => ~Updating
  BY DEF Updating, Others, Updater
<1> USE DEF StackSame, NestedSame, AgesSame, HistorySame
<1>1. ASSUME NEW h \in Handlers, NEW p \in Policies, Signal(h, p) PROVE InBounds'
  <2>1. /\ pc[h] = "idle" /\ pc'[h] = "policy" /\ Others(h) /\ copy' = copy
        /\ caller'[h] = p /\ props'[h] = stored /\ UNCHANGED <<stored, stack, members, fresh, loose>>
    BY <1>1, <1>t DEF Signal, Goto, Others
  <2>2. ~Updater(h) /\ ~Updater(h)'
    BY <2>1, <1>n, <1>p DEF Updater
  <2> QED BY <2>1, <2>2, <1>f, <1>s, <1>x, OwnStep
<1>2. ASSUME NEW h \in Handlers, NEW p \in Properties, UpdateStack(h, p) PROVE InBounds'
  <2>1. /\ pc[h] = "idle" /\ pc' = [pc EXCEPT ![h] = "turn"] /\ ~Updating
        /\ caller' = [caller EXCEPT ![h] = Update] /\ props' = [props EXCEPT ![h] = p]
        /\ stack' = "IN_PROGRESS"
        /\ UNCHANGED <<stored, members, fresh, loose, copy, size>>
    BY <1>2 DEF UpdateStack, Goto
  <2>2. \A g \in Handlers : ~Updater(g) /\ (Updater(g)' => g = h)
    BY <2>1, <1>t DEF Updating, Updater
  <2>3. OneUpdate' /\ AtWork' /\ NoneFresh'
    BY <2>1, <2>2, <1>b DEF OneUpdate, AtWork, NoneFresh
  <2>4. Allowed'
    BY <2>1, <2>2, <1>b, <1>t DEF Allowed, Given, Updater
  <2>5. ~loose => Takes(h)'
    BY <2>1, <1>s, <1>t DEF Takes, Before, After, Former, Update, Rollback
  <2>6. Following'
    <3>1. Updater(h)' /\ Updating'
      BY <2>1, <1>t DEF Updater, Updating
    <3>2. \A g \in Handlers : g # h => pc'[g] = pc[g] /\ props'[g] = props[g]
      BY <2>1
    <3> QED BY <2>1, <2>2, <2>5, <3>1, <3>2, <1>b DEF Following
  <2> QED BY <2>3, <2>4, <2>6 DEF InBounds
<1>3. ASSUME NEW h \in Handlers, PolicyCools(h) PROVE InBounds'
  <2>1. Proceed(h, "policy", "idle") /\ UNCHANGED <<stored, stack, members, fresh, loose>>
    BY <1>3 DEF PolicyCools
  <2> QED BY <2>1, <1>f, <1>p, <1>s, <1>x, Moves, OwnStep
<1>4. ASSUME NEW h \in Handlers, PolicyFree(h) PROVE InBounds'
  <2>1. Proceed(h, "policy", "group") /\ UNCHANGED <<stored, stack, members, fresh, loose>>
    BY <1>4 DEF PolicyFree
  <2> QED BY <2>1, <1>f, <1>p, <1>s, <1>x, Moves, OwnStep
<1>5. ASSUME NEW h \in Handlers, UpdateTarget(h) PROVE InBounds'
  <2> DEFINE c == Cardinality(copy'[h])
             t == Target(Former(h), Given(h), c)
  <2>1. /\ pc[h] = "target" /\ pc'[h] = (IF t = c THEN "settle" ELSE "group")
        /\ size'[h] = t /\ Others(h)
        /\ caller'[h] = caller[h] /\ props'[h] = props[h]
        /\ UNCHANGED <<loose, members, stored, stack, fresh>>
        /\ copy'[h] = (IF caller[h] = Rollback THEN copy[h] ELSE members)
    BY <1>5, <1>t DEF UpdateTarget, Loaded, Goto, Others
  <2>2. Updater(h) /\ Given(h) \in Properties /\ Former(h) \in Properties
    BY <2>1, <1>p, <1>k DEF Typed, TypeOK, Roles, Given, Former
  <2>3. ~loose => Within(Cardinality(members), Former(h)) /\ copy'[h] = members
    BY <2>1, <2>2, <1>s DEF Takes, Before
  <2>4. ~loose => Within(t, Given(h))
    BY <2>2, <2>3, TargetWithinBounds DEF Within
  <2> HIDE DEF t
  <2>5. ~loose => Takes(h)'
    BY <2>1, <2>2, <2>3, <2>4, <1>g DEF Takes, Before, After
  <2>6. copy'[h] \cap fresh' = {}
    BY <2>1, <1>b DEF NoneFresh
  <2> QED BY <2>1, <2>2, <2>5, <2>6, <1>g, <1>w, <1>x, <1>s, OwnStep
<1>6. ASSUME NEW h \in Handlers, Flip(h) PROVE InBounds'
  <2>1. /\ Proceed(h, "flip", "idle") /\ stored' = Given(h) /\ UNCHANGED <<stack, members, fresh>>
        /\ loose' = (loose \/ (/\ caller[h] = Update
                               /\ \E g \in Handlers \ {h} : pc[g] # "idle"))
    BY <1>6 DEF Flip
  <2>2. /\ pc[h] = "flip" /\ pc'[h] = "idle" /\ Others(h) /\ copy'[h] = {} /\ ~Updater(h)'
        /\ Updater(h)
    BY <2>1, <1>p, <1>k, Moves
  <2>3. \A g \in Handlers : ~Updater(g)' /\ (g # h => ~Updater(g))
    BY <2>2, <1>b DEF OneUpdate, Others, Updater
  <2>4. CASE caller[h] = Rollback
    BY <2>1, <2>2, <2>3, <2>4, <1>f, <1>s, OwnStep DEF Given, Takes, After
  <2>5. CASE caller[h] = Update
    <3>1. OneUpdate' /\ AtWork'
      BY <2>3 DEF OneUpdate, AtWork
    <3>2. NoneFresh'
      BY <2>1, <2>2, <1>b DEF NoneFresh, Others
    <3>3. \A g \in Handlers : g # h => Given(g)' = Given(g)
      BY <2>2, <2>3 DEF Given, Others, Updater
    <3>4. Allowed'
      BY <2>2, <3>3, <1>b DEF Allowed, Others
    <3>5. ASSUME ~loose' PROVE Within(Cardinality(members), stored')
      BY <2>1, <2>2, <3>5, <1>s DEF Takes, After
    <3>6. ASSUME ~loose', NEW g \in Handlers PROVE pc'[g] = "idle"
      BY <2>1, <2>2, <2>5, <3>6 DEF Others
    <3>7. Following'
      BY <2>1, <2>3, <3>5, <3>6 DEF Following
    <3> QED BY <3>1, <3>2, <3>4, <3>7 DEF InBounds
  <2> QED BY <2>2, <2>4, <2>5 DEF Updater
<1>7. ASSUME NEW h \in Handlers, GroupCools(h) PROVE InBounds'
  <2>1. /\ Proceed(h, "group", Returned(h)) /\ UNCHANGED <<stored, stack, members, fresh>>
        /\ loose' = (loose \/ Updater(h))
    BY <1>7 DEF GroupCools
  <2>2. /\ pc[h] = "group" /\ pc'[h] \in {"settle", "stamppolicy"} /\ Others(h)
        /\ props'[h] = props[h] /\ copy'[h] = copy[h] /\ Updater(h)' = Updater(h)
    BY <2>1, <1>u, Moves
  <2>3. loose => loose'
    BY <2>1
  <2> QED BY <2>1, <2>2, <2>3, <1>f, <1>s, <1>w, <1>x, OwnStep
<1>8. ASSUME NEW h \in Handlers, GroupFree(h) PROVE InBounds'
  <2>1. Proceed(h, "group", "load") /\ UNCHANGED <<stored, stack, members, fresh, loose>>
    BY <1>8 DEF GroupFree
  <2>2. /\ pc[h] = "group" /\ pc'[h] = "load" /\ Others(h) /\ caller'[h] = caller[h]
        /\ props'[h] = props[h] /\ copy'[h] = copy[h] /\ size'[h] = size[h]
        /\ Updater(h)' = Updater(h)
    BY <2>1, Moves
  <2>3. ~loose /\ Updater(h) => Takes(h)'
    BY <2>1, <2>2, <1>s, <1>g DEF Takes, Before, After
  <2> QED BY <2>1, <2>2, <2>3, <1>f, <1>s, <1>w, <1>x, OwnStep
<1>9. ASSUME NEW h \in Handlers, Decide(h) PROVE InBounds'
  <2> DEFINE c == Cardinality(copy'[h])
             wanted == IF Updater(h) THEN Wanted("ExactCapacity", size[h], c)
                       ELSE Wanted(AdjustmentType[caller[h]], ScalingAdjustment[caller[h]], c)
             new == Bounded(wanted, c, Given(h))
  <2>1. /\ pc[h] = "load" /\ size' = [size EXCEPT ![h] = new]
        /\ pc' = [pc EXCEPT ![h] = IF new = c THEN Returned(h) ELSE "begin"]
        /\ UNCHANGED <<caller, props, loose, members, stored, stack, fresh>>
    BY <1>9 DEF Decide, Goto
  <2>2. /\ Others(h)
        /\ copy'[h] = (IF Updater(h) THEN copy[h] ELSE members)
    BY <1>9, <1>t DEF Decide, Loaded, Goto, Others
  <2>3. copy'[h] \subseteq Instances /\ c \in Nat
    BY <2>2, Finite DEF Typed, TypeOK
  <2>4. Given(h) \in Properties /\ caller[h] \in Policies \cup {Update, Rollback}
    BY <2>1 DEF Typed, TypeOK, Roles, Given
  <2>5. wanted \in Int
    <3>1. CASE Updater(h)
      <4>1. size[h] \in Int
        BY DEF Typed, TypeOK
      <4> QED BY <3>1, <4>1, <2>3, WantedInt
    <3>2. CASE ~Updater(h)
      <4>1. ScalingAdjustment[caller[h]] \in Int
        BY <2>4, <3>2, AdjustmentAssumption DEF Updater
      <4> QED BY <3>2, <4>1, <2>3, WantedInt
    <3> QED BY <3>1, <3>2
  <2>6. new # c => Within(new, Given(h))
    BY <2>3, <2>4, <2>5, ResizeWithinBounds DEF Within
  <2>7. ASSUME Updater(h), ~loose
        PROVE  copy'[h] = members /\ new = size[h] /\ Within(new, Given(h))
               /\ Within(Cardinality(members), Former(h))
    <3>1. copy[h] = members /\ Within(size[h], Given(h)) /\ Within(Cardinality(members), Former(h))
      BY <2>1, <2>7, <1>s DEF Takes, Before
    <3>2. wanted = size[h] /\ new = size[h]
      BY <2>7, <3>1, <2>3, <2>4, ExactBounded DEF Within
    <3> QED BY <2>2, <2>7, <3>1, <3>2
  <2> HIDE DEF new, wanted
  <2>8. pc'[h] \in {"settle", "stamppolicy", "begin"} /\ size'[h] = new
        /\ (pc'[h] = "settle" => new = c) /\ (pc'[h] = "begin" => new # c)
    BY <2>1, <1>t, <1>u
  <2>9. Updater(h) /\ ~loose => Takes(h)'
    BY <2>1, <2>7, <2>8, <1>g DEF Takes, Before, After
  <2>10. copy'[h] \cap fresh' = {}
    BY <2>1, <2>2, <1>b DEF NoneFresh
  <2> QED BY <2>1, <2>2, <2>6, <2>8, <2>9, <2>10, <1>g, <1>s, <1>w, <1>x, OwnStep
<1>10. ASSUME NEW h \in Handlers, TemplateRefused(h) PROVE InBounds'
  <2>1. /\ Proceed(h, "begin", Raised(h, "refused"))
        /\ UNCHANGED <<stored, stack, members, fresh, loose>>
    BY <1>10 DEF TemplateRefused
  <2>2. CASE Updater(h)
    <3>1. Proceed(h, "begin", "refused")
      BY <2>1, <2>2, <1>u
    <3>2. ~loose => Takes(h)'
      BY <2>1, <2>2, <3>1, <1>s, <1>g, Moves DEF Takes, Before, After
    <3> QED BY <2>1, <2>2, <3>1, <3>2, <1>f, <1>s, <1>w, <1>x, Moves, OwnStep
  <2>3. CASE ~Updater(h)
    <3>1. Proceed(h, "begin", "idle")
      BY <2>1, <2>3, <1>u
    <3> QED BY <2>1, <2>3, <3>1, <1>f, <1>s, <1>x, Moves, OwnStep
  <2> QED BY <2>2, <2>3
<1>11. ASSUME NEW h \in Handlers, BeginRefused(h) PROVE InBounds'
  <2>1. /\ Proceed(h, "begin", Raised(h, "refused"))
        /\ UNCHANGED <<stored, stack, members, fresh, loose>>
    BY <1>11 DEF BeginRefused
  <2>2. CASE Updater(h)
    <3>1. Proceed(h, "begin", "refused")
      BY <2>1, <2>2, <1>u
    <3>2. ~loose => Takes(h)'
      BY <2>1, <2>2, <3>1, <1>s, <1>g, Moves DEF Takes, Before, After
    <3> QED BY <2>1, <2>2, <3>1, <3>2, <1>f, <1>s, <1>w, <1>x, Moves, OwnStep
  <2>3. CASE ~Updater(h)
    <3>1. Proceed(h, "begin", "idle")
      BY <2>1, <2>3, <1>u
    <3> QED BY <2>1, <2>3, <3>1, <1>f, <1>s, <1>x, Moves, OwnStep
  <2> QED BY <2>2, <2>3
<1>12. ASSUME NEW h \in Handlers, Begin(h) PROVE InBounds'
  <2>1. Proceed(h, "begin", "apply") /\ UNCHANGED <<stored, stack, members, fresh, loose>>
    BY <1>12 DEF Begin
  <2>2. Within(size'[h], Given(h)')
    BY <2>1, <1>b, <1>g, Moves DEF Allowed
  <2>3. Takes(h)'
    BY <2>1, Moves DEF Takes, Before, After
  <2> QED BY <2>1, <2>2, <2>3, <1>f, <1>s, <1>w, <1>x, <1>g, Moves, OwnStep
<1>13. ASSUME NEW h \in Handlers, Apply(h) PROVE InBounds'
  <2>1. PICK keep \in Youngest(copy[h], size[h]), new \in Upcoming(Missing(h)) :
          /\ fresh' = fresh \ new
          /\ copy' = [copy EXCEPT ![h] = keep \cup new]
    BY <1>13 DEF Apply
  <2>2. /\ pc[h] = "apply" /\ pc' = [pc EXCEPT ![h] = "store"]
        /\ size' = [size EXCEPT ![h] = 0]
        /\ UNCHANGED <<stored, stack, members, caller, props, loose>>
    BY <1>13 DEF Apply, Goto
  <2>3. /\ copy[h] \subseteq Instances /\ fresh \subseteq Instances /\ size[h] \in Nat
        /\ copy[h] \cap fresh = {}
    BY <1>b DEF Typed, TypeOK, NoneFresh
  <2>4. Cardinality(keep \cup new) = size[h]
    BY <2>3, PlanSize DEF Missing
  <2>5. copy'[h] = keep \cup new /\ pc'[h] = "store" /\ Others(h)
    BY <2>1, <2>2, <1>t DEF Others
  <2>6. Within(Cardinality(copy'[h]), Given(h)')
    BY <2>2, <2>4, <2>5, <1>b, <1>g DEF Allowed
  <2>7. copy'[h] \cap fresh' = {}
    <3>1. keep \subseteq copy[h]
      BY DEF Youngest
    <3> QED BY <2>1, <2>3, <2>5, <3>1
  <2>8. Takes(h)'
    BY <2>5 DEF Takes, Before, After
  <2> QED BY <2>1, <2>2, <2>5, <2>6, <2>7, <2>8, <1>g, <1>s, <1>w, <1>x, OwnStep
<1>14. ASSUME NEW h \in Handlers, Store(h) PROVE InBounds'
  <2>1. /\ Proceed(h, "store", IF ok[h] THEN "stampgroup" ELSE Raised(h, "failed"))
        /\ members' = copy[h] /\ UNCHANGED <<stored, stack, fresh>>
        /\ loose' = (loose \/ (~Updater(h) /\ Updating))
    BY <1>14 DEF Store
  <2>2. /\ pc[h] = "store" /\ Others(h) /\ pc'[h] \in {"stampgroup", "failed", "idle"}
        /\ pc'[h] # "idle" => /\ caller'[h] = caller[h] /\ props'[h] = props[h]
                              /\ copy'[h] = copy[h] /\ Updater(h)' = Updater(h)
        /\ pc'[h] = "idle" => copy'[h] = {} /\ ~Updater(h)'
        /\ Updater(h) => pc'[h] # "idle"
        /\ ~Updater(h) => pc'[h] # "failed"
    BY <2>1, <1>u, Moves
  <2>3. Within(Cardinality(members'), Given(h))
    BY <2>1, <2>2, <1>b DEF Allowed
  <2>4. \A g \in Handlers : g # h =>
          /\ Updater(g)' = Updater(g) /\ Given(g)' = Given(g) /\ Former(g)' = Former(g)
          /\ pc'[g] = pc[g] /\ props'[g] = props[g] /\ copy'[g] = copy[g] /\ size'[g] = size[g]
    BY <2>1, <2>2 DEF Others, Updater, Given, Former
  <2>5. \A g \in Handlers : Updater(g)' => Updater(g) /\ (g = h => pc'[h] # "flip")
    BY <2>2, <2>4
  <2>6. OneUpdate' /\ AtWork'
    <3>1. OneUpdate'
      BY <2>5, <1>b DEF OneUpdate
    <3>2. AtWork'
      BY <2>1, <2>2, <2>4, <2>5, <1>b DEF AtWork
    <3> QED BY <3>1, <3>2
  <2>7. NoneFresh'
    BY <2>1, <2>2, <2>4, <1>b DEF NoneFresh
  <2>8. Allowed'
    BY <2>2, <2>4, <1>b DEF Allowed
  <2>9. CASE Updater(h)
    <3>1. \A g \in Handlers : g # h => ~Updater(g)'
      BY <2>4, <2>9, <1>b DEF OneUpdate
    <3>2. Updater(h)' /\ Given(h)' = Given(h) /\ Takes(h)'
      BY <2>1, <2>2, <2>3, <2>9, <1>g DEF Takes, Before, After
    <3>3. Following'
      BY <2>1, <2>2, <2>4, <2>9, <3>1, <3>2, <1>b DEF Following, Updating
    <3> QED BY <2>6, <2>7, <2>8, <3>3 DEF InBounds
  <2>10. CASE ~Updater(h)
    <3>1. ASSUME ~loose' PROVE /\ Within(Cardinality(members'), stored)
                               /\ \A g \in Handlers : ~Updater(g)'
      <4>1. ~Updating /\ ~loose
        BY <2>1, <2>10, <3>1
      <4>2. props[h] = stored /\ Given(h) = stored
        BY <2>2, <2>10, <4>1, <1>s DEF Given
      <4> QED BY <2>3, <2>5, <4>1, <4>2 DEF Updating
    <3>2. \A g \in Handlers : pc'[g] # "idle" => pc[g] # "idle" /\ props'[g] = props[g]
      BY <2>2, <2>4
    <3>3. Following'
      BY <2>1, <2>5, <2>10, <3>1, <3>2, <1>b DEF Following, Updating
    <3> QED BY <2>6, <2>7, <2>8, <3>3 DEF InBounds
  <2> QED BY <2>9, <2>10
<1>15. ASSUME NEW h \in Handlers, StampGroup(h) PROVE InBounds'
  <2>1. /\ Proceed(h, "stampgroup", Returned(h))
        /\ UNCHANGED <<stored, stack, members, fresh, loose>>
    BY <1>15 DEF StampGroup
  <2>2. Returned(h) \in {"settle", "stamppolicy"}
    BY DEF Returned
  <2>3. ~loose /\ Updater(h) => Takes(h)'
    BY <2>1, <2>2, <1>s, <1>g, <1>u, Moves DEF Takes, Before, After
  <2> QED BY <2>1, <2>2, <2>3, <1>f, <1>s, <1>w, <1>x, <1>g, Moves, OwnStep
<1>16. ASSUME NEW h \in Handlers, StampPolicy(h) PROVE InBounds'
  <2>1. Proceed(h, "stamppolicy", "idle") /\ UNCHANGED <<stored, stack, members, fresh, loose>>
    BY <1>16 DEF StampPolicy
  <2> QED BY <2>1, <1>f, <1>p, <1>s, <1>x, Moves, OwnStep
<1>17. ASSUME NEW h \in Handlers, Die(h) PROVE InBounds'
  <2>1. /\ Proceed(h, pc[h], "idle") /\ UNCHANGED <<stored, stack, members, fresh>>
        /\ loose' = (loose \/ (pc[h] = "flip" /\ caller[h] = Update))
    BY <1>17 DEF Die
  <2>2. Others(h) /\ pc'[h] = "idle" /\ copy'[h] = {} /\ ~Updater(h)'
    BY <2>1, Moves
  <2>3. ASSUME ~loose', ~Updating' PROVE Within(Cardinality(members), stored)
    <3>1. CASE Updater(h)
      <4>1. pc[h] = "flip" /\ caller[h] = Rollback
        BY <2>1, <2>3, <3>1, <1>w DEF Updating, Updater
      <4> QED BY <2>1, <2>3, <3>1, <4>1, <1>s DEF Takes, After, Given
    <3>2. CASE ~Updater(h)
      BY <2>1, <2>2, <2>3, <3>2, <1>s, <1>x
    <3> QED BY <3>1, <3>2
  <2> QED BY <2>1, <2>2, <2>3, OwnStep
<1>18. CASE Tick
  BY <1>18, <1>b DEF Tick, locals, InBounds, OneUpdate, AtWork, NoneFresh, Allowed, Following,
                     Takes, Updating, Updater, Given, Former
<1>19. CASE UNCHANGED vars
  BY <1>19, <1>b DEF vars, locals, InBounds, OneUpdate, AtWork, NoneFresh, Allowed, Following,
                     Takes, Updating, Updater, Given, Former
<1>20. ASSUME NEW h \in Handlers, GroupsTurn(h) PROVE InBounds'
  <2>1. Proceed(h, "turn", "target") /\ UNCHANGED <<stored, stack, members, fresh, loose>>
    BY <1>20 DEF GroupsTurn
  <2>2. ~loose /\ Updater(h) => Takes(h)'
    BY <2>1, <1>s, <1>g, Moves DEF Takes, Before, After
  <2> QED BY <2>1, <2>2, <1>f, <1>s, <1>w, <1>x, Moves, OwnStep
<1>21. ASSUME NEW h \in Handlers, GroupComplete(h) PROVE InBounds'
  <2>1. Proceed(h, "settle", "done") /\ UNCHANGED <<stored, stack, members, fresh, loose>>
    BY <1>21 DEF GroupComplete
  <2>2. ~loose /\ Updater(h) => Takes(h)'
    BY <2>1, <1>s, <1>g, Moves DEF Takes, Before, After
  <2> QED BY <2>1, <2>2, <1>f, <1>s, <1>w, <1>x, Moves, OwnStep
<1>22. ASSUME NEW h \in Handlers, GroupFails(h) PROVE InBounds'
  BY <1>22, <1>b DEF GroupFails, locals, InBounds, OneUpdate, AtWork, NoneFresh, Allowed,
                     Following, Takes, Updating, Updater, Given, Former
<1>23. ASSUME NEW h \in Handlers, RollBack(h) PROVE InBounds'
  <2>1. /\ caller[h] = Update /\ caller'[h] = Rollback /\ Others(h)
        /\ pc[h] \in {"turn", "settle", "done", "refused", "failed"}
        /\ pc'[h] = (IF pc[h] = "done" THEN "turn" ELSE "done")
        /\ loose' = (loose \/ pc[h] \in {"settle", "failed"})
        /\ UNCHANGED <<props, copy, size, stored, stack, members, fresh>>
    BY <1>23, <1>t DEF RollBack, Broken, Others
  <2>2. /\ Updater(h) /\ Updater(h)' /\ Given(h)' = Former(h) /\ Former(h)' = Given(h)
        /\ Former(h) = stored
    BY <2>1 DEF Updater, Given, Former, Update, Rollback
  <2>3. ~loose' => Takes(h)'
    BY <2>1, <2>2, <1>s DEF Takes, Before, After, Update, Rollback
  <2> QED BY <2>1, <2>2, <2>3, <1>f, <1>s, <1>w, <1>x, OwnStep
<1>24. ASSUME NEW h \in Handlers, Succeed(h) PROVE InBounds'
  <2>1. Proceed(h, "done", "flip") /\ UNCHANGED <<stored, members, fresh, loose>>
    BY <1>24 DEF Succeed
  <2>2. Updater(h) /\ Updater(h)' /\ Updating'
    BY <2>1, <1>p, <1>k, Moves DEF Updating
  <2>3. ~loose => Takes(h)'
    BY <2>1, <2>2, <1>s, <1>g, Moves DEF Takes, Before, After
  <2> QED BY <2>1, <2>2, <2>3, <1>f, Moves, OwnStep
<1>25. ASSUME NEW h \in Handlers, Fail(h) PROVE InBounds'
  <2>1. /\ Proceed(h, pc[h], "flip") /\ UNCHANGED <<stored, members, fresh>>
        /\ pc[h] \in {"turn", "settle", "done", "refused", "failed"}
        /\ loose' = (loose \/ pc[h] \in {"turn", "refused"})
    BY <1>25 DEF Fail, Broken
  <2>2. Updater(h) /\ Updater(h)' /\ Updating'
    BY <2>1, <1>p, <1>k, Moves DEF Updating
  <2>3. /\ Others(h) /\ pc'[h] = "flip" /\ copy'[h] = copy[h] /\ Given(h)' = Given(h)
    BY <2>1, <1>g, Moves
  <2>4. ~loose' => Within(Cardinality(members), Given(h))
    BY <2>1, <2>2, <1>s DEF Takes, After
  <2>5. ~loose' => Takes(h)'
    BY <2>1, <2>3, <2>4 DEF Takes, Before, After
  <2>6. loose => loose'
    BY <2>1
  <2> QED BY <2>1, <2>2, <2>3, <2>5, <2>6, <1>f, OwnStep
<1> QED
  BY <1>1, <1>2, <1>3, <1>4, <1>5, <1>6, <1>7, <1>8, <1>9, <1>10, <1>11, <1>12,
     <1>13, <1>14, <1>15, <1>16, <1>17, <1>18, <1>19, <1>20, <1>21, <1>22, <1>23,
     <1>24, <1>25 DEF Next, Adjust, UpdateTask

(* The group's template keeps to MinSize and MaxSize, whatever signals     *)
(* overlap and however updates of the stack end, rolled back or not,       *)
(* unless the properties changed around a signal or the group did not      *)
(* follow an update in one of the ways the property names (adjust,         *)
(* handle_update, Stack.update_task).                                      *)
THEOREM AlwaysWithinBounds == Spec => []TemplateWithinBounds
<1>1. InBounds => TemplateWithinBounds
  BY DEF InBounds, Following, Within, TemplateWithinBounds
<1> QED BY InitTyped, NextTyped, InitInBounds, NextInBounds, <1>1, PTL DEF Spec
=============================================================================
