----------------------------- MODULE ScalingGroup -----------------------------
(***************************************************************************)
(* An auto-scaling group, its nested stack and its scaling policies:       *)
(* CooldownMixin, AutoScalingGroup and ScalingPolicy of                    *)
(* heat/engine/resources/autoscaling.py, as EngineService.resource_signal, *)
(* run_alarm_action and a stack update call them.                          *)
(*                                                                         *)
(* A signal is handled without the stack lock, in a thread that has loaded *)
(* the stack for itself; a stack update holds the lock, which keeps other  *)
(* updates away but no signal.  Every read or write of the database is an  *)
(* action.  Times are ages, in ticks, cut off where they no longer matter. *)
(* A stack update that fails may be rolled back, which is a second update  *)
(* by the same handler, from the new template to the stored one.           *)
(***************************************************************************)
EXTENDS Integers, FiniteSets

CONSTANTS
  Policies,           \* scaling policies of the group
  AdjustmentType,     \* [Policies -> types of adjustment]
  ScalingAdjustment,  \* [Policies -> Int]
  Properties,         \* [min, max, desired] a template may give the group
  Instances,          \* bound: instances that can ever be created
  Handlers,           \* bound: signals and updates at work at once
  GroupCooldown,      \* Cooldown of the group in ticks, 0 if it has none
  WithCooldown        \* policies that have a Cooldown of their own

NoDesired == 0    \* DesiredCapacity is not given
Update    == "update"
Rollback  == "rollback"

ASSUME PoliciesAssumption == Policies \cap {Update, Rollback} = {}

ASSUME AdjustmentAssumption ==
  /\ AdjustmentType \in
       [Policies -> {"ChangeInCapacity", "ExactCapacity", "PercentChangeInCapacity"}]
  /\ ScalingAdjustment \in [Policies -> Int]

(* AutoScalingGroup.validate *)
ASSUME PropertiesAssumption ==
  \A p \in Properties :
    /\ p \in [min : Nat, max : Nat, desired : Nat]
    /\ p.min <= p.max
    /\ p.desired = NoDesired \/ p.desired \in p.min .. p.max

ASSUME InstancesAssumption == Instances \subseteq Nat /\ IsFiniteSet(Instances)

ASSUME CooldownAssumption == GroupCooldown \in Nat /\ WithCooldown \subseteq Policies

VARIABLES
  stored,     \* the group's properties in the stored template of the stack
  stack,      \* status of the stack
  group,      \* status of the group's own row
  status,     \* of the nested stack's row
  members,    \* instances the nested stack's stored template names
  rows,       \* instances there are (older ones have smaller numbers)
  fresh,      \* instances not created yet
  groupAge,   \* since the group's metadata was stamped
  cooling,    \* policies whose own metadata was stamped within their Cooldown
  pc,         \* where a handler is
  caller,     \* the policy it works for, or Update, or Rollback
  props,      \* the group's properties as the handler loaded them
  was,        \* the nested stack's status as the handler loaded it
  copy,       \* the instances of the nested stack as the handler has it
  size,       \* the capacity it has decided on
  ok,         \* whether its update of the nested stack succeeded
  muddled,    \* history: two resizes overlapped, or one died half-way
  loose,      \* history: the properties changed around the group or a signal
  rest        \* history: age of the last successful resize

locals == <<caller, props, was, copy, size, ok>>
vars == <<stored, stack, group, status, members, rows, fresh, groupAge, cooling, pc,
          locals, muddled, loose, rest>>

Labels == {"idle", "policy", "turn", "target", "group", "load", "begin",
           "apply", "store", "stampgroup", "stamppolicy", "refused", "failed",
           "settle", "done", "flip"}

Updater(h) == caller[h] \in {Update, Rollback}

Updating == stack = "IN_PROGRESS" \/ \E h \in Handlers : Updater(h)

(* The properties the group has as a handler works on it, ...              *)
Given(h) == IF caller[h] = Rollback THEN stored ELSE props[h]

(* ... and the ones an update takes it from.                               *)
Former(h) == IF caller[h] = Rollback THEN props[h] ELSE stored

(* Handlers from the moment they find the group free, or have loaded the   *)
(* nested stack, to the moment they stamp the group.                       *)
Resizing == {"load", "begin", "apply", "store", "stampgroup"}
Resizers ==
  {h \in Handlers : \/ pc[h] \in Resizing
                    \/ pc[h] = "group" /\ Updater(h)}

Goto(h, from, to) == pc[h] = from /\ pc' = [pc EXCEPT ![h] = to]

-----------------------------------------------------------------------------
(***************************************************************************)
(* The arithmetic of adjust.                                               *)
(***************************************************************************)

(* A percentage, given as hundredths of an instance: less than one         *)
(* instance is rounded away from zero, the rest towards it.                *)
Rounded(n) ==
  IF n > 0 THEN IF n < 100 THEN 1 ELSE n \div 100
  ELSE IF n < 0 THEN IF n > -100 THEN -1 ELSE -((-n) \div 100)
  ELSE 0

Wanted(type, by, capacity) ==
  CASE type = "ChangeInCapacity" -> capacity + by
    [] type = "ExactCapacity"    -> by
    [] OTHER                     -> capacity + Rounded(capacity * by)

(* Mutant: shrinkage is not cut off. *)
BoundedAbove(new, capacity, p) ==
  IF new > p.max THEN IF p.max > capacity THEN p.max ELSE capacity
  ELSE new

(* Growth and shrinkage are cut off at the bounds; the capacity itself     *)
(* stands for the returns that leave the group alone.                      *)
Bounded(new, capacity, p) ==
  IF new > p.max THEN IF p.max > capacity THEN p.max ELSE capacity
  ELSE IF new < p.min THEN IF p.min < capacity THEN p.min ELSE capacity
  ELSE new

(* Mutant: a new MaxSize is not looked at. *)
TargetAbove(p, q, capacity) ==
  IF q.desired # p.desired /\ q.desired # NoDesired THEN q.desired
  ELSE IF q.min # p.min /\ capacity < q.min THEN q.min
  ELSE capacity

(* handle_update: the capacity a change of the properties from p to q asks *)
(* for, or the present one.                                                *)
Target(p, q, capacity) ==
  IF q.desired # p.desired /\ q.desired # NoDesired THEN q.desired
  ELSE IF q.max # p.max /\ capacity > q.max THEN q.max
  ELSE IF q.min # p.min /\ capacity < q.min THEN q.min
  ELSE capacity

(* resource_templates keeps the youngest. *)
Youngest(S, n) ==
  {K \in SUBSET S :
     /\ Cardinality(K) = (IF n < Cardinality(S) THEN n ELSE Cardinality(S))
     /\ \A i \in K, j \in S \ K : j < i}

-----------------------------------------------------------------------------
Nobody  == "nobody"
NoProps == [min |-> 0, max |-> 0, desired |-> NoDesired]

Init ==
  \E p \in Properties :
    LET n == IF p.desired # NoDesired THEN p.desired ELSE p.min IN
    \E S \in SUBSET Instances :
      /\ Cardinality(S) = n
      /\ \A i \in S, j \in Instances \ S : i < j
      /\ stored = p
      /\ stack = "COMPLETE"
      /\ group = "COMPLETE"
      /\ status = "COMPLETE"
      /\ members = S
      /\ rows = S
      /\ fresh = Instances \ S
      /\ groupAge = 0
      /\ cooling = {}
      /\ pc = [h \in Handlers |-> "idle"]
      /\ caller = [h \in Handlers |-> Nobody]
      /\ props = [h \in Handlers |-> NoProps]
      /\ was = [h \in Handlers |-> "COMPLETE"]
      /\ copy = [h \in Handlers |-> {}]
      /\ size = [h \in Handlers |-> 0]
      /\ ok = [h \in Handlers |-> FALSE]
      /\ muddled = FALSE
      /\ loose = FALSE
      /\ rest = 0

NestedSame  == UNCHANGED <<status, members, rows, fresh>>
StackSame   == UNCHANGED <<stored, stack, group>>
AgesSame    == UNCHANGED <<groupAge, cooling, rest>>
HistorySame == UNCHANGED <<muddled, loose>>

(* CooldownMixin._cooldown_inprogress *)
InProgress == GroupCooldown # 0 /\ groupAge <= GroupCooldown

(* A handler that is over drops what it has loaded. *)
Forget(h) ==
  /\ caller' = [caller EXCEPT ![h] = Nobody]
  /\ props' = [props EXCEPT ![h] = NoProps]
  /\ was' = [was EXCEPT ![h] = "COMPLETE"]
  /\ copy' = [copy EXCEPT ![h] = {}]
  /\ size' = [size EXCEPT ![h] = 0]
  /\ ok' = [ok EXCEPT ![h] = FALSE]

Proceed(h, from, to) ==
  /\ Goto(h, from, to)
  /\ IF to = "idle" THEN Forget(h) ELSE UNCHANGED locals

(* Where a handler goes on once adjust has returned, ...                   *)
Returned(h) == IF Updater(h) THEN "settle" ELSE "stamppolicy"

(* ... or raised: that is the end of a signal, and an update of the stack  *)
(* has a resource that failed.                                             *)
Raised(h, how) == IF Updater(h) THEN how ELSE "idle"

-----------------------------------------------------------------------------
(***************************************************************************)
(* A signal: ScalingPolicy.handle_signal for an alarm state, in a stack    *)
(* loaded for it.  It does not find a group whose update has failed.       *)
(***************************************************************************)
Signal(h, p) ==
  /\ group # "FAILED"
  /\ Goto(h, "idle", "policy")
  /\ caller' = [caller EXCEPT ![h] = p]
  /\ props' = [props EXCEPT ![h] = stored]
  /\ UNCHANGED <<was, copy, size, ok>>
  /\ StackSame /\ NestedSame /\ AgesSame /\ HistorySame

PolicyCools(h) ==
  /\ pc[h] = "policy" /\ caller[h] \in cooling
  /\ Proceed(h, "policy", "idle")
  /\ StackSame /\ NestedSame /\ AgesSame /\ HistorySame

PolicyFree(h) ==
  /\ pc[h] = "policy" /\ caller[h] \notin cooling
  /\ Proceed(h, "policy", "group")
  /\ StackSame /\ NestedSame /\ AgesSame /\ HistorySame

-----------------------------------------------------------------------------
(***************************************************************************)
(* A stack update that gives the group other properties: Stack.update_task *)
(* and Resource.update of the group.  Only a COMPLETE stack is updated.    *)
(***************************************************************************)
UpdateStack(h, p) ==
  /\ p # stored
  /\ stack = "COMPLETE" /\ ~Updating
  /\ Goto(h, "idle", "turn")
  /\ stack' = "IN_PROGRESS"
  /\ caller' = [caller EXCEPT ![h] = Update]
  /\ props' = [props EXCEPT ![h] = p]
  /\ UNCHANGED <<stored, group, was, copy, size, ok>>
  /\ NestedSame /\ AgesSame /\ HistorySame

(* The group's turn.  A group that an interrupted update has left          *)
(* IN_PROGRESS raises at once; that is a failure before its turn.          *)
GroupsTurn(h) ==
  /\ group # "IN_PROGRESS"
  /\ Proceed(h, "turn", "target")
  /\ group' = "IN_PROGRESS"
  /\ UNCHANGED <<stored, stack>>
  /\ NestedSame /\ AgesSame /\ HistorySame

(* get_instances: the nested stack is loaded from its row and its template *)
(* and kept; an instance the template names counts even if it has no row.  *)
(* The FAILED ones that do not count are in a FAILED nested stack, which   *)
(* no resize changes any more.                                             *)
Loaded(h) ==
  /\ was' = [was EXCEPT ![h] = status]
  /\ copy' = [copy EXCEPT ![h] = members]

(* AutoScalingGroup.handle_update, without a rolling replacement: the      *)
(* nested stack is loaded before the cooldown is looked at.  A rollback    *)
(* still has it from the update, and overlaps what changed it since.       *)
UpdateTarget(h) ==
  /\ pc[h] = "target"
  /\ IF caller[h] = Rollback THEN UNCHANGED <<was, copy>> ELSE Loaded(h)
  /\ LET capacity == Cardinality(copy'[h])
         target == Target(Former(h), Given(h), capacity)
     IN /\ size' = [size EXCEPT ![h] = target]
        /\ Goto(h, "target", IF target = capacity THEN "settle" ELSE "group")
  /\ muddled' = (muddled \/ Resizers # {} \/ copy'[h] # members \/ was'[h] # status)
  /\ UNCHANGED <<caller, props, ok, loose>>
  /\ StackSame /\ NestedSame /\ AgesSame

(* The group has its new definition once handle_update has returned.       *)
GroupComplete(h) ==
  /\ Proceed(h, "settle", "done")
  /\ group' = "COMPLETE"
  /\ UNCHANGED <<stored, stack>>
  /\ NestedSame /\ AgesSame /\ HistorySame

GroupFails(h) ==
  /\ pc[h] \in {"refused", "failed"}
  /\ group = "IN_PROGRESS"
  /\ group' = "FAILED"
  /\ UNCHANGED <<stored, stack, pc, locals>>
  /\ NestedSame /\ AgesSame /\ HistorySame

(* Where a resource of the stack may have failed: the group itself, which  *)
(* is FAILED then, or another one before the group's turn, before the      *)
(* group's update is COMPLETE, or after it.                                *)
Broken(h) ==
  \/ pc[h] \in {"turn", "settle", "done"}
  \/ pc[h] \in {"refused", "failed"} /\ group = "FAILED"

(* The stack is rolled back, unless its disable_rollback says otherwise: a *)
(* group whose update was COMPLETE gets a turn again, any other one has    *)
(* the definition it is to have and is left as it is, resized or not.      *)
RollBack(h) ==
  /\ caller[h] = Update
  /\ Broken(h)
  /\ pc' = [pc EXCEPT ![h] = IF pc[h] = "done" THEN "turn" ELSE "done"]
  /\ caller' = [caller EXCEPT ![h] = Rollback]
  /\ loose' = (loose \/ pc[h] \in {"settle", "failed"})
  /\ UNCHANGED <<props, was, copy, size, ok, muddled>>
  /\ StackSame /\ NestedSame /\ AgesSame

(* The update of the stack ends in state_set, when every resource is done, *)
(* or when one failed or the update timed out and there is no rollback, or *)
(* it was the rollback.                                                    *)
Succeed(h) ==
  /\ Proceed(h, "done", "flip")
  /\ stack' = "COMPLETE"
  /\ UNCHANGED <<stored, group>>
  /\ NestedSame /\ AgesSame /\ HistorySame

Fail(h) ==
  /\ Broken(h)
  /\ Proceed(h, pc[h], "flip")
  /\ stack' = "FAILED"
  /\ loose' = (loose \/ pc[h] \in {"turn", "refused"})
  /\ UNCHANGED <<stored, group, muddled>>
  /\ NestedSame /\ AgesSame

(* ... and then store, with the template the update was to, however it     *)
(* ended.                                                                  *)
Flip(h) ==
  /\ Proceed(h, "flip", "idle")
  /\ stored' = Given(h)
  /\ loose' = (loose \/ (/\ caller[h] = Update
                        /\ \E g \in Handlers \ {h} : pc[g] # "idle"))
  /\ UNCHANGED <<stack, group, muddled>>
  /\ NestedSame /\ AgesSame

-----------------------------------------------------------------------------
(***************************************************************************)
(* AutoScalingGroup.adjust                                                 *)
(***************************************************************************)
GroupCools(h) ==
  /\ InProgress
  /\ Proceed(h, "group", Returned(h))
  /\ loose' = (loose \/ Updater(h))
  /\ StackSame /\ NestedSame /\ AgesSame /\ UNCHANGED muddled

(* Mutant: the group's own cooldown is not looked at. *)
GroupNotAsked(h) ==
  /\ Proceed(h, "group", "load")
  /\ muddled' = (muddled \/ Resizers \ {h} # {})
  /\ StackSame /\ NestedSame /\ AgesSame /\ UNCHANGED loose

GroupFree(h) ==
  /\ ~InProgress
  /\ Proceed(h, "group", "load")
  /\ muddled' = (muddled \/ Resizers \ {h} # {})
  /\ StackSame /\ NestedSame /\ AgesSame /\ UNCHANGED loose

(* The capacity is that of the nested stack, which an update has loaded    *)
(* already; what is wanted is bounded, and nothing is done if that is what *)
(* there is.                                                               *)
Decide(h) ==
  /\ pc[h] = "load"
  /\ IF Updater(h) THEN UNCHANGED <<was, copy>> ELSE Loaded(h)
  /\ LET p == caller[h]
         capacity == Cardinality(copy'[h])
         wanted == IF Updater(h) THEN Wanted("ExactCapacity", size[h], capacity)
                   ELSE Wanted(AdjustmentType[p], ScalingAdjustment[p], capacity)
         new == Bounded(wanted, capacity, Given(h))
     IN /\ size' = [size EXCEPT ![h] = new]
        /\ Goto(h, "load", IF new = capacity THEN Returned(h) ELSE "begin")
  /\ UNCHANGED <<caller, props, ok>>
  /\ StackSame /\ NestedSame /\ AgesSame /\ HistorySame

(***************************************************************************)
(* InstanceGroup.resize: an update of the nested stack, which is one by    *)
(* Stack.update_task too and is never rolled back.                         *)
(***************************************************************************)

(* The new template may be refused: too many resources, or invalid. *)
TemplateRefused(h) ==
  /\ Proceed(h, "begin", Raised(h, "refused"))
  /\ StackSame /\ NestedSame /\ AgesSame /\ HistorySame

(* A nested stack that was not COMPLETE when it was loaded is FAILED, ...  *)
BeginRefused(h) ==
  /\ was[h] # "COMPLETE"
  /\ Proceed(h, "begin", Raised(h, "refused"))
  /\ status' = "FAILED"
  /\ UNCHANGED <<members, rows, fresh>>
  /\ StackSame /\ AgesSame /\ HistorySame

(* Mutant: the state of the nested stack is not looked at. *)
BeginAnyway(h) ==
  /\ Proceed(h, "begin", "apply")
  /\ status' = "IN_PROGRESS"
  /\ UNCHANGED <<members, rows, fresh>>
  /\ StackSame /\ AgesSame /\ HistorySame

(* ... otherwise it is IN_PROGRESS whatever it has become since. *)
Begin(h) ==
  /\ was[h] = "COMPLETE"
  /\ Proceed(h, "begin", "apply")
  /\ status' = "IN_PROGRESS"
  /\ UNCHANGED <<members, rows, fresh>>
  /\ StackSame /\ AgesSame /\ HistorySame

(* Instances a resize from the handler's copy creates: the next ones, in   *)
(* the order of creation.                                                  *)
Upcoming(n) ==
  {S \in SUBSET fresh :
     Cardinality(S) = n /\ \A i \in S, j \in fresh \ S : i < j}

Missing(h) ==
  IF size[h] > Cardinality(copy[h]) THEN size[h] - Cardinality(copy[h]) ELSE 0

(* The update of the nested stack removes the oldest, or creates new ones; *)
(* when it fails, any of them may have been removed or created.  Its end   *)
(* is state_set, ...                                                       *)
Apply(h) ==
  /\ Goto(h, "apply", "store")
  /\ \E keep \in Youngest(copy[h], size[h]), new \in Upcoming(Missing(h)) :
       \E gone \in SUBSET (copy[h] \ keep), made \in SUBSET new, done \in BOOLEAN :
         /\ done => gone = copy[h] \ keep /\ made = new
         /\ rows' = (rows \ gone) \cup made
         /\ fresh' = fresh \ new
         /\ copy' = [copy EXCEPT ![h] = keep \cup new]
         /\ ok' = [ok EXCEPT ![h] = done]
         /\ status' = IF done THEN "COMPLETE" ELSE "FAILED"
  /\ size' = [size EXCEPT ![h] = 0]
  /\ UNCHANGED <<members, caller, props, was>>
  /\ StackSame /\ AgesSame /\ HistorySame

(* ... and then store, which writes the status once more with the          *)
(* template; check_update_complete raises if the update failed.            *)
Store(h) ==
  /\ Proceed(h, "store", IF ok[h] THEN "stampgroup" ELSE Raised(h, "failed"))
  /\ status' = IF ok[h] THEN "COMPLETE" ELSE "FAILED"
  /\ members' = copy[h]
  /\ rest' = IF ok[h] THEN 0 ELSE rest
  /\ loose' = (loose \/ (~Updater(h) /\ Updating))
  /\ UNCHANGED <<rows, fresh, groupAge, cooling, muddled>>
  /\ StackSame

StampGroup(h) ==
  /\ Proceed(h, "stampgroup", Returned(h))
  /\ groupAge' = 0
  /\ UNCHANGED <<cooling, rest>>
  /\ StackSame /\ NestedSame /\ HistorySame

(* The policy stamps its own metadata whatever adjust did. *)
StampPolicy(h) ==
  /\ Proceed(h, "stamppolicy", "idle")
  /\ cooling' = cooling \cup ({caller[h]} \cap WithCooldown)
  /\ UNCHANGED <<groupAge, rest>>
  /\ StackSame /\ NestedSame /\ HistorySame

-----------------------------------------------------------------------------
(* The handler's engine dies.  A stack it was updating stays IN_PROGRESS   *)
(* and is never updated again, unless only its template was left to store. *)
Die(h) ==
  /\ pc[h] # "idle"
  /\ Proceed(h, pc[h], "idle")
  /\ muddled' = (muddled \/ pc[h] \in {"store", "stampgroup"})
  /\ loose' = (loose \/ (pc[h] = "flip" /\ caller[h] = Update))
  /\ StackSame /\ NestedSame /\ AgesSame

Older(age) == IF age > GroupCooldown THEN age ELSE age + 1

(* Time passes, and the Cooldown of some policies with it. *)
Tick ==
  /\ groupAge' = Older(groupAge)
  /\ rest' = Older(rest)
  /\ cooling' \in SUBSET cooling
  /\ StackSame /\ NestedSame /\ HistorySame /\ UNCHANGED <<pc, locals>>

Adjust(h) ==
  \/ GroupCools(h) \/ GroupFree(h) \/ Decide(h)
  \/ TemplateRefused(h) \/ BeginRefused(h) \/ Begin(h) \/ Apply(h) \/ Store(h)
  \/ StampGroup(h)

UpdateTask(h) ==
  \/ GroupsTurn(h) \/ UpdateTarget(h) \/ GroupComplete(h) \/ GroupFails(h)
  \/ RollBack(h) \/ Succeed(h) \/ Fail(h) \/ Flip(h)

Next ==
  \/ \E h \in Handlers :
       \/ \E p \in Policies : Signal(h, p)
       \/ \E p \in Properties : UpdateStack(h, p)
       \/ UpdateTask(h)
       \/ PolicyCools(h) \/ PolicyFree(h) \/ Adjust(h) \/ StampPolicy(h)
       \/ Die(h)
  \/ Tick

Spec == Init /\ [][Next]_vars

-----------------------------------------------------------------------------
Statuses == {"COMPLETE", "IN_PROGRESS", "FAILED"}

TypeOK ==
  /\ stored \in Properties
  /\ stack \in Statuses
  /\ group \in Statuses
  /\ status \in Statuses
  /\ members \subseteq Instances
  /\ rows \subseteq Instances
  /\ fresh \subseteq Instances
  /\ groupAge \in 0 .. GroupCooldown + 1
  /\ cooling \subseteq WithCooldown
  /\ pc \in [Handlers -> Labels]
  /\ caller \in [Handlers -> Policies \cup {Update, Rollback, Nobody}]
  /\ props \in [Handlers -> Properties \cup {NoProps}]
  /\ was \in [Handlers -> Statuses]
  /\ copy \in [Handlers -> SUBSET Instances]
  /\ size \in [Handlers -> Nat]
  /\ ok \in [Handlers -> BOOLEAN]
  /\ muddled \in BOOLEAN
  /\ loose \in BOOLEAN
  /\ rest \in 0 .. GroupCooldown + 1

(* Whatever signals overlap, and whether their resizes succeed or not, the *)
(* group's template names as many instances as MinSize and MaxSize allow   *)
(* between updates of the stack, failed and rolled back ones included -    *)
(* unless an update changed them while a signal was at work with the       *)
(* former ones, or the group could not follow an update: the cooldown or   *)
(* a nested stack that was not COMPLETE kept it, the update failed before  *)
(* its turn, a rollback found it resized but still with its former         *)
(* definition, or the engine died before the new template was stored       *)
(* (adjust, handle_update, Stack.update_task).                             *)
TemplateWithinBounds ==
  ~loose /\ ~Updating => Cardinality(members) \in stored.min .. stored.max

(* No instance is lost: as long as resizes do not overlap, a COMPLETE      *)
(* nested stack has the instances its template names once the resize that  *)
(* made it so has stored it, no more and no fewer (Stack.update_task).     *)
InstancesAccounted ==
  ~muddled /\ status = "COMPLETE" /\ (\A h \in Handlers : pc[h] # "store") =>
    rows = members

(* "Adjust the size of the scaling group if the cooldown permits": as long *)
(* as resizes do not overlap, one begins only when the last successful one *)
(* is older than the group's Cooldown (adjust, _cooldown_timestamp).       *)
CooldownKept ==
  [][~muddled /\ GroupCooldown # 0 /\ rows' # rows => rest > GroupCooldown]_vars
=============================================================================
