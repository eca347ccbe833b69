---------------------------- MODULE RollingReplace ----------------------------
(***************************************************************************)
(* The rolling update of an instance group whose launch configuration has  *)
(* changed: InstanceGroup._replace of                                      *)
(* heat/engine/resources/autoscaling.py, with get_instances,               *)
(* _create_template and _lb_reload, and resource_templates of              *)
(* heat/scaling/template.py.                                               *)
(*                                                                         *)
(* The instances are the resources of a nested stack.  Each batch is an    *)
(* update of that stack (see StackUpdate) to a template with some          *)
(* instances removed, redefined or added; before it, those are taken out   *)
(* of the load balancer.                                                   *)
(*                                                                         *)
(* An instance stands for itself by its order of creation: get_instances   *)
(* sorts by created_time.  An instance that the nested stack updates in    *)
(* place keeps its creation time, one that it replaces is created anew.    *)
(***************************************************************************)
EXTENDS Integers, FiniteSets

CONSTANTS
  Capacities,  \* numbers of instances a group may start with
  Services,    \* values of MinInstancesInService; a negative one acts as 0
  Batches,     \* values of MaxBatchSize; the schema takes a negative one too
  PauseTimes,  \* values of PauseTime, in seconds
  Timeout,     \* the stack's timeout in seconds
  InPlace      \* whether an instance is updated in place: a set of Booleans

ASSUME CapacitiesAssumption == Capacities \subseteq Nat
ASSUME ServicesAssumption == Services \subseteq Nat
ASSUME BatchesAssumption == Batches \subseteq Int
ASSUME PauseTimesAssumption == PauseTimes \subseteq Nat
ASSUME TimeoutAssumption == Timeout \in Nat
ASSUME InPlaceAssumption == InPlace \subseteq BOOLEAN

VARIABLES
  group,      \* get_instances(): the instances that have not failed
  broken,     \* the number of failed resources the nested stack had at first
  fresh,      \* the instances with the new definition
  next,       \* the next instance to be created
  inPlace,    \* the change of definition is applied in place
  capacity, batch, least,        \* capacity, efft_bat_sz and efft_min_sz
  effective, remainder,          \* efft_capacity and remainder
  pause,      \* pause_sec
  paused,     \* history: the time spent in pauses
  balanced,   \* the instances the load balancer knows
  changing,   \* the instances the running nested update changes or removes
  create,     \* the number of instances it adds
  pc

nested == <<group, broken, fresh, next, inPlace>>
sizes  == <<capacity, batch, least, pause>>
vars   == <<nested, sizes, effective, remainder, paused, balanced, changing,
            create, pc>>

Lesser(a, b)  == IF a < b THEN a ELSE b
Greater(a, b) == IF a < b THEN b ELSE a

(* The n instances of S that were created last (first). *)
Youngest(n, S) == {i \in S : Cardinality({j \in S : j >= i}) <= n}
Oldest(n, S)   == {i \in S : Cardinality({j \in S : j <= i}) <= n}

Init ==
  \E c \in Capacities, b \in Capacities, p \in InPlace :
    /\ group = 1..c /\ broken = b
    /\ fresh = {} /\ next = c + 1
    /\ inPlace = p
    /\ capacity = 0 /\ batch = 0 /\ least = 0 /\ pause = 0
    /\ effective = 0 /\ remainder = 0
    /\ paused = 0
    /\ balanced = 1..c
    /\ changing = {} /\ create = 0
    /\ pc = "start"

(* Mutant: the capacity is not raised to keep the minimum in service. *)
RaisedNever(c, b, m) == c

(* Effective capacity includes temporary capacity added to accommodate the *)
(* minimum number of instances in service.                                 *)
Raised(c, b, m) == Greater(c - b, m) + b

(* Mutant: no check of the pauses against the timeout. *)
PausesAlwaysFit(c, b, p) == TRUE

(* The division rounds down, also by a negative batch size. *)
BatchCount(c, b) ==
  IF b > 0 THEN (c + b - 1) \div b ELSE (1 - (c + b)) \div (-b)

(* There is a pause between any two batches. *)
PausesFit(c, b, p) == p * (BatchCount(c, b) - 1) < Timeout

(* A batch that would be empty is a ZeroDivisionError. *)
Accepted(c, b, p) == IF b = 0 THEN FALSE ELSE PausesFit(c, b, p)

(* The nested stack's size counts, failed resources included. *)
Size == Cardinality(group) + broken

Prepare(m, b, p) ==
  /\ pc = "start"
  /\ capacity' = Size
  /\ batch' = Lesser(b, Size)
  /\ least' = Lesser(m, Size)
  /\ pause' = p
  /\ UNCHANGED <<nested, paused, balanced, changing, create>>

Refuse(m, b, p) ==
  /\ ~Accepted(Size, Lesser(b, Size), p)
  /\ Prepare(m, b, p)
  /\ pc' = "failed"
  /\ UNCHANGED <<effective, remainder>>

Begin(m, b, p) ==
  /\ Accepted(Size, Lesser(b, Size), p)
  /\ Prepare(m, b, p)
  /\ effective' = Raised(Size, Lesser(b, Size), Lesser(m, Size))
  /\ remainder' = Size
  /\ pc' = "loop"

-----------------------------------------------------------------------------
(***************************************************************************)
(* resource_templates: of num instances the oldest are left out; of those  *)
(* kept, the first ones with another definition are redefined, fewer if    *)
(* instances have to be created to make up the number.                     *)
(***************************************************************************)
Kept(num) == Youngest(num, group)

Missing(num) == num - Cardinality(Kept(num))

(* Mutant: whatever definition they have. *)
RedefinedAnyway(num, replace) == Oldest(replace - Missing(num), Kept(num))

Redefined(num, replace) == Oldest(replace - Missing(num), Kept(num) \ fresh)

(* Mutant: the temporary capacity goes with the first instances renewed. *)
CapacityEarly ==
  IF capacity - remainder > 0 THEN capacity ELSE effective

(* The minimum is in service without the temporary capacity. *)
Capacity ==
  IF capacity - remainder >= least THEN capacity ELSE effective

NextBatch ==
  /\ pc = "loop"
  /\ remainder > 0 \/ effective > capacity
  /\ effective' = Capacity
  /\ changing' = (group \ Kept(Capacity)) \cup Redefined(Capacity, batch)
  /\ create' = Missing(Capacity)
  /\ balanced' = group \ changing'
  /\ pc' = "update"
  /\ UNCHANGED <<nested, sizes, remainder, paused>>

(* Mutant: what is removed still counts as renewed. *)
AppliedKeepsGone(gone, redone, n) ==
  LET made == next..(next + n + (IF inPlace THEN 0 ELSE Cardinality(redone)) - 1)
  IN /\ group' = (group \ (gone \cup (IF inPlace THEN {} ELSE redone))) \cup made
     /\ fresh' = (fresh \cup (IF inPlace THEN redone ELSE {})) \cup made
     /\ next' = next + Cardinality(made)
     /\ UNCHANGED <<broken, inPlace>>

(* What the nested update makes of the group if it gets through with the   *)
(* removals in gone, the redefinitions in redone, and n creations.  An     *)
(* instance that is replaced goes, and another is created.                 *)
Applied(gone, redone, n) ==
  LET made == next..(next + n + (IF inPlace THEN 0 ELSE Cardinality(redone)) - 1)
  IN /\ group' = (group \ (gone \cup (IF inPlace THEN {} ELSE redone))) \cup made
     /\ fresh' = ((fresh \ gone) \cup (IF inPlace THEN redone ELSE {})) \cup made
     /\ next' = next + Cardinality(made)
     /\ UNCHANGED <<broken, inPlace>>

(* The failed resources are in no template: the first update removes them, *)
(* and they count no more.                                                 *)
BatchDone ==
  /\ pc = "update"
  /\ Applied(group \ Kept(effective), changing \cap Kept(effective), create)
  /\ remainder' = remainder - batch
  /\ changing' = {} /\ create' = 0
  /\ IF remainder' > 0 /\ pause > 0
       THEN balanced' = group' /\ paused' = paused + pause /\ pc' = "pause"
       ELSE pc' = "loop" /\ UNCHANGED <<balanced, paused>>
  /\ UNCHANGED <<sizes, effective>>

(* The nested update fails or is killed on the way: some of the changes    *)
(* are made, and get_instances leaves out what is gone or FAILED.          *)
BatchFails ==
  /\ pc = "update"
  /\ \E gone \in SUBSET changing, n \in 0..create :
     \E redone \in SUBSET ((changing \cap Kept(effective)) \ gone) :
       /\ Applied(gone, redone, n)
       /\ balanced' = group'
  /\ changing' = {} /\ create' = 0
  /\ pc' = "failed"
  /\ UNCHANGED <<sizes, effective, remainder, paused>>

Resume ==
  /\ pc = "pause"
  /\ pc' = "loop"
  /\ UNCHANGED <<nested, sizes, effective, remainder, paused, balanced, changing,
                 create>>

(* The thread is killed in a pause (a delete of the stack stops it).       *)
Killed ==
  /\ pc = "pause"
  /\ balanced' = group
  /\ pc' = "failed"
  /\ UNCHANGED <<nested, sizes, effective, remainder, paused, changing, create>>

(* Mutant: the loop waits for exactly as many instances as there were. *)
FinishExactly ==
  /\ pc = "loop"
  /\ remainder = 0 /\ effective <= capacity
  /\ balanced' = group
  /\ pc' = "done"
  /\ UNCHANGED <<nested, sizes, effective, remainder, paused, changing, create>>

(* All instances have been gone over; the load balancer gets them all. *)
Finish ==
  /\ pc = "loop"
  /\ remainder <= 0 /\ effective <= capacity
  /\ balanced' = group
  /\ pc' = "done"
  /\ UNCHANGED <<nested, sizes, effective, remainder, paused, changing, create>>

Loop == NextBatch \/ BatchDone \/ BatchFails \/ Resume \/ Finish

Next ==
  \/ \E m \in Services, b \in Batches, p \in PauseTimes :
       Begin(m, b, p) \/ Refuse(m, b, p)
  \/ Loop
  \/ Killed

Spec == Init /\ [][Next]_vars

(* The thread goes on, and a nested update ends. *)
FairSpec == Spec /\ WF_vars(Loop)

-----------------------------------------------------------------------------
TypeOK ==
  /\ group \subseteq Nat /\ fresh \subseteq group
  /\ balanced \subseteq Nat /\ changing \subseteq group
  /\ next \in Nat /\ \A i \in group : i < next
  /\ inPlace \in BOOLEAN
  /\ \A n \in {broken, capacity, least, pause, effective, paused, create} :
       n \in Nat
  /\ batch \in Int /\ remainder \in Int
  /\ pc \in {"start", "loop", "update", "pause", "done", "failed"}

(* "effective capacity includes temporary capacity added to accommodate    *)
(* the minimum number of instances in service during update" (_replace):   *)
(* so many instances that nothing is being done to are in the load         *)
(* balancer, less those that had failed before.                            *)
MinimumInService == Cardinality(balanced \ changing) >= least - broken

(* The minimum is kept, before, during and after every batch, also after   *)
(* a failed one, if instances are replaced: those that the last batch      *)
(* removes are then the ones left with the old definition.                 *)
EnoughInService == ~inPlace => MinimumInService

(* No batch takes down more instances than MaxBatchSize allows, removals   *)
(* of temporary capacity included, if instances are replaced; none if it   *)
(* is negative.                                                            *)
BatchBounded == ~inPlace => Cardinality(changing) <= Greater(batch, 0)

(* A rolling update that is done has replaced every instance, and only the *)
(* temporary capacity is gone again.                                       *)
AllReplaced == pc = "done" => fresh = group /\ Cardinality(group) = capacity

(* "The current UpdatePolicy will result in stack update timeout": an      *)
(* update that is begun with a batch size that is not negative never       *)
(* pauses as long as the timeout.  With a negative one the check passes,   *)
(* for it counts less than no batch, and the pauses have no end.           *)
PausesInTime == batch >= 0 /\ paused > 0 => paused < Timeout

(* The loop ends, also with a minimum in service or a batch larger than    *)
(* the group, and with a last batch that is not full, unless the batch     *)
(* size is negative: then remainder grows with every batch and only a      *)
(* failure or a kill ends the loop.                                        *)
Ends == pc # "start" /\ batch >= 0 ~> pc \in {"done", "failed"}
=============================================================================
