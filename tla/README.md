# A verification project for Heat

Heat takes a template and a stack name, and creates, updates and deletes the
resources the template describes.  This directory holds TLA+ models of the parts
of the engine where order, failure and concurrency decide whether that works,
TLC configurations that check them on small instances, and proofs that the TLA+
proof system checks for instances of any size.

Paths below are relative to `src/`; `engine/` stands for `heat/engine/`.

    tlc -config StackLock.cfg MCStackLock.tla            # one model-checking run
    tlapm StackLockProofs.tla                            # one module of proofs

## 1. The system

### Components, state and operations

| component | state | operations | module |
|---|---|---|---|
| Stack lock (`engine/stack_lock.py`, queries in `heat/db/sqlalchemy/api.py`) | one row per stack: the engine that works on it | acquire, try_acquire, steal, release | `StackLock` |
| Engine threads (`ThreadGroupManager`, `EngineListener` in `engine/service.py`) | green threads per stack and engine, their link callbacks | start_with_lock, stop, stop_stack over RPC | `StackLock` |
| Task scheduler (`engine/scheduler.py`) | a generator per task, started and done flags | TaskRunner start, step, cancel; DependencyTaskGroup | `TaskGroup` |
| Dependency graph (`engine/dependencies.py`) | nodes with requires and required-by sets | insert, delete, topological sort | `TaskGroup` |
| Stack life cycle (`engine/parser.py`, `engine/update.py`) | stack row (action, status, template), backup stack | create, update, rollback, delete | `StackUpdate` |
| Resource (`engine/resource.py`) | resource row (action, status), physical resource | create, update, delete, destroy | `StackUpdate` |
| Instance groups (`engine/resources/autoscaling.py`, `heat/scaling/template.py`) | nested stack of instances, load balancer list | rolling update (`_replace`) | `RollingReplace` |
| Scaling groups and policies (same files) | the group's bounds, cooldown stamps in metadata, nested stack | policy signal, adjust, resize, update of the bounds and its rollback | `ScalingGroup` |
| Wait conditions (`engine/resources/wait_condition.py`) | signals in the handle's metadata | signal, wait, clear | `WaitSignals` |
| Watch rules (`engine/watchrule.py`, `engine/resources/cloud_watch.py`) | the rule's state, a timer per stack and engine | evaluate, store, act, suspend, resume | `StackService` |
| Service entry points (`engine/service.py`) | the stack as a request loaded it | create, adopt, update (both with their rollback), suspend, resume, delete, abandon, start of an engine | `StackService` |
| Nested stacks (`engine/stack_resource.py`) | a stack row owned by a resource | the life cycle, one level down | of groups only: `ScalingGroup`, `RollingReplace` |
| Templates, properties, parameters, constraints, environment | immutable documents | parse, resolve, validate | not modelled |
| APIs, RPC clients, Keystone and service clients, resource plug-ins, events | none that another component reads back | translation and calls | not modelled |

`PROJECT.json` lists every component with its files and the reason where it is
not modelled.

### How they interact

An API process sends a request to one of several engine processes over RPC.  The
engine checks it, takes the **stack lock** (a row in the shared database) and runs
the operation in a **green thread** whose end releases the lock.  The operation
drives the resources with a **DependencyTaskGroup**: a resource's task starts when
all it depends on is done, and every task is a generator that is stepped until
the external service reports completion.  An **update** merges the graphs of the
old and the new template and keeps replaced resources in a **backup stack** until
their replacements exist; if it fails, a **rollback** is a second update in the
other direction.  A **delete** may arrive at any time: it kills the thread at work,
on its own engine directly and on another by RPC, and then takes the lock.  An
**instance group** is a resource whose instances form a nested stack; a rolling
update of the group is a sequence of updates of that stack.  A **scaling signal**
resizes the group by one update of it, and holds no lock at all: it may meet other
signals and an update of the stack around it.  Each engine runs a **timer** for every
stack with an alarm, which evaluates the alarm's **watch rule** once a minute and
signals what the rule names, beside whatever request is at work on the stack.

### What is hard

* Several engines work on the same database row with no transaction around
  *read, ask the owner, write*; engines die, and slow ones are taken for dead.
* A killed thread unwinds later than the code that killed it goes on.
* A graph is changed while it is iterated, by completion, failure and cancellation.
* A failure, a timeout, a kill or the death of the process can fall between any
  two of the many rows an update writes, and the next operation knows only the rows.
* A rollback starts from wherever the failed update stopped.
* Signals, alarms and periodic tasks touch stacks without taking the lock.
* Requests load and check a stack before they have the lock and work with that copy.
* An exception in a periodic task ends it for good, and nothing starts it again.

The hazards are listed line by line in `PROJECT.json` ("hazards"), each with the
properties that would show it going wrong.

### What makes each component correct

* lock: one operation at a time per stack; no row orphaned while its engine lives;
  a dead engine's row does not block the stack; a thread is under the lock to its end;
* scheduler: no task before what it requires; none left half-way; all tried that
  can be; cycles refused, everything else terminates;
* life cycle: rows, template and real resources agree between operations; nothing
  is destroyed while still needed; nothing real is lost; every operation ends;
* requests and periodic tasks: a stack at rest and its watch rule agree, no
  evaluation raises;
* scaling: bounds and cooldowns kept, no instance lost or forgotten;
* rolling update: the minimum stays in service, batches are bounded, everything is
  renewed, pauses fit into the timeout, the loop ends;
* wait conditions: complete on enough successes only, lose no signal that overlaps
  with none, end in time.

## 2. The modules

### StackLock, StackMutex

State: `lock` (the engine named by the stack's lock row, or none), `alive`,
`stored` (the stack's own row exists), `inbox` (stop_stack calls on their way); per
request `pc`, `host` (its engine), `seen` and `found` (what a query of
`stack_lock_steal` or `acquire` returned) and `retry`.  **Every database statement is an
action of its own**, because other engines may run between any two of them.
`CreateFree`, `CreateInsert`, `AcquireOwned`, `OwnerAlive`, `OwnerTimeout`,
`StealRead`, `StealUpdate` and `StealMissed` follow `StackLock.acquire` and the two
queries under it; `Spawn`, `SpawnFails`, `Finish` and `Release` follow
`start_with_lock`; `TryOwned`, `OwnStop`, `ForceRelease`, `SendStop`, `HandleStop`,
`StopReply`, `StopTimeout` and `Reload` follow `delete_stack` and `stop_stack`.
`Crash` ends an engine and every request on it.  `SlowReplies` says whether an RPC
to a live engine may time out.

`StackMutex` is what the lock promises: admit a request when nobody is inside, and
let it leave.  `RefinesMutex` states that the protocol implements it, with `busy`
mapped to the set of requests between getting and giving back the lock.

The history variables `forced` and `usurped` record the two ways the protocol gives
up exclusion: a row that delete_stack released for a request that is not done, and
a live engine taken for dead.  `Exclusive` is claimed for behaviours without either.

### TaskGroup, TaskOrder

One group from construction to its end.  `nodes`, `require` and `satisfy` are the
mutable graph (`Graph` is a defaultdict: looking up a node that is gone puts an
empty one back, and `Remove` models that); `runner` holds each TaskRunner's state;
`unsorted` drives the constructor's topological sort, which takes leaves in any
order; `visited` makes the loop over running tasks one step per task.
A task may yield, return or raise at each step; the caller may throw in a timeout
or close the group at each yield.  `Plain` is the set of tasks that are ordinary
functions rather than co-routines: these run within `start`.

`TaskOrder` is what the group promises: a task starts when what it requires is done, a
failed one takes with it what depends on it or the whole group, and the group ends when
nothing is left to do.  `RefinesOrder` states that the group implements it; the nodes of
the graph and the tasks that are revived do not show.

### StackUpdate

One stack over several operations.  In the database: `stack` (action, status,
template, rollback flag), `backup` (the backup stack's template), `row` (the
resource rows of both) and `phys` (the external resources that exist).  In the
memory of the running operation: `phase`, `target`, the dictionaries `ex` and `prev`
of resources by name, the graph `edges` with a `stage` per task, `outcome`.
A template is a function from names to definitions, a definition a version and the
names it refers to.  `NewTask` and `OldTask` are the tasks of
`StackUpdate._process_new_resource_update` and `_process_existing_resource_update`
with the resource methods they call; `Continue` groups the steps of
`Stack.create`, `update_task` and `delete` between the task groups.  The task group
itself is the abstraction that `TaskGroup` is shown to implement (`TaskOrder`): a task starts when what it
requires is done, and a task that raises cancels the others.
`Faults` selects what may go wrong: a create, update or delete of a resource, the
timeout of the operation, a kill of the thread, a crash of the engine; `torn`
records which of these a stack has been through.
An update ends in two writes (`UpdateFailed` or `Trimmed`, then `Flip`), a delete too
(`DeleteDone`, then `Deleted`), and a kill or a crash may come between them.
The graph of a rollback (`RollBackEdges`) is that of an update without the
dependencies of the resources that the failed update has changed in place (`Resolved`): such an
object keeps its new definition with the references resolved, and no dependency is found in
it until the stack is loaded again.

### RollingReplace

One rolling update of a group.  An instance is its rank in the order of creation,
which is what `get_instances` sorts by and all that `resource_templates` looks at.
`Kept`, `Missing` and `Redefined` are the three decisions of `resource_templates`;
`Begin` and `Refuse` the preamble of `_replace`; `NextBatch`, `BatchDone`,
`BatchFails`, `Resume`, `Killed` and `Finish` its loop.  `inPlace` says whether the nested stack
applies the change to an instance in place, which keeps its creation time, or
replaces it.  The batch size is any integer, as in the schema of UpdatePolicy, which
has no minimum: a negative one makes `remainder` grow, and the loop has no end.
`BatchCount` is Python's floor division, which a negative divisor takes away from zero.

### WaitSignals

One handle, the signals posted to it and the conditions that wait for them.
`metadata` is the handle's column in its row; `rsrc_metadata` the copy that the
engine of a signal holds between `Read` and `Write` (`metadata_update`); `phase`,
`count`, `expired`, `keys` and `handle_status` belong to a wait.  `get_status` is not one read but one per id
(each use of `self.metadata` reads the row afresh), so it is `Look`, a `LookUp`
for each id, and `Decide`; an id that is gone by then is the KeyError of `LookUpFails`.
`TimeOut` is `TaskRunner.step` after the timeout, which does not look again.
`Start` is `handle_create` and `handle_update`; `Delete` is `handle_delete`, which
clears the handle for all.  Two conditions on one handle also stand for an update
that replaces a condition: the new one waits before the old one is deleted.
The history variable `overtaken` holds the signals that were written from a stale copy;
`Undisturbed` says that there are none and that no condition was deleted.

### ScalingGroup

One auto-scaling group in the database: `stored` (its MinSize, MaxSize and
DesiredCapacity in the stack's template), `stack` (status of the stack), `group` (status of
the group's own row), `status`, `members` and `rows` of the nested stack (row, stored
template, instances that exist), `groupAge` and `cooling` (the time stamps in the metadata
of the group and of its policies, as ages in ticks).  A handler is a signal or an update of
the stack; it holds what it has loaded (`props`, `was`, `copy`) and decided
(`size`, `ok`).  A signal is `Signal`, `PolicyCools` or `PolicyFree`, then `adjust`,
then `StampPolicy`.  An update of the stack is `UpdateStack`, then for the group `GroupsTurn`,
`UpdateTarget`, `adjust` if the capacity must change, and `GroupComplete` or `GroupFails`, and
ends in two writes: `Succeed` or `Fail` (state_set), then `Flip` (store).
Another resource may fail before, during or after the group's turn (`Broken`).  Then the update
fails, or, with rollback enabled, `RollBack` makes it a second update by the same handler, from the
new properties to the stored ones.  A group that was COMPLETE gets its turn again; one that
was not has kept its definition, so that nothing is done to it, even if its nested stack
has been resized and names the new size.  That last case is `loose`.
`GroupCools`, `GroupFree`, `Decide`, `TemplateRefused`,
`BeginRefused`, `Begin`, `Apply`, `Store` and `StampGroup` are `adjust` with the resize and
`Stack.update_task` of the nested stack under it, **one action per read or write of the
database**; the order of the two writes at its end (`Apply`, `Store`) and the missing look at
the row at its start (`Begin` goes by the copy) are the code's.  `Die` ends a handler
with its engine, `Tick` is the clock.  `Wanted`, `Rounded`, `Bounded` and `Target` are the
arithmetic.  Three history variables serve the properties: `muddled` (two resizes
overlapped or one died half-way), `loose` (the bounds changed around a signal, the
group could not follow them, or the rollback left it resized), `rest` (age of the last
successful resize).

### StackService

One stack with a scaling policy and, if its template says so, an alarm.  In the
database: `action`, `status`, `deleted`, `template`, `row` (of both resources), `rule` (state
of the watch rule), `rested` (a Period has passed since `last_evaluated` was stored) and
`lock`.  A request (`pc`, `kind`, `at`) loads the stack (`saw`) and checks it (`Ask`), gets the
lock or is refused (`Acquire`, `Refuse`), or stops who has it (`Stop`, which leaves the
resource the other was at FAILED), runs its thread from
`Begin` over `Start` and `Finish` (or `FinishFails`) for each resource in `todo`, and ends in
one of the `End...` actions; an update then stores its template (`Flip`), a delete removes
the stack's row and those of its resources (`Erase`), a creation starts the timer
(`StartWatch`), **each in a transaction of its own**, before which the engine may die or
the request be stopped.  A creation that fails may be rolled back, which is a delete by the same
request (`RollBackCreate`, kind `UNCREATE`), and an update that fails another update back
(`RollBackUpdate`, kind `REVERT`).  A delete may also fail before it has begun, on what an
earlier update left in the backup stack (`BeginFails`).  A timer of an engine (`timer`, `got`,
`stopped`) goes through `Wake`, `Evaluate` and `Store`, the points between which it uses
what it has read.  `Restart` is the death of an engine and its start, which gives
every stack with a rule a timer.  The lock is an atomic variable here, which is
what `StackLock` and its proofs justify; what delete_stack does on its own engine
before the thread has unwound (finding 1) is not repeated.

A delete that dies between its two last writes leaves a stack that is DELETE COMPLETE, is
still there and has no resources (`Bare`); an update with the same template is accepted,
creates nothing, and makes it UPDATE COMPLETE.
`strayed` is history: it records that a request worked with an outdated copy,
that an evaluation was in flight when the rule was written or the stack deleted, that an
update that removes or adds the alarm was cut off or failed, or that such a bare stack was
updated.  These are the crossings in which
the rule really parts from the stack; the properties claim that nothing else does it.
`RuleFollowsStack` says of a bare stack what it says of a deleted one: no rule, unless a
request abandoned it.

The `MC` modules give the constants their values.

## 3. The runs

| run | instance | shows |
|---|---|---|
| StackLock | 3 engines, 1 operation, 1 delete, late replies; fair | `TypeOK`, `Exclusive`, `OwnerWorks`, `Answered`, `LockReturned`, `StaleLockYields` |
| StackLockMutex | 3 engines, 3 operations, no delete, no late reply | `RefinesMutex`, `StolenFromDead` |
| StackLockCovers | 2 engines, 2 operations, 1 delete | counterexample to `LockedUntilFinished` |
| TaskGroup | 4 tasks, all acyclic graphs up to renaming and 2 cyclic ones; fair | `RefinesOrder`, order, completeness, termination |
| StackUpdate | 2 names, 4 templates, 5 ids, 3 operations, all faults; fair | rows, template and resources agree; operations end (779,468 states) |
| StackUpdateRollback | 2 operations, failing updates only | counterexample to `RolledBack` |
| StackUpdateDelete | 3 operations, failing creates only | counterexample to `DeletedWithStack` |
| RollingReplace | up to 4 instances and 4 failed ones, batch sizes -2 to 7, minimums 0 to 7; fair | the five guarantees of a rolling update (92,436 states) |
| RollingReplaceInPlace | the same, batch sizes 0 to 7 | counterexample to `MinimumInService` |
| WaitSignals | 2 signals, 2 ids, 3 statuses, 2 conditions, counts to 2; fair | enough successes, no signal lost, no KeyError, waits end |
| ScalingGroup | 4 instances, 2 policies (+50 %, -2), bounds 1..2 and 2..3, 2 handlers, a cooldown of 1 tick | `TemplateWithinBounds`, `InstancesAccounted`, `CooldownKept` (2.2 million states) |
| StackService | 2 engines, a creation or adoption and 2 more requests of any kind | `RuleFollowsStack`, `TimersSurvive` (2.1 million states) |

**Why the bounds are enough.**  A race for the lock needs a holder that dies and two
thieves: three engines and three operations.  What delete_stack can disturb needs
its own engine or another one and a request after the release: two engines, two
operations and a delete (run StackLockCovers); the run with late replies has a third
engine, which may be slow, dead or idle while the other two work.  These results do
not depend on the bounds in the end, because section 5 proves them for any number.  In `TaskGroup` four tasks have all
shapes that matter to the graph (chains, forks, joins, diamonds, unrelated tasks),
and acyclic relations are taken up to renaming.  In `StackUpdate` the templates
change, remove, add and reverse a dependency between two names; three operations are a create, an
update that fails at any point, and one that has to cope with what is left; five
ids never run out, since replaced rows are reused once they are gone.  In
`RollingReplace` policies range from below to above the size of the group, so that
first, last, full and short batches and superfluous minimums occur; two negative batch
sizes go through the loop that has no end.  In
`WaitSignals` a stale copy needs two signals, a KeyError two signals with
different ids or one and a deletion, and a lost count a second condition.
In `ScalingGroup` two handlers are two signals or a signal and an update; the policies
are chosen so that growth is rounded up, growth and shrinkage are cut off at the
bounds and the two ask for opposite things; the bounds overlap, so that an update
may leave the group, shrink it or grow it; four instances allow for one that was lost; ages
above the cooldown are not told apart.  In `StackService` two more requests are enough for a
suspension that an update, a deletion or another suspension crosses, and two
engines for two timers, one of which survives the other's death.  Instances are a
finite supply: the group stops growing when it is used up.

`ScalingGroup.cfg` and `StackService.cfg` have a `VIEW`: what is forgotten there is read
by no action and no property from that state on (the comments in the `MC` modules
say why), so states that agree in it have the same futures.

Three runs have a state constraint, `OnCourse`.  In `StackService` it drops what has
`strayed`, in `ScalingGroup` what is both `muddled` and `loose`: history variables never go
back, and every property of the run asks for one of them to be false, so what is dropped can
break none.  In `RollingReplace` it ends the loop of a negative batch size when `remainder` has grown
by `Beyond`; no other batch size reaches it.  Elsewhere counters are bounded by guards
(`MaxOps`).

`CHECK_DEADLOCK FALSE` is in every configuration because each model has a proper
end: all requests answered, the group over, the operations used up.  That nothing
ends before is the subject of the liveness properties.

**Fairness.**  `StackLock`: the steps of a request are weakly fair, since the green
threads of a live engine are scheduled, an RPC ends with a reply or its timeout,
and a stack operation has a timeout; requests need not come, engines need not die.
`TaskGroup`: the caller keeps stepping the group (TaskRunner.run_to_completion) and
a task that is stepped again and again returns or raises at last (strong fairness on
`StepReturns`), since a resource's check polls for a state its service reaches.
`StackUpdate` and `RollingReplace`: the thread goes on, and actions of resources and
nested updates end.  (`Ends` and `PausesInTime` are said of batch sizes that are not
negative; the others do not end, which section 5 proves.)  `WaitSignals`: the runner of a wait is stepped; signals need not come
and the clock may stand still, so `EnoughCompletes` is not a matter of the timeout.
No fault, timeout, kill or crash is ever forced to happen.
`ScalingGroup` and `StackService` claim safety only and state no fairness.

## 4. What the runs found

1. **The lock is given back before the thread has ended** (`engine/service.py:594`,
   run StackLockCovers).  On the engine that owns the row, delete_stack kills the
   thread and deletes the row at once, while the thread still unwinds; the late
   release by engine id may then remove the row of a later request.
2. **A rollback leaves failed in-place updates** (`engine/resource.py:544`, run
   StackUpdateRollback).  It compares definitions, finds no difference, and the
   stack ends ROLLBACK COMPLETE with a resource UPDATE FAILED.  So it does with one left
   DELETE FAILED by the failed update.
3. **Deleting a stack leaves resources behind** (`engine/parser.py:577`, run
   StackUpdateDelete).  A failed update flips the template, and what only the old
   one names is never loaded again.
4. **A rolling update in place goes below the minimum in service**
   (`heat/scaling/template.py:25`, run RollingReplaceInPlace).  Instances renewed in
   place stay the oldest, so the last batch removes them and changes the old ones
   that are left at the same time.

Each is quoted against the comment, docstring or test it contradicts in
`PROJECT.json`.

Further behaviours are modelled but contradict no stated promise.

* A delete that finds the row of a dead engine asks that engine to stop, waits for
  the timeout and fails (`StackLock`, `StopTimeout`); unlike acquire, this path never
  steals the row, so the stack cannot be deleted until another operation has taken it over.
* With `aggregate_exceptions`, which no caller uses, a cancelled task that is an
  ordinary function still runs (`TaskGroup`, `StartDropped`): deleting a node looks up
  requirers that are gone, and the defaultdict puts them back as ready.
* Two signals to a wait condition's handle that overlap lose one of them, and the condition
  then waits for its timeout although all senders have reported; a look at the
  handle at that moment fails with a KeyError.  When an update replaces a condition, the
  new one completes on the signals left by the old one, whose deletion then clears
  them.  `Undisturbed` excuses these.
* Two scaling signals that overlap both find the cooldown over and both resize,
  each from its own copy; the group may then exceed what either wanted, and instances
  of one are unknown to the other's template (`muddled`).
* An update of the stack that fails after the group was resized, but before the group is
  COMPLETE, and is rolled back leaves the group with its former bounds and the new
  size: `Resource.update` finds the definition unchanged and does nothing.  (Nested stacks
  are not rolled back themselves, as `stack_resource.py:139` says they "should be
  rolled back by the parent stack on failure".)  `loose` records it.
* A rolling update with a negative MaxBatchSize, which the schema accepts, never ends:
  each batch makes the remainder larger, and nothing is replaced (`NegativeNeverDone`).
* A delete whose engine dies after the stack is DELETE COMPLETE and before its row is
  removed leaves a stack that may be updated, to a template whose resources
  are not created (`StackService`, `EndDelete` and `Erase`; `StackUpdate`, `DeleteDone` and `Deleted`).
* A resize that finds the nested stack IN_PROGRESS marks it FAILED under the resize
  at work, and so does a resize that fails.  Nothing resets that state: a group whose
  nested stack is FAILED is never resized again.  Signals do not even find a group
  whose own update failed, and the stack is then FAILED and never updated again.
* An update that lowers MaxSize while the group cools down is swallowed by the
  cooldown: it is COMPLETE, and the group larger than MaxSize (`loose`).
* A policy stamps its cooldown also when the group refused to change.
* update_stack refuses a suspended stack, but looks before it takes the lock: an
  suspension may come in between.  Every request works with the template it loaded
  before it had the lock.
* A creation stores its stack before it locks it; another request may be first.
* An alarm that an update adds gets no timer until some engine restarts; each engine
  that restarts adds one for every stack, so a rule is evaluated several times.  `last_evaluated`
  is not stored by an evaluation, so the Period is kept only once.
* An adopted alarm has no rule, and an adopted policy is not found by the
  look-up of what to signal; abandoning a stack leaves its rule.

Several hazards in `PROJECT.json` have a note in place of a property.  They are of two kinds:
what the code does goes wrong there and nothing in it promises otherwise (overlapping
signals, stale copies, threads that die in an update), where the history variables name the case and the
properties say what holds without it; or what is left is a free choice of the
model, of which no property speaks.

## 5. The proofs

All theorems hold for every value of the constants under the assumptions named in
the modules (sets of engines and requests are disjoint, policies are natural numbers).

**`StackLockProofs`.**  `TypeCorrect`, `LockExclusive`, `LockNeverOrphaned`, `TheftFromDead`,
`MutexRefined`.  `Exclusive` is inductive together with `HostAlive` (a request that is
anywhere in the protocol runs on a live engine); `OwnerWorks` needs the same.
`StolenFromDead` needs `VictimDead`: without late replies, an engine that a thief has
seen and asked is dead.  For the refinement, without deletes and late replies,
neither breach can occur (`NoBreach`), so at most one request holds, and each
step admits one, lets one go, or leaves the holders alone (`HoldersStep`).  `MutexKept` says of all behaviours that
each step is one of the mutex as long as no breach has happened, and `CoveredWithoutDeletes` that finding 1
needs one: without deletes and late replies a thread is covered by the row until it has finished.

**`TaskGroupProofs`.**  `GroupTypeCorrect`, `OrderKept`, `NothingLeft`, `EveryTaskTried`,
`CyclesFound`, `NeverStuck`, `OrderRefined`, for any finite or infinite set of tasks and any graphs.  `AfterRequirements`
rests on `Waiting` (a task not started still has its node, which still requires all that has
not returned) and `Phantom` (the nodes left of failed tasks are empty ones, whose
deletion frees nobody).  `NothingLeftBehind` rests on a bookkeeping of the loop
(`Clean`, `Advanced`), `AllTried` on `Blamed`: whatever was cancelled requires something that did
not return.  That exactly the cyclic graphs are refused rests on
`SortedAcyclic` and `SatisfyRequired`: what has been taken off the graph is acyclic
and required by the rest only.  `NeverStuck` is the part of `Terminates` that does not depend on
fairness: when the group yields, a task is at work or all are done.  Of the tasks that are new, one
requires no other new one (the graph is acyclic); what it still requires has a node that knows of it (`Linked`),
which is not that of a failed task (`Phantom`), so it is running.  `OrderRefined` uses all these
invariants together: `Linked` and `Phantom` show that the satisfy sets, from which `_cancel_recursively` finds
whom to cancel, lead to exactly the waiting tasks that depend on the failed one
(`RaiseFails`), and that a revived task that raises again cancels nobody.

**`StackUpdateProofs`.**  `TypeCorrect`, `RowsAreUnique`, `TemplateIsTrue`, `NothingIsLost`,
`BackupIsEmptied`, `CleanedUpLast`, for any names, templates and ids, any number of operations and any
faults.  A template defines some of the names (`TemplatesAssumption`) and `Nothing` is none of
the values it stands beside (`NothingAssumption`); nothing is assumed of the dependencies here.
The inductive invariant comes in layers, each proved with the help of those before it.
`Sound`: the dictionaries in memory lead to rows of the right stack and name (`Linked`), the
stage of each task fits what the dictionaries hold, and a task at work has all its
requirements behind it (`Fits`).  `Tended`: the backup stack is there only while an update
works with it or after one that failed, `prev` leads to all its rows, and what the
tasks of one name have done tells where its resources are (`Kept`, `Backed`, `Moved`).
`BackupEmptied` follows from it.  (Only a delete is COMPLETE while it is still at work,
before its stack's row is gone, and then there is no backup stack.)  `Exact`: resources have the definitions of the old or the new
template according to the stage of their task (`Defined`), rows are unique as long as a
load finds what there is (`Named`, `Traced`), and no resource is without a row as long as
nothing is torn (`Full`); `OneRowEach`, `TemplateTells` and `NothingLost` follow.  `Late`, for
`CleanUpLast`: while a task that destroys has not ended, the edges lead from it to every
resource that is still to be updated.

**`StackUpdateGraphProofs`.**  `NoCircularGraph`, `NoTaskStuck`, `NoReferenceDangles`.  Only
these assume that there are finitely many names and that each template is sound in
itself (`ValidAssumption`): `Stack.validate`, which create_stack and update_stack call
before they take the lock, refuses dangling and circular references.  That does not
yet tell that the graph of an update has no circle, as it joins the order of the new
resources, the reverse order of the old ones and an edge from each old resource to its successor;
nor that of a rollback, whose old side is a stack in which some resources
have the definitions of one template and some those of the other, and which may refer to each
other in ways that neither template does.  An order is stated without paths: in
every set of tasks there is one that requires none of the others (`Grounded`).
`Graphed` says what the stack consists of when the graph is made.  Before an update all
definitions are those of the stored template (`Plain`).  When a failed
one is rolled back (`Mixed`, `MixedAt`), each resource has an old definition, or a new one all of
whose references have been renewed before it (`Renewed`), which is what the edges
of the failed update enforced; so the renewed resources are an initial part of the new order,
and the rest is in the old order (`UpdateGrounded`).  That the rollback's graph lacks the requirements
of resources whose references are resolved (`Severed`) takes nothing from it: fewer
edges make no circle.  `NoTaskStuck` follows: the tasks that are not done have one that requires
none of them.  This is what TLC checks as `OperationEnds`, without the fairness.
`Closed`, for `NoReferenceDangles`, needs all of the above and `Late`: a destroyed resource
is one that nothing refers to any more.

**`RollingReplaceProofs`.**  `GroupTypeCorrect`, `ServiceKept`, `BatchesBounded`, `EverythingReplaced`,
`PausesEndInTime`, for groups of any size, any number of failed instances and any policy, with any
integer for a batch size (`Batches` is a set of integers, as the schema has it).  The
invariant is one of two (`Inv`): `IInv` for batch sizes that are not negative, `Endless` for the
others.  `IInv` says that the group is always a range of instances in the order of
creation, that the old ones are a range in it, and how many there may be: before
the first batch all of them; after a batch as many as remain, plus the temporary
capacity as long as it is there (`AfterBatch`), which itself goes only when the
minimum is renewed (`Extent`).  The guarantees are not inductive without that
count: the batch that gives up the temporary capacity both removes and redefines, and
only the count shows that it does not exceed a batch.  If instances are replaced, the
old ones are the oldest ones, and that is what in-place updates break
(finding 4).  `PausesEndInTime` counts pauses against batches.  `LoopNears` is what `Ends` has
besides fairness: unless the batch size is negative, `Left`, a natural number, falls with every step of the thread.  That needs
that a batch in the loop is never empty and that the minimum is at most the group (`Policy`),
for then the temporary capacity goes at the latest when the remainder is used up.
`NegativeNeverDone` is the other half: with a negative batch size the remainder never falls below the
size of the group, so that a group with instances is never done, whatever the failures.
`Endless` shows why the safety properties hold all the same: each batch only fills up
the group and removes and renews nothing.

**`WaitSignalsProofs`.**  `EntriesWellFormed`, `CompleteOnSignals`, `KeptUndisturbed`,
`LooksFindAll`, for any number of signals and conditions and any finite set of ids.  `EnoughSignals`
is not inductive: a wait counts what it found some steps ago in a row that was
written from copies older still.  `AllBacked` says that any success in the row,
in a copy or among the results of a look has been written by a post, and what was
written stays so (`ReceivedGrows`).  `Fresh` says that, undisturbed, a copy equals the
row and the ids still to be looked up are in it.
Two more theorems are the liveness of the wait without its fairness.  `WaitsRunOut`: a
look, and a wait that is out of time, have a number of `Steps` left that each step of
their own lowers and none raises.  `EnoughNotMissed`: a row with Count signals keeps
them until the wait completes, and a look that begins then is full (`Full`) until it decides,
because a failure that nobody posted turns up nowhere (`NoFailures`).

**`ScalingGroupProofs`.**  `TypeCorrect`, `AlwaysWithinBounds`, `AlwaysAccounted`, `AlwaysCooled`, for any
set of policies, properties and handlers and any cooldown, and two theorems on the arithmetic:
`ResizeWithinBounds` (a resize that begins asks for a capacity within the bounds,
whatever was wanted) and `TargetWithinBounds` (so does handle_update for the new
bounds).  None of the invariants is inductive alone.  `AlwaysAccounted` and `AlwaysCooled` need that,
before anything was muddled, one handler at most is between its look at the cooldown and its stamp
(`Alone`), that what it has loaded is what is stored (`Current`), and that the age
of the last resize is that of the stamp or the handler that has not yet stamped
is known (`Cooled`); together they are `Separate`.  `AlwaysWithinBounds` needs that there is one
update, at work on a stack that is IN_PROGRESS until state_set (`OneUpdate`, `AtWork`), that
what each handler may still write is allowed by the bounds it works with (`Allowed`),
that templates name no instance still to be created (`NoneFresh`), and
`Following`: unless it is loose, an update takes the group from what the former bounds allow
to what the new ones do, and a rollback takes it back the same way (`Takes`), with the copy
of the nested stack that the update has left it.

**`StackServiceProofs`.**  `TypeCorrect`, `RuleAlwaysFollows`, `TimersAlwaysSurvive`, for any number of engines
and requests.  `Owned` says that only the owner of the lock is at work on a stack.
Before anything strayed, the owner's copy is the stored stack (`Seeing`), an evaluation
under way has loaded the rule there is (`Evaluated`), and `Progress` says for
each kind of request which resources are in which state after which part of its `todo`
(`CreateDone`, `SuspendDone`, `ResumeDone`, `DeleteDone`, `UpdateDone`, the last for rollbacks too); `Settled` says
the same of a stack that is COMPLETE; one that is bare has a rule only if it was abandoned.  That an alarm that can be evaluated always has a policy that is
found is then the dependency of the alarm on the policy, which orders both ways.
`MutexRefined` closes the gap to the lock: with `busy` mapped to the requests at work, the requests of `StackService`
are admitted and leave as in `StackMutex`, which is also what `StackLock` implements up to
a breach.  (There a killed thread gives the lock back before it has ended, finding 1; in `StackService` it ends at once.)

**Only model-checked.**  Liveness (`Answered`, `LockReturned`, `StaleLockYields`, `Terminates`,
`OperationEnds`, `Ends`, `WaitEnds`, `EnoughCompletes`), since the prover does not reason
about fairness and ENABLED; the counterexamples (among them `RolledBack` and
`DeletedWithStack` of `StackUpdate`).  Of some of the former the part that is not fairness is
proved: `NeverStuck` for `Terminates`, `NoTaskStuck` for `OperationEnds`, `LoopNears` for `Ends`,
`WaitsRunOut` for `WaitEnds` and `EnoughNotMissed` for `EnoughCompletes`.

## 6. Not modelled

* The contents of resources: a plug-in's calls are one action that succeeds or fails.
* In `StackUpdate`, a resource that the stored template names and that has no row is
  taken for absent (`Load`).  In the code it is an object in state INIT, which an update whose
  definition of it is unchanged takes for updated instead of creating it.  A stack that can be updated
  has such names only after a thread or an engine stopped between the last state_set and the
  write after it; the properties of rows and templates except these stacks (`torn`), and `StackService` models
  the case (`Bare`).
* Nested stacks as stacks: `RollingReplace` takes a nested update as one step that
  gets through or fails with any part of its changes made, `ScalingGroup` as its
  three writes to the nested stack's row; what the load balancer is told is left out.
* Restart of a resource, deletion policies, snapshots, previews; the name and quota
  checks of create_stack; the read-only calls.
* The statistics of a watch rule: which state an evaluation finds is a free choice, and
  NORMAL, for which the rule has no actions here, is not told from NODATA.  Samples,
  set_watch_state and alarms that Ceilometer evaluates.  A failure of the database or of
  Keystone in the periodic task, which ends a timer as any exception does.
* The time an engine is down: `Restart` is its death and its start, and until then it
  is one that does nothing.
* The signed URLs of handles and policies, and the wording of reasons and events.
* Time: a timeout may happen whenever something is waited for; only `PauseTime` and the
  Cooldown of a group are counted.
* What `PROJECT.json` lists as not_modelled, with the reason for each.

## 7. Plan

What is left, in this order.

1. `PollingTaskGroup` and `wrappertask` added to the scheduler.
2. `StackService` extended by the name and quota checks of create_stack
   (`engine/service.py:390`), which needs several stacks, and by restart_resource.
3. `WaitSignals` extended by `Fn::GetAtt Data` and the number of signals that the
   message of a timeout reports.
4. Nested stacks in general: creation and deletion through `StackResource`, composed
   with the life cycle of the parent.
5. Of liveness, what is not yet proved: that each task runs only so many steps
   (`NeverStuck` and `NoTaskStuck` say only that something can go on), and the same of the
   requests of `StackLock` (`Answered`, `LockReturned`).
