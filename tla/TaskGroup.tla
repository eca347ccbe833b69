------------------------------ MODULE TaskGroup ------------------------------
(***************************************************************************)
(* heat.engine.scheduler.DependencyTaskGroup: the co-routine that creates, *)
(* updates, suspends, resumes and deletes a stack's resources in           *)
(* dependency order, with the TaskRunner of each task and the mutable      *)
(* heat.engine.dependencies.Graph it consumes.                             *)
(*                                                                         *)
(* Tasks are scheduled cooperatively: starting or stepping one runs its    *)
(* body up to the next yield, return or exception, with nothing else in    *)
(* between.  The dictionaries are walked in an order of their own, so any  *)
(* order is possible.  A task is a co-routine, or (Plain) an ordinary      *)
(* function that ends within start().                                      *)
(***************************************************************************)
EXTENDS FiniteSets

CONSTANTS
  Tasks,
  Plain,        \* the tasks that are not resumable
  Graphs        \* dependency relations: sets of <<requirer, required>>

ASSUME PlainAssumption == Plain \subseteq Tasks
ASSUME GraphsAssumption == Graphs \subseteq SUBSET (Tasks \X Tasks)

VARIABLES
  edges,      \* the Dependencies the group is made from
  aggregate,  \* the flag aggregate_exceptions
  phase,      \* where the constructor or the co-routine is
  unsorted,   \* the nodes toposort has not yielded yet
  nodes,      \* the keys of self._graph
  require,    \* Node.require of each key
  satisfy,    \* Node.satisfy of each key
  runner,     \* the TaskRunner of each task
  visited,    \* the runners this pass of _running has gone over
  ran,        \* history: the tasks whose body has run, be it in part
  raised      \* the tasks whose exceptions are in raised_exceptions

vars == <<edges, aggregate, phase, unsorted, nodes, require, satisfy, runner,
          visited, ran, raised>>

(***************************************************************************)
(* A runner is new, active (started, not done) or done, and then how:      *)
(* the task returned, it raised, it was cancelled after it started         *)
(* (cancelled) or before (dropped), or it was started once more after that *)
(* (revived).                                                              *)
(***************************************************************************)
RunnerState == {"new", "active", "returned", "failed", "cancelled", "dropped",
                "revived"}
Started(t) == runner[t] \in {"active", "returned", "failed", "cancelled", "revived"}
Done(t)    == runner[t] \notin {"new", "active"}

Phases == {"sort", "circular", "loop", "start", "yield", "step", "complete",
           "failed", "aborted"}
Ended  == {"circular", "complete", "failed", "aborted"}

Requires(t)   == {u \in Tasks : <<t, u>> \in edges}
RequiredBy(t) == {u \in Tasks : <<u, t>> \in edges}

Init ==
  /\ edges \in Graphs
  /\ aggregate \in BOOLEAN
  /\ phase = "sort"
  /\ unsorted = Tasks
  /\ nodes = Tasks
  /\ require = [t \in Tasks |-> Requires(t)]
  /\ satisfy = [t \in Tasks |-> RequiredBy(t)]
  /\ runner = [t \in Tasks |-> "new"]
  /\ visited = {}
  /\ ran = {}
  /\ raised = {}

-----------------------------------------------------------------------------
(***************************************************************************)
(* The constructor walks Dependencies.__iter__, a topological sort of a    *)
(* copy of the graph, to make the runners.                                 *)
(***************************************************************************)
Leaves == {t \in unsorted : Requires(t) \cap unsorted = {}}

Sort(t) ==
  /\ phase = "sort" /\ t \in Leaves
  /\ unsorted' = unsorted \ {t}
  /\ UNCHANGED <<edges, aggregate, phase, nodes, require, satisfy, runner,
                 visited, ran, raised>>

(* Mutant: toposort ends without the check for a cycle. *)
SortedAnyway ==
  /\ phase = "sort" /\ Leaves = {}
  /\ phase' = "loop"
  /\ UNCHANGED <<edges, aggregate, unsorted, nodes, require, satisfy, runner,
                 visited, ran, raised>>

(* All nodes are yielded, or nodes are left and none of them is a leaf.    *)
Sorted ==
  /\ phase = "sort" /\ Leaves = {}
  /\ phase' = IF unsorted = {} THEN "loop" ELSE "circular"
  /\ UNCHANGED <<edges, aggregate, unsorted, nodes, require, satisfy, runner,
                 visited, ran, raised>>

-----------------------------------------------------------------------------
(***************************************************************************)
(* Graph.__delitem__ and _cancel_recursively.  The graph is a defaultdict: *)
(* looking up a requirer that is gone puts an empty node in its place.     *)
(***************************************************************************)
(* Mutant: the requirers keep the deleted key. *)
RemoveKey(t) == nodes' = nodes \ {t} /\ UNCHANGED <<require, satisfy>>

Remove(t) ==
  /\ nodes' = (nodes \ {t}) \cup satisfy[t]
  /\ require' = [u \in Tasks |-> IF u \notin satisfy[t] THEN require[u]
                                 ELSE IF u \in nodes THEN require[u] \ {t}
                                 ELSE {}]
  /\ satisfy' = [u \in Tasks |-> IF u \in satisfy[t] \ nodes THEN {}
                                 ELSE satisfy[u]]

(* t and all that depend on it, by the nodes' satisfy sets. *)
Dependents(t) ==
  {u \in Tasks :
     \A S \in SUBSET Tasks :
       t \in S /\ (\A v \in S : satisfy[v] \subseteq S) => u \in S}

Cancel(state) ==
  IF state = "new" THEN "dropped"
  ELSE IF state = "active" THEN "cancelled"
  ELSE state

(* Mutant: a failure has a state nothing knows. *)
RaisedUnknown(t) == IF t \in Plain THEN "dropped" ELSE "raised"

(* A function that raises in start() leaves the runner not started. *)
Raised(t) == IF t \in Plain THEN "dropped" ELSE "failed"

(* Mutant: the failed task alone is cancelled and deleted. *)
CancelOne(t) ==
  /\ runner' = [runner EXCEPT ![t] = Raised(t)]
  /\ Remove(t)

(* Every dependent is cancelled and deleted from the graph before the node *)
(* it depends on, whose deletion looks it up again: an empty node is back. *)
CancelRecursively(t) ==
  LET gone == Dependents(t) IN
    /\ runner' = [u \in Tasks |-> IF u = t THEN Raised(t)
                                  ELSE IF u \in gone THEN Cancel(runner[u])
                                  ELSE runner[u]]
    /\ nodes' = (nodes \cup gone) \ {t}
    /\ require' = [u \in Tasks |-> IF u \in gone \ {t} THEN {} ELSE require[u]]
    /\ satisfy' = [u \in Tasks |-> IF u \in gone \ {t} THEN {} ELSE satisfy[u]]

CancelAll == [u \in Tasks |-> Cancel(runner[u])]

(* Mutant: the flag aggregate_exceptions is ignored. *)
RaiseCancelsAll(t) ==
  /\ runner' = [CancelAll EXCEPT ![t] = Raised(t)]
  /\ raised' = raised \cup {t}
  /\ phase' = "failed"
  /\ UNCHANGED <<nodes, require, satisfy>>

(* The task raises: with aggregate_exceptions its dependents are cancelled *)
(* and the loop goes on, without it the group cancels all its tasks and    *)
(* raises.                                                                 *)
Raise(t) ==
  IF aggregate
  THEN /\ CancelRecursively(t)
       /\ raised' = raised \cup {t}
       /\ phase' = "loop"
  ELSE /\ runner' = [CancelAll EXCEPT ![t] = Raised(t)]
       /\ phase' = "failed"
       /\ UNCHANGED <<nodes, require, satisfy, raised>>

-----------------------------------------------------------------------------
(***************************************************************************)
(* The co-routine's loop.                                                  *)
(***************************************************************************)
Loop ==
  /\ phase = "loop"
  /\ phase' = IF \E t \in Tasks : ~Done(t) THEN "start"
              ELSE IF raised = {} THEN "complete"
              ELSE "failed"
  /\ UNCHANGED <<edges, aggregate, unsorted, nodes, require, satisfy, runner,
                 visited, ran, raised>>

Ready == {t \in nodes : require[t] = {} /\ ~Started(t)}

(* TaskRunner.start of a task never cancelled: the first step. *)
StartNew(t) ==
  /\ phase = "start" /\ t \in Ready /\ runner[t] = "new"
  /\ ran' = ran \cup {t}
  /\ \/ /\ t \notin Plain
        /\ runner' = [runner EXCEPT ![t] = "active"]
        /\ UNCHANGED <<phase, nodes, require, satisfy, raised>>
     \/ /\ runner' = [runner EXCEPT ![t] = "returned"]
        /\ UNCHANGED <<phase, nodes, require, satisfy, raised>>
     \/ Raise(t)
  /\ UNCHANGED <<edges, aggregate, unsorted, visited>>

(* TaskRunner.start of a task that was cancelled: the function is called,  *)
(* a co-routine is not stepped.                                            *)
StartDropped(t) ==
  /\ phase = "start" /\ t \in Ready /\ runner[t] = "dropped"
  /\ ran' = IF t \in Plain THEN ran \cup {t} ELSE ran
  /\ \/ /\ runner' = [runner EXCEPT ![t] = "revived"]
        /\ UNCHANGED <<phase, nodes, require, satisfy, raised>>
     \/ t \in Plain /\ Raise(t)
  /\ UNCHANGED <<edges, aggregate, unsorted, visited>>

(* Nothing more to start: the group yields. *)
Yield ==
  /\ phase = "start" /\ Ready = {}
  /\ phase' = "yield"
  /\ UNCHANGED <<edges, aggregate, unsorted, nodes, require, satisfy, runner,
                 visited, ran, raised>>

Resume ==
  /\ phase = "yield"
  /\ phase' = "step" /\ visited' = {}
  /\ UNCHANGED <<edges, aggregate, unsorted, nodes, require, satisfy, runner,
                 ran, raised>>

(* Mutant: no cancellation when the group is interrupted. *)
AbortOnly ==
  /\ phase = "yield"
  /\ phase' = "aborted"
  /\ UNCHANGED <<edges, aggregate, unsorted, nodes, require, satisfy, runner,
                 visited, ran, raised>>

(* A Timeout is thrown into the group where it yields, or it is closed. *)
Abort ==
  /\ phase = "yield"
  /\ phase' = "aborted"
  /\ runner' = CancelAll
  /\ UNCHANGED <<edges, aggregate, unsorted, nodes, require, satisfy, visited,
                 ran, raised>>

Running(t) == t \in nodes /\ Started(t)

(* _running goes over a runner that is not started or not in the graph. *)
Skip(t) ==
  /\ phase = "step" /\ t \notin visited /\ ~Running(t)
  /\ visited' = visited \cup {t}
  /\ UNCHANGED <<edges, aggregate, phase, unsorted, nodes, require, satisfy,
                 runner, ran, raised>>

(* TaskRunner.step of an active task: it yields again, ... *)
StepYields(t) ==
  /\ phase = "step" /\ t \notin visited /\ Running(t) /\ runner[t] = "active"
  /\ visited' = visited \cup {t}
  /\ UNCHANGED <<edges, aggregate, phase, unsorted, nodes, require, satisfy,
                 runner, ran, raised>>

(* ... or returns, or had returned before: its node is deleted. *)
StepReturns(t) ==
  /\ phase = "step" /\ t \notin visited /\ Running(t)
  /\ visited' = visited \cup {t}
  /\ runner' = [runner EXCEPT ![t] = IF @ = "active" THEN "returned" ELSE @]
  /\ Remove(t)
  /\ UNCHANGED <<edges, aggregate, phase, unsorted, ran, raised>>

(* ... or raises. *)
StepRaises(t) ==
  /\ phase = "step" /\ t \notin visited /\ Running(t) /\ runner[t] = "active"
  /\ Raise(t)
  /\ UNCHANGED <<edges, aggregate, unsorted, visited, ran>>

StepEnds ==
  /\ phase = "step" /\ visited = Tasks
  /\ phase' = "loop"
  /\ UNCHANGED <<edges, aggregate, unsorted, nodes, require, satisfy, runner,
                 visited, ran, raised>>

Start(t) == StartNew(t) \/ StartDropped(t)
Step(t)  == Skip(t) \/ StepYields(t) \/ StepReturns(t) \/ StepRaises(t)

Next ==
  \/ \E t \in Tasks : Sort(t) \/ Start(t) \/ Step(t)
  \/ Sorted \/ Loop \/ Yield \/ Resume \/ Abort \/ StepEnds

Spec == Init /\ [][Next]_vars

(***************************************************************************)
(* The caller keeps stepping the group, and a task stepped again and again *)
(* ends: resource actions poll for a state their service reaches or        *)
(* raise.                                                                  *)
(***************************************************************************)
Fairness ==
  /\ WF_vars(Sorted \/ Loop \/ Yield \/ Resume \/ StepEnds)
  /\ \A t \in Tasks : WF_vars(Sort(t) \/ Start(t) \/ Step(t))
  /\ \A t \in Tasks : SF_vars(StepReturns(t))

FairSpec == Spec /\ Fairness

-----------------------------------------------------------------------------
TypeOK ==
  /\ edges \in Graphs
  /\ aggregate \in BOOLEAN
  /\ phase \in Phases
  /\ unsorted \subseteq Tasks
  /\ nodes \subseteq Tasks
  /\ require \in [Tasks -> SUBSET Tasks]
  /\ satisfy \in [Tasks -> SUBSET Tasks]
  /\ runner \in [Tasks -> RunnerState]
  /\ visited \subseteq Tasks
  /\ ran \subseteq Tasks
  /\ raised \subseteq Tasks

(* A relation is acyclic if every set of tasks has one that requires none  *)
(* of the others.                                                          *)
Acyclic ==
  \A S \in SUBSET Tasks : S # {} => \E t \in S : Requires(t) \cap S = {}

(* The constructor refuses exactly the dependencies no order satisfies     *)
(* (toposort's CircularDependencyException), whichever leaves it takes     *)
(* first; otherwise the group's loop could wait for ever.                  *)
CircularIffCyclic ==
  /\ phase = "circular" => ~Acyclic
  /\ phase \notin {"sort", "circular"} => Acyclic

(* The body of a co-routine runs only when all it requires have returned:  *)
(* not before, and not at all if one of them failed or was cancelled, in   *)
(* spite of the empty nodes that are left of cancelled tasks.              *)
AfterRequirements ==
  \A t \in ran \ Plain : \A u \in Requires(t) : runner[u] = "returned"

(* When the group is over, no task is half-way, and it reports success     *)
(* only if every task ran and returned.                                    *)
NothingLeftBehind ==
  /\ phase \in {"complete", "failed", "aborted"} => \A t \in Tasks : Done(t)
  /\ phase = "complete" => \A t \in Tasks : runner[t] = "returned"

(* With aggregate_exceptions "all the tasks will be run" but those that    *)
(* depend on a failed one: a task that did not return in the end raised or *)
(* requires such a task.                                                   *)
AllTried ==
  phase = "failed" /\ aggregate =>
    \A t \in Tasks :
      runner[t] # "returned" =>
        t \in raised \/ \E u \in Requires(t) : runner[u] # "returned"

(* The group ends: no task waits for one that will not be started.         *)
Terminates == <>(phase \in Ended)

(* The group as the operation that steps it sees it. *)
StageOf(state) ==
  IF state = "new" THEN "wait"
  ELSE IF state = "active" THEN "work"
  ELSE IF state = "returned" THEN "done"
  ELSE "gone"

Stage == [t \in Tasks |-> StageOf(runner[t])]

Result ==
  IF phase = "circular" THEN "refused"
  ELSE IF phase \in {"complete", "failed", "aborted"} THEN phase
  ELSE "open"

Order == INSTANCE TaskOrder WITH stage <- Stage, result <- Result

(* The group is a scheduler of tasks in the order of their requirements,   *)
(* in spite of the graph it takes apart underneath: every step of it, of   *)
(* a cancelled task that is looked up or started again too, is one of the  *)
(* abstract group or leaves it alone.                                      *)
RefinesOrder == Order!Spec
=============================================================================
