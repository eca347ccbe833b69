----------------------------- MODULE StackUpdate -----------------------------
(***************************************************************************)
(* The life of one stack's resources: Stack.create, Stack.update (with its *)
(* rollback) and Stack.delete of heat/engine/parser.py, the StackUpdate    *)
(* task of heat/engine/update.py, the resource methods they drive          *)
(* (create, update, delete and destroy of heat/engine/resource.py), and    *)
(* what all of them leave in the database.                                 *)
(*                                                                         *)
(* An update keeps the resources it replaces in a backup stack, a second   *)
(* stack row owned by the first, until their replacements exist.  Between  *)
(* two operations only the database remains; an operation first loads the  *)
(* stack from it, and knows the resources that the stored template names.  *)
(*                                                                         *)
(* The tasks of an operation run in a DependencyTaskGroup (see TaskGroup): *)
(* a task starts when all it requires are done, and when one raises all    *)
(* others are cancelled.                                                   *)
(***************************************************************************)
EXTENDS Naturals, FiniteSets

CONSTANTS
  Names,      \* logical resource names
  Templates,  \* functions from names to definitions; see Needs
  Ids,        \* ids of resource rows (and of what they stand for)
  Nothing,    \* no row, no stack, no template
  Faults,     \* what may go wrong: a subset of FaultKinds
  Rollbacks,  \* the values disable_rollback may have, negated
  MaxOps      \* bound on the number of operations

(* An update or rollback that ended FAILED, a killed thread, a dead engine. *)
Incidents == {"failed", "kill", "crash"}

FaultKinds == {"create", "update", "delete", "timeout", "kill", "crash"}

ASSUME FaultsAssumption == Faults \subseteq FaultKinds
ASSUME RollbacksAssumption == Rollbacks \subseteq BOOLEAN
ASSUME MaxOpsAssumption == MaxOps \in Nat

(* A template defines some of the names. *)
ASSUME TemplatesAssumption == \A t \in Templates : DOMAIN t \subseteq Names

Definitions == UNION {{t[n] : n \in DOMAIN t} : t \in Templates}

(* A definition is a record whose field needs holds the names it refers to. *)
Needs(d) == d.needs

(* What Stack.validate lets pass: references lead to resources of the      *)
(* template (InvalidTemplateReference), and never in a circle              *)
(* (CircularDependencyException).                                          *)
Valid(t) ==
  /\ \A n \in DOMAIN t : Needs(t[n]) \subseteq DOMAIN t
  /\ \A S \in SUBSET DOMAIN t :
       S # {} => \E n \in S : Needs(t[n]) \cap S = {}

ASSUME ValidAssumption == IsFiniteSet(Names) /\ \A t \in Templates : Valid(t)

StackType ==
  [action : {"CREATE", "UPDATE", "ROLLBACK", "DELETE"},
   status : {"IN_PROGRESS", "COMPLETE", "FAILED"},
   template : Templates, rollback : BOOLEAN]

RowType ==
  [stack : {"main", "backup"}, name : Names, def : Definitions,
   action : {"CREATE", "UPDATE", "DELETE"},
   status : {"IN_PROGRESS", "COMPLETE", "FAILED"}]

ASSUME NothingAssumption ==
  /\ Nothing \notin Ids
  /\ Nothing \notin Templates
  /\ Nothing \notin StackType
  /\ Nothing \notin RowType

VARIABLES
  stack,    \* the stack's row: action, status, template, rollback
  backup,   \* the template of the backup stack, or Nothing
  row,      \* the resource rows, with the definition the object has
  phys,     \* the rows' real-world resources that exist
  phase,    \* what the running operation is at
  target,   \* template of newstack
  rolling,  \* update_task's action is ROLLBACK
  ex,       \* the dictionary existing_stack: name to resource
  prev,     \* the dictionary previous_stack (the backup stack)
  first,    \* existing_stack when the group's graph was made
  edges,    \* the requirements between the group's tasks
  stage,    \* where each task is
  outcome,  \* how the group has fared
  ops,      \* operations so far
  torn      \* history: how operations have been cut short; see Incidents

db   == <<stack, backup, row, phys>>
mem  == <<target, rolling, ex, prev, first, edges, stage, outcome>>
vars == <<db, phase, mem, ops, torn>>

Tasks  == {"new", "old"} \X Names
Phases == {"idle", "create", "clean", "update", "trim", "flip", "unback", "delete"}
Stages == {"wait", "updating", "replace", "purging", "creating", "destroying",
           "done"}

Empty == [n \in Names |-> Nothing]

Init ==
  /\ stack = Nothing /\ backup = Nothing
  /\ row = [i \in Ids |-> Nothing]
  /\ phys = {}
  /\ phase = "idle"
  /\ target = Nothing /\ rolling = FALSE
  /\ ex = Empty /\ prev = Empty /\ first = Empty
  /\ edges = {} /\ stage = [k \in Tasks |-> "done"]
  /\ outcome = "ok"
  /\ ops = 0 /\ torn = {}

-----------------------------------------------------------------------------
(***************************************************************************)
(* Rows and dictionaries.                                                  *)
(***************************************************************************)
Rows(s) == {i \in Ids : row[i] # Nothing /\ row[i].stack = s}

(* Stack.resources after a load: a name of the template without a row is   *)
(* an object in state INIT, which is taken for none here.  It is none for  *)
(* a backup stack and for what destroys; only a StackUpdate would take one *)
(* that the new template defines alike for updated, and not create it.     *)
(* A stack that an update may begin with has such names only after a       *)
(* thread or an engine stopped between the last state_set and the write    *)
(* after it (store, stack_delete): see torn.                               *)
Load(s, t) ==
  [n \in Names |->
     IF n \in DOMAIN t /\ \E i \in Rows(s) : row[i].name = n
     THEN CHOOSE i \in Rows(s) : row[i].name = n
     ELSE Nothing]

(* The objects loaded for a stack have the definitions of its template.    *)
Reload(s, t) ==
  [i \in Ids |-> IF i \in Rows(s) /\ row[i].name \in DOMAIN t
                 THEN [row[i] EXCEPT !.def = t[row[i].name]]
                 ELSE row[i]]

(* A stack's resources and those of its backup, if there is one. *)
ReloadBoth(t, b) ==
  [i \in Ids |-> IF b # Nothing /\ i \in Rows("backup") THEN Reload("backup", b)[i]
                 ELSE Reload("main", t)[i]]

Drop(rows, s) ==
  [i \in Ids |-> IF rows[i] # Nothing /\ rows[i].stack = s THEN Nothing
                 ELSE rows[i]]

Free  == {i \in Ids : row[i] = Nothing /\ i \notin phys}
Fresh == CHOOSE i \in Free : TRUE

Set(rows, i, action, status) ==
  [rows EXCEPT ![i].action = action, ![i].status = status]

-----------------------------------------------------------------------------
(***************************************************************************)
(* Graphs of tasks, as sets of pairs <<requirer, required>>.               *)
(***************************************************************************)
Present(dict) == {n \in Names : dict[n] # Nothing}

(* Create and update in the order of the new template. *)
CreateEdges(t) ==
  {<<<<"new", q[1]>>, <<"new", q[2]>>>> :
     q \in {p \in (DOMAIN t) \X (DOMAIN t) : p[2] \in Needs(t[p[1]])}}

(* Destroy in the reverse order of the resources of a dictionary. *)
DestroyEdges(rows, dict) ==
  {<<<<"old", q[1]>>, <<"old", q[2]>>>> :
     q \in {p \in Present(dict) \X Present(dict) :
              p[1] \in Needs(rows[dict[p[2]]].def)}}

(* Mutant: the old resources are removed in no particular order. *)
UpdateEdgesNewOnly(rows, dict, t) ==
  CreateEdges(t)
    \cup {<<<<"old", n>>, <<"new", n>>>> : n \in Present(dict) \cap DOMAIN t}

(* StackUpdate.dependencies: both, and an old resource is cleaned up only  *)
(* after it has been replaced.                                             *)
UpdateEdges(rows, dict, t) ==
  CreateEdges(t) \cup DestroyEdges(rows, dict)
    \cup {<<<<"old", n>>, <<"new", n>>>> : n \in Present(dict) \cap DOMAIN t}

StartGroup(p, nodes, es) ==
  /\ phase' = p
  /\ edges' = es
  /\ stage' = [k \in Tasks |-> IF k \in nodes THEN "wait" ELSE "done"]
  /\ outcome' = "ok"

Olds(dict) == {"old"} \X Present(dict)

StartDestroys(p, rows, dict) == StartGroup(p, Olds(dict), DestroyEdges(rows, dict))

Move(k, from, to) ==
  /\ outcome = "ok"
  /\ stage[k] = from
  /\ stage' = [stage EXCEPT ![k] = to]

Start(k, to) ==
  /\ \A j \in Tasks : <<k, j>> \in edges => stage[j] = "done"
  /\ Move(k, "wait", to)

Finished == outcome = "ok" /\ \A k \in Tasks : stage[k] = "done"

-----------------------------------------------------------------------------
(***************************************************************************)
(* The tasks of a create or an update: _process_new_resource_update.       *)
(***************************************************************************)

(* Resource.update compares the snippets with their references resolved:   *)
(* a resource differs if its definition does, or one it refers to has been *)
(* exchanged.                                                              *)
Changed(n) ==
  \/ row[ex[n]].def # target[n]
  \/ \E m \in Needs(target[n]) : ex[m] # first[m]

Unchanged(n) ==
  /\ ex[n] # Nothing /\ ~Changed(n)
  /\ Start(<<"new", n>>, "done")
  /\ UNCHANGED <<db, phase, target, rolling, ex, prev, first, edges, outcome,
                 ops, torn>>

(* "Resource update already requested": an earlier update of the resource  *)
(* was abandoned.                                                          *)
UpdateRefused(n) ==
  /\ ex[n] # Nothing /\ Changed(n)
  /\ row[ex[n]].action \in {"CREATE", "UPDATE"}
  /\ row[ex[n]].status = "IN_PROGRESS"
  /\ Start(<<"new", n>>, "done")
  /\ outcome' = "failure"
  /\ UNCHANGED <<db, phase, target, rolling, ex, prev, first, edges, ops, torn>>

StartUpdate(n) ==
  /\ ex[n] # Nothing /\ Changed(n)
  /\ ~(row[ex[n]].action \in {"CREATE", "UPDATE"} /\ row[ex[n]].status = "IN_PROGRESS")
  /\ Start(<<"new", n>>, "updating")
  /\ row' = Set(row, ex[n], "UPDATE", "IN_PROGRESS")
  /\ UNCHANGED <<stack, backup, phys, phase, target, rolling, ex, prev, first,
                 edges, outcome, ops, torn>>

UpdatedInPlace(n) ==
  /\ Move(<<"new", n>>, "updating", "done")
  /\ row' = [Set(row, ex[n], "UPDATE", "COMPLETE") EXCEPT ![ex[n]].def = target[n]]
  /\ UNCHANGED <<stack, backup, phys, phase, target, rolling, ex, prev, first,
                 edges, outcome, ops, torn>>

(* handle_update raises UpdateReplace; the state stays IN_PROGRESS. *)
UpdateReplace(n) ==
  /\ Move(<<"new", n>>, "updating", "replace")
  /\ UNCHANGED <<db, phase, target, rolling, ex, prev, first, edges, outcome,
                 ops, torn>>

(* _create_resource: the backup resource is in a valid state, and takes    *)
(* the place of the existing one.                                          *)
SwapIn(n) ==
  /\ prev[n] # Nothing /\ row[prev[n]].status = "COMPLETE"
  /\ Move(<<"new", n>>, "replace", "done")
  /\ row' = [row EXCEPT ![prev[n]].stack = "main", ![ex[n]].stack = "backup"]
  /\ ex' = [ex EXCEPT ![n] = prev[n]]
  /\ prev' = [prev EXCEPT ![n] = ex[n]]
  /\ UNCHANGED <<stack, backup, phys, phase, target, rolling, first, edges,
                 outcome, ops, torn>>

(* The backup resource is in no valid state: it is destroyed first. *)
Purge(n) ==
  /\ prev[n] # Nothing /\ row[prev[n]].status # "COMPLETE"
  /\ \/ Move(<<"new", n>>, "replace", "purging")
     \/ ex[n] = Nothing /\ Start(<<"new", n>>, "purging")
  /\ row' = Set(row, prev[n], "DELETE", "IN_PROGRESS")
  /\ UNCHANGED <<stack, backup, phys, phase, target, rolling, ex, prev, first,
                 edges, outcome, ops, torn>>

Purged(n) ==
  /\ Move(<<"new", n>>, "purging", "replace")
  /\ row' = [row EXCEPT ![prev[n]] = Nothing]
  /\ phys' = phys \ {prev[n]}
  /\ prev' = [prev EXCEPT ![n] = Nothing]
  /\ UNCHANGED <<stack, backup, phase, target, rolling, ex, first, edges,
                 outcome, ops, torn>>

(* Mutant: the existing resource is forgotten when its replacement is made. *)
CreateNoBackup(n) ==
  /\ prev[n] = Nothing /\ Free # {}
  /\ \/ Move(<<"new", n>>, "replace", "creating")
     \/ ex[n] = Nothing /\ Start(<<"new", n>>, "creating")
  /\ row' = [row EXCEPT ![Fresh] = [stack |-> "main", name |-> n, def |-> target[n],
                                    action |-> "CREATE", status |-> "IN_PROGRESS"]]
  /\ phys' = phys \cup {Fresh}
  /\ ex' = [ex EXCEPT ![n] = Fresh]
  /\ UNCHANGED <<stack, backup, phase, target, rolling, prev, first, edges,
                 outcome, ops, torn>>

(* The existing resource, if there is one, goes to the backup stack and is *)
(* declared UPDATE_COMPLETE; the new one is created.                       *)
Create(n) ==
  /\ prev[n] = Nothing /\ Free # {}
  /\ \/ Move(<<"new", n>>, "replace", "creating")
     \/ ex[n] = Nothing /\ Start(<<"new", n>>, "creating")
  /\ LET kept == IF ex[n] = Nothing THEN row
                 ELSE [Set(row, ex[n], "UPDATE", "COMPLETE")
                         EXCEPT ![ex[n]].stack = "backup"]
     IN row' = [kept EXCEPT ![Fresh] =
                  [stack |-> "main", name |-> n, def |-> target[n],
                   action |-> "CREATE", status |-> "IN_PROGRESS"]]
  /\ phys' = phys \cup {Fresh}
  /\ ex' = [ex EXCEPT ![n] = Fresh]
  /\ prev' = [prev EXCEPT ![n] = ex[n]]
  /\ UNCHANGED <<stack, backup, phase, target, rolling, first, edges, outcome,
                 ops, torn>>

Created(n) ==
  /\ Move(<<"new", n>>, "creating", "done")
  /\ row' = Set(row, ex[n], "CREATE", "COMPLETE")
  /\ UNCHANGED <<stack, backup, phys, phase, target, rolling, ex, prev, first,
                 edges, outcome, ops, torn>>

-----------------------------------------------------------------------------
(***************************************************************************)
(* The tasks that destroy: Resource.destroy of a stack's or the backup     *)
(* stack's resources, and _process_existing_resource_update.               *)
(***************************************************************************)

(* Mutant: the backup of a replaced resource is left to the last. *)
DoomedExisting(n) ==
  IF phase = "delete" THEN ex[n]
  ELSE IF phase # "update" THEN prev[n]
  ELSE IF n \notin DOMAIN target THEN ex[n]
  ELSE Nothing

(* The resource the task of n is to destroy next. *)
Doomed(n) ==
  IF phase = "delete" THEN ex[n]
  ELSE IF phase # "update" \/ prev[n] # Nothing THEN prev[n]
  ELSE IF n \notin DOMAIN target THEN ex[n]
  ELSE Nothing

StartDestroy(n) ==
  /\ Doomed(n) # Nothing
  /\ Start(<<"old", n>>, "destroying")
  /\ row' = Set(row, Doomed(n), "DELETE", "IN_PROGRESS")
  /\ UNCHANGED <<stack, backup, phys, phase, target, rolling, ex, prev, first,
                 edges, outcome, ops, torn>>

(* The real resource is gone, and the row is removed. *)
Destroyed(n) ==
  /\ Move(<<"old", n>>, "destroying", "wait")
  /\ phys' = phys \ {Doomed(n)}
  /\ row' = [row EXCEPT ![Doomed(n)] = Nothing]
  /\ IF Doomed(n) = prev[n]
       THEN prev' = [prev EXCEPT ![n] = Nothing] /\ UNCHANGED ex
       ELSE ex' = [ex EXCEPT ![n] = Nothing] /\ UNCHANGED prev
  /\ UNCHANGED <<stack, backup, phase, target, rolling, first, edges, outcome,
                 ops, torn>>

NothingToDestroy(n) ==
  /\ Doomed(n) = Nothing
  /\ Start(<<"old", n>>, "done")
  /\ UNCHANGED <<db, phase, target, rolling, ex, prev, first, edges, outcome,
                 ops, torn>>

-----------------------------------------------------------------------------
(***************************************************************************)
(* Failures.  A cancelled create or delete leaves FAILED ("aborted"); a    *)
(* cancelled update leaves its resource UPDATE_IN_PROGRESS, since          *)
(* Resource.update has no handler for it.                                  *)
(***************************************************************************)
Cut ==
  {ex[n] : n \in {m \in Names : stage[<<"new", m>>] = "creating"}}
    \cup {prev[n] : n \in {m \in Names : stage[<<"new", m>>] = "purging"}}
    \cup {Doomed(n) : n \in {m \in Names : stage[<<"old", m>>] = "destroying"}}

(* Mutant: an aborted action has a status of its own. *)
AbortedUnknown ==
  [i \in Ids |-> IF i \in Cut THEN [row[i] EXCEPT !.status = "ABORTED"] ELSE row[i]]

Aborted ==
  [i \in Ids |-> IF i \in Cut THEN [row[i] EXCEPT !.status = "FAILED"] ELSE row[i]]

Fail(kind, rows, how) ==
  /\ kind \in Faults
  /\ outcome = "ok" /\ outcome' = how
  /\ row' = rows
  /\ UNCHANGED <<stack, backup, phys, phase, target, rolling, ex, prev, first,
                 edges, stage, ops, torn>>

CreateFails(n) ==
  stage[<<"new", n>>] = "creating" /\ Fail("create", Aborted, "failure")

UpdateFails(n) ==
  /\ stage[<<"new", n>>] = "updating"
  /\ Fail("update", Set(Aborted, ex[n], "UPDATE", "FAILED"), "failure")

DestroyFails(n) ==
  /\ \/ stage[<<"new", n>>] = "purging"
     \/ stage[<<"old", n>>] = "destroying"
  /\ Fail("delete", Aborted, "failure")

(* The timeout of the group's TaskRunner, thrown in where the group waits  *)
(* for a task.                                                             *)
Timeout ==
  /\ phase \notin {"idle", "flip"} /\ ~Finished
  /\ Fail("timeout", Aborted, "timeout")

Forget ==
  /\ phase' = "idle"
  /\ target' = Nothing /\ rolling' = FALSE
  /\ ex' = Empty /\ prev' = Empty /\ first' = Empty
  /\ edges' = {} /\ stage' = [k \in Tasks |-> "done"]
  /\ outcome' = "ok"

(* delete_stack kills the thread: the tasks are cancelled, nothing else of *)
(* the operation runs.                                                     *)
Kill ==
  /\ "kill" \in Faults /\ phase # "idle"
  /\ torn' = torn \cup {"kill"}
  /\ row' = IF outcome = "ok" THEN Aborted ELSE row
  /\ Forget
  /\ UNCHANGED <<stack, backup, phys, ops>>

(* The engine dies.  Nothing runs. *)
Crash ==
  /\ "crash" \in Faults /\ phase # "idle"
  /\ torn' = torn \cup {"crash"}
  /\ Forget
  /\ UNCHANGED <<db, ops>>

-----------------------------------------------------------------------------
(***************************************************************************)
(* Operations.                                                             *)
(***************************************************************************)
Begin == phase = "idle" /\ ops < MaxOps /\ ops' = ops + 1 /\ UNCHANGED torn

State(action, status) ==
  stack' = [stack EXCEPT !.action = action, !.status = status]

BeginCreate(t, r) ==
  /\ Begin /\ stack = Nothing
  /\ stack' = [action |-> "CREATE", status |-> "IN_PROGRESS", template |-> t,
               rollback |-> r]
  /\ target' = t
  /\ StartGroup("create", {"new"} \X (DOMAIN t), CreateEdges(t))
  /\ UNCHANGED <<backup, row, phys, rolling, ex, prev, first>>

CreateEnds ==
  /\ phase = "create"
  /\ \/ Finished /\ State("CREATE", "COMPLETE")
     \/ (outcome # "ok" /\ ~stack.rollback) /\ State("CREATE", "FAILED")
  /\ Forget
  /\ UNCHANGED <<backup, row, phys, ops, torn>>

(* The rollback of a create: Stack.delete of the resources in memory. *)
CreateRollback ==
  /\ phase = "create" /\ outcome # "ok" /\ stack.rollback
  /\ State("ROLLBACK", "IN_PROGRESS")
  /\ StartDestroys("delete", row, ex)
  /\ UNCHANGED <<backup, row, phys, target, rolling, ex, prev, first, ops, torn>>

(* update_stack and update_task: the backup stack is created if there is   *)
(* none, and what it still holds is destroyed first.                       *)
BeginUpdate(t) ==
  /\ Begin /\ stack # Nothing /\ stack.status = "COMPLETE"
  /\ State("UPDATE", "IN_PROGRESS")
  /\ backup' = IF backup = Nothing THEN stack.template ELSE backup
  /\ row' = ReloadBoth(stack.template, backup')
  /\ target' = t /\ rolling' = FALSE
  /\ ex' = Load("main", stack.template)
  /\ prev' = Load("backup", backup')
  /\ StartDestroys("clean", row', prev')
  /\ UNCHANGED <<phys, first>>

(* "State invalid for UPDATE". *)
UpdateInvalid ==
  /\ Begin /\ stack # Nothing /\ stack.status = "FAILED"
  /\ State("UPDATE", "FAILED")
  /\ UNCHANGED <<backup, row, phys, phase, mem>>

Align ==
  /\ phase = "clean" /\ Finished
  /\ first' = ex
  /\ StartGroup("update", Olds(ex) \cup {"new"} \X (DOMAIN target),
                UpdateEdges(row, ex, target))
  /\ UNCHANGED <<db, target, rolling, ex, prev, ops, torn>>

(* The names whose new definition has been put in place: the object keeps  *)
(* it with its references resolved (self.t of Resource.update), so that no *)
(* dependency is found in it again before the stack is loaded anew.        *)
Resolved ==
  {n \in DOMAIN target :
     /\ phase = "update" /\ stage[<<"new", n>>] = "done"
     /\ ex[n] # Nothing /\ ex[n] = first[n] /\ row[ex[n]].status = "COMPLETE"
     /\ \/ target[n] # stack.template[n]
        \/ \E m \in Needs(target[n]) : ex[m] # first[m]}

(* Any task, required by the removal of a resource in Resolved. *)
Severed == Tasks \X ({"old"} \X Resolved)

RollBackEdges(t) == UpdateEdges(row, ex, t) \ Severed

(* Mutant: the rollback does not look at the backup stack. *)
RollBackAfresh ==
  /\ phase \in {"clean", "update"} /\ outcome = "failure"
  /\ ~rolling /\ stack.rollback
  /\ rolling' = TRUE
  /\ target' = stack.template
  /\ first' = ex
  /\ prev' = Empty
  /\ row' = row
  /\ StartGroup("update", Olds(ex) \cup {"new"} \X (DOMAIN target'),
                RollBackEdges(stack.template))
  /\ UNCHANGED <<stack, backup, phys, ex, ops, torn>>

(* The update failed: another update, with the existing template, and with *)
(* the backup stack loaded anew.                                           *)
RollBack ==
  /\ phase \in {"clean", "update"} /\ outcome = "failure"
  /\ ~rolling /\ stack.rollback
  /\ rolling' = TRUE
  /\ target' = stack.template
  /\ first' = ex
  /\ prev' = Load("backup", backup)
  /\ row' = Reload("backup", backup)
  /\ StartGroup("update", Olds(ex) \cup {"new"} \X (DOMAIN target'),
                RollBackEdges(stack.template))
  /\ UNCHANGED <<stack, backup, phys, ex, ops, torn>>

UpdateAction == IF rolling THEN "ROLLBACK" ELSE "UPDATE"

(* Mutant: no except clause for the Timeout. *)
UpdateFailedOnly ==
  /\ phase \in {"clean", "update"}
  /\ outcome = "failure" /\ (rolling \/ ~stack.rollback)
  /\ State(UpdateAction, "FAILED")
  /\ phase' = "flip"
  /\ torn' = torn \cup {"failed"}
  /\ UNCHANGED <<backup, row, phys, mem, ops>>

(* The update, or the rollback, failed for good: the resources stay where  *)
(* they are.                                                               *)
UpdateFailed ==
  /\ phase \in {"clean", "update"}
  /\ \/ outcome = "timeout"
     \/ outcome = "failure" /\ (rolling \/ ~stack.rollback)
  /\ State(UpdateAction, "FAILED")
  /\ phase' = "flip"
  /\ torn' = torn \cup {"failed"}
  /\ UNCHANGED <<backup, row, phys, mem, ops>>

(* All resources are aligned: the backup stack is deleted. *)
Trim ==
  /\ phase = "update" /\ Finished
  /\ StartDestroys("trim", row, prev)
  /\ UNCHANGED <<db, target, rolling, ex, prev, first, ops, torn>>

(* Whether the backup stack could be deleted makes no difference to the    *)
(* result.                                                                 *)
Trimmed ==
  /\ phase = "trim" /\ (Finished \/ outcome # "ok")
  /\ IF Finished
       THEN backup' = Nothing /\ row' = Drop(row, "backup")
       ELSE UNCHANGED <<backup, row>>
  /\ State(UpdateAction, "COMPLETE")
  /\ phase' = "flip"
  /\ UNCHANGED <<phys, mem, ops, torn>>

(* Mutant: the stored template stays the one the stack was created from. *)
FlipForgotten ==
  /\ phase = "flip"
  /\ Forget
  /\ UNCHANGED <<db, ops, torn>>

(* The template is flipped to the new one, on success and on failure. *)
Flip ==
  /\ phase = "flip"
  /\ stack' = [stack EXCEPT !.template = target]
  /\ Forget
  /\ UNCHANGED <<backup, row, phys, ops, torn>>

(* delete_stack: the backup stack's resources first. *)
BeginDelete ==
  /\ Begin /\ stack # Nothing
  /\ State("DELETE", "IN_PROGRESS")
  /\ row' = ReloadBoth(stack.template, backup)
  /\ ex' = Load("main", stack.template)
  /\ prev' = IF backup = Nothing THEN Empty ELSE Load("backup", backup)
  /\ IF backup = Nothing
       THEN StartDestroys("delete", row', ex')
       ELSE StartDestroys("unback", row', prev')
  /\ UNCHANGED <<backup, phys, target, rolling, first>>

Unbacked ==
  /\ phase = "unback" /\ Finished
  /\ backup' = Nothing /\ row' = Drop(row, "backup")
  /\ StartDestroys("delete", row', ex)
  /\ UNCHANGED <<stack, phys, target, rolling, ex, prev, first, ops, torn>>

DeleteFailed ==
  /\ phase \in {"unback", "delete"} /\ outcome # "ok"
  /\ State(stack.action, "FAILED")
  /\ Forget
  /\ UNCHANGED <<backup, row, phys, ops, torn>>

(* All resources are destroyed, and the state says so. *)
DeleteDone ==
  /\ phase = "delete" /\ Finished /\ stack.status = "IN_PROGRESS"
  /\ State(stack.action, "COMPLETE")
  /\ UNCHANGED <<backup, row, phys, phase, mem, ops, torn>>

(* stack_delete: the stack's row goes, and every resource row it still has. *)
Deleted ==
  /\ phase = "delete" /\ Finished /\ stack.status = "COMPLETE"
  /\ stack' = Nothing /\ row' = Drop(row, "main")
  /\ Forget
  /\ UNCHANGED <<backup, phys, ops, torn>>

-----------------------------------------------------------------------------
NewTask(n) ==
  /\ phase \in {"create", "update"} /\ n \in DOMAIN target
  /\ \/ Unchanged(n) \/ UpdateRefused(n) \/ StartUpdate(n)
     \/ UpdatedInPlace(n) \/ UpdateReplace(n)
     \/ SwapIn(n) \/ Purge(n) \/ Purged(n) \/ Create(n) \/ Created(n)

OldTask(n) == StartDestroy(n) \/ Destroyed(n) \/ NothingToDestroy(n)

Continue ==
  \/ CreateEnds \/ CreateRollback
  \/ Align \/ RollBack \/ UpdateFailed \/ Trim \/ Trimmed \/ Flip
  \/ Unbacked \/ DeleteFailed \/ DeleteDone \/ Deleted

Next ==
  \/ \E n \in Names : \/ NewTask(n) \/ OldTask(n)
                      \/ CreateFails(n) \/ UpdateFails(n) \/ DestroyFails(n)
  \/ Continue
  \/ \E t \in Templates : \/ BeginUpdate(t)
                          \/ \E r \in Rollbacks : BeginCreate(t, r)
  \/ UpdateInvalid \/ BeginDelete
  \/ Timeout \/ Kill \/ Crash

Spec == Init /\ [][Next]_vars

(***************************************************************************)
(* The thread keeps stepping its tasks, and a resource's action ends.      *)
(***************************************************************************)
Fairness ==
  /\ WF_vars(Continue)
  /\ \A n \in Names : WF_vars(NewTask(n)) /\ WF_vars(OldTask(n))

FairSpec == Spec /\ Fairness

-----------------------------------------------------------------------------
Dictionary == [Names -> Ids \cup {Nothing}]

TypeOK ==
  /\ stack \in StackType \cup {Nothing}
  /\ backup \in Templates \cup {Nothing}
  /\ row \in [Ids -> RowType \cup {Nothing}]
  /\ phys \subseteq Ids
  /\ phase \in Phases
  /\ target \in Templates \cup {Nothing}
  /\ rolling \in BOOLEAN
  /\ ex \in Dictionary /\ prev \in Dictionary /\ first \in Dictionary
  /\ edges \subseteq Tasks \X Tasks
  /\ stage \in [Tasks -> Stages]
  /\ outcome \in {"ok", "failure", "timeout"}
  /\ ops \in 0..MaxOps
  /\ torn \subseteq Incidents

(* A stack never has two rows for one name: a load finds the one by name   *)
(* and stack (resource_get_by_name_and_stack) and would lose the other.    *)
(* A killed or crashed update leaves rows its template does not name, and  *)
(* only then may a later update add a second one.                          *)
OneRowEach ==
  torn \cap {"kill", "crash"} = {} =>
    \A i, j \in Ids :
      /\ row[i] # Nothing /\ row[j] # Nothing
      /\ row[i].stack = row[j].stack /\ row[i].name = row[j].name
      => i = j

(* The stored template of a COMPLETE stack names exactly the resources it  *)
(* has, each by the definition it was given: what the next update compares *)
(* with, and what a delete destroys.  So it is after updates and rollbacks *)
(* that replaced, swapped back, purged and removed resources in any order; *)
(* a thread that stops between state_set and store breaks it.              *)
TemplateTells ==
  /\ torn \subseteq {"failed"}
  /\ phase = "idle" /\ stack # Nothing /\ stack.status = "COMPLETE"
  => /\ {row[i].name : i \in Rows("main")} = DOMAIN stack.template
     /\ \A i \in Rows("main") : row[i].def = stack.template[row[i].name]

(* As long as every update completed, or was rolled back completely, every *)
(* real resource is in a row of the stack or of its backup, and none       *)
(* survives the deletion of the stack.                                     *)
NothingLost ==
  torn = {} => \A i \in phys : row[i] # Nothing

(* When the resources are aligned, the backup stack is empty: what has     *)
(* been replaced, or swapped out again, was removed by the group's own     *)
(* tasks, so that the silent failure of backup_stack.delete loses nothing. *)
BackupEmptied ==
  phase = "trim" => prev = Empty

(* "Don't cleanup old resources until after they have been replaced": an   *)
(* update destroys a resource only when the new template has no such name, *)
(* or its replacement is complete, and when no resource of the stack that  *)
(* still has an old definition refers to it.  (Rows that a killed or       *)
(* crashed update left behind are unknown to a later one.)                 *)
CleanUpLast ==
  [][phase = "update" /\ ~rolling /\ torn \cap {"kill", "crash"} = {} =>
       \A i \in phys \ phys' :
         LET n == row[i].name IN
           /\ n \in DOMAIN target =>
                \E j \in Rows("main") \ {i} :
                  /\ row[j].name = n /\ row[j].def = target[n]
                  /\ row[j].status = "COMPLETE"
           /\ \A j \in Rows("main") :
                n \in Needs(row[j].def) =>
                  /\ row[j].name \in DOMAIN target
                  /\ row[j].def = target[row[j].name]]_vars

(* Every operation ends: no task of a graph that joins two templates'      *)
(* dependencies waits for ever, and no failure leaves a thread stuck.      *)
OperationEnds == phase # "idle" ~> phase = "idle"

(* "so we roll back to the original state" (update_task): after a complete *)
(* rollback every resource is complete, and as the old template has it.    *)
RolledBack ==
  /\ phase = "idle" /\ stack # Nothing
  /\ stack.action = "ROLLBACK" /\ stack.status = "COMPLETE"
  => \A i \in Rows("main") :
       /\ row[i].status = "COMPLETE"
       /\ row[i].def = stack.template[row[i].name]

(* "Note we do this on success and failure, so the current stack resources *)
(* are stored ... (otherwise we won't remove them on delete)": deleting    *)
(* the stack removes its resources.                                        *)
DeletedWithStack ==
  phase = "idle" /\ stack = Nothing => phys = {}
=============================================================================
