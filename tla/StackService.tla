----------------------------- MODULE StackService -----------------------------
(***************************************************************************)
(* One stack as its requests and its periodic tasks see it: EngineService  *)
(* of heat/engine/service.py, Stack.create, update, suspend, resume and    *)
(* delete of parser.py, and the watch rule of an alarm (watchrule.py,      *)
(* resources/cloud_watch.py) that a timer of each engine evaluates.        *)
(*                                                                         *)
(* The stack has a scaling policy and, if its template says so, an alarm   *)
(* that signals it.  A request loads the stack and checks it, and only     *)
(* then takes the lock; the timers never take it.  The lock is that of     *)
(* StackMutex: its owner works or is dead.                                 *)
(***************************************************************************)
EXTENDS Integers, Sequences

CONSTANTS
  Engines,   \* engines, which die and start again
  Creator,   \* the request that creates or adopts the stack
  Requests   \* bound: the requests that follow, each served once

ASSUME CreatorAssumption == Creator \notin Requests

Users    == Requests \cup {Creator}
Nobody   == "nobody"
NoEngine == "none"

ASSUME NobodyAssumption == Nobody \notin Users /\ NoEngine \notin Engines

Resources == {"alarm", "policy"}

VARIABLES
  action, status,  \* of the stack's row
  deleted,         \* the row is (soft-)deleted
  template,        \* the stored template has the alarm
  row,             \* state of each resource's row
  rule,            \* state of the watch rule, or Nothing
  rested,          \* a Period has passed since last_evaluated was written
  lock,            \* the request that has the stack lock
  pc,              \* where a request is
  kind,            \* what it asks for
  at,              \* the engine that serves it
  saw,             \* the stack it has loaded
  target,          \* whether the template an update brings has the alarm
  todo,            \* resources it still has to act on
  timer,           \* the periodic task of an engine for this stack
  stopped,         \* engines whose task ends after the run it is in
  got,             \* the state of the rule a run has loaded or will store
  strayed          \* history: one of the crossings RuleFollowsStack names

work  == <<pc, kind, at, saw, target, todo>>
stack == <<action, status, deleted, template>>
timers == <<timer, stopped, got>>
vars  == <<stack, row, rule, rested, lock, work, timers, strayed>>

(* A creation that fails may become its own removal, and an update that    *)
(* fails another update back to the template before.                       *)
Asked   == {"UPDATE", "SUSPEND", "RESUME", "DELETE", "ABANDON"}
Deletes == {"DELETE", "ABANDON", "UNCREATE"}
Updates == {"UPDATE", "REVERT"}
Kinds   == Asked \cup Deletes \cup Updates \cup {"CREATE", "ADOPT"}
Actions == {"INIT", "CREATE", "ADOPT", "UPDATE", "SUSPEND", "RESUME", "DELETE",
            "ROLLBACK"}
Statuses == {"COMPLETE", "IN_PROGRESS", "FAILED"}
None == "NONE"     \* action and status of a stack that was only stored
Nothing == "nothing"

(* NORMAL has no actions here and is not told from NODATA. *)
WatchStates == {"NODATA", "ALARM"}

Absent == <<"INIT", "COMPLETE">>

Labels == {"idle", "loaded", "again", "begin", "next", "busy", "failed",
           "flip", "erase", "watch", "over"}
TimerLabels == {"none", "sleep", "evaluate", "store", "dead"}

Seen == [action |-> action, status |-> status, template |-> template]

-----------------------------------------------------------------------------
Init ==
  \E k \in {"CREATE", "ADOPT"}, e \in Engines :
    /\ action = None /\ status = None
    /\ deleted = FALSE
    /\ template \in BOOLEAN
    /\ row = [x \in Resources |-> Absent]
    /\ rule = Nothing
    /\ rested = FALSE
    /\ lock = Nobody
    /\ pc = [r \in Users |-> IF r = Creator THEN "loaded" ELSE "idle"]
    /\ kind = [r \in Users |-> k]
    /\ at = [r \in Users |-> e]
    /\ saw = [r \in Users |-> Seen]
    /\ target = [r \in Users |-> FALSE]
    /\ todo = [r \in Users |-> <<>>]
    /\ timer = [f \in Engines |-> "none"]
    /\ stopped = {}
    /\ got = [f \in Engines |-> Nothing]
    /\ strayed = FALSE

StackSame == UNCHANGED <<stack, row, rule, rested>>

Goto(r, from, to) == pc[r] = from /\ pc' = [pc EXCEPT ![r] = to]

Working(r) ==
  pc[r] \in {"begin", "next", "busy", "failed", "flip", "erase", "watch"}

(* The owner's thread is gone: its engine has crashed. *)
OwnerDead == lock # Nobody /\ ~Working(lock)

-----------------------------------------------------------------------------
(***************************************************************************)
(* A request: the stack is loaded and, for an update, its state checked.   *)
(***************************************************************************)
(* Mutant: an update of a suspended stack is not refused. *)
AskAnyway(r, k, e) ==
  /\ Goto(r, "idle", "loaded")
  /\ ~deleted
  /\ k = "UPDATE" => status # "IN_PROGRESS"
  /\ kind' = [kind EXCEPT ![r] = k]
  /\ at' = [at EXCEPT ![r] = e]
  /\ saw' = [saw EXCEPT ![r] = Seen]
  /\ \E t \in BOOLEAN :
       /\ k # "UPDATE" => ~t
       /\ target' = [target EXCEPT ![r] = t]
  /\ StackSame /\ UNCHANGED <<lock, todo, timers, strayed>>

Ask(r, k, e) ==
  /\ Goto(r, "idle", "loaded")
  /\ ~deleted
  /\ k = "UPDATE" => action # "SUSPEND" /\ status # "IN_PROGRESS"
  /\ kind' = [kind EXCEPT ![r] = k]
  /\ at' = [at EXCEPT ![r] = e]
  /\ saw' = [saw EXCEPT ![r] = Seen]
  /\ \E t \in BOOLEAN :
       /\ k # "UPDATE" => ~t
       /\ target' = [target EXCEPT ![r] = t]
  /\ StackSame /\ UNCHANGED <<lock, todo, timers, strayed>>

(* What a request has loaded no longer holds when it gets the lock: its    *)
(* thread works with the template, and an update with the state, of then.  *)
Outdated(r) ==
  \/ saw[r].template # template
  \/ deleted
  \/ kind[r] = "UPDATE" /\ (saw[r].action # action \/ saw[r].status # status)

(* start_with_lock: the lock is free, or stolen from a dead owner, which   *)
(* delete_stack's first try does not do.                                   *)
Acquire(r) ==
  /\ \/ pc[r] = "again" \/ pc[r] = "loaded"
  /\ \/ lock = Nobody
     \/ OwnerDead /\ ~(kind[r] = "DELETE" /\ pc[r] = "loaded")
  /\ lock' = r
  /\ pc' = [pc EXCEPT ![r] = "begin"]
  /\ strayed' = (strayed \/ Outdated(r))
  /\ StackSame /\ UNCHANGED <<kind, at, saw, target, todo, timers>>

(* ActionInProgress, or StopActionFailed for a delete. *)
Refuse(r) ==
  /\ lock # Nobody
  /\ \/ pc[r] = "again" /\ ~OwnerDead
     \/ pc[r] = "loaded" /\ (OwnerDead <=> kind[r] = "DELETE")
  /\ pc' = [pc EXCEPT ![r] = "over"]
  /\ StackSame
  /\ UNCHANGED <<lock, kind, at, saw, target, todo, timers, strayed>>

(* Mutant: abandoning is an action of its own. *)
KindAsIs(r) == kind[r]

(* The stack's action while a request is at work. *)
StackAction(r) ==
  CASE kind[r] = "ABANDON"  -> "DELETE"
    [] kind[r] = "UNCREATE" -> "ROLLBACK"
    [] kind[r] = "REVERT"   -> "UPDATE"
    [] OTHER                -> kind[r]

(* What is done to a resource. *)
ResourceAction(r) ==
  IF kind[r] \in Deletes THEN "DELETE"
  ELSE IF kind[r] \notin Updates THEN kind[r]
  ELSE IF target[r] THEN "CREATE" ELSE "DELETE"

(* A row is made when the resource is created, never before or after. *)
Written(r, x, s) ==
  IF row[x] = Absent /\ ResourceAction(r) \notin {"CREATE", "ADOPT"} THEN row
  ELSE [row EXCEPT ![x] = <<ResourceAction(r), s>>]

(* An update that changes the template and is cut off, or rolled back and  *)
(* then cut off, leaves a template that does not tell which resources      *)
(* there are.                                                              *)
CutOff(r) ==
  /\ kind[r] = "REVERT" \/ (kind[r] = "UPDATE" /\ target[r] # saw[r].template)
  /\ pc[r] \in {"next", "busy", "failed", "flip"}

(* delete_stack stops the owner and every timer its engine has for the     *)
(* stack, and loads the stack once more, if it is still there.  What the   *)
(* owner was doing to a resource is aborted.                               *)
Stop(r) ==
  /\ kind[r] = "DELETE" /\ pc[r] = "loaded"
  /\ lock # Nobody /\ ~OwnerDead
  /\ pc' = [pc EXCEPT ![lock] = "over", ![r] = IF deleted THEN "over" ELSE "again"]
  /\ saw' = [saw EXCEPT ![r] = Seen]
  /\ lock' = Nobody
  /\ LET e == at[lock] IN
       IF timer[e] \in {"evaluate", "store"}
         THEN stopped' = stopped \cup {e} /\ UNCHANGED timer
         ELSE timer' = [timer EXCEPT ![e] = "none"] /\ UNCHANGED stopped
  /\ strayed' = (strayed \/ CutOff(lock))
  /\ row' = IF pc[lock] = "busy" THEN Written(lock, Head(todo[lock]), "FAILED")
            ELSE row
  /\ UNCHANGED <<stack, rule, rested, kind, at, target, todo, got>>

-----------------------------------------------------------------------------
(***************************************************************************)
(* The thread of a request that has the lock: Stack.stack_task,            *)
(* update_task and delete.                                                 *)
(***************************************************************************)
(* Stack.state_set finds no row to write once the stack is deleted. *)
StateSet(a, s) ==
  IF deleted THEN UNCHANGED <<action, status>> ELSE action' = a /\ status' = s

(* In dependency order, the alarm refers to the policy, or the reverse. *)
Plan(r) ==
  LET alarm == saw[r].template IN
  CASE kind[r] \in {"CREATE", "ADOPT", "RESUME"} ->
         IF alarm THEN <<"policy", "alarm">> ELSE <<"policy">>
    [] kind[r] \in {"SUSPEND"} \cup Deletes ->
         IF alarm THEN <<"alarm", "policy">> ELSE <<"policy">>
    [] OTHER -> IF target[r] # alarm THEN <<"alarm">> ELSE <<>>

(* The resources are gone, or were never created. *)
Bare == row["policy"] = Absent

Begin(r) ==
  /\ Goto(r, "begin", "next")
  /\ kind[r] = "UPDATE" => saw[r].status = "COMPLETE"
  /\ StateSet(StackAction(r), "IN_PROGRESS")
  /\ todo' = [todo EXCEPT ![r] = Plan(r)]
  /\ strayed' = (strayed \/ (kind[r] = "UPDATE" /\ Bare))
  /\ UNCHANGED <<deleted, template, row, rule, rested, lock, kind, at, saw,
                 target, timers>>

(* "State invalid for UPDATE"; or a delete cannot remove what an earlier   *)
(* update has left in the backup stack.                                    *)
BeginFails(r) ==
  /\ Goto(r, "begin", "over")
  /\ \/ kind[r] = "UPDATE" /\ saw[r].status # "COMPLETE"
     \/ kind[r] \in {"DELETE", "ABANDON"}
  /\ StateSet(StackAction(r), "FAILED")
  /\ lock' = Nobody
  /\ UNCHANGED <<deleted, template, row, rule, rested, kind, at, saw,
                 target, todo, timers, strayed>>

(* The state a resource must be in. *)
Ready(r, x) ==
  CASE ResourceAction(r) = "SUSPEND" -> row[x][1] # "DELETE" /\ row[x][2] = "COMPLETE"
    [] ResourceAction(r) = "RESUME"  -> row[x] = <<"SUSPEND", "COMPLETE">>
    [] OTHER -> TRUE

Start(r) ==
  /\ pc[r] = "next" /\ todo[r] # <<>>
  /\ LET x == Head(todo[r]) IN
       IF Ready(r, x)
         THEN row' = Written(r, x, "IN_PROGRESS") /\ Goto(r, "next", "busy")
         ELSE UNCHANGED row /\ Goto(r, "next", "failed")
  /\ UNCHANGED <<stack, rule, rested, lock, kind, at, saw, target, todo,
                 timers, strayed>>

(* A run of a timer that has read the rule and will write it. *)
InFlight == \E e \in Engines : timer[e] \in {"evaluate", "store"}

(* CloudWatchAlarm.handle_create, handle_suspend, handle_resume and        *)
(* handle_delete; a resource adopted or retained is let alone, and one     *)
(* without a row has no name to find a rule by, and is not deleted.        *)
Handle(r, x) ==
  LET a == ResourceAction(r) IN
  IF x # "alarm" \/ kind[r] \in {"ADOPT", "ABANDON"} THEN UNCHANGED <<rule, rested>>
  ELSE \/ a = "CREATE" /\ rule' = "NODATA" /\ rested' = FALSE
       \/ /\ a = "DELETE"
          /\ rule' = IF row[x] = Absent THEN rule ELSE Nothing
          /\ UNCHANGED rested
       \/ /\ a \in {"SUSPEND", "RESUME"} /\ row[x] # Absent /\ rule # Nothing
          /\ rule' = IF a = "SUSPEND" THEN "SUSPENDED" ELSE "NODATA"
          /\ UNCHANGED rested

Finish(r) ==
  /\ pc[r] = "busy" /\ todo[r] # <<>>
  /\ LET x == Head(todo[r]) IN
       /\ Handle(r, x)
       /\ row' = IF ResourceAction(r) = "DELETE" THEN [row EXCEPT ![x] = Absent]
                 ELSE Written(r, x, "COMPLETE")
       /\ strayed' = (strayed \/ (InFlight /\ rule' # rule))
  /\ todo' = [todo EXCEPT ![r] = Tail(@)]
  /\ Goto(r, "busy", "next")
  /\ UNCHANGED <<stack, lock, kind, at, saw, target, timers>>

(* The handler fails or does not find the rule, or the thread runs out of  *)
(* time, before or after what it does.                                     *)
FinishFails(r) ==
  /\ Goto(r, "busy", "failed")
  /\ Handle(r, Head(todo[r])) \/ UNCHANGED <<rule, rested>>
  /\ row' = Written(r, Head(todo[r]), "FAILED")
  /\ strayed' = (strayed \/ (InFlight /\ rule' # rule))
  /\ UNCHANGED <<stack, lock, kind, at, saw, target, todo, timers>>

Done(r) == pc[r] = "failed" \/ (pc[r] = "next" /\ todo[r] = <<>>)
Outcome(r) == IF pc[r] = "failed" THEN "FAILED" ELSE "COMPLETE"

(* A stack that was created is watched; if its creation fails, it may be   *)
(* rolled back, that is, deleted.                                          *)
EndCreate(r) ==
  /\ Done(r) /\ kind[r] \in {"CREATE", "ADOPT"}
  /\ StateSet(kind[r], Outcome(r))
  /\ pc' = [pc EXCEPT ![r] = IF pc[r] = "failed" THEN "over" ELSE "watch"]
  /\ lock' = IF pc[r] = "failed" THEN Nobody ELSE lock
  /\ UNCHANGED <<deleted, template, row, rule, rested, kind, at, saw, target,
                 todo, timers, strayed>>

RollBackCreate(r) ==
  /\ Goto(r, "failed", "begin") /\ kind[r] \in {"CREATE", "ADOPT"}
  /\ StateSet(kind[r], "FAILED")
  /\ kind' = [kind EXCEPT ![r] = "UNCREATE"]
  /\ UNCHANGED <<deleted, template, row, rule, rested, lock, at, saw, target,
                 todo, timers, strayed>>

EndSuspendResume(r) ==
  /\ Done(r) /\ kind[r] \in {"SUSPEND", "RESUME"}
  /\ StateSet(kind[r], Outcome(r))
  /\ pc' = [pc EXCEPT ![r] = "over"]
  /\ lock' = Nobody
  /\ UNCHANGED <<deleted, template, row, rule, rested, kind, at, saw, target,
                 todo, timers, strayed>>

(* An update that fails, and not by the timeout, may be rolled back.  The  *)
(* alarm it was to add is removed; the one it was to remove has the        *)
(* definition it had before, and nothing is done to it.                    *)
RollBackUpdate(r) ==
  /\ Goto(r, "failed", "next") /\ kind[r] = "UPDATE"
  /\ kind' = [kind EXCEPT ![r] = "REVERT"]
  /\ target' = [target EXCEPT ![r] = saw[r].template]
  /\ todo' = [todo EXCEPT ![r] = IF target[r] THEN <<"alarm">> ELSE <<>>]
  /\ strayed' = (strayed \/ ~target[r])
  /\ StackSame /\ UNCHANGED <<lock, at, saw, timers>>

(* A stack that was updated, or rolled back, gets its new template however *)
(* that went, in a transaction of its own.                                 *)
EndUpdate(r) ==
  /\ Done(r) /\ kind[r] \in Updates
  /\ StateSet(IF kind[r] = "UPDATE" THEN "UPDATE" ELSE "ROLLBACK", Outcome(r))
  /\ pc' = [pc EXCEPT ![r] = "flip"]
  /\ UNCHANGED <<deleted, template, row, rule, rested, lock, kind, at, saw,
                 target, todo, timers, strayed>>

Flip(r) ==
  /\ Goto(r, "flip", "over")
  /\ template' = IF deleted THEN template ELSE target[r]
  /\ strayed' = (strayed \/ (~target[r] /\ row["alarm"] # Absent))
  /\ lock' = Nobody
  /\ UNCHANGED <<action, status, deleted, row, rule, rested, kind, at, saw,
                 target, todo, timers>>

(* When the resources are gone the delete may still fail, to give back the *)
(* trust or the project of the stack.  If it does not, the stack is        *)
(* COMPLETE before it is gone with the rows of its resources.              *)
EndDelete(r) ==
  /\ Done(r) /\ kind[r] \in Deletes
  /\ \E s \in {Outcome(r), "FAILED"} :
       /\ StateSet(StackAction(r), s)
       /\ pc' = [pc EXCEPT ![r] = IF s = "FAILED" THEN "over" ELSE "erase"]
       /\ lock' = IF s = "FAILED" THEN Nobody ELSE lock
  /\ UNCHANGED <<deleted, template, row, rule, rested, kind, at, saw, target,
                 todo, timers, strayed>>

Erase(r) ==
  /\ Goto(r, "erase", "over")
  /\ deleted' = TRUE /\ row' = [x \in Resources |-> Absent]
  /\ lock' = Nobody
  /\ strayed' = (strayed \/ (InFlight /\ ~deleted))
  /\ UNCHANGED <<action, status, template, rule, rested, kind, at, saw,
                 target, todo, timers>>

(* EngineService._start_watch_task: a timer for a stack with a rule, which *)
(* counts as evaluated now.                                                *)
Watched(e) ==
  IF rule = Nothing THEN UNCHANGED <<timer, rested>>
  ELSE timer' = [timer EXCEPT ![e] = "sleep"] /\ rested' = FALSE

StartWatch(r) ==
  /\ Goto(r, "watch", "over")
  /\ Watched(at[r])
  /\ lock' = Nobody
  /\ UNCHANGED <<stack, row, rule, kind, at, saw, target, todo, stopped,
                 got, strayed>>

-----------------------------------------------------------------------------
(***************************************************************************)
(* The periodic task of an engine: _check_stack_watches and WatchRule.     *)
(***************************************************************************)

(* Mutant: the state of the rule is not looked at. *)
WakeAnyway(e) ==
  /\ timer[e] = "sleep"
  /\ ~deleted
  /\ rule # Nothing /\ rested
  /\ timer' = [timer EXCEPT ![e] = "evaluate"]
  /\ got' = [got EXCEPT ![e] = rule]
  /\ StackSame /\ UNCHANGED <<lock, work, stopped, strayed>>

(* A run loads the stack's rule; it comes to nothing if there is none, if  *)
(* it is SUSPENDED, or if a Period has not passed.                         *)
Wake(e) ==
  /\ timer[e] = "sleep"
  /\ ~deleted
  /\ rule \in WatchStates /\ rested
  /\ timer' = [timer EXCEPT ![e] = "evaluate"]
  /\ got' = [got EXCEPT ![e] = rule]
  /\ StackSame /\ UNCHANGED <<lock, work, stopped, strayed>>

(* Stack.resource_by_refid *)
Found(x) ==
  row[x][1] \in {"CREATE", "RESUME", "UPDATE"} /\ row[x][2] \in {"IN_PROGRESS", "COMPLETE"}

(* The rule has actions for ALARM: the policy's signal, which is looked up *)
(* in a stack that is COMPLETE.                                            *)
ActsOn(s) == s = "ALARM" /\ action # "DELETE" /\ status = "COMPLETE"

(* run_rule decides on a state and looks up what to signal; a resource     *)
(* that is not found is None and has no signal: the exception ends the     *)
(* timer for good.                                                         *)
Evaluate(e, s) ==
  /\ timer[e] = "evaluate"
  /\ IF (s = "ALARM" /\ deleted) \/ (ActsOn(s) /\ ~Found("policy"))
       THEN /\ timer' = [timer EXCEPT ![e] = "dead"]
            /\ got' = [got EXCEPT ![e] = Nothing]
       ELSE /\ timer' = [timer EXCEPT ![e] = "store"]
            /\ got' = [got EXCEPT ![e] = s]
  /\ StackSame /\ UNCHANGED <<lock, work, stopped, strayed>>

(* The state is written whatever it has become; a rule that is gone is     *)
(* another exception.  The actions then run in a thread of the stack's.    *)
Store(e) ==
  /\ timer[e] = "store"
  /\ IF rule = Nothing
       THEN timer' = [timer EXCEPT ![e] = "dead"] /\ UNCHANGED rule
       ELSE /\ timer' = [timer EXCEPT ![e] = IF e \in stopped THEN "none" ELSE "sleep"]
            /\ rule' = got[e]
  /\ stopped' = stopped \ {e}
  /\ got' = [got EXCEPT ![e] = Nothing]
  /\ UNCHANGED <<stack, row, rested, lock, work, strayed>>

PeriodPasses ==
  /\ ~rested
  /\ rested' = TRUE
  /\ UNCHANGED <<stack, row, rule, lock, work, timers, strayed>>

(* EngineService.start watches a stack that is there and has a rule. *)
Restarted(e) ==
  IF deleted \/ rule = Nothing
    THEN timer' = [timer EXCEPT ![e] = "none"] /\ UNCHANGED rested
    ELSE timer' = [timer EXCEPT ![e] = "sleep"] /\ rested' = FALSE

(* An engine dies with its threads and timers and is started again; being  *)
(* down is like doing nothing until then.                                  *)
Restart(e) ==
  /\ pc' = [r \in Users |->
              IF at[r] = e /\ pc[r] # "idle" THEN "over" ELSE pc[r]]
  /\ strayed' = (strayed \/ \E r \in Users : at[r] = e /\ CutOff(r))
  /\ Restarted(e)
  /\ stopped' = stopped \ {e}
  /\ got' = [got EXCEPT ![e] = Nothing]
  /\ UNCHANGED <<stack, row, rule, lock, kind, at, saw, target, todo>>

Request(r) ==
  \/ \E k \in Asked, e \in Engines : Ask(r, k, e)
  \/ Acquire(r) \/ Refuse(r) \/ Stop(r)
  \/ Begin(r) \/ BeginFails(r) \/ Start(r) \/ Finish(r) \/ FinishFails(r)
  \/ EndCreate(r) \/ RollBackCreate(r) \/ StartWatch(r)
  \/ EndSuspendResume(r)
  \/ RollBackUpdate(r) \/ EndUpdate(r) \/ Flip(r)
  \/ EndDelete(r) \/ Erase(r)

Timer(e) ==
  \/ Wake(e) \/ Store(e)
  \/ \E s \in WatchStates : Evaluate(e, s)

Next ==
  \/ \E r \in Users : Request(r)
  \/ \E e \in Engines : Timer(e) \/ Restart(e)
  \/ PeriodPasses

Spec == Init /\ [][Next]_vars

-----------------------------------------------------------------------------
TypeOK ==
  /\ action \in Actions \cup {None}
  /\ status \in Statuses \cup {None}
  /\ deleted \in BOOLEAN /\ template \in BOOLEAN
  /\ row \in [Resources -> Actions \X Statuses]
  /\ rule \in WatchStates \cup {"SUSPENDED", Nothing}
  /\ rested \in BOOLEAN
  /\ lock \in Users \cup {Nobody}
  /\ pc \in [Users -> Labels]
  /\ kind \in [Users -> Kinds]
  /\ at \in [Users -> Engines]
  /\ saw \in [Users -> [action : Actions \cup {None}, status : Statuses \cup {None},
                        template : BOOLEAN]]
  /\ target \in [Users -> BOOLEAN]
  /\ todo \in [Users -> Seq(Resources)]
  /\ timer \in [Engines -> TimerLabels]
  /\ stopped \subseteq Engines
  /\ got \in [Engines -> WatchStates \cup {Nothing}]
  /\ strayed \in BOOLEAN

Adopted == kind[Creator] = "ADOPT"

(* A stack at rest and its watch rule agree, whatever requests, crashes    *)
(* and timers went before: the rule is SUSPENDED as long as the stack is,  *)
(* it is there if and only if the template has the alarm, and it goes with *)
(* the stack's resources, the policy among them - unless a request worked  *)
(* on an outdated copy of the stack, an evaluation was in flight when the  *)
(* rule was written, an update that removes or adds the alarm was cut off  *)
(* or failed, or one was made of a stack without resources, which a delete *)
(* cut off after it was COMPLETE leaves; an adopted alarm has no rule, and *)
(* abandoning a stack leaves it (handle_suspend, handle_resume, run_rule). *)
RuleFollowsStack ==
  (~strayed /\ status = "COMPLETE" /\ \A r \in Users : pc[r] # "flip") =>
    IF deleted \/ Bare
      THEN rule = Nothing \/ \E r \in Users : kind[r] = "ABANDON"
      ELSE /\ rule # Nothing => (rule = "SUSPENDED" <=> action = "SUSPEND")
           /\ ~Adopted => (rule # Nothing <=> template)

(* No evaluation raises: a timer goes on until its engine or its stack is  *)
(* stopped, unless the stack was adopted or has strayed in one of these    *)
(* ways (rule_actions, watch_rule_update, FixedIntervalLoopingCall).       *)
TimersSurvive ==
  ~strayed /\ ~Adopted => \A e \in Engines : timer[e] # "dead"
=============================================================================
