------------------------------ MODULE StackLock ------------------------------
(***************************************************************************)
(* The stack lock of heat-engine: heat/engine/stack_lock.py, the           *)
(* stack_lock_* transactions of heat/db/sqlalchemy/api.py, and the parts   *)
(* of heat/engine/service.py that take the lock, run a stack operation in  *)
(* a green thread under it and release it (ThreadGroupManager,             *)
(* EngineListener.stop_stack, EngineService.delete_stack).                 *)
(*                                                                         *)
(* Locks of different stacks share nothing, so the module follows one      *)
(* stack.  Several engines serve requests for it.  A request is a          *)
(* create/update/suspend/resume/abandon (Ops: start_with_lock) or a delete *)
(* (Deletes: delete_stack).  A request handler and the thread it spawns    *)
(* never run at the same time, so pc[r] follows the handler first and its  *)
(* thread afterwards.                                                      *)
(*                                                                         *)
(* Every database session gives its connection back when it ends, and the  *)
(* pool's checkin hook yields to the other green threads: each database    *)
(* statement is an action, and whatever can happen happens between two.    *)
(***************************************************************************)
CONSTANTS
  Engines,      \* engine ids; an engine that restarts has a new id
  NoEngine,     \* the stack_lock table has no row for the stack
  Ops,          \* requests that use start_with_lock
  Deletes,      \* delete_stack requests
  SlowReplies   \* TRUE: a live engine may answer after the RPC timeout

Requests == Ops \cup Deletes

ASSUME NoEngineAssumption == NoEngine \notin Engines
ASSUME RequestsAssumption == Ops \cap Deletes = {}
ASSUME SlowRepliesAssumption == SlowReplies \in BOOLEAN

VARIABLES
  alive,    \* the engines that have not crashed
  lock,     \* engine_id of the stack's row in stack_lock, or NoEngine
  stored,   \* the stack's row is not (soft-)deleted
  pc,       \* where the request, and then its thread, is
  host,     \* the engine that serves the request
  seen,     \* the engine_id the request last read from the lock row
  found,    \* stack_lock_steal: the row existed when it was read
  retry,    \* the retry argument of acquire
  inbox,    \* delete requests whose stop_stack call is undelivered
  forced,   \* history: delete_stack released a row it had not acquired
  usurped   \* history: the lock was stolen from a live engine

vars == <<alive, lock, stored, pc, host, seen, found, retry, inbox,
          forced, usurped>>

(***************************************************************************)
(* Program counters.  Working: between getting the lock and giving it      *)
(* back.  Over: answered for good, or lost with its engine.                *)
(***************************************************************************)
Working == {"spawn", "unwind", "running", "stopping", "release"}
Over    == {"done", "refused", "failed", "crashed"}
Labels  == {"idle", "create", "insert", "check", "stealread", "steal", "try",
            "own", "force", "remote", "await", "reload"} \cup Working \cup Over

Holders == {r \in Requests : pc[r] \in Working}

Goto(r, from, to) == pc[r] = from /\ pc' = [pc EXCEPT ![r] = to]

Init ==
  /\ alive = Engines
  /\ lock = NoEngine
  /\ stored = TRUE
  /\ pc = [r \in Requests |-> "idle"]
  /\ host = [r \in Requests |-> NoEngine]
  /\ seen = [r \in Requests |-> NoEngine]
  /\ found = [r \in Requests |-> FALSE]
  /\ retry = [r \in Requests |-> TRUE]
  /\ inbox = {}
  /\ forced = FALSE
  /\ usurped = FALSE

(* A live engine takes the request and loads the stack; StackNotFound once *)
(* the stack is deleted.                                                   *)
Begin(r, e) ==
  /\ e \in alive
  /\ Goto(r, "idle", IF ~stored THEN "failed"
                     ELSE IF r \in Deletes THEN "try" ELSE "create")
  /\ host' = [host EXCEPT ![r] = e]
  /\ UNCHANGED <<alive, lock, stored, seen, found, retry, inbox, forced,
                 usurped>>

-----------------------------------------------------------------------------
(***************************************************************************)
(* StackLock.acquire and the transactions under it.                        *)
(***************************************************************************)

(* stack_lock_create finds no row ... *)
CreateFree(r) ==
  /\ lock = NoEngine
  /\ \/ Goto(r, "create", "insert")
     \/ Goto(r, "try", "insert")
  /\ UNCHANGED <<alive, lock, stored, host, seen, found, retry, inbox, forced,
                 usurped>>

(* Mutant: stack_id is not the primary key of stack_lock. *)
CreateInsertAnyway(r) ==
  /\ Goto(r, "insert", "spawn") /\ lock' = host[r]
  /\ UNCHANGED <<alive, stored, host, seen, found, retry, inbox, forced,
                 usurped>>

(* ... and inserts one.  The primary key refuses a second row, and the     *)
(* duplicate-key error ends the request.                                   *)
CreateInsert(r) ==
  /\ IF lock = NoEngine
       THEN Goto(r, "insert", "spawn") /\ lock' = host[r]
       ELSE Goto(r, "insert", "refused") /\ UNCHANGED lock
  /\ UNCHANGED <<alive, stored, host, seen, found, retry, inbox, forced,
                 usurped>>

(* Mutant: any row means ActionInProgress. *)
AcquireOwnedGivesUp(r) ==
  /\ lock # NoEngine
  /\ Goto(r, "create", "refused")
  /\ UNCHANGED <<alive, lock, stored, host, seen, found, retry, inbox, forced,
                 usurped>>

(* acquire reads a row: ActionInProgress if it is this engine's own,       *)
(* otherwise the owner is asked whether it is alive.                       *)
AcquireOwned(r) ==
  /\ lock # NoEngine
  /\ Goto(r, "create", IF lock = host[r] THEN "refused" ELSE "check")
  /\ seen' = [seen EXCEPT ![r] = lock]
  /\ UNCHANGED <<alive, lock, stored, host, found, retry, inbox, forced,
                 usurped>>

(* _engine_alive: the owner's listener answers in time. *)
OwnerAlive(r) ==
  /\ seen[r] \in alive
  /\ Goto(r, "check", "refused")
  /\ UNCHANGED <<alive, lock, stored, host, seen, found, retry, inbox, forced,
                 usurped>>

(* Mutant: the owner is not asked. *)
OwnerNotAsked(r) ==
  /\ Goto(r, "check", "stealread")
  /\ UNCHANGED <<alive, lock, stored, host, seen, found, retry, inbox, forced,
                 usurped>>

(* _engine_alive: rpc Timeout, which is taken for the owner's death. *)
OwnerTimeout(r) ==
  /\ seen[r] \notin alive \/ SlowReplies
  /\ Goto(r, "check", "stealread")
  /\ UNCHANGED <<alive, lock, stored, host, seen, found, retry, inbox, forced,
                 usurped>>

(* Mutant: the row itself is kept, not whether there was one. *)
StealReadRow(r) ==
  /\ Goto(r, "stealread", "steal")
  /\ found' = [found EXCEPT ![r] = lock]
  /\ UNCHANGED <<alive, lock, stored, host, seen, retry, inbox, forced,
                 usurped>>

(* stack_lock_steal: the query that only serves to report the winner. *)
StealRead(r) ==
  /\ Goto(r, "stealread", "steal")
  /\ found' = [found EXCEPT ![r] = lock # NoEngine]
  /\ UNCHANGED <<alive, lock, stored, host, seen, retry, inbox, forced,
                 usurped>>

(* stack_lock_steal: UPDATE ... WHERE engine_id = the owner seen, ... *)
StealUpdate(r) ==
  /\ lock = seen[r]
  /\ Goto(r, "steal", "spawn")
  /\ lock' = host[r]
  /\ usurped' = (usurped \/ seen[r] \in alive)
  /\ UNCHANGED <<alive, stored, host, seen, found, retry, inbox, forced>>

(* ... which changes no row: acquire once more if the row was gone and     *)
(* this was the first attempt, else ActionInProgress.                      *)
StealMissed(r) ==
  /\ lock # seen[r]
  /\ Goto(r, "steal", IF ~found[r] /\ retry[r] THEN "create" ELSE "refused")
  /\ retry' = [retry EXCEPT ![r] = FALSE]
  /\ UNCHANGED <<alive, lock, stored, host, seen, found, inbox, forced,
                 usurped>>

-----------------------------------------------------------------------------
(***************************************************************************)
(* start_with_acquired_lock and the thread it starts.                      *)
(***************************************************************************)

(* The thread is in its engine's thread group, and release is linked. *)
Spawn(r) ==
  /\ Goto(r, "spawn", "running")
  /\ UNCHANGED <<alive, lock, stored, host, seen, found, retry, inbox, forced,
                 usurped>>

(* Mutant: no except clause around the start of the thread. *)
SpawnFailsLocked(r) ==
  /\ Goto(r, "spawn", "failed")
  /\ UNCHANGED <<alive, lock, stored, host, seen, found, retry, inbox, forced,
                 usurped>>

(* The thread cannot be started: the except clause releases the lock. *)
SpawnFails(r) ==
  /\ Goto(r, "spawn", "unwind")
  /\ UNCHANGED <<alive, lock, stored, host, seen, found, retry, inbox, forced,
                 usurped>>

(* The operation deletes the stack's row: Stack.delete, also as the        *)
(* rollback of a create.                                                   *)
SoftDelete(r) ==
  /\ pc[r] = "running"
  /\ stored /\ stored' = FALSE
  /\ UNCHANGED <<alive, lock, pc, host, seen, found, retry, inbox, forced,
                 usurped>>

(* Mutant: a killed thread does not run its link callbacks. *)
FinishUnlinked(r) ==
  /\ \/ Goto(r, "running", "release")
     \/ Goto(r, "stopping", "done")
  /\ UNCHANGED <<alive, lock, stored, host, seen, found, retry, inbox, forced,
                 usurped>>

(* The thread's function returns or raises, or a killed thread is through  *)
(* with the handlers its GreenletExit unwinds.                             *)
Finish(r) ==
  /\ \/ Goto(r, "running", "release")
     \/ Goto(r, "stopping", "release")
  /\ UNCHANGED <<alive, lock, stored, host, seen, found, retry, inbox, forced,
                 usurped>>

(* StackLock.release, in the thread's link callback or in the except       *)
(* clause: DELETE ... WHERE engine_id = this engine.                       *)
Release(r) ==
  /\ \/ Goto(r, "release", "done")
     \/ Goto(r, "unwind", "failed")
  /\ lock' = IF lock = host[r] THEN NoEngine ELSE lock
  /\ UNCHANGED <<alive, stored, host, seen, found, retry, inbox, forced,
                 usurped>>

-----------------------------------------------------------------------------
(***************************************************************************)
(* delete_stack: stop the thread at work, then take the lock.              *)
(***************************************************************************)

(* try_acquire reads a row. *)
TryOwned(r) ==
  /\ lock # NoEngine
  /\ Goto(r, "try", IF lock = host[r] THEN "own" ELSE "remote")
  /\ seen' = [seen EXCEPT ![r] = lock]
  /\ UNCHANGED <<alive, lock, stored, host, found, retry, inbox, forced,
                 usurped>>

(* ThreadGroupManager.stop on engine e: every thread of the stack's group  *)
(* is killed and the group dropped.  A killed thread unwinds on its own.   *)
Killed(e) ==
  [q \in Requests |->
     IF pc[q] = "running" /\ host[q] = e THEN "stopping" ELSE pc[q]]

OwnStop(r) ==
  /\ pc[r] = "own"
  /\ pc' = [Killed(host[r]) EXCEPT ![r] = "force"]
  /\ UNCHANGED <<alive, lock, stored, host, seen, found, retry, inbox, forced,
                 usurped>>

(* stack_lock_release by the handler, on behalf of the thread it stopped. *)
ForceRelease(r) ==
  /\ Goto(r, "force", "reload")
  /\ lock' = IF lock = host[r] THEN NoEngine ELSE lock
  /\ forced' = (forced \/ lock = host[r])
  /\ UNCHANGED <<alive, stored, host, seen, found, retry, inbox, usurped>>

(* remote_stop: call stop_stack on the engine that owns the row. *)
SendStop(r) ==
  /\ Goto(r, "remote", "await")
  /\ inbox' = inbox \cup {r}
  /\ UNCHANGED <<alive, lock, stored, host, seen, found, retry, forced,
                 usurped>>

(* EngineListener.stop_stack, whether or not the caller still waits. *)
HandleStop(r) ==
  /\ r \in inbox /\ seen[r] \in alive
  /\ inbox' = inbox \ {r}
  /\ pc' = Killed(seen[r])
  /\ UNCHANGED <<alive, lock, stored, host, seen, found, retry, forced,
                 usurped>>

StopReply(r) ==
  /\ r \notin inbox
  /\ Goto(r, "await", "reload")
  /\ UNCHANGED <<alive, lock, stored, host, seen, found, retry, inbox, forced,
                 usurped>>

(* Mutant: remote_stop waits for the reply without a timeout. *)
StopTimeoutNever(r) ==
  /\ r \notin inbox
  /\ Goto(r, "await", "failed")
  /\ UNCHANGED <<alive, lock, stored, host, seen, found, retry, inbox, forced,
                 usurped>>

(* rpc Timeout: StopActionFailed. *)
StopTimeout(r) ==
  /\ seen[r] \notin alive \/ SlowReplies
  /\ Goto(r, "await", "failed")
  /\ UNCHANGED <<alive, lock, stored, host, seen, found, retry, inbox, forced,
                 usurped>>

(* The stack is read again before start_with_lock. *)
Reload(r) ==
  /\ Goto(r, "reload", IF stored THEN "create" ELSE "failed")
  /\ UNCHANGED <<alive, lock, stored, host, seen, found, retry, inbox, forced,
                 usurped>>

-----------------------------------------------------------------------------
(* An engine process dies, and everything it was doing with it. *)
Crash(e) ==
  /\ e \in alive
  /\ alive' = alive \ {e}
  /\ pc' = [r \in Requests |->
              IF host[r] = e /\ pc[r] \notin Over THEN "crashed" ELSE pc[r]]
  /\ UNCHANGED <<lock, stored, host, seen, found, retry, inbox, forced,
                 usurped>>

Step(r) ==
  \/ CreateFree(r) \/ CreateInsert(r) \/ AcquireOwned(r)
  \/ OwnerAlive(r) \/ OwnerTimeout(r)
  \/ StealRead(r) \/ StealUpdate(r) \/ StealMissed(r)
  \/ Spawn(r) \/ Finish(r) \/ Release(r)
  \/ TryOwned(r) \/ OwnStop(r) \/ ForceRelease(r)
  \/ SendStop(r) \/ StopReply(r) \/ StopTimeout(r) \/ Reload(r)

Next ==
  \/ \E r \in Requests :
       \/ Step(r) \/ SpawnFails(r) \/ SoftDelete(r) \/ HandleStop(r)
       \/ \E e \in Engines : Begin(r, e)
  \/ \E e \in Engines : Crash(e)

Spec == Init /\ [][Next]_vars

(***************************************************************************)
(* Green threads of a live engine are scheduled, an RPC call ends with a   *)
(* reply or a timeout, and a stack operation ends (its TaskRunner has a    *)
(* timeout).  Requests need not come and engines need not crash.           *)
(***************************************************************************)
Fairness == \A r \in Requests : WF_vars(Step(r)) /\ WF_vars(HandleStop(r))

FairSpec == Spec /\ Fairness

-----------------------------------------------------------------------------
TypeOK ==
  /\ alive \subseteq Engines
  /\ lock \in Engines \cup {NoEngine}
  /\ stored \in BOOLEAN
  /\ pc \in [Requests -> Labels]
  /\ host \in [Requests -> Engines \cup {NoEngine}]
  /\ seen \in [Requests -> Engines \cup {NoEngine}]
  /\ found \in [Requests -> BOOLEAN]
  /\ retry \in [Requests -> BOOLEAN]
  /\ inbox \subseteq Requests
  /\ forced \in BOOLEAN
  /\ usurped \in BOOLEAN

(* One operation at a time on a stack, whatever is raced, killed, stolen   *)
(* or crashed, unless delete_stack took away a row that was not its own or *)
(* a live engine was taken for dead: whoever is between getting the lock   *)
(* and releasing it is alone there, and the row names its engine           *)
(* (StackLock.acquire, start_with_acquired_lock).                          *)
Exclusive ==
  ~forced /\ ~usurped =>
    /\ \A r \in Holders : lock = host[r]
    /\ \A r, q \in Holders : r = q

(* A row that names a live engine is never orphaned: some request of that  *)
(* engine is still to release it, also after forced releases and thefts    *)
(* (otherwise every later acquire raises ActionInProgress for ever).       *)
OwnerWorks ==
  lock \in alive => \E r \in Holders : host[r] = lock

(* If engines answer in time, a row passes directly from one engine to     *)
(* another only after the first engine's death (acquire's check of the     *)
(* owner, and the engine_id in the UPDATE of stack_lock_steal).            *)
StolenFromDead ==
  [][~SlowReplies /\ lock \in Engines /\ lock' \in Engines /\ lock' # lock
       => lock \notin alive]_vars

(* What start_with_lock documents: "Release the lock when the thread       *)
(* finishes", so not before: a thread at work is covered by the row.       *)
LockedUntilFinished ==
  \A r \in Requests : pc[r] \in {"running", "stopping"} => lock = host[r]

(* Every request a live engine has begun is answered. *)
Answered ==
  \A r \in Requests : pc[r] # "idle" ~> pc[r] \in Over

(* A dead engine's row does not outlive the next acquire: as soon as a     *)
(* request tries to take the lock, the row changes hands or that request's *)
(* engine dies as well.                                                    *)
StaleLockYields ==
  \A r \in Requests, e \in Engines :
    (pc[r] = "create" /\ lock = e /\ e \notin alive)
      ~> (lock # e \/ pc[r] = "crashed")

(* A live engine gives the row back. *)
LockReturned ==
  \A e \in Engines : lock = e ~> (lock # e \/ e \notin alive)

(* The operations between getting and releasing the lock, as the abstract  *)
(* mutex sees them.                                                        *)
Mutex == INSTANCE StackMutex WITH busy <- Holders

(* Operations that never meet a delete_stack, on engines that answer in    *)
(* time, are admitted to the stack one at a time: every step of the lock   *)
(* protocol is a step of the abstract mutex or leaves it alone.            *)
RefinesMutex == Mutex!Spec
=============================================================================
