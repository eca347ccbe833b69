--------------------------- MODULE StackLockProofs ---------------------------
(***************************************************************************)
(* What StackLock guarantees for any engines and any requests.             *)
(***************************************************************************)
EXTENDS StackLock, TLAPS

(* A request in progress, and its thread, live on an engine that does. *)
HostAlive ==
  \A r \in Requests : pc[r] \notin Over \cup {"idle"} => host[r] \in alive

(* Without slow replies a request that goes about stealing the lock has    *)
(* seen an engine that is dead and stays so.                               *)
VictimDead ==
  ~SlowReplies =>
    \A r \in Requests : pc[r] \in {"stealread", "steal"} => seen[r] \notin alive

(* All the variables keep to their types in every step of the protocol. *)
THEOREM TypeCorrect == Spec => []TypeOK
<1>1. Init => TypeOK
  BY DEF Init, TypeOK, Labels
<1>2. TypeOK /\ [Next]_vars => TypeOK'
  <2> SUFFICES ASSUME TypeOK, [Next]_vars PROVE TypeOK'
    OBVIOUS
  <2> USE DEF TypeOK, Labels, Working, Over, Goto
  <2>1. CASE UNCHANGED vars
    BY <2>1 DEF vars
  <2>2. ASSUME NEW r \in Requests, Step(r) PROVE TypeOK'
    <3>1. CASE CreateFree(r) BY <3>1 DEF CreateFree
    <3>2. CASE CreateInsert(r) BY <3>2 DEF CreateInsert
    <3>3. CASE AcquireOwned(r) BY <3>3 DEF AcquireOwned
    <3>4. CASE OwnerAlive(r) BY <3>4 DEF OwnerAlive
    <3>5. CASE OwnerTimeout(r) BY <3>5 DEF OwnerTimeout
    <3>6. CASE StealRead(r) BY <3>6 DEF StealRead
    <3>7. CASE StealUpdate(r) BY <3>7 DEF StealUpdate
    <3>8. CASE StealMissed(r) BY <3>8 DEF StealMissed
    <3>9. CASE Spawn(r) BY <3>9 DEF Spawn
    <3>10. CASE Finish(r) BY <3>10 DEF Finish
    <3>11. CASE Release(r) BY <3>11 DEF Release
    <3>12. CASE TryOwned(r) BY <3>12 DEF TryOwned
    <3>13. CASE OwnStop(r) BY <3>13 DEF OwnStop, Killed
    <3>14. CASE ForceRelease(r) BY <3>14 DEF ForceRelease
    <3>15. CASE SendStop(r) BY <3>15 DEF SendStop
    <3>16. CASE StopReply(r) BY <3>16 DEF StopReply
    <3>17. CASE StopTimeout(r) BY <3>17 DEF StopTimeout
    <3>18. CASE Reload(r) BY <3>18 DEF Reload
    <3> QED
      BY <2>2, <3>1, <3>2, <3>3, <3>4, <3>5, <3>6, <3>7, <3>8, <3>9, <3>10,
         <3>11, <3>12, <3>13, <3>14, <3>15, <3>16, <3>17, <3>18 DEF Step
  <2>3. ASSUME NEW r \in Requests, SpawnFails(r) PROVE TypeOK'
    BY <2>3 DEF SpawnFails
  <2>4. ASSUME NEW r \in Requests, SoftDelete(r) PROVE TypeOK'
    BY <2>4 DEF SoftDelete
  <2>5. ASSUME NEW r \in Requests, HandleStop(r) PROVE TypeOK'
    BY <2>5 DEF HandleStop, Killed
  <2>6. ASSUME NEW r \in Requests, NEW e \in Engines, Begin(r, e) PROVE TypeOK'
    BY <2>6 DEF Begin
  <2>7. ASSUME NEW e \in Engines, Crash(e) PROVE TypeOK'
    BY <2>7 DEF Crash
  <2> QED
    BY <2>1, <2>2, <2>3, <2>4, <2>5, <2>6, <2>7 DEF Next
<1> QED
  BY <1>1, <1>2, PTL DEF Spec

(* Every step keeps active requests on live engines: a request begins on a *)
(* live engine, and a crash ends all that its engine was doing.            *)
LEMMA HostAliveStep == TypeOK /\ HostAlive /\ [Next]_vars => HostAlive'
<1> SUFFICES ASSUME TypeOK, HostAlive, [Next]_vars PROVE HostAlive'
  OBVIOUS
<1> USE DEF TypeOK, HostAlive, Labels, Working, Over, Goto
<1>1. CASE UNCHANGED vars
  BY <1>1 DEF vars
<1>2. ASSUME NEW r \in Requests, Step(r) PROVE HostAlive'
  <2>1. CASE CreateFree(r) BY <2>1 DEF CreateFree
  <2>2. CASE CreateInsert(r) BY <2>2 DEF CreateInsert
  <2>3. CASE AcquireOwned(r) BY <2>3 DEF AcquireOwned
  <2>4. CASE OwnerAlive(r) BY <2>4 DEF OwnerAlive
  <2>5. CASE OwnerTimeout(r) BY <2>5 DEF OwnerTimeout
  <2>6. CASE StealRead(r) BY <2>6 DEF StealRead
  <2>7. CASE StealUpdate(r) BY <2>7 DEF StealUpdate
  <2>8. CASE StealMissed(r) BY <2>8 DEF StealMissed
  <2>9. CASE Spawn(r) BY <2>9 DEF Spawn
  <2>10. CASE Finish(r) BY <2>10 DEF Finish
  <2>11. CASE Release(r) BY <2>11 DEF Release
  <2>12. CASE TryOwned(r) BY <2>12 DEF TryOwned
  <2>13. CASE OwnStop(r) BY <2>13 DEF OwnStop, Killed
  <2>14. CASE ForceRelease(r) BY <2>14 DEF ForceRelease
  <2>15. CASE SendStop(r) BY <2>15 DEF SendStop
  <2>16. CASE StopReply(r) BY <2>16 DEF StopReply
  <2>17. CASE StopTimeout(r) BY <2>17 DEF StopTimeout
  <2>18. CASE Reload(r) BY <2>18 DEF Reload
  <2> QED
    BY <1>2, <2>1, <2>2, <2>3, <2>4, <2>5, <2>6, <2>7, <2>8, <2>9,
       <2>10, <2>11, <2>12, <2>13, <2>14, <2>15, <2>16, <2>17, <2>18
       DEF Step
<1>3. ASSUME NEW r \in Requests, SpawnFails(r) PROVE HostAlive'
  BY <1>3 DEF SpawnFails
<1>4. ASSUME NEW r \in Requests, SoftDelete(r) PROVE HostAlive'
  BY <1>4 DEF SoftDelete
<1>5. ASSUME NEW r \in Requests, HandleStop(r) PROVE HostAlive'
  BY <1>5 DEF HandleStop, Killed
<1>6. ASSUME NEW r \in Requests, NEW e \in Engines, Begin(r, e) PROVE HostAlive'
  BY <1>6 DEF Begin
<1>7. ASSUME NEW e \in Engines, Crash(e) PROVE HostAlive'
  BY <1>7 DEF Crash
<1> QED
  BY <1>1, <1>2, <1>3, <1>4, <1>5, <1>6, <1>7 DEF Next

(* Every step keeps the victims dead: acquire decides to steal on a        *)
(* timeout only, engines do not come back, and the engine id read is kept. *)
LEMMA VictimDeadStep == TypeOK /\ VictimDead /\ [Next]_vars => VictimDead'
<1> SUFFICES ASSUME TypeOK, VictimDead, [Next]_vars PROVE VictimDead'
  OBVIOUS
<1> USE DEF TypeOK, VictimDead, Goto
<1>1. CASE UNCHANGED vars
  BY <1>1 DEF vars
<1>2. ASSUME NEW r \in Requests, Step(r) PROVE VictimDead'
  <2>1. CASE CreateFree(r) BY <2>1 DEF CreateFree
  <2>2. CASE CreateInsert(r) BY <2>2 DEF CreateInsert
  <2>3. CASE AcquireOwned(r) BY <2>3 DEF AcquireOwned
  <2>4. CASE OwnerAlive(r) BY <2>4 DEF OwnerAlive
  <2>5. CASE OwnerTimeout(r) BY <2>5 DEF OwnerTimeout
  <2>6. CASE StealRead(r) BY <2>6 DEF StealRead
  <2>7. CASE StealUpdate(r) BY <2>7 DEF StealUpdate
  <2>8. CASE StealMissed(r) BY <2>8 DEF StealMissed
  <2>9. CASE Spawn(r) BY <2>9 DEF Spawn
  <2>10. CASE Finish(r) BY <2>10 DEF Finish
  <2>11. CASE Release(r) BY <2>11 DEF Release
  <2>12. CASE TryOwned(r) BY <2>12 DEF TryOwned
  <2>13. CASE OwnStop(r) BY <2>13 DEF OwnStop, Killed
  <2>14. CASE ForceRelease(r) BY <2>14 DEF ForceRelease
  <2>15. CASE SendStop(r) BY <2>15 DEF SendStop
  <2>16. CASE StopReply(r) BY <2>16 DEF StopReply
  <2>17. CASE StopTimeout(r) BY <2>17 DEF StopTimeout
  <2>18. CASE Reload(r) BY <2>18 DEF Reload
  <2> QED
    BY <1>2, <2>1, <2>2, <2>3, <2>4, <2>5, <2>6, <2>7, <2>8, <2>9,
       <2>10, <2>11, <2>12, <2>13, <2>14, <2>15, <2>16, <2>17, <2>18
       DEF Step
<1>3. ASSUME NEW r \in Requests, SpawnFails(r) PROVE VictimDead'
  BY <1>3 DEF SpawnFails
<1>4. ASSUME NEW r \in Requests, SoftDelete(r) PROVE VictimDead'
  BY <1>4 DEF SoftDelete
<1>5. ASSUME NEW r \in Requests, HandleStop(r) PROVE VictimDead'
  BY <1>5 DEF HandleStop, Killed
<1>6. ASSUME NEW r \in Requests, NEW e \in Engines, Begin(r, e) PROVE VictimDead'
  BY <1>6 DEF Begin
<1>7. ASSUME NEW e \in Engines, Crash(e) PROVE VictimDead'
  BY <1>7 DEF Crash
<1> QED
  BY <1>1, <1>2, <1>3, <1>4, <1>5, <1>6, <1>7 DEF Next

(* Every step keeps the lock exclusive.  A row appears in place of none or *)
(* of a dead engine's, and in both cases nobody holds the lock: a holder's *)
(* engine is alive and named by the row.                                   *)
LEMMA ExclusiveStep == TypeOK /\ HostAlive /\ Exclusive /\ [Next]_vars => Exclusive'
<1> SUFFICES ASSUME TypeOK, HostAlive, Exclusive, [Next]_vars PROVE Exclusive'
  OBVIOUS
<1> USE DEF TypeOK, HostAlive, Exclusive, Holders, Labels, Working, Over, Goto
<1>1. CASE UNCHANGED vars
  BY <1>1 DEF vars
<1>2. ASSUME NEW r \in Requests, Step(r) PROVE Exclusive'
  <2>1. CASE CreateFree(r) BY <2>1 DEF CreateFree
  <2>2. CASE CreateInsert(r)
    <3>1. CASE lock # NoEngine BY <2>2, <3>1 DEF CreateInsert
    <3>2. CASE lock = NoEngine /\ ~forced /\ ~usurped
      <4>1. Holders = {}
        BY <3>2, NoEngineAssumption
      <4>2. Holders' = {r} /\ lock' = host'[r]
        BY <2>2, <3>2, <4>1 DEF CreateInsert
      <4> QED BY <4>2
    <3>3. CASE forced \/ usurped
      BY <2>2, <3>3 DEF CreateInsert
    <3> QED BY <3>1, <3>2, <3>3
  <2>3. CASE AcquireOwned(r) BY <2>3 DEF AcquireOwned
  <2>4. CASE OwnerAlive(r) BY <2>4 DEF OwnerAlive
  <2>5. CASE OwnerTimeout(r) BY <2>5 DEF OwnerTimeout
  <2>6. CASE StealRead(r) BY <2>6 DEF StealRead
  <2>7. CASE StealUpdate(r)
    <3>1. CASE ~forced /\ ~usurped /\ seen[r] \notin alive
      <4>1. Holders = {}
        BY <2>7, <3>1 DEF StealUpdate
      <4>2. Holders' = {r} /\ lock' = host'[r]
        BY <2>7, <4>1 DEF StealUpdate
      <4> QED BY <4>2
    <3>2. CASE forced \/ usurped \/ seen[r] \in alive
      BY <2>7, <3>2 DEF StealUpdate
    <3> QED BY <3>1, <3>2
  <2>8. CASE StealMissed(r) BY <2>8 DEF StealMissed
  <2>9. CASE Spawn(r) BY <2>9 DEF Spawn
  <2>10. CASE Finish(r) BY <2>10 DEF Finish
  <2>11. CASE Release(r)
    <3>1. Holders' = Holders \ {r} /\ r \in Holders
      BY <2>11 DEF Release
    <3>2. CASE ~forced /\ ~usurped
      <4>1. Holders' = {}
        BY <3>1, <3>2
      <4> QED BY <4>1
    <3>3. CASE forced \/ usurped
      BY <2>11, <3>3 DEF Release
    <3> QED BY <3>2, <3>3
  <2>12. CASE TryOwned(r) BY <2>12 DEF TryOwned
  <2>13. CASE OwnStop(r) BY <2>13 DEF OwnStop, Killed
  <2>14. CASE ForceRelease(r) BY <2>14 DEF ForceRelease
  <2>15. CASE SendStop(r) BY <2>15 DEF SendStop
  <2>16. CASE StopReply(r) BY <2>16 DEF StopReply
  <2>17. CASE StopTimeout(r) BY <2>17 DEF StopTimeout
  <2>18. CASE Reload(r) BY <2>18 DEF Reload
  <2> QED
    BY <1>2, <2>1, <2>2, <2>3, <2>4, <2>5, <2>6, <2>7, <2>8, <2>9,
       <2>10, <2>11, <2>12, <2>13, <2>14, <2>15, <2>16, <2>17, <2>18
       DEF Step
<1>3. ASSUME NEW r \in Requests, SpawnFails(r) PROVE Exclusive'
  BY <1>3 DEF SpawnFails
<1>4. ASSUME NEW r \in Requests, SoftDelete(r) PROVE Exclusive'
  BY <1>4 DEF SoftDelete
<1>5. ASSUME NEW r \in Requests, HandleStop(r) PROVE Exclusive'
  BY <1>5 DEF HandleStop, Killed
<1>6. ASSUME NEW r \in Requests, NEW e \in Engines, Begin(r, e) PROVE Exclusive'
  BY <1>6 DEF Begin
<1>7. ASSUME NEW e \in Engines, Crash(e) PROVE Exclusive'
  BY <1>7 DEF Crash
<1> QED
  BY <1>1, <1>2, <1>3, <1>4, <1>5, <1>6, <1>7 DEF Next

(* Every step keeps a releaser for a live engine's row: who inserts or     *)
(* steals the row is one, and only by deleting the row stops being one.    *)
LEMMA OwnerWorksStep == TypeOK /\ HostAlive /\ OwnerWorks /\ [Next]_vars => OwnerWorks'
<1> SUFFICES ASSUME TypeOK, HostAlive, OwnerWorks, [Next]_vars PROVE OwnerWorks'
  OBVIOUS
<1> USE DEF TypeOK, HostAlive, OwnerWorks, Holders, Labels, Working, Over, Goto
<1>1. CASE UNCHANGED vars
  BY <1>1 DEF vars
<1>2. ASSUME NEW r \in Requests, Step(r) PROVE OwnerWorks'
  <2>1. CASE CreateFree(r) BY <2>1 DEF CreateFree
  <2>2. CASE CreateInsert(r)
    <3>1. CASE lock # NoEngine BY <2>2, <3>1 DEF CreateInsert
    <3>2. CASE lock = NoEngine
      <4>1. r \in Holders' /\ host'[r] = lock'
        BY <2>2, <3>2 DEF CreateInsert
      <4> QED BY <4>1
    <3> QED BY <3>1, <3>2
  <2>3. CASE AcquireOwned(r) BY <2>3 DEF AcquireOwned
  <2>4. CASE OwnerAlive(r) BY <2>4 DEF OwnerAlive
  <2>5. CASE OwnerTimeout(r) BY <2>5 DEF OwnerTimeout
  <2>6. CASE StealRead(r) BY <2>6 DEF StealRead
  <2>7. CASE StealUpdate(r)
    <3>1. r \in Holders' /\ host'[r] = lock'
      BY <2>7 DEF StealUpdate
    <3> QED BY <3>1
  <2>8. CASE StealMissed(r) BY <2>8 DEF StealMissed
  <2>9. CASE Spawn(r) BY <2>9 DEF Spawn
  <2>10. CASE Finish(r) BY <2>10 DEF Finish
  <2>11. CASE Release(r)
    <3>1. CASE lock = host[r]
      <4>1. lock' \notin alive'
        BY <2>11, <3>1, NoEngineAssumption DEF Release
      <4> QED BY <4>1
    <3>2. CASE lock # host[r] /\ lock \in alive
      <4>1. PICK q \in Holders : host[q] = lock
        BY <3>2
      <4>2. q # r /\ pc'[q] = pc[q] /\ host'[q] = host[q] /\ lock' = lock
        BY <2>11, <3>2, <4>1 DEF Release
      <4>3. q \in Holders' /\ host'[q] = lock'
        BY <4>1, <4>2
      <4> QED BY <4>3
    <3>3. CASE lock # host[r] /\ lock \notin alive
      BY <2>11, <3>3 DEF Release
    <3> QED BY <3>1, <3>2, <3>3
  <2>12. CASE TryOwned(r) BY <2>12 DEF TryOwned
  <2>13. CASE OwnStop(r) BY <2>13 DEF OwnStop, Killed
  <2>14. CASE ForceRelease(r)
    <3>1. CASE lock = host[r]
      <4>1. lock' \notin alive'
        BY <2>14, <3>1, NoEngineAssumption DEF ForceRelease
      <4> QED BY <4>1
    <3>2. CASE lock # host[r] /\ lock \in alive
      <4>1. PICK q \in Holders : host[q] = lock
        BY <3>2
      <4>2. q # r /\ pc'[q] = pc[q] /\ host'[q] = host[q] /\ lock' = lock
        BY <2>14, <3>2, <4>1 DEF ForceRelease
      <4>3. q \in Holders' /\ host'[q] = lock'
        BY <4>1, <4>2
      <4> QED BY <4>3
    <3>3. CASE lock # host[r] /\ lock \notin alive
      BY <2>14, <3>3 DEF ForceRelease
    <3> QED BY <3>1, <3>2, <3>3
  <2>15. CASE SendStop(r) BY <2>15 DEF SendStop
  <2>16. CASE StopReply(r) BY <2>16 DEF StopReply
  <2>17. CASE StopTimeout(r) BY <2>17 DEF StopTimeout
  <2>18. CASE Reload(r) BY <2>18 DEF Reload
  <2> QED
    BY <1>2, <2>1, <2>2, <2>3, <2>4, <2>5, <2>6, <2>7, <2>8, <2>9,
       <2>10, <2>11, <2>12, <2>13, <2>14, <2>15, <2>16, <2>17, <2>18
       DEF Step
<1>3. ASSUME NEW r \in Requests, SpawnFails(r) PROVE OwnerWorks'
  BY <1>3 DEF SpawnFails
<1>4. ASSUME NEW r \in Requests, SoftDelete(r) PROVE OwnerWorks'
  BY <1>4 DEF SoftDelete
<1>5. ASSUME NEW r \in Requests, HandleStop(r) PROVE OwnerWorks'
  BY <1>5 DEF HandleStop, Killed
<1>6. ASSUME NEW r \in Requests, NEW e \in Engines, Begin(r, e) PROVE OwnerWorks'
  BY <1>6 DEF Begin
<1>7. ASSUME NEW e \in Engines, Crash(e) PROVE OwnerWorks'
  BY <1>7 DEF Crash
<1> QED
  BY <1>1, <1>2, <1>3, <1>4, <1>5, <1>6, <1>7 DEF Next

-----------------------------------------------------------------------------
(***************************************************************************)
(* The theorems.                                                           *)
(***************************************************************************)

(* The inductive invariant.  Exclusive alone is not inductive: that nobody *)
(* holds the lock when a row is inserted or a dead engine's row is stolen  *)
(* follows from HostAlive.                                                 *)
LEMMA Invariants ==
  Spec => [](TypeOK /\ HostAlive /\ VictimDead /\ Exclusive /\ OwnerWorks)
<1> DEFINE IInv == HostAlive /\ VictimDead /\ Exclusive /\ OwnerWorks
<1>1. Init => IInv
  BY NoEngineAssumption
  DEF Init, HostAlive, VictimDead, Exclusive, OwnerWorks, Holders, Over, Working
<1>2. TypeOK /\ IInv /\ [Next]_vars => IInv'
  BY HostAliveStep, VictimDeadStep, ExclusiveStep, OwnerWorksStep
<1> QED
  BY <1>1, <1>2, TypeCorrect, PTL DEF Spec

(* One operation at a time on a stack as long as delete_stack has not      *)
(* released a row it did not acquire and no live engine was taken for      *)
(* dead, for any number of engines, requests and crashes.                  *)
THEOREM LockExclusive == Spec => []Exclusive
BY Invariants, PTL

(* The row of a live engine always has a thread or handler that will       *)
(* release it, without any assumption on deletes or RPC timeouts.          *)
THEOREM LockNeverOrphaned == Spec => []OwnerWorks
BY Invariants, PTL

(* With engines that answer in time a row is stolen from dead engines      *)
(* only.                                                                   *)
THEOREM TheftFromDead == Spec => StolenFromDead
<1>1. TypeOK /\ VictimDead /\ [Next]_vars =>
        [~SlowReplies /\ lock \in Engines /\ lock' \in Engines /\ lock' # lock
           => lock \notin alive]_vars
  <2> SUFFICES ASSUME TypeOK, VictimDead, [Next]_vars,
                      ~SlowReplies, lock \in Engines, lock' \in Engines,
                      lock' # lock
               PROVE  lock \notin alive
    OBVIOUS
  <2>1. PICK r \in Requests : StealUpdate(r)
    BY NoEngineAssumption
    DEF Next, vars, Step, CreateFree, CreateInsert, AcquireOwned, OwnerAlive,
        OwnerTimeout, StealRead, StealMissed, Spawn, SpawnFails, SoftDelete,
        Finish, Release, TryOwned, OwnStop, ForceRelease, SendStop, HandleStop,
        StopReply, StopTimeout, Reload, Begin, Crash
  <2> QED
    BY <2>1 DEF VictimDead, StealUpdate, Goto
<1> QED
  BY <1>1, Invariants, PTL DEF Spec, StolenFromDead
-----------------------------------------------------------------------------
(***************************************************************************)
(* The refinement of the abstract mutex, where no delete_stack stops a     *)
(* thread of its own engine and engines answer in time.                    *)
(***************************************************************************)

(* Operations never enter delete_stack's branches, ... *)
OpsAcquire ==
  /\ Deletes = {} => \A r \in Requests : pc[r] \notin {"try", "own", "force"}
  /\ Deletes = {} => ~forced

(* ... and dead victims make every theft legitimate. *)
NoTheftFromLive == ~SlowReplies => ~usurped

LEMMA NoBreach == Spec => [](OpsAcquire /\ NoTheftFromLive)
<1>1. Init => OpsAcquire /\ NoTheftFromLive
  BY DEF Init, OpsAcquire, NoTheftFromLive
<1>2. TypeOK /\ OpsAcquire /\ [Next]_vars => OpsAcquire'
  <2> USE DEF TypeOK, Goto, OpsAcquire, Requests
  <2> SUFFICES ASSUME TypeOK, OpsAcquire, [Next]_vars, Deletes = {}
               PROVE  OpsAcquire'
    OBVIOUS
  <2>1. CASE UNCHANGED vars
    BY <2>1 DEF vars
  <2>2. ASSUME NEW r \in Requests, Step(r) PROVE OpsAcquire'
    <3>1. CASE CreateFree(r) BY <2>2, <3>1 DEF CreateFree
    <3>2. CASE CreateInsert(r) BY <2>2, <3>2 DEF CreateInsert
    <3>3. CASE AcquireOwned(r) BY <2>2, <3>3 DEF AcquireOwned
    <3>4. CASE OwnerAlive(r) BY <2>2, <3>4 DEF OwnerAlive
    <3>5. CASE OwnerTimeout(r) BY <2>2, <3>5 DEF OwnerTimeout
    <3>6. CASE StealRead(r) BY <2>2, <3>6 DEF StealRead
    <3>7. CASE StealUpdate(r) BY <2>2, <3>7 DEF StealUpdate
    <3>8. CASE StealMissed(r) BY <2>2, <3>8 DEF StealMissed
    <3>9. CASE Spawn(r) BY <2>2, <3>9 DEF Spawn
    <3>10. CASE Finish(r) BY <2>2, <3>10 DEF Finish
    <3>11. CASE Release(r) BY <2>2, <3>11 DEF Release
    <3>12. CASE TryOwned(r) BY <2>2, <3>12 DEF TryOwned
    <3>13. CASE OwnStop(r) BY <2>2, <3>13 DEF OwnStop, Killed
    <3>14. CASE ForceRelease(r) BY <2>2, <3>14 DEF ForceRelease
    <3>15. CASE SendStop(r) BY <2>2, <3>15 DEF SendStop
    <3>16. CASE StopReply(r) BY <2>2, <3>16 DEF StopReply
    <3>17. CASE StopTimeout(r) BY <2>2, <3>17 DEF StopTimeout
    <3>18. CASE Reload(r) BY <2>2, <3>18 DEF Reload
    <3> QED
      BY <2>2, <3>1, <3>2, <3>3, <3>4, <3>5, <3>6, <3>7, <3>8, <3>9,
         <3>10, <3>11, <3>12, <3>13, <3>14, <3>15, <3>16, <3>17, <3>18
         DEF Step
  <2>3. ASSUME NEW r \in Requests, SpawnFails(r) PROVE OpsAcquire'
    BY <2>3 DEF SpawnFails
  <2>4. ASSUME NEW r \in Requests, SoftDelete(r) PROVE OpsAcquire'
    BY <2>4 DEF SoftDelete
  <2>5. ASSUME NEW r \in Requests, HandleStop(r) PROVE OpsAcquire'
    BY <2>5 DEF HandleStop, Killed
  <2>6. ASSUME NEW r \in Requests, NEW e \in Engines, Begin(r, e)
        PROVE OpsAcquire'
    BY <2>6 DEF Begin
  <2>7. ASSUME NEW e \in Engines, Crash(e) PROVE OpsAcquire'
    BY <2>7 DEF Crash
  <2> QED
    BY <2>1, <2>2, <2>3, <2>4, <2>5, <2>6, <2>7 DEF Next
<1>3. TypeOK /\ VictimDead /\ NoTheftFromLive /\ [Next]_vars => NoTheftFromLive'
  BY DEF VictimDead, NoTheftFromLive, Goto, Next, vars, Step, CreateFree,
         CreateInsert, AcquireOwned, OwnerAlive, OwnerTimeout, StealRead,
         StealUpdate, StealMissed, Spawn, SpawnFails, SoftDelete, Finish,
         Release, TryOwned, OwnStop, ForceRelease, SendStop, HandleStop,
         StopReply, StopTimeout, Reload, Begin, Crash
<1> QED
  BY <1>1, <1>2, <1>3, Invariants, PTL DEF Spec

(* What a step does to the holders while the lock is exclusive. *)
LEMMA HoldersStep ==
  TypeOK /\ HostAlive /\ Exclusive /\ ~forced /\ ~usurped /\ ~usurped' /\ [Next]_vars
    => \/ Holders' = Holders
       \/ \E r \in Requests : Mutex!Admit(r) \/ Mutex!Leave(r)
<1> USE DEF TypeOK, HostAlive, Exclusive, Holders, Working, Over, Labels, Goto, Mutex!Admit, Mutex!Leave
<1> SUFFICES ASSUME TypeOK, HostAlive, Exclusive, ~forced, ~usurped, ~usurped', [Next]_vars
             PROVE  \/ Holders' = Holders
                    \/ \E r \in Requests : Mutex!Admit(r) \/ Mutex!Leave(r)
  OBVIOUS
<1>1. CASE UNCHANGED vars
  BY <1>1 DEF vars
<1>2. ASSUME NEW r \in Requests, CreateInsert(r)
      PROVE Holders' = Holders \/ Mutex!Admit(r)
  <2>1. CASE lock # NoEngine
    BY <1>2, <2>1 DEF CreateInsert
  <2>2. CASE lock = NoEngine
    <3>1. Holders = {}
      BY <2>2, NoEngineAssumption
    <3>2. Holders' = {r}
      BY <1>2, <2>2, <3>1 DEF CreateInsert
    <3> QED BY <3>1, <3>2
  <2> QED BY <2>1, <2>2
<1>3. ASSUME NEW r \in Requests, StealUpdate(r) PROVE Mutex!Admit(r)
  <2>1. Holders = {}
    BY <1>3 DEF StealUpdate
  <2>2. Holders' = {r}
    BY <1>3, <2>1 DEF StealUpdate
  <2> QED BY <2>1, <2>2
<1>4. ASSUME NEW r \in Requests, Release(r) PROVE Mutex!Leave(r)
  <2>1. Holders' = Holders \ {r} /\ r \in Holders
    BY <1>4 DEF Release
  <2>2. Holders' = {}
    BY <2>1
  <2> QED BY <2>1, <2>2
<1>5. ASSUME NEW e \in Engines, Crash(e)
      PROVE  Holders' = Holders \/ \E r \in Requests : Mutex!Leave(r)
  <2>1. Holders' \subseteq Holders
    BY <1>5 DEF Crash
  <2>2. ASSUME Holders' # Holders PROVE \E r \in Requests : Mutex!Leave(r)
    <3>1. PICK r \in Holders : r \notin Holders'
      BY <2>1, <2>2
    <3>2. Holders' = {}
      BY <2>1, <3>1
    <3> QED BY <3>1, <3>2
  <2> QED BY <2>2
<1>6. ASSUME NEW r \in Requests,
             \/ CreateFree(r) \/ AcquireOwned(r) \/ OwnerAlive(r)
             \/ OwnerTimeout(r) \/ StealRead(r) \/ StealMissed(r) \/ Spawn(r)
             \/ Finish(r) \/ TryOwned(r) \/ ForceRelease(r) \/ SendStop(r)
             \/ StopReply(r) \/ StopTimeout(r) \/ Reload(r) \/ SpawnFails(r)
             \/ SoftDelete(r)
      PROVE  Holders' = Holders
  BY <1>6
  DEF CreateFree, AcquireOwned, OwnerAlive, OwnerTimeout, StealRead,
      StealMissed, Spawn, Finish, TryOwned, ForceRelease, SendStop, StopReply,
      StopTimeout, Reload, SpawnFails, SoftDelete
<1>7. ASSUME NEW r \in Requests, OwnStop(r) \/ HandleStop(r)
      PROVE  Holders' = Holders
  BY <1>7 DEF OwnStop, HandleStop, Killed
<1>8. ASSUME NEW r \in Requests, NEW e \in Engines, Begin(r, e)
      PROVE  Holders' = Holders
  BY <1>8 DEF Begin
<1> QED
  BY <1>1, <1>2, <1>3, <1>4, <1>5, <1>6, <1>7, <1>8 DEF Next, Step

(* Without deletes and with timely answers the lock protocol implements    *)
(* the abstract mutex: operations of any engines are admitted to the stack *)
(* strictly one after the other.                                           *)
THEOREM MutexRefined == Deletes = {} /\ ~SlowReplies => (Spec => RefinesMutex)
<1> SUFFICES ASSUME Deletes = {}, ~SlowReplies PROVE Spec => RefinesMutex
  OBVIOUS
<1>1. Init => Mutex!Init
  BY DEF Init, Mutex!Init, Holders, Working
<1>2. TypeOK /\ HostAlive /\ Exclusive /\ VictimDead /\ OpsAcquire
        /\ NoTheftFromLive /\ NoTheftFromLive' /\ [Next]_vars
        => [Mutex!Next]_Holders
  BY HoldersStep DEF Mutex!Next, OpsAcquire, NoTheftFromLive
<1> QED
  BY <1>1, <1>2, Invariants, NoBreach, PTL DEF Spec, RefinesMutex, Mutex!Spec

(* With deletes and late answers too, every step is one of the mutex until *)
(* a delete_stack takes away a row that is not its own, or a live engine   *)
(* is taken for dead: nothing else, no crash, race, stop or retry, lets    *)
(* two operations overlap.                                                 *)
MutexUntilBreach ==
  [][~forced' /\ ~usurped' => Mutex!Next \/ UNCHANGED Holders]_vars

THEOREM MutexKept == Spec => MutexUntilBreach
<1>1. ASSUME [Next]_vars, ~forced', ~usurped' PROVE ~forced /\ ~usurped
  <2>1. CASE \E r \in Requests : ForceRelease(r) \/ StealUpdate(r)
    <3>1. PICK r \in Requests : ForceRelease(r) \/ StealUpdate(r)
      BY <2>1
    <3>2. CASE ForceRelease(r)
      <4>1. forced' = (forced \/ lock = host[r]) /\ usurped' = usurped
        BY <3>2 DEF ForceRelease
      <4> QED BY <1>1, <4>1, Zenon
    <3>3. CASE StealUpdate(r)
      <4>1. usurped' = (usurped \/ seen[r] \in alive) /\ forced' = forced
        BY <3>3 DEF StealUpdate
      <4> QED BY <1>1, <4>1, Zenon
    <3> QED BY <3>1, <3>2, <3>3
  <2>2. CASE ~\E r \in Requests : ForceRelease(r) \/ StealUpdate(r)
    <3>1. UNCHANGED <<forced, usurped>>
      BY <1>1, <2>2
      DEF Next, vars, Step, CreateFree, CreateInsert, AcquireOwned, OwnerAlive, OwnerTimeout,
          StealRead, StealMissed, Spawn, SpawnFails, SoftDelete, Finish, Release, TryOwned,
          OwnStop, SendStop, HandleStop, StopReply, StopTimeout, Reload, Begin, Crash
    <3> QED BY <1>1, <3>1
  <2> QED BY <2>1, <2>2
<1>2. TypeOK /\ HostAlive /\ Exclusive /\ [Next]_vars
        => [~forced' /\ ~usurped' => Mutex!Next \/ UNCHANGED Holders]_vars
  BY <1>1, HoldersStep DEF Mutex!Next
<1> QED
  BY <1>2, Invariants, PTL DEF Spec, MutexUntilBreach

(* Operations alone, on engines that answer in time, give the lock back    *)
(* only after their threads have finished: what start_with_lock documents  *)
(* fails through a delete_stack or a late answer only.                     *)
THEOREM CoveredWithoutDeletes ==
  Deletes = {} /\ ~SlowReplies => (Spec => []LockedUntilFinished)
<1> SUFFICES ASSUME Deletes = {}, ~SlowReplies PROVE Spec => []LockedUntilFinished
  OBVIOUS
<1>1. Exclusive /\ OpsAcquire /\ NoTheftFromLive => LockedUntilFinished
  BY DEF Exclusive, OpsAcquire, NoTheftFromLive, LockedUntilFinished, Holders, Working
<1> QED
  BY <1>1, Invariants, NoBreach, PTL
=============================================================================
