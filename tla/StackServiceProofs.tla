-------------------------- MODULE StackServiceProofs --------------------------
(***************************************************************************)
(* Proofs about StackService, for any engines and any number of requests.  *)
(***************************************************************************)
EXTENDS StackService, TLAPS

-----------------------------------------------------------------------------
(***************************************************************************)
(* Types.                                                                  *)
(***************************************************************************)
LEMMA KindsAre ==
  Kinds = {"CREATE", "ADOPT", "UPDATE", "SUSPEND", "RESUME", "DELETE", "ABANDON",
           "UNCREATE", "REVERT"}
BY DEF Kinds, Asked, Deletes, Updates

LEMMA ActionsTyped ==
  ASSUME TypeOK, NEW r \in Users
  PROVE  /\ StackAction(r) \in Actions
         /\ ResourceAction(r) \in {"CREATE", "ADOPT", "SUSPEND", "RESUME", "DELETE"}
<1>1. kind[r] \in Kinds
  BY DEF TypeOK
<1>2. StackAction(r) \in Actions
  BY <1>1, KindsAre DEF StackAction, Actions
<1>3. ResourceAction(r) \in {"CREATE", "ADOPT", "SUSPEND", "RESUME", "DELETE"}
  BY <1>1, KindsAre DEF ResourceAction, Deletes, Updates
<1> QED BY <1>2, <1>3

(* A plan is one of a few. *)
LEMMA Plans ==
  ASSUME TypeOK, NEW r \in Users
  PROVE  /\ kind[r] \in {"CREATE", "ADOPT", "RESUME"} =>
              Plan(r) = IF saw[r].template THEN <<"policy", "alarm">> ELSE <<"policy">>
         /\ kind[r] \in {"SUSPEND"} \cup Deletes =>
              Plan(r) = IF saw[r].template THEN <<"alarm", "policy">> ELSE <<"policy">>
         /\ kind[r] \in Updates =>
              Plan(r) = IF target[r] # saw[r].template THEN <<"alarm">> ELSE <<>>
BY DEF Plan, Deletes, Updates

LEMMA PlansTyped ==
  ASSUME TypeOK, NEW r \in Users
  PROVE  Plan(r) \in Seq(Resources)
<1>1. /\ <<"policy", "alarm">> \in Seq(Resources) /\ <<"policy">> \in Seq(Resources)
      /\ <<"alarm", "policy">> \in Seq(Resources) /\ <<"alarm">> \in Seq(Resources)
      /\ <<>> \in Seq(Resources)
  BY DEF Resources
<1>2. kind[r] \in Kinds
  BY DEF TypeOK
<1> QED BY <1>1, <1>2, Plans, KindsAre DEF Deletes, Updates

LEMMA WrittenTyped ==
  ASSUME TypeOK, NEW r \in Users, NEW x, NEW s \in Statuses
  PROVE  Written(r, x, s) \in [Resources -> Actions \X Statuses]
<1>1. ResourceAction(r) \in Actions
  BY ActionsTyped DEF Actions
<1> QED BY <1>1 DEF Written, TypeOK

LEMMA AbsentTyped == Absent \in Actions \X Statuses
BY DEF Absent, Actions, Statuses

LEMMA SeenTyped ==
  ASSUME TypeOK
  PROVE  Seen \in [action : Actions \cup {None}, status : Statuses \cup {None},
                   template : BOOLEAN]
BY DEF TypeOK, Seen

LEMMA InitTyped == Init => TypeOK
<1> SUFFICES ASSUME Init PROVE TypeOK
  OBVIOUS
<1>1. PICK k \in {"CREATE", "ADOPT"}, e \in Engines :
        /\ kind = [r \in Users |-> k] /\ at = [r \in Users |-> e]
  BY DEF Init
<1>2. k \in Kinds
  BY KindsAre
<1>3. /\ action = None /\ status = None /\ deleted = FALSE /\ template \in BOOLEAN
      /\ row = [x \in Resources |-> Absent] /\ rule = Nothing /\ rested = FALSE
      /\ lock = Nobody /\ stopped = {} /\ strayed = FALSE
      /\ pc = [r \in Users |-> IF r = Creator THEN "loaded" ELSE "idle"]
      /\ saw = [r \in Users |-> Seen] /\ target = [r \in Users |-> FALSE]
      /\ todo = [r \in Users |-> <<>>]
      /\ timer = [f \in Engines |-> "none"] /\ got = [f \in Engines |-> Nothing]
  BY DEF Init
<1>4. saw \in [Users -> [action : Actions \cup {None}, status : Statuses \cup {None},
                         template : BOOLEAN]]
  BY <1>3 DEF Seen
<1>5. row \in [Resources -> Actions \X Statuses]
  BY <1>3, AbsentTyped
<1>6. todo \in [Users -> Seq(Resources)]
  BY <1>3
<1>7. pc \in [Users -> Labels] /\ timer \in [Engines -> TimerLabels]
  BY <1>3 DEF Labels, TimerLabels
<1> QED BY <1>1, <1>2, <1>3, <1>4, <1>5, <1>6, <1>7 DEF TypeOK

LEMMA NextTyped == TypeOK /\ [Next]_vars => TypeOK'
<1> SUFFICES ASSUME TypeOK, [Next]_vars PROVE TypeOK'
  OBVIOUS
<1>l. Labels = {"idle", "loaded", "again", "begin", "next", "busy", "failed",
                "flip", "erase", "watch", "over"}
  BY DEF Labels
<1>t. TimerLabels = {"none", "sleep", "evaluate", "store", "dead"}
  BY DEF TimerLabels
<1>s. Statuses = {"COMPLETE", "IN_PROGRESS", "FAILED"}
  BY DEF Statuses
<1>a. Actions = {"INIT", "CREATE", "ADOPT", "UPDATE", "SUSPEND", "RESUME", "DELETE",
                 "ROLLBACK"}
  BY DEF Actions
<1>w. WatchStates = {"NODATA", "ALARM"}
  BY DEF WatchStates
<1>k. \A r \in Users : StackAction(r) \in Actions
  BY ActionsTyped
<1>h. ASSUME NEW r \in Users, NEW x, Handle(r, x) \/ UNCHANGED <<rule, rested>>
      PROVE  rule' \in WatchStates \cup {"SUSPENDED", Nothing} /\ rested' \in BOOLEAN
  <2>1. ResourceAction(r) \in {"CREATE", "ADOPT", "SUSPEND", "RESUME", "DELETE"}
    BY ActionsTyped
  <2>2. ResourceAction(r) = "ADOPT" => kind[r] = "ADOPT"
    BY DEF ResourceAction
  <2> QED BY <1>h, <1>w, <2>1, <2>2 DEF Handle, TypeOK
<1>o. lock # Nobody => lock \in Users /\ at[lock] \in Engines
  BY DEF TypeOK
<1> USE DEF StackSame, stack, timers, work, Goto
<1>1. ASSUME NEW r \in Users, NEW k \in Asked, NEW e \in Engines, Ask(r, k, e)
      PROVE  TypeOK'
  <2>0. k \in Kinds
    BY DEF Kinds
  <2>1. saw' \in [Users -> [action : Actions \cup {None}, status : Statuses \cup {None},
                            template : BOOLEAN]]
    BY <1>1, SeenTyped DEF Ask, TypeOK
  <2>2. target' \in [Users -> BOOLEAN]
    BY <1>1 DEF Ask, TypeOK
  <2> QED BY <1>1, <2>0, <2>1, <2>2, <1>l DEF Ask, TypeOK
<1>2. ASSUME NEW r \in Users, Acquire(r) PROVE TypeOK'
  <2>1. strayed' \in BOOLEAN
    BY <1>2 DEF Acquire, TypeOK
  <2> QED BY <1>2, <2>1, <1>l DEF Acquire, TypeOK
<1>3. ASSUME NEW r \in Users, Refuse(r) PROVE TypeOK'
  BY <1>3, <1>l DEF Refuse, TypeOK
<1>4. ASSUME NEW r \in Users, Stop(r) PROVE TypeOK'
  <2>1. saw' \in [Users -> [action : Actions \cup {None}, status : Statuses \cup {None},
                            template : BOOLEAN]]
    BY <1>4, SeenTyped DEF Stop, TypeOK
  <2>2. strayed' \in BOOLEAN /\ pc' \in [Users -> Labels]
    BY <1>4, <1>l DEF Stop, TypeOK
  <2>3. stopped' \subseteq Engines /\ timer' \in [Engines -> TimerLabels]
    BY <1>4, <1>o, <1>t DEF Stop, TypeOK
  <2>4. row' \in [Resources -> Actions \X Statuses]
    <3>1. lock \in Users
      BY <1>4, <1>o DEF Stop
    <3> QED BY <1>4, <3>1, <1>s, WrittenTyped DEF Stop, TypeOK
  <2> QED BY <1>4, <2>1, <2>2, <2>3, <2>4 DEF Stop, TypeOK
<1>5. ASSUME NEW r \in Users, Begin(r) PROVE TypeOK'
  <2>1. todo' \in [Users -> Seq(Resources)]
    BY <1>5, PlansTyped DEF Begin, TypeOK
  <2>2. action' \in Actions \cup {None} /\ status' \in Statuses \cup {None}
    BY <1>5, <1>k, <1>s DEF Begin, StateSet, TypeOK
  <2>3. strayed' \in BOOLEAN
    BY <1>5 DEF Begin, TypeOK
  <2> QED BY <1>5, <2>1, <2>2, <2>3, <1>l DEF Begin, TypeOK
<1>6. ASSUME NEW r \in Users, BeginFails(r) PROVE TypeOK'
  BY <1>6, <1>l, <1>k, <1>s DEF BeginFails, StateSet, TypeOK
<1>7. ASSUME NEW r \in Users, Start(r) PROVE TypeOK'
  <2>1. Head(todo[r]) \in Resources
    BY <1>7 DEF Start, TypeOK
  <2>2. row' \in [Resources -> Actions \X Statuses]
    BY <1>7, <2>1, <1>s, WrittenTyped DEF Start, TypeOK
  <2> QED BY <1>7, <2>2, <1>l DEF Start, TypeOK
<1>8. ASSUME NEW r \in Users, Finish(r) PROVE TypeOK'
  <2>1. Head(todo[r]) \in Resources /\ Tail(todo[r]) \in Seq(Resources)
    BY <1>8 DEF Finish, TypeOK
  <2>2. row' \in [Resources -> Actions \X Statuses]
    BY <1>8, <2>1, <1>s, WrittenTyped, AbsentTyped DEF Finish, TypeOK
  <2>3. rule' \in WatchStates \cup {"SUSPENDED", Nothing} /\ rested' \in BOOLEAN
    BY <1>8, <1>h DEF Finish
  <2>4. todo' \in [Users -> Seq(Resources)]
    BY <1>8, <2>1 DEF Finish, TypeOK
  <2>5. strayed' \in BOOLEAN
    BY <1>8 DEF Finish, TypeOK
  <2> QED BY <1>8, <2>2, <2>3, <2>4, <2>5, <1>l DEF Finish, TypeOK
<1>9. ASSUME NEW r \in Users, FinishFails(r) PROVE TypeOK'
  <2>1. row' \in [Resources -> Actions \X Statuses]
    BY <1>9, <1>s, WrittenTyped DEF FinishFails, TypeOK
  <2>2. rule' \in WatchStates \cup {"SUSPENDED", Nothing} /\ rested' \in BOOLEAN
    BY <1>9, <1>h DEF FinishFails
  <2>3. strayed' \in BOOLEAN
    BY <1>9 DEF FinishFails, TypeOK
  <2> QED BY <1>9, <2>1, <2>2, <2>3, <1>l DEF FinishFails, TypeOK
<1>10. ASSUME NEW r \in Users, EndCreate(r) PROVE TypeOK'
  BY <1>10, <1>l, <1>a, <1>s DEF EndCreate, StateSet, Outcome, TypeOK
<1>11. ASSUME NEW r \in Users, EndSuspendResume(r) PROVE TypeOK'
  BY <1>11, <1>l, <1>a, <1>s DEF EndSuspendResume, StateSet, Outcome, TypeOK
<1>12. ASSUME NEW r \in Users, EndUpdate(r) PROVE TypeOK'
  BY <1>12, <1>l, <1>a, <1>s DEF EndUpdate, StateSet, Outcome, TypeOK
<1>13. ASSUME NEW r \in Users, Flip(r) PROVE TypeOK'
  <2>1. strayed' \in BOOLEAN /\ template' \in BOOLEAN
    BY <1>13 DEF Flip, TypeOK
  <2> QED BY <1>13, <2>1, <1>l DEF Flip, TypeOK
<1>14. ASSUME NEW r \in Users, EndDelete(r) PROVE TypeOK'
  <2>1. action' \in Actions \cup {None} /\ status' \in Statuses \cup {None}
    BY <1>14, <1>k, <1>s DEF EndDelete, StateSet, Outcome, TypeOK
  <2>2. pc' \in [Users -> Labels] /\ lock' \in Users \cup {Nobody}
    BY <1>14, <1>l DEF EndDelete, TypeOK
  <2> QED BY <1>14, <2>1, <2>2 DEF EndDelete, TypeOK
<1>22. ASSUME NEW r \in Users, Erase(r) PROVE TypeOK'
  <2>1. strayed' \in BOOLEAN
    BY <1>22 DEF Erase, TypeOK
  <2>2. row' \in [Resources -> Actions \X Statuses] /\ deleted' \in BOOLEAN
    BY <1>22, AbsentTyped DEF Erase, TypeOK
  <2> QED BY <1>22, <2>1, <2>2, <1>l DEF Erase, TypeOK
<1>23. ASSUME NEW r \in Users, RollBackCreate(r) PROVE TypeOK'
  <2>1. kind' \in [Users -> Kinds]
    BY <1>23, KindsAre DEF RollBackCreate, TypeOK
  <2>2. action' \in Actions \cup {None} /\ status' \in Statuses \cup {None}
    BY <1>23, <1>a, <1>s DEF RollBackCreate, StateSet, TypeOK
  <2> QED BY <1>23, <2>1, <2>2, <1>l DEF RollBackCreate, TypeOK
<1>24. ASSUME NEW r \in Users, RollBackUpdate(r) PROVE TypeOK'
  <2>1. kind' \in [Users -> Kinds]
    BY <1>24, KindsAre DEF RollBackUpdate, TypeOK
  <2>2. target' \in [Users -> BOOLEAN] /\ strayed' \in BOOLEAN
    BY <1>24 DEF RollBackUpdate, TypeOK
  <2>3. todo' \in [Users -> Seq(Resources)]
    <3>1. <<"alarm">> \in Seq(Resources) /\ <<>> \in Seq(Resources)
      BY DEF Resources
    <3> QED BY <1>24, <3>1 DEF RollBackUpdate, TypeOK
  <2> QED BY <1>24, <2>1, <2>2, <2>3, <1>l DEF RollBackUpdate, TypeOK
<1>15. ASSUME NEW r \in Users, StartWatch(r) PROVE TypeOK'
  <2>1. at[r] \in Engines
    BY DEF TypeOK
  <2>2. timer' \in [Engines -> TimerLabels] /\ rested' \in BOOLEAN
    BY <1>15, <2>1, <1>t DEF StartWatch, Watched, TypeOK
  <2> QED BY <1>15, <2>2, <1>l DEF StartWatch, TypeOK
<1>16. ASSUME NEW e \in Engines, Wake(e) PROVE TypeOK'
  BY <1>16, <1>t DEF Wake, TypeOK
<1>17. ASSUME NEW e \in Engines, NEW s \in WatchStates, Evaluate(e, s) PROVE TypeOK'
  <2>1. timer' \in [Engines -> TimerLabels] /\ got' \in [Engines -> WatchStates \cup {Nothing}]
    <3>1. CASE (s = "ALARM" /\ deleted) \/ (ActsOn(s) /\ ~Found("policy"))
      BY <1>17, <3>1, <1>t DEF Evaluate, TypeOK
    <3>2. CASE ~((s = "ALARM" /\ deleted) \/ (ActsOn(s) /\ ~Found("policy")))
      <4>1. timer' = [timer EXCEPT ![e] = "store"] /\ got' = [got EXCEPT ![e] = s]
        BY <1>17, <3>2 DEF Evaluate
      <4> QED BY <4>1, <1>t DEF TypeOK
    <3> QED BY <3>1, <3>2
  <2> QED BY <1>17, <2>1 DEF Evaluate, TypeOK
<1>18. ASSUME NEW e \in Engines, Store(e) PROVE TypeOK'
  <2>1. rule' \in WatchStates \cup {"SUSPENDED", Nothing}
    BY <1>18 DEF Store, TypeOK
  <2>2. timer' \in [Engines -> TimerLabels]
    BY <1>18, <1>t DEF Store, TypeOK
  <2> QED BY <1>18, <2>1, <2>2 DEF Store, TypeOK
<1>19. CASE PeriodPasses
  BY <1>19 DEF PeriodPasses, TypeOK
<1>20. ASSUME NEW e \in Engines, Restart(e) PROVE TypeOK'
  <2>1. strayed' \in BOOLEAN /\ pc' \in [Users -> Labels]
    BY <1>20, <1>l DEF Restart, TypeOK
  <2>2. timer' \in [Engines -> TimerLabels] /\ rested' \in BOOLEAN
    BY <1>20, <1>t DEF Restart, Restarted, TypeOK
  <2> QED BY <1>20, <2>1, <2>2 DEF Restart, TypeOK
<1>21. CASE UNCHANGED vars
  BY <1>21 DEF vars, TypeOK
<1> QED
  BY <1>1, <1>2, <1>3, <1>4, <1>5, <1>6, <1>7, <1>8, <1>9, <1>10, <1>11, <1>12, <1>13,
     <1>14, <1>15, <1>16, <1>17, <1>18, <1>19, <1>20, <1>21, <1>22, <1>23, <1>24
  DEF Next, Request, Timer

(* All the variables keep to their types: above all a run of a timer never *)
(* takes the state of a rule that is not there (WatchRule.load).           *)
THEOREM TypeCorrect == Spec => []TypeOK
BY InitTyped, NextTyped, PTL DEF Spec

-----------------------------------------------------------------------------
(***************************************************************************)
(* A stack on which no request or timer has gone astray.                   *)
(***************************************************************************)
(* Only one request works on the stack, and it has the lock; only the      *)
(* creator creates or adopts it; no update is asked for a suspended stack. *)
Owned ==
  /\ \A r \in Users : Working(r) => lock = r
  /\ kind[Creator] \in {"CREATE", "ADOPT", "UNCREATE"} /\ pc[Creator] # "idle"
  /\ \A r \in Requests : pc[r] # "idle" => kind[r] \notin {"CREATE", "ADOPT", "UNCREATE"}
  /\ \A r \in Users : pc[r] \in {"loaded", "again", "begin"} /\ kind[r] = "UPDATE" =>
       saw[r].action # "SUSPEND"
  /\ \A r \in Users : /\ pc[r] = "flip" => kind[r] \in Updates
                      /\ pc[r] = "erase" => kind[r] \in Deletes
                      /\ pc[r] = "again" => kind[r] = "DELETE"
                      /\ pc[r] \in {"loaded", "again", "begin"} => kind[r] # "REVERT"
                      /\ pc[r] \in {"loaded", "again"} => kind[r] # "UNCREATE"

(* An update adds or removes the alarm, or takes back that it was added. *)
Adds(r)    == kind[r] = "UPDATE" /\ target[r] /\ ~saw[r].template
Removes(r) == kind[r] = "UPDATE" /\ ~target[r] /\ saw[r].template
Reverts(r) == kind[r] = "REVERT"

Acting(r) == pc[r] \in {"next", "busy", "failed", "flip"}

(* A request at work has loaded the stack as it is. *)
Seeing ==
  \A r \in Users : Working(r) =>
    /\ ~deleted /\ saw[r].template = template
    /\ pc[r] = "begin" /\ kind[r] = "UPDATE" =>
         saw[r].action = action /\ saw[r].status = status

(* Without an alarm in the template there is no rule. *)
NoAlarm ==
  ~template /\ (\A r \in Users : ~(Acting(r) /\ (Adds(r) \/ Reverts(r)))) =>
    rule = Nothing /\ row["alarm"] = Absent

(* The rule an evaluation works on can be evaluated. *)
Evaluated ==
  \A e \in Engines :
    timer[e] \in {"evaluate", "store"} =>
       rule \in WatchStates /\ ~deleted /\ got[e] \in WatchStates

(* Until it is created the stack has nothing to watch. *)
Waiting == pc[Creator] \in {"loaded", "begin"} /\ kind[Creator] # "UNCREATE"

Unborn ==
  Waiting =>
    /\ rule = Nothing /\ row = [x \in Resources |-> Absent]
    /\ \A r \in Users : kind[r] \in Updates => ~Acting(r)
    /\ status = "COMPLETE" /\ ~deleted => action \in {"SUSPEND", "DELETE"}

PolicyThere ==
  /\ ~Bare
  /\ Adopted \/ row["policy"] \in {<<"CREATE", "COMPLETE">>, <<"RESUME", "COMPLETE">>}
AlarmKnown  == row["alarm"] = Absent => rule = Nothing

(* The policy comes before the alarm and goes after it; an alarm without a *)
(* row has no rule, unless the stack was abandoned, and not by the creator.*)
InOrder   == Bare => row["alarm"] = Absent
Abandoned == \E r \in Requests : kind[r] = "ABANDON" /\ pc[r] # "idle"
Known     == row["alarm"] = Absent => rule = Nothing \/ (Abandoned /\ ~Working(Creator))

(* A stack that is awake: not suspended, and complete. *)
Awake ==
  /\ PolicyThere /\ AlarmKnown
  /\ rule # "SUSPENDED"

Settled ==
  status = "COMPLETE" /\ ~deleted =>
    /\ Bare => rule = Nothing \/ (Abandoned /\ action = "DELETE")
    /\ ~Bare => action # "DELETE"
    /\ ~Bare /\ action = "SUSPEND" /\ template => rule = "SUSPENDED"
    /\ ~Bare /\ action # "SUSPEND" =>
         /\ Awake
         /\ (\A r \in Users : pc[r] # "flip") /\ template /\ ~Adopted => rule # Nothing

Gone == deleted => rule = Nothing \/ Abandoned

(* What a request has done so far. *)
CreateDone(r) ==
  /\ todo[r] \in {<<"policy", "alarm">>, <<"policy">>, <<"alarm">>, <<>>}
  /\ (todo[r] = <<"policy", "alarm">> \/ todo[r] = <<"alarm">>) => template
  /\ todo[r] = <<"policy">> => ~template
  /\ kind[r] = "ADOPT" => rule = Nothing
  /\ rule # "SUSPENDED"
  /\ todo[r] \in {<<"alarm">>, <<>>} => PolicyThere
  /\ todo[r] = <<>> /\ template => row["alarm"] # Absent /\ (Adopted \/ rule # Nothing)

ResumeDone(r) ==
  /\ todo[r] \in {<<"policy", "alarm">>, <<"policy">>, <<"alarm">>, <<>>}
  /\ (todo[r] = <<"policy", "alarm">> \/ todo[r] = <<"alarm">>) => template
  /\ todo[r] = <<"policy">> => ~template
  /\ pc[r] = "busy" /\ todo[r] \in {<<"policy", "alarm">>, <<"policy">>} =>
       row["policy"] = <<"RESUME", "IN_PROGRESS">>
  /\ todo[r] \in {<<"alarm">>, <<>>} => row["policy"] = <<"RESUME", "COMPLETE">>
  /\ pc[r] = "busy" /\ todo[r] = <<"alarm">> => row["alarm"] = <<"RESUME", "IN_PROGRESS">>
  /\ todo[r] = <<>> /\ template => row["alarm"] # Absent /\ rule \in WatchStates

SuspendDone(r) ==
  /\ todo[r] \in {<<"alarm", "policy">>, <<"policy">>, <<>>}
  /\ todo[r] = <<"alarm", "policy">> => template
  /\ todo[r] # <<"alarm", "policy">> /\ template =>
       rule = "SUSPENDED" /\ row["alarm"] # Absent

DeleteDone(r) ==
  /\ todo[r] \in {<<"alarm", "policy">>, <<"policy">>, <<>>}
  /\ todo[r] = <<"alarm", "policy">> => template
  /\ todo[r] # <<"alarm", "policy">> => row["alarm"] = Absent
  /\ todo[r] = <<>> => Bare

UpdateDone(r) ==
  /\ Awake
  /\ todo[r] \in {<<"alarm">>, <<>>}
  /\ todo[r] = <<"alarm">> => Adds(r) \/ Removes(r) \/ Reverts(r)
  /\ Adds(r) /\ todo[r] = <<>> => rule # Nothing
  /\ Removes(r) /\ todo[r] = <<>> => rule = Nothing
  /\ Reverts(r) => ~target[r] /\ ~template
  /\ ~Adds(r) /\ ~Removes(r) /\ template /\ ~Adopted => rule # Nothing

Progress ==
  \A r \in Users :
    /\ pc[r] \in {"next", "busy", "failed"} => status = "IN_PROGRESS" /\ action = StackAction(r)
    /\ pc[r] \in {"busy", "failed"} => todo[r] # <<>>
    /\ pc[r] \in {"next", "busy"} =>
         /\ kind[r] \in {"CREATE", "ADOPT"} => CreateDone(r)
         /\ kind[r] = "RESUME" => ResumeDone(r)
         /\ kind[r] = "SUSPEND" => SuspendDone(r)
         /\ kind[r] \in Deletes => DeleteDone(r)
    /\ kind[r] \in Updates /\ Acting(r) => UpdateDone(r)
    /\ pc[r] = "flip" =>
         action \in {"UPDATE", "ROLLBACK"} /\ (status = "COMPLETE" => todo[r] = <<>>)
    /\ pc[r] = "erase" => Bare

(* An adoption may yet be rolled back until it is over. *)
Certain == ~Adopted \/ pc[Creator] \notin {"watch", "over"}

Alive == Certain => \A e \in Engines : timer[e] # "dead"

Safe == /\ Seeing /\ NoAlarm /\ Evaluated /\ Unborn /\ InOrder /\ Known
        /\ Settled /\ Gone /\ Progress /\ Alive

Straight == ~strayed => Safe

-----------------------------------------------------------------------------
LEMMA InitOwned == Init => Owned
<1> SUFFICES ASSUME Init PROVE Owned
  OBVIOUS
<1>1. \A r \in Users : pc[r] = (IF r = Creator THEN "loaded" ELSE "idle")
  BY DEF Init
<1>2. kind[Creator] \in {"CREATE", "ADOPT"} /\ action = None
  BY DEF Init, Users
<1>3. \A r \in Users : saw[r].action = None
  BY <1>2 DEF Init, Seen
<1>4. \A r \in Users : kind[r] \in {"CREATE", "ADOPT"}
  BY DEF Init
<1> QED BY <1>1, <1>2, <1>3, <1>4, CreatorAssumption DEF Owned, Working, None, Users

LEMMA NextOwned == TypeOK /\ Owned /\ [Next]_vars => Owned'
<1> SUFFICES ASSUME TypeOK, Owned, [Next]_vars PROVE Owned'
  OBVIOUS
<1>t. /\ pc \in [Users -> Labels] /\ DOMAIN kind = Users /\ DOMAIN saw = Users
      /\ DOMAIN at = Users
  BY DEF TypeOK
<1>c. Creator \in Users /\ Creator \notin Requests /\ Requests \subseteq Users
  BY CreatorAssumption DEF Users
<1>u. /\ Updates = {"UPDATE", "REVERT"} /\ Deletes = {"DELETE", "ABANDON", "UNCREATE"}
      /\ Asked = {"UPDATE", "SUSPEND", "RESUME", "DELETE", "ABANDON"}
  BY DEF Updates, Deletes, Asked
<1> USE DEF StackSame, stack, timers, work, Goto
<1>1. ASSUME NEW r \in Users, NEW k \in Asked, NEW e \in Engines, Ask(r, k, e)
      PROVE  Owned'
  BY <1>1, <1>t, <1>c, <1>u DEF Ask, Owned, Working, Seen
<1>2. ASSUME NEW r \in Users, Acquire(r) PROVE Owned'
  <2>1. \A q \in Users : q # r => ~Working(q)
    BY <1>2, NobodyAssumption DEF Acquire, Owned, OwnerDead, Working
  <2> QED BY <1>2, <2>1, <1>t, <1>c DEF Acquire, Owned, Working
<1>3. ASSUME NEW r \in Users, Refuse(r) PROVE Owned'
  BY <1>3, <1>t, <1>c DEF Refuse, Owned, Working
<1>4. ASSUME NEW r \in Users, Stop(r) PROVE Owned'
  <2>1. lock \in Users /\ Working(lock) /\ lock # r
    BY <1>4 DEF Stop, OwnerDead, TypeOK, Working
  <2>2. /\ pc'[lock] = "over" /\ pc'[r] \in {"over", "again"}
        /\ \A q \in Users : q # r /\ q # lock => pc'[q] = pc[q]
        /\ \A q \in Users : q # r => saw'[q] = saw[q]
        /\ kind[r] = "DELETE" /\ UNCHANGED <<kind, action>>
    BY <1>4, <2>1, <1>t DEF Stop
  <2>3. \A q \in Users : pc'[q] = "idle" => pc[q] = "idle"
    BY <2>2
  <2>4. \A q \in Users : ~Working(q)'
    BY <2>1, <2>2 DEF Owned, Working
  <2>5. \A q \in Users : pc'[q] # "idle" => pc[q] # "idle"
    BY <1>4, <2>1, <2>2 DEF Stop, Working
  <2>6. \A q \in Users : pc'[q] \in {"loaded", "again", "begin"} /\ kind[q] = "UPDATE" =>
          pc[q] \in {"loaded", "again", "begin"} /\ saw'[q] = saw[q]
    BY <2>1, <2>2
  <2>7. \A q \in Users : pc'[q] # "flip"
    BY <2>4 DEF Working
  <2> QED BY <2>2, <2>3, <2>4, <2>5, <2>6, <2>7, <1>c DEF Owned
<1>5. ASSUME NEW r \in Users, Begin(r) PROVE Owned'
  BY <1>5, <1>t, <1>c DEF Begin, Owned, Working
<1>6. ASSUME NEW r \in Users, BeginFails(r) PROVE Owned'
  BY <1>6, <1>t, <1>c DEF BeginFails, StateSet, Owned, Working
<1>7. ASSUME NEW r \in Users, Start(r) PROVE Owned'
  BY <1>7, <1>t, <1>c DEF Start, Owned, Working
<1>8. ASSUME NEW r \in Users, Finish(r) PROVE Owned'
  BY <1>8, <1>t, <1>c DEF Finish, Owned, Working
<1>9. ASSUME NEW r \in Users, FinishFails(r) PROVE Owned'
  BY <1>9, <1>t, <1>c DEF FinishFails, Owned, Working
<1>10. ASSUME NEW r \in Users, EndCreate(r) PROVE Owned'
  <2>1. r = Creator /\ Working(r)
    BY <1>10, <1>c DEF EndCreate, Done, Owned, Users, Working
  <2>2. \A q \in Users : q # r => ~Working(q)
    BY <2>1 DEF Owned
  <2>3. pc' = [pc EXCEPT ![r] = IF pc[r] = "failed" THEN "over" ELSE "watch"]
        /\ (lock' = lock \/ pc'[r] = "over")
    BY <1>10, <1>t DEF EndCreate
  <2>4. UNCHANGED <<kind, saw>>
    BY <1>10 DEF EndCreate
  <2> QED BY <2>1, <2>2, <2>3, <2>4, <1>t, <1>c DEF Owned, Working
<1>11. ASSUME NEW r \in Users, EndSuspendResume(r) PROVE Owned'
  BY <1>11, <1>t, <1>c DEF EndSuspendResume, StateSet, Done, Owned, Working
<1>12. ASSUME NEW r \in Users, EndUpdate(r) PROVE Owned'
  BY <1>12, <1>t, <1>c, <1>u DEF EndUpdate, StateSet, Done, Owned, Working
<1>13. ASSUME NEW r \in Users, Flip(r) PROVE Owned'
  BY <1>13, <1>t, <1>c DEF Flip, Owned, Working
<1>14. ASSUME NEW r \in Users, EndDelete(r) PROVE Owned'
  <2>1. Working(r)
    BY <1>14 DEF EndDelete, Done, Working
  <2>2. \A q \in Users : q # r => ~Working(q) /\ pc'[q] = pc[q]
    BY <1>14, <1>t, <2>1 DEF EndDelete, Owned
  <2>3. pc'[r] \in {"over", "erase"} /\ (pc'[r] = "over" \/ lock' = lock) /\ kind[r] \in Deletes
    BY <1>14, <1>t DEF EndDelete
  <2>4. UNCHANGED <<kind, saw>>
    BY <1>14 DEF EndDelete
  <2>5. pc[r] # "idle"
    BY <2>1 DEF Working
  <2> QED BY <2>1, <2>2, <2>3, <2>4, <2>5, <1>c, <1>u DEF Owned, Working
<1>22. ASSUME NEW r \in Users, Erase(r) PROVE Owned'
  BY <1>22, <1>t, <1>c DEF Erase, Owned, Working
<1>23. ASSUME NEW r \in Users, RollBackCreate(r) PROVE Owned'
  BY <1>23, <1>t, <1>c, <1>u DEF RollBackCreate, Owned, Working, Users
<1>24. ASSUME NEW r \in Users, RollBackUpdate(r) PROVE Owned'
  BY <1>24, <1>t, <1>c, <1>u DEF RollBackUpdate, Owned, Working, Users
<1>15. ASSUME NEW r \in Users, StartWatch(r) PROVE Owned'
  BY <1>15, <1>t, <1>c DEF StartWatch, Owned, Working
<1>16. ASSUME NEW e \in Engines, Wake(e) PROVE Owned'
  BY <1>16 DEF Wake, Owned, Working
<1>17. ASSUME NEW e \in Engines, NEW s \in WatchStates, Evaluate(e, s) PROVE Owned'
  BY <1>17 DEF Evaluate, Owned, Working
<1>18. ASSUME NEW e \in Engines, Store(e) PROVE Owned'
  BY <1>18 DEF Store, Owned, Working
<1>19. CASE PeriodPasses
  BY <1>19 DEF PeriodPasses, Owned, Working
<1>20. ASSUME NEW e \in Engines, Restart(e) PROVE Owned'
  BY <1>20, <1>t, <1>c DEF Restart, Owned, Working
<1>21. CASE UNCHANGED vars
  BY <1>21 DEF vars, Owned, Working
<1> QED
  BY <1>1, <1>2, <1>3, <1>4, <1>5, <1>6, <1>7, <1>8, <1>9, <1>10, <1>11, <1>12, <1>13,
     <1>14, <1>15, <1>16, <1>17, <1>18, <1>19, <1>20, <1>21, <1>22, <1>23, <1>24
  DEF Next, Request, Timer

-----------------------------------------------------------------------------
(***************************************************************************)
(* Every step of a stack that has not gone astray keeps it Safe.           *)
(***************************************************************************)

LEMMA InitStraight == Init => Straight
<1> SUFFICES ASSUME Init PROVE Safe
  BY DEF Straight
<1>1. \A r \in Users : pc[r] \in {"loaded", "idle"}
  BY DEF Init
<1>2. /\ status = None /\ deleted = FALSE /\ rule = Nothing
      /\ row = [x \in Resources |-> Absent] /\ timer = [e \in Engines |-> "none"]
  BY DEF Init
<1>3. row["alarm"] = Absent
  BY <1>2 DEF Resources
<1> QED
  BY <1>1, <1>2, <1>3 DEF Safe, Seeing, NoAlarm, Evaluated, Unborn, Settled, Gone, Progress,
     Alive, InOrder, Known, Working, Acting, None

LEMMA Todos ==
  /\ <<"policy", "alarm">> # <<>> /\ Head(<<"policy", "alarm">>) = "policy"
  /\ Tail(<<"policy", "alarm">>) = <<"alarm">>
  /\ <<"alarm", "policy">> # <<>> /\ Head(<<"alarm", "policy">>) = "alarm"
  /\ Tail(<<"alarm", "policy">>) = <<"policy">>
  /\ <<"policy">> # <<>> /\ Head(<<"policy">>) = "policy" /\ Tail(<<"policy">>) = <<>>
  /\ <<"alarm">> # <<>> /\ Head(<<"alarm">>) = "alarm" /\ Tail(<<"alarm">>) = <<>>
  /\ <<"policy", "alarm">> # <<"alarm">> /\ <<"policy", "alarm">> # <<"policy">>
  /\ <<"alarm", "policy">> # <<"alarm">> /\ <<"alarm", "policy">> # <<"policy">>
  /\ <<"alarm", "policy">> # <<"policy", "alarm">> /\ <<"policy">> # <<"alarm">>
OBVIOUS

(* The requests that only load, or give up. *)
LEMMA AskSafe ==
  ASSUME TypeOK, Owned, Safe, ~strayed', NEW r \in Users,
         NEW k \in Asked, NEW e \in Engines, Ask(r, k, e)
  PROVE  Safe'
<1>1. /\ pc[r] = "idle" /\ pc' = [pc EXCEPT ![r] = "loaded"] /\ pc'[r] = "loaded"
      /\ r # Creator
  BY DEF Ask, Goto, TypeOK, Owned
<1>2. /\ UNCHANGED <<action, status, deleted, template, row, rule, lock, todo, timer, got>>
      /\ \A q \in Users : q # r =>
            /\ pc'[q] = pc[q] /\ kind'[q] = kind[q] /\ saw'[q] = saw[q] /\ target'[q] = target[q]
  BY DEF Ask, StackSame, stack, timers, TypeOK, Goto
<1>c. Creator \in Users
  BY DEF Users
<1>3. Adopted' = Adopted /\ Waiting' = Waiting /\ Certain' = Certain
  BY <1>1, <1>2, <1>c DEF Adopted, Waiting, Certain
<1> USE DEF Safe, Working, Acting, Adds, Removes, Reverts
<1>4. Seeing' /\ NoAlarm' /\ Evaluated' /\ Unborn' /\ InOrder'
  BY <1>1, <1>2, <1>3 DEF Seeing, NoAlarm, Evaluated, Unborn, InOrder, Bare
<1>5. PolicyThere' = PolicyThere /\ AlarmKnown' = AlarmKnown /\ Awake' = Awake
  BY <1>2, <1>3 DEF PolicyThere, AlarmKnown, Awake, Bare
<1>a. Abandoned => Abandoned'
  BY <1>1, <1>2 DEF Abandoned, Users
<1>6. Settled' /\ Gone' /\ Alive' /\ Known'
  BY <1>1, <1>2, <1>3, <1>5, <1>a DEF Settled, Gone, Alive, Known, Bare
<1>7. Progress'
  BY <1>1, <1>2, <1>3, <1>5 DEF Progress, StackAction, CreateDone, ResumeDone, SuspendDone,
     DeleteDone, UpdateDone, Bare
<1> QED BY <1>4, <1>6, <1>7

LEMMA AcquireSafe ==
  ASSUME TypeOK, Owned, Safe, ~strayed', NEW r \in Users, Acquire(r)
  PROVE  Safe'
<1>1. \A q \in Users : q # r => ~Working(q) /\ pc'[q] = pc[q]
  BY NobodyAssumption DEF Acquire, Owned, OwnerDead, TypeOK
<1>2. pc'[r] = "begin" /\ pc[r] \in {"loaded", "again"}
  BY DEF Acquire, TypeOK
<1>3. /\ UNCHANGED <<action, status, deleted, template, row, rule, kind, saw, target, todo, timer, got>>
      /\ ~Outdated(r)
  BY DEF Acquire, StackSame, stack, timers
<1>4. r = Creator => pc[r] = "loaded"
  BY <1>2 DEF Owned
<1> USE DEF Safe, Working, Acting, Adds, Removes, Reverts
<1>5. Seeing'
  BY <1>1, <1>2, <1>3 DEF Seeing, Outdated
<1>c. Creator \in Users
  BY DEF Users
<1>7. Awake' = Awake /\ Adopted' = Adopted /\ Waiting' = Waiting /\ Certain' = Certain
  BY <1>1, <1>2, <1>3, <1>4, <1>c
  DEF PolicyThere, AlarmKnown, Awake, Adopted, Bare, Waiting, Certain
<1>6. NoAlarm' /\ Evaluated' /\ Unborn' /\ InOrder'
  BY <1>1, <1>2, <1>3, <1>7 DEF NoAlarm, Evaluated, Unborn, InOrder, Bare
<1>a. Abandoned' = Abandoned
  BY <1>1, <1>2, <1>3 DEF Abandoned, Users
<1>k. Known'
  <2>1. r = Creator => rule = Nothing
    BY <1>2, <1>4 DEF Unborn, Waiting, Owned
  <2>2. r # Creator => pc'[Creator] = pc[Creator]
    BY <1>1, <1>c
  <2> QED BY <1>3, <1>a, <2>1, <2>2 DEF Known
<1>8. Settled' /\ Gone' /\ Alive'
  BY <1>1, <1>2, <1>3, <1>7, <1>a DEF Settled, Gone, Alive, Bare
<1>9. Progress'
  BY <1>1, <1>2, <1>3 DEF Progress
<1> QED BY <1>5, <1>6, <1>8, <1>9, <1>k

LEMMA RefuseSafe ==
  ASSUME TypeOK, Owned, Safe, ~strayed', NEW r \in Users, Refuse(r)
  PROVE  Safe'
<1>1. /\ pc'[r] = "over" /\ pc[r] \in {"loaded", "again"}
      /\ \A q \in Users : q # r => pc'[q] = pc[q]
  BY DEF Refuse, TypeOK
<1>2. UNCHANGED <<action, status, deleted, template, row, rule, kind, saw, target, todo, timer, got>>
  BY DEF Refuse, StackSame, stack, timers
<1> USE DEF Safe, Working, Acting, Adds, Removes, Reverts
<1>c. Creator \in Users
  BY DEF Users
<1>4. /\ Awake' = Awake /\ Adopted' = Adopted /\ PolicyThere' = PolicyThere
      /\ Waiting' => Waiting
      /\ Certain' => Certain
      /\ Abandoned' = Abandoned
  BY <1>1, <1>2, <1>c
  DEF PolicyThere, AlarmKnown, Awake, Adopted, Waiting, Certain, Abandoned, Bare, Users
<1>3. Seeing' /\ NoAlarm' /\ Evaluated' /\ Unborn' /\ InOrder'
  BY <1>1, <1>2, <1>4 DEF Seeing, NoAlarm, Evaluated, Unborn, InOrder, Bare
<1>k. Known'
  <2>1. Working(Creator)' => Working(Creator)
    BY <1>1, <1>c
  <2> QED BY <1>2, <1>4, <2>1 DEF Known
<1>5. Settled' /\ Gone' /\ Alive'
  BY <1>1, <1>2, <1>4 DEF Settled, Gone, Alive, Bare
<1>6. Progress'
  BY <1>1, <1>2, <1>4 DEF Progress, StackAction, CreateDone, ResumeDone, SuspendDone,
     DeleteDone, UpdateDone, Bare
<1> QED BY <1>3, <1>5, <1>6, <1>k

(* A request that is stopped, or whose engine dies, leaves the stack as it *)
(* is: only an update that has begun to change the alarm must not be cut   *)
(* off.                                                                    *)
Rest == /\ Seeing /\ NoAlarm /\ Unborn /\ InOrder /\ Known /\ Settled /\ Gone /\ Progress

LEMMA KilledSafe ==
  ASSUME TypeOK, Owned, Safe,
         UNCHANGED <<action, status, deleted, template, row, rule, kind, target, todo>>,
         \A q \in Users :
           \/ /\ pc'[q] = "over" \/ (pc'[q] = "again" /\ pc[q] = "loaded")
              /\ pc[q] # "idle" /\ ~CutOff(q)
           \/ pc'[q] = pc[q] /\ saw'[q] = saw[q]
  PROVE  Rest' /\ (Certain' => Certain)
<1> USE DEF Safe, Rest, Working, Acting, Adds, Removes, Reverts
<1>c. Creator \in Users
  BY DEF Users
<1>1. Seeing'
  BY DEF Seeing
<1>2. NoAlarm'
  BY DEF NoAlarm, CutOff, Seeing
<1>4. /\ Awake' = Awake /\ Adopted' = Adopted /\ PolicyThere' = PolicyThere
      /\ Bare' = Bare /\ (Abandoned => Abandoned')
  BY DEF PolicyThere, AlarmKnown, Awake, Adopted, Bare, Abandoned, Users
<1>w. (Waiting' => Waiting) /\ (Certain' => Certain)
  BY <1>c, <1>4 DEF Waiting, Certain
<1>3. Unborn'
  BY <1>w DEF Unborn
<1>5. Settled'
  <2>1. SUFFICES ASSUME status = "COMPLETE", ~deleted, ~Bare, action # "SUSPEND", template, ~Adopted,
                        \A q \in Users : pc'[q] # "flip", NEW p \in Users, pc[p] = "flip"
                 PROVE  rule # Nothing
    BY <1>4 DEF Settled
  <2>2. kind[p] \in Updates /\ ~CutOff(p)
    BY <2>1 DEF Owned
  <2>3. UpdateDone(p) /\ ~Adds(p) /\ ~Removes(p)
    BY <2>1, <2>2 DEF Progress, CutOff, Updates
  <2> QED BY <2>1, <2>3 DEF UpdateDone
<1>6. Gone' /\ InOrder' /\ Known'
  <2>1. Working(Creator)' => Working(Creator)
    BY <1>c
  <2> QED BY <1>4, <2>1 DEF Gone, InOrder, Known
<1>7. Progress'
  BY <1>4 DEF Progress, StackAction, CreateDone, ResumeDone, SuspendDone, DeleteDone, UpdateDone
<1> QED BY <1>1, <1>2, <1>3, <1>5, <1>6, <1>7, <1>w

LEMMA RestartSafe ==
  ASSUME TypeOK, Owned, Safe, ~strayed', NEW e \in Engines, Restart(e)
  PROVE  Safe'
<1>1. UNCHANGED <<action, status, deleted, template, row, rule, kind, target, todo, saw>>
  BY DEF Restart, stack
<1>2. \A q \in Users :
        \/ /\ pc'[q] = "over" \/ (pc'[q] = "again" /\ pc[q] = "loaded")
           /\ pc[q] # "idle" /\ ~CutOff(q)
        \/ pc'[q] = pc[q] /\ saw'[q] = saw[q]
  BY <1>1 DEF Restart
<1>3. Rest' /\ (Certain' => Certain)
  BY <1>1, <1>2, KilledSafe
<1>4. /\ timer'[e] \in {"none", "sleep"}
      /\ \A f \in Engines : f # e => timer'[f] = timer[f] /\ got'[f] = got[f]
  BY DEF Restart, Restarted, TypeOK
<1>5. Evaluated' /\ Alive'
  BY <1>1, <1>3, <1>4 DEF Safe, Evaluated, Alive
<1> QED BY <1>3, <1>5 DEF Safe, Rest

-----------------------------------------------------------------------------
(* The timers. *)
LEMMA TimerSafe ==
  ASSUME TypeOK, Owned, Safe,
         UNCHANGED <<action, status, deleted, template, row, pc, kind, saw, target, todo>>,
         rule' = rule \/ (rule \in WatchStates /\ rule' \in WatchStates /\ ~deleted)
  PROVE  Rest' /\ Certain' = Certain
<1> USE DEF Safe, Rest, Working, Acting, Adds, Removes, Reverts
<1>w. Nothing \notin WatchStates /\ "SUSPENDED" \notin WatchStates
  BY DEF WatchStates, Nothing
<1>1. Seeing' /\ InOrder'
  BY DEF Seeing, InOrder, Bare
<1>2. NoAlarm' /\ Unborn' /\ Gone' /\ Known'
  BY <1>w DEF NoAlarm, Unborn, Gone, Known, Abandoned, Waiting
<1>3. /\ Adopted' = Adopted /\ PolicyThere' = PolicyThere /\ Certain' = Certain
      /\ Bare' = Bare /\ Abandoned' = Abandoned
  BY DEF PolicyThere, Adopted, Certain, Bare, Abandoned
<1>4. Awake => Awake'
  BY <1>3, <1>w DEF AlarmKnown, Awake
<1>5. Settled'
  BY <1>3, <1>4, <1>w DEF Settled
<1>6. Progress'
  BY <1>3, <1>4, <1>w DEF Progress, StackAction, CreateDone, ResumeDone, SuspendDone, DeleteDone,
     UpdateDone
<1> QED BY <1>1, <1>2, <1>3, <1>5, <1>6

LEMMA WakeSafe ==
  ASSUME TypeOK, Owned, Safe, NEW e \in Engines, Wake(e)
  PROVE  Safe'
<1>1. UNCHANGED <<action, status, deleted, template, row, rule, pc, kind, saw, target, todo>>
  BY DEF Wake, StackSame, stack, work
<1>2. Rest' /\ Certain' = Certain
  BY <1>1, TimerSafe
<1>3. Evaluated' /\ Alive'
  BY <1>1, <1>2 DEF Safe, Evaluated, Alive, Wake, TypeOK
<1> QED BY <1>2, <1>3 DEF Safe, Rest

(* An evaluation finds what it looks up. *)
LEMMA EvaluateSafe ==
  ASSUME TypeOK, Owned, Safe, NEW e \in Engines, NEW s \in WatchStates, Evaluate(e, s)
  PROVE  Safe'
<1>1. UNCHANGED <<action, status, deleted, template, row, rule, pc, kind, saw, target, todo>>
  BY DEF Evaluate, StackSame, stack, work
<1>2. Rest' /\ Certain' = Certain
  BY <1>1, TimerSafe
<1>3. timer[e] = "evaluate" /\ rule \in WatchStates /\ ~deleted
  BY DEF Safe, Evaluate, Evaluated
<1>w. Nothing \notin WatchStates /\ "SUSPENDED" \notin WatchStates
  BY DEF WatchStates, Nothing
<1>4. ASSUME Certain, ActsOn(s) PROVE Found("policy")
  <2>1. status = "COMPLETE" /\ action # "DELETE"
    BY <1>4 DEF ActsOn
  <2>0. ~Bare
    BY <1>3, <1>w, <2>1 DEF Safe, Settled
  <2>2. CASE action = "SUSPEND"
    <3>1. ~template
      BY <1>3, <1>w, <2>0, <2>1, <2>2 DEF Safe, Settled
    <3>2. \A q \in Users : ~Acting(q)
      BY <2>1, <2>2 DEF Safe, Progress, Acting
    <3> QED BY <1>3, <1>w, <3>1, <3>2 DEF Safe, NoAlarm
  <2>3. CASE action # "SUSPEND"
    <3>1. PolicyThere
      BY <1>3, <2>0, <2>1, <2>3 DEF Safe, Settled, Awake
    <3>2. ~Adopted
      <4>1. ASSUME Adopted PROVE FALSE
        <5>1. pc[Creator] \in Labels /\ pc[Creator] # "idle" /\ Creator \in Users
          BY DEF Users, TypeOK, Owned
        <5>2. pc[Creator] \notin {"watch", "over"}
          BY <1>4, <4>1 DEF Certain
        <5>3. pc[Creator] \notin {"again", "flip", "erase"}
          BY <4>1, <5>1 DEF Owned, Adopted, Updates, Deletes
        <5>4. pc[Creator] \notin {"next", "busy", "failed"}
          BY <2>1, <5>1 DEF Safe, Progress
        <5>5. pc[Creator] \in {"loaded", "begin"}
          BY <5>1, <5>2, <5>3, <5>4 DEF Labels
        <5> QED BY <1>3, <1>w, <4>1, <5>5 DEF Safe, Unborn, Waiting, Adopted
      <4> QED BY <4>1
    <3> QED BY <3>1, <3>2 DEF PolicyThere, Found
  <2> QED BY <2>2, <2>3
<1>5. Certain => timer'[e] = "store"
  BY <1>3, <1>4 DEF Evaluate, TypeOK
<1>6. timer'[e] = "store" => got'[e] = s
  BY DEF Evaluate, TypeOK
<1>7. \A f \in Engines : f # e => timer'[f] = timer[f] /\ got'[f] = got[f]
  BY DEF Evaluate, TypeOK
<1>8. timer'[e] \in {"dead", "store"}
  BY DEF Evaluate, TypeOK
<1>9. Evaluated' /\ Alive'
  BY <1>1, <1>2, <1>3, <1>5, <1>6, <1>7, <1>8 DEF Safe, Evaluated, Alive
<1> QED BY <1>2, <1>9 DEF Safe, Rest

LEMMA StoreSafe ==
  ASSUME TypeOK, Owned, Safe, NEW e \in Engines, Store(e)
  PROVE  Safe'
<1>1. UNCHANGED <<action, status, deleted, template, row, pc, kind, saw, target, todo>>
  BY DEF Store, stack, work
<1>2. rule \in WatchStates /\ got[e] \in WatchStates /\ ~deleted
  BY DEF Safe, Store, Evaluated
<1>3. rule' = got[e] /\ timer'[e] \in {"none", "sleep"}
      /\ \A f \in Engines : f # e => timer'[f] = timer[f] /\ got'[f] = got[f]
  BY <1>2 DEF Store, TypeOK, WatchStates, Nothing
<1>4. Rest' /\ Certain' = Certain
  BY <1>1, <1>2, <1>3, TimerSafe
<1>5. Evaluated' /\ Alive'
  BY <1>1, <1>2, <1>3, <1>4 DEF Safe, Evaluated, Alive
<1> QED BY <1>4, <1>5 DEF Safe, Rest

-----------------------------------------------------------------------------
(***************************************************************************)
(* The thread of the request that has the lock.                            *)
(***************************************************************************)

(* It is the only one, and works on what it has loaded. *)
LEMMA Sole ==
  ASSUME Owned, Safe, NEW r \in Users, Working(r)
  PROVE  /\ \A q \in Users : q # r => ~Working(q)
         /\ ~deleted /\ saw[r].template = template
         /\ kind[r] \in {"CREATE", "ADOPT", "UNCREATE"} <=> r = Creator
BY CreatorAssumption DEF Owned, Safe, Seeing, Working, Users

(* What is done to a resource, by the kind of the request. *)
LEMMA Acts ==
  ASSUME NEW r \in Users
  PROVE  /\ kind[r] \in {"CREATE", "ADOPT", "SUSPEND", "RESUME"} => ResourceAction(r) = kind[r]
         /\ kind[r] \in Deletes => ResourceAction(r) = "DELETE"
         /\ kind[r] \in Updates =>
              ResourceAction(r) = IF target[r] THEN "CREATE" ELSE "DELETE"
BY DEF ResourceAction, Deletes, Updates

LEMMA Handled ==
  ASSUME TypeOK, NEW r \in Users, NEW x \in Resources, Handle(r, x)
  PROVE  /\ x # "alarm" \/ kind[r] \in {"ADOPT", "ABANDON"} => rule' = rule
         /\ x = "alarm" /\ kind[r] \notin {"ADOPT", "ABANDON"} =>
              /\ ResourceAction(r) = "CREATE" => rule' = "NODATA"
              /\ ResourceAction(r) # "CREATE" /\ row[x] = Absent =>
                   rule' = rule /\ ResourceAction(r) = "DELETE"
              /\ ResourceAction(r) = "DELETE" /\ row[x] # Absent => rule' = Nothing
              /\ ResourceAction(r) = "SUSPEND" => rule # Nothing /\ rule' = "SUSPENDED"
              /\ ResourceAction(r) = "RESUME" => rule # Nothing /\ rule' = "NODATA"
BY DEF Handle

(* What is written to the row of a resource. *)
LEMMA WrittenRow ==
  ASSUME TypeOK, NEW r \in Users, NEW x \in Resources, NEW s \in Statuses
  PROVE  /\ \A y \in Resources : y # x => Written(r, x, s)[y] = row[y]
         /\ row[x] = Absent /\ ResourceAction(r) \notin {"CREATE", "ADOPT"} =>
              Written(r, x, s) = row
         /\ row[x] # Absent \/ ResourceAction(r) \in {"CREATE", "ADOPT"} =>
              Written(r, x, s)[x] = <<ResourceAction(r), s>>
         /\ Written(r, x, s)[x] = Absent => row[x] = Absent
<1>1. DOMAIN row = Resources
  BY DEF TypeOK
<1>2. <<ResourceAction(r), s>> # Absent
  BY ActionsTyped DEF Absent
<1> QED BY <1>1, <1>2 DEF Written

(* A plan is worked off from its head, and leaves the alarm alone unless   *)
(* the template, or the one an update brings or takes back, has it; the    *)
(* policy is there before the alarm is made.                               *)
LEMMA HeadOf ==
  ASSUME TypeOK, Owned, Safe, NEW r \in Users, pc[r] \in {"next", "busy"}, todo[r] # <<>>
  PROVE  /\ Head(todo[r]) \in Resources
         /\ Head(todo[r]) = "alarm" => template \/ Adds(r) \/ Reverts(r)
         /\ kind[r] \in Updates => todo[r] = <<"alarm">>
         /\ kind[r] \in {"CREATE", "ADOPT"} \cup Updates /\ Head(todo[r]) = "alarm" => ~Bare
<1>1. Working(r)
  BY DEF Working
<1>2. saw[r].template = template
  BY <1>1, Sole
<1>3. kind[r] \in Kinds
  BY DEF TypeOK
<1>u. Updates = {"UPDATE", "REVERT"} /\ Deletes = {"DELETE", "ABANDON", "UNCREATE"}
  BY DEF Updates, Deletes
<1>4. CASE kind[r] \in Updates
  <2>1. UpdateDone(r)
    BY <1>4 DEF Safe, Progress, Acting
  <2> QED
    BY <1>2, <1>4, <1>u, <2>1, Todos
    DEF UpdateDone, Resources, Adds, Removes, Reverts, Awake, PolicyThere
<1>5. CASE kind[r] \in {"CREATE", "ADOPT"}
  <2>1. CreateDone(r)
    BY <1>5 DEF Safe, Progress
  <2> QED BY <1>5, <1>u, <2>1, Todos DEF CreateDone, Resources, PolicyThere
<1>6. CASE kind[r] = "RESUME"
  <2>1. ResumeDone(r)
    BY <1>6 DEF Safe, Progress
  <2> QED BY <1>6, <1>u, <2>1, Todos DEF ResumeDone, Resources
<1>7. CASE kind[r] = "SUSPEND"
  <2>1. SuspendDone(r)
    BY <1>7 DEF Safe, Progress
  <2> QED BY <1>7, <1>u, <2>1, Todos DEF SuspendDone, Resources
<1>8. CASE kind[r] \in Deletes
  <2>1. DeleteDone(r)
    BY <1>8 DEF Safe, Progress
  <2> QED BY <1>8, <1>u, <2>1, Todos DEF DeleteDone, Resources
<1> QED BY <1>3, <1>4, <1>5, <1>6, <1>7, <1>8, KindsAre, <1>u

(* Start, FinishFails and Stop write a state to a row, or nothing. *)
LEMMA RowFacts ==
  ASSUME TypeOK, Owned, Safe, NEW r \in Users, pc[r] \in {"next", "busy"}, todo[r] # <<>>,
         NEW s \in Statuses,
         row' = row \/ row' = Written(r, Head(todo[r]), s)
  PROVE  /\ \A y \in Resources : row'[y] = Absent => row[y] = Absent
         /\ \A y \in Resources : y # Head(todo[r]) => row'[y] = row[y]
         /\ row["alarm"] = Absent /\ ResourceAction(r) \notin {"CREATE", "ADOPT"} =>
              row'["alarm"] = Absent
         /\ Bare' => Bare
         /\ InOrder'
         /\ Waiting => row' = row /\ kind[r] \notin {"CREATE", "ADOPT"} \cup Updates
<1> DEFINE x == Head(todo[r])
<1>1. Working(r)
  BY DEF Working
<1>2. kind[r] \in {"CREATE", "ADOPT", "UNCREATE"} <=> r = Creator
  BY <1>1, Sole
<1>3. /\ x \in Resources
      /\ kind[r] \in {"CREATE", "ADOPT"} \cup Updates /\ x = "alarm" => ~Bare
  BY HeadOf
<1>4. /\ \A y \in Resources : y # x => row'[y] = row[y]
      /\ row[x] = Absent /\ ResourceAction(r) \notin {"CREATE", "ADOPT"} => row' = row
      /\ row'[x] = Absent => row[x] = Absent
  <2> HIDE DEF x
  <2>1. row' = row \/ row' = Written(r, x, s)
    BY DEF x
  <2>2. /\ \A y \in Resources : y # x => Written(r, x, s)[y] = row[y]
        /\ row[x] = Absent /\ ResourceAction(r) \notin {"CREATE", "ADOPT"} =>
             Written(r, x, s) = row
        /\ Written(r, x, s)[x] = Absent => row[x] = Absent
    BY <1>3, WrittenRow
  <2> QED BY <2>1, <2>2
<1>5. "alarm" \in Resources /\ "policy" \in Resources
  BY DEF Resources
<1>6. ResourceAction(r) \in {"CREATE", "ADOPT"} => kind[r] \in {"CREATE", "ADOPT"} \cup Updates
  BY DEF ResourceAction, Deletes, Updates
<1> HIDE DEF x
<1>7. row["alarm"] = Absent /\ ResourceAction(r) \notin {"CREATE", "ADOPT"} =>
        row'["alarm"] = Absent
  BY <1>4, <1>5
<1>8. Bare' => Bare
  BY <1>4, <1>5 DEF Bare
<1>9. InOrder'
  <2>1. SUFFICES ASSUME Bare' PROVE row'["alarm"] = Absent
    BY DEF InOrder
  <2>2. Bare /\ row["alarm"] = Absent
    BY <1>8, <2>1 DEF Safe, InOrder
  <2> QED BY <1>3, <1>4, <1>5, <1>6, <1>7, <2>2
<1>10. ASSUME Waiting PROVE row' = row /\ kind[r] \notin {"CREATE", "ADOPT"} \cup Updates
  <2>1. r # Creator
    BY <1>10 DEF Waiting
  <2>2. kind[r] \notin {"CREATE", "ADOPT"} \cup Updates
    BY <1>2, <1>10, <2>1 DEF Safe, Unborn, Acting
  <2>3. row[x] = Absent
    <3>1. row = [y \in Resources |-> Absent]
      BY <1>10 DEF Safe, Unborn
    <3> QED BY <1>3, <3>1
  <2> QED BY <1>4, <1>6, <2>2, <2>3
<1> QED BY <1>4, <1>5, <1>7, <1>8, <1>9, <1>10 DEF x

(* A delete that stops the request at work. *)
LEMMA StopSafe ==
  ASSUME TypeOK, Owned, Safe, ~strayed', NEW r \in Users, Stop(r)
  PROVE  Safe'
<1>1. /\ kind[r] = "DELETE" /\ pc[r] = "loaded"
      /\ lock \in Users /\ Working(lock) /\ ~CutOff(lock)
  BY DEF Stop, OwnerDead, TypeOK
<1>2. /\ UNCHANGED <<action, status, deleted, template, rule, kind, target, todo, got>>
      /\ row' = IF pc[lock] = "busy" THEN Written(lock, Head(todo[lock]), "FAILED") ELSE row
  BY DEF Stop, stack
<1>3. /\ pc'[lock] = "over" /\ pc'[r] \in {"over", "again"}
      /\ \A q \in Users : q # r /\ q # lock => pc'[q] = pc[q]
      /\ \A q \in Users : q # r => saw'[q] = saw[q]
      /\ lock # r
  BY <1>1 DEF Stop, TypeOK, Working
<1>4. \A q \in Users : q # lock => ~Working(q)
  BY <1>1 DEF Owned
<1>5. \A e \in Engines : timer'[e] = timer[e] \/ timer'[e] = "none"
  BY DEF Stop, TypeOK
<1>6. Rest' /\ (Certain' => Certain)
  <2>1. CASE pc[lock] # "busy"
    <3>1. \A q \in Users :
            \/ /\ pc'[q] = "over" \/ (pc'[q] = "again" /\ pc[q] = "loaded")
               /\ pc[q] # "idle" /\ ~CutOff(q)
            \/ pc'[q] = pc[q] /\ saw'[q] = saw[q]
      BY <1>1, <1>3 DEF CutOff, Working
    <3> QED BY <1>2, <2>1, <3>1, KilledSafe
  <2>2. CASE pc[lock] = "busy"
    <3>1. todo[lock] # <<>> /\ status = "IN_PROGRESS" /\ "FAILED" \in Statuses
      BY <1>1, <2>2 DEF Safe, Progress, Statuses
    <3>2. kind[lock] \notin Updates
      <4>1. ASSUME kind[lock] \in Updates PROVE FALSE
        <5>1. todo[lock] = <<"alarm">>
          BY <1>1, <2>2, <3>1, <4>1, HeadOf
        <5>2. UpdateDone(lock)
          BY <1>1, <2>2, <4>1 DEF Safe, Progress, Acting
        <5> QED BY <1>1, <2>2, <4>1, <5>1, <5>2 DEF UpdateDone, CutOff, Adds, Removes, Reverts, Updates
      <4> QED BY <4>1
    <3>3. row' = Written(lock, Head(todo[lock]), "FAILED")
      BY <1>2, <2>2
    <3>4. /\ \A y \in Resources : row'[y] = Absent => row[y] = Absent
          /\ \A y \in Resources : y # Head(todo[lock]) => row'[y] = row[y]
          /\ Bare' => Bare
          /\ InOrder'
          /\ Waiting => row' = row
      BY <1>1, <2>2, <3>1, <3>3, RowFacts
    <3>5. /\ Head(todo[lock]) \in Resources
          /\ Head(todo[lock]) = "alarm" => template
      BY <1>1, <2>2, <3>1, <3>2, HeadOf DEF Adds, Reverts, Updates
    <3>6. \A q \in Users : ~Working(q)'
      BY <1>3, <1>4 DEF Working
    <3>7. /\ Creator \in Users /\ "alarm" \in Resources
          /\ pc[Creator] # "idle" /\ kind[Creator] # "DELETE" /\ r # Creator
      BY <1>1 DEF Users, Owned, Resources
    <3>8. (Waiting' => Waiting) /\ (Certain' => Certain)
      BY <1>1, <1>2, <1>3, <2>2, <3>7 DEF Waiting, Certain, Adopted
    <3>9. Seeing' /\ Progress'
      BY <3>6 DEF Seeing, Progress, Acting, Working
    <3>10. NoAlarm'
      <4>1. \A q \in Users : ~(Acting(q) /\ (Adds(q) \/ Reverts(q)))
        BY <1>4, <3>2 DEF Acting, Working, Adds, Reverts, Updates
      <4> QED BY <1>2, <3>4, <3>5, <3>7, <4>1 DEF Safe, NoAlarm
    <3>11. Unborn'
      BY <1>2, <3>1, <3>4, <3>6, <3>8 DEF Safe, Unborn, Acting, Working
    <3>12. Abandoned => Abandoned'
      BY <1>2, <1>3 DEF Abandoned, Users
    <3>13. Known' /\ Gone' /\ Settled'
      BY <1>2, <3>1, <3>4, <3>6, <3>7, <3>12 DEF Safe, Known, Gone, Settled
    <3> QED BY <3>4, <3>8, <3>9, <3>10, <3>11, <3>13 DEF Rest
  <2> QED BY <2>1, <2>2
<1>7. Evaluated' /\ Alive'
  BY <1>2, <1>5, <1>6 DEF Safe, Evaluated, Alive
<1> QED BY <1>6, <1>7 DEF Safe, Rest

LEMMA BeginSafe ==
  ASSUME TypeOK, Owned, Safe, ~strayed', NEW r \in Users, Begin(r)
  PROVE  Safe'
<1>1. /\ Working(r) /\ pc[r] = "begin" /\ pc'[r] = "next" /\ kind[r] # "REVERT"
      /\ \A q \in Users : q # r => pc'[q] = pc[q] /\ todo'[q] = todo[q]
  BY DEF Begin, Goto, TypeOK, Working, Owned
<1>2. /\ \A q \in Users : q # r => ~Working(q)
      /\ ~deleted /\ saw[r].template = template
      /\ kind[r] \in {"CREATE", "ADOPT", "UNCREATE"} <=> r = Creator
  BY <1>1, Sole
<1>3. /\ UNCHANGED <<deleted, template, row, rule, kind, saw, target, timer, got>>
      /\ action' = StackAction(r) /\ status' = "IN_PROGRESS" /\ todo'[r] = Plan(r)
      /\ kind[r] = "UPDATE" => saw[r].status = "COMPLETE" /\ ~Bare
  BY <1>2 DEF Begin, StateSet, TypeOK, timers
<1>u. Updates = {"UPDATE", "REVERT"} /\ Deletes = {"DELETE", "ABANDON", "UNCREATE"}
  BY DEF Updates, Deletes
<1>c. Creator \in Users /\ "policy" \in Resources
  BY DEF Users, Resources
<1> USE DEF Safe, Working, Acting, Adds, Removes, Reverts
<1>8. /\ Awake' = Awake /\ Adopted' = Adopted /\ Bare' = Bare
      /\ (Abandoned => Abandoned')
  BY <1>1, <1>3 DEF PolicyThere, AlarmKnown, Awake, Adopted, Bare, Abandoned, Users
<1>w. (Waiting' => Waiting /\ r # Creator) /\ (Certain' => Certain)
  BY <1>1, <1>3, <1>8, <1>c DEF Waiting, Certain
<1>k. Known'
  <2>1. Working(Creator)' => Working(Creator)
    BY <1>1, <1>c
  <2> QED BY <1>3, <1>8, <2>1 DEF Known
<1>4. Seeing' /\ NoAlarm' /\ Evaluated' /\ Gone' /\ InOrder'
  BY <1>1, <1>2, <1>3, <1>8 DEF Seeing, NoAlarm, Evaluated, Gone, InOrder
<1>5. kind[r] = "UPDATE" => Awake /\ status = "COMPLETE" /\ action # "SUSPEND"
  BY <1>1, <1>2, <1>3 DEF Seeing, Settled, Owned
<1>6. Unborn'
  <2>1. SUFFICES ASSUME Waiting' PROVE Unborn'
    BY DEF Unborn
  <2>2. row = [y \in Resources |-> Absent]
    BY <1>w, <2>1 DEF Unborn
  <2>3. kind[r] \notin Updates
    BY <1>1, <1>3, <1>c, <1>u, <2>2 DEF Bare
  <2> QED BY <1>1, <1>2, <1>3, <1>w, <2>1, <2>3 DEF Unborn
<1>7. Settled' /\ Alive'
  BY <1>3, <1>w DEF Settled, Alive
<1>9. ~template => rule = Nothing /\ row["alarm"] = Absent
  BY <1>1, <1>2 DEF NoAlarm
<1>10. kind[r] \in {"CREATE", "ADOPT"} => CreateDone(r)'
  <2>1. SUFFICES ASSUME r = Creator, kind[r] \in {"CREATE", "ADOPT"} PROVE CreateDone(r)'
    BY <1>2
  <2>2. rule = Nothing
    BY <1>1, <2>1 DEF Unborn, Waiting
  <2> QED BY <1>2, <1>3, <2>1, <2>2, Plans, Todos DEF CreateDone, Nothing
<1>11. kind[r] = "RESUME" => ResumeDone(r)'
  BY <1>1, <1>2, <1>3, Plans, Todos DEF ResumeDone
<1>12. kind[r] = "SUSPEND" => SuspendDone(r)'
  BY <1>2, <1>3, Plans, Todos DEF SuspendDone
<1>13. kind[r] \in Deletes => DeleteDone(r)'
  BY <1>2, <1>3, <1>9, Plans, Todos DEF DeleteDone
<1>14. kind[r] = "UPDATE" => UpdateDone(r)'
  <2>1. SUFFICES ASSUME kind[r] = "UPDATE" PROVE UpdateDone(r)'
    OBVIOUS
  <2>2. todo'[r] = IF target[r] # saw[r].template THEN <<"alarm">> ELSE <<>>
    BY <1>3, <1>u, <2>1, Plans
  <2>3. template /\ ~Adopted => rule # Nothing
    BY <1>1, <1>2, <1>3, <1>5, <2>1 DEF Settled
  <2>4. target[r] \in BOOLEAN /\ saw[r].template \in BOOLEAN
    BY DEF TypeOK
  <2> QED BY <1>2, <1>3, <1>5, <1>8, <1>9, <2>1, <2>2, <2>3, <2>4, Todos DEF UpdateDone
<1>15. Progress'
  <2>1. \A q \in Users : q # r => pc'[q] \notin {"next", "busy", "failed", "flip", "erase"}
    BY <1>1, <1>2
  <2>2. StackAction(r)' = StackAction(r)
    BY <1>3 DEF StackAction
  <2> QED
    BY <1>1, <1>3, <1>10, <1>11, <1>12, <1>13, <1>14, <1>u, <2>1, <2>2 DEF Progress
<1> QED BY <1>4, <1>6, <1>7, <1>15, <1>k

(* What a request whose thread ends, or gets on, without touching a row or *)
(* the rule, must see to: the state of the stack it leaves.                *)
LEMMA EndSafe ==
  ASSUME TypeOK, Owned, Safe, NEW r \in Users, Working(r),
         \A q \in Users : q # r => pc'[q] = pc[q],
         pc'[r] \in {"over", "watch", "erase"},
         pc'[r] = "erase" => Bare /\ kind[r] \in Deletes,
         ~(Acting(r) /\ (Adds(r) \/ Reverts(r))),
         UNCHANGED <<deleted, template, row, rule, kind, saw, target, todo, timer, got>>,
         Settled',
         Waiting' /\ status' = "COMPLETE" => action' \in {"SUSPEND", "DELETE"}
  PROVE  Safe'
<1>1. /\ \A q \in Users : q # r => ~Working(q)
      /\ ~deleted /\ saw[r].template = template
  BY Sole
<1>c. Creator \in Users
  BY DEF Users
<1> USE DEF Safe, Working, Acting, Adds, Removes, Reverts
<1>2. /\ (Waiting' => Waiting) /\ (Abandoned => Abandoned') /\ Bare' = Bare
      /\ Adopted' = Adopted
  BY <1>c DEF Waiting, Abandoned, Users, Bare, Adopted
<1>w. Certain' => Certain
  BY <1>c, <1>2 DEF Certain, Adopted, Deletes
<1>k. Known'
  <2>1. Working(Creator)' => Working(Creator)
    BY <1>c
  <2> QED BY <1>2, <2>1 DEF Known
<1>3. Seeing' /\ NoAlarm' /\ Evaluated' /\ Gone' /\ InOrder'
  BY <1>1, <1>2 DEF Seeing, NoAlarm, Evaluated, Gone, InOrder
<1>4. Unborn' /\ Alive'
  BY <1>1, <1>2, <1>w DEF Unborn, Alive
<1>5. Progress'
  BY <1>1, <1>2 DEF Progress
<1> QED BY <1>3, <1>4, <1>5, <1>k

LEMMA BeginFailsSafe ==
  ASSUME TypeOK, Owned, Safe, NEW r \in Users, BeginFails(r)
  PROVE  Safe'
<1>1. /\ Working(r) /\ ~Acting(r) /\ pc'[r] = "over"
      /\ \A q \in Users : q # r => pc'[q] = pc[q]
  BY DEF BeginFails, Goto, TypeOK, Working, Acting
<1>2. ~deleted
  BY <1>1, Sole
<1>3. /\ UNCHANGED <<deleted, template, row, rule, kind, saw, target, todo, timer, got>>
      /\ status' = "FAILED"
  BY <1>2 DEF BeginFails, StateSet, timers
<1>4. Settled'
  BY <1>3 DEF Settled
<1> QED BY <1>1, <1>3, <1>4, EndSafe

(* Start and FinishFails write IN_PROGRESS or FAILED to a row, or nothing; *)
(* what fails may have done what it should to the rule.                    *)
LEMMA RowWritten ==
  ASSUME TypeOK, Owned, Safe, NEW r \in Users, pc[r] \in {"next", "busy"}, todo[r] # <<>>,
         NEW s \in Statuses,
         row' = row \/ row' = Written(r, Head(todo[r]), s),
         rule' = rule \/ /\ Handle(r, Head(todo[r])) /\ ~(InFlight /\ rule' # rule)
                         /\ row' = Written(r, Head(todo[r]), s),
         status = "IN_PROGRESS",
         pc'[r] \in {"busy", "failed"},
         \A q \in Users : q # r => pc'[q] = pc[q],
         UNCHANGED <<action, status, deleted, template, kind, saw, target, todo, timer, got>>
  PROVE  /\ Safe' <=> Progress'
         /\ kind[r] \in Updates => UpdateDone(r)'
         /\ \A q \in Users : q # r => ~Working(q)
<1> DEFINE x == Head(todo[r])
           a == ResourceAction(r)
<1>1. Working(r)
  BY DEF Working
<1>2. /\ \A q \in Users : q # r => ~Working(q)
      /\ ~deleted /\ saw[r].template = template
      /\ kind[r] \in {"CREATE", "ADOPT", "UNCREATE"} <=> r = Creator
  BY <1>1, Sole
<1>3. /\ x \in Resources
      /\ x = "alarm" => template \/ Adds(r) \/ Reverts(r)
      /\ kind[r] \in Updates => x = "alarm" /\ todo[r] = <<"alarm">>
  BY HeadOf, Todos
<1>4. /\ \A y \in Resources : row'[y] = Absent => row[y] = Absent
      /\ \A y \in Resources : y # x => row'[y] = row[y]
      /\ Bare' => Bare
      /\ InOrder'
      /\ Waiting => row' = row /\ kind[r] \notin {"CREATE", "ADOPT"} \cup Updates
  BY RowFacts
<1>5. "alarm" \in Resources /\ "policy" \in Resources
  BY DEF Resources
<1>6. \/ rule' = rule
      \/ /\ x = "alarm" /\ kind[r] \notin {"ADOPT", "ABANDON"} /\ ~InFlight
         /\ row' = Written(r, x, s)
         /\ a = "CREATE" => rule' = "NODATA"
         /\ a # "CREATE" => row[x] # Absent
         /\ a = "DELETE" => rule' = Nothing
         /\ a = "SUSPEND" => rule' = "SUSPENDED"
         /\ a = "RESUME" => rule' = "NODATA"
  <2>1. ASSUME Handle(r, x), rule' # rule
        PROVE  /\ x = "alarm" /\ kind[r] \notin {"ADOPT", "ABANDON"}
               /\ a = "CREATE" => rule' = "NODATA"
               /\ a # "CREATE" => row[x] # Absent
               /\ a = "DELETE" => rule' = Nothing
               /\ a = "SUSPEND" => rule' = "SUSPENDED"
               /\ a = "RESUME" => rule' = "NODATA"
    <3> HIDE DEF x, a
    <3> QED BY <1>3, <2>1, Handled DEF a
  <2> QED BY <2>1
<1>7. ASSUME row'["alarm"] = Absent PROVE row["alarm"] = Absent /\ rule' = rule
  <2>1. row["alarm"] = Absent
    BY <1>4, <1>5, <1>7
  <2>2. CASE a \in {"CREATE", "ADOPT"} /\ row' = Written(r, x, s) /\ x = "alarm"
    <3>1. Written(r, x, s)[x] = <<a, s>>
      <4> HIDE DEF x
      <4> QED BY <1>3, <2>2, WrittenRow
    <3>2. <<a, s>> # Absent
      BY <2>2 DEF Absent
    <3> QED BY <1>7, <2>2, <3>1, <3>2
  <2> QED BY <1>6, <2>1, <2>2
<1>8. a \in {"CREATE", "ADOPT", "SUSPEND", "RESUME", "DELETE"}
  BY ActionsTyped
<1>9. /\ kind[r] \in Updates => a \in {"CREATE", "DELETE"}
      /\ Waiting => a \notin {"CREATE", "ADOPT"}
  <2>1. a \in {"CREATE", "ADOPT"} => kind[r] \in {"CREATE", "ADOPT"} \cup Updates
    BY DEF ResourceAction, Updates, Deletes
  <2> QED BY <1>4, <2>1, Acts
<1> HIDE DEF x, a
<1>c. Creator \in Users
  BY DEF Users
<1>w. /\ (Waiting' => Waiting) /\ (Certain' => Certain) /\ (Abandoned => Abandoned')
      /\ Adopted' = Adopted
  BY <1>c DEF Waiting, Certain, Adopted, Abandoned, Users
<1>n. /\ "NODATA" \in WatchStates /\ Nothing \notin WatchStates
      /\ "SUSPENDED" \notin WatchStates /\ Nothing # "SUSPENDED"
  BY DEF WatchStates, Nothing
<1> USE DEF Safe, Working, Acting, Adds, Removes, Reverts
<1>10. Seeing' /\ Evaluated' /\ Gone' /\ Alive'
  <2>1. Evaluated'
    BY <1>6 DEF Evaluated, InFlight
  <2> QED BY <1>1, <1>2, <1>w, <2>1 DEF Seeing, Gone, Alive
<1>11. NoAlarm'
  <2>1. SUFFICES ASSUME ~template, ~Adds(r), ~Reverts(r) PROVE rule' = Nothing /\ row'["alarm"] = Absent
    BY DEF NoAlarm
  <2>2. x # "alarm" /\ rule = Nothing /\ row["alarm"] = Absent
    BY <1>2, <1>3, <2>1 DEF NoAlarm
  <2> QED BY <1>4, <1>5, <1>6, <2>2
<1>12. Unborn'
  <2>1. SUFFICES ASSUME Waiting' PROVE Unborn'
    BY DEF Unborn
  <2>2. row = [y \in Resources |-> Absent]
    BY <1>w, <2>1 DEF Unborn
  <2>3. rule' = rule
    BY <1>4, <1>5, <1>7, <1>w, <2>1, <2>2
  <2> QED BY <1>2, <1>4, <1>w, <2>1, <2>3 DEF Unborn
<1>13. Known' /\ Settled'
  <2>1. Working(Creator)' => Working(Creator)
    BY <1>c
  <2> QED BY <1>7, <1>w, <2>1 DEF Known, Settled
<1>14. kind[r] \in Updates => UpdateDone(r)'
  <2>1. SUFFICES ASSUME kind[r] \in Updates PROVE UpdateDone(r)'
    OBVIOUS
  <2>2. UpdateDone(r)
    BY <2>1 DEF Progress
  <2>3. PolicyThere'
    BY <1>3, <1>4, <1>5, <1>w, <2>1, <2>2 DEF UpdateDone, Awake, PolicyThere, Bare
  <2>4. AlarmKnown' /\ rule' # "SUSPENDED"
    BY <1>6, <1>7, <1>9, <1>n, <2>1, <2>2 DEF UpdateDone, Awake, AlarmKnown
  <2>5. todo[r] = <<"alarm">>
    BY <1>3, <2>1
  <2>6. Adds(r) \/ Removes(r) \/ Reverts(r)
    BY <2>2, <2>5 DEF UpdateDone
  <2> QED BY <1>w, <2>2, <2>3, <2>4, <2>5, <2>6, Todos DEF UpdateDone, Awake
<1> QED BY <1>2, <1>4, <1>10, <1>11, <1>12, <1>13, <1>14

LEMMA StartSafe ==
  ASSUME TypeOK, Owned, Safe, NEW r \in Users, Start(r)
  PROVE  Safe'
<1> DEFINE x == Head(todo[r])
<1>1. pc[r] = "next" /\ todo[r] # <<>> /\ pc'[r] \in {"busy", "failed"}
      /\ \A q \in Users : q # r => pc'[q] = pc[q]
  BY DEF Start, Goto, TypeOK
<1>2. UNCHANGED <<action, status, deleted, template, rule, kind, saw, target, todo, timer, got>>
  BY DEF Start, stack, timers
<1>3. /\ row' = row \/ row' = Written(r, x, "IN_PROGRESS")
      /\ pc'[r] = "busy" => Ready(r, x) /\ row' = Written(r, x, "IN_PROGRESS")
  BY DEF Start, Goto, TypeOK
<1>4. "IN_PROGRESS" \in Statuses
  BY DEF Statuses
<1>s. status = "IN_PROGRESS" /\ action = StackAction(r)
  BY <1>1 DEF Safe, Progress
<1>5. /\ Safe' <=> Progress'
      /\ kind[r] \in Updates => UpdateDone(r)'
      /\ \A q \in Users : q # r => ~Working(q)
  BY <1>1, <1>2, <1>3, <1>4, <1>s, RowWritten
<1>6. /\ x \in Resources
      /\ \A y \in Resources : y # x => row'[y] = row[y]
      /\ row[x] # Absent /\ pc'[r] = "busy" => row'[x] = <<ResourceAction(r), "IN_PROGRESS">>
      /\ \A y \in Resources : row'[y] = Absent => row[y] = Absent
      /\ row["alarm"] = Absent /\ ResourceAction(r) \notin {"CREATE", "ADOPT"} =>
           row'["alarm"] = Absent
  BY <1>1, <1>3, <1>4, HeadOf, WrittenRow, RowFacts
<1>7. "alarm" \in Resources /\ "policy" \in Resources
  BY DEF Resources
<1>8. Adopted' = Adopted /\ StackAction(r)' = StackAction(r)
  BY <1>2 DEF Adopted, StackAction
<1> HIDE DEF x
<1>9. ASSUME pc'[r] = "busy", kind[r] \in {"CREATE", "ADOPT"} PROVE CreateDone(r)'
  <2>1. CreateDone(r)
    BY <1>1, <1>9 DEF Safe, Progress
  <2>2. todo[r] \in {<<"alarm">>, <<>>} => x = "alarm"
    BY <1>1, Todos DEF x
  <2>3. PolicyThere /\ x = "alarm" => PolicyThere'
    BY <1>6, <1>7, <1>8 DEF PolicyThere, Bare
  <2> QED BY <1>1, <1>2, <1>8, <2>1, <2>2, <2>3 DEF CreateDone
<1>10. ASSUME pc'[r] = "busy", kind[r] = "RESUME" PROVE ResumeDone(r)'
  <2>1. ResumeDone(r)
    BY <1>1, <1>10 DEF Safe, Progress
  <2>2. ResourceAction(r) = "RESUME"
    BY <1>10, Acts
  <2>3. row[x] = <<"SUSPEND", "COMPLETE">>
    BY <1>3, <1>10, <2>2 DEF Ready
  <2>4. row'[x] = <<"RESUME", "IN_PROGRESS">>
    BY <1>6, <1>10, <2>2, <2>3 DEF Absent
  <2>5. /\ todo[r] \in {<<"policy", "alarm">>, <<"policy">>} => x = "policy"
        /\ todo[r] = <<"alarm">> => x = "alarm"
    BY Todos DEF x
  <2> QED BY <1>1, <1>2, <1>6, <1>7, <2>1, <2>4, <2>5, Todos DEF ResumeDone
<1>11. ASSUME pc'[r] = "busy", kind[r] = "SUSPEND" PROVE SuspendDone(r)'
  BY <1>1, <1>2, <1>6, <1>7, <1>11 DEF Safe, Progress, SuspendDone
<1>12. ASSUME pc'[r] = "busy", kind[r] \in Deletes PROVE DeleteDone(r)'
  <2>1. DeleteDone(r)
    BY <1>1, <1>12 DEF Safe, Progress
  <2>2. ResourceAction(r) = "DELETE"
    BY <1>12, Acts
  <2> QED BY <1>1, <1>2, <1>6, <2>1, <2>2 DEF DeleteDone
<1>13. Progress'
  <2>1. \A q \in Users : q # r => pc'[q] \notin {"next", "busy", "failed", "flip", "erase"}
    BY <1>1, <1>5 DEF Working
  <2> QED
    BY <1>1, <1>2, <1>5, <1>8, <1>9, <1>10, <1>11, <1>12, <1>s, <2>1 DEF Progress, Acting
<1> QED BY <1>5, <1>13

LEMMA FinishFailsSafe ==
  ASSUME TypeOK, Owned, Safe, ~strayed', NEW r \in Users, FinishFails(r)
  PROVE  Safe'
<1>1. pc[r] = "busy" /\ pc'[r] = "failed" /\ row' = Written(r, Head(todo[r]), "FAILED")
      /\ \A q \in Users : q # r => pc'[q] = pc[q]
  BY DEF FinishFails, Goto, TypeOK
<1>2. /\ UNCHANGED <<action, status, deleted, template, kind, saw, target, todo, timer, got>>
      /\ rule' = rule \/ (Handle(r, Head(todo[r])) /\ ~(InFlight /\ rule' # rule))
  BY DEF FinishFails, stack, timers
<1>3. todo[r] # <<>> /\ status = "IN_PROGRESS" /\ action = StackAction(r)
  BY <1>1 DEF Safe, Progress
<1>4. "FAILED" \in Statuses
  BY DEF Statuses
<1>5. /\ Safe' <=> Progress'
      /\ kind[r] \in Updates => UpdateDone(r)'
      /\ \A q \in Users : q # r => ~Working(q)
  BY <1>1, <1>2, <1>3, <1>4, RowWritten
<1>6. \A q \in Users : q # r => pc'[q] \notin {"next", "busy", "failed", "flip", "erase"}
  BY <1>1, <1>5 DEF Working
<1>7. StackAction(r)' = StackAction(r)
  BY <1>2 DEF StackAction
<1>8. Progress'
  BY <1>1, <1>2, <1>3, <1>5, <1>6, <1>7 DEF Progress, Acting
<1> QED BY <1>5, <1>8

(* A resource that is handled: its row and, if it is the alarm, the rule.  *)
LEMMA FinishSafe ==
  ASSUME TypeOK, Owned, Safe, ~strayed', NEW r \in Users, Finish(r)
  PROVE  Safe'
<1> DEFINE x == Head(todo[r])
           a == ResourceAction(r)
<1>1. /\ pc[r] = "busy" /\ todo[r] # <<>> /\ pc'[r] = "next"
      /\ todo'[r] = Tail(todo[r])
      /\ \A q \in Users : q # r => pc'[q] = pc[q]
  BY DEF Finish, Goto, TypeOK
<1>2. /\ UNCHANGED <<action, status, deleted, template, kind, saw, target, timer, got>>
      /\ Handle(r, x)
      /\ row' = IF a = "DELETE" THEN [row EXCEPT ![x] = Absent] ELSE Written(r, x, "COMPLETE")
      /\ InFlight => rule' = rule
  BY DEF Finish, stack, timers
<1>3. /\ \A q \in Users : q # r => ~Working(q)
      /\ ~deleted /\ saw[r].template = template
      /\ kind[r] \in {"CREATE", "ADOPT", "UNCREATE"} <=> r = Creator
  BY <1>1, Sole DEF Working
<1>u. Updates = {"UPDATE", "REVERT"} /\ Deletes = {"DELETE", "ABANDON", "UNCREATE"}
  BY DEF Updates, Deletes
<1>4. /\ x \in Resources
      /\ x = "alarm" => template \/ Adds(r) \/ Reverts(r)
      /\ kind[r] \in Updates => x = "alarm" /\ todo[r] = <<"alarm">>
      /\ kind[r] \in {"CREATE", "ADOPT"} \cup Updates /\ x = "alarm" => ~Bare
  BY <1>1, HeadOf, Todos
<1>5. "alarm" \in Resources /\ "policy" \in Resources /\ "COMPLETE" \in Statuses
  BY DEF Resources, Statuses
<1> HIDE DEF x, a
<1>6. /\ \A y \in Resources : y # x => row'[y] = row[y]
      /\ row[x] = Absent /\ a \notin {"CREATE", "ADOPT"} => row' = row
      /\ a # "DELETE" /\ (row[x] # Absent \/ a \in {"CREATE", "ADOPT"}) =>
           row'[x] = <<a, "COMPLETE">>
      /\ a = "DELETE" => row'[x] = Absent
  <2>1. CASE a = "DELETE"
    BY <1>2, <1>4, <2>1 DEF TypeOK
  <2>2. CASE a # "DELETE"
    <3>1. row' = Written(r, x, "COMPLETE")
      BY <1>2, <2>2
    <3> QED BY <1>4, <1>5, <2>2, <3>1, WrittenRow DEF a
  <2> QED BY <2>1, <2>2
<1>7. x # "alarm" \/ kind[r] \in {"ADOPT", "ABANDON"} => rule' = rule
  BY <1>2, <1>4, Handled
<1>8. x = "alarm" /\ kind[r] \notin {"ADOPT", "ABANDON"} =>
        /\ a = "CREATE" => rule' = "NODATA"
        /\ a # "CREATE" /\ row[x] = Absent => rule' = rule /\ a = "DELETE"
        /\ a = "DELETE" /\ row[x] # Absent => rule' = Nothing
        /\ a = "SUSPEND" => rule # Nothing /\ rule' = "SUSPENDED"
        /\ a = "RESUME" => rule # Nothing /\ rule' = "NODATA"
  BY <1>2, <1>4, Handled DEF a
<1>9. /\ kind[r] \in {"CREATE", "ADOPT", "SUSPEND", "RESUME"} => a = kind[r]
      /\ kind[r] \in Deletes => a = "DELETE"
      /\ kind[r] \in Updates => a = IF target[r] THEN "CREATE" ELSE "DELETE"
  BY Acts DEF a
<1>10. /\ "NODATA" \in WatchStates /\ Nothing \notin WatchStates
       /\ "SUSPENDED" \notin WatchStates /\ Nothing # "SUSPENDED"
  BY DEF WatchStates, Nothing
<1>11. Adopted' = Adopted /\ StackAction(r)' = StackAction(r)
  BY <1>2 DEF Adopted, StackAction
<1>12. /\ status = "IN_PROGRESS" /\ action = StackAction(r)
  BY <1>1 DEF Safe, Progress
<1>13. row'["alarm"] = Absent /\ x = "alarm" =>
         a = "DELETE" \/ (row["alarm"] = Absent /\ a \notin {"CREATE", "ADOPT"})
  <2>1. a # "INIT"
    BY ActionsTyped DEF a
  <2> QED BY <1>4, <1>5, <1>6, <2>1 DEF Absent
<1>k. kind[r] \in Kinds /\ kind[r] \in {"CREATE", "ADOPT", "SUSPEND", "RESUME"} \cup Deletes \cup Updates
  BY KindsAre, <1>u DEF TypeOK
<1>c. Creator \in Users
  BY DEF Users
<1>w. /\ (Waiting' => Waiting /\ r # Creator) /\ (Certain' => Certain)
      /\ (Abandoned => Abandoned') /\ (kind[r] = "ABANDON" => Abandoned')
  BY <1>1, <1>2, <1>3, <1>c, <1>11 DEF Waiting, Certain, Abandoned, Users
<1> USE DEF Safe, Working, Acting, Adds, Removes, Reverts
<1>14. Seeing' /\ Gone' /\ Alive'
  BY <1>1, <1>2, <1>3, <1>w DEF Seeing, Gone, Alive
<1>15. Evaluated'
  BY <1>2 DEF Evaluated, InFlight
<1>16. NoAlarm'
  <2>1. SUFFICES ASSUME ~template, ~Adds(r), ~Reverts(r) PROVE rule' = Nothing /\ row'["alarm"] = Absent
    BY <1>1, <1>2 DEF NoAlarm
  <2>2. x # "alarm"
    BY <1>4, <2>1
  <2>3. rule = Nothing /\ row["alarm"] = Absent
    BY <1>3, <2>1 DEF NoAlarm
  <2> QED BY <1>5, <1>6, <1>7, <2>2, <2>3
<1>17. Unborn'
  <2>1. SUFFICES ASSUME Waiting' PROVE Unborn'
    BY DEF Unborn
  <2>2. row = [y \in Resources |-> Absent] /\ rule = Nothing
    BY <1>w, <2>1 DEF Unborn
  <2>3. kind[r] \notin {"CREATE", "ADOPT"} \cup Updates
    BY <1>1, <1>3, <1>w, <2>1 DEF Unborn
  <2>4. row' = row /\ row[x] = Absent /\ a \notin {"CREATE", "ADOPT"}
    BY <1>4, <1>6, <1>9, <1>k, <2>2, <2>3
  <2>5. rule' = rule
    BY <1>7, <1>8, <2>4
  <2> QED BY <1>1, <1>2, <1>3, <1>12, <1>w, <2>1, <2>2, <2>4, <2>5 DEF Unborn
<1>18. Settled'
  BY <1>2, <1>12 DEF Settled
<1>19. ASSUME kind[r] \in {"CREATE", "ADOPT"} PROVE CreateDone(r)'
  <2>1. CreateDone(r)
    BY <1>1, <1>19 DEF Progress
  <2>2. CASE todo[r] = <<"policy", "alarm">> \/ todo[r] = <<"policy">>
    <3>1. x = "policy"
      BY <2>2, Todos DEF x
    <3>2. rule' = rule
      BY <1>7, <3>1
    <3>3. PolicyThere'
      <4>1. row'["policy"] = <<a, "COMPLETE">> /\ a = kind[r]
        BY <1>6, <1>9, <1>19, <3>1
      <4> QED BY <1>3, <1>11, <1>19, <4>1 DEF PolicyThere, Adopted, Bare, Absent
    <3>4. todo[r] = <<"policy">> => ~template
      BY <2>1 DEF CreateDone
    <3>5. todo'[r] = IF template THEN <<"alarm">> ELSE <<>>
      BY <1>1, <2>1, <2>2, <3>4, Todos DEF CreateDone
    <3> QED BY <1>2, <2>1, <2>2, <3>2, <3>3, <3>5, Todos DEF CreateDone
  <2>3. CASE todo[r] = <<"alarm">>
    <3>1. x = "alarm" /\ todo'[r] = <<>>
      BY <1>1, <2>3, Todos DEF x
    <3>2. PolicyThere'
      BY <1>5, <1>6, <1>11, <2>1, <2>3, <3>1, Todos DEF PolicyThere, CreateDone, Bare
    <3>3. row'["alarm"] # Absent
      BY <1>9, <1>13, <1>19, <3>1
    <3>4. /\ kind[r] = "ADOPT" => rule' = Nothing /\ Adopted
          /\ kind[r] = "CREATE" => rule' = "NODATA"
      <4>1. kind[r] = "ADOPT" => Adopted
        BY <1>3 DEF Adopted
      <4> QED BY <1>7, <1>8, <1>9, <2>1, <3>1, <4>1 DEF CreateDone
    <3> QED BY <1>2, <1>10, <1>11, <1>19, <3>1, <3>2, <3>3, <3>4, Todos DEF CreateDone
  <2> QED BY <1>1, <2>1, <2>2, <2>3 DEF CreateDone
<1>20. ASSUME kind[r] = "RESUME" PROVE ResumeDone(r)'
  <2>1. ResumeDone(r)
    BY <1>1, <1>20 DEF Progress
  <2>2. a = "RESUME"
    BY <1>9, <1>20
  <2>3. CASE todo[r] = <<"policy", "alarm">> \/ todo[r] = <<"policy">>
    <3>1. x = "policy"
      BY <2>3, Todos DEF x
    <3>2. row["policy"] = <<"RESUME", "IN_PROGRESS">>
      BY <1>1, <2>1, <2>3 DEF ResumeDone
    <3>3. row'["policy"] = <<"RESUME", "COMPLETE">>
      BY <1>6, <2>2, <3>1, <3>2 DEF Absent
    <3>4. todo[r] = <<"policy">> => ~template
      BY <2>1 DEF ResumeDone
    <3>5. todo'[r] = IF template THEN <<"alarm">> ELSE <<>>
      BY <1>1, <2>1, <2>3, <3>4, Todos DEF ResumeDone
    <3> QED BY <1>1, <1>2, <3>3, <3>5, Todos DEF ResumeDone
  <2>4. CASE todo[r] = <<"alarm">>
    <3>1. x = "alarm" /\ todo'[r] = <<>>
      BY <1>1, <2>4, Todos DEF x
    <3>2. row["alarm"] = <<"RESUME", "IN_PROGRESS">> /\ row["policy"] = <<"RESUME", "COMPLETE">>
      BY <1>1, <2>1, <2>4 DEF ResumeDone
    <3>3. row'["policy"] = <<"RESUME", "COMPLETE">>
      BY <1>5, <1>6, <3>1, <3>2
    <3>4. row'["alarm"] # Absent
      BY <1>13, <2>2, <3>1, <3>2 DEF Absent
    <3>5. rule' = "NODATA"
      BY <1>8, <1>20, <2>2, <3>1
    <3> QED BY <1>1, <1>10, <3>1, <3>3, <3>4, <3>5, Todos DEF ResumeDone
  <2> QED BY <1>1, <2>1, <2>3, <2>4 DEF ResumeDone
<1>21. ASSUME kind[r] = "SUSPEND" PROVE SuspendDone(r)'
  <2>1. SuspendDone(r)
    BY <1>1, <1>21 DEF Progress
  <2>0. a = "SUSPEND"
    BY <1>9, <1>21
  <2>2. CASE todo[r] = <<"alarm", "policy">>
    <3>1. x = "alarm" /\ todo'[r] = <<"policy">>
      BY <1>1, <2>2, Todos DEF x
    <3>2. rule' = "SUSPENDED" /\ row'["alarm"] # Absent
      BY <1>6, <1>8, <1>21, <2>0, <3>1 DEF Absent
    <3> QED BY <3>1, <3>2, Todos DEF SuspendDone
  <2>3. CASE todo[r] = <<"policy">>
    <3>1. x = "policy" /\ todo'[r] = <<>>
      BY <1>1, <2>3, Todos DEF x
    <3> QED BY <1>2, <1>5, <1>6, <1>7, <2>1, <2>3, <3>1, Todos DEF SuspendDone
  <2> QED BY <1>1, <2>1, <2>2, <2>3 DEF SuspendDone
<1>22. ASSUME kind[r] \in Deletes PROVE DeleteDone(r)'
  <2>1. DeleteDone(r)
    BY <1>1, <1>22 DEF Progress
  <2>0. a = "DELETE"
    BY <1>9, <1>22
  <2>2. CASE todo[r] = <<"alarm", "policy">>
    <3>1. x = "alarm" /\ todo'[r] = <<"policy">>
      BY <1>1, <2>2, Todos DEF x
    <3> QED BY <1>2, <1>6, <2>0, <3>1, Todos DEF DeleteDone
  <2>3. CASE todo[r] = <<"policy">>
    <3>1. x = "policy" /\ todo'[r] = <<>>
      BY <1>1, <2>3, Todos DEF x
    <3> QED BY <1>2, <1>5, <1>6, <2>0, <2>1, <2>3, <3>1, Todos DEF DeleteDone, Bare
  <2> QED BY <1>1, <2>1, <2>2, <2>3 DEF DeleteDone
<1>23. ASSUME kind[r] \in Updates PROVE UpdateDone(r)'
  <2>1. UpdateDone(r)
    BY <1>1, <1>23 DEF Progress
  <2>2. /\ x = "alarm" /\ todo[r] = <<"alarm">> /\ todo'[r] = <<>>
        /\ Adds(r) \/ Removes(r) \/ Reverts(r)
    BY <1>1, <1>4, <1>23, <2>1, Todos DEF UpdateDone
  <2>3. PolicyThere'
    BY <1>5, <1>6, <1>11, <2>1, <2>2 DEF PolicyThere, UpdateDone, Awake, Bare
  <2>4. CASE Adds(r)
    <3>1. rule' = "NODATA" /\ row'["alarm"] # Absent
      BY <1>8, <1>9, <1>13, <1>23, <1>u, <2>2, <2>4
    <3>2. Awake'
      BY <1>10, <2>3, <3>1 DEF Awake, AlarmKnown, WatchStates
    <3> QED BY <1>2, <1>10, <2>2, <2>4, <3>1, <3>2, Todos DEF UpdateDone
  <2>5. CASE ~Adds(r)
    <3>0. a = "DELETE" /\ kind[r] \notin {"ADOPT", "ABANDON"}
      BY <1>9, <1>23, <1>u, <2>1, <2>2, <2>5 DEF UpdateDone
    <3>1. rule' = Nothing
      BY <1>8, <2>1, <2>2, <3>0 DEF UpdateDone, Awake, AlarmKnown
    <3>2. Awake'
      BY <1>10, <2>3, <3>1 DEF Awake, AlarmKnown
    <3> QED BY <1>2, <2>1, <2>2, <2>5, <3>1, <3>2, Todos DEF UpdateDone
  <2> QED BY <2>4, <2>5
<1>24. Progress'
  <2>1. \A q \in Users : q # r => pc'[q] \notin {"next", "busy", "failed", "flip", "erase"}
    BY <1>1, <1>3
  <2> QED
    BY <1>1, <1>2, <1>11, <1>12, <1>19, <1>20, <1>21, <1>22, <1>23, <2>1 DEF Progress
<1>25. InOrder'
  <2>1. SUFFICES ASSUME Bare' PROVE row'["alarm"] = Absent
    BY DEF InOrder
  <2>2. CASE x = "alarm"
    <3>1. Bare /\ row["alarm"] = Absent
      BY <1>5, <1>6, <2>1, <2>2 DEF Bare, InOrder
    <3>2. a \notin {"CREATE", "ADOPT"}
      BY <1>4, <1>9, <1>k, <1>u, <2>2, <3>1
    <3> QED BY <1>6, <2>2, <3>1, <3>2
  <2>3. CASE x = "policy"
    <3>1. row'["alarm"] = row["alarm"]
      BY <1>5, <1>6, <2>3
    <3>2. Bare \/ a = "DELETE"
      BY <1>6, <2>1, <2>3, ActionsTyped DEF Bare, Absent, a
    <3>3. a = "DELETE" => kind[r] \in Deletes
      BY <1>4, <1>9, <1>k, <2>3
    <3>4. ASSUME kind[r] \in Deletes PROVE row["alarm"] = Absent
      <4>1. DeleteDone(r)
        BY <1>1, <3>4 DEF Progress
      <4>2. todo[r] # <<"alarm", "policy">>
        BY <2>3, Todos DEF x
      <4> QED BY <4>1, <4>2 DEF DeleteDone
    <3> QED BY <3>1, <3>2, <3>3, <3>4 DEF InOrder
  <2> QED BY <1>4, <2>2, <2>3 DEF Resources
<1>26. Known'
  <2>0. Working(Creator)' => Working(Creator)
    BY <1>1, <1>c
  <2>1. SUFFICES ASSUME row'["alarm"] = Absent, ~(Abandoned' /\ ~Working(Creator)')
                 PROVE  rule' = Nothing
    BY DEF Known
  <2>2. /\ ~(Abandoned /\ ~Working(Creator))
        /\ kind[r] # "ABANDON"
    <3>1. ~Working(Creator) => Abandoned' \/ (~Abandoned /\ kind[r] # "ABANDON")
      BY <1>w
    <3>2. Working(Creator) => r = Creator
      BY <1>3, <1>c
    <3> QED BY <1>3, <1>u, <2>0, <2>1, <3>1, <3>2
  <2>3. CASE x # "alarm"
    BY <1>5, <1>6, <1>7, <2>1, <2>2, <2>3 DEF Known
  <2>4. CASE x = "alarm"
    <3>1. a = "DELETE" \/ (row["alarm"] = Absent /\ a \notin {"CREATE", "ADOPT"})
      BY <1>13, <2>1, <2>4
    <3>2. kind[r] # "ADOPT"
      BY <1>9, <3>1
    <3> QED BY <1>8, <2>2, <2>4, <3>1, <3>2 DEF Known
  <2> QED BY <2>3, <2>4
<1> QED BY <1>14, <1>15, <1>16, <1>17, <1>18, <1>24, <1>25, <1>26

LEMMA EndCreateSafe ==
  ASSUME TypeOK, Owned, Safe, NEW r \in Users, EndCreate(r)
  PROVE  Safe'
<1>1. /\ Done(r) /\ Working(r) /\ kind[r] \in {"CREATE", "ADOPT"} /\ ~Adds(r) /\ ~Reverts(r)
      /\ pc'[r] \in {"over", "watch"}
      /\ \A q \in Users : q # r => pc'[q] = pc[q]
  BY DEF EndCreate, Done, Working, Adds, Reverts, TypeOK
<1>2. /\ \A q \in Users : q # r => ~Working(q)
      /\ ~deleted /\ saw[r].template = template /\ r = Creator
  BY <1>1, Sole
<1>3. /\ UNCHANGED <<deleted, template, row, rule, kind, saw, target, todo, timer, got>>
      /\ action' = kind[r] /\ status' = Outcome(r)
  BY <1>2 DEF EndCreate, StateSet, timers
<1>4. ASSUME status' = "COMPLETE" PROVE Awake /\ (template /\ ~Adopted => rule # Nothing)
  <2>1. pc[r] = "next" /\ todo[r] = <<>>
    BY <1>1, <1>3, <1>4 DEF Done, Outcome
  <2>2. CreateDone(r)
    BY <1>1, <2>1 DEF Safe, Progress
  <2>3. ~template => rule = Nothing
    BY <1>1, <1>2 DEF Safe, NoAlarm, Acting, Working
  <2> QED BY <2>1, <2>2, <2>3 DEF CreateDone, Awake, AlarmKnown
<1>5. Awake' = Awake /\ Adopted' = Adopted /\ Bare' = Bare
  BY <1>3 DEF Awake, PolicyThere, AlarmKnown, Adopted, Bare
<1>6. Settled'
  BY <1>1, <1>3, <1>4, <1>5 DEF Settled, Awake, PolicyThere
<1>7. ~Waiting'
  BY <1>1, <1>2 DEF Waiting
<1> QED BY <1>1, <1>3, <1>6, <1>7, EndSafe

(* The rows of a creation that failed are there for its removal. *)
LEMMA RollBackCreateSafe ==
  ASSUME TypeOK, Owned, Safe, NEW r \in Users, RollBackCreate(r)
  PROVE  Safe'
<1>1. /\ pc[r] = "failed" /\ Working(r) /\ kind[r] \in {"CREATE", "ADOPT"}
      /\ pc'[r] = "begin" /\ kind'[r] = "UNCREATE"
      /\ \A q \in Users : q # r => pc'[q] = pc[q] /\ kind'[q] = kind[q]
  BY DEF RollBackCreate, Goto, Working, TypeOK
<1>2. /\ \A q \in Users : q # r => ~Working(q)
      /\ ~deleted /\ saw[r].template = template /\ r = Creator
  BY <1>1, Sole
<1>3. /\ UNCHANGED <<deleted, template, row, rule, saw, target, todo, timer, got>>
      /\ status' = "FAILED"
  BY <1>2 DEF RollBackCreate, StateSet, timers
<1>4. Certain
  BY <1>1, <1>2 DEF Certain
<1>5. Bare' = Bare /\ ~Waiting' /\ (Abandoned => Abandoned')
  BY <1>1, <1>2, <1>3, CreatorAssumption DEF Bare, Waiting, Abandoned, Users
<1> USE DEF Safe, Working, Acting, Adds, Removes, Reverts
<1>k. Known'
  BY <1>1, <1>2, <1>3 DEF Known
<1>6. Seeing' /\ NoAlarm' /\ Evaluated' /\ Unborn' /\ InOrder'
  BY <1>1, <1>2, <1>3, <1>5 DEF Seeing, NoAlarm, Evaluated, Unborn, InOrder
<1>7. Settled' /\ Gone' /\ Alive'
  BY <1>2, <1>3, <1>4 DEF Settled, Gone, Alive
<1>8. Progress'
  BY <1>1, <1>2 DEF Progress
<1> QED BY <1>6, <1>7, <1>8, <1>k

LEMMA EndSuspendResumeSafe ==
  ASSUME TypeOK, Owned, Safe, NEW r \in Users, EndSuspendResume(r)
  PROVE  Safe'
<1>1. /\ Done(r) /\ Working(r) /\ kind[r] \in {"SUSPEND", "RESUME"}
      /\ ~Adds(r) /\ ~Reverts(r) /\ pc'[r] = "over"
      /\ \A q \in Users : q # r => pc'[q] = pc[q]
  BY DEF EndSuspendResume, Done, Working, Adds, Reverts, TypeOK
<1>2. /\ \A q \in Users : q # r => ~Working(q)
      /\ ~deleted /\ saw[r].template = template /\ r # Creator
  BY <1>1, Sole
<1>3. /\ UNCHANGED <<deleted, template, row, rule, kind, saw, target, todo, timer, got>>
      /\ action' = kind[r] /\ status' = Outcome(r)
  BY <1>2 DEF EndSuspendResume, StateSet, timers
<1>4. ~template => rule = Nothing
  BY <1>1, <1>2 DEF Safe, NoAlarm, Acting, Working
<1>5. ASSUME status' = "COMPLETE", kind[r] = "SUSPEND"
      PROVE  /\ template => rule = "SUSPENDED" /\ row["alarm"] # Absent
             /\ Bare => rule = Nothing
  <2>1. pc[r] = "next" /\ todo[r] = <<>>
    BY <1>1, <1>3, <1>5 DEF Done, Outcome
  <2>2. SuspendDone(r)
    BY <1>5, <2>1 DEF Safe, Progress
  <2>3. template => rule = "SUSPENDED" /\ row["alarm"] # Absent
    BY <2>1, <2>2, Todos DEF SuspendDone
  <2> QED BY <1>4, <2>3 DEF Safe, InOrder
<1>6. ASSUME status' = "COMPLETE", kind[r] = "RESUME"
      PROVE  /\ Awake /\ row["policy"] = <<"RESUME", "COMPLETE">>
             /\ template => rule # Nothing
  <2>1. pc[r] = "next" /\ todo[r] = <<>>
    BY <1>1, <1>3, <1>6 DEF Done, Outcome
  <2>2. ResumeDone(r)
    BY <1>6, <2>1 DEF Safe, Progress
  <2>3. /\ row["policy"] = <<"RESUME", "COMPLETE">>
        /\ template => row["alarm"] # Absent /\ rule \in WatchStates
    BY <2>1, <2>2 DEF ResumeDone
  <2>4. ~Bare
    BY <2>3 DEF Bare, Absent
  <2> QED BY <1>4, <2>3, <2>4 DEF Awake, PolicyThere, AlarmKnown, WatchStates, Nothing
<1>7. Awake' = Awake /\ Adopted' = Adopted /\ Bare' = Bare
  BY <1>3 DEF Awake, PolicyThere, AlarmKnown, Adopted, Bare
<1>8. Settled'
  BY <1>1, <1>3, <1>5, <1>6, <1>7 DEF Settled, Awake, PolicyThere
<1>9. Waiting' /\ status' = "COMPLETE" => action' \in {"SUSPEND", "DELETE"}
  <2>1. SUFFICES ASSUME Waiting', status' = "COMPLETE", kind[r] = "RESUME"
                 PROVE  FALSE
    BY <1>1, <1>3
  <2>2. Creator \in Users /\ "policy" \in Resources
    BY DEF Users, Resources
  <2>3. row = [y \in Resources |-> Absent]
    BY <1>1, <1>2, <1>3, <2>1, <2>2 DEF Safe, Unborn, Waiting
  <2>4. row["policy"] = Absent
    BY <2>2, <2>3
  <2> QED BY <1>6, <2>1, <2>4 DEF Absent
<1> QED BY <1>1, <1>3, <1>8, <1>9, EndSafe

(* An update that was to add the alarm is taken back. *)
LEMMA RollBackUpdateSafe ==
  ASSUME TypeOK, Owned, Safe, ~strayed', NEW r \in Users, RollBackUpdate(r)
  PROVE  Safe'
<1>1. /\ pc[r] = "failed" /\ Working(r) /\ Acting(r) /\ kind[r] = "UPDATE"
      /\ pc'[r] = "next" /\ kind'[r] = "REVERT" /\ target'[r] = saw[r].template
      /\ todo'[r] = <<"alarm">> /\ target[r]
      /\ \A q \in Users : q # r => /\ pc'[q] = pc[q] /\ kind'[q] = kind[q]
                                   /\ target'[q] = target[q] /\ todo'[q] = todo[q]
  BY DEF RollBackUpdate, Goto, Working, Acting, TypeOK
<1>2. /\ \A q \in Users : q # r => ~Working(q)
      /\ ~deleted /\ saw[r].template = template /\ r # Creator
  BY <1>1, Sole
<1>3. UNCHANGED <<action, status, deleted, template, row, rule, saw, timer, got>>
  BY DEF RollBackUpdate, StackSame, stack, timers
<1>u. Updates = {"UPDATE", "REVERT"} /\ Deletes = {"DELETE", "ABANDON", "UNCREATE"}
  BY DEF Updates, Deletes
<1>4. UpdateDone(r) /\ status = "IN_PROGRESS" /\ action = "UPDATE" /\ todo[r] # <<>>
  BY <1>1, <1>u DEF Safe, Progress, StackAction
<1>5. Adds(r) /\ ~template
  <2>1. Adds(r) \/ Removes(r) \/ Reverts(r)
    BY <1>4 DEF UpdateDone
  <2> QED BY <1>1, <1>2, <2>1 DEF Adds, Removes, Reverts
<1>c. Creator \in Users
  BY DEF Users
<1>6. /\ Awake' = Awake /\ Adopted' = Adopted /\ Bare' = Bare /\ (Abandoned => Abandoned')
      /\ (Waiting' => Waiting) /\ (Certain' => Certain)
  BY <1>1, <1>2, <1>3, <1>c
  DEF Awake, PolicyThere, AlarmKnown, Adopted, Bare, Abandoned, Waiting, Certain, Users
<1>7. ~Waiting
  BY <1>1, <1>u DEF Safe, Unborn
<1> USE DEF Safe, Working, Acting, Adds, Removes, Reverts
<1>k. Known'
  <2>1. Working(Creator)' => Working(Creator)
    BY <1>1, <1>c
  <2> QED BY <1>3, <1>6, <2>1 DEF Known
<1>8. Seeing' /\ NoAlarm' /\ Evaluated' /\ Unborn' /\ InOrder'
  BY <1>1, <1>2, <1>3, <1>6, <1>7 DEF Seeing, NoAlarm, Evaluated, Unborn, InOrder
<1>9. Settled' /\ Gone' /\ Alive'
  BY <1>2, <1>3, <1>4, <1>6 DEF Settled, Gone, Alive
<1>10. UpdateDone(r)'
  BY <1>1, <1>2, <1>3, <1>4, <1>5, <1>6, Todos DEF UpdateDone
<1>11. Progress'
  <2>1. StackAction(r)' = "UPDATE"
    BY <1>1 DEF StackAction
  <2> QED BY <1>1, <1>2, <1>3, <1>4, <1>10, <1>u, <2>1 DEF Progress
<1> QED BY <1>8, <1>9, <1>11, <1>k

LEMMA EndUpdateSafe ==
  ASSUME TypeOK, Owned, Safe, NEW r \in Users, EndUpdate(r)
  PROVE  Safe'
<1>1. /\ Done(r) /\ Working(r) /\ Acting(r) /\ kind[r] \in Updates /\ pc'[r] = "flip"
      /\ \A q \in Users : q # r => pc'[q] = pc[q]
  BY DEF EndUpdate, Done, Working, Acting, TypeOK
<1>u. Updates = {"UPDATE", "REVERT"} /\ Deletes = {"DELETE", "ABANDON", "UNCREATE"}
  BY DEF Updates, Deletes
<1>2. /\ \A q \in Users : q # r => ~Working(q)
      /\ ~deleted /\ saw[r].template = template /\ r # Creator
  BY <1>1, <1>u, Sole
<1>3. /\ UNCHANGED <<deleted, template, row, rule, kind, saw, target, todo, timer, got>>
      /\ action' \in {"UPDATE", "ROLLBACK"} /\ status' = Outcome(r)
  BY <1>2 DEF EndUpdate, StateSet, timers
<1>4. UpdateDone(r)
  BY <1>1 DEF Safe, Progress
<1>c. Creator \in Users
  BY DEF Users
<1>5. /\ Awake' = Awake /\ Adopted' = Adopted /\ UpdateDone(r)' = UpdateDone(r) /\ Bare' = Bare
      /\ (Abandoned => Abandoned') /\ (Waiting' => Waiting) /\ (Certain' => Certain)
  BY <1>1, <1>2, <1>3, <1>c
  DEF Awake, PolicyThere, AlarmKnown, Adopted, UpdateDone, Adds, Removes, Reverts, Bare,
      Abandoned, Waiting, Certain, Users
<1>6. status' = "COMPLETE" => todo[r] = <<>>
  BY <1>1, <1>3 DEF Done, Outcome
<1>7. ~Waiting
  BY <1>1 DEF Safe, Unborn
<1> USE DEF Safe, Working, Acting, Adds, Removes, Reverts
<1>k. Known'
  <2>1. Working(Creator)' => Working(Creator)
    BY <1>1, <1>c
  <2> QED BY <1>3, <1>5, <2>1 DEF Known
<1>8. Seeing' /\ Evaluated' /\ Gone' /\ Alive' /\ NoAlarm' /\ Unborn' /\ InOrder'
  BY <1>1, <1>2, <1>3, <1>5, <1>7
  DEF Seeing, Evaluated, Gone, Alive, NoAlarm, Unborn, InOrder
<1>9. Settled'
  BY <1>1, <1>3, <1>4, <1>5 DEF Settled, UpdateDone, Awake, PolicyThere
<1>10. Progress'
  BY <1>1, <1>2, <1>3, <1>4, <1>5, <1>6, <1>u DEF Progress
<1> QED BY <1>8, <1>9, <1>10, <1>k

LEMMA FlipSafe ==
  ASSUME TypeOK, Owned, Safe, ~strayed', NEW r \in Users, Flip(r)
  PROVE  Safe'
<1>1. /\ pc[r] = "flip" /\ Working(r) /\ Acting(r) /\ kind[r] \in Updates /\ pc'[r] = "over"
      /\ \A q \in Users : q # r => pc'[q] = pc[q]
  BY DEF Flip, Goto, Working, Acting, TypeOK, Owned
<1>u. Updates = {"UPDATE", "REVERT"} /\ Deletes = {"DELETE", "ABANDON", "UNCREATE"}
  BY DEF Updates, Deletes
<1>2. /\ \A q \in Users : q # r => ~Working(q)
      /\ ~deleted /\ saw[r].template = template /\ r # Creator
  BY <1>1, <1>u, Sole
<1>3. /\ UNCHANGED <<action, status, deleted, row, rule, kind, saw, target, todo, timer, got>>
      /\ template' = target[r]
      /\ ~target[r] => row["alarm"] = Absent
  BY <1>2 DEF Flip, timers
<1>4. /\ UpdateDone(r) /\ action \in {"UPDATE", "ROLLBACK"}
      /\ (status = "COMPLETE" => todo[r] = <<>>)
  BY <1>1 DEF Safe, Progress
<1>c. Creator \in Users
  BY DEF Users
<1>5. /\ Awake' = Awake /\ Adopted' = Adopted /\ Bare' = Bare
      /\ (Abandoned => Abandoned') /\ (Waiting' => Waiting) /\ (Certain' => Certain)
  BY <1>1, <1>2, <1>3, <1>c
  DEF Awake, PolicyThere, AlarmKnown, Adopted, Bare, Abandoned, Waiting, Certain, Users
<1>6. target[r] \in BOOLEAN /\ saw[r].template \in BOOLEAN
  BY DEF TypeOK
<1>w. ~Waiting
  BY <1>1 DEF Safe, Unborn
<1> USE DEF Safe, Working, Acting, Adds, Removes, Reverts
<1>k. Known'
  <2>1. Working(Creator)' => Working(Creator)
    BY <1>1, <1>c
  <2> QED BY <1>3, <1>5, <2>1 DEF Known
<1>7. Seeing' /\ Evaluated' /\ Gone' /\ Alive' /\ Unborn' /\ InOrder'
  BY <1>1, <1>2, <1>3, <1>5, <1>w DEF Seeing, Evaluated, Gone, Alive, Unborn, InOrder
<1>8. NoAlarm'
  BY <1>3, <1>4 DEF NoAlarm, UpdateDone, Awake, AlarmKnown
<1>10. Settled'
  <2>0. ~Bare
    BY <1>4 DEF UpdateDone, Awake, PolicyThere
  <2>1. SUFFICES ASSUME status = "COMPLETE", template', ~Adopted PROVE rule # Nothing
    BY <1>3, <1>4, <1>5, <2>0 DEF Settled, UpdateDone
  <2>2. todo[r] = <<>>
    BY <1>4, <2>1
  <2>3. target[r]
    BY <1>3, <2>1
  <2>4. ~Removes(r) /\ (Adds(r) \/ template)
    BY <1>1, <1>2, <1>4, <1>6, <1>u, <2>3 DEF UpdateDone
  <2> QED BY <1>4, <2>1, <2>2, <2>4 DEF UpdateDone
<1>11. Progress'
  BY <1>1, <1>2 DEF Progress
<1> QED BY <1>7, <1>8, <1>10, <1>11, <1>k

(* The stack is COMPLETE, its resources gone and its row not yet. *)
LEMMA EndDeleteSafe ==
  ASSUME TypeOK, Owned, Safe, NEW r \in Users, EndDelete(r)
  PROVE  Safe'
<1>1. /\ Done(r) /\ Working(r) /\ kind[r] \in Deletes
      /\ pc'[r] \in {"over", "erase"}
      /\ \A q \in Users : q # r => pc'[q] = pc[q]
  BY DEF EndDelete, Done, Working, TypeOK
<1>u. Updates = {"UPDATE", "REVERT"} /\ Deletes = {"DELETE", "ABANDON", "UNCREATE"}
  BY DEF Updates, Deletes
<1>2. ~deleted /\ (kind[r] = "UNCREATE" <=> r = Creator) /\ Creator \in Users
  BY <1>1, <1>u, Sole DEF Users
<1>3. /\ UNCHANGED <<deleted, template, row, rule, kind, saw, target, todo, timer, got>>
      /\ action' = StackAction(r)
      /\ status' \in {Outcome(r), "FAILED"} /\ (status' # "FAILED" <=> pc'[r] = "erase")
  BY <1>1, <1>2 DEF EndDelete, StateSet, timers, TypeOK
<1>4. status' # "FAILED" => Bare /\ row["alarm"] = Absent
  <2>1. SUFFICES ASSUME status' # "FAILED" PROVE Bare
    BY DEF Safe, InOrder
  <2>2. pc[r] = "next" /\ todo[r] = <<>>
    BY <1>1, <1>3, <2>1 DEF Done, Outcome
  <2>3. DeleteDone(r)
    BY <1>1, <2>2 DEF Safe, Progress
  <2> QED BY <2>2, <2>3 DEF DeleteDone
<1>5. Bare' = Bare /\ (Abandoned => Abandoned')
  BY <1>1, <1>3 DEF Bare, Abandoned, Users
<1>6. kind[r] # "UNCREATE" => action' = "DELETE"
  BY <1>1, <1>3, <1>u DEF StackAction
<1>7. Settled'
  <2>1. SUFFICES ASSUME status' = "COMPLETE", rule # Nothing PROVE Abandoned /\ action' = "DELETE"
    BY <1>3, <1>4, <1>5 DEF Settled
  <2>2. Abandoned /\ ~Working(Creator)
    BY <1>4, <2>1 DEF Safe, Known
  <2> QED BY <1>1, <1>2, <1>6, <2>2
<1>8. Waiting' /\ status' = "COMPLETE" => action' \in {"SUSPEND", "DELETE"}
  BY <1>1, <1>2, <1>3, <1>6 DEF Waiting
<1>9. ~Adds(r) /\ ~Reverts(r)
  BY <1>1, <1>u DEF Adds, Reverts
<1> QED BY <1>1, <1>3, <1>4, <1>7, <1>8, <1>9, EndSafe

LEMMA EraseSafe ==
  ASSUME TypeOK, Owned, Safe, ~strayed', NEW r \in Users, Erase(r)
  PROVE  Safe'
<1>1. /\ pc[r] = "erase" /\ Working(r) /\ pc'[r] = "over"
      /\ \A q \in Users : q # r => pc'[q] = pc[q]
  BY DEF Erase, Goto, Working, TypeOK
<1>2. (\A q \in Users : q # r => ~Working(q)) /\ ~deleted
  BY <1>1, Sole
<1>3. /\ UNCHANGED <<action, status, template, rule, kind, saw, target, todo, timer, got>>
      /\ deleted' = TRUE /\ row' = [x \in Resources |-> Absent] /\ ~InFlight
  BY <1>2 DEF Erase, timers
<1>4. row["alarm"] = Absent
  BY <1>1 DEF Safe, Progress, InOrder
<1>5. row'["alarm"] = Absent
  BY <1>3 DEF Resources
<1>c. Creator \in Users
  BY DEF Users
<1>6. /\ (Abandoned => Abandoned') /\ (Waiting' => Waiting) /\ (Certain' => Certain)
      /\ (Working(Creator)' => Working(Creator))
  BY <1>1, <1>3, <1>c DEF Abandoned, Waiting, Certain, Adopted, Users, Working
<1> USE DEF Safe, Working, Acting, Adds, Removes, Reverts
<1>7. Seeing' /\ NoAlarm' /\ Alive' /\ InOrder'
  BY <1>1, <1>2, <1>3, <1>5, <1>6 DEF Seeing, NoAlarm, Alive, InOrder
<1>8. Evaluated'
  BY <1>3 DEF Evaluated, InFlight
<1>9. Unborn'
  BY <1>1, <1>2, <1>3, <1>6 DEF Unborn
<1>10. Known' /\ Gone'
  BY <1>3, <1>4, <1>6 DEF Known, Gone
<1>11. Settled' /\ Progress'
  BY <1>1, <1>2, <1>3 DEF Settled, Progress
<1> QED BY <1>7, <1>8, <1>9, <1>10, <1>11

LEMMA StartWatchSafe ==
  ASSUME TypeOK, Owned, Safe, NEW r \in Users, StartWatch(r)
  PROVE  Safe'
<1>1. /\ pc[r] = "watch" /\ Working(r) /\ pc'[r] = "over"
      /\ \A q \in Users : q # r => pc'[q] = pc[q]
  BY DEF StartWatch, Goto, Working, TypeOK
<1>2. \A q \in Users : q # r => ~Working(q)
  BY <1>1, Sole
<1>3. /\ UNCHANGED <<action, status, deleted, template, row, rule, kind, saw, target, todo, got>>
      /\ \A e \in Engines : timer'[e] = timer[e] \/ timer'[e] = "sleep"
  BY DEF StartWatch, Watched, stack, TypeOK
<1>c. Creator \in Users
  BY DEF Users
<1>4. /\ Awake' = Awake /\ Adopted' = Adopted /\ Bare' = Bare
      /\ (Abandoned => Abandoned') /\ (Waiting' => Waiting) /\ (Certain' => Certain)
      /\ (Working(Creator)' => Working(Creator))
  BY <1>1, <1>3, <1>c
  DEF Awake, PolicyThere, AlarmKnown, Adopted, Bare, Abandoned, Waiting, Certain, Users, Working
<1> USE DEF Safe, Working, Acting, Adds, Removes, Reverts
<1>5. Seeing' /\ NoAlarm' /\ Evaluated' /\ Gone' /\ Alive' /\ InOrder' /\ Known'
  BY <1>1, <1>2, <1>3, <1>4 DEF Seeing, NoAlarm, Evaluated, Gone, Alive, InOrder, Known
<1>6. Unborn'
  BY <1>1, <1>2, <1>3, <1>4 DEF Unborn
<1>7. Settled' /\ Progress'
  BY <1>1, <1>2, <1>3, <1>4 DEF Settled, Progress
<1> QED BY <1>5, <1>6, <1>7

-----------------------------------------------------------------------------
LEMMA NextStraight == TypeOK /\ Owned /\ Straight /\ [Next]_vars => Straight'
<1> SUFFICES ASSUME TypeOK, Owned, Straight, [Next]_vars, ~strayed' PROVE Safe'
  BY DEF Straight
<1>1. strayed => strayed'
  BY DEF Next, Request, Timer, Ask, Acquire, Refuse, Stop, Begin, BeginFails, Start, Finish,
         FinishFails, EndCreate, RollBackCreate, EndSuspendResume, RollBackUpdate, EndUpdate,
         Flip, EndDelete, Erase, StartWatch, Wake, Evaluate, Store, PeriodPasses, Restart, vars
<1>2. Safe
  BY <1>1 DEF Straight
<1>3. ASSUME NEW r \in Users, Request(r) PROVE Safe'
  BY <1>2, <1>3, AskSafe, AcquireSafe, RefuseSafe, StopSafe, BeginSafe, BeginFailsSafe,
     StartSafe, FinishSafe, FinishFailsSafe, EndCreateSafe, RollBackCreateSafe,
     EndSuspendResumeSafe, RollBackUpdateSafe, EndUpdateSafe, FlipSafe, EndDeleteSafe,
     EraseSafe, StartWatchSafe DEF Request
<1>4. ASSUME NEW e \in Engines, Timer(e) \/ Restart(e) PROVE Safe'
  BY <1>2, <1>4, WakeSafe, EvaluateSafe, StoreSafe, RestartSafe DEF Timer
<1>5. ASSUME UNCHANGED <<action, status, deleted, template, row, rule, pc, kind, saw, target,
                         todo, timer, got>>
      PROVE  Safe'
  <2>1. Rest' /\ Certain' = Certain
    BY <1>2, <1>5, TimerSafe
  <2>2. Evaluated' /\ Alive'
    BY <1>2, <1>5, <2>1 DEF Safe, Evaluated, Alive
  <2> QED BY <2>1, <2>2 DEF Safe, Rest
<1>6. CASE PeriodPasses
  BY <1>5, <1>6 DEF PeriodPasses, stack, work, timers
<1>7. CASE UNCHANGED vars
  BY <1>5, <1>7 DEF vars, stack, work, timers
<1> QED BY <1>3, <1>4, <1>6, <1>7 DEF Next

(* The watch rule and the stack agree when the stack is at rest: the rule  *)
(* is SUSPENDED as long as the stack is, is there just when the template   *)
(* has the alarm, and goes with the resources of the stack - unless a      *)
(* request worked on an outdated copy, an evaluation crossed a write of    *)
(* the rule, an update that removes or adds the alarm was cut off or       *)
(* failed, or one was made of a stack without resources (handle_suspend,   *)
(* handle_resume, run_rule).                                               *)
THEOREM RuleAlwaysFollows == Spec => []RuleFollowsStack
<1>1. ASSUME Owned, Straight, ~strayed, status = "COMPLETE", \A r \in Users : pc[r] # "flip"
      PROVE  IF deleted \/ Bare
               THEN rule = Nothing \/ \E r \in Users : kind[r] = "ABANDON"
               ELSE /\ rule # Nothing => (rule = "SUSPENDED" <=> action = "SUSPEND")
                    /\ ~Adopted => (rule # Nothing <=> template)
  <2>1. Safe
    BY <1>1 DEF Straight
  <2>2. CASE deleted \/ Bare
    BY <1>1, <2>1, <2>2 DEF Safe, Gone, Settled, Abandoned, Users
  <2>3. CASE ~deleted /\ ~Bare
    <3>1. \A r \in Users : ~Acting(r)
      BY <1>1, <2>1 DEF Safe, Progress, Acting
    <3>2. ~template => rule = Nothing
      BY <2>1, <3>1 DEF Safe, NoAlarm
    <3>3. /\ action = "SUSPEND" /\ template => rule = "SUSPENDED"
          /\ action # "SUSPEND" =>
               rule # "SUSPENDED" /\ (template /\ ~Adopted => rule # Nothing)
      BY <1>1, <2>1, <2>3 DEF Safe, Settled, Awake
    <3>4. "SUSPENDED" # Nothing
      BY DEF Nothing
    <3> QED BY <2>3, <3>2, <3>3, <3>4
  <2> QED BY <2>2, <2>3
<1>2. Owned /\ Straight => RuleFollowsStack
  BY <1>1 DEF RuleFollowsStack
<1> QED
  BY InitTyped, NextTyped, InitOwned, NextOwned, InitStraight, NextStraight, <1>2, PTL DEF Spec

(* No evaluation raises, so that a timer goes on until its engine or its   *)
(* stack is stopped: with the same exceptions, and but for an adopted      *)
(* stack, whose policy is never found (rule_actions, watch_rule_update).   *)
THEOREM TimersAlwaysSurvive == Spec => []TimersSurvive
<1>1. Straight => TimersSurvive
  <2>1. ASSUME Straight, ~strayed, ~Adopted PROVE \A e \in Engines : timer[e] # "dead"
    <3>1. Alive
      BY <2>1 DEF Straight, Safe
    <3> QED BY <2>1, <3>1 DEF Alive, Certain
  <2> QED BY <2>1 DEF TimersSurvive
<1> QED
  BY InitTyped, NextTyped, InitOwned, NextOwned, InitStraight, NextStraight, <1>1, PTL DEF Spec

-----------------------------------------------------------------------------
(***************************************************************************)
(* The lock of this module is the mutex that StackLock implements.         *)
(***************************************************************************)
Holders == {r \in Users : Working(r)}

Mutex == INSTANCE StackMutex WITH Requests <- Users, busy <- Holders

RefinesMutex == Mutex!Spec

LEMMA HoldersStep ==
  ASSUME TypeOK, Owned, [Next]_vars
  PROVE  [Mutex!Next]_Holders
<1> SUFFICES \/ Holders' = Holders
             \/ \E r \in Users : Mutex!Admit(r) \/ Mutex!Leave(r)
  BY DEF Mutex!Next
<1> USE DEF Mutex!Admit, Mutex!Leave
<1>t. pc \in [Users -> Labels]
  BY DEF TypeOK
<1>1. ASSUME NEW r \in Users, Acquire(r) PROVE Mutex!Admit(r)
  <2>1. Holders = {}
    BY <1>1, NobodyAssumption DEF Acquire, Owned, OwnerDead, Working, Holders
  <2>2. Holders' = {r}
    BY <1>1, <1>t, <2>1 DEF Acquire, Working, Holders
  <2> QED BY <2>1, <2>2
<1>2. ASSUME Holders' \subseteq Holders
      PROVE  Holders' = Holders \/ \E r \in Users : Mutex!Leave(r)
  <2>1. ASSUME Holders' # Holders PROVE \E r \in Users : Mutex!Leave(r)
    <3>1. PICK r \in Holders : r \notin Holders'
      BY <1>2, <2>1
    <3>2. Holders \subseteq {r}
      BY <3>1 DEF Owned, Holders
    <3> QED BY <1>2, <3>1, <3>2 DEF Holders
  <2> QED BY <2>1
<1>3. ASSUME \A r \in Users : ~Acquire(r) PROVE Holders' \subseteq Holders
  <2>1. ASSUME NEW r \in Users, Request(r), ~Acquire(r) PROVE Holders' \subseteq Holders
    BY <1>t, <2>1
    DEF Holders, Working, Request, Ask, Refuse, Stop, Begin, BeginFails, Start, Finish,
        FinishFails, EndCreate, RollBackCreate, EndSuspendResume, RollBackUpdate, EndUpdate,
        Flip, EndDelete, Erase, StartWatch, Goto, Done
  <2>2. ASSUME NEW e \in Engines, Restart(e) PROVE Holders' \subseteq Holders
    BY <1>t, <2>2 DEF Restart, Holders, Working
  <2>3. ASSUME NEW e \in Engines, Timer(e) PROVE Holders' \subseteq Holders
    BY <2>3 DEF Timer, Wake, Evaluate, Store, Holders, Working, work
  <2>4. CASE PeriodPasses \/ UNCHANGED vars
    BY <2>4 DEF PeriodPasses, vars, work, Holders, Working
  <2> QED BY <1>3, <2>1, <2>2, <2>3, <2>4 DEF Next
<1> QED BY <1>1, <1>2, <1>3

(* The requests of a stack are served one after the other: a thread works  *)
(* on the stack only when no other one does, although each has loaded the  *)
(* stack before, a delete stops the one at work, and engines die and their *)
(* locks are stolen.                                                       *)
THEOREM MutexRefined == Spec => RefinesMutex
<1>1. Init => Mutex!Init
  BY InitOwned DEF Init, Mutex!Init, Holders, Working, Users
<1>2. TypeOK /\ Owned /\ [Next]_vars => [Mutex!Next]_Holders
  BY HoldersStep
<1> QED
  BY <1>1, <1>2, InitTyped, NextTyped, InitOwned, NextOwned, PTL
  DEF Spec, RefinesMutex, Mutex!Spec
=============================================================================
