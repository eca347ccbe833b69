--------------------------- MODULE TaskGroupProofs ---------------------------
(***************************************************************************)
(* What DependencyTaskGroup guarantees for any tasks and any dependencies. *)
(***************************************************************************)
EXTENDS TaskGroup, TLAPS

Interrupted == phase \in {"failed", "aborted"}

Bad == {"failed", "cancelled", "dropped", "revived"}

(* A task not yet started has its node, which still requires whatever has  *)
(* not returned.                                                           *)
Waiting ==
  \A t \in Tasks :
    runner[t] = "new" =>
      t \in nodes /\ \A u \in Requires(t) : runner[u] = "returned" \/ u \in require[t]

(* A node left of a task that failed or was cancelled is an empty one: its *)
(* deletion frees nobody.                                                  *)
Phantom ==
  ~Interrupted =>
    \A t \in nodes : runner[t] \in Bad => satisfy[t] = {}

(* Cancelling leaves nothing unfinished and does not touch what returned. *)
LEMMA CancelFacts ==
  \A s \in RunnerState :
    /\ Cancel(s) \in RunnerState \ {"new", "active"}
    /\ Cancel(s) = "returned" <=> s = "returned"
BY DEF Cancel, RunnerState

LEMMA DependentsFacts ==
  \A t \in Tasks : Dependents(t) \subseteq Tasks /\ t \in Dependents(t)
BY DEF Dependents

(* What an exception of a task does to the tasks and to the graph.         *)
LEMMA RaiseFacts ==
  ASSUME TypeOK, NEW t \in Tasks, Raise(t), runner[t] # "returned"
  PROVE  /\ nodes' \subseteq Tasks
         /\ require' \in [Tasks -> SUBSET Tasks]
         /\ satisfy' \in [Tasks -> SUBSET Tasks]
         /\ runner' \in [Tasks -> RunnerState]
         /\ raised' \subseteq Tasks
         /\ phase' \in {"loop", "failed"}
         /\ phase' = "loop" => raised' # {} /\ aggregate
         /\ phase' = "failed" =>
              \A u \in Tasks : runner'[u] \notin {"new", "active"}
         /\ runner'[t] \in {"failed", "dropped"}
         /\ \A u \in Tasks : runner'[u] = "returned" <=> runner[u] = "returned"
         /\ \A u \in Tasks : runner'[u] = "active" => runner[u] = "active"
         /\ \A u \in Tasks : satisfy'[u] \subseteq satisfy[u]
         /\ \A u \in Tasks :
              runner'[u] = "new" =>
                /\ runner[u] = "new" /\ require'[u] = require[u]
                /\ u \in nodes => u \in nodes'
         /\ phase' = "loop" =>
              \A u \in nodes' :
                \/ satisfy'[u] = {}
                \/ u \in nodes /\ runner'[u] = runner[u] /\ satisfy'[u] = satisfy[u]
<1> USE CancelFacts DEF TypeOK
<1> DEFINE gone == Dependents(t)
<1>1. gone \subseteq Tasks /\ t \in gone
  BY DependentsFacts
<1>2. Raised(t) \in {"failed", "dropped"} /\ Raised(t) \in RunnerState
  BY DEF Raised, RunnerState
<1> HIDE DEF gone
<1>3. CASE aggregate
  <2>1. /\ runner' = [u \in Tasks |-> IF u = t THEN Raised(t)
                                      ELSE IF u \in gone THEN Cancel(runner[u])
                                      ELSE runner[u]]
        /\ nodes' = (nodes \cup gone) \ {t}
        /\ require' = [u \in Tasks |->
                         IF u \in gone \ {t} THEN {} ELSE require[u]]
        /\ satisfy' = [u \in Tasks |->
                         IF u \in gone \ {t} THEN {} ELSE satisfy[u]]
        /\ raised' = raised \cup {t}
        /\ phase' = "loop"
    BY <1>3 DEF Raise, CancelRecursively, gone
  <2>2. /\ nodes' \subseteq Tasks
        /\ require' \in [Tasks -> SUBSET Tasks]
        /\ satisfy' \in [Tasks -> SUBSET Tasks]
        /\ raised' \subseteq Tasks
    BY <1>1, <2>1
  <2>3. runner' \in [Tasks -> RunnerState]
    BY <1>2, <2>1
  <2>4. runner'[t] \in {"failed", "dropped"}
    BY <1>2, <2>1
  <2>5. \A u \in Tasks : runner'[u] = "returned" <=> runner[u] = "returned"
    BY <1>2, <2>1
  <2>6. ASSUME NEW u \in Tasks, runner'[u] = "new"
        PROVE  /\ runner[u] = "new" /\ require'[u] = require[u]
               /\ u \in nodes => u \in nodes'
    <3>1. u # t /\ u \notin gone
      BY <1>2, <2>1, <2>6
    <3> QED
      BY <2>1, <2>6, <3>1
  <2>7. \A u \in nodes' :
          \/ satisfy'[u] = {}
          \/ u \in nodes /\ runner'[u] = runner[u] /\ satisfy'[u] = satisfy[u]
    BY <1>1, <2>1
  <2>8. /\ \A u \in Tasks : runner'[u] = "active" => runner[u] = "active"
        /\ \A u \in Tasks : satisfy'[u] \subseteq satisfy[u]
    BY <1>2, <2>1
  <2>9. phase' = "loop" /\ raised' # {}
    BY <2>1
  <2> QED
    BY <1>3, <2>2, <2>3, <2>4, <2>5, <2>6, <2>7, <2>8, <2>9
<1>4. CASE ~aggregate
  <2>1. /\ runner' = [[u \in Tasks |-> Cancel(runner[u])] EXCEPT ![t] = Raised(t)]
        /\ phase' = "failed"
        /\ UNCHANGED <<nodes, require, satisfy, raised>>
    BY <1>4 DEF Raise, CancelAll
  <2> QED
    BY <1>2, <2>1
<1> QED
  BY <1>3, <1>4

(* The dependents of a task are closed under satisfy, ...                  *)
LEMMA DependentsClosed ==
  ASSUME TypeOK, NEW t \in Tasks, NEW u \in Dependents(t)
  PROVE  satisfy[u] \subseteq Dependents(t)
BY DEF Dependents, TypeOK

(* ... and each but the task itself is there for another's sake.           *)
LEMMA DependentsMinimal ==
  ASSUME TypeOK, NEW t \in Tasks, NEW u \in Dependents(t), u # t
  PROVE  \E v \in Dependents(t) : u \in satisfy[v]
<1> SUFFICES ASSUME \A v \in Dependents(t) : u \notin satisfy[v] PROVE FALSE
  OBVIOUS
<1> DEFINE S == Dependents(t) \ {u}
<1>1. S \in SUBSET Tasks /\ t \in S
  BY DependentsFacts
<1>2. \A v \in S : satisfy[v] \subseteq S
  BY DependentsClosed
<1>3. u \in S
  BY <1>1, <1>2 DEF Dependents
<1> QED
  BY <1>3

LEMMA TypeOKStep ==
  TypeOK /\ [Next]_vars => TypeOK'
<1> SUFFICES ASSUME TypeOK, [Next]_vars PROVE TypeOK'
  OBVIOUS
<1> USE DEF TypeOK, RunnerState, Phases
<1>1. CASE UNCHANGED vars
  BY <1>1 DEF vars
<1>2. ASSUME NEW t \in Tasks, Sort(t) PROVE TypeOK'
  BY <1>2 DEF Sort
<1>3. ASSUME NEW t \in Tasks, StartNew(t) PROVE TypeOK'
  BY <1>3, RaiseFacts DEF StartNew
<1>4. ASSUME NEW t \in Tasks, StartDropped(t) PROVE TypeOK'
  BY <1>4, RaiseFacts DEF StartDropped
<1>5. ASSUME NEW t \in Tasks, Skip(t) PROVE TypeOK'
  BY <1>5 DEF Skip
<1>6. ASSUME NEW t \in Tasks, StepYields(t) PROVE TypeOK'
  BY <1>6 DEF StepYields
<1>7. ASSUME NEW t \in Tasks, StepReturns(t) PROVE TypeOK'
  BY <1>7 DEF StepReturns, Remove, Running, Started
<1>8. ASSUME NEW t \in Tasks, StepRaises(t) PROVE TypeOK'
  BY <1>8, RaiseFacts DEF StepRaises
<1>9. CASE Sorted
  BY <1>9 DEF Sorted
<1>10. CASE Loop
  BY <1>10 DEF Loop
<1>11. CASE Yield
  BY <1>11 DEF Yield
<1>12. CASE Resume
  BY <1>12 DEF Resume
<1>13. CASE Abort
  BY <1>13 DEF Abort, CancelAll, Cancel
<1>14. CASE StepEnds
  BY <1>14 DEF StepEnds
<1> QED
  BY <1>1, <1>2, <1>3, <1>4, <1>5, <1>6, <1>7, <1>8, <1>9, <1>10, <1>11,
     <1>12, <1>13, <1>14 DEF Next, Start, Step

LEMMA WaitingStep ==
  TypeOK /\ Phantom /\ Waiting /\ [Next]_vars => Waiting'
<1> SUFFICES ASSUME TypeOK, Phantom, Waiting, [Next]_vars PROVE Waiting'
  OBVIOUS
<1> USE DEF TypeOK, RunnerState, Waiting, Phantom, Interrupted, Bad, Requires, RequiredBy
<1>1. CASE UNCHANGED vars
  BY <1>1 DEF vars
<1>2. ASSUME NEW t \in Tasks, Sort(t) PROVE Waiting'
  BY <1>2 DEF Sort
<1>3. ASSUME NEW t \in Tasks, StartNew(t) PROVE Waiting'
  BY <1>3, RaiseFacts DEF StartNew
<1>4. ASSUME NEW t \in Tasks, StartDropped(t) PROVE Waiting'
  BY <1>4, RaiseFacts DEF StartDropped
<1>5. ASSUME NEW t \in Tasks, Skip(t) PROVE Waiting'
  BY <1>5 DEF Skip
<1>6. ASSUME NEW t \in Tasks, StepYields(t) PROVE Waiting'
  BY <1>6 DEF StepYields
<1>7. ASSUME NEW t \in Tasks, StepReturns(t) PROVE Waiting'
  BY <1>7 DEF StepReturns, Remove, Running, Started
<1>8. ASSUME NEW t \in Tasks, StepRaises(t) PROVE Waiting'
  BY <1>8, RaiseFacts DEF StepRaises
<1>9. CASE Sorted
  BY <1>9 DEF Sorted
<1>10. CASE Loop
  BY <1>10 DEF Loop
<1>11. CASE Yield
  BY <1>11 DEF Yield
<1>12. CASE Resume
  BY <1>12 DEF Resume
<1>13. CASE Abort
  BY <1>13 DEF Abort, CancelAll, Cancel
<1>14. CASE StepEnds
  BY <1>14 DEF StepEnds
<1> QED
  BY <1>1, <1>2, <1>3, <1>4, <1>5, <1>6, <1>7, <1>8, <1>9, <1>10, <1>11,
     <1>12, <1>13, <1>14 DEF Next, Start, Step

LEMMA PhantomStep ==
  TypeOK /\ Phantom /\ [Next]_vars => Phantom'
<1> SUFFICES ASSUME TypeOK, Phantom, [Next]_vars PROVE Phantom'
  OBVIOUS
<1> USE DEF TypeOK, RunnerState, Waiting, Phantom, Interrupted, Bad, Requires, RequiredBy
<1>1. CASE UNCHANGED vars
  BY <1>1 DEF vars
<1>2. ASSUME NEW t \in Tasks, Sort(t) PROVE Phantom'
  BY <1>2 DEF Sort
<1>3. ASSUME NEW t \in Tasks, StartNew(t) PROVE Phantom'
  BY <1>3, RaiseFacts DEF StartNew
<1>4. ASSUME NEW t \in Tasks, StartDropped(t) PROVE Phantom'
  BY <1>4, RaiseFacts DEF StartDropped
<1>5. ASSUME NEW t \in Tasks, Skip(t) PROVE Phantom'
  BY <1>5 DEF Skip
<1>6. ASSUME NEW t \in Tasks, StepYields(t) PROVE Phantom'
  BY <1>6 DEF StepYields
<1>7. ASSUME NEW t \in Tasks, StepReturns(t) PROVE Phantom'
  BY <1>7 DEF StepReturns, Remove, Running, Started
<1>8. ASSUME NEW t \in Tasks, StepRaises(t) PROVE Phantom'
  BY <1>8, RaiseFacts DEF StepRaises
<1>9. CASE Sorted
  BY <1>9 DEF Sorted
<1>10. CASE Loop
  BY <1>10 DEF Loop
<1>11. CASE Yield
  BY <1>11 DEF Yield
<1>12. CASE Resume
  BY <1>12 DEF Resume
<1>13. CASE Abort
  BY <1>13 DEF Abort, CancelAll, Cancel
<1>14. CASE StepEnds
  BY <1>14 DEF StepEnds
<1> QED
  BY <1>1, <1>2, <1>3, <1>4, <1>5, <1>6, <1>7, <1>8, <1>9, <1>10, <1>11,
     <1>12, <1>13, <1>14 DEF Next, Start, Step

LEMMA AfterRequirementsStep ==
  TypeOK /\ Waiting /\ AfterRequirements /\ [Next]_vars => AfterRequirements'
<1> SUFFICES ASSUME TypeOK, Waiting, AfterRequirements, [Next]_vars PROVE AfterRequirements'
  OBVIOUS
<1> USE DEF TypeOK, RunnerState, Waiting, Phantom, Interrupted, Bad, Requires, RequiredBy, AfterRequirements, Ready
<1>1. CASE UNCHANGED vars
  BY <1>1 DEF vars
<1>2. ASSUME NEW t \in Tasks, Sort(t) PROVE AfterRequirements'
  BY <1>2 DEF Sort
<1>3. ASSUME NEW t \in Tasks, StartNew(t) PROVE AfterRequirements'
  BY <1>3, RaiseFacts DEF StartNew
<1>4. ASSUME NEW t \in Tasks, StartDropped(t) PROVE AfterRequirements'
  BY <1>4, RaiseFacts DEF StartDropped
<1>5. ASSUME NEW t \in Tasks, Skip(t) PROVE AfterRequirements'
  BY <1>5 DEF Skip
<1>6. ASSUME NEW t \in Tasks, StepYields(t) PROVE AfterRequirements'
  BY <1>6 DEF StepYields
<1>7. ASSUME NEW t \in Tasks, StepReturns(t) PROVE AfterRequirements'
  BY <1>7 DEF StepReturns, Remove, Running, Started
<1>8. ASSUME NEW t \in Tasks, StepRaises(t) PROVE AfterRequirements'
  BY <1>8, RaiseFacts DEF StepRaises
<1>9. CASE Sorted
  BY <1>9 DEF Sorted
<1>10. CASE Loop
  BY <1>10 DEF Loop
<1>11. CASE Yield
  BY <1>11 DEF Yield
<1>12. CASE Resume
  BY <1>12 DEF Resume
<1>13. CASE Abort
  BY <1>13 DEF Abort, CancelAll, Cancel
<1>14. CASE StepEnds
  BY <1>14 DEF StepEnds
<1> QED
  BY <1>1, <1>2, <1>3, <1>4, <1>5, <1>6, <1>7, <1>8, <1>9, <1>10, <1>11,
     <1>12, <1>13, <1>14 DEF Next, Start, Step

-----------------------------------------------------------------------------
(* Without a failure nothing is cancelled.                                 *)
Clean ==
  raised = {} /\ ~Interrupted =>
    \A t \in Tasks : runner[t] \in {"new", "active", "returned"}

(* A node satisfies only tasks that require it.                            *)
SatisfyRequired == \A t \in Tasks : satisfy[t] \subseteq RequiredBy(t)

(* Whatever has run has what it requires, resumable or not: only a revived *)
(* function has run without.                                               *)
Advanced ==
  \A t \in Tasks :
    runner[t] \in {"active", "returned"} =>
      \A u \in Requires(t) : runner[u] = "returned"

(* A task that came to nothing raised, or requires one that came to        *)
(* nothing.                                                                *)
Blamed ==
  aggregate /\ phase # "aborted" =>
    \A t \in Tasks :
      runner[t] \in Bad => t \in raised \/ \E u \in Requires(t) : runner[u] \in Bad

(* Every step keeps a run without failures free of cancellations.         *)
LEMMA CleanStep ==
  TypeOK /\ Clean /\ [Next]_vars => Clean'
<1> SUFFICES ASSUME TypeOK, Clean, [Next]_vars PROVE Clean'
  OBVIOUS
<1> USE DEF TypeOK, RunnerState, Interrupted, Bad, Requires, RequiredBy, Clean
<1>1. CASE UNCHANGED vars
  BY <1>1 DEF vars
<1>2. ASSUME NEW t \in Tasks, Sort(t) PROVE Clean'
  BY <1>2 DEF Sort
<1>3. ASSUME NEW t \in Tasks, StartNew(t) PROVE Clean'
  BY <1>3, RaiseFacts DEF StartNew
<1>4. ASSUME NEW t \in Tasks, StartDropped(t) PROVE Clean'
  BY <1>4, RaiseFacts DEF StartDropped
<1>5. ASSUME NEW t \in Tasks, Skip(t) PROVE Clean'
  BY <1>5 DEF Skip
<1>6. ASSUME NEW t \in Tasks, StepYields(t) PROVE Clean'
  BY <1>6 DEF StepYields
<1>7. ASSUME NEW t \in Tasks, StepReturns(t) PROVE Clean'
  BY <1>7 DEF StepReturns, Remove, Running, Started
<1>8. ASSUME NEW t \in Tasks, StepRaises(t) PROVE Clean'
  BY <1>8, RaiseFacts DEF StepRaises
<1>9. CASE Sorted
  BY <1>9 DEF Sorted
<1>10. CASE Loop
  BY <1>10 DEF Loop
<1>11. CASE Yield
  BY <1>11 DEF Yield
<1>12. CASE Resume
  BY <1>12 DEF Resume
<1>13. CASE Abort
  BY <1>13 DEF Abort, CancelAll, Cancel
<1>14. CASE StepEnds
  BY <1>14 DEF StepEnds
<1> QED
  BY <1>1, <1>2, <1>3, <1>4, <1>5, <1>6, <1>7, <1>8, <1>9, <1>10, <1>11,
     <1>12, <1>13, <1>14 DEF Next, Start, Step

(* Every step that ends the group ends all its tasks.                      *)
LEMMA NothingLeftBehindStep ==
  TypeOK /\ Clean /\ NothingLeftBehind /\ [Next]_vars => NothingLeftBehind'
<1> SUFFICES ASSUME TypeOK, Clean, NothingLeftBehind, [Next]_vars PROVE NothingLeftBehind'
  OBVIOUS
<1> USE DEF TypeOK, RunnerState, Interrupted, Bad, Requires, RequiredBy, Clean, NothingLeftBehind, Done
<1>1. CASE UNCHANGED vars
  BY <1>1 DEF vars
<1>2. ASSUME NEW t \in Tasks, Sort(t) PROVE NothingLeftBehind'
  BY <1>2 DEF Sort
<1>3. ASSUME NEW t \in Tasks, StartNew(t) PROVE NothingLeftBehind'
  BY <1>3, RaiseFacts DEF StartNew
<1>4. ASSUME NEW t \in Tasks, StartDropped(t) PROVE NothingLeftBehind'
  BY <1>4, RaiseFacts DEF StartDropped
<1>5. ASSUME NEW t \in Tasks, Skip(t) PROVE NothingLeftBehind'
  BY <1>5 DEF Skip
<1>6. ASSUME NEW t \in Tasks, StepYields(t) PROVE NothingLeftBehind'
  BY <1>6 DEF StepYields
<1>7. ASSUME NEW t \in Tasks, StepReturns(t) PROVE NothingLeftBehind'
  BY <1>7 DEF StepReturns, Remove, Running, Started
<1>8. ASSUME NEW t \in Tasks, StepRaises(t) PROVE NothingLeftBehind'
  BY <1>8, RaiseFacts DEF StepRaises
<1>9. CASE Sorted
  BY <1>9 DEF Sorted
<1>10. CASE Loop
  BY <1>10 DEF Loop
<1>11. CASE Yield
  BY <1>11 DEF Yield
<1>12. CASE Resume
  BY <1>12 DEF Resume
<1>13. CASE Abort
  BY <1>13 DEF Abort, CancelAll, Cancel
<1>14. CASE StepEnds
  BY <1>14 DEF StepEnds
<1> QED
  BY <1>1, <1>2, <1>3, <1>4, <1>5, <1>6, <1>7, <1>8, <1>9, <1>10, <1>11,
     <1>12, <1>13, <1>14 DEF Next, Start, Step

(* Every step takes from the satisfy sets only.                            *)
LEMMA SatisfyRequiredStep ==
  TypeOK /\ SatisfyRequired /\ [Next]_vars => SatisfyRequired'
<1> SUFFICES ASSUME TypeOK, SatisfyRequired, [Next]_vars PROVE SatisfyRequired'
  OBVIOUS
<1> USE DEF TypeOK, RunnerState, Interrupted, Bad, Requires, RequiredBy, SatisfyRequired
<1>1. CASE UNCHANGED vars
  BY <1>1 DEF vars
<1>2. ASSUME NEW t \in Tasks, Sort(t) PROVE SatisfyRequired'
  BY <1>2 DEF Sort
<1>3. ASSUME NEW t \in Tasks, StartNew(t) PROVE SatisfyRequired'
  BY <1>3, RaiseFacts DEF StartNew
<1>4. ASSUME NEW t \in Tasks, StartDropped(t) PROVE SatisfyRequired'
  BY <1>4, RaiseFacts DEF StartDropped
<1>5. ASSUME NEW t \in Tasks, Skip(t) PROVE SatisfyRequired'
  BY <1>5 DEF Skip
<1>6. ASSUME NEW t \in Tasks, StepYields(t) PROVE SatisfyRequired'
  BY <1>6 DEF StepYields
<1>7. ASSUME NEW t \in Tasks, StepReturns(t) PROVE SatisfyRequired'
  BY <1>7 DEF StepReturns, Remove, Running, Started
<1>8. ASSUME NEW t \in Tasks, StepRaises(t) PROVE SatisfyRequired'
  BY <1>8, RaiseFacts DEF StepRaises
<1>9. CASE Sorted
  BY <1>9 DEF Sorted
<1>10. CASE Loop
  BY <1>10 DEF Loop
<1>11. CASE Yield
  BY <1>11 DEF Yield
<1>12. CASE Resume
  BY <1>12 DEF Resume
<1>13. CASE Abort
  BY <1>13 DEF Abort, CancelAll, Cancel
<1>14. CASE StepEnds
  BY <1>14 DEF StepEnds
<1> QED
  BY <1>1, <1>2, <1>3, <1>4, <1>5, <1>6, <1>7, <1>8, <1>9, <1>10, <1>11,
     <1>12, <1>13, <1>14 DEF Next, Start, Step

(* Every step that starts a new task finds its requirements returned.      *)
LEMMA AdvancedStep ==
  TypeOK /\ Waiting /\ Advanced /\ [Next]_vars => Advanced'
<1> SUFFICES ASSUME TypeOK, Waiting, Advanced, [Next]_vars PROVE Advanced'
  OBVIOUS
<1> USE DEF TypeOK, RunnerState, Interrupted, Bad, Requires, RequiredBy, Waiting, Advanced, Ready
<1>1. CASE UNCHANGED vars
  BY <1>1 DEF vars
<1>2. ASSUME NEW t \in Tasks, Sort(t) PROVE Advanced'
  BY <1>2 DEF Sort
<1>3. ASSUME NEW t \in Tasks, StartNew(t) PROVE Advanced'
  BY <1>3, RaiseFacts DEF StartNew
<1>4. ASSUME NEW t \in Tasks, StartDropped(t) PROVE Advanced'
  BY <1>4, RaiseFacts DEF StartDropped
<1>5. ASSUME NEW t \in Tasks, Skip(t) PROVE Advanced'
  BY <1>5 DEF Skip
<1>6. ASSUME NEW t \in Tasks, StepYields(t) PROVE Advanced'
  BY <1>6 DEF StepYields
<1>7. ASSUME NEW t \in Tasks, StepReturns(t) PROVE Advanced'
  BY <1>7 DEF StepReturns, Remove, Running, Started
<1>8. ASSUME NEW t \in Tasks, StepRaises(t) PROVE Advanced'
  BY <1>8, RaiseFacts DEF StepRaises
<1>9. CASE Sorted
  BY <1>9 DEF Sorted
<1>10. CASE Loop
  BY <1>10 DEF Loop
<1>11. CASE Yield
  BY <1>11 DEF Yield
<1>12. CASE Resume
  BY <1>12 DEF Resume
<1>13. CASE Abort
  BY <1>13 DEF Abort, CancelAll, Cancel
<1>14. CASE StepEnds
  BY <1>14 DEF StepEnds
<1> QED
  BY <1>1, <1>2, <1>3, <1>4, <1>5, <1>6, <1>7, <1>8, <1>9, <1>10, <1>11,
     <1>12, <1>13, <1>14 DEF Next, Start, Step

(* No dependent of a task that has not returned has returned, ...          *)
LEMMA DependentsUnreturned ==
  ASSUME TypeOK, SatisfyRequired, Advanced, NEW t \in Tasks,
         runner[t] # "returned"
  PROVE  \A u \in Dependents(t) : runner[u] # "returned"
<1> DEFINE S == {v \in Tasks : runner[v] # "returned"}
<1>1. S \in SUBSET Tasks /\ t \in S
  OBVIOUS
<1>2. ASSUME NEW v \in S, NEW x \in satisfy[v] PROVE x \in S
  BY <1>2 DEF SatisfyRequired, Advanced, Requires, RequiredBy, TypeOK
<1>3. Dependents(t) \subseteq S
  BY <1>1, <1>2 DEF Dependents
<1> QED
  BY <1>3

(* ... so an exception that is kept for later puts the blame for all it    *)
(* cancels on the task that raised.                                        *)
LEMMA RaiseBlames ==
  ASSUME TypeOK, SatisfyRequired, Advanced, Blamed, NEW t \in Tasks, Raise(t),
         runner[t] # "returned", aggregate, phase # "aborted", edges' = edges
  PROVE  \A u \in Tasks :
           runner'[u] \in Bad =>
             u \in raised' \/ \E v \in Requires(u)' : runner'[v] \in Bad
<1> USE CancelFacts DEF TypeOK, Bad, RunnerState, Requires
<1> DEFINE gone == Dependents(t)
<1>1. gone \subseteq Tasks /\ \A u \in gone : runner[u] # "returned"
  BY DependentsFacts, DependentsUnreturned
<1>2. \A u \in gone : u # t => \E v \in gone : u \in satisfy[v]
  BY DependentsMinimal
<1> HIDE DEF gone
<1>3. Raised(t) \in Bad
  BY DEF Raised
<1>4. /\ runner' = [u \in Tasks |-> IF u = t THEN Raised(t)
                                    ELSE IF u \in gone THEN Cancel(runner[u])
                                    ELSE runner[u]]
      /\ raised' = raised \cup {t}
  BY DEF Raise, CancelRecursively, gone
<1>5. \A u \in gone : runner'[u] \in Bad
  BY <1>1, <1>3, <1>4
<1> SUFFICES ASSUME NEW u \in Tasks, runner'[u] \in Bad, u \notin raised'
             PROVE  \E v \in Requires(u)' : runner'[v] \in Bad
  OBVIOUS
<1>6. CASE u \in gone
  <2>1. PICK v \in gone : u \in satisfy[v]
    BY <1>2, <1>4, <1>6
  <2>2. v \in Requires(u)'
    BY <1>1, <2>1 DEF SatisfyRequired, RequiredBy
  <2> QED
    BY <1>5, <2>1, <2>2
<1>7. CASE u \notin gone
  <2>1. runner[u] \in Bad /\ u \notin raised
    BY <1>4, <1>7
  <2>2. PICK v \in Requires(u) : runner[v] \in Bad
    BY <2>1 DEF Blamed
  <2>3. runner'[v] \in Bad
    BY <1>3, <1>4, <2>2
  <2> QED
    BY <2>2, <2>3
<1> QED
  BY <1>6, <1>7

(* Every step keeps the blame where it belongs.                            *)
LEMMA BlamedStep ==
  TypeOK /\ SatisfyRequired /\ Advanced /\ Blamed /\ [Next]_vars => Blamed'
<1> SUFFICES ASSUME TypeOK, SatisfyRequired, Advanced, Blamed, [Next]_vars PROVE Blamed'
  OBVIOUS
<1> USE DEF TypeOK, RunnerState, Interrupted, Bad, Requires, RequiredBy, Blamed
<1>1. CASE UNCHANGED vars
  BY <1>1 DEF vars
<1>2. ASSUME NEW t \in Tasks, Sort(t) PROVE Blamed'
  BY <1>2 DEF Sort
<1>3. ASSUME NEW t \in Tasks, StartNew(t) PROVE Blamed'
  <2>1. CASE Raise(t) /\ aggregate
    BY <1>3, <2>1, RaiseBlames DEF StartNew
  <2>2. CASE ~Raise(t) \/ ~aggregate
    BY <1>3, <2>2 DEF StartNew
  <2> QED
    BY <2>1, <2>2
<1>4. ASSUME NEW t \in Tasks, StartDropped(t) PROVE Blamed'
  <2>1. CASE Raise(t) /\ aggregate
    BY <1>4, <2>1, RaiseBlames DEF StartDropped
  <2>2. CASE ~Raise(t) \/ ~aggregate
    BY <1>4, <2>2 DEF StartDropped
  <2> QED
    BY <2>1, <2>2
<1>5. ASSUME NEW t \in Tasks, Skip(t) PROVE Blamed'
  BY <1>5 DEF Skip
<1>6. ASSUME NEW t \in Tasks, StepYields(t) PROVE Blamed'
  BY <1>6 DEF StepYields
<1>7. ASSUME NEW t \in Tasks, StepReturns(t) PROVE Blamed'
  BY <1>7 DEF StepReturns, Remove, Running, Started
<1>8. ASSUME NEW t \in Tasks, StepRaises(t) PROVE Blamed'
  <2>1. CASE aggregate
    BY <1>8, <2>1, RaiseBlames DEF StepRaises, Running, Started
  <2>2. CASE ~aggregate
    BY <1>8, <2>2 DEF StepRaises
  <2> QED
    BY <2>1, <2>2
<1>9. CASE Sorted
  BY <1>9 DEF Sorted
<1>10. CASE Loop
  BY <1>10 DEF Loop
<1>11. CASE Yield
  BY <1>11 DEF Yield
<1>12. CASE Resume
  BY <1>12 DEF Resume
<1>13. CASE Abort
  BY <1>13 DEF Abort, CancelAll, Cancel
<1>14. CASE StepEnds
  BY <1>14 DEF StepEnds
<1> QED
  BY <1>1, <1>2, <1>3, <1>4, <1>5, <1>6, <1>7, <1>8, <1>9, <1>10, <1>11,
     <1>12, <1>13, <1>14 DEF Next, Start, Step

-----------------------------------------------------------------------------
(* The tasks toposort has yielded are no part of a cycle: a set that has   *)
(* one of them has a member that requires none of the set.                 *)
SortedAcyclic ==
  \A S \in SUBSET Tasks :
    ~(S \subseteq unsorted) => \E t \in S : Requires(t) \cap S = {}

(* A leaf requires only what was yielded before it.                        *)
LEMMA SortKeepsAcyclic ==
  ASSUME TypeOK, SortedAcyclic, NEW t \in Tasks, Sort(t)
  PROVE  SortedAcyclic'
<1> SUFFICES ASSUME NEW S \in SUBSET Tasks, ~(S \subseteq unsorted')
             PROVE  \E u \in S : Requires(u)' \cap S = {}
  BY DEF SortedAcyclic
<1>1. Requires(t) \cap unsorted = {} /\ unsorted' = unsorted \ {t}
  BY DEF Sort, Leaves
<1>2. \A u \in Tasks : Requires(u)' = Requires(u)
  BY DEF Sort, Requires
<1>3. CASE S \subseteq unsorted
  <2>1. t \in S /\ Requires(t) \cap S = {}
    BY <1>1, <1>3
  <2> QED
    BY <1>2, <2>1
<1>4. CASE ~(S \subseteq unsorted)
  BY <1>2, <1>4 DEF SortedAcyclic
<1> QED
  BY <1>3, <1>4

LEMMA CircularStep ==
  TypeOK /\ SortedAcyclic /\ CircularIffCyclic /\ [Next]_vars
    => SortedAcyclic' /\ CircularIffCyclic'
<1> SUFFICES ASSUME TypeOK, SortedAcyclic, CircularIffCyclic, [Next]_vars
             PROVE  SortedAcyclic' /\ CircularIffCyclic'
  OBVIOUS
<1>1. ASSUME NEW t \in Tasks, Sort(t)
      PROVE  SortedAcyclic' /\ CircularIffCyclic'
  <2>1. CircularIffCyclic'
    BY <1>1 DEF CircularIffCyclic, Sort
  <2> QED
    BY <1>1, <2>1, SortKeepsAcyclic
<1>2. CASE Sorted
  <2>1. SortedAcyclic'
    BY <1>2 DEF Sorted, SortedAcyclic, Requires
  <2>2. Acyclic' <=> Acyclic
    BY <1>2 DEF Sorted, Acyclic, Requires
  <2>3. CASE unsorted = {}
    <3>1. Acyclic
      BY <2>3 DEF SortedAcyclic, Acyclic
    <3> QED
      BY <1>2, <2>1, <2>2, <2>3, <3>1 DEF Sorted, CircularIffCyclic
  <2>4. CASE unsorted # {}
    <3>1. ~Acyclic
      BY <1>2, <2>4 DEF Sorted, Leaves, Acyclic, TypeOK
    <3> QED
      BY <1>2, <2>1, <2>2, <2>4, <3>1 DEF Sorted, CircularIffCyclic
  <2> QED
    BY <2>3, <2>4
<1>3. ASSUME phase \notin {"sort", "circular"}, phase' \notin {"sort", "circular"},
             UNCHANGED <<edges, unsorted>>
      PROVE  SortedAcyclic' /\ CircularIffCyclic'
  BY <1>3 DEF SortedAcyclic, CircularIffCyclic, Acyclic, Requires
<1>4. CASE UNCHANGED vars
  BY <1>4 DEF vars, SortedAcyclic, CircularIffCyclic, Acyclic, Requires
<1>5. ASSUME NEW t \in Tasks, Start(t) \/ Step(t)
      PROVE  /\ phase \notin {"sort", "circular"}
             /\ phase' \notin {"sort", "circular"}
             /\ UNCHANGED <<edges, unsorted>>
  BY <1>5
  DEF Start, Step, StartNew, StartDropped, Skip, StepYields, StepReturns,
      StepRaises, Raise
<1>6. CASE Loop \/ Yield \/ Resume \/ Abort \/ StepEnds
  BY <1>3, <1>6 DEF Loop, Yield, Resume, Abort, StepEnds
<1> QED
  BY <1>1, <1>2, <1>3, <1>4, <1>5, <1>6 DEF Next

-----------------------------------------------------------------------------
(***************************************************************************)
(* The group never waits for nothing.                                      *)
(***************************************************************************)
(* What a node still requires has a node, which knows of it; and an active *)
(* task has its node, which requires nothing more.                         *)
Linked ==
  /\ \A t, u \in Tasks :
       u \in require[t] => u \in nodes /\ t \in satisfy[u] /\ u \in Requires(t)
  /\ \A t \in Tasks : runner[t] = "active" => t \in nodes /\ require[t] = {}

LEMMA RaiseLinked ==
  ASSUME TypeOK, Linked, NEW t \in Tasks, Raise(t), require[t] = {}, UNCHANGED edges
  PROVE  Linked'
<1> DEFINE gone == Dependents(t)
<1>1. gone \subseteq Tasks /\ t \in gone /\ \A u \in gone : satisfy[u] \subseteq gone
  BY DependentsFacts, DependentsClosed
<1>2. CASE aggregate
  <2> HIDE DEF gone
  <2>1. /\ runner' = [u \in Tasks |-> IF u = t THEN Raised(t)
                                     ELSE IF u \in gone THEN Cancel(runner[u])
                                     ELSE runner[u]]
        /\ nodes' = (nodes \cup gone) \ {t}
        /\ require' = [u \in Tasks |-> IF u \in gone \ {t} THEN {} ELSE require[u]]
        /\ satisfy' = [u \in Tasks |-> IF u \in gone \ {t} THEN {} ELSE satisfy[u]]
    BY <1>2 DEF Raise, CancelRecursively, gone
  <2>2. ASSUME NEW v \in Tasks, NEW u \in Tasks, u \in require'[v]
        PROVE  u \in nodes' /\ v \in satisfy'[u] /\ u \in Requires(v)'
    <3>1. u \in require[v] /\ v \notin gone \ {t}
      BY <2>1, <2>2
    <3>2. u \in nodes /\ v \in satisfy[u] /\ u \in Requires(v)
      BY <3>1 DEF Linked
    <3>3. u \notin gone
      BY <1>1, <3>1, <3>2
    <3> QED
      BY <1>1, <2>1, <3>2, <3>3 DEF Requires
  <2>3. ASSUME NEW u \in Tasks, runner'[u] = "active" PROVE u \in nodes' /\ require'[u] = {}
    BY <2>1, <2>3, CancelFacts DEF Linked, Raised, TypeOK
  <2> QED
    BY <2>2, <2>3 DEF Linked
<1>3. CASE ~aggregate
  <2>1. UNCHANGED <<nodes, require, satisfy>>
    BY <1>3 DEF Raise
  <2>2. \A u \in Tasks : runner'[u] # "active"
    BY <1>3, CancelFacts DEF Raise, CancelAll, Raised, TypeOK
  <2> QED
    BY <2>1, <2>2 DEF Linked, Requires
<1> QED
  BY <1>2, <1>3

LEMMA LinkedStep ==
  TypeOK /\ Linked /\ [Next]_vars => Linked'
<1> SUFFICES ASSUME TypeOK, Linked, [Next]_vars PROVE Linked'
  OBVIOUS
<1> USE DEF TypeOK, RunnerState, Linked, Requires
<1>1. CASE UNCHANGED vars
  BY <1>1 DEF vars
<1>2. ASSUME NEW t \in Tasks, Sort(t) PROVE Linked'
  BY <1>2 DEF Sort
<1>3. ASSUME NEW t \in Tasks, StartNew(t) PROVE Linked'
  <2>1. CASE Raise(t)
    BY <1>3, <2>1, RaiseLinked DEF StartNew, Ready
  <2> QED
    BY <1>3, <2>1 DEF StartNew, Ready
<1>4. ASSUME NEW t \in Tasks, StartDropped(t) PROVE Linked'
  <2>1. CASE Raise(t)
    BY <1>4, <2>1, RaiseLinked DEF StartDropped, Ready
  <2> QED
    BY <1>4, <2>1 DEF StartDropped
<1>5. ASSUME NEW t \in Tasks, Skip(t) PROVE Linked'
  BY <1>5 DEF Skip
<1>6. ASSUME NEW t \in Tasks, StepYields(t) PROVE Linked'
  BY <1>6 DEF StepYields
<1>7. ASSUME NEW t \in Tasks, StepReturns(t) PROVE Linked'
  BY <1>7 DEF StepReturns, Remove, Running, Started
<1>8. ASSUME NEW t \in Tasks, StepRaises(t) PROVE Linked'
  BY <1>8, RaiseLinked DEF StepRaises, Running
<1>9. CASE Sorted
  BY <1>9 DEF Sorted
<1>10. CASE Loop
  BY <1>10 DEF Loop
<1>11. CASE Yield
  BY <1>11 DEF Yield
<1>12. CASE Resume
  BY <1>12 DEF Resume
<1>13. CASE Abort
  BY <1>13 DEF Abort, CancelAll, Cancel
<1>14. CASE StepEnds
  BY <1>14 DEF StepEnds
<1> QED
  BY <1>1, <1>2, <1>3, <1>4, <1>5, <1>6, <1>7, <1>8, <1>9, <1>10, <1>11,
     <1>12, <1>13, <1>14 DEF Next, Start, Step

(* Among the tasks that wait for others there is always one whose          *)
(* requirements are running, if it is not ready itself.                    *)
LEMMA SomeoneGoes ==
  ASSUME TypeOK, Waiting, Phantom, Linked, Acyclic, ~Interrupted,
         NEW x \in Tasks, ~Done(x)
  PROVE  Ready # {} \/ \E t \in Tasks : Running(t)
<1> SUFFICES ASSUME \A t \in nodes : ~Started(t)
             PROVE  Ready # {}
  BY DEF Running, TypeOK
<1> DEFINE S == {t \in Tasks : runner[t] = "new"}
<1>1. x \in S
  BY DEF Done, Linked, Started
<1>2. PICK t \in S : Requires(t) \cap S = {}
  BY <1>1 DEF Acyclic
<1>3. t \in nodes /\ ~Started(t)
  BY <1>2 DEF Waiting
<1>4. ASSUME NEW u \in Tasks, u \in require[t] PROVE FALSE
  <2>1. u \in nodes /\ t \in satisfy[u] /\ u \in Requires(t)
    BY <1>2, <1>4 DEF Linked
  <2>2. runner[u] = "dropped"
    BY <1>2, <2>1 DEF Started, TypeOK, RunnerState
  <2> QED
    BY <2>1, <2>2 DEF Phantom, Bad
<1>5. require[t] = {}
  BY <1>2, <1>4 DEF TypeOK
<1> QED
  BY <1>3, <1>5 DEF Ready

(* A task is at work, which the next step will come to, or all are done.   *)
GoesOn ==
  phase = "yield" => (\A t \in Tasks : Done(t)) \/ \E t \in Tasks : Running(t)

-----------------------------------------------------------------------------
(***************************************************************************)
(* The theorems.                                                           *)
(***************************************************************************)

(* All the variables keep to their types in every step of the group. *)
THEOREM GroupTypeCorrect == Spec => []TypeOK
<1>1. Init => TypeOK
  BY GraphsAssumption
  DEF Init, TypeOK, Phases, RunnerState, Requires, RequiredBy
<1> QED
  BY <1>1, TypeOKStep, PTL DEF Spec

(* No co-routine of the group, of any tasks with any dependencies, runs    *)
(* before all that it requires have returned, with or without              *)
(* aggregate_exceptions.                                                   *)
THEOREM OrderKept == Spec => []AfterRequirements
<1>1. Init => Waiting /\ Phantom /\ AfterRequirements
  BY DEF Init, Waiting, Phantom, AfterRequirements, Bad
<1> QED
  BY <1>1, GroupTypeCorrect, WaitingStep, PhantomStep, AfterRequirementsStep,
     PTL DEF Spec

(* A group that is over has no task half-way, and one that reports success *)
(* has run every task to its end.                                          *)
THEOREM NothingLeft == Spec => []NothingLeftBehind
<1>1. Init => Clean /\ NothingLeftBehind
  BY DEF Init, Clean, NothingLeftBehind
<1> QED
  BY <1>1, GroupTypeCorrect, CleanStep, NothingLeftBehindStep, PTL DEF Spec

(* With aggregate_exceptions the group leaves out only what depends on a   *)
(* failed task.                                                            *)
THEOREM EveryTaskTried == Spec => []AllTried
<1>1. Init => SatisfyRequired /\ Waiting /\ Phantom /\ Advanced /\ Blamed
  BY DEF Init, SatisfyRequired, Waiting, Phantom, Advanced, Blamed, Bad
<1>2. TypeOK /\ NothingLeftBehind /\ Blamed => AllTried
  <2> SUFFICES ASSUME TypeOK, NothingLeftBehind, Blamed, phase = "failed",
                      aggregate, NEW t \in Tasks, runner[t] # "returned"
               PROVE  t \in raised \/ \E u \in Requires(t) : runner[u] # "returned"
    BY DEF AllTried
  <2>1. runner[t] \in Bad
    BY DEF TypeOK, RunnerState, NothingLeftBehind, Done, Bad
  <2> QED
    BY <2>1 DEF Blamed, Bad
<1> QED
  BY <1>1, <1>2, GroupTypeCorrect, NothingLeft, SatisfyRequiredStep,
     WaitingStep, PhantomStep, AdvancedStep, BlamedStep, PTL DEF Spec

(* The constructor raises CircularDependencyException for exactly the      *)
(* cyclic dependencies, in whatever order it finds the leaves.             *)
THEOREM CyclesFound == Spec => []CircularIffCyclic
<1>1. Init => SortedAcyclic /\ CircularIffCyclic
  BY DEF Init, SortedAcyclic, CircularIffCyclic
<1> QED
  BY <1>1, GroupTypeCorrect, CircularStep, PTL DEF Spec

(* Whenever the group yields to its caller, a task is at work or all are   *)
(* done: the group never waits for tasks of which each waits for another,  *)
(* nor for one that is left of a failure.                                  *)
THEOREM NeverStuck == Spec => []GoesOn
<1> DEFINE AllStarted == phase = "yield" => Ready = {}
<1>1. Init => Waiting /\ Phantom /\ Linked /\ AllStarted
  BY DEF Init, Waiting, Phantom, Linked, Bad, Requires, RequiredBy
<1>2. AllStarted /\ [Next]_vars => AllStarted'
  BY DEF Next, vars, Sort, Start, Step, StartNew, StartDropped, Skip, StepYields, StepReturns,
         StepRaises, Raise, Sorted, Loop, Yield, Resume, Abort, StepEnds, Ready, Started
<1>3. TypeOK /\ Waiting /\ Phantom /\ Linked /\ CircularIffCyclic /\ AllStarted => GoesOn
  BY SomeoneGoes DEF CircularIffCyclic, GoesOn, Interrupted
<1> HIDE DEF AllStarted
<1> QED
  BY <1>1, <1>2, <1>3, GroupTypeCorrect, CyclesFound, WaitingStep, PhantomStep, LinkedStep,
     PTL DEF Spec

-----------------------------------------------------------------------------
(***************************************************************************)
(* The group as TaskOrder has it.                                          *)
(***************************************************************************)
(* What raised is gone, and is kept with aggregate_exceptions only; before *)
(* the loop nothing has started.                                           *)
Recorded ==
  /\ \A t \in raised : runner[t] \in Bad
  /\ ~aggregate => raised = {}
  /\ phase = "sort" => \A t \in Tasks : runner[t] = "new"

LEMMA RaiseRecords ==
  ASSUME TypeOK, Recorded, NEW t \in Tasks, Raise(t), runner[t] # "returned",
         UNCHANGED aggregate
  PROVE  Recorded'
<1>1. /\ phase' # "sort" /\ raised' \subseteq raised \cup {t}
      /\ ~aggregate => raised' = raised
  BY DEF Raise
<1>2. runner'[t] \in Bad
  BY RaiseFacts DEF Bad
<1>3. ASSUME NEW u \in Tasks, runner[u] \in Bad PROVE runner'[u] \in Bad
  BY <1>3, RaiseFacts DEF Bad, TypeOK, RunnerState
<1> QED
  BY <1>1, <1>2, <1>3 DEF Recorded, TypeOK

LEMMA RecordedStep ==
  TypeOK /\ Recorded /\ [Next]_vars => Recorded'
<1> SUFFICES ASSUME TypeOK, Recorded, [Next]_vars PROVE Recorded'
  OBVIOUS
<1>1. CASE UNCHANGED vars
  BY <1>1 DEF vars, Recorded
<1>2. ASSUME NEW t \in Tasks, Sort(t) \/ Skip(t) \/ StepYields(t) PROVE Recorded'
  BY <1>2 DEF Sort, Skip, StepYields, Recorded
<1>3. ASSUME NEW t \in Tasks, Start(t) PROVE Recorded'
  <2>1. CASE Raise(t)
    BY <1>3, <2>1, RaiseRecords DEF Start, StartNew, StartDropped
  <2>2. CASE ~Raise(t)
    BY <1>3, <2>2 DEF Start, StartNew, StartDropped, Recorded, Bad, TypeOK
  <2> QED
    BY <2>1, <2>2
<1>4. ASSUME NEW t \in Tasks, StepReturns(t) PROVE Recorded'
  BY <1>4 DEF StepReturns, Recorded, Bad, TypeOK
<1>5. ASSUME NEW t \in Tasks, StepRaises(t) PROVE Recorded'
  BY <1>5, RaiseRecords DEF StepRaises
<1>6. CASE Sorted \/ Loop \/ Yield \/ Resume \/ StepEnds
  BY <1>6 DEF Sorted, Loop, Yield, Resume, StepEnds, Recorded
<1>7. CASE Abort
  BY <1>7, CancelFacts DEF Abort, CancelAll, Recorded, Bad, TypeOK, RunnerState
<1> QED
  BY <1>1, <1>2, <1>3, <1>4, <1>5, <1>6, <1>7 DEF Next, Step

LEMMA Staged ==
  ASSUME TypeOK
  PROVE  \A t \in Tasks :
           /\ Stage[t] = StageOf(runner[t])
           /\ Stage[t] = "wait" <=> runner[t] = "new"
           /\ Stage[t] = "work" <=> runner[t] = "active"
           /\ Stage[t] = "done" <=> runner[t] = "returned"
           /\ Stage[t] = "gone" <=> runner[t] \in Bad
BY DEF Stage, StageOf, TypeOK, RunnerState, Bad

(* A new task that is ready has all it requires behind it. *)
LEMMA ReadyAble ==
  ASSUME TypeOK, Waiting, NEW t \in Ready, runner[t] = "new"
  PROVE  Order!Able(t)
BY Staged DEF Waiting, Ready, Requires, Order!Able, TypeOK

Consistent ==
  /\ TypeOK /\ Waiting /\ Phantom /\ Linked /\ Clean /\ SatisfyRequired /\ Advanced
  /\ CircularIffCyclic /\ Recorded

(* An exception that is kept takes with it the tasks that depend on the    *)
(* one that raised, but nothing more if that one was gone already.         *)
LEMMA RaiseFails ==
  ASSUME Consistent, NEW t \in nodes, Raise(t), aggregate, UNCHANGED edges,
         phase \in {"start", "step"},
         Order!Able(t) \/ runner[t] \in {"active", "dropped"}
  PROVE  Order!Fail(t) \/ UNCHANGED <<edges, Stage, Result>>
<1> DEFINE gone == Dependents(t)
<1>a. TypeOK /\ t \in Tasks /\ runner[t] # "returned"
  BY Staged DEF Consistent, TypeOK, Order!Able, Bad
<1>1. gone \subseteq Tasks /\ t \in gone /\ \A u \in gone : runner[u] # "returned"
  BY <1>a, DependentsFacts, DependentsUnreturned DEF Consistent
<1>2. /\ \A u \in gone : u # t => \E v \in gone : u \in satisfy[v]
      /\ \A u \in gone : satisfy[u] \subseteq gone
  BY <1>a, DependentsMinimal, DependentsClosed
<1>3. /\ runner' = [u \in Tasks |-> IF u = t THEN Raised(t)
                                    ELSE IF u \in gone THEN Cancel(runner[u])
                                    ELSE runner[u]]
      /\ phase' = "loop"
  BY DEF Raise, CancelRecursively
<1>4. Result = "open" /\ Result' = "open"
  BY <1>3 DEF Result
<1> HIDE DEF gone
<1>5. \A u \in Tasks : Stage'[u] = IF u \in gone THEN "gone" ELSE Stage[u]
  <2> TAKE u \in Tasks
  <2>1. Stage'[u] = StageOf(runner'[u]) /\ Stage[u] = StageOf(runner[u])
    BY DEF Stage
  <2>2. CASE u = t
    BY <1>1, <1>3, <2>1, <2>2 DEF Raised, StageOf
  <2>3. CASE u # t /\ u \in gone
    BY <1>a, <1>1, <1>3, <2>1, <2>3 DEF Cancel, StageOf, TypeOK, RunnerState
  <2>4. CASE u \notin gone
    BY <1>1, <1>3, <2>1, <2>4
  <2> QED
    BY <2>2, <2>3, <2>4
<1>6. CASE runner[t] = "dropped"
  <2>1. satisfy[t] = {}
    BY <1>6 DEF Consistent, Phantom, Interrupted, Bad
  <2>2. gone = {t}
    <3>1. {t} \in SUBSET Tasks /\ t \in {t} /\ \A v \in {t} : satisfy[v] \subseteq {t}
      BY <1>a, <2>1
    <3> QED
      BY <1>1, <3>1 DEF gone, Dependents
  <2>3. Stage' = Stage
    BY <1>a, <1>5, <1>6, <2>2, Staged DEF Stage, Bad
  <2> QED
    BY <1>4, <2>3
<1>7. CASE Order!Able(t) \/ runner[t] = "active"
  <2> DEFINE D == {u \in gone : u # t /\ runner[u] = "new"}
  <2>1. ASSUME NEW v \in gone, NEW u \in Tasks, u \in satisfy[v], runner[u] = "new"
        PROVE  v \in D \cup {t} /\ <<u, v>> \in edges
    <3>1. <<u, v>> \in edges
      BY <1>1, <2>1 DEF Consistent, SatisfyRequired, RequiredBy
    <3>2. v \in Requires(u) /\ v \in require[u]
      BY <1>1, <2>1, <3>1 DEF Consistent, Waiting, Requires
    <3>3. v \in nodes
      BY <1>1, <2>1, <3>2 DEF Consistent, Linked
    <3>4. runner[v] \notin Bad
      BY <2>1, <3>3 DEF Consistent, Phantom, Interrupted
    <3>5. v # t => runner[v] # "active"
      <4> SUFFICES ASSUME v # t, runner[v] = "active" PROVE FALSE
        OBVIOUS
      <4>1. PICK x \in gone : v \in satisfy[x]
        BY <1>2
      <4>2. x \in Requires(v)
        BY <1>1, <4>1 DEF Consistent, SatisfyRequired, RequiredBy, Requires
      <4> QED
        BY <1>1, <4>2 DEF Consistent, Advanced
    <3> QED
      BY <1>a, <1>1, <3>1, <3>4, <3>5 DEF TypeOK, RunnerState, Bad
  <2>2. D \in SUBSET {u \in Tasks : Stage[u] = "wait"} /\ t \notin D
    BY <1>a, <1>1, Staged
  <2>3. ASSUME NEW u \in D PROVE \E v \in D \cup {t} : u \in Order!Requirers(v)
    <3>1. PICK v \in gone : u \in satisfy[v]
      BY <1>2
    <3>2. u \in Tasks /\ v \in D \cup {t} /\ <<u, v>> \in edges
      BY <1>1, <2>1, <3>1
    <3> QED
      BY <3>2 DEF Order!Requirers
  <2>4. ASSUME NEW v \in D \cup {t}, NEW u \in Order!Requirers(v), Stage[u] = "wait"
        PROVE  u \in D
    <3>1. u \in Tasks /\ <<u, v>> \in edges /\ runner[u] = "new" /\ v \in gone
      BY <1>a, <1>1, <2>4, Staged DEF Order!Requirers
    <3>2. v \in require[u]
      BY <1>1, <3>1 DEF Consistent, Waiting, Requires
    <3>3. u \in satisfy[v]
      BY <1>1, <3>1, <3>2 DEF Consistent, Linked
    <3>4. u \in gone
      BY <1>2, <3>1, <3>3
    <3>5. u # t
      <4> SUFFICES ASSUME u = t PROVE FALSE
        OBVIOUS
      <4>1. Order!Able(t)
        BY <1>7, <3>1
      <4>2. Stage[v] = "done"
        BY <1>1, <3>1, <4>1 DEF Order!Able
      <4> QED
        BY <1>a, <1>1, <3>1, <4>2, Staged
    <3> QED
      BY <3>1, <3>4, <3>5
  <2>5. Stage' = [u \in Tasks |-> IF u \in D \cup {t} THEN "gone" ELSE Stage[u]]
    <3>1. ASSUME NEW u \in gone, u \notin D \cup {t} PROVE Stage[u] = "gone"
      <4>1. PICK x \in gone : u \in satisfy[x]
        BY <1>2, <3>1
      <4>2. x \in Requires(u)
        BY <1>1, <4>1 DEF Consistent, SatisfyRequired, RequiredBy, Requires
      <4>3. runner[u] # "active"
        BY <1>1, <4>2 DEF Consistent, Advanced
      <4> QED
        BY <1>a, <1>1, <3>1, <4>3, Staged DEF TypeOK, RunnerState, Bad
    <3>2. \A u \in Tasks : Stage'[u] = IF u \in D \cup {t} THEN "gone" ELSE Stage[u]
      BY <1>1, <1>5, <3>1
    <3> HIDE DEF D
    <3> QED
      BY <3>2 DEF Stage
  <2>6. Order!Able(t) \/ Stage[t] = "work"
    BY <1>a, <1>7, Staged
  <2> HIDE DEF D
  <2> QED
    BY <1>4, <2>2, <2>3, <2>4, <2>5, <2>6 DEF Order!Fail
<1> QED
  BY <1>6, <1>7 

LEMMA CancelledOver ==
  ASSUME TypeOK, NEW f, f = [u \in Tasks |-> StageOf(Cancel(runner[u]))]
  PROVE  f = Order!Over
<1>1. \A u \in Tasks : f[u] = IF Stage[u] = "done" THEN "done" ELSE "gone"
  BY CancelFacts DEF StageOf, Cancel, Stage, TypeOK, RunnerState
<1> QED
  BY <1>1 DEF Order!Over

LEMMA RaiseFailsAll ==
  ASSUME Consistent, NEW t \in Tasks, Raise(t), ~aggregate, UNCHANGED edges,
         phase \in {"start", "step"},
         Order!Able(t) \/ runner[t] \in {"active", "dropped"}
  PROVE  Order!FailAll(t)
<1>1. runner[t] # "dropped"
  BY DEF Consistent, Recorded, Clean, Interrupted
<1>2. TypeOK /\ (Order!Able(t) \/ Stage[t] = "work") /\ runner[t] # "returned"
  BY <1>1, Staged DEF Consistent, Order!Able
<1>3. /\ runner' = [[u \in Tasks |-> Cancel(runner[u])] EXCEPT ![t] = Raised(t)]
      /\ phase' = "failed"
  BY DEF Raise, CancelAll
<1>4. Result = "open" /\ Result' = "failed"
  BY <1>3 DEF Result
<1>5. \A u \in Tasks : StageOf(runner'[u]) = StageOf(Cancel(runner[u]))
  BY <1>2, <1>3 DEF StageOf, Cancel, Raised, TypeOK, RunnerState
<1>6. Stage' = Order!Over
  BY <1>2, <1>5, CancelledOver DEF Stage
<1> QED
  BY <1>2, <1>4, <1>6 DEF Order!FailAll

LEMMA StageSet ==
  ASSUME TypeOK, NEW t \in Tasks, NEW s, runner' = [runner EXCEPT ![t] = s]
  PROVE  Stage' = [Stage EXCEPT ![t] = StageOf(s)]
BY DEF Stage, TypeOK

LEMMA StartOrdered ==
  ASSUME Consistent, NEW t \in Tasks, Start(t)
  PROVE  Order!Next \/ UNCHANGED <<edges, Stage, Result>>
<1>1. TypeOK /\ t \in Ready /\ t \in nodes /\ phase = "start" /\ UNCHANGED edges
  BY DEF Start, StartNew, StartDropped, Consistent, Ready
<1>2. Result = "open"
  BY <1>1 DEF Result
<1>3. runner[t] = "new" => Order!Able(t)
  BY <1>1, ReadyAble DEF Consistent
<1>4. runner[t] \in {"new", "dropped"}
  BY DEF Start, StartNew, StartDropped
<1>5. CASE Raise(t)
  BY <1>1, <1>3, <1>4, <1>5, RaiseFails, RaiseFailsAll DEF Order!Next
<1>6. CASE /\ runner[t] = "new" /\ UNCHANGED phase
           /\ \/ runner' = [runner EXCEPT ![t] = "active"]
              \/ runner' = [runner EXCEPT ![t] = "returned"]
  <2>1. Stage' = [Stage EXCEPT ![t] = "work"] \/ Stage' = [Stage EXCEPT ![t] = "done"]
    BY <1>1, <1>6, StageSet DEF StageOf
  <2>2. Result' = Result
    BY <1>6 DEF Result
  <2>3. Order!Start(t, "work") \/ Order!Start(t, "done")
    BY <1>1, <1>2, <1>3, <1>6, <2>1, <2>2 DEF Order!Start
  <2> QED
    BY <2>3 DEF Order!Next
<1>7. CASE runner[t] = "dropped" /\ runner' = [runner EXCEPT ![t] = "revived"] /\ UNCHANGED phase
  <2>1. Stage' = [Stage EXCEPT ![t] = "gone"] /\ Stage[t] = "gone"
    BY <1>1, <1>7, StageSet, Staged DEF StageOf, Bad
  <2>2. Stage' = Stage
    BY <2>1 DEF Stage
  <2> QED
    BY <1>1, <1>7, <2>2 DEF Result
<1> QED
  BY <1>5, <1>6, <1>7 DEF Start, StartNew, StartDropped

LEMMA StepOrdered ==
  ASSUME Consistent, NEW t \in Tasks, Step(t)
  PROVE  Order!Next \/ UNCHANGED <<edges, Stage, Result>>
<1> USE DEF Consistent
<1>1. CASE Skip(t) \/ StepYields(t)
  BY <1>1 DEF Skip, StepYields, Stage, Result
<1>2. CASE StepRaises(t)
  BY <1>2, RaiseFails, RaiseFailsAll DEF StepRaises, Running, Order!Next
<1>3. CASE StepReturns(t)
  <2>1. /\ phase = "step" /\ UNCHANGED <<edges, phase>>
        /\ runner' = [runner EXCEPT ![t] = IF @ = "active" THEN "returned" ELSE @]
    BY <1>3 DEF StepReturns
  <2>2. Result = "open" /\ Result' = "open"
    BY <2>1 DEF Result
  <2>3. CASE runner[t] = "active"
    <3>1. runner' = [runner EXCEPT ![t] = "returned"] /\ Stage[t] = "work"
      BY <2>1, <2>3, Staged
    <3>2. Stage' = [Stage EXCEPT ![t] = "done"]
      BY <3>1, StageSet DEF StageOf
    <3> QED
      BY <2>1, <2>2, <3>1, <3>2 DEF Order!Finish, Order!Next
  <2>4. CASE runner[t] # "active"
    BY <2>1, <2>2, <2>4 DEF Stage, TypeOK
  <2> QED
    BY <2>3, <2>4
<1> QED
  BY <1>1, <1>2, <1>3 DEF Step

LEMMA RefusedOrdered ==
  ASSUME Consistent, Sorted, CircularIffCyclic'
  PROVE  Order!Next \/ UNCHANGED <<edges, Stage, Result>>
<1>1. UNCHANGED <<edges, runner>> /\ phase = "sort" /\ phase' \in {"loop", "circular"}
  BY DEF Sorted
<1>2. Stage' = Stage
  BY <1>1 DEF Stage
<1>3. CASE phase' = "loop"
  BY <1>1, <1>2, <1>3 DEF Result
<1>4. CASE phase' = "circular"
  <2>1. ~Acyclic
    BY <1>1, <1>4 DEF CircularIffCyclic, Acyclic, Requires
  <2>2. Order!Cyclic
    BY <2>1 DEF Order!Cyclic, Acyclic, Requires
  <2>3. Result = "open" /\ Result' = "refused"
    BY <1>1, <1>4 DEF Result
  <2>4. \A t \in Tasks : Stage[t] = "wait"
    BY <1>1, Staged DEF Consistent, Recorded
  <2> QED
    BY <1>1, <1>2, <2>2, <2>3, <2>4 DEF Order!Refuse, Order!Next
<1> QED
  BY <1>1, <1>3, <1>4

LEMMA LoopOrdered ==
  ASSUME Consistent, Loop
  PROVE  Order!Next \/ UNCHANGED <<edges, Stage, Result>>
<1>1. UNCHANGED <<edges, runner>> /\ phase = "loop" /\ TypeOK
  BY DEF Loop, Consistent
<1>2. Stage' = Stage /\ Result = "open"
  BY <1>1 DEF Stage, Result
<1>3. CASE \E t \in Tasks : ~Done(t)
  BY <1>1, <1>2, <1>3 DEF Loop, Result
<1>4. CASE \A t \in Tasks : Done(t)
  <2>1. \A t \in Tasks : Stage[t] \in {"done", "gone"}
    BY <1>1, <1>4, Staged DEF Done, TypeOK, RunnerState, Bad
  <2>2. CASE raised = {}
    <3>1. \A t \in Tasks : Stage[t] = "done"
      BY <1>1, <1>4, <2>2, Staged DEF Consistent, Clean, Interrupted, Done
    <3>2. Result' = "complete"
      BY <1>1, <1>4, <2>2 DEF Loop, Result
    <3> QED
      BY <1>1, <1>2, <2>1, <3>1, <3>2 DEF Order!End, Order!Next
  <2>3. CASE raised # {}
    <3>1. PICK t \in raised : t \in Tasks /\ runner[t] \in Bad
      BY <1>1, <2>3 DEF Consistent, Recorded, TypeOK
    <3>2. Stage[t] # "done"
      BY <1>1, <3>1, Staged
    <3>3. Result' = "failed"
      BY <1>1, <1>4, <2>3 DEF Loop, Result
    <3> QED
      BY <1>1, <1>2, <2>1, <3>1, <3>2, <3>3 DEF Order!End, Order!Next
  <2> QED
    BY <2>2, <2>3
<1> QED
  BY <1>3, <1>4

LEMMA AbortOrdered ==
  ASSUME Consistent, Abort
  PROVE  Order!Abort
<1>1. runner' = [u \in Tasks |-> Cancel(runner[u])] /\ UNCHANGED edges
  BY DEF Abort, CancelAll
<1>2. Stage' = Order!Over
  BY <1>1, CancelledOver DEF Stage, Consistent
<1>3. Result = "open" /\ Result' = "aborted"
  BY DEF Abort, Result
<1> QED
  BY <1>1, <1>2, <1>3 DEF Order!Abort

(* Whatever the tasks and their requirements, and whatever fails or is     *)
(* interrupted, the group behaves as a scheduler of tasks that are done in *)
(* the order of their requirements, each at most once, and of which a      *)
(* failure takes away exactly those that depend on it, or all.             *)
THEOREM OrderRefined == Spec => RefinesOrder
<1>1. Init => Order!Init /\ Waiting /\ Phantom /\ Linked /\ Clean /\ SatisfyRequired
                /\ Advanced /\ Recorded
  <2> SUFFICES ASSUME Init
               PROVE  Order!Init /\ Waiting /\ Phantom /\ Linked /\ Clean /\ SatisfyRequired
                        /\ Advanced /\ Recorded
    OBVIOUS
  <2>1. Waiting /\ Phantom /\ Linked /\ Clean /\ SatisfyRequired /\ Advanced /\ Recorded
    BY DEF Init, Waiting, Phantom, Linked, Clean, SatisfyRequired, Advanced, Recorded, Bad,
           Requires, RequiredBy
  <2>2. edges \in SUBSET (Tasks \X Tasks)
    BY GraphsAssumption DEF Init
  <2>3. Stage = [t \in Tasks |-> "wait"] /\ Result = "open"
    BY DEF Init, Stage, StageOf, Result
  <2> QED
    BY <2>1, <2>2, <2>3 DEF Order!Init
<1>2. Consistent /\ CircularIffCyclic' /\ [Next]_vars => [Order!Next]_<<edges, Stage, Result>>
  <2> SUFFICES ASSUME Consistent, CircularIffCyclic', [Next]_vars
               PROVE  Order!Next \/ UNCHANGED <<edges, Stage, Result>>
    OBVIOUS
  <2>1. CASE UNCHANGED vars
    BY <2>1 DEF vars, Stage, Result
  <2>2. ASSUME NEW t \in Tasks, Sort(t) PROVE UNCHANGED <<edges, Stage, Result>>
    BY <2>2 DEF Sort, Stage, Result
  <2>3. CASE Yield \/ Resume \/ StepEnds
    BY <2>3 DEF Yield, Resume, StepEnds, Stage, Result
  <2>4. CASE Abort
    BY <2>4, AbortOrdered DEF Order!Next
  <2> QED
    BY <2>1, <2>2, <2>3, <2>4, StartOrdered, StepOrdered, RefusedOrdered, LoopOrdered DEF Next
<1>3. Spec => []Consistent
  <2>1. Waiting /\ Phantom /\ Linked /\ Clean /\ SatisfyRequired /\ Advanced /\ Recorded
          /\ TypeOK /\ CircularIffCyclic => Consistent
    BY DEF Consistent
  <2> QED
    BY <1>1, <2>1, GroupTypeCorrect, CyclesFound, WaitingStep, PhantomStep, LinkedStep, CleanStep,
       SatisfyRequiredStep, AdvancedStep, RecordedStep, PTL DEF Spec
<1>4. Consistent => CircularIffCyclic
  BY DEF Consistent
<1> QED
  BY <1>1, <1>2, <1>3, <1>4, PTL DEF Spec, RefinesOrder, Order!Spec, Order!vars
=============================================================================
