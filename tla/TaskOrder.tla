------------------------------ MODULE TaskOrder -------------------------------
(***************************************************************************)
(* What a task group promises to the operation that steps it: tasks work   *)
(* in the order of their requirements, a task that fails takes with it     *)
(* what depends on it or everything, and the group ends when nothing is    *)
(* left to do.                                                             *)
(***************************************************************************)
CONSTANT Tasks

VARIABLES
  edges,   \* the requirements, as pairs <<requirer, required>>
  stage,   \* of each task: wait, work, done, or gone (failed or cancelled)
  result   \* of the group: open, refused, complete, failed or aborted

vars == <<edges, stage, result>>

Init ==
  /\ edges \in SUBSET (Tasks \X Tasks)
  /\ stage = [t \in Tasks |-> "wait"]
  /\ result = "open"

Requirers(t) == {u \in Tasks : <<u, t>> \in edges}

Able(t) ==
  stage[t] = "wait" /\ \A u \in Tasks : <<t, u>> \in edges => stage[u] = "done"

Cyclic ==
  \E S \in SUBSET Tasks : S # {} /\ \A t \in S : \E u \in S : <<t, u>> \in edges

(* No task of a group with cyclic requirements ever starts. *)
Refuse ==
  /\ result = "open" /\ Cyclic
  /\ \A t \in Tasks : stage[t] = "wait"
  /\ result' = "refused"
  /\ UNCHANGED <<edges, stage>>

(* A task may be done as soon as it starts. *)
Start(t, to) ==
  /\ result = "open" /\ Able(t)
  /\ stage' = [stage EXCEPT ![t] = to]
  /\ UNCHANGED <<edges, result>>

Finish(t) ==
  /\ result = "open" /\ stage[t] = "work"
  /\ stage' = [stage EXCEPT ![t] = "done"]
  /\ UNCHANGED <<edges, result>>

(* The task fails, and the tasks that depend on it, directly or not, go    *)
(* with it, and no others.                                                 *)
Fail(t) ==
  /\ result = "open" /\ (Able(t) \/ stage[t] = "work")
  /\ \E D \in SUBSET {u \in Tasks : stage[u] = "wait"} :
       /\ t \notin D
       /\ \A u \in D : \E v \in D \cup {t} : u \in Requirers(v)
       /\ \A v \in D \cup {t} : \A u \in Requirers(v) : stage[u] = "wait" => u \in D
       /\ stage' = [u \in Tasks |-> IF u \in D \cup {t} THEN "gone" ELSE stage[u]]
  /\ UNCHANGED <<edges, result>>

Over == [t \in Tasks |-> IF stage[t] = "done" THEN "done" ELSE "gone"]

(* The task fails, and the group with it. *)
FailAll(t) ==
  /\ result = "open" /\ (Able(t) \/ stage[t] = "work")
  /\ stage' = Over
  /\ result' = "failed"
  /\ UNCHANGED edges

(* The caller interrupts the group. *)
Abort ==
  /\ result = "open"
  /\ stage' = Over
  /\ result' = "aborted"
  /\ UNCHANGED edges

End ==
  /\ result = "open"
  /\ \A t \in Tasks : stage[t] \in {"done", "gone"}
  /\ result' = IF \A t \in Tasks : stage[t] = "done" THEN "complete" ELSE "failed"
  /\ UNCHANGED <<edges, stage>>

Next ==
  \/ \E t \in Tasks : \/ \E to \in {"work", "done"} : Start(t, to)
                      \/ Finish(t) \/ Fail(t) \/ FailAll(t)
  \/ Refuse \/ Abort \/ End

Spec == Init /\ [][Next]_vars
=============================================================================
