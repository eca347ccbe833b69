----------------------------- MODULE MCTaskGroup -----------------------------
(***************************************************************************)
(* TaskGroup on all dependency graphs of a few tasks.                      *)
(***************************************************************************)
EXTENDS TaskGroup, Naturals

NumTasks == 4
TaskSet  == 1..NumTasks

(* Up to the names of the tasks, an acyclic relation relates larger to     *)
(* smaller numbers; two cyclic ones stand for the rest.                    *)
Descending == {p \in TaskSet \X TaskSet : p[1] > p[2]}
AllGraphs  == SUBSET Descending \cup {{<<1, 1>>}, {<<1, 2>>, <<2, 3>>, <<3, 1>>, <<4, 1>>}}

SomePlain == {2, 4}
=============================================================================
