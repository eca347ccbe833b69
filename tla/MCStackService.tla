---------------------------- MODULE MCStackService ----------------------------
(***************************************************************************)
(* StackService with two engines and the requests that follow a creation.  *)
(***************************************************************************)
EXTENDS StackService, TLC

CONSTANTS c, r1, r2, e1, e2

TwoEngines  == {e1, e2}
TwoRequests == {r1, r2}

Symmetric == Permutations(Requests) \cup Permutations(Engines)

(* Of a request that is over only its kind is asked for, of one with the   *)
(* lock only the template it has loaded.                                   *)
Memory(r) ==
  CASE pc[r] \in {"idle", "over"} -> <<pc[r], kind[r] \in {"ABANDON", "ADOPT"}>>
    [] pc[r] \in {"loaded", "again", "begin"} -> <<pc[r], kind[r], at[r], saw[r], target[r]>>
    [] OTHER -> <<pc[r], kind[r], at[r], saw[r].template, target[r], todo[r]>>

Relevant == <<stack, row, rule, rested, lock, timers, strayed,
              [r \in Users |-> Memory(r)]>>

(* Bound: what has strayed stays strayed, and nothing is promised of it.   *)
OnCourse == ~strayed
=============================================================================
