-------------------------- MODULE StackUpdateProofs --------------------------
(***************************************************************************)
(* Proofs about StackUpdate, for any names, templates and ids, any number  *)
(* of operations and any faults.                                           *)
(***************************************************************************)
EXTENDS StackUpdate, TLAPS

RowMap == [Ids -> RowType \cup {Nothing}]

(* A row of the stack s for the name n. *)
At(s, n, i) == row[i] # Nothing /\ row[i].stack = s /\ row[i].name = n

New(n) == stage[<<"new", n>>]
Old(n) == stage[<<"old", n>>]

-----------------------------------------------------------------------------
(***************************************************************************)
(* Rows.                                                                   *)
(***************************************************************************)

(* Two maps have the same rows in the same places. *)
SameShape(r, q) ==
  \A i \in Ids : /\ q[i] = Nothing <=> r[i] = Nothing
                 /\ r[i] # Nothing => q[i].stack = r[i].stack /\ q[i].name = r[i].name

(* ... with the same definitions. *)
SameDefs(r, q) ==
  \A i \in Ids : r[i] # Nothing => q[i].def = r[i].def

LEMMA SetShape ==
  ASSUME NEW r \in RowMap, NEW i \in Ids, r[i] # Nothing,
         NEW a \in {"CREATE", "UPDATE", "DELETE"},
         NEW s \in {"IN_PROGRESS", "COMPLETE", "FAILED"}
  PROVE  /\ Set(r, i, a, s) \in RowMap
         /\ SameShape(r, Set(r, i, a, s))
         /\ SameDefs(r, Set(r, i, a, s))
         /\ Set(r, i, a, s)[i].action = a /\ Set(r, i, a, s)[i].status = s
         /\ \A j \in Ids \ {i} : Set(r, i, a, s)[j] = r[j]
<1> DEFINE q == Set(r, i, a, s)
<1>1. r[i] \in RowType
  BY DEF RowMap
<1>2. q = [r EXCEPT ![i] = [r[i] EXCEPT !.action = a, !.status = s]]
  BY <1>1 DEF Set, RowMap
<1>3. [r[i] EXCEPT !.action = a, !.status = s] \in RowType
  BY <1>1 DEF RowType
<1>4. q[i] = [r[i] EXCEPT !.action = a, !.status = s] /\ \A j \in Ids \ {i} : q[j] = r[j]
  BY <1>2 DEF RowMap
<1>5. q \in RowMap
  BY <1>2, <1>3 DEF RowMap
<1>6. q[i] # Nothing
  BY <1>3, <1>4, NothingAssumption
<1>7. /\ q[i].stack = r[i].stack /\ q[i].name = r[i].name /\ q[i].def = r[i].def
      /\ q[i].action = a /\ q[i].status = s
  BY <1>1, <1>4 DEF RowType
<1> QED BY <1>4, <1>5, <1>6, <1>7 DEF SameShape, SameDefs

Redefine(r, i, d) == [r EXCEPT ![i].def = d]

LEMMA RedefineShape ==
  ASSUME NEW r \in RowMap, NEW i \in Ids, r[i] # Nothing, NEW d \in Definitions
  PROVE  LET q == Redefine(r, i, d) IN
         /\ q \in RowMap /\ SameShape(r, q)
         /\ q[i].def = d /\ q[i].status = r[i].status
         /\ \A j \in Ids \ {i} : q[j] = r[j]
<1> DEFINE q == Redefine(r, i, d)
<1>1. r[i] \in RowType
  BY DEF RowMap
<1>2. [r[i] EXCEPT !.def = d] \in RowType
  BY <1>1 DEF RowType
<1>3. q[i] = [r[i] EXCEPT !.def = d] /\ \A j \in Ids \ {i} : q[j] = r[j]
  BY DEF RowMap, Redefine
<1>4. q \in RowMap
  BY <1>2 DEF RowMap, Redefine
<1>5. q[i] # Nothing
  BY <1>2, <1>3, NothingAssumption
<1>6. q[i].stack = r[i].stack /\ q[i].name = r[i].name /\ q[i].def = d /\ q[i].status = r[i].status
  BY <1>1, <1>3 DEF RowType
<1> QED BY <1>3, <1>4, <1>5, <1>6 DEF SameShape

MoveRow(r, i, s) == [r EXCEPT ![i].stack = s]

LEMMA MoveRowShape ==
  ASSUME NEW r \in RowMap, NEW i \in Ids, r[i] # Nothing, NEW s \in {"main", "backup"}
  PROVE  LET q == MoveRow(r, i, s) IN
         /\ q \in RowMap
         /\ q[i] # Nothing /\ q[i].stack = s
         /\ q[i].name = r[i].name /\ q[i].def = r[i].def /\ q[i].status = r[i].status
         /\ \A j \in Ids \ {i} : q[j] = r[j]
<1> DEFINE q == MoveRow(r, i, s)
<1>1. r[i] \in RowType
  BY DEF RowMap
<1>2. [r[i] EXCEPT !.stack = s] \in RowType
  BY <1>1 DEF RowType
<1>3. q[i] = [r[i] EXCEPT !.stack = s] /\ \A j \in Ids \ {i} : q[j] = r[j]
  BY DEF RowMap, MoveRow
<1>4. q \in RowMap
  BY <1>2 DEF RowMap, MoveRow
<1>5. q[i] # Nothing
  BY <1>2, <1>3, NothingAssumption
<1>6. /\ q[i].stack = s /\ q[i].name = r[i].name /\ q[i].def = r[i].def
      /\ q[i].status = r[i].status
  BY <1>1, <1>3 DEF RowType
<1> QED BY <1>3, <1>4, <1>5, <1>6

LEMMA AbortedShape ==
  ASSUME row \in RowMap,
         \A i \in Ids : i \in Cut => row[i] # Nothing
  PROVE  Aborted \in RowMap /\ SameShape(row, Aborted) /\ SameDefs(row, Aborted)
<1>1. ASSUME NEW i \in Ids
      PROVE  /\ Aborted[i] \in RowType \cup {Nothing}
             /\ Aborted[i] = Nothing <=> row[i] = Nothing
             /\ row[i] # Nothing =>
                  /\ Aborted[i].stack = row[i].stack /\ Aborted[i].name = row[i].name
                  /\ Aborted[i].def = row[i].def
  <2>1. CASE i \notin Cut
    BY <2>1 DEF Aborted, RowMap
  <2>2. CASE i \in Cut
    <3>1. row[i] \in RowType
      BY <2>2 DEF RowMap
    <3>2. Aborted[i] = [row[i] EXCEPT !.status = "FAILED"]
      BY <2>2 DEF Aborted
    <3>3. Aborted[i] \in RowType
      BY <3>1, <3>2 DEF RowType
    <3>4. /\ Aborted[i].stack = row[i].stack /\ Aborted[i].name = row[i].name
          /\ Aborted[i].def = row[i].def
      BY <3>1, <3>2 DEF RowType
    <3> QED BY <2>2, <3>3, <3>4, NothingAssumption
  <2> QED BY <2>1, <2>2
<1>2. Aborted = [i \in Ids |-> Aborted[i]]
  BY DEF Aborted
<1>3. Aborted \in RowMap
  BY <1>1, <1>2 DEF RowMap
<1> QED BY <1>1, <1>3 DEF SameShape, SameDefs

(* What a load of the rows gives the objects of a stack. *)
LEMMA ReloadShape ==
  ASSUME row \in RowMap, NEW s, NEW t \in Templates
  PROVE  /\ Reload(s, t) \in RowMap
         /\ SameShape(row, Reload(s, t))
         /\ \A i \in Ids :
              /\ row[i] # Nothing => Reload(s, t)[i].status = row[i].status
              /\ IF row[i] # Nothing /\ row[i].stack = s /\ row[i].name \in DOMAIN t
                 THEN Reload(s, t)[i].def = t[row[i].name]
                 ELSE Reload(s, t)[i] = row[i]
<1> DEFINE q == Reload(s, t)
<1>1. ASSUME NEW i \in Ids
      PROVE  /\ q[i] \in RowType \cup {Nothing}
             /\ q[i] = Nothing <=> row[i] = Nothing
             /\ row[i] # Nothing =>
                  /\ q[i].stack = row[i].stack /\ q[i].name = row[i].name
                  /\ q[i].status = row[i].status
             /\ IF row[i] # Nothing /\ row[i].stack = s /\ row[i].name \in DOMAIN t
                THEN q[i].def = t[row[i].name]
                ELSE q[i] = row[i]
  <2>1. CASE ~(row[i] # Nothing /\ row[i].stack = s /\ row[i].name \in DOMAIN t)
    <3>1. q[i] = row[i]
      BY <2>1 DEF Reload, Rows
    <3> QED BY <2>1, <3>1 DEF RowMap
  <2>2. CASE row[i] # Nothing /\ row[i].stack = s /\ row[i].name \in DOMAIN t
    <3>1. row[i] \in RowType
      BY <2>2 DEF RowMap
    <3>2. t[row[i].name] \in Definitions
      BY <2>2 DEF Definitions
    <3>3. q[i] = [row[i] EXCEPT !.def = t[row[i].name]]
      BY <2>2 DEF Reload, Rows
    <3>4. q[i] \in RowType
      BY <3>1, <3>2, <3>3 DEF RowType
    <3>5. /\ q[i].stack = row[i].stack /\ q[i].name = row[i].name
          /\ q[i].status = row[i].status /\ q[i].def = t[row[i].name]
      BY <3>1, <3>3 DEF RowType
    <3> QED BY <2>2, <3>4, <3>5, NothingAssumption
  <2> QED BY <2>1, <2>2
<1>2. q = [i \in Ids |-> q[i]]
  BY DEF Reload
<1>3. q \in RowMap
  BY <1>1, <1>2 DEF RowMap
<1> QED BY <1>1, <1>3 DEF SameShape

LEMMA ReloadBothShape ==
  ASSUME row \in RowMap, NEW t \in Templates, NEW b \in Templates \cup {Nothing}
  PROVE  /\ ReloadBoth(t, b) \in RowMap
         /\ SameShape(row, ReloadBoth(t, b))
         /\ \A i \in Ids :
              row[i] # Nothing /\ row[i].stack = "main" =>
                ReloadBoth(t, b)[i].def =
                  IF row[i].name \in DOMAIN t THEN t[row[i].name] ELSE row[i].def
<1> DEFINE q == ReloadBoth(t, b)
<1>1. q = [i \in Ids |-> q[i]]
  BY DEF ReloadBoth
<1>2. CASE b = Nothing
  <2>1. \A i \in Ids : q[i] = Reload("main", t)[i]
    BY <1>2 DEF ReloadBoth
  <2>2. \A i \in Ids : q[i] \in RowType \cup {Nothing}
    BY <2>1, ReloadShape DEF RowMap
  <2>3. q \in RowMap
    BY <1>1, <2>2 DEF RowMap
  <2> QED BY <2>1, <2>3, ReloadShape DEF SameShape
<1>3. CASE b \in Templates
  <2>1. b # Nothing
    BY <1>3, NothingAssumption
  <2>2. \A i \in Ids : q[i] = IF row[i] # Nothing /\ row[i].stack = "backup"
                              THEN Reload("backup", b)[i] ELSE Reload("main", t)[i]
    BY <2>1 DEF ReloadBoth, Rows
  <2>3. Reload("backup", b) \in RowMap /\ SameShape(row, Reload("backup", b))
    BY <1>3, ReloadShape
  <2>4. Reload("main", t) \in RowMap /\ SameShape(row, Reload("main", t))
    BY ReloadShape
  <2>5. \A i \in Ids : q[i] \in RowType \cup {Nothing}
    BY <2>2, <2>3, <2>4 DEF RowMap
  <2>6. q \in RowMap
    BY <1>1, <2>5 DEF RowMap
  <2>7. SameShape(row, q)
    BY <2>2, <2>3, <2>4 DEF SameShape
  <2>8. \A i \in Ids :
          row[i] # Nothing /\ row[i].stack = "main" =>
            q[i].def = IF row[i].name \in DOMAIN t THEN t[row[i].name] ELSE row[i].def
    BY <2>2, ReloadShape
  <2> QED BY <2>6, <2>7, <2>8
<1> QED BY <1>2, <1>3

LEMMA Loads ==
  ASSUME row \in RowMap, NEW s, NEW t
  PROVE  /\ Load(s, t) \in Dictionary
         /\ \A n \in Names :
              /\ Load(s, t)[n] # Nothing => At(s, n, Load(s, t)[n]) /\ n \in DOMAIN t
              /\ \A i \in Ids : At(s, n, i) /\ n \in DOMAIN t => Load(s, t)[n] # Nothing
<1> DEFINE q == Load(s, t)
           S(n) == {i \in Rows(s) : row[i].name = n}
<1>1. ASSUME NEW n \in Names
      PROVE  /\ q[n] \in Ids \cup {Nothing}
             /\ q[n] # Nothing => At(s, n, q[n]) /\ n \in DOMAIN t
             /\ \A i \in Ids : At(s, n, i) /\ n \in DOMAIN t => q[n] # Nothing
  <2>1. CASE n \in DOMAIN t /\ \E i \in Rows(s) : row[i].name = n
    <3>1. q[n] = CHOOSE i \in Rows(s) : row[i].name = n
      BY <2>1 DEF Load
    <3>2. q[n] \in Rows(s) /\ row[q[n]].name = n
      BY <2>1, <3>1
    <3> QED BY <2>1, <3>2, NothingAssumption DEF Rows, At
  <2>2. CASE ~(n \in DOMAIN t /\ \E i \in Rows(s) : row[i].name = n)
    BY <2>2 DEF Load, Rows, At
  <2> QED BY <2>1, <2>2
<1>2. q = [n \in Names |-> q[n]]
  BY DEF Load
<1>3. q \in Dictionary
  BY <1>1, <1>2 DEF Dictionary
<1> QED BY <1>1, <1>3

LEMMA Drops ==
  ASSUME NEW r \in RowMap, NEW s
  PROVE  /\ Drop(r, s) \in RowMap
         /\ \A i \in Ids :
              Drop(r, s)[i] = IF r[i] # Nothing /\ r[i].stack = s THEN Nothing ELSE r[i]
<1>1. \A i \in Ids : Drop(r, s)[i] = IF r[i] # Nothing /\ r[i].stack = s THEN Nothing ELSE r[i]
  BY DEF Drop
<1>2. Drop(r, s) = [i \in Ids |-> Drop(r, s)[i]]
  BY DEF Drop
<1>3. \A i \in Ids : Drop(r, s)[i] \in RowType \cup {Nothing}
  BY <1>1 DEF RowMap
<1> QED BY <1>1, <1>2, <1>3 DEF RowMap

-----------------------------------------------------------------------------
(***************************************************************************)
(* Groups of tasks.                                                        *)
(***************************************************************************)
LEMMA TasksAre ==
  /\ \A n \in Names : <<"new", n>> \in Tasks /\ <<"old", n>> \in Tasks
  /\ \A k \in Tasks : \E n \in Names : k = <<"new", n>> \/ k = <<"old", n>>
BY DEF Tasks

LEMMA NewMoves ==
  ASSUME stage \in [Tasks -> Stages], NEW n \in Names, NEW to \in Stages,
         stage' = [stage EXCEPT ![<<"new", n>>] = to]
  PROVE  /\ stage' \in [Tasks -> Stages]
         /\ \A m \in Names : New(m)' = (IF m = n THEN to ELSE New(m)) /\ Old(m)' = Old(m)
BY TasksAre DEF New, Old

LEMMA OldMoves ==
  ASSUME stage \in [Tasks -> Stages], NEW n \in Names, NEW to \in Stages,
         stage' = [stage EXCEPT ![<<"old", n>>] = to]
  PROVE  /\ stage' \in [Tasks -> Stages]
         /\ \A m \in Names : Old(m)' = (IF m = n THEN to ELSE Old(m)) /\ New(m)' = New(m)
BY TasksAre DEF New, Old

LEMMA GroupStarts ==
  ASSUME NEW p, NEW nodes, NEW es, StartGroup(p, nodes, es)
  PROVE  /\ phase' = p /\ edges' = es /\ outcome' = "ok"
         /\ stage' \in [Tasks -> Stages]
         /\ \A k \in Tasks : stage'[k] \in {"wait", "done"}
         /\ \A n \in Names :
              /\ New(n)' = IF <<"new", n>> \in nodes THEN "wait" ELSE "done"
              /\ Old(n)' = IF <<"old", n>> \in nodes THEN "wait" ELSE "done"
BY TasksAre DEF StartGroup, New, Old, Stages

LEMMA OldsAre ==
  ASSUME NEW dict, NEW n \in Names
  PROVE  /\ <<"old", n>> \in Olds(dict) <=> dict[n] # Nothing
         /\ <<"new", n>> \notin Olds(dict)
BY DEF Olds, Present

LEMMA NewsAre ==
  ASSUME NEW S, NEW n \in Names
  PROVE  /\ <<"new", n>> \in {"new"} \X S <=> n \in S
         /\ <<"old", n>> \notin {"new"} \X S
OBVIOUS

(* What Forget leaves. *)
LEMMA Forgets ==
  ASSUME Forget
  PROVE  /\ phase' = "idle" /\ target' = Nothing /\ rolling' = FALSE
         /\ ex' = Empty /\ prev' = Empty /\ first' = Empty
         /\ edges' = {} /\ outcome' = "ok"
         /\ stage' \in [Tasks -> Stages]
         /\ \A k \in Tasks : stage'[k] = "done"
         /\ \A n \in Names : New(n)' = "done" /\ Old(n)' = "done"
BY TasksAre DEF Forget, New, Old, Stages

LEMMA EmptyIs ==
  Empty \in Dictionary /\ \A n \in Names : Empty[n] = Nothing
BY DEF Empty, Dictionary

LEMMA CreateEdgesTyped ==
  ASSUME NEW t \in Templates
  PROVE  CreateEdges(t) \subseteq Tasks \X Tasks
<1>1. DOMAIN t \subseteq Names
  BY TemplatesAssumption
<1> QED BY <1>1 DEF CreateEdges, Tasks

LEMMA DestroyEdgesTyped ==
  ASSUME NEW r, NEW dict
  PROVE  DestroyEdges(r, dict) \subseteq Tasks \X Tasks
BY DEF DestroyEdges, Tasks, Present

LEMMA UpdateEdgesTyped ==
  ASSUME NEW r, NEW dict, NEW t \in Templates
  PROVE  UpdateEdges(r, dict, t) \subseteq Tasks \X Tasks
<1>1. {<<<<"old", n>>, <<"new", n>>>> : n \in Present(dict) \cap DOMAIN t} \subseteq Tasks \X Tasks
  BY DEF Tasks, Present
<1> QED BY <1>1, CreateEdgesTyped, DestroyEdgesTyped DEF UpdateEdges

(* An old resource is cleaned up after its replacement. *)
LEMMA ReplacedFirst ==
  ASSUME NEW r, NEW dict, NEW t, NEW n \in Names, dict[n] # Nothing, n \in DOMAIN t
  PROVE  <<<<"old", n>>, <<"new", n>>>> \in UpdateEdges(r, dict, t)
BY DEF UpdateEdges, Present

(* What refers to a resource is destroyed before it. *)
LEMMA ReferringFirst ==
  ASSUME NEW r, NEW dict, NEW t, NEW n \in Names, NEW m \in Names,
         dict[n] # Nothing, dict[m] # Nothing, n \in Needs(r[dict[m]].def)
  PROVE  <<<<"old", n>>, <<"old", m>>>> \in UpdateEdges(r, dict, t)
<1>1. <<n, m>> \in Present(dict) \X Present(dict)
  BY DEF Present
<1>2. <<<<"old", n>>, <<"old", m>>>> \in DestroyEdges(r, dict)
  BY <1>1 DEF DestroyEdges
<1> QED BY <1>2 DEF UpdateEdges

-----------------------------------------------------------------------------
(***************************************************************************)
(* Types.  The dictionaries of an operation lead to rows of their stacks   *)
(* and names, and a task is at a stage that fits what the dictionaries     *)
(* hold for its name.                                                      *)
(***************************************************************************)
Typed ==
  /\ stack \in StackType \cup {Nothing}
  /\ backup \in Templates \cup {Nothing}
  /\ row \in RowMap
  /\ phys \subseteq Ids
  /\ ex \in Dictionary /\ prev \in Dictionary /\ first \in Dictionary
  /\ stage \in [Tasks -> Stages]
  /\ phase \in Phases
  /\ target \in Templates \cup {Nothing}
  /\ rolling \in BOOLEAN
  /\ edges \subseteq Tasks \X Tasks
  /\ outcome \in {"ok", "failure", "timeout"}
  /\ ops \in 0..MaxOps
  /\ torn \subseteq Incidents

LEMMA TypedIs == Typed <=> TypeOK
BY DEF Typed, TypeOK, RowMap

LinkedAt(n) ==
  /\ ex[n] # Nothing => At("main", n, ex[n])
  /\ prev[n] # Nothing => At("backup", n, prev[n])

Linked == \A n \in Names : LinkedAt(n)

Placed ==
  /\ phase # "idle" => stack # Nothing
  /\ phase \in {"create", "clean", "update", "trim", "flip"} => target \in Templates
  /\ phase \in {"clean", "update", "trim", "unback"} => backup # Nothing
  /\ phase \in {"idle", "create"} => prev = Empty
  /\ phase = "idle" => ex = Empty
  /\ phase \in {"idle", "flip"} /\ outcome = "ok" =>
       \A n \in Names : New(n) = "done" /\ Old(n) = "done"

Staged ==
  \A n \in Names :
    /\ New(n) # "destroying" /\ Old(n) \in {"wait", "destroying", "done"}
    /\ phase \in {"idle", "clean", "trim", "unback", "delete"} => New(n) = "done"
    /\ phase \in {"create", "update"} /\ New(n) # "done" => n \in DOMAIN target
    /\ phase = "create" => /\ New(n) \in {"wait", "creating", "done"}
                           /\ New(n) = "wait" => ex[n] = Nothing
    /\ New(n) \in {"updating", "creating"} => ex[n] # Nothing
    /\ New(n) = "purging" => prev[n] # Nothing
    /\ New(n) = "replace" => ex[n] # Nothing \/ prev[n] = Nothing
    /\ phase \in {"idle", "create"} => Old(n) = "done"
    /\ phase # "flip" /\ Old(n) = "destroying" => Doomed(n) # Nothing
    /\ phase \in {"clean", "trim", "unback", "delete"} /\ Old(n) = "done" =>
         Doomed(n) = Nothing
    /\ phase = "update" /\ Old(n) # "done" /\ n \in DOMAIN target =>
         <<<<"old", n>>, <<"new", n>>>> \in edges

(* A task at work has all it requires. *)
Ordered ==
  \A k, j \in Tasks :
    <<k, j>> \in edges /\ stage[k] \notin {"wait", "done"} => stage[j] = "done"

Fits == Placed /\ Staged /\ Ordered

Sound == Typed /\ Linked /\ Fits

LEMMA LinkedKept ==
  ASSUME Typed, Linked, SameShape(row, row'), UNCHANGED <<ex, prev>>
  PROVE  Linked'
BY DEF Typed, Linked, LinkedAt, SameShape, At, Dictionary

LEMMA DoomedLinked ==
  ASSUME Typed, Linked, NEW n \in Names, Doomed(n) # Nothing
  PROVE  Doomed(n) \in Ids /\ row[Doomed(n)] # Nothing /\ row[Doomed(n)].name = n
         /\ Doomed(n) \in {ex[n], prev[n]}
BY DEF Typed, Linked, LinkedAt, At, Doomed, Dictionary

LEMMA ExLinked ==
  ASSUME Typed, Linked, NEW n \in Names, ex[n] # Nothing
  PROVE  /\ ex[n] \in Ids /\ row[ex[n]] # Nothing
         /\ row[ex[n]].name = n /\ row[ex[n]].stack = "main"
         /\ \A m \in Names : /\ prev[m] # ex[n]
                             /\ m # n => ex[m] # ex[n]
<1>1. /\ ex[n] \in Ids /\ row[ex[n]] # Nothing
      /\ row[ex[n]].name = n /\ row[ex[n]].stack = "main"
  BY DEF Typed, Linked, LinkedAt, At, Dictionary
<1>2. \A m \in Names : prev[m] # Nothing => row[prev[m]].stack = "backup"
  BY DEF Linked, LinkedAt, At
<1>3. \A m \in Names : ex[m] # Nothing => row[ex[m]].name = m
  BY DEF Linked, LinkedAt, At
<1> QED BY <1>1, <1>2, <1>3

LEMMA PrevLinked ==
  ASSUME Typed, Linked, NEW n \in Names, prev[n] # Nothing
  PROVE  /\ prev[n] \in Ids /\ row[prev[n]] # Nothing
         /\ row[prev[n]].name = n /\ row[prev[n]].stack = "backup"
         /\ \A m \in Names : /\ ex[m] # prev[n]
                             /\ m # n => prev[m] # prev[n]
<1>1. /\ prev[n] \in Ids /\ row[prev[n]] # Nothing
      /\ row[prev[n]].name = n /\ row[prev[n]].stack = "backup"
  BY DEF Typed, Linked, LinkedAt, At, Dictionary
<1>2. \A m \in Names : ex[m] # Nothing => row[ex[m]].stack = "main"
  BY DEF Linked, LinkedAt, At
<1>3. \A m \in Names : prev[m] # Nothing => row[prev[m]].name = m
  BY DEF Linked, LinkedAt, At
<1> QED BY <1>1, <1>2, <1>3

LEMMA CutLinked ==
  ASSUME Typed, Linked
  PROVE  \A i \in Ids : i \in Cut => row[i] # Nothing
<1> SUFFICES ASSUME NEW i \in Ids, i \in Cut PROVE row[i] # Nothing
  OBVIOUS
<1>1. i # Nothing
  BY NothingAssumption
<1>2. PICK n \in Names : i = ex[n] \/ i = prev[n] \/ i = Doomed(n)
  BY DEF Cut
<1> QED BY <1>1, <1>2, DoomedLinked, ExLinked, PrevLinked

LEMMA OrderedMove ==
  ASSUME Ordered, stage \in [Tasks -> Stages], NEW k \in Tasks, NEW from, NEW to,
         Move(k, from, to), from \notin {"wait", "done"}, UNCHANGED edges
  PROVE  Ordered'
BY DEF Ordered, Move

LEMMA OrderedStart ==
  ASSUME Ordered, stage \in [Tasks -> Stages], NEW k \in Tasks, NEW to,
         Start(k, to), UNCHANGED edges
  PROVE  Ordered'
<1>1. stage[k] = "wait" /\ stage' = [stage EXCEPT ![k] = to]
  BY DEF Start, Move
<1>2. \A j \in Tasks : stage[j] = "done" => stage'[j] = "done"
  BY <1>1
<1>3. ASSUME NEW i \in Tasks, NEW j \in Tasks, <<i, j>> \in edges, stage'[i] \notin {"wait", "done"}
      PROVE  stage'[j] = "done"
  BY <1>1, <1>2, <1>3 DEF Ordered, Start
<1> QED BY <1>3 DEF Ordered

LEMMA OrderedGroup ==
  ASSUME \A k \in Tasks : stage'[k] \in {"wait", "done"}
  PROVE  Ordered'
BY DEF Ordered

-----------------------------------------------------------------------------
(***************************************************************************)
(* The steps of tasks that leave the dictionaries alone.                   *)
(***************************************************************************)
Others == <<stack, backup, phase, target, rolling, first, edges, ops, torn>>

LEMMA NewSteps ==
  ASSUME Sound, NEW n \in Names, phase \in {"create", "update"}, n \in DOMAIN target,
         NEW from, NEW to \in {"updating", "replace", "purging", "creating", "done"},
         \/ Move(<<"new", n>>, from, to) /\ from \notin {"wait", "done"}
         \/ Start(<<"new", n>>, to),
         row' \in RowMap, SameShape(row, row'), outcome' \in {"ok", "failure"},
         UNCHANGED Others, UNCHANGED <<phys, ex, prev>>,
         phase = "create" => to = "done",
         to \in {"updating", "creating"} => ex[n] # Nothing,
         to = "purging" => prev[n] # Nothing,
         to = "replace" => ex[n] # Nothing \/ prev[n] = Nothing
  PROVE  Sound'
<1>1. stage' = [stage EXCEPT ![<<"new", n>>] = to]
  BY DEF Start, Move
<1>2. /\ stage' \in [Tasks -> Stages]
      /\ \A m \in Names : New(m)' = (IF m = n THEN to ELSE New(m)) /\ Old(m)' = Old(m)
  BY <1>1, NewMoves DEF Sound, Typed, Stages
<1>3. Typed'
  BY <1>2 DEF Sound, Typed, Others
<1>4. Linked'
  BY LinkedKept DEF Sound
<1>5. Placed'
  BY DEF Sound, Fits, Placed, Others
<1>6. \A m \in Names : Doomed(m)' = Doomed(m)
  BY DEF Doomed, Others
<1>7. Staged'
  BY <1>2, <1>6 DEF Sound, Fits, Staged, Others
<1>8. Ordered'
  BY TasksAre, OrderedMove, OrderedStart DEF Sound, Fits, Typed, Others
<1> QED BY <1>3, <1>4, <1>5, <1>7, <1>8 DEF Sound, Fits

LEMMA UnchangedSound ==
  ASSUME Sound, NEW n \in Names, phase \in {"create", "update"}, n \in DOMAIN target, Unchanged(n)
  PROVE  Sound'
<1>1. row' = row /\ row \in RowMap /\ SameShape(row, row) /\ outcome' = "ok"
  BY DEF Unchanged, Sound, Typed, db, SameShape, Start, Move
<1> QED BY <1>1, NewSteps DEF Unchanged, db, Others

LEMMA UpdateRefusedSound ==
  ASSUME Sound, NEW n \in Names, phase \in {"create", "update"}, n \in DOMAIN target, UpdateRefused(n)
  PROVE  Sound'
<1>1. row' = row /\ row \in RowMap /\ SameShape(row, row) /\ outcome' = "failure"
  BY DEF UpdateRefused, Sound, Typed, db, SameShape
<1> QED BY <1>1, NewSteps DEF UpdateRefused, db, Others

LEMMA StartUpdateSound ==
  ASSUME Sound, NEW n \in Names, phase \in {"create", "update"}, n \in DOMAIN target, StartUpdate(n)
  PROVE  Sound' /\ SameShape(row, row') /\ SameDefs(row, row')
<1>1. ex[n] # Nothing /\ ex[n] \in Ids /\ row[ex[n]] # Nothing
  BY ExLinked DEF StartUpdate, Sound
<1>2. row' \in RowMap /\ SameShape(row, row') /\ SameDefs(row, row') /\ outcome' = "ok"
  BY <1>1, SetShape DEF StartUpdate, Sound, Typed, Start, Move
<1>3. phase # "create"
  BY <1>1 DEF StartUpdate, Start, Move, Sound, Fits, Staged, New
<1> QED BY <1>1, <1>2, <1>3, NewSteps DEF StartUpdate, Others

LEMMA UpdatedInPlaceSound ==
  ASSUME Sound, NEW n \in Names, phase \in {"create", "update"}, n \in DOMAIN target, UpdatedInPlace(n)
  PROVE  /\ Sound' /\ SameShape(row, row')
         /\ ex[n] # Nothing /\ row'[ex[n]].def = target[n]
         /\ \A j \in Ids \ {ex[n]} : row'[j] = row[j]
<1>1. New(n) = "updating" /\ outcome' = "ok"
  BY DEF UpdatedInPlace, Move, New
<1>2. ex[n] # Nothing /\ ex[n] \in Ids /\ row[ex[n]] # Nothing
  BY <1>1, ExLinked DEF Sound, Fits, Staged
<1>3. target[n] \in Definitions
  BY DEF Sound, Fits, Placed, Definitions
<1> DEFINE r == Set(row, ex[n], "UPDATE", "COMPLETE")
<1>4. r \in RowMap /\ SameShape(row, r) /\ \A j \in Ids \ {ex[n]} : r[j] = row[j]
  BY <1>2, SetShape DEF Sound, Typed
<1>5. r[ex[n]] # Nothing
  BY <1>2, <1>4 DEF SameShape
<1>6. /\ row' \in RowMap /\ SameShape(r, row') /\ row'[ex[n]].def = target[n]
      /\ \A j \in Ids \ {ex[n]} : row'[j] = r[j]
  <2>1. row' = Redefine(r, ex[n], target[n])
    BY DEF UpdatedInPlace, Redefine
  <2> HIDE DEF r
  <2> QED BY <2>1, <1>2, <1>3, <1>4, <1>5, RedefineShape
<1>7. SameShape(row, row')
  BY <1>4, <1>6 DEF SameShape
<1> QED BY <1>1, <1>2, <1>4, <1>6, <1>7, NewSteps DEF UpdatedInPlace, Others

LEMMA UpdateReplaceSound ==
  ASSUME Sound, NEW n \in Names, phase \in {"create", "update"}, n \in DOMAIN target, UpdateReplace(n)
  PROVE  Sound'
<1>1. row' = row /\ row \in RowMap /\ SameShape(row, row) /\ outcome' = "ok"
  BY DEF UpdateReplace, Sound, Typed, db, SameShape, Move
<1>2. ex[n] # Nothing
  BY DEF UpdateReplace, Move, Sound, Fits, Staged, New
<1>3. phase # "create"
  BY DEF UpdateReplace, Move, Sound, Fits, Staged, New
<1> QED BY <1>1, <1>2, <1>3, NewSteps DEF UpdateReplace, db, Others

LEMMA PurgeSound ==
  ASSUME Sound, NEW n \in Names, phase \in {"create", "update"}, n \in DOMAIN target, Purge(n)
  PROVE  Sound' /\ SameShape(row, row') /\ SameDefs(row, row')
<1>1. prev[n] # Nothing /\ prev[n] \in Ids /\ row[prev[n]] # Nothing
  BY PrevLinked DEF Purge, Sound
<1>2. row' \in RowMap /\ SameShape(row, row') /\ SameDefs(row, row') /\ outcome' = "ok"
  BY <1>1, SetShape DEF Purge, Sound, Typed, Start, Move
<1>3. phase # "create"
  BY <1>1, EmptyIs DEF Sound, Fits, Placed
<1> QED BY <1>1, <1>2, <1>3, NewSteps DEF Purge, Others

LEMMA CreatedSound ==
  ASSUME Sound, NEW n \in Names, phase \in {"create", "update"}, n \in DOMAIN target, Created(n)
  PROVE  /\ Sound' /\ SameShape(row, row') /\ SameDefs(row, row')
         /\ ex[n] # Nothing /\ row'[ex[n]].status = "COMPLETE"
         /\ \A j \in Ids \ {ex[n]} : row'[j] = row[j]
<1>1. ex[n] # Nothing
  BY DEF Created, Move, Sound, Fits, Staged, New
<1>2. ex[n] \in Ids /\ row[ex[n]] # Nothing
  BY <1>1, ExLinked DEF Sound
<1>3. /\ row' \in RowMap /\ SameShape(row, row') /\ SameDefs(row, row') /\ outcome' = "ok"
      /\ row'[ex[n]].status = "COMPLETE"
      /\ \A j \in Ids \ {ex[n]} : row'[j] = row[j]
  BY <1>2, SetShape DEF Created, Sound, Typed, Move
<1> QED BY <1>1, <1>3, NewSteps DEF Created, Others

LEMMA OldSteps ==
  ASSUME Sound, NEW n \in Names, NEW to \in {"destroying", "done"}, Start(<<"old", n>>, to),
         row' \in RowMap, SameShape(row, row'),
         UNCHANGED Others, UNCHANGED <<phys, ex, prev, outcome>>,
         Doomed(n) = Nothing <=> to = "done"
  PROVE  Sound'
<1>1. stage' = [stage EXCEPT ![<<"old", n>>] = to] /\ Old(n) = "wait" /\ outcome = "ok"
  BY DEF Start, Move, Old
<1>2. /\ stage' \in [Tasks -> Stages]
      /\ \A m \in Names : Old(m)' = (IF m = n THEN to ELSE Old(m)) /\ New(m)' = New(m)
  BY <1>1, OldMoves DEF Sound, Typed, Stages
<1>3. Typed'
  BY <1>2 DEF Sound, Typed, Others
<1>4. Linked'
  BY LinkedKept DEF Sound
<1>5. phase \notin {"idle", "flip", "create"}
  BY <1>1 DEF Sound, Fits, Placed, Staged
<1>6. Placed'
  BY <1>5 DEF Sound, Fits, Placed, Others
<1>7. \A m \in Names : Doomed(m)' = Doomed(m)
  BY DEF Doomed, Others
<1>8. Staged'
  BY <1>1, <1>2, <1>5, <1>7 DEF Sound, Fits, Staged, Others
<1>9. Ordered'
  BY TasksAre, OrderedStart DEF Sound, Fits, Typed, Others
<1> QED BY <1>3, <1>4, <1>6, <1>8, <1>9 DEF Sound, Fits

LEMMA StartDestroySound ==
  ASSUME Sound, NEW n \in Names, StartDestroy(n)
  PROVE  Sound' /\ SameShape(row, row') /\ SameDefs(row, row')
<1>1. Doomed(n) # Nothing /\ Doomed(n) \in Ids /\ row[Doomed(n)] # Nothing
  BY DoomedLinked DEF StartDestroy, Sound
<1>2. row' \in RowMap /\ SameShape(row, row') /\ SameDefs(row, row')
  BY <1>1, SetShape DEF StartDestroy, Sound, Typed
<1> QED BY <1>1, <1>2, OldSteps DEF StartDestroy, Others

LEMMA NothingToDestroySound ==
  ASSUME Sound, NEW n \in Names, NothingToDestroy(n)
  PROVE  Sound'
<1>1. row' = row /\ row \in RowMap /\ SameShape(row, row)
  BY DEF NothingToDestroy, Sound, Typed, db, SameShape
<1> QED BY <1>1, OldSteps DEF NothingToDestroy, db, Others

(* Failures and the timeout. *)
LEMMA FailSound ==
  ASSUME Sound, NEW kind, NEW r, NEW how \in {"failure", "timeout"}, Fail(kind, r, how),
         r \in RowMap, SameShape(row, r)
  PROVE  Sound'
<1>1. stage' = stage /\ row' = r /\ outcome' = how /\ UNCHANGED Others /\ UNCHANGED <<phys, ex, prev>>
  BY DEF Fail, Others
<1>2. Typed'
  BY <1>1 DEF Sound, Typed, Others
<1>3. Linked'
  BY <1>1, LinkedKept DEF Sound
<1>4. \A m \in Names : Doomed(m)' = Doomed(m) /\ New(m)' = New(m) /\ Old(m)' = Old(m)
  BY <1>1 DEF Doomed, New, Old, Others
<1>5. Placed'
  BY <1>1, <1>4 DEF Sound, Fits, Placed, Others
<1>6. Staged'
  BY <1>1, <1>4 DEF Sound, Fits, Staged, Others
<1>7. Ordered'
  BY <1>1 DEF Sound, Fits, Ordered, Others
<1> QED BY <1>2, <1>3, <1>5, <1>6, <1>7 DEF Sound, Fits

LEMMA Failures ==
  ASSUME Sound, Timeout \/ \E n \in Names : CreateFails(n) \/ UpdateFails(n) \/ DestroyFails(n)
  PROVE  /\ Sound' /\ SameShape(row, row') /\ SameDefs(row, row')
         /\ outcome = "ok" /\ outcome' # "ok"
         /\ UNCHANGED Others /\ UNCHANGED <<phys, ex, prev, stage>>
         /\ ~Finished
<1>1. Aborted \in RowMap /\ SameShape(row, Aborted) /\ SameDefs(row, Aborted)
  BY AbortedShape, CutLinked DEF Sound, Typed
<1>2. ASSUME NEW n \in Names, stage[<<"new", n>>] = "updating"
      PROVE  LET r == Set(Aborted, ex[n], "UPDATE", "FAILED") IN
             r \in RowMap /\ SameShape(row, r) /\ SameDefs(row, r)
  <2>1. ex[n] \in Ids /\ row[ex[n]] # Nothing
    BY <1>2, ExLinked DEF Sound, Fits, Staged, New
  <2>2. Aborted[ex[n]] # Nothing
    BY <1>1, <2>1 DEF SameShape
  <2> DEFINE r == Set(Aborted, ex[n], "UPDATE", "FAILED")
  <2>3. r \in RowMap /\ SameShape(Aborted, r) /\ SameDefs(Aborted, r)
    BY <1>1, <2>1, <2>2, SetShape
  <2> QED BY <1>1, <2>3 DEF SameShape, SameDefs
<1> DEFINE Failing(kind, r, how) ==
             /\ Fail(kind, r, how) /\ r \in RowMap /\ SameShape(row, r) /\ SameDefs(row, r)
             /\ how \in {"failure", "timeout"} /\ ~Finished
<1>3. PICK kind, r, how : Failing(kind, r, how)
  <2>1. CASE Timeout
    <3>1. Failing("timeout", Aborted, "timeout")
      BY <1>1, <2>1 DEF Timeout
    <3> QED BY <3>1
  <2>2. ASSUME NEW n \in Names, CreateFails(n) \/ DestroyFails(n) PROVE \E kind, r, how : Failing(kind, r, how)
    <3>1. ~Finished
      BY <2>2, TasksAre DEF CreateFails, DestroyFails, Finished
    <3>2. Failing("create", Aborted, "failure") \/ Failing("delete", Aborted, "failure")
      BY <1>1, <2>2, <3>1 DEF CreateFails, DestroyFails
    <3> QED BY <3>2
  <2>3. ASSUME NEW n \in Names, UpdateFails(n) PROVE \E kind, r, how : Failing(kind, r, how)
    <3>1. ~Finished
      BY <2>3, TasksAre DEF UpdateFails, Finished
    <3>2. Failing("update", Set(Aborted, ex[n], "UPDATE", "FAILED"), "failure")
      BY <1>2, <2>3, <3>1 DEF UpdateFails
    <3> QED BY <3>2
  <2> QED BY <2>1, <2>2, <2>3
<1>4. Sound'
  BY <1>3, FailSound
<1> QED BY <1>3, <1>4 DEF Fail, Others

-----------------------------------------------------------------------------
(***************************************************************************)
(* The steps of tasks that change the dictionaries.                        *)
(***************************************************************************)
LEMMA OldWaits ==
  ASSUME Sound, NEW n \in Names, phase # "flip", Old(n) = "destroying"
  PROVE  New(n) = "done"
<1>1. phase \in Phases
  BY DEF Sound, Typed
<1>2. phase \notin {"idle", "create"}
  BY DEF Sound, Fits, Staged
<1>3. CASE phase = "update" /\ n \in DOMAIN target
  <2>1. <<<<"old", n>>, <<"new", n>>>> \in edges
    BY <1>3 DEF Sound, Fits, Staged
  <2> QED BY <2>1, TasksAre DEF Sound, Fits, Ordered, Old, New
<1>4. CASE phase = "update" /\ n \notin DOMAIN target
  BY <1>4 DEF Sound, Fits, Staged
<1>5. CASE phase \in {"clean", "trim", "unback", "delete"}
  BY <1>5 DEF Sound, Fits, Staged
<1> QED BY <1>1, <1>2, <1>3, <1>4, <1>5 DEF Phases

(* What a step of a new task must show when it changes the dictionaries    *)
(* for its name.                                                           *)
LEMMA NewChanges ==
  ASSUME Sound, NEW n \in Names, phase \in {"create", "update"}, n \in DOMAIN target,
         NEW from, NEW to \in {"replace", "creating", "done"}, from # "done",
         stage[<<"new", n>>] = from,
         \/ Move(<<"new", n>>, from, to) /\ from \notin {"wait", "done"}
         \/ Start(<<"new", n>>, to),
         row' \in RowMap, Linked', phys' \subseteq Ids,
         ex' \in Dictionary, prev' \in Dictionary,
         \A m \in Names \ {n} : ex'[m] = ex[m] /\ prev'[m] = prev[m],
         UNCHANGED Others, UNCHANGED outcome,
         phase = "create" => to # "replace" /\ prev'[n] = Nothing,
         to = "creating" => ex'[n] # Nothing,
         to = "replace" => prev'[n] = Nothing
  PROVE  Sound'
<1>1. stage' = [stage EXCEPT ![<<"new", n>>] = to]
  BY DEF Start, Move
<1>2. /\ stage' \in [Tasks -> Stages]
      /\ \A m \in Names : New(m)' = (IF m = n THEN to ELSE New(m)) /\ Old(m)' = Old(m)
  BY <1>1, NewMoves DEF Sound, Typed, Stages
<1>3. Typed'
  BY <1>2 DEF Sound, Typed, Others
<1>4. Placed'
  <2>1. phase' \in {"create", "update"} /\ stack' # Nothing /\ target' \in Templates
    BY DEF Sound, Fits, Placed, Others
  <2>2. phase' = "update" => backup' # Nothing
    BY DEF Sound, Fits, Placed, Others
  <2>3. ASSUME phase = "create" PROVE prev' = Empty
    <3>1. prev = Empty /\ prev'[n] = Nothing
      BY <2>3 DEF Sound, Fits, Placed
    <3>2. \A m \in Names : prev'[m] = Nothing
      BY <3>1, EmptyIs
    <3> QED BY <3>2 DEF Empty, Dictionary
  <2> QED BY <2>1, <2>2, <2>3 DEF Placed, Others
<1>5. Old(n) # "destroying"
  BY OldWaits DEF New
<1>6. \A m \in Names \ {n} : Doomed(m)' = Doomed(m)
  BY DEF Doomed, Others
<1>7. Staged'
  <2>1. ASSUME NEW m \in Names \ {n}
        PROVE  /\ New(m)' = New(m) /\ Old(m)' = Old(m) /\ ex'[m] = ex[m] /\ prev'[m] = prev[m]
               /\ Doomed(m)' = Doomed(m)
    BY <1>2, <1>6
  <2>2. phase' = phase /\ target' = target /\ edges' = edges
    BY DEF Others
  <2>3. New(n)' = to /\ Old(n)' = Old(n)
    BY <1>2
  <2> QED BY <2>1, <2>2, <2>3, <1>5 DEF Sound, Fits, Staged
<1>8. Ordered'
  BY TasksAre, OrderedMove, OrderedStart DEF Sound, Fits, Typed, Others
<1> QED BY <1>3, <1>4, <1>7, <1>8 DEF Sound, Fits

(* What SwapIn does: the two rows change places. *)
LEMMA SwapInSound ==
  ASSUME Sound, NEW n \in Names, phase \in {"create", "update"}, n \in DOMAIN target, SwapIn(n)
  PROVE  /\ Sound' /\ phase = "update"
         /\ ex[n] # Nothing /\ prev[n] # Nothing /\ ex[n] \in Ids /\ prev[n] \in Ids
         /\ ex'[n] = prev[n] /\ prev'[n] = ex[n] /\ ex[n] # prev[n]
         /\ \A m \in Names \ {n} : ex'[m] = ex[m] /\ prev'[m] = prev[m]
         /\ row'[prev[n]] # Nothing /\ row'[prev[n]].stack = "main"
         /\ row'[prev[n]].name = n /\ row'[prev[n]].def = row[prev[n]].def
         /\ row'[ex[n]] # Nothing /\ row'[ex[n]].stack = "backup"
         /\ row'[ex[n]].name = n
         /\ \A j \in Ids \ {ex[n], prev[n]} : row'[j] = row[j]
<1>1. prev[n] # Nothing /\ New(n) = "replace" /\ outcome' = outcome
  BY DEF SwapIn, Move, New
<1>2. ex[n] # Nothing
  BY <1>1 DEF Sound, Fits, Staged
<1>3. /\ ex[n] \in Ids /\ row[ex[n]] # Nothing
      /\ row[ex[n]].name = n /\ row[ex[n]].stack = "main"
      /\ \A m \in Names : prev[m] # ex[n] /\ (m # n => ex[m] # ex[n])
  BY <1>2, ExLinked DEF Sound
<1>4. /\ prev[n] \in Ids /\ row[prev[n]] # Nothing
      /\ row[prev[n]].name = n /\ row[prev[n]].stack = "backup"
      /\ \A m \in Names : ex[m] # prev[n] /\ (m # n => prev[m] # prev[n])
  BY <1>1, PrevLinked DEF Sound
<1>5. phase = "update"
  BY <1>1, EmptyIs DEF Sound, Fits, Placed
<1> DEFINE r == MoveRow(row, prev[n], "main")
<1>6. row' = MoveRow(r, ex[n], "backup")
  BY DEF SwapIn, MoveRow
<1>7. /\ r \in RowMap /\ r[prev[n]] # Nothing /\ r[prev[n]].stack = "main"
      /\ r[prev[n]].name = n /\ r[prev[n]].def = row[prev[n]].def
      /\ \A j \in Ids \ {prev[n]} : r[j] = row[j]
  BY <1>4, MoveRowShape DEF Sound, Typed
<1>8. r[ex[n]] = row[ex[n]]
  BY <1>3, <1>7
<1> HIDE DEF r
<1>9. /\ row' \in RowMap /\ row'[ex[n]] # Nothing /\ row'[ex[n]].stack = "backup"
      /\ row'[ex[n]].name = n
      /\ \A j \in Ids \ {ex[n]} : row'[j] = r[j]
  BY <1>3, <1>6, <1>7, <1>8, MoveRowShape
<1>10. /\ ex' = [ex EXCEPT ![n] = prev[n]] /\ prev' = [prev EXCEPT ![n] = ex[n]]
       /\ ex \in Dictionary /\ prev \in Dictionary
  BY DEF SwapIn, Sound, Typed
<1>11. /\ ex'[n] = prev[n] /\ prev'[n] = ex[n]
       /\ \A m \in Names \ {n} : ex'[m] = ex[m] /\ prev'[m] = prev[m]
       /\ ex' \in Dictionary /\ prev' \in Dictionary
  BY <1>3, <1>4, <1>10 DEF Dictionary
<1>12. /\ row'[prev[n]] # Nothing /\ row'[prev[n]].stack = "main"
       /\ row'[prev[n]].name = n /\ row'[prev[n]].def = row[prev[n]].def
       /\ \A j \in Ids \ {ex[n], prev[n]} : row'[j] = row[j]
  BY <1>3, <1>4, <1>7, <1>9
<1>13. Linked'
  <2>1. ASSUME NEW m \in Names, m # n
        PROVE  LinkedAt(m)'
    <3>1. ex'[m] = ex[m] /\ prev'[m] = prev[m] /\ ex[m] \in Ids \cup {Nothing} /\ prev[m] \in Ids \cup {Nothing}
      BY <1>11, <2>1, <1>10 DEF Dictionary
    <3>2. ex[m] \notin {ex[n], prev[n]} /\ prev[m] \notin {ex[n], prev[n]}
      BY <1>3, <1>4, <2>1
    <3> QED BY <3>1, <3>2, <1>12 DEF Sound, Linked, LinkedAt, At
  <2>2. LinkedAt(n)'
    BY <1>9, <1>11, <1>12 DEF LinkedAt, At
  <2> QED BY <2>1, <2>2 DEF Linked
<1>14. Sound'
  BY <1>1, <1>5, <1>9, <1>11, <1>13, NewChanges DEF SwapIn, Others, Sound, Typed, New
<1> QED BY <1>1, <1>2, <1>3, <1>4, <1>5, <1>9, <1>11, <1>12, <1>14

LEMMA PurgedSound ==
  ASSUME Sound, NEW n \in Names, phase \in {"create", "update"}, n \in DOMAIN target, Purged(n)
  PROVE  /\ Sound'
         /\ prev[n] # Nothing /\ prev[n] \in Ids /\ row'[prev[n]] = Nothing
         /\ prev'[n] = Nothing /\ \A m \in Names \ {n} : prev'[m] = prev[m]
         /\ \A j \in Ids \ {prev[n]} : row'[j] = row[j]
<1>1. New(n) = "purging" /\ outcome' = outcome
  BY DEF Purged, Move, New
<1>2. prev[n] # Nothing
  BY <1>1 DEF Sound, Fits, Staged
<1>3. /\ prev[n] \in Ids
      /\ \A m \in Names : ex[m] # prev[n] /\ (m # n => prev[m] # prev[n])
  BY <1>2, PrevLinked DEF Sound
<1>4. /\ row' = [row EXCEPT ![prev[n]] = Nothing] /\ row \in RowMap
      /\ prev' = [prev EXCEPT ![n] = Nothing] /\ prev \in Dictionary /\ ex' = ex
  BY DEF Purged, Sound, Typed
<1>5. /\ row' \in RowMap /\ row'[prev[n]] = Nothing
      /\ \A j \in Ids \ {prev[n]} : row'[j] = row[j]
  BY <1>3, <1>4 DEF RowMap
<1>6. /\ prev'[n] = Nothing /\ \A m \in Names \ {n} : prev'[m] = prev[m]
      /\ prev' \in Dictionary
  BY <1>4 DEF Dictionary
<1>7. Linked'
  <2>1. ASSUME NEW m \in Names
        PROVE  LinkedAt(m)'
    <3>1. ex[m] \in Ids \cup {Nothing} /\ prev[m] \in Ids \cup {Nothing}
      BY DEF Sound, Typed, Dictionary
    <3>2. ex[m] # prev[n] /\ (m # n => prev[m] # prev[n])
      BY <1>3
    <3> QED BY <1>4, <1>5, <1>6, <3>1, <3>2 DEF Sound, Linked, LinkedAt, At
  <2> QED BY <2>1 DEF Linked
<1>8. phase # "create"
  BY <1>1 DEF Sound, Fits, Staged
<1>9. phys' \subseteq Ids
  BY DEF Purged, Sound, Typed
<1>10. Move(<<"new", n>>, "purging", "replace") /\ UNCHANGED Others /\ stage[<<"new", n>>] = "purging"
  BY DEF Purged, Others, Move
<1>11. ex' \in Dictionary
  BY <1>4 DEF Sound, Typed
<1>12. Sound'
  BY <1>1, <1>4, <1>5, <1>6, <1>7, <1>8, <1>9, <1>10, <1>11, NewChanges
<1> QED BY <1>2, <1>3, <1>5, <1>6, <1>12

(* What Create does: the existing row, if there is one, goes to the backup *)
(* stack, and a new one takes its place.                                   *)
LEMMA CreateSound ==
  ASSUME Sound, NEW n \in Names, phase \in {"create", "update"}, n \in DOMAIN target, Create(n)
  PROVE  /\ Sound'
         /\ Fresh \in Ids /\ row[Fresh] = Nothing
         /\ ex'[n] = Fresh /\ prev'[n] = ex[n]
         /\ \A m \in Names \ {n} : ex'[m] = ex[m] /\ prev'[m] = prev[m]
         /\ row'[Fresh] # Nothing /\ row'[Fresh].stack = "main"
         /\ row'[Fresh].name = n /\ row'[Fresh].def = target[n]
         /\ ex[n] # Nothing =>
              /\ ex[n] \in Ids /\ row'[ex[n]] # Nothing /\ row'[ex[n]].stack = "backup"
              /\ row'[ex[n]].name = n
         /\ \A j \in Ids : j # ex[n] /\ j # Fresh => row'[j] = row[j]
<1>1. prev[n] = Nothing /\ New(n) \in {"wait", "replace"} /\ outcome' = outcome
  BY DEF Create, Start, Move, New
<1>2. Fresh \in Ids /\ row[Fresh] = Nothing
  BY DEF Create, Fresh, Free
<1> DEFINE e == ex[n]
           f == Fresh
           u == Set(row, e, "UPDATE", "COMPLETE")
           kept == IF e = Nothing THEN row ELSE MoveRow(u, e, "backup")
           rec == [stack |-> "main", name |-> n, def |-> target[n],
                   action |-> "CREATE", status |-> "IN_PROGRESS"]
<1>3. row' = [kept EXCEPT ![f] = rec]
  BY DEF Create, MoveRow
<1>4. rec \in RowType
  <2>1. target[n] \in Definitions
    BY DEF Sound, Fits, Placed, Definitions
  <2> QED BY <2>1 DEF RowType
<1>5. e # Nothing =>
        /\ e \in Ids /\ row[e] # Nothing /\ row[e].name = n /\ row[e].stack = "main"
        /\ \A m \in Names : prev[m] # e /\ (m # n => ex[m] # e)
  BY ExLinked DEF Sound
<1>6. /\ kept \in RowMap
      /\ \A j \in Ids : j # e => kept[j] = row[j]
      /\ e # Nothing => kept[e] # Nothing /\ kept[e].stack = "backup" /\ kept[e].name = n
  <2>1. CASE e = Nothing
    BY <2>1 DEF Sound, Typed
  <2>2. CASE e # Nothing
    <3>1. u \in RowMap /\ SameShape(row, u) /\ \A j \in Ids \ {e} : u[j] = row[j]
      BY <1>5, <2>2, SetShape DEF Sound, Typed
    <3>2. u[e] # Nothing /\ u[e].name = n
      BY <1>5, <2>2, <3>1 DEF SameShape
    <3> HIDE DEF u
    <3>3. LET q == MoveRow(u, e, "backup") IN
          /\ q \in RowMap /\ q[e] # Nothing /\ q[e].stack = "backup" /\ q[e].name = n
          /\ \A j \in Ids \ {e} : q[j] = u[j]
      BY <1>5, <2>2, <3>1, <3>2, MoveRowShape
    <3> QED BY <2>2, <3>1, <3>3
  <2> QED BY <2>1, <2>2
<1>7. e # f
  BY <1>2, <1>5, NothingAssumption
<1> HIDE DEF kept
<1>8. row' \in RowMap /\ row'[f] = rec /\ \A j \in Ids \ {f} : row'[j] = kept[j]
  BY <1>2, <1>3, <1>4, <1>6 DEF RowMap
<1>9. /\ row'[f] # Nothing /\ row'[f].stack = "main" /\ row'[f].name = n /\ row'[f].def = target[n]
  BY <1>4, <1>8, NothingAssumption
<1>10. /\ e # Nothing => e \in Ids /\ row'[e] # Nothing /\ row'[e].stack = "backup" /\ row'[e].name = n
       /\ \A j \in Ids : j # e /\ j # f => row'[j] = row[j]
  BY <1>5, <1>6, <1>7, <1>8
<1>11. /\ ex' = [ex EXCEPT ![n] = f] /\ prev' = [prev EXCEPT ![n] = e]
       /\ ex \in Dictionary /\ prev \in Dictionary
  BY DEF Create, Sound, Typed
<1> HIDE DEF e, f
<1>12. e \in Ids \cup {Nothing} /\ f \in Ids
  BY <1>2 DEF e, f, Sound, Typed, Dictionary
<1>13. /\ ex'[n] = f /\ prev'[n] = e
       /\ \A m \in Names \ {n} : ex'[m] = ex[m] /\ prev'[m] = prev[m]
       /\ ex' \in Dictionary /\ prev' \in Dictionary
  BY <1>11, <1>12 DEF Dictionary
<1>14. Linked'
  <2>1. ASSUME NEW m \in Names, m # n
        PROVE  LinkedAt(m)'
    <3>1. ex'[m] = ex[m] /\ prev'[m] = prev[m] /\ ex[m] \in Ids \cup {Nothing} /\ prev[m] \in Ids \cup {Nothing}
      BY <1>13, <2>1, <1>11 DEF Dictionary
    <3>2. /\ ex[m] # Nothing => ex[m] # e /\ row[ex[m]] # Nothing
          /\ prev[m] # Nothing => prev[m] # e /\ row[prev[m]] # Nothing
      BY <1>5, <2>1 DEF Sound, Linked, LinkedAt, At
    <3>3. /\ ex[m] # Nothing => ex[m] # f
          /\ prev[m] # Nothing => prev[m] # f
      BY <1>2, <3>2 DEF f
    <3> QED BY <3>1, <3>2, <3>3, <1>10 DEF Sound, Linked, LinkedAt, At
  <2>2. LinkedAt(n)'
    BY <1>9, <1>10, <1>13 DEF LinkedAt, At
  <2> QED BY <1>13, <2>1, <2>2 DEF Linked
<1>15. phys' \subseteq Ids /\ f # Nothing
  BY <1>12, NothingAssumption DEF Create, Sound, Typed, f
<1>16. phase = "create" => e = Nothing
  BY <1>1 DEF e, Sound, Fits, Staged
<1>17. Sound'
  <2>1. UNCHANGED Others /\ ex'[n] # Nothing
    BY <1>13, <1>15 DEF Create, Others
  <2>2. CASE Move(<<"new", n>>, "replace", "creating")
    <3>1. stage[<<"new", n>>] = "replace"
      BY <2>2 DEF Move
    <3> QED BY <1>1, <1>8, <1>13, <1>14, <1>15, <1>16, <2>1, <2>2, <3>1, NewChanges
  <2>3. CASE Start(<<"new", n>>, "creating")
    <3>1. stage[<<"new", n>>] = "wait"
      BY <2>3 DEF Start, Move
    <3> QED BY <1>1, <1>8, <1>13, <1>14, <1>15, <1>16, <2>1, <2>3, <3>1, NewChanges
  <2> QED BY <2>2, <2>3 DEF Create
<1> QED BY <1>2, <1>9, <1>10, <1>13, <1>17 DEF e, f

(* What Destroyed does: one of the two dictionaries lets go of a row. *)
LEMMA DestroyedSound ==
  ASSUME Sound, NEW n \in Names, Destroyed(n)
  PROVE  /\ Sound'
         /\ Old(n) = "destroying" /\ phase \notin {"idle", "create", "flip"}
         /\ Doomed(n) # Nothing /\ Doomed(n) \in Ids /\ row[Doomed(n)] # Nothing
         /\ row'[Doomed(n)] = Nothing
         /\ \A j \in Ids \ {Doomed(n)} : row'[j] = row[j]
         /\ \/ Doomed(n) = prev[n] /\ prev'[n] = Nothing /\ ex' = ex
            \/ Doomed(n) = ex[n] /\ ex'[n] = Nothing /\ prev' = prev
         /\ \A m \in Names \ {n} : ex'[m] = ex[m] /\ prev'[m] = prev[m]
<1>1. Old(n) = "destroying" /\ outcome = "ok" /\ outcome' = "ok"
      /\ stage' = [stage EXCEPT ![<<"old", n>>] = "wait"]
  BY DEF Destroyed, Move, Old
<1>2. phase \in Phases /\ phase \notin {"idle", "create", "flip"}
  BY <1>1 DEF Sound, Typed, Fits, Placed, Staged
<1> DEFINE d == Doomed(n)
<1>3. d # Nothing
  BY <1>1, <1>2 DEF Sound, Fits, Staged
<1>4. d \in Ids /\ row[d] # Nothing /\ d \in {ex[n], prev[n]}
  BY <1>3, DoomedLinked DEF Sound
<1>5. \A m \in Names \ {n} : ex[m] # d /\ prev[m] # d
  BY <1>3, <1>4, ExLinked, PrevLinked DEF Sound
<1> HIDE DEF d
<1>6. row' = [row EXCEPT ![d] = Nothing] /\ row \in RowMap
  BY DEF Destroyed, Sound, Typed, d
<1>7. row' \in RowMap /\ row'[d] = Nothing /\ \A j \in Ids \ {d} : row'[j] = row[j]
  BY <1>4, <1>6 DEF RowMap
<1>8. ex \in Dictionary /\ prev \in Dictionary
  BY DEF Sound, Typed
<1>9. /\ ex' \in Dictionary /\ prev' \in Dictionary
      /\ \/ d = prev[n] /\ prev'[n] = Nothing /\ ex' = ex
         \/ d = ex[n] /\ ex'[n] = Nothing /\ prev' = prev
      /\ \A m \in Names \ {n} : ex'[m] = ex[m] /\ prev'[m] = prev[m]
  <2>1. CASE d = prev[n]
    <3>1. prev' = [prev EXCEPT ![n] = Nothing] /\ ex' = ex
      BY <2>1 DEF Destroyed, d
    <3> QED BY <1>8, <2>1, <3>1 DEF Dictionary
  <2>2. CASE d # prev[n]
    <3>1. ex' = [ex EXCEPT ![n] = Nothing] /\ prev' = prev
      BY <2>2 DEF Destroyed, d
    <3> QED BY <1>4, <1>8, <2>2, <3>1 DEF Dictionary
  <2> QED BY <2>1, <2>2
<1>10. ~(ex[n] = d /\ prev[n] = d)
  BY <1>3, ExLinked DEF Sound
<1>11. Linked'
  <2>1. ASSUME NEW m \in Names, m # n
        PROVE  LinkedAt(m)'
    <3>1. ex[m] \in Ids \cup {Nothing} /\ prev[m] \in Ids \cup {Nothing}
      BY <1>8 DEF Dictionary
    <3> QED BY <1>5, <1>7, <1>9, <2>1, <3>1 DEF Sound, Linked, LinkedAt, At
  <2>2. LinkedAt(n)'
    <3>1. ex[n] \in Ids \cup {Nothing} /\ prev[n] \in Ids \cup {Nothing}
      BY <1>8 DEF Dictionary
    <3> QED BY <1>7, <1>9, <1>10, <3>1 DEF Sound, Linked, LinkedAt, At
  <2> QED BY <2>1, <2>2 DEF Linked
<1>12. UNCHANGED Others /\ phys' \subseteq Ids
  BY DEF Destroyed, Others, Sound, Typed
<1>13. /\ stage' \in [Tasks -> Stages]
       /\ \A m \in Names : Old(m)' = (IF m = n THEN "wait" ELSE Old(m)) /\ New(m)' = New(m)
  BY <1>1, OldMoves DEF Sound, Typed, Stages
<1>14. Typed'
  BY <1>1, <1>7, <1>9, <1>12, <1>13 DEF Sound, Typed, Others
<1>15. Placed'
  BY <1>2, <1>12 DEF Sound, Fits, Placed, Others
<1>16. New(n) = "done"
  BY <1>1, <1>2, OldWaits
<1>17. \A m \in Names \ {n} : Doomed(m)' = Doomed(m)
  BY <1>9, <1>12 DEF Doomed, Others
<1>18. Staged'
  <2>1. ASSUME NEW m \in Names \ {n}
        PROVE  /\ New(m)' = New(m) /\ Old(m)' = Old(m) /\ ex'[m] = ex[m] /\ prev'[m] = prev[m]
               /\ Doomed(m)' = Doomed(m)
    BY <1>9, <1>13, <1>17
  <2>2. phase' = phase /\ target' = target /\ edges' = edges
    BY <1>12 DEF Others
  <2>3. New(n)' = "done" /\ Old(n)' = "wait"
    BY <1>13, <1>16
  <2> QED BY <1>1, <1>2, <2>1, <2>2, <2>3 DEF Sound, Fits, Staged
<1>19. Ordered'
  BY <1>1, <1>12, TasksAre, OrderedMove DEF Destroyed, Sound, Fits, Typed, Others
<1> QED BY <1>1, <1>2, <1>3, <1>4, <1>7, <1>9, <1>11, <1>14, <1>15, <1>18, <1>19 DEF Sound, Fits, d

-----------------------------------------------------------------------------
(***************************************************************************)
(* The steps of operations.                                                *)
(***************************************************************************)

(* The thread is done, has been killed or is gone. *)
LEMMA ForgetSound ==
  ASSUME Sound, Forget, stack' \in StackType \cup {Nothing}, backup' \in Templates \cup {Nothing},
         row' \in RowMap, phys' \subseteq Ids, ops' \in 0..MaxOps, torn' \subseteq Incidents
  PROVE  Sound'
<1>1. Typed'
  BY Forgets, EmptyIs DEF Typed, Phases
<1>2. Linked'
  BY Forgets, EmptyIs DEF Linked, LinkedAt
<1>3. Placed'
  BY Forgets DEF Placed
<1>4. Staged'
  BY Forgets, EmptyIs DEF Staged
<1>5. Ordered'
  BY Forgets, OrderedGroup
<1> QED BY <1>1, <1>2, <1>3, <1>4, <1>5 DEF Sound, Fits

LEMMA StateIs ==
  ASSUME stack \in StackType, NEW a \in {"CREATE", "UPDATE", "ROLLBACK", "DELETE"},
         NEW s \in {"IN_PROGRESS", "COMPLETE", "FAILED"}, State(a, s)
  PROVE  /\ stack' \in StackType /\ stack' # Nothing
         /\ stack'.action = a /\ stack'.status = s
         /\ stack'.template = stack.template /\ stack'.rollback = stack.rollback
BY NothingAssumption DEF State, StackType

LEMMA StackThere ==
  ASSUME Sound, phase # "idle"
  PROVE  stack \in StackType /\ stack.template \in Templates
BY DEF Sound, Typed, Fits, Placed, StackType

(* A group of tasks that only destroy. *)
LEMMA DestroysSound ==
  ASSUME NEW p \in {"clean", "trim", "unback", "delete"}, NEW r, NEW dict,
         StartDestroys(p, r, dict),
         stack' \in StackType, backup' \in Templates \cup {Nothing},
         row' \in RowMap, phys' \subseteq Ids,
         ex' \in Dictionary, prev' \in Dictionary, first' \in Dictionary,
         target' \in Templates \cup {Nothing}, rolling' \in BOOLEAN,
         ops' \in 0..MaxOps, torn' \subseteq Incidents, Linked',
         p \in {"clean", "trim", "unback"} => backup' # Nothing /\ dict = prev',
         p = "delete" => dict = ex',
         p \in {"clean", "trim"} => target' \in Templates
  PROVE  Sound'
<1>1. /\ phase' = p /\ edges' = DestroyEdges(r, dict) /\ outcome' = "ok"
      /\ stage' \in [Tasks -> Stages]
      /\ \A k \in Tasks : stage'[k] \in {"wait", "done"}
      /\ \A n \in Names : New(n)' = "done"
                          /\ Old(n)' = IF dict[n] # Nothing THEN "wait" ELSE "done"
  <2>1. StartGroup(p, Olds(dict), DestroyEdges(r, dict))
    BY DEF StartDestroys
  <2> QED BY <2>1, GroupStarts, OldsAre
<1>2. Typed'
  BY <1>1, DestroyEdgesTyped DEF Typed, Phases
<1>3. Placed'
  BY <1>1, NothingAssumption DEF Placed
<1>4. \A n \in Names : Doomed(n)' = dict[n]
  BY <1>1 DEF Doomed
<1>5. Staged'
  BY <1>1, <1>4 DEF Staged
<1>6. Ordered'
  BY <1>1, OrderedGroup
<1> QED BY <1>2, <1>3, <1>5, <1>6 DEF Sound, Fits

(* A rollback's graph lacks no requirement of a replacement. *)
LEMMA SeveredOld ==
  ASSUME NEW k, NEW n
  PROVE  <<k, <<"new", n>>>> \notin Severed
BY DEF Severed

(* The group that brings a stack's resources to a template. *)
LEMMA AlignSound ==
  ASSUME NEW t \in Templates, NEW r, NEW X,
         \A n \in Names : <<<<"old", n>>, <<"new", n>>>> \notin X,
         StartGroup("update", Olds(ex') \cup {"new"} \X (DOMAIN t), UpdateEdges(r, ex', t) \ X),
         target' = t,
         stack' \in StackType, backup' \in Templates,
         row' \in RowMap, phys' \subseteq Ids,
         ex' \in Dictionary, prev' \in Dictionary, first' \in Dictionary,
         rolling' \in BOOLEAN, ops' \in 0..MaxOps, torn' \subseteq Incidents, Linked'
  PROVE  Sound'
<1> DEFINE nodes == Olds(ex') \cup {"new"} \X (DOMAIN t)
           es == UpdateEdges(r, ex', t) \ X
<1>1. /\ phase' = "update" /\ edges' = es /\ outcome' = "ok"
      /\ stage' \in [Tasks -> Stages]
      /\ \A k \in Tasks : stage'[k] \in {"wait", "done"}
      /\ \A n \in Names : /\ New(n)' = IF <<"new", n>> \in nodes THEN "wait" ELSE "done"
                          /\ Old(n)' = IF <<"old", n>> \in nodes THEN "wait" ELSE "done"
  BY GroupStarts
<1>2. \A n \in Names : /\ <<"new", n>> \in nodes <=> n \in DOMAIN t
                       /\ <<"old", n>> \in nodes <=> ex'[n] # Nothing
  BY OldsAre, NewsAre
<1> HIDE DEF nodes
<1>3. Typed'
  BY <1>1, UpdateEdgesTyped DEF Typed, Phases
<1>4. Placed'
  BY <1>1, NothingAssumption DEF Placed
<1>5. ASSUME NEW n \in Names, ex'[n] # Nothing, n \in DOMAIN t
      PROVE  <<<<"old", n>>, <<"new", n>>>> \in edges'
  BY <1>1, <1>5, ReplacedFirst
<1>6. Staged'
  BY <1>1, <1>2, <1>5 DEF Staged
<1>7. Ordered'
  BY <1>1, OrderedGroup
<1> QED BY <1>3, <1>4, <1>6, <1>7 DEF Sound, Fits

LEMMA BeginCreateSound ==
  ASSUME Sound, NEW t \in Templates, NEW r \in Rollbacks, BeginCreate(t, r)
  PROVE  Sound'
<1>1. phase = "idle" /\ stack = Nothing /\ target' = t /\ ops' = ops + 1 /\ ops < MaxOps
      /\ UNCHANGED <<backup, row, phys, rolling, ex, prev, first, torn>>
  BY DEF BeginCreate, Begin
<1>2. stack' \in StackType
  BY RollbacksAssumption DEF BeginCreate, StackType
<1>3. prev = Empty /\ ex = Empty
  BY <1>1 DEF Sound, Fits, Placed
<1> DEFINE nodes == {"new"} \X (DOMAIN t)
<1>4. /\ phase' = "create" /\ edges' = CreateEdges(t) /\ outcome' = "ok"
      /\ stage' \in [Tasks -> Stages]
      /\ \A k \in Tasks : stage'[k] \in {"wait", "done"}
      /\ \A n \in Names : /\ New(n)' = IF <<"new", n>> \in nodes THEN "wait" ELSE "done"
                          /\ Old(n)' = IF <<"old", n>> \in nodes THEN "wait" ELSE "done"
  BY GroupStarts DEF BeginCreate
<1>5. \A n \in Names : /\ <<"new", n>> \in nodes <=> n \in DOMAIN t
                       /\ <<"old", n>> \notin nodes
  BY NewsAre
<1> HIDE DEF nodes
<1>6. ops' \in 0..MaxOps
  BY <1>1, MaxOpsAssumption DEF Sound, Typed
<1>7. Typed'
  BY <1>1, <1>2, <1>4, <1>6, CreateEdgesTyped DEF Sound, Typed, Phases
<1>8. Linked'
  BY <1>1, <1>3, EmptyIs DEF Linked, LinkedAt
<1>9. Placed'
  BY <1>1, <1>2, <1>3, <1>4, NothingAssumption DEF Placed
<1>10. Staged'
  BY <1>1, <1>3, <1>4, <1>5, EmptyIs DEF Staged
<1>11. Ordered'
  BY <1>4, OrderedGroup
<1> QED BY <1>7, <1>8, <1>9, <1>10, <1>11 DEF Sound, Fits

LEMMA CreateEndsSound ==
  ASSUME Sound, CreateEnds
  PROVE  Sound'
<1>1. stack' \in StackType
  BY StackThere, StateIs DEF CreateEnds
<1> QED BY <1>1, ForgetSound DEF CreateEnds, Sound, Typed

LEMMA CreateRollbackSound ==
  ASSUME Sound, CreateRollback
  PROVE  Sound'
<1>1. stack' \in StackType
  BY StackThere, StateIs DEF CreateRollback
<1>2. row \in RowMap /\ SameShape(row, row) /\ row' = row
  BY DEF Sound, Typed, SameShape, CreateRollback
<1>3. Linked'
  BY <1>2, LinkedKept DEF CreateRollback, Sound
<1> QED BY <1>1, <1>3, DestroysSound DEF CreateRollback, Sound, Typed

(* What the two operations that load a stack make of it. *)
LEMMA LoadsLinked ==
  ASSUME row \in RowMap, NEW r \in RowMap, SameShape(row, r), row' = r,
         NEW t, ex' = Load("main", t),
         \/ prev' = Empty
         \/ \E b \in Templates : prev' = Load("backup", b)
  PROVE  Linked' /\ ex' \in Dictionary /\ prev' \in Dictionary
<1>1. /\ ex' \in Dictionary
      /\ \A n \in Names : ex'[n] # Nothing => At("main", n, ex'[n])
  BY Loads
<1>2. /\ prev' \in Dictionary
      /\ \A n \in Names : prev'[n] # Nothing => At("backup", n, prev'[n])
  BY Loads, EmptyIs
<1>3. \A n \in Names : LinkedAt(n)'
  BY <1>1, <1>2 DEF Dictionary, SameShape, LinkedAt, At
<1> QED BY <1>1, <1>2, <1>3 DEF Linked

LEMMA BeginUpdateSound ==
  ASSUME Sound, NEW t \in Templates, BeginUpdate(t)
  PROVE  /\ Sound' /\ SameShape(row, row') /\ phase = "idle" /\ stack \in StackType
         /\ stack.template \in Templates
         /\ backup' \in Templates /\ backup' # Nothing
<1>1. /\ phase = "idle" /\ ops < MaxOps /\ ops' = ops + 1 /\ torn' = torn
      /\ stack \in StackType /\ stack.template \in Templates
  BY DEF BeginUpdate, Begin, Sound, Typed, StackType
<1>2. backup' \in Templates
  BY <1>1 DEF BeginUpdate, Sound, Typed
<1>3. stack' \in StackType
  BY <1>1, StateIs DEF BeginUpdate
<1>4. row' \in RowMap /\ SameShape(row, row')
  <2> DEFINE b == backup'
  <2>1. b \in Templates \cup {Nothing} /\ row' = ReloadBoth(stack.template, b)
    BY <1>2 DEF BeginUpdate
  <2> HIDE DEF b
  <2> QED BY <1>1, <2>1, ReloadBothShape DEF Sound, Typed
<1>5. Linked' /\ ex' \in Dictionary /\ prev' \in Dictionary
  <2> DEFINE r == row'
             b == backup'
  <2>1. r \in RowMap /\ SameShape(row, r) /\ row' = r /\ b \in Templates
        /\ ex' = Load("main", stack.template) /\ prev' = Load("backup", b)
    BY <1>2, <1>4 DEF BeginUpdate
  <2> HIDE DEF r, b
  <2> QED BY <2>1, LoadsLinked DEF Sound, Typed
<1>6. ops' \in 0..MaxOps
  BY <1>1, MaxOpsAssumption DEF Sound, Typed
<1>7. Sound'
  <2> DEFINE r == row'
             d == prev'
  <2>1. StartDestroys("clean", r, d) /\ d = prev'
    BY DEF BeginUpdate
  <2>2. /\ phys' \subseteq Ids /\ first' \in Dictionary /\ target' \in Templates
        /\ rolling' \in BOOLEAN /\ torn' \subseteq Incidents
    BY <1>1 DEF BeginUpdate, Sound, Typed
  <2> HIDE DEF r, d
  <2> QED BY <1>2, <1>3, <1>4, <1>5, <1>6, <2>1, <2>2, NothingAssumption, DestroysSound
<1> QED BY <1>1, <1>2, <1>4, <1>7, NothingAssumption

LEMMA BeginDeleteSound ==
  ASSUME Sound, BeginDelete
  PROVE  /\ Sound' /\ SameShape(row, row') /\ phase = "idle" /\ stack \in StackType
         /\ stack.template \in Templates
         /\ phase' = (IF backup = Nothing THEN "delete" ELSE "unback")
         /\ outcome' = "ok"
<1>1. /\ phase = "idle" /\ ops < MaxOps /\ ops' = ops + 1 /\ torn' = torn
      /\ stack \in StackType /\ stack.template \in Templates
  BY DEF BeginDelete, Begin, Sound, Typed, StackType
<1>2. stack' \in StackType
  BY <1>1, StateIs DEF BeginDelete
<1>3. row' \in RowMap /\ SameShape(row, row')
  BY <1>1, ReloadBothShape DEF BeginDelete, Sound, Typed
<1>4. Linked' /\ ex' \in Dictionary /\ prev' \in Dictionary
  <2> DEFINE r == row'
  <2>1. r \in RowMap /\ SameShape(row, r) /\ row' = r
        /\ ex' = Load("main", stack.template)
    BY <1>3 DEF BeginDelete
  <2>2. prev' = Empty \/ \E b \in Templates : prev' = Load("backup", b)
    BY DEF BeginDelete, Sound, Typed
  <2> HIDE DEF r
  <2> QED BY <2>1, <2>2, LoadsLinked DEF Sound, Typed
<1>5. ops' \in 0..MaxOps
  BY <1>1, MaxOpsAssumption DEF Sound, Typed
<1>6. /\ phys' \subseteq Ids /\ first' \in Dictionary /\ target' \in Templates \cup {Nothing}
      /\ rolling' \in BOOLEAN /\ torn' \subseteq Incidents
      /\ backup' = backup /\ backup \in Templates \cup {Nothing}
  BY <1>1 DEF BeginDelete, Sound, Typed
<1> DEFINE r == row'
           d == ex'
           q == prev'
<1>7. /\ backup = Nothing => StartDestroys("delete", r, d)
      /\ backup # Nothing => StartDestroys("unback", r, q)
  BY DEF BeginDelete
<1>8. d = ex' /\ q = prev' /\ r = row'
  OBVIOUS
<1> HIDE DEF r, d, q
<1>9. CASE backup = Nothing
  <2>1. Sound'
    BY <1>2, <1>3, <1>4, <1>5, <1>6, <1>7, <1>8, <1>9, DestroysSound
  <2>2. phase' = "delete" /\ outcome' = "ok"
    BY <1>7, <1>9 DEF StartDestroys, StartGroup
  <2> QED BY <1>1, <1>3, <1>9, <2>1, <2>2
<1>10. CASE backup # Nothing
  <2>1. Sound'
    BY <1>2, <1>3, <1>4, <1>5, <1>6, <1>7, <1>8, <1>10, DestroysSound
  <2>2. phase' = "unback" /\ outcome' = "ok"
    BY <1>7, <1>10 DEF StartDestroys, StartGroup
  <2> QED BY <1>1, <1>3, <1>10, <2>1, <2>2
<1> QED BY <1>9, <1>10

LEMMA UpdateInvalidSound ==
  ASSUME Sound, UpdateInvalid
  PROVE  Sound'
<1>1. /\ phase = "idle" /\ ops < MaxOps /\ ops' = ops + 1 /\ torn' = torn
      /\ stack \in StackType /\ stack # Nothing
      /\ UNCHANGED <<backup, row, phys, phase, target, rolling, ex, prev, first, edges, stage, outcome>>
  BY DEF UpdateInvalid, Begin, Sound, Typed, mem
<1>2. stack' \in StackType /\ stack' # Nothing
  BY <1>1, StateIs DEF UpdateInvalid
<1>3. ops' \in 0..MaxOps
  BY <1>1, MaxOpsAssumption DEF Sound, Typed
<1>4. Typed'
  BY <1>1, <1>2, <1>3 DEF Sound, Typed
<1>5. Linked'
  BY <1>1 DEF Sound, Linked, LinkedAt, At
<1>6. Placed'
  BY <1>1, <1>2 DEF Sound, Fits, Placed, New, Old
<1>7. Staged'
  BY <1>1 DEF Sound, Fits, Staged, New, Old, Doomed
<1>8. Ordered'
  BY <1>1 DEF Sound, Fits, Ordered
<1> QED BY <1>4, <1>5, <1>6, <1>7, <1>8 DEF Sound, Fits

LEMMA AlignStepSound ==
  ASSUME Sound, Align
  PROVE  Sound'
<1>1. UNCHANGED <<stack, backup, row, phys, target, rolling, ex, prev, ops, torn>> /\ first' = ex
  BY DEF Align, db
<1>2. stack' \in StackType /\ backup' \in Templates /\ target \in Templates
  BY <1>1, StackThere DEF Align, Sound, Typed, Fits, Placed
<1>3. Linked'
  BY <1>1 DEF Sound, Linked, LinkedAt, At
<1>4. PICK X : X = {}
  OBVIOUS
<1>5. StartGroup("update", Olds(ex') \cup {"new"} \X (DOMAIN target),
                 UpdateEdges(row, ex', target) \ X)
  <2>1. UpdateEdges(row, ex, target) \ X = UpdateEdges(row, ex, target)
    BY <1>4
  <2> QED BY <1>1, <2>1 DEF Align
<1>6. \A n \in Names : <<<<"old", n>>, <<"new", n>>>> \notin X
  BY <1>4
<1> QED BY <1>1, <1>2, <1>3, <1>5, <1>6, AlignSound DEF Sound, Typed

LEMMA RollBackSound ==
  ASSUME Sound, RollBack
  PROVE  /\ Sound' /\ SameShape(row, row') /\ backup \in Templates
         /\ stack.template \in Templates
<1>1. UNCHANGED <<stack, backup, phys, ex, ops, torn>> /\ first' = ex
      /\ rolling' = TRUE /\ target' = stack.template
      /\ row' = Reload("backup", backup) /\ prev' = Load("backup", backup)
  BY DEF RollBack
<1>2. stack' \in StackType /\ backup \in Templates /\ stack.template \in Templates
  BY <1>1, StackThere DEF RollBack, Sound, Typed, Fits, Placed
<1>3. row' \in RowMap /\ SameShape(row, row')
  BY <1>1, <1>2, ReloadShape DEF Sound, Typed
<1>4. prev' \in Dictionary /\ \A n \in Names : prev'[n] # Nothing => At("backup", n, prev'[n])
  BY <1>1, Loads DEF Sound, Typed
<1>5. Linked'
  BY <1>1, <1>3, <1>4 DEF Sound, Typed, Linked, LinkedAt, At, Dictionary, SameShape
<1>6. Sound'
  <2> DEFINE t == stack.template
  <2>1. t \in Templates /\ target' = t
    BY <1>1, <1>2
  <2>2. StartGroup("update", Olds(ex') \cup {"new"} \X (DOMAIN t),
                   UpdateEdges(row, ex', t) \ Severed)
    BY <1>1 DEF RollBack, RollBackEdges
  <2> HIDE DEF t
  <2> QED BY <1>1, <1>2, <1>3, <1>4, <1>5, <2>1, <2>2, SeveredOld, AlignSound DEF Sound, Typed
<1> QED BY <1>2, <1>3, <1>6

LEMMA UpdateFailedSound ==
  ASSUME Sound, UpdateFailed
  PROVE  Sound'
<1>1. /\ phase \in {"clean", "update"} /\ outcome # "ok" /\ phase' = "flip"
      /\ torn' = torn \cup {"failed"}
      /\ UNCHANGED <<backup, row, phys, target, rolling, ex, prev, first, edges, stage, outcome, ops>>
  BY DEF UpdateFailed, mem
<1>2. stack' \in StackType /\ stack' # Nothing
  <2>1. UpdateAction \in {"ROLLBACK", "UPDATE"}
    BY DEF UpdateAction
  <2> QED BY <1>1, <2>1, StackThere, StateIs DEF UpdateFailed
<1>3. torn' \subseteq Incidents
  BY <1>1 DEF Sound, Typed, Incidents
<1>4. Typed'
  BY <1>1, <1>2, <1>3 DEF Sound, Typed, Phases
<1>5. Linked'
  BY <1>1 DEF Sound, Linked, LinkedAt, At
<1>6. Placed'
  BY <1>1, <1>2 DEF Sound, Fits, Placed
<1>7. \A m \in Names : New(m)' = New(m) /\ Old(m)' = Old(m)
  BY <1>1 DEF New, Old
<1>8. Staged'
  BY <1>1, <1>7 DEF Sound, Fits, Staged
<1>9. Ordered'
  BY <1>1 DEF Sound, Fits, Ordered
<1> QED BY <1>4, <1>5, <1>6, <1>8, <1>9 DEF Sound, Fits

(* When a group that destroys has finished, there is nothing left of what  *)
(* it was to destroy.                                                      *)
LEMMA NoneLeft ==
  ASSUME Sound, Finished, phase \in {"clean", "trim", "unback", "delete"}
  PROVE  /\ phase # "delete" => prev = Empty
         /\ phase = "delete" => ex = Empty
<1>1. \A n \in Names : Doomed(n) = Nothing
  BY TasksAre DEF Sound, Fits, Staged, Finished, Old
<1>2. ex \in Dictionary /\ prev \in Dictionary
  BY DEF Sound, Typed
<1>3. ASSUME phase # "delete" PROVE prev = Empty
  <2>1. \A n \in Names : prev[n] = Nothing
    BY <1>1, <1>3 DEF Doomed
  <2> QED BY <1>2, <2>1 DEF Empty, Dictionary
<1>4. ASSUME phase = "delete" PROVE ex = Empty
  <2>1. \A n \in Names : ex[n] = Nothing
    BY <1>1, <1>4 DEF Doomed
  <2> QED BY <1>2, <2>1 DEF Empty, Dictionary
<1> QED BY <1>3, <1>4

LEMMA FinishedStages ==
  ASSUME Finished
  PROVE  outcome = "ok" /\ \A n \in Names : New(n) = "done" /\ Old(n) = "done"
BY TasksAre DEF Finished, New, Old

LEMMA TrimSound ==
  ASSUME Sound, Trim
  PROVE  Sound'
<1>1. UNCHANGED <<stack, backup, row, phys, target, rolling, ex, prev, first, ops, torn>>
  BY DEF Trim, db
<1>2. stack' \in StackType /\ backup' \in Templates /\ target \in Templates
  BY <1>1, StackThere DEF Trim, Sound, Typed, Fits, Placed
<1>3. Linked'
  BY <1>1 DEF Sound, Linked, LinkedAt, At
<1>4. StartDestroys("trim", row, prev')
  BY <1>1 DEF Trim
<1> QED BY <1>1, <1>2, <1>3, <1>4, NothingAssumption, DestroysSound DEF Sound, Typed

LEMMA TrimmedSound ==
  ASSUME Sound, Trimmed
  PROVE  Sound'
<1>1. /\ phase = "trim" /\ phase' = "flip"
      /\ UNCHANGED <<phys, target, rolling, ex, prev, first, edges, stage, outcome, ops, torn>>
      /\ Finished \/ outcome # "ok"
  BY DEF Trimmed, mem
<1>2. stack' \in StackType /\ stack' # Nothing
  <2>1. UpdateAction \in {"ROLLBACK", "UPDATE"}
    BY DEF UpdateAction
  <2> QED BY <1>1, <2>1, StackThere, StateIs DEF Trimmed
<1>3. /\ row' \in RowMap /\ backup' \in Templates \cup {Nothing}
      /\ \A i \in Ids : row'[i] # row[i] => row[i].stack = "backup"
      /\ outcome # "ok" => row' = row
  BY Drops DEF Trimmed, Finished, Sound, Typed
<1>4. Typed'
  BY <1>1, <1>2, <1>3 DEF Sound, Typed, Phases
<1>5. outcome = "ok" => prev = Empty
  BY <1>1, NoneLeft
<1>6. Linked'
  <2> SUFFICES ASSUME NEW n \in Names PROVE LinkedAt(n)'
    BY DEF Linked
  <2>1. ex' = ex /\ prev' = prev /\ LinkedAt(n)
    BY <1>1 DEF Sound, Linked
  <2>2. ex[n] # Nothing => ex[n] \in Ids /\ row'[ex[n]] = row[ex[n]]
    BY <1>3, ExLinked DEF Sound
  <2>3. prev[n] # Nothing => row'[prev[n]] = row[prev[n]]
    BY <1>3, <1>5, EmptyIs
  <2> QED BY <2>1, <2>2, <2>3 DEF LinkedAt, At
<1>7. \A m \in Names : New(m)' = New(m) /\ Old(m)' = Old(m)
  BY <1>1 DEF New, Old
<1>8. Placed'
  BY <1>1, <1>2, <1>7, FinishedStages DEF Sound, Fits, Placed
<1>9. Staged'
  BY <1>1, <1>7 DEF Sound, Fits, Staged
<1>10. Ordered'
  BY <1>1 DEF Sound, Fits, Ordered
<1> QED BY <1>4, <1>6, <1>8, <1>9, <1>10 DEF Sound, Fits

LEMMA FlipSound ==
  ASSUME Sound, Flip
  PROVE  Sound'
<1>1. stack' \in StackType
  BY StackThere DEF Flip, Sound, Fits, Placed, StackType
<1> QED BY <1>1, ForgetSound DEF Flip, Sound, Typed

LEMMA UnbackedSound ==
  ASSUME Sound, Unbacked
  PROVE  Sound'
<1>1. /\ phase = "unback" /\ Finished /\ backup' = Nothing /\ row' = Drop(row, "backup")
      /\ UNCHANGED <<stack, phys, target, rolling, ex, prev, first, ops, torn>>
  BY DEF Unbacked
<1>2. stack' \in StackType
  BY <1>1, StackThere
<1>3. row' \in RowMap /\ \A i \in Ids : row'[i] # row[i] => row[i].stack = "backup"
  BY <1>1, Drops DEF Sound, Typed
<1>4. prev = Empty
  BY <1>1, NoneLeft
<1>5. Linked'
  BY <1>1, <1>3, <1>4, EmptyIs DEF Sound, Typed, Linked, LinkedAt, At, Dictionary
<1>6. StartDestroys("delete", row', ex')
  BY <1>1 DEF Unbacked
<1> DEFINE r == row'
<1>7. StartDestroys("delete", r, ex')
  BY <1>6
<1> HIDE DEF r
<1> QED BY <1>1, <1>2, <1>3, <1>5, <1>7, DestroysSound DEF Sound, Typed

LEMMA DeleteFailedSound ==
  ASSUME Sound, DeleteFailed
  PROVE  Sound'
<1>1. stack' \in StackType
  <2>1. stack \in StackType /\ stack.action \in {"CREATE", "UPDATE", "ROLLBACK", "DELETE"}
    BY StackThere DEF DeleteFailed, StackType
  <2> QED BY <2>1, StateIs DEF DeleteFailed
<1> QED BY <1>1, ForgetSound DEF DeleteFailed, Sound, Typed

LEMMA DeleteDoneSound ==
  ASSUME Sound, DeleteDone
  PROVE  Sound'
<1>1. UNCHANGED <<backup, row, phys, phase, target, rolling, ex, prev, first, edges, stage,
                  outcome, ops, torn>>
  BY DEF DeleteDone, mem
<1>2. stack' \in StackType /\ stack' # Nothing /\ phase = "delete"
  <2>1. stack \in StackType /\ stack.action \in {"CREATE", "UPDATE", "ROLLBACK", "DELETE"}
    BY StackThere DEF DeleteDone, StackType
  <2> QED BY <2>1, StateIs DEF DeleteDone
<1>3. Typed'
  BY <1>1, <1>2 DEF Sound, Typed
<1>4. Linked'
  BY <1>1 DEF Sound, Linked, LinkedAt, At
<1>5. Placed'
  BY <1>1, <1>2 DEF Sound, Fits, Placed, New, Old
<1>6. Staged'
  BY <1>1 DEF Sound, Fits, Staged, New, Old, Doomed
<1>7. Ordered'
  BY <1>1 DEF Sound, Fits, Ordered
<1> QED BY <1>3, <1>4, <1>5, <1>6, <1>7 DEF Sound, Fits

LEMMA DeletedSound ==
  ASSUME Sound, Deleted
  PROVE  Sound'
BY Drops, ForgetSound DEF Deleted, Sound, Typed

LEMMA KillSound ==
  ASSUME Sound, Kill
  PROVE  Sound'
<1>1. row' \in RowMap
  BY AbortedShape, CutLinked DEF Kill, Sound, Typed
<1>2. torn' \subseteq Incidents
  BY DEF Kill, Sound, Typed, Incidents
<1> QED BY <1>1, <1>2, ForgetSound DEF Kill, Sound, Typed

LEMMA CrashSound ==
  ASSUME Sound, Crash
  PROVE  Sound'
<1>1. torn' \subseteq Incidents
  BY DEF Crash, Sound, Typed, Incidents
<1> QED BY <1>1, ForgetSound DEF Crash, db, Sound, Typed

-----------------------------------------------------------------------------
LEMMA SoundInit ==
  ASSUME Init
  PROVE  Sound
<1>1. \A n \in Names : New(n) = "done" /\ Old(n) = "done"
  BY TasksAre DEF Init, New, Old
<1>2. Typed
  <2>1. row \in RowMap /\ stage \in [Tasks -> Stages]
    BY DEF Init, RowMap, Stages
  <2>2. ops \in 0..MaxOps /\ phase \in Phases
    BY MaxOpsAssumption DEF Init, Phases
  <2>3. ex \in Dictionary /\ prev \in Dictionary /\ first \in Dictionary
    BY EmptyIs DEF Init
  <2> QED BY <2>1, <2>2, <2>3 DEF Init, Typed
<1>3. Linked
  BY EmptyIs DEF Init, Linked, LinkedAt
<1>4. Placed
  BY <1>1 DEF Init, Placed
<1>5. Staged
  BY <1>1, EmptyIs DEF Init, Staged
<1>6. Ordered
  BY DEF Init, Ordered
<1> QED BY <1>2, <1>3, <1>4, <1>5, <1>6 DEF Sound, Fits

LEMMA SoundStutter ==
  ASSUME Sound, UNCHANGED vars
  PROVE  Sound'
<1>1. UNCHANGED <<stack, backup, row, phys, phase, target, rolling, ex, prev, first, edges,
                  stage, outcome, ops, torn>>
  BY DEF vars, db, mem
<1>2. Typed'
  BY <1>1 DEF Sound, Typed
<1>3. Linked'
  BY <1>1 DEF Sound, Linked, LinkedAt, At
<1>4. Placed'
  BY <1>1 DEF Sound, Fits, Placed, New, Old
<1>5. Staged'
  BY <1>1 DEF Sound, Fits, Staged, New, Old, Doomed
<1>6. Ordered'
  BY <1>1 DEF Sound, Fits, Ordered
<1> QED BY <1>2, <1>3, <1>4, <1>5, <1>6 DEF Sound, Fits

LEMMA SoundNext ==
  ASSUME Sound, [Next]_vars
  PROVE  Sound'
<1>1. ASSUME NEW n \in Names, NewTask(n) PROVE Sound'
  BY <1>1, UnchangedSound, UpdateRefusedSound, StartUpdateSound, UpdatedInPlaceSound,
     UpdateReplaceSound, SwapInSound, PurgeSound, PurgedSound, CreateSound, CreatedSound
     DEF NewTask
<1>2. ASSUME NEW n \in Names, OldTask(n) PROVE Sound'
  BY <1>2, StartDestroySound, DestroyedSound, NothingToDestroySound DEF OldTask
<1>3. ASSUME Timeout \/ \E n \in Names : CreateFails(n) \/ UpdateFails(n) \/ DestroyFails(n)
      PROVE  Sound'
  BY <1>3, Failures
<1>4. ASSUME Continue PROVE Sound'
  BY <1>4, CreateEndsSound, CreateRollbackSound, AlignStepSound, RollBackSound, UpdateFailedSound,
     TrimSound, TrimmedSound, FlipSound, UnbackedSound, DeleteFailedSound, DeleteDoneSound, DeletedSound
     DEF Continue
<1>5. ASSUME NEW t \in Templates, BeginUpdate(t) \/ \E r \in Rollbacks : BeginCreate(t, r)
      PROVE  Sound'
  BY <1>5, BeginUpdateSound, BeginCreateSound
<1>6. ASSUME UpdateInvalid \/ BeginDelete \/ Kill \/ Crash PROVE Sound'
  BY <1>6, UpdateInvalidSound, BeginDeleteSound, KillSound, CrashSound
<1> QED BY <1>1, <1>2, <1>3, <1>4, <1>5, <1>6, SoundStutter DEF Next

(* The dictionaries of a running operation always lead to rows of their    *)
(* stack and name, every task is at a stage its name's resources allow,    *)
(* and a task at work has all it requires behind it.                       *)
THEOREM AlwaysSound == Spec => []Sound
<1>1. Init => Sound
  BY SoundInit
<1>2. Sound /\ [Next]_vars => Sound'
  BY SoundNext
<1> QED BY <1>1, <1>2, PTL DEF Spec

(* The stack, its backup, the rows and the running operation have their    *)
(* types, whatever fails: no step of a task dereferences a resource that   *)
(* is not there.                                                           *)
THEOREM TypeCorrect == Spec => []TypeOK
<1>1. Sound => TypeOK
  BY TypedIs DEF Sound
<1> QED BY <1>1, AlwaysSound, PTL

-----------------------------------------------------------------------------
(***************************************************************************)
(* The backup stack.                                                       *)
(***************************************************************************)
(* What the backup stack has to do with the operation. *)
Kept ==
  /\ stack = Nothing => backup = Nothing
  /\ phase \notin {"idle", "flip", "delete"} => stack.status = "IN_PROGRESS"
  /\ phase \in {"create", "delete"} => backup = Nothing
  /\ phase \in {"idle", "flip"} /\ stack # Nothing /\ stack.status = "COMPLETE" =>
       backup = Nothing
  /\ phase \in {"clean", "update"} =>
       backup = stack.template /\ (rolling => target = stack.template)
  /\ phase \in {"clean", "trim"} =>
       prev = Empty /\ outcome = "ok" /\ \A n \in Names : Old(n) = "done"
  /\ phase = "clean" =>
       ~rolling /\ \A n \in Names : ex[n] # Nothing => n \in DOMAIN backup

(* The rows of the backup stack are those that previous_stack leads to. *)
Backed ==
  /\ backup = Nothing => \A i \in Ids : row[i] # Nothing => row[i].stack # "backup"
  /\ phase \in {"clean", "update", "trim"} =>
       \A i \in Ids : row[i] # Nothing /\ row[i].stack = "backup" => prev[row[i].name] = i

MovedAt(n) ==
  /\ prev[n] # Nothing => ex[n] # Nothing /\ n \in DOMAIN backup
  /\ ~rolling /\ (New(n) \notin {"creating", "done"} \/ n \notin DOMAIN target) =>
       /\ ex[n] # Nothing => n \in DOMAIN backup
       /\ prev[n] = Nothing
  /\ Old(n) = "done" /\ New(n) = "done" => Doomed(n) = Nothing
  /\ Old(n) = "done" /\ New(n) # "done" =>
       prev[n] = Nothing /\ (ex[n] = Nothing \/ New(n) = "creating")

Moved == phase = "update" => \A n \in Names : MovedAt(n)

Tended == Kept /\ Backed /\ Moved

LEMMA NewMoved ==
  ASSUME Sound, NEW n \in Names, NEW from, NEW to \in Stages, Move(<<"new", n>>, from, to)
  PROVE  /\ New(n) = from /\ outcome = "ok"
         /\ New(n)' = to /\ Old(n)' = Old(n)
         /\ \A m \in Names \ {n} : New(m)' = New(m) /\ Old(m)' = Old(m)
<1>1. stage' = [stage EXCEPT ![<<"new", n>>] = to] /\ New(n) = from /\ outcome = "ok"
  BY DEF Move, New
<1> QED BY <1>1, NewMoves DEF Sound, Typed

LEMMA NewStarted ==
  ASSUME Sound, NEW n \in Names, NEW to \in Stages, Start(<<"new", n>>, to)
  PROVE  /\ New(n) = "wait" /\ outcome = "ok"
         /\ New(n)' = to /\ Old(n)' = Old(n)
         /\ \A m \in Names \ {n} : New(m)' = New(m) /\ Old(m)' = Old(m)
BY NewMoved DEF Start

LEMMA OldStarted ==
  ASSUME Sound, NEW n \in Names, NEW to \in Stages, Start(<<"old", n>>, to)
  PROVE  /\ Old(n) = "wait" /\ outcome = "ok"
         /\ Old(n)' = to /\ New(n)' = New(n)
         /\ \A m \in Names \ {n} : New(m)' = New(m) /\ Old(m)' = Old(m)
<1>1. stage' = [stage EXCEPT ![<<"old", n>>] = to] /\ Old(n) = "wait" /\ outcome = "ok"
  BY DEF Start, Move, Old
<1> QED BY <1>1, OldMoves DEF Sound, Typed

LEMMA BackedSame ==
  ASSUME Sound, Backed, SameShape(row, row'), prev' = prev, UNCHANGED <<phase, backup>>
  PROVE  Backed'
<1>1. ASSUME NEW i \in Ids, row'[i] # Nothing
      PROVE  row[i] # Nothing /\ row'[i].stack = row[i].stack /\ row'[i].name = row[i].name
  BY <1>1 DEF SameShape
<1> QED BY <1>1 DEF Backed

(* A step of one name's task. *)
LEMMA TendedTask ==
  ASSUME Kept, Moved, Backed', NEW n \in Names, phase \notin {"clean", "trim"}, UNCHANGED Others,
         \A m \in Names \ {n} : /\ New(m)' = New(m) /\ Old(m)' = Old(m)
                                /\ ex'[m] = ex[m] /\ prev'[m] = prev[m],
         phase = "update" => MovedAt(n)'
  PROVE  Tended'
<1>1. Kept'
  BY DEF Kept, Others
<1>2. Moved'
  <2>1. ASSUME NEW m \in Names \ {n}, phase = "update", MovedAt(m) PROVE MovedAt(m)'
    BY <2>1 DEF MovedAt, Doomed, Others
  <2> QED BY <2>1 DEF Moved, Others
<1> QED BY <1>1, <1>2 DEF Tended

(* A step of a new task that leaves the dictionaries alone. *)
LEMMA TendedNew ==
  ASSUME Sound, Tended, NEW n \in Names, n \in DOMAIN target,
         phase \in {"create", "update"}, UNCHANGED Others, UNCHANGED <<ex, prev>>,
         SameShape(row, row'),
         New(n) # "done", New(n)' # "creating", New(n) = "creating" => New(n)' = "done",
         Old(n)' = Old(n),
         \A m \in Names \ {n} : New(m)' = New(m) /\ Old(m)' = Old(m)
  PROVE  Tended'
<1>1. Backed'
  BY BackedSame DEF Others, Tended
<1>2. phase = "update" => MovedAt(n)'
  BY DEF Tended, Moved, MovedAt, Doomed, Others
<1> QED BY <1>1, <1>2, TendedTask DEF Tended

LEMMA NewTended ==
  ASSUME Sound, Tended, NEW n \in Names, n \in DOMAIN target,
         phase \in {"create", "update"},
         \/ Unchanged(n) \/ UpdateRefused(n) \/ StartUpdate(n) \/ UpdatedInPlace(n)
         \/ UpdateReplace(n) \/ Purge(n) \/ Created(n)
  PROVE  Tended'
<1>1. SameShape(row, row)
  BY DEF SameShape
<1>2. CASE Unchanged(n)
  BY <1>1, <1>2, NewStarted, TendedNew DEF Unchanged, Others, db, Stages
<1>3. CASE UpdateRefused(n)
  BY <1>1, <1>3, NewStarted, TendedNew DEF UpdateRefused, Others, db, Stages
<1>4. CASE StartUpdate(n)
  BY <1>4, StartUpdateSound, NewStarted, TendedNew DEF StartUpdate, Others, Stages
<1>5. CASE UpdatedInPlace(n)
  BY <1>5, UpdatedInPlaceSound, NewMoved, TendedNew DEF UpdatedInPlace, Others, Stages
<1>6. CASE UpdateReplace(n)
  BY <1>1, <1>6, NewMoved, TendedNew DEF UpdateReplace, Others, db, Stages
<1>7. CASE Purge(n)
  BY <1>7, PurgeSound, NewMoved, NewStarted, TendedNew DEF Purge, Others, Stages
<1>8. CASE Created(n)
  BY <1>8, CreatedSound, NewMoved, TendedNew DEF Created, Others, Stages
<1> QED BY <1>2, <1>3, <1>4, <1>5, <1>6, <1>7, <1>8

LEMMA SwapInTended ==
  ASSUME Sound, Tended, NEW n \in Names, n \in DOMAIN target,
         phase \in {"create", "update"}, SwapIn(n)
  PROVE  Tended' /\ rolling
<1>1. /\ phase = "update" /\ ex[n] # Nothing /\ prev[n] # Nothing
      /\ ex[n] \in Ids /\ prev[n] \in Ids
      /\ ex'[n] = prev[n] /\ prev'[n] = ex[n] /\ ex[n] # prev[n]
      /\ \A m \in Names \ {n} : ex'[m] = ex[m] /\ prev'[m] = prev[m]
      /\ row'[prev[n]].stack = "main"
      /\ row'[ex[n]].stack = "backup" /\ row'[ex[n]].name = n
      /\ \A j \in Ids \ {ex[n], prev[n]} : row'[j] = row[j]
  BY SwapInSound
<1>2. /\ New(n) = "replace" /\ New(n)' = "done" /\ Old(n)' = Old(n)
      /\ \A m \in Names \ {n} : New(m)' = New(m) /\ Old(m)' = Old(m)
  BY NewMoved DEF SwapIn, Stages
<1>3. UNCHANGED Others
  BY DEF SwapIn, Others
<1>4. MovedAt(n) /\ rolling
  BY <1>1, <1>2 DEF Tended, Moved, MovedAt
<1>5. n \in DOMAIN backup
  BY <1>1, <1>4 DEF Tended, Kept
<1>6. MovedAt(n)'
  BY <1>1, <1>2, <1>3, <1>4, <1>5 DEF MovedAt, Others
<1>7. Backed'
  <2>1. backup' = backup /\ phase' = phase /\ backup # Nothing
    BY <1>1, <1>3 DEF Others, Sound, Fits, Placed
  <2>2. ASSUME NEW i \in Ids, row'[i] # Nothing, row'[i].stack = "backup"
        PROVE  prev'[row'[i].name] = i
    <3>1. CASE i = ex[n]
      BY <1>1, <3>1
    <3>2. CASE i # ex[n]
      <4>1. row'[i] = row[i] /\ i # prev[n]
        BY <1>1, <2>2, <3>2
      <4>2. prev[row[i].name] = i
        BY <1>1, <2>2, <4>1 DEF Tended, Backed
      <4>3. row[i].name \in Names \ {n}
        BY <2>2, <4>1, <4>2 DEF Sound, Typed, RowMap, RowType
      <4> QED BY <1>1, <4>1, <4>2, <4>3
    <3> QED BY <3>1, <3>2
  <2> QED BY <2>1, <2>2 DEF Backed
<1> QED BY <1>1, <1>2, <1>3, <1>4, <1>6, <1>7, TendedTask DEF Tended

LEMMA PurgedTended ==
  ASSUME Sound, Tended, NEW n \in Names, n \in DOMAIN target,
         phase \in {"create", "update"}, Purged(n)
  PROVE  Tended'
<1>1. /\ prev[n] # Nothing /\ prev[n] \in Ids /\ row'[prev[n]] = Nothing
      /\ prev'[n] = Nothing /\ \A m \in Names \ {n} : prev'[m] = prev[m]
      /\ \A j \in Ids \ {prev[n]} : row'[j] = row[j]
  BY PurgedSound
<1>2. /\ New(n) = "purging" /\ New(n)' = "replace" /\ Old(n)' = Old(n)
      /\ \A m \in Names \ {n} : New(m)' = New(m) /\ Old(m)' = Old(m)
  BY NewMoved DEF Purged, Stages
<1>3. UNCHANGED Others /\ ex' = ex
  BY DEF Purged, Others
<1>4. phase = "update" /\ backup # Nothing
  BY <1>1, EmptyIs DEF Sound, Fits, Placed
<1>5. MovedAt(n)'
  BY <1>1, <1>2, <1>3, <1>4 DEF MovedAt, Tended, Moved, Others
<1>6. Backed'
  <2>1. backup' = backup /\ phase' = phase
    BY <1>3 DEF Others
  <2>2. ASSUME NEW i \in Ids, row'[i] # Nothing, row'[i].stack = "backup"
        PROVE  prev'[row'[i].name] = i
    <3>1. row'[i] = row[i] /\ i # prev[n]
      BY <1>1, <2>2
    <3>2. prev[row[i].name] = i
      BY <1>4, <2>2, <3>1 DEF Tended, Backed
    <3>3. row[i].name \in Names \ {n}
      BY <2>2, <3>1, <3>2 DEF Sound, Typed, RowMap, RowType
    <3> QED BY <1>1, <3>1, <3>2, <3>3
  <2> QED BY <1>4, <2>1, <2>2 DEF Backed
<1> QED BY <1>1, <1>2, <1>3, <1>4, <1>5, <1>6, TendedTask DEF Tended

LEMMA CreateTended ==
  ASSUME Sound, Tended, NEW n \in Names, n \in DOMAIN target,
         phase \in {"create", "update"}, Create(n)
  PROVE  Tended'
<1>1. /\ Fresh \in Ids /\ row[Fresh] = Nothing
      /\ ex'[n] = Fresh /\ prev'[n] = ex[n]
      /\ \A m \in Names \ {n} : ex'[m] = ex[m] /\ prev'[m] = prev[m]
      /\ row'[Fresh].stack = "main"
      /\ ex[n] # Nothing => ex[n] \in Ids /\ row'[ex[n]].stack = "backup" /\ row'[ex[n]].name = n
      /\ \A j \in Ids : j # ex[n] /\ j # Fresh => row'[j] = row[j]
  BY CreateSound
<1>2. /\ New(n) \in {"wait", "replace"} /\ New(n)' = "creating" /\ Old(n)' = Old(n)
      /\ \A m \in Names \ {n} : New(m)' = New(m) /\ Old(m)' = Old(m)
  BY NewMoved, NewStarted DEF Create, Stages
<1>3. UNCHANGED Others /\ prev[n] = Nothing
  BY DEF Create, Others
<1>4. phase = "create" => ex[n] = Nothing
  BY <1>2 DEF Sound, Fits, Staged
<1>5. ASSUME phase = "update" PROVE MovedAt(n)'
  <2>1. MovedAt(n)
    BY <1>5 DEF Tended, Moved
  <2>2. ex[n] # Nothing => n \in DOMAIN backup
    BY <1>2, <1>5, <2>1 DEF MovedAt, Tended, Kept
  <2>3. Fresh # Nothing
    BY <1>1, NothingAssumption
  <2> QED BY <1>1, <1>2, <1>3, <2>1, <2>2, <2>3 DEF MovedAt, Others
<1>6. Backed'
  <2>1. backup' = backup /\ phase' = phase
    BY <1>3 DEF Others
  <2>2. backup = Nothing => ex[n] = Nothing
    BY <1>4 DEF Sound, Fits, Placed
  <2>3. ASSUME NEW i \in Ids, row'[i] # Nothing, row'[i].stack = "backup", i # ex[n]
        PROVE  i # Fresh /\ row'[i] = row[i]
    BY <1>1, <2>3
  <2>4. ASSUME NEW i \in Ids, row'[i] # Nothing, row'[i].stack = "backup", backup = Nothing
        PROVE  FALSE
    <3>1. i # ex[n]
      BY <2>2, <2>4, NothingAssumption
    <3> QED BY <2>3, <2>4, <3>1 DEF Tended, Backed
  <2>5. ASSUME NEW i \in Ids, row'[i] # Nothing, row'[i].stack = "backup",
               phase = "update"
        PROVE  prev'[row'[i].name] = i
    <3>1. CASE i = ex[n]
      BY <1>1, <3>1, NothingAssumption
    <3>2. CASE i # ex[n]
      <4>1. row'[i] = row[i]
        BY <2>3, <2>5, <3>2
      <4>2. prev[row[i].name] = i
        BY <2>5, <4>1 DEF Tended, Backed
      <4>3. row[i].name \in Names \ {n}
        BY <1>3, <2>5, <4>1, <4>2, NothingAssumption DEF Sound, Typed, RowMap, RowType
      <4> QED BY <1>1, <4>1, <4>2, <4>3
    <3> QED BY <3>1, <3>2
  <2> QED BY <2>1, <2>4, <2>5 DEF Backed
<1> QED BY <1>1, <1>2, <1>3, <1>5, <1>6, TendedTask DEF Tended

LEMMA StartDestroyTended ==
  ASSUME Sound, Tended, NEW n \in Names, StartDestroy(n) \/ NothingToDestroy(n)
  PROVE  Tended'
<1>1. PICK to \in {"destroying", "done"} :
        Start(<<"old", n>>, to) /\ (to = "done" => Doomed(n) = Nothing)
  BY DEF StartDestroy, NothingToDestroy
<1>2. /\ Old(n) = "wait" /\ Old(n)' = to /\ New(n)' = New(n)
      /\ \A m \in Names \ {n} : New(m)' = New(m) /\ Old(m)' = Old(m)
  BY <1>1, OldStarted DEF Stages
<1>3. UNCHANGED Others /\ UNCHANGED <<ex, prev>>
  BY DEF StartDestroy, NothingToDestroy, Others, db
<1>4. SameShape(row, row')
  BY StartDestroySound DEF NothingToDestroy, db, SameShape
<1>5. Backed'
  BY <1>3, <1>4, BackedSame DEF Others, Tended
<1>6. phase \notin {"clean", "trim"}
  BY <1>2 DEF Tended, Kept
<1>7. ASSUME phase = "update" PROVE MovedAt(n)'
  <2>1. to = "done" => New(n) = "done"
    <3>1. CASE n \in DOMAIN target
      <4>1. <<<<"old", n>>, <<"new", n>>>> \in edges
        BY <1>2, <1>7, <3>1 DEF Sound, Fits, Staged
      <4> QED BY <1>1, <4>1, TasksAre DEF Start, New
    <3>2. CASE n \notin DOMAIN target
      BY <1>7, <3>2 DEF Sound, Fits, Staged
    <3> QED BY <3>1, <3>2
  <2>2. MovedAt(n)
    BY <1>7 DEF Tended, Moved
  <2>3. Doomed(n)' = Doomed(n)
    BY <1>3 DEF Doomed, Others
  <2> QED BY <1>1, <1>2, <1>3, <2>1, <2>2, <2>3 DEF MovedAt, Others
<1> QED BY <1>2, <1>3, <1>5, <1>6, <1>7, TendedTask DEF Tended

LEMMA DestroyedTended ==
  ASSUME Sound, Tended, NEW n \in Names, Destroyed(n)
  PROVE  /\ Tended' /\ phase \in {"update", "unback", "delete"} /\ UNCHANGED Others
         /\ phase = "update" => prev'[n] = Nothing /\ New(n) = "done"
         /\ New(n)' = New(n)
         /\ \A m \in Names \ {n} : New(m)' = New(m) /\ Old(m)' = Old(m)
<1>1. /\ Old(n) = "destroying" /\ phase \notin {"idle", "create", "flip"}
      /\ Doomed(n) # Nothing /\ Doomed(n) \in Ids
      /\ row'[Doomed(n)] = Nothing
      /\ \A j \in Ids \ {Doomed(n)} : row'[j] = row[j]
      /\ \/ Doomed(n) = prev[n] /\ prev'[n] = Nothing /\ ex' = ex
         \/ Doomed(n) = ex[n] /\ ex'[n] = Nothing /\ prev' = prev
      /\ \A m \in Names \ {n} : ex'[m] = ex[m] /\ prev'[m] = prev[m]
  BY DestroyedSound
<1>2. /\ Old(n)' = "wait" /\ New(n)' = New(n)
      /\ \A m \in Names \ {n} : New(m)' = New(m) /\ Old(m)' = Old(m)
  <2>1. stage' = [stage EXCEPT ![<<"old", n>>] = "wait"]
    BY DEF Destroyed, Move
  <2> QED BY <2>1, OldMoves DEF Stages, Sound, Typed
<1>3. UNCHANGED Others
  BY DEF Destroyed, Others
<1>4. phase \in {"update", "unback", "delete"}
  BY <1>1 DEF Tended, Kept, Sound, Typed, Phases
<1>5. ASSUME phase = "update" PROVE prev'[n] = Nothing /\ MovedAt(n)' /\ New(n) = "done"
  <2>1. MovedAt(n)
    BY <1>5 DEF Tended, Moved
  <2>2. prev'[n] = Nothing
    BY <1>1, <1>5, ExLinked DEF Doomed, Sound
  <2>3. New(n) = "done"
    BY <1>1, <1>5, OldWaits
  <2> QED BY <1>1, <1>2, <1>3, <2>1, <2>2, <2>3 DEF MovedAt, Others
<1>6. Backed'
  <2>1. backup' = backup /\ phase' = phase
    BY <1>3 DEF Others
  <2>2. ASSUME NEW i \in Ids, row'[i] # Nothing
        PROVE  row'[i] = row[i] /\ i # Doomed(n)
    BY <1>1, <2>2
  <2>3. ASSUME NEW i \in Ids, row'[i] # Nothing, row'[i].stack = "backup", phase = "update"
        PROVE  prev'[row'[i].name] = i
    <3>1. row'[i] = row[i] /\ i # Doomed(n)
      BY <2>2, <2>3
    <3>2. prev[row[i].name] = i
      BY <2>3, <3>1 DEF Tended, Backed
    <3>3. row[i].name \in Names
      BY <2>3, <3>1 DEF Sound, Typed, RowMap, RowType
    <3>4. CASE row[i].name = n
      <4>1. prev[n] = i
        BY <3>2, <3>4
      <4>2. prev[n] # Nothing
        BY <4>1, NothingAssumption
      <4>3. Doomed(n) = prev[n]
        BY <2>3, <4>2 DEF Doomed
      <4> QED BY <3>1, <4>1, <4>3
    <3>5. CASE row[i].name # n
      BY <1>1, <3>1, <3>2, <3>3, <3>5
    <3> QED BY <3>4, <3>5
  <2> QED BY <1>4, <2>1, <2>2, <2>3 DEF Tended, Backed
<1> QED BY <1>1, <1>2, <1>3, <1>4, <1>5, <1>6, TendedTask DEF Tended

LEMMA FailureTended ==
  ASSUME Sound, Tended, Timeout \/ \E n \in Names : CreateFails(n) \/ UpdateFails(n) \/ DestroyFails(n)
  PROVE  Tended' /\ phase \notin {"clean", "trim"}
<1>1. /\ SameShape(row, row') /\ outcome = "ok" /\ UNCHANGED Others
      /\ UNCHANGED <<phys, ex, prev, stage>> /\ ~Finished
  BY Failures
<1>2. phase \notin {"clean", "trim"}
  <2> SUFFICES ASSUME phase \in {"clean", "trim"} PROVE Finished
    BY <1>1
  <2>1. \A n \in Names : New(n) = "done" /\ Old(n) = "done"
    BY DEF Sound, Fits, Staged, Tended, Kept
  <2> QED BY <1>1, <2>1, TasksAre DEF Finished, New, Old
<1>3. Kept'
  BY <1>1, <1>2 DEF Tended, Kept, Others
<1>4. Backed'
  BY <1>1, BackedSame DEF Tended, Others
<1>5. \A n \in Names : New(n)' = New(n) /\ Old(n)' = Old(n) /\ Doomed(n)' = Doomed(n)
  BY <1>1 DEF New, Old, Doomed, Others
<1>6. Moved'
  BY <1>1, <1>5 DEF Tended, Moved, MovedAt, Others
<1> QED BY <1>2, <1>3, <1>4, <1>6 DEF Tended

(* A phase in which nothing is asked of previous_stack. *)
LEMMA TendedElse ==
  ASSUME Kept', phase' \notin {"clean", "update", "trim"},
         backup' = Nothing => \A i \in Ids : row'[i] # Nothing => row'[i].stack # "backup"
  PROVE  Tended'
BY DEF Tended, Backed, Moved

(* No step but the deletion of the backup stack takes its row away. *)
LEMMA BackedRows ==
  ASSUME Sound, Backed, SameShape(row, row'), backup' = Nothing => backup = Nothing
  PROVE  backup' = Nothing => \A i \in Ids : row'[i] # Nothing => row'[i].stack # "backup"
BY DEF Backed, SameShape

LEMMA ForgetTended ==
  ASSUME Sound, Tended, Forget, SameShape(row, row'), backup' = backup,
         stack' = Nothing => backup = Nothing,
         stack' # Nothing /\ stack'.status = "COMPLETE" => backup = Nothing
  PROVE  Tended'
<1>1. phase' = "idle"
  BY Forgets
<1>2. Kept'
  BY <1>1 DEF Kept
<1> QED BY <1>1, <1>2, BackedRows, TendedElse DEF Tended

LEMMA EndTended ==
  ASSUME Sound, Tended, CreateEnds \/ Flip \/ DeleteFailed \/ Kill \/ Crash
  PROVE  Tended'
<1>1. Forget /\ backup' = backup /\ phase # "idle"
  BY DEF CreateEnds, Flip, DeleteFailed, Kill, Crash, db
<1>2. SameShape(row, row')
  <2>1. SameShape(row, row)
    BY DEF SameShape
  <2>2. Kill => SameShape(row, row')
    BY <2>1, AbortedShape, CutLinked DEF Kill, Sound, Typed
  <2> QED BY <2>1, <2>2 DEF CreateEnds, Flip, DeleteFailed, Crash, db
<1>3. stack \in StackType /\ stack # Nothing
  BY <1>1, StackThere, NothingAssumption
<1>4. CASE CreateEnds
  <2>1. backup = Nothing
    BY <1>4 DEF CreateEnds, Tended, Kept
  <2> QED BY <1>1, <1>2, <2>1, ForgetTended
<1>5. CASE Flip
  <2>1. stack' # Nothing /\ stack'.status = stack.status
    BY <1>3, <1>5, NothingAssumption DEF Flip, StackType, Sound, Fits, Placed
  <2> QED BY <1>1, <1>2, <1>3, <1>5, <2>1, ForgetTended DEF Flip, Tended, Kept
<1>6. CASE DeleteFailed
  <2>1. stack' # Nothing /\ stack'.status = "FAILED"
    <3>1. stack.action \in {"CREATE", "UPDATE", "ROLLBACK", "DELETE"}
      BY <1>3 DEF StackType
    <3> QED BY <1>3, <1>6, <3>1, StateIs DEF DeleteFailed
  <2> QED BY <1>1, <1>2, <2>1, ForgetTended
<1>7. CASE Kill \/ Crash
  <2>1. stack' = stack
    BY <1>7 DEF Kill, Crash, db
  <2>2. stack.status = "COMPLETE" => backup = Nothing
    BY <1>1, <1>3 DEF Tended, Kept
  <2> QED BY <1>1, <1>2, <1>3, <2>1, <2>2, ForgetTended
<1> QED BY <1>4, <1>5, <1>6, <1>7

LEMMA DeleteDoneTended ==
  ASSUME Sound, Tended, DeleteDone
  PROVE  Tended'
<1>1. phase = "delete" /\ UNCHANGED <<backup, row, phase>>
  BY DEF DeleteDone
<1>2. stack' # Nothing
  BY <1>1, DeleteDoneSound, NothingAssumption DEF Sound, Fits, Placed
<1>3. Kept'
  BY <1>1, <1>2 DEF Tended, Kept
<1>4. backup' = Nothing => \A i \in Ids : row'[i] # Nothing => row'[i].stack # "backup"
  BY <1>1 DEF Tended, Backed
<1> QED BY <1>1, <1>3, <1>4, TendedElse

LEMMA DeletedTended ==
  ASSUME Sound, Tended, Deleted
  PROVE  Tended' /\ backup = Nothing
<1>1. /\ stack' = Nothing /\ backup' = backup /\ phase' = "idle"
      /\ row' = Drop(row, "main")
  BY Forgets DEF Deleted
<1>2. backup = Nothing
  BY DEF Deleted, Tended, Kept
<1>3. Kept'
  BY <1>1, <1>2 DEF Kept
<1>4. \A i \in Ids : row'[i] # Nothing => row'[i].stack # "backup"
  BY <1>1, <1>2, Drops DEF Tended, Backed, Sound, Typed
<1> QED BY <1>1, <1>2, <1>3, <1>4, TendedElse

LEMMA DestroysStart ==
  ASSUME NEW p, NEW r, NEW dict, StartDestroys(p, r, dict)
  PROVE  /\ phase' = p /\ outcome' = "ok"
         /\ \A n \in Names : New(n)' = "done"
                             /\ Old(n)' = IF dict[n] # Nothing THEN "wait" ELSE "done"
<1>1. StartGroup(p, Olds(dict), DestroyEdges(r, dict))
  BY DEF StartDestroys
<1> QED BY <1>1, GroupStarts, OldsAre

LEMMA BeginTended ==
  ASSUME Sound, Tended,
         (\E t \in Templates, r \in Rollbacks : BeginCreate(t, r)) \/ UpdateInvalid \/ BeginDelete
  PROVE  Tended'
<1>1. phase = "idle" /\ backup' = backup
  BY DEF BeginCreate, UpdateInvalid, BeginDelete, Begin
<1>2. CASE \E t \in Templates, r \in Rollbacks : BeginCreate(t, r)
  <2>1. /\ stack = Nothing /\ phase' = "create" /\ row' = row
        /\ stack' # Nothing /\ stack'.status = "IN_PROGRESS"
    <3>1. PICK t \in Templates, r \in Rollbacks : BeginCreate(t, r)
      BY <1>2
    <3>2. stack' \in StackType
      BY <3>1, RollbacksAssumption DEF BeginCreate, StackType
    <3> QED BY <3>1, <3>2, NothingAssumption DEF BeginCreate, StartGroup
  <2>2. Kept'
    BY <1>1, <2>1 DEF Tended, Kept
  <2> QED BY <1>1, <2>1, <2>2, TendedElse DEF Tended, Backed
<1>3. CASE UpdateInvalid
  <2>1. stack \in StackType
    BY <1>3 DEF UpdateInvalid, Sound, Typed
  <2>2. stack' # Nothing /\ stack'.status = "FAILED" /\ row' = row /\ phase' = phase
    BY <1>3, <2>1, StateIs DEF UpdateInvalid
  <2>3. Kept'
    BY <1>1, <2>2 DEF Kept
  <2> QED BY <1>1, <2>2, <2>3, TendedElse DEF Tended, Backed
<1>4. CASE BeginDelete
  <2>1. /\ SameShape(row, row') /\ stack \in StackType
        /\ phase' = (IF backup = Nothing THEN "delete" ELSE "unback")
    BY <1>4, BeginDeleteSound
  <2>2. stack' # Nothing /\ stack'.status = "IN_PROGRESS"
    BY <1>4, <2>1, StateIs DEF BeginDelete
  <2>3. Kept'
    BY <1>1, <2>1, <2>2 DEF Kept
  <2> QED BY <1>1, <2>1, <2>3, BackedRows, TendedElse DEF Tended
<1> QED BY <1>2, <1>3, <1>4

LEMMA CreateRollbackTended ==
  ASSUME Sound, Tended, CreateRollback
  PROVE  Tended'
<1>1. phase' = "delete" /\ backup' = backup /\ row' = row
  BY DestroysStart DEF CreateRollback
<1>2. stack' # Nothing /\ stack'.status = "IN_PROGRESS"
  BY StackThere, StateIs DEF CreateRollback
<1>3. backup = Nothing
  BY DEF CreateRollback, Tended, Kept
<1>4. Kept'
  BY <1>1, <1>2, <1>3 DEF Kept
<1> QED BY <1>1, <1>4, TendedElse DEF Tended, Backed

LEMMA BeginUpdateTended ==
  ASSUME Sound, Tended, NEW t \in Templates, BeginUpdate(t)
  PROVE  /\ Tended' /\ backup = Nothing
         /\ \A i \in Ids : row[i] # Nothing => row[i].stack # "backup"
<1>1. /\ SameShape(row, row') /\ phase = "idle" /\ stack \in StackType
      /\ stack.template \in Templates /\ backup' # Nothing
  BY BeginUpdateSound
<1>2. backup = Nothing
  BY <1>1 DEF BeginUpdate, Tended, Kept
<1>3. backup' = stack.template /\ rolling' = FALSE
      /\ ex' = Load("main", stack.template) /\ prev' = Load("backup", backup')
  BY <1>2 DEF BeginUpdate
<1>4. /\ stack' # Nothing /\ stack'.status = "IN_PROGRESS"
      /\ stack'.template = stack.template
  BY <1>1, StateIs DEF BeginUpdate
<1>5. \A i \in Ids : row[i] # Nothing => row[i].stack # "backup"
  BY <1>2 DEF Tended, Backed
<1>6. prev' = Empty
  <2>1. /\ prev' \in Dictionary
        /\ \A n \in Names : prev'[n] # Nothing => At("backup", n, prev'[n])
    BY <1>3, Loads DEF Sound, Typed
  <2>2. \A n \in Names : prev'[n] = Nothing
    BY <1>5, <2>1 DEF At, Dictionary
  <2> QED BY <2>1, <2>2 DEF Empty, Dictionary
<1>7. /\ phase' = "clean" /\ outcome' = "ok"
      /\ \A n \in Names : Old(n)' = "done"
  <2> DEFINE r == row'
             d == prev'
  <2>1. StartDestroys("clean", r, d)
    BY DEF BeginUpdate
  <2>2. d = Empty
    BY <1>6
  <2> HIDE DEF r, d
  <2> QED BY <2>1, <2>2, DestroysStart, EmptyIs
<1>8. \A n \in Names : ex'[n] # Nothing => n \in DOMAIN backup'
  BY <1>3, Loads DEF Sound, Typed
<1>9. Kept'
  BY <1>1, <1>3, <1>4, <1>6, <1>7, <1>8 DEF Kept
<1>10. Backed'
  BY <1>1, <1>5 DEF Backed, SameShape
<1>11. Moved'
  BY <1>7 DEF Moved
<1> QED BY <1>2, <1>5, <1>9, <1>10, <1>11 DEF Tended

(* The group of an update, as it starts. *)
LEMMA UpdateStart ==
  ASSUME NEW t, NEW d, NEW es, StartGroup("update", Olds(d) \cup {"new"} \X (DOMAIN t), es)
  PROVE  /\ phase' = "update" /\ outcome' = "ok" /\ edges' = es
         /\ \A n \in Names : /\ New(n)' = IF n \in DOMAIN t THEN "wait" ELSE "done"
                             /\ Old(n)' = IF d[n] # Nothing THEN "wait" ELSE "done"
<1> DEFINE nodes == Olds(d) \cup {"new"} \X (DOMAIN t)
<1>1. \A n \in Names : /\ <<"new", n>> \in nodes <=> n \in DOMAIN t
                       /\ <<"old", n>> \in nodes <=> d[n] # Nothing
  BY OldsAre, NewsAre
<1> HIDE DEF nodes
<1>2. StartGroup("update", nodes, es)
  BY DEF nodes
<1> QED BY <1>1, <1>2, GroupStarts

LEMMA AlignTended ==
  ASSUME Sound, Tended, Align
  PROVE  Tended'
<1>1. /\ phase = "clean"
      /\ UNCHANGED <<stack, backup, row, phys, target, rolling, ex, prev, ops, torn>>
  BY DEF Align, db
<1>2. /\ phase' = "update"
      /\ \A n \in Names : /\ New(n)' = IF n \in DOMAIN target THEN "wait" ELSE "done"
                          /\ Old(n)' = IF ex[n] # Nothing THEN "wait" ELSE "done"
  BY UpdateStart DEF Align
<1>3. /\ prev = Empty /\ ~rolling
      /\ \A n \in Names : ex[n] # Nothing => n \in DOMAIN backup
  BY <1>1 DEF Tended, Kept
<1>4. Kept'
  BY <1>1, <1>2, <1>3 DEF Tended, Kept
<1>5. Backed'
  BY <1>1, <1>2 DEF Tended, Backed
<1>6. \A n \in Names : Doomed(n)' = IF n \notin DOMAIN target THEN ex[n] ELSE Nothing
  BY <1>1, <1>2, <1>3, EmptyIs DEF Doomed
<1>7. Moved'
  BY <1>1, <1>2, <1>3, <1>6, EmptyIs DEF Moved, MovedAt
<1> QED BY <1>4, <1>5, <1>7 DEF Tended

(* The backup stack that the rollback loads is the one it knew. *)
LEMMA RollBackTended ==
  ASSUME Sound, Tended, RollBack
  PROVE  /\ Tended' /\ phase = "update" /\ backup = stack.template
         /\ \A n \in Names : prev'[n] = prev[n]
<1>1. /\ SameShape(row, row') /\ backup \in Templates /\ stack.template \in Templates
  BY RollBackSound
<1>2. UNCHANGED <<stack, backup, phys, ex, ops, torn>> /\ first' = ex
      /\ rolling' = TRUE /\ target' = stack.template
      /\ row' = Reload("backup", backup) /\ prev' = Load("backup", backup)
      /\ outcome = "failure"
  BY DEF RollBack
<1>3. phase = "update"
  BY <1>2 DEF RollBack, Tended, Kept
<1>4. /\ phase' = "update"
      /\ \A n \in Names : /\ New(n)' = IF n \in DOMAIN target' THEN "wait" ELSE "done"
                          /\ Old(n)' = IF ex[n] # Nothing THEN "wait" ELSE "done"
  <2> DEFINE t == target'
  <2>1. StartGroup("update", Olds(ex) \cup {"new"} \X (DOMAIN t),
                   RollBackEdges(stack.template))
    BY DEF RollBack
  <2>2. t = target'
    OBVIOUS
  <2> HIDE DEF t
  <2>3. /\ phase' = "update"
        /\ \A n \in Names : /\ New(n)' = IF n \in DOMAIN t THEN "wait" ELSE "done"
                            /\ Old(n)' = IF ex[n] # Nothing THEN "wait" ELSE "done"
    BY <2>1, UpdateStart
  <2> QED BY <2>2, <2>3
<1>5. backup = stack.template
  BY <1>3 DEF Tended, Kept
<1>6. ASSUME NEW n \in Names PROVE prev'[n] = prev[n]
  <2>1. MovedAt(n)
    BY <1>3 DEF Tended, Moved
  <2>2. \A i \in Ids : At("backup", n, i) => prev[n] = i
    BY <1>3 DEF At, Tended, Backed
  <2>3. /\ prev'[n] # Nothing => At("backup", n, prev'[n])
        /\ \A i \in Ids : At("backup", n, i) /\ n \in DOMAIN backup => prev'[n] # Nothing
        /\ prev'[n] \in Ids \cup {Nothing}
    BY <1>2, Loads DEF Sound, Typed, Dictionary
  <2>4. prev[n] # Nothing => At("backup", n, prev[n]) /\ prev[n] \in Ids
    BY PrevLinked DEF Sound, At
  <2>5. prev[n] # Nothing => prev'[n] # Nothing
    BY <2>1, <2>3, <2>4 DEF MovedAt
  <2> QED BY <2>2, <2>3, <2>5
<1>7. Kept'
  BY <1>2, <1>3, <1>4, <1>5 DEF Tended, Kept
<1>8. Backed'
  <2>1. ASSUME NEW i \in Ids, row'[i] # Nothing
        PROVE  row[i] # Nothing /\ row'[i].stack = row[i].stack /\ row'[i].name = row[i].name
               /\ row[i].name \in Names
    BY <1>1, <2>1 DEF SameShape, Sound, Typed, RowMap, RowType
  <2> QED BY <1>2, <1>3, <1>6, <2>1 DEF Tended, Backed
<1>9. ASSUME NEW n \in Names PROVE MovedAt(n)'
  <2>1. MovedAt(n)
    BY <1>3 DEF Tended, Moved
  <2>2. ex[n] = Nothing => prev[n] = Nothing
    BY <2>1 DEF MovedAt
  <2> QED BY <1>2, <1>4, <1>5, <1>6, <2>1, <2>2 DEF MovedAt, Doomed
<1> QED BY <1>3, <1>5, <1>6, <1>7, <1>8, <1>9 DEF Tended, Moved

LEMMA UpdateFailedTended ==
  ASSUME Sound, Tended, UpdateFailed
  PROVE  Tended'
<1>1. phase' = "flip" /\ backup' = backup /\ row' = row /\ phase # "idle"
  BY DEF UpdateFailed
<1>2. stack' # Nothing /\ stack'.status = "FAILED"
  <2>1. UpdateAction \in {"ROLLBACK", "UPDATE"}
    BY DEF UpdateAction
  <2> QED BY <1>1, <2>1, StackThere, StateIs DEF UpdateFailed
<1>3. Kept'
  BY <1>1, <1>2 DEF Kept
<1> QED BY <1>1, <1>3, TendedElse DEF Tended, Backed

LEMMA TrimTended ==
  ASSUME Sound, Tended, Trim
  PROVE  Tended' /\ prev = Empty
<1>1. /\ phase = "update" /\ Finished
      /\ UNCHANGED <<stack, backup, row, phys, target, rolling, ex, prev, first, ops, torn>>
  BY DEF Trim, db
<1>2. \A n \in Names : prev[n] = Nothing
  BY <1>1, FinishedStages DEF Tended, Moved, MovedAt, Doomed
<1>3. prev = Empty
  BY <1>2 DEF Empty, Sound, Typed, Dictionary
<1>4. phase' = "trim" /\ outcome' = "ok" /\ \A n \in Names : Old(n)' = "done"
  BY <1>2, DestroysStart DEF Trim
<1>5. Kept'
  BY <1>1, <1>3, <1>4 DEF Tended, Kept
<1>6. Backed'
  BY <1>1, <1>4 DEF Tended, Backed
<1> QED BY <1>3, <1>4, <1>5, <1>6 DEF Tended, Moved

LEMMA TrimmedTended ==
  ASSUME Sound, Tended, Trimmed
  PROVE  /\ Tended' /\ Finished /\ prev = Empty
         /\ \A i \in Ids : row'[i] = row[i]
<1>1. phase = "trim" /\ phase' = "flip" /\ prev = Empty /\ outcome = "ok"
      /\ (Finished \/ outcome # "ok")
  BY DEF Trimmed, Tended, Kept
<1>2. Finished /\ backup' = Nothing /\ row' = Drop(row, "backup")
  BY <1>1 DEF Trimmed
<1>3. stack' # Nothing
  <2>1. UpdateAction \in {"ROLLBACK", "UPDATE"}
    BY DEF UpdateAction
  <2> QED BY <1>1, <2>1, StackThere, StateIs DEF Trimmed
<1>4. Kept'
  BY <1>1, <1>2, <1>3 DEF Kept
<1>5. \A i \in Ids : row[i] # Nothing => row[i].stack # "backup"
  <2> SUFFICES ASSUME NEW i \in Ids, row[i] # Nothing, row[i].stack = "backup" PROVE FALSE
    OBVIOUS
  <2>1. prev[row[i].name] = i
    BY <1>1 DEF Tended, Backed
  <2>2. row[i].name \in Names
    BY DEF Sound, Typed, RowMap, RowType
  <2> QED BY <1>1, <2>1, <2>2, EmptyIs, NothingAssumption
<1>6. \A i \in Ids : row'[i] = row[i]
  BY <1>2, <1>5, Drops DEF Sound, Typed
<1> QED BY <1>1, <1>2, <1>4, <1>5, <1>6, TendedElse

LEMMA UnbackedTended ==
  ASSUME Sound, Tended, Unbacked
  PROVE  Tended'
<1>1. /\ phase = "unback" /\ backup' = Nothing /\ row' = Drop(row, "backup") /\ stack' = stack
  BY DEF Unbacked
<1>2. phase' = "delete"
  <2> DEFINE r == row'
  <2>1. StartDestroys("delete", r, ex)
    BY DEF Unbacked
  <2> HIDE DEF r
  <2> QED BY <2>1, DestroysStart
<1>3. \A i \in Ids : row'[i] # Nothing => row'[i].stack # "backup"
  BY <1>1, Drops DEF Sound, Typed
<1>4. Kept'
  BY <1>1, <1>2 DEF Tended, Kept
<1> QED BY <1>2, <1>3, <1>4, TendedElse

-----------------------------------------------------------------------------
LEMMA TendedInit ==
  ASSUME Init
  PROVE  Tended
BY DEF Init, Tended, Kept, Backed, Moved

LEMMA TendedStutter ==
  ASSUME Tended, UNCHANGED vars
  PROVE  Tended'
<1>1. UNCHANGED <<stack, backup, row, phys, phase, target, rolling, ex, prev, first, edges,
                  stage, outcome, ops, torn>>
  BY DEF vars, db, mem
<1>2. \A n \in Names : New(n)' = New(n) /\ Old(n)' = Old(n) /\ Doomed(n)' = Doomed(n)
  BY <1>1 DEF New, Old, Doomed
<1>3. Kept'
  BY <1>1, <1>2 DEF Tended, Kept
<1>4. Backed'
  BY <1>1 DEF Tended, Backed
<1>5. Moved'
  BY <1>1, <1>2 DEF Tended, Moved, MovedAt
<1> QED BY <1>3, <1>4, <1>5 DEF Tended

LEMMA TendedNext ==
  ASSUME Sound, Tended, [Next]_vars
  PROVE  Tended'
<1>1. ASSUME NEW n \in Names, NewTask(n) PROVE Tended'
  BY <1>1, NewTended, SwapInTended, PurgedTended, CreateTended DEF NewTask
<1>2. ASSUME NEW n \in Names, OldTask(n) PROVE Tended'
  BY <1>2, StartDestroyTended, DestroyedTended DEF OldTask
<1>3. ASSUME Timeout \/ \E n \in Names : CreateFails(n) \/ UpdateFails(n) \/ DestroyFails(n)
      PROVE  Tended'
  BY <1>3, FailureTended
<1>4. ASSUME Continue PROVE Tended'
  BY <1>4, EndTended, CreateRollbackTended, AlignTended, RollBackTended, UpdateFailedTended,
     TrimTended, TrimmedTended, UnbackedTended, DeleteDoneTended, DeletedTended DEF Continue
<1>5. ASSUME NEW t \in Templates, BeginUpdate(t) PROVE Tended'
  BY <1>5, BeginUpdateTended
<1>6. ASSUME (\E t \in Templates, r \in Rollbacks : BeginCreate(t, r)) \/ UpdateInvalid \/ BeginDelete
      PROVE  Tended'
  BY <1>6, BeginTended
<1>7. ASSUME Kill \/ Crash PROVE Tended'
  BY <1>7, EndTended
<1> QED BY <1>1, <1>2, <1>3, <1>4, <1>5, <1>6, <1>7, TendedStutter DEF Next

(* The backup stack exists only while an update is under way or has failed, *)
(* and previous_stack leads to all its rows.                               *)
THEOREM AlwaysTended == Spec => [](Sound /\ Tended)
<1>1. Init => Sound /\ Tended
  BY SoundInit, TendedInit
<1>2. Sound /\ Tended /\ [Next]_vars => (Sound /\ Tended)'
  BY SoundNext, TendedNext
<1> QED BY <1>1, <1>2, PTL DEF Spec

(* When all resources are aligned the backup stack is empty, so that it    *)
(* does not matter whether its deletion succeeds: the group's own tasks    *)
(* removed what they had replaced, also when the group is a rollback's.    *)
THEOREM BackupIsEmptied == Spec => []BackupEmptied
<1>1. Tended => BackupEmptied
  BY DEF Tended, Kept, BackupEmptied
<1> QED BY <1>1, AlwaysTended, PTL

-----------------------------------------------------------------------------
(***************************************************************************)
(* Rows, templates and real resources.                                     *)
(***************************************************************************)
(* A resource of the new template has its definition when its task is done *)
(* and what is swapped in again has it too.                                *)
DefinedAt(n) ==
  /\ New(n) \in {"creating", "done"} => ex[n] # Nothing /\ row[ex[n]].def = target[n]
  /\ New(n) \notin {"creating", "done"} /\ prev[n] # Nothing => row[prev[n]].def = target[n]

Defined ==
  phase \in {"create", "update"} /\ outcome = "ok" => \A n \in DOMAIN target : DefinedAt(n)

Aligned == phase = "trim" \/ (phase = "flip" /\ stack.status = "COMPLETE")

NamedAt(n) ==
  /\ n \in DOMAIN target <=> ex[n] # Nothing
  /\ n \in DOMAIN target => row[ex[n]].def = target[n]

Named ==
  /\ Aligned => \A n \in Names : NamedAt(n)
  /\ phase = "create" => /\ target = stack.template
                         /\ \A n \in Names : ex[n] # Nothing => n \in DOMAIN target
  /\ stack = Nothing => \A i \in Ids : row[i] = Nothing

Main(i) == row[i] # Nothing /\ row[i].stack = "main"

Unique ==
  \A i, j \in Ids :
    /\ row[i] # Nothing /\ row[j] # Nothing
    /\ row[i].stack = row[j].stack /\ row[i].name = row[j].name
    => i = j

(* The rows of the stack are those that existing_stack leads to. *)
MainKnown == \A i \in Ids : Main(i) => ex[row[i].name] = i

MainNamed == \A i \in Ids : Main(i) => row[i].name \in DOMAIN stack.template

Told ==
  /\ \A n \in DOMAIN stack.template : \E i \in Ids : At("main", n, i)
  /\ \A i \in Ids : Main(i) => /\ row[i].name \in DOMAIN stack.template
                               /\ row[i].def = stack.template[row[i].name]

Whole == torn \cap {"kill", "crash"} = {}

Traced ==
  Whole =>
    /\ Unique
    /\ (phase \in {"create", "clean", "update"} \/ Aligned) => MainKnown
    /\ phase = "idle" /\ stack # Nothing /\ stack.status = "COMPLETE" => Told

Full ==
  torn = {} =>
    /\ \A i \in phys : row[i] # Nothing
    /\ phase = "idle" => backup = Nothing
    /\ phase = "flip" => stack.status = "COMPLETE"
    /\ phase # "unback"
    /\ phase \in {"idle", "delete"} /\ stack # Nothing => MainNamed
    /\ phase = "delete" => MainKnown

Exact == Defined /\ Named /\ Traced /\ Full

LEMMA TargetNames ==
  ASSUME Sound, phase \in {"create", "clean", "update", "trim", "flip"}
  PROVE  target \in Templates /\ DOMAIN target \subseteq Names
BY TemplatesAssumption DEF Sound, Fits, Placed

LEMMA StackNames ==
  ASSUME Sound, phase # "idle"
  PROVE  DOMAIN stack.template \subseteq Names
BY StackThere, TemplatesAssumption

(* The rows of the dictionaries keep their definitions. *)
Same(m) ==
  /\ New(m)' = New(m) /\ ex'[m] = ex[m] /\ prev'[m] = prev[m]
  /\ ex[m] # Nothing => row'[ex[m]].def = row[ex[m]].def
  /\ prev[m] # Nothing => row'[prev[m]].def = row[prev[m]].def

LEMMA ExactTask ==
  ASSUME Sound, Exact, NEW n \in Names, phase \notin {"idle", "trim", "flip"},
         UNCHANGED Others, outcome' = "ok" => outcome = "ok",
         \A m \in Names \ {n} : Same(m),
         /\ n \in DOMAIN target /\ outcome' = "ok" /\ phase \in {"create", "update"}
         => DefinedAt(n)',
         phase = "create" => n \in DOMAIN target,
         Unique /\ (phase \in {"create", "update"} => MainKnown) => Unique',
         MainKnown => MainKnown',
         \A i \in Ids : Main(i)' => (Main(i) /\ row'[i].name = row[i].name) \/ phase # "delete",
         torn = {} => \A i \in phys' : row'[i] # Nothing
  PROVE  Exact'
<1>1. UNCHANGED <<stack, backup, phase, target, torn>>
  BY DEF Others
<1>2. Defined'
  <2>1. ASSUME phase \in {"create", "update"}, outcome' = "ok", NEW m \in DOMAIN target
        PROVE  DefinedAt(m)'
    <3>1. CASE m = n
      BY <2>1, <3>1
    <3>2. CASE m # n
      <4>1. m \in Names \ {n}
        BY <2>1, <3>2, TargetNames
      <4>2. DefinedAt(m)
        BY <2>1 DEF Exact, Defined
      <4>3. Same(m)
        BY <4>1
      <4> QED BY <1>1, <4>2, <4>3 DEF DefinedAt, Same
    <3> QED BY <3>1, <3>2
  <2> QED BY <1>1, <2>1 DEF Defined
<1>3. Named'
  <2>1. stack # Nothing
    BY DEF Sound, Fits, Placed
  <2>2. ASSUME phase = "create", NEW m \in Names, ex'[m] # Nothing
        PROVE  m \in DOMAIN target
    BY <2>2 DEF Exact, Named, Same
  <2> QED BY <1>1, <2>1, <2>2 DEF Exact, Named, Aligned
<1>4. Traced'
  BY <1>1 DEF Exact, Traced, Whole, Aligned
<1>5. Full'
  <2>1. ASSUME torn = {}, phase = "delete" PROVE MainNamed' /\ MainKnown'
    <3>1. MainNamed /\ MainKnown
      BY <2>1 DEF Exact, Full, Sound, Fits, Placed
    <3> QED BY <1>1, <2>1, <3>1 DEF MainNamed
  <2> QED BY <1>1, <2>1 DEF Exact, Full
<1> QED BY <1>2, <1>3, <1>4, <1>5 DEF Exact

LEMMA SameRows ==
  ASSUME SameShape(row, row')
  PROVE  /\ Unique => Unique'
         /\ ex' = ex => (MainKnown => MainKnown')
         /\ \A i \in Ids : Main(i)' => Main(i) /\ row'[i].name = row[i].name
         /\ \A i \in Ids : Main(i) => Main(i)'
<1>1. ASSUME NEW i \in Ids
      PROVE  /\ row'[i] # Nothing <=> row[i] # Nothing
             /\ row'[i] # Nothing => row'[i].stack = row[i].stack /\ row'[i].name = row[i].name
  BY DEF SameShape
<1> QED BY <1>1 DEF Unique, MainKnown, Main

(* The rows of dictionaries' other names are other rows. *)
LEMMA OtherRows ==
  ASSUME Sound, NEW m \in Names, NEW n \in Names, m # n
  PROVE  /\ ex[m] # Nothing => /\ ex[m] \in Ids /\ row[ex[m]] # Nothing
                               /\ ex[m] # ex[n] /\ ex[m] # prev[n]
         /\ prev[m] # Nothing => /\ prev[m] \in Ids /\ row[prev[m]] # Nothing
                                 /\ prev[m] # ex[n] /\ prev[m] # prev[n]
BY ExLinked, PrevLinked DEF Sound

(* A step that leaves the rows where they are, with their definitions. *)
LEMMA ExactStill ==
  ASSUME Sound, Exact, NEW n \in Names, phase \notin {"idle", "trim", "flip"},
         UNCHANGED Others, UNCHANGED <<ex, prev, phys>>, outcome' = "ok" => outcome = "ok",
         \A m \in Names \ {n} : New(m)' = New(m),
         SameShape(row, row'), SameDefs(row, row'),
         /\ n \in DOMAIN target /\ outcome' = "ok" /\ phase \in {"create", "update"}
         /\ New(n)' \in {"creating", "done"}
         => \/ New(n) \in {"creating", "done"}
            \/ ex[n] # Nothing /\ row'[ex[n]].def = target[n],
         New(n) \in {"creating", "done"} => New(n)' \in {"creating", "done"},
         phase = "create" => n \in DOMAIN target
  PROVE  Exact'
<1>1. \A m \in Names : /\ ex[m] # Nothing => row'[ex[m]].def = row[ex[m]].def
                       /\ prev[m] # Nothing => row'[prev[m]].def = row[prev[m]].def
  BY ExLinked, PrevLinked DEF Sound, SameDefs
<1>2. \A m \in Names \ {n} : Same(m)
  BY <1>1 DEF Same
<1>3. /\ n \in DOMAIN target /\ outcome' = "ok" /\ phase \in {"create", "update"}
      => DefinedAt(n)'
  <2> SUFFICES ASSUME n \in DOMAIN target, outcome' = "ok", phase \in {"create", "update"}
               PROVE  DefinedAt(n)'
    OBVIOUS
  <2>1. DefinedAt(n)
    BY DEF Exact, Defined
  <2>2. target' = target
    BY DEF Others
  <2> QED BY <1>1, <2>1, <2>2 DEF DefinedAt
<1>4. torn = {} => \A i \in phys' : row'[i] # Nothing
  BY DEF Exact, Full, SameShape, Sound, Typed
<1> QED BY <1>2, <1>3, <1>4, SameRows, ExactTask

LEMMA SameItself ==
  ASSUME row' = row
  PROVE  SameShape(row, row') /\ SameDefs(row, row')
BY DEF SameShape, SameDefs

LEMMA ExactNew ==
  ASSUME Sound, Exact, NEW n \in Names, n \in DOMAIN target, phase \in {"create", "update"},
         \/ Unchanged(n) \/ UpdateRefused(n) \/ StartUpdate(n)
         \/ UpdateReplace(n) \/ Purge(n) \/ Created(n)
  PROVE  Exact'
<1>1. CASE Unchanged(n)
  <2>1. row[ex[n]].def = target[n] /\ ex[n] # Nothing
    BY <1>1 DEF Unchanged, Changed
  <2>2. /\ New(n) = "wait" /\ New(n)' = "done"
        /\ \A m \in Names \ {n} : New(m)' = New(m)
    BY <1>1, NewStarted DEF Unchanged, Stages
  <2> QED BY <1>1, <2>1, <2>2, SameItself, ExactStill DEF Unchanged, db, Others
<1>2. CASE UpdateRefused(n)
  <2>1. /\ New(n) = "wait" /\ New(n)' = "done" /\ outcome' # "ok"
        /\ \A m \in Names \ {n} : New(m)' = New(m)
    BY <1>2, NewStarted DEF UpdateRefused, Stages
  <2> QED BY <1>2, <2>1, SameItself, ExactStill DEF UpdateRefused, db, Others
<1>3. CASE StartUpdate(n)
  <2>1. /\ New(n) = "wait" /\ New(n)' = "updating"
        /\ \A m \in Names \ {n} : New(m)' = New(m)
    BY <1>3, NewStarted DEF StartUpdate, Stages
  <2> QED BY <1>3, <2>1, StartUpdateSound, ExactStill DEF StartUpdate, Others
<1>4. CASE UpdateReplace(n)
  <2>1. /\ New(n) = "updating" /\ New(n)' = "replace"
        /\ \A m \in Names \ {n} : New(m)' = New(m)
    BY <1>4, NewMoved DEF UpdateReplace, Stages
  <2> QED BY <1>4, <2>1, SameItself, ExactStill DEF UpdateReplace, db, Others
<1>5. CASE Purge(n)
  <2>1. /\ New(n) \in {"wait", "replace"} /\ New(n)' = "purging"
        /\ \A m \in Names \ {n} : New(m)' = New(m)
    BY <1>5, NewMoved, NewStarted DEF Purge, Stages
  <2> QED BY <1>5, <2>1, PurgeSound, ExactStill DEF Purge, Others
<1>6. CASE Created(n)
  <2>1. /\ New(n) = "creating" /\ New(n)' = "done"
        /\ \A m \in Names \ {n} : New(m)' = New(m)
    BY <1>6, NewMoved DEF Created, Stages
  <2> QED BY <1>6, <2>1, CreatedSound, ExactStill DEF Created, Others
<1> QED BY <1>1, <1>2, <1>3, <1>4, <1>5, <1>6

LEMMA ExactInPlace ==
  ASSUME Sound, Exact, NEW n \in Names, n \in DOMAIN target, phase \in {"create", "update"},
         UpdatedInPlace(n)
  PROVE  Exact'
<1>1. /\ SameShape(row, row') /\ ex[n] # Nothing /\ row'[ex[n]].def = target[n]
      /\ \A j \in Ids \ {ex[n]} : row'[j] = row[j]
  BY UpdatedInPlaceSound
<1>2. /\ New(n) = "updating" /\ New(n)' = "done" /\ outcome = "ok"
      /\ \A m \in Names \ {n} : New(m)' = New(m)
  BY NewMoved DEF UpdatedInPlace, Stages
<1>3. UNCHANGED Others /\ UNCHANGED <<phys, ex, prev>>
  BY DEF UpdatedInPlace, Others
<1>4. \A m \in Names \ {n} : Same(m)
  BY <1>1, <1>2, <1>3, OtherRows DEF Same
<1>5. DefinedAt(n)'
  BY <1>1, <1>2, <1>3 DEF DefinedAt, Others
<1>6. torn = {} => \A i \in phys' : row'[i] # Nothing
  BY <1>1, <1>3 DEF Exact, Full, SameShape, Sound, Typed
<1> QED BY <1>1, <1>2, <1>3, <1>4, <1>5, <1>6, SameRows, ExactTask

LEMMA ExactSwapIn ==
  ASSUME Sound, Tended, Exact, NEW n \in Names, n \in DOMAIN target,
         phase \in {"create", "update"}, SwapIn(n)
  PROVE  Exact'
<1>1. /\ phase = "update" /\ ex[n] # Nothing /\ prev[n] # Nothing
      /\ ex[n] \in Ids /\ prev[n] \in Ids
      /\ ex'[n] = prev[n] /\ prev'[n] = ex[n] /\ ex[n] # prev[n]
      /\ \A m \in Names \ {n} : ex'[m] = ex[m] /\ prev'[m] = prev[m]
      /\ row'[prev[n]] # Nothing /\ row'[prev[n]].stack = "main"
      /\ row'[prev[n]].name = n /\ row'[prev[n]].def = row[prev[n]].def
      /\ row'[ex[n]] # Nothing /\ row'[ex[n]].stack = "backup" /\ row'[ex[n]].name = n
      /\ \A j \in Ids \ {ex[n], prev[n]} : row'[j] = row[j]
  BY SwapInSound
<1>2. /\ New(n) = "replace" /\ New(n)' = "done" /\ outcome = "ok"
      /\ \A m \in Names \ {n} : New(m)' = New(m)
  BY NewMoved DEF SwapIn, Stages
<1>3. UNCHANGED Others /\ phys' = phys
  BY DEF SwapIn, Others
<1>4. \A m \in Names \ {n} : Same(m)
  BY <1>1, <1>2, OtherRows DEF Same
<1>5. DefinedAt(n)'
  <2>1. DefinedAt(n)
    BY <1>1, <1>2 DEF Exact, Defined
  <2>2. target' = target
    BY <1>3 DEF Others
  <2> QED BY <1>1, <1>2, <2>1, <2>2 DEF DefinedAt
<1>6. /\ row[prev[n]] # Nothing /\ row[prev[n]].stack = "backup" /\ row[prev[n]].name = n
      /\ row[ex[n]] # Nothing /\ row[ex[n]].stack = "main" /\ row[ex[n]].name = n
  BY <1>1, ExLinked, PrevLinked DEF Sound
<1>7. Unique => Unique'
  <2> SUFFICES ASSUME Unique, NEW i \in Ids, NEW j \in Ids, row'[i] # Nothing, row'[j] # Nothing,
                      row'[i].stack = row'[j].stack, row'[i].name = row'[j].name
               PROVE  i = j
    BY DEF Unique
  <2> DEFINE other(k) == IF k = ex[n] THEN prev[n] ELSE IF k = prev[n] THEN ex[n] ELSE k
  <2>1. \A k \in Ids : /\ other(k) \in Ids
                       /\ row'[k] # Nothing =>
                            /\ row[other(k)] # Nothing /\ row[other(k)].stack = row'[k].stack
                            /\ row[other(k)].name = row'[k].name
    BY <1>1, <1>6
  <2>2. other(i) = other(j)
    BY <2>1 DEF Unique
  <2> QED BY <1>1, <2>2
<1>8. MainKnown => MainKnown'
  <2> SUFFICES ASSUME MainKnown, NEW i \in Ids, Main(i)' PROVE ex'[row'[i].name] = i
    BY DEF MainKnown
  <2>1. row'[i] # Nothing /\ row'[i].stack = "main" /\ i # ex[n]
    BY <1>1 DEF Main
  <2>2. CASE i = prev[n]
    BY <1>1, <2>2
  <2>3. CASE i # prev[n]
    <3>1. row'[i] = row[i]
      BY <1>1, <2>1, <2>3
    <3>2. ex[row[i].name] = i /\ row[i].name \in Names
      BY <2>1, <3>1 DEF MainKnown, Main, Sound, Typed, RowMap, RowType
    <3>3. row[i].name # n
      BY <2>1, <3>2
    <3> QED BY <1>1, <3>1, <3>2, <3>3
  <2> QED BY <2>2, <2>3
<1>9. torn = {} => \A i \in phys' : row'[i] # Nothing
  BY <1>1, <1>3 DEF Exact, Full, Sound, Typed
<1> QED BY <1>1, <1>2, <1>3, <1>4, <1>5, <1>7, <1>8, <1>9, ExactTask

(* A step that removes a row of the backup stack or of the stack, and what *)
(* it stands for.                                                          *)
LEMMA Removes ==
  ASSUME Sound, NEW n \in Names, NEW d \in Ids, row'[d] = Nothing,
         \A j \in Ids \ {d} : row'[j] = row[j],
         phys' = phys \ {d},
         \A m \in Names \ {n} : ex'[m] = ex[m],
         ex'[n] = ex[n] \/ d = ex[n]
  PROVE  /\ Unique => Unique'
         /\ MainKnown => MainKnown'
         /\ \A i \in Ids : Main(i)' => Main(i) /\ row'[i].name = row[i].name
         /\ (\A i \in phys : row[i] # Nothing) => \A i \in phys' : row'[i] # Nothing
<1>1. ASSUME NEW i \in Ids, row'[i] # Nothing PROVE row'[i] = row[i] /\ i # d
  BY <1>1
<1>2. Unique => Unique'
  BY <1>1 DEF Unique
<1>3. MainKnown => MainKnown'
  <2> SUFFICES ASSUME MainKnown, NEW i \in Ids, Main(i)' PROVE ex'[row'[i].name] = i
    BY DEF MainKnown
  <2>1. row'[i] = row[i] /\ i # d /\ ex[row[i].name] = i /\ row[i].name \in Names
    BY <1>1 DEF MainKnown, Main, Sound, Typed, RowMap, RowType
  <2> QED BY <2>1
<1>4. \A i \in Ids : Main(i)' => Main(i) /\ row'[i].name = row[i].name
  BY <1>1 DEF Main
<1>5. (\A i \in phys : row[i] # Nothing) => \A i \in phys' : row'[i] # Nothing
  BY DEF Sound, Typed
<1> QED BY <1>2, <1>3, <1>4, <1>5

LEMMA ExactPurged ==
  ASSUME Sound, Exact, NEW n \in Names, n \in DOMAIN target, phase \in {"create", "update"},
         Purged(n)
  PROVE  Exact'
<1>1. /\ prev[n] # Nothing /\ prev[n] \in Ids /\ row'[prev[n]] = Nothing
      /\ prev'[n] = Nothing /\ \A m \in Names \ {n} : prev'[m] = prev[m]
      /\ \A j \in Ids \ {prev[n]} : row'[j] = row[j]
  BY PurgedSound
<1>2. /\ New(n) = "purging" /\ New(n)' = "replace" /\ outcome = "ok"
      /\ \A m \in Names \ {n} : New(m)' = New(m)
  BY NewMoved DEF Purged, Stages
<1>3. UNCHANGED Others /\ ex' = ex /\ phys' = phys \ {prev[n]}
  BY DEF Purged, Others
<1>4. \A m \in Names \ {n} : Same(m)
  BY <1>1, <1>2, <1>3, OtherRows DEF Same
<1>5. DefinedAt(n)'
  BY <1>1, <1>2 DEF DefinedAt
<1> DEFINE d == prev[n]
<1>6. /\ Unique => Unique'
      /\ MainKnown => MainKnown'
      /\ \A i \in Ids : Main(i)' => Main(i) /\ row'[i].name = row[i].name
      /\ (\A i \in phys : row[i] # Nothing) => \A i \in phys' : row'[i] # Nothing
  <2>1. d \in Ids /\ row'[d] = Nothing /\ (\A j \in Ids \ {d} : row'[j] = row[j]) /\ phys' = phys \ {d}
    BY <1>1, <1>3
  <2> HIDE DEF d
  <2> QED BY <1>3, <2>1, Removes
<1>7. torn = {} => \A i \in phys' : row'[i] # Nothing
  BY <1>6 DEF Exact, Full
<1> QED BY <1>1, <1>2, <1>3, <1>4, <1>5, <1>6, <1>7, ExactTask

LEMMA ExactCreate ==
  ASSUME Sound, Tended, Exact, NEW n \in Names, n \in DOMAIN target,
         phase \in {"create", "update"}, Create(n)
  PROVE  Exact'
<1>1. /\ Fresh \in Ids /\ row[Fresh] = Nothing
      /\ ex'[n] = Fresh /\ prev'[n] = ex[n]
      /\ \A m \in Names \ {n} : ex'[m] = ex[m] /\ prev'[m] = prev[m]
      /\ row'[Fresh] # Nothing /\ row'[Fresh].stack = "main"
      /\ row'[Fresh].name = n /\ row'[Fresh].def = target[n]
      /\ ex[n] # Nothing =>
           /\ ex[n] \in Ids /\ row'[ex[n]] # Nothing /\ row'[ex[n]].stack = "backup"
           /\ row'[ex[n]].name = n
      /\ \A j \in Ids : j # ex[n] /\ j # Fresh => row'[j] = row[j]
  BY CreateSound
<1>2. /\ New(n)' = "creating" /\ outcome = "ok" /\ New(n) \in {"wait", "replace"}
      /\ \A m \in Names \ {n} : New(m)' = New(m)
  BY NewMoved, NewStarted DEF Create, Stages
<1>3. UNCHANGED Others /\ prev[n] = Nothing /\ phys' = phys \cup {Fresh}
  BY DEF Create, Others
<1>4. \A m \in Names \ {n} : Same(m)
  <2> SUFFICES ASSUME NEW m \in Names \ {n} PROVE Same(m)
    OBVIOUS
  <2>1. /\ ex[m] # Nothing => ex[m] \in Ids /\ ex[m] # ex[n] /\ ex[m] # Fresh
        /\ prev[m] # Nothing => prev[m] \in Ids /\ prev[m] # ex[n] /\ prev[m] # Fresh
    BY <1>1, OtherRows
  <2> QED BY <1>1, <1>2, <2>1 DEF Same
<1>5. DefinedAt(n)'
  BY <1>1, <1>2, <1>3, NothingAssumption DEF DefinedAt, Others
<1>6. ex[n] # Nothing => row[ex[n]] # Nothing /\ row[ex[n]].stack = "main" /\ row[ex[n]].name = n
  BY ExLinked DEF Sound
<1>7. MainKnown => MainKnown'
  <2> SUFFICES ASSUME MainKnown, NEW i \in Ids, Main(i)' PROVE ex'[row'[i].name] = i
    BY DEF MainKnown
  <2>1. row'[i] # Nothing /\ row'[i].stack = "main" /\ i # ex[n]
    BY <1>1, NothingAssumption DEF Main
  <2>2. CASE i = Fresh
    BY <1>1, <2>2
  <2>3. CASE i # Fresh
    <3>1. row'[i] = row[i]
      BY <1>1, <2>1, <2>3
    <3>2. ex[row[i].name] = i /\ row[i].name \in Names
      BY <2>1, <3>1 DEF MainKnown, Main, Sound, Typed, RowMap, RowType
    <3>3. row[i].name # n
      BY <2>1, <3>2
    <3> QED BY <1>1, <3>1, <3>2, <3>3
  <2> QED BY <2>2, <2>3
<1>8. Whole => MainKnown
  BY DEF Exact, Traced
<1>9. phase = "update" => \A i \in Ids : row[i] # Nothing /\ row[i].stack = "backup" => row[i].name # n
  BY <1>3, NothingAssumption DEF Tended, Backed
<1>10. phase = "create" => ex[n] = Nothing
  BY <1>2 DEF Sound, Fits, Staged
<1>11. Unique /\ MainKnown => Unique'
  <2> SUFFICES ASSUME Unique, MainKnown,
                      NEW i \in Ids, NEW j \in Ids, row'[i] # Nothing, row'[j] # Nothing,
                      row'[i].stack = row'[j].stack, row'[i].name = row'[j].name
               PROVE  i = j
    BY DEF Unique
  <2>1. ASSUME NEW k \in Ids, row'[k] # Nothing, row'[k].name = n, row'[k].stack = "main"
        PROVE  k = Fresh
    <3>1. ex'[n] = k
      BY <1>7, <2>1 DEF MainKnown, Main
    <3> QED BY <1>1, <3>1
  <2>2. ASSUME NEW k \in Ids, row'[k] # Nothing, row'[k].name = n, row'[k].stack = "backup", ex[n] # Nothing
        PROVE  k = ex[n]
    <3>1. phase = "update" /\ k # Fresh
      BY <1>1, <1>10, <2>2
    <3> QED BY <1>1, <1>9, <2>2, <3>1
  <2>3. CASE i \in {ex[n], Fresh} \/ j \in {ex[n], Fresh}
    <3>1. (ex[n] # i /\ ex[n] # j) \/ ex[n] # Nothing
      BY NothingAssumption
    <3>2. row'[i].name = n /\ row'[j].name = n
      BY <1>1, <2>3, <3>1
    <3>3. row'[i].stack \in {"main", "backup"}
      BY <1>1, <2>3, <3>1
    <3> QED BY <1>1, <2>1, <2>2, <2>3, <3>1, <3>2, <3>3
  <2>4. CASE i \notin {ex[n], Fresh} /\ j \notin {ex[n], Fresh}
    BY <1>1, <2>4 DEF Unique
  <2> QED BY <2>3, <2>4
<1>12. torn = {} => \A i \in phys' : row'[i] # Nothing
  <2> SUFFICES ASSUME torn = {}, NEW i \in phys' PROVE row'[i] # Nothing
    OBVIOUS
  <2>1. i \in Ids /\ (i # Fresh => row[i] # Nothing)
    BY <1>1, <1>3 DEF Exact, Full, Sound, Typed
  <2> QED BY <1>1, <2>1, NothingAssumption
<1> QED BY <1>1, <1>2, <1>3, <1>4, <1>5, <1>7, <1>8, <1>11, <1>12, ExactTask

LEMMA ExactOld ==
  ASSUME Sound, Tended, Exact, NEW n \in Names, OldTask(n)
  PROVE  Exact'
<1>1. CASE StartDestroy(n) \/ NothingToDestroy(n)
  <2>1. /\ Old(n) = "wait" /\ outcome = "ok" /\ New(n)' = New(n)
        /\ \A m \in Names \ {n} : New(m)' = New(m)
    BY <1>1, OldStarted DEF StartDestroy, NothingToDestroy, Stages
  <2>2. UNCHANGED Others /\ UNCHANGED <<ex, prev, phys, outcome>>
    BY <1>1 DEF StartDestroy, NothingToDestroy, Others, db
  <2>3. SameShape(row, row') /\ SameDefs(row, row')
    BY <1>1, StartDestroySound, SameItself DEF NothingToDestroy, db
  <2>4. phase \notin {"idle", "create", "flip", "clean", "trim"}
    BY <2>1 DEF Sound, Fits, Staged, Placed, Tended, Kept
  <2> QED BY <2>1, <2>2, <2>3, <2>4, ExactStill
<1>2. CASE Destroyed(n)
  <2>1. /\ phase \in {"update", "unback", "delete"} /\ UNCHANGED Others
        /\ phase = "update" => prev'[n] = Nothing /\ New(n) = "done"
        /\ New(n)' = New(n)
        /\ \A m \in Names \ {n} : New(m)' = New(m) /\ Old(m)' = Old(m)
    BY <1>2, DestroyedTended
  <2>2. /\ Doomed(n) # Nothing /\ Doomed(n) \in Ids
        /\ row'[Doomed(n)] = Nothing
        /\ \A j \in Ids \ {Doomed(n)} : row'[j] = row[j]
        /\ \/ Doomed(n) = prev[n] /\ prev'[n] = Nothing /\ ex' = ex
           \/ Doomed(n) = ex[n] /\ ex'[n] = Nothing /\ prev' = prev
        /\ \A m \in Names \ {n} : ex'[m] = ex[m] /\ prev'[m] = prev[m]
    BY <1>2, DestroyedSound
  <2>3. phys' = phys \ {Doomed(n)} /\ outcome = "ok"
    BY <1>2 DEF Destroyed, Move
  <2>4. ASSUME NEW m \in Names \ {n} PROVE Same(m)
    <3>1. /\ ex[m] # Nothing => ex[m] \in Ids /\ ex[m] # Doomed(n)
          /\ prev[m] # Nothing => prev[m] \in Ids /\ prev[m] # Doomed(n)
      BY <2>2, OtherRows
    <3> QED BY <2>1, <2>2, <3>1 DEF Same
  <2>5. ASSUME n \in DOMAIN target, phase = "update" PROVE DefinedAt(n)'
    <3>1. Doomed(n) = prev[n] /\ prev[n] # Nothing
      BY <2>2, <2>5 DEF Doomed
    <3>2. DefinedAt(n)
      BY <2>3, <2>5 DEF Exact, Defined
    <3>3. ex[n] # Nothing /\ row[ex[n]].def = target[n]
      BY <2>1, <2>5, <3>2 DEF DefinedAt
    <3>4. ex[n] \in Ids /\ ex[n] # prev[n]
      BY <3>3, ExLinked DEF Sound
    <3>5. ex'[n] = ex[n] /\ row'[ex[n]] = row[ex[n]] /\ target' = target
      BY <2>1, <2>2, <3>1, <3>4 DEF Others
    <3> QED BY <2>1, <2>5, <3>3, <3>5 DEF DefinedAt
  <2> DEFINE d == Doomed(n)
  <2>6. /\ Unique => Unique'
        /\ MainKnown => MainKnown'
        /\ \A i \in Ids : Main(i)' => Main(i) /\ row'[i].name = row[i].name
        /\ (\A i \in phys : row[i] # Nothing) => \A i \in phys' : row'[i] # Nothing
    <3>1. /\ d \in Ids /\ row'[d] = Nothing /\ \A j \in Ids \ {d} : row'[j] = row[j]
      BY <2>2
    <3>2. phys' = phys \ {d} /\ (ex'[n] = ex[n] \/ d = ex[n])
      BY <2>2, <2>3
    <3> HIDE DEF d
    <3> QED BY <2>2, <3>1, <3>2, Removes
  <2>7. torn = {} => \A i \in phys' : row'[i] # Nothing
    BY <2>6 DEF Exact, Full
  <2> QED BY <2>1, <2>3, <2>4, <2>5, <2>6, <2>7, ExactTask
<1> QED BY <1>1, <1>2 DEF OldTask

LEMMA FailurePhase ==
  ASSUME Sound, outcome = "ok", ~Finished
  PROVE  phase \notin {"idle", "flip"}
<1> SUFFICES ASSUME phase \in {"idle", "flip"} PROVE Finished
  OBVIOUS
<1>1. \A n \in Names : New(n) = "done" /\ Old(n) = "done"
  BY DEF Sound, Fits, Placed
<1> QED BY <1>1, TasksAre DEF Finished, New, Old

LEMMA ExactFailure ==
  ASSUME Sound, Tended, Exact,
         Timeout \/ \E n \in Names : CreateFails(n) \/ UpdateFails(n) \/ DestroyFails(n)
  PROVE  Exact'
<1>1. /\ SameShape(row, row') /\ SameDefs(row, row')
      /\ outcome = "ok" /\ outcome' # "ok"
      /\ UNCHANGED Others /\ UNCHANGED <<phys, ex, prev, stage>>
      /\ ~Finished
  BY Failures
<1>2. phase \notin {"idle", "flip", "clean", "trim"}
  BY <1>1, FailureTended, FailurePhase
<1>3. UNCHANGED <<stack, backup, phase, target, torn>>
  BY <1>1 DEF Others
<1>4. Defined'
  BY <1>1 DEF Defined
<1>5. Named'
  BY <1>1, <1>2, <1>3 DEF Exact, Named, Aligned, Sound, Fits, Placed
<1>6. /\ Unique => Unique'
      /\ MainKnown => MainKnown'
      /\ \A i \in Ids : Main(i)' => Main(i) /\ row'[i].name = row[i].name
  BY <1>1, SameRows
<1>7. Traced'
  BY <1>2, <1>3, <1>6 DEF Exact, Traced, Whole, Aligned
<1>8. torn = {} => \A i \in phys' : row'[i] # Nothing
  BY <1>1 DEF Exact, Full, SameShape, Sound, Typed
<1>9. MainNamed => MainNamed'
  BY <1>3, <1>6 DEF MainNamed
<1>10. Full'
  BY <1>2, <1>3, <1>6, <1>8, <1>9 DEF Exact, Full
<1> QED BY <1>4, <1>5, <1>7, <1>10 DEF Exact

-----------------------------------------------------------------------------
(* Steps into a phase in which no task of a template is at work. *)
LEMMA ExactElse ==
  ASSUME phase' \notin {"create", "update"}, ~Aligned', stack' # Nothing, Traced', Full'
  PROVE  Exact'
BY DEF Exact, Defined, Named

(* An operation has ended, with its rows in place. *)
LEMMA ExactIdle ==
  ASSUME Sound, Exact, phase' = "idle", stack' # Nothing, SameShape(row, row'), UNCHANGED <<backup, phys>>,
         stack'.status = "COMPLETE" /\ Whole' => Told' /\ Whole,
         Whole' => Whole,
         torn' = {} => torn = {} /\ backup = Nothing /\ MainNamed'
  PROVE  Exact'
<1>1. ~Aligned'
  BY DEF Aligned
<1>2. Traced'
  BY <1>1, SameRows DEF Exact, Traced
<1>3. torn = {} => \A i \in phys' : row'[i] # Nothing
  BY DEF Exact, Full, SameShape, Sound, Typed
<1>4. Full'
  BY <1>3 DEF Full
<1> QED BY <1>1, <1>2, <1>4, ExactElse

(* When a create has finished the template tells what there is. *)
LEMMA ToldByNames ==
  ASSUME Sound, NEW t \in Templates, MainKnown,
         \A n \in Names : /\ n \in DOMAIN t <=> ex[n] # Nothing
                          /\ n \in DOMAIN t => row[ex[n]].def = t[n],
         row' = row, stack'.template = t
  PROVE  Told'
<1>1. DOMAIN t \subseteq Names
  BY TemplatesAssumption
<1>2. ASSUME NEW n \in DOMAIN t PROVE \E i \in Ids : At("main", n, i)'
  <2>1. n \in Names /\ ex[n] # Nothing
    BY <1>1, <1>2
  <2>2. ex[n] \in Ids /\ At("main", n, ex[n])
    BY <2>1, ExLinked DEF Sound, At
  <2>3. \E i \in Ids : At("main", n, i)
    BY <2>2
  <2> QED BY <2>3 DEF At
<1>3. ASSUME NEW i \in Ids, Main(i)'
      PROVE  row'[i].name \in DOMAIN t /\ row'[i].def = t[row'[i].name]
  <2>1. row[i] # Nothing /\ row[i].stack = "main" /\ row[i].name \in Names
    BY <1>3 DEF Main, Sound, Typed, RowMap, RowType
  <2>2. ex[row[i].name] = i /\ i # Nothing
    BY <2>1, NothingAssumption DEF MainKnown, Main
  <2> QED BY <2>1, <2>2
<1> QED BY <1>2, <1>3 DEF Told

LEMMA ExactCreateEnds ==
  ASSUME Sound, Tended, Exact, CreateEnds
  PROVE  Exact'
<1>1. /\ phase = "create" /\ phase' = "idle"
      /\ UNCHANGED <<backup, row, phys, ops, torn>>
      /\ \/ Finished /\ State("CREATE", "COMPLETE")
         \/ (outcome # "ok" /\ ~stack.rollback) /\ State("CREATE", "FAILED")
  BY Forgets DEF CreateEnds
<1>2. /\ stack' # Nothing /\ stack'.template = stack.template
      /\ stack'.status = "COMPLETE" => Finished
      /\ stack.template \in Templates
  BY <1>1, StackThere, StateIs
<1>3. /\ target = stack.template /\ \A n \in Names : ex[n] # Nothing => n \in DOMAIN target
  BY <1>1 DEF Exact, Named
<1>4. Whole => MainKnown
  BY <1>1 DEF Exact, Traced
<1>5. ASSUME Whole, Finished PROVE Told'
  <2>1. \A n \in DOMAIN target : ex[n] # Nothing /\ row[ex[n]].def = target[n]
    <3>1. \A n \in DOMAIN target : New(n) = "done" /\ outcome = "ok"
      BY <1>1, <1>5, FinishedStages, TargetNames
    <3> QED BY <1>1, <3>1 DEF Exact, Defined, DefinedAt
  <2> QED BY <1>1, <1>2, <1>3, <1>4, <1>5, <2>1, ToldByNames
<1>6. torn = {} => backup = Nothing /\ MainNamed'
  <2>1. ASSUME MainKnown PROVE MainNamed'
    <3> SUFFICES ASSUME NEW i \in Ids, Main(i)' PROVE row'[i].name \in DOMAIN stack'.template
      BY DEF MainNamed
    <3>1. row'[i] = row[i] /\ ex[row[i].name] = i /\ i # Nothing /\ row[i].name \in Names
      BY <1>1, <2>1, NothingAssumption DEF MainKnown, Main, Sound, Typed, RowMap, RowType
    <3> QED BY <1>2, <1>3, <3>1
  <2> QED BY <1>1, <1>4, <2>1 DEF Whole, Tended, Kept
<1>7. Whole' <=> Whole
  BY <1>1 DEF Whole
<1> QED BY <1>1, <1>2, <1>5, <1>6, <1>7, SameItself, ExactIdle

LEMMA ExactFlip ==
  ASSUME Sound, Tended, Exact, Flip
  PROVE  Exact'
<1>1. /\ phase = "flip" /\ phase' = "idle" /\ stack' = [stack EXCEPT !.template = target]
      /\ UNCHANGED <<backup, row, phys, ops, torn>>
  BY Forgets DEF Flip
<1>2. target \in Templates /\ stack \in StackType /\ stack # Nothing
  BY <1>1, StackThere, NothingAssumption DEF Sound, Fits, Placed
<1>3. stack' \in StackType /\ stack'.template = target /\ stack'.status = stack.status
  BY <1>1, <1>2 DEF StackType
<1>4. stack' # Nothing
  BY <1>3, NothingAssumption
<1>5. Whole /\ stack.status = "COMPLETE" => MainKnown
  BY <1>1 DEF Exact, Traced, Aligned
<1>6. stack.status = "COMPLETE" => \A n \in Names : NamedAt(n)
  BY <1>1 DEF Exact, Named, Aligned
<1>7. ASSUME Whole, stack.status = "COMPLETE" PROVE Told'
  BY <1>1, <1>2, <1>3, <1>5, <1>6, <1>7, ToldByNames DEF NamedAt
<1>8. torn = {} => stack.status = "COMPLETE"
  BY <1>1 DEF Exact, Full
<1>9. torn = {} => backup = Nothing /\ MainNamed'
  <2>1. torn = {} => Whole
    BY DEF Whole
  <2>2. Told' => MainNamed'
    BY DEF Told, MainNamed
  <2>3. stack.status = "COMPLETE" => backup = Nothing
    BY <1>1, <1>2 DEF Tended, Kept
  <2> QED BY <1>7, <1>8, <2>1, <2>2, <2>3
<1>10. Whole' <=> Whole
  BY <1>1 DEF Whole
<1> QED BY <1>1, <1>3, <1>4, <1>7, <1>9, <1>10, SameItself, ExactIdle

LEMMA ExactDeleteFailed ==
  ASSUME Sound, Tended, Exact, DeleteFailed
  PROVE  Exact'
<1>1. /\ phase \in {"unback", "delete"} /\ phase' = "idle"
      /\ UNCHANGED <<backup, row, phys, ops, torn>>
  BY Forgets DEF DeleteFailed
<1>2. stack \in StackType /\ stack # Nothing /\ stack.action \in {"CREATE", "UPDATE", "ROLLBACK", "DELETE"}
  BY <1>1, StackThere, NothingAssumption DEF StackType
<1>3. stack' # Nothing /\ stack'.status = "FAILED" /\ stack'.template = stack.template
  BY <1>2, StateIs DEF DeleteFailed
<1>4. torn = {} => backup = Nothing /\ MainNamed
  BY <1>1, <1>2 DEF Exact, Full, Tended, Kept
<1>5. MainNamed => MainNamed'
  BY <1>1, <1>3 DEF MainNamed, Main
<1>6. Whole' <=> Whole
  BY <1>1 DEF Whole
<1> QED BY <1>1, <1>3, <1>4, <1>5, <1>6, SameItself, ExactIdle

LEMMA ExactDeleteDone ==
  ASSUME Sound, Tended, Exact, DeleteDone
  PROVE  Exact'
<1>1. phase = "delete" /\ UNCHANGED <<backup, row, phys, phase, ex, torn>>
  BY DEF DeleteDone, mem
<1>2. stack \in StackType /\ stack # Nothing /\ stack.action \in {"CREATE", "UPDATE", "ROLLBACK", "DELETE"}
  BY <1>1, StackThere, NothingAssumption DEF StackType
<1>3. stack' # Nothing /\ stack'.template = stack.template
  BY <1>2, StateIs DEF DeleteDone
<1>4. Traced'
  BY <1>1 DEF Exact, Traced, Whole, Unique, Aligned
<1>5. MainNamed => MainNamed'
  BY <1>1, <1>3 DEF MainNamed, Main
<1>6. MainKnown => MainKnown'
  BY <1>1 DEF MainKnown, Main
<1>7. Full'
  BY <1>1, <1>2, <1>5, <1>6 DEF Exact, Full
<1> QED BY <1>1, <1>3, <1>4, <1>7, ExactElse DEF Aligned

LEMMA ExactCut ==
  ASSUME Sound, Exact, Kill \/ Crash
  PROVE  Exact'
<1>1. phase # "idle" /\ phase' = "idle" /\ torn' \cap {"kill", "crash"} # {}
      /\ UNCHANGED <<stack, backup, phys, ops>>
  BY Forgets DEF Kill, Crash, db
<1>2. SameShape(row, row')
  BY SameItself, AbortedShape, CutLinked DEF Kill, Crash, db, Sound, Typed
<1>3. stack' # Nothing
  BY <1>1, StackThere, NothingAssumption
<1> QED BY <1>1, <1>2, <1>3, ExactIdle DEF Whole

LEMMA ExactDeleted ==
  ASSUME Sound, Tended, Exact, Deleted
  PROVE  Exact'
<1>1. /\ phase = "delete" /\ Finished /\ phase' = "idle" /\ stack' = Nothing
      /\ row' = Drop(row, "main") /\ UNCHANGED <<backup, phys, ops, torn>>
  BY Forgets DEF Deleted
<1>2. backup = Nothing
  BY DeletedTended
<1>3. \A i \in Ids : row'[i] = Nothing
  BY <1>1, <1>2, Drops DEF Tended, Backed, Sound, Typed, RowMap, RowType
<1>4. ex = Empty
  BY <1>1, NoneLeft
<1>5. torn = {} => \A i \in Ids : ~Main(i)
  <2> SUFFICES ASSUME torn = {}, NEW i \in Ids, Main(i) PROVE FALSE
    OBVIOUS
  <2>1. ex[row[i].name] = i /\ row[i].name \in Names
    BY <1>1 DEF Exact, Full, MainKnown, Main, Sound, Typed, RowMap, RowType
  <2> QED BY <1>4, <2>1, EmptyIs, NothingAssumption
<1>6. torn = {} => phys = {}
  <2> SUFFICES ASSUME torn = {}, NEW i \in phys PROVE FALSE
    OBVIOUS
  <2>1. i \in Ids /\ row[i] # Nothing
    BY DEF Exact, Full, Sound, Typed
  <2>2. row[i].stack = "backup"
    BY <1>5, <2>1 DEF Main, Sound, Typed, RowMap, RowType
  <2> QED BY <1>2, <2>1, <2>2 DEF Tended, Backed
<1>7. Traced'
  BY <1>1, <1>3 DEF Traced, Unique, Aligned
<1>8. Full'
  BY <1>1, <1>2, <1>6 DEF Full
<1>9. Defined' /\ Named'
  BY <1>1, <1>3 DEF Defined, Named, Aligned
<1> QED BY <1>7, <1>8, <1>9 DEF Exact

-----------------------------------------------------------------------------
LEMMA ExactBeginCreate ==
  ASSUME Sound, Exact, NEW t \in Templates, NEW r \in Rollbacks, BeginCreate(t, r)
  PROVE  Exact'
<1>1. /\ phase = "idle" /\ stack = Nothing /\ target' = t
      /\ UNCHANGED <<backup, row, phys, ex, prev, torn>>
  BY DEF BeginCreate, Begin
<1>2. stack' # Nothing /\ stack'.template = t
  <2>1. stack' \in StackType
    BY RollbacksAssumption DEF BeginCreate, StackType
  <2> QED BY <2>1, NothingAssumption DEF BeginCreate
<1>3. ex = Empty /\ prev = Empty
  BY <1>1 DEF Sound, Fits, Placed
<1>4. phase' = "create" /\ \A n \in Names : n \in DOMAIN t => New(n)' = "wait"
  <2> DEFINE nodes == {"new"} \X (DOMAIN t)
  <2>1. StartGroup("create", nodes, CreateEdges(t)) /\ \A n \in Names : n \in DOMAIN t => <<"new", n>> \in nodes
    BY NewsAre DEF BeginCreate
  <2> HIDE DEF nodes
  <2> QED BY <2>1, GroupStarts
<1>5. DOMAIN t \subseteq Names
  BY TemplatesAssumption
<1>6. Defined'
  BY <1>1, <1>3, <1>4, <1>5, EmptyIs DEF Defined, DefinedAt
<1>7. Named'
  BY <1>1, <1>2, <1>3, <1>4, EmptyIs DEF Named, Aligned
<1>8. \A i \in Ids : row[i] = Nothing
  BY <1>1 DEF Exact, Named
<1>9. Traced'
  BY <1>1, <1>4, <1>8 DEF Traced, Unique, MainKnown, Main
<1>10. Full'
  BY <1>1, <1>4 DEF Exact, Full
<1> QED BY <1>6, <1>7, <1>9, <1>10 DEF Exact

(* What is loaded is all there is, if the template names it. *)
LEMMA LoadKnows ==
  ASSUME row \in RowMap, Unique, NEW t, \A i \in Ids : Main(i) => row[i].name \in DOMAIN t,
         NEW i \in Ids, Main(i)
  PROVE  Load("main", t)[row[i].name] = i
<1>1. row[i] # Nothing /\ row[i].stack = "main" /\ row[i].name \in Names
  BY DEF Main, RowMap, RowType
<1> DEFINE n == row[i].name
           l == Load("main", t)[n]
<1>2. At("main", n, i) /\ n \in DOMAIN t
  BY <1>1 DEF At
<1>3. l # Nothing /\ At("main", n, l) /\ l \in Ids
  BY <1>1, <1>2, Loads DEF Dictionary
<1> QED BY <1>1, <1>3 DEF Unique, At

LEMMA KnownAfterLoad ==
  ASSUME row \in RowMap, Unique, NEW t, \A i \in Ids : Main(i) => row[i].name \in DOMAIN t,
         SameShape(row, row'), ex' = Load("main", t)
  PROVE  MainKnown'
<1> SUFFICES ASSUME NEW i \in Ids, Main(i)' PROVE ex'[row'[i].name] = i
  BY DEF MainKnown
<1>1. Main(i) /\ row'[i].name = row[i].name
  BY SameRows
<1> QED BY <1>1, LoadKnows

LEMMA ExactBeginUpdate ==
  ASSUME Sound, Tended, Exact, NEW t \in Templates, BeginUpdate(t)
  PROVE  Exact'
<1>1. /\ SameShape(row, row') /\ phase = "idle" /\ stack \in StackType
      /\ backup' # Nothing
  BY BeginUpdateSound
<1>2. /\ UNCHANGED <<phys, torn>> /\ ex' = Load("main", stack.template)
      /\ stack.status = "COMPLETE" /\ stack # Nothing
  BY DEF BeginUpdate, Begin
<1>3. stack' # Nothing
  BY <1>1, StateIs DEF BeginUpdate
<1>4. phase' = "clean"
  <2> DEFINE r == row'
             d == prev'
  <2>1. StartDestroys("clean", r, d)
    BY DEF BeginUpdate
  <2> HIDE DEF r, d
  <2> QED BY <2>1, DestroysStart
<1>5. Whole' <=> Whole
  BY <1>2 DEF Whole
<1>6. Whole => Unique /\ Told
  BY <1>1, <1>2 DEF Exact, Traced
<1>7. Whole => MainKnown'
  <2> DEFINE t0 == stack.template
  <2>1. ASSUME Whole PROVE Unique /\ \A i \in Ids : Main(i) => row[i].name \in DOMAIN t0
    BY <1>6, <2>1 DEF Told
  <2>2. ex' = Load("main", t0) /\ row \in RowMap
    BY <1>2 DEF Sound, Typed
  <2> HIDE DEF t0
  <2> QED BY <1>1, <2>1, <2>2, KnownAfterLoad
<1>8. Traced'
  BY <1>1, <1>4, <1>5, <1>6, <1>7, SameRows DEF Traced
<1>9. torn = {} => \A i \in phys' : row'[i] # Nothing
  BY <1>1, <1>2 DEF Exact, Full, SameShape, Sound, Typed
<1>10. Full'
  BY <1>2, <1>4, <1>9 DEF Full
<1> QED BY <1>3, <1>4, <1>8, <1>10, ExactElse DEF Aligned

LEMMA ExactUpdateInvalid ==
  ASSUME Sound, Exact, UpdateInvalid
  PROVE  Exact'
<1>1. /\ phase = "idle" /\ stack \in StackType /\ UNCHANGED <<backup, row, phys, phase, torn>>
      /\ stack # Nothing
  BY DEF UpdateInvalid, Begin, Sound, Typed
<1>2. stack' # Nothing /\ stack'.status = "FAILED" /\ stack'.template = stack.template
  BY <1>1, StateIs DEF UpdateInvalid
<1>3. torn = {} => backup = Nothing /\ MainNamed
  BY <1>1 DEF Exact, Full
<1>4. MainNamed => MainNamed'
  BY <1>1, <1>2 DEF MainNamed, Main
<1>5. Whole' <=> Whole
  BY <1>1 DEF Whole
<1> QED BY <1>1, <1>2, <1>3, <1>4, <1>5, SameItself, ExactIdle

LEMMA ExactBeginDelete ==
  ASSUME Sound, Exact, BeginDelete
  PROVE  Exact'
<1>1. /\ SameShape(row, row') /\ phase = "idle" /\ stack \in StackType
      /\ phase' = (IF backup = Nothing THEN "delete" ELSE "unback")
  BY BeginDeleteSound
<1>2. /\ UNCHANGED <<backup, phys, torn>> /\ ex' = Load("main", stack.template) /\ stack # Nothing
  BY DEF BeginDelete, Begin
<1>3. stack' # Nothing /\ stack'.template = stack.template
  BY <1>1, StateIs DEF BeginDelete
<1>4. Whole' <=> Whole
  BY <1>2 DEF Whole
<1>5. Traced'
  BY <1>1, <1>4, SameRows DEF Exact, Traced, Aligned
<1>6. torn = {} => backup = Nothing /\ MainNamed /\ Unique
  BY <1>1, <1>2 DEF Exact, Full, Traced, Whole
<1>7. torn = {} => MainKnown' /\ MainNamed'
  <2> DEFINE t0 == stack.template
  <2>1. ASSUME torn = {} PROVE Unique /\ \A i \in Ids : Main(i) => row[i].name \in DOMAIN t0
    BY <1>6, <2>1 DEF MainNamed
  <2>2. ex' = Load("main", t0) /\ row \in RowMap /\ stack'.template = t0
    BY <1>2, <1>3 DEF Sound, Typed
  <2> HIDE DEF t0
  <2>3. torn = {} => MainKnown'
    BY <1>1, <2>1, <2>2, KnownAfterLoad
  <2>4. torn = {} => MainNamed'
    BY <1>1, <2>1, <2>2, SameRows DEF MainNamed
  <2> QED BY <2>3, <2>4
<1>8. torn = {} => \A i \in phys' : row'[i] # Nothing
  BY <1>1, <1>2 DEF Exact, Full, SameShape, Sound, Typed
<1>9. Full'
  BY <1>1, <1>2, <1>6, <1>7, <1>8 DEF Full
<1> QED BY <1>1, <1>3, <1>5, <1>9, ExactElse DEF Aligned

LEMMA ExactCreateRollback ==
  ASSUME Sound, Exact, CreateRollback
  PROVE  Exact'
<1>1. /\ phase = "create" /\ phase' = "delete" /\ UNCHANGED <<backup, row, phys, ex, torn>>
  BY DestroysStart DEF CreateRollback
<1>2. stack' # Nothing /\ stack'.template = stack.template
  BY <1>1, StackThere, StateIs DEF CreateRollback
<1>3. Whole' <=> Whole
  BY <1>1 DEF Whole
<1>4. SameShape(row, row')
  BY <1>1, SameItself
<1>5. Traced'
  BY <1>1, <1>3, <1>4, SameRows DEF Exact, Traced, Aligned
<1>6. torn = {} => MainKnown
  BY <1>1 DEF Exact, Traced, Whole
<1>7. MainKnown => MainNamed'
  <2> SUFFICES ASSUME MainKnown, NEW i \in Ids, Main(i)' PROVE row'[i].name \in DOMAIN stack'.template
    BY DEF MainNamed
  <2>1. row'[i] = row[i] /\ ex[row[i].name] = i /\ i # Nothing /\ row[i].name \in Names
    BY <1>1, NothingAssumption DEF MainKnown, Main, Sound, Typed, RowMap, RowType
  <2> QED BY <1>1, <1>2, <2>1 DEF Exact, Named
<1>8. MainKnown => MainKnown'
  BY <1>1, <1>4, SameRows
<1>9. Full'
  BY <1>1, <1>6, <1>7, <1>8 DEF Exact, Full
<1> QED BY <1>1, <1>2, <1>5, <1>9, ExactElse DEF Aligned

LEMMA ExactAlign ==
  ASSUME Sound, Tended, Exact, Align
  PROVE  Exact'
<1>1. /\ phase = "clean"
      /\ UNCHANGED <<stack, backup, row, phys, target, rolling, ex, prev, ops, torn>>
  BY DEF Align, db
<1>2. /\ phase' = "update"
      /\ \A n \in Names : New(n)' = IF n \in DOMAIN target THEN "wait" ELSE "done"
  BY UpdateStart DEF Align
<1>3. prev = Empty /\ DOMAIN target \subseteq Names
  BY <1>1, TargetNames DEF Tended, Kept
<1>4. Defined'
  BY <1>1, <1>2, <1>3, EmptyIs DEF Defined, DefinedAt
<1>5. Named'
  BY <1>1, <1>2 DEF Named, Aligned, Sound, Fits, Placed
<1>6. Whole' <=> Whole
  BY <1>1 DEF Whole
<1>7. Traced'
  BY <1>1, <1>2, <1>6, SameItself, SameRows DEF Exact, Traced
<1>8. Full'
  BY <1>1, <1>2 DEF Exact, Full
<1> QED BY <1>4, <1>5, <1>7, <1>8 DEF Exact

LEMMA ExactRollBack ==
  ASSUME Sound, Tended, Exact, RollBack
  PROVE  Exact'
<1>1. /\ SameShape(row, row') /\ backup \in Templates /\ stack.template \in Templates
  BY RollBackSound
<1>2. UNCHANGED <<stack, backup, phys, ex, ops, torn>> /\ target' = stack.template
      /\ row' = Reload("backup", backup)
  BY DEF RollBack
<1>3. phase = "update" /\ backup = stack.template /\ \A n \in Names : prev'[n] = prev[n]
  BY RollBackTended
<1>4. /\ phase' = "update" /\ \A n \in Names : n \in DOMAIN backup => New(n)' = "wait"
  <2> DEFINE t == target'
  <2>1. StartGroup("update", Olds(ex) \cup {"new"} \X (DOMAIN t),
                   RollBackEdges(stack.template))
    BY DEF RollBack
  <2>2. t = backup
    BY <1>2, <1>3
  <2> HIDE DEF t
  <2> QED BY <2>1, <2>2, UpdateStart
<1>5. ASSUME NEW n \in DOMAIN backup PROVE DefinedAt(n)'
  <2>1. n \in Names
    BY <1>1, TemplatesAssumption
  <2>2. New(n)' = "wait" /\ prev'[n] = prev[n]
    BY <1>3, <1>4, <2>1
  <2>3. prev[n] # Nothing => row'[prev[n]].def = target'[n]
    <3>1. prev[n] # Nothing => /\ prev[n] \in Ids /\ row[prev[n]] # Nothing
                               /\ row[prev[n]].stack = "backup" /\ row[prev[n]].name = n
      BY <2>1, PrevLinked DEF Sound
    <3>2. prev[n] # Nothing => Reload("backup", backup)[prev[n]].def = backup[n]
      BY <1>1, <3>1, ReloadShape DEF Sound, Typed
    <3> QED BY <1>2, <1>3, <3>2
  <2> QED BY <2>2, <2>3 DEF DefinedAt
<1>6. Defined'
  BY <1>2, <1>3, <1>5 DEF Defined
<1>7. Named'
  BY <1>2, <1>3, <1>4 DEF Named, Aligned, Sound, Fits, Placed
<1>8. Whole' <=> Whole
  BY <1>2 DEF Whole
<1>9. Traced'
  BY <1>1, <1>2, <1>3, <1>4, <1>8, SameRows DEF Exact, Traced
<1>10. torn = {} => \A i \in phys' : row'[i] # Nothing
  BY <1>1, <1>2 DEF Exact, Full, SameShape, Sound, Typed
<1>11. Full'
  BY <1>2, <1>4, <1>10 DEF Full
<1> QED BY <1>6, <1>7, <1>9, <1>11 DEF Exact

LEMMA ExactUpdateFailed ==
  ASSUME Sound, Exact, UpdateFailed
  PROVE  Exact'
<1>1. phase' = "flip" /\ row' = row /\ phase # "idle" /\ torn' = torn \cup {"failed"}
  BY DEF UpdateFailed
<1>2. stack' # Nothing /\ stack'.status = "FAILED"
  <2>1. UpdateAction \in {"ROLLBACK", "UPDATE"}
    BY DEF UpdateAction
  <2> QED BY <1>1, <2>1, StackThere, StateIs DEF UpdateFailed
<1>3. ~Aligned'
  BY <1>1, <1>2 DEF Aligned
<1>4. Whole' => Whole
  BY <1>1 DEF Whole
<1>5. Traced'
  BY <1>1, <1>3, <1>4, SameItself, SameRows DEF Exact, Traced
<1>6. Full'
  BY <1>1 DEF Full
<1> QED BY <1>1, <1>2, <1>3, <1>5, <1>6, ExactElse

LEMMA ExactTrim ==
  ASSUME Sound, Tended, Exact, Trim
  PROVE  Exact'
<1>1. /\ phase = "update" /\ Finished /\ phase' = "trim"
      /\ UNCHANGED <<stack, backup, row, phys, target, ex, torn>>
  BY DestroysStart DEF Trim, db
<1>2. prev = Empty
  BY TrimTended
<1>3. ASSUME NEW n \in Names PROVE NamedAt(n)
  <2>1. New(n) = "done" /\ Old(n) = "done" /\ outcome = "ok"
    BY <1>1, FinishedStages
  <2>2. CASE n \in DOMAIN target
    BY <1>1, <2>1, <2>2 DEF Exact, Defined, DefinedAt, NamedAt
  <2>3. CASE n \notin DOMAIN target
    <3>1. Doomed(n) = Nothing /\ prev[n] = Nothing
      BY <1>1, <1>2, <2>1, EmptyIs DEF Tended, Moved, MovedAt
    <3> QED BY <1>1, <2>3, <3>1 DEF Doomed, NamedAt
  <2> QED BY <2>2, <2>3
<1>4. Named'
  BY <1>1, <1>3 DEF Named, NamedAt, Sound, Fits, Placed
<1>5. Defined'
  BY <1>1 DEF Defined
<1>6. Whole' <=> Whole
  BY <1>1 DEF Whole
<1>7. Traced'
  BY <1>1, <1>6, SameItself, SameRows DEF Exact, Traced
<1>8. Full'
  BY <1>1 DEF Exact, Full
<1> QED BY <1>4, <1>5, <1>7, <1>8 DEF Exact

LEMMA ExactTrimmed ==
  ASSUME Sound, Tended, Exact, Trimmed
  PROVE  Exact'
<1>1. /\ phase = "trim" /\ phase' = "flip" /\ UNCHANGED <<phys, target, ex, prev, torn>>
  BY DEF Trimmed, mem
<1>2. stack' # Nothing /\ stack'.status = "COMPLETE"
  <2>1. UpdateAction \in {"ROLLBACK", "UPDATE"}
    BY DEF UpdateAction
  <2> QED BY <1>1, <2>1, StackThere, StateIs DEF Trimmed
<1>3. \A i \in Ids : row'[i] = row[i]
  BY TrimmedTended
<1>4. ASSUME NEW n \in Names PROVE NamedAt(n)'
  <2>1. NamedAt(n)
    BY <1>1 DEF Exact, Named, Aligned
  <2>2. ex[n] # Nothing => ex[n] \in Ids
    BY ExLinked DEF Sound
  <2> QED BY <1>1, <1>3, <2>1, <2>2 DEF NamedAt
<1>5. Named'
  BY <1>1, <1>2, <1>4 DEF Named
<1>6. Defined'
  BY <1>1 DEF Defined
<1>7. Whole' <=> Whole
  BY <1>1 DEF Whole
<1>8. SameShape(row, row')
  BY <1>3 DEF SameShape
<1>9. Traced'
  BY <1>1, <1>7, <1>8, SameRows DEF Exact, Traced, Aligned
<1>10. Full'
  BY <1>1, <1>2, <1>3 DEF Exact, Full, Sound, Typed
<1> QED BY <1>5, <1>6, <1>9, <1>10 DEF Exact

LEMMA ExactUnbacked ==
  ASSUME Sound, Exact, Unbacked
  PROVE  Exact'
<1>1. /\ phase = "unback" /\ row' = Drop(row, "backup") /\ UNCHANGED <<stack, phys, torn>>
  BY DEF Unbacked
<1>2. phase' = "delete"
  <2> DEFINE r == row'
  <2>1. StartDestroys("delete", r, ex)
    BY DEF Unbacked
  <2> HIDE DEF r
  <2> QED BY <2>1, DestroysStart
<1>3. stack # Nothing /\ torn # {}
  BY <1>1 DEF Exact, Full, Sound, Fits, Placed
<1>4. \A i \in Ids : row'[i] # Nothing => row'[i] = row[i]
  BY <1>1, Drops DEF Sound, Typed
<1>5. Traced'
  BY <1>1, <1>2, <1>4 DEF Exact, Traced, Whole, Unique, Aligned
<1>6. Full'
  BY <1>1, <1>3 DEF Full
<1> QED BY <1>1, <1>2, <1>3, <1>5, <1>6, ExactElse DEF Aligned

-----------------------------------------------------------------------------
LEMMA ExactInit ==
  ASSUME Init
  PROVE  Exact
BY NothingAssumption DEF Init, Exact, Defined, Named, Aligned, Traced, Unique, Full

LEMMA ExactStutter ==
  ASSUME Exact, UNCHANGED vars
  PROVE  Exact'
<1>1. UNCHANGED <<stack, backup, row, phys, phase, target, rolling, ex, prev, first, edges,
                  stage, outcome, ops, torn>>
  BY DEF vars, db, mem
<1>2. \A n \in DOMAIN target : DefinedAt(n) => DefinedAt(n)'
  BY <1>1 DEF DefinedAt, New
<1>3. Defined'
  BY <1>1, <1>2 DEF Exact, Defined
<1>4. Named'
  BY <1>1 DEF Exact, Named, NamedAt, Aligned
<1>5. Traced'
  BY <1>1 DEF Exact, Traced, Whole, Unique, MainKnown, Main, Told, At, Aligned
<1>6. Full'
  BY <1>1 DEF Exact, Full, MainKnown, MainNamed, Main
<1> QED BY <1>3, <1>4, <1>5, <1>6 DEF Exact

LEMMA ExactNext ==
  ASSUME Sound, Tended, Exact, [Next]_vars
  PROVE  Exact'
<1>1. ASSUME NEW n \in Names, NewTask(n) PROVE Exact'
  BY <1>1, ExactNew, ExactInPlace, ExactSwapIn, ExactPurged, ExactCreate DEF NewTask
<1>2. ASSUME NEW n \in Names, OldTask(n) PROVE Exact'
  BY <1>2, ExactOld
<1>3. ASSUME Timeout \/ \E n \in Names : CreateFails(n) \/ UpdateFails(n) \/ DestroyFails(n)
      PROVE  Exact'
  BY <1>3, ExactFailure
<1>4. ASSUME Continue PROVE Exact'
  BY <1>4, ExactCreateEnds, ExactCreateRollback, ExactAlign, ExactRollBack, ExactUpdateFailed,
     ExactTrim, ExactTrimmed, ExactFlip, ExactUnbacked, ExactDeleteFailed, ExactDeleteDone,
     ExactDeleted
     DEF Continue
<1>5. ASSUME NEW t \in Templates, BeginUpdate(t) \/ \E r \in Rollbacks : BeginCreate(t, r)
      PROVE  Exact'
  BY <1>5, ExactBeginUpdate, ExactBeginCreate
<1>6. ASSUME UpdateInvalid \/ BeginDelete \/ Kill \/ Crash PROVE Exact'
  BY <1>6, ExactUpdateInvalid, ExactBeginDelete, ExactCut
<1> QED BY <1>1, <1>2, <1>3, <1>4, <1>5, <1>6, ExactStutter DEF Next

(* The dictionaries, the backup stack, the rows and the templates agree    *)
(* with each other at every step.                                          *)
THEOREM AlwaysExact == Spec => [](Sound /\ Tended /\ Exact)
<1>1. Init => Sound /\ Tended /\ Exact
  BY SoundInit, TendedInit, ExactInit
<1>2. Sound /\ Tended /\ Exact /\ [Next]_vars => (Sound /\ Tended /\ Exact)'
  BY SoundNext, TendedNext, ExactNext
<1> QED BY <1>1, <1>2, PTL DEF Spec

(* As long as no operation has been cut short by a kill or a crash, no     *)
(* stack has two rows for a name: every name has at most one existing      *)
(* and one previous resource, in whatever order they are exchanged.        *)
THEOREM RowsAreUnique == Spec => []OneRowEach
<1>1. Sound /\ Exact => OneRowEach
  BY DEF Exact, Traced, Whole, Unique, OneRowEach
<1> QED BY <1>1, AlwaysExact, PTL

(* The template stored with a COMPLETE stack tells which resources there   *)
(* are and how each was defined, after creates, updates and rollbacks.     *)
THEOREM TemplateIsTrue == Spec => []TemplateTells
<1>1. Sound /\ Exact => TemplateTells
  <2> SUFFICES ASSUME Sound, Exact, torn \subseteq {"failed"}, phase = "idle",
                      stack # Nothing, stack.status = "COMPLETE"
               PROVE  /\ {row[i].name : i \in Rows("main")} = DOMAIN stack.template
                      /\ \A i \in Rows("main") : row[i].def = stack.template[row[i].name]
    BY DEF TemplateTells
  <2>1. Told
    BY DEF Exact, Traced, Whole
  <2> QED BY <2>1 DEF Told, Main, At, Rows
<1> QED BY <1>1, AlwaysExact, PTL

(* While every update completes, or is rolled back completely, no real     *)
(* resource is without a row, and none outlives its stack.                 *)
THEOREM NothingIsLost == Spec => []NothingLost
<1>1. Exact => NothingLost
  BY DEF Exact, Full, NothingLost
<1> QED BY <1>1, AlwaysExact, PTL

-----------------------------------------------------------------------------
(***************************************************************************)
(* What is cleaned up last.  The group knows the requirements of every     *)
(* resource that has not got its new definition.                           *)
(***************************************************************************)
RequiredAt(n) ==
  (n \notin DOMAIN target \/ New(n) \notin {"creating", "done"}) /\ ex[n] # Nothing =>
    \A m \in Names :
      m \in Needs(row[ex[n]].def) /\ first[m] # Nothing => <<<<"old", m>>, <<"old", n>>>> \in edges

CompleteAt(n) ==
  n \in DOMAIN target /\ New(n) = "done" /\ prev[n] # Nothing => row[ex[n]].status = "COMPLETE"

LateAt(n) ==
  RequiredAt(n) /\ CompleteAt(n) /\ (Old(n) # "done" => first[n] # Nothing)

Late == phase = "update" /\ ~rolling => \A n \in Names : LateAt(n)

(* A step of one name's task. *)
LEMMA LateTask ==
  ASSUME Late, NEW n \in Names, UNCHANGED Others,
         \A m \in Names \ {n} : /\ Same(m) /\ Old(m)' = Old(m)
                                /\ ex[m] # Nothing => row'[ex[m]].status = row[ex[m]].status,
         Old(n)' # "done" => Old(n) # "done",
         phase = "update" /\ ~rolling => ex[n] # Nothing \/ prev'[n] = Nothing,
         phase = "update" /\ ~rolling => RequiredAt(n)' /\ CompleteAt(n)',
         \A m \in Names : prev[m] # Nothing => ex[m] # Nothing \/ phase # "update"
  PROVE  Late'
<1>1. UNCHANGED <<phase, rolling, target, edges, first>>
  BY DEF Others
<1>2. ASSUME phase = "update", ~rolling, NEW m \in Names PROVE LateAt(m)'
  <2>1. LateAt(m) /\ LateAt(n)
    BY <1>2 DEF Late
  <2>2. CASE m = n
    BY <1>1, <1>2, <2>1, <2>2 DEF LateAt
  <2>3. CASE m # n
    <3>1. /\ Same(m) /\ Old(m)' = Old(m)
          /\ ex[m] # Nothing => row'[ex[m]].status = row[ex[m]].status
      BY <2>3
    <3>2. RequiredAt(m)'
      BY <1>1, <2>1, <3>1 DEF LateAt, RequiredAt, Same
    <3>3. CompleteAt(m)'
      BY <1>1, <1>2, <2>1, <3>1 DEF LateAt, CompleteAt, Same
    <3> QED BY <1>1, <2>1, <3>1, <3>2, <3>3 DEF LateAt
  <2> QED BY <2>2, <2>3
<1> QED BY <1>1, <1>2 DEF Late

(* ... that touches no row of another name's existing resource, and leaves *)
(* its own requirements alone.                                             *)
LEMMA LateStep ==
  ASSUME Sound, Tended, Late, NEW n \in Names, UNCHANGED Others, UNCHANGED <<ex, prev>>,
         \A m \in Names \ {n} : New(m)' = New(m) /\ Old(m)' = Old(m),
         SameDefs(row, row'),
         \A m \in Names \ {n} : ex[m] # Nothing => row'[ex[m]].status = row[ex[m]].status,
         Old(n)' # "done" => Old(n) # "done",
         New(n)' \notin {"creating", "done"} => New(n) \notin {"creating", "done"},
         phase = "update" /\ ~rolling => CompleteAt(n)'
  PROVE  Late'
<1>1. \A m \in Names : /\ ex[m] # Nothing => row'[ex[m]].def = row[ex[m]].def
                       /\ prev[m] # Nothing => row'[prev[m]].def = row[prev[m]].def
  BY ExLinked, PrevLinked DEF Sound, SameDefs
<1>2. \A m \in Names \ {n} : Same(m)
  BY <1>1 DEF Same
<1>3. \A m \in Names : prev[m] # Nothing => ex[m] # Nothing \/ phase # "update"
  BY DEF Tended, Moved, MovedAt
<1>4. UNCHANGED <<phase, rolling, target, edges, first>>
  BY DEF Others
<1>5. phase = "update" /\ ~rolling => RequiredAt(n)'
  BY <1>1, <1>4 DEF Late, LateAt, RequiredAt
<1> QED BY <1>2, <1>3, <1>5, LateTask

LEMMA LateNew ==
  ASSUME Sound, Tended, Late, NEW n \in Names, n \in DOMAIN target,
         phase \in {"create", "update"},
         \/ Unchanged(n) \/ UpdateRefused(n) \/ StartUpdate(n)
         \/ UpdateReplace(n) \/ Purge(n) \/ Created(n)
  PROVE  Late'
<1>1. phase = "update" /\ ~rolling /\ New(n) \notin {"creating", "done"} => prev[n] = Nothing
  BY DEF Tended, Moved, MovedAt
<1>2. CASE Unchanged(n)
  <2>1. /\ New(n) = "wait" /\ New(n)' = "done" /\ Old(n)' = Old(n)
        /\ \A m \in Names \ {n} : New(m)' = New(m) /\ Old(m)' = Old(m)
    BY <1>2, NewStarted DEF Unchanged, Stages
  <2>2. UNCHANGED Others /\ UNCHANGED <<ex, prev, row>>
    BY <1>2 DEF Unchanged, Others, db
  <2> QED BY <1>1, <2>1, <2>2, SameItself, LateStep DEF CompleteAt
<1>3. CASE UpdateRefused(n)
  <2>1. /\ New(n) = "wait" /\ New(n)' = "done" /\ Old(n)' = Old(n)
        /\ \A m \in Names \ {n} : New(m)' = New(m) /\ Old(m)' = Old(m)
    BY <1>3, NewStarted DEF UpdateRefused, Stages
  <2>2. UNCHANGED Others /\ UNCHANGED <<ex, prev, row>>
    BY <1>3 DEF UpdateRefused, Others, db
  <2> QED BY <1>1, <2>1, <2>2, SameItself, LateStep DEF CompleteAt
<1>4. CASE StartUpdate(n)
  <2>1. /\ New(n) = "wait" /\ New(n)' = "updating" /\ Old(n)' = Old(n)
        /\ \A m \in Names \ {n} : New(m)' = New(m) /\ Old(m)' = Old(m)
    BY <1>4, NewStarted DEF StartUpdate, Stages
  <2>2. UNCHANGED Others /\ UNCHANGED <<ex, prev>>
    BY <1>4 DEF StartUpdate, Others
  <2>3. SameDefs(row, row')
    BY <1>4, StartUpdateSound
  <2>4. \A j \in Ids \ {ex[n]} : row'[j] = row[j]
    BY <1>4, ExLinked, SetShape DEF StartUpdate, Sound, Typed
  <2>5. \A m \in Names \ {n} : ex[m] # Nothing => row'[ex[m]].status = row[ex[m]].status
    BY <2>4, OtherRows
  <2> QED BY <2>1, <2>2, <2>3, <2>5, LateStep DEF CompleteAt
<1>5. CASE UpdateReplace(n)
  <2>1. /\ New(n) = "updating" /\ New(n)' = "replace" /\ Old(n)' = Old(n)
        /\ \A m \in Names \ {n} : New(m)' = New(m) /\ Old(m)' = Old(m)
    BY <1>5, NewMoved DEF UpdateReplace, Stages
  <2>2. UNCHANGED Others /\ UNCHANGED <<ex, prev, row>>
    BY <1>5 DEF UpdateReplace, Others, db
  <2> QED BY <2>1, <2>2, SameItself, LateStep DEF CompleteAt
<1>6. CASE Purge(n)
  <2>1. /\ New(n) \in {"wait", "replace"} /\ New(n)' = "purging" /\ Old(n)' = Old(n)
        /\ \A m \in Names \ {n} : New(m)' = New(m) /\ Old(m)' = Old(m)
    BY <1>6, NewMoved, NewStarted DEF Purge, Stages
  <2>2. UNCHANGED Others /\ UNCHANGED <<ex, prev>>
    BY <1>6 DEF Purge, Others
  <2>3. SameDefs(row, row')
    BY <1>6, PurgeSound
  <2>4. \A j \in Ids \ {prev[n]} : row'[j] = row[j]
    BY <1>6, PrevLinked, SetShape DEF Purge, Sound, Typed
  <2>5. \A m \in Names \ {n} : ex[m] # Nothing => row'[ex[m]].status = row[ex[m]].status
    BY <2>4, OtherRows
  <2> QED BY <2>1, <2>2, <2>3, <2>5, LateStep DEF CompleteAt
<1>7. CASE Created(n)
  <2>1. /\ New(n) = "creating" /\ New(n)' = "done" /\ Old(n)' = Old(n)
        /\ \A m \in Names \ {n} : New(m)' = New(m) /\ Old(m)' = Old(m)
    BY <1>7, NewMoved DEF Created, Stages
  <2>2. UNCHANGED Others /\ UNCHANGED <<ex, prev>>
    BY <1>7 DEF Created, Others
  <2>3. /\ SameDefs(row, row') /\ row'[ex[n]].status = "COMPLETE"
        /\ \A j \in Ids \ {ex[n]} : row'[j] = row[j]
    BY <1>7, CreatedSound
  <2>4. \A m \in Names \ {n} : ex[m] # Nothing => row'[ex[m]].status = row[ex[m]].status
    BY <2>3, OtherRows
  <2> QED BY <2>1, <2>2, <2>3, <2>4, LateStep DEF CompleteAt
<1> QED BY <1>2, <1>3, <1>4, <1>5, <1>6, <1>7

(* The steps that move rows, or give one a new definition. *)
LEMMA LateMoves ==
  ASSUME Sound, Tended, Late, NEW n \in Names, n \in DOMAIN target,
         phase \in {"create", "update"},
         UpdatedInPlace(n) \/ SwapIn(n) \/ Purged(n) \/ Create(n)
  PROVE  Late'
<1>1. \A m \in Names : prev[m] # Nothing => ex[m] # Nothing \/ phase # "update"
  BY DEF Tended, Moved, MovedAt
<1>2. phase = "update" /\ ~rolling /\ New(n) \notin {"creating", "done"} => prev[n] = Nothing
  BY DEF Tended, Moved, MovedAt
<1>3. CASE UpdatedInPlace(n)
  <2>1. /\ New(n) = "updating" /\ New(n)' = "done" /\ Old(n)' = Old(n)
        /\ \A m \in Names \ {n} : New(m)' = New(m) /\ Old(m)' = Old(m)
    BY <1>3, NewMoved DEF UpdatedInPlace, Stages
  <2>2. UNCHANGED Others /\ UNCHANGED <<ex, prev>>
    BY <1>3 DEF UpdatedInPlace, Others
  <2>3. \A j \in Ids \ {ex[n]} : row'[j] = row[j]
    BY <1>3, UpdatedInPlaceSound
  <2>4. \A m \in Names \ {n} : /\ Same(m) /\ Old(m)' = Old(m)
                               /\ ex[m] # Nothing => row'[ex[m]].status = row[ex[m]].status
    BY <2>1, <2>2, <2>3, OtherRows DEF Same
  <2>5. target' = target
    BY <2>2 DEF Others
  <2>6. phase = "update" /\ ~rolling => RequiredAt(n)' /\ CompleteAt(n)'
    BY <1>2, <2>1, <2>2, <2>5 DEF RequiredAt, CompleteAt
  <2>7. phase = "update" /\ ~rolling => ex[n] # Nothing \/ prev'[n] = Nothing
    BY <1>2, <2>1, <2>2
  <2> QED BY <1>1, <2>1, <2>2, <2>4, <2>6, <2>7, LateTask
<1>4. CASE SwapIn(n)
  <2>1. rolling /\ UNCHANGED Others
    BY <1>4, SwapInTended DEF SwapIn, Others
  <2> QED BY <2>1 DEF Late, Others
<1>5. CASE Purged(n)
  <2>1. phase = "create" \/ rolling
    <3>1. New(n) = "purging" /\ prev[n] # Nothing
      BY <1>5, PurgedSound, NewMoved DEF Purged, Stages
    <3> QED BY <1>2, <3>1
  <2>2. UNCHANGED Others
    BY <1>5 DEF Purged, Others
  <2> QED BY <2>1, <2>2 DEF Late, Others
<1>6. CASE Create(n)
  <2>1. /\ New(n)' = "creating" /\ Old(n)' = Old(n) /\ New(n) \in {"wait", "replace"}
        /\ \A m \in Names \ {n} : New(m)' = New(m) /\ Old(m)' = Old(m)
    BY <1>6, NewMoved, NewStarted DEF Create, Stages
  <2>2. UNCHANGED Others
    BY <1>6 DEF Create, Others
  <2>3. /\ Fresh \in Ids /\ row[Fresh] = Nothing /\ prev'[n] = ex[n]
        /\ \A m \in Names \ {n} : ex'[m] = ex[m] /\ prev'[m] = prev[m]
        /\ \A j \in Ids : j # ex[n] /\ j # Fresh => row'[j] = row[j]
    BY <1>6, CreateSound
  <2>4. ASSUME NEW m \in Names \ {n}
        PROVE  /\ Same(m) /\ Old(m)' = Old(m)
               /\ ex[m] # Nothing => row'[ex[m]].status = row[ex[m]].status
    <3>1. /\ ex[m] # Nothing => ex[m] \in Ids /\ ex[m] # ex[n] /\ ex[m] # Fresh
          /\ prev[m] # Nothing => prev[m] \in Ids /\ prev[m] # ex[n] /\ prev[m] # Fresh
      BY <2>3, OtherRows
    <3> QED BY <2>1, <2>3, <3>1 DEF Same
  <2>5. target' = target
    BY <2>2 DEF Others
  <2>6. RequiredAt(n)' /\ CompleteAt(n)'
    BY <2>1, <2>5 DEF RequiredAt, CompleteAt
  <2>7. ex[n] # Nothing \/ prev'[n] = Nothing
    BY <2>3
  <2> QED BY <1>1, <2>1, <2>2, <2>4, <2>6, <2>7, LateTask
<1> QED BY <1>3, <1>4, <1>5, <1>6

LEMMA LateOld ==
  ASSUME Sound, Tended, Late, NEW n \in Names, OldTask(n)
  PROVE  Late'
<1>1. CASE StartDestroy(n) \/ NothingToDestroy(n)
  <2>1. /\ Old(n) = "wait" /\ New(n)' = New(n)
        /\ \A m \in Names \ {n} : New(m)' = New(m) /\ Old(m)' = Old(m)
    BY <1>1, OldStarted DEF StartDestroy, NothingToDestroy, Stages
  <2>2. UNCHANGED Others /\ UNCHANGED <<ex, prev>>
    BY <1>1 DEF StartDestroy, NothingToDestroy, Others, db
  <2>3. SameDefs(row, row')
    BY <1>1, StartDestroySound, SameItself DEF NothingToDestroy, db
  <2>4. \A j \in Ids : j # Doomed(n) => row'[j] = row[j]
    <3>1. Doomed(n) # Nothing => Doomed(n) \in Ids /\ row[Doomed(n)] # Nothing
      BY DoomedLinked DEF Sound
    <3> QED BY <1>1, <3>1, SetShape DEF StartDestroy, NothingToDestroy, db, Sound, Typed
  <2>5. Doomed(n) \in {ex[n], prev[n], Nothing}
    BY DEF Doomed
  <2>6. \A m \in Names \ {n} : ex[m] # Nothing => row'[ex[m]].status = row[ex[m]].status
    BY <2>4, <2>5, OtherRows
  <2>7. ASSUME phase = "update", ~rolling PROVE CompleteAt(n)'
    <3> SUFFICES ASSUME n \in DOMAIN target, New(n) = "done", prev[n] # Nothing
                 PROVE  row'[ex[n]].status = "COMPLETE"
      BY <2>1, <2>2 DEF CompleteAt, Others
    <3>1. row[ex[n]].status = "COMPLETE"
      BY <2>7 DEF Late, LateAt, CompleteAt
    <3>2. ex[n] # Nothing
      BY <2>7 DEF Tended, Moved, MovedAt
    <3>3. ex[n] \in Ids /\ ex[n] # prev[n] /\ Doomed(n) = prev[n]
      BY <2>7, <3>2, ExLinked DEF Sound, Doomed
    <3> QED BY <2>4, <3>1, <3>3
  <2> QED BY <2>1, <2>2, <2>3, <2>6, <2>7, LateStep
<1>2. CASE Destroyed(n)
  <2>1. /\ Old(n) = "destroying"
        /\ Doomed(n) # Nothing /\ Doomed(n) \in Ids
        /\ \A j \in Ids \ {Doomed(n)} : row'[j] = row[j]
        /\ \/ Doomed(n) = prev[n] /\ prev'[n] = Nothing /\ ex' = ex
           \/ Doomed(n) = ex[n] /\ ex'[n] = Nothing /\ prev' = prev
        /\ \A m \in Names \ {n} : ex'[m] = ex[m] /\ prev'[m] = prev[m]
    BY <1>2, DestroyedSound
  <2>2. /\ UNCHANGED Others
        /\ phase = "update" => prev'[n] = Nothing
        /\ New(n)' = New(n)
        /\ \A m \in Names \ {n} : New(m)' = New(m) /\ Old(m)' = Old(m)
    BY <1>2, DestroyedTended
  <2>3. ASSUME NEW m \in Names \ {n}
        PROVE  /\ Same(m) /\ Old(m)' = Old(m)
               /\ ex[m] # Nothing => row'[ex[m]].status = row[ex[m]].status
    <3>1. /\ ex[m] # Nothing => ex[m] \in Ids /\ ex[m] # Doomed(n)
          /\ prev[m] # Nothing => prev[m] \in Ids /\ prev[m] # Doomed(n)
      BY <2>1, OtherRows
    <3> QED BY <2>1, <2>2, <3>1 DEF Same
  <2>4. ASSUME phase = "update", ~rolling PROVE RequiredAt(n)' /\ CompleteAt(n)'
    <3>1. UNCHANGED <<target, first, edges>>
      BY <2>2 DEF Others
    <3>2. CompleteAt(n)'
      BY <2>2, <2>4 DEF CompleteAt
    <3>3. CASE ex'[n] = Nothing
      BY <3>2, <3>3 DEF RequiredAt
    <3>4. CASE ex'[n] # Nothing
      <4>1. ex' = ex /\ Doomed(n) = prev[n]
        BY <2>1, <3>4
      <4>2. ex[n] \in Ids /\ ex[n] # prev[n]
        BY <3>4, <4>1, ExLinked DEF Sound
      <4>3. row'[ex[n]] = row[ex[n]]
        BY <2>1, <4>1, <4>2
      <4>4. RequiredAt(n)
        BY <2>4 DEF Late, LateAt
      <4> QED BY <2>2, <3>1, <3>2, <4>1, <4>3, <4>4 DEF RequiredAt
    <3> QED BY <3>3, <3>4
  <2>5. \A m \in Names : prev[m] # Nothing => ex[m] # Nothing \/ phase # "update"
    BY DEF Tended, Moved, MovedAt
  <2> QED BY <2>1, <2>2, <2>3, <2>4, <2>5, LateTask
<1> QED BY <1>1, <1>2 DEF OldTask

(* What is cut short is no complete resource that replaces another. *)
LEMMA CutIs ==
  ASSUME Sound, NEW n \in Names, ex[n] # Nothing, ex[n] \in Cut
  PROVE  New(n) = "creating" \/ Doomed(n) = ex[n]
<1>1. ex[n] \in Ids
  BY ExLinked DEF Sound
<1>2. PICK m \in Names : \/ ex[n] = ex[m] /\ New(m) = "creating"
                         \/ ex[n] = prev[m]
                         \/ ex[n] = Doomed(m)
  BY DEF Cut, New
<1>3. \A k \in Names : prev[k] # ex[n] /\ (k # n => ex[k] # ex[n])
  BY ExLinked DEF Sound
<1>4. Doomed(m) \in {ex[m], prev[m], Nothing}
  BY DEF Doomed
<1> QED BY <1>2, <1>3, <1>4

LEMMA LateFailure ==
  ASSUME Sound, Tended, Late,
         Timeout \/ \E n \in Names : CreateFails(n) \/ UpdateFails(n) \/ DestroyFails(n)
  PROVE  Late'
<1>1. /\ SameDefs(row, row') /\ UNCHANGED Others /\ UNCHANGED <<phys, ex, prev, stage>>
  BY Failures
<1>2. UNCHANGED <<phase, rolling, target, edges, first>>
  BY <1>1 DEF Others
<1>3. \A m \in Names : New(m)' = New(m) /\ Old(m)' = Old(m)
  BY <1>1 DEF New, Old
<1>4. ASSUME NEW i \in Ids, row[i] # Nothing, i \notin Cut,
             \A m \in Names : New(m) = "updating" => ex[m] # i
      PROVE  row'[i].status = row[i].status
  <2>1. Aborted[i] = row[i]
    BY <1>4 DEF Aborted
  <2>2. CASE row' = Aborted
    BY <2>1, <2>2
  <2>3. CASE \E m \in Names : New(m) = "updating" /\ row' = Set(Aborted, ex[m], "UPDATE", "FAILED")
    <3>1. PICK m \in Names : New(m) = "updating" /\ row' = Set(Aborted, ex[m], "UPDATE", "FAILED")
      BY <2>3
    <3>2. Aborted \in RowMap /\ SameShape(row, Aborted)
      BY AbortedShape, CutLinked DEF Sound, Typed
    <3>3. ex[m] \in Ids /\ row[ex[m]] # Nothing /\ ex[m] # i
      BY <1>4, <3>1, ExLinked DEF Sound, Fits, Staged
    <3>4. Aborted[ex[m]] # Nothing
      BY <3>2, <3>3 DEF SameShape
    <3>5. \A j \in Ids \ {ex[m]} : row'[j] = Aborted[j]
      BY <3>1, <3>2, <3>3, <3>4, SetShape
    <3> QED BY <2>1, <3>3, <3>5
  <2> QED BY <2>2, <2>3 DEF Timeout, CreateFails, UpdateFails, DestroyFails, Fail, New
<1>5. ASSUME phase = "update", ~rolling, NEW n \in Names PROVE LateAt(n)'
  <2>1. LateAt(n)
    BY <1>5 DEF Late
  <2>2. RequiredAt(n)'
    <3>1. ex[n] # Nothing => row'[ex[n]].def = row[ex[n]].def
      BY <1>1, ExLinked DEF Sound, SameDefs
    <3> QED BY <1>1, <1>2, <1>3, <2>1, <3>1 DEF LateAt, RequiredAt
  <2>3. CompleteAt(n)'
    <3> SUFFICES ASSUME n \in DOMAIN target, New(n) = "done", prev[n] # Nothing
                 PROVE  row'[ex[n]].status = "COMPLETE"
      BY <1>1, <1>2, <1>3 DEF CompleteAt
    <3>1. row[ex[n]].status = "COMPLETE"
      BY <2>1 DEF LateAt, CompleteAt
    <3>2. ex[n] # Nothing
      BY <1>5 DEF Tended, Moved, MovedAt
    <3>3. /\ ex[n] \in Ids /\ row[ex[n]] # Nothing /\ ex[n] # prev[n]
          /\ \A m \in Names : m # n => ex[m] # ex[n]
      BY <3>2, ExLinked DEF Sound
    <3>4. Doomed(n) = prev[n]
      BY <1>5 DEF Doomed
    <3>5. ex[n] \notin Cut
      BY <3>2, <3>3, <3>4, CutIs
    <3>6. \A m \in Names : New(m) = "updating" => ex[m] # ex[n]
      BY <3>3
    <3> QED BY <1>4, <3>1, <3>3, <3>5, <3>6
  <2> QED BY <1>1, <1>2, <1>3, <2>1, <2>2, <2>3 DEF LateAt
<1> QED BY <1>2, <1>5 DEF Late

LEMMA LateAlign ==
  ASSUME Sound, Tended, Align
  PROVE  Late'
<1>1. /\ phase = "clean" /\ first' = ex
      /\ UNCHANGED <<stack, backup, row, phys, target, rolling, ex, prev, ops, torn>>
  BY DEF Align, db
<1>2. /\ edges' = UpdateEdges(row, ex, target)
      /\ \A n \in Names : Old(n)' = IF ex[n] # Nothing THEN "wait" ELSE "done"
  BY UpdateStart DEF Align
<1>3. prev = Empty
  BY <1>1 DEF Tended, Kept
<1>4. ASSUME NEW n \in Names PROVE LateAt(n)'
  <2>1. RequiredAt(n)'
    <3> SUFFICES ASSUME ex[n] # Nothing, NEW m \in Names, m \in Needs(row[ex[n]].def), ex[m] # Nothing
                 PROVE  <<<<"old", m>>, <<"old", n>>>> \in edges'
      BY <1>1 DEF RequiredAt
    <3> QED BY <1>2, ReferringFirst
  <2>2. CompleteAt(n)'
    BY <1>1, <1>3, EmptyIs DEF CompleteAt
  <2> QED BY <1>1, <1>2, <2>1, <2>2 DEF LateAt
<1> QED BY <1>4 DEF Late

LEMMA LateStutter ==
  ASSUME Late, UNCHANGED vars
  PROVE  Late'
<1>1. UNCHANGED <<row, phase, target, rolling, ex, prev, first, edges, stage>>
  BY DEF vars, db, mem
<1>2. \A n \in Names : LateAt(n) => LateAt(n)'
  BY <1>1 DEF LateAt, RequiredAt, CompleteAt, New, Old
<1> QED BY <1>1, <1>2 DEF Late

LEMMA LateElse ==
  ASSUME \/ Continue /\ ~Align
         \/ \E t \in Templates : BeginUpdate(t) \/ \E r \in Rollbacks : BeginCreate(t, r)
         \/ UpdateInvalid \/ BeginDelete \/ Kill \/ Crash
  PROVE  Late'
<1>1. phase' # "update" \/ rolling'
  <2>1. CASE Continue /\ ~Align
    BY <2>1, Forgets DEF Continue, CreateEnds, CreateRollback, RollBack, UpdateFailed, Trim, Trimmed,
       Flip, Unbacked, DeleteFailed, DeleteDone, Deleted, StartDestroys, StartGroup
  <2>2. CASE \E t \in Templates : BeginUpdate(t) \/ \E r \in Rollbacks : BeginCreate(t, r)
    BY <2>2 DEF BeginUpdate, BeginCreate, StartDestroys, StartGroup
  <2>3. CASE UpdateInvalid \/ BeginDelete \/ Kill \/ Crash
    BY <2>3, Forgets DEF UpdateInvalid, Begin, BeginDelete, StartDestroys, StartGroup, Kill, Crash
  <2> QED BY <2>1, <2>2, <2>3
<1> QED BY <1>1 DEF Late

LEMMA LateNext ==
  ASSUME Sound, Tended, Late, [Next]_vars
  PROVE  Late'
<1>1. ASSUME NEW n \in Names, NewTask(n) PROVE Late'
  BY <1>1, LateNew, LateMoves DEF NewTask
<1>2. ASSUME NEW n \in Names, OldTask(n) PROVE Late'
  BY <1>2, LateOld
<1>3. ASSUME Timeout \/ \E n \in Names : CreateFails(n) \/ UpdateFails(n) \/ DestroyFails(n)
      PROVE  Late'
  BY <1>3, LateFailure
<1> QED BY <1>1, <1>2, <1>3, LateAlign, LateElse, LateStutter DEF Next

(* CleanUpLast, for the resource i. *)
Replaced(i) ==
  LET n == row[i].name IN
    /\ n \in DOMAIN target =>
         \E j \in Rows("main") \ {i} :
           /\ row[j].name = n /\ row[j].def = target[n]
           /\ row[j].status = "COMPLETE"
    /\ \A j \in Rows("main") :
         n \in Needs(row[j].def) =>
           /\ row[j].name \in DOMAIN target
           /\ row[j].def = target[row[j].name]

LEMMA DestroyedReplaced ==
  ASSUME Sound, Tended, Exact, Late, NEW n \in Names, Destroyed(n), phase = "update", ~rolling, Whole
  PROVE  Replaced(Doomed(n))
<1>1. /\ Old(n) = "destroying" /\ Doomed(n) # Nothing /\ Doomed(n) \in Ids
      /\ row[Doomed(n)] # Nothing
  BY DestroyedSound
<1>2. row[Doomed(n)].name = n
  BY <1>1, DoomedLinked DEF Sound
<1>3. New(n) = "done" /\ outcome = "ok"
  BY <1>1, OldWaits DEF Destroyed, Move
<1>4. LateAt(n)
  BY DEF Late
<1>5. MainKnown
  BY DEF Exact, Traced
<1>6. ASSUME n \in DOMAIN target
      PROVE  \E j \in Rows("main") \ {Doomed(n)} :
               row[j].name = n /\ row[j].def = target[n] /\ row[j].status = "COMPLETE"
  <2>1. Doomed(n) = prev[n] /\ prev[n] # Nothing
    BY <1>1, <1>6 DEF Doomed
  <2>2. ex[n] # Nothing /\ row[ex[n]].def = target[n]
    BY <1>3, <1>6 DEF Exact, Defined, DefinedAt
  <2>3. /\ ex[n] \in Ids /\ row[ex[n]] # Nothing /\ row[ex[n]].stack = "main" /\ row[ex[n]].name = n
        /\ ex[n] # prev[n]
    BY <2>2, ExLinked DEF Sound
  <2>4. row[ex[n]].status = "COMPLETE"
    BY <1>3, <1>4, <1>6, <2>1 DEF LateAt, CompleteAt
  <2>5. ex[n] \in Rows("main") \ {Doomed(n)}
    BY <2>1, <2>3 DEF Rows
  <2> QED BY <2>2, <2>3, <2>4, <2>5
<1>7. ASSUME NEW j \in Rows("main"), n \in Needs(row[j].def)
      PROVE  row[j].name \in DOMAIN target /\ row[j].def = target[row[j].name]
  <2> DEFINE m == row[j].name
  <2>1. j \in Ids /\ row[j] # Nothing /\ row[j].stack = "main" /\ m \in Names
    BY <1>7 DEF Rows, Sound, Typed, RowMap, RowType
  <2>2. ex[m] = j /\ ex[m] # Nothing
    BY <1>5, <2>1, NothingAssumption DEF MainKnown, Main
  <2>3. LateAt(m) /\ MovedAt(m)
    BY <2>1 DEF Late, Tended, Moved
  <2>4. CASE m \notin DOMAIN target \/ New(m) \notin {"creating", "done"}
    <3>1. first[n] # Nothing
      BY <1>1, <1>4 DEF LateAt
    <3>2. <<<<"old", n>>, <<"old", m>>>> \in edges
      BY <1>7, <2>2, <2>3, <2>4, <3>1 DEF LateAt, RequiredAt
    <3>3. Old(m) = "done"
      BY <1>1, <2>1, <3>2, TasksAre DEF Sound, Fits, Ordered, Old
    <3>4. New(m) = "done" => m \notin DOMAIN target
      BY <2>4
    <3>5. New(m) # "done" => New(m) # "creating"
      BY <2>1, <2>4 DEF Sound, Fits, Staged
    <3>6. CASE New(m) = "done"
      BY <2>2, <2>3, <3>3, <3>4, <3>6 DEF MovedAt, Doomed
    <3>7. CASE New(m) # "done"
      BY <2>2, <2>3, <3>3, <3>5, <3>7 DEF MovedAt
    <3> QED BY <3>6, <3>7
  <2>5. CASE m \in DOMAIN target /\ New(m) \in {"creating", "done"}
    BY <1>3, <2>2, <2>5 DEF Exact, Defined, DefinedAt
  <2> QED BY <2>4, <2>5
<1> QED BY <1>2, <1>6, <1>7 DEF Replaced

(* Nothing else takes a real resource away while an update goes forward. *)
LEMMA OnlyDestroyed ==
  ASSUME Sound, Tended, [Next]_vars, phase = "update", ~rolling, NEW i \in phys \ phys'
  PROVE  \E n \in Names : Destroyed(n) /\ i = Doomed(n)
<1>1. ~UNCHANGED phys
  OBVIOUS
<1>2. ASSUME NEW n \in Names, Purged(n), n \in DOMAIN target PROVE FALSE
  <2>1. New(n) = "purging" /\ prev[n] # Nothing
    BY <1>2, PurgedSound, NewMoved DEF Purged, Stages
  <2> QED BY <2>1 DEF Tended, Moved, MovedAt
<1>3. ASSUME NEW n \in Names, NewTask(n) PROVE FALSE
  BY <1>1, <1>2, <1>3 DEF NewTask, Unchanged, UpdateRefused, StartUpdate, UpdatedInPlace, UpdateReplace,
     SwapIn, Purge, Create, Created, db
<1>4. ASSUME NEW n \in Names, CreateFails(n) \/ UpdateFails(n) \/ DestroyFails(n) PROVE FALSE
  BY <1>1, <1>4 DEF CreateFails, UpdateFails, DestroyFails, Fail
<1>5. ~Continue
  BY <1>1 DEF Continue, CreateEnds, CreateRollback, Align, RollBack, UpdateFailed, Trim, Trimmed,
     Flip, Unbacked, DeleteFailed, DeleteDone, Deleted, db
<1>6. ~(\E t \in Templates : BeginUpdate(t) \/ \E r \in Rollbacks : BeginCreate(t, r))
  BY DEF BeginUpdate, BeginCreate, Begin
<1>7. ~(UpdateInvalid \/ BeginDelete \/ Timeout \/ Kill \/ Crash)
  BY <1>1 DEF UpdateInvalid, BeginDelete, Begin, Timeout, Fail, Kill, Crash, db
<1>8. ~UNCHANGED vars
  BY <1>1 DEF vars, db
<1>9. PICK n \in Names : OldTask(n)
  BY <1>3, <1>4, <1>5, <1>6, <1>7, <1>8 DEF Next
<1>10. Destroyed(n)
  BY <1>1, <1>9 DEF OldTask, StartDestroy, NothingToDestroy, db
<1> QED BY <1>10 DEF Destroyed

CleanStep ==
  phase = "update" /\ ~rolling /\ torn \cap {"kill", "crash"} = {} =>
    \A i \in phys \ phys' :
      LET n == row[i].name IN
        /\ n \in DOMAIN target =>
             \E j \in Rows("main") \ {i} :
               /\ row[j].name = n /\ row[j].def = target[n]
               /\ row[j].status = "COMPLETE"
        /\ \A j \in Rows("main") :
             n \in Needs(row[j].def) =>
               /\ row[j].name \in DOMAIN target
               /\ row[j].def = target[row[j].name]

(* Old resources are cleaned up after they have been replaced, and after   *)
(* everything that referred to them has been replaced, changed or removed, *)
(* for any templates and however the tasks of the group interleave.        *)
THEOREM CleanedUpLast == Spec => CleanUpLast
<1>1. Init => Late
  BY DEF Init, Late
<1>2. Sound /\ Tended /\ Late /\ [Next]_vars => Late'
  BY LateNext
<1>3. ASSUME Sound, Tended, Exact, Late, [Next]_vars PROVE CleanStep
  <2>1. ASSUME phase = "update", ~rolling, Whole, NEW i \in phys \ phys' PROVE Replaced(i)
    <3>1. PICK n \in Names : Destroyed(n) /\ i = Doomed(n)
      BY <1>3, <2>1, OnlyDestroyed
    <3> QED BY <1>3, <2>1, <3>1, DestroyedReplaced
  <2> QED BY <2>1 DEF CleanStep, Whole, Replaced
<1>4. Sound /\ Tended /\ Exact /\ Late /\ [Next]_vars => [CleanStep]_vars
  BY <1>3
<1>5. Spec => [][CleanStep]_vars
  BY <1>1, <1>2, <1>4, AlwaysExact, PTL DEF Spec
<1> QED BY <1>5 DEF CleanUpLast, CleanStep
=============================================================================
