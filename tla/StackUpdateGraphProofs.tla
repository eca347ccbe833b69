------------------------ MODULE StackUpdateGraphProofs ------------------------
(***************************************************************************)
(* Proofs about the graphs that the operations of StackUpdate run their    *)
(* tasks by: none has a circle, none of their tasks waits for ever, and    *)
(* the references between a stack's resources do not dangle when a rollback*)
(* has to make a graph of a half-done update.  Stack.validate lets only    *)
(* templates pass that are sound in themselves (ValidAssumption); the      *)
(* graphs join the definitions of two.                                     *)
(***************************************************************************)
EXTENDS StackUpdateProofs, FiniteSetTheorems

(* Every set of things has one that requires none of the others. *)
Grounded(R, D) ==
  \A S \in SUBSET D : S # {} => \E x \in S : \A y \in S : <<x, y>> \notin R

-----------------------------------------------------------------------------
(***************************************************************************)
(* Orders of finite sets.                                                  *)
(***************************************************************************)
LEMMA SmallestSubset ==
  ASSUME NEW D, IsFiniteSet(D), NEW F \in SUBSET SUBSET D, F # {}
  PROVE  \E S \in F : \A T \in F : T \subseteq S => T = S
<1>1. IsWellFoundedOn(StrictSubsetOrdering(D), SUBSET D)
  BY FS_StrictSubsetOrderingWellFounded, FS_FiniteSubsetsOfFinite
<1>2. PICK S \in F : \A T \in F : ~ (<<T, S>> \in StrictSubsetOrdering(D))
  BY <1>1, WFMin
<1> QED BY <1>2 DEF StrictSubsetOrdering

(* An order of a finite set can be followed in the other direction too. *)
LEMMA ReverseGrounded ==
  ASSUME NEW D, IsFiniteSet(D), NEW R, Grounded(R, D)
  PROVE  \A S \in SUBSET D : S # {} => \E x \in S : \A y \in S : <<y, x>> \notin R
<1> DEFINE F == {S \in SUBSET D : S # {} /\ \A x \in S : \E y \in S : <<y, x>> \in R}
<1>1. SUFFICES ASSUME F # {} PROVE FALSE
  OBVIOUS
<1>2. PICK S \in F : \A T \in F : T \subseteq S => T = S
  <2>1. F \in SUBSET SUBSET D
    OBVIOUS
  <2> HIDE DEF F
  <2> QED BY <1>1, <2>1, SmallestSubset
<1>3. S \in SUBSET D /\ S # {} /\ \A x \in S : \E y \in S : <<y, x>> \in R
  BY <1>2
<1>4. PICK x \in S : \A y \in S : <<x, y>> \notin R
  BY <1>3 DEF Grounded
<1> DEFINE T == S \ {x}
<1>5. ASSUME NEW z \in S PROVE \E y \in T : <<y, z>> \in R
  <2>1. PICK y \in S : <<y, z>> \in R
    BY <1>3
  <2>2. y # x
    BY <1>4, <2>1
  <2> QED BY <2>1, <2>2
<1>6. T \in SUBSET D /\ T # {} /\ \A z \in T : \E y \in T : <<y, z>> \in R
  BY <1>3, <1>5
<1>7. T \in F
  BY <1>6
<1> QED BY <1>2, <1>4, <1>7

-----------------------------------------------------------------------------
(***************************************************************************)
(* Graphs.                                                                 *)
(***************************************************************************)

(* What the resources of a dictionary refer to. *)
Uses(r, dict) ==
  {p \in Present(dict) \X Present(dict) : p[2] \in Needs(r[dict[p[1]]].def)}

LEMMA TemplateValid ==
  ASSUME NEW t \in Templates
  PROVE  /\ DOMAIN t \subseteq Names
         /\ \A n \in DOMAIN t : Needs(t[n]) \subseteq DOMAIN t /\ n \notin Needs(t[n])
         /\ \A S \in SUBSET DOMAIN t : S # {} => \E n \in S : Needs(t[n]) \cap S = {}
<1>1. Valid(t) /\ DOMAIN t \subseteq Names
  BY ValidAssumption, TemplatesAssumption
<1>2. ASSUME NEW n \in DOMAIN t PROVE n \notin Needs(t[n])
  <2>1. {n} \in SUBSET DOMAIN t /\ {n} # {}
    OBVIOUS
  <2>2. Needs(t[n]) \cap {n} = {}
    BY <1>1, <2>1 DEF Valid
  <2> QED BY <2>2
<1> QED BY <1>1, <1>2 DEF Valid

LEMMA CreateEdge ==
  ASSUME NEW t, NEW k, NEW j, <<k, j>> \in CreateEdges(t)
  PROVE  \E n, m \in DOMAIN t : k = <<"new", n>> /\ j = <<"new", m>> /\ m \in Needs(t[n])
<1>1. PICK q \in (DOMAIN t) \X (DOMAIN t) :
        q[2] \in Needs(t[q[1]]) /\ <<k, j>> = <<<<"new", q[1]>>, <<"new", q[2]>>>>
  BY DEF CreateEdges
<1> QED BY <1>1

LEMMA DestroyEdge ==
  ASSUME NEW r, NEW dict, NEW k, NEW j, <<k, j>> \in DestroyEdges(r, dict)
  PROVE  \E n, m \in Present(dict) :
           k = <<"old", n>> /\ j = <<"old", m>> /\ n \in Needs(r[dict[m]].def)
<1>1. PICK q \in Present(dict) \X Present(dict) :
        q[1] \in Needs(r[dict[q[2]]].def) /\ <<k, j>> = <<<<"old", q[1]>>, <<"old", q[2]>>>>
  BY DEF DestroyEdges
<1> QED BY <1>1

LEMMA CreateGrounded ==
  ASSUME NEW t \in Templates
  PROVE  Grounded(CreateEdges(t), Tasks)
<1> SUFFICES ASSUME NEW S \in SUBSET Tasks, S # {}
             PROVE  \E k \in S : \A j \in S : <<k, j>> \notin CreateEdges(t)
  BY DEF Grounded
<1> DEFINE T == {n \in DOMAIN t : <<"new", n>> \in S}
<1>1. CASE T = {}
  <2>1. PICK k \in S : TRUE
    OBVIOUS
  <2>2. \A j \in S : <<k, j>> \notin CreateEdges(t)
    BY <1>1, <2>1, CreateEdge
  <2> QED BY <2>2
<1>2. CASE T # {}
  <2>1. PICK n \in T : Needs(t[n]) \cap T = {}
    BY <1>2, TemplateValid
  <2>2. ASSUME NEW j \in S, <<<<"new", n>>, j>> \in CreateEdges(t) PROVE FALSE
    <3>1. PICK a, b \in DOMAIN t : <<"new", n>> = <<"new", a>> /\ j = <<"new", b>> /\ b \in Needs(t[a])
      BY <2>2, CreateEdge
    <3>2. a = n /\ b \in T
      BY <3>1
    <3> QED BY <2>1, <3>1, <3>2
  <2> QED BY <2>1, <2>2
<1> QED BY <1>1, <1>2

(* A dictionary whose references make no circle is destroyed in reverse. *)
LEMMA DestroyGrounded ==
  ASSUME NEW r, NEW dict, Grounded(Uses(r, dict), Present(dict))
  PROVE  Grounded(DestroyEdges(r, dict), Tasks)
<1> SUFFICES ASSUME NEW S \in SUBSET Tasks, S # {}
             PROVE  \E k \in S : \A j \in S : <<k, j>> \notin DestroyEdges(r, dict)
  BY DEF Grounded
<1> DEFINE T == {n \in Present(dict) : <<"old", n>> \in S}
<1>1. CASE T = {}
  <2>1. PICK k \in S : TRUE
    OBVIOUS
  <2>2. \A j \in S : <<k, j>> \notin DestroyEdges(r, dict)
    BY <1>1, <2>1, DestroyEdge
  <2> QED BY <2>2
<1>2. CASE T # {}
  <2>1. IsFiniteSet(Present(dict))
    BY ValidAssumption, FS_Subset DEF Present
  <2>2. PICK n \in T : \A m \in T : <<m, n>> \notin Uses(r, dict)
    BY <1>2, <2>1, ReverseGrounded
  <2>3. ASSUME NEW j \in S, <<<<"old", n>>, j>> \in DestroyEdges(r, dict) PROVE FALSE
    <3>1. PICK a, b \in Present(dict) :
            <<"old", n>> = <<"old", a>> /\ j = <<"old", b>> /\ a \in Needs(r[dict[b]].def)
      BY <2>3, DestroyEdge
    <3>2. a = n /\ b \in T
      BY <3>1
    <3>3. <<b, a>> \in Uses(r, dict)
      BY <3>1 DEF Uses
    <3> QED BY <2>2, <3>2, <3>3
  <2> QED BY <2>2, <2>3
<1> QED BY <1>1, <1>2

LEMMA UpdateEdge ==
  ASSUME NEW r, NEW dict, NEW t, NEW k, NEW j, <<k, j>> \in UpdateEdges(r, dict, t)
  PROVE  \/ <<k, j>> \in CreateEdges(t)
         \/ <<k, j>> \in DestroyEdges(r, dict)
         \/ \E n \in Names : k = <<"old", n>> /\ j = <<"new", n>>
BY DEF UpdateEdges, Present

(* The graph of an update: the new tasks require only new ones. *)
LEMMA UpdateGrounded ==
  ASSUME NEW t \in Templates, NEW r, NEW dict, Grounded(Uses(r, dict), Present(dict))
  PROVE  Grounded(UpdateEdges(r, dict, t), Tasks)
<1> SUFFICES ASSUME NEW S \in SUBSET Tasks, S # {}
             PROVE  \E k \in S : \A j \in S : <<k, j>> \notin UpdateEdges(r, dict, t)
  BY DEF Grounded
<1> DEFINE T == {k \in S : \E n \in Names : k = <<"new", n>>}
<1>1. CASE T # {}
  <2>1. PICK k \in T : \A j \in T : <<k, j>> \notin CreateEdges(t)
    BY <1>1, CreateGrounded DEF Grounded
  <2>2. ASSUME NEW j \in S, <<k, j>> \in UpdateEdges(r, dict, t) PROVE FALSE
    <3>1. PICK n \in Names : k = <<"new", n>>
      BY <2>1
    <3>2. <<k, j>> \in CreateEdges(t)
      BY <2>2, <3>1, UpdateEdge, DestroyEdge
    <3>3. \E m \in Names : j = <<"new", m>>
      BY <3>2, CreateEdge, TemplateValid
    <3> QED BY <2>1, <3>2, <3>3
  <2> QED BY <2>1, <2>2
<1>2. CASE T = {}
  <2>1. PICK k \in S : \A j \in S : <<k, j>> \notin DestroyEdges(r, dict)
    BY DestroyGrounded DEF Grounded
  <2>2. ASSUME NEW j \in S, <<k, j>> \in UpdateEdges(r, dict, t) PROVE FALSE
    <3>1. <<k, j>> \notin CreateEdges(t)
      BY <1>2, CreateEdge, TemplateValid
    <3>2. \A n \in Names : j # <<"new", n>>
      BY <1>2
    <3> QED BY <2>1, <2>2, <3>1, <3>2, UpdateEdge
  <2> QED BY <2>1, <2>2
<1> QED BY <1>1, <1>2

(* Resources that all have their definitions from one template. *)
LEMMA OneTemplate ==
  ASSUME NEW t \in Templates, NEW r, NEW dict,
         \A n \in Present(dict) : n \in DOMAIN t /\ r[dict[n]].def = t[n]
  PROVE  Grounded(Uses(r, dict), Present(dict))
<1> SUFFICES ASSUME NEW S \in SUBSET Present(dict), S # {}
             PROVE  \E n \in S : \A m \in S : <<n, m>> \notin Uses(r, dict)
  BY DEF Grounded
<1>1. S \in SUBSET DOMAIN t
  OBVIOUS
<1>2. PICK n \in S : Needs(t[n]) \cap S = {}
  BY <1>1, TemplateValid
<1>3. \A m \in S : <<n, m>> \notin Uses(r, dict)
  BY <1>2 DEF Uses
<1> QED BY <1>3

(* Resources with definitions from two templates, of which those from the  *)
(* second refer only to others from the second.                            *)
LEMMA TwoTemplates ==
  ASSUME NEW t \in Templates, NEW u \in Templates, NEW r, NEW dict, NEW U,
         \A n \in Present(dict) \cap U :
           n \in DOMAIN u /\ r[dict[n]].def = u[n] /\ Needs(u[n]) \subseteq U,
         \A n \in Present(dict) \ U : n \in DOMAIN t /\ r[dict[n]].def = t[n]
  PROVE  Grounded(Uses(r, dict), Present(dict))
<1> SUFFICES ASSUME NEW S \in SUBSET Present(dict), S # {}
             PROVE  \E n \in S : \A m \in S : <<n, m>> \notin Uses(r, dict)
  BY DEF Grounded
<1>1. CASE S \cap U = {}
  <2>1. S \in SUBSET DOMAIN t
    BY <1>1
  <2>2. PICK n \in S : Needs(t[n]) \cap S = {}
    BY <2>1, TemplateValid
  <2>3. \A m \in S : <<n, m>> \notin Uses(r, dict)
    BY <1>1, <2>2 DEF Uses
  <2> QED BY <2>3
<1>2. CASE S \cap U # {}
  <2>1. S \cap U \in SUBSET DOMAIN u
    OBVIOUS
  <2>2. PICK n \in S \cap U : Needs(u[n]) \cap (S \cap U) = {}
    BY <1>2, <2>1, TemplateValid
  <2>3. \A m \in S : <<n, m>> \notin Uses(r, dict)
    BY <2>2 DEF Uses
  <2> QED BY <2>3
<1> QED BY <1>1, <1>2

-----------------------------------------------------------------------------
(***************************************************************************)
(* The definitions of the resources while an operation runs.               *)
(***************************************************************************)
AcyclicGraph == Grounded(edges, Tasks)

(* The resource of n has the definition of the stored template ... *)
OldAt(n) == n \in DOMAIN stack.template /\ row[ex[n]].def = stack.template[n]

(* ... or, once its task has started, that of the new one. *)
Renewed(n) ==
  n \in DOMAIN target /\ New(n) # "wait" /\ ex[n] # Nothing /\ row[ex[n]].def = target[n]

Plain ==
  phase \in {"create", "clean", "unback"} => \A n \in Names : ex[n] # Nothing => OldAt(n)

MixedAt(n) ==
  /\ n \in DOMAIN target /\ New(n) # "wait" =>
       \A m \in Needs(target[n]) : New(m) = "done" /\ Renewed(m)
  /\ ex[n] # Nothing => Renewed(n) \/ OldAt(n)

Mixed == phase = "update" /\ ~rolling => \A n \in Names : MixedAt(n)

Required == phase = "update" => CreateEdges(target) \subseteq edges

Graphed == Plain /\ Mixed /\ Required /\ AcyclicGraph

LEMMA RequiredFirst ==
  ASSUME NEW t, NEW n \in DOMAIN t, NEW m \in DOMAIN t, m \in Needs(t[n])
  PROVE  <<<<"new", n>>, <<"new", m>>>> \in CreateEdges(t)
<1>1. <<n, m>> \in (DOMAIN t) \X (DOMAIN t)
  OBVIOUS
<1> QED BY <1>1 DEF CreateEdges

(* A step of one name's task that leaves the other names' resources alone, *)
(* and changes the definition of its own only to the new one.              *)
LEMMA GraphTask ==
  ASSUME Sound, Graphed, NEW n \in Names, UNCHANGED Others,
         \A m \in Names \ {n} : Same(m),
         ex'[n] # Nothing =>
           \/ ex[n] # Nothing /\ row'[ex'[n]].def = row[ex[n]].def
           \/ /\ phase \in {"create", "update"} /\ n \in DOMAIN target
              /\ row'[ex'[n]].def = target[n] /\ New(n)' # "wait",
         phase = "create" => target = stack.template,
         phase = "update" /\ ~rolling /\ n \in DOMAIN target =>
           /\ New(n) # "wait" => New(n)' # "wait"
           /\ New(n) = "done" => New(n)' = "done" /\ ex'[n] # Nothing
           /\ New(n) = "wait" /\ New(n)' # "wait" =>
                \A m \in Needs(target[n]) : New(m) = "done" /\ Renewed(m)
  PROVE  Graphed'
<1>1. UNCHANGED <<stack, backup, phase, target, rolling, first, edges, ops, torn>>
  BY DEF Others
<1>2. AcyclicGraph' /\ Required'
  BY <1>1 DEF Graphed, AcyclicGraph, Required
<1>3. Plain'
  <2>1. ASSUME phase \in {"create", "clean", "unback"}, NEW m \in Names, ex'[m] # Nothing
        PROVE  OldAt(m)'
    <3>1. CASE m # n
      BY <1>1, <2>1, <3>1 DEF Same, Graphed, Plain, OldAt
    <3>2. CASE m = n
      BY <1>1, <2>1, <3>2 DEF Graphed, Plain, OldAt
    <3> QED BY <3>1, <3>2
  <2> QED BY <1>1, <2>1 DEF Plain
<1>4. Mixed'
  <2> SUFFICES ASSUME phase = "update", ~rolling, NEW m \in Names PROVE MixedAt(m)'
    BY <1>1 DEF Mixed
  <2>1. \A k \in Names : MixedAt(k)
    BY DEF Graphed, Mixed
  <2>2. target \in Templates /\ DOMAIN target \subseteq Names
    BY TargetNames
  <2>3. ASSUME NEW k \in Names, New(k) = "done", Renewed(k) PROVE New(k)' = "done" /\ Renewed(k)'
    <3>1. CASE k # n
      BY <1>1, <2>3, <3>1 DEF Same, Renewed
    <3>2. CASE k = n
      <4>1. New(n)' = "done" /\ ex'[n] # Nothing
        BY <2>3, <3>2 DEF Renewed
      <4> QED BY <1>1, <2>3, <3>2, <4>1 DEF Renewed
    <3> QED BY <3>1, <3>2
  <2>4. ASSUME m \in DOMAIN target, New(m)' # "wait", NEW k \in Needs(target[m])
        PROVE  (New(k) = "done" /\ Renewed(k))'
    <3>1. New(k) = "done" /\ Renewed(k)
      BY <2>1, <2>4 DEF Same, MixedAt
    <3>2. k \in Names
      BY <2>2, <2>4, TemplateValid
    <3> QED BY <2>3, <3>1, <3>2
  <2>5. ASSUME ex'[m] # Nothing PROVE Renewed(m)' \/ OldAt(m)'
    <3>1. CASE m # n
      BY <1>1, <2>1, <2>5, <3>1 DEF Same, MixedAt, Renewed, OldAt
    <3>2. CASE m = n /\ ex[n] # Nothing /\ row'[ex'[n]].def = row[ex[n]].def
      BY <1>1, <2>1, <2>5, <3>2 DEF MixedAt, Renewed, OldAt
    <3>3. CASE m = n /\ n \in DOMAIN target /\ row'[ex'[n]].def = target[n] /\ New(n)' # "wait"
      BY <1>1, <2>5, <3>3 DEF Renewed
    <3> QED BY <2>5, <3>1, <3>2, <3>3
  <2> QED BY <1>1, <2>4, <2>5 DEF MixedAt
<1> QED BY <1>2, <1>3, <1>4 DEF Graphed

(* What a task has behind it when it starts. *)
LEMMA StartsReady ==
  ASSUME Sound, Exact, Graphed, phase = "update", NEW n \in DOMAIN target, NEW to,
         Start(<<"new", n>>, to)
  PROVE  \A m \in Needs(target[n]) : New(m) = "done" /\ Renewed(m)
<1> SUFFICES ASSUME NEW m \in Needs(target[n]) PROVE New(m) = "done" /\ Renewed(m)
  OBVIOUS
<1>1. target \in Templates /\ DOMAIN target \subseteq Names
  BY TargetNames
<1>2. m \in DOMAIN target /\ m \in Names
  BY <1>1, TemplateValid
<1>3. <<<<"new", n>>, <<"new", m>>>> \in edges
  BY <1>2, RequiredFirst DEF Graphed, Required
<1>4. New(m) = "done" /\ outcome = "ok"
  BY <1>2, <1>3, TasksAre DEF Start, Move, New
<1>5. DefinedAt(m)
  BY <1>2, <1>4 DEF Exact, Defined
<1> QED BY <1>2, <1>4, <1>5 DEF DefinedAt, Renewed

LEMMA CreatedNamed ==
  ASSUME Exact
  PROVE  phase = "create" => target = stack.template
BY DEF Exact, Named

(* The steps of new tasks that leave the dictionaries alone. *)
LEMMA GraphStill ==
  ASSUME Sound, Exact, Graphed, NEW n \in DOMAIN target, NEW to \in Stages \ {"wait"},
         phase \in {"create", "update"},
         \/ \E from \in Stages \ {"wait", "done"} : Move(<<"new", n>>, from, to)
         \/ Start(<<"new", n>>, to),
         UNCHANGED Others, UNCHANGED <<ex, prev>>,
         SameDefs(row, row')
  PROVE  Graphed'
<1>1. n \in Names
  BY TargetNames
<1>2. /\ New(n)' = to /\ New(n) # "done"
      /\ \A m \in Names \ {n} : New(m)' = New(m)
      /\ New(n) = "wait" => Start(<<"new", n>>, to)
  BY <1>1, NewMoved, NewStarted
<1>3. \A m \in Names : /\ ex[m] # Nothing => row'[ex[m]].def = row[ex[m]].def
                       /\ prev[m] # Nothing => row'[prev[m]].def = row[prev[m]].def
  BY ExLinked, PrevLinked DEF Sound, SameDefs
<1>4. \A m \in Names \ {n} : Same(m)
  BY <1>2, <1>3 DEF Same
<1>5. phase = "update" /\ New(n) = "wait" =>
        \A m \in Needs(target[n]) : New(m) = "done" /\ Renewed(m)
  BY <1>2, StartsReady
<1> QED BY <1>1, <1>2, <1>3, <1>4, <1>5, CreatedNamed, GraphTask

LEMMA GraphNew ==
  ASSUME Sound, Exact, Graphed, NEW n \in Names, n \in DOMAIN target, phase \in {"create", "update"},
         \/ Unchanged(n) \/ UpdateRefused(n) \/ StartUpdate(n)
         \/ UpdateReplace(n) \/ Purge(n) \/ Created(n)
  PROVE  Graphed'
<1>1. CASE Unchanged(n)
  BY <1>1, SameItself, GraphStill DEF Unchanged, db, Others, Stages
<1>2. CASE UpdateRefused(n)
  BY <1>2, SameItself, GraphStill DEF UpdateRefused, db, Others, Stages
<1>3. CASE StartUpdate(n)
  BY <1>3, StartUpdateSound, GraphStill DEF StartUpdate, Others, Stages
<1>4. CASE UpdateReplace(n)
  BY <1>4, SameItself, GraphStill DEF UpdateReplace, db, Others, Stages
<1>5. CASE Purge(n)
  BY <1>5, PurgeSound, GraphStill DEF Purge, Others, Stages
<1>6. CASE Created(n)
  BY <1>6, CreatedSound, GraphStill DEF Created, Others, Stages
<1> QED BY <1>1, <1>2, <1>3, <1>4, <1>5, <1>6

(* A step in a phase of which only the graph is claimed. *)
LEMMA GraphOnly ==
  ASSUME Graphed, UNCHANGED Others, phase = "delete" \/ (phase = "update" /\ rolling)
  PROVE  Graphed'
<1>1. UNCHANGED <<phase, target, rolling, edges>>
  BY DEF Others
<1> QED BY <1>1 DEF Graphed, Plain, Mixed, Required, AcyclicGraph

(* The steps that move rows, or give one a new definition. *)
LEMMA GraphMoves ==
  ASSUME Sound, Tended, Exact, Graphed, NEW n \in Names, n \in DOMAIN target,
         phase \in {"create", "update"},
         UpdatedInPlace(n) \/ SwapIn(n) \/ Purged(n) \/ Create(n)
  PROVE  Graphed'
<1>1. CASE UpdatedInPlace(n)
  <2>1. /\ New(n) = "updating" /\ New(n)' = "done"
        /\ \A m \in Names \ {n} : New(m)' = New(m)
    BY <1>1, NewMoved DEF UpdatedInPlace, Stages
  <2>2. UNCHANGED Others /\ UNCHANGED <<ex, prev>>
    BY <1>1 DEF UpdatedInPlace, Others
  <2>3. /\ ex[n] # Nothing /\ row'[ex[n]].def = target[n]
        /\ \A j \in Ids \ {ex[n]} : row'[j] = row[j]
    BY <1>1, UpdatedInPlaceSound
  <2>4. \A m \in Names \ {n} : Same(m)
    BY <2>1, <2>2, <2>3, OtherRows DEF Same
  <2> QED BY <2>1, <2>2, <2>3, <2>4, CreatedNamed, GraphTask
<1>2. CASE SwapIn(n)
  BY <1>2, SwapInSound, SwapInTended, GraphOnly DEF SwapIn, Others
<1>3. CASE Purged(n)
  <2>1. New(n) = "purging" /\ prev[n] # Nothing
    BY <1>3, PurgedSound, NewMoved DEF Purged, Stages
  <2>2. phase = "update"
    BY <2>1, EmptyIs DEF Sound, Fits, Placed
  <2>3. rolling
    BY <2>1, <2>2 DEF Tended, Moved, MovedAt
  <2> QED BY <1>3, <2>2, <2>3, GraphOnly DEF Purged, Others
<1>4. CASE Create(n)
  <2>1. /\ New(n)' = "creating" /\ New(n) \in {"wait", "replace"}
        /\ \A m \in Names \ {n} : New(m)' = New(m)
    BY <1>4, NewMoved, NewStarted DEF Create, Stages
  <2>2. UNCHANGED Others
    BY <1>4 DEF Create, Others
  <2>3. /\ Fresh \in Ids /\ row[Fresh] = Nothing /\ ex'[n] = Fresh
        /\ row'[Fresh].def = target[n]
        /\ \A m \in Names \ {n} : ex'[m] = ex[m] /\ prev'[m] = prev[m]
        /\ \A j \in Ids : j # ex[n] /\ j # Fresh => row'[j] = row[j]
    BY <1>4, CreateSound
  <2>4. ASSUME NEW m \in Names \ {n} PROVE Same(m)
    <3>1. /\ ex[m] # Nothing => ex[m] \in Ids /\ ex[m] # ex[n] /\ ex[m] # Fresh
          /\ prev[m] # Nothing => prev[m] \in Ids /\ prev[m] # ex[n] /\ prev[m] # Fresh
      BY <2>3, OtherRows
    <3> QED BY <2>1, <2>3, <3>1 DEF Same
  <2>5. phase = "update" /\ New(n) = "wait" =>
          \A m \in Needs(target[n]) : New(m) = "done" /\ Renewed(m)
    <3>1. New(n) = "wait" => Start(<<"new", n>>, "creating")
      BY <1>4 DEF Create, Move, New
    <3> QED BY <3>1, StartsReady
  <2> QED BY <2>1, <2>2, <2>3, <2>4, <2>5, CreatedNamed, GraphTask
<1> QED BY <1>1, <1>2, <1>3, <1>4

LEMMA GraphOld ==
  ASSUME Sound, Tended, Exact, Graphed, NEW n \in Names, OldTask(n)
  PROVE  Graphed'
<1>1. phase = "update" /\ New(n) = "done" /\ n \in DOMAIN target /\ outcome = "ok" => ex[n] # Nothing
  BY DEF Exact, Defined, DefinedAt
<1>2. CASE StartDestroy(n) \/ NothingToDestroy(n)
  <2>1. /\ Old(n) = "wait" /\ outcome = "ok" /\ New(n)' = New(n)
        /\ \A m \in Names \ {n} : New(m)' = New(m)
    BY <1>2, OldStarted DEF StartDestroy, NothingToDestroy, Stages
  <2>2. UNCHANGED Others /\ UNCHANGED <<ex, prev>>
    BY <1>2 DEF StartDestroy, NothingToDestroy, Others, db
  <2>3. SameDefs(row, row')
    BY <1>2, StartDestroySound, SameItself DEF NothingToDestroy, db
  <2>4. \A m \in Names : /\ ex[m] # Nothing => row'[ex[m]].def = row[ex[m]].def
                         /\ prev[m] # Nothing => row'[prev[m]].def = row[prev[m]].def
    BY <2>3, ExLinked, PrevLinked DEF Sound, SameDefs
  <2>5. \A m \in Names \ {n} : Same(m)
    BY <2>1, <2>2, <2>4 DEF Same
  <2> QED BY <1>1, <2>1, <2>2, <2>4, <2>5, CreatedNamed, GraphTask
<1>3. CASE Destroyed(n)
  <2>1. /\ phase \in {"update", "unback", "delete"} /\ UNCHANGED Others
        /\ phase = "update" => New(n) = "done"
        /\ New(n)' = New(n)
        /\ \A m \in Names \ {n} : New(m)' = New(m) /\ Old(m)' = Old(m)
    BY <1>3, DestroyedTended
  <2>2. /\ Doomed(n) # Nothing /\ Doomed(n) \in Ids
        /\ \A j \in Ids \ {Doomed(n)} : row'[j] = row[j]
        /\ \/ Doomed(n) = prev[n] /\ prev'[n] = Nothing /\ ex' = ex
           \/ Doomed(n) = ex[n] /\ ex'[n] = Nothing /\ prev' = prev
        /\ \A m \in Names \ {n} : ex'[m] = ex[m] /\ prev'[m] = prev[m]
    BY <1>3, DestroyedSound
  <2>3. outcome = "ok"
    BY <1>3 DEF Destroyed, Move
  <2>4. ASSUME NEW m \in Names \ {n} PROVE Same(m)
    <3>1. /\ ex[m] # Nothing => ex[m] \in Ids /\ ex[m] # Doomed(n)
          /\ prev[m] # Nothing => prev[m] \in Ids /\ prev[m] # Doomed(n)
      BY <2>2, OtherRows
    <3> QED BY <2>1, <2>2, <3>1 DEF Same
  <2>5. ex'[n] # Nothing => ex'[n] = ex[n] /\ row'[ex[n]] = row[ex[n]]
    <3> SUFFICES ASSUME ex'[n] # Nothing PROVE ex'[n] = ex[n] /\ row'[ex[n]] = row[ex[n]]
      OBVIOUS
    <3>1. ex'[n] = ex[n] /\ Doomed(n) = prev[n]
      BY <2>2
    <3>2. ex[n] \in Ids /\ ex[n] # prev[n]
      BY <3>1, ExLinked DEF Sound
    <3> QED BY <2>2, <3>1, <3>2
  <2>6. phase = "update" /\ n \in DOMAIN target => ex'[n] # Nothing
    <3> SUFFICES ASSUME phase = "update", n \in DOMAIN target PROVE ex'[n] # Nothing
      OBVIOUS
    <3>1. Doomed(n) = prev[n] /\ ex[n] # Nothing
      BY <1>1, <2>1, <2>2, <2>3 DEF Doomed
    <3>2. ex[n] # prev[n]
      BY <3>1, ExLinked DEF Sound
    <3> QED BY <2>2, <3>1, <3>2
  <2> QED BY <2>1, <2>4, <2>5, <2>6, CreatedNamed, GraphTask
<1> QED BY <1>2, <1>3 DEF OldTask

LEMMA GraphFailure ==
  ASSUME Sound, Graphed,
         Timeout \/ \E n \in Names : CreateFails(n) \/ UpdateFails(n) \/ DestroyFails(n)
  PROVE  Graphed'
<1>1. /\ SameDefs(row, row') /\ UNCHANGED Others /\ UNCHANGED <<phys, ex, prev, stage>>
  BY Failures
<1>2. UNCHANGED <<stack, phase, target, rolling, edges>>
  BY <1>1 DEF Others
<1>3. \A m \in Names : /\ New(m)' = New(m)
                       /\ ex[m] # Nothing => row'[ex[m]].def = row[ex[m]].def
  BY <1>1, ExLinked DEF Sound, SameDefs, New
<1>4. \A m \in Names : /\ Renewed(m) => Renewed(m)'
                       /\ ex[m] # Nothing /\ OldAt(m) => OldAt(m)'
  BY <1>1, <1>2, <1>3 DEF Renewed, OldAt
<1>5. Plain'
  BY <1>1, <1>2, <1>4 DEF Graphed, Plain
<1>6. Mixed'
  <2> SUFFICES ASSUME phase = "update", ~rolling, NEW n \in Names PROVE MixedAt(n)'
    BY <1>2 DEF Mixed
  <2>1. MixedAt(n) /\ target \in Templates /\ DOMAIN target \subseteq Names
    BY TargetNames DEF Graphed, Mixed
  <2>2. n \in DOMAIN target => Needs(target[n]) \subseteq Names
    BY <2>1, TemplateValid
  <2> QED BY <1>1, <1>2, <1>3, <1>4, <2>1, <2>2 DEF MixedAt
<1> QED BY <1>2, <1>5, <1>6 DEF Graphed, Required, AcyclicGraph

-----------------------------------------------------------------------------
(***************************************************************************)
(* The graphs as they are made.                                            *)
(***************************************************************************)
LEMMA GraphElse ==
  ASSUME AcyclicGraph', phase' \notin {"create", "clean", "unback", "update"}
  PROVE  Graphed'
BY DEF Graphed, Plain, Mixed, Required

LEMMA NoEdges ==
  Grounded({}, Tasks)
BY DEF Grounded

LEMMA ForgetGraph ==
  ASSUME Forget
  PROVE  Graphed'
<1>1. phase' = "idle" /\ edges' = {}
  BY DEF Forget
<1> QED BY <1>1, NoEdges, GraphElse DEF AcyclicGraph

(* A group that destroys the resources of one template. *)
LEMMA DestroysGraph ==
  ASSUME NEW p, NEW r, NEW dict, StartDestroys(p, r, dict), NEW t \in Templates,
         \A n \in Names : dict[n] # Nothing => n \in DOMAIN t /\ r[dict[n]].def = t[n]
  PROVE  AcyclicGraph' /\ phase' = p
<1>1. edges' = DestroyEdges(r, dict) /\ phase' = p
  BY DEF StartDestroys, StartGroup
<1>2. \A n \in Present(dict) : n \in DOMAIN t /\ r[dict[n]].def = t[n]
  BY DEF Present
<1>3. Grounded(DestroyEdges(r, dict), Tasks)
  BY <1>2, OneTemplate, DestroyGrounded
<1> QED BY <1>1, <1>3 DEF AcyclicGraph

(* ... or none. *)
LEMMA EmptyGraph ==
  ASSUME NEW p, NEW r, StartDestroys(p, r, Empty)
  PROVE  AcyclicGraph' /\ phase' = p
<1>1. edges' = DestroyEdges(r, Empty) /\ phase' = p
  BY DEF StartDestroys, StartGroup
<1>2. Present(Empty) = {}
  BY EmptyIs DEF Present
<1>3. Grounded(Uses(r, Empty), Present(Empty))
  BY <1>2 DEF Grounded
<1>4. Grounded(DestroyEdges(r, Empty), Tasks)
  BY <1>3, DestroyGrounded
<1> QED BY <1>1, <1>4 DEF AcyclicGraph

LEMMA AlignGraph ==
  ASSUME Sound, Graphed, Align
  PROVE  Graphed'
<1>1. /\ phase = "clean"
      /\ UNCHANGED <<stack, backup, row, phys, target, rolling, ex, prev, ops, torn>>
  BY DEF Align, db
<1>2. /\ phase' = "update" /\ edges' = UpdateEdges(row, ex, target)
      /\ \A n \in Names : New(n)' = IF n \in DOMAIN target THEN "wait" ELSE "done"
  BY UpdateStart DEF Align
<1>3. \A n \in Names : ex[n] # Nothing => OldAt(n)
  BY <1>1 DEF Graphed, Plain
<1>4. target \in Templates /\ stack.template \in Templates
  BY <1>1, TargetNames, StackThere
<1>5. AcyclicGraph'
  <2>1. \A n \in Present(ex) : n \in DOMAIN stack.template /\ row[ex[n]].def = stack.template[n]
    BY <1>3 DEF Present, OldAt
  <2>2. Grounded(Uses(row, ex), Present(ex))
    BY <1>4, <2>1, OneTemplate
  <2> QED BY <1>2, <1>4, <2>2, UpdateGrounded DEF AcyclicGraph
<1>6. Required'
  BY <1>1, <1>2 DEF Required, UpdateEdges
<1>7. ASSUME NEW n \in Names PROVE MixedAt(n)'
  <2>1. n \in DOMAIN target => New(n)' = "wait"
    BY <1>2
  <2>2. ex[n] # Nothing => OldAt(n)'
    BY <1>1, <1>3 DEF OldAt
  <2> QED BY <1>1, <2>1, <2>2 DEF MixedAt
<1> QED BY <1>2, <1>5, <1>6, <1>7 DEF Graphed, Plain, Mixed

(* The graph of a rollback: some of the resources have their definitions   *)
(* from the new template, the others from the old one.                     *)
LEMMA RollBackGraph ==
  ASSUME Sound, Tended, Graphed, RollBack
  PROVE  Graphed'
<1>1. phase = "update" /\ ~rolling /\ rolling'
  BY RollBackTended DEF RollBack
<1>2. target \in Templates /\ stack.template \in Templates /\ DOMAIN target \subseteq Names
  BY <1>1, TargetNames, StackThere
<1> DEFINE t == stack.template
<1>3. /\ edges' = UpdateEdges(row, ex, t) \ Severed
      /\ phase' = "update" /\ target' = t
  <2>1. StartGroup("update", Olds(ex) \cup {"new"} \X (DOMAIN t), RollBackEdges(t))
        /\ target' = t
    BY DEF RollBack
  <2> QED BY <2>1 DEF StartGroup, RollBackEdges
<1>4. Grounded(Uses(row, ex), Present(ex))
  <2> DEFINE U == {n \in Names : Renewed(n)}
  <2>1. \A n \in Names : MixedAt(n)
    BY <1>1 DEF Graphed, Mixed
  <2>2. ASSUME NEW n \in Present(ex) \cap U
        PROVE  n \in DOMAIN target /\ row[ex[n]].def = target[n] /\ Needs(target[n]) \subseteq U
    <3>1. Renewed(n) /\ MixedAt(n)
      BY <2>1
    <3>2. n \in DOMAIN target /\ New(n) # "wait" /\ row[ex[n]].def = target[n]
      BY <3>1 DEF Renewed
    <3>3. Needs(target[n]) \subseteq Names
      BY <1>2, <3>2, TemplateValid
    <3> QED BY <3>1, <3>2, <3>3 DEF MixedAt
  <2>3. ASSUME NEW n \in Present(ex) \ U
        PROVE  n \in DOMAIN t /\ row[ex[n]].def = t[n]
    BY <2>1 DEF MixedAt, OldAt, Present
  <2> HIDE DEF U, t
  <2>4. t \in Templates
    BY <1>2 DEF t
  <2> QED BY <1>2, <2>2, <2>3, <2>4, TwoTemplates
<1>5. AcyclicGraph'
  <2>1. Grounded(UpdateEdges(row, ex, t), Tasks)
    BY <1>2, <1>4, UpdateGrounded
  <2> QED BY <1>3, <2>1 DEF AcyclicGraph, Grounded
<1>6. Required'
  <2>1. ASSUME NEW e \in CreateEdges(t) PROVE e \in UpdateEdges(row, ex, t) \ Severed
    <3>1. PICK m \in DOMAIN t, n \in DOMAIN t : e = <<<<"new", m>>, <<"new", n>>>>
      BY <2>1 DEF CreateEdges
    <3> QED BY <2>1, <3>1, SeveredOld DEF UpdateEdges
  <2> HIDE DEF t
  <2> QED BY <1>3, <2>1 DEF Required
<1> QED BY <1>1, <1>3, <1>5, <1>6 DEF Graphed, Plain, Mixed

LEMMA CreateRollbackGraph ==
  ASSUME Sound, Graphed, CreateRollback
  PROVE  Graphed'
<1>1. phase = "create" /\ StartDestroys("delete", row, ex)
  BY DEF CreateRollback
<1>2. stack.template \in Templates
  BY <1>1, StackThere
<1>3. \A n \in Names : ex[n] # Nothing =>
        n \in DOMAIN stack.template /\ row[ex[n]].def = stack.template[n]
  BY <1>1 DEF Graphed, Plain, OldAt
<1>4. AcyclicGraph' /\ phase' = "delete"
  BY <1>1, <1>2, <1>3, DestroysGraph
<1> QED BY <1>4, GraphElse

LEMMA TrimGraph ==
  ASSUME Sound, Tended, Trim
  PROVE  Graphed'
<1>1. StartDestroys("trim", row, Empty)
  BY TrimTended DEF Trim
<1>2. AcyclicGraph' /\ phase' = "trim"
  BY <1>1, EmptyGraph
<1> QED BY <1>2, GraphElse

LEMMA UnbackedGraph ==
  ASSUME Sound, Graphed, Unbacked
  PROVE  Graphed'
<1> DEFINE r == Drop(row, "backup")
<1>1. phase = "unback" /\ StartDestroys("delete", r, ex)
  BY DEF Unbacked
<1>2. stack.template \in Templates
  BY <1>1, StackThere
<1>3. \A i \in Ids : r[i] = IF row[i] # Nothing /\ row[i].stack = "backup" THEN Nothing ELSE row[i]
  BY Drops DEF Sound, Typed
<1>4. \A n \in Names : ex[n] # Nothing =>
        n \in DOMAIN stack.template /\ r[ex[n]].def = stack.template[n]
  BY <1>1, <1>3, ExLinked DEF Graphed, Plain, OldAt, Sound
<1> HIDE DEF r
<1>5. AcyclicGraph' /\ phase' = "delete"
  BY <1>1, <1>2, <1>4, DestroysGraph
<1> QED BY <1>5, GraphElse

LEMMA BeginCreateGraph ==
  ASSUME Sound, NEW t \in Templates, NEW r \in Rollbacks, BeginCreate(t, r)
  PROVE  Graphed'
<1>1. phase' = "create" /\ edges' = CreateEdges(t) /\ ex' = ex /\ phase = "idle"
  BY DEF BeginCreate, StartGroup, Begin
<1>2. AcyclicGraph'
  BY <1>1, CreateGrounded DEF AcyclicGraph
<1>3. \A n \in Names : ex'[n] = Nothing
  BY <1>1, EmptyIs DEF Sound, Fits, Placed
<1> QED BY <1>1, <1>2, <1>3 DEF Graphed, Plain, Mixed, Required

(* What a load gives the objects of the stack. *)
LEMMA LoadedPlain ==
  ASSUME Sound, stack # Nothing, NEW b \in Templates \cup {Nothing},
         row' = ReloadBoth(stack.template, b), ex' = Load("main", stack.template),
         stack'.template = stack.template
  PROVE  \A n \in Names : ex'[n] # Nothing => OldAt(n)'
<1> DEFINE t == stack.template
<1>1. t \in Templates
  BY DEF Sound, Typed, StackType
<1>2. \A i \in Ids : row[i] # Nothing /\ row[i].stack = "main" =>
        row'[i].def = IF row[i].name \in DOMAIN t THEN t[row[i].name] ELSE row[i].def
  BY <1>1, ReloadBothShape DEF Sound, Typed
<1>3. /\ ex' \in Dictionary
      /\ \A n \in Names : ex'[n] # Nothing => At("main", n, ex'[n]) /\ n \in DOMAIN t
  BY Loads DEF Sound, Typed
<1> QED BY <1>2, <1>3 DEF At, Dictionary, OldAt

(* ... and those of the backup stack. *)
LEMMA LoadedBackup ==
  ASSUME Sound, NEW b \in Templates, NEW t
  PROVE  \A n \in Names : Load("backup", b)[n] # Nothing =>
           n \in DOMAIN b /\ ReloadBoth(t, b)[Load("backup", b)[n]].def = b[n]
<1> SUFFICES ASSUME NEW n \in Names, Load("backup", b)[n] # Nothing
             PROVE  n \in DOMAIN b /\ ReloadBoth(t, b)[Load("backup", b)[n]].def = b[n]
  OBVIOUS
<1> DEFINE i == Load("backup", b)[n]
<1>1. i \in Ids /\ At("backup", n, i) /\ n \in DOMAIN b
  BY Loads DEF Dictionary, Sound, Typed
<1> HIDE DEF i
<1>2. b # Nothing /\ i \in Rows("backup")
  BY <1>1, NothingAssumption DEF At, Rows
<1>3. ReloadBoth(t, b)[i] = Reload("backup", b)[i]
  BY <1>1, <1>2 DEF ReloadBoth
<1>4. Reload("backup", b)[i].def = b[n]
  BY <1>1, ReloadShape DEF At, Sound, Typed
<1> QED BY <1>1, <1>3, <1>4 DEF i

LEMMA BeginUpdateGraph ==
  ASSUME Sound, Tended, NEW t \in Templates, BeginUpdate(t)
  PROVE  Graphed'
<1>1. stack # Nothing /\ backup' \in Templates /\ stack \in StackType
  BY BeginUpdateSound DEF BeginUpdate
<1>2. /\ row' = ReloadBoth(stack.template, backup') /\ ex' = Load("main", stack.template)
      /\ stack'.template = stack.template
  BY <1>1, StateIs DEF BeginUpdate
<1>3. \A n \in Names : ex'[n] # Nothing => OldAt(n)'
  <2> DEFINE b == backup'
  <2>1. b \in Templates /\ row' = ReloadBoth(stack.template, b)
    BY <1>1, <1>2
  <2> HIDE DEF b
  <2> QED BY <1>1, <1>2, <2>1, LoadedPlain
<1>4. AcyclicGraph' /\ phase' = "clean"
  <2> DEFINE r == row'
             d == prev'
  <2>1. StartDestroys("clean", r, d) /\ phase' = "clean"
    BY DEF BeginUpdate, StartDestroys, StartGroup
  <2>2. d = Empty
    BY <2>1, BeginUpdateTended DEF Tended, Kept
  <2> HIDE DEF r, d
  <2> QED BY <2>1, <2>2, EmptyGraph
<1> QED BY <1>3, <1>4 DEF Graphed, Plain, Mixed, Required

LEMMA BeginDeleteGraph ==
  ASSUME Sound, BeginDelete
  PROVE  Graphed'
<1>1. /\ stack # Nothing /\ stack \in StackType /\ stack.template \in Templates
      /\ row' = ReloadBoth(stack.template, backup) /\ ex' = Load("main", stack.template)
      /\ backup \in Templates \cup {Nothing}
  BY BeginDeleteSound DEF BeginDelete, Sound, Typed
<1>2. stack'.template = stack.template
  BY <1>1, StateIs DEF BeginDelete
<1>3. \A n \in Names : ex'[n] # Nothing => OldAt(n)'
  BY <1>1, <1>2, LoadedPlain
<1> DEFINE r == ReloadBoth(stack.template, backup)
           d == Load("main", stack.template)
           q == Load("backup", backup)
<1>4. CASE backup = Nothing
  <2>1. StartDestroys("delete", r, d)
    <3>1. StartDestroys("delete", row', ex')
      BY <1>4 DEF BeginDelete
    <3> QED BY <1>1, <3>1
  <2>2. \A n \in Names : d[n] # Nothing =>
          n \in DOMAIN stack.template /\ r[d[n]].def = stack.template[n]
    BY <1>1, <1>2, <1>3 DEF OldAt
  <2> HIDE DEF r, d
  <2>3. AcyclicGraph' /\ phase' = "delete"
    BY <1>1, <2>1, <2>2, DestroysGraph
  <2> QED BY <2>3, GraphElse
<1>5. CASE backup # Nothing
  <2>1. StartDestroys("unback", r, q)
    <3>1. StartDestroys("unback", row', prev') /\ prev' = q
      BY <1>5 DEF BeginDelete
    <3> QED BY <1>1, <3>1
  <2>2. \A n \in Names : q[n] # Nothing => n \in DOMAIN backup /\ r[q[n]].def = backup[n]
    BY <1>1, <1>5, LoadedBackup
  <2> HIDE DEF r, q
  <2>3. AcyclicGraph' /\ phase' = "unback"
    BY <1>1, <1>5, <2>1, <2>2, DestroysGraph
  <2> QED BY <1>3, <2>3 DEF Graphed, Plain, Mixed, Required
<1> QED BY <1>4, <1>5

LEMMA GraphStutter ==
  ASSUME Graphed, UNCHANGED vars
  PROVE  Graphed'
<1>1. UNCHANGED <<stack, row, phase, target, rolling, ex, edges, stage>>
  BY DEF vars, db, mem
<1>2. \A n \in Names : /\ New(n)' = New(n) /\ Renewed(n)' = Renewed(n) /\ OldAt(n)' = OldAt(n)
                       /\ MixedAt(n) => MixedAt(n)'
  BY <1>1 DEF New, Renewed, OldAt, MixedAt
<1> QED BY <1>1, <1>2 DEF Graphed, Plain, Mixed, Required, AcyclicGraph

LEMMA ContinueGraph ==
  ASSUME Sound, Tended, Graphed, Continue
  PROVE  Graphed'
<1>1. CASE CreateEnds \/ Flip \/ DeleteFailed \/ Deleted
  BY <1>1, ForgetGraph DEF CreateEnds, Flip, DeleteFailed, Deleted
<1>2. CASE UpdateFailed \/ Trimmed
  <2>1. phase' = "flip" /\ edges' = edges
    BY <1>2 DEF UpdateFailed, Trimmed, mem
  <2> QED BY <2>1, GraphElse DEF Graphed, AcyclicGraph
<1>3. CASE DeleteDone
  <2>1. phase' = "delete" /\ edges' = edges
    BY <1>3 DEF DeleteDone, mem
  <2> QED BY <2>1, GraphElse DEF Graphed, AcyclicGraph
<1> QED BY <1>1, <1>2, <1>3, CreateRollbackGraph, AlignGraph, RollBackGraph, TrimGraph, UnbackedGraph
        DEF Continue

LEMMA GraphNext ==
  ASSUME Sound, Tended, Exact, Graphed, [Next]_vars
  PROVE  Graphed'
<1>1. ASSUME NEW n \in Names, NewTask(n) PROVE Graphed'
  BY <1>1, GraphNew, GraphMoves DEF NewTask
<1>2. ASSUME NEW n \in Names, OldTask(n) PROVE Graphed'
  BY <1>2, GraphOld
<1>3. ASSUME Timeout \/ \E n \in Names : CreateFails(n) \/ UpdateFails(n) \/ DestroyFails(n)
      PROVE  Graphed'
  BY <1>3, GraphFailure
<1>4. ASSUME NEW t \in Templates, BeginUpdate(t) \/ \E r \in Rollbacks : BeginCreate(t, r)
      PROVE  Graphed'
  BY <1>4, BeginUpdateGraph, BeginCreateGraph
<1>5. ASSUME UpdateInvalid PROVE Graphed'
  <2>1. phase' = "idle" /\ edges' = edges
    BY <1>5 DEF UpdateInvalid, Begin, mem
  <2> QED BY <2>1, GraphElse DEF Graphed, AcyclicGraph
<1>6. ASSUME Kill \/ Crash PROVE Graphed'
  BY <1>6, ForgetGraph DEF Kill, Crash
<1> QED BY <1>1, <1>2, <1>3, <1>4, <1>5, <1>6, ContinueGraph, BeginDeleteGraph, GraphStutter
        DEF Next

LEMMA GraphInit ==
  ASSUME Init
  PROVE  Graphed
<1>1. phase = "idle" /\ edges = {}
  BY DEF Init
<1> QED BY <1>1, NoEdges DEF Graphed, Plain, Mixed, Required, AcyclicGraph

LEMMA AlwaysGraphed == Spec => [](Sound /\ Tended /\ Exact /\ Graphed)
<1>1. Init => Graphed
  BY GraphInit
<1>2. Sound /\ Tended /\ Exact /\ Graphed /\ [Next]_vars => Graphed'
  BY GraphNext
<1> QED BY <1>1, <1>2, AlwaysExact, PTL DEF Spec

(* No group of tasks is refused with CircularDependencyException after its *)
(* operation has begun: whatever tasks one takes, one of them requires     *)
(* none of the others.  So it is for the graph of an update, which joins   *)
(* the orders of the old and the new resources, and for that of a rollback,*)
(* made of a stack half of whose resources have new definitions.           *)
THEOREM NoCircularGraph == Spec => []AcyclicGraph
<1>1. Graphed => AcyclicGraph
  BY DEF Graphed
<1> QED BY <1>1, AlwaysGraphed, PTL

-----------------------------------------------------------------------------
(***************************************************************************)
(* No task waits for ever.                                                 *)
(***************************************************************************)
AtWork(k) == stage[k] \notin {"wait", "done"}

Startable(k) ==
  stage[k] = "wait" /\ \A j \in Tasks : <<k, j>> \in edges => stage[j] = "done"

GoesOn ==
  phase \notin {"idle", "flip"} /\ outcome = "ok" =>
    Finished \/ \E k \in Tasks : AtWork(k) \/ Startable(k)

(* A group that has not failed has ended, or one of its tasks is at work,  *)
(* or one may start: the tasks of an operation never all wait for one      *)
(* another, however two templates refer and however the tasks interleave   *)
(* (DependencyTaskGroup would then spin in its loop until the timeout).    *)
THEOREM NoTaskStuck == Spec => []GoesOn
<1>1. ASSUME AcyclicGraph, outcome = "ok", ~Finished
      PROVE  \E k \in Tasks : AtWork(k) \/ Startable(k)
  <2> DEFINE S == {k \in Tasks : stage[k] # "done"}
  <2>1. S \in SUBSET Tasks /\ S # {}
    BY <1>1 DEF Finished
  <2>2. PICK k \in S : \A j \in S : <<k, j>> \notin edges
    BY <1>1, <2>1 DEF AcyclicGraph, Grounded
  <2>3. \A j \in Tasks : <<k, j>> \in edges => stage[j] = "done"
    BY <2>2
  <2> QED BY <2>3 DEF AtWork, Startable
<1>2. AcyclicGraph => GoesOn
  BY <1>1 DEF GoesOn
<1> QED BY <1>2, NoCircularGraph, PTL

-----------------------------------------------------------------------------
(***************************************************************************)
(* References of the resources of a running update.                        *)
(***************************************************************************)
ClosedAt(n) ==
  ex[n] # Nothing => \A m \in Needs(row[ex[n]].def) : ex[m] # Nothing

NoneDangling ==
  phase = "update" /\ ~rolling /\ torn \cap {"kill", "crash"} = {} =>
    \A n \in Names : ClosedAt(n)

Closed ==
  Whole =>
    /\ phase = "clean" => \A n \in DOMAIN stack.template : ex[n] # Nothing
    /\ phase = "update" /\ ~rolling => \A n \in Names : ClosedAt(n)

(* What a definition refers to is in its template. *)
LEMMA DefinitionNeeds == \A d \in Definitions : Needs(d) \subseteq Names
<1> TAKE d \in Definitions
<1>1. PICK t \in Templates : d \in {t[n] : n \in DOMAIN t}
  BY DEF Definitions
<1>2. PICK n \in DOMAIN t : d = t[n]
  BY <1>1
<1> QED BY <1>2, TemplateValid

(* A step of a task that keeps the other names' resources, and takes away  *)
(* none.                                                                   *)
LEMMA ClosedTask ==
  ASSUME Sound, Exact, Closed, Graphed', Whole, phase = "update", ~rolling,
         NEW n \in Names, UNCHANGED Others, \A m \in Names \ {n} : Same(m),
         ex[n] # Nothing => ex'[n] # Nothing,
         ex'[n] # Nothing =>
           \/ ex[n] # Nothing /\ row'[ex'[n]].def = row[ex[n]].def
           \/ n \in DOMAIN target /\ row'[ex'[n]].def = target[n] /\ New(n)' # "wait"
  PROVE  \A m \in Names : ClosedAt(m)'
<1>1. UNCHANGED <<phase, rolling, target>>
  BY DEF Others
<1>2. target \in Templates /\ DOMAIN target \subseteq Names
  BY TargetNames
<1>3. \A k \in Names : ex[k] # Nothing => ex'[k] # Nothing
  BY DEF Same
<1> SUFFICES ASSUME NEW m \in Names, ex'[m] # Nothing, NEW k \in Needs(row'[ex'[m]].def)
             PROVE  ex'[k] # Nothing
  BY DEF ClosedAt
<1>5. \A j \in Names : ClosedAt(j)
  BY DEF Closed
<1>6. MixedAt(m)'
  BY <1>1 DEF Graphed, Mixed
<1>7. CASE m = n /\ n \in DOMAIN target /\ row'[ex'[n]].def = target[n] /\ New(n)' # "wait"
  <2>1. Renewed(k)'
    BY <1>1, <1>6, <1>7 DEF MixedAt
  <2> QED BY <2>1 DEF Renewed
<1>8. CASE ex[m] # Nothing /\ row'[ex'[m]].def = row[ex[m]].def
  <2>1. ex[k] # Nothing
    BY <1>5, <1>8 DEF ClosedAt
  <2>2. k \in Names
    <3>1. row[ex[m]].def \in Definitions
      BY <1>8, ExLinked DEF Sound, Typed, RowMap, RowType
    <3> QED BY <1>8, <3>1, DefinitionNeeds
  <2> QED BY <1>3, <2>1, <2>2
<1> QED BY <1>7, <1>8 DEF Same

LEMMA ClosedSame ==
  ASSUME Sound, Exact, Closed, Graphed', Whole, phase = "update", ~rolling,
         NEW n \in Names, UNCHANGED Others, UNCHANGED <<ex, prev>>, SameDefs(row, row'),
         \A m \in Names \ {n} : New(m)' = New(m)
  PROVE  \A m \in Names : ClosedAt(m)'
<1>1. \A m \in Names : /\ ex[m] # Nothing => row'[ex[m]].def = row[ex[m]].def
                       /\ prev[m] # Nothing => row'[prev[m]].def = row[prev[m]].def
  BY ExLinked, PrevLinked DEF Sound, SameDefs
<1>2. \A m \in Names \ {n} : Same(m)
  BY <1>1 DEF Same
<1> QED BY <1>1, <1>2, ClosedTask

LEMMA ClosedNew ==
  ASSUME Sound, Tended, Exact, Closed, Graphed', Whole, phase = "update", ~rolling,
         NEW n \in Names, n \in DOMAIN target, NewTask(n)
  PROVE  \A m \in Names : ClosedAt(m)'
<1>1. CASE Unchanged(n) \/ UpdateRefused(n)
  <2>1. \A m \in Names \ {n} : New(m)' = New(m)
    BY <1>1, NewStarted DEF Unchanged, UpdateRefused, Stages
  <2> QED BY <1>1, <2>1, SameItself, ClosedSame DEF Unchanged, UpdateRefused, db, Others
<1>2. CASE StartUpdate(n)
  <2>1. \A m \in Names \ {n} : New(m)' = New(m)
    BY <1>2, NewStarted DEF StartUpdate, Stages
  <2> QED BY <1>2, <2>1, StartUpdateSound, ClosedSame DEF StartUpdate, Others
<1>3. CASE UpdateReplace(n)
  <2>1. \A m \in Names \ {n} : New(m)' = New(m)
    BY <1>3, NewMoved DEF UpdateReplace, Stages
  <2> QED BY <1>3, <2>1, SameItself, ClosedSame DEF UpdateReplace, db, Others
<1>4. CASE Purge(n)
  <2>1. \A m \in Names \ {n} : New(m)' = New(m)
    BY <1>4, NewMoved, NewStarted DEF Purge, Stages
  <2> QED BY <1>4, <2>1, PurgeSound, ClosedSame DEF Purge, Others
<1>5. CASE Created(n)
  <2>1. \A m \in Names \ {n} : New(m)' = New(m)
    BY <1>5, NewMoved DEF Created, Stages
  <2> QED BY <1>5, <2>1, CreatedSound, ClosedSame DEF Created, Others
<1>6. CASE UpdatedInPlace(n)
  <2>1. New(n)' = "done" /\ \A m \in Names \ {n} : New(m)' = New(m)
    BY <1>6, NewMoved DEF UpdatedInPlace, Stages
  <2>2. UNCHANGED Others /\ UNCHANGED <<ex, prev>>
    BY <1>6 DEF UpdatedInPlace, Others
  <2>3. /\ ex[n] # Nothing /\ row'[ex[n]].def = target[n]
        /\ \A j \in Ids \ {ex[n]} : row'[j] = row[j]
    BY <1>6, UpdatedInPlaceSound
  <2>4. \A m \in Names \ {n} : Same(m)
    BY <2>1, <2>2, <2>3, OtherRows DEF Same
  <2> QED BY <2>1, <2>2, <2>3, <2>4, ClosedTask
<1>7. CASE SwapIn(n)
  BY <1>7, SwapInTended
<1>8. CASE Purged(n)
  <2>1. New(n) = "purging" /\ prev[n] # Nothing
    BY <1>8, PurgedSound, NewMoved DEF Purged, Stages
  <2> QED BY <2>1 DEF Tended, Moved, MovedAt
<1>9. CASE Create(n)
  <2>1. New(n)' = "creating" /\ \A m \in Names \ {n} : New(m)' = New(m)
    BY <1>9, NewMoved, NewStarted DEF Create, Stages
  <2>2. UNCHANGED Others
    BY <1>9 DEF Create, Others
  <2>3. /\ Fresh \in Ids /\ row[Fresh] = Nothing /\ ex'[n] = Fresh
        /\ row'[Fresh].def = target[n]
        /\ \A m \in Names \ {n} : ex'[m] = ex[m] /\ prev'[m] = prev[m]
        /\ \A j \in Ids : j # ex[n] /\ j # Fresh => row'[j] = row[j]
    BY <1>9, CreateSound
  <2>4. ASSUME NEW m \in Names \ {n} PROVE Same(m)
    <3>1. /\ ex[m] # Nothing => ex[m] \in Ids /\ ex[m] # ex[n] /\ ex[m] # Fresh
          /\ prev[m] # Nothing => prev[m] \in Ids /\ prev[m] # ex[n] /\ prev[m] # Fresh
      BY <2>3, OtherRows
    <3> QED BY <2>1, <2>3, <3>1 DEF Same
  <2>5. ex'[n] # Nothing
    BY <2>3, NothingAssumption
  <2> QED BY <2>1, <2>2, <2>3, <2>4, <2>5, ClosedTask
<1> QED BY <1>1, <1>2, <1>3, <1>4, <1>5, <1>6, <1>7, <1>8, <1>9 DEF NewTask

(* A resource goes when nothing refers to it any more: what still has an   *)
(* old definition goes before it, and the new template does not name it.   *)
LEMMA ClosedDestroyed ==
  ASSUME Sound, Tended, Exact, Late, Closed, Whole, phase = "update", ~rolling,
         NEW n \in Names, Destroyed(n)
  PROVE  \A m \in Names : ClosedAt(m)'
<1>1. /\ Doomed(n) # Nothing /\ Doomed(n) \in Ids
      /\ \A j \in Ids \ {Doomed(n)} : row'[j] = row[j]
      /\ \/ Doomed(n) = prev[n] /\ prev'[n] = Nothing /\ ex' = ex
         \/ Doomed(n) = ex[n] /\ ex'[n] = Nothing /\ prev' = prev
      /\ \A m \in Names \ {n} : ex'[m] = ex[m] /\ prev'[m] = prev[m]
  BY DestroyedSound
<1> SUFFICES ASSUME NEW m \in Names, ex'[m] # Nothing, NEW k \in Needs(row'[ex'[m]].def)
             PROVE  ex'[k] # Nothing
  BY DEF ClosedAt
<1>2. ex'[m] = ex[m] /\ ex[m] \in Ids /\ ex[m] # Doomed(n) /\ row[ex[m]] # Nothing
      /\ row[ex[m]].stack = "main" /\ row[ex[m]].name = m
  <2>1. ex'[m] = ex[m]
    BY <1>1
  <2>2. /\ ex[m] \in Ids /\ row[ex[m]] # Nothing /\ row[ex[m]].stack = "main"
        /\ row[ex[m]].name = m /\ \A j \in Names : prev[j] # ex[m] /\ (j # m => ex[j] # ex[m])
    BY <2>1, ExLinked DEF Sound
  <2> QED BY <1>1, <2>1, <2>2
<1>3. row'[ex'[m]].def = row[ex[m]].def
  BY <1>1, <1>2
<1>4. ex[k] # Nothing
  BY <1>2, <1>3 DEF Closed, ClosedAt
<1>5. k \in Names
  <2>1. row[ex[m]].def \in Definitions
    BY <1>2 DEF Sound, Typed, RowMap, RowType
  <2> QED BY <1>3, <2>1, DefinitionNeeds
<1>6. CASE k # n
  BY <1>1, <1>4, <1>5, <1>6
<1>7. CASE k = n /\ Doomed(n) = prev[n] /\ ex' = ex
  BY <1>4, <1>7
<1>8. CASE k = n /\ Doomed(n) = ex[n]
  <2>1. n \notin DOMAIN target
    <3>1. ex[n] # prev[n]
      BY <1>1, <1>8, ExLinked DEF Sound
    <3> QED BY <1>1, <1>8, <3>1 DEF Doomed
  <2>2. row[Doomed(n)].name = n
    BY <1>1, DoomedLinked DEF Sound
  <2>3. ex[m] \in Rows("main")
    BY <1>2 DEF Rows
  <2>4. m \in DOMAIN target /\ row[ex[m]].def = target[m]
    BY <1>2, <1>3, <1>8, <2>2, <2>3, DestroyedReplaced DEF Replaced
  <2>5. n \in DOMAIN target
    BY <1>3, <1>8, <2>4, TargetNames, TemplateValid
  <2> QED BY <2>1, <2>5
<1> QED BY <1>1, <1>6, <1>7, <1>8

LEMMA ClosedFailure ==
  ASSUME Sound, Closed, Whole, phase = "update", ~rolling,
         Timeout \/ \E n \in Names : CreateFails(n) \/ UpdateFails(n) \/ DestroyFails(n)
  PROVE  \A m \in Names : ClosedAt(m)'
<1>1. SameDefs(row, row') /\ UNCHANGED ex
  BY Failures
<1>2. \A m \in Names : ex[m] # Nothing => row'[ex[m]].def = row[ex[m]].def
  BY <1>1, ExLinked DEF Sound, SameDefs
<1> QED BY <1>1, <1>2 DEF Closed, ClosedAt

LEMMA ClosedAlign ==
  ASSUME Sound, Graphed, Closed, Whole, Align
  PROVE  \A m \in Names : ClosedAt(m)'
<1>1. phase = "clean" /\ UNCHANGED <<row, ex>>
  BY DEF Align, db
<1> SUFFICES ASSUME NEW m \in Names, ex[m] # Nothing, NEW k \in Needs(row[ex[m]].def)
             PROVE  ex[k] # Nothing
  BY <1>1 DEF ClosedAt
<1>2. m \in DOMAIN stack.template /\ row[ex[m]].def = stack.template[m]
  BY <1>1 DEF Graphed, Plain, OldAt
<1>3. k \in DOMAIN stack.template
  BY <1>1, <1>2, StackThere, TemplateValid
<1> QED BY <1>1, <1>3 DEF Closed

(* An update starts from a COMPLETE stack, which has the resources its     *)
(* template tells.                                                         *)
LEMMA ClosedBegin ==
  ASSUME Sound, Tended, Exact, NEW t \in Templates, BeginUpdate(t), Whole
  PROVE  phase' = "clean" /\ \A n \in DOMAIN stack'.template : ex'[n] # Nothing
<1>1. /\ phase = "idle" /\ stack # Nothing /\ stack.status = "COMPLETE"
      /\ ex' = Load("main", stack.template)
  BY DEF BeginUpdate, Begin
<1>2. phase' = "clean"
  BY DEF BeginUpdate, StartDestroys, StartGroup
<1>3. stack \in StackType /\ stack.template \in Templates
  BY BeginUpdateSound
<1>4. stack'.template = stack.template
  BY <1>3, StateIs DEF BeginUpdate
<1>5. Told
  BY <1>1 DEF Exact, Traced
<1>6. \A n \in Names : \A i \in Ids :
        At("main", n, i) /\ n \in DOMAIN stack.template => ex'[n] # Nothing
  BY <1>1, Loads DEF Sound, Typed
<1> QED BY <1>2, <1>3, <1>4, <1>5, <1>6, TemplateValid DEF Told

LEMMA ClosedNext ==
  ASSUME Sound, Tended, Exact, Late, Graphed, Closed, [Next]_vars
  PROVE  Closed'
<1>1. Graphed'
  BY GraphNext
<1>2. ASSUME NEW n \in Names, NewTask(n) \/ OldTask(n) \/ Timeout
                               \/ CreateFails(n) \/ UpdateFails(n) \/ DestroyFails(n)
      PROVE  Closed'
  <2>1. UNCHANGED Others
    <3>1. CASE NewTask(n)
      BY <3>1 DEF NewTask, Unchanged, UpdateRefused, StartUpdate, UpdatedInPlace, UpdateReplace,
         SwapIn, Purge, Purged, Create, Created, db, Others
    <3>2. CASE OldTask(n)
      BY <3>2 DEF OldTask, StartDestroy, Destroyed, NothingToDestroy, db, Others
    <3> QED BY <1>2, <3>1, <3>2, Failures
  <2>2. UNCHANGED <<stack, phase, rolling, torn>>
    BY <2>1 DEF Others
  <2>3. phase = "clean" => ex' = ex
    <3> SUFFICES ASSUME phase = "clean" PROVE ex' = ex
      OBVIOUS
    <3>1. ~NewTask(n)
      BY DEF NewTask
    <3>2. ~Destroyed(n)
      BY DestroyedTended
    <3> QED BY <1>2, <3>1, <3>2, Failures DEF OldTask, StartDestroy, NothingToDestroy
  <2>4. ASSUME Whole, phase = "update", ~rolling PROVE \A m \in Names : ClosedAt(m)'
    <3>1. CASE NewTask(n)
      BY <1>1, <2>4, <3>1, ClosedNew DEF NewTask
    <3>2. CASE Destroyed(n)
      BY <2>4, <3>2, ClosedDestroyed
    <3>3. CASE StartDestroy(n) \/ NothingToDestroy(n)
      <4>1. \A m \in Names \ {n} : New(m)' = New(m)
        BY <3>3, OldStarted DEF StartDestroy, NothingToDestroy, Stages
      <4>2. UNCHANGED <<ex, prev>> /\ SameDefs(row, row')
        BY <3>3, StartDestroySound, SameItself DEF StartDestroy, NothingToDestroy, db
      <4> QED BY <1>1, <2>1, <2>4, <4>1, <4>2, ClosedSame
    <3>4. CASE Timeout \/ CreateFails(n) \/ UpdateFails(n) \/ DestroyFails(n)
      BY <2>4, <3>4, ClosedFailure
    <3> QED BY <1>2, <3>1, <3>2, <3>3, <3>4 DEF OldTask
  <2> QED BY <2>2, <2>3, <2>4 DEF Closed, Whole
<1>3. ASSUME Align PROVE Closed'
  <2>1. phase' = "update" /\ torn' = torn
    BY <1>3 DEF Align, StartGroup
  <2> QED BY <1>3, <2>1, ClosedAlign DEF Closed, Whole
<1>4. ASSUME NEW t \in Templates, BeginUpdate(t) PROVE Closed'
  <2>1. torn' = torn
    BY <1>4 DEF BeginUpdate, Begin
  <2> QED BY <1>4, <2>1, ClosedBegin DEF Closed, Whole
<1>5. ASSUME \/ Continue /\ ~Align
             \/ \E t \in Templates : \E r \in Rollbacks : BeginCreate(t, r)
             \/ UpdateInvalid \/ BeginDelete \/ Kill \/ Crash
      PROVE  Closed'
  <2>1. phase' # "clean"
    <3>1. CASE Continue /\ ~Align
      BY <3>1, Forgets DEF Continue, CreateEnds, CreateRollback, RollBack, UpdateFailed, Trim, Trimmed,
         Flip, Unbacked, DeleteFailed, DeleteDone, Deleted, StartDestroys, StartGroup
    <3>2. CASE \E t \in Templates : \E r \in Rollbacks : BeginCreate(t, r)
      BY <3>2 DEF BeginCreate, StartGroup
    <3>3. CASE UpdateInvalid \/ BeginDelete \/ Kill \/ Crash
      BY <3>3, Forgets DEF UpdateInvalid, Begin, BeginDelete, StartDestroys, StartGroup, Kill, Crash
    <3> QED BY <1>5, <3>1, <3>2, <3>3
  <2>2. phase' # "update" \/ rolling'
    <3>1. CASE Continue /\ ~Align
      BY <3>1, Forgets DEF Continue, CreateEnds, CreateRollback, RollBack, UpdateFailed, Trim, Trimmed,
         Flip, Unbacked, DeleteFailed, DeleteDone, Deleted, StartDestroys, StartGroup
    <3>2. CASE \E t \in Templates : \E r \in Rollbacks : BeginCreate(t, r)
      BY <3>2 DEF BeginCreate, StartGroup
    <3>3. CASE UpdateInvalid \/ BeginDelete \/ Kill \/ Crash
      BY <3>3, Forgets DEF UpdateInvalid, Begin, BeginDelete, StartDestroys, StartGroup, Kill, Crash
    <3> QED BY <1>5, <3>1, <3>2, <3>3
  <2> QED BY <2>1, <2>2 DEF Closed
<1>6. ASSUME UNCHANGED vars PROVE Closed'
  <2>1. UNCHANGED <<stack, row, phase, rolling, ex, torn>>
    BY <1>6 DEF vars, db, mem
  <2>2. \A n \in Names : ClosedAt(n) => ClosedAt(n)'
    BY <2>1 DEF ClosedAt
  <2> QED BY <2>1, <2>2 DEF Closed, Whole
<1>7. ASSUME Timeout PROVE Closed'
  <2>1. UNCHANGED Others /\ UNCHANGED ex
    BY <1>7, Failures
  <2>2. UNCHANGED <<stack, phase, rolling, torn>>
    BY <2>1 DEF Others
  <2> QED BY <1>7, <2>1, <2>2, ClosedFailure DEF Closed, Whole
<1> QED BY <1>2, <1>3, <1>4, <1>5, <1>6, <1>7 DEF Next

(* While an update goes forward, every resource that another one of the    *)
(* stack refers to is there: when it fails, the rollback that looks up the *)
(* references of half-old, half-new resources (existing_stack.dependencies)*)
(* meets none that dangles (InvalidTemplateReference).  (An update that    *)
(* was killed or whose engine died leaves rows that a later one does not   *)
(* know.)                                                                  *)
THEOREM NoReferenceDangles == Spec => []NoneDangling
<1>1. Init => Closed /\ Late
  BY DEF Init, Closed, Late
<1>2. Sound /\ Tended /\ Late /\ [Next]_vars => Late'
  BY LateNext
<1>3. Sound /\ Tended /\ Exact /\ Late /\ Graphed /\ Closed /\ [Next]_vars => Closed'
  BY ClosedNext
<1>4. Closed => NoneDangling
  BY DEF Closed, NoneDangling, Whole
<1> QED BY <1>1, <1>2, <1>3, <1>4, AlwaysGraphed, PTL DEF Spec
=============================================================================
