-------------------------- MODULE WaitSignalsProofs --------------------------
(***************************************************************************)
(* Proofs about WaitSignals, for any number of signals and conditions.     *)
(***************************************************************************)
EXTENDS WaitSignals, FiniteSetTheorems, TLAPS

(* What an engine is about to write has passed the format check. *)
Checked == \A p \in Posts : post[p] = "read" => status[p] \in WAIT_STATUSES

Typed == TypeOK /\ Checked

(* A success in a dictionary has been written there by a post. *)
Backed(d) == \A i \in Ids : d[i] = SUCCESS => i \in Received

AllBacked ==
  /\ Backed(metadata)
  /\ \A p \in Posts : Backed(rsrc_metadata[p])
  /\ \A w \in Conds : Backed(handle_status[w])

(* Nothing comes between a read of the row and what is done with it. *)
Fresh ==
  Undisturbed =>
    /\ \A p \in Posts : post[p] = "read" => rsrc_metadata[p] = metadata
    /\ \A p \in Posts : post[p] = "written" => metadata[id[p]] # Absent
    /\ \A w \in Conds : keys[w] \subseteq InDict(metadata)
    /\ \A w \in Conds : phase[w] # "missing"

-----------------------------------------------------------------------------
LEMMA EmptyDict == Empty \in Dicts /\ Backed(Empty)
  BY DEF Empty, Dicts, Backed, Absent, SUCCESS

(* At first there is nothing. *)
LEMMA InitHolds == Init => Typed /\ AllBacked /\ EnoughSignals /\ Fresh
<1> SUFFICES ASSUME Init PROVE Typed /\ AllBacked /\ EnoughSignals /\ Fresh
  OBVIOUS
<1>1. 0 \in 0..MaxCount
  BY MaxCountAssumption
<1>2. Typed
  BY <1>1, EmptyDict DEF Init, Typed, TypeOK, Checked
<1>3. AllBacked
  BY EmptyDict DEF Init, AllBacked
<1>4. EnoughSignals
  BY DEF Init, EnoughSignals
<1>5. Fresh
  BY DEF Init, Fresh
<1> QED BY <1>2, <1>3, <1>4, <1>5

-----------------------------------------------------------------------------
(* Every step keeps the types and the format. *)
LEMMA NextTyped == Typed /\ [Next]_vars => Typed'
<1> SUFFICES ASSUME Typed, [Next]_vars PROVE Typed'
  OBVIOUS
<1> USE DEF Typed, Checked
<1>1. ASSUME NEW p \in Posts, Refuse(p) PROVE Typed'
  BY <1>1 DEF TypeOK, Refuse, waits
<1>2. ASSUME NEW p \in Posts, Read(p) PROVE Typed'
  BY <1>2 DEF TypeOK, Read, waits, _metadata_format_ok
<1>3. ASSUME NEW p \in Posts, Write(p) PROVE Typed'
  <2>1. metadata' \in Dicts
    BY <1>3 DEF TypeOK, Write, Updated, Dicts
  <2> QED BY <1>3, <2>1, EmptyDict DEF TypeOK, Write, waits
<1>4. ASSUME NEW p \in Posts, Lose(p) PROVE Typed'
  BY <1>4, EmptyDict DEF TypeOK, Lose, waits
<1>5. ASSUME NEW w \in Conds, Invalid(w) PROVE Typed'
  BY <1>5 DEF TypeOK, Invalid, signals
<1>6. ASSUME NEW w \in Conds, Start(w) PROVE Typed'
  <2>1. PICK c \in 1..MaxCount : count' = [count EXCEPT ![w] = c]
    BY <1>6 DEF Start
  <2>2. c \in 0..MaxCount
    BY MaxCountAssumption
  <2> QED BY <1>6, <2>1, <2>2 DEF TypeOK, Start, signals
<1>7. ASSUME NEW w \in Conds, Expire(w) PROVE Typed'
  BY <1>7 DEF TypeOK, Expire, signals
<1>8. ASSUME NEW w \in Conds, TimeOut(w) PROVE Typed'
  BY <1>8, EmptyDict DEF TypeOK, TimeOut, Stop, signals
<1>9. ASSUME NEW w \in Conds, Look(w) PROVE Typed'
  BY <1>9 DEF TypeOK, Look, InDict, signals
<1>10. ASSUME NEW w \in Conds, LookUp(w) PROVE Typed'
  <2>1. PICK i \in Ids :
          /\ keys' = [keys EXCEPT ![w] = @ \ {i}]
          /\ handle_status' = [handle_status EXCEPT ![w][i] = metadata[i]]
    BY <1>10 DEF LookUp, TypeOK
  <2>2. handle_status' \in [Conds -> Dicts]
    BY <2>1 DEF TypeOK, Dicts
  <2> QED BY <1>10, <2>1, <2>2 DEF TypeOK, LookUp, signals
<1>11. ASSUME NEW w \in Conds, LookUpFails(w) PROVE Typed'
  BY <1>11, EmptyDict DEF TypeOK, LookUpFails, Stop, signals
<1>12. ASSUME NEW w \in Conds, Decide(w) PROVE Typed'
  BY <1>12, EmptyDict DEF TypeOK, Decide, Stop, signals
<1>13. ASSUME NEW w \in Conds, Kill(w) PROVE Typed'
  BY <1>13, EmptyDict DEF TypeOK, Kill, Stop, signals
<1>14. ASSUME NEW w \in Conds, Delete(w) PROVE Typed'
  BY <1>14, EmptyDict DEF TypeOK, Delete, signals
<1>15. CASE UNCHANGED vars
  BY <1>15 DEF TypeOK, vars, signals, waits
<1> QED
  BY <1>1, <1>2, <1>3, <1>4, <1>5, <1>6, <1>7, <1>8, <1>9, <1>10, <1>11, <1>12,
     <1>13, <1>14, <1>15 DEF Next, Signal, Live, Poll

-----------------------------------------------------------------------------
(* What was received stays received: a post is never unwritten. *)
LEMMA ReceivedGrows ==
  ASSUME Typed, [Next]_vars
  PROVE  Received \subseteq Received'
<1>1. id' = id /\ status' = status
  BY DEF Next, Signal, Live, Poll, Refuse, Read, Write, Lose, Invalid, Start, Expire,
         TimeOut, Look, LookUp, LookUpFails, Decide, Kill, Delete, signals, waits, vars
<1>2. ASSUME NEW q \in Posts, post[q] = "written" PROVE post'[q] = "written"
  BY <1>2 DEF Typed, TypeOK, Next, Signal, Live, Poll, Refuse, Read, Write, Lose,
              Invalid, Start, Expire, TimeOut, Look, LookUp, LookUpFails, Decide, Kill,
              Delete, signals, waits, vars
<1> QED BY <1>1, <1>2 DEF Received

(* Wherever a success goes, a post has written it. *)
LEMMA NextBacked ==
  ASSUME Typed, AllBacked, [Next]_vars
  PROVE  AllBacked'
<1>g. Received \subseteq Received'
  BY ReceivedGrows
<1>k. /\ \A d \in Dicts : Backed(d) => \A i \in Ids : d[i] = SUCCESS => i \in Received'
      /\ \A i \in Ids : Empty[i] # SUCCESS
  BY <1>g DEF Backed, Empty, Absent, SUCCESS
<1>t. /\ metadata \in Dicts
      /\ rsrc_metadata \in [Posts -> Dicts]
      /\ handle_status \in [Conds -> Dicts]
  BY DEF Typed, TypeOK
<1>b. /\ Backed(metadata)
      /\ \A p \in Posts : Backed(rsrc_metadata[p])
      /\ \A w \in Conds : Backed(handle_status[w])
  BY DEF AllBacked
<1> SUFFICES /\ \A i \in Ids : metadata'[i] = SUCCESS => i \in Received'
             /\ \A p \in Posts, i \in Ids :
                  rsrc_metadata'[p][i] = SUCCESS => i \in Received'
             /\ \A w \in Conds, i \in Ids :
                  handle_status'[w][i] = SUCCESS => i \in Received'
  BY DEF AllBacked, Backed
<1>1. ASSUME NEW p \in Posts, Read(p)
      PROVE  \A q \in Posts, i \in Ids : rsrc_metadata'[q][i] = SUCCESS => i \in Received'
  BY <1>1, <1>k, <1>t, <1>b DEF Read
<1>2. ASSUME NEW p \in Posts, Write(p)
      PROVE  /\ \A i \in Ids : metadata'[i] = SUCCESS => i \in Received'
             /\ \A q \in Posts, i \in Ids :
                  rsrc_metadata'[q][i] = SUCCESS => i \in Received'
  <2>1. status[p] = SUCCESS => id[p] \in Received'
    BY <1>2 DEF Write, Received, Typed, TypeOK
  <2>2. ASSUME NEW i \in Ids, metadata'[i] = SUCCESS PROVE i \in Received'
    <3>1. CASE i = id[p]
      BY <1>2, <2>1, <2>2, <3>1, <1>t DEF Write, Updated, Dicts
    <3>2. CASE i # id[p]
      <4>1. rsrc_metadata[p][i] = SUCCESS
        BY <1>2, <2>2, <3>2, <1>t DEF Write, Updated, Dicts
      <4> QED BY <4>1, <1>k, <1>t, <1>b
    <3> QED BY <3>1, <3>2
  <2>3. ASSUME NEW q \in Posts, NEW i \in Ids, rsrc_metadata'[q][i] = SUCCESS
        PROVE  i \in Received'
    BY <1>2, <2>3, <1>k, <1>t, <1>b DEF Write
  <2> QED BY <2>2, <2>3
<1>3. ASSUME NEW p \in Posts, Lose(p)
      PROVE  \A q \in Posts, i \in Ids : rsrc_metadata'[q][i] = SUCCESS => i \in Received'
  BY <1>3, <1>k, <1>t, <1>b DEF Lose
<1>4. ASSUME NEW w \in Conds, NEW outcome, Stop(w, outcome)
      PROVE  \A v \in Conds, i \in Ids : handle_status'[v][i] = SUCCESS => i \in Received'
  BY <1>4, <1>k, <1>t, <1>b DEF Stop
<1>5. ASSUME NEW w \in Conds, LookUp(w)
      PROVE  \A v \in Conds, i \in Ids : handle_status'[v][i] = SUCCESS => i \in Received'
  <2>1. PICK k \in Ids : handle_status' = [handle_status EXCEPT ![w][k] = metadata[k]]
    BY <1>5 DEF LookUp, Typed, TypeOK
  <2>2. ASSUME NEW v \in Conds, NEW i \in Ids, handle_status'[v][i] = SUCCESS
        PROVE  handle_status[v][i] = SUCCESS \/ metadata[i] = SUCCESS
    BY <2>1, <2>2, <1>t DEF Dicts
  <2> QED BY <2>2, <1>k, <1>t, <1>b
<1>6. ASSUME NEW w \in Conds, Delete(w)
      PROVE  \A i \in Ids : metadata'[i] = SUCCESS => i \in Received'
  BY <1>6, <1>k, <1>t, <1>b DEF Delete
<1>m. UNCHANGED metadata => \A i \in Ids : metadata'[i] = SUCCESS => i \in Received'
  BY <1>k, <1>t, <1>b
<1>r. UNCHANGED rsrc_metadata =>
        \A p \in Posts, i \in Ids : rsrc_metadata'[p][i] = SUCCESS => i \in Received'
  BY <1>k, <1>t, <1>b
<1>h. UNCHANGED handle_status =>
        \A w \in Conds, i \in Ids : handle_status'[w][i] = SUCCESS => i \in Received'
  BY <1>k, <1>t, <1>b
<1>7. ASSUME NEW p \in Posts, Signal(p) PROVE UNCHANGED handle_status
  BY <1>7 DEF Signal, Refuse, Read, Write, Lose, waits
<1>8. ASSUME NEW w \in Conds, Live(w) PROVE UNCHANGED rsrc_metadata
  BY <1>8 DEF Live, Poll, Invalid, Start, Expire, TimeOut, Look, LookUp, LookUpFails,
              Decide, Kill, Delete, signals
<1>9. ASSUME NEW p \in Posts, Signal(p)
      PROVE  \/ UNCHANGED <<metadata, rsrc_metadata>>
             \/ Read(p) /\ UNCHANGED metadata
             \/ Write(p)
             \/ Lose(p) /\ UNCHANGED metadata
  BY <1>9 DEF Signal, Refuse, Read, Lose
<1>10. ASSUME NEW w \in Conds, Live(w)
       PROVE  \/ UNCHANGED <<metadata, handle_status>>
              \/ UNCHANGED metadata /\ \E outcome : Stop(w, outcome)
              \/ UNCHANGED metadata /\ LookUp(w)
              \/ Delete(w) /\ UNCHANGED handle_status
  BY <1>10 DEF Live, Poll, Invalid, Start, Expire, TimeOut, Look, LookUp, LookUpFails,
               Decide, Kill, Delete
<1>11. CASE \E p \in Posts : Signal(p)
  BY <1>11, <1>1, <1>2, <1>3, <1>7, <1>9, <1>m, <1>r, <1>h
<1>12. CASE \E w \in Conds : Live(w)
  BY <1>12, <1>4, <1>5, <1>6, <1>8, <1>10, <1>m, <1>r, <1>h
<1>13. CASE UNCHANGED vars
  BY <1>13, <1>m, <1>r, <1>h DEF vars, signals, waits
<1> QED BY <1>11, <1>12, <1>13 DEF Next

-----------------------------------------------------------------------------
LEMMA Counting ==
  ASSUME NEW S, NEW T, S \subseteq T, T \subseteq Ids
  PROVE  /\ Cardinality(S) \in Nat /\ Cardinality(T) \in Nat
         /\ Cardinality(S) <= Cardinality(T)
<1>1. IsFiniteSet(T)
  BY IdsAssumption, FS_Subset
<1>2. IsFiniteSet(S) /\ Cardinality(S) <= Cardinality(T)
  BY <1>1, FS_Subset
<1> QED BY <1>1, <1>2, FS_CardinalityType

(* Only a look at the handle completes a wait, and it counts successes. *)
LEMMA NextEnough ==
  ASSUME Typed, AllBacked, EnoughSignals, [Next]_vars
  PROVE  EnoughSignals'
<1> SUFFICES ASSUME NEW w \in Conds, phase'[w] = "complete"
             PROVE  Cardinality(Received') >= count'[w]
  BY DEF EnoughSignals
<1>1. Received \subseteq Received' /\ Received' \subseteq Ids
  BY ReceivedGrows DEF Received
<1>2. /\ Cardinality(Received) \in Nat /\ Cardinality(Received') \in Nat
      /\ Cardinality(Received) <= Cardinality(Received')
  BY <1>1, Counting
<1>3. count[w] \in Nat
  BY MaxCountAssumption DEF Typed, TypeOK
<1>4. ASSUME Decide(w), count'[w] = count[w] PROVE Cardinality(Received) >= count[w]
  <2>1. /\ ~Failed(handle_status[w])
        /\ Enough(handle_status[w], count[w])
    BY <1>4 DEF Decide, Stop, Typed, TypeOK
  <2>2. InDict(handle_status[w]) \subseteq Received
    BY <2>1 DEF Failed, InDict, AllBacked, Backed
  <2>3. /\ Cardinality(InDict(handle_status[w])) \in Nat
        /\ Cardinality(InDict(handle_status[w])) <= Cardinality(Received)
    BY <2>2, Counting DEF Received
  <2> QED BY <1>2, <1>3, <2>1, <2>3 DEF Enough
<1>5. count'[w] = count[w] /\ (phase[w] = "complete" \/ Decide(w))
  <2>1. ASSUME NEW v \in Conds, v # w, Live(v)
        PROVE  count'[w] = count[w] /\ phase[w] = "complete"
    BY <2>1 DEF Typed, TypeOK, Live, Poll, Invalid, Start, Expire, TimeOut, Look,
                LookUp, LookUpFails, Decide, Kill, Delete, Stop
  <2>2. ASSUME Live(w)
        PROVE  count'[w] = count[w] /\ (phase[w] = "complete" \/ Decide(w))
    BY <2>2 DEF Typed, TypeOK, Live, Poll, Invalid, Start, Expire, TimeOut, Look,
                LookUp, LookUpFails, Decide, Kill, Delete, Stop
  <2>3. CASE UNCHANGED waits
    BY <2>3 DEF waits
  <2>4. ASSUME NEW p \in Posts, Signal(p) PROVE UNCHANGED waits
    BY <2>4 DEF Signal, Refuse, Read, Write, Lose
  <2> QED BY <2>1, <2>2, <2>3, <2>4 DEF Next, vars
<1>6. Cardinality(Received) >= count[w]
  BY <1>4, <1>5 DEF EnoughSignals
<1> QED BY <1>2, <1>3, <1>5, <1>6

-----------------------------------------------------------------------------
(* What disturbs is never forgotten. *)
LEMMA StaysDisturbed ==
  ASSUME Typed, [Next]_vars, Undisturbed'
  PROVE  Undisturbed
<1>1. overtaken \subseteq overtaken'
  BY DEF Next, Signal, Live, Poll, Refuse, Read, Write, Lose, Invalid, Start, Expire,
         TimeOut, Look, LookUp, LookUpFails, Decide, Kill, Delete, signals, waits, vars
<1>2. ASSUME NEW w \in Conds, phase[w] = "deleted" PROVE phase'[w] = "deleted"
  <2>1. ASSUME NEW v \in Conds, Live(v) PROVE phase'[w] = "deleted"
    BY <1>2, <2>1 DEF Typed, TypeOK, Live, Poll, Invalid, Start, Expire, TimeOut, Look,
                LookUp, LookUpFails, Decide, Kill, Delete, Stop, Waiting
  <2>2. ASSUME NEW p \in Posts, Signal(p) PROVE UNCHANGED waits
    BY <2>2 DEF Signal, Refuse, Read, Write, Lose
  <2> QED BY <1>2, <2>1, <2>2 DEF Next, vars, waits
<1> QED BY <1>1, <1>2 DEF Undisturbed

(* As long as nothing disturbs, a copy is as good as the row, ids stay,    *)
(* and a look finds them.                                                  *)
LEMMA NextFresh ==
  ASSUME Typed, Fresh, [Next]_vars
  PROVE  Fresh'
<1> SUFFICES ASSUME Undisturbed'
             PROVE  /\ \A p \in Posts : post'[p] = "read" => rsrc_metadata'[p] = metadata'
                    /\ \A p \in Posts : post'[p] = "written" => metadata'[id'[p]] # Absent
                    /\ \A w \in Conds : keys'[w] \subseteq InDict(metadata')
                    /\ \A w \in Conds : phase'[w] # "missing"
  BY DEF Fresh, InDict
<1>u. Undisturbed
  BY StaysDisturbed
<1>f. /\ \A p \in Posts : post[p] = "read" => rsrc_metadata[p] = metadata
      /\ \A p \in Posts : post[p] = "written" => metadata[id[p]] # Absent
      /\ \A w \in Conds : keys[w] \subseteq InDict(metadata)
      /\ \A w \in Conds : phase[w] # "missing"
  BY <1>u DEF Fresh
<1>1. ASSUME NEW p \in Posts, Refuse(p) \/ Read(p) \/ Lose(p)
      PROVE  /\ UNCHANGED <<metadata, id, waits>>
             /\ \A q \in Posts : post'[q] = "read" => rsrc_metadata'[q] = metadata
             /\ \A q \in Posts : post'[q] = "written" => post[q] = "written"
  BY <1>1, <1>f DEF Refuse, Read, Lose, Typed, TypeOK
<1>2. ASSUME NEW p \in Posts, Write(p)
      PROVE  /\ UNCHANGED <<id, waits>>
             /\ \A q \in Posts : post'[q] # "read"
             /\ \A q \in Posts : post'[q] = "written" => q = p \/ post[q] = "written"
             /\ metadata'[id[p]] # Absent
             /\ \A i \in Ids : metadata[i] # Absent => metadata'[i] # Absent
  <2>1. \A q \in Posts \ {p} : post[q] # "read"
    BY <1>2 DEF Write, Undisturbed
  <2>2. post' = [post EXCEPT ![p] = "written"]
    BY <1>2 DEF Write
  <2>3. rsrc_metadata[p] = metadata /\ status[p] \in WAIT_STATUSES
    BY <1>2, <1>f DEF Write, Typed, Checked
  <2>4. metadata' = [metadata EXCEPT ![id[p]] = status[p]] /\ id[p] \in Ids
    BY <1>2, <2>3 DEF Write, Updated, Typed, TypeOK
  <2>5. status[p] # Absent
    BY <2>3 DEF WAIT_STATUSES, SUCCESS, FAILURE, Absent
  <2> QED
    BY <1>2, <2>1, <2>2, <2>4, <2>5 DEF Write, Typed, TypeOK, Dicts
<1>3. ASSUME NEW w \in Conds, Live(w)
      PROVE  /\ UNCHANGED <<metadata, signals>>
             /\ \A v \in Conds : keys'[v] \subseteq InDict(metadata)
             /\ \A v \in Conds : phase'[v] # "missing"
  <2>1. ~LookUpFails(w)
    BY <1>f DEF LookUpFails, InDict
  <2>2. ~Delete(w)
    BY DEF Delete, Undisturbed, Typed, TypeOK
  <2> QED
    BY <1>3, <1>f, <2>1, <2>2 DEF Live, Poll, Invalid, Start, Expire, TimeOut, Look,
       LookUp, Decide, Kill, Stop, Typed, TypeOK
<1>4. CASE \E p \in Posts : Refuse(p) \/ Read(p) \/ Lose(p)
  BY <1>4, <1>1, <1>f DEF waits
<1>5. CASE \E p \in Posts : Write(p)
  <2>1. PICK p \in Posts : Write(p)
    BY <1>5
  <2>2. \A q \in Posts : id[q] \in Ids
    BY DEF Typed, TypeOK
  <2> QED BY <1>2, <1>f, <2>1, <2>2 DEF waits, InDict
<1>6. CASE \E w \in Conds : Live(w)
  BY <1>6, <1>3, <1>f DEF signals
<1>7. CASE UNCHANGED vars
  BY <1>7, <1>f DEF vars, signals, waits
<1> QED BY <1>4, <1>5, <1>6, <1>7 DEF Next, Signal

-----------------------------------------------------------------------------
IInv == Typed /\ AllBacked /\ EnoughSignals /\ Fresh

LEMMA Inductive == Spec => []IInv
<1>1. Init => IInv
  BY InitHolds DEF IInv
<1>2. IInv /\ [Next]_vars => IInv'
  BY NextTyped, NextBacked, NextEnough, NextFresh DEF IInv
<1> QED BY <1>1, <1>2, PTL DEF Spec

(* Every variable keeps its type: nothing ill-formed gets into the         *)
(* metadata of a handle.                                                   *)
THEOREM EntriesWellFormed == Spec => []TypeOK
<1>1. IInv => TypeOK
  BY DEF IInv, Typed
<1> QED BY <1>1, Inductive, PTL

(* WaitCondition._wait returns only if Count different senders have        *)
(* reported success.                                                       *)
THEOREM CompleteOnSignals == Spec => []EnoughSignals
<1>1. IInv => EnoughSignals
  BY DEF IInv
<1> QED BY <1>1, Inductive, PTL

(* metadata_update loses no signal unless another one overlaps it or a     *)
(* condition on the handle is deleted.                                     *)
THEOREM KeptUndisturbed == Spec => []SignalsKept
<1>1. IInv => SignalsKept
  BY DEF IInv, Fresh, SignalsKept
<1> QED BY <1>1, Inductive, PTL

(* get_status meets no KeyError unless signals overlap or a condition on   *)
(* the handle is deleted.                                                  *)
THEOREM LooksFindAll == Spec => []NoneMissing
<1>1. IInv => NoneMissing
  BY DEF IInv, Fresh, NoneMissing
<1> QED BY <1>1, Inductive, PTL
-----------------------------------------------------------------------------
(* A failure has been posted. *)
Reported == \E p \in Posts : post[p] # "unsent" /\ status[p] = FAILURE

(* Without, there is none in the row, in a copy or in what a look found.   *)
NoFailures ==
  Reported \/
    /\ \A i \in Ids : metadata[i] # FAILURE
    /\ \A p \in Posts, i \in Ids : rsrc_metadata[p][i] # FAILURE
    /\ \A w \in Conds, i \in Ids : handle_status[w][i] # FAILURE

(* The steps to the end of a look and, if time is up, of the wait. *)
Steps(w) ==
  CASE phase[w] = "looking" -> 2 + Cardinality(keys[w])
    [] phase[w] = "asleep"  -> 1
    [] OTHER                -> 0

(* A look at the handle comes to an end, and a wait that is out of time    *)
(* does, whatever happens in between: each step of get_status or of the    *)
(* runner's timeout brings it nearer, and no other step takes it back.     *)
WaitNears ==
  [][\A w \in Conds :
       phase[w] = "looking" \/ (Waiting(w) /\ expired[w]) =>
         /\ Steps(w) \in Nat /\ Steps(w)' \in Nat
         /\ Steps(w)' <= Steps(w)
         /\ Poll(w) => Steps(w)' < Steps(w)]_vars

(* What the look under way has found and will find is enough. *)
Full(w) ==
  /\ phase[w] = "looking"
  /\ Cardinality(keys[w] \cup InDict(handle_status[w])) >= count[w]

Settled(w) == phase[w] = "complete" \/ Excused(w)

(* Once the row holds Count signals it does so until the wait completes,   *)
(* and the next look that begins finds enough and decides so, unless the   *)
(* wait is killed or out of time, a failure is posted, signals overlap or  *)
(* a condition is deleted.                                                 *)
EnoughStays ==
  [][\A w \in Conds : ~Settled(w) =>
       /\ Ready(w) => Ready(w)' \/ Settled(w)'
       /\ Ready(w) /\ Look(w) => Full(w)' \/ Settled(w)'
       /\ Full(w) => Full(w)' \/ Settled(w)']_vars

(* A condition changes in its own steps only. *)
LEMMA OwnSteps ==
  ASSUME Typed, [Next]_vars, NEW w \in Conds, ~Live(w)
  PROVE  /\ phase'[w] = phase[w] /\ count'[w] = count[w] /\ expired'[w] = expired[w]
         /\ keys'[w] = keys[w] /\ handle_status'[w] = handle_status[w]
<1>1. ASSUME NEW v \in Conds, v # w, Live(v)
      PROVE  /\ phase'[w] = phase[w] /\ count'[w] = count[w] /\ expired'[w] = expired[w]
             /\ keys'[w] = keys[w] /\ handle_status'[w] = handle_status[w]
  BY <1>1 DEF Typed, TypeOK, Live, Poll, Invalid, Start, Expire, TimeOut, Look,
              LookUp, LookUpFails, Decide, Kill, Delete, Stop
<1>2. ASSUME NEW p \in Posts, Signal(p) PROVE UNCHANGED waits
  BY <1>2 DEF Signal, Refuse, Read, Write, Lose
<1>3. CASE UNCHANGED waits
  BY <1>3 DEF waits
<1> QED BY <1>1, <1>2, <1>3 DEF Next, vars

(* The ids to look up get fewer. *)
LEMMA OneKeyLess ==
  ASSUME NEW S \in SUBSET Ids, NEW i \in S
  PROVE  /\ Cardinality(S) \in Nat /\ Cardinality(S \ {i}) \in Nat
         /\ Cardinality(S \ {i}) < Cardinality(S)
<1>1. IsFiniteSet(S)
  BY IdsAssumption, FS_Subset
<1>2. Cardinality(S \ {i}) = Cardinality(S) - 1 /\ Cardinality(S) \in Nat
  BY <1>1, FS_RemoveElement, FS_CardinalityType
<1>3. Cardinality(S \ {i}) \in Nat
  BY <1>1, FS_Subset, FS_CardinalityType
<1> QED BY <1>2, <1>3

(* The steps left are counted by a natural number. *)
LEMMA StepsCount ==
  ASSUME Typed, Typed', NEW w \in Conds
  PROVE  Steps(w) \in Nat /\ Steps(w)' \in Nat
<1>1. keys[w] \subseteq Ids /\ keys'[w] \subseteq Ids
  BY DEF Typed, TypeOK
<1>2. Cardinality(keys[w]) \in Nat /\ Cardinality(keys'[w]) \in Nat
  BY <1>1, Counting
<1> QED BY <1>2 DEF Steps

(* A step of the runner or of get_status is one step less. *)
LEMMA PollNears ==
  ASSUME Typed, Typed', NEW w \in Conds, Poll(w),
         phase[w] = "looking" \/ expired[w]
  PROVE  Steps(w)' < Steps(w)
<1>1. keys[w] \subseteq Ids /\ keys'[w] \subseteq Ids
  BY DEF Typed, TypeOK
<1>2. Cardinality(keys[w]) \in Nat
  BY <1>1, Counting
<1>3. CASE TimeOut(w)
  BY <1>3 DEF TimeOut, Stop, Steps, Typed, TypeOK
<1>4. CASE Look(w)
  BY <1>4 DEF Look
<1>5. CASE LookUp(w)
  <2>1. PICK i \in keys[w] : keys' = [keys EXCEPT ![w] = @ \ {i}]
    BY <1>5 DEF LookUp
  <2>2. keys'[w] = keys[w] \ {i} /\ phase[w] = "looking" /\ phase'[w] = "looking"
    BY <1>5, <2>1 DEF LookUp, Typed, TypeOK
  <2>3. /\ Cardinality(keys[w] \ {i}) \in Nat
        /\ Cardinality(keys[w] \ {i}) < Cardinality(keys[w])
    BY <1>1, OneKeyLess
  <2> QED BY <1>2, <2>2, <2>3 DEF Steps
<1>6. CASE LookUpFails(w)
  BY <1>2, <1>6 DEF LookUpFails, Stop, Steps, Typed, TypeOK
<1>7. CASE Decide(w)
  <2>1. phase[w] = "looking" /\ phase'[w] \in {"failure", "complete", "asleep"}
    BY <1>7 DEF Decide, Stop, Typed, TypeOK
  <2> QED BY <1>2, <2>1 DEF Steps
<1> QED BY <1>3, <1>4, <1>5, <1>6, <1>7 DEF Poll

(* WaitCondition._wait does not outlast its timeout but for the look it is *)
(* at: whatever signals arrive, that look is over after as many steps as   *)
(* it has ids to look up.                                                  *)
THEOREM WaitsRunOut == Spec => WaitNears
<1>1. ASSUME Typed, Typed', [Next]_vars, NEW w \in Conds,
             phase[w] = "looking" \/ (Waiting(w) /\ expired[w])
      PROVE  /\ Steps(w) \in Nat /\ Steps(w)' \in Nat
             /\ Steps(w)' <= Steps(w)
             /\ Poll(w) => Steps(w)' < Steps(w)
  <2>1. Steps(w) \in Nat /\ Steps(w)' \in Nat
    BY <1>1, StepsCount
  <2>2. Poll(w) => Steps(w)' < Steps(w)
    BY <1>1, PollNears
  <2>3. CASE ~Live(w)
    <3>1. Steps(w)' = Steps(w)
      BY <1>1, <2>3, OwnSteps DEF Steps
    <3>2. ~Poll(w)
      BY <2>3 DEF Live
    <3> QED BY <2>1, <3>1, <3>2
  <2>4. CASE Live(w) /\ ~Poll(w)
    <3>1. phase[w] \in {"looking", "asleep"}
      BY <1>1 DEF Waiting
    <3>2. CASE Expire(w)
      <4>1. Steps(w)' = Steps(w)
        BY <3>2 DEF Expire, Steps
      <4> QED BY <2>1, <2>4, <4>1
    <3>3. CASE Kill(w)
      <4>1. phase'[w] = "killed"
        BY <1>1, <3>3 DEF Kill, Stop, Typed, TypeOK
      <4>2. Steps(w)' = 0
        BY <4>1 DEF Steps
      <4> QED BY <2>1, <2>4, <4>2
    <3> QED BY <2>2, <2>4, <3>1, <3>2, <3>3 DEF Live, Invalid, Start, Delete
  <2> QED BY <2>1, <2>2, <2>3, <2>4
<1>2. IInv /\ IInv' => Typed /\ Typed'
  BY DEF IInv
<1>3. IInv /\ IInv' /\ [Next]_vars =>
        [\A w \in Conds :
           phase[w] = "looking" \/ (Waiting(w) /\ expired[w]) =>
             /\ Steps(w) \in Nat /\ Steps(w)' \in Nat
             /\ Steps(w)' <= Steps(w)
             /\ Poll(w) => Steps(w)' < Steps(w)]_vars
  BY <1>1, <1>2
<1> QED BY <1>3, Inductive, PTL DEF Spec, WaitNears

-----------------------------------------------------------------------------
(* A post that was made is not unmade, and says what it said. *)
LEMMA ReportedStays ==
  ASSUME Typed, [Next]_vars, Reported
  PROVE  Reported'
<1>1. PICK p \in Posts : post[p] # "unsent" /\ status[p] = FAILURE
  BY DEF Reported
<1>2. status' = status /\ post'[p] # "unsent"
  BY <1>1 DEF Typed, TypeOK, Next, Signal, Live, Poll, Refuse, Read, Write, Lose,
              Invalid, Start, Expire, TimeOut, Look, LookUp, LookUpFails, Decide, Kill,
              Delete, signals, waits, vars
<1> QED BY <1>1, <1>2 DEF Reported

(* A failure that was not posted turns up nowhere. *)
LEMMA NextNoFailures ==
  ASSUME Typed, NoFailures, [Next]_vars
  PROVE  NoFailures'
<1> SUFFICES ASSUME ~Reported'
             PROVE  /\ \A i \in Ids : metadata'[i] # FAILURE
                    /\ \A p \in Posts, i \in Ids : rsrc_metadata'[p][i] # FAILURE
                    /\ \A w \in Conds, i \in Ids : handle_status'[w][i] # FAILURE
  BY DEF NoFailures
<1>1. /\ ~Reported
      /\ \A i \in Ids : metadata[i] # FAILURE
      /\ \A p \in Posts, i \in Ids : rsrc_metadata[p][i] # FAILURE
      /\ \A w \in Conds, i \in Ids : handle_status[w][i] # FAILURE
  BY ReportedStays DEF NoFailures
<1>2. \A i \in Ids : Empty[i] # FAILURE
  BY DEF Empty, Absent, FAILURE
<1>3. /\ metadata \in Dicts /\ rsrc_metadata \in [Posts -> Dicts]
      /\ handle_status \in [Conds -> Dicts]
  BY DEF Typed, TypeOK
<1>4. ASSUME NEW p \in Posts, Refuse(p) \/ Read(p) \/ Lose(p)
      PROVE  /\ UNCHANGED <<metadata, handle_status>>
             /\ \A q \in Posts : \/ rsrc_metadata'[q] = rsrc_metadata[q]
                                 \/ rsrc_metadata'[q] = metadata
                                 \/ rsrc_metadata'[q] = Empty
  BY <1>3, <1>4 DEF Refuse, Read, Lose, waits
<1>5. ASSUME NEW p \in Posts, Write(p)
      PROVE  /\ UNCHANGED handle_status
             /\ \A q \in Posts : \/ rsrc_metadata'[q] = rsrc_metadata[q]
                                 \/ rsrc_metadata'[q] = Empty
             /\ \A i \in Ids : metadata'[i] # FAILURE
  <2>1. status[p] # FAILURE
    BY <1>1, <1>5 DEF Write, Reported
  <2>2. metadata' = [rsrc_metadata[p] EXCEPT ![id[p]] = status[p]]
    BY <1>5 DEF Write, Updated
  <2>3. rsrc_metadata[p] \in Dicts
    BY <1>3
  <2>4. \A i \in Ids : metadata'[i] \in {rsrc_metadata[p][i], status[p]}
    BY <2>2, <2>3 DEF Dicts
  <2> QED BY <1>1, <1>3, <1>5, <2>1, <2>4 DEF Write, waits
<1>6. ASSUME NEW v \in Conds, Live(v)
      PROVE  /\ UNCHANGED rsrc_metadata /\ metadata' \in {metadata, Empty}
             /\ \A w \in Conds, i \in Ids :
                  handle_status'[w][i] \in {handle_status[w][i], Empty[i], metadata[i]}
  <2>1. CASE LookUp(v)
    <3>1. PICK j \in keys[v] :
            handle_status' = [handle_status EXCEPT ![v][j] = metadata[j]]
      BY <2>1 DEF LookUp
    <3>2. \A w \in Conds, i \in Ids :
            handle_status'[w][i] \in {handle_status[w][i], metadata[i]}
      BY <1>3, <3>1 DEF Dicts
    <3> QED BY <2>1, <3>2 DEF LookUp, signals
  <2>2. CASE ~LookUp(v)
    <3>1. /\ UNCHANGED rsrc_metadata /\ metadata' \in {metadata, Empty}
          /\ \/ UNCHANGED handle_status
             \/ handle_status' = [handle_status EXCEPT ![v] = Empty]
      BY <1>6, <2>2 DEF Live, Poll, Invalid, Start, Expire, TimeOut, Look, LookUpFails,
         Decide, Kill, Delete, Stop, signals
    <3> QED BY <1>3, <3>1
  <2> QED BY <2>1, <2>2
<1>7. CASE \E p \in Posts : Signal(p)
  BY <1>1, <1>2, <1>4, <1>5, <1>7 DEF Signal
<1>8. CASE \E w \in Conds : Live(w)
  BY <1>1, <1>2, <1>6, <1>8
<1>9. CASE UNCHANGED vars
  BY <1>1, <1>9 DEF vars, signals, waits
<1> QED BY <1>7, <1>8, <1>9 DEF Next

LEMMA FailuresPosted == Spec => []NoFailures
<1>1. Init => NoFailures
  BY DEF Init, NoFailures, Empty, Absent, FAILURE
<1>2. IInv /\ NoFailures /\ [Next]_vars => NoFailures'
  BY NextNoFailures DEF IInv
<1> QED BY <1>1, <1>2, Inductive, PTL DEF Spec

(* As long as nothing disturbs, the row keeps the ids it has. *)
LEMMA IdsStay ==
  ASSUME Typed, Fresh, [Next]_vars, Undisturbed'
  PROVE  InDict(metadata) \subseteq InDict(metadata')
<1>1. Undisturbed
  BY StaysDisturbed
<1>2. ASSUME NEW p \in Posts, Write(p)
      PROVE  \A i \in Ids : metadata[i] # Absent => metadata'[i] # Absent
  <2>1. rsrc_metadata[p] = metadata /\ status[p] \in WAIT_STATUSES
    BY <1>1, <1>2 DEF Write, Fresh, Typed, Checked
  <2>2. metadata' = [metadata EXCEPT ![id[p]] = status[p]] /\ metadata \in Dicts
    BY <1>2, <2>1 DEF Write, Updated, Typed, TypeOK
  <2>3. status[p] # Absent
    BY <2>1 DEF WAIT_STATUSES, SUCCESS, FAILURE, Absent
  <2> QED BY <2>2, <2>3 DEF Dicts
<1>3. ASSUME NEW p \in Posts, Refuse(p) \/ Read(p) \/ Lose(p)
      PROVE  UNCHANGED metadata
  BY <1>3 DEF Refuse, Read, Lose
<1>4. ASSUME NEW w \in Conds, Live(w) PROVE UNCHANGED metadata
  <2>1. ~Delete(w)
    BY DEF Delete, Undisturbed, Typed, TypeOK
  <2> QED
    BY <1>4, <2>1 DEF Live, Poll, Invalid, Start, Expire, TimeOut, Look, LookUp,
       LookUpFails, Decide, Kill
<1> QED BY <1>2, <1>3, <1>4 DEF Next, Signal, InDict, vars

(* A wait that is ready stays so, and a full look stays full, until it     *)
(* decides.                                                                *)
LEMMA SettlesAlone ==
  ASSUME Typed, Typed', Fresh, Fresh', NoFailures, [Next]_vars,
         NEW w \in Conds, ~Settled(w), ~Settled(w)'
  PROVE  /\ Ready(w) => Ready(w)'
         /\ Ready(w) /\ Look(w) => Full(w)'
         /\ Full(w) => Full(w)'
<1>1. /\ Undisturbed /\ ~expired[w] /\ ~Reported /\ phase[w] # "killed"
      /\ phase[w] # "complete"
  BY DEF Settled, Excused, Reported
<1>2. /\ Undisturbed' /\ ~expired'[w] /\ phase'[w] # "killed"
      /\ phase'[w] # "complete"
  BY DEF Settled, Excused
<1>3. /\ phase'[w] # "missing" /\ phase'[w] # "deleted"
  BY <1>2 DEF Fresh, Undisturbed
<1>4. /\ Cardinality(InDict(metadata)) \in Nat /\ Cardinality(InDict(metadata')) \in Nat
      /\ Cardinality(InDict(metadata)) <= Cardinality(InDict(metadata'))
  <2>1. InDict(metadata') \subseteq Ids
    BY DEF InDict
  <2> QED BY <1>2, <2>1, IdsStay, Counting
<1>5. count[w] \in Nat
  BY MaxCountAssumption DEF Typed, TypeOK
<1>6. ASSUME Waiting(w)', count'[w] = count[w], Ready(w) PROVE Ready(w)'
  BY <1>2, <1>4, <1>5, <1>6 DEF Ready
<1>7. CASE ~Live(w)
  <2>1. /\ phase'[w] = phase[w] /\ count'[w] = count[w]
        /\ keys'[w] = keys[w] /\ handle_status'[w] = handle_status[w]
    BY <1>7, OwnSteps
  <2>2. Full(w) => Full(w)'
    BY <2>1 DEF Full, InDict
  <2>3. Ready(w) => Ready(w)'
    BY <1>6, <2>1 DEF Ready, Waiting
  <2>4. ~Look(w)
    BY <1>7 DEF Live, Poll
  <2> QED BY <2>2, <2>3, <2>4
<1>8. CASE Look(w)
  <2>1. /\ phase'[w] = "looking" /\ phase[w] = "asleep" /\ count'[w] = count[w]
        /\ keys'[w] = InDict(metadata) /\ handle_status'[w] = handle_status[w]
    BY <1>8 DEF Look, Typed, TypeOK
  <2>2. Ready(w) => Full(w)'
    <3>1. /\ keys'[w] \subseteq keys'[w] \cup InDict(handle_status'[w])
          /\ keys'[w] \cup InDict(handle_status'[w]) \subseteq Ids
      BY DEF InDict, Typed, TypeOK
    <3>2. /\ Cardinality(keys'[w]) \in Nat
          /\ Cardinality(keys'[w] \cup InDict(handle_status'[w])) \in Nat
          /\ Cardinality(keys'[w]) <= Cardinality(keys'[w] \cup InDict(handle_status'[w]))
      BY <3>1, Counting
    <3> QED BY <1>5, <2>1, <3>2 DEF Ready, Full, InDict
  <2>3. Ready(w) => Ready(w)'
    BY <1>6, <2>1 DEF Waiting
  <2>4. ~Full(w)
    BY <2>1 DEF Full
  <2> QED BY <2>2, <2>3, <2>4
<1>9. CASE LookUp(w)
  <2>1. PICK i \in keys[w] :
          /\ metadata[i] # Absent
          /\ keys' = [keys EXCEPT ![w] = @ \ {i}]
          /\ handle_status' = [handle_status EXCEPT ![w][i] = metadata[i]]
    BY <1>9 DEF LookUp
  <2>2. /\ i \in Ids /\ keys'[w] = keys[w] \ {i}
        /\ handle_status[w] \in Dicts
        /\ handle_status'[w] = [handle_status[w] EXCEPT ![i] = metadata[i]]
    BY <2>1 DEF Typed, TypeOK
  <2>3. InDict(handle_status'[w]) = InDict(handle_status[w]) \cup {i}
    BY <2>1, <2>2 DEF InDict, Dicts
  <2>4. keys'[w] \cup InDict(handle_status'[w]) = keys[w] \cup InDict(handle_status[w])
    BY <2>1, <2>2, <2>3
  <2>5. phase'[w] = "looking" /\ count'[w] = count[w] /\ phase[w] = "looking"
    BY <1>9 DEF LookUp
  <2>6. Full(w) => Full(w)'
    BY <2>4, <2>5 DEF Full, InDict
  <2>7. Ready(w) => Ready(w)'
    BY <1>6, <2>5 DEF Waiting
  <2> QED BY <2>5, <2>6, <2>7 DEF Look
<1>10. CASE Decide(w)
  <2>1. ~Failed(handle_status[w])
    BY <1>1 DEF Failed, InDict, NoFailures, Typed, TypeOK, Dicts, WAIT_STATUSES
  <2>2. ~Enough(handle_status[w], count[w]) /\ phase'[w] = "asleep"
    BY <1>2, <1>10, <2>1 DEF Decide, Stop, Typed, TypeOK
  <2>3. ~Full(w)
    <3>1. keys[w] = {}
      BY <1>10 DEF Decide
    <3>2. keys[w] \cup InDict(handle_status[w]) = InDict(handle_status[w])
      BY <3>1
    <3> QED BY <2>2, <3>2 DEF Full, Enough
  <2>4. Ready(w) => Ready(w)'
    BY <1>6, <1>10, <2>2 DEF Waiting, Decide
  <2> QED BY <1>10, <2>3, <2>4 DEF Look, Decide
<1>11. ~TimeOut(w) /\ ~LookUpFails(w) /\ ~Kill(w) /\ ~Delete(w) /\ ~Expire(w)
  BY <1>1, <1>2, <1>3 DEF TimeOut, LookUpFails, Kill, Delete, Expire, Stop, Typed, TypeOK
<1>12. CASE Invalid(w) \/ Start(w)
  BY <1>12 DEF Invalid, Start, Ready, Waiting, Full, Look
<1> QED BY <1>7, <1>8, <1>9, <1>10, <1>11, <1>12 DEF Live, Poll

(* Count signals that are in the row are not missed: the condition of the  *)
(* stack completes at the next look, whatever arrives in the meantime      *)
(* (WaitCondition._wait, get_status), but for the named exceptions.        *)
THEOREM EnoughNotMissed == Spec => EnoughStays
<1>1. IInv /\ IInv' /\ NoFailures /\ [Next]_vars =>
        [\A w \in Conds : ~Settled(w) =>
           /\ Ready(w) => Ready(w)' \/ Settled(w)'
           /\ Ready(w) /\ Look(w) => Full(w)' \/ Settled(w)'
           /\ Full(w) => Full(w)' \/ Settled(w)']_vars
  BY SettlesAlone DEF IInv
<1> QED BY <1>1, Inductive, FailuresPosted, PTL DEF Spec, EnoughStays
=============================================================================
