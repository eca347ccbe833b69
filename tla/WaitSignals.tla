------------------------------ MODULE WaitSignals ------------------------------
(***************************************************************************)
(* Wait conditions: heat/engine/resources/wait_condition.py, with          *)
(* EngineService.metadata_update of heat/engine/service.py and the         *)
(* Metadata descriptor of heat/engine/resource.py.                         *)
(*                                                                         *)
(* A server in the stack posts a signal, which an engine adds to the       *)
(* metadata of a handle: it reads the row, changes its copy and writes all *)
(* of it back, under no lock.  A WaitCondition polls the handle until it   *)
(* has enough signals; each look at the metadata reads the row afresh.     *)
(* Several conditions may name one handle, and an update that replaces a   *)
(* condition makes the new one wait before the old one is deleted.         *)
(***************************************************************************)
EXTENDS Naturals, FiniteSets

CONSTANTS
  Posts,     \* signals posted to the handle
  Ids,       \* their UniqueIds
  Statuses,  \* their Status, whatever the sender wrote
  Conds,     \* the WaitConditions that name the handle
  MaxCount   \* the largest Count

ASSUME IdsAssumption == IsFiniteSet(Ids)
ASSUME MaxCountAssumption == MaxCount \in Nat

SUCCESS == "SUCCESS"
FAILURE == "FAILURE"
WAIT_STATUSES == {SUCCESS, FAILURE}

VARIABLES
  metadata,       \* the handle's rsrc_metadata: the status stored for an id
  post,           \* what has become of a post
  id, status,     \* its UniqueId and Status
  rsrc_metadata,  \* the copy its engine has read
  overtaken,      \* history: posts of which the copy was stale when written
  phase,          \* what has become of a condition
  count,          \* its Count
  expired,        \* its Timeout has passed
  keys,           \* the ids get_status has still to look up
  handle_status   \* the statuses it has found

signals == <<post, id, status, rsrc_metadata, overtaken>>
waits   == <<phase, count, expired, keys, handle_status>>
vars    == <<metadata, signals, waits>>

(* A dictionary is a function of all ids; absent ones map to Absent. *)
Absent    == "absent"
Empty     == [i \in Ids |-> Absent]
InDict(d) == {i \in Ids : d[i] # Absent}

Init ==
  /\ metadata = Empty
  /\ post = [p \in Posts |-> "unsent"]
  /\ id \in [Posts -> Ids]
  /\ status \in [Posts -> Statuses]
  /\ rsrc_metadata = [p \in Posts |-> Empty]
  /\ overtaken = {}
  /\ phase = [w \in Conds |-> "none"]
  /\ count = [w \in Conds |-> 0]
  /\ expired = [w \in Conds |-> FALSE]
  /\ keys = [w \in Conds |-> {}]
  /\ handle_status = [w \in Conds |-> Empty]

-----------------------------------------------------------------------------
(* WaitConditionHandle.metadata_update *)

(* Mutant: any status will do. *)
FormatNotLooked(s) == TRUE

_metadata_format_ok(s) == s \in WAIT_STATUSES

(* ValueError: the post changes nothing. *)
Refuse(p) ==
  /\ post[p] = "unsent"
  /\ ~_metadata_format_ok(status[p])
  /\ post' = [post EXCEPT ![p] = "refused"]
  /\ UNCHANGED <<metadata, id, status, rsrc_metadata, overtaken, waits>>

(* The engine reads the row. *)
Read(p) ==
  /\ post[p] = "unsent"
  /\ _metadata_format_ok(status[p])
  /\ post' = [post EXCEPT ![p] = "read"]
  /\ rsrc_metadata' = [rsrc_metadata EXCEPT ![p] = metadata]
  /\ UNCHANGED <<metadata, id, status, overtaken, waits>>

(* Mutant: the row is replaced by the new entry. *)
UpdatedAlone(d, i, s) == [Empty EXCEPT ![i] = s]

(* An entry with the same UniqueId is overwritten. *)
Updated(d, i, s) == [d EXCEPT ![i] = s]

(* It writes the row back.  The copies other engines hold are stale now. *)
Write(p) ==
  /\ post[p] = "read"
  /\ metadata' = Updated(rsrc_metadata[p], id[p], status[p])
  /\ post' = [post EXCEPT ![p] = "written"]
  /\ rsrc_metadata' = [rsrc_metadata EXCEPT ![p] = Empty]
  /\ overtaken' = overtaken \cup {q \in Posts \ {p} : post[q] = "read"}
  /\ UNCHANGED <<id, status, waits>>

(* The engine dies in between. *)
Lose(p) ==
  /\ post[p] = "read"
  /\ post' = [post EXCEPT ![p] = "lost"]
  /\ rsrc_metadata' = [rsrc_metadata EXCEPT ![p] = Empty]
  /\ UNCHANGED <<metadata, id, status, overtaken, waits>>

-----------------------------------------------------------------------------
(* WaitCondition *)

Waiting(w) == phase[w] \in {"asleep", "looking"}

(* The handle's URL does not name a handle of this stack: handle_create    *)
(* fails before it stores which handle it waits for.                       *)
Invalid(w) ==
  /\ phase[w] = "none"
  /\ phase' = [phase EXCEPT ![w] = "invalid"]
  /\ UNCHANGED <<metadata, signals, count, expired, keys, handle_status>>

(* Mutant: a wait begins by clearing the handle. *)
StartAfresh(w) ==
  /\ phase[w] \in {"none", "complete", "failure", "timeout", "missing"}
  /\ \E c \in 1..MaxCount : count' = [count EXCEPT ![w] = c]
  /\ phase' = [phase EXCEPT ![w] = "asleep"]
  /\ expired' = [expired EXCEPT ![w] = FALSE]
  /\ metadata' = Empty
  /\ UNCHANGED <<signals, keys, handle_status>>

(* handle_create, or handle_update of a condition whose earlier wait is    *)
(* over: a wait with the timeout counted from now.                         *)
Start(w) ==
  /\ phase[w] \in {"none", "complete", "failure", "timeout", "missing"}
  /\ \E c \in 1..MaxCount : count' = [count EXCEPT ![w] = c]
  /\ phase' = [phase EXCEPT ![w] = "asleep"]
  /\ expired' = [expired EXCEPT ![w] = FALSE]
  /\ UNCHANGED <<metadata, signals, keys, handle_status>>

(* The clock. *)
Expire(w) ==
  /\ Waiting(w) /\ ~expired[w]
  /\ expired' = [expired EXCEPT ![w] = TRUE]
  /\ UNCHANGED <<metadata, signals, phase, count, keys, handle_status>>

(* The wait is over; the results of the last look are dropped. *)
Stop(w, outcome) ==
  /\ phase' = [phase EXCEPT ![w] = outcome]
  /\ keys' = [keys EXCEPT ![w] = {}]
  /\ handle_status' = [handle_status EXCEPT ![w] = Empty]

(* Mutant: the wait swallows its timeout and sleeps for ever. *)
TimeOutIgnored(w) == FALSE /\ UNCHANGED vars

(* A step of the runner after its timeout does not look at the handle. *)
TimeOut(w) ==
  /\ phase[w] = "asleep" /\ expired[w]
  /\ Stop(w, "timeout")
  /\ UNCHANGED <<metadata, signals, count, expired>>

(* get_status: the ids in the row... *)
Look(w) ==
  /\ phase[w] = "asleep" /\ ~expired[w]
  /\ phase' = [phase EXCEPT ![w] = "looking"]
  /\ keys' = [keys EXCEPT ![w] = InDict(metadata)]
  /\ UNCHANGED <<metadata, signals, count, expired, handle_status>>

(* ... and for each the status, read from the row as it is by then. *)
LookUp(w) ==
  /\ phase[w] = "looking"
  /\ \E i \in keys[w] :
       /\ metadata[i] # Absent
       /\ keys' = [keys EXCEPT ![w] = @ \ {i}]
       /\ handle_status' = [handle_status EXCEPT ![w][i] = metadata[i]]
  /\ UNCHANGED <<metadata, signals, phase, count, expired>>

(* KeyError: the id is no longer there. *)
LookUpFails(w) ==
  /\ phase[w] = "looking"
  /\ \E i \in keys[w] : metadata[i] = Absent
  /\ Stop(w, "missing")
  /\ UNCHANGED <<metadata, signals, count, expired>>

(* Mutants: failures are counted like successes; one signal too many is    *)
(* asked for.                                                              *)
FailuresCounted(d) == FALSE
MoreThan(d, n)     == Cardinality(InDict(d)) > n

Failed(d) == \E i \in InDict(d) : d[i] # SUCCESS
Enough(d, n) == Cardinality(InDict(d)) >= n

(* All statuses are known: the wait fails, succeeds or sleeps. *)
Decide(w) ==
  /\ phase[w] = "looking" /\ keys[w] = {}
  /\ Stop(w, IF Failed(handle_status[w]) THEN "failure"
             ELSE IF Enough(handle_status[w], count[w]) THEN "complete"
             ELSE "asleep")
  /\ UNCHANGED <<metadata, signals, count, expired>>

Poll(w) == TimeOut(w) \/ Look(w) \/ LookUp(w) \/ LookUpFails(w) \/ Decide(w)

(* The thread of the stack's operation is killed, or its engine dies. *)
Kill(w) ==
  /\ Waiting(w)
  /\ Stop(w, "killed")
  /\ UNCHANGED <<metadata, signals, count, expired>>

(* handle_delete: the signals received so far are dropped, if the          *)
(* condition came to know its handle.                                      *)
Delete(w) ==
  /\ phase[w] \in {"invalid", "complete", "failure", "timeout", "missing", "killed"}
  /\ metadata' = IF phase[w] = "invalid" THEN metadata ELSE Empty
  /\ phase' = [phase EXCEPT ![w] = "deleted"]
  /\ UNCHANGED <<signals, count, expired, keys, handle_status>>

-----------------------------------------------------------------------------
Signal(p) == Refuse(p) \/ Read(p) \/ Write(p) \/ Lose(p)
Live(w)   == Invalid(w) \/ Start(w) \/ Expire(w) \/ Poll(w) \/ Kill(w) \/ Delete(w)

Next == (\E p \in Posts : Signal(p)) \/ (\E w \in Conds : Live(w))

Spec == Init /\ [][Next]_vars

(* The runner of a wait is stepped.  Nobody need post, and the clock may   *)
(* be as slow as it likes.                                                 *)
Fairness == \A w \in Conds : WF_vars(Poll(w))
FairSpec == Spec /\ Fairness

-----------------------------------------------------------------------------
(* Types: the row, its copies and what a wait has found hold nothing but   *)
(* well-formed entries.                                                    *)
Dicts == [Ids -> WAIT_STATUSES \cup {Absent}]
TypeOK ==
  /\ metadata \in Dicts
  /\ post \in [Posts -> {"unsent", "refused", "read", "written", "lost"}]
  /\ id \in [Posts -> Ids]
  /\ status \in [Posts -> Statuses]
  /\ rsrc_metadata \in [Posts -> Dicts]
  /\ overtaken \subseteq Posts
  /\ phase \in [Conds -> {"none", "asleep", "looking", "invalid", "complete",
                          "failure", "timeout", "missing", "killed", "deleted"}]
  /\ count \in [Conds -> 0..MaxCount]
  /\ expired \in [Conds -> BOOLEAN]
  /\ keys \in [Conds -> SUBSET Ids]
  /\ handle_status \in [Conds -> Dicts]

(* The ids for which a SUCCESS was written. *)
Received ==
  {i \in Ids : \E p \in Posts : post[p] = "written" /\ id[p] = i /\ status[p] = SUCCESS}

(* A condition completes only if Count senders have reported success,      *)
(* whatever signals overwrite one another, get lost between the read and   *)
(* the write of the row, or come back after the row was cleared, and       *)
(* however the row changes while get_status reads it.                      *)
EnoughSignals ==
  \A w \in Conds : phase[w] = "complete" => Cardinality(Received) >= count[w]

(* No signal was written from a stale copy, and no condition was deleted.  *)
Undisturbed == overtaken = {} /\ \A w \in Conds : phase[w] # "deleted"

(* A signal that has been stored is still there, unless signals have       *)
(* overlapped or a condition on the handle was deleted: metadata_update    *)
(* keeps what it read.                                                     *)
SignalsKept ==
  Undisturbed => \A p \in Posts : post[p] = "written" => metadata[id[p]] # Absent

(* A look at the handle, which takes several reads of the row, finds each  *)
(* id it has seen before, unless signals have overlapped or a condition    *)
(* was deleted: only then a wait fails with a KeyError.                    *)
NoneMissing == Undisturbed => \A w \in Conds : phase[w] # "missing"

(* A wait that is out of time comes to an end, even if it is looking at    *)
(* the handle when its time runs out.                                      *)
WaitEnds == \A w \in Conds : (Waiting(w) /\ expired[w]) ~> ~Waiting(w)

(* When the row holds Count signals, and no failure, a wait that is not    *)
(* out of time completes (if it is not killed), unless a failure arrives,  *)
(* signals overlap or a condition is deleted.                              *)
Ready(w) ==
  Waiting(w) /\ ~expired[w] /\ Cardinality(InDict(metadata)) >= count[w]
Excused(w) ==
  \/ phase[w] = "killed" \/ expired[w] \/ ~Undisturbed
  \/ \E p \in Posts : post[p] # "unsent" /\ status[p] = FAILURE
EnoughCompletes ==
  \A w \in Conds : Ready(w) ~> (phase[w] = "complete" \/ Excused(w))
=============================================================================
