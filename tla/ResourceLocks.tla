--------------------------- MODULE ResourceLocks ---------------------------
(***************************************************************************)
(* What the workflow queue promises its users, without its tables: a run   *)
(* names a set of resource labels, waits, becomes the owner of the whole   *)
(* set at once, and stays the owner until its outcome is known.  No two    *)
(* owners ever share a label.                                              *)
(*                                                                         *)
(* WorkflowQueue implements this specification (see Locks there).          *)
(***************************************************************************)
CONSTANTS Runs, Labels

VARIABLES
  phase,   \* where each run stands
  claims   \* the labels each run named when it was submitted

vars == <<phase, claims>>

Phases == {"new", "waiting", "owner", "done"}

Owners == {r \in Runs : phase[r] = "owner"}

Init ==
  /\ phase = [r \in Runs |-> "new"]
  /\ claims = [r \in Runs |-> {}]

Submit(r) ==
  /\ phase[r] = "new"
  /\ phase' = [phase EXCEPT ![r] = "waiting"]
  /\ \E W \in SUBSET Labels : claims' = [claims EXCEPT ![r] = W]

(* All or nothing: the labels of every present owner are avoided. *)
Acquire(r) ==
  /\ phase[r] = "waiting"
  /\ \A q \in Owners : claims[q] \cap claims[r] = {}
  /\ phase' = [phase EXCEPT ![r] = "owner"]
  /\ UNCHANGED claims

(* A run leaves for good, whether it was still waiting or had the labels. *)
Leave(r) ==
  /\ phase[r] \in {"waiting", "owner"}
  /\ phase' = [phase EXCEPT ![r] = "done"]
  /\ UNCHANGED claims

Next ==
  \E r \in Runs :
    Submit(r) \/ Acquire(r) \/ Leave(r)

Spec == Init /\ [][Next]_vars

(* What the users rely on. *)
Exclusive == \A q, r \in Owners : q # r => claims[q] \cap claims[r] = {}
=============================================================================
