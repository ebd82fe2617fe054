--------------------------- MODULE RunLifecycle ----------------------------
(***************************************************************************)
(* What the run manager promises to those who start runs (the workflow     *)
(* engine, schedules, triggers, a page), without its map, timers, signals  *)
(* and goroutines: a run is recorded before it has a process; it has one   *)
(* process at most, once; its outcome is written once, when the process is *)
(* gone; and only a new service says of a run that its end is not known,   *)
(* and says so of every run that was under way.                            *)
(*                                                                         *)
(* RunManager implements this specification (see Lifecycle there).         *)
(***************************************************************************)
CONSTANTS
  Runs,
  Outcomes,  \* how a run can end
  Unknown    \* what is recorded of a run that nobody saw end

VARIABLES
  status,    \* "new", "underway", an outcome, or Unknown
  process    \* "none", "alive" or "exited"

vars == <<status, process>>

Init ==
  /\ status = [r \in Runs |-> "new"]
  /\ process = [r \in Runs |-> "none"]

Register(r) ==
  /\ status[r] = "new"
  /\ status' = [status EXCEPT ![r] = "underway"]
  /\ UNCHANGED process

Spawn(r) ==
  /\ status[r] = "underway" /\ process[r] = "none"
  /\ process' = [process EXCEPT ![r] = "alive"]
  /\ UNCHANGED status

(* Whether or not anybody is left to see it. *)
Exit(r) ==
  /\ process[r] = "alive"
  /\ process' = [process EXCEPT ![r] = "exited"]
  /\ UNCHANGED status

End(r) ==
  /\ status[r] = "underway" /\ process[r] # "alive"
  /\ \E o \in Outcomes : status' = [status EXCEPT ![r] = o]
  /\ UNCHANGED process

LoseTrack ==
  /\ status' = [r \in Runs |-> IF status[r] = "underway" THEN Unknown ELSE status[r]]
  /\ UNCHANGED process

Next ==
  \/ \E r \in Runs : Register(r) \/ Spawn(r) \/ Exit(r) \/ End(r)
  \/ LoseTrack

Spec == Init /\ [][Next]_vars
=============================================================================
