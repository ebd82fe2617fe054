----------------------------- MODULE RunFollow -----------------------------
(***************************************************************************)
(* Following the output of a run (FollowEvents in                          *)
(* internal/runmanager/manager.go, behind the page's event stream): a      *)
(* follower reads the log and the status, and then waits to be woken.      *)
(* Every active run has a channel with one slot for that; signalChanged    *)
(* fills it, and one receive empties it.  The module adds the channels and *)
(* the followers to RunManager.                                            *)
(***************************************************************************)
EXTENDS RunManager

CONSTANTS
  Followers,  \* requests that follow a run, one after the other
  MaxEvents   \* bound on the output of a run

ASSUME EventsAssumption == MaxEvents \in Nat

VARIABLES
  log,     \* how many events the log of a run has
  token,   \* the runs whose channel is full
  follow   \* where each follower stands, and the events it has emitted

followVars == <<log, token, follow>>
allVars == <<vars, followVars>>

Away == [at |-> "away", run |-> NoRun, seen |-> 0]
Following == {"read", "status", "final", "look", "wait", "poll"}

FollowTypeOK ==
  /\ RunTypeOK
  /\ log \in [Runs -> 0..MaxEvents]
  /\ token \subseteq Runs
  /\ follow \in [Followers -> {Away} \cup
       [at : Following \cup {"done"}, run : Runs, seen : 0..MaxEvents]]

FollowInit ==
  /\ Init
  /\ log = [r \in Runs |-> 0]
  /\ token = {}
  /\ follow = [f \in Followers |-> Away]

(* Mutant: the sender does not leave anything in the channel. *)
WakeNobody(r) == UNCHANGED token

(* signalChanged: a full channel stays as it is. *)
Wake(r) == token' = token \cup {r}

(* The supervisor's readers append what the process writes. *)
Output(r) ==
  /\ sup[r] = "wait" /\ log[r] < MaxEvents
  /\ log' = [log EXCEPT ![r] = @ + 1]
  /\ Wake(r)
  /\ UNCHANGED <<vars, follow>>

(* The last signal is sent after the final status was written and before   *)
(* the run is taken from the map; nobody can tell it from Delete.          *)
Announce(r) == Announced(r) /\ Wake(r) /\ UNCHANGED <<log, follow>>

Fall ==
  /\ Die
  /\ token' = {}
  /\ follow' = [f \in Followers |-> Away]
  /\ UNCHANGED log

----------------------------------------------------------------------------
(* FollowEvents, call by call *)
Step(f, l) == follow' = [follow EXCEPT ![f].at = l]

(* readEventsAfter, and every event is emitted. *)
Seen(f, l) ==
  follow' = [follow EXCEPT ![f].at = l, ![f].seen = log[follow[f].run]]

Follow(f, r) ==
  /\ Up /\ Writable /\ db[r] # "none"
  /\ follow[f].at \in {"away", "done"}
  /\ follow' = [follow EXCEPT ![f] = [at |-> "read", run |-> r, seen |-> 0]]
  /\ UNCHANGED <<vars, log, token>>

Read(f) ==
  /\ follow[f].at = "read"
  /\ Seen(f, "status")
  /\ UNCHANGED <<vars, log, token>>

ReadStatus(f) ==
  /\ follow[f].at = "status"
  /\ IF Writable
       THEN Step(f, IF db[follow[f].run] \in ActiveStatus THEN "look" ELSE "final")
       ELSE follow' = [follow EXCEPT ![f] = Away]
  /\ UNCHANGED <<vars, log, token>>

(* Mutant: what was written since the last look is not emitted. *)
ReadRestNot(f) ==
  /\ follow[f].at = "final"
  /\ Step(f, "done")
  /\ UNCHANGED <<vars, log, token>>

ReadRest(f) ==
  /\ follow[f].at = "final"
  /\ Seen(f, "done")
  /\ UNCHANGED <<vars, log, token>>

(* waitForRunChange: a run that is not in the map is polled. *)
Look(f) ==
  /\ follow[f].at = "look"
  /\ Step(f, IF follow[f].run \in active THEN "wait" ELSE "poll")
  /\ UNCHANGED <<vars, log, token>>

Woken(f) ==
  /\ follow[f].at = "wait" /\ follow[f].run \in token
  /\ token' = token \ {follow[f].run}
  /\ Step(f, "read")
  /\ UNCHANGED <<vars, log>>

Polled(f) ==
  /\ follow[f].at = "poll"
  /\ Step(f, "read")
  /\ UNCHANGED <<vars, log, token>>

(* The browser goes away. *)
HangUp(f) ==
  /\ follow[f].at \in Following
  /\ follow' = [follow EXCEPT ![f] = Away]
  /\ UNCHANGED <<vars, log, token>>

FollowSteps(f) ==
  \/ Read(f) \/ ReadStatus(f) \/ ReadRest(f) \/ Look(f) \/ Woken(f) \/ Polled(f)

FollowNext ==
  \/ \E r \in Runs : \/ RunSteps(r) /\ UNCHANGED followVars
                     \/ Announce(r) \/ Output(r)
  \/ ServiceSteps /\ UNCHANGED followVars
  \/ Fall
  \/ \E f \in Followers : \/ \E r \in Runs : Follow(f, r)
                          \/ FollowSteps(f) \/ HangUp(f)

FollowFairness == Fairness /\ \A f \in Followers : WF_allVars(FollowSteps(f))

FollowSpec == FollowInit /\ [][FollowNext]_allVars /\ FollowFairness

----------------------------------------------------------------------------
(* Properties *)

(* Whoever was told that the run is over has been given all of its output. *)
FollowInv ==
  /\ FollowTypeOK
  /\ \A f \in Followers : follow[f].at = "done" =>
       follow[f].seen = log[follow[f].run]

(* A follower of a run that is over is told so, without any help: it does  *)
(* not wait for ever on a channel that nobody is going to fill.            *)
FollowerEnds ==
  \A f \in Followers :
    (follow[f].at \in Following /\ db[follow[f].run] \in Ended)
      ~> (follow[f].at \notin Following \/ service \in {"closed", "down"})
=============================================================================
