---------------------------- MODULE MCRunFollow ----------------------------
(***************************************************************************)
(* Output and events that have to reach somebody: one run with a timeout   *)
(* and requests that follow it, or a channel of forwarded audit events.    *)
(* They do not share state, so one of them moves in a behaviour.           *)
(***************************************************************************)
EXTENDS RunFollow, SecurityEvents, TLC

CONSTANTS
  s,
  Streams  \* what moves: "runs", "events"

VARIABLE stream

MCScript == [r \in Runs |-> s]

FollowingInit ==
  /\ stream \in Streams
  /\ FollowInit /\ SecurityEventsInit
  /\ stream = "runs" => eventChannel = "web"

FollowingNext ==
  \/ stream = "runs" /\ FollowNext /\ UNCHANGED <<stream, eventVars>>
  \/ stream = "events" /\ SecurityEventsNext /\ UNCHANGED <<stream, allVars>>

(* What has never been started need not move. *)
FollowingSpec ==
  /\ FollowingInit /\ [][FollowingNext]_<<stream, allVars, eventVars>>
  /\ FollowFairness /\ EventsFairness
=============================================================================
