------------------------------ MODULE Scheduler ------------------------------
(***************************************************************************)
(* The scheduler (internal/scheduler/manager.go) against its surroundings: *)
(* the loop that fires due schedules, edits of the schedules it has already*)
(* read, manual runs, pausing for an update, a crash between the           *)
(* reservation of a trigger and the start of its run, and restarts.        *)
(*                                                                         *)
(* Abstractions: a schedule fires at every tick of the clock, so           *)
(* spec.Next(t) is t + 1; of a run only its life matters here (RunManager  *)
(* has the rest); all expressions are valid.                               *)
(***************************************************************************)
EXTENDS Naturals, FiniteSets

CONSTANTS
  Schedules,
  Overlapping,   \* the schedules whose allow_overlap is set
  Toggled,       \* the schedules somebody disables and enables again
  MaxTime,       \* bound on the clock
  MaxEdits       \* bound on edits and toggles

ASSUME SchedulerAssumption ==
  /\ Overlapping \subseteq Schedules /\ Toggled \subseteq Schedules
  /\ MaxTime \in Nat /\ MaxEdits \in Nat

VARIABLES
  time,
  enabled, due,   \* schedules.enabled and next_fire_at
  trigger,        \* schedule_triggers.result, by schedule and scheduled_for
  paused,         \* Manager.paused
  loop,           \* where the goroutine of loop() is
  batch, now,     \* what fireDue has read: due items, and the time
  item,           \* the reserved item fireDue is starting
  manual,         \* schedules whose RunNow has passed the pause check
  active,         \* the active runs, of a schedule and for a due time or by hand
  accepting,      \* the run manager accepts starts
  attended,       \* the times at which a service was up and not validating
  edits

schedulerVars == <<time, enabled, due, trigger, paused, loop, batch, now, item,
                   manual, active, accepting, attended, edits>>

Times == 0..MaxTime
Items == Schedules \X Times
NoItem == <<>>
ByHand == 0     \* stands for the due time of a manual run; due times are later
Results == {"none", "pending", "created", "skipped", "rejected", "missed"}

SchedulerTypeOK ==
  /\ time \in Times /\ now \in Times /\ attended \subseteq Times
  /\ enabled \in [Schedules -> BOOLEAN]
  /\ due \in [Schedules -> 0..(MaxTime + 1)]
  /\ trigger \in [Items -> Results]
  /\ paused \in BOOLEAN /\ accepting \in BOOLEAN
  /\ loop \in {"off", "top", "lock", "fire", "complete"}
  /\ batch \subseteq Items /\ item \in Items \cup {NoItem}
  /\ manual \subseteq Schedules
  /\ active \subseteq Items
  /\ edits \in 0..MaxEdits

SchedulerInit ==
  /\ time = 0 /\ now = 0 /\ attended = {0} /\ edits = 0
  /\ enabled = [d \in Schedules |-> TRUE]
  /\ due = [d \in Schedules |-> 1]
  /\ trigger = [i \in Items |-> "none"]
  /\ paused = FALSE /\ accepting = TRUE /\ loop = "top"
  /\ batch = {} /\ item = NoItem /\ manual = {} /\ active = {}

Up == loop # "off"
RunsOf(d) == {r \in active : r[1] = d}
Alone(d) == d \in Overlapping \/ RunsOf(d) = {}

rows == <<enabled, due>>
firing == <<batch, now, item>>
gate == <<paused, accepting>>

----------------------------------------------------------------------------
(* The loop. paused is read under pauseMu, which is released before fireMu *)
(* is taken.                                                               *)

LoopCheck ==
  /\ loop = "top" /\ ~paused
  /\ loop' = "lock"
  /\ UNCHANGED <<time, rows, trigger, gate, firing, manual, active, attended, edits>>

(* fireDue: the clock is read once and the due rows are copied.            *)
ReadDue ==
  /\ loop = "lock"
  /\ now' = time
  /\ batch' = {<<d, due[d]>> : d \in {e \in Schedules : enabled[e] /\ due[e] <= time}}
  /\ loop' = "fire"
  /\ UNCHANGED <<time, rows, trigger, gate, item, manual, active, attended, edits>>

(* advanceWithTrigger: the row moves on and the trigger appears in one     *)
(* transaction, if the row still is what was read.                         *)
Reservable(i) == enabled[i[1]] /\ due[i[1]] = i[2]

(* Mutant: the row stays due. *)
ReserveStanding(i) ==
  /\ loop = "fire" /\ item = NoItem
  /\ i \in batch /\ Reservable(i)
  /\ batch' = batch \ {i} /\ item' = i
  /\ trigger' = [trigger EXCEPT ![i] = "pending"]
  /\ UNCHANGED <<time, rows, gate, loop, now, manual, active, attended, edits>>

Reserve(i) ==
  /\ loop = "fire" /\ item = NoItem
  /\ i \in batch /\ \A j \in batch : i[2] <= j[2]
  /\ batch' = batch \ {i}
  /\ \/ /\ Reservable(i)
        /\ due' = [due EXCEPT ![i[1]] = now + 1]
        /\ trigger' = [trigger EXCEPT ![i] = "pending"]
        /\ item' = i
     \/ /\ ~Reservable(i)
        /\ UNCHANGED <<due, trigger, item>>
  /\ UNCHANGED <<time, enabled, gate, loop, now, manual, active, attended, edits>>

(* A refusal: the variables or the script cannot be loaded, the run manager*)
(* accepts nothing; an overlap is skipped.                                 *)
Refuse ==
  /\ loop = "fire" /\ item # NoItem
  /\ \E result \in (IF Alone(item[1]) THEN {} ELSE {"skipped"}) \cup {"rejected"} :
       trigger' = [trigger EXCEPT ![item] = result]
  /\ item' = NoItem
  /\ UNCHANGED <<time, rows, gate, loop, batch, now, manual, active, attended, edits>>

StartDue ==
  /\ loop = "fire" /\ item # NoItem
  /\ accepting /\ Alone(item[1])
  /\ active' = active \cup {item}
  /\ loop' = "complete"
  /\ UNCHANGED <<time, rows, trigger, gate, firing, manual, attended, edits>>

(* completeTrigger; its errors are ignored.                                *)
Complete ==
  /\ loop = "complete"
  /\ trigger' = [trigger EXCEPT ![item] = "created"]
  /\ item' = NoItem /\ loop' = "fire"
  /\ UNCHANGED <<time, rows, gate, batch, now, manual, active, attended, edits>>

EndFire ==
  /\ loop = "fire" /\ item = NoItem /\ batch = {}
  /\ loop' = "top"
  /\ UNCHANGED <<time, rows, trigger, gate, firing, manual, active, attended, edits>>

Loop ==
  \/ LoopCheck \/ ReadDue \/ (\E i \in batch : Reserve(i))
  \/ StartDue \/ Refuse \/ Complete \/ EndFire

----------------------------------------------------------------------------
(* Requests of users. *)

(* Update: the next time is computed from now.                             *)
Edit(d) ==
  /\ Up /\ edits < MaxEdits
  /\ due' = [due EXCEPT ![d] = time + 1]
  /\ edits' = edits + 1
  /\ UNCHANGED <<time, enabled, trigger, gate, loop, firing, manual, active, attended>>

(* SetEnabled writes the flag and leaves next_fire_at alone. Delete, and   *)
(* the removal of a script a schedule points to, disable for good.         *)
SetEnabled(d, value) ==
  /\ Up /\ edits < MaxEdits
  /\ enabled[d] # value /\ (value => d \in Toggled)
  /\ enabled' = [enabled EXCEPT ![d] = value]
  /\ edits' = edits + 1
  /\ UNCHANGED <<time, due, trigger, gate, loop, firing, manual, active, attended>>

(* RunNowAs checks the pause once, at its beginning.                       *)
RunNow(d) ==
  /\ Up /\ ~paused /\ d \notin manual
  /\ manual' = manual \cup {d}
  /\ UNCHANGED <<time, rows, trigger, gate, loop, firing, active, attended, edits>>

RunNowStarts(d) ==
  /\ d \in manual
  /\ manual' = manual \ {d}
  /\ active' = IF accepting /\ Alone(d) THEN active \cup {<<d, ByHand>>} ELSE active
  /\ UNCHANGED <<time, rows, trigger, gate, loop, firing, attended, edits>>

RunEnds(r) ==
  /\ r \in active
  /\ active' = active \ {r}
  /\ UNCHANGED <<time, rows, trigger, gate, loop, firing, manual, attended, edits>>

----------------------------------------------------------------------------
(* Time, pauses, stops and starts. *)

(* The times seen by a validating service do not count as attended: its    *)
(* scheduler is not initialised before the validation is over.             *)
Tick(validating) ==
  /\ time < MaxTime
  /\ time' = time + 1
  /\ attended' = IF Up /\ ~validating THEN attended \cup {time + 1} ELSE attended
  /\ UNCHANGED <<rows, trigger, gate, loop, firing, manual, active, edits>>

(* reconcileMissed: one trigger for all that was missed, and the next time *)
(* is in the future again.                                                 *)
Overdue == {d \in Schedules : enabled[d] /\ due[d] < time}

ReconcileMissed ==
  /\ due' = [d \in Schedules |-> IF d \in Overdue THEN time + 1 ELSE due[d]]
  /\ trigger' = [i \in Items |-> IF i[1] \in Overdue /\ i[2] = due[i[1]]
                                 THEN "missed" ELSE trigger[i]]

(* The death or the orderly stop of the process ends its runs with it.     *)
Halt ==
  /\ loop' = "off" /\ batch' = {} /\ item' = NoItem
  /\ manual' = {} /\ active' = {}
  /\ UNCHANGED <<time, rows, trigger, gate, now, attended, edits>>

(* New initialises at once; NewPaused, used while an update is validated,  *)
(* leaves it to the first Resume.                                          *)
Boot(validating) ==
  /\ loop' = "top" /\ batch' = {} /\ item' = NoItem
  /\ manual' = {} /\ active' = {}
  /\ paused' = validating /\ accepting' = ~validating
  /\ attended' = IF validating THEN attended ELSE attended \cup {time}
  /\ IF validating THEN UNCHANGED <<due, trigger>> ELSE ReconcileMissed
  /\ UNCHANGED <<time, enabled, now, edits>>

(* LeaveMaintenance and the first Resume after a validation.               *)
EndValidation ==
  /\ accepting' = TRUE /\ paused' = FALSE
  /\ ReconcileMissed
  /\ attended' = attended \cup {time}
  /\ UNCHANGED <<time, enabled, loop, firing, manual, active, edits>>

Users ==
  \E d \in Schedules :
    \/ Edit(d) \/ RunNow(d) \/ RunNowStarts(d)
    \/ \E value \in BOOLEAN : SetEnabled(d, value)

----------------------------------------------------------------------------
(* What fell into the time the service was down is not made up for         *)
(* (ADR 0031). Excepted are schedules that are disabled then and enabled   *)
(* again: SetEnabled leaves the old time in the row.                       *)
NoCatchUp ==
  \A i \in Items :
    trigger[i] \in Results \ {"none", "missed"} => i[2] \in attended \/ i[1] \in Toggled

(* A due time has one trigger, and what became of it is final: no crash    *)
(* between the reservation and the run makes the scheduler fire it again,  *)
(* no edit of the row it has read makes it fire twice, and no restart      *)
(* makes it fire for a time it was not there.                              *)
FireOnce ==
  [][/\ NoCatchUp'
     /\ \A i \in Items : trigger[i] # "none" =>
          \/ trigger'[i] = trigger[i]
          \/ trigger[i] = "pending" /\ trigger'[i] \in {"created", "skipped", "rejected"}
             /\ (trigger'[i] = "created" <=> i = item /\ loop = "complete")]_schedulerVars
=============================================================================
