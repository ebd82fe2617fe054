----------------------------- MODULE Maintenance -----------------------------
(***************************************************************************)
(* An update of the running service: the requests that apply it, the       *)
(* scheduler they pause, the helper that exchanges the releases, and the   *)
(* starts and stops of the service in between (internal/web/app.go,        *)
(* internal/web/web_updates.go). One update is followed from 'prepared' to *)
(* its end.                                                                *)
(***************************************************************************)
EXTENDS Scheduler, UpdateOperation

CONSTANT Requests  \* requests to apply the update; each is sent at most once

VARIABLES
  request,   \* how far a request has come
  shutdown,  \* the service has been asked to exit, 250 ms after the hand-over
  power      \* the host is on

maintenanceVars == <<schedulerVars, updateVars, request, shutdown, power>>

web == <<request, shutdown, power>>

MaintenanceInit ==
  /\ SchedulerInit /\ UpdateInit
  /\ request = [q \in Requests |-> "unsent"] /\ shutdown = FALSE
  /\ power = TRUE

----------------------------------------------------------------------------
(* applyUpdate: beginUpdateMaintenance, Handoff, and endUpdateMaintenance  *)
(* if there was none. A validating service takes no such request.          *)

Goes(q, from, to) == request[q] = from /\ request' = [request EXCEPT ![q] = to]

SetGate(p, a) ==
  /\ paused' = p /\ accepting' = a
  /\ UNCHANGED <<time, rows, trigger, loop, firing, manual, active, attended, edits>>

(* PauseAndWait sets the flag and waits for fireMu.                        *)
Pause(q) ==
  /\ Up /\ ~validating /\ Goes(q, "unsent", "pausing")
  /\ SetGate(TRUE, accepting)
  /\ UNCHANGED <<updateVars, shutdown, power>>

PauseWaits(q) ==
  /\ loop \notin {"fire", "complete"} /\ Goes(q, "pausing", "entering")
  /\ UNCHANGED <<schedulerVars, updateVars, shutdown, power>>

(* Mutant: the active runs are not looked at. *)
EnterUnchecked(q) ==
  /\ Goes(q, "entering", "handing") /\ SetGate(TRUE, FALSE)
  /\ UNCHANGED <<updateVars, shutdown, power>>

(* EnterMaintenance, or Resume if a run is active.                         *)
Enter(q) ==
  /\ \/ active = {} /\ Goes(q, "entering", "handing") /\ SetGate(TRUE, FALSE)
     \/ active # {} /\ Goes(q, "entering", "answered") /\ SetGate(FALSE, accepting)
  /\ UNCHANGED <<updateVars, shutdown, power>>

HandOver(q) ==
  /\ \/ Goes(q, "handing", "answered") /\ Handoff /\ shutdown' = TRUE
     \/ Goes(q, "handing", "ending") /\ HandoffFails /\ UNCHANGED shutdown
     \/ /\ phase # "prepared" /\ Goes(q, "handing", "ending")
        /\ UNCHANGED <<updateVars, shutdown, power>>
  /\ UNCHANGED <<schedulerVars, power>>

(* LeaveMaintenance, then Resume.                                          *)
End(q) ==
  /\ Goes(q, "ending", "answered")
  /\ SetGate(FALSE, TRUE)
  /\ UNCHANGED <<updateVars, shutdown, power>>

Request(q) == Pause(q) \/ PauseWaits(q) \/ Enter(q) \/ HandOver(q) \/ End(q)

----------------------------------------------------------------------------
(* The scheduler comes and goes with the service.                          *)

Answered == [q \in Requests |-> IF request[q] = "unsent" THEN "unsent" ELSE "answered"]

SchedulerFollows ==
  IF running' # "none" /\ running = "none" THEN Boot(validating') /\ UNCHANGED web
  ELSE IF running' = "none" /\ running # "none"
       THEN Halt /\ request' = Answered /\ shutdown' = FALSE /\ UNCHANGED power
  ELSE UNCHANGED <<schedulerVars, web>>

HelperWorks == HelperStep /\ SchedulerFollows

AdministratorRecovers == power /\ Recover /\ UNCHANGED <<schedulerVars, web>>

Shutdown ==
  /\ shutdown /\ StopService
  /\ SchedulerFollows
  /\ UNCHANGED <<phase, files, helper, faults>>

ValidationEnds == SeeEnd /\ EndValidation /\ UNCHANGED web

Dies == HelperDies /\ UNCHANGED <<schedulerVars, web>>

(* The power fails; when it is back, the service manager starts what the   *)
(* executable is at that moment.                                           *)
PowerFails ==
  /\ power /\ power' = FALSE
  /\ Fault /\ GoTo("idle") /\ StopService
  /\ Halt /\ request' = Answered /\ shutdown' = FALSE
  /\ UNCHANGED <<phase, files>>

PowerReturns ==
  /\ ~power /\ power' = TRUE
  /\ StartService
  /\ IF running' # "none" THEN Boot(validating') ELSE UNCHANGED schedulerVars
  /\ UNCHANGED <<phase, current, executable, snapshot, helper, faults, request, shutdown>>

SchedulerWorks ==
  /\ Loop \/ Users \/ Tick(validating) \/ \E r \in active : RunEnds(r)
  /\ UNCHANGED <<updateVars, web>>

MaintenanceNext ==
  \/ SchedulerWorks
  \/ \E q \in Requests : Request(q)
  \/ HelperWorks \/ AdministratorRecovers \/ Dies
  \/ Shutdown \/ ValidationEnds \/ PowerFails \/ PowerReturns

MaintenanceSpec == MaintenanceInit /\ [][MaintenanceNext]_maintenanceVars

(* The goroutines and the helper are scheduled; runs end; the process exits*)
(* when asked to; the administrator recovers an operation that has no      *)
(* helper, and one that left the service down.                             *)
Helpless == helper = "idle" /\ (phase \notin Ended \/ running = "none")

MaintenanceFairness ==
  /\ WF_maintenanceVars(HelperWorks) /\ WF_maintenanceVars(Shutdown)
  /\ WF_maintenanceVars(ValidationEnds) /\ WF_maintenanceVars(PowerReturns)
  /\ WF_maintenanceVars(Loop /\ UNCHANGED <<updateVars, web>>)
  /\ \A q \in Requests : WF_maintenanceVars(request[q] # "unsent" /\ Request(q))
  /\ WF_maintenanceVars(Helpless /\ AdministratorRecovers)

FairMaintenance == MaintenanceSpec /\ MaintenanceFairness

----------------------------------------------------------------------------
MaintenanceTypeOK ==
  /\ SchedulerTypeOK /\ UpdateTypeOK
  /\ request \in [Requests -> {"unsent", "pausing", "entering", "handing", "ending", "answered"}]
  /\ shutdown \in BOOLEAN /\ power \in BOOLEAN
  /\ Up <=> running # "none"

(* The state is one the code can be in, and an ended operation has left    *)
(* the releases and the database as its phase says.                        *)
MaintenanceInv == MaintenanceTypeOK /\ EndMeansState

(* From the hand-over until the service exits, and while a new one is being*)
(* validated, no run is started: the update finds nobody at work.          *)
(* (docs/ACCEPTANCE.md, release and compatibility)                         *)
QuietUpdate ==
  running # "none" /\ (shutdown \/ validating) => ~accepting /\ active = {}

(* An update that has been handed over ends, and there is a service again  *)
(* that fires schedules and takes runs; the exception is the dead end that *)
(* Stuck describes.                                                        *)
InService ==
  /\ running # "none" /\ ~validating /\ accepting /\ ~paused
  /\ phase \in Ended

ServiceReturns == phase = "handoff" ~> (InService \/ Stuck)
=============================================================================
