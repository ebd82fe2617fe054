------------------------- MODULE Maintenance_proofs -------------------------
(***************************************************************************)
(* Proofs about module Maintenance: an ended update has left the releases  *)
(* and the database as its phase says, the scheduler fires nothing twice,  *)
(* and, when requests to apply it do not meet, the update finds nobody at  *)
(* work. There is one invariant for each of the three: ReleaseInv, which   *)
(* ties the files to the phase and to the helper's next step, TriggerInv   *)
(* for the scheduler, and ServiceInv, which says what a stopped and a      *)
(* validating service cannot be in the middle of. The other two need it.   *)
(***************************************************************************)
EXTENDS Maintenance, TLAPS

----------------------------------------------------------------------------
(* The releases, the database and the helper.                              *)

Early == {"prepared", "handoff", "waiting_for_old_exit", "snapshotting"}
Untouched == current = "previous" /\ executable = "previous" /\ database = "previous"

(* What a phase says of the files, whoever is at work on them.             *)
FilesOfPhase ==
  /\ phase \in Early => Untouched /\ running # "target"
  /\ phase = "switching" =>
       executable = "previous" /\ database = "previous" /\ running # "target"
  /\ phase \in {"starting_target", "validating"} =>
       /\ current = "target" /\ executable = "target"
       /\ database \in Releases /\ running # "previous"
       /\ running = "target" => database = "target"

(* How far the helper has brought them when it is about to take a step.    *)
Exchanging == {"stopped", "copy", "switch", "current", "executable", "start"}
Returning == {"back_verify", "back_stop", "back_current", "back_executable",
              "back_database", "back_start", "back_validate"}

HelperOfPhase ==
  /\ phase = "prepared" => helper = "idle"
  /\ helper \in ApplySteps \cup {"switch"} => phase \in Early
  /\ helper \in {"current", "executable"} => phase = "switching"
  /\ helper = "start" => phase \in {"starting_target", "validating"}
  /\ helper = "validate" => phase = "validating"
  /\ helper \in Returning => phase = "rolling_back"
  /\ helper = "safe" => phase \in (Early \ {"prepared"}) \cup {"failed_safe"}
  /\ helper \in {"safe_executable", "safe_start"} => phase = "failed_safe"

FilesOfHelper ==
  /\ helper \in Exchanging => running = "none"
  /\ helper = "executable" => current = "target"
  /\ helper \in {"back_executable", "back_database", "back_start", "back_validate"} =>
       current = "previous"
  /\ helper \in {"back_database", "back_start", "back_validate"} => executable = "previous"
  /\ helper \in {"back_start", "back_validate"} => database = "previous"

(* The helper and the service stop with the host.                          *)
Powered == ~power => helper = "idle" /\ running = "none"

ReleaseInv == FilesOfPhase /\ HelperOfPhase /\ FilesOfHelper /\ Powered /\ EndMeansState

----------------------------------------------------------------------------
(* The service and its scheduler.                                          *)

RequestTypeOK ==
  /\ request \in [Requests -> 
                  {"unsent", "pausing", "entering", "handing", "ending", "answered"}]
  /\ shutdown \in BOOLEAN /\ power \in BOOLEAN

Midway(q) == request[q] \in {"pausing", "entering", "handing", "ending"}

(* A service that is down has no request to exit; one that is being        *)
(* validated fires nothing and runs nothing; a request under way has a     *)
(* service, and not one that is being validated.                           *)
Down == running = "none" => ~shutdown /\ ~validating

Closed == validating => ~shutdown /\ ~accepting /\ paused /\ active = {} /\ loop = "top"

Serving == \A q \in Requests : Midway(q) => running # "none" /\ ~validating

ServiceInv == Down /\ Closed /\ Serving

(* A request is under way only when no other is, and not after an update   *)
(* has been handed over.                                                   *)
OneAtATime ==
  \A p \in Requests : Midway(p) => ~shutdown /\ \A q \in Requests : Midway(q) => p = q

(* From the maintenance a request enters until the service exits.          *)
Quiet ==
  shutdown \/ (\E q \in Requests : request[q] = "handing") => ~accepting /\ active = {}

----------------------------------------------------------------------------
(* The triggers.                                                           *)

(* The service has attended every time since fireDue read the clock.       *)
Clock ==
  /\ now <= time /\ attended \subseteq 0..time
  /\ Up /\ ~validating => time \in attended
  /\ loop \in {"fire", "complete"} => now..time \subseteq attended

(* Nothing is due for a time the service was away.                         *)
Punctual ==
  Up /\ ~validating =>
    \A d \in Schedules \ Toggled : enabled[d] => due[d] > time \/ due[d] \in attended

(* A trigger is older than what its schedule is due for.                   *)
Fresh == \A i \in Items : trigger[i] # "none" => i[2] < due[i[1]] /\ i[2] <= time

(* What fireDue has in hand.                                               *)
Reserved ==
  /\ \A i \in batch : i[2] <= now
  /\ item # NoItem => trigger[item] = "pending"
  /\ loop = "complete" => item # NoItem

TriggerInv == Clock /\ Punctual /\ Fresh /\ Reserved /\ NoCatchUp

(* What a step may do to the triggers; FireOnce says it of every step.     *)
FireStep ==
  /\ NoCatchUp'
  /\ \A i \in Items : trigger[i] # "none" =>
       \/ trigger'[i] = trigger[i]
       \/ /\ trigger[i] = "pending" /\ trigger'[i] \in {"created", "skipped", "rejected"}
          /\ trigger'[i] = "created" <=> i = item /\ loop = "complete"

----------------------------------------------------------------------------
(* The releases: every step of the helper, of the host and of the          *)
(* administrator keeps ReleaseInv.                                         *)

(* A start of the service that the executable and the phase agree with.    *)
LEMMA StartKeepsReleases ==
  ASSUME UpdateTypeOK, FilesOfPhase, EndMeansState, StartService,
         phase' = phase, current' = current, executable' = executable
  PROVE  /\ FilesOfPhase' /\ EndMeansState'
         /\ database' \in Releases \cup {"none", "empty"}
         /\ running' \in Releases \cup {"none"} /\ validating' \in BOOLEAN
         /\ database = "previous" /\ executable = "previous" => database' = "previous"
<1>1. validating' \in BOOLEAN
  <2>1. validating' = validating \/ validating' = (phase \in ValidationPhases)
    BY Zenon DEF StartService, service
  <2>2. (phase \in ValidationPhases) \in BOOLEAN
    OBVIOUS
  <2> QED BY <2>1, <2>2, Zenon DEF UpdateTypeOK
<1>2. CASE running = "none" /\ Opens(executable)
  BY <1>1, <1>2 DEF UpdateTypeOK, FilesOfPhase, EndMeansState, StartService, Opens,
     Opened,
     Releases, Early, Untouched, Ended, Phases
<1>3. CASE ~(running = "none" /\ Opens(executable))
  BY <1>1, <1>3 DEF UpdateTypeOK, FilesOfPhase, EndMeansState, StartService, service,
     Releases, Early, Untouched, Ended, Phases
<1> QED BY <1>2, <1>3

(* A stop of the service. *)
LEMMA Stops == StopService => running' = "none" /\ validating' \in BOOLEAN
<1>1. StopService => running' = "none"
  BY DEF StopService
<1>2. StopService => validating' \in BOOLEAN
  BY Zenon DEF StopService
<1> QED BY <1>1, <1>2

(* The steps before and up to the switch of the executable.                *)
LEMMA ApplyKeepsReleases ==
  ASSUME UpdateTypeOK, ReleaseInv, Apply, power, power'
  PROVE  UpdateTypeOK' /\ ReleaseInv'
<1> USE FaultAssumption DEF UpdateTypeOK, ReleaseInv, FilesOfPhase, HelperOfPhase,
        FilesOfHelper,
        Powered, EndMeansState, Early, Untouched, Exchanging, Returning, ApplySteps,
        Steps, Phases, Ended, ValidationPhases, Releases, At, GoTo, Fault, files, service
<1>1. CASE Verify
  BY <1>1 DEF Verify, FailSafe
<1>2. CASE Wait
  BY <1>2 DEF Wait, FailSafe
<1>3. CASE Stopped
  BY <1>3 DEF Stopped
<1>4. CASE Copy
  BY <1>4 DEF Copy
<1>5. CASE Switch
  BY <1>5 DEF Switch
<1>6. CASE SetCurrent
  BY <1>6 DEF SetCurrent
<1>7. CASE SwitchExecutable
  BY <1>7 DEF SwitchExecutable
<1>8. CASE SaveValidating
  BY <1>8 DEF SaveValidating
<1>9. CASE StartTarget
  <2>1. CASE StartService
    BY <1>9, <2>1, StartKeepsReleases DEF StartTarget
  <2>2. CASE UNCHANGED <<service, database>>
    BY <1>9, <2>2 DEF StartTarget
  <2> QED BY <1>9, <2>1, <2>2 DEF StartTarget
<1>10. CASE Validate
  BY <1>10 DEF Validate
<1> QED BY <1>1, <1>2, <1>3, <1>4, <1>5, <1>6, <1>7, <1>8, <1>9, <1>10 DEF Apply

(* The steps back. *)
LEMMA RollBackKeepsReleases ==
  ASSUME UpdateTypeOK, ReleaseInv, RollBack, power, power'
  PROVE  UpdateTypeOK' /\ ReleaseInv'
<1> USE FaultAssumption DEF UpdateTypeOK, ReleaseInv, FilesOfPhase, HelperOfPhase,
        FilesOfHelper,
        Powered, EndMeansState, Early, Untouched, Exchanging, Returning, ApplySteps,
        Steps, Phases, Ended, ValidationPhases, Releases, At, GoTo, Fault, files, service,
        NeedsRecovery
<1>1. CASE Back
  BY <1>1 DEF Back
<1>2. CASE BackVerify
  BY <1>2 DEF BackVerify
<1>3. CASE BackStop
  <2>1. CASE StopService
    BY <1>3, <2>1, Stops DEF BackStop
  <2>2. CASE UNCHANGED service
    BY <1>3, <2>2 DEF BackStop
  <2> QED BY <1>3, <2>1, <2>2 DEF BackStop
<1>4. CASE BackCurrent
  BY <1>4 DEF BackCurrent
<1>5. CASE BackExecutable
  BY <1>5 DEF BackExecutable
<1>6. CASE BackDatabase
  BY <1>6 DEF BackDatabase
<1>7. CASE BackStart
  <2>1. CASE StartService
    BY <1>7, <2>1, StartKeepsReleases DEF BackStart
  <2>2. CASE UNCHANGED <<service, database>>
    BY <1>7, <2>2 DEF BackStart
  <2> QED BY <1>7, <2>1, <2>2 DEF BackStart
<1>8. CASE BackValidate
  BY <1>8 DEF BackValidate
<1> QED BY <1>1, <1>2, <1>3, <1>4, <1>5, <1>6, <1>7, <1>8 DEF RollBack

(* The recovery of an update that has not switched anything.               *)
LEMMA SecureKeepsReleases ==
  ASSUME UpdateTypeOK, ReleaseInv, Secure, power, power'
  PROVE  UpdateTypeOK' /\ ReleaseInv'
<1> USE FaultAssumption DEF UpdateTypeOK, ReleaseInv, FilesOfPhase, HelperOfPhase,
        FilesOfHelper,
        Powered, EndMeansState, Early, Untouched, Exchanging, Returning, ApplySteps,
        Steps, Phases, Ended, ValidationPhases, Releases, At, GoTo, Fault, files, service,
        NeedsRecovery
<1>1. CASE Safe
  <2>1. CASE StopService
    BY <1>1, <2>1, Stops DEF Safe
  <2>2. CASE UNCHANGED service
    BY <1>1, <2>2 DEF Safe
  <2> QED BY <1>1, <2>1, <2>2, Zenon DEF Safe, service
<1>2. CASE SafeExecutable
  BY <1>2 DEF SafeExecutable
<1>3. CASE SafeStart
  <2>1. CASE StartService
    BY <1>3, <2>1, StartKeepsReleases DEF SafeStart
  <2>2. CASE UNCHANGED <<service, database>>
    BY <1>3, <2>2 DEF SafeStart
  <2> QED BY <1>3, <2>1, <2>2 DEF SafeStart
<1> QED BY <1>1, <1>2, <1>3 DEF Secure

(* The helper only works while the host is on.                             *)
LEMMA HelperKeepsReleases ==
  ASSUME UpdateTypeOK, ReleaseInv, HelperStep, UNCHANGED power, power \in BOOLEAN
  PROVE  UpdateTypeOK' /\ ReleaseInv'
<1>1. helper # "idle"
  BY DEF HelperStep, Apply, Verify, Wait, Stopped, Copy, Switch, SetCurrent,
     SwitchExecutable,
     SaveValidating, StartTarget, Validate, RollBack, Back, BackVerify, BackStop, BackCurrent,
     BackExecutable, BackDatabase, BackStart, BackValidate, Secure, Safe, SafeExecutable,
     SafeStart, At
<1>2. power /\ power'
  BY <1>1 DEF ReleaseInv, Powered
<1> QED BY <1>2, ApplyKeepsReleases, RollBackKeepsReleases,
           SecureKeepsReleases DEF HelperStep

(* What the surroundings do to an update: they hand it over, take it up    *)
(* again, let its helper die, and stop and start the service.              *)
LEMMA SurroundingsKeepReleases ==
  ASSUME UpdateTypeOK, ReleaseInv, power \in BOOLEAN
  PROVE  /\ Handoff /\ running # "none" /\ UNCHANGED power => UpdateTypeOK' /\ ReleaseInv'
         /\ HandoffFails /\ UNCHANGED power => UpdateTypeOK' /\ ReleaseInv'
         /\ power /\ Recover /\ UNCHANGED power => UpdateTypeOK' /\ ReleaseInv'
         /\ HelperDies /\ UNCHANGED power => UpdateTypeOK' /\ ReleaseInv'
         /\ SeeEnd /\ UNCHANGED power => UpdateTypeOK' /\ ReleaseInv'
         /\ StopService /\ UNCHANGED <<phase, files, helper, faults, power>> =>
              UpdateTypeOK' /\ ReleaseInv'
         /\ GoTo("idle") /\ Fault /\ StopService /\ UNCHANGED <<phase, files>> =>
              UpdateTypeOK' /\ ReleaseInv'
         /\ ~power /\ power' /\ StartService
              /\ UNCHANGED <<phase, current, executable, snapshot, helper, faults>> =>
              UpdateTypeOK' /\ ReleaseInv'
         /\ UNCHANGED <<updateVars, power>> => UpdateTypeOK' /\ ReleaseInv'
<1> USE FaultAssumption DEF UpdateTypeOK, ReleaseInv, FilesOfPhase, HelperOfPhase,
        FilesOfHelper,
        Powered, EndMeansState, Early, Untouched, Exchanging, Returning, ApplySteps,
        Steps, Phases, Ended, ValidationPhases, Releases, At, GoTo, Fault, files, service
<1>1. Handoff /\ running # "none" /\ UNCHANGED power => UpdateTypeOK' /\ ReleaseInv'
  BY DEF Handoff
<1>2. HandoffFails /\ UNCHANGED power => UpdateTypeOK' /\ ReleaseInv'
  BY DEF HandoffFails
<1>3. power /\ Recover /\ UNCHANGED power => UpdateTypeOK' /\ ReleaseInv'
  BY DEF Recover
<1>4. HelperDies /\ UNCHANGED power => UpdateTypeOK' /\ ReleaseInv'
  BY DEF HelperDies
<1>5. SeeEnd /\ UNCHANGED power => UpdateTypeOK' /\ ReleaseInv'
  <2>1. SeeEnd => validating' \in BOOLEAN
    BY Zenon DEF SeeEnd
  <2>2. SeeEnd => phase \in Ended /\ UNCHANGED <<phase, files, helper, running, faults>>
    BY Zenon DEF SeeEnd
  <2> QED BY <2>1, <2>2
<1>6. StopService /\ UNCHANGED <<phase, files, helper, faults, power>> =>
        UpdateTypeOK' /\ ReleaseInv'
  BY Stops
<1>7. GoTo("idle") /\ Fault /\ StopService /\ UNCHANGED <<phase, files>> =>
        UpdateTypeOK' /\ ReleaseInv'
  BY Stops
<1>8. ~power /\ power' /\ StartService
        /\ UNCHANGED <<phase, current, executable, snapshot, helper, faults>> =>
        UpdateTypeOK' /\ ReleaseInv'
  BY StartKeepsReleases
<1>9. UNCHANGED <<updateVars, power>> => UpdateTypeOK' /\ ReleaseInv'
  BY DEF updateVars
<1> QED BY <1>1, <1>2, <1>3, <1>4, <1>5, <1>6, <1>7, <1>8, <1>9

----------------------------------------------------------------------------
(* The service: what the helper, the host and the administrator do is, for *)
(* the scheduler and for the requests, a start, a stop, or nothing.        *)

ServiceStarts ==
  /\ running = "none" /\ running' # "none"
  /\ Boot(validating') /\ UNCHANGED <<request, shutdown>>

ServiceStops ==
  /\ running' = "none" /\ ~validating'
  /\ Halt /\ request' = Answered /\ ~shutdown'

ServiceStays == UNCHANGED <<schedulerVars, request, shutdown, running, validating>>

(* A step of the helper calls the service manager once or not at all.      *)
LEMMA HelperCalls ==
  ASSUME HelperStep
  PROVE  StartService \/ StopService \/ UNCHANGED service
<1>1. CASE Apply
  BY <1>1 DEF Apply, Verify, Wait, Stopped, Copy, Switch, SetCurrent, SwitchExecutable,
     SaveValidating, StartTarget, Validate
<1>2. CASE RollBack
  BY <1>2 DEF RollBack, Back, BackVerify, BackStop, BackCurrent, BackExecutable,
     BackDatabase,
     BackStart, BackValidate
<1>3. CASE Secure
  BY <1>3 DEF Secure, Safe, SafeExecutable, SafeStart
<1> QED BY <1>1, <1>2, <1>3 DEF HelperStep

LEMMA StartsOrStays ==
  ASSUME UpdateTypeOK, StartService
  PROVE  UNCHANGED service \/ (running = "none" /\ running' # "none")
<1>1. CASE running = "none" /\ Opens(executable)
  BY <1>1 DEF StartService, UpdateTypeOK, Releases
<1>2. CASE ~(running = "none" /\ Opens(executable))
  BY <1>2, Zenon DEF StartService
<1> QED BY <1>1, <1>2

LEMMA ServiceMoves ==
  ASSUME MaintenanceTypeOK, ServiceInv, Powered,
         HelperWorks \/ AdministratorRecovers \/ Dies \/ Shutdown \/ PowerFails \/ PowerReturns
  PROVE  ServiceStarts \/ ServiceStops \/ ServiceStays
<1>t. UpdateTypeOK
  BY DEF MaintenanceTypeOK
<1>1. CASE UNCHANGED service /\ SchedulerFollows
  <2>1. running' = running /\ UNCHANGED <<schedulerVars, web>>
    BY <1>1 DEF SchedulerFollows, service
  <2> QED BY <1>1, <2>1 DEF ServiceStays, service, web
<1>2. CASE StartService /\ SchedulerFollows
  <2>1. CASE running = "none" /\ running' # "none"
    BY <1>2, <2>1 DEF SchedulerFollows, ServiceStarts, web
  <2> QED BY <1>1, <1>2, <2>1, <1>t, StartsOrStays
<1>3. CASE StopService /\ SchedulerFollows
  <2>0. running' = "none" /\ ~validating'
    BY <1>3 DEF StopService
  <2>1. CASE running # "none"
    BY <1>3, <2>0, <2>1 DEF SchedulerFollows, ServiceStops
  <2>2. CASE running = "none"
    <3>1. validating \in BOOLEAN /\ ~validating
      BY <2>2, <1>t DEF ServiceInv, Down, UpdateTypeOK
    <3>2. validating' = FALSE
      BY <1>3 DEF StopService
    <3>3. validating' = validating
      BY <3>1, <3>2, Zenon
    <3>4. UNCHANGED service
      BY <2>0, <2>2, <3>3 DEF service
    <3> QED BY <1>1, <1>3, <3>4
  <2> QED BY <2>1, <2>2
<1>4. CASE HelperWorks
  BY <1>1, <1>2, <1>3, <1>4, HelperCalls DEF HelperWorks
<1>5. CASE AdministratorRecovers
  BY <1>5 DEF AdministratorRecovers, Recover, ServiceStays, service, web
<1>6. CASE Dies
  BY <1>6 DEF Dies, HelperDies, ServiceStays, service, web
<1>7. CASE Shutdown
  BY <1>3, <1>7 DEF Shutdown
<1>8. CASE PowerFails
  BY <1>8 DEF PowerFails, StopService, ServiceStops
<1>9. CASE PowerReturns
  <2>1. CASE running = "none" /\ running' # "none"
    BY <1>9, <2>1 DEF PowerReturns, ServiceStarts
  <2>2. CASE UNCHANGED service
    <3>1. running = "none"
      BY <1>9 DEF PowerReturns, Powered
    <3> QED BY <1>9, <2>2, <3>1 DEF PowerReturns, ServiceStays, service
  <2> QED BY <1>9, <2>1, <2>2, <1>t, StartsOrStays DEF PowerReturns
<1> QED BY <1>4, <1>5, <1>6, <1>7, <1>8, <1>9

----------------------------------------------------------------------------
(* The scheduler: every kind of step keeps its types, ServiceInv and       *)
(* TriggerInv, and does to the triggers what FireStep allows.              *)

serviceVars == <<running, validating, request, shutdown>>

(* Types under the loop of the scheduler.                                  *)
LEMMA LoopTypes ==
  ASSUME SchedulerTypeOK, Loop, UNCHANGED serviceVars
  PROVE  SchedulerTypeOK'
<1> USE SchedulerAssumption DEF SchedulerTypeOK, Items, Times, Results, rows, firing, gate
<1>1. CASE LoopCheck
  BY <1>1 DEF LoopCheck
<1>2. CASE ReadDue
  BY <1>2 DEF ReadDue
<1>3. CASE \E i \in batch : Reserve(i)
  BY <1>3 DEF Reserve, Reservable
<1>4. CASE StartDue
  BY <1>4 DEF StartDue
<1>5. CASE Refuse
  BY <1>5 DEF Refuse
<1>6. CASE Complete
  BY <1>6 DEF Complete
<1>7. CASE EndFire
  BY <1>7 DEF EndFire
<1> QED BY <1>1, <1>2, <1>3, <1>4, <1>5, <1>6, <1>7 DEF Loop

(* What a stopped and a validating service are not in the middle of, under *)
(* the loop of the scheduler.                                              *)
LEMMA LoopService ==
  ASSUME SchedulerTypeOK, ServiceInv, Up <=> running # "none", Loop, UNCHANGED serviceVars
  PROVE  ServiceInv' /\ (Up <=> running # "none")'
<1> USE SchedulerAssumption DEF SchedulerTypeOK, ServiceInv, Down, Closed, Serving,
        Midway, Up, rows, firing, gate, serviceVars
<1>1. CASE LoopCheck
  BY <1>1 DEF LoopCheck
<1>2. CASE ReadDue
  BY <1>2 DEF ReadDue
<1>3. CASE \E i \in batch : Reserve(i)
  BY <1>3 DEF Reserve, Reservable
<1>4. CASE StartDue
  BY <1>4 DEF StartDue
<1>5. CASE Refuse
  BY <1>5 DEF Refuse
<1>6. CASE Complete
  BY <1>6 DEF Complete
<1>7. CASE EndFire
  BY <1>7 DEF EndFire
<1> QED BY <1>1, <1>2, <1>3, <1>4, <1>5, <1>6, <1>7 DEF Loop

(* The triggers under the loop of the scheduler.                           *)
LEMMA LoopTriggers ==
  ASSUME SchedulerTypeOK, ServiceInv, TriggerInv, Loop, UNCHANGED serviceVars
  PROVE  TriggerInv' /\ FireStep
<1> USE SchedulerAssumption DEF SchedulerTypeOK, ServiceInv, Closed, TriggerInv, Clock,
        Punctual, Fresh, Reserved, NoCatchUp, FireStep, Items, Times, Results, Up, rows,
        firing, gate, serviceVars
<1>1. CASE LoopCheck
  BY <1>1 DEF LoopCheck
<1>2. CASE ReadDue
  BY <1>2 DEF ReadDue
<1>3. CASE \E i \in batch : Reserve(i)
  BY <1>3 DEF Reserve, Reservable
<1>4. CASE StartDue
  BY <1>4 DEF StartDue
<1>5. CASE Refuse
  BY <1>5 DEF Refuse
<1>6. CASE Complete
  BY <1>6 DEF Complete
<1>7. CASE EndFire
  BY <1>7 DEF EndFire
<1> QED BY <1>1, <1>2, <1>3, <1>4, <1>5, <1>6, <1>7 DEF Loop

(* Types under the requests of users.                                      *)
LEMMA UsersTypes ==
  ASSUME SchedulerTypeOK, Users, UNCHANGED serviceVars
  PROVE  SchedulerTypeOK'
<1> USE SchedulerAssumption DEF SchedulerTypeOK, Items, Times, Results, rows, firing, gate
<1>1. CASE \E d \in Schedules : Edit(d)
  BY <1>1 DEF Edit
<1>2. CASE \E d \in Schedules : RunNow(d)
  BY <1>2 DEF RunNow
<1>3. CASE \E d \in Schedules : RunNowStarts(d)
  BY <1>3 DEF RunNowStarts, ByHand
<1>4. CASE \E d \in Schedules, value \in BOOLEAN : SetEnabled(d, value)
  BY <1>4 DEF SetEnabled
<1> QED BY <1>1, <1>2, <1>3, <1>4 DEF Users

(* What a stopped and a validating service are not in the middle of, under *)
(* the requests of users.                                                  *)
LEMMA UsersService ==
  ASSUME SchedulerTypeOK, ServiceInv, Up <=> running # "none", Users,
         UNCHANGED serviceVars
  PROVE  ServiceInv' /\ (Up <=> running # "none")'
<1> USE SchedulerAssumption DEF SchedulerTypeOK, ServiceInv, Down, Closed, Serving,
        Midway, Up, rows, firing, gate, serviceVars
<1>1. CASE \E d \in Schedules : Edit(d)
  BY <1>1 DEF Edit
<1>2. CASE \E d \in Schedules : RunNow(d)
  BY <1>2 DEF RunNow
<1>3. CASE \E d \in Schedules : RunNowStarts(d)
  BY <1>3 DEF RunNowStarts, ByHand
<1>4. CASE \E d \in Schedules, value \in BOOLEAN : SetEnabled(d, value)
  BY <1>4 DEF SetEnabled
<1> QED BY <1>1, <1>2, <1>3, <1>4 DEF Users

(* The triggers under the requests of users.                               *)
LEMMA UsersTriggers ==
  ASSUME SchedulerTypeOK, ServiceInv, TriggerInv, Users, UNCHANGED serviceVars
  PROVE  TriggerInv' /\ FireStep
<1> USE SchedulerAssumption DEF SchedulerTypeOK, ServiceInv, Closed, TriggerInv, Clock,
        Punctual, Fresh, Reserved, NoCatchUp, FireStep, Items, Times, Results, Up, rows,
        firing, gate, serviceVars
<1>1. CASE \E d \in Schedules : Edit(d)
  BY <1>1 DEF Edit
<1>2. CASE \E d \in Schedules : RunNow(d)
  BY <1>2 DEF RunNow
<1>3. CASE \E d \in Schedules : RunNowStarts(d)
  BY <1>3 DEF RunNowStarts, ByHand
<1>4. CASE \E d \in Schedules, value \in BOOLEAN : SetEnabled(d, value)
  BY <1>4 DEF SetEnabled
<1> QED BY <1>1, <1>2, <1>3, <1>4 DEF Users

(* Types under time, and the ends of runs.                                 *)
LEMMA TimeTypes ==
  ASSUME SchedulerTypeOK, Tick(validating) \/ \E r \in active : RunEnds(r),
         UNCHANGED serviceVars
  PROVE  SchedulerTypeOK'
<1> USE SchedulerAssumption DEF SchedulerTypeOK, Items, Times, Results, rows, firing, gate
<1>1. CASE Tick(validating)
  BY <1>1 DEF Tick
<1>2. CASE \E r \in active : RunEnds(r)
  BY <1>2 DEF RunEnds
<1> QED BY <1>1, <1>2

(* What a stopped and a validating service are not in the middle of, under *)
(* time, and the ends of runs.                                             *)
LEMMA TimeService ==
  ASSUME SchedulerTypeOK, ServiceInv, Up <=> running # "none",
         Tick(validating) \/ \E r \in active : RunEnds(r), UNCHANGED serviceVars
  PROVE  ServiceInv' /\ (Up <=> running # "none")'
<1> USE SchedulerAssumption DEF SchedulerTypeOK, ServiceInv, Down, Closed, Serving,
        Midway, Up, rows, firing, gate, serviceVars
<1>1. CASE Tick(validating)
  BY <1>1 DEF Tick
<1>2. CASE \E r \in active : RunEnds(r)
  BY <1>2 DEF RunEnds
<1> QED BY <1>1, <1>2

(* The triggers under time, and the ends of runs.                          *)
LEMMA TimeTriggers ==
  ASSUME SchedulerTypeOK, ServiceInv, TriggerInv,
         Tick(validating) \/ \E r \in active : RunEnds(r), UNCHANGED serviceVars
  PROVE  TriggerInv' /\ FireStep
<1> USE SchedulerAssumption DEF SchedulerTypeOK, ServiceInv, Closed, TriggerInv, Clock,
        Punctual, Fresh, Reserved, NoCatchUp, FireStep, Items, Times, Results, Up, rows,
        firing, gate, serviceVars
<1>1. CASE Tick(validating)
  BY <1>1 DEF Tick
<1>2. CASE \E r \in active : RunEnds(r)
  BY <1>2 DEF RunEnds
<1> QED BY <1>1, <1>2

(* Types under starts and stops of the service.                            *)
LEMMA MovesTypes ==
  ASSUME SchedulerTypeOK, ServiceStarts \/ ServiceStops \/ ServiceStays,
         validating' \in BOOLEAN
  PROVE  SchedulerTypeOK'
<1> USE SchedulerAssumption DEF SchedulerTypeOK, Items, Times, Results, rows, firing, gate
<1>1. CASE ServiceStarts
  <2>1. Boot(validating')
    BY <1>1 DEF ServiceStarts
  <2>2. paused' \in BOOLEAN /\ accepting' \in BOOLEAN
    BY <2>1, Zenon DEF Boot
  <2>3. CASE validating'
    BY <2>1, <2>2, <2>3 DEF Boot
  <2>4. CASE ~validating'
    BY <2>1, <2>2, <2>4 DEF Boot, ReconcileMissed, Overdue
  <2> QED BY <2>3, <2>4
<1>2. CASE ServiceStops
  BY <1>2 DEF ServiceStops, Halt, Answered
<1>3. CASE ServiceStays
  BY <1>3 DEF ServiceStays, schedulerVars
<1> QED BY <1>1, <1>2, <1>3

(* What a stopped and a validating service are not in the middle of, under *)
(* starts and stops of the service.                                        *)
LEMMA MovesService ==
  ASSUME SchedulerTypeOK, ServiceInv, Up <=> running # "none",
         ServiceStarts \/ ServiceStops \/ ServiceStays, validating' \in BOOLEAN
  PROVE  ServiceInv' /\ (Up <=> running # "none")'
<1> USE SchedulerAssumption DEF SchedulerTypeOK, ServiceInv, Down, Closed, Serving,
        Midway, Up, rows, firing, gate, serviceVars
<1>1. CASE ServiceStarts
  BY <1>1 DEF ServiceStarts, Boot, ReconcileMissed, Overdue
<1>2. CASE ServiceStops
  BY <1>2 DEF ServiceStops, Halt, Answered
<1>3. CASE ServiceStays
  BY <1>3 DEF ServiceStays, schedulerVars
<1> QED BY <1>1, <1>2, <1>3

(* The triggers under starts and stops of the service.                     *)
LEMMA MovesTriggers ==
  ASSUME SchedulerTypeOK, ServiceInv, TriggerInv,
         ServiceStarts \/ ServiceStops \/ ServiceStays, validating' \in BOOLEAN
  PROVE  TriggerInv' /\ FireStep
<1> USE SchedulerAssumption DEF SchedulerTypeOK, ServiceInv, Closed, TriggerInv, Clock,
        Punctual, Fresh, Reserved, NoCatchUp, FireStep, Items, Times, Results, Up, rows,
        firing, gate, serviceVars
<1>1. CASE ServiceStarts
  <2>1. Boot(validating')
    BY <1>1 DEF ServiceStarts
  <2>2. CASE validating'
    BY <2>1, <2>2 DEF Boot
  <2>3. CASE ~validating'
    BY <2>1, <2>3 DEF Boot, ReconcileMissed, Overdue
  <2> QED BY <2>2, <2>3
<1>2. CASE ServiceStops
  BY <1>2 DEF ServiceStops, Halt, Answered
<1>3. CASE ServiceStays
  BY <1>3 DEF ServiceStays, schedulerVars
<1> QED BY <1>1, <1>2, <1>3

(* Types under the end of a validation.                                    *)
LEMMA ValidationTypes ==
  ASSUME SchedulerTypeOK, ValidationEnds
  PROVE  SchedulerTypeOK'
<1> USE SchedulerAssumption DEF SchedulerTypeOK, Items, Times, Results, rows, firing, gate
<1>1. CASE ValidationEnds
  <2>1. EndValidation /\ validating
    BY <1>1 DEF ValidationEnds, SeeEnd
  <2>2. accepting' \in BOOLEAN /\ paused' \in BOOLEAN
    BY <2>1, Zenon DEF EndValidation
  <2> QED BY <2>1, <2>2 DEF EndValidation, ReconcileMissed, Overdue
<1> QED BY <1>1

(* What a stopped and a validating service are not in the middle of, under *)
(* the end of a validation.                                                *)
LEMMA ValidationService ==
  ASSUME SchedulerTypeOK, ServiceInv, Up <=> running # "none", ValidationEnds
  PROVE  ServiceInv' /\ (Up <=> running # "none")'
<1> USE SchedulerAssumption DEF SchedulerTypeOK, ServiceInv, Down, Closed, Serving,
        Midway, Up, rows, firing, gate, serviceVars
<1>1. CASE ValidationEnds
  BY <1>1 DEF ValidationEnds, SeeEnd, EndValidation, ReconcileMissed, Overdue, files, web
<1> QED BY <1>1

(* The triggers under the end of a validation.                             *)
LEMMA ValidationTriggers ==
  ASSUME SchedulerTypeOK, ServiceInv, TriggerInv, ValidationEnds
  PROVE  TriggerInv' /\ FireStep
<1> USE SchedulerAssumption DEF SchedulerTypeOK, ServiceInv, Closed, TriggerInv, Clock,
        Punctual, Fresh, Reserved, NoCatchUp, FireStep, Items, Times, Results, Up, rows,
        firing, gate, serviceVars
<1>1. CASE ValidationEnds
  <2>1. EndValidation /\ validating
    BY <1>1 DEF ValidationEnds, SeeEnd
  <2>2. loop = "top"
    BY <2>1
  <2>3. Clock'
    BY <2>1, <2>2 DEF EndValidation
  <2>4. ASSUME NEW d \in Schedules \ Toggled, enabled'[d]
        PROVE  due'[d] > time' \/ due'[d] \in attended'
    <3>1. /\ time' = time /\ enabled[d] /\ due[d] \in Nat /\ time \in Nat
          /\ attended' = attended \cup {time}
          /\ due'[d] = IF d \in Overdue THEN time + 1 ELSE due[d]
      BY <2>1, <2>4 DEF EndValidation, ReconcileMissed
    <3> QED BY <3>1 DEF Overdue
  <2>5. Fresh' /\ Reserved'
    BY <2>1, <2>2 DEF EndValidation, ReconcileMissed, Overdue
  <2>6. FireStep
    BY <2>1, <2>2 DEF EndValidation, ReconcileMissed, Overdue
  <2> QED BY <2>3, <2>4, <2>5, <2>6 DEF Punctual
<1> QED BY <1>1

(* Types under the requests to apply an update.                            *)
LEMMA RequestsTypes ==
  ASSUME SchedulerTypeOK, NEW q \in Requests, Request(q), RequestTypeOK
  PROVE  SchedulerTypeOK'
<1> USE SchedulerAssumption DEF RequestTypeOK, SchedulerTypeOK, Items, Times, Results,
        rows, firing, gate
<1>1. CASE Pause(q)
  BY <1>1 DEF Pause, SetGate, Goes, updateVars
<1>2. CASE PauseWaits(q)
  BY <1>2 DEF PauseWaits, Goes, schedulerVars, updateVars
<1>3. CASE Enter(q)
  BY <1>3 DEF Enter, SetGate, Goes, updateVars
<1>4. CASE HandOver(q)
  BY <1>4 DEF HandOver, Goes, schedulerVars, updateVars, Handoff, HandoffFails, service,
     files
<1>5. CASE End(q)
  BY <1>5 DEF End, SetGate, Goes, updateVars
<1> QED BY <1>1, <1>2, <1>3, <1>4, <1>5 DEF Request

(* What a stopped and a validating service are not in the middle of, under *)
(* the requests to apply an update.                                        *)
LEMMA RequestsService ==
  ASSUME SchedulerTypeOK, ServiceInv, Up <=> running # "none", NEW q \in Requests,
         Request(q), RequestTypeOK
  PROVE  ServiceInv' /\ (Up <=> running # "none")'
<1> USE SchedulerAssumption DEF RequestTypeOK, SchedulerTypeOK, ServiceInv, Down, Closed,
        Serving, Midway, Up, rows, firing, gate, serviceVars
<1>1. CASE Pause(q)
  BY <1>1 DEF Pause, SetGate, Goes, updateVars
<1>2. CASE PauseWaits(q)
  BY <1>2 DEF PauseWaits, Goes, schedulerVars, updateVars
<1>3. CASE Enter(q)
  BY <1>3 DEF Enter, SetGate, Goes, updateVars
<1>4. CASE HandOver(q)
  BY <1>4 DEF HandOver, Goes, schedulerVars, updateVars, Handoff, HandoffFails, service,
     files
<1>5. CASE End(q)
  BY <1>5 DEF End, SetGate, Goes, updateVars
<1> QED BY <1>1, <1>2, <1>3, <1>4, <1>5 DEF Request

(* The triggers under the requests to apply an update.                     *)
LEMMA RequestsTriggers ==
  ASSUME SchedulerTypeOK, ServiceInv, TriggerInv, NEW q \in Requests, Request(q),
         RequestTypeOK
  PROVE  TriggerInv' /\ FireStep
<1> USE SchedulerAssumption DEF RequestTypeOK, SchedulerTypeOK, ServiceInv, Closed,
        TriggerInv, Clock, Punctual, Fresh, Reserved, NoCatchUp, FireStep, Items, Times,
        Results, Up, rows, firing, gate, serviceVars
<1>1. CASE Pause(q)
  BY <1>1 DEF Pause, SetGate, Goes, updateVars
<1>2. CASE PauseWaits(q)
  BY <1>2 DEF PauseWaits, Goes, schedulerVars, updateVars
<1>3. CASE Enter(q)
  BY <1>3 DEF Enter, SetGate, Goes, updateVars
<1>4. CASE HandOver(q)
  BY <1>4 DEF HandOver, Goes, schedulerVars, updateVars, Handoff, HandoffFails, service,
     files
<1>5. CASE End(q)
  BY <1>5 DEF End, SetGate, Goes, updateVars
<1> QED BY <1>1, <1>2, <1>3, <1>4, <1>5 DEF Request

----------------------------------------------------------------------------
(* Every step keeps the types of the requests.                              *)
LEMMA RequestTypesKept ==
  ASSUME RequestTypeOK, MaintenanceNext
  PROVE  RequestTypeOK'
<1> USE DEF RequestTypeOK
<1>1. CASE SchedulerWorks \/ AdministratorRecovers \/ Dies \/ ValidationEnds
  BY <1>1 DEF SchedulerWorks, AdministratorRecovers, Dies, ValidationEnds, web
<1>2. CASE \E q \in Requests : Request(q)
  BY <1>2 DEF Request, Pause, PauseWaits, Enter, HandOver, End, Goes
<1>3. ASSUME SchedulerFollows PROVE RequestTypeOK'
  BY <1>3 DEF SchedulerFollows, web, Answered
<1>4. CASE HelperWorks \/ Shutdown
  BY <1>3, <1>4 DEF HelperWorks, Shutdown
<1>5. CASE PowerFails \/ PowerReturns
  BY <1>5 DEF PowerFails, PowerReturns, Answered
<1> QED BY <1>1, <1>2, <1>4, <1>5 DEF MaintenanceNext

(* Every step keeps the releases in order. *)
LEMMA ReleasesKept ==
  ASSUME UpdateTypeOK, RequestTypeOK, ReleaseInv, ServiceInv, MaintenanceNext
  PROVE  UpdateTypeOK' /\ ReleaseInv'
<1> USE DEF RequestTypeOK
<1>1. CASE SchedulerWorks
  BY <1>1, SurroundingsKeepReleases DEF SchedulerWorks, web
<1>2. ASSUME NEW q \in Requests, Request(q)
      PROVE  UpdateTypeOK' /\ ReleaseInv'
  <2>1. CASE Pause(q) \/ PauseWaits(q) \/ Enter(q) \/ End(q)
    BY <2>1, SurroundingsKeepReleases DEF Pause, PauseWaits, Enter, End
  <2>2. CASE HandOver(q)
    <3>1. running # "none"
      BY <2>2 DEF HandOver, Goes, ServiceInv, Serving, Midway
    <3> QED BY <2>2, <3>1, SurroundingsKeepReleases DEF HandOver
  <2> QED BY <1>2, <2>1, <2>2 DEF Request
<1>3. CASE HelperWorks
  BY <1>3, HelperKeepsReleases DEF HelperWorks, SchedulerFollows, web
<1>4. CASE AdministratorRecovers
  BY <1>4, SurroundingsKeepReleases DEF AdministratorRecovers, web
<1>5. CASE Dies
  BY <1>5, SurroundingsKeepReleases DEF Dies, web
<1>6. CASE Shutdown
  BY <1>6, SurroundingsKeepReleases DEF Shutdown, SchedulerFollows, web
<1>7. CASE ValidationEnds
  BY <1>7, SurroundingsKeepReleases DEF ValidationEnds, web
<1>8. CASE PowerFails
  BY <1>8, SurroundingsKeepReleases DEF PowerFails
<1>9. CASE PowerReturns
  BY <1>9, SurroundingsKeepReleases DEF PowerReturns
<1> QED BY <1>1, <1>2, <1>3, <1>4, <1>5, <1>6, <1>7, <1>8, <1>9 DEF MaintenanceNext

(* Every step keeps the scheduler in order. *)
LEMMA SchedulerKept ==
  ASSUME MaintenanceTypeOK, Powered, ServiceInv, TriggerInv, MaintenanceNext,
         validating' \in BOOLEAN
  PROVE  /\ SchedulerTypeOK' /\ ServiceInv' /\ TriggerInv' /\ FireStep
         /\ (Up <=> running # "none")'
<1> USE DEF MaintenanceTypeOK
<1>1. CASE SchedulerWorks
  <2>1. UNCHANGED serviceVars
    BY <1>1 DEF SchedulerWorks, updateVars, web, serviceVars
  <2> QED BY <1>1, <2>1, LoopTypes, LoopService, LoopTriggers, UsersTypes, UsersService,
          UsersTriggers, TimeTypes, TimeService, TimeTriggers DEF SchedulerWorks
<1>2. CASE \E q \in Requests : Request(q)
  BY <1>2, RequestsTypes, RequestsService, RequestsTriggers DEF RequestTypeOK
<1>3. CASE ValidationEnds
  BY <1>3, ValidationTypes, ValidationService, ValidationTriggers
<1>4. CASE HelperWorks \/ AdministratorRecovers \/ Dies \/ Shutdown \/ PowerFails \/ PowerReturns
  BY <1>4, ServiceMoves, MovesTypes, MovesService, MovesTriggers
<1> QED BY <1>1, <1>2, <1>3, <1>4 DEF MaintenanceNext

----------------------------------------------------------------------------
(* The invariant. *)
MaintenanceIInv == MaintenanceTypeOK /\ ReleaseInv /\ ServiceInv /\ TriggerInv

LEMMA MaintenanceStarts == MaintenanceInit => MaintenanceIInv
<1> SUFFICES ASSUME MaintenanceInit PROVE MaintenanceIInv
  OBVIOUS
<1> USE SchedulerAssumption, FaultAssumption DEF MaintenanceInit, SchedulerInit,
        UpdateInit
<1>1. MaintenanceTypeOK
  <2>1. SchedulerTypeOK /\ Up
    <3>1. paused \in BOOLEAN /\ accepting \in BOOLEAN
      BY Zenon
    <3>2. enabled \in [Schedules -> BOOLEAN]
      BY Zenon
    <3>3. /\ time \in Times /\ now \in Times /\ attended \subseteq Times
          /\ due \in [Schedules -> 0..(MaxTime + 1)] /\ edits \in 0..MaxEdits
      BY DEF Times
    <3>4. trigger \in [Items -> Results]
      BY DEF Results
    <3>5. /\ loop = "top"
          /\ batch \subseteq Items /\ item \in Items \cup {NoItem}
          /\ manual \subseteq Schedules /\ active \subseteq Items
      OBVIOUS
    <3> QED BY <3>1, <3>2, <3>3, <3>4, <3>5 DEF SchedulerTypeOK, Up
  <2>2. UpdateTypeOK /\ running # "none"
    <3>1. validating \in BOOLEAN
      BY Zenon
    <3> QED BY <3>1 DEF UpdateTypeOK, Phases, Ended, Releases, Steps
  <2>3. RequestTypeOK
    BY DEF RequestTypeOK
  <2> QED BY <2>1, <2>2, <2>3 DEF MaintenanceTypeOK, RequestTypeOK
<1>2. ReleaseInv
  BY DEF ReleaseInv, FilesOfPhase, HelperOfPhase, FilesOfHelper, Powered, EndMeansState,
     Early,
     Untouched, Exchanging, Returning, ApplySteps, Ended
<1>3. ServiceInv
  BY DEF ServiceInv, Down, Closed, Serving, Midway
<1>4. TriggerInv
  BY DEF TriggerInv, Clock, Punctual, Fresh, Reserved, NoCatchUp, Items, Times, Results,
     Up
<1> QED BY <1>1, <1>2, <1>3, <1>4 DEF MaintenanceIInv

LEMMA MaintenanceStep ==
  ASSUME MaintenanceIInv, [MaintenanceNext]_maintenanceVars
  PROVE  MaintenanceIInv' /\ (FireStep \/ UNCHANGED schedulerVars)
<1>1. CASE MaintenanceNext
  <2>1. UpdateTypeOK' /\ ReleaseInv'
    BY <1>1, ReleasesKept DEF MaintenanceIInv, MaintenanceTypeOK, RequestTypeOK
  <2>2. RequestTypeOK'
    BY <1>1, RequestTypesKept DEF MaintenanceIInv, MaintenanceTypeOK, RequestTypeOK
  <2>3. validating' \in BOOLEAN
    BY <2>1 DEF UpdateTypeOK
  <2>4. /\ SchedulerTypeOK' /\ ServiceInv' /\ TriggerInv' /\ FireStep
        /\ (Up <=> running # "none")'
    BY <1>1, <2>3, SchedulerKept DEF MaintenanceIInv, ReleaseInv
  <2> QED BY <2>1, <2>2, <2>4 DEF MaintenanceIInv, MaintenanceTypeOK, RequestTypeOK
<1>2. CASE UNCHANGED maintenanceVars
  <2>1. UNCHANGED schedulerVars
    BY <1>2 DEF maintenanceVars
  <2>2. MaintenanceTypeOK'
    BY <1>2 DEF MaintenanceIInv, MaintenanceTypeOK, SchedulerTypeOK, UpdateTypeOK, Up,
       maintenanceVars, schedulerVars, updateVars
  <2>3. ReleaseInv'
    BY <1>2 DEF MaintenanceIInv, ReleaseInv, FilesOfPhase, HelperOfPhase, FilesOfHelper,
       Powered,
       EndMeansState, Untouched, maintenanceVars, updateVars
  <2>4. ServiceInv'
    BY <1>2 DEF MaintenanceIInv, ServiceInv, Down, Closed, Serving, Midway,
       maintenanceVars,
       schedulerVars, updateVars
  <2>5. TriggerInv'
    BY <1>2 DEF MaintenanceIInv, TriggerInv, Clock, Punctual, Fresh, Reserved, NoCatchUp,
       Up,
       maintenanceVars, schedulerVars, updateVars
  <2> QED BY <2>1, <2>2, <2>3, <2>4, <2>5 DEF MaintenanceIInv
<1> QED BY <1>1, <1>2

(* The states of an update are those its phases, steps and files can be    *)
(* in; an update that has ended has left the releases and the database as  *)
(* its phase says, however often its helper died, the host failed and the  *)
(* administrator recovered it.                                             *)
THEOREM EndAlwaysMeansState == MaintenanceSpec => []MaintenanceInv
<1>1. MaintenanceIInv => MaintenanceInv
  BY DEF MaintenanceIInv, MaintenanceInv, ReleaseInv
<1> QED BY <1>1, MaintenanceStarts, MaintenanceStep, PTL DEF MaintenanceSpec

(* A due time has one trigger, whose result is final, and no trigger fires *)
(* for a time the service did not attend, however the loop, the edits, the *)
(* pauses, the crashes and the restarts interleave.                        *)
THEOREM FiresOnlyOnce == MaintenanceSpec => FireOnce
<1>1. FireStep =>
        /\ NoCatchUp'
        /\ \A i \in Items : trigger[i] # "none" =>
             \/ trigger'[i] = trigger[i]
             \/ trigger[i] = "pending" /\ trigger'[i] \in {"created", "skipped", "rejected"}
                /\ (trigger'[i] = "created" <=> i = item /\ loop = "complete")
  BY DEF FireStep
<1> QED BY <1>1, MaintenanceStarts, MaintenanceStep, PTL DEF MaintenanceSpec, FireOnce

----------------------------------------------------------------------------
(* The quiet of an update. Two requests to apply it can undo each other's  *)
(* maintenance (MCMaintenanceTwice shows it), so it takes that they do not *)
(* meet, which OneAtATime says.                                            *)

LEMMA QuietStep ==
  ASSUME MaintenanceIInv, OneAtATime, Quiet, [MaintenanceNext]_maintenanceVars
  PROVE  Quiet'
<1> USE DEF MaintenanceIInv, MaintenanceTypeOK, SchedulerTypeOK, ServiceInv, Quiet, rows,
        firing, gate
<1>1. CASE UNCHANGED maintenanceVars
  BY <1>1 DEF maintenanceVars, schedulerVars
<1>2. CASE SchedulerWorks
  <2>1. UNCHANGED web
    BY <1>2 DEF SchedulerWorks
  <2>2. CASE Loop
    BY <2>1, <2>2 DEF Loop, LoopCheck, ReadDue, Reserve, StartDue, Refuse, Complete,
       EndFire, web
  <2>3. CASE Users
    BY <2>1, <2>3 DEF Users, Edit, RunNow, RunNowStarts, SetEnabled, web
  <2>4. CASE Tick(validating) \/ \E r \in active : RunEnds(r)
    BY <2>1, <2>4 DEF Tick, RunEnds, web
  <2> QED BY <1>2, <2>2, <2>3, <2>4 DEF SchedulerWorks
<1>3. ASSUME NEW q \in Requests, Request(q)
      PROVE  Quiet'
  <2> USE DEF Goes, SetGate
  <2>1. CASE Pause(q)
    BY <2>1 DEF Pause
  <2>2. CASE PauseWaits(q)
    BY <2>2 DEF PauseWaits, schedulerVars
  <2>3. CASE Enter(q)
    BY <2>3 DEF Enter
  <2>4. CASE HandOver(q)
    BY <2>4 DEF HandOver, schedulerVars
  <2>5. CASE End(q)
    BY <2>5 DEF End, OneAtATime, Midway
  <2> QED BY <1>3, <2>1, <2>2, <2>3, <2>4, <2>5 DEF Request
<1>4. CASE ValidationEnds
  BY <1>4 DEF ValidationEnds, SeeEnd, EndValidation, Closed, Serving, Midway, web
<1>5. CASE HelperWorks \/ AdministratorRecovers \/ Dies \/ Shutdown \/ PowerFails \/ PowerReturns
  <2>1. CASE ServiceStarts
    BY <2>1 DEF ServiceStarts, Boot, Down, Serving, Midway
  <2>2. CASE ServiceStops
    BY <2>2 DEF ServiceStops, Halt, Answered
  <2>3. CASE ServiceStays
    BY <2>3 DEF ServiceStays, schedulerVars
  <2> QED BY <1>5, <2>1, <2>2, <2>3, ServiceMoves DEF ReleaseInv
<1> QED BY <1>1, <1>2, <1>3, <1>4, <1>5 DEF MaintenanceNext

(* When the requests to apply an update are answered one after the other,  *)
(* and none is sent between the hand-over and the exit, no run is started  *)
(* in that time nor while the new release is validated.                    *)
THEOREM QuietWhenApart == MaintenanceSpec /\ []OneAtATime => []QuietUpdate
<1>1. MaintenanceInit => Quiet
  BY DEF MaintenanceInit, SchedulerInit, Quiet
<1>2. MaintenanceIInv /\ Quiet => QuietUpdate
  BY DEF MaintenanceIInv, ServiceInv, Closed, Quiet, QuietUpdate
<1> QED BY <1>1, <1>2, QuietStep, MaintenanceStarts, MaintenanceStep,
           PTL DEF MaintenanceSpec

(* An update that is asked for once finds nobody at work.                  *)
THEOREM QuietWhenAskedOnce ==
  ASSUME \A p, q \in Requests : p = q
  PROVE  MaintenanceSpec => []QuietUpdate
<1> DEFINE Over == shutdown => \A q \in Requests : request[q] = "answered"
<1>1. MaintenanceInit => Over
  BY DEF MaintenanceInit
<1>2. ASSUME MaintenanceIInv, Over, [MaintenanceNext]_maintenanceVars
      PROVE  Over'
  <2> USE <1>2 DEF MaintenanceIInv, MaintenanceTypeOK
  <2>1. CASE UNCHANGED <<request, shutdown>>
    BY <2>1
  <2>2. ASSUME NEW q \in Requests, Request(q)
        PROVE  Over'
    BY <2>2 DEF Request, Pause, PauseWaits, Enter, HandOver, End, Goes
  <2>3. CASE HelperWorks \/ AdministratorRecovers \/ Dies \/ Shutdown \/ PowerFails \/ PowerReturns
    BY <2>1, <2>3, ServiceMoves DEF ReleaseInv, ServiceStarts, ServiceStops, ServiceStays
  <2> QED BY <2>1, <2>2, <2>3 DEF MaintenanceNext, SchedulerWorks, ValidationEnds, web,
          maintenanceVars
<1>3. Over => OneAtATime
  BY DEF OneAtATime, Midway
<1> HIDE DEF Over
<1> QED BY <1>1, <1>2, <1>3, QuietWhenApart, MaintenanceStarts, MaintenanceStep, PTL
        DEF MaintenanceSpec
=============================================================================
