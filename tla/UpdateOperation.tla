--------------------------- MODULE UpdateOperation ---------------------------
(***************************************************************************)
(* One update of the service, seen from the files it leaves behind: the    *)
(* phase in operation.json, the current release in install.json, the       *)
(* executable the service manager starts, the database and its snapshot.   *)
(* The helper (internal/update/helper.go) walks through the phases; it may *)
(* die at every step, the host may reboot, steps may fail, and an          *)
(* administrator may then run "update recover".                            *)
(*                                                                         *)
(* The target release migrates the database when it opens it; the previous *)
(* release refuses a migrated one (internal/web/app.go).                   *)
(***************************************************************************)
EXTENDS Naturals

CONSTANT MaxFaults  \* bound on crashes, reboots and failing steps

ASSUME FaultAssumption == MaxFaults \in Nat

VARIABLES
  phase,       \* Operation.Phase
  current,     \* Metadata.Current
  executable,  \* what the service manager would start
  database,    \* whose schema app.db has
  snapshot,    \* database-before-update.db
  helper,      \* the helper's next step, "idle" when there is no helper
  running,     \* the release of the running service
  validating,  \* that service is in validation mode
  faults

updateVars == <<phase, current, executable, database, snapshot, helper,
                running, validating, faults>>

Releases == {"previous", "target"}
Ended == {"committed", "rolled_back", "failed_safe"}
ValidationPhases == {"switching", "starting_target", "validating",
                     "rolling_back", "needs_recovery"}
Phases == Ended \cup ValidationPhases
          \cup {"prepared", "handoff", "waiting_for_old_exit", "snapshotting"}

(* The steps before the service is stopped, and all others.                *)
ApplySteps == {"verify", "wait", "stopped", "copy"}
Steps == ApplySteps \cup {"idle", "switch", "current", "executable", "start", "validate",
         "back", "back_verify", "back_stop", "back_current", "back_executable", "back_database",
         "back_start", "back_validate",
         "safe", "safe_executable", "safe_start"}

UpdateTypeOK ==
  /\ phase \in Phases
  /\ current \in Releases /\ executable \in Releases
  /\ database \in Releases \cup {"none", "empty"}
  /\ snapshot \in {"none", "partial", "good"}
  /\ helper \in Steps
  /\ running \in Releases \cup {"none"} /\ validating \in BOOLEAN
  /\ faults \in 0..MaxFaults

UpdateInit ==
  /\ phase = "prepared" /\ helper = "idle"
  /\ current = "previous" /\ executable = "previous" /\ running = "previous"
  /\ database = "previous" /\ snapshot = "none"
  /\ validating = FALSE /\ faults = 0

files == <<current, executable, database, snapshot>>
service == <<running, validating>>

Fault == faults < MaxFaults /\ faults' = faults + 1

----------------------------------------------------------------------------
(* The service. *)

Opens(release) == database = release \/ release = "target" \/ database \in {"none", "empty"}

(* The service manager starts the executable: PendingValidation decides    *)
(* its mode, opening the database creates or migrates it, and a release    *)
(* older than the database does not start.                                 *)
Opened(release) == IF database \in Releases THEN release ELSE "empty"

StartService ==
  IF running = "none" /\ Opens(executable)
  THEN /\ running' = executable
       /\ validating' = (phase \in ValidationPhases)
       /\ database' = Opened(executable)
  ELSE UNCHANGED <<service, database>>

StopService == running' = "none" /\ validating' = FALSE

(* monitorUpdateValidation: the validating service sees the end of the     *)
(* operation and becomes a normal one.                                     *)
SeeEnd ==
  /\ validating /\ phase \in Ended
  /\ validating' = FALSE
  /\ UNCHANGED <<phase, files, helper, running, faults>>

----------------------------------------------------------------------------
(* Manager.Handoff: only a prepared operation; the phase is saved before   *)
(* the helper is started.                                                  *)

Handoff ==
  /\ phase = "prepared"
  /\ phase' = "handoff" /\ helper' = "verify"
  /\ UNCHANGED <<files, service, faults>>

HandoffFails ==
  /\ phase = "prepared" /\ Fault
  /\ phase' \in {"prepared", "failed_safe"}
  /\ UNCHANGED <<files, service, helper>>

----------------------------------------------------------------------------
(* The helper. Each step is one write or one call to the service manager.  *)

At(step) == helper = step
GoTo(step) == helper' = step

(* failSafe: nothing has been touched, the helper gives up.                *)
FailSafe == phase' = "failed_safe" /\ GoTo("idle")

(* markRecoveryFailure, and the failures of rollbackOperation.             *)
NeedsRecovery == phase' = "needs_recovery" /\ GoTo("idle")

Verify ==
  /\ At("verify") /\ phase \in {"handoff", "waiting_for_old_exit"}
  /\ \/ phase' = "waiting_for_old_exit" /\ GoTo("wait") /\ UNCHANGED faults
     \/ Fault /\ FailSafe
  /\ UNCHANGED <<files, service>>

(* waitForProcessExit, then waitForServiceStopped.                         *)
Wait ==
  /\ At("wait")
  /\ \/ running = "none" /\ GoTo("stopped") /\ UNCHANGED <<phase, faults>>
     \/ running # "none" /\ Fault /\ FailSafe
  /\ UNCHANGED <<files, service>>

Stopped ==
  /\ At("stopped")
  /\ \/ phase' = "snapshotting" /\ snapshot' = "partial" /\ GoTo("copy") /\ UNCHANGED faults
     \/ Fault /\ GoTo("safe") /\ UNCHANGED <<phase, snapshot>>
  /\ UNCHANGED <<current, executable, database, service>>

(* copyFileSync removes what it could not finish.                          *)
Copy ==
  /\ At("copy")
  /\ \/ snapshot' = "good" /\ GoTo("switch") /\ UNCHANGED faults
     \/ Fault /\ snapshot' = "none" /\ GoTo("safe")
  /\ UNCHANGED <<phase, current, executable, database, service>>

(* The target release is validated before the phase is saved.              *)
Switch ==
  /\ At("switch")
  /\ \/ phase' = "switching" /\ GoTo("current") /\ UNCHANGED faults
     \/ Fault /\ GoTo("back") /\ UNCHANGED phase
  /\ UNCHANGED <<files, service>>

SetCurrent ==
  /\ At("current")
  /\ \/ current' = "target" /\ GoTo("executable") /\ UNCHANGED faults
     \/ Fault /\ GoTo("back") /\ UNCHANGED current
  /\ UNCHANGED <<phase, executable, database, snapshot, service>>

(* SwitchExecutable; then the marker goes and the phase is saved twice.    *)
SwitchExecutable ==
  /\ At("executable")
  /\ \/ executable' = "target" /\ phase' = "starting_target" /\ GoTo("start") /\ UNCHANGED faults
     \/ Fault /\ GoTo("back") /\ UNCHANGED <<executable, phase>>
  /\ UNCHANGED <<current, database, snapshot, service>>

SaveValidating ==
  /\ At("start") /\ phase = "starting_target"
  /\ phase' = "validating"
  /\ UNCHANGED <<files, helper, service, faults>>

StartTarget ==
  /\ At("start") /\ phase = "validating"
  /\ \/ StartService /\ GoTo("validate") /\ UNCHANGED faults
     \/ Fault /\ GoTo("back") /\ UNCHANGED <<service, database>>
  /\ UNCHANGED <<phase, current, executable, snapshot>>

(* validateService: the marker of this operation and of the target, for 15 *)
(* seconds. A target that is not healthy is no fault of the host.          *)
Validate ==
  /\ At("validate")
  /\ \/ running = "target" /\ validating /\ phase' = "committed" /\ GoTo("idle")
     \/ GoTo("back") /\ UNCHANGED phase
  /\ UNCHANGED <<files, service, faults>>

Apply == \/ Verify \/ Wait \/ Stopped \/ Copy \/ Switch \/ SetCurrent \/ SwitchExecutable
         \/ SaveValidating \/ StartTarget \/ Validate

----------------------------------------------------------------------------
(* rollbackOperation *)

Back ==
  /\ At("back")
  /\ phase' = "rolling_back" /\ GoTo("back_verify")
  /\ UNCHANGED <<files, service, faults>>

(* The snapshot is verified before anything is switched (ADR 0152).        *)
BackVerify ==
  /\ At("back_verify")
  /\ IF snapshot = "good" THEN GoTo("back_stop") /\ UNCHANGED phase ELSE NeedsRecovery
  /\ UNCHANGED <<files, service, faults>>

(* The error of Stop is dropped.                                           *)
BackStop ==
  /\ At("back_stop") /\ GoTo("back_current")
  /\ \/ StopService /\ UNCHANGED faults
     \/ Fault /\ UNCHANGED service
  /\ UNCHANGED <<phase, files>>

(* Mutant: the current release is left to the executable. *)
BackCurrentKept ==
  /\ At("back_current") /\ GoTo("back_executable")
  /\ UNCHANGED <<phase, files, service, faults>>

BackCurrent ==
  /\ At("back_current")
  /\ \/ current' = "previous" /\ GoTo("back_executable") /\ UNCHANGED <<phase, faults>>
     \/ Fault /\ NeedsRecovery /\ UNCHANGED current
  /\ UNCHANGED <<executable, database, snapshot, service>>

BackExecutable ==
  /\ At("back_executable")
  /\ \/ executable' = "previous" /\ GoTo("back_database") /\ UNCHANGED <<phase, faults>>
     \/ Fault /\ NeedsRecovery /\ UNCHANGED executable
  /\ UNCHANGED <<current, database, snapshot, service>>

(* restoreDatabase stages and checks a copy, and exchanges it by two       *)
(* renames: if the second fails, the first is undone, and if the helper    *)
(* dies between them, there is no database.                                *)
BackDatabase ==
  /\ At("back_database")
  /\ \/ database' = "previous" /\ GoTo("back_start") /\ UNCHANGED <<phase, faults>>
     \/ Fault /\ NeedsRecovery /\ UNCHANGED database
     \/ Fault /\ GoTo("idle") /\ database' = "none" /\ UNCHANGED phase
  /\ UNCHANGED <<current, executable, snapshot, service>>

BackStart ==
  /\ At("back_start")
  /\ \/ StartService /\ GoTo("back_validate") /\ UNCHANGED <<phase, faults>>
     \/ Fault /\ NeedsRecovery /\ UNCHANGED <<service, database>>
  /\ UNCHANGED <<current, executable, snapshot>>

BackValidate ==
  /\ At("back_validate")
  /\ \/ running = "previous" /\ validating
        /\ phase' = "rolled_back" /\ GoTo("idle") /\ UNCHANGED faults
     \/ running = "previous" /\ Fault /\ NeedsRecovery
     \/ running # "previous" /\ NeedsRecovery /\ UNCHANGED faults
  /\ UNCHANGED <<files, service>>

RollBack == \/ Back \/ BackVerify \/ BackStop \/ BackCurrent \/ BackExecutable
            \/ BackDatabase \/ BackStart \/ BackValidate

----------------------------------------------------------------------------
(* recoverBeforeSwitch *)

Safe ==
  /\ At("safe")
  /\ \/ /\ current = "previous"
        /\ StopService
        /\ snapshot' = "none" /\ phase' = "failed_safe" /\ GoTo("safe_executable")
        /\ UNCHANGED faults
     \/ current # "previous" /\ NeedsRecovery /\ UNCHANGED <<service, snapshot, faults>>
     \/ Fault /\ NeedsRecovery /\ UNCHANGED <<service, snapshot>>
  /\ UNCHANGED <<current, executable, database>>

SafeExecutable ==
  /\ At("safe_executable")
  /\ \/ executable' = "previous" /\ GoTo("safe_start") /\ UNCHANGED <<phase, faults>>
     \/ Fault /\ NeedsRecovery /\ UNCHANGED executable
  /\ UNCHANGED <<current, database, snapshot, service>>

(* A start that fails, or an unhealthy previous release, is only reported. *)
SafeStart ==
  /\ At("safe_start")
  /\ \/ StartService /\ UNCHANGED faults
     \/ Fault /\ UNCHANGED <<service, database>>
  /\ GoTo("idle")
  /\ UNCHANGED <<phase, current, executable, snapshot>>

Secure == Safe \/ SafeExecutable \/ SafeStart

HelperStep == Apply \/ RollBack \/ Secure

----------------------------------------------------------------------------
(* Faults of the surroundings, and the administrator. *)

HelperDies ==
  /\ helper # "idle" /\ Fault
  /\ GoTo("idle")
  /\ UNCHANGED <<phase, files, service>>

(* Mutant: an operation that has been given up is not taken up again. *)
RecoverUnended ==
  /\ helper = "idle"
  /\ \/ phase \in {"handoff", "waiting_for_old_exit", "snapshotting"} /\ GoTo("safe")
     \/ phase \in ValidationPhases /\ GoTo("back")
  /\ UNCHANGED <<phase, files, service, faults>>

(* RecoverOperation, by the phase it finds.                                *)
Recover ==
  /\ helper = "idle"
  /\ \/ /\ phase \in {"handoff", "waiting_for_old_exit", "snapshotting", "failed_safe"}
        /\ GoTo("safe")
     \/ /\ phase = "committed" /\ snapshot = "good" /\ current = "target"
        /\ GoTo("back")
     \/ /\ phase \in ValidationPhases
        /\ GoTo("back")
  /\ UNCHANGED <<phase, files, service, faults>>

----------------------------------------------------------------------------
(* What an ended operation promises: after a commit the target release is  *)
(* installed on the database it migrated, after any other end the previous *)
(* release on the database it had.                                         *)
EndMeansState ==
  /\ phase = "committed" =>
       current = "target" /\ executable = "target" /\ database = "target"
  /\ phase \in {"rolled_back", "failed_safe"} =>
       current = "previous" /\ executable = "previous" /\ database = "previous"
  /\ phase \in Ended => running \in {current, "none"}

(* needs_recovery without a snapshot: every further recovery fails before  *)
(* it touches anything, and Prepare refuses a new operation.               *)
Stuck == phase = "needs_recovery" /\ snapshot # "good"
=============================================================================
