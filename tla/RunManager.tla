----------------------------- MODULE RunManager ----------------------------
(***************************************************************************)
(* The run manager (internal/runmanager/manager.go): it launches scripts,  *)
(* supervises their processes, stops them on request, on a timeout and at  *)
(* shutdown, and records each run in the table runs.                       *)
(*                                                                         *)
(* Concurrent parties: requests that start or stop runs, one supervising   *)
(* goroutine and one timer per run, Close, the update maintenance, and the *)
(* processes themselves.  startMu makes a start exclusive; mu makes each   *)
(* look at the map of active runs atomic, but nothing holds mu across a    *)
(* database write or a signal, so those are steps of their own.            *)
(***************************************************************************)
EXTENDS Naturals

CONSTANTS
  Runs,      \* run identifiers, each started at most once
  Script,    \* the script of each run (a one-time source is its own script)
  Strict,    \* runs started with DisallowOverlap
  Timed,     \* runs with a timeout
  NoRun,     \* "nobody holds startMu"
  MaxBoots   \* bound on starts of the service

ASSUME RunsAssumption == NoRun \notin Runs /\ Strict \subseteq Runs /\ Timed \subseteq Runs
ASSUME BootAssumption == MaxBoots \in Nat

VARIABLES
  service,   \* "up", the stages of Close, "closed", or "down"
  boots,     \* how often the service was started
  accepting, \* Manager.accepting
  starter,   \* the start that holds startMu: [run, at]
  db,        \* runs.status, "none" before the row exists
  active,    \* the map of active runs
  terminal,  \* activeRun.terminal: why the run is being ended
  timer,     \* the timeout timer of a run, then its grace timer
  stops,     \* calls of Stop between mu and the signal: [run, force]
  sup,       \* the supervising goroutine of a run
  outcome,   \* the final status it is going to write
  failing,   \* failed starts whose status is still to be written
  snap,      \* the runs Close found active
  leases,    \* path leases held for runs
  proc,      \* the process of a run
  asked      \* the strongest signal its process tree was sent

callVars == <<starter, stops, failing>>
runVars == <<active, terminal, timer, sup, outcome>>
hostVars == <<proc, asked>>
vars == <<service, boots, accepting, starter, db, active, terminal, timer,
          stops, sup, outcome, failing, snap, leases, proc, asked>>

CloseStages == {"marked", "waiting", "forced", "gaveup"}
ActiveStatus == {"starting", "running", "stopping", "timing_out"}
Outcomes == {"succeeded", "failed", "cancelled", "timed_out"}
Ended == Outcomes \cup {"disconnected"}

Idle == [run |-> NoRun, at |-> "idle"]

RunTypeOK ==
  /\ service \in {"up", "closed", "down"} \cup CloseStages
  /\ boots \in 0..MaxBoots
  /\ accepting \in BOOLEAN
  /\ starter \in {Idle} \cup
       [run : Runs, at : {"insert", "launch", "persist", "kill", "activate",
                          "supervise"}]
  /\ db \in [Runs -> {"none"} \cup ActiveStatus \cup Ended]
  /\ active \subseteq Runs
  /\ terminal \in [Runs -> {"none", "cancelled", "timed_out"}]
  /\ timer \in [Runs -> {"off", "armed", "fired", "grace"}]
  /\ stops \subseteq [run : Runs, force : BOOLEAN]
  /\ sup \in [Runs -> {"none", "wait", "read", "write", "delete", "release", "done"}]
  /\ outcome \in [Runs -> Outcomes]
  /\ failing \subseteq Runs
  /\ snap \subseteq Runs
  /\ leases \subseteq Runs
  /\ proc \in [Runs -> {"none", "alive", "exited"}]
  /\ asked \in [Runs -> {"no", "soft", "force"}]

(* What a new Manager starts from, and what a dead service leaves of it.   *)
Forgotten ==
  /\ starter' = Idle
  /\ active' = {}
  /\ terminal' = [r \in Runs |-> "none"]
  /\ timer' = [r \in Runs |-> "off"]
  /\ stops' = {}
  /\ sup' = [r \in Runs |-> "none"]
  /\ outcome' = [r \in Runs |-> "failed"]
  /\ failing' = {}
  /\ snap' = {}
  /\ leases' = {}

Init ==
  /\ service = "down"
  /\ boots = 0
  /\ accepting = TRUE
  /\ starter = Idle
  /\ db = [r \in Runs |-> "none"]
  /\ active = {}
  /\ terminal = [r \in Runs |-> "none"]
  /\ timer = [r \in Runs |-> "off"]
  /\ stops = {}
  /\ sup = [r \in Runs |-> "none"]
  /\ outcome = [r \in Runs |-> "failed"]
  /\ failing = {}
  /\ snap = {}
  /\ leases = {}
  /\ proc = [r \in Runs |-> "none"]
  /\ asked = [r \in Runs |-> "no"]

----------------------------------------------------------------------------
Up == service # "down"
Writable == service \notin {"closed", "down"}   \* Close is followed by db.Close
Closing == service \in CloseStages

SetStatus(r, s) == db' = [db EXCEPT ![r] = s]

(* UPDATE runs SET status = s WHERE id = r AND status = 'running' *)
Interrupt(r, s) ==
  db' = IF Writable /\ db[r] = "running" THEN [db EXCEPT ![r] = s] ELSE db

Signal(S, force) ==
  asked' = [r \in Runs |->
    IF r \in S /\ proc[r] = "alive" /\ asked[r] # "force"
      THEN (IF force THEN "force" ELSE "soft") ELSE asked[r]]

Boot ==
  /\ service = "down" /\ boots < MaxBoots
  /\ service' = "up"
  /\ boots' = boots + 1
  /\ accepting' = TRUE
  /\ db' = [r \in Runs |->
       IF db[r] \in ActiveStatus THEN "disconnected" ELSE db[r]]
  /\ Forgotten
  /\ UNCHANGED hostVars

(* The service ends, after Close or without it; what the operating system  *)
(* does with the processes is its own affair (see Exit).                   *)
Die ==
  /\ Up
  /\ service' = "down"
  /\ Forgotten
  /\ UNCHANGED <<boots, accepting, db, hostVars>>

(* A process ends by itself or because of a signal. *)
Exit(r) ==
  /\ proc[r] = "alive"
  /\ proc' = [proc EXCEPT ![r] = "exited"]
  /\ asked' = [asked EXCEPT ![r] = "no"]
  /\ UNCHANGED <<service, boots, accepting, db, callVars, runVars, snap, leases>>

----------------------------------------------------------------------------
(* Start and StartOneTime, under startMu.                                  *)

NoOverlap(r) == r \in Strict => \A q \in active : Script[q] # Script[r]

(* The checks, and the path lease. *)
BeginStart(r) ==
  /\ Up /\ starter = Idle /\ accepting
  /\ db[r] = "none"
  /\ NoOverlap(r)
  /\ starter' = [run |-> r, at |-> "insert"]
  /\ leases' = leases \cup {r}
  /\ UNCHANGED <<service, boots, accepting, db, stops, failing, runVars, snap, hostVars>>

(* Nothing but the lease is undone when the row cannot be written. *)
Insert(r) ==
  /\ starter = [run |-> r, at |-> "insert"]
  /\ \/ /\ Writable
        /\ SetStatus(r, "starting")
        /\ starter' = [run |-> r, at |-> "launch"]
        /\ UNCHANGED leases
     \/ /\ starter' = Idle
        /\ leases' = leases \ {r}
        /\ UNCHANGED db
  /\ UNCHANGED <<service, boots, accepting, stops, failing, runVars, snap, hostVars>>

(* failStart: when the write fails, a goroutine tries it again later. *)
FailStart(r) ==
  /\ \/ Writable /\ SetStatus(r, "failed") /\ UNCHANGED failing
     \/ failing' = failing \cup {r} /\ UNCHANGED db
  /\ starter' = Idle
  /\ leases' = leases \ {r}

Launch(r) ==
  /\ starter = [run |-> r, at |-> "launch"]
  /\ proc' = [proc EXCEPT ![r] = "alive"]
  /\ starter' = [run |-> r, at |-> "persist"]
  /\ UNCHANGED <<service, boots, accepting, db, stops, failing, runVars, snap, leases, asked>>

(* The working directory changed, or no executor could be started.  That   *)
(* an error of Launch leaves no process is the launcher's contract.        *)
LaunchFails(r) ==
  /\ starter = [run |-> r, at |-> "launch"]
  /\ FailStart(r)
  /\ UNCHANGED <<service, boots, accepting, stops, runVars, snap, hostVars>>

(* Mutant: the process is left alone when its run cannot be recorded. *)
PersistOrForget(r) ==
  /\ starter = [run |-> r, at |-> "persist"]
  /\ \/ /\ Writable
        /\ SetStatus(r, "running")
        /\ starter' = [run |-> r, at |-> "activate"]
        /\ UNCHANGED <<failing, leases>>
     \/ FailStart(r)
  /\ UNCHANGED <<service, boots, accepting, stops, runVars, snap, hostVars>>

(* The row says 'running', or the process is killed again. *)
Persist(r) ==
  /\ starter = [run |-> r, at |-> "persist"]
  /\ \/ /\ Writable /\ db[r] = "starting"
        /\ SetStatus(r, "running")
        /\ starter' = [run |-> r, at |-> "activate"]
        /\ UNCHANGED asked
     \/ /\ Signal({r}, TRUE)
        /\ starter' = [run |-> r, at |-> "kill"]
        /\ UNCHANGED db
  /\ UNCHANGED <<service, boots, accepting, stops, failing, runVars, snap, leases, proc>>

Killed(r) ==
  /\ starter = [run |-> r, at |-> "kill"] /\ proc[r] = "exited"
  /\ FailStart(r)
  /\ UNCHANGED <<service, boots, accepting, stops, runVars, snap, hostVars>>

Activate(r) ==
  /\ starter = [run |-> r, at |-> "activate"]
  /\ active' = active \cup {r}
  /\ timer' = [timer EXCEPT ![r] = IF r \in Timed THEN "armed" ELSE "off"]
  /\ starter' = [run |-> r, at |-> "supervise"]
  /\ UNCHANGED <<service, boots, accepting, db, terminal, stops, sup, outcome,
                 failing, snap, leases, hostVars>>

(* The supervisor joins the wait group after mu has been released. *)
Supervise(r) ==
  /\ starter = [run |-> r, at |-> "supervise"]
  /\ sup' = [sup EXCEPT ![r] = "wait"]
  /\ starter' = Idle
  /\ UNCHANGED <<service, boots, accepting, db, active, terminal, timer, stops,
                 outcome, failing, snap, leases, hostVars>>

(* retryRunStateWrite of failStart: until it works, or Close gives up. *)
RecordFailedStart(r) ==
  /\ r \in failing
  /\ \/ Writable /\ SetStatus(r, "failed")
     \/ service \in {"gaveup", "closed"} /\ UNCHANGED db
  /\ failing' = failing \ {r}
  /\ UNCHANGED <<service, boots, accepting, starter, stops, runVars, snap, leases, hostVars>>

----------------------------------------------------------------------------
(* timeout: the reason is set under mu, the rest happens after.            *)
TimeoutFires(r) ==
  /\ timer[r] = "armed"
  /\ IF r \in active /\ terminal[r] = "none"
       THEN /\ terminal' = [terminal EXCEPT ![r] = "timed_out"]
            /\ timer' = [timer EXCEPT ![r] = "fired"]
       ELSE timer' = [timer EXCEPT ![r] = "off"] /\ UNCHANGED terminal
  /\ UNCHANGED <<service, boots, accepting, db, callVars, active, sup, outcome,
                 snap, leases, hostVars>>

TimeoutSignals(r) ==
  /\ timer[r] = "fired"
  /\ Interrupt(r, "timing_out")
  /\ Signal({r}, FALSE)
  /\ timer' = [timer EXCEPT ![r] = "grace"]
  /\ UNCHANGED <<service, boots, accepting, callVars, active, terminal, sup,
                 outcome, snap, leases, proc>>

(* Mutant: the grace timer asks politely once more. *)
GraceEndsSoftly(r) ==
  /\ timer[r] = "grace"
  /\ Signal({r}, FALSE)
  /\ timer' = [timer EXCEPT ![r] = "off"]
  /\ UNCHANGED <<service, boots, accepting, db, callVars, active, terminal, sup,
                 outcome, snap, leases, proc>>

(* The grace period is over: force is used only if the timeout is still    *)
(* the reason.                                                             *)
GraceEnds(r) ==
  /\ timer[r] = "grace"
  /\ IF r \in active /\ terminal[r] = "timed_out"
       THEN Signal({r}, TRUE) ELSE UNCHANGED asked
  /\ timer' = [timer EXCEPT ![r] = "off"]
  /\ UNCHANGED <<service, boots, accepting, db, callVars, active, terminal, sup,
                 outcome, snap, leases, proc>>

----------------------------------------------------------------------------
(* Stop: the first call asks, a second one forces.  It overwrites the      *)
(* reason, whatever it was.                                                *)
BeginStop(r) ==
  /\ Up /\ r \in active
  /\ stops' = stops \cup {[run |-> r, force |-> terminal[r] = "cancelled"]}
  /\ terminal' = [terminal EXCEPT ![r] = "cancelled"]
  /\ UNCHANGED <<service, boots, accepting, starter, db, active, timer, sup,
                 outcome, failing, snap, leases, hostVars>>

(* Mutant: the row is marked without looking at its status. *)
StopSignalsBlindly(s) ==
  /\ s \in stops
  /\ IF s.force \/ ~Writable THEN UNCHANGED db ELSE SetStatus(s.run, "stopping")
  /\ Signal({s.run}, s.force)
  /\ stops' = stops \ {s}
  /\ UNCHANGED <<service, boots, accepting, starter, runVars, failing, snap, leases, proc>>

StopSignals(s) ==
  /\ s \in stops
  /\ IF s.force THEN UNCHANGED db ELSE Interrupt(s.run, "stopping")
  /\ Signal({s.run}, s.force)
  /\ stops' = stops \ {s}
  /\ UNCHANGED <<service, boots, accepting, starter, runVars, failing, snap, leases, proc>>

----------------------------------------------------------------------------
(* supervise: drain the output, wait, and look at the reason only then.    *)
(* That Wait returns behind the exit is the launcher's contract.           *)
Reaped(r) ==
  /\ sup[r] = "wait" /\ proc[r] = "exited"
  /\ sup' = [sup EXCEPT ![r] = "read"]
  /\ UNCHANGED <<service, boots, accepting, db, callVars, active, terminal, timer,
                 outcome, snap, leases, hostVars>>

ReadReason(r) ==
  /\ sup[r] = "read"
  /\ IF terminal[r] = "none"
       THEN \E s \in {"succeeded", "failed"} : outcome' = [outcome EXCEPT ![r] = s]
       ELSE outcome' = [outcome EXCEPT ![r] = terminal[r]]
  /\ timer' = [timer EXCEPT ![r] = IF @ = "armed" THEN "off" ELSE @]
  /\ sup' = [sup EXCEPT ![r] = "write"]
  /\ UNCHANGED <<service, boots, accepting, db, callVars, active, terminal, snap,
                 leases, hostVars>>

(* Tried every 100 ms until it works, or Close gives up. *)
WriteOutcome(r) ==
  /\ sup[r] = "write"
  /\ \/ Writable /\ SetStatus(r, outcome[r])
     \/ service \in {"gaveup", "closed"} /\ UNCHANGED db
  /\ sup' = [sup EXCEPT ![r] = "delete"]
  /\ outcome' = [outcome EXCEPT ![r] = "failed"]
  /\ UNCHANGED <<service, boots, accepting, callVars, active, terminal, timer,
                 snap, leases, hostVars>>

Delete(r) ==
  /\ sup[r] = "delete"
  /\ active' = active \ {r}
  /\ terminal' = [terminal EXCEPT ![r] = "none"]
  /\ sup' = [sup EXCEPT ![r] = "release"]
  /\ UNCHANGED <<service, boots, accepting, db, callVars, timer, outcome, snap,
                 leases, hostVars>>

Release(r) ==
  /\ sup[r] = "release"
  /\ leases' = leases \ {r}
  /\ sup' = [sup EXCEPT ![r] = "done"]
  /\ UNCHANGED <<service, boots, accepting, db, callVars, active, terminal, timer,
                 outcome, snap, hostVars>>

----------------------------------------------------------------------------
(* The update manager.  Mutant: it does not wait for a start in progress.  *)
EnterMaintenanceUnlocked ==
  /\ Up /\ accepting
  /\ active = {}
  /\ accepting' = FALSE
  /\ UNCHANGED <<service, boots, db, callVars, runVars, snap, leases, hostVars>>

EnterMaintenance ==
  /\ Up /\ accepting
  /\ starter = Idle
  /\ active = {}
  /\ accepting' = FALSE
  /\ UNCHANGED <<service, boots, db, callVars, runVars, snap, leases, hostVars>>

LeaveMaintenance ==
  /\ Up /\ ~accepting
  /\ starter = Idle
  /\ accepting' = TRUE
  /\ UNCHANGED <<service, boots, db, callVars, runVars, snap, leases, hostVars>>

----------------------------------------------------------------------------
(* Close.  Nothing refuses new starts, and RunWeb does not wait for the    *)
(* requests that are being served (internal/bootstrap/web.go).             *)
BeginClose ==
  /\ service = "up"
  /\ service' = "marked"
  /\ snap' = active
  /\ terminal' = [r \in Runs |-> IF r \in active THEN "cancelled" ELSE terminal[r]]
  /\ UNCHANGED <<boots, accepting, db, callVars, active, timer, sup, outcome,
                 leases, hostVars>>

CloseAsks ==
  /\ service = "marked"
  /\ service' = "waiting"
  /\ Signal(snap, FALSE)
  /\ UNCHANGED <<boots, accepting, db, callVars, runVars, snap, leases, proc>>

(* Mutant: Close waits in vain. *)
CloseNeverForces ==
  /\ service = "waiting"
  /\ service' = "forced"
  /\ UNCHANGED <<boots, accepting, db, callVars, runVars, snap, leases, hostVars>>

(* Thirty seconds later. *)
CloseForces ==
  /\ service = "waiting"
  /\ service' = "forced"
  /\ Signal(snap, TRUE)
  /\ UNCHANGED <<boots, accepting, db, callVars, runVars, snap, leases, proc>>

(* Five more: unwritten statuses are given up. *)
CloseGivesUp ==
  /\ service = "forced"
  /\ service' = "gaveup"
  /\ UNCHANGED <<boots, accepting, db, callVars, runVars, snap, leases, hostVars>>

(* The wait group: supervisors, and failed starts still to be recorded.    *)
CloseReturns ==
  /\ service \in CloseStages \ {"marked"}
  /\ failing = {} /\ \A r \in Runs : sup[r] \in {"none", "done"}
  /\ service' = "closed"
  /\ snap' = {}
  /\ UNCHANGED <<boots, accepting, db, callVars, runVars, leases, hostVars>>

----------------------------------------------------------------------------
Starting(r) ==
  \/ Insert(r) \/ Launch(r) \/ LaunchFails(r) \/ Persist(r) \/ Killed(r)
  \/ Activate(r) \/ Supervise(r)

Supervising(r) ==
  \/ Reaped(r) \/ ReadReason(r) \/ WriteOutcome(r) \/ Release(r)
  \/ RecordFailedStart(r)

Timing(r) == TimeoutSignals(r) \/ GraceEnds(r)

ClosingSteps == CloseAsks \/ CloseForces \/ CloseGivesUp \/ CloseReturns

(* The steps that call signalChanged: RunFollow says what that does. *)
Announced(r) ==
  \/ TimeoutSignals(r) \/ Delete(r)
  \/ \E s \in stops : s.run = r /\ StopSignals(s)

RunSteps(r) ==
  \/ BeginStart(r) \/ Starting(r) \/ TimeoutFires(r) \/ GraceEnds(r)
  \/ BeginStop(r) \/ Supervising(r) \/ Exit(r)

ServiceSteps ==
  \/ EnterMaintenance \/ LeaveMaintenance
  \/ BeginClose \/ ClosingSteps \/ Boot

Next ==
  \/ \E r \in Runs : RunSteps(r) \/ Announced(r)
  \/ ServiceSteps \/ Die

Spec == Init /\ [][Next]_vars

(* Goroutines, timers and callers go on, and a killed process ends.        *)
Fairness ==
  /\ \A r \in Runs :
       /\ WF_vars(Starting(r)) /\ WF_vars(Supervising(r) \/ Delete(r))
       /\ WF_vars(Timing(r)) /\ WF_vars(asked[r] = "force" /\ Exit(r))
  /\ WF_vars(ClosingSteps)

FairSpec == Spec /\ Fairness

----------------------------------------------------------------------------
(* Properties *)

Own(r) == proc[r] = "alive" /\ db[r] # "disconnected"

(* No process is ever lost: as long as the service runs, somebody holds    *)
(* the handle of every process it started - the start in progress or the   *)
(* map of active runs, where Stop and Close find it - and the lease that   *)
(* protects its files.                                                     *)
RunInv ==
  /\ RunTypeOK
  /\ Up => \A r \in Runs : Own(r) =>
       (r \in active \/ starter.run = r) /\ r \in leases

(* A run with a final status has no process: what the workflow engine      *)
(* relies on when it starts the next node, releases its labels or retries. *)
(* Only 'disconnected' says that nobody knows.                             *)
EndedMeansGone ==
  \A r \in Runs : db[r] \in Outcomes => proc[r] # "alive"

(* While the manager does not accept runs there is none, so that an update *)
(* can exchange the files below it.                                        *)
MaintenanceIdle ==
  Up /\ ~accepting => active = {} /\ \A r \in Runs : ~Own(r)

(* Two runs of a script that both forbid overlapping are never active      *)
(* together.                                                               *)
StrictRunsAlone ==
  \A r, q \in active \cap Strict : Script[r] = Script[q] => r = q

(* What a start was admitted for stays true: the checks are made under the *)
(* mutex, the process is launched and entered into the map steps later.    *)
AdmissionHolds == MaintenanceIdle /\ StrictRunsAlone

(* Whoever asks for runs may rely on RunLifecycle, whatever Stop, timeout, *)
(* Close, crashes and restarts do in between: one process at most, one     *)
(* final status, which is written when the process is gone and is never    *)
(* changed again, and nothing unknown but what a dead service has left.    *)
Lifecycle ==
  INSTANCE RunLifecycle WITH
    Outcomes <- Outcomes,
    Unknown <- "disconnected",
    status <- [r \in Runs |-> CASE db[r] = "none" -> "new"
                                 [] db[r] \in ActiveStatus -> "underway"
                                 [] OTHER -> db[r]],
    process <- proc

ImplementsLifecycle == Lifecycle!Spec

(* A run that timed out comes to its end - unless Stop is called for it    *)
(* meanwhile, or the service ends.                                         *)
TimeoutEnds ==
  \A r \in Runs :
    terminal[r] = "timed_out" ~> r \notin active \/ terminal[r] = "cancelled"

(* Close returns, provided no run was started behind its back.             *)
CloseEnds ==
  Closing ~> ~Closing \/ \E r \in Runs : proc[r] = "alive" /\ r \notin snap

(* After Close nothing is left running.  (docs/PRD.md, service life cycle) *)
CloseStopsAll == service = "closed" => \A r \in Runs : ~Own(r)
=============================================================================
