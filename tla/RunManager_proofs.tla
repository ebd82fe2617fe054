------------------------- MODULE RunManager_proofs -------------------------
(***************************************************************************)
(* The safety properties of RunManager and of RunFollow, for any set of    *)
(* runs, scripts and followers and any number of starts of the service.    *)
(***************************************************************************)
EXTENDS RunFollow, TLAPS

(* The statuses of a row whose process has been recorded. *)
Live == {"running", "stopping", "timing_out"}

(* Whoever has a process has a row, and it is not final. *)
ProcessRecorded ==
  \A r \in Runs : proc[r] = "alive" => db[r] \notin Outcomes \cup {"none"}

(* What a service that works knows of its processes: the start in progress *)
(* or the map of active runs has the handle, and there is a lease.         *)
HandlesKept ==
  Up => \A r \in Runs : Own(r) =>
    (r \in active \/ starter.run = r) /\ r \in leases

(* The start in progress has its run to itself and knows its status. *)
StarterSettled ==
  starter.run \in Runs =>
    /\ starter.run \in leases
    /\ sup[starter.run] = "none"
    /\ starter.run \notin failing
    /\ starter.at = "insert" => db[starter.run] = "none"
    /\ starter.at \in {"launch", "persist", "kill"} =>
         db[starter.run] = "starting"
    /\ starter.at = "launch" => proc[starter.run] # "alive"
    /\ starter.at \in {"activate", "supervise"} => db[starter.run] \in Live
    /\ starter.at = "supervise" => starter.run \in active

(* A supervisor works on a row that is not final until it has written, and *)
(* on a process that is gone as soon as it has reaped it.                  *)
SupervisorSettled ==
  \A r \in Runs :
    /\ sup[r] # "none" => db[r] # "none"
    /\ sup[r] \in {"wait", "read", "write"} => db[r] \in Live
    /\ sup[r] \notin {"none", "wait"} => proc[r] # "alive"

(* A failed start that could not be recorded is nobody else's any more. *)
FailingSettled ==
  \A r \in failing :
    db[r] = "starting" /\ proc[r] # "alive" /\ sup[r] = "none"

(* Maintenance begins when nothing runs, and nothing is started in it. *)
MaintenanceQuiet == Up /\ ~accepting => starter = Idle /\ active = {}

(* The check of NoOverlap stays true while its start is in progress. *)
StartAlone ==
  starter.run \in Strict =>
    \A q \in active : Script[q] = Script[starter.run] => q = starter.run

RunIInv ==
  /\ RunTypeOK
  /\ ProcessRecorded
  /\ HandlesKept
  /\ StarterSettled
  /\ SupervisorSettled
  /\ FailingSettled
  /\ MaintenanceQuiet
  /\ StartAlone
  /\ StrictRunsAlone

(* What holds of a follower besides FollowInv: its run exists, and a run   *)
(* whose last output it is going to read is over.                          *)
FollowIInv ==
  /\ FollowTypeOK
  /\ \A f \in Followers :
       /\ follow[f].at \in {"read", "status", "look", "wait", "poll"} =>
            db[follow[f].run] # "none"
       /\ follow[f].at \in {"final", "done"} => db[follow[f].run] \in Ended
       /\ follow[f].at = "done" => follow[f].seen = log[follow[f].run]

(* A step of a start in progress.                                          *)
LEMMA StartingStep ==
  ASSUME RunIInv, NEW r \in Runs, Starting(r)
  PROVE  RunIInv'
<1> USE RunsAssumption, BootAssumption DEF RunIInv, RunTypeOK, Idle, Live,
       ActiveStatus, Outcomes, Ended, CloseStages
<1>1. CASE Insert(r)
  <2> USE <1>1 DEF Insert, Writable, SetStatus, runVars, hostVars
  <2>1. RunTypeOK'
    OBVIOUS
  <2>2. ProcessRecorded'
    BY DEF ProcessRecorded
  <2>3. HandlesKept'
    BY DEF HandlesKept, Up, Own, StarterSettled, ProcessRecorded
  <2>4. StarterSettled'
    BY DEF StarterSettled, ProcessRecorded
  <2>5. SupervisorSettled'
    BY DEF SupervisorSettled, StarterSettled
  <2>6. FailingSettled'
    BY DEF FailingSettled
  <2>7. MaintenanceQuiet'
    BY DEF MaintenanceQuiet, Up
  <2>8. StartAlone'
    BY DEF StartAlone
  <2>9. StrictRunsAlone'
    BY DEF StrictRunsAlone
  <2> QED BY <2>1, <2>2, <2>3, <2>4, <2>5, <2>6, <2>7, <2>8, <2>9
<1>2. CASE Launch(r)
  <2> USE <1>2 DEF Launch, runVars
  <2>1. RunTypeOK'
    OBVIOUS
  <2>2. ProcessRecorded'
    BY DEF ProcessRecorded, StarterSettled
  <2>3. HandlesKept'
    BY DEF HandlesKept, Up, Own, StarterSettled
  <2>4. StarterSettled'
    BY DEF StarterSettled
  <2>5. SupervisorSettled'
    BY DEF SupervisorSettled, StarterSettled
  <2>6. FailingSettled'
    BY DEF FailingSettled, StarterSettled
  <2>7. MaintenanceQuiet'
    BY DEF MaintenanceQuiet, Up
  <2>8. StartAlone'
    BY DEF StartAlone
  <2>9. StrictRunsAlone'
    BY DEF StrictRunsAlone
  <2> QED BY <2>1, <2>2, <2>3, <2>4, <2>5, <2>6, <2>7, <2>8, <2>9
<1>3. CASE LaunchFails(r)
  <2> USE <1>3 DEF LaunchFails, FailStart, runVars, hostVars, Writable,
      SetStatus
  <2>1. RunTypeOK'
    OBVIOUS
  <2>2. ProcessRecorded'
    BY DEF ProcessRecorded, StarterSettled
  <2>3. HandlesKept'
    BY DEF HandlesKept, Up, Own, StarterSettled
  <2>4. StarterSettled'
    BY DEF StarterSettled
  <2>5. SupervisorSettled'
    BY DEF SupervisorSettled, StarterSettled
  <2>6. FailingSettled'
    BY DEF FailingSettled, StarterSettled
  <2>7. MaintenanceQuiet'
    BY DEF MaintenanceQuiet, Up
  <2>8. StartAlone'
    BY DEF StartAlone
  <2>9. StrictRunsAlone'
    BY DEF StrictRunsAlone
  <2> QED BY <2>1, <2>2, <2>3, <2>4, <2>5, <2>6, <2>7, <2>8, <2>9
<1>4. CASE Persist(r)
  <2> USE <1>4 DEF Persist, Writable, SetStatus, Signal, runVars
  <2>1. RunTypeOK'
    OBVIOUS
  <2>2. ProcessRecorded'
    BY DEF ProcessRecorded
  <2>3. HandlesKept'
    BY DEF HandlesKept, Up, Own
  <2>4. StarterSettled'
    BY DEF StarterSettled
  <2>5. SupervisorSettled'
    BY DEF SupervisorSettled
  <2>6. FailingSettled'
    BY DEF FailingSettled, StarterSettled
  <2>7. MaintenanceQuiet'
    BY DEF MaintenanceQuiet, Up
  <2>8. StartAlone'
    BY DEF StartAlone
  <2>9. StrictRunsAlone'
    BY DEF StrictRunsAlone
  <2> QED BY <2>1, <2>2, <2>3, <2>4, <2>5, <2>6, <2>7, <2>8, <2>9
<1>5. CASE Killed(r)
  <2> USE <1>5 DEF Killed, FailStart, runVars, hostVars, Writable, SetStatus
  <2>1. RunTypeOK'
    OBVIOUS
  <2>2. ProcessRecorded'
    BY DEF ProcessRecorded
  <2>3. HandlesKept'
    BY DEF HandlesKept, Up, Own
  <2>4. StarterSettled'
    BY DEF StarterSettled
  <2>5. SupervisorSettled'
    BY DEF SupervisorSettled, StarterSettled
  <2>6. FailingSettled'
    BY DEF FailingSettled, StarterSettled
  <2>7. MaintenanceQuiet'
    BY DEF MaintenanceQuiet, Up
  <2>8. StartAlone'
    BY DEF StartAlone
  <2>9. StrictRunsAlone'
    BY DEF StrictRunsAlone
  <2> QED BY <2>1, <2>2, <2>3, <2>4, <2>5, <2>6, <2>7, <2>8, <2>9
<1>6. CASE Activate(r)
  <2> USE <1>6 DEF Activate, hostVars
  <2>1. RunTypeOK'
    OBVIOUS
  <2>2. HandlesKept'
    BY DEF HandlesKept, Up, Own
  <2>3. StarterSettled'
    BY DEF StarterSettled
  <2>4. MaintenanceQuiet'
    BY DEF MaintenanceQuiet, Up
  <2>5. StartAlone'
    BY DEF StartAlone
  <2>6. StrictRunsAlone'
    BY DEF StrictRunsAlone, StartAlone
  <2>7. ProcessRecorded' /\ SupervisorSettled' /\ FailingSettled'
    BY DEF ProcessRecorded, SupervisorSettled, FailingSettled
  <2> QED BY <2>1, <2>2, <2>3, <2>4, <2>5, <2>6, <2>7
<1>7. CASE Supervise(r)
  <2> USE <1>7 DEF Supervise, hostVars
  <2>1. RunTypeOK'
    OBVIOUS
  <2>2. HandlesKept'
    BY DEF HandlesKept, Up, Own, StarterSettled
  <2>3. StarterSettled'
    BY DEF StarterSettled
  <2>4. SupervisorSettled'
    BY DEF SupervisorSettled, StarterSettled
  <2>5. FailingSettled'
    BY DEF FailingSettled, StarterSettled
  <2>6. MaintenanceQuiet'
    BY DEF MaintenanceQuiet, Up
  <2>7. StartAlone'
    BY DEF StartAlone
  <2>8. ProcessRecorded' /\ StrictRunsAlone'
    BY DEF ProcessRecorded, StrictRunsAlone
  <2> QED BY <2>1, <2>2, <2>3, <2>4, <2>5, <2>6, <2>7, <2>8
<1> QED BY <1>1, <1>2, <1>3, <1>4, <1>5, <1>6, <1>7 DEF Starting

(* A step of a supervisor, or of a goroutine that records a failed start.  *)
LEMMA SupervisingStep ==
  ASSUME RunIInv, NEW r \in Runs, Supervising(r) \/ Delete(r)
  PROVE  RunIInv'
<1> USE RunsAssumption, BootAssumption DEF RunIInv, RunTypeOK, Idle, Live,
       ActiveStatus, Outcomes, Ended, CloseStages
<1>1. CASE Reaped(r)
  <2> USE <1>1 DEF Reaped, callVars, hostVars
  <2>1. RunTypeOK'
    OBVIOUS
  <2>2. StarterSettled'
    BY DEF StarterSettled
  <2>3. SupervisorSettled'
    BY DEF SupervisorSettled
  <2>4. FailingSettled'
    BY DEF FailingSettled
  <2>5. /\ ProcessRecorded' /\ HandlesKept' /\ MaintenanceQuiet'
       /\ StartAlone' /\ StrictRunsAlone'
    BY DEF ProcessRecorded, HandlesKept, Up, Own, MaintenanceQuiet,
      StartAlone, StrictRunsAlone
  <2> QED BY <2>1, <2>2, <2>3, <2>4, <2>5
<1>2. CASE ReadReason(r)
  <2> USE <1>2 DEF ReadReason, callVars, hostVars
  <2>1. RunTypeOK'
    OBVIOUS
  <2>2. StarterSettled'
    BY DEF StarterSettled
  <2>3. SupervisorSettled'
    BY DEF SupervisorSettled
  <2>4. FailingSettled'
    BY DEF FailingSettled
  <2>5. /\ ProcessRecorded' /\ HandlesKept' /\ MaintenanceQuiet'
       /\ StartAlone' /\ StrictRunsAlone'
    BY DEF ProcessRecorded, HandlesKept, Up, Own, MaintenanceQuiet,
      StartAlone, StrictRunsAlone
  <2> QED BY <2>1, <2>2, <2>3, <2>4, <2>5
<1>3. CASE WriteOutcome(r)
  <2> USE <1>3 DEF WriteOutcome, Writable, SetStatus, callVars, hostVars
  <2>1. RunTypeOK'
    OBVIOUS
  <2>2. ProcessRecorded'
    BY DEF ProcessRecorded, SupervisorSettled
  <2>3. HandlesKept'
    BY DEF HandlesKept, Up, Own, SupervisorSettled
  <2>4. StarterSettled'
    BY DEF StarterSettled
  <2>5. SupervisorSettled'
    BY DEF SupervisorSettled
  <2>6. FailingSettled'
    BY DEF FailingSettled
  <2>7. MaintenanceQuiet' /\ StartAlone' /\ StrictRunsAlone'
    BY DEF MaintenanceQuiet, Up, StartAlone, StrictRunsAlone
  <2> QED BY <2>1, <2>2, <2>3, <2>4, <2>5, <2>6, <2>7
<1>4. CASE Delete(r)
  <2> USE <1>4 DEF Delete, callVars, hostVars
  <2>1. RunTypeOK'
    OBVIOUS
  <2>2. HandlesKept'
    BY DEF HandlesKept, Up, Own, SupervisorSettled
  <2>3. StarterSettled'
    BY DEF StarterSettled
  <2>4. SupervisorSettled'
    BY DEF SupervisorSettled
  <2>5. FailingSettled'
    BY DEF FailingSettled
  <2>6. MaintenanceQuiet'
    BY DEF MaintenanceQuiet, Up
  <2>7. StartAlone'
    BY DEF StartAlone
  <2>8. StrictRunsAlone'
    BY DEF StrictRunsAlone
  <2>9. ProcessRecorded'
    BY DEF ProcessRecorded
  <2> QED BY <2>1, <2>2, <2>3, <2>4, <2>5, <2>6, <2>7, <2>8, <2>9
<1>5. CASE Release(r)
  <2> USE <1>5 DEF Release, callVars, hostVars
  <2>1. RunTypeOK'
    OBVIOUS
  <2>2. HandlesKept'
    BY DEF HandlesKept, Up, Own, SupervisorSettled
  <2>3. StarterSettled'
    BY DEF StarterSettled
  <2>4. SupervisorSettled'
    BY DEF SupervisorSettled
  <2>5. FailingSettled'
    BY DEF FailingSettled
  <2>6. /\ ProcessRecorded' /\ MaintenanceQuiet' /\ StartAlone'
       /\ StrictRunsAlone'
    BY DEF ProcessRecorded, MaintenanceQuiet, Up, StartAlone,
      StrictRunsAlone
  <2> QED BY <2>1, <2>2, <2>3, <2>4, <2>5, <2>6
<1>6. CASE RecordFailedStart(r)
  <2> USE <1>6 DEF RecordFailedStart, Writable, SetStatus, runVars, hostVars
  <2>1. RunTypeOK'
    OBVIOUS
  <2>2. ProcessRecorded'
    BY DEF ProcessRecorded, FailingSettled
  <2>3. HandlesKept'
    BY DEF HandlesKept, Up, Own, FailingSettled
  <2>4. StarterSettled'
    BY DEF StarterSettled
  <2>5. SupervisorSettled'
    BY DEF SupervisorSettled, FailingSettled
  <2>6. FailingSettled'
    BY DEF FailingSettled
  <2>7. MaintenanceQuiet' /\ StartAlone' /\ StrictRunsAlone'
    BY DEF MaintenanceQuiet, Up, StartAlone, StrictRunsAlone
  <2> QED BY <2>1, <2>2, <2>3, <2>4, <2>5, <2>6, <2>7
<1> QED BY <1>1, <1>2, <1>3, <1>4, <1>5, <1>6 DEF Supervising

(* A step of a timer.                                                      *)
LEMMA TimingStep ==
  ASSUME RunIInv, NEW r \in Runs, TimeoutFires(r) \/ Timing(r)
  PROVE  RunIInv'
<1> USE RunsAssumption, BootAssumption DEF RunIInv, RunTypeOK, Idle, Live,
       ActiveStatus, Outcomes, Ended, CloseStages
<1>1. CASE TimeoutFires(r)
  <2> USE <1>1 DEF TimeoutFires, callVars, hostVars
  <2>1. RunTypeOK'
    OBVIOUS
  <2>2. /\ ProcessRecorded' /\ HandlesKept' /\ StarterSettled'
       /\ SupervisorSettled' /\ FailingSettled' /\ MaintenanceQuiet'
       /\ StartAlone' /\ StrictRunsAlone'
    BY DEF ProcessRecorded, HandlesKept, Up, Own, StarterSettled,
      SupervisorSettled, FailingSettled, MaintenanceQuiet, StartAlone,
      StrictRunsAlone
  <2> QED BY <2>1, <2>2
<1>2. CASE TimeoutSignals(r)
  <2> USE <1>2 DEF TimeoutSignals, Interrupt, Signal, callVars, Writable
  <2>1. RunTypeOK'
    OBVIOUS
  <2>2. ProcessRecorded'
    BY DEF ProcessRecorded
  <2>3. HandlesKept'
    BY DEF HandlesKept, Up, Own
  <2>4. StarterSettled'
    BY DEF StarterSettled
  <2>5. SupervisorSettled'
    BY DEF SupervisorSettled
  <2>6. FailingSettled'
    BY DEF FailingSettled
  <2>7. MaintenanceQuiet' /\ StartAlone' /\ StrictRunsAlone'
    BY DEF MaintenanceQuiet, Up, StartAlone, StrictRunsAlone
  <2> QED BY <2>1, <2>2, <2>3, <2>4, <2>5, <2>6, <2>7
<1>3. CASE GraceEnds(r)
  <2> USE <1>3 DEF GraceEnds, Signal, callVars
  <2>1. RunTypeOK'
    OBVIOUS
  <2>2. /\ ProcessRecorded' /\ HandlesKept' /\ StarterSettled'
       /\ SupervisorSettled' /\ FailingSettled' /\ MaintenanceQuiet'
       /\ StartAlone' /\ StrictRunsAlone'
    BY DEF ProcessRecorded, HandlesKept, Up, Own, StarterSettled,
      SupervisorSettled, FailingSettled, MaintenanceQuiet, StartAlone,
      StrictRunsAlone
  <2> QED BY <2>1, <2>2
<1> QED BY <1>1, <1>2, <1>3 DEF Timing

(* A request, or the end of a process.                                     *)
LEMMA RequestStep ==
  ASSUME RunIInv, NEW r \in Runs, BeginStart(r) \/ BeginStop(r) \/ Exit(r)
  PROVE  RunIInv'
<1> USE RunsAssumption, BootAssumption DEF RunIInv, RunTypeOK, Idle, Live,
       ActiveStatus, Outcomes, Ended, CloseStages
<1>1. CASE BeginStart(r)
  <2> USE <1>1 DEF BeginStart, Up, NoOverlap, runVars, hostVars
  <2>1. RunTypeOK'
    OBVIOUS
  <2>2. HandlesKept'
    BY DEF HandlesKept, Own
  <2>3. StarterSettled'
    BY DEF StarterSettled, SupervisorSettled, FailingSettled
  <2>4. MaintenanceQuiet'
    BY DEF MaintenanceQuiet
  <2>5. StartAlone'
    BY DEF StartAlone
  <2>6. /\ ProcessRecorded' /\ SupervisorSettled' /\ FailingSettled'
       /\ StrictRunsAlone'
    BY DEF ProcessRecorded, SupervisorSettled, FailingSettled,
      StrictRunsAlone
  <2> QED BY <2>1, <2>2, <2>3, <2>4, <2>5, <2>6
<1>2. CASE BeginStop(r)
  <2> USE <1>2 DEF BeginStop, Up, hostVars
  <2>1. RunTypeOK'
    <3>1. [run |-> r, force |-> terminal[r] = "cancelled"]
             \in [run : Runs, force : BOOLEAN]
      OBVIOUS
    <3>2. stops' \subseteq [run : Runs, force : BOOLEAN]
      BY <3>1 DEF BeginStop
    <3> QED BY <3>2
  <2>2. /\ ProcessRecorded' /\ HandlesKept' /\ StarterSettled'
       /\ SupervisorSettled' /\ FailingSettled' /\ MaintenanceQuiet'
       /\ StartAlone' /\ StrictRunsAlone'
    BY DEF ProcessRecorded, HandlesKept, Own, StarterSettled,
      SupervisorSettled, FailingSettled, MaintenanceQuiet, StartAlone,
      StrictRunsAlone
  <2> QED BY <2>1, <2>2
<1>3. CASE Exit(r)
  <2> USE <1>3 DEF Exit, callVars, runVars
  <2>1. RunTypeOK'
    OBVIOUS
  <2>2. ProcessRecorded'
    BY DEF ProcessRecorded
  <2>3. HandlesKept'
    BY DEF HandlesKept, Up, Own
  <2>4. StarterSettled'
    BY DEF StarterSettled
  <2>5. SupervisorSettled'
    BY DEF SupervisorSettled
  <2>6. FailingSettled'
    BY DEF FailingSettled
  <2>7. MaintenanceQuiet' /\ StartAlone' /\ StrictRunsAlone'
    BY DEF MaintenanceQuiet, Up, StartAlone, StrictRunsAlone
  <2> QED BY <2>1, <2>2, <2>3, <2>4, <2>5, <2>6, <2>7
<1> QED BY <1>1, <1>2, <1>3

(* A step of Close.                                                        *)
LEMMA ClosingStep ==
  ASSUME RunIInv, BeginClose \/ ClosingSteps
  PROVE  RunIInv'
<1> USE RunsAssumption, BootAssumption DEF RunIInv, RunTypeOK, Idle, Live,
       ActiveStatus, Outcomes, Ended, CloseStages
<1>1. CASE BeginClose
  <2> USE <1>1 DEF BeginClose, callVars, hostVars
  <2>1. RunTypeOK'
    OBVIOUS
  <2>2. HandlesKept'
    BY DEF HandlesKept, Up, Own
  <2>3. MaintenanceQuiet'
    BY DEF MaintenanceQuiet, Up
  <2>4. /\ ProcessRecorded' /\ StarterSettled' /\ SupervisorSettled'
       /\ FailingSettled' /\ StartAlone' /\ StrictRunsAlone'
    BY DEF ProcessRecorded, StarterSettled, SupervisorSettled,
      FailingSettled, StartAlone, StrictRunsAlone
  <2> QED BY <2>1, <2>2, <2>3, <2>4
<1>2. CASE CloseAsks
  <2> USE <1>2 DEF CloseAsks, Signal, callVars, runVars
  <2>1. RunTypeOK'
    OBVIOUS
  <2>2. HandlesKept'
    BY DEF HandlesKept, Up, Own
  <2>3. MaintenanceQuiet'
    BY DEF MaintenanceQuiet, Up
  <2>4. /\ ProcessRecorded' /\ StarterSettled' /\ SupervisorSettled'
       /\ FailingSettled' /\ StartAlone' /\ StrictRunsAlone'
    BY DEF ProcessRecorded, StarterSettled, SupervisorSettled,
      FailingSettled, StartAlone, StrictRunsAlone
  <2> QED BY <2>1, <2>2, <2>3, <2>4
<1>3. CASE CloseForces
  <2> USE <1>3 DEF CloseForces, Signal, callVars, runVars
  <2>1. RunTypeOK'
    OBVIOUS
  <2>2. HandlesKept'
    BY DEF HandlesKept, Up, Own
  <2>3. MaintenanceQuiet'
    BY DEF MaintenanceQuiet, Up
  <2>4. /\ ProcessRecorded' /\ StarterSettled' /\ SupervisorSettled'
       /\ FailingSettled' /\ StartAlone' /\ StrictRunsAlone'
    BY DEF ProcessRecorded, StarterSettled, SupervisorSettled,
      FailingSettled, StartAlone, StrictRunsAlone
  <2> QED BY <2>1, <2>2, <2>3, <2>4
<1>4. CASE CloseGivesUp
  <2> USE <1>4 DEF CloseGivesUp, callVars, runVars, hostVars
  <2>1. RunTypeOK'
    OBVIOUS
  <2>2. HandlesKept'
    BY DEF HandlesKept, Up, Own
  <2>3. MaintenanceQuiet'
    BY DEF MaintenanceQuiet, Up
  <2>4. /\ ProcessRecorded' /\ StarterSettled' /\ SupervisorSettled'
       /\ FailingSettled' /\ StartAlone' /\ StrictRunsAlone'
    BY DEF ProcessRecorded, StarterSettled, SupervisorSettled,
      FailingSettled, StartAlone, StrictRunsAlone
  <2> QED BY <2>1, <2>2, <2>3, <2>4
<1>5. CASE CloseReturns
  <2> USE <1>5 DEF CloseReturns, callVars, runVars, hostVars
  <2>1. RunTypeOK'
    OBVIOUS
  <2>2. HandlesKept'
    BY DEF HandlesKept, Up, Own
  <2>3. MaintenanceQuiet'
    BY DEF MaintenanceQuiet, Up
  <2>4. /\ ProcessRecorded' /\ StarterSettled' /\ SupervisorSettled'
       /\ FailingSettled' /\ StartAlone' /\ StrictRunsAlone'
    BY DEF ProcessRecorded, StarterSettled, SupervisorSettled,
      FailingSettled, StartAlone, StrictRunsAlone
  <2> QED BY <2>1, <2>2, <2>3, <2>4
<1> QED BY <1>1, <1>2, <1>3, <1>4, <1>5 DEF ClosingSteps

(* Maintenance, and the begin and the end of the service.                  *)
LEMMA ServiceStep ==
  ASSUME RunIInv, EnterMaintenance \/ LeaveMaintenance \/ Boot \/ Die
  PROVE  RunIInv'
<1> USE RunsAssumption, BootAssumption DEF RunIInv, RunTypeOK, Idle, Live,
       ActiveStatus, Outcomes, Ended, CloseStages
<1>1. CASE EnterMaintenance
  <2> USE <1>1 DEF EnterMaintenance, Up, callVars, runVars, hostVars
  <2>1. RunTypeOK'
    OBVIOUS
  <2>2. MaintenanceQuiet'
    BY DEF MaintenanceQuiet
  <2>3. /\ ProcessRecorded' /\ HandlesKept' /\ StarterSettled'
       /\ SupervisorSettled' /\ FailingSettled' /\ StartAlone'
       /\ StrictRunsAlone'
    BY DEF ProcessRecorded, HandlesKept, Own, StarterSettled,
      SupervisorSettled, FailingSettled, StartAlone, StrictRunsAlone
  <2> QED BY <2>1, <2>2, <2>3
<1>2. CASE LeaveMaintenance
  <2> USE <1>2 DEF LeaveMaintenance, Up, callVars, runVars, hostVars
  <2>1. RunTypeOK'
    OBVIOUS
  <2>2. MaintenanceQuiet'
    BY DEF MaintenanceQuiet
  <2>3. /\ ProcessRecorded' /\ HandlesKept' /\ StarterSettled'
       /\ SupervisorSettled' /\ FailingSettled' /\ StartAlone'
       /\ StrictRunsAlone'
    BY DEF ProcessRecorded, HandlesKept, Own, StarterSettled,
      SupervisorSettled, FailingSettled, StartAlone, StrictRunsAlone
  <2> QED BY <2>1, <2>2, <2>3
<1>3. CASE Boot
  <2> USE <1>3 DEF Boot, Forgotten, hostVars
  <2>1. RunTypeOK'
    OBVIOUS
  <2>2. ProcessRecorded'
    BY DEF ProcessRecorded
  <2>3. HandlesKept'
    BY DEF HandlesKept, Up, Own, ProcessRecorded
  <2>4. StarterSettled'
    BY DEF StarterSettled
  <2>5. SupervisorSettled'
    BY DEF SupervisorSettled
  <2>6. FailingSettled'
    BY DEF FailingSettled
  <2>7. MaintenanceQuiet'
    BY DEF MaintenanceQuiet, Up
  <2>8. StartAlone'
    BY DEF StartAlone
  <2>9. StrictRunsAlone'
    BY DEF StrictRunsAlone
  <2> QED BY <2>1, <2>2, <2>3, <2>4, <2>5, <2>6, <2>7, <2>8, <2>9
<1>4. CASE Die
  <2> USE <1>4 DEF Die, Up, Forgotten, hostVars
  <2>1. RunTypeOK'
    OBVIOUS
  <2>2. HandlesKept'
    BY DEF HandlesKept, Own
  <2>3. StarterSettled'
    BY DEF StarterSettled
  <2>4. SupervisorSettled'
    BY DEF SupervisorSettled
  <2>5. FailingSettled'
    BY DEF FailingSettled
  <2>6. MaintenanceQuiet'
    BY DEF MaintenanceQuiet
  <2>7. StartAlone'
    BY DEF StartAlone
  <2>8. StrictRunsAlone'
    BY DEF StrictRunsAlone
  <2>9. ProcessRecorded'
    BY DEF ProcessRecorded
  <2> QED BY <2>1, <2>2, <2>3, <2>4, <2>5, <2>6, <2>7, <2>8, <2>9
<1> QED BY <1>1, <1>2, <1>3, <1>4

(* The signal of a Stop whose first half may be long past. *)
LEMMA StoppingStep ==
  ASSUME RunIInv, NEW s \in stops, StopSignals(s)
  PROVE  RunIInv'
<1> USE RunsAssumption, BootAssumption DEF RunIInv, RunTypeOK, Idle, Live,
       ActiveStatus, Outcomes, Ended, CloseStages
<1> USE DEF StopSignals, runVars, Interrupt, Writable, Signal
<1>1. RunTypeOK'
  OBVIOUS
<1>2. ProcessRecorded'
  BY DEF ProcessRecorded
<1>3. HandlesKept'
  BY DEF HandlesKept, Up, Own
<1>4. StarterSettled'
  BY DEF StarterSettled
<1>5. SupervisorSettled'
  BY DEF SupervisorSettled
<1>6. FailingSettled'
  BY DEF FailingSettled
<1>7. MaintenanceQuiet' /\ StartAlone' /\ StrictRunsAlone'
  BY DEF MaintenanceQuiet, Up, StartAlone, StrictRunsAlone
<1> QED BY <1>1, <1>2, <1>3, <1>4, <1>5, <1>6, <1>7

----------------------------------------------------------------------------
LEMMA RunInitInv == Init => RunIInv
<1> SUFFICES ASSUME Init PROVE RunIInv
  OBVIOUS
<1> USE RunsAssumption, BootAssumption DEF Init, Idle
<1>1. RunTypeOK
  BY DEF RunTypeOK, Outcomes, Ended, ActiveStatus, CloseStages
<1>2. ProcessRecorded /\ HandlesKept /\ SupervisorSettled
  BY DEF ProcessRecorded, HandlesKept, Up, Own, SupervisorSettled
<1>3. StarterSettled /\ FailingSettled /\ StartAlone
  BY DEF StarterSettled, FailingSettled, StartAlone
<1>4. MaintenanceQuiet /\ StrictRunsAlone
  BY DEF MaintenanceQuiet, Up, StrictRunsAlone
<1> QED BY <1>1, <1>2, <1>3, <1>4 DEF RunIInv

LEMMA RunNextInv == RunIInv /\ [Next]_vars => RunIInv'
<1> SUFFICES ASSUME RunIInv, [Next]_vars PROVE RunIInv'
  OBVIOUS
<1>1. CASE \E r \in Runs : RunSteps(r) \/ Announced(r)
  <2>1. PICK r \in Runs : RunSteps(r) \/ Announced(r)
    BY <1>1
  <2>2. CASE \E s \in stops : s.run = r /\ StopSignals(s)
    BY <2>2, StoppingStep
  <2>3. CASE Starting(r)
    BY <2>3, StartingStep
  <2>4. CASE Supervising(r) \/ Delete(r)
    BY <2>4, SupervisingStep
  <2>5. CASE TimeoutFires(r) \/ Timing(r)
    BY <2>5, TimingStep
  <2>6. CASE BeginStart(r) \/ BeginStop(r) \/ Exit(r)
    BY <2>6, RequestStep
  <2> QED BY <2>1, <2>2, <2>3, <2>4, <2>5, <2>6
          DEF RunSteps, Announced, Timing
<1>2. CASE ServiceSteps \/ Die
  BY <1>2, ClosingStep, ServiceStep DEF ServiceSteps
<1>3. CASE UNCHANGED vars
  <2> USE <1>3 DEF vars, RunIInv
  <2>1. RunTypeOK'
    BY DEF RunTypeOK
  <2>2. ProcessRecorded' /\ HandlesKept' /\ SupervisorSettled'
    BY DEF ProcessRecorded, HandlesKept, Up, Own, SupervisorSettled
  <2>3. StarterSettled' /\ FailingSettled' /\ StartAlone'
    BY DEF StarterSettled, FailingSettled, StartAlone
  <2>4. MaintenanceQuiet' /\ StrictRunsAlone'
    BY DEF MaintenanceQuiet, Up, StrictRunsAlone
  <2> QED BY <2>1, <2>2, <2>3, <2>4
<1> QED BY <1>1, <1>2, <1>3 DEF Next

(* The invariant implies the four invariants of the run. *)
LEMMA RunInvariants ==
  RunIInv => RunInv /\ EndedMeansGone /\ MaintenanceIdle /\ StrictRunsAlone
<1> SUFFICES ASSUME RunIInv
             PROVE  /\ RunInv /\ EndedMeansGone
                    /\ MaintenanceIdle /\ StrictRunsAlone
  OBVIOUS
<1> USE DEF RunIInv
<1>1. RunInv
  BY DEF RunInv, HandlesKept
<1>2. EndedMeansGone
  BY DEF EndedMeansGone, ProcessRecorded
<1>3. MaintenanceIdle
  BY RunsAssumption DEF MaintenanceIdle, MaintenanceQuiet, HandlesKept, Idle
<1> QED BY <1>1, <1>2, <1>3

(* No step changes a final status or takes a row away: what a final    *)
(* status is for, and what a follower relies on.                           *)
LEMMA StatusStep ==
  ASSUME RunIInv, [Next]_vars, NEW r \in Runs
  PROVE  /\ db[r] \in Ended => db'[r] = db[r]
         /\ db[r] # "none" => db'[r] # "none"
<1> USE RunsAssumption DEF RunIInv, RunTypeOK, Idle, Live, ActiveStatus,
       Outcomes, Ended, Writable
<1>1. CASE \E q \in Runs : Starting(q)
  <2>1. PICK q \in Runs : Starting(q)
    BY <1>1
  <2>2. CASE Insert(q)
    BY <2>2 DEF Insert, SetStatus, StarterSettled
  <2>3. CASE LaunchFails(q) \/ Killed(q)
    BY <2>3 DEF LaunchFails, Killed, FailStart, SetStatus, StarterSettled
  <2>4. CASE Persist(q)
    <3>1. \/ db[q] = "starting" /\ db' = [db EXCEPT ![q] = "running"]
          \/ db' = db
      BY <2>4 DEF Persist, SetStatus
    <3> QED BY <3>1
  <2>5. CASE Launch(q) \/ Activate(q) \/ Supervise(q)
    BY <2>5 DEF Launch, Activate, Supervise
  <2> QED BY <2>1, <2>2, <2>3, <2>4, <2>5 DEF Starting
<1>2. CASE \E q \in Runs : Supervising(q) \/ Delete(q)
  <2>1. PICK q \in Runs : Supervising(q) \/ Delete(q)
    BY <1>2
  <2>2. CASE WriteOutcome(q)
    BY <2>2 DEF WriteOutcome, SetStatus, SupervisorSettled
  <2>3. CASE RecordFailedStart(q)
    BY <2>3 DEF RecordFailedStart, SetStatus, FailingSettled
  <2>4. CASE Reaped(q) \/ ReadReason(q) \/ Release(q) \/ Delete(q)
    BY <2>4 DEF Reaped, ReadReason, Release, Delete
  <2> QED BY <2>1, <2>2, <2>3, <2>4 DEF Supervising
<1>3. CASE \E q \in Runs : TimeoutFires(q) \/ Timing(q)
  <2>1. PICK q \in Runs : TimeoutFires(q) \/ Timing(q)
    BY <1>3
  <2>2. db' = db \/ Interrupt(q, "timing_out")
    BY <2>1 DEF TimeoutFires, Timing, TimeoutSignals, GraceEnds
  <2> QED BY <2>2 DEF Interrupt
<1>4. CASE \E s \in stops : StopSignals(s)
  BY <1>4 DEF StopSignals, Interrupt
<1>5. CASE \E q \in Runs : BeginStart(q) \/ BeginStop(q) \/ Exit(q)
  BY <1>5 DEF BeginStart, BeginStop, Exit
<1>6. CASE Boot
  BY <1>6 DEF Boot
<1>7. CASE ServiceSteps /\ ~Boot
  BY <1>7 DEF ServiceSteps, EnterMaintenance, LeaveMaintenance, BeginClose,
       ClosingSteps, CloseAsks, CloseForces, CloseGivesUp, CloseReturns
<1>8. CASE Die \/ UNCHANGED vars
  BY <1>8 DEF Die, vars
<1> QED BY <1>1, <1>2, <1>3, <1>4, <1>5, <1>6, <1>7, <1>8
        DEF Next, RunSteps, Announced, Timing

----------------------------------------------------------------------------
(* RunInv: a service that works never loses a process it has started -     *)
(* the start in progress or the map of active runs has its handle - nor    *)
(* the lease of its files (manager.go, start, supervise and failStart).    *)
THEOREM ProcessesAlwaysKept == Spec => []RunInv
<1> QED BY RunInitInv, RunNextInv, RunInvariants, PTL DEF Spec

(* EndedMeansGone: when a row says how the run ended, its process is gone. *)
THEOREM EndedAlwaysGone == Spec => []EndedMeansGone
<1> QED BY RunInitInv, RunNextInv, RunInvariants, PTL DEF Spec

(* MaintenanceIdle: as long as the manager accepts no runs, nothing runs:  *)
(* EnterMaintenance looks under startMu, when no start is in progress.     *)
THEOREM MaintenanceAlwaysIdle == Spec => []MaintenanceIdle
<1> QED BY RunInitInv, RunNextInv, RunInvariants, PTL DEF Spec

(* StrictRunsAlone: two runs of a script that forbid overlapping are never *)
(* active together, though the check and the entry are steps apart.        *)
THEOREM StrictAlwaysAlone == Spec => []StrictRunsAlone
<1> QED BY RunInitInv, RunNextInv, RunInvariants, PTL DEF Spec

(* AdmissionHolds: what start and EnterMaintenance have looked at under    *)
(* startMu is still true when the run is in the map, or the update works.  *)
THEOREM AdmissionAlwaysHolds == Spec => []AdmissionHolds
<1>1. MaintenanceIdle /\ StrictRunsAlone => AdmissionHolds
  BY DEF AdmissionHolds
<1> QED BY <1>1, MaintenanceAlwaysIdle, StrictAlwaysAlone, PTL

(* No step - of a Stop or a timeout that was under way, of a supervisor, a *)
(* failed start or a restart - changes a final status.                     *)
THEOREM FinalAlwaysForGood ==
  Spec => [][\A r \in Runs : db[r] \in Ended => db'[r] = db[r]]_vars
<1>1. RunIInv /\ [Next]_vars =>
        [\A r \in Runs : db[r] \in Ended => db'[r] = db[r]]_vars
  BY StatusStep
<1> QED BY <1>1, RunInitInv, RunNextInv, PTL DEF Spec

----------------------------------------------------------------------------
(* RunManager implements RunLifecycle.                                     *)

StatusOf(x) == CASE x = "none" -> "new" [] x \in ActiveStatus -> "underway" [] OTHER -> x

(* A run that has no row, or whose process is about to be launched, has    *)
(* had no process yet.                                                     *)
Unspawned ==
  \A r \in Runs :
    db[r] = "none" \/ starter = [run |-> r, at |-> "launch"] => proc[r] = "none"

(* What a step does to rows and processes: nothing that can be seen from   *)
(* outside, or one thing to one run, or what a new service does.           *)
Unseen == proc' = proc /\ \A r \in Runs : StatusOf(db'[r]) = StatusOf(db[r])

Registers(r) ==
  db[r] = "none" /\ db' = [db EXCEPT ![r] = "starting"] /\ proc' = proc

Spawns(r) ==
  /\ db[r] \in ActiveStatus /\ proc[r] = "none"
  /\ proc' = [proc EXCEPT ![r] = "alive"] /\ db' = db

Ends(r) ==
  /\ db[r] \in ActiveStatus /\ proc[r] # "alive" /\ proc' = proc
  /\ \E o \in Outcomes : db' = [db EXCEPT ![r] = o]

Exits(r) ==
  /\ proc[r] = "alive"
  /\ proc' = [proc EXCEPT ![r] = "exited"] /\ db' = db

Disconnects ==
  /\ db' = [r \in Runs |-> IF db[r] \in ActiveStatus THEN "disconnected" ELSE db[r]]
  /\ proc' = proc

(* Every step is one of these.                                             *)
LEMMA VisibleStep ==
  ASSUME RunIInv, Unspawned, [Next]_vars
  PROVE  \/ Unseen \/ Disconnects
         \/ \E r \in Runs : Registers(r) \/ Spawns(r) \/ Ends(r) \/ Exits(r)
<1> USE RunsAssumption DEF RunIInv, RunTypeOK, Idle, Live, ActiveStatus, Outcomes
<1>u. db' = db /\ proc' = proc => Unseen
  BY DEF Unseen
<1>i. ASSUME NEW r \in Runs, NEW x \in ActiveStatus, Interrupt(r, x), proc' = proc
      PROVE  Unseen
  BY <1>i DEF Interrupt, Unseen, StatusOf
<1>f. ASSUME NEW r \in Runs, db[r] = "starting", proc[r] # "alive", FailStart(r),
             proc' = proc
      PROVE  Unseen \/ Ends(r)
  BY <1>f, <1>u DEF FailStart, SetStatus, Ends
<1>1. ASSUME NEW r \in Runs, Starting(r)
      PROVE  Unseen \/ Registers(r) \/ Spawns(r) \/ Ends(r)
  <2>1. CASE Insert(r)
    BY <2>1, <1>u DEF Insert, SetStatus, StarterSettled, Registers, hostVars
  <2>2. CASE Launch(r)
    BY <2>2 DEF Launch, StarterSettled, Unspawned, Spawns
  <2>3. CASE LaunchFails(r)
    BY <2>3, <1>f DEF LaunchFails, StarterSettled, hostVars
  <2>4. CASE Persist(r)
    <3>1. CASE db' = db
      BY <2>4, <3>1, <1>u DEF Persist
    <3>2. CASE db[r] = "starting" /\ db' = [db EXCEPT ![r] = "running"]
      BY <2>4, <3>2 DEF Persist, Unseen, StatusOf
    <3> QED BY <2>4, <3>1, <3>2 DEF Persist, SetStatus
  <2>5. CASE Killed(r)
    BY <2>5, <1>f DEF Killed, StarterSettled, hostVars
  <2>6. CASE Activate(r) \/ Supervise(r)
    BY <2>6, <1>u DEF Activate, Supervise, hostVars
  <2> QED BY <1>1, <2>1, <2>2, <2>3, <2>4, <2>5, <2>6 DEF Starting
<1>2. ASSUME NEW r \in Runs, Supervising(r) \/ Delete(r)
      PROVE  Unseen \/ Ends(r)
  <2>1. CASE WriteOutcome(r)
    <3>1. db[r] \in ActiveStatus /\ proc[r] # "alive" /\ outcome[r] \in Outcomes
      BY <2>1 DEF WriteOutcome, SupervisorSettled
    <3> QED BY <2>1, <3>1, <1>u DEF WriteOutcome, SetStatus, Ends, hostVars
  <2>2. CASE RecordFailedStart(r)
    BY <2>2, <1>u DEF RecordFailedStart, FailingSettled, SetStatus, Ends, hostVars
  <2>3. CASE Reaped(r) \/ ReadReason(r) \/ Release(r) \/ Delete(r)
    BY <2>3, <1>u DEF Reaped, ReadReason, Release, Delete, hostVars
  <2> QED BY <1>2, <2>1, <2>2, <2>3 DEF Supervising
<1>3. ASSUME NEW r \in Runs, TimeoutFires(r) \/ Timing(r) \/ BeginStart(r) \/ BeginStop(r)
      PROVE  Unseen
  <2>1. CASE TimeoutSignals(r)
    BY <2>1, <1>i DEF TimeoutSignals
  <2>2. CASE TimeoutFires(r) \/ GraceEnds(r) \/ BeginStart(r) \/ BeginStop(r)
    BY <2>2, <1>u DEF TimeoutFires, GraceEnds, BeginStart, BeginStop, hostVars
  <2> QED BY <1>3, <2>1, <2>2 DEF Timing
<1>4. ASSUME NEW s \in stops, StopSignals(s)
      PROVE  Unseen
  BY <1>4, <1>i, <1>u DEF StopSignals
<1>5. ASSUME NEW r \in Runs, Exit(r)
      PROVE  Exits(r)
  BY <1>5 DEF Exit, Exits
<1>6. CASE Boot
  BY <1>6 DEF Boot, Disconnects, hostVars
<1>7. CASE EnterMaintenance \/ LeaveMaintenance \/ BeginClose \/ ClosingSteps \/ Die
  BY <1>7, <1>u DEF EnterMaintenance, LeaveMaintenance, BeginClose, ClosingSteps,
     CloseAsks, CloseForces, CloseGivesUp, CloseReturns, Die, hostVars
<1>8. CASE UNCHANGED vars
  BY <1>8, <1>u DEF vars
<1> QED BY <1>1, <1>2, <1>3, <1>4, <1>5, <1>6, <1>7, <1>8
        DEF Next, RunSteps, ServiceSteps, Announced, Timing

(* Rows come first: no process before the row, none before the launch.     *)
LEMMA UnspawnedStep ==
  ASSUME RunIInv, Unspawned, [Next]_vars
  PROVE  Unspawned'
<1> USE RunsAssumption DEF RunIInv, RunTypeOK, Idle
<1>1. ASSUME NEW r \in Runs, db'[r] = "none"
      PROVE  proc'[r] = "none"
  <2>1. db[r] = "none" /\ proc[r] = "none"
    BY <1>1, StatusStep DEF Unspawned
  <2> QED
    BY <2>1, VisibleStep DEF Unseen, Disconnects, Registers, Spawns, Ends, Exits,
       ActiveStatus
<1>2. ASSUME NEW r \in Runs, starter' = [run |-> r, at |-> "launch"]
      PROVE  proc'[r] = "none"
  <2>1. ASSUME NEW q \in Runs, Starting(q)
        PROVE  proc'[r] = "none"
    <3>1. CASE Insert(q)
      <4>1. q = r /\ proc' = proc
        BY <1>2, <3>1 DEF Insert, hostVars
      <4> QED BY <3>1, <4>1 DEF Insert, StarterSettled, Unspawned
    <3>2. CASE ~Insert(q)
      BY <1>2, <2>1, <3>2 DEF Starting, Launch, LaunchFails, FailStart, Persist,
         Killed, Activate, Supervise
    <3> QED BY <3>1, <3>2
  <2>2. ASSUME starter' = starter, proc' = proc \/ \E q \in Runs : Exit(q)
        PROVE  proc'[r] = "none"
    BY <1>2, <2>2 DEF Unspawned, Exit
  <2>3. ASSUME starter' = Idle
        PROVE  FALSE
    BY <1>2, <2>3
  <2>4. ASSUME NEW q \in Runs,
               \/ Supervising(q) \/ Delete(q) \/ TimeoutFires(q) \/ Timing(q)
               \/ BeginStop(q)
        PROVE  starter' = starter /\ proc' = proc
    BY <2>4 DEF Supervising, Reaped, ReadReason, WriteOutcome, Release,
       RecordFailedStart, Delete, TimeoutFires, Timing, TimeoutSignals, GraceEnds,
       BeginStop, callVars, hostVars
  <2>5. ASSUME NEW q \in Runs, BeginStart(q)
        PROVE  FALSE
    BY <1>2, <2>5 DEF BeginStart
  <2>6. ASSUME NEW q \in Runs, Exit(q)
        PROVE  starter' = starter
    BY <2>6 DEF Exit, callVars
  <2>7. ASSUME NEW s \in stops, StopSignals(s)
        PROVE  starter' = starter /\ proc' = proc
    BY <2>7 DEF StopSignals
  <2>8. CASE Boot \/ Die
    BY <2>3, <2>8 DEF Boot, Die, Forgotten
  <2>9. CASE EnterMaintenance \/ LeaveMaintenance \/ BeginClose \/ ClosingSteps
    BY <2>2, <2>9 DEF EnterMaintenance, LeaveMaintenance, BeginClose, ClosingSteps,
       CloseAsks, CloseForces, CloseGivesUp, CloseReturns, callVars, hostVars
  <2>10. CASE UNCHANGED vars
    BY <2>2, <2>10 DEF vars
  <2> QED BY <2>1, <2>2, <2>4, <2>5, <2>6, <2>7, <2>8, <2>9, <2>10
          DEF Next, RunSteps, ServiceSteps, Announced, Timing
<1> QED BY <1>1, <1>2 DEF Unspawned

(* What is seen from outside is a step of RunLifecycle, or a stutter.      *)
LEMMA LifecycleStep ==
  ASSUME RunIInv, Unspawned, [Next]_vars
  PROVE  [Lifecycle!Next]_Lifecycle!vars
<1> DEFINE S == [r \in Runs |-> StatusOf(db[r])]
           T == [r \in Runs |-> StatusOf(db'[r])]
<1> USE DEF Lifecycle!Next, Lifecycle!vars
<1>0. RunTypeOK
  BY DEF RunIInv
<1>1. CASE Unseen
  <2>1. S = T /\ proc' = proc
    BY <1>1 DEF Unseen
  <2> QED BY <2>1 DEF StatusOf
<1>2. CASE Disconnects
  <2>1. Lifecycle!LoseTrack
    <3>1. T = [r \in Runs |-> IF S[r] = "underway" THEN "disconnected" ELSE S[r]]
      BY <1>0, <1>2 DEF Disconnects, StatusOf, ActiveStatus, RunTypeOK, Ended, Outcomes
    <3> QED BY <1>2, <3>1 DEF Lifecycle!LoseTrack, Disconnects, StatusOf
  <2> QED BY <2>1
<1>3. ASSUME NEW r \in Runs, Registers(r)
      PROVE  Lifecycle!Register(r)
  <2>1. S[r] = "new" /\ T = [S EXCEPT ![r] = "underway"]
    BY <1>0, <1>3 DEF Registers, StatusOf, ActiveStatus, RunTypeOK
  <2> QED BY <1>3, <2>1 DEF Lifecycle!Register, Registers, StatusOf
<1>4. ASSUME NEW r \in Runs, Spawns(r)
      PROVE  Lifecycle!Spawn(r)
  <2>1. S[r] = "underway" /\ T = S
    BY <1>0, <1>4 DEF Spawns, StatusOf, ActiveStatus
  <2> QED BY <1>4, <2>1 DEF Lifecycle!Spawn, Spawns, StatusOf
<1>5. ASSUME NEW r \in Runs, Exits(r)
      PROVE  Lifecycle!Exit(r)
  <2>1. T = S
    BY <1>5 DEF Exits
  <2> QED BY <1>5, <2>1 DEF Lifecycle!Exit, Exits, StatusOf
<1>6. ASSUME NEW r \in Runs, Ends(r)
      PROVE  Lifecycle!End(r)
  <2>1. PICK o \in Outcomes : db' = [db EXCEPT ![r] = o]
    BY <1>6 DEF Ends
  <2>2. S[r] = "underway" /\ T = [S EXCEPT ![r] = o]
    <3>1. StatusOf(o) = o
      BY DEF StatusOf, ActiveStatus, Outcomes
    <3>2. S[r] = "underway"
      BY <1>6 DEF Ends, StatusOf, ActiveStatus
    <3>3. \A q \in Runs : db'[q] = IF q = r THEN o ELSE db[q]
      BY <1>0, <2>1 DEF RunTypeOK
    <3>4. \A q \in Runs : StatusOf(db'[q]) = IF q = r THEN o ELSE StatusOf(db[q])
      BY ONLY <3>1, <3>3
    <3> QED BY ONLY <3>2, <3>4
  <2> QED BY <1>6, <2>2 DEF Lifecycle!End, Ends, StatusOf
<1> QED BY VisibleStep, <1>1, <1>2, <1>3, <1>4, <1>5, <1>6

(* ImplementsLifecycle: starts, stops, timeouts, Close, crashes and        *)
(* restarts together do no more than RunLifecycle allows.                  *)
THEOREM ManagerImplementsLifecycle == Spec => ImplementsLifecycle
<1>1. Init => Unspawned
  BY DEF Init, Unspawned
<1>2. Init => Lifecycle!Init
  <2>1. StatusOf("none") = "new"
    BY DEF StatusOf, ActiveStatus
  <2>2. Init => /\ proc = [r \in Runs |-> "none"]
                /\ \A r \in Runs : db[r] = "none"
    BY DEF Init
  <2>3. Init => [r \in Runs |-> StatusOf(db[r])] = [r \in Runs |-> "new"]
    BY ONLY <2>1, <2>2
  <2> QED BY <2>2, <2>3 DEF Lifecycle!Init, StatusOf
<1> QED
  BY <1>1, <1>2, RunInitInv, RunNextInv, UnspawnedStep, LifecycleStep,
     PTL DEF Spec, ImplementsLifecycle, Lifecycle!Spec

----------------------------------------------------------------------------
(* Every step of RunFollow is one of RunManager, or leaves it alone. *)
LEMMA FollowStep == FollowNext => [Next]_vars
<1> SUFFICES ASSUME FollowNext PROVE [Next]_vars
  OBVIOUS
<1>1. CASE \E r \in Runs : \/ RunSteps(r) /\ UNCHANGED followVars
                          \/ Announce(r) \/ Output(r)
  BY <1>1 DEF Next, Announce, Output
<1>2. CASE ServiceSteps /\ UNCHANGED followVars
  BY <1>2 DEF Next
<1>3. CASE Fall
  BY <1>3 DEF Next, Fall
<1>4. CASE \E f \in Followers : \/ \E r \in Runs : Follow(f, r)
                               \/ FollowSteps(f) \/ HangUp(f)
  BY <1>4 DEF Follow, FollowSteps, HangUp, Read, ReadStatus, ReadRest, Look,
       Woken, Polled
<1> QED BY <1>1, <1>2, <1>3, <1>4 DEF FollowNext

(* What reading the log does to the record of a follower. *)
LEMMA SeenStep ==
  ASSUME FollowTypeOK, NEW f \in Followers, NEW l \in Following \cup {"done"},
         follow[f].at \in Following, Seen(f, l)
  PROVE  /\ follow' \in [Followers -> {Away} \cup
              [at : Following \cup {"done"}, run : Runs, seen : 0..MaxEvents]]
         /\ follow'[f].at = l
         /\ follow'[f].run = follow[f].run
         /\ follow'[f].seen = log[follow[f].run]
         /\ \A g \in Followers : g # f => follow'[g] = follow[g]
<1> DEFINE old == follow[f]
           new == [old EXCEPT !.at = l, !.seen = log[old.run]]
           Steady == [at : Following \cup {"done"}, run : Runs, seen : 0..MaxEvents]
<1>1. old \in Steady /\ log[old.run] \in 0..MaxEvents
  BY DEF FollowTypeOK, Away, Following
<1>2. new \in Steady /\ new.at = l /\ new.run = old.run /\ new.seen = log[old.run]
  BY <1>1
<1>3. /\ follow' = [follow EXCEPT ![f] = follow'[f]] /\ follow'[f] = new
      /\ \A g \in Followers : g # f => follow'[g] = follow[g]
  BY DEF Seen, FollowTypeOK
<1> HIDE DEF new, old
<1> QED BY <1>2, <1>3 DEF FollowTypeOK, old

(* A follower's own step. *)
LEMMA FollowerStep ==
  ASSUME RunIInv, RunIInv', UNCHANGED vars, FollowIInv, NEW f \in Followers,
         (\E r \in Runs : Follow(f, r)) \/ FollowSteps(f) \/ HangUp(f)
  PROVE  FollowIInv'
<1> USE RunsAssumption, EventsAssumption DEF FollowIInv, FollowTypeOK, Away,
       Following, vars
<1>0. RunTypeOK' /\ \A r \in Runs : db[r] \notin {"none"} \cup ActiveStatus
                                      => db[r] \in Ended
  BY DEF RunIInv, RunTypeOK
<1>1. CASE \E r \in Runs : Follow(f, r)
  BY <1>0, <1>1 DEF Follow
<1>2. CASE Read(f)
  BY <1>0, <1>2, SeenStep DEF Read
<1>3. CASE ReadStatus(f)
  BY <1>0, <1>3 DEF ReadStatus, Step
<1>4. CASE ReadRest(f)
  BY <1>0, <1>4, SeenStep DEF ReadRest
<1>5. CASE Look(f)
  BY <1>0, <1>5 DEF Look, Step
<1>6. CASE Woken(f)
  BY <1>0, <1>6 DEF Woken, Step
<1>7. CASE Polled(f)
  BY <1>0, <1>7 DEF Polled, Step
<1>8. CASE HangUp(f)
  BY <1>0, <1>8 DEF HangUp
<1> QED BY <1>1, <1>2, <1>3, <1>4, <1>5, <1>6, <1>7, <1>8 DEF FollowSteps

(* A step of the run manager: the log of a run that is over stays as it is.*)
LEMMA FollowManagerStep ==
  ASSUME RunIInv, RunIInv', [Next]_vars, FollowIInv, UNCHANGED follow,
         UNCHANGED log \/ \E r \in Runs : Output(r),
         token' \subseteq Runs
  PROVE  FollowIInv'
<1> USE EventsAssumption DEF FollowIInv, FollowTypeOK, Away
<1>0. RunTypeOK /\ RunTypeOK' /\ SupervisorSettled
  BY DEF RunIInv
<1>1. \A f \in Followers : follow[f].at # "away" => follow[f].run \in Runs
  BY DEF Following
<1>2. log' \in [Runs -> 0..MaxEvents]
  BY DEF Output
<1>3. \A r \in Runs : db[r] \in Ended => log'[r] = log[r]
  BY <1>0 DEF Output, SupervisorSettled, Live, Ended, Outcomes
<1>4. \A r \in Runs : /\ db[r] \in Ended => db'[r] \in Ended
                      /\ db[r] # "none" => db'[r] # "none"
  BY StatusStep
<1> QED BY <1>0, <1>1, <1>2, <1>3, <1>4

LEMMA FollowNextInv ==
  RunIInv /\ FollowIInv /\ [FollowNext]_allVars => RunIInv' /\ FollowIInv'
<1> SUFFICES ASSUME RunIInv, FollowIInv, [FollowNext]_allVars
             PROVE  RunIInv' /\ FollowIInv'
  OBVIOUS
<1>1. [Next]_vars
  BY FollowStep DEF allVars
<1>2. RunIInv'
  BY <1>1, RunNextInv
<1>3. token \subseteq Runs
  BY DEF FollowIInv, FollowTypeOK
<1>4. CASE \E r \in Runs : RunSteps(r) /\ UNCHANGED followVars
  BY <1>1, <1>2, <1>3, <1>4, FollowManagerStep DEF followVars
<1>5. CASE \E r \in Runs : Announce(r) \/ Output(r)
  <2>1. PICK r \in Runs : Announce(r) \/ Output(r)
    BY <1>5
  <2>2. /\ token' \subseteq Runs /\ UNCHANGED follow
        /\ UNCHANGED log \/ Output(r)
    BY <1>3, <2>1 DEF Announce, Output, Wake
  <2> QED BY <1>1, <1>2, <2>2, FollowManagerStep
<1>6. CASE ServiceSteps /\ UNCHANGED followVars
  BY <1>1, <1>2, <1>3, <1>6, FollowManagerStep DEF followVars
<1>7. CASE Fall
  BY <1>2, <1>7 DEF Fall, FollowIInv, FollowTypeOK, Away, RunIInv
<1>8. CASE \E f \in Followers : \/ \E r \in Runs : Follow(f, r)
                               \/ FollowSteps(f) \/ HangUp(f)
  <2>1. UNCHANGED vars
    BY <1>8 DEF Follow, FollowSteps, HangUp, Read, ReadStatus, ReadRest, Look,
         Woken, Polled
  <2> QED BY <1>2, <1>8, <2>1, FollowerStep
<1>9. CASE UNCHANGED allVars
  BY <1>1, <1>2, <1>3, <1>9, FollowManagerStep DEF allVars, followVars
<1> QED BY <1>2, <1>4, <1>5, <1>6, <1>7, <1>8, <1>9 DEF FollowNext

(* Followers only look on: the run manager with its wake-up channel and    *)
(* its followers behaves as the run manager of RunManager does, with the   *)
(* same fairness, so that all that holds of that one holds of this one.    *)
THEOREM FollowersOnlyLook == FollowSpec => FairSpec
<1>1. FollowInit => Init
  BY DEF FollowInit
<1>2. [FollowNext]_allVars => [Next]_vars
  BY FollowStep DEF allVars
<1> QED BY <1>1, <1>2, PTL DEF FollowSpec, FollowFairness, FairSpec, Spec

(* FollowInv: whoever was told that a run is over has been given all of    *)
(* its output (manager.go, FollowEvents), for any number of followers.     *)
THEOREM FollowersGetAll == FollowSpec => []FollowInv
<1>1. FollowInit => RunIInv /\ FollowIInv
  BY RunInitInv, RunsAssumption, EventsAssumption
     DEF FollowInit, FollowIInv, FollowTypeOK, Away, RunIInv
<1>2. FollowIInv => FollowInv
  BY DEF FollowIInv, FollowInv
<1> QED BY <1>1, <1>2, FollowNextInv, PTL DEF FollowSpec
=============================================================================
