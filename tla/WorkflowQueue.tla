--------------------------- MODULE WorkflowQueue ---------------------------
(***************************************************************************)
(* The durable queue of workflow runs: the tables workflow_runs,           *)
(* workflow_run_locks, workflow_resource_locks and workflow_steps, and the *)
(* repository operations on them (internal/workflow/queue.go).  The        *)
(* database handle allows one connection, so every operation is one atomic *)
(* step.  Any caller may invoke any operation at any time; the module      *)
(* WorkflowEngine says in which order the engine does.                     *)
(***************************************************************************)
EXTENDS Naturals

CONSTANTS
  Runs,          \* run identifiers: random, but ordered as SQLite orders text
  Labels,        \* resource (mutex) labels
  Nodes,         \* nodes of the workflow graph
  NoRun,         \* "no row for this label in workflow_resource_locks"
  LockSets,      \* the label sets the entries of this instance name
  MaxTime        \* bound on created_at

ASSUME RunsAssumption == Runs \subseteq Nat /\ NoRun \notin Runs
ASSUME LockSetsAssumption == LockSets \subseteq SUBSET Labels
ASSUME TimeAssumption == MaxTime \in Nat

VARIABLES
  status,   \* workflow_runs.status; "absent" before the row exists
  created,  \* workflow_runs.created_at, a reading of the wall clock
  wanted,   \* workflow_run_locks: the labels of the entry's snapshot
  holder,   \* workflow_resource_locks: label (the primary key) to run
  step,     \* workflow_steps.status by run and node
  ahead     \* history: the runs already queued when a run was enqueued

runVars == <<status, created, wanted, holder, ahead>>
queueVars == <<status, created, wanted, holder, step, ahead>>

EndStatus == {"succeeded", "failed", "cancelled"}
Owning == {"running", "cancelling", "needs_attention"}
RunStatus == {"absent", "queued"} \cup Owning \cup EndStatus

(* What FinishStep's callers pass.  *)
StepResult == {"succeeded", "failed", "skipped", "cancelled",
               "needs_attention", "retrying"}
StepStatus == {"absent", "pending", "dispatching", "running"} \cup StepResult

RunTypeOK ==
  /\ status \in [Runs -> RunStatus]
  /\ created \in [Runs -> 0..MaxTime]
  /\ wanted \in [Runs -> SUBSET Labels]
  /\ holder \in [Labels -> Runs \cup {NoRun}]
  /\ ahead \in [Runs -> SUBSET Runs]

QueueTypeOK == RunTypeOK /\ step \in [Runs -> [Nodes -> StepStatus]]

QueueInit ==
  /\ status = [r \in Runs |-> "absent"]
  /\ created = [r \in Runs |-> 0]
  /\ wanted = [r \in Runs |-> {}]
  /\ holder = [l \in Labels |-> NoRun]
  /\ step = [r \in Runs |-> [n \in Nodes |-> "absent"]]
  /\ ahead = [r \in Runs |-> {}]

----------------------------------------------------------------------------
(* Mutant: the tie-break on id is lost and ties count as earlier. *)
BeforeOrEqual(q, r) == created[q] <= created[r]

(* ORDER BY created_at, id *)
Before(q, r) ==
  \/ created[q] < created[r]
  \/ created[q] = created[r] /\ q < r

Queued == {r \in Runs : status[r] = "queued"}

HeldBy(r) == {l \in Labels : holder[l] = r}

(* UPDATE workflow_steps SET status='skipped' WHERE ... status='pending' *)
PendingSkipped(r) ==
  [step EXCEPT ![r] =
     [n \in Nodes |-> IF step[r][n] = "pending" THEN "skipped" ELSE step[r][n]]]

(* DELETE FROM workflow_resource_locks WHERE run_id = r *)
Released(r) == [l \in Labels |-> IF holder[l] = r THEN NoRun ELSE holder[l]]

(* A published workflow is enqueued with a fixed snapshot; created_at is   *)
(* the wall clock t, which may stand still or step backwards.              *)
Enqueue(r, W, t) ==
  /\ status[r] = "absent"
  /\ status' = [status EXCEPT ![r] = "queued"]
  /\ created' = [created EXCEPT ![r] = t]
  /\ wanted' = [wanted EXCEPT ![r] = W]
  /\ step' = [step EXCEPT ![r] = [n \in Nodes |-> "pending"]]
  /\ ahead' = [ahead EXCEPT ![r] = Queued]
  /\ UNCHANGED holder

(* Mutant: Claim ignores the held labels. *)
ConflictsWaitersOnly(r) ==
  {l \in wanted[r] : \E q \in Queued : l \in wanted[q] /\ Before(q, r)}

(* The conflict count of Claim: a label somebody holds, or a label an      *)
(* earlier queued run is waiting for.                                      *)
Conflicts(r) ==
  {l \in wanted[r] :
     \/ holder[l] # NoRun
     \/ \E q \in Queued : l \in wanted[q] /\ Before(q, r)}

Claim(r) ==
  /\ status[r] = "queued"
  /\ Conflicts(r) = {}
  /\ holder' = [l \in Labels |-> IF l \in wanted[r] THEN r ELSE holder[l]]
  /\ status' = [status EXCEPT ![r] = "running"]
  /\ UNCHANGED <<created, wanted, step, ahead>>

(* Mutant: every finish releases the labels. *)
FinishReleasing(r, s) ==
  /\ status[r] \in {"running", "cancelling", "queued"}
  /\ status' = [status EXCEPT ![r] = s]
  /\ holder' = Released(r)
  /\ step' = IF s = "succeeded" THEN step ELSE PendingSkipped(r)
  /\ UNCHANGED <<created, wanted, ahead>>

(* needs_attention keeps the labels; only success leaves pending steps.    *)
Finish(r, s) ==
  /\ status[r] \in {"running", "cancelling", "queued"}
  /\ status' = [status EXCEPT ![r] = s]
  /\ holder' = IF s = "needs_attention" THEN holder ELSE Released(r)
  /\ step' = IF s = "succeeded" THEN step ELSE PendingSkipped(r)
  /\ UNCHANGED <<created, wanted, ahead>>

(* Mutant: the status written is not one the other statements look for. *)
RequestCancelStopping(r) ==
  /\ status[r] = "running"
  /\ status' = [status EXCEPT ![r] = "stopping"]
  /\ UNCHANGED <<created, wanted, holder, step, ahead>>

(* Any other status is ErrConflict and changes nothing. *)
RequestCancel(r) ==
  /\ \/ /\ status[r] = "queued"
        /\ status' = [status EXCEPT ![r] = "cancelled"]
        /\ step' = PendingSkipped(r)
     \/ /\ status[r] = "running"
        /\ status' = [status EXCEPT ![r] = "cancelling"]
        /\ UNCHANGED step
  /\ UNCHANGED <<created, wanted, holder, ahead>>

(* One statement at engine start; locks and steps are left alone. *)
Recover ==
  /\ status' = [r \in Runs |->
       IF status[r] \in {"running", "cancelling"}
         THEN "needs_attention" ELSE status[r]]
  /\ UNCHANGED <<created, wanted, holder, step, ahead>>

(* Mutant: the labels are forgotten. *)
ResolveLeaking(r) ==
  /\ status[r] = "needs_attention"
  /\ status' = [status EXCEPT ![r] = "cancelled"]
  /\ UNCHANGED <<created, wanted, holder, step, ahead>>

(* The maintainer has looked at the host and gives the labels back. *)
ResolveAttention(r) ==
  /\ status[r] = "needs_attention"
  /\ status' = [status EXCEPT ![r] = "cancelled"]
  /\ holder' = Released(r)
  /\ UNCHANGED <<created, wanted, step, ahead>>

----------------------------------------------------------------------------
(* The step rows.  FinishStep is unconditional; the two operations that    *)
(* start an attempt are refused unless the run is still 'running'.         *)
BeginStep(r, n) ==
  /\ step[r][n] = "pending"
  /\ status[r] = "running"
  /\ step' = [step EXCEPT ![r][n] = "dispatching"]
  /\ UNCHANGED runVars

StepProcess(r, n) ==
  /\ step[r][n] = "dispatching"
  /\ step' = [step EXCEPT ![r][n] = "running"]
  /\ UNCHANGED runVars

RetryStep(r, n) ==
  /\ status[r] = "running"
  /\ step[r][n] # "absent"
  /\ step' = [step EXCEPT ![r][n] = "dispatching"]
  /\ UNCHANGED runVars

FinishStep(r, n, s) ==
  /\ step[r][n] # "absent"
  /\ step' = [step EXCEPT ![r][n] = s]
  /\ UNCHANGED runVars

SkipPending(r) ==
  /\ step' = PendingSkipped(r)
  /\ UNCHANGED runVars

(* The operations above change no column of runVars: to the queue they are *)
(* stuttering steps, and WorkflowEngine says when they happen.  Finish has *)
(* one caller, execute, which runs only after a successful Claim.          *)
QueueNext ==
  \/ \E r \in Runs :
       \/ \E W \in LockSets, t \in 1..MaxTime : Enqueue(r, W, t)
       \/ Claim(r)
       \/ \E s \in EndStatus \cup {"needs_attention"} :
            status[r] # "queued" /\ Finish(r, s)
       \/ RequestCancel(r)
       \/ ResolveAttention(r)
  \/ Recover

QueueSpec == QueueInit /\ [][QueueNext]_runVars

----------------------------------------------------------------------------
(* Properties *)

(* The lock table and the run table agree at every moment: a run that was  *)
(* claimed and whose outcome is not settled holds all its labels, every    *)
(* other run holds none.  A cancel before dispatch, a restart or an        *)
(* uncertain end must neither leak a label nor give one up early.          *)
LocksMatch ==
  \A r \in Runs : HeldBy(r) = IF status[r] \in Owning THEN wanted[r] ELSE {}

(* Runs that want the same label are claimed in the order they were        *)
(* enqueued (docs/WORKFLOW_DESIGN.md, failure and recovery): no run gets   *)
(* past one that was already waiting for a label it shares - provided the  *)
(* wall clock advanced in between, for created_at is all the order there   *)
(* is.                                                                     *)
NoOvertaking ==
  \A r \in Runs : status[r] \in Owning =>
    \A q \in ahead[r] :
      status[q] = "queued" /\ created[q] < created[r]
        => wanted[q] \cap wanted[r] = {}

(* Waiting is never circular: when no run owns anything, some queued run   *)
(* can be claimed, whatever their label sets and timestamps are.           *)
NoCircularWait ==
  Queued # {} /\ (\A r \in Runs : status[r] \notin Owning)
    => \E r \in Queued : Conflicts(r) = {}

(* The conflict count of Claim keeps the order of the queue, and yet lets  *)
(* somebody through: the two pull in opposite directions.                  *)
QueueFair == NoOvertaking /\ NoCircularWait

(* The tables implement atomic, exclusive ownership of label sets.         *)
Phase(s) ==
  CASE s = "absent" -> "new"
    [] s = "queued" -> "waiting"
    [] s \in Owning -> "owner"
    [] s \in EndStatus -> "done"

Locks == INSTANCE ResourceLocks
  WITH phase <- [r \in Runs |-> Phase(status[r])], claims <- wanted

ImplementsLocks == Locks!Spec
=============================================================================
