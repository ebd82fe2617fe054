# ScriptBoard in TLA+

ScriptBoard is a self-hosted board for files and scripts of one host: it stores
and runs scripts, runs workflows of scripts from a durable queue, fires
schedules and external triggers, and manages updates, backups and audit of
itself. This directory models the parts in which ordering, concurrency and
failure matter, checks them with TLC and proves what can be proved with TLAPS.
All paths below are relative to the repository's root.

Contents: [inventory](#inventory), [modules](#modules-and-code),
[runs](#runs), [bounds](#bounds), [fairness](#fairness), [proofs](#proofs),
[findings](#findings), [not modelled](#what-is-not-modelled), [plan](#plan).

## Inventory

Facts every component shares: there is one service process
(`internal/instancelock`), one SQLite database, and a handle that allows one
connection (`internal/store/sqlite`), so that a statement, and a transaction,
is atomic with respect to all others. Between two statements anything may
happen. Scripts are processes outside the service; a crash of the service may
leave them alive.

| component | state | operations | interacts with |
|---|---|---|---|
| workflow queue (`workflow/queue.go`) | tables `workflow_runs`, `workflow_run_locks`, `workflow_resource_locks`, `workflow_steps` | Enqueue, Claim, Finish, RequestCancel, Recover, ResolveAttention, BeginStep, StepProcess, FinishStep, SkipPending, RetryStep | engine and HTTP handlers call it |
| graph compilation (`workflow/graph.go`) | none: a function from graph to order | Compile | engine, publishing |
| workflow engine and executor (`workflow/engine.go`, `control.go`, `web/workflow_executor.go`) | one goroutine per claimed run, its local variables; the dispatch loop | Start, Close, dispatch, execute, executeNode, waitControl, Execute | queue (tables), run manager (StartOneTime, Stop, GetMetadata) |
| run manager (`runmanager/manager.go`) | table `runs`, map of active runs, `startMu`, `accepting`, timers, path leases | Start, StartOneTime, Stop, timeout, supervise, EnterMaintenance, LeaveMaintenance, Close, FollowEvents | processes, scheduler, triggers, engine, update |
| scheduler (`scheduler/manager.go`) | tables `schedules`, `schedule_triggers`; pause flag, loop goroutine | loop, fireDue, Update, SetEnabled, RunNow, PauseAndWait, Resume, reconcileMissed | run manager, update |
| runner host (`runnerhost/host.go`) | map of processes, capacity | accept, serve, remove, Close | run manager over a socket |
| external trigger, approval (`externaltrigger`, `externalapproval`, `web/external_interfaces.go`) | request and approval rows, staged uploads, completion files | request, stage, approve, reject, finalize, recover, reconcile | run manager |
| MCP ledger (`mcpcommand/ledger.go`) | table `mcp_idempotency` | claim, renew, complete, release | MCP server |
| update (`update/manager.go`, `helper.go`) | operation record with phases, installed files | prepare, hand over, switch, verify, confirm, roll back | run manager (maintenance), scheduler (pause), service manager |
| state backup (`statebackup`, `cmd/scriptboard/backup.go`) | State Root, the directory `.before-restore-<id>` beside it, a staging directory; outside: keys and checkpoint | create, inspect, restore, stage, recover-host | audit checkpoint, instance lock, bootstrap |
| host files (`hostfiles`) | cross-volume move journal, path leases | move, recover, lease | run manager |
| MySQL operations (`mysqlmanager`) | tables `mysql_operations`, `mysql_backups`; dumps; one context per operation | backup, restore, drop, clear, cancel, recover, delete a backup | Broker, MySQL server, shutdown |
| audit (`auditlog`, `auditcheckpoint`, `audit`) | hash chain with its anchor, checkpoint file | append, write, verify, retention | all |
| event forwarding (`securityevents`, `auditnotification`) | a directory of event files per channel, `email-cursor.json`; the wake-up channel, the failures in a row | Observe, Queue, poll, forward, signal | audit log (observer, table), a receiver over HTTPS |
| dashboards (`customdashboard`, `flowbuiltin`) | in-memory flow runs, cached results | run, refresh | run manager |
| workbench (`workbench`) | one document per user with a revision | compare-and-swap merge | HTTP |
| monitors, database and cluster clients, identity, secrets, platform services, UI | caches, rows | sampling, single statements | - |

What is hard, and what makes each component correct:

* **Workflow queue.** Claims of several runs, cancels and restarts meet on the
  lock table. Correct: labels are owned atomically and exclusively, never
  leaked, never given up early; runs that share a label keep their order; no
  circular waiting.
* **Workflow engine.** Every database call is a point where a user, a process,
  a shutdown or a crash may come in between; every call can fail. Correct: a
  run that gave its labels back has no process; nothing is launched twice; a
  claimed run always has somebody working on it; cancel and Close come to an
  end; joins, branches, failure edges and data links mean what they say.
* **Run manager.** Start, Stop, timeout, supervisor and Close each look at the
  map under the mutex and then act without it. Correct: no process is lost; a
  final status means no process and is final; one reason decides; Close and
  timeouts come to an end.
* **Scheduler and update.** The loop has read due rows and the pause flag
  before edits, pauses and crashes change them; the helper of an update may die
  at every step, and the service is started in whatever state it left. Correct:
  a due time fires at most once and is not made up for after an outage; from
  the hand-over on nobody starts a run; an ended operation has left release,
  executable and database in agreement; a service comes back.
* **External requests, command ledger.** Retries, lost answers, crashes and two
  administrators meet on rows that are read in one statement and written in
  another. Correct: an action takes effect at most once, and what the rows say
  of it is true.
* **Runner host.** Launches, failures, disconnects and Close of several
  connections share a table. Correct: no more processes than places, none
  without an entry, none left when Close has returned.
* **Moves between filesystems.** Four paths, a row and a process that may die
  between any two of them, and other programs. Correct: the source leaves only
  when the copy is in place, and a final row agrees with the disk.
* **MySQL operations.** A phase in SQLite follows what happens to a database
  elsewhere; its writes may fail or be too late, and a cancel or a restart may
  come at any moment. Correct: no data is destroyed before its safety backup is
  recorded, and the phase an operation ends in says what became of the database.
* **Audit chain.** Events, anchor, tail and a checkpoint in a file are changed
  at different times. Correct: nothing that stops in between looks like
  tampering at the next start.
* **Event forwarding.** Writer and sender share a directory without a lock and
  one slot of a channel; the poller's cursor is behind what it has queued.
  Correct: an event that was taken on is not lost by deaths, failures and a full
  outbox, the sender does not sleep over it, and emails keep their order.
* **Restore of a backup.** A row of renames without a journal, with the database
  first and the checkpoint, which is somewhere else, last; the command may fail
  or die between any two. Correct: the old state is not lost, a command that
  returns has done all or nothing, and the service works on no mixture.
* **The others** are listed with their reasons in `PROJECT.json` and under
  [not modelled](#what-is-not-modelled).

## Modules and code

| module | models | state | 
|---|---|---|
| `ResourceLocks` | nothing: the abstract specification of the queue | `phase`, `claims` |
| `WorkflowQueue` | the repository operations | the tables' columns as functions: `status`, `created`, `wanted` (`workflow_run_locks`), `holder` (`workflow_resource_locks`), `step`; and the history variable `ahead` |
| `WorkflowCompile` | `Compile`: Kahn's algorithm, one placing per step | `edges`, `counts`, `ready`, `order`, `result` as in the code |
| `WorkflowEngine` | engine, executor, the HTTP operations on runs; EXTENDS `WorkflowQueue` | `mode` of the service, `pc` and `mem` of each goroutine, `live`, `stopped`, `launches` of processes, counters `starts`, `faults` |
| `RunLifecycle` | nothing: what the run manager promises to those who start runs | `status`, `process` |
| `RunManager` | the run manager | `service` (with the stages of Close), `accepting`, `starter` (who holds `startMu`), `db` (`runs.status`), `active` and `terminal` (the map), `timer`, `stops` (Stop calls between mutex and signal), `sup`, `outcome`, `failing`, `snap`, `leases`, `proc`, `asked` |
| `RunFollow` | FollowEvents and the wake-up channel; EXTENDS `RunManager` | `log`, `token`, `follow` |
| `Scheduler` | loop, fireDue, edits, RunNow, pause, stop and start | `enabled`, `due` (`schedules`), `trigger` (`schedule_triggers`), `paused`, `loop`, `batch`, `item` (locals of fireDue), `manual`, `active`, `accepting`, `time`, `attended` |
| `UpdateOperation` | the helper, its rollback and recovery; start and validation of the service | `phase` (`operation.json`), `current` (`install.json`), `executable`, `database`, `snapshot`, `helper` (next step), `running`, `validating`, `faults` |
| `Maintenance` | the composition of both: apply requests, pause, hand-over, shutdown, power; EXTENDS both | `request`, `shutdown`, `power` |
| `CommandLedger` | one idempotency key | `ledgerRow`, `ledgerClock`, per call `callStage`, `callAt`, `callSeen`; history `executed` |
| `RequestOutcome` | nothing: what the external interface promises those who send requests | `fate`, `effects`, `told` |
| `ExternalRequests` | requests, approvals, uploads, completion files | `invocation`, `approval` (rows), `payload`, `completion` (files), `sender`, `decider` (handlers), `outcome`; history `effect` |
| `RunnerHost` | connections, the table, Close | `hostServing`, `hostKey`, `hostTable`, `hostProcess`, `hostPeer`, `hostClosing` |
| `CrossMove` | one move between filesystems and its recovery | `moveRow`, the trees `source`, `temporary`, `target`, `trash`, `mover` (next step), `cancelled`, `stopping`; history `touched`, `gaveUp` |
| `AuditChain` | append, checkpoint, retention, start and stop | `auditEvents`, `auditAnchor`, `auditTail`, `auditFile`, `auditExpired`, `auditService`, `auditTodo` |
| `DatabaseOperations` | the operations on one MySQL database | `dbContent`, the rows `opKind`, `opPhase`, `opSafe`, `opBackup`, the goroutine `opStep`, `opFile`, its context `opCancelled`, `opAsked`; `recovered`, `recoverStep`; history `opBefore`, `contested`, `discarded` |
| `StateRestore` | `backup restore` and `backup recover-host`, and the service before and after | `restoreRoot`, `restoreKept` and `restoreKeeping` (the directory with the old state), `restoreStage`, `restoreTrust` (outside State Root), the relation of checkpoint and restored log (`restoreCovered`, `restoreChanged`, `restoreLinked`), the command `restorer`, `restoreAt`, `restoreResult`, and `restoreService`; history `restoreTorn` |
| `SecurityEvents` | one channel of forwarded audit events: the service's, filled by an observer, or the Broker's, filled by a poller | `eventTail` (committed), `observing`, the poller `poller`, `pollerLast`, `pollerEvent` and its file `eventCursor`, `persisting` and `signalling` (Queue), `outbox`, `outboxStray`, the goroutine `senderAt`, `sending`, `senderFailures`, `senderWoken`; history `eventFirst`, `eventQueued`, `relayed` |
| `WorkflowQueue_proofs`, `WorkflowEngine_proofs` | theorems about the modules they are named after | |
| `RunManager_proofs` | theorems about `RunManager` and `RunFollow` | |
| `Maintenance_proofs` | theorems about `Maintenance` and the two modules it composes | |
| `Requests_proofs` | theorems about `ExternalRequests`, `CommandLedger` and `RunnerHost` | |
| `Operations_proofs` | theorems about `CrossMove` and `DatabaseOperations` | |
| `AuditTrust_proofs` | theorems about `AuditChain`, `StateRestore` and `SecurityEvents` | |
| `Core_proofs` | theorems about `WorkflowCompile`, and about `MCCore`: what is proved of a component holds of all of them side by side | |
| `MCCore` | the components that share no state with each other, side by side | `part`: the one that moves in this behaviour |
| `MC...` | instances for TLC | |

How to read them:

* `WorkflowQueue`: one operator per repository method; the guards are the
  `WHERE` clauses and early returns. An operation that is refused changes
  nothing and is not a step. Timestamps are readings of the wall clock and may
  repeat or go back; `ahead[r]` remembers who was queued when `r` was enqueued,
  to state the order without trusting the clock.
* `WorkflowEngine`: `pc[r]` names the next call of the goroutine of run `r`
  (the list is in the module's header). Every call has the outcomes it has in
  the code: it works, it fails because the context is cancelled (`mode =
  "closing"`; not for `context.Background()` calls), or it fails by itself
  (`Fault`, counted). Values, templates and outputs are abstracted to success,
  confirmed failure (`failed`), unresolvable inputs (`input`, not retried),
  `cancelled` and `ErrUncertain`. A `condition` node stands for every node that
  selects among its own outlets, an `AnyJoin` node for every `joinMode: any`.
  Graph, kinds and attempts are constants; `OrderAssumption` states of the
  order what `WorkflowCompile` establishes.
* The engine's processes are abstract: `Launch` is StartOneTime returning an
  identifier, `PollDone` is GetMetadata reporting `FinishedAt`. That a finished
  row means a finished process is part of what `RunLifecycle` promises.
* `RunManager`: a step is what happens under the mutex, one statement, or one
  signal. The write of a final status is retried until Close gives up, as in
  `retryRunStateWrite`. `asked` is the strongest signal a process was sent; a
  process may ignore the soft one. A signal the operating system refuses is not
  modelled. `disconnected` is what a restart makes of unfinished rows.
  The launcher's contract is an assumption (see below).
* `RunFollow`: the steps of `RunManager` that call `signalChanged` are grouped
  in `Announced`; here they also fill the channel.

* `Scheduler`: a schedule is due at every tick, so `spec.Next(t)` is `t + 1`;
  what is left of cron expressions is that the next time is later than now. The
  pause flag is read before `fireMu` is taken, as in `loop`. A step of
  `fireDue` is one statement or one call of the run manager.
* `UpdateOperation`: a step is one write or one call of the service manager.
  The previous release refuses a database the target has opened. Every step of
  the helper may fail or be the last one; `faults` counts both.
* `Maintenance`: the scheduler's state is lost and rebuilt whenever the service
  stops and starts (`SchedulerFollows`), whoever does it: the service manager,
  the helper, a power failure.
* `CommandLedger`: seconds are units of which a call takes at most `CallTime`
  and the window has `Window`.
* `ExternalRequests`: every handler's statements are steps. A client that goes
  away cancels the request's context, which makes its statements fail; that is
  why the completion file may be written at no cost of a fault, and why the
  deletion of an approval whose request could not be recorded may fail too.
* `CrossMove`: trees are known by what they contain compared with the scan.
  `stopping` is the broker's cancelled context: `Update(ctx)` fails then, and
  the writes that use `context.WithoutCancel` do not.
* `AuditChain`: the hash of event n is n, so that "the previous hash of the
  first event is the anchor" is arithmetic.
* `DatabaseOperations`: the content of a database is one of five values: no
  database, no tables, a part, what it held first, what the restored backup
  holds. A call or statement in the operation's context works, or fails at the
  cost of a fault, or fails for nothing once the context has ended; a failing
  call on the database leaves any state it may have passed through. The calls
  the code makes in a context of its own (the rollback, `cancelled`) cannot be
  cancelled. `opStep` names the next call of the goroutine. The unique index on
  active rows is part of every write of a phase (`Refused`). `AllDie`,
  `ServiceDies` and `BrokerRestarts` are the deaths of the two processes; the
  recovery belongs to the one that was started. Which process a backup belongs to
  is left open: any may be that of a plan, run by the Broker, and so may be begun
  or still be at work beside an operation of the service, whose own map of active
  operations does not know it.
* `StateRestore`: name 1 is `app.db`, the others stand for its companion files
  and the directories, and each is absent, old, new, or (the database that a
  service has created) empty. The checkpoint is the old one, the one the restore
  writes, or that of a new instance; whether the restored log holds the event of
  the old one is chosen, because a backup may be older than the checkpoint or
  not. A death leaves everything where it is, and what has been begun is
  forgotten. The removals that are deferred to the end of a failed command are
  assumed to succeed, and the checkpoint to name an event.
* `SecurityEvents`: an event is its id, and `eventNotifies` are the ones the
  channel takes. Queue is a row of steps, because the sender reads the directory
  without the mutex: a temporary file, the rename, the signal. An attempt to
  send may fail although the receiver has accepted the event. A death leaves the
  directory, the cursor and a temporary file. Reading the cursor at the start
  does not fail (the Broker would not start).

`RunManager` has one assumption about the launcher: when `Launch` returns an error
there is no process (`LaunchFails`), and `Wait` returns behind the exit
(`Reaped`, `Killed`). For the launcher of the same process that is so. The
client of the Runner Host keeps it but for a moment in two cases. If its
handshake of five seconds runs out while the host is starting the process
(`runnerhost/host.go:260-270`), or the connection is lost later
(`remote_process.go:36-40`, `:100-109`), the run is recorded as failed, and the
host kills the process only when its answer fails or it notices the end of the
connection (`host.go:134-153`); a host that is itself killed cannot. In that
window `RunInv`, `AdmissionHolds` and `ImplementsLifecycle` say less about the
installation than about the model: a process may live beside a failed row, and
beside the next run of its script. `RunnerHost` has the host's side, with peers
that go at any time; the two are not composed.

`Resolve` has one assumption about people: the maintainer releases a run that
needs attention only when its processes are gone, as `docs/WORKFLOW_USAGE.md`
asks; the code cannot check it.

## Runs

| run | instance | states | what it shows |
|---|---|---|---|
| `core` | nine components side by side, see the bounds | 1,251,000 | queue: `LocksMatch` (lock table and run table agree), `QueueFair` (no overtaking, and no circular wait). Compilation: `CompilesRight` (topological, and an error for exactly the cyclic graphs), and `LeastOrder` (the order equals a reference definition that does not mention the algorithm). Ledger: `OncePerWindow`. External requests: `OnceAndHonest` (an action takes effect at most once, and the records say what became of it), `ImplementsOutcome` (rows, files and handlers refine `RequestOutcome`: one fate, answers that tell it and stay). Runner host: `RunnersBounded`. Moves: `SourceLeavesLast`, `MoveSettled`. Audit: `CheckpointKept`. MySQL operations: `NothingLost`, `HonestOutcome`. Restore: `RestoreSafe` (the old state is kept, a command returns all or nothing, no mixture is served) |
| `locks` | 2 runs, 1 label, start-task, 2 attempts, 2 service starts, no faults | 207,000 | `EngineInv` (a claimed run has somebody working on it, and its labels), `ExclusiveProcesses` (no two processes for one label, none without its labels), `ImplementsQueue` (the engine uses the tables only as `QueueSpec` allows), `ImplementsLocks` (the tables, as the engine uses them, refine `ResourceLocks`); `CancelEnds`, `CloseEnds`, `QueuedEnds` |
| `graph` | 1 run, 9 nodes of all kinds, 1 fault, 2 starts | 18,900 | `InputsSettled`, `OneBranch`, `FailureSticks` (an ended run has no open step, and a handled failure still fails it), `LaunchesBounded`, `UncertainKept` (beside a process that may be alive, labels are given back only at the end of a cancelled run, and nothing of the run is launched) |
| `runmanager` | 2 runs of one script, both without overlap, one timed, 2 service starts | 545,000 | `RunInv` (no process without supervision), `AdmissionHolds` (no run during maintenance, no two where overlapping is forbidden), `ImplementsLifecycle` (the manager refines `RunLifecycle`: a row before a process, one process at most, one final status, written when the process is gone and never changed, and unknown only what a dead service left) |
| `following` | 1 timed run, 1 follower at a time; or a channel for 3 events, 3 places, 2 faults | 231,000 | `FollowInv` (no output is missed), `TimeoutEnds`, `CloseEnds`, `FollowerEnds`; `EventsKept` (nothing queued or passed is lost, emails in order, no sender asleep over a file), `EventsArrive` |
| `maintenance` | 1 schedule, 2 ticks, 1 edit, 1 apply request, 2 faults | 335,000 | `MaintenanceInv` (an ended operation has left what its phase says), `QuietUpdate`, `FireOnce`, `ServiceReturns` |
| `uncertain` | as `locks`, 1 fault | - | `ReleasedMeansStopped` is violated: finding 1 |
| `runmanager_close` | 1 run | - | `CloseStopsAll` is violated: finding 2 |
| `following_two` | 1 run, 2 followers | - | `FollowerEnds` is violated: finding 3 |
| `second_apply` | 2 apply requests, no faults | - | `QuietUpdate` is violated: finding 4 |
| `audit` | 3 events, 1 candidate that cannot be removed | - | `ChainVerifies` is violated: finding 5 |
| `move_restart` | 1 fault, deaths | - | `RecoveryConverges` is violated: finding 6 |

`MCCore` and `MCRunFollow` put components that share no variable into one run: the
variable `part` (`stream`) chooses the one that moves, so that the state space is the sum and not
the product of theirs, and every property speaks of its own component.

Each passing property has a mutant: an operator, defined just before the one it
replaces, that makes a plausible mistake and breaks the property in its own
run. All runs switch the deadlock check off, because the systems may stop: runs,
calls and requests are submitted at most once each, the service is started a
bounded number of times, a move comes to its end, and Compile returns.

## Bounds

* `Runs`: identifiers are used once. Three runs suffice for a run that waits
  for two others and for a tie in time; the engine needs two to have an owner
  and a waiter. In the run manager the second run is the one that must not
  overlap, or that starts while the first ends.
* `MaxTime` of the queue bounds `created_at` from 1: two values give earlier,
  equal and later, also out of step with the order of insertion. `MaxTime` of
  the scheduler: a time that is due, and one after it.
* `MaxFaults` bounds failing calls: one failure at every possible place.
  `locks` has none because after a failing last write a run really stays
  `running` without a goroutine (see the hazards); `graph` has one;
  `maintenance` has two, for a failure and the death of what cleans up after it.
* `MaxRestarts`, `MaxBoots` bound starts of the service: a start, and one
  recovery after a crash or Close at any point. `following` has one start.
* `MaxAttempts` are the node's configured attempts; `MaxEvents` bounds the
  output of a run, or the identifiers of audit events (five: two that expire,
  the checkpoint's, and two after it).
* `Ids`: four nodes are enough for self-loops, two-cycles, longer cycles,
  diamonds and disconnected parts.
* `Calls`: three, for two renewals of a row that a third has left behind;
  `LedgerTime` lets the window of three run out once. Three invocations: without
  approval, with one, and with an upload. Three connections for two places,
  asking for one run, two, or three.
* `MoveFaults`, `Outsiders`: two failing operations and two changes by other
  programs, in addition to any number of deaths of the broker.
* `LastOp`, `DbFaults`: two operations on a database, so that one begins while
  the goroutine of another is still there or its row still active; three faults
  (crashes, shutdowns, failing calls, deleted backups) for the first alone, one
  as soon as there is a second (`SecondAfterOne` of `MCCore`).
* `LastName`: the database and two others, so that there is one before, one
  after, and any of them may be absent in the old state or in the backup.
  `RestoreFaults`: the failure that begins a rollback, and a rename of the
  rollback that fails (`restoreTorn`, behind which nothing is claimed).
* `LastEvent`, `OutboxPlaces`, `Threshold`, `EventFaults`: three events, the first
  of which may be older than the cursor, for two that can be out of order; three
  places and two faults, so that temporary files of deaths and two events fill
  the outbox, and two refusals open the circuit. Deaths must be fewer than
  places: their files are never removed (see the observations).
* `MaxEdits`: one edit or disabling of a schedule at any moment.

The clock of retry delays, timeouts and grace periods is abstracted: a timer
may fire at any time once it is armed.

## Fairness

* Workflow engine: weak fairness of each goroutine and of the dispatch ticker
  (the Go scheduler), of Start and EndClose. A process that Stop was called for
  ends: the poll loop calls Stop again at every tick, and the second call
  forces. Nothing is assumed of processes nobody stopped; `QueuedEnds` states
  as a premise that processes end (nodes have timeouts) and that the maintainer
  answers. Cancels and Close have no such premise, except that `StaysDown`
  exempts the time after the last permitted start.
* Run manager: weak fairness of starts, supervisors, timers and Close, and of
  the exit of a process that was killed by force. Users, processes that were
  asked politely, and the death of the service are free.
* Followers: weak fairness of their calls; a browser may leave at any time.
* Event forwarding: weak fairness of Queue, poller and sender while their process
  is up; a receiver that is asked again and again answers in the end, because
  its refusals are faults and counted. Starts of the process are not assumed,
  and `EventsArrive` says nothing of one that is down.
* Update: weak fairness of the helper's next step, of the scheduler's loop, of
  requests that have been sent, of the exit the service was asked for, of
  SeeEnd (the validating service polls the operation), and of the return of
  power. An administrator is assumed to run "update recover" when there is no
  helper and the operation has not ended, or has ended without a service:
  without that `ServiceReturns` is false, as the code gives up (`failed_safe`
  before the old service has exited leaves nobody to start it again). The dead
  end `Stuck`, needs_recovery without a good snapshot, is named in the property.

## Proofs

`WorkflowQueue_proofs` proves, for any set of runs (natural numbers, standing
for the order of their identifiers), labels, label sets and clock bound:

* `QueueTypeCorrect` - `QueueSpec => []RunTypeOK`;
* `LocksAgree` - `QueueSpec => []LocksMatch`. `LocksMatch` is inductive with
  the types: Claim is guarded by an empty conflict set, so it takes no label
  away from anybody, and every operation that leaves `Owning` releases;
* `ClaimsInOrder` - `QueueSpec => []NoOvertaking`. The strengthening is
  `AheadKnown`: who is in `ahead[r]` has been submitted. A run that is queued
  and ahead was queued all the time, so that the claim of `r` saw it;
* `NeverCircular` - `QueueSpec => []NoCircularWait`. Among the queued runs
  there is a least one by time and identifier (`LeastNat`, from the
  well-foundedness of the natural numbers), and when no run owns anything
  `LocksMatch` says that no label is held, so its conflict set is empty;
* `QueueAlwaysFair` - both of these at once, as the run checks them;
* `Refinement` - `QueueSpec => ImplementsLocks`: initial states map to initial
  states, every action maps to Submit, Acquire, Leave or a stutter. Acquire's
  guard, that the labels of all owners are avoided, is where `LocksMatch` is
  needed;
* `LocksExclusive`, `OwnersShareNothing` - what `ResourceLocks` is worth: in
  whatever implements it, the owners' claims are disjoint. It is read off the
  abstract specification, and the refinement carries it to the tables.

Assumed are only the constants' assumptions named in `WorkflowQueue`
(`RunsAssumption`, `LockSetsAssumption`, `TimeAssumption`), which TLC evaluates
in every run of the module.

`Core_proofs` proves of `WorkflowCompile`, for any finite set of nodes
(`IdsAssumption`) and any graph over it:

* `Sorts` - the loop invariant `SortInv`: the counter of a node is the number of
  its predecessors that are not placed, the ready nodes are the unplaced ones
  without such a predecessor, as many nodes are placed as the order is long,
  and the order so far is topological. The last conjunct is needed for the
  third: a node that is freed cannot have been placed before;
* `SortTypeCorrect`, `OrderIsTopological` - parts of that invariant;
* `RefusesCyclesOnly` - `CompileSpec => []RejectsExactlyCycles`: in a complete
  order the first node of a set that waits for itself would stand too early; the
  nodes that are left when none is ready are such a set;
* `CompilesAlwaysRight` - `CompileSpec => []CompilesRight`, the two together;
* `OrderIsLeast` - `CompileSpec => []Deterministic`: every node is the least of
  those that could stand in its place, so that the order is a function of the
  graph;
* `OrderIsFirst` - `CompileSpec => []LeastOrder`: where another order that
  respects the edges first differs from Compile's, its node could have stood in
  that place too, and is the greater one (`FirstInDictionary`, the least place
  by the well-foundedness of the natural numbers).

Of `MCCore` it proves, for every value of the constants and not only those of the
run, that the composition implements the specification of each component
(`ComponentsKept`: a step of it is a step of one of them, and a stutter of the
others); hence `CoreTypeCorrect` - `CoreSpec => []CoreTypeOK`, for which every
component has its type theorem - and `PromisesCompose`, the conjunction of all
that the run `core` checks and of the refinement of `ResourceLocks`.

`WorkflowEngine_proofs` proves, for any set of runs, labels and label sets, any
graph with an order that Compile can return (`GraphAssumption`,
`OrderAssumption`), and any number of failing calls, crashes and starts:

* `InputsAlwaysSettled`, `AlwaysOneBranch`, `FailureAlwaysSticks`,
  `LaunchesAlwaysBounded` - the four properties of the run `graph`. What makes
  them inductive is that the memory of the goroutine agrees with the tables,
  one run at a time, `Local(r)`: what lies `Behind` the place in the order has
  the outcome that is remembered, what lies `Ahead` has not been touched, `Here`
  is the row of the node at hand for each call of the goroutine, `Counted` its
  attempts and launches, `Judged` what a verdict presupposes, and `Chosen` says
  that a dispatched node was activated by routes that exclude each other. The
  actions are first reduced to a few shapes (`Moves`, `Opens` and others: what
  they write about a run), and each shape has one lemma;
* `EngineImplementsQueue` - `Spec => ImplementsQueue`: every step of the engine
  is a step of `QueueSpec` on the tables, or leaves them alone. With
  `LocksAgree` this gives `EngineLocksMatch`, and with the refinement of the queue
  `EngineImplementsLocks` and `OwnersExclusive`: goroutines, processes, failing
  calls, Close and crashes included, the engine is a `ResourceLocks`;
* `EngineAlwaysSound`, `ProcessesExclusive` - `Spec => [](faults = 0 => EngineInv)`
  and the same for `ExclusiveProcesses`. The hypothesis is that no call has
  failed by itself so far; crashes, Close and cancels are not excluded. It is not for the
  proof: finding 1 and the run `uncertain` show that one failing look-up frees
  the labels of a live process, and a failing last write leaves a run claimed
  and unattended. The run `locks`, which checks both, has no faults for the same
  reason. The invariant adds `Attended` (a claimed run has its goroutine), `Watched` (a
  process outlives the call that waits for it only on the way to
  `needs_attention`) and `OneEach`;
* `UncertainAlwaysKept` - `Spec => UncertainKept`, without that hypothesis: what
  is left of the promise when calls do fail. The invariant `Accounted` says for
  every process why it may be there: the goroutine of its run has just started it
  or polls it; or has lost sight of it, and does not know how it ended; or writes
  the verdict `needs_attention`; or there is no goroutine, and the run is not
  queued; or its user has asked to cancel it and the goroutine is on its way out
  (`Parting`).
  No action but the launch adds a process, and the launch is of a goroutine that
  has none. The end of a cancelled run is then the only step that frees labels
  under a process: finding 1 is not one of several ways, it is the only one.

`RunManager_proofs` proves, for any set of runs, scripts and followers, and any
number of starts of the service, all safety properties of the runs `runmanager`
and `following` about the run manager: `ProcessesAlwaysKept` (`[]RunInv`),
`EndedAlwaysGone` (a final status means no process), `MaintenanceAlwaysIdle`,
`StrictAlwaysAlone`, both at once as the run has them (`AdmissionAlwaysHolds`),
`FinalAlwaysForGood` (no step changes a final status),
`ManagerImplementsLifecycle` (`Spec => ImplementsLifecycle`) and
`FollowersGetAll` (`[]FollowInv`).
They share one invariant, `RunIInv`: a live process has a row that is not final
(`ProcessRecorded`) and a handle in the start in progress or the map
(`HandlesKept`); the start that holds `startMu` has its run to itself and knows
its status (`StarterSettled`), so has a supervisor until it has written
(`SupervisorSettled`); what was looked at under the mutex stays true while the
start goes on without it (`MaintenanceQuiet`, `StartAlone`). `FollowIInv` adds
that the last reading of a follower begins after the row was final, when the
output does not grow any more. The refinement shows that every step does one of
a few things to rows and processes (`VisibleStep`), each of which is a step of
`RunLifecycle` or a stutter; it needs besides that a run without a row, and the
start before its launch, have had no process (`Unspawned`).
`FollowersOnlyLook` - `FollowSpec => FairSpec` - carries all of this, and the
liveness that is checked of the run manager, over to the composition with the
wake-up channel and the followers.

`Maintenance_proofs` proves, for any set of schedules, requests, times, edits
and faults of `Maintenance`:

* `EndAlwaysMeansState` - `MaintenanceSpec => []MaintenanceInv`. `ReleaseInv`
  says what each phase tells of the three places (`FilesOfPhase`), how far the
  helper has brought them when it is about to take a step (`FilesOfHelper`), and
  which steps belong to which phase (`HelperOfPhase`);
* `FiresOnlyOnce` - `MaintenanceSpec => FireOnce`. `TriggerInv` relates what the
  loop has read to what has happened since: a trigger is older than what its
  schedule is due for (`Fresh`), the one in hand is pending (`Reserved`), and
  nothing is due for a time the service was away (`Clock`, `Punctual`), because
  a start sets it anew; disabled schedules are excepted, as in the property;
* `QuietWhenApart` - `MaintenanceSpec /\ []OneAtATime => []QuietUpdate`, and
  `QuietWhenAskedOnce`, without that hypothesis for at most one request, as in
  the run `maintenance`. `OneAtATime` says that apply requests do not meet, nor
  follow a hand-over; the code does not see to it, and finding 4 is a behaviour
  that needs exactly its negation. `ServiceInv` says what a stopped and a
  validating service cannot be in the middle of.

`Requests_proofs` holds three components. Of `ExternalRequests` it proves, for
any set of requests, uploads and failing statements (`ExternalAssumption`), and
any number of crashes:

* `NeverActsTwice` - `ExtSpec => []ActsOnce`;
* `RecordsAreTrue` - `ExtSpec => []HonestRecords`;
* `AlwaysOnceAndHonest` - both of these at once, as the run checks them.

Neither is inductive: the rows say nothing of a handler that is between two of
its writes. `ExtInv` adds what orders them. `Known`: the effect is what the
handler knows (`outcome`), and a result in a row or a file is that outcome.
`DirectInOrder`: a request without an approval has a row before it acts.
`ApprovedInOrder`: a decider is at work only while the approval is `processing`,
which nobody else can enter from `processing`, and the two rows leave that state
in one transaction. `Idle`: no handler is at work before the start is complete.
Every action has a lemma; what it does to the other requests is `Untouched`.

On top of that invariant, `RequestsImplementOutcome` proves `ExtSpec =>
ImplementsOutcome`: every step opens, settles, answers or disclaims requests, or
leaves what can be seen of them alone (`Visible`), and each of these is a step of
`RequestOutcome`. An approval is settled before its request's own row is written
when an administrator is quick, which is why `Settle` does not ask for an
accepted request. `OutcomeAnswers` proves of `RequestOutcome` that answers are
true and final, and `AnswersStay` states the latter of the rows.

`AuditTrust_proofs` proves `CheckpointAlwaysKept` - `AuditSpec =>
[]CheckpointKept`, for any number of events and of rows that cannot be removed
(`AuditAssumption`). The strengthening says where retention works: its
candidates lie before the checkpoint (`Retained`), and as long as none was
skipped they are the beginning of the chain (`Oldmost`), so that the anchor
moves to the event before the first one left. That an oldest candidate exists
(`OldestFirst`) is the well-foundedness of the natural numbers.

It also proves `RestoreAlwaysSafe` - `RestoreSpec => []RestoreSafe`, for any
number of names, failing calls and deaths (`RestoreAssumption`). `RestoreInv`
says of every name at which of two places it is (`KeptApart`), how far the
exchange has come at each step of the command (`Progress`), what the trust
material tells of it (`TrustFollows`), and what a command that has returned and
a service that has started leave behind (`Returned`, `Served`). The order of the
renames is what makes it inductive: `app.db` is the first to leave and the last
to come back, so that an old database means a whole old state, and a service
that finds the old checkpoint and another database does not start.

And it proves `EventsAlwaysKept` - `SecurityEventsSpec => []EventsKept`, for any
number of events, places, failures and deaths (`SecurityEventsAssumption`).
`Spooled` follows an event from the file to the receiver, `CursorBehind` says
that the poller deals with the event behind its cursor, and `InOrder` that no
file is ahead of that one and the sender works on the first: so an event before
the one that is sent is behind the cursor, kept, and not in the outbox any more.

Of `RunnerHost`, `Requests_proofs` proves `RunnersAlwaysBounded` - `HostSpec =>
RunnersBounded`, for any connections, runs and table size. `HostInv` ties every
stage of a connection to its entry (`HasEntry`), says that a `Launching` entry
belongs to one connection (`Apart`), and that the table is finite and within its
size (`Fits`).

Of `CommandLedger` it proves `ExecutesOncePerWindow` - `LedgerSpec =>
[]OncePerWindow`, for any number of calls and a window longer than a call. What
a call has read is stale by one call's time at most (`Timely`); a call that may
execute is the only one, and the row is its own (`OwnsRow`); the row of a call
that has executed stays until its window is over (`Guarded`).

Of `CrossMove`, `Operations_proofs` proves `RowsAgree` (`[]MoveSettled`) and `SourceAlwaysLast`
(`SourceLeavesLast`), for any number of faults, crashes and changes by other
programs, and its types (`MoveTypeCorrect`). The invariant says where the trees
can be whoever works (`Trees`), what the mover knows at its step (`Moves`), and
what the row means at any time (`Rows`), which is all that recovery has to go by.
The same invariant gives `RowsFinal`: a row that says how the move ended is never
written again, not by a late write of the mover and not by a recovery.

Of `DatabaseOperations` it proves `NeverLost` - `DbSpec => []NothingLost`, for
any number of operations and faults. The invariant `Kept` follows the first data
from the database through the dump to the row of the backup: whoever is about to
change the database, an operation or the recovery, has it `Covered`; the row of
an operation's backup is written once (`BeforeRecord`); and what is covered stays
so, because a deletion is remembered. Nothing is assumed about who works at the
same time, so that it also holds for a Broker that recovers a live operation.

And it proves `OutcomesHonest` - `DbSpec => []HonestOutcome`. The invariant
holds as long as the recovery has taken up no operation that is at work
(`~contested`, the hypothesis that `HonestOutcome` itself names): operations
begin in the order of their numbers (`Numbered`), whoever works has the active
row, and that is the latest one (`OneActive`, where the unique index is needed),
so that between two steps of a goroutine nobody else changes the database, and
`AtStep` can say what the goroutine relies on at each of its calls and
`Recovering` the same of the recovery. The row of an older operation says
nothing any more, its database has changed since. As nobody but the holder of the
active row, or the recovery that has taken it up, writes a phase, the phase an
operation has ended with stays (`EndsStay`, under the same condition).

Model-checked only: the liveness properties (`CancelEnds`, `CloseEnds`,
`QueuedEnds`, `TimeoutEnds`, `FollowerEnds`, `EventsArrive`, `ServiceReturns`),
and with them everything that rests on fairness and `ENABLED`, which are out of
the prover's reach. Every invariant, action property and refinement that a
passing run checks has its theorem. That the states of a violation run are
reachable is shown by TLC alone.

## Findings

1. **A cancel request hides an uncertain end** (`internal/workflow/engine.go:291-296`).
   The engine loses sight of a process (a failing look-up), the run is being
   cancelled, the error `ErrUncertain` is replaced by "cancelled", the run ends
   and its labels are free while the process may be alive.
   `docs/WORKFLOW_DESIGN.md:59` and `:93` promise `needs_attention`.
2. **Close does not refuse starts** (`internal/runmanager/manager.go:1407`), and
   `RunWeb` runs it while requests are still being served
   (`internal/bootstrap/web.go:124`): a process may outlive it.
   `docs/PRD.md:301`, ADR 0051.
3. **Followers share one wake-up** (`internal/runmanager/manager.go:1139`): the
   last signal of a run wakes one of two followers, the other waits for ever.
4. **A second apply request ends the maintenance of the first**
   (`internal/web/web_updates.go:207-213`): it fails to hand over what has been
   handed over, and opens the gate. `docs/ACCEPTANCE.md:165`, `docs/PRD.md:488`.
5. **Retention moves the anchor past an event it could not remove**
   (`internal/audit/retention.go:72`): the chain does not verify any more, and
   the service does not start. `docs/DATA-MODEL.md:549`.
6. **Recovery of a move does not look at the destination**
   (`internal/hostfiles/cross_move.go:153`): when the copy had been taken back
   because the source could not be moved to the trash, and the row that says so
   was not written, recovery trashes the source all the same.

Met while modelling, without a run of their own: a Stop in the grace period of
a timeout turns the reason into `cancelled` and disarms the kill at its end
(`runmanager/manager.go:939`; `docs/PRD.md:319` and ADR 0049 say that the first
reason decides); an unreadable or unwritable completion file keeps the service
from starting (`externaltrigger/reconciliation.go:108`); an enabled schedule
keeps a due time that has passed while it was disabled
(`scheduler/manager.go:231`). Of the operations on MySQL databases: a cancel
during the verification, or behind the end of the dump, makes the later writes
fail with the context, so that the row stays active and blocks its instance
until the next recovery (`mysqlmanager/restore.go:47`, `backup.go:154`); a Broker
that restarts alone recovers operations the service still works on, two writers
where ADR 0128 promises operations in series, and a service that restarts alone
leaves its rows to the next start of the Broker (`bootstrap/broker.go:248`,
`web/app.go:1141`); a restore to a new database that dies before the phase
`importing` is recorded as failed "before the destructive phase"
(`mysqlmanager/recovery.go:36`); the list of final phases in `DeleteInstance`
lacks `skipped_overlap`, so that a skipped plan keeps its instance from being
deleted (`mysqlmanager/manager.go:341`).

Of restoring a backup: when a rename of the rollback fails, the directory
`.before-restore-<id>` is removed all the same, with what is left of the old
state in it (`statebackup/manager.go:425`, behind `:611`), although
`docs/ACCEPTANCE.md:141` wants destructive recovery to keep a reversible copy;
this is why `RestoreSafe` excepts `restoreTorn`. A command that dies in the
exchange leaves no way forward by command: the directory exists, or the database
in place does not verify. The database is moved in first, so that a service
started after such a death works on the new database without the directories
that belong to it whenever the checkpoint fits the backup too, which on a new
host it always does (`FitsBoth`). A death in `recover-host` leaves keys behind,
and every retry is refused (`statebackup/recovery.go:206`, `:211`). The instance
lock that guards all this is that of the Web service, the Broker does not take
it. A death in StageRestore leaves a directory without a record, which makes
every later listing fail.

Of forwarding events: ADR 0151 has the outbox sent "按 event ID 顺序" (in the
order of event ids), but the service's observer runs behind the mutex of the
audit log (`auditlog/auditlog.go:205-207`), so that of two concurrent commits the
later may be queued and sent first; `EventsKept` claims the order for the email
channel only. An event that the outbox has no place for, whose commit a crash
follows at once, or that a command or the Broker appends, is never forwarded by
the service (`securityevents/manager.go:176` drops the error, and there is no
cursor), where `docs/adr/README.md:74` calls it reliable. The temporary files of
deaths count towards the 10,000 places and are never removed
(`securityevents/manager.go:384`).

## What is not modelled

The repository has about 96,000 lines of implementation, of which the map names
a small part. Most of the rest is not state that changes in an order that
matters: HTTP routes, pages and their translations (`web/app.go`,
`web/web_locale.go` and the files beside it), clients of databases, registries
and clusters, sampling of the host, installers, parsing and validation. Models
of these would restate single statements. What keeps a protocol and is left:
staging a restore from the service (`statebackup/stage.go`), the dashboards'
in-memory flow runner, and key and session management.

Of modelled components: values, templates and file conversion of nodes;
validation of graphs other than cycles; log files (a counter in `RunFollow`),
history paging, retention and deletion of runs; memory limits; refused signals;
cron expressions; download and verification of releases; keys, limits and
signatures of external requests; what an external action or a command does;
uploads, trash and editing of host files; the signature of checkpoints; which event raises which alert; the
format, encryption and inspection of backup archives; plans of
backups and their rotation, uploaded dumps, instances and their credentials, and
the other clients of a MySQL database.

The components with status `not_modelled` in `PROJECT.json` each have their
reason there.

## Plan

Order of work; the most important behaviour first.

1. Done: the workflow queue, its abstract specification, the engine over it,
   compilation, the run manager and its followers; scheduler, update and their
   composition; command ledger, external requests, runner host, moves between
   filesystems, audit chain, operations on MySQL databases, restore of a backup,
   forwarding of audit events.
2. Done: every safety property, action property and refinement the passing runs
   check has a theorem. Abstract specifications with their refinement: resource
   locks, run lifecycle, request outcome. Left: one for the operations on MySQL
   databases, which so far have invariants only.
3. Models that are left: the staging of a restore, and the dashboards' flow
   runner, which keeps its state in memory only.
