--------------------------- MODULE WorkflowEngine --------------------------
(***************************************************************************)
(* The workflow engine (internal/workflow/engine.go) and its executor      *)
(* (internal/web/workflow_executor.go) over the tables of WorkflowQueue.   *)
(*                                                                         *)
(* One goroutine per claimed run walks the compiled order of the graph.    *)
(* Every database call and every look at a process is a step of its own,   *)
(* so requests of users, process exits, shutdown and crashes interleave.   *)
(* pc[r] names the call the goroutine of run r is about to make:           *)
(*                                                                         *)
(*   head      Run: is the run being cancelled?  is the node active?       *)
(*   skip      FinishStep(skipped)          begin     BeginStep            *)
(*   conflict  Run, after BeginStep failed  attempt   StepRuntime(running) *)
(*   exec      executeNode                  started   StepProcess          *)
(*   poll      the executor's 250 ms loop   post      Run, after the node  *)
(*   decide    retry?                       backoff   waitControl          *)
(*   retry     RetryStep                    settle    Run, after an error  *)
(*   record    FinishStep, after an error   route     StepRuntime(outlets) *)
(*   terminate SkipPending                  finish    Finish(verdict)      *)
(***************************************************************************)
EXTENDS WorkflowQueue, Sequences, FiniteSets

CONSTANTS
  Order,        \* Compile(graph): the nodes in execution order
  Deps,         \* control edges [from, to, outlet]
  Links,        \* data links [from, to, error]; error: field "_error"
  Kind,         \* node kind: start, end, condition, merge, terminate, wait, task
  AnyJoin,      \* merge and wait_for nodes whose joinMode is "any"
  MaxAttempts,  \* retryAttempts of each node
  TermStatus,   \* configured status of each terminate node
  MaxFaults,    \* bound on failing database calls and process look-ups
  MaxRestarts   \* bound on starts of the service

Kinds == {"start", "end", "condition", "merge", "terminate", "wait", "task"}
Outlets == {"success", "failure", "always", "true", "false"}

ASSUME GraphAssumption ==
  /\ Deps \subseteq [from : Nodes, to : Nodes, outlet : Outlets]
  /\ Links \subseteq [from : Nodes, to : Nodes, error : BOOLEAN]
  /\ Kind \in [Nodes -> Kinds]
  /\ AnyJoin \subseteq Nodes
  /\ MaxAttempts \in [Nodes -> Nat \ {0}]
  /\ TermStatus \in [Nodes -> {"succeeded", "failed"}]

(* What Compile returns for an acyclic graph: see WorkflowCompile.         *)
ASSUME OrderAssumption ==
  /\ Order \in Seq(Nodes)
  /\ Len(Order) = Cardinality(Nodes) /\ Len(Order) > 0
  /\ \A n \in Nodes : \E i \in DOMAIN Order : Order[i] = n
  /\ \A e \in Deps \cup Links : \E i, j \in DOMAIN Order :
       Order[i] = e.from /\ Order[j] = e.to /\ i < j

ASSUME BoundAssumption == MaxFaults \in Nat /\ MaxRestarts \in Nat

VARIABLES
  mode,      \* the service: "down", "up", or "closing" (context cancelled)
  starts,    \* how often it was started, up to MaxRestarts
  faults,    \* injected failures so far, up to MaxFaults
  pc,        \* the goroutine of each claimed run, "idle" when there is none
  mem,       \* its local variables
  live,      \* processes <<run, node, n>> that exist on the host
  stopped,   \* processes that Stop was called for
  launches   \* how many processes were launched for a run's node, ever

engineVars == <<mode, starts, faults, pc, mem, live, stopped, launches>>
vars == <<queueVars, engineVars>>
hostVars == <<live, stopped, launches>>

PC == {"idle", "head", "skip", "begin", "conflict", "attempt", "exec",
       "started", "poll", "post", "decide", "backoff", "retry", "settle",
       "record", "route", "terminate", "finish"}

(* err: nil, a confirmed failure, an input error, "cancelled", ErrUncertain *)
Err == {"none", "failed", "input", "cancelled", "uncertain"}

Process == Runs \X Nodes \X Nat

Memory == [at : DOMAIN Order, attempt : Nat, err : Err,
           states : [Nodes -> {"unsettled", "succeeded", "failed", "skipped"}],
           routes : [Nodes -> SUBSET Outlets], selected : SUBSET Outlets,
           failure : BOOLEAN, verdict : EndStatus \cup {"needs_attention"}]

EngineTypeOK ==
  /\ QueueTypeOK
  /\ mode \in {"down", "up", "closing"}
  /\ starts \in 0..MaxRestarts
  /\ faults \in 0..MaxFaults
  /\ pc \in [Runs -> PC]
  /\ mem \in [Runs -> Memory]
  /\ live \in SUBSET Process
  /\ stopped \in SUBSET Process
  /\ launches \in [Runs -> [Nodes -> Nat]]

Fresh ==
  [at |-> 1, attempt |-> 1, err |-> "none",
   states |-> [n \in Nodes |-> "unsettled"],
   routes |-> [n \in Nodes |-> {}], selected |-> {},
   failure |-> FALSE, verdict |-> "failed"]

EngineInit ==
  /\ QueueInit
  /\ mode = "down"
  /\ starts = 0
  /\ faults = 0
  /\ pc = [r \in Runs |-> "idle"]
  /\ mem = [r \in Runs |-> Fresh]
  /\ live = {}
  /\ stopped = {}
  /\ launches = [r \in Runs |-> [n \in Nodes |-> 0]]

----------------------------------------------------------------------------
(* A call with the engine's context fails once the context is cancelled,   *)
(* and any call may fail by itself; context.Background() calls fail only   *)
(* in the second way.                                                      *)
Fault == faults < MaxFaults /\ faults' = faults + 1
CallFails == \/ mode = "closing" /\ UNCHANGED faults
             \/ mode = "up" /\ Fault
CallWorks == mode = "up" /\ UNCHANGED faults

Node(r) == Order[mem[r].at]
Current(r) == <<r, Node(r), launches[r][Node(r)]>>

Goto(r, l) == pc' = [pc EXCEPT ![r] = l]
Set(r, m) == mem' = [mem EXCEPT ![r] = m]
Move(r, l, e) == Goto(r, l) /\ Set(r, [mem[r] EXCEPT !.err = e])

(* finish(s, ...) is the goroutine's last call; Return ends it without.    *)
FinishWith(r, s) == Goto(r, "finish") /\ Set(r, [mem[r] EXCEPT !.verdict = s])
Return(r) == Goto(r, "idle") /\ Set(r, Fresh)

(* Mutant: only the last node decides how the run ended. *)
AdvanceLastOutcome(r, m) ==
  IF m.at < Len(Order)
    THEN Goto(r, "head")
         /\ Set(r, [m EXCEPT !.at = m.at + 1, !.attempt = 1, !.err = "none",
                             !.selected = {}])
    ELSE Goto(r, "finish")
         /\ Set(r, [m EXCEPT !.verdict =
               IF m.states[Order[m.at]] = "failed" THEN "failed" ELSE "succeeded"])

(* The next node, or the end of the loop: one failure fails the run.       *)
Advance(r, m) ==
  IF m.at < Len(Order)
    THEN Goto(r, "head")
         /\ Set(r, [m EXCEPT !.at = m.at + 1, !.attempt = 1, !.err = "none",
                             !.selected = {}])
    ELSE Goto(r, "finish")
         /\ Set(r, [m EXCEPT !.verdict = IF m.failure THEN "failed"
                                                      ELSE "succeeded"])

(* Mutant: data links are not looked at. *)
ActivatedNoData(n, m) ==
  LET in == {d \in Deps : d.to = n}
      matched == {d \in in : d.outlet \in m.routes[d.from]}
  IN in = {} \/ (IF n \in AnyJoin THEN matched # {} ELSE matched = in)

(* activation(): control edges matched by outlets, data links by outcome.  *)
Activated(n, m) ==
  LET in == {d \in Deps : d.to = n}
      matched == {d \in in : d.outlet \in m.routes[d.from]}
  IN /\ in = {} \/ (IF n \in AnyJoin THEN matched # {} ELSE matched = in)
     /\ \A k \in Links : k.to = n =>
          \/ m.states[k.from] = "succeeded"
          \/ m.states[k.from] = "failed" /\ k.error

(* A failure edge, an always edge or an _error link handles a failure.     *)
Handled(n) ==
  \/ \E d \in Deps : d.from = n /\ d.outlet \in {"failure", "always"}
  \/ \E k \in Links : k.from = n /\ k.error

(* Mutant: a condition adds "false" to the outlets instead of replacing them. *)
SelectionsAppended(n) ==
  IF Kind[n] = "condition"
    THEN {{"success", "always", "true"}, {"success", "always", "true", "false"}}
    ELSE {{"success", "always"}}

(* The outlets executeNode returns with success.  A condition stands for   *)
(* every node that chooses among its own outlets (switch as well).         *)
Selections(n) ==
  IF Kind[n] = "condition"
    THEN {{"success", "always", "true"}, {"false", "always"}}
    ELSE {{"success", "always"}}

----------------------------------------------------------------------------
(* Users, through the HTTP handlers, while the service runs.               *)
Submit(r) ==
  /\ mode # "down"
  /\ \E W \in LockSets, t \in 1..MaxTime : Enqueue(r, W, t)
  /\ UNCHANGED engineVars

Cancel(r) == mode # "down" /\ RequestCancel(r) /\ UNCHANGED engineVars

(* The handler looks at nothing but the run's status.  That the maintainer *)
(* first makes sure the run's processes are gone is an assumption on       *)
(* people: docs/WORKFLOW_USAGE.md asks for it.                             *)
Resolve(r) ==
  /\ mode # "down"
  /\ \A p \in live : p[1] # r
  /\ ResolveAttention(r)
  /\ UNCHANGED engineVars

(* Mutant: a restart puts interrupted runs back into the queue. *)
StartRequeuing ==
  /\ mode = "down"
  /\ starts < MaxRestarts
  /\ status' = [r \in Runs |->
       IF status[r] \in {"running", "cancelling"} THEN "queued" ELSE status[r]]
  /\ holder' = [l \in Labels |-> NoRun]
  /\ mode' = "up"
  /\ starts' = starts + 1
  /\ UNCHANGED <<created, wanted, step, ahead, faults, pc, mem, hostVars>>

(* Engine.Start recovers before the first dispatch. *)
Start ==
  /\ mode = "down"
  /\ starts < MaxRestarts
  /\ Recover
  /\ mode' = "up"
  /\ starts' = starts + 1
  /\ UNCHANGED <<faults, pc, mem, hostVars>>

(* Engine.Close: cancel the context, then wait for every goroutine.        *)
BeginClose ==
  /\ mode = "up"
  /\ mode' = "closing"
  /\ UNCHANGED <<queueVars, starts, faults, pc, mem, hostVars>>

(* Mutant: Close waits for the processes as well. *)
EndCloseQuiet ==
  /\ mode = "closing"
  /\ \A r \in Runs : pc[r] = "idle"
  /\ live = {}
  /\ mode' = "down"
  /\ UNCHANGED <<queueVars, starts, faults, pc, mem, hostVars>>

EndClose ==
  /\ mode = "closing"
  /\ \A r \in Runs : pc[r] = "idle"
  /\ mode' = "down"
  /\ UNCHANGED <<queueVars, starts, faults, pc, mem, hostVars>>

(* The service dies; processes it started may stay. *)
Crash ==
  /\ mode # "down"
  /\ mode' = "down"
  /\ pc' = [r \in Runs |-> "idle"]
  /\ mem' = [r \in Runs |-> Fresh]
  /\ UNCHANGED <<queueVars, starts, faults, hostVars>>

Exit(p) ==
  /\ p \in live
  /\ live' = live \ {p}
  /\ stopped' = stopped \ {p}
  /\ UNCHANGED <<queueVars, mode, starts, faults, pc, mem, launches>>

(* One run of one dispatch pass; a refused Claim changes nothing.  The     *)
(* pass goes on to later runs whatever the outcome, and Claim re-checks    *)
(* all that the list of queued runs said.                                  *)
Dispatch(r) ==
  /\ CallWorks
  /\ Claim(r)
  /\ Goto(r, "head")
  /\ UNCHANGED <<mode, starts, mem, hostVars>>

----------------------------------------------------------------------------
(* execute(), call by call *)
LoopHead(r) ==
  /\ pc[r] = "head"
  /\ \/ mode = "closing" /\ UNCHANGED faults /\ FinishWith(r, "needs_attention")
     \/ mode = "up" /\ Fault /\ Return(r)
     \/ CallWorks /\ status[r] = "cancelling" /\ FinishWith(r, "cancelled")
     \/ /\ CallWorks /\ status[r] # "cancelling"
        /\ Goto(r, IF Activated(Node(r), mem[r]) THEN "begin" ELSE "skip")
        /\ UNCHANGED mem
  /\ UNCHANGED <<queueVars, mode, starts, hostVars>>

Skip(r) ==
  /\ pc[r] = "skip"
  /\ \/ CallFails /\ Return(r) /\ UNCHANGED queueVars
     \/ /\ CallWorks
        /\ FinishStep(r, Node(r), "skipped")
        /\ Advance(r, [mem[r] EXCEPT !.states[Node(r)] = "skipped"])
  /\ UNCHANGED <<mode, starts, hostVars>>

Begin(r) ==
  /\ pc[r] = "begin"
  /\ \/ CallWorks /\ BeginStep(r, Node(r)) /\ Goto(r, "attempt")
     \/ /\ CallFails \/ (CallWorks /\ status[r] # "running")
        /\ Goto(r, "conflict")
        /\ UNCHANGED queueVars
  /\ UNCHANGED <<mode, starts, mem, hostVars>>

(* Mutant: the reason of the conflict is not looked up. *)
ConflictReturning(r) ==
  /\ pc[r] = "conflict"
  /\ Return(r)
  /\ UNCHANGED <<queueVars, mode, starts, faults, hostVars>>

(* Anything but a cancel request ends the goroutine and leaves the run.    *)
Conflict(r) ==
  /\ pc[r] = "conflict"
  /\ \/ /\ UNCHANGED faults
        /\ IF status[r] = "cancelling" THEN FinishWith(r, "cancelled")
                                       ELSE Return(r)
     \/ Fault /\ Return(r)
  /\ UNCHANGED <<queueVars, mode, starts, hostVars>>

Attempt(r) ==
  /\ pc[r] = "attempt"
  /\ \/ CallFails /\ FinishWith(r, "needs_attention")
     \/ CallWorks /\ Move(r, "exec", "none")
  /\ UNCHANGED <<queueVars, mode, starts, hostVars>>

(* Inputs that cannot be resolved ("input", never retried), values a node  *)
(* rejects, outputs that do not fit, an executor that refuses to start.    *)
ExecFails(r) ==
  /\ pc[r] = "exec"
  /\ \E e \in {"failed", "input"} : Move(r, "post", e)
  /\ UNCHANGED <<queueVars, mode, starts, faults, hostVars>>

ExecInline(r) ==
  /\ pc[r] = "exec" /\ Kind[Node(r)] \notin {"task", "wait"}
  /\ \E s \in Selections(Node(r)) :
       Set(r, [mem[r] EXCEPT !.err = "none", !.selected = s])
  /\ Goto(r, "post")
  /\ UNCHANGED <<queueVars, mode, starts, faults, hostVars>>

(* A wait node: waitControl until the time is over. *)
ExecWait(r) ==
  /\ pc[r] = "exec" /\ Kind[Node(r)] = "wait"
  /\ Goto(r, "post")
  /\ \/ CallFails /\ Set(r, [mem[r] EXCEPT !.err = "failed"])
     \/ /\ CallWorks
        /\ Set(r, [mem[r] EXCEPT
             !.err = IF status[r] = "cancelling" THEN "cancelled" ELSE "none",
             !.selected = {"success", "always"}])
  /\ UNCHANGED <<queueVars, mode, starts, hostVars>>

(* StartOneTime takes no context: shutdown does not prevent a launch here. *)
Launch(r) ==
  /\ pc[r] = "exec" /\ Kind[Node(r)] = "task"
  /\ LET n == Node(r)
     IN /\ launches' = [launches EXCEPT ![r][n] = @ + 1]
        /\ live' = live \cup {<<r, n, launches[r][n] + 1>>}
  /\ Goto(r, "started")
  /\ UNCHANGED <<queueVars, mode, starts, faults, mem, stopped>>

(* The started callback; when it fails the executor calls Stop and reports *)
(* ErrUncertain without waiting for the process.                           *)
Started(r) ==
  /\ pc[r] = "started"
  /\ \/ /\ CallWorks
        /\ StepProcess(r, Node(r))
        /\ Goto(r, "poll")
        /\ UNCHANGED <<mem, stopped>>
     \/ /\ CallFails
        /\ Move(r, "post", "uncertain")
        /\ stopped' = stopped \cup ({Current(r)} \cap live)
        /\ UNCHANGED queueVars
  /\ UNCHANGED <<mode, starts, live, launches>>

(* ctx.Done: Stop, and return the context's error. *)
PollClosing(r) ==
  /\ pc[r] = "poll" /\ mode = "closing"
  /\ stopped' = stopped \cup ({Current(r)} \cap live)
  /\ Move(r, "post", "failed")
  /\ UNCHANGED <<queueVars, mode, starts, faults, live, launches>>

(* Mutant: the loop waits for a status that a cancel request never sets. *)
PollStopLate(r) ==
  /\ pc[r] = "poll" /\ mode = "up"
  /\ status[r] = "cancelled" /\ Current(r) \in live \ stopped
  /\ stopped' = stopped \cup {Current(r)}
  /\ UNCHANGED <<queueVars, mode, starts, faults, pc, mem, live, launches>>

(* Stop is called at every tick; only the first call matters here.         *)
PollStop(r) ==
  /\ pc[r] = "poll" /\ mode = "up"
  /\ status[r] = "cancelling" /\ Current(r) \in live \ stopped
  /\ stopped' = stopped \cup {Current(r)}
  /\ UNCHANGED <<queueVars, mode, starts, faults, pc, mem, live, launches>>

(* Mutant: an error of a look-up counts as a failure of the node. *)
PollFailsConfirmed(r) ==
  /\ pc[r] = "poll"
  /\ CallFails
  /\ Move(r, "post", "failed")
  /\ UNCHANGED <<queueVars, mode, starts, hostVars>>

(* The status read or GetMetadata fails: nobody knows about the process.   *)
(* (When the service closes, select may well take the ticker's branch.)    *)
PollFails(r) ==
  /\ pc[r] = "poll"
  /\ CallFails
  /\ Move(r, "post", "uncertain")
  /\ UNCHANGED <<queueVars, mode, starts, hostVars>>

(* FinishedAt is set.  The exit code, or the output file, may be bad.      *)
PollDone(r) ==
  /\ pc[r] = "poll" /\ mode = "up"
  /\ Current(r) \notin live
  /\ \E e \in {"none", "failed"} :
       Set(r, [mem[r] EXCEPT !.err = e, !.selected = {"success", "always"}])
  /\ Goto(r, "post")
  /\ UNCHANGED <<queueVars, mode, starts, faults, hostVars>>

(* After the node: the run is read again, and a cancel request replaces    *)
(* whatever the node returned; then StepRuntime records the attempt.       *)
ErrAfterRead(r) ==
  IF status[r] = "cancelling" THEN "cancelled" ELSE mem[r].err

Post(r) ==
  /\ pc[r] = "post"
  /\ \/ CallWorks /\ Move(r, "decide", ErrAfterRead(r))
     \/ CallFails /\ Move(r, "decide", "uncertain")
     \/ Fault /\ FinishWith(r, "needs_attention")
  /\ UNCHANGED <<queueVars, mode, starts, hostVars>>

(* Mutant: one attempt too many. *)
OneAttemptMore(r) == mem[r].attempt <= MaxAttempts[Node(r)]

MoreAttempts(r) == mem[r].attempt < MaxAttempts[Node(r)]

(* Only a confirmed failure of a run nobody cancelled is tried again.      *)
Decide(r) ==
  /\ pc[r] = "decide"
  /\ UNCHANGED <<mode, starts, mem, hostVars>>
  /\ LET final == \/ mem[r].err \in {"none", "input", "uncertain"}
                  \/ mode = "closing"
     IN \/ final /\ Goto(r, "settle") /\ UNCHANGED <<queueVars, faults>>
        \/ ~final /\ Fault /\ Goto(r, "settle") /\ UNCHANGED queueVars
        \/ /\ ~final /\ UNCHANGED faults
           /\ \/ status[r] = "cancelling"
              \/ ~MoreAttempts(r)
           /\ Goto(r, "settle")
           /\ UNCHANGED queueVars
        \/ /\ ~final /\ status[r] # "cancelling"
           /\ MoreAttempts(r)
           /\ Goto(r, "backoff")
           /\ \/ FinishStep(r, Node(r), "retrying") /\ UNCHANGED faults
              \/ Fault /\ UNCHANGED queueVars

Backoff(r) ==
  /\ pc[r] = "backoff"
  /\ \/ CallFails /\ Move(r, "settle", "failed")
     \/ /\ CallWorks
        /\ IF status[r] = "cancelling" THEN Move(r, "settle", "cancelled")
                                       ELSE Goto(r, "retry") /\ UNCHANGED mem
  /\ UNCHANGED <<queueVars, mode, starts, hostVars>>

Retry(r) ==
  /\ pc[r] = "retry"
  /\ \/ /\ CallWorks
        /\ RetryStep(r, Node(r))
        /\ Goto(r, "attempt")
        /\ Set(r, [mem[r] EXCEPT !.attempt = @ + 1])
     \/ /\ CallFails \/ (CallWorks /\ status[r] # "running")
        /\ Move(r, "settle", "failed")
        /\ UNCHANGED queueVars
  /\ UNCHANGED <<mode, starts, hostVars>>

(* The node succeeded.  *)
SettleSuccess(r) ==
  /\ pc[r] = "settle" /\ mem[r].err = "none"
  /\ \/ CallFails /\ FinishWith(r, "needs_attention") /\ UNCHANGED queueVars
     \/ /\ CallWorks
        /\ FinishStep(r, Node(r), "succeeded")
        /\ Goto(r, "route")
        /\ Set(r, [mem[r] EXCEPT !.states[Node(r)] = "succeeded",
                                 !.routes[Node(r)] = mem[r].selected])
  /\ UNCHANGED <<mode, starts, hostVars>>

(* Mutant: every error of a run nobody cancelled is a confirmed failure. *)
VerdictConfirmed(r) ==
  IF status[r] = "cancelling" THEN "cancelled" ELSE "failed"

(* The status an error leads to; the cancel request is looked up again,    *)
(* and a failing look-up counts as none.                                   *)
Verdict(r) ==
  IF mode = "closing" \/ mem[r].err = "uncertain" THEN "needs_attention"
  ELSE IF status[r] = "cancelling" THEN "cancelled"
  ELSE "failed"

SettleError(r) ==
  /\ pc[r] = "settle" /\ mem[r].err # "none"
  /\ Goto(r, "record")
  /\ \/ Set(r, [mem[r] EXCEPT !.verdict = Verdict(r)]) /\ UNCHANGED faults
     \/ /\ Verdict(r) # "needs_attention" /\ Fault
        /\ Set(r, [mem[r] EXCEPT !.verdict = "failed"])
  /\ UNCHANGED <<queueVars, mode, starts, hostVars>>

(* Not a plain failure: the run ends here, whatever the writes return.     *)
RecordEnd(r) ==
  /\ pc[r] = "record" /\ mem[r].verdict # "failed"
  /\ \/ FinishStep(r, Node(r), mem[r].verdict) /\ UNCHANGED faults
     \/ Fault /\ UNCHANGED queueVars
  /\ Goto(r, "finish")
  /\ UNCHANGED <<mode, starts, mem, hostVars>>

(* A failure nothing is connected to ends the run, any other goes on.      *)
RecordFailure(r) ==
  /\ pc[r] = "record" /\ mem[r].verdict = "failed"
  /\ \/ CallFails /\ FinishWith(r, "needs_attention") /\ UNCHANGED queueVars
     \/ /\ CallWorks
        /\ FinishStep(r, Node(r), "failed")
        /\ Goto(r, IF Handled(Node(r)) THEN "route" ELSE "finish")
        /\ Set(r, [mem[r] EXCEPT !.failure = TRUE,
                                 !.states[Node(r)] = "failed",
                                 !.routes[Node(r)] = {"failure", "always"}])
  /\ UNCHANGED <<mode, starts, hostVars>>

(* The outlets are stored, and the loop goes on - unless the node ends the *)
(* workflow.                                                               *)
Route(r) ==
  /\ pc[r] = "route"
  /\ \/ CallFails /\ FinishWith(r, "needs_attention")
     \/ /\ CallWorks
        /\ IF /\ Kind[Node(r)] = "terminate"
              /\ mem[r].states[Node(r)] = "succeeded"
             THEN Goto(r, "terminate") /\ UNCHANGED mem
             ELSE Advance(r, mem[r])
  /\ UNCHANGED <<queueVars, mode, starts, hostVars>>

Terminate(r) ==
  /\ pc[r] = "terminate"
  /\ \/ CallFails /\ FinishWith(r, "needs_attention") /\ UNCHANGED queueVars
     \/ CallWorks /\ SkipPending(r) /\ FinishWith(r, TermStatus[Node(r)])
  /\ UNCHANGED <<mode, starts, hostVars>>

(* The outcome is written without the context, and its error is dropped.   *)
FinishRun(r) ==
  /\ pc[r] = "finish"
  /\ \/ Finish(r, mem[r].verdict) /\ UNCHANGED faults
     \/ Fault /\ UNCHANGED queueVars
  /\ Return(r)
  /\ UNCHANGED <<mode, starts, hostVars>>

Execute(r) ==
  \/ LoopHead(r) \/ Skip(r) \/ Begin(r) \/ Conflict(r) \/ Attempt(r)
  \/ ExecFails(r) \/ ExecInline(r) \/ ExecWait(r) \/ Launch(r) \/ Started(r)
  \/ PollClosing(r) \/ PollStop(r) \/ PollFails(r) \/ PollDone(r)
  \/ Post(r) \/ Decide(r) \/ Backoff(r) \/ Retry(r)
  \/ SettleSuccess(r) \/ SettleError(r) \/ RecordEnd(r)
  \/ RecordFailure(r) \/ Route(r) \/ Terminate(r) \/ FinishRun(r)

Next ==
  \/ \E r \in Runs : Submit(r) \/ Cancel(r) \/ Resolve(r) \/ Dispatch(r)
                     \/ Execute(r)
  \/ \E p \in live : Exit(p)
  \/ Start \/ BeginClose \/ EndClose \/ Crash

Spec == EngineInit /\ [][Next]_vars

(* The scheduler runs every goroutine and the dispatch ticker; a process   *)
(* that Stop was called for is terminated, by force if need be; a closed   *)
(* or crashed service is started again.                                    *)
Fairness ==
  /\ \A r \in Runs : WF_vars(Dispatch(r)) /\ WF_vars(Execute(r))
  /\ \A r \in Runs : \A n \in Nodes : \A i \in 1..MaxAttempts[n] :
       WF_vars(<<r, n, i>> \in stopped /\ Exit(<<r, n, i>>))
  /\ WF_vars(Start) /\ WF_vars(EndClose)

FairSpec == Spec /\ Fairness

----------------------------------------------------------------------------
(* Properties *)

Executing(r) == pc[r] # "idle"

(* A run that has given its labels back has no process left on the host.   *)
(* docs/WORKFLOW_DESIGN.md: an uncertain end keeps the resources.          *)
ReleasedMeansStopped == \A p \in live : status[p[1]] \in Owning

(* The point of the labels: at no moment do two processes exist that work  *)
(* on one resource, be it for two runs or for two attempts of one node,    *)
(* and none works on a resource that its run has given back.               *)
ExclusiveProcesses ==
  /\ ReleasedMeansStopped
  /\ \A p, q \in live : p # q =>
       p[1] # q[1] /\ wanted[p[1]] \cap wanted[q[1]] = {}

(* Whatever fails, and however often: a run gives its labels back while a  *)
(* process of it exists only after a user has asked to cancel it, and a    *)
(* node is never launched, or tried again, next to a process of the run.   *)
(* (docs/WORKFLOW_DESIGN.md, failure and recovery)                         *)
UncertainKept ==
  [][\A p \in live :
       /\ p \in live' /\ status[p[1]] \in Owning /\ status'[p[1]] \notin Owning
            => status[p[1]] = "cancelling"
       /\ \A q \in live' \ live : q[1] # p[1]]_vars

(* While the service is up and the database works, every claimed run has a *)
(* goroutine: no run is left 'running' with nobody to finish it.  And the  *)
(* goroutine of a run only ever works on a run it has claimed and not yet  *)
(* finished, so Finish never meets a queued or ended run.                  *)
EngineInv ==
  /\ EngineTypeOK
  /\ \A r \in Runs :
       /\ Executing(r) => status[r] \in {"running", "cancelling"}
       /\ mode = "up" /\ status[r] \in {"running", "cancelling"} => Executing(r)

(* The engine only does what the queue's tables allow.                     *)
Queue == INSTANCE WorkflowQueue
ImplementsQueue == Queue!QueueSpec

Settled == {"succeeded", "failed", "skipped"}
Dispatched(r) == {n \in Nodes : step[r][n] \notin {"absent", "pending", "skipped"}}

(* When a node is dispatched, every node it depends on has its outcome in  *)
(* the database, and every datum it links to was really produced.          *)
InputsSettled ==
  \A r \in Runs : \A n \in Dispatched(r) :
    /\ \A d \in Deps : d.to = n => step[r][d.from] \in Settled
    /\ \A k \in Links : k.to = n =>
         step[r][k.from] \in {"succeeded"} \cup (IF k.error THEN {"failed"} ELSE {})

(* The two sides of a condition are never both executed in one run.        *)
OneBranch ==
  \A r \in Runs : \A d, e \in Deps :
    /\ d.from = e.from /\ d.outlet = "true" /\ e.outlet = "false"
    /\ {d.to, e.to} \cap AnyJoin = {}
    => ~({d.to, e.to} \subseteq Dispatched(r))

(* A run that ended by its own has no step left open, and a handled        *)
(* failure still fails it; only a terminate node configured to succeed     *)
(* makes up for that.  (docs/WORKFLOW_USAGE.md, control flow)              *)
FailureSticks ==
  \A r \in Runs : \A n \in Nodes :
    /\ status[r] \in {"succeeded", "failed"} => step[r][n] \in Settled
    /\ status[r] = "succeeded" /\ step[r][n] = "failed" =>
         \E t \in Nodes : /\ Kind[t] = "terminate" /\ TermStatus[t] = "succeeded"
                          /\ step[r][t] = "succeeded"

(* No node is launched more often than its attempts allow, over restarts   *)
(* and cancellations too: what has been dispatched once is not done again. *)
LaunchesBounded ==
  \A r \in Runs : \A n \in Nodes : launches[r][n] <= MaxAttempts[n]

(* The bound on restarts makes the last stop final.                        *)
StaysDown == [](mode = "down")

(* A cancel request is answered: the run ends, or waits for the maintainer.*)
(* It takes no timeout and nobody's help: Stop ends the process.           *)
CancelEnds ==
  \A r \in Runs :
    status[r] = "cancelling" ~> (status[r] # "cancelling" \/ StaysDown)

(* Engine.Close returns, even while a process ignores Stop.                *)
CloseEnds == mode = "closing" ~> mode = "down"

(* A queued run gets its turn, if every process ends (nodes have timeouts) *)
(* and the maintainer answers; nothing else can hold it up.                *)
ProcessesEnd == \A r \in Runs : []<>(\A p \in live : p[1] # r)
MaintainerAnswers == \A r \in Runs : WF_vars(Resolve(r))

QueuedEnds ==
  ProcessesEnd /\ MaintainerAnswers =>
    \A r \in Runs : status[r] = "queued" ~> (status[r] # "queued" \/ StaysDown)
=============================================================================
