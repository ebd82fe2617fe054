--------------------------- MODULE Requests_proofs ---------------------------
(***************************************************************************)
(* Proofs about the parts that answer requests of other programs.          *)
(* CommandLedger, for any calls, any window longer than a call may take,   *)
(* and any bound on the clock: two executions under one key are a window   *)
(* apart.                                                                  *)
(* ExternalRequests, for any set of requests and any number of failing     *)
(* statements, crashes and restarts: an action takes effect at most once,  *)
(* and the records tell the truth about it.                                *)
(* RunnerHost, for any connections, keys and size of the table: processes  *)
(* are in the table, one to a run and no more than it holds, and Close     *)
(* returns nil only without them.                                          *)
(***************************************************************************)
EXTENDS CommandLedger, ExternalRequests, RunnerHost, FiniteSetTheorems, TLAPS

(***************************************************************************)
(* CommandLedger                                                           *)
(***************************************************************************)
Owner(c) == callStage[c] \in {"operate", "complete", "release"}

(* A call in flight is young, and what it wants to renew is expired.       *)
Timely(c) ==
  /\ callStage[c] # "unsent" => callAt[c] <= ledgerClock
  /\ InFlight(c) => ledgerClock <= callAt[c] + CallTime
  /\ callStage[c] = "renew" => callSeen[c] < callAt[c] - Window

(* The row is that of the call that has claimed it, the only one that has. *)
OwnsRow(c) ==
  Owner(c) => /\ ledgerRow = Processing(c)
              /\ \A d \in Calls : Owner(d) => d = c

(* The row of a call that has executed stays until the window is over.     *)
Guarded(c) ==
  \/ /\ ledgerRow # NoRow /\ ledgerRow.at = callAt[c]
     /\ \A d \in Calls : Owner(d) => d = c
  \/ ledgerClock > callAt[c] + Window

Executed(c) ==
  c \in executed => callStage[c] \in {"complete", "answered"} /\ Guarded(c)

LedgerInv ==
  /\ LedgerTypeOK
  /\ \A c \in Calls : Timely(c) /\ OwnsRow(c) /\ Executed(c)
  /\ OncePerWindow

LEMMA LedgerInitInv == LedgerInit => LedgerInv
  BY LedgerAssumption DEF LedgerInit, LedgerInv, LedgerTypeOK, LedgerTimes, NoRow,
     CallStages, Timely, InFlight, OwnsRow, Owner, Executed, OncePerWindow

LEMMA LedgerTypeStep ==
  ASSUME LedgerTypeOK, [LedgerNext]_ledgerVars
  PROVE  LedgerTypeOK'
<1> USE LedgerAssumption DEF LedgerTypeOK, LedgerTimes, CallStages, NoRow, CallGoes, Processing
<1>1. ASSUME NEW p \in Calls, ReadClock(p) \/ InsertClaim(p) \/ SelectClaim(p) \/ RenewClaim(p)
      PROVE  LedgerTypeOK'
  BY <1>1 DEF ReadClock, InsertClaim, SelectClaim, RenewClaim
<1>2. ASSUME NEW p \in Calls, Operate(p) \/ CompleteClaim(p) \/ ReleaseClaim(p)
      PROVE  LedgerTypeOK'
  BY <1>2 DEF Operate, CompleteClaim, ReleaseClaim
<1>3. CASE LedgerCrash \/ LedgerTick
  BY <1>3 DEF LedgerCrash, LedgerTick
<1>4. CASE UNCHANGED ledgerVars
  BY <1>4 DEF ledgerVars
<1> QED
  BY <1>1, <1>2, <1>3, <1>4 DEF LedgerNext

(* An owner's row is there, and too young to have been seen as expired.    *)
LEMMA NotRenewed ==
  ASSUME LedgerInv, NEW c \in Calls, NEW p \in Calls, Owner(c),
         callStage[p] = "renew"
  PROVE  ledgerRow # NoRow /\ ledgerRow.at # callSeen[p]
<1>1. ledgerRow.at = callAt[c] /\ ledgerRow # NoRow
  BY DEF LedgerInv, OwnsRow, Processing, NoRow
<1>2. ledgerClock <= callAt[c] + CallTime
  BY DEF LedgerInv, Timely, InFlight, Owner
<1>3. callAt[p] <= ledgerClock /\ callSeen[p] < callAt[p] - Window
  BY DEF LedgerInv, Timely
<1> QED
  BY <1>1, <1>2, <1>3, LedgerAssumption DEF LedgerInv, LedgerTypeOK, LedgerTimes

----------------------------------------------------------------------------

LEMMA ReadClockStep ==
  ASSUME LedgerInv, LedgerTypeOK', NEW p \in Calls, ReadClock(p)
  PROVE  LedgerInv'
<1> USE LedgerAssumption DEF LedgerInv, LedgerTypeOK, LedgerTimes, CallGoes, ReadClock
<1>1. ASSUME NEW c \in Calls PROVE Timely(c)'
  BY DEF Timely, InFlight
<1>2. ASSUME NEW c \in Calls PROVE OwnsRow(c)'
  BY DEF OwnsRow, Owner, Processing
<1>3. ASSUME NEW c \in Calls PROVE Executed(c)'
  BY DEF Executed, Guarded, Owner
<1>4. OncePerWindow'
  BY DEF OncePerWindow, Executed
<1> QED
  BY <1>1, <1>2, <1>3, <1>4

(* A key that is not in the table is new, or was given back by a call that *)
(* claimed it after the window of all executions.                          *)
LEMMA InsertStep ==
  ASSUME LedgerInv, LedgerTypeOK', NEW p \in Calls, InsertClaim(p)
  PROVE  LedgerInv'
<1> USE LedgerAssumption DEF LedgerInv, LedgerTypeOK, LedgerTimes, CallGoes, InsertClaim
<1>1. ASSUME NEW c \in Calls PROVE Timely(c)'
  BY DEF Timely, InFlight
<1>2. ASSUME NEW c \in Calls PROVE OwnsRow(c)'
  BY DEF OwnsRow, Owner, Processing, NoRow
<1>3. ASSUME NEW c \in Calls PROVE Executed(c)'
  BY DEF Executed, Guarded, Owner
<1>4. OncePerWindow'
  BY DEF OncePerWindow
<1> QED
  BY <1>1, <1>2, <1>3, <1>4

LEMMA SelectStep ==
  ASSUME LedgerInv, LedgerTypeOK', NEW p \in Calls, SelectClaim(p)
  PROVE  LedgerInv'
<1> USE LedgerAssumption DEF LedgerInv, LedgerTypeOK, LedgerTimes, CallGoes, SelectClaim, AnsweredFromRow
<1>1. ASSUME NEW c \in Calls PROVE Timely(c)'
  BY DEF Timely, InFlight
<1>2. ASSUME NEW c \in Calls PROVE OwnsRow(c)'
  BY DEF OwnsRow, Owner, Processing
<1>3. ASSUME NEW c \in Calls PROVE Executed(c)'
  BY DEF Executed, Guarded, Owner
<1>4. OncePerWindow'
  BY DEF OncePerWindow
<1> QED
  BY <1>1, <1>2, <1>3, <1>4

(* A renewal ends the window of the row it replaces.                       *)
LEMMA RenewStep ==
  ASSUME LedgerInv, LedgerTypeOK', NEW p \in Calls, RenewClaim(p)
  PROVE  LedgerInv'
<1> USE LedgerAssumption DEF LedgerInv, LedgerTypeOK, LedgerTimes, CallGoes, RenewClaim
<1>1. ASSUME NEW c \in Calls PROVE Timely(c)'
  BY DEF Timely, InFlight
<1>2. ASSUME NEW c \in Calls PROVE OwnsRow(c)'
  BY NotRenewed DEF OwnsRow, Owner, Processing
<1>3. ASSUME NEW c \in Calls PROVE Executed(c)'
  <2>1. CASE ledgerRow.at = callSeen[p] /\ ledgerRow # NoRow
    <3>1. callSeen[p] < callAt[p] - Window /\ callAt[p] <= ledgerClock
      BY DEF Timely
    <3> QED
      BY <2>1, <3>1 DEF Executed, Guarded
  <2>2. CASE ~(ledgerRow.at = callSeen[p] /\ ledgerRow # NoRow)
    BY <2>2 DEF Executed, Guarded, Owner
  <2> QED
    BY <2>1, <2>2
<1>4. OncePerWindow'
  BY DEF OncePerWindow
<1> QED
  BY <1>1, <1>2, <1>3, <1>4

(* Who executes has the row to itself: the windows of all earlier          *)
(* executions are over.                                                    *)
LEMMA OperateStep ==
  ASSUME LedgerInv, LedgerTypeOK', NEW p \in Calls, Operate(p)
  PROVE  LedgerInv'
<1> USE LedgerAssumption DEF LedgerInv, LedgerTypeOK, LedgerTimes, CallGoes, Operate
<1>1. ASSUME NEW c \in Calls PROVE Timely(c)'
  BY DEF Timely, InFlight
<1>2. ASSUME NEW c \in Calls PROVE OwnsRow(c)'
  BY DEF OwnsRow, Owner, Processing
<1>3. ASSUME NEW c \in Calls PROVE Executed(c)'
  BY DEF Executed, Guarded, OwnsRow, Owner, Processing, NoRow
<1>4. ASSUME NEW c \in executed, c # p
      PROVE  callAt[p] + CallTime > callAt[c] + Window
  <2>1. ledgerClock > callAt[c] + Window
    BY <1>4 DEF Executed, Guarded, Owner
  <2>2. ledgerClock <= callAt[p] + CallTime
    BY DEF Timely, InFlight
  <2> QED
    BY <2>1, <2>2
<1>5. OncePerWindow'
  BY <1>4 DEF OncePerWindow
<1> QED
  BY <1>1, <1>2, <1>3, <1>5

LEMMA LedgerEndSteps ==
  ASSUME LedgerInv, LedgerTypeOK', NEW p \in Calls, CompleteClaim(p) \/ ReleaseClaim(p)
  PROVE  LedgerInv'
<1> USE LedgerAssumption DEF LedgerInv, LedgerTypeOK, LedgerTimes, CallGoes, CompleteClaim, ReleaseClaim
<1>1. ASSUME NEW c \in Calls PROVE Timely(c)'
  BY DEF Timely, InFlight
<1>2. ASSUME NEW c \in Calls PROVE OwnsRow(c)'
  BY DEF OwnsRow, Owner, Processing
<1>3. ASSUME NEW c \in Calls PROVE Executed(c)'
  BY DEF Executed, Guarded, OwnsRow, Owner, Processing, NoRow
<1>4. OncePerWindow'
  BY DEF OncePerWindow
<1> QED
  BY <1>1, <1>2, <1>3, <1>4

LEMMA LedgerCrashStep ==
  ASSUME LedgerInv, LedgerTypeOK', LedgerCrash
  PROVE  LedgerInv'
<1> USE LedgerAssumption DEF LedgerInv, LedgerTypeOK, LedgerTimes, LedgerCrash, InFlight
<1>1. ASSUME NEW c \in Calls PROVE Timely(c)'
  BY DEF Timely
<1>2. ASSUME NEW c \in Calls PROVE OwnsRow(c)'
  BY DEF OwnsRow, Owner
<1>3. ASSUME NEW c \in Calls PROVE Executed(c)'
  BY DEF Executed, Guarded, Owner
<1>4. OncePerWindow'
  BY DEF OncePerWindow
<1> QED
  BY <1>1, <1>2, <1>3, <1>4

LEMMA TickStep ==
  ASSUME LedgerInv, LedgerTypeOK', LedgerTick
  PROVE  LedgerInv'
<1> USE LedgerAssumption DEF LedgerInv, LedgerTypeOK, LedgerTimes, LedgerTick
<1>1. ASSUME NEW c \in Calls PROVE Timely(c)'
  BY DEF Timely, InFlight
<1>2. ASSUME NEW c \in Calls PROVE OwnsRow(c)'
  BY DEF OwnsRow, Owner, Processing
<1>3. ASSUME NEW c \in Calls PROVE Executed(c)'
  BY DEF Executed, Guarded, Owner
<1>4. OncePerWindow'
  BY DEF OncePerWindow
<1> QED
  BY <1>1, <1>2, <1>3, <1>4

LEMMA LedgerInvStep == LedgerInv /\ [LedgerNext]_ledgerVars => LedgerInv'
<1> SUFFICES ASSUME LedgerInv, [LedgerNext]_ledgerVars PROVE LedgerInv'
  OBVIOUS
<1>1. LedgerTypeOK'
  BY LedgerTypeStep DEF LedgerInv
<1>2. ASSUME NEW p \in Calls, ReadClock(p) \/ InsertClaim(p) \/ SelectClaim(p) \/ RenewClaim(p)
      PROVE  LedgerInv'
  BY <1>1, <1>2, ReadClockStep, InsertStep, SelectStep, RenewStep
<1>3. ASSUME NEW p \in Calls, Operate(p) \/ CompleteClaim(p) \/ ReleaseClaim(p)
      PROVE  LedgerInv'
  BY <1>1, <1>3, OperateStep, LedgerEndSteps
<1>4. CASE LedgerCrash \/ LedgerTick
  BY <1>1, <1>4, LedgerCrashStep, TickStep
<1>5. CASE UNCHANGED ledgerVars
  BY <1>5 DEF ledgerVars, LedgerInv, LedgerTypeOK, Timely, InFlight, OwnsRow, Owner,
     Processing, Executed, Guarded, OncePerWindow
<1> QED
  BY <1>2, <1>3, <1>4, <1>5 DEF LedgerNext

----------------------------------------------------------------------------
(* No two deliveries, retries or renewals of one key within a window       *)
(* (short of the time of a call) execute the command twice.                *)
THEOREM ExecutesOncePerWindow == LedgerSpec => []OncePerWindow
<1>1. LedgerInv => OncePerWindow
  BY DEF LedgerInv
<1> QED
  BY <1>1, LedgerInitInv, LedgerInvStep, PTL DEF LedgerSpec

----------------------------------------------------------------------------
(***************************************************************************)
(* ExternalRequests                                                        *)
(***************************************************************************)
(* The effect of an action is what its handler knows of it, and a result   *)
(* in a row or a file is that outcome.                                     *)
Known(q) ==
  /\ effect[q] = IF outcome[q] = "succeeded" THEN 1 ELSE 0
  /\ invocation[q] \in ExtResults \cup {"rejected"} => invocation[q] = outcome[q]
  /\ completion[q] # "none" => completion[q] = outcome[q] /\ q \notin NeedApproval

(* A request without an approval is recorded before it acts, and acts once.*)
DirectInOrder(q) ==
  /\ approval[q] = "none" /\ decider[q] = "none" /\ payload[q] = "none"
  /\ sender[q] \in {"unsent", "act", "complete", "done"}
  /\ sender[q] = "unsent" => invocation[q] = "none"
  /\ sender[q] \in {"unsent", "act"} => outcome[q] = "none"
  /\ sender[q] = "complete" => outcome[q] # "none"
  /\ sender[q] \in {"act", "complete"} \/ outcome[q] # "none" => invocation[q] # "none"
  /\ invocation[q] # "pending_approval" /\ outcome[q] # "rejected"

(* Only the handler that has claimed the approval knows an outcome before  *)
(* the approval's row does; the request's row follows in the same step.    *)
ApprovedInOrder(q) ==
  /\ sender[q] \in {"unsent", "create", "record", "delete", "done"}
  /\ sender[q] \in {"unsent", "create"} => approval[q] = "none"
  /\ sender[q] \in {"unsent", "create", "record", "delete"} => invocation[q] = "none"
  /\ sender[q] = "record" => approval[q] \in {"pending", "processing"}
  /\ approval[q] \in {"none", "pending"} => decider[q] = "none" /\ outcome[q] = "none"
  /\ approval[q] \in {"none", "pending", "processing"} => invocation[q] \in {"none", "pending_approval"}
  /\ decider[q] # "none" => approval[q] = "processing"
  /\ decider[q] \in {"act", "reject"} => outcome[q] = "none"
  /\ decider[q] = "finalize" => outcome[q] # "none"
  /\ approval[q] = "approved" <=> invocation[q] = "succeeded"
  /\ approval[q] = "rejected" => outcome[q] = "rejected"
  /\ payload[q] = "claimed" => approval[q] = "processing"
  /\ invocation[q] # "processing"

(* Nobody is served before the start has come to its end.                  *)
Idle(q) == external # "up" => sender[q] \in {"unsent", "done"} /\ decider[q] = "none"

RowsInOrder(q) ==
  /\ Idle(q)
  /\ IF q \in NeedApproval THEN ApprovedInOrder(q) ELSE DirectInOrder(q)

ExtInv == ExtTypeOK /\ \A q \in Invocations : Known(q) /\ RowsInOrder(q)

LEMMA RequestsInitInv == ExtInit => ExtInv
  BY ExternalAssumption DEF ExtInit, ExtInv, ExtTypeOK, Known, RowsInOrder,
     Idle, DirectInOrder, ApprovedInOrder, ExtResults

(* What a step leaves alone keeps what is known of it.                     *)
LEMMA Untouched ==
  ASSUME NEW q \in Invocations, Known(q), RowsInOrder(q),
         invocation'[q] = invocation[q], approval'[q] = approval[q],
         payload'[q] = payload[q], completion'[q] = completion[q],
         sender'[q] = sender[q], decider'[q] = decider[q],
         outcome'[q] = outcome[q], effect'[q] = effect[q], external' = external
  PROVE  Known(q)' /\ RowsInOrder(q)'
  BY DEF Known, RowsInOrder, Idle, DirectInOrder, ApprovedInOrder

----------------------------------------------------------------------------
(* Requests without an approval *)

LEMMA RecordFirstStep ==
  ASSUME ExtInv, NEW p \in Invocations, RecordFirst(p)
  PROVE  ExtInv'
<1> USE DEF RecordFirst, Sends, Decides, Writes, ExtFails, durable, others, ExtInv, ExtTypeOK, ExtResults
<1>1. ExtTypeOK' /\ Known(p)' /\ RowsInOrder(p)'
  BY ExternalAssumption DEF Known, RowsInOrder, Idle, DirectInOrder, ApprovedInOrder
<1>2. ASSUME NEW q \in Invocations, q # p
      PROVE  Known(q)' /\ RowsInOrder(q)'
  BY <1>2, Untouched
<1> QED
  BY <1>1, <1>2

LEMMA ActStep ==
  ASSUME ExtInv, NEW p \in Invocations, Act(p)
  PROVE  ExtInv'
<1> USE DEF Act, TakesEffect, Sends, Decides, Writes, ExtFails, durable, others, ExtInv, ExtTypeOK, ExtResults
<1>1. ExtTypeOK' /\ Known(p)' /\ RowsInOrder(p)'
  BY ExternalAssumption DEF Known, RowsInOrder, Idle, DirectInOrder, ApprovedInOrder
<1>2. ASSUME NEW q \in Invocations, q # p
      PROVE  Known(q)' /\ RowsInOrder(q)'
  BY <1>2, Untouched
<1> QED
  BY <1>1, <1>2

LEMMA CompleteInvocationStep ==
  ASSUME ExtInv, NEW p \in Invocations, CompleteInvocation(p)
  PROVE  ExtInv'
<1> USE DEF CompleteInvocation, Sends, Decides, Writes, ExtFails, durable, others, ExtInv, ExtTypeOK, ExtResults
<1>1. ExtTypeOK' /\ Known(p)' /\ RowsInOrder(p)'
  BY ExternalAssumption DEF Known, RowsInOrder, Idle, DirectInOrder, ApprovedInOrder
<1>2. ASSUME NEW q \in Invocations, q # p
      PROVE  Known(q)' /\ RowsInOrder(q)'
  BY <1>2, Untouched
<1> QED
  BY <1>1, <1>2

----------------------------------------------------------------------------
(* Requests that wait for an approval *)

LEMMA StageStep ==
  ASSUME ExtInv, NEW p \in Invocations, Stage(p)
  PROVE  ExtInv'
<1> USE DEF Stage, Sends, Decides, Writes, ExtFails, durable, others, ExtInv, ExtTypeOK, ExtResults
<1>1. ExtTypeOK' /\ Known(p)' /\ RowsInOrder(p)'
  BY ExternalAssumption DEF Known, RowsInOrder, Idle, DirectInOrder, ApprovedInOrder
<1>2. ASSUME NEW q \in Invocations, q # p
      PROVE  Known(q)' /\ RowsInOrder(q)'
  BY <1>2, Untouched
<1> QED
  BY <1>1, <1>2

LEMMA CreateApprovalStep ==
  ASSUME ExtInv, NEW p \in Invocations, CreateApproval(p)
  PROVE  ExtInv'
<1> USE DEF CreateApproval, Sends, Decides, Writes, ExtFails, durable, others, ExtInv, ExtTypeOK, ExtResults
<1>1. ExtTypeOK' /\ Known(p)' /\ RowsInOrder(p)'
  BY ExternalAssumption DEF Known, RowsInOrder, Idle, DirectInOrder, ApprovedInOrder
<1>2. ASSUME NEW q \in Invocations, q # p
      PROVE  Known(q)' /\ RowsInOrder(q)'
  BY <1>2, Untouched
<1> QED
  BY <1>1, <1>2

LEMMA RecordPendingStep ==
  ASSUME ExtInv, NEW p \in Invocations, RecordPending(p)
  PROVE  ExtInv'
<1> USE DEF RecordPending, Sends, Decides, Writes, ExtFails, durable, others, ExtInv, ExtTypeOK, ExtResults
<1>1. ExtTypeOK' /\ Known(p)' /\ RowsInOrder(p)'
  BY ExternalAssumption DEF Known, RowsInOrder, Idle, DirectInOrder, ApprovedInOrder
<1>2. ASSUME NEW q \in Invocations, q # p
      PROVE  Known(q)' /\ RowsInOrder(q)'
  BY <1>2, Untouched
<1> QED
  BY <1>1, <1>2

LEMMA DeleteApprovalStep ==
  ASSUME ExtInv, NEW p \in Invocations, DeleteApproval(p)
  PROVE  ExtInv'
<1> USE DEF DeleteApproval, Sends, Decides, Writes, ExtFails, durable, others, ExtInv, ExtTypeOK, ExtResults
<1>1. ExtTypeOK' /\ Known(p)' /\ RowsInOrder(p)'
  BY ExternalAssumption DEF Known, RowsInOrder, Idle, DirectInOrder, ApprovedInOrder
<1>2. ASSUME NEW q \in Invocations, q # p
      PROVE  Known(q)' /\ RowsInOrder(q)'
  BY <1>2, Untouched
<1> QED
  BY <1>1, <1>2

----------------------------------------------------------------------------
(* Decisions *)

LEMMA ClaimApprovalStep ==
  ASSUME ExtInv, NEW p \in Invocations, NEW next \in {"act", "reject"}, ClaimApproval(p, next)
  PROVE  ExtInv'
<1> USE DEF ClaimApproval, Sends, Decides, Writes, ExtFails, durable, others, ExtInv, ExtTypeOK, ExtResults
<1>1. ExtTypeOK' /\ Known(p)' /\ RowsInOrder(p)'
  BY ExternalAssumption DEF Known, RowsInOrder, Idle, DirectInOrder, ApprovedInOrder
<1>2. ASSUME NEW q \in Invocations, q # p
      PROVE  Known(q)' /\ RowsInOrder(q)'
  BY <1>2, Untouched
<1> QED
  BY <1>1, <1>2

LEMMA ActApprovedStep ==
  ASSUME ExtInv, NEW p \in Invocations, ActApproved(p)
  PROVE  ExtInv'
<1> USE DEF ActApproved, TakesEffect, Sends, Decides, Writes, ExtFails, durable, others, ExtInv, ExtTypeOK, ExtResults
<1>1. ExtTypeOK' /\ Known(p)' /\ RowsInOrder(p)'
  BY ExternalAssumption DEF Known, RowsInOrder, Idle, DirectInOrder, ApprovedInOrder
<1>2. ASSUME NEW q \in Invocations, q # p
      PROVE  Known(q)' /\ RowsInOrder(q)'
  BY <1>2, Untouched
<1> QED
  BY <1>1, <1>2

LEMMA RejectApprovalStep ==
  ASSUME ExtInv, NEW p \in Invocations, RejectApproval(p)
  PROVE  ExtInv'
<1> USE DEF RejectApproval, Sends, Decides, Writes, ExtFails, durable, others, ExtInv, ExtTypeOK, ExtResults
<1>1. ExtTypeOK' /\ Known(p)' /\ RowsInOrder(p)'
  BY ExternalAssumption DEF Known, RowsInOrder, Idle, DirectInOrder, ApprovedInOrder
<1>2. ASSUME NEW q \in Invocations, q # p
      PROVE  Known(q)' /\ RowsInOrder(q)'
  BY <1>2, Untouched
<1> QED
  BY <1>1, <1>2

LEMMA FinalizeApprovalStep ==
  ASSUME ExtInv, NEW p \in Invocations, FinalizeApproval(p)
  PROVE  ExtInv'
<1> USE DEF FinalizeApproval, ApprovalEnd, Sends, Decides, Writes, ExtFails, durable, others, ExtInv, ExtTypeOK, ExtResults
<1>1. ExtTypeOK' /\ Known(p)' /\ RowsInOrder(p)'
  BY ExternalAssumption DEF Known, RowsInOrder, Idle, DirectInOrder, ApprovedInOrder
<1>2. ASSUME NEW q \in Invocations, q # p
      PROVE  Known(q)' /\ RowsInOrder(q)'
  BY <1>2, Untouched
<1> QED
  BY <1>1, <1>2

----------------------------------------------------------------------------
(* Reconciliation *)

LEMMA ReplayStep ==
  ASSUME ExtInv, NEW p \in Invocations, Replay(p)
  PROVE  ExtInv'
<1> USE DEF Replay, Sends, Decides, Writes, ExtFails, durable, others, ExtInv, ExtTypeOK, ExtResults
<1>1. ExtTypeOK' /\ Known(p)' /\ RowsInOrder(p)'
  BY ExternalAssumption DEF Known, RowsInOrder, Idle, DirectInOrder, ApprovedInOrder
<1>2. ASSUME NEW q \in Invocations, q # p
      PROVE  Known(q)' /\ RowsInOrder(q)'
  BY <1>2, Untouched
<1> QED
  BY <1>1, <1>2

LEMMA GiveUpStep ==
  ASSUME ExtInv, NEW p \in Invocations, GiveUp(p)
  PROVE  ExtInv'
<1> USE DEF GiveUp, Sends, Decides, Writes, ExtFails, durable, others, ExtInv, ExtTypeOK, ExtResults
<1>1. ExtTypeOK' /\ Known(p)' /\ RowsInOrder(p)'
  BY ExternalAssumption DEF Known, RowsInOrder, Idle, DirectInOrder, ApprovedInOrder
<1>2. ASSUME NEW q \in Invocations, q # p
      PROVE  Known(q)' /\ RowsInOrder(q)'
  BY <1>2, Untouched
<1> QED
  BY <1>1, <1>2

----------------------------------------------------------------------------
(* Crash and start *)

LEMMA RequestsCrashStep ==
  ASSUME ExtInv, ExtCrash
  PROVE  ExtInv'
<1> USE DEF ExtCrash, durable, ExtInv, ExtTypeOK, ExtResults
<1>1. ExtTypeOK'
  OBVIOUS
<1>2. ASSUME NEW q \in Invocations
      PROVE  Known(q)' /\ RowsInOrder(q)'
  BY DEF Known, RowsInOrder, Idle, DirectInOrder, ApprovedInOrder
<1> QED
  BY <1>1, <1>2

LEMMA BootStep ==
  ASSUME ExtInv, ExtBoot
  PROVE  ExtInv'
<1> USE DEF ExtBoot, ExtInv, ExtTypeOK, ExtResults
<1>1. ExtTypeOK'
  OBVIOUS
<1>2. ASSUME NEW q \in Invocations
      PROVE  Known(q)' /\ RowsInOrder(q)'
  BY DEF Known, RowsInOrder, Idle, DirectInOrder, ApprovedInOrder
<1> QED
  BY <1>1, <1>2

LEMMA ReadyStep ==
  ASSUME ExtInv, ExtReady
  PROVE  ExtInv'
<1> USE DEF ExtReady, ExtInv, ExtTypeOK, ExtResults
<1>1. ExtTypeOK'
  OBVIOUS
<1>2. ASSUME NEW q \in Invocations
      PROVE  Known(q)' /\ RowsInOrder(q)'
  BY DEF Known, RowsInOrder, Idle, DirectInOrder, ApprovedInOrder
<1> QED
  BY <1>1, <1>2

(* The invariant is inductive. *)
LEMMA RequestsInvStep ==
  ASSUME ExtInv, [ExtNext]_extVars
  PROVE  ExtInv'
<1>1. ASSUME NEW p \in Invocations, RecordFirst(p) \/ Act(p) \/ CompleteInvocation(p)
      PROVE  ExtInv'
  BY <1>1, RecordFirstStep, ActStep, CompleteInvocationStep
<1>2. ASSUME NEW p \in Invocations,
             Stage(p) \/ CreateApproval(p) \/ RecordPending(p) \/ DeleteApproval(p)
      PROVE  ExtInv'
  BY <1>2, StageStep, CreateApprovalStep, RecordPendingStep, DeleteApprovalStep
<1>3. ASSUME NEW p \in Invocations, ClaimApproval(p, "act") \/ ClaimApproval(p, "reject")
      PROVE  ExtInv'
  BY <1>3, ClaimApprovalStep
<1>4. ASSUME NEW p \in Invocations, ActApproved(p) \/ RejectApproval(p) \/ FinalizeApproval(p)
      PROVE  ExtInv'
  BY <1>4, ActApprovedStep, RejectApprovalStep, FinalizeApprovalStep
<1>5. ASSUME NEW p \in Invocations, Replay(p) \/ GiveUp(p)
      PROVE  ExtInv'
  BY <1>5, ReplayStep, GiveUpStep
<1>6. CASE ExtCrash \/ ExtBoot \/ ExtReady
  BY <1>6, RequestsCrashStep, BootStep, ReadyStep
<1>7. CASE UNCHANGED extVars
  BY <1>7 DEF extVars, ExtInv, ExtTypeOK, Known, RowsInOrder, Idle, DirectInOrder, ApprovedInOrder
<1> QED
  BY <1>1, <1>2, <1>3, <1>4, <1>5, <1>6, <1>7 DEF ExtNext

LEMMA AlwaysInOrder == ExtSpec => []ExtInv
  BY RequestsInitInv, RequestsInvStep, PTL DEF ExtSpec

----------------------------------------------------------------------------
(* However requests, decisions, retries, replays and restarts meet, an     *)
(* action takes effect at most once.                                       *)
THEOREM NeverActsTwice == ExtSpec => []ActsOnce
<1>1. ASSUME ExtInv, NEW q \in Invocations
      PROVE  effect[q] \in {0, 1}
  BY <1>1 DEF ExtInv, Known
<1>2. ExtInv => ActsOnce
  <2> SUFFICES ASSUME ExtInv, NEW q \in Invocations
               PROVE  effect[q] <= 1
    BY Zenon DEF ActsOnce
  <2>1. effect[q] = 0 \/ effect[q] = 1
    BY <1>1, Zenon
  <2> QED
    BY <2>1, SMT
<1> QED
  BY <1>2, AlwaysInOrder, PTL

(* What rows and completion files say of an action is what became of it,   *)
(* after any failures and restarts.                                        *)
THEOREM RecordsAreTrue == ExtSpec => []HonestRecords
<1>1. ASSUME ExtInv, NEW q \in Invocations
      PROVE  /\ invocation[q] = "succeeded" \/ approval[q] = "approved" => effect[q] = 1
             /\ invocation[q] \in {"failed", "rejected"} \/ approval[q] = "rejected" => effect[q] = 0
             /\ completion[q] = "succeeded" => effect[q] = 1
             /\ completion[q] = "failed" => effect[q] = 0
  BY <1>1 DEF ExtInv, Known, RowsInOrder, DirectInOrder, ApprovedInOrder, ExtResults
<1>2. ASSUME ExtInv, NEW q \in Invocations, effect[q] > 0
      PROVE  invocation[q] # "none" \/ approval[q] \in {"processing", "failed"}
  BY <1>2 DEF ExtInv, ExtTypeOK, Known, RowsInOrder, Idle, DirectInOrder, ApprovedInOrder
<1>3. ASSUME ExtInv, NEW q \in Invocations
      PROVE  /\ approval[q] = "approved" <=> q \in NeedApproval /\ invocation[q] = "succeeded"
             /\ payload[q] = "claimed" => approval[q] = "processing"
  BY <1>3 DEF ExtInv, RowsInOrder, DirectInOrder, ApprovedInOrder
<1>4. ExtInv => HonestRecords
  BY <1>1, <1>2, <1>3 DEF HonestRecords
<1> QED
  BY <1>4, AlwaysInOrder, PTL

(* Both at once, as the run checks them: at most one effect of a request,  *)
(* and records that tell the truth about it.                               *)
THEOREM AlwaysOnceAndHonest == ExtSpec => []OnceAndHonest
<1>1. ActsOnce /\ HonestRecords => OnceAndHonest
  BY DEF OnceAndHonest
<1> QED
  BY <1>1, NeverActsTwice, RecordsAreTrue, PTL

----------------------------------------------------------------------------
(* ExternalRequests implements RequestOutcome *)

(* What a step may do to the rows and outcomes of the requests.            *)
Seen == <<invocation, outcome, effect>>

Opens(q) ==
  /\ invocation[q] = "none"
  /\ \E s \in {"processing", "pending_approval"} : invocation' = [invocation EXCEPT ![q] = s]
  /\ UNCHANGED <<outcome, effect>>

Settles(q) ==
  /\ outcome[q] = "none"
  /\ \E f \in ExtResults \cup {"rejected"} :
       /\ outcome' = [outcome EXCEPT ![q] = f]
       /\ effect' = [effect EXCEPT ![q] = IF f = "succeeded" THEN @ + 1 ELSE @]
  /\ UNCHANGED invocation

Answers(q) ==
  /\ outcome[q] # "none"
  /\ invocation[q] \in {"processing", "pending_approval", "unknown"}
  /\ invocation' = [invocation EXCEPT ![q] = outcome[q]]
  /\ UNCHANGED <<outcome, effect>>

Disclaims(Q) ==
  /\ \A q \in Q : invocation[q] \in {"processing", "pending_approval"}
  /\ invocation' = [q \in Invocations |-> IF q \in Q THEN "unknown" ELSE invocation[q]]
  /\ UNCHANGED <<outcome, effect>>

Visible ==
  \/ \E q \in Invocations : Opens(q) \/ Settles(q) \/ Answers(q)
  \/ \E Q \in SUBSET Invocations : Disclaims(Q)
  \/ UNCHANGED Seen

(* Writing a row again changes nothing.                                    *)
LEMMA WritesSame ==
  ASSUME NEW S, NEW f \in [Invocations -> S], NEW q \in Invocations
  PROVE  [f EXCEPT ![q] = f[q]] = f
OBVIOUS

(* What TakesEffect writes. *)
LEMMA EffectWritten ==
  ASSUME ExtTypeOK, NEW q \in Invocations, NEW f \in ExtResults, TakesEffect(q, f)
  PROVE  /\ outcome' = [outcome EXCEPT ![q] = f]
         /\ effect' = [effect EXCEPT ![q] = IF f = "succeeded" THEN @ + 1 ELSE @]
<1>1. effect[q] + (IF f = "succeeded" THEN 1 ELSE 0)
        = IF f = "succeeded" THEN effect[q] + 1 ELSE effect[q]
  BY DEF ExtTypeOK
<1> QED BY <1>1 DEF TakesEffect, Writes

(* Requests without an approval. *)
LEMMA DirectVisible ==
  ASSUME ExtInv, NEW q \in Invocations, RecordFirst(q) \/ Act(q) \/ CompleteInvocation(q)
  PROVE  Visible
<1>a. /\ ExtTypeOK /\ Known(q) /\ RowsInOrder(q)
      /\ invocation \in [Invocations -> ExtResults \cup
           {"none", "processing", "pending_approval", "rejected", "unknown"}]
  BY DEF ExtInv, ExtTypeOK
<1>1. CASE RecordFirst(q)
  <2>1. CASE UNCHANGED invocation
    BY <1>1, <2>1 DEF RecordFirst, Visible, Seen
  <2>2. CASE invocation' = Writes(invocation, q, "processing") /\ sender[q] = "unsent"
    <3>1. invocation[q] = "none"
      BY <1>1, <1>a, <2>2 DEF RecordFirst, RowsInOrder, DirectInOrder
    <3> QED BY <1>1, <2>2, <3>1 DEF RecordFirst, Writes, Visible, Opens
  <2> QED BY <1>1, <2>1, <2>2 DEF RecordFirst, Sends
<1>2. CASE Act(q)
  <2>1. outcome[q] = "none"
    BY <1>2, <1>a DEF Act, Sends, RowsInOrder, DirectInOrder, ApprovedInOrder
  <2>2. PICK f \in ExtResults : TakesEffect(q, f)
    BY <1>2 DEF Act
  <2>3. Settles(q)
    BY <1>2, <1>a, <2>1, <2>2, EffectWritten DEF Act, durable, Settles
  <2> QED BY <2>3 DEF Visible
<1>3. CASE CompleteInvocation(q)
  <2>1. CASE UNCHANGED invocation
    BY <1>3, <2>1 DEF CompleteInvocation, Visible, Seen
  <2>2. CASE invocation' = [invocation EXCEPT ![q] = outcome[q]]
    <3>1. outcome[q] # "none" /\ invocation[q] \notin {"none", "pending_approval"}
      BY <1>3, <1>a DEF CompleteInvocation, Sends, RowsInOrder, DirectInOrder,
         ApprovedInOrder
    <3>2. CASE invocation[q] \in ExtResults \cup {"rejected"}
      <4>1. invocation' = invocation
        BY <1>a, <2>2, <3>2, WritesSame DEF Known
      <4> QED BY <1>3, <4>1 DEF CompleteInvocation, Visible, Seen
    <3>3. CASE invocation[q] \in {"processing", "unknown"}
      BY <1>3, <2>2, <3>1, <3>3 DEF CompleteInvocation, Visible, Answers
    <3> QED BY <1>a, <3>1, <3>2, <3>3
  <2> QED BY <1>3, <2>1, <2>2 DEF CompleteInvocation, Writes
<1> QED BY <1>1, <1>2, <1>3

(* Requests that wait for an approval, and decisions. *)
LEMMA ApprovedVisible ==
  ASSUME ExtInv, NEW q \in Invocations,
         RecordPending(q) \/ ActApproved(q) \/ RejectApproval(q) \/ FinalizeApproval(q)
  PROVE  Visible
<1>a. ExtTypeOK /\ Known(q) /\ RowsInOrder(q)
  BY DEF ExtInv
<1>1. CASE RecordPending(q)
  <2>1. CASE UNCHANGED invocation
    BY <1>1, <2>1 DEF RecordPending, Visible, Seen
  <2>2. CASE sender[q] = "record" /\ invocation' = Writes(invocation, q, "pending_approval")
    <3>1. invocation[q] = "none"
      BY <1>a, <2>2 DEF RowsInOrder, DirectInOrder, ApprovedInOrder
    <3> QED BY <1>1, <2>2, <3>1 DEF RecordPending, Writes, Visible, Opens
  <2> QED BY <1>1, <2>1, <2>2 DEF RecordPending, Sends
<1>2. CASE ActApproved(q)
  <2>1. outcome[q] = "none"
    BY <1>2, <1>a DEF ActApproved, Decides, RowsInOrder, DirectInOrder, ApprovedInOrder
  <2>2. PICK f \in ExtResults : TakesEffect(q, f)
    BY <1>2 DEF ActApproved, ExtResults
  <2>3. Settles(q)
    BY <1>2, <1>a, <2>1, <2>2, EffectWritten DEF ActApproved, Settles
  <2> QED BY <2>3 DEF Visible
<1>3. CASE RejectApproval(q)
  <2>1. outcome[q] = "none"
    BY <1>3, <1>a DEF RejectApproval, Decides, RowsInOrder, DirectInOrder, ApprovedInOrder
  <2>2. effect' = [effect EXCEPT ![q] = IF "rejected" = "succeeded" THEN @ + 1 ELSE @]
    BY <1>3, <1>a, WritesSame DEF RejectApproval, ExtTypeOK
  <2>3. outcome' = [outcome EXCEPT ![q] = "rejected"] /\ UNCHANGED invocation
    BY <1>3 DEF RejectApproval, Writes
  <2>4. Settles(q)
    BY <2>1, <2>2, <2>3 DEF Settles
  <2> QED BY <2>4 DEF Visible
<1>4. CASE FinalizeApproval(q)
  <2>1. CASE UNCHANGED invocation
    BY <1>4, <2>1 DEF FinalizeApproval, Visible, Seen
  <2>2. CASE /\ invocation[q] = "pending_approval"
             /\ invocation' = Writes(invocation, q, outcome[q])
    <3>1. outcome[q] # "none"
      BY <1>4, <1>a DEF FinalizeApproval, Decides, RowsInOrder, DirectInOrder,
         ApprovedInOrder
    <3> QED BY <1>4, <2>2, <3>1 DEF FinalizeApproval, Writes, Visible, Answers
  <2> QED BY <1>4, <2>1, <2>2 DEF FinalizeApproval
<1> QED BY <1>1, <1>2, <1>3, <1>4

(* Replays, and what is given up. *)
LEMMA ReconcileVisible ==
  ASSUME ExtInv, (\E q \in Invocations : Replay(q) \/ GiveUp(q)) \/ ExtBoot \/ ExtReady
  PROVE  Visible
<1>a. /\ ExtTypeOK /\ \A q \in Invocations : Known(q) /\ RowsInOrder(q)
      /\ invocation \in [Invocations -> ExtResults \cup
           {"none", "processing", "pending_approval", "rejected", "unknown"}]
  BY DEF ExtInv, ExtTypeOK
<1>1. ASSUME NEW q \in Invocations, Replay(q)
      PROVE  Visible
  <2>1. invocation' = [invocation EXCEPT ![q] = outcome[q]] /\ outcome[q] # "none"
    BY <1>1, <1>a DEF Replay, Writes, Known
  <2>2. invocation[q] \notin {"none", "pending_approval"}
    BY <1>1, <1>a, <2>1 DEF Replay, Known, RowsInOrder, DirectInOrder
  <2>3. CASE invocation[q] \in ExtResults \cup {"rejected"}
    <3>1. invocation' = invocation
      BY <1>a, <2>1, <2>3, WritesSame DEF Known
    <3> QED BY <1>1, <3>1 DEF Replay, others, Visible, Seen
  <2>4. CASE invocation[q] \in {"processing", "unknown"}
    BY <1>1, <2>1, <2>4 DEF Replay, others, Visible, Answers
  <2> QED BY <1>a, <2>2, <2>3, <2>4
<1>2. ASSUME NEW q \in Invocations, GiveUp(q)
      PROVE  Visible
  <2>1. invocation' = [p \in Invocations |-> IF p \in {q} THEN "unknown" ELSE invocation[p]]
    BY <1>2, <1>a DEF GiveUp, Writes
  <2> QED BY <1>2, <2>1 DEF GiveUp, others, Visible, Disclaims
<1>3. CASE ExtBoot
  <2> DEFINE Q == {q \in Invocations :
                     invocation[q] = "pending_approval" /\ approval[q] = "processing"}
  <2>1. invocation' = [q \in Invocations |-> IF q \in Q THEN "unknown" ELSE invocation[q]]
    BY <1>3 DEF ExtBoot
  <2> QED BY <1>3, <2>1 DEF ExtBoot, Visible, Disclaims
<1>4. CASE ExtReady
  <2>1. PICK old \in SUBSET {q \in Invocations : invocation[q] = "processing"} :
          invocation' = [q \in Invocations |-> IF q \in old THEN "unknown" ELSE invocation[q]]
    BY <1>4 DEF ExtReady
  <2> QED BY <1>4, <2>1 DEF ExtReady, Visible, Disclaims
<1> QED BY <1>1, <1>2, <1>3, <1>4

(* Every step does one of these things. *)
LEMMA StepVisible ==
  ASSUME ExtInv, [ExtNext]_extVars
  PROVE  Visible
<1>1. ASSUME NEW q \in Invocations,
             \/ Stage(q) \/ CreateApproval(q) \/ DeleteApproval(q)
             \/ ClaimApproval(q, "act") \/ ClaimApproval(q, "reject")
      PROVE  UNCHANGED Seen
  BY <1>1 DEF Stage, CreateApproval, DeleteApproval, ClaimApproval, others, Seen
<1>2. ExtCrash \/ UNCHANGED extVars => UNCHANGED Seen
  BY DEF ExtCrash, durable, extVars, Seen
<1> QED
  BY <1>1, <1>2, DirectVisible, ApprovedVisible, ReconcileVisible
     DEF ExtNext, Visible

(* And each of them is a step of RequestOutcome, or none.                  *)
LEMMA OutcomeStep ==
  ASSUME ExtInv, Visible
  PROVE  [Outcome!Next]_(Outcome!vars)
<1> DEFINE F == [q \in Invocations |-> Fate(outcome[q])]
           T == [q \in Invocations |-> Told(invocation[q])]
<1>a. /\ invocation \in [Invocations -> ExtResults \cup
           {"none", "processing", "pending_approval", "rejected", "unknown"}]
      /\ outcome \in [Invocations -> ExtResults \cup {"none", "rejected"}]
      /\ effect \in [Invocations -> 0..2]
  BY DEF ExtInv, ExtTypeOK
<1>b. /\ Told("none") = "nothing" /\ Told("unknown") = "unknown"
      /\ Told("processing") = "open" /\ Told("pending_approval") = "open"
      /\ \A f \in ExtResults \cup {"rejected"} : Told(f) = f /\ Fate(f) = f
      /\ Fate("none") = "open"
  BY DEF Told, Fate, ExtResults
<1>1. ASSUME NEW q \in Invocations, Opens(q)
      PROVE  Outcome!Accept(q)
  <2>1. T[q] = "nothing" /\ F' = F
    BY <1>1, <1>b DEF Opens
  <2>2. T' = [T EXCEPT ![q] = "open"]
    BY <1>1, <1>a, <1>b DEF Opens
  <2> QED BY <1>1, <2>1, <2>2 DEF Opens, Outcome!Accept
<1>2. ASSUME NEW q \in Invocations, Settles(q)
      PROVE  Outcome!Settle(q)
  <2>1. PICK f \in ExtResults \cup {"rejected"} :
          /\ outcome' = [outcome EXCEPT ![q] = f]
          /\ effect' = [effect EXCEPT ![q] = IF f = "succeeded" THEN @ + 1 ELSE @]
    BY <1>2 DEF Settles
  <2>2. F[q] = "open" /\ T' = T
    BY <1>2, <1>b DEF Settles
  <2>3. F' = [F EXCEPT ![q] = f]
    BY <1>a, <1>b, <2>1
  <2>4. f \in Outcome!Fates
    BY DEF Outcome!Fates, ExtResults
  <2> QED BY <2>1, <2>2, <2>3, <2>4 DEF Outcome!Settle
<1>3. ASSUME NEW q \in Invocations, Answers(q)
      PROVE  Outcome!Answer(q)
  <2>1. outcome[q] \in ExtResults \cup {"rejected"} /\ F[q] = outcome[q]
    BY <1>3, <1>a, <1>b DEF Answers
  <2>2. F[q] # "open" /\ T[q] \in {"open", "unknown"} /\ F' = F
    BY <1>3, <1>b, <2>1 DEF Answers, ExtResults
  <2>3. T' = [T EXCEPT ![q] = F[q]]
    BY <1>3, <1>a, <1>b, <2>1 DEF Answers
  <2> QED BY <1>3, <2>2, <2>3 DEF Answers, Outcome!Answer
<1>4. ASSUME NEW Q \in SUBSET Invocations, Disclaims(Q)
      PROVE  Outcome!Disclaim(Q)
  <2>1. (\A q \in Q : T[q] = "open") /\ F' = F
    BY <1>4, <1>b DEF Disclaims
  <2>2. T' = [q \in Invocations |-> IF q \in Q THEN "unknown" ELSE T[q]]
    BY <1>4, <1>a, <1>b DEF Disclaims
  <2> QED BY <1>4, <2>1, <2>2 DEF Disclaims, Outcome!Disclaim
<1>5. UNCHANGED Seen => UNCHANGED Outcome!vars
  BY DEF Seen, Outcome!vars
<1> QED BY <1>1, <1>2, <1>3, <1>4, <1>5 DEF Visible, Outcome!Next

(* What a sender sees is what RequestOutcome allows: a fate decided once,  *)
(* with one effect at most, and the truth about it or no answer.           *)
THEOREM RequestsImplementOutcome == ExtSpec => ImplementsOutcome
<1>a. Told("none") = "nothing" /\ Fate("none") = "open"
  BY DEF Told, Fate, ExtResults
<1>1. ExtInit => Outcome!Init
  BY <1>a DEF ExtInit, Outcome!Init
<1>2. ExtInv /\ [ExtNext]_extVars => [Outcome!Next]_(Outcome!vars)
  BY StepVisible, OutcomeStep
<1> QED BY <1>1, <1>2, AlwaysInOrder, PTL DEF ExtSpec, ImplementsOutcome, Outcome!Spec

(* RequestOutcome itself: an answer is true, and final.                    *)
THEOREM OutcomeAnswers ==
  Outcome!Spec => []Outcome!TrueAnswers /\ Outcome!FinalAnswers
<1> DEFINE F == [q \in Invocations |-> Fate(outcome[q])]
           T == [q \in Invocations |-> Told(invocation[q])]
           AInv == effect \in [Invocations -> Nat] /\ Outcome!TrueAnswers
           Stay == \A q \in Invocations : T[q] \in Outcome!Fates => T'[q] = T[q]
<1>1. Outcome!Init => AInv
  <2> SUFFICES ASSUME Outcome!Init
               PROVE  AInv
    OBVIOUS
  <2>1. \A q \in Invocations : F[q] = "open" /\ T[q] = "nothing" /\ effect[q] = 0
    <3>1. F = [q \in Invocations |-> "open"] /\ T = [q \in Invocations |-> "nothing"]
      BY DEF Outcome!Init
    <3> HIDE DEF F, T
    <3> QED BY <3>1 DEF Outcome!Init
  <2>2. effect \in [Invocations -> Nat]
    BY DEF Outcome!Init
  <2>3. Outcome!TrueAnswers
    BY <2>1 DEF Outcome!TrueAnswers, Outcome!Fates
  <2> QED BY <2>2, <2>3
<1>2. ASSUME AInv, [Outcome!Next]_(Outcome!vars)
      PROVE  AInv' /\ Stay
  <2> DEFINE At(q) == /\ effect[q] = IF F[q] = "succeeded" THEN 1 ELSE 0
                      /\ T[q] \in Outcome!Fates => T[q] = F[q]
             Kept(q) == F'[q] = F[q] /\ T'[q] = T[q] /\ effect'[q] = effect[q]
             Good == /\ effect' \in [Invocations -> Nat]
                     /\ \A q \in Invocations : At(q)' /\ (T[q] \in Outcome!Fates => T'[q] = T[q])
  <2>a. Outcome!TrueAnswers <=> \A q \in Invocations : At(q)
    BY DEF Outcome!TrueAnswers
  <2>b. Outcome!TrueAnswers' <=> \A q \in Invocations : At(q)'
    BY DEF Outcome!TrueAnswers
  <2>c. Good => AInv' /\ Stay
    BY <2>b
  <2>d. F = [q \in Invocations |-> F[q]] /\ T = [q \in Invocations |-> T[q]]
    OBVIOUS
  <2>1. ASSUME NEW r \in Invocations, Outcome!Accept(r)
        PROVE  Good
    <3>1. T[r] = "nothing" /\ T' = [T EXCEPT ![r] = "open"] /\ F' = F /\ effect' = effect
      BY <2>1 DEF Outcome!Accept
    <3> HIDE DEF F, T
    <3> QED BY <1>2, <2>a, <2>d, <3>1 DEF Outcome!Fates
  <2>2. ASSUME NEW r \in Invocations, Outcome!Settle(r)
        PROVE  Good
    <3>1. PICK f \in Outcome!Fates :
            /\ F' = [F EXCEPT ![r] = f]
            /\ effect' = [effect EXCEPT ![r] = IF f = "succeeded" THEN @ + 1 ELSE @]
      BY <2>2 DEF Outcome!Settle
    <3>2. F[r] = "open" /\ T' = T
      BY <2>2 DEF Outcome!Settle
    <3> HIDE DEF F, T
    <3> QED BY <1>2, <2>a, <2>d, <3>1, <3>2 DEF Outcome!Fates
  <2>3. ASSUME NEW r \in Invocations, Outcome!Answer(r)
        PROVE  Good
    <3>1. /\ T[r] \in {"open", "unknown"} /\ T' = [T EXCEPT ![r] = F[r]]
          /\ F' = F /\ effect' = effect
      BY <2>3 DEF Outcome!Answer
    <3> HIDE DEF F, T
    <3> QED BY <1>2, <2>a, <2>d, <3>1 DEF Outcome!Fates
  <2>4. ASSUME NEW Q \in SUBSET Invocations, Outcome!Disclaim(Q)
        PROVE  Good
    <3>1. /\ \A q \in Q : T[q] = "open"
          /\ T' = [q \in Invocations |-> IF q \in Q THEN "unknown" ELSE T[q]]
          /\ F' = F /\ effect' = effect
      BY <2>4 DEF Outcome!Disclaim
    <3> HIDE DEF F, T
    <3> QED BY <1>2, <2>a, <2>d, <3>1 DEF Outcome!Fates
  <2>5. ASSUME UNCHANGED Outcome!vars
        PROVE  Good
    <3>1. T' = T /\ F' = F /\ effect' = effect
      BY <2>5 DEF Outcome!vars
    <3> HIDE DEF F, T
    <3>2. ASSUME NEW q \in Invocations
          PROVE  At(q)' /\ (T[q] \in Outcome!Fates => T'[q] = T[q])
      <4>1. At(q)
        BY <1>2, <2>a
      <4> QED BY <3>1, <4>1
    <3>3. effect' \in [Invocations -> Nat]
      BY <1>2, <3>1
    <3> QED BY <3>2, <3>3
  <2> HIDE DEF Good
  <2>6. Outcome!Next \/ UNCHANGED Outcome!vars
    BY <1>2
  <2>7. Outcome!Next => Good
    BY <2>1, <2>2, <2>3, <2>4 DEF Outcome!Next
  <2>8. Good
    BY <2>5, <2>6, <2>7
  <2> QED BY <2>c, <2>8
<1>3. AInv /\ [Outcome!Next]_(Outcome!vars) => AInv'
  BY <1>2
<1>4. AInv /\ [Outcome!Next]_(Outcome!vars) => [Stay]_(Outcome!vars)
  BY <1>2
<1>5. AInv => Outcome!TrueAnswers
  OBVIOUS
<1> HIDE DEF AInv
<1> QED BY <1>1, <1>3, <1>4, <1>5, PTL DEF Outcome!Spec, Outcome!FinalAnswers

(* An answer is never taken back: whoever has read a result reads the same *)
(* one after any replay, reconciliation, crash and restart.                *)
THEOREM AnswersStay ==
  ExtSpec => [][\A q \in Invocations :
                  invocation[q] \in ExtResults \cup {"rejected"}
                    => invocation'[q] = invocation[q]]_extVars
<1>1. ASSUME ExtInv, Visible, NEW q \in Invocations,
             invocation[q] \in ExtResults \cup {"rejected"}
      PROVE  invocation'[q] = invocation[q]
  BY <1>1 DEF ExtInv, ExtTypeOK, Visible, Opens, Settles, Answers, Disclaims, Seen,
     ExtResults
<1>2. ExtInv /\ [ExtNext]_extVars =>
        [\A q \in Invocations :
           invocation[q] \in ExtResults \cup {"rejected"}
             => invocation'[q] = invocation[q]]_extVars
  BY <1>1, StepVisible
<1> QED BY <1>2, AlwaysInOrder, PTL DEF ExtSpec

----------------------------------------------------------------------------
(***************************************************************************)
(* RunnerHost                                                              *)
(***************************************************************************)
Entering == {"launching", "storing"}
Entered == {"answering", "streaming", "waiting", "leaving"}

(* The entry a connection has in the table at each of its steps, and the   *)
(* steps at which it may have a process.                                   *)
HasEntry(c) ==
  /\ hostServing[c] \in Entering => hostTable[hostKey[c]] = Launching
  /\ hostServing[c] \in Entered => hostTable[hostKey[c]] = c
  /\ Live(c) => hostServing[c] \in {"storing", "answering", "streaming", "waiting"}

(* A Launching in the table belongs to one connection.                     *)
Apart ==
  \A c, d \in Connections :
    hostServing[c] \in Entering /\ hostServing[d] \in Entering /\ c # d
      => hostKey[c] # hostKey[d]

Taken == {k \in Keys : hostTable[k] # Free}

Fits == IsFiniteSet(Taken) /\ Cardinality(Taken) <= Maximum

HostInv == HostTypeOK /\ (\A c \in Connections : HasEntry(c)) /\ Apart /\ Fits

LEMMA HostInitInv == HostInit => HostInv
<1> SUFFICES ASSUME HostInit PROVE HostInv
  OBVIOUS
<1>1. Taken = {}
  BY DEF HostInit, Taken
<1>2. Fits
  BY <1>1, FS_EmptySet, HostAssumption DEF Fits
<1> QED
  BY <1>2 DEF HostInit, HostInv, HostTypeOK, HasEntry, Apart, Entering, Entered, Live

(* A table that loses entries, or keeps them, still fits.                  *)
LEMMA StillFits ==
  ASSUME Fits, Taken' \subseteq Taken, Maximum \in Nat
  PROVE  Fits'
<1>1. IsFiniteSet(Taken') /\ Cardinality(Taken') <= Cardinality(Taken)
  BY FS_Subset DEF Fits
<1>2. Cardinality(Taken) \in Nat /\ Cardinality(Taken') \in Nat
  BY <1>1, FS_CardinalityType DEF Fits
<1> QED
  BY <1>1, <1>2 DEF Fits

----------------------------------------------------------------------------
(* The steps that change no entry                                          *)

LEMMA SteadySteps ==
  ASSUME HostInv, NEW p \in Connections,
         \/ Accept(p) \/ CountConnection(p) \/ RefuseEnvelope(p) \/ AnswerLaunch(p)
         \/ Control(p) \/ DrainStreams(p) \/ Reap(p) \/ ProcessExits(p) \/ PeerLeaves(p)
  PROVE  HostInv'
<1> USE DEF HostInv, HostTypeOK, Serves, Live, KillAll, Entering, Entered
<1> USE DEF Accept, CountConnection, RefuseEnvelope, AnswerLaunch,
            Control, DrainStreams, Reap, ProcessExits, PeerLeaves
<1>1. HostTypeOK'
  OBVIOUS
<1>2. \A c \in Connections : HasEntry(c)'
  BY DEF HasEntry
<1>3. Apart'
  BY DEF Apart
<1>4. Fits'
  BY StillFits, HostAssumption DEF Taken
<1> QED
  BY <1>1, <1>2, <1>3, <1>4

LEMMA CloseSteps ==
  ASSUME HostInv, CloseListener \/ TerminateEntries \/ CloseReturns
  PROVE  HostInv'
<1> USE DEF HostInv, HostTypeOK, CloseListener, TerminateEntries, CloseReturns, KillAll
<1>1. HostTypeOK'
  OBVIOUS
<1>2. \A c \in Connections : HasEntry(c)'
  BY DEF HasEntry, Live, Entering, Entered
<1>3. Apart' /\ Fits'
  BY DEF Apart, Fits, Taken, Entering
<1> QED
  BY <1>1, <1>2, <1>3

----------------------------------------------------------------------------
(* The steps that change one                                               *)

LEMMA AdmitStep ==
  ASSUME HostInv, NEW p \in Connections, Admit(p)
  PROVE  HostInv'
<1> USE DEF HostInv, HostTypeOK, Serves, Admit
<1>1. HostTypeOK'
  BY HostAssumption
<1>2. \A c \in Connections : HasEntry(c)'
  BY HostAssumption DEF HasEntry, Live, Entering, Entered
<1>3. Apart'
  BY HostAssumption DEF HasEntry, Apart, Entering
<1>4. CASE UNCHANGED hostTable
  <2>1. Fits'
    BY <1>4, StillFits, HostAssumption DEF Taken
  <2> QED
    BY <2>1, <1>1, <1>2, <1>3
<1>5. CASE /\ hostTable[hostKey[p]] = Free /\ TableSize < Maximum
           /\ hostTable' = [hostTable EXCEPT ![hostKey[p]] = Launching]
  <2>1. Taken' = Taken \cup {hostKey[p]} /\ hostKey[p] \notin Taken
    BY <1>5, HostAssumption DEF Taken
  <2>2. IsFiniteSet(Taken') /\ Cardinality(Taken') = Cardinality(Taken) + 1
    BY <2>1, FS_AddElement DEF Fits
  <2>3. Cardinality(Taken) < Maximum /\ Cardinality(Taken) \in Nat
    BY <1>5, FS_CardinalityType DEF TableSize, Taken, Fits
  <2>4. Fits'
    BY <2>2, <2>3, HostAssumption DEF Fits
  <2> QED
    BY <2>4, <1>1, <1>2, <1>3
<1> QED
  BY <1>4, <1>5 DEF Admit

LEMMA LaunchStep ==
  ASSUME HostInv, NEW p \in Connections, Launch(p)
  PROVE  HostInv'
<1> USE DEF HostInv, HostTypeOK, Serves, Launch, RemoveEntry
<1>1. HostTypeOK'
  OBVIOUS
<1>2. \A c \in Connections : HasEntry(c)'
  BY HostAssumption DEF HasEntry, Apart, Live, Entering, Entered
<1>3. Apart'
  BY DEF Apart, Entering
<1>4. Fits'
  BY StillFits, HostAssumption DEF Taken
<1> QED
  BY <1>1, <1>2, <1>3, <1>4

LEMMA StoreStep ==
  ASSUME HostInv, NEW p \in Connections, StoreProcess(p)
  PROVE  HostInv'
<1> USE DEF HostInv, HostTypeOK, Serves, StoreProcess
<1>1. HostTypeOK'
  OBVIOUS
<1>2. \A c \in Connections : HasEntry(c)'
  BY HostAssumption DEF HasEntry, Apart, Live, Entering, Entered
<1>3. Apart'
  BY DEF Apart, Entering
<1>4. Taken' \subseteq Taken
  BY HostAssumption DEF Taken, HasEntry, Entering
<1>5. Fits'
  BY <1>4, StillFits, HostAssumption
<1> QED
  BY <1>1, <1>2, <1>3, <1>5

LEMMA LeaveStep ==
  ASSUME HostInv, NEW p \in Connections, Leave(p)
  PROVE  HostInv'
<1> USE DEF HostInv, HostTypeOK, Serves, Leave, RemoveEntry
<1>1. HostTypeOK'
  OBVIOUS
<1>2. \A c \in Connections : HasEntry(c)'
  BY HostAssumption DEF HasEntry, Live, Entering, Entered
<1>3. Apart'
  BY DEF Apart, Entering
<1>4. Fits'
  BY StillFits, HostAssumption DEF Taken
<1> QED
  BY <1>1, <1>2, <1>3, <1>4

LEMMA HostInvStep == HostInv /\ [HostNext]_hostVars => HostInv'
<1> SUFFICES ASSUME HostInv, [HostNext]_hostVars PROVE HostInv'
  OBVIOUS
<1>1. ASSUME NEW p \in Connections,
             \/ Accept(p) \/ CountConnection(p) \/ RefuseEnvelope(p) \/ AnswerLaunch(p)
             \/ Control(p) \/ DrainStreams(p) \/ Reap(p) \/ ProcessExits(p) \/ PeerLeaves(p)
      PROVE  HostInv'
  BY <1>1, SteadySteps
<1>2. ASSUME NEW p \in Connections, Admit(p) \/ Launch(p) \/ StoreProcess(p) \/ Leave(p)
      PROVE  HostInv'
  BY <1>2, AdmitStep, LaunchStep, StoreStep, LeaveStep
<1>3. CASE CloseListener \/ TerminateEntries \/ CloseReturns
  BY <1>3, CloseSteps
<1>4. CASE UNCHANGED hostVars
  BY <1>4 DEF hostVars, HostInv, HostTypeOK, HasEntry, Apart, Fits, Taken, Live
<1> QED
  BY <1>1, <1>2, <1>3, <1>4 DEF HostNext

----------------------------------------------------------------------------
(* What the invariant says of processes                                    *)

LEMMA InvEntered == HostInv => RunnersEntered
<1> SUFFICES ASSUME HostInv PROVE RunnersEntered
  OBVIOUS
<1>1. TableSize <= Maximum
  BY DEF HostInv, Fits, Taken, TableSize
<1>2. ASSUME NEW c \in Connections, Live(c)
      PROVE  hostTable[hostKey[c]] = IF hostServing[c] = "storing" THEN Launching ELSE c
  BY <1>2 DEF HostInv, HasEntry, Entering, Entered
<1>3. ASSUME NEW c \in Connections, NEW d \in Connections \ {c}, Live(c), Live(d)
      PROVE  hostKey[d] # hostKey[c]
  BY <1>3, HostAssumption DEF HostInv, HasEntry, Apart, Entering, Entered
<1> QED
  BY <1>1, <1>2, <1>3 DEF RunnersEntered

LEMMA ReturnsAlone ==
  ASSUME HostInv, [HostNext]_hostVars, hostClosing' = "returned", hostClosing # "returned"
  PROVE  \A c \in Connections : ~Live(c)
<1>1. CloseReturns
  BY DEF HostNext, hostVars, Accept, CountConnection, RefuseEnvelope, Admit, Launch,
     StoreProcess, AnswerLaunch, Control, DrainStreams, Reap, Leave, ProcessExits,
     PeerLeaves, CloseListener, TerminateEntries
<1>2. \A c \in Connections : hostServing[c] \in {"new", "accepted", "ended"}
  BY <1>1 DEF CloseReturns
<1> QED
  BY <1>2 DEF HostInv, HasEntry

(* However launches, failures, leavings and Close meet, there are no more  *)
(* processes than the table holds and no two of a run, and Close returns   *)
(* nil only when there is none.                                            *)
THEOREM RunnersAlwaysBounded == HostSpec => RunnersBounded
<1>1. ASSUME HostInv, HostInv', [HostNext]_hostVars
      PROVE  /\ RunnersEntered'
             /\ hostClosing' = "returned" =>
                  hostClosing = "returned" \/ \A c \in Connections : ~Live(c)
  <2>1. RunnersEntered'
    BY <1>1, InvEntered, PTL
  <2> QED
    BY <1>1, <2>1, ReturnsAlone
<1> QED
  BY <1>1, HostInitInv, HostInvStep, PTL DEF HostSpec, RunnersBounded
=============================================================================
