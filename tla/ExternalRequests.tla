-------------------------- MODULE ExternalRequests --------------------------
(***************************************************************************)
(* Requests to the external interface, with and without an approval: the   *)
(* request row, the approval row, the staged upload, and the completion    *)
(* files that are replayed when the database could not take a result       *)
(* (internal/externaltrigger, internal/externalapproval,                   *)
(* internal/web/external_interfaces.go).  Keys, limits, signatures and     *)
(* what an action does are left out: an action takes effect or fails.      *)
(***************************************************************************)
EXTENDS Naturals

CONSTANTS
  Invocations,
  NeedApproval,  \* their entries require an approval
  Uploads,       \* they bring a file, which is staged for the approval
  MaxExtFaults   \* bound on failing statements, crashes not included

ASSUME ExternalAssumption ==
  /\ Uploads \subseteq NeedApproval /\ NeedApproval \subseteq Invocations
  /\ MaxExtFaults \in Nat

VARIABLES
  invocation,  \* external_trigger_requests.result
  approval,    \* external_trigger_approvals.status
  payload,     \* the staged upload: a directory, or a claimed one
  completion,  \* the queued completion file
  sender,      \* the next step of the request's handler
  decider,     \* the next step of the administrator's handler
  outcome,     \* the result of the action, known to its handler
  effect,      \* history: how often the action took effect
  external,    \* "down", "starting", "up"
  extFaults

extVars == <<invocation, approval, payload, completion, sender, decider,
             outcome, effect, external, extFaults>>

ExtResults == {"succeeded", "failed"}

ExtTypeOK ==
  /\ invocation \in [Invocations -> ExtResults \cup
       {"none", "processing", "pending_approval", "rejected", "unknown"}]
  /\ approval \in [Invocations ->
       {"none", "pending", "processing", "approved", "rejected", "failed"}]
  /\ payload \in [Invocations -> {"none", "staged", "claimed"}]
  /\ completion \in [Invocations -> ExtResults \cup {"none"}]
  /\ sender \in [Invocations ->
       {"unsent", "act", "complete", "create", "record", "delete", "done"}]
  /\ decider \in [Invocations -> {"none", "act", "finalize", "reject"}]
  /\ outcome \in [Invocations -> ExtResults \cup {"none", "rejected"}]
  /\ effect \in [Invocations -> 0..2]
  /\ external \in {"down", "starting", "up"} /\ extFaults \in 0..MaxExtFaults

ExtInit ==
  /\ invocation = [q \in Invocations |-> "none"]
  /\ approval = [q \in Invocations |-> "none"]
  /\ payload = [q \in Invocations |-> "none"]
  /\ completion = [q \in Invocations |-> "none"]
  /\ sender = [q \in Invocations |-> "unsent"]
  /\ decider = [q \in Invocations |-> "none"]
  /\ outcome = [q \in Invocations |-> "none"]
  /\ effect = [q \in Invocations |-> 0]
  /\ external = "up" /\ extFaults = 0

Sends(q, from, to) == sender[q] = from /\ sender' = [sender EXCEPT ![q] = to]
Decides(q, from, to) == decider[q] = from /\ decider' = [decider EXCEPT ![q] = to]
Writes(f, q, v) == [f EXCEPT ![q] = v]
ExtFails == extFaults < MaxExtFaults /\ extFaults' = extFaults + 1

durable == <<invocation, approval, payload, completion>>
others == <<outcome, effect, external, extFaults>>

----------------------------------------------------------------------------
(* externalTrigger without an approval: runRecordedExternalAction *)

RecordFirst(q) ==
  /\ q \notin NeedApproval /\ external = "up"
  /\ \/ Sends(q, "unsent", "act") /\ invocation' = Writes(invocation, q, "processing")
        /\ UNCHANGED extFaults
     \/ Sends(q, "unsent", "done") /\ ExtFails /\ UNCHANGED invocation
  /\ UNCHANGED <<approval, payload, completion, decider, outcome, effect, external>>

TakesEffect(q, result) ==
  /\ outcome' = Writes(outcome, q, result)
  /\ effect' = Writes(effect, q, effect[q] + IF result = "succeeded" THEN 1 ELSE 0)

Act(q) ==
  /\ Sends(q, "act", "complete")
  /\ \E result \in ExtResults : TakesEffect(q, result)
  /\ UNCHANGED <<durable, decider, external, extFaults>>

(* CompleteInvocation: the row, or the file if the row cannot be written   *)
(* (the client has gone and the request's context with it), or neither.    *)
CompleteInvocation(q) ==
  /\ Sends(q, "complete", "done")
  /\ \/ /\ invocation' = Writes(invocation, q, outcome[q])
        /\ completion' = Writes(completion, q, "none") /\ UNCHANGED extFaults
     \/ /\ completion' = Writes(completion, q, outcome[q])
        /\ UNCHANGED <<invocation, extFaults>>
     \/ ExtFails /\ UNCHANGED <<invocation, completion>>
  /\ UNCHANGED <<approval, payload, decider, outcome, effect, external>>

----------------------------------------------------------------------------
(* queueExternalApproval *)

Stage(q) ==
  /\ q \in NeedApproval /\ external = "up"
  /\ Sends(q, "unsent", "create")
  /\ payload' = IF q \in Uploads THEN Writes(payload, q, "staged") ELSE payload
  /\ UNCHANGED <<invocation, approval, completion, decider, others>>

CreateApproval(q) ==
  /\ \/ Sends(q, "create", "record") /\ approval' = Writes(approval, q, "pending")
        /\ UNCHANGED <<payload, extFaults>>
     \/ Sends(q, "create", "done") /\ ExtFails
        /\ payload' = Writes(payload, q, "none") /\ UNCHANGED approval
  /\ UNCHANGED <<invocation, completion, decider, outcome, effect, external>>

RecordPending(q) ==
  /\ \/ Sends(q, "record", "done") /\ UNCHANGED extFaults
        /\ invocation' = Writes(invocation, q, "pending_approval")
     \/ Sends(q, "record", "delete") /\ ExtFails /\ UNCHANGED invocation
  /\ UNCHANGED <<approval, payload, completion, decider, outcome, effect, external>>

(* DeleteApproval spares an approval that is no longer pending, and its    *)
(* error is dropped: what made the insertion fail, a client that has gone, *)
(* makes it fail too.  Remove does not find a payload that was claimed.    *)
DeleteApproval(q) ==
  /\ Sends(q, "delete", "done")
  /\ \/ approval[q] = "pending" /\ approval' = Writes(approval, q, "none")
     \/ UNCHANGED approval
  /\ payload' = IF payload[q] = "staged" THEN Writes(payload, q, "none") ELSE payload
  /\ UNCHANGED <<invocation, completion, decider, others>>

----------------------------------------------------------------------------
(* approveExternalInvocation and rejectExternalInvocation *)

(* Mutant: whoever asks gets the approval. *)
ClaimAny(q, next) ==
  /\ external = "up" /\ approval[q] # "none"
  /\ Decides(q, "none", next)
  /\ approval' = Writes(approval, q, "processing")
  /\ UNCHANGED <<invocation, payload, completion, sender, others>>

ClaimApproval(q, next) ==
  /\ external = "up" /\ approval[q] = "pending"
  /\ Decides(q, "none", next)
  /\ approval' = Writes(approval, q, "processing")
  /\ UNCHANGED <<invocation, payload, completion, sender, others>>

(* The target must still be what was asked for, and an upload must still   *)
(* be staged (Store.Claim renames it).                                     *)
ActApproved(q) ==
  /\ Decides(q, "act", "finalize")
  /\ \/ TakesEffect(q, "failed")
        /\ payload' = IF payload[q] = "staged" THEN Writes(payload, q, "none") ELSE payload
     \/ /\ q \in Uploads => payload[q] = "staged"
        /\ TakesEffect(q, "succeeded")
        /\ payload' = IF q \in Uploads THEN Writes(payload, q, "claimed") ELSE payload
  /\ UNCHANGED <<invocation, approval, completion, sender, external, extFaults>>

RejectApproval(q) ==
  /\ Decides(q, "reject", "finalize")
  /\ payload' = IF payload[q] = "staged" THEN Writes(payload, q, "none") ELSE payload
  /\ outcome' = Writes(outcome, q, "rejected")
  /\ UNCHANGED <<invocation, approval, completion, sender, effect, external, extFaults>>

ApprovalEnd(result) == IF result = "succeeded" THEN "approved" ELSE result

(* Mutant: the two rows are not written in one transaction. *)
FinalizeAlone(q) ==
  /\ Decides(q, "finalize", "none")
  /\ payload' = Writes(payload, q, "none")
  /\ approval' = Writes(approval, q, ApprovalEnd(outcome[q]))
  /\ invocation' = IF invocation[q] = "pending_approval"
                     THEN Writes(invocation, q, "rejected") ELSE invocation
  /\ UNCHANGED <<completion, sender, others>>

(* Both rows in one transaction, each only in the state it must have.      *)
FinalizeApproval(q) ==
  /\ Decides(q, "finalize", "none")
  /\ payload' = IF payload[q] = "claimed" THEN Writes(payload, q, "none") ELSE payload
  /\ \/ /\ approval[q] = "processing" /\ invocation[q] = "pending_approval"
        /\ approval' = Writes(approval, q, ApprovalEnd(outcome[q]))
        /\ invocation' = Writes(invocation, q, outcome[q])
        /\ UNCHANGED extFaults
     \/ /\ approval[q] # "processing" \/ invocation[q] # "pending_approval"
        /\ UNCHANGED <<approval, invocation, extFaults>>
     \/ ExtFails /\ UNCHANGED <<approval, invocation>>
  /\ UNCHANGED <<completion, sender, outcome, effect, external>>

----------------------------------------------------------------------------
(* Crash, start, and the monitor *)

ExtCrash ==
  /\ external # "down" /\ external' = "down"
  /\ sender' = [q \in Invocations |-> IF sender[q] = "unsent" THEN "unsent" ELSE "done"]
  /\ decider' = [q \in Invocations |-> "none"]
  /\ UNCHANGED <<durable, outcome, effect, extFaults>>

(* externalapproval.New, RecoverApprovals, Retain *)
ExtBoot ==
  /\ external = "down" /\ external' = "starting"
  /\ invocation' = [q \in Invocations |->
       IF invocation[q] = "pending_approval" /\ approval[q] = "processing"
         THEN "unknown" ELSE invocation[q]]
  /\ approval' = [q \in Invocations |->
       IF approval[q] = "processing" THEN "failed" ELSE approval[q]]
  /\ payload' = [q \in Invocations |->
       IF payload[q] = "staged" /\ approval[q] = "pending" THEN "staged" ELSE "none"]
  /\ UNCHANGED <<completion, sender, decider, outcome, effect, extFaults>>

(* ReconcileInvocations: a file is replayed and removed; a crash may come  *)
(* between the two.                                                        *)
Replay(q) ==
  /\ external # "down" /\ completion[q] # "none"
  /\ invocation' = Writes(invocation, q, completion[q])
  /\ completion' \in {completion, Writes(completion, q, "none")}
  /\ UNCHANGED <<approval, payload, sender, decider, others>>

(* What has been processing for five minutes; it may still be at work.     *)
GiveUp(q) ==
  /\ external = "up" /\ invocation[q] = "processing"
  /\ invocation' = Writes(invocation, q, "unknown")
  /\ UNCHANGED <<approval, payload, completion, sender, decider, others>>

(* The start replays all files before requests are served, and gives up    *)
(* all of `old`.                                                           *)
ExtReady ==
  /\ external = "starting" /\ \A q \in Invocations : completion[q] = "none"
  /\ external' = "up"
  /\ \E old \in SUBSET {q \in Invocations : invocation[q] = "processing"} :
       invocation' = [q \in Invocations |-> IF q \in old THEN "unknown" ELSE invocation[q]]
  /\ UNCHANGED <<approval, payload, completion, sender, decider, outcome, effect, extFaults>>

ExtNext ==
  \/ \E q \in Invocations :
       \/ RecordFirst(q) \/ Act(q) \/ CompleteInvocation(q)
       \/ Stage(q) \/ CreateApproval(q) \/ RecordPending(q) \/ DeleteApproval(q)
       \/ ClaimApproval(q, "act") \/ ClaimApproval(q, "reject")
       \/ ActApproved(q) \/ RejectApproval(q) \/ FinalizeApproval(q)
       \/ Replay(q) \/ GiveUp(q)
  \/ ExtCrash \/ ExtBoot \/ ExtReady

ExtSpec == ExtInit /\ [][ExtNext]_extVars

----------------------------------------------------------------------------
(* An action takes effect at most once, whoever approves, retries,         *)
(* replays or restarts in between.  (ADR 0169)                             *)
ActsOnce == \A q \in Invocations : effect[q] <= 1

(* What the records say of an action is true: a result only after the      *)
(* action, with the effect it names; a refusal only without an effect; and *)
(* no action without a record of it.  'unknown' says nothing.              *)
HonestRecords ==
  \A q \in Invocations :
    /\ invocation[q] = "succeeded" \/ approval[q] = "approved" => effect[q] = 1
    /\ invocation[q] \in {"failed", "rejected"} \/ approval[q] = "rejected" => effect[q] = 0
    /\ completion[q] = "succeeded" => effect[q] = 1
    /\ completion[q] = "failed" => effect[q] = 0
    /\ effect[q] > 0 => invocation[q] # "none" \/ approval[q] \in {"processing", "failed"}
    /\ approval[q] = "approved" <=> q \in NeedApproval /\ invocation[q] = "succeeded"
    /\ payload[q] = "claimed" => approval[q] = "processing"

(* Both: at most one effect, and records that say so.                      *)
OnceAndHonest == ActsOnce /\ HonestRecords

(* What the sender of a request sees of all this: RequestOutcome. *)
Fate(result) == IF result = "none" THEN "open" ELSE result
Told(row) ==
  CASE row = "none" -> "nothing"
    [] row \in {"processing", "pending_approval"} -> "open"
    [] row \in ExtResults \cup {"rejected", "unknown"} -> row

Outcome == INSTANCE RequestOutcome
  WITH Requests <- Invocations, effects <- effect,
       fate <- [q \in Invocations |-> Fate(outcome[q])],
       told <- [q \in Invocations |-> Told(invocation[q])]

ImplementsOutcome == Outcome!Spec
=============================================================================
