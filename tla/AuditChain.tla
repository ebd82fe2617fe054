----------------------------- MODULE AuditChain -----------------------------
(***************************************************************************)
(* The audit log's hash chain (internal/auditlog), the signed checkpoint   *)
(* beside the database (internal/auditcheckpoint) and the retention that   *)
(* shortens the chain at every start (internal/audit/retention.go).  The   *)
(* hash of event n is n, and its previous hash n - 1: digests collide      *)
(* never.                                                                  *)
(***************************************************************************)
EXTENDS Naturals

CONSTANTS
  MaxEvents,   \* bound on the identifiers
  AuditFaults  \* bound on sources or rows that cannot be removed

ASSUME AuditAssumption == MaxEvents \in Nat /\ AuditFaults \in Nat

VARIABLES
  auditEvents,   \* audit_events
  auditAnchor,   \* audit_chain_state.anchor_hash
  auditTail,     \* audit_chain_state.tail_hash
  auditFile,     \* the event the checkpoint names
  auditExpired,  \* the events up to this one are more than a year old
  auditService,  \* "down", "cleaning", "up", "refused"
  auditTodo,     \* the candidates retention has still to visit
  auditFaults

auditVars == <<auditEvents, auditAnchor, auditTail, auditFile, auditExpired,
               auditService, auditTodo, auditFaults>>

Events == 1..MaxEvents

AuditTypeOK ==
  /\ auditEvents \subseteq Events
  /\ auditAnchor \in 0..MaxEvents /\ auditTail \in 0..MaxEvents
  /\ auditFile \in 0..MaxEvents /\ auditExpired \in 0..MaxEvents
  /\ auditService \in {"down", "cleaning", "up", "refused"}
  /\ auditTodo \subseteq Events /\ auditFaults \in 0..AuditFaults

AuditInit ==
  /\ auditEvents = {} /\ auditAnchor = 0 /\ auditTail = 0 /\ auditFile = 0
  /\ auditExpired = 0 /\ auditService = "down" /\ auditTodo = {} /\ auditFaults = 0

(* verifyTransaction: from the anchor, every event follows the one before, *)
(* and the last one is the tail.                                           *)
Linked == auditEvents = (auditAnchor + 1)..auditTail

(* verifyCheckpointTransaction *)
CheckpointFound == IF auditFile = 0 THEN auditAnchor = 0 ELSE auditFile \in auditEvents

Verifies == Linked /\ CheckpointFound

----------------------------------------------------------------------------

(* Append: event and tail in one transaction. *)
AuditAppend ==
  /\ auditService = "up" /\ auditTail < MaxEvents
  /\ auditEvents' = auditEvents \cup {auditTail + 1}
  /\ auditTail' = auditTail + 1
  /\ UNCHANGED <<auditAnchor, auditFile, auditExpired, auditService, auditTodo, auditFaults>>

(* Write, every five minutes; a chain that does not verify keeps the old   *)
(* checkpoint.                                                             *)
WriteCheckpoint ==
  /\ auditService = "up" /\ Verifies
  /\ auditFile' = auditTail
  /\ UNCHANGED <<auditEvents, auditAnchor, auditTail, auditExpired, auditService,
                 auditTodo, auditFaults>>

(* Mutant: the event the checkpoint names is not preserved. *)
ExpiredAll == {e \in auditEvents : e <= auditExpired}

Expired == {e \in auditEvents : e <= auditExpired /\ (auditFile > 0 => e < auditFile)}

(* VerifyOrBootstrap, and the list of CleanupExpiredEventsBefore. *)
AuditStart ==
  /\ auditService \in {"down", "refused"}
  /\ auditService' = IF Verifies THEN "cleaning" ELSE "refused"
  /\ auditTodo' = IF Verifies THEN Expired ELSE {}
  /\ UNCHANGED <<auditEvents, auditAnchor, auditTail, auditFile, auditExpired, auditFaults>>

Oldest == CHOOSE e \in auditTodo : \A f \in auditTodo : e <= f

(* A candidate that cannot be removed is passed over. *)
CleanOne ==
  /\ auditService = "cleaning" /\ auditTodo # {}
  /\ auditTodo' = auditTodo \ {Oldest}
  /\ \/ /\ auditEvents' = auditEvents \ {Oldest} /\ auditAnchor' = Oldest
        /\ UNCHANGED auditFaults
     \/ /\ auditFaults < AuditFaults /\ auditFaults' = auditFaults + 1
        /\ UNCHANGED <<auditEvents, auditAnchor>>
  /\ UNCHANGED <<auditTail, auditFile, auditExpired, auditService>>

(* The errors of retention are dropped; those of Write are not. *)
CleanDone ==
  /\ auditService = "cleaning" /\ auditTodo = {}
  /\ IF Verifies THEN auditService' = "up" /\ auditFile' = auditTail
     ELSE auditService' = "refused" /\ UNCHANGED auditFile
  /\ UNCHANGED <<auditEvents, auditAnchor, auditTail, auditExpired, auditTodo, auditFaults>>

(* App.Close writes a checkpoint, a crash does not. *)
AuditStops ==
  /\ auditService \in {"cleaning", "up"} /\ auditService' = "down" /\ auditTodo' = {}
  /\ \/ auditService = "up" /\ Verifies /\ auditFile' = auditTail
     \/ UNCHANGED auditFile
  /\ UNCHANGED <<auditEvents, auditAnchor, auditTail, auditExpired, auditFaults>>

(* A year is longer than the time to the first checkpoint. *)
AYearPasses ==
  /\ auditFile > 0 /\ auditService # "cleaning"
  /\ \E e \in (auditExpired + 1)..auditTail : auditExpired' = e
  /\ UNCHANGED <<auditEvents, auditAnchor, auditTail, auditFile, auditService,
                 auditTodo, auditFaults>>

AuditNext ==
  \/ AuditAppend \/ WriteCheckpoint \/ AuditStart \/ CleanOne \/ CleanDone
  \/ AuditStops \/ AYearPasses

AuditSpec == AuditInit /\ [][AuditNext]_auditVars

----------------------------------------------------------------------------
(* Whatever stops between an append and its checkpoint, and wherever       *)
(* retention is interrupted: what starts next finds the event its          *)
(* checkpoint names, and the chain verifies unless a candidate of          *)
(* retention could not be removed.                                         *)
CheckpointKept ==
  /\ auditFile > 0 => auditFile \in auditEvents
  /\ auditFaults = 0 => Verifies

(* The events are linked in the order of their identifiers, from the       *)
(* anchor to the tail (docs/DATA-MODEL.md), when some could not be removed *)
(* and are to be removed later, too.                                       *)
ChainVerifies == Linked
=============================================================================
