-------------------------- MODULE AuditTrust_proofs --------------------------
(***************************************************************************)
(* Proofs about what becomes of the audit events.                          *)
(* AuditChain, for any number of events and of rows that cannot be         *)
(* removed: the event a checkpoint names is always found, and the chain    *)
(* verifies as long as retention has not skipped a candidate.              *)
(* StateRestore, for any number of names, failures and deaths: the         *)
(* exchange of the private state is safe.                                  *)
(* SecurityEvents, for any number of events and of deaths: a forwarded     *)
(* event is not lost, and emails are in order.                             *)
(***************************************************************************)
EXTENDS AuditChain, StateRestore, SecurityEvents, WellFoundedInduction, TLAPS

(* Retention works in front of the checkpoint, from the oldest event on:   *)
(* what it has still to visit is, after skipped rows are counted out, the  *)
(* beginning of the chain.                                                 *)
Bounded ==
  /\ auditEvents \subseteq 1..auditTail /\ auditAnchor <= auditTail
  /\ auditExpired <= auditTail
  /\ auditFile = 0 => auditAnchor = 0 /\ auditExpired = 0

Retained ==
  /\ auditTodo \subseteq auditEvents /\ \A e \in auditTodo : e < auditFile
  /\ auditService # "cleaning" => auditTodo = {}

Oldmost == \A e \in auditTodo, f \in auditEvents : f < e => f \in auditTodo

AuditInv ==
  /\ AuditTypeOK /\ Bounded /\ Retained
  /\ auditFile > 0 => auditFile \in auditEvents
  /\ auditFaults = 0 => Linked /\ Oldmost

(* The oldest candidate exists.                                            *)
LEMMA OldestFirst ==
  ASSUME AuditTypeOK, auditTodo # {}
  PROVE  Oldest \in auditTodo /\ \A f \in auditTodo : Oldest <= f
<1>1. auditTodo \subseteq Nat
  BY AuditAssumption DEF AuditTypeOK, Events
<1>2. \E x \in auditTodo : \A y \in auditTodo : ~(<<y, x>> \in OpToRel(<, Nat))
  BY <1>1, NatLessThanWellFounded, WFMin, Zenon
<1>3. \A x, y \in auditTodo : y < x => <<y, x>> \in OpToRel(<, Nat)
  BY <1>1 DEF OpToRel
<1>4. \E x \in auditTodo : \A y \in auditTodo : ~(y < x)
  BY <1>2, <1>3, Zenon
<1>5. \E x \in auditTodo : \A y \in auditTodo : x <= y
  BY <1>1, <1>4
<1> QED
  BY <1>5 DEF Oldest

(* A chain that verifies ends in an event, unless it is empty.             *)
LEMMA TailIsEvent ==
  ASSUME AuditTypeOK, Bounded, Verifies
  PROVE  /\ auditTail > 0 => auditTail \in auditEvents
         /\ auditTail = 0 => auditAnchor = 0
<1> USE AuditAssumption DEF AuditTypeOK, Bounded, Verifies, Linked, CheckpointFound, Events
<1>1. CASE auditFile = 0
  BY <1>1
<1>2. CASE auditFile # 0
  BY <1>2
<1> QED
  BY <1>1, <1>2

LEMMA InitInv == AuditInit => AuditInv
  BY AuditAssumption DEF AuditInit, AuditInv, AuditTypeOK, Bounded, Retained,
     Linked, Oldmost, Events

LEMMA AppendStep ==
  ASSUME AuditInv, AuditAppend
  PROVE  AuditInv'
  BY AuditAssumption DEF AuditInv, AuditAppend, AuditTypeOK, Bounded, Retained,
     Linked, Oldmost, Events

(* A checkpoint is written when the chain verifies, wherever that is done. *)
LEMMA CheckpointStep ==
  ASSUME AuditInv, Verifies, auditFile' = auditTail, auditTodo = {}, auditTodo' = {},
         auditService' \in {"down", "cleaning", "up", "refused"},
         UNCHANGED <<auditEvents, auditAnchor, auditTail, auditExpired, auditFaults>>
  PROVE  AuditInv'
<1>1. /\ auditTail > 0 => auditTail \in auditEvents
      /\ auditTail = 0 => auditAnchor = 0
  BY TailIsEvent DEF AuditInv
<1> QED
  BY <1>1, AuditAssumption DEF AuditInv, AuditTypeOK, Bounded, Retained, Linked, Oldmost,
     Events

(* A step that changes at most the service, and ends the work of retention.*)
LEMMA ServiceStep ==
  ASSUME AuditInv, auditTodo' = {}, auditService' \in {"down", "cleaning", "up", "refused"},
         UNCHANGED <<auditEvents, auditAnchor, auditTail, auditFile, auditExpired, auditFaults>>
  PROVE  AuditInv'
  BY AuditAssumption DEF AuditInv, AuditTypeOK, Bounded, Retained, Linked, Oldmost, Events

LEMMA StartStep ==
  ASSUME AuditInv, AuditStart
  PROVE  AuditInv'
<1>1. CASE Verifies
  <2>1. auditTodo' = Expired /\ auditService' = "cleaning"
    BY <1>1 DEF AuditStart
  <2>2. Expired \subseteq auditEvents /\ \A e \in Expired : e < auditFile
    BY AuditAssumption DEF Expired, AuditInv, AuditTypeOK, Bounded, Events
  <2>3. \A e \in Expired, f \in auditEvents : f < e => f \in Expired
    BY AuditAssumption DEF Expired, AuditInv, AuditTypeOK, Bounded, Events
  <2> QED
    BY <2>1, <2>2, <2>3 DEF AuditStart, AuditInv, AuditTypeOK, Bounded, Retained,
       Linked, Oldmost
<1>2. CASE ~Verifies
  BY <1>2, ServiceStep DEF AuditStart
<1> QED
  BY <1>1, <1>2

(* The oldest candidate is removed: the anchor becomes its hash.  If none  *)
(* has been skipped, it is the first event of the chain.                   *)
LEMMA RemoveStep ==
  ASSUME AuditInv, auditTodo # {}, auditTodo' = auditTodo \ {Oldest},
         auditEvents' = auditEvents \ {Oldest}, auditAnchor' = Oldest,
         UNCHANGED <<auditTail, auditFile, auditExpired, auditService, auditFaults>>
  PROVE  AuditInv'
<1>1. Oldest \in auditTodo /\ \A f \in auditTodo : Oldest <= f
  BY OldestFirst DEF AuditInv
<1>2. Oldest \in auditEvents /\ Oldest < auditFile /\ Oldest \in 1..auditTail
  BY <1>1 DEF AuditInv, Retained, Bounded
<1> USE AuditAssumption DEF AuditInv, AuditTypeOK, Events
<1>3. AuditTypeOK' /\ Bounded' /\ Retained'
  BY <1>1, <1>2 DEF Bounded, Retained
<1>4. auditFile' > 0 => auditFile' \in auditEvents'
  BY <1>2
<1>5. ASSUME auditFaults' = 0
      PROVE  Linked' /\ Oldmost'
  <2>1. Linked /\ Oldmost
    BY <1>5
  <2>2. Oldest = auditAnchor + 1
    <3>1. auditAnchor + 1 \in auditEvents /\ auditAnchor + 1 <= Oldest
      BY <1>2, <2>1 DEF Linked, Bounded
    <3>2. auditAnchor + 1 < Oldest => auditAnchor + 1 \in auditTodo
      BY <1>1, <2>1, <3>1 DEF Oldmost
    <3> QED
      BY <1>1, <1>2, <3>1, <3>2
  <2>3. Linked'
    BY <1>2, <2>1, <2>2 DEF Linked
  <2>4. Oldmost'
    BY <1>1, <2>1 DEF Oldmost
  <2> QED
    BY <2>3, <2>4
<1> QED
  BY <1>3, <1>4, <1>5

LEMMA CleanStep ==
  ASSUME AuditInv, CleanOne
  PROVE  AuditInv'
<1>1. CASE auditEvents' = auditEvents \ {Oldest} /\ auditAnchor' = Oldest /\ UNCHANGED auditFaults
  BY <1>1, RemoveStep DEF CleanOne
<1>2. CASE /\ auditFaults < AuditFaults /\ auditFaults' = auditFaults + 1
           /\ UNCHANGED <<auditEvents, auditAnchor>>
  <2>1. UNCHANGED <<auditEvents, auditAnchor, auditTail, auditFile, auditExpired, auditService>>
        /\ auditTodo' \subseteq auditTodo
    BY <1>2 DEF CleanOne
  <2>2. auditFaults' \in 0..AuditFaults /\ auditFaults' # 0
    BY <1>2, AuditAssumption DEF AuditInv, AuditTypeOK
  <2>3. AuditTypeOK' /\ Bounded' /\ Retained'
    BY <2>1, <2>2 DEF AuditInv, AuditTypeOK, Bounded, Retained
  <2> QED
    BY <2>1, <2>2, <2>3 DEF AuditInv
<1> QED
  BY <1>1, <1>2 DEF CleanOne

(* The invariant is inductive. *)
LEMMA InvStep ==
  ASSUME AuditInv, [AuditNext]_auditVars
  PROVE  AuditInv'
<1>1. CASE AuditAppend
  BY <1>1, AppendStep
<1>2. CASE WriteCheckpoint
  BY <1>2, CheckpointStep DEF WriteCheckpoint, AuditInv, AuditTypeOK, Retained
<1>3. CASE AuditStart
  BY <1>3, StartStep
<1>4. CASE CleanOne
  BY <1>4, CleanStep
<1>5. CASE CleanDone
  <2>1. CASE Verifies
    BY <1>5, <2>1, CheckpointStep DEF CleanDone
  <2>2. CASE ~Verifies
    BY <1>5, <2>2, ServiceStep DEF CleanDone
  <2> QED
    BY <2>1, <2>2
<1>6. CASE AuditStops
  <2>1. CASE auditService = "up" /\ Verifies /\ auditFile' = auditTail
    BY <1>6, <2>1, CheckpointStep DEF AuditStops, AuditInv, Retained
  <2>2. CASE UNCHANGED auditFile
    BY <1>6, <2>2, ServiceStep DEF AuditStops
  <2> QED
    BY <1>6, <2>1, <2>2 DEF AuditStops
<1>7. CASE AYearPasses
  BY <1>7, AuditAssumption DEF AYearPasses, AuditInv, AuditTypeOK, Bounded, Retained,
     Linked, Oldmost, Events
<1>8. CASE UNCHANGED auditVars
  BY <1>8 DEF auditVars, AuditInv, AuditTypeOK, Bounded, Retained, Linked, Oldmost
<1> QED
  BY <1>1, <1>2, <1>3, <1>4, <1>5, <1>6, <1>7, <1>8 DEF AuditNext

(* Wherever appends, checkpoints and retention are interrupted, the event  *)
(* the checkpoint names is found by the next start, and the chain verifies *)
(* unless a candidate of retention could not be removed.                   *)
THEOREM CheckpointAlwaysKept == AuditSpec => []CheckpointKept
<1>1. AuditInv => CheckpointKept
  BY DEF AuditInv, CheckpointKept, Verifies, CheckpointFound, Bounded, AuditTypeOK
<1> QED
  BY InitInv, InvStep, <1>1, PTL DEF AuditSpec

----------------------------------------------------------------------------
(* StateRestore: State Root as it was, and as the backup has it. *)
IsBefore == \A n \in Names : restoreRoot[n] = IF n \in restoreOld THEN "old" ELSE "absent"
IsAfter == \A n \in Names : restoreRoot[n] = IF n \in restoreNew THEN "new" ELSE "absent"

(* What the two kinds of restore start from. *)
Given ==
  /\ Database \in restoreNew
  /\ IF restoreHost THEN restoreOld = {} ELSE Database \in restoreOld

(* Every old name is at one of two places, and app.db, the first to leave  *)
(* and the last to return, is in State Root only if all of them are.       *)
KeptApart ==
  /\ restoreKept \subseteq restoreOld
  /\ ~restoreKeeping => restoreKept = {}
  /\ \A n \in Names : restoreRoot[n] = "old" <=> n \in restoreOld /\ n \notin restoreKept
  /\ restoreRoot[Database] = "old" => IsBefore

(* How far the exchange has come. *)
Progress ==
  /\ restorer \in {"idle", "read"} /\ ~restoreKeeping /\ ~restoreHost => IsBefore
  /\ restorer \in {"signing", "checkpoint", "stage", "fail"} => IsBefore /\ restoreKept = {}
  /\ restorer \in {"out", "in", "append", "sign", "commit", "back", "forth"} => restoreKeeping
  /\ restorer = "out" =>
       /\ restoreStage = restoreNew
       /\ \A n \in Names : n < restoreAt => restoreRoot[n] = "absent"
       /\ \A n \in Names : n >= restoreAt =>
            restoreRoot[n] = IF n \in restoreOld THEN "old" ELSE "absent"
  /\ restorer = "in" =>
       /\ restoreStage = {n \in restoreNew : n >= restoreAt}
       /\ \A n \in Names : n < restoreAt =>
            restoreRoot[n] = IF n \in restoreNew THEN "new" ELSE "absent"
       /\ \A n \in Names : n >= restoreAt => restoreRoot[n] = "absent"
  /\ restorer \in {"append", "sign", "commit"} => IsAfter
  /\ restorer = "back" =>
       \A n \in Names : restoreRoot[n] # "empty" /\ (n > restoreAt => restoreRoot[n] # "new")
  /\ restorer = "forth" =>
       \A n \in Names : restoreRoot[n] \in {"absent", "old"} /\ (n > restoreAt => n \notin restoreKept)

(* What is installed outside State Root says how far the command has come. *)
TrustFollows ==
  /\ ~restoreHost => restoreTrust \in {"old", "new"}
  /\ restorer = "read" => ~restoreHost
  /\ restorer \in {"signing", "checkpoint"} => restoreHost /\ restoreTrust \in {"key", "signing"}
  /\ restorer \in {"stage", "out", "in", "append", "sign", "back", "forth"} => restoreTrust = "old"
  /\ restorer = "sign" => restoreLinked
  /\ restorer = "commit" => restoreTrust = "new"
  /\ restorer = "fail" => restoreTrust \in {"none", "key", "signing", "old"}
  /\ restoreTrust \in {"none", "key", "signing"} =>
       /\ ~restoreKeeping
       /\ \A n \in Names \ {Database} : restoreRoot[n] = "absent"
       /\ restoreRoot[Database] \in {"absent", "empty"}
  /\ restoreTrust = "fresh" => restoreRoot[Database] = "empty" /\ restorer = "idle"
  /\ restoreTrust = "new" =>
       /\ IsAfter /\ restoreKept = restoreOld /\ restoreLinked
       /\ restorer \in {"idle", "read", "commit"} /\ (~restoreHost => restoreKeeping)

Returned ==
  /\ restoreResult = "failed" =>
       /\ restorer = "idle" /\ IsBefore /\ ~restoreKeeping
       /\ restoreTrust = IF restoreHost THEN "none" ELSE "old"
  /\ restoreResult = "ok" => restorer = "idle" /\ restoreTrust = "new"

Served ==
  restoreService = "up" =>
    IsBefore \/ IsAfter \/ restoreRoot[Database] = "empty" \/ FitsBoth

RestoreInv ==
  /\ RestoreTypeOK /\ Given
  /\ restoreService = "up" => restorer \in {"idle", "read"}
  /\ ~restoreTorn => KeptApart /\ Progress /\ TrustFollows /\ Returned /\ Served

----------------------------------------------------------------------------
(* The command has not been called.                                        *)
LEMMA RestoreBegins == RestoreInit => RestoreInv
<1> SUFFICES ASSUME RestoreInit PROVE RestoreInv
  OBVIOUS
<1>1. /\ restoreHost \in BOOLEAN /\ restoreKeeping \in BOOLEAN /\ restoreCovered \in BOOLEAN
      /\ restoreChanged \in BOOLEAN /\ restoreLinked \in BOOLEAN /\ restoreTorn \in BOOLEAN
  BY DEF RestoreInit
<1>2. /\ restoreOld \subseteq Names /\ restoreNew \subseteq Names
      /\ restoreRoot \in [Names -> {"absent", "old", "new", "empty"}]
      /\ IsBefore
  BY DEF RestoreInit, IsBefore
<1>3. restoreAt \in Names /\ restoreFaults \in 0..RestoreFaults
  BY RestoreAssumption, SMT DEF RestoreInit, Names
<1>4. RestoreTypeOK
  BY <1>1, <1>2, <1>3 DEF RestoreTypeOK, RestoreInit, Trusts
<1>5. Given
  BY DEF Given, RestoreInit
<1>6. KeptApart
  BY <1>2 DEF KeptApart, IsBefore, RestoreInit
<1>7. Progress
  BY <1>2 DEF Progress, RestoreInit
<1>8. TrustFollows
  BY <1>2, <1>5 DEF TrustFollows, IsBefore, Given, RestoreInit, Database, Names
<1>9. Returned /\ Served
  BY DEF Returned, Served, RestoreInit
<1> QED
  BY <1>4, <1>5, <1>6, <1>7, <1>8, <1>9 DEF RestoreInv, RestoreInit

(* One lemma per action. The service starts on what agrees with its checkpoint. *)
LEMMA RestoreServiceStartsKeeps ==
  ASSUME RestoreInv, RestoreServiceStarts
  PROVE  RestoreInv'
<1> USE RestoreAssumption DEF RestoreServiceStarts, Inputs, Files, Log, Trusted
<1>0. /\ restoreHost' \in BOOLEAN /\ restoreKeeping' \in BOOLEAN /\ restoreCovered' \in BOOLEAN
      /\ restoreChanged' \in BOOLEAN /\ restoreLinked' \in BOOLEAN /\ restoreTorn' \in BOOLEAN
  BY Zenon DEF RestoreInv, RestoreTypeOK
<1>1. RestoreTypeOK' /\ Given' /\ (restoreService' = "up" => restorer' \in {"idle", "read"})
  BY <1>0, SMTT(30) DEF RestoreInv, RestoreTypeOK, Given, Names, Database, Trusts
<1> SUFFICES ASSUME ~restoreTorn'
             PROVE  (KeptApart /\ Progress /\ TrustFollows /\ Returned /\ Served)'
  BY <1>1 DEF RestoreInv
<1>2. KeptApart /\ Progress /\ TrustFollows /\ Returned /\ Served
  BY DEF RestoreInv
<1>3. KeptApart'
  BY <1>2, SMTT(30)
  DEF RestoreInv, RestoreTypeOK, Given, KeptApart, Progress, TrustFollows,
      IsBefore, IsAfter, Names, Database
<1>4. Progress'
  BY <1>2, SMTT(30)
  DEF RestoreInv, RestoreTypeOK, Given, KeptApart, Progress, TrustFollows,
      IsBefore, IsAfter, Names, Database
<1>5. TrustFollows'
  BY <1>2, SMTT(30)
  DEF RestoreInv, RestoreTypeOK, Given, KeptApart, Progress, TrustFollows,
      IsBefore, IsAfter, Names, Database
<1>6. Returned'
  BY <1>2, SMTT(30)
  DEF RestoreInv, RestoreTypeOK, Given, KeptApart, Progress, TrustFollows, Returned,
      IsBefore, IsAfter, Names, Database
<1>7. Served'
  BY <1>2, SMTT(30)
  DEF RestoreInv, RestoreTypeOK, Given, KeptApart, Progress, TrustFollows, Served,
      FitsBoth, IsBefore, IsAfter, Names, Database
<1> QED
  BY <1>3, <1>4, <1>5, <1>6, <1>7

LEMMA RestoreServiceStopsKeeps ==
  ASSUME RestoreInv, RestoreServiceStops
  PROVE  RestoreInv'
<1> USE RestoreAssumption DEF RestoreServiceStops, Inputs, Files, Log
<1>0. /\ restoreHost' \in BOOLEAN /\ restoreKeeping' \in BOOLEAN /\ restoreCovered' \in BOOLEAN
      /\ restoreChanged' \in BOOLEAN /\ restoreLinked' \in BOOLEAN /\ restoreTorn' \in BOOLEAN
  BY Zenon DEF RestoreInv, RestoreTypeOK
<1>1. RestoreTypeOK' /\ Given' /\ (restoreService' = "up" => restorer' \in {"idle", "read"})
  BY <1>0, SMTT(30) DEF RestoreInv, RestoreTypeOK, Given, Names, Database, Trusts
<1> SUFFICES ASSUME ~restoreTorn'
             PROVE  (KeptApart /\ Progress /\ TrustFollows /\ Returned /\ Served)'
  BY <1>1 DEF RestoreInv
<1>2. KeptApart /\ Progress /\ TrustFollows /\ Returned /\ Served
  BY DEF RestoreInv
<1>3. KeptApart'
  BY <1>2, SMTT(30)
  DEF RestoreInv, RestoreTypeOK, Given, KeptApart, Progress, TrustFollows,
      IsBefore, IsAfter, Names, Database
<1>4. Progress'
  BY <1>2, SMTT(30)
  DEF RestoreInv, RestoreTypeOK, Given, KeptApart, Progress, TrustFollows,
      IsBefore, IsAfter, Names, Database
<1>5. TrustFollows'
  BY <1>2, SMTT(30)
  DEF RestoreInv, RestoreTypeOK, Given, KeptApart, Progress, TrustFollows,
      IsBefore, IsAfter, Names, Database
<1>6. Returned'
  BY <1>2, SMTT(30)
  DEF RestoreInv, RestoreTypeOK, Given, KeptApart, Progress, TrustFollows, Returned,
      IsBefore, IsAfter, Names, Database
<1>7. Served'
  BY <1>2, SMTT(30)
  DEF RestoreInv, RestoreTypeOK, Given, KeptApart, Progress, TrustFollows, Served,
      FitsBoth, IsBefore, IsAfter, Names, Database
<1> QED
  BY <1>3, <1>4, <1>5, <1>6, <1>7

LEMMA RestoreServiceSignsKeeps ==
  ASSUME RestoreInv, RestoreServiceSigns
  PROVE  RestoreInv'
<1> USE RestoreAssumption DEF RestoreServiceSigns, Inputs, Files, Log, Trusted
<1>0. /\ restoreHost' \in BOOLEAN /\ restoreKeeping' \in BOOLEAN /\ restoreCovered' \in BOOLEAN
      /\ restoreChanged' \in BOOLEAN /\ restoreLinked' \in BOOLEAN /\ restoreTorn' \in BOOLEAN
  BY Zenon DEF RestoreInv, RestoreTypeOK
<1>1. RestoreTypeOK' /\ Given' /\ (restoreService' = "up" => restorer' \in {"idle", "read"})
  BY <1>0, SMTT(30) DEF RestoreInv, RestoreTypeOK, Given, Names, Database, Trusts
<1> SUFFICES ASSUME ~restoreTorn'
             PROVE  (KeptApart /\ Progress /\ TrustFollows /\ Returned /\ Served)'
  BY <1>1 DEF RestoreInv
<1>2. KeptApart /\ Progress /\ TrustFollows /\ Returned /\ Served
  BY DEF RestoreInv
<1>3. KeptApart'
  BY <1>2, SMTT(30)
  DEF RestoreInv, RestoreTypeOK, Given, KeptApart, Progress, TrustFollows,
      IsBefore, IsAfter, Names, Database
<1>4. Progress'
  BY <1>2, SMTT(30)
  DEF RestoreInv, RestoreTypeOK, Given, KeptApart, Progress, TrustFollows,
      IsBefore, IsAfter, Names, Database
<1>5. TrustFollows'
  BY <1>2, SMTT(30)
  DEF RestoreInv, RestoreTypeOK, Given, KeptApart, Progress, TrustFollows,
      IsBefore, IsAfter, Names, Database
<1>6. Returned'
  BY <1>2, SMTT(30)
  DEF RestoreInv, RestoreTypeOK, Given, KeptApart, Progress, TrustFollows, Returned,
      IsBefore, IsAfter, Names, Database
<1>7. Served'
  BY <1>2, SMTT(30)
  DEF RestoreInv, RestoreTypeOK, Given, KeptApart, Progress, TrustFollows, Served,
      FitsBoth, IsBefore, IsAfter, Names, Database
<1> QED
  BY <1>3, <1>4, <1>5, <1>6, <1>7

LEMMA RestoreReadsKeeps ==
  ASSUME RestoreInv, RestoreReads
  PROVE  RestoreInv'
<1> USE RestoreAssumption DEF RestoreReads, Inputs, Files, Log, Trusted, Goes
<1>0. /\ restoreHost' \in BOOLEAN /\ restoreKeeping' \in BOOLEAN /\ restoreCovered' \in BOOLEAN
      /\ restoreChanged' \in BOOLEAN /\ restoreLinked' \in BOOLEAN /\ restoreTorn' \in BOOLEAN
  BY Zenon DEF RestoreInv, RestoreTypeOK
<1>1. RestoreTypeOK' /\ Given' /\ (restoreService' = "up" => restorer' \in {"idle", "read"})
  BY <1>0, SMTT(30) DEF RestoreInv, RestoreTypeOK, Given, Names, Database, Trusts
<1> SUFFICES ASSUME ~restoreTorn'
             PROVE  (KeptApart /\ Progress /\ TrustFollows /\ Returned /\ Served)'
  BY <1>1 DEF RestoreInv
<1>2. KeptApart /\ Progress /\ TrustFollows /\ Returned /\ Served
  BY DEF RestoreInv
<1>3. KeptApart'
  BY <1>2, SMTT(30)
  DEF RestoreInv, RestoreTypeOK, Given, KeptApart, Progress, TrustFollows,
      IsBefore, IsAfter, Names, Database
<1>4. Progress'
  BY <1>2, SMTT(30)
  DEF RestoreInv, RestoreTypeOK, Given, KeptApart, Progress, TrustFollows,
      IsBefore, IsAfter, Names, Database
<1>5. TrustFollows'
  BY <1>2, SMTT(30)
  DEF RestoreInv, RestoreTypeOK, Given, KeptApart, Progress, TrustFollows,
      IsBefore, IsAfter, Names, Database
<1>6. Returned'
  BY <1>2, SMTT(30)
  DEF RestoreInv, RestoreTypeOK, Given, KeptApart, Progress, TrustFollows, Returned,
      IsBefore, IsAfter, Names, Database
<1>7. Served'
  BY <1>2, SMTT(30)
  DEF RestoreInv, RestoreTypeOK, Given, KeptApart, Progress, TrustFollows, Served,
      FitsBoth, IsBefore, IsAfter, Names, Database
<1> QED
  BY <1>3, <1>4, <1>5, <1>6, <1>7

LEMMA RecoverHostBeginsKeeps ==
  ASSUME RestoreInv, RecoverHostBegins
  PROVE  RestoreInv'
<1> USE RestoreAssumption DEF RecoverHostBegins, Inputs, Files, Log, Goes
<1>0. /\ restoreHost' \in BOOLEAN /\ restoreKeeping' \in BOOLEAN /\ restoreCovered' \in BOOLEAN
      /\ restoreChanged' \in BOOLEAN /\ restoreLinked' \in BOOLEAN /\ restoreTorn' \in BOOLEAN
  BY Zenon DEF RestoreInv, RestoreTypeOK
<1>1. RestoreTypeOK' /\ Given' /\ (restoreService' = "up" => restorer' \in {"idle", "read"})
  BY <1>0, SMTT(30) DEF RestoreInv, RestoreTypeOK, Given, Names, Database, Trusts
<1> SUFFICES ASSUME ~restoreTorn'
             PROVE  (KeptApart /\ Progress /\ TrustFollows /\ Returned /\ Served)'
  BY <1>1 DEF RestoreInv
<1>2. KeptApart /\ Progress /\ TrustFollows /\ Returned /\ Served
  BY DEF RestoreInv
<1>3. KeptApart'
  BY <1>2, SMTT(30)
  DEF RestoreInv, RestoreTypeOK, Given, KeptApart, Progress, TrustFollows,
      IsBefore, IsAfter, Names, Database
<1>4. Progress'
  BY <1>2, SMTT(30)
  DEF RestoreInv, RestoreTypeOK, Given, KeptApart, Progress, TrustFollows,
      IsBefore, IsAfter, Names, Database
<1>5. TrustFollows'
  BY <1>2, SMTT(30)
  DEF RestoreInv, RestoreTypeOK, Given, KeptApart, Progress, TrustFollows,
      IsBefore, IsAfter, Names, Database
<1>6. Returned'
  BY <1>2, SMTT(30)
  DEF RestoreInv, RestoreTypeOK, Given, KeptApart, Progress, TrustFollows, Returned,
      IsBefore, IsAfter, Names, Database
<1>7. Served'
  BY <1>2, SMTT(30)
  DEF RestoreInv, RestoreTypeOK, Given, KeptApart, Progress, TrustFollows, Served,
      FitsBoth, IsBefore, IsAfter, Names, Database
<1> QED
  BY <1>3, <1>4, <1>5, <1>6, <1>7

LEMMA RecoverHostInstallsKeeps ==
  ASSUME RestoreInv, RecoverHostInstalls
  PROVE  RestoreInv'
<1> USE RestoreAssumption DEF RecoverHostInstalls, Inputs, Files, Log, RestoreFault, Goes
<1>0. /\ restoreHost' \in BOOLEAN /\ restoreKeeping' \in BOOLEAN /\ restoreCovered' \in BOOLEAN
      /\ restoreChanged' \in BOOLEAN /\ restoreLinked' \in BOOLEAN /\ restoreTorn' \in BOOLEAN
  BY Zenon DEF RestoreInv, RestoreTypeOK
<1>1. RestoreTypeOK' /\ Given' /\ (restoreService' = "up" => restorer' \in {"idle", "read"})
  BY <1>0, SMTT(30) DEF RestoreInv, RestoreTypeOK, Given, Names, Database, Trusts
<1> SUFFICES ASSUME ~restoreTorn'
             PROVE  (KeptApart /\ Progress /\ TrustFollows /\ Returned /\ Served)'
  BY <1>1 DEF RestoreInv
<1>2. KeptApart /\ Progress /\ TrustFollows /\ Returned /\ Served
  BY DEF RestoreInv
<1>3. KeptApart'
  BY <1>2, SMTT(30)
  DEF RestoreInv, RestoreTypeOK, Given, KeptApart, Progress, TrustFollows,
      IsBefore, IsAfter, Names, Database
<1>4. Progress'
  BY <1>2, SMTT(30)
  DEF RestoreInv, RestoreTypeOK, Given, KeptApart, Progress, TrustFollows,
      IsBefore, IsAfter, Names, Database
<1>5. TrustFollows'
  BY <1>2, SMTT(30)
  DEF RestoreInv, RestoreTypeOK, Given, KeptApart, Progress, TrustFollows,
      IsBefore, IsAfter, Names, Database
<1>6. Returned'
  BY <1>2, SMTT(30)
  DEF RestoreInv, RestoreTypeOK, Given, KeptApart, Progress, TrustFollows, Returned,
      IsBefore, IsAfter, Names, Database
<1>7. Served'
  BY <1>2, SMTT(30)
  DEF RestoreInv, RestoreTypeOK, Given, KeptApart, Progress, TrustFollows, Served,
      FitsBoth, IsBefore, IsAfter, Names, Database
<1> QED
  BY <1>3, <1>4, <1>5, <1>6, <1>7

LEMMA RestoreStagesKeeps ==
  ASSUME RestoreInv, RestoreStages
  PROVE  RestoreInv'
<1> USE RestoreAssumption DEF RestoreStages, Inputs, Files, Log, RestoreFault, Goes
<1>0. /\ restoreHost' \in BOOLEAN /\ restoreKeeping' \in BOOLEAN /\ restoreCovered' \in BOOLEAN
      /\ restoreChanged' \in BOOLEAN /\ restoreLinked' \in BOOLEAN /\ restoreTorn' \in BOOLEAN
  BY Zenon DEF RestoreInv, RestoreTypeOK
<1>1. RestoreTypeOK' /\ Given' /\ (restoreService' = "up" => restorer' \in {"idle", "read"})
  <2>1. restoreRoot' \in [Names -> {"absent", "old", "new", "empty"}]
    BY DEF RestoreInv, RestoreTypeOK
  <2>2. restoreKept' \subseteq Names /\ restoreStage' \subseteq Names
    BY DEF RestoreInv, RestoreTypeOK
  <2>3. restoreAt' \in Names
    BY SMT DEF RestoreInv, RestoreTypeOK, Names
  <2>4. restoreFaults' \in 0..RestoreFaults
    BY SMT DEF RestoreInv, RestoreTypeOK
  <2>5. /\ restoreOld' \subseteq Names /\ restoreNew' \subseteq Names
        /\ restoreTrust' \in Trusts
        /\ restorer' \in {"idle", "read", "signing", "checkpoint", "stage", "out",
                         "in", "append", "sign", "commit", "back", "forth", "fail"}
        /\ restoreResult' \in {"none", "ok", "failed", "died"}
        /\ restoreService' \in {"down", "up", "refused"}
    BY SMT DEF RestoreInv, RestoreTypeOK, Trusts
  <2>6. Given' /\ (restoreService' = "up" => restorer' \in {"idle", "read"})
    BY SMT DEF RestoreInv, Given
  <2> QED
    BY <1>0, <2>1, <2>2, <2>3, <2>4, <2>5, <2>6 DEF RestoreTypeOK
<1> SUFFICES ASSUME ~restoreTorn'
             PROVE  (KeptApart /\ Progress /\ TrustFollows /\ Returned /\ Served)'
  BY <1>1 DEF RestoreInv
<1>2. KeptApart /\ Progress /\ TrustFollows /\ Returned /\ Served
  BY DEF RestoreInv
<1>3. KeptApart'
  BY <1>2, SMTT(30)
  DEF RestoreInv, RestoreTypeOK, Given, KeptApart, Progress, TrustFollows,
      IsBefore, IsAfter, Names, Database
<1>4. Progress'
  BY <1>2, SMTT(30)
  DEF RestoreInv, RestoreTypeOK, Given, KeptApart, Progress, TrustFollows,
      IsBefore, IsAfter, Names, Database
<1>5. TrustFollows'
  BY <1>2, SMTT(30)
  DEF RestoreInv, RestoreTypeOK, Given, KeptApart, Progress, TrustFollows,
      IsBefore, IsAfter, Names, Database
<1>6. Returned'
  BY <1>2, SMTT(30)
  DEF RestoreInv, RestoreTypeOK, Given, KeptApart, Progress, TrustFollows, Returned,
      IsBefore, IsAfter, Names, Database
<1>7. Served'
  BY <1>2, SMTT(30)
  DEF RestoreInv, RestoreTypeOK, Given, KeptApart, Progress, TrustFollows, Served,
      FitsBoth, IsBefore, IsAfter, Names, Database
<1> QED
  BY <1>3, <1>4, <1>5, <1>6, <1>7

LEMMA RestoreRefusedKeeps ==
  ASSUME RestoreInv, RestoreRefused
  PROVE  RestoreInv'
<1> USE RestoreAssumption DEF RestoreRefused, Inputs, Files, Log, Goes
<1>0. /\ restoreHost' \in BOOLEAN /\ restoreKeeping' \in BOOLEAN /\ restoreCovered' \in BOOLEAN
      /\ restoreChanged' \in BOOLEAN /\ restoreLinked' \in BOOLEAN /\ restoreTorn' \in BOOLEAN
  BY Zenon DEF RestoreInv, RestoreTypeOK
<1>1. RestoreTypeOK' /\ Given' /\ (restoreService' = "up" => restorer' \in {"idle", "read"})
  BY <1>0, SMTT(30) DEF RestoreInv, RestoreTypeOK, Given, Names, Database, Trusts
<1> SUFFICES ASSUME ~restoreTorn'
             PROVE  (KeptApart /\ Progress /\ TrustFollows /\ Returned /\ Served)'
  BY <1>1 DEF RestoreInv
<1>2. KeptApart /\ Progress /\ TrustFollows /\ Returned /\ Served
  BY DEF RestoreInv
<1>3. KeptApart'
  BY <1>2, SMTT(30)
  DEF RestoreInv, RestoreTypeOK, Given, KeptApart, Progress, TrustFollows,
      IsBefore, IsAfter, Names, Database
<1>4. Progress'
  BY <1>2, SMTT(30)
  DEF RestoreInv, RestoreTypeOK, Given, KeptApart, Progress, TrustFollows,
      IsBefore, IsAfter, Names, Database
<1>5. TrustFollows'
  BY <1>2, SMTT(30)
  DEF RestoreInv, RestoreTypeOK, Given, KeptApart, Progress, TrustFollows,
      IsBefore, IsAfter, Names, Database
<1>6. Returned'
  BY <1>2, SMTT(30)
  DEF RestoreInv, RestoreTypeOK, Given, KeptApart, Progress, TrustFollows, Returned,
      IsBefore, IsAfter, Names, Database
<1>7. Served'
  BY <1>2, SMTT(30)
  DEF RestoreInv, RestoreTypeOK, Given, KeptApart, Progress, TrustFollows, Served,
      FitsBoth, IsBefore, IsAfter, Names, Database
<1> QED
  BY <1>3, <1>4, <1>5, <1>6, <1>7

(* Names leave State Root, app.db first.                                   *)
LEMMA MoveOutKeeps ==
  ASSUME RestoreInv, MoveOut
  PROVE  RestoreInv'
<1> USE RestoreAssumption DEF MoveOut, Inputs, Files, Log, RestoreFault, RollsBack, Onward, Goes
<1>0. /\ restoreHost' \in BOOLEAN /\ restoreKeeping' \in BOOLEAN /\ restoreCovered' \in BOOLEAN
      /\ restoreChanged' \in BOOLEAN /\ restoreLinked' \in BOOLEAN /\ restoreTorn' \in BOOLEAN
  BY Zenon DEF RestoreInv, RestoreTypeOK
<1>1. RestoreTypeOK' /\ Given' /\ (restoreService' = "up" => restorer' \in {"idle", "read"})
  <2>1. restoreRoot' \in [Names -> {"absent", "old", "new", "empty"}]
    BY DEF RestoreInv, RestoreTypeOK
  <2>2. restoreKept' \subseteq Names /\ restoreStage' \subseteq Names
    BY DEF RestoreInv, RestoreTypeOK
  <2>3. restoreAt' \in Names
    BY SMT DEF RestoreInv, RestoreTypeOK, Names
  <2>4. restoreFaults' \in 0..RestoreFaults
    BY SMT DEF RestoreInv, RestoreTypeOK
  <2>5. /\ restoreOld' \subseteq Names /\ restoreNew' \subseteq Names
        /\ restoreTrust' \in Trusts
        /\ restorer' \in {"idle", "read", "signing", "checkpoint", "stage", "out",
                         "in", "append", "sign", "commit", "back", "forth", "fail"}
        /\ restoreResult' \in {"none", "ok", "failed", "died"}
        /\ restoreService' \in {"down", "up", "refused"}
    BY SMT DEF RestoreInv, RestoreTypeOK, Trusts
  <2>6. Given' /\ (restoreService' = "up" => restorer' \in {"idle", "read"})
    BY SMT DEF RestoreInv, Given
  <2> QED
    BY <1>0, <2>1, <2>2, <2>3, <2>4, <2>5, <2>6 DEF RestoreTypeOK
<1> SUFFICES ASSUME ~restoreTorn'
             PROVE  (KeptApart /\ Progress /\ TrustFollows /\ Returned /\ Served)'
  BY <1>1 DEF RestoreInv
<1>2. KeptApart /\ Progress /\ TrustFollows /\ Returned /\ Served
  BY DEF RestoreInv
<1> DEFINE k == restoreAt
           moved == restoreRoot[k] # "absent" /\ restoreKept' = restoreKept \cup {k}
                    /\ restoreRoot' = [restoreRoot EXCEPT ![k] = "absent"]
<1>a. k \in Nat /\ k >= 1 /\ k =< LastName /\ k \in Names /\ LastName \in Nat
  BY SMT DEF RestoreInv, RestoreTypeOK, Names
<1>b. (moved => restoreRoot[k] = "old" /\ k \in restoreOld) /\ restoreKeeping
  BY <1>2, <1>a, SMT DEF Progress
<1>c. moved \/ UNCHANGED <<restoreRoot, restoreKept>>
  OBVIOUS
<1>d. UNCHANGED <<restoreOld, restoreNew, restoreHost, restoreKeeping, restoreStage, restoreTrust>>
  OBVIOUS
<1>e. restoreRoot \in [Names -> {"absent", "old", "new", "empty"}] /\ restoreNew \subseteq Names
  BY DEF RestoreInv, RestoreTypeOK
<1>f. ASSUME moved, NEW m \in Names
      PROVE  restoreRoot'[m] = IF m = k THEN "absent" ELSE restoreRoot[m]
  BY <1>e, <1>f
<1>g. moved => restoreRoot'[Database] = "absent"
  <2>1. Database \in Names /\ (Database = k \/ Database < k)
    BY <1>a, SMT DEF Names, Database
  <2>2. Database < k => restoreRoot[Database] = "absent"
    BY <1>2, <2>1, Zenon DEF Progress, MoveOut
  <2> QED
    BY <1>f, <2>1, <2>2
<1>3. KeptApart'
  <2>1. CASE UNCHANGED <<restoreRoot, restoreKept>>
    BY <1>2, <1>d, <2>1 DEF KeptApart, IsBefore
  <2>2. CASE moved
    <3>1. restoreKept' \subseteq restoreOld' /\ restoreKeeping'
      BY <1>2, <1>b, <1>d, <2>2 DEF KeptApart
    <3>2. ASSUME NEW m \in Names
          PROVE  restoreRoot'[m] = "old" <=> m \in restoreOld' /\ m \notin restoreKept'
      BY <1>2, <1>d, <1>f, <2>2 DEF KeptApart
    <3> QED
      BY <1>g, <2>2, <3>1, <3>2 DEF KeptApart
  <2> QED
    BY <1>c, <2>1, <2>2
<1>4. Progress'
  <2>1. CASE RollsBack /\ UNCHANGED <<restoreRoot, restoreKept>>
    <3>1. ASSUME NEW m \in Names
          PROVE  restoreRoot[m] \in {"absent", "old"}
      <4>1. m < k \/ m >= k
        BY <1>a, SMT DEF Names
      <4> QED
        BY <1>2, <4>1, Zenon DEF Progress, MoveOut
    <3> QED
      BY <1>b, <1>d, <2>1, <3>1 DEF Progress
  <2>2. ASSUME restoreRoot'[k] = "absent",
               \A m \in Names : m # k => restoreRoot'[m] = restoreRoot[m],
               Onward("out", "in")
        PROVE  Progress'
    <3>1. CASE k = LastName
      <4>1. ASSUME NEW m \in Names PROVE restoreRoot'[m] = "absent"
        <5>1. m = k \/ m < k
          BY <1>a, <3>1, SMT DEF Names
        <5> QED
          BY <1>2, <2>2, <5>1, Zenon DEF Progress, MoveOut
      <4>2. restoreStage' = {n \in restoreNew' : n >= 1}
        <5>1. \A n \in restoreNew : n >= 1
          BY <1>e, SMT DEF Names
        <5> QED
          BY <1>2, <1>d, <5>1 DEF Progress
      <4>3. \A n \in Names : ~(n < 1)
        BY SMT DEF Names
      <4> QED
        BY <1>b, <1>d, <2>2, <3>1, <4>1, <4>2, <4>3 DEF Progress
    <3>2. CASE k # LastName
      <4>1. restorer' = "out" /\ restoreAt' = k + 1
        BY <2>2, <3>2
      <4>2. ASSUME NEW m \in Names, m < k + 1 PROVE restoreRoot'[m] = "absent"
        <5>1. m = k \/ m < k
          BY <1>a, <4>2, SMT DEF Names
        <5> QED
          BY <1>2, <2>2, <5>1, Zenon DEF Progress, MoveOut
      <4>3. ASSUME NEW m \in Names, m >= k + 1
            PROVE  restoreRoot'[m] = IF m \in restoreOld' THEN "old" ELSE "absent"
        <5>1. m # k /\ m >= k
          BY <1>a, <4>3, SMT DEF Names
        <5> QED
          BY <1>2, <1>d, <2>2, <5>1 DEF Progress
      <4> QED
        BY <1>2, <1>b, <1>d, <4>1, <4>2, <4>3 DEF Progress
    <3> QED
      BY <3>1, <3>2
  <2>3. CASE Onward("out", "in") /\ (moved \/ (restoreRoot[k] = "absent" /\ UNCHANGED restoreRoot))
    BY <1>a, <1>f, <2>2, <2>3, Zenon
  <2>4. \/ RollsBack /\ UNCHANGED <<restoreRoot, restoreKept>>
        \/ Onward("out", "in") /\ (moved \/ (restoreRoot[k] = "absent" /\ UNCHANGED restoreRoot))
    OBVIOUS
  <2> QED
    BY <2>1, <2>3, <2>4
<1>5. TrustFollows'
  BY <1>2, SMTT(30)
  DEF RestoreInv, RestoreTypeOK, Given, KeptApart, Progress, TrustFollows,
      IsBefore, IsAfter, Names, Database
<1>6. Returned'
  BY <1>2, SMTT(30)
  DEF RestoreInv, RestoreTypeOK, Given, KeptApart, Progress, TrustFollows, Returned,
      IsBefore, IsAfter, Names, Database
<1>7. Served'
  BY <1>2, SMTT(30)
  DEF RestoreInv, RestoreTypeOK, Given, KeptApart, Progress, TrustFollows, Served,
      FitsBoth, IsBefore, IsAfter, Names, Database
<1> QED
  BY <1>3, <1>4, <1>5, <1>6, <1>7

(* Names of the backup come in, app.db first.                              *)
LEMMA MoveInKeeps ==
  ASSUME RestoreInv, MoveIn
  PROVE  RestoreInv'
<1> USE RestoreAssumption DEF MoveIn, Inputs, Files, Log, RestoreFault, RollsBack, Onward, Goes
<1>0. /\ restoreHost' \in BOOLEAN /\ restoreKeeping' \in BOOLEAN /\ restoreCovered' \in BOOLEAN
      /\ restoreChanged' \in BOOLEAN /\ restoreLinked' \in BOOLEAN /\ restoreTorn' \in BOOLEAN
  BY Zenon DEF RestoreInv, RestoreTypeOK
<1>1. RestoreTypeOK' /\ Given' /\ (restoreService' = "up" => restorer' \in {"idle", "read"})
  <2>1. restoreRoot' \in [Names -> {"absent", "old", "new", "empty"}]
    BY DEF RestoreInv, RestoreTypeOK
  <2>2. restoreKept' \subseteq Names /\ restoreStage' \subseteq Names
    BY DEF RestoreInv, RestoreTypeOK
  <2>3. restoreAt' \in Names
    BY SMT DEF RestoreInv, RestoreTypeOK, Names
  <2>4. restoreFaults' \in 0..RestoreFaults
    BY SMT DEF RestoreInv, RestoreTypeOK
  <2>5. /\ restoreOld' \subseteq Names /\ restoreNew' \subseteq Names
        /\ restoreTrust' \in Trusts
        /\ restorer' \in {"idle", "read", "signing", "checkpoint", "stage", "out",
                         "in", "append", "sign", "commit", "back", "forth", "fail"}
        /\ restoreResult' \in {"none", "ok", "failed", "died"}
        /\ restoreService' \in {"down", "up", "refused"}
    BY SMT DEF RestoreInv, RestoreTypeOK, Trusts
  <2>6. Given' /\ (restoreService' = "up" => restorer' \in {"idle", "read"})
    BY SMT DEF RestoreInv, Given
  <2> QED
    BY <1>0, <2>1, <2>2, <2>3, <2>4, <2>5, <2>6 DEF RestoreTypeOK
<1> SUFFICES ASSUME ~restoreTorn'
             PROVE  (KeptApart /\ Progress /\ TrustFollows /\ Returned /\ Served)'
  BY <1>1 DEF RestoreInv
<1>2. KeptApart /\ Progress /\ TrustFollows /\ Returned /\ Served
  BY DEF RestoreInv
<1>3. KeptApart'
  BY <1>2, SMTT(30)
  DEF RestoreInv, RestoreTypeOK, Given, KeptApart, Progress, TrustFollows,
      IsBefore, IsAfter, Names, Database
<1> DEFINE k == restoreAt
<1>a. k \in Nat /\ k >= 1 /\ k =< LastName /\ k \in Names /\ LastName \in Nat
  BY SMT DEF RestoreInv, RestoreTypeOK, Names
<1>b. restoreKeeping /\ restoreStage = {n \in restoreNew : n >= k}
  BY <1>2 DEF Progress
<1>c. UNCHANGED <<restoreOld, restoreNew, restoreHost, restoreKeeping>>
  OBVIOUS
<1>d. restoreRoot \in [Names -> {"absent", "old", "new", "empty"}] /\ restoreNew \subseteq Names
  BY DEF RestoreInv, RestoreTypeOK
<1>4. Progress'
  <2>1. CASE RollsBack /\ UNCHANGED <<restoreRoot, restoreStage>>
    <3>1. ASSUME NEW m \in Names
          PROVE  restoreRoot[m] \in {"absent", "new"} /\ ~(m > LastName)
      <4>1. (m < k \/ m >= k) /\ ~(m > LastName)
        BY <1>a, SMT DEF Names
      <4> QED
        BY <1>2, <4>1, Zenon DEF Progress, MoveIn
    <3> QED
      BY <1>b, <1>c, <2>1, <3>1 DEF Progress
  <2>2. ASSUME restoreRoot'[k] = IF k \in restoreNew THEN "new" ELSE "absent",
               \A m \in Names : m # k => restoreRoot'[m] = restoreRoot[m],
               restoreStage' = restoreStage \ {k},
               Onward("in", "append")
        PROVE  Progress'
    <3>1. ASSUME NEW m \in Names, m < k \/ m = k
          PROVE  restoreRoot'[m] = IF m \in restoreNew' THEN "new" ELSE "absent"
      <4>1. CASE m = k
        BY <1>c, <2>2, <4>1
      <4>2. CASE m # k
        BY <1>2, <1>c, <2>2, <3>1, <4>2, Zenon DEF Progress, MoveIn
      <4> QED
        BY <4>1, <4>2
    <3>2. CASE k = LastName
      <4>1. \A m \in Names : m < k \/ m = k
        BY <1>a, <3>2, SMT DEF Names
      <4> QED
        BY <1>b, <1>c, <2>2, <3>1, <3>2, <4>1 DEF Progress, IsAfter
    <3>3. CASE k # LastName
      <4>1. restorer' = "in" /\ restoreAt' = k + 1
        BY <2>2, <3>3
      <4>2. \A m \in Names : (m < k + 1 => m < k \/ m = k) /\ (m >= k + 1 <=> m >= k /\ m # k)
        BY <1>a, SMT DEF Names
      <4>3. restoreStage' = {n \in restoreNew' : n >= k + 1}
        BY <1>b, <1>c, <1>d, <2>2, <4>2
      <4>4. \A m \in Names : m >= k + 1 => restoreRoot'[m] = "absent"
        BY <1>2, <2>2, <4>2, Zenon DEF Progress, MoveIn
      <4> QED
        BY <1>b, <1>c, <3>1, <4>1, <4>2, <4>3, <4>4 DEF Progress
    <3> QED
      BY <3>2, <3>3
  <2>3. CASE /\ Onward("in", "append") /\ k \notin restoreStage
             /\ UNCHANGED <<restoreRoot, restoreStage>>
    <3>1. k \notin restoreNew
      BY <1>a, <1>b, <2>3, SMT
    <3>2. k >= k
      BY <1>a, SMT
    <3>3. restoreRoot[k] = "absent"
      BY <1>2, <1>a, <3>2, Zenon DEF Progress, MoveIn
    <3> QED
      BY <2>2, <2>3, <3>1, <3>3
  <2>4. CASE /\ Onward("in", "append") /\ k \in restoreStage
             /\ restoreRoot' = [restoreRoot EXCEPT ![k] = "new"]
             /\ restoreStage' = restoreStage \ {k}
    <3>1. k \in restoreNew
      BY <1>b, <2>4
    <3> QED
      BY <1>a, <1>d, <2>2, <2>4, <3>1
  <2> QED
    BY <2>1, <2>3, <2>4
<1>5. TrustFollows'
  BY <1>2, SMTT(30)
  DEF RestoreInv, RestoreTypeOK, Given, KeptApart, Progress, TrustFollows,
      IsBefore, IsAfter, Names, Database
<1>6. Returned'
  BY <1>2, SMTT(30)
  DEF RestoreInv, RestoreTypeOK, Given, KeptApart, Progress, TrustFollows, Returned,
      IsBefore, IsAfter, Names, Database
<1>7. Served'
  BY <1>2, SMTT(30)
  DEF RestoreInv, RestoreTypeOK, Given, KeptApart, Progress, TrustFollows, Served,
      FitsBoth, IsBefore, IsAfter, Names, Database
<1> QED
  BY <1>3, <1>4, <1>5, <1>6, <1>7

LEMMA AppendRestoredKeeps ==
  ASSUME RestoreInv, AppendRestored
  PROVE  RestoreInv'
<1> USE RestoreAssumption DEF AppendRestored, Inputs, Files, Log, RestoreFault, RollsBack, Goes
<1>0. /\ restoreHost' \in BOOLEAN /\ restoreKeeping' \in BOOLEAN /\ restoreCovered' \in BOOLEAN
      /\ restoreChanged' \in BOOLEAN /\ restoreLinked' \in BOOLEAN /\ restoreTorn' \in BOOLEAN
  BY Zenon DEF RestoreInv, RestoreTypeOK
<1>1. RestoreTypeOK' /\ Given' /\ (restoreService' = "up" => restorer' \in {"idle", "read"})
  BY <1>0, SMTT(30) DEF RestoreInv, RestoreTypeOK, Given, Names, Database, Trusts
<1> SUFFICES ASSUME ~restoreTorn'
             PROVE  (KeptApart /\ Progress /\ TrustFollows /\ Returned /\ Served)'
  BY <1>1 DEF RestoreInv
<1>2. KeptApart /\ Progress /\ TrustFollows /\ Returned /\ Served
  BY DEF RestoreInv
<1>3. KeptApart'
  BY <1>2, SMTT(30)
  DEF RestoreInv, RestoreTypeOK, Given, KeptApart, Progress, TrustFollows,
      IsBefore, IsAfter, Names, Database
<1>4. Progress'
  BY <1>2, SMTT(30)
  DEF RestoreInv, RestoreTypeOK, Given, KeptApart, Progress, TrustFollows,
      IsBefore, IsAfter, Names, Database
<1>5. TrustFollows'
  BY <1>2, SMTT(30)
  DEF RestoreInv, RestoreTypeOK, Given, KeptApart, Progress, TrustFollows,
      IsBefore, IsAfter, Names, Database
<1>6. Returned'
  BY <1>2, SMTT(30)
  DEF RestoreInv, RestoreTypeOK, Given, KeptApart, Progress, TrustFollows, Returned,
      IsBefore, IsAfter, Names, Database
<1>7. Served'
  BY <1>2, SMTT(30)
  DEF RestoreInv, RestoreTypeOK, Given, KeptApart, Progress, TrustFollows, Served,
      FitsBoth, IsBefore, IsAfter, Names, Database
<1> QED
  BY <1>3, <1>4, <1>5, <1>6, <1>7

LEMMA SignRestoredKeeps ==
  ASSUME RestoreInv, SignRestored
  PROVE  RestoreInv'
<1> USE RestoreAssumption DEF SignRestored, Inputs, Files, Log, RestoreFault, RollsBack, Goes
<1>0. /\ restoreHost' \in BOOLEAN /\ restoreKeeping' \in BOOLEAN /\ restoreCovered' \in BOOLEAN
      /\ restoreChanged' \in BOOLEAN /\ restoreLinked' \in BOOLEAN /\ restoreTorn' \in BOOLEAN
  BY Zenon DEF RestoreInv, RestoreTypeOK
<1>1. RestoreTypeOK' /\ Given' /\ (restoreService' = "up" => restorer' \in {"idle", "read"})
  BY <1>0, SMTT(30) DEF RestoreInv, RestoreTypeOK, Given, Names, Database, Trusts
<1> SUFFICES ASSUME ~restoreTorn'
             PROVE  (KeptApart /\ Progress /\ TrustFollows /\ Returned /\ Served)'
  BY <1>1 DEF RestoreInv
<1>2. KeptApart /\ Progress /\ TrustFollows /\ Returned /\ Served
  BY DEF RestoreInv
<1>3. KeptApart'
  BY <1>2, SMTT(30)
  DEF RestoreInv, RestoreTypeOK, Given, KeptApart, Progress, TrustFollows,
      IsBefore, IsAfter, Names, Database
<1>4. Progress'
  BY <1>2, SMTT(30)
  DEF RestoreInv, RestoreTypeOK, Given, KeptApart, Progress, TrustFollows,
      IsBefore, IsAfter, Names, Database
<1>5. TrustFollows'
  <2>1. restoreKept = restoreOld
    <3>1. ASSUME NEW n \in restoreOld PROVE n \in restoreKept
      BY <1>2 DEF RestoreInv, RestoreTypeOK, KeptApart, Progress, IsAfter
    <3> QED
      BY <1>2, <3>1 DEF KeptApart
  <2> QED
    BY <1>2, <2>1, SMTT(30) DEF Progress, TrustFollows, IsAfter
<1>6. Returned'
  BY <1>2, SMTT(30)
  DEF RestoreInv, RestoreTypeOK, Given, KeptApart, Progress, TrustFollows, Returned,
      IsBefore, IsAfter, Names, Database
<1>7. Served'
  BY <1>2, SMTT(30)
  DEF RestoreInv, RestoreTypeOK, Given, KeptApart, Progress, TrustFollows, Served,
      FitsBoth, IsBefore, IsAfter, Names, Database
<1> QED
  BY <1>3, <1>4, <1>5, <1>6, <1>7

LEMMA CommitRestoreKeeps ==
  ASSUME RestoreInv, CommitRestore
  PROVE  RestoreInv'
<1> USE RestoreAssumption DEF CommitRestore, Inputs, Files, Log, Goes
<1>0. /\ restoreHost' \in BOOLEAN /\ restoreKeeping' \in BOOLEAN /\ restoreCovered' \in BOOLEAN
      /\ restoreChanged' \in BOOLEAN /\ restoreLinked' \in BOOLEAN /\ restoreTorn' \in BOOLEAN
  BY Zenon DEF RestoreInv, RestoreTypeOK
<1>1. RestoreTypeOK' /\ Given' /\ (restoreService' = "up" => restorer' \in {"idle", "read"})
  <2>1. restoreRoot' \in [Names -> {"absent", "old", "new", "empty"}]
    BY DEF RestoreInv, RestoreTypeOK
  <2>2. restoreKept' \subseteq Names /\ restoreStage' \subseteq Names
    BY DEF RestoreInv, RestoreTypeOK
  <2>3. restoreAt' \in Names
    BY SMT DEF RestoreInv, RestoreTypeOK, Names
  <2>4. restoreFaults' \in 0..RestoreFaults
    BY SMT DEF RestoreInv, RestoreTypeOK
  <2>5. /\ restoreOld' \subseteq Names /\ restoreNew' \subseteq Names
        /\ restoreTrust' \in Trusts
        /\ restorer' \in {"idle", "read", "signing", "checkpoint", "stage", "out",
                         "in", "append", "sign", "commit", "back", "forth", "fail"}
        /\ restoreResult' \in {"none", "ok", "failed", "died"}
        /\ restoreService' \in {"down", "up", "refused"}
    BY SMT DEF RestoreInv, RestoreTypeOK, Trusts
  <2>6. Given' /\ (restoreService' = "up" => restorer' \in {"idle", "read"})
    BY SMT DEF RestoreInv, Given
  <2> QED
    BY <1>0, <2>1, <2>2, <2>3, <2>4, <2>5, <2>6 DEF RestoreTypeOK
<1> SUFFICES ASSUME ~restoreTorn'
             PROVE  (KeptApart /\ Progress /\ TrustFollows /\ Returned /\ Served)'
  BY <1>1 DEF RestoreInv
<1>2. KeptApart /\ Progress /\ TrustFollows /\ Returned /\ Served
  BY DEF RestoreInv
<1>3. KeptApart'
  BY <1>2, SMTT(30)
  DEF RestoreInv, RestoreTypeOK, Given, KeptApart, Progress, TrustFollows,
      IsBefore, IsAfter, Names, Database
<1>4. Progress'
  BY <1>2, SMTT(30)
  DEF RestoreInv, RestoreTypeOK, Given, KeptApart, Progress, TrustFollows,
      IsBefore, IsAfter, Names, Database
<1>5. TrustFollows'
  BY <1>2, SMTT(30)
  DEF RestoreInv, RestoreTypeOK, Given, KeptApart, Progress, TrustFollows,
      IsBefore, IsAfter, Names, Database
<1>6. Returned'
  BY <1>2, SMTT(30)
  DEF RestoreInv, RestoreTypeOK, Given, KeptApart, Progress, TrustFollows, Returned,
      IsBefore, IsAfter, Names, Database
<1>7. Served'
  BY <1>2, SMTT(30)
  DEF RestoreInv, RestoreTypeOK, Given, KeptApart, Progress, TrustFollows, Served,
      FitsBoth, IsBefore, IsAfter, Names, Database
<1> QED
  BY <1>3, <1>4, <1>5, <1>6, <1>7

(* The rollback takes out what came in, app.db last,                       *)
LEMMA MoveBackKeeps ==
  ASSUME RestoreInv, MoveBack
  PROVE  RestoreInv'
<1> USE RestoreAssumption DEF MoveBack, Inputs, Files, Log, RestoreFault, Backward, Goes
<1>0. /\ restoreHost' \in BOOLEAN /\ restoreKeeping' \in BOOLEAN /\ restoreCovered' \in BOOLEAN
      /\ restoreChanged' \in BOOLEAN /\ restoreLinked' \in BOOLEAN /\ restoreTorn' \in BOOLEAN
  BY Zenon DEF RestoreInv, RestoreTypeOK
<1>1. RestoreTypeOK' /\ Given' /\ (restoreService' = "up" => restorer' \in {"idle", "read"})
  <2>1. restoreRoot' \in [Names -> {"absent", "old", "new", "empty"}]
    BY DEF RestoreInv, RestoreTypeOK
  <2>2. restoreKept' \subseteq Names /\ restoreStage' \subseteq Names
    BY DEF RestoreInv, RestoreTypeOK
  <2>3. restoreAt' \in Names
    BY SMT DEF RestoreInv, RestoreTypeOK, Names
  <2>4. restoreFaults' \in 0..RestoreFaults
    BY SMT DEF RestoreInv, RestoreTypeOK
  <2>5. /\ restoreOld' \subseteq Names /\ restoreNew' \subseteq Names
        /\ restoreTrust' \in Trusts
        /\ restorer' \in {"idle", "read", "signing", "checkpoint", "stage", "out",
                         "in", "append", "sign", "commit", "back", "forth", "fail"}
        /\ restoreResult' \in {"none", "ok", "failed", "died"}
        /\ restoreService' \in {"down", "up", "refused"}
    BY SMT DEF RestoreInv, RestoreTypeOK, Trusts
  <2>6. Given' /\ (restoreService' = "up" => restorer' \in {"idle", "read"})
    BY SMT DEF RestoreInv, Given
  <2> QED
    BY <1>0, <2>1, <2>2, <2>3, <2>4, <2>5, <2>6 DEF RestoreTypeOK
<1> SUFFICES ASSUME ~restoreTorn'
             PROVE  (KeptApart /\ Progress /\ TrustFollows /\ Returned /\ Served)'
  BY <1>1 DEF RestoreInv
<1>2. KeptApart /\ Progress /\ TrustFollows /\ Returned /\ Served
  BY DEF RestoreInv
<1>3. KeptApart'
  BY <1>2, SMTT(30)
  DEF RestoreInv, RestoreTypeOK, Given, KeptApart, Progress, TrustFollows,
      IsBefore, IsAfter, Names, Database
<1>4. Progress'
  BY <1>2, SMTT(30)
  DEF RestoreInv, RestoreTypeOK, Given, KeptApart, Progress, TrustFollows,
      IsBefore, IsAfter, Names, Database
<1>5. TrustFollows'
  BY <1>2, SMTT(30)
  DEF RestoreInv, RestoreTypeOK, Given, KeptApart, Progress, TrustFollows,
      IsBefore, IsAfter, Names, Database
<1>6. Returned'
  BY <1>2, SMTT(30)
  DEF RestoreInv, RestoreTypeOK, Given, KeptApart, Progress, TrustFollows, Returned,
      IsBefore, IsAfter, Names, Database
<1>7. Served'
  BY <1>2, SMTT(30)
  DEF RestoreInv, RestoreTypeOK, Given, KeptApart, Progress, TrustFollows, Served,
      FitsBoth, IsBefore, IsAfter, Names, Database
<1> QED
  BY <1>3, <1>4, <1>5, <1>6, <1>7

(* and brings back what went out, app.db last.                             *)
LEMMA MoveForthKeeps ==
  ASSUME RestoreInv, MoveForth
  PROVE  RestoreInv'
<1> USE RestoreAssumption DEF MoveForth, Inputs, Files, Log, RestoreFault, Backward, Goes
<1>0. /\ restoreHost' \in BOOLEAN /\ restoreKeeping' \in BOOLEAN /\ restoreCovered' \in BOOLEAN
      /\ restoreChanged' \in BOOLEAN /\ restoreLinked' \in BOOLEAN /\ restoreTorn' \in BOOLEAN
  BY Zenon DEF RestoreInv, RestoreTypeOK
<1>1. RestoreTypeOK' /\ Given' /\ (restoreService' = "up" => restorer' \in {"idle", "read"})
  <2>1. restoreRoot' \in [Names -> {"absent", "old", "new", "empty"}]
    BY DEF RestoreInv, RestoreTypeOK
  <2>2. restoreKept' \subseteq Names /\ restoreStage' \subseteq Names
    BY DEF RestoreInv, RestoreTypeOK
  <2>3. restoreAt' \in Names
    BY SMT DEF RestoreInv, RestoreTypeOK, Names
  <2>4. restoreFaults' \in 0..RestoreFaults
    BY SMT DEF RestoreInv, RestoreTypeOK
  <2>5. /\ restoreOld' \subseteq Names /\ restoreNew' \subseteq Names
        /\ restoreTrust' \in Trusts
        /\ restorer' \in {"idle", "read", "signing", "checkpoint", "stage", "out",
                         "in", "append", "sign", "commit", "back", "forth", "fail"}
        /\ restoreResult' \in {"none", "ok", "failed", "died"}
        /\ restoreService' \in {"down", "up", "refused"}
    BY SMT DEF RestoreInv, RestoreTypeOK, Trusts
  <2>6. Given' /\ (restoreService' = "up" => restorer' \in {"idle", "read"})
    BY SMT DEF RestoreInv, Given
  <2> QED
    BY <1>0, <2>1, <2>2, <2>3, <2>4, <2>5, <2>6 DEF RestoreTypeOK
<1> SUFFICES ASSUME ~restoreTorn'
             PROVE  (KeptApart /\ Progress /\ TrustFollows /\ Returned /\ Served)'
  BY <1>1 DEF RestoreInv
<1>2. KeptApart /\ Progress /\ TrustFollows /\ Returned /\ Served
  BY DEF RestoreInv
<1> DEFINE k == restoreAt
           moved == /\ k \in restoreKept /\ restoreKept' = restoreKept \ {k}
                    /\ restoreRoot' = [restoreRoot EXCEPT ![k] = "old"]
<1>a. k \in Nat /\ k >= 1 /\ k =< LastName /\ k \in Names /\ LastName \in Nat
  BY SMT DEF RestoreInv, RestoreTypeOK, Names
<1>b. moved \/ (k \notin restoreKept /\ UNCHANGED <<restoreRoot, restoreKept>>)
  BY DEF RestoreInv, RestoreTypeOK
<1>c. UNCHANGED <<restoreOld, restoreNew, restoreHost, restoreKeeping>> /\ restoreKeeping
  BY <1>2 DEF Progress
<1>d. /\ restoreRoot \in [Names -> {"absent", "old", "new", "empty"}]
      /\ restoreOld \subseteq Names /\ restoreKept \subseteq restoreOld
  BY <1>2 DEF RestoreInv, RestoreTypeOK, KeptApart
<1>e. ASSUME moved, NEW m \in Names
      PROVE  restoreRoot'[m] = IF m = k THEN "old" ELSE restoreRoot[m]
  BY <1>d, <1>e
<1>f. ASSUME NEW m \in Names
      PROVE  /\ restoreRoot'[m] = "old" <=> m \in restoreOld' /\ m \notin restoreKept'
             /\ restoreRoot'[m] \in {"absent", "old"}
             /\ m > k \/ m = k => m \notin restoreKept'
  <2>1. (restoreRoot[m] = "old" <=> m \in restoreOld /\ m \notin restoreKept)
        /\ restoreRoot[m] \in {"absent", "old"} /\ (m > k => m \notin restoreKept)
    BY <1>2, Zenon DEF KeptApart, Progress, MoveForth
  <2>2. CASE moved
    BY <1>c, <1>d, <1>e, <2>1, <2>2
  <2>3. CASE k \notin restoreKept /\ UNCHANGED <<restoreRoot, restoreKept>>
    BY <1>c, <2>1, <2>3
  <2> QED
    BY <1>b, <2>2, <2>3
<1>3. KeptApart'
  <2>1. restoreKept' \subseteq restoreOld'
    BY <1>b, <1>c, <1>d
  <2>2. restoreRoot'[Database] = "old" => IsBefore'
    <3>1. CASE k = 1
      <4>1. ASSUME NEW m \in Names PROVE m \notin restoreKept'
        <5>1. m > k \/ m = k
          BY <3>1, SMT DEF Names
        <5> QED
          BY <1>f, <5>1
      <4> QED
        BY <1>f, <4>1 DEF IsBefore
    <3>2. CASE k # 1
      <4>1. ASSUME restoreRoot'[Database] = "old" PROVE IsBefore
        <5>1. Database \in Names
          BY <1>a, SMT DEF Names, Database
        <5>2. restoreRoot[Database] = "old"
          BY <1>b, <1>e, <3>2, <4>1, <5>1 DEF Database
        <5> QED
          BY <1>2, <5>2 DEF KeptApart
      <4>2. IsBefore => ~moved
        BY <1>2, <1>a, <1>d DEF IsBefore, KeptApart
      <4> QED
        BY <1>b, <1>c, <4>1, <4>2 DEF IsBefore
    <3> QED
      BY <3>1, <3>2
  <2> QED
    BY <1>c, <1>f, <2>1, <2>2 DEF KeptApart
<1>4. Progress'
  <2>1. CASE k = 1
    <3>1. ASSUME NEW m \in Names PROVE m \notin restoreKept'
      <4>1. m > k \/ m = k
        BY <2>1, SMT DEF Names
      <4> QED
        BY <1>f, <4>1
    <3>2. restoreKept' = {}
      BY <1>b, <1>d, <3>1
    <3>3. IsBefore'
      BY <1>f, <3>1 DEF IsBefore
    <3>4. restorer' = "fail"
      BY <2>1
    <3> QED
      BY <3>2, <3>3, <3>4 DEF Progress
  <2>2. CASE k # 1
    <3>1. restorer' = "forth" /\ restoreAt' = k - 1
      BY <2>2
    <3>2. ASSUME NEW m \in Names, m > k - 1 PROVE m > k \/ m = k
      BY <1>a, <3>2, SMT DEF Names
    <3> QED
      BY <1>c, <1>f, <3>1, <3>2 DEF Progress
  <2> QED
    BY <2>1, <2>2
<1>5. TrustFollows'
  BY <1>2, SMTT(30)
  DEF RestoreInv, RestoreTypeOK, Given, KeptApart, Progress, TrustFollows,
      IsBefore, IsAfter, Names, Database
<1>6. Returned'
  BY <1>2, SMTT(30)
  DEF RestoreInv, RestoreTypeOK, Given, KeptApart, Progress, TrustFollows, Returned,
      IsBefore, IsAfter, Names, Database
<1>7. Served'
  BY <1>2, SMTT(30)
  DEF RestoreInv, RestoreTypeOK, Given, KeptApart, Progress, TrustFollows, Served,
      FitsBoth, IsBefore, IsAfter, Names, Database
<1> QED
  BY <1>3, <1>4, <1>5, <1>6, <1>7

LEMMA FailRestoreKeeps ==
  ASSUME RestoreInv, FailRestore
  PROVE  RestoreInv'
<1> USE RestoreAssumption DEF FailRestore, Inputs, Files, Log, Goes
<1>0. /\ restoreHost' \in BOOLEAN /\ restoreKeeping' \in BOOLEAN /\ restoreCovered' \in BOOLEAN
      /\ restoreChanged' \in BOOLEAN /\ restoreLinked' \in BOOLEAN /\ restoreTorn' \in BOOLEAN
  BY Zenon DEF RestoreInv, RestoreTypeOK
<1>1. RestoreTypeOK' /\ Given' /\ (restoreService' = "up" => restorer' \in {"idle", "read"})
  <2>1. restoreRoot' \in [Names -> {"absent", "old", "new", "empty"}]
    BY DEF RestoreInv, RestoreTypeOK
  <2>2. restoreKept' \subseteq Names /\ restoreStage' \subseteq Names
    BY DEF RestoreInv, RestoreTypeOK
  <2>3. restoreAt' \in Names
    BY SMT DEF RestoreInv, RestoreTypeOK, Names
  <2>4. restoreFaults' \in 0..RestoreFaults
    BY SMT DEF RestoreInv, RestoreTypeOK
  <2>5. /\ restoreOld' \subseteq Names /\ restoreNew' \subseteq Names
        /\ restoreTrust' \in Trusts
        /\ restorer' \in {"idle", "read", "signing", "checkpoint", "stage", "out",
                         "in", "append", "sign", "commit", "back", "forth", "fail"}
        /\ restoreResult' \in {"none", "ok", "failed", "died"}
        /\ restoreService' \in {"down", "up", "refused"}
    BY SMT DEF RestoreInv, RestoreTypeOK, Trusts
  <2>6. Given' /\ (restoreService' = "up" => restorer' \in {"idle", "read"})
    BY SMT DEF RestoreInv, Given
  <2> QED
    BY <1>0, <2>1, <2>2, <2>3, <2>4, <2>5, <2>6 DEF RestoreTypeOK
<1> SUFFICES ASSUME ~restoreTorn'
             PROVE  (KeptApart /\ Progress /\ TrustFollows /\ Returned /\ Served)'
  BY <1>1 DEF RestoreInv
<1>2. KeptApart /\ Progress /\ TrustFollows /\ Returned /\ Served
  BY DEF RestoreInv
<1>3. KeptApart'
  BY <1>2, SMTT(30)
  DEF RestoreInv, RestoreTypeOK, Given, KeptApart, Progress, TrustFollows,
      IsBefore, IsAfter, Names, Database
<1>4. Progress'
  BY <1>2, SMTT(30)
  DEF RestoreInv, RestoreTypeOK, Given, KeptApart, Progress, TrustFollows,
      IsBefore, IsAfter, Names, Database
<1>5. TrustFollows'
  BY <1>2, SMTT(30)
  DEF RestoreInv, RestoreTypeOK, Given, KeptApart, Progress, TrustFollows,
      IsBefore, IsAfter, Names, Database
<1>6. Returned'
  BY <1>2, SMTT(30)
  DEF RestoreInv, RestoreTypeOK, Given, KeptApart, Progress, TrustFollows, Returned,
      IsBefore, IsAfter, Names, Database
<1>7. Served'
  BY <1>2, SMTT(30)
  DEF RestoreInv, RestoreTypeOK, Given, KeptApart, Progress, TrustFollows, Served,
      FitsBoth, IsBefore, IsAfter, Names, Database
<1> QED
  BY <1>3, <1>4, <1>5, <1>6, <1>7

LEMMA RestorerDiesKeeps ==
  ASSUME RestoreInv, RestorerDies
  PROVE  RestoreInv'
<1> USE RestoreAssumption DEF RestorerDies, Inputs, Files, Log, Goes
<1>0. /\ restoreHost' \in BOOLEAN /\ restoreKeeping' \in BOOLEAN /\ restoreCovered' \in BOOLEAN
      /\ restoreChanged' \in BOOLEAN /\ restoreLinked' \in BOOLEAN /\ restoreTorn' \in BOOLEAN
  BY Zenon DEF RestoreInv, RestoreTypeOK
<1>1. RestoreTypeOK' /\ Given' /\ (restoreService' = "up" => restorer' \in {"idle", "read"})
  BY <1>0, SMTT(30) DEF RestoreInv, RestoreTypeOK, Given, Names, Database, Trusts
<1> SUFFICES ASSUME ~restoreTorn'
             PROVE  (KeptApart /\ Progress /\ TrustFollows /\ Returned /\ Served)'
  BY <1>1 DEF RestoreInv
<1>2. KeptApart /\ Progress /\ TrustFollows /\ Returned /\ Served
  BY DEF RestoreInv
<1>3. KeptApart'
  BY <1>2, SMTT(30)
  DEF RestoreInv, RestoreTypeOK, Given, KeptApart, Progress, TrustFollows,
      IsBefore, IsAfter, Names, Database
<1>4. Progress'
  BY <1>2, SMTT(30)
  DEF RestoreInv, RestoreTypeOK, Given, KeptApart, Progress, TrustFollows,
      IsBefore, IsAfter, Names, Database
<1>5. TrustFollows'
  BY <1>2, SMTT(30)
  DEF RestoreInv, RestoreTypeOK, Given, KeptApart, Progress, TrustFollows,
      IsBefore, IsAfter, Names, Database
<1>6. Returned'
  BY <1>2, SMTT(30)
  DEF RestoreInv, RestoreTypeOK, Given, KeptApart, Progress, TrustFollows, Returned,
      IsBefore, IsAfter, Names, Database
<1>7. Served'
  BY <1>2, SMTT(30)
  DEF RestoreInv, RestoreTypeOK, Given, KeptApart, Progress, TrustFollows, Served,
      FitsBoth, IsBefore, IsAfter, Names, Database
<1> QED
  BY <1>3, <1>4, <1>5, <1>6, <1>7

LEMMA RestoreAlwaysInv == RestoreSpec => []RestoreInv
<1>1. RestoreInv /\ UNCHANGED restoreVars => RestoreInv'
  BY SMTT(30) DEF restoreVars, RestoreInv, RestoreTypeOK, Given, KeptApart, Progress,
     TrustFollows,
       Returned, Served, FitsBoth, IsBefore, IsAfter
<1>2. RestoreInv /\ RestoreNext => RestoreInv'
  BY RestoreServiceStartsKeeps, RestoreServiceStopsKeeps, RestoreServiceSignsKeeps,
     RestoreReadsKeeps, RecoverHostBeginsKeeps, RecoverHostInstallsKeeps,
     RestoreStagesKeeps, RestoreRefusedKeeps, MoveOutKeeps, MoveInKeeps,
     AppendRestoredKeeps, SignRestoredKeeps, CommitRestoreKeeps, MoveBackKeeps,
     MoveForthKeeps, FailRestoreKeeps, RestorerDiesKeeps, Zenon DEF RestoreNext
<1> QED
  BY <1>1, <1>2, RestoreBegins, PTL DEF RestoreSpec

(* Whatever fails or dies, and whenever the service starts: as long as no  *)
(* rename of a rollback fails, nothing of the old state is lost, a command *)
(* that returns has done all or nothing, and no mixture is served unless   *)
(* the checkpoint fits both.                                               *)
THEOREM RestoreAlwaysSafe == RestoreSpec => []RestoreSafe
<1>1. RestoreInv => RestoreSafe
  <2> SUFFICES ASSUME RestoreInv, ~restoreTorn
               PROVE  OldStateKept /\ ReturnsWhole /\ ServesOneState
    BY DEF RestoreSafe
  <2>1. IsBefore => restoreRoot = StateBefore
    BY DEF IsBefore, StateBefore, RestoreInv, RestoreTypeOK
  <2>2. IsAfter => restoreRoot = StateAfter
    BY DEF IsAfter, StateAfter, RestoreInv, RestoreTypeOK
  <2>3. OldStateKept
    BY DEF OldStateKept, RestoreInv, RestoreTypeOK, KeptApart
  <2>4. ReturnsWhole
    BY <2>1, <2>2, RestoreAssumption DEF ReturnsWhole, RestoreInv, Returned,
       TrustFollows, Trusted, IsAfter, Given, Names, Database
  <2>5. ServesOneState
    BY <2>1, <2>2 DEF ServesOneState, RestoreInv, Served
  <2> QED
    BY <2>3, <2>4, <2>5
<1> QED
  BY <1>1, RestoreAlwaysInv, PTL

----------------------------------------------------------------------------
(* SecurityEvents: files, the cursor and the order. *)

(* A file that a signal is due for is there or was sent; the sender works  *)
(* on one that is there.                                                   *)
Spooled ==
  /\ \A e \in eventQueued \cup signalling : Forwarded(e)
  /\ senderAt = "send" => sending \in outbox
  /\ senderAt = "remove" => sending \in relayed
  /\ senderAt = "wait" /\ outbox # {} => senderWoken \/ signalling # {}
  /\ ~eventsUp =>
       poller = "off" /\ persisting = 0 /\ signalling = {} /\ observing = {}
  /\ outboxStray <= eventFaults

(* The poller stands behind its cursor.                                    *)
CursorBehind ==
  /\ eventFirst <= eventCursor /\ eventCursor <= eventTail
  /\ eventFirst = NoCursor => eventCursor = NoCursor
  /\ poller = "first" => eventCursor = NoCursor /\ pollerLast <= eventTail
  /\ poller \in {"next", "queue", "cursor", "tick"} =>
       eventCursor # NoCursor /\ pollerLast = eventCursor
  /\ poller \in {"queue", "cursor"} =>
       pollerEvent = eventCursor + 1 /\ pollerEvent <= eventTail
  /\ persisting # 0 => persisting = pollerEvent /\ signalling = {}
  /\ signalling # {} => signalling = {pollerEvent}
  /\ persisting # 0 \/ signalling # {} =>
       poller = "queue" /\ pollerEvent \in eventNotifies

(* Nothing is ahead of the event behind the cursor.                        *)
InOrder ==
  /\ eventCursor = NoCursor => outbox \cup relayed = {}
  /\ \A e \in outbox \cup relayed : e <= eventCursor + 1 /\ e <= eventTail
  /\ senderAt = "send" => \A e \in outbox : sending <= e
  /\ poller = "cursor" /\ pollerEvent \in eventNotifies => Forwarded(pollerEvent)
  /\ \A e \in EventIds : Due(e) =>
       /\ e <= eventCursor => Forwarded(e)
       /\ \A d \in relayed : e < d => e \in relayed

EventsInv ==
  /\ SecurityEventsTypeOK /\ Spooled
  /\ eventChannel = "email" => CursorBehind /\ InOrder

LEMMA EventsInitInv ==
  ASSUME SecurityEventsInit
  PROVE  EventsInv
<1> USE SecurityEventsAssumption DEF SecurityEventsInit, EventIds, NoCursor
<1>1. eventNotifies \subseteq EventIds /\ eventsUp \in BOOLEAN /\ senderWoken \in BOOLEAN
  OBVIOUS
<1>2. SecurityEventsTypeOK
  BY <1>1 DEF SecurityEventsTypeOK
<1>3. Spooled
  BY <1>1, <1>2 DEF Spooled
<1>4. CursorBehind
  BY <1>2 DEF CursorBehind
<1>5. InOrder
  BY <1>2 DEF InOrder, Due
<1> QED
  BY <1>2, <1>3, <1>4, <1>5 DEF EventsInv

LEMMA BackedOff ==
  ASSUME SecurityEventsTypeOK, BacksOff
  PROVE  /\ senderFailures' \in 0..Threshold
         /\ eventFaults' \in 0..EventFaults /\ eventFaults <= eventFaults'
         /\ senderAt' \in {"delay", "open"} /\ UNCHANGED sending
<1>1. senderFailures \in 0..Threshold /\ eventFaults \in 0..EventFaults
  BY DEF SecurityEventsTypeOK
<1> QED
  BY <1>1, SecurityEventsAssumption DEF BacksOff, EventFault

(* An event that has just been committed is behind the cursor.             *)
LEMMA EventCommittedStep ==
  ASSUME EventsInv, EventCommitted
  PROVE  EventsInv'
<1> USE SecurityEventsAssumption DEF EventCommitted, sourceVars, pollVars,
        spoolVars, sendVars, EventIds, NoCursor
<1>1. eventsUp' \in BOOLEAN /\ senderWoken' \in BOOLEAN
  BY DEF EventsInv, SecurityEventsTypeOK
<1>2. eventTail < LastEvent /\ eventTail' = eventTail + 1
  OBVIOUS
<1>3. observing' \subseteq observing \cup {eventTail'}
  OBVIOUS
<1>4. eventTail' \in 0..LastEvent /\ observing' \subseteq EventIds
  BY <1>2, <1>3 DEF EventsInv, SecurityEventsTypeOK
<1>5. SecurityEventsTypeOK'
  BY <1>1, <1>4 DEF EventsInv, SecurityEventsTypeOK, Spooled
<1>6. Spooled'
  BY <1>1 DEF EventsInv, SecurityEventsTypeOK, Spooled, Forwarded
<1>7. eventChannel' = "email" => CursorBehind'
  BY DEF EventsInv, SecurityEventsTypeOK, Spooled, CursorBehind
<1>8. eventChannel' = "email" => InOrder'
  BY DEF EventsInv, SecurityEventsTypeOK, CursorBehind, InOrder, Spooled, Due, Forwarded
<1> QED
  BY <1>5, <1>6, <1>7, <1>8 DEF EventsInv

(* Nothing is in the memory of a process that starts.                      *)
LEMMA EventsStartStep ==
  ASSUME EventsInv, EventsStart
  PROVE  EventsInv'
<1> USE SecurityEventsAssumption DEF EventsStart, sourceVars, pollVars,
        spoolVars, sendVars, EventIds, NoCursor
<1>1. eventsUp' \in BOOLEAN /\ senderWoken' \in BOOLEAN
  BY DEF EventsInv, SecurityEventsTypeOK
<1>2. SecurityEventsTypeOK'
  BY <1>1 DEF EventsInv, SecurityEventsTypeOK, Spooled
<1>3. Spooled'
  BY <1>1 DEF EventsInv, SecurityEventsTypeOK, Spooled, Forwarded
<1>4. eventChannel' = "email" => CursorBehind'
  BY DEF EventsInv, SecurityEventsTypeOK, Spooled, CursorBehind
<1>5. eventChannel' = "email" => InOrder'
  BY DEF EventsInv, SecurityEventsTypeOK, CursorBehind, InOrder, Spooled, Due, Forwarded
<1> QED
  BY <1>2, <1>3, <1>4, <1>5 DEF EventsInv

(* A death leaves at most one temporary file.                              *)
LEMMA EventsDieStep ==
  ASSUME EventsInv, EventsDie
  PROVE  EventsInv'
<1> USE SecurityEventsAssumption DEF EventsDie, EventFault, sourceVars, pollVars,
        spoolVars, sendVars, EventIds, NoCursor
<1>1. eventsUp' \in BOOLEAN /\ senderWoken' \in BOOLEAN
  BY DEF EventsInv, SecurityEventsTypeOK
<1>2. outboxStray' \in 0..EventFaults /\ eventFaults' \in 0..EventFaults
  BY DEF EventsInv, SecurityEventsTypeOK, Spooled
<1>3. SecurityEventsTypeOK'
  BY <1>1, <1>2 DEF EventsInv, SecurityEventsTypeOK, Spooled
<1>4. Spooled'
  BY <1>1 DEF EventsInv, SecurityEventsTypeOK, Spooled, Forwarded
<1>5. eventChannel' = "email" => CursorBehind'
  BY DEF EventsInv, SecurityEventsTypeOK, Spooled, CursorBehind
<1>6. eventChannel' = "email" => InOrder'
  BY DEF EventsInv, SecurityEventsTypeOK, CursorBehind, InOrder, Spooled, Due, Forwarded
<1> QED
  BY <1>3, <1>4, <1>5, <1>6 DEF EventsInv

(* A file that is there already was written for the same event.            *)
LEMMA QueueBeginsStep ==
  ASSUME EventsInv, NEW e \in EventIds, QueueBegins(e)
  PROVE  EventsInv'
<1> USE SecurityEventsAssumption DEF QueueBegins, Offered, sourceVars, pollVars,
        spoolVars, sendVars, EventIds, NoCursor
<1>1. eventsUp' \in BOOLEAN /\ senderWoken' \in BOOLEAN
  BY DEF EventsInv, SecurityEventsTypeOK
<1>2. SecurityEventsTypeOK'
  BY <1>1 DEF EventsInv, SecurityEventsTypeOK, Spooled
<1>3. Spooled'
  BY <1>1 DEF EventsInv, SecurityEventsTypeOK, Spooled, Forwarded
<1>4. eventChannel' = "email" => CursorBehind'
  BY DEF EventsInv, SecurityEventsTypeOK, Spooled, CursorBehind
<1>5. eventChannel' = "email" => InOrder'
  BY DEF EventsInv, SecurityEventsTypeOK, CursorBehind, InOrder, Spooled, Due, Forwarded
<1> QED
  BY <1>2, <1>3, <1>4, <1>5 DEF EventsInv

(* Without its file the event stays behind the cursor.                     *)
LEMMA QueueFailsStep ==
  ASSUME EventsInv, NEW e \in EventIds, QueueFails(e)
  PROVE  EventsInv'
<1> USE SecurityEventsAssumption DEF QueueFails, Offered, Returns, EventFault, sourceVars, pollVars,
        spoolVars, sendVars, EventIds, NoCursor
<1>1. eventsUp' \in BOOLEAN /\ senderWoken' \in BOOLEAN
  BY DEF EventsInv, SecurityEventsTypeOK
<1>2. eventsUp
  BY DEF EventsInv, SecurityEventsTypeOK, Spooled
<1>3. SecurityEventsTypeOK'
  BY <1>1 DEF EventsInv, SecurityEventsTypeOK, Spooled
<1>4. Spooled'
  BY <1>2, <1>1 DEF EventsInv, SecurityEventsTypeOK, Spooled, Forwarded
<1>5. eventChannel' = "email" => CursorBehind'
  BY DEF EventsInv, SecurityEventsTypeOK, Spooled, CursorBehind
<1>6. eventChannel' = "email" => InOrder'
  BY <1>2 DEF EventsInv, SecurityEventsTypeOK, CursorBehind, InOrder, Spooled, Due, Forwarded
<1> QED
  BY <1>3, <1>4, <1>5, <1>6 DEF EventsInv

(* No file is ahead of the one that is written.                            *)
LEMMA QueueEndsStep ==
  ASSUME EventsInv, QueueEnds
  PROVE  EventsInv'
<1> USE SecurityEventsAssumption DEF QueueEnds, sourceVars, pollVars,
        spoolVars, sendVars, EventIds, NoCursor
<1>1. eventsUp' \in BOOLEAN /\ senderWoken' \in BOOLEAN
  BY DEF EventsInv, SecurityEventsTypeOK
<1>2. SecurityEventsTypeOK'
  BY <1>1 DEF EventsInv, SecurityEventsTypeOK, Spooled
<1>3. Spooled'
  BY <1>1 DEF EventsInv, SecurityEventsTypeOK, Spooled, Forwarded
<1>4. eventChannel' = "email" => CursorBehind'
  BY DEF EventsInv, SecurityEventsTypeOK, Spooled, CursorBehind
<1>5. eventChannel' = "email" => InOrder'
  BY DEF EventsInv, SecurityEventsTypeOK, CursorBehind, InOrder, Spooled, Due, Forwarded
<1> QED
  BY <1>2, <1>3, <1>4, <1>5 DEF EventsInv

(* The signal wakes a sender that waits.                                   *)
LEMMA QueueSignalsStep ==
  ASSUME EventsInv, NEW e \in EventIds, QueueSignals(e)
  PROVE  EventsInv'
<1> USE SecurityEventsAssumption DEF QueueSignals, Returns, sourceVars, pollVars,
        spoolVars, sendVars, EventIds, NoCursor
<1>1. eventsUp' \in BOOLEAN /\ senderWoken' \in BOOLEAN
  BY DEF EventsInv, SecurityEventsTypeOK
<1>2. SecurityEventsTypeOK'
  BY <1>1 DEF EventsInv, SecurityEventsTypeOK, Spooled
<1>3. Spooled'
  BY <1>1 DEF EventsInv, SecurityEventsTypeOK, Spooled, Forwarded
<1>4. eventChannel' = "email" => CursorBehind'
  BY DEF EventsInv, SecurityEventsTypeOK, Spooled, CursorBehind
<1>5. eventChannel' = "email" => InOrder'
  BY DEF EventsInv, SecurityEventsTypeOK, CursorBehind, InOrder, Spooled, Due, Forwarded
<1> QED
  BY <1>2, <1>3, <1>4, <1>5 DEF EventsInv

LEMMA PollerReadsStep ==
  ASSUME EventsInv, PollerReads
  PROVE  EventsInv'
<1> USE SecurityEventsAssumption DEF PollerReads, NotPolled, Polls, sourceVars, pollVars,
        spoolVars, sendVars, EventIds, NoCursor
<1>1. eventsUp' \in BOOLEAN /\ senderWoken' \in BOOLEAN
  BY DEF EventsInv, SecurityEventsTypeOK
<1>2. SecurityEventsTypeOK'
  BY <1>1 DEF EventsInv, SecurityEventsTypeOK, Spooled
<1>3. Spooled'
  BY <1>1 DEF EventsInv, SecurityEventsTypeOK, Spooled, Forwarded
<1>4. eventChannel' = "email" => CursorBehind'
  BY DEF EventsInv, SecurityEventsTypeOK, Spooled, CursorBehind
<1>5. eventChannel' = "email" => InOrder'
  BY DEF EventsInv, SecurityEventsTypeOK, CursorBehind, InOrder, Spooled, Due, Forwarded
<1> QED
  BY <1>2, <1>3, <1>4, <1>5 DEF EventsInv

(* What was committed before the first start is not due.                   *)
LEMMA PollerFirstStep ==
  ASSUME EventsInv, PollerFirst
  PROVE  EventsInv'
<1> USE SecurityEventsAssumption DEF PollerFirst, NotPolled, Polls, sourceVars, pollVars,
        spoolVars, sendVars, EventIds, NoCursor
<1>1. eventsUp' \in BOOLEAN /\ senderWoken' \in BOOLEAN
  BY DEF EventsInv, SecurityEventsTypeOK
<1>2. SecurityEventsTypeOK'
  BY <1>1 DEF EventsInv, SecurityEventsTypeOK, Spooled
<1>3. Spooled'
  BY <1>1 DEF EventsInv, SecurityEventsTypeOK, Spooled, Forwarded
<1>4. eventChannel' = "email" => CursorBehind'
  BY DEF EventsInv, SecurityEventsTypeOK, Spooled, CursorBehind
<1>5. eventChannel' = "email" => InOrder'
  BY DEF EventsInv, SecurityEventsTypeOK, CursorBehind, InOrder, Spooled, Due, Forwarded
<1> QED
  BY <1>2, <1>3, <1>4, <1>5 DEF EventsInv

LEMMA PollerFindsStep ==
  ASSUME EventsInv, PollerFinds
  PROVE  EventsInv'
<1> USE SecurityEventsAssumption DEF PollerFinds, NotPolled, Polls, EventFault, sourceVars, pollVars,
        spoolVars, sendVars, EventIds, NoCursor
<1>1. eventsUp' \in BOOLEAN /\ senderWoken' \in BOOLEAN
  BY DEF EventsInv, SecurityEventsTypeOK
<1>2. SecurityEventsTypeOK'
  BY <1>1 DEF EventsInv, SecurityEventsTypeOK, Spooled
<1>3. Spooled'
  BY <1>1 DEF EventsInv, SecurityEventsTypeOK, Spooled, Forwarded
<1>4. eventChannel' = "email" => CursorBehind'
  BY DEF EventsInv, SecurityEventsTypeOK, Spooled, CursorBehind
<1>5. eventChannel' = "email" => InOrder'
  BY DEF EventsInv, SecurityEventsTypeOK, CursorBehind, InOrder, Spooled, Due, Forwarded
<1> QED
  BY <1>2, <1>3, <1>4, <1>5 DEF EventsInv

LEMMA PollerPassesStep ==
  ASSUME EventsInv, PollerPasses
  PROVE  EventsInv'
<1> USE SecurityEventsAssumption DEF PollerPasses, NotPolled, Polls, sourceVars, pollVars,
        spoolVars, sendVars, EventIds, NoCursor
<1>1. eventsUp' \in BOOLEAN /\ senderWoken' \in BOOLEAN
  BY DEF EventsInv, SecurityEventsTypeOK
<1>2. SecurityEventsTypeOK'
  BY <1>1 DEF EventsInv, SecurityEventsTypeOK, Spooled
<1>3. Spooled'
  BY <1>1 DEF EventsInv, SecurityEventsTypeOK, Spooled, Forwarded
<1>4. eventChannel' = "email" => CursorBehind'
  BY DEF EventsInv, SecurityEventsTypeOK, Spooled, CursorBehind
<1>5. eventChannel' = "email" => InOrder'
  BY DEF EventsInv, SecurityEventsTypeOK, CursorBehind, InOrder, Spooled, Due, Forwarded
<1> QED
  BY <1>2, <1>3, <1>4, <1>5 DEF EventsInv

(* The cursor passes an event whose file has been written.                 *)
LEMMA PollerAdvancesStep ==
  ASSUME EventsInv, PollerAdvances
  PROVE  EventsInv'
<1> USE SecurityEventsAssumption DEF PollerAdvances, NotPolled, Polls, EventFault, sourceVars, pollVars,
        spoolVars, sendVars, EventIds, NoCursor
<1>1. eventsUp' \in BOOLEAN /\ senderWoken' \in BOOLEAN
  BY DEF EventsInv, SecurityEventsTypeOK
<1>2. SecurityEventsTypeOK'
  BY <1>1 DEF EventsInv, SecurityEventsTypeOK, Spooled
<1>3. Spooled'
  BY <1>1 DEF EventsInv, SecurityEventsTypeOK, Spooled, Forwarded
<1>4. eventChannel' = "email" => CursorBehind'
  BY DEF EventsInv, SecurityEventsTypeOK, Spooled, CursorBehind
<1>5. eventChannel' = "email" => InOrder'
  BY DEF EventsInv, SecurityEventsTypeOK, CursorBehind, InOrder, Spooled, Due, Forwarded
<1> QED
  BY <1>2, <1>3, <1>4, <1>5 DEF EventsInv

LEMMA PollerTicksStep ==
  ASSUME EventsInv, PollerTicks
  PROVE  EventsInv'
<1> USE SecurityEventsAssumption DEF PollerTicks, NotPolled, Polls, sourceVars, pollVars,
        spoolVars, sendVars, EventIds, NoCursor
<1>1. eventsUp' \in BOOLEAN /\ senderWoken' \in BOOLEAN
  BY DEF EventsInv, SecurityEventsTypeOK
<1>2. SecurityEventsTypeOK'
  BY <1>1 DEF EventsInv, SecurityEventsTypeOK, Spooled
<1>3. Spooled'
  BY <1>1 DEF EventsInv, SecurityEventsTypeOK, Spooled, Forwarded
<1>4. eventChannel' = "email" => CursorBehind'
  BY DEF EventsInv, SecurityEventsTypeOK, Spooled, CursorBehind
<1>5. eventChannel' = "email" => InOrder'
  BY DEF EventsInv, SecurityEventsTypeOK, CursorBehind, InOrder, Spooled, Due, Forwarded
<1> QED
  BY <1>2, <1>3, <1>4, <1>5 DEF EventsInv

(* The file of the first event is taken.                                   *)
LEMMA SenderLooksStep ==
  ASSUME EventsInv, SenderLooks
  PROVE  EventsInv'
<1> USE SecurityEventsAssumption DEF SenderLooks, NotSent, sourceVars, pollVars,
        spoolVars, sendVars, EventIds, NoCursor
<1>1. eventsUp' \in BOOLEAN /\ senderWoken' \in BOOLEAN
  BY DEF EventsInv, SecurityEventsTypeOK
<1>2. SecurityEventsTypeOK'
  BY <1>1 DEF EventsInv, SecurityEventsTypeOK, Spooled
<1>3. Spooled'
  BY <1>1 DEF EventsInv, SecurityEventsTypeOK, Spooled, Forwarded
<1>4. eventChannel' = "email" => CursorBehind'
  BY DEF EventsInv, SecurityEventsTypeOK, Spooled, CursorBehind
<1>5. eventChannel' = "email" => InOrder'
  BY DEF EventsInv, SecurityEventsTypeOK, CursorBehind, InOrder, Spooled, Due, Forwarded
<1> QED
  BY <1>2, <1>3, <1>4, <1>5 DEF EventsInv

(* The events before the one that is sent have arrived.                    *)
LEMMA SenderSendsStep ==
  ASSUME EventsInv, SenderSends
  PROVE  EventsInv'
<1> USE SecurityEventsAssumption DEF SenderSends, NotSent, sourceVars, pollVars,
        spoolVars, sendVars, EventIds, NoCursor
<1>1. eventsUp' \in BOOLEAN /\ senderWoken' \in BOOLEAN
  BY DEF EventsInv, SecurityEventsTypeOK
<1>2. /\ relayed' \subseteq EventIds /\ senderFailures' \in 0..Threshold
      /\ eventFaults' \in 0..EventFaults /\ eventFaults <= eventFaults'
      /\ senderAt' \in {"remove", "delay", "open"} /\ UNCHANGED sending
  <2>1. relayed' \subseteq relayed \cup {sending}
    BY DEF BacksOff
  <2>2. sending \in EventIds
    BY DEF EventsInv, SecurityEventsTypeOK, Spooled
  <2>3. CASE BacksOff
    BY <2>1, <2>2, <2>3, BackedOff DEF EventsInv, SecurityEventsTypeOK, BacksOff
  <2>4. CASE UNCHANGED <<sending, senderFailures, eventFaults>> /\ senderAt' = "remove"
    BY <2>1, <2>2, <2>4 DEF EventsInv, SecurityEventsTypeOK
  <2> QED
    BY <2>3, <2>4
<1>3. /\ senderAt = "send" /\ UNCHANGED outbox
      /\ \/ relayed' = relayed \cup {sending} /\ senderAt' = "remove"
         \/ relayed' \in {relayed, relayed \cup {sending}} /\ senderAt' \in {"delay", "open"}
  BY DEF BacksOff
<1>4. SecurityEventsTypeOK'
  BY <1>1, <1>2 DEF EventsInv, SecurityEventsTypeOK, Spooled
<1>5. Spooled'
  BY <1>2, <1>3, <1>1 DEF EventsInv, SecurityEventsTypeOK, Spooled, Forwarded
<1>6. eventChannel' = "email" => CursorBehind'
  BY DEF EventsInv, SecurityEventsTypeOK, Spooled, CursorBehind
<1>7. eventChannel' = "email" => InOrder'
  BY <1>2, <1>3 DEF EventsInv, SecurityEventsTypeOK, CursorBehind, InOrder, Spooled, Due, Forwarded
<1> QED
  BY <1>4, <1>5, <1>6, <1>7 DEF EventsInv

(* What is removed has arrived.                                            *)
LEMMA SenderRemovesStep ==
  ASSUME EventsInv, SenderRemoves
  PROVE  EventsInv'
<1> USE SecurityEventsAssumption DEF SenderRemoves, NotSent, sourceVars, pollVars,
        spoolVars, sendVars, EventIds, NoCursor
<1>1. eventsUp' \in BOOLEAN /\ senderWoken' \in BOOLEAN
  BY DEF EventsInv, SecurityEventsTypeOK
<1>2. /\ outbox' \subseteq outbox /\ senderFailures' \in 0..Threshold
      /\ eventFaults' \in 0..EventFaults /\ eventFaults <= eventFaults'
      /\ senderAt' \in {"look", "delay", "open"} /\ UNCHANGED sending
  <2>1. CASE BacksOff /\ UNCHANGED outbox
    BY <2>1, BackedOff DEF EventsInv, SecurityEventsTypeOK, BacksOff
  <2>2. CASE /\ outbox' = outbox \ {sending} /\ senderAt' = "look" /\ senderFailures' = 0
             /\ UNCHANGED <<sending, eventFaults>>
    BY <2>2 DEF EventsInv, SecurityEventsTypeOK
  <2> QED
    BY <2>1, <2>2
<1>3. /\ senderAt = "remove" /\ UNCHANGED relayed /\ outbox' \in {outbox, outbox \ {sending}}
      /\ senderAt' \in {"look", "delay", "open"}
  BY <1>2
<1>4. SecurityEventsTypeOK'
  BY <1>1, <1>2 DEF EventsInv, SecurityEventsTypeOK, Spooled
<1>5. Spooled'
  BY <1>2, <1>3, <1>1 DEF EventsInv, SecurityEventsTypeOK, Spooled, Forwarded
<1>6. eventChannel' = "email" => CursorBehind'
  BY DEF EventsInv, SecurityEventsTypeOK, Spooled, CursorBehind
<1>7. eventChannel' = "email" => InOrder'
  BY <1>2, <1>3 DEF EventsInv, SecurityEventsTypeOK, CursorBehind, InOrder, Spooled, Due, Forwarded
<1> QED
  BY <1>4, <1>5, <1>6, <1>7 DEF EventsInv

LEMMA SenderWakesStep ==
  ASSUME EventsInv, SenderWakes
  PROVE  EventsInv'
<1> USE SecurityEventsAssumption DEF SenderWakes, NotSent, sourceVars, pollVars,
        spoolVars, sendVars, EventIds, NoCursor
<1>1. eventsUp' \in BOOLEAN /\ senderWoken' \in BOOLEAN
  BY DEF EventsInv, SecurityEventsTypeOK
<1>2. SecurityEventsTypeOK'
  BY <1>1 DEF EventsInv, SecurityEventsTypeOK, Spooled
<1>3. Spooled'
  BY <1>1 DEF EventsInv, SecurityEventsTypeOK, Spooled, Forwarded
<1>4. eventChannel' = "email" => CursorBehind'
  BY DEF EventsInv, SecurityEventsTypeOK, Spooled, CursorBehind
<1>5. eventChannel' = "email" => InOrder'
  BY DEF EventsInv, SecurityEventsTypeOK, CursorBehind, InOrder, Spooled, Due, Forwarded
<1> QED
  BY <1>2, <1>3, <1>4, <1>5 DEF EventsInv

LEMMA SenderTimerStep ==
  ASSUME EventsInv, SenderTimer
  PROVE  EventsInv'
<1> USE SecurityEventsAssumption DEF SenderTimer, NotSent, sourceVars, pollVars,
        spoolVars, sendVars, EventIds, NoCursor
<1>1. eventsUp' \in BOOLEAN /\ senderWoken' \in BOOLEAN
  BY DEF EventsInv, SecurityEventsTypeOK
<1>2. SecurityEventsTypeOK'
  BY <1>1 DEF EventsInv, SecurityEventsTypeOK, Spooled
<1>3. Spooled'
  BY <1>1 DEF EventsInv, SecurityEventsTypeOK, Spooled, Forwarded
<1>4. eventChannel' = "email" => CursorBehind'
  BY DEF EventsInv, SecurityEventsTypeOK, Spooled, CursorBehind
<1>5. eventChannel' = "email" => InOrder'
  BY DEF EventsInv, SecurityEventsTypeOK, CursorBehind, InOrder, Spooled, Due, Forwarded
<1> QED
  BY <1>2, <1>3, <1>4, <1>5 DEF EventsInv

(* Every step keeps the invariant. *)
LEMMA EventsNextInv ==
  ASSUME EventsInv, [SecurityEventsNext]_eventVars
  PROVE  EventsInv'
<1>1. CASE UNCHANGED eventVars
  <2> USE <1>1 DEF eventVars, sourceVars, pollVars, spoolVars, sendVars
  <2>1. SecurityEventsTypeOK' /\ Spooled'
    BY DEF EventsInv, SecurityEventsTypeOK, Spooled, Forwarded
  <2>2. eventChannel' = "email" => CursorBehind' /\ InOrder'
    BY DEF EventsInv, CursorBehind, InOrder, Due, Forwarded
  <2> QED
    BY <2>1, <2>2 DEF EventsInv
<1>2. CASE PollerSteps
  BY <1>2, PollerReadsStep, PollerFirstStep, PollerFindsStep, PollerPassesStep,
     PollerAdvancesStep, PollerTicksStep DEF PollerSteps
<1>3. CASE SenderSteps
  BY <1>3, SenderLooksStep, SenderSendsStep, SenderRemovesStep, SenderWakesStep,
     SenderTimerStep DEF SenderSteps
<1>4. CASE \E e \in EventIds : QueueSteps(e)
  BY <1>4, QueueBeginsStep, QueueFailsStep, QueueSignalsStep DEF QueueSteps
<1>5. CASE EventCommitted \/ EventsStart \/ EventsDie \/ QueueEnds
  BY <1>5, EventCommittedStep, EventsStartStep, EventsDieStep, QueueEndsStep
<1> QED
  BY <1>1, <1>2, <1>3, <1>4, <1>5 DEF SecurityEventsNext

(* For any number of events, any size of the outbox and any number of      *)
(* failures and deaths, what was queued or passed by the cursor is on the  *)
(* disk or has arrived, emails arrive in the order of their events, and no *)
(* sender sleeps over a file.                                              *)
THEOREM EventsAlwaysKept == SecurityEventsSpec => []EventsKept
<1>1. EventsInv => EventsKept
  BY DEF EventsInv, EventsKept, Spooled, InOrder, Forwarded
<1> QED
  BY EventsInitInv, EventsNextInv, <1>1, PTL DEF SecurityEventsSpec
=============================================================================
