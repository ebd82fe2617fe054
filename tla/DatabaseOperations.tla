-------------------------- MODULE DatabaseOperations --------------------------
(***************************************************************************)
(* The operations on one database of one MySQL instance                    *)
(* (internal/mysqlmanager): back up, restore, drop, back up and clear.     *)
(* The phase of an operation is a row in SQLite, written with the          *)
(* operation's own context, which a cancel ends; what the operation does   *)
(* to the database is not part of any transaction.  The recovery runs when *)
(* the service starts, or the Broker, which systemd restarts alone.        *)
(***************************************************************************)
EXTENDS Naturals

CONSTANTS
  LastOp,   \* bound on the operations, which are numbered as they begin
  DbFaults  \* bound on crashes, stops, failing calls and statements, and deleted backups

ASSUME DbAssumption == LastOp \in Nat /\ DbFaults \in Nat

VARIABLES
  dbContent,     \* what the target database holds
  opKind,        \* mysql_operations.kind
  opPhase,       \* mysql_operations.phase
  opSafe,        \* whether safety_backup_id is set
  opBackup,      \* the mysql_backups row of the operation: what its file holds
  opStep,        \* where the goroutine of the operation is
  opFile,        \* the committed dump, before the row for it is written
  opCancelled,   \* the operations whose context has ended
  opAsked,       \* RequestCancel has looked at their phase
  opBefore,      \* what the database held when the last operation began
  recovered,     \* the operation RecoverInterrupted works on, or 0
  recoverStep,
  contested,     \* it took up an operation whose goroutine was still there
  discarded,     \* the contents of backups an administrator has deleted
  dbFaultsLeft

dbVars ==
  <<dbContent, opKind, opPhase, opSafe, opBackup, opStep, opFile, opCancelled, opAsked,
    opBefore, recovered, recoverStep, contested, discarded, dbFaultsLeft>>

OpIds == 1..LastOp
OpKinds == {"backup", "restore", "drop", "clear"}

(* No database; no table; some of the data; the data of the beginning; the *)
(* data of the backup that is restored.                                    *)
Contents == {"absent", "empty", "part", "orig", "dump"}

EarlyPhases == {"preflight", "verifying", "dumping", "validating"}
DestructivePhases == {"replacing", "clearing", "importing", "rolling_back"}
(* mysqlOperationTerminal, and the index of schema.go *)
Terminal == {"completed", "cancelled", "failed", "rolled_back", "needs_attention"}
OpSteps == {"none", "begun", "verify", "backup", "dump", "dumped", "record", "guard",
            "destroy", "replaced", "import", "finish", "undo", "again", "reload", "undone",
            "gaveup", "failing", "cancelling", "over"}

DbTypeOK ==
  /\ dbContent \in Contents
  /\ opKind \in [OpIds -> OpKinds]
  /\ opPhase \in [OpIds -> {"none"} \cup EarlyPhases \cup DestructivePhases \cup Terminal]
  /\ opSafe \in [OpIds -> BOOLEAN]
  /\ opBackup \in [OpIds -> Contents \cup {"none"}]
  /\ opStep \in [OpIds -> OpSteps]
  /\ opFile \in [OpIds -> Contents \cup {"none"}]
  /\ opCancelled \in SUBSET OpIds /\ opAsked \in SUBSET OpIds
  /\ opBefore \in Contents
  /\ recovered \in OpIds \cup {0}
  /\ recoverStep \in {"none", "ready", "read", "replace", "reload", "undone", "gaveup"}
  /\ contested \in BOOLEAN
  /\ discarded \in SUBSET Contents
  /\ dbFaultsLeft \in 0..DbFaults

DbInit ==
  /\ dbContent = "orig"
  /\ opKind = [o \in OpIds |-> "backup"] /\ opPhase = [o \in OpIds |-> "none"]
  /\ opSafe = [o \in OpIds |-> FALSE] /\ opBackup = [o \in OpIds |-> "none"]
  /\ opStep = [o \in OpIds |-> "none"] /\ opFile = [o \in OpIds |-> "none"]
  /\ opCancelled = {} /\ opAsked = {} /\ opBefore = "orig"
  /\ recovered = 0 /\ recoverStep = "ready"
  /\ contested = FALSE /\ discarded = {} /\ dbFaultsLeft = DbFaults

----------------------------------------------------------------------------
(* m.active and m.cancels have the operation until release *)
Working(o) == opStep[o] \notin {"none", "over"}
(* the rows of mysql_operations_one_active_idx *)
ActiveRow(o) == opPhase[o] \in EarlyPhases \cup DestructivePhases

(* A goroutine that is over has released its context. *)
OpGoes(o, from, to) ==
  /\ opStep[o] = from /\ opStep' = [opStep EXCEPT ![o] = to]
  /\ opCancelled' = IF to = "over" THEN opCancelled \ {o} ELSE opCancelled
  /\ opAsked' = IF to = "over" THEN opAsked \ {o} ELSE opAsked

DbSound == UNCHANGED dbFaultsLeft
DbBreaks == dbFaultsLeft > 0 /\ dbFaultsLeft' = dbFaultsLeft - 1

(* A statement or a call in the context of the operation works, or does    *)
(* not: a context that has ended lets none through.                        *)
InContext(o) == o \notin opCancelled /\ DbSound
OutOfContext(o) == IF o \in opCancelled THEN DbSound ELSE DbBreaks

(* updateOperation; the index refuses a second active row. *)
SetPhase(o, phase) == opPhase' = [opPhase EXCEPT ![o] = phase]
Refused(o, phase) == phase \notin Terminal /\ \E q \in OpIds \ {o} : ActiveRow(q)

Written(o, phase) == InContext(o) /\ ~Refused(o, phase) /\ SetPhase(o, phase)
NotWritten(o, phase) ==
  /\ IF Refused(o, phase) THEN DbSound ELSE OutOfContext(o)
  /\ UNCHANGED opPhase

(* _ = updateOperation in a context that has not ended *)
SurelySetPhase(o, phase) ==
  \/ DbSound /\ IF Refused(o, phase) THEN UNCHANGED opPhase ELSE SetPhase(o, phase)
  \/ DbBreaks /\ UNCHANGED opPhase

(* What a failing ReplaceDatabase, DropDatabase, ClearDatabase or Import   *)
(* may leave; an import into a database that is not empty mixes the two.   *)
Replacing == {dbContent, "absent", "empty"}
Dropping == {dbContent, "absent"}
Clearing == IF dbContent = "absent" THEN {"absent"} ELSE {dbContent, "part", "empty"}
Importing(data) == IF dbContent = "absent" THEN {"absent"} ELSE {dbContent, "part", data}
Imported(data) == IF dbContent = "empty" THEN data ELSE "part"

opRest == <<opKind, opBefore>>
recoverVars == <<recovered, recoverStep, contested, discarded>>

(* A phase written in the context of the operation, which returns when it  *)
(* cannot be written, or goes on.                                          *)
NotesOrReturns(o, from, to, phase) ==
  /\ \/ OpGoes(o, from, to) /\ Written(o, phase)
     \/ OpGoes(o, from, "over") /\ NotWritten(o, phase)
  /\ UNCHANGED <<dbContent, opSafe, opBackup, opFile, opRest, recoverVars>>

Notes(o, from, to, phase) ==
  /\ OpGoes(o, from, to)
  /\ Written(o, phase) \/ NotWritten(o, phase)
  /\ UNCHANGED <<dbContent, opSafe, opBackup, opFile, opRest, recoverVars>>
----------------------------------------------------------------------------
(* beginOperation *)

(* Every process knows its own operations, and all know the index.  A      *)
(* backup may be that of a plan, and the Broker's: it may begin, or still  *)
(* be at work, beside an operation of the service.                         *)
BeginOp(o, kind) ==
  /\ \A q \in OpIds : (opPhase[q] = "none") <=> (q >= o)
  /\ \A q \in OpIds :
       /\ ~ActiveRow(q)
       /\ Working(q) => kind = "backup" \/ opKind[q] = "backup"
  /\ OpGoes(o, "none", IF kind = "restore" THEN "begun" ELSE "backup")
  /\ opKind' = [opKind EXCEPT ![o] = kind]
  /\ opBefore' = dbContent
  /\ SetPhase(o, "preflight") /\ DbSound
  /\ UNCHANGED <<dbContent, opSafe, opBackup, opFile, recoverVars>>

----------------------------------------------------------------------------
(* Restore, until it knows whether the target is there *)

NoteVerifying(o) == NotesOrReturns(o, "begun", "verify", "verifying")

(* Mutant: an error of DatabaseExists counts as no database. *)
LookAtDatabaseHopeful(o) ==
  /\ \/ /\ OpGoes(o, "verify", IF dbContent = "absent" THEN "destroy" ELSE "backup")
        /\ InContext(o)
     \/ OpGoes(o, "verify", "destroy") /\ OutOfContext(o)
  /\ UNCHANGED <<dbContent, opPhase, opSafe, opBackup, opFile, opRest, recoverVars>>

(* verifyBackupFile and DatabaseExists *)
LookAtDatabase(o) ==
  /\ \/ /\ OpGoes(o, "verify", IF dbContent = "absent" THEN "destroy" ELSE "backup")
        /\ InContext(o)
     \/ OpGoes(o, "verify", "failing") /\ OutOfContext(o)
  /\ UNCHANGED <<dbContent, opPhase, opSafe, opBackup, opFile, opRest, recoverVars>>

----------------------------------------------------------------------------
(* runBackup *)

NoteDumping(o) == NotesOrReturns(o, "backup", "dump", "dumping")

(* A dump that is finished is not undone by a cancel that comes late. *)
Dump(o) ==
  /\ \/ /\ OpGoes(o, "dump", "dumped")
        /\ dbContent # "absent"
        /\ opFile' = [opFile EXCEPT ![o] = dbContent]
        /\ DbSound
     \/ /\ OpGoes(o, "dump", IF o \in opCancelled THEN "cancelling" ELSE "failing")
        /\ IF dbContent = "absent" THEN DbSound ELSE OutOfContext(o)
        /\ UNCHANGED opFile
  /\ UNCHANGED <<dbContent, opPhase, opSafe, opBackup, opRest, recoverVars>>

NoteValidating(o) ==
  /\ \/ OpGoes(o, "dumped", "record") /\ Written(o, "validating") /\ UNCHANGED opFile
     \/ /\ OpGoes(o, "dumped", "over") /\ NotWritten(o, "validating")
        /\ opFile' = [opFile EXCEPT ![o] = "none"]
  /\ UNCHANGED <<dbContent, opSafe, opBackup, opRest, recoverVars>>

RecordBackup(o) ==
  /\ \/ /\ OpGoes(o, "record", IF opKind[o] = "backup" THEN "finish" ELSE "guard")
        /\ opBackup' = [opBackup EXCEPT ![o] = opFile[o]]
        /\ InContext(o)
     \/ OpGoes(o, "record", "failing") /\ OutOfContext(o) /\ UNCHANGED opBackup
  /\ opFile' = [opFile EXCEPT ![o] = "none"]
  /\ UNCHANGED <<dbContent, opPhase, opSafe, opRest, recoverVars>>

(* ctx.Err() said that the dump was cancelled *)
NoteCancelled(o) ==
  /\ OpGoes(o, "cancelling", "over")
  /\ SurelySetPhase(o, "cancelled")
  /\ UNCHANGED <<dbContent, opSafe, opBackup, opFile, opRest, recoverVars>>

(* failOperation *)
FailOp(o) == Notes(o, "failing", "over", "failed")

----------------------------------------------------------------------------
(* The destructive phases of Restore, DropDatabase, BackupAndClearDatabase *)

NoteSafety(o) ==
  /\ LET phase == IF opKind[o] = "clear" THEN "clearing" ELSE "replacing"
     IN \/ /\ OpGoes(o, "guard", "destroy") /\ Written(o, phase)
           /\ opSafe' = [opSafe EXCEPT ![o] = TRUE]
        \/ OpGoes(o, "guard", "over") /\ NotWritten(o, phase) /\ UNCHANGED opSafe
  /\ UNCHANGED <<dbContent, opBackup, opFile, opRest, recoverVars>>

Left(kind) ==
  CASE kind = "restore" -> Replacing [] kind = "drop" -> Dropping [] kind = "clear" -> Clearing

(* ReplaceDatabase, DropDatabase or ClearDatabase *)
Destroy(o) ==
  /\ \/ /\ OpGoes(o, "destroy", IF opKind[o] = "restore" THEN "replaced" ELSE "finish")
        /\ opKind[o] = "restore" \/ dbContent # "absent"
        /\ dbContent' = IF opKind[o] = "drop" THEN "absent" ELSE "empty"
        /\ InContext(o)
     \/ /\ OpGoes(o, "destroy", "failing")
        /\ dbContent' \in Left(opKind[o])
        /\ OutOfContext(o)
  /\ UNCHANGED <<opPhase, opSafe, opBackup, opFile, opRest, recoverVars>>

NoteImporting(o) == Notes(o, "replaced", "import", "importing")

ImportBackup(o) ==
  /\ \/ /\ OpGoes(o, "import", "finish")
        /\ dbContent # "absent" /\ dbContent' = Imported("dump")
        /\ InContext(o)
     \/ /\ OpGoes(o, "import", "undo")
        /\ dbContent' \in Importing("dump")
        /\ IF dbContent = "absent" THEN DbSound ELSE OutOfContext(o)
  /\ UNCHANGED <<opPhase, opSafe, opBackup, opFile, opRest, recoverVars>>

NoteCompleted(o) == Notes(o, "finish", "over", "completed")

(* The rollback of an import, in a context of its own: without a safety    *)
(* backup the new database is dropped.                                     *)
DropNew(o) ==
  /\ ~opSafe[o]
  /\ \/ /\ OpGoes(o, "undo", "undone")
        /\ dbContent' = "absent" /\ dbContent # "absent" /\ DbSound
     \/ /\ OpGoes(o, "undo", "gaveup")
        /\ dbContent' \in Dropping
        /\ IF dbContent = "absent" THEN DbSound ELSE DbBreaks
  /\ UNCHANGED <<opPhase, opSafe, opBackup, opFile, opRest, recoverVars>>

(* Mutant: the safety backup is loaded over what the import has left. *)
NoteRollingBackOver(o) ==
  /\ opSafe[o]
  /\ OpGoes(o, "undo", "reload")
  /\ SurelySetPhase(o, "rolling_back")
  /\ UNCHANGED <<dbContent, opSafe, opBackup, opFile, opRest, recoverVars>>

(* With a safety backup, ReplaceDatabase once more, and the backup loaded. *)
NoteRollingBack(o) ==
  /\ opSafe[o]
  /\ OpGoes(o, "undo", "again")
  /\ SurelySetPhase(o, "rolling_back")
  /\ UNCHANGED <<dbContent, opSafe, opBackup, opFile, opRest, recoverVars>>

ReplaceAgain(o) ==
  /\ \/ OpGoes(o, "again", "reload") /\ dbContent' = "empty" /\ DbSound
     \/ OpGoes(o, "again", "gaveup") /\ dbContent' \in Replacing /\ DbBreaks
  /\ UNCHANGED <<opPhase, opSafe, opBackup, opFile, opRest, recoverVars>>

Reloads(o) ==
  /\ opBackup[o] # "none" /\ dbContent # "absent"
  /\ dbContent' = Imported(opBackup[o]) /\ DbSound
ReloadFails(o) ==
  IF opBackup[o] = "none" \/ dbContent = "absent"
  THEN UNCHANGED dbContent /\ DbSound
  ELSE dbContent' \in Importing(opBackup[o]) /\ DbBreaks

Reload(o) ==
  /\ \/ OpGoes(o, "reload", "undone") /\ Reloads(o)
     \/ OpGoes(o, "reload", "gaveup") /\ ReloadFails(o)
  /\ UNCHANGED <<opPhase, opSafe, opBackup, opFile, opRest, recoverVars>>

EndUndo(o) ==
  /\ \/ OpGoes(o, "undone", "over") /\ SurelySetPhase(o, "rolled_back")
     \/ OpGoes(o, "gaveup", "over") /\ SurelySetPhase(o, "needs_attention")
  /\ UNCHANGED <<dbContent, opSafe, opBackup, opFile, opRest, recoverVars>>
----------------------------------------------------------------------------
(* RequestCancel looks at the phase, and cancels later. *)

AskCancel(o) ==
  /\ Working(o) /\ ActiveRow(o) /\ (opKind[o] = "backup" \/ opPhase[o] \in EarlyPhases)
  /\ opAsked' = opAsked \cup {o}
  /\ UNCHANGED <<dbContent, opKind, opPhase, opSafe, opBackup, opStep, opFile,
                 opCancelled, opBefore, recoverVars, dbFaultsLeft>>

CancelOp(o) ==
  /\ o \in opAsked /\ opAsked' = opAsked \ {o}
  /\ opCancelled' = opCancelled \cup {o}
  /\ UNCHANGED <<dbContent, opKind, opPhase, opSafe, opBackup, opStep, opFile,
                 opBefore, recoverVars, dbFaultsLeft>>

(* App.Close ends the context of every operation, and waits for them. *)
StopOps ==
  /\ DbBreaks
  /\ opCancelled' = opCancelled \cup {o \in OpIds : Working(o)}
  /\ UNCHANGED <<dbContent, opKind, opPhase, opSafe, opBackup, opStep, opFile,
                 opAsked, opBefore, recoverVars>>

(* The service and, where the installation has one, the Broker may die and *)
(* start again together or alone.  The goroutines are those of the service *)
(* but for backups of plans, and the recovery is the Broker's.             *)
ScheduledOps == {o \in OpIds : Working(o) /\ opKind[o] = "backup"}

Die(dead) ==
  /\ DbBreaks
  /\ opStep' = [o \in OpIds |-> IF o \in dead THEN "over" ELSE opStep[o]]
  /\ opFile' = [o \in OpIds |-> IF o \in dead THEN "none" ELSE opFile[o]]
  /\ opCancelled' = opCancelled \ dead /\ opAsked' = opAsked \ dead
  /\ UNCHANGED <<dbContent, opPhase, opSafe, opBackup, opRest, contested, discarded>>

RecoveryStarts == recovered' = 0 /\ recoverStep' = "ready"

AllDie == Die({o \in OpIds : Working(o)}) /\ RecoveryStarts
ServiceDies ==
  /\ \E alive \in SUBSET ScheduledOps : Die({o \in OpIds : Working(o)} \ alive)
  /\ UNCHANGED <<recovered, recoverStep>>
BrokerRestarts == (\E dead \in SUBSET ScheduledOps : Die(dead)) /\ RecoveryStarts

DeleteBackup(o) ==
  /\ opBackup[o] # "none"
  /\ opBackup' = [opBackup EXCEPT ![o] = "none"]
  /\ discarded' = discarded \cup {opBackup[o]} /\ DbBreaks
  /\ UNCHANGED <<dbContent, opPhase, opSafe, opStep, opFile, opRest, opCancelled, opAsked,
                 recovered, recoverStep, contested>>

----------------------------------------------------------------------------
(* RecoverInterrupted, once after each start, which nothing waits for; the *)
(* index leaves it one row to find.                                        *)

RecoverGoes(from, to) == recoverStep = from /\ recoverStep' = to
recoverRest ==
  <<opRest, opCancelled, opAsked, opStep, opFile, opSafe, opBackup, contested, discarded>>

ListInterrupted ==
  /\ \/ \E o \in OpIds :
          /\ ActiveRow(o)
          /\ RecoverGoes("ready", "read") /\ recovered' = o
          /\ contested' = (contested \/ Working(o))
     \/ /\ \A o \in OpIds : ~ActiveRow(o)
        /\ RecoverGoes("ready", "none") /\ UNCHANGED <<recovered, contested>>
  /\ UNCHANGED <<dbContent, opPhase, opSafe, opBackup, opStep, opFile, opRest, opCancelled,
                 opAsked, discarded, dbFaultsLeft>>

SettleRecovered(phase) ==
  recoverStep' = "none" /\ recovered' = 0 /\ SurelySetPhase(recovered, phase)

ReadInterrupted ==
  /\ recoverStep = "read"
  /\ \/ opPhase[recovered] \in EarlyPhases /\ SettleRecovered("failed")
     \/ /\ opPhase[recovered] \notin EarlyPhases
        /\ ~opSafe[recovered] \/ opBackup[recovered] = "none"
        /\ SettleRecovered("needs_attention")
     \/ /\ opPhase[recovered] \notin EarlyPhases
        /\ opSafe[recovered] /\ opBackup[recovered] # "none"
        /\ recoverStep' = "replace" /\ UNCHANGED <<opPhase, recovered, dbFaultsLeft>>
  /\ UNCHANGED <<dbContent, recoverRest>>

(* verifyBackupFile of the safety backup, and ReplaceDatabase or, which    *)
(* needs the database to be there, ClearDatabase.                          *)
RecoverReplace ==
  /\ recoverStep = "replace"
  /\ \/ /\ opKind[recovered] # "clear" \/ dbContent # "absent"
        /\ dbContent' = "empty" /\ recoverStep' = "reload" /\ DbSound
     \/ /\ dbContent' \in IF opKind[recovered] = "clear" THEN Clearing ELSE Replacing
        /\ recoverStep' = "gaveup"
        /\ IF opKind[recovered] = "clear" /\ dbContent = "absent" THEN DbSound ELSE DbBreaks
  /\ UNCHANGED <<opPhase, recovered, recoverRest>>

RecoverReload ==
  /\ \/ RecoverGoes("reload", "undone") /\ Reloads(recovered)
     \/ RecoverGoes("reload", "gaveup") /\ ReloadFails(recovered)
  /\ UNCHANGED <<opPhase, recovered, recoverRest>>

RecoverEnd ==
  /\ \/ recoverStep = "undone" /\ SettleRecovered("rolled_back")
     \/ recoverStep = "gaveup" /\ SettleRecovered("needs_attention")
  /\ UNCHANGED <<dbContent, recoverRest>>

----------------------------------------------------------------------------
DbNext ==
  \/ \E o \in OpIds :
       \/ \E kind \in OpKinds : BeginOp(o, kind)
       \/ NoteVerifying(o) \/ LookAtDatabase(o)
       \/ NoteDumping(o) \/ Dump(o) \/ NoteValidating(o) \/ RecordBackup(o)
       \/ NoteCancelled(o) \/ FailOp(o)
       \/ NoteSafety(o) \/ Destroy(o) \/ NoteImporting(o) \/ ImportBackup(o)
       \/ NoteCompleted(o) \/ DropNew(o) \/ NoteRollingBack(o) \/ ReplaceAgain(o) \/ Reload(o) \/ EndUndo(o)
       \/ AskCancel(o) \/ CancelOp(o) \/ DeleteBackup(o)
  \/ StopOps \/ AllDie \/ ServiceDies \/ BrokerRestarts
  \/ ListInterrupted \/ ReadInterrupted \/ RecoverReplace \/ RecoverReload \/ RecoverEnd

DbSpec == DbInit /\ [][DbNext]_dbVars

----------------------------------------------------------------------------
(* An existing database is emptied or dropped only after a safety backup   *)
(* of it is in the table of backups (ADR 0128): whatever fails or dies     *)
(* when, and even while two goroutines work on one operation, the data of  *)
(* the beginning is in the database or in a backup nobody has deleted.     *)
NothingLost ==
  dbContent # "orig" =>
    (\E o \in OpIds : opBackup[o] = "orig") \/ "orig" \in discarded

(* The phase an operation ends in says what became of the database, also   *)
(* when writes of phases were dropped, a cancel came late, or a restart    *)
(* settled the operation - provided the recovery has never taken up an     *)
(* operation that was still at work.  'failed' promises the data itself or *)
(* its safety backup, 'needs_attention' nothing.                           *)
HonestOutcome ==
  \A o \in OpIds :
    LET latest == \A q \in OpIds : q > o => opPhase[q] = "none"
        kept == opBefore \in {opBackup[o], "absent"} \cup discarded
    IN latest /\ ~contested =>
         CASE opPhase[o] = "completed" ->
                dbContent = (CASE opKind[o] = "restore" -> "dump" [] opKind[o] = "drop" -> "absent"
                               [] opKind[o] = "clear" -> "empty" [] opKind[o] = "backup" -> opBefore)
           [] opPhase[o] \in {"cancelled", "rolled_back"} -> dbContent = opBefore
           [] opPhase[o] = "failed" -> dbContent = opBefore \/ kept
           [] OTHER -> TRUE
=============================================================================
