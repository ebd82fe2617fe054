---------------------------- MODULE StateRestore ----------------------------
(***************************************************************************)
(* A backup of the private state replaces what is in State Root            *)
(* (internal/statebackup), on the host it was taken on (cmd/scriptboard,   *)
(* "backup restore") or on an empty one ("backup recover-host").  There is *)
(* no journal: the exchange is a row of renames, the first of them of the  *)
(* database, and the audit checkpoint outside State Root is moved last.    *)
(* What has been begun is known to the process only, which may die.        *)
(***************************************************************************)
EXTENDS Naturals

CONSTANTS
  LastName,       \* how many names are exchanged; name 1 is app.db
  RestoreFaults   \* bound on failing calls

ASSUME RestoreAssumption == LastName \in Nat \ {0} /\ RestoreFaults \in Nat

Names == 1..LastName
Database == 1

VARIABLES
  restoreHost,    \* recover-host: State Root was empty
  restoreOld,     \* the names that were in State Root
  restoreNew,     \* the names in the archive
  restoreRoot,    \* what each name is in State Root
  restoreKept,    \* the names in the directory .before-restore-<backup>
  restoreKeeping, \* that directory exists
  restoreStage,   \* the names in the staging directory
  restoreTrust,   \* outside State Root: keys and the audit checkpoint
  restoreCovered, \* the restored log holds the event of the "old" checkpoint
  restoreChanged, \* the checkpoint is not the one the restore has read
  restoreLinked,  \* the event of the restore is in the restored log
  restorer,       \* the next step of the command
  restoreAt,      \* the name it is at
  restoreResult,  \* of the last command, until the service starts
  restoreService,
  restoreTorn,    \* history: a rename of a rollback has failed
  restoreFaults

restoreVars ==
  <<restoreHost, restoreOld, restoreNew, restoreRoot, restoreKept, restoreKeeping,
    restoreStage, restoreTrust, restoreCovered, restoreChanged, restoreLinked,
    restorer, restoreAt, restoreResult, restoreService, restoreTorn, restoreFaults>>

Trusts == {"none", "key", "signing", "old", "new", "fresh"}

RestoreTypeOK ==
  /\ restoreHost \in BOOLEAN
  /\ restoreOld \subseteq Names /\ restoreNew \subseteq Names
  /\ restoreRoot \in [Names -> {"absent", "old", "new", "empty"}]
  /\ restoreKept \subseteq Names /\ restoreKeeping \in BOOLEAN
  /\ restoreStage \subseteq Names
  /\ restoreTrust \in Trusts /\ restoreCovered \in BOOLEAN
  /\ restoreChanged \in BOOLEAN /\ restoreLinked \in BOOLEAN
  /\ restorer \in {"idle", "read", "signing", "checkpoint", "stage", "out",
                   "in", "append", "sign", "commit", "back", "forth", "fail"}
  /\ restoreAt \in Names
  /\ restoreResult \in {"none", "ok", "failed", "died"}
  /\ restoreService \in {"down", "up", "refused"}
  /\ restoreTorn \in BOOLEAN /\ restoreFaults \in 0..RestoreFaults

(* On a new host there is no state and no trust, and the checkpoint that   *)
(* will be installed is the archive's own.                                 *)
RestoreInit ==
  /\ restoreHost \in BOOLEAN
  /\ restoreOld \in IF restoreHost THEN {{}} ELSE {s \in SUBSET Names : Database \in s}
  /\ restoreNew \in {s \in SUBSET Names : Database \in s}
  /\ restoreRoot = [n \in Names |-> IF n \in restoreOld THEN "old" ELSE "absent"]
  /\ restoreKept = {} /\ restoreKeeping = FALSE /\ restoreStage = {}
  /\ restoreTrust = IF restoreHost THEN "none" ELSE "old"
  /\ restoreCovered \in IF restoreHost THEN {TRUE} ELSE BOOLEAN
  /\ restoreChanged = FALSE /\ restoreLinked = FALSE
  /\ restorer = "idle" /\ restoreAt = 1 /\ restoreResult = "none"
  /\ restoreService = "down" /\ restoreTorn = FALSE /\ restoreFaults = 0

(* VerifyOrBootstrap against the database in State Root. *)
Trusted ==
  CASE restoreRoot[Database] = "old"   -> restoreTrust = "old"
    [] restoreRoot[Database] = "new"   -> \/ restoreTrust = "old" /\ restoreCovered
                                          \/ restoreTrust = "new" /\ restoreLinked
                                          \/ restoreTrust = "fresh"
    [] restoreRoot[Database] = "empty" -> restoreTrust = "fresh"
    [] OTHER -> FALSE

Inputs == <<restoreHost, restoreOld, restoreNew>>
Files == <<restoreRoot, restoreKept, restoreKeeping, restoreStage>>
Log == <<restoreTrust, restoreCovered, restoreChanged, restoreLinked>>

RestoreFault ==
  /\ restoreFaults < RestoreFaults
  /\ restoreFaults' = restoreFaults + 1

Goes(step, at) == restorer' = step /\ restoreAt' = at

(* The next name, and behind the last one the next step. *)
Onward(step, next) ==
  IF restoreAt = LastName THEN Goes(next, 1) ELSE Goes(step, restoreAt + 1)

Backward(step, next) ==
  IF restoreAt = 1 THEN Goes(next, LastName) ELSE Goes(step, restoreAt - 1)

RollsBack == RestoreFault /\ Goes("back", LastName)

----------------------------------------------------------------------------
(* The service: it opens a database where there is none, and starts only   *)
(* if the audit checkpoint agrees with it.                                 *)

(* app.New, and the Broker's start. Without a signing key it makes one. *)
RestoreServiceStarts ==
  /\ restoreService # "up" /\ restorer \in {"idle", "read"}
  /\ LET made == restoreRoot[Database] = "absent"
         first == restoreTrust \in {"none", "key"}
     IN /\ restoreRoot' = IF made THEN [restoreRoot EXCEPT ![Database] = "empty"]
                          ELSE restoreRoot
        /\ restoreTrust' = IF first THEN "fresh" ELSE restoreTrust
        /\ restoreService' = IF first \/ Trusted THEN "up" ELSE "refused"
  /\ restoreResult' = "none"
  /\ UNCHANGED <<Inputs, restoreKept, restoreKeeping, restoreStage, restoreCovered,
                 restoreChanged, restoreLinked, restorer, restoreAt, restoreTorn,
                 restoreFaults>>

RestoreServiceStops ==
  /\ restoreService # "down" /\ restoreService' = "down"
  /\ UNCHANGED <<Inputs, Files, Log, restorer, restoreAt, restoreResult, restoreTorn,
                 restoreFaults>>

(* Checkpoint.Write, every five minutes and in Close: a new document, of   *)
(* an event that may be later than the backup.                             *)
RestoreServiceSigns ==
  /\ restoreService = "up" /\ restoreTrust = "old" /\ Trusted
  /\ restoreChanged' = TRUE
  /\ restoreCovered' \in {restoreCovered, restoreRoot[Database] = "new"}
  /\ UNCHANGED <<Inputs, Files, restoreTrust, restoreLinked, restorer, restoreAt,
                 restoreResult, restoreService, restoreTorn, restoreFaults>>

----------------------------------------------------------------------------
(* The command up to the exchange. *)

(* "backup restore" verifies the database in place and keeps the document  *)
(* it has read. The instance lock is not taken yet.                        *)
RestoreReads ==
  /\ ~restoreHost /\ restorer = "idle" /\ Trusted
  /\ restoreChanged' = FALSE /\ restoreResult' = "none" /\ Goes("read", 1)
  /\ UNCHANGED <<Inputs, Files, restoreTrust, restoreCovered, restoreLinked,
                 restoreService, restoreTorn, restoreFaults>>

(* "backup recover-host": the lock, an empty State Root, no trust material *)
(* of an instance, and the credential key, which must not exist.           *)
RecoverHostBegins ==
  /\ restoreHost /\ restorer = "idle" /\ restoreService # "up"
  /\ \A n \in Names : restoreRoot[n] = "absent"
  /\ restoreTrust = "none" /\ restoreTrust' = "key"
  /\ restoreResult' = "none" /\ Goes("signing", 1)
  /\ UNCHANGED <<Inputs, Files, restoreCovered, restoreChanged, restoreLinked,
                 restoreService, restoreTorn, restoreFaults>>

RecoverHostInstalls ==
  /\ restorer \in {"signing", "checkpoint"}
  /\ \/ /\ restorer = "signing" /\ restoreTrust' = "signing" /\ Goes("checkpoint", 1)
        /\ UNCHANGED restoreFaults
     \/ /\ restorer = "checkpoint" /\ restoreTrust' = "old" /\ Goes("stage", 1)
        /\ UNCHANGED restoreFaults
     \/ RestoreFault /\ Goes("fail", 1) /\ UNCHANGED restoreTrust
  /\ UNCHANGED <<Inputs, Files, restoreCovered, restoreChanged, restoreLinked,
                 restoreResult, restoreService, restoreTorn>>

(* The lock, extraction into a staging directory, validation, and the      *)
(* directory for the current state, which must not exist.                  *)
RestoreStages ==
  /\ restorer \in {"read", "stage"} /\ restoreService # "up" /\ ~restoreKeeping
  /\ \/ /\ restoreKeeping' = TRUE /\ restoreStage' = restoreNew /\ Goes("out", 1)
        /\ UNCHANGED restoreFaults
     \/ /\ RestoreFault /\ Goes("fail", 1)
        /\ UNCHANGED <<restoreKeeping, restoreStage>>
  /\ UNCHANGED <<Inputs, restoreRoot, restoreKept, Log, restoreResult, restoreService,
                 restoreTorn>>

(* The lock is taken, or that directory is left over: nothing is done.     *)
RestoreRefused ==
  /\ restorer = "read" /\ (restoreService = "up" \/ restoreKeeping)
  /\ Goes("idle", 1)
  /\ UNCHANGED <<Inputs, Files, Log, restoreResult, restoreService, restoreTorn,
                 restoreFaults>>

----------------------------------------------------------------------------
(* replacePrivateState: all names out, then all names in, app.db first.    *)

(* Mutant: app.db is moved out last. *)
MoveOutDatabaseLast ==
  LET n == LastName + 1 - restoreAt
  IN /\ restorer = "out"
     /\ \/ /\ restoreRoot[n] = "absent" /\ Onward("out", "in")
           /\ UNCHANGED <<restoreRoot, restoreKept, restoreFaults>>
        \/ /\ restoreRoot[n] # "absent" /\ Onward("out", "in")
           /\ restoreRoot' = [restoreRoot EXCEPT ![n] = "absent"]
           /\ restoreKept' = restoreKept \cup {n}
           /\ UNCHANGED restoreFaults
        \/ RollsBack /\ UNCHANGED <<restoreRoot, restoreKept>>
     /\ UNCHANGED <<Inputs, restoreKeeping, restoreStage, Log, restoreResult,
                    restoreService, restoreTorn>>

MoveOut ==
  LET n == restoreAt
  IN /\ restorer = "out"
     /\ \/ /\ restoreRoot[n] = "absent" /\ Onward("out", "in")
           /\ UNCHANGED <<restoreRoot, restoreKept, restoreFaults>>
        \/ /\ restoreRoot[n] # "absent" /\ Onward("out", "in")
           /\ restoreRoot' = [restoreRoot EXCEPT ![n] = "absent"]
           /\ restoreKept' = restoreKept \cup {n}
           /\ UNCHANGED restoreFaults
        \/ RollsBack /\ UNCHANGED <<restoreRoot, restoreKept>>
     /\ UNCHANGED <<Inputs, restoreKeeping, restoreStage, Log, restoreResult,
                    restoreService, restoreTorn>>

MoveIn ==
  LET n == restoreAt
  IN /\ restorer = "in"
     /\ \/ /\ n \notin restoreStage /\ Onward("in", "append")
           /\ UNCHANGED <<restoreRoot, restoreStage, restoreFaults>>
        \/ /\ n \in restoreStage /\ Onward("in", "append")
           /\ restoreRoot' = [restoreRoot EXCEPT ![n] = "new"]
           /\ restoreStage' = restoreStage \ {n}
           /\ UNCHANGED restoreFaults
        \/ RollsBack /\ UNCHANGED <<restoreRoot, restoreStage>>
     /\ UNCHANGED <<Inputs, restoreKept, restoreKeeping, Log, restoreResult,
                    restoreService, restoreTorn>>

(* Finalize, first half: the checkpoint must still be the one that was     *)
(* read; the event of the restore enters the restored log.                 *)
AppendRestored ==
  /\ restorer = "append"
  /\ \/ /\ ~restoreChanged /\ restoreLinked' = TRUE /\ Goes("sign", 1)
        /\ UNCHANGED restoreFaults
     \/ /\ restoreChanged /\ Goes("back", LastName)
        /\ UNCHANGED <<restoreLinked, restoreFaults>>
     \/ RollsBack /\ UNCHANGED restoreLinked
  /\ UNCHANGED <<Inputs, Files, restoreTrust, restoreCovered, restoreChanged,
                 restoreResult, restoreService, restoreTorn>>

(* Second half: the checkpoint is replaced, in one rename. *)
SignRestored ==
  /\ restorer = "sign"
  /\ \/ restoreTrust' = "new" /\ Goes("commit", 1) /\ UNCHANGED restoreFaults
     \/ RollsBack /\ UNCHANGED restoreTrust
  /\ UNCHANGED <<Inputs, Files, restoreCovered, restoreChanged, restoreLinked,
                 restoreResult, restoreService, restoreTorn>>

(* The staging directory goes, and on a new host the empty one. *)
CommitRestore ==
  /\ restorer = "commit" /\ restoreResult' = "ok" /\ Goes("idle", 1)
  /\ restoreStage' = {}
  /\ restoreKeeping' = IF restoreHost THEN FALSE ELSE restoreKeeping
  /\ UNCHANGED <<Inputs, restoreRoot, restoreKept, Log, restoreService, restoreTorn,
                 restoreFaults>>

----------------------------------------------------------------------------
(* rollback: what came in goes out, what went out comes back, both in the  *)
(* opposite order. A rename that fails is passed over.                     *)

MoveBack ==
  LET n == restoreAt
  IN /\ restorer = "back" /\ Backward("back", "forth")
     /\ \/ /\ restoreRoot[n] = "new"
           /\ restoreRoot' = [restoreRoot EXCEPT ![n] = "absent"]
           /\ restoreStage' = restoreStage \cup {n}
           /\ UNCHANGED <<restoreTorn, restoreFaults>>
        \/ /\ restoreRoot[n] = "new" /\ RestoreFault /\ restoreTorn' = TRUE
           /\ UNCHANGED <<restoreRoot, restoreStage>>
        \/ /\ restoreRoot[n] # "new"
           /\ UNCHANGED <<restoreRoot, restoreStage, restoreTorn, restoreFaults>>
     /\ UNCHANGED <<Inputs, restoreKept, restoreKeeping, Log, restoreResult,
                    restoreService>>

(* A file replaces what is in its way, a directory does not. *)
MoveForth ==
  LET n == restoreAt
      free == restoreRoot[n] = "absent" \/ n = Database
  IN /\ restorer = "forth" /\ Backward("forth", "fail")
     /\ \/ /\ n \in restoreKept /\ free
           /\ restoreRoot' = [restoreRoot EXCEPT ![n] = "old"]
           /\ restoreKept' = restoreKept \ {n}
           /\ UNCHANGED <<restoreTorn, restoreFaults>>
        \/ /\ n \in restoreKept /\ restoreTorn' = TRUE
           /\ IF free THEN RestoreFault ELSE UNCHANGED restoreFaults
           /\ UNCHANGED <<restoreRoot, restoreKept>>
        \/ /\ n \notin restoreKept
           /\ UNCHANGED <<restoreRoot, restoreKept, restoreTorn, restoreFaults>>
     /\ UNCHANGED <<Inputs, restoreKeeping, restoreStage, Log, restoreResult,
                    restoreService>>

(* The deferred removals: both directories, whatever is left in them, and  *)
(* on a new host the installed keys and checkpoint.                        *)
FailRestore ==
  /\ restorer = "fail" /\ restoreResult' = "failed" /\ Goes("idle", 1)
  /\ restoreKept' = {} /\ restoreKeeping' = FALSE /\ restoreStage' = {}
  /\ restoreTrust' = IF restoreHost THEN "none" ELSE restoreTrust
  /\ restoreLinked' = IF restoreRoot[Database] = "new" THEN restoreLinked ELSE FALSE
  /\ UNCHANGED <<Inputs, restoreRoot, restoreCovered, restoreChanged, restoreService,
                 restoreTorn, restoreFaults>>

(* The process dies: nothing is cleaned up. Another staging directory will *)
(* have another name.                                                      *)
RestorerDies ==
  /\ restorer # "idle" /\ restoreResult' = "died" /\ Goes("idle", 1)
  /\ restoreStage' = {}
  /\ UNCHANGED <<Inputs, restoreRoot, restoreKept, restoreKeeping, Log, restoreService,
                 restoreTorn, restoreFaults>>

RestoreNext ==
  \/ RestoreServiceStarts \/ RestoreServiceStops \/ RestoreServiceSigns
  \/ RestoreReads \/ RecoverHostBegins \/ RecoverHostInstalls
  \/ RestoreStages \/ RestoreRefused \/ MoveOut \/ MoveIn
  \/ AppendRestored \/ SignRestored \/ CommitRestore
  \/ MoveBack \/ MoveForth \/ FailRestore \/ RestorerDies

RestoreSpec == RestoreInit /\ [][RestoreNext]_restoreVars

----------------------------------------------------------------------------
StateBefore == [n \in Names |-> IF n \in restoreOld THEN "old" ELSE "absent"]
StateAfter == [n \in Names |-> IF n \in restoreNew THEN "new" ELSE "absent"]

(* What State Root held is in it or in the directory that keeps it.        *)
OldStateKept ==
  \A n \in restoreOld : restoreRoot[n] = "old" \/ n \in restoreKept

(* A command that returns has done everything or nothing: files and trust  *)
(* agree, and one that failed can be tried again.                          *)
ReturnsWhole ==
  /\ restoreResult = "failed" =>
       /\ restoreRoot = StateBefore /\ ~restoreKeeping
       /\ restoreTrust = IF restoreHost THEN "none" ELSE "old"
  /\ restoreResult = "ok" =>
       restoreRoot = StateAfter /\ restoreKept = restoreOld /\ restoreTrust = "new" /\ Trusted

(* The service never works on a mixture, unless the checkpoint in place    *)
(* fits the backup, too: then the order of the renames protects nothing.   *)
FitsBoth == restoreTrust = "old" /\ restoreCovered /\ restoreRoot[Database] = "new"

ServesOneState ==
  restoreService = "up" =>
    restoreRoot \in {StateBefore, StateAfter} \/ restoreRoot[Database] = "empty" \/ FitsBoth

(* Wherever the command fails or dies, whatever the service does before    *)
(* and afterwards: unless a rename of the rollback itself has failed, the  *)
(* old state is kept, a command that returns is whole, and no mixture is   *)
(* served.                                                                 *)
RestoreSafe == ~restoreTorn => OldStateKept /\ ReturnsWhole /\ ServesOneState
=============================================================================
