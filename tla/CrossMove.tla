------------------------------ MODULE CrossMove ------------------------------
(***************************************************************************)
(* One move between filesystems (internal/hostfiles/cross_move.go): the    *)
(* source is copied beside the destination, the copy is renamed into       *)
(* place, the source is renamed into its filesystem's trash, and the trash *)
(* entry is registered.  The phase is in the database before each effect,  *)
(* and Recover goes on from it when the broker starts.  A tree is "old":   *)
(* what the scan saw; "new": changed since; "part": half a copy; or        *)
(* "other": somebody else's.  Leases keep two moves off the same paths.    *)
(***************************************************************************)
EXTENDS Naturals

CONSTANTS
  MoveFaults,  \* bound on failing statements and file operations
  Outsiders    \* bound on changes from outside the host file service

ASSUME MoveAssumption == MoveFaults \in Nat /\ Outsiders \in Nat

VARIABLES
  moveRow,     \* file_operations.phase
  source, temporary, target, trash,  \* the trees at the four paths
  mover,       \* the next step of execute or Recover
  cancelled,   \* the cancelled argument of fail
  stopping,    \* the broker's context is cancelled: Update(ctx) fails
  touched,     \* history: the paths somebody else changed
  gaveUp,      \* history: the target was removed because MoveToTrash failed
  moveFaults, outside

moveFiles == <<source, temporary, target, trash>>
moveVars == <<moveRow, moveFiles, mover, cancelled, stopping, touched, gaveUp,
              moveFaults, outside>>

FinalRows == {"completed", "rolled_back", "cancelled", "failed"}

MoveTypeOK ==
  /\ moveRow \in FinalRows \cup {"none", "scanning", "copying", "cleanup_pending",
       "ready_to_commit", "target_committed", "source_trashed"}
  /\ source \in {"none", "old", "new"} /\ temporary \in {"none", "part", "old"}
  /\ target \in {"none", "old", "other"} /\ trash \in {"none", "old", "new"}
  /\ mover \in {"start", "scan", "copying", "copy", "recheck", "ready", "look",
       "rename", "committed", "verify", "trash", "trashed", "register", "undo",
       "clean", "fail", "return", "idle", "down", "recover", "rollback", "resave"}
  /\ cancelled \in BOOLEAN /\ stopping \in BOOLEAN /\ gaveUp \in BOOLEAN
  /\ touched \subseteq {"source", "target"}
  /\ moveFaults \in 0..MoveFaults /\ outside \in 0..Outsiders

MoveInit ==
  /\ moveRow = "none" /\ source = "old"
  /\ temporary = "none" /\ target = "none" /\ trash = "none"
  /\ mover = "start" /\ cancelled = FALSE /\ stopping = FALSE
  /\ touched = {} /\ gaveUp = FALSE /\ moveFaults = 0 /\ outside = 0

MoverGoes(from, to) == mover = from /\ mover' = to
Breaks == moveFaults < MoveFaults /\ moveFaults' = moveFaults + 1
Works == UNCHANGED moveFaults
history == <<cancelled, stopping, touched, gaveUp, outside>>

(* Update(ctx, ...) fails when the broker is stopping, too. *)
Saves(row) == ~stopping /\ moveRow' = row /\ Works
SaveFails == UNCHANGED moveRow /\ ((stopping /\ Works) \/ Breaks)

(* Update(context.WithoutCancel(ctx), ...) with its error dropped *)
SavesAnyway(row) ==
  \/ moveRow' = row /\ Works
  \/ UNCHANGED moveRow /\ Breaks

(* Into fail: with cancelled when somebody asked or the broker is stopping. *)
FailsFrom(from, why) ==
  /\ MoverGoes(from, "clean") /\ cancelled' = why
  /\ UNCHANGED <<moveRow, moveFiles, stopping, touched, gaveUp, moveFaults, outside>>

----------------------------------------------------------------------------
(* execute *)

BeginMove ==
  /\ MoverGoes("start", "scan") /\ Saves("scanning")
  /\ UNCHANGED <<moveFiles, history>>

Scan ==
  \/ MoverGoes("scan", "copying") /\ ~stopping
     /\ UNCHANGED <<moveRow, moveFiles, history, moveFaults>>
  \/ FailsFrom("scan", TRUE)
  \/ ~stopping /\ FailsFrom("scan", FALSE)

(* A row that cannot be saved is left to the next start. *)
SaveCopying ==
  /\ \/ MoverGoes("copying", "copy") /\ Saves("copying")
     \/ MoverGoes("copying", "idle") /\ SaveFails
  /\ UNCHANGED <<moveFiles, history>>

CopyPart ==
  /\ mover = "copy" /\ temporary = "none" /\ temporary' = "part"
  /\ UNCHANGED <<moveRow, source, target, trash, mover, history, moveFaults>>

CopyTree ==
  \/ /\ MoverGoes("copy", "recheck") /\ temporary = "part"
     /\ ~stopping /\ source = "old" /\ temporary' = "old"
     /\ UNCHANGED <<moveRow, source, target, trash, history, moveFaults>>
  \/ FailsFrom("copy", TRUE)
  \/ ~stopping /\ FailsFrom("copy", FALSE)

RecheckSource ==
  \/ MoverGoes("recheck", "ready") /\ source = "old"
     /\ UNCHANGED <<moveRow, moveFiles, history, moveFaults>>
  \/ source # "old" /\ FailsFrom("recheck", FALSE)

SaveReady ==
  /\ \/ MoverGoes("ready", "look") /\ Saves("ready_to_commit")
     \/ MoverGoes("ready", "return") /\ SaveFails
  /\ UNCHANGED <<moveFiles, history>>

LookAtTarget ==
  \/ MoverGoes("look", "rename") /\ ~stopping /\ target = "none"
     /\ UNCHANGED <<moveRow, moveFiles, history, moveFaults>>
  \/ ~stopping /\ FailsFrom("look", TRUE)
  \/ (stopping \/ target # "none") /\ FailsFrom("look", FALSE)

(* A file that has come to the target since is replaced, a directory not. *)
RenameCopy ==
  \/ /\ MoverGoes("rename", "committed") /\ target' = "old" /\ temporary' = "none"
     /\ UNCHANGED <<moveRow, source, trash, history, moveFaults>>
  \/ target # "none" /\ FailsFrom("rename", FALSE)

(* A row that cannot be saved takes the target back, if that can be done.  *)
SaveCommitted ==
  /\ \/ MoverGoes("committed", "verify") /\ Saves("target_committed") /\ UNCHANGED target
     \/ /\ MoverGoes("committed", "return") /\ UNCHANGED moveRow
        /\ stopping \/ moveFaults < MoveFaults
        /\ target' = "none" \/ UNCHANGED target
        /\ moveFaults' = IF stopping THEN moveFaults ELSE moveFaults + 1
  /\ UNCHANGED <<source, temporary, trash, history>>

VerifySource ==
  /\ MoverGoes("verify", IF source = "old" THEN "trash" ELSE "undo")
  /\ UNCHANGED <<moveRow, moveFiles, history, moveFaults>>

(* rollbackCommittedTarget; goes says where the caller returns to after    *)
(* the target is gone, and otherwise.                                      *)
Undo(from, undone, left) ==
  /\ \/ /\ target = "old" /\ target' = "none" /\ MoverGoes(from, undone)
        /\ SavesAnyway("rolled_back")
     \/ /\ UNCHANGED target /\ MoverGoes(from, left)
        /\ \/ target # "old" /\ SavesAnyway("failed")
           \/ target = "old" /\ Breaks /\ moveRow' \in {"failed", moveRow}
  /\ UNCHANGED <<source, temporary, trash, history>>

UndoCommit == Undo("undo", "return", "return")

TrashSource ==
  \/ /\ MoverGoes("trash", "trashed") /\ source # "none"
     /\ trash' = source /\ source' = "none"
     /\ UNCHANGED <<moveRow, temporary, target, history, moveFaults>>
  \/ /\ MoverGoes("trash", "clean")
     /\ (source = "none" /\ Works) \/ Breaks
     /\ target' \in {"none", target}
     /\ gaveUp' = (gaveUp \/ target' = "none") /\ cancelled' = FALSE
     /\ UNCHANGED <<moveRow, source, temporary, trash, stopping, touched, outside>>

SaveTrashed ==
  /\ \/ MoverGoes("trashed", "register") /\ Saves("source_trashed")
     \/ MoverGoes("trashed", "return") /\ stopping /\ moveRow' = "source_trashed" /\ Works
     \/ MoverGoes("trashed", "return") /\ Breaks /\ moveRow' \in {"source_trashed", moveRow}
  /\ UNCHANGED <<moveFiles, history>>

(* The trash entry, the references and the row in one transaction. *)
Register ==
  /\ \/ MoverGoes("register", "return") /\ Saves("completed")
     \/ MoverGoes("register", "return") /\ SaveFails
  /\ UNCHANGED <<moveFiles, history>>

(* Mutant: a copy that cannot be removed is forgotten. *)
CleanForgetful ==
  /\ MoverGoes("clean", "fail") /\ temporary' \in {"none", temporary}
  /\ UNCHANGED <<moveRow, source, target, trash, history, moveFaults>>

(* fail *)
Clean ==
  /\ \/ MoverGoes("clean", "fail") /\ temporary' = "none" /\ Works /\ UNCHANGED moveRow
     \/ MoverGoes("clean", "return") /\ UNCHANGED temporary /\ temporary # "none"
        /\ Breaks /\ moveRow' \in {"cleanup_pending", moveRow}
  /\ UNCHANGED <<source, target, trash, history>>

SaveFailed ==
  /\ MoverGoes("fail", "return")
  /\ SavesAnyway(IF cancelled THEN "cancelled" ELSE "failed")
  /\ UNCHANGED <<moveFiles, history>>

(* The deferred removal of the copy *)
ReturnFromMove ==
  /\ MoverGoes("return", "idle")
  /\ \/ temporary' = "none" /\ Works
     \/ temporary # "none" /\ UNCHANGED temporary /\ Breaks
  /\ UNCHANGED <<moveRow, source, target, trash, history>>

----------------------------------------------------------------------------
(* The broker stops, dies and starts; Recover *)

StopBroker ==
  /\ mover \notin {"down", "recover", "rollback", "resave"} /\ ~stopping
  /\ stopping' = TRUE
  /\ UNCHANGED <<moveRow, moveFiles, mover, cancelled, touched, gaveUp, moveFaults, outside>>

BrokerDies ==
  /\ mover \notin {"down", "start"} /\ mover' = "down"
  /\ UNCHANGED <<moveRow, moveFiles, history, moveFaults>>

BootBroker ==
  /\ MoverGoes("down", "recover") /\ stopping' = FALSE
  /\ UNCHANGED <<moveRow, moveFiles, cancelled, touched, gaveUp, moveFaults, outside>>

(* A step of Recover that cannot be done keeps the broker from starting. *)
RecoverBreaks ==
  /\ mover \in {"recover", "rollback", "resave"} /\ moveRow \notin FinalRows
  /\ mover' = "down" /\ Breaks
  /\ UNCHANGED <<moveRow, moveFiles, history>>

RecoverRow(rows, row) ==
  /\ moveRow \in rows /\ mover' = mover /\ moveRow' = row
  /\ UNCHANGED <<moveFiles, history, moveFaults>>

RecoverCopy ==
  \/ /\ MoverGoes("recover", "rollback") /\ temporary' = "none"
     /\ \/ moveRow \in {"scanning", "copying", "cleanup_pending"}
        \/ moveRow = "ready_to_commit" /\ temporary # "none"
     /\ UNCHANGED <<moveRow, source, target, trash, history, moveFaults>>
  \/ mover = "rollback" /\ RecoverRow({moveRow} \ FinalRows, "rolled_back")

(* Mutant: without a copy, the target must have been committed. *)
RecoverUnlooked ==
  /\ mover = "recover" /\ temporary = "none"
  /\ RecoverRow({"ready_to_commit"}, "target_committed")

RecoverReady ==
  /\ mover = "recover" /\ temporary = "none"
  /\ RecoverRow({"ready_to_commit"},
       CASE target = "none" -> "rolled_back"
         [] target = "old" -> "target_committed"
         [] OTHER -> "failed")

RecoverCommitted ==
  /\ mover = "recover" /\ moveRow = "target_committed"
  /\ \/ /\ source = "old" /\ mover' = "resave"
        /\ trash' = source /\ source' = "none"
        /\ UNCHANGED <<moveRow, temporary, target, history, moveFaults>>
     \/ source = "new" /\ Undo("recover", "idle", "down")
     \/ /\ source = "none"
        /\ RecoverRow({moveRow}, IF trash = "none" THEN "failed" ELSE "source_trashed")

RecoverTrashed ==
  \/ /\ MoverGoes("resave", "recover") /\ moveRow' = "source_trashed"
     /\ UNCHANGED <<moveFiles, history, moveFaults>>
  \/ /\ mover = "recover"
     /\ RecoverRow({"source_trashed"},
          IF target = "old" /\ trash = "old" THEN "completed" ELSE "failed")

RecoverDone ==
  /\ mover \in {"recover", "rollback"} /\ moveRow \in FinalRows \cup {"none"}
  /\ mover' = "idle"
  /\ UNCHANGED <<moveRow, moveFiles, history, moveFaults>>

----------------------------------------------------------------------------
(* Programs that do not ask for leases *)

Outside ==
  /\ outside < Outsiders /\ outside' = outside + 1
  /\ \/ /\ source # "none" /\ source' \in {"new", "none"}
        /\ touched' = touched \cup {"source"} /\ UNCHANGED target
     \/ /\ target' \in {"other", "none"} \ {target}
        /\ touched' = touched \cup {"target"} /\ UNCHANGED source
  /\ UNCHANGED <<moveRow, temporary, trash, mover, cancelled, stopping, gaveUp, moveFaults>>

MoveNext ==
  \/ BeginMove \/ Scan \/ SaveCopying \/ CopyPart \/ CopyTree \/ RecheckSource
  \/ SaveReady \/ LookAtTarget \/ RenameCopy \/ SaveCommitted \/ VerifySource
  \/ UndoCommit \/ TrashSource \/ SaveTrashed \/ Register
  \/ Clean \/ SaveFailed \/ ReturnFromMove
  \/ StopBroker \/ BrokerDies \/ BootBroker \/ RecoverBreaks
  \/ RecoverCopy \/ RecoverReady \/ RecoverCommitted \/ RecoverTrashed \/ RecoverDone
  \/ Outside

MoveSpec == MoveInit /\ [][MoveNext]_moveVars

----------------------------------------------------------------------------
(* The engine takes the source away only when a verified copy of it is at  *)
(* the destination, in Recover as in execute.  Excepted: somebody else has *)
(* changed the destination; or MoveToTrash had failed, the copy was        *)
(* removed again, and the row that says so was never written: recovery     *)
(* then puts the source into the trash all the same.                       *)
SourceLeavesLast ==
  [][source # "none" /\ source' = "none" /\ outside' = outside
       => target = "old" \/ "target" \in touched \/ gaveUp]_moveVars

(* Recover completes the work that was done after the target's commit, so  *)
(* that source, target and trash converge (its comment, and                *)
(* docs/DATA-MODEL.md): the file is at one of the two places it was asked  *)
(* to be, if nobody else took it away.                                     *)
RecoveryConverges ==
  mover = "idle" /\ touched = {} => source = "old" \/ target = "old"

(* Whatever failed, crashed or was cancelled in between, a row in a final  *)
(* phase agrees with the disk.  (docs/DATA-MODEL.md, section 4)            *)
MoveSettled ==
  mover = "idle" =>
    /\ moveRow \in {"rolled_back", "cancelled"} =>
         /\ source # "none" \/ "source" \in touched
         /\ trash = "none" /\ temporary = "none"
         /\ target = "none" \/ "target" \in touched
    /\ moveRow = "completed" =>
         /\ source = "none" /\ trash # "none" /\ temporary = "none"
         /\ target = "old" \/ "target" \in touched
    /\ moveRow = "failed" => source # "none" \/ trash # "none" \/ "source" \in touched
=============================================================================
