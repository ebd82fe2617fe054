-------------------------- MODULE Operations_proofs --------------------------
(***************************************************************************)
(* Proofs about the operations that have to survive a stop in the middle.  *)
(* CrossMove, for any number of failing statements and file operations, of *)
(* changes from outside, and of stops and crashes.                         *)
(* DatabaseOperations, for any number of operations, crashes, failing      *)
(* calls and deleted backups: the data of the beginning is never lost, and *)
(* the phase an operation ends in says what became of the database.        *)
(***************************************************************************)
EXTENDS CrossMove, DatabaseOperations, TLAPS

(***************************************************************************)
(* CrossMove                                                               *)
(***************************************************************************)
(* The steps before the copy is renamed into place; those between that and *)
(* the trash; those after it.                                              *)
Copying == {"start", "scan", "copying", "copy", "recheck", "ready", "look", "rename"}
Copied == {"committed", "verify", "undo", "trash"}
Trashed == {"trashed", "register"}

Verified == target = "old" \/ "target" \in touched
NotPlaced == target # "old" /\ trash = "none"

(* The values the proofs tell apart.                                       *)
Kinds ==
  /\ source \in {"none", "old", "new"} /\ target \in {"none", "old", "other"}
  /\ outside \in Nat

(* Where the trees can be, whoever works.                                  *)
Trees ==
  /\ target = "other" => "target" \in touched
  /\ temporary # "none" => NotPlaced
  /\ trash # "none" => source = "none" /\ temporary = "none"
  /\ source = "none" => trash # "none" \/ "source" \in touched

(* What the mover knows at its step.                                       *)
Knows ==
  /\ mover \in Copying =>
       NotPlaced /\ moveRow \in {"none", "scanning", "copying", "ready_to_commit"}
  /\ mover \in {"look", "rename", "committed"} => moveRow = "ready_to_commit"
  /\ mover \in {"verify", "undo", "trash", "trashed", "resave"} => moveRow = "target_committed"
  /\ mover = "register" => moveRow = "source_trashed"
  /\ mover \in Copied => Verified /\ temporary = "none" /\ trash = "none"
  /\ mover = "undo" => source # "old"
  /\ mover \in Trashed => Verified /\ trash # "none"
  /\ mover \in {"clean", "fail"} /\ cancelled => NotPlaced
  /\ mover = "fail" => temporary = "none"
  /\ mover = "rollback" => NotPlaced /\ temporary = "none"
  /\ mover = "resave" => trash # "none"

(* What the row means, at any time: Recover has nothing else to go by.     *)
Rows ==
  /\ moveRow \in {"none", "scanning", "copying", "cleanup_pending"} => NotPlaced
  /\ moveRow = "ready_to_commit" => trash = "none"
  /\ moveRow \in {"target_committed", "source_trashed"} => temporary = "none"
  /\ moveRow = "target_committed" => Verified \/ gaveUp \/ source # "old"
  /\ moveRow \in {"rolled_back", "cancelled"} => NotPlaced /\ temporary = "none"
  /\ moveRow = "completed" => trash # "none" /\ Verified
  /\ moveRow \in FinalRows => mover \in {"return", "idle", "down", "recover", "rollback"}

MoveInv == Kinds /\ Trees /\ Knows /\ Rows

LEMMA MoveInitInv == MoveInit => MoveInv
  BY MoveAssumption DEF MoveInit, MoveInv, Kinds, Trees, Knows, Rows, Verified, NotPlaced,
     Copying, Copied, Trashed, FinalRows

----------------------------------------------------------------------------
(* Up to the copy, nothing is at the destination.                          *)
LEMMA CopySteps ==
  ASSUME MoveInv, BeginMove \/ Scan \/ SaveCopying \/ CopyPart \/ CopyTree \/ RecheckSource
  PROVE  MoveInv'
<1> USE MoveAssumption DEF MoveInv, BeginMove, Scan, SaveCopying, CopyPart, CopyTree, RecheckSource
<1> USE DEF MoverGoes, Saves, SaveFails, SavesAnyway, FailsFrom, Works, Breaks, history, moveFiles, FinalRows
<1>1. Kinds'
  BY DEF Kinds
<1>2. Trees'
  BY DEF Kinds, Trees, Knows, Rows, Verified, NotPlaced, Copying, Copied, Trashed
<1>3. Knows'
  BY DEF Kinds, Trees, Knows, Rows, Verified, NotPlaced, Copying, Copied, Trashed
<1>4. Rows'
  BY DEF Kinds, Trees, Knows, Rows, Verified, NotPlaced, Copying, Copied, Trashed
<1> QED
  BY <1>1, <1>2, <1>3, <1>4

(* The copy is renamed into place, or taken back.                          *)
LEMMA CommitSteps ==
  ASSUME MoveInv, SaveReady \/ LookAtTarget \/ RenameCopy \/ SaveCommitted \/ VerifySource
  PROVE  MoveInv'
<1> USE MoveAssumption DEF MoveInv, SaveReady, LookAtTarget, RenameCopy, SaveCommitted, VerifySource
<1> USE DEF MoverGoes, Saves, SaveFails, SavesAnyway, FailsFrom, Works, Breaks, history, moveFiles, FinalRows
<1>1. Kinds'
  BY DEF Kinds
<1>2. Trees'
  BY DEF Kinds, Trees, Knows, Rows, Verified, NotPlaced, Copying, Copied, Trashed
<1>3. Knows'
  BY DEF Kinds, Trees, Knows, Rows, Verified, NotPlaced, Copying, Copied, Trashed
<1>4. Rows'
  BY DEF Kinds, Trees, Knows, Rows, Verified, NotPlaced, Copying, Copied, Trashed
<1> QED
  BY <1>1, <1>2, <1>3, <1>4

LEMMA UndoStep ==
  ASSUME MoveInv, UndoCommit
  PROVE  MoveInv'
<1> USE MoveAssumption DEF MoveInv, UndoCommit, Undo
<1> USE DEF MoverGoes, Saves, SaveFails, SavesAnyway, FailsFrom, Works, Breaks, history, moveFiles, FinalRows
<1>1. Kinds'
  BY DEF Kinds
<1>2. Trees'
  BY DEF Kinds, Trees, Knows, Rows, Verified, NotPlaced, Copying, Copied, Trashed
<1>3. Knows'
  BY DEF Kinds, Trees, Knows, Rows, Verified, NotPlaced, Copying, Copied, Trashed
<1>4. Rows'
  BY DEF Kinds, Trees, Knows, Rows, Verified, NotPlaced, Copying, Copied, Trashed
<1> QED
  BY <1>1, <1>2, <1>3, <1>4

(* The source goes, with the copy at the destination.                      *)
LEMMA TrashSteps ==
  ASSUME MoveInv, TrashSource \/ SaveTrashed \/ Register
  PROVE  MoveInv'
<1> USE MoveAssumption DEF MoveInv, TrashSource, SaveTrashed, Register
<1> USE DEF MoverGoes, Saves, SaveFails, SavesAnyway, FailsFrom, Works, Breaks, history, moveFiles, FinalRows
<1>1. Kinds'
  BY DEF Kinds
<1>2. Trees'
  BY DEF Kinds, Trees, Knows, Rows, Verified, NotPlaced, Copying, Copied, Trashed
<1>3. Knows'
  BY DEF Kinds, Trees, Knows, Rows, Verified, NotPlaced, Copying, Copied, Trashed
<1>4. Rows'
  BY DEF Kinds, Trees, Knows, Rows, Verified, NotPlaced, Copying, Copied, Trashed
<1> QED
  BY <1>1, <1>2, <1>3, <1>4

LEMMA MoveEndSteps ==
  ASSUME MoveInv, Clean \/ SaveFailed \/ ReturnFromMove
  PROVE  MoveInv'
<1> USE MoveAssumption DEF MoveInv, Clean, SaveFailed, ReturnFromMove
<1> USE DEF MoverGoes, Saves, SaveFails, SavesAnyway, FailsFrom, Works, Breaks, history, moveFiles, FinalRows
<1>1. Kinds'
  BY DEF Kinds
<1>2. Trees'
  BY DEF Kinds, Trees, Knows, Rows, Verified, NotPlaced, Copying, Copied, Trashed
<1>3. Knows'
  BY DEF Kinds, Trees, Knows, Rows, Verified, NotPlaced, Copying, Copied, Trashed
<1>4. Rows'
  BY DEF Kinds, Trees, Knows, Rows, Verified, NotPlaced, Copying, Copied, Trashed
<1> QED
  BY <1>1, <1>2, <1>3, <1>4

LEMMA BrokerSteps ==
  ASSUME MoveInv, StopBroker \/ BrokerDies \/ BootBroker \/ RecoverBreaks
  PROVE  MoveInv'
<1> USE MoveAssumption DEF MoveInv, StopBroker, BrokerDies, BootBroker, RecoverBreaks
<1> USE DEF MoverGoes, Saves, SaveFails, SavesAnyway, FailsFrom, Works, Breaks, history, moveFiles, FinalRows
<1>1. Kinds'
  BY DEF Kinds
<1>2. Trees'
  BY DEF Kinds, Trees, Knows, Rows, Verified, NotPlaced, Copying, Copied, Trashed
<1>3. Knows'
  BY DEF Kinds, Trees, Knows, Rows, Verified, NotPlaced, Copying, Copied, Trashed
<1>4. Rows'
  BY DEF Kinds, Trees, Knows, Rows, Verified, NotPlaced, Copying, Copied, Trashed
<1> QED
  BY <1>1, <1>2, <1>3, <1>4

(* Recovery goes by the row and what it sees of the trees.                 *)
LEMMA RecoverCopySteps ==
  ASSUME MoveInv, RecoverCopy \/ RecoverReady
  PROVE  MoveInv'
<1> USE MoveAssumption DEF MoveInv, RecoverCopy, RecoverReady, RecoverRow
<1> USE DEF MoverGoes, Saves, SaveFails, SavesAnyway, FailsFrom, Works, Breaks, history, moveFiles, FinalRows
<1>1. Kinds'
  BY DEF Kinds
<1>2. Trees'
  BY DEF Kinds, Trees, Knows, Rows, Verified, NotPlaced, Copying, Copied, Trashed
<1>3. Knows'
  BY DEF Kinds, Trees, Knows, Rows, Verified, NotPlaced, Copying, Copied, Trashed
<1>4. Rows'
  BY DEF Kinds, Trees, Knows, Rows, Verified, NotPlaced, Copying, Copied, Trashed
<1> QED
  BY <1>1, <1>2, <1>3, <1>4

LEMMA RecoverCommittedStep ==
  ASSUME MoveInv, RecoverCommitted
  PROVE  MoveInv'
<1> USE MoveAssumption DEF MoveInv, RecoverCommitted, RecoverRow, Undo
<1> USE DEF MoverGoes, Saves, SaveFails, SavesAnyway, FailsFrom, Works, Breaks, history, moveFiles, FinalRows
<1>1. Kinds'
  BY DEF Kinds
<1>2. Trees'
  BY DEF Kinds, Trees, Knows, Rows, Verified, NotPlaced, Copying, Copied, Trashed
<1>3. Knows'
  BY DEF Kinds, Trees, Knows, Rows, Verified, NotPlaced, Copying, Copied, Trashed
<1>4. Rows'
  BY DEF Kinds, Trees, Knows, Rows, Verified, NotPlaced, Copying, Copied, Trashed
<1> QED
  BY <1>1, <1>2, <1>3, <1>4

LEMMA RecoverEndSteps ==
  ASSUME MoveInv, RecoverTrashed \/ RecoverDone
  PROVE  MoveInv'
<1> USE MoveAssumption DEF MoveInv, RecoverTrashed, RecoverDone, RecoverRow
<1> USE DEF MoverGoes, Saves, SaveFails, SavesAnyway, FailsFrom, Works, Breaks, history, moveFiles, FinalRows
<1>1. Kinds'
  BY DEF Kinds
<1>2. Trees'
  BY DEF Kinds, Trees, Knows, Rows, Verified, NotPlaced, Copying, Copied, Trashed
<1>3. Knows'
  BY DEF Kinds, Trees, Knows, Rows, Verified, NotPlaced, Copying, Copied, Trashed
<1>4. Rows'
  BY DEF Kinds, Trees, Knows, Rows, Verified, NotPlaced, Copying, Copied, Trashed
<1> QED
  BY <1>1, <1>2, <1>3, <1>4

LEMMA OutsideStep ==
  ASSUME MoveInv, Outside
  PROVE  MoveInv'
<1> USE MoveAssumption DEF MoveInv, Outside
<1> USE DEF MoverGoes, Saves, SaveFails, SavesAnyway, FailsFrom, Works, Breaks, history, moveFiles, FinalRows
<1>1. Kinds'
  BY DEF Kinds
<1>2. Trees'
  BY DEF Kinds, Trees, Knows, Rows, Verified, NotPlaced, Copying, Copied, Trashed
<1>3. Knows'
  BY DEF Kinds, Trees, Knows, Rows, Verified, NotPlaced, Copying, Copied, Trashed
<1>4. Rows'
  BY DEF Kinds, Trees, Knows, Rows, Verified, NotPlaced, Copying, Copied, Trashed
<1> QED
  BY <1>1, <1>2, <1>3, <1>4

LEMMA MoveInvStep == MoveInv /\ [MoveNext]_moveVars => MoveInv'
<1> SUFFICES ASSUME MoveInv, [MoveNext]_moveVars PROVE MoveInv'
  OBVIOUS
<1>1. CASE BeginMove \/ Scan \/ SaveCopying \/ CopyPart \/ CopyTree \/ RecheckSource
  BY <1>1, CopySteps
<1>2. CASE SaveReady \/ LookAtTarget \/ RenameCopy \/ SaveCommitted \/ VerifySource
  BY <1>2, CommitSteps
<1>3. CASE UndoCommit
  BY <1>3, UndoStep
<1>4. CASE TrashSource \/ SaveTrashed \/ Register
  BY <1>4, TrashSteps
<1>5. CASE Clean \/ SaveFailed \/ ReturnFromMove
  BY <1>5, MoveEndSteps
<1>6. CASE StopBroker \/ BrokerDies \/ BootBroker \/ RecoverBreaks
  BY <1>6, BrokerSteps
<1>7. CASE RecoverCopy \/ RecoverReady
  BY <1>7, RecoverCopySteps
<1>8. CASE RecoverCommitted
  BY <1>8, RecoverCommittedStep
<1>9. CASE RecoverTrashed \/ RecoverDone
  BY <1>9, RecoverEndSteps
<1>10. CASE Outside
  BY <1>10, OutsideStep
<1>11. CASE UNCHANGED moveVars
  BY <1>11 DEF moveVars, moveFiles, MoveInv, Kinds, Trees, Knows, Rows, Verified, NotPlaced
<1> QED
  BY <1>1, <1>2, <1>3, <1>4, <1>5, <1>6, <1>7, <1>8, <1>9, <1>10, <1>11 DEF MoveNext

(* Every value the rows, the trees and the mover take is one of those the  *)
(* code has for them.                                                      *)
THEOREM MoveTypeCorrect == MoveSpec => []MoveTypeOK
<1> DEFINE Stages ==
             /\ moveRow \in FinalRows \cup {"none", "scanning", "copying", "cleanup_pending",
                  "ready_to_commit", "target_committed", "source_trashed"}
             /\ mover \in {"start", "scan", "copying", "copy", "recheck", "ready", "look",
                  "rename", "committed", "verify", "trash", "trashed", "register", "undo",
                  "clean", "fail", "return", "idle", "down", "recover", "rollback", "resave"}
           Files ==
             /\ source \in {"none", "old", "new"} /\ temporary \in {"none", "part", "old"}
             /\ target \in {"none", "old", "other"} /\ trash \in {"none", "old", "new"}
           Counts == moveFaults \in 0..MoveFaults /\ outside \in 0..Outsiders
           Changes == touched \subseteq {"source", "target"}
           Flags == cancelled \in BOOLEAN /\ stopping \in BOOLEAN /\ gaveUp \in BOOLEAN
<1>1. MoveTypeOK <=> Stages /\ Files /\ Counts /\ Changes /\ Flags
  BY Zenon DEF MoveTypeOK
<1>2. MoveInit => Stages /\ Files /\ Counts /\ Changes /\ Flags
  <2>1. MoveInit => Stages /\ Files /\ Counts /\ Changes
    BY MoveAssumption DEF MoveInit, FinalRows
  <2>2. MoveInit => Flags
    BY Zenon DEF MoveInit
  <2> QED BY <2>1, <2>2
<1> USE DEF MoveNext, moveVars, moveFiles, history, BeginMove, Scan, SaveCopying, CopyPart,
      CopyTree, RecheckSource, SaveReady, LookAtTarget, RenameCopy, SaveCommitted,
      VerifySource, UndoCommit, Undo, TrashSource, SaveTrashed, Register, Clean,
      SaveFailed, ReturnFromMove, StopBroker, BrokerDies, BootBroker, RecoverBreaks,
      RecoverCopy, RecoverReady, RecoverRow, RecoverCommitted, RecoverTrashed,
      RecoverDone, Outside, MoverGoes, Works, Breaks, Saves, SaveFails, SavesAnyway,
      FailsFrom
<1>3. Stages /\ [MoveNext]_moveVars => Stages'
  BY SMTT(60) DEF FinalRows
<1>4. Files /\ [MoveNext]_moveVars => Files'
  BY SMTT(60)
<1>5. Counts /\ [MoveNext]_moveVars => Counts'
  BY MoveAssumption, SMTT(60)
<1>6. Changes /\ [MoveNext]_moveVars => Changes'
  BY SMTT(60)
<1>7. Flags /\ [MoveNext]_moveVars => Flags'
  BY Zenon
<1>8. Stages /\ Files /\ Counts /\ Changes /\ Flags /\ [MoveNext]_moveVars
        => (Stages /\ Files /\ Counts /\ Changes /\ Flags)'
  BY <1>3, <1>4, <1>5, <1>6, <1>7
<1> HIDE DEF Stages, Files, Counts, Changes, Flags, MoveNext, moveVars
<1> QED BY <1>1, <1>2, <1>8, PTL DEF MoveSpec

----------------------------------------------------------------------------
(* Whatever fails, stops or crashes, a row in a final phase agrees with    *)
(* the disk.                                                               *)
THEOREM RowsAgree == MoveSpec => []MoveSettled
<1>1. MoveInv => MoveSettled
  BY DEF MoveInv, Kinds, Trees, Rows, MoveSettled, Verified, NotPlaced
<1> QED
  BY <1>1, MoveInitInv, MoveInvStep, PTL DEF MoveSpec

(* A final row stays as it is: no late write of the mover and no recovery  *)
(* takes up a move whose end has been recorded.                            *)
THEOREM RowsFinal == MoveSpec => [][(moveRow \in FinalRows) => UNCHANGED moveRow]_moveVars
<1>1. ASSUME MoveInv, [MoveNext]_moveVars, moveRow \in FinalRows
      PROVE  UNCHANGED moveRow
  <2>1. mover \in {"return", "idle", "down", "recover", "rollback"}
    BY <1>1 DEF MoveInv, Rows
  <2>2. \/ UNCHANGED moveRow
        \/ StopBroker \/ BrokerDies \/ BootBroker \/ RecoverBreaks \/ ReturnFromMove
        \/ RecoverCopy \/ RecoverReady \/ RecoverCommitted \/ RecoverTrashed \/ RecoverDone
        \/ Outside
    BY <1>1, <2>1, SMTT(30) DEF MoveNext, moveVars, BeginMove, Scan, SaveCopying, CopyPart,
       CopyTree, RecheckSource, SaveReady, LookAtTarget, RenameCopy, SaveCommitted,
       VerifySource, UndoCommit, Undo, TrashSource, SaveTrashed, Register, Clean, SaveFailed,
       FailsFrom, MoverGoes
  <2>3. UNCHANGED moveRow
    BY <1>1, <2>1, <2>2, SMTT(30) DEF FinalRows, StopBroker, BrokerDies, BootBroker,
       RecoverBreaks, ReturnFromMove, RecoverCopy, RecoverReady, RecoverCommitted,
       RecoverTrashed, RecoverDone, RecoverRow, Outside, MoverGoes, Undo
  <2> QED BY <2>3
<1>2. MoveInv /\ [MoveNext]_moveVars => [(moveRow \in FinalRows) => UNCHANGED moveRow]_moveVars
  BY <1>1
<1> QED
  BY <1>2, MoveInitInv, MoveInvStep, PTL DEF MoveSpec

(* Only two steps take the source away: the one that has committed and     *)
(* verified the copy, and the recovery of a row that says so.              *)
LEMMA OnlyTrashed ==
  ASSUME [MoveNext]_moveVars, source # "none", source' = "none", outside' = outside, outside \in Nat
  PROVE  \/ mover = "trash"
         \/ moveRow = "target_committed" /\ source = "old"
<1> USE DEF moveFiles, history
<1>1. UNCHANGED source \/ TrashSource \/ RecoverCommitted \/ Outside
  BY DEF MoveNext, moveVars, BeginMove, Scan, SaveCopying, CopyPart, CopyTree, RecheckSource,
     SaveReady, LookAtTarget, RenameCopy, SaveCommitted, VerifySource, UndoCommit, Undo, SaveTrashed,
     Register, Clean, SaveFailed, ReturnFromMove, StopBroker, BrokerDies, BootBroker, FailsFrom,
     RecoverBreaks, RecoverCopy, RecoverReady, RecoverTrashed, RecoverDone, RecoverRow
<1>2. CASE TrashSource
  BY <1>2 DEF TrashSource, MoverGoes
<1>3. CASE RecoverCommitted
  BY <1>3 DEF RecoverCommitted, RecoverRow, Undo
<1>4. CASE Outside
  BY <1>4 DEF Outside
<1> QED
  BY <1>1, <1>2, <1>3, <1>4

(* The source is never taken away before the copy is at the destination,   *)
(* by execute or by any number of interrupted recoveries.                  *)
THEOREM SourceAlwaysLast == MoveSpec => SourceLeavesLast
<1>1. MoveInv /\ [MoveNext]_moveVars =>
        (source # "none" /\ source' = "none" /\ outside' = outside
           => target = "old" \/ "target" \in touched \/ gaveUp)
  BY OnlyTrashed, MoveAssumption DEF MoveInv, Kinds, Knows, Rows, Copied, Verified
<1> QED
  BY <1>1, MoveInitInv, MoveInvStep, PTL DEF MoveSpec, SourceLeavesLast

----------------------------------------------------------------------------
(***************************************************************************)
(* DatabaseOperations                                                      *)
(***************************************************************************)
(* The data of the beginning is in a backup that was recorded. *)
Covered == (\E o \in OpIds : opBackup[o] = "orig") \/ "orig" \in discarded

BeforeRecord == {"none", "begun", "verify", "backup", "dump", "dumped", "record"}
Destructive == {"guard", "destroy", "replaced", "import", "undo", "again", "reload"}

(* Only what is not a mere backup comes to the destructive steps, and the  *)
(* recovery works on an operation.                                         *)
InPlace ==
  /\ \A o \in OpIds : opStep[o] \in {"begun", "verify", "guard", "destroy"}
                        => opKind[o] # "backup"
  /\ recoverStep \notin {"none", "ready"} => recovered \in OpIds

(* Who is about to change the database has seen to it that its data is     *)
(* covered: by the row of the safety backup, before that by the dump.      *)
Kept ==
  /\ dbContent = "orig" \/ Covered
  /\ \A o \in OpIds :
       /\ opStep[o] \in BeforeRecord => opBackup[o] = "none"
       /\ opStep[o] \in {"dumped", "record"} => opFile[o] = "orig" \/ Covered
       /\ opSafe[o] \/ opStep[o] \in Destructive => Covered
  /\ recoverStep \in {"replace", "reload"} => Covered

DataInv == DbTypeOK /\ InPlace /\ Kept

LEMMA DataInit == DbInit => DataInv
<1> SUFFICES ASSUME DbInit PROVE DataInv
  OBVIOUS
<1>1. DbTypeOK
  <2>1. opSafe \in [OpIds -> BOOLEAN]
    BY Zenon DEF DbInit
  <2>2. /\ opKind \in [OpIds -> OpKinds] /\ opStep \in [OpIds -> OpSteps]
        /\ opPhase \in [OpIds -> {"none"} \cup EarlyPhases \cup DestructivePhases \cup Terminal]
    BY DEF DbInit, OpKinds, OpSteps
  <2>3. opBackup \in [OpIds -> Contents \cup {"none"}] /\ opFile \in [OpIds -> Contents \cup {"none"}]
    BY DEF DbInit
  <2>4. dbFaultsLeft \in 0..DbFaults /\ dbContent \in Contents /\ opBefore \in Contents
    BY DbAssumption DEF DbInit, Contents
  <2>5. /\ opCancelled \in SUBSET OpIds /\ opAsked \in SUBSET OpIds /\ discarded \in SUBSET Contents
        /\ recovered = 0 /\ recoverStep = "ready" /\ contested \in BOOLEAN
    BY DEF DbInit
  <2> QED
    BY <2>1, <2>2, <2>3, <2>4, <2>5 DEF DbTypeOK
<1>2. InPlace /\ Kept
  BY DEF DbInit, InPlace, Kept, Destructive
<1> QED
  BY <1>1, <1>2 DEF DataInv

(* Every action keeps the types, and the places of kinds and recovery.     *)
LEMMA DbTypeStep ==
  ASSUME DbTypeOK, InPlace, [DbNext]_dbVars
  PROVE  DbTypeOK' /\ InPlace'
<1> USE DbAssumption DEF DbTypeOK, InPlace, Contents, OpKinds, OpSteps, EarlyPhases,
           DestructivePhases, Terminal
<1>1. ASSUME NEW o \in OpIds, NEW kind \in OpKinds, BeginOp(o, kind)
      PROVE  DbTypeOK' /\ InPlace'
  BY <1>1 DEF BeginOp, OpGoes, recoverVars, SetPhase, DbSound
<1>2. ASSUME NEW o \in OpIds, NoteVerifying(o)
      PROVE  DbTypeOK' /\ InPlace'
  BY <1>2 DEF NoteVerifying, OpGoes, opRest, recoverVars, NotesOrReturns,
         Written, NotWritten, SetPhase, InContext, OutOfContext, DbSound,
         DbBreaks
<1>3. ASSUME NEW o \in OpIds, LookAtDatabase(o)
      PROVE  DbTypeOK' /\ InPlace'
  BY <1>3 DEF LookAtDatabase, OpGoes, opRest, recoverVars, InContext,
         OutOfContext, DbSound, DbBreaks
<1>4. ASSUME NEW o \in OpIds, NoteDumping(o)
      PROVE  DbTypeOK' /\ InPlace'
  BY <1>4 DEF NoteDumping, OpGoes, opRest, recoverVars, NotesOrReturns,
         Written, NotWritten, SetPhase, InContext, OutOfContext, DbSound,
         DbBreaks
<1>5. ASSUME NEW o \in OpIds, Dump(o)
      PROVE  DbTypeOK' /\ InPlace'
  BY <1>5 DEF Dump, OpGoes, opRest, recoverVars, OutOfContext, DbSound,
         DbBreaks
<1>6. ASSUME NEW o \in OpIds, NoteValidating(o)
      PROVE  DbTypeOK' /\ InPlace'
  BY <1>6 DEF NoteValidating, OpGoes, opRest, recoverVars, Written, NotWritten,
         SetPhase, InContext, OutOfContext, DbSound, DbBreaks
<1>7. ASSUME NEW o \in OpIds, RecordBackup(o)
      PROVE  DbTypeOK' /\ InPlace'
  BY <1>7 DEF RecordBackup, OpGoes, opRest, recoverVars, InContext,
         OutOfContext, DbSound, DbBreaks
<1>8. ASSUME NEW o \in OpIds, NoteCancelled(o)
      PROVE  DbTypeOK' /\ InPlace'
  BY <1>8 DEF NoteCancelled, OpGoes, opRest, recoverVars, SurelySetPhase,
         SetPhase, DbSound, DbBreaks
<1>9. ASSUME NEW o \in OpIds, FailOp(o)
      PROVE  DbTypeOK' /\ InPlace'
  BY <1>9 DEF FailOp, OpGoes, opRest, recoverVars, Notes, Written, NotWritten,
         SetPhase, InContext, OutOfContext, DbSound, DbBreaks
<1>10. ASSUME NEW o \in OpIds, NoteSafety(o)
      PROVE  DbTypeOK' /\ InPlace'
  <2>1. opSafe' \in [OpIds -> BOOLEAN]
    <3>1. \/ opSafe' = [opSafe EXCEPT ![o] = TRUE]
          \/ opSafe' = opSafe
      BY <1>10 DEF NoteSafety
    <3> QED
      BY <3>1, Zenon
  <2>2. opPhase' = opPhase \/ opPhase' = [opPhase EXCEPT ![o] = "clearing"]
                          \/ opPhase' = [opPhase EXCEPT ![o] = "replacing"]
    BY <1>10 DEF NoteSafety, Written, NotWritten, SetPhase
  <2>3. opStep' \in [OpIds -> OpSteps] /\ opCancelled' \subseteq OpIds /\ opAsked' \subseteq OpIds
    BY <1>10 DEF NoteSafety, OpGoes
  <2>4. dbFaultsLeft' \in 0..DbFaults
    BY <1>10 DEF NoteSafety, Written, NotWritten, InContext, OutOfContext, DbSound, DbBreaks
  <2>5. InPlace'
    BY <1>10 DEF NoteSafety, OpGoes, opRest, recoverVars
  <2> QED
    BY <1>10, <2>1, <2>2, <2>3, <2>4, <2>5 DEF NoteSafety, opRest, recoverVars
<1>11. ASSUME NEW o \in OpIds, Destroy(o)
      PROVE  DbTypeOK' /\ InPlace'
  <2>1. dbContent' \in Contents
    <3>1. opKind[o] \in OpKinds /\ opKind[o] # "backup"
      BY <1>11 DEF Destroy, OpGoes
    <3>2. Left(opKind[o]) \subseteq Contents
      BY <3>1 DEF Left, Replacing, Dropping, Clearing
    <3> QED
      BY <1>11, <3>2 DEF Destroy
  <2>2. opStep' \in [OpIds -> OpSteps] /\ opCancelled' \subseteq OpIds /\ opAsked' \subseteq OpIds
    BY <1>11 DEF Destroy, OpGoes
  <2>3. dbFaultsLeft' \in 0..DbFaults
    BY <1>11 DEF Destroy, InContext, OutOfContext, DbSound, DbBreaks
  <2>4. InPlace'
    BY <1>11 DEF Destroy, OpGoes, opRest, recoverVars
  <2> QED
    BY <1>11, <2>1, <2>2, <2>3, <2>4 DEF Destroy, opRest, recoverVars
<1>12. ASSUME NEW o \in OpIds, NoteImporting(o)
      PROVE  DbTypeOK' /\ InPlace'
  BY <1>12 DEF NoteImporting, OpGoes, opRest, recoverVars, Notes, Written,
         NotWritten, SetPhase, InContext, OutOfContext, DbSound, DbBreaks
<1>13. ASSUME NEW o \in OpIds, ImportBackup(o)
      PROVE  DbTypeOK' /\ InPlace'
  BY <1>13 DEF ImportBackup, OpGoes, opRest, recoverVars, Imported, Importing,
         InContext, OutOfContext, DbSound, DbBreaks
<1>14. ASSUME NEW o \in OpIds, NoteCompleted(o)
      PROVE  DbTypeOK' /\ InPlace'
  BY <1>14 DEF NoteCompleted, OpGoes, opRest, recoverVars, Notes, Written,
         NotWritten, SetPhase, InContext, OutOfContext, DbSound, DbBreaks
<1>15. ASSUME NEW o \in OpIds, DropNew(o)
      PROVE  DbTypeOK' /\ InPlace'
  BY <1>15 DEF DropNew, OpGoes, opRest, recoverVars, Dropping, DbSound,
         DbBreaks
<1>16. ASSUME NEW o \in OpIds, NoteRollingBack(o)
      PROVE  DbTypeOK' /\ InPlace'
  BY <1>16 DEF NoteRollingBack, OpGoes, opRest, recoverVars, SurelySetPhase,
         SetPhase, DbSound, DbBreaks
<1>17. ASSUME NEW o \in OpIds, ReplaceAgain(o)
      PROVE  DbTypeOK' /\ InPlace'
  BY <1>17 DEF ReplaceAgain, OpGoes, opRest, recoverVars, Replacing, DbSound,
         DbBreaks
<1>18. ASSUME NEW o \in OpIds, Reload(o)
      PROVE  DbTypeOK' /\ InPlace'
  BY <1>18 DEF Reload, OpGoes, opRest, recoverVars, Reloads, ReloadFails,
         Imported, Importing, DbSound, DbBreaks
<1>19. ASSUME NEW o \in OpIds, EndUndo(o)
      PROVE  DbTypeOK' /\ InPlace'
  BY <1>19 DEF EndUndo, OpGoes, opRest, recoverVars, SurelySetPhase, SetPhase,
         DbSound, DbBreaks
<1>20. ASSUME NEW o \in OpIds, AskCancel(o)
      PROVE  DbTypeOK' /\ InPlace'
  BY <1>20 DEF AskCancel, recoverVars, Working
<1>21. ASSUME NEW o \in OpIds, CancelOp(o)
      PROVE  DbTypeOK' /\ InPlace'
  BY <1>21 DEF CancelOp, recoverVars
<1>22. ASSUME NEW o \in OpIds, DeleteBackup(o)
      PROVE  DbTypeOK' /\ InPlace'
  <2>1. opBackup[o] \in Contents
    BY <1>22 DEF DeleteBackup
  <2>2. discarded' \subseteq Contents
    BY <1>22, <2>1 DEF DeleteBackup
  <2>3. opBackup' \in [OpIds -> Contents \cup {"none"}]
    BY <1>22 DEF DeleteBackup
  <2>4. dbFaultsLeft' \in 0..DbFaults
    BY <1>22 DEF DeleteBackup, DbBreaks
  <2> QED
    BY <1>22, <2>2, <2>3, <2>4 DEF DeleteBackup, opRest
<1>23. CASE StopOps
  BY <1>23 DEF StopOps, recoverVars, Working, DbBreaks
<1>24. CASE AllDie
  BY <1>24 DEF AllDie, opRest, Die, Working, RecoveryStarts, DbBreaks
<1>25. CASE ServiceDies
  BY <1>25 DEF ServiceDies, opRest, Die, Working, ScheduledOps, DbBreaks
<1>26. CASE BrokerRestarts
  BY <1>26 DEF BrokerRestarts, opRest, Die, ScheduledOps, Working,
         RecoveryStarts, DbBreaks
<1>27. CASE ListInterrupted
  BY <1>27 DEF ListInterrupted, opRest, RecoverGoes
<1>28. CASE ReadInterrupted
  BY <1>28 DEF ReadInterrupted, recoverRest, opRest, SettleRecovered,
         SurelySetPhase, SetPhase, DbSound, DbBreaks
<1>29. CASE RecoverReplace
  BY <1>29 DEF RecoverReplace, recoverRest, opRest, Clearing, Replacing,
         DbSound, DbBreaks
<1>30. CASE RecoverReload
  BY <1>30 DEF RecoverReload, recoverRest, opRest, RecoverGoes, Reloads,
         ReloadFails, Imported, Importing, DbSound, DbBreaks
<1>31. CASE RecoverEnd
  BY <1>31 DEF RecoverEnd, recoverRest, opRest, SettleRecovered,
         SurelySetPhase, SetPhase, DbSound, DbBreaks
<1>32. CASE UNCHANGED dbVars
  BY <1>32 DEF dbVars
<1> QED
  BY <1>1, <1>2, <1>3, <1>4, <1>5, <1>6, <1>7, <1>8, <1>9, <1>10, <1>11, <1>12,
         <1>13, <1>14, <1>15, <1>16, <1>17, <1>18, <1>19, <1>20, <1>21, <1>22,
         <1>23, <1>24, <1>25, <1>26, <1>27, <1>28, <1>29, <1>30, <1>31, <1>32 DEF DbNext

(* What is covered stays covered, and nothing is destroyed before.         *)
LEMMA KeepStep ==
  ASSUME DbTypeOK, InPlace, Kept, [DbNext]_dbVars
  PROVE  Kept'
<1> USE DbAssumption DEF DbTypeOK, InPlace, Kept, Covered, BeforeRecord, Destructive
<1>1. ASSUME NEW o \in OpIds, NEW kind \in OpKinds, BeginOp(o, kind)
      PROVE  Kept'
  BY <1>1 DEF BeginOp, OpGoes, recoverVars, SetPhase, DbSound
<1>2. ASSUME NEW o \in OpIds, NoteVerifying(o)
      PROVE  Kept'
  BY <1>2 DEF NoteVerifying, OpGoes, opRest, recoverVars, NotesOrReturns,
         Written, NotWritten, SetPhase, InContext, OutOfContext, DbSound,
         DbBreaks
<1>3. ASSUME NEW o \in OpIds, LookAtDatabase(o)
      PROVE  Kept'
  BY <1>3 DEF LookAtDatabase, OpGoes, opRest, recoverVars, InContext,
         OutOfContext, DbSound, DbBreaks
<1>4. ASSUME NEW o \in OpIds, NoteDumping(o)
      PROVE  Kept'
  BY <1>4 DEF NoteDumping, OpGoes, opRest, recoverVars, NotesOrReturns,
         Written, NotWritten, SetPhase, InContext, OutOfContext, DbSound,
         DbBreaks
<1>5. ASSUME NEW o \in OpIds, Dump(o)
      PROVE  Kept'
  BY <1>5 DEF Dump, OpGoes, opRest, recoverVars, OutOfContext, DbSound,
         DbBreaks
<1>6. ASSUME NEW o \in OpIds, NoteValidating(o)
      PROVE  Kept'
  BY <1>6 DEF NoteValidating, OpGoes, opRest, recoverVars, Written, NotWritten,
         SetPhase, InContext, OutOfContext, DbSound, DbBreaks
<1>7. ASSUME NEW o \in OpIds, RecordBackup(o)
      PROVE  Kept'
  BY <1>7 DEF RecordBackup, OpGoes, opRest, recoverVars, InContext,
         OutOfContext, DbSound, DbBreaks
<1>8. ASSUME NEW o \in OpIds, NoteCancelled(o)
      PROVE  Kept'
  BY <1>8 DEF NoteCancelled, OpGoes, opRest, recoverVars, SurelySetPhase,
         SetPhase, DbSound, DbBreaks
<1>9. ASSUME NEW o \in OpIds, FailOp(o)
      PROVE  Kept'
  BY <1>9 DEF FailOp, OpGoes, opRest, recoverVars, Notes, Written, NotWritten,
         SetPhase, InContext, OutOfContext, DbSound, DbBreaks
<1>10. ASSUME NEW o \in OpIds, NoteSafety(o)
      PROVE  Kept'
  BY <1>10 DEF NoteSafety, OpGoes, opRest, recoverVars, Written, NotWritten,
         SetPhase, InContext, OutOfContext, DbSound, DbBreaks
<1>11. ASSUME NEW o \in OpIds, Destroy(o)
      PROVE  Kept'
  BY <1>11 DEF Destroy, OpGoes, opRest, recoverVars, Left, Replacing, Dropping,
         Clearing, InContext, OutOfContext, DbSound, DbBreaks
<1>12. ASSUME NEW o \in OpIds, NoteImporting(o)
      PROVE  Kept'
  BY <1>12 DEF NoteImporting, OpGoes, opRest, recoverVars, Notes, Written,
         NotWritten, SetPhase, InContext, OutOfContext, DbSound, DbBreaks
<1>13. ASSUME NEW o \in OpIds, ImportBackup(o)
      PROVE  Kept'
  BY <1>13 DEF ImportBackup, OpGoes, opRest, recoverVars, Imported, Importing,
         InContext, OutOfContext, DbSound, DbBreaks
<1>14. ASSUME NEW o \in OpIds, NoteCompleted(o)
      PROVE  Kept'
  BY <1>14 DEF NoteCompleted, OpGoes, opRest, recoverVars, Notes, Written,
         NotWritten, SetPhase, InContext, OutOfContext, DbSound, DbBreaks
<1>15. ASSUME NEW o \in OpIds, DropNew(o)
      PROVE  Kept'
  BY <1>15 DEF DropNew, OpGoes, opRest, recoverVars, Dropping, DbSound,
         DbBreaks
<1>16. ASSUME NEW o \in OpIds, NoteRollingBack(o)
      PROVE  Kept'
  BY <1>16 DEF NoteRollingBack, OpGoes, opRest, recoverVars, SurelySetPhase,
         SetPhase, DbSound, DbBreaks
<1>17. ASSUME NEW o \in OpIds, ReplaceAgain(o)
      PROVE  Kept'
  BY <1>17 DEF ReplaceAgain, OpGoes, opRest, recoverVars, Replacing, DbSound,
         DbBreaks
<1>18. ASSUME NEW o \in OpIds, Reload(o)
      PROVE  Kept'
  BY <1>18 DEF Reload, OpGoes, opRest, recoverVars, Reloads, ReloadFails,
         Imported, Importing, DbSound, DbBreaks
<1>19. ASSUME NEW o \in OpIds, EndUndo(o)
      PROVE  Kept'
  BY <1>19 DEF EndUndo, OpGoes, opRest, recoverVars, SurelySetPhase, SetPhase,
         DbSound, DbBreaks
<1>20. ASSUME NEW o \in OpIds, AskCancel(o)
      PROVE  Kept'
  BY <1>20 DEF AskCancel, recoverVars, Working
<1>21. ASSUME NEW o \in OpIds, CancelOp(o)
      PROVE  Kept'
  BY <1>21 DEF CancelOp, recoverVars
<1>22. ASSUME NEW o \in OpIds, DeleteBackup(o)
      PROVE  Kept'
  BY <1>22 DEF DeleteBackup, opRest, DbBreaks
<1>23. CASE StopOps
  BY <1>23 DEF StopOps, recoverVars, Working, DbBreaks
<1>24. CASE AllDie
  BY <1>24 DEF AllDie, opRest, Die, Working, RecoveryStarts, DbBreaks
<1>25. CASE ServiceDies
  BY <1>25 DEF ServiceDies, opRest, Die, Working, ScheduledOps, DbBreaks
<1>26. CASE BrokerRestarts
  BY <1>26 DEF BrokerRestarts, opRest, Die, ScheduledOps, Working,
         RecoveryStarts, DbBreaks
<1>27. CASE ListInterrupted
  BY <1>27 DEF ListInterrupted, opRest, RecoverGoes
<1>28. CASE ReadInterrupted
  BY <1>28 DEF ReadInterrupted, recoverRest, opRest, SettleRecovered,
         SurelySetPhase, SetPhase, DbSound, DbBreaks
<1>29. CASE RecoverReplace
  BY <1>29 DEF RecoverReplace, recoverRest, opRest, Clearing, Replacing,
         DbSound, DbBreaks
<1>30. CASE RecoverReload
  BY <1>30 DEF RecoverReload, recoverRest, opRest, RecoverGoes, Reloads,
         ReloadFails, Imported, Importing, DbSound, DbBreaks
<1>31. CASE RecoverEnd
  BY <1>31 DEF RecoverEnd, recoverRest, opRest, SettleRecovered,
         SurelySetPhase, SetPhase, DbSound, DbBreaks
<1>32. CASE UNCHANGED dbVars
  BY <1>32 DEF dbVars
<1> QED
  BY <1>1, <1>2, <1>3, <1>4, <1>5, <1>6, <1>7, <1>8, <1>9, <1>10, <1>11, <1>12,
         <1>13, <1>14, <1>15, <1>16, <1>17, <1>18, <1>19, <1>20, <1>21, <1>22,
         <1>23, <1>24, <1>25, <1>26, <1>27, <1>28, <1>29, <1>30, <1>31, <1>32 DEF DbNext

THEOREM DataInvariant == DbSpec => []DataInv
<1>1. DataInv /\ [DbNext]_dbVars => DataInv'
  BY DbTypeStep, KeepStep DEF DataInv
<1> QED
  BY <1>1, DataInit, PTL DEF DbSpec

(* Rows, steps and contents keep their types.                              *)
THEOREM DbTypeCorrect == DbSpec => []DbTypeOK
<1>1. DataInv => DbTypeOK
  BY DEF DataInv
<1> QED
  BY <1>1, DataInvariant, PTL

(* Whatever fails, dies or is cancelled when, also while the recovery and  *)
(* the operation it recovers are both at work: the data of the beginning   *)
(* is in the database, or in a backup nobody has deleted.                  *)
THEOREM NeverLost == DbSpec => []NothingLost
<1>1. DataInv => NothingLost
  BY DEF DataInv, Kept, Covered, NothingLost
<1> QED
  BY <1>1, DataInvariant, PTL

----------------------------------------------------------------------------
(* What the phases say of the database.  As long as the recovery takes up  *)
(* no operation that is at work, one goroutine or the recovery is at work  *)
(* on the latest operation, and nothing but it touches the database.       *)

(* Operations begin in the order of their numbers, and what an operation   *)
(* has not begun has left nothing.                                         *)
Numbered ==
  \A o \in OpIds :
    /\ \A q \in OpIds : q < o /\ opPhase[o] # "none" => opPhase[q] # "none"
    /\ opPhase[o] = "none" => opBackup[o] = "none" /\ ~opSafe[o]

Latest(o) == opPhase[o] # "none" /\ \A q \in OpIds : q > o => opPhase[q] = "none"

(* Who works has the active row, which is the latest; the recovery has it  *)
(* from an operation nobody works on.                                      *)
OneActive ==
  /\ \A o \in OpIds : (Working(o) => ActiveRow(o)) /\ (ActiveRow(o) => Latest(o))
  /\ recovered # 0 => ActiveRow(recovered) /\ ~Working(recovered)

(* The data of the beginning is in the backup, or somebody deleted it; an  *)
(* operation in progress has left it where it was or preserved it.         *)
Preserved(o) == opBefore \in {opBackup[o]} \cup discarded
Promised(o) == dbContent = opBefore \/ opBefore = "absent" \/ Preserved(o)

Backed(o) ==
  /\ opBackup[o] \in {"none", opBefore}
  /\ opSafe[o] => Preserved(o)

(* What the goroutine of an operation can rely on before its next step.    *)
Untouching == {"begun", "verify", "backup", "dump", "dumped", "record", "guard", "cancelling"}

Done(kind) ==
  CASE kind = "restore" -> "dump" [] kind = "drop" -> "absent"
    [] kind = "clear" -> "empty" [] kind = "backup" -> opBefore

AtStep(o) ==
  /\ opStep[o] \in Untouching \cup {"undone"} => dbContent = opBefore
  /\ opStep[o] \in {"dumped", "record"} => opFile[o] = opBefore
  /\ opStep[o] = "guard" => Preserved(o)
  /\ opStep[o] \in {"guard", "destroy"} => opKind[o] # "backup"
  /\ opStep[o] \in {"destroy", "replaced", "import", "undo"} => opSafe[o] \/ opBefore = "absent"
  /\ opStep[o] \in {"begun", "verify", "replaced", "import", "undo", "again", "reload"} =>
       opKind[o] = "restore"
  /\ opStep[o] \in {"again", "reload"} => opSafe[o]
  /\ opStep[o] \in {"replaced", "import", "reload"} => dbContent = "empty"
  /\ opStep[o] = "finish" => dbContent = Done(opKind[o])

OutcomeOf(o) ==
  /\ opPhase[o] = "completed" => dbContent = Done(opKind[o])
  /\ opPhase[o] \in {"cancelled", "rolled_back"} => dbContent = opBefore
  /\ opPhase[o] = "failed" => Promised(o)

Facts(o) ==
  /\ Working(o) => ActiveRow(o)
  /\ Backed(o) /\ AtStep(o) /\ OutcomeOf(o)
  /\ ActiveRow(o) => Promised(o)

(* What the recovery can rely on. *)
Recovering ==
  /\ recoverStep \in {"read", "replace", "reload", "undone", "gaveup"} => recovered # 0
  /\ recoverStep \in {"replace", "reload", "undone", "gaveup"} => opSafe[recovered]
  /\ recoverStep = "reload" => dbContent = "empty"
  /\ recoverStep = "undone" => dbContent = opBefore

LatestSound == \A o \in OpIds : Latest(o) => Facts(o)

HonestInv == ~contested => Numbered /\ OneActive /\ LatestSound /\ Recovering

(* A step of the goroutine of an operation leaves everything else alone.   *)
ActsAlone(o) ==
  /\ UNCHANGED <<opKind, opBefore, recoverVars>>
  /\ opPhase'[o] # "none"
  /\ \A q \in OpIds \ {o} :
       /\ opStep'[q] = opStep[q] /\ opPhase'[q] = opPhase[q]
       /\ opBackup'[q] = opBackup[q] /\ opSafe'[q] = opSafe[q]

(* Such a step keeps the invariant, if the operation's facts stay true.   *)
LEMMA OperationKeeps ==
  ASSUME DbTypeOK, NEW o \in OpIds, Working(o), ~contested, HonestInv, ActsAlone(o), Facts(o)'
  PROVE  HonestInv'
<1> USE DEF HonestInv, OpIds
<1>1. ActiveRow(o) /\ Latest(o) /\ recovered = 0
  BY DEF OneActive, DbTypeOK, Latest
<1>2. \A q \in OpIds \ {o} : ~Latest(q) /\ ~Working(q) /\ ~ActiveRow(q)
  BY <1>1, DbAssumption DEF OneActive, Latest
<1>3. \A q \in OpIds \ {o} : ~Latest(q)' /\ ~Working(q)' /\ ~ActiveRow(q)'
  BY <1>1, <1>2, DbAssumption DEF ActsAlone, Latest, Working, ActiveRow
<1>4. Latest(o)'
  BY <1>1, DbAssumption DEF ActsAlone, Latest
<1>5. Numbered'
  BY <1>1, DbAssumption DEF ActsAlone, Numbered, Latest
<1>6. OneActive'
  BY <1>1, <1>3, <1>4 DEF ActsAlone, OneActive, Facts, recoverVars
<1>7. LatestSound'
  BY <1>3 DEF LatestSound
<1>8. Recovering'
  BY <1>1 DEF ActsAlone, Recovering, recoverVars
<1> QED BY <1>5, <1>6, <1>7, <1>8

(* The steps of a goroutine. *)
LEMMA OperationSteps ==
  ASSUME DbTypeOK, NEW o \in OpIds, ActiveRow(o), Facts(o)
  PROVE  /\ NoteVerifying(o) => ActsAlone(o) /\ Facts(o)'
         /\ LookAtDatabase(o) => ActsAlone(o) /\ Facts(o)'
         /\ NoteDumping(o) => ActsAlone(o) /\ Facts(o)'
         /\ Dump(o) => ActsAlone(o) /\ Facts(o)'
         /\ NoteValidating(o) => ActsAlone(o) /\ Facts(o)'
         /\ RecordBackup(o) => ActsAlone(o) /\ Facts(o)'
         /\ NoteCancelled(o) => ActsAlone(o) /\ Facts(o)'
         /\ FailOp(o) => ActsAlone(o) /\ Facts(o)'
         /\ NoteSafety(o) => ActsAlone(o) /\ Facts(o)'
         /\ Destroy(o) => ActsAlone(o) /\ Facts(o)'
         /\ NoteImporting(o) => ActsAlone(o) /\ Facts(o)'
         /\ ImportBackup(o) => ActsAlone(o) /\ Facts(o)'
         /\ NoteCompleted(o) => ActsAlone(o) /\ Facts(o)'
         /\ DropNew(o) => ActsAlone(o) /\ Facts(o)'
         /\ NoteRollingBack(o) => ActsAlone(o) /\ Facts(o)'
         /\ ReplaceAgain(o) => ActsAlone(o) /\ Facts(o)'
         /\ Reload(o) => ActsAlone(o) /\ Facts(o)'
         /\ EndUndo(o) => ActsAlone(o) /\ Facts(o)'
<1> USE DEF DbTypeOK, ActsAlone, Facts, Backed, AtStep, OutcomeOf, Promised, Preserved, Done,
        Untouching, Working, ActiveRow, OpGoes, opRest, recoverVars, Contents, OpKinds,
        EarlyPhases, DestructivePhases, Terminal
<1>1. NoteVerifying(o) => ActsAlone(o) /\ Facts(o)'
  BY DEF NoteVerifying, NotesOrReturns, Written, NotWritten, SetPhase
<1>2. LookAtDatabase(o) => ActsAlone(o) /\ Facts(o)'
  BY DEF LookAtDatabase
<1>3. NoteDumping(o) => ActsAlone(o) /\ Facts(o)'
  BY DEF NoteDumping, NotesOrReturns, Written, NotWritten, SetPhase
<1>4. Dump(o) => ActsAlone(o) /\ Facts(o)'
  BY DEF Dump
<1>5. NoteValidating(o) => ActsAlone(o) /\ Facts(o)'
  BY DEF NoteValidating, Written, NotWritten, SetPhase
<1>6. RecordBackup(o) => ActsAlone(o) /\ Facts(o)'
  BY DEF RecordBackup
<1>7. NoteCancelled(o) => ActsAlone(o) /\ Facts(o)'
  BY DEF NoteCancelled, SurelySetPhase, SetPhase
<1>8. FailOp(o) => ActsAlone(o) /\ Facts(o)'
  BY DEF FailOp, Notes, Written, NotWritten, SetPhase
<1>9. NoteSafety(o) => ActsAlone(o) /\ Facts(o)'
  BY DEF NoteSafety, Written, NotWritten, SetPhase
<1>10. Destroy(o) => ActsAlone(o) /\ Facts(o)'
  BY DEF Destroy, Left, Replacing, Dropping, Clearing
<1>11. NoteImporting(o) => ActsAlone(o) /\ Facts(o)'
  BY DEF NoteImporting, Notes, Written, NotWritten, SetPhase
<1>12. ImportBackup(o) => ActsAlone(o) /\ Facts(o)'
  BY DEF ImportBackup, Imported, Importing
<1>13. NoteCompleted(o) => ActsAlone(o) /\ Facts(o)'
  BY DEF NoteCompleted, Notes, Written, NotWritten, SetPhase
<1>14. DropNew(o) => ActsAlone(o) /\ Facts(o)'
  BY DEF DropNew, Dropping
<1>15. NoteRollingBack(o) => ActsAlone(o) /\ Facts(o)'
  BY DEF NoteRollingBack, SurelySetPhase, SetPhase
<1>16. ReplaceAgain(o) => ActsAlone(o) /\ Facts(o)'
  BY DEF ReplaceAgain, Replacing
<1>17. Reload(o) => ActsAlone(o) /\ Facts(o)'
  BY DEF Reload, Reloads, ReloadFails, Imported, Importing
<1>18. EndUndo(o) => ActsAlone(o) /\ Facts(o)'
  BY DEF EndUndo, SurelySetPhase, SetPhase
<1> QED
  BY <1>1, <1>2, <1>3, <1>4, <1>5, <1>6, <1>7, <1>8, <1>9, <1>10, <1>11, <1>12, <1>13, <1>14, <1>15, <1>16, <1>17, <1>18

(* The beginning of an operation: no other is in progress.                 *)
LEMMA BeginKeeps ==
  ASSUME DbTypeOK, NEW o \in OpIds, NEW kind \in OpKinds, BeginOp(o, kind),
         ~contested, HonestInv
  PROVE  HonestInv'
<1> USE DEF HonestInv, OpIds, BeginOp, OpGoes, SetPhase, recoverVars
<1>1. /\ opPhase[o] = "none" /\ opStep[o] = "none"
      /\ \A q \in OpIds : (opPhase[q] = "none") <=> (q >= o)
      /\ \A q \in OpIds : ~ActiveRow(q) /\ ~Working(q)
      /\ recovered = 0
  BY DbAssumption DEF OneActive, DbTypeOK
<1>2. /\ opPhase' = [opPhase EXCEPT ![o] = "preflight"]
      /\ opStep' = [opStep EXCEPT ![o] = IF kind = "restore" THEN "begun" ELSE "backup"]
      /\ opKind' = [opKind EXCEPT ![o] = kind] /\ opBefore' = dbContent
      /\ UNCHANGED <<dbContent, opSafe, opBackup, recovered, recoverStep, contested>>
  OBVIOUS
<1> HIDE DEF BeginOp
<1>3. \A q \in OpIds \ {o} : ~ActiveRow(q)' /\ ~Working(q)'
  BY <1>1, <1>2 DEF ActiveRow, Working
<1>4. ActiveRow(o)' /\ \A q \in OpIds : Latest(q)' => q = o
  BY <1>1, <1>2, DbAssumption DEF ActiveRow, EarlyPhases, Latest, DbTypeOK
<1>5. Latest(o)'
  BY <1>1, <1>2, DbAssumption DEF Latest, DbTypeOK
<1>6. Numbered'
  BY <1>1, <1>2, DbAssumption DEF Numbered, DbTypeOK
<1>7. Facts(o)'
  BY <1>1, <1>2, <1>4 DEF Facts, Backed, AtStep, OutcomeOf, Promised, Untouching, Numbered, DbTypeOK
<1>8. OneActive' /\ LatestSound'
  BY <1>1, <1>2, <1>3, <1>4, <1>5, <1>7 DEF OneActive, LatestSound
<1>9. Recovering'
  BY <1>1, <1>2 DEF Recovering
<1> QED BY <1>6, <1>8, <1>9

(* Steps that leave the rows and the database alone, and may end some      *)
(* goroutines and begin the recovery anew.                                 *)
LEMMA EndsKeep ==
  ASSUME DbTypeOK, ~contested, HonestInv,
         UNCHANGED <<dbContent, opKind, opPhase, opSafe, opBackup, opBefore, contested, discarded>>,
         \A o \in OpIds : \/ opStep'[o] = opStep[o] /\ opFile'[o] = opFile[o]
                          \/ opStep'[o] = "over",
         UNCHANGED <<recovered, recoverStep>> \/ RecoveryStarts
  PROVE  HonestInv'
<1> USE DEF HonestInv
<1>1. Numbered'
  BY DEF Numbered
<1>2. \A o \in OpIds : /\ Latest(o)' <=> Latest(o)
                       /\ ActiveRow(o)' <=> ActiveRow(o)
                       /\ Working(o)' => Working(o)
  BY DEF Latest, ActiveRow, Working
<1>3. OneActive'
  BY <1>2 DEF OneActive, RecoveryStarts, DbTypeOK
<1>4. LatestSound'
  <2>1. ASSUME NEW o \in OpIds, Facts(o) PROVE Facts(o)'
    <3>1. Backed(o)' /\ OutcomeOf(o)' /\ (ActiveRow(o)' => Promised(o)')
      BY <1>2, <2>1 DEF Facts, Backed, OutcomeOf, Promised, Preserved, Done
    <3>2. AtStep(o)'
      BY <2>1 DEF Facts, AtStep, Preserved, Done, Untouching
    <3> QED BY <1>2, <2>1, <3>1, <3>2 DEF Facts
  <2> QED BY <1>2, <2>1 DEF LatestSound
<1>5. Recovering'
  BY DEF Recovering, RecoveryStarts
<1> QED BY <1>1, <1>3, <1>4, <1>5

(* A deleted backup is remembered. *)
LEMMA DeletionKeeps ==
  ASSUME DbTypeOK, NEW p \in OpIds, DeleteBackup(p), ~contested, HonestInv
  PROVE  HonestInv'
<1> USE DEF HonestInv, DeleteBackup, opRest
<1>1. Numbered'
  BY DEF Numbered, DbTypeOK
<1>2. \A o \in OpIds : /\ Latest(o)' <=> Latest(o)
                       /\ ActiveRow(o)' <=> ActiveRow(o)
                       /\ Working(o)' <=> Working(o)
  BY DEF Latest, ActiveRow, Working
<1>3. OneActive' /\ Recovering'
  BY <1>2 DEF OneActive, Recovering, DbTypeOK
<1>4. LatestSound'
  <2>1. ASSUME NEW o \in OpIds, Facts(o) PROVE Facts(o)'
    <3>1. Preserved(o) => Preserved(o)'
      BY DEF Preserved, DbTypeOK
    <3>2. Promised(o) => Promised(o)'
      BY <3>1 DEF Promised
    <3>3. Backed(o)'
      <4>1. opBackup'[o] \in {"none", opBackup[o]}
        BY DEF DbTypeOK
      <4> QED BY <2>1, <3>1, <4>1 DEF Facts, Backed
    <3>4. AtStep(o)' /\ OutcomeOf(o)'
      BY <2>1, <3>1, <3>2 DEF Facts, AtStep, OutcomeOf, Done
    <3> QED BY <1>2, <2>1, <3>2, <3>3, <3>4 DEF Facts
  <2> QED BY <1>2, <2>1 DEF LatestSound
<1> QED BY <1>1, <1>3, <1>4

(* The recovery takes up an operation. *)
LEMMA ListKeeps ==
  ASSUME DbTypeOK, ListInterrupted, ~contested, ~contested', HonestInv
  PROVE  HonestInv'
<1> USE DEF HonestInv, ListInterrupted, RecoverGoes, opRest
<1>1. Numbered'
  BY DEF Numbered
<1>2. \A o \in OpIds : /\ Latest(o)' <=> Latest(o)
                       /\ ActiveRow(o)' <=> ActiveRow(o)
                       /\ Working(o)' <=> Working(o)
  BY DEF Latest, ActiveRow, Working
<1>3. OneActive'
  BY <1>2 DEF OneActive, OpIds, DbTypeOK
<1>4. LatestSound'
  BY <1>2 DEF LatestSound, Facts, Backed, AtStep, OutcomeOf, Promised, Preserved, Done
<1>5. Recovering'
  BY DbAssumption DEF Recovering, OpIds
<1> QED BY <1>1, <1>3, <1>4, <1>5

(* The steps of the recovery change nothing but the row of the operation   *)
(* they have taken up, and the database.                                   *)
RecoversAlone(o) ==
  /\ UNCHANGED recoverRest
  /\ opPhase'[o] # "none"
  /\ \A q \in OpIds \ {o} : opPhase'[q] = opPhase[q]
  /\ recovered' \in {0, o}
  /\ recovered' # 0 => ActiveRow(o)'
  /\ Recovering' /\ Facts(o)'

(* Such a step keeps the invariant, and the recovery takes no others.     *)
LEMMA RecoveryKeeps ==
  ASSUME DbTypeOK, NEW o \in OpIds, o = recovered, ~contested, HonestInv, RecoversAlone(o)
  PROVE  HonestInv'
<1> USE DEF HonestInv, OpIds, RecoversAlone, recoverRest, opRest
<1>1. ActiveRow(o) /\ Latest(o) /\ ~Working(o)
  BY DEF OneActive
<1>2. \A q \in OpIds \ {o} : ~Latest(q) /\ ~Working(q) /\ ~ActiveRow(q)
  BY <1>1, DbAssumption DEF OneActive, Latest
<1>3. /\ \A q \in OpIds \ {o} : ~Latest(q)' /\ ~ActiveRow(q)'
      /\ \A q \in OpIds : ~Working(q)'
  BY <1>1, <1>2, DbAssumption DEF Latest, Working, ActiveRow
<1>4. Latest(o)'
  BY <1>1, DbAssumption DEF Latest
<1>5. Numbered'
  BY <1>1, DbAssumption DEF Numbered, Latest
<1>6. OneActive'
  <2>1. \A q \in OpIds : (Working(q)' => ActiveRow(q)') /\ (ActiveRow(q)' => Latest(q)')
    BY <1>1, <1>3, <1>4 DEF OneActive, Latest
  <2> QED BY <2>1, <1>1, <1>3 DEF OneActive
<1>7. LatestSound'
  BY <1>3 DEF LatestSound
<1> QED BY <1>5, <1>6, <1>7

(* The recovery knows what it needs: that a safety backup is true.         *)
LEMMA RecoverySteps ==
  ASSUME DbTypeOK, NEW o \in OpIds, o = recovered, ActiveRow(o), ~Working(o), Facts(o),
         Recovering, ReadInterrupted \/ RecoverReplace \/ RecoverReload \/ RecoverEnd
  PROVE  RecoversAlone(o)
<1> USE DEF RecoverGoes, SettleRecovered, SurelySetPhase, SetPhase, recoverRest, opRest
<1> USE DEF DbTypeOK, RecoversAlone, Recovering, Facts, Backed, OutcomeOf, Promised,
        Preserved, ActiveRow, EarlyPhases, DestructivePhases, Terminal, Contents, OpIds
<1>2. AtStep(o)' /\ ~Working(o)'
  BY DEF AtStep, Working, Untouching, ReadInterrupted, RecoverReplace, RecoverReload, RecoverEnd
<1>3. CASE ReadInterrupted
  BY <1>2, <1>3 DEF ReadInterrupted
<1>4. CASE RecoverReplace
  BY <1>2, <1>4 DEF RecoverReplace, Clearing, Replacing
<1>5. CASE RecoverReload
  BY <1>2, <1>5 DEF RecoverReload, Reloads, ReloadFails, Imported, Importing
<1>6. CASE RecoverEnd
  BY <1>2, <1>6 DEF RecoverEnd
<1> QED BY <1>3, <1>4, <1>5, <1>6

(* A recovery that has met an operation at work is not forgotten.          *)
LEMMA OnceContested == [DbNext]_dbVars /\ contested => contested'
  BY DEF DbNext, dbVars, BeginOp, NoteVerifying, LookAtDatabase, NoteDumping, Dump,
     NoteValidating, RecordBackup, NoteCancelled, FailOp, NoteSafety, Destroy, NoteImporting,
     ImportBackup, NoteCompleted, DropNew, NoteRollingBack, ReplaceAgain, Reload, EndUndo,
     AskCancel, CancelOp, DeleteBackup, StopOps, AllDie, ServiceDies, BrokerRestarts, Die,
     NotesOrReturns, Notes, ListInterrupted, ReadInterrupted, RecoverReplace, RecoverReload,
     RecoverEnd, recoverVars, recoverRest

(* What the goroutine of an operation does. *)
OperationStep(o) ==
  \/ NoteVerifying(o) \/ LookAtDatabase(o)
  \/ NoteDumping(o) \/ Dump(o) \/ NoteValidating(o) \/ RecordBackup(o)
  \/ NoteCancelled(o) \/ FailOp(o)
  \/ NoteSafety(o) \/ Destroy(o) \/ NoteImporting(o) \/ ImportBackup(o)
  \/ NoteCompleted(o) \/ DropNew(o) \/ NoteRollingBack(o) \/ ReplaceAgain(o)
  \/ Reload(o) \/ EndUndo(o)

LEMMA StepsWork ==
  ASSUME NEW o \in OpIds, OperationStep(o)
  PROVE  Working(o)
BY DEF OperationStep, NoteVerifying, LookAtDatabase, NoteDumping, Dump, NoteValidating,
   RecordBackup, NoteCancelled, FailOp, NoteSafety, Destroy, NoteImporting, ImportBackup,
   NoteCompleted, DropNew, NoteRollingBack, ReplaceAgain, Reload, EndUndo, NotesOrReturns,
   Notes, OpGoes, Working

(* Every step keeps the invariant. *)
LEMMA HonestStep ==
  ASSUME DbTypeOK, HonestInv, [DbNext]_dbVars
  PROVE  HonestInv'
<1> SUFFICES ASSUME ~contested, ~contested' PROVE HonestInv'
  BY OnceContested DEF HonestInv
<1>1. ASSUME NEW o \in OpIds, NEW kind \in OpKinds, BeginOp(o, kind) PROVE HonestInv'
  BY <1>1, BeginKeeps
<1>2. ASSUME NEW o \in OpIds, OperationStep(o) PROVE HonestInv'
  <2>1. Working(o)
    BY <1>2, StepsWork
  <2>2. ActiveRow(o) /\ Facts(o)
    BY <2>1 DEF HonestInv, OneActive, LatestSound
  <2> QED BY <1>2, <2>1, <2>2, OperationSteps, OperationKeeps DEF OperationStep
<1>3. ASSUME NEW o \in OpIds, AskCancel(o) \/ CancelOp(o) PROVE HonestInv'
  BY <1>3, EndsKeep DEF AskCancel, CancelOp, recoverVars
<1>4. ASSUME NEW o \in OpIds, DeleteBackup(o) PROVE HonestInv'
  BY <1>4, DeletionKeeps
<1>5. CASE StopOps
  BY <1>5, EndsKeep DEF StopOps, recoverVars
<1>6. ASSUME NEW dead \in SUBSET OpIds, Die(dead),
             UNCHANGED <<recovered, recoverStep>> \/ RecoveryStarts
      PROVE  HonestInv'
  BY <1>6, EndsKeep DEF Die, opRest
<1>7. CASE AllDie \/ ServiceDies \/ BrokerRestarts
  BY <1>6, <1>7 DEF AllDie, ServiceDies, BrokerRestarts, ScheduledOps
<1>8. CASE ListInterrupted
  BY <1>8, ListKeeps
<1>9. CASE ReadInterrupted \/ RecoverReplace \/ RecoverReload \/ RecoverEnd
  <2>1. recovered # 0
    BY <1>9 DEF HonestInv, Recovering, ReadInterrupted, RecoverReplace, RecoverReload,
       RecoverEnd, RecoverGoes
  <2>2. PICK o \in OpIds : o = recovered
    BY <2>1 DEF DbTypeOK
  <2>3. ActiveRow(o) /\ ~Working(o) /\ Facts(o)
    BY <2>1, <2>2 DEF HonestInv, OneActive, LatestSound
  <2> QED BY <1>9, <2>2, <2>3, RecoverySteps, RecoveryKeeps DEF HonestInv
<1>10. CASE UNCHANGED dbVars
  BY <1>10, EndsKeep DEF dbVars
<1> QED BY <1>1, <1>2, <1>3, <1>4, <1>5, <1>7, <1>8, <1>9, <1>10 DEF DbNext, OperationStep

LEMMA HonestBegins == DbInit => HonestInv
  BY DbAssumption DEF DbInit, HonestInv, Numbered, OneActive, LatestSound, Recovering, Latest,
     Working, ActiveRow, EarlyPhases, DestructivePhases

(* The phase an operation ends in says what became of the database, as     *)
(* long as the recovery has taken up no operation that was still at work.  *)
THEOREM OutcomesHonest == DbSpec => []HonestOutcome
<1>1. DbTypeOK /\ HonestInv => HonestOutcome
  BY DEF HonestInv, LatestSound, Latest, Facts, OutcomeOf, Promised, Preserved, Done,
     HonestOutcome, DbTypeOK, OpKinds, Terminal, EarlyPhases, DestructivePhases
<1> QED BY <1>1, HonestBegins, HonestStep, DbTypeCorrect, PTL DEF DbSpec

(* What an operation has ended with is its end: under the same condition,  *)
(* no goroutine, cancel, restart or recovery writes a phase over it.       *)
THEOREM EndsStay ==
  DbSpec => [][\A o \in OpIds : (opPhase[o] \in Terminal) /\ ~contested'
                                 => opPhase'[o] = opPhase[o]]_dbVars
<1>1. ASSUME DbTypeOK, HonestInv, [DbNext]_dbVars, ~contested', NEW o \in OpIds,
             opPhase[o] \in Terminal
      PROVE  opPhase'[o] = opPhase[o]
  <2>0. ~contested
    BY <1>1, OnceContested
  <2>1. OneActive /\ LatestSound /\ Recovering
    BY <1>1, <2>0 DEF HonestInv
  <2>2. ~ActiveRow(o) /\ opPhase[o] # "none"
    BY <1>1 DEF ActiveRow, EarlyPhases, DestructivePhases, Terminal
  <2>3. ASSUME NEW p \in OpIds, NEW kind \in OpKinds, BeginOp(p, kind)
        PROVE  opPhase'[o] = opPhase[o]
    <3>1. opPhase[p] = "none" /\ opPhase' = [opPhase EXCEPT ![p] = "preflight"]
      BY <2>3 DEF BeginOp, SetPhase, OpIds
    <3> QED BY <1>1, <2>2, <3>1 DEF DbTypeOK
  <2>4. ASSUME NEW p \in OpIds, OperationStep(p)
        PROVE  opPhase'[o] = opPhase[o]
    <3>1. Working(p)
      BY <2>4, StepsWork
    <3>2. ActiveRow(p) /\ Facts(p)
      BY <2>1, <3>1 DEF OneActive, LatestSound
    <3>3. ActsAlone(p)
      BY <1>1, <2>4, <3>2, OperationSteps DEF OperationStep
    <3> QED BY <2>2, <3>2, <3>3 DEF ActsAlone
  <2>5. CASE ReadInterrupted \/ RecoverReplace \/ RecoverReload \/ RecoverEnd
    <3>1. recovered # 0
      BY <2>1, <2>5 DEF Recovering, ReadInterrupted, RecoverReplace, RecoverReload, RecoverEnd,
         RecoverGoes
    <3>2. PICK p \in OpIds : p = recovered
      BY <1>1, <3>1 DEF DbTypeOK
    <3>3. ActiveRow(p) /\ ~Working(p) /\ Facts(p)
      BY <2>1, <3>1, <3>2 DEF OneActive, LatestSound
    <3>4. RecoversAlone(p)
      BY <1>1, <2>1, <2>5, <3>2, <3>3, RecoverySteps
    <3> QED BY <2>2, <3>3, <3>4 DEF RecoversAlone
  <2>6. CASE \/ \E p \in OpIds : AskCancel(p) \/ CancelOp(p) \/ DeleteBackup(p)
             \/ StopOps \/ AllDie \/ ServiceDies \/ BrokerRestarts \/ ListInterrupted
             \/ UNCHANGED dbVars
    BY <2>6 DEF AskCancel, CancelOp, DeleteBackup, StopOps, AllDie, ServiceDies,
       BrokerRestarts, Die, ListInterrupted, dbVars
  <2> QED BY <1>1, <2>3, <2>4, <2>5, <2>6 DEF DbNext, OperationStep
<1>2. DbTypeOK /\ HonestInv /\ [DbNext]_dbVars =>
        [\A o \in OpIds : (opPhase[o] \in Terminal) /\ ~contested'
                         => opPhase'[o] = opPhase[o]]_dbVars
  BY <1>1
<1> QED BY <1>2, HonestBegins, HonestStep, DbTypeCorrect, PTL DEF DbSpec
=============================================================================
