------------------------------- MODULE MCCore -------------------------------
(***************************************************************************)
(* The components that keep a protocol with themselves, over one database, *)
(* across crashes, retries and callers in any order.  They do not share    *)
(* state, so one of them moves in a behaviour, and the others stand still. *)
(***************************************************************************)
EXTENDS WorkflowQueue, WorkflowCompile, CommandLedger, ExternalRequests,
        RunnerHost, CrossMove, AuditChain, DatabaseOperations, StateRestore, TLC

CONSTANTS a, b, c1, c2, c3, h1, h2, h3, k1, k2, k3, direct, asked, upload

VARIABLE part

MCLabels == {a, b}
MCLockSets == {{a}, {b}, {a, b}}
MCCalls == {c1, c2, c3}
MCConnections == {h1, h2, h3}
MCKeys == {k1, k2, k3}

(* The labels are interchangeable: their permutations preserve MCLockSets. *)
MCSymmetry == Permutations(MCLabels)

(* So are connections and keys: all asking for one run, two, or three.     *)
MCAskedFor ==
  {[h \in MCConnections |-> k1],
   [h \in MCConnections |-> IF h = h3 THEN k2 ELSE k1],
   [h \in MCConnections |-> CASE h = h1 -> k1 [] h = h2 -> k2 [] h = h3 -> k3]}

Parts == {"queue", "compile", "ledger", "external", "host", "move", "audit",
          "database", "restore"}

CoreInit ==
  /\ part \in Parts
  /\ edges \in IF part = "compile" THEN SUBSET (Ids \X Ids) ELSE {{}}
  /\ hostKey \in IF part = "host" THEN MCAskedFor ELSE {[h \in MCConnections |-> k1]}
  /\ restoreHost \in IF part = "restore" THEN BOOLEAN ELSE {TRUE}
  /\ restoreNew \in IF part = "restore" THEN SUBSET Names ELSE {{Database}}
  /\ QueueInit /\ CompileInit /\ LedgerInit /\ ExtInit /\ HostInit /\ MoveInit /\ AuditInit /\ DbInit
  /\ RestoreInit

(* A bound: one operation on a database meets DbFaults faults; from the    *)
(* second one on there is one.                                             *)
SecondAfterOne == opPhase'[2] # "none" => dbFaultsLeft' + 1 >= DbFaults

(* The component that moves. *)
Moves(name) == part = name /\ UNCHANGED part

CoreNext ==
  \/ /\ Moves("queue") /\ QueueNext
     /\ UNCHANGED <<compileVars, ledgerVars, extVars, hostVars, moveVars, auditVars, dbVars, restoreVars>>
  \/ /\ Moves("compile") /\ CompileNext
     /\ UNCHANGED <<queueVars, ledgerVars, extVars, hostVars, moveVars, auditVars, dbVars, restoreVars>>
  \/ /\ Moves("ledger") /\ LedgerNext
     /\ UNCHANGED <<queueVars, compileVars, extVars, hostVars, moveVars, auditVars, dbVars, restoreVars>>
  \/ /\ Moves("external") /\ ExtNext
     /\ UNCHANGED <<queueVars, compileVars, ledgerVars, hostVars, moveVars, auditVars, dbVars, restoreVars>>
  \/ /\ Moves("host") /\ HostNext
     /\ UNCHANGED <<queueVars, compileVars, ledgerVars, extVars, moveVars, auditVars, dbVars, restoreVars>>
  \/ /\ Moves("move") /\ MoveNext
     /\ UNCHANGED <<queueVars, compileVars, ledgerVars, extVars, hostVars, auditVars, dbVars, restoreVars>>
  \/ /\ Moves("audit") /\ AuditNext
     /\ UNCHANGED <<queueVars, compileVars, ledgerVars, extVars, hostVars, moveVars, dbVars, restoreVars>>
  \/ /\ Moves("database") /\ DbNext /\ SecondAfterOne
     /\ UNCHANGED <<queueVars, compileVars, ledgerVars, extVars, hostVars, moveVars, auditVars, restoreVars>>
  \/ /\ Moves("restore") /\ RestoreNext
     /\ UNCHANGED <<queueVars, compileVars, ledgerVars, extVars, hostVars, moveVars, auditVars, dbVars>>

CoreSpec ==
  CoreInit /\ [][CoreNext]_<<part, queueVars, compileVars, ledgerVars, extVars,
                             hostVars, moveVars, auditVars, dbVars, restoreVars>>

(* Every value of every component is one its code can hold. *)
CoreTypeOK ==
  /\ RunTypeOK /\ CompileTypeOK /\ LedgerTypeOK /\ ExtTypeOK
  /\ HostTypeOK /\ MoveTypeOK /\ AuditTypeOK /\ DbTypeOK /\ RestoreTypeOK
=============================================================================
