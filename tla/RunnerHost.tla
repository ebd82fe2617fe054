----------------------------- MODULE RunnerHost -----------------------------
(***************************************************************************)
(* The Runner Host (internal/runnerhost/host.go) launches the processes of *)
(* the script runner's account for the service.  A connection carries one  *)
(* launch; the host keeps a table of the runs it has running, which limits *)
(* their number and refuses a run it already has.                          *)
(***************************************************************************)
EXTENDS Naturals, FiniteSets

CONSTANTS
  Connections,
  Keys,        \* the run identifiers that are asked for
  Maximum,     \* the size of the table
  Free,        \* a key that is not in the table
  Launching    \* the nil a key has in the table until its launch returns

ASSUME HostAssumption ==
  /\ Maximum \in Nat \ {0}
  /\ Free \notin Connections /\ Launching \notin Connections /\ Free # Launching

VARIABLES
  hostServing,  \* where the goroutine of a connection is
  hostKey,      \* the key in its envelope
  hostTable,    \* server.active; a process is named by its connection
  hostProcess,  \* the process of a connection
  hostPeer,     \* whether the other end is still there
  hostClosing   \* Close: not called, called, waiting, returned nil, or timed out

hostVars == <<hostServing, hostKey, hostTable, hostProcess, hostPeer, hostClosing>>

HostTypeOK ==
  /\ hostServing \in [Connections -> {"new", "accepted", "reading", "launching",
       "storing", "answering", "streaming", "waiting", "leaving", "ended"}]
  /\ hostKey \in [Connections -> Keys]
  /\ hostTable \in [Keys -> Connections \cup {Free, Launching}]
  /\ hostProcess \in [Connections -> {"none", "alive", "killed", "dead"}]
  /\ hostPeer \in [Connections -> BOOLEAN]
  /\ hostClosing \in {"open", "closed", "waiting", "returned", "expired"}

HostInit ==
  /\ hostServing = [c \in Connections |-> "new"]
  /\ hostKey \in [Connections -> Keys]
  /\ hostTable = [k \in Keys |-> Free]
  /\ hostProcess = [c \in Connections |-> "none"]
  /\ hostPeer = [c \in Connections |-> TRUE]
  /\ hostClosing = "open"

Serves(c, from, to) ==
  /\ hostServing[c] = from
  /\ hostServing' = [hostServing EXCEPT ![c] = to]

TableSize == Cardinality({k \in Keys : hostTable[k] # Free})
Live(c) == hostProcess[c] \in {"alive", "killed"}

(* Terminate(true); the process takes its time. *)
KillAll(cs) ==
  hostProcess' = [c \in Connections |->
    IF c \in cs /\ hostProcess[c] = "alive" THEN "killed" ELSE hostProcess[c]]

(* remove: only the entry it has made *)
RemoveEntry(k, entry) ==
  hostTable' = IF hostTable[k] = entry THEN [hostTable EXCEPT ![k] = Free] ELSE hostTable

----------------------------------------------------------------------------
(* accept; the wait group learns of a connection after Accept has returned *)

Accept(c) ==
  /\ hostClosing = "open" /\ Serves(c, "new", "accepted")
  /\ UNCHANGED <<hostKey, hostTable, hostProcess, hostPeer, hostClosing>>

CountConnection(c) ==
  /\ Serves(c, "accepted", "reading")
  /\ UNCHANGED <<hostKey, hostTable, hostProcess, hostPeer, hostClosing>>

----------------------------------------------------------------------------
(* serve *)

(* The peer is not the service, or its envelope is wrong. *)
RefuseEnvelope(c) ==
  /\ Serves(c, "reading", "ended")
  /\ UNCHANGED <<hostKey, hostTable, hostProcess, hostPeer, hostClosing>>

(* Mutant: the key is entered only when the process is there. *)
AdmitUnentered(c) ==
  /\ \/ /\ hostTable[hostKey[c]] = Free /\ TableSize < Maximum
        /\ Serves(c, "reading", "launching")
     \/ /\ hostTable[hostKey[c]] # Free \/ TableSize >= Maximum
        /\ Serves(c, "reading", "ended")
  /\ UNCHANGED <<hostKey, hostTable, hostProcess, hostPeer, hostClosing>>

Admit(c) ==
  /\ \/ /\ hostTable[hostKey[c]] = Free /\ TableSize < Maximum
        /\ Serves(c, "reading", "launching")
        /\ hostTable' = [hostTable EXCEPT ![hostKey[c]] = Launching]
     \/ /\ hostTable[hostKey[c]] # Free \/ TableSize >= Maximum
        /\ Serves(c, "reading", "ended") /\ UNCHANGED hostTable
  /\ UNCHANGED <<hostKey, hostProcess, hostPeer, hostClosing>>

Launch(c) ==
  /\ \/ /\ Serves(c, "launching", "storing") /\ UNCHANGED hostTable
        /\ hostProcess' = [hostProcess EXCEPT ![c] = "alive"]
     \/ /\ Serves(c, "launching", "ended") /\ UNCHANGED hostProcess
        /\ RemoveEntry(hostKey[c], Launching)
  /\ UNCHANGED <<hostKey, hostPeer, hostClosing>>

StoreProcess(c) ==
  /\ Serves(c, "storing", "answering")
  /\ hostTable' = [hostTable EXCEPT ![hostKey[c]] = c]
  /\ UNCHANGED <<hostKey, hostProcess, hostPeer, hostClosing>>

(* An answer that cannot be sent ends the process. *)
AnswerLaunch(c) ==
  /\ \/ Serves(c, "answering", "streaming") /\ UNCHANGED hostProcess
     \/ ~hostPeer[c] /\ Serves(c, "answering", "waiting") /\ KillAll({c})
  /\ UNCHANGED <<hostKey, hostTable, hostPeer, hostClosing>>

(* The control byte of a forced end, or the end of the connection seen by  *)
(* the control reader or by a stream.                                      *)
Control(c) ==
  /\ hostServing[c] \in {"streaming", "waiting"} /\ hostProcess[c] = "alive"
  /\ KillAll({c})
  /\ UNCHANGED <<hostServing, hostKey, hostTable, hostPeer, hostClosing>>

(* Both streams are at their end, or a write of one has failed. *)
DrainStreams(c) ==
  /\ Serves(c, "streaming", "waiting")
  /\ \/ hostProcess[c] = "dead" /\ UNCHANGED hostProcess
     \/ ~hostPeer[c] /\ KillAll({c})
  /\ UNCHANGED <<hostKey, hostTable, hostPeer, hostClosing>>

(* Wait returns, the exit frame is sent or not *)
Reap(c) ==
  /\ hostProcess[c] = "dead" /\ Serves(c, "waiting", "leaving")
  /\ UNCHANGED <<hostKey, hostTable, hostProcess, hostPeer, hostClosing>>

Leave(c) ==
  /\ Serves(c, "leaving", "ended")
  /\ RemoveEntry(hostKey[c], c)
  /\ UNCHANGED <<hostKey, hostProcess, hostPeer, hostClosing>>

ProcessExits(c) ==
  /\ Live(c)
  /\ hostProcess' = [hostProcess EXCEPT ![c] = "dead"]
  /\ UNCHANGED <<hostServing, hostKey, hostTable, hostPeer, hostClosing>>

PeerLeaves(c) ==
  /\ hostServing[c] # "new" /\ hostPeer[c]
  /\ hostPeer' = [hostPeer EXCEPT ![c] = FALSE]
  /\ UNCHANGED <<hostServing, hostKey, hostTable, hostProcess, hostClosing>>

----------------------------------------------------------------------------
(* Close *)

CloseListener ==
  /\ hostClosing = "open" /\ hostClosing' = "closed"
  /\ UNCHANGED <<hostServing, hostKey, hostTable, hostProcess, hostPeer>>

(* The processes in the table; the entries that are still nil are skipped. *)
TerminateEntries ==
  /\ hostClosing = "closed" /\ hostClosing' = "waiting"
  /\ KillAll({hostTable[k] : k \in Keys})
  /\ UNCHANGED <<hostServing, hostKey, hostTable, hostPeer>>

CloseReturns ==
  /\ hostClosing = "waiting"
  /\ \/ hostClosing' = "expired"
     \/ /\ \A c \in Connections : hostServing[c] \in {"new", "accepted", "ended"}
        /\ hostClosing' = "returned"
  /\ UNCHANGED <<hostServing, hostKey, hostTable, hostProcess, hostPeer>>

HostNext ==
  \/ \E c \in Connections :
       \/ Accept(c) \/ CountConnection(c) \/ RefuseEnvelope(c) \/ Admit(c)
       \/ Launch(c) \/ StoreProcess(c) \/ AnswerLaunch(c) \/ Control(c)
       \/ DrainStreams(c) \/ Reap(c) \/ Leave(c) \/ ProcessExits(c) \/ PeerLeaves(c)
  \/ CloseListener \/ TerminateEntries \/ CloseReturns

HostSpec == HostInit /\ [][HostNext]_hostVars

----------------------------------------------------------------------------
(* There are never more processes than the table holds, no run has two,    *)
(* and a process is in the table, or about to be, for as long as it lives: *)
(* a launch, its failure, its late store and the leaving of an earlier     *)
(* connection with the same key do not take each other's entry.            *)
RunnersEntered ==
  /\ TableSize <= Maximum
  /\ \A c \in Connections : Live(c) =>
       /\ hostTable[hostKey[c]] = IF hostServing[c] = "storing" THEN Launching ELSE c
       /\ \A d \in Connections \ {c} : Live(d) => hostKey[d] # hostKey[c]

(* Every step keeps it so, and Close returns nil only when no process is   *)
(* left, the launches that were in progress when it looked at the table    *)
(* included.                                                               *)
RunnersBounded ==
  [][/\ RunnersEntered'
     /\ hostClosing' = "returned" =>
          hostClosing = "returned" \/ \A c \in Connections : ~Live(c)]_hostVars
=============================================================================
