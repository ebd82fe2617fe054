---------------------------- MODULE CommandLedger ----------------------------
(***************************************************************************)
(* One idempotency key of the commands that machines send                  *)
(* (internal/mcpcommand/ledger.go) and the calls that carry it: deliveries *)
(* of one request that overlap, repeat after a lost answer, or come after  *)
(* the window.  Every statement is a step of its own.                      *)
(*                                                                         *)
(* A call answers before its own reading of the clock is older than        *)
(* CallTime: seconds, where the window is a day.                           *)
(***************************************************************************)
EXTENDS Integers

CONSTANTS
  Calls,
  Window,     \* idempotencyWindow
  CallTime,   \* how long a call may take
  LedgerTime  \* bound on the clock

ASSUME LedgerAssumption ==
  /\ Window \in Nat /\ CallTime \in Nat /\ LedgerTime \in Nat
  /\ CallTime < Window

VARIABLES
  ledgerClock,
  ledgerRow,   \* mcp_idempotency: state of the result, and created_at
  callStage,   \* the statement a call executes next
  callAt,      \* its reading of the clock, claimedAt
  callSeen,    \* the created_at it has selected
  executed     \* history: the calls whose command was executed

ledgerVars == <<ledgerClock, ledgerRow, callStage, callAt, callSeen, executed>>

LedgerTimes == 0..LedgerTime
NoRow == [state |-> "none", at |-> 0]
CallStages == {"unsent", "insert", "select", "renew", "operate", "complete",
               "release", "answered"}

LedgerTypeOK ==
  /\ ledgerClock \in LedgerTimes
  /\ ledgerRow \in [state : {"none", "processing", "completed"}, at : LedgerTimes]
  /\ callStage \in [Calls -> CallStages]
  /\ callAt \in [Calls -> LedgerTimes] /\ callSeen \in [Calls -> LedgerTimes]
  /\ executed \in SUBSET Calls

LedgerInit ==
  /\ ledgerClock = 0 /\ ledgerRow = NoRow
  /\ callStage = [c \in Calls |-> "unsent"]
  /\ callAt = [c \in Calls |-> 0] /\ callSeen = [c \in Calls |-> 0]
  /\ executed = {}

CallGoes(c, from, to) ==
  /\ callStage[c] = from
  /\ callStage' = [callStage EXCEPT ![c] = to]

Processing(c) == [state |-> "processing", at |-> callAt[c]]
InFlight(c) == callStage[c] \notin {"unsent", "answered"}

----------------------------------------------------------------------------
(* claim *)

ReadClock(c) ==
  /\ CallGoes(c, "unsent", "insert")
  /\ callAt' = [callAt EXCEPT ![c] = ledgerClock]
  /\ UNCHANGED <<ledgerClock, ledgerRow, callSeen, executed>>

(* INSERT OR IGNORE *)
InsertClaim(c) ==
  /\ IF ledgerRow = NoRow
     THEN CallGoes(c, "insert", "operate") /\ ledgerRow' = Processing(c)
     ELSE CallGoes(c, "insert", "select") /\ UNCHANGED ledgerRow
  /\ UNCHANGED <<ledgerClock, callAt, callSeen, executed>>

(* The row has gone: an error.  Within the window: the stored result, or   *)
(* that the request is pending.                                            *)
AnsweredFromRow(c) ==
  \/ ledgerRow = NoRow
  \/ ledgerRow.at >= callAt[c] - Window

SelectClaim(c) ==
  /\ IF AnsweredFromRow(c) THEN CallGoes(c, "select", "answered") /\ UNCHANGED callSeen
     ELSE /\ CallGoes(c, "select", "renew")
          /\ callSeen' = [callSeen EXCEPT ![c] = ledgerRow.at]
  /\ UNCHANGED <<ledgerClock, ledgerRow, callAt, executed>>

(* Mutant: the old time is not a condition of the update. *)
RenewAny(c) ==
  /\ CallGoes(c, "renew", "operate") /\ ledgerRow' = Processing(c)
  /\ UNCHANGED <<ledgerClock, callAt, callSeen, executed>>

(* UPDATE ... WHERE created_at = the expired time *)
RenewClaim(c) ==
  /\ IF ledgerRow # NoRow /\ ledgerRow.at = callSeen[c]
     THEN CallGoes(c, "renew", "operate") /\ ledgerRow' = Processing(c)
     ELSE CallGoes(c, "renew", "answered") /\ UNCHANGED ledgerRow
  /\ UNCHANGED <<ledgerClock, callAt, callSeen, executed>>

----------------------------------------------------------------------------
(* Execute *)

(* The command is executed, or it fails or finds a conflict before it has  *)
(* started anything: then the key is given back.                           *)
Operate(c) ==
  /\ \/ CallGoes(c, "operate", "complete") /\ executed' = executed \cup {c}
     \/ CallGoes(c, "operate", "release") /\ UNCHANGED executed
  /\ UNCHANGED <<ledgerClock, ledgerRow, callAt, callSeen>>

(* UPDATE ... WHERE created_at, result_json are those of the claim; if the *)
(* statement fails, the outcome is unknown and the row stays.              *)
CompleteClaim(c) ==
  /\ CallGoes(c, "complete", "answered")
  /\ \/ ledgerRow' = IF ledgerRow = Processing(c)
                       THEN [ledgerRow EXCEPT !.state = "completed"] ELSE ledgerRow
     \/ UNCHANGED ledgerRow
  /\ UNCHANGED <<ledgerClock, callAt, callSeen, executed>>

(* DELETE under the same condition; its failure leaves the row, too. *)
ReleaseClaim(c) ==
  /\ CallGoes(c, "release", "answered")
  /\ \/ ledgerRow' = IF ledgerRow = Processing(c) THEN NoRow ELSE ledgerRow
     \/ UNCHANGED ledgerRow
  /\ UNCHANGED <<ledgerClock, callAt, callSeen, executed>>

(* The service dies; the calls it was serving get no answer. *)
LedgerCrash ==
  /\ callStage' = [c \in Calls |-> IF InFlight(c) THEN "answered" ELSE callStage[c]]
  /\ UNCHANGED <<ledgerClock, ledgerRow, callAt, callSeen, executed>>

LedgerTick ==
  /\ ledgerClock < LedgerTime
  /\ \A c \in Calls : InFlight(c) => ledgerClock < callAt[c] + CallTime
  /\ ledgerClock' = ledgerClock + 1
  /\ UNCHANGED <<ledgerRow, callStage, callAt, callSeen, executed>>

LedgerNext ==
  \/ \E c \in Calls :
       \/ ReadClock(c) \/ InsertClaim(c) \/ SelectClaim(c) \/ RenewClaim(c)
       \/ Operate(c) \/ CompleteClaim(c) \/ ReleaseClaim(c)
  \/ LedgerCrash \/ LedgerTick

LedgerSpec == LedgerInit /\ [][LedgerNext]_ledgerVars

----------------------------------------------------------------------------
(* A command is executed once in a window: neither overlapping deliveries, *)
(* nor a retry after a lost answer or a crash, nor two renewals of an      *)
(* expired row that race, execute it again.  The window is short by the    *)
(* time of a call: one that read the clock just before the row expired     *)
(* claims the key as new when a later one renews the row and gives it back *)
(* in between.                                                             *)
OncePerWindow ==
  \A c, d \in executed :
    c # d => callAt[c] + CallTime > callAt[d] + Window
             \/ callAt[d] + CallTime > callAt[c] + Window
=============================================================================
