--------------------------- MODULE RequestOutcome ---------------------------
(***************************************************************************)
(* What the external interface promises the program that sends a request,  *)
(* without its rows, files and handlers: the fate of a request is decided  *)
(* once, with one effect at most; an answer tells that fate and is never   *)
(* taken back; and "unknown" is no answer: the truth may still follow.     *)
(*                                                                         *)
(* ExternalRequests implements this specification (see Outcome there).     *)
(***************************************************************************)
EXTENDS Naturals

CONSTANT Requests

VARIABLES
  fate,     \* what became of the action: "open" until it is decided
  effects,  \* how often it took effect
  told      \* what the sender reads when it asks for the result

vars == <<fate, effects, told>>

Fates == {"succeeded", "failed", "rejected"}

Init ==
  /\ fate = [q \in Requests |-> "open"]
  /\ effects = [q \in Requests |-> 0]
  /\ told = [q \in Requests |-> "nothing"]

Accept(q) ==
  /\ told[q] = "nothing"
  /\ told' = [told EXCEPT ![q] = "open"]
  /\ UNCHANGED <<fate, effects>>

(* The action succeeds, fails or is refused, whatever the sender was told: *)
(* an approval can be decided before its request's own record is written.  *)
Settle(q) ==
  /\ fate[q] = "open"
  /\ \E f \in Fates :
       /\ fate' = [fate EXCEPT ![q] = f]
       /\ effects' = [effects EXCEPT ![q] = IF f = "succeeded" THEN @ + 1 ELSE @]
  /\ UNCHANGED told

Answer(q) ==
  /\ fate[q] # "open"
  /\ told[q] \in {"open", "unknown"}
  /\ told' = [told EXCEPT ![q] = fate[q]]
  /\ UNCHANGED <<fate, effects>>

(* Nobody knows anymore what became of these requests. *)
Disclaim(Q) ==
  /\ \A q \in Q : told[q] = "open"
  /\ told' = [q \in Requests |-> IF q \in Q THEN "unknown" ELSE told[q]]
  /\ UNCHANGED <<fate, effects>>

Next ==
  \/ \E Q \in SUBSET Requests : Disclaim(Q)
  \/ \E q \in Requests : Accept(q) \/ Settle(q) \/ Answer(q)

Spec == Init /\ [][Next]_vars

----------------------------------------------------------------------------
(* At most one effect, and an answer that tells whether there was one.     *)
TrueAnswers ==
  \A q \in Requests :
    /\ effects[q] = IF fate[q] = "succeeded" THEN 1 ELSE 0
    /\ told[q] \in Fates => told[q] = fate[q]

(* Who has read an answer never reads another one. *)
FinalAnswers ==
  [][\A q \in Requests : told[q] \in Fates => told'[q] = told[q]]_vars
=============================================================================
