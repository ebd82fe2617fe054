-------------------------- MODULE WorkflowCompile --------------------------
(***************************************************************************)
(* Compile (internal/workflow/graph.go) turns a published graph into the   *)
(* order in which the engine walks it: Kahn's algorithm over the data and  *)
(* control edges, with the ready nodes kept sorted so that the same graph  *)
(* always runs in the same order.  Ports and types are not modelled: they  *)
(* are checked before the sort starts.  Node identifiers are numbers,      *)
(* ordered as sort.Strings orders the text.                                *)
(***************************************************************************)
EXTENDS Naturals, Sequences, FiniteSets

CONSTANT Ids

ASSUME IdsAssumption == Ids \subseteq Nat /\ IsFiniteSet(Ids)

VARIABLES
  edges,    \* pairs <<from, to>>; one pair for many links of two nodes
  counts,   \* how many predecessors of a node are not in the order yet
  ready,    \* the sorted queue: nodes whose count came down to zero
  order,    \* the result so far
  result    \* "running", "ok", or "cycle": the error that is returned

compileVars == <<edges, counts, ready, order, result>>

Preds(n) == {m \in Ids : <<m, n>> \in edges}
Placed == {order[i] : i \in DOMAIN order}

CompileTypeOK ==
  /\ edges \subseteq Ids \X Ids
  /\ counts \in [Ids -> Nat]
  /\ ready \subseteq Ids
  /\ order \in Seq(Ids)
  /\ result \in {"running", "ok", "cycle"}

CompileInit ==
  /\ edges \in SUBSET (Ids \X Ids)
  /\ counts = [n \in Ids |-> Cardinality(Preds(n))]
  /\ ready = {n \in Ids : Preds(n) = {}}
  /\ order = <<>>
  /\ result = "running"

(* Mutant: the queue is not sorted again, any ready node may come first. *)
AnyReady == ready

(* ready[0] of the sorted queue *)
First == {n \in ready : \A m \in ready : n <= m}

(* Mutant: a child is ready as soon as one predecessor is placed. *)
FreedEarly(id) == {c \in Ids : <<id, c>> \in edges}

(* The children whose count the placing of id brings down to zero. *)
Freed(id) == {c \in Ids : <<id, c>> \in edges /\ counts[c] = 1}

Place(id) ==
  /\ result = "running"
  /\ id \in First
  /\ order' = Append(order, id)
  /\ counts' = [c \in Ids |->
       IF <<id, c>> \in edges THEN counts[c] - 1 ELSE counts[c]]
  /\ ready' = (ready \ {id}) \cup Freed(id)
  /\ UNCHANGED <<edges, result>>

Return ==
  /\ result = "running"
  /\ ready = {}
  /\ result' = IF Len(order) = Cardinality(Ids) THEN "ok" ELSE "cycle"
  /\ UNCHANGED <<edges, counts, ready, order>>

CompileNext == (\E id \in Ids : Place(id)) \/ Return

CompileSpec == CompileInit /\ [][CompileNext]_compileVars

----------------------------------------------------------------------------
(* Properties *)

(* A node is placed at most once, and after all its predecessors: what     *)
(* the engine assumes of the order when it reads outcomes and data.        *)
Topological ==
  \A j \in DOMAIN order :
    /\ \A i \in DOMAIN order : order[i] = order[j] => i = j
    /\ \A m \in Preds(order[j]) : \E i \in DOMAIN order : i < j /\ order[i] = m

(* A set in which every node waits for another one of the set. *)
Deadlocked(S) == S # {} /\ \A n \in S : Preds(n) \cap S # {}

(* The error is returned for exactly the graphs that have a cycle, and an  *)
(* order that is returned has every node.                                  *)
RejectsExactlyCycles ==
  /\ result = "ok" => Placed = Ids /\ ~\E S \in SUBSET Ids : Deadlocked(S)
  /\ result = "cycle" => \E S \in SUBSET Ids : Deadlocked(S)

(* What publishing and the engine take from Compile: an order in which     *)
(* every node comes after what it waits for, or the error, if it has one.  *)
CompilesRight == Topological /\ RejectsExactlyCycles

(* The order does not depend on the order of map iterations: every node is *)
(* the least one of those that could have come in its place.               *)
Deterministic ==
  \A j \in DOMAIN order : \A n \in Ids :
    LET earlier == {order[i] : i \in 1..(j - 1)}
    IN n \notin earlier /\ Preds(n) \subseteq earlier => order[j] <= n

----------------------------------------------------------------------------
(* A reference definition that does not mention the sort: the orders that  *)
(* respect the edges, and the first of them in the dictionary.             *)

Size == Cardinality(Ids)

Orders == {s \in [1..Size -> Ids] : \A i, j \in 1..Size : s[i] = s[j] => i = j}

Respects(s) ==
  \A e \in edges : \E i, j \in 1..Size : s[i] = e[1] /\ s[j] = e[2] /\ i < j

LexBefore(s, t) ==
  \E i \in 1..Size : s[i] < t[i] /\ \A j \in 1..(i - 1) : s[j] = t[j]

(* The order Compile returns is the first in the dictionary of all orders  *)
(* that respect the edges.                                                 *)
LeastOrder ==
  result = "ok" =>
    /\ order \in Orders
    /\ Respects(order)
    /\ \A s \in Orders : Respects(s) => s = order \/ LexBefore(order, s)
=============================================================================
