----------------------------- MODULE Core_proofs ----------------------------
(***************************************************************************)
(* Theorems about WorkflowCompile, for every finite set of nodes and every *)
(* graph over it: the order respects the edges, it is the same whatever    *)
(* the order of map iterations, and exactly the cyclic graphs are refused. *)
(*                                                                         *)
(* And about MCCore, which puts the components side by side that share no  *)
(* state: each behaves there as it does alone, so that what is proved of   *)
(* it in this module or its own holds of all of them together.             *)
(***************************************************************************)
EXTENDS MCCore, WorkflowQueue_proofs, Requests_proofs, Operations_proofs,
        AuditTrust_proofs

----------------------------------------------------------------------------
(* WorkflowCompile                                                         *)

(* The predecessors of a node that are still to come. *)
Open(n) == Preds(n) \ Placed

(* The loop invariant of the sort. *)
Bookkeeping ==
  /\ CompileTypeOK
  /\ \A n \in Ids : counts[n] = Cardinality(Open(n))
  /\ ready = {n \in Ids \ Placed : Open(n) = {}}
  /\ Cardinality(Placed) = Len(order)
  /\ result # "running" =>
       /\ ready = {}
       /\ result = "ok" <=> Len(order) = Cardinality(Ids)

SortInv == Bookkeeping /\ Topological

(* What placing a node does to the result and to the sets derived from it. *)
LEMMA Appended ==
  ASSUME order \in Seq(Ids), NEW id \in Ids, order' = Append(order, id),
         edges' = edges
  PROVE  /\ Len(order') = Len(order) + 1
         /\ DOMAIN order' = DOMAIN order \cup {Len(order) + 1}
         /\ \A i \in DOMAIN order : order'[i] = order[i]
         /\ order'[Len(order) + 1] = id
         /\ Placed' = Placed \cup {id}
         /\ \A n \in Ids : /\ Preds(n)' = Preds(n)
                             /\ Open(n)' = Open(n) \ {id}
<1>1. /\ Len(order') = Len(order) + 1
      /\ \A i \in 1..Len(order) : order'[i] = order[i]
      /\ order'[Len(order) + 1] = id
      /\ DOMAIN order = 1..Len(order) /\ DOMAIN order' = 1..(Len(order) + 1)
      /\ Len(order) \in Nat
  OBVIOUS
<1>2. DOMAIN order' = DOMAIN order \cup {Len(order) + 1}
  BY <1>1
<1>3. Placed' = Placed \cup {id}
  BY <1>1, <1>2 DEF Placed
<1>4. \A n \in Ids : Preds(n)' = Preds(n) /\ Open(n)' = Open(n) \ {id}
  BY <1>3 DEF Open, Preds
<1> QED
  BY <1>1, <1>2, <1>3, <1>4

LEMMA PredsFinite ==
  \A n \in Ids : IsFiniteSet(Preds(n)) /\ IsFiniteSet(Open(n))
<1> TAKE n \in Ids
<1>1. IsFiniteSet(Ids) /\ Preds(n) \in SUBSET Ids /\ Open(n) \in SUBSET Ids
  BY IdsAssumption DEF Preds, Open
<1> QED
  BY <1>1, FS_Subset

LEMMA SortInit == CompileInit => SortInv
<1> SUFFICES ASSUME CompileInit PROVE SortInv
  OBVIOUS
<1> USE DEF CompileInit
<1>1. Placed = {} /\ \A n \in Ids : Open(n) = Preds(n)
  BY DEF Placed, Open
<1>2. \A n \in Ids : Cardinality(Preds(n)) \in Nat
  BY PredsFinite, FS_CardinalityType
<1>3. CompileTypeOK
  BY <1>2 DEF CompileTypeOK
<1>4. Cardinality(Placed) = Len(order)
  BY <1>1, FS_EmptySet
<1>5. Topological
  BY DEF Topological
<1> QED
  BY <1>1, <1>3, <1>4, <1>5 DEF SortInv, Bookkeeping

(* The node that is placed had to be ready, the counts follow the sets, and*)
(* the nodes that are freed are those whose last predecessor it was.       *)
LEMMA PlaceStep ==
  ASSUME SortInv, NEW id \in Ids, Place(id)
  PROVE  SortInv'
<1> USE DEF SortInv, Bookkeeping, CompileTypeOK
<1>1. /\ id \in ready /\ id \notin Placed /\ Open(id) = {}
      /\ result = "running" /\ result' = "running" /\ edges' = edges
      /\ order' = Append(order, id) /\ order \in Seq(Ids)
  BY DEF Place, First
<1>2. /\ Len(order') = Len(order) + 1
      /\ DOMAIN order' = DOMAIN order \cup {Len(order) + 1}
      /\ \A i \in DOMAIN order : order'[i] = order[i]
      /\ order'[Len(order) + 1] = id
      /\ Placed' = Placed \cup {id}
      /\ \A n \in Ids : Preds(n)' = Preds(n) /\ Open(n)' = Open(n) \ {id}
  BY <1>1, Appended
<1>3. \A n \in Ids : <<id, n>> \in edges <=> id \in Open(n)
  BY <1>1 DEF Open, Preds
<1>4. \A n \in Ids : counts'[n] = Cardinality(Open(n)')
  <2> TAKE n \in Ids
  <2>1. Cardinality(Open(n) \ {id}) =
          IF id \in Open(n) THEN Cardinality(Open(n)) - 1 ELSE Cardinality(Open(n))
    BY PredsFinite, FS_RemoveElement
  <2>2. counts'[n] = IF id \in Open(n) THEN counts[n] - 1 ELSE counts[n]
    BY <1>3 DEF Place
  <2> QED
    BY <1>2, <2>1, <2>2
<1>5. CompileTypeOK'
  <2>1. \A n \in Ids : Cardinality(Open(n)') \in Nat
    <3> TAKE n \in Ids
    <3>1. IsFiniteSet(Open(n) \ {id})
      BY PredsFinite, FS_RemoveElement
    <3> QED
      BY <1>2, <3>1, FS_CardinalityType
  <2>2. counts' \in [Ids -> Nat]
    BY <1>4, <2>1 DEF Place
  <2>3. ready' \subseteq Ids
    BY DEF Place, Freed
  <2> QED
    BY <1>1, <2>2, <2>3
<1>6. ready' = {n \in Ids \ Placed' : Open(n)' = {}}
  <2>1. \A n \in Ids : counts[n] = 1 /\ id \in Open(n) => Open(n) = {id}
    <3> TAKE n \in Ids
    <3> SUFFICES ASSUME counts[n] = 1, id \in Open(n) PROVE Open(n) = {id}
      OBVIOUS
    <3>1. PICK x : Open(n) = {x}
      BY PredsFinite, FS_Singleton
    <3> QED
      BY <3>1
  <2>2. \A n \in Ids : Open(n) = {id} => counts[n] = 1
    BY FS_Singleton
  <2>3. Freed(id) = {n \in Ids : Open(n) = {id}}
    BY <1>3, <2>1, <2>2 DEF Freed
  <2>4. \A n \in Ids : Open(n) = {id} => n \notin Placed /\ n # id
    <3>1. \A n \in Placed : Preds(n) \subseteq Placed
      BY DEF Topological, Placed
    <3> QED
      BY <1>1, <3>1 DEF Open
  <2>5. ready' = (ready \ {id}) \cup Freed(id)
    BY DEF Place
  <2> QED
    BY <1>2, <2>3, <2>4, <2>5
<1>7. Cardinality(Placed') = Len(order')
  <2>1. IsFiniteSet(Placed)
    <3>1. Placed \in SUBSET Ids
      BY DEF Placed
    <3> QED
      BY <3>1, IdsAssumption, FS_Subset
  <2>2. Cardinality(Placed \cup {id}) = Cardinality(Placed) + 1
    BY <1>1, <2>1, FS_AddElement
  <2> QED
    BY <1>2, <2>2
<1>8. Topological'
  <2> DEFINE k == Len(order) + 1
  <2>1. k \notin DOMAIN order /\ \A i \in DOMAIN order : i < k
    BY <1>1
  <2>2. \A i \in DOMAIN order : order[i] # id
    BY <1>1 DEF Placed
  <2>3. \A m \in Preds(id) : \E i \in DOMAIN order : order[i] = m
    BY <1>1 DEF Open, Placed
  <2>4. \A j \in DOMAIN order : order[j] \in Ids
    BY <1>1
  <2> SUFFICES ASSUME NEW j \in DOMAIN order \cup {k}
               PROVE  /\ \A i \in DOMAIN order \cup {k} : order'[i] = order'[j] => i = j
                      /\ \A m \in {m \in Ids : <<m, order'[j]>> \in edges} :
                           \E i \in DOMAIN order \cup {k} : i < j /\ order'[i] = m
    BY <1>1, <1>2 DEF Topological, Preds
  <2>5. CASE j = k
    <3>1. \A i \in DOMAIN order \cup {k} : order'[i] = order'[j] => i = j
      BY <1>2, <2>2, <2>5
    <3>2. {m \in Ids : <<m, order'[j]>> \in edges} = Preds(id)
      BY <1>2, <2>5 DEF Preds
    <3> QED
      BY <1>2, <2>1, <2>3, <2>5, <3>1, <3>2
  <2>6. CASE j \in DOMAIN order
    <3>1. \A i \in DOMAIN order \cup {k} : order'[i] = order'[j] => i = j
      BY <1>2, <2>1, <2>2, <2>6 DEF Topological
    <3>2. {m \in Ids : <<m, order'[j]>> \in edges} = Preds(order[j])
      BY <1>2, <2>6 DEF Preds
    <3>3. \A m \in Preds(order[j]) : \E i \in DOMAIN order : i < j /\ order[i] = m
      BY <2>6 DEF Topological
    <3> QED
      BY <1>2, <3>1, <3>2, <3>3
  <2> QED
    BY <2>5, <2>6
<1> QED
  BY <1>1, <1>4, <1>5, <1>6, <1>7, <1>8

LEMMA SortStep == SortInv /\ [CompileNext]_compileVars => SortInv'
<1> SUFFICES ASSUME SortInv, [CompileNext]_compileVars PROVE SortInv'
  OBVIOUS
<1>1. CASE \E id \in Ids : Place(id)
  BY <1>1, PlaceStep
<1>2. ASSUME order' = order, edges' = edges, counts' = counts, ready' = ready
      PROVE  /\ Placed' = Placed /\ Topological' = Topological
             /\ \A n \in Ids : Open(n)' = Open(n)
  BY <1>2 DEF Placed, Open, Preds, Topological
<1>3. CASE Return
  BY <1>2, <1>3 DEF Return, SortInv, Bookkeeping, CompileTypeOK
<1>4. CASE UNCHANGED compileVars
  BY <1>2, <1>4 DEF compileVars, SortInv, Bookkeeping, CompileTypeOK
<1> QED
  BY <1>1, <1>3, <1>4 DEF CompileNext

THEOREM Sorts == CompileSpec => []SortInv
<1> QED
  BY SortInit, SortStep, PTL DEF CompileSpec

(* In every step of the sort, no node is placed twice or before one of its *)
(* predecessors.                                                           *)
THEOREM OrderIsTopological == CompileSpec => []Topological
<1>1. SortInv => Topological
  BY DEF SortInv
<1> QED
  BY <1>1, Sorts, PTL

(* The counters never run below zero, and nothing but nodes is placed.     *)
THEOREM SortTypeCorrect == CompileSpec => []CompileTypeOK
<1>1. SortInv => CompileTypeOK
  BY DEF SortInv, Bookkeeping
<1> QED
  BY <1>1, Sorts, PTL

----------------------------------------------------------------------------
(* The answer *)

LEMMA LeastIndex ==
  ASSUME NEW T, T \subseteq Nat, T # {}
  PROVE  \E x \in T : \A y \in T : x <= y
<1>1. \E x \in T : \A y \in T : ~(<<y, x>> \in OpToRel(<, Nat))
  BY NatLessThanWellFounded, WFMin, Zenon
<1>2. \A x, y \in T : y < x => <<y, x>> \in OpToRel(<, Nat)
  BY DEF OpToRel
<1>3. \E x \in T : \A y \in T : ~(y < x)
  BY <1>1, <1>2, Zenon
<1> QED
  BY <1>3

(* If every node of S waited for another one of S, the first of them in    *)
(* the order would have been placed too early.                             *)
LEMMA PlacedNeverDeadlocked ==
  ASSUME SortInv, NEW S, S \subseteq Placed, Deadlocked(S)
  PROVE  FALSE
<1> DEFINE T == {i \in DOMAIN order : order[i] \in S}
<1>1. T \subseteq Nat /\ T # {}
  BY DEF SortInv, Bookkeeping, CompileTypeOK, Placed, Deadlocked
<1>2. PICK j \in T : \A i \in T : j <= i
  BY <1>1, LeastIndex
<1>3. PICK m \in Preds(order[j]) : m \in S
  BY DEF Deadlocked
<1>4. PICK i \in DOMAIN order : i < j /\ order[i] = m
  BY <1>2, <1>3 DEF SortInv, Topological
<1> QED
  BY <1>1, <1>2, <1>3, <1>4

(* The nodes that are left when none is ready wait for each other. *)
LEMMA RestDeadlocked ==
  ASSUME SortInv, ready = {}, Len(order) # Cardinality(Ids)
  PROVE  Deadlocked(Ids \ Placed)
<1> USE DEF SortInv, Bookkeeping, CompileTypeOK
<1>1. Placed # Ids
  OBVIOUS
<1>2. Ids \ Placed # {}
  BY <1>1 DEF Placed
<1>3. \A n \in Ids \ Placed : Open(n) # {}
  OBVIOUS
<1>4. \A n \in Ids : Open(n) = Preds(n) \cap (Ids \ Placed)
  BY DEF Open, Preds
<1> QED
  BY <1>2, <1>3, <1>4 DEF Deadlocked

LEMMA AnswerRight == SortInv => RejectsExactlyCycles
<1> SUFFICES ASSUME SortInv PROVE RejectsExactlyCycles
  OBVIOUS
<1> USE DEF SortInv, Bookkeeping, CompileTypeOK
<1>1. Placed \in SUBSET Ids
  BY DEF Placed
<1>2. ASSUME result = "ok"
      PROVE  Placed = Ids /\ ~\E S \in SUBSET Ids : Deadlocked(S)
  <2>1. Cardinality(Placed) = Cardinality(Ids)
    BY <1>2
  <2>2. Placed = Ids
    BY <1>1, <2>1, IdsAssumption, FS_Subset
  <2> QED
    BY <2>2, PlacedNeverDeadlocked
<1>3. ASSUME result = "cycle"
      PROVE  \E S \in SUBSET Ids : Deadlocked(S)
  <2>1. ready = {} /\ Len(order) # Cardinality(Ids)
    BY <1>3
  <2>2. Deadlocked(Ids \ Placed)
    BY <2>1, RestDeadlocked
  <2> QED
    BY <2>2
<1> QED
  BY <1>2, <1>3 DEF RejectsExactlyCycles

(* An order is returned for exactly the graphs without a cycle, and it has *)
(* every node.                                                             *)
THEOREM RefusesCyclesOnly == CompileSpec => []RejectsExactlyCycles
<1> QED
  BY AnswerRight, Sorts, PTL

(* Both together: what Compile promises for every finite graph.            *)
THEOREM CompilesAlwaysRight == CompileSpec => []CompilesRight
<1>1. Topological /\ RejectsExactlyCycles => CompilesRight
  BY DEF CompilesRight
<1> QED
  BY <1>1, OrderIsTopological, RefusesCyclesOnly, PTL

(* Every node that could have come next is at least the one that did.      *)
LEMMA LeastStep ==
  ASSUME SortInv, Deterministic, NEW id \in Ids, Place(id)
  PROVE  Deterministic'
<1> USE DEF SortInv, Bookkeeping, CompileTypeOK
<1> DEFINE k == Len(order) + 1
           Earlier(s, j) == {s[i] : i \in 1..(j - 1)}
<1>1. /\ id \in Ids /\ edges' = edges /\ order \in Seq(Ids)
      /\ order' = Append(order, id) /\ \A n \in ready : id <= n
  BY DEF Place, First
<1>2. /\ DOMAIN order' = DOMAIN order \cup {k}
      /\ \A i \in DOMAIN order : order'[i] = order[i]
      /\ order'[k] = id
      /\ DOMAIN order = 1..(k - 1) /\ k \in Nat
  BY <1>1, Appended
<1>3. \A j \in DOMAIN order' : Earlier(order', j) = Earlier(order, j)
  <2> TAKE j \in DOMAIN order'
  <2>1. j \in 1..k
    BY <1>2
  <2>2. \A i \in 1..(j - 1) : i \in DOMAIN order /\ order'[i] = order[i]
    BY <1>2, <2>1
  <2> QED
    BY <2>2
<1>4. Earlier(order, k) = Placed
  BY <1>2 DEF Placed
<1> SUFFICES ASSUME NEW j \in DOMAIN order', NEW n \in Ids,
                    n \notin Earlier(order', j),
                    {m \in Ids : <<m, n>> \in edges} \subseteq Earlier(order', j)
             PROVE  order'[j] <= n
  BY <1>1 DEF Deterministic, Preds
<1>5. CASE j = k
  <2>1. n \notin Placed /\ Open(n) = {}
    BY <1>3, <1>4, <1>5 DEF Open, Preds
  <2>2. n \in ready
    BY <2>1
  <2> QED
    BY <1>1, <1>2, <1>5, <2>2
<1>6. CASE j \in DOMAIN order
  <2>1. n \notin Earlier(order, j) /\ Preds(n) \subseteq Earlier(order, j)
    BY <1>3 DEF Preds
  <2>2. order[j] <= n
    BY <1>6, <2>1 DEF Deterministic
  <2> QED
    BY <1>2, <1>6, <2>2
<1> QED
  BY <1>2, <1>5, <1>6

(* Compile is a function of the graph: at every place stands the least of  *)
(* the nodes that could stand there.                                       *)
THEOREM OrderIsLeast == CompileSpec => []Deterministic
<1>1. CompileInit => Deterministic
  BY DEF CompileInit, Deterministic
<1>2. Deterministic /\ SortInv /\ [CompileNext]_compileVars => Deterministic'
  <2> SUFFICES ASSUME Deterministic, SortInv, [CompileNext]_compileVars
               PROVE  Deterministic'
    OBVIOUS
  <2>1. CASE \E id \in Ids : Place(id)
    BY <2>1, LeastStep
  <2>2. CASE order' = order /\ edges' = edges
    BY <2>2 DEF Deterministic, Preds
  <2> QED
    BY <2>1, <2>2 DEF CompileNext, Return, compileVars
<1> QED
  BY <1>1, <1>2, Sorts, PTL DEF CompileSpec

(* Where another order that respects the edges first differs, it could     *)
(* have had the node that Compile chose, and has a greater one.            *)
LEMMA FirstInDictionary ==
  ASSUME SortInv, Deterministic, result = "ok",
         NEW s \in Orders, Respects(s), s # order
  PROVE  LexBefore(order, s)
<1> USE DEF SortInv, Bookkeeping, CompileTypeOK
<1>1. /\ Len(order) = Size /\ Size \in Nat /\ DOMAIN order = 1..Size
      /\ order \in [1..Size -> Ids] /\ s \in [1..Size -> Ids]
  BY DEF Size, Orders
<1> DEFINE T == {i \in 1..Size : order[i] # s[i]}
<1>2. T \subseteq Nat /\ T # {}
  <2>1. T = {} => \A i \in 1..Size : order[i] = s[i]
    OBVIOUS
  <2>2. (\A i \in 1..Size : order[i] = s[i]) => order = s
    <3>1. ASSUME NEW D, NEW f \in [D -> Ids], NEW g \in [D -> Ids], \A i \in D : f[i] = g[i]
          PROVE  f = g
      BY <3>1
    <3>2. order \in [1..Size -> Ids] /\ s \in [1..Size -> Ids]
      BY <1>1
    <3> QED BY ONLY <3>1, <3>2, Zenon
  <2> QED BY <1>1, <2>1, <2>2
<1>3. PICK k \in T : \A i \in T : k <= i
  <2> HIDE DEF T
  <2> QED BY <1>2, LeastIndex
<1>4. k \in 1..Size /\ order[k] # s[k] /\ \A i \in 1..(k - 1) : order[i] = s[i]
  BY <1>1, <1>3
<1> HIDE DEF T
<1> DEFINE earlier == {order[i] : i \in 1..(k - 1)}
<1>5. earlier = {s[i] : i \in 1..(k - 1)}
  BY <1>4
<1>6. s[k] \in Ids /\ s[k] \notin earlier
  BY <1>1, <1>4, <1>5 DEF Orders
<1>7. Preds(s[k]) \subseteq earlier
  <2> SUFFICES ASSUME NEW m \in Preds(s[k]) PROVE m \in earlier
    OBVIOUS
  <2>1. PICK i, j \in 1..Size : s[i] = m /\ s[j] = s[k] /\ i < j
    BY DEF Preds, Respects
  <2>2. j = k
    BY <1>4, <2>1 DEF Orders
  <2>3. i \in 1..(k - 1)
    BY <1>1, <1>4, <2>1, <2>2
  <2> QED BY <1>5, <2>1, <2>3
<1>8. order[k] <= s[k]
  BY <1>1, <1>4, <1>6, <1>7 DEF Deterministic
<1>9. order[k] < s[k]
  <2>1. order[k] \in Nat /\ s[k] \in Nat
    BY <1>1, <1>4, <1>6, IdsAssumption
  <2> QED BY <1>4, <1>8, <2>1
<1> QED BY <1>4, <1>9 DEF LexBefore

(* The order that is returned is the first, in the dictionary, of all the  *)
(* orders that respect the edges.                                          *)
THEOREM OrderIsFirst == CompileSpec => []LeastOrder
<1>1. ASSUME SortInv, Deterministic, result = "ok"
      PROVE  order \in Orders /\ Respects(order)
  <2> USE <1>1 DEF SortInv, Bookkeeping, CompileTypeOK
  <2>1. Len(order) = Size /\ DOMAIN order = 1..Size /\ order \in [1..Size -> Ids]
    BY DEF Size
  <2>2. order \in Orders
    BY <2>1 DEF Orders, Topological
  <2>3. Placed = Ids
    BY <1>1, AnswerRight DEF RejectsExactlyCycles
  <2>4. ASSUME NEW e \in edges
        PROVE  \E i, j \in 1..Size : order[i] = e[1] /\ order[j] = e[2] /\ i < j
    <3>1. e \in Ids \X Ids /\ e = <<e[1], e[2]>>
      OBVIOUS
    <3>2. PICK j \in 1..Size : order[j] = e[2]
      BY <2>1, <2>3, <3>1 DEF Placed
    <3>3. e[1] \in Preds(order[j])
      BY <3>1, <3>2 DEF Preds
    <3>4. PICK i \in 1..Size : i < j /\ order[i] = e[1]
      BY <2>1, <3>3 DEF Topological
    <3> QED BY <3>2, <3>4
  <2> QED BY <2>2, <2>4 DEF Respects
<1>2. SortInv /\ Deterministic => LeastOrder
  BY <1>1, FirstInDictionary DEF LeastOrder
<1> QED BY <1>2, Sorts, OrderIsLeast, PTL

----------------------------------------------------------------------------
(* The components side by side                                             *)

coreVars == <<part, queueVars, compileVars, ledgerVars, extVars, hostVars, moveVars,
              auditVars, dbVars, restoreVars>>

(* A step of the composition is, for each component, a step of its own or  *)
(* none.                                                                   *)
LEMMA CoreStep ==
  ASSUME [CoreNext]_coreVars
  PROVE  /\ [QueueNext]_runVars /\ [CompileNext]_compileVars
         /\ [LedgerNext]_ledgerVars /\ [ExtNext]_extVars /\ [HostNext]_hostVars
         /\ [MoveNext]_moveVars /\ [AuditNext]_auditVars
         /\ [DbNext]_dbVars /\ [RestoreNext]_restoreVars
<1>1. UNCHANGED queueVars => UNCHANGED runVars
  BY DEF queueVars, runVars
<1>2. CASE CoreNext
  BY <1>1, <1>2, Zenon DEF CoreNext
<1>3. CASE UNCHANGED coreVars
  BY <1>1, <1>3, Zenon DEF coreVars
<1> QED BY <1>2, <1>3

(* Every component of the composition behaves as its own specification     *)
(* says, whichever of them moves.                                          *)
THEOREM ComponentsKept ==
  CoreSpec => /\ QueueSpec /\ CompileSpec /\ LedgerSpec /\ ExtSpec /\ HostSpec
              /\ MoveSpec /\ AuditSpec /\ DbSpec /\ RestoreSpec
<1>1. CoreInit => /\ QueueInit /\ CompileInit /\ LedgerInit /\ ExtInit /\ HostInit
                  /\ MoveInit /\ AuditInit /\ DbInit /\ RestoreInit
  BY DEF CoreInit
<1>2. [CoreNext]_coreVars =>
        /\ [QueueNext]_runVars /\ [CompileNext]_compileVars
        /\ [LedgerNext]_ledgerVars /\ [ExtNext]_extVars /\ [HostNext]_hostVars
        /\ [MoveNext]_moveVars /\ [AuditNext]_auditVars
        /\ [DbNext]_dbVars /\ [RestoreNext]_restoreVars
  BY CoreStep
<1>3. CoreSpec => CoreInit /\ [][CoreNext]_coreVars
  BY DEF CoreSpec, coreVars
<1> QED BY <1>1, <1>2, <1>3, PTL
        DEF QueueSpec, CompileSpec, LedgerSpec, ExtSpec, HostSpec, MoveSpec, AuditSpec,
            DbSpec, RestoreSpec

(* CoreTypeOK: no step of any component - a refused statement, a crash, a  *)
(* recovery - leaves a value that its code cannot hold.                    *)
THEOREM CoreTypeCorrect == CoreSpec => []CoreTypeOK
<1>1. LedgerSpec => []LedgerTypeOK
  <2>1. LedgerInv => LedgerTypeOK
    BY DEF LedgerInv
  <2> QED BY <2>1, LedgerInitInv, LedgerInvStep, PTL DEF LedgerSpec
<1>2. ExtSpec => []ExtTypeOK
  <2>1. ExtInv => ExtTypeOK
    BY DEF ExtInv
  <2> QED BY <2>1, AlwaysInOrder, PTL
<1>3. HostSpec => []HostTypeOK
  <2>1. HostInv => HostTypeOK
    BY DEF HostInv
  <2> QED BY <2>1, HostInitInv, HostInvStep, PTL DEF HostSpec
<1>4. AuditSpec => []AuditTypeOK
  <2>1. AuditInv => AuditTypeOK
    BY DEF AuditInv
  <2>2. AuditInv /\ [AuditNext]_auditVars => AuditInv'
    BY InvStep
  <2> QED BY <2>1, <2>2, InitInv, PTL DEF AuditSpec
<1>5. RestoreSpec => []RestoreTypeOK
  <2>1. RestoreInv => RestoreTypeOK
    BY DEF RestoreInv
  <2> QED BY <2>1, RestoreAlwaysInv, PTL
<1>6. /\ RunTypeOK /\ CompileTypeOK /\ LedgerTypeOK /\ ExtTypeOK /\ HostTypeOK
      /\ MoveTypeOK /\ AuditTypeOK /\ DbTypeOK /\ RestoreTypeOK
      => CoreTypeOK
  BY DEF CoreTypeOK
<1> QED BY <1>1, <1>2, <1>3, <1>4, <1>5, <1>6, ComponentsKept, QueueTypeCorrect,
           SortTypeCorrect, MoveTypeCorrect, DbTypeCorrect, PTL

(* What each component promises, all of it at once: whichever of them      *)
(* moves, the promises of the others stand.                                *)
THEOREM PromisesCompose ==
  CoreSpec => /\ [](/\ LocksMatch /\ QueueFair
                    /\ CompilesRight /\ LeastOrder
                    /\ OncePerWindow /\ OnceAndHonest
                    /\ MoveSettled /\ CheckpointKept
                    /\ NothingLost /\ HonestOutcome /\ RestoreSafe)
              /\ ImplementsLocks /\ ImplementsOutcome
              /\ RunnersBounded /\ SourceLeavesLast
<1> QED BY ComponentsKept, LocksAgree, QueueAlwaysFair, Refinement, CompilesAlwaysRight,
           OrderIsFirst, ExecutesOncePerWindow, AlwaysOnceAndHonest,
           RequestsImplementOutcome, RunnersAlwaysBounded, RowsAgree, SourceAlwaysLast,
           CheckpointAlwaysKept, NeverLost, OutcomesHonest, RestoreAlwaysSafe, PTL
=============================================================================
