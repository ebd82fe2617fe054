----------------------- MODULE WorkflowEngine_proofs -----------------------
(***************************************************************************)
(* The safety properties of WorkflowEngine, for every set of runs, labels  *)
(* and label sets, every graph with an order that Compile can return, and  *)
(* any number of failing calls, crashes and starts of the service.         *)
(***************************************************************************)
EXTENDS WorkflowEngine, WorkflowQueue_proofs, FiniteSetTheorems

(* The calls before an attempt of the node at hand is recorded, those of   *)
(* an attempt, and those after it up to the node's outcome.                *)
Early == {"head", "skip", "begin", "conflict"}
Trying == {"attempt", "exec"}
Tried == {"started", "poll", "post", "decide", "backoff", "retry", "settle",
          "record"}
Routing == {"route", "terminate"}
Open == {"dispatching", "running", "retrying"}

(* A goroutine works on a run that is claimed and not ended, it starts     *)
(* afresh, and a run that is not claimed yet has done nothing.             *)
Claimed(r) ==
  /\ pc[r] = "idle" => mem[r] = Fresh
  /\ pc[r] # "idle" => status[r] \in {"running", "cancelling"}
  /\ status[r] \in {"absent", "queued"} => \A n \in Nodes :
       /\ step[r][n] = (IF status[r] = "absent" THEN "absent" ELSE "pending")
       /\ launches[r][n] = 0

(* The walk through the order: what is behind has its outcome, which the   *)
(* goroutine remembers; what is ahead has not been touched.                *)
Behind(r) ==
  pc[r] # "idle" => \A j \in DOMAIN Order : j < mem[r].at =>
    step[r][Order[j]] \in Settled /\ mem[r].states[Order[j]] = step[r][Order[j]]

Ahead(r) ==
  pc[r] # "idle" => \A j \in DOMAIN Order : j > mem[r].at =>
    /\ launches[r][Order[j]] = 0
    /\ \/ step[r][Order[j]] = "pending"
       \/ pc[r] = "finish" /\ step[r][Order[j]] = "skipped"
    /\ mem[r].states[Order[j]] = "unsettled"

(* The row of the node at hand. *)
Here(r) ==
  /\ pc[r] \in Early => step[r][Node(r)] = "pending"
  /\ pc[r] \in Early \cup Trying \cup Tried => mem[r].states[Node(r)] = "unsettled"
  /\ pc[r] \in Trying \cup Tried => step[r][Node(r)] \in Open
  /\ pc[r] \in Routing =>
       /\ step[r][Node(r)] \in {"succeeded", "failed"}
       /\ mem[r].states[Node(r)] = step[r][Node(r)]
  /\ pc[r] = "terminate" => Kind[Node(r)] = "terminate" /\ step[r][Node(r)] = "succeeded"

(* A failure is remembered, and a verdict is not reached with open steps.  *)
Judged(r) ==
  /\ \A n \in Nodes : mem[r].states[n] = "failed" => mem[r].failure
  /\ pc[r] = "record" => mem[r].verdict # "succeeded"
  /\ pc[r] = "finish" /\ mem[r].verdict = "failed" =>
       \A n \in Nodes : step[r][n] \in Settled \cup {"pending"}
  /\ pc[r] = "finish" /\ mem[r].verdict = "succeeded" =>
       /\ \A n \in Nodes : step[r][n] \in Settled
       /\ \A n \in Nodes : step[r][n] = "failed" =>
            \E t \in Nodes : /\ Kind[t] = "terminate" /\ TermStatus[t] = "succeeded"
                             /\ step[r][t] = "succeeded"

(* Attempts and launches of the node at hand. *)
Counted(r) ==
  /\ pc[r] # "idle" => mem[r].attempt <= MaxAttempts[Node(r)]
  /\ pc[r] \in {"backoff", "retry"} => mem[r].attempt < MaxAttempts[Node(r)]
  /\ pc[r] \in Early \cup Trying => launches[r][Node(r)] < mem[r].attempt
  /\ pc[r] \in Tried => launches[r][Node(r)] <= mem[r].attempt
  /\ \A n \in Nodes : launches[r][n] <= MaxAttempts[n]

(* What was dispatched had been activated, by outlets that exclude each    *)
(* other.                                                                  *)
Chosen(r) ==
  /\ pc[r] = "begin" => Activated(Node(r), mem[r])
  /\ pc[r] # "idle" => \A d \in Deps :
       d.to \in Dispatched(r) /\ d.to \notin AnyJoin => d.outlet \in mem[r].routes[d.from]
  /\ \A n \in Nodes : ~({"true", "false"} \subseteq mem[r].routes[n])
  /\ ~({"true", "false"} \subseteq mem[r].selected)

(* The outcomes of a node whose data a link can carry. *)
Produced(k) == {"succeeded"} \cup (IF k.error THEN {"failed"} ELSE {})

(* The properties of the run, one run at a time. *)
InputsOf(r) ==
  \A n \in Dispatched(r) :
    /\ \A d \in Deps : d.to = n => step[r][d.from] \in Settled
    /\ \A k \in Links : k.to = n =>
         step[r][k.from] \in Produced(k)

BranchOf(r) ==
  \A d, e \in Deps :
    /\ d.from = e.from /\ d.outlet = "true" /\ e.outlet = "false"
    /\ {d.to, e.to} \cap AnyJoin = {}
    => ~({d.to, e.to} \subseteq Dispatched(r))

EndOf(r) ==
  \A n \in Nodes :
    /\ status[r] \in {"succeeded", "failed"} => step[r][n] \in Settled
    /\ status[r] = "succeeded" /\ step[r][n] = "failed" =>
         \E t \in Nodes : /\ Kind[t] = "terminate" /\ TermStatus[t] = "succeeded"
                          /\ step[r][t] = "succeeded"

Local(r) ==
  /\ Claimed(r) /\ Behind(r) /\ Ahead(r) /\ Here(r) /\ Judged(r)
  /\ Counted(r) /\ Chosen(r) /\ InputsOf(r) /\ BranchOf(r) /\ EndOf(r)

(* Without a failing call: every claimed run has its goroutine, and a      *)
(* process outlives the call that waits for it only when the service       *)
(* closes, on the way to needs_attention.                                  *)
Attended ==
  mode = "up" => \A r \in Runs :
    /\ status[r] \in {"running", "cancelling"} => pc[r] # "idle"
    /\ pc[r] = "conflict" => status[r] = "cancelling"

Leaving == {"post", "decide", "settle", "record", "finish"}

Watched ==
  \A p \in live :
    /\ status[p[1]] \in Owning
    /\ pc[p[1]] \in {"started", "poll"} => p = Current(p[1])
    /\ pc[p[1]] \notin {"idle", "started", "poll"} =>
         /\ mode = "closing" /\ pc[p[1]] \in Leaving
         /\ pc[p[1]] \in {"record", "finish"} => mem[p[1]].verdict = "needs_attention"

OneEach == \A p, q \in live : p # q => p[1] # q[1]


----------------------------------------------------------------------------
(* The order *)

(* Compile's order has every node once, and the source of an edge first.   *)
LEMMA OrderFacts ==
  /\ Len(Order) \in Nat \ {0} /\ DOMAIN Order = 1..Len(Order)
  /\ Order \in [1..Len(Order) -> Nodes]
  /\ \A i, j \in DOMAIN Order : Order[i] = Order[j] => i = j
  /\ \A n \in Nodes : \E i \in DOMAIN Order : Order[i] = n
  /\ \A e \in Deps \cup Links : \A j \in DOMAIN Order : Order[j] = e.to =>
       \E i \in DOMAIN Order : Order[i] = e.from /\ i < j
<1> DEFINE L == Len(Order)
<1>1. L \in Nat \ {0} /\ DOMAIN Order = 1..L /\ Order \in [1..L -> Nodes]
  BY OrderAssumption
<1>2. IsFiniteSet(1..L) /\ Cardinality(1..L) = L
  BY <1>1, FS_Interval
<1>3. Order \in Surjection(1..L, Nodes)
  BY <1>1, OrderAssumption DEF Surjection
<1>4. Order \in Injection(1..L, Nodes)
  BY <1>1, <1>2, <1>3, OrderAssumption, FS_SurjSameCardinalityImpliesInj
<1>5. \A i, j \in 1..L : Order[i] = Order[j] => i = j
  BY <1>4 DEF Injection, IsInjective
<1> QED BY <1>1, <1>5, OrderAssumption

----------------------------------------------------------------------------
(* What the steps of a goroutine do to its run.                            *)

SameRun(r) ==
  status'[r] = status[r] /\ step'[r] = step[r] /\ launches'[r] = launches[r]

SamePlace(r) ==
  /\ mem'[r].at = mem[r].at /\ mem'[r].attempt = mem[r].attempt
  /\ mem'[r].states = mem[r].states /\ mem'[r].routes = mem[r].routes
  /\ mem'[r].failure = mem[r].failure

(* Nothing the invariant says about r changes. *)
Untouched(r) == SameRun(r) /\ pc'[r] = pc[r] /\ mem'[r] = mem[r]

(* The rows of a run keep their types. *)
RowTypes(r) ==
  /\ status[r] \in RunStatus /\ step[r] \in [Nodes -> StepStatus]
  /\ pc[r] \in PC /\ mem[r] \in Memory /\ launches[r] \in [Nodes -> Nat]

(* Other runs keep the invariant. *)
LEMMA UntouchedLocal ==
  ASSUME NEW r \in Runs, Local(r), Untouched(r)
  PROVE  Local(r)'
<1> USE DEF Local, Untouched, SameRun
<1>1. Claimed(r)'
  BY DEF Claimed
<1>2. Behind(r)' /\ Ahead(r)' /\ Here(r)'
  BY DEF Behind, Ahead, Here, Node
<1>3. Judged(r)' /\ Counted(r)'
  BY DEF Judged, Counted, Node
<1>4. Chosen(r)'
  BY DEF Chosen, Node, Activated, Dispatched
<1>5. InputsOf(r)' /\ BranchOf(r)' /\ EndOf(r)'
  BY DEF InputsOf, BranchOf, EndOf, Dispatched
<1> QED BY <1>1, <1>2, <1>3, <1>4, <1>5

(* A step that writes nothing about the run: the goroutine goes on to the  *)
(* next call about the same node, or to its last call with a verdict that  *)
(* needs no proof.                                                         *)
Moves(r) ==
  /\ SameRun(r) /\ SamePlace(r)
  /\ pc[r] \notin {"idle", "finish"} /\ pc'[r] \notin {"idle", "route"}
  /\ pc'[r] \in Early => pc[r] \in Early
  /\ pc'[r] = "begin" => Activated(Node(r), mem[r])
  /\ pc'[r] \in Trying => pc[r] \in Trying
  /\ pc'[r] \in Tried => pc[r] \in Trying \cup Tried
  /\ pc'[r] \in {"backoff", "retry"} => MoreAttempts(r)
  /\ pc'[r] = "record" => mem'[r].verdict # "succeeded"
  /\ pc'[r] = "terminate" =>
       /\ pc[r] = "route" /\ Kind[Node(r)] = "terminate"
       /\ mem[r].states[Node(r)] = "succeeded"
  /\ pc'[r] = "finish" => mem'[r].verdict \in {"cancelled", "needs_attention"}
  /\ ~({"true", "false"} \subseteq mem'[r].selected)

(* Moving on keeps the invariant. *)
LEMMA MoveLocal ==
  ASSUME NEW r \in Runs, RowTypes(r), RowTypes(r)', Local(r),
         Moves(r)
  PROVE  Local(r)'
<1> USE OrderFacts DEF Local, SameRun, SamePlace, Moves
<1>0. Node(r)' = Node(r)
  BY DEF Node
<1>1. Claimed(r)'
  BY DEF Claimed
<1>2. Behind(r)'
  BY DEF Behind
<1>2a. Ahead(r)'
  BY DEF Ahead
<1>3. Here(r)'
  BY <1>0 DEF Here, Early, Trying, Tried, Routing
<1>4. Judged(r)'
  BY DEF Judged
<1>5. Counted(r)'
  <2>1. mem[r].attempt \in Nat /\ launches[r][Node(r)] \in Nat
    BY DEF RowTypes, Memory, Node
  <2> QED BY <1>0, <2>1 DEF Counted, MoreAttempts, Early, Trying, Tried
<1>6. Chosen(r)'
  BY <1>0 DEF Chosen, Activated, Dispatched
<1>7. InputsOf(r)' /\ BranchOf(r)' /\ EndOf(r)'
  BY DEF InputsOf, BranchOf, EndOf, Dispatched
<1> QED BY <1>1, <1>2, <1>2a, <1>3, <1>4, <1>5, <1>6, <1>7

(* An active node's data was really produced. *)
LEMMA ActivatedLinks ==
  ASSUME NEW n, NEW m, Activated(n, m), NEW k \in Links, k.to = n
  PROVE  \/ m.states[k.from] = "succeeded"
         \/ m.states[k.from] = "failed" /\ k.error
BY Zenon DEF Activated

(* A step that writes a status that is not an outcome to the row of the    *)
(* node at hand: an attempt begins, runs or is given up, or the run ends   *)
(* without an outcome of the node.                                         *)
Opens(r, x) ==
  /\ status'[r] = status[r] /\ launches'[r] = launches[r]
  /\ step'[r] = [step[r] EXCEPT ![Node(r)] = x]
  /\ mem'[r].at = mem[r].at /\ mem'[r].states = mem[r].states
  /\ mem'[r].routes = mem[r].routes /\ mem'[r].failure = mem[r].failure
  /\ mem'[r].selected = mem[r].selected
  /\ \/ /\ pc[r] = "begin" /\ pc'[r] = "attempt"
        /\ mem'[r].attempt = mem[r].attempt
     \/ /\ pc[r] = "retry" /\ pc'[r] = "attempt"
        /\ mem'[r].attempt = mem[r].attempt + 1
     \/ /\ pc[r] \in Tried /\ pc'[r] \in {"poll", "backoff", "finish"}
        /\ mem'[r].attempt = mem[r].attempt
  /\ pc'[r] = "backoff" => MoreAttempts(r)
  /\ pc'[r] # "finish" => x \in Open
  /\ pc'[r] = "finish" => mem'[r].verdict \in {"cancelled", "needs_attention"}

(* Writing an open status keeps the invariant; a node is dispatched only   *)
(* when it was activated, and then its inputs are settled.                 *)
LEMMA OpenLocal ==
  ASSUME NEW r \in Runs, RowTypes(r), RowTypes(r)', Local(r),
         NEW x \in Open \cup {"cancelled", "needs_attention"}, Opens(r, x)
  PROVE  Local(r)'
<1> USE OrderFacts DEF Local, Opens
<1>0. Node(r)' = Node(r) /\ Node(r) \in Nodes /\ mem[r].at \in DOMAIN Order
  BY DEF Node, RowTypes, Memory
<1>a. \A j \in DOMAIN Order : j # mem[r].at => step'[r][Order[j]] = step[r][Order[j]]
  BY <1>0 DEF RowTypes, Node
<1>1. Claimed(r)'
  BY DEF Claimed, Tried
<1>2. Behind(r)'
  BY <1>0, <1>a DEF Behind, Tried
<1>3. Ahead(r)'
  BY <1>0, <1>a DEF Ahead, Tried
<1>4. Here(r)'
  BY <1>0 DEF Here, Early, Trying, Tried, Routing, RowTypes
<1>5. Judged(r)'
  BY DEF Judged
<1>6. Counted(r)'
  <2>1. /\ mem[r].attempt \in Nat /\ launches[r][Node(r)] \in Nat
        /\ MaxAttempts[Node(r)] \in Nat
    BY <1>0, GraphAssumption DEF RowTypes, Memory
  <2> QED BY <1>0, <2>1 DEF Counted, MoreAttempts, Early, Trying, Tried
<1>7. \A n \in Nodes : n \in Dispatched(r)' =>
        n \in Dispatched(r) \/ (n = Node(r) /\ pc[r] = "begin")
  BY <1>0 DEF Dispatched, Here, Trying, Tried, Open, RowTypes
<1>8. Chosen(r)'
  <2>1. ASSUME NEW d \in Deps, d.to = Node(r), d.to \notin AnyJoin, pc[r] = "begin"
        PROVE  d.outlet \in mem[r].routes[d.from]
    BY <2>1 DEF Chosen, Activated
  <2>2. \A d \in Deps : d.to \in Nodes
    BY GraphAssumption
  <2>3. ASSUME NEW d \in Deps, d.to \in Dispatched(r)', d.to \notin AnyJoin
        PROVE  d.outlet \in mem[r].routes[d.from]
    BY <1>7, <2>1, <2>2, <2>3 DEF Chosen, Tried
  <2> QED BY <2>3 DEF Chosen
<1>9. InputsOf(r)'
  <2>1. step[r][Node(r)] \notin Settled
    BY DEF Here, Early, Trying, Tried, Open, Settled
  <2>2. ASSUME NEW n \in Dispatched(r)', NEW d \in Deps, d.to = n
        PROVE  step'[r][d.from] \in Settled
    <3>1. d.from \in Nodes /\ n \in Nodes
      BY GraphAssumption DEF Dispatched
    <3>2. CASE n \in Dispatched(r)
      BY <2>1, <2>2, <3>1, <3>2, <1>0 DEF InputsOf, RowTypes
    <3>3. CASE n = Node(r) /\ pc[r] = "begin"
      <4>1. PICK i \in DOMAIN Order : Order[i] = d.from /\ i < mem[r].at
        BY <1>0, <2>2, <3>3 DEF Node
      <4> QED BY <1>a, <1>0, <3>3, <4>1 DEF Behind
    <3> QED BY <1>7, <3>1, <3>2, <3>3, <2>2
  <2>3. ASSUME NEW n \in Dispatched(r)', NEW k \in Links, k.to = n
        PROVE  step'[r][k.from] \in Produced(k)
    <3>1. k.from \in Nodes /\ n \in Nodes
      BY GraphAssumption DEF Dispatched
    <3>2. CASE n \in Dispatched(r)
      <4>1. step[r][k.from] \in Produced(k)
        BY <2>3, <3>2 DEF InputsOf
      <4>2. step[r][k.from] \in Settled
        BY <4>1 DEF Settled, Produced
      <4>3. step'[r][k.from] = step[r][k.from]
        BY <2>1, <3>1, <4>2, <1>0 DEF RowTypes
      <4> QED BY <4>1, <4>3
    <3>3. CASE n = Node(r) /\ pc[r] = "begin"
      <4>1. PICK i \in DOMAIN Order : Order[i] = k.from /\ i < mem[r].at
        BY <1>0, <2>3, <3>3 DEF Node
      <4>2. \/ mem[r].states[k.from] = "succeeded"
            \/ mem[r].states[k.from] = "failed" /\ k.error
        <5>1. Activated(Node(r), mem[r]) /\ k.to = Node(r)
          BY <2>3, <3>3 DEF Chosen
        <5>2. k \in Links
          OBVIOUS
        <5> HIDE DEF Local
        <5> QED BY <5>1, <5>2, ActivatedLinks
      <4>3. step'[r][k.from] = mem[r].states[k.from]
        BY <1>a, <1>0, <3>3, <4>1 DEF Behind
      <4> QED BY <4>2, <4>3 DEF Produced
    <3> QED BY <1>7, <3>1, <3>2, <3>3, <2>3
  <2> QED BY <2>2, <2>3 DEF InputsOf
<1>10. BranchOf(r)'
  <2>1. ASSUME NEW d \in Deps, NEW e \in Deps, d.from = e.from,
               d.outlet = "true", e.outlet = "false",
               {d.to, e.to} \cap AnyJoin = {}, {d.to, e.to} \subseteq Dispatched(r)'
        PROVE  FALSE
    <3>1. pc'[r] # "idle" /\ d.from \in Nodes
      BY GraphAssumption
    <3>2. d.outlet \in mem'[r].routes[d.from] /\ e.outlet \in mem'[r].routes[e.from]
      BY <1>8, <2>1, <3>1 DEF Chosen
    <3>3. {"true", "false"} \subseteq mem'[r].routes[d.from]
      BY <2>1, <3>2
    <3> QED BY <1>8, <3>1, <3>3 DEF Chosen
  <2> QED BY <2>1 DEF BranchOf
<1>11. EndOf(r)'
  BY <1>1 DEF Claimed, EndOf
<1> QED BY <1>1, <1>2, <1>3, <1>4, <1>5, <1>6, <1>8, <1>9, <1>10, <1>11

(* The outcome x of the node at hand, with the outlets R that it opens.    *)
Outcome(r, x, R) ==
  /\ status'[r] = status[r] /\ launches'[r] = launches[r]
  /\ step'[r] = [step[r] EXCEPT ![Node(r)] = x]
  /\ mem'[r].at = mem[r].at /\ mem'[r].attempt = mem[r].attempt
  /\ mem'[r].states = [mem[r].states EXCEPT ![Node(r)] = x]
  /\ mem'[r].routes = [mem[r].routes EXCEPT ![Node(r)] = R]
  /\ mem'[r].selected = mem[r].selected
  /\ ~({"true", "false"} \subseteq R)
  /\ mem[r].failure \/ x = "failed" => mem'[r].failure
  /\ pc[r] \in {"settle", "record"}
  /\ pc'[r] = "route" \/ (pc'[r] = "finish" /\ mem'[r].verdict = "failed")

(* An outcome keeps the invariant: no dependant of the node is dispatched  *)
(* yet, so the outlets are new to all of them.                             *)
LEMMA OutcomeLocal ==
  ASSUME NEW r \in Runs, RowTypes(r), RowTypes(r)', Local(r),
         NEW x \in {"succeeded", "failed"}, NEW R \in SUBSET Outlets,
         Outcome(r, x, R)
  PROVE  Local(r)'
<1> USE OrderFacts DEF Local, Outcome
<1>0. /\ Node(r)' = Node(r) /\ Node(r) \in Nodes
      /\ mem[r].at \in DOMAIN Order /\ Node(r) = Order[mem[r].at]
  BY DEF Node, RowTypes, Memory
<1>a. \A n \in Nodes : n # Node(r) =>
        step'[r][n] = step[r][n] /\ mem'[r].states[n] = mem[r].states[n]
          /\ mem'[r].routes[n] = mem[r].routes[n]
  BY <1>0 DEF RowTypes, Memory
<1>b. /\ step'[r][Node(r)] = x /\ mem'[r].states[Node(r)] = x
      /\ mem'[r].routes[Node(r)] = R
  BY <1>0 DEF RowTypes, Memory
<1>c. \A j \in DOMAIN Order : j # mem[r].at =>
        Order[j] \in Nodes /\ Order[j] # Node(r)
  BY <1>0
<1>1. Claimed(r)'
  BY DEF Claimed
<1>2. Behind(r)'
  BY <1>0, <1>a, <1>c DEF Behind
<1>3. Ahead(r)'
  BY <1>0, <1>a, <1>c DEF Ahead
<1>4. Here(r)'
  BY <1>0, <1>b DEF Here, Early, Trying, Tried, Routing
<1>5. Judged(r)'
  <2>1. \A n \in Nodes : mem'[r].states[n] = "failed" => mem'[r].failure
    BY <1>a, <1>b DEF Judged
  <2>2. ASSUME NEW n \in Nodes, pc'[r] = "finish"
        PROVE  step'[r][n] \in Settled \cup {"pending"}
    <3>1. PICK j \in DOMAIN Order : Order[j] = n
      OBVIOUS
    <3>2. CASE j = mem[r].at
      BY <1>0, <1>b, <3>1, <3>2 DEF Settled
    <3>3. CASE j < mem[r].at
      BY <1>0, <1>a, <1>c, <3>1, <3>3 DEF Behind, Settled
    <3>4. CASE j > mem[r].at
      BY <1>0, <1>a, <1>c, <3>1, <3>4 DEF Ahead, Settled
    <3> QED BY <1>0, <3>2, <3>3, <3>4
  <2> QED BY <2>1, <2>2 DEF Judged
<1>6. Counted(r)'
  BY <1>0 DEF Counted, Early, Trying, Tried
<1>7. \A n \in Nodes : n \in Dispatched(r)' => n \in Dispatched(r)
  BY <1>0, <1>a DEF Dispatched, Here, Trying, Tried, Open
<1>8. Chosen(r)'
  <2>1. ASSUME NEW d \in Deps, d.to \in Dispatched(r)', d.to \notin AnyJoin
        PROVE  d.outlet \in mem'[r].routes[d.from]
    <3>1. d.to \in Nodes /\ d.from \in Nodes /\ d.to \in Dispatched(r)
      BY <1>7, <2>1, GraphAssumption
    <3>2. d.outlet \in mem[r].routes[d.from]
      BY <2>1, <3>1 DEF Chosen
    <3>3. PICK j \in DOMAIN Order : Order[j] = d.to
      BY <3>1
    <3>4. j <= mem[r].at
      <4>1. ~(j > mem[r].at)
        BY <3>1, <3>3 DEF Ahead, Dispatched
      <4> QED BY <1>0, <4>1
    <3>5. d.from # Node(r)
      <4>1. PICK i \in DOMAIN Order : Order[i] = d.from /\ i < j
        BY <3>3
      <4> QED BY <1>0, <1>c, <3>4, <4>1
    <3> QED BY <1>a, <3>1, <3>2, <3>5
  <2>2. \A n \in Nodes : ~({"true", "false"} \subseteq mem'[r].routes[n])
    <3> TAKE n \in Nodes
    <3>1. CASE n = Node(r)
      BY <1>b, <3>1
    <3>2. CASE n # Node(r)
      <4>1. ~({"true", "false"} \subseteq mem[r].routes[n])
        BY DEF Chosen
      <4> QED BY <1>a, <3>2, <4>1
    <3> QED BY <3>1, <3>2
  <2>3. ~({"true", "false"} \subseteq mem'[r].selected)
    BY DEF Chosen
  <2> QED BY <2>1, <2>2, <2>3 DEF Chosen
<1>9. InputsOf(r)'
  <2>1. step[r][Node(r)] \notin Settled
    BY DEF Here, Early, Trying, Tried, Open, Settled
  <2>2. ASSUME NEW n \in Dispatched(r)', NEW d \in Deps, d.to = n
        PROVE  step'[r][d.from] \in Settled
    <3>1. d.from \in Nodes /\ n \in Dispatched(r)
      BY <1>7, GraphAssumption DEF Dispatched
    <3> QED BY <1>a, <2>1, <2>2, <3>1 DEF InputsOf
  <2>3. ASSUME NEW n \in Dispatched(r)', NEW k \in Links, k.to = n
        PROVE  step'[r][k.from] \in Produced(k)
    <3>1. k.from \in Nodes /\ n \in Dispatched(r)
      BY <1>7, GraphAssumption DEF Dispatched
    <3>2. step[r][k.from] \in Produced(k)
      BY <2>3, <3>1 DEF InputsOf
    <3>3. step[r][k.from] \in Settled
      BY <3>2 DEF Settled, Produced
    <3> QED BY <1>a, <2>1, <3>1, <3>2, <3>3
  <2> QED BY <2>2, <2>3 DEF InputsOf
<1>10. BranchOf(r)'
  <2>1. \A n \in Nodes : n \in Dispatched(r)' => n \in Dispatched(r)
    BY <1>7
  <2> QED BY <2>1, GraphAssumption DEF BranchOf, Dispatched
<1>11. EndOf(r)'
  BY <1>1 DEF Claimed, EndOf
<1> QED BY <1>1, <1>2, <1>3, <1>4, <1>5, <1>6, <1>8, <1>9, <1>10, <1>11

(* The walk goes on behind a node that has its outcome, to the next node   *)
(* or to the verdict of the whole run.                                     *)
Advances(r) ==
  /\ status'[r] = status[r] /\ launches'[r] = launches[r]
  /\ mem'[r].routes = mem[r].routes /\ mem'[r].failure = mem[r].failure
  /\ ~({"true", "false"} \subseteq mem'[r].selected)
  /\ \/ /\ pc[r] = "skip"
        /\ step'[r] = [step[r] EXCEPT ![Node(r)] = "skipped"]
        /\ mem'[r].states = [mem[r].states EXCEPT ![Node(r)] = "skipped"]
     \/ /\ pc[r] = "route"
        /\ step'[r] = step[r] /\ mem'[r].states = mem[r].states
  /\ \/ /\ mem[r].at < Len(Order) /\ pc'[r] = "head"
        /\ mem'[r].at = mem[r].at + 1 /\ mem'[r].attempt = 1
     \/ /\ ~(mem[r].at < Len(Order)) /\ pc'[r] = "finish"
        /\ mem'[r].at = mem[r].at /\ mem'[r].attempt = mem[r].attempt
        /\ mem'[r].verdict = IF mem[r].failure THEN "failed" ELSE "succeeded"

(* Going on keeps the invariant; at the end every node has its outcome.    *)
LEMMA AdvanceLocal ==
  ASSUME NEW r \in Runs, RowTypes(r), RowTypes(r)', Local(r),
         Advances(r)
  PROVE  Local(r)'
<1> USE OrderFacts DEF Local, Advances
<1>0. /\ Node(r) \in Nodes /\ mem[r].at \in DOMAIN Order /\ Node(r) = Order[mem[r].at]
      /\ mem'[r].at \in DOMAIN Order /\ mem[r].at \in Nat /\ mem'[r].at \in Nat
      /\ Node(r)' = Order[mem'[r].at]
  BY DEF Node, RowTypes, Memory
<1>a. \A n \in Nodes : n # Node(r) =>
        step'[r][n] = step[r][n] /\ mem'[r].states[n] = mem[r].states[n]
  BY <1>0 DEF RowTypes, Memory
<1>b. step'[r][Node(r)] \in Settled /\ mem'[r].states[Node(r)] = step'[r][Node(r)]
  BY <1>0 DEF RowTypes, Memory, Here, Routing, Settled
<1>c. \A j \in DOMAIN Order : j # mem[r].at =>
        Order[j] \in Nodes /\ Order[j] # Node(r)
  BY <1>0
<1>d. \A j \in DOMAIN Order : j <= mem[r].at =>
        step'[r][Order[j]] \in Settled /\ mem'[r].states[Order[j]] = step'[r][Order[j]]
  <2> TAKE j \in DOMAIN Order
  <2>1. CASE j = mem[r].at
    BY <1>0, <1>b, <2>1
  <2>2. CASE j < mem[r].at
    BY <1>0, <1>a, <1>c, <2>2 DEF Behind
  <2> QED BY <1>0, <2>1, <2>2
<1>e. \A j \in DOMAIN Order : j > mem[r].at =>
        /\ step'[r][Order[j]] = "pending" /\ launches'[r][Order[j]] = 0
        /\ mem'[r].states[Order[j]] = "unsettled"
  BY <1>0, <1>a, <1>c DEF Ahead
<1>1. Claimed(r)'
  BY DEF Claimed
<1>2. Behind(r)'
  BY <1>0, <1>d DEF Behind
<1>3. Ahead(r)'
  BY <1>0, <1>e DEF Ahead
<1>4. Here(r)'
  BY <1>0, <1>e DEF Here, Early, Trying, Tried, Routing
<1>5. \A n \in Nodes : mem'[r].states[n] = "failed" => mem'[r].failure
  <2>1. mem'[r].states[Node(r)] = "failed" => mem[r].states[Node(r)] = "failed"
    BY <1>0 DEF RowTypes, Memory
  <2> QED BY <1>0, <1>a, <2>1 DEF Judged
<1>6. ASSUME pc'[r] = "finish", NEW n \in Nodes
      PROVE  step'[r][n] \in Settled /\ mem'[r].states[n] = step'[r][n]
  <2>1. PICK j \in DOMAIN Order : Order[j] = n
    OBVIOUS
  <2> QED BY <1>0, <1>d, <1>6, <2>1
<1>7. Judged(r)'
  <2>1. pc'[r] = "finish" /\ mem'[r].verdict = "succeeded" => ~mem'[r].failure
    OBVIOUS
  <2> QED BY <1>5, <1>6, <2>1 DEF Judged
<1>8. Counted(r)'
  <2>1. MaxAttempts[Node(r)'] \in Nat \ {0}
    BY <1>0, GraphAssumption
  <2>2. pc'[r] = "head" => launches'[r][Node(r)'] = 0
    BY <1>0, <1>e
  <2> QED BY <1>0, <2>1, <2>2 DEF Counted, Early, Trying, Tried
<1>9. \A n \in Nodes : n \in Dispatched(r)' => n \in Dispatched(r)
  <2>1. Node(r) \in Dispatched(r)' => Node(r) \in Dispatched(r)
    BY <1>0 DEF Dispatched, RowTypes
  <2> QED BY <1>a, <2>1 DEF Dispatched
<1>10. Chosen(r)'
  <2>1. \A d \in Deps : d.to \in Nodes
    BY GraphAssumption
  <2> QED BY <1>9, <2>1 DEF Chosen
<1>11. InputsOf(r)'
  <2>1. step[r][Node(r)] \notin Settled \/ step'[r] = step[r]
    BY DEF Here, Early, Settled
  <2>2. \A n \in Nodes : step[r][n] \in Settled => step'[r][n] = step[r][n]
    BY <1>a, <2>1
  <2>3. \A n \in Nodes : step[r][n] \in {"succeeded", "failed"} => step'[r][n] = step[r][n]
    BY <2>2 DEF Settled
  <2>4. \A n \in Dispatched(r)' : n \in Dispatched(r)
    BY <1>9 DEF Dispatched
  <2>5. \A d \in Deps \cup Links : d.from \in Nodes
    BY GraphAssumption
  <2>6. ASSUME NEW n \in Dispatched(r)', NEW k \in Links, k.to = n
        PROVE  step'[r][k.from] \in Produced(k)
    <3>1. step[r][k.from] \in Produced(k)
      BY <2>4, <2>6 DEF InputsOf
    <3> QED BY <2>3, <2>5, <3>1 DEF Produced
  <2>7. ASSUME NEW n \in Dispatched(r)', NEW d \in Deps, d.to = n
        PROVE  step'[r][d.from] \in Settled
    BY <2>2, <2>4, <2>5, <2>7 DEF InputsOf
  <2> QED BY <2>6, <2>7 DEF InputsOf
<1>12. BranchOf(r)'
  BY <1>9, GraphAssumption DEF BranchOf, Dispatched
<1>13. EndOf(r)'
  BY <1>1 DEF Claimed, EndOf
<1> QED BY <1>1, <1>2, <1>3, <1>4, <1>7, <1>8, <1>10, <1>11, <1>12, <1>13

(* The goroutine ends without a word: the run stays as it is. *)
Returns(r) == SameRun(r) /\ pc'[r] = "idle" /\ mem'[r] = Fresh

(* A goroutine that is gone leaves nothing to be said. *)
LEMMA ReturnLocal ==
  ASSUME NEW r \in Runs, RowTypes(r), RowTypes(r)', Local(r),
         Returns(r)
  PROVE  Local(r)'
<1> USE DEF Local, SameRun, Returns
<1>1. Claimed(r)'
  BY DEF Claimed
<1>2. Behind(r)' /\ Ahead(r)' /\ Here(r)'
  BY DEF Behind, Ahead, Here, Early, Trying, Tried, Routing
<1>3. Judged(r)' /\ Counted(r)'
  BY DEF Judged, Counted, Early, Trying, Tried, Fresh
<1>4. Chosen(r)'
  BY DEF Chosen, Fresh
<1>5. InputsOf(r)' /\ BranchOf(r)' /\ EndOf(r)'
  BY DEF InputsOf, BranchOf, EndOf, Dispatched
<1> QED BY <1>1, <1>2, <1>3, <1>4, <1>5

(* UPDATE ... SET status='skipped' touches no node that was dispatched.    *)
SkipsPending(r) ==
  step'[r] = [n \in Nodes |-> IF step[r][n] = "pending" THEN "skipped" ELSE step[r][n]]

(* What was settled or dispatched stays so. *)
LEMMA SkipKeeps ==
  ASSUME NEW r \in Runs, SkipsPending(r), InputsOf(r), BranchOf(r)
  PROVE  /\ Dispatched(r)' = Dispatched(r)
         /\ InputsOf(r)' /\ BranchOf(r)'
         /\ \A n \in Nodes : step[r][n] \in Settled => step'[r][n] = step[r][n]
<1> USE DEF SkipsPending
<1>1. Dispatched(r)' = Dispatched(r)
  BY DEF Dispatched
<1>2. \A n \in Nodes : step[r][n] \in Settled => step'[r][n] = step[r][n]
  BY DEF Settled
<1>3. InputsOf(r)'
  <2>1. \A n \in Nodes : step[r][n] \in {"succeeded", "failed"} => step'[r][n] = step[r][n]
    BY <1>2 DEF Settled
  <2> QED BY <1>1, <1>2, <2>1, GraphAssumption DEF InputsOf, Produced
<1>4. BranchOf(r)'
  BY <1>1 DEF BranchOf
<1> QED BY <1>1, <1>2, <1>3, <1>4

(* The outcome of the run is written. *)
Finishes(r) ==
  /\ pc[r] = "finish" /\ status'[r] = mem[r].verdict /\ launches'[r] = launches[r]
  /\ IF mem[r].verdict = "succeeded" THEN step'[r] = step[r] ELSE SkipsPending(r)
  /\ pc'[r] = "idle" /\ mem'[r] = Fresh

(* The end of a run keeps the invariant: no open step is left behind.      *)
LEMMA FinishLocal ==
  ASSUME NEW r \in Runs, RowTypes(r), RowTypes(r)', Local(r),
         Finishes(r)
  PROVE  Local(r)'
<1> USE DEF Local, Finishes
<1>1. mem[r].verdict \in EndStatus \cup {"needs_attention"}
  BY DEF RowTypes, Memory
<1>2. Claimed(r)'
  BY <1>1 DEF Claimed, EndStatus
<1>3. Behind(r)' /\ Ahead(r)' /\ Here(r)'
  BY DEF Behind, Ahead, Here, Early, Trying, Tried, Routing
<1>4. Judged(r)' /\ Counted(r)'
  BY DEF Judged, Counted, Early, Trying, Tried, Fresh
<1>5. Chosen(r)'
  BY DEF Chosen, Fresh
<1>6. InputsOf(r)' /\ BranchOf(r)'
  <2>1. CASE mem[r].verdict = "succeeded"
    BY <2>1 DEF InputsOf, BranchOf, Dispatched
  <2>2. CASE mem[r].verdict # "succeeded"
    BY <2>2, SkipKeeps
  <2> QED BY <2>1, <2>2
<1>7. EndOf(r)'
  <2>1. CASE mem[r].verdict = "succeeded"
    BY <2>1 DEF EndOf, Judged
  <2>2. CASE mem[r].verdict = "failed"
    <3>1. \A n \in Nodes : step'[r][n] \in Settled
      BY <2>2 DEF SkipsPending, Judged, Settled
    <3> QED BY <2>2, <3>1 DEF EndOf
  <2>3. CASE mem[r].verdict \notin {"succeeded", "failed"}
    BY <2>3 DEF EndOf
  <2> QED BY <2>1, <2>2, <2>3
<1> QED BY <1>2, <1>3, <1>4, <1>5, <1>6, <1>7

(* A terminate node: the rest is skipped, the verdict is its own. *)
Terminates(r) ==
  /\ pc[r] = "terminate" /\ pc'[r] = "finish"
  /\ status'[r] = status[r] /\ launches'[r] = launches[r] /\ SkipsPending(r)
  /\ SamePlace(r) /\ mem'[r].selected = mem[r].selected
  /\ mem'[r].verdict = TermStatus[Node(r)]

(* Ending the workflow early keeps the invariant. *)
LEMMA TerminateLocal ==
  ASSUME NEW r \in Runs, RowTypes(r), RowTypes(r)', Local(r),
         Terminates(r)
  PROVE  Local(r)'
<1> USE OrderFacts DEF Local, SamePlace, Terminates
<1>0. /\ Node(r)' = Node(r) /\ Node(r) \in Nodes
      /\ mem[r].at \in DOMAIN Order /\ Node(r) = Order[mem[r].at]
  BY DEF Node, RowTypes, Memory
<1>1. Claimed(r)'
  BY DEF Claimed
<1>2. /\ Dispatched(r)' = Dispatched(r) /\ InputsOf(r)' /\ BranchOf(r)'
      /\ \A n \in Nodes : step[r][n] \in Settled => step'[r][n] = step[r][n]
  BY SkipKeeps
<1>3. Behind(r)'
  <2>1. \A j \in DOMAIN Order : Order[j] \in Nodes
    OBVIOUS
  <2> QED BY <1>2, <2>1 DEF Behind
<1>4. Ahead(r)'
  <2>1. \A j \in DOMAIN Order : Order[j] \in Nodes
    OBVIOUS
  <2> QED BY <2>1 DEF Ahead, SkipsPending
<1>5. Here(r)'
  BY DEF Here, Early, Trying, Tried, Routing
<1>6. \A n \in Nodes : step'[r][n] \in Settled
  <2> TAKE n \in Nodes
  <2>1. PICK j \in DOMAIN Order : Order[j] = n
    OBVIOUS
  <2>2. CASE j = mem[r].at
    BY <1>0, <1>2, <2>1, <2>2 DEF Here, Routing, Settled
  <2>3. CASE j < mem[r].at
    BY <1>0, <1>2, <2>1, <2>3 DEF Behind
  <2>4. CASE j > mem[r].at
    <3>1. step[r][n] = "pending"
      BY <1>0, <2>1, <2>4 DEF Ahead
    <3> QED BY <3>1 DEF SkipsPending, Settled
  <2> QED BY <1>0, <2>2, <2>3, <2>4
<1>7. Judged(r)'
  <2>1. Kind[Node(r)] = "terminate" /\ step'[r][Node(r)] = "succeeded"
    BY <1>0, <1>2 DEF Here, Settled
  <2>2. \A n \in Nodes : mem'[r].states[n] = "failed" => mem'[r].failure
    BY DEF Judged
  <2> QED BY <1>0, <1>6, <2>1, <2>2 DEF Judged
<1>8. Counted(r)'
  BY <1>0 DEF Counted, Early, Trying, Tried
<1>9. Chosen(r)'
  BY <1>2 DEF Chosen
<1>10. EndOf(r)'
  BY <1>1 DEF Claimed, EndOf
<1> QED BY <1>1, <1>2, <1>3, <1>4, <1>5, <1>7, <1>8, <1>9, <1>10

(* One more process for the node at hand. *)
Launches(r) ==
  /\ pc[r] = "exec" /\ pc'[r] = "started" /\ mem'[r] = mem[r]
  /\ status'[r] = status[r] /\ step'[r] = step[r]
  /\ launches'[r] = [launches[r] EXCEPT ![Node(r)] = @ + 1]

(* A launch keeps the invariant: it is counted against the attempt.        *)
LEMMA LaunchLocal ==
  ASSUME NEW r \in Runs, RowTypes(r), RowTypes(r)', Local(r),
         Launches(r)
  PROVE  Local(r)'
<1> USE OrderFacts DEF Local, Launches
<1>0. /\ Node(r)' = Node(r) /\ Node(r) \in Nodes
      /\ mem[r].at \in DOMAIN Order /\ Node(r) = Order[mem[r].at]
  BY DEF Node, RowTypes, Memory
<1>a. \A n \in Nodes : n # Node(r) => launches'[r][n] = launches[r][n]
  BY <1>0 DEF RowTypes
<1>b. launches'[r][Node(r)] = launches[r][Node(r)] + 1 /\ launches[r][Node(r)] \in Nat
  BY <1>0 DEF RowTypes
<1>1. Claimed(r)'
  BY DEF Claimed
<1>2. Behind(r)'
  BY DEF Behind
<1>3. Ahead(r)'
  <2>1. \A j \in DOMAIN Order : j > mem[r].at =>
          Order[j] \in Nodes /\ Order[j] # Node(r)
    BY <1>0
  <2> QED BY <1>a, <2>1 DEF Ahead
<1>4. Here(r)'
  BY <1>0 DEF Here, Early, Trying, Tried, Routing
<1>5. Judged(r)'
  BY DEF Judged
<1>6. Counted(r)'
  <2>1. mem[r].attempt \in Nat /\ MaxAttempts[Node(r)] \in Nat
    BY <1>0, GraphAssumption DEF RowTypes, Memory
  <2>2. launches'[r][Node(r)] <= mem[r].attempt
    BY <1>b, <2>1 DEF Counted, Trying
  <2>3. mem[r].attempt <= MaxAttempts[Node(r)]
    BY DEF Counted
  <2>4. \A n \in Nodes : launches'[r][n] <= MaxAttempts[n]
    BY <1>a, <1>b, <2>1, <2>2, <2>3 DEF Counted
  <2> QED BY <1>0, <2>2, <2>3, <2>4 DEF Counted, Early, Trying, Tried
<1>7. Chosen(r)'
  BY DEF Chosen, Dispatched
<1>8. InputsOf(r)' /\ BranchOf(r)' /\ EndOf(r)'
  BY DEF InputsOf, BranchOf, EndOf, Dispatched
<1> QED BY <1>1, <1>2, <1>3, <1>4, <1>5, <1>6, <1>7, <1>8

----------------------------------------------------------------------------
(* Types *)

Verdicts == EndStatus \cup {"needs_attention"}
States == {"unsettled", "succeeded", "failed", "skipped"}

(* The assignments to a goroutine's variables. *)
LEMMA MemoryKept ==
  ASSUME NEW m \in Memory
  PROVE  /\ m.at \in DOMAIN Order /\ m.err \in Err /\ m.verdict \in Verdicts
         /\ m.selected \in SUBSET Outlets
         /\ \A e \in Err : [m EXCEPT !.err = e] \in Memory
         /\ \A v \in Verdicts : [m EXCEPT !.verdict = v] \in Memory
         /\ \A e \in Err : \A S \in SUBSET Outlets :
              [m EXCEPT !.err = e, !.selected = S] \in Memory
         /\ [m EXCEPT !.attempt = m.attempt + 1] \in Memory
         /\ \A n \in Nodes : \A x \in States : [m EXCEPT !.states[n] = x] \in Memory
         /\ \A n \in Nodes : \A x \in States : \A R \in SUBSET Outlets :
              [m EXCEPT !.states[n] = x, !.routes[n] = R] \in Memory
         /\ \A n \in Nodes : \A x \in States : \A R \in SUBSET Outlets :
              [m EXCEPT !.failure = TRUE, !.states[n] = x, !.routes[n] = R] \in Memory
         /\ m.at < Len(Order) =>
              [m EXCEPT !.at = m.at + 1, !.attempt = 1, !.err = "none",
                        !.selected = {}] \in Memory
<1> USE OrderFacts DEF Memory, Verdicts, States
<1>1. m.at \in DOMAIN Order /\ m.err \in Err /\ m.verdict \in Verdicts
      /\ m.selected \in SUBSET Outlets
  OBVIOUS
<1>2. \A e \in Err : [m EXCEPT !.err = e] \in Memory
  OBVIOUS
<1>3. \A v \in Verdicts : [m EXCEPT !.verdict = v] \in Memory
  OBVIOUS
<1>4. \A e \in Err : \A S \in SUBSET Outlets :
        [m EXCEPT !.err = e, !.selected = S] \in Memory
  OBVIOUS
<1>5. [m EXCEPT !.attempt = m.attempt + 1] \in Memory
  <2>1. m.attempt + 1 \in Nat
    OBVIOUS
  <2>2. \A a \in Nat : [m EXCEPT !.attempt = a] \in Memory
    OBVIOUS
  <2> QED BY <2>1, <2>2
<1>6. \A n \in Nodes : \A x \in States : [m EXCEPT !.states[n] = x] \in Memory
  OBVIOUS
<1>7. \A n \in Nodes : \A x \in States : \A R \in SUBSET Outlets :
        [m EXCEPT !.states[n] = x, !.routes[n] = R] \in Memory
  OBVIOUS
<1>8. \A n \in Nodes : \A x \in States : \A R \in SUBSET Outlets :
        [m EXCEPT !.failure = TRUE, !.states[n] = x, !.routes[n] = R] \in Memory
  OBVIOUS
<1>9. m.at < Len(Order) =>
        [m EXCEPT !.at = m.at + 1, !.attempt = 1, !.err = "none",
                  !.selected = {}] \in Memory
  <2>1. m.at < Len(Order) => m.at + 1 \in DOMAIN Order
    OBVIOUS
  <2>2. \A i \in DOMAIN Order :
          [m EXCEPT !.at = i, !.attempt = 1, !.err = "none", !.selected = {}]
            \in Memory
    <3>1. 1 \in Nat /\ "none" \in Err /\ {} \in SUBSET Outlets
      BY DEF Err
    <3> QED BY <3>1
  <2> QED BY <2>1, <2>2
<1> QED BY <1>1, <1>2, <1>3, <1>4, <1>5, <1>6, <1>7, <1>8, <1>9

(* One call of a goroutine keeps the types. *)
LEMMA ExecuteTypes ==
  ASSUME EngineTypeOK, NEW r \in Runs, Execute(r)
  PROVE  EngineTypeOK'
<1> USE DEF EngineTypeOK, QueueTypeOK
<1>a. mem[r] \in Memory /\ Node(r) \in Nodes
  BY OrderFacts DEF Node, Memory
<1>b. UNCHANGED runVars => RunTypeOK'
  BY DEF runVars, RunTypeOK
<1>c. Fresh \in Memory
  BY OrderFacts DEF Fresh, Memory, Err, EndStatus
<1>d. Fault \/ UNCHANGED faults => faults' \in 0..MaxFaults
  BY BoundAssumption DEF Fault
<1>e. \A m \in Memory : Set(r, m) => mem' \in [Runs -> Memory]
  BY DEF Set
<1>f. \A n \in Nodes : \A s \in StepStatus :
        [step EXCEPT ![r][n] = s] \in [Runs -> [Nodes -> StepStatus]]
  OBVIOUS
<1>g. PendingSkipped(r) \in [Runs -> [Nodes -> StepStatus]]
  BY DEF PendingSkipped, StepStatus, StepResult
<1>h. \A n \in Nodes : \A s \in StepStatus :
        FinishStep(r, n, s) => RunTypeOK' /\ step' \in [Runs -> [Nodes -> StepStatus]]
  BY <1>b, <1>f DEF FinishStep
<1>i. \A n \in Nodes : BeginStep(r, n) \/ StepProcess(r, n) \/ RetryStep(r, n) =>
        RunTypeOK' /\ step' \in [Runs -> [Nodes -> StepStatus]]
  <2>1. {"dispatching", "running"} \subseteq StepStatus
    BY DEF StepStatus
  <2> TAKE n \in Nodes
  <2>2. /\ BeginStep(r, n) => step' = [step EXCEPT ![r][n] = "dispatching"]
        /\ StepProcess(r, n) => step' = [step EXCEPT ![r][n] = "running"]
        /\ RetryStep(r, n) => step' = [step EXCEPT ![r][n] = "dispatching"]
    BY DEF BeginStep, StepProcess, RetryStep
  <2>3. BeginStep(r, n) \/ StepProcess(r, n) \/ RetryStep(r, n) => UNCHANGED runVars
    BY DEF BeginStep, StepProcess, RetryStep
  <2>4. CASE step' = [step EXCEPT ![r][n] = "dispatching"]
    BY <1>b, <1>f, <2>1, <2>3, <2>4
  <2>5. CASE step' = [step EXCEPT ![r][n] = "running"]
    BY <1>b, <1>f, <2>1, <2>3, <2>5
  <2> QED BY <2>2, <2>4, <2>5
<1>1. CASE LoopHead(r)
  <2>1. RunTypeOK' /\ step' \in [Runs -> [Nodes -> StepStatus]]
    BY <1>1, <1>b DEF LoopHead, queueVars, runVars
  <2>2. pc' \in [Runs -> PC]
    BY <1>1 DEF LoopHead, Goto, PC, FinishWith, Return
  <2>3. mem' \in [Runs -> Memory]
    BY <1>1, <1>a, <1>c, <1>e, MemoryKept, GraphAssumption DEF LoopHead,
       FinishWith, Return, Verdicts, EndStatus
  <2>4. /\ mode' = mode /\ starts' = starts /\ faults' \in 0..MaxFaults
        /\ live' \in SUBSET Process /\ stopped' \in SUBSET Process
        /\ launches' \in [Runs -> [Nodes -> Nat]]
    BY <1>1, <1>a, <1>d DEF LoopHead, CallFails, CallWorks, hostVars
  <2> QED BY <2>1, <2>2, <2>3, <2>4
<1>2. CASE Skip(r)
  <2>1. RunTypeOK' /\ step' \in [Runs -> [Nodes -> StepStatus]]
    <3>1. {"skipped", "retrying", "succeeded", "failed"} \subseteq StepStatus
      BY DEF StepStatus, StepResult
    <3> QED BY <1>2, <1>a, <1>b, <1>h, <3>1 DEF Skip, queueVars, runVars
  <2>2. pc' \in [Runs -> PC]
    BY <1>2 DEF Skip, Goto, PC, Return, Advance
  <2>3. mem' \in [Runs -> Memory]
    BY <1>2, <1>a, <1>c, <1>e, MemoryKept, GraphAssumption DEF Skip, Return,
       Advance, States, Err, Verdicts, EndStatus
  <2>4. /\ mode' = mode /\ starts' = starts /\ faults' \in 0..MaxFaults
        /\ live' \in SUBSET Process /\ stopped' \in SUBSET Process
        /\ launches' \in [Runs -> [Nodes -> Nat]]
    BY <1>2, <1>a, <1>d DEF Skip, CallFails, CallWorks, hostVars
  <2> QED BY <2>1, <2>2, <2>3, <2>4
<1>3. CASE Begin(r)
  <2>1. RunTypeOK' /\ step' \in [Runs -> [Nodes -> StepStatus]]
    BY <1>3, <1>a, <1>b, <1>i DEF Begin, queueVars, runVars
  <2>2. pc' \in [Runs -> PC]
    BY <1>3 DEF Begin, Goto, PC
  <2>3. mem' \in [Runs -> Memory]
    BY <1>3 DEF Begin
  <2>4. /\ mode' = mode /\ starts' = starts /\ faults' \in 0..MaxFaults
        /\ live' \in SUBSET Process /\ stopped' \in SUBSET Process
        /\ launches' \in [Runs -> [Nodes -> Nat]]
    BY <1>3, <1>a, <1>d DEF Begin, CallFails, CallWorks, hostVars
  <2> QED BY <2>1, <2>2, <2>3, <2>4
<1>4. CASE Conflict(r)
  <2>1. RunTypeOK' /\ step' \in [Runs -> [Nodes -> StepStatus]]
    BY <1>4, <1>b DEF Conflict, queueVars, runVars
  <2>2. pc' \in [Runs -> PC]
    BY <1>4 DEF Conflict, Goto, PC, FinishWith, Return
  <2>3. mem' \in [Runs -> Memory]
    BY <1>4, <1>a, <1>c, <1>e, MemoryKept, GraphAssumption DEF Conflict,
       FinishWith, Return, Verdicts, EndStatus
  <2>4. /\ mode' = mode /\ starts' = starts /\ faults' \in 0..MaxFaults
        /\ live' \in SUBSET Process /\ stopped' \in SUBSET Process
        /\ launches' \in [Runs -> [Nodes -> Nat]]
    BY <1>4, <1>a, <1>d DEF Conflict, CallFails, CallWorks, hostVars
  <2> QED BY <2>1, <2>2, <2>3, <2>4
<1>5. CASE Attempt(r)
  <2>1. RunTypeOK' /\ step' \in [Runs -> [Nodes -> StepStatus]]
    BY <1>5, <1>b DEF Attempt, queueVars, runVars
  <2>2. pc' \in [Runs -> PC]
    BY <1>5 DEF Attempt, Goto, PC, FinishWith, Move
  <2>3. mem' \in [Runs -> Memory]
    BY <1>5, <1>a, <1>c, <1>e, MemoryKept, GraphAssumption DEF Attempt,
       FinishWith, Move, Err, Verdicts
  <2>4. /\ mode' = mode /\ starts' = starts /\ faults' \in 0..MaxFaults
        /\ live' \in SUBSET Process /\ stopped' \in SUBSET Process
        /\ launches' \in [Runs -> [Nodes -> Nat]]
    BY <1>5, <1>a, <1>d DEF Attempt, CallFails, CallWorks, hostVars
  <2> QED BY <2>1, <2>2, <2>3, <2>4
<1>6. CASE ExecFails(r)
  <2>1. RunTypeOK' /\ step' \in [Runs -> [Nodes -> StepStatus]]
    BY <1>6, <1>b DEF ExecFails, queueVars, runVars
  <2>2. pc' \in [Runs -> PC]
    BY <1>6 DEF ExecFails, Goto, PC, Move
  <2>3. mem' \in [Runs -> Memory]
    BY <1>6, <1>a, <1>c, <1>e, MemoryKept, GraphAssumption DEF ExecFails,
       Move, Err
  <2>4. /\ mode' = mode /\ starts' = starts /\ faults' \in 0..MaxFaults
        /\ live' \in SUBSET Process /\ stopped' \in SUBSET Process
        /\ launches' \in [Runs -> [Nodes -> Nat]]
    BY <1>6, <1>a, <1>d DEF ExecFails, CallFails, CallWorks, hostVars
  <2> QED BY <2>1, <2>2, <2>3, <2>4
<1>7. CASE ExecInline(r)
  <2>1. RunTypeOK' /\ step' \in [Runs -> [Nodes -> StepStatus]]
    BY <1>7, <1>b DEF ExecInline, queueVars, runVars
  <2>2. pc' \in [Runs -> PC]
    BY <1>7 DEF ExecInline, Goto, PC
  <2>3. mem' \in [Runs -> Memory]
    BY <1>7, <1>a, <1>c, <1>e, MemoryKept, GraphAssumption DEF ExecInline,
       Selections, Err, Outlets
  <2>4. /\ mode' = mode /\ starts' = starts /\ faults' \in 0..MaxFaults
        /\ live' \in SUBSET Process /\ stopped' \in SUBSET Process
        /\ launches' \in [Runs -> [Nodes -> Nat]]
    BY <1>7, <1>a, <1>d DEF ExecInline, CallFails, CallWorks, hostVars
  <2> QED BY <2>1, <2>2, <2>3, <2>4
<1>8. CASE ExecWait(r)
  <2>1. RunTypeOK' /\ step' \in [Runs -> [Nodes -> StepStatus]]
    BY <1>8, <1>b DEF ExecWait, queueVars, runVars
  <2>2. pc' \in [Runs -> PC]
    BY <1>8 DEF ExecWait, Goto, PC
  <2>3. mem' \in [Runs -> Memory]
    BY <1>8, <1>a, <1>c, <1>e, MemoryKept, GraphAssumption DEF ExecWait, Err,
       Outlets
  <2>4. /\ mode' = mode /\ starts' = starts /\ faults' \in 0..MaxFaults
        /\ live' \in SUBSET Process /\ stopped' \in SUBSET Process
        /\ launches' \in [Runs -> [Nodes -> Nat]]
    BY <1>8, <1>a, <1>d DEF ExecWait, CallFails, CallWorks, hostVars
  <2> QED BY <2>1, <2>2, <2>3, <2>4
<1>9. CASE Launch(r)
  <2>1. RunTypeOK' /\ step' \in [Runs -> [Nodes -> StepStatus]]
    BY <1>9, <1>b DEF Launch, queueVars, runVars
  <2>2. pc' \in [Runs -> PC]
    BY <1>9 DEF Launch, Goto, PC
  <2>3. mem' \in [Runs -> Memory]
    BY <1>9 DEF Launch
  <2>4. /\ mode' = mode /\ starts' = starts /\ faults' \in 0..MaxFaults
        /\ live' \in SUBSET Process /\ stopped' \in SUBSET Process
        /\ launches' \in [Runs -> [Nodes -> Nat]]
    BY <1>9, <1>a, <1>d DEF Launch, CallFails, CallWorks, Current, Process
  <2> QED BY <2>1, <2>2, <2>3, <2>4
<1>10. CASE Started(r)
  <2>1. RunTypeOK' /\ step' \in [Runs -> [Nodes -> StepStatus]]
    BY <1>10, <1>a, <1>b, <1>i DEF Started, queueVars, runVars
  <2>2. pc' \in [Runs -> PC]
    BY <1>10 DEF Started, Goto, PC, Move
  <2>3. mem' \in [Runs -> Memory]
    BY <1>10, <1>a, <1>c, <1>e, MemoryKept, GraphAssumption DEF Started, Move,
       Err
  <2>4. /\ mode' = mode /\ starts' = starts /\ faults' \in 0..MaxFaults
        /\ live' \in SUBSET Process /\ stopped' \in SUBSET Process
        /\ launches' \in [Runs -> [Nodes -> Nat]]
    BY <1>10, <1>a, <1>d DEF Started, CallFails, CallWorks, Current, Process
  <2> QED BY <2>1, <2>2, <2>3, <2>4
<1>11. CASE PollClosing(r)
  <2>1. RunTypeOK' /\ step' \in [Runs -> [Nodes -> StepStatus]]
    BY <1>11, <1>b DEF PollClosing, queueVars, runVars
  <2>2. pc' \in [Runs -> PC]
    BY <1>11 DEF PollClosing, Goto, PC, Move
  <2>3. mem' \in [Runs -> Memory]
    BY <1>11, <1>a, <1>c, <1>e, MemoryKept, GraphAssumption DEF PollClosing,
       Move, Err
  <2>4. /\ mode' = mode /\ starts' = starts /\ faults' \in 0..MaxFaults
        /\ live' \in SUBSET Process /\ stopped' \in SUBSET Process
        /\ launches' \in [Runs -> [Nodes -> Nat]]
    BY <1>11, <1>a, <1>d DEF PollClosing, CallFails, CallWorks, Current,
       Process
  <2> QED BY <2>1, <2>2, <2>3, <2>4
<1>12. CASE PollStop(r)
  <2>1. RunTypeOK' /\ step' \in [Runs -> [Nodes -> StepStatus]]
    BY <1>12, <1>b DEF PollStop, queueVars, runVars
  <2>2. pc' \in [Runs -> PC]
    BY <1>12 DEF PollStop, Goto, PC
  <2>3. mem' \in [Runs -> Memory]
    BY <1>12 DEF PollStop
  <2>4. /\ mode' = mode /\ starts' = starts /\ faults' \in 0..MaxFaults
        /\ live' \in SUBSET Process /\ stopped' \in SUBSET Process
        /\ launches' \in [Runs -> [Nodes -> Nat]]
    BY <1>12, <1>a, <1>d DEF PollStop, CallFails, CallWorks, Current, Process
  <2> QED BY <2>1, <2>2, <2>3, <2>4
<1>13. CASE PollFails(r)
  <2>1. RunTypeOK' /\ step' \in [Runs -> [Nodes -> StepStatus]]
    BY <1>13, <1>b DEF PollFails, queueVars, runVars
  <2>2. pc' \in [Runs -> PC]
    BY <1>13 DEF PollFails, Goto, PC, Move
  <2>3. mem' \in [Runs -> Memory]
    BY <1>13, <1>a, <1>c, <1>e, MemoryKept, GraphAssumption DEF PollFails,
       Move, Err
  <2>4. /\ mode' = mode /\ starts' = starts /\ faults' \in 0..MaxFaults
        /\ live' \in SUBSET Process /\ stopped' \in SUBSET Process
        /\ launches' \in [Runs -> [Nodes -> Nat]]
    BY <1>13, <1>a, <1>d DEF PollFails, CallFails, CallWorks, hostVars
  <2> QED BY <2>1, <2>2, <2>3, <2>4
<1>14. CASE PollDone(r)
  <2>1. RunTypeOK' /\ step' \in [Runs -> [Nodes -> StepStatus]]
    BY <1>14, <1>b DEF PollDone, queueVars, runVars
  <2>2. pc' \in [Runs -> PC]
    BY <1>14 DEF PollDone, Goto, PC
  <2>3. mem' \in [Runs -> Memory]
    BY <1>14, <1>a, <1>c, <1>e, MemoryKept, GraphAssumption DEF PollDone, Err,
       Outlets
  <2>4. /\ mode' = mode /\ starts' = starts /\ faults' \in 0..MaxFaults
        /\ live' \in SUBSET Process /\ stopped' \in SUBSET Process
        /\ launches' \in [Runs -> [Nodes -> Nat]]
    BY <1>14, <1>a, <1>d DEF PollDone, CallFails, CallWorks, hostVars
  <2> QED BY <2>1, <2>2, <2>3, <2>4
<1>15. CASE Post(r)
  <2>1. RunTypeOK' /\ step' \in [Runs -> [Nodes -> StepStatus]]
    BY <1>15, <1>b DEF Post, queueVars, runVars
  <2>2. pc' \in [Runs -> PC]
    BY <1>15 DEF Post, Goto, PC, FinishWith, Move
  <2>3. mem' \in [Runs -> Memory]
    BY <1>15, <1>a, <1>c, <1>e, MemoryKept, GraphAssumption DEF Post, Move,
       FinishWith, ErrAfterRead, Err, Verdicts
  <2>4. /\ mode' = mode /\ starts' = starts /\ faults' \in 0..MaxFaults
        /\ live' \in SUBSET Process /\ stopped' \in SUBSET Process
        /\ launches' \in [Runs -> [Nodes -> Nat]]
    BY <1>15, <1>a, <1>d DEF Post, CallFails, CallWorks, hostVars
  <2> QED BY <2>1, <2>2, <2>3, <2>4
<1>16. CASE Decide(r)
  <2>1. RunTypeOK' /\ step' \in [Runs -> [Nodes -> StepStatus]]
    <3>1. {"skipped", "retrying", "succeeded", "failed"} \subseteq StepStatus
      BY DEF StepStatus, StepResult
    <3> QED BY <1>16, <1>a, <1>b, <1>h, <3>1 DEF Decide, queueVars, runVars
  <2>2. pc' \in [Runs -> PC]
    BY <1>16 DEF Decide, Goto, PC
  <2>3. mem' \in [Runs -> Memory]
    BY <1>16 DEF Decide
  <2>4. /\ mode' = mode /\ starts' = starts /\ faults' \in 0..MaxFaults
        /\ live' \in SUBSET Process /\ stopped' \in SUBSET Process
        /\ launches' \in [Runs -> [Nodes -> Nat]]
    BY <1>16, <1>a, <1>d DEF Decide, CallFails, CallWorks, hostVars
  <2> QED BY <2>1, <2>2, <2>3, <2>4
<1>17. CASE Backoff(r)
  <2>1. RunTypeOK' /\ step' \in [Runs -> [Nodes -> StepStatus]]
    BY <1>17, <1>b DEF Backoff, queueVars, runVars
  <2>2. pc' \in [Runs -> PC]
    BY <1>17 DEF Backoff, Goto, PC, Move
  <2>3. mem' \in [Runs -> Memory]
    BY <1>17, <1>a, <1>c, <1>e, MemoryKept, GraphAssumption DEF Backoff, Move,
       Err
  <2>4. /\ mode' = mode /\ starts' = starts /\ faults' \in 0..MaxFaults
        /\ live' \in SUBSET Process /\ stopped' \in SUBSET Process
        /\ launches' \in [Runs -> [Nodes -> Nat]]
    BY <1>17, <1>a, <1>d DEF Backoff, CallFails, CallWorks, hostVars
  <2> QED BY <2>1, <2>2, <2>3, <2>4
<1>18. CASE Retry(r)
  <2>1. RunTypeOK' /\ step' \in [Runs -> [Nodes -> StepStatus]]
    BY <1>18, <1>a, <1>b, <1>i DEF Retry, queueVars, runVars
  <2>2. pc' \in [Runs -> PC]
    BY <1>18 DEF Retry, Goto, PC, Move
  <2>3. mem' \in [Runs -> Memory]
    BY <1>18, <1>a, <1>c, <1>e, MemoryKept, GraphAssumption DEF Retry, Move,
       Err
  <2>4. /\ mode' = mode /\ starts' = starts /\ faults' \in 0..MaxFaults
        /\ live' \in SUBSET Process /\ stopped' \in SUBSET Process
        /\ launches' \in [Runs -> [Nodes -> Nat]]
    BY <1>18, <1>a, <1>d DEF Retry, CallFails, CallWorks, hostVars
  <2> QED BY <2>1, <2>2, <2>3, <2>4
<1>19. CASE SettleSuccess(r)
  <2>1. RunTypeOK' /\ step' \in [Runs -> [Nodes -> StepStatus]]
    <3>1. {"skipped", "retrying", "succeeded", "failed"} \subseteq StepStatus
      BY DEF StepStatus, StepResult
    <3> QED
      BY <1>19, <1>a, <1>b, <1>h, <3>1 DEF SettleSuccess, queueVars, runVars
  <2>2. pc' \in [Runs -> PC]
    BY <1>19 DEF SettleSuccess, Goto, PC, FinishWith
  <2>3. mem' \in [Runs -> Memory]
    BY <1>19, <1>a, <1>c, <1>e, MemoryKept, GraphAssumption DEF SettleSuccess,
       FinishWith, States, Verdicts
  <2>4. /\ mode' = mode /\ starts' = starts /\ faults' \in 0..MaxFaults
        /\ live' \in SUBSET Process /\ stopped' \in SUBSET Process
        /\ launches' \in [Runs -> [Nodes -> Nat]]
    BY <1>19, <1>a, <1>d DEF SettleSuccess, CallFails, CallWorks, hostVars
  <2> QED BY <2>1, <2>2, <2>3, <2>4
<1>20. CASE SettleError(r)
  <2>1. RunTypeOK' /\ step' \in [Runs -> [Nodes -> StepStatus]]
    BY <1>20, <1>b DEF SettleError, queueVars, runVars
  <2>2. pc' \in [Runs -> PC]
    BY <1>20 DEF SettleError, Goto, PC
  <2>3. mem' \in [Runs -> Memory]
    BY <1>20, <1>a, <1>c, <1>e, MemoryKept, GraphAssumption DEF SettleError,
       Verdict, Verdicts, EndStatus
  <2>4. /\ mode' = mode /\ starts' = starts /\ faults' \in 0..MaxFaults
        /\ live' \in SUBSET Process /\ stopped' \in SUBSET Process
        /\ launches' \in [Runs -> [Nodes -> Nat]]
    BY <1>20, <1>a, <1>d DEF SettleError, CallFails, CallWorks, hostVars
  <2> QED BY <2>1, <2>2, <2>3, <2>4
<1>21. CASE RecordEnd(r)
  <2>1. RunTypeOK' /\ step' \in [Runs -> [Nodes -> StepStatus]]
    <3>1. mem[r].verdict \in StepStatus
      BY <1>a, MemoryKept DEF Verdicts, EndStatus, StepStatus, StepResult
    <3> QED BY <1>21, <1>a, <1>b, <1>h, <3>1 DEF RecordEnd, queueVars, runVars
  <2>2. pc' \in [Runs -> PC]
    BY <1>21 DEF RecordEnd, Goto, PC
  <2>3. mem' \in [Runs -> Memory]
    BY <1>21 DEF RecordEnd
  <2>4. /\ mode' = mode /\ starts' = starts /\ faults' \in 0..MaxFaults
        /\ live' \in SUBSET Process /\ stopped' \in SUBSET Process
        /\ launches' \in [Runs -> [Nodes -> Nat]]
    BY <1>21, <1>a, <1>d DEF RecordEnd, CallFails, CallWorks, hostVars
  <2> QED BY <2>1, <2>2, <2>3, <2>4
<1>22. CASE RecordFailure(r)
  <2>1. RunTypeOK' /\ step' \in [Runs -> [Nodes -> StepStatus]]
    <3>1. {"skipped", "retrying", "succeeded", "failed"} \subseteq StepStatus
      BY DEF StepStatus, StepResult
    <3> QED
      BY <1>22, <1>a, <1>b, <1>h, <3>1 DEF RecordFailure, queueVars, runVars
  <2>2. pc' \in [Runs -> PC]
    BY <1>22 DEF RecordFailure, Goto, PC, FinishWith
  <2>3. mem' \in [Runs -> Memory]
    BY <1>22, <1>a, <1>c, <1>e, MemoryKept, GraphAssumption DEF RecordFailure,
       FinishWith, States, Verdicts, Outlets
  <2>4. /\ mode' = mode /\ starts' = starts /\ faults' \in 0..MaxFaults
        /\ live' \in SUBSET Process /\ stopped' \in SUBSET Process
        /\ launches' \in [Runs -> [Nodes -> Nat]]
    BY <1>22, <1>a, <1>d DEF RecordFailure, CallFails, CallWorks, hostVars
  <2> QED BY <2>1, <2>2, <2>3, <2>4
<1>23. CASE Route(r)
  <2>1. RunTypeOK' /\ step' \in [Runs -> [Nodes -> StepStatus]]
    BY <1>23, <1>b DEF Route, queueVars, runVars
  <2>2. pc' \in [Runs -> PC]
    BY <1>23 DEF Route, Goto, PC, FinishWith, Advance
  <2>3. mem' \in [Runs -> Memory]
    BY <1>23, <1>a, <1>c, <1>e, MemoryKept, GraphAssumption DEF Route,
       FinishWith, Advance, Err, Verdicts, EndStatus
  <2>4. /\ mode' = mode /\ starts' = starts /\ faults' \in 0..MaxFaults
        /\ live' \in SUBSET Process /\ stopped' \in SUBSET Process
        /\ launches' \in [Runs -> [Nodes -> Nat]]
    BY <1>23, <1>a, <1>d DEF Route, CallFails, CallWorks, hostVars
  <2> QED BY <2>1, <2>2, <2>3, <2>4
<1>24. CASE Terminate(r)
  <2>1. RunTypeOK' /\ step' \in [Runs -> [Nodes -> StepStatus]]
    BY <1>24, <1>b, <1>g DEF Terminate, SkipPending, queueVars, runVars
  <2>2. pc' \in [Runs -> PC]
    BY <1>24 DEF Terminate, Goto, PC, FinishWith
  <2>3. mem' \in [Runs -> Memory]
    BY <1>24, <1>a, <1>c, <1>e, MemoryKept, GraphAssumption DEF Terminate,
       FinishWith, Verdicts, EndStatus
  <2>4. /\ mode' = mode /\ starts' = starts /\ faults' \in 0..MaxFaults
        /\ live' \in SUBSET Process /\ stopped' \in SUBSET Process
        /\ launches' \in [Runs -> [Nodes -> Nat]]
    BY <1>24, <1>a, <1>d DEF Terminate, CallFails, CallWorks, hostVars
  <2> QED BY <2>1, <2>2, <2>3, <2>4
<1>25. CASE FinishRun(r)
  <2>1. RunTypeOK' /\ step' \in [Runs -> [Nodes -> StepStatus]]
    <3>1. CASE UNCHANGED queueVars
      BY <1>b, <3>1 DEF queueVars, runVars
    <3>2. CASE Finish(r, mem[r].verdict)
      <4>1. mem[r].verdict \in RunStatus
        BY <1>a, MemoryKept DEF Verdicts, RunStatus, EndStatus, Owning
      <4>2. RunTypeOK'
        BY <3>2, <4>1 DEF Finish, RunTypeOK, Released
      <4> QED BY <1>g, <3>2, <4>2 DEF Finish
    <3> QED BY <1>25, <3>1, <3>2 DEF FinishRun
  <2>2. pc' \in [Runs -> PC]
    BY <1>25 DEF FinishRun, Goto, PC, Return
  <2>3. mem' \in [Runs -> Memory]
    BY <1>25, <1>a, <1>c, <1>e, MemoryKept, GraphAssumption DEF FinishRun,
       Return, Err
  <2>4. /\ mode' = mode /\ starts' = starts /\ faults' \in 0..MaxFaults
        /\ live' \in SUBSET Process /\ stopped' \in SUBSET Process
        /\ launches' \in [Runs -> [Nodes -> Nat]]
    BY <1>25, <1>a, <1>d DEF FinishRun, CallFails, CallWorks, hostVars
  <2> QED BY <2>1, <2>2, <2>3, <2>4
<1> QED
  BY <1>1, <1>2, <1>3, <1>4, <1>5, <1>6, <1>7, <1>8, <1>9, <1>10, <1>11,
     <1>12, <1>13, <1>14, <1>15, <1>16, <1>17, <1>18, <1>19, <1>20, <1>21,
     <1>22, <1>23, <1>24, <1>25 DEF Execute

----------------------------------------------------------------------------
(* The calls of a goroutine, one by one *)

(* Every call of a goroutine has one of the effects above. *)
LEMMA ExecuteLocal ==
  ASSUME EngineTypeOK, EngineTypeOK', NEW r \in Runs, Local(r), Execute(r)
  PROVE  Local(r)'
<1>a. RowTypes(r) /\ RowTypes(r)' /\ Node(r) \in Nodes
  BY OrderFacts DEF EngineTypeOK, QueueTypeOK, RunTypeOK, RowTypes, Node,
     Memory
<1>b. /\ pc \in [Runs -> PC] /\ mem \in [Runs -> Memory] /\ mem[r] \in Memory
      /\ step \in [Runs -> [Nodes -> StepStatus]]
      /\ launches \in [Runs -> [Nodes -> Nat]] /\ status \in [Runs -> RunStatus]
  BY DEF EngineTypeOK, QueueTypeOK, RunTypeOK
<1>c. ~({"true", "false"} \subseteq mem[r].selected)
  BY DEF Local, Chosen
<1>d. \A l \in PC : Goto(r, l) => pc'[r] = l
  BY <1>b DEF Goto
<1>e. \A m \in Memory : Set(r, m) => mem'[r] = m
  BY <1>b DEF Set
<1> DEFINE Same == SamePlace(r) /\ mem'[r].selected = mem[r].selected
<1>f. \A s : FinishWith(r, s) => pc'[r] = "finish" /\ Same /\ mem'[r].verdict = s
  BY <1>b DEF FinishWith, Goto, Set, SamePlace, Memory
<1>g. \A l \in PC : \A e : Move(r, l, e) => pc'[r] = l /\ Same
  BY <1>b DEF Move, Goto, Set, SamePlace, Memory
<1>h. Return(r) => pc'[r] = "idle" /\ mem'[r] = Fresh
  BY <1>b DEF Return, Goto, Set, PC
<1>i. UNCHANGED queueVars /\ UNCHANGED launches => SameRun(r)
  BY DEF queueVars, SameRun
<1>j. UNCHANGED mem => Same
  BY DEF SamePlace
<1>k. \A n \in Nodes : \A x : step' = [step EXCEPT ![r][n] = x] =>
        step'[r] = [step[r] EXCEPT ![n] = x]
  BY <1>b
<1>m. \A m \in Memory : Advance(r, m) =>
        /\ mem'[r].states = m.states /\ mem'[r].routes = m.routes
        /\ mem'[r].failure = m.failure
        /\ mem'[r].selected \in {{}, m.selected}
        /\ \/ /\ m.at < Len(Order) /\ pc'[r] = "head"
              /\ mem'[r].at = m.at + 1 /\ mem'[r].attempt = 1
           \/ /\ ~(m.at < Len(Order)) /\ pc'[r] = "finish"
              /\ mem'[r].at = m.at /\ mem'[r].attempt = m.attempt
              /\ mem'[r].verdict = IF m.failure THEN "failed" ELSE "succeeded"
  <2> TAKE m \in Memory
  <2>1. CASE m.at < Len(Order)
    <3>1. Advance(r, m) => Goto(r, "head")
            /\ Set(r, [m EXCEPT !.at = m.at + 1, !.attempt = 1, !.err = "none",
                                !.selected = {}])
      BY <2>1 DEF Advance
    <3>2. Goto(r, "head") => pc'[r] = "head"
      BY <1>b DEF Goto
    <3>3. Set(r, [m EXCEPT !.at = m.at + 1, !.attempt = 1, !.err = "none",
                           !.selected = {}])
            => mem'[r] = [m EXCEPT !.at = m.at + 1, !.attempt = 1, !.err = "none",
                                   !.selected = {}]
      BY <1>b DEF Set
    <3> QED BY <2>1, <3>1, <3>2, <3>3 DEF Memory
  <2>2. CASE ~(m.at < Len(Order))
    BY <1>b, <2>2 DEF Advance, Goto, Set, Memory
  <2> QED BY <2>1, <2>2
<1> HIDE DEF Same
<1>l. UNCHANGED hostVars => UNCHANGED launches
  BY DEF hostVars
<1> USE <1>a, <1>c, <1>d, <1>f, <1>g, <1>h, <1>i, <1>j, <1>l
        DEF Early, Trying, Tried, Routing, PC
<1>1. CASE LoopHead(r)
  <2>1. Moves(r) \/ Returns(r)
    BY <1>1 DEF LoopHead, Moves, Returns, Same
  <2> QED BY <2>1, MoveLocal, ReturnLocal
<1>2. CASE Skip(r)
  <2>1. CASE Return(r) /\ UNCHANGED queueVars
    BY <1>2, <2>1, ReturnLocal DEF Skip, Returns
  <2>2. CASE FinishStep(r, Node(r), "skipped")
             /\ Advance(r, [mem[r] EXCEPT !.states[Node(r)] = "skipped"])
    <3> DEFINE m == [mem[r] EXCEPT !.states[Node(r)] = "skipped"]
    <3>1. m \in Memory
      BY <1>b, MemoryKept DEF States
    <3>2. /\ m.at = mem[r].at /\ m.attempt = mem[r].attempt /\ m.failure = mem[r].failure
          /\ m.routes = mem[r].routes /\ m.selected = mem[r].selected
          /\ m.states = [mem[r].states EXCEPT ![Node(r)] = "skipped"]
      BY <1>b DEF Memory
    <3>3. Advance(r, m)
      BY <2>2
    <3> HIDE DEF m
    <3>4. Advances(r)
      BY <1>2, <1>c, <1>k, <1>l, <1>m, <2>2, <3>1, <3>2, <3>3 DEF Skip,
         FinishStep, runVars, Advances
    <3> QED BY <3>4, AdvanceLocal
  <2> QED BY <1>2, <2>1, <2>2 DEF Skip
<1>3. CASE Begin(r)
  <2>1. Moves(r) \/ Opens(r, "dispatching")
    BY <1>3, <1>k DEF Begin, BeginStep, runVars, Moves, Opens, SamePlace,
       Same, Open
  <2> QED BY <2>1, MoveLocal, OpenLocal DEF Open
<1>4. CASE Conflict(r)
  <2>1. Moves(r) \/ Returns(r)
    BY <1>4 DEF Conflict, Moves, Returns, Same
  <2> QED BY <2>1, MoveLocal, ReturnLocal
<1>5. CASE Attempt(r)
  <2>1. Moves(r)
    BY <1>5 DEF Attempt, Moves, Same
  <2> QED BY <2>1, MoveLocal
<1>6. CASE ExecFails(r)
  <2>1. Moves(r)
    BY <1>6 DEF ExecFails, Moves, Same
  <2> QED BY <2>1, MoveLocal
<1>7. CASE ExecInline(r)
  <2>1. PICK s \in Selections(Node(r)) :
          Set(r, [mem[r] EXCEPT !.err = "none", !.selected = s])
    BY <1>7 DEF ExecInline
  <2>2. s \in SUBSET Outlets /\ ~({"true", "false"} \subseteq s)
    BY DEF Selections, Outlets
  <2>3. SamePlace(r) /\ mem'[r].selected = s
    BY <1>b, <2>1 DEF Set, SamePlace, Memory
  <2>4. Moves(r)
    BY <1>7, <2>2, <2>3 DEF ExecInline, Moves
  <2> QED BY <2>4, MoveLocal
<1>8. CASE ExecWait(r)
  <2>1. SamePlace(r) /\ mem'[r].selected \in {mem[r].selected, {"success", "always"}}
    <3>1. CASE Set(r, [mem[r] EXCEPT !.err = "failed"])
      BY <1>b, <3>1 DEF Set, SamePlace, Memory
    <3>2. ASSUME NEW e,
                 Set(r, [mem[r] EXCEPT !.err = e, !.selected = {"success", "always"}])
          PROVE  SamePlace(r) /\ mem'[r].selected = {"success", "always"}
      BY <1>b, <3>2 DEF Set, SamePlace, Memory
    <3> QED BY <1>8, <3>1, <3>2 DEF ExecWait
  <2>2. Moves(r)
    BY <1>8, <2>1 DEF ExecWait, Moves
  <2> QED BY <2>2, MoveLocal
<1>9. CASE Launch(r)
  <2>1. Launches(r)
    BY <1>9, <1>b DEF Launch, Launches, queueVars, PC
  <2> QED BY <2>1, LaunchLocal
<1>10. CASE Started(r)
  <2>1. Moves(r) \/ Opens(r, "running")
    BY <1>10, <1>k DEF Started, StepProcess, runVars, Moves, Opens, SamePlace,
       Same, Open
  <2> QED BY <2>1, MoveLocal, OpenLocal DEF Open
<1>11. CASE PollClosing(r)
  <2>1. Moves(r)
    BY <1>11 DEF PollClosing, Moves, Same
  <2> QED BY <2>1, MoveLocal
<1>12. CASE PollStop(r)
  <2>1. Untouched(r)
    BY <1>12 DEF PollStop, Untouched
  <2> QED BY <2>1, UntouchedLocal
<1>13. CASE PollFails(r)
  <2>1. Moves(r)
    BY <1>13 DEF PollFails, Moves, Same
  <2> QED BY <2>1, MoveLocal
<1>14. CASE PollDone(r)
  <2>1. Moves(r)
    BY <1>14, <1>b DEF PollDone, Moves, Same, Set, SamePlace, Memory
  <2> QED BY <2>1, MoveLocal
<1>15. CASE Post(r)
  <2>1. Moves(r)
    BY <1>15 DEF Post, Moves, Same
  <2> QED BY <2>1, MoveLocal
<1>16. CASE Decide(r)
  <2>1. Moves(r) \/ Opens(r, "retrying")
    BY <1>16, <1>k DEF Decide, FinishStep, runVars, Moves, Opens, SamePlace,
       Same, Open
  <2> QED BY <2>1, MoveLocal, OpenLocal DEF Open
<1>17. CASE Backoff(r)
  <2>1. Moves(r)
    BY <1>17 DEF Backoff, Moves, Same, Local, Counted, MoreAttempts
  <2> QED BY <2>1, MoveLocal
<1>18. CASE Retry(r)
  <2>1. Moves(r) \/ Opens(r, "dispatching")
    BY <1>18, <1>b, <1>k DEF Retry, RetryStep, runVars, Set, Memory, Moves,
       Opens, SamePlace, Same, Open
  <2> QED BY <2>1, MoveLocal, OpenLocal DEF Open
<1>19. CASE SettleSuccess(r)
  <2>1. CASE FinishWith(r, "needs_attention") /\ UNCHANGED queueVars
    <3>1. Moves(r)
      BY <1>19, <2>1 DEF SettleSuccess, Moves, Same
    <3> QED BY <3>1, MoveLocal
  <2>2. CASE /\ FinishStep(r, Node(r), "succeeded") /\ Goto(r, "route")
             /\ Set(r, [mem[r] EXCEPT !.states[Node(r)] = "succeeded",
                                       !.routes[Node(r)] = mem[r].selected])
    <3>1. /\ mem'[r].at = mem[r].at /\ mem'[r].attempt = mem[r].attempt
          /\ mem'[r].selected = mem[r].selected /\ mem'[r].verdict = mem[r].verdict
          /\ mem'[r].states = [mem[r].states EXCEPT ![Node(r)] = "succeeded"]
          /\ mem'[r].routes = [mem[r].routes EXCEPT ![Node(r)] = mem[r].selected]
      BY <1>b, <2>2 DEF Set, Memory
    <3>2. mem'[r].failure = mem[r].failure
      BY <1>b, <2>2 DEF Set, Memory
    <3>3. /\ mem[r].selected \in SUBSET Outlets
          /\ ~({"true", "false"} \subseteq mem[r].selected)
      BY <1>c DEF RowTypes, Memory, Outlets
    <3>4. mem[r].failure \/ "succeeded" = "failed" => mem'[r].failure
      BY <3>2
    <3>5. /\ step'[r] = [step[r] EXCEPT ![Node(r)] = "succeeded"]
          /\ status'[r] = status[r] /\ launches'[r] = launches[r]
      BY <1>19, <1>k, <1>l, <2>2 DEF SettleSuccess, FinishStep, runVars
    <3>6. /\ pc[r] \in {"settle", "record"}
          /\ pc'[r] = "route" \/ (pc'[r] = "finish" /\ mem'[r].verdict = "failed")
      BY <1>19, <1>f, <2>2, <3>1 DEF SettleSuccess, PC
    <3> QED BY <3>1, <3>3, <3>4, <3>5, <3>6, OutcomeLocal DEF Outcome
  <2> QED BY <1>19, <2>1, <2>2 DEF SettleSuccess
<1>20. CASE SettleError(r)
  <2>1. Moves(r)
    BY <1>20, <1>b DEF SettleError, Verdict, Set, SamePlace, Memory, Moves,
       Same
  <2> QED BY <2>1, MoveLocal
<1>21. CASE RecordEnd(r)
  <2>1. mem[r].verdict \in {"cancelled", "needs_attention"}
    BY <1>21, <1>b DEF RecordEnd, Local, Judged, Memory, EndStatus
  <2>2. Moves(r) \/ Opens(r, mem[r].verdict)
    BY <1>21, <1>k, <2>1 DEF RecordEnd, FinishStep, runVars, Moves, Opens,
       SamePlace, Same, Open
  <2> QED BY <2>1, <2>2, MoveLocal, OpenLocal
<1>22. CASE RecordFailure(r)
  <2>1. CASE FinishWith(r, "needs_attention") /\ UNCHANGED queueVars
    <3>1. Moves(r)
      BY <1>22, <2>1 DEF RecordFailure, Moves, Same
    <3> QED BY <3>1, MoveLocal
  <2>2. CASE /\ FinishStep(r, Node(r), "failed")
             /\ Set(r, [mem[r] EXCEPT !.failure = TRUE,
                                       !.states[Node(r)] = "failed",
                                       !.routes[Node(r)] = {"failure", "always"}])
    <3>1. /\ mem'[r].at = mem[r].at /\ mem'[r].attempt = mem[r].attempt
          /\ mem'[r].selected = mem[r].selected /\ mem'[r].verdict = mem[r].verdict
          /\ mem'[r].states = [mem[r].states EXCEPT ![Node(r)] = "failed"]
          /\ mem'[r].routes = [mem[r].routes EXCEPT ![Node(r)] = {"failure", "always"}]
      BY <1>b, <2>2 DEF Set, Memory
    <3>2. mem'[r].failure = TRUE
      BY <1>b, <2>2 DEF Set, Memory
    <3>3. /\ {"failure", "always"} \in SUBSET Outlets
          /\ ~({"true", "false"} \subseteq {"failure", "always"})
      BY <1>c DEF RowTypes, Memory, Outlets
    <3>4. mem[r].failure \/ "failed" = "failed" => mem'[r].failure
      BY <3>2
    <3>5. /\ step'[r] = [step[r] EXCEPT ![Node(r)] = "failed"]
          /\ status'[r] = status[r] /\ launches'[r] = launches[r]
      BY <1>22, <1>k, <1>l, <2>2 DEF RecordFailure, FinishStep, runVars
    <3>6. /\ pc[r] \in {"settle", "record"}
          /\ pc'[r] = "route" \/ (pc'[r] = "finish" /\ mem'[r].verdict = "failed")
      BY <1>22, <1>f, <2>2, <3>1 DEF RecordFailure, PC
    <3> QED BY <3>1, <3>3, <3>4, <3>5, <3>6, OutcomeLocal DEF Outcome
  <2> QED BY <1>22, <2>1, <2>2 DEF RecordFailure
<1>23. CASE Route(r)
  <2>1. CASE Advance(r, mem[r])
    <3>1. SameRun(r)
      BY <1>23, <1>i, <1>l DEF Route
    <3>2. Advances(r)
      BY <1>23, <1>b, <1>c, <1>m, <2>1, <3>1 DEF Route, Advances, SameRun
    <3> QED BY <3>2, AdvanceLocal
  <2>2. CASE ~Advance(r, mem[r])
    <3>1. Moves(r)
      BY <1>23, <2>2 DEF Route, Moves, Same
    <3> QED BY <3>1, MoveLocal
  <2> QED BY <2>1, <2>2
<1>24. CASE Terminate(r)
  <2>1. Moves(r) \/ Terminates(r)
    BY <1>24, <1>b DEF Terminate, SkipPending, PendingSkipped, SkipsPending,
       runVars, Moves, Terminates, Same
  <2> QED BY <2>1, MoveLocal, TerminateLocal
<1>25. CASE FinishRun(r)
  <2>1. Finishes(r) \/ Returns(r)
    BY <1>25, <1>b DEF FinishRun, Finish, PendingSkipped, SkipsPending,
       Finishes, Returns
  <2> QED BY <2>1, FinishLocal, ReturnLocal
<1> QED
  BY <1>1, <1>2, <1>3, <1>4, <1>5, <1>6, <1>7, <1>8, <1>9, <1>10, <1>11,
     <1>12, <1>13, <1>14, <1>15, <1>16, <1>17, <1>18, <1>19, <1>20, <1>21,
     <1>22, <1>23, <1>24, <1>25 DEF Execute

----------------------------------------------------------------------------
(* Users and the service *)

(* A goroutine works while the service is up or closing. *)
Attending == mode = "down" => \A r \in Runs : pc[r] = "idle"

EngineLocal == EngineTypeOK /\ Attending /\ \A r \in Runs : Local(r)

(* A request or a dispatch for run r: the row that Local is about. *)
Requested(r) ==
  /\ launches'[r] = launches[r] /\ mem'[r] = mem[r]
  /\ \/ /\ status[r] = "absent" /\ status'[r] = "queued" /\ pc'[r] = pc[r]
        /\ step'[r] = [n \in Nodes |-> "pending"]
     \/ /\ status[r] = "queued" /\ status'[r] = "cancelled" /\ pc'[r] = pc[r]
        /\ SkipsPending(r)
     \/ /\ status[r] = "queued" /\ status'[r] = "running" /\ pc'[r] = "head"
        /\ step'[r] = step[r]
     \/ /\ status[r] = "running" /\ status'[r] = "cancelling"
        /\ pc'[r] = pc[r] /\ step'[r] = step[r]
     \/ /\ status[r] = "needs_attention" /\ status'[r] = "cancelled"
        /\ pc'[r] = pc[r] /\ step'[r] = step[r]
     \/ /\ status[r] \in {"running", "cancelling"} /\ status'[r] = "needs_attention"
        /\ pc[r] = "idle" /\ pc'[r] = pc[r] /\ step'[r] = step[r]

(* Requests keep the invariant: they change what no goroutine relies on.   *)
LEMMA RequestedLocal ==
  ASSUME NEW r \in Runs, RowTypes(r), RowTypes(r)', Local(r), Requested(r)
  PROVE  Local(r)'
<1>a. Node(r) \in Nodes /\ Node(r)' = Node(r) /\ mem[r].at \in DOMAIN Order
  BY OrderFacts DEF RowTypes, Node, Memory, Requested
<1>1. CASE status[r] \in {"absent", "queued"}
  <2>1. pc[r] = "idle" /\ mem[r] = Fresh /\ mem'[r] = Fresh
    BY <1>1 DEF Local, Claimed, Requested
  <2>2. \A n \in Nodes : step[r][n] \in {"absent", "pending"} /\ launches[r][n] = 0
    BY <1>1 DEF Local, Claimed
  <2>3. \/ /\ status'[r] \in {"queued", "running"}
           /\ \A n \in Nodes : step'[r][n] = "pending"
        \/ /\ status'[r] = "cancelled"
           /\ \A n \in Nodes : step'[r][n] = "skipped"
    <3>1. CASE status[r] = "absent"
      BY <3>1 DEF Requested
    <3>2. CASE status[r] = "queued"
      <4>1. \A n \in Nodes : step[r][n] = "pending"
        BY <3>2 DEF Local, Claimed
      <4> QED BY <3>2, <4>1 DEF Requested, SkipsPending
    <3> QED BY <1>1, <3>1, <3>2
  <2>4. pc'[r] = "idle" \/ (pc'[r] = "head" /\ status'[r] = "running")
    BY <1>1, <2>1 DEF Requested
  <2>5. \A n \in Nodes : launches'[r][n] = 0 /\ MaxAttempts[n] \in Nat \ {0}
    BY <2>2, GraphAssumption DEF Requested
  <2>6. Dispatched(r)' = {}
    BY <2>3 DEF Dispatched
  <2>7. Claimed(r)'
    BY <2>1, <2>3, <2>4, <2>5 DEF Claimed
  <2>8. Behind(r)' /\ Ahead(r)'
    BY <2>1, <2>3, <2>4, <2>5, OrderFacts DEF Behind, Ahead, Fresh
  <2>9. Here(r)'
    BY <1>a, <2>1, <2>3, <2>4 DEF Here, Fresh, Early, Trying, Tried, Routing
  <2>10. Judged(r)'
    BY <2>1, <2>4 DEF Judged, Fresh
  <2>11. Counted(r)'
    BY <1>a, <2>1, <2>4, <2>5 DEF Counted, Fresh, Early, Trying, Tried
  <2>12. Chosen(r)'
    BY <2>1, <2>4, <2>6 DEF Chosen, Fresh
  <2>13. InputsOf(r)' /\ BranchOf(r)'
    BY <2>6 DEF InputsOf, BranchOf
  <2>14. EndOf(r)'
    BY <2>3 DEF EndOf
  <2> QED BY <2>7, <2>8, <2>9, <2>10, <2>11, <2>12, <2>13, <2>14 DEF Local
<1>2. CASE status[r] \notin {"absent", "queued"}
  <2>1. /\ pc'[r] = pc[r] /\ mem'[r] = mem[r]
        /\ step'[r] = step[r] /\ launches'[r] = launches[r]
        /\ status'[r] \notin {"absent", "queued", "succeeded", "failed"}
        /\ pc[r] # "idle" => status'[r] \in {"running", "cancelling"}
    BY <1>2 DEF Requested, Local, Claimed
  <2> USE <2>1 DEF Local
  <2>2. Claimed(r)'
    BY DEF Claimed
  <2>3. Behind(r)' /\ Ahead(r)' /\ Here(r)'
    BY DEF Behind, Ahead, Here, Node
  <2>4. Judged(r)' /\ Counted(r)'
    BY DEF Judged, Counted, Node
  <2>5. Chosen(r)'
    BY DEF Chosen, Node, Activated, Dispatched
  <2>6. InputsOf(r)' /\ BranchOf(r)' /\ EndOf(r)'
    BY DEF InputsOf, BranchOf, EndOf, Dispatched
  <2> QED BY <2>2, <2>3, <2>4, <2>5, <2>6
<1> QED BY <1>1, <1>2

(* The steps that are not a goroutine's. *)
Serve ==
  \/ \E r \in Runs : Submit(r) \/ Cancel(r) \/ Resolve(r) \/ Dispatch(r)
  \/ \E p \in live : Exit(p)
  \/ Start \/ BeginClose \/ EndClose \/ Crash

(* They keep the types. *)
LEMMA ServeTypes ==
  ASSUME EngineTypeOK, Serve
  PROVE  EngineTypeOK'
<1> USE DEF EngineTypeOK, QueueTypeOK
<1>a. UNCHANGED queueVars => RunTypeOK' /\ step' = step
  BY DEF queueVars, RunTypeOK
<1>b. UNCHANGED engineVars => /\ mode' = mode /\ starts' = starts /\ faults' = faults
                              /\ pc' = pc /\ mem' = mem /\ live' = live
                              /\ stopped' = stopped /\ launches' = launches
  BY DEF engineVars
<1>c. QueueNext => RunTypeOK'
  BY TypeStep
<1>1. ASSUME NEW r \in Runs, Submit(r)
      PROVE  EngineTypeOK'
  <2>1. PICK W \in LockSets, t \in 1..MaxTime : Enqueue(r, W, t)
    BY <1>1 DEF Submit
  <2>2. RunTypeOK'
    BY <1>c, <2>1 DEF QueueNext
  <2>3. step' \in [Runs -> [Nodes -> StepStatus]]
    BY <2>1 DEF Enqueue, StepStatus
  <2> QED BY <1>1, <1>b, <2>2, <2>3 DEF Submit
<1>2. ASSUME NEW r \in Runs, Cancel(r)
      PROVE  EngineTypeOK'
  <2>2. RunTypeOK'
    BY <1>2, <1>c DEF Cancel, QueueNext
  <2>3. step' \in [Runs -> [Nodes -> StepStatus]]
    <3>1. PendingSkipped(r) \in [Runs -> [Nodes -> StepStatus]]
      BY DEF PendingSkipped, StepStatus, StepResult
    <3> QED BY <1>2, <3>1 DEF Cancel, RequestCancel
  <2> QED BY <1>2, <1>b, <2>2, <2>3 DEF Cancel
<1>3. ASSUME NEW r \in Runs, Resolve(r)
      PROVE  EngineTypeOK'
  <2>2. RunTypeOK'
    BY <1>3, <1>c DEF Resolve, QueueNext
  <2> QED BY <1>3, <1>b, <2>2 DEF Resolve, ResolveAttention
<1>4. ASSUME NEW r \in Runs, Dispatch(r)
      PROVE  EngineTypeOK'
  <2>2. RunTypeOK'
    BY <1>4, <1>c DEF Dispatch, QueueNext
  <2>3. pc' \in [Runs -> PC]
    BY <1>4 DEF Dispatch, Goto, PC
  <2> QED BY <1>4, <2>2, <2>3 DEF Dispatch, CallWorks, Claim, hostVars
<1>5. ASSUME NEW p \in live, Exit(p)
      PROVE  EngineTypeOK'
  BY <1>5, <1>a DEF Exit
<1>6. CASE Start
  <2>2. RunTypeOK'
    BY <1>6, <1>c DEF Start, QueueNext
  <2>3. starts' \in 0..MaxRestarts
    BY <1>6, BoundAssumption DEF Start
  <2> QED BY <1>6, <2>2, <2>3 DEF Start, Recover, hostVars
<1>7. CASE BeginClose
  BY <1>7, <1>a DEF BeginClose, hostVars
<1>8. CASE EndClose
  BY <1>8, <1>a DEF EndClose, hostVars
<1>9. CASE Crash
  <2>1. Fresh \in Memory
    BY OrderFacts DEF Fresh, Memory, Err, EndStatus
  <2>2. pc' \in [Runs -> PC] /\ mem' \in [Runs -> Memory]
    BY <1>9, <2>1 DEF Crash, PC
  <2> QED BY <1>9, <1>a, <2>2 DEF Crash, hostVars
<1> QED BY <1>1, <1>2, <1>3, <1>4, <1>5, <1>6, <1>7, <1>8, <1>9 DEF Serve

(* They keep the invariant of every run. *)
LEMMA ServeLocal ==
  ASSUME EngineTypeOK, EngineTypeOK', Attending, NEW q \in Runs, Local(q), Serve
  PROVE  Local(q)'
<1>a. RowTypes(q) /\ RowTypes(q)'
  BY DEF EngineTypeOK, QueueTypeOK, RunTypeOK, RowTypes
<1>b. /\ pc \in [Runs -> PC] /\ step \in [Runs -> [Nodes -> StepStatus]]
      /\ status \in [Runs -> RunStatus]
  BY DEF EngineTypeOK, QueueTypeOK, RunTypeOK
<1>c. UNCHANGED engineVars => /\ pc' = pc /\ mem' = mem /\ launches' = launches
                              /\ mode' = mode
  BY DEF engineVars
<1>1. ASSUME NEW r \in Runs, Submit(r)
      PROVE  Untouched(q) \/ Requested(q)
  <2>1. PICK W \in LockSets, t \in 1..MaxTime : Enqueue(r, W, t)
    BY <1>1 DEF Submit
  <2> QED BY <1>1, <1>b, <1>c, <2>1
          DEF Submit, Enqueue, Untouched, SameRun, Requested
<1>2. ASSUME NEW r \in Runs, Cancel(r)
      PROVE  Untouched(q) \/ Requested(q)
  BY <1>2, <1>b, <1>c DEF Cancel, RequestCancel, PendingSkipped, SkipsPending,
     Untouched, SameRun, Requested
<1>3. ASSUME NEW r \in Runs, Resolve(r)
      PROVE  Untouched(q) \/ Requested(q)
  BY <1>3, <1>b, <1>c DEF Resolve, ResolveAttention, Untouched, SameRun,
     Requested
<1>4. ASSUME NEW r \in Runs, Dispatch(r)
      PROVE  Untouched(q) \/ Requested(q)
  BY <1>4, <1>b DEF Dispatch, Claim, Goto, hostVars, Untouched, SameRun,
     Requested
<1>5. ASSUME NEW p \in live, Exit(p)
      PROVE  Untouched(q)
  BY <1>5 DEF Exit, queueVars, Untouched, SameRun
<1>6. CASE Start
  <2>1. pc[q] = "idle"
    BY <1>6 DEF Start, Attending
  <2>2. Untouched(q) \/ Requested(q)
    BY <1>6, <1>b, <2>1 DEF Start, Recover, hostVars, Untouched, SameRun,
       Requested
  <2> QED BY <1>a, <2>2, UntouchedLocal, RequestedLocal
<1>7. CASE BeginClose \/ EndClose
  <2>1. Untouched(q)
    BY <1>7 DEF BeginClose, EndClose, queueVars, hostVars, Untouched, SameRun
  <2> QED BY <2>1, UntouchedLocal
<1>8. CASE Crash
  <2>1. Returns(q)
    BY <1>8 DEF Crash, queueVars, hostVars, Returns, SameRun
  <2> QED BY <1>a, <2>1, ReturnLocal
<1> QED
  BY <1>a, <1>1, <1>2, <1>3, <1>4, <1>5, <1>6, <1>7, <1>8, UntouchedLocal,
     RequestedLocal
     DEF Serve

(* A goroutine touches no run but its own. *)
LEMMA OthersUntouched ==
  ASSUME EngineTypeOK, NEW r \in Runs, Execute(r), NEW q \in Runs, q # r
  PROVE  Untouched(q)
<1>a. /\ pc \in [Runs -> PC] /\ mem \in [Runs -> Memory]
      /\ step \in [Runs -> [Nodes -> StepStatus]]
      /\ launches \in [Runs -> [Nodes -> Nat]] /\ status \in [Runs -> RunStatus]
  BY DEF EngineTypeOK, QueueTypeOK, RunTypeOK
<1>1. pc'[q] = pc[q]
  <2>1. \/ \E l : pc' = [pc EXCEPT ![r] = l]
        \/ pc' = pc
    BY DEF Execute, LoopHead, Skip, Begin, Conflict, Attempt, ExecFails,
       ExecInline,
       ExecWait, Launch, Started, PollClosing, PollStop, PollFails, PollDone, Post,
       Decide, Backoff, Retry, SettleSuccess, SettleError, RecordEnd, RecordFailure,
       Route, Terminate, FinishRun, Goto, Move, FinishWith, Return, Advance
  <2> QED BY <1>a, <2>1
<1>2. mem'[q] = mem[q]
  <2>1. \/ \E m : mem' = [mem EXCEPT ![r] = m]
        \/ mem' = mem
    BY DEF Execute, LoopHead, Skip, Begin, Conflict, Attempt, ExecFails,
       ExecInline,
       ExecWait, Launch, Started, PollClosing, PollStop, PollFails, PollDone, Post,
       Decide, Backoff, Retry, SettleSuccess, SettleError, RecordEnd, RecordFailure,
       Route, Terminate, FinishRun, Set, Move, FinishWith, Return, Advance
  <2> QED BY <1>a, <2>1
<1>3. status'[q] = status[q] /\ step'[q] = step[q]
  BY <1>a DEF Execute, LoopHead, Skip, Begin, Conflict, Attempt, ExecFails,
     ExecInline,
     ExecWait, Launch, Started, PollClosing, PollStop, PollFails, PollDone, Post,
     Decide, Backoff, Retry, SettleSuccess, SettleError, RecordEnd, RecordFailure,
     Route, Terminate, FinishRun, queueVars, runVars, FinishStep, BeginStep,
     StepProcess, RetryStep, SkipPending, PendingSkipped, Finish
<1>4. launches'[q] = launches[q]
  BY <1>a DEF Execute, LoopHead, Skip, Begin, Conflict, Attempt, ExecFails,
     ExecInline,
     ExecWait, Launch, Started, PollClosing, PollStop, PollFails, PollDone, Post,
     Decide, Backoff, Retry, SettleSuccess, SettleError, RecordEnd, RecordFailure,
     Route, Terminate, FinishRun, hostVars
<1> QED BY <1>1, <1>2, <1>3, <1>4 DEF Untouched, SameRun

(* The invariant of all runs is inductive. *)
LEMMA EngineLocalStep ==
  ASSUME EngineLocal, [Next]_vars
  PROVE  EngineLocal'
<1> USE DEF EngineLocal
<1>1. CASE Serve
  <2>1. EngineTypeOK'
    BY <1>1, ServeTypes
  <2>2. \A q \in Runs : Local(q)'
    BY <1>1, <2>1, ServeLocal
  <2>3. Attending'
    <3>a. \A r \in Runs : Goto(r, "head") => pc' = [pc EXCEPT ![r] = "head"]
      BY DEF Goto
    <3> QED
      BY <1>1 DEF Serve, Submit, Cancel, Resolve, Dispatch, CallWorks, Exit,
         Start,
          BeginClose, EndClose, Crash, Attending, engineVars
  <2> QED BY <2>1, <2>2, <2>3
<1>2. ASSUME NEW r \in Runs, Execute(r)
      PROVE  EngineLocal'
  <2>1. EngineTypeOK'
    BY <1>2, ExecuteTypes
  <2>2. \A q \in Runs : Local(q)'
    BY <1>2, <2>1, ExecuteLocal, OthersUntouched, UntouchedLocal
  <2>3. mode' = mode /\ pc[r] # "idle"
    BY <1>2 DEF Execute, LoopHead, Skip, Begin, Conflict, Attempt, ExecFails,
       ExecInline,
       ExecWait, Launch, Started, PollClosing, PollStop, PollFails, PollDone, Post,
       Decide, Backoff, Retry, SettleSuccess, SettleError, RecordEnd, RecordFailure,
       Route, Terminate, FinishRun
  <2>4. Attending'
    BY <2>3 DEF Attending
  <2> QED BY <2>1, <2>2, <2>4
<1>3. CASE UNCHANGED vars
  <2>1. EngineTypeOK'
    BY <1>3 DEF vars, queueVars, engineVars, EngineTypeOK, QueueTypeOK,
       RunTypeOK
  <2>2. \A q \in Runs : Untouched(q)
    BY <1>3 DEF vars, queueVars, engineVars, Untouched, SameRun
  <2>3. Attending'
    BY <1>3 DEF vars, engineVars, Attending
  <2> QED BY <2>1, <2>2, <2>3, UntouchedLocal
<1> QED BY <1>1, <1>2, <1>3 DEF Next, Serve

----------------------------------------------------------------------------
(* The properties of a run *)

(* It holds before the first start of the service. *)
LEMMA EngineLocalInit == EngineInit => EngineLocal
<1> SUFFICES ASSUME EngineInit
             PROVE  EngineLocal
  OBVIOUS
<1> USE DEF EngineInit, QueueInit
<1>a. Fresh \in Memory
  BY OrderFacts DEF Fresh, Memory, Err, EndStatus
<1>1. EngineTypeOK
  <2>1. RunTypeOK /\ step \in [Runs -> [Nodes -> StepStatus]]
    BY TimeAssumption DEF RunTypeOK, RunStatus, StepStatus
  <2> QED BY <1>a, <2>1, BoundAssumption DEF EngineTypeOK, QueueTypeOK, PC
<1>2. Attending
  BY DEF Attending
<1>3. ASSUME NEW r \in Runs
      PROVE  Local(r)
  <2>1. /\ pc[r] = "idle" /\ mem[r] = Fresh /\ status[r] = "absent"
        /\ \A n \in Nodes : step[r][n] = "absent" /\ launches[r][n] = 0
    OBVIOUS
  <2>2. Dispatched(r) = {}
    BY <2>1 DEF Dispatched
  <2>3. Claimed(r) /\ Behind(r) /\ Ahead(r) /\ Here(r)
    BY <2>1 DEF Claimed, Behind, Ahead, Here, Early, Trying, Tried, Routing
  <2>4. Judged(r)
    BY <2>1 DEF Judged, Fresh
  <2>5. Counted(r)
    BY <2>1, GraphAssumption DEF Counted, Early, Trying, Tried
  <2>6. Chosen(r)
    BY <2>1 DEF Chosen, Fresh
  <2>7. InputsOf(r) /\ BranchOf(r) /\ EndOf(r)
    BY <2>1, <2>2 DEF InputsOf, BranchOf, EndOf
  <2> QED BY <2>3, <2>4, <2>5, <2>6, <2>7 DEF Local
<1> QED BY <1>1, <1>2, <1>3 DEF EngineLocal

(* The types hold, and what a goroutine knows about its run is what the    *)
(* tables say, whatever calls fail and whenever the service dies.          *)
THEOREM EngineAlwaysLocal == Spec => []EngineLocal
BY EngineLocalInit, EngineLocalStep, PTL DEF Spec

(* No node is dispatched before all it depends on has its outcome.         *)
THEOREM InputsAlwaysSettled == Spec => []InputsSettled
<1>1. EngineLocal => InputsSettled
  <2>1. (\A r \in Runs : InputsOf(r)) => InputsSettled
    BY Zenon DEF InputsSettled, InputsOf, Produced
  <2> QED BY <2>1 DEF EngineLocal, Local
<1> QED BY <1>1, EngineAlwaysLocal, PTL

(* The two sides of a condition are never both executed in one run.        *)
THEOREM AlwaysOneBranch == Spec => []OneBranch
<1>1. EngineLocal => OneBranch
  <2>1. (\A r \in Runs : BranchOf(r)) => OneBranch
    BY Zenon DEF OneBranch, BranchOf
  <2> QED BY <2>1 DEF EngineLocal, Local
<1> QED BY <1>1, EngineAlwaysLocal, PTL

(* A run that ended by its own has no step left open, and a failure fails  *)
(* it, unless a terminate node says otherwise.                             *)
THEOREM FailureAlwaysSticks == Spec => []FailureSticks
<1>1. EngineLocal => FailureSticks
  <2>1. (\A r \in Runs : EndOf(r)) => FailureSticks
    BY Zenon DEF FailureSticks, EndOf
  <2> QED BY <2>1 DEF EngineLocal, Local
<1> QED BY <1>1, EngineAlwaysLocal, PTL

(* No node is launched more often than its attempts allow.                 *)
THEOREM LaunchesAlwaysBounded == Spec => []LaunchesBounded
<1>1. EngineLocal => LaunchesBounded
  BY DEF EngineLocal, Local, Counted, LaunchesBounded
<1> QED BY <1>1, EngineAlwaysLocal, PTL

----------------------------------------------------------------------------
(* The engine and the queue *)

(* Finish meets claimed runs only, and every other write of the engine is  *)
(* an operation of the queue or leaves its tables alone.                   *)
LEMMA QueueStep ==
  ASSUME EngineLocal, [Next]_vars
  PROVE  [QueueNext]_runVars
<1>a. UNCHANGED queueVars => UNCHANGED runVars
  BY DEF queueVars, runVars
<1>1. ASSUME NEW r \in Runs, Submit(r) \/ Cancel(r) \/ Resolve(r) \/ Dispatch(r)
      PROVE  QueueNext
  BY <1>1 DEF Submit, Cancel, Resolve, Dispatch, QueueNext
<1>2. CASE Start
  BY <1>2 DEF Start, QueueNext
<1>3. ASSUME NEW p \in live, Exit(p)
      PROVE  UNCHANGED runVars
  BY <1>3, <1>a DEF Exit
<1>4. CASE BeginClose \/ EndClose \/ Crash
  BY <1>4, <1>a DEF BeginClose, EndClose, Crash
<1>5. ASSUME NEW r \in Runs, FinishRun(r)
      PROVE  QueueNext \/ UNCHANGED runVars
  <2>1. CASE UNCHANGED queueVars
    BY <1>a, <2>1
  <2>2. CASE Finish(r, mem[r].verdict)
    <3>1. status[r] # "queued"
      BY <1>5 DEF FinishRun, EngineLocal, Local, Claimed
    <3>2. mem[r].verdict \in EndStatus \cup {"needs_attention"}
      BY DEF EngineLocal, EngineTypeOK, Memory
    <3> QED BY <2>2, <3>1, <3>2 DEF QueueNext
  <2> QED BY <1>5, <2>1, <2>2 DEF FinishRun
<1>6. ASSUME NEW r \in Runs, Execute(r), ~FinishRun(r)
      PROVE  UNCHANGED runVars
  BY <1>6, <1>a DEF Execute, LoopHead, Skip, Begin, Conflict, Attempt,
     ExecFails,
     ExecInline, ExecWait, Launch, Started, PollClosing, PollStop, PollFails, PollDone,
     Post, Decide, Backoff, Retry, SettleSuccess, SettleError, RecordEnd,
     RecordFailure, Route, Terminate, FinishStep, BeginStep, StepProcess, RetryStep,
     SkipPending
<1>7. CASE UNCHANGED vars
  BY <1>7, <1>a DEF vars
<1> QED BY <1>1, <1>2, <1>3, <1>4, <1>5, <1>6, <1>7 DEF Next

(* The engine does only what the tables of WorkflowQueue allow; so all     *)
(* that is proved of the queue holds of the engine.                        *)
THEOREM EngineImplementsQueue == Spec => ImplementsQueue
<1>1. EngineInit => Queue!QueueInit
  BY DEF EngineInit, QueueInit, Queue!QueueInit
<1>2. EngineLocal /\ [Next]_vars => [Queue!QueueNext]_(Queue!runVars)
  BY QueueStep DEF QueueNext, Queue!QueueNext, runVars, Queue!runVars,
     Enqueue, Queue!Enqueue, Claim, Queue!Claim, Finish, Queue!Finish,
     RequestCancel, Queue!RequestCancel, ResolveAttention, Queue!ResolveAttention,
     Recover, Queue!Recover, Queued, Queue!Queued, Conflicts, Queue!Conflicts,
     Before, Queue!Before, Released, Queue!Released, PendingSkipped,
     Queue!PendingSkipped, EndStatus, Queue!EndStatus
<1> QED
  BY <1>1, <1>2, EngineAlwaysLocal, PTL DEF Spec, ImplementsQueue,
     Queue!QueueSpec

(* And with that it is an implementation of the locks: what the users of   *)
(* ResourceLocks rely on holds while goroutines, processes, shutdowns and  *)
(* crashes interleave.                                                     *)
THEOREM EngineImplementsLocks == Spec => ImplementsLocks /\ []Locks!Exclusive
<1>1. EngineInit => QueueInit
  BY DEF EngineInit
<1>2. EngineLocal /\ [Next]_vars => [QueueNext]_runVars
  BY QueueStep
<1>3. Spec => QueueSpec
  BY <1>1, <1>2, EngineAlwaysLocal, PTL DEF Spec, QueueSpec
<1> QED BY <1>3, Refinement, OwnersShareNothing

(* The lock table agrees with the run table under the engine. *)
THEOREM EngineLocksMatch == Spec => []LocksMatch
<1>1. EngineInit => LocksMatch
  <2>1. EngineInit => QueueInit
    BY DEF EngineInit
  <2>2. QueueInit => LocksMatch
    BY RunsAssumption DEF QueueInit, LocksMatch, HeldBy, Owning
  <2> QED BY <2>1, <2>2
<1>2. EngineLocal /\ LocksMatch /\ [Next]_vars => LocksMatch'
  BY QueueStep, LocksStep DEF EngineLocal, EngineTypeOK, QueueTypeOK
<1> QED BY <1>1, <1>2, EngineAlwaysLocal, PTL DEF Spec

----------------------------------------------------------------------------
(* While no call fails by itself *)

EngineIInv == EngineLocal /\ (faults = 0 => Attended /\ Watched /\ OneEach)

(* What a process of run r asks of its goroutine. *)
WatchedOf(r, p) ==
  /\ status[r] \in Owning
  /\ pc[r] \in {"started", "poll"} => p = Current(r)
  /\ pc[r] \notin {"idle", "started", "poll"} =>
       /\ mode = "closing" /\ pc[r] \in Leaving
       /\ pc[r] \in {"record", "finish"} => mem[r].verdict = "needs_attention"

(* What an attended run looks like. *)
AttendedOf(r) ==
  mode = "up" =>
    /\ status[r] \in {"running", "cancelling"} => pc[r] # "idle"
    /\ pc[r] = "conflict" => status[r] = "cancelling"

(* A call of the goroutine that did not fail by itself. *)
LEMMA ExecuteAttends ==
  ASSUME EngineLocal, EngineLocal', NEW r \in Runs, Execute(r), faults' = 0,
         AttendedOf(r)
  PROVE  faults = 0 /\ AttendedOf(r)'
<1>a. /\ pc \in [Runs -> PC] /\ mem \in [Runs -> Memory] /\ faults \in Nat
      /\ status \in [Runs -> RunStatus]
  BY BoundAssumption DEF EngineLocal, EngineTypeOK, QueueTypeOK, RunTypeOK
<1>b. ~Fault
  BY <1>a DEF Fault
<1>c. faults = 0
  BY <1>b DEF Execute, LoopHead, Skip, Begin, Conflict, Attempt, ExecFails,
     ExecInline,
     ExecWait, Launch, Started, PollClosing, PollStop, PollFails, PollDone, Post,
     Decide, Backoff, Retry, SettleSuccess, SettleError, RecordEnd, RecordFailure,
     Route, Terminate, FinishRun, CallFails, CallWorks
<1>d. pc[r] # "idle" => status[r] \in {"running", "cancelling"}
  BY DEF EngineLocal, Local, Claimed
<1>e. \A l \in PC : Goto(r, l) => pc'[r] = l
  BY <1>a DEF Goto
<1> USE <1>a, <1>b, <1>c, <1>d, <1>e DEF AttendedOf
<1>1. CASE LoopHead(r)
  BY <1>1 DEF LoopHead, CallFails, CallWorks, queueVars, runVars, PC,
     FinishWith, Return
<1>2. CASE Skip(r)
  BY <1>2 DEF Skip, CallFails, CallWorks, queueVars, runVars, PC, FinishStep,
     Return, Advance
<1>3. CASE Begin(r)
  BY <1>3 DEF Begin, CallFails, CallWorks, queueVars, runVars, PC, BeginStep
<1>4. CASE Conflict(r)
  BY <1>4 DEF Conflict, CallFails, CallWorks, queueVars, runVars, PC,
     FinishWith, Return
<1>5. CASE Attempt(r)
  BY <1>5 DEF Attempt, CallFails, CallWorks, queueVars, runVars, PC,
     FinishWith, Move
<1>6. CASE ExecFails(r)
  BY <1>6 DEF ExecFails, CallFails, CallWorks, queueVars, runVars, PC, Move
<1>7. CASE ExecInline(r)
  BY <1>7 DEF ExecInline, CallFails, CallWorks, queueVars, runVars, PC
<1>8. CASE ExecWait(r)
  BY <1>8 DEF ExecWait, CallFails, CallWorks, queueVars, runVars, PC
<1>9. CASE Launch(r)
  BY <1>9 DEF Launch, CallFails, CallWorks, queueVars, runVars, PC
<1>10. CASE Started(r)
  BY <1>10 DEF Started, CallFails, CallWorks, queueVars, runVars, PC,
     StepProcess, Move
<1>11. CASE PollClosing(r)
  BY <1>11 DEF PollClosing, CallFails, CallWorks, queueVars, runVars, PC, Move
<1>12. CASE PollStop(r)
  BY <1>12 DEF PollStop, CallFails, CallWorks, queueVars, runVars, PC
<1>13. CASE PollFails(r)
  BY <1>13 DEF PollFails, CallFails, CallWorks, queueVars, runVars, PC, Move
<1>14. CASE PollDone(r)
  BY <1>14 DEF PollDone, CallFails, CallWorks, queueVars, runVars, PC
<1>15. CASE Post(r)
  BY <1>15 DEF Post, CallFails, CallWorks, queueVars, runVars, PC, FinishWith,
     Move
<1>16. CASE Decide(r)
  BY <1>16 DEF Decide, CallFails, CallWorks, queueVars, runVars, PC, FinishStep
<1>17. CASE Backoff(r)
  BY <1>17 DEF Backoff, CallFails, CallWorks, queueVars, runVars, PC, Move
<1>18. CASE Retry(r)
  BY <1>18 DEF Retry, CallFails, CallWorks, queueVars, runVars, PC, RetryStep,
     Move
<1>19. CASE SettleSuccess(r)
  BY <1>19 DEF SettleSuccess, CallFails, CallWorks, queueVars, runVars, PC,
     FinishStep, FinishWith
<1>20. CASE SettleError(r)
  BY <1>20 DEF SettleError, CallFails, CallWorks, queueVars, runVars, PC
<1>21. CASE RecordEnd(r)
  BY <1>21 DEF RecordEnd, CallFails, CallWorks, queueVars, runVars, PC,
     FinishStep
<1>22. CASE RecordFailure(r)
  BY <1>22 DEF RecordFailure, CallFails, CallWorks, queueVars, runVars, PC,
     FinishStep, FinishWith
<1>23. CASE Route(r)
  BY <1>23 DEF Route, CallFails, CallWorks, queueVars, runVars, PC,
     FinishWith, Advance
<1>24. CASE Terminate(r)
  BY <1>24 DEF Terminate, CallFails, CallWorks, queueVars, runVars, PC,
     SkipPending, FinishWith
<1>25. CASE FinishRun(r)
  <2>1. mem[r].verdict \notin {"running", "cancelling"} /\ pc'[r] = "idle"
    BY <1>25 DEF FinishRun, Return, PC, Memory, EndStatus
  <2> QED BY <1>25, <2>1 DEF FinishRun, Finish
<1> QED
  BY <1>1, <1>2, <1>3, <1>4, <1>5, <1>6, <1>7, <1>8, <1>9, <1>10, <1>11,
     <1>12, <1>13, <1>14, <1>15, <1>16, <1>17, <1>18, <1>19, <1>20, <1>21,
     <1>22, <1>23, <1>24, <1>25 DEF Execute

(* A process stays watched by the call that waits for it, or the service   *)
(* is closing and the run on its way to needs_attention.                   *)
LEMMA ExecuteWatches ==
  ASSUME EngineLocal, NEW r \in Runs, Execute(r), faults' = 0, faults = 0,
         NEW p \in live, p[1] = r, p \in live', WatchedOf(r, p)
  PROVE  WatchedOf(r, p)'
<1>a. /\ pc \in [Runs -> PC] /\ mem \in [Runs -> Memory] /\ mem[r] \in Memory
      /\ status \in [Runs -> RunStatus]
  BY DEF EngineLocal, EngineTypeOK, QueueTypeOK, RunTypeOK
<1>b. ~Fault
  BY DEF Fault
<1>d. pc[r] # "idle" => status[r] \in {"running", "cancelling"}
  BY DEF EngineLocal, Local, Claimed
<1>e. \A l \in PC : Goto(r, l) => pc'[r] = l
  BY <1>a DEF Goto
<1>f. \A s : FinishWith(r, s) => pc'[r] = "finish" /\ mem'[r].verdict = s
  BY <1>a DEF FinishWith, Goto, Set, Memory
<1>g. \A l \in PC : \A e : Move(r, l, e) => pc'[r] = l /\ mem'[r].verdict = mem[r].verdict
  BY <1>a DEF Move, Goto, Set, Memory
<1>h. Return(r) => pc'[r] = "idle"
  BY <1>a DEF Return, Goto, PC
<1>i. UNCHANGED <<mem, launches>> => Current(r)' = Current(r)
  BY DEF Current, Node
<1> USE <1>a, <1>b, <1>d, <1>e, <1>f, <1>g, <1>h, <1>i DEF WatchedOf, Owning
<1>1. CASE LoopHead(r)
  BY <1>1 DEF LoopHead, CallFails, CallWorks, queueVars, runVars, hostVars,
     PC, Leaving
<1>2. CASE Skip(r)
  BY <1>2 DEF Skip, CallFails, CallWorks, queueVars, runVars, hostVars, PC,
     Leaving, FinishStep
<1>3. CASE Begin(r)
  BY <1>3 DEF Begin, CallFails, CallWorks, queueVars, runVars, hostVars, PC,
     Leaving, BeginStep
<1>4. CASE Conflict(r)
  BY <1>4 DEF Conflict, CallFails, CallWorks, queueVars, runVars, hostVars,
     PC, Leaving
<1>5. CASE Attempt(r)
  BY <1>5 DEF Attempt, CallFails, CallWorks, queueVars, runVars, hostVars, PC,
     Leaving
<1>6. CASE ExecFails(r)
  BY <1>6 DEF ExecFails, CallFails, CallWorks, queueVars, runVars, hostVars,
     PC, Leaving
<1>7. CASE ExecInline(r)
  BY <1>7 DEF ExecInline, CallFails, CallWorks, queueVars, runVars, hostVars,
     PC, Leaving
<1>8. CASE ExecWait(r)
  BY <1>8 DEF ExecWait, CallFails, CallWorks, queueVars, runVars, hostVars,
     PC, Leaving
<1>9. CASE Launch(r)
  BY <1>9 DEF Launch, CallFails, CallWorks, queueVars, runVars, hostVars, PC,
     Leaving
<1>10. CASE Started(r)
  BY <1>10 DEF Started, CallFails, CallWorks, queueVars, runVars, hostVars,
     PC, Leaving, StepProcess
<1>11. CASE PollClosing(r)
  BY <1>11 DEF PollClosing, CallFails, CallWorks, queueVars, runVars,
     hostVars, PC, Leaving
<1>12. CASE PollStop(r)
  BY <1>12 DEF PollStop, CallFails, CallWorks, queueVars, runVars, hostVars,
     PC, Leaving
<1>13. CASE PollFails(r)
  BY <1>13 DEF PollFails, CallFails, CallWorks, queueVars, runVars, hostVars,
     PC, Leaving
<1>14. CASE PollDone(r)
  BY <1>14 DEF PollDone, CallFails, CallWorks, queueVars, runVars, hostVars,
     PC, Leaving
<1>15. CASE Post(r)
  BY <1>15 DEF Post, CallFails, CallWorks, queueVars, runVars, hostVars, PC,
     Leaving
<1>16. CASE Decide(r)
  BY <1>16 DEF Decide, CallFails, CallWorks, queueVars, runVars, hostVars, PC,
     Leaving, FinishStep
<1>17. CASE Backoff(r)
  BY <1>17 DEF Backoff, CallFails, CallWorks, queueVars, runVars, hostVars,
     PC, Leaving
<1>18. CASE Retry(r)
  BY <1>18 DEF Retry, CallFails, CallWorks, queueVars, runVars, hostVars, PC,
     Leaving, RetryStep
<1>19. CASE SettleSuccess(r)
  BY <1>19 DEF SettleSuccess, CallFails, CallWorks, queueVars, runVars,
     hostVars, PC, Leaving, FinishStep
<1>20. CASE SettleError(r)
  BY <1>20 DEF SettleError, CallFails, CallWorks, queueVars, runVars,
     hostVars, PC, Leaving, Verdict, Set, Memory
<1>21. CASE RecordEnd(r)
  BY <1>21 DEF RecordEnd, CallFails, CallWorks, queueVars, runVars, hostVars,
     PC, Leaving, FinishStep
<1>22. CASE RecordFailure(r)
  BY <1>22 DEF RecordFailure, CallFails, CallWorks, queueVars, runVars,
     hostVars, PC, Leaving, FinishStep
<1>23. CASE Route(r)
  BY <1>23 DEF Route, CallFails, CallWorks, queueVars, runVars, hostVars, PC,
     Leaving
<1>24. CASE Terminate(r)
  BY <1>24 DEF Terminate, CallFails, CallWorks, queueVars, runVars, hostVars,
     PC, Leaving, SkipPending
<1>25. CASE FinishRun(r)
  BY <1>25 DEF FinishRun, CallFails, CallWorks, queueVars, runVars, hostVars,
     PC, Leaving, Finish
<1> QED
  BY <1>1, <1>2, <1>3, <1>4, <1>5, <1>6, <1>7, <1>8, <1>9, <1>10, <1>11,
     <1>12, <1>13, <1>14, <1>15, <1>16, <1>17, <1>18, <1>19, <1>20, <1>21,
     <1>22, <1>23, <1>24, <1>25 DEF Execute

(* The invariant, without failing calls, one run and one process at a time.*)
Served ==
  /\ \A r \in Runs : AttendedOf(r)
  /\ \A p \in live : WatchedOf(p[1], p)
  /\ OneEach

(* The two ways to say it agree. *)
LEMMA ServedMeans == Served <=> Attended /\ Watched /\ OneEach
BY Zenon DEF Served, Attended, AttendedOf, Watched, WatchedOf

(* A goroutine keeps all of it; a launch is the first process of its run.  *)
LEMMA ExecuteServed ==
  ASSUME EngineLocal, EngineLocal', NEW r \in Runs, Execute(r), faults' = 0,
         faults = 0 => Served
  PROVE  Served'
<1>a. live \in SUBSET Process /\ \A p \in live : p[1] \in Runs
  BY DEF EngineLocal, EngineTypeOK, Process
<1>b. faults \in Nat
  BY BoundAssumption DEF EngineLocal, EngineTypeOK
<1>c. faults = 0
  <2>1. faults' = faults \/ faults' = faults + 1
    BY DEF Execute, LoopHead, Skip, Begin, Conflict, Attempt, ExecFails,
       ExecInline,
       ExecWait, Launch, Started, PollClosing, PollStop, PollFails, PollDone, Post,
       Decide, Backoff, Retry, SettleSuccess, SettleError, RecordEnd, RecordFailure,
       Route, Terminate, FinishRun, CallFails, CallWorks, Fault
  <2> QED BY <1>b, <2>1
<1>d. mode' = mode
  BY DEF Execute, LoopHead, Skip, Begin, Conflict, Attempt, ExecFails,
     ExecInline,
     ExecWait, Launch, Started, PollClosing, PollStop, PollFails, PollDone, Post,
     Decide, Backoff, Retry, SettleSuccess, SettleError, RecordEnd, RecordFailure,
     Route, Terminate, FinishRun
<1>e. \A q \in Runs : q # r => Untouched(q)
  BY OthersUntouched DEF EngineLocal
<1>1. \A q \in Runs : AttendedOf(q)'
  <2> TAKE q \in Runs
  <2>1. CASE q = r
    BY <1>c, <2>1, ExecuteAttends DEF Served
  <2>2. CASE q # r
    BY <1>c, <1>d, <1>e, <2>2 DEF Served, AttendedOf, Untouched, SameRun
  <2> QED BY <2>1, <2>2
<1>2. ASSUME NEW p \in live, p \in live'
      PROVE  WatchedOf(p[1], p)'
  <2>1. CASE p[1] = r
    <3>1. WatchedOf(r, p)
      BY <1>c, <2>1 DEF Served
    <3> QED BY <1>c, <1>2, <2>1, <3>1, ExecuteWatches
  <2>2. CASE p[1] # r
    <3>1. WatchedOf(p[1], p) /\ Untouched(p[1])
      BY <1>a, <1>c, <1>e, <2>2 DEF Served
    <3> QED BY <1>d, <3>1 DEF WatchedOf, Current, Node, Untouched, SameRun
  <2> QED BY <2>1, <2>2
<1>3. CASE live' \subseteq live
  BY <1>1, <1>2, <1>3, <1>c DEF Served, OneEach
<1>4. CASE Launch(r)
  <2> DEFINE new == <<r, Node(r), launches[r][Node(r)] + 1>>
  <2>1. live' = live \cup {new} /\ pc[r] = "exec" /\ pc'[r] = "started"
    BY <1>4 DEF Launch, Goto, EngineLocal, EngineTypeOK, PC
  <2>2. \A p \in live : p[1] # r
    <3> SUFFICES ASSUME NEW p \in live, p[1] = r
                 PROVE  FALSE
      OBVIOUS
    <3>1. WatchedOf(r, p)
      BY <1>c DEF Served
    <3> QED BY <2>1, <3>1 DEF WatchedOf, Leaving
  <2>3. new = Current(r)'
    <3>1. Node(r) \in Nodes /\ launches \in [Runs -> [Nodes -> Nat]]
      BY OrderFacts DEF EngineLocal, EngineTypeOK, Memory, Node
    <3>2. Node(r)' = Node(r) /\ launches'[r][Node(r)] = launches[r][Node(r)] + 1
      BY <1>4, <3>1 DEF Launch, Node
    <3> QED BY <3>2 DEF Current
  <2>4. status'[r] \in Owning
    BY <1>4, <2>1 DEF Launch, queueVars, EngineLocal, Local, Claimed, Owning
  <2>5. ASSUME NEW p \in live', p \notin live
        PROVE  WatchedOf(p[1], p)'
    <3>1. p = new /\ p[1] = r
      BY <2>1, <2>5
    <3> QED BY <2>1, <2>3, <2>4, <3>1 DEF WatchedOf
  <2>6. new[1] = r
    OBVIOUS
  <2>7. OneEach'
    BY <1>c, <2>1, <2>2, <2>6 DEF Served, OneEach
  <2>8. \A p \in live' : WatchedOf(p[1], p)'
    BY <1>2, <2>5
  <2> QED BY <1>1, <2>7, <2>8 DEF Served
<1>5. live' \subseteq live \/ Launch(r)
  BY DEF Execute, LoopHead, Skip, Begin, Conflict, Attempt, ExecFails,
     ExecInline,
     ExecWait, Started, PollClosing, PollStop, PollFails, PollDone, Post,
     Decide, Backoff, Retry, SettleSuccess, SettleError, RecordEnd, RecordFailure,
     Route, Terminate, FinishRun, hostVars
<1> QED BY <1>3, <1>4, <1>5

(* Users and the service keep it; labels are given back without processes. *)
LEMMA ServeServed ==
  ASSUME EngineLocal, EngineLocal', Serve, faults' = 0, faults = 0 => Served
  PROVE  Served'
<1>a. live \in SUBSET Process /\ \A p \in live : p[1] \in Runs
  BY DEF EngineLocal, EngineTypeOK, Process
<1>b. faults = 0
  BY DEF Serve, Submit, Cancel, Resolve, Dispatch, CallWorks, Exit, Start,
     BeginClose, EndClose, Crash, engineVars
<1>c. /\ pc \in [Runs -> PC] /\ status \in [Runs -> RunStatus]
  BY DEF EngineLocal, EngineTypeOK, QueueTypeOK, RunTypeOK
<1>d. UNCHANGED engineVars => /\ mode' = mode /\ pc' = pc /\ mem' = mem
                              /\ live' = live /\ launches' = launches
  BY DEF engineVars
<1>e. \A r \in Runs : Untouched(r) /\ mode' = mode => AttendedOf(r)'
  BY <1>b DEF Served, AttendedOf, Untouched, SameRun
<1>f. \A p \in live : Untouched(p[1]) /\ mode' = mode => WatchedOf(p[1], p)'
  BY <1>b DEF Served, WatchedOf, Current, Node, Untouched, SameRun
<1>g. \A r \in Runs : pc[r] # "idle" => status[r] \in {"running", "cancelling"}
  BY DEF EngineLocal, Local, Claimed
<1>h. live' \subseteq live => OneEach'
  BY <1>b DEF Served, OneEach
<1>i. /\ \A r \in Runs : AttendedOf(r)'
      /\ \A p \in live' : WatchedOf(p[1], p)'
      /\ OneEach'
      => Served'
  BY DEF Served
<1>k. \A p \in live : WatchedOf(p[1], p)
  BY <1>b DEF Served
<1>1. ASSUME NEW r \in Runs, Submit(r) \/ Cancel(r) \/ Resolve(r) \/ Dispatch(r)
      PROVE  Served'
  <2>1. \A q \in Runs : q # r => Untouched(q)
    <3>1. CASE Submit(r)
      <4>1. PICK W \in LockSets, t \in 1..MaxTime : Enqueue(r, W, t)
        BY <3>1 DEF Submit
      <4> QED BY <1>c, <1>d, <3>1, <4>1
              DEF Submit, Enqueue, Untouched, SameRun, EngineLocal, EngineTypeOK, QueueTypeOK
    <3>2. CASE Cancel(r)
      BY <1>c, <1>d, <3>2 DEF Cancel, RequestCancel, PendingSkipped,
         Untouched, SameRun,
         EngineLocal, EngineTypeOK, QueueTypeOK
    <3>3. CASE Resolve(r)
      BY <1>c, <1>d, <3>3 DEF Resolve, ResolveAttention, Untouched, SameRun
    <3>4. CASE Dispatch(r)
      BY <1>c, <3>4 DEF Dispatch, Claim, Goto, hostVars, Untouched, SameRun
    <3> QED BY <1>1, <3>1, <3>2, <3>3, <3>4
  <2>2. mode' = mode /\ live' = live
    BY <1>1, <1>d DEF Submit, Cancel, Resolve, Dispatch, hostVars
  <2>3. \A q \in Runs : q # r => AttendedOf(q)'
    BY <1>e, <2>1, <2>2
  <2>4. \A p \in live' : p[1] # r => WatchedOf(p[1], p)'
    BY <1>a, <1>f, <2>1, <2>2
  <2>5. CASE Submit(r)
    <3>1. PICK W \in LockSets, t \in 1..MaxTime : Enqueue(r, W, t)
      BY <2>5 DEF Submit
    <3>2. AttendedOf(r)'
      BY <1>b, <1>c, <1>d, <1>g, <2>5, <3>1 DEF Submit, Enqueue, AttendedOf
    <3>3. status[r] \notin Owning
      BY <3>1 DEF Enqueue, Owning
    <3>4. \A p \in live : p[1] # r
      BY <1>k, <3>3 DEF WatchedOf
    <3> QED BY <1>h, <1>i, <2>2, <2>3, <2>4, <3>2, <3>4
  <2>6. CASE Cancel(r)
    <3>1. AttendedOf(r)
      BY <1>b DEF Served
    <3>2. AttendedOf(r)'
      BY <1>b, <1>c, <1>d, <1>g, <2>6, <3>1 DEF Cancel, RequestCancel,
         AttendedOf
    <3>3. ASSUME NEW p \in live, p[1] = r
          PROVE  WatchedOf(p[1], p)'
      <4>1. WatchedOf(r, p)
        BY <1>k, <3>3
      <4> QED BY <1>c, <1>d, <2>6, <3>3, <4>1
              DEF Cancel, RequestCancel, WatchedOf, Owning, Current, Node
    <3> QED BY <1>h, <1>i, <2>2, <2>3, <2>4, <3>2, <3>3
  <2>7. CASE Resolve(r)
    <3>1. AttendedOf(r)'
      BY <1>b, <1>c, <1>d, <1>g, <2>7 DEF Resolve, ResolveAttention, AttendedOf
    <3>2. \A p \in live : p[1] # r
      BY <2>7 DEF Resolve
    <3> QED BY <1>h, <1>i, <2>2, <2>3, <2>4, <3>1, <3>2
  <2>8. CASE Dispatch(r)
    <3>1. AttendedOf(r)'
      BY <1>b, <1>c, <2>8 DEF Dispatch, Claim, Goto, AttendedOf
    <3>2. status[r] \notin Owning
      BY <2>8 DEF Dispatch, Claim, Owning
    <3>3. \A p \in live : p[1] # r
      BY <1>k, <3>2 DEF WatchedOf
    <3> QED BY <1>h, <1>i, <2>2, <2>3, <2>4, <3>1, <3>3
  <2> QED BY <1>1, <2>5, <2>6, <2>7, <2>8
<1>2. ASSUME NEW p \in live, Exit(p)
      PROVE  Served'
  <2>1. \A q \in Runs : Untouched(q)
    BY <1>2 DEF Exit, queueVars, Untouched, SameRun
  <2>2. mode' = mode /\ live' \subseteq live
    BY <1>2 DEF Exit
  <2> QED BY <1>a, <1>e, <1>f, <1>h, <1>i, <2>1, <2>2
<1>3. CASE Start
  <2>1. \A r \in Runs : pc[r] = "idle" /\ pc' = pc /\ live' = live
    BY <1>3 DEF Start, EngineLocal, Attending, hostVars
  <2>2. \A r \in Runs : AttendedOf(r)'
    BY <1>3, <2>1 DEF Start, Recover, AttendedOf
  <2>3. \A p \in live : WatchedOf(p[1], p)'
    <3>1. \A r \in Runs : status[r] \in Owning => status'[r] \in Owning
      BY <1>3 DEF Start, Recover, Owning
    <3> QED BY <1>a, <1>k, <2>1, <3>1 DEF WatchedOf
  <2>4. live' = live
    BY <1>3 DEF Start, hostVars
  <2> QED BY <1>h, <1>i, <2>2, <2>3, <2>4
<1>4. CASE BeginClose
  <2>1. /\ mode = "up" /\ mode' = "closing" /\ pc' = pc /\ mem' = mem /\ status' = status
        /\ live' = live /\ launches' = launches
    BY <1>4 DEF BeginClose, queueVars, hostVars
  <2>2. \A r \in Runs : AttendedOf(r)'
    BY <2>1 DEF AttendedOf
  <2>3. \A p \in live : WatchedOf(p[1], p)'
    BY <1>k, <2>1 DEF WatchedOf, Current, Node
  <2> QED BY <1>h, <1>i, <2>1, <2>2, <2>3
<1>5. CASE EndClose \/ Crash
  <2>1. /\ mode' = "down" /\ (\A r \in Runs : pc'[r] = "idle")
        /\ status' = status /\ live' = live
    BY <1>5 DEF EndClose, Crash, queueVars, hostVars
  <2>2. \A r \in Runs : AttendedOf(r)'
    BY <2>1 DEF AttendedOf
  <2>3. \A p \in live : WatchedOf(p[1], p)'
    BY <1>a, <1>k, <2>1 DEF WatchedOf
  <2> QED BY <1>h, <1>i, <2>1, <2>2, <2>3
<1> QED BY <1>1, <1>2, <1>3, <1>4, <1>5 DEF Serve

(* The whole invariant is inductive. *)
LEMMA EngineStep ==
  ASSUME EngineIInv, [Next]_vars
  PROVE  EngineIInv'
<1>1. EngineLocal'
  BY EngineLocalStep DEF EngineIInv
<1>2. faults = 0 => Served
  BY ServedMeans DEF EngineIInv
<1>3. ASSUME faults' = 0
      PROVE  Served'
  <2>1. CASE Serve
    BY <1>1, <1>2, <1>3, <2>1, ServeServed DEF EngineIInv
  <2>2. ASSUME NEW r \in Runs, Execute(r)
        PROVE  Served'
    BY <1>1, <1>2, <1>3, <2>2, ExecuteServed DEF EngineIInv
  <2>3. CASE UNCHANGED vars
    BY <1>2, <1>3, <2>3 DEF vars, queueVars, engineVars, Served, AttendedOf,
       WatchedOf, OneEach, Current, Node
  <2> QED BY <2>1, <2>2, <2>3 DEF Next, Serve
<1>4. Served' => (Attended /\ Watched /\ OneEach)'
  BY Zenon DEF Served, Attended, AttendedOf, Watched, WatchedOf
<1> QED BY <1>1, <1>3, <1>4 DEF EngineIInv

(* The whole invariant. *)
THEOREM EngineAlwaysServed == Spec => []EngineIInv
<1>1. EngineInit => EngineIInv
  <2>1. EngineInit => live = {} /\ mode = "down" /\ \A r \in Runs : status[r] = "absent"
    BY DEF EngineInit, QueueInit
  <2> QED BY <2>1, EngineLocalInit DEF EngineIInv, Attended, Watched, OneEach
<1> QED BY <1>1, EngineStep, PTL DEF Spec

(* While no call has failed by itself, every claimed run is worked on, and *)
(* nothing else is.                                                        *)
THEOREM EngineAlwaysSound == Spec => [](faults = 0 => EngineInv)
<1>1. EngineIInv => (faults = 0 => EngineInv)
  <2>1. EngineLocal => EngineTypeOK /\ \A r \in Runs :
          pc[r] # "idle" => status[r] \in {"running", "cancelling"}
    BY DEF EngineLocal, Local, Claimed
  <2>2. Attended => \A r \in Runs :
          mode = "up" /\ status[r] \in {"running", "cancelling"} => pc[r] # "idle"
    BY DEF Attended
  <2> QED BY <2>1, <2>2 DEF EngineIInv, EngineInv, Executing
<1> QED BY <1>1, EngineAlwaysServed, PTL

(* While no call has failed by itself, no two processes work on one        *)
(* resource, and none on a resource that its run has given back.           *)
THEOREM ProcessesExclusive == Spec => [](faults = 0 => ExclusiveProcesses)
<1>1. EngineIInv /\ LocksMatch => (faults = 0 => ExclusiveProcesses)
  <2> SUFFICES ASSUME EngineIInv, LocksMatch, faults = 0
               PROVE  ExclusiveProcesses
    OBVIOUS
  <2>1. Attended /\ Watched /\ OneEach
    BY DEF EngineIInv
  <2>2. ReleasedMeansStopped
    BY <2>1 DEF Watched, ReleasedMeansStopped
  <2>3. \A p \in live : p[1] \in Runs
    BY DEF EngineIInv, EngineLocal, EngineTypeOK, Process
  <2>4. \A q, r \in Runs : q # r /\ status[q] \in Owning /\ status[r] \in Owning
          => wanted[q] \cap wanted[r] = {}
    BY DEF LocksMatch, HeldBy
  <2>5. ASSUME NEW p \in live, NEW q \in live, p # q
        PROVE  p[1] # q[1] /\ wanted[p[1]] \cap wanted[q[1]] = {}
    <3>1. p[1] # q[1]
      BY <2>1, <2>5 DEF OneEach
    <3> QED BY <2>2, <2>3, <2>4, <3>1 DEF ReleasedMeansStopped
  <2> QED BY <2>2, <2>5 DEF ExclusiveProcesses
<1> QED BY <1>1, EngineAlwaysServed, EngineLocksMatch, PTL

----------------------------------------------------------------------------
(* With any number of failing calls *)

(* The calls after the process of a node, on the way out of the run. *)
Parting == Leaving \cup {"head", "route", "terminate"}

(* Why a process p of run r exists: its goroutine waits for it; or the run *)
(* was cancelled and starts nothing anymore; or it is on its way to        *)
(* needs_attention; or it is nobody's, and will not be claimed again.      *)
AccountedOf(r, p) ==
  \/ pc[r] = "idle" /\ status[r] \notin {"absent", "queued"}
  \/ pc[r] \in {"started", "poll"} /\ p = Current(r)
  \/ pc[r] \in Parting /\ status[r] = "cancelling"
  \/ /\ pc[r] \in {"post", "decide", "settle"}
     /\ mem[r].err = "uncertain" \/ mode = "closing"
  \/ pc[r] \in {"record", "finish"} /\ mem[r].verdict = "needs_attention"

Accounted == OneEach /\ \A p \in live : AccountedOf(p[1], p)

(* The goroutine of run r, and a process of it that goes on to exist.      *)
LEMMA ExecuteAccounts ==
  ASSUME EngineLocal, NEW r \in Runs, Execute(r),
         NEW p \in live, p[1] = r, p \in live', AccountedOf(r, p)
  PROVE  /\ AccountedOf(r, p)'
         /\ status[r] \in Owning /\ status'[r] \notin Owning
              => status[r] = "cancelling"
<1>a. /\ pc \in [Runs -> PC] /\ mem \in [Runs -> Memory] /\ mem[r] \in Memory
      /\ status \in [Runs -> RunStatus]
  BY DEF EngineLocal, EngineTypeOK, QueueTypeOK, RunTypeOK
<1>d. pc[r] # "idle" => status[r] \in {"running", "cancelling"}
  BY DEF EngineLocal, Local, Claimed
<1>e. \A l \in PC : Goto(r, l) => pc'[r] = l
  BY <1>a DEF Goto
<1>f. \A s : FinishWith(r, s) => pc'[r] = "finish" /\ mem'[r].verdict = s
  BY <1>a DEF FinishWith, Goto, Set, Memory
<1>g. \A l \in PC : \A e : Move(r, l, e) => pc'[r] = l /\ mem'[r].err = e
  BY <1>a DEF Move, Goto, Set, Memory
<1>h. Return(r) => pc'[r] = "idle"
  BY <1>a DEF Return, Goto, PC
<1>i. UNCHANGED <<mem, launches>> => Current(r)' = Current(r)
  BY DEF Current, Node
<1>j. \A v \in EndStatus \cup {"needs_attention"} :
        Set(r, [mem[r] EXCEPT !.verdict = v]) => mem'[r].verdict = v
  BY <1>a DEF Set, Memory
<1> USE <1>a, <1>d, <1>e, <1>f, <1>g, <1>h, <1>i, <1>j
    DEF AccountedOf, Owning, Leaving, EndStatus
<1>1. CASE LoopHead(r)
  BY <1>1 DEF LoopHead, CallFails, CallWorks, queueVars, runVars, hostVars,
     PC, Parting
<1>2. CASE Skip(r)
  BY <1>2 DEF Skip, CallFails, CallWorks, queueVars, runVars, hostVars, PC,
     Parting, FinishStep, Advance
<1>3. CASE Begin(r)
  BY <1>3 DEF Begin, CallFails, CallWorks, queueVars, runVars, hostVars, PC,
     Parting, BeginStep
<1>4. CASE Conflict(r)
  BY <1>4 DEF Conflict, CallFails, CallWorks, queueVars, runVars, hostVars,
     PC, Parting
<1>5. CASE Attempt(r)
  BY <1>5 DEF Attempt, CallFails, CallWorks, queueVars, runVars, hostVars,
     PC, Parting
<1>6. CASE ExecFails(r)
  BY <1>6 DEF ExecFails, CallFails, CallWorks, queueVars, runVars, hostVars,
     PC, Parting
<1>7. CASE ExecInline(r)
  BY <1>7 DEF ExecInline, CallFails, CallWorks, queueVars, runVars, hostVars,
     PC, Parting
<1>8. CASE ExecWait(r)
  BY <1>8 DEF ExecWait, CallFails, CallWorks, queueVars, runVars, hostVars,
     PC, Parting
<1>9. CASE Launch(r)
  BY <1>9 DEF Launch, CallFails, CallWorks, queueVars, runVars, hostVars, PC,
     Parting
<1>10. CASE Started(r)
  BY <1>10 DEF Started, CallFails, CallWorks, queueVars, runVars, hostVars,
     PC, Parting, StepProcess
<1>11. CASE PollClosing(r)
  BY <1>11 DEF PollClosing, CallFails, CallWorks, queueVars, runVars,
     hostVars, PC, Parting
<1>12. CASE PollStop(r)
  BY <1>12 DEF PollStop, CallFails, CallWorks, queueVars, runVars, hostVars,
     PC, Parting
<1>13. CASE PollFails(r)
  BY <1>13 DEF PollFails, CallFails, CallWorks, queueVars, runVars, hostVars,
     PC, Parting
<1>14. CASE PollDone(r)
  BY <1>14 DEF PollDone, CallFails, CallWorks, queueVars, runVars, hostVars,
     PC, Parting
<1>15. CASE Post(r)
  BY <1>15 DEF Post, CallFails, CallWorks, queueVars, runVars, hostVars, PC,
     Parting, ErrAfterRead
<1>16. CASE Decide(r)
  BY <1>16 DEF Decide, CallFails, CallWorks, queueVars, runVars, hostVars,
     PC, Parting, FinishStep
<1>17. CASE Backoff(r)
  BY <1>17 DEF Backoff, CallFails, CallWorks, queueVars, runVars, hostVars,
     PC, Parting
<1>18. CASE Retry(r)
  BY <1>18 DEF Retry, CallFails, CallWorks, queueVars, runVars, hostVars, PC,
     Parting, RetryStep
<1>19. CASE SettleSuccess(r)
  BY <1>19 DEF SettleSuccess, CallFails, CallWorks, queueVars, runVars,
     hostVars, PC, Parting, FinishStep
<1>20. CASE SettleError(r)
  BY <1>20 DEF SettleError, CallFails, CallWorks, queueVars, runVars,
     hostVars, PC, Parting, Verdict
<1>21. CASE RecordEnd(r)
  BY <1>21 DEF RecordEnd, CallFails, CallWorks, queueVars, runVars, hostVars,
     PC, Parting, FinishStep
<1>22. CASE RecordFailure(r)
  BY <1>22 DEF RecordFailure, CallFails, CallWorks, queueVars, runVars,
     hostVars, PC, Parting, FinishStep
<1>23. CASE Route(r)
  BY <1>23 DEF Route, CallFails, CallWorks, queueVars, runVars, hostVars, PC,
     Parting, Advance
<1>24. CASE Terminate(r)
  BY <1>24 DEF Terminate, CallFails, CallWorks, queueVars, runVars, hostVars,
     PC, Parting, SkipPending
<1>25. CASE FinishRun(r)
  <2>1. pc[r] = "finish" /\ pc'[r] = "idle" /\ pc[r] # "idle"
    BY <1>25 DEF FinishRun
  <2>2. mem[r].verdict \in EndStatus \cup {"needs_attention"}
    BY DEF Memory
  <2>3. mem[r].verdict = "needs_attention" \/ status[r] = "cancelling"
    BY <2>1
  <2>4. status'[r] = status[r] \/ status'[r] = mem[r].verdict
    BY <1>25 DEF FinishRun, Finish, queueVars
  <2> QED BY <2>1, <2>2, <2>3, <2>4
<1> HIDE DEF AccountedOf, Owning, Leaving, EndStatus
<1> QED
  BY <1>1, <1>2, <1>3, <1>4, <1>5, <1>6, <1>7, <1>8, <1>9, <1>10, <1>11,
     <1>12, <1>13, <1>14, <1>15, <1>16, <1>17, <1>18, <1>19, <1>20, <1>21,
     <1>22, <1>23, <1>24, <1>25 DEF Execute

(* What a step may do to a process that goes on to exist. *)
KeptFrom(p) ==
  status[p[1]] \in Owning /\ status'[p[1]] \notin Owning => status[p[1]] = "cancelling"

(* A step that starts no process and accounts for the others is enough.    *)
LEMMA AccountsStay ==
  ASSUME Accounted, live' \subseteq live,
         \A p \in live : p \in live' => AccountedOf(p[1], p)' /\ KeptFrom(p)
  PROVE  /\ Accounted'
         /\ \A p \in live :
              /\ p \in live' => KeptFrom(p)
              /\ \A q \in live' \ live : q[1] # p[1]
BY DEF Accounted, OneEach

(* A goroutine leaves the mode alone, and only a launch adds a process.     *)
LEMMA OnlyLaunchAdds ==
  ASSUME NEW r \in Runs, Execute(r)
  PROVE  mode' = mode /\ (live' \subseteq live \/ Launch(r))
<1>1. mode' = mode
  BY DEF Execute, LoopHead, Skip, Begin, Conflict, Attempt, ExecFails,
     ExecInline,
     ExecWait, Launch, Started, PollClosing, PollStop, PollFails, PollDone, Post,
     Decide, Backoff, Retry, SettleSuccess, SettleError, RecordEnd, RecordFailure,
     Route, Terminate, FinishRun
<1>2. live' \subseteq live \/ Launch(r)
  BY DEF Execute, LoopHead, Skip, Begin, Conflict, Attempt, ExecFails,
     ExecInline,
     ExecWait, Started, PollClosing, PollStop, PollFails, PollDone, Post,
     Decide, Backoff, Retry, SettleSuccess, SettleError, RecordEnd, RecordFailure,
     Route, Terminate, FinishRun, hostVars
<1> QED BY <1>1, <1>2

(* The goroutine: a launch finds no process of the run.                    *)
LEMMA ExecuteKeeps ==
  ASSUME EngineLocal, EngineLocal', NEW r \in Runs, Execute(r), Accounted
  PROVE  /\ Accounted'
         /\ \A p \in live :
              /\ p \in live' => KeptFrom(p)
              /\ \A q \in live' \ live : q[1] # p[1]
<1>a. live \in SUBSET Process /\ \A p \in live : p[1] \in Runs
  BY DEF EngineLocal, EngineTypeOK, Process
<1>b. \A q \in Runs : q # r => Untouched(q)
  BY OthersUntouched DEF EngineLocal
<1>c. mode' = mode
  BY OnlyLaunchAdds
<1>1. ASSUME NEW p \in live, p \in live'
      PROVE  AccountedOf(p[1], p)' /\ KeptFrom(p)
  <2>1. AccountedOf(p[1], p)
    BY DEF Accounted
  <2>2. CASE p[1] = r
    BY <1>1, <2>1, <2>2, ExecuteAccounts DEF KeptFrom
  <2>3. CASE p[1] # r
    <3>1. Untouched(p[1])
      BY <1>a, <1>b, <2>3
    <3> QED BY <1>c, <2>1, <3>1
            DEF AccountedOf, KeptFrom, Current, Node, Untouched, SameRun
  <2> QED BY <2>2, <2>3
<1>2. CASE live' \subseteq live
  BY <1>1, <1>2, AccountsStay
<1>3. CASE Launch(r)
  <2> DEFINE new == <<r, Node(r), launches[r][Node(r)] + 1>>
  <2>1. live' = live \cup {new} /\ pc[r] = "exec" /\ pc'[r] = "started"
    BY <1>3 DEF Launch, Goto, EngineLocal, EngineTypeOK, PC
  <2>2. \A p \in live : p[1] # r
    <3> SUFFICES ASSUME NEW p \in live, p[1] = r
                 PROVE  FALSE
      OBVIOUS
    <3>1. AccountedOf(r, p)
      BY DEF Accounted
    <3> QED BY <2>1, <3>1 DEF AccountedOf, Parting, Leaving
  <2>3. new = Current(r)'
    <3>1. Node(r) \in Nodes /\ launches \in [Runs -> [Nodes -> Nat]]
      BY OrderFacts DEF EngineLocal, EngineTypeOK, Memory, Node
    <3>2. Node(r)' = Node(r) /\ launches'[r][Node(r)] = launches[r][Node(r)] + 1
      BY <1>3, <3>1 DEF Launch, Node
    <3> QED BY <3>2 DEF Current
  <2>4. new[1] = r
    OBVIOUS
  <2>5. \A p \in live' : p \in live \/ p = new
    BY <2>1
  <2>6. ASSUME NEW p \in live', p \notin live
        PROVE  AccountedOf(p[1], p)'
    <3>1. p = Current(r)' /\ p[1] = r
      BY <2>3, <2>4, <2>5, <2>6
    <3> QED BY <2>1, <3>1 DEF AccountedOf
  <2>7. \A p \in live' : AccountedOf(p[1], p)'
    BY <1>1, <2>6
  <2>8. OneEach'
    BY <2>2, <2>4, <2>5 DEF Accounted, OneEach
  <2> HIDE DEF new
  <2> QED BY <1>1, <2>2, <2>4, <2>5, <2>7, <2>8 DEF Accounted
<1>4. live' \subseteq live \/ Launch(r)
  BY OnlyLaunchAdds
<1> QED BY <1>2, <1>3, <1>4

(* Users, dispatches, exits, and the service.  *)
LEMMA ServeKeeps ==
  ASSUME EngineLocal, EngineLocal', Serve, Accounted
  PROVE  /\ Accounted'
         /\ \A p \in live :
              /\ p \in live' => KeptFrom(p)
              /\ \A q \in live' \ live : q[1] # p[1]
<1>a. live \in SUBSET Process /\ \A p \in live : p[1] \in Runs
  BY DEF EngineLocal, EngineTypeOK, Process
<1>b. /\ pc \in [Runs -> PC] /\ status \in [Runs -> RunStatus]
  BY DEF EngineLocal, EngineTypeOK, QueueTypeOK, RunTypeOK
<1>c. \A r \in Runs : pc[r] # "idle" => status[r] \in {"running", "cancelling"}
  BY DEF EngineLocal, Local, Claimed
<1>d. \A p \in live : AccountedOf(p[1], p)
  BY DEF Accounted
<1>1. ASSUME NEW r \in Runs, NEW p \in live,
             Submit(r) \/ Cancel(r) \/ Resolve(r) \/ Dispatch(r)
      PROVE  AccountedOf(p[1], p)' /\ KeptFrom(p)
  <2>1. mode' = mode /\ mem' = mem /\ launches' = launches
    BY <1>1 DEF Submit, Cancel, Resolve, Dispatch, engineVars, hostVars
  <2>2. p[1] \in Runs /\ status[p[1]] \notin {"absent", "queued"}
    BY <1>a, <1>c, <1>d DEF AccountedOf
  <2>3. CASE Submit(r)
    <3>1. PICK W \in LockSets, t \in 1..MaxTime : Enqueue(r, W, t)
      BY <2>3 DEF Submit
    <3>2. status'[p[1]] = status[p[1]] /\ pc' = pc
      BY <1>b, <2>2, <2>3, <3>1 DEF Submit, Enqueue, engineVars
    <3> QED BY <1>d, <2>1, <3>2 DEF AccountedOf, KeptFrom, Current, Node
  <2>4. CASE Cancel(r)
    <3>1. pc' = pc /\ \/ status'[p[1]] = status[p[1]]
                      \/ status[p[1]] = "running" /\ status'[p[1]] = "cancelling"
      BY <1>b, <2>2, <2>4 DEF Cancel, RequestCancel, engineVars
    <3> QED BY <1>d, <2>1, <3>1 DEF AccountedOf, KeptFrom, Current, Node, Owning
  <2>5. CASE Resolve(r)
    <3>1. p[1] # r
      BY <2>5 DEF Resolve
    <3>2. status'[p[1]] = status[p[1]] /\ pc' = pc
      BY <1>b, <2>2, <2>5, <3>1 DEF Resolve, ResolveAttention, engineVars
    <3> QED BY <1>d, <2>1, <3>2 DEF AccountedOf, KeptFrom, Current, Node
  <2>6. CASE Dispatch(r)
    <3>1. p[1] # r
      BY <2>2, <2>6 DEF Dispatch, Claim
    <3>2. status'[p[1]] = status[p[1]] /\ pc'[p[1]] = pc[p[1]]
      BY <1>b, <2>2, <2>6, <3>1 DEF Dispatch, Claim, Goto
    <3> QED BY <1>d, <2>1, <3>2 DEF AccountedOf, KeptFrom, Current, Node
  <2> QED BY <1>1, <2>3, <2>4, <2>5, <2>6
<1>2. ASSUME NEW q \in live, Exit(q), NEW p \in live
      PROVE  AccountedOf(p[1], p)' /\ KeptFrom(p)
  BY <1>d, <1>2 DEF Exit, queueVars, AccountedOf, KeptFrom, Current, Node
<1>3. ASSUME Start, NEW p \in live
      PROVE  AccountedOf(p[1], p)' /\ KeptFrom(p)
  <2>1. p[1] \in Runs /\ pc[p[1]] = "idle" /\ pc' = pc
    BY <1>3, <1>a DEF Start, EngineLocal, Attending
  <2>2. /\ status[p[1]] \notin {"absent", "queued"}
    BY <1>d, <2>1 DEF AccountedOf, Parting, Leaving
  <2>3. /\ status'[p[1]] \in {status[p[1]], "needs_attention"}
    BY <1>3, <2>1 DEF Start, Recover
  <2> QED BY <2>1, <2>2, <2>3 DEF AccountedOf, KeptFrom, Owning
<1>4. ASSUME BeginClose, NEW p \in live
      PROVE  AccountedOf(p[1], p)' /\ KeptFrom(p)
  BY <1>d, <1>4 DEF BeginClose, queueVars, hostVars, AccountedOf, KeptFrom,
     Current, Node
<1>5. ASSUME EndClose \/ Crash, NEW p \in live
      PROVE  AccountedOf(p[1], p)' /\ KeptFrom(p)
  <2>1. p[1] \in Runs /\ pc'[p[1]] = "idle" /\ status' = status
    BY <1>5, <1>a DEF EndClose, Crash, queueVars
  <2>2. status[p[1]] \notin {"absent", "queued"}
    BY <1>c, <1>d, <2>1 DEF AccountedOf
  <2> QED BY <2>1, <2>2 DEF AccountedOf, KeptFrom
<1>6. live' \subseteq live
  BY DEF Serve, Submit, Cancel, Resolve, Dispatch, Exit, Start, BeginClose,
     EndClose, Crash, engineVars, hostVars
<1>7. ASSUME NEW p \in live
      PROVE  AccountedOf(p[1], p)' /\ KeptFrom(p)
  BY <1>1, <1>2, <1>3, <1>4, <1>5 DEF Serve
<1> QED BY <1>6, <1>7, AccountsStay

(* One step of the engine. *)
LEMMA AccountsStep ==
  ASSUME EngineLocal, [Next]_vars, Accounted
  PROVE  /\ Accounted'
         /\ \A p \in live :
              /\ p \in live' => KeptFrom(p)
              /\ \A q \in live' \ live : q[1] # p[1]
<1>1. EngineLocal'
  BY EngineLocalStep
<1>2. CASE Serve
  BY <1>1, <1>2, ServeKeeps
<1>3. ASSUME NEW r \in Runs, Execute(r)
      PROVE  /\ Accounted'
             /\ \A p \in live :
                  /\ p \in live' => KeptFrom(p)
                  /\ \A q \in live' \ live : q[1] # p[1]
  BY <1>1, <1>3, ExecuteKeeps
<1>4. CASE UNCHANGED vars
  BY <1>4 DEF vars, queueVars, engineVars, Accounted, AccountedOf, OneEach,
     Current, Node, KeptFrom
<1> QED BY <1>2, <1>3, <1>4 DEF Next, Serve

(* Every process of a run is accounted for, and there is at most one.      *)
LEMMA AlwaysAccounted == Spec => []Accounted
<1>1. EngineInit => Accounted
  BY DEF EngineInit, Accounted, OneEach
<1>2. EngineLocal /\ Accounted /\ [Next]_vars => Accounted'
  BY AccountsStep
<1> QED BY <1>1, <1>2, EngineAlwaysLocal, PTL DEF Spec

(* With any number of failing calls, crashes and starts: only a cancel     *)
(* request frees the labels of a run whose process may still exist, and no *)
(* node is launched next to a process of its run.                          *)
THEOREM UncertainAlwaysKept == Spec => UncertainKept
<1>1. EngineLocal /\ Accounted /\ [Next]_vars =>
        [\A p \in live :
           /\ p \in live' /\ status[p[1]] \in Owning /\ status'[p[1]] \notin Owning
                => status[p[1]] = "cancelling"
           /\ \A q \in live' \ live : q[1] # p[1]]_vars
  BY AccountsStep DEF KeptFrom
<1> QED
  BY <1>1, EngineAlwaysLocal, AlwaysAccounted, PTL DEF Spec, UncertainKept

(* And then two processes that work on one resource are of two runs, and   *)
(* one of the two has given its labels back: by the theorem above, after a *)
(* cancel request.                                                         *)
THEOREM OwnersExclusive ==
  Spec => [](\A p, q \in live : p # q =>
               /\ p[1] # q[1]
               /\ status[p[1]] \in Owning /\ status[q[1]] \in Owning
                    => wanted[p[1]] \cap wanted[q[1]] = {})
<1>1. EngineLocal /\ Accounted /\ LocksMatch =>
        \A p, q \in live : p # q =>
          /\ p[1] # q[1]
          /\ status[p[1]] \in Owning /\ status[q[1]] \in Owning
               => wanted[p[1]] \cap wanted[q[1]] = {}
  <2> SUFFICES ASSUME EngineLocal, Accounted, LocksMatch,
                      NEW p \in live, NEW q \in live, p # q
               PROVE  /\ p[1] # q[1]
                      /\ status[p[1]] \in Owning /\ status[q[1]] \in Owning
                           => wanted[p[1]] \cap wanted[q[1]] = {}
    OBVIOUS
  <2>1. p[1] # q[1]
    BY DEF Accounted, OneEach
  <2>2. p[1] \in Runs /\ q[1] \in Runs
    BY DEF EngineLocal, EngineTypeOK, Process
  <2> QED BY <2>1, <2>2 DEF LocksMatch, HeldBy
<1> QED BY <1>1, EngineAlwaysLocal, AlwaysAccounted, EngineLocksMatch, PTL
=============================================================================
