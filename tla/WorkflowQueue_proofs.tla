------------------------ MODULE WorkflowQueue_proofs -----------------------
(***************************************************************************)
(* Proofs about WorkflowQueue, for every set of runs, labels and label     *)
(* sets: type correctness, agreement of the lock table with the run table, *)
(* claims in queue order, absence of circular waiting, and the             *)
(* implementation of ResourceLocks.                                        *)
(***************************************************************************)
EXTENDS WorkflowQueue, WellFoundedInduction, TLAPS

(* Every operation preserves the types of the run and lock tables. *)
LEMMA TypeStep ==
  ASSUME RunTypeOK, [QueueNext]_runVars
  PROVE  RunTypeOK'
<1> USE DEF RunTypeOK, RunStatus, Owning, EndStatus
<1>1. ASSUME NEW r \in Runs, NEW W \in LockSets, NEW t \in 1..MaxTime,
             Enqueue(r, W, t)
      PROVE  RunTypeOK'
  BY <1>1, LockSetsAssumption, TimeAssumption DEF Enqueue, Queued
<1>2. ASSUME NEW r \in Runs, Claim(r)
      PROVE  RunTypeOK'
  BY <1>2 DEF Claim
<1>3. ASSUME NEW r \in Runs, NEW s \in EndStatus \cup {"needs_attention"},
             Finish(r, s)
      PROVE  RunTypeOK'
  BY <1>3 DEF Finish, Released
<1>4. ASSUME NEW r \in Runs, RequestCancel(r)
      PROVE  RunTypeOK'
  BY <1>4 DEF RequestCancel
<1>5. ASSUME NEW r \in Runs, ResolveAttention(r)
      PROVE  RunTypeOK'
  BY <1>5 DEF ResolveAttention, Released
<1>6. CASE Recover
  BY <1>6 DEF Recover
<1>7. CASE UNCHANGED runVars
  BY <1>7 DEF runVars
<1> QED
  BY <1>1, <1>2, <1>3, <1>4, <1>5, <1>6, <1>7 DEF QueueNext

(* The rows of the run and lock tables always have the types they are      *)
(* declared with, whatever operations are called in whatever order.        *)
THEOREM QueueTypeCorrect == QueueSpec => []RunTypeOK
<1>1. QueueInit => RunTypeOK
  BY TimeAssumption DEF QueueInit, RunTypeOK, RunStatus
<1> QED
  BY <1>1, TypeStep, PTL DEF QueueSpec

----------------------------------------------------------------------------
(* The lock table *)

(* One operation keeps the lock table in agreement with the run table.     *)
LEMMA LocksStep ==
  ASSUME RunTypeOK, LocksMatch, [QueueNext]_runVars
  PROVE  LocksMatch'
<1> SUFFICES ASSUME NEW q \in Runs
             PROVE  HeldBy(q)' = IF status'[q] \in Owning THEN wanted'[q] ELSE {}
  BY DEF LocksMatch
<1> USE RunsAssumption DEF RunTypeOK
<1>0. HeldBy(q) = IF status[q] \in Owning THEN wanted[q] ELSE {}
  BY DEF LocksMatch
<1>1. ASSUME NEW r \in Runs, NEW W \in LockSets, NEW t \in 1..MaxTime,
             Enqueue(r, W, t)
      PROVE  HeldBy(q)' = IF status'[q] \in Owning THEN wanted'[q] ELSE {}
  BY <1>0, <1>1 DEF Enqueue, HeldBy, Owning
<1>2. ASSUME NEW r \in Runs, Claim(r)
      PROVE  HeldBy(q)' = IF status'[q] \in Owning THEN wanted'[q] ELSE {}
  <2>1. \A l \in wanted[r] : l \in Labels /\ holder[l] = NoRun
    BY <1>2 DEF Claim, Conflicts
  <2>2. CASE q = r
    <3>1. HeldBy(r) = {} /\ status'[r] = "running" /\ wanted' = wanted
      BY <1>0, <1>2, <2>2 DEF Claim, Owning
    <3>2. HeldBy(r)' = wanted[r]
      BY <1>2, <2>1, <3>1 DEF Claim, HeldBy
    <3> QED
      BY <2>2, <3>1, <3>2 DEF Owning
  <2>3. CASE q # r
    <3>1. HeldBy(q)' = HeldBy(q)
      BY <1>2, <2>1, <2>3 DEF Claim, HeldBy
    <3> QED
      BY <1>0, <1>2, <2>3, <3>1 DEF Claim
  <2> QED
    BY <2>2, <2>3
<1>3. ASSUME NEW r \in Runs, NEW s \in EndStatus \cup {"needs_attention"},
             status[r] # "queued", Finish(r, s)
      PROVE  HeldBy(q)' = IF status'[q] \in Owning THEN wanted'[q] ELSE {}
  <2>1. status[r] \in Owning
    BY <1>3 DEF Finish, Owning
  <2>2. CASE s = "needs_attention"
    BY <1>0, <1>3, <2>1, <2>2 DEF Finish, HeldBy, Owning
  <2>3. CASE s # "needs_attention"
    <3>1. s \notin Owning /\ holder' = Released(r) /\ wanted' = wanted
      BY <1>3, <2>3 DEF Finish, EndStatus, Owning
    <3>2. HeldBy(q)' = IF q = r THEN {} ELSE HeldBy(q)
      BY <3>1 DEF HeldBy, Released
    <3> QED
      BY <1>0, <1>3, <3>1, <3>2 DEF Finish
  <2> QED
    BY <2>2, <2>3
<1>4. ASSUME NEW r \in Runs, RequestCancel(r)
      PROVE  HeldBy(q)' = IF status'[q] \in Owning THEN wanted'[q] ELSE {}
  BY <1>0, <1>4 DEF RequestCancel, HeldBy, Owning
<1>5. ASSUME NEW r \in Runs, ResolveAttention(r)
      PROVE  HeldBy(q)' = IF status'[q] \in Owning THEN wanted'[q] ELSE {}
  <2>1. HeldBy(q)' = IF q = r THEN {} ELSE HeldBy(q)
    BY <1>5 DEF ResolveAttention, HeldBy, Released
  <2> QED
    BY <1>0, <1>5, <2>1 DEF ResolveAttention, Owning
<1>6. CASE Recover
  BY <1>0, <1>6 DEF Recover, HeldBy, Owning
<1>7. CASE UNCHANGED runVars
  BY <1>0, <1>7 DEF runVars, HeldBy
<1> QED
  BY <1>1, <1>2, <1>3, <1>4, <1>5, <1>6, <1>7 DEF QueueNext

(* A run holds exactly its labels from the claim until its outcome is      *)
(* settled, and none before or after.                                      *)
THEOREM LocksAgree == QueueSpec => []LocksMatch
<1>1. QueueInit => LocksMatch
  BY RunsAssumption DEF QueueInit, LocksMatch, HeldBy, Owning
<1> QED
  BY <1>1, LocksStep, QueueTypeCorrect, PTL DEF QueueSpec

----------------------------------------------------------------------------
(* The order of claims *)

(* Whoever is counted as ahead of a run has been enqueued. *)
AheadKnown == \A r \in Runs : \A q \in ahead[r] : status[q] # "absent"

(* A claim gets past no earlier waiter, and nobody starts waiting with an  *)
(* earlier place than one who has been claimed.                            *)
LEMMA OrderStep ==
  ASSUME RunTypeOK, AheadKnown, NoOvertaking, [QueueNext]_runVars
  PROVE  AheadKnown' /\ NoOvertaking'
<1> USE DEF RunTypeOK, AheadKnown
<1>1. ASSUME NEW r \in Runs, NEW W \in LockSets, NEW t \in 1..MaxTime,
             Enqueue(r, W, t)
      PROVE  AheadKnown' /\ NoOvertaking'
  <2>1. AheadKnown'
    BY <1>1 DEF Enqueue, Queued
  <2>2. ASSUME NEW x \in Runs, NEW q \in ahead'[x],
               status'[x] \in Owning, status'[q] = "queued",
               created'[q] < created'[x]
        PROVE  wanted'[q] \cap wanted'[x] = {}
    <3>1. x # r /\ ahead'[x] = ahead[x] /\ q \in Runs
      BY <1>1, <2>2 DEF Enqueue, Owning
    <3>2. q # r
      BY <1>1, <3>1 DEF Enqueue
    <3> QED
      BY <1>1, <2>2, <3>1, <3>2 DEF Enqueue, NoOvertaking
  <2> QED
    BY <2>1, <2>2 DEF NoOvertaking
<1>2. ASSUME NEW r \in Runs, Claim(r)
      PROVE  AheadKnown' /\ NoOvertaking'
  <2>1. AheadKnown'
    BY <1>2 DEF Claim
  <2>2. ASSUME NEW x \in Runs, NEW q \in ahead'[x],
               status'[x] \in Owning, status'[q] = "queued",
               created'[q] < created'[x]
        PROVE  wanted'[q] \cap wanted'[x] = {}
    <3>1. q \in Runs /\ q \in ahead[x] /\ status[q] = "queued" /\ created[q] < created[x]
      BY <1>2, <2>2 DEF Claim
    <3>2. CASE x = r
      <4>1. \A l \in wanted[r] : ~(l \in wanted[q])
        BY <1>2, <3>1, <3>2 DEF Claim, Conflicts, Queued, Before
      <4> QED
        BY <1>2, <3>2, <4>1 DEF Claim
    <3>3. CASE x # r
      BY <1>2, <2>2, <3>1, <3>3 DEF Claim, NoOvertaking
    <3> QED
      BY <3>2, <3>3
  <2> QED
    BY <2>1, <2>2 DEF NoOvertaking
<1>3. ASSUME NEW r \in Runs, NEW s \in EndStatus \cup {"needs_attention"},
             status[r] # "queued", Finish(r, s)
      PROVE  AheadKnown' /\ NoOvertaking'
  BY <1>3 DEF Finish, NoOvertaking, Owning, EndStatus
<1>4. ASSUME NEW r \in Runs, RequestCancel(r)
      PROVE  AheadKnown' /\ NoOvertaking'
  BY <1>4 DEF RequestCancel, NoOvertaking, Owning
<1>5. ASSUME NEW r \in Runs, ResolveAttention(r)
      PROVE  AheadKnown' /\ NoOvertaking'
  BY <1>5 DEF ResolveAttention, NoOvertaking, Owning
<1>6. CASE Recover
  BY <1>6 DEF Recover, NoOvertaking, Owning
<1>7. CASE UNCHANGED runVars
  BY <1>7 DEF runVars, NoOvertaking
<1> QED
  BY <1>1, <1>2, <1>3, <1>4, <1>5, <1>6, <1>7 DEF QueueNext

(* Runs that share a label are claimed in the order of their creation.     *)
THEOREM ClaimsInOrder == QueueSpec => []NoOvertaking
<1>1. QueueInit => AheadKnown /\ NoOvertaking
  BY DEF QueueInit, AheadKnown, NoOvertaking, Owning
<1> QED
  BY <1>1, OrderStep, QueueTypeCorrect, PTL DEF QueueSpec

----------------------------------------------------------------------------
(* Waiting *)

(* Every set of numbers that is not empty has a least one. *)
LEMMA LeastNat ==
  ASSUME NEW T, T \subseteq Nat, T # {}
  PROVE  \E x \in T : \A y \in T : x <= y
<1>1. \E x \in T : \A y \in T : ~(<<y, x>> \in OpToRel(<, Nat))
  BY NatLessThanWellFounded, WFMin, Zenon
<1>2. \A x, y \in T : y < x => <<y, x>> \in OpToRel(<, Nat)
  BY DEF OpToRel
<1>3. \E x \in T : \A y \in T : ~(y < x)
  BY <1>1, <1>2, Zenon
<1> QED
  BY <1>3

(* The first run of the queue order is held up by nobody but owners, and   *)
(* labels are held for owners only.                                        *)
LEMMA FirstClaims ==
  ASSUME RunTypeOK, LocksMatch
  PROVE  NoCircularWait
<1> SUFFICES ASSUME Queued # {}, \A r \in Runs : status[r] \notin Owning
             PROVE  \E r \in Queued : Conflicts(r) = {}
  BY DEF NoCircularWait
<1> USE DEF RunTypeOK
<1>1. \A l \in Labels : holder[l] = NoRun
  BY DEF LocksMatch, HeldBy
<1> DEFINE T == {created[q] : q \in Queued}
<1>2. T \subseteq Nat /\ T # {}
  BY TimeAssumption DEF Queued
<1>3. PICK t \in T : \A u \in T : t <= u
  BY <1>2, LeastNat
<1> DEFINE U == {q \in Queued : created[q] = t}
<1>4. U \subseteq Nat /\ U # {}
  BY <1>3, RunsAssumption DEF Queued
<1>5. PICK r \in U : \A q \in U : r <= q
  BY <1>4, LeastNat
<1>6. ASSUME NEW q \in Queued
      PROVE  ~Before(q, r)
  <2>1. created[q] \in Nat /\ created[r] = t /\ t \in Nat /\ t <= created[q]
    BY <1>2, <1>3
  <2>2. q \in Nat /\ r \in Nat
    BY <1>4, RunsAssumption DEF Queued
  <2>3. created[q] = t => r <= q
    BY <1>5
  <2> QED
    BY <2>1, <2>2, <2>3 DEF Before
<1>7. Conflicts(r) = {}
  BY <1>1, <1>5, <1>6 DEF Conflicts, Queued
<1> QED
  BY <1>5, <1>7

(* Whatever the label sets are, waiting is never circular.                 *)
THEOREM NeverCircular == QueueSpec => []NoCircularWait
<1> QED
  BY FirstClaims, QueueTypeCorrect, LocksAgree, PTL

(* Both together: what a run may expect of the queue.                      *)
THEOREM QueueAlwaysFair == QueueSpec => []QueueFair
<1>1. NoOvertaking /\ NoCircularWait => QueueFair
  BY DEF QueueFair
<1> QED
  BY <1>1, ClaimsInOrder, NeverCircular, PTL

----------------------------------------------------------------------------
(* Refinement *)

LEMMA PhaseIs ==
  ASSUME NEW s \in RunStatus
  PROVE  /\ Phase(s) = "new" <=> s = "absent"
         /\ Phase(s) = "waiting" <=> s = "queued"
         /\ Phase(s) = "owner" <=> s \in Owning
         /\ Phase(s) = "done" <=> s \in EndStatus
BY DEF Phase, RunStatus, Owning, EndStatus

(* Every operation of the tables is a step of ResourceLocks or none.       *)
LEMMA RefinementStep ==
  ASSUME RunTypeOK, LocksMatch, [QueueNext]_runVars
  PROVE  [Locks!Next]_(Locks!vars)
<1> USE DEF RunTypeOK
<1> DEFINE P == [r \in Runs |-> Phase(status[r])]
<1>a. \A r \in Runs, x \in RunStatus :
        status' = [status EXCEPT ![r] = x] => P' = [P EXCEPT ![r] = Phase(x)]
  OBVIOUS
<1>1. ASSUME NEW r \in Runs, NEW W \in LockSets, NEW t \in 1..MaxTime,
             Enqueue(r, W, t)
      PROVE  Locks!Submit(r)
  <2>1. P[r] = "new" /\ P' = [P EXCEPT ![r] = "waiting"]
    BY <1>1, <1>a, PhaseIs DEF Enqueue, RunStatus
  <2> QED
    BY <1>1, <2>1, LockSetsAssumption DEF Enqueue, Locks!Submit
<1>2. ASSUME NEW r \in Runs, Claim(r)
      PROVE  Locks!Acquire(r)
  <2>1. P[r] = "waiting" /\ P' = [P EXCEPT ![r] = "owner"]
    BY <1>2, <1>a, PhaseIs DEF Claim, RunStatus, Owning
  <2>2. ASSUME NEW q \in Runs, status[q] \in Owning
        PROVE  wanted[q] \cap wanted[r] = {}
    <3>1. \A l \in wanted[q] : holder[l] = q
      BY <2>2 DEF LocksMatch, HeldBy
    <3> QED
      BY <1>2, <3>1, RunsAssumption DEF Claim, Conflicts
  <2>3. \A q \in Locks!Owners : wanted[q] \cap wanted[r] = {}
    BY <2>2, PhaseIs DEF Locks!Owners
  <2> QED
    BY <1>2, <2>1, <2>3 DEF Claim, Locks!Acquire
<1>3. ASSUME NEW r \in Runs, NEW x \in EndStatus,
             status[r] \in Owning \cup {"queued"},
             status' = [status EXCEPT ![r] = x], wanted' = wanted
      PROVE  Locks!Leave(r)
  <2>1. P[r] \in {"waiting", "owner"} /\ P' = [P EXCEPT ![r] = "done"]
    BY <1>3, <1>a, PhaseIs DEF RunStatus
  <2> QED
    BY <1>3, <2>1 DEF Locks!Leave
<1>4. ASSUME wanted' = wanted, \A q \in Runs : Phase(status'[q]) = Phase(status[q])
      PROVE  UNCHANGED Locks!vars
  BY <1>4 DEF Locks!vars
<1>5. ASSUME NEW r \in Runs, NEW s \in EndStatus \cup {"needs_attention"},
             status[r] # "queued", Finish(r, s)
      PROVE  Locks!Leave(r) \/ UNCHANGED Locks!vars
  <2>1. CASE s \in EndStatus
    BY <1>3, <1>5, <2>1 DEF Finish, Owning
  <2>2. CASE s = "needs_attention"
    <3>1. Phase(status[r]) = "owner" /\ Phase(s) = "owner"
      BY <1>5, <2>2, PhaseIs DEF Finish, Owning, RunStatus
    <3> QED
      BY <1>4, <1>5, <3>1 DEF Finish
  <2> QED
    BY <2>1, <2>2
<1>6. ASSUME NEW r \in Runs, RequestCancel(r)
      PROVE  Locks!Leave(r) \/ UNCHANGED Locks!vars
  <2>1. CASE status[r] = "queued"
    BY <1>3, <1>6, <2>1 DEF RequestCancel, EndStatus
  <2>2. CASE status[r] # "queued"
    <3>1. Phase(status[r]) = "owner" /\ Phase("cancelling") = "owner"
      BY <1>6, <2>2, PhaseIs DEF RequestCancel, Owning, RunStatus
    <3> QED
      BY <1>4, <1>6, <2>2, <3>1 DEF RequestCancel
  <2> QED
    BY <2>1, <2>2
<1>7. ASSUME NEW r \in Runs, ResolveAttention(r)
      PROVE  Locks!Leave(r)
  BY <1>3, <1>7 DEF ResolveAttention, Owning, EndStatus
<1>8. CASE Recover
  <2>1. \A q \in Runs : Phase(status'[q]) = Phase(status[q])
    BY <1>8, PhaseIs DEF Recover, Owning, RunStatus
  <2> QED
    BY <1>4, <1>8, <2>1 DEF Recover
<1>9. CASE UNCHANGED runVars
  BY <1>4, <1>9 DEF runVars
<1> QED
  BY <1>1, <1>2, <1>5, <1>6, <1>7, <1>8, <1>9 DEF QueueNext, Locks!Next

(* The tables give every run its whole label set at once, and no two       *)
(* owners a common label: they implement ResourceLocks.                    *)
THEOREM Refinement == QueueSpec => ImplementsLocks
<1>1. QueueInit => Locks!Init
  BY PhaseIs DEF QueueInit, Locks!Init, RunStatus
<1> QED
  BY <1>1, RefinementStep, QueueTypeCorrect, LocksAgree, PTL
     DEF QueueSpec, ImplementsLocks, Locks!Spec

(* ResourceLocks keeps its promise, whoever implements it.                 *)
THEOREM LocksExclusive == Locks!Spec => []Locks!Exclusive
<1> DEFINE P == [r \in Runs |-> Phase(status[r])]
           LInv == wanted \in [Runs -> SUBSET Labels] /\ Locks!Exclusive
<1>1. Locks!Init => LInv
  BY DEF Locks!Init, Locks!Exclusive, Locks!Owners
<1>2. ASSUME LInv, [Locks!Next]_(Locks!vars)
      PROVE  LInv'
  <2>a. \A r \in Runs : \A x : P' = [P EXCEPT ![r] = x] =>
          P'[r] = x /\ \A q \in Runs : q # r => P'[q] = P[q]
    OBVIOUS
  <2>b. Locks!Owners = {q \in Runs : P[q] = "owner"}
    BY DEF Locks!Owners
  <2>c. Locks!Owners' = {q \in Runs : P'[q] = "owner"}
    BY DEF Locks!Owners
  <2> HIDE DEF P
  <2>1. ASSUME NEW r \in Runs, Locks!Submit(r)
        PROVE  LInv'
    <3>1. P' = [P EXCEPT ![r] = "waiting"]
      BY <2>1 DEF Locks!Submit, P
    <3>2. PICK W \in SUBSET Labels : wanted' = [wanted EXCEPT ![r] = W]
      BY <2>1 DEF Locks!Submit
    <3>3. wanted' \in [Runs -> SUBSET Labels]
      BY <1>2, <3>2
    <3>4. \A q \in Runs : P'[q] = "owner" => P[q] = "owner" /\ wanted'[q] = wanted[q]
      BY <1>2, <2>a, <3>1, <3>2
    <3> QED BY <1>2, <2>b, <2>c, <3>3, <3>4 DEF Locks!Exclusive
  <2>2. ASSUME NEW r \in Runs, Locks!Acquire(r)
        PROVE  LInv'
    <3>1. P' = [P EXCEPT ![r] = "owner"] /\ wanted' = wanted
      BY <2>2 DEF Locks!Acquire, P
    <3>2. \A q \in Runs : P[q] = "owner" => wanted[q] \cap wanted[r] = {}
      BY <2>2, <2>b DEF Locks!Acquire
    <3> QED BY <1>2, <2>a, <2>b, <2>c, <3>1, <3>2 DEF Locks!Exclusive
  <2>3. ASSUME NEW r \in Runs, Locks!Leave(r)
        PROVE  LInv'
    <3>1. P' = [P EXCEPT ![r] = "done"] /\ wanted' = wanted
      BY <2>3 DEF Locks!Leave, P
    <3> QED BY <1>2, <2>a, <2>b, <2>c, <3>1 DEF Locks!Exclusive
  <2>4. CASE UNCHANGED Locks!vars
    <3>1. P' = P /\ wanted' = wanted
      BY <2>4 DEF Locks!vars, P
    <3> QED BY <1>2, <2>b, <2>c, <3>1 DEF Locks!Exclusive
  <2> QED BY <1>2, <2>1, <2>2, <2>3, <2>4 DEF Locks!Next
<1> HIDE DEF LInv
<1>3. LInv => Locks!Exclusive
  BY DEF LInv
<1> QED BY <1>1, <1>2, <1>3, PTL DEF Locks!Spec

(* So no two runs that own something ever want the same label.             *)
THEOREM OwnersShareNothing == QueueSpec => []Locks!Exclusive
BY Refinement, LocksExclusive, PTL DEF ImplementsLocks
=============================================================================
