---------------------------- MODULE ReconcileProofs ----------------------------
(***************************************************************************)
(* Proofs about Reconcile, for every set of sizes, every placement of the  *)
(* pods, every set of faults and every bound.                              *)
(***************************************************************************)
EXTENDS Reconcile, PlacementProofs

\* A finite set of natural numbers has a greatest element.
LEMMA MaxNat ==
    ASSUME NEW S, S \subseteq Nat, S # {}, IsFiniteSet(S)
    PROVE  Max(S) \in S /\ \A y \in S : y <= Max(S)
<1> DEFINE HasMax(A) == \E x \in A : \A y \in A : y <= x
           T == {n \in Nat : \A A \in SUBSET Nat :
                   IsFiniteSet(A) /\ A # {} /\ Cardinality(A) = n => HasMax(A)}
<1>1. 0 \in T
      BY FS_EmptySet
<1>2. ASSUME NEW n \in Nat, n \in T PROVE n + 1 \in T
  <2> SUFFICES ASSUME NEW A \in SUBSET Nat, IsFiniteSet(A), A # {}, Cardinality(A) = n + 1
               PROVE  HasMax(A)
      BY <1>2
  <2>1. PICK a \in A : TRUE
        OBVIOUS
  <2>2. IsFiniteSet(A \ {a}) /\ Cardinality(A \ {a}) = n
    <3>1. IsFiniteSet(A \ {a}) /\ Cardinality(A \ {a}) = Cardinality(A) - 1
          BY <2>1, FS_RemoveElement
    <3> QED
          BY <3>1
  <2>3. CASE A \ {a} = {}
        BY <2>1, <2>3
  <2>4. CASE A \ {a} # {}
    <3>1. HasMax(A \ {a})
          BY <1>2, <2>2, <2>4
    <3>2. PICK x \in A \ {a} : \A y \in A \ {a} : y <= x
          BY <3>1
    <3>3. CASE a <= x
          BY <3>2, <3>3
    <3>4. CASE ~(a <= x)
      <4>1. \A y \in A : y <= a
            BY <3>2, <3>4
      <4> QED
            BY <4>1
    <3> QED
          BY <3>3, <3>4
  <2> QED
        BY <2>3, <2>4
<1> HIDE DEF T
<1>3. \A n \in Nat : n \in T
      BY <1>1, <1>2, Induction
<1>4. HasMax(S)
      BY <1>3, FS_CardinalityType DEF T
<1> QED
      BY <1>4 DEF Max

\* The instances are those of the largest size.
LEMMA PodsBySize ==
    /\ Pods \subseteq Nat \ {0} /\ IsFiniteSet(Pods) /\ Max(Sizes) \in Nat
    /\ \A n \in {0} \cup Sizes : n \in Nat /\ 1..n \subseteq Pods
<1>1. /\ Sizes \subseteq Nat /\ Sizes # {} /\ IsFiniteSet(Sizes)
      BY ReconcileAssumption
<1>2. Max(Sizes) \in Sizes /\ \A n \in Sizes : n <= Max(Sizes)
      BY <1>1, MaxNat
<1>3. Max(Sizes) \in Nat /\ IsFiniteSet(1..Max(Sizes))
  <2>1. Max(Sizes) \in Nat
        BY <1>1, <1>2
  <2>2. \A n \in Nat : n \in Int /\ 1 \in Int
        OBVIOUS
  <2> QED
        BY <2>1, <2>2, FS_Interval
<1>4. \A n \in {0} \cup Sizes : n \in Nat /\ n <= Max(Sizes)
      BY <1>1, <1>2, <1>3
<1> HIDE DEF Pods
<1>5. Pods = 1..Max(Sizes)
      BY DEF Pods
<1> QED
      BY <1>3, <1>4, <1>5
-----------------------------------------------------------------------------
\* What Idle is, field by field.
LEMMA IdleFields ==
    /\ DOMAIN Idle = {"pc", "job", "rc", "fresh", "stsSeen", "eps", "old", "exist",
                      "masters", "todoM", "todoS"}
    /\ Idle.pc = "idle" /\ Idle.job = "none" /\ Idle.fresh = FALSE /\ Idle.stsSeen = FALSE
    /\ Idle.eps = <<>> /\ Idle.todoM = <<>> /\ Idle.todoS = <<>> /\ Idle.masters = <<>>
BY DEF Idle

LEMMA IdleType == SyncType(Idle) /\ Quiet(Idle) /\ SyncType([Idle EXCEPT !.pc = "hung"]) /\ Quiet([Idle EXCEPT !.pc = "hung"])
<1>1. SyncType(Idle) /\ Quiet(Idle)
      BY IdleFields DEF SyncType, Quiet, Steps, Jobs, Belongs
<1>2. DOMAIN [Idle EXCEPT !.pc = "hung"] = DOMAIN Idle
      OBVIOUS
<1>3. [Idle EXCEPT !.pc = "hung"].pc = "hung" /\ [Idle EXCEPT !.pc = "hung"].job = Idle.job
      /\ [Idle EXCEPT !.pc = "hung"].fresh = Idle.fresh /\ [Idle EXCEPT !.pc = "hung"].stsSeen = Idle.stsSeen
      BY IdleFields
<1> QED
      BY <1>1, <1>2, <1>3, IdleFields DEF SyncType, Quiet, Steps, Jobs, Belongs

Told(status) ==
    \/ status.conds = {} \/ status.conds = s.rc.status.conds
    \/ \E p : status.conds = ClusterNodes(p)
Statuses == [replicas : {0} \cup Sizes, phase : Phases, reason : BOOLEAN,
             conds : SUBSET Conditions]

\* A status that is built has its type and tells nothing that was not read.
LEMMA StatusForType ==
    ASSUME TypeOK, ~Quiet(s), NEW phase \in Phases, NEW reason \in BOOLEAN, NEW addrs
    PROVE  StatusFor(phase, reason, addrs) \in Statuses /\ Told(StatusFor(phase, reason, addrs))
<1>1. s.rc \in RedisClusters /\ sts.spec \in {0} \cup Sizes
      BY DEF TypeOK, SyncType, StatefulSets
<1>2. s.rc.status.conds \in SUBSET Conditions
      BY <1>1 DEF RedisClusters
<1>3. \A p : ClusterNodes(p) \in SUBSET Conditions
  <2> SUFFICES ASSUME NEW p, NEW q \in Cluster(p)
               PROVE  [pod |-> q, master |-> parent[q], slots |-> slots[q]] \in Conditions
      BY DEF ClusterNodes
  <2>1. q \in Pods
        BY DEF Cluster
  <2>2. parent[q] \in {0} \cup Pods /\ slots[q] \in BOOLEAN
        BY <2>1 DEF TypeOK
  <2> QED
        BY <2>1, <2>2, Zenon DEF Conditions
<1> DEFINE st == StatusFor(phase, reason, addrs)
           c == CASE phase = "Creating" -> {}
                  [] phase = "Running" -> ClusterNodes(Head(addrs))
                  [] OTHER -> s.rc.status.conds
           n == IF phase = "Creating" THEN 0 ELSE sts.spec
<1>4. st = [replicas |-> n, phase |-> phase, reason |-> reason, conds |-> c]
      BY DEF StatusFor
<1>5. c = {} \/ c = s.rc.status.conds \/ c = ClusterNodes(Head(addrs))
      OBVIOUS
<1>6. c \in SUBSET Conditions
      BY <1>2, <1>3, <1>5
<1>7. n \in {0} \cup Sizes
      BY <1>1
<1> HIDE DEF c, n, st
<1>8. st \in Statuses
      BY <1>4, <1>6, <1>7, Zenon DEF Statuses
<1>9. Told(st)
      BY <1>4, <1>5 DEF Told
<1> QED
      BY <1>8, <1>9 DEF st

\* What a step of a sync does to the RedisCluster and to the sync's copy of it:
\* nothing, or it writes a status through a copy that is fresh.
Kept ==
    /\ cr' = cr /\ crCache' = crCache /\ cacheFresh' = cacheFresh
    /\ Quiet(s') \/ (s'.rc = s.rc /\ s'.fresh = s.fresh)
Wrote ==
    /\ \E status \in Statuses : Told(status) /\ cr' = [cr EXCEPT !.status = status]
    /\ s.fresh /\ crCache' = crCache /\ cacheFresh' = FALSE
    /\ Quiet(s') \/ (s'.rc = cr' /\ s'.fresh = s.fresh)
Moves == SyncType(s') /\ (Kept \/ Wrote)

\* A sync that goes on.
Goes(t) == SyncType(t) /\ (Quiet(t) \/ (t.rc = s.rc /\ t.fresh = s.fresh))

LEMMA KeptMoves ==
    ASSUME StatusKept, Goes(s')
    PROVE  Moves
BY DEF StatusKept, crVars, Goes, Moves, Kept

LEMMA IdleGoes == Goes(Idle) /\ Goes([Idle EXCEPT !.pc = "hung"])
BY IdleType DEF Goes

\* A RedisCluster with another status.
LEMMA StatusType ==
    ASSUME NEW c \in RedisClusters, NEW st \in Statuses
    PROVE  /\ [c EXCEPT !.status = st] \in RedisClusters
           /\ [c EXCEPT !.status = st].replicas = c.replicas
           /\ [c EXCEPT !.status = st].status = st
BY DEF RedisClusters, Statuses

LEMMA StatusUpdate ==
    ASSUME TypeOK, ~Quiet(s), NEW phase \in Phases, NEW reason \in BOOLEAN, NEW addrs,
           NEW next, Goes(next), updateRedisClusterStatus(phase, reason, addrs, next)
    PROVE  Moves
<1> DEFINE status == StatusFor(phase, reason, addrs)
<1>1. \/ StatusKept /\ (s' = Idle \/ s' = next)
      \/ /\ StatusWritten(status)
         /\ s' = IF next = Idle THEN Idle ELSE [next EXCEPT !.rc = cr']
      BY Zenon DEF updateRedisClusterStatus
<1>2. CASE StatusKept /\ (s' = Idle \/ s' = next)
      BY <1>2, IdleGoes, KeptMoves
<1>3. CASE /\ StatusWritten(status)
           /\ s' = IF next = Idle THEN Idle ELSE [next EXCEPT !.rc = cr']
  <2>1. status \in Statuses /\ Told(status)
        BY StatusForType
  <2> HIDE DEF status
  <2>2. /\ s.fresh /\ cr' = [cr EXCEPT !.status = status]
        /\ cacheFresh' = FALSE /\ crCache' = crCache
        BY <1>3 DEF StatusWritten
  <2>3. cr' \in RedisClusters
        BY <2>1, <2>2, StatusType DEF TypeOK
  <2>4. SyncType(s') /\ (Quiet(s') \/ (s'.rc = cr' /\ s'.fresh = s.fresh))
    <3>1. CASE next = Idle
          BY <1>3, <3>1, IdleType
    <3>2. CASE next # Idle
      <4>1. s' = [next EXCEPT !.rc = cr'] /\ SyncType(next)
            BY <1>3, <3>2 DEF Goes
      <4>2. /\ DOMAIN s' = DOMAIN Idle /\ s'.pc = next.pc /\ s'.job = next.job
            /\ s'.fresh = next.fresh /\ s'.stsSeen = next.stsSeen /\ s'.rc = cr'
            BY <4>1, IdleFields DEF SyncType
      <4>3. SyncType(s')
            BY <2>3, <4>1, <4>2 DEF SyncType
      <4> QED
            BY <4>2, <4>3 DEF Goes, Quiet
    <3> QED
          BY <3>1, <3>2
  <2> QED
        BY <2>1, <2>2, <2>4, Zenon DEF Moves, Wrote
<1> QED
      BY <1>1, <1>2, <1>3

\* The last update of a sync.
LEMMA ReturnMoves ==
    ASSUME TypeOK, ~Quiet(s), NEW phase \in Phases, NEW reason \in BOOLEAN, NEW addrs,
           Return(phase, reason, addrs)
    PROVE  Moves
BY IdleGoes, StatusUpdate DEF Return

\* A sync that goes on to another step with its copy of the RedisCluster.
LEMMA StepGoes ==
    ASSUME TypeOK, ~Quiet(s), NEW t, DOMAIN t = DOMAIN s, t.rc = s.rc, t.fresh = s.fresh,
           t.stsSeen = s.stsSeen, t.pc \in Steps, t.job \in Jobs, Belongs(t.pc, t.job)
    PROVE  Goes(t)
BY DEF TypeOK, SyncType, Goes

\* The domain of a running sync.
LEMMA SyncFields ==
    ASSUME TypeOK
    PROVE  DOMAIN s = {"pc", "job", "rc", "fresh", "stsSeen", "eps", "old", "exist",
                       "masters", "todoM", "todoS"}
BY IdleFields DEF TypeOK, SyncType

\* The same procedure goes on at another step.
LEMMA NextStep ==
    ASSUME TypeOK, ~Quiet(s), NEW pc \in Steps, Belongs(pc, s.job)
    PROVE  Goes([s EXCEPT !.pc = pc])
<1>1. s.job \in Jobs
      BY DEF TypeOK, SyncType
<1> QED
      BY <1>1, SyncFields, StepGoes

LEMMA FailMoves ==
    ASSUME TypeOK, ~Quiet(s), Fail
    PROVE  Moves
<1>1. StatusKept /\ s' = [s EXCEPT !.pc = "fail"]
      BY DEF Fail
<1>2. "fail" \in Steps /\ Belongs("fail", s.job)
      BY DEF Steps, Belongs
<1> QED
      BY <1>1, <1>2, NextStep, KeptMoves

\* The steps between the last slave and the last check: which masters get slots,
\* and the slots themselves.  Nothing else of the sync changes.
GivesSlots ==
    \/ SlavesAdded \/ Rebalance \/ TribInfo \/ NodesBeforeSlots \/ Reshard
    \/ SlotsGiven \/ NoStrategy
SlotsFollow(a, b) ==
    \/ a = "addSlaves" /\ b \in {"info", "slots", "verify"}
    \/ a = "info" /\ b \in {"slotNodes", "verify", "finish"}
    \/ a = "slotNodes" /\ b = "slots"
    \/ a = "slots" /\ b \in {"slots", "verify", "finish"}
Along(t) ==
    /\ DOMAIN t = DOMAIN s /\ t.pc \in {"info", "slotNodes", "slots", "verify", "finish"}
    /\ SlotsFollow(s.pc, t.pc)
    /\ t.job = s.job /\ t.rc = s.rc /\ t.fresh = s.fresh /\ t.stsSeen = s.stsSeen
    /\ t.eps = s.eps /\ t.old = s.old /\ t.exist = s.exist /\ t.masters = s.masters
    /\ t.todoS = s.todoS
    /\ \/ t.todoM \in {s.todoM, s.masters} \/ t.todoM \in Seq(Pods)
       \/ s.todoM # <<>> /\ t.todoM = Tail(s.todoM)

LEMMA SlotSteps ==
    ASSUME TypeOK, GivesSlots
    PROVE  /\ s.pc \in {"addSlaves", "info", "slotNodes", "slots"}
           /\ Fail \/ (StatusKept /\ (s' = Idle \/ Along(s')))
<1>1. DOMAIN s = {"pc", "job", "rc", "fresh", "stsSeen", "eps", "old", "exist",
                  "masters", "todoM", "todoS"}
      BY SyncFields
<1>2. ASSUME NEW pc, SlotsFollow(s.pc, pc) PROVE Along([s EXCEPT !.pc = pc])
  <2>1. pc \in {"info", "slotNodes", "slots", "verify", "finish"}
        BY <1>2 DEF SlotsFollow
  <2> QED
        BY <1>1, <1>2, <2>1 DEF Along
<1>3. s.pc \in {"info", "slots"} => Along(AfterSlots)
  <2>1. s.pc \in {"info", "slots"}
           => SlotsFollow(s.pc, IF s.job = "upgrade" THEN "verify" ELSE "finish")
        BY DEF SlotsFollow
  <2> QED
        BY <1>2, <2>1 DEF AfterSlots
<1>4. CASE SlavesAdded
  <2>1. s.pc = "addSlaves" /\ StatusKept
        BY <1>4, Zenon DEF SlavesAdded, StatusKept
  <2>2. \/ s' = [s EXCEPT !.pc = "verify"] \/ s' = [s EXCEPT !.pc = "slots"]
        \/ s' = [s EXCEPT !.pc = "info"]
        \/ s' = [s EXCEPT !.pc = "slots", !.todoM = s.masters]
        BY <1>4 DEF SlavesAdded
  <2>3. Along([s EXCEPT !.pc = "slots", !.todoM = s.masters])
        BY <1>1, <2>1 DEF Along, SlotsFollow
  <2> QED
        BY <1>2, <2>1, <2>2, <2>3 DEF SlotsFollow
<1>5. CASE Rebalance
  <2>1. s.pc = "slots" /\ (Fail \/ (StatusKept /\ s' = AfterSlots))
        BY <1>5, Zenon DEF Rebalance
  <2> QED
        BY <1>3, <2>1
<1>6. CASE TribInfo
  <2> DEFINE without == WithoutSlots(s.exist)
             t(order) == [s EXCEPT !.pc = "slotNodes", !.todoM = order]
  <2>1. s.pc = "info"
        BY <1>6, Zenon DEF TribInfo
  <2>2. \/ Fail
        \/ /\ StatusKept
           /\ \E order \in [1..Cardinality(without) -> without] :
                 s' = AfterSlots \/ s' = t(order)
        BY <1>6 DEF TribInfo
  <2>3. without \subseteq Pods /\ IsFiniteSet(Pods)
        BY PodsBySize DEF WithoutSlots, Masters, Cluster
  <2>4. Cardinality(without) \in Nat
        BY <2>3, FS_Subset, FS_CardinalityType
  <2> HIDE DEF without
  <2>5. ASSUME NEW order \in [1..Cardinality(without) -> without] PROVE Along(t(order))
    <3>1. order \in Seq(Pods)
          BY <2>3, <2>4
    <3> QED
          BY <1>1, <2>1, <3>1 DEF Along, SlotsFollow
  <2> HIDE DEF t
  <2> QED
        BY <1>3, <2>1, <2>2, <2>5
<1>7. CASE NodesBeforeSlots
  <2>1. s.pc = "slotNodes" /\ (Fail \/ (StatusKept /\ s' = [s EXCEPT !.pc = "slots"]))
        BY <1>7 DEF NodesBeforeSlots
  <2> QED
        BY <1>2, <2>1 DEF SlotsFollow
<1>8. CASE Reshard
  <2>1. /\ s.pc = "slots" /\ s.todoM # <<>>
        /\ Fail \/ (StatusKept /\ (s' = Idle \/ s' = [s EXCEPT !.todoM = Tail(@)]))
        BY <1>8, Zenon DEF Reshard
  <2>2. Along([s EXCEPT !.todoM = Tail(@)])
        BY <1>1, <2>1 DEF Along, SlotsFollow
  <2> QED
        BY <2>1, <2>2
<1>9. CASE SlotsGiven
  <2>1. s.pc = "slots" /\ StatusKept /\ s' = AfterSlots
        BY <1>9, Zenon DEF SlotsGiven, StatusKept
  <2> QED
        BY <1>3, <2>1
<1>10. CASE NoStrategy
  <2>1. s.pc = "slots" /\ StatusKept /\ s' = Idle
        BY <1>10, Zenon DEF NoStrategy, StatusKept
  <2> QED
        BY <2>1
<1> QED
      BY <1>4, <1>5, <1>6, <1>7, <1>8, <1>9, <1>10 DEF GivesSlots

LEMMA AlongGoes ==
    ASSUME TypeOK, ~Quiet(s), NEW t, Along(t)
    PROVE  Goes(t)
<1>1. t.pc \in Steps /\ t.job \in Jobs /\ Belongs(t.pc, t.job)
      BY DEF Along, Steps, Belongs, TypeOK, SyncType
<1> QED
      BY <1>1, StepGoes DEF Along

\* The update to Scaling goes on with the Endpoints.
LEMMA ScalingGoes ==
    ASSUME TypeOK, s.pc = "scaling"
    PROVE  Goes([s EXCEPT !.pc = "applyScale", !.old = Addresses])
<1> DEFINE t == [s EXCEPT !.pc = "applyScale", !.old = Addresses]
<1>1. /\ DOMAIN t = DOMAIN s /\ t.rc = s.rc /\ t.fresh = s.fresh /\ t.stsSeen = s.stsSeen
      /\ t.pc = "applyScale" /\ t.job = s.job
      BY SyncFields
<1>2. ~Quiet(s) /\ s.job \in Jobs /\ Belongs(s.pc, s.job)
      BY DEF Quiet, TypeOK, SyncType
<1> HIDE DEF t
<1>3. "applyScale" \in Steps /\ Belongs("applyScale", s.job)
      BY <1>2 DEF Steps, Belongs
<1> QED
      BY <1>1, <1>2, <1>3, StepGoes DEF t

\* Every step of a sync moves.
LEMMA SyncMoves ==
    ASSUME TypeOK, SyncStep
    PROVE  ~Quiet(s) /\ Moves
<1>1. ~Quiet(s)
      BY DEF Quiet, SyncStep, UpdateCreating, ApplyStatefulSet, RefuseUpgrade, UpdateScaling,
             ScaleStatefulSet, ProbeCluster, WaitPodsReady, Classify, CreateCluster,
             CreateNodes, UpdateUpgrading, PlanAdditions, AddMaster, NodesAfterMasters,
             AddSlave, SlavesAdded, Rebalance, TribInfo, NodesBeforeSlots, Reshard, SlotsGiven,
             NoStrategy, VerifyNodes, UpdateRunning, ReportFailure
<1>2. s.job \in Jobs
      BY DEF TypeOK, SyncType
<1>3. /\ {"Creating", "Running", "Scaling", "Upgrading", "Failed"} \subseteq Phases
      /\ TRUE \in BOOLEAN /\ FALSE \in BOOLEAN
      BY DEF Phases
<1>4. Belongs(s.pc, s.job)
      BY DEF TypeOK, SyncType
<1>5. DOMAIN s = {"pc", "job", "rc", "fresh", "stsSeen", "eps", "old", "exist",
                  "masters", "todoM", "todoS"}
      BY SyncFields
<1>6. CASE UpdateCreating
  <2>1. Goes([s EXCEPT !.pc = "apply"])
        BY <1>1, <1>4, <1>6, NextStep DEF UpdateCreating, Belongs, Steps
  <2>2. \/ updateRedisClusterStatus("Creating", FALSE, <<>>, [s EXCEPT !.pc = "apply"])
        \/ StatusKept /\ s' = Idle
        BY <1>6 DEF UpdateCreating
  <2> QED
        BY <1>1, <1>3, <2>1, <2>2, StatusUpdate, IdleGoes, KeptMoves
<1>7. CASE ApplyStatefulSet
  <2>1. Goes([s EXCEPT !.pc = "wait"])
        BY <1>1, <1>4, <1>7, NextStep DEF ApplyStatefulSet, Belongs, Steps
  <2>2. StatusKept /\ (s' = Idle \/ s' = [s EXCEPT !.pc = "wait"])
        BY <1>7 DEF ApplyStatefulSet, StatusKept
  <2>3. Goes(s')
        BY <2>1, <2>2, IdleGoes
  <2> QED
        BY <1>1, <2>2, <2>3, KeptMoves
<1>8. CASE RefuseUpgrade
  <2>1. (\E p \in ready : Return("Running", TRUE, <<p>>)) \/ (StatusKept /\ s' = Idle)
        BY <1>8 DEF RefuseUpgrade
  <2> QED
        BY <1>1, <1>3, <2>1, ReturnMoves, IdleGoes, KeptMoves
<1>9. CASE UpdateScaling
  <2> DEFINE t == [s EXCEPT !.pc = "applyScale", !.old = Addresses]
  <2>1. Goes(t)
        BY <1>9, ScalingGoes DEF UpdateScaling
  <2>2. \/ updateRedisClusterStatus("Scaling", FALSE, <<>>, t)
        \/ StatusKept /\ s' = Idle
        \/ Return("Failed", TRUE, <<>>)
        \/ Return("Scaling", FALSE, <<>>)
        BY <1>9 DEF UpdateScaling
  <2> HIDE DEF t
  <2> QED
        BY <1>1, <1>3, <2>1, <2>2, StatusUpdate, ReturnMoves, IdleGoes, KeptMoves
<1>10. CASE ScaleStatefulSet
  <2>1. Goes([s EXCEPT !.pc = "wait"])
        BY <1>1, <1>4, <1>10, NextStep DEF ScaleStatefulSet, Belongs, Steps
  <2>2. StatusKept /\ (s' = Idle \/ s' = [s EXCEPT !.pc = "wait"])
        BY <1>10 DEF ScaleStatefulSet, StatusKept
  <2>3. Goes(s')
        BY <2>1, <2>2, IdleGoes
  <2> QED
        BY <1>1, <2>2, <2>3, KeptMoves
<1>11. CASE ProbeCluster
  <2>1. \/ StatusKept /\ s' = Idle
        \/ Return("Failed", TRUE, Addresses)
        \/ Return("Running", FALSE, Addresses)
        BY <1>11 DEF ProbeCluster
  <2> QED
        BY <1>1, <1>3, <2>1, ReturnMoves, IdleGoes, KeptMoves
<1>12. CASE WaitPodsReady
  <2> DEFINE pc == CASE s.job = "create" -> "trib"
                     [] s.job = "check" -> "classify"
                     [] s.job = "upgrade" -> "upgrading"
             t == [s EXCEPT !.eps = Addresses, !.pc = pc]
  <2>1. \/ StatusKept /\ s' = Idle
        \/ StatusKept /\ s' = t
        \/ Fail
        BY <1>12, Zenon DEF WaitPodsReady
  <2>2. pc \in Steps /\ Belongs(pc, s.job)
        BY <1>4, <1>12 DEF Steps, Belongs, WaitPodsReady
  <2>3. Goes(t)
    <3> HIDE DEF pc
    <3>1. /\ DOMAIN t = DOMAIN s /\ t.rc = s.rc /\ t.fresh = s.fresh /\ t.stsSeen = s.stsSeen
          /\ t.pc = pc /\ t.job = s.job
          BY <1>5
    <3> HIDE DEF t
    <3> QED
          BY <1>1, <1>2, <2>2, <3>1, StepGoes
  <2> HIDE DEF t, pc
  <2> QED
        BY <1>1, <2>1, <2>3, IdleGoes, KeptMoves, FailMoves
<1>13. CASE Classify
  <2> DEFINE subLen == Len(s.eps) - Cardinality(s.rc.status.conds)
             again == [s EXCEPT !.job = "create", !.pc = "wait", !.eps = <<>>]
             upgrade == [s EXCEPT !.job = "upgrade", !.pc = "wait", !.eps = <<>>,
                                  !.old = SubSeq(s.eps, 1, subLen)]
             repair(job) == [s EXCEPT !.job = job, !.pc = "plan",
                  !.exist = Head(getIsClusteredAndOnlyKnownSelfAddress(s.eps).clustered)]
  <2>1. \/ Fail
        \/ StatusKept /\ s' \in {Idle, again, upgrade, repair("repairCreate"), repair("repairUpgrade")}
        BY <1>13 DEF Classify
  <2>2. Goes(again) /\ Goes(upgrade)
    <3>1. /\ DOMAIN again = DOMAIN s /\ again.rc = s.rc /\ again.fresh = s.fresh
          /\ again.stsSeen = s.stsSeen /\ again.pc = "wait" /\ again.job = "create"
          BY <1>5
    <3>2. /\ DOMAIN upgrade = DOMAIN s /\ upgrade.rc = s.rc /\ upgrade.fresh = s.fresh
          /\ upgrade.stsSeen = s.stsSeen /\ upgrade.pc = "wait" /\ upgrade.job = "upgrade"
          BY <1>5
    <3>3. /\ "wait" \in Steps /\ {"create", "upgrade"} \subseteq Jobs
          /\ Belongs("wait", "create") /\ Belongs("wait", "upgrade")
          BY DEF Steps, Jobs, Belongs
    <3> HIDE DEF again, upgrade
    <3> QED
          BY <1>1, <3>1, <3>2, <3>3, StepGoes
  <2>3. ASSUME NEW job \in {"repairCreate", "repairUpgrade"} PROVE Goes(repair(job))
    <3> DEFINE t == repair(job)
    <3>1. /\ DOMAIN t = DOMAIN s /\ t.rc = s.rc /\ t.fresh = s.fresh
          /\ t.stsSeen = s.stsSeen /\ t.pc = "plan" /\ t.job = job
          BY <1>5
    <3>2. "plan" \in Steps /\ job \in Jobs /\ Belongs("plan", job)
          BY DEF Steps, Jobs, Belongs
    <3> HIDE DEF t
    <3> QED
          BY <1>1, <3>1, <3>2, StepGoes DEF t
  <2> HIDE DEF again, upgrade, repair
  <2> QED
        BY <1>1, <2>1, <2>2, <2>3, IdleGoes, KeptMoves, FailMoves
<1>14. CASE CreateCluster
  <2> DEFINE a == assignMasterSlaveIP(s.eps, NodeOf)
             t == [s EXCEPT !.pc = "createNodes", !.exist = Head(a.masters),
                            !.masters = a.masters, !.todoS = Pairs(a.slaves, a.masters)]
  <2>1. Fail \/ (StatusKept /\ s' = t)
        BY <1>14, Zenon DEF CreateCluster
  <2>2. Goes(t)
    <3> HIDE DEF a
    <3>1. /\ DOMAIN t = DOMAIN s /\ t.rc = s.rc /\ t.fresh = s.fresh
          /\ t.stsSeen = s.stsSeen /\ t.pc = "createNodes" /\ t.job = s.job
          BY <1>5
    <3>2. "createNodes" \in Steps /\ Belongs("createNodes", s.job)
          BY <1>4, <1>14 DEF Steps, Belongs, CreateCluster
    <3> HIDE DEF t
    <3> QED
          BY <1>1, <1>2, <3>1, <3>2, StepGoes
  <2> HIDE DEF t
  <2> QED
        BY <1>1, <2>1, <2>2, KeptMoves, FailMoves
<1>15. CASE CreateNodes
  <2>1. Goes([s EXCEPT !.pc = "addSlaves"])
        BY <1>1, NextStep DEF Belongs, Steps
  <2>2. Fail \/ (StatusKept /\ s' = [s EXCEPT !.pc = "addSlaves"])
        BY <1>15 DEF CreateNodes
  <2> QED
        BY <1>1, <2>1, <2>2, KeptMoves, FailMoves
<1>16. CASE UpdateUpgrading
  <2> DEFINE t == [s EXCEPT !.pc = "plan", !.exist = currentRedisClusterInfo]
             next == IF s.rc.strategy.type = "Other" THEN Idle ELSE t
  <2>1. \/ updateRedisClusterStatus("Upgrading", FALSE, <<>>, next)
        \/ StatusKept /\ s' = Idle
        BY <1>16 DEF UpdateUpgrading
  <2>2. Goes(t)
    <3>1. /\ DOMAIN t = DOMAIN s /\ t.rc = s.rc /\ t.fresh = s.fresh
          /\ t.stsSeen = s.stsSeen /\ t.pc = "plan" /\ t.job = s.job
          BY <1>5
    <3>2. "plan" \in Steps /\ Belongs("plan", s.job)
          BY DEF Steps, Belongs
    <3> HIDE DEF t
    <3> QED
          BY <1>1, <1>2, <3>1, <3>2, StepGoes
  <2> HIDE DEF t
  <2>3. Goes(next)
        BY <2>2, IdleGoes
  <2> HIDE DEF next
  <2> QED
        BY <1>1, <1>3, <2>1, <2>3, StatusUpdate, IdleGoes, KeptMoves
<1>17. CASE PlanAdditions
  <2> DEFINE plan == composeMasterSlaveIP(s.eps, NodeOf, Masters(s.exist),
                        Slaves(s.exist), {parent[q] : q \in Slaves(s.exist)})
             t == [s EXCEPT !.pc = "addMasters", !.masters = plan.masters,
                            !.todoM = plan.masters, !.todoS = Pairs(plan.slaves, plan.parents)]
  <2>1. Fail \/ (StatusKept /\ s' \in {Idle, [Idle EXCEPT !.pc = "hung"], t})
    <3>1. plan.result \in {"plan", "hang", "panic"}
          BY DEF composeMasterSlaveIP, NothingToAdd
    <3> QED
          BY <1>17, <3>1 DEF PlanAdditions
  <2>2. Goes(t)
    <3> HIDE DEF plan
    <3>1. /\ DOMAIN t = DOMAIN s /\ t.rc = s.rc /\ t.fresh = s.fresh
          /\ t.stsSeen = s.stsSeen /\ t.pc = "addMasters" /\ t.job = s.job
          BY <1>5
    <3>2. "addMasters" \in Steps /\ Belongs("addMasters", s.job)
          BY DEF Steps, Belongs
    <3> HIDE DEF t
    <3> QED
          BY <1>1, <1>2, <3>1, <3>2, StepGoes
  <2> HIDE DEF t
  <2> QED
        BY <1>1, <2>1, <2>2, IdleGoes, KeptMoves, FailMoves
<1>18. CASE AddMaster
  <2> DEFINE t == [s EXCEPT !.todoM = Tail(@)]
  <2>1. Fail \/ (StatusKept /\ s' = t)
        BY <1>18 DEF AddMaster
  <2>2. Goes(t)
    <3>1. /\ DOMAIN t = DOMAIN s /\ t.rc = s.rc /\ t.fresh = s.fresh
          /\ t.stsSeen = s.stsSeen /\ t.pc = s.pc /\ t.job = s.job
          BY <1>5
    <3>2. s.pc \in Steps
          BY DEF TypeOK, SyncType
    <3> HIDE DEF t
    <3> QED
          BY <1>1, <1>2, <1>4, <3>1, <3>2, StepGoes
  <2> HIDE DEF t
  <2> QED
        BY <1>1, <2>1, <2>2, KeptMoves, FailMoves
<1>19. CASE NodesAfterMasters
  <2> DEFINE t(ids) == [s EXCEPT !.pc = "addSlaves", !.masters = ids,
                                 !.todoS = [i \in DOMAIN @ |-> <<@[i][1], ids[i]>>]]
  <2>1. \/ Fail
        \/ StatusKept /\ s' = [s EXCEPT !.pc = "addSlaves"]
        \/ StatusKept /\ \E ids \in NewMasterNodes : s' = t(ids)
        BY <1>19 DEF NodesAfterMasters
  <2>2. "addSlaves" \in Steps /\ Belongs("addSlaves", s.job)
        BY DEF Steps, Belongs
  <2>3. Goes([s EXCEPT !.pc = "addSlaves"])
        BY <1>1, <2>2, NextStep
  <2>4. ASSUME NEW ids PROVE Goes(t(ids))
    <3> DEFINE u == t(ids)
    <3>1. /\ DOMAIN u = DOMAIN s /\ u.rc = s.rc /\ u.fresh = s.fresh
          /\ u.stsSeen = s.stsSeen /\ u.pc = "addSlaves" /\ u.job = s.job
          BY <1>5
    <3> HIDE DEF u
    <3> QED
          BY <1>1, <1>2, <2>2, <3>1, StepGoes DEF u
  <2> HIDE DEF t
  <2> QED
        BY <1>1, <2>1, <2>3, <2>4, KeptMoves, FailMoves
<1>20. CASE AddSlave
  <2> DEFINE t == [s EXCEPT !.todoS = Tail(@)]
  <2>1. Fail \/ (StatusKept /\ s' = t)
        BY <1>20 DEF AddSlave
  <2>2. Goes(t)
    <3>1. /\ DOMAIN t = DOMAIN s /\ t.rc = s.rc /\ t.fresh = s.fresh
          /\ t.stsSeen = s.stsSeen /\ t.pc = s.pc /\ t.job = s.job
          BY <1>5
    <3>2. s.pc \in Steps
          BY DEF TypeOK, SyncType
    <3> HIDE DEF t
    <3> QED
          BY <1>1, <1>2, <1>4, <3>1, <3>2, StepGoes
  <2> HIDE DEF t
  <2> QED
        BY <1>1, <2>1, <2>2, KeptMoves, FailMoves
<1>21. CASE GivesSlots
      BY <1>1, <1>21, SlotSteps, AlongGoes, IdleGoes, KeptMoves, FailMoves
<1>22. Goes([s EXCEPT !.pc = "finish"])
      BY <1>1, NextStep DEF Belongs, Steps
<1>23. CASE VerifyNodes
  <2>1. Fail \/ (StatusKept /\ (s' = [s EXCEPT !.pc = "finish"] \/ s' = Idle))
        BY <1>23 DEF VerifyNodes
  <2> QED
        BY <1>1, <1>22, <2>1, IdleGoes, KeptMoves, FailMoves
<1>24. CASE UpdateRunning
  <2>1. Return("Running", FALSE, s.eps) \/ (StatusKept /\ s' = Idle)
        BY <1>24 DEF UpdateRunning
  <2> QED
        BY <1>1, <1>3, <2>1, ReturnMoves, IdleGoes, KeptMoves
<1>25. CASE ReportFailure
  <2>1. \/ Return("Failed", TRUE, s.eps) \/ Return("Running", TRUE, s.eps)
        \/ (StatusKept /\ s' = Idle)
        BY <1>25 DEF ReportFailure
  <2> QED
        BY <1>1, <1>3, <2>1, ReturnMoves, IdleGoes, KeptMoves
<1> QED
      BY <1>1, <1>6, <1>7, <1>8, <1>9, <1>10, <1>11, <1>12, <1>13, <1>14, <1>15, <1>16,
         <1>17, <1>18, <1>19, <1>20, <1>21, <1>23, <1>24, <1>25
      DEF SyncStep, GivesSlots
-----------------------------------------------------------------------------
(***************************************************************************)
(* The Redis nodes.                                                        *)
(***************************************************************************)
\* redis-trib create makes masters of empty instances.
Founded ==
    \E N : /\ N = ToSet(assignMasterSlaveIP(s.eps, NodeOf).masters) /\ s.pc = "trib"
           /\ \A p \in N : clu[p] = 0
           /\ clu' = [p \in Pods |-> IF p \in N THEN NewCluster ELSE clu[p]]
           /\ parent' = parent

\* redis-trib add-node takes in an empty instance, as a master or as the slave of
\* a master of the cluster.
Grew(p, m) ==
    /\ clu[p] = 0 /\ clu[s.exist] # 0
    /\ clu' = [clu EXCEPT ![p] = clu[s.exist]] /\ parent' = [parent EXCEPT ![p] = m]
    /\ m = 0 \/ m \in Masters(s.exist)
    /\ \/ s.pc = "addMasters" /\ s.todoM # <<>> /\ p = Head(s.todoM) /\ m = 0
       \/ /\ s.pc = "addSlaves" /\ s.todoS # <<>> /\ p = Head(s.todoS)[1]
          /\ m \in {0, Head(s.todoS)[2]}

SlotsStep == slots' = slots \/ \E ps : slots' = [p \in Pods |-> slots[p] \/ p \in ps]

\* Every step of a sync leaves the nodes alone or is one of these.
LEMMA RedisStep ==
    ASSUME SyncStep
    PROVE  /\ SlotsStep
           /\ (clu' = clu /\ parent' = parent) \/ Founded \/ \E p, m : Grew(p, m)
<1>1. CASE UNCHANGED redisVars
      BY <1>1 DEF redisVars, SlotsStep
<1>2. CASE CreateCluster
  <2> DEFINE N == ToSet(assignMasterSlaveIP(s.eps, NodeOf).masters)
  <2>1. \/ UNCHANGED redisVars
        \/ /\ TribAccepts(assignMasterSlaveIP(s.eps, NodeOf).masters)
           /\ clu' = [p \in Pods |-> IF p \in N THEN NewCluster ELSE clu[p]]
           /\ slots' = [p \in Pods |-> slots[p] \/ p \in N]
           /\ UNCHANGED parent
        BY <1>2, Zenon DEF CreateCluster
  <2>2. s.pc = "trib"
        BY <1>2 DEF CreateCluster
  <2>3. TribAccepts(assignMasterSlaveIP(s.eps, NodeOf).masters) => \A p \in N : clu[p] = 0
        BY Zenon DEF TribAccepts
  <2> HIDE DEF N
  <2>4. CASE /\ TribAccepts(assignMasterSlaveIP(s.eps, NodeOf).masters)
             /\ clu' = [p \in Pods |-> IF p \in N THEN NewCluster ELSE clu[p]]
             /\ slots' = [p \in Pods |-> slots[p] \/ p \in N]
             /\ UNCHANGED parent
    <3>1. Founded
          BY <2>2, <2>3, <2>4, Zenon DEF Founded, N
    <3>2. SlotsStep
          BY <2>4, Zenon DEF SlotsStep
    <3> QED
          BY <3>1, <3>2
  <2> QED
        BY <1>1, <2>1, <2>4
<1>3. ASSUME NEW p, NEW m, Join(p, m)
      PROVE  /\ SlotsStep /\ parent' = [parent EXCEPT ![p] = m]
             /\ clu' = [clu EXCEPT ![p] = clu[s.exist]]
      BY <1>3 DEF Join, SlotsStep
<1>4. CASE AddMaster
  <2> DEFINE p == Head(s.todoM)
  <2>1. \/ UNCHANGED redisVars
        \/ StatusOK(s.exist) /\ clu[p] = 0 /\ Join(p, 0)
        BY <1>4 DEF AddMaster
  <2>2. s.pc = "addMasters" /\ s.todoM # <<>>
        BY <1>4 DEF AddMaster
  <2>3. StatusOK(s.exist) /\ clu[p] = 0 /\ Join(p, 0) => Grew(p, 0)
        BY <1>3, <2>2 DEF Grew, StatusOK
  <2> QED
        BY <1>1, <1>3, <2>1, <2>3
<1>5. CASE AddSlave
  <2> DEFINE p == Head(s.todoS)[1]
             m == Head(s.todoS)[2]
  <2>1. \/ UNCHANGED redisVars
        \/ StatusOK(s.exist) /\ clu[p] = 0 /\ Join(p, 0)
        \/ StatusOK(s.exist) /\ clu[p] = 0 /\ Join(p, m) /\ m \in Masters(s.exist)
        BY <1>5 DEF AddSlave
  <2>2. s.pc = "addSlaves" /\ s.todoS # <<>>
        BY <1>5 DEF AddSlave
  <2>3. StatusOK(s.exist) /\ clu[p] = 0 /\ Join(p, 0) => Grew(p, 0)
        BY <1>3, <2>2 DEF Grew, StatusOK
  <2>4. StatusOK(s.exist) /\ clu[p] = 0 /\ Join(p, m) /\ m \in Masters(s.exist) => Grew(p, m)
        BY <1>3, <2>2 DEF Grew, StatusOK
  <2> QED
        BY <1>1, <1>3, <2>1, <2>3, <2>4
<1>6. CASE Rebalance \/ Reshard
  <2>1. UNCHANGED redisVars \/ \E ps : GiveSlots(ps)
        BY <1>6, Zenon DEF Rebalance, Reshard
  <2>2. ASSUME NEW ps, GiveSlots(ps) PROVE SlotsStep /\ clu' = clu /\ parent' = parent
    <3>1. slots' = [p \in Pods |-> slots[p] \/ p \in ps] /\ clu' = clu /\ parent' = parent
          BY <2>2 DEF GiveSlots
    <3> QED
          BY <3>1, Zenon DEF SlotsStep
  <2> QED
        BY <1>1, <2>1, <2>2
<1>7. CASE SlavesAdded \/ TribInfo \/ NodesBeforeSlots \/ SlotsGiven \/ NoStrategy
  <2>1. UNCHANGED redisVars
        BY <1>7, Zenon DEF SlavesAdded, TribInfo, NodesBeforeSlots, SlotsGiven, NoStrategy
  <2> QED
        BY <1>1, <2>1
<1>8. CASE \/ UpdateCreating \/ ApplyStatefulSet \/ RefuseUpgrade \/ UpdateScaling
           \/ ScaleStatefulSet \/ ProbeCluster \/ WaitPodsReady \/ Classify \/ CreateNodes
           \/ UpdateUpgrading \/ PlanAdditions \/ NodesAfterMasters \/ VerifyNodes
           \/ UpdateRunning \/ ReportFailure
  <2>1. UNCHANGED redisVars
        BY <1>8 DEF UpdateCreating, ApplyStatefulSet, RefuseUpgrade, UpdateScaling,
                    ScaleStatefulSet, ProbeCluster, WaitPodsReady, Classify, CreateNodes,
                    UpdateUpgrading, PlanAdditions, NodesAfterMasters, VerifyNodes,
                    UpdateRunning, ReportFailure
  <2> QED
        BY <1>1, <2>1
<1> QED
      BY <1>2, <1>4, <1>5, <1>6, <1>7, <1>8 DEF SyncStep

\* Instances that are in a cluster stay there, with their master.
MembersRemain == \A p \in Pods : clu[p] # 0 => clu'[p] = clu[p] /\ parent'[p] = parent[p]

LEMMA RedisMoves ==
    ASSUME TypeOK, SyncStep
    PROVE  /\ MembersRemain /\ DOMAIN clu' = Pods /\ parent' \in [Pods -> {0} \cup Pods]
           /\ slots' \in [Pods -> BOOLEAN]
<1>1. DOMAIN clu = Pods /\ parent \in [Pods -> {0} \cup Pods] /\ slots \in [Pods -> BOOLEAN]
      BY DEF TypeOK
<1>2. slots' \in [Pods -> BOOLEAN]
      BY <1>1, RedisStep, Zenon DEF SlotsStep
<1>3. CASE clu' = clu /\ parent' = parent
      BY <1>1, <1>2, <1>3 DEF MembersRemain
<1>4. CASE Founded
      BY <1>1, <1>2, <1>4 DEF Founded, MembersRemain
<1>5. ASSUME NEW p, NEW m, Grew(p, m)
      PROVE  MembersRemain /\ DOMAIN clu' = Pods /\ parent' \in [Pods -> {0} \cup Pods]
  <2>1. /\ clu[p] = 0 /\ clu' = [clu EXCEPT ![p] = clu[s.exist]]
        /\ parent' = [parent EXCEPT ![p] = m] /\ m \in {0} \cup Pods
        BY <1>5 DEF Grew, Masters, Cluster
  <2> QED
        BY <1>1, <2>1 DEF MembersRemain
<1> QED
      BY <1>2, <1>3, <1>4, <1>5, RedisStep
-----------------------------------------------------------------------------
(***************************************************************************)
(* The StatefulSet, and the type invariant.                                *)
(***************************************************************************)
Resized ==
    /\ sts' = [sts EXCEPT !.spec = s.rc.replicas] /\ ready' = ready \cap 1..s.rc.replicas
    /\ s.pc \in {"apply", "applyScale"}

\* Every step of a sync leaves the StatefulSet alone or gives it the size that the
\* sync's copy of the RedisCluster asks for.
LEMMA StsStep ==
    ASSUME SyncStep
    PROVE  /\ stsCache' = stsCache /\ ok' = ok
           /\ (sts' = sts /\ ready' = ready) \/ Resized
<1>1. CASE UNCHANGED stsVars /\ UNCHANGED ok
      BY <1>1 DEF stsVars
<1>2. CASE ApplyStatefulSet
      BY <1>2 DEF ApplyStatefulSet, Resized, buildRedisClusterStatefulset
<1>3. CASE ScaleStatefulSet
      BY <1>3 DEF ScaleStatefulSet, Resized, buildRedisClusterStatefulset
<1>4. CASE \/ UpdateCreating \/ RefuseUpgrade \/ UpdateScaling \/ ProbeCluster
           \/ WaitPodsReady \/ Classify \/ CreateNodes \/ UpdateUpgrading \/ PlanAdditions
           \/ NodesAfterMasters \/ VerifyNodes \/ UpdateRunning \/ ReportFailure
  <2>1. UNCHANGED stsVars /\ UNCHANGED ok
        BY <1>4 DEF UpdateCreating, RefuseUpgrade, UpdateScaling, ProbeCluster,
                    WaitPodsReady, Classify, CreateNodes, UpdateUpgrading, PlanAdditions,
                    NodesAfterMasters, VerifyNodes, UpdateRunning, ReportFailure
  <2> QED
        BY <1>1, <2>1
<1>5. CASE CreateCluster \/ AddMaster \/ AddSlave \/ GivesSlots
  <2>1. UNCHANGED stsVars /\ UNCHANGED ok
        BY <1>5, Zenon DEF CreateCluster, AddMaster, AddSlave, GivesSlots, SlavesAdded,
                           Rebalance, TribInfo, NodesBeforeSlots, Reshard, SlotsGiven,
                           NoStrategy
  <2> QED
        BY <1>1, <2>1
<1> QED
      BY <1>2, <1>3, <1>4, <1>5 DEF SyncStep, GivesSlots

\* The parts of a StatefulSet.
LEMMA StatefulSetParts ==
    /\ \A x \in StatefulSets : x.spec \in {0} \cup Sizes /\ x.pods \in BOOLEAN
    /\ \A x \in StatefulSets : \A n \in {0} \cup Sizes :
          [x EXCEPT !.spec = n] \in StatefulSets /\ [x EXCEPT !.spec = n].spec = n
    /\ \A x \in StatefulSets :
          [x EXCEPT !.pods = TRUE] \in StatefulSets /\ [x EXCEPT !.pods = TRUE].spec = x.spec
    /\ NoSts \in StatefulSets /\ NoSts.spec = 0
BY DEF StatefulSets, NoSts

\* A sync begins with the listers' copies.
LEMMA BeginType ==
    ASSUME TypeOK, StartSync
    PROVE  /\ SyncType(s') /\ ~Quiet(s') /\ s'.rc = crCache /\ s'.fresh = cacheFresh
           /\ s'.eps = <<>> /\ s'.todoM = <<>> /\ s'.todoS = <<>> /\ s'.masters = <<>>
           /\ s'.pc \in {"creating", "refuse", "scaling", "probe", "wait"}
<1>1. /\ crCache \in RedisClusters /\ cacheFresh \in BOOLEAN
      BY DEF TypeOK
<1>2. PICK pc, job :
         /\ <<pc, job>> \in {<<"creating", "create">>, <<"refuse", "upgrade">>,
                             <<"scaling", "upgrade">>, <<"probe", "check">>, <<"wait", "check">>}
         /\ s' = [Idle EXCEPT !.pc = pc, !.job = job, !.rc = crCache,
                              !.fresh = cacheFresh, !.stsSeen = (stsCache # NoSts)]
  <2> DEFINE begin(pc, job) == [Idle EXCEPT !.pc = pc, !.job = job, !.rc = crCache,
                                   !.fresh = cacheFresh, !.stsSeen = (stsCache # NoSts)]
  <2>1. \/ s' = begin("creating", "create") \/ s' = begin("refuse", "upgrade")
        \/ s' = begin("scaling", "upgrade") \/ s' = begin("probe", "check")
        \/ s' = begin("wait", "check")
        BY DEF StartSync
  <2> HIDE DEF begin
  <2>2. \E pc, job :
           /\ <<pc, job>> \in {<<"creating", "create">>, <<"refuse", "upgrade">>,
                               <<"scaling", "upgrade">>, <<"probe", "check">>, <<"wait", "check">>}
           /\ s' = begin(pc, job)
        BY <2>1
  <2> QED
        BY <2>2, Zenon DEF begin
<1>3. pc \in Steps /\ job \in Jobs /\ Belongs(pc, job) /\ pc \notin {"idle", "hung"}
      BY <1>2 DEF Steps, Jobs, Belongs
<1>4. /\ DOMAIN s' = DOMAIN Idle /\ s'.pc = pc /\ s'.job = job /\ s'.rc = crCache
      /\ s'.fresh = cacheFresh /\ s'.stsSeen = (stsCache # NoSts)
      /\ s'.eps = <<>> /\ s'.todoM = <<>> /\ s'.todoS = <<>> /\ s'.masters = <<>>
      BY <1>2, IdleFields
<1>5. SyncType(s') /\ ~Quiet(s')
      BY <1>1, <1>3, <1>4 DEF SyncType, Quiet
<1> QED
      BY <1>2, <1>4, <1>5

\* An edit changes size and strategy.
LEMMA EditType ==
    ASSUME TypeOK, EditRedisCluster
    PROVE  /\ cr' \in RedisClusters /\ cr'.status = cr.status /\ SyncType(s')
           /\ s' = [s EXCEPT !.fresh = FALSE] /\ s'.fresh = FALSE /\ s'.rc = s.rc
           /\ s'.pc = s.pc /\ s'.eps = s.eps /\ s'.todoM = s.todoM /\ s'.todoS = s.todoS
           /\ s'.masters = s.masters /\ s'.job = s.job
           /\ cr'.replicas \in Sizes /\ (cr'.replicas >= cr.replicas \/ ScaleIn)
<1>1. cr \in RedisClusters /\ SyncType(s)
      BY DEF TypeOK
<1>2. PICK n \in Sizes, st \in Strategies :
         /\ cr' = [cr EXCEPT !.replicas = n, !.strategy = st]
         /\ n >= cr.replicas \/ ScaleIn
      BY DEF EditRedisCluster
<1>3. s' = [s EXCEPT !.fresh = FALSE]
      BY DEF EditRedisCluster
<1>4. /\ DOMAIN s' = DOMAIN s /\ s'.fresh = FALSE /\ s'.rc = s.rc /\ s'.pc = s.pc
      /\ s'.eps = s.eps /\ s'.todoM = s.todoM /\ s'.todoS = s.todoS /\ s'.masters = s.masters
      /\ s'.job = s.job /\ s'.stsSeen = s.stsSeen
      BY <1>3, SyncFields
<1>5. SyncType(s')
      BY <1>1, <1>4 DEF SyncType, Quiet
<1>6. cr' \in RedisClusters /\ cr'.status = cr.status /\ cr'.replicas = n
      BY <1>1, <1>2 DEF RedisClusters
<1> QED
      BY <1>2, <1>3, <1>4, <1>5, <1>6

LEMMA InitType == Init => TypeOK
<1> SUFFICES ASSUME Init PROVE TypeOK
    OBVIOUS
<1>1. PICK n \in Sizes, st \in Strategies :
         cr = [replicas |-> n, strategy |-> st, status |-> NoStatus]
      BY DEF Init
<1>2. cr \in RedisClusters
  <2>1. NoStatus \in Statuses
        BY DEF NoStatus, Statuses, Phases
  <2> QED
        BY <1>1, <2>1 DEF RedisClusters, Statuses
<1>3. sts \in StatefulSets /\ stsCache \in StatefulSets /\ ready \subseteq 1..sts.spec
      BY StatefulSetParts DEF Init
<1>4. /\ DOMAIN clu = Pods /\ parent \in [Pods -> {0} \cup Pods] /\ slots \in [Pods -> BOOLEAN]
      BY DEF Init
<1> QED
      BY <1>2, <1>3, <1>4, IdleType DEF Init, TypeOK

\* Type correctness: whatever fails, races or restarts, a sync that runs has a
\* RedisCluster and is at a step of its own procedure, the status lists instances
\* with their masters, and the ready instances are those of the StatefulSet.
LEMMA StepType == TypeOK /\ [Next]_vars => TypeOK'
<1> SUFFICES ASSUME TypeOK, [Next]_vars PROVE TypeOK'
    OBVIOUS
<1>1. /\ cr \in RedisClusters /\ crCache \in RedisClusters /\ cacheFresh \in BOOLEAN
      /\ sts \in StatefulSets /\ stsCache \in StatefulSets /\ ready \subseteq 1..sts.spec
      /\ DOMAIN clu = Pods /\ parent \in [Pods -> {0} \cup Pods]
      /\ slots \in [Pods -> BOOLEAN] /\ ok \in BOOLEAN /\ SyncType(s)
      BY DEF TypeOK
<1>2. CASE UNCHANGED vars
      BY <1>1, <1>2 DEF vars, crVars, stsVars, redisVars, TypeOK
<1>3. CASE StartSync
  <2>1. UNCHANGED <<crVars, stsVars, redisVars, ok>>
        BY <1>3 DEF StartSync
  <2>2. SyncType(s')
        BY <1>3, BeginType
  <2> QED
        BY <1>1, <2>1, <2>2 DEF crVars, stsVars, redisVars, TypeOK
<1>4. CASE SyncStep
  <2>1. ~Quiet(s) /\ SyncType(s') /\ (Kept \/ Wrote)
        BY <1>4, SyncMoves DEF Moves
  <2>2. cr' \in RedisClusters /\ crCache' \in RedisClusters /\ cacheFresh' \in BOOLEAN
    <3>1. CASE Kept
          BY <1>1, <3>1 DEF Kept
    <3>2. CASE Wrote
      <4>1. PICK status \in Statuses : cr' = [cr EXCEPT !.status = status]
            BY <3>2 DEF Wrote
      <4>2. crCache' = crCache /\ cacheFresh' = FALSE
            BY <3>2 DEF Wrote
      <4> QED
            BY <1>1, <4>1, <4>2, StatusType
    <3> QED
          BY <2>1, <3>1, <3>2
  <2>3. s.rc \in RedisClusters /\ s.rc.replicas \in Sizes
        BY <1>1, <2>1 DEF SyncType, RedisClusters
  <2>4. /\ sts' \in StatefulSets /\ stsCache' \in StatefulSets /\ ready' \subseteq 1..sts'.spec
        /\ ok' = ok
    <3>1. CASE sts' = sts /\ ready' = ready
          BY <1>1, <1>4, <3>1, StsStep
    <3>2. CASE Resized
      <4>1. /\ sts' = [sts EXCEPT !.spec = s.rc.replicas]
            /\ ready' = ready \cap 1..s.rc.replicas
            BY <3>2 DEF Resized
      <4>2. sts' \in StatefulSets /\ sts'.spec = s.rc.replicas
            BY <1>1, <2>3, <4>1, StatefulSetParts
      <4> QED
            BY <1>1, <1>4, <4>1, <4>2, StsStep
    <3> QED
          BY <1>4, <3>1, <3>2, StsStep
  <2>5. /\ DOMAIN clu' = Pods /\ parent' \in [Pods -> {0} \cup Pods]
        /\ slots' \in [Pods -> BOOLEAN]
        BY <1>4, RedisMoves
  <2> QED
        BY <1>1, <2>1, <2>2, <2>4, <2>5 DEF TypeOK
<1>5. CASE EditRedisCluster
  <2>1. UNCHANGED <<crCache, stsVars, redisVars, ok>> /\ cacheFresh' = FALSE
        BY <1>5 DEF EditRedisCluster
  <2> QED
        BY <1>1, <1>5, <2>1, EditType DEF stsVars, redisVars, TypeOK
<1>6. CASE RedisClusterInformed
      BY <1>1, <1>6 DEF RedisClusterInformed, stsVars, redisVars, TypeOK
<1>7. CASE StatefulSetInformed
      BY <1>1, <1>7 DEF StatefulSetInformed, crVars, redisVars, TypeOK
<1>8. CASE PodsCreated
  <2>1. sts' \in StatefulSets /\ sts'.spec = sts.spec
        BY <1>1, <1>8, StatefulSetParts DEF PodsCreated
  <2>2. UNCHANGED <<crVars, stsCache, ready, redisVars, ok, s>>
        BY <1>8 DEF PodsCreated
  <2> QED
        BY <1>1, <2>1, <2>2 DEF crVars, redisVars, TypeOK
<1>9. CASE PodReady
  <2> DEFINE left == 1..sts.spec \ ready
             p == CHOOSE x \in left : \A y \in left : x <= y
  <2>1. sts.spec \in Nat
        BY <1>1, StatefulSetParts, PodsBySize
  <2>2. left \subseteq Nat /\ left # {}
    <3> DEFINE U == 1..sts.spec
    <3>1. U \subseteq Nat
          BY <2>1
    <3>2. ready \subseteq U /\ ready # U
          BY <1>1, <1>9 DEF PodReady
    <3> HIDE DEF U
    <3> QED
          BY <3>1, <3>2 DEF U
  <2>3. p \in left
    <3> HIDE DEF left
    <3> QED
        BY <2>2, MinNat
  <2>4. ready' = ready \cup {p} /\ UNCHANGED <<crVars, sts, stsCache, redisVars, ok, s>>
        BY <1>9 DEF PodReady
  <2> HIDE DEF p
  <2> QED
        BY <1>1, <2>3, <2>4 DEF crVars, redisVars, TypeOK
<1>10. CASE PodUnready
      BY <1>1, <1>10 DEF PodUnready, crVars, redisVars, TypeOK
<1>11. CASE ClusterBreaks \/ ClusterHeals
      BY <1>1, <1>11 DEF ClusterBreaks, ClusterHeals, crVars, stsVars, redisVars, TypeOK
<1>12. CASE Restart
  <2>1. /\ crCache' = cr /\ cacheFresh' = TRUE /\ stsCache' = sts /\ s' = Idle
        /\ UNCHANGED <<cr, sts, ready, redisVars, ok>>
        BY <1>12 DEF Restart
  <2> QED
        BY <1>1, <2>1, IdleType DEF redisVars, TypeOK
<1> QED
      BY <1>2, <1>3, <1>4, <1>5, <1>6, <1>7, <1>8, <1>9, <1>10, <1>11, <1>12
      DEF Next, Environment

\* The type invariant holds in every state.
THEOREM ReconcileTypes == Spec => []TypeOK
BY InitType, StepType, PTL DEF Spec
-----------------------------------------------------------------------------
(***************************************************************************)
(* The status tells the truth.  It is inductive with the two copies of the *)
(* RedisCluster, whose conditions are written back by later updates.       *)
(***************************************************************************)
TrueIn(conds, k, par) ==
    \A c \in conds : c.pod \in Pods /\ k[c.pod] # 0 /\ c.master = par[c.pod]
StatusInv ==
    /\ TrueIn(cr.status.conds, clu, parent) /\ TrueIn(crCache.status.conds, clu, parent)
    /\ Quiet(s) \/ TrueIn(s.rc.status.conds, clu, parent)

\* No step takes an instance out of the cluster or gives it another master.
LEMMA AllMembersRemain ==
    ASSUME TypeOK, [Next]_vars
    PROVE  MembersRemain
<1>1. CASE SyncStep
      BY <1>1, RedisMoves
<1>2. CASE ~SyncStep
  <2>1. UNCHANGED redisVars
    <3>1. CASE UNCHANGED vars
          BY <3>1 DEF vars
    <3>2. CASE StartSync
          BY <3>2 DEF StartSync
    <3>3. CASE Environment
          BY <3>3 DEF Environment, EditRedisCluster, RedisClusterInformed,
                      StatefulSetInformed, PodsCreated, PodReady, PodUnready, ClusterBreaks,
                      ClusterHeals, Restart
    <3> QED
          BY <1>2, <3>1, <3>2, <3>3 DEF Next
  <2> QED
        BY <2>1 DEF redisVars, MembersRemain
<1> QED
      BY <1>1, <1>2

LEMMA TrueStays ==
    ASSUME NEW conds, TrueIn(conds, clu, parent), MembersRemain
    PROVE  TrueIn(conds, clu', parent')
BY DEF TrueIn, MembersRemain

LEMMA StatusInvStep == TypeOK /\ StatusInv /\ [Next]_vars => StatusInv'
<1> SUFFICES ASSUME TypeOK, StatusInv, [Next]_vars PROVE StatusInv'
    OBVIOUS
<1>1. MembersRemain
      BY AllMembersRemain
<1>2. /\ TrueIn(cr.status.conds, clu', parent') /\ TrueIn(crCache.status.conds, clu', parent')
      /\ Quiet(s) \/ TrueIn(s.rc.status.conds, clu', parent')
      BY <1>1, TrueStays DEF StatusInv
<1> SUFFICES /\ TrueIn(cr'.status.conds, clu', parent')
             /\ TrueIn(crCache'.status.conds, clu', parent')
             /\ Quiet(s') \/ TrueIn(s'.rc.status.conds, clu', parent')
    BY DEF StatusInv, TrueIn, Quiet
<1>3. CASE SyncStep
  <2>1. ~Quiet(s) /\ (Kept \/ Wrote)
        BY <1>3, SyncMoves DEF Moves
  <2>2. CASE Kept
        BY <1>2, <2>1, <2>2 DEF Kept
  <2>3. CASE Wrote
    <3>1. PICK status \in Statuses : Told(status) /\ cr' = [cr EXCEPT !.status = status]
          BY <2>3 DEF Wrote
    <3>2. cr'.status = status
          BY <3>1, StatusType DEF TypeOK
    <3>3. TrueIn(status.conds, clu', parent')
      <4>1. TrueIn({}, clu', parent')
            BY DEF TrueIn
      <4>2. ASSUME NEW p PROVE TrueIn(ClusterNodes(p), clu', parent')
        <5> SUFFICES TrueIn(ClusterNodes(p), clu, parent)
            BY <1>1, TrueStays
        <5> SUFFICES ASSUME NEW c \in ClusterNodes(p)
                     PROVE  c.pod \in Pods /\ clu[c.pod] # 0 /\ c.master = parent[c.pod]
            BY DEF TrueIn
        <5>1. PICK q \in Cluster(p) : c = [pod |-> q, master |-> parent[q], slots |-> slots[q]]
              BY DEF ClusterNodes
        <5>2. q \in Pods /\ clu[q] # 0
              BY DEF Cluster
        <5> QED
              BY <5>1, <5>2
      <4> QED
            BY <1>2, <2>1, <3>1, <4>1, <4>2 DEF Told
    <3>4. crCache' = crCache /\ (Quiet(s') \/ s'.rc = cr')
          BY <2>3 DEF Wrote
    <3> QED
          BY <1>2, <3>2, <3>3, <3>4
  <2> QED
        BY <2>1, <2>2, <2>3
<1>4. CASE StartSync
  <2>1. cr' = cr /\ crCache' = crCache /\ s'.rc = crCache
        BY <1>4, BeginType DEF StartSync, crVars
  <2> QED
        BY <1>2, <2>1
<1>5. CASE EditRedisCluster
  <2>1. cr'.status = cr.status /\ crCache' = crCache /\ s'.rc = s.rc /\ s'.pc = s.pc
        BY <1>5, EditType DEF EditRedisCluster
  <2> QED
        BY <1>2, <2>1 DEF Quiet
<1>6. CASE RedisClusterInformed
      BY <1>2, <1>6 DEF RedisClusterInformed
<1>7. CASE Restart
  <2>1. cr' = cr /\ crCache' = cr /\ s' = Idle
        BY <1>7 DEF Restart
  <2> QED
        BY <1>2, <2>1, IdleType
<1>8. CASE UNCHANGED <<crVars, s>>
      BY <1>2, <1>8 DEF crVars
<1>9. CASE \/ UNCHANGED vars \/ StatefulSetInformed \/ PodsCreated \/ PodReady \/ PodUnready
           \/ ClusterBreaks \/ ClusterHeals
  <2>1. UNCHANGED <<crVars, s>>
        BY <1>9 DEF vars, StatefulSetInformed, PodsCreated, PodReady, PodUnready,
                    ClusterBreaks, ClusterHeals
  <2> QED
        BY <1>8, <2>1
<1> QED
      BY <1>3, <1>4, <1>5, <1>6, <1>7, <1>9 DEF Next, Environment

\* The status lists only instances that are in the cluster, each with its master,
\* whatever calls fail, whichever copy of the RedisCluster is old and wherever the
\* operator crashes: the conditions that an error path writes back were read from
\* the Redis nodes by an earlier sync, and no step takes a node out again.
THEOREM StatusStaysTrue == Spec => []StatusIsTrue
<1>1. Init => StatusInv
  <2>1. ASSUME Init PROVE crCache = cr /\ s = Idle /\ cr.status.conds = {}
    <3>1. PICK n \in Sizes, st \in Strategies :
             cr = [replicas |-> n, strategy |-> st, status |-> NoStatus]
          BY <2>1 DEF Init
    <3> QED
          BY <2>1, <3>1 DEF Init, NoStatus
  <2> QED
        BY <2>1, IdleType DEF StatusInv, TrueIn
<1>2. StatusInv => StatusIsTrue
      BY DEF StatusInv, StatusIsTrue, TrueIn, Joined
<1> QED
      BY <1>1, <1>2, InitType, StepType, StatusInvStep, PTL DEF Spec

-----------------------------------------------------------------------------
(***************************************************************************)
(* The addresses a sync works with.                                        *)
(***************************************************************************)
\* Every instance that a sync has read or means to add is in U; the masters that
\* slaves are meant for may be others.
WorkIn(t, U) ==
    /\ \E X \in SUBSET U : Lists(t.eps, X)
    /\ t.todoM \in Seq(Pods) /\ (t.pc = "addMasters" => t.todoM \in Seq(U))
    /\ t.todoS \in Seq(U \X Pods) /\ t.masters \in Seq(Pods)

LEMMA WorkGrows ==
    ASSUME NEW t, NEW U, NEW V, U \subseteq V, WorkIn(t, U)
    PROVE  WorkIn(t, V)
<1>1. /\ t.todoM \in Seq(Pods) /\ (t.pc = "addMasters" => t.todoM \in Seq(V))
      /\ t.todoS \in Seq(V \X Pods) /\ t.masters \in Seq(Pods)
  <2>1. /\ t.todoM \in Seq(Pods) /\ (t.pc = "addMasters" => t.todoM \in Seq(U))
        /\ t.todoS \in Seq(U \X Pods) /\ t.masters \in Seq(Pods)
        BY DEF WorkIn
  <2>2. \A i \in 1..Len(t.todoS) : t.todoS[i] \in V \X Pods
        BY <2>1
  <2> QED
        BY <2>1, <2>2
<1>2. \E X \in SUBSET V : Lists(t.eps, X)
      BY DEF WorkIn
<1> QED
      BY <1>1, <1>2 DEF WorkIn

SameWork(t) ==
    /\ t.eps = s.eps /\ t.todoM = s.todoM /\ t.todoS = s.todoS /\ t.masters = s.masters
    /\ t.pc = "addMasters" => s.pc = "addMasters"
NoWork(t) == t.eps = <<>> /\ t.todoM = <<>> /\ t.todoS = <<>> /\ t.masters = <<>>

LEMMA SimpleWork ==
    ASSUME NEW U, WorkIn(s, U), NEW t
    PROVE  SameWork(t) \/ NoWork(t) => WorkIn(t, U)
<1>1. SameWork(t) => WorkIn(t, U)
      BY DEF WorkIn, SameWork
<1>2. NoWork(t) => WorkIn(t, U)
      BY ListsEmpty DEF WorkIn, NoWork
<1> QED
      BY <1>1, <1>2

LEMMA IdleWork == NoWork(Idle) /\ NoWork([Idle EXCEPT !.pc = "hung"])
BY IdleFields DEF NoWork

\* The sorted Endpoints.
LEMMA AddressesList ==
    ASSUME ready \subseteq Pods
    PROVE  Lists(Addresses, ready)
<1> DEFINE all == [p \in Pods |-> p]
<1>1. Pods = 1..Max(Sizes) /\ Max(Sizes) \in Nat
      BY PodsBySize DEF Pods
<1>2. all \in Seq(Nat) /\ Len(all) = Max(Sizes) /\ \A i \in 1..Max(Sizes) : all[i] = i
      BY <1>1
<1> HIDE DEF all
<1>3. Lists(all, Pods)
      BY <1>1, <1>2 DEF Lists
<1>4. Pods \cap ready = ready
      OBVIOUS
<1> QED
      BY <1>3, <1>4, ListsAmong DEF Addresses, all

\* Lists of slaves and of their masters, as long.
LEMMA PairsType ==
    ASSUME NEW c, NEW S, Lists(c, S), NEW d, NEW M, Lists(d, M), Len(c) = Len(d)
    PROVE  /\ Pairs(c, d) \in Seq(S \X M) /\ Len(Pairs(c, d)) = Len(c)
           /\ \A i \in 1..Len(c) : Pairs(c, d)[i] = <<c[i], d[i]>>
<1>1. DOMAIN c = 1..Len(c) /\ Len(c) \in Nat
      BY DEF Lists
<1>2. \A i \in 1..Len(c) : <<c[i], d[i]>> \in S \X M
      BY DEF Lists
<1>3. Pairs(c, d) = [i \in 1..Len(c) |-> <<c[i], d[i]>>]
      BY <1>1 DEF Pairs
<1> QED
      BY <1>1, <1>2, <1>3

\* The status update leaves the work alone.
LEMMA StatusWork ==
    ASSUME NEW phase, NEW reason, NEW addrs, NEW next, SameWork(next) \/ NoWork(next),
           SyncType(next), updateRedisClusterStatus(phase, reason, addrs, next)
    PROVE  SameWork(s') \/ NoWork(s')
<1>1. s' = Idle \/ s' = next \/ s' = [next EXCEPT !.rc = cr']
      BY Zenon DEF updateRedisClusterStatus
<1>2. CASE s' = [next EXCEPT !.rc = cr']
  <2>1. /\ s'.eps = next.eps /\ s'.todoM = next.todoM /\ s'.todoS = next.todoS
        /\ s'.masters = next.masters /\ s'.pc = next.pc
        BY <1>2, IdleFields DEF SyncType
  <2> QED
        BY <2>1 DEF SameWork, NoWork
<1> QED
      BY <1>1, <1>2, IdleWork

LEMMA ReturnWork ==
    ASSUME NEW phase, NEW reason, NEW addrs, Return(phase, reason, addrs)
    PROVE  SameWork(s') \/ NoWork(s')
BY IdleWork, IdleType, StatusWork DEF Return

LEMMA FailWork ==
    ASSUME TypeOK, Fail
    PROVE  SameWork(s')
BY SyncFields DEF Fail, SameWork

\* The actions that leave the work as it is or end it.
LEMMA OtherWork ==
    ASSUME TypeOK,
           \/ UpdateCreating \/ ApplyStatefulSet \/ RefuseUpgrade \/ UpdateScaling
           \/ ScaleStatefulSet \/ ProbeCluster \/ CreateNodes \/ UpdateUpgrading
           \/ VerifyNodes \/ UpdateRunning \/ ReportFailure
    PROVE  SameWork(s') \/ NoWork(s')
<1>1. DOMAIN s = {"pc", "job", "rc", "fresh", "stsSeen", "eps", "old", "exist",
                  "masters", "todoM", "todoS"}
      BY SyncFields
<1>2. \A pc : pc # "addMasters" => SameWork([s EXCEPT !.pc = pc])
      BY <1>1 DEF SameWork
<1>3. s.job \in Jobs /\ Belongs(s.pc, s.job)
      BY DEF TypeOK, SyncType
<1>4. CASE UpdateCreating
  <2>1. \/ updateRedisClusterStatus("Creating", FALSE, <<>>, [s EXCEPT !.pc = "apply"])
        \/ s' = Idle
        BY <1>4 DEF UpdateCreating
  <2>2. SyncType([s EXCEPT !.pc = "apply"])
        BY <1>3, <1>4, NextStep DEF UpdateCreating, Belongs, Steps, Goes, Quiet
  <2> QED
        BY <1>2, <2>1, <2>2, StatusWork, IdleWork
<1>5. CASE ApplyStatefulSet
  <2>1. s' = Idle \/ s' = [s EXCEPT !.pc = "wait"]
        BY <1>5 DEF ApplyStatefulSet
  <2> QED
        BY <1>2, <2>1, IdleWork
<1>6. CASE RefuseUpgrade
  <2>1. (\E p \in ready : Return("Running", TRUE, <<p>>)) \/ s' = Idle
        BY <1>6 DEF RefuseUpgrade
  <2> QED
        BY <2>1, ReturnWork, IdleWork
<1>7. CASE UpdateScaling
  <2> DEFINE t == [s EXCEPT !.pc = "applyScale", !.old = Addresses]
  <2>1. \/ updateRedisClusterStatus("Scaling", FALSE, <<>>, t)
        \/ s' = Idle \/ Return("Failed", TRUE, <<>>) \/ Return("Scaling", FALSE, <<>>)
        BY <1>7 DEF UpdateScaling
  <2>2. SyncType(t)
        BY <1>7, ScalingGoes DEF UpdateScaling, Goes
  <2>3. SameWork(t)
        BY <1>1 DEF SameWork
  <2> HIDE DEF t
  <2> QED
        BY <2>1, <2>2, <2>3, StatusWork, ReturnWork, IdleWork
<1>8. CASE ScaleStatefulSet
  <2>1. s' = Idle \/ s' = [s EXCEPT !.pc = "wait"]
        BY <1>8 DEF ScaleStatefulSet
  <2> QED
        BY <1>2, <2>1, IdleWork
<1>9. CASE ProbeCluster
  <2>1. s' = Idle \/ Return("Failed", TRUE, Addresses) \/ Return("Running", FALSE, Addresses)
        BY <1>9 DEF ProbeCluster
  <2> QED
        BY <2>1, ReturnWork, IdleWork
<1>10. CASE CreateNodes
  <2>1. Fail \/ s' = [s EXCEPT !.pc = "addSlaves"]
        BY <1>10 DEF CreateNodes
  <2> QED
        BY <1>2, <2>1, FailWork
<1>11. CASE UpdateUpgrading
  <2> DEFINE t == [s EXCEPT !.pc = "plan", !.exist = currentRedisClusterInfo]
             next == IF s.rc.strategy.type = "Other" THEN Idle ELSE t
  <2>1. updateRedisClusterStatus("Upgrading", FALSE, <<>>, next) \/ s' = Idle
        BY <1>11 DEF UpdateUpgrading
  <2>2. SameWork(t) /\ DOMAIN t = DOMAIN s /\ t.pc = "plan" /\ t.job = s.job /\ t.rc = s.rc
        /\ t.fresh = s.fresh /\ t.stsSeen = s.stsSeen
        BY <1>1 DEF SameWork
  <2> HIDE DEF t
  <2>3. SyncType(t)
        BY <1>3, <1>11, <2>2 DEF TypeOK, SyncType, Quiet, Steps, Belongs, UpdateUpgrading
  <2>4. SyncType(next) /\ (SameWork(next) \/ NoWork(next))
        BY <2>2, <2>3, IdleType, IdleWork
  <2> HIDE DEF next
  <2> QED
        BY <2>1, <2>4, StatusWork, IdleWork
<1>12. CASE VerifyNodes
  <2>1. Fail \/ s' = [s EXCEPT !.pc = "finish"] \/ s' = Idle
        BY <1>12 DEF VerifyNodes
  <2> QED
        BY <1>2, <2>1, FailWork, IdleWork
<1>13. CASE UpdateRunning
  <2>1. Return("Running", FALSE, s.eps) \/ s' = Idle
        BY <1>13 DEF UpdateRunning
  <2> QED
        BY <2>1, ReturnWork, IdleWork
<1>14. CASE ReportFailure
  <2>1. Return("Failed", TRUE, s.eps) \/ Return("Running", TRUE, s.eps) \/ s' = Idle
        BY <1>14 DEF ReportFailure
  <2> QED
        BY <2>1, ReturnWork, IdleWork
<1> QED
      BY <1>4, <1>5, <1>6, <1>7, <1>8, <1>9, <1>10, <1>11, <1>12, <1>13, <1>14

\* The steps around the slots: the instances to add stay as they are.
LEMMA AlongWork ==
    ASSUME NEW U, WorkIn(s, U), NEW t, Along(t)
    PROVE  WorkIn(t, U)
<1>1. t.todoM \in Seq(Pods)
  <2>1. s.todoM \in Seq(Pods) /\ s.masters \in Seq(Pods)
        BY DEF WorkIn
  <2>2. s.todoM # <<>> => Tail(s.todoM) \in Seq(Pods)
        BY <2>1
  <2> QED
        BY <2>1, <2>2 DEF Along
<1> QED
      BY <1>1 DEF Along, WorkIn

\* The slaves are in U and go to different masters of Q.
Assigned(todo, U, Q) ==
    /\ todo \in Seq(U \X Q)
    /\ \A i, j \in 1..Len(todo) : todo[i][2] = todo[j][2] => i = j

LEMMA PairsAssigned ==
    ASSUME NEW c, NEW S, Lists(c, S), NEW d, NEW M, Lists(d, M), Len(c) = Len(d),
           NEW U, S \subseteq U
    PROVE  Assigned(Pairs(c, d), U, M)
<1> DEFINE todo == Pairs(c, d)
<1>1. /\ todo \in Seq(S \X M) /\ Len(todo) = Len(c)
      /\ \A i \in 1..Len(c) : todo[i] = <<c[i], d[i]>>
      BY PairsType
<1> HIDE DEF todo
<1>2. /\ todo \in Seq(S \X M) /\ Len(todo) \in Nat /\ Len(todo) = Len(d)
      /\ \A i \in 1..Len(todo) : todo[i] = <<c[i], d[i]>>
      BY <1>1
<1>3. \A i \in 1..Len(todo) : todo[i] \in U \X M
      BY <1>2
<1>4. todo \in Seq(U \X M)
      BY <1>2, <1>3
<1>5. \A i, j \in 1..Len(todo) : todo[i][2] = todo[j][2] => i = j
  <2>1. \A i \in 1..Len(todo) : todo[i][2] = d[i]
        BY <1>2
  <2>2. \A i, j \in 1..Len(todo) : d[i] = d[j] => i = j
        BY <1>2 DEF Lists
  <2> QED
        BY <2>1, <2>2
<1> QED
      BY <1>4, <1>5 DEF Assigned, todo

\* What CreateCluster leaves to be done.
Creates(U) ==
    \E N \in SUBSET U :
       /\ N = ToSet(assignMasterSlaveIP(s.eps, NodeOf).masters) /\ \A p \in N : clu[p] = 0
       /\ s'.pc = "createNodes" /\ s'.eps = s.eps /\ s'.todoM = s.todoM
       /\ Lists(s'.masters, N) /\ Assigned(s'.todoS, U, N) /\ parent' = parent

LEMMA CreateWork ==
    ASSUME TypeOK, NEW U, U \subseteq Pods, WorkIn(s, U), CreateCluster
    PROVE  Fail \/ Creates(U)
<1> DEFINE a == assignMasterSlaveIP(s.eps, NodeOf)
           N == ToSet(a.masters)
<1>1. \/ Fail
      \/ /\ TribAccepts(a.masters) /\ UNCHANGED parent
         /\ s' = [s EXCEPT !.pc = "createNodes", !.exist = Head(a.masters),
                           !.masters = a.masters, !.todoS = Pairs(a.slaves, a.masters)]
      BY Zenon DEF CreateCluster
<1>2. PICK X \in SUBSET U : Lists(s.eps, X)
      BY DEF WorkIn
<1>3. \A x \in X : NodeOf[x] \in Int
      BY ReconcileAssumption
<1>4. NewPlan(a, X, Len(s.eps) \div 2)
      BY <1>2, <1>3, assignResult
<1>5. TribAccepts(a.masters) => \A p \in N : clu[p] = 0
      BY Zenon DEF TribAccepts
<1> HIDE DEF a
<1>6. PICK M \in SUBSET X : \E S \in SUBSET (X \ M) :
         /\ Lists(a.masters, M) /\ Lists(a.slaves, S) /\ Len(a.slaves) = Len(a.masters)
      BY <1>4 DEF NewPlan
<1>7. PICK S \in SUBSET (X \ M) : Lists(a.slaves, S) /\ Len(a.slaves) = Len(a.masters)
      BY <1>6
<1>8. Lists(a.masters, M) /\ M \in SUBSET U /\ S \subseteq U /\ N = M
      BY <1>6, <1>7, ListsToSet
<1>9. Assigned(Pairs(a.slaves, a.masters), U, M)
      BY <1>7, <1>8, PairsAssigned
<1>10. CASE /\ TribAccepts(a.masters) /\ UNCHANGED parent
            /\ s' = [s EXCEPT !.pc = "createNodes", !.exist = Head(a.masters),
                              !.masters = a.masters, !.todoS = Pairs(a.slaves, a.masters)]
  <2>1. /\ s'.pc = "createNodes" /\ s'.eps = s.eps /\ s'.todoM = s.todoM
        /\ s'.masters = a.masters /\ s'.todoS = Pairs(a.slaves, a.masters)
        BY <1>10, SyncFields
  <2>2. \A p \in N : clu[p] = 0
        BY <1>5, <1>10
  <2> HIDE DEF N
  <2>3. N \in SUBSET U /\ Lists(s'.masters, N) /\ Assigned(s'.todoS, U, N) /\ parent' = parent
        BY <1>8, <1>9, <1>10, <2>1
  <2> QED
        BY <2>1, <2>2, <2>3, Zenon DEF Creates, N, a
<1> QED
      BY <1>1, <1>10

\* What PlanAdditions leaves to be done: new masters M, outside the cluster, and
\* slaves for them or for masters of the cluster that have none.
Having == {parent[q] : q \in Slaves(s.exist)}
Plans(U) ==
    \E M \in SUBSET U : \E Q \in SUBSET ((Masters(s.exist) \cup M) \ Having) :
       /\ s'.pc = "addMasters" /\ s'.eps = s.eps /\ s'.todoM = s'.masters
       /\ Lists(s'.masters, M) /\ Assigned(s'.todoS, U, Q)

LEMMA PlanWork ==
    ASSUME TypeOK, NEW U, U \subseteq Pods, WorkIn(s, U), PlanAdditions
    PROVE  Fail \/ s' \in {Idle, [Idle EXCEPT !.pc = "hung"]} \/ Plans(U)
<1> DEFINE plan == composeMasterSlaveIP(s.eps, NodeOf, Masters(s.exist), Slaves(s.exist), Having)
           t == [s EXCEPT !.pc = "addMasters", !.masters = plan.masters,
                          !.todoM = plan.masters, !.todoS = Pairs(plan.slaves, plan.parents)]
<1>1. PICK X \in SUBSET U : Lists(s.eps, X)
      BY DEF WorkIn
<1>2. \A x \in X : NodeOf[x] \in Int
      BY ReconcileAssumption
<1>3. IsFiniteSet(Masters(s.exist))
  <2>1. Masters(s.exist) \subseteq Pods
        BY DEF Masters, Cluster
  <2> QED
        BY <2>1, PodsBySize, FS_Subset
<1>4. /\ plan.result \in {"plan", "hang", "panic"}
      /\ SoundPlan(plan, Masters(s.exist), Having, X \ (Masters(s.exist) \cup Slaves(s.exist)))
      BY <1>1, <1>2, <1>3, composeSound, Zenon
<1>5. Fail \/ s' \in {Idle, [Idle EXCEPT !.pc = "hung"]} \/ s' = t
      BY <1>4 DEF PlanAdditions, Having
<1> HIDE DEF plan
<1>6. PICK M \in SUBSET X : \E S \in SUBSET X : \E Q \in SUBSET ((Masters(s.exist) \cup M) \ Having) :
         /\ Lists(plan.masters, M) /\ Lists(plan.slaves, S)
         /\ Lists(plan.parents, Q) /\ Len(plan.parents) = Len(plan.slaves)
      BY <1>4 DEF SoundPlan
<1>7. PICK S \in SUBSET X : \E Q \in SUBSET ((Masters(s.exist) \cup M) \ Having) :
         /\ Lists(plan.masters, M) /\ Lists(plan.slaves, S)
         /\ Lists(plan.parents, Q) /\ Len(plan.parents) = Len(plan.slaves)
      BY <1>6
<1>8. PICK Q \in SUBSET ((Masters(s.exist) \cup M) \ Having) :
         /\ Lists(plan.masters, M) /\ Lists(plan.slaves, S)
         /\ Lists(plan.parents, Q) /\ Len(plan.parents) = Len(plan.slaves)
      BY <1>7
<1>9. Assigned(Pairs(plan.slaves, plan.parents), U, Q)
      BY <1>8, PairsAssigned
<1>10. CASE s' = t
  <2>1. /\ s'.pc = "addMasters" /\ s'.eps = s.eps /\ s'.todoM = s'.masters
        /\ s'.masters = plan.masters /\ s'.todoS = Pairs(plan.slaves, plan.parents)
        BY <1>10, SyncFields
  <2>2. M \in SUBSET U
        BY <1>1
  <2> QED
        BY <1>8, <1>9, <2>1, <2>2, Zenon DEF Plans
<1> QED
      BY <1>5, <1>10

\* A sync works only with instances that were ready when it read them.
LEMMA WorkStep ==
    ASSUME TypeOK, SyncStep, NEW U, U \subseteq Pods, ready \subseteq U, WorkIn(s, U)
    PROVE  WorkIn(s', U)
<1>1. DOMAIN s = {"pc", "job", "rc", "fresh", "stsSeen", "eps", "old", "exist",
                  "masters", "todoM", "todoS"}
      BY SyncFields
<1>2. /\ s.todoM \in Seq(Pods) /\ (s.pc = "addMasters" => s.todoM \in Seq(U))
      /\ s.todoS \in Seq(U \X Pods) /\ s.masters \in Seq(Pods)
      /\ \E X \in SUBSET U : Lists(s.eps, X)
      BY DEF WorkIn
<1>3. Fail => WorkIn(s', U)
      BY FailWork, SimpleWork
<1>4. CASE WaitPodsReady
  <2> DEFINE pc == CASE s.job = "create" -> "trib"
                     [] s.job = "check" -> "classify"
                     [] s.job = "upgrade" -> "upgrading"
  <2>1. Fail \/ s' = Idle \/ s' = [s EXCEPT !.eps = Addresses, !.pc = pc]
        BY <1>4, Zenon DEF WaitPodsReady
  <2>2. pc # "addMasters"
        BY <1>4 DEF WaitPodsReady, TypeOK, SyncType, Belongs
  <2> HIDE DEF pc
  <2>3. CASE s' = [s EXCEPT !.eps = Addresses, !.pc = pc]
    <3>1. /\ s'.eps = Addresses /\ s'.todoM = s.todoM /\ s'.todoS = s.todoS
          /\ s'.masters = s.masters /\ s'.pc # "addMasters"
          BY <1>1, <2>2, <2>3
    <3>2. Lists(s'.eps, ready)
          BY <3>1, AddressesList
    <3> QED
          BY <1>2, <3>1, <3>2 DEF WorkIn
  <2> QED
        BY <1>3, <2>1, <2>3, SimpleWork, IdleWork
<1>5. CASE Classify
  <2> DEFINE Goal == {"wait", "plan"}
  <2>1. \/ Fail \/ s' = Idle
        \/ \E pc \in Goal : \E job, old :
              s' = [s EXCEPT !.job = job, !.pc = pc, !.eps = <<>>, !.old = old]
        \/ \E pc \in Goal : \E job : s' = [s EXCEPT !.job = job, !.pc = pc, !.eps = <<>>]
        \/ \E pc \in Goal : \E job, exist : s' = [s EXCEPT !.job = job, !.pc = pc, !.exist = exist]
    <3> DEFINE subLen == Len(s.eps) - Cardinality(s.rc.status.conds)
               again(pc, job) == [s EXCEPT !.job = job, !.pc = pc, !.eps = <<>>]
               upgrade(pc, job, old) == [s EXCEPT !.job = job, !.pc = pc, !.eps = <<>>, !.old = old]
               repair(pc, job, exist) == [s EXCEPT !.job = job, !.pc = pc, !.exist = exist]
               one == Head(getIsClusteredAndOnlyKnownSelfAddress(s.eps).clustered)
               old == SubSeq(s.eps, 1, subLen)
    <3>1. \/ Fail \/ s' = Idle \/ s' = again("wait", "create") \/ s' = upgrade("wait", "upgrade", old)
          \/ s' = repair("plan", "repairCreate", one) \/ s' = repair("plan", "repairUpgrade", one)
          BY <1>5 DEF Classify
    <3> HIDE DEF again, upgrade, repair, one, old
    <3>2. \/ Fail \/ s' = Idle \/ (\E pc \in Goal : \E job, o : s' = upgrade(pc, job, o))
          \/ (\E pc \in Goal : \E job : s' = again(pc, job))
          \/ (\E pc \in Goal : \E job, e : s' = repair(pc, job, e))
          BY <3>1
    <3> QED
          BY <3>2, Zenon DEF again, upgrade, repair
  <2>2. ASSUME s'.todoM = s.todoM, s'.todoS = s.todoS, s'.masters = s.masters,
               s'.eps = s.eps \/ s'.eps = <<>>, s'.pc # "addMasters"
        PROVE  WorkIn(s', U)
        BY <1>2, <2>2, ListsEmpty DEF WorkIn
  <2>3. ASSUME NEW pc \in Goal, NEW job, NEW old,
               s' = [s EXCEPT !.job = job, !.pc = pc, !.eps = <<>>, !.old = old]
        PROVE  WorkIn(s', U)
        BY <1>1, <2>2, <2>3
  <2>4. ASSUME NEW pc \in Goal, NEW job, s' = [s EXCEPT !.job = job, !.pc = pc, !.eps = <<>>]
        PROVE  WorkIn(s', U)
        BY <1>1, <2>2, <2>4
  <2>5. ASSUME NEW pc \in Goal, NEW job, NEW exist,
               s' = [s EXCEPT !.job = job, !.pc = pc, !.exist = exist]
        PROVE  WorkIn(s', U)
        BY <1>1, <2>2, <2>5
  <2> QED
        BY <1>3, <2>1, <2>3, <2>4, <2>5, SimpleWork, IdleWork
<1>6. ASSUME NEW Q, Q \subseteq Pods, NEW todo, Assigned(todo, U, Q) PROVE todo \in Seq(U \X Pods)
  <2>1. todo \in Seq(U \X Q)
        BY <1>6 DEF Assigned
  <2>2. \A i \in 1..Len(todo) : todo[i] \in U \X Pods
        BY <1>6, <2>1
  <2> QED
        BY <2>1, <2>2
<1>7. ASSUME NEW M, NEW V, M \subseteq V, NEW l, Lists(l, M) PROVE l \in Seq(V)
      BY <1>7 DEF Lists
<1>8. CASE CreateCluster
  <2>1. Fail \/ Creates(U)
        BY <1>8, CreateWork
  <2>2. CASE Creates(U)
    <3>1. PICK N \in SUBSET U : /\ s'.eps = s.eps /\ s'.todoM = s.todoM
                                /\ s'.pc = "createNodes" /\ Lists(s'.masters, N) /\ Assigned(s'.todoS, U, N)
          BY <2>2 DEF Creates
    <3>2. s'.todoS \in Seq(U \X Pods) /\ s'.masters \in Seq(Pods)
          BY <1>6, <1>7, <3>1
    <3> QED
          BY <1>2, <3>1, <3>2 DEF WorkIn
  <2> QED
        BY <1>3, <2>1, <2>2
<1>9. CASE PlanAdditions
  <2>1. Fail \/ s' \in {Idle, [Idle EXCEPT !.pc = "hung"]} \/ Plans(U)
        BY <1>9, PlanWork
  <2>2. CASE Plans(U)
    <3>1. PICK M \in SUBSET U : \E Q \in SUBSET ((Masters(s.exist) \cup M) \ Having) :
             /\ s'.eps = s.eps /\ s'.todoM = s'.masters
             /\ Lists(s'.masters, M) /\ Assigned(s'.todoS, U, Q)
          BY <2>2 DEF Plans
    <3>2. PICK Q \in SUBSET ((Masters(s.exist) \cup M) \ Having) : Assigned(s'.todoS, U, Q)
          BY <3>1
    <3>3. Q \subseteq Pods
          BY DEF Masters, Cluster
    <3>4. s'.todoS \in Seq(U \X Pods) /\ s'.masters \in Seq(Pods) /\ s'.todoM \in Seq(U)
          /\ s'.todoM \in Seq(Pods)
          BY <1>6, <1>7, <3>1, <3>2, <3>3
    <3> QED
          BY <1>2, <3>1, <3>4 DEF WorkIn
  <2> QED
        BY <1>3, <2>1, <2>2, SimpleWork, IdleWork
<1>10. CASE AddMaster
  <2>1. (Fail \/ s' = [s EXCEPT !.todoM = Tail(@)]) /\ s.todoM # <<>> /\ s.pc = "addMasters"
        BY <1>10 DEF AddMaster
  <2>2. CASE s' = [s EXCEPT !.todoM = Tail(@)]
    <3>1. /\ s'.eps = s.eps /\ s'.todoM = Tail(s.todoM) /\ s'.todoS = s.todoS
          /\ s'.masters = s.masters
          BY <1>1, <2>2
    <3>2. Tail(s.todoM) \in Seq(U) /\ Tail(s.todoM) \in Seq(Pods)
          BY <1>2, <2>1
    <3> QED
          BY <1>2, <3>1, <3>2 DEF WorkIn
  <2> QED
        BY <1>3, <2>1, <2>2
<1>11. CASE AddSlave
  <2>1. (Fail \/ s' = [s EXCEPT !.todoS = Tail(@)]) /\ s.todoS # <<>> /\ s.pc = "addSlaves"
        BY <1>11 DEF AddSlave
  <2>2. CASE s' = [s EXCEPT !.todoS = Tail(@)]
    <3>1. /\ s'.eps = s.eps /\ s'.todoS = Tail(s.todoS) /\ s'.todoM = s.todoM
          /\ s'.masters = s.masters /\ s'.pc = "addSlaves"
          BY <1>1, <2>1, <2>2
    <3>2. Tail(s.todoS) \in Seq(U \X Pods)
          BY <1>2, <2>1
    <3> QED
          BY <1>2, <3>1, <3>2 DEF WorkIn
  <2> QED
        BY <1>3, <2>1, <2>2
<1>12. CASE NodesAfterMasters
  <2> DEFINE todo(ids) == [i \in DOMAIN s.todoS |-> <<s.todoS[i][1], ids[i]>>]
  <2>1. \/ Fail \/ s' = [s EXCEPT !.pc = "addSlaves"]
        \/ /\ Len(s.todoS) = Len(s.masters)
           /\ \E ids \in NewMasterNodes :
                 s' = [s EXCEPT !.pc = "addSlaves", !.masters = ids, !.todoS = todo(ids)]
        BY <1>12 DEF NodesAfterMasters
  <2>2. ASSUME NEW ids \in NewMasterNodes, Len(s.todoS) = Len(s.masters),
               s' = [s EXCEPT !.pc = "addSlaves", !.masters = ids, !.todoS = todo(ids)]
        PROVE  WorkIn(s', U)
    <3>1. /\ s'.eps = s.eps /\ s'.todoS = todo(ids) /\ s'.todoM = s.todoM /\ s'.masters = ids
          /\ s'.pc = "addSlaves"
          BY <1>1, <2>2
    <3>2. ids \in [DOMAIN s.masters -> Pods]
          BY DEF NewMasterNodes, Cluster
    <3>3. ids \in Seq(Pods)
          BY <1>2, <3>2
    <3>4. \A i \in DOMAIN s.todoS : <<s.todoS[i][1], ids[i]>> \in U \X Pods
          BY <1>2, <2>2, <3>2
    <3>5. todo(ids) \in Seq(U \X Pods)
      <4> DEFINE d == todo(ids)
      <4>1. DOMAIN s.todoS = 1..Len(s.todoS) /\ Len(s.todoS) \in Nat
            BY <1>2
      <4>2. d \in [1..Len(s.todoS) -> U \X Pods]
            BY <3>4, <4>1, Zenon
      <4> HIDE DEF d
      <4>3. d \in Seq(U \X Pods)
            BY <4>1, <4>2
      <4> QED
            BY <4>3 DEF d
    <3> QED
          BY <1>2, <3>1, <3>3, <3>5 DEF WorkIn
  <2>3. SameWork([s EXCEPT !.pc = "addSlaves"])
        BY <1>1 DEF SameWork
  <2> QED
        BY <1>3, <2>1, <2>2, <2>3, SimpleWork
<1>13. CASE GivesSlots
      BY <1>3, <1>13, SlotSteps, AlongWork, SimpleWork, IdleWork
<1> QED
      BY <1>4, <1>5, <1>8, <1>9, <1>10, <1>11, <1>12, <1>13, OtherWork, SimpleWork
      DEF SyncStep, GivesSlots

\* Only instances that a sync works with join a cluster.
LEMMA NewMembers ==
    ASSUME TypeOK, SyncStep, NEW U, U \subseteq Pods, WorkIn(s, U)
    PROVE  \A p \in Pods : clu'[p] # 0 => clu[p] # 0 \/ p \in U
<1>1. CASE clu' = clu /\ parent' = parent
      BY <1>1
<1>2. CASE Founded
  <2> DEFINE a == assignMasterSlaveIP(s.eps, NodeOf)
  <2>1. PICK X \in SUBSET U : Lists(s.eps, X)
        BY DEF WorkIn
  <2>2. \A x \in X : NodeOf[x] \in Int
        BY ReconcileAssumption
  <2>3. NewPlan(a, X, Len(s.eps) \div 2)
        BY <2>1, <2>2, assignResult
  <2> HIDE DEF a
  <2>4. ToSet(a.masters) \subseteq U
        BY <2>3, ListsToSet DEF NewPlan
  <2>5. clu' = [p \in Pods |-> IF p \in ToSet(a.masters) THEN NewCluster ELSE clu[p]]
        BY <1>2, Zenon DEF Founded, a
  <2> QED
        BY <2>4, <2>5
<1>3. ASSUME NEW q, NEW m, Grew(q, m)
      PROVE  \A p \in Pods : clu'[p] # 0 => clu[p] # 0 \/ p \in U
  <2>1. s.todoS \in Seq(U \X Pods) /\ (s.pc = "addMasters" => s.todoM \in Seq(U))
        BY DEF WorkIn
  <2>2. q \in U
    <3>1. s.pc = "addMasters" /\ s.todoM # <<>> => Head(s.todoM) \in U
          BY <2>1
    <3>2. s.todoS # <<>> => Head(s.todoS) \in U \X Pods
          BY <2>1
    <3>3. s.todoS # <<>> => Head(s.todoS)[1] \in U
          BY <3>2
    <3> QED
          BY <1>3, <3>1, <3>3 DEF Grew
  <2>3. clu' = [clu EXCEPT ![q] = clu[s.exist]] /\ DOMAIN clu = Pods
        BY <1>3 DEF Grew, TypeOK
  <2> QED
        BY <2>2, <2>3
<1> QED
      BY <1>1, <1>2, <1>3, RedisStep
-----------------------------------------------------------------------------
(***************************************************************************)
(* The StatefulSet is not shrunk.  Without edits to fewer instances every  *)
(* copy of the RedisCluster asks for at least as many as there are.        *)
(***************************************************************************)
SizeInv ==
    /\ \A p \in Pods : clu[p] # 0 => p \in 1..sts.spec
    /\ sts.spec <= crCache.replicas /\ crCache.replicas <= cr.replicas
    /\ cacheFresh => crCache.replicas = cr.replicas
    /\ ~Quiet(s) => /\ sts.spec <= s.rc.replicas /\ s.rc.replicas <= crCache.replicas
                    /\ s.fresh => s.rc.replicas = cr.replicas
    /\ WorkIn(s, 1..sts.spec)

\* Sizes are numbers of instances.
LEMMA SizeTypes ==
    ASSUME TypeOK
    PROVE  /\ sts.spec \in Nat /\ 1..sts.spec \subseteq Pods /\ cr.replicas \in Nat
           /\ crCache.replicas \in Nat /\ (~Quiet(s) => s.rc.replicas \in Nat)
<1>1. /\ sts.spec \in {0} \cup Sizes
      BY StatefulSetParts DEF TypeOK
<1>2. cr.replicas \in Sizes /\ crCache.replicas \in Sizes
      BY DEF TypeOK, RedisClusters
<1>3. ~Quiet(s) => s.rc.replicas \in Sizes
      BY DEF TypeOK, SyncType, RedisClusters
<1> QED
      BY <1>1, <1>2, <1>3, PodsBySize

LEMMA SizeInvStep ==
    ASSUME ~ScaleIn, TypeOK, TypeOK', SizeInv, [Next]_vars
    PROVE  SizeInv'
<1>1. /\ sts.spec \in Nat /\ 1..sts.spec \subseteq Pods /\ cr.replicas \in Nat
      /\ crCache.replicas \in Nat /\ (~Quiet(s) => s.rc.replicas \in Nat)
      BY SizeTypes
<1>2. /\ \A p \in Pods : clu[p] # 0 => p \in 1..sts.spec
      /\ sts.spec <= crCache.replicas /\ crCache.replicas <= cr.replicas
      /\ cacheFresh => crCache.replicas = cr.replicas
      /\ ~Quiet(s) => /\ sts.spec <= s.rc.replicas /\ s.rc.replicas <= crCache.replicas
                      /\ s.fresh => s.rc.replicas = cr.replicas
      /\ WorkIn(s, 1..sts.spec)
      BY DEF SizeInv
<1>3. ready \subseteq 1..sts.spec /\ sts \in StatefulSets
      BY DEF TypeOK
<1>4. ASSUME \A p \in Pods : clu'[p] # 0 => p \in 1..sts'.spec,
             sts'.spec <= crCache'.replicas, crCache'.replicas <= cr'.replicas,
             cacheFresh' => crCache'.replicas = cr'.replicas,
             ~Quiet(s') => /\ sts'.spec <= s'.rc.replicas /\ s'.rc.replicas <= crCache'.replicas
                           /\ s'.fresh => s'.rc.replicas = cr'.replicas,
             WorkIn(s', 1..sts'.spec)
      PROVE  SizeInv'
      BY <1>4 DEF SizeInv, WorkIn, Quiet
<1>5. CASE SyncStep
  <2>1. ~Quiet(s) /\ (Kept \/ Wrote)
        BY <1>5, SyncMoves DEF Moves
  <2>2. /\ cr'.replicas = cr.replicas /\ crCache' = crCache
        /\ cacheFresh' = cacheFresh \/ cacheFresh' = FALSE
        /\ Quiet(s') \/ (s'.rc.replicas = s.rc.replicas /\ s'.fresh = s.fresh)
    <3>1. CASE Kept
          BY <3>1 DEF Kept
    <3>2. CASE Wrote
      <4>1. cr'.replicas = cr.replicas
            BY <3>2, StatusType DEF Wrote, TypeOK
      <4> QED
            BY <1>2, <2>1, <3>2, <4>1 DEF Wrote
    <3> QED
          BY <2>1, <3>1, <3>2
  <2>3. sts'.spec = sts.spec \/ sts'.spec = s.rc.replicas
    <3>1. s.rc.replicas \in {0} \cup Sizes
          BY <2>1 DEF TypeOK, SyncType, RedisClusters
    <3>2. sts' = sts \/ sts' = [sts EXCEPT !.spec = s.rc.replicas]
          BY <1>5, StsStep DEF Resized
    <3>3. [sts EXCEPT !.spec = s.rc.replicas].spec = s.rc.replicas
          BY <1>3, <3>1, StatefulSetParts, Zenon
    <3> QED
          BY <3>2, <3>3
  <2>4. 1..sts.spec \subseteq 1..sts'.spec
        BY <1>1, <1>2, <2>1, <2>3
  <2>5. WorkIn(s', 1..sts.spec)
        BY <1>1, <1>2, <1>3, <1>5, WorkStep
  <2>6. WorkIn(s', 1..sts'.spec)
        BY <2>4, <2>5, WorkGrows
  <2>7. \A p \in Pods : clu'[p] # 0 => p \in 1..sts'.spec
    <3>1. \A p \in Pods : clu'[p] # 0 => clu[p] # 0 \/ p \in 1..sts.spec
          BY <1>1, <1>2, <1>5, NewMembers
    <3> QED
          BY <1>2, <2>4, <3>1
  <2>8. /\ sts'.spec <= crCache'.replicas /\ crCache'.replicas <= cr'.replicas
        /\ cacheFresh' => crCache'.replicas = cr'.replicas
        BY <1>1, <1>2, <2>1, <2>2, <2>3
  <2>9. ~Quiet(s') => /\ sts'.spec <= s'.rc.replicas /\ s'.rc.replicas <= crCache'.replicas
                      /\ s'.fresh => s'.rc.replicas = cr'.replicas
        BY <1>1, <1>2, <2>1, <2>2, <2>3
  <2> QED
        BY <1>4, <2>6, <2>7, <2>8, <2>9
<1>6. CASE StartSync
  <2>1. /\ cr' = cr /\ crCache' = crCache /\ cacheFresh' = cacheFresh /\ sts' = sts
        /\ clu' = clu
        BY <1>6 DEF StartSync, crVars, stsVars, redisVars
  <2>2. s'.rc = crCache /\ s'.fresh = cacheFresh /\ NoWork(s')
        BY <1>6, BeginType DEF NoWork
  <2>3. WorkIn(s', 1..sts'.spec)
        BY <1>2, <2>1, <2>2, SimpleWork
  <2> QED
        BY <1>1, <1>2, <1>4, <2>1, <2>2, <2>3
<1>7. CASE EditRedisCluster
  <2>1. /\ crCache' = crCache /\ cacheFresh' = FALSE /\ sts' = sts /\ clu' = clu
        BY <1>7 DEF EditRedisCluster, stsVars, redisVars
  <2>2. /\ s'.rc = s.rc /\ s'.fresh = FALSE /\ s'.pc = s.pc /\ SameWork(s')
        /\ cr'.replicas \in Sizes /\ cr'.replicas >= cr.replicas
        BY <1>7, EditType DEF SameWork
  <2>3. WorkIn(s', 1..sts'.spec)
        BY <1>2, <2>1, <2>2, SimpleWork
  <2>4. cr'.replicas \in Nat
        BY <2>2, PodsBySize
  <2> QED
        BY <1>1, <1>2, <1>4, <2>1, <2>2, <2>3, <2>4 DEF Quiet
<1>8. CASE RedisClusterInformed
  <2>1. /\ cr' = cr /\ crCache' = cr /\ sts' = sts /\ clu' = clu /\ s' = s
        BY <1>8 DEF RedisClusterInformed, stsVars, redisVars
  <2> QED
        BY <1>1, <1>2, <1>4, <2>1
<1>9. CASE Restart
  <2>1. /\ cr' = cr /\ crCache' = cr /\ sts' = sts /\ clu' = clu /\ s' = Idle
        BY <1>9 DEF Restart, redisVars
  <2>2. WorkIn(s', 1..sts'.spec)
        BY <1>2, <2>1, SimpleWork, IdleWork
  <2> QED
        BY <1>1, <1>2, <1>4, <2>1, <2>2, IdleType
<1>10. CASE PodsCreated
  <2>1. /\ cr' = cr /\ crCache' = crCache /\ cacheFresh' = cacheFresh /\ s' = s /\ clu' = clu
        BY <1>10 DEF PodsCreated, crVars, redisVars
  <2>2. sts'.spec = sts.spec
        BY <1>3, <1>10, StatefulSetParts DEF PodsCreated
  <2> QED
        BY <1>2, <1>4, <2>1, <2>2
<1>11. CASE \/ UNCHANGED vars \/ StatefulSetInformed \/ PodReady \/ PodUnready
            \/ ClusterBreaks \/ ClusterHeals
  <2>1. /\ cr' = cr /\ crCache' = crCache /\ cacheFresh' = cacheFresh /\ s' = s /\ clu' = clu
        /\ sts' = sts
        BY <1>11 DEF vars, StatefulSetInformed, PodReady, PodUnready, ClusterBreaks,
                     ClusterHeals, crVars, stsVars, redisVars
  <2> QED
        BY <1>2, <1>4, <2>1
<1> QED
      BY <1>5, <1>6, <1>7, <1>8, <1>9, <1>10, <1>11 DEF Next, Environment

LEMMA InitSize == Init => SizeInv
<1> SUFFICES ASSUME Init PROVE SizeInv
    OBVIOUS
<1>1. PICK n \in Sizes, st \in Strategies :
         cr = [replicas |-> n, strategy |-> st, status |-> NoStatus]
      BY DEF Init
<1>2. /\ crCache = cr /\ sts = NoSts /\ s = Idle /\ \A p \in Pods : clu[p] = 0
      BY DEF Init
<1>3. cr.replicas = n /\ n \in Nat /\ sts.spec = 0
      BY <1>1, <1>2, PodsBySize, StatefulSetParts
<1>4. WorkIn(s, 1..sts.spec)
      BY <1>2, IdleFields, ListsEmpty DEF WorkIn
<1> QED
      BY <1>2, <1>3, <1>4, IdleType DEF SizeInv

\* Without edits to fewer instances, the StatefulSet is never shrunk below an
\* instance of the cluster, also by a sync that works from an old copy of the
\* RedisCluster or goes on after the RedisCluster was edited.
THEOREM ClusterAlwaysKeepsItsPods ==
    ASSUME ScaleIn = FALSE
    PROVE  Spec => []ClusterKeepsItsPods
<1>2. SizeInv => ClusterKeepsItsPods
      BY DEF SizeInv, ClusterKeepsItsPods, Joined
<1>3. TypeOK /\ TypeOK' /\ SizeInv /\ [Next]_vars => SizeInv'
      BY SizeInvStep
<1> QED
      BY <1>2, <1>3, InitSize, InitType, StepType, PTL DEF Spec
-----------------------------------------------------------------------------
(***************************************************************************)
(* Every slave has a master of its own.  The inductive invariant adds that *)
(* instances outside a cluster have no master, that a slave is in the      *)
(* cluster of its master, and that the masters a sync has chosen for the   *)
(* slaves it still has to add are different and have no slave, or are yet  *)
(* to be added.                                                            *)
(***************************************************************************)
Structure ==
    /\ \A p \in Pods : clu[p] = 0 => parent[p] = 0
    /\ \A p \in Pods : parent[p] # 0 => clu[parent[p]] = clu[p] /\ parent[parent[p]] = 0
    /\ \A p, q \in Pods : parent[p] = parent[q] /\ parent[p] # 0 => p = q

FreeIn(m, par) == \A q \in Pods : par[q] # m
Promised(m, t, par) ==
    FreeIn(m, par) \/ (t.pc = "addMasters" /\ \E i \in 1..Len(t.todoM) : t.todoM[i] = m)
Adding(t) == t.pc \in {"createNodes", "addMasters", "addSlaves"}
TodoInv(t, par) ==
    /\ Adding(t) => /\ \A i \in 1..Len(t.todoS) : Promised(t.todoS[i][2], t, par)
                    /\ \A i, j \in 1..Len(t.todoS) : t.todoS[i][2] = t.todoS[j][2] => i = j
    /\ t.pc = "addMasters" =>
          /\ \A i \in 1..Len(t.masters) : Promised(t.masters[i], t, par)
          /\ \A i, j \in 1..Len(t.masters) : t.masters[i] = t.masters[j] => i = j

TopoInv == Structure /\ WorkIn(s, Pods) /\ TodoInv(s, parent)

\* An instance outside a cluster has no slave.
LEMMA EmptyIsFree ==
    ASSUME TypeOK, Structure, NEW p \in Pods, clu[p] = 0
    PROVE  FreeIn(p, parent)
<1>1. p # 0
      BY PodsBySize
<1> QED
      BY <1>1 DEF FreeIn, Structure

\* Creation and add-node keep the structure, as long as a new slave goes to a
\* master without one.
LEMMA StructureKept ==
    ASSUME TypeOK, Structure,
           \/ clu' = clu /\ parent' = parent
           \/ Founded
           \/ \E p \in Pods : \E m : Grew(p, m) /\ (m = 0 \/ FreeIn(m, parent))
    PROVE  Structure'
<1>1. DOMAIN clu = Pods /\ parent \in [Pods -> {0} \cup Pods] /\ 0 \notin Pods
      BY PodsBySize DEF TypeOK
<1>2. CASE clu' = clu /\ parent' = parent
      BY <1>2 DEF Structure
<1>3. CASE Founded
  <2>1. PICK N : /\ \A p \in N : clu[p] = 0
                 /\ clu' = [p \in Pods |-> IF p \in N THEN NewCluster ELSE clu[p]]
                 /\ parent' = parent
        BY <1>3 DEF Founded
  <2> DEFINE new == NewCluster
  <2>2. \A p \in Pods : clu'[p] = IF p \in N THEN new ELSE clu[p]
        BY <2>1
  <2> HIDE DEF new
  <2>3. \A p \in Pods : clu'[p] = 0 => parent'[p] = 0
        BY <2>1, <2>2 DEF Structure
  <2>4. \A p \in Pods : parent[p] # 0 => p \notin N /\ parent[p] \notin N /\ parent[p] \in Pods
        BY <1>1, <2>1 DEF Structure
  <2>5. \A p \in Pods : parent'[p] # 0 =>
           clu'[parent'[p]] = clu'[p] /\ parent'[parent'[p]] = 0
        BY <2>1, <2>2, <2>4 DEF Structure
  <2> QED
        BY <2>1, <2>3, <2>5 DEF Structure
<1>4. ASSUME NEW p \in Pods, NEW m, Grew(p, m), m = 0 \/ FreeIn(m, parent)
      PROVE  Structure'
  <2>1. /\ clu[p] = 0 /\ clu[s.exist] # 0 /\ (m = 0 \/ m \in Masters(s.exist))
        /\ clu' = [clu EXCEPT ![p] = clu[s.exist]] /\ parent' = [parent EXCEPT ![p] = m]
        BY <1>4 DEF Grew
  <2> DEFINE c == clu[s.exist]
  <2>2. m # 0 => m \in Pods /\ clu[m] = c /\ parent[m] = 0
        BY <2>1 DEF Masters, Cluster
  <2>3. \A q \in Pods : clu'[q] = (IF q = p THEN c ELSE clu[q])
        BY <1>1, <2>1
  <2>4. \A q \in Pods : parent'[q] = (IF q = p THEN m ELSE parent[q])
        BY <1>1, <2>1
  <2>5. c # 0 /\ FreeIn(p, parent) /\ (m # 0 => m # p)
        BY <2>1, <2>2, EmptyIsFree
  <2> HIDE DEF c
  <2>6. \A q \in Pods : clu'[q] = 0 => parent'[q] = 0
        BY <2>3, <2>4, <2>5 DEF Structure
  <2>7. \A q \in Pods : parent'[q] # 0 => clu'[parent'[q]] = clu'[q] /\ parent'[parent'[q]] = 0
    <3> SUFFICES ASSUME NEW q \in Pods, parent'[q] # 0
                 PROVE  clu'[parent'[q]] = clu'[q] /\ parent'[parent'[q]] = 0
        OBVIOUS
    <3>1. CASE q = p
          BY <2>2, <2>3, <2>4, <2>5, <3>1
    <3>2. CASE q # p
      <4>1. parent'[q] = parent[q] /\ parent[q] # 0 /\ parent[q] \in Pods /\ parent[q] # p
            BY <1>1, <2>4, <2>5, <3>2 DEF FreeIn
      <4> QED
            BY <2>3, <2>4, <3>2, <4>1 DEF Structure
    <3> QED
          BY <3>1, <3>2
  <2>8. \A q, r \in Pods : parent'[q] = parent'[r] /\ parent'[q] # 0 => q = r
        BY <1>4, <2>4 DEF Structure, FreeIn
  <2> QED
        BY <2>6, <2>7, <2>8 DEF Structure
<1> QED
      BY <1>2, <1>3, <1>4

\* The actions after which a sync is not adding.
LEMMA UpdateNotAdding ==
    ASSUME NEW phase, NEW reason, NEW addrs, NEW next, SyncType(next), ~Adding(next),
           updateRedisClusterStatus(phase, reason, addrs, next)
    PROVE  ~Adding(s')
<1>1. s' = Idle \/ s' = next \/ s' = [next EXCEPT !.rc = cr']
      BY Zenon DEF updateRedisClusterStatus
<1>2. ~Adding(Idle)
      BY IdleFields DEF Adding
<1>3. [next EXCEPT !.rc = cr'].pc = next.pc
      BY IdleFields DEF SyncType
<1> QED
      BY <1>1, <1>2, <1>3 DEF Adding

LEMMA ReturnNotAdding ==
    ASSUME NEW phase, NEW reason, NEW addrs, Return(phase, reason, addrs)
    PROVE  ~Adding(s')
<1>1. SyncType(Idle) /\ ~Adding(Idle)
      BY IdleType, IdleFields DEF Adding
<1> QED
      BY <1>1, UpdateNotAdding DEF Return

LEMMA FailNotAdding ==
    ASSUME TypeOK, Fail
    PROVE  ~Adding(s')
BY SyncFields DEF Fail, Adding

LEMMA NotAdding ==
    ASSUME TypeOK,
           \/ UpdateCreating \/ ApplyStatefulSet \/ RefuseUpgrade \/ UpdateScaling
           \/ ScaleStatefulSet \/ ProbeCluster \/ WaitPodsReady \/ Classify \/ UpdateUpgrading
           \/ GivesSlots \/ VerifyNodes \/ UpdateRunning \/ ReportFailure
    PROVE  ~Adding(s')
<1>1. DOMAIN s = {"pc", "job", "rc", "fresh", "stsSeen", "eps", "old", "exist",
                  "masters", "todoM", "todoS"}
      BY SyncFields
<1>2. ~Adding(Idle)
      BY IdleFields DEF Adding
<1>3. \A pc : pc \notin {"createNodes", "addMasters", "addSlaves"} => ~Adding([s EXCEPT !.pc = pc])
      BY <1>1 DEF Adding
<1>4. s.job \in Jobs /\ Belongs(s.pc, s.job)
      BY DEF TypeOK, SyncType
<1>5. CASE UpdateCreating
  <2>1. \/ updateRedisClusterStatus("Creating", FALSE, <<>>, [s EXCEPT !.pc = "apply"])
        \/ s' = Idle
        BY <1>5 DEF UpdateCreating
  <2>2. SyncType([s EXCEPT !.pc = "apply"])
        BY <1>4, <1>5, NextStep DEF UpdateCreating, Belongs, Steps, Goes, Quiet
  <2> QED
        BY <1>2, <1>3, <2>1, <2>2, UpdateNotAdding
<1>6. CASE UpdateScaling
  <2> DEFINE t == [s EXCEPT !.pc = "applyScale", !.old = Addresses]
  <2>1. \/ updateRedisClusterStatus("Scaling", FALSE, <<>>, t)
        \/ s' = Idle \/ Return("Failed", TRUE, <<>>) \/ Return("Scaling", FALSE, <<>>)
        BY <1>6 DEF UpdateScaling
  <2>2. SyncType(t)
        BY <1>6, ScalingGoes DEF UpdateScaling, Goes
  <2>3. ~Adding(t)
        BY <1>1 DEF Adding
  <2> HIDE DEF t
  <2> QED
        BY <1>2, <2>1, <2>2, <2>3, UpdateNotAdding, ReturnNotAdding
<1>7. CASE UpdateUpgrading
  <2> DEFINE t == [s EXCEPT !.pc = "plan", !.exist = currentRedisClusterInfo]
             next == IF s.rc.strategy.type = "Other" THEN Idle ELSE t
  <2>1. updateRedisClusterStatus("Upgrading", FALSE, <<>>, next) \/ s' = Idle
        BY <1>7 DEF UpdateUpgrading
  <2>2. DOMAIN t = DOMAIN s /\ t.pc = "plan" /\ t.job = s.job /\ t.rc = s.rc
        /\ t.fresh = s.fresh /\ t.stsSeen = s.stsSeen
        BY <1>1
  <2> HIDE DEF t
  <2>3. SyncType(t) /\ ~Adding(t)
        BY <1>4, <1>7, <2>2 DEF TypeOK, SyncType, Quiet, Steps, Belongs, Adding, UpdateUpgrading
  <2>4. SyncType(next) /\ ~Adding(next)
        BY <1>2, <2>3, IdleType
  <2> HIDE DEF next
  <2> QED
        BY <1>2, <2>1, <2>4, UpdateNotAdding
<1>8. CASE RefuseUpgrade \/ ProbeCluster \/ UpdateRunning \/ ReportFailure
  <2>1. s' = Idle \/ \E phase, reason, addrs : Return(phase, reason, addrs)
        BY <1>8, Zenon DEF RefuseUpgrade, ProbeCluster, UpdateRunning, ReportFailure
  <2> QED
        BY <1>2, <2>1, ReturnNotAdding
<1>9. CASE ApplyStatefulSet
  <2>1. s' = Idle \/ s' = [s EXCEPT !.pc = "wait"]
        BY <1>9 DEF ApplyStatefulSet
  <2> QED
        BY <1>2, <1>3, <2>1
<1>10. CASE ScaleStatefulSet
  <2>1. s' = Idle \/ s' = [s EXCEPT !.pc = "wait"]
        BY <1>10 DEF ScaleStatefulSet
  <2> QED
        BY <1>2, <1>3, <2>1
<1>11. CASE WaitPodsReady
  <2> DEFINE pc == CASE s.job = "create" -> "trib"
                     [] s.job = "check" -> "classify"
                     [] s.job = "upgrade" -> "upgrading"
  <2>1. Fail \/ s' = Idle \/ s' = [s EXCEPT !.eps = Addresses, !.pc = pc]
        BY <1>11, Zenon DEF WaitPodsReady
  <2>2. pc \in {"trib", "classify", "upgrading"}
        BY <1>4, <1>11 DEF WaitPodsReady, Belongs
  <2> HIDE DEF pc
  <2>3. [s EXCEPT !.eps = Addresses, !.pc = pc].pc = pc
        BY <1>1
  <2> QED
        BY <1>2, <2>1, <2>2, <2>3, FailNotAdding DEF Adding
<1>12. CASE Classify
  <2> DEFINE subLen == Len(s.eps) - Cardinality(s.rc.status.conds)
             again == [s EXCEPT !.job = "create", !.pc = "wait", !.eps = <<>>]
             upgrade == [s EXCEPT !.job = "upgrade", !.pc = "wait", !.eps = <<>>,
                                  !.old = SubSeq(s.eps, 1, subLen)]
             repair(job) == [s EXCEPT !.job = job, !.pc = "plan",
                  !.exist = Head(getIsClusteredAndOnlyKnownSelfAddress(s.eps).clustered)]
  <2>1. \/ Fail
        \/ s' \in {Idle, again, upgrade, repair("repairCreate"), repair("repairUpgrade")}
        BY <1>12 DEF Classify
  <2>2. again.pc = "wait" /\ upgrade.pc = "wait" /\ \A job : repair(job).pc = "plan"
        BY <1>1
  <2> HIDE DEF again, upgrade, repair
  <2> QED
        BY <1>2, <2>1, <2>2, FailNotAdding DEF Adding
<1>13. CASE GivesSlots
      BY <1>2, <1>13, SlotSteps, FailNotAdding DEF Along, Adding
<1>14. CASE VerifyNodes
  <2>1. Fail \/ s' = [s EXCEPT !.pc = "finish"] \/ s' = Idle
        BY <1>14 DEF VerifyNodes
  <2> QED
        BY <1>2, <1>3, <2>1, FailNotAdding
<1> QED
      BY <1>5, <1>6, <1>7, <1>8, <1>9, <1>10, <1>11, <1>12, <1>13, <1>14

LEMMA NoTodo ==
    ASSUME NEW t, NEW par, ~Adding(t)
    PROVE  TodoInv(t, par)
BY DEF TodoInv, Adding

\* What is promised when the sync still has to add masters or has none left.
LEMMA TodoStep ==
    ASSUME Alike = {}, TypeOK, TopoInv, SyncStep
    PROVE  TodoInv(s', parent')
<1>1. DOMAIN s = {"pc", "job", "rc", "fresh", "stsSeen", "eps", "old", "exist",
                  "masters", "todoM", "todoS"}
      BY SyncFields
<1>2. /\ Structure /\ WorkIn(s, Pods) /\ TodoInv(s, parent)
      BY DEF TopoInv
<1>3. /\ s.todoM \in Seq(Pods) /\ s.todoS \in Seq(Pods \X Pods) /\ s.masters \in Seq(Pods)
      /\ 0 \notin Pods /\ parent \in [Pods -> {0} \cup Pods]
      BY <1>2, PodsBySize DEF WorkIn, TypeOK
<1>4. Fail => TodoInv(s', parent')
      BY FailNotAdding, NoTodo
<1>5. CASE CreateCluster
  <2>1. CASE Creates(Pods)
    <3>1. PICK N \in SUBSET Pods :
             /\ \A p \in N : clu[p] = 0
             /\ s'.pc = "createNodes" /\ Assigned(s'.todoS, Pods, N) /\ parent' = parent
          BY <2>1 DEF Creates
    <3>2. \A p \in N : FreeIn(p, parent')
          BY <1>2, <3>1, EmptyIsFree
    <3>3. \A i \in 1..Len(s'.todoS) : s'.todoS[i][2] \in N
      <4>1. s'.todoS \in Seq(Pods \X N)
            BY <3>1 DEF Assigned
      <4>2. \A i \in 1..Len(s'.todoS) : s'.todoS[i] \in Pods \X N
            BY <4>1
      <4> QED
            BY <4>2
    <3>4. \A i \in 1..Len(s'.todoS) : Promised(s'.todoS[i][2], s', parent')
          BY <3>2, <3>3 DEF Promised
    <3>5. \A i, j \in 1..Len(s'.todoS) : s'.todoS[i][2] = s'.todoS[j][2] => i = j
          BY <3>1 DEF Assigned
    <3> QED
          BY <3>1, <3>4, <3>5 DEF TodoInv
  <2> QED
        BY <1>2, <1>4, <1>5, <2>1, CreateWork
<1>6. CASE CreateNodes
  <2>1. /\ s.pc = "createNodes" /\ parent' = parent
        /\ Fail \/ s' = [s EXCEPT !.pc = "addSlaves"]
        BY <1>6 DEF CreateNodes, redisVars
  <2>2. CASE s' = [s EXCEPT !.pc = "addSlaves"]
    <3>1. s'.pc = "addSlaves" /\ s'.todoS = s.todoS
          BY <1>1, <2>2
    <3>2. /\ \A i \in 1..Len(s.todoS) : FreeIn(s.todoS[i][2], parent)
          /\ \A i, j \in 1..Len(s.todoS) : s.todoS[i][2] = s.todoS[j][2] => i = j
          BY <1>2, <2>1 DEF TodoInv, Promised, Adding
    <3> QED
          BY <2>1, <3>1, <3>2 DEF TodoInv, Promised
  <2> QED
        BY <1>4, <2>1, <2>2
<1>7. CASE PlanAdditions
  <2>1. parent' = parent
        BY <1>7 DEF PlanAdditions, redisVars
  <2>2. CASE Plans(Pods)
    <3>1. PICK M \in SUBSET Pods : \E Q \in SUBSET ((Masters(s.exist) \cup M) \ Having) :
             /\ s'.pc = "addMasters" /\ s'.todoM = s'.masters
             /\ Lists(s'.masters, M) /\ Assigned(s'.todoS, Pods, Q)
          BY <2>2 DEF Plans
    <3>2. PICK Q \in SUBSET ((Masters(s.exist) \cup M) \ Having) : Assigned(s'.todoS, Pods, Q)
          BY <3>1
    <3>3. \A m \in M : Promised(m, s', parent')
          BY <3>1 DEF Promised, Lists
    <3>4. \A m \in Q : Promised(m, s', parent')
      <4> SUFFICES ASSUME NEW m \in Q, m \notin M PROVE FreeIn(m, parent)
          BY <2>1, <3>3 DEF Promised
      <4>1. m \in Masters(s.exist) /\ m \notin Having
            BY <3>2
      <4>2. m \in Pods /\ clu[m] # 0 /\ clu[m] = clu[s.exist]
            BY <4>1 DEF Masters, Cluster
      <4> SUFFICES ASSUME NEW q \in Pods, parent[q] = m PROVE FALSE
          BY DEF FreeIn
      <4>3. m # 0 /\ clu[q] = clu[m]
            BY <1>2, <1>3, <4>2 DEF Structure
      <4>4. q \in Slaves(s.exist)
            BY <4>2, <4>3 DEF Slaves, Masters, Cluster
      <4> QED
            BY <4>1, <4>4 DEF Having
    <3>5. \A i \in 1..Len(s'.todoS) : s'.todoS[i][2] \in Q
      <4>1. s'.todoS \in Seq(Pods \X Q)
            BY <3>2 DEF Assigned
      <4>2. \A i \in 1..Len(s'.todoS) : s'.todoS[i] \in Pods \X Q
            BY <4>1
      <4> QED
            BY <4>2
    <3>6. /\ \A i \in 1..Len(s'.todoS) : Promised(s'.todoS[i][2], s', parent')
          /\ \A i \in 1..Len(s'.masters) : Promised(s'.masters[i], s', parent')
          BY <3>1, <3>3, <3>4, <3>5 DEF Lists
    <3>7. /\ \A i, j \in 1..Len(s'.todoS) : s'.todoS[i][2] = s'.todoS[j][2] => i = j
          /\ \A i, j \in 1..Len(s'.masters) : s'.masters[i] = s'.masters[j] => i = j
          BY <3>1, <3>2 DEF Assigned, Lists
    <3> QED
          BY <3>6, <3>7 DEF TodoInv
  <2>3. ~Adding(Idle) /\ ~Adding([Idle EXCEPT !.pc = "hung"])
        BY IdleFields DEF Adding
  <2> QED
        BY <1>2, <1>4, <1>7, <2>2, <2>3, PlanWork, NoTodo
<1>8. CASE AddMaster
  <2> DEFINE p == Head(s.todoM)
  <2>1. \/ Fail
        \/ /\ s' = [s EXCEPT !.todoM = Tail(@)] /\ clu[p] = 0
           /\ parent' = [parent EXCEPT ![p] = 0]
        BY <1>8 DEF AddMaster, Join
  <2>2. s.pc = "addMasters" /\ s.todoM # <<>> /\ p \in Pods
        BY <1>3, <1>8 DEF AddMaster
  <2>3. CASE /\ s' = [s EXCEPT !.todoM = Tail(@)] /\ clu[p] = 0
             /\ parent' = [parent EXCEPT ![p] = 0]
    <3>1. /\ s'.pc = "addMasters" /\ s'.todoM = Tail(s.todoM) /\ s'.todoS = s.todoS
          /\ s'.masters = s.masters
          BY <1>1, <2>2, <2>3
    <3>2. FreeIn(p, parent)
          BY <1>2, <2>2, <2>3, EmptyIsFree
    <3>3. \A m \in Pods : FreeIn(m, parent) => FreeIn(m, parent')
          BY <1>3, <2>2, <2>3 DEF FreeIn
    <3>4. \A m : (\E i \in 1..Len(s.todoM) : s.todoM[i] = m) =>
             m = p \/ \E i \in 1..Len(Tail(s.todoM)) : Tail(s.todoM)[i] = m
      <4>1. s.todoM[1] = p
            BY <1>3, <2>2
      <4>2. ASSUME NEW i \in 1..Len(s.todoM), i # 1
            PROVE  i - 1 \in 1..Len(Tail(s.todoM)) /\ Tail(s.todoM)[i - 1] = s.todoM[i]
            BY <1>3, <2>2, <4>2
      <4> HIDE DEF p
      <4> QED
            BY <4>1, <4>2
    <3>5. \A m \in Pods : Promised(m, s, parent) => Promised(m, s', parent')
          BY <2>2, <3>1, <3>2, <3>3, <3>4 DEF Promised
    <3>6. /\ \A i \in 1..Len(s.todoS) : s.todoS[i][2] \in Pods
          /\ \A i \in 1..Len(s.masters) : s.masters[i] \in Pods
      <4>1. \A i \in 1..Len(s.todoS) : s.todoS[i] \in Pods \X Pods
            BY <1>3
      <4> QED
            BY <1>3, <4>1
    <3>7. /\ \A i \in 1..Len(s.todoS) : Promised(s.todoS[i][2], s, parent)
          /\ \A i \in 1..Len(s.masters) : Promised(s.masters[i], s, parent)
          /\ \A i, j \in 1..Len(s.todoS) : s.todoS[i][2] = s.todoS[j][2] => i = j
          /\ \A i, j \in 1..Len(s.masters) : s.masters[i] = s.masters[j] => i = j
          BY <1>2, <2>2 DEF TodoInv, Adding
    <3> QED
          BY <3>1, <3>5, <3>6, <3>7 DEF TodoInv
  <2> QED
        BY <1>4, <2>1, <2>3
<1>9. CASE NodesAfterMasters
  <2> DEFINE todo(ids) == [i \in DOMAIN s.todoS |-> <<s.todoS[i][1], ids[i]>>]
  <2>1. /\ \/ Fail \/ s' = [s EXCEPT !.pc = "addSlaves"]
           \/ /\ Len(s.todoS) = Len(s.masters)
              /\ \E ids \in NewMasterNodes :
                    s' = [s EXCEPT !.pc = "addSlaves", !.masters = ids, !.todoS = todo(ids)]
        /\ s.pc = "addMasters" /\ s.todoM = <<>> /\ parent' = parent
        BY <1>9 DEF NodesAfterMasters, redisVars
  <2>2. \A m : Promised(m, s, parent) => FreeIn(m, parent')
    <3>1. Len(s.todoM) = 0
      <4>1. s.todoM = <<>>
            BY <2>1
      <4> QED
            BY <4>1
    <3>2. \A i : i \notin 1..0
          OBVIOUS
    <3>3. parent' = parent
          BY <2>1
    <3> QED
          BY <3>1, <3>2, <3>3 DEF Promised
  <2>3. /\ \A i \in 1..Len(s.todoS) : FreeIn(s.todoS[i][2], parent')
        /\ \A i \in 1..Len(s.masters) : FreeIn(s.masters[i], parent')
        /\ \A i, j \in 1..Len(s.todoS) : s.todoS[i][2] = s.todoS[j][2] => i = j
        /\ \A i, j \in 1..Len(s.masters) : s.masters[i] = s.masters[j] => i = j
        BY <1>2, <2>1, <2>2 DEF TodoInv, Adding
  <2>4. CASE s' = [s EXCEPT !.pc = "addSlaves"]
    <3>1. s'.pc = "addSlaves" /\ s'.todoS = s.todoS
          BY <1>1, <2>4
    <3> QED
          BY <2>3, <3>1 DEF TodoInv, Promised
  <2>5. ASSUME NEW ids \in NewMasterNodes, Len(s.todoS) = Len(s.masters),
               s' = [s EXCEPT !.pc = "addSlaves", !.masters = ids, !.todoS = todo(ids)]
        PROVE  TodoInv(s', parent')
    <3>1. s'.pc = "addSlaves" /\ s'.todoS = todo(ids)
          BY <1>1, <2>5
    <3>2. DOMAIN s.todoS = 1..Len(s.todoS) /\ DOMAIN s.masters = 1..Len(s.todoS)
          /\ Len(s.todoS) \in Nat
          BY <1>3, <2>5
    <3>3. \A i \in 1..Len(s.todoS) : ids[i] = s.masters[i]
          BY <3>2 DEF NewMasterNodes, NodesWithIP
    <3>4. /\ \A i \in 1..Len(s.todoS) : s'.todoS[i] = <<s.todoS[i][1], ids[i]>>
          /\ Len(s'.todoS) = Len(s.todoS)
          BY <3>1, <3>2
    <3>5. \A i \in 1..Len(s'.todoS) : s'.todoS[i][2] = s.masters[i]
          BY <3>3, <3>4
    <3>6. Len(s'.todoS) = Len(s.masters)
          BY <2>5, <3>4
    <3>7. /\ \A i \in 1..Len(s'.todoS) : FreeIn(s'.todoS[i][2], parent')
          /\ \A i, j \in 1..Len(s'.todoS) : s'.todoS[i][2] = s'.todoS[j][2] => i = j
          BY <2>3, <3>5, <3>6
    <3> QED
          BY <3>1, <3>7 DEF TodoInv, Promised
  <2> QED
        BY <1>4, <2>1, <2>4, <2>5
<1>10. CASE AddSlave
  <2> DEFINE p == Head(s.todoS)[1]
             m == Head(s.todoS)[2]
  <2>1. \/ Fail
        \/ s' = [s EXCEPT !.todoS = Tail(@)] /\ parent' = [parent EXCEPT ![p] = m]
        BY <1>10 DEF AddSlave, Join
  <2>2. s.pc = "addSlaves" /\ s.todoS # <<>>
        BY <1>10 DEF AddSlave
  <2>3. CASE s' = [s EXCEPT !.todoS = Tail(@)] /\ parent' = [parent EXCEPT ![p] = m]
    <3>1. s'.pc = "addSlaves" /\ s'.todoS = Tail(s.todoS)
          BY <1>1, <2>2, <2>3
    <3>2. /\ Len(Tail(s.todoS)) = Len(s.todoS) - 1 /\ Len(s.todoS) \in Nat \ {0}
          /\ \A i \in 1..Len(Tail(s.todoS)) : Tail(s.todoS)[i] = s.todoS[i + 1]
          BY <1>3, <2>2
    <3>3. /\ \A i \in 1..Len(s.todoS) : FreeIn(s.todoS[i][2], parent)
          /\ \A i, j \in 1..Len(s.todoS) : s.todoS[i][2] = s.todoS[j][2] => i = j
          BY <1>2, <2>2 DEF TodoInv, Promised, Adding
    <3>4. m = s.todoS[1][2] /\ 1 \in 1..Len(s.todoS)
          BY <1>3, <2>2
    <3> DEFINE todo == Tail(s.todoS)
    <3>5. /\ Len(todo) = Len(s.todoS) - 1
          /\ \A i \in 1..Len(todo) : i + 1 \in 1..Len(s.todoS) /\ todo[i] = s.todoS[i + 1]
          BY <3>2
    <3> HIDE DEF todo, m, p
    <3>6. \A i \in 1..Len(todo) : FreeIn(todo[i][2], parent) /\ todo[i][2] # m
      <4> SUFFICES ASSUME NEW i \in 1..Len(todo)
                   PROVE  FreeIn(todo[i][2], parent) /\ todo[i][2] # m
          OBVIOUS
      <4>1. i + 1 \in 1..Len(s.todoS) /\ todo[i] = s.todoS[i + 1] /\ i + 1 # 1
            BY <3>2, <3>5
      <4> QED
            BY <3>3, <3>4, <4>1
    <3>7. \A x : FreeIn(x, parent) /\ x # m => FreeIn(x, parent')
          BY <1>3, <2>3 DEF FreeIn
    <3>8. \A i, j \in 1..Len(todo) : todo[i][2] = todo[j][2] => i = j
      <4> SUFFICES ASSUME NEW i \in 1..Len(todo), NEW j \in 1..Len(todo), todo[i][2] = todo[j][2]
                   PROVE  i = j
          OBVIOUS
      <4>1. i + 1 = j + 1
            BY <3>3, <3>5
      <4> QED
            BY <3>2, <3>5, <4>1
    <3>9. s'.todoS = todo
          BY <3>1 DEF todo
    <3> QED
          BY <3>1, <3>6, <3>7, <3>8, <3>9 DEF TodoInv, Promised
  <2> QED
        BY <1>4, <2>1, <2>3
<1> QED
      BY <1>5, <1>6, <1>7, <1>8, <1>9, <1>10, NotAdding, NoTodo
      DEF SyncStep, GivesSlots

LEMMA TopoInvStep ==
    ASSUME Alike = {}, TypeOK, TopoInv, [Next]_vars
    PROVE  TopoInv'
<1>1. Structure /\ WorkIn(s, Pods) /\ TodoInv(s, parent)
      BY DEF TopoInv
<1>2. ASSUME Structure', WorkIn(s', Pods), TodoInv(s', parent')
      PROVE  TopoInv'
      BY <1>2 DEF TopoInv, WorkIn, TodoInv, Promised, Adding, FreeIn
<1>3. CASE SyncStep
  <2>1. TodoInv(s', parent')
        BY <1>3, TodoStep
  <2>2. WorkIn(s', Pods)
    <3>1. ready \subseteq Pods
          BY SizeTypes DEF TypeOK
    <3> QED
          BY <1>1, <1>3, <3>1, WorkStep
  <2>3. ASSUME NEW p, NEW m, Grew(p, m)
        PROVE  p \in Pods /\ (m = 0 \/ FreeIn(m, parent))
    <3>1. s.todoM \in Seq(Pods) /\ s.todoS \in Seq(Pods \X Pods)
          BY <1>1 DEF WorkIn
    <3>2. CASE s.pc = "addMasters" /\ s.todoM # <<>> /\ p = Head(s.todoM) /\ m = 0
          BY <3>1, <3>2
    <3>3. CASE /\ s.pc = "addSlaves" /\ s.todoS # <<>> /\ p = Head(s.todoS)[1]
               /\ m \in {0, Head(s.todoS)[2]}
      <4>1. Head(s.todoS) \in Pods \X Pods /\ Head(s.todoS) = s.todoS[1] /\ 1 \in 1..Len(s.todoS)
            BY <3>1, <3>3
      <4>2. FreeIn(s.todoS[1][2], parent)
            BY <1>1, <3>3, <4>1 DEF TodoInv, Promised, Adding
      <4> QED
            BY <3>3, <4>1, <4>2
    <3> QED
          BY <2>3, <3>2, <3>3 DEF Grew
  <2>4. Structure'
        BY <1>1, <1>3, <2>3, RedisStep, StructureKept
  <2> QED
        BY <1>2, <2>1, <2>2, <2>4
<1>4. CASE clu' = clu /\ parent' = parent /\ s' = s
      BY <1>1, <1>2, <1>4, StructureKept
<1>5. CASE StartSync
  <2>1. clu' = clu /\ parent' = parent
        BY <1>5 DEF StartSync, redisVars
  <2>2. NoWork(s') /\ ~Adding(s')
        BY <1>5, BeginType DEF NoWork, Adding
  <2> QED
        BY <1>1, <1>2, <2>1, <2>2, StructureKept, SimpleWork, NoTodo
<1>6. CASE EditRedisCluster
  <2>1. clu' = clu /\ parent' = parent
        BY <1>6 DEF EditRedisCluster, redisVars
  <2>2. SameWork(s') /\ s'.pc = s.pc
        BY <1>6, EditType DEF SameWork
  <2>3. TodoInv(s', parent')
        BY <1>1, <2>1, <2>2 DEF TodoInv, Promised, Adding, SameWork
  <2> QED
        BY <1>1, <1>2, <2>1, <2>2, <2>3, StructureKept, SimpleWork
<1>7. CASE Restart
  <2>1. clu' = clu /\ parent' = parent /\ s' = Idle
        BY <1>7 DEF Restart, redisVars
  <2>2. NoWork(s') /\ ~Adding(s')
        BY <2>1, IdleWork, IdleFields DEF Adding
  <2> QED
        BY <1>1, <1>2, <2>1, <2>2, StructureKept, SimpleWork, NoTodo
<1>8. CASE \/ UNCHANGED vars \/ RedisClusterInformed \/ StatefulSetInformed \/ PodsCreated
           \/ PodReady \/ PodUnready \/ ClusterBreaks \/ ClusterHeals
  <2>1. clu' = clu /\ parent' = parent /\ s' = s
        BY <1>8 DEF vars, RedisClusterInformed, StatefulSetInformed, PodsCreated, PodReady,
                    PodUnready, ClusterBreaks, ClusterHeals, redisVars
  <2> QED
        BY <1>4, <2>1
<1> QED
      BY <1>3, <1>5, <1>6, <1>7, <1>8 DEF Next, Environment

LEMMA InitTopo ==
    ASSUME Init
    PROVE  TopoInv
<1>1. s = Idle /\ (\A p \in Pods : clu[p] = 0 /\ parent[p] = 0)
      BY DEF Init
<1>2. WorkIn(s, Pods)
      BY <1>1, IdleFields, ListsEmpty DEF WorkIn
<1>3. ~Adding(s)
      BY <1>1, IdleFields DEF Adding
<1>4. Structure
      BY <1>1 DEF Structure
<1> QED
      BY <1>2, <1>3, <1>4, NoTodo DEF TopoInv

\* Where no IP is part of another, every slave has a master of its own, which is in
\* the cluster and no slave itself: over every failure of a call, every crash and
\* every edit, and also for a Redis state that makes an instance look empty.
THEOREM EachSlaveKeepsItsMaster ==
    ASSUME Alike = {}
    PROVE  Spec => []EachSlaveItsMaster
<1>1. Init => TopoInv
      BY InitTopo
<1>2. ASSUME TypeOK, TopoInv PROVE EachSlaveItsMaster
  <2>1. parent \in [Pods -> {0} \cup Pods]
        BY <1>2 DEF TypeOK
  <2> QED
        BY <1>2, <2>1 DEF TopoInv, Structure, EachSlaveItsMaster, Joined
<1>3. TypeOK /\ TopoInv /\ [Next]_vars => TopoInv'
      BY TopoInvStep
<1> QED
      BY <1>1, <1>2, <1>3, InitType, StepType, PTL DEF Spec
=============================================================================
