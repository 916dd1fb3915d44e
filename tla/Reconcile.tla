------------------------------- MODULE Reconcile -------------------------------
(***************************************************************************)
(* What a sync does to one RedisCluster: RedisClusterOperator.sync and all *)
(* it calls in redis_operator.go, sync_rediscluster.go and                 *)
(* check_rediscluster.go, together with the Kubernetes objects and the     *)
(* Redis nodes it works on.  One sync runs at a time (SyncLoop); the next  *)
(* one starts at any time after it (resync, retry or event).               *)
(*                                                                         *)
(* Resource versions are kept as two facts: whether the informer's copy    *)
(* and the sync's copy of the RedisCluster are the stored object.  Every   *)
(* call that may fail does so when its step is in FaultSteps, at most      *)
(* MaxFaults times in all; a failed redis-trib command may have taken      *)
(* effect, a failed request to the API server has not.                     *)
(***************************************************************************)
EXTENDS Placement

CONSTANTS NodeOf,       \* Kubernetes node of each pod
          Sizes,        \* values of spec.replicas
          Strategies,   \* values of spec.updateStrategy: [type, count]
          Alike,        \* pairs of pods: the first one's IP is part of the second's
                        \* (10.0.0.1 of 10.0.0.12)
          MinMasters,   \* redis-trib create refuses fewer masters
          FaultSteps,   \* steps that may fail
          MaxFaults,    \* bound: failed calls and readiness probes
          MaxBreaks,    \* bound: times the Redis cluster leaves state ok
          MaxEdits,     \* bound: user edits of the RedisCluster
          ScaleIn,      \* whether an edit may ask for fewer instances
          MaxRestarts   \* bound: crashes of the operator

Pods == 1..Max(Sizes)

ASSUME ReconcileAssumption ==
    /\ Sizes \subseteq Nat \ {0} /\ Sizes # {} /\ IsFiniteSet(Sizes)
    /\ \A p \in Pods : NodeOf[p] \in Int
    /\ Strategies \subseteq [type : {"AutoReceive", "AssignReceive", "Other"}, count : Nat]
    /\ ScaleIn \in BOOLEAN /\ Alike \subseteq (Nat \X Nat)
    /\ {MinMasters, MaxFaults, MaxBreaks, MaxEdits, MaxRestarts} \subseteq Nat

VARIABLES cr, crCache, cacheFresh,  \* the RedisCluster, the lister's copy
          sts, stsCache,            \* the StatefulSet, the lister's copy
          ready,                    \* pods in the Endpoints object
          clu, parent, slots, ok,   \* the Redis nodes (clu 0: knows only itself)
          s,                        \* the running sync
          faults, breaks, edits, restarts

crVars     == <<cr, crCache, cacheFresh>>
stsVars    == <<sts, stsCache, ready>>
redisVars  == <<clu, parent, slots>>
budgetVars == <<breaks, edits, restarts>>
vars == <<crVars, stsVars, redisVars, ok, s, faults, budgetVars>>

Phases == {"", "Creating", "Running", "Scaling", "Upgrading", "Failed"}
NoStatus == [replicas |-> 0, phase |-> "", reason |-> FALSE, conds |-> {}]
NoSts == [spec |-> 0, pods |-> FALSE]

\* job: which of the four procedures the steps from "wait" on belong to.
Jobs  == {"none", "create", "check", "upgrade", "repairCreate", "repairUpgrade"}
Steps == {"idle", "creating", "apply", "scaling", "applyScale", "refuse", "probe",
          "wait", "classify", "upgrading", "trib", "createNodes", "plan",
          "addMasters", "addSlaves", "info", "slotNodes", "slots", "verify", "finish",
          "fail", "hung"}

Idle == [pc |-> "idle", job |-> "none", rc |-> [replicas |-> 0], fresh |-> FALSE,
         stsSeen |-> FALSE, eps |-> <<>>, old |-> <<>>, exist |-> 0,
         masters |-> <<>>, todoM |-> <<>>, todoS |-> <<>>]

Init ==
    /\ \E n \in Sizes, st \in Strategies :
          cr = [replicas |-> n, strategy |-> st, status |-> NoStatus]
    /\ crCache = cr /\ cacheFresh = TRUE
    /\ sts = NoSts /\ stsCache = NoSts /\ ready = {}
    /\ clu = [p \in Pods |-> 0] /\ parent = [p \in Pods |-> 0]
    /\ slots = [p \in Pods |-> FALSE] /\ ok = TRUE
    /\ s = Idle
    /\ faults = 0 /\ breaks = 0 /\ edits = 0 /\ restarts = 0
-----------------------------------------------------------------------------
(***************************************************************************)
(* Shared parts of the steps.                                              *)
(***************************************************************************)
Faulty(step) == step \in FaultSteps /\ faults < MaxFaults /\ faults' = faults + 1
NoFault == UNCHANGED faults

\* sortEndpointsByPodName of the Endpoints object.
Addresses == Among([p \in Pods |-> p], ready)

Cluster(p) == {q \in Pods : clu[q] # 0 /\ clu[q] = clu[p]}

\* Mutant of Masters: the instance that answers, listed as "myself,master", is
\* not taken for a master.
OtherMasters(p) == {q \in Cluster(p) \ {p} : parent[q] = 0}

\* Mutant of Masters: only a master that serves slots is taken for one.
ServingMasters(p) == {q \in Cluster(p) : parent[q] = 0 /\ slots[q]}

Masters(p) == {q \in Cluster(p) : parent[q] = 0}
Slaves(p)  == Cluster(p) \ Masters(p)

\* redis-trib check through p, repeated by waitRedisStatusOK until it agrees or
\* ClusterTimeOut is over: an instance that knows only itself has no slots.
StatusOK(p) == ok /\ clu[p] # 0

\* Mutant of ClusterNodes: the ready instances instead of the known nodes.
ReadyNodes(p) == {[pod |-> q, master |-> parent[q], slots |-> slots[q]] : q \in ready}

\* execClusterNodes through p: an error, after the wait for StatusOK or of the
\* command itself, or the nodes that p knows.
NodesRead(p) == NoFault /\ StatusOK(p)
NodesUnread(p) == (NoFault /\ ~StatusOK(p)) \/ Faulty("nodes")

\* execRedisTribInfo: the masters of the cluster that serve no slots.
WithoutSlots(p) == {q \in Masters(p) : ~slots[q]}

\* execClusterInfo: cluster_known_nodes is 1.
OnlyKnownSelf(p) == clu[p] = 0

ClusterNodes(p) == {[pod |-> q, master |-> parent[q], slots |-> slots[q]] : q \in Cluster(p)}

\* Mutant of StatusFor: the instances that are ready are counted.
StatusOfReady(phase, reason, addrs) ==
    [replicas |-> Cardinality(ready), phase |-> phase, reason |-> reason, conds |-> {}]

\* The status updateRedisClusterStatus would write; Running reads the
\* conditions from the first of addrs, the other phases keep the old ones.
StatusFor(phase, reason, addrs) ==
    [replicas |-> IF phase = "Creating" THEN 0 ELSE sts.spec,
     phase |-> phase, reason |-> reason,
     conds |-> CASE phase = "Creating" -> {}
                 [] phase = "Running" -> ClusterNodes(Head(addrs))
                 [] OTHER -> s.rc.status.conds]
CanBuildStatus(phase, addrs) ==
    /\ phase # "Creating" => sts # NoSts
    /\ phase = "Running" => addrs # <<>> /\ StatusOK(Head(addrs))

\* updateRedisClusterStatus: nothing is written when the status is the same as
\* in the sync's copy (Rewritten: a reason may differ in its text only); a write
\* with an old resource version is a conflict.
StatusWritten(status) ==
    /\ s.fresh
    /\ cr' = [cr EXCEPT !.status = status]
    /\ cacheFresh' = FALSE
    /\ UNCHANGED crCache
StatusKept == UNCHANGED crVars
Rewritten(status) == status # s.rc.status \/ status.reason
updateRedisClusterStatus(phase, reason, addrs, next) ==
    IF ~CanBuildStatus(phase, addrs)
    THEN StatusKept /\ s' = Idle
    ELSE LET status == StatusFor(phase, reason, addrs) IN
         \/ status = s.rc.status /\ StatusKept /\ s' = next
         \/ Rewritten(status) /\ StatusWritten(status)
            /\ s' = IF next = Idle THEN Idle ELSE [next EXCEPT !.rc = cr']
         \/ Rewritten(status) /\ ~s.fresh /\ StatusKept /\ s' = Idle

\* The update is the last thing the sync does; its error is ignored or returned.
Return(phase, reason, addrs) == updateRedisClusterStatus(phase, reason, addrs, Idle)

\* A call failed: what is left to do is to record it.
Fail == StatusKept /\ s' = [s EXCEPT !.pc = "fail"]
-----------------------------------------------------------------------------
(***************************************************************************)
(* sync.                                                                   *)
(***************************************************************************)
Healthy(rc) ==
    /\ rc.status.phase \in {"Running", "Upgrading", "Creating"}
    /\ Cardinality(rc.status.conds) = rc.replicas

BadStrategy(rc) ==
    \/ rc.strategy.type = "Other"
    \/ /\ rc.strategy.type = "AssignReceive"
       /\ rc.strategy.count # (rc.replicas - stsCache.spec) \div 2

StartSync ==
    /\ s.pc = "idle"
    /\ LET begin(pc, job) == s' = [Idle EXCEPT !.pc = pc, !.job = job, !.rc = crCache,
                                    !.fresh = cacheFresh, !.stsSeen = (stsCache # NoSts)]
       IN  IF ~stsCache.pods THEN begin("creating", "create")
           ELSE IF crCache.replicas > stsCache.spec
           THEN begin(IF BadStrategy(crCache) THEN "refuse" ELSE "scaling", "upgrade")
           ELSE begin(IF Healthy(crCache) THEN "probe" ELSE "wait", "check")
    /\ UNCHANGED <<crVars, stsVars, redisVars, ok, faults, budgetVars>>

UpdateCreating ==
    /\ s.pc = "creating"
    /\ \/ NoFault /\ updateRedisClusterStatus("Creating", FALSE, <<>>, [s EXCEPT !.pc = "apply"])
       \/ Faulty("status") /\ StatusKept /\ s' = Idle
    /\ UNCHANGED <<stsVars, redisVars, ok, budgetVars>>

\* Of all that is built from the RedisCluster, the sync depends on the size.
buildRedisClusterStatefulset(rc) == [sts EXCEPT !.spec = rc.replicas]

\* The service is created or exists; the StatefulSet is created if the lister
\* had none and replaced otherwise.
ApplyStatefulSet ==
    /\ s.pc = "apply"
    /\ \/ /\ NoFault
          /\ s.stsSeen <=> sts # NoSts
          /\ sts' = buildRedisClusterStatefulset(s.rc)
          /\ ready' = ready \cap 1..s.rc.replicas
          /\ s' = [s EXCEPT !.pc = "wait"]
       \/ /\ (NoFault /\ s.stsSeen # (sts # NoSts)) \/ Faulty("apply")
          /\ UNCHANGED <<sts, ready>> /\ s' = Idle
    /\ UNCHANGED <<crVars, stsCache, redisVars, ok, budgetVars>>

\* A wrong UpdateStrategy is only reported.  These Endpoints are not sorted: any
\* ready instance may be the first.
RefuseUpgrade ==
    /\ s.pc = "refuse"
    /\ \/ NoFault /\ \E p \in ready : Return("Running", TRUE, <<p>>)
       \/ ((NoFault /\ ready = {}) \/ Faulty("status")) /\ StatusKept /\ s' = Idle
    /\ UNCHANGED <<stsVars, redisVars, ok, budgetVars>>

\* The Endpoints are read after the update to Scaling.  When they cannot be, the
\* Failed status is written through the object that was read first: a conflict,
\* unless Scaling was there already.
UpdateScaling ==
    /\ s.pc = "scaling"
    /\ \/ /\ NoFault
          /\ updateRedisClusterStatus("Scaling", FALSE, <<>>,
                [s EXCEPT !.pc = "applyScale", !.old = Addresses])
       \/ Faulty("status") /\ StatusKept /\ s' = Idle
       \/ /\ Faulty("endpoints")
          /\ IF StatusFor("Scaling", FALSE, <<>>) = s.rc.status
             THEN Return("Failed", TRUE, <<>>)
             ELSE Return("Scaling", FALSE, <<>>)
    /\ UNCHANGED <<stsVars, redisVars, ok, budgetVars>>

\* Mutant of ScaleStatefulSet: the instances to add instead of all instances.
ScaleByDifference ==
    /\ s.pc = "applyScale"
    /\ NoFault
    /\ sts' = [sts EXCEPT !.spec = s.rc.replicas - @]
    /\ ready' = ready \cap 1..(s.rc.replicas - sts.spec)
    /\ s' = [s EXCEPT !.pc = "wait"]
    /\ UNCHANGED <<crVars, stsCache, redisVars, ok, budgetVars>>

ScaleStatefulSet ==
    /\ s.pc = "applyScale"
    /\ \/ /\ NoFault /\ sts # NoSts
          /\ sts' = buildRedisClusterStatefulset(s.rc)
          /\ ready' = ready \cap 1..s.rc.replicas
          /\ s' = [s EXCEPT !.pc = "wait"]
       \/ /\ Faulty("apply")
          /\ UNCHANGED <<sts, ready>> /\ s' = Idle
    /\ UNCHANGED <<crVars, stsCache, redisVars, ok, budgetVars>>
-----------------------------------------------------------------------------
(***************************************************************************)
(* checkAndUpdateRedisClusterStatus.                                       *)
(***************************************************************************)
\* The health probe through the first ready instance.
ProbeCluster ==
    /\ s.pc = "probe"
    /\ \/ ((NoFault /\ ready = {}) \/ Faulty("endpoints")) /\ StatusKept /\ s' = Idle
       \/ Faulty("probe") /\ ready # {} /\ Return("Failed", TRUE, Addresses)
       \/ /\ NoFault /\ ready # {}
          /\ IF StatusOK(Head(Addresses))
             THEN Return("Running", FALSE, Addresses)
             ELSE Return("Failed", TRUE, Addresses)
    /\ UNCHANGED <<stsVars, redisVars, ok, budgetVars>>

\* checkPodInstanceIsReadyByEndpoint.  After a failed wait the upgrade calls
\* updateRedisClusterStatus with empty Endpoints, which changes nothing.
WaitPodsReady ==
    /\ s.pc = "wait"
    /\ \/ /\ NoFault /\ s.job = "upgrade" /\ s.old = <<>> /\ StatusKept /\ s' = Idle
       \/ /\ NoFault
          /\ s.job = "upgrade" => s.old # <<>>
          /\ Cardinality(ready) = s.rc.replicas
          /\ StatusKept
          /\ s' = [s EXCEPT !.eps = Addresses,
                            !.pc = CASE s.job = "create" -> "trib"
                                     [] s.job = "check" -> "classify"
                                     [] s.job = "upgrade" -> "upgrading"]
       \/ /\ (NoFault /\ Cardinality(ready) # s.rc.replicas) \/ Faulty("wait")
          /\ Fail
    /\ UNCHANGED <<stsVars, redisVars, ok, budgetVars>>

\* Mutant of RepairPhase: nothing repairs a Failed cluster.
KeepFailed(status) == status.phase

RepairPhase(status) ==
    IF status.phase # "Failed" THEN status.phase
    ELSE IF status.conds = {} THEN "Creating" ELSE "Upgrading"

\* A clustered instance whose state is fail makes both lists empty, without an
\* error.
getIsClusteredAndOnlyKnownSelfAddress(eps) ==
    LET joined == Among(eps, {p \in Pods : ~OnlyKnownSelf(p)})
    IN  IF ~ok /\ joined # <<>> THEN [clustered |-> <<>>, alone |-> 0]
        ELSE [clustered |-> joined, alone |-> Len(eps) - Len(joined)]

\* The switch on the phase.  A negative subLen panics; the panic ends the sync
\* without an error.
Classify ==
    /\ s.pc = "classify"
    /\ \/ Faulty("classify") /\ Fail
       \/ /\ NoFault /\ StatusKept
          /\ LET split     == getIsClusteredAndOnlyKnownSelfAddress(s.eps)
                 clustered == split.clustered
                 alone     == split.alone
                 subLen    == Len(s.eps) - Cardinality(s.rc.status.conds)
                 phase     == RepairPhase(s.rc.status)
                 upgrade   == [s EXCEPT !.job = "upgrade", !.pc = "wait", !.eps = <<>>,
                                        !.old = SubSeq(s.eps, 1, subLen)]
                 repair(job) == [s EXCEPT !.job = job, !.pc = "plan",
                                          !.exist = Head(clustered)]
             IN  s' = IF phase \notin {"Creating", "Scaling", "Upgrading"} THEN Idle
                      ELSE IF alone = s.rc.replicas \/ clustered = <<>>
                      THEN [s EXCEPT !.job = "create", !.pc = "wait", !.eps = <<>>]
                      ELSE IF phase = "Creating" THEN repair("repairCreate")
                      ELSE IF subLen < 0 THEN Idle
                      ELSE IF phase = "Scaling" \/ subLen = alone THEN upgrade
                      ELSE repair("repairUpgrade")
    /\ UNCHANGED <<stsVars, redisVars, ok, budgetVars>>
-----------------------------------------------------------------------------
(***************************************************************************)
(* createAndInitRedisCluster.                                              *)
(***************************************************************************)
NewCluster == 1 + Max({clu[p] : p \in Pods})
\* Mutant of Pairs: every slave goes to the first master.
PairWithFirst(slaves, masters) == [i \in DOMAIN slaves |-> <<slaves[i], Head(masters)>>]
Pairs(slaves, masters) == [i \in DOMAIN slaves |-> <<slaves[i], masters[i]>>]

\* redis-trib create refuses too few masters and instances that are not empty.
TribAccepts(masters) ==
    Len(masters) >= MinMasters /\ \A p \in ToSet(masters) : clu[p] = 0

CreateCluster ==
    /\ s.pc = "trib"
    /\ LET a == assignMasterSlaveIP(s.eps, NodeOf)
           new == ToSet(a.masters)
           accepted == TribAccepts(a.masters)
           created == /\ clu' = [p \in Pods |-> IF p \in new THEN NewCluster ELSE clu[p]]
                      /\ slots' = [p \in Pods |-> slots[p] \/ p \in new]
                      /\ UNCHANGED parent
       IN  \/ /\ NoFault /\ accepted /\ created /\ StatusKept
              /\ s' = [s EXCEPT !.pc = "createNodes", !.exist = Head(a.masters),
                                !.masters = a.masters,
                                !.todoS = Pairs(a.slaves, a.masters)]
           \/ NoFault /\ ~accepted /\ Fail /\ UNCHANGED redisVars
           \/ /\ Faulty("trib") /\ Fail
              /\ (accepted /\ created) \/ UNCHANGED redisVars
    /\ UNCHANGED <<stsVars, ok, budgetVars>>

CreateNodes ==
    /\ s.pc = "createNodes"
    /\ \/ /\ NodesRead(s.exist) /\ Cardinality(Cluster(s.exist)) = Len(s.todoS)
          /\ StatusKept /\ s' = [s EXCEPT !.pc = "addSlaves"]
       \/ /\ \/ NodesUnread(s.exist)
             \/ NodesRead(s.exist) /\ Cardinality(Cluster(s.exist)) # Len(s.todoS)
          /\ Fail
    /\ UNCHANGED <<stsVars, redisVars, ok, budgetVars>>
-----------------------------------------------------------------------------
(***************************************************************************)
(* upgradeRedisCluster and the repair branches.                            *)
(***************************************************************************)
\* Of the instances before the scaling only the first is used.
currentRedisClusterInfo == Head(s.old)

UpdateUpgrading ==
    /\ s.pc = "upgrading"
    /\ \/ /\ NoFault
          /\ updateRedisClusterStatus("Upgrading", FALSE, <<>>,
                IF s.rc.strategy.type = "Other" THEN Idle
                ELSE [s EXCEPT !.pc = "plan", !.exist = currentRedisClusterInfo])
       \/ Faulty("status") /\ StatusKept /\ s' = Idle
    /\ UNCHANGED <<stsVars, redisVars, ok, budgetVars>>

\* execClusterNodes and buildWillAddClusterMasterSlaveIPs.
PlanAdditions ==
    /\ s.pc = "plan"
    /\ \/ /\ NodesRead(s.exist) /\ StatusKept
          /\ LET plan == composeMasterSlaveIP(s.eps, NodeOf, Masters(s.exist),
                            Slaves(s.exist), {parent[q] : q \in Slaves(s.exist)})
             IN  s' = CASE plan.result = "hang" -> [Idle EXCEPT !.pc = "hung"]
                        [] plan.result = "panic" -> Idle
                        [] plan.result = "plan" ->
                             [s EXCEPT !.pc = "addMasters",
                                       !.masters = plan.masters, !.todoM = plan.masters,
                                       !.todoS = Pairs(plan.slaves, plan.parents)]
       \/ NodesUnread(s.exist) /\ Fail
    /\ UNCHANGED <<stsVars, redisVars, ok, budgetVars>>

\* Mutant of Join: the two addresses of add-node are swapped.
JoinSwapped(p, master) ==
    /\ clu' = [clu EXCEPT ![p] = NewCluster]
    /\ parent' = [parent EXCEPT ![p] = master]
    /\ UNCHANGED slots

Join(p, master) ==
    /\ clu' = [clu EXCEPT ![p] = clu[s.exist]]
    /\ parent' = [parent EXCEPT ![p] = master]
    /\ UNCHANGED slots

\* One redis-trib add-node.  It refuses an instance that is not empty.
AddMaster ==
    /\ s.pc = "addMasters" /\ s.todoM # <<>>
    /\ LET p == Head(s.todoM)
           accepted == StatusOK(s.exist) /\ clu[p] = 0
       IN  \/ /\ NoFault /\ accepted /\ Join(p, 0) /\ StatusKept
              /\ s' = [s EXCEPT !.todoM = Tail(@)]
           \/ NoFault /\ ~accepted /\ Fail /\ UNCHANGED redisVars
           \/ /\ Faulty("addMaster") /\ Fail
              /\ (accepted /\ Join(p, 0)) \/ UNCHANGED redisVars
    /\ UNCHANGED <<stsVars, ok, budgetVars>>

\* The node of each new master, as the upgrade looks it up in the output of
\* cluster nodes: the first node whose IpPort contains the IP.
NodesWithIP(p) == {q \in Cluster(s.exist) : q = p \/ <<p, q>> \in Alike}
NewMasterNodes ==
    {ids \in [DOMAIN s.masters -> Cluster(s.exist)] :
       \A i, j \in DOMAIN s.masters :
          /\ ids[i] \in NodesWithIP(s.masters[i])
          /\ ids[i] \in NodesWithIP(s.masters[j]) /\ ids[j] \in NodesWithIP(s.masters[i])
             => ids[i] = ids[j]}

\* execClusterNodes for the node ids.  The upgrade drops the parents the plan
\* chose and pairs the i-th slave with the i-th node found; lists of different
\* lengths are an error.
NodesAfterMasters ==
    /\ s.pc = "addMasters" /\ s.todoM = <<>>
    /\ \/ /\ NodesRead(s.exist) /\ s.job # "upgrade" /\ StatusKept
          /\ s' = [s EXCEPT !.pc = "addSlaves"]
       \/ /\ NodesRead(s.exist) /\ s.job = "upgrade" /\ Len(s.todoS) = Len(s.masters)
          /\ StatusKept
          /\ \E ids \in NewMasterNodes :
                s' = [s EXCEPT !.pc = "addSlaves", !.masters = ids,
                               !.todoS = [i \in DOMAIN @ |-> <<@[i][1], ids[i]>>]]
       \/ /\ \/ NodesUnread(s.exist)
             \/ NodesRead(s.exist) /\ s.job = "upgrade" /\ Len(s.todoS) # Len(s.masters)
          /\ Fail
    /\ UNCHANGED <<stsVars, redisVars, ok, budgetVars>>

\* One redis-trib add-node --slave: CLUSTER MEET first, then CLUSTER REPLICATE;
\* a failure between the two, or a node to replicate that is a slave itself,
\* leaves a master without slots.
AddSlave ==
    /\ s.pc = "addSlaves" /\ s.todoS # <<>>
    /\ LET p == Head(s.todoS)[1]
           m == Head(s.todoS)[2]
           accepted == StatusOK(s.exist) /\ clu[p] = 0 /\ m \in Cluster(s.exist)
       IN  \/ /\ NoFault /\ accepted
              /\ IF m \in Masters(s.exist)
                 THEN Join(p, m) /\ StatusKept /\ s' = [s EXCEPT !.todoS = Tail(@)]
                 ELSE Join(p, 0) /\ Fail
           \/ NoFault /\ ~accepted /\ Fail /\ UNCHANGED redisVars
           \/ /\ Faulty("addSlave") /\ Fail
              /\ (accepted /\ m \in Masters(s.exist) /\ Join(p, m)) \/ UNCHANGED redisVars
           \/ Faulty("replicate") /\ accepted /\ Fail /\ Join(p, 0)
    /\ UNCHANGED <<stsVars, ok, budgetVars>>

\* Mutant of SlavesAdded: the new masters get no slots.
SlavesAddedWithoutSlots ==
    /\ s.pc = "addSlaves" /\ s.todoS = <<>>
    /\ s' = [s EXCEPT !.pc = "verify"]
    /\ UNCHANGED <<crVars, stsVars, redisVars, ok, faults, budgetVars>>

\* What comes next: after a creation nothing but the check, otherwise the slots.
\* The upgrade gives them to the masters it added (the nodes found for them), the
\* repair asks redis-trib which masters have none.
SlavesAdded ==
    /\ s.pc = "addSlaves" /\ s.todoS = <<>>
    /\ s' = CASE s.job = "create" -> [s EXCEPT !.pc = "verify"]
              [] s.job = "upgrade" -> [s EXCEPT !.pc = "slots", !.todoM = s.masters]
              [] s.job = "repairCreate" -> [s EXCEPT !.pc = "slots"]
              [] OTHER -> [s EXCEPT !.pc = IF s.rc.strategy.type = "AssignReceive"
                                           THEN "info" ELSE "slots"]
    /\ UNCHANGED <<crVars, stsVars, redisVars, ok, faults, budgetVars>>
-----------------------------------------------------------------------------
AfterSlots == [s EXCEPT !.pc = IF s.job = "upgrade" THEN "verify" ELSE "finish"]
GiveSlots(ps) == slots' = [p \in Pods |-> slots[p] \/ p \in ps] /\ UNCHANGED <<clu, parent>>

\* redis-trib rebalance --use-empty-masters.
Rebalance ==
    /\ s.pc = "slots"
    /\ s.job = "repairCreate" \/ s.rc.strategy.type = "AutoReceive"
    /\ \/ /\ NoFault /\ StatusOK(s.exist)
          /\ GiveSlots(Masters(s.exist)) /\ StatusKept /\ s' = AfterSlots
       \/ NoFault /\ ~StatusOK(s.exist) /\ Fail /\ UNCHANGED redisVars
       \/ /\ Faulty("slots") /\ StatusOK(s.exist) /\ Fail
          /\ GiveSlots(Masters(s.exist)) \/ UNCHANGED redisVars
    /\ UNCHANGED <<stsVars, ok, budgetVars>>

\* redis-trib info, in any order; no master without slots needs no reshard, and
\* too few strategies are an error.
TribInfo ==
    /\ s.pc = "info"
    /\ \/ /\ NoFault /\ StatusKept
          /\ Cardinality(WithoutSlots(s.exist)) <= s.rc.strategy.count
          /\ \E order \in [1..Cardinality(WithoutSlots(s.exist)) -> WithoutSlots(s.exist)] :
                /\ ToSet(order) = WithoutSlots(s.exist)
                /\ s' = IF order = <<>> THEN AfterSlots
                        ELSE [s EXCEPT !.pc = "slotNodes", !.todoM = order]
       \/ NoFault /\ Cardinality(WithoutSlots(s.exist)) > s.rc.strategy.count /\ Fail
       \/ Faulty("info") /\ Fail
    /\ UNCHANGED <<stsVars, redisVars, ok, budgetVars>>

\* execClusterNodes once more, for the ids of these masters.
NodesBeforeSlots ==
    /\ s.pc = "slotNodes"
    /\ \/ NodesRead(s.exist) /\ StatusKept /\ s' = [s EXCEPT !.pc = "slots"]
       \/ NodesUnread(s.exist) /\ Fail
    /\ UNCHANGED <<stsVars, redisVars, ok, budgetVars>>

\* One redis-trib reshard, with a strategy for each master; the repair has made
\* sure that there are enough, the upgrade runs into an index panic.
Reshard ==
    /\ s.pc = "slots" /\ s.todoM # <<>>
    /\ s.job # "repairCreate" /\ s.rc.strategy.type = "AssignReceive"
    /\ LET panics == s.job = "upgrade"
                       /\ Len(s.masters) - Len(s.todoM) >= s.rc.strategy.count
           given  == GiveSlots({Head(s.todoM)})
       IN  \/ /\ NoFault /\ StatusOK(s.exist) /\ ~panics /\ given
              /\ StatusKept /\ s' = [s EXCEPT !.todoM = Tail(@)]
           \/ /\ NoFault /\ StatusOK(s.exist) /\ panics /\ UNCHANGED redisVars
              /\ StatusKept /\ s' = Idle
           \/ NoFault /\ ~StatusOK(s.exist) /\ Fail /\ UNCHANGED redisVars
           \/ /\ Faulty("slots") /\ ~panics /\ Fail
              /\ (StatusOK(s.exist) /\ given) \/ UNCHANGED redisVars
    /\ UNCHANGED <<stsVars, ok, budgetVars>>

SlotsGiven ==
    /\ s.pc = "slots" /\ s.todoM = <<>>
    /\ s.job # "repairCreate" /\ s.rc.strategy.type = "AssignReceive"
    /\ s' = AfterSlots
    /\ UNCHANGED <<crVars, stsVars, redisVars, ok, faults, budgetVars>>

\* The strategy was changed to a wrong one after the upgrade had begun.
NoStrategy ==
    /\ s.pc = "slots" /\ s.job # "repairCreate" /\ s.rc.strategy.type = "Other"
    /\ s' = Idle
    /\ UNCHANGED <<crVars, stsVars, redisVars, ok, faults, budgetVars>>

\* The last execClusterNodes; the upgrade returns its error without a status.
VerifyNodes ==
    /\ s.pc = "verify"
    /\ \/ NodesRead(s.exist) /\ StatusKept /\ s' = [s EXCEPT !.pc = "finish"]
       \/ /\ NodesUnread(s.exist)
          /\ IF s.job = "create" THEN Fail ELSE StatusKept /\ s' = Idle
    /\ UNCHANGED <<stsVars, redisVars, ok, budgetVars>>

\* The error exits: Failed when creating or checking, Running with the reason
\* when upgrading.
ReportFailure ==
    /\ s.pc = "fail"
    /\ \/ NoFault /\ IF s.job \in {"create", "check", "repairCreate"}
                      THEN Return("Failed", TRUE, s.eps)
                      ELSE Return("Running", TRUE, s.eps)
       \/ Faulty("status") /\ StatusKept /\ s' = Idle
    /\ UNCHANGED <<stsVars, redisVars, ok, budgetVars>>

UpdateRunning ==
    /\ s.pc = "finish"
    /\ \/ NoFault /\ Return("Running", FALSE, s.eps)
       \/ Faulty("status") /\ StatusKept /\ s' = Idle
    /\ UNCHANGED <<stsVars, redisVars, ok, budgetVars>>
-----------------------------------------------------------------------------
(***************************************************************************)
(* Kubernetes, the user, the Redis cluster and crashes.                    *)
(***************************************************************************)
EditRedisCluster ==
    /\ edits < MaxEdits /\ edits' = edits + 1
    /\ \E n \in Sizes, st \in Strategies :
          /\ <<n, st>> # <<cr.replicas, cr.strategy>>
          /\ n >= cr.replicas \/ ScaleIn
          /\ cr' = [cr EXCEPT !.replicas = n, !.strategy = st]
    /\ cacheFresh' = FALSE /\ s' = [s EXCEPT !.fresh = FALSE]
    /\ UNCHANGED <<crCache, stsVars, redisVars, ok, faults, breaks, restarts>>

RedisClusterInformed ==
    /\ ~cacheFresh
    /\ crCache' = cr /\ cacheFresh' = TRUE
    /\ UNCHANGED <<cr, stsVars, redisVars, ok, s, faults, budgetVars>>

StatefulSetInformed ==
    /\ stsCache # sts
    /\ stsCache' = sts
    /\ UNCHANGED <<crVars, sts, ready, redisVars, ok, s, faults, budgetVars>>

\* The StatefulSet controller creates pods; they become ready in order.
PodsCreated ==
    /\ sts # NoSts /\ ~sts.pods
    /\ sts' = [sts EXCEPT !.pods = TRUE]
    /\ UNCHANGED <<crVars, stsCache, ready, redisVars, ok, s, faults, budgetVars>>

PodReady ==
    /\ sts.pods /\ ready # 1..sts.spec
    /\ ready' = ready \cup {CHOOSE p \in 1..sts.spec \ ready :
                               \A q \in 1..sts.spec \ ready : p <= q}
    /\ UNCHANGED <<crVars, sts, stsCache, redisVars, ok, s, faults, budgetVars>>

\* An instance fails its readiness probe for a while and leaves the Endpoints.
\* Of Endpoints that are not complete only the size and the first address are
\* used, so the first and the last instance stand for all.
PodUnready ==
    /\ Faulty("unready")
    /\ ready # {}
    /\ \E p \in {Min(ready), Max(ready)} : ready' = ready \ {p}
    /\ UNCHANGED <<crVars, sts, stsCache, redisVars, ok, s, budgetVars>>

ClusterBreaks ==
    /\ breaks < MaxBreaks /\ breaks' = breaks + 1
    /\ ok /\ \E p \in Pods : clu[p] # 0
    /\ ok' = FALSE
    /\ UNCHANGED <<crVars, stsVars, redisVars, s, faults, edits, restarts>>

ClusterHeals ==
    /\ ~ok /\ ok' = TRUE
    /\ UNCHANGED <<crVars, stsVars, redisVars, s, faults, budgetVars>>

\* The operator process dies; a new one lists the objects again.
Restart ==
    /\ restarts < MaxRestarts /\ restarts' = restarts + 1
    /\ s # Idle /\ s' = Idle
    /\ crCache' = cr /\ cacheFresh' = TRUE /\ stsCache' = sts
    /\ UNCHANGED <<cr, sts, ready, redisVars, ok, faults, breaks, edits>>
-----------------------------------------------------------------------------
SyncStep ==
    \/ UpdateCreating \/ ApplyStatefulSet \/ RefuseUpgrade \/ UpdateScaling
    \/ ScaleStatefulSet \/ ProbeCluster \/ WaitPodsReady \/ Classify
    \/ CreateCluster \/ CreateNodes \/ UpdateUpgrading \/ PlanAdditions
    \/ AddMaster \/ NodesAfterMasters \/ AddSlave \/ SlavesAdded
    \/ Rebalance \/ TribInfo \/ NodesBeforeSlots \/ Reshard \/ SlotsGiven \/ NoStrategy
    \/ VerifyNodes \/ UpdateRunning \/ ReportFailure

Environment ==
    \/ EditRedisCluster \/ RedisClusterInformed \/ StatefulSetInformed
    \/ PodsCreated \/ PodReady \/ PodUnready \/ ClusterBreaks \/ ClusterHeals \/ Restart

Next == StartSync \/ SyncStep \/ Environment

Spec == Init /\ [][Next]_vars

\* Weak fairness of SyncStep, written out because a step is possible exactly
\* while a sync runs (and TLC is slow to find that out).  A sync that runs keeps
\* going: its waits end after ClusterTimeOut, and each remote command is assumed
\* to return, although the stream of one has no time limit in the code.
SyncFairness == []<>(s.pc \in {"idle", "hung"}) \/ []<><<SyncStep>>_vars

\* Resyncs keep coming, the informers and the StatefulSet controller do their
\* work and a broken Redis cluster recovers.
FairSpec ==
    /\ Spec
    /\ WF_vars(StartSync) /\ SyncFairness
    /\ WF_vars(RedisClusterInformed) /\ WF_vars(StatefulSetInformed)
    /\ WF_vars(PodsCreated) /\ WF_vars(PodReady) /\ WF_vars(ClusterHeals)
-----------------------------------------------------------------------------
Conditions == [pod : Pods, master : {0} \cup Pods, slots : BOOLEAN]
RedisClusters ==
    [replicas : Sizes, strategy : Strategies,
     status : [replicas : {0} \cup Sizes, phase : Phases, reason : BOOLEAN,
               conds : SUBSET Conditions]]
StatefulSets == [spec : {0} \cup Sizes, pods : BOOLEAN]

\* The procedure that a step belongs to; the steps after the plan are shared.
Belongs(pc, job) ==
    /\ pc \in {"creating", "apply", "trib", "createNodes"} => job = "create"
    /\ pc \in {"refuse", "scaling", "applyScale", "upgrading"} => job = "upgrade"
    /\ pc \in {"probe", "classify"} => job = "check"
    /\ pc = "wait" => job \in {"create", "check", "upgrade"}

\* A sync that runs has a RedisCluster.
Quiet(t) == t.pc \in {"idle", "hung"}
SyncType(t) ==
    /\ DOMAIN t = DOMAIN Idle
    /\ t.pc \in Steps /\ t.job \in Jobs /\ t.fresh \in BOOLEAN /\ t.stsSeen \in BOOLEAN
    /\ Quiet(t) \/ t.rc \in RedisClusters
    /\ Belongs(t.pc, t.job)

TypeOK ==
    /\ cr \in RedisClusters /\ crCache \in RedisClusters /\ cacheFresh \in BOOLEAN
    /\ sts \in StatefulSets /\ stsCache \in StatefulSets /\ ready \subseteq 1..sts.spec
    /\ DOMAIN clu = Pods /\ parent \in [Pods -> {0} \cup Pods]
    /\ slots \in [Pods -> BOOLEAN] /\ ok \in BOOLEAN
    /\ SyncType(s)

Joined == {p \in Pods : clu[p] # 0}

\* Over retries, conflicts, crashes and half-done commands, the instances form
\* one cluster: no repeated creation founds a second one beside it.  (It may, if
\* the RedisCluster is edited to twice its size or more.)
OneCluster == \A p, q \in Joined : clu[p] = clu[q]

\* Over the same, every slave has a master of its own in the cluster: the master
\* a sync chose for it still has no slave, and is no slave, when it gets there.
EachSlaveItsMaster ==
    /\ \A p \in Joined : parent[p] # 0 => parent[p] \in Joined /\ parent[parent[p]] = 0
    /\ \A p, q \in Joined : parent[p] = parent[q] /\ parent[p] # 0 => p = q

\* Half of the instances at most are masters, as long as no add-node --slave
\* stops half-way: the planner counts the masters that joined before a crash.
HalfAreMasters == Cardinality({p \in Joined : parent[p] = 0}) <= sts.spec \div 2

\* The status lists only instances that are in the cluster, with their master.
StatusIsTrue ==
    \A c \in cr.status.conds : c.pod \in Joined /\ c.master = parent[c.pod]

\* "RedisClusterRunning means the RedisCluster is Running after RedisCluster
\* create and initialize success" (types.go): Running without a reason and with
\* every instance listed means that every master serves slots and has a slave.
Complete(n) ==
    /\ \A p \in 1..n : p \in Joined
    /\ \A p \in 1..n : parent[p] = 0 => slots[p] /\ \E q \in 1..n : parent[q] = p
RunningIsComplete ==
    /\ cr.status.phase = "Running" /\ ~cr.status.reason
    /\ Cardinality(cr.status.conds) = cr.replicas
    => Complete(cr.replicas)

\* Crashes and edits alone never make that untrue while the slots are given by
\* rebalance; a failed call may (the slots of a failed rebalance).
RunningSurvivesCrashes == faults = 0 => RunningIsComplete

\* "fewer instances than the StatefulSet has: only check the state, no scale-in"
\* (sync): the StatefulSet is never shrunk below an instance of the cluster.
ClusterKeepsItsPods == Joined \subseteq 1..sts.spec

\* "this is unreachable" (checkAndUpdateRedisClusterStatus): a repair that works
\* with the stored RedisCluster, not with an old copy, finds a phase it can handle.
UnreachablePhase ==
    s.pc = "classify" /\ s.fresh =>
       RepairPhase(s.rc.status) \in {"Creating", "Scaling", "Upgrading"}

\* "take one ip from each node until we run out of addr across every node"
\* (composeMasterSlaveIP): the loop comes to an end.
PlanningEnds == s.pc # "hung"

Settled ==
    /\ cr.status.phase = "Running" /\ ~cr.status.reason
    /\ {c.pod : c \in cr.status.conds} = 1..cr.replicas
    /\ Complete(cr.replicas)

\* In the end the cluster has every instance the RedisCluster asks for and its
\* status says so: a creation over failed calls and crashes, and an edit at any
\* time in which nothing fails.  (An upgrade that fails is given up, as
\* UnreachablePhase and RunningIsComplete show.)
Undisturbed == edits = 0 \/ (faults = 0 /\ restarts = 0)
Converges == []Undisturbed => <>[]Settled

\* "probe the health of the cluster all the time and keep the status up to date"
\* (sync): a cluster whose Redis state is ok is not reported as Failed for ever.
RecoveryIsReported == []<>(cr.status.phase # "Failed")

\* Seen from the Redis nodes alone, whatever syncs, crashes and retries come
\* between: the cluster is founded once and grows as Topology says, instance by
\* instance, and only masters get slots.
Serving == {p \in Pods : slots[p]}
Contract == INSTANCE Topology WITH size <- sts.spec, members <- Joined, serving <- Serving
ImplementsTopology == Contract!Spec
=============================================================================
