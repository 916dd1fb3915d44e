----------------------- MODULE ReconcileRunningProofs -----------------------
(***************************************************************************)
(* What the plans of a growing cluster come to.  As long as the            *)
(* RedisCluster grows to less than twice its size, no IP is part of        *)
(* another and no add-node --slave stops half-way, half of the instances   *)
(* at most are masters, every plan can be computed and the Redis nodes     *)
(* grow as Topology says; if nothing at all fails but the operator, which  *)
(* may crash anywhere, a cluster that is reported as Running with every    *)
(* instance is complete.                                                   *)
(***************************************************************************)
EXTENDS ReconcileClusterProofs

\* The steps of a sync that is neither over nor failing.
Follows(a, b) ==
    \/ a = "creating" /\ b = "apply"
    \/ a \in {"apply", "applyScale"} /\ b = "wait"
    \/ a = "scaling" /\ b = "applyScale"
    \/ a = "wait" /\ b \in {"trib", "classify", "upgrading"}
    \/ a = "classify" /\ b \in {"wait", "plan"}
    \/ a = "trib" /\ b = "createNodes"
    \/ a = "upgrading" /\ b = "plan"
    \/ a = "plan" /\ b = "addMasters"
    \/ a = "addMasters" /\ b \in {"addMasters", "addSlaves"}
    \/ a = "createNodes" /\ b = "addSlaves"
    \/ a = "addSlaves" /\ b = "addSlaves"
    \/ SlotsFollow(a, b)
    \/ a = "verify" /\ b = "finish"

\* What such a step takes up: the addresses after the wait, another procedure
\* after the switch on the phase, an instance to run commands through.
Onward(t) ==
    /\ Follows(s.pc, t.pc)
    /\ s.pc # "classify" => t.job = s.job
    /\ s.pc = "classify" =>
          /\ t.pc = "wait" => t.job \in {"create", "upgrade"}
          /\ t.pc = "plan" => t.job \in {"repairCreate", "repairUpgrade"}
    /\ s.pc \notin {"trib", "classify", "upgrading"} => t.exist = s.exist
    /\ CASE s.pc = "wait" -> t.eps = Addresses /\ Cardinality(ready) = s.rc.replicas
         [] s.pc = "classify" /\ t.pc = "wait" -> t.eps = <<>>
         [] OTHER -> t.eps = s.eps

\* Where a failed call leads to a report.
Fails == Fail /\ s.pc \in {"wait", "classify", "trib", "createNodes", "plan", "addMasters",
                           "addSlaves", "info", "slotNodes", "slots", "verify"}
Hung == [Idle EXCEPT !.pc = "hung"]
Course(t) == t = Idle \/ Onward(t)

\* The status update goes on as it was told or ends the sync.
LEMMA UpdateCourse ==
    ASSUME NEW phase, NEW reason, NEW addrs, NEW next, DOMAIN next = DOMAIN Idle,
           Course(next), updateRedisClusterStatus(phase, reason, addrs, next)
    PROVE  Course(s')
<1>1. s' = Idle \/ s' = next \/ (next # Idle /\ s' = [next EXCEPT !.rc = cr'])
      BY Zenon DEF updateRedisClusterStatus
<1>2. CASE next # Idle /\ s' = [next EXCEPT !.rc = cr']
  <2>1. s'.pc = next.pc /\ s'.job = next.job /\ s'.exist = next.exist /\ s'.eps = next.eps
        BY <1>2, IdleFields
  <2>2. Onward(next)
        BY <1>2 DEF Course
  <2> QED
        BY <2>1, <2>2 DEF Course, Onward
<1> QED
      BY <1>1, <1>2 DEF Course

LEMMA ReturnCourse ==
    ASSUME NEW phase, NEW reason, NEW addrs, Return(phase, reason, addrs)
    PROVE  s' = Idle
BY Zenon DEF Return, updateRedisClusterStatus

\* The same procedure goes on at another step.
LEMMA StepCourse ==
    ASSUME TypeOK, NEW pc, Follows(s.pc, pc), s.pc \notin {"wait", "trib", "classify", "upgrading"}
    PROVE  /\ Onward([s EXCEPT !.pc = pc]) /\ DOMAIN [s EXCEPT !.pc = pc] = DOMAIN Idle
<1>1. /\ [s EXCEPT !.pc = pc].pc = pc /\ [s EXCEPT !.pc = pc].job = s.job
      /\ [s EXCEPT !.pc = pc].exist = s.exist /\ [s EXCEPT !.pc = pc].eps = s.eps
      BY SyncFields
<1> QED
      BY <1>1, SyncFields, IdleFields DEF Onward

\* Every step of a sync ends it, fails, hangs in the planner or goes on.
LEMMA SyncCourse ==
    ASSUME TypeOK, SyncStep
    PROVE  \/ s' = Idle \/ Fails \/ Onward(s')
           \/ PlanAdditions /\ s' = Hung
<1>1. DOMAIN s = {"pc", "job", "rc", "fresh", "stsSeen", "eps", "old", "exist",
                  "masters", "todoM", "todoS"}
      BY SyncFields
<1>2. CASE UpdateCreating
  <2>1. /\ s.pc = "creating"
        /\ \/ updateRedisClusterStatus("Creating", FALSE, <<>>, [s EXCEPT !.pc = "apply"])
           \/ s' = Idle
        BY <1>2 DEF UpdateCreating
  <2>2. Onward([s EXCEPT !.pc = "apply"]) /\ DOMAIN [s EXCEPT !.pc = "apply"] = DOMAIN Idle
        BY <2>1, StepCourse DEF Follows
  <2> QED
        BY <2>1, <2>2, UpdateCourse DEF Course
<1>3. CASE ApplyStatefulSet
  <2>1. s.pc = "apply" /\ (s' = Idle \/ s' = [s EXCEPT !.pc = "wait"])
        BY <1>3 DEF ApplyStatefulSet
  <2> QED
        BY <2>1, StepCourse DEF Follows
<1>4. CASE RefuseUpgrade
  <2>1. (\E p \in ready : Return("Running", TRUE, <<p>>)) \/ s' = Idle
        BY <1>4 DEF RefuseUpgrade
  <2> QED
        BY <2>1, ReturnCourse
<1>5. CASE UpdateScaling
  <2> DEFINE t == [s EXCEPT !.pc = "applyScale", !.old = Addresses]
  <2>1. /\ s.pc = "scaling"
        /\ \/ updateRedisClusterStatus("Scaling", FALSE, <<>>, t)
           \/ s' = Idle \/ Return("Failed", TRUE, <<>>) \/ Return("Scaling", FALSE, <<>>)
        BY <1>5 DEF UpdateScaling
  <2>2. /\ t.pc = "applyScale" /\ t.job = s.job /\ t.exist = s.exist /\ t.eps = s.eps
        /\ DOMAIN t = DOMAIN Idle
        BY <1>1, IdleFields
  <2> HIDE DEF t
  <2>3. Onward(t)
        BY <2>1, <2>2 DEF Onward, Follows
  <2> QED
        BY <2>1, <2>2, <2>3, UpdateCourse, ReturnCourse DEF Course
<1>6. CASE ScaleStatefulSet
  <2>1. s.pc = "applyScale" /\ (s' = Idle \/ s' = [s EXCEPT !.pc = "wait"])
        BY <1>6 DEF ScaleStatefulSet
  <2> QED
        BY <2>1, StepCourse DEF Follows
<1>7. CASE ProbeCluster
  <2>1. s' = Idle \/ Return("Failed", TRUE, Addresses) \/ Return("Running", FALSE, Addresses)
        BY <1>7 DEF ProbeCluster
  <2> QED
        BY <2>1, ReturnCourse
<1>8. CASE WaitPodsReady
  <2> DEFINE pc == CASE s.job = "create" -> "trib"
                     [] s.job = "check" -> "classify"
                     [] s.job = "upgrade" -> "upgrading"
  <2>1. /\ s.pc = "wait"
        /\ \/ Fail \/ s' = Idle
           \/ /\ Cardinality(ready) = s.rc.replicas
              /\ s' = [s EXCEPT !.eps = Addresses, !.pc = pc]
        BY <1>8, Zenon DEF WaitPodsReady
  <2>2. s.job \in {"create", "check", "upgrade"}
        BY <2>1 DEF TypeOK, SyncType, Belongs
  <2>3. pc \in {"trib", "classify", "upgrading"}
        BY <2>2
  <2> HIDE DEF pc
  <2>4. CASE /\ Cardinality(ready) = s.rc.replicas
             /\ s' = [s EXCEPT !.eps = Addresses, !.pc = pc]
    <3>1. s'.pc = pc /\ s'.job = s.job /\ s'.exist = s.exist /\ s'.eps = Addresses
          BY <1>1, <2>4
    <3> QED
          BY <2>1, <2>3, <2>4, <3>1 DEF Onward, Follows
  <2> QED
        BY <2>1, <2>4 DEF Fails
<1>9. CASE Classify
  <2> DEFINE again(job) == [s EXCEPT !.job = job, !.pc = "wait", !.eps = <<>>]
             upgrade(job, old) == [s EXCEPT !.job = job, !.pc = "wait", !.eps = <<>>, !.old = old]
             repair(job, exist) == [s EXCEPT !.job = job, !.pc = "plan", !.exist = exist]
  <2>1. /\ s.pc = "classify"
        /\ \/ Fail \/ s' = Idle \/ s' = again("create")
           \/ \E old : s' = upgrade("upgrade", old)
           \/ \E e : s' = repair("repairCreate", e) \/ s' = repair("repairUpgrade", e)
        BY <1>9 DEF Classify
  <2>2. \A job : again(job).pc = "wait" /\ again(job).job = job /\ again(job).eps = <<>>
        BY <1>1
  <2>3. \A job, o : /\ upgrade(job, o).pc = "wait" /\ upgrade(job, o).job = job
                    /\ upgrade(job, o).eps = <<>>
        BY <1>1
  <2>4. \A job, e : repair(job, e).pc = "plan" /\ repair(job, e).job = job /\ repair(job, e).eps = s.eps
        BY <1>1
  <2> HIDE DEF again, upgrade, repair
  <2>5. CASE s' = again("create")
        BY <2>1, <2>2, <2>5 DEF Onward, Follows
  <2>6. ASSUME NEW old, s' = upgrade("upgrade", old) PROVE Onward(s')
        BY <2>1, <2>3, <2>6 DEF Onward, Follows
  <2>7. ASSUME NEW e, s' = repair("repairCreate", e) \/ s' = repair("repairUpgrade", e)
        PROVE  Onward(s')
        BY <2>1, <2>4, <2>7 DEF Onward, Follows
  <2> QED
        BY <2>1, <2>5, <2>6, <2>7 DEF Fails
<1>10. CASE CreateCluster
  <2> DEFINE next(e, ms, todo) == [s EXCEPT !.pc = "createNodes", !.exist = e, !.masters = ms,
                                            !.todoS = todo]
  <2>1. s.pc = "trib" /\ (Fail \/ \E e, ms, todo : s' = next(e, ms, todo))
    <3> DEFINE a == assignMasterSlaveIP(s.eps, NodeOf)
    <3>1. s.pc = "trib" /\ (Fail \/ s' = next(Head(a.masters), a.masters, Pairs(a.slaves, a.masters)))
          BY <1>10, Zenon DEF CreateCluster
    <3> HIDE DEF next
    <3> QED
          BY <3>1, Zenon
  <2>2. \A e, ms, todo : /\ next(e, ms, todo).pc = "createNodes" /\ next(e, ms, todo).job = s.job
                         /\ next(e, ms, todo).eps = s.eps
        BY <1>1
  <2> HIDE DEF next
  <2> QED
        BY <2>1, <2>2 DEF Onward, Follows, Fails
<1>11. CASE CreateNodes
  <2>1. s.pc = "createNodes" /\ (Fail \/ s' = [s EXCEPT !.pc = "addSlaves"])
        BY <1>11 DEF CreateNodes
  <2> QED
        BY <2>1, StepCourse DEF Follows, Fails
<1>12. CASE UpdateUpgrading
  <2> DEFINE t == [s EXCEPT !.pc = "plan", !.exist = currentRedisClusterInfo]
             next == IF s.rc.strategy.type = "Other" THEN Idle ELSE t
  <2>1. /\ s.pc = "upgrading"
        /\ updateRedisClusterStatus("Upgrading", FALSE, <<>>, next) \/ s' = Idle
        BY <1>12 DEF UpdateUpgrading
  <2>2. t.pc = "plan" /\ t.job = s.job /\ t.eps = s.eps /\ DOMAIN t = DOMAIN Idle
        BY <1>1, IdleFields
  <2> HIDE DEF t
  <2>3. Onward(t)
        BY <2>1, <2>2 DEF Onward, Follows
  <2>4. Course(next) /\ DOMAIN next = DOMAIN Idle
        BY <2>2, <2>3 DEF Course
  <2> HIDE DEF next
  <2> QED
        BY <2>1, <2>4, UpdateCourse DEF Course
<1>13. CASE PlanAdditions
  <2> DEFINE plan == composeMasterSlaveIP(s.eps, NodeOf, Masters(s.exist),
                          Slaves(s.exist), {parent[q] : q \in Slaves(s.exist)})
             next(ms, todo) == [s EXCEPT !.pc = "addMasters", !.masters = ms, !.todoM = ms,
                                         !.todoS = todo]
  <2>1. /\ s.pc = "plan"
        /\ \/ Fail
           \/ s' = CASE plan.result = "hang" -> [Idle EXCEPT !.pc = "hung"]
                     [] plan.result = "panic" -> Idle
                     [] plan.result = "plan" -> next(plan.masters, Pairs(plan.slaves, plan.parents))
        BY <1>13, Zenon DEF PlanAdditions
  <2>2. plan.result \in {"hang", "panic", "plan"}
        BY DEF composeMasterSlaveIP, NothingToAdd
  <2>3. \A ms, todo : /\ next(ms, todo).pc = "addMasters" /\ next(ms, todo).job = s.job
                      /\ next(ms, todo).eps = s.eps /\ next(ms, todo).exist = s.exist
        BY <1>1
  <2> HIDE DEF plan, next
  <2>4. \A ms, todo : s' = next(ms, todo) => Onward(s')
        BY <2>1, <2>3 DEF Onward, Follows
  <2> QED
        BY <1>13, <2>1, <2>2, <2>4 DEF Hung, Fails
<1>14. CASE AddMaster
  <2>1. s.pc = "addMasters" /\ (Fail \/ s' = [s EXCEPT !.todoM = Tail(@)])
        BY <1>14 DEF AddMaster
  <2>2. CASE s' = [s EXCEPT !.todoM = Tail(@)]
    <3>1. s'.pc = s.pc /\ s'.job = s.job /\ s'.exist = s.exist /\ s'.eps = s.eps
          BY <1>1, <2>2
    <3> QED
          BY <2>1, <3>1 DEF Onward, Follows
  <2> QED
        BY <2>1, <2>2 DEF Fails
<1>15. CASE NodesAfterMasters
  <2> DEFINE next(ids, todo) == [s EXCEPT !.pc = "addSlaves", !.masters = ids, !.todoS = todo]
             todoFor(ids) == [i \in DOMAIN s.todoS |-> <<s.todoS[i][1], ids[i]>>]
  <2>1. /\ s.pc = "addMasters"
        /\ \/ Fail \/ s' = [s EXCEPT !.pc = "addSlaves"]
           \/ \E ids \in NewMasterNodes : s' = next(ids, todoFor(ids))
        BY <1>15 DEF NodesAfterMasters
  <2>2. \A ids, todo : /\ next(ids, todo).pc = "addSlaves" /\ next(ids, todo).job = s.job
                       /\ next(ids, todo).eps = s.eps /\ next(ids, todo).exist = s.exist
        BY <1>1
  <2> HIDE DEF next, todoFor
  <2>3. \A ids, todo : s' = next(ids, todo) => Onward(s')
        BY <2>1, <2>2 DEF Onward, Follows
  <2>4. CASE s' = [s EXCEPT !.pc = "addSlaves"]
        BY <2>1, <2>4, StepCourse DEF Follows
  <2> QED
        BY <2>1, <2>3, <2>4 DEF Fails
<1>16. CASE AddSlave
  <2>1. s.pc = "addSlaves" /\ (Fail \/ s' = [s EXCEPT !.todoS = Tail(@)])
        BY <1>16 DEF AddSlave
  <2>2. CASE s' = [s EXCEPT !.todoS = Tail(@)]
    <3>1. s'.pc = s.pc /\ s'.job = s.job /\ s'.exist = s.exist /\ s'.eps = s.eps
          BY <1>1, <2>2
    <3> QED
          BY <2>1, <3>1 DEF Onward, Follows
  <2> QED
        BY <2>1, <2>2 DEF Fails
<1>17. CASE GivesSlots
  <2>1. Along(s') => Onward(s')
        BY SlotSteps, <1>17 DEF Along, SlotsFollow, Onward, Follows
  <2> QED
        BY <1>17, <2>1, SlotSteps DEF Fails
<1>18. CASE VerifyNodes
  <2>1. s.pc = "verify" /\ (Fail \/ s' = [s EXCEPT !.pc = "finish"] \/ s' = Idle)
        BY <1>18 DEF VerifyNodes
  <2> QED
        BY <2>1, StepCourse DEF Follows, Fails
<1>19. CASE UpdateRunning \/ ReportFailure
  <2>1. \/ Return("Running", FALSE, s.eps) \/ Return("Failed", TRUE, s.eps)
        \/ Return("Running", TRUE, s.eps) \/ s' = Idle
        BY <1>19 DEF UpdateRunning, ReportFailure
  <2> QED
        BY <2>1, ReturnCourse
<1> QED
      BY <1>2, <1>3, <1>4, <1>5, <1>6, <1>7, <1>8, <1>9, <1>10, <1>11, <1>12, <1>13, <1>14,
         <1>15, <1>16, <1>17, <1>18, <1>19 DEF SyncStep, GivesSlots
-----------------------------------------------------------------------------
(***************************************************************************)
(* The sync's copy of the RedisCluster and the addresses it works with.    *)
(***************************************************************************)
\* A copy that is taken for the stored object is the stored object.
Fresh ==
    /\ cacheFresh => crCache = cr
    /\ ~Quiet(s) /\ s.fresh => s.rc = cr

LEMMA FreshStep ==
    ASSUME TypeOK, Fresh, [Next]_vars
    PROVE  Fresh'
<1>1. CASE SyncStep
  <2>1. ~Quiet(s) /\ (Kept \/ Wrote)
        BY <1>1, SyncMoves DEF Moves
  <2>2. CASE Kept
        BY <2>1, <2>2 DEF Kept, Fresh, Quiet
  <2>3. CASE Wrote
        BY <2>1, <2>3 DEF Wrote, Fresh, Quiet
  <2> QED
        BY <2>1, <2>2, <2>3
<1>2. CASE StartSync
  <2>1. s'.rc = crCache /\ s'.fresh = cacheFresh
        BY <1>2, BeginType
  <2> QED
        BY <1>2, <2>1 DEF StartSync, Fresh, crVars
<1>3. CASE EditRedisCluster
      BY <1>3, EditType DEF EditRedisCluster, Fresh
<1>4. CASE RedisClusterInformed
      BY <1>4 DEF RedisClusterInformed, Fresh, Quiet
<1>5. CASE Restart
      BY <1>5, IdleFields DEF Restart, Fresh, Quiet
<1>6. CASE \/ UNCHANGED vars \/ StatefulSetInformed \/ PodsCreated \/ PodReady \/ PodUnready
           \/ ClusterBreaks \/ ClusterHeals
  <2>1. UNCHANGED crVars /\ s' = s
        BY <1>6 DEF vars, StatefulSetInformed, PodsCreated, PodReady, PodUnready,
                    ClusterBreaks, ClusterHeals
  <2> QED
        BY <2>1 DEF Fresh, Quiet, crVars
<1> QED
      BY <1>1, <1>2, <1>3, <1>4, <1>5, <1>6 DEF Next, Environment

\* A sync keeps the size and the strategy it began with.
LEMMA CopyKept ==
    ASSUME TypeOK, Fresh, SyncStep
    PROVE  \/ Quiet(s')
           \/ s'.rc.replicas = s.rc.replicas /\ s'.rc.strategy = s.rc.strategy
<1>1. ~Quiet(s) /\ (Kept \/ Wrote)
      BY SyncMoves DEF Moves
<1>2. CASE Wrote /\ ~Quiet(s')
  <2>1. s.rc = cr /\ s'.rc = cr'
        BY <1>1, <1>2 DEF Wrote, Fresh
  <2>2. PICK st \in Statuses : cr' = [cr EXCEPT !.status = st]
        BY <1>2 DEF Wrote
  <2>3. DOMAIN cr = {"replicas", "strategy", "status"}
        BY DEF TypeOK, RedisClusters
  <2>4. cr'.replicas = cr.replicas /\ cr'.strategy = cr.strategy
        BY <2>2, <2>3
  <2> QED
        BY <2>1, <2>4
<1> QED
      BY <1>1, <1>2 DEF Kept

\* From the wait on a sync works with all n instances of the StatefulSet, in
\* order; before, and after a failed wait, it has no addresses.
Past(pc) == pc \in {"classify", "trib", "createNodes", "upgrading", "plan", "addMasters",
                    "addSlaves", "info", "slotNodes", "slots", "verify", "finish"}
Works(t, n) ==
    /\ Past(t.pc) => t.eps = InOrder(n) /\ t.rc.replicas = n
    /\ t.pc = "fail" => t.eps = <<>> \/ (t.eps = InOrder(n) /\ t.rc.replicas = n)
    /\ ~Past(t.pc) /\ t.pc # "fail" => t.eps = <<>>

LEMMA IdleWorks == \A n : Works(Idle, n) /\ Works(Hung, n)
<1>1. Idle.pc = "idle" /\ Idle.eps = <<>> /\ Hung.pc = "hung" /\ Hung.eps = <<>>
      BY IdleFields DEF Hung
<1> QED
      BY <1>1 DEF Works, Past

\* A successful wait has found every instance ready.
LEMMA AllReady ==
    ASSUME TypeOK, SizeInv, ~Quiet(s), Cardinality(ready) = s.rc.replicas
    PROVE  /\ ready = 1..sts.spec /\ sts.spec = s.rc.replicas /\ Addresses = InOrder(sts.spec)
           /\ sts.spec \in Sizes
<1>1. sts.spec \in Nat /\ 1..sts.spec \subseteq Pods /\ ready \subseteq 1..sts.spec
      BY SizeTypes DEF TypeOK
<1>2. sts.spec <= s.rc.replicas /\ s.rc.replicas \in Sizes /\ s.rc.replicas \in Nat
      BY SizeTypes DEF SizeInv, TypeOK, SyncType, RedisClusters
<1>3. IsFiniteSet(1..sts.spec) /\ Cardinality(1..sts.spec) = sts.spec
      BY <1>1, IntervalSize
<1>4. /\ Cardinality(ready) <= Cardinality(1..sts.spec)
      /\ Cardinality(1..sts.spec) = Cardinality(ready) => 1..sts.spec = ready
      BY <1>1, <1>3, FS_Subset
<1>5. ready = 1..sts.spec /\ sts.spec = s.rc.replicas
      BY <1>1, <1>2, <1>3, <1>4
<1> QED
      BY <1>1, <1>2, <1>5, AddressesInOrder

LEMMA WorksStep ==
    ASSUME TypeOK, SizeInv, Fresh, Works(s, sts.spec), SyncStep
    PROVE  Works(s', sts'.spec)
<1>1. ~Quiet(s)
      BY SyncMoves
<1>2. s.pc \notin {"apply", "applyScale"} => sts' = sts
      BY StsStep DEF Resized
<1>3. CASE Fails
  <2>1. s'.pc = "fail" /\ s'.eps = s.eps /\ s'.rc = s.rc
        BY <1>3, SyncFields DEF Fails, Fail
  <2> QED
        BY <1>2, <1>3, <2>1 DEF Fails, Works, Past
<1>4. CASE Onward(s')
  <2>1. s'.pc \notin {"idle", "hung"}
        BY <1>4 DEF Onward, Follows, SlotsFollow
  <2>2. s'.rc.replicas = s.rc.replicas
        BY <2>1, CopyKept DEF Quiet
  <2>3. CASE s.pc = "wait"
        BY <1>1, <1>2, <1>4, <2>2, <2>3, AllReady DEF Onward, Follows, SlotsFollow, Works, Past
  <2>4. CASE s.pc = "classify"
        BY <1>2, <1>4, <2>2, <2>4 DEF Onward, Follows, SlotsFollow, Works, Past
  <2>5. CASE s.pc \notin {"wait", "classify"}
    <3>1. s'.eps = s.eps
          BY <1>4, <2>5 DEF Onward
    <3>2. CASE s.pc \in {"creating", "apply", "scaling", "applyScale"}
          BY <1>4, <3>1, <3>2 DEF Onward, Follows, SlotsFollow, Works, Past
    <3>3. CASE s.pc \notin {"creating", "apply", "scaling", "applyScale"}
          BY <1>2, <1>4, <2>2, <2>5, <3>1, <3>3 DEF Onward, Follows, SlotsFollow, Works, Past
    <3> QED
          BY <3>2, <3>3
  <2> QED
        BY <2>3, <2>4, <2>5
<1> QED
      BY <1>3, <1>4, SyncCourse, IdleWorks

\* Failures are counted.
LEMMA SyncFaults ==
    ASSUME SyncStep
    PROVE  faults' = faults \/ faults' = faults + 1
<1>1. CASE UpdateCreating \/ ApplyStatefulSet \/ RefuseUpgrade \/ UpdateScaling \/ ScaleStatefulSet
      BY <1>1, Zenon DEF UpdateCreating, ApplyStatefulSet, RefuseUpgrade, UpdateScaling,
                         ScaleStatefulSet, NoFault, Faulty
<1>2. CASE ProbeCluster \/ WaitPodsReady \/ Classify \/ UpdateUpgrading
      BY <1>2, Zenon DEF ProbeCluster, WaitPodsReady, Classify, UpdateUpgrading, NoFault, Faulty
<1>3. CASE CreateCluster \/ CreateNodes
      BY <1>3, Zenon DEF CreateCluster, CreateNodes, NodesRead, NodesUnread, NoFault, Faulty
<1>4. CASE PlanAdditions
      BY <1>4, Zenon DEF PlanAdditions, NodesRead, NodesUnread, NoFault, Faulty
<1>5. CASE AddMaster \/ NodesAfterMasters \/ AddSlave
      BY <1>5, Zenon DEF AddMaster, NodesAfterMasters, AddSlave, NodesRead, NodesUnread,
                         NoFault, Faulty
<1>6. CASE GivesSlots
      BY <1>6, Zenon DEF GivesSlots, SlavesAdded, Rebalance, TribInfo, NodesBeforeSlots, Reshard,
                         SlotsGiven, NoStrategy, NodesRead, NodesUnread, NoFault, Faulty
<1>7. CASE VerifyNodes \/ UpdateRunning \/ ReportFailure
      BY <1>7, Zenon DEF VerifyNodes, UpdateRunning, ReportFailure, NodesRead, NodesUnread,
                         NoFault, Faulty
<1> QED
      BY <1>1, <1>2, <1>3, <1>4, <1>5, <1>6, <1>7 DEF SyncStep, GivesSlots

\* The same sync, but for whether its copy is the stored object.
SameSync(t) ==
    /\ t.pc = s.pc /\ t.job = s.job /\ t.rc = s.rc /\ t.eps = s.eps /\ t.exist = s.exist
    /\ t.masters = s.masters /\ t.todoM = s.todoM /\ t.todoS = s.todoS

\* What the other steps leave alone: the Redis nodes, the size of the StatefulSet
\* and, unless a sync begins or the operator crashes, the sync.
Other == UNCHANGED vars \/ StartSync \/ Environment
LEMMA OtherStep ==
    ASSUME TypeOK, Other
    PROVE  /\ clu' = clu /\ parent' = parent /\ slots' = slots /\ sts'.spec = sts.spec
           /\ faults' = faults \/ faults' = faults + 1
           /\ breaks' = breaks \/ (breaks < MaxBreaks /\ breaks' = breaks + 1)
           /\ (ok /\ ~ok') => breaks < MaxBreaks
           /\ StartSync \/ s' = Idle \/ SameSync(s')
<1>1. CASE UNCHANGED vars
      BY <1>1 DEF vars, redisVars, stsVars, budgetVars, SameSync
<1>2. CASE StartSync
      BY <1>2 DEF StartSync, redisVars, stsVars, budgetVars
<1>3. CASE PodsCreated
      BY <1>3, StatefulSetParts DEF PodsCreated, redisVars, budgetVars, TypeOK, SameSync
<1>4. CASE EditRedisCluster
  <2>1. SameSync(s')
        BY <1>4, SyncFields DEF EditRedisCluster, SameSync
  <2> QED
        BY <1>4, <2>1 DEF EditRedisCluster, redisVars, stsVars
<1>5. CASE \/ RedisClusterInformed \/ StatefulSetInformed \/ PodReady \/ PodUnready
           \/ ClusterBreaks \/ ClusterHeals \/ Restart
      BY <1>5 DEF RedisClusterInformed, StatefulSetInformed, PodReady, PodUnready,
                  ClusterBreaks, ClusterHeals, Restart, redisVars, stsVars, budgetVars,
                  Faulty, SameSync
<1> QED
      BY <1>1, <1>2, <1>3, <1>4, <1>5 DEF Other, Environment

\* The invariant so far.
BaseInv ==
    /\ TypeOK /\ SizeInv /\ ClusterInv /\ TopoInv /\ Fresh /\ Works(s, sts.spec)
    /\ faults \in Nat /\ breaks \in Nat

LEMMA SyncBreaks ==
    ASSUME SyncStep
    PROVE  breaks' = breaks /\ ok' = ok
BY DEF SyncStep, UpdateCreating, ApplyStatefulSet, RefuseUpgrade, UpdateScaling, ScaleStatefulSet,
       ProbeCluster, WaitPodsReady, Classify, CreateCluster, CreateNodes, UpdateUpgrading,
       PlanAdditions, AddMaster, NodesAfterMasters, AddSlave, SlavesAdded, Rebalance, TribInfo,
       NodesBeforeSlots, Reshard, SlotsGiven, NoStrategy, VerifyNodes, UpdateRunning,
       ReportFailure, budgetVars

LEMMA BaseInvStep ==
    ASSUME ScaleIn = FALSE, SlowGrowth, Alike = {}, BaseInv, [Next]_vars
    PROVE  BaseInv'
<1>1. TypeOK /\ SizeInv /\ ClusterInv /\ TopoInv /\ Fresh /\ Works(s, sts.spec)
      BY DEF BaseInv
<1>2. TypeOK'
      BY <1>1, StepType
<1>3. SizeInv'
      BY <1>1, <1>2, SizeInvStep
<1>4. ClusterInv' /\ TopoInv' /\ Fresh'
      BY <1>1, <1>2, ClusterInvStep, TopoInvStep, FreshStep
<1>5. SyncStep \/ Other
      BY DEF Next, Other
<1>6. faults' \in Nat /\ breaks' \in Nat
      BY <1>1, <1>5, OtherStep, SyncFaults, SyncBreaks DEF BaseInv
<1>7. Works(s', sts'.spec)
  <2>1. CASE SyncStep
        BY <1>1, <2>1, WorksStep
  <2>2. CASE StartSync
    <3>1. s'.eps = <<>> /\ s'.pc \in {"creating", "refuse", "scaling", "probe", "wait"}
          BY <1>1, <2>2, BeginType
    <3> QED
          BY <3>1 DEF Works, Past
  <2>3. CASE Other /\ SameSync(s')
    <3>1. sts'.spec = sts.spec
          BY <1>1, <2>3, OtherStep
    <3> QED
          BY <1>1, <2>3, <3>1 DEF Works, SameSync
  <2> QED
        BY <1>1, <1>5, <2>1, <2>2, <2>3, OtherStep, IdleWorks
<1>8. Works(s, sts.spec)'
      BY <1>7, Zenon DEF Works, Past, InOrder
<1> QED
      BY <1>2, <1>3, <1>4, <1>6, <1>8 DEF BaseInv

LEMMA InitBase ==
    ASSUME Init
    PROVE  BaseInv
<1>1. s = Idle /\ crCache = cr /\ faults = 0 /\ breaks = 0
      BY DEF Init
<1>2. Fresh
      BY <1>1, IdleFields DEF Fresh, Quiet
<1> QED
      BY <1>1, <1>2, InitType, InitSize, InitCluster, InitTopo, IdleWorks DEF BaseInv
-----------------------------------------------------------------------------
(***************************************************************************)
(* Half of the instances at most are masters.  The inductive invariant     *)
(* counts the masters that a sync has still to add, and says of the        *)
(* instances it means to add that they are different and in no cluster,    *)
(* and of the masters they are meant for that they are in the cluster or   *)
(* about to be added: an add-node --slave then never finds a slave where   *)
(* it expects a master.                                                    *)
(***************************************************************************)
MasterSet(k, par) == {p \in Pods : k[p] # 0 /\ par[p] = 0}
Awaited(m, t) == t.pc = "addMasters" /\ \E i \in 1..Len(t.todoM) : t.todoM[i] = m
Serves(m, t, k, par) == m \in MasterSet(k, par) \/ Awaited(m, t)

Chosen(t, k, par) ==
    /\ Adding(t) =>
          /\ \A i \in 1..Len(t.todoS) : /\ k[t.todoS[i][1]] = 0
                                        /\ Serves(t.todoS[i][2], t, k, par)
          /\ \A i, j \in 1..Len(t.todoS) : t.todoS[i][1] = t.todoS[j][1] => i = j
    /\ t.pc = "addMasters" =>
          /\ \A i \in 1..Len(t.todoM) : /\ k[t.todoM[i]] = 0
                                        /\ \A j \in 1..Len(t.todoS) : t.todoM[i] # t.todoS[j][1]
          /\ \A i, j \in 1..Len(t.todoM) : t.todoM[i] = t.todoM[j] => i = j
          /\ \A i \in 1..Len(t.masters) : Serves(t.masters[i], t, k, par)

Wanted(t) == IF t.pc = "addMasters" THEN Len(t.todoM) ELSE 0
Room(t, k, par, n) == Cardinality(MasterSet(k, par)) + Wanted(t) <= n \div 2

\* No add-node --slave has stopped half-way.
Whole == faults = 0 \/ "replicate" \notin FaultSteps
Balanced(t, k, par, n) == Chosen(t, k, par) /\ Room(t, k, par, n) /\ t.pc # "hung"
BalanceInv == Whole => Balanced(s, clu, parent, sts.spec)

\* What has gone half-way stays so.
LEMMA WholeBefore ==
    ASSUME BaseInv, [Next]_vars, Whole'
    PROVE  Whole
<1>1. faults \in Nat /\ (faults' = faults \/ faults' = faults + 1)
      BY OtherStep, SyncFaults DEF BaseInv, Next, Other
<1> QED
      BY <1>1 DEF Whole

\* The types of what a sync has to do, and the masters.
LEMMA BaseTypes ==
    ASSUME BaseInv
    PROVE  /\ DOMAIN clu = Pods /\ parent \in [Pods -> {0} \cup Pods] /\ 0 \notin Pods
           /\ slots \in [Pods -> BOOLEAN]
           /\ sts.spec \in Nat /\ 1..sts.spec \subseteq Pods
           /\ s.todoM \in Seq(Pods) /\ s.todoS \in Seq(Pods \X Pods) /\ s.masters \in Seq(Pods)
           /\ IsFiniteSet(MasterSet(clu, parent)) /\ Cardinality(MasterSet(clu, parent)) \in Nat
           /\ MasterSet(clu, parent) \subseteq Pods /\ OneCluster /\ Structure
           /\ Handles(s, sts.spec) /\ Works(s, sts.spec)
<1>1. TypeOK /\ SizeInv /\ ClusterInv /\ TopoInv /\ Works(s, sts.spec)
      BY DEF BaseInv
<1>2. MasterSet(clu, parent) \subseteq Pods
      BY DEF MasterSet
<1>3. IsFiniteSet(MasterSet(clu, parent)) /\ Cardinality(MasterSet(clu, parent)) \in Nat
      BY <1>2, PodsBySize, FS_Subset, FS_CardinalityType
<1> QED
      BY <1>1, <1>2, <1>3, PodsBySize, SizeTypes DEF TypeOK, TopoInv, WorkIn, ClusterInv

\* There is one cluster: what is seen through one of its instances is all.
LEMMA SeenIsAll ==
    ASSUME BaseInv, s.exist \in Pods, clu[s.exist] # 0
    PROVE  Cluster(s.exist) = Joined /\ Masters(s.exist) = MasterSet(clu, parent)
<1>1. Cluster(s.exist) = Joined
      BY BaseTypes DEF Cluster, Joined, OneCluster
<1> QED
      BY <1>1 DEF Masters, MasterSet, Joined

\* A sync that is not adding needs no more than the room for the masters.
LEMMA NotAddingBalanced ==
    ASSUME BaseInv, BaseInv', Balanced(s, clu, parent, sts.spec), ~Adding(s'), s'.pc # "hung",
           clu' = clu, parent' = parent, sts.spec <= sts'.spec
    PROVE  Balanced(s', clu', parent', sts'.spec)
<1>1. /\ sts.spec \in Nat /\ sts'.spec \in Nat /\ Cardinality(MasterSet(clu, parent)) \in Nat
      /\ s.todoM \in Seq(Pods)
  <2>1. sts'.spec \in {0} \cup Sizes
        BY StatefulSetParts DEF BaseInv, TypeOK
  <2> QED
        BY <2>1, BaseTypes, PodsBySize
<1>2. Wanted(s) \in Nat /\ Wanted(s') = 0
      BY <1>1 DEF Wanted, Adding
<1>3. Cardinality(MasterSet(clu, parent)) + Wanted(s) <= sts.spec \div 2
      BY DEF Balanced, Room
<1>4. Cardinality(MasterSet(clu', parent')) = Cardinality(MasterSet(clu, parent))
      BY Zenon
<1>5. sts.spec \div 2 <= sts'.spec \div 2
      BY <1>1
<1>6. Room(s', clu', parent', sts'.spec)
      BY <1>1, <1>2, <1>3, <1>4, <1>5 DEF Room
<1>7. Chosen(s', clu', parent')
      BY DEF Chosen, Adding
<1> QED
      BY <1>6, <1>7 DEF Balanced

\* The masters after add-node.
LEMMA GrewMasters ==
    ASSUME BaseInv, NEW p \in Pods, NEW m, Grew(p, m)
    PROVE  /\ p \notin MasterSet(clu, parent) /\ clu'[p] # 0 /\ parent'[p] = m
           /\ m = 0 => /\ MasterSet(clu', parent') = MasterSet(clu, parent) \cup {p}
                       /\ Cardinality(MasterSet(clu', parent'))
                            = Cardinality(MasterSet(clu, parent)) + 1
           /\ m # 0 => MasterSet(clu', parent') = MasterSet(clu, parent)
           /\ \A q \in Pods : q # p => clu'[q] = clu[q] /\ parent'[q] = parent[q]
<1>1. /\ clu[p] = 0 /\ clu[s.exist] # 0
      /\ clu' = [clu EXCEPT ![p] = clu[s.exist]] /\ parent' = [parent EXCEPT ![p] = m]
      BY DEF Grew
<1>2. DOMAIN clu = Pods /\ DOMAIN parent = Pods /\ IsFiniteSet(MasterSet(clu, parent))
      BY BaseTypes
<1>3. /\ clu'[p] # 0 /\ parent'[p] = m
      /\ \A q \in Pods : q # p => clu'[q] = clu[q] /\ parent'[q] = parent[q]
      BY <1>1, <1>2
<1>4. p \notin MasterSet(clu, parent)
      BY <1>1 DEF MasterSet
<1>5. m = 0 => MasterSet(clu', parent') = MasterSet(clu, parent) \cup {p}
      BY <1>3 DEF MasterSet
<1>6. m # 0 => MasterSet(clu', parent') = MasterSet(clu, parent)
      BY <1>1, <1>3 DEF MasterSet
<1>7. Cardinality(MasterSet(clu, parent) \cup {p}) = Cardinality(MasterSet(clu, parent)) + 1
      BY <1>2, <1>4, FS_AddElement
<1> QED
      BY <1>3, <1>4, <1>5, <1>6, <1>7

\* The cluster after redis-trib create: its masters are half of the instances.
LEMMA FoundedMasters ==
    ASSUME SlowGrowth, BaseInv, Founded
    PROVE  /\ MasterSet(clu', parent') = Founders /\ Founders \subseteq Pods
           /\ \A p \in Pods : clu'[p] # 0 <=> p \in Founders
           /\ \A p \in Pods : parent'[p] = 0
           /\ Cardinality(Founders) = sts.spec \div 2
           /\ NewPlan(assignMasterSlaveIP(s.eps, NodeOf), 1..sts.spec, sts.spec \div 2)
<1> DEFINE n == sts.spec
           a == assignMasterSlaveIP(s.eps, NodeOf)
<1>1. TypeOK /\ Rooted /\ Handles(s, n) /\ Structure
      BY BaseTypes DEF BaseInv, ClusterInv
<1>2. /\ \A p \in Pods : clu[p] = 0
      /\ \A p \in Pods : clu'[p] = IF p \in Founders THEN NewCluster ELSE 0
      /\ n \in Sizes /\ s.eps = InOrder(n)
      BY <1>1, FoundedOnce
<1>3. n \in Nat \ {0} /\ 1..n \subseteq Pods
      BY <1>2, PodsBySize, ReconcileAssumption
<1>4. NewCluster = 1
  <2>1. {clu[p] : p \in Pods} = {0}
    <3>1. 1 \in Pods
          BY <1>3
    <3> QED
          BY <1>2, <3>1
  <2>2. {0} \subseteq Nat /\ {0} # {} /\ IsFiniteSet({0})
        BY FS_Singleton
  <2>3. Max({0}) \in {0}
        BY <2>2, MaxNat
  <2>4. Max({clu[p] : p \in Pods}) = 0
        BY <2>1, <2>3
  <2> QED
        BY <2>4 DEF NewCluster
<1>5. Len(s.eps) = n /\ Lists(s.eps, 1..n)
  <2> DEFINE l == InOrder(n)
  <2>1. l \in Seq(Nat) /\ Len(l) = n /\ \A i \in 1..n : l[i] = i
        BY <1>3 DEF InOrder
  <2> HIDE DEF l
  <2>2. Len(l) = n /\ Lists(l, 1..n)
        BY <1>3, <2>1 DEF Lists
  <2> QED
        BY <1>2, <2>2 DEF l
<1>6. NewPlan(a, 1..n, n \div 2)
  <2>1. \A x \in 1..n : NodeOf[x] \in Int
        BY <1>3, ReconcileAssumption
  <2> QED
        BY <1>5, <2>1, assignResult
<1> HIDE DEF a
<1>7. PICK M \in SUBSET (1..n) : Lists(a.masters, M) /\ Len(a.masters) = n \div 2
      BY <1>6 DEF NewPlan
<1>8. Founders = M /\ Cardinality(M) = n \div 2
      BY <1>7, ListsToSet, ListsSize DEF Founders, a
<1>9. Founders \subseteq Pods
      BY <1>3, <1>7, <1>8
<1>10. \A p \in Pods : clu'[p] # 0 <=> p \in Founders
      BY <1>2, <1>4
<1>11. \A p \in Pods : parent'[p] = 0
      BY <1>1, <1>2 DEF Structure, Founded
<1>12. MasterSet(clu', parent') = Founders
      BY <1>9, <1>10, <1>11 DEF MasterSet
<1> QED
      BY <1>6, <1>8, <1>9, <1>10, <1>11, <1>12 DEF a

\* There are as many slaves as masters that have one.
LEMMA SlavesOfMasters ==
    ASSUME BaseInv, s.exist \in Pods, clu[s.exist] # 0
    PROVE  /\ Having \subseteq Masters(s.exist)
           /\ Cardinality(Slaves(s.exist)) = Cardinality(Having)
<1> DEFINE S == Slaves(s.exist)
           f == [x \in S |-> parent[x]]
<1>1. Cluster(s.exist) = Joined /\ Masters(s.exist) = MasterSet(clu, parent)
      BY SeenIsAll
<1>2. Structure /\ parent \in [Pods -> {0} \cup Pods] /\ IsFiniteSet(MasterSet(clu, parent))
      BY BaseTypes
<1>3. \A x \in S : x \in Pods /\ clu[x] # 0 /\ parent[x] # 0 /\ parent[x] \in Pods
      BY <1>1, <1>2 DEF Slaves, MasterSet, Joined
<1>4. Having \subseteq MasterSet(clu, parent)
      BY <1>2, <1>3 DEF Having, MasterSet, Structure
<1>5. f \in [S -> Having] /\ \A x \in S : f[x] = parent[x]
      BY DEF Having
<1>6. \A h \in Having : \E x \in S : parent[x] = h
      BY DEF Having
<1>7. \A x, y \in S : parent[x] = parent[y] => x = y
      BY <1>2, <1>3 DEF Structure
<1> HIDE DEF f, S
<1>8. f \in Injection(S, Having) /\ f \in Surjection(S, Having)
      BY <1>5, <1>6, <1>7 DEF Injection, IsInjective, Surjection
<1>9. IsFiniteSet(Having)
      BY <1>2, <1>4, FS_Subset
<1>10. Cardinality(S) = Cardinality(Having)
      BY <1>8, <1>9, FS_Injection
<1> QED
      BY <1>1, <1>4, <1>10 DEF S

\* The plan of an upgrade or a repair.
ThePlan == composeMasterSlaveIP(s.eps, NodeOf, Masters(s.exist), Slaves(s.exist), Having)
LEMMA PlanIsGood ==
    ASSUME BaseInv, s.pc = "plan", Room(s, clu, parent, sts.spec), clu[s.exist] # 0
    PROVE  LET masters == MasterSet(clu, parent)
               new == (1..sts.spec) \ Joined
               room == sts.spec \div 2 - Cardinality(masters)
           IN  /\ ThePlan.result = "plan" /\ s.exist \in Pods
               /\ AddPlan(ThePlan, masters, Having, new, room)
               /\ sts.spec % 2 = 0 => FullPlan(ThePlan, masters, Having, new, room)
<1> DEFINE n == sts.spec
           l == s.eps
           X == 1..n
           masters == Masters(s.exist)
           slaves == Slaves(s.exist)
<1>1. s.eps = InOrder(n) /\ s.exist \in 1..n /\ n \in Nat /\ 1..n \subseteq Pods
      BY BaseTypes DEF Works, Past, Handles, Through
<1>2. s.exist \in Pods
      BY <1>1
<1>3. Lists(l, X) /\ Len(l) = n
  <2> DEFINE o == InOrder(n)
  <2>1. o \in Seq(Nat) /\ Len(o) = n /\ \A i \in 1..n : o[i] = i
        BY <1>1 DEF InOrder
  <2> HIDE DEF o
  <2>2. Len(o) = n /\ Lists(o, 1..n)
        BY <1>1, <2>1 DEF Lists
  <2> QED
        BY <1>1, <2>2 DEF o
<1>4. \A x \in X : NodeOf[x] \in Int
      BY <1>1, ReconcileAssumption
<1>5. Cluster(s.exist) = Joined /\ masters = MasterSet(clu, parent)
      BY <1>2, SeenIsAll
<1>6. Joined \subseteq X
      BY DEF BaseInv, SizeInv, Joined
<1>7. masters \subseteq X /\ slaves \subseteq X /\ masters \cap slaves = {} /\ masters \cup slaves = Joined
      BY <1>5, <1>6 DEF Masters, Slaves
<1>8. Having \subseteq masters /\ Cardinality(slaves) = Cardinality(Having)
      BY <1>2, SlavesOfMasters
<1>9. Cardinality(masters) <= Len(l) \div 2
  <2>1. Wanted(s) = 0
        BY DEF Wanted
  <2>2. Cardinality(masters) \in Nat
        BY <1>5, BaseTypes
  <2> QED
        BY <1>3, <1>5, <2>1, <2>2 DEF Room
<1> HIDE DEF l, X, masters, slaves
<1> DEFINE p == composeMasterSlaveIP(l, NodeOf, masters, slaves, Having)
           new == X \ (masters \cup slaves)
           room == Len(l) \div 2 - Cardinality(masters)
<1>10. /\ p.result = "plan" /\ AddPlan(p, masters, Having, new, room)
       /\ Len(l) % 2 = 0 => FullPlan(p, masters, Having, new, room)
      BY <1>3, <1>4, <1>7, <1>8, <1>9, composeResult, Zenon
<1>11. p = ThePlan
      BY Zenon DEF ThePlan, l, masters, slaves
<1> HIDE DEF p
<1> QED
      BY <1>2, <1>3, <1>5, <1>7, <1>10, <1>11 DEF X

\* What a plan leaves to be done.
Planned ==
    LET new == (1..sts.spec) \ Joined
        masters == MasterSet(clu, parent)
    IN  /\ s'.pc = "addMasters" /\ s'.todoM = s'.masters
        /\ \E M \in SUBSET new : \E S \in SUBSET (new \ M) : \E Q \in SUBSET (masters \cup M) :
              /\ Lists(s'.masters, M)
              /\ Len(s'.masters) <= sts.spec \div 2 - Cardinality(masters)
              /\ s'.todoS \in Seq(S \X Q)
              /\ \A i, j \in 1..Len(s'.todoS) : s'.todoS[i][1] = s'.todoS[j][1] => i = j
        /\ sts.spec % 2 = 0 /\ s'.masters # <<>> => s'.todoS # <<>>

LEMMA PlanNext ==
    ASSUME BaseInv, Room(s, clu, parent, sts.spec), PlanAdditions
    PROVE  (NodesUnread(s.exist) /\ Fail) \/ (s.exist \in Joined /\ Planned)
<1> DEFINE next(plan) == [s EXCEPT !.pc = "addMasters",
                                   !.masters = plan.masters, !.todoM = plan.masters,
                                   !.todoS = Pairs(plan.slaves, plan.parents)]
           new == (1..sts.spec) \ Joined
           masters == MasterSet(clu, parent)
           room == sts.spec \div 2 - Cardinality(masters)
<1>1. /\ s.pc = "plan"
      /\ \/ NodesUnread(s.exist) /\ Fail
         \/ /\ clu[s.exist] # 0
            /\ s' = CASE ThePlan.result = "hang" -> [Idle EXCEPT !.pc = "hung"]
                      [] ThePlan.result = "panic" -> Idle
                      [] ThePlan.result = "plan" -> next(ThePlan)
      BY Zenon DEF PlanAdditions, ThePlan, Having, NodesRead, StatusOK
<1>0. SUFFICES ASSUME clu[s.exist] # 0,
                      s' = CASE ThePlan.result = "hang" -> [Idle EXCEPT !.pc = "hung"]
                             [] ThePlan.result = "panic" -> Idle
                             [] ThePlan.result = "plan" -> next(ThePlan)
               PROVE  s.exist \in Joined /\ Planned
      BY <1>1
<1>2. /\ ThePlan.result = "plan" /\ s.exist \in Pods
      /\ AddPlan(ThePlan, masters, Having, new, room)
      /\ sts.spec % 2 = 0 => FullPlan(ThePlan, masters, Having, new, room)
      BY <1>0, <1>1, PlanIsGood
<1> HIDE DEF next
<1>3. s' = next(ThePlan)
      BY <1>0, <1>2
<1> DEFINE p == ThePlan
<1> HIDE DEF p
<1>4. /\ s'.pc = "addMasters" /\ s'.todoM = p.masters /\ s'.masters = p.masters
      /\ s'.todoS = Pairs(p.slaves, p.parents)
      BY <1>3, SyncFields DEF next, p, BaseInv
<1> HIDE DEF new, masters, room
<1>5. PICK M \in SUBSET new : \E S \in SUBSET (new \ M) :
         \E Q \in SUBSET ((masters \cup M) \ Having) :
            /\ Lists(p.masters, M) /\ Len(p.masters) <= room
            /\ Lists(p.slaves, S) /\ Lists(p.parents, Q) /\ Len(p.parents) = Len(p.slaves)
      BY <1>2 DEF AddPlan, p
<1>6. PICK S \in SUBSET (new \ M) : \E Q \in SUBSET ((masters \cup M) \ Having) :
            /\ Lists(p.masters, M) /\ Len(p.masters) <= room
            /\ Lists(p.slaves, S) /\ Lists(p.parents, Q) /\ Len(p.parents) = Len(p.slaves)
      BY <1>5
<1>7. PICK Q \in SUBSET ((masters \cup M) \ Having) :
            /\ Lists(p.masters, M) /\ Len(p.masters) <= room
            /\ Lists(p.slaves, S) /\ Lists(p.parents, Q) /\ Len(p.parents) = Len(p.slaves)
      BY <1>6
<1>8. /\ Pairs(p.slaves, p.parents) \in Seq(S \X Q)
      /\ Len(Pairs(p.slaves, p.parents)) = Len(p.slaves)
      /\ \A i \in 1..Len(p.slaves) : Pairs(p.slaves, p.parents)[i] = <<p.slaves[i], p.parents[i]>>
  <2> DEFINE c == p.slaves
             d == p.parents
  <2>1. Lists(c, S) /\ Lists(d, Q) /\ Len(c) = Len(d)
        BY <1>7
  <2> HIDE DEF c, d
  <2>2. /\ Pairs(c, d) \in Seq(S \X Q) /\ Len(Pairs(c, d)) = Len(c)
        /\ \A i \in 1..Len(c) : Pairs(c, d)[i] = <<c[i], d[i]>>
        BY <2>1, PairsType
  <2> QED
        BY <2>2 DEF c, d
<1>9. \A i, j \in 1..Len(s'.todoS) : s'.todoS[i][1] = s'.todoS[j][1] => i = j
  <2> DEFINE todo == s'.todoS
             c == p.slaves
             d == p.parents
  <2>1. Len(todo) = Len(c) /\ \A i \in 1..Len(c) : todo[i] = <<c[i], d[i]>>
        BY <1>4, <1>8
  <2>2. \A i, j \in 1..Len(c) : c[i] = c[j] => i = j
        BY <1>7 DEF Lists
  <2> HIDE DEF todo, c, d
  <2>3. \A i, j \in 1..Len(todo) : todo[i][1] = todo[j][1] => i = j
        BY <2>1, <2>2
  <2> QED
        BY <2>3 DEF todo
<1>10. s'.todoS \in Seq(S \X Q) /\ Len(s'.todoS) = Len(p.parents)
      BY <1>4, <1>7, <1>8
<1>11. ASSUME sts.spec % 2 = 0, s'.masters # <<>> PROVE s'.todoS # <<>>
  <2>1. PICK N \in SUBSET new : \E R \in SUBSET (masters \cup N) :
           Lists(p.masters, N) /\ Lists(p.parents, R) /\ Having \cup R = masters \cup N
        BY <1>2, <1>11 DEF FullPlan, p
  <2>2. PICK R \in SUBSET (masters \cup N) :
           Lists(p.masters, N) /\ Lists(p.parents, R) /\ Having \cup R = masters \cup N
        BY <2>1
  <2>3. N # {}
        BY <1>4, <1>11, <2>2, ListsEmpty
  <2>4. masters \cap new = {} /\ Having \subseteq masters
    <3>1. Masters(s.exist) = masters
          BY <1>0, <1>2, SeenIsAll DEF masters
    <3>2. masters \cap new = {}
          BY DEF masters, new, MasterSet, Joined
    <3> QED
          BY <1>0, <1>2, <3>1, <3>2, SlavesOfMasters
  <2>5. R # {}
        BY <2>2, <2>3, <2>4
  <2>6. p.parents # <<>> /\ p.parents \in Seq(Nat)
        BY <2>2, <2>5, ListsEmpty DEF Lists
  <2>7. Len(p.parents) # 0
        BY <2>6
  <2> QED
        BY <1>10, <2>7
<1>12. \E N \in SUBSET new : \E T \in SUBSET (new \ N) : \E R \in SUBSET (masters \cup N) :
          /\ Lists(s'.masters, N) /\ Len(s'.masters) <= room
          /\ s'.todoS \in Seq(T \X R)
          /\ \A i, j \in 1..Len(s'.todoS) : s'.todoS[i][1] = s'.todoS[j][1] => i = j
      BY <1>4, <1>7, <1>9, <1>10
<1>13. s.exist \in Joined
      BY <1>0, <1>2 DEF Joined
<1> QED
      BY <1>4, <1>11, <1>12, <1>13 DEF Planned, new, masters, room

\* redis-trib create: the masters are in the cluster, the slaves are not yet.
LEMMA CreateBalanced ==
    ASSUME SlowGrowth, BaseInv, BaseInv', Balanced(s, clu, parent, sts.spec), CreateCluster
    PROVE  Balanced(s', clu', parent', sts'.spec)
<1> DEFINE a == assignMasterSlaveIP(s.eps, NodeOf)
           next == [s EXCEPT !.pc = "createNodes", !.exist = Head(a.masters),
                             !.masters = a.masters, !.todoS = Pairs(a.slaves, a.masters)]
           n == sts.spec
<1>1. /\ s.pc = "trib" /\ sts' = sts
      /\ \/ Fail /\ clu' = clu /\ parent' = parent
         \/ /\ TribAccepts(a.masters) /\ parent' = parent /\ (Fail \/ s' = next)
            /\ clu' = [p \in Pods |-> IF p \in ToSet(a.masters) THEN NewCluster ELSE clu[p]]
      BY Zenon DEF CreateCluster, stsVars, redisVars
<1>2. n \in Nat /\ Cardinality(MasterSet(clu, parent)) \in Nat
      BY BaseTypes
<1>3. TypeOK
      BY DEF BaseInv
<1>4. CASE Fail /\ clu' = clu /\ parent' = parent
  <2>1. s'.pc = "fail"
        BY <1>3, <1>4, SyncFields DEF Fail
  <2> QED
        BY <1>1, <1>2, <1>4, <2>1, NotAddingBalanced DEF Adding
<1>5. CASE /\ TribAccepts(a.masters) /\ parent' = parent /\ (Fail \/ s' = next)
           /\ clu' = [p \in Pods |-> IF p \in ToSet(a.masters) THEN NewCluster ELSE clu[p]]
  <2>1. Founded
        BY <1>1, <1>5, Zenon DEF Founded, TribAccepts
  <2>2. /\ MasterSet(clu', parent') = Founders /\ Founders \subseteq Pods
        /\ \A p \in Pods : clu'[p] # 0 <=> p \in Founders
        /\ Cardinality(Founders) = n \div 2 /\ NewPlan(a, 1..n, n \div 2)
        BY <2>1, FoundedMasters
  <2>3. s'.pc \in {"fail", "createNodes"}
        BY <1>3, <1>5, SyncFields DEF Fail
  <2>4. Room(s', clu', parent', sts'.spec)
        BY <1>1, <1>2, <2>2, <2>3 DEF Room, Wanted
  <2>5. ASSUME s' = next PROVE Chosen(s', clu', parent')
    <3>1. s'.pc = "createNodes" /\ s'.todoS = Pairs(a.slaves, a.masters)
          BY <1>3, <2>5, SyncFields
    <3> DEFINE c == a.slaves
               d == a.masters
               todo == Pairs(c, d)
    <3>2. Founders = ToSet(d)
          BY DEF Founders
    <3> HIDE DEF a
    <3>3. PICK M \in SUBSET (1..n) : \E S \in SUBSET ((1..n) \ M) :
             Lists(d, M) /\ Len(d) = n \div 2 /\ Lists(c, S) /\ Len(c) = n \div 2
          BY <2>2 DEF NewPlan
    <3>4. PICK S \in SUBSET ((1..n) \ M) : Lists(d, M) /\ Lists(c, S) /\ Len(c) = Len(d)
          BY <3>3
    <3>5. Founders = M
          BY <3>2, <3>4, ListsToSet
    <3> HIDE DEF c, d
    <3>6. /\ todo \in Seq(S \X M) /\ Len(todo) = Len(c)
          /\ \A i \in 1..Len(c) : todo[i] = <<c[i], d[i]>>
          BY <3>4, PairsType
    <3>7. \A i \in 1..Len(c) : c[i] \in S /\ d[i] \in M
          BY <3>4 DEF Lists
    <3>8. \A i, j \in 1..Len(c) : c[i] = c[j] => i = j
          BY <3>4 DEF Lists
    <3>9. s'.todoS = todo
          BY <3>1 DEF c, d
    <3> HIDE DEF todo
    <3>10. \A i \in 1..Len(todo) : clu'[todo[i][1]] = 0 /\ todo[i][2] \in MasterSet(clu', parent')
      <4>1. \A x \in S : clu'[x] = 0
        <5>1. 1..n \subseteq Pods
              BY BaseTypes
        <5> QED
              BY <2>2, <3>4, <3>5, <5>1
      <4>2. \A i \in 1..Len(todo) : i \in 1..Len(c) /\ todo[i][1] = c[i] /\ todo[i][2] = d[i]
            BY <3>6
      <4>3. M = MasterSet(clu', parent')
            BY <2>2, <3>5
      <4> QED
            BY <3>7, <4>1, <4>2, <4>3
    <3>11. \A i, j \in 1..Len(todo) : todo[i][1] = todo[j][1] => i = j
          BY <3>6, <3>8
    <3> QED
          BY <3>1, <3>9, <3>10, <3>11 DEF Chosen, Adding, Serves
  <2>6. ASSUME Fail PROVE Chosen(s', clu', parent')
    <3>1. s'.pc = "fail"
          BY <1>3, <2>6, SyncFields DEF Fail
    <3> QED
          BY <3>1 DEF Chosen, Adding
  <2> QED
        BY <1>5, <2>3, <2>4, <2>5, <2>6 DEF Balanced
<1> QED
      BY <1>1, <1>4, <1>5

\* A plan fills the room at most, with instances that are in no cluster.
LEMMA PlanBalanced ==
    ASSUME BaseInv, BaseInv', Balanced(s, clu, parent, sts.spec), PlanAdditions
    PROVE  Balanced(s', clu', parent', sts'.spec)
<1> DEFINE n == sts.spec
           new == (1..n) \ Joined
           masters == MasterSet(clu, parent)
<1>1. clu' = clu /\ parent' = parent /\ sts' = sts
      BY DEF PlanAdditions, redisVars, stsVars
<1>2. TypeOK /\ Room(s, clu, parent, n) /\ n \in Nat /\ Cardinality(masters) \in Nat
      /\ 1..n \subseteq Pods
      BY BaseTypes DEF BaseInv, Balanced
<1>3. CASE Fail
  <2>1. s'.pc = "fail"
        BY <1>2, <1>3, SyncFields DEF Fail
  <2> QED
        BY <1>1, <1>2, <2>1, NotAddingBalanced DEF Adding
<1>4. CASE Planned
  <2>1. s'.pc = "addMasters" /\ s'.todoM = s'.masters
        BY <1>4 DEF Planned
  <2>2. PICK M \in SUBSET new : \E S \in SUBSET (new \ M) : \E Q \in SUBSET (masters \cup M) :
           /\ Lists(s'.masters, M) /\ Len(s'.masters) <= n \div 2 - Cardinality(masters)
           /\ s'.todoS \in Seq(S \X Q)
           /\ \A i, j \in 1..Len(s'.todoS) : s'.todoS[i][1] = s'.todoS[j][1] => i = j
        BY <1>4 DEF Planned
  <2>3. PICK S \in SUBSET (new \ M) : \E Q \in SUBSET (masters \cup M) :
           /\ Lists(s'.masters, M) /\ Len(s'.masters) <= n \div 2 - Cardinality(masters)
           /\ s'.todoS \in Seq(S \X Q)
           /\ \A i, j \in 1..Len(s'.todoS) : s'.todoS[i][1] = s'.todoS[j][1] => i = j
        BY <2>2
  <2>4. PICK Q \in SUBSET (masters \cup M) :
           /\ Lists(s'.masters, M) /\ Len(s'.masters) <= n \div 2 - Cardinality(masters)
           /\ s'.todoS \in Seq(S \X Q)
           /\ \A i, j \in 1..Len(s'.todoS) : s'.todoS[i][1] = s'.todoS[j][1] => i = j
        BY <2>3
  <2>5. \A x \in new : clu'[x] = 0
        BY <1>1, <1>2 DEF Joined
  <2> HIDE DEF new
  <2>6. \A i \in 1..Len(s'.todoS) : s'.todoS[i][1] \in S /\ s'.todoS[i][2] \in Q
    <3>1. \A i \in 1..Len(s'.todoS) : s'.todoS[i] \in S \X Q
          BY <2>4
    <3> QED
          BY <3>1
  <2>7. \A m \in masters \cup M : Serves(m, s', clu', parent')
        BY <1>1, <2>1, <2>4 DEF Serves, Awaited, Lists
  <2>8. /\ \A i \in 1..Len(s'.todoM) : s'.todoM[i] \in M
        /\ \A i, j \in 1..Len(s'.todoM) : s'.todoM[i] = s'.todoM[j] => i = j
        /\ Len(s'.todoM) \in Nat
        BY <2>1, <2>4 DEF Lists
  <2>9. Chosen(s', clu', parent')
    <3>1. \A i \in 1..Len(s'.todoS) :
             clu'[s'.todoS[i][1]] = 0 /\ Serves(s'.todoS[i][2], s', clu', parent')
          BY <2>3, <2>4, <2>5, <2>6, <2>7
    <3>2. \A i \in 1..Len(s'.todoM) :
             /\ clu'[s'.todoM[i]] = 0 /\ Serves(s'.masters[i], s', clu', parent')
             /\ \A j \in 1..Len(s'.todoS) : s'.todoM[i] # s'.todoS[j][1]
          BY <2>1, <2>3, <2>5, <2>6, <2>7, <2>8
    <3> QED
          BY <2>1, <2>4, <2>8, <3>1, <3>2 DEF Chosen
  <2>10. Room(s', clu', parent', sts'.spec)
    <3>1. Wanted(s') = Len(s'.todoM)
          BY <2>1 DEF Wanted
    <3>2. Cardinality(MasterSet(clu', parent')) = Cardinality(masters)
          BY <1>1, Zenon
    <3> QED
          BY <1>1, <1>2, <2>1, <2>4, <2>8, <3>1, <3>2 DEF Room
  <2> QED
        BY <2>1, <2>9, <2>10 DEF Balanced
<1> QED
      BY <1>2, <1>3, <1>4, PlanNext

LEMMA CreateNodesBalanced ==
    ASSUME BaseInv, BaseInv', Balanced(s, clu, parent, sts.spec), CreateNodes
    PROVE  Balanced(s', clu', parent', sts'.spec)
<1>1. /\ clu' = clu /\ parent' = parent /\ sts' = sts /\ s.pc = "createNodes"
      /\ Fail \/ s' = [s EXCEPT !.pc = "addSlaves"]
      BY DEF CreateNodes, redisVars, stsVars
<1>2. TypeOK /\ sts.spec \in Nat
      BY BaseTypes DEF BaseInv
<1>3. CASE Fail
  <2>1. s'.pc = "fail"
        BY <1>2, <1>3, SyncFields DEF Fail
  <2> QED
        BY <1>1, <1>2, <2>1, NotAddingBalanced DEF Adding
<1>4. CASE s' = [s EXCEPT !.pc = "addSlaves"]
  <2>1. s'.pc = "addSlaves" /\ s'.todoS = s.todoS
        BY <1>2, <1>4, SyncFields
  <2>2. Chosen(s', clu', parent')
        BY <1>1, <2>1 DEF Balanced, Chosen, Adding, Serves, Awaited
  <2>3. Room(s', clu', parent', sts'.spec)
        BY <1>1, <2>1 DEF Balanced, Room, Wanted
  <2> QED
        BY <2>1, <2>2, <2>3 DEF Balanced
<1> QED
      BY <1>1, <1>3, <1>4

\* The tail of a list.
LEMMA TailOf ==
    ASSUME NEW U, NEW l \in Seq(U), l # <<>>
    PROVE  /\ Len(l) \in Nat /\ Len(Tail(l)) = Len(l) - 1 /\ Len(l) >= 1
           /\ Head(l) = l[1] /\ 1 \in 1..Len(l)
           /\ \A i \in 1..Len(Tail(l)) : i + 1 \in 1..Len(l) /\ Tail(l)[i] = l[i + 1] /\ i + 1 # 1
           /\ \A x : (\E i \in 1..Len(l) : l[i] = x) =>
                        x = l[1] \/ \E i \in 1..Len(Tail(l)) : Tail(l)[i] = x
<1>1. /\ Len(l) \in Nat /\ Len(Tail(l)) = Len(l) - 1 /\ Len(l) >= 1
      /\ Head(l) = l[1] /\ 1 \in 1..Len(l)
      OBVIOUS
<1>2. \A i \in 1..Len(Tail(l)) : i + 1 \in 1..Len(l) /\ Tail(l)[i] = l[i + 1] /\ i + 1 # 1
      BY <1>1
<1>3. ASSUME NEW i \in 1..Len(l), i # 1
      PROVE  i - 1 \in 1..Len(Tail(l)) /\ Tail(l)[i - 1] = l[i]
      BY <1>1, <1>3
<1> QED
      BY <1>1, <1>2, <1>3

\* One master more, one less to add.
LEMMA AddMasterBalanced ==
    ASSUME BaseInv, BaseInv', Balanced(s, clu, parent, sts.spec), AddMaster
    PROVE  Balanced(s', clu', parent', sts'.spec)
<1> DEFINE p == Head(s.todoM)
           n == sts.spec
           ms == MasterSet(clu, parent)
           new == MasterSet(clu', parent')
<1>1. /\ s.pc = "addMasters" /\ s.todoM # <<>> /\ sts' = sts
      /\ \/ Fail /\ clu' = clu /\ parent' = parent
         \/ /\ clu[s.exist] # 0 /\ clu[p] = 0 /\ clu' = [clu EXCEPT ![p] = clu[s.exist]]
            /\ parent' = [parent EXCEPT ![p] = 0]
            /\ Fail \/ s' = [s EXCEPT !.todoM = Tail(@)]
      BY Zenon DEF AddMaster, Join, StatusOK, redisVars, stsVars
<1>2. /\ TypeOK /\ n \in Nat /\ Cardinality(ms) \in Nat
      /\ s.todoM \in Seq(Pods) /\ s.todoS \in Seq(Pods \X Pods) /\ s.masters \in Seq(Pods)
      BY BaseTypes DEF BaseInv
<1>3. CASE Fail /\ clu' = clu /\ parent' = parent
  <2>1. s'.pc = "fail"
        BY <1>2, <1>3, SyncFields DEF Fail
  <2> QED
        BY <1>1, <1>2, <1>3, <2>1, NotAddingBalanced DEF Adding
<1>4. ASSUME /\ clu[s.exist] # 0 /\ clu[p] = 0 /\ clu' = [clu EXCEPT ![p] = clu[s.exist]]
             /\ parent' = [parent EXCEPT ![p] = 0]
             /\ Fail \/ s' = [s EXCEPT !.todoM = Tail(@)]
      PROVE  Balanced(s', clu', parent', sts'.spec)
  <2> DEFINE l == s.todoM
             rest == Tail(s.todoM)
  <2>1. /\ Len(l) \in Nat /\ Len(rest) = Len(l) - 1 /\ Len(l) >= 1 /\ p = l[1] /\ 1 \in 1..Len(l)
        /\ \A i \in 1..Len(rest) : i + 1 \in 1..Len(l) /\ rest[i] = l[i + 1] /\ i + 1 # 1
        /\ \A x : (\E i \in 1..Len(l) : l[i] = x) =>
                     x = l[1] \/ \E i \in 1..Len(rest) : rest[i] = x
        BY <1>1, <1>2, TailOf
  <2>2. p \in Pods
        BY <1>1, <1>2
  <2>3. Grew(p, 0)
        BY <1>1, <1>4 DEF Grew
  <2>4. /\ new = ms \cup {p} /\ Cardinality(new) = Cardinality(ms) + 1
        /\ \A q \in Pods : q # p => clu'[q] = clu[q]
        BY <2>2, <2>3, GrewMasters
  <2>5. Cardinality(ms) + Len(l) <= n \div 2
        BY <1>1 DEF Balanced, Room, Wanted
  <2> HIDE DEF p, ms, new, rest
  <2>6. CASE Fail
    <3>1. s'.pc = "fail"
          BY <1>2, <2>6, SyncFields DEF Fail
    <3>2. Room(s', clu', parent', sts'.spec)
          BY <1>1, <1>2, <2>1, <2>4, <2>5, <3>1 DEF Room, Wanted, new
    <3> QED
          BY <3>1, <3>2 DEF Balanced, Chosen, Adding
  <2>7. CASE s' = [s EXCEPT !.todoM = Tail(@)]
    <3>1. /\ s'.pc = "addMasters" /\ s'.todoM = rest /\ s'.todoS = s.todoS
          /\ s'.masters = s.masters
          BY <1>1, <1>2, <2>7, SyncFields DEF rest
    <3>2. Room(s', clu', parent', sts'.spec)
          BY <1>1, <1>2, <2>1, <2>4, <2>5, <3>1 DEF Room, Wanted, new
    <3>3. \A m : Serves(m, s, clu, parent) => Serves(m, s', clu', parent')
          BY <1>1, <2>1, <2>4, <3>1 DEF Serves, Awaited, ms, new
    <3>4. /\ \A i \in 1..Len(s.todoS) : clu[s.todoS[i][1]] = 0 /\ Serves(s.todoS[i][2], s, clu, parent)
          /\ \A i, j \in 1..Len(s.todoS) : s.todoS[i][1] = s.todoS[j][1] => i = j
          /\ \A i \in 1..Len(l) : /\ clu[l[i]] = 0
                                  /\ \A j \in 1..Len(s.todoS) : l[i] # s.todoS[j][1]
          /\ \A i, j \in 1..Len(l) : l[i] = l[j] => i = j
          /\ \A i \in 1..Len(s.masters) : Serves(s.masters[i], s, clu, parent)
          BY <1>1 DEF Balanced, Chosen, Adding
    <3>5. /\ \A i \in 1..Len(l) : l[i] \in Pods
          /\ \A i \in 1..Len(s.todoS) : s.todoS[i][1] \in Pods
      <4>1. \A i \in 1..Len(s.todoS) : s.todoS[i] \in Pods \X Pods
            BY <1>2
      <4> QED
            BY <1>2, <4>1
    <3>6. \A i \in 1..Len(s.todoS) : clu'[s.todoS[i][1]] = 0
          BY <2>1, <2>4, <3>4, <3>5
    <3>7. /\ \A i \in 1..Len(rest) : /\ clu'[rest[i]] = 0
                                     /\ \A j \in 1..Len(s.todoS) : rest[i] # s.todoS[j][1]
          /\ \A i, j \in 1..Len(rest) : rest[i] = rest[j] => i = j
      <4>1. \A i \in 1..Len(rest) : rest[i] \in Pods /\ rest[i] # p /\ clu[rest[i]] = 0
            BY <2>1, <3>4, <3>5
      <4>2. \A i, j \in 1..Len(rest) : rest[i] = rest[j] => i + 1 = j + 1
            BY <2>1, <3>4
      <4>3. \A i, j \in 1..Len(rest) : i + 1 = j + 1 => i = j
            OBVIOUS
      <4>4. \A i \in 1..Len(rest) : \A j \in 1..Len(s.todoS) : rest[i] # s.todoS[j][1]
            BY <2>1, <3>4
      <4> QED
            BY <2>4, <4>1, <4>2, <4>3, <4>4
    <3>8. Chosen(s', clu', parent')
          BY <3>1, <3>3, <3>4, <3>6, <3>7 DEF Chosen
    <3> QED
          BY <3>1, <3>2, <3>8 DEF Balanced
  <2> QED
        BY <1>4, <2>6, <2>7
<1> QED
      BY <1>1, <1>3, <1>4

\* The masters of the slaves are in the cluster when all masters are added, also
\* where the upgrade looks them up again.
LEMMA NodesAfterBalanced ==
    ASSUME Alike = {}, BaseInv, BaseInv', Balanced(s, clu, parent, sts.spec), NodesAfterMasters
    PROVE  Balanced(s', clu', parent', sts'.spec)
<1> DEFINE todo(ids) == [i \in DOMAIN s.todoS |-> <<s.todoS[i][1], ids[i]>>]
           ms == MasterSet(clu, parent)
<1>1. /\ s.pc = "addMasters" /\ s.todoM = <<>> /\ clu' = clu /\ parent' = parent /\ sts' = sts
      /\ \/ Fail \/ s' = [s EXCEPT !.pc = "addSlaves"]
         \/ /\ Len(s.todoS) = Len(s.masters)
            /\ \E ids \in NewMasterNodes :
                  s' = [s EXCEPT !.pc = "addSlaves", !.masters = ids, !.todoS = todo(ids)]
      BY DEF NodesAfterMasters, redisVars, stsVars
<1>0. clu' = clu /\ parent' = parent /\ sts' = sts
      BY <1>1
<1>2. /\ TypeOK /\ sts.spec \in Nat /\ Cardinality(ms) \in Nat
      /\ s.todoS \in Seq(Pods \X Pods) /\ s.masters \in Seq(Pods)
      BY BaseTypes DEF BaseInv
<1>3. \A m : ~Awaited(m, s)
  <2>1. s.todoM = <<>>
        BY <1>1
  <2>2. Len(s.todoM) = 0
        BY <2>1
  <2>3. \A i : i \notin 1..0
        OBVIOUS
  <2> QED
        BY <2>2, <2>3 DEF Awaited
<1>4. /\ \A i \in 1..Len(s.todoS) : clu[s.todoS[i][1]] = 0 /\ s.todoS[i][2] \in ms
      /\ \A i, j \in 1..Len(s.todoS) : s.todoS[i][1] = s.todoS[j][1] => i = j
      /\ \A i \in 1..Len(s.masters) : s.masters[i] \in ms
      BY <1>1, <1>3 DEF Balanced, Chosen, Adding, Serves
<1>5. ASSUME s'.pc = "addSlaves" PROVE Room(s', clu', parent', sts'.spec)
  <2>1. Wanted(s) = 0 /\ Wanted(s') = 0
        BY <1>1, <1>5 DEF Wanted
  <2> QED
        BY <1>1, <2>1 DEF Balanced, Room
<1>6. CASE Fail
  <2>1. s'.pc = "fail"
        BY <1>2, <1>6, SyncFields DEF Fail
  <2> QED
        BY <1>0, <1>2, <2>1, NotAddingBalanced DEF Adding
<1>7. CASE s' = [s EXCEPT !.pc = "addSlaves"]
  <2>1. s'.pc = "addSlaves" /\ s'.todoS = s.todoS
        BY <1>2, <1>7, SyncFields
  <2>2. Chosen(s', clu', parent')
        BY <1>1, <1>4, <2>1 DEF Chosen, Serves
  <2> QED
        BY <1>5, <2>1, <2>2 DEF Balanced
<1>8. ASSUME NEW ids \in NewMasterNodes, Len(s.todoS) = Len(s.masters),
             s' = [s EXCEPT !.pc = "addSlaves", !.masters = ids, !.todoS = todo(ids)]
      PROVE  Balanced(s', clu', parent', sts'.spec)
  <2>1. s'.pc = "addSlaves" /\ s'.todoS = todo(ids)
        BY <1>2, <1>8, SyncFields
  <2>2. /\ DOMAIN s.todoS = 1..Len(s.todoS) /\ DOMAIN s.masters = 1..Len(s.todoS)
        /\ Len(s.todoS) \in Nat
        BY <1>2, <1>8
  <2>3. \A i \in 1..Len(s.todoS) : ids[i] = s.masters[i]
        BY <2>2 DEF NewMasterNodes, NodesWithIP
  <2>4. /\ \A i \in 1..Len(s.todoS) : s'.todoS[i] = <<s.todoS[i][1], ids[i]>>
        /\ Len(s'.todoS) = Len(s.todoS)
        BY <2>1, <2>2
  <2>5. \A i \in 1..Len(s'.todoS) : /\ i \in 1..Len(s.todoS) /\ i \in 1..Len(s.masters)
                                    /\ s'.todoS[i][1] = s.todoS[i][1]
                                    /\ s'.todoS[i][2] = s.masters[i]
        BY <1>8, <2>3, <2>4
  <2>6. Chosen(s', clu', parent')
    <3> HIDE DEF ms, todo
    <3>1. \A i \in 1..Len(s'.todoS) : clu'[s'.todoS[i][1]] = 0 /\ s'.todoS[i][2] \in ms
          BY <1>0, <1>4, <2>5
    <3>2. \A i, j \in 1..Len(s'.todoS) : s'.todoS[i][1] = s'.todoS[j][1] => i = j
          BY <1>4, <2>5
    <3> QED
          BY <1>0, <2>1, <3>1, <3>2 DEF Chosen, Serves, ms
  <2> QED
        BY <1>5, <2>1, <2>6 DEF Balanced
<1> QED
      BY <1>1, <1>6, <1>7, <1>8

\* What an add-node --slave does, unless it stops half-way: its master is one.
LEMMA AddSlaveNext ==
    ASSUME BaseInv, Chosen(s, clu, parent), AddSlave
    PROVE  LET p == Head(s.todoS)[1]
               m == Head(s.todoS)[2]
           IN  \/ Fail /\ clu' = clu /\ parent' = parent
                  /\ (faults' = faults => ~StatusOK(s.exist))
               \/ /\ clu[s.exist] # 0 /\ m \in MasterSet(clu, parent) /\ Grew(p, m)
                  /\ (Fail /\ Faulty("addSlave")) \/ s' = [s EXCEPT !.todoS = Tail(@)]
               \/ Faulty("replicate")
<1> DEFINE p == Head(s.todoS)[1]
           m == Head(s.todoS)[2]
           ms == MasterSet(clu, parent)
           accepted == StatusOK(s.exist) /\ clu[p] = 0 /\ m \in Cluster(s.exist)
<1>1. /\ s.pc = "addSlaves" /\ s.todoS # <<>>
      /\ \/ /\ NoFault /\ accepted
            /\ IF m \in Masters(s.exist)
               THEN Join(p, m) /\ StatusKept /\ s' = [s EXCEPT !.todoS = Tail(@)]
               ELSE Join(p, 0) /\ Fail
         \/ NoFault /\ ~accepted /\ Fail /\ UNCHANGED redisVars
         \/ /\ Faulty("addSlave") /\ Fail
            /\ (accepted /\ m \in Masters(s.exist) /\ Join(p, m)) \/ UNCHANGED redisVars
         \/ Faulty("replicate")
      BY Zenon DEF AddSlave
<1>2. TypeOK /\ s.todoS \in Seq(Pods \X Pods) /\ 0 \notin Pods /\ faults \in Nat
      BY BaseTypes DEF BaseInv
<1>3. s.exist \in Pods
      BY <1>1, BaseTypes DEF Handles, Through
<1>4. Head(s.todoS) = s.todoS[1] /\ 1 \in 1..Len(s.todoS)
      BY <1>1, <1>2
<1>5. clu[p] = 0 /\ m \in ms
      BY <1>1, <1>4 DEF Chosen, Adding, Serves, Awaited
<1> HIDE DEF p, m, ms
<1>6. StatusOK(s.exist) => m \in Masters(s.exist) /\ m \in Cluster(s.exist)
      BY <1>3, <1>5, SeenIsAll DEF StatusOK, ms, Masters
<1>7. ASSUME StatusOK(s.exist), Join(p, m)
      PROVE  clu[s.exist] # 0 /\ Grew(p, m)
  <2>1. clu[s.exist] # 0
        BY <1>7 DEF StatusOK
  <2> QED
        BY <1>1, <1>5, <1>6, <1>7, <2>1 DEF Join, Grew, p, m
<1>8. Faulty("addSlave") => faults' # faults
      BY <1>2 DEF Faulty
<1> QED
      BY <1>1, <1>5, <1>6, <1>7, <1>8 DEF redisVars, p, m, ms

LEMMA AddSlaveBalanced ==
    ASSUME BaseInv, BaseInv', Balanced(s, clu, parent, sts.spec), AddSlave, Whole'
    PROVE  Balanced(s', clu', parent', sts'.spec)
<1> DEFINE p == Head(s.todoS)[1]
           m == Head(s.todoS)[2]
           ms == MasterSet(clu, parent)
<1>1. s.pc = "addSlaves" /\ s.todoS # <<>> /\ sts' = sts
      BY DEF AddSlave, stsVars
<1>2. /\ TypeOK /\ s.todoS \in Seq(Pods \X Pods) /\ 0 \notin Pods /\ sts.spec \in Nat
      /\ faults \in Nat
      BY BaseTypes DEF BaseInv
<1>3. ~Faulty("replicate")
      BY <1>2 DEF Whole, Faulty
<1>4. \/ Fail /\ clu' = clu /\ parent' = parent
      \/ /\ m \in ms /\ Grew(p, m)
         /\ Fail \/ s' = [s EXCEPT !.todoS = Tail(@)]
      BY <1>3, AddSlaveNext DEF Balanced
<1>5. CASE Fail /\ clu' = clu /\ parent' = parent
  <2>1. s'.pc = "fail"
        BY <1>2, <1>5, SyncFields DEF Fail
  <2> QED
        BY <1>1, <1>2, <1>5, <2>1, NotAddingBalanced DEF Adding
<1>6. ASSUME m \in ms, Grew(p, m), Fail \/ s' = [s EXCEPT !.todoS = Tail(@)]
      PROVE  Balanced(s', clu', parent', sts'.spec)
  <2> DEFINE l == s.todoS
             rest == Tail(s.todoS)
  <2>1. /\ Len(l) \in Nat /\ Len(rest) = Len(l) - 1 /\ Len(l) >= 1
        /\ Head(l) = l[1] /\ 1 \in 1..Len(l)
        /\ \A i \in 1..Len(rest) : i + 1 \in 1..Len(l) /\ rest[i] = l[i + 1] /\ i + 1 # 1
        BY <1>1, <1>2, TailOf
  <2>2. p \in Pods /\ m # 0 /\ p = l[1][1]
    <3>1. l[1] \in Pods \X Pods
          BY <1>2, <2>1
    <3> QED
          BY <1>2, <2>1, <3>1
  <2>3. /\ MasterSet(clu', parent') = ms
        /\ \A q \in Pods : q # p => clu'[q] = clu[q]
        BY <1>6, <2>2, GrewMasters
  <2>4. s'.pc \in {"fail", "addSlaves"}
        BY <1>1, <1>2, <1>6, SyncFields DEF Fail
  <2>5. Room(s', clu', parent', sts'.spec)
    <3>1. Wanted(s) = 0 /\ Wanted(s') = 0
          BY <1>1, <2>4 DEF Wanted
    <3> QED
          BY <1>1, <2>3, <3>1 DEF Balanced, Room
  <2> HIDE DEF p, m, rest
  <2>6. ASSUME s' = [s EXCEPT !.todoS = Tail(@)] PROVE Chosen(s', clu', parent')
    <3>1. s'.pc = "addSlaves" /\ s'.todoS = rest
          BY <1>1, <1>2, <2>6, SyncFields DEF rest
    <3>2. /\ \A i \in 1..Len(l) : clu[l[i][1]] = 0 /\ l[i][2] \in ms
          /\ \A i, j \in 1..Len(l) : l[i][1] = l[j][1] => i = j
          BY <1>1 DEF Balanced, Chosen, Adding, Serves, Awaited
    <3>3. \A i \in 1..Len(l) : l[i][1] \in Pods
      <4>1. \A i \in 1..Len(l) : l[i] \in Pods \X Pods
            BY <1>2
      <4> QED
            BY <4>1
    <3> HIDE DEF ms
    <3>4. \A i \in 1..Len(rest) : clu'[rest[i][1]] = 0 /\ rest[i][2] \in ms
          BY <2>1, <2>2, <2>3, <3>2, <3>3
    <3>5. \A i, j \in 1..Len(rest) : rest[i][1] = rest[j][1] => i = j
      <4>1. \A i, j \in 1..Len(rest) : rest[i][1] = rest[j][1] => i + 1 = j + 1
            BY <2>1, <3>2
      <4>2. \A i, j \in 1..Len(rest) : i + 1 = j + 1 => i = j
            OBVIOUS
      <4> QED
            BY <4>1, <4>2
    <3> QED
          BY <2>3, <3>1, <3>4, <3>5 DEF Chosen, Serves
  <2>7. ASSUME Fail PROVE Chosen(s', clu', parent')
    <3>1. s'.pc = "fail"
          BY <1>2, <2>7, SyncFields DEF Fail
    <3> QED
          BY <3>1 DEF Chosen, Adding
  <2> QED
        BY <1>6, <2>4, <2>5, <2>6, <2>7 DEF Balanced
<1> QED
      BY <1>4, <1>5, <1>6
-----------------------------------------------------------------------------
(***************************************************************************)
(* The invariant of the masters, and what follows from it.                 *)
(***************************************************************************)
\* The steps that neither add instances nor plan it.
Elsewhere ==
    \/ UpdateCreating \/ ApplyStatefulSet \/ RefuseUpgrade \/ UpdateScaling
    \/ ScaleStatefulSet \/ ProbeCluster \/ WaitPodsReady \/ Classify \/ UpdateUpgrading
    \/ GivesSlots \/ VerifyNodes \/ UpdateRunning \/ ReportFailure

LEMMA ElsewhereNodes ==
    ASSUME Elsewhere
    PROVE  clu' = clu /\ parent' = parent
<1>1. CASE UNCHANGED redisVars
      BY <1>1 DEF redisVars
<1>2. CASE Rebalance \/ Reshard
      BY <1>2, <1>1, Zenon DEF Rebalance, Reshard, GiveSlots
<1>3. CASE \/ UpdateCreating \/ ApplyStatefulSet \/ RefuseUpgrade \/ UpdateScaling
           \/ ScaleStatefulSet \/ ProbeCluster \/ WaitPodsReady \/ Classify \/ UpdateUpgrading
           \/ SlavesAdded \/ TribInfo \/ NodesBeforeSlots \/ SlotsGiven \/ NoStrategy
           \/ VerifyNodes \/ UpdateRunning \/ ReportFailure
  <2>1. UNCHANGED redisVars
        BY <1>3 DEF UpdateCreating, ApplyStatefulSet, RefuseUpgrade, UpdateScaling,
                    ScaleStatefulSet, ProbeCluster, WaitPodsReady, Classify, UpdateUpgrading,
                    SlavesAdded, TribInfo, NodesBeforeSlots, SlotsGiven, NoStrategy,
                    VerifyNodes, UpdateRunning, ReportFailure
  <2> QED
        BY <1>1, <2>1
<1> QED
      BY <1>2, <1>3 DEF Elsewhere, GivesSlots

LEMMA ElsewhereBalanced ==
    ASSUME BaseInv, BaseInv', Balanced(s, clu, parent, sts.spec), Elsewhere
    PROVE  Balanced(s', clu', parent', sts'.spec)
<1>1. TypeOK /\ SizeInv /\ SyncStep
      BY DEF BaseInv, Elsewhere, GivesSlots, SyncStep
<1>2. clu' = clu /\ parent' = parent /\ sts.spec <= sts'.spec
      BY <1>1, ElsewhereNodes, SpecGrows
<1>3. ~Adding(s')
      BY <1>1, NotAdding DEF Elsewhere
<1>4. s'.pc # "hung"
  <2>1. ~PlanAdditions
    <3>1. s.pc # "plan"
          BY <1>1, SlotSteps DEF Elsewhere, UpdateCreating, ApplyStatefulSet, RefuseUpgrade,
                 UpdateScaling, ScaleStatefulSet, ProbeCluster, WaitPodsReady, Classify,
                 UpdateUpgrading, VerifyNodes, UpdateRunning, ReportFailure
    <3> QED
          BY <3>1 DEF PlanAdditions
  <2>2. s' = Idle \/ Fail \/ Onward(s')
        BY <1>1, <2>1, SyncCourse DEF Fails
  <2>3. Fail => s'.pc = "fail"
        BY <1>1, SyncFields DEF Fail
  <2> QED
        BY <2>2, <2>3, IdleFields DEF Onward, Follows, SlotsFollow
<1> QED
      BY <1>2, <1>3, <1>4, NotAddingBalanced

LEMMA BalanceInvStep ==
    ASSUME ScaleIn = FALSE, SlowGrowth, Alike = {}, BaseInv, BaseInv', BalanceInv, [Next]_vars
    PROVE  BalanceInv'
<1> SUFFICES ASSUME Whole'
             PROVE  Balanced(s, clu, parent, sts.spec)'
    BY DEF BalanceInv
<1>1. TypeOK /\ Balanced(s, clu, parent, sts.spec)
      BY WholeBefore DEF BalanceInv, BaseInv
<1>2. CASE SyncStep
  <2>1. \/ Elsewhere \/ CreateCluster \/ CreateNodes \/ PlanAdditions \/ AddMaster
        \/ NodesAfterMasters \/ AddSlave
        BY <1>2 DEF SyncStep, Elsewhere, GivesSlots
  <2> QED
        BY <1>1, <2>1, ElsewhereBalanced, CreateBalanced, CreateNodesBalanced, PlanBalanced,
           AddMasterBalanced, NodesAfterBalanced, AddSlaveBalanced
<1>3. ASSUME Other PROVE Balanced(s', clu', parent', sts'.spec)
  <2>1. /\ clu' = clu /\ parent' = parent /\ sts'.spec = sts.spec
        /\ StartSync \/ s' = Idle \/ SameSync(s')
        BY <1>1, <1>3, OtherStep
  <2>2. sts.spec <= sts'.spec
        BY <2>1, BaseTypes
  <2>3. CASE StartSync \/ s' = Idle
    <3>1. ~Adding(s') /\ s'.pc # "hung"
          BY <1>1, <2>3, BeginType, IdleFields DEF Adding
    <3> QED
          BY <1>1, <2>1, <2>2, <3>1, NotAddingBalanced
  <2>4. CASE SameSync(s')
        BY <1>1, <2>1, <2>4 DEF SameSync, Balanced, Chosen, Room, Serves, Awaited, Wanted, Adding
  <2> QED
        BY <2>1, <2>3, <2>4
<1>4. Balanced(s', clu', parent', sts'.spec)
      BY <1>2, <1>3 DEF Next, Other
<1> QED
      BY <1>4, Zenon DEF Balanced, Chosen, Room, Serves, Awaited, MasterSet, Wanted, Adding

LEMMA InitBalance ==
    ASSUME Init
    PROVE  BalanceInv
<1>1. s = Idle /\ sts.spec = 0 /\ \A p \in Pods : clu[p] = 0
      BY DEF Init, NoSts
<1>2. s.pc = "idle"
      BY <1>1, IdleFields
<1>3. Cardinality(MasterSet(clu, parent)) = 0
  <2>1. MasterSet(clu, parent) = {}
        BY <1>1 DEF MasterSet
  <2> QED
        BY <2>1, FS_EmptySet
<1> QED
      BY <1>1, <1>2, <1>3 DEF BalanceInv, Balanced, Chosen, Room, Wanted, Adding

\* As long as the RedisCluster grows to less than twice its size, no IP is part of
\* another and no add-node --slave stops between its two commands, at most half of
\* the instances are masters, over all other failures, conflicts and crashes: the
\* planner of an upgrade or a repair counts the masters that joined before.
THEOREM MastersStayHalf ==
    ASSUME ScaleIn = FALSE, SlowGrowth, Alike = {}, "replicate" \notin FaultSteps
    PROVE  Spec => []HalfAreMasters
<1>1. BaseInv /\ BalanceInv => HalfAreMasters
  <2> SUFFICES ASSUME BaseInv, BalanceInv PROVE HalfAreMasters
      OBVIOUS
  <2>1. /\ Cardinality(MasterSet(clu, parent)) + Wanted(s) <= sts.spec \div 2
        /\ Cardinality(MasterSet(clu, parent)) \in Nat /\ sts.spec \in Nat
        /\ s.todoM \in Seq(Pods)
        BY BaseTypes DEF BalanceInv, Whole, Balanced, Room
  <2>2. Wanted(s) \in Nat
        BY <2>1 DEF Wanted
  <2>3. {p \in Joined : parent[p] = 0} = MasterSet(clu, parent)
        BY DEF Joined, MasterSet
  <2>4. Cardinality(MasterSet(clu, parent)) <= sts.spec \div 2
        BY <2>1, <2>2
  <2> QED
        BY <2>3, <2>4, Zenon DEF HalfAreMasters
<1>2. BaseInv /\ [Next]_vars => BaseInv'
      BY BaseInvStep
<1>3. BaseInv /\ BaseInv' /\ BalanceInv /\ [Next]_vars => BalanceInv'
      BY BalanceInvStep
<1>4. Init => BaseInv /\ BalanceInv
      BY InitBase, InitBalance
<1> QED
      BY <1>1, <1>2, <1>3, <1>4, PTL DEF Spec

\* Under the same conditions composeMasterSlaveIP comes to an end in every upgrade
\* and every repair: it is never asked to place fewer masters than there are.
THEOREM PlanningAlwaysEnds ==
    ASSUME ScaleIn = FALSE, SlowGrowth, Alike = {}, "replicate" \notin FaultSteps
    PROVE  Spec => []PlanningEnds
<1>1. BalanceInv => PlanningEnds
      BY DEF BalanceInv, Whole, Balanced, PlanningEnds
<1>2. BaseInv /\ [Next]_vars => BaseInv'
      BY BaseInvStep
<1>3. BaseInv /\ BaseInv' /\ BalanceInv /\ [Next]_vars => BalanceInv'
      BY BalanceInvStep
<1>4. Init => BaseInv /\ BalanceInv
      BY InitBase, InitBalance
<1> QED
      BY <1>1, <1>2, <1>3, <1>4, PTL DEF Spec
-----------------------------------------------------------------------------
(***************************************************************************)
(* A cluster that is Running with every instance is complete, as long as   *)
(* nothing fails but the operator.  At most half of the instances are      *)
(* masters and every slave has a master of its own, so that a cluster of   *)
(* all instances has a slave for each master; what is left to show is that *)
(* its masters serve slots whenever its state is written down, above all   *)
(* when an upgrade was broken off before it gave them any.                 *)
(***************************************************************************)
Full == Joined = 1..sts.spec
AllSlots == \A p \in Pods : clu[p] # 0 /\ parent[p] = 0 => slots[p]

CompleteIn(n, k, par, sl) ==
    /\ \A p \in 1..n : p \in Pods /\ k[p] # 0
    /\ \A p \in 1..n : par[p] = 0 => sl[p] /\ \E q \in 1..n : par[q] = p

\* A copy of the RedisCluster that lists as many instances as it asks for was
\* written when the cluster was complete.
Good(r, k, par, sl) ==
    /\ Cardinality(r.status.conds) <= r.replicas
    /\ Cardinality(r.status.conds) = r.replicas => CompleteIn(r.replicas, k, par, sl)

\* What a sync knows of the StatefulSet.
Informed ==
    /\ ok /\ stsCache.spec <= sts.spec
    /\ s.job \in {"check", "repairCreate", "repairUpgrade"} => stsCache.spec = sts.spec

\* Where a sync is, and with what, when no slots are assigned by hand.
NoAssign == \A st \in Strategies : st.type # "AssignReceive"
Upgrades == {"upgrade", "repairCreate", "repairUpgrade"}
Track ==
    /\ s.pc \in {"createNodes", "addMasters", "addSlaves", "slots", "verify", "finish"} =>
          s.exist \in Joined
    /\ s.pc \in {"plan", "addMasters", "slots"} => s.job \in Upgrades
    /\ s.pc = "addSlaves" => s.job \in {"create"} \cup Upgrades
    /\ s.pc \in {"plan", "addMasters", "addSlaves", "slots"} /\ s.job = "upgrade" =>
          s.rc.strategy.type # "Other"
    /\ s.pc = "addMasters" /\ sts.spec % 2 = 0 /\ s.masters # <<>> => s.todoS # <<>>
    /\ s.pc = "probe" => Cardinality(s.rc.status.conds) = s.rc.replicas
    /\ s.pc \notin {"info", "slotNodes"}

\* When the masters serve slots.  A full cluster without them is left behind by an
\* operator that crashed, and the next sync finds out: the lister's copy of the
\* StatefulSet, read again, has its size.
Served ==
    /\ s.pc \in {"createNodes", "verify", "finish"} => AllSlots
    /\ s.pc = "addSlaves" /\ s.job = "create" => AllSlots
    /\ Full /\ ~AllSlots /\ stsCache.spec # sts.spec =>
          s.pc \in {"addMasters", "addSlaves", "slots"}
    /\ s.pc = "refuse" /\ Full /\ sts.spec = s.rc.replicas => AllSlots
    /\ s.pc = "fail" /\ s.job \notin {"create", "check", "repairCreate"} /\ s.eps # <<>> => ~Full

Copies ==
    /\ Good(cr, clu, parent, slots) /\ Good(crCache, clu, parent, slots)
    /\ ~Quiet(s) => Good(s.rc, clu, parent, slots)

RunInv == faults = 0 => Informed /\ Track /\ Served /\ Copies

\* A cluster of all instances has an even number of them and a slave for each
\* master.
LEMMA EveryMasterHasOne ==
    ASSUME BaseInv, Room(s, clu, parent, sts.spec), Full
    PROVE  /\ sts.spec % 2 = 0
           /\ \A m \in MasterSet(clu, parent) : \E q \in 1..sts.spec : parent[q] = m
<1> DEFINE n == sts.spec
           M == MasterSet(clu, parent)
           S == (1..n) \ M
           f == [x \in S |-> parent[x]]
<1>1. /\ n \in Nat /\ 1..n \subseteq Pods /\ IsFiniteSet(M) /\ Cardinality(M) \in Nat
      /\ Structure /\ parent \in [Pods -> {0} \cup Pods] /\ s.todoM \in Seq(Pods)
      BY BaseTypes
<1>2. \A p \in Pods : clu[p] # 0 <=> p \in 1..n
      BY DEF Full, Joined
<1>3. M \subseteq 1..n
      BY <1>2 DEF MasterSet
<1>4. Cardinality(M) <= n \div 2
  <2>1. Wanted(s) \in Nat
        BY <1>1 DEF Wanted
  <2> QED
        BY <1>1, <2>1 DEF Room
<1>5. \A x \in S : x \in Pods /\ parent[x] # 0 /\ parent[x] \in M
      BY <1>1, <1>2 DEF Structure, MasterSet
<1>6. \A x, y \in S : parent[x] = parent[y] => x = y
      BY <1>1, <1>5 DEF Structure
<1>7. f \in [S -> M] /\ \A x \in S : f[x] = parent[x]
      BY <1>5
<1>8. IsFiniteSet(1..n) /\ Cardinality(1..n) = n
      BY <1>1, IntervalSize
<1>9. IsFiniteSet(S) /\ Cardinality(S) = n - Cardinality(M)
  <2>1. (1..n) \cap M = M
        BY <1>3
  <2> DEFINE U == 1..n
  <2> HIDE DEF U, M, f
  <2>2. IsFiniteSet(U \ M) /\ Cardinality(U \ M) = Cardinality(U) - Cardinality(U \cap M)
        BY <1>8, FS_Difference DEF U
  <2> QED
        BY <1>8, <2>1, <2>2 DEF U
<1> HIDE DEF f, S, M
<1>10. f \in Injection(S, M)
      BY <1>6, <1>7 DEF Injection, IsInjective
<1>11. /\ Cardinality(S) <= Cardinality(M)
       /\ Cardinality(S) = Cardinality(M) => f \in Surjection(S, M)
      BY <1>1, <1>10, FS_Injection DEF M
<1>12. n % 2 = 0 /\ Cardinality(S) = Cardinality(M)
      BY <1>1, <1>4, <1>9, <1>11 DEF M
<1>13. \A m \in M : \E q \in S : f[q] = m
      BY <1>11, <1>12 DEF Surjection
<1> QED
      BY <1>7, <1>12, <1>13 DEF M, S

LEMMA CompleteWhen ==
    ASSUME BaseInv, Room(s, clu, parent, sts.spec), Full, AllSlots
    PROVE  CompleteIn(sts.spec, clu, parent, slots)
<1>1. 1..sts.spec \subseteq Pods
      BY BaseTypes
<1>2. \A p \in 1..sts.spec : clu[p] # 0
      BY DEF Full, Joined
<1> QED
      BY <1>1, <1>2, EveryMasterHasOne DEF CompleteIn, AllSlots, MasterSet

\* The conditions that are read through an instance are not more than there are
\* instances in the cluster.
LEMMA ConditionsCount ==
    ASSUME BaseInv, NEW p
    PROVE  /\ Cardinality(ClusterNodes(p)) \in Nat /\ Cardinality(ClusterNodes(p)) <= sts.spec
           /\ Cardinality(ClusterNodes(p)) = sts.spec => Full
<1> DEFINE K == Cluster(p)
           f == [q \in K |-> [pod |-> q, master |-> parent[q], slots |-> slots[q]]]
           C == ClusterNodes(p)
           U == 1..sts.spec
<1>1. sts.spec \in Nat /\ Joined \subseteq U
      BY BaseTypes DEF BaseInv, SizeInv, Joined
<1>2. K \subseteq Joined
      BY DEF Cluster, Joined
<1>3. f \in [K -> C] /\ \A c \in C : \E q \in K : f[q] = c
      BY DEF ClusterNodes
<1>4. IsFiniteSet(U) /\ Cardinality(U) = sts.spec
      BY <1>1, IntervalSize
<1> HIDE DEF f, C, K, U
<1>5. IsFiniteSet(K) /\ Cardinality(K) <= sts.spec /\ (Cardinality(K) = sts.spec => U = K)
      BY <1>1, <1>2, <1>4, FS_Subset
<1>6. f \in Surjection(K, C)
      BY <1>3 DEF Surjection
<1>7. IsFiniteSet(C) /\ Cardinality(C) <= Cardinality(K)
      BY <1>5, <1>6, FS_Surjection
<1>8. Cardinality(C) \in Nat /\ Cardinality(K) \in Nat
      BY <1>5, <1>7, FS_CardinalityType
<1>9. Cardinality(C) <= sts.spec /\ (Cardinality(C) = sts.spec => U = K)
      BY <1>1, <1>5, <1>7, <1>8
<1>10. U = K => Full
      BY <1>1, <1>2 DEF Full, U
<1> QED
      BY <1>8, <1>9, <1>10 DEF C

\* What is written other than Running keeps the conditions or drops them.
Plainly ==
    \/ cr' = cr
    \/ /\ s.fresh
       /\ \E st \in Statuses : /\ cr' = [cr EXCEPT !.status = st]
                               /\ st.conds = {} \/ st.conds = s.rc.status.conds
LEMMA PlainStatus ==
    ASSUME TypeOK, ~Quiet(s), NEW phase \in Phases, NEW reason \in BOOLEAN, NEW addrs, NEW next,
           phase # "Running" \/ addrs = <<>>,
           updateRedisClusterStatus(phase, reason, addrs, next)
    PROVE  Plainly
<1> DEFINE st == StatusFor(phase, reason, addrs)
<1>1. StatusKept \/ (CanBuildStatus(phase, addrs) /\ StatusWritten(st))
      BY Zenon DEF updateRedisClusterStatus
<1>2. ASSUME CanBuildStatus(phase, addrs) PROVE st.conds = {} \/ st.conds = s.rc.status.conds
  <2>1. phase # "Running"
        BY <1>2 DEF CanBuildStatus
  <2> QED
        BY <2>1 DEF StatusFor
<1>3. st \in Statuses
      BY StatusForType
<1> HIDE DEF st
<1> QED
      BY <1>1, <1>2, <1>3, Zenon DEF StatusKept, StatusWritten, Plainly, crVars

\* The steps that may write Running.
Reporting ==
    \/ s.pc \in {"refuse", "probe", "finish"}
    \/ s.pc = "fail" /\ s.job \notin {"create", "check", "repairCreate"} /\ s.eps # <<>>

LEMMA PlainReport ==
    ASSUME TypeOK, SyncStep, ~Reporting
    PROVE  Plainly
<1>1. ~Quiet(s) /\ TRUE \in BOOLEAN /\ FALSE \in BOOLEAN
      BY SyncMoves
<1>2. CASE UpdateCreating
  <2>1. \/ updateRedisClusterStatus("Creating", FALSE, <<>>, [s EXCEPT !.pc = "apply"])
        \/ StatusKept
        BY <1>2 DEF UpdateCreating
  <2> QED
        BY <1>1, <2>1, PlainStatus DEF StatusKept, crVars, Plainly, Phases
<1>3. CASE UpdateScaling
  <2>1. \/ updateRedisClusterStatus("Scaling", FALSE, <<>>,
                                     [s EXCEPT !.pc = "applyScale", !.old = Addresses])
        \/ StatusKept \/ updateRedisClusterStatus("Failed", TRUE, <<>>, Idle)
        \/ updateRedisClusterStatus("Scaling", FALSE, <<>>, Idle)
        BY <1>3 DEF UpdateScaling, Return
  <2> QED
        BY <1>1, <2>1, PlainStatus DEF StatusKept, crVars, Plainly, Phases
<1>4. CASE UpdateUpgrading
  <2> DEFINE next == IF s.rc.strategy.type = "Other" THEN Idle
                     ELSE [s EXCEPT !.pc = "plan", !.exist = currentRedisClusterInfo]
  <2>1. updateRedisClusterStatus("Upgrading", FALSE, <<>>, next) \/ StatusKept
        BY <1>4 DEF UpdateUpgrading
  <2> HIDE DEF next
  <2> QED
        BY <1>1, <2>1, PlainStatus DEF StatusKept, crVars, Plainly, Phases
<1>5. CASE ReportFailure
  <2>1. /\ s.pc = "fail"
        /\ \/ s.job \in {"create", "check", "repairCreate"}
              /\ updateRedisClusterStatus("Failed", TRUE, s.eps, Idle)
           \/ s.job \notin {"create", "check", "repairCreate"}
              /\ updateRedisClusterStatus("Running", TRUE, s.eps, Idle)
           \/ StatusKept
        BY <1>5, Zenon DEF ReportFailure, Return
  <2>2. s.job \in {"create", "check", "repairCreate"} \/ s.eps = <<>>
        BY <2>1 DEF Reporting
  <2> QED
        BY <1>1, <2>1, <2>2, PlainStatus DEF StatusKept, crVars, Plainly, Phases
<1>6. CASE RefuseUpgrade \/ ProbeCluster \/ UpdateRunning
      BY <1>6 DEF RefuseUpgrade, ProbeCluster, UpdateRunning, Reporting
<1>7. CASE \/ ApplyStatefulSet \/ ScaleStatefulSet \/ WaitPodsReady \/ Classify
           \/ CreateCluster \/ CreateNodes \/ PlanAdditions \/ AddMaster \/ NodesAfterMasters
           \/ AddSlave \/ VerifyNodes
  <2>1. cr' = cr
        BY <1>7, Zenon DEF ApplyStatefulSet, ScaleStatefulSet, WaitPodsReady, Classify,
           CreateCluster, CreateNodes, PlanAdditions, AddMaster, NodesAfterMasters, AddSlave,
           VerifyNodes, StatusKept, crVars, Fail
  <2> QED
        BY <2>1 DEF Plainly
<1>8. CASE GivesSlots
      BY <1>8, SlotSteps DEF Fail, StatusKept, crVars, Plainly
<1> QED
      BY <1>2, <1>3, <1>4, <1>5, <1>6, <1>7, <1>8 DEF SyncStep, GivesSlots

\* Where Running may be written of a cluster of all instances, every master serves
\* slots.
LEMMA ReportServed ==
    ASSUME BaseInv, Track, Served, Copies, ~Quiet(s), Reporting, Full,
           sts.spec = s.rc.replicas
    PROVE  AllSlots
<1>1. CASE s.pc \in {"refuse", "finish", "fail"}
      BY <1>1 DEF Reporting, Served
<1>2. CASE s.pc = "probe"
  <2>1. CompleteIn(sts.spec, clu, parent, slots)
        BY <1>2 DEF Track, Copies, Good
  <2>2. \A p \in Pods : clu[p] # 0 => p \in 1..sts.spec
        BY DEF Full, Joined
  <2> QED
        BY <2>1, <2>2 DEF CompleteIn, AllSlots
<1> QED
      BY <1>1, <1>2 DEF Reporting

\* A status is written of a copy that is the stored object.
LEMMA GoodReport ==
    ASSUME BaseInv, Balanced(s, clu, parent, sts.spec), Track, Served, Copies, ~Quiet(s),
           s.fresh, NEW st \in Statuses, Told(st),
           Reporting \/ st.conds = {} \/ st.conds = s.rc.status.conds
    PROVE  Good([cr EXCEPT !.status = st], clu, parent, slots)
<1> DEFINE r == [cr EXCEPT !.status = st]
           c == Cardinality(st.conds)
<1>1. s.rc = cr /\ cr \in RedisClusters /\ sts.spec <= s.rc.replicas /\ sts.spec \in Nat
      BY BaseTypes DEF BaseInv, TypeOK, SizeInv, Fresh
<1>2. r.replicas = cr.replicas /\ r.status.conds = st.conds
      BY <1>1, StatusType
<1>3. cr.replicas \in Nat \ {0}
      BY <1>1, ReconcileAssumption, PodsBySize DEF RedisClusters
<1>4. CASE st.conds = {}
  <2>1. c = 0
        BY <1>4, FS_EmptySet
  <2> QED
        BY <1>2, <1>3, <2>1 DEF Good
<1>5. CASE st.conds = s.rc.status.conds
  <2>1. Good(cr, clu, parent, slots)
        BY DEF Copies
  <2> QED
        BY <1>1, <1>2, <1>5, <2>1, Zenon DEF Good
<1>6. ASSUME NEW p, st.conds = ClusterNodes(p), Reporting
      PROVE  Good(r, clu, parent, slots)
  <2>1. c \in Nat /\ c <= sts.spec /\ (c = sts.spec => Full)
        BY <1>6, ConditionsCount
  <2>2. c <= cr.replicas
        BY <1>1, <1>3, <2>1
  <2>3. ASSUME c = cr.replicas PROVE CompleteIn(cr.replicas, clu, parent, slots)
    <3>1. sts.spec = cr.replicas /\ Full
          BY <1>1, <1>3, <2>1, <2>3
    <3>2. AllSlots
          BY <1>1, <1>6, <3>1, ReportServed
    <3> QED
          BY <3>1, <3>2, CompleteWhen DEF Balanced
  <2> QED
        BY <1>2, <2>2, <2>3 DEF Good
<1> QED
      BY <1>4, <1>5, <1>6 DEF Told

\* What is complete stays so.
LEMMA GoodStays ==
    ASSUME NEW r, Good(r, clu, parent, slots), MembersRemain,
           \A p \in Pods : slots[p] => slots'[p]
    PROVE  Good(r, clu', parent', slots')
BY DEF Good, CompleteIn, MembersRemain

LEMMA SlotsRemain ==
    ASSUME TypeOK, [Next]_vars
    PROVE  \A p \in Pods : slots[p] => slots'[p]
<1>1. CASE SyncStep
      BY <1>1, RedisStep, Zenon DEF SlotsStep
<1>2. CASE Other
      BY <1>2, OtherStep
<1> QED
      BY <1>1, <1>2 DEF Next, Other

\* The copies of the RedisCluster after a step of a sync.
LEMMA CopiesSync ==
    ASSUME BaseInv, Balanced(s, clu, parent, sts.spec), Track, Served, Copies, SyncStep
    PROVE  /\ Good(cr', clu', parent', slots') /\ Good(crCache', clu', parent', slots')
           /\ ~Quiet(s') => Good(s'.rc, clu', parent', slots')
<1>1. TypeOK /\ ~Quiet(s) /\ (Kept \/ Wrote)
      BY SyncMoves DEF Moves, BaseInv
<1>2. MembersRemain /\ \A p \in Pods : slots[p] => slots'[p]
      BY <1>1, AllMembersRemain, SlotsRemain DEF Next
<1>3. Good(cr', clu, parent, slots)
  <2>1. CASE Kept
        BY <2>1 DEF Kept, Copies
  <2>2. CASE Wrote
    <3>1. CASE Reporting
          BY <1>1, <2>2, <3>1, GoodReport DEF Wrote
    <3>2. CASE ~Reporting
      <4>1. Plainly
            BY <1>1, <3>2, PlainReport
      <4>2. CASE cr' = cr
            BY <4>2 DEF Copies
      <4>3. ASSUME NEW st \in Statuses, s.fresh, cr' = [cr EXCEPT !.status = st],
                   st.conds = {} \/ st.conds = s.rc.status.conds
            PROVE  Good(cr', clu, parent, slots)
        <5>1. Told(st)
              BY <4>3 DEF Told
        <5> QED
              BY <1>1, <4>3, <5>1, GoodReport
      <4> QED
            BY <4>1, <4>2, <4>3, Zenon DEF Plainly
    <3> QED
          BY <3>1, <3>2
  <2> QED
        BY <1>1, <2>1, <2>2
<1>4. crCache' = crCache /\ (Quiet(s') \/ s'.rc = s.rc \/ s'.rc = cr')
      BY <1>1 DEF Kept, Wrote
<1>5. Good(crCache', clu, parent, slots) /\ (~Quiet(s') => Good(s'.rc, clu, parent, slots))
      BY <1>1, <1>3, <1>4 DEF Copies
<1> QED
      BY <1>2, <1>3, <1>5, GoodStays

\* A state reached without failures, and a step without one.
Calm ==
    /\ BaseInv /\ Balanced(s, clu, parent, sts.spec) /\ faults' = 0
    /\ Informed /\ Track /\ Served /\ Copies

LEMMA CalmParts ==
    ASSUME Calm
    PROVE  /\ BaseInv /\ TypeOK /\ Balanced(s, clu, parent, sts.spec) /\ faults' = 0
           /\ Informed /\ Track /\ Served /\ Copies /\ ok
           /\ \A step : ~Faulty(step)
<1>1. faults \in Nat /\ faults' = 0
      BY DEF Calm, BaseInv
<1>2. \A step : ~Faulty(step)
      BY <1>1 DEF Faulty
<1> QED
      BY <1>2 DEF Calm, BaseInv, Informed

\* redis-trib create gives slots to all masters.
LEMMA CreateServed ==
    ASSUME SlowGrowth, Calm, CreateCluster
    PROVE  \/ Fail /\ UNCHANGED redisVars
           \/ s'.pc = "createNodes" /\ AllSlots' /\ s'.exist \in Joined'
<1> DEFINE a == assignMasterSlaveIP(s.eps, NodeOf)
           n == sts.spec
<1>1. /\ s.pc = "trib"
      /\ \/ Fail /\ UNCHANGED redisVars
         \/ /\ TribAccepts(a.masters) /\ parent' = parent
            /\ s' = [s EXCEPT !.pc = "createNodes", !.exist = Head(a.masters),
                              !.masters = a.masters, !.todoS = Pairs(a.slaves, a.masters)]
            /\ clu' = [p \in Pods |-> IF p \in ToSet(a.masters) THEN NewCluster ELSE clu[p]]
            /\ slots' = [p \in Pods |-> slots[p] \/ p \in ToSet(a.masters)]
      BY CalmParts, Zenon DEF CreateCluster
<1>2. SUFFICES ASSUME TribAccepts(a.masters), parent' = parent,
                      s' = [s EXCEPT !.pc = "createNodes", !.exist = Head(a.masters),
                                     !.masters = a.masters, !.todoS = Pairs(a.slaves, a.masters)],
                      clu' = [p \in Pods |-> IF p \in ToSet(a.masters) THEN NewCluster ELSE clu[p]],
                      slots' = [p \in Pods |-> slots[p] \/ p \in ToSet(a.masters)]
               PROVE  s'.pc = "createNodes" /\ AllSlots' /\ s'.exist \in Joined'
      BY <1>1
<1>3. Founded
      BY <1>1, <1>2, Zenon DEF Founded, TribAccepts
<1>4. /\ Founders \subseteq Pods /\ \A p \in Pods : clu'[p] # 0 <=> p \in Founders
      /\ NewPlan(a, 1..n, n \div 2)
      BY <1>3, CalmParts, FoundedMasters
<1>5. n \in Nat /\ n \div 2 >= 1
  <2>1. n \in Sizes
        BY <1>1, CalmParts, BaseTypes DEF Handles
  <2> QED
        BY <2>1, CalmParts, BaseTypes DEF SlowGrowth
<1>6. s'.pc = "createNodes" /\ s'.exist = Head(a.masters)
      BY <1>2, CalmParts, SyncFields
<1>7. Founders = ToSet(a.masters)
      BY DEF Founders
<1>8. AllSlots'
      BY <1>2, <1>4, <1>7, Zenon DEF AllSlots
<1> HIDE DEF a
<1>9. PICK M \in SUBSET (1..n) : Lists(a.masters, M) /\ Len(a.masters) = n \div 2
      BY <1>4 DEF NewPlan
<1>10. Head(a.masters) \in Founders
  <2> DEFINE l == a.masters
  <2>1. Lists(l, M) /\ Len(l) >= 1
        BY <1>5, <1>9
  <2>2. ToSet(l) = Founders
        BY <1>7
  <2> HIDE DEF l
  <2>3. l # <<>>
        BY <2>1
  <2>4. Head(l) \in M /\ ToSet(l) = M
        BY <2>1, <2>3, ListMembers, ListsToSet
  <2> QED
        BY <2>2, <2>4 DEF l
<1>11. s'.exist \in Joined'
      BY <1>4, <1>6, <1>10 DEF Joined
<1> QED
      BY <1>6, <1>8, <1>11

\* No add-node is refused or fails.
LEMMA AddMasterGoesOn ==
    ASSUME Calm, AddMaster
    PROVE  /\ s.pc = "addMasters" /\ s'.pc = "addMasters" /\ s'.masters = s.masters
           /\ s'.todoS = s.todoS /\ sts' = sts
<1>1. s.pc = "addMasters" /\ s.todoM # <<>> /\ s.exist \in Joined /\ sts' = sts
      BY CalmParts DEF AddMaster, Track, stsVars
<1>2. s.todoM \in Seq(Pods)
      BY CalmParts, BaseTypes
<1>3. clu[Head(s.todoM)] = 0
      BY <1>1, <1>2, CalmParts DEF Balanced, Chosen
<1>4. StatusOK(s.exist)
      BY <1>1, CalmParts DEF StatusOK, Joined
<1>5. s' = [s EXCEPT !.todoM = Tail(@)]
      BY <1>3, <1>4, CalmParts, Zenon DEF AddMaster
<1> QED
      BY <1>1, <1>5, CalmParts, SyncFields

LEMMA AddSlaveGoesOn ==
    ASSUME Calm, AddSlave
    PROVE  /\ s.pc = "addSlaves" /\ s'.pc = "addSlaves" /\ slots' = slots
           /\ MasterSet(clu', parent') = MasterSet(clu, parent)
<1> DEFINE p == Head(s.todoS)[1]
           m == Head(s.todoS)[2]
<1>1. s.pc = "addSlaves" /\ s.todoS # <<>> /\ s.exist \in Joined
      BY CalmParts DEF AddSlave, Track
<1>2. StatusOK(s.exist) /\ faults' = faults
  <2>1. NoFault
        BY CalmParts, Zenon DEF AddSlave
  <2> QED
        BY <1>1, <2>1, CalmParts DEF StatusOK, Joined, NoFault
<1>3. m \in MasterSet(clu, parent) /\ Grew(p, m) /\ s' = [s EXCEPT !.todoS = Tail(@)]
      BY <1>2, CalmParts, AddSlaveNext DEF Balanced
<1>4. slots' = slots
      BY Zenon DEF AddSlave, Join, redisVars
<1>5. p \in Pods
  <2>1. s.todoS \in Seq(Pods \X Pods)
        BY CalmParts, BaseTypes
  <2>2. Head(s.todoS) \in Pods \X Pods
        BY <1>1, <2>1
  <2> QED
        BY <2>2
<1>6. m # 0
      BY <1>3, PodsBySize DEF MasterSet
<1> HIDE DEF p, m
<1>7. MasterSet(clu', parent') = MasterSet(clu, parent)
      BY <1>3, <1>5, <1>6, CalmParts, GrewMasters
<1> QED
      BY <1>1, <1>3, <1>4, <1>7, CalmParts, SyncFields

\* When the masters and slaves to be paired are not as many, there were not enough
\* instances for all.
LEMMA NodesAfterGoesOn ==
    ASSUME Calm, NodesAfterMasters
    PROVE  /\ s.pc = "addMasters" /\ UNCHANGED redisVars /\ sts' = sts
           /\ s'.pc = "addSlaves" \/ (Fail /\ ~Full)
<1> DEFINE todo(ids) == [i \in DOMAIN s.todoS |-> <<s.todoS[i][1], ids[i]>>]
<1>1. /\ s.pc = "addMasters" /\ UNCHANGED redisVars /\ sts' = sts
      /\ \/ s' = [s EXCEPT !.pc = "addSlaves"]
         \/ \E ids : s' = [s EXCEPT !.pc = "addSlaves", !.masters = ids, !.todoS = todo(ids)]
         \/ Fail /\ (NodesUnread(s.exist) \/ Len(s.todoS) # Len(s.masters))
      BY Zenon DEF NodesAfterMasters, stsVars
<1> HIDE DEF todo
<1>2. (\E ids : s' = [s EXCEPT !.pc = "addSlaves", !.masters = ids, !.todoS = todo(ids)])
         => s'.pc = "addSlaves"
      BY CalmParts, SyncFields
<1>3. s' = [s EXCEPT !.pc = "addSlaves"] => s'.pc = "addSlaves"
      BY CalmParts, SyncFields
<1>4. ~NodesUnread(s.exist)
      BY <1>1, CalmParts DEF Track, NodesUnread, StatusOK, Joined
<1>5. ASSUME Full PROVE Len(s.todoS) = Len(s.masters)
  <2>1. sts.spec % 2 = 0
        BY <1>5, CalmParts, EveryMasterHasOne DEF Balanced
  <2>2. s.todoS \in Seq((1..sts.spec) \X Pods) /\ s.masters \in Seq(Pods)
        BY CalmParts DEF BaseInv, SizeInv, WorkIn
  <2>3. \A i \in 1..Len(s.todoS) : clu[s.todoS[i][1]] = 0
        BY <1>1, CalmParts DEF Balanced, Chosen, Adding
  <2>4. \A p \in 1..sts.spec : clu[p] # 0
        BY <1>5 DEF Full, Joined
  <2>5. \A i \in 1..Len(s.todoS) : s.todoS[i][1] \in 1..sts.spec
    <3> DEFINE U == (1..sts.spec) \X Pods
    <3>1. \A x \in U : x[1] \in 1..sts.spec
          OBVIOUS
    <3> HIDE DEF U
    <3>2. \A i \in 1..Len(s.todoS) : s.todoS[i] \in U
          BY <2>2 DEF U
    <3> QED
          BY <3>1, <3>2
  <2>6. s.todoS = <<>>
    <3>1. \A i : i \notin 1..Len(s.todoS)
          BY <2>3, <2>4, <2>5
    <3>2. Len(s.todoS) \in Nat
          BY <2>2
    <3>3. Len(s.todoS) = 0
          BY <3>1, <3>2
    <3> QED
          BY <2>2, <3>3
  <2>7. s.masters = <<>>
        BY <1>1, <2>1, <2>6, CalmParts DEF Track
  <2> QED
        BY <2>6, <2>7
<1> QED
      BY <1>1, <1>2, <1>3, <1>4, <1>5

LEMMA NoneAssigned ==
    ASSUME TypeOK, ~Quiet(s), NoAssign
    PROVE  s.rc.strategy.type # "AssignReceive"
BY DEF TypeOK, SyncType, RedisClusters, NoAssign

\* Where the slots are given out, all masters get some, unless the sync finds no
\* strategy for it: of a repair, which began when the size was known.
LEMMA SlotsGoOn ==
    ASSUME Calm, NoAssign, Rebalance \/ Reshard \/ SlotsGiven \/ NoStrategy
    PROVE  /\ s.pc = "slots"
           /\ \/ AllSlots' /\ s' = AfterSlots
              \/ s' = Idle /\ stsCache.spec = sts.spec
<1>1. s.pc = "slots"
      BY DEF Rebalance, Reshard, SlotsGiven, NoStrategy
<1>2. s.exist \in Joined /\ s.job \in Upgrades /\ ~Quiet(s)
      BY <1>1, CalmParts DEF Track, Quiet
<1>3. CASE Rebalance
  <2>1. StatusOK(s.exist) /\ s.exist \in Pods /\ clu[s.exist] # 0
        BY <1>2, CalmParts DEF StatusOK, Joined
  <2>2. GiveSlots(Masters(s.exist)) /\ s' = AfterSlots
        BY <1>3, <2>1, CalmParts, Zenon DEF Rebalance
  <2>3. Masters(s.exist) = MasterSet(clu, parent)
        BY <2>1, CalmParts, SeenIsAll
  <2>4. /\ slots' = [p \in Pods |-> slots[p] \/ p \in MasterSet(clu, parent)]
        /\ clu' = clu /\ parent' = parent
        BY <2>2, <2>3, Zenon DEF GiveSlots
  <2>5. AllSlots'
        BY <2>4, Zenon DEF AllSlots, MasterSet
  <2> QED
        BY <1>1, <2>2, <2>5
<1>4. CASE Reshard \/ SlotsGiven
      BY <1>2, <1>4, CalmParts, NoneAssigned DEF Reshard, SlotsGiven
<1>5. CASE NoStrategy
  <2>1. s' = Idle /\ s.job # "repairCreate" /\ s.rc.strategy.type = "Other"
        BY <1>5 DEF NoStrategy
  <2>2. s.job = "repairUpgrade"
        BY <1>1, <1>2, <2>1, CalmParts DEF Track, Upgrades
  <2> QED
        BY <1>1, <2>1, <2>2, CalmParts DEF Informed
<1> QED
      BY <1>3, <1>4, <1>5

LEMMA PlanGoesOn ==
    ASSUME Calm, PlanAdditions
    PROVE  /\ s.pc = "plan" /\ UNCHANGED redisVars /\ sts' = sts
           /\ (Fail /\ ~Full) \/ (s.exist \in Joined /\ Planned)
<1>1. s.pc = "plan" /\ UNCHANGED redisVars /\ sts' = sts
      BY DEF PlanAdditions, stsVars
<1>2. (NodesUnread(s.exist) /\ Fail) \/ (s.exist \in Joined /\ Planned)
      BY CalmParts, PlanNext DEF Balanced
<1>3. NodesUnread(s.exist) => ~Full
  <2>1. s.exist \in 1..sts.spec
        BY <1>1, CalmParts, BaseTypes DEF Handles, Through
  <2> QED
        BY <2>1, CalmParts DEF NodesUnread, StatusOK, Full, Joined
<1> QED
      BY <1>1, <1>2, <1>3

LEMMA VerifyGoesOn ==
    ASSUME Calm, VerifyNodes
    PROVE  s.pc = "verify" /\ UNCHANGED redisVars /\ s'.pc = "finish"
<1>1. s.pc = "verify" /\ UNCHANGED redisVars
      BY DEF VerifyNodes
<1>2. ~NodesUnread(s.exist)
      BY <1>1, CalmParts DEF Track, NodesUnread, StatusOK, Joined
<1>3. s' = [s EXCEPT !.pc = "finish"]
      BY <1>2 DEF VerifyNodes
<1> QED
      BY <1>1, <1>3, CalmParts, SyncFields

\* The steps at which the Redis nodes or the plan may change.
LEMMA StepAt ==
    ASSUME SyncStep
    PROVE  /\ s.pc = "trib" => CreateCluster
           /\ s.pc = "plan" => PlanAdditions
           /\ s.pc = "upgrading" => UpdateUpgrading
           /\ s.pc = "addMasters" => AddMaster \/ NodesAfterMasters
           /\ s.pc = "addSlaves" => AddSlave \/ SlavesAdded
           /\ s.pc = "info" => TribInfo
           /\ s.pc = "slotNodes" => NodesBeforeSlots
           /\ s.pc = "slots" => Rebalance \/ Reshard \/ SlotsGiven \/ NoStrategy
           /\ s.pc = "verify" => VerifyNodes
           /\ s.pc \notin {"trib", "addMasters", "addSlaves", "slots"} => UNCHANGED redisVars
           /\ s.pc \notin {"apply", "applyScale"} => sts' = sts
<1>1. CASE \/ UpdateCreating \/ ApplyStatefulSet \/ RefuseUpgrade \/ UpdateScaling
           \/ ScaleStatefulSet \/ ProbeCluster \/ WaitPodsReady \/ Classify \/ CreateNodes
           \/ UpdateUpgrading \/ PlanAdditions \/ TribInfo \/ NodesBeforeSlots
           \/ VerifyNodes \/ UpdateRunning \/ ReportFailure
      BY <1>1 DEF UpdateCreating, ApplyStatefulSet, RefuseUpgrade, UpdateScaling,
                  ScaleStatefulSet, ProbeCluster, WaitPodsReady, Classify, CreateNodes,
                  UpdateUpgrading, PlanAdditions, TribInfo, NodesBeforeSlots, VerifyNodes,
                  UpdateRunning, ReportFailure, stsVars
<1>2. CASE \/ CreateCluster \/ AddMaster \/ NodesAfterMasters \/ AddSlave \/ SlavesAdded
           \/ Rebalance \/ Reshard \/ SlotsGiven \/ NoStrategy
  <2>1. \/ s.pc = "trib" /\ CreateCluster
        \/ s.pc = "addMasters" /\ (AddMaster \/ NodesAfterMasters)
        \/ s.pc = "addSlaves" /\ (AddSlave \/ SlavesAdded)
        \/ s.pc = "slots" /\ (Rebalance \/ Reshard \/ SlotsGiven \/ NoStrategy)
        BY <1>2 DEF CreateCluster, AddMaster, NodesAfterMasters, AddSlave, SlavesAdded,
                    Rebalance, Reshard, SlotsGiven, NoStrategy
  <2>2. sts' = sts
        BY <2>1, StsStep DEF Resized
  <2> QED
        BY <2>1, <2>2
<1> QED
      BY <1>1, <1>2 DEF SyncStep

LEMMA SlavesAddedNext ==
    ASSUME TypeOK, SlavesAdded
    PROVE  /\ UNCHANGED redisVars
           /\ s.job = "create" => s'.pc = "verify"
           /\ s.job # "create" => \/ s'.pc = "slots"
                                  \/ s'.pc = "info" /\ s.rc.strategy.type = "AssignReceive"
BY SyncFields DEF SlavesAdded

\* An upgrade without a strategy ends before it plans.
LEMMA UpgradeHasStrategy ==
    ASSUME UpdateUpgrading, s'.pc = "plan"
    PROVE  s.rc.strategy.type # "Other"
<1> SUFFICES ASSUME s.rc.strategy.type = "Other" PROVE FALSE
    OBVIOUS
<1>1. updateRedisClusterStatus("Upgrading", FALSE, <<>>, Idle) \/ s' = Idle
      BY DEF UpdateUpgrading
<1>2. s' = Idle
      BY <1>1, Zenon DEF updateRedisClusterStatus
<1> QED
      BY <1>2, IdleFields

LEMMA InformedSync ==
    ASSUME Calm, SyncStep
    PROVE  /\ ok' /\ stsCache'.spec <= sts'.spec
           /\ s'.job \in {"check", "repairCreate", "repairUpgrade"} => stsCache'.spec = sts'.spec
<1>1. /\ ok' = ok /\ stsCache' = stsCache /\ sts.spec <= sts'.spec
      /\ s.pc \notin {"apply", "applyScale"} => sts' = sts
      BY CalmParts, StsStep, SpecGrows, StepAt DEF BaseInv
<1>2. /\ ok /\ stsCache.spec <= sts.spec
      /\ s.job \in {"check", "repairCreate", "repairUpgrade"} => stsCache.spec = sts.spec
      BY CalmParts DEF Informed
<1>3. sts.spec \in Nat /\ sts'.spec \in Nat /\ stsCache.spec \in Nat
  <2>1. TypeOK /\ TypeOK'
        BY CalmParts, StepType DEF Next
  <2>2. sts.spec \in {0} \cup Sizes /\ sts'.spec \in {0} \cup Sizes /\ stsCache.spec \in {0} \cup Sizes
        BY <2>1, StatefulSetParts DEF TypeOK
  <2> QED
        BY <2>2, PodsBySize
<1>4. ASSUME s'.job \in {"check", "repairCreate", "repairUpgrade"}
      PROVE  sts' = sts /\ s.job \in {"check", "repairCreate", "repairUpgrade"}
  <2>1. Belongs(s.pc, s.job)
        BY CalmParts DEF TypeOK, SyncType
  <2>2. CASE s' = Idle \/ s' = Hung
        BY <1>4, <2>2, IdleFields DEF Hung
  <2>3. CASE Fails
    <3>1. s'.job = s.job
          BY <2>3, CalmParts, SyncFields DEF Fails, Fail
    <3> QED
          BY <1>1, <1>4, <2>3, <3>1 DEF Fails
  <2>4. CASE Onward(s')
        BY <1>1, <1>4, <2>1, <2>4 DEF Onward, Belongs
  <2> QED
        BY <2>2, <2>3, <2>4, CalmParts, SyncCourse
<1> QED
      BY <1>1, <1>2, <1>3, <1>4

\* A sync goes on through the instance it found, with a plan that leaves none out.
LEMMA TrackSync ==
    ASSUME SlowGrowth, NoAssign, Calm, SyncStep, Onward(s')
    PROVE  Track'
<1>1. TypeOK /\ Belongs(s.pc, s.job) /\ Track /\ MembersRemain
  <2>1. TypeOK /\ Track
        BY CalmParts
  <2> QED
        BY <2>1, AllMembersRemain DEF TypeOK, SyncType, Next
<1>2. s'.pc \notin {"idle", "hung", "fail", "probe"}
      BY DEF Onward, Follows, SlotsFollow
<1>3. s'.rc.strategy = s.rc.strategy
      BY <1>2, CalmParts, CopyKept DEF Quiet, BaseInv
<1>4. s'.pc \in {"createNodes", "addMasters", "addSlaves", "slots", "verify", "finish"} =>
         s'.exist \in Joined'
  <2>1. CASE s.pc = "trib"
        BY <1>1, <2>1, CalmParts, CreateServed, StepAt, SyncFields DEF Fail, Onward, Follows, SlotsFollow
  <2>2. CASE s.pc \in {"plan", "createNodes", "addMasters", "addSlaves", "slots", "verify"}
    <3>1. s'.exist = s.exist
          BY <2>2 DEF Onward
    <3>2. s.exist \in Joined
      <4>1. CASE s.pc = "plan"
        <5>1. s'.pc # "fail"
              BY <1>2
        <5> QED
              BY <1>1, <4>1, <5>1, CalmParts, StepAt, PlanGoesOn, SyncFields DEF Fail
      <4> QED
            BY <1>1, <2>2, <4>1 DEF Track
    <3> QED
          BY <1>1, <3>1, <3>2 DEF Joined, MembersRemain
  <2>3. CASE s.pc \notin {"trib", "plan", "createNodes", "addMasters", "addSlaves", "slots", "verify"}
        BY <1>1, <2>3 DEF Onward, Follows, SlotsFollow, Track
  <2> QED
        BY <2>1, <2>2, <2>3
<1>5. /\ s'.pc \in {"plan", "addMasters", "slots"} => s'.job \in Upgrades
      /\ s'.pc = "addSlaves" => s'.job \in {"create"} \cup Upgrades
  <2>1. s'.pc = "plan" => s'.job \in Upgrades
        BY <1>1 DEF Onward, Follows, SlotsFollow, Belongs, Upgrades
  <2>2. s'.pc = "addMasters" => s'.job \in Upgrades
        BY <1>1 DEF Onward, Follows, SlotsFollow, Track
  <2>3. s'.pc = "slots" => s'.job \in Upgrades
    <3>1. SUFFICES ASSUME s'.pc = "slots" PROVE s'.job \in Upgrades
          OBVIOUS
    <3>2. s.pc = "addSlaves" /\ s'.job = s.job
      <4>1. s.pc \in {"addSlaves", "slots"} /\ s'.job = s.job
            BY <1>1, <3>1 DEF Onward, Follows, SlotsFollow, Track
      <4>2. s.pc = "slots" => s' = AfterSlots \/ s' = Idle
            BY StepAt, SlotsGoOn
      <4> QED
            BY <1>1, <3>1, <4>1, <4>2, SyncFields, IdleFields DEF AfterSlots
    <3>3. AddSlave \/ SlavesAdded
          BY <3>2, StepAt
    <3>4. s.job # "create"
          BY <1>1, <3>1, <3>3, CalmParts, AddSlaveGoesOn, SlavesAddedNext
    <3> QED
          BY <1>1, <3>2, <3>4 DEF Track
  <2>4. s'.pc = "addSlaves" => s'.job \in {"create"} \cup Upgrades
        BY <1>1 DEF Onward, Follows, SlotsFollow, Belongs, Track
  <2> QED
        BY <2>1, <2>2, <2>3, <2>4
<1>6. s'.pc \in {"plan", "addMasters", "addSlaves", "slots"} /\ s'.job = "upgrade" =>
         s'.rc.strategy.type # "Other"
  <2>1. s'.pc = "plan" /\ s'.job = "upgrade" => s.rc.strategy.type # "Other"
    <3>1. SUFFICES ASSUME s'.pc = "plan", s'.job = "upgrade"
                   PROVE  s.rc.strategy.type # "Other"
          OBVIOUS
    <3>2. s.pc = "upgrading"
          BY <3>1 DEF Onward, Follows, SlotsFollow
    <3> QED
          BY <3>1, <3>2, StepAt, UpgradeHasStrategy
  <2>2. s'.pc \in {"addMasters", "addSlaves", "slots"} /\ s'.job = "upgrade" =>
           s.rc.strategy.type # "Other"
        BY <1>1 DEF Onward, Follows, SlotsFollow, Track, Belongs
  <2> QED
        BY <1>3, <2>1, <2>2
<1>7. s'.pc = "addMasters" /\ sts'.spec % 2 = 0 /\ s'.masters # <<>> => s'.todoS # <<>>
  <2>1. SUFFICES ASSUME s'.pc = "addMasters"
                 PROVE  sts'.spec % 2 = 0 /\ s'.masters # <<>> => s'.todoS # <<>>
        OBVIOUS
  <2>2. s.pc \in {"plan", "addMasters"} /\ sts' = sts
        BY <2>1, StepAt DEF Onward, Follows, SlotsFollow
  <2>3. CASE s.pc = "plan"
    <3>1. ~Fail
          BY <1>1, <2>1, SyncFields DEF Fail
    <3>2. Planned
          BY <2>3, <3>1, StepAt, PlanGoesOn
    <3> QED
          BY <2>2, <3>2, Zenon DEF Planned
  <2>4. CASE s.pc = "addMasters"
    <3>1. ~Fail
          BY <1>1, <2>1, SyncFields DEF Fail
    <3>2. s'.masters = s.masters /\ s'.todoS = s.todoS
          BY <2>1, <2>4, <3>1, StepAt, AddMasterGoesOn, NodesAfterGoesOn
    <3> QED
          BY <1>1, <2>2, <2>4, <3>2 DEF Track
  <2> QED
        BY <2>2, <2>3, <2>4
<1>8. s'.pc \notin {"info", "slotNodes"}
  <2>1. SUFFICES ASSUME s'.pc = "info" PROVE FALSE
        BY <1>1 DEF Onward, Follows, SlotsFollow, Track
  <2>2. s.pc = "addSlaves"
        BY <2>1 DEF Onward, Follows, SlotsFollow
  <2>3. SlavesAdded
        BY <2>1, <2>2, StepAt, AddSlaveGoesOn
  <2> QED
        BY <1>1, <2>1, <2>2, <2>3, SlavesAddedNext, NoneAssigned DEF Quiet
<1> QED
      BY <1>2, <1>4, <1>5, <1>6, <1>7, <1>8 DEF Track

\* A sync that ends or fails is nowhere on its way.
LEMMA TrackEnds ==
    ASSUME s'.pc \in {"idle", "hung", "fail"}
    PROVE  Track'
BY DEF Track

\* What a failure leaves behind.
LEMMA FailServed ==
    ASSUME SlowGrowth, NoAssign, Calm, SyncStep, Fails
    PROVE  /\ UNCHANGED redisVars /\ sts' = sts /\ stsCache' = stsCache
           /\ s'.pc = "fail" /\ s'.job = s.job /\ s'.eps = s.eps
           /\ s.pc \notin {"addSlaves", "slots", "verify"}
           /\ s.pc \in {"plan", "addMasters"} => ~Full
<1>1. TypeOK /\ s'.pc = "fail" /\ s'.job = s.job /\ s'.eps = s.eps
      BY CalmParts, SyncFields DEF Fails, Fail
<1>2. s.pc \notin {"apply", "applyScale"}
      BY DEF Fails
<1>3. sts' = sts /\ stsCache' = stsCache
      BY <1>2, StepAt, StsStep
<1>4. s.pc # "addSlaves"
  <2>1. SUFFICES ASSUME s.pc = "addSlaves" PROVE FALSE
        OBVIOUS
  <2> QED
        BY <1>1, <2>1, StepAt, AddSlaveGoesOn, SlavesAddedNext
<1>5. s.pc # "slots"
  <2>1. SUFFICES ASSUME s.pc = "slots" PROVE FALSE
        OBVIOUS
  <2>2. s' = AfterSlots \/ s' = Idle
        BY <2>1, StepAt, SlotsGoOn
  <2> QED
        BY <1>1, <2>2, SyncFields, IdleFields DEF AfterSlots
<1>6. s.pc # "verify"
  <2>1. SUFFICES ASSUME s.pc = "verify" PROVE FALSE
        OBVIOUS
  <2> QED
        BY <1>1, <2>1, StepAt, VerifyGoesOn
<1>7. s.pc = "plan" => ~Full
  <2>1. SUFFICES ASSUME s.pc = "plan" PROVE ~Full
        OBVIOUS
  <2> QED
        BY <1>1, <2>1, StepAt, PlanGoesOn DEF Planned
<1>8. s.pc = "addMasters" => ~Full /\ UNCHANGED redisVars
  <2>1. SUFFICES ASSUME s.pc = "addMasters" PROVE ~Full /\ UNCHANGED redisVars
        OBVIOUS
  <2> QED
        BY <1>1, <2>1, StepAt, AddMasterGoesOn, NodesAfterGoesOn
<1>9. s.pc = "trib" => UNCHANGED redisVars
  <2>1. SUFFICES ASSUME s.pc = "trib" PROVE UNCHANGED redisVars
        OBVIOUS
  <2> QED
        BY <1>1, <2>1, StepAt, CreateServed
<1>10. UNCHANGED redisVars
      BY <1>4, <1>5, <1>8, <1>9, StepAt
<1> QED
      BY <1>1, <1>3, <1>4, <1>5, <1>6, <1>7, <1>8, <1>10

\* Where nothing is done to the Redis nodes, a full cluster is what it was; one
\* that the StatefulSet outgrows is not full any more.
LEMMA FullBefore ==
    ASSUME BaseInv, BaseInv', clu' = clu, sts.spec <= sts'.spec, Full'
    PROVE  Full /\ sts'.spec = sts.spec
<1>1. sts.spec \in Nat /\ sts'.spec \in Nat
  <2>1. sts.spec \in {0} \cup Sizes /\ sts'.spec \in {0} \cup Sizes
        BY StatefulSetParts DEF BaseInv, TypeOK
  <2> QED
        BY <2>1, PodsBySize
<1>2. \A p \in Pods : clu[p] # 0 => p \in 1..sts.spec
      BY DEF BaseInv, SizeInv
<1>3. Joined' = Joined /\ Joined' = 1..sts'.spec
      BY Zenon DEF Joined, Full
<1>4. 1..sts'.spec \subseteq 1..sts.spec
      BY <1>2, <1>3 DEF Joined
<1>5. sts'.spec = sts.spec
      BY <1>1, <1>4
<1> QED
      BY <1>3, <1>5 DEF Full

LEMMA SlotsKept ==
    ASSUME UNCHANGED redisVars
    PROVE  AllSlots' <=> AllSlots
BY DEF AllSlots, redisVars

\* A full cluster without slots for all masters, of whose size the lister does not
\* know, is left behind only between the additions and the slots of one sync.
LEMMA UnservedSync ==
    ASSUME SlowGrowth, NoAssign, Calm, BaseInv', SyncStep,
           Full', ~AllSlots', stsCache'.spec # sts'.spec
    PROVE  s'.pc \in {"addMasters", "addSlaves", "slots"}
<1>1. stsCache' = stsCache /\ BaseInv /\ TypeOK /\ Served /\ sts.spec <= sts'.spec
      BY CalmParts, StsStep, SpecGrows DEF BaseInv
<1>2. ASSUME UNCHANGED redisVars
      PROVE  Full /\ s.pc \in {"addMasters", "addSlaves", "slots"}
  <2>1. clu' = clu
        BY <1>2 DEF redisVars
  <2>2. Full /\ sts'.spec = sts.spec
        BY <1>1, <2>1, FullBefore
  <2>3. ~AllSlots
        BY <1>2, SlotsKept
  <2> QED
        BY <1>1, <2>2, <2>3 DEF Served
<1>3. CASE s.pc = "trib"
      BY <1>2, <1>3, StepAt, CreateServed
<1>4. CASE s.pc = "addMasters"
      BY <1>2, <1>4, StepAt, AddMasterGoesOn, NodesAfterGoesOn
<1>5. CASE s.pc = "addSlaves"
  <2>1. CASE AddSlave
        BY <2>1, AddSlaveGoesOn
  <2>2. CASE SlavesAdded
    <3>1. CASE s.job = "create"
      <4>1. AllSlots
            BY <1>1, <1>5, <3>1 DEF Served
      <4> QED
            BY <1>1, <2>2, <4>1, SlavesAddedNext, SlotsKept
    <3> QED
          BY <1>1, <1>5, <2>2, <3>1, SlavesAddedNext, NoneAssigned DEF Quiet
  <2> QED
        BY <1>5, <2>1, <2>2, StepAt
<1>6. CASE s.pc = "slots"
  <2>1. stsCache.spec = sts.spec /\ sts' = sts
        BY <1>6, StepAt, SlotsGoOn
  <2> QED
        BY <1>1, <2>1
<1>7. CASE s.pc \notin {"trib", "addMasters", "addSlaves", "slots"}
      BY <1>2, <1>7, StepAt
<1> QED
      BY <1>3, <1>4, <1>5, <1>6, <1>7

LEMMA ServedSync ==
    ASSUME SlowGrowth, NoAssign, Calm, BaseInv', SyncStep,
           s' = Idle \/ s' = Hung \/ Fails \/ Onward(s')
    PROVE  Served'
<1>1. TypeOK /\ Served /\ Track
      BY CalmParts
<1>2. Full' /\ ~AllSlots' /\ stsCache'.spec # sts'.spec =>
         s'.pc \in {"addMasters", "addSlaves", "slots"}
      BY UnservedSync
<1>3. CASE s' = Idle \/ s' = Hung
  <2>1. s'.pc \in {"idle", "hung"}
        BY <1>3, IdleFields DEF Hung
  <2> QED
        BY <1>2, <2>1 DEF Served
<1>4. CASE Fails
  <2>1. /\ UNCHANGED redisVars /\ sts' = sts /\ s'.pc = "fail" /\ s'.job = s.job /\ s'.eps = s.eps
        /\ s.pc \notin {"addSlaves", "slots", "verify"}
        /\ s.pc \in {"plan", "addMasters"} => ~Full
        BY <1>4, FailServed
  <2>2. Full' => Full
        BY <2>1 DEF Full, Joined, redisVars
  <2>3. ASSUME s'.job \notin {"create", "check", "repairCreate"}, s'.eps # <<>>
        PROVE  ~Full'
    <3>1. Belongs(s.pc, s.job) /\ Works(s, sts.spec)
          BY CalmParts, BaseTypes DEF TypeOK, SyncType
    <3>2. s.pc \in {"plan", "addMasters"}
          BY <1>1, <1>4, <2>1, <2>3, <3>1 DEF Fails, Belongs, Works, Past, Track
    <3> QED
          BY <2>1, <2>2, <3>2
  <2> QED
        BY <1>2, <2>1, <2>3 DEF Served
<1>5. CASE Onward(s')
  <2>1. s'.pc \notin {"refuse", "fail"}
        BY <1>5 DEF Onward, Follows, SlotsFollow
  <2>2. s'.pc \in {"createNodes", "verify", "finish"} => AllSlots'
    <3>1. SUFFICES ASSUME s'.pc \in {"createNodes", "verify", "finish"} PROVE AllSlots'
          OBVIOUS
    <3>2. s.pc \in {"trib", "addSlaves", "slots", "verify"}
          BY <1>1, <1>5, <3>1 DEF Onward, Follows, SlotsFollow, Track
    <3>3. CASE s.pc = "trib"
          BY <1>1, <2>1, <3>3, StepAt, CreateServed, SyncFields DEF Fail
    <3>4. CASE s.pc = "addSlaves"
      <4>1. SlavesAdded
            BY <3>1, <3>4, StepAt, AddSlaveGoesOn
      <4>2. s.job = "create"
            BY <1>1, <3>1, <4>1, SlavesAddedNext
      <4> QED
            BY <1>1, <3>4, <4>1, <4>2, SlavesAddedNext, SlotsKept DEF Served
    <3>5. CASE s.pc = "slots"
      <4>1. s' # Idle
            BY <3>1, IdleFields
      <4> QED
            BY <3>5, <4>1, StepAt, SlotsGoOn
    <3>6. CASE s.pc = "verify"
          BY <1>1, <3>6, StepAt, VerifyGoesOn, SlotsKept DEF Served
    <3> QED
          BY <3>2, <3>3, <3>4, <3>5, <3>6
  <2>3. s'.pc = "addSlaves" /\ s'.job = "create" => AllSlots'
    <3>1. SUFFICES ASSUME s'.pc = "addSlaves", s'.job = "create" PROVE AllSlots'
          OBVIOUS
    <3>2. s.pc \in {"createNodes", "addMasters", "addSlaves"} /\ s.job = "create"
          BY <1>5, <3>1 DEF Onward, Follows, SlotsFollow
    <3>3. s.pc # "addMasters"
          BY <1>1, <3>2 DEF Track, Upgrades
    <3>4. CASE s.pc = "createNodes"
          BY <1>1, <3>4, StepAt, SlotsKept DEF Served
    <3>5. CASE s.pc = "addSlaves"
      <4>1. AddSlave
            BY <1>1, <3>1, <3>5, StepAt, SlavesAddedNext
      <4>2. slots' = slots /\ MasterSet(clu', parent') = MasterSet(clu, parent)
            BY <4>1, AddSlaveGoesOn
      <4>3. AllSlots
            BY <1>1, <3>2, <3>5 DEF Served
      <4> QED
            BY <4>2, <4>3 DEF AllSlots, MasterSet
    <3> QED
          BY <3>2, <3>3, <3>4, <3>5
  <2> QED
        BY <1>2, <2>1, <2>2, <2>3 DEF Served
<1> QED
      BY <1>3, <1>4, <1>5

\* Where a sync begins.
LEMMA StartNext ==
    ASSUME TypeOK, StartSync
    PROVE  /\ s.pc = "idle" /\ s'.rc = crCache
           /\ UNCHANGED <<cr, crCache, sts, stsCache, redisVars, ok>>
           /\ \/ s'.pc = "creating" /\ s'.job = "create"
              \/ /\ s'.pc \in {"refuse", "scaling"} /\ s'.job = "upgrade"
                 /\ crCache.replicas > stsCache.spec
              \/ /\ s'.pc \in {"probe", "wait"} /\ s'.job = "check"
                 /\ ~(crCache.replicas > stsCache.spec)
                 /\ s'.pc = "probe" => Cardinality(crCache.status.conds) = crCache.replicas
<1> DEFINE begin(pc, job) == [Idle EXCEPT !.pc = pc, !.job = job, !.rc = crCache,
                                 !.fresh = cacheFresh, !.stsSeen = (stsCache # NoSts)]
<1>1. \/ s' = begin("creating", "create")
      \/ /\ crCache.replicas > stsCache.spec
         /\ s' = begin("refuse", "upgrade") \/ s' = begin("scaling", "upgrade")
      \/ /\ ~(crCache.replicas > stsCache.spec)
         /\ (Healthy(crCache) /\ s' = begin("probe", "check")) \/ s' = begin("wait", "check")
      BY DEF StartSync
<1>2. \A pc, job : /\ begin(pc, job).pc = pc /\ begin(pc, job).job = job
                   /\ begin(pc, job).rc = crCache
      BY IdleFields
<1>3. s.pc = "idle" /\ UNCHANGED <<cr, crCache, sts, stsCache, redisVars, ok>>
      BY DEF StartSync, crVars, stsVars
<1> HIDE DEF begin
<1> QED
      BY <1>1, <1>2, <1>3 DEF Healthy

\* The copies of what the API server stores change for what is stored, and all do
\* in a crash.
LEMMA OtherCopies ==
    ASSUME ScaleIn = FALSE, TypeOK, Other
    PROVE  /\ stsCache'.spec = stsCache.spec \/ stsCache'.spec = sts.spec
           /\ crCache' = crCache \/ crCache' = cr
           /\ \/ cr' = cr
              \/ cr'.status = cr.status /\ cr'.replicas >= cr.replicas
           /\ StartSync \/ (s' = Idle /\ stsCache' = sts) \/ SameSync(s')
<1>1. CASE EditRedisCluster
  <2>1. SameSync(s')
        BY <1>1, SyncFields DEF EditRedisCluster, SameSync
  <2> QED
        BY <1>1, <2>1, EditType DEF EditRedisCluster, stsVars
<1>2. CASE UNCHANGED vars \/ StartSync
      BY <1>2 DEF vars, StartSync, crVars, stsVars, SameSync
<1>3. CASE \/ RedisClusterInformed \/ StatefulSetInformed \/ PodsCreated \/ PodReady \/ PodUnready
           \/ ClusterBreaks \/ ClusterHeals \/ Restart
      BY <1>3 DEF RedisClusterInformed, StatefulSetInformed, PodsCreated, PodReady, PodUnready,
                  ClusterBreaks, ClusterHeals, Restart, crVars, stsVars, SameSync
<1> QED
      BY <1>1, <1>2, <1>3 DEF Other, Environment

\* The other steps leave a running sync where it is; a sync that begins has been
\* told the size of the StatefulSet, or finds the RedisCluster edited.
LEMMA OtherRun ==
    ASSUME ScaleIn = FALSE, MaxBreaks = 0, Calm, BaseInv', Other
    PROVE  Informed' /\ Track' /\ Served'
<1>1. /\ TypeOK /\ Informed /\ Track /\ Served /\ ok /\ breaks \in Nat /\ SizeInv /\ sts.spec \in Nat
      /\ crCache.replicas \in Nat /\ stsCache.spec \in Nat
  <2>1. TypeOK /\ SizeInv /\ breaks \in Nat
        BY CalmParts DEF BaseInv
  <2>2. stsCache.spec \in {0} \cup Sizes
        BY <2>1, StatefulSetParts DEF TypeOK
  <2> QED
        BY <2>1, <2>2, CalmParts, SizeTypes, PodsBySize
<1>2. /\ clu' = clu /\ parent' = parent /\ slots' = slots /\ sts'.spec = sts.spec
      /\ StartSync \/ (s' = Idle /\ stsCache' = sts) \/ SameSync(s')
      /\ stsCache'.spec = stsCache.spec \/ stsCache'.spec = sts.spec
      BY <1>1, OtherStep, OtherCopies
<1>3. ok'
  <2>1. ~(breaks < MaxBreaks)
        BY <1>1
  <2> QED
        BY <1>1, <2>1, OtherStep
<1>4. Joined' = Joined /\ (AllSlots' <=> AllSlots) /\ (Full' <=> Full)
  <2>1. Joined' = Joined
        BY <1>2, Zenon DEF Joined
  <2>2. AllSlots' <=> AllSlots
        BY <1>2 DEF AllSlots
  <2> QED
        BY <1>2, <2>1, <2>2 DEF Full
<1>5. CASE StartSync
  <2>1. /\ s.pc = "idle" /\ s'.rc = crCache
        /\ UNCHANGED <<cr, crCache, sts, stsCache, redisVars, ok>>
        /\ \/ s'.pc = "creating" /\ s'.job = "create"
           \/ /\ s'.pc \in {"refuse", "scaling"} /\ s'.job = "upgrade"
              /\ crCache.replicas > stsCache.spec
           \/ /\ s'.pc \in {"probe", "wait"} /\ s'.job = "check"
              /\ ~(crCache.replicas > stsCache.spec)
              /\ s'.pc = "probe" => Cardinality(crCache.status.conds) = crCache.replicas
        BY <1>1, <1>5, StartNext
  <2>2. s'.job = "check" => stsCache.spec = sts.spec
        BY <1>1, <2>1 DEF Informed, SizeInv
  <2>3. Informed'
        BY <1>1, <1>3, <2>1, <2>2 DEF Informed
  <2>4. Track'
        BY <2>1 DEF Track
  <2>5. Full /\ ~AllSlots => stsCache.spec = sts.spec
        BY <1>1, <2>1 DEF Served
  <2>6. s'.pc = "refuse" /\ Full /\ sts.spec = s'.rc.replicas => AllSlots
        BY <1>1, <2>1, <2>5
  <2>7. Served'
        BY <1>4, <2>1, <2>5, <2>6 DEF Served
  <2> QED
        BY <2>3, <2>4, <2>7
<1>6. CASE s' = Idle /\ stsCache' = sts
  <2>1. s'.pc = "idle" /\ s'.job = "none"
        BY <1>6, IdleFields
  <2> QED
        BY <1>1, <1>2, <1>3, <1>6, <2>1 DEF Informed, Track, Served
<1>7. CASE SameSync(s')
  <2>1. Informed'
        BY <1>1, <1>2, <1>3, <1>7 DEF Informed, SameSync
  <2>2. Track'
        BY <1>1, <1>2, <1>4, <1>7 DEF Track, SameSync
  <2>3. Served'
        BY <1>1, <1>2, <1>4, <1>7 DEF Served, SameSync
  <2> QED
        BY <2>1, <2>2, <2>3
<1> QED
      BY <1>2, <1>5, <1>6, <1>7

LEMMA CopiesOther ==
    ASSUME ScaleIn = FALSE, Calm, Other
    PROVE  /\ Good(cr', clu', parent', slots') /\ Good(crCache', clu', parent', slots')
           /\ ~Quiet(s') => Good(s'.rc, clu', parent', slots')
<1>1. /\ TypeOK /\ Good(cr, clu, parent, slots) /\ Good(crCache, clu, parent, slots)
      /\ ~Quiet(s) => Good(s.rc, clu, parent, slots)
      BY CalmParts DEF Copies
<1>2. /\ clu' = clu /\ parent' = parent /\ slots' = slots
      /\ crCache' = crCache \/ crCache' = cr
      /\ cr' = cr \/ (cr'.status = cr.status /\ cr'.replicas >= cr.replicas)
      /\ StartSync \/ (s' = Idle /\ stsCache' = sts) \/ SameSync(s')
      BY <1>1, OtherStep, OtherCopies
<1>3. Good(cr', clu, parent, slots)
  <2>1. CASE cr' = cr
        BY <1>1, <2>1, Zenon
  <2>2. CASE cr'.status = cr.status /\ cr'.replicas >= cr.replicas
    <3>1. cr.replicas \in Nat /\ cr'.replicas \in Nat
      <4>1. TypeOK'
            BY <1>1, StepType DEF Next, Other
      <4>2. cr.replicas \in Sizes /\ cr'.replicas \in Sizes
            BY <1>1, <4>1 DEF TypeOK, RedisClusters
      <4> QED
            BY <4>2, PodsBySize
    <3>2. Cardinality(cr'.status.conds) \in Nat
      <4>1. cr.status.conds \in SUBSET Conditions
            BY <1>1 DEF TypeOK, RedisClusters
      <4> QED
            BY <2>2, <4>1, ConditionsFinite, FS_Subset, FS_CardinalityType
    <3>3. /\ Cardinality(cr'.status.conds) <= cr.replicas
          /\ Cardinality(cr'.status.conds) = cr.replicas =>
                CompleteIn(cr.replicas, clu, parent, slots)
          BY <1>1, <2>2 DEF Good
    <3>4. Cardinality(cr'.status.conds) <= cr'.replicas
          BY <2>2, <3>1, <3>2, <3>3
    <3>5. Cardinality(cr'.status.conds) = cr'.replicas => cr'.replicas = cr.replicas
          BY <2>2, <3>1, <3>2, <3>3
    <3>6. Cardinality(cr'.status.conds) = cr'.replicas =>
             CompleteIn(cr'.replicas, clu, parent, slots)
          BY <3>3, <3>5, Zenon
    <3> QED
          BY <3>4, <3>6 DEF Good
  <2> QED
        BY <1>2, <2>1, <2>2
<1>4. Good(crCache', clu, parent, slots)
      BY <1>1, <1>2, Zenon
<1>5. ASSUME ~Quiet(s') PROVE Good(s'.rc, clu, parent, slots)
  <2>1. CASE StartSync
    <3>1. s'.rc = crCache
          BY <1>1, <2>1, StartNext
    <3> QED
          BY <1>1, <3>1, Zenon
  <2>2. CASE s' = Idle
        BY <1>5, <2>2, IdleType
  <2>3. CASE SameSync(s')
        BY <1>1, <1>5, <2>3, Zenon DEF SameSync, Quiet
  <2> QED
        BY <1>2, <2>1, <2>2, <2>3
<1> QED
      BY <1>2, <1>3, <1>4, <1>5, Zenon

LEMMA RunInvStep ==
    ASSUME ScaleIn = FALSE, SlowGrowth, Alike = {}, MaxBreaks = 0,
           NoAssign, BaseInv, BaseInv', BalanceInv, RunInv, [Next]_vars
    PROVE  RunInv'
<1> SUFFICES ASSUME faults' = 0
             PROVE  Informed' /\ Track' /\ Served' /\ Copies'
    BY DEF RunInv
<1>1. SyncStep \/ Other
      BY DEF Next, Other
<1>2. Calm
  <2>1. faults \in Nat /\ (faults' = faults \/ faults' = faults + 1)
        BY <1>1, OtherStep, SyncFaults DEF BaseInv
  <2>2. faults = 0
        BY <2>1
  <2> QED
        BY <2>2 DEF Calm, RunInv, BalanceInv, Whole
<1>3. CASE Other
  <2>1. Informed' /\ Track' /\ Served'
        BY <1>2, <1>3, OtherRun
  <2>2. /\ Good(cr', clu', parent', slots') /\ Good(crCache', clu', parent', slots')
        /\ ~Quiet(s') => Good(s'.rc, clu', parent', slots')
        BY <1>2, <1>3, CopiesOther
  <2>3. Copies'
        BY <2>2, Zenon DEF Copies, Good, CompleteIn, Quiet
  <2> QED
        BY <2>1, <2>3
<1>4. CASE SyncStep
  <2>1. s' = Idle \/ s' = Hung \/ Fails \/ Onward(s')
        BY <1>2, <1>4, CalmParts, SyncCourse
  <2>2. Informed'
        BY <1>2, <1>4, InformedSync DEF Informed
  <2>3. Track'
    <3>1. CASE s' = Idle \/ s' = Hung \/ Fails
      <4>1. s'.pc \in {"idle", "hung", "fail"}
            BY <1>2, <3>1, CalmParts, SyncFields, IdleFields DEF Hung, Fails, Fail
      <4> QED
            BY <4>1, TrackEnds
    <3>2. CASE Onward(s')
          BY <1>2, <1>4, <3>2, TrackSync
    <3> QED
          BY <2>1, <3>1, <3>2
  <2>4. Served'
        BY <1>2, <1>4, <2>1, ServedSync
  <2>5. /\ Good(cr', clu', parent', slots') /\ Good(crCache', clu', parent', slots')
        /\ ~Quiet(s') => Good(s'.rc, clu', parent', slots')
        BY <1>2, <1>4, CalmParts, CopiesSync
  <2>6. Copies'
        BY <2>5, Zenon DEF Copies, Good, CompleteIn, Quiet
  <2> QED
        BY <2>2, <2>3, <2>4, <2>6
<1> QED
      BY <1>1, <1>3, <1>4

LEMMA InitRun ==
    ASSUME Init
    PROVE  RunInv
<1>1. /\ s = Idle /\ sts.spec = 0 /\ stsCache.spec = 0 /\ ok = TRUE /\ crCache = cr
      /\ cr.status = NoStatus /\ cr.replicas \in Sizes /\ \A p \in Pods : clu[p] = 0
      BY DEF Init, NoSts
<1>2. s.pc = "idle" /\ s.job = "none"
      BY <1>1, IdleFields
<1>3. Informed /\ Track
      BY <1>1, <1>2 DEF Informed, Track
<1>4. Served
      BY <1>1, <1>2 DEF Served, AllSlots
<1>5. Good(cr, clu, parent, slots)
  <2>1. Cardinality(cr.status.conds) = 0
    <3>1. cr.status.conds = {}
      <4>1. NoStatus.conds = {}
            BY DEF NoStatus
      <4>2. cr.status = NoStatus
            BY <1>1
      <4> QED
            BY <4>1, <4>2, Zenon
    <3> QED
          BY <3>1, FS_EmptySet
  <2>2. cr.replicas \in Nat \ {0}
        BY <1>1, ReconcileAssumption
  <2> QED
        BY <2>1, <2>2 DEF Good
<1>6. Copies
      BY <1>1, <1>2, <1>5, Zenon DEF Copies, Quiet
<1> QED
      BY <1>3, <1>4, <1>6 DEF RunInv

\* A RedisCluster that is reported as Running, without a reason and with every
\* instance it asks for, has all of them in the cluster and a slave and slots for
\* each master, wherever the operator crashed and whatever size it was edited to in
\* between, as long as nothing else fails: a crash between the add-node commands and
\* the slots of an upgrade, which leaves masters without slots behind, is found out
\* by the next sync before it writes Running.  (The Redis cluster keeps its state ok,
\* the slots are given by rebalance, and the RedisCluster grows to less than twice
\* its size.)
THEOREM RunningIsTrueAfterCrashes ==
    ASSUME ScaleIn = FALSE, SlowGrowth, Alike = {}, MaxBreaks = 0,
           \A st \in Strategies : st.type # "AssignReceive"
    PROVE  Spec => []RunningSurvivesCrashes
<1>1. RunInv => RunningSurvivesCrashes
  <2> SUFFICES ASSUME RunInv, faults = 0, Cardinality(cr.status.conds) = cr.replicas
               PROVE  Complete(cr.replicas)
      BY DEF RunningSurvivesCrashes, RunningIsComplete
  <2>1. CompleteIn(cr.replicas, clu, parent, slots)
        BY DEF RunInv, Copies, Good
  <2> QED
        BY <2>1 DEF CompleteIn, Complete, Joined
<1>2. BaseInv /\ [Next]_vars => BaseInv'
      BY BaseInvStep
<1>3. BaseInv /\ BaseInv' /\ BalanceInv /\ [Next]_vars => BalanceInv'
      BY BalanceInvStep
<1>4. BaseInv /\ BaseInv' /\ BalanceInv /\ RunInv /\ [Next]_vars => RunInv'
      BY RunInvStep DEF NoAssign
<1>5. Init => BaseInv /\ BalanceInv /\ RunInv
      BY InitBase, InitBalance, InitRun
<1> QED
      BY <1>1, <1>2, <1>3, <1>4, <1>5, PTL DEF Spec
-----------------------------------------------------------------------------
(***************************************************************************)
(* The Redis nodes grow as Topology says.  What it takes beyond the        *)
(* invariants so far: the masters that an upgrade gives slots to are       *)
(* masters when it comes to that, so that no slave ever has slots.         *)
(***************************************************************************)
Aimed(t, k, par) ==
    /\ t.pc = "addSlaves" /\ t.job # "create" =>
          \A i \in 1..Len(t.masters) : t.masters[i] \in MasterSet(k, par)
    /\ /\ t.pc \in {"slotNodes", "slots"} /\ t.job # "repairCreate"
       /\ t.rc.strategy.type = "AssignReceive"
       => \A i \in 1..Len(t.todoM) : t.todoM[i] \in MasterSet(k, par)
SlotsInv == Aimed(s, clu, parent) /\ Serving \subseteq MasterSet(clu, parent)

\* Slots for masters of the cluster, and nothing else.
Gave(ms) ==
    /\ ms \subseteq MasterSet(clu, parent)
    /\ slots' = [p \in Pods |-> slots[p] \/ p \in ms] /\ clu' = clu /\ parent' = parent

\* What the slots steps do to the Redis nodes.
LEMMA SlotsAimed ==
    ASSUME BaseInv, Aimed(s, clu, parent), Rebalance \/ Reshard \/ SlotsGiven \/ NoStrategy
    PROVE  UNCHANGED redisVars \/ \E ms : Gave(ms)
<1>1. CASE SlotsGiven \/ NoStrategy
      BY <1>1 DEF SlotsGiven, NoStrategy
<1>2. ASSUME NEW ms, ms \subseteq MasterSet(clu, parent), GiveSlots(ms)
      PROVE  \E x : Gave(x)
  <2>1. Gave(ms)
        BY <1>2, Zenon DEF GiveSlots, Gave
  <2> QED
        BY <2>1, Zenon
<1>3. CASE Rebalance
  <2>1. Masters(s.exist) \subseteq MasterSet(clu, parent)
        BY DEF Masters, Cluster, MasterSet
  <2>2. UNCHANGED redisVars \/ GiveSlots(Masters(s.exist))
        BY <1>3, Zenon DEF Rebalance
  <2> QED
        BY <1>2, <2>1, <2>2
<1>4. CASE Reshard
  <2>1. /\ s.pc = "slots" /\ s.todoM # <<>> /\ s.job # "repairCreate"
        /\ s.rc.strategy.type = "AssignReceive"
        BY <1>4 DEF Reshard
  <2>2. s.todoM \in Seq(Pods) /\ 1 \in 1..Len(s.todoM) /\ Head(s.todoM) = s.todoM[1]
    <3>1. s.todoM \in Seq(Pods)
          BY BaseTypes
    <3> QED
          BY <2>1, <3>1
  <2>3. {Head(s.todoM)} \subseteq MasterSet(clu, parent)
        BY <2>1, <2>2 DEF Aimed
  <2>4. UNCHANGED redisVars \/ GiveSlots({Head(s.todoM)})
        BY <1>4, Zenon DEF Reshard
  <2> QED
        BY <1>2, <2>3, <2>4
<1> QED
      BY <1>1, <1>3, <1>4

\* From the additions to the slots, the masters that are to be given some are
\* masters: those that the plan chose, or those that redis-trib info lists.
LEMMA SlotsStayAimed ==
    ASSUME BaseInv, Aimed(s, clu, parent), GivesSlots
    PROVE  Aimed(s', clu, parent)
<1> DEFINE M == MasterSet(clu, parent)
<1>1. TypeOK /\ s.todoM \in Seq(Pods)
      BY BaseTypes DEF BaseInv
<1>2. ASSUME s' = Idle \/ Fail \/ s' = AfterSlots PROVE Aimed(s', clu, parent)
  <2>1. s'.pc \in {"idle", "fail", "verify", "finish"}
        BY <1>1, <1>2, SyncFields, IdleFields DEF Fail, AfterSlots
  <2> QED
        BY <2>1 DEF Aimed
<1>3. CASE Rebalance \/ SlotsGiven \/ NoStrategy
      BY <1>2, <1>3, Zenon DEF Rebalance, SlotsGiven, NoStrategy
<1>4. CASE SlavesAdded
  <2>1. s.pc = "addSlaves"
        BY <1>4 DEF SlavesAdded
  <2>2. CASE s.job = "upgrade"
    <3>1. s' = [s EXCEPT !.pc = "slots", !.todoM = s.masters]
          BY <1>4, <2>2 DEF SlavesAdded
    <3>2. s'.pc = "slots" /\ s'.todoM = s.masters
          BY <1>1, <3>1, SyncFields
    <3> QED
          BY <2>1, <2>2, <3>2 DEF Aimed
  <2>3. CASE s.job = "create" \/ s.job = "repairCreate"
    <3>1. /\ s'.pc = (IF s.job = "create" THEN "verify" ELSE "slots")
          /\ s'.job = s.job
          BY <1>1, <1>4, <2>3, SyncFields DEF SlavesAdded
    <3> QED
          BY <2>3, <3>1 DEF Aimed
  <2>4. CASE s.job \notin {"create", "upgrade", "repairCreate"}
    <3>1. /\ s'.pc = (IF s.rc.strategy.type = "AssignReceive" THEN "info" ELSE "slots")
          /\ s'.rc = s.rc
          BY <1>1, <1>4, <2>4, SyncFields DEF SlavesAdded
    <3> QED
          BY <3>1 DEF Aimed
  <2> QED
        BY <2>2, <2>3, <2>4
<1>5. CASE TribInfo
  <2> DEFINE W == WithoutSlots(s.exist)
  <2>1. \/ s' = AfterSlots \/ Fail
        \/ \E order \in [1..Cardinality(W) -> W] : s' = [s EXCEPT !.pc = "slotNodes", !.todoM = order]
        BY <1>5, Zenon DEF TribInfo
  <2>2. W \subseteq M /\ Cardinality(W) \in Nat
    <3>1. W \subseteq M /\ M \subseteq Pods
          BY DEF WithoutSlots, Masters, Cluster, MasterSet
    <3>2. IsFiniteSet(M)
          BY BaseTypes
    <3> QED
          BY <3>1, <3>2, FS_Subset, FS_CardinalityType
  <2>3. ASSUME NEW order \in [1..Cardinality(W) -> W],
               s' = [s EXCEPT !.pc = "slotNodes", !.todoM = order]
        PROVE  Aimed(s', clu, parent)
    <3>1. s'.pc = "slotNodes" /\ s'.todoM = order
          BY <1>1, <2>3, SyncFields
    <3> HIDE DEF W
    <3>2. Len(order) = Cardinality(W) /\ \A i \in 1..Len(order) : order[i] \in M
          BY <2>2
    <3> QED
          BY <3>1, <3>2 DEF Aimed
  <2> QED
        BY <1>2, <2>1, <2>3
<1>6. CASE NodesBeforeSlots
  <2>1. s.pc = "slotNodes" /\ (Fail \/ s' = [s EXCEPT !.pc = "slots"])
        BY <1>6 DEF NodesBeforeSlots
  <2>2. CASE s' = [s EXCEPT !.pc = "slots"]
    <3>1. s'.pc = "slots" /\ s'.job = s.job /\ s'.rc = s.rc /\ s'.todoM = s.todoM
          BY <1>1, <2>2, SyncFields
    <3> QED
          BY <2>1, <3>1 DEF Aimed
  <2> QED
        BY <1>2, <2>1, <2>2
<1>7. CASE Reshard
  <2>1. /\ s.pc = "slots" /\ s.todoM # <<>> /\ s.job # "repairCreate"
        /\ s.rc.strategy.type = "AssignReceive"
        /\ Fail \/ s' = Idle \/ s' = [s EXCEPT !.todoM = Tail(@)]
        BY <1>7, Zenon DEF Reshard
  <2>2. CASE s' = [s EXCEPT !.todoM = Tail(@)]
    <3>1. s'.pc = s.pc /\ s'.todoM = Tail(s.todoM)
          BY <1>1, <2>2, SyncFields
    <3>2. \A i \in 1..Len(s.todoM) : s.todoM[i] \in M
          BY <2>1 DEF Aimed
    <3> HIDE DEF M
    <3>3. \A i \in 1..Len(Tail(s.todoM)) : Tail(s.todoM)[i] \in M
          BY <1>1, <2>1, <3>2
    <3> QED
          BY <2>1, <3>1, <3>3 DEF Aimed, M
  <2> QED
        BY <1>2, <2>1, <2>2
<1> QED
      BY <1>3, <1>4, <1>5, <1>6, <1>7 DEF GivesSlots

\* What a step of a sync does to the Redis nodes and the size of the StatefulSet.
LEMMA NodesStep ==
    ASSUME BaseInv, BaseInv', Aimed(s, clu, parent), SyncStep
    PROVE  \/ UNCHANGED redisVars /\ sts.spec <= sts'.spec
           \/ /\ sts' = sts
              /\ \/ Founded /\ slots' = [p \in Pods |-> slots[p] \/ p \in Founders]
                 \/ slots' = slots /\ \E p, m : Grew(p, m)
                 \/ \E ms : Gave(ms)
<1>1. sts.spec <= sts'.spec
      BY SpecGrows DEF BaseInv
<1>2. CASE s.pc \notin {"trib", "addMasters", "addSlaves", "slots"}
      BY <1>1, <1>2, StepAt
<1>3. CASE s.pc = "trib"
  <2> DEFINE N == ToSet(assignMasterSlaveIP(s.eps, NodeOf).masters)
  <2>1. CreateCluster /\ sts' = sts
        BY <1>3, StepAt
  <2>2. \/ UNCHANGED redisVars
        \/ /\ \A p \in N : clu[p] = 0
           /\ clu' = [p \in Pods |-> IF p \in N THEN NewCluster ELSE clu[p]]
           /\ slots' = [p \in Pods |-> slots[p] \/ p \in N]
           /\ UNCHANGED parent
        BY <2>1, Zenon DEF CreateCluster, TribAccepts
  <2>3. N = Founders
        BY Zenon DEF Founders
  <2> HIDE DEF N
  <2>4. CASE /\ \A p \in N : clu[p] = 0
             /\ clu' = [p \in Pods |-> IF p \in N THEN NewCluster ELSE clu[p]]
             /\ slots' = [p \in Pods |-> slots[p] \/ p \in N]
             /\ UNCHANGED parent
    <3>1. Founded
          BY <1>3, <2>4, Zenon DEF Founded, N
    <3> QED
          BY <2>1, <2>3, <2>4, <3>1, Zenon
  <2> QED
        BY <1>1, <2>2, <2>4
<1>4. CASE s.pc \in {"addMasters", "addSlaves"}
  <2>1. sts' = sts /\ (AddMaster \/ NodesAfterMasters \/ AddSlave \/ SlavesAdded)
        BY <1>4, StepAt
  <2>2. slots' = slots
        BY <2>1, Zenon DEF AddMaster, NodesAfterMasters, AddSlave, SlavesAdded, Join, redisVars
  <2>3. (clu' = clu /\ parent' = parent) \/ \E p, m : Grew(p, m)
        BY <1>4, RedisStep DEF Founded
  <2> QED
        BY <1>1, <2>1, <2>2, <2>3 DEF redisVars
<1>5. CASE s.pc = "slots"
      BY <1>1, <1>5, StepAt, SlotsAimed
<1> QED
      BY <1>2, <1>3, <1>4, <1>5

LEMMA MastersRemain ==
    ASSUME MembersRemain
    PROVE  MasterSet(clu, parent) \subseteq MasterSet(clu', parent')
BY DEF MembersRemain, MasterSet

\* The masters a plan chose are masters when all of them are added, and stay so.
LEMMA AimedStep ==
    ASSUME Alike = {}, BaseInv, Balanced(s, clu, parent, sts.spec), Aimed(s, clu, parent), [Next]_vars
    PROVE  Aimed(s', clu', parent')
<1>1. /\ TypeOK /\ MasterSet(clu, parent) \subseteq MasterSet(clu', parent')
      BY AllMembersRemain, MastersRemain DEF BaseInv
<1>2. ASSUME s'.pc \notin {"addSlaves", "slotNodes", "slots"} PROVE Aimed(s', clu', parent')
      BY <1>2 DEF Aimed
<1>3. ASSUME Aimed(s', clu, parent) PROVE Aimed(s', clu', parent')
      BY <1>1, <1>3 DEF Aimed
<1>4. CASE Other
  <2>1. StartSync \/ s' = Idle \/ SameSync(s')
        BY <1>1, <1>4, OtherStep
  <2>2. CASE StartSync \/ s' = Idle
    <3>1. s'.pc \notin {"addSlaves", "slotNodes", "slots"}
          BY <1>1, <2>2, BeginType, IdleFields
    <3> QED
          BY <1>2, <3>1
  <2>3. CASE SameSync(s')
    <3>1. Aimed(s', clu, parent)
          BY <2>3 DEF SameSync, Aimed
    <3> QED
          BY <1>3, <3>1
  <2> QED
        BY <2>1, <2>2, <2>3
<1>5. CASE SyncStep
  <2>1. CASE s' = Idle \/ s' = Hung \/ Fails
    <3>1. s'.pc \in {"idle", "hung", "fail"}
          BY <1>1, <2>1, SyncFields, IdleFields DEF Hung, Fails, Fail
    <3> QED
          BY <1>2, <3>1
  <2>2. CASE Onward(s') /\ s.pc = "createNodes"
    <3>1. s'.job = "create"
      <4>1. Belongs(s.pc, s.job)
            BY <1>1 DEF TypeOK, SyncType
      <4> QED
            BY <2>2, <4>1 DEF Onward, Belongs
    <3> QED
          BY <2>2, <3>1 DEF Aimed, Onward, Follows, SlotsFollow
  <2>3. CASE Onward(s') /\ s.pc = "addMasters" /\ s'.pc = "addSlaves"
    <3>1. AddMaster \/ NodesAfterMasters
          BY <1>5, <2>3, StepAt
    <3>2. ~AddMaster
      <4>1. SUFFICES ASSUME AddMaster PROVE FALSE
            OBVIOUS
      <4>2. Fail \/ s' = [s EXCEPT !.todoM = Tail(@)]
            BY <4>1, Zenon DEF AddMaster
      <4> QED
            BY <1>1, <2>3, <4>2, SyncFields DEF Fail
    <3>3. /\ s.todoM = <<>>
          /\ \/ Fail \/ s' = [s EXCEPT !.pc = "addSlaves"]
             \/ \E ids \in NewMasterNodes :
                   s' = [s EXCEPT !.pc = "addSlaves", !.masters = ids,
                                  !.todoS = [i \in DOMAIN @ |-> <<@[i][1], ids[i]>>]]
          BY <3>1, <3>2, Zenon DEF NodesAfterMasters
    <3>4. \A i \in 1..Len(s.masters) : s.masters[i] \in MasterSet(clu, parent)
      <4>1. \A m : ~Awaited(m, s)
        <5>1. s.todoM = <<>>
              BY <3>3, Zenon
        <5>2. Len(s.todoM) = 0 /\ \A i : i \notin 1..0
              BY <5>1
        <5> QED
              BY <5>2 DEF Awaited
      <4> QED
            BY <2>3, <4>1 DEF Balanced, Chosen, Serves
    <3>5. \A i \in 1..Len(s'.masters) : s'.masters[i] \in MasterSet(clu, parent)
      <4>1. CASE Fail \/ s' = [s EXCEPT !.pc = "addSlaves"]
        <5>1. s'.masters = s.masters
              BY <1>1, <2>3, <4>1, SyncFields DEF Fail
        <5> QED
              BY <3>4, <5>1
      <4>2. ASSUME NEW ids \in NewMasterNodes,
                   s' = [s EXCEPT !.pc = "addSlaves", !.masters = ids,
                                  !.todoS = [i \in DOMAIN @ |-> <<@[i][1], ids[i]>>]]
            PROVE  \A i \in 1..Len(s'.masters) : s'.masters[i] \in MasterSet(clu, parent)
        <5>1. s'.masters = ids
              BY <1>1, <4>2, SyncFields
        <5>2. s.masters \in Seq(Pods) /\ DOMAIN s.masters = 1..Len(s.masters) /\ Len(s.masters) \in Nat
              BY BaseTypes
        <5>3. DOMAIN ids = 1..Len(s.masters) /\ \A i \in 1..Len(s.masters) : ids[i] = s.masters[i]
              BY <5>2 DEF NewMasterNodes, NodesWithIP
        <5>4. ids = s.masters
              BY <5>2, <5>3 DEF NewMasterNodes
        <5> QED
              BY <3>4, <5>1, <5>4
      <4> QED
            BY <3>3, <4>1, <4>2
    <3> QED
          BY <1>1, <2>3, <3>5 DEF Aimed
  <2>4. CASE Onward(s') /\ AddSlave
    <3>1. s.pc = "addSlaves" /\ (Fail \/ s' = [s EXCEPT !.todoS = Tail(@)])
          BY <2>4, Zenon DEF AddSlave
    <3>2. s'.pc \in {"fail", "addSlaves"} /\ s'.masters = s.masters /\ s'.job = s.job
          BY <1>1, <3>1, SyncFields DEF Fail
    <3>3. Aimed(s', clu, parent)
          BY <3>1, <3>2 DEF Aimed
    <3> QED
          BY <1>3, <3>3
  <2>5. CASE GivesSlots
        BY <1>3, <2>5, SlotsStayAimed
  <2>6. CASE Onward(s') /\ s'.pc \in {"addSlaves", "slotNodes", "slots"} /\ ~AddSlave /\ ~GivesSlots
    <3>1. s.pc \notin {"addSlaves", "info", "slotNodes", "slots"}
          BY <1>5, <2>6, StepAt DEF GivesSlots
    <3>2. s.pc \in {"createNodes", "addMasters"} /\ s'.pc = "addSlaves"
          BY <2>6, <3>1 DEF Onward, Follows, SlotsFollow
    <3> QED
          BY <2>2, <2>3, <2>6, <3>2
  <2> QED
        BY <1>1, <1>2, <1>5, <2>1, <2>4, <2>5, <2>6, SyncCourse
<1> QED
      BY <1>4, <1>5 DEF Next, Other

\* What a step makes of the pods with slots.
LEMMA ServingStep ==
    /\ slots' = slots => Serving' = Serving
    /\ \A ms \in SUBSET Pods :
          slots' = [p \in Pods |-> slots[p] \/ p \in ms] => Serving' = Serving \cup ms
<1>1. ASSUME slots' = slots PROVE Serving' = Serving
      BY <1>1 DEF Serving
<1>2. ASSUME NEW ms \in SUBSET Pods, slots' = [p \in Pods |-> slots[p] \/ p \in ms]
      PROVE  Serving' = Serving \cup ms
  <2>1. \A p \in Pods : slots'[p] <=> slots[p] \/ p \in ms
        BY <1>2, Zenon
  <2>2. Serving' = {p \in Pods : slots[p] \/ p \in ms}
        BY <2>1, Zenon DEF Serving
  <2>3. {p \in Pods : slots[p] \/ p \in ms} = {p \in Pods : slots[p]} \cup ms
        BY <1>2, Zenon
  <2> QED
        BY <2>2, <2>3, Zenon DEF Serving
<1> QED
      BY <1>1, <1>2

LEMMA SlotsInvStep ==
    ASSUME SlowGrowth, Alike = {}, BaseInv, BaseInv', Balanced(s, clu, parent, sts.spec),
           SlotsInv, [Next]_vars
    PROVE  SlotsInv'
<1>1. /\ Aimed(s, clu, parent) /\ Serving \subseteq MasterSet(clu, parent)
      /\ MasterSet(clu, parent) \subseteq MasterSet(clu', parent')
      BY AllMembersRemain, MastersRemain DEF BaseInv, SlotsInv
<1>2. Aimed(s, clu, parent)'
  <2>1. Aimed(s', clu', parent')
        BY <1>1, AimedStep
  <2> QED
        BY <2>1, Zenon DEF Aimed, MasterSet
<1>3. CASE slots' = slots
  <2>1. Serving' \subseteq MasterSet(clu', parent')
        BY <1>1, <1>3, ServingStep
  <2> QED
        BY <1>2, <2>1 DEF SlotsInv, MasterSet
<1>4. CASE Other
      BY <1>3, <1>4, OtherStep DEF BaseInv
<1>5. CASE SyncStep /\ slots' # slots
  <2>1. ASSUME NEW ms, ms \subseteq MasterSet(clu', parent'),
               slots' = [p \in Pods |-> slots[p] \/ p \in ms]
        PROVE  SlotsInv'
    <3>1. Serving' = Serving \cup ms
          BY <2>1, ServingStep DEF MasterSet
    <3> QED
          BY <1>1, <1>2, <2>1, <3>1 DEF SlotsInv, MasterSet
  <2>2. CASE Founded /\ slots' = [p \in Pods |-> slots[p] \/ p \in Founders]
        BY <2>1, <2>2, FoundedMasters
  <2>3. ASSUME NEW ms, Gave(ms) PROVE SlotsInv'
        BY <1>1, <2>1, <2>3 DEF Gave
  <2> QED
        BY <1>1, <1>5, <2>2, <2>3, NodesStep DEF redisVars
<1> QED
      BY <1>3, <1>4, <1>5 DEF Next, Other

LEMMA InitSlots ==
    ASSUME Init
    PROVE  SlotsInv
<1>1. s = Idle /\ \A p \in Pods : ~slots[p]
      BY DEF Init
<1> QED
      BY <1>1, IdleFields DEF SlotsInv, Aimed, Serving

\* Topology's view of the Redis nodes.
LEMMA MastersSeen ==
    ASSUME BaseInv
    PROVE  /\ Contract!masters = MasterSet(clu, parent)
           /\ Joined \subseteq 1..sts.spec
<1>1. Contract!masters = MasterSet(clu, parent)
      BY DEF Contract!masters, Joined, MasterSet
<1> QED
      BY <1>1 DEF BaseInv, SizeInv, ClusterKeepsItsPods, Joined

\* The room that is left after a step was there before it.
LEMMA RoomFor ==
    ASSUME BaseInv', Balanced(s', clu', parent', sts'.spec)
    PROVE  Cardinality(MasterSet(clu', parent')) <= sts'.spec \div 2
<1>1. /\ Cardinality(MasterSet(clu', parent')) \in Nat /\ sts'.spec \in Nat
      /\ s'.todoM \in Seq(Pods)
  <2>1. TypeOK' /\ WorkIn(s', Pods)
        BY DEF BaseInv, TopoInv, WorkIn
  <2>2. sts'.spec \in {0} \cup Sizes
        BY <2>1, StatefulSetParts DEF TypeOK
  <2>3. MasterSet(clu', parent') \subseteq Pods
        BY DEF MasterSet
  <2>4. Cardinality(MasterSet(clu', parent')) \in Nat
        BY <2>3, PodsBySize, FS_Subset, FS_CardinalityType
  <2> QED
        BY <2>1, <2>2, <2>4, PodsBySize DEF WorkIn
<1>2. Wanted(s') \in Nat
      BY <1>1 DEF Wanted
<1>3. Cardinality(MasterSet(clu', parent')) + Wanted(s') <= sts'.spec \div 2
      BY DEF Balanced, Room
<1> QED
      BY <1>1, <1>2, <1>3

\* The steps of the Redis nodes, as Topology sees them.
View == <<sts.spec, Joined, parent, Serving>>

\* Topology counts as this module does.
LEMMA SameCount == \A X : Contract!HasRoom(X) <=> Cardinality(X) <= sts.spec \div 2
<1>1. \A X : Contract!Cardinality(X) = Cardinality(X)
      BY Zenon DEF Contract!Cardinality, Cardinality
<1> QED
      BY <1>1, Zenon DEF Contract!HasRoom

LEMMA FoundSeen ==
    ASSUME SlowGrowth, BaseInv, BaseInv', Balanced(s', clu', parent', sts'.spec), SlotsInv,
           Founded, sts' = sts, slots' = [p \in Pods |-> slots[p] \/ p \in Founders]
    PROVE  Contract!Found
<1>1. /\ MasterSet(clu', parent') = Founders /\ Founders \subseteq Pods /\ Joined' = Founders
      /\ \A p \in Pods : clu[p] = 0
  <2>1. TypeOK /\ Rooted /\ Handles(s, sts.spec)
        BY BaseTypes DEF BaseInv, ClusterInv
  <2> QED
        BY <2>1, FoundedMasters, FoundedOnce DEF Joined
<1>2. Joined = {} /\ Serving = {}
      BY <1>1 DEF Joined, SlotsInv, MasterSet
<1>3. Serving' = Joined'
      BY <1>1, <1>2, ServingStep
<1>4. Joined' \subseteq 1..sts.spec
      BY DEF BaseInv, SizeInv, Joined
<1>5. Contract!HasRoom(Joined')
      BY <1>1, RoomFor, SameCount
<1>6. parent' = parent
      BY DEF Founded
<1> QED
      BY <1>2, <1>3, <1>4, <1>5, <1>6 DEF Contract!Found

LEMMA JoinSeen ==
    ASSUME BaseInv, BaseInv', Balanced(s', clu', parent', sts'.spec), SlotsInv,
           NEW p, NEW m, Grew(p, m), sts' = sts, slots' = slots
    PROVE  /\ p \in (1..sts.spec) \ Joined
           /\ \/ Contract!JoinAsMaster(p)
              \/ m \in Contract!masters /\ Contract!JoinAsSlave(p, m)
<1>1. p \in Pods
      BY BaseTypes DEF Grew
<1>2. clu[p] = 0 /\ clu'[p] # 0 /\ \A q \in Pods : q # p => clu'[q] = clu[q]
      BY <1>1, GrewMasters DEF Grew
<1>3. p \in 1..sts.spec
      BY <1>1, <1>2 DEF BaseInv, SizeInv
<1>4. Joined' = Joined \cup {p} /\ p \notin Joined
      BY <1>1, <1>2 DEF Joined
<1>5. Serving' = Serving
      BY ServingStep
<1>6. clu[s.exist] # 0 /\ parent' = [parent EXCEPT ![p] = m] /\ (m = 0 \/ m \in Masters(s.exist))
      BY DEF Grew
<1>7. Contract!masters = MasterSet(clu, parent)
      BY MastersSeen
<1>8. CASE m = 0
  <2>1. MasterSet(clu', parent') = MasterSet(clu, parent) \cup {p}
        BY <1>1, <1>8, GrewMasters
  <2>2. Contract!HasRoom(Contract!masters \cup {p})
        BY <1>7, <2>1, RoomFor, SameCount
  <2>3. parent' = parent
        BY <1>1, <1>2, <1>6, <1>8, BaseTypes DEF Structure
  <2>4. Joined # {}
        BY <1>6, BaseTypes DEF Grew, Handles, Through, Joined
  <2> QED
        BY <1>3, <1>4, <1>5, <2>2, <2>3, <2>4 DEF Contract!JoinAsMaster
<1>9. CASE m # 0
  <2>1. m \in MasterSet(clu, parent)
        BY <1>6, <1>9 DEF Masters, Cluster, MasterSet
  <2>2. \A q \in Pods : parent'[q] = m => q = p
        BY <1>1, <1>9, GrewMasters DEF BaseInv, TopoInv, Structure
  <2>3. \A q \in Joined : parent[q] # m
        BY <1>1, <1>4, <2>2, GrewMasters DEF Joined
  <2> QED
        BY <1>3, <1>4, <1>5, <1>6, <1>7, <2>1, <2>3 DEF Contract!JoinAsSlave
<1> QED
      BY <1>8, <1>9

LEMMA ResizeSeen ==
    ASSUME BaseInv', UNCHANGED redisVars, sts.spec \in Nat, sts.spec <= sts'.spec
    PROVE  [Contract!Next]_View
<1>1. Joined' = Joined /\ Serving' = Serving /\ parent' = parent
      BY ServingStep DEF redisVars, Joined
<1>2. CASE sts'.spec = sts.spec
      BY <1>1, <1>2 DEF View
<1>3. CASE sts'.spec # sts.spec
  <2>1. sts'.spec \in Nat
        BY PodsBySize, StatefulSetParts DEF BaseInv, TypeOK
  <2>2. Contract!Grow
        BY <1>1, <1>3, <2>1 DEF Contract!Grow
  <2> QED
        BY <2>2 DEF Contract!Next
<1> QED
      BY <1>2, <1>3

LEMMA GaveSeen ==
    ASSUME BaseInv, NEW ms, Gave(ms), sts' = sts
    PROVE  Contract!GiveSlots
<1>1. ms \subseteq MasterSet(clu, parent) /\ ms \in SUBSET Pods
      BY DEF Gave, MasterSet
<1>2. Serving' = Serving \cup ms
      BY <1>1, ServingStep DEF Gave
<1>3. Joined' = Joined /\ parent' = parent
      BY DEF Gave, Joined
<1> QED
      BY <1>1, <1>2, <1>3, MastersSeen DEF Contract!GiveSlots

LEMMA TopologyStep ==
    ASSUME SlowGrowth, BaseInv, BaseInv', Balanced(s', clu', parent', sts'.spec), SlotsInv,
           [Next]_vars
    PROVE  [Contract!Next]_View
<1>1. TypeOK /\ Aimed(s, clu, parent) /\ sts.spec \in Nat
      BY BaseTypes DEF BaseInv, SlotsInv
<1>2. CASE Other
  <2>1. UNCHANGED redisVars /\ sts'.spec = sts.spec
        BY <1>1, <1>2, OtherStep DEF redisVars
  <2> QED
        BY <1>1, <2>1, ResizeSeen
<1>3. CASE SyncStep
  <2>1. CASE UNCHANGED redisVars /\ sts.spec <= sts'.spec
        BY <1>1, <2>1, ResizeSeen
  <2>2. CASE /\ sts' = sts /\ Founded
             /\ slots' = [p \in Pods |-> slots[p] \/ p \in Founders]
        BY <2>2, FoundSeen DEF Contract!Next
  <2>3. ASSUME NEW p, NEW m, Grew(p, m), sts' = sts, slots' = slots
        PROVE  Contract!Next
        BY <2>3, JoinSeen DEF Contract!Next
  <2>4. ASSUME NEW ms, Gave(ms), sts' = sts
        PROVE  Contract!Next
        BY <2>4, GaveSeen DEF Contract!Next
  <2> QED
        BY <1>1, <1>3, <2>1, <2>2, <2>3, <2>4, NodesStep
<1> QED
      BY <1>2, <1>3 DEF Next, Other

\* As long as the RedisCluster grows to less than twice its size, no IP is part of
\* another and no add-node --slave stops between its two commands, the syncs, with
\* their crashes, retries and stale plans, implement Topology: the cluster is
\* founded once, on empty instances, the other instances join it one by one while
\* there is room for their slaves or as the only slave of a master, and only masters
\* ever get slots (ImplementsTopology).
THEOREM TopologyIsImplemented ==
    ASSUME ScaleIn = FALSE, SlowGrowth, Alike = {}, "replicate" \notin FaultSteps
    PROVE  Spec => ImplementsTopology
<1> DEFINE Inv == BaseInv /\ BalanceInv /\ SlotsInv
<1>1. Init => Inv
      BY InitBase, InitBalance, InitSlots
<1>2. BalanceInv => Balanced(s, clu, parent, sts.spec)
      BY DEF BalanceInv, Whole
<1>3. BalanceInv' => Balanced(s', clu', parent', sts'.spec)
  <2>1. BalanceInv' => Balanced(s, clu, parent, sts.spec)'
        BY DEF BalanceInv, Whole
  <2> QED
        BY <2>1, Zenon DEF Balanced, Chosen, Room, Serves, Awaited, MasterSet, Wanted, Adding
<1>4. Inv /\ [Next]_vars => Inv' /\ [Contract!Next]_View
      BY <1>2, <1>3, BaseInvStep, BalanceInvStep, SlotsInvStep, TopologyStep
<1>5. Init => Contract!Init
  <2> SUFFICES ASSUME Init PROVE Contract!Init
      OBVIOUS
  <2>1. sts.spec = 0 /\ parent = [p \in Pods |-> 0] /\ \A p \in Pods : clu[p] = 0
        BY DEF Init, NoSts
  <2>2. \A p \in Pods : ~slots[p]
        BY DEF Init
  <2>3. Joined = {} /\ Serving = {}
        BY <2>1, <2>2 DEF Joined, Serving
  <2> QED
        BY <2>1, <2>3 DEF Contract!Init
<1> QED
      BY <1>1, <1>4, <1>5, PTL DEF Spec, ImplementsTopology, Contract!Spec, Contract!vars, View
=============================================================================
