# Verification of the Redis operator of middleware-operator-manager

The repository is a Kubernetes operator: it watches `RedisCluster` objects,
creates a StatefulSet for each, forms a Redis cluster out of the pods with
`redis-trib.rb`, extends it when `spec.replicas` grows, repairs it after failures
and reports its state in `status`. This directory holds TLA+ modules of its core,
the TLC runs that check them on small instances and proofs checked by TLAPS.

Source files are abbreviated: **O** `pkg/operator/redis/redis_operator.go`, **S**
`pkg/operator/redis/sync_rediscluster.go`, **K**
`pkg/operator/redis/check_rediscluster.go`, **M**
`cmd/operator-manager/app/operatormanager.go`, **L** client-go's
`tools/leaderelection/leaderelection.go`.

## Inventory

| Component | State | Operations | Interacts through |
|---|---|---|---|
| Sync loop (O) and client-go's work queue | queue, dirty, processing; delayed entries; failure counters; informer stores | event handlers, `worker`, `processNextWorkItem`, `syncRedisCluster`, `handleErr`, `Run` | informer callbacks in, `go syncHandler(key)` out |
| Reconciliation of one RedisCluster (O `sync`, S, K) | the RedisCluster and its status, the StatefulSet, the Endpoints, the Redis nodes | `createAndInitRedisCluster`, `upgradeRedisCluster`, `checkAndUpdateRedisClusterStatus`, `updateRedisClusterStatus` | API server, commands run in a pod |
| Placement (S `assignMasterSlaveIP`, K `composeMasterSlaveIP`) | none | choose masters, slaves and the master of each slave | called by the reconciliation |
| Command channel (`exec_redis_trib.go`) | none | one remote command | may fail with or without effect |
| Operator manager (M) and client-go's leader election (L) | the lock and its lease; stage of each process | create the CRD, `tryAcquireOrRenew`, start operator, informers and workers; exit when the lease is lost | the Endpoints lock; process start and end |
| Client builder, API types, generated clients, configz, slice helpers | little or none | | |

What is hard here:

* **Concurrency.** A worker does not wait for the sync it starts, so that one sync
  per key at a time depends only on the queue's bookkeeping (O:388, O:414).
* **Two caches.** A sync decides from two informer caches, each possibly behind
  the API server and behind the other, and writes its status through the copy it
  read at the start.
* **Long multi-step commands.** Creation and growth are a dozen remote commands
  with a status update between some of them. Any may fail, time out after
  `ClusterTimeOut`, or be cut off by a crash; the next sync has only the status,
  the StatefulSet and what the Redis nodes say.
* **A lease that rests on time.** Two replicas run; what keeps the second one from
  starting the operator is that the first one stops within its lease, although its
  requests may be slow, lost or late (M:142, L:221, L:257).
* **Index arithmetic on lists that shrink**, in the placement (K:490-525) and when
  the old addresses are recomputed (K:199, K:223).

What makes each part correct: the sync loop never loses an event and never runs
two syncs of one key; the placement yields a complete plan from every partly
executed one; the reconciliation keeps the topology sound (one cluster, one slave
per master), never reports what is not so, never removes pods of a cluster, and
converges; the operator manager starts the operator in one process at a time, and
in one for good in the end. The list of hazards with their lines is in `PROJECT.json`.

## Modules

| Module | Models |
|---|---|
| `KeyedSync` | the contract of the sync loop: mark, start, finish |
| `SyncLoop` | informers, handlers, work queue, workers, sync goroutines |
| `SyncLoopProofs` | theorems about `SyncLoop`: the queue, one sync per key, the contract |
| `SyncLoopEventProofs` | theorems about `SyncLoop`: events and retries |
| `MCSyncLoop` | symmetry for the runs |
| `Placement` | the two placement algorithms, as operators |
| `PlacementProofs` | lemmas: what the operators of `Placement` return |
| `Growth` | a cluster shaped by `Placement` on every assignment of pods to nodes |
| `GrowthProofs` | theorems about `Growth` |
| `Topology` | the contract of the Redis nodes: found, join as master, join as slave, give slots |
| `Reconcile` | one sync, step by step, with Kubernetes, Redis and crashes |
| `ReconcileProofs` | theorems about `Reconcile`: types, status, sizes, masters of slaves |
| `ReconcileClusterProofs` | theorem about `Reconcile`: one cluster |
| `ReconcileRunningProofs` | theorems about `Reconcile`: masters, plans, Running after crashes, the contract |
| `OperatorManager` | replicas of the process: startup, leader election, start of the operator |
| `OperatorManagerProofs` | theorems about `OperatorManager` |
| `MCOperatorManager` | the operator lists of the run |
| `MCReconcile` | strategies, node assignments and sets of failing calls; the plan of the repository's `TestComposeMasterSlaveIP1`, which `Placement` reproduces |

### SyncLoop

`queue`, `dirty`, `processing` and `shuttingDown` are the fields of
`workqueue.Type`; `waitingForAddCh` and `waitingForQueue` those of the delaying
queue (delays are left out: an entry is due at any time); `failures` those of the
exponential limiter. `rcVersion` and `stsVersion` count the changes of the
informers' stores, `rcNotes` and `stsNotes` are the notifications the listeners
have not delivered. A goroutine goes through `gpc`: `start` (before the
RedisCluster is read), `got`, `sync`, `returned` (before `handleErr`), `handled`
(before `Done`), or stays `hung`: a sync need not return (`SyncHangs`), since
`composeMasterSlaveIP` can spin for ever (K:566) and the stream of a remote command
has no time limit (`exec_redis_trib.go:58`). `rcSeen` and `stsSeen` remember what the last sync read. A panic
is an outcome of `SyncReturns` without an error, because `recover` runs before
`err` is assigned. `Restart` loses all but the stores and announces every object
as added.

Goroutine identities are reused. With one for each key a worker never lacks one,
which follows from `OneSyncPerKey`.

### Placement and Growth

Addresses are pod numbers (the code sorts them by pod name) and nodes are numbers
(their names are sorted). A loop over a list is `Iterate`, a fold written as a
recursive function, whose step is a function too (`Keep`, `TakeSlave`,
`TakeFreeNode`), because that is a form the proofs can speak about. `Interleaved`
is the round-robin over the nodes, by the rank of the `Turn` in which the loop
comes to each address; `PickSlaves` is the choice of the first address on another
node, `OnFreeNodes` the first pass of `composeMasterSlaveIP` and `EveryOther` the
second pass of `composeMasterSlaveIP`, in which the index advances while the list
shrinks. The results "panic" and "hang" of `composeMasterSlaveIP` are an index
past the end and the loop that has no exit. In `Growth` any part of a plan may be
carried out before the next plan is computed from what `cluster nodes` shows.

### Reconcile

The variable `s` is the running sync: `pc` its next step, `job` the procedure it
is in, `rc` its copy of the RedisCluster. One action is one call to the API server
or one command in a pod with the decisions that follow it. The correspondence:

| Code | Actions |
|---|---|
| `sync`, O:443-500 | `StartSync` |
| creation, O:502-535 | `UpdateCreating`, `ApplyStatefulSet` |
| upgrade, O:537-580 | `RefuseUpgrade`, `UpdateScaling` (with the read of the Endpoints), `ScaleStatefulSet` |
| health probe, K:33-72 | `ProbeCluster` |
| `checkPodInstanceIsReadyByEndpoint` | `WaitPodsReady` |
| repair, K:76-231 | `RepairPhase`, `Classify` |
| `createAndInitRedisCluster` | `CreateCluster`, `CreateNodes`, `AddSlave`, `VerifyNodes` |
| `scaleRedisCluster`, repair branches | `PlanAdditions`, `AddMaster`, `NodesAfterMasters`, `AddSlave` |
| slots of a creation's repair, and with `AutoReceive` | `Rebalance` |
| slots with `AssignReceive` | `TribInfo`, `NodesBeforeSlots` (repair only), `Reshard` for each master, `SlotsGiven` |
| slots with another strategy | `NoStrategy` |
| status at the end | `UpdateRunning`, `ReportFailure` |

`updateRedisClusterStatus` is an operator used by these actions: nothing is
written when the status equals the copy's, and a write is a conflict unless the
copy is the stored object (`s.fresh`). Of a reason only whether there is one is
kept; since two reasons may differ in their text, a status with a reason may be
written although it equals the copy's (`Rewritten`). Resource versions are kept as `cacheFresh`
and `s.fresh`. A Redis node is a cluster number (0: knows only itself), a master
and whether it has slots. `ok` is `cluster_state`. Redis, `redis-trib.rb`, the
StatefulSet controller and the user are external; `redis-trib.rb create` refuses
instances that are not empty and fewer than `MinMasters` masters.

A failing call is chosen with `FaultSteps` and `MaxFaults`. A failed redis-trib
command may have taken effect; a failed API request has not. `PodUnready` (one of
these faults) takes an instance out of the Endpoints at any time, also between two
reads of one sync; `PodReady` brings it back. `Alike` holds the pairs of pods whose
IPs `strings.Contains` confuses when the nodes of new masters are looked up
(`NodesWithIP`, `NewMasterNodes`); which of several matches comes first depends on
the order of `cluster nodes` and is a choice. An `add-node --slave` whose master is
a slave itself leaves the instance in the cluster as a master.

`Topology` is what remains when syncs, plans, caches, failures and crashes are left
out: the size that was asked for, the members, the masters of slaves and the pods with
slots. `Contract` maps `sts.spec`, `Joined`, `parent` and `Serving` to them. Creation is
`Found`, each `add-node` a `JoinAsMaster` or `JoinAsSlave`, a rebalance or reshard
`GiveSlots`, an enlarged StatefulSet `Grow`; everything else stutters. `JoinAsMaster` asks
for room for a slave of each master: that no sync ever joins one master too many,
although it decides so long before it does it, is what the refinement says. `Growth` is
not an implementation of it, because one of its steps joins several instances.

### OperatorManager

`proc` is the stage of each process (`down`, `starting` until the CRD exists,
`candidate`, `running`), `op` the stage of the operator in it (`begin`, `waiting`
for its caches before the informers run, `watching`, `workers`, or `disabled` by
the flag `--operators`). `flags` are fixed for all replicas and include leader
election switched off, in which case every replica runs the operator. The actions:

| Code | Actions |
|---|---|
| `Run`, M; `CreateRedisClusterCRD` | `StartProcess`, `CreateRedisClusterCRD` |
| `CreateOperatorContext`, `StartOperators`, `IsOperatorEnabled` | `StartOperators` |
| informer factories, `WaitForCacheSync` of the operator's `Run` | `StartInformers`, `StartWorkers` |
| `acquire`, `renew`, `tryAcquireOrRenew`, L | `BeginTry`, `Get`, `Update`, `Reply` |
| `OnStoppedLeading`, `glog.Fatal`, a crash | `Exit`, `Crash` |

One try is split where others can come between: the clock is read first, then the
lock, then the update is accepted by the API server, then its answer arrives. A
request may fail with or without effect, its answer may be lost, and an update that
nobody waits for may still arrive (`orphans`, `LateUpdate`). The resource version
of the lock is kept as the set `fresh` of tries that would be accepted, the
record as the set `seen` of replicas whose `observedRecord` is the lock's. Times
are ages that `Tick` advances: `observed` since `observedTime`, `renewed` since the
leader began to renew, `tried` since a try began. Tries begin at any time, which
covers every `RetryPeriod` and jitter.

`ManagerAssumption` asks for `RenewDeadline + 3 * TryTime <= LeaseDuration`. The code
has 10 s and 15 s by default and no limit on a request, so `TryTime` (the longest
try) is an assumption about the network: 5/3 s with the defaults. The inequality
is tight: with `LeaseDuration` one less TLC finds `LeaseDiscipline` violated, a candidate
for which the lease is over while the leader is still in its last try. The three tries are the one that read the lock before the leader
wrote it, the one that runs when `RenewDeadline` is over, and the last one. Identities
are hostnames and taken to be distinct, as pod names are. Clocks are taken to run
at the same speed.

## Runs

Sync loop. Deadlock is not checked: the operator may stop for good, its queue shut
down and its goroutines finished.

| Run | Instance | Shows |
|---|---|---|
| `sync_loop` | 1 key, 2 workers, 2 goroutines, 2 changes of each object, 2 retries, a restart | `TypeOK`, `OneSyncPerKey`, `QueueDiscipline`, `NoLostEvent`, `RetryPending` |
| `sync_live` | 1 key, fairness, 2 changes of the RedisCluster, a retry, a restart | `ChangesAreObserved`, `SyncsKeepComing`, `ImplementsKeyedSync` |

Two workers and two goroutines for one key are the least that make a race for the
key possible; two changes are the least that put one during a sync and one after
it. `ChanCap` 1 makes `AddAfter` block. Keys meet only in the order of the queue
and in the channel of delayed entries, so the runs take one key; what is proved
(below) holds for any number of them. Both liveness properties leave out a key whose
own sync never returns (`Hung`): its changes wait for ever. `ChangesAreObserved` does
without resyncs; it speaks of the changes that are announced, and the handler drops a
StatefulSet change that leaves the status alone (O:285-299). `SyncsKeepComing` assumes
that the informer resyncs, which brings a key back that a panic or the last retry has
ended. With two keys, TLC finds the latter true as well (`MaxVersion` 1, `MaxRetries` 0,
`MaxStsVersion` 0): a sync that never returns holds up no other key, since the worker
does not wait for it. Workers and goroutines are symmetric in `sync_loop` and no
symmetry is used in `sync_live`.

Placement:

| Run | Instance | Shows |
|---|---|---|
| `placement` | 6 growing to 8, every assignment of the pods to 3 nodes, every plan executed in part | `TopologyIsBalanced`, `PlanCompletes`, `MastersAreSpread` |

Six is the least `redis-trib.rb create` accepts with one slave each; the two pods of
the growth are put on any node when it happens. Three nodes
include one and two, because an assignment need not use them all.

Reconciliation (6 instances growing to 8; one edit of `spec.replicas`):

| Run | Instance | Shows |
|---|---|---|
| `reconcile_faults` | any call fails or an instance becomes unready, Redis leaves state ok once, all strategies, an edit | `OneCluster`, `EachSlaveItsMaster`, `StatusIsTrue`, `ClusterKeepsItsPods` |
| `reconcile_live` | 2 failing calls of a creation or unready instances, 2 crashes anywhere, an edit at any time, fairness | `TypeOK`, `HalfAreMasters`, `PlanningEnds`, `RunningSurvivesCrashes`, `StatusIsTrue`, `ImplementsTopology`, `Converges` |
| `reconcile_scale_in`, `reconcile_hang`, `reconcile_unreachable`, `reconcile_slots`, `reconcile_node_ids`, `reconcile_recovery` | one cause each | violations, see below |

Two crashes reach a crash during the repair of a first one; two failing calls, or
a failing call and a loss of the state ok, likewise reach a failure in the repair.
In `reconcile_faults` a failing call includes an `add-node --slave` that is cut off
between its two Redis commands, after which the planner may hang (`reconcile_hang`);
deadlock is therefore not checked there. `HalfAreMasters` (at most half of the
instances are masters), `PlanningEnds` and `ImplementsTopology` are checked, in
`reconcile_live`, with crashes and not with such half-executed commands, which break them.
The operator does not crash in `reconcile_faults`: over crashes `StatusIsTrue` is
checked in `reconcile_live`, and there `ImplementsTopology` says that the cluster is
founded once and that every slave gets a master of its own. Edits only grow the cluster, except in
`reconcile_scale_in` (`ScaleIn`).

`Converges` speaks of behaviours that stay `Undisturbed`: a creation over any
failures and crashes, or an edit without them. It does not hold in general: a
failing call during an upgrade leaves Running with a reason and too few
conditions, for which the code has no repair (`reconcile_unreachable`), and so
does a crash combined with an edit while the cluster is being created. The TODO
at K:29 admits that a Running cluster may be incomplete. `RunningSurvivesCrashes`
is the part of `RunningIsComplete` that does hold: crashes and edits, without
failed calls, never make a Running status untrue. It needs slots that are given by
rebalance: with `AssignReceive` and two edits TLC finds it violated (an upgrade with
too few strategies ends in Running with a reason and masters without slots, a
successful probe erases the reason, as in `reconcile_slots`).

Operator manager:

| Run | Instance | Shows |
|---|---|---|
| `manager` | 2 replicas, `LeaseDuration` 5, `RenewDeadline` 2, `TryTime` 1, 3 faults, with and without leader election, operator enabled or not, fairness | `OneOperator`, `LeaseDiscipline`, `Settles` |

Two replicas are what `artifacts/operator-manager.yaml` deploys; the lease is the shortest the
assumption allows, so that every race at its end happens. Three faults reach a lost
answer, a late update and a crash in one behaviour. `OneOperator` and
`LeaseDiscipline` are proved for any number of replicas (below).

### Disagreements found

* `reconcile_scale_in`: with a StatefulSet cache that still shows no pods, a smaller
  `spec.replicas` shrinks the StatefulSet.
* `reconcile_hang`: `composeMasterSlaveIP` spins when no address is left for slaves.
* `reconcile_unreachable`: the default branch of the repair is reached by a sync whose
  copy is the stored RedisCluster, and is final. In the shortest behaviour the first
  `add-node --slave` of a creation fails while the RedisCluster is edited to eight, so
  that Failed is a conflict; the next sync grows the StatefulSet, joins a new master,
  finds more slaves to add than new masters (S:956) and reports this with the phase
  Running, which the sync after it cannot handle. (With an old copy the branch is
  reached easily, and harmlessly, which is why the property asks for a fresh one.)
* `reconcile_slots`: after a failed rebalance the reason is erased and masters stay
  without slots in a Running cluster.
* `reconcile_node_ids`: a new master whose IP is contained in the IP of another node is
  mistaken for it; the slave meant for the new master joins the other one.
* `reconcile_recovery`: after one failed probe a healthy cluster stays Failed.

Met while reading, and visible in the models without a run of their own: the number
of workers does not bound the number of running syncs (O:388); slaves are placed
greedily, so a slave may share the node of its master although another choice would
separate them all (S:1353); the second pass over the addresses takes every other
one, because its index advances while the list shrinks (K:521); a cluster in state
fail is taken for a new one and `redis-trib.rb create` is run on it, where only its
own check of the instances prevents harm (K:383). It does not if the RedisCluster is
edited to twice its size meanwhile and the new instances are on nodes whose names come
first: all masters to be are empty then, and a second cluster is founded. TLC shows it
with `Sizes = {6, 12}`, `MaxBreaks = 1` and the pods 7 to 12 on nodes of their own before
the others; `ClusterStaysOne` says when it cannot happen.

## Fairness

`SyncLoop!Fairness`: the listener goroutines, the waiting loop, the workers and
the sync goroutines are weakly fair, since each runs until it blocks, but a sync may
block for ever (`SyncHangs`). `handleErr` is strongly fair: its `AddAfter` may block on a
full channel, and a Go channel serves blocked senders in order. Nothing is assumed of
changes, resyncs, restarts or shutdown. `Reconcile!FairSpec`: a running sync goes on,
unless the planner hangs (the waits for pods and for the Redis cluster end after
`ClusterTimeOut`; that each remote command returns is an assumption, since the code
sets no limit); syncs keep starting (the resync every `ResyncPeriod`), informers
and the StatefulSet controller do their work, a broken Redis cluster recovers. No
fairness is assumed of failures or edits. `OperatorManager!FairSpec`: time passes;
in each replica the kubelet restarts the container, the elector's loop and the
operator's startup are scheduled. Nothing is assumed of late updates, and faults are
bounded: a lease can be lost for ever again if the API server keeps failing.

## Proofs

`SyncLoopProofs` proves, for every set of keys, workers and goroutines and every
bound, from `ConstantsAssumption` (NoKey is no key, the bounds are numbers):

* `DisciplineInvariant`: `Spec => [](TypeOK /\ QueueDiscipline)`. `OneSyncPerKey`
  is not inductive: `Get` could hand out a key that somebody holds if the queue
  contained it. `QueueDiscipline` adds that the queue lists each key once and only
  marked keys outside `processing` (`QueueIsFresh`), that whoever holds a key has it
  in `processing` (`HeldAreProcessing`), and that a goroutine has a key exactly
  while it runs (`StagesMatch`). `AddFresh`, `DoneFresh` and `HeadIsFresh` are the
  facts about the queue; there is one lemma per action that moves a key.
* `TypeCorrect`: `Spec => []TypeOK`, with the bound `maxRetries` on the counters.
* `MutualExclusion`: `Spec => []OneSyncPerKey`.
* `Refinement`: `Spec => Contract!Safety`. `Get` is `Start`, the deferred `Done` is
  `Finish`, every `Add` is `Mark` or nothing, `Restart` is `Reset`.

`OperatorManagerProofs` proves, for every set of replicas, every lease that satisfies
`ManagerAssumption` and any number of faults:

* `OperatorIsUnique`: `Spec => []OneOperator`. That the operator runs once says nothing
  about a candidate that is about to take the lock, so it is not inductive.
* `DisciplineOfTheLease`: `Spec => []LeaseDiscipline`, which with `TypeOK` is inductive.
  `LeaderIsPunctual` bounds how long a leader can go without a renewal, through the
  last try that `wait.Poll` makes after `RenewDeadline`; `LockIsGuarded` bounds from it
  how long any other replica can have seen the owner's record, so that nobody finds
  the lease over (`NoLeaseIsOver`) and no update but the owner's would be accepted;
  `TriesAreConsistent` ties what a try remembers to its stage, and
  `OperatorNeedsProcess` the operator to its process. `EndTryInductive` and
  `ExitInductive` carry every way in which a try fails.
* `ManagerTypeCorrect`: `Spec => []TypeOK`.

`SyncLoopEventProofs` proves from the same assumption and the discipline of the queue:

* `EventsAreKept`: `Spec => []NoLostEvent`. A stored change that the last sync has not
  read has a notification on its way, a mark in the queue, or a worker or goroutine
  that has taken the key and has not read the object (`WillRead`, `WillReadSts`).
* `RetriesAreKept`: `Spec => []RetryPending`. A counted failure has its delayed entry,
  a mark or a sync that will see to it.

`PlacementProofs` has the lemmas about the operators of `Placement`, for lists of any
length. What a loop computes is shown with `IterateInduction`, which rests on
`Induction`: induction over a set of numbers, from well-founded minima, since no
theorem with an operator parameter can be used. `Lists(l, X)` (the list `l` has each
element of `X` once) is kept by every operator; `ListsInterleaved` and
`InterleavedIsSpread` say what the round-robin does, `PickSlavesResult` that each
slave gets a master of its own, `composeResult` and `composeSound` what a plan is:
always sound, complete for an even number of addresses, and computed without a panic
or the endless loop in a balanced cluster.

`GrowthProofs` proves, for any nodes, any sizes and any placement of the pods, from
`GrowthAssumption`:

* `GrowthIsBalanced`: `Spec => []TopologyIsBalanced`. Inductive with `Placed` (masters
  and slaves are pods, and none before the creation). At most half are masters
  because the plan counts those that joined before (`PlanKeepsInv`).
* `GrowthPlans`: the next plan can always be computed, without a panic and the
  endless loop of `composeMasterSlaveIP`, as long as no slave stops half-way.
* `GrowthCompletes`: `Spec => []PlanCompletes`, for even sizes. With an odd size one
  instance stays out.
* `GrowthIsSpread`: `Spec => []MastersAreSpread`.

`ReconcileProofs` proves from `ReconcileAssumption` (finitely many sizes, each at least
1; numbers for nodes and bounds), for any placement, failing calls, edits and crashes:

* `ReconcileTypes`: `Spec => []TypeOK`. One lemma says what every step of a sync may do to
  the RedisCluster and its copies (`SyncMoves`), one what it may do to the Redis nodes
  (`RedisStep`), one for the StatefulSet (`StsStep`); the other theorems use these.
* `StatusStaysTrue`: `Spec => []StatusIsTrue`. A sync writes back conditions that it read
  from its copy, so `StatusInv` says the same of the lister's copy and of the sync's;
  it is inductive because members stay (`AllMembersRemain`), which `redis-trib.rb` sees to:
  it refuses an instance that is not empty.
* `ClusterAlwaysKeepsItsPods`: `Spec => []ClusterKeepsItsPods` if `ScaleIn = FALSE`; with
  scale-in it is violated (`reconcile_scale_in`). `SizeInv` adds that no copy asks for
  fewer instances than there are and that a sync works with addresses of existing
  instances only.
* `EachSlaveKeepsItsMaster`: `Spec => []EachSlaveItsMaster` if `Alike = {}`; with confused IPs
  it is violated (`reconcile_node_ids`). `TopoInv` adds `TodoInv`: while a sync adds
  instances, the masters it has chosen for the slaves to come are different and have
  no slave, or will be added first. It holds because a plan is sound for whatever an
  interrupted sync left (`composeSound`).

`ReconcileClusterProofs` proves from the same assumption:

* `ClusterStaysOne`: `Spec => []OneCluster` if `ScaleIn = FALSE` and `SlowGrowth` (after any
  growth less than half of the instances are new: 6 to 10, not 6 to 11). The
  operator repeats a creation whenever the lister shows no pods or the cluster is in
  state fail. What makes `redis-trib.rb` refuse is in `ClusterInv`: the first address of
  the interleaved founders is in the cluster (`Rooted`), a creation works with all the
  instances in order (`Handles`), and among their masters is that address again
  (`FoundersIncludeFirst`): only new instances can come before it. Without `SlowGrowth`
  it does not hold (see the end of "Disagreements found").

`ReconcileRunningProofs` goes on from these invariants (`BaseInv`, which adds what a
sync works with: `Fresh`, a copy that a write would accept is the stored object, and
`Works`, its addresses are those of all the instances its RedisCluster asks for). All four theorems assume
`ScaleIn = FALSE`, `SlowGrowth` and `Alike = {}`, which the run `reconcile_live` satisfies too:

* `MastersStayHalf`: `Spec => []HalfAreMasters` if `"replicate" \notin FaultSteps`, over
  all other failures, conflicts, stale caches and crashes. It is not inductive, since
  a plan is carried out steps after it was made. `BalanceInv` adds that what a plan still
  has to add is new, each instance once (`Chosen`), that the masters there are and
  those to come are at most half of the instances (`Room`), and that the planner is
  not stuck. `Room` survives a crash because the plan is lost with the sync, and a new
  plan because `composeMasterSlaveIP` subtracts the masters that joined.
* `PlanningAlwaysEnds`: `Spec => []PlanningEnds` under the same assumptions, from
  `composeResult`: in a balanced cluster with an address to add, one is left for a
  slave.
* `RunningIsTrueAfterCrashes`: `Spec => []RunningSurvivesCrashes` if `MaxBreaks = 0` (the
  Redis cluster does not leave the state ok) and no strategy is `AssignReceive`. That
  `faults = 0`, nothing fails but the operator, is part of the property. Its invariant
  `RunInv` has four parts. `Copies`: the stored RedisCluster, the lister's copy and the
  sync's list as many instances as they ask for only if the cluster is complete, since
  any of them may be written back or trusted. `Served`: when the masters have slots,
  step by step; a full cluster with a master that has none was left by a crash, and
  until the lister shows the StatefulSet as it is, only a sync that has the slots still
  to give can see it so. `Informed`: a repair sees the size the StatefulSet has.
  `Track`: which procedure a step belongs to and with what. That a full cluster has a
  slave for each master is a counting argument (`EveryMasterHasOne`): the slaves have
  different masters and at most half of the instances are masters, so every master
  has one.
* `TopologyIsImplemented`: `Spec => ImplementsTopology` under the assumptions of
  `MastersStayHalf`. `NodesStep` says what a step of a sync does to the Redis nodes;
  `FoundSeen`, `JoinSeen`, `GaveSeen` and `ResizeSeen` map each case to a step of
  `Topology`. The room comes from `BalanceInv` after the step, the founding of an empty
  cluster from `FoundedOnce`. `SlotsInv` adds that only masters have slots, for which the
  masters to which slots are assigned one by one must be masters by then (`Aimed`).

Every safety invariant of the passing runs is a theorem, under the assumptions given
here. Only model-checked: liveness (fairness is out of the prover's reach), so also
the fairness part of `KeyedSync`.

## Not modelled

Construction of the Service and StatefulSet objects beyond `replicas`; text of
addresses and names beyond the substring match (`Alike`), so not the string order of
more than ten pod names at S:1446, which permutes addresses consistently; deletion of
the RedisCluster or StatefulSet during a sync (`dropRedisCluster` has no caller);
pods that restart with another IP; a slave that Redis promotes when its master is down
(`parent` stays what `add-node` made it, so the masters recorded in the status never
change roles in the model); number of slots of a node; a remote command that goes on after the operator process that sent it died (what `redis-trib.rb` does on
its own is outside the repository). Of the operator manager, the HTTP server, the
client builder and the event recorder appear only as ways to end the process
(`Crash`); the configz registry is a mutex around a map for a debug page. API types,
generated clients, informers and listers are data or generated code; what informers
do is part of `SyncLoop`. Most of the slice helpers have no caller in the operator.

## Plan

1. Extend: `SyncLoop` composed with an abstract `Reconcile` (several keys); commands that
   go on after a crash, as an extension of `Reconcile`.
