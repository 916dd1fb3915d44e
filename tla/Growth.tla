-------------------------------- MODULE Growth --------------------------------
(***************************************************************************)
(* The life of one Redis cluster as Placement shapes it, on any assignment *)
(* of pods to nodes: created, extended when the RedisCluster asks for more *)
(* instances, and repaired.  redis-trib adds one node at a time, so each   *)
(* plan may be carried out in part only (an error, a crash) before the     *)
(* next plan is computed from what cluster nodes shows.                    *)
(***************************************************************************)
EXTENDS Placement

CONSTANTS Nodes,      \* Kubernetes nodes
          Sizes       \* values of spec.replicas

ASSUME GrowthAssumption ==
    Nodes \subseteq Nat \ {0} /\ Sizes \subseteq Nat \ {0} /\ Sizes # {}

VARIABLES n,          \* spec.replicas, and the ready addresses 1..n
          node,       \* node of each pod
          masters,    \* pods that are masters
          parent,     \* slave |-> its master
          path        \* what a sync runs next: "create", "upgrade" or "repair"

vars == <<n, node, masters, parent, path>>

addresses == [i \in 1..n |-> i]
slaves == DOMAIN parent
clustered == masters \cup slaves
having == {parent[s] : s \in slaves}
Plan == composeMasterSlaveIP(addresses, node, masters, slaves, having)

Init ==
    /\ n = Min(Sizes)
    /\ node \in [1..n -> Nodes]
    /\ masters = {} /\ parent = <<>>
    /\ path = "create"

\* Attach the first k of new to the masters in to, in order.
Attach(new, to, k) ==
    [s \in slaves \cup {new[i] : i \in 1..k} |->
        IF s \in slaves THEN parent[s] ELSE to[CHOOSE i \in 1..k : new[i] = s]]

\* createAndInitRedisCluster: redis-trib create with all masters, then
\* add-node --slave one by one.
createAndInitRedisCluster ==
    /\ path = "create"
    /\ LET a == assignMasterSlaveIP(addresses, node) IN
       \E k \in 0..Len(a.slaves) :
          /\ masters' = ToSet(a.masters)
          /\ parent' = Attach(a.slaves, a.masters, k)
    /\ path' = "repair"
    /\ UNCHANGED <<n, node>>

\* sync sees more replicas than the StatefulSet has; the scheduler puts the
\* new pods anywhere.
Grow ==
    /\ path = "repair"
    /\ \E m \in Sizes :
          /\ m > n
          /\ n' = m
          /\ \E new \in [(n + 1)..m -> Nodes] :
                node' = [p \in 1..m |-> IF p <= n THEN node[p] ELSE new[p]]
    /\ path' = "upgrade"
    /\ UNCHANGED <<masters, parent>>

\* scaleRedisCluster: the slaves go to the new masters, whatever parents the
\* plan chose; a plan of different lengths fails after the masters joined.
scaleRedisCluster ==
    /\ path = "upgrade"
    /\ LET plan == Plan IN
       /\ plan.result = "plan"
       /\ \E j \in 0..Len(plan.masters), k \in 0..Len(plan.slaves) :
             /\ k > 0 => j = Len(plan.masters) /\ Len(plan.slaves) = j
             /\ masters' = masters \cup {plan.masters[i] : i \in 1..j}
             /\ parent' = Attach(plan.slaves, plan.masters, k)
    /\ path' = "repair"
    /\ UNCHANGED <<n, node>>

\* The repair branches of checkAndUpdateRedisClusterStatus.
checkAndUpdateRedisClusterStatus ==
    /\ path = "repair"
    /\ LET plan == Plan IN
       /\ plan.result = "plan"
       /\ \E j \in 0..Len(plan.masters), k \in 0..Len(plan.slaves) :
             /\ k > 0 => j = Len(plan.masters)
             /\ masters' = masters \cup {plan.masters[i] : i \in 1..j}
             /\ parent' = Attach(plan.slaves, plan.parents, k)
    /\ UNCHANGED <<n, node, path>>

Next == \/ createAndInitRedisCluster \/ Grow
        \/ scaleRedisCluster \/ checkAndUpdateRedisClusterStatus

Spec == Init /\ [][Next]_vars
-----------------------------------------------------------------------------
\* Whatever part of each plan was carried out, no master has two slaves, every
\* slave's parent is a master and half of the instances at most are masters.
TopologyIsBalanced ==
    /\ \A s, t \in slaves : parent[s] = parent[t] => s = t
    /\ having \subseteq masters
    /\ masters \cap slaves = {}
    /\ Cardinality(masters) <= n \div 2

\* From every partly executed plan the next plan can be computed, and carrying
\* it out in full through the repair path completes the cluster: every instance
\* joins and every master has its slave.
PlanCompletes ==
    path # "create" =>
       LET plan == Plan IN
       /\ plan.result = "plan"
       /\ Cardinality(masters) + Len(plan.masters) = n \div 2
       /\ having \cup ToSet(plan.parents) = masters \cup ToSet(plan.masters)
       /\ clustered \cup ToSet(plan.masters) \cup ToSet(plan.slaves) = 1..n
       /\ Len(plan.slaves) = Len(plan.parents)

NodesOf(ps) == {node[p] : p \in ps}

\* "1. two masters are on the same node as seldom as possible": the masters of
\* a new cluster use as many nodes as there are, or as there are masters.
MastersAreSpread ==
    path = "create" =>
       LET a == assignMasterSlaveIP(addresses, node)
           used == Cardinality(NodesOf(ToSet(a.masters)))
       IN  \/ used = Len(a.masters)
           \/ NodesOf(ToSet(a.masters)) = NodesOf(1..n)
=============================================================================
