------------------------------ MODULE MCReconcile ------------------------------
(***************************************************************************)
(* Instances of Reconcile for TLC: a RedisCluster of six instances (the    *)
(* three masters that redis-trib create demands) that grows to eight.      *)
(***************************************************************************)
EXTENDS Reconcile

\* Eight pods on three nodes, as a scheduler would spread them.
SpreadNodes == <<1, 2, 3, 1, 2, 3, 1, 2>>
Auto == [type |-> "AutoReceive", count |-> 0]
Assign == [type |-> "AssignReceive", count |-> 1]
Wrong == [type |-> "Other", count |-> 0]
AutoOnly == {Auto}
AllStrategies == {Auto, Assign, Wrong}

AllSteps == {"status", "apply", "endpoints", "probe", "wait", "classify", "trib",
             "nodes", "addMaster", "addSlave", "replicate", "info", "slots", "unready"}
NoSteps == {}
\* Every call of the creation and of its repair.
CreateSteps == {"status", "apply", "wait", "classify", "trib", "nodes", "addMaster",
                "addSlave", "unready"}
ReplicateOnly == {"replicate"}
ProbeOnly == {"probe"}
AddSlaveOnly == {"addSlave"}
SlotsOnly == {"slots"}

\* Pod 7 has 10.0.0.1 and pod 1 has 10.0.0.12; no other two are alike.
OneAlike == {<<7, 1>>}

\* One node for each pod.
OwnNodes == [p \in 1..8 |-> p]

\* The plan that the repository's TestComposeMasterSlaveIP1 documents for its
\* ten instances, of which six are in the cluster.
TestNode == <<3, 6, 1, 4, 2, 6, 1, 3, 4, 6>>
ASSUME TestComposeMasterSlaveIP1 ==
    composeMasterSlaveIP([i \in 1..10 |-> i], TestNode, {3, 5, 1}, {2, 6, 4}, {3, 5, 1})
       = [result |-> "plan", masters |-> <<9, 10>>,
          slaves |-> <<7, 8>>, parents |-> <<9, 10>>]
=============================================================================
