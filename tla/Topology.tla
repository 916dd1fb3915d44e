------------------------------ MODULE Topology ------------------------------
(***************************************************************************)
(* What the reconciliation promises of the Redis nodes, without syncs,     *)
(* plans, caches, failures or crashes: a cluster is founded once, by       *)
(* masters only; the other instances join it one by one and for good, as a *)
(* master while there is room for its slave, or as the only slave of a     *)
(* master; slots go to masters.                                            *)
(***************************************************************************)
EXTENDS Integers, FiniteSets

CONSTANT Pods

VARIABLES size,      \* pods 1..size may be in the cluster
          members,   \* the cluster
          parent,    \* pod -> its master, 0 for a master and outside the cluster
          serving    \* pods with slots

vars == <<size, members, parent, serving>>

masters == {p \in members : parent[p] = 0}
HasRoom(ms) == Cardinality(ms) <= size \div 2

Init ==
    /\ size = 0 /\ members = {} /\ serving = {}
    /\ parent = [p \in Pods |-> 0]

Grow ==
    /\ size' \in Nat /\ size' > size
    /\ UNCHANGED <<members, parent, serving>>

Found ==
    /\ members = {} /\ members' \subseteq 1..size /\ HasRoom(members')
    /\ serving' = members'
    /\ UNCHANGED <<size, parent>>

JoinAsMaster(p) ==
    /\ members # {} /\ HasRoom(masters \cup {p})
    /\ members' = members \cup {p}
    /\ UNCHANGED <<size, parent, serving>>

JoinAsSlave(p, m) ==
    /\ \A q \in members : parent[q] # m
    /\ members' = members \cup {p}
    /\ parent' = [parent EXCEPT ![p] = m]
    /\ UNCHANGED <<size, serving>>

GiveSlots ==
    /\ serving \subseteq serving' /\ serving' \subseteq serving \cup masters
    /\ UNCHANGED <<size, members, parent>>

Next ==
    \/ Grow \/ Found \/ GiveSlots
    \/ \E p \in (1..size) \ members :
          JoinAsMaster(p) \/ \E m \in masters : JoinAsSlave(p, m)

Spec == Init /\ [][Next]_vars
=============================================================================
