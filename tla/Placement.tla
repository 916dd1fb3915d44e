------------------------------- MODULE Placement -------------------------------
(***************************************************************************)
(* How the operator chooses masters, slaves and the master of each slave   *)
(* (assignMasterSlaveIP in sync_rediscluster.go for a new cluster,         *)
(* composeMasterSlaveIP in check_rediscluster.go for a cluster that grows  *)
(* or is repaired).  An endpoint address is a pod number: the addresses    *)
(* are sorted by pod name.  node[p] is the Kubernetes node of pod p;       *)
(* nodes are numbers because their names are sorted too.                   *)
(***************************************************************************)
EXTENDS Integers, Sequences, FiniteSets, SequencesExt

\* Fold from the left: step[x] is what the next element x does to what there is.
Row(step, start, list) ==
    LET after[i \in 0..Len(list)] ==
           IF i = 0 THEN start ELSE step[list[i]][after[i - 1]]
    IN  after
Iterate(step, start, list) == Row(step, start, list)[Len(list)]

\* The addresses that are in S, in the order of addrs.
Keep(S) ==
    [p \in Nat |-> [kept \in Seq(Nat) |-> IF p \in S THEN Append(kept, p) ELSE kept]]
Among(addrs, S) == Iterate(Keep(S), <<>>, addrs)

\* Mutant of Earlier: the nodes are emptied one after the other.
EarlierByNode(t, u) == t[2] < u[2] \/ (t[2] = u[2] /\ t[1] < u[1])

\* "take one ip from each node until we run out of addr across every node": the
\* turn of an address is its number among the addresses on its node, and in each
\* round the nodes come in the order of their names.
Turn(addrs, node, i) ==
    <<Cardinality({j \in 1..i : node[addrs[j]] = node[addrs[i]]}), node[addrs[i]], i>>
Earlier(t, u) == t[1] < u[1] \/ (t[1] = u[1] /\ t[2] < u[2])
Interleaved(addrs, node) ==
    LET turns == {Turn(addrs, node, i) : i \in DOMAIN addrs}
        next(k) == CHOOSE t \in turns : Cardinality({u \in turns : Earlier(u, t)}) = k - 1
    IN  [k \in 1..Len(addrs) |-> addrs[next(k)[3]]]

\* The loop leaves the round only at a node that has no address left, so it
\* never stops when there was no node to begin with.
InterleaveStops(addrs) == addrs # <<>>

\* Index of the first address on another node than master, the first address
\* when there is none.
SlaveIndex(addrs, node, master) ==
    LET elsewhere == {i \in DOMAIN addrs : node[addrs[i]] # node[master]}
    IN  IF elsewhere = {} THEN 1 ELSE Min(elsewhere)

\* One slave for each master, in order, while addresses last.
Picking == [left : Seq(Nat), slaves : Seq(Nat), parents : Seq(Nat)]
TakeSlave(node) ==
    [m \in Nat |-> [acc \in Picking |->
        IF acc.left = <<>> THEN acc
        ELSE LET i == SlaveIndex(acc.left, node, m)
             IN  [left    |-> RemoveAt(acc.left, i),
                  slaves  |-> Append(acc.slaves, acc.left[i]),
                  parents |-> Append(acc.parents, m)]]]
PickSlaves(masters, addrs, node) ==
    Iterate(TakeSlave(node), [left |-> addrs, slaves |-> <<>>, parents |-> <<>>], masters)

RotateOnce(s) == IF s = <<>> THEN s ELSE Append(Tail(s), Head(s))

assignMasterSlaveIP(addrs, node) ==
    LET spread  == Interleaved(addrs, node)
        count   == Len(addrs) \div 2
        masters == SubSeq(spread, 1, count)
        rest    == RotateOnce(SubSeq(spread, count + 1, Len(spread)))
        picked  == PickSlaves(masters, rest, node)
    IN  [masters |-> masters, slaves |-> picked.slaves]
-----------------------------------------------------------------------------
(***************************************************************************)
(* composeMasterSlaveIP.  masters and slaves are the pods cluster nodes    *)
(* lists as such, having the masters that have a slave.                    *)
(***************************************************************************)
\* Mutant of willAssignMasterCount: the existing masters are not counted.
AllMastersMissing(addrs, masters) == Len(addrs) \div 2

\* Masters that are missing; below 0 when there are too many.
willAssignMasterCount(addrs, masters) == Len(addrs) \div 2 - Cardinality(masters)

\* Mutant of MastersWithoutSlave: every master gets a slave.
EveryMaster(ms, having) == ms

MastersWithoutSlave(ms, having) == Among(ms, ToSet(ms) \ having)

\* First pass: addresses on nodes without a master, up to count of them.  A
\* negative count is never reached.
Spreading == [taken : Seq(Nat), left : Seq(Nat)]
TakeFreeNode(node, existing, count) ==
    [p \in Nat |-> [acc \in Spreading |->
        IF \/ Len(acc.taken) = count
           \/ \E m \in existing \cup ToSet(acc.taken) : node[m] = node[p]
        THEN [acc EXCEPT !.left = Append(@, p)]
        ELSE [acc EXCEPT !.taken = Append(@, p)]]]
OnFreeNodes(addrs, node, existing, count) ==
    Iterate(TakeFreeNode(node, existing, count), [taken |-> <<>>, left |-> <<>>], addrs)

\* Second pass: the index advances while the list shrinks, so that every
\* other address is taken; an index past the end panics.
SecondPassPanics(left, missing) == missing > 0 /\ 2 * (missing - 1) >= Len(left)
EveryOther(left, missing) ==
    LET taken == Max({0, missing})
        kept  == Min({taken, Len(left) \div 2})
    IN  [taken |-> [i \in 1..taken |-> left[2 * i - 1]],
         left  |-> [i \in 1..kept |-> left[2 * i]] \o SubSeq(left, 2 * taken + 1, Len(left))]

NothingToAdd == [result |-> "plan", masters |-> <<>>, slaves |-> <<>>, parents |-> <<>>]

composeMasterSlaveIP(addrs, node, masters, slaves, having) ==
    LET willAdd   == Among(addrs, ToSet(addrs) \ (masters \cup slaves))
        count     == willAssignMasterCount(addrs, masters)
        first     == OnFreeNodes(willAdd, node, masters \cap ToSet(addrs), count)
        missing   == count - Len(first.taken)
        second    == EveryOther(first.left, missing)
        added     == first.taken \o second.taken
        existing  == Among(addrs, masters)
        noSlave   == MastersWithoutSlave(existing \o added, having)
        picked    == PickSlaves(noSlave, Interleaved(second.left, node), node)
    IN  IF willAdd = <<>> THEN NothingToAdd
        ELSE IF SecondPassPanics(first.left, missing)
        THEN [NothingToAdd EXCEPT !.result = "panic"]
        ELSE IF ~InterleaveStops(second.left)
        THEN [NothingToAdd EXCEPT !.result = "hang"]
        ELSE [result |-> "plan", masters |-> added,
              slaves |-> picked.slaves, parents |-> picked.parents]
=============================================================================
