----------------------- MODULE ReconcileClusterProofs -----------------------
(***************************************************************************)
(* When a Redis cluster is in state fail, or the lister still shows a      *)
(* StatefulSet without pods, the operator runs redis-trib create again on  *)
(* instances that are in a cluster already, and only redis-trib refuses:   *)
(* one of the masters to be is not empty.  Proof that this is so, and the  *)
(* instances stay in one cluster, as long as the RedisCluster grows to     *)
(* less than twice its size.                                               *)
(***************************************************************************)
EXTENDS ReconcileProofs

\* The instances 1 to n in order.
InOrder(n) == [i \in 1..n |-> i]

\* The instances with which the interleaving meets their node, and the one of
\* them whose node comes first.
FirstOnNode(p) == \A j \in 1..(p - 1) : NodeOf[j] # NodeOf[p]
IsFirst(q, n) ==
    /\ q \in 1..n /\ FirstOnNode(q)
    /\ \A p \in 1..n : FirstOnNode(p) => NodeOf[q] <= NodeOf[p]

\* The first address of the founders of the cluster is in it.
Rooted ==
    \/ \A p \in Pods : clu[p] = 0
    \/ \E n \in Sizes : \E q \in Pods : n <= sts.spec /\ IsFirst(q, n) /\ clu[q] # 0

\* The instances through which a sync runs its commands.
Through(pc) == pc \in {"plan", "createNodes", "addMasters", "addSlaves"}
Handles(t, n) ==
    /\ t.old \in Seq(1..n)
    /\ t.pc = "upgrading" => t.old # <<>>
    /\ Through(t.pc) => t.exist \in 1..n
    /\ t.pc = "trib" => n \in Sizes /\ t.eps = InOrder(n)

ClusterInv == OneCluster /\ Rooted /\ Handles(s, sts.spec)
-----------------------------------------------------------------------------
(***************************************************************************)
(* The first address is always among the masters of a creation.            *)
(***************************************************************************)
\* The round of an address is 1 when it is the first one on its node.
LEMMA FirstRound ==
    ASSUME NEW n \in Nat, 1..n \subseteq Pods, NEW p \in 1..n
    PROVE  LET t == Turn(InOrder(n), NodeOf, p)
           IN  /\ t[1] \in Nat \ {0} /\ t[2] = NodeOf[p] /\ t[3] = p
               /\ t[1] = 1 <=> FirstOnNode(p)
<1> DEFINE here == {j \in 1..p : NodeOf[j] = NodeOf[p]}
<1>1. p \in Nat /\ \A j \in 1..p : j \in 1..n /\ InOrder(n)[j] = j
      BY DEF InOrder
<1>2. Turn(InOrder(n), NodeOf, p) = <<Cardinality(here), NodeOf[p], p>>
  <2>1. {j \in 1..p : NodeOf[InOrder(n)[j]] = NodeOf[InOrder(n)[p]]} = here
        BY <1>1
  <2> HIDE DEF here
  <2> QED
        BY <1>1, <2>1 DEF Turn
<1>3. p \in here /\ here \subseteq 1..p
      BY <1>1
<1>4. here = {p} <=> FirstOnNode(p)
      BY <1>1 DEF FirstOnNode
<1> HIDE DEF here
<1>5. IsFiniteSet(here) /\ Cardinality(here) \in Nat
      BY <1>1, <1>3, IntervalSize, FS_Subset, FS_CardinalityType
<1>6. IsFiniteSet({p}) /\ Cardinality({p}) = 1
      BY FS_Singleton
<1>7. Cardinality(here) >= 1 /\ (Cardinality(here) = 1 => here = {p})
  <2>1. {p} \subseteq here
        BY <1>3
  <2> QED
        BY <1>5, <1>6, <2>1, FS_Subset
<1> QED
      BY <1>2, <1>4, <1>5, <1>6, <1>7

\* The interleaved list begins with the first address.
LEMMA InterleavedFirst ==
    ASSUME NEW n \in Nat \ {0}, 1..n \subseteq Pods
    PROVE  IsFirst(Interleaved(InOrder(n), NodeOf)[1], n)
<1> DEFINE l == InOrder(n)
           new == Interleaved(l, NodeOf)
<1>1. Len(l) = n /\ Lists(l, 1..n) /\ \A i \in 1..n : l[i] = i
  <2>1. l \in Seq(Nat) /\ Len(l) = n /\ \A i \in 1..n : l[i] = i
        BY DEF InOrder
  <2> HIDE DEF l
  <2> QED
        BY <2>1 DEF Lists
<1>2. \A x \in 1..n : NodeOf[x] \in Int
      BY ReconcileAssumption
<1>3. PICK at : InTurn(new, l, NodeOf, at)
      BY <1>1, <1>2, InterleavedInTurn, Zenon
<1>4. /\ at \in [1..n -> 1..n] /\ \A i \in 1..n : \E k \in 1..n : at[k] = i
      /\ \A k \in 1..n : new[k] = l[at[k]]
      /\ \A i, j \in 1..n : i < j => Earlier(Turn(l, NodeOf, at[i]), Turn(l, NodeOf, at[j]))
      BY <1>1, <1>3 DEF InTurn
<1> HIDE DEF new, l
<1>5. 1 \in 1..n
      OBVIOUS
<1>6. at[1] \in 1..n /\ new[1] = at[1]
  <2>1. at \in [1..n -> 1..n]
        BY <1>4
  <2>2. at[1] \in 1..n
        BY <1>5, <2>1
  <2>3. new[1] = l[at[1]]
        BY <1>4, <1>5, Zenon
  <2>4. l[at[1]] = at[1]
        BY <1>1, <2>2, Zenon
  <2> QED
        BY <2>2, <2>3, <2>4
<1>7. \A p \in 1..n : /\ Turn(l, NodeOf, p)[1] \in Nat \ {0} /\ Turn(l, NodeOf, p)[2] = NodeOf[p]
                      /\ Turn(l, NodeOf, p)[1] = 1 <=> FirstOnNode(p)
      BY FirstRound DEF l
<1>8. ASSUME NEW p \in 1..n, FirstOnNode(p)
      PROVE  FirstOnNode(at[1]) /\ NodeOf[at[1]] <= NodeOf[p]
  <2>1. PICK k \in 1..n : at[k] = p
        BY <1>4
  <2>2. CASE k = 1
        BY <1>2, <1>8, <2>1, <2>2
  <2>3. CASE k # 1
    <3>1. Earlier(Turn(l, NodeOf, at[1]), Turn(l, NodeOf, p))
          BY <1>4, <1>5, <2>1, <2>3
    <3> QED
          BY <1>2, <1>6, <1>7, <1>8, <3>1 DEF Earlier
  <2> QED
        BY <2>2, <2>3
<1>9. FirstOnNode(1)
      BY DEF FirstOnNode
<1>10. FirstOnNode(at[1]) /\ \A p \in 1..n : FirstOnNode(p) => NodeOf[at[1]] <= NodeOf[p]
      BY <1>5, <1>8, <1>9
<1> QED
      BY <1>6, <1>10 DEF IsFirst, new, l

\* The masters of a creation with n instances include the first of any smaller
\* number of them, if less than half are new.
LEMMA FoundersIncludeFirst ==
    ASSUME NEW n \in Nat, NEW m \in 1..n, 1..n \subseteq Pods, n - m < n \div 2,
           NEW q, IsFirst(q, m)
    PROVE  q \in ToSet(assignMasterSlaveIP(InOrder(n), NodeOf).masters)
<1> DEFINE l == InOrder(n)
           new == Interleaved(l, NodeOf)
           count == n \div 2
<1>1. Len(l) = n /\ Lists(l, 1..n) /\ \A i \in 1..n : l[i] = i
  <2>1. l \in Seq(Nat) /\ Len(l) = n /\ \A i \in 1..n : l[i] = i
        BY DEF InOrder
  <2> HIDE DEF l
  <2> QED
        BY <2>1 DEF Lists
<1>2. \A x \in 1..n : NodeOf[x] \in Int
      BY ReconcileAssumption
<1>3. PICK at : InTurn(new, l, NodeOf, at)
      BY <1>1, <1>2, InterleavedInTurn, Zenon
<1>4. /\ at \in [1..n -> 1..n] /\ \A i \in 1..n : \E k \in 1..n : at[k] = i
      /\ \A i, j \in 1..n : at[i] = at[j] => i = j
      /\ new \in Seq(Nat) /\ Len(new) = n /\ \A k \in 1..n : new[k] = l[at[k]]
      /\ \A i, j \in 1..n : i < j => Earlier(Turn(l, NodeOf, at[i]), Turn(l, NodeOf, at[j]))
      BY <1>1, <1>3 DEF InTurn
<1>5. \A p \in 1..n : /\ Turn(l, NodeOf, p)[1] \in Nat \ {0} /\ Turn(l, NodeOf, p)[2] = NodeOf[p]
                      /\ Turn(l, NodeOf, p)[1] = 1 <=> FirstOnNode(p)
      BY FirstRound
<1>6. assignMasterSlaveIP(l, NodeOf).masters = SubSeq(new, 1, count)
      BY <1>1 DEF assignMasterSlaveIP
<1> HIDE DEF new, l
<1>7. /\ q \in 1..m /\ FirstOnNode(q) /\ q \in 1..n
      /\ \A p \in 1..m : FirstOnNode(p) => NodeOf[q] <= NodeOf[p]
      BY DEF IsFirst
<1>8. PICK k \in 1..n : at[k] = q
      BY <1>4, <1>7
<1>9. ASSUME NEW i \in 1..(k - 1) PROVE at[i] \in (m + 1)..n
  <2>1. i \in 1..n /\ i < k /\ at[i] \in 1..n
    <3>1. at \in [1..n -> 1..n]
          BY <1>4
    <3>2. i \in 1..n /\ i < k
          BY <1>8
    <3> QED
          BY <3>1, <3>2
  <2>2. Earlier(Turn(l, NodeOf, at[i]), Turn(l, NodeOf, q))
        BY <1>4, <1>8, <2>1
  <2>3. FirstOnNode(at[i]) /\ NodeOf[at[i]] < NodeOf[q]
        BY <1>2, <1>5, <1>7, <2>1, <2>2 DEF Earlier
  <2>4. at[i] \notin 1..m
        BY <1>2, <1>7, <2>1, <2>3
  <2> QED
        BY <2>1, <2>4
<1>10. k - 1 <= n - m
  <2> DEFINE A == 1..(k - 1)
             B == (m + 1)..n
             f == [i \in A |-> at[i]]
  <2>1. f \in [A -> B] /\ \A i \in A : f[i] = at[i]
        BY <1>9
  <2>2. \A i, j \in A : f[i] = f[j] => i = j
    <3>1. A \subseteq 1..n
          BY <1>8
    <3>2. \A i, j \in 1..n : at[i] = at[j] => i = j
          BY <1>4
    <3> HIDE DEF A, f
    <3> QED
          BY <2>1, <3>1, <3>2
  <2>3. f \in Injection(A, B)
    <3> HIDE DEF f, A, B
    <3> QED
        BY <2>1, <2>2 DEF Injection, IsInjective
  <2>4. IsFiniteSet(A) /\ Cardinality(A) = k - 1
        BY IntervalSize
  <2>5. IsFiniteSet(B) /\ Cardinality(B) = n - m
    <3>1. /\ m + 1 \in Int /\ n \in Int
          BY <1>7
    <3>2. IsFiniteSet(B) /\ Cardinality(B) = IF m + 1 > n THEN 0 ELSE n - (m + 1) + 1
          BY <3>1, FS_Interval
    <3> QED
          BY <3>2
  <2> HIDE DEF A, B, f
  <2>6. Cardinality(A) <= Cardinality(B)
        BY <2>3, <2>4, <2>5, FS_Injection
  <2> QED
        BY <2>4, <2>5, <2>6
<1>11. count \in 0..n /\ k \in 1..count
      BY <1>10
<1>12. new[k] = q
      BY <1>1, <1>4, <1>7, <1>8
<1>13. /\ SubSeq(new, 1, count) \in Seq(Nat) /\ Len(SubSeq(new, 1, count)) = count
       /\ SubSeq(new, 1, count)[k] = q
  <2>1. new \in Seq(Nat) /\ Len(new) = n
        BY <1>4
  <2> HIDE DEF count
  <2> QED
        BY <1>11, <1>12, <2>1
<1>14. q \in ToSet(SubSeq(new, 1, count))
  <2> DEFINE sub == SubSeq(new, 1, count)
  <2>1. sub \in Seq(Nat) /\ Len(sub) = count /\ sub[k] = q
        BY <1>13
  <2> HIDE DEF sub, count
  <2>2. k \in DOMAIN sub
        BY <1>11, <2>1
  <2>3. q \in ToSet(sub)
        BY <2>1, <2>2 DEF ToSet
  <2> QED
        BY <2>3 DEF sub
<1> QED
      BY <1>6, <1>14 DEF l

\* With every instance ready, the sorted Endpoints list them in order.
LEMMA AddressesInOrder ==
    ASSUME NEW n \in Nat, 1..n \subseteq Pods, ready = 1..n
    PROVE  Addresses = InOrder(n)
<1> DEFINE all == [p \in Pods |-> p]
           L == Max(Sizes)
           S == 1..n
           step == Keep(S)
           A == Seq(Nat)
           upTo(i) == IF i <= n THEN i ELSE n
           J == [i \in 0..L |-> {InOrder(upTo(i))}]
<1>1. Pods = 1..L /\ L \in Nat
      BY PodsBySize DEF Pods
<1>2. all \in Seq(Nat) /\ Len(all) = L /\ \A i \in 1..L : all[i] = i
      BY <1>1
<1>3. step \in [Nat -> [A -> A]]
      BY DEF Keep
<1>4. n <= L
      BY <1>1
<1>5. <<>> \in A /\ <<>> \in J[0]
      BY <1>1 DEF InOrder
<1>6. ASSUME NEW i \in 1..L, NEW a \in A, a \in J[i - 1] PROVE step[all[i]][a] \in J[i]
  <2>1. i - 1 \in 0..L /\ i \in 0..L /\ i \in Nat /\ all[i] = i
        BY <1>1, <1>2
  <2>2. a = InOrder(upTo(i - 1))
        BY <1>6, <2>1
  <2>3. step[i][a] = IF i \in S THEN Append(a, i) ELSE a
        BY <2>1 DEF Keep
  <2>4. CASE i <= n
    <3>1. upTo(i - 1) = i - 1 /\ upTo(i) = i /\ i \in S
          BY <2>1, <2>4
    <3>2. Append(InOrder(i - 1), i) = InOrder(i)
          BY <2>1 DEF InOrder
    <3> QED
          BY <2>1, <2>2, <2>3, <3>1, <3>2
  <2>5. CASE ~(i <= n)
    <3>1. upTo(i - 1) = n /\ upTo(i) = n /\ i \notin S
          BY <2>1, <2>5
    <3> QED
          BY <2>1, <2>2, <2>3, <3>1
  <2> QED
        BY <2>4, <2>5
<1>7. J[L] = {InOrder(n)}
      BY <1>1, <1>4
<1> HIDE DEF all, step, A, J, L
<1>8. Iterate(step, <<>>, all) \in J[L]
      BY <1>2, <1>3, <1>5, <1>6, IterateInduction
<1> QED
      BY <1>7, <1>8, Zenon DEF Addresses, Among, step, all
-----------------------------------------------------------------------------
(***************************************************************************)
(* The instances through which the commands go.                            *)
(***************************************************************************)
\* A sync that takes up no other instance and begins neither a creation nor an
\* upgrade.
Plain(t) ==
    /\ t.old = s.old \/ t.old = <<>>
    /\ t.pc \notin {"upgrading", "trib"}
    /\ Through(t.pc) => Through(s.pc) /\ t.exist = s.exist

LEMMA PlainHandles ==
    ASSUME NEW n \in Nat, Handles(s, n), NEW t, Plain(t), NEW m \in Nat, n <= m
    PROVE  Handles(t, m)
<1>1. <<>> \in Seq(1..m) /\ 1..n \subseteq 1..m
      OBVIOUS
<1>2. s.old \in Seq(1..m)
      BY <1>1 DEF Handles
<1> QED
      BY <1>1, <1>2 DEF Handles, Plain

LEMMA IdlePlain == Plain(Idle) /\ Plain([Idle EXCEPT !.pc = "hung"])
<1>1. /\ Idle.old = <<>> /\ [Idle EXCEPT !.pc = "hung"].old = <<>>
      /\ Idle.pc = "idle" /\ [Idle EXCEPT !.pc = "hung"].pc = "hung"
      BY DEF Idle
<1> QED
      BY <1>1 DEF Plain, Through

LEMMA StatusPlain ==
    ASSUME NEW phase, NEW reason, NEW addrs, NEW next, DOMAIN next = DOMAIN Idle,
           Plain(next), updateRedisClusterStatus(phase, reason, addrs, next)
    PROVE  Plain(s')
<1>1. s' = Idle \/ s' = next \/ s' = [next EXCEPT !.rc = cr']
      BY Zenon DEF updateRedisClusterStatus
<1>2. CASE s' = [next EXCEPT !.rc = cr']
  <2>1. s'.pc = next.pc /\ s'.old = next.old /\ s'.exist = next.exist
        BY <1>2, IdleFields
  <2> QED
        BY <2>1 DEF Plain
<1> QED
      BY <1>1, <1>2, IdlePlain

LEMMA ReturnPlain ==
    ASSUME NEW phase, NEW reason, NEW addrs, Return(phase, reason, addrs)
    PROVE  Plain(s')
BY IdlePlain, StatusPlain DEF Return

\* The same sync at another step.
LEMMA StepPlain ==
    ASSUME TypeOK, NEW pc, pc \notin {"upgrading", "trib"}, Through(pc) => Through(s.pc)
    PROVE  Plain([s EXCEPT !.pc = pc]) /\ DOMAIN [s EXCEPT !.pc = pc] = DOMAIN Idle
BY SyncFields, IdleFields DEF Plain

LEMMA FailPlain ==
    ASSUME TypeOK, Fail
    PROVE  Plain(s')
BY StepPlain DEF Fail, Through

\* The actions that go on through the same instance or end the sync.
LEMMA OtherPlain ==
    ASSUME TypeOK,
           \/ UpdateCreating \/ ApplyStatefulSet \/ RefuseUpgrade \/ ScaleStatefulSet
           \/ ProbeCluster \/ CreateNodes \/ PlanAdditions \/ AddMaster
           \/ NodesAfterMasters \/ AddSlave \/ GivesSlots
           \/ VerifyNodes \/ UpdateRunning \/ ReportFailure
    PROVE  Plain(s')
<1>1. DOMAIN s = {"pc", "job", "rc", "fresh", "stsSeen", "eps", "old", "exist",
                  "masters", "todoM", "todoS"}
      BY SyncFields
<1>2. ASSUME NEW pc \in {"apply", "wait", "finish"}
      PROVE  Plain([s EXCEPT !.pc = pc]) /\ DOMAIN [s EXCEPT !.pc = pc] = DOMAIN Idle
      BY StepPlain DEF Through
<1>3. CASE UpdateCreating
  <2>1. \/ updateRedisClusterStatus("Creating", FALSE, <<>>, [s EXCEPT !.pc = "apply"])
        \/ s' = Idle
        BY <1>3 DEF UpdateCreating
  <2> QED
        BY <1>2, <2>1, StatusPlain, IdlePlain
<1>4. CASE ApplyStatefulSet
  <2>1. s' = Idle \/ s' = [s EXCEPT !.pc = "wait"]
        BY <1>4 DEF ApplyStatefulSet
  <2> QED
        BY <1>2, <2>1, IdlePlain
<1>5. CASE RefuseUpgrade
  <2>1. (\E p \in ready : Return("Running", TRUE, <<p>>)) \/ s' = Idle
        BY <1>5 DEF RefuseUpgrade
  <2> QED
        BY <2>1, ReturnPlain, IdlePlain
<1>6. CASE ScaleStatefulSet
  <2>1. s' = Idle \/ s' = [s EXCEPT !.pc = "wait"]
        BY <1>6 DEF ScaleStatefulSet
  <2> QED
        BY <1>2, <2>1, IdlePlain
<1>7. CASE ProbeCluster
  <2>1. s' = Idle \/ Return("Failed", TRUE, Addresses) \/ Return("Running", FALSE, Addresses)
        BY <1>7 DEF ProbeCluster
  <2> QED
        BY <2>1, ReturnPlain, IdlePlain
<1>8. CASE CreateNodes
  <2>1. Fail \/ s' = [s EXCEPT !.pc = "addSlaves"]
        BY <1>8 DEF CreateNodes
  <2>2. Plain([s EXCEPT !.pc = "addSlaves"])
        BY <1>8, StepPlain DEF CreateNodes, Through
  <2> QED
        BY <2>1, <2>2, FailPlain
<1>9. CASE PlanAdditions
  <2>1. \/ Fail \/ s' = Idle \/ s' = [Idle EXCEPT !.pc = "hung"]
        \/ \E ms, todo : s' = [s EXCEPT !.pc = "addMasters", !.masters = ms, !.todoM = ms,
                                        !.todoS = todo]
    <3> DEFINE plan == composeMasterSlaveIP(s.eps, NodeOf, Masters(s.exist),
                            Slaves(s.exist), {parent[q] : q \in Slaves(s.exist)})
               next(ms, todo) == [s EXCEPT !.pc = "addMasters", !.masters = ms, !.todoM = ms,
                                           !.todoS = todo]
    <3>1. \/ Fail
          \/ s' = CASE plan.result = "hang" -> [Idle EXCEPT !.pc = "hung"]
                    [] plan.result = "panic" -> Idle
                    [] plan.result = "plan" -> next(plan.masters, Pairs(plan.slaves, plan.parents))
          BY <1>9, Zenon DEF PlanAdditions
    <3>2. plan.result \in {"hang", "panic", "plan"}
          BY DEF composeMasterSlaveIP, NothingToAdd
    <3> HIDE DEF plan, next
    <3>3. \/ Fail \/ s' = Idle \/ s' = [Idle EXCEPT !.pc = "hung"]
          \/ \E ms, todo : s' = next(ms, todo)
          BY <3>1, <3>2
    <3> QED
          BY <3>3, Zenon DEF next
  <2>2. ASSUME NEW ms, NEW todo,
               s' = [s EXCEPT !.pc = "addMasters", !.masters = ms, !.todoM = ms, !.todoS = todo]
        PROVE  Plain(s')
    <3>1. s'.pc = "addMasters" /\ s'.old = s.old /\ s'.exist = s.exist /\ s.pc = "plan"
          BY <1>1, <1>9, <2>2 DEF PlanAdditions
    <3> QED
          BY <3>1 DEF Plain, Through
  <2> QED
        BY <2>1, <2>2, FailPlain, IdlePlain
<1>10. CASE AddMaster
  <2>1. (Fail \/ s' = [s EXCEPT !.todoM = Tail(@)]) /\ s.pc = "addMasters"
        BY <1>10 DEF AddMaster
  <2>2. CASE s' = [s EXCEPT !.todoM = Tail(@)]
    <3>1. s'.pc = s.pc /\ s'.old = s.old /\ s'.exist = s.exist
          BY <1>1, <2>2
    <3> QED
          BY <2>1, <3>1 DEF Plain
  <2> QED
        BY <2>1, <2>2, FailPlain
<1>11. CASE NodesAfterMasters
  <2>1. /\ s.pc = "addMasters"
        /\ \/ Fail \/ s' = [s EXCEPT !.pc = "addSlaves"]
           \/ \E ids, todo : s' = [s EXCEPT !.pc = "addSlaves", !.masters = ids, !.todoS = todo]
    <3> DEFINE next(ids, todo) == [s EXCEPT !.pc = "addSlaves", !.masters = ids, !.todoS = todo]
               todoFor(ids) == [i \in DOMAIN s.todoS |-> <<s.todoS[i][1], ids[i]>>]
    <3>1. /\ s.pc = "addMasters"
          /\ \/ Fail \/ s' = [s EXCEPT !.pc = "addSlaves"]
             \/ \E ids \in NewMasterNodes : s' = next(ids, todoFor(ids))
          BY <1>11 DEF NodesAfterMasters
    <3> HIDE DEF next, todoFor
    <3>2. (\E ids \in NewMasterNodes : s' = next(ids, todoFor(ids)))
            => \E ids, todo : s' = next(ids, todo)
          BY Zenon
    <3> QED
          BY <3>1, <3>2, Zenon DEF next
  <2>2. ASSUME NEW ids, NEW todo,
               s' = [s EXCEPT !.pc = "addSlaves", !.masters = ids, !.todoS = todo]
        PROVE  Plain(s')
    <3>1. s'.pc = "addSlaves" /\ s'.old = s.old /\ s'.exist = s.exist
          BY <1>1, <2>2
    <3> QED
          BY <2>1, <3>1 DEF Plain, Through
  <2>3. Plain([s EXCEPT !.pc = "addSlaves"])
        BY <2>1, StepPlain DEF Through
  <2> QED
        BY <2>1, <2>2, <2>3, FailPlain
<1>12. CASE AddSlave
  <2>1. (Fail \/ s' = [s EXCEPT !.todoS = Tail(@)]) /\ s.pc = "addSlaves"
        BY <1>12 DEF AddSlave
  <2>2. CASE s' = [s EXCEPT !.todoS = Tail(@)]
    <3>1. s'.pc = s.pc /\ s'.old = s.old /\ s'.exist = s.exist
          BY <1>1, <2>2
    <3> QED
          BY <2>1, <3>1 DEF Plain
  <2> QED
        BY <2>1, <2>2, FailPlain
<1>13. CASE GivesSlots
  <2>1. Along(s') => Plain(s')
        BY DEF Along, Plain, Through
  <2> QED
        BY <1>13, <2>1, SlotSteps, FailPlain, IdlePlain
<1>14. CASE VerifyNodes
  <2>1. Fail \/ s' = [s EXCEPT !.pc = "finish"] \/ s' = Idle
        BY <1>14 DEF VerifyNodes
  <2> QED
        BY <1>2, <2>1, FailPlain, IdlePlain
<1>15. CASE UpdateRunning
  <2>1. Return("Running", FALSE, s.eps) \/ s' = Idle
        BY <1>15 DEF UpdateRunning
  <2> QED
        BY <2>1, ReturnPlain, IdlePlain
<1>16. CASE ReportFailure
  <2>1. Return("Failed", TRUE, s.eps) \/ Return("Running", TRUE, s.eps) \/ s' = Idle
        BY <1>16 DEF ReportFailure
  <2> QED
        BY <2>1, ReturnPlain, IdlePlain
<1> QED
      BY <1>3, <1>4, <1>5, <1>6, <1>7, <1>8, <1>9, <1>10, <1>11, <1>12, <1>13, <1>14,
         <1>15, <1>16

\* A list of instances.
LEMMA ListMembers ==
    ASSUME NEW U, NEW l, NEW X \in SUBSET U, Lists(l, X)
    PROVE  l \in Seq(U) /\ (l # <<>> => Head(l) \in X)
<1>1. l \in Seq(Nat) /\ \A i \in 1..Len(l) : l[i] \in X
      BY DEF Lists
<1> QED
      BY <1>1

LEMMA PartOfList ==
    ASSUME NEW U, NEW V, U \subseteq V, NEW l \in Seq(U)
    PROVE  /\ l \in Seq(V) /\ (l # <<>> => Head(l) \in V)
           /\ \A k \in Int : k <= Len(l) => SubSeq(l, 1, k) \in Seq(V)
OBVIOUS

\* There are finitely many conditions.
LEMMA ConditionsFinite == IsFiniteSet(Conditions)
<1> DEFINE H == {0} \cup Pods
           T == Pods \X (H \X BOOLEAN)
           f == [c \in Conditions |-> <<c.pod, <<c.master, c.slots>>>>]
<1>1. IsFiniteSet(Pods) /\ IsFiniteSet(H)
      BY PodsBySize, FS_Singleton, FS_Union
<1>2. IsFiniteSet(BOOLEAN)
  <2>1. IsFiniteSet({TRUE} \cup {FALSE})
        BY FS_Singleton, FS_Union
  <2>2. {TRUE} \cup {FALSE} = BOOLEAN
        BY Zenon
  <2> QED
        BY <2>1, <2>2
<1>3. IsFiniteSet(T)
  <2>1. IsFiniteSet(H \X BOOLEAN)
        BY <1>1, <1>2, FS_Product
  <2> QED
        BY <1>1, <2>1, FS_Product
<1>4. \A c \in Conditions : c.pod \in Pods /\ c.master \in H /\ c.slots \in BOOLEAN
      BY DEF Conditions
<1>5. \A c, d \in Conditions :
         c.pod = d.pod /\ c.master = d.master /\ c.slots = d.slots => c = d
      BY DEF Conditions
<1>6. f \in [Conditions -> T]
  <2> HIDE DEF H
  <2> QED
      BY <1>4
<1>7. \A c, d \in Conditions : f[c] = f[d] => c = d
  <2>1. \A c \in Conditions : f[c] = <<c.pod, <<c.master, c.slots>>>>
        OBVIOUS
  <2> HIDE DEF f
  <2> QED
        BY <1>5, <2>1
<1> HIDE DEF f, T
<1>8. f \in Injection(Conditions, T)
      BY <1>6, <1>7 DEF Injection, IsInjective
<1> QED
      BY <1>3, <1>8, FS_Injection

\* Growth to less than twice the size: less than half of the instances are new.
SlowGrowth == \A m, n \in Sizes : n - m < n \div 2

\* A StatefulSet is not shrunk by a sync.
LEMMA SpecGrows ==
    ASSUME TypeOK, SizeInv, SyncStep
    PROVE  sts.spec <= sts'.spec
<1>1. ~Quiet(s)
      BY SyncMoves
<1>2. sts.spec \in Nat /\ sts.spec <= s.rc.replicas /\ sts \in StatefulSets
      BY <1>1, SizeTypes DEF SizeInv, TypeOK
<1>3. s.rc.replicas \in {0} \cup Sizes
      BY <1>1 DEF TypeOK, SyncType, RedisClusters
<1>4. sts' = sts \/ sts' = [sts EXCEPT !.spec = s.rc.replicas]
      BY StsStep DEF Resized
<1>5. [sts EXCEPT !.spec = s.rc.replicas].spec = s.rc.replicas
      BY <1>2, <1>3, StatefulSetParts, Zenon
<1>6. sts'.spec = sts.spec \/ sts'.spec = s.rc.replicas
      BY <1>4, <1>5, Zenon
<1> QED
      BY <1>2, <1>6

\* Every step of a sync goes through an instance.
LEMMA HandlesStep ==
    ASSUME SlowGrowth, TypeOK, SizeInv, Handles(s, sts.spec), SyncStep
    PROVE  Handles(s', sts'.spec)
<1>1. DOMAIN s = {"pc", "job", "rc", "fresh", "stsSeen", "eps", "old", "exist",
                  "masters", "todoM", "todoS"}
      BY SyncFields
<1>2. /\ sts.spec \in Nat /\ 1..sts.spec \subseteq Pods /\ (~Quiet(s) => s.rc.replicas \in Nat)
      /\ ready \subseteq 1..sts.spec /\ ready \subseteq Pods
      BY SizeTypes DEF TypeOK
<1>3. PICK X \in SUBSET (1..sts.spec) : Lists(s.eps, X)
      BY <1>2 DEF SizeInv, WorkIn
<1> DEFINE n == sts'.spec
<1> SUFFICES Handles(s', n)
    OBVIOUS
<1>0. n \in Nat /\ sts.spec <= n
  <2>1. TypeOK'
        BY StepType DEF Next
  <2>2. sts'.spec \in {0} \cup Sizes
        BY <2>1, StatefulSetParts DEF TypeOK
  <2> QED
        BY <2>2, SpecGrows, PodsBySize
<1>4. s.old \in Seq(1..sts.spec) /\ s.old \in Seq(1..n) /\ 1..sts.spec \subseteq 1..n
  <2>1. s.old \in Seq(1..sts.spec) /\ 1..sts.spec \subseteq 1..n
        BY <1>0, <1>2 DEF Handles
  <2> HIDE DEF n
  <2> QED
        BY <2>1, PartOfList
<1>5. ASSUME Plain(s') PROVE Handles(s', n)
      BY <1>0, <1>2, <1>5, PlainHandles
<1> HIDE DEF n
<1>6. CASE UpdateScaling
  <2> DEFINE t == [s EXCEPT !.pc = "applyScale", !.old = Addresses]
  <2>1. \/ updateRedisClusterStatus("Scaling", FALSE, <<>>, t)
        \/ s' = Idle \/ Return("Failed", TRUE, <<>>) \/ Return("Scaling", FALSE, <<>>)
        BY <1>6 DEF UpdateScaling
  <2>2. t.pc = "applyScale" /\ t.old = Addresses /\ DOMAIN t = DOMAIN s
        BY <1>1
  <2> HIDE DEF t
  <2>3. Addresses \in Seq(1..n)
        BY <1>2, <1>4, AddressesList, ListMembers
  <2>4. CASE s' = t \/ s' = [t EXCEPT !.rc = cr']
    <3>1. s'.pc = t.pc /\ s'.old = t.old
          BY <1>1, <2>2, <2>4
    <3> QED
          BY <2>2, <2>3, <3>1 DEF Handles, Through
  <2>5. CASE updateRedisClusterStatus("Scaling", FALSE, <<>>, t)
    <3>1. s' = Idle \/ s' = t \/ s' = [t EXCEPT !.rc = cr']
          BY <2>5, Zenon DEF updateRedisClusterStatus
    <3> QED
          BY <1>5, <2>4, <3>1, IdlePlain
  <2> QED
        BY <1>5, <2>1, <2>5, ReturnPlain, IdlePlain
<1>7. CASE WaitPodsReady
  <2> DEFINE pc == CASE s.job = "create" -> "trib"
                     [] s.job = "check" -> "classify"
                     [] s.job = "upgrade" -> "upgrading"
  <2>1. /\ s.pc = "wait" /\ sts' = sts
        /\ \/ Fail \/ s' = Idle
           \/ /\ s.job = "upgrade" => s.old # <<>>
              /\ Cardinality(ready) = s.rc.replicas
              /\ s' = [s EXCEPT !.eps = Addresses, !.pc = pc]
        BY <1>7, Zenon DEF WaitPodsReady, stsVars
  <2>2. s.job \in {"create", "check", "upgrade"}
        BY <2>1 DEF TypeOK, SyncType, Belongs
  <2>3. /\ pc \in {"trib", "classify", "upgrading"} /\ (pc = "upgrading" => s.job = "upgrade")
        BY <2>2
  <2> HIDE DEF pc
  <2>4. CASE /\ s.job = "upgrade" => s.old # <<>>
             /\ Cardinality(ready) = s.rc.replicas
             /\ s' = [s EXCEPT !.eps = Addresses, !.pc = pc]
    <3>1. s'.pc = pc /\ s'.old = s.old /\ s'.eps = Addresses
          BY <1>1, <2>4
    <3>2. ~Quiet(s) /\ s.rc.replicas \in Sizes
          BY <2>1 DEF Quiet, TypeOK, SyncType, RedisClusters
    <3>3. sts.spec <= s.rc.replicas
          BY <3>2 DEF SizeInv
    <3>4. ready = 1..sts.spec /\ sts.spec = s.rc.replicas
      <4>1. IsFiniteSet(1..sts.spec) /\ Cardinality(1..sts.spec) = sts.spec
            BY <1>2, IntervalSize
      <4>2. /\ Cardinality(ready) <= Cardinality(1..sts.spec)
            /\ Cardinality(1..sts.spec) = Cardinality(ready) => 1..sts.spec = ready
            BY <1>2, <4>1, FS_Subset
      <4> QED
            BY <1>2, <2>4, <3>2, <3>3, <4>1, <4>2
    <3>5. Addresses = InOrder(sts.spec)
          BY <1>2, <3>4, AddressesInOrder
    <3> QED
          BY <1>4, <2>1, <2>3, <2>4, <3>1, <3>2, <3>4, <3>5 DEF Handles, Through, n
  <2> QED
        BY <1>5, <2>1, <2>4, FailPlain, IdlePlain
<1>8. CASE Classify
  <2> DEFINE subLen == Len(s.eps) - Cardinality(s.rc.status.conds)
             again(pc, job) == [s EXCEPT !.job = job, !.pc = pc, !.eps = <<>>]
             upgrade(pc, job, old) == [s EXCEPT !.job = job, !.pc = pc, !.eps = <<>>, !.old = old]
             repair(pc, job, exist) == [s EXCEPT !.job = job, !.pc = pc, !.exist = exist]
             clustered == getIsClusteredAndOnlyKnownSelfAddress(s.eps).clustered
             old == SubSeq(s.eps, 1, subLen)
  <2>1. \/ Fail \/ s' = Idle \/ s' = again("wait", "create")
        \/ ~(subLen < 0) /\ s' = upgrade("wait", "upgrade", old)
        \/ /\ clustered # <<>>
           /\ \/ s' = repair("plan", "repairCreate", Head(clustered))
              \/ s' = repair("plan", "repairUpgrade", Head(clustered))
        BY <1>8 DEF Classify
  <2>2. \A pc, job : again(pc, job).pc = pc /\ again(pc, job).old = s.old
        BY <1>1
  <2>3. \A pc, job, o : upgrade(pc, job, o).pc = pc /\ upgrade(pc, job, o).old = o
        BY <1>1
  <2>4. \A pc, job, e : /\ repair(pc, job, e).pc = pc /\ repair(pc, job, e).old = s.old
                        /\ repair(pc, job, e).exist = e
        BY <1>1
  <2>5. clustered # <<>> => Head(clustered) \in 1..n
    <3> DEFINE joined == Among(s.eps, {p \in Pods : ~OnlyKnownSelf(p)})
    <3>1. clustered = <<>> \/ clustered = joined
          BY DEF getIsClusteredAndOnlyKnownSelfAddress
    <3>2. Lists(joined, X \cap {p \in Pods : ~OnlyKnownSelf(p)})
          BY <1>3, ListsAmong
    <3> HIDE DEF joined, clustered
    <3> QED
          BY <1>3, <1>4, <3>1, <3>2, ListMembers, PartOfList
  <2>6. ~(subLen < 0) => old \in Seq(1..n)
    <3>1. s.eps \in Seq(1..n)
          BY <1>3, <1>4, ListMembers
    <3>2. Cardinality(s.rc.status.conds) \in Nat
      <4>1. s.rc \in RedisClusters
            BY <1>8 DEF Classify, TypeOK, SyncType, Quiet
      <4>2. s.rc.status.conds \subseteq Conditions
            BY <4>1 DEF RedisClusters
      <4>3. IsFiniteSet(s.rc.status.conds)
            BY <4>2, ConditionsFinite, FS_Subset
      <4> QED
            BY <4>3, FS_CardinalityType
    <3>3. subLen \in Int /\ subLen <= Len(s.eps)
          BY <3>1, <3>2
    <3> HIDE DEF subLen
    <3> QED
          BY <3>1, <3>3, PartOfList
  <2> HIDE DEF again, upgrade, repair, old, clustered, subLen
  <2>7. CASE s' = again("wait", "create")
        BY <1>4, <2>2, <2>7 DEF Handles, Through
  <2>8. CASE ~(subLen < 0) /\ s' = upgrade("wait", "upgrade", old)
        BY <2>3, <2>6, <2>8 DEF Handles, Through
  <2>9. ASSUME clustered # <<>>, NEW job, s' = repair("plan", job, Head(clustered))
        PROVE  Handles(s', n)
        BY <1>4, <2>4, <2>5, <2>9 DEF Handles, Through
  <2> QED
        BY <1>5, <2>1, <2>7, <2>8, <2>9, FailPlain, IdlePlain
<1>9. CASE CreateCluster
  <2> DEFINE a == assignMasterSlaveIP(s.eps, NodeOf)
  <2>1. /\ s.pc = "trib"
        /\ \/ Fail
           \/ s' = [s EXCEPT !.pc = "createNodes", !.exist = Head(a.masters),
                             !.masters = a.masters, !.todoS = Pairs(a.slaves, a.masters)]
        BY <1>9, Zenon DEF CreateCluster
  <2>2. sts.spec \in Sizes /\ s.eps = InOrder(sts.spec)
        BY <2>1 DEF Handles
  <2>3. NewPlan(a, X, Len(s.eps) \div 2)
    <3>1. \A x \in X : NodeOf[x] \in Int
          BY <1>2, <1>3, ReconcileAssumption
    <3> QED
          BY <1>3, <3>1, assignResult
  <2>4. Len(s.eps) \div 2 > 0
    <3>1. Len(s.eps) = sts.spec
          BY <1>2, <2>2 DEF InOrder
    <3> QED
          BY <1>2, <2>2, <3>1 DEF SlowGrowth
  <2> HIDE DEF a
  <2>5. PICK M \in SUBSET X : Lists(a.masters, M) /\ Len(a.masters) = Len(s.eps) \div 2
        BY <2>3 DEF NewPlan
  <2>6. Head(a.masters) \in 1..n
    <3>1. Len(a.masters) > 0
          BY <2>4, <2>5
    <3>2. a.masters # <<>>
          BY <3>1
    <3> QED
          BY <1>3, <1>4, <2>5, <3>2, ListMembers
  <2>7. CASE s' = [s EXCEPT !.pc = "createNodes", !.exist = Head(a.masters),
                            !.masters = a.masters, !.todoS = Pairs(a.slaves, a.masters)]
    <3>1. s'.pc = "createNodes" /\ s'.exist = Head(a.masters) /\ s'.old = s.old
          BY <1>1, <2>7
    <3> QED
          BY <1>4, <2>6, <3>1 DEF Handles
  <2> QED
        BY <1>5, <2>1, <2>7, FailPlain
<1>10. CASE UpdateUpgrading
  <2> DEFINE t == [s EXCEPT !.pc = "plan", !.exist = currentRedisClusterInfo]
             next == IF s.rc.strategy.type = "Other" THEN Idle ELSE t
  <2>1. /\ s.pc = "upgrading"
        /\ updateRedisClusterStatus("Upgrading", FALSE, <<>>, next) \/ s' = Idle
        BY <1>10 DEF UpdateUpgrading
  <2>2. currentRedisClusterInfo \in 1..n
    <3>1. s.old # <<>>
          BY <2>1 DEF Handles
    <3> QED
          BY <1>4, <3>1, PartOfList DEF currentRedisClusterInfo
  <2>3. /\ t.pc = "plan" /\ t.old = s.old /\ t.exist = currentRedisClusterInfo
        /\ DOMAIN t = DOMAIN s
        BY <1>1
  <2> HIDE DEF t
  <2>4. s' = Idle \/ s' = next \/ s' = [next EXCEPT !.rc = cr']
        BY <2>1, Zenon DEF updateRedisClusterStatus
  <2>5. CASE s' = t
        BY <1>4, <2>2, <2>3, <2>5 DEF Handles
  <2>6. CASE s' = [t EXCEPT !.rc = cr']
    <3>1. s'.pc = t.pc /\ s'.old = t.old /\ s'.exist = t.exist
          BY <1>1, <2>3, <2>6
    <3> QED
          BY <1>4, <2>2, <2>3, <3>1 DEF Handles
  <2>7. CASE s' = [Idle EXCEPT !.rc = cr']
    <3>1. s'.pc = "idle" /\ s'.old = <<>>
          BY <2>7 DEF Idle
    <3> QED
          BY <1>5, <3>1 DEF Plain, Through
  <2> QED
        BY <1>5, <2>4, <2>5, <2>6, <2>7, IdlePlain
<1> QED
      BY <1>5, <1>6, <1>7, <1>8, <1>9, <1>10, OtherPlain
      DEF SyncStep, GivesSlots
-----------------------------------------------------------------------------
(***************************************************************************)
(* The instances stay in one cluster.                                      *)
(***************************************************************************)
\* While there are members, the root of the cluster stays.
LEMMA RootStays ==
    ASSUME TypeOK, TypeOK', Rooted, MembersRemain, sts.spec <= sts'.spec,
           NEW p \in Pods, clu[p] # 0
    PROVE  Rooted'
<1>1. PICK n \in Sizes, q \in Pods : n <= sts.spec /\ IsFirst(q, n) /\ clu[q] # 0
      BY DEF Rooted
<1>2. n \in Nat /\ sts.spec \in Nat /\ sts'.spec \in Nat
  <2>1. sts.spec \in {0} \cup Sizes /\ sts'.spec \in {0} \cup Sizes
        BY StatefulSetParts DEF TypeOK
  <2> QED
        BY <2>1, PodsBySize
<1>3. clu'[q] # 0 /\ n <= sts'.spec
      BY <1>1, <1>2 DEF MembersRemain
<1> QED
      BY <1>1, <1>3 DEF Rooted

\* A creation is refused, or there was no cluster.
Founders == ToSet(assignMasterSlaveIP(s.eps, NodeOf).masters)
LEMMA FoundedOnce ==
    ASSUME SlowGrowth, TypeOK, Rooted, Handles(s, sts.spec), Founded
    PROVE  /\ \A p \in Pods : clu[p] = 0
           /\ \A p \in Pods : clu'[p] = IF p \in Founders THEN NewCluster ELSE 0
           /\ \A q : IsFirst(q, sts.spec) => q \in Founders
           /\ sts.spec \in Sizes /\ s.eps = InOrder(sts.spec)
<1> DEFINE n == sts.spec
           N == ToSet(assignMasterSlaveIP(InOrder(n), NodeOf).masters)
<1>1. n \in Sizes /\ s.eps = InOrder(n)
      BY DEF Founded, Handles
<1>2. n \in Nat /\ n \in 1..n /\ 1..n \subseteq Pods
  <2>1. n \in Nat /\ 1..n \subseteq Pods
        BY <1>1, PodsBySize
  <2>2. n # 0
        BY <1>1, ReconcileAssumption
  <2> QED
        BY <2>1, <2>2
<1>3. /\ \A p \in N : clu[p] = 0
      /\ clu' = [p \in Pods |-> IF p \in N THEN NewCluster ELSE clu[p]]
      BY <1>1, Zenon DEF Founded
<1>4. ASSUME NEW m \in Sizes, m <= n, NEW q, IsFirst(q, m) PROVE q \in N
  <2>1. m \in 1..n
        BY <1>2, <1>4, ReconcileAssumption
  <2>2. n - m < n \div 2
        BY <1>1 DEF SlowGrowth
  <2> QED
        BY <1>2, <1>4, <2>1, <2>2, FoundersIncludeFirst
<1> HIDE DEF N
<1>5. \A p \in Pods : clu[p] = 0
      BY <1>3, <1>4 DEF Rooted
<1>6. \A p \in Pods : clu'[p] = IF p \in N THEN NewCluster ELSE 0
      BY <1>3, <1>5
<1>7. \A q : IsFirst(q, n) => q \in N
      BY <1>1, <1>2, <1>4
<1>8. N = Founders
      BY <1>1, Zenon DEF N, Founders
<1> QED
      BY <1>1, <1>5, <1>6, <1>7, <1>8

LEMMA FoundedInv ==
    ASSUME SlowGrowth, TypeOK, Rooted, Handles(s, sts.spec), Founded, sts' = sts
    PROVE  OneCluster' /\ Rooted'
<1> DEFINE n == sts.spec
<1>1. /\ \A p \in Pods : clu'[p] = IF p \in Founders THEN NewCluster ELSE 0
      /\ \A q : IsFirst(q, n) => q \in Founders
      /\ n \in Sizes
      BY FoundedOnce
<1>2. n \in Nat /\ n \in 1..n /\ 1..n \subseteq Pods
  <2>1. n \in Nat /\ 1..n \subseteq Pods
        BY <1>1, PodsBySize
  <2>2. n # 0
        BY <1>1, ReconcileAssumption
  <2> QED
        BY <2>1, <2>2
<1>3. OneCluster'
      BY <1>1 DEF OneCluster, Joined
<1>4. Rooted'
  <2>1. CASE NewCluster = 0
        BY <1>1, <2>1 DEF Rooted
  <2>2. CASE NewCluster # 0
    <3> DEFINE q == Interleaved(InOrder(n), NodeOf)[1]
    <3>1. IsFirst(q, n)
          BY <1>2, InterleavedFirst
    <3> HIDE DEF q
    <3>2. q \in Founders /\ q \in Pods
          BY <1>1, <1>2, <3>1 DEF IsFirst
    <3>3. clu'[q] # 0
          BY <1>1, <2>2, <3>2
    <3>4. n <= sts'.spec
          BY <1>2
    <3> QED
          BY <1>1, <3>1, <3>2, <3>3, <3>4 DEF Rooted
  <2> QED
        BY <2>1, <2>2
<1> QED
      BY <1>3, <1>4

\* Every step keeps the invariant.
LEMMA ClusterInvStep ==
    ASSUME SlowGrowth, TypeOK, TypeOK', SizeInv, ClusterInv, [Next]_vars
    PROVE  ClusterInv'
<1>1. OneCluster /\ Rooted /\ Handles(s, sts.spec) /\ MembersRemain
      BY AllMembersRemain DEF ClusterInv
<1>2. ASSUME OneCluster', Rooted', Handles(s', sts'.spec) PROVE ClusterInv'
      BY <1>2, Zenon DEF ClusterInv, Handles, Through, InOrder
<1>3. CASE SyncStep
  <2>1. Handles(s', sts'.spec)
        BY <1>1, <1>3, HandlesStep
  <2>2. sts.spec <= sts'.spec
        BY <1>3, SpecGrows
  <2>3. CASE clu' = clu
    <3>1. OneCluster'
          BY <1>1, <2>3 DEF OneCluster, Joined
    <3>2. CASE \A p \in Pods : clu[p] = 0
      <4>1. \A p \in Pods : clu'[p] = 0
            BY <2>3, <3>2
      <4>2. Rooted'
            BY <4>1 DEF Rooted
      <4> QED
            BY <1>2, <2>1, <3>1, <4>2
    <3>3. CASE \E p \in Pods : clu[p] # 0
      <4>1. PICK p \in Pods : clu[p] # 0
            BY <3>3
      <4>2. Rooted'
            BY <1>1, <2>2, <4>1, RootStays
      <4> QED
            BY <1>2, <2>1, <3>1, <4>2
    <3> QED
          BY <1>2, <2>1, <3>1, <3>2, <3>3
  <2>4. CASE Founded
    <3>1. s.pc = "trib"
          BY <2>4 DEF Founded
    <3>2. sts' = sts
          BY <1>3, <3>1, StsStep DEF Resized
    <3> QED
          BY <1>1, <1>2, <2>1, <2>4, <3>2, FoundedInv
  <2>5. ASSUME NEW p, NEW m, Grew(p, m) PROVE ClusterInv'
    <3>1. Through(s.pc)
          BY <2>5 DEF Grew, Through
    <3>2. s.exist \in Pods /\ clu[s.exist] # 0
          BY <1>1, <2>5, <3>1, SizeTypes DEF Handles, Grew
    <3>3. clu' = [clu EXCEPT ![p] = clu[s.exist]] /\ DOMAIN clu = Pods
          BY <2>5 DEF Grew, TypeOK
    <3>4. \A q \in Pods : clu'[q] = clu[q] \/ clu'[q] = clu[s.exist]
          BY <3>3
    <3>5. OneCluster'
          BY <1>1, <3>2, <3>4 DEF OneCluster, Joined
    <3>6. Rooted'
          BY <1>1, <2>2, <3>2, RootStays
    <3> QED
          BY <1>2, <2>1, <3>5, <3>6
  <2> QED
        BY <1>3, <2>3, <2>4, <2>5, RedisStep
<1>4. CASE ~SyncStep
  <2>1. clu' = clu /\ sts'.spec = sts.spec
    <3>1. CASE UNCHANGED vars
          BY <3>1 DEF vars, redisVars, stsVars
    <3>2. CASE StartSync
          BY <3>2 DEF StartSync, redisVars, stsVars
    <3>3. CASE PodsCreated
          BY <3>3, StatefulSetParts DEF PodsCreated, redisVars, TypeOK
    <3>4. CASE \/ EditRedisCluster \/ RedisClusterInformed \/ StatefulSetInformed
               \/ PodReady \/ PodUnready \/ ClusterBreaks \/ ClusterHeals \/ Restart
          BY <3>4 DEF EditRedisCluster, RedisClusterInformed, StatefulSetInformed, PodReady,
                      PodUnready, ClusterBreaks, ClusterHeals, Restart, redisVars, stsVars
    <3> QED
          BY <1>4, <3>1, <3>2, <3>3, <3>4 DEF Next, Environment
  <2>2. s' = s \/ Plain(s') \/ (s'.pc = s.pc /\ s'.old = s.old /\ s'.exist = s.exist /\ s'.eps = s.eps)
    <3>1. CASE UNCHANGED vars
          BY <3>1 DEF vars
    <3>2. CASE StartSync
      <4>1. s'.pc \in {"creating", "refuse", "scaling", "probe", "wait"}
            BY <3>2, BeginType
      <4>2. s'.old = <<>>
        <5> DEFINE begin(pc, job) == [Idle EXCEPT !.pc = pc, !.job = job, !.rc = crCache,
                                       !.fresh = cacheFresh, !.stsSeen = (stsCache # NoSts)]
        <5>1. \E pc, job : s' = begin(pc, job)
              BY <3>2, Zenon DEF StartSync
        <5>2. \A pc, job : begin(pc, job).old = <<>>
              BY DEF Idle
        <5> HIDE DEF begin
        <5> QED
              BY <5>1, <5>2
      <4> QED
            BY <4>1, <4>2 DEF Plain, Through
    <3>3. CASE EditRedisCluster
          BY <3>3, SyncFields DEF EditRedisCluster
    <3>4. CASE Restart
          BY <3>4, IdlePlain DEF Restart
    <3>5. CASE \/ RedisClusterInformed \/ StatefulSetInformed \/ PodsCreated \/ PodReady
               \/ PodUnready \/ ClusterBreaks \/ ClusterHeals
          BY <3>5 DEF RedisClusterInformed, StatefulSetInformed, PodReady, PodUnready,
                      PodsCreated, ClusterBreaks, ClusterHeals
    <3> QED
          BY <1>4, <3>1, <3>2, <3>3, <3>4, <3>5 DEF Next, Environment
  <2>3. Handles(s', sts'.spec)
    <3>1. CASE Plain(s')
          BY <1>1, <2>1, <3>1, PlainHandles, SizeTypes
    <3>2. CASE s'.pc = s.pc /\ s'.old = s.old /\ s'.exist = s.exist /\ s'.eps = s.eps
          BY <1>1, <2>1, <3>2 DEF Handles
    <3> QED
          BY <2>2, <3>1, <3>2
  <2>4. OneCluster'
        BY <1>1, <2>1 DEF OneCluster, Joined
  <2>5. Rooted'
        BY <1>1, <2>1 DEF Rooted
  <2> QED
        BY <1>2, <2>3, <2>4, <2>5
<1> QED
      BY <1>3, <1>4

LEMMA InitCluster ==
    ASSUME Init
    PROVE  ClusterInv
<1>1. s = Idle /\ \A p \in Pods : clu[p] = 0
      BY DEF Init
<1>2. s.pc = "idle" /\ s.old = <<>>
      BY <1>1 DEF Idle
<1>3. Handles(s, sts.spec)
      BY <1>2 DEF Handles, Through
<1> QED
      BY <1>1, <1>3 DEF ClusterInv, OneCluster, Joined, Rooted

\* As long as the RedisCluster grows to less than twice its size, and never
\* shrinks, the instances are in one cluster: redis-trib create is refused each
\* time the operator takes a cluster for a new one, over all failures and crashes.
THEOREM ClusterStaysOne ==
    ASSUME ScaleIn = FALSE, SlowGrowth
    PROVE  Spec => []OneCluster
<1>1. Init => ClusterInv
      BY InitCluster
<1>2. ClusterInv => OneCluster
      BY DEF ClusterInv
<1>3. TypeOK /\ TypeOK' /\ SizeInv /\ [Next]_vars => SizeInv'
      BY SizeInvStep
<1>4. TypeOK /\ TypeOK' /\ SizeInv /\ ClusterInv /\ [Next]_vars => ClusterInv'
      BY ClusterInvStep
<1> QED
      BY <1>1, <1>2, <1>3, <1>4, InitType, InitSize, StepType, PTL DEF Spec
=============================================================================
