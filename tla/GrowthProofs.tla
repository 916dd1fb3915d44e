----------------------------- MODULE GrowthProofs -----------------------------
(***************************************************************************)
(* The clusters that Growth builds are balanced and can always be          *)
(* completed, for any nodes, any sizes and any number of partly executed   *)
(* plans.                                                                  *)
(***************************************************************************)
EXTENDS Growth, PlacementProofs

\* What the steps keep: the state of the cluster on the pods 1..n, balanced, and
\* empty as long as it has not been created.
Placed ==
    /\ n \in Sizes /\ n \in Nat \ {0}
    /\ node \in [1..n -> Nodes]
    /\ masters \subseteq 1..n
    /\ slaves \subseteq 1..n
    /\ path = "create" => masters = {} /\ slaves = {}
Inv == Placed /\ TopologyIsBalanced
-----------------------------------------------------------------------------
(***************************************************************************)
(* What holds in a state that satisfies Inv.                               *)
(***************************************************************************)
\* The addresses are the pods.
LEMMA AddressesListed ==
    ASSUME n \in Nat
    PROVE  Lists(addresses, 1..n) /\ Len(addresses) = n
<1>1. addresses \in Seq(Nat) /\ Len(addresses) = n /\ \A i \in 1..n : addresses[i] = i
      BY DEF addresses
<1> HIDE DEF addresses
<1> QED
      BY <1>1 DEF Lists

\* There are as many slaves as masters that have one.
LEMMA SlavesAndMasters ==
    ASSUME Inv
    PROVE  Cardinality(slaves) = Cardinality(having) /\ IsFiniteSet(masters)
<1> DEFINE f == [x \in slaves |-> parent[x]]
<1>1. f \in [slaves -> having] /\ \A x \in slaves : f[x] = parent[x]
      BY DEF having
<1>2. \A h \in having : \E x \in slaves : parent[x] = h
      BY DEF having
<1>3. \A x, y \in slaves : parent[x] = parent[y] => x = y
      BY DEF Inv, TopologyIsBalanced
<1> HIDE DEF f, slaves, having
<1>4. f \in Injection(slaves, having) /\ f \in Surjection(slaves, having)
      BY <1>1, <1>2, <1>3 DEF Injection, IsInjective, Surjection
<1>5. n \in Nat /\ masters \subseteq 1..n /\ having \subseteq masters
      BY DEF Inv, Placed, TopologyIsBalanced
<1>6. IsFiniteSet(masters) /\ IsFiniteSet(having)
  <2>1. IsFiniteSet(1..n)
        BY <1>5, IntervalSize
  <2>2. IsFiniteSet(masters)
        BY <1>5, <2>1, FS_Subset
  <2> QED
        BY <1>5, <2>2, FS_Subset
<1> QED
      BY <1>4, <1>6, FS_Injection

\* The plan of the next sync can be computed and is sound.
LEMMA PlanIsSound ==
    ASSUME Inv
    PROVE  LET new == (1..n) \ clustered
               room == n \div 2 - Cardinality(masters)
           IN  /\ Plan.result = "plan"
               /\ AddPlan(Plan, masters, having, new, room)
               /\ n % 2 = 0 => FullPlan(Plan, masters, having, new, room)
<1> DEFINE l == addresses
           X == 1..n
<1>1. n \in Nat /\ Lists(l, X) /\ Len(l) = n
      BY AddressesListed DEF Inv, Placed
<1>2. \A x \in X : node[x] \in Int
  <2>1. Nodes \subseteq Int
        BY GrowthAssumption
  <2> QED
        BY <2>1 DEF Inv, Placed
<1>3. /\ masters \subseteq X /\ slaves \subseteq X /\ masters \cap slaves = {}
      /\ having \subseteq masters /\ Cardinality(slaves) = Cardinality(having)
      BY SlavesAndMasters DEF Inv, Placed, TopologyIsBalanced
<1>4. Cardinality(masters) <= Len(l) \div 2
      BY <1>1 DEF Inv, TopologyIsBalanced
<1> HIDE DEF l, X
<1> DEFINE p == composeMasterSlaveIP(l, node, masters, slaves, having)
           new == X \ (masters \cup slaves)
           room == Len(l) \div 2 - Cardinality(masters)
<1>5. /\ p.result = "plan" /\ AddPlan(p, masters, having, new, room)
      /\ Len(l) % 2 = 0 => FullPlan(p, masters, having, new, room)
      BY <1>1, <1>2, <1>3, <1>4, composeResult, Zenon
<1> QED
      BY <1>1, <1>5 DEF Plan, clustered, l, X

\* Attach keeps the old slaves and gives each new one a master of its own.
LEMMA AttachResult ==
    ASSUME NEW new, NEW S, Lists(new, S), S \cap slaves = {},
           NEW to, NEW Q, Lists(to, Q), NEW k \in 0..Len(new), k <= Len(to)
    PROVE  LET K == {new[i] : i \in 1..k}
               P == Attach(new, to, k)
           IN  /\ DOMAIN P = slaves \cup K /\ K \subseteq S
               /\ \A x \in slaves : P[x] = parent[x]
               /\ \A x \in K : P[x] \in Q
               /\ \A x, y \in K : P[x] = P[y] => x = y
<1> DEFINE K == {new[i] : i \in 1..k}
           P == Attach(new, to, k)
           at(x) == CHOOSE i \in 1..k : new[i] = x
<1>1. P = [x \in slaves \cup K |-> IF x \in slaves THEN parent[x] ELSE to[at(x)]]
      BY DEF Attach
<1>2. Len(new) \in Nat /\ Len(to) \in Nat
      BY DEF Lists
<1>3. \A i \in 1..k : i \in 1..Len(new) /\ i \in 1..Len(to)
      BY <1>2
<1>4. K \subseteq S
      BY <1>3 DEF Lists
<1>5. \A x \in K : at(x) \in 1..k /\ new[at(x)] = x
      OBVIOUS
<1> HIDE DEF at, P, K, slaves
<1>6. DOMAIN P = slaves \cup K /\ \A x \in slaves : P[x] = parent[x]
      BY <1>1
<1>7. \A x \in K : P[x] = to[at(x)]
      BY <1>1, <1>4
<1>8. \A x \in K : P[x] \in Q
      BY <1>3, <1>5, <1>7 DEF Lists
<1>9. ASSUME NEW x \in K, NEW y \in K, P[x] = P[y] PROVE x = y
  <2>1. at(x) \in 1..Len(to) /\ at(y) \in 1..Len(to) /\ to[at(x)] = to[at(y)]
        BY <1>3, <1>5, <1>7, <1>9
  <2>2. at(x) = at(y)
        BY <2>1 DEF Lists
  <2> QED
        BY <1>5, <2>2
<1> QED
      BY <1>4, <1>6, <1>8, <1>9 DEF P, K
-----------------------------------------------------------------------------
(***************************************************************************)
(* The steps.                                                              *)
(***************************************************************************)
\* A cluster with more masters and slaves, each new slave with a master that
\* had none, is balanced again.
LEMMA ExtendKeepsBalance ==
    ASSUME Inv, NEW M, M \subseteq (1..n) \ clustered, NEW K, K \subseteq (1..n) \ (clustered \cup M),
           masters' = masters \cup M, Cardinality(masters') <= n \div 2,
           DOMAIN parent' = slaves \cup K, \A x \in slaves : parent'[x] = parent[x],
           \A x \in K : parent'[x] \in (masters \cup M) \ having,
           \A x, y \in K : parent'[x] = parent'[y] => x = y,
           n' = n, node' = node, path' # "create"
    PROVE  Inv'
<1>1. slaves' = slaves \cup K
      BY DEF slaves
<1>2. \A x \in slaves : parent[x] \in having
      BY DEF having
<1>3. /\ \A x, y \in slaves : parent[x] = parent[y] => x = y
      /\ having \subseteq masters /\ masters \cap slaves = {}
      BY DEF Inv, TopologyIsBalanced
<1>4. M \cap slaves = {} /\ K \cap slaves = {} /\ K \cap masters = {} /\ K \cap M = {}
      BY DEF clustered
<1>5. /\ n \in Sizes /\ n \in Nat \ {0} /\ node \in [1..n -> Nodes] /\ masters \subseteq 1..n
      /\ slaves \subseteq 1..n
      BY DEF Inv, Placed
<1>6. having' = {parent'[x] : x \in slaves'}
      BY DEF having
<1> HIDE DEF slaves, having, clustered
<1>7. having' \subseteq masters'
  <2> SUFFICES ASSUME NEW x \in slaves \cup K PROVE parent'[x] \in masters'
      BY <1>1, <1>6
  <2> QED
        BY <1>2, <1>3
<1>8. \A x, y \in slaves' : parent'[x] = parent'[y] => x = y
  <2> SUFFICES ASSUME NEW x \in slaves \cup K, NEW y \in slaves \cup K, parent'[x] = parent'[y]
               PROVE  x = y
      BY <1>1
  <2>1. CASE x \in slaves /\ y \in slaves
        BY <1>3, <2>1
  <2>2. CASE x \in K /\ y \in K
        BY <2>2
  <2>3. CASE x \in slaves /\ y \in K
        BY <1>2, <2>3
  <2>4. CASE x \in K /\ y \in slaves
        BY <1>2, <2>4
  <2> QED
        BY <2>1, <2>2, <2>3, <2>4
<1>9. masters' \cap slaves' = {}
      BY <1>1, <1>3, <1>4
<1>10. TopologyIsBalanced'
      BY <1>7, <1>8, <1>9 DEF TopologyIsBalanced
<1>11. Placed'
      BY <1>1, <1>5 DEF Placed
<1> QED
      BY <1>10, <1>11 DEF Inv

\* The part of a plan that is carried out: the first j masters, and slaves only
\* after all of them.
LEMMA PlanKeepsInv ==
    ASSUME Inv, Plan.result = "plan", path # "create",
           NEW to, NEW j \in 0..Len(Plan.masters), NEW k \in 0..Len(Plan.slaves),
           k > 0 => j = Len(Plan.masters),
           k > 0 => to = Plan.parents \/ (to = Plan.masters /\ Len(Plan.slaves) = j),
           masters' = masters \cup {Plan.masters[i] : i \in 1..j},
           parent' = Attach(Plan.slaves, to, k),
           n' = n, node' = node, path' # "create"
    PROVE  Inv'
<1> DEFINE new == (1..n) \ clustered
           p == Plan
           N == {p.masters[i] : i \in 1..j}
           K == {p.slaves[i] : i \in 1..k}
<1>1. AddPlan(p, masters, having, new, n \div 2 - Cardinality(masters))
      BY PlanIsSound
<1> HIDE DEF p, new
<1>2. PICK M \in SUBSET new : \E S \in SUBSET (new \ M) :
         \E Q \in SUBSET ((masters \cup M) \ having) :
            /\ Lists(p.masters, M) /\ Len(p.masters) <= n \div 2 - Cardinality(masters)
            /\ Lists(p.slaves, S) /\ Lists(p.parents, Q) /\ Len(p.parents) = Len(p.slaves)
      BY <1>1 DEF AddPlan
<1>3. PICK S \in SUBSET (new \ M) : \E Q \in SUBSET ((masters \cup M) \ having) :
            /\ Lists(p.masters, M) /\ Len(p.masters) <= n \div 2 - Cardinality(masters)
            /\ Lists(p.slaves, S) /\ Lists(p.parents, Q) /\ Len(p.parents) = Len(p.slaves)
      BY <1>2
<1>4. PICK Q \in SUBSET ((masters \cup M) \ having) :
            /\ Lists(p.masters, M) /\ Len(p.masters) <= n \div 2 - Cardinality(masters)
            /\ Lists(p.slaves, S) /\ Lists(p.parents, Q) /\ Len(p.parents) = Len(p.slaves)
      BY <1>3
<1>5. /\ n \in Nat /\ n \div 2 \in Nat /\ masters \cap new = {} /\ slaves \cap new = {}
      /\ new \subseteq 1..n /\ having \subseteq masters
      BY DEF Inv, Placed, TopologyIsBalanced, new, clustered
<1>6. Len(p.masters) \in Nat /\ Len(p.slaves) \in Nat /\ j \in Nat /\ k \in Nat
      BY <1>4, ListsSize DEF p
<1>7. N \subseteq M /\ (j = Len(p.masters) => N = M)
  <2>1. \A i \in 1..j : i \in 1..Len(p.masters)
        BY <1>6 DEF p
  <2>2. /\ \A i \in 1..Len(p.masters) : p.masters[i] \in M
        /\ \A x \in M : \E i \in 1..Len(p.masters) : p.masters[i] = x
        BY <1>4 DEF Lists
  <2> HIDE DEF p
  <2>3. N \subseteq M
    <3>1. \A i \in 1..j : p.masters[i] \in M
          BY <2>1, <2>2
    <3> QED
          BY <3>1, Zenon
  <2>4. j = Len(p.masters) => M \subseteq N
        BY <2>2, Zenon
  <2> QED
        BY <2>3, <2>4
<1>8. Cardinality(masters') <= n \div 2
  <2>1. IsFiniteSet(M) /\ Cardinality(M) = Len(p.masters) /\ IsFiniteSet(masters)
        BY <1>4, ListsSize, SlavesAndMasters
  <2>2. IsFiniteSet(N) /\ Cardinality(N) <= Cardinality(M)
    <3> HIDE DEF N
    <3> QED
        BY <1>7, <2>1, FS_Subset
  <2>3. masters \cap N = {}
        BY <1>5, <1>7
  <2> HIDE DEF N
  <2>4. Cardinality(masters \cup N) = Cardinality(masters) + Cardinality(N) - Cardinality({})
        BY <2>1, <2>2, <2>3, FS_Union
  <2>5. Cardinality(masters) \in Nat /\ Cardinality(N) \in Nat /\ Cardinality({}) = 0
        BY <2>1, <2>2, FS_CardinalityType, FS_EmptySet
  <2>6. masters' = masters \cup N
        BY DEF N, p
  <2> QED
    <3> DEFINE c == Cardinality(masters)
               d == Cardinality(N)
               e == Len(p.masters)
               h == n \div 2
    <3>1. c \in Nat /\ d \in Nat /\ e \in Nat /\ h \in Nat /\ d <= e /\ e <= h - c
          BY <1>4, <1>5, <1>6, <2>1, <2>2, <2>5
    <3>2. Cardinality(masters') = c + d - 0
          BY <2>4, <2>5, <2>6
    <3> HIDE DEF c, d, e, h
    <3>3. c + d - 0 <= h
          BY <3>1
    <3> QED
          BY <3>2, <3>3 DEF h
<1>9. CASE k = 0
  <2>1. parent' = [x \in slaves |-> parent[x]]
    <3>1. {p.slaves[i] : i \in 1..k} = {}
          BY <1>9
    <3> QED
          BY <3>1 DEF Attach, p
  <2>2. DOMAIN parent' = slaves \cup {} /\ \A x \in slaves : parent'[x] = parent[x]
        BY <2>1
  <2>3. N \subseteq (1..n) \ clustered /\ masters' = masters \cup N
        BY <1>7 DEF new, p
  <2> HIDE DEF N
  <2> DEFINE E == {}
  <2>4. /\ E \subseteq (1..n) \ (clustered \cup N) /\ DOMAIN parent' = slaves \cup E
        /\ \A x \in E : parent'[x] \in (masters \cup N) \ having
        /\ \A x, y \in E : parent'[x] = parent'[y] => x = y
        BY <2>2
  <2> HIDE DEF E
  <2> QED
        BY <1>8, <2>2, <2>3, <2>4, ExtendKeepsBalance
<1>10. CASE k > 0
  <2>1. N = M /\ masters' = masters \cup M
        BY <1>7, <1>10 DEF p
  <2>2. PICK R \in SUBSET ((masters \cup M) \ having) : Lists(to, R) /\ k <= Len(to)
    <3>1. CASE to = p.parents
          BY <1>4, <1>6, <3>1 DEF p
    <3>2. CASE to = p.masters /\ Len(p.slaves) = j
      <4>1. M \in SUBSET ((masters \cup M) \ having)
            BY <1>5
      <4>2. k <= Len(p.masters)
            BY <1>6, <1>10, <3>2 DEF p
      <4> QED
            BY <1>4, <3>2, <4>1, <4>2
    <3> QED
          BY <1>10, <3>1, <3>2 DEF p
  <2>3. S \cap slaves = {}
        BY <1>5
  <2>4. k \in 0..Len(p.slaves)
        BY DEF p
  <2>5. /\ DOMAIN parent' = slaves \cup K /\ K \subseteq S
        /\ \A x \in slaves : parent'[x] = parent[x]
        /\ \A x \in K : parent'[x] \in R
        /\ \A x, y \in K : parent'[x] = parent'[y] => x = y
    <3> DEFINE P == Attach(p.slaves, to, k)
    <3>1. parent' = P
          BY DEF p
    <3>2. /\ DOMAIN P = slaves \cup K /\ K \subseteq S
          /\ \A x \in slaves : P[x] = parent[x]
          /\ \A x \in K : P[x] \in R
          /\ \A x, y \in K : P[x] = P[y] => x = y
          BY <1>4, <2>2, <2>3, <2>4, AttachResult, Zenon
    <3> HIDE DEF P, K
    <3> QED
          BY <3>1, <3>2
  <2> HIDE DEF K
  <2>6. M \subseteq (1..n) \ clustered /\ K \subseteq (1..n) \ (clustered \cup M)
        BY <2>5 DEF new
  <2>7. \A x \in K : parent'[x] \in (masters \cup M) \ having
        BY <2>2, <2>5
  <2> QED
        BY <1>8, <2>1, <2>5, <2>6, <2>7, ExtendKeepsBalance
<1> QED
      BY <1>6, <1>9, <1>10

\* Init is one of these states.
LEMMA InitInv == Init => Inv
<1> SUFFICES ASSUME Init PROVE Inv
    OBVIOUS
<1>1. n \in Sizes /\ n \in Nat \ {0}
  <2>1. Sizes \subseteq Nat /\ Sizes # {} /\ 0 \notin Sizes
        BY GrowthAssumption
  <2>2. Min(Sizes) \in Sizes
        BY <2>1, MinNat
  <2> QED
        BY <2>1, <2>2 DEF Init
<1>2. masters = {} /\ slaves = {} /\ node \in [1..n -> Nodes]
      BY DEF Init, slaves
<1>3. having = {}
      BY <1>2 DEF having
<1>4. Cardinality(masters) <= n \div 2
      BY <1>1, <1>2, FS_EmptySet
<1>5. Placed
      BY <1>1, <1>2 DEF Placed
<1>6. TopologyIsBalanced
      BY <1>2, <1>3, <1>4 DEF TopologyIsBalanced
<1> QED
      BY <1>5, <1>6 DEF Inv

\* Creation.
LEMMA CreateKeepsInv == Inv /\ createAndInitRedisCluster => Inv'
<1> SUFFICES ASSUME Inv, createAndInitRedisCluster PROVE Inv'
    OBVIOUS
<1> DEFINE a == assignMasterSlaveIP(addresses, node)
           X == 1..n
<1>1. n \in Nat /\ masters = {} /\ slaves = {} /\ n \div 2 \in Nat
      BY DEF Inv, Placed, createAndInitRedisCluster
<1>2. having = {} /\ clustered = {}
      BY <1>1 DEF having, clustered
<1>3. PICK k \in 0..Len(a.slaves) : /\ masters' = ToSet(a.masters)
                                   /\ parent' = Attach(a.slaves, a.masters, k)
      BY Zenon DEF createAndInitRedisCluster
<1>4. path' = "repair" /\ n' = n /\ node' = node
      BY DEF createAndInitRedisCluster
<1>5. NewPlan(a, X, n \div 2)
  <2>1. Lists(addresses, X) /\ Len(addresses) = n
        BY <1>1, AddressesListed
  <2>2. \A x \in X : node[x] \in Int
    <3>1. Nodes \subseteq Int
          BY GrowthAssumption
    <3> QED
          BY <3>1 DEF Inv, Placed
  <2> HIDE DEF X
  <2>3. NewPlan(a, X, Len(addresses) \div 2)
        BY <2>1, <2>2, assignResult
  <2> QED
        BY <2>1, <2>3
<1> HIDE DEF a
<1>6. PICK M \in SUBSET X : \E S \in SUBSET (X \ M) :
         /\ Lists(a.masters, M) /\ Len(a.masters) = n \div 2
         /\ Lists(a.slaves, S) /\ Len(a.slaves) = n \div 2
      BY <1>5 DEF NewPlan
<1>7. PICK S \in SUBSET (X \ M) :
         /\ Lists(a.masters, M) /\ Len(a.masters) = n \div 2
         /\ Lists(a.slaves, S) /\ Len(a.slaves) = n \div 2
      BY <1>6
<1>8. masters' = masters \cup M /\ Cardinality(masters') <= n \div 2
  <2>1. masters' = M /\ Cardinality(M) = n \div 2
        BY <1>3, <1>7, ListsToSet, ListsSize
  <2> QED
        BY <1>1, <2>1
<1> DEFINE K == {a.slaves[i] : i \in 1..k}
           P == Attach(a.slaves, a.masters, k)
<1>9. /\ DOMAIN P = slaves \cup K /\ K \subseteq S
      /\ \A x \in slaves : P[x] = parent[x]
      /\ \A x \in K : P[x] \in M
      /\ \A x, y \in K : P[x] = P[y] => x = y
  <2>1. S \cap slaves = {} /\ k <= Len(a.masters)
        BY <1>1, <1>7
  <2>2. k \in 0..Len(a.slaves)
        OBVIOUS
  <2> QED
        BY <1>7, <2>1, <2>2, AttachResult, Zenon
<1> HIDE DEF K, P
<1>10. /\ DOMAIN parent' = slaves \cup K /\ \A x \in slaves : parent'[x] = parent[x]
       /\ \A x \in K : parent'[x] \in (masters \cup M) \ having
       /\ \A x, y \in K : parent'[x] = parent'[y] => x = y
  <2>1. parent' = P
        BY <1>3 DEF P
  <2> QED
        BY <1>2, <1>9, <2>1
<1>11. M \subseteq (1..n) \ clustered /\ K \subseteq (1..n) \ (clustered \cup M)
      BY <1>2, <1>9
<1>12. path' # "create"
      BY <1>4
<1> QED
      BY <1>4, <1>8, <1>10, <1>11, <1>12, ExtendKeepsBalance

\* More instances.
LEMMA GrowKeepsInv == Inv /\ Grow => Inv'
<1> SUFFICES ASSUME Inv, Grow PROVE Inv'
    OBVIOUS
<1>1. PICK m \in Sizes : /\ m > n /\ n' = m
                         /\ \E new \in [(n + 1)..m -> Nodes] :
                               node' = [p \in 1..m |-> IF p <= n THEN node[p] ELSE new[p]]
      BY DEF Grow
<1>2. PICK new \in [(n + 1)..m -> Nodes] :
         node' = [p \in 1..m |-> IF p <= n THEN node[p] ELSE new[p]]
      BY <1>1
<1>3. n \in Nat \ {0} /\ m \in Nat \ {0}
      BY GrowthAssumption DEF Inv, Placed
<1>4. masters' = masters /\ parent' = parent /\ path' = "upgrade"
      BY DEF Grow
<1>5. slaves' = slaves /\ having' = having
      BY <1>4 DEF slaves, having
<1>6. node' \in [1..n' -> Nodes]
  <2>1. \A p \in 1..m : p <= n => p \in 1..n
        BY <1>3
  <2>2. \A p \in 1..m : ~(p <= n) => p \in (n + 1)..m
        BY <1>3
  <2> QED
        BY <1>1, <1>2, <2>1, <2>2 DEF Inv, Placed
<1>7. \A p \in 1..n : p \in 1..m
      BY <1>1, <1>3
<1>8. Placed'
      BY <1>1, <1>3, <1>4, <1>5, <1>6, <1>7 DEF Inv, Placed
<1>9. Cardinality(masters) <= m \div 2
  <2>1. IsFiniteSet(masters)
        BY SlavesAndMasters
  <2>2. Cardinality(masters) \in Nat
        BY <2>1, FS_CardinalityType
  <2>3. Cardinality(masters) <= n \div 2
        BY DEF Inv, TopologyIsBalanced
  <2> QED
        BY <1>1, <1>3, <2>2, <2>3
<1>10. TopologyIsBalanced'
      BY <1>1, <1>4, <1>5, <1>9 DEF Inv, TopologyIsBalanced
<1> QED
      BY <1>8, <1>10 DEF Inv

\* An upgrade carried out in part or in full.
LEMMA ScaleKeepsInv == Inv /\ scaleRedisCluster => Inv'
<1> SUFFICES ASSUME Inv, scaleRedisCluster PROVE Inv'
    OBVIOUS
<1>1. /\ path = "upgrade" /\ Plan.result = "plan" /\ path' = "repair"
      /\ n' = n /\ node' = node
      BY DEF scaleRedisCluster
<1>2. PICK j \in 0..Len(Plan.masters), k \in 0..Len(Plan.slaves) :
             /\ k > 0 => j = Len(Plan.masters) /\ Len(Plan.slaves) = j
             /\ masters' = masters \cup {Plan.masters[i] : i \in 1..j}
             /\ parent' = Attach(Plan.slaves, Plan.masters, k)
      BY Zenon DEF scaleRedisCluster
<1>3. path # "create" /\ path' # "create"
      BY <1>1
<1> DEFINE to == Plan.masters
<1>4. k > 0 => to = Plan.parents \/ (to = Plan.masters /\ Len(Plan.slaves) = j)
      BY <1>2
<1>5. parent' = Attach(Plan.slaves, to, k)
      BY <1>2
<1> HIDE DEF to
<1> QED
      BY <1>1, <1>2, <1>3, <1>4, <1>5, PlanKeepsInv

\* A repair carried out in part or in full.
LEMMA RepairKeepsInv == Inv /\ checkAndUpdateRedisClusterStatus => Inv'
<1> SUFFICES ASSUME Inv, checkAndUpdateRedisClusterStatus PROVE Inv'
    OBVIOUS
<1>1. /\ path = "repair" /\ Plan.result = "plan" /\ path' = path
      /\ n' = n /\ node' = node
      BY DEF checkAndUpdateRedisClusterStatus
<1>2. PICK j \in 0..Len(Plan.masters), k \in 0..Len(Plan.slaves) :
             /\ k > 0 => j = Len(Plan.masters)
             /\ masters' = masters \cup {Plan.masters[i] : i \in 1..j}
             /\ parent' = Attach(Plan.slaves, Plan.parents, k)
      BY Zenon DEF checkAndUpdateRedisClusterStatus
<1>3. path # "create" /\ path' # "create"
      BY <1>1
<1> DEFINE to == Plan.parents
<1>4. k > 0 => to = Plan.parents \/ (to = Plan.masters /\ Len(Plan.slaves) = j)
      BY <1>2
<1>5. parent' = Attach(Plan.slaves, to, k)
      BY <1>2
<1> HIDE DEF to
<1> QED
      BY <1>1, <1>2, <1>3, <1>4, <1>5, PlanKeepsInv

LEMMA NextInv == Inv /\ [Next]_vars => Inv'
<1> SUFFICES ASSUME Inv, [Next]_vars PROVE Inv'
    OBVIOUS
<1>1. CASE UNCHANGED vars
  <2>1. n' = n /\ node' = node /\ masters' = masters /\ parent' = parent /\ path' = path
        BY <1>1 DEF vars
  <2>2. slaves' = slaves /\ having' = having
        BY <2>1 DEF slaves, having
  <2> QED
        BY <2>1, <2>2 DEF Inv, Placed, TopologyIsBalanced
<1> QED
      BY <1>1, CreateKeepsInv, GrowKeepsInv, ScaleKeepsInv, RepairKeepsInv DEF Next
-----------------------------------------------------------------------------
\* The inductive invariant.
THEOREM GrowthInvariant == Spec => []Inv
<1> QED
      BY InitInv, NextInv, PTL DEF Spec

\* For any nodes and sizes, whatever part of each plan was carried out: no master
\* has two slaves, every slave's parent is a master, and half of the instances
\* at most are masters.
THEOREM GrowthIsBalanced == Spec => []TopologyIsBalanced
<1>1. Inv => TopologyIsBalanced
      BY DEF Inv
<1> QED
      BY <1>1, GrowthInvariant, PTL

\* The next plan can always be computed: the index of the second pass stays
\* inside its list and the loop over the nodes comes to an end.
THEOREM GrowthPlans == Spec => [](Plan.result = "plan")
<1>1. Inv => Plan.result = "plan"
      BY PlanIsSound
<1> QED
      BY <1>1, GrowthInvariant, PTL

\* With an even number of instances, from every partly executed plan the next one
\* completes the cluster.  (With an odd number one instance is always left over.)
THEOREM GrowthCompletes ==
    ASSUME \A m \in Sizes : m % 2 = 0
    PROVE  Spec => []PlanCompletes
<1>1. ASSUME Inv PROVE PlanCompletes
  <2> DEFINE p == Plan
             new == (1..n) \ clustered
             room == n \div 2 - Cardinality(masters)
  <2>1. n % 2 = 0
        BY <1>1 DEF Inv, Placed
  <2>2. p.result = "plan" /\ FullPlan(p, masters, having, new, room)
        BY <1>1, <2>1, PlanIsSound
  <2>3. AddPlan(p, masters, having, new, room)
        BY <1>1, PlanIsSound
  <2> HIDE DEF p
  <2>4. PICK M \in SUBSET new : \E Q \in SUBSET (masters \cup M) :
           /\ Lists(p.masters, M) /\ Len(p.masters) = room
           /\ Lists(p.slaves, new \ M) /\ Lists(p.parents, Q) /\ having \cup Q = masters \cup M
        BY <2>2 DEF FullPlan
  <2>5. PICK Q \in SUBSET (masters \cup M) :
           /\ Lists(p.masters, M) /\ Len(p.masters) = room
           /\ Lists(p.slaves, new \ M) /\ Lists(p.parents, Q) /\ having \cup Q = masters \cup M
        BY <2>4
  <2>6. ToSet(p.masters) = M /\ ToSet(p.slaves) = new \ M /\ ToSet(p.parents) = Q
        BY <2>5, ListsToSet
  <2>7. Len(p.slaves) = Len(p.parents)
        BY <2>3, Zenon DEF AddPlan
  <2>8. Cardinality(masters) + Len(p.masters) = n \div 2
    <3>1. Cardinality(masters) \in Nat /\ n \div 2 \in Nat
          BY <1>1, SlavesAndMasters, FS_CardinalityType DEF Inv, Placed
    <3> QED
          BY <2>5, <3>1
  <2>9. clustered \subseteq 1..n
        BY <1>1 DEF Inv, Placed, clustered
  <2>10. clustered \cup M \cup (new \ M) = 1..n
        BY <2>9
  <2> QED
        BY <2>2, <2>5, <2>6, <2>7, <2>8, <2>10 DEF PlanCompletes, p
<1> QED
      BY <1>1, GrowthInvariant, PTL

\* The masters of a new cluster are on as many nodes as possible: on different
\* nodes, or on every node that has an instance.
THEOREM GrowthIsSpread == Spec => []MastersAreSpread
<1>1. ASSUME Inv PROVE MastersAreSpread
  <2> DEFINE a == assignMasterSlaveIP(addresses, node)
             new == Interleaved(addresses, node)
             c == n \div 2
             M == {new[i] : i \in 1..c}
             X == 1..n
  <2>1. n \in Nat /\ Lists(addresses, X) /\ Len(addresses) = n
        BY <1>1, AddressesListed DEF Inv, Placed
  <2>2. \A x \in X : node[x] \in Int
    <3>1. Nodes \subseteq Int
          BY GrowthAssumption
    <3> QED
          BY <1>1, <3>1 DEF Inv, Placed
  <2>3. c \in 0..Len(addresses) /\ c \in Nat
        BY <2>1
  <2> HIDE DEF X, c
  <2>4. Lists(new, X) /\ Len(new) = n
        BY <2>1, <2>2, ListsInterleaved
  <2>5. Lists(a.masters, M) /\ Len(a.masters) = c /\ M \subseteq X
    <3>1. a.masters = SubSeq(new, 1, c)
          BY <2>1 DEF assignMasterSlaveIP, c
    <3>2. c \in 0..Len(new)
          BY <2>1, <2>3, <2>4
    <3> HIDE DEF new, a
    <3>3. Lists(SubSeq(new, 1, c), M) /\ Len(SubSeq(new, 1, c)) = c /\ M \subseteq X
          BY <2>4, <3>2, ListsCut, Zenon
    <3> QED
          BY <3>1, <3>3
  <2>6. ToSet(a.masters) = M
        BY <2>5, ListsToSet
  <2> HIDE DEF a, new
  <2> DEFINE g == [i \in 1..c |-> node[new[i]]]
  <2>7. CASE \A i, j \in 1..c : node[new[i]] = node[new[j]] => i = j
    <3>1. g \in [1..c -> NodesOf(M)] /\ \A i \in 1..c : g[i] = node[new[i]]
          BY DEF NodesOf
    <3>2. \A v \in NodesOf(M) : \E i \in 1..c : g[i] = v
          BY DEF NodesOf
    <3> HIDE DEF g
    <3>3. g \in Injection(1..c, NodesOf(M)) /\ g \in Surjection(1..c, NodesOf(M))
          BY <2>7, <3>1, <3>2 DEF Injection, IsInjective, Surjection
    <3>4. ExistsBijection(1..c, NodesOf(M))
          BY <3>3, Zenon DEF ExistsBijection, Bijection
    <3>5. Cardinality(NodesOf(M)) = c
          BY <2>3, <3>4, FS_CountingElements, FS_NatBijection
    <3> QED
          BY <2>5, <2>6, <3>5 DEF MastersAreSpread, a
  <2>8. CASE \A x \in X : \E i \in 1..c : node[new[i]] = node[x]
    <3>1. NodesOf(M) = NodesOf(X)
      <4>1. NodesOf(M) \subseteq NodesOf(X)
            BY <2>5 DEF NodesOf
      <4>2. NodesOf(X) \subseteq NodesOf(M)
            BY <2>8 DEF NodesOf
      <4> QED
            BY <4>1, <4>2
    <3> QED
          BY <2>6, <3>1 DEF MastersAreSpread, a, X
  <2>9. \/ \A i, j \in 1..c : node[new[i]] = node[new[j]] => i = j
        \/ \A x \in X : \E i \in 1..c : node[new[i]] = node[x]
    <3> SUFFICES ASSUME NEW x \in X, \A i \in 1..c : node[new[i]] # node[x],
                        NEW i \in 1..c, NEW j \in 1..c, node[new[i]] = node[new[j]]
                 PROVE  i = j
        OBVIOUS
    <3> QED
        BY <2>1, <2>2, <2>3, InterleavedIsSpread DEF new
  <2> QED
        BY <2>7, <2>8, <2>9
<1> QED
      BY <1>1, GrowthInvariant, PTL
=============================================================================
