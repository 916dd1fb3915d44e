---------------------------- MODULE PlacementProofs ----------------------------
(***************************************************************************)
(* Facts about the operators of Placement, for any number of instances and *)
(* nodes.  Induction is over sets of natural numbers (Induction, from the  *)
(* well-foundedness of <).                                                 *)
(***************************************************************************)
EXTENDS Placement, FiniteSetTheorems, TLAPS

\* Induction: a set that has 0 and the successor of each of its numbers has all
\* natural numbers.
LEMMA Induction ==
    ASSUME NEW T, 0 \in T, \A i \in Nat : i \in T => i + 1 \in T
    PROVE  \A i \in Nat : i \in T
<1> DEFINE U == Nat \ T
<1> SUFFICES ASSUME U # {} PROVE FALSE
    OBVIOUS
<1>1. PICK x \in U : \A y \in U : <<y, x>> \notin OpToRel(<, Nat)
      BY WFMin, NatLessThanWellFounded, Zenon
<1>2. x \in Nat /\ x # 0
      OBVIOUS
<1>3. x - 1 \in Nat /\ x = (x - 1) + 1 /\ x - 1 < x
      BY <1>2
<1>4. x - 1 \in U
      BY <1>3
<1>5. <<x - 1, x>> \in OpToRel(<, Nat)
      BY <1>2, <1>3, Zenon DEF OpToRel
<1> QED
      BY <1>1, <1>4, <1>5

\* A set of natural numbers has a least element.
LEMMA MinNat ==
    ASSUME NEW S, S \subseteq Nat, S # {}
    PROVE  Min(S) \in S /\ \A y \in S : Min(S) <= y
<1>1. PICK x \in S : \A y \in S : <<y, x>> \notin OpToRel(<, Nat)
      BY WFMin, NatLessThanWellFounded, Zenon
<1>2. \A y \in S : ~(y < x)
      BY <1>1, Zenon DEF OpToRel
<1>3. \A y \in S : x <= y
      BY <1>2
<1> QED
      BY <1>3 DEF Min
-----------------------------------------------------------------------------
\* What Iterate computes: the last of a row of values, each of which is a step
\* from the one before it.
IsRow(f, A, step, start, list) ==
    /\ f \in [0..Len(list) -> A]
    /\ f[0] = start
    /\ \A i \in 1..Len(list) : f[i] = step[list[i]][f[i - 1]]

LEMMA RowValues ==
    ASSUME NEW A, NEW B, NEW step \in [B -> [A -> A]], NEW start \in A, NEW list \in Seq(B)
    PROVE  IsRow(Row(step, start, list), A, step, start, list)
<1> DEFINE L == Len(list)
           Begins(f, m) == /\ f \in [0..m -> A] /\ f[0] = start
                           /\ \A i \in 1..m : f[i] = step[list[i]][f[i - 1]]
           T == {m \in Nat : m <= L => \E f : Begins(f, m)}
           body(f) == [i \in 0..L |-> IF i = 0 THEN start ELSE step[list[i]][f[i - 1]]]
<1>1. L \in Nat /\ \A i \in 1..L : list[i] \in B
      OBVIOUS
<1>2. 0 \in T
  <2>1. Begins([i \in 0..0 |-> start], 0)
        OBVIOUS
  <2> QED
        BY <2>1
<1>3. ASSUME NEW m \in Nat, m \in T PROVE m + 1 \in T
  <2> SUFFICES ASSUME m + 1 <= L PROVE \E f : Begins(f, m + 1)
      OBVIOUS
  <2>1. PICK f : Begins(f, m)
        BY <1>1, <1>3
  <2> DEFINE g == [i \in 0..(m + 1) |-> IF i <= m THEN f[i] ELSE step[list[m + 1]][f[m]]]
  <2>2. f[m] \in A /\ list[m + 1] \in B /\ step[list[m + 1]][f[m]] \in A
        BY <1>1, <2>1
  <2>3. g \in [0..(m + 1) -> A] /\ g[0] = start
        BY <2>1, <2>2
  <2>4. ASSUME NEW i \in 1..(m + 1) PROVE g[i] = step[list[i]][g[i - 1]]
    <3>1. CASE i = m + 1
          BY <3>1
    <3>2. CASE i \in 1..m
      <4>1. i - 1 \in 0..m /\ i \in 0..m /\ i <= m /\ i - 1 <= m
            BY <3>2
      <4>2. g[i] = f[i] /\ g[i - 1] = f[i - 1]
            BY <4>1
      <4> QED
            BY <2>1, <3>2, <4>2
    <3> QED
          BY <3>1, <3>2
  <2> HIDE DEF g
  <2>5. Begins(g, m + 1)
        BY <2>3, <2>4
  <2> QED
        BY <2>5
<1>4. PICK f : Begins(f, L)
  <2> HIDE DEF T
  <2>1. L \in T
        BY <1>1, <1>2, <1>3, Induction
  <2> QED
        BY <1>1, <2>1 DEF T
<1>5. f = body(f)
  <2>1. \A i \in 0..L : f[i] = body(f)[i]
        BY <1>1, <1>4
  <2> QED
        BY <1>4, <2>1
<1> DEFINE h == CHOOSE g : g = body(g)
<1>6. h = body(h)
      BY <1>5
<1>7. Row(step, start, list) = h
      BY DEF Row
<1> HIDE DEF h
<1>8. h[0] = start /\ \A i \in 1..L : h[i] = step[list[i]][h[i - 1]]
  <2> DEFINE b == body(h)
  <2>1. \A i \in 0..L : b[i] = IF i = 0 THEN start ELSE step[list[i]][h[i - 1]]
        OBVIOUS
  <2>2. h = b
        BY <1>6
  <2> HIDE DEF b
  <2>3. \A i \in 0..L : h[i] = IF i = 0 THEN start ELSE step[list[i]][h[i - 1]]
        BY <2>1, <2>2
  <2> QED
        BY <1>1, <2>3
<1>9. \A i \in Nat : i \in {j \in Nat : j <= L => h[j] \in A}
  <2> DEFINE V == {j \in Nat : j <= L => h[j] \in A}
  <2>1. 0 \in V
        BY <1>8
  <2>2. ASSUME NEW j \in Nat, j \in V PROVE j + 1 \in V
    <3> SUFFICES ASSUME j + 1 <= L PROVE h[j + 1] \in A
        OBVIOUS
    <3>1. j + 1 \in 1..L /\ h[j] \in A /\ (j + 1) - 1 = j
          BY <1>1, <2>2
    <3>2. h[j + 1] = step[list[j + 1]][h[j]]
          BY <1>8, <3>1
    <3> QED
          BY <1>1, <3>1, <3>2
  <2> HIDE DEF V
  <2>3. \A i \in Nat : i \in V
        BY <2>1, <2>2, Induction
  <2> QED
        BY <2>3 DEF V
<1>10. h \in [0..L -> A]
      BY <1>1, <1>6, <1>9
<1> QED
      BY <1>7, <1>8, <1>10 DEF IsRow

\* What holds at the start and is kept by every step holds of the result: J[i]
\* is the set of the values that are right after i elements.
LEMMA IterateInduction ==
    ASSUME NEW A, NEW B, NEW step \in [B -> [A -> A]], NEW start \in A, NEW list \in Seq(B),
           NEW J, start \in J[0],
           \A i \in 1..Len(list) : \A a \in A : a \in J[i - 1] => step[list[i]][a] \in J[i]
    PROVE  Iterate(step, start, list) \in A /\ Iterate(step, start, list) \in J[Len(list)]
<1> DEFINE f == Row(step, start, list)
           T == {i \in Nat : i <= Len(list) => f[i] \in J[i]}
<1>1. Len(list) \in Nat
      OBVIOUS
<1>2. /\ f \in [0..Len(list) -> A] /\ f[0] = start
      /\ \A i \in 1..Len(list) : f[i] = step[list[i]][f[i - 1]]
  <2>1. IsRow(f, A, step, start, list)
        BY RowValues, Zenon
  <2> QED
        BY <2>1 DEF IsRow
<1> HIDE DEF f
<1>3. 0 \in T
      BY <1>2
<1>4. ASSUME NEW i \in Nat, i \in T PROVE i + 1 \in T
  <2> SUFFICES ASSUME i + 1 <= Len(list) PROVE f[i + 1] \in J[i + 1]
      OBVIOUS
  <2>1. i + 1 \in 1..Len(list) /\ (i + 1) - 1 = i /\ i \in 0..Len(list) /\ i <= Len(list)
        BY <1>1
  <2>2. f[i] \in J[i] /\ f[i] \in A
        BY <1>2, <1>4, <2>1
  <2>3. f[i + 1] = step[list[i + 1]][f[i]]
        BY <1>2, <2>1
  <2> QED
        BY <2>1, <2>2, <2>3
<1> HIDE DEF T
<1>5. Len(list) \in T
      BY <1>1, <1>3, <1>4, Induction
<1>6. f[Len(list)] \in J[Len(list)] /\ f[Len(list)] \in A
      BY <1>1, <1>2, <1>5 DEF T
<1> QED
      BY <1>6 DEF f, Iterate
-----------------------------------------------------------------------------
(***************************************************************************)
(* Lists without duplicates.                                               *)
(***************************************************************************)
\* l lists every element of X, each once.
Lists(l, X) ==
    /\ l \in Seq(Nat)
    /\ \A i \in 1..Len(l) : l[i] \in X
    /\ \A x \in X : \E i \in 1..Len(l) : l[i] = x
    /\ \A i, j \in 1..Len(l) : l[i] = l[j] => i = j

\* The set of a list.
LEMMA ListsToSet ==
    ASSUME NEW l, NEW X, Lists(l, X)
    PROVE  ToSet(l) = X /\ X \subseteq Nat
<1>1. l \in Seq(Nat) /\ DOMAIN l = 1..Len(l)
      BY DEF Lists
<1>2. ToSet(l) = {l[i] : i \in 1..Len(l)}
      BY <1>1 DEF ToSet
<1> QED
      BY <1>1, <1>2 DEF Lists

\* The length of a list is the size of its set.
LEMMA ListsSize ==
    ASSUME NEW l, NEW X, Lists(l, X)
    PROVE  IsFiniteSet(X) /\ Cardinality(X) = Len(l) /\ Len(l) \in Nat
<1>1. l \in Seq(Nat) /\ Len(l) \in Nat /\ DOMAIN l = 1..Len(l)
      BY DEF Lists
<1>2. l \in [1..Len(l) -> X]
      BY <1>1 DEF Lists
<1>3. l \in Injection(1..Len(l), X) /\ l \in Surjection(1..Len(l), X)
      BY <1>2 DEF Lists, Injection, Surjection, IsInjective
<1>4. ExistsBijection(1..Len(l), X)
      BY <1>3 DEF ExistsBijection, Bijection
<1> QED
      BY <1>1, <1>4, FS_NatBijection, FS_CountingElements

\* The empty list.
LEMMA ListsEmpty == Lists(<<>>, {}) /\ \A l, X : Lists(l, X) => (l = <<>> <=> X = {})
<1>1. Lists(<<>>, {})
      BY DEF Lists
<1>2. ASSUME NEW l, NEW X, Lists(l, X) PROVE l = <<>> <=> X = {}
  <2>1. l \in Seq(Nat) /\ Len(l) \in Nat
        BY <1>2 DEF Lists
  <2>2. l = <<>> <=> Len(l) = 0
        BY <2>1
  <2>3. Len(l) # 0 => 1 \in 1..Len(l)
        BY <2>1
  <2> QED
        BY <1>2, <2>2, <2>3 DEF Lists
<1> QED
      BY <1>1, <1>2

\* A list with a new element at its end.
LEMMA ListsAppend ==
    ASSUME NEW l, NEW X, Lists(l, X), NEW x \in Nat, x \notin X
    PROVE  Lists(Append(l, x), X \cup {x})
<1> DEFINE k == Append(l, x)
<1>1. l \in Seq(Nat) /\ Len(l) \in Nat
      BY DEF Lists
<1>2. /\ k \in Seq(Nat) /\ Len(k) = Len(l) + 1 /\ k[Len(l) + 1] = x
      /\ \A i \in 1..Len(l) : k[i] = l[i]
      BY <1>1
<1>3. \A i \in 1..Len(k) : i = Len(l) + 1 \/ i \in 1..Len(l)
      BY <1>1, <1>2
<1>4. Len(l) + 1 \in 1..Len(k) /\ \A i \in 1..Len(l) : i \in 1..Len(k)
      BY <1>1, <1>2
<1> HIDE DEF k
<1>5. /\ \A i \in 1..Len(k) : k[i] \in X \cup {x}
      /\ \A y \in X \cup {x} : \E i \in 1..Len(k) : k[i] = y
      BY <1>2, <1>3, <1>4 DEF Lists
<1>6. \A i, j \in 1..Len(k) : k[i] = k[j] => i = j
      BY <1>2, <1>3 DEF Lists
<1>7. Lists(k, X \cup {x})
      BY <1>2, <1>5, <1>6 DEF Lists
<1> QED
      BY <1>7 DEF k

\* Two lists without a common element, one after the other.
LEMMA ListsConcat ==
    ASSUME NEW l, NEW X, Lists(l, X), NEW m, NEW Y, Lists(m, Y), X \cap Y = {}
    PROVE  Lists(l \o m, X \cup Y)
<1> DEFINE k == l \o m
<1>1. l \in Seq(Nat) /\ Len(l) \in Nat /\ m \in Seq(Nat) /\ Len(m) \in Nat
      BY DEF Lists
<1>2. /\ k \in Seq(Nat) /\ Len(k) = Len(l) + Len(m)
      /\ \A i \in 1..Len(l) : k[i] = l[i]
      /\ \A i \in 1..Len(m) : k[Len(l) + i] = m[i]
      BY <1>1
<1> HIDE DEF k
<1>3. ASSUME NEW i \in 1..Len(k)
      PROVE  \/ i \in 1..Len(l) /\ k[i] = l[i]
             \/ \E j \in 1..Len(m) : i = Len(l) + j /\ k[i] = m[j]
  <2>1. CASE i <= Len(l)
    <3>1. i \in 1..Len(l)
          BY <1>1, <2>1
    <3> QED
          BY <1>2, <3>1
  <2>2. CASE i > Len(l)
    <3>1. i - Len(l) \in 1..Len(m) /\ i = Len(l) + (i - Len(l))
          BY <1>1, <1>2, <2>2
    <3> QED
          BY <1>2, <3>1
  <2>3. i <= Len(l) \/ i > Len(l)
        BY <1>1, <1>2
  <2> QED
        BY <2>1, <2>2, <2>3, Zenon
<1>4. /\ \A i \in 1..Len(l) : i \in 1..Len(k)
      /\ \A i \in 1..Len(m) : Len(l) + i \in 1..Len(k)
      BY <1>1, <1>2
<1>5. /\ \A i \in 1..Len(k) : k[i] \in X \cup Y
      /\ \A y \in X : \E i \in 1..Len(k) : k[i] = y
      /\ \A y \in Y : \E i \in 1..Len(k) : k[i] = y
  <2>1. \A i \in 1..Len(k) : k[i] \in X \cup Y
        BY <1>3 DEF Lists
  <2>2. \A y \in X : \E i \in 1..Len(k) : k[i] = y
        BY <1>2, <1>4 DEF Lists
  <2>3. ASSUME NEW y \in Y PROVE \E i \in 1..Len(k) : k[i] = y
    <3>1. PICK j \in 1..Len(m) : m[j] = y
          BY DEF Lists
    <3>2. Len(l) + j \in 1..Len(k) /\ k[Len(l) + j] = y
          BY <1>2, <1>4, <3>1
    <3> QED
          BY <3>2
  <2> QED
        BY <2>1, <2>2, <2>3
<1>6. ASSUME NEW i \in 1..Len(k), NEW j \in 1..Len(k), k[i] = k[j] PROVE i = j
  <2>1. CASE i \in 1..Len(l) /\ k[i] = l[i]
    <3>1. k[i] \in X
          BY <2>1 DEF Lists
    <3>2. j \in 1..Len(l) /\ k[j] = l[j]
          BY <1>3, <1>6, <3>1 DEF Lists
    <3> QED
          BY <1>6, <2>1, <3>2 DEF Lists
  <2>2. ASSUME NEW a \in 1..Len(m), i = Len(l) + a, k[i] = m[a] PROVE i = j
    <3>1. k[i] \in Y
          BY <2>2 DEF Lists
    <3>2. PICK b \in 1..Len(m) : j = Len(l) + b /\ k[j] = m[b]
          BY <1>3, <1>6, <3>1 DEF Lists
    <3>3. a = b
          BY <1>6, <2>2, <3>2 DEF Lists
    <3> QED
          BY <2>2, <3>2, <3>3
  <2> QED
        BY <1>3, <2>1, <2>2
<1>7. Lists(k, X \cup Y)
      BY <1>2, <1>5, <1>6 DEF Lists
<1> QED
      BY <1>7 DEF k

\* A list cut in two.
LEMMA ListsCut ==
    ASSUME NEW l, NEW X, Lists(l, X), NEW c \in 0..Len(l)
    PROVE  LET Y == {l[i] : i \in 1..c}
           IN  /\ Lists(SubSeq(l, 1, c), Y) /\ Len(SubSeq(l, 1, c)) = c
               /\ Lists(SubSeq(l, c + 1, Len(l)), X \ Y)
               /\ Len(SubSeq(l, c + 1, Len(l))) = Len(l) - c
               /\ Y \subseteq X
<1> DEFINE Y == {l[i] : i \in 1..c}
           a == SubSeq(l, 1, c)
           b == SubSeq(l, c + 1, Len(l))
<1>1. l \in Seq(Nat) /\ Len(l) \in Nat
      BY DEF Lists
<1>2. a \in Seq(Nat) /\ Len(a) = c /\ \A i \in 1..c : a[i] = l[i]
      BY <1>1
<1>3. b \in Seq(Nat) /\ Len(b) = Len(l) - c /\ \A i \in 1..(Len(l) - c) : b[i] = l[c + i]
      BY <1>1
<1> HIDE DEF a, b
<1>4. Lists(a, Y)
  <2>1. \A i \in 1..c : i \in 1..Len(l)
        BY <1>1
  <2>2. \A i, j \in 1..Len(a) : a[i] = a[j] => i = j
        BY <1>2, <2>1 DEF Lists
  <2>3. /\ \A i \in 1..Len(a) : a[i] \in Y
        /\ \A x \in Y : \E i \in 1..Len(a) : a[i] = x
        BY <1>2
  <2> QED
        BY <1>2, <2>2, <2>3 DEF Lists
<1>5. Lists(b, X \ Y)
  <2>1. ASSUME NEW x \in X \ Y PROVE \E i \in 1..Len(b) : b[i] = x
    <3>1. PICK i \in 1..Len(l) : l[i] = x /\ i \notin 1..c
          BY DEF Lists
    <3>2. i - c \in 1..(Len(l) - c) /\ c + (i - c) = i
          BY <1>1, <3>1
    <3> QED
          BY <1>3, <3>1, <3>2
  <2>2. ASSUME NEW i \in 1..Len(b) PROVE b[i] \in X \ Y
    <3>1. c + i \in 1..Len(l) /\ \A j \in 1..c : j # c + i /\ j \in 1..Len(l)
          BY <1>1, <1>3
    <3> QED
          BY <1>3, <3>1 DEF Lists
  <2>3. ASSUME NEW i \in 1..Len(b), NEW j \in 1..Len(b), b[i] = b[j] PROVE i = j
    <3>1. c + i \in 1..Len(l) /\ c + j \in 1..Len(l)
          BY <1>1, <1>3
    <3>2. l[c + i] = l[c + j]
          BY <1>3, <2>3
    <3>3. c + i = c + j
          BY <3>1, <3>2 DEF Lists
    <3> QED
          BY <3>3
  <2> QED
        BY <1>3, <2>1, <2>2, <2>3 DEF Lists
<1>6. Y \subseteq X
  <2>1. \A j \in 1..c : j \in 1..Len(l)
        BY <1>1
  <2> QED
        BY <2>1 DEF Lists
<1> QED
      BY <1>2, <1>3, <1>4, <1>5, <1>6 DEF a, b

\* A list without its i-th element.
LEMMA ListsRemove ==
    ASSUME NEW l, NEW X, Lists(l, X), NEW i \in 1..Len(l)
    PROVE  /\ Lists(RemoveAt(l, i), X \ {l[i]}) /\ Len(RemoveAt(l, i)) = Len(l) - 1
           /\ l[i] \in X /\ l[i] \in Nat
<1> DEFINE Y == {l[j] : j \in 1..(i - 1)}
           Z == {l[j] : j \in 1..i}
           a == SubSeq(l, 1, i - 1)
           b == SubSeq(l, i + 1, Len(l))
<1>1. l \in Seq(Nat) /\ Len(l) \in Nat /\ i - 1 \in 0..Len(l) /\ i \in 0..Len(l)
      BY DEF Lists
<1>2. Lists(a, Y) /\ Len(a) = i - 1 /\ Y \subseteq X
      BY <1>1, ListsCut
<1>3. Lists(b, X \ Z) /\ Len(b) = Len(l) - i
      BY <1>1, ListsCut
<1>4. Z = Y \cup {l[i]} /\ l[i] \notin Y
  <2>1. \A j \in 1..i : j \in 1..(i - 1) \/ j = i
        OBVIOUS
  <2>2. \A j \in 1..(i - 1) : j \in 1..i /\ j \in 1..Len(l) /\ j # i
        BY <1>1
  <2>3. i \in 1..i
        OBVIOUS
  <2>4. \A j \in 1..(i - 1) : l[j] # l[i]
        BY <2>2 DEF Lists
  <2> QED
        BY <2>1, <2>2, <2>3, <2>4
<1>5. l[i] \in X /\ l[i] \in Nat
      BY <1>1 DEF Lists
<1> HIDE DEF Y, Z, a, b
<1>6. Y \cap (X \ Z) = {} /\ Y \cup (X \ Z) = X \ {l[i]}
      BY <1>2, <1>4, <1>5
<1>7. Lists(a \o b, X \ {l[i]})
      BY <1>2, <1>3, <1>6, ListsConcat
<1>8. Len(a \o b) = Len(l) - 1
  <2>1. a \in Seq(Nat) /\ b \in Seq(Nat)
        BY <1>2, <1>3 DEF Lists
  <2>2. Len(a \o b) = Len(a) + Len(b)
        BY <2>1
  <2> QED
        BY <1>1, <1>2, <1>3, <2>2
<1> QED
      BY <1>5, <1>7, <1>8 DEF a, b, RemoveAt

\* Moving the first element to the end.
LEMMA ListsRotate ==
    ASSUME NEW l, NEW X, Lists(l, X)
    PROVE  Lists(RotateOnce(l), X) /\ Len(RotateOnce(l)) = Len(l)
<1>1. CASE l = <<>>
      BY <1>1 DEF RotateOnce
<1>2. CASE l # <<>>
  <2>1. l \in Seq(Nat) /\ Len(l) \in Nat \ {0} /\ 1 \in 0..Len(l) /\ Head(l) = l[1]
        BY <1>2 DEF Lists
  <2>2. Lists(SubSeq(l, 1 + 1, Len(l)), X \ {l[i] : i \in 1..1})
        BY <2>1, ListsCut
  <2>3. {l[i] : i \in 1..1} = {l[1]} /\ SubSeq(l, 1 + 1, Len(l)) = Tail(l)
        BY <2>1
  <2>4. Lists(Tail(l), X \ {l[1]})
        BY <2>2, <2>3
  <2>5. l[1] \in X /\ l[1] \in Nat
        BY <2>1 DEF Lists
  <2>6. (X \ {l[1]}) \cup {l[1]} = X
        BY <2>5
  <2>7. Lists(Append(Tail(l), l[1]), (X \ {l[1]}) \cup {l[1]})
        BY <2>4, <2>5, ListsAppend
  <2>8. Len(Append(Tail(l), l[1])) = Len(l)
        BY <2>1, <2>5
  <2> QED
        BY <1>2, <2>1, <2>6, <2>7, <2>8 DEF RotateOnce
<1> QED
      BY <1>1, <1>2

\* The first i elements of a list, one more at a time.
LEMMA ListsPrefix ==
    ASSUME NEW l, NEW X, Lists(l, X)
    PROVE  /\ {l[j] : j \in 1..0} = {}
           /\ {l[j] : j \in 1..Len(l)} = X
           /\ \A i \in 1..Len(l) :
                 /\ l[i] \in X /\ l[i] \in Nat
                 /\ l[i] \notin {l[j] : j \in 1..(i - 1)}
                 /\ {l[j] : j \in 1..i} = {l[j] : j \in 1..(i - 1)} \cup {l[i]}
<1>1. l \in Seq(Nat) /\ Len(l) \in Nat
      BY DEF Lists
<1>2. {l[j] : j \in 1..0} = {}
      OBVIOUS
<1>3. {l[j] : j \in 1..Len(l)} = X
      BY DEF Lists
<1>4. ASSUME NEW i \in 1..Len(l)
      PROVE  /\ l[i] \in X /\ l[i] \in Nat
             /\ l[i] \notin {l[j] : j \in 1..(i - 1)}
             /\ {l[j] : j \in 1..i} = {l[j] : j \in 1..(i - 1)} \cup {l[i]}
  <2>1. l[i] \in X /\ l[i] \in Nat
        BY <1>1 DEF Lists
  <2>2. \A j \in 1..(i - 1) : j \in 1..Len(l) /\ j # i
        BY <1>1
  <2>3. \A j \in 1..(i - 1) : l[j] # l[i]
        BY <2>2 DEF Lists
  <2>4. \A j : j \in 1..i <=> j \in 1..(i - 1) \/ j = i
        BY <1>1
  <2> QED
        BY <2>1, <2>3, <2>4
<1> QED
      BY <1>2, <1>3, <1>4

\* Among keeps the elements of a set.
LEMMA ListsAmong ==
    ASSUME NEW l, NEW X, Lists(l, X), NEW S
    PROVE  Lists(Among(l, S), X \cap S)
<1> DEFINE step == Keep(S)
           A == Seq(Nat)
           P(i) == {l[j] : j \in 1..i}
           J == [i \in 0..Len(l) |-> {a \in A : Lists(a, P(i) \cap S)}]
<1>1. l \in Seq(Nat) /\ Len(l) \in Nat /\ 0 \in 0..Len(l) /\ Len(l) \in 0..Len(l)
      BY DEF Lists
<1>2. step \in [Nat -> [A -> A]]
      BY DEF Keep
<1>3. \A i \in 0..Len(l) : \A a \in A : a \in J[i] <=> Lists(a, P(i) \cap S)
      BY Zenon
<1> HIDE DEF J
<1>4. <<>> \in A /\ <<>> \in J[0]
  <2>1. P(0) \cap S = {}
        BY ListsPrefix
  <2>2. <<>> \in A
        OBVIOUS
  <2> HIDE DEF A, P
  <2> QED
        BY <1>1, <1>3, <2>1, <2>2, ListsEmpty
<1>5. ASSUME NEW i \in 1..Len(l), NEW a \in A, a \in J[i - 1] PROVE step[l[i]][a] \in J[i]
  <2>1. i - 1 \in 0..Len(l) /\ i \in 0..Len(l)
        BY <1>1
  <2>2. l[i] \in Nat /\ l[i] \notin P(i - 1) /\ P(i) = P(i - 1) \cup {l[i]}
        BY ListsPrefix
  <2> HIDE DEF P
  <2>3. Lists(a, P(i - 1) \cap S)
        BY <1>3, <1>5, <2>1
  <2>4. step[l[i]][a] = IF l[i] \in S THEN Append(a, l[i]) ELSE a
        BY <2>2 DEF Keep
  <2>5. step[l[i]][a] \in A
        BY <1>2, <2>2
  <2> HIDE DEF step, A
  <2>6. CASE l[i] \in S
    <3>1. P(i) \cap S = (P(i - 1) \cap S) \cup {l[i]} /\ l[i] \notin P(i - 1) \cap S
          BY <2>2, <2>6
    <3>2. Lists(Append(a, l[i]), (P(i - 1) \cap S) \cup {l[i]})
          BY <2>2, <2>3, <3>1, ListsAppend
    <3> QED
          BY <1>3, <2>1, <2>4, <2>5, <2>6, <3>1, <3>2
  <2>7. CASE l[i] \notin S
    <3>1. P(i) \cap S = P(i - 1) \cap S
          BY <2>2, <2>7
    <3> QED
          BY <1>3, <2>1, <2>3, <2>4, <2>5, <2>7, <3>1
  <2> QED
        BY <2>6, <2>7
<1> HIDE DEF step, A
<1>6. Iterate(step, <<>>, l) \in A /\ Iterate(step, <<>>, l) \in J[Len(l)]
      BY <1>1, <1>2, <1>4, <1>5, IterateInduction
<1>7. Lists(Iterate(step, <<>>, l), P(Len(l)) \cap S)
      BY <1>1, <1>3, <1>6
<1>8. P(Len(l)) = X
      BY ListsPrefix
<1> QED
      BY <1>7, <1>8, Zenon DEF Among, step
-----------------------------------------------------------------------------
(***************************************************************************)
(* Interleaved.                                                            *)
(***************************************************************************)
\* A proper subset of a finite set is smaller.
LEMMA SmallerSubset ==
    ASSUME NEW S, IsFiniteSet(S), NEW T, T \subseteq S, NEW x \in S, x \notin T
    PROVE  Cardinality(T) < Cardinality(S) /\ Cardinality(T) \in Nat /\ Cardinality(S) \in Nat
<1>1. /\ IsFiniteSet(T) /\ Cardinality(T) <= Cardinality(S)
      /\ Cardinality(S) = Cardinality(T) => S = T
      BY FS_Subset
<1>2. Cardinality(T) \in Nat /\ Cardinality(S) \in Nat
      BY <1>1, FS_CardinalityType
<1> QED
      BY <1>1, <1>2

\* The size of an interval.
LEMMA IntervalSize ==
    ASSUME NEW m \in Nat
    PROVE  /\ IsFiniteSet(1..m) /\ Cardinality(1..m) = m
           /\ IsFiniteSet(0..(m - 1)) /\ Cardinality(0..(m - 1)) = m
<1>1. IsFiniteSet(1..m) /\ Cardinality(1..m) = IF 1 > m THEN 0 ELSE m - 1 + 1
      BY FS_Interval
<1>2. m - 1 \in Int /\ 0 \in Int
      OBVIOUS
<1>3. IsFiniteSet(0..(m - 1)) /\ Cardinality(0..(m - 1)) = IF 0 > m - 1 THEN 0 ELSE m - 1 - 0 + 1
      BY <1>2, FS_Interval
<1> QED
      BY <1>1, <1>3

\* Two turns are never at the same time: addresses on different nodes differ in
\* the node, addresses on the same node in the round.
LEMMA TurnsDiffer ==
    ASSUME NEW l, NEW X, Lists(l, X), NEW node, \A x \in X : node[x] \in Int,
           NEW i \in 1..Len(l), NEW j \in 1..Len(l), i < j
    PROVE  \/ Earlier(Turn(l, node, i), Turn(l, node, j))
           \/ Earlier(Turn(l, node, j), Turn(l, node, i))
<1> DEFINE seen(k) == {h \in 1..k : node[l[h]] = node[l[k]]}
<1>1. Len(l) \in Nat /\ node[l[i]] \in Int /\ node[l[j]] \in Int
      BY DEF Lists
<1>2. IsFiniteSet(seen(i)) /\ IsFiniteSet(seen(j))
  <2>1. i \in Nat /\ j \in Nat /\ seen(i) \subseteq 1..i /\ seen(j) \subseteq 1..j
        BY <1>1
  <2> HIDE DEF seen
  <2> QED
        BY <2>1, IntervalSize, FS_Subset
<1>3. Cardinality(seen(i)) \in Nat /\ Cardinality(seen(j)) \in Nat
  <2> HIDE DEF seen
  <2> QED
        BY <1>2, FS_CardinalityType
<1>4. node[l[i]] = node[l[j]] => Cardinality(seen(i)) < Cardinality(seen(j))
  <2> SUFFICES ASSUME node[l[i]] = node[l[j]] PROVE Cardinality(seen(i)) < Cardinality(seen(j))
      OBVIOUS
  <2>1. seen(i) \subseteq seen(j) /\ j \in seen(j) /\ j \notin seen(i)
        BY <1>1
  <2> HIDE DEF seen
  <2> QED
        BY <1>2, <2>1, SmallerSubset
<1>5. /\ Turn(l, node, i) = <<Cardinality(seen(i)), node[l[i]], i>>
      /\ Turn(l, node, j) = <<Cardinality(seen(j)), node[l[j]], j>>
      BY Zenon DEF Turn
<1> HIDE DEF seen
<1> QED
      BY <1>1, <1>3, <1>4, <1>5 DEF Earlier

\* new has the elements of l in the order of their turns; at[k] is the place in l
\* of the k-th.
InTurn(new, l, node, at) ==
    /\ at \in [1..Len(l) -> 1..Len(l)]
    /\ \A i, j \in 1..Len(l) : at[i] = at[j] => i = j
    /\ \A i \in 1..Len(l) : \E k \in 1..Len(l) : at[k] = i
    /\ new \in Seq(Nat) /\ Len(new) = Len(l)
    /\ \A k \in 1..Len(l) : new[k] = l[at[k]]
    /\ \A i, j \in 1..Len(l) : i < j => Earlier(Turn(l, node, at[i]), Turn(l, node, at[j]))

LEMMA InterleavedInTurn ==
    ASSUME NEW l, NEW X, Lists(l, X), NEW node, \A x \in X : node[x] \in Int
    PROVE  \E at : InTurn(Interleaved(l, node), l, node, at)
<1> DEFINE D == DOMAIN l
           tn(i) == Turn(l, node, i)
           turns == {tn(i) : i \in D}
           before(t) == {u \in turns : Earlier(u, t)}
           rank(i) == Cardinality(before(tn(i)))
           next(k) == CHOOSE t \in turns : Cardinality(before(t)) = k - 1
<1>1. l \in Seq(Nat) /\ Len(l) \in Nat /\ D = 1..Len(l)
      BY DEF Lists
<1>2. ASSUME NEW i \in D
      PROVE  /\ tn(i)[1] \in Nat /\ tn(i)[2] \in Int /\ tn(i)[3] = i
  <2> DEFINE same == {h \in 1..i : node[l[h]] = node[l[i]]}
  <2>1. i \in Nat /\ same \subseteq 1..i
        BY <1>1
  <2>2. tn(i) = <<Cardinality(same), node[l[i]], i>>
        BY Zenon DEF Turn
  <2> HIDE DEF same
  <2>3. Cardinality(same) \in Nat
        BY <2>1, IntervalSize, FS_Subset, FS_CardinalityType
  <2>4. node[l[i]] \in Int
        BY DEF Lists
  <2> HIDE DEF tn
  <2> QED
        BY <2>2, <2>3, <2>4
<1>3. ASSUME NEW i \in D, NEW j \in D, i # j PROVE Earlier(tn(i), tn(j)) \/ Earlier(tn(j), tn(i))
  <2>1. i < j \/ j < i
        BY <1>1, <1>3
  <2> QED
        BY <1>1, <2>1, TurnsDiffer
<1> HIDE DEF tn
<1>4. \A i \in D : ~Earlier(tn(i), tn(i))
      BY <1>2 DEF Earlier
<1>5. \A h, i, j \in D : Earlier(tn(h), tn(i)) /\ Earlier(tn(i), tn(j)) => Earlier(tn(h), tn(j))
      BY <1>2 DEF Earlier
<1>6. IsFiniteSet(turns) /\ Cardinality(turns) = Len(l)
  <2> DEFINE f == [i \in D |-> tn(i)]
  <2>1. \A i, j \in D : tn(i) = tn(j) => i = j
    <3> SUFFICES ASSUME NEW i \in D, NEW j \in D, tn(i) = tn(j) PROVE i = j
        OBVIOUS
    <3>1. tn(i)[3] = i /\ tn(j)[3] = j
          BY <1>2
    <3> QED
          BY <3>1
  <2>2. f \in Injection(D, turns) /\ f \in Surjection(D, turns)
    <3>1. f \in [D -> turns] /\ \A i \in D : f[i] = tn(i)
          OBVIOUS
    <3> HIDE DEF f, D
    <3> QED
          BY <2>1, <3>1 DEF Injection, Surjection, IsInjective
  <2>3. ExistsBijection(D, turns)
        BY <2>2, Zenon DEF ExistsBijection, Bijection
  <2> QED
        BY <1>1, <2>3, FS_NatBijection, FS_CountingElements
<1> HIDE DEF D
<1>7. \A i \in D : IsFiniteSet(before(tn(i))) /\ rank(i) \in 0..(Len(l) - 1)
  <2> SUFFICES ASSUME NEW i \in D PROVE IsFiniteSet(before(tn(i))) /\ rank(i) \in 0..(Len(l) - 1)
      OBVIOUS
  <2>1. before(tn(i)) \subseteq turns /\ tn(i) \in turns /\ tn(i) \notin before(tn(i))
        BY <1>4
  <2> HIDE DEF turns, before
  <2>2. IsFiniteSet(before(tn(i)))
        BY <1>6, <2>1, FS_Subset
  <2>3. rank(i) < Cardinality(turns) /\ rank(i) \in Nat
        BY <1>6, <2>1, SmallerSubset
  <2> QED
        BY <1>1, <1>6, <2>2, <2>3
<1>8. ASSUME NEW i \in D, NEW j \in D, Earlier(tn(i), tn(j)) PROVE rank(i) < rank(j)
  <2>1. /\ before(tn(i)) \subseteq before(tn(j))
        /\ tn(i) \in before(tn(j)) /\ tn(i) \notin before(tn(i))
        BY <1>4, <1>5, <1>8
  <2> HIDE DEF before
  <2> QED
        BY <1>7, <2>1, SmallerSubset
<1> DEFINE r == [i \in D |-> rank(i)]
           Z == 0..(Len(l) - 1)
<1>9. r \in Injection(D, Z)
  <2>1. \A i, j \in D : rank(i) = rank(j) => i = j
    <3> HIDE DEF rank
    <3> SUFFICES ASSUME NEW i \in D, NEW j \in D, rank(i) = rank(j), i # j PROVE FALSE
        OBVIOUS
    <3>1. rank(i) \in 0..(Len(l) - 1) /\ rank(j) \in 0..(Len(l) - 1)
          BY <1>7
    <3>2. rank(i) < rank(j) \/ rank(j) < rank(i)
          BY <1>3, <1>8
    <3> QED
          BY <1>1, <3>1, <3>2
  <2> HIDE DEF rank
  <2>2. r \in [D -> Z] /\ \A i \in D : r[i] = rank(i)
        BY <1>7
  <2> HIDE DEF r, Z
  <2> QED
        BY <2>1, <2>2 DEF Injection, IsInjective
<1>10. r \in Surjection(D, Z)
  <2>1. IsFiniteSet(Z) /\ Cardinality(Z) = Len(l)
        BY <1>1, IntervalSize
  <2>2. Cardinality(D) = Len(l)
        BY <1>1, IntervalSize
  <2> HIDE DEF r, Z
  <2> QED
        BY <1>9, <2>1, <2>2, FS_Injection
<1>11. ASSUME NEW k \in D PROVE \E i \in D : next(k) = tn(i) /\ rank(i) = k - 1
  <2>1. k - 1 \in Z
        BY <1>1
  <2>2. PICK i \in D : r[i] = k - 1
    <3> HIDE DEF r, Z
    <3> QED
        BY <1>10, <2>1 DEF Surjection
  <2>3. tn(i) \in turns /\ Cardinality(before(tn(i))) = k - 1
        BY <2>2
  <2> HIDE DEF before
  <2>4. next(k) \in turns /\ Cardinality(before(next(k))) = k - 1
        BY <2>3, Zenon
  <2> HIDE DEF next
  <2> QED
        BY <2>4
<1> DEFINE at == [k \in D |-> next(k)[3]]
<1> HIDE DEF next, rank
<1>12. \A k \in D : at[k] \in D /\ next(k) = tn(at[k]) /\ rank(at[k]) = k - 1
  <2> SUFFICES ASSUME NEW k \in D PROVE at[k] \in D /\ next(k) = tn(at[k]) /\ rank(at[k]) = k - 1
      OBVIOUS
  <2>1. PICK i \in D : next(k) = tn(i) /\ rank(i) = k - 1
        BY <1>11
  <2>2. at[k] = i
        BY <1>2, <2>1
  <2> QED
        BY <2>1, <2>2
<1>13. at \in [D -> D]
      BY <1>12
<1>14. Interleaved(l, node) = [k \in D |-> l[at[k]]]
  <2>1. Interleaved(l, node) = [k \in 1..Len(l) |-> l[next(k)[3]]]
        BY Zenon DEF Interleaved, next, before, turns, tn, D
  <2> QED
        BY <1>1, <2>1
<1> HIDE DEF at
<1>15. \A i, j \in D : at[i] = at[j] => i = j
  <2> SUFFICES ASSUME NEW i \in D, NEW j \in D, at[i] = at[j] PROVE i = j
      OBVIOUS
  <2>1. i - 1 = j - 1
        BY <1>12
  <2> QED
        BY <1>1, <2>1
<1> DEFINE new == [k \in D |-> l[at[k]]]
<1>16. new \in Seq(Nat) /\ Len(new) = Len(l) /\ \A k \in D : new[k] = l[at[k]]
  <2>1. \A k \in D : l[at[k]] \in Nat
        BY <1>1, <1>13 DEF Lists
  <2> QED
        BY <1>1, <2>1
<1> HIDE DEF new
<1>17. \A i \in D : \E k \in D : at[k] = i
  <2>1. at \in Injection(D, D)
        BY <1>13, <1>15 DEF Injection, IsInjective
  <2>2. IsFiniteSet(D)
        BY <1>1, IntervalSize
  <2>3. at \in Surjection(D, D)
        BY <2>1, <2>2, FS_Injection
  <2> QED
        BY <2>3 DEF Surjection
<1>18. ASSUME NEW i \in D, NEW j \in D, i < j PROVE Earlier(tn(at[i]), tn(at[j]))
  <2>1. at[i] \in D /\ at[j] \in D /\ rank(at[i]) = i - 1 /\ rank(at[j]) = j - 1
        BY <1>12
  <2>2. at[i] # at[j] /\ ~(j - 1 < i - 1)
        BY <1>1, <1>15, <1>18
  <2>3. ~(rank(at[j]) < rank(at[i]))
        BY <2>1, <2>2
  <2> QED
        BY <1>3, <1>8, <2>1, <2>2, <2>3
<1>19. Interleaved(l, node) = new
      BY <1>14 DEF new
<1>20. \A i, j \in D : i < j => Earlier(Turn(l, node, at[i]), Turn(l, node, at[j]))
      BY <1>18 DEF tn
<1>21. InTurn(new, l, node, at)
      BY <1>1, <1>13, <1>15, <1>16, <1>17, <1>20, Zenon DEF InTurn
<1> QED
      BY <1>19, <1>21

\* Interleaving puts the addresses into another order.
LEMMA ListsInterleaved ==
    ASSUME NEW l, NEW X, Lists(l, X), NEW node, \A x \in X : node[x] \in Int
    PROVE  Lists(Interleaved(l, node), X) /\ Len(Interleaved(l, node)) = Len(l)
<1> DEFINE new == Interleaved(l, node)
           D == 1..Len(l)
<1>1. PICK at : InTurn(new, l, node, at)
      BY InterleavedInTurn
<1> HIDE DEF new
<1>2. /\ at \in [D -> D] /\ (\A i, j \in D : at[i] = at[j] => i = j)
      /\ \A i \in D : \E k \in D : at[k] = i
      BY <1>1 DEF InTurn
<1>3. /\ new \in Seq(Nat) /\ Len(new) = Len(l) /\ \A k \in D : new[k] = l[at[k]]
      BY <1>1 DEF InTurn
<1>4. /\ \A i \in D : l[i] \in X
      /\ \A x \in X : \E i \in D : l[i] = x
      /\ \A i, j \in D : l[i] = l[j] => i = j
      BY DEF Lists
<1> HIDE DEF D
<1>5. \A k \in D : new[k] \in X
      BY <1>2, <1>3, <1>4
<1>6. ASSUME NEW x \in X PROVE \E k \in D : new[k] = x
  <2>1. PICK i \in D : l[i] = x
        BY <1>4
  <2>2. PICK k \in D : at[k] = i
        BY <1>2
  <2> QED
        BY <1>3, <2>1, <2>2
<1>7. \A i, j \in D : new[i] = new[j] => i = j
  <2> SUFFICES ASSUME NEW i \in D, NEW j \in D, new[i] = new[j] PROVE i = j
      OBVIOUS
  <2>1. at[i] \in D /\ at[j] \in D /\ l[at[i]] = l[at[j]]
        BY <1>2, <1>3
  <2> QED
        BY <1>2, <1>4, <2>1
<1>8. D = 1..Len(new)
      BY <1>3 DEF D
<1>9. Lists(new, X)
      BY <1>3, <1>5, <1>6, <1>7, <1>8 DEF Lists
<1> QED
      BY <1>3, <1>9 DEF new

\* The first addresses of the interleaved list are on different nodes, or they
\* are on all the nodes there are.
LEMMA InterleavedIsSpread ==
    ASSUME NEW l, NEW X, Lists(l, X), NEW node, \A x \in X : node[x] \in Int,
           NEW c \in 0..Len(l),
           NEW x \in X, \A i \in 1..c : node[Interleaved(l, node)[i]] # node[x],
           NEW i \in 1..c, NEW j \in 1..c,
           node[Interleaved(l, node)[i]] = node[Interleaved(l, node)[j]]
    PROVE  i = j
<1> DEFINE new == Interleaved(l, node)
           D == 1..Len(l)
           seen(k) == {h \in 1..k : node[l[h]] = node[l[k]]}
           V == {h \in D : node[l[h]] = node[x]}
           f == Min(V)
<1>1. PICK at : InTurn(new, l, node, at)
      BY InterleavedInTurn
<1>2. Len(l) \in Nat /\ l \in Seq(Nat)
      BY DEF Lists
<1>3. V \subseteq Nat /\ V # {}
  <2>1. PICK h \in 1..Len(l) : l[h] = x
        BY DEF Lists
  <2>2. h \in V
        BY <2>1
  <2>3. D \subseteq Nat
        BY <1>2
  <2>4. V \subseteq D
        BY Zenon
  <2> HIDE DEF V, D
  <2> QED
        BY <2>2, <2>3, <2>4, Zenon
<1>4. f \in V /\ \A y \in V : f <= y
  <2> HIDE DEF V
  <2> QED
      BY <1>3, MinNat
<1>5. f \in D /\ node[l[f]] = node[x]
      BY <1>4
<1> HIDE DEF f
<1>6. seen(f) = {f}
  <2>1. \A h \in 1..f : node[l[h]] = node[x] => h = f
    <3> SUFFICES ASSUME NEW h \in 1..f, node[l[h]] = node[x] PROVE h = f
        OBVIOUS
    <3>1. h \in V
          BY <1>2, <1>5
    <3>2. f <= h
          BY <1>4, <3>1
    <3> QED
          BY <1>2, <1>5, <3>2
  <2> QED
        BY <1>2, <1>5, <2>1
<1> HIDE DEF V, new
<1>7. /\ at \in [D -> D] /\ (\A g, h \in D : at[g] = at[h] => g = h)
      /\ \A g \in D : \E k \in D : at[k] = g
      BY <1>1 DEF InTurn
<1>8. \A k \in D : new[k] = l[at[k]]
      BY <1>1 DEF InTurn
<1>9. \A g, h \in D : g < h => Earlier(Turn(l, node, at[g]), Turn(l, node, at[h]))
      BY <1>1 DEF InTurn
<1>10. i \in D /\ j \in D /\ \A g \in 1..c : g \in D
      BY <1>2
<1>11. PICK k \in D : at[k] = f
      BY <1>5, <1>7
<1>12. k > c
  <2>1. node[new[k]] = node[x]
        BY <1>5, <1>8, <1>11
  <2>2. k \notin 1..c
        BY <2>1 DEF new
  <2> QED
        BY <1>2, <2>2
<1>13. \A g \in D : Turn(l, node, g) = <<Cardinality(seen(g)), node[l[g]], g>>
      BY Zenon DEF Turn
<1>14. ASSUME NEW g \in D PROVE IsFiniteSet(seen(g)) /\ Cardinality(seen(g)) \in Nat
  <2>1. g \in Nat /\ seen(g) \subseteq 1..g
        BY <1>2
  <2> HIDE DEF seen
  <2>2. IsFiniteSet(seen(g))
        BY <2>1, IntervalSize, FS_Subset
  <2> QED
        BY <2>2, FS_CardinalityType
<1>15. ASSUME NEW g \in 1..c PROVE Cardinality(seen(at[g])) <= 1
  <2>1. g < k /\ g \in D
        BY <1>2, <1>12
  <2>2. Earlier(Turn(l, node, at[g]), Turn(l, node, f))
        BY <1>9, <1>11, <2>1
  <2>3. Cardinality(seen(f)) = 1
        BY <1>6, FS_Singleton
  <2> HIDE DEF seen
  <2>4. at[g] \in D
        BY <1>7, <2>1
  <2>5. /\ Turn(l, node, at[g])[1] = Cardinality(seen(at[g])) /\ Turn(l, node, f)[1] = 1
        BY <1>5, <1>13, <2>3, <2>4
  <2>6. Cardinality(seen(at[g])) \in Nat
        BY <1>14, <2>4
  <2> QED
        BY <2>2, <2>5, <2>6 DEF Earlier
<1>16. ASSUME NEW g \in D, NEW h \in D, g < h, node[l[g]] = node[l[h]]
       PROVE  Cardinality(seen(h)) > 1
  <2>1. /\ seen(g) \subseteq seen(h) /\ h \in seen(h) /\ h \notin seen(g)
        /\ g \in seen(g)
        BY <1>2, <1>16
  <2> HIDE DEF seen
  <2>2. Cardinality(seen(g)) < Cardinality(seen(h))
        BY <1>14, <2>1, SmallerSubset
  <2>3. Cardinality(seen(g)) # 0
        BY <1>14, <2>1, FS_EmptySet
  <2> QED
        BY <1>14, <2>2, <2>3
<1> HIDE DEF seen
<1>17. at[i] \in D /\ at[j] \in D /\ node[l[at[i]]] = node[l[at[j]]]
      BY <1>7, <1>8, <1>10 DEF new
<1>18. Cardinality(seen(at[i])) <= 1 /\ Cardinality(seen(at[j])) <= 1
      BY <1>15
<1>19. at[i] = at[j]
  <2>1. Cardinality(seen(at[i])) \in Nat /\ Cardinality(seen(at[j])) \in Nat
        BY <1>14, <1>17
  <2>2. ~(Cardinality(seen(at[i])) > 1) /\ ~(Cardinality(seen(at[j])) > 1)
        BY <1>18, <2>1
  <2>3. ~(at[i] < at[j]) /\ ~(at[j] < at[i])
        BY <1>16, <1>17, <2>2
  <2> QED
        BY <1>2, <1>17, <2>3
<1> QED
      BY <1>7, <1>10, <1>19
-----------------------------------------------------------------------------
(***************************************************************************)
(* PickSlaves.                                                             *)
(***************************************************************************)
\* SlaveIndex is an index.
LEMMA SlaveIndexInRange ==
    ASSUME NEW l \in Seq(Nat), l # <<>>, NEW node, NEW master
    PROVE  SlaveIndex(l, node, master) \in 1..Len(l)
<1> DEFINE elsewhere == {i \in DOMAIN l : node[l[i]] # node[master]}
<1>1. DOMAIN l = 1..Len(l) /\ Len(l) \in Nat \ {0} /\ 1 \in 1..Len(l)
      OBVIOUS
<1>2. elsewhere \subseteq Nat /\ elsewhere \subseteq 1..Len(l)
      BY <1>1
<1>3. SlaveIndex(l, node, master) = IF elsewhere = {} THEN 1 ELSE Min(elsewhere)
      BY Zenon DEF SlaveIndex
<1> HIDE DEF elsewhere
<1> QED
      BY <1>1, <1>2, <1>3, MinNat

\* What TakeSlave has done after i masters: the slaves and what is left are
\* parts of X, the j-th slave is for the j-th master, and addresses are left
\* over only when every master so far has a slave.
Divided(c, d, X) == \E Y \in SUBSET X : Lists(c, Y) /\ Lists(d, X \ Y)
Picked(a, i, ms, X) ==
    /\ Divided(a.slaves, a.left, X)
    /\ Len(a.parents) = Len(a.slaves)
    /\ \A j \in 1..Len(a.slaves) : a.parents[j] = ms[j]
    /\ Len(a.slaves) <= i
    /\ Len(a.slaves) < i => a.left = <<>>

\* One master of PickSlaves.
LEMMA TakeSlaveStep ==
    ASSUME NEW X, NEW ms \in Seq(Nat), NEW node, NEW i \in 1..Len(ms), NEW a \in Picking,
           Picked(a, i - 1, ms, X)
    PROVE  Picked(TakeSlave(node)[ms[i]][a], i, ms, X)
<1> DEFINE b == TakeSlave(node)[ms[i]][a]
           h == SlaveIndex(a.left, node, ms[i])
<1>1. /\ Len(ms) \in Nat /\ i \in Nat /\ ms[i] \in Nat
      /\ a.left \in Seq(Nat) /\ a.slaves \in Seq(Nat) /\ a.parents \in Seq(Nat)
      BY DEF Picking
<1>2. b = IF a.left = <<>> THEN a
          ELSE [left |-> RemoveAt(a.left, h), slaves |-> Append(a.slaves, a.left[h]),
                parents |-> Append(a.parents, ms[i])]
      BY <1>1 DEF TakeSlave
<1> HIDE DEF b
<1>3. CASE a.left = <<>>
  <2>1. b = a
        BY <1>2, <1>3
  <2>2. Len(a.slaves) \in Nat
        BY <1>1
  <2> QED
        BY <1>1, <1>3, <2>1, <2>2 DEF Picked, b
<1>4. CASE a.left # <<>>
  <2>1. h \in 1..Len(a.left)
        BY <1>1, <1>4, SlaveIndexInRange
  <2> HIDE DEF h
  <2>2. /\ b.left = RemoveAt(a.left, h) /\ b.slaves = Append(a.slaves, a.left[h])
        /\ b.parents = Append(a.parents, ms[i])
        BY <1>2, <1>4
  <2>3. PICK Y \in SUBSET X : Lists(a.slaves, Y) /\ Lists(a.left, X \ Y)
        BY DEF Picked, Divided
  <2>4. Lists(b.left, (X \ Y) \ {a.left[h]}) /\ a.left[h] \in X \ Y /\ a.left[h] \in Nat
    <3>1. /\ Lists(RemoveAt(a.left, h), (X \ Y) \ {a.left[h]})
          /\ a.left[h] \in X \ Y /\ a.left[h] \in Nat
          BY <2>1, <2>3, ListsRemove
    <3> QED
          BY <2>2, <3>1
  <2>5. Lists(b.slaves, Y \cup {a.left[h]})
        BY <2>2, <2>3, <2>4, ListsAppend
  <2>6. Divided(b.slaves, b.left, X)
    <3>1. (X \ Y) \ {a.left[h]} = X \ (Y \cup {a.left[h]}) /\ Y \cup {a.left[h]} \in SUBSET X
          BY <2>4
    <3> QED
          BY <2>4, <2>5, <3>1 DEF Divided
  <2>7. Len(a.slaves) = i - 1 /\ Len(a.parents) = i - 1
        BY <1>1, <1>4 DEF Picked
  <2>8. Len(b.slaves) = i /\ Len(b.parents) = i
        BY <1>1, <2>2, <2>4, <2>7
  <2>9. \A j \in 1..i : b.parents[j] = ms[j]
    <3>1. \A j \in 1..(i - 1) : a.parents[j] = ms[j] /\ b.parents[j] = a.parents[j]
      <4>1. \A j \in 1..(i - 1) : a.parents[j] = ms[j]
            BY <2>7 DEF Picked
      <4>2. \A j \in 1..Len(a.parents) : b.parents[j] = a.parents[j]
            BY <1>1, <2>2
      <4> QED
            BY <2>7, <4>1, <4>2
    <3>2. b.parents[i] = ms[i]
          BY <1>1, <2>2, <2>7
    <3>3. \A j \in 1..i : j = i \/ j \in 1..(i - 1)
          BY <1>1
    <3> QED
          BY <3>1, <3>2, <3>3
  <2>10. Picked(b, i, ms, X)
    <3>1. i <= i /\ ~(i < i)
          BY <1>1
    <3> QED
          BY <2>6, <2>8, <2>9, <3>1, Zenon DEF Picked
  <2> QED
        BY <2>10 DEF b
<1> QED
      BY <1>3, <1>4

\* The slaves that PickSlaves finds.
LEMMA PickSlavesResult ==
    ASSUME NEW l, NEW X, Lists(l, X), NEW ms \in Seq(Nat), NEW node
    PROVE  /\ PickSlaves(ms, l, node) \in Picking
           /\ Picked(PickSlaves(ms, l, node), Len(ms), ms, X)
<1> DEFINE step == TakeSlave(node)
           start == [left |-> l, slaves |-> <<>>, parents |-> <<>>]
           J == [i \in 0..Len(ms) |-> {a \in Picking : Picked(a, i, ms, X)}]
<1>1. Len(ms) \in Nat /\ 0 \in 0..Len(ms) /\ Len(ms) \in 0..Len(ms) /\ l \in Seq(Nat)
      BY DEF Lists
<1>2. step \in [Nat -> [Picking -> Picking]]
  <2> SUFFICES ASSUME NEW m \in Nat, NEW a \in Picking
               PROVE  (IF a.left = <<>> THEN a
                       ELSE LET i == SlaveIndex(a.left, node, m)
                            IN  [left    |-> RemoveAt(a.left, i),
                                 slaves  |-> Append(a.slaves, a.left[i]),
                                 parents |-> Append(a.parents, m)]) \in Picking
      BY DEF TakeSlave
  <2> DEFINE i == SlaveIndex(a.left, node, m)
  <2> SUFFICES ASSUME a.left # <<>>
               PROVE  [left |-> RemoveAt(a.left, i), slaves |-> Append(a.slaves, a.left[i]),
                       parents |-> Append(a.parents, m)] \in Picking
      OBVIOUS
  <2>1. a.left \in Seq(Nat) /\ a.slaves \in Seq(Nat) /\ a.parents \in Seq(Nat)
        BY DEF Picking
  <2>2. i \in 1..Len(a.left)
        BY <2>1, SlaveIndexInRange
  <2> HIDE DEF i
  <2>3. a.left[i] \in Nat /\ i \in Int
        BY <2>1, <2>2
  <2>4. RemoveAt(a.left, i) \in Seq(Nat)
        BY <2>1, <2>2 DEF RemoveAt
  <2> QED
        BY <2>1, <2>3, <2>4 DEF Picking
<1>3. \A i \in 0..Len(ms) : \A a \in Picking : a \in J[i] <=> Picked(a, i, ms, X)
      BY Zenon
<1>4. start \in Picking /\ Picked(start, 0, ms, X)
  <2>1. start \in Picking
        BY <1>1 DEF Picking
  <2>2. X \ {} = X /\ {} \in SUBSET X
        OBVIOUS
  <2>3. Divided(<<>>, l, X)
        BY <2>2, ListsEmpty DEF Divided
  <2>4. Len(<<>>) = 0 /\ \A j \in 1..0 : <<>>[j] = ms[j]
        OBVIOUS
  <2> QED
        BY <2>1, <2>3, <2>4 DEF Picked
<1> HIDE DEF J, step, start
<1>5. start \in J[0]
      BY <1>1, <1>3, <1>4
<1>6. ASSUME NEW i \in 1..Len(ms), NEW a \in Picking, a \in J[i - 1] PROVE step[ms[i]][a] \in J[i]
  <2>1. i - 1 \in 0..Len(ms) /\ i \in 0..Len(ms) /\ ms[i] \in Nat
        BY <1>1
  <2>2. Picked(a, i - 1, ms, X)
        BY <1>3, <1>6, <2>1
  <2>3. Picked(step[ms[i]][a], i, ms, X)
        BY <2>2, TakeSlaveStep DEF step
  <2>4. step[ms[i]][a] \in Picking
        BY <1>2, <2>1
  <2> QED
        BY <1>3, <2>1, <2>3, <2>4
<1>7. Iterate(step, start, ms) \in Picking /\ Iterate(step, start, ms) \in J[Len(ms)]
  <2> DEFINE A == Picking
  <2> HIDE DEF A
  <2>1. /\ step \in [Nat -> [A -> A]] /\ start \in A /\ start \in J[0]
        /\ \A i \in 1..Len(ms) : \A a \in A : a \in J[i - 1] => step[ms[i]][a] \in J[i]
        BY <1>2, <1>4, <1>5, <1>6 DEF A
  <2>2. Iterate(step, start, ms) \in A /\ Iterate(step, start, ms) \in J[Len(ms)]
        BY <2>1, IterateInduction
  <2> QED
        BY <2>2 DEF A
<1>8. Picked(Iterate(step, start, ms), Len(ms), ms, X)
      BY <1>1, <1>3, <1>7
<1> QED
      BY <1>7, <1>8, Zenon DEF PickSlaves, step, start
-----------------------------------------------------------------------------
(***************************************************************************)
(* The two passes over the new addresses.                                  *)
(***************************************************************************)
\* One more element on either side.
LEMMA DividedAppend ==
    ASSUME NEW c, NEW d, NEW X, Divided(c, d, X), NEW x \in Nat, x \notin X
    PROVE  Divided(Append(c, x), d, X \cup {x}) /\ Divided(c, Append(d, x), X \cup {x})
<1>1. PICK Y \in SUBSET X : Lists(c, Y) /\ Lists(d, X \ Y)
      BY DEF Divided
<1>2. /\ Y \cup {x} \in SUBSET (X \cup {x}) /\ Y \in SUBSET (X \cup {x})
      /\ (X \cup {x}) \ (Y \cup {x}) = X \ Y /\ (X \cup {x}) \ Y = (X \ Y) \cup {x}
      /\ x \notin Y /\ x \notin X \ Y
      OBVIOUS
<1>3. Lists(Append(c, x), Y \cup {x}) /\ Lists(Append(d, x), (X \ Y) \cup {x})
      BY <1>1, <1>2, ListsAppend
<1> QED
      BY <1>1, <1>2, <1>3 DEF Divided

\* After the first pass the addresses are divided into new masters, at most
\* count of them, and the others.
Spread(a, count, X) ==
    /\ Divided(a.taken, a.left, X)
    /\ count >= 0 => Len(a.taken) <= count
LEMMA OnFreeNodesResult ==
    ASSUME NEW l, NEW X, Lists(l, X), NEW node, NEW existing, NEW count \in Int
    PROVE  /\ OnFreeNodes(l, node, existing, count) \in Spreading
           /\ Spread(OnFreeNodes(l, node, existing, count), count, X)
<1> DEFINE step == TakeFreeNode(node, existing, count)
           start == [taken |-> <<>>, left |-> <<>>]
           P(i) == {l[j] : j \in 1..i}
           J == [i \in 0..Len(l) |-> {a \in Spreading : Spread(a, count, P(i))}]
           full(a, p) == \/ Len(a.taken) = count
                         \/ \E m \in existing \cup ToSet(a.taken) : node[m] = node[p]
<1>1. Len(l) \in Nat /\ 0 \in 0..Len(l) /\ Len(l) \in 0..Len(l) /\ l \in Seq(Nat)
      BY DEF Lists
<1>2. \A p \in Nat : \A a \in Spreading :
         step[p][a] = IF full(a, p) THEN [a EXCEPT !.left = Append(@, p)]
                      ELSE [a EXCEPT !.taken = Append(@, p)]
      BY Zenon DEF TakeFreeNode
<1>3. \A a \in Spreading : a = [taken |-> a.taken, left |-> a.left]
                           /\ a.taken \in Seq(Nat) /\ a.left \in Seq(Nat)
      BY DEF Spreading
<1>4. ASSUME NEW p \in Nat, NEW a \in Spreading
      PROVE  /\ step[p][a] \in Spreading
             /\ full(a, p) => step[p][a].taken = a.taken /\ step[p][a].left = Append(a.left, p)
             /\ ~full(a, p) => step[p][a].taken = Append(a.taken, p) /\ step[p][a].left = a.left
  <2> HIDE DEF full, step
  <2>1. CASE full(a, p)
    <3>1. step[p][a] = [a EXCEPT !.left = Append(@, p)]
          BY <1>2, <2>1
    <3>2. step[p][a] = [taken |-> a.taken, left |-> Append(a.left, p)]
          BY <1>3, <3>1
    <3> QED
          BY <1>3, <2>1, <3>2 DEF Spreading
  <2>2. CASE ~full(a, p)
    <3>1. step[p][a] = [a EXCEPT !.taken = Append(@, p)]
          BY <1>2, <2>2
    <3>2. step[p][a] = [taken |-> Append(a.taken, p), left |-> a.left]
          BY <1>3, <3>1
    <3> QED
          BY <1>3, <2>2, <3>2 DEF Spreading
  <2> QED
        BY <2>1, <2>2
<1>5. step \in [Nat -> [Spreading -> Spreading]]
  <2>1. step = [p \in Nat |-> [a \in Spreading |-> step[p][a]]]
        BY DEF TakeFreeNode
  <2> HIDE DEF step
  <2> QED
        BY <1>4, <2>1
<1>6. \A i \in 0..Len(l) : \A a \in Spreading : a \in J[i] <=> Spread(a, count, P(i))
      BY Zenon
<1>7. start \in Spreading /\ Spread(start, count, P(0))
  <2>1. start \in Spreading /\ Len(<<>>) = 0
        BY DEF Spreading
  <2>2. P(0) = {}
        BY ListsPrefix
  <2>3. Divided(<<>>, <<>>, P(0))
        BY <2>2, ListsEmpty DEF Divided
  <2> HIDE DEF P
  <2> QED
        BY <2>1, <2>3 DEF Spread
<1> HIDE DEF J, step, start
<1>8. ASSUME NEW i \in 1..Len(l), NEW a \in Spreading, a \in J[i - 1] PROVE step[l[i]][a] \in J[i]
  <2> DEFINE b == step[l[i]][a]
  <2>1. i - 1 \in 0..Len(l) /\ i \in 0..Len(l) /\ l[i] \in Nat
        BY <1>1
  <2>2. l[i] \notin P(i - 1) /\ P(i) = P(i - 1) \cup {l[i]}
        BY ListsPrefix
  <2> HIDE DEF P
  <2>3. Spread(a, count, P(i - 1))
        BY <1>6, <1>8, <2>1
  <2>4. /\ Divided(Append(a.taken, l[i]), a.left, P(i))
        /\ Divided(a.taken, Append(a.left, l[i]), P(i))
        BY <2>1, <2>2, <2>3, DividedAppend DEF Spread
  <2>5. b \in Spreading
        BY <1>4, <2>1
  <2>6. CASE full(a, l[i])
    <3>1. b.taken = a.taken /\ b.left = Append(a.left, l[i])
          BY <1>4, <2>1, <2>6
    <3> QED
          BY <1>6, <2>1, <2>3, <2>4, <2>5, <3>1 DEF Spread
  <2>7. CASE ~full(a, l[i])
    <3>1. b.taken = Append(a.taken, l[i]) /\ b.left = a.left
          BY <1>4, <2>1, <2>7
    <3>2. Len(a.taken) # count
          BY <2>7
    <3>3. Len(b.taken) = Len(a.taken) + 1 /\ Len(a.taken) \in Nat
          BY <1>3, <2>1, <3>1
    <3>4. count >= 0 => Len(b.taken) <= count
          BY <2>3, <3>2, <3>3 DEF Spread
    <3>5. Spread(b, count, P(i))
          BY <2>4, <3>1, <3>4 DEF Spread
    <3> QED
          BY <1>6, <2>1, <2>5, <3>5
  <2> QED
        BY <2>6, <2>7
<1>9. Iterate(step, start, l) \in Spreading /\ Iterate(step, start, l) \in J[Len(l)]
  <2> DEFINE A == Spreading
  <2> HIDE DEF A, P
  <2>1. /\ step \in [Nat -> [A -> A]] /\ start \in A /\ start \in J[0]
        /\ \A i \in 1..Len(l) : \A a \in A : a \in J[i - 1] => step[l[i]][a] \in J[i]
        BY <1>1, <1>5, <1>6, <1>7, <1>8 DEF A
  <2>2. Iterate(step, start, l) \in A /\ Iterate(step, start, l) \in J[Len(l)]
        BY <1>1, <2>1, IterateInduction
  <2> QED
        BY <2>2 DEF A
<1>10. P(Len(l)) = X
      BY ListsPrefix
<1> HIDE DEF P
<1>11. Spread(Iterate(step, start, l), count, X)
      BY <1>1, <1>6, <1>9, <1>10
<1> QED
      BY <1>9, <1>11, Zenon DEF OnFreeNodes, step, start

\* The second pass, when it does not run past the end.
LEMMA EveryOtherResult ==
    ASSUME NEW l, NEW X, Lists(l, X), NEW missing \in Int, ~SecondPassPanics(l, missing)
    PROVE  /\ Divided(EveryOther(l, missing).taken, EveryOther(l, missing).left, X)
           /\ Len(EveryOther(l, missing).taken) = IF missing > 0 THEN missing ELSE 0
<1> DEFINE t == Max({0, missing})
           L == Len(l)
           kept == Min({t, L \div 2})
           c == [i \in 1..t |-> l[2 * i - 1]]
           e == [i \in 1..kept |-> l[2 * i]]
           r == SubSeq(l, 2 * t + 1, L)
           q == IF 2 * t <= L THEN 2 * t ELSE L
           Y == {l[2 * i - 1] : i \in 1..t}
           E == {l[2 * i] : i \in 1..kept}
           B == {l[i] : i \in 1..q}
<1>1. EveryOther(l, missing).taken = c /\ EveryOther(l, missing).left = e \o r
      BY DEF EveryOther
<1>2. l \in Seq(Nat) /\ L \in Nat
      BY DEF Lists
<1>3. t \in Nat /\ t = IF missing > 0 THEN missing ELSE 0
      BY DEF Max
<1>4. 2 * t <= L + 1
      BY <1>2, <1>3 DEF SecondPassPanics
<1> HIDE DEF t
<1>5. kept \in Nat /\ kept <= t /\ q \in 0..L /\ (q = 2 * kept \/ q = 2 * kept + 1)
      /\ (2 * t <= L => kept = t) /\ (2 * t > L => 2 * t = L + 1 /\ kept = t - 1 /\ q = 2 * t - 1)
  <2>1. L \div 2 \in Nat /\ (L = 2 * (L \div 2) \/ L = 2 * (L \div 2) + 1)
        BY <1>2
  <2> DEFINE d == L \div 2
  <2> HIDE DEF d, L
  <2>2. kept = IF t <= d THEN t ELSE d
        BY <1>3, <2>1 DEF Min, d
  <2> HIDE DEF kept
  <2> QED
        BY <1>2, <1>3, <1>4, <2>1, <2>2 DEF d
<1> HIDE DEF kept
<1>6. \A i \in 1..t : 2 * i - 1 \in 1..q /\ 2 * i - 1 \in 1..L
      BY <1>2, <1>3, <1>4, <1>5
<1>7. \A i \in 1..kept : 2 * i \in 1..q /\ 2 * i \in 1..L
      BY <1>2, <1>3, <1>4, <1>5
<1>8. \A p \in 1..q : (\E i \in 1..t : p = 2 * i - 1) \/ \E i \in 1..kept : p = 2 * i
  <2> SUFFICES ASSUME NEW p \in 1..q PROVE (\E i \in 1..t : p = 2 * i - 1) \/ \E i \in 1..kept : p = 2 * i
      OBVIOUS
  <2> DEFINE h == p \div 2
  <2>1. h \in Nat /\ p \in Nat /\ (p = 2 * h \/ p = 2 * (h + 1) - 1)
        BY <1>5
  <2> HIDE DEF h
  <2>2. CASE p = 2 * h
    <3>1. h \in 1..kept
          BY <1>3, <1>5, <2>1, <2>2
    <3> QED
          BY <2>2, <3>1
  <2>3. CASE p = 2 * (h + 1) - 1
    <3>1. h + 1 \in 1..t
          BY <1>2, <1>3, <1>4, <1>5, <2>1, <2>3
    <3> QED
          BY <2>3, <3>1
  <2> QED
        BY <2>1, <2>2, <2>3
<1>9. Lists(c, Y) /\ Len(c) = t
  <2>1. c \in Seq(Nat) /\ Len(c) = t /\ \A i \in 1..t : c[i] = l[2 * i - 1]
    <3>1. \A i \in 1..t : l[2 * i - 1] \in Nat
          BY <1>2, <1>6 DEF Lists
    <3> QED
          BY <1>3, <3>1
  <2> HIDE DEF c
  <2>2. \A i, j \in 1..t : c[i] = c[j] => i = j
    <3> SUFFICES ASSUME NEW i \in 1..t, NEW j \in 1..t, c[i] = c[j] PROVE i = j
        OBVIOUS
    <3>1. 2 * i - 1 \in 1..Len(l) /\ 2 * j - 1 \in 1..Len(l)
          BY <1>6
    <3>2. l[2 * i - 1] = l[2 * j - 1]
          BY <2>1
    <3>3. 2 * i - 1 = 2 * j - 1
          BY <3>1, <3>2, Zenon DEF Lists
    <3> QED
          BY <1>3, <3>3
  <2>3. (\A i \in 1..t : c[i] \in Y) /\ \A y \in Y : \E i \in 1..t : c[i] = y
        BY <2>1
  <2> QED
        BY <2>1, <2>2, <2>3 DEF Lists
<1>10. Lists(e, E)
  <2>1. e \in Seq(Nat) /\ Len(e) = kept /\ \A i \in 1..kept : e[i] = l[2 * i]
    <3>1. \A i \in 1..kept : l[2 * i] \in Nat
          BY <1>2, <1>7 DEF Lists
    <3> QED
          BY <1>5, <3>1
  <2> HIDE DEF e
  <2>2. \A i, j \in 1..kept : e[i] = e[j] => i = j
    <3> SUFFICES ASSUME NEW i \in 1..kept, NEW j \in 1..kept, e[i] = e[j] PROVE i = j
        OBVIOUS
    <3>1. 2 * i \in 1..Len(l) /\ 2 * j \in 1..Len(l)
          BY <1>7
    <3>2. l[2 * i] = l[2 * j]
          BY <2>1
    <3>3. 2 * i = 2 * j
          BY <3>1, <3>2, Zenon DEF Lists
    <3> QED
          BY <1>5, <3>3
  <2>3. (\A i \in 1..kept : e[i] \in E) /\ \A y \in E : \E i \in 1..kept : e[i] = y
        BY <2>1
  <2> QED
        BY <2>1, <2>2, <2>3 DEF Lists
<1>11. Lists(r, X \ B)
  <2>1. CASE 2 * t <= L
    <3>1. 2 * t \in 0..L /\ q = 2 * t
          BY <1>2, <1>3, <2>1
    <3> DEFINE a == 2 * t
    <3>2. a \in 0..Len(l) /\ B = {l[i] : i \in 1..a}
          BY <3>1
    <3> HIDE DEF a, B
    <3>3. Lists(SubSeq(l, a + 1, Len(l)), X \ {l[i] : i \in 1..a})
          BY <3>2, ListsCut, Zenon
    <3> QED
          BY <3>2, <3>3 DEF a
  <2>2. CASE ~(2 * t <= L)
    <3>1. q = L /\ 2 * t + 1 > L /\ 2 * t + 1 \in Int
          BY <1>2, <1>3, <2>2
    <3>2. r = <<>>
          BY <1>2, <3>1
    <3>3. X \ B = {}
          BY <3>1, ListsPrefix
    <3> QED
          BY <3>2, <3>3, ListsEmpty
  <2> QED
        BY <2>1, <2>2
<1>12. E \subseteq B /\ Y \subseteq B /\ B \subseteq E \cup Y
      BY <1>6, <1>7, <1>8
<1>13. E \cap Y = {}
  <2> SUFFICES ASSUME NEW i \in 1..kept, NEW j \in 1..t, l[2 * i] = l[2 * j - 1] PROVE FALSE
      OBVIOUS
  <2>1. 2 * i = 2 * j - 1
        BY <1>6, <1>7 DEF Lists
  <2> QED
        BY <1>3, <1>5, <2>1
<1>14. B \subseteq X
  <2>1. \A i \in 1..q : i \in 1..L
        BY <1>2, <1>5
  <2> QED
        BY <2>1 DEF Lists
<1> HIDE DEF c, e, r, Y, E, B
<1>15. E \cap (X \ B) = {} /\ E \cup (X \ B) = X \ Y /\ Y \in SUBSET X
      BY <1>12, <1>13, <1>14
<1>16. Lists(e \o r, X \ Y)
      BY <1>10, <1>11, <1>15, ListsConcat
<1>17. Divided(c, e \o r, X)
      BY <1>9, <1>15, <1>16 DEF Divided
<1> QED
      BY <1>1, <1>3, <1>9, <1>17
-----------------------------------------------------------------------------
(***************************************************************************)
(* The two planners.                                                       *)
(***************************************************************************)
\* The sizes of a part of a finite set and of the rest.
LEMMA PartSize ==
    ASSUME NEW X, IsFiniteSet(X), NEW Y, Y \subseteq X
    PROVE  /\ IsFiniteSet(Y) /\ IsFiniteSet(X \ Y)
           /\ Cardinality(X) \in Nat /\ Cardinality(Y) \in Nat /\ Cardinality(X \ Y) \in Nat
           /\ Cardinality(X) = Cardinality(Y) + Cardinality(X \ Y)
<1>1. X \cap Y = Y
      OBVIOUS
<1>2. IsFiniteSet(X \ Y) /\ Cardinality(X \ Y) = Cardinality(X) - Cardinality(Y)
      BY <1>1, FS_Difference
<1>3. IsFiniteSet(Y)
      BY FS_Subset
<1>4. Cardinality(X) \in Nat /\ Cardinality(Y) \in Nat /\ Cardinality(X \ Y) \in Nat
      BY <1>2, <1>3, FS_CardinalityType
<1> QED
      BY <1>2, <1>3, <1>4

\* A plan for a new cluster: half masters, half slaves, all different.
NewPlan(a, X, half) ==
    \E M \in SUBSET X : \E S \in SUBSET (X \ M) :
       /\ Lists(a.masters, M) /\ Len(a.masters) = half
       /\ Lists(a.slaves, S) /\ Len(a.slaves) = half

LEMMA assignResult ==
    ASSUME NEW l, NEW X, Lists(l, X), NEW node, \A x \in X : node[x] \in Int
    PROVE  NewPlan(assignMasterSlaveIP(l, node), X, Len(l) \div 2)
<1> DEFINE spread == Interleaved(l, node)
           count == Len(l) \div 2
           ms == SubSeq(spread, 1, count)
           cut == SubSeq(spread, count + 1, Len(spread))
           rest == RotateOnce(cut)
           picked == PickSlaves(ms, rest, node)
           M == {spread[i] : i \in 1..count}
<1>1. /\ assignMasterSlaveIP(l, node).masters = ms
      /\ assignMasterSlaveIP(l, node).slaves = picked.slaves
      BY DEF assignMasterSlaveIP
<1>2. Lists(spread, X) /\ Len(spread) = Len(l)
      BY ListsInterleaved
<1>3. Len(l) \in Nat /\ count \in 0..Len(l) /\ 2 * count <= Len(l)
      BY DEF Lists
<1> HIDE DEF spread, count
<1>4. /\ Lists(ms, M) /\ Len(ms) = count /\ M \subseteq X
      /\ Lists(cut, X \ M) /\ Len(cut) = Len(l) - count
  <2>1. count \in 0..Len(spread)
        BY <1>2, <1>3
  <2>2. /\ Lists(ms, M) /\ Len(ms) = count /\ M \subseteq X
        /\ Lists(cut, X \ M) /\ Len(cut) = Len(spread) - count
        BY <1>2, <2>1, ListsCut, Zenon
  <2> QED
        BY <1>2, <2>2
<1> HIDE DEF M, ms, cut
<1>5. Lists(rest, X \ M) /\ Len(rest) = Len(l) - count
      BY <1>4, ListsRotate
<1> HIDE DEF rest
<1>6. picked \in Picking /\ Picked(picked, Len(ms), ms, X \ M)
  <2>1. ms \in Seq(Nat)
        BY <1>4 DEF Lists
  <2> QED
        BY <1>5, <2>1, PickSlavesResult
<1> HIDE DEF picked
<1>7. PICK S \in SUBSET (X \ M) : Lists(picked.slaves, S) /\ Lists(picked.left, (X \ M) \ S)
      BY <1>6 DEF Picked, Divided
<1>8. Len(picked.slaves) = count
  <2>1. /\ IsFiniteSet(X \ M) /\ Cardinality(X \ M) = Len(l) - count
        /\ Cardinality(S) = Len(picked.slaves)
        /\ Cardinality((X \ M) \ S) = Len(picked.left)
        BY <1>5, <1>7, ListsSize
  <2>2. Len(l) - count = Len(picked.slaves) + Len(picked.left) /\ Len(picked.slaves) \in Nat
    <3> DEFINE R == X \ M
    <3>1. /\ IsFiniteSet(R) /\ S \subseteq R /\ Cardinality(R) = Len(l) - count
          /\ Cardinality(R \ S) = Len(picked.left)
          BY <2>1
    <3> HIDE DEF R
    <3>2. Cardinality(R) = Cardinality(S) + Cardinality(R \ S) /\ Cardinality(S) \in Nat
          BY <3>1, PartSize
    <3> QED
          BY <2>1, <3>1, <3>2
  <2>3. Len(picked.slaves) <= count /\ (Len(picked.slaves) < count => picked.left = <<>>)
        BY <1>4, <1>6 DEF Picked
  <2>4. picked.left = <<>> => Len(l) - count = Len(picked.slaves)
        BY <1>3, <2>2
  <2>5. count \in Nat
        BY <1>3
  <2>6. Len(picked.slaves) \in Nat
        BY <2>2
  <2>7. ~(Len(picked.slaves) < count)
        BY <1>3, <2>3, <2>4, <2>5, <2>6
  <2> QED
        BY <2>3, <2>5, <2>6, <2>7
<1> QED
      BY <1>1, <1>4, <1>7, <1>8 DEF NewPlan, count

\* A plan for a cluster that has masters, of which those in having have a slave,
\* and room for more of them; new are the addresses outside the cluster.  The
\* plan gives each master without a slave one slave at most.
AddPlan(p, masters, having, new, room) ==
    \E M \in SUBSET new : \E S \in SUBSET (new \ M) :
       \E Q \in SUBSET ((masters \cup M) \ having) :
          /\ Lists(p.masters, M) /\ Len(p.masters) <= room
          /\ Lists(p.slaves, S) /\ Lists(p.parents, Q) /\ Len(p.parents) = Len(p.slaves)

\* A plan that leaves nothing to be done.
FullPlan(p, masters, having, new, room) ==
    \E M \in SUBSET new : \E Q \in SUBSET (masters \cup M) :
       /\ Lists(p.masters, M) /\ Len(p.masters) = room
       /\ Lists(p.slaves, new \ M) /\ Lists(p.parents, Q) /\ having \cup Q = masters \cup M

\* The first part of a list of slaves goes with that of their parents.
LEMMA PickedParents ==
    ASSUME NEW a \in Picking, NEW ms, NEW Z, Lists(ms, Z), NEW X, Picked(a, Len(ms), ms, X)
    PROVE  \E Q \in SUBSET Z : /\ Lists(a.parents, Q) /\ Len(a.parents) = Len(a.slaves)
                               /\ Len(a.slaves) = Len(ms) => Q = Z
<1> DEFINE c == Len(a.slaves)
           Q == {ms[i] : i \in 1..c}
<1>1. /\ ms \in Seq(Nat) /\ Len(ms) \in Nat /\ a.parents \in Seq(Nat) /\ a.slaves \in Seq(Nat)
      /\ Len(a.parents) = c /\ c \in Nat /\ c <= Len(ms)
      BY DEF Picked, Picking, Lists
<1>2. \A j \in 1..c : a.parents[j] = ms[j]
      BY DEF Picked
<1> HIDE DEF c
<1>3. c \in 0..Len(ms)
      BY <1>1
<1>4. Lists(SubSeq(ms, 1, c), Q) /\ Q \subseteq Z
      BY <1>3, ListsCut
<1>5. a.parents = SubSeq(ms, 1, c)
  <2>1. SubSeq(ms, 1, c) \in Seq(Nat) /\ Len(SubSeq(ms, 1, c)) = c
        /\ \A j \in 1..c : SubSeq(ms, 1, c)[j] = ms[j]
        BY <1>1, <1>3
  <2> QED
        BY <1>1, <1>2, <2>1
<1>6. c = Len(ms) => Q = Z
      BY ListsPrefix
<1> HIDE DEF Q
<1> QED
      BY <1>1, <1>4, <1>5, <1>6 DEF c

\* The plan is computed without a panic and without an endless loop, and it is
\* sound; for an even number of addresses it leaves nothing to be done.
LEMMA composeResult ==
    ASSUME NEW l, NEW X, Lists(l, X), NEW node, \A x \in X : node[x] \in Int,
           NEW masters, NEW slaves, NEW having, masters \subseteq X, slaves \subseteq X,
           masters \cap slaves = {}, having \subseteq masters,
           Cardinality(slaves) = Cardinality(having), Cardinality(masters) <= Len(l) \div 2
    PROVE  LET p == composeMasterSlaveIP(l, node, masters, slaves, having)
               new == X \ (masters \cup slaves)
               room == Len(l) \div 2 - Cardinality(masters)
           IN  /\ p.result = "plan"
               /\ AddPlan(p, masters, having, new, room)
               /\ Len(l) % 2 = 0 => FullPlan(p, masters, having, new, room)
<1> DEFINE p == composeMasterSlaveIP(l, node, masters, slaves, having)
           new == X \ (masters \cup slaves)
           half == Len(l) \div 2
           willAdd == Among(l, ToSet(l) \ (masters \cup slaves))
           count == willAssignMasterCount(l, masters)
           first == OnFreeNodes(willAdd, node, masters \cap ToSet(l), count)
           missing == count - Len(first.taken)
           second == EveryOther(first.left, missing)
           added == first.taken \o second.taken
           existing == Among(l, masters)
           noSlave == MastersWithoutSlave(existing \o added, having)
           rest == Interleaved(second.left, node)
           picked == PickSlaves(noSlave, rest, node)
           C == Cardinality(masters)
           H == Cardinality(having)
<1>1. p = IF willAdd = <<>> THEN NothingToAdd
          ELSE IF SecondPassPanics(first.left, missing)
          THEN [NothingToAdd EXCEPT !.result = "panic"]
          ELSE IF ~InterleaveStops(second.left)
          THEN [NothingToAdd EXCEPT !.result = "hang"]
          ELSE [result |-> "plan", masters |-> added,
                slaves |-> picked.slaves, parents |-> picked.parents]
      BY DEF composeMasterSlaveIP
<1> HIDE DEF p
<1>2. /\ IsFiniteSet(X) /\ Cardinality(X) = Len(l) /\ Len(l) \in Nat /\ ToSet(l) = X
      /\ X \subseteq Nat
      BY ListsSize, ListsToSet
<1>3. /\ half \in Nat /\ 2 * half <= Len(l) /\ (Len(l) % 2 = 0 => Len(l) = 2 * half)
      /\ Len(l) <= 2 * half + 1
      BY <1>2
<1>4. C \in Nat /\ H \in Nat /\ H <= C /\ IsFiniteSet(masters) /\ IsFiniteSet(having)
      /\ (H = C => having = masters)
  <2>1. IsFiniteSet(masters)
        BY <1>2, FS_Subset
  <2> QED
        BY <2>1, FS_Subset, FS_CardinalityType
<1>5. Cardinality(new) = Len(l) - C - H /\ IsFiniteSet(new)
  <2>1. /\ IsFiniteSet(X \ masters) /\ Cardinality(X) = C + Cardinality(X \ masters)
        /\ Cardinality(X \ masters) \in Nat
        BY <1>2, PartSize
  <2>2. slaves \subseteq X \ masters /\ new = (X \ masters) \ slaves
        OBVIOUS
  <2>3. /\ Cardinality(X \ masters) = Cardinality(slaves) + Cardinality(new)
        /\ Cardinality(new) \in Nat /\ IsFiniteSet(new)
        BY <2>1, <2>2, PartSize
  <2> QED
        BY <1>2, <1>4, <2>1, <2>3
<1>6. count = half - C /\ count \in Nat
      BY <1>3, <1>4 DEF willAssignMasterCount
<1>7. Lists(willAdd, new)
  <2>1. X \cap (ToSet(l) \ (masters \cup slaves)) = new
        BY <1>2
  <2>2. Lists(willAdd, X \cap (ToSet(l) \ (masters \cup slaves)))
        BY ListsAmong
  <2> QED
        BY <2>1, <2>2
<1> HIDE DEF half, willAdd, count, C, H
<1>8. CASE willAdd = <<>>
  <2>1. p = NothingToAdd
        BY <1>1, <1>8
  <2>2. p.result = "plan" /\ p.masters = <<>> /\ p.slaves = <<>> /\ p.parents = <<>>
        BY <2>1 DEF NothingToAdd
  <2>3. new = {}
        BY <1>7, <1>8, ListsEmpty
  <2> HIDE DEF new
  <2>4. Lists(<<>>, {}) /\ Len(<<>>) = 0
        BY ListsEmpty
  <2>5. AddPlan(p, masters, having, new, half - C)
    <3>1. 0 <= half - C
          BY <1>6
    <3> QED
          BY <2>2, <2>3, <2>4, <3>1 DEF AddPlan
  <2>6. ASSUME Len(l) % 2 = 0 PROVE FullPlan(p, masters, having, new, half - C)
    <3>1. Cardinality(new) = 0
          BY <2>3, FS_EmptySet
    <3>2. H = C /\ half - C = 0
          BY <1>2, <1>3, <1>4, <1>5, <1>6, <2>6, <3>1
    <3>3. having \cup {} = masters \cup {} /\ new \ {} = {}
          BY <1>4, <2>3, <3>2
    <3> QED
          BY <2>2, <2>3, <2>4, <3>2, <3>3 DEF FullPlan
  <2> QED
        BY <2>2, <2>5, <2>6, Zenon DEF p, half, C, new
<1>9. CASE willAdd # <<>>
  <2>1. first \in Spreading /\ Spread(first, count, new)
        BY <1>6, <1>7, OnFreeNodesResult
  <2> HIDE DEF first, new
  <2>2. PICK F \in SUBSET new : Lists(first.taken, F) /\ Lists(first.left, new \ F)
        BY <2>1 DEF Spread, Divided
  <2>3. /\ Len(first.taken) \in Nat /\ Len(first.left) \in Nat /\ Len(first.taken) <= count
        /\ Cardinality(F) = Len(first.taken) /\ Cardinality(new \ F) = Len(first.left)
        /\ IsFiniteSet(new \ F)
        BY <1>6, <2>1, <2>2, ListsSize DEF Spread
  <2>4. Len(l) - C - H = Len(first.taken) + Len(first.left)
        BY <1>5, <2>2, <2>3, PartSize
  <2>5. missing \in Nat /\ missing = count - Len(first.taken)
        BY <1>6, <2>3
  <2> HIDE DEF missing
  <2>6. ~SecondPassPanics(first.left, missing)
    <3> DEFINE f == Len(first.taken)
               e == Len(first.left)
    <3>1. f \in Nat /\ e \in Nat /\ missing = half - C - f /\ Len(l) - C - H = f + e
          BY <1>6, <2>3, <2>4, <2>5
    <3> HIDE DEF f, e
    <3>2. 2 * missing <= e
          BY <1>2, <1>3, <1>4, <3>1
    <3>3. ~(2 * (missing - 1) >= e)
          BY <2>5, <3>1, <3>2
    <3> QED
          BY <3>3, Zenon DEF SecondPassPanics, e
  <2>7. Divided(second.taken, second.left, new \ F) /\ Len(second.taken) = missing
    <3>1. /\ Divided(second.taken, second.left, new \ F)
          /\ Len(second.taken) = IF missing > 0 THEN missing ELSE 0
          BY <2>2, <2>5, <2>6, EveryOtherResult
    <3> HIDE DEF second
    <3> QED
          BY <2>5, <3>1
  <2> HIDE DEF second
  <2>8. PICK G \in SUBSET (new \ F) : Lists(second.taken, G) /\ Lists(second.left, (new \ F) \ G)
        BY <2>7 DEF Divided
  <2> DEFINE M == F \cup G
  <2>9. /\ M \in SUBSET new /\ F \cap G = {} /\ (new \ F) \ G = new \ M
        /\ M \subseteq X /\ M \cap masters = {} /\ new \subseteq X
        BY <2>2, <2>8 DEF new
  <2>10. Lists(added, M) /\ Len(added) = count
    <3>1. Lists(added, M)
          BY <2>2, <2>8, <2>9, ListsConcat
    <3>2. first.taken \in Seq(Nat) /\ second.taken \in Seq(Nat)
          BY <2>2, <2>8 DEF Lists
    <3>3. Len(added) = Len(first.taken) + Len(second.taken)
          BY <3>2
    <3> QED
          BY <1>6, <2>3, <2>5, <2>7, <3>1, <3>3
  <2> HIDE DEF added
  <2>11. /\ Lists(second.left, new \ M)
         /\ Cardinality(new \ M) = Len(l) - half - H /\ Len(second.left) = Len(l) - half - H
    <3>1. Lists(second.left, new \ M)
          BY <2>8, <2>9
    <3>2. Cardinality(M) = count /\ Cardinality(new \ M) = Len(second.left)
          BY <2>10, <3>1, ListsSize
    <3>3. Cardinality(new) = Cardinality(M) + Cardinality(new \ M) /\ Cardinality(new \ M) \in Nat
          BY <1>5, <2>9, PartSize
    <3> QED
          BY <1>2, <1>3, <1>4, <1>5, <1>6, <3>1, <3>2, <3>3
  <2> HIDE DEF M
  <2>12. InterleaveStops(second.left)
    <3> SUFFICES ASSUME second.left = <<>> PROVE FALSE
        BY DEF InterleaveStops
    <3>1. Len(l) - half - H = 0
          BY <2>11
    <3>2. Len(l) - C - H = 0
          BY <1>2, <1>3, <1>4, <1>6, <3>1
    <3>3. new = {}
          BY <1>5, <3>2, FS_EmptySet
    <3> QED
          BY <1>7, <1>9, <3>3, ListsEmpty
  <2>13. p = [result |-> "plan", masters |-> added,
              slaves |-> picked.slaves, parents |-> picked.parents]
        BY <1>1, <1>9, <2>6, <2>12
  <2>14. Lists(rest, new \ M) /\ Len(rest) = Len(l) - half - H
    <3>1. \A x \in new \ M : node[x] \in Int
          BY <2>9
    <3> QED
          BY <2>11, <3>1, ListsInterleaved
  <2> HIDE DEF rest
  <2> DEFINE all == masters \cup M
  <2>15. Lists(existing \o added, all)
    <3>1. Lists(existing, X \cap masters) /\ X \cap masters = masters
          BY ListsAmong
    <3> HIDE DEF existing
    <3>2. Lists(existing, masters) /\ masters \cap M = {}
          BY <2>9, <3>1
    <3> QED
          BY <2>10, <3>2, ListsConcat
  <2>16. Lists(noSlave, all \ having)
    <3> DEFINE ea == existing \o added
    <3>1. Lists(ea, all) /\ ToSet(ea) = all
          BY <2>15, ListsToSet
    <3> HIDE DEF ea, all
    <3>2. Lists(Among(ea, all \ having), all \cap (all \ having))
          BY <3>1, ListsAmong
    <3>3. all \cap (all \ having) = all \ having
          OBVIOUS
    <3> QED
          BY <3>1, <3>2, <3>3 DEF MastersWithoutSlave, ea
  <2> HIDE DEF noSlave, existing
  <2>17. Len(noSlave) = half - H
    <3>1. Cardinality(M) = count /\ IsFiniteSet(M)
          BY <2>10, ListsSize
    <3>2. all \ masters = M /\ masters \subseteq all /\ having \subseteq all
          BY <2>9
    <3>3. IsFiniteSet(all)
          BY <1>4, <3>1, FS_Union
    <3>4. Cardinality(all) = C + count
          BY <3>1, <3>2, <3>3, PartSize DEF C
    <3>5. Cardinality(all) = H + Cardinality(all \ having) /\ Cardinality(all \ having) \in Nat
          BY <3>2, <3>3, PartSize DEF H
    <3>6. Cardinality(all \ having) = Len(noSlave)
          BY <2>16, ListsSize
    <3> QED
          BY <1>3, <1>4, <1>6, <3>4, <3>5, <3>6
  <2>18. picked \in Picking /\ Picked(picked, Len(noSlave), noSlave, new \ M)
    <3>1. noSlave \in Seq(Nat)
          BY <2>16 DEF Lists
    <3> QED
          BY <2>14, <3>1, PickSlavesResult
  <2> HIDE DEF picked
  <2>19. PICK S \in SUBSET (new \ M) : Lists(picked.slaves, S) /\ Lists(picked.left, (new \ M) \ S)
        BY <2>18 DEF Picked, Divided
  <2>20. PICK Q \in SUBSET (all \ having) :
            /\ Lists(picked.parents, Q) /\ Len(picked.parents) = Len(picked.slaves)
            /\ Len(picked.slaves) = Len(noSlave) => Q = all \ having
        BY <2>16, <2>18, PickedParents
  <2>21. /\ p.result = "plan" /\ p.masters = added /\ p.slaves = picked.slaves
         /\ p.parents = picked.parents
        BY <2>13
  <2>22. AddPlan(p, masters, having, new, half - C)
    <3>1. Len(added) <= half - C
          BY <1>6, <2>10
    <3> QED
          BY <2>9, <2>10, <2>19, <2>20, <2>21, <3>1 DEF AddPlan
  <2>23. ASSUME Len(l) % 2 = 0 PROVE FullPlan(p, masters, having, new, half - C)
    <3>1. Len(noSlave) = Cardinality(new \ M)
          BY <1>3, <2>11, <2>17, <2>23
    <3>2. /\ Cardinality(S) = Len(picked.slaves) /\ Len(picked.slaves) \in Nat
          /\ Cardinality((new \ M) \ S) = Len(picked.left) /\ IsFiniteSet(new \ M)
          BY <2>14, <2>19, ListsSize
    <3>3. Cardinality(new \ M) = Cardinality(S) + Cardinality((new \ M) \ S)
          /\ Cardinality((new \ M) \ S) \in Nat
          BY <3>2, PartSize
    <3>4. Len(picked.slaves) < Len(noSlave) => Len(picked.left) = 0
          BY <2>18 DEF Picked
    <3>5. Len(picked.slaves) = Len(noSlave) /\ Cardinality(S) = Cardinality(new \ M)
          BY <3>1, <3>2, <3>3, <3>4
    <3>6. S = new \ M
          BY <3>2, <3>5, FS_Subset
    <3>7. Q \in SUBSET all /\ having \cup Q = all
          BY <2>20, <3>5
    <3> QED
          BY <1>6, <2>9, <2>10, <2>19, <2>20, <2>21, <3>6, <3>7 DEF FullPlan
  <2> QED
        BY <2>21, <2>22, <2>23, Zenon DEF p, half, C, new
<1> QED
      BY <1>8, <1>9

\* What every plan for a cluster keeps to, however many masters and slaves the
\* cluster has: new masters and slaves are addresses outside of it, all different,
\* and the masters they go to are different and have no slave yet.
SoundPlan(p, masters, having, new) ==
    \E M \in SUBSET new : \E S \in SUBSET new : \E Q \in SUBSET ((masters \cup M) \ having) :
       /\ Lists(p.masters, M) /\ Lists(p.slaves, S)
       /\ Lists(p.parents, Q) /\ Len(p.parents) = Len(p.slaves)

LEMMA composeSound ==
    ASSUME NEW l, NEW X, Lists(l, X), NEW node, \A x \in X : node[x] \in Int,
           NEW masters, NEW slaves, NEW having, IsFiniteSet(masters)
    PROVE  LET p == composeMasterSlaveIP(l, node, masters, slaves, having)
           IN  /\ p.result \in {"plan", "hang", "panic"}
               /\ SoundPlan(p, masters, having, X \ (masters \cup slaves))
<1> DEFINE p == composeMasterSlaveIP(l, node, masters, slaves, having)
           new == X \ (masters \cup slaves)
           willAdd == Among(l, ToSet(l) \ (masters \cup slaves))
           count == willAssignMasterCount(l, masters)
           first == OnFreeNodes(willAdd, node, masters \cap ToSet(l), count)
           missing == count - Len(first.taken)
           second == EveryOther(first.left, missing)
           added == first.taken \o second.taken
           existing == Among(l, masters)
           noSlave == MastersWithoutSlave(existing \o added, having)
           rest == Interleaved(second.left, node)
           picked == PickSlaves(noSlave, rest, node)
<1>1. p = IF willAdd = <<>> THEN NothingToAdd
          ELSE IF SecondPassPanics(first.left, missing)
          THEN [NothingToAdd EXCEPT !.result = "panic"]
          ELSE IF ~InterleaveStops(second.left)
          THEN [NothingToAdd EXCEPT !.result = "hang"]
          ELSE [result |-> "plan", masters |-> added,
                slaves |-> picked.slaves, parents |-> picked.parents]
      BY DEF composeMasterSlaveIP
<1> HIDE DEF p
<1>2. Len(l) \in Nat /\ ToSet(l) = X
      BY ListsSize, ListsToSet
<1>3. count \in Int
      BY <1>2, FS_CardinalityType DEF willAssignMasterCount
<1>4. Lists(willAdd, new)
  <2>1. X \cap (ToSet(l) \ (masters \cup slaves)) = new
        BY <1>2
  <2>2. Lists(willAdd, X \cap (ToSet(l) \ (masters \cup slaves)))
        BY ListsAmong
  <2> QED
        BY <2>1, <2>2
<1> HIDE DEF willAdd, count
<1>5. first \in Spreading /\ Spread(first, count, new)
      BY <1>3, <1>4, OnFreeNodesResult
<1>6. new \subseteq X /\ new \cap masters = {}
      OBVIOUS
<1> HIDE DEF first, new
<1>7. PICK F \in SUBSET new : Lists(first.taken, F) /\ Lists(first.left, new \ F)
      BY <1>5 DEF Spread, Divided
<1>8. missing \in Int
      BY <1>3, <1>7, ListsSize
<1> HIDE DEF missing
<1>9. CASE p = NothingToAdd \/ \E r \in {"hang", "panic"} : p = [NothingToAdd EXCEPT !.result = r]
  <2>1. /\ p.result \in {"plan", "hang", "panic"}
        /\ p.masters = <<>> /\ p.slaves = <<>> /\ p.parents = <<>>
        BY <1>9 DEF NothingToAdd
  <2>2. SoundPlan(p, masters, having, new)
        BY <2>1, ListsEmpty DEF SoundPlan
  <2> QED
        BY <2>1, <2>2, Zenon DEF p, new
<1>10. CASE /\ ~SecondPassPanics(first.left, missing)
            /\ p = [result |-> "plan", masters |-> added,
                    slaves |-> picked.slaves, parents |-> picked.parents]
  <2>1. Divided(second.taken, second.left, new \ F)
        BY <1>7, <1>8, <1>10, EveryOtherResult
  <2> HIDE DEF second
  <2>2. PICK G \in SUBSET (new \ F) : Lists(second.taken, G) /\ Lists(second.left, (new \ F) \ G)
        BY <2>1 DEF Divided
  <2> DEFINE M == F \cup G
             all == (X \cap masters) \cup M
  <2>3. /\ M \in SUBSET new /\ F \cap G = {} /\ (new \ F) \ G = new \ M
        /\ (X \cap masters) \cap M = {} /\ new \ M \subseteq X /\ new \ M \subseteq new
        BY <1>6, <1>7, <2>2
  <2>4. Lists(added, M)
        BY <1>7, <2>2, <2>3, ListsConcat
  <2>5. Lists(existing, X \cap masters)
        BY ListsAmong
  <2>6. Lists(second.left, new \ M)
        BY <2>2, <2>3
  <2> HIDE DEF M, existing, added
  <2>7. Lists(rest, new \ M)
    <3>1. \A x \in new \ M : node[x] \in Int
          BY <2>3
    <3> QED
          BY <2>6, <3>1, ListsInterleaved
  <2> HIDE DEF rest
  <2>8. Lists(noSlave, all \ having)
    <3> DEFINE ea == existing \o added
    <3>1. Lists(ea, all) /\ ToSet(ea) = all
          BY <2>3, <2>4, <2>5, ListsConcat, ListsToSet
    <3> HIDE DEF ea, all
    <3>2. Lists(Among(ea, all \ having), all \cap (all \ having))
          BY <3>1, ListsAmong
    <3>3. all \cap (all \ having) = all \ having
          OBVIOUS
    <3> QED
          BY <3>1, <3>2, <3>3 DEF MastersWithoutSlave, ea
  <2> HIDE DEF noSlave
  <2>9. picked \in Picking /\ Picked(picked, Len(noSlave), noSlave, new \ M)
    <3>1. noSlave \in Seq(Nat)
          BY <2>8 DEF Lists
    <3> QED
          BY <2>7, <3>1, PickSlavesResult
  <2> HIDE DEF picked
  <2>10. PICK S \in SUBSET (new \ M) : Lists(picked.slaves, S)
        BY <2>9 DEF Picked, Divided
  <2>11. PICK Q \in SUBSET (all \ having) :
            Lists(picked.parents, Q) /\ Len(picked.parents) = Len(picked.slaves)
        BY <2>8, <2>9, PickedParents
  <2>12. /\ p.result = "plan" /\ p.masters = added /\ p.slaves = picked.slaves
         /\ p.parents = picked.parents
        BY <1>10
  <2>13. Q \in SUBSET ((masters \cup M) \ having) /\ S \in SUBSET new
        BY <2>3, <2>10, <2>11
  <2>14. SoundPlan(p, masters, having, new)
        BY <2>3, <2>4, <2>10, <2>11, <2>12, <2>13 DEF SoundPlan
  <2> QED
        BY <2>12, <2>14, Zenon DEF p, new
<1> QED
      BY <1>1, <1>9, <1>10, Zenon
=============================================================================
