----------------------------- MODULE PartsProofs -----------------------------
(***************************************************************************)
(* The algorithms of PartsMC: the configuration, for every environment;    *)
(* the metrics, for every evaluation; the passages of an answer, for every *)
(* list of hits; the ranking of chunks, for every one-line question; and   *)
(* the chunks of every text.                                               *)
(* First, what these proofs and those of OperationsProofs need of numbers, *)
(* finite sets and sequences: least and greatest members, sums, sorting.   *)
(***************************************************************************)
EXTENDS PartsMC, FiniteSetTheorems, WellFoundedInduction, TLAPS

-----------------------------------------------------------------------------
(* Numbers and finite sets *)

\* A set of natural numbers that is not empty has a least member.
LEMMA LeastNumber ==
    ASSUME NEW S \in SUBSET Nat, S # {}
    PROVE  \E m \in S : \A n \in S : m <= n
<1>1. PICK R : IsWellFoundedOn(R, Nat) /\ \A x, y \in Nat : y < x => <<y, x>> \in R
  <2> DEFINE R == OpToRel(<, Nat)
  <2>1. IsWellFoundedOn(R, Nat)
    BY NatLessThanWellFounded
  <2>2. \A x, y \in Nat : y < x => <<y, x>> \in R
    BY DEF OpToRel
  <2> HIDE DEF R
  <2> QED
    BY <2>1, <2>2
<1>2. PICK m \in S : \A y \in S : ~ (<<y, m>> \in R)
  BY <1>1, WFMin
<1>3. \A n \in S : ~ (n < m)
  BY <1>1, <1>2
<1> QED
  BY <1>3

\* One that is bounded as well has a greatest.
LEMMA GreatestNumber ==
    ASSUME NEW S \in SUBSET Nat, S # {}, NEW b \in Nat, \A n \in S : n <= b
    PROVE  \E m \in S : \A n \in S : n <= m
<1> DEFINE Bounds == {m \in Nat : \A n \in S : n <= m}
<1>1. PICK m \in Bounds : \A n \in Bounds : m <= n
  <2>1. b \in Bounds
    OBVIOUS
  <2> HIDE DEF Bounds
  <2>2. Bounds \in SUBSET Nat
    BY DEF Bounds
  <2> QED
    BY <2>1, <2>2, LeastNumber
<1>2. CASE m \in S
  BY <1>2
<1>3. CASE m \notin S
  <2>1. \A n \in S : n < m
    BY <1>3
  <2>2. m - 1 \in Nat
    <3>1. PICK n \in S : TRUE
      OBVIOUS
    <3> QED
      BY <2>1, <3>1
  <2>3. m - 1 \in Bounds
    BY <2>1, <2>2
  <2> QED
    BY <1>1, <2>3
<1> QED
  BY <1>2, <1>3

\* So has one that is finite.
LEMMA GreatestOfFinite ==
    ASSUME NEW S \in SUBSET Nat, IsFiniteSet(S), S # {}
    PROVE  \E m \in S : \A n \in S : n <= m
<1> DEFINE Above(x) == {y \in S : y > x}
           Sizes == {Cardinality(Above(x)) : x \in S}
<1>1. \A x \in S : IsFiniteSet(Above(x)) /\ Cardinality(Above(x)) \in Nat
  BY FS_Subset, FS_CardinalityType
<1>2. PICK c \in Sizes : \A d \in Sizes : c <= d
  <2>1. Sizes \in SUBSET Nat /\ Sizes # {}
    BY <1>1
  <2> HIDE DEF Sizes
  <2> QED
    BY <2>1, LeastNumber
<1>3. PICK x \in S : c = Cardinality(Above(x))
  BY <1>2
<1>4. ASSUME NEW y \in S, y > x
      PROVE  FALSE
  <2>1. Above(y) \in SUBSET Above(x) /\ y \in Above(x) /\ y \notin Above(y)
    BY <1>3, <1>4
  <2>2. Cardinality(Above(x)) <= Cardinality(Above(y))
    BY <1>2, <1>3
  <2>3. IsFiniteSet(Above(x)) /\ Cardinality(Above(x)) \in Nat /\ Cardinality(Above(y)) \in Nat
    BY <1>1, <1>3
  <2> HIDE DEF Above
  <2> QED
    BY <2>1, <2>2, <2>3, FS_Subset
<1>5. \A y \in S : y <= x
  BY <1>3, <1>4
<1> QED
  BY <1>3, <1>5

\* What a function makes of a finite set is finite, and so is the union of finite values.
LEMMA ImageFinite ==
    ASSUME NEW S, IsFiniteSet(S), NEW f
    PROVE  IsFiniteSet({f[x] : x \in S})
<1> DEFINE T == {f[x] : x \in S}
           g == [x \in S |-> f[x]]
<1>1. g \in [S -> T] /\ \A t \in T : \E x \in S : g[x] = t
  OBVIOUS
<1> HIDE DEF T, g
<1>2. g \in Surjection(S, T)
  BY <1>1 DEF Surjection
<1>3. IsFiniteSet(T)
  BY <1>2, FS_Surjection
<1> QED
  BY <1>3 DEF T

LEMMA UnionFinite ==
    ASSUME NEW S, IsFiniteSet(S), NEW f, \A x \in S : IsFiniteSet(f[x])
    PROVE  IsFiniteSet(UNION {f[x] : x \in S})
<1> DEFINE T == {f[x] : x \in S}
<1>1. IsFiniteSet(T) /\ \A t \in T : IsFiniteSet(t)
  BY ImageFinite
<1> HIDE DEF T
<1>2. IsFiniteSet(UNION T)
  BY <1>1, FS_UNION
<1> QED
  BY <1>2 DEF T

-----------------------------------------------------------------------------
(* Sums *)

\* A sum of the numbers of f, over every part of S: place by place, in any order.
IsSum(sum, f, S) ==
    /\ sum \in [SUBSET S -> Int]
    /\ sum[{}] = 0
    /\ \A s \in SUBSET S : \A x \in s : sum[s] = f[x] + sum[s \ {x}]

Some(s) == CHOOSE x \in s : TRUE

LEMMA Without ==
    ASSUME NEW S, IsFiniteSet(S), NEW s \in SUBSET S, NEW x \in s
    PROVE  /\ s \ {x} \in SUBSET S
           /\ Cardinality(s) \in Nat \ {0} /\ Cardinality(s \ {x}) = Cardinality(s) - 1
<1>1. IsFiniteSet(s)
  BY FS_Subset
<1>2. Cardinality(s) \in Nat /\ Cardinality(s) # 0
  BY <1>1, FS_CardinalityType, FS_EmptySet
<1> QED
  BY <1>1, <1>2, FS_RemoveElement

\* A fold over the parts of a set.
IsFold(g, f, S) ==
    g = [s \in SUBSET S |-> IF s = {} THEN 0 ELSE f[Some(s)] + g[s \ {Some(s)}]]

\* It exists when the set is finite: the value of a part comes from that of a smaller one.
LEMMA FoldExists ==
    ASSUME NEW S, IsFiniteSet(S), NEW f
    PROVE  \E g : IsFold(g, f, S)
<1> DEFINE Step(s, g) == IF s = {} THEN 0 ELSE f[Some(s)] + g[s \ {Some(s)}]
           Small(n) == {s \in SUBSET S : Cardinality(s) <= n}
           Bad == {n \in Nat : ~ \E g : g = [s \in Small(n) |-> Step(s, g)]}
<1>1. \A s \in SUBSET S : s # {} => Some(s) \in s
  BY DEF Some
<1>2. ASSUME NEW m \in Bad, \A n \in Bad : m <= n
      PROVE  FALSE
  <2>1. CASE m = 0
    <3>1. \A s \in Small(0) : s = {}
      <4> SUFFICES ASSUME NEW s \in Small(0), s # {} PROVE FALSE
        OBVIOUS
      <4>1. s \in SUBSET S /\ Cardinality(s) <= 0
        OBVIOUS
      <4> HIDE DEF Small, Bad
      <4>2. Cardinality(s) \in Nat \ {0}
        BY <1>1, <4>1, Without
      <4> QED
        BY <4>1, <4>2
    <3>2. \A g : \A s \in Small(0) : Step(s, g) = 0
      BY <3>1
    <3> DEFINE h == [s \in Small(0) |-> 0]
    <3>3. h = [s \in Small(0) |-> Step(s, h)]
      BY <3>2
    <3> QED
      BY <2>1, <3>3
  <2>2. CASE m # 0
    <3>1. m - 1 \in Nat /\ m - 1 \notin Bad
      <4>1. m \in Nat
        BY <1>2
      <4> HIDE DEF Bad
      <4> QED
        BY <1>2, <2>2, <4>1
    <3>2. PICK g : g = [s \in Small(m - 1) |-> Step(s, g)]
      BY <3>1
    <3> DEFINE h == [s \in Small(m) |-> Step(s, g)]
    <3>3. ASSUME NEW s \in Small(m)
          PROVE  Step(s, g) = Step(s, h)
      <4>1. CASE s = {}
        BY <4>1
      <4>2. CASE s # {}
        <5>1. s \ {Some(s)} \in Small(m - 1) /\ s \ {Some(s)} \in Small(m)
          BY <1>1, <4>2, Without
        <5>2. g[s \ {Some(s)}] = Step(s \ {Some(s)}, g)
          <6> HIDE DEF Step, Small
          <6> QED
            BY <3>2, <5>1
        <5>3. h[s \ {Some(s)}] = Step(s \ {Some(s)}, g)
          <6> HIDE DEF Step, Small
          <6> QED
            BY <5>1
        <5> QED
          BY <4>2, <5>2, <5>3
      <4> QED
        BY <4>1, <4>2
    <3>4. h = [s \in Small(m) |-> Step(s, h)]
      <4> HIDE DEF Step, Small
      <4> QED
        BY <3>3
    <3> QED
      BY <3>4
  <2> QED
    BY <2>1, <2>2
<1>3. Bad = {}
  <2>1. Bad \in SUBSET Nat
    OBVIOUS
  <2> HIDE DEF Bad
  <2> QED
    BY <1>2, <2>1, LeastNumber
<1>4. Cardinality(S) \in Nat
  BY FS_CardinalityType
<1>5. PICK g : g = [s \in Small(Cardinality(S)) |-> Step(s, g)]
  BY <1>3, <1>4
<1>6. Small(Cardinality(S)) = SUBSET S
  BY FS_Subset
<1> QED
  BY <1>5, <1>6 DEF IsFold

\* Of numbers it is a sum.
LEMMA FoldSums ==
    ASSUME NEW S, IsFiniteSet(S), NEW f \in [S -> Int], NEW sum, IsFold(sum, f, S)
    PROVE  IsSum(sum, f, S)
<1>1. sum[{}] = 0
  BY DEF IsFold
<1>2. \A s \in SUBSET S : s # {} => Some(s) \in s /\ s \ {Some(s)} \in SUBSET S
                                      /\ sum[s] = f[Some(s)] + sum[s \ {Some(s)}]
  BY DEF IsFold, Some
<1> DEFINE Number(s) == sum[s] \in Int
           AnyOrder(s) == \A x \in s : sum[s] = f[x] + sum[s \ {x}]
           Bad == {n \in Nat : \E s \in SUBSET S : Cardinality(s) = n /\ ~ (Number(s) /\ AnyOrder(s))}
<1>3. ASSUME NEW m \in Bad, \A n \in Bad : m <= n
      PROVE  FALSE
  <2>1. PICK s \in SUBSET S : Cardinality(s) = m /\ ~ (Number(s) /\ AnyOrder(s))
    OBVIOUS
  <2>2. ASSUME NEW t \in SUBSET S, Cardinality(t) \in Nat, Cardinality(t) < m
        PROVE  Number(t) /\ AnyOrder(t)
    <3>1. Cardinality(t) \notin Bad
      BY <1>3, <2>2
    <3> QED
      BY <2>2, <3>1
  <2>3. s # {}
    BY <1>1, <2>1
  <2> DEFINE c == Some(s)
  <2>4. c \in s /\ s \ {c} \in SUBSET S /\ sum[s] = f[c] + sum[s \ {c}]
    BY <1>2, <2>3
  <2> HIDE DEF c
  <2>5. \A x \in s : Number(s \ {x}) /\ AnyOrder(s \ {x})
    <3> TAKE x \in s
    <3>1. s \ {x} \in SUBSET S /\ Cardinality(s \ {x}) \in Nat /\ Cardinality(s \ {x}) < m
      BY <2>1, Without
    <3> HIDE DEF Number, AnyOrder
    <3> QED
      BY <2>2, <3>1
  <2>6. Number(s)
    <3>1. f[c] \in Int /\ Number(s \ {c})
      BY <2>1, <2>4, <2>5
    <3> HIDE DEF Bad
    <3> QED
      BY <2>4, <3>1
  <2>7. ASSUME NEW x \in s, x # c
        PROVE  sum[s] = f[x] + sum[s \ {x}]
    <3>1. sum[s \ {c}] = f[x] + sum[(s \ {c}) \ {x}]
      BY <2>4, <2>5, <2>7
    <3>2. sum[s \ {x}] = f[c] + sum[(s \ {x}) \ {c}]
      BY <2>4, <2>5, <2>7
    <3>3. (s \ {x}) \ {c} = (s \ {c}) \ {x}
      OBVIOUS
    <3>4. Number((s \ {c}) \ {x})
      <4>1. s \ {c} \in SUBSET S /\ x \in s \ {c} /\ Cardinality(s \ {c}) = m - 1 /\ m \in Nat \ {0}
        BY <2>1, <2>4, <2>7, Without
      <4>2. (s \ {c}) \ {x} \in SUBSET S /\ Cardinality((s \ {c}) \ {x}) \in Nat
              /\ Cardinality((s \ {c}) \ {x}) < m
        <5> DEFINE t == s \ {c}
        <5>1. t \in SUBSET S /\ x \in t /\ Cardinality(t) = m - 1
          BY <4>1
        <5> HIDE DEF t
        <5>2. t \ {x} \in SUBSET S /\ Cardinality(t) \in Nat \ {0}
              /\ Cardinality(t \ {x}) = Cardinality(t) - 1
          BY <5>1, Without
        <5>3. t \ {x} \in SUBSET S /\ Cardinality(t \ {x}) \in Nat /\ Cardinality(t \ {x}) < m
          BY <4>1, <5>1, <5>2
        <5> QED
          BY <5>3 DEF t
      <4> HIDE DEF Number, AnyOrder
      <4> QED
        BY <2>2, <4>2
    <3>5. f[x] \in Int /\ f[c] \in Int
      BY <2>1, <2>4
    <3> DEFINE r == sum[(s \ {c}) \ {x}]
    <3>6. sum[s \ {c}] = f[x] + r /\ sum[s \ {x}] = f[c] + r /\ r \in Int
      BY <3>1, <3>2, <3>3, <3>4
    <3> HIDE DEF Bad, AnyOrder, r
    <3> QED
      BY <2>4, <3>5, <3>6
  <2> QED
    BY <2>1, <2>4, <2>6, <2>7
<1>4. Bad = {}
  <2>1. Bad \in SUBSET Nat
    OBVIOUS
  <2> HIDE DEF Bad
  <2> QED
    BY <1>3, <2>1, LeastNumber
<1>5. ASSUME NEW s \in SUBSET S
      PROVE  Number(s) /\ AnyOrder(s)
  <2>1. Cardinality(s) \in Nat
    BY FS_Subset, FS_CardinalityType
  <2> QED
    BY <1>4, <2>1
<1>6. sum = [s \in SUBSET S |-> sum[s]]
  BY DEF IsFold
<1> QED
  BY <1>1, <1>5, <1>6 DEF IsSum

\* What is greater everywhere sums to more.
LEMMA SumsOrdered ==
    ASSUME NEW S, IsFiniteSet(S), NEW T, NEW f \in [S -> Int], NEW g \in [T -> Int],
           NEW a, NEW b, IsSum(a, f, S), IsSum(b, g, T),
           NEW R, R \subseteq S, R \subseteq T, \A x \in R : f[x] <= g[x]
    PROVE  a[R] <= b[R]
<1> DEFINE Bad == {n \in Nat : \E s \in SUBSET R : Cardinality(s) = n /\ ~ (a[s] <= b[s])}
<1>1. ASSUME NEW m \in Bad, \A n \in Bad : m <= n
      PROVE  FALSE
  <2>1. PICK s \in SUBSET R : Cardinality(s) = m /\ ~ (a[s] <= b[s])
    OBVIOUS
  <2>2. s # {}
    <3> HIDE DEF Bad
    <3>1. a[{}] <= b[{}]
      BY DEF IsSum
    <3> QED
      BY <2>1, <3>1
  <2>3. PICK x \in s : TRUE
    BY <2>2
  <2>4. s \in SUBSET S /\ s \in SUBSET T /\ x \in S /\ x \in T /\ s \ {x} \in SUBSET R
    BY <2>1, <2>3
  <2>5. Cardinality(s \ {x}) = m - 1 /\ m \in Nat \ {0}
    BY <2>1, <2>3, <2>4, Without
  <2>6. m - 1 \notin Bad
    <3> HIDE DEF Bad
    <3> QED
      BY <1>1, <2>5
  <2>7. a[s \ {x}] <= b[s \ {x}]
    BY <2>4, <2>5, <2>6
  <2>8. a[s] = f[x] + a[s \ {x}] /\ b[s] = g[x] + b[s \ {x}] /\ f[x] <= g[x]
    BY <2>1, <2>3, <2>4 DEF IsSum
  <2>9. f[x] \in Int /\ g[x] \in Int /\ a[s \ {x}] \in Int /\ b[s \ {x}] \in Int
    BY <2>4 DEF IsSum
  <2> HIDE DEF Bad
  <2> QED
    BY <2>1, <2>7, <2>8, <2>9
<1>2. Bad = {}
  <2>1. Bad \in SUBSET Nat
    OBVIOUS
  <2> HIDE DEF Bad
  <2> QED
    BY <1>1, <2>1, LeastNumber
<1>3. Cardinality(R) \in Nat
  BY FS_Subset, FS_CardinalityType
<1> QED
  BY <1>2, <1>3

LEMMA SumsBounded ==
    ASSUME NEW S, IsFiniteSet(S), NEW f \in [S -> Int], NEW g \in [S -> Int],
           NEW a, NEW b, IsSum(a, f, S), IsSum(b, g, S), \A x \in S : f[x] <= g[x]
    PROVE  a[S] <= b[S]
<1> DEFINE R == S
<1>1. R \subseteq S /\ \A x \in R : f[x] <= g[x]
  OBVIOUS
<1> HIDE DEF R
<1>2. a[R] <= b[R]
  BY <1>1, SumsOrdered
<1> QED
  BY <1>2 DEF R

\* Counting is a sum.
Weights(S, C, K) == [x \in S |-> IF x \in C THEN K ELSE 0]
Multiples(S, C, K) == [s \in SUBSET S |-> K * Cardinality(s \cap C)]

LEMMA CountIsSum ==
    ASSUME NEW S, IsFiniteSet(S), NEW C \in SUBSET S, NEW K \in Nat
    PROVE  /\ IsSum(Multiples(S, C, K), Weights(S, C, K), S)
           /\ Weights(S, C, K) \in [S -> Int]
           /\ Multiples(S, C, K)[S] = K * Cardinality(C)
<1> DEFINE a == Multiples(S, C, K)
           f == Weights(S, C, K)
<1>1. \A s \in SUBSET S : IsFiniteSet(s \cap C) /\ Cardinality(s \cap C) \in Nat
  BY FS_Subset, FS_CardinalityType
<1>2. a \in [SUBSET S -> Int]
  <2>1. \A n \in Nat : K * n \in Int
    OBVIOUS
  <2> QED
    BY <1>1, <2>1 DEF Multiples
<1>3. a[{}] = 0
  <2>1. {} \cap C = {}
    OBVIOUS
  <2> QED
    BY <2>1, FS_EmptySet DEF Multiples
<1>4. ASSUME NEW s \in SUBSET S, NEW x \in s
      PROVE  a[s] = f[x] + a[s \ {x}]
  <2>1. CASE x \in C
    <3>1. (s \ {x}) \cap C = (s \cap C) \ {x} /\ x \in s \cap C /\ s \cap C \in SUBSET S
      BY <2>1
    <3>2. Cardinality(s \cap C) \in Nat \ {0}
            /\ Cardinality((s \cap C) \ {x}) = Cardinality(s \cap C) - 1
      <4> DEFINE t == s \cap C
      <4>1. t \in SUBSET S /\ x \in t
        BY <3>1
      <4> HIDE DEF t
      <4>2. Cardinality(t) \in Nat \ {0} /\ Cardinality(t \ {x}) = Cardinality(t) - 1
        BY <4>1, Without
      <4> QED
        BY <4>2 DEF t
    <3> DEFINE n == Cardinality(s \cap C)
    <3>3. a[s] = K * n /\ a[s \ {x}] = K * (n - 1) /\ n \in Nat \ {0}
      BY <3>1, <3>2 DEF Multiples
    <3>4. f[x] = K
      BY <2>1 DEF Weights
    <3> HIDE DEF n, a, f
    <3> QED
      BY <3>3, <3>4
  <2>2. CASE x \notin C
    <3>1. (s \ {x}) \cap C = s \cap C
      BY <2>2
    <3>2. a[s] = a[s \ {x}] /\ a[s] \in Int /\ f[x] = 0
      BY <1>2, <2>2, <3>1 DEF Multiples, Weights
    <3> HIDE DEF a, f
    <3> QED
      BY <3>2
  <2> QED
    BY <2>1, <2>2
<1>5. f \in [S -> Int]
  BY DEF Weights
<1>6. a[S] = K * Cardinality(C)
  <2>1. S \cap C = C
    OBVIOUS
  <2> QED
    BY <2>1 DEF Multiples
<1> QED
  BY <1>2, <1>3, <1>4, <1>5, <1>6 DEF IsSum

-----------------------------------------------------------------------------
(* Sorting *)

\* Less, the order of the keys of a sort, and the order of its members.
Precedes(a, b) == \E k \in DOMAIN a : a[k] < b[k] /\ \A j \in 1..k - 1 : a[j] = b[j]
KeyOrder(S, key) == {p \in S \X S : Precedes(key[p[1]], key[p[2]])}

IsOrder(R, S) ==
    /\ \A x \in S : <<x, x>> \notin R
    /\ \A x, y, z \in S : <<x, y>> \in R /\ <<y, z>> \in R => <<x, z>> \in R
    /\ \A x, y \in S : x # y => <<x, y>> \in R \/ <<y, x>> \in R

\* Keys of one length, no two of which are equal, order the members.
LEMMA KeysOrder ==
    ASSUME NEW S, NEW n \in Nat, NEW key \in [S -> [1..n -> Int]],
           \A x, y \in S : key[x] = key[y] => x = y
    PROVE  IsOrder(KeyOrder(S, key), S)
<1> DEFINE R == KeyOrder(S, key)
<1>1. \A x, y \in S : <<x, y>> \in R <=> \E k \in 1..n : key[x][k] < key[y][k]
                                             /\ \A j \in 1..k - 1 : key[x][j] = key[y][j]
  BY DEF KeyOrder, Precedes
<1>2. \A x \in S : <<x, x>> \notin R
  BY <1>1
<1>3. ASSUME NEW x \in S, NEW y \in S, NEW z \in S, <<x, y>> \in R, <<y, z>> \in R
      PROVE  <<x, z>> \in R
  <2>1. PICK k \in 1..n : key[x][k] < key[y][k] /\ \A j \in 1..k - 1 : key[x][j] = key[y][j]
    BY <1>1, <1>3
  <2>2. PICK l \in 1..n : key[y][l] < key[z][l] /\ \A j \in 1..l - 1 : key[y][j] = key[z][j]
    BY <1>1, <1>3
  <2> DEFINE m == IF k < l THEN k ELSE l
  <2>3. m \in 1..n /\ key[x][m] < key[z][m]
    BY <2>1, <2>2
  <2>4. \A j \in 1..m - 1 : key[x][j] = key[z][j]
    BY <2>1, <2>2
  <2> HIDE DEF m, R
  <2> QED
    BY <1>1, <2>3, <2>4
<1>4. ASSUME NEW x \in S, NEW y \in S, x # y
      PROVE  <<x, y>> \in R \/ <<y, x>> \in R
  <2> DEFINE Differ == {k \in 1..n : key[x][k] # key[y][k]}
  <2>1. Differ # {}
    <3>1. key[x] # key[y] /\ key[x] \in [1..n -> Int] /\ key[y] \in [1..n -> Int]
      BY <1>4
    <3> QED
      BY <3>1
  <2>2. Differ \in SUBSET Nat
    OBVIOUS
  <2> HIDE DEF Differ
  <2>3. PICK k \in Differ : \A l \in Differ : k <= l
    BY <2>1, <2>2, LeastNumber
  <2>4. k \in 1..n /\ key[x][k] # key[y][k] /\ \A j \in 1..k - 1 : key[x][j] = key[y][j]
    BY <2>3 DEF Differ
  <2>5. key[x][k] \in Int /\ key[y][k] \in Int
    BY <2>4
  <2>6. \A j \in 1..k - 1 : key[y][j] = key[x][j]
    BY <2>4
  <2> HIDE DEF R
  <2>7. key[x][k] < key[y][k] => <<x, y>> \in R
    BY <1>1, <2>4
  <2>8. key[y][k] < key[x][k] => <<y, x>> \in R
    BY <1>1, <2>4, <2>6
  <2> QED
    BY <2>4, <2>5, <2>7, <2>8
<1> QED
  BY <1>2, <1>3, <1>4 DEF IsOrder

Behind(S, R, x) == {y \in S : <<y, x>> \in R}
IsRow(list, S, R) ==
    /\ list = [k \in 1..Cardinality(S) |-> list[k]]
    /\ \A k \in 1..Cardinality(S) : \A x \in S :
          Cardinality(Behind(S, R, x)) = k - 1 =>
             list[k] \in S /\ Cardinality(Behind(S, R, list[k])) = k - 1

\* Such a list of a finite set has each member once, in the order.
LEMMA RowSorts ==
    ASSUME NEW S, IsFiniteSet(S), NEW R, IsOrder(R, S), NEW list, IsRow(list, S, R)
    PROVE  /\ Cardinality(S) \in Nat
           /\ list \in [1..Cardinality(S) -> S]
           /\ \A x \in S : \E k \in 1..Cardinality(S) : list[k] = x
           /\ \A i, j \in 1..Cardinality(S) : i < j => <<list[i], list[j]>> \in R
           /\ \A i, j \in 1..Cardinality(S) : list[i] = list[j] => i = j
<1> DEFINE n == Cardinality(S)
           place == [x \in S |-> Cardinality(Behind(S, R, x)) + 1]
<1>1. n \in Nat
  BY FS_CardinalityType
<1>2. \A x \in S : IsFiniteSet(Behind(S, R, x)) /\ Cardinality(Behind(S, R, x)) \in Nat
  <2>1. \A x \in S : Behind(S, R, x) \in SUBSET S
    BY DEF Behind
  <2> QED
    BY <2>1, FS_Subset, FS_CardinalityType
<1>3. ASSUME NEW x \in S, NEW y \in S, <<x, y>> \in R
      PROVE  place[x] < place[y]
  <2>1. Behind(S, R, x) \in SUBSET Behind(S, R, y)
    BY <1>3 DEF Behind, IsOrder
  <2>2. x \in Behind(S, R, y) /\ x \notin Behind(S, R, x)
    BY <1>3 DEF Behind, IsOrder
  <2>3. Cardinality(Behind(S, R, x)) <= Cardinality(Behind(S, R, y))
        /\ Cardinality(Behind(S, R, x)) # Cardinality(Behind(S, R, y))
    BY <1>2, <2>1, <2>2, FS_Subset
  <2> QED
    BY <1>2, <2>3
<1>4. \A x \in S : place[x] \in 1..n
  <2> TAKE x \in S
  <2>1. Behind(S, R, x) \in SUBSET S /\ x \notin Behind(S, R, x)
    BY DEF Behind, IsOrder
  <2>2. Cardinality(Behind(S, R, x)) <= n /\ Cardinality(Behind(S, R, x)) # n
    BY <2>1, FS_Subset
  <2> QED
    BY <1>1, <1>2, <2>2
<1>5. \A x, y \in S : place[x] = place[y] => x = y
  <2> TAKE x, y \in S
  <2>1. place[x] \in Int /\ place[y] \in Int
    BY <1>4
  <2>2. <<x, y>> \in R => place[x] < place[y]
    BY <1>3
  <2>3. <<y, x>> \in R => place[y] < place[x]
    BY <1>3
  <2> HIDE DEF place
  <2> QED
    BY <2>1, <2>2, <2>3 DEF IsOrder
<1>6. \A k \in 1..n : \E x \in S : place[x] = k
  <2>1. IsFiniteSet(1..n) /\ Cardinality(1..n) = n
    BY <1>1, FS_Interval
  <2>2. place \in Injection(S, 1..n)
    <3>1. place \in [S -> 1..n]
      BY <1>4
    <3> HIDE DEF place, n
    <3> QED
      BY <1>5, <3>1 DEF Injection, IsInjective
  <2> HIDE DEF place
  <2>3. place \in Surjection(S, 1..n)
    BY <2>1, <2>2, FS_Injection
  <2> HIDE DEF n
  <2> QED
    BY <2>3 DEF Surjection
<1>7. \A k \in 1..n : list[k] \in S /\ place[list[k]] = k
  <2> TAKE k \in 1..n
  <2>1. PICK x \in S : Cardinality(Behind(S, R, x)) + 1 = k
    BY <1>6
  <2>2. Cardinality(Behind(S, R, x)) = k - 1
    BY <1>2, <2>1
  <2>3. list[k] \in S /\ Cardinality(Behind(S, R, list[k])) = k - 1
    BY <2>2 DEF IsRow
  <2> QED
    BY <1>1, <2>3
<1>8. list \in [1..n -> S]
  <2> HIDE DEF place
  <2> QED
    BY <1>7 DEF IsRow
<1> HIDE DEF place
<1>9. \A x \in S : \E k \in 1..n : list[k] = x
  BY <1>4, <1>5, <1>7
<1>10. \A i, j \in 1..n : list[i] = list[j] => i = j
  BY <1>7
<1>11. \A i, j \in 1..n : i < j => <<list[i], list[j]>> \in R
  <2> SUFFICES ASSUME NEW i \in 1..n, NEW j \in 1..n, i < j, <<list[i], list[j]>> \notin R
               PROVE  FALSE
    OBVIOUS
  <2>1. list[i] \in S /\ list[j] \in S /\ list[i] # list[j]
    BY <1>7, <1>10, <1>1
  <2>2. <<list[j], list[i]>> \in R
    BY <2>1 DEF IsOrder
  <2>3. place[list[j]] < place[list[i]]
    BY <1>3, <2>1, <2>2
  <2> QED
    BY <1>1, <1>7, <2>3
<1> QED
  BY <1>1, <1>8, <1>9, <1>10, <1>11 DEF n
-----------------------------------------------------------------------------
(* Chains of parents *)

\* Of each place, itself and those above it that have a parent.
IsChain(chain, parent, S) ==
    chain = [f \in S |-> IF f \in DOMAIN parent THEN {f} \cup chain[parent[f]] ELSE {}]

\* The least set that is closed under parents, from each place, is such a chain.
LEMMA ChainExists ==
    ASSUME NEW S, NEW parent, \A f \in DOMAIN parent : parent[f] \in S
    PROVE  \E chain : IsChain(chain, parent, S)
<1> DEFINE Closed(T) == \A x \in T : x \in DOMAIN parent => parent[x] \in T
           Up(f) == {g \in DOMAIN parent : \A T \in SUBSET S : f \in T /\ Closed(T) => g \in T}
           chain == [f \in S |-> Up(f)]
<1>1. ASSUME NEW f \in S, f \notin DOMAIN parent
      PROVE  Up(f) = {}
  <2>1. {f} \in SUBSET S /\ Closed({f})
    BY <1>1
  <2>2. \A g \in Up(f) : g \in {f} /\ g \in DOMAIN parent
    BY <2>1
  <2> QED
    BY <1>1, <2>2
<1>2. ASSUME NEW f \in S, f \in DOMAIN parent
      PROVE  Up(f) = {f} \cup Up(parent[f])
  <2>1. ASSUME NEW g \in Up(f)
        PROVE  g \in {f} \cup Up(parent[f])
    <3> SUFFICES ASSUME g # f, NEW T \in SUBSET S, parent[f] \in T, Closed(T)
                 PROVE  g \in T
      BY <2>1
    <3>1. {f} \cup T \in SUBSET S /\ Closed({f} \cup T) /\ f \in {f} \cup T
      OBVIOUS
    <3>2. g \in {f} \cup T
      BY <2>1, <3>1
    <3> QED
      BY <3>2
  <2>2. ASSUME NEW g \in Up(parent[f])
        PROVE  g \in Up(f)
    <3> SUFFICES ASSUME NEW T \in SUBSET S, f \in T, Closed(T)
                 PROVE  g \in T
      BY <2>2
    <3>1. parent[f] \in T
      BY <1>2
    <3> QED
      BY <2>2, <3>1
  <2>3. f \in Up(f)
    BY <1>2
  <2> HIDE DEF Up
  <2> QED
    BY <2>1, <2>2, <2>3
<1>3. \A f \in DOMAIN parent : parent[f] \in S
  OBVIOUS
<1> HIDE DEF Up
<1>4. chain = [f \in S |-> IF f \in DOMAIN parent THEN {f} \cup chain[parent[f]] ELSE {}]
  BY <1>1, <1>2, <1>3
<1> QED
  BY <1>4 DEF IsChain

\* A parent that is there is in the set, and ranks before its children: there is no cycle.
IsTree(parent, S, rank) ==
    /\ DOMAIN parent \subseteq S /\ rank \in [S -> Nat]
    /\ \A f \in DOMAIN parent : parent[f] \in S /\ rank[parent[f]] < rank[f]

\* What holds of a place when it holds of its parent holds of all.
LEMMA FromParents ==
    ASSUME NEW S, NEW parent, NEW rank, IsTree(parent, S, rank), NEW P \in SUBSET S,
           \A f \in S : (f \in DOMAIN parent => parent[f] \in P) => f \in P
    PROVE  P = S
<1> SUFFICES ASSUME S \ P # {}
             PROVE  FALSE
  OBVIOUS
<1> DEFINE Ranks == {rank[f] : f \in S \ P}
<1>1. Ranks \in SUBSET Nat /\ Ranks # {}
  BY DEF IsTree
<1>2. PICK m \in Ranks : \A n \in Ranks : m <= n
  <2> HIDE DEF Ranks
  <2> QED
    BY <1>1, LeastNumber
<1>3. PICK f \in S \ P : rank[f] = m
  BY <1>2
<1>4. f \in DOMAIN parent /\ parent[f] \in S \ P /\ rank[parent[f]] < rank[f]
  BY <1>3 DEF IsTree
<1>5. rank[f] <= rank[parent[f]]
  BY <1>2, <1>3, <1>4
<1> QED
  BY <1>4, <1>5 DEF IsTree

LEMMA ChainOf ==
    ASSUME NEW S, IsFiniteSet(S), NEW parent, NEW rank, IsTree(parent, S, rank),
           NEW chain, IsChain(chain, parent, S), NEW f \in S
    PROVE  /\ f \in DOMAIN parent => chain[f] = {f} \cup chain[parent[f]]
           /\ f \notin DOMAIN parent => chain[f] = {}
           /\ chain[f] \subseteq DOMAIN parent
           /\ IsFiniteSet(chain[f]) /\ Cardinality(chain[f]) \in Nat
           /\ \A g \in chain[f] : rank[g] <= rank[f] /\ chain[g] \subseteq chain[f]
           /\ f \in DOMAIN parent => /\ f \notin chain[parent[f]]
                                     /\ Cardinality(chain[f]) = Cardinality(chain[parent[f]]) + 1
<1>1. \A g \in S : chain[g] = IF g \in DOMAIN parent THEN {g} \cup chain[parent[g]] ELSE {}
  BY DEF IsChain
<1> DEFINE P == {g \in S : /\ chain[g] \subseteq DOMAIN parent
                           /\ \A h \in chain[g] : rank[h] <= rank[g] /\ chain[h] \subseteq chain[g]}
<1>2. ASSUME NEW g \in S, g \in DOMAIN parent => parent[g] \in P
      PROVE  g \in P
  <2>1. CASE g \notin DOMAIN parent
    BY <1>1, <2>1
  <2>2. CASE g \in DOMAIN parent
    <3>1. /\ chain[g] = {g} \cup chain[parent[g]] /\ parent[g] \in P
          /\ rank[parent[g]] < rank[g] /\ rank[g] \in Nat /\ rank[parent[g]] \in Nat
      BY <1>1, <1>2, <2>2 DEF IsTree
    <3>2. \A h \in chain[g] : rank[h] <= rank[g] /\ chain[h] \subseteq chain[g]
      <4> SUFFICES ASSUME NEW h \in chain[parent[g]]
                   PROVE  rank[h] <= rank[g] /\ chain[h] \subseteq chain[g]
        BY <3>1
      <4>1. rank[h] <= rank[parent[g]] /\ chain[h] \subseteq chain[parent[g]] /\ h \in S
        BY <3>1 DEF IsTree
      <4>2. rank[h] \in Nat
        BY <4>1 DEF IsTree
      <4> QED
        BY <3>1, <4>1, <4>2
    <3> QED
      BY <2>2, <3>1, <3>2
  <2> QED
    BY <2>1, <2>2
<1>3. P = S
  <2>1. P \in SUBSET S
    OBVIOUS
  <2> HIDE DEF P
  <2> QED
    BY <1>2, <2>1, FromParents
<1>4. \A g \in S : /\ chain[g] \in SUBSET S
                   /\ IsFiniteSet(chain[g]) /\ Cardinality(chain[g]) \in Nat
  <2> TAKE g \in S
  <2>1. chain[g] \in SUBSET S
    BY <1>3 DEF IsTree
  <2> QED
    BY <2>1, FS_Subset, FS_CardinalityType
<1>5. ASSUME f \in DOMAIN parent
      PROVE  f \notin chain[parent[f]] /\ Cardinality(chain[f]) = Cardinality(chain[parent[f]]) + 1
  <2>1. parent[f] \in S /\ rank[parent[f]] < rank[f] /\ rank[f] \in Nat /\ rank[parent[f]] \in Nat
    BY <1>5 DEF IsTree
  <2>2. \A h \in chain[parent[f]] : rank[h] <= rank[parent[f]]
    BY <1>3, <2>1
  <2>3. f \notin chain[parent[f]]
    BY <2>1, <2>2
  <2>4. chain[f] = chain[parent[f]] \cup {f} /\ IsFiniteSet(chain[parent[f]])
    BY <1>1, <1>4, <1>5, <2>1
  <2> QED
    BY <2>3, <2>4, FS_AddElement
<1> QED
  BY <1>1, <1>3, <1>4, <1>5

\* A chain is a line: no two in it have one parent, and each but the first is a parent.
LEMMA ChainIsLine ==
    ASSUME NEW S, IsFiniteSet(S), NEW parent, NEW rank, IsTree(parent, S, rank),
           NEW chain, IsChain(chain, parent, S), NEW f \in S
    PROVE  /\ \A x, y \in chain[f] : parent[x] = parent[y] => x = y
           /\ \A x \in chain[f] : x = f \/ \E y \in chain[f] : parent[y] = x
           /\ f \in DOMAIN parent => \E x \in chain[f] : parent[x] \notin DOMAIN parent
<1> DEFINE P == {g \in S :
              /\ \A x, y \in chain[g] : parent[x] = parent[y] => x = y
              /\ \A x \in chain[g] : x = g \/ \E y \in chain[g] : parent[y] = x
              /\ g \in DOMAIN parent => \E x \in chain[g] : parent[x] \notin DOMAIN parent}
<1>1. ASSUME NEW g \in S, g \in DOMAIN parent => parent[g] \in P
      PROVE  g \in P
  <2>1. CASE g \notin DOMAIN parent
    <3>1. chain[g] = {}
      BY <2>1, ChainOf
    <3> QED
      BY <2>1, <3>1
  <2>2. CASE g \in DOMAIN parent
    <3> DEFINE q == parent[g]
    <3>1. q \in P /\ q \in S /\ chain[g] = {g} \cup chain[q] /\ rank[q] \in Nat
      BY <1>1, <2>2, ChainOf DEF IsTree
    <3>2. \A x \in chain[q] : x \in DOMAIN parent /\ rank[x] <= rank[q]
      BY <3>1, ChainOf
    <3>3. ASSUME NEW x \in chain[q]
          PROVE  parent[x] # q
      <4>1. rank[parent[x]] < rank[x] /\ rank[x] \in Nat /\ rank[x] <= rank[q]
        BY <3>2 DEF IsTree
      <4> QED
        BY <3>1, <4>1
    <3>4. q \notin DOMAIN parent => \E x \in chain[g] : parent[x] \notin DOMAIN parent
      BY <3>1
    <3>5. q \in DOMAIN parent => \E x \in chain[g] : parent[x] \notin DOMAIN parent
      BY <3>1
    <3>6. \A x \in chain[g] : x = g \/ \E y \in chain[g] : parent[y] = x
      <4> SUFFICES ASSUME NEW x \in chain[q]
                   PROVE  \E y \in chain[g] : parent[y] = x
        BY <3>1
      <4>1. x = q \/ \E y \in chain[q] : parent[y] = x
        BY <3>1
      <4> QED
        BY <3>1, <4>1
    <3>7. \A x, y \in chain[g] : parent[x] = parent[y] => x = y
      <4> TAKE x, y \in chain[g]
      <4>1. CASE x \in chain[q] /\ y \in chain[q]
        BY <3>1, <4>1
      <4>2. CASE x = g \/ y = g
        BY <3>1, <3>3, <4>2
      <4> QED
        BY <3>1, <4>1, <4>2
    <3> QED
      BY <2>2, <3>4, <3>5, <3>6, <3>7
  <2> QED
    BY <2>1, <2>2
<1>2. P = S
  <2>1. P \in SUBSET S
    OBVIOUS
  <2> HIDE DEF P
  <2> QED
    BY <1>1, <2>1, FromParents
<1> QED
  BY <1>2

\* Whoever has the parents it had, and whose ancestors have, has the chain it had.
LEMMA SameChain ==
    ASSUME NEW S, IsFiniteSet(S), NEW old, NEW new, NEW rank, IsTree(new, S, rank),
           NEW before, IsChain(before, old, S), NEW after, IsChain(after, new, S),
           NEW root \in S, root \notin DOMAIN old, root \notin DOMAIN new,
           \A f \in DOMAIN new : new[f] \in DOMAIN new \cup {root},
           NEW f \in DOMAIN new, \A g \in after[f] : g \in DOMAIN old /\ old[g] = new[g]
    PROVE  before[f] = after[f]
<1> DEFINE Same(g) == \A h \in after[g] : h \in DOMAIN old /\ old[h] = new[h]
           P == {g \in S : g \in DOMAIN new \cup {root} /\ Same(g) => before[g] = after[g]}
<1>1. \A g \in S : before[g] = IF g \in DOMAIN old THEN {g} \cup before[old[g]] ELSE {}
  BY DEF IsChain
<1>2. ASSUME NEW g \in S, g \in DOMAIN new => new[g] \in P
      PROVE  g \in P
  <2> SUFFICES ASSUME g \in DOMAIN new \cup {root}, Same(g)
               PROVE  before[g] = after[g]
    OBVIOUS
  <2>1. CASE g = root
    <3>1. before[root] = {}
      BY <1>1
    <3>2. after[root] = {}
      BY ChainOf
    <3> QED
      BY <2>1, <3>1, <3>2
  <2>2. CASE g \in DOMAIN new
    <3>1. new[g] \in P /\ new[g] \in DOMAIN new \cup {root} /\ after[g] = {g} \cup after[new[g]]
      BY <1>2, <2>2, ChainOf
    <3>2. Same(new[g]) /\ g \in DOMAIN old /\ old[g] = new[g]
      BY <3>1
    <3>3. before[new[g]] = after[new[g]]
      BY <3>1, <3>2
    <3> HIDE DEF P
    <3> QED
      BY <1>1, <3>1, <3>2, <3>3
  <2> QED
    BY <2>1, <2>2
<1>3. P = S
  <2>1. P \in SUBSET S
    OBVIOUS
  <2> HIDE DEF P
  <2> QED
    BY <1>2, <2>1, FromParents
<1>4. f \in P
  <2> HIDE DEF P
  <2> QED
    BY <1>3 DEF IsTree
<1> QED
  BY <1>4

-----------------------------------------------------------------------------
(* What a sequence has of a set *)

Has(s, X) == \E i \in DOMAIN s : s[i] \in X
HasOne(s, X) == \A i, j \in DOMAIN s : s[i] \in X /\ s[j] \in X => i = j

LEMMA HasOfTwo ==
    ASSUME NEW T, NEW s \in Seq(T), NEW t \in Seq(T), NEW X
    PROVE  /\ s \o t \in Seq(T)
           /\ Has(s \o t, X) <=> Has(s, X) \/ Has(t, X)
           /\ HasOne(s \o t, X) <=> HasOne(s, X) /\ HasOne(t, X) /\ ~(Has(s, X) /\ Has(t, X))
<1> DEFINE m == Len(s)
           n == Len(t)
           u == s \o t
<1>1. /\ m \in Nat /\ n \in Nat /\ u \in Seq(T)
      /\ DOMAIN s = 1..m /\ DOMAIN t = 1..n /\ DOMAIN u = 1..m + n
  OBVIOUS
<1>2. \A i \in 1..m : i \in DOMAIN u /\ u[i] = s[i]
  BY <1>1
<1>3. \A i \in 1..n : m + i \in DOMAIN u /\ u[m + i] = t[i]
  BY <1>1
<1>4. \A k \in DOMAIN u : k \in 1..m \/ \E i \in 1..n : k = m + i
  <2> TAKE k \in DOMAIN u
  <2>1. k \in 1..m \/ (k - m \in 1..n /\ k = m + (k - m))
    BY <1>1
  <2> QED
    BY <2>1
<1>5. \A i \in 1..m, j \in 1..n : i # m + j
  BY <1>1
<1>6. \A i, j \in 1..n : m + i = m + j => i = j
  BY <1>1
<1> HIDE DEF m, n, u
<1>7. Has(u, X) <=> Has(s, X) \/ Has(t, X)
  BY <1>1, <1>2, <1>3, <1>4 DEF Has
<1>8. ASSUME HasOne(u, X)
      PROVE  HasOne(s, X) /\ HasOne(t, X) /\ ~(Has(s, X) /\ Has(t, X))
  <2>1. HasOne(s, X)
    BY <1>1, <1>2, <1>8 DEF HasOne
  <2>2. HasOne(t, X)
    BY <1>1, <1>3, <1>6, <1>8 DEF HasOne
  <2>3. ~(Has(s, X) /\ Has(t, X))
    BY <1>1, <1>2, <1>3, <1>5, <1>8 DEF Has, HasOne
  <2> QED
    BY <2>1, <2>2, <2>3
<1>9. ASSUME HasOne(s, X), HasOne(t, X), ~(Has(s, X) /\ Has(t, X))
      PROVE  HasOne(u, X)
  <2> SUFFICES ASSUME NEW i \in DOMAIN u, NEW j \in DOMAIN u, u[i] \in X, u[j] \in X
               PROVE  i = j
    BY DEF HasOne
  <2>1. CASE i \in 1..m /\ j \in 1..m
    BY <1>1, <1>2, <1>9, <2>1 DEF HasOne
  <2>2. CASE (\E a \in 1..n : i = m + a) /\ (\E b \in 1..n : j = m + b)
    <3>1. PICK a \in 1..n, b \in 1..n : i = m + a /\ j = m + b
      BY <2>2
    <3>2. t[a] \in X /\ t[b] \in X
      BY <1>3, <3>1
    <3>3. a = b
      BY <1>1, <1>9, <3>2 DEF HasOne
    <3> QED
      BY <3>1, <3>3
  <2>3. i \in 1..m => Has(s, X)
    BY <1>1, <1>2 DEF Has
  <2>4. j \in 1..m => Has(s, X)
    BY <1>1, <1>2 DEF Has
  <2>5. (\E a \in 1..n : i = m + a) => Has(t, X)
    BY <1>1, <1>3 DEF Has
  <2>6. (\E a \in 1..n : j = m + a) => Has(t, X)
    BY <1>1, <1>3 DEF Has
  <2> QED
    BY <1>4, <1>9, <2>1, <2>2, <2>3, <2>4, <2>5, <2>6
<1> QED
  BY <1>1, <1>7, <1>8, <1>9 DEF u

\* Putting something in the place of the first member.
LEMMA FirstReplaced ==
    ASSUME NEW T, NEW e \in T, NEW rest \in Seq(T), NEW some \in Seq(T), NEW X,
           HasOne(<<e>> \o rest, X), HasOne(some, X), Has(some, X) => e \in X
    PROVE  /\ HasOne(some \o rest, X)
           /\ Has(<<e>> \o rest, X) <=> e \in X \/ Has(rest, X)
           /\ Has(some \o rest, X) <=> Has(some, X) \/ Has(rest, X)
           /\ ~(e \in X /\ Has(rest, X))
<1>1. <<e>> \in Seq(T) /\ (Has(<<e>>, X) <=> e \in X)
  BY DEF Has
<1>2. HasOne(rest, X) /\ ~(Has(<<e>>, X) /\ Has(rest, X))
  BY <1>1, HasOfTwo
<1>3. Has(<<e>> \o rest, X) <=> Has(<<e>>, X) \/ Has(rest, X)
  BY <1>1, HasOfTwo
<1>4. HasOne(some \o rest, X)
  BY <1>1, <1>2, HasOfTwo
<1>5. Has(some \o rest, X) <=> Has(some, X) \/ Has(rest, X)
  BY HasOfTwo
<1> QED
  BY <1>1, <1>2, <1>3, <1>4, <1>5
-----------------------------------------------------------------------------
(* Sequences *)

LEMMA Elements ==
    ASSUME NEW S, NEW s \in Seq(S)
    PROVE  /\ Len(s) \in Nat /\ DOMAIN s = 1..Len(s)
           /\ \A i \in 1..Len(s) : s[i] \in Range(s) /\ s[i] \in S
           /\ \A x \in Range(s) : \E i \in 1..Len(s) : s[i] = x
BY DEF Range

LEMMA Concatenation ==
    ASSUME NEW S, NEW s \in Seq(S), NEW t \in Seq(S)
    PROVE  /\ s \o t \in Seq(S) /\ Len(s \o t) = Len(s) + Len(t)
           /\ \A i \in 1..Len(s) : i \in 1..Len(s \o t) /\ (s \o t)[i] = s[i]
           /\ \A i \in 1..Len(t) : Len(s) + i \in 1..Len(s \o t) /\ (s \o t)[Len(s) + i] = t[i]
           /\ \A i \in 1..Len(s \o t) :
                 i \in 1..Len(s) \/ (Len(s) < i /\ i - Len(s) \in 1..Len(t)
                                       /\ (s \o t)[i] = t[i - Len(s)])
           /\ Range(s \o t) = Range(s) \cup Range(t)
<1> DEFINE both == s \o t
<1>1. both \in Seq(S) /\ Len(both) = Len(s) + Len(t) /\ Len(s) \in Nat /\ Len(t) \in Nat
  OBVIOUS
<1>2. \A i \in 1..Len(both) : both[i] = IF i <= Len(s) THEN s[i] ELSE t[i - Len(s)]
  OBVIOUS
<1> HIDE DEF both
<1>3. \A i \in 1..Len(s) : i \in 1..Len(both) /\ both[i] = s[i]
  BY <1>1, <1>2
<1>4. \A i \in 1..Len(t) : Len(s) + i \in 1..Len(both) /\ both[Len(s) + i] = t[i]
  <2> SUFFICES ASSUME NEW i \in 1..Len(t)
               PROVE  Len(s) + i \in 1..Len(both) /\ both[Len(s) + i] = t[i]
    OBVIOUS
  <2>1. Len(s) + i \in 1..Len(both) /\ ~(Len(s) + i <= Len(s)) /\ (Len(s) + i) - Len(s) = i
    BY <1>1
  <2> QED
    BY <1>2, <2>1
<1>5. \A i \in 1..Len(both) :
         i \in 1..Len(s) \/ (Len(s) < i /\ i - Len(s) \in 1..Len(t) /\ both[i] = t[i - Len(s)])
  BY <1>1, <1>2
<1>6. Range(both) \subseteq Range(s) \cup Range(t)
  <2> SUFFICES ASSUME NEW x \in Range(both) PROVE x \in Range(s) \cup Range(t)
    OBVIOUS
  <2>1. PICK i \in 1..Len(both) : both[i] = x
    BY <1>1, Elements
  <2> QED
    BY <1>3, <1>5, <2>1, Elements
<1>7. Range(s) \subseteq Range(both) /\ Range(t) \subseteq Range(both)
  <2>1. \A i \in 1..Len(both) : both[i] \in Range(both)
    BY <1>1, Elements
  <2>2. \A x \in Range(s) : \E i \in 1..Len(s) : s[i] = x
    BY Elements
  <2>3. \A x \in Range(t) : \E i \in 1..Len(t) : t[i] = x
    BY Elements
  <2>4. Range(s) \subseteq Range(both)
    BY <1>3, <2>1, <2>2
  <2>5. Range(t) \subseteq Range(both)
    BY <1>4, <2>1, <2>3
  <2> QED
    BY <2>4, <2>5
<1> QED
  BY <1>1, <1>3, <1>4, <1>5, <1>6, <1>7 DEF both

-----------------------------------------------------------------------------
(* The configuration *)

\* Every environment there can be, not only those that TLC tries.
AnyEnvironment ==
    [backend : {"local", "api", "mock", "echo", "http", "other"},
     openaiKey : Given, openaiUrl : Given, llmKey : Given, llmUrl : Given, ollamaUrl : Given,
     modelKey : Given, url : {"absent", "bare", "async", "sync", "other"},
     embedding : {"deterministic", "flag", "sentence_transformers"},
     dimensions : Nat, topK : Nat, evaluation : Paths, uploads : Paths,
     bad : SUBSET DOMAIN Configuration!Group]

\* A legacy variable counts as the one that replaced it, absent beside it.
LEMMA LegacyStandsIn ==
    ASSUME NEW value \in Given, NEW legacy \in Given
    PROVE  LET now == IF value = "absent" THEN legacy ELSE value
           IN  Configuration!Resolved(now, "absent") <=> Configuration!Resolved(value, legacy)
BY DEF Given, Configuration!Resolved

LEMMA BackendTwice ==
    ASSUME NEW name
    PROVE  Configuration!Backend(Configuration!Backend(name)) = Configuration!Backend(name)
BY DEF Configuration!Backend

LEMMA SettingsFields ==
    ASSUME NEW env \in AnyEnvironment
    PROVE  LET s == Configuration!Settings(env)
           IN  /\ s.backend = Configuration!Backend(env.backend)
               /\ s.openaiUrl = env.openaiUrl /\ s.openaiKey = env.openaiKey
               /\ s.llmUrl = env.llmUrl /\ s.llmKey = env.llmKey /\ s.ollamaUrl = env.ollamaUrl
               /\ s.modelKey = env.modelKey
               /\ s.url = env.url /\ s.evaluation = env.evaluation /\ s.uploads = env.uploads
               /\ s.bad = env.bad
BY DEF AnyEnvironment, Configuration!Settings

\* A configuration is valid when its fields are good, and the chosen model can be reached.
LEMMA ValidMeans ==
    ASSUME NEW env \in AnyEnvironment
    PROVE  Configuration!Valid(env) <=>
             /\ Configuration!Loads(env)
             /\ env.bad = {}
             /\ Configuration!ResolvedUrl(env.url) # "other"
             /\ Configuration!Made(env.evaluation) \notin {"blank", "file", "sealed"}
             /\ Configuration!Made(env.uploads) \notin {"blank", "file", "sealed", "readonly"}
             /\ env.modelKey # "blank"
             /\ env.backend = "local" => env.ollamaUrl = "set"
             /\ env.backend \in {"api", "http"} =>
                   /\ Configuration!Resolved(env.openaiKey, env.llmKey)
                   /\ Configuration!Resolved(env.openaiUrl, env.llmUrl)
<1> DEFINE s == Configuration!Settings(env)
<1>1. s.bad = env.bad /\ s.url = env.url /\ s.evaluation = env.evaluation /\ s.uploads = env.uploads
  BY SettingsFields
<1>2. {<<Configuration!Group[f], f>> : f \in s.bad} = {} <=> env.bad = {}
  BY <1>1
<1>3. Configuration!DatabaseIssues(s) = {} <=> Configuration!ResolvedUrl(env.url) # "other"
  BY <1>1 DEF Configuration!DatabaseIssues
<1>4. Configuration!EvaluationIssues(s) = {} <=>
         Configuration!Made(env.evaluation) \notin {"blank", "file", "sealed"}
  BY <1>1 DEF Configuration!EvaluationIssues
<1>5. Configuration!UploadIssues(s) = {} <=>
         Configuration!Made(env.uploads) \notin {"blank", "file", "sealed", "readonly"}
  BY <1>1 DEF Configuration!UploadIssues
<1>6. Configuration!LlmIssues(s) = {} <=>
         /\ s.modelKey # "blank"
         /\ s.backend = "local" => s.ollamaUrl = "set"
         /\ s.backend = "api" => /\ Configuration!Resolved(s.openaiKey, s.llmKey)
                                 /\ Configuration!Resolved(s.openaiUrl, s.llmUrl)
  BY DEF Configuration!LlmIssues
<1>7. /\ s.backend = "local" <=> env.backend = "local"
      /\ s.backend = "api" <=> env.backend \in {"api", "http"}
      /\ s.ollamaUrl = env.ollamaUrl /\ s.modelKey = env.modelKey
      /\ s.openaiKey = env.openaiKey /\ s.llmKey = env.llmKey
      /\ s.openaiUrl = env.openaiUrl /\ s.llmUrl = env.llmUrl
  BY SettingsFields DEF AnyEnvironment, Configuration!Backend
<1> QED
  BY <1>2, <1>3, <1>4, <1>5, <1>6, <1>7 DEF Configuration!Valid, Configuration!Issues

\* Whatever the environment, when it was found valid the model's provider is made, uploads
\* can be written, and the engine starts; only of a named driver that is not asynchronous is
\* this last not said (core/config/validation.py and the factories).
THEOREM ValidStartsHolds ==
    ASSUME NEW env \in AnyEnvironment
    PROVE  Configuration!ValidStarts(env)
<1> SUFFICES ASSUME Configuration!Valid(env)
             PROVE  LET s == Configuration!Settings(env)
                    IN  /\ Configuration!Provider(s) # "ValueError"
                        /\ Configuration!Writable(s.uploads)
                        /\ s.url # "sync" => Configuration!EngineStarts(s)
  BY DEF Configuration!ValidStarts
<1> DEFINE s == Configuration!Settings(env)
<1>1. s.uploads = env.uploads /\ s.url = env.url
  BY SettingsFields
<1>2. Configuration!Writable(s.uploads)
  BY <1>1, ValidMeans DEF Configuration!Writable, Configuration!Made, AnyEnvironment, Paths
<1>3. s.url # "sync" => Configuration!EngineStarts(s)
  BY <1>1, ValidMeans DEF Configuration!EngineStarts, Configuration!ResolvedUrl, AnyEnvironment
<1>4. s.backend \in {"local", "mock", "api"}
  BY SettingsFields, ValidMeans DEF Configuration!Loads, Configuration!Backend
<1>5. s.backend = "api" => Configuration!Resolved(s.openaiUrl, s.llmUrl)
  BY SettingsFields, ValidMeans DEF AnyEnvironment, Configuration!Backend
<1>6. Configuration!Provider(s) # "ValueError"
  BY <1>4, <1>5 DEF Configuration!Provider
<1> QED
  BY <1>2, <1>3, <1>6

\* The legacy names mean what they were replaced by, where that is absent or empty.
THEOREM AliasesAgreeHolds ==
    ASSUME NEW env \in AnyEnvironment
    PROVE  Configuration!AliasesAgree(env)
<1> DEFINE Now(value, legacy) == IF value = "absent" THEN legacy ELSE value
           modern == [env EXCEPT !.backend = Configuration!Backend(@),
                                 !.openaiUrl = Now(@, env.llmUrl), !.llmUrl = "absent",
                                 !.openaiKey = Now(@, env.llmKey), !.llmKey = "absent"]
<1>1. /\ modern.backend = Configuration!Backend(env.backend)
      /\ modern.openaiUrl = Now(env.openaiUrl, env.llmUrl) /\ modern.llmUrl = "absent"
      /\ modern.openaiKey = Now(env.openaiKey, env.llmKey) /\ modern.llmKey = "absent"
      /\ modern.ollamaUrl = env.ollamaUrl /\ modern.url = env.url /\ modern.bad = env.bad
      /\ modern.evaluation = env.evaluation /\ modern.uploads = env.uploads
      /\ modern.modelKey = env.modelKey
  BY DEF AnyEnvironment
<1>2. modern \in AnyEnvironment
  <2>1. Configuration!Backend(env.backend) \in {"local", "api", "mock", "other"}
    BY DEF AnyEnvironment, Configuration!Backend
  <2>2. {Now(env.openaiUrl, env.llmUrl), Now(env.openaiKey, env.llmKey), "absent"} \subseteq Given
    BY DEF AnyEnvironment, Given
  <2> HIDE DEF Now
  <2> QED
    BY <2>1, <2>2 DEF AnyEnvironment
<1> HIDE DEF modern
<1>3. Configuration!Valid(env) <=> Configuration!Valid(modern)
  <2>1. Configuration!Loads(env) <=> Configuration!Loads(modern)
    BY <1>1 DEF Configuration!Loads, Configuration!Backend, AnyEnvironment
  <2>2. /\ modern.backend = "local" <=> env.backend = "local"
        /\ modern.backend \in {"api", "http"} <=> env.backend \in {"api", "http"}
    BY <1>1 DEF Configuration!Backend, AnyEnvironment
  <2>3. /\ Configuration!Resolved(modern.openaiKey, modern.llmKey) <=>
              Configuration!Resolved(env.openaiKey, env.llmKey)
        /\ Configuration!Resolved(modern.openaiUrl, modern.llmUrl) <=>
              Configuration!Resolved(env.openaiUrl, env.llmUrl)
    BY <1>1, LegacyStandsIn DEF AnyEnvironment
  <2> QED
    BY <1>1, <1>2, <2>1, <2>2, <2>3, ValidMeans
<1>4. Configuration!Provider(Configuration!Settings(env)) =
         Configuration!Provider(Configuration!Settings(modern))
  <2> DEFINE s == Configuration!Settings(env)
             n == Configuration!Settings(modern)
  <2>1. s.backend = n.backend
    BY <1>1, <1>2, SettingsFields, BackendTwice
  <2>2. s.openaiUrl = env.openaiUrl /\ s.llmUrl = env.llmUrl
    BY SettingsFields
  <2>3. Configuration!Resolved(n.openaiUrl, n.llmUrl) <=>
           Configuration!Resolved(env.openaiUrl, env.llmUrl)
    BY <1>1, <1>2, SettingsFields, LegacyStandsIn DEF AnyEnvironment
  <2> QED
    BY <2>1, <2>2, <2>3 DEF Configuration!Provider
<1>5. /\ Configuration!Valid(env) \in BOOLEAN /\ Configuration!Valid(modern) \in BOOLEAN
  BY DEF Configuration!Valid, Configuration!Loads
<1> QED
  BY <1>3, <1>4, <1>5 DEF Configuration!AliasesAgree, modern

\* Vectors of a provider that does not raise have the size that was configured.
LEMMA VectorsFit ==
    ASSUME NEW env \in AnyEnvironment, NEW size \in Nat
    PROVE  Configuration!VectorsAsConfigured(env, size)
BY DEF Configuration!VectorsAsConfigured, Configuration!VectorSize, Configuration!BgeM3Size,
   Configuration!SentenceTransformerSize, AnyEnvironment

LEMMA TriedEnvironments == Environments \subseteq AnyEnvironment
<1>1. Good \in AnyEnvironment
  BY DEF Good, AnyEnvironment, Given, Paths
<1>2. \A b \in {"local", "api", "mock", "echo", "http", "other"}, k1, u1, k2, u2 \in Given,
         o \in {"blank", "set"} : OfModel(b, k1, u1, k2, u2, o) \in AnyEnvironment
  <2>1. {"blank", "set"} \subseteq Given
    BY DEF Given
  <2> TAKE b \in {"local", "api", "mock", "echo", "http", "other"}, k1, u1, k2, u2 \in Given,
           o \in {"blank", "set"}
  <2>2. o \in Given
    BY <2>1
  <2> QED
    BY <1>1, <2>2 DEF AnyEnvironment, OfModel
<1>3. \A e, u \in Paths, d \in {"absent", "bare", "async", "sync", "other"},
         f \in {{}} \cup {{g} : g \in DOMAIN Configuration!Group} :
            OfPlaces(e, u, d, f) \in AnyEnvironment
  <2> TAKE e, u \in Paths, d \in {"absent", "bare", "async", "sync", "other"},
           f \in {{}} \cup {{g} : g \in DOMAIN Configuration!Group}
  <2>1. f \in SUBSET DOMAIN Configuration!Group
    OBVIOUS
  <2> QED
    BY <1>1, <2>1 DEF AnyEnvironment, OfPlaces
<1>4. \A e \in {"deterministic", "flag", "sentence_transformers"}, n \in 2..4, k \in {8, 51},
         m \in Given : OfVectors(e, n, k, m) \in AnyEnvironment
  <2>1. 2..4 \subseteq Nat /\ {8, 51} \subseteq Nat
    OBVIOUS
  <2> QED
    BY <1>1, <2>1 DEF AnyEnvironment, OfVectors
<1> QED
  BY <1>2, <1>3, <1>4 DEF Environments

-----------------------------------------------------------------------------
(* Sums of numbers *)

\* What SumFunction computes is a sum.
LEMMA Summed ==
    ASSUME NEW S, IsFiniteSet(S), NEW f \in [S -> Int]
    PROVE  \E sum : IsSum(sum, f, S) /\ sum[S] = SumFunction(f)
<1> DEFINE sum == CHOOSE g : IsFold(g, f, S)
<1>1. IsFold(sum, f, S)
  BY FoldExists
<1>2. sum[S] = SumFunction(f)
  BY DEF SumFunction, SumFunctionOnSet, FoldFunctionOnSet, MapThenFoldSet, IsFold, Some
<1> HIDE DEF sum
<1> QED
  BY <1>1, <1>2, FoldSums

LEMMA SumAtMost ==
    ASSUME NEW S, IsFiniteSet(S), NEW C \in SUBSET S, NEW K \in Nat, NEW f \in [S -> Int],
           \A x \in S : f[x] <= IF x \in C THEN K ELSE 0
    PROVE  SumFunction(f) \in Int /\ SumFunction(f) <= K * Cardinality(C)
<1> DEFINE b == Multiples(S, C, K)
           g == Weights(S, C, K)
<1>1. PICK a : IsSum(a, f, S) /\ a[S] = SumFunction(f)
  BY Summed
<1>2. \A x \in S : f[x] <= g[x]
  BY DEF Weights
<1>3. IsSum(b, g, S) /\ g \in [S -> Int] /\ b[S] = K * Cardinality(C)
  BY CountIsSum
<1> HIDE DEF b, g
<1>4. \A x \in S : f[x] <= g[x]
  BY <1>2, <1>3
<1>5. a[S] <= b[S]
  BY <1>1, <1>3, <1>4, SumsBounded
<1>6. a[S] \in Int /\ b[S] \in Int
  BY <1>1, <1>3 DEF IsSum
<1> QED
  BY <1>1, <1>3, <1>5, <1>6

LEMMA SumAtLeast ==
    ASSUME NEW S, IsFiniteSet(S), NEW C \in SUBSET S, NEW K \in Nat, NEW f \in [S -> Int],
           \A x \in S : f[x] >= IF x \in C THEN K ELSE 0
    PROVE  SumFunction(f) \in Int /\ SumFunction(f) >= K * Cardinality(C)
<1> DEFINE b == Multiples(S, C, K)
           g == Weights(S, C, K)
<1>1. PICK a : IsSum(a, f, S) /\ a[S] = SumFunction(f)
  BY Summed
<1>2. \A x \in S : f[x] >= g[x]
  BY DEF Weights
<1>3. IsSum(b, g, S) /\ g \in [S -> Int] /\ b[S] = K * Cardinality(C)
  BY CountIsSum
<1> HIDE DEF b, g
<1>4. \A x \in S : g[x] <= f[x]
  BY <1>2, <1>3
<1>5. b[S] <= a[S]
  BY <1>1, <1>3, <1>4, SumsBounded
<1>6. a[S] \in Int /\ b[S] \in Int
  BY <1>1, <1>3 DEF IsSum
<1> QED
  BY <1>1, <1>3, <1>5, <1>6

\* One place more adds its number.
LEMMA SumMore ==
    ASSUME NEW S, IsFiniteSet(S), NEW i, i \notin S, NEW T, T = S \cup {i},
           NEW f \in [S -> Int], NEW g \in [T -> Int], \A x \in S : f[x] = g[x]
    PROVE  SumFunction(f) \in Int /\ SumFunction(g) = SumFunction(f) + g[i]
<1>1. PICK a : IsSum(a, f, S) /\ a[S] = SumFunction(f)
  BY Summed
<1>2. PICK b : IsSum(b, g, S \cup {i}) /\ b[S \cup {i}] = SumFunction(g)
  BY Summed, FS_AddElement
<1>3. (S \cup {i}) \ {i} = S /\ S \subseteq S \cup {i} /\ S \in SUBSET (S \cup {i})
  OBVIOUS
<1>4. b[S \cup {i}] = g[i] + b[S]
  BY <1>2, <1>3 DEF IsSum
<1>5. \A x \in S : f[x] \in Int /\ g[x] \in Int
  OBVIOUS
<1>6. a[S] <= b[S] /\ b[S] <= a[S]
  <2>1. \A x \in S : f[x] <= g[x] /\ g[x] <= f[x]
    BY <1>5
  <2>2. a[S] <= b[S]
    BY <1>1, <1>2, <1>3, <2>1, SumsOrdered
  <2>3. b[S] <= a[S]
    <3>1. IsFiniteSet(S \cup {i})
      BY FS_AddElement
    <3> QED
      BY <1>1, <1>2, <1>3, <2>1, <3>1, SumsOrdered
  <2> QED
    BY <2>2, <2>3
<1>7. a[S] \in Int /\ b[S] \in Int /\ g[i] \in Int
  BY <1>1, <1>2, <1>3 DEF IsSum
<1> QED
  BY <1>1, <1>2, <1>4, <1>6, <1>7

-----------------------------------------------------------------------------
(* The metrics *)

Outcomes(Chunks) ==
    [ok : BOOLEAN, expectAbstention : BOOLEAN, expected : SUBSET Chunks, retrieved : Seq(Chunks),
     cited : SUBSET Chunks,
     reply : {"completed", "abstained", "failed", "none"}, ms : Nat]

\* Metrics counts and sums as the modules above do.
LEMMA MetricsCount ==
    /\ \A S : Metrics!Cardinality(S) = Cardinality(S)
    /\ \A f : Metrics!SumFunction(f) = SumFunction(f)
<1>1. \A S : Metrics!Cardinality(S) = Cardinality(S)
  BY DEF Metrics!Cardinality, Cardinality
<1>2. \A f : Metrics!SumFunction(f) = SumFunction(f)
  BY DEF Metrics!SumFunction, Metrics!SumFunctionOnSet, Metrics!FoldFunctionOnSet,
         Metrics!MapThenFoldSet, SumFunction, SumFunctionOnSet, FoldFunctionOnSet, MapThenFoldSet
<1> QED
  BY <1>1, <1>2

\* Any set of questions of a run can be counted.
LEMMA QuestionsFinite ==
    ASSUME NEW Chunks, NEW answers \in Seq(Outcomes(Chunks)), NEW S \in SUBSET DOMAIN answers
    PROVE  IsFiniteSet(S) /\ Cardinality(S) \in Nat
<1>1. IsFiniteSet(DOMAIN answers)
  BY FS_Interval
<1> QED
  BY <1>1, FS_Subset, FS_CardinalityType

\* The first hit weighs one at most, and nothing weighs without a hit.
LEMMA RankBounds ==
    ASSUME NEW Chunks, NEW o \in Outcomes(Chunks)
    PROVE  /\ Metrics!ReciprocalRank(o) \in 0..6
           /\ Metrics!Hits(o) = {} => Metrics!ReciprocalRank(o) = 0
           /\ 1 \in Metrics!Hits(o) => Metrics!ReciprocalRank(o) = 6
<1> DEFINE H == Metrics!Hits(o)
<1>1. H \in SUBSET (Nat \ {0})
  BY DEF Metrics!Hits, Outcomes
<1>2. CASE H = {}
  BY <1>2 DEF Metrics!ReciprocalRank
<1>3. CASE H # {}
  <2>1. PICK m \in H : \A n \in H : m <= n
    BY <1>1, <1>3, LeastNumber
  <2>2. Metrics!Min(H) \in H /\ \A n \in H : Metrics!Min(H) <= n
    BY <2>1 DEF Metrics!Min
  <2>3. \A n \in Nat \ {0} : 6 \div n \in 0..6
    OBVIOUS
  <2>4. 6 \div 1 = 6
    OBVIOUS
  <2>5. Metrics!ReciprocalRank(o) = 6 \div Metrics!Min(H)
    BY <1>3 DEF Metrics!ReciprocalRank, Metrics!Unit
  <2>6. 1 \in H => Metrics!Min(H) = 1
    BY <1>1, <2>2
  <2> QED
    BY <1>1, <1>3, <2>2, <2>3, <2>4, <2>5, <2>6
<1> QED
  BY <1>2, <1>3

\* What cites just what is expected is precise.
LEMMA PrecisionBounds ==
    ASSUME NEW Chunks, IsFiniteSet(Chunks), NEW o \in Outcomes(Chunks), o.cited # {}
    PROVE  /\ Metrics!Precision(o) \in Nat
           /\ o.cited = o.expected => Metrics!Precision(o) = 6
<1> DEFINE n == Cardinality(o.cited)
           k == Cardinality(o.cited \cap o.expected)
<1>1. n \in Nat \ {0} /\ k \in Nat
  <2>1. o.cited \in SUBSET Chunks /\ o.cited \cap o.expected \in SUBSET Chunks
    BY DEF Outcomes
  <2>2. IsFiniteSet(o.cited) /\ IsFiniteSet(o.cited \cap o.expected)
    BY <2>1, FS_Subset
  <2> QED
    BY <2>2, FS_CardinalityType, FS_EmptySet
<1>2. Metrics!Precision(o) = (6 * k) \div n
  BY MetricsCount DEF Metrics!Precision, Metrics!Unit
<1>3. o.cited = o.expected => k = n
  <2>1. o.cited = o.expected => o.cited \cap o.expected = o.cited
    OBVIOUS
  <2> QED
    BY <2>1
<1> HIDE DEF n, k
<1>4. (6 * k) \div n \in Nat
  BY <1>1
<1>5. (6 * n) \div n = 6
  BY <1>1
<1> QED
  BY <1>2, <1>3, <1>4, <1>5

\* A mean is of sums of at most 6 over 6 times as many.
LEMMA MrrBounds ==
    ASSUME NEW Chunks, NEW answers \in Seq(Outcomes(Chunks)), NEW include \in BOOLEAN
    PROVE  LET eligible == Metrics!Eligible(answers, include)
               found == {i \in eligible : Metrics!Hits(answers[i]) # {}}
           IN  \E total \in 0..6 * Cardinality(found) :
                  Metrics!Mrr(answers, include) = Metrics!Fraction(total, 6 * Cardinality(eligible))
<1> DEFINE eligible == Metrics!Eligible(answers, include)
           found == {i \in eligible : Metrics!Hits(answers[i]) # {}}
           rank == [i \in eligible |-> Metrics!ReciprocalRank(answers[i])]
<1>1. eligible \in SUBSET DOMAIN answers /\ found \in SUBSET eligible
  BY DEF Metrics!Eligible, Metrics!Processed
<1>2. IsFiniteSet(eligible) /\ Cardinality(eligible) \in Nat /\ Cardinality(found) \in Nat
  BY <1>1, QuestionsFinite
<1>3. \A i \in eligible : rank[i] \in Int /\ rank[i] >= 0 /\ rank[i] <= IF i \in found THEN 6 ELSE 0
  <2> TAKE i \in eligible
  <2>1. answers[i] \in Outcomes(Chunks)
    BY <1>1
  <2> QED
    BY <2>1, RankBounds
<1>4. Metrics!Mrr(answers, include) = Metrics!Fraction(SumFunction(rank), 6 * Cardinality(eligible))
  BY MetricsCount DEF Metrics!Mrr, Metrics!Mean, Metrics!Unit
<1>5. rank \in [eligible -> Int]
  BY <1>3
<1> HIDE DEF eligible, rank, found
<1>6. SumFunction(rank) \in Int /\ SumFunction(rank) <= 6 * Cardinality(found)
  BY <1>1, <1>2, <1>3, <1>5, SumAtMost
<1>7. SumFunction(rank) >= 0
  <2>1. SumFunction(rank) >= 0 * Cardinality(found)
    BY <1>1, <1>2, <1>3, <1>5, SumAtLeast
  <2> QED
    BY <1>2, <2>1
<1>8. SumFunction(rank) \in 0..6 * Cardinality(found)
  BY <1>2, <1>6, <1>7
<1> QED
  BY <1>4, <1>8 DEF eligible, found

LEMMA PrecisionMeanBounds ==
    ASSUME NEW Chunks, IsFiniteSet(Chunks), NEW answers \in Seq(Outcomes(Chunks))
    PROVE  LET accurate == {i \in Metrics!Judged(answers) : Metrics!IsAccurate(answers[i])}
           IN  /\ accurate \subseteq Metrics!Cited(answers)
               /\ \E total \in Nat :
                    /\ total >= 6 * Cardinality(accurate)
                    /\ Metrics!CitationPrecisionMean(answers) =
                          Metrics!Fraction(total, 6 * Cardinality(Metrics!Cited(answers)))
<1> DEFINE cited == Metrics!Cited(answers)
           accurate == {i \in Metrics!Judged(answers) : Metrics!IsAccurate(answers[i])}
           precise == [i \in cited |-> Metrics!Precision(answers[i])]
<1>1. cited \in SUBSET DOMAIN answers /\ accurate \in SUBSET cited
  BY DEF Metrics!Cited, Metrics!Judged, Metrics!Answerable, Metrics!Processed, Metrics!IsAccurate
<1>2. IsFiniteSet(cited) /\ Cardinality(cited) \in Nat /\ Cardinality(accurate) \in Nat
  BY <1>1, QuestionsFinite
<1>3. \A i \in cited : precise[i] \in Int /\ precise[i] >= IF i \in accurate THEN 6 ELSE 0
  <2> TAKE i \in cited
  <2>1. answers[i] \in Outcomes(Chunks) /\ answers[i].cited # {}
    BY <1>1 DEF Metrics!Cited
  <2>2. i \in accurate => answers[i].cited = answers[i].expected
    BY DEF Metrics!IsAccurate
  <2> HIDE DEF accurate
  <2> QED
    BY <2>1, <2>2, PrecisionBounds
<1>4. Metrics!CitationPrecisionMean(answers)
        = Metrics!Fraction(SumFunction(precise), 6 * Cardinality(cited))
  BY MetricsCount DEF Metrics!CitationPrecisionMean, Metrics!Mean, Metrics!Unit
<1>5. precise \in [cited -> Int]
  BY <1>3
<1> HIDE DEF cited, precise, accurate
<1>6. SumFunction(precise) \in Int /\ SumFunction(precise) >= 6 * Cardinality(accurate)
  BY <1>1, <1>2, <1>3, <1>5, SumAtLeast
<1>7. SumFunction(precise) \in Nat
  BY <1>2, <1>6
<1> QED
  BY <1>1, <1>4, <1>6, <1>7 DEF cited, accurate

LEMMA TimesInOrder ==
    ASSUME NEW a \in Nat, NEW b \in Nat, a <= b, NEW n \in Nat
    PROVE  a * n \in Nat /\ b * n \in Nat /\ a * n <= b * n
<1> DEFINE d == b - a
<1>1. d \in Nat /\ b = a + d
  OBVIOUS
<1> HIDE DEF d
<1>2. a * n \in Nat /\ d * n \in Nat /\ (a + d) * n = a * n + d * n
  BY <1>1
<1> QED
  BY <1>1, <1>2

\* Of a list, the value at an earlier place is not greater.
LEMMA PercentileOrder ==
    ASSUME NEW values \in Seq(Nat), values # <<>>,
           NEW p \in 0..100, NEW q \in 0..100, p <= q
    PROVE  Metrics!Percentile(values, p) <= Metrics!Percentile(values, q)
<1> DEFINE n == Len(values)
           Place(r) == Metrics!Max({1, Metrics!Min({(r * n + 99) \div 100, n})})
           Reach(r) == {v \in Metrics!Range(values) :
                           Metrics!Cardinality(Metrics!UpTo(values, v)) >= Place(r)}
<1>1. n \in Nat \ {0} /\ DOMAIN values = 1..n
  OBVIOUS
<1>2. ASSUME NEW r \in 0..100
      PROVE  /\ Place(r) = IF (r * n + 99) \div 100 < 1 THEN 1 ELSE (r * n + 99) \div 100
             /\ (r * n + 99) \div 100 \in Nat /\ (r * n + 99) \div 100 <= n
  <2> DEFINE k == (r * n + 99) \div 100
  <2>1. r * n \in Nat /\ r * n <= 100 * n
    BY <1>1
  <2>2. k \in Nat /\ k <= n
    BY <1>1, <2>1
  <2> HIDE DEF k, n
  <2>3. Metrics!Min({k, n}) = k
    BY <1>1, <2>2 DEF Metrics!Min
  <2>4. Metrics!Max({1, k}) = IF k < 1 THEN 1 ELSE k
    BY <2>2 DEF Metrics!Max
  <2> QED
    BY <2>2, <2>3, <2>4 DEF k
<1>3. Place(p) <= Place(q) /\ Place(p) \in Nat /\ Place(q) \in 1..n
  <2>1. p * n <= q * n /\ p * n \in Nat /\ q * n \in Nat
    <3>1. p \in Nat /\ q \in Nat /\ p <= q /\ n \in Nat
      BY <1>1
    <3> QED
      BY <3>1, TimesInOrder
  <2>2. (p * n + 99) \div 100 <= (q * n + 99) \div 100
    BY <2>1
  <2>3. 0 <= 0 /\ p \in 0..100 /\ q \in 0..100
    OBVIOUS
  <2>4. /\ Place(p) = IF (p * n + 99) \div 100 < 1 THEN 1 ELSE (p * n + 99) \div 100
        /\ Place(q) = IF (q * n + 99) \div 100 < 1 THEN 1 ELSE (q * n + 99) \div 100
        /\ (p * n + 99) \div 100 \in Nat /\ (q * n + 99) \div 100 \in Nat
        /\ (q * n + 99) \div 100 <= n
    BY <1>2, <2>3
  <2> DEFINE k == (p * n + 99) \div 100
             l == (q * n + 99) \div 100
  <2>5. /\ Place(p) = (IF k < 1 THEN 1 ELSE k) /\ Place(q) = (IF l < 1 THEN 1 ELSE l)
        /\ k \in Nat /\ l \in Nat /\ l <= n /\ k <= l
    BY <2>2, <2>4
  <2> HIDE DEF k, l, Place, n
  <2> QED
    BY <1>1, <2>5
<1>4. Metrics!Range(values) \in SUBSET Nat
  BY DEF Metrics!Range
<1>5. Reach(q) \subseteq Reach(p)
  <2>1. \A v : Metrics!Cardinality(Metrics!UpTo(values, v)) \in Nat
    <3> TAKE v
    <3>1. Metrics!UpTo(values, v) \in SUBSET (1..n) /\ IsFiniteSet(1..n)
      BY <1>1, FS_Interval DEF Metrics!UpTo
    <3> QED
      BY <3>1, FS_Subset, FS_CardinalityType, MetricsCount
  <2> HIDE DEF Place
  <2> QED
    BY <1>1, <1>3, <2>1
<1>6. Reach(q) # {}
  <2>2. IsFiniteSet(Metrics!Range(values))
    <3>1. values \in Surjection(1..n, Metrics!Range(values))
      BY <1>1 DEF Surjection, Metrics!Range
    <3>2. IsFiniteSet(1..n)
      BY <1>1, FS_Interval
    <3> QED
      BY <3>1, <3>2, FS_Surjection
  <2>3. Metrics!Range(values) # {}
    <3>1. 1 \in DOMAIN values
      BY <1>1
    <3> QED
      BY <3>1 DEF Metrics!Range
  <2>4. PICK v \in Metrics!Range(values) : \A w \in Metrics!Range(values) : w <= v
    BY <1>4, <2>2, <2>3, GreatestOfFinite
  <2>5. Metrics!UpTo(values, v) = 1..n
    BY <1>1, <2>4 DEF Metrics!UpTo, Metrics!Range
  <2>6. Metrics!Cardinality(Metrics!UpTo(values, v)) = n
    BY <1>1, <2>5, FS_Interval, MetricsCount
  <2> HIDE DEF Place
  <2> QED
    BY <1>1, <1>3, <2>4, <2>6
<1> HIDE DEF n, Place
<1>7. Metrics!Percentile(values, p) = Metrics!Min(Reach(p))
        /\ Metrics!Percentile(values, q) = Metrics!Min(Reach(q))
  BY DEF Metrics!Percentile, Place, n
<1>8. Reach(p) \in SUBSET Nat /\ Reach(q) \in SUBSET Nat
  BY <1>4
<1> HIDE DEF Reach
<1>9. \A S \in SUBSET Nat : S # {} => Metrics!Min(S) \in S /\ \A x \in S : Metrics!Min(S) <= x
  <2> SUFFICES ASSUME NEW S \in SUBSET Nat, S # {}
               PROVE  Metrics!Min(S) \in S /\ \A x \in S : Metrics!Min(S) <= x
    OBVIOUS
  <2>1. \E m \in S : \A x \in S : m <= x
    BY LeastNumber
  <2> QED
    BY <2>1 DEF Metrics!Min
<1> QED
  BY <1>5, <1>6, <1>7, <1>8, <1>9

\* The metrics of every run agree with each other.
THEOREM MetricsAgreeHolds ==
    ASSUME NEW Chunks, IsFiniteSet(Chunks), NEW answers \in Seq(Outcomes(Chunks)),
           NEW include \in BOOLEAN
    PROVE  Metrics!MetricsAgree(answers, include)
<1> DEFINE r == Metrics!Report(answers, include)
           eligible == Metrics!Eligible(answers, include)
           found == {i \in eligible : Metrics!Hits(answers[i]) # {}}
           judged == Metrics!Judged(answers)
           cited == Metrics!Cited(answers)
           accurate == {i \in judged : Metrics!IsAccurate(answers[i])}
           grounded == {i \in judged : Metrics!IsGrounded(answers[i])}
           answerable == Metrics!Answerable(answers)
           n == Cardinality(eligible)
           h == Cardinality(found)
           j == Cardinality(judged)
           c == Cardinality(cited)
           a == Cardinality(accurate)
           g == Cardinality(grounded)
           k == Cardinality(answerable)
<1>1. /\ eligible \in SUBSET DOMAIN answers /\ answerable \in SUBSET DOMAIN answers
      /\ found \in SUBSET eligible /\ judged \in SUBSET answerable
      /\ cited \in SUBSET judged /\ accurate \in SUBSET cited /\ grounded \in SUBSET judged
  BY DEF Metrics!Eligible, Metrics!Processed, Metrics!Answerable, Metrics!Judged, Metrics!Cited,
         Metrics!IsAccurate
<1> HIDE DEF eligible, found, judged, cited, accurate, grounded, answerable
<1>2. \A S \in SUBSET DOMAIN answers :
          IsFiniteSet(S) /\ Cardinality(S) \in Nat
            /\ \A T \in SUBSET S : Cardinality(T) <= Cardinality(S)
  BY QuestionsFinite, FS_Subset
<1>3. /\ n \in Nat /\ h \in Nat /\ j \in Nat /\ c \in Nat /\ a \in Nat /\ g \in Nat /\ k \in Nat
      /\ h <= n /\ c <= j /\ a <= c /\ g <= j /\ j <= k
  BY <1>1, <1>2
<1>4. PICK total \in 0..6 * h : r.mrr = Metrics!Fraction(total, 6 * n)
  BY MrrBounds DEF Metrics!Report, eligible, found
<1>5. PICK sum \in Nat : sum >= 6 * a /\ r.citationPrecisionMean = Metrics!Fraction(sum, 6 * c)
  BY PrecisionMeanBounds DEF Metrics!Report, judged, cited, accurate
<1>6. /\ r.recallAtK = Metrics!Fraction(h, n)
      /\ r.citationAccuracy = Metrics!Fraction(a, j)
      /\ r.groundedness = Metrics!Fraction(g, k)
  BY MetricsCount DEF Metrics!Report, Metrics!RecallAtK, Metrics!CitationAccuracy,
     Metrics!Groundedness, Metrics!Share, eligible, found, judged, accurate, grounded, answerable
<1> HIDE DEF r, n, h, j, c, a, g, k
<1>7. ~Metrics!Below(r.recallAtK, r.mrr)
  <2>1. CASE n = 0
    BY <1>6, <2>1 DEF Metrics!Fraction, Metrics!NoFraction, Metrics!Below
  <2>2. CASE n # 0
    <3>1. r.recallAtK = <<h, n>> /\ r.mrr = <<total, 6 * n>>
      BY <1>3, <1>4, <1>6, <2>2 DEF Metrics!Fraction
    <3>2. ~ (h * (6 * n) < total * n)
      <4>1. total \in Nat /\ total <= 6 * h
        BY <1>3, <1>4
      <4>2. total * n <= (6 * h) * n
        BY <1>3, <4>1
      <4> QED
        BY <1>3, <4>1, <4>2
    <3> QED
      BY <3>1, <3>2 DEF Metrics!Below
  <2> QED
    BY <2>1, <2>2
<1>8. ~Metrics!Below(r.citationPrecisionMean, r.citationAccuracy)
  <2>1. CASE c = 0
    BY <1>5, <2>1 DEF Metrics!Fraction, Metrics!NoFraction, Metrics!Below
  <2>2. CASE c # 0
    <3>1. r.citationPrecisionMean = <<sum, 6 * c>> /\ r.citationAccuracy = <<a, j>>
      BY <1>3, <1>5, <1>6, <2>2 DEF Metrics!Fraction
    <3>2. ~ (sum * j < a * (6 * c))
      <4>1. sum * j >= (6 * a) * j
        BY <1>3, <1>5
      <4>2. (6 * a) * j >= (6 * a) * c
        BY <1>3
      <4> QED
        BY <1>3, <1>5, <4>1, <4>2
    <3> QED
      BY <3>1, <3>2 DEF Metrics!Below
  <2> QED
    BY <2>1, <2>2
<1>9. ~Metrics!Below(<<1, 1>>, r.mrr)
  <2>1. total \in Nat /\ total <= 6 * n
    BY <1>3, <1>4
  <2>2. ~ (1 * (6 * n) < total * 1)
    BY <1>3, <2>1
  <2> QED
    BY <1>4, <2>2 DEF Metrics!Below, Metrics!Fraction, Metrics!NoFraction
<1>10. ~Metrics!Below(<<1, 1>>, r.groundedness)
  <2>1. ~ (1 * k < g * 1)
    BY <1>3
  <2> QED
    BY <1>6, <2>1 DEF Metrics!Below, Metrics!Fraction, Metrics!NoFraction
<1>11. LET ms == [i \in DOMAIN answers |-> answers[i].ms]
       IN  ms # <<>> => Metrics!Percentile(ms, 50) <= Metrics!Percentile(ms, 95)
  <2> DEFINE ms == [i \in DOMAIN answers |-> answers[i].ms]
  <2>1. ms \in Seq(Nat)
    <3>1. \A i \in DOMAIN answers : answers[i].ms \in Nat
      <4>1. \A i \in DOMAIN answers : answers[i] \in Outcomes(Chunks)
        OBVIOUS
      <4> QED
        BY <4>1 DEF Outcomes
    <3>2. DOMAIN answers = 1..Len(answers) /\ Len(answers) \in Nat
      OBVIOUS
    <3>3. ms \in [1..Len(answers) -> Nat]
      BY <3>1, <3>2
    <3> QED
      BY <3>2, <3>3
  <2> HIDE DEF ms
  <2>2. ms # <<>> => Metrics!Percentile(ms, 50) <= Metrics!Percentile(ms, 95)
    BY <2>1, PercentileOrder
  <2> QED
    BY <2>2 DEF ms
<1> QED
  BY <1>7, <1>8, <1>9, <1>10, <1>11 DEF Metrics!MetricsAgree, r

\* A threshold of one at most.
Thresholds == [Metrics!Gates -> {f \in Nat \X Nat : f[1] <= f[2]}]

\* A share that reached a threshold still does with as much more on both sides.
LEMMA MoreOfBoth ==
    ASSUME NEW a \in Nat, NEW b \in Nat, NEW more \in Nat,
           NEW t \in Nat \X Nat, t[1] <= t[2], ~Metrics!Below(Metrics!Fraction(a, b), t)
    PROVE  ~Metrics!Below(Metrics!Fraction(a + more, b + more), t)
<1> DEFINE p == t[1]
           q == t[2]
<1>1. p \in Nat /\ q \in Nat /\ p <= q /\ t = <<p, q>>
  OBVIOUS
<1>2. ~Metrics!Below(Metrics!Fraction(a, b), <<p, q>>)
  BY <1>1
<1> HIDE DEF p, q
<1>3. CASE t = <<0, 0>> \/ b + more = 0
  BY <1>1, <1>3 DEF Metrics!Below, Metrics!Fraction, Metrics!NoFraction
<1>4. CASE t # <<0, 0>> /\ b + more # 0
  <2>1. a * q >= p * b
    <3>1. CASE b = 0
      BY <1>1, <3>1
    <3>2. CASE b # 0
      <4>1. ~ (a * q < p * b)
        BY <1>1, <1>2, <1>4, <3>2 DEF Metrics!Below, Metrics!Fraction, Metrics!NoFraction
      <4>2. a * q \in Nat /\ p * b \in Nat
        BY <1>1
      <4> QED
        BY <4>1, <4>2
    <3> QED
      BY <3>1, <3>2
  <2>2. more * q >= p * more
    BY <1>1
  <2>3. (a + more) * q = a * q + more * q /\ p * (b + more) = p * b + p * more
    BY <1>1
  <2>4. a * q \in Int /\ more * q \in Int /\ p * b \in Int /\ p * more \in Int
    BY <1>1
  <2>5. ~ ((a + more) * q < p * (b + more))
    BY <2>1, <2>2, <2>3, <2>4
  <2> QED
    BY <1>1, <1>4, <2>5 DEF Metrics!Below, Metrics!Fraction, Metrics!NoFraction
<1> QED
  BY <1>3, <1>4

\* The best answer retrieves what is expected, and cites it when an answer is expected.
LEMMA BestAnswer ==
    ASSUME NEW Chunks, IsFiniteSet(Chunks), NEW o \in Outcomes(Chunks)
    PROVE  LET best == Metrics!Best(o)
           IN  /\ best \in Outcomes(Chunks) /\ best.ok
               /\ best.expected = o.expected /\ best.expectAbstention = o.expectAbstention
               /\ best.reply = IF o.expectAbstention THEN "abstained" ELSE "completed"
               /\ best.cited = IF o.expectAbstention THEN {} ELSE o.expected
               /\ Metrics!Range(best.retrieved) = o.expected
               /\ o.expected # {} => 1 \in Metrics!Hits(best)
<1> DEFINE S == o.expected
           n == Cardinality(S)
           found == CHOOSE f \in [1..Metrics!Cardinality(S) -> S] : Metrics!IsInjective(f)
<1>1. S \in SUBSET Chunks /\ IsFiniteSet(S) /\ n \in Nat
  BY FS_Subset, FS_CardinalityType DEF Outcomes
<1>2. found \in [1..n -> S] /\ IsInjective(found)
  <2>1. \E f : f \in [1..n -> S] /\ IsInjective(f)
    BY <1>1, FS_CardinalityType DEF ExistsBijection, Bijection, Injection, IsInjective
  <2>2. found = CHOOSE f \in [1..n -> S] : IsInjective(f)
    BY MetricsCount DEF Metrics!IsInjective, IsInjective
  <2> HIDE DEF S, n, found
  <2> QED
    BY <2>1, <2>2
<1>3. DOMAIN found = 1..n /\ Metrics!Range(found) = S
  <2>1. found \in Injection(1..n, S)
    BY <1>2 DEF Injection, IsInjective
  <2>2. IsFiniteSet(1..n) /\ Cardinality(1..n) = n
    BY <1>1, FS_Interval
  <2> HIDE DEF S, found
  <2>3. found \in Surjection(1..n, S)
    BY <1>1, <2>1, <2>2, FS_Injection DEF n
  <2> QED
    BY <1>2, <2>3 DEF Surjection, Metrics!Range
<1>4. found \in Seq(Chunks)
  <2>1. found \in [1..n -> Chunks]
    BY <1>1, <1>2
  <2> HIDE DEF found
  <2> QED
    BY <1>1, <2>1
<1>5. S # {} => 1 \in DOMAIN found /\ found[1] \in S
  <2>1. S # {} => n # 0
    BY <1>1, FS_EmptySet
  <2> QED
    BY <1>1, <1>2, <2>1
<1> DEFINE best == Metrics!Best(o)
<1>6. /\ best.ok = TRUE /\ best.expected = S /\ best.expectAbstention = o.expectAbstention
      /\ best.reply = (IF o.expectAbstention THEN "abstained" ELSE "completed")
      /\ best.cited = (IF o.expectAbstention THEN {} ELSE S)
      /\ best.retrieved = found
      /\ best = [ok |-> TRUE, expectAbstention |-> o.expectAbstention, expected |-> S,
                 retrieved |-> found, cited |-> best.cited, reply |-> best.reply, ms |-> o.ms]
      /\ o.expectAbstention \in BOOLEAN /\ o.ms \in Nat
  <2> HIDE DEF found
  <2>1. best = [o EXCEPT !.ok = TRUE, !.retrieved = found,
                         !.cited = IF o.expectAbstention THEN {} ELSE o.expected,
                         !.reply = IF o.expectAbstention THEN "abstained" ELSE "completed"]
    BY DEF Metrics!Best, found
  <2> HIDE DEF best
  <2> QED
    BY <2>1 DEF Outcomes
<1> HIDE DEF best, found
<1>7. best \in Outcomes(Chunks)
  <2> HIDE DEF S
  <2>1. best.cited \in SUBSET Chunks
    BY <1>1, <1>6
  <2>2. best.reply \in {"completed", "abstained", "failed", "none"}
    BY <1>6
  <2>3. S \in SUBSET Chunks
    BY <1>1
  <2> DEFINE reply == best.reply
             cites == best.cited
  <2>4. best = [ok |-> TRUE, expectAbstention |-> o.expectAbstention, expected |-> S,
                retrieved |-> found, cited |-> cites, reply |-> reply, ms |-> o.ms]
    BY <1>6
  <2>5. /\ cites \in SUBSET Chunks /\ o.ms \in Nat
        /\ reply \in {"completed", "abstained", "failed", "none"}
        /\ o.expectAbstention \in BOOLEAN
    BY <1>6, <2>1, <2>2
  <2> HIDE DEF reply, cites
  <2> QED
    BY <1>4, <2>3, <2>4, <2>5 DEF Outcomes
<1>8. S # {} => 1 \in Metrics!Hits(best)
  BY <1>5, <1>6 DEF Metrics!Hits
<1> QED
  BY <1>3, <1>6, <1>7, <1>8 DEF best

LEMMA MeanMore ==
    ASSUME NEW S, IsFiniteSet(S), NEW i, i \notin S, NEW T, T = S \cup {i},
           NEW f \in [S -> Nat], NEW g \in [T -> Nat], \A x \in S : f[x] = g[x], g[i] = 6,
           NEW t \in Nat \X Nat, t[1] <= t[2], ~Metrics!Below(Metrics!Mean(f), t)
    PROVE  ~Metrics!Below(Metrics!Mean(g), t)
<1> DEFINE a == SumFunction(f)
           b == 6 * Cardinality(S)
<1>1. a \in Int /\ SumFunction(g) = a + 6
  <2>1. f \in [S -> Int] /\ g \in [T -> Int]
    OBVIOUS
  <2> QED
    BY <2>1, SumMore
<1>2. a \in Nat /\ b \in Nat /\ 6 \in Nat
  <2>1. f \in [S -> Int] /\ {} \in SUBSET S /\ 0 \in Nat
    OBVIOUS
  <2>2. \A x \in S : f[x] >= IF x \in {} THEN 0 ELSE 0
    OBVIOUS
  <2>3. a >= 0 * Cardinality({})
    BY <2>1, <2>2, SumAtLeast
  <2>4. Cardinality({}) = 0 /\ Cardinality(S) \in Nat
    BY FS_EmptySet, FS_CardinalityType
  <2> QED
    BY <1>1, <2>3, <2>4
<1>3. Metrics!Mean(f) = Metrics!Fraction(a, b) /\ Metrics!Mean(g) = Metrics!Fraction(a + 6, b + 6)
  <2>1. Cardinality(T) = Cardinality(S) + 1 /\ Cardinality(S) \in Nat
    BY FS_AddElement, FS_CardinalityType
  <2>2. 6 * Cardinality(T) = b + 6
    BY <2>1
  <2>3. DOMAIN f = S /\ DOMAIN g = T
    OBVIOUS
  <2> HIDE DEF b
  <2>4. Metrics!Mean(g) = Metrics!Fraction(a + 6, b + 6)
    BY <1>1, <2>2, <2>3, MetricsCount DEF Metrics!Mean, Metrics!Unit
  <2>5. Metrics!Mean(f) = Metrics!Fraction(a, b)
    BY <2>3, MetricsCount DEF Metrics!Mean, Metrics!Unit, b
  <2> QED
    BY <2>4, <2>5
<1> HIDE DEF a, b
<1>4. ~Metrics!Below(Metrics!Fraction(a + 6, b + 6), t)
  BY <1>2, <1>3, MoreOfBoth
<1> QED
  BY <1>3, <1>4

\* A run that passed still does when a question that ended in an error is answered in the
\* best way: every share and mean gains as much above as below.
THEOREM BetterStillPassesHolds ==
    ASSUME NEW Chunks, IsFiniteSet(Chunks), NEW answers \in Seq(Outcomes(Chunks)),
           NEW include \in BOOLEAN, NEW threshold \in Thresholds
    PROVE  Metrics!BetterStillPasses(answers, include, threshold)
<1> SUFFICES ASSUME NEW i \in DOMAIN answers, ~answers[i].ok,
                    answers[i].expected # {} \/ answers[i].expectAbstention,
                    Metrics!Passed(answers, include, threshold)
             PROVE  Metrics!Passed([answers EXCEPT ![i] = Metrics!Best(@)], include, threshold)
  BY DEF Metrics!BetterStillPasses
<1> DEFINE o == answers[i]
           best == Metrics!Best(o)
           better == [answers EXCEPT ![i] = Metrics!Best(@)]
<1>1. /\ o \in Outcomes(Chunks)
      /\ best \in Outcomes(Chunks) /\ best.ok
      /\ best.expected = o.expected /\ best.expectAbstention = o.expectAbstention
      /\ best.reply = IF o.expectAbstention THEN "abstained" ELSE "completed"
      /\ best.cited = IF o.expectAbstention THEN {} ELSE o.expected
      /\ Metrics!Range(best.retrieved) = o.expected
      /\ o.expected # {} => 1 \in Metrics!Hits(best)
  BY BestAnswer
<1>2. /\ DOMAIN better = DOMAIN answers /\ better[i] = best
      /\ \A x \in DOMAIN answers : x # i => better[x] = answers[x]
  OBVIOUS
<1>3. better \in Seq(Outcomes(Chunks))
  <2>1. better \in [1..Len(answers) -> Outcomes(Chunks)] /\ Len(answers) \in Nat
    <3> HIDE DEF best, better
    <3> QED
      BY <1>1, <1>2 DEF better, best
  <2> HIDE DEF better
  <2> QED
    BY <2>1
<1> HIDE DEF better, best
\* Where the question counts, there it does with a full score.
<1> DEFINE Gains(S, T, counts) == i \notin S /\ T = IF counts THEN S \cup {i} ELSE S
           answered == ~o.expectAbstention
           retrieves == (include \/ ~o.expectAbstention) /\ o.expected # {}
<1>4. o.ok = FALSE
  BY <1>1 DEF Outcomes
<1>20. /\ Metrics!Processed(answers) \subseteq DOMAIN answers
       /\ Metrics!Eligible(answers, include) \subseteq DOMAIN answers
       /\ Metrics!Answerable(answers) \subseteq DOMAIN answers
       /\ Metrics!Judged(answers) \subseteq Metrics!Answerable(answers)
       /\ Metrics!Cited(answers) \subseteq DOMAIN answers
       /\ Metrics!Abstained(answers) \subseteq DOMAIN answers
  BY DEF Metrics!Eligible, Metrics!Processed, Metrics!Answerable, Metrics!Judged, Metrics!Cited,
         Metrics!Abstained
<1>5. Gains(Metrics!Processed(answers), Metrics!Processed(better), TRUE)
  BY <1>1, <1>2 DEF Metrics!Processed
<1>6. Gains(Metrics!Eligible(answers, include), Metrics!Eligible(better, include), retrieves)
  <2> HIDE DEF o
  <2>1. \A x \in Metrics!Processed(answers) : x # i /\ better[x] = answers[x]
    BY <1>2, <1>5, <1>20
  <2>2. better[i].expected = o.expected /\ better[i].expectAbstention = o.expectAbstention
    BY <1>1, <1>2
  <2> QED
    BY <1>5, <2>1, <2>2 DEF Metrics!Eligible
<1>7. Gains({x \in Metrics!Eligible(answers, include) : Metrics!Hits(answers[x]) # {}},
            {x \in Metrics!Eligible(better, include) : Metrics!Hits(better[x]) # {}}, retrieves)
  <2>1. Metrics!Eligible(answers, include) \subseteq DOMAIN answers
    BY DEF Metrics!Eligible, Metrics!Processed
  <2> QED
    BY <1>1, <1>2, <1>6, <2>1
<1>8. Gains(Metrics!Answerable(answers), Metrics!Answerable(better), answered)
  <2> HIDE DEF o
  <2>1. \A x \in Metrics!Processed(answers) : x # i /\ better[x] = answers[x]
    BY <1>2, <1>5, <1>20
  <2>2. better[i].expectAbstention = o.expectAbstention
    BY <1>1, <1>2
  <2> QED
    BY <1>5, <2>1, <2>2 DEF Metrics!Answerable
<1>9. Gains(Metrics!Judged(answers), Metrics!Judged(better), answered)
  <2>1. Metrics!Answerable(answers) \subseteq DOMAIN answers
    BY DEF Metrics!Answerable, Metrics!Processed
  <2> QED
    BY <1>1, <1>2, <1>8, <2>1 DEF Metrics!Judged
<1>10. Metrics!Judged(answers) \subseteq DOMAIN answers
  BY DEF Metrics!Judged, Metrics!Answerable, Metrics!Processed
<1>11. Gains({x \in Metrics!Judged(answers) : Metrics!IsGrounded(answers[x])},
             {x \in Metrics!Judged(better) : Metrics!IsGrounded(better[x])}, answered)
  <2>1. ~o.expectAbstention => Metrics!IsGrounded(best)
    BY <1>1 DEF Metrics!IsGrounded
  <2> QED
    BY <1>1, <1>2, <1>9, <1>10, <2>1
<1>12. Gains(Metrics!Cited(answers), Metrics!Cited(better), answered)
  BY <1>1, <1>2, <1>9, <1>10 DEF Metrics!Cited
<1>13. Gains(Metrics!Abstained(answers), Metrics!Abstained(better), o.expectAbstention)
  BY <1>1, <1>2, <1>5 DEF Metrics!Abstained, Metrics!Processed
<1>14. Gains(Metrics!Abstained(answers) \cap Metrics!ToAbstain(answers),
             Metrics!Abstained(better) \cap Metrics!ToAbstain(better), o.expectAbstention)
  BY <1>1, <1>2, <1>5 DEF Metrics!Abstained, Metrics!ToAbstain, Metrics!Processed
<1> DEFINE One(counts) == IF counts THEN 1 ELSE 0
<1>15. ASSUME NEW S \in SUBSET DOMAIN answers, NEW T, NEW counts \in BOOLEAN, Gains(S, T, counts)
       PROVE  /\ IsFiniteSet(S) /\ Cardinality(S) \in Nat
              /\ Cardinality(T) = Cardinality(S) + One(counts)
  <2>1. IsFiniteSet(S) /\ Cardinality(S) \in Nat
    BY QuestionsFinite
  <2>2. Cardinality(S \cup {i}) = Cardinality(S) + 1
    BY <1>15, <2>1, FS_AddElement
  <2> QED
    BY <1>15, <2>1, <2>2
<1>16. \A g \in Metrics!Gates : /\ threshold[g] \in Nat \X Nat /\ threshold[g][1] <= threshold[g][2]
                                /\ ~Metrics!Below(Metrics!Report(answers, include)[g], threshold[g])
  BY DEF Thresholds, Metrics!Passed, Metrics!Failing
<1>17. o.expectAbstention \in BOOLEAN /\ retrieves \in BOOLEAN /\ answered \in BOOLEAN
  BY <1>1 DEF Outcomes
\* Of a share both sides gain one, of a mean one full score.
<1>18. ASSUME NEW S, NEW T, NEW S2 \in SUBSET DOMAIN answers, NEW T2, NEW counts \in BOOLEAN,
              S \subseteq S2, Gains(S, T, counts), Gains(S2, T2, counts),
              NEW t \in Nat \X Nat, t[1] <= t[2], ~Metrics!Below(Metrics!Share(S, S2), t)
       PROVE  ~Metrics!Below(Metrics!Share(T, T2), t)
  <2>1. /\ Cardinality(T) = Cardinality(S) + One(counts) /\ Cardinality(S) \in Nat
        /\ Cardinality(T2) = Cardinality(S2) + One(counts) /\ Cardinality(S2) \in Nat
        /\ One(counts) \in Nat
    BY <1>15, <1>18
  <2> HIDE DEF Gains, One
  <2> QED
    BY <1>18, <2>1, MoreOfBoth, MetricsCount DEF Metrics!Share
<1>19. ASSUME NEW S \in SUBSET DOMAIN answers, NEW T, NEW counts \in BOOLEAN, Gains(S, T, counts),
              NEW f \in [S -> Nat], NEW g \in [T -> Nat], \A x \in S : f[x] = g[x],
              counts => g[i] = 6,
              NEW t \in Nat \X Nat, t[1] <= t[2], ~Metrics!Below(Metrics!Mean(f), t)
       PROVE  ~Metrics!Below(Metrics!Mean(g), t)
  <2>1. /\ IsFiniteSet(S) /\ Cardinality(S) \in Nat /\ Cardinality(T) = Cardinality(S) + One(counts)
    BY <1>15, <1>19
  <2>2. CASE counts
    <3>1. i \notin S /\ T = S \cup {i} /\ IsFiniteSet(S) /\ g[i] = 6
      BY <1>19, <2>1, <2>2
    <3> HIDE DEF Gains, One
    <3> QED
      BY <1>19, <3>1, MeanMore
  <2>3. CASE ~counts
    <3>1. T = S
      BY <1>19, <2>3
    <3>2. f = g
      BY <1>19, <3>1
    <3> QED
      BY <1>19, <3>2
  <2> QED
    BY <2>2, <2>3
<1> HIDE DEF Gains, One, retrieves, answered, o
<1>21. ~Metrics!Below(Metrics!RecallAtK(better, include), threshold["recallAtK"])
  <2> DEFINE S == {x \in Metrics!Eligible(answers, include) : Metrics!Hits(answers[x]) # {}}
             T == {x \in Metrics!Eligible(better, include) : Metrics!Hits(better[x]) # {}}
  <2>1. Gains(S, T, retrieves) /\ S \subseteq Metrics!Eligible(answers, include)
    BY <1>7
  <2>2. /\ Metrics!RecallAtK(answers, include) = Metrics!Share(S, Metrics!Eligible(answers, include))
        /\ Metrics!RecallAtK(better, include) = Metrics!Share(T, Metrics!Eligible(better, include))
    BY DEF Metrics!RecallAtK
  <2>3. /\ threshold["recallAtK"] \in Nat \X Nat
        /\ threshold["recallAtK"][1] <= threshold["recallAtK"][2]
        /\ ~Metrics!Below(Metrics!RecallAtK(answers, include), threshold["recallAtK"])
    BY <1>16 DEF Metrics!Gates, Metrics!Report
  <2> HIDE DEF S, T
  <2> QED
    BY <1>6, <1>17, <1>18, <1>20, <2>1, <2>2, <2>3
<1>22. ~Metrics!Below(Metrics!Groundedness(better), threshold["groundedness"])
  <2> DEFINE S == {x \in Metrics!Judged(answers) : Metrics!IsGrounded(answers[x])}
             T == {x \in Metrics!Judged(better) : Metrics!IsGrounded(better[x])}
  <2>1. Gains(S, T, answered) /\ S \subseteq Metrics!Answerable(answers)
    BY <1>11, <1>20
  <2>2. /\ Metrics!Groundedness(answers) = Metrics!Share(S, Metrics!Answerable(answers))
        /\ Metrics!Groundedness(better) = Metrics!Share(T, Metrics!Answerable(better))
    BY DEF Metrics!Groundedness
  <2>3. /\ threshold["groundedness"] \in Nat \X Nat
        /\ threshold["groundedness"][1] <= threshold["groundedness"][2]
        /\ ~Metrics!Below(Metrics!Groundedness(answers), threshold["groundedness"])
    BY <1>16 DEF Metrics!Gates, Metrics!Report
  <2> HIDE DEF S, T
  <2> QED
    BY <1>8, <1>17, <1>18, <1>20, <2>1, <2>2, <2>3
<1>23. ~Metrics!Below(Metrics!AbstentionPrecision(better), threshold["abstentionPrecision"])
  <2> DEFINE S == Metrics!Abstained(answers) \cap Metrics!ToAbstain(answers)
             T == Metrics!Abstained(better) \cap Metrics!ToAbstain(better)
  <2>1. Gains(S, T, o.expectAbstention) /\ S \subseteq Metrics!Abstained(answers)
    BY <1>14
  <2>2. /\ Metrics!AbstentionPrecision(answers) = Metrics!Share(S, Metrics!Abstained(answers))
        /\ Metrics!AbstentionPrecision(better) = Metrics!Share(T, Metrics!Abstained(better))
    BY DEF Metrics!AbstentionPrecision
  <2>3. /\ threshold["abstentionPrecision"] \in Nat \X Nat
        /\ threshold["abstentionPrecision"][1] <= threshold["abstentionPrecision"][2]
        /\ ~Metrics!Below(Metrics!AbstentionPrecision(answers), threshold["abstentionPrecision"])
    BY <1>16 DEF Metrics!Gates, Metrics!Report
  <2> HIDE DEF S, T
  <2> QED
    BY <1>13, <1>17, <1>18, <1>20, <2>1, <2>2, <2>3
<1>24. ~Metrics!Below(Metrics!Mrr(better, include), threshold["mrr"])
  <2> DEFINE S == Metrics!Eligible(answers, include)
             T == Metrics!Eligible(better, include)
             f == [x \in S |-> Metrics!ReciprocalRank(answers[x])]
             g == [x \in T |-> Metrics!ReciprocalRank(better[x])]
  <2>1. S \subseteq DOMAIN answers /\ T \subseteq DOMAIN better /\ Gains(S, T, retrieves)
    BY <1>6, <1>20 DEF Metrics!Eligible, Metrics!Processed
  <2>2. f \in [S -> Nat] /\ g \in [T -> Nat]
    <3>1. \A x \in S : answers[x] \in Outcomes(Chunks)
      BY <2>1
    <3>2. \A x \in T : better[x] \in Outcomes(Chunks)
      BY <1>3, <2>1
    <3> QED
      BY <3>1, <3>2, RankBounds
  <2>3. \A x \in S : f[x] = g[x]
    BY <1>2, <2>1 DEF Gains
  <2>4. retrieves => g[i] = 6
    <3>1. retrieves => i \in T /\ better[i] = best /\ 1 \in Metrics!Hits(best)
      BY <1>1, <1>2, <2>1 DEF Gains, retrieves
    <3> QED
      BY <1>1, <3>1, RankBounds
  <2>5. Metrics!Mrr(answers, include) = Metrics!Mean(f) /\ Metrics!Mrr(better, include) = Metrics!Mean(g)
    BY DEF Metrics!Mrr
  <2>6. /\ threshold["mrr"] \in Nat \X Nat /\ threshold["mrr"][1] <= threshold["mrr"][2]
        /\ ~Metrics!Below(Metrics!Mrr(answers, include), threshold["mrr"])
    BY <1>16 DEF Metrics!Gates, Metrics!Report
  <2> HIDE DEF S, T, f, g
  <2> QED
    BY <1>17, <1>19, <2>1, <2>2, <2>3, <2>4, <2>5, <2>6
<1>25. ~Metrics!Below(Metrics!CitationPrecisionMean(better), threshold["citationPrecisionMean"])
  <2> DEFINE S == Metrics!Cited(answers)
             T == Metrics!Cited(better)
             f == [x \in S |-> Metrics!Precision(answers[x])]
             g == [x \in T |-> Metrics!Precision(better[x])]
  <2>1. /\ S \subseteq DOMAIN answers /\ T \subseteq DOMAIN better
        /\ Gains(S, T, answered)
    BY <1>12, <1>20 DEF Metrics!Cited, Metrics!Judged, Metrics!Answerable, Metrics!Processed
  <2>2. f \in [S -> Nat] /\ g \in [T -> Nat]
    <3>1. \A x \in S : answers[x] \in Outcomes(Chunks) /\ answers[x].cited # {}
      BY <2>1 DEF Metrics!Cited
    <3>2. \A x \in T : better[x] \in Outcomes(Chunks) /\ better[x].cited # {}
      BY <1>3, <2>1 DEF Metrics!Cited
    <3> QED
      BY <3>1, <3>2, PrecisionBounds
  <2>3. \A x \in S : f[x] = g[x]
    BY <1>2, <2>1 DEF Gains
  <2>4. answered => g[i] = 6
    <3>1. answered => /\ i \in T /\ better[i] = best /\ best.cited = best.expected
                     /\ best.cited # {}
      BY <1>1, <1>2, <2>1 DEF Gains, Metrics!Cited, answered
    <3> QED
      BY <1>1, <3>1, PrecisionBounds
  <2>5. /\ Metrics!CitationPrecisionMean(answers) = Metrics!Mean(f)
        /\ Metrics!CitationPrecisionMean(better) = Metrics!Mean(g)
    BY DEF Metrics!CitationPrecisionMean
  <2>6. /\ threshold["citationPrecisionMean"] \in Nat \X Nat
        /\ threshold["citationPrecisionMean"][1] <= threshold["citationPrecisionMean"][2]
        /\ ~Metrics!Below(Metrics!CitationPrecisionMean(answers), threshold["citationPrecisionMean"])
    BY <1>16 DEF Metrics!Gates, Metrics!Report
  <2> HIDE DEF S, T, f, g
  <2> QED
    BY <1>17, <1>19, <2>1, <2>2, <2>3, <2>4, <2>5, <2>6
<1>26. Metrics!Failing(Metrics!Report(better, include), threshold) = {}
  BY <1>21, <1>22, <1>23, <1>24, <1>25 DEF Metrics!Failing, Metrics!Report, Metrics!Gates
\* There is one error less, among as many questions.
<1>27. ~Metrics!Below(MaxErrors, Metrics!ErrorRate(better))
  <2> DEFINE errors == DOMAIN answers \ Metrics!Processed(answers)
             n == Cardinality(DOMAIN answers)
             e == Cardinality(errors)
  <2>1. /\ i \in errors /\ errors \in SUBSET DOMAIN answers
        /\ DOMAIN better \ Metrics!Processed(better) = errors \ {i}
    BY <1>2, <1>4, <1>5 DEF Metrics!Processed, Gains, o
  <2>2. IsFiniteSet(DOMAIN answers) /\ n \in Nat
    BY QuestionsFinite
  <2>3. e \in Nat \ {0} /\ Cardinality(errors \ {i}) = e - 1
    <3> HIDE DEF errors, n
    <3> QED
      BY <2>1, <2>2, Without DEF e
  <2>4. n # 0
    BY <2>2, FS_EmptySet
  <2>5. answers # <<>> /\ better # <<>>
    BY <1>2
  <2>6. /\ Metrics!ErrorRate(answers) = <<e, n>>
        /\ Metrics!ErrorRate(better) = <<e - 1, n>>
    BY <1>2, <2>1, <2>3, <2>4, <2>5, MetricsCount DEF Metrics!ErrorRate, Metrics!Share, Metrics!Fraction
  <2>7. ~Metrics!Below(MaxErrors, <<e, n>>)
    BY <2>6 DEF Metrics!Passed
  <2> HIDE DEF e, n
  <2> DEFINE x == MaxErrors[1]
             y == MaxErrors[2]
  <2>8. MaxErrors = <<x, y>> /\ x \in Nat /\ y \in Nat \ {0}
    BY MetricsAssumption
  <2> HIDE DEF x, y
  <2>9. ~ (x * n < e * y)
    BY <2>2, <2>4, <2>7, <2>8 DEF Metrics!Below, Metrics!NoFraction
  <2>10. ~ (x * n < (e - 1) * y)
    <3>1. (e - 1) * y = e * y - y /\ x * n \in Int /\ e * y \in Int
      BY <2>2, <2>3, <2>8
    <3> QED
      BY <2>8, <2>9, <3>1
  <2> QED
    BY <2>6, <2>8, <2>10 DEF Metrics!Below
<1> QED
  BY <1>26, <1>27 DEF Metrics!Passed, better

LEMMA ThreeChunks == IsFiniteSet(1..3)
<1>1. \A n \in Nat : IsFiniteSet(1..n)
  BY FS_Interval
<1>2. 3 \in Nat
  OBVIOUS
<1> QED
  BY <1>1, <1>2, Zenon

LEMMA TriedOutcomes ==
    \A o \in Errors \cup Fine : o \in Outcomes(1..3)
<1> DEFINE Retrieved == {<<>>, <<1, 3>>, <<2, 3, 1>>}
           Sets == {{}, {1}, {1, 2}, {1, 3}}
           Ends == {"completed", "abstained", "failed", "none"}
<1>1. \A k \in BOOLEAN, a \in BOOLEAN, e \in Sets, r \in Retrieved, c \in Sets, y \in Ends :
          Outcome(k, a, e, r, c, y) \in Outcomes(1..3)
  <2> TAKE k \in BOOLEAN, a \in BOOLEAN, e \in Sets, r \in Retrieved, c \in Sets, y \in Ends
  <2>1. e \in SUBSET (1..3) /\ c \in SUBSET (1..3)
    OBVIOUS
  <2>2. r \in Seq(1..3) /\ Len(r) \in Nat
    <3>1. <<>> \in Seq(1..3) /\ <<1, 3>> \in Seq(1..3) /\ <<2, 3, 1>> \in Seq(1..3)
      OBVIOUS
    <3> QED
      BY <3>1
  <2>3. Cardinality(c) \in Nat
    <3>1. IsFiniteSet(c)
      BY <2>1, ThreeChunks, FS_Subset
    <3> QED
      BY <3>1, FS_CardinalityType
  <2>4. Len(r) + Cardinality(c) \in Nat
    BY <2>2, <2>3
  <2> QED
    BY <2>1, <2>2, <2>4 DEF Outcome, Outcomes
<1>2. \A o \in Errors : o \in Outcomes(1..3)
  <2> TAKE o \in Errors
  <2>1. PICK a \in BOOLEAN, e \in {{}, {1, 3}} : o = Outcome(FALSE, a, e, <<>>, {}, "none")
    BY DEF Errors, Outcome
  <2>2. e \in Sets /\ FALSE \in BOOLEAN /\ <<>> \in Retrieved /\ {} \in Sets /\ "none" \in Ends
    BY <2>1
  <2> HIDE DEF Sets, Retrieved, Ends
  <2> QED
    BY <1>1, <2>1, <2>2, Zenon
<1>3. \A c \in Endings : c[1] \in Sets /\ c[2] \in Ends
  BY DEF Endings
<1>4. \A o \in Fine : o \in Outcomes(1..3)
  <2> TAKE o \in Fine
  <2>1. PICK a \in BOOLEAN, e \in {{}, {1, 3}}, r \in Retrieved, c \in Endings :
            o = Outcome(TRUE, a, e, r, c[1], c[2])
    BY DEF Fine, Outcome
  <2>2. e \in Sets /\ TRUE \in BOOLEAN /\ c[1] \in Sets /\ c[2] \in Ends
    BY <1>3, <2>1
  <2> HIDE DEF Sets, Retrieved, Ends
  <2> QED
    BY <1>1, <2>1, <2>2, Zenon
<1> QED
  BY <1>2, <1>4

LEMMA TriedRuns ==
    ASSUME NEW run \in MetricsInputs
    PROVE  /\ run.outcomes \in Seq(Outcomes(1..3)) /\ run.includeAbstain \in BOOLEAN
           /\ run.threshold \in Thresholds
<1>1. Plain \subseteq Fine
  BY DEF Plain
<1>2. run.outcomes = <<>> \/ \E a, b, c \in Outcomes(1..3) : run.outcomes = <<a, b, c>>
  BY <1>1, TriedOutcomes DEF MetricsInputs
<1>3. run.outcomes \in Seq(Outcomes(1..3))
  <2>1. \A S : \A a, b, c \in S : <<>> \in Seq(S) /\ <<a, b, c>> \in Seq(S)
    OBVIOUS
  <2>2. CASE run.outcomes = <<>>
    BY <2>2
  <2>3. CASE \E a, b, c \in Outcomes(1..3) : run.outcomes = <<a, b, c>>
    <3>1. PICK a, b, c \in Outcomes(1..3) : run.outcomes = <<a, b, c>>
      BY <2>3
    <3> HIDE DEF Outcomes
    <3> QED
      BY <2>1, <3>1, Zenon
  <2> QED
    BY <1>2, <2>2, <2>3
<1>4. run.threshold \in Thresholds
  BY DEF MetricsInputs, Thresholds
<1> QED
  BY <1>3, <1>4 DEF MetricsInputs

-----------------------------------------------------------------------------
(* What sorting leaves *)

\* What sorting by keys promises: each member once, in the order of the keys.
Sorts(list, S, key) ==
    /\ Cardinality(S) \in Nat
    /\ list \in [1..Cardinality(S) -> S]
    /\ \A x \in S : \E k \in 1..Cardinality(S) : list[k] = x
    /\ \A i, j \in 1..Cardinality(S) : i < j => Precedes(key[list[i]], key[list[j]])
    /\ \A i, j \in 1..Cardinality(S) : list[i] = list[j] => i = j

\* Evidence and Retrieval sort alike.
SortsSo(list, S, key) ==
    list = [k \in 1..Cardinality(S) |->
              CHOOSE x \in S : Cardinality({y \in S : Precedes(key[y], key[x])}) = k - 1]

LEMMA SortedSo ==
    ASSUME NEW S, NEW key
    PROVE  /\ SortsSo(Evidence!SortedBy(S, key), S, key)
           /\ SortsSo(Retrieval!SortedBy(S, key), S, key)
<1>1. SortsSo(Evidence!SortedBy(S, key), S, key)
  BY DEF SortsSo, Precedes, Cardinality, Evidence!SortedBy, Evidence!Less, Evidence!Cardinality
<1>2. SortsSo(Retrieval!SortedBy(S, key), S, key)
  BY DEF SortsSo, Precedes, Cardinality, Retrieval!SortedBy, Retrieval!Less, Retrieval!Cardinality
<1> QED
  BY <1>1, <1>2

LEMMA SortedBySorts ==
    ASSUME NEW S, IsFiniteSet(S), NEW n \in Nat, NEW keys, NEW key \in [keys -> [1..n -> Int]],
           S \subseteq keys, \A x, y \in S : key[x] = key[y] => x = y,
           NEW list, SortsSo(list, S, key)
    PROVE  Sorts(list, S, key)
<1> DEFINE own == [x \in S |-> key[x]]
           R == KeyOrder(S, key)
<1>1. own \in [S -> [1..n -> Int]] /\ (\A x, y \in S : own[x] = own[y] => x = y)
  OBVIOUS
<1>2. R = KeyOrder(S, own)
  BY DEF KeyOrder
<1> HIDE DEF own
<1>3. IsOrder(R, S)
  BY <1>1, <1>2, KeysOrder
<1>4. \A x \in S : Behind(S, R, x) = {y \in S : Precedes(key[y], key[x])}
  BY DEF Behind, KeyOrder
<1>5. IsRow(list, S, R)
  <2>1. list = [k \in 1..Cardinality(S) |-> list[k]]
    <3> DEFINE At(k) == CHOOSE x \in S : Cardinality({y \in S : Precedes(key[y], key[x])}) = k - 1
    <3>1. list = [k \in 1..Cardinality(S) |-> At(k)]
      BY DEF SortsSo
    <3> HIDE DEF At
    <3> QED
      BY <3>1
  <2>2. ASSUME NEW k \in 1..Cardinality(S), NEW x \in S, Cardinality(Behind(S, R, x)) = k - 1
        PROVE  list[k] \in S /\ Cardinality(Behind(S, R, list[k])) = k - 1
    <3>1. list[k] = CHOOSE z \in S : Cardinality({y \in S : Precedes(key[y], key[z])}) = k - 1
      BY DEF SortsSo
    <3>2. Cardinality({y \in S : Precedes(key[y], key[x])}) = k - 1
      BY <1>4, <2>2
    <3>3. list[k] \in S /\ Cardinality({y \in S : Precedes(key[y], key[list[k]])}) = k - 1
      BY <3>1, <3>2
    <3> QED
      BY <1>4, <3>3
  <2> QED
    BY <2>1, <2>2 DEF IsRow
<1>6. \A x, y \in S : <<x, y>> \in R => Precedes(key[x], key[y])
  BY DEF KeyOrder
<1> HIDE DEF R
<1>7. /\ Cardinality(S) \in Nat
      /\ list \in [1..Cardinality(S) -> S]
      /\ \A x \in S : \E k \in 1..Cardinality(S) : list[k] = x
      /\ \A i, j \in 1..Cardinality(S) : i < j => <<list[i], list[j]>> \in R
      /\ \A i, j \in 1..Cardinality(S) : list[i] = list[j] => i = j
  BY <1>3, <1>5, RowSorts
<1>8. \A i, j \in 1..Cardinality(S) : i < j => Precedes(key[list[i]], key[list[j]])
  BY <1>6, <1>7
<1> QED
  BY <1>7, <1>8 DEF Sorts

-----------------------------------------------------------------------------
(* Texts *)

LineOf(W) == [words : Seq(W), question : BOOLEAN]
TextOf(W) == Seq(LineOf(W))

LEMMA WordsOfLine ==
    ASSUME NEW W, NEW line \in LineOf(W)
    PROVE  line.words \in Seq(W)
BY DEF LineOf

LEMMA DomainFinite ==
    ASSUME NEW W, NEW s \in Seq(W)
    PROVE  IsFiniteSet(DOMAIN s)
BY FS_Interval

\* Texts have finitely many words and pairs of words.
LEMMA WordsFinite ==
    ASSUME NEW W, NEW text \in TextOf(W)
    PROVE  /\ IsFiniteSet(Evidence!Tokens(text)) /\ IsFiniteSet(Evidence!ContentTokens(text))
           /\ IsFiniteSet(Evidence!NumbersOf(text)) /\ IsFiniteSet(Evidence!Bigrams(text))
<1>1. \A i \in DOMAIN text : text[i].words \in Seq(W)
  BY WordsOfLine DEF TextOf
<1>2. IsFiniteSet(DOMAIN text)
  BY FS_Interval DEF TextOf
<1>3. IsFiniteSet(Evidence!Tokens(text))
  <2> DEFINE own == [i \in DOMAIN text |-> Evidence!Range(text[i].words)]
  <2>1. ASSUME NEW i \in DOMAIN text
        PROVE  IsFiniteSet(own[i])
    <3> DEFINE s == text[i].words
    <3>1. s \in Seq(W) /\ IsFiniteSet(DOMAIN s)
      BY <1>1, DomainFinite
    <3>2. s \in [DOMAIN s -> {s[k] : k \in DOMAIN s}]
      BY <3>1
    <3>3. own[i] = {s[k] : k \in DOMAIN s}
      BY DEF Evidence!Range
    <3> HIDE DEF s, own
    <3>4. IsFiniteSet({s[k] : k \in DOMAIN s})
      BY <3>1, <3>2, ImageFinite
    <3> QED
      BY <3>3, <3>4
  <2>2. own \in [DOMAIN text -> {own[i] : i \in DOMAIN text}]
    OBVIOUS
  <2>3. Evidence!Tokens(text) = UNION {own[i] : i \in DOMAIN text}
    BY DEF Evidence!Tokens
  <2> HIDE DEF own
  <2>4. IsFiniteSet(UNION {own[i] : i \in DOMAIN text})
    BY <1>2, <2>1, <2>2, UnionFinite
  <2> QED
    BY <2>3, <2>4
<1>4. IsFiniteSet(Evidence!Bigrams(text))
  <2> DEFINE own == [i \in DOMAIN text |->
                       {<<text[i].words[j], text[i].words[j + 1]>> : j \in 1..Len(text[i].words) - 1}]
  <2>1. ASSUME NEW i \in DOMAIN text
        PROVE  IsFiniteSet(own[i])
    <3> DEFINE s == text[i].words
               starts == 1..Len(s) - 1
               pairs == [j \in starts |-> <<s[j], s[j + 1]>>]
    <3>1. s \in Seq(W) /\ IsFiniteSet(starts)
      BY <1>1, FS_Interval
    <3>3. own[i] = {pairs[j] : j \in starts}
      OBVIOUS
    <3> HIDE DEF s, starts, pairs, own
    <3>4. IsFiniteSet({pairs[j] : j \in starts})
      BY <3>1, ImageFinite
    <3> QED
      BY <3>3, <3>4
  <2>2. own \in [DOMAIN text -> {own[i] : i \in DOMAIN text}]
    OBVIOUS
  <2>3. Evidence!Bigrams(text) = UNION {own[i] : i \in DOMAIN text}
    BY DEF Evidence!Bigrams
  <2> HIDE DEF own
  <2>4. IsFiniteSet(UNION {own[i] : i \in DOMAIN text})
    BY <1>2, <2>1, <2>2, UnionFinite
  <2> QED
    BY <2>3, <2>4
<1>5. /\ Evidence!ContentTokens(text) \in SUBSET Evidence!Tokens(text)
      /\ Evidence!NumbersOf(text) \in SUBSET Evidence!Tokens(text)
  BY DEF Evidence!ContentTokens, Evidence!NumbersOf
<1> QED
  BY <1>3, <1>4, <1>5, FS_Subset

\* A part of a whole, of c parts of it, is a number of percent at most c.
LEMMA Percent ==
    ASSUME NEW a \in Nat, NEW b \in Nat, a <= b, b > 0, NEW c \in {50, 100}
    PROVE  (c * a) \div b \in 0..c
OBVIOUS

LEMMA CountsAgree ==
    \A S : Evidence!Cardinality(S) = Cardinality(S) /\ Retrieval!Cardinality(S) = Cardinality(S)
BY DEF Evidence!Cardinality, Retrieval!Cardinality, Cardinality

LEMMA JaccardBounds ==
    ASSUME NEW A, IsFiniteSet(A), NEW B, IsFiniteSet(B)
    PROVE  Evidence!Jaccard(A, B) \in 0..100
<1>1. CASE A = {} \/ B = {}
  BY <1>1 DEF Evidence!Jaccard
<1>2. CASE A # {} /\ B # {}
  <2>1. IsFiniteSet(A \cup B) /\ A \cap B \in SUBSET (A \cup B) /\ A \cup B # {}
    BY <1>2, FS_Union
  <2>2. /\ Cardinality(A \cap B) \in Nat /\ Cardinality(A \cup B) \in Nat
        /\ Cardinality(A \cap B) <= Cardinality(A \cup B) /\ Cardinality(A \cup B) # 0
    BY <2>1, FS_Subset, FS_CardinalityType, FS_EmptySet
  <2>3. Evidence!Jaccard(A, B) = (100 * Cardinality(A \cap B)) \div Cardinality(A \cup B)
    BY <1>2, CountsAgree DEF Evidence!Jaccard
  <2> QED
    BY <2>2, <2>3, Percent
<1> QED
  BY <1>1, <1>2

\* A text of one line of another is a text.
LEMMA LineAlone ==
    ASSUME NEW W, NEW text \in TextOf(W), NEW i \in DOMAIN text
    PROVE  <<text[i]>> \in TextOf(W)
BY DEF TextOf

\* A greatest member is what Max returns.
LEMMA MaxIs ==
    ASSUME NEW S \in SUBSET Nat, IsFiniteSet(S), S # {}
    PROVE  /\ Evidence!Max(S) \in S /\ \A x \in S : x <= Evidence!Max(S)
           /\ Retrieval!Max(S) = Evidence!Max(S)
<1>1. PICK m \in S : \A n \in S : n <= m
  BY GreatestOfFinite
<1>2. Retrieval!Max(S) = Evidence!Max(S)
  BY DEF Evidence!Max, Retrieval!Max
<1>3. \A y \in S : m >= y
  BY <1>1
<1>4. Evidence!Max(S) \in S /\ \A y \in S : Evidence!Max(S) >= y
  BY <1>3 DEF Evidence!Max
<1> QED
  BY <1>2, <1>4

LEMMA FaqBounds ==
    ASSUME NEW W, NEW query \in TextOf(W), NEW text \in TextOf(W)
    PROVE  Evidence!BestFaq(query, text) \in 0..100
<1> DEFINE Q == Evidence!QuestionLines(text)
           like == [i \in Q |-> Evidence!Jaccard(Evidence!ContentTokens(query),
                                                 Evidence!ContentTokens(<<text[i]>>))]
           L == {0} \cup {like[i] : i \in Q}
<1>1. Q \in SUBSET DOMAIN text
  BY DEF Evidence!QuestionLines
<1>2. IsFiniteSet(Q)
  BY <1>1, DomainFinite, FS_Subset DEF TextOf
<1>3. ASSUME NEW i \in Q
      PROVE  like[i] \in 0..100
  <2>1. <<text[i]>> \in TextOf(W)
    BY <1>1, LineAlone
  <2>2. IsFiniteSet(Evidence!ContentTokens(query)) /\ IsFiniteSet(Evidence!ContentTokens(<<text[i]>>))
    BY <2>1, WordsFinite
  <2> QED
    BY <2>2, JaccardBounds
<1>4. Evidence!BestFaq(query, text) = Evidence!Max(L)
  BY DEF Evidence!BestFaq
<1> DEFINE T == {like[i] : i \in Q}
<1>5. IsFiniteSet(T)
  BY <1>2, ImageFinite
<1>6. IsFiniteSet(L)
  <2> HIDE DEF T, like, Q
  <2>1. IsFiniteSet({0} \cup T)
    BY <1>5, FS_Singleton, FS_Union
  <2> QED
    BY <2>1 DEF T
<1> HIDE DEF like, Q
<1>7. L \in SUBSET (0..100) /\ L # {}
  BY <1>3
<1> HIDE DEF L
<1>8. L \in SUBSET Nat
  BY <1>7
<1>9. Evidence!Max(L) \in L
  BY <1>6, <1>7, <1>8, MaxIs
<1> QED
  BY <1>4, <1>7, <1>9

-----------------------------------------------------------------------------
(* Evidence *)

HitOf(W) == [text : TextOf(W), heading : TextOf(W), document : Int, index : Int, score : Nat]

SignalOf ==
    [lexical : Nat, persian : Nat, heading : Nat, faq : Nat, phrase : Nat, numeric : Nat,
     entity : Nat, rc32 : Nat, rank : Nat]

LEMMA HitParts ==
    ASSUME NEW W, NEW chunks \in Seq(HitOf(W)), NEW i \in DOMAIN chunks
    PROVE  /\ chunks[i].text \in TextOf(W) /\ chunks[i].heading \in TextOf(W)
           /\ chunks[i].document \in Int /\ chunks[i].index \in Int /\ chunks[i].score \in Nat
<1>1. chunks[i] \in HitOf(W)
  OBVIOUS
<1> QED
  BY <1>1 DEF HitOf

LEMMA OfTwo ==
    ASSUME NEW a \in Int, NEW b \in Int
    PROVE  /\ Evidence!Max({a, b}) = IF a >= b THEN a ELSE b
           /\ Evidence!Min({a, b}) = IF a <= b THEN a ELSE b
BY DEF Evidence!Max, Evidence!Min

\* Every signal is a number; the first hit has the whole of its rank, and one of the
\* greatest score the whole of that.
LEMMA SignalBounds ==
    ASSUME NEW W, NEW query \in TextOf(W), NEW chunks \in Seq(HitOf(W)), NEW i \in DOMAIN chunks
    PROVE  /\ Evidence!Signals(query, chunks, i) \in SignalOf
           /\ i = 1 => Evidence!Signals(query, chunks, i).rank = 100
           /\ chunks[i].score > 0 /\ (\A j \in DOMAIN chunks : chunks[j].score <= chunks[i].score)
                => Evidence!Signals(query, chunks, i).rc32 = 100
<1> DEFINE c == chunks[i]
           whole == c.heading \o c.text
           s == Evidence!Signals(query, chunks, i)
           Marks == {chunks[j].score : j \in DOMAIN chunks}
           best == Evidence!Max(Marks)
           asked == Evidence!ContentTokens(query)
<1>1. /\ c.text \in TextOf(W) /\ c.heading \in TextOf(W) /\ c.score \in Nat
      /\ \A j \in DOMAIN chunks : chunks[j].score \in Nat
  BY HitParts
<1>2. whole \in TextOf(W)
  BY <1>1 DEF TextOf
<1>3. /\ IsFiniteSet(asked) /\ IsFiniteSet(Evidence!ContentTokens(c.text))
      /\ IsFiniteSet(Evidence!ContentTokens(c.heading)) /\ IsFiniteSet(Evidence!ContentTokens(whole))
      /\ IsFiniteSet(Evidence!NumbersOf(query)) /\ IsFiniteSet(Evidence!Bigrams(query))
  BY <1>1, <1>2, WordsFinite
<1>4. /\ IsFiniteSet(asked \cap Persian)
      /\ IsFiniteSet(Evidence!ContentTokens(whole) \cap Persian)
  BY <1>3, FS_Subset
<1>5. best \in Nat /\ c.score <= best
        /\ ((\A j \in DOMAIN chunks : chunks[j].score <= c.score) => best = c.score)
  <2> DEFINE score == [j \in DOMAIN chunks |-> chunks[j].score]
  <2>1. Marks = {score[j] : j \in DOMAIN chunks}
    OBVIOUS
  <2>2. IsFiniteSet(Marks)
    <3> HIDE DEF score, Marks
    <3>1. IsFiniteSet(DOMAIN chunks)
      BY DomainFinite
    <3> QED
      BY <2>1, <3>1, ImageFinite
  <2>3. Marks \in SUBSET Nat /\ c.score \in Marks
    BY <1>1
  <2> HIDE DEF Marks
  <2>4. best \in Marks /\ \A x \in Marks : x <= best
    BY <2>2, <2>3, MaxIs
  <2>5. (\A j \in DOMAIN chunks : chunks[j].score <= c.score) => \A x \in Marks : x <= c.score
    BY DEF Marks
  <2>6. best \in Nat /\ c.score \in Nat /\ c.score <= best
    BY <2>3, <2>4
  <2>7. (\A x \in Marks : x <= c.score) => best = c.score
    <3> HIDE DEF best, c
    <3> QED
      BY <2>4, <2>6
  <2> QED
    BY <2>5, <2>6, <2>7
<1>6. s.rc32 = IF best = 0 THEN 0 ELSE (100 * c.score) \div best
  BY DEF Evidence!Signals
<1>7. s.rc32 \in Nat /\ (c.score > 0 /\ best = c.score => s.rc32 = 100)
  <2> HIDE DEF s, best, c
  <2>1. ASSUME NEW a \in Nat, NEW b \in Nat \ {0}
        PROVE  (100 * a) \div b \in Nat /\ (a = b => (100 * a) \div b = 100)
    BY <2>1
  <2> QED
    BY <1>1, <1>5, <1>6, <2>1
<1>8. s.rank = 100 \div i /\ i \in Nat \ {0}
  BY DEF Evidence!Signals
<1>9. s.phrase \in Nat
  <2> DEFINE B == Evidence!Bigrams(query)
             J == Evidence!Joint(c)
             n == Cardinality(B \cap J)
             m == Evidence!Max({1, Cardinality(B)})
  <2>1. s.phrase = IF Evidence!PhraseOf(query, whole) THEN 100 ELSE (50 * n) \div m
    BY CountsAgree DEF Evidence!Signals
  <2>2. B \cap J \in SUBSET B
    OBVIOUS
  <2>3. n \in Nat /\ Cardinality(B) \in Nat
    BY <1>3, <2>2, FS_Subset, FS_CardinalityType
  <2>4. m \in Nat \ {0}
    BY <2>3, OfTwo
  <2> HIDE DEF n, m, s
  <2> QED
    BY <2>1, <2>3, <2>4
<1>10. s.numeric \in Nat
  <2> DEFINE N == Evidence!NumbersOf(query)
             n == Cardinality(N \cap Evidence!NumbersOf(c.text))
             m == Cardinality(N)
  <2>1. s.numeric = IF N = {} THEN 0 ELSE (100 * n) \div m
    BY CountsAgree DEF Evidence!Signals
  <2>2. N \cap Evidence!NumbersOf(c.text) \in SUBSET N
    OBVIOUS
  <2>3. n \in Nat /\ m \in Nat /\ (N # {} => m # 0)
    BY <1>3, <2>2, FS_Subset, FS_CardinalityType, FS_EmptySet
  <2> HIDE DEF n, m, s, N
  <2> QED
    BY <2>1, <2>3
<1>11. s.lexical \in Nat /\ s.persian \in Nat /\ s.heading \in Nat /\ s.entity \in Nat /\ s.faq \in Nat
  <2>1. /\ s.lexical = Evidence!Jaccard(asked, Evidence!ContentTokens(c.text))
        /\ s.persian = Evidence!Jaccard(asked \cap Persian, Evidence!ContentTokens(whole) \cap Persian)
        /\ s.heading = Evidence!Jaccard(asked, Evidence!ContentTokens(c.heading))
        /\ s.entity = Evidence!Jaccard(asked, Evidence!ContentTokens(whole))
        /\ s.faq = Evidence!BestFaq(query, c.text)
    BY DEF Evidence!Signals
  <2> HIDE DEF s, asked, whole
  <2>2. s.lexical \in 0..100 /\ s.persian \in 0..100 /\ s.heading \in 0..100 /\ s.entity \in 0..100
    BY <1>3, <1>4, <2>1, JaccardBounds
  <2>3. s.faq \in 0..100
    BY <1>1, <2>1, FaqBounds
  <2>4. \A x \in 0..100 : x \in Nat
    OBVIOUS
  <2> QED
    BY <2>2, <2>3, <2>4
<1>12. s.rank \in Nat /\ (i = 1 => s.rank = 100)
  <2> HIDE DEF s
  <2> QED
    BY <1>8
<1>13. s = [lexical |-> s.lexical, persian |-> s.persian, heading |-> s.heading, faq |-> s.faq,
            phrase |-> s.phrase, numeric |-> s.numeric, entity |-> s.entity, rc32 |-> s.rc32,
            rank |-> s.rank]
  BY DEF Evidence!Signals
<1>14. s \in SignalOf
  <2> HIDE DEF s
  <2> QED
    BY <1>7, <1>9, <1>10, <1>11, <1>12, <1>13 DEF SignalOf
<1> QED
  BY <1>5, <1>7, <1>12, <1>14

Weight(s) ==
    14 * s.lexical + 12 * s.persian + 10 * s.heading + 16 * s.faq + 12 * s.phrase
      + 8 * s.numeric + 6 * s.entity + 10 * s.rc32 + 7 * s.rank

After(s, proximity, penalty) == Weight(s) + 5 * proximity - penalty

LEMMA Combined ==
    ASSUME NEW s \in SignalOf, NEW proximity \in Nat, NEW penalty \in Nat
    PROVE  /\ Weight(s) \in Nat /\ Weight(s) >= 10 * s.rc32 + 7 * s.rank
           /\ After(s, proximity, penalty) \in Int
           /\ Evidence!Combine(s, proximity, penalty) =
                 IF After(s, proximity, penalty) > 0 THEN After(s, proximity, penalty) ELSE 0
<1>1. /\ s.lexical \in Nat /\ s.persian \in Nat /\ s.heading \in Nat /\ s.faq \in Nat
      /\ s.phrase \in Nat /\ s.numeric \in Nat /\ s.entity \in Nat /\ s.rc32 \in Nat
      /\ s.rank \in Nat
  BY DEF SignalOf
<1> DEFINE a == 14 * s.lexical
           b == 12 * s.persian
           c == 10 * s.heading
           d == 16 * s.faq
           f == 12 * s.phrase
           g == 8 * s.numeric
           h == 6 * s.entity
           k == 10 * s.rc32
           l == 7 * s.rank
<1>6. a \in Nat /\ b \in Nat /\ c \in Nat /\ d \in Nat /\ f \in Nat
  BY <1>1
<1>7. g \in Nat /\ h \in Nat /\ k \in Nat /\ l \in Nat
  BY <1>1
<1>8. Weight(s) = a + b + c + d + f + g + h + k + l
  BY DEF Weight
<1>2. Weight(s) \in Nat /\ Weight(s) >= 10 * s.rc32 + 7 * s.rank
  <2>1. 10 * s.rc32 + 7 * s.rank = k + l
    OBVIOUS
  <2> HIDE DEF a, b, c, d, f, g, h, k, l
  <2> QED
    BY <1>6, <1>7, <1>8, <2>1
<1> DEFINE sum == 14 * s.lexical + 12 * s.persian + 10 * s.heading + 16 * s.faq + 12 * s.phrase
                    + 8 * s.numeric + 6 * s.entity + 5 * proximity + 10 * s.rc32 + 7 * s.rank
                    - penalty
<1>3. sum = Weight(s) + 5 * proximity - penalty
  <2>1. sum = a + b + c + d + f + g + h + 5 * proximity + k + l - penalty
    OBVIOUS
  <2> DEFINE near == 5 * proximity
  <2>2. near \in Nat
    OBVIOUS
  <2> HIDE DEF a, b, c, d, f, g, h, k, l, sum, near
  <2>3. sum = a + b + c + d + f + g + h + near + k + l - penalty
    BY <2>1 DEF near
  <2>4. sum = Weight(s) + near - penalty
    BY <1>6, <1>7, <1>8, <2>2, <2>3
  <2> QED
    BY <2>4 DEF near
<1>4. Evidence!Combine(s, proximity, penalty) = Evidence!Max({0, sum})
  BY DEF Evidence!Combine
<1> HIDE DEF sum
<1>5. sum \in Int
  BY <1>2, <1>3
<1>9. sum = After(s, proximity, penalty)
  BY <1>3 DEF After
<1>10. Evidence!Max({0, sum}) = IF sum > 0 THEN sum ELSE 0
  BY <1>5, OfTwo
<1> QED
  BY <1>2, <1>4, <1>5, <1>9, <1>10

LEMMA CombinedNumber ==
    ASSUME NEW s \in SignalOf, NEW proximity \in Nat, NEW penalty \in Nat
    PROVE  Evidence!Combine(s, proximity, penalty) \in Nat
BY Combined

\* The anchor: as good before its proximity counts as a score of 1700, it is at the floor.
LEMMA CombinedAnchor ==
    ASSUME NEW s \in SignalOf, NEW penalty \in Nat, Evidence!Combine(s, 0, penalty) >= 1700
    PROVE  Evidence!Combine(s, 100, penalty) >= 1800
<1>1. /\ Weight(s) \in Nat /\ After(s, 0, penalty) \in Int /\ After(s, 100, penalty) \in Int
      /\ Evidence!Combine(s, 0, penalty) =
            IF After(s, 0, penalty) > 0 THEN After(s, 0, penalty) ELSE 0
      /\ Evidence!Combine(s, 100, penalty) =
            IF After(s, 100, penalty) > 0 THEN After(s, 100, penalty) ELSE 0
  BY Combined
<1>2. After(s, 100, penalty) = After(s, 0, penalty) + 500
  BY <1>1 DEF After
<1> QED
  BY <1>1, <1>2

LEMMA CombinedFirst ==
    ASSUME NEW s \in SignalOf, s.rank = 100, s.rc32 = 100
    PROVE  Evidence!Combine(s, 0, 0) >= 1700
<1>1. /\ Weight(s) \in Nat /\ Weight(s) >= 10 * s.rc32 + 7 * s.rank
      /\ Evidence!Combine(s, 0, 0) = IF After(s, 0, 0) > 0 THEN After(s, 0, 0) ELSE 0
  BY Combined
<1>2. After(s, 0, 0) = Weight(s)
  BY <1>1 DEF After
<1> QED
  BY <1>1, <1>2

\* The best of some numbers is there, and none is greater.
LEMMA BestIs ==
    ASSUME NEW n \in Nat \ {0}, NEW scores \in [1..n -> Nat]
    PROVE  /\ Evidence!Best(scores) \in 1..n
           /\ \A j \in 1..n : scores[j] <= scores[Evidence!Best(scores)]
<1> DEFINE D == 1..n
           V == {scores[j] : j \in D}
<1>1. PICK m \in V : \A v \in V : v <= m
  <2>1. IsFiniteSet(D)
    BY FS_Interval
  <2>2. V \in SUBSET Nat /\ V # {}
    OBVIOUS
  <2> HIDE DEF D
  <2>3. IsFiniteSet(V)
    BY <2>1, ImageFinite
  <2> HIDE DEF V
  <2> QED
    BY <2>2, <2>3, GreatestOfFinite
<1> DEFINE I == {i \in 1..n : scores[i] = m}
<1>2. PICK i \in I : \A j \in I : i <= j
  <2>1. I \in SUBSET Nat /\ I # {}
    BY <1>1
  <2> HIDE DEF I
  <2> QED
    BY <2>1, LeastNumber
<1>3. i \in 1..n /\ \A j \in 1..n : scores[j] < scores[i] \/ (scores[j] = scores[i] /\ i <= j)
  <2>1. i \in 1..n /\ scores[i] = m /\ m \in Nat
    BY <1>2
  <2>2. ASSUME NEW j \in 1..n
        PROVE  scores[j] <= m /\ scores[j] \in Nat /\ (scores[j] = m => i <= j)
    <3>1. scores[j] \in V
      OBVIOUS
    <3> HIDE DEF V
    <3> QED
      BY <1>1, <1>2, <3>1
  <2> HIDE DEF I, V
  <2> QED
    BY <2>1, <2>2
<1>4. DOMAIN scores = 1..n
  OBVIOUS
<1> DEFINE b == Evidence!Best(scores)
<1>5. b \in 1..n /\ \A j \in 1..n : scores[j] < scores[b] \/ (scores[j] = scores[b] /\ b <= j)
  BY <1>3, <1>4 DEF Evidence!Best
<1> HIDE DEF b
<1>6. \A j \in 1..n : scores[j] \in Nat
  OBVIOUS
<1> QED
  BY <1>5, <1>6 DEF b

LEMMA ProximityBounds ==
    ASSUME NEW a, NEW b
    PROVE  Evidence!Proximity(a, b) \in 0..100 /\ Evidence!Proximity(a, a) = 100
BY DEF Evidence!Proximity

LEMMA PenaltyBounds ==
    ASSUME NEW query, NEW c
    PROVE  Evidence!Penalty(query, c) \in Nat
BY DEF Evidence!Penalty, Evidence!DistractorPenalty

\* All scores are numbers.  If the first hit has the greatest score of the search and does
\* not distract, the best is at the floor at least: the anchor is as good before its own
\* proximity counts.
LEMMA ScoreBounds ==
    ASSUME NEW W, NEW query \in TextOf(W), NEW chunks \in Seq(HitOf(W)), chunks # <<>>
    PROVE  /\ Evidence!Scores(query, chunks) \in [1..Len(chunks) -> Nat]
           /\ /\ Evidence!Penalty(query, chunks[1]) = 0
              /\ chunks[1].score > 0
              /\ \A j \in DOMAIN chunks : chunks[j].score <= chunks[1].score
              => \E i \in 1..Len(chunks) : Evidence!Scores(query, chunks)[i] >= Evidence!HardFloor
<1> DEFINE n == Len(chunks)
           clues == [i \in DOMAIN chunks |-> Evidence!Signals(query, chunks, i)]
           penalty == [i \in DOMAIN chunks |-> Evidence!Penalty(query, chunks[i])]
           first == [i \in DOMAIN chunks |->
                       Evidence!Combine(clues[i], 0, Evidence!Penalty(query, chunks[i]))]
           best == Evidence!Best(first)
           near == [i \in DOMAIN chunks |-> Evidence!Proximity(chunks[best], chunks[i])]
           scores == Evidence!Scores(query, chunks)
<1>1. n \in Nat \ {0} /\ DOMAIN chunks = 1..n
  OBVIOUS
<1>2. \A i \in 1..n : clues[i] \in SignalOf /\ penalty[i] \in Nat /\ near[i] \in Nat
  <2>1. \A i \in 1..n : clues[i] \in SignalOf
    BY SignalBounds
  <2>2. \A i \in 1..n : penalty[i] \in Nat
    BY PenaltyBounds
  <2>3. \A i \in 1..n : near[i] \in 0..100
    <3> HIDE DEF best
    <3>1. \A i \in 1..n : near[i] = Evidence!Proximity(chunks[best], chunks[i])
      OBVIOUS
    <3> HIDE DEF near
    <3> QED
      BY <3>1, ProximityBounds
  <2>4. \A x \in 0..100 : x \in Nat
    OBVIOUS
  <2> HIDE DEF clues, penalty, near
  <2> QED
    BY <2>1, <2>2, <2>3, <2>4
<1>3. first = [i \in 1..n |-> Evidence!Combine(clues[i], 0, penalty[i])]
  OBVIOUS
<1>4. scores = [i \in 1..n |-> Evidence!Combine(clues[i], near[i], penalty[i])]
  BY DEF Evidence!Scores
<1>5. best \in 1..n => near[best] = 100
  BY ProximityBounds
<1>6. /\ Evidence!Penalty(query, chunks[1]) = 0 /\ chunks[1].score > 0
      /\ \A j \in DOMAIN chunks : chunks[j].score <= chunks[1].score
      => clues[1].rank = 100 /\ clues[1].rc32 = 100 /\ penalty[1] = 0
  <2>1. 1 \in DOMAIN chunks
    OBVIOUS
  <2> QED
    BY <2>1, SignalBounds
<1> HIDE DEF clues, penalty, near, scores
<1>7. scores \in [1..n -> Nat]
  <2>1. \A i \in 1..n : Evidence!Combine(clues[i], near[i], penalty[i]) \in Nat
    BY <1>2, CombinedNumber
  <2> QED
    BY <1>4, <2>1
<1>8. first \in [1..n -> Nat]
  <2>1. \A i \in 1..n : Evidence!Combine(clues[i], 0, penalty[i]) \in Nat
    BY <1>2, CombinedNumber
  <2> HIDE DEF first
  <2> QED
    BY <1>3, <2>1
<1>9. \A i \in 1..n : first[i] = Evidence!Combine(clues[i], 0, penalty[i])
  BY <1>3
<1> HIDE DEF first
<1>10. best \in 1..n /\ \A j \in 1..n : first[j] <= first[best]
  BY <1>1, <1>8, BestIs
<1>11. ASSUME clues[1].rank = 100, clues[1].rc32 = 100, penalty[1] = 0
       PROVE  scores[best] >= 1800
  <2>1. 1 \in 1..n
    BY <1>1
  <2>2. first[1] >= 1700
    <3>1. Evidence!Combine(clues[1], 0, 0) >= 1700
      BY <1>2, <1>11, <2>1, CombinedFirst
    <3> QED
      BY <1>9, <1>11, <2>1, <3>1
  <2>3. first[best] >= 1700
    <3> HIDE DEF best
    <3>1. first[1] \in Nat /\ first[best] \in Nat /\ first[1] <= first[best]
      BY <1>8, <1>10, <2>1
    <3> QED
      BY <2>2, <3>1
  <2>4. scores[best] = Evidence!Combine(clues[best], 100, penalty[best])
    BY <1>4, <1>5, <1>10
  <2> HIDE DEF best
  <2>5. Evidence!Combine(clues[best], 0, penalty[best]) >= 1700
    BY <1>9, <1>10, <2>3
  <2> QED
    BY <1>2, <1>10, <2>4, <2>5, CombinedAnchor
<1> HIDE DEF best
<1> QED
  BY <1>6, <1>7, <1>10, <1>11 DEF Evidence!HardFloor, scores

\* The places in the order of the prompt: by falling score, equal ones as the search had them.
PlaceOf(n, scores) == [i \in 1..n |-> <<-scores[i], i>>]

LEMMA PlaceSorts ==
    ASSUME NEW n \in Nat, NEW scores \in [1..n -> Nat], NEW S \in SUBSET (1..n)
    PROVE  Sorts(Evidence!SortedBy(S, PlaceOf(n, scores)), S, PlaceOf(n, scores))
<1> DEFINE D == 1..n
           place == PlaceOf(n, scores)
<1>1. IsFiniteSet(S)
  <2>1. IsFiniteSet(1..n)
    BY FS_Interval
  <2> QED
    BY <2>1, FS_Subset
<1>2. place \in [D -> [1..2 -> Int]] /\ S \subseteq D
  BY DEF PlaceOf
<1>3. \A i, j \in S : place[i] = place[j] => i = j
  BY DEF PlaceOf
<1> HIDE DEF D, place
<1>4. SortsSo(Evidence!SortedBy(S, place), S, place)
  BY SortedSo
<1>5. Sorts(Evidence!SortedBy(S, place), S, place)
  BY <1>1, <1>2, <1>3, <1>4, SortedBySorts
<1> QED
  BY <1>5 DEF place

\* The first n of a sorted list: some members of the set, each once, and one at least.
Once(s) == \A i, j \in DOMAIN s : s[i] = s[j] => i = j

LEMMA CutSorted ==
    ASSUME NEW S, NEW key, NEW list, Sorts(list, S, key), NEW n \in Nat \ {0}
    PROVE  /\ Evidence!Cut(list, n) \in Seq(S) /\ Once(Evidence!Cut(list, n))
           /\ S # {} => Evidence!Cut(list, n) # <<>>
           /\ S = {} => Evidence!Cut(list, n) = <<>>
<1> DEFINE c == Cardinality(S)
           m == Evidence!Min({n, c})
           cut == Evidence!Cut(list, n)
<1>1. c \in Nat /\ list \in [1..c -> S] /\ \A i, j \in 1..c : list[i] = list[j] => i = j
  BY DEF Sorts
<1>2. S # {} => c # 0
  BY DEF Sorts
<1>3. S = {} => c = 0
  <2> HIDE DEF c
  <2>1. ASSUME S = {}, c # 0
        PROVE  FALSE
    <3>1. list[1] \in S
      BY <1>1, <2>1
    <3> QED
      BY <2>1, <3>1
  <2> QED
    BY <2>1
<1> HIDE DEF c
<1>4. list \in Seq(S) /\ Len(list) = c
  BY <1>1
<1>5. m \in Nat /\ m <= c /\ (c # 0 => m # 0)
  <2>1. n \in Int /\ c \in Int
    BY <1>1
  <2>2. m = IF n <= c THEN n ELSE c
    BY <2>1, OfTwo
  <2> HIDE DEF m
  <2> QED
    BY <1>1, <2>2
<1>6. cut = SubSeq(list, 1, m)
  BY <1>4 DEF Evidence!Cut
<1> HIDE DEF m, cut
<1>7. cut \in Seq(S) /\ Len(cut) = m /\ \A i \in 1..m : cut[i] = list[i]
  BY <1>1, <1>4, <1>5, <1>6
<1>9. Once(cut)
  BY <1>1, <1>5, <1>7 DEF Once
<1>10. (S # {} => cut # <<>>) /\ (S = {} => cut = <<>>)
  BY <1>2, <1>3, <1>5, <1>7
<1> QED
  BY <1>7, <1>9, <1>10 DEF cut

\* Two lists that have nothing in common, each without repetition, are one without.
LEMMA JoinedOnce ==
    ASSUME NEW A, NEW B, A \cap B = {}, NEW s \in Seq(A), NEW t \in Seq(B),
           Once(s), Once(t)
    PROVE  /\ Once(s \o t)
           /\ \A i \in DOMAIN (s \o t) : (s \o t)[i] \in A \cup B
<1> DEFINE r == s \o t
<1>1. /\ Len(s) \in Nat /\ Len(t) \in Nat /\ DOMAIN r = 1..(Len(s) + Len(t))
      /\ \A i \in 1..Len(s) : r[i] = s[i] /\ s[i] \in A
      /\ \A i \in 1..(Len(s) + Len(t)) :
            i > Len(s) => i - Len(s) \in 1..Len(t) /\ r[i] = t[i - Len(s)] /\ t[i - Len(s)] \in B
  OBVIOUS
<1>2. DOMAIN s = 1..Len(s) /\ DOMAIN t = 1..Len(t)
  OBVIOUS
<1> HIDE DEF r
<1>3. ASSUME NEW i \in DOMAIN r, NEW j \in DOMAIN r, r[i] = r[j]
      PROVE  i = j
  <2>1. CASE i \in 1..Len(s) /\ j \in 1..Len(s)
    BY <1>1, <1>2, <1>3, <2>1 DEF Once
  <2>2. CASE i > Len(s) /\ j > Len(s)
    <3>1. i - Len(s) = j - Len(s)
      BY <1>1, <1>2, <1>3, <2>2 DEF Once
    <3> QED
      BY <1>1, <3>1
  <2>3. CASE i \in 1..Len(s) /\ j > Len(s)
    BY <1>1, <1>3, <2>3
  <2>4. CASE i > Len(s) /\ j \in 1..Len(s)
    BY <1>1, <1>3, <2>4
  <2> QED
    BY <1>1, <2>1, <2>2, <2>3, <2>4
<1>4. \A i \in DOMAIN r : r[i] \in A \cup B
  BY <1>1
<1> QED
  BY <1>3, <1>4 DEF r, Once

\* What a selection is made of.
IsSelection(A, B, n, scores, selected) ==
    /\ A \cap B = {}
    /\ \A i \in A \cup B : scores[i] >= Evidence!HardFloor
    /\ (\E i \in 1..n : scores[i] >= Evidence!HardFloor) => A # {}
    /\ selected.primary \in Seq(A) /\ Once(selected.primary)
    /\ selected.supplementary \in Seq(B) /\ Once(selected.supplementary)
    /\ A # {} => selected.primary # <<>>
    /\ B # {} => A # {}
    /\ B = {} => selected.supplementary = <<>>

LEMMA SelectionParts ==
    ASSUME NEW W, NEW query \in TextOf(W), NEW chunks \in Seq(HitOf(W)), chunks # <<>>
    PROVE  \E A, B : IsSelection(A, B, Len(chunks), Evidence!Scores(query, chunks),
                                Evidence!Select(query, chunks))
<1> DEFINE n == Len(chunks)
           scores == Evidence!Scores(query, chunks)
           selected == Evidence!Select(query, chunks)
           direct == Evidence!Labelled(query, chunks, scores, "primary")
           best == Evidence!Best(scores)
           A == IF direct = {} /\ Evidence!Promotes(scores[best]) THEN {best} ELSE direct
           B == Evidence!Labelled(query, chunks, scores, "supplementary") \ A
           place == [i \in DOMAIN chunks |-> <<-scores[i], i>>]
<1>1. n \in Nat \ {0} /\ DOMAIN chunks = 1..n
  OBVIOUS
<1>2. scores \in [1..n -> Nat]
  BY ScoreBounds
<1>3. /\ selected.primary = Evidence!Cut(Evidence!SortedBy(A, place), 3)
      /\ selected.supplementary = Evidence!Cut(Evidence!SortedBy(B, place), 2)
  BY DEF Evidence!Select, Evidence!MaxPrimary, Evidence!MaxSupplementary
<1> HIDE DEF scores, selected
<1>4. best \in 1..n /\ \A j \in 1..n : scores[j] <= scores[best]
  BY <1>1, <1>2, BestIs
<1>5. direct \in SUBSET (1..n) /\ \A i \in direct : scores[i] >= 2800
  BY <1>1, <1>2
  DEF Evidence!Labelled, Evidence!Label,
      Evidence!PrimaryThreshold, Evidence!SupplementaryThreshold
<1>6. B \in SUBSET (1..n) /\ \A i \in B : scores[i] >= 2800
  BY <1>1, <1>2
  DEF Evidence!Labelled, Evidence!Label,
      Evidence!PrimaryThreshold, Evidence!SupplementaryThreshold
<1>7. A \in SUBSET (1..n) /\ A \cap B = {}
  BY <1>4, <1>5
<1>8. \A i \in A : scores[i] >= 1800
  BY <1>2, <1>5 DEF Evidence!Promotes, Evidence!HardFloor
<1>9. ASSUME NEW i \in 1..n, scores[i] >= 1800
      PROVE  A # {}
  <2>1. scores[best] >= 1800
    <3> HIDE DEF best
    <3>1. scores[i] <= scores[best] /\ scores[i] \in Nat /\ scores[best] \in Nat
      BY <1>2, <1>4
    <3> QED
      BY <1>9, <3>1
  <2>2. Evidence!Promotes(scores[best])
    BY <2>1 DEF Evidence!Promotes, Evidence!HardFloor
  <2>3. CASE direct = {}
    <3>1. A = {best}
      BY <2>2, <2>3
    <3> QED
      BY <3>1
  <2>4. CASE direct # {}
    BY <2>4
  <2> QED
    BY <2>3, <2>4
<1>10. place = PlaceOf(n, scores)
  BY <1>1 DEF PlaceOf
<1> HIDE DEF A, B, place, n, direct, best
<1>11. Sorts(Evidence!SortedBy(A, place), A, place)
  BY <1>1, <1>2, <1>7, <1>10, PlaceSorts
<1>12. Sorts(Evidence!SortedBy(B, place), B, place)
  BY <1>1, <1>2, <1>6, <1>10, PlaceSorts
<1>13. selected.primary \in Seq(A) /\ Once(selected.primary) /\ (A # {} => selected.primary # <<>>)
  <2> DEFINE list == Evidence!SortedBy(A, place)
  <2>1. Sorts(list, A, place) /\ selected.primary = Evidence!Cut(list, 3) /\ 3 \in Nat \ {0}
    BY <1>3, <1>11
  <2> HIDE DEF list
  <2> QED
    BY <2>1, CutSorted
<1>14. /\ selected.supplementary \in Seq(B) /\ Once(selected.supplementary)
       /\ B = {} => selected.supplementary = <<>>
  <2> DEFINE list == Evidence!SortedBy(B, place)
  <2>1. Sorts(list, B, place) /\ selected.supplementary = Evidence!Cut(list, 2) /\ 2 \in Nat \ {0}
    BY <1>3, <1>12
  <2> HIDE DEF list
  <2> QED
    BY <2>1, CutSorted
<1>15. \A i \in B : i \in 1..n /\ scores[i] >= 1800
  <2>1. \A i \in B : i \in 1..n /\ scores[i] \in Nat /\ scores[i] >= 2800
    BY <1>2, <1>6
  <2> QED
    BY <2>1
<1>16. B # {} => A # {}
  BY <1>9, <1>15
<1>17. IsSelection(A, B, n, scores, selected)
  BY <1>7, <1>8, <1>9, <1>13, <1>14, <1>15, <1>16 DEF IsSelection, Evidence!HardFloor
<1> QED
  BY <1>17 DEF n, scores, selected

\* Evidence: whatever the query and the hits, what is selected is relevant, each chunk once,
\* and support never stands alone.
THEOREM SelectionSoundHolds ==
    ASSUME NEW W, NEW query \in TextOf(W), NEW chunks \in Seq(HitOf(W))
    PROVE  Evidence!SelectionSound(query, chunks, Evidence!Select(query, chunks))
<1> DEFINE selected == Evidence!Select(query, chunks)
           scores == Evidence!Scores(query, chunks)
           primary == selected.primary
           support == selected.supplementary
           all == primary \o support
<1>1. CASE chunks = <<>>
  <2>1. primary = <<>> /\ support = <<>>
    BY <1>1 DEF Evidence!Select
  <2>2. all = <<>>
    BY <2>1
  <2>3. Evidence!IsInjective(all) /\ Evidence!Range(all) = {}
    BY <2>2 DEF Evidence!IsInjective, Evidence!Range
  <2> QED
    BY <2>1, <2>3 DEF Evidence!SelectionSound
<1>2. CASE chunks # <<>>
  <2>1. PICK A, B : IsSelection(A, B, Len(chunks), scores, selected)
    BY <1>2, SelectionParts
  <2>2. /\ A \cap B = {} /\ primary \in Seq(A) /\ Once(primary) /\ support \in Seq(B) /\ Once(support)
        /\ support # <<>> => primary # <<>>
        /\ \A i \in A \cup B : scores[i] >= Evidence!HardFloor
    BY <2>1 DEF IsSelection
  <2> HIDE DEF primary, support, scores
  <2>3. Once(all) /\ \A i \in DOMAIN all : all[i] \in A \cup B
    BY <2>2, JoinedOnce
  <2>4. Evidence!IsInjective(all) /\ \A i \in Evidence!Range(all) : scores[i] >= Evidence!HardFloor
    <3> HIDE DEF all
    <3> QED
      BY <2>2, <2>3 DEF Evidence!IsInjective, Evidence!Range, Once
  <2> QED
    BY <2>2, <2>4 DEF Evidence!SelectionSound, primary, support, scores
<1> QED
  BY <1>1, <1>2

\* Evidence: if the search found nothing better than the first hit, which does not distract,
\* something is selected.
THEOREM FirstHitSufficesHolds ==
    ASSUME NEW W, NEW query \in TextOf(W), NEW chunks \in Seq(HitOf(W)),
           \A j \in DOMAIN chunks : chunks[j].score <= chunks[1].score
    PROVE  Evidence!FirstHitSuffices(query, chunks, Evidence!Select(query, chunks))
<1> DEFINE selected == Evidence!Select(query, chunks)
           scores == Evidence!Scores(query, chunks)
<1> SUFFICES ASSUME chunks # <<>>, Evidence!Penalty(query, chunks[1]) = 0, chunks[1].score > 0
             PROVE  selected.primary # <<>>
  BY DEF Evidence!FirstHitSuffices
<1>1. \E i \in 1..Len(chunks) : scores[i] >= Evidence!HardFloor
  BY ScoreBounds
<1>2. PICK A, B : IsSelection(A, B, Len(chunks), scores, selected)
  BY SelectionParts
<1> HIDE DEF selected, scores
<1> QED
  BY <1>1, <1>2 DEF IsSelection

-----------------------------------------------------------------------------
(* The texts that are tried *)

TriedWords == {"key", "pin", "reset", "777", "the"}

LEMMA TriedTexts ==
    /\ Bodies \subseteq TextOf(TriedWords) /\ Headings \subseteq TextOf(TriedWords)
    /\ Queries \subseteq TextOf(TriedWords)
<1>1. /\ <<"key", "pin">> \in Seq(TriedWords) /\ <<"key">> \in Seq(TriedWords)
      /\ <<"reset">> \in Seq(TriedWords) /\ <<"777">> \in Seq(TriedWords)
      /\ <<"777", "the">> \in Seq(TriedWords) /\ <<"key", "777">> \in Seq(TriedWords)
  BY DEF TriedWords
<1>2. \A w \in Seq(TriedWords) : /\ Line(w, TRUE) \in LineOf(TriedWords)
                                   /\ Line(w, FALSE) \in LineOf(TriedWords)
  BY DEF Line, LineOf
<1> DEFINE L == LineOf(TriedWords)
<1>3. /\ Line(<<"key", "pin">>, TRUE) \in L /\ Line(<<"key">>, FALSE) \in L
      /\ Line(<<"reset">>, TRUE) \in L /\ Line(<<"777">>, FALSE) \in L
      /\ Line(<<"777", "the">>, FALSE) \in L /\ Line(<<"key", "777">>, FALSE) \in L
  BY <1>1, <1>2
<1> HIDE DEF L
<1>4. \A x, y \in L : <<>> \in Seq(L) /\ <<x>> \in Seq(L) /\ <<x, y>> \in Seq(L)
  OBVIOUS
<1>5. Bodies \subseteq Seq(L)
  BY <1>3, <1>4 DEF Bodies
<1>6. Headings \subseteq Seq(L)
  BY <1>3, <1>4 DEF Headings
<1>7. Queries \subseteq Seq(L)
  BY <1>3, <1>4 DEF Queries
<1> QED
  BY <1>5, <1>6, <1>7 DEF TextOf, L

\* The hits that are tried come in the order of their scores.
LEMMA TriedHits ==
    ASSUME NEW chunks \in Hits
    PROVE  /\ chunks \in Seq(HitOf(TriedWords))
           /\ \A j \in DOMAIN chunks : chunks[j].score <= chunks[1].score
<1> DEFINE H == HitOf(TriedWords)
<1>1. ASSUME NEW b \in Bodies, NEW h \in Headings, NEW d \in Int, NEW i \in Int, NEW s \in Nat
      PROVE  Hit(b, h, d, i, s) \in H /\ Hit(b, h, d, i, s).score = s
  <2>1. b \in TextOf(TriedWords) /\ h \in TextOf(TriedWords)
    BY TriedTexts
  <2> QED
    BY <2>1 DEF Hit, HitOf
<1> HIDE DEF H
<1>2. ASSUME NEW b1 \in Bodies, NEW b2 \in Bodies, NEW h1 \in Headings, NEW h2 \in Headings,
             NEW d \in 1..2, NEW s \in {10, 80},
             chunks = <<Hit(b1, h1, 1, 1, 90), Hit(b2, h2, d, 2, s)>>
      PROVE  chunks \in Seq(H) /\ \A j \in DOMAIN chunks : chunks[j].score <= chunks[1].score
  <2>1. /\ Hit(b1, h1, 1, 1, 90) \in H /\ Hit(b1, h1, 1, 1, 90).score = 90
        /\ Hit(b2, h2, d, 2, s) \in H /\ Hit(b2, h2, d, 2, s).score = s
    BY <1>1
  <2> QED
    BY <1>2, <2>1
<1>3. ASSUME NEW f \in [1..3 -> Bodies],
             chunks = [i \in 1..6 |-> Hit(f[(i % 3) + 1], <<>>, 1, i, 90 - 10 * i)]
      PROVE  chunks \in Seq(H) /\ \A j \in DOMAIN chunks : chunks[j].score <= chunks[1].score
  <2>1. ASSUME NEW i \in 1..6
        PROVE  chunks[i] \in H /\ chunks[i].score = 90 - 10 * i
    <3>1. f[(i % 3) + 1] \in Bodies /\ <<>> \in Headings /\ 90 - 10 * i \in Nat
      BY DEF Headings
    <3>2. chunks[i] = Hit(f[(i % 3) + 1], <<>>, 1, i, 90 - 10 * i)
      BY <1>3
    <3> QED
      BY <1>1, <3>1, <3>2
  <2>2. DOMAIN chunks = 1..6 /\ chunks = [i \in 1..6 |-> chunks[i]]
    BY <1>3
  <2>3. chunks \in [1..6 -> H]
    BY <2>1, <2>2
  <2> QED
    BY <2>1, <2>2, <2>3
<1> QED
  BY <1>2, <1>3 DEF Hits, H

\* Evidence: so it is for those.
LEMMA TriedEvidence ==
    ASSUME NEW i \in EvidenceInputs
    PROVE  /\ Evidence!SelectionSound(i.query, i.chunks, Evidence!Select(i.query, i.chunks))
           /\ Evidence!FirstHitSuffices(i.query, i.chunks, Evidence!Select(i.query, i.chunks))
<1>1. i.query \in TextOf(TriedWords) /\ i.chunks \in Hits
  BY TriedTexts DEF EvidenceInputs
<1>2. /\ i.chunks \in Seq(HitOf(TriedWords))
      /\ \A j \in DOMAIN i.chunks : i.chunks[j].score <= i.chunks[1].score
  BY <1>1, TriedHits
<1> QED
  BY <1>1, <1>2, SelectionSoundHolds, FirstHitSufficesHolds

-----------------------------------------------------------------------------
(* Retrieval *)

ChunkOf(W) ==
    [text : TextOf(W), heading : TextOf(W), document : Int, index : Int, cosine : Int,
     live : BOOLEAN, known : BOOLEAN]

LEMMA ChunkParts ==
    ASSUME NEW W, NEW chunks \in Seq(ChunkOf(W)), NEW i \in DOMAIN chunks
    PROVE  /\ chunks[i].text \in TextOf(W) /\ chunks[i].heading \in TextOf(W)
           /\ chunks[i].document \in Int /\ chunks[i].index \in Int /\ chunks[i].cosine \in Int
           /\ Retrieval!Lines(chunks[i]) \in TextOf(W)
<1>1. chunks[i] \in ChunkOf(W)
  OBVIOUS
<1>2. /\ chunks[i].text \in TextOf(W) /\ chunks[i].heading \in TextOf(W)
      /\ chunks[i].document \in Int /\ chunks[i].index \in Int /\ chunks[i].cosine \in Int
  BY <1>1 DEF ChunkOf
<1>3. Retrieval!Lines(chunks[i]) \in TextOf(W)
  BY <1>2 DEF Retrieval!Lines, TextOf
<1> QED
  BY <1>2, <1>3

\* Both take the words of Words.
LEMMA WordsAgree ==
    ASSUME NEW query, NEW text, NEW A, NEW B, NEW list, NEW n
    PROVE  /\ Retrieval!Tokens(text) = Evidence!Tokens(text)
           /\ Retrieval!ContentTokens(text) = Evidence!ContentTokens(text)
           /\ Retrieval!Jaccard(A, B) = Evidence!Jaccard(A, B)
           /\ Retrieval!BestFaq(query, text) = Evidence!BestFaq(query, text)
           /\ Retrieval!Cut(list, n) = Evidence!Cut(list, n)
           /\ Retrieval!Range(list) = Range(list)
<1>1. \A t : Retrieval!Tokens(t) = Evidence!Tokens(t)
  BY DEF Retrieval!Tokens, Evidence!Tokens, Retrieval!Range, Evidence!Range
<1>2. \A t : Retrieval!ContentTokens(t) = Evidence!ContentTokens(t)
  BY <1>1 DEF Retrieval!ContentTokens, Evidence!ContentTokens
<1>3. \A C, D : Retrieval!Jaccard(C, D) = Evidence!Jaccard(C, D)
  BY CountsAgree DEF Retrieval!Jaccard, Evidence!Jaccard
<1>4. Retrieval!BestFaq(query, text) = Evidence!BestFaq(query, text)
  BY <1>2, <1>3 DEF Retrieval!BestFaq, Evidence!BestFaq, Retrieval!QuestionLines, Evidence!QuestionLines,
     Retrieval!Max, Evidence!Max
<1>5. Retrieval!Cut(list, n) = Evidence!Cut(list, n)
  BY DEF Retrieval!Cut, Evidence!Cut, Retrieval!Min, Evidence!Min
<1>6. Retrieval!Range(list) = Range(list)
  BY DEF Retrieval!Range, Range
<1> QED
  BY <1>1, <1>2, <1>3, <1>4, <1>5, <1>6

LEMMA LeastOfTwo ==
    ASSUME NEW a \in Int, NEW b \in Int
    PROVE  Retrieval!Min({a, b}) = IF a <= b THEN a ELSE b
BY DEF Retrieval!Min

LEMMA GreatestOfTwo ==
    ASSUME NEW a \in Int, NEW b \in Int
    PROVE  Retrieval!Max({a, b}) = IF a >= b THEN a ELSE b
BY DEF Retrieval!Max

LEMMA BonusBounds ==
    ASSUME NEW W, NEW query \in TextOf(W), NEW chunks \in Seq(ChunkOf(W)), NEW i \in DOMAIN chunks
    PROVE  Retrieval!Bonus(query, chunks[i]) \in Nat /\ Retrieval!Penalty(query, chunks[i]) \in Nat
<1> DEFINE c == chunks[i]
           asked == Evidence!ContentTokens(query)
           faq == Evidence!BestFaq(query, c.text)
           heading == Evidence!Jaccard(Evidence!ContentTokens(c.heading), asked)
           body == Evidence!Jaccard(Evidence!ContentTokens(c.text), asked)
           phrase == IF Retrieval!PhraseOf(query, Retrieval!Lines(c)) THEN 100 ELSE 0
<1>1. c.text \in TextOf(W) /\ c.heading \in TextOf(W)
  BY ChunkParts
<1>2. /\ IsFiniteSet(asked) /\ IsFiniteSet(Evidence!ContentTokens(c.heading))
      /\ IsFiniteSet(Evidence!ContentTokens(c.text))
  BY <1>1, WordsFinite
<1>3. faq \in 0..100
  BY <1>1, FaqBounds
<1>4. heading \in 0..100 /\ body \in 0..100
  BY <1>2, JaccardBounds
<1>5. Retrieval!Bonus(query, c) =
          (120 * faq) \div 100 + (60 * heading) \div 100 + phrase + (60 * body) \div 100
  BY WordsAgree DEF Retrieval!Bonus
<1>6. phrase \in Nat
  OBVIOUS
<1>7. Retrieval!Penalty(query, c) \in Nat
  <2> DEFINE first == IF /\ Retrieval!ContentTokens(query) # {}
                         /\ Retrieval!ContentTokens(c.text) \cap Retrieval!ContentTokens(query) = {}
                         /\ Retrieval!Tokens(c.text) \cap Retrieval!Tokens(query) # {}
                      THEN 50 ELSE 0
             second == IF Retrieval!Distracts(query, c.text) THEN 60 ELSE 0
  <2>1. first \in Nat /\ second \in Nat
    OBVIOUS
  <2>2. Retrieval!Penalty(query, c) = first + second
    BY DEF Retrieval!Penalty
  <2> HIDE DEF first, second
  <2> QED
    BY <2>1, <2>2
<1> HIDE DEF faq, heading, body, phrase
<1>8. \A x \in 0..100 : (120 * x) \div 100 \in Nat /\ (60 * x) \div 100 \in Nat
  OBVIOUS
<1>9. (120 * faq) \div 100 \in Nat /\ (60 * heading) \div 100 \in Nat /\ (60 * body) \div 100 \in Nat
  BY <1>3, <1>4, <1>8
<1> QED
  BY <1>5, <1>6, <1>7, <1>9

\* A bonus adds 180 at most, a penalty takes 100.
IsScore(score) == score \in 0..1000
Near(adjusted, score) == adjusted \in Nat /\ adjusted <= score + 180 /\ adjusted >= score - 100

LEMMA AdjustedNear ==
    ASSUME NEW W, NEW query \in TextOf(W), NEW chunks \in Seq(ChunkOf(W)), NEW i \in DOMAIN chunks,
           NEW score, IsScore(score)
    PROVE  Near(Retrieval!Adjusted(query, chunks[i], score), score)
<1> DEFINE bonus == Retrieval!Bonus(query, chunks[i])
           penalty == Retrieval!Penalty(query, chunks[i])
           up == Retrieval!Min({180, bonus})
           down == Retrieval!Min({100, penalty})
           sum == score + up - down
           top == Retrieval!Min({1000, sum})
<1>1. bonus \in Nat /\ penalty \in Nat
  BY BonusBounds
<1>2. up = IF 180 <= bonus THEN 180 ELSE bonus
  BY <1>1, LeastOfTwo
<1>3. down = IF 100 <= penalty THEN 100 ELSE penalty
  BY <1>1, LeastOfTwo
<1>4. Retrieval!Adjusted(query, chunks[i], score) = Retrieval!Max({0, top})
  BY DEF Retrieval!Adjusted, Retrieval!MaxBonus, Retrieval!MaxPenalty
<1> HIDE DEF bonus, penalty, up, down
<1>5. up \in 0..180 /\ down \in 0..100
  BY <1>1, <1>2, <1>3
<1>10. score \in 0..1000
  BY DEF IsScore
<1>6. sum \in Int /\ sum <= score + 180 /\ sum >= score - 100
  BY <1>5, <1>10
<1>7. top = IF 1000 <= sum THEN 1000 ELSE sum
  BY <1>6, LeastOfTwo
<1> HIDE DEF sum
<1>8. top \in Int
  BY <1>6, <1>7
<1> HIDE DEF top
<1>9. Retrieval!Max({0, top}) = IF 0 >= top THEN 0 ELSE top
  BY <1>8, GreatestOfTwo
<1> QED
  BY <1>4, <1>6, <1>7, <1>8, <1>9, <1>10 DEF Near

-----------------------------------------------------------------------------
(* Fusion *)

\* The beginning of a list.
Begins(cut, list, c, S) ==
    cut \in Seq(S) /\ Len(cut) <= c /\ \A i \in 1..Len(cut) : i \in 1..c /\ cut[i] = list[i]

LEMMA CutBegins ==
    ASSUME NEW S, NEW c \in Nat, NEW list \in [1..c -> S], NEW m \in Nat
    PROVE  Begins(Retrieval!Cut(list, m), list, c, S) /\ Len(Retrieval!Cut(list, m)) <= m
<1> DEFINE cut == Retrieval!Cut(list, m)
           l == Retrieval!Min({m, c})
<1>1. list \in Seq(S) /\ Len(list) = c
  OBVIOUS
<1>2. cut = SubSeq(list, 1, l)
  BY <1>1 DEF Retrieval!Cut
<1>3. m \in Int /\ c \in Int
  OBVIOUS
<1>4. l = IF m <= c THEN m ELSE c
  BY <1>3, LeastOfTwo
<1> HIDE DEF cut, l
<1>5. l \in 0..c
  BY <1>4
<1>6. cut \in Seq(S) /\ Len(cut) = l /\ \A i \in 1..l : cut[i] = list[i]
  BY <1>1, <1>2, <1>5
<1>7. Begins(cut, list, c, S) /\ Len(cut) <= m
  BY <1>4, <1>5, <1>6 DEF Begins
<1> QED
  BY <1>7 DEF cut

\* The keys of ByScore, and what it returns.
ScoreKey(ids, score) == [c \in ids |-> <<-score[c], c>>]

LEMMA ByScoreSorts ==
    ASSUME NEW n \in Nat, NEW ids \in SUBSET (1..n), NEW score, \A c \in ids : score[c] \in Int
    PROVE  /\ IsFiniteSet(ids)
           /\ Sorts(Retrieval!ByScore(ids, score), ids, ScoreKey(ids, score))
<1> DEFINE key == ScoreKey(ids, score)
           list == Retrieval!ByScore(ids, score)
<1>1. IsFiniteSet(ids)
  <2>1. IsFiniteSet(1..n)
    BY FS_Interval
  <2> QED
    BY <2>1, FS_Subset
<1>2. key \in [ids -> [1..2 -> Int]] /\ ids \subseteq ids
  BY DEF ScoreKey
<1>3. \A i, j \in ids : key[i] = key[j] => i = j
  BY DEF ScoreKey
<1>4. list = Retrieval!SortedBy(ids, key)
  BY DEF Retrieval!ByScore, ScoreKey
<1> HIDE DEF key, list
<1>5. SortsSo(list, ids, key)
  BY <1>4, SortedSo
<1>6. Sorts(list, ids, key)
  BY <1>1, <1>2, <1>3, <1>5, SortedBySorts
<1> QED
  BY <1>1, <1>6 DEF key, list

\* Of two in the list of ByScore, the first has the greater score, or the lesser id.
LEMMA ScoresFall ==
    ASSUME NEW ids, NEW score, ids \subseteq Int, \A c \in ids : score[c] \in Int,
           NEW a \in ids, NEW b \in ids,
           Precedes(ScoreKey(ids, score)[a], ScoreKey(ids, score)[b])
    PROVE  score[b] < score[a] \/ (score[b] = score[a] /\ a < b)
<1>1. ScoreKey(ids, score)[a] = <<-score[a], a>> /\ ScoreKey(ids, score)[b] = <<-score[b], b>>
  BY DEF ScoreKey
<1>2. PICK k \in 1..2 : /\ <<-score[a], a>>[k] < <<-score[b], b>>[k]
                        /\ \A j \in 1..k - 1 : <<-score[a], a>>[j] = <<-score[b], b>>[j]
  BY <1>1 DEF Precedes
<1>3. score[a] \in Int /\ score[b] \in Int /\ a \in Int /\ b \in Int
  OBVIOUS
<1>4. CASE k = 1
  BY <1>2, <1>3, <1>4
<1>5. CASE k = 2
  <2>1. a < b
    BY <1>2, <1>5
  <2>2. 1 \in 1..k - 1
    BY <1>5
  <2>3. -score[a] = -score[b]
    BY <1>2, <2>2
  <2> QED
    BY <1>3, <2>1, <2>3
<1> QED
  BY <1>4, <1>5

\* A list of ids, each once, of which there are not too many.
IsChannel(list, n) == list \in Seq(1..n) /\ Once(list) /\ Len(list) <= 900

\* The places a list can have, and their votes.
Ranks == 1..900
VoteAt(rank) == 1000000 \div (60 + rank)

LEMMA RankIs ==
    ASSUME NEW n \in Nat, NEW list, IsChannel(list, n), NEW id
    PROVE  /\ id \in Range(list) => /\ Retrieval!Rank(list, id) \in Ranks
                                     /\ list[Retrieval!Rank(list, id)] = id
           /\ Retrieval!Vote(list, id) = IF id \in Range(list)
                                         THEN VoteAt(Retrieval!Rank(list, id)) ELSE 0
<1>1. list \in Seq(1..n) /\ Len(list) <= 900 /\ Len(list) \in Nat
  BY DEF IsChannel
<1>2. Retrieval!Vote(list, id) = IF id \in Range(list)
                                THEN VoteAt(Retrieval!Rank(list, id)) ELSE 0
  BY WordsAgree, SMT DEF Retrieval!Vote, Retrieval!RrfK, VoteAt
<1>3. ASSUME id \in Range(list)
      PROVE  Retrieval!Rank(list, id) \in DOMAIN list /\ list[Retrieval!Rank(list, id)] = id
  BY <1>3 DEF Range, Retrieval!Rank
<1>4. \A r \in DOMAIN list : r \in Ranks
  <2> DEFINE l == Len(list)
  <2>1. DOMAIN list = 1..l /\ l \in Nat /\ l <= 900
    BY <1>1
  <2> HIDE DEF l
  <2>2. \A r \in 1..l : r \in Ranks
    BY <2>1 DEF Ranks
  <2> QED
    BY <2>1, <2>2
<1>5. ASSUME id \in Range(list)
      PROVE  Retrieval!Rank(list, id) \in Ranks /\ list[Retrieval!Rank(list, id)] = id
  BY <1>3, <1>4, <1>5
<1> QED
  BY <1>2, <1>5

\* A better rank is a greater vote, in millionths as in fractions.
LEMMA AtLeastTimes ==
    ASSUME NEW n \in Nat, NEW a \in Nat \ {0}, NEW k \in Nat, k * a <= n
    PROVE  n \div a >= k
<1> DEFINE q == n \div a
<1>1. q \in Nat /\ n < a * q + a
  <2>1. q \in Nat /\ n = a * q + (n % a) /\ n % a \in 0..a - 1
    OBVIOUS
  <2> HIDE DEF q
  <2>2. a * q \in Nat
    BY <2>1
  <2> QED
    BY <2>1, <2>2
<1> HIDE DEF q
<1>2. ASSUME q < k
      PROVE  FALSE
  <2>1. PICK d \in Nat : k = q + 1 + d
    <3>1. k - q - 1 \in Nat /\ k = q + 1 + (k - q - 1)
      BY <1>1, <1>2
    <3> QED
      BY <3>1
  <2>2. k * a = q * a + a + d * a
    BY <1>1, <2>1
  <2>3. d * a \in Nat /\ q * a \in Nat /\ q * a = a * q
    BY <1>1, <2>1
  <2> QED
    BY <1>1, <2>2, <2>3
<1> QED
  BY <1>1, <1>2 DEF q

IsLarge(m) == m \in Nat /\ 960 * 960 <= m
IsDivisor(a) == a \in 61..960
Falls(m, a, b) == m \div b \in Nat /\ m \div a \in Nat /\ m \div b < m \div a /\ m \div b > 0

LEMMA QuotientsFall ==
    ASSUME NEW m, IsLarge(m), NEW a, IsDivisor(a), NEW b, IsDivisor(b), a < b
    PROVE  Falls(m, a, b)
<1>5. m \in Nat /\ 960 * 960 <= m /\ a \in 61..960 /\ b \in 61..960
  BY DEF IsLarge, IsDivisor
<1> DEFINE q == m \div b
<1>1. q \in Nat /\ q >= 960 /\ b * q <= m
  <2>1. b \in Nat \ {0} /\ b <= 960 /\ m \in Nat
    BY <1>5
  <2>2. 960 * b <= m
    BY <1>5, <2>1
  <2>3. q >= 960
    BY <2>1, <2>2, AtLeastTimes
  <2>4. q \in Nat /\ m = b * q + (m % b) /\ m % b \in 0..b - 1
    BY <2>1
  <2> HIDE DEF q
  <2>5. b * q \in Int
    BY <2>1, <2>4
  <2> QED
    BY <2>3, <2>4, <2>5
<1> HIDE DEF q
<1>2. (q + 1) * a <= m
  <2>1. PICK d \in Nat : b = a + 1 + d
    <3>1. b - a - 1 \in Nat /\ b = a + 1 + (b - a - 1)
      BY <1>5
    <3> QED
      BY <3>1
  <2>2. b * q = a * q + q + d * q
    BY <1>1, <1>5, <2>1
  <2>3. (q + 1) * a = a * q + a
    BY <1>1, <1>5
  <2> DEFINE x == a * q
             y == d * q
             z == b * q
             w == (q + 1) * a
  <2>4. x \in Nat /\ y \in Nat
    BY <1>1, <1>5, <2>1
  <2>5. z = x + q + y /\ w = x + a /\ z <= m /\ q >= 960 /\ q \in Nat /\ a <= 960
    BY <1>1, <1>5, <2>2, <2>3
  <2> HIDE DEF x, y, z, w
  <2>6. w <= m
    BY <1>5, <2>4, <2>5
  <2> QED
    BY <2>6 DEF w
<1>3. a \in Nat \ {0} /\ q + 1 \in Nat
  BY <1>1, <1>5
<1>4. m \div a >= q + 1 /\ m \div a \in Nat
  BY <1>2, <1>3, <1>5, AtLeastTimes
<1> QED
  BY <1>1, <1>4 DEF q, Falls

LEMMA VotesFall ==
    ASSUME NEW a \in Ranks
    PROVE  /\ VoteAt(a) \in Nat /\ VoteAt(a) > 0
           /\ \A b \in Ranks : a < b => VoteAt(b) < VoteAt(a)
<1> DEFINE m == 1000000
<1>1. m \in Nat /\ 960 * 960 <= m
  BY SMT
<1>2. \A r \in Ranks : VoteAt(r) = m \div (60 + r)
  BY SMT DEF VoteAt, Ranks
<1> HIDE DEF m
<1>3. ASSUME NEW r \in Ranks
      PROVE  60 + r \in 61..960 /\ r \in Nat \ {0}
  BY DEF Ranks
<1>4. ASSUME NEW r \in Ranks, NEW s \in Ranks, r < s
      PROVE  VoteAt(r) \in Nat /\ VoteAt(s) \in Nat /\ VoteAt(s) > 0 /\ VoteAt(s) < VoteAt(r)
  <2>1. 60 + r \in 61..960 /\ 60 + s \in 61..960 /\ 60 + r < 60 + s
    BY <1>3, <1>4
  <2> DEFINE p == 60 + r
             q == 60 + s
  <2> HIDE DEF p, q
  <2>2. p \in 61..960 /\ q \in 61..960 /\ p < q
    BY <2>1 DEF p, q
  <2>5. IsLarge(m) /\ IsDivisor(p) /\ IsDivisor(q) /\ p < q
    BY <1>1, <2>2 DEF IsLarge, IsDivisor
  <2>3. Falls(m, p, q)
    BY <2>5, QuotientsFall
  <2>4. VoteAt(r) = m \div p /\ VoteAt(s) = m \div q
    BY <1>2 DEF p, q
  <2> QED
    BY <2>3, <2>4 DEF Falls
<1>5. VoteAt(a) \in Nat /\ VoteAt(a) > 0
  <2>1. CASE a = 1
    <3>1. 2 \in Ranks /\ a < 2
      BY <2>1 DEF Ranks
    <3>2. VoteAt(a) \in Nat /\ VoteAt(2) \in Nat /\ VoteAt(2) > 0 /\ VoteAt(2) < VoteAt(a)
      BY <1>4, <3>1
    <3> QED
      BY <3>2
  <2>2. CASE a # 1
    <3>1. 1 \in Ranks /\ 1 < a
      BY <1>3, <2>2 DEF Ranks
    <3>2. VoteAt(1) \in Nat /\ VoteAt(a) \in Nat /\ VoteAt(a) > 0 /\ VoteAt(a) < VoteAt(1)
      BY <1>4, <3>1
    <3> QED
      BY <3>2
  <2> QED
    BY <2>1, <2>2
<1>6. ASSUME NEW b \in Ranks, a < b
      PROVE  VoteAt(b) < VoteAt(a)
  BY <1>4, <1>6
<1> QED
  BY <1>5, <1>6

\* One channel: a greater vote is a place ahead, and votes are equal only outside the list.
IsAhead(list, a, b) ==
    a \in Range(list) /\ (b \in Range(list) => Retrieval!Rank(list, a) < Retrieval!Rank(list, b))

LEMMA VoteTells ==
    ASSUME NEW n \in Nat, NEW list, IsChannel(list, n), NEW a, NEW b, a # b
    PROVE  /\ Retrieval!Vote(list, a) \in Nat /\ Retrieval!Vote(list, b) \in Nat
           /\ Retrieval!Vote(list, b) < Retrieval!Vote(list, a) => IsAhead(list, a, b)
           /\ Retrieval!Vote(list, b) = Retrieval!Vote(list, a)
                => a \notin Range(list) /\ b \notin Range(list)
<1> DEFINE ra == Retrieval!Rank(list, a)
           rb == Retrieval!Rank(list, b)
           va == Retrieval!Vote(list, a)
           vb == Retrieval!Vote(list, b)
           inA == a \in Range(list)
           inB == b \in Range(list)
           x == VoteAt(ra)
           y == VoteAt(rb)
<1>1. /\ inA => ra \in Ranks /\ list[ra] = a
      /\ va = IF inA THEN x ELSE 0
  BY RankIs
<1>2. /\ inB => rb \in Ranks /\ list[rb] = b
      /\ vb = IF inB THEN y ELSE 0
  BY RankIs
<1>3. IsAhead(list, a, b) <=> inA /\ (inB => ra < rb)
  BY DEF IsAhead
<1>13. \A u \in Ranks : /\ VoteAt(u) \in Nat /\ VoteAt(u) > 0
                          /\ \A v \in Ranks : u < v => VoteAt(v) < VoteAt(u)
  BY VotesFall
<1>8. inA /\ inB => ra # rb
  BY <1>1, <1>2
<1> HIDE DEF ra, rb, va, vb, inA, inB
<1>14. ASSUME NEW u \in Ranks
       PROVE  VoteAt(u) \in Nat /\ VoteAt(u) > 0
  BY <1>13
<1>4. inA => x \in Nat /\ x > 0
  <2>1. inA => ra \in Ranks
    BY <1>1
  <2> QED
    BY <1>14, <2>1
<1>5. inB => y \in Nat /\ y > 0
  <2>1. inB => rb \in Ranks
    BY <1>2
  <2> QED
    BY <1>14, <2>1
<1>15. ASSUME NEW u \in Ranks, NEW v \in Ranks, u < v
       PROVE  VoteAt(v) < VoteAt(u)
  BY <1>13, <1>15
<1>6. ASSUME inA, inB, ra < rb
      PROVE  y < x
  <2>1. ra \in Ranks /\ rb \in Ranks
    BY <1>1, <1>2, <1>6
  <2> QED
    BY <1>6, <1>15, <2>1
<1>7. ASSUME inA, inB, rb < ra
      PROVE  x < y
  <2>1. ra \in Ranks /\ rb \in Ranks
    BY <1>1, <1>2, <1>7
  <2> QED
    BY <1>7, <1>15, <2>1
<1> HIDE DEF x, y
<1>9. va \in Nat /\ vb \in Nat
  BY <1>1, <1>2, <1>4, <1>5
<1>10. ASSUME inA, inB
       PROVE  (ra < rb /\ vb < va) \/ (rb < ra /\ va < vb)
  <2>3. ra \in Ranks /\ rb \in Ranks /\ ra # rb /\ va = x /\ vb = y
    BY <1>1, <1>2, <1>8, <1>10
  <2>1. ra \in Int /\ rb \in Int /\ ra # rb /\ va = x /\ vb = y
    BY <2>3 DEF Ranks
  <2>2. ra < rb \/ rb < ra
    BY <2>1
  <2> QED
    BY <1>6, <1>7, <1>10, <2>1, <2>2
<1>11. vb < va => inA /\ (inB => ra < rb)
  <2>1. CASE inA /\ inB
    BY <1>9, <1>10, <2>1
  <2>2. CASE ~inA
    <3>1. va = 0
      BY <1>1, <2>2
    <3> QED
      BY <1>9, <3>1
  <2>3. CASE inA /\ ~inB
    BY <2>3
  <2> QED
    BY <2>1, <2>2, <2>3
<1>12. vb = va => ~inA /\ ~inB
  <2>1. CASE inA /\ inB
    BY <1>9, <1>10, <2>1
  <2>2. CASE inA /\ ~inB
    <3>1. va = x /\ vb = 0 /\ x \in Nat /\ x > 0
      BY <1>1, <1>2, <1>4, <2>2
    <3> QED
      BY <3>1
  <2>3. CASE ~inA /\ inB
    <3>1. va = 0 /\ vb = y /\ y \in Nat /\ y > 0
      BY <1>1, <1>2, <1>5, <2>3
    <3> QED
      BY <3>1
  <2> QED
    BY <2>1, <2>2, <2>3
<1> QED
  BY <1>3, <1>9, <1>11, <1>12 DEF va, vb, inA, inB

\* Retrieval: who is behind another after fusion was behind it in a channel before.
THEOREM FusionFairHolds ==
    ASSUME NEW n \in Nat, NEW r, IsChannel(r.dense, n), IsChannel(r.lexical, n), NEW m \in Nat,
           NEW all, all = Range(r.dense) \cup Range(r.lexical),
           NEW rrf, rrf = [c \in all |-> Retrieval!Rrf(r.dense, r.lexical, c)],
           r.fused = Retrieval!Cut(Retrieval!ByScore(all, rrf), m)
    PROVE  Retrieval!FusionFair(r)
<1> DEFINE Votes(list, c) == Retrieval!Vote(list, c)
           Ahead(list, a, b) == IsAhead(list, a, b)
<1>1. ASSUME NEW list, IsChannel(list, n), NEW a, NEW b, a # b
      PROVE  /\ Votes(list, a) \in Nat /\ Votes(list, b) \in Nat
             /\ Votes(list, b) < Votes(list, a) => Ahead(list, a, b)
             /\ Votes(list, b) = Votes(list, a) => a \notin Range(list) /\ b \notin Range(list)
  BY <1>1, VoteTells
<1>2. all \in SUBSET (1..n)
  BY DEF IsChannel, Range
<1> DEFINE dense == r.dense
           lexical == r.lexical
<1>3. \A c \in all : rrf[c] = Votes(dense, c) + Votes(lexical, c)
  BY DEF Retrieval!Rrf
<1>4. \A c \in all : rrf[c] \in Nat
  <2> HIDE DEF Votes
  <2>1. ASSUME NEW c \in all
        PROVE  Votes(dense, c) \in Nat /\ Votes(lexical, c) \in Nat
    <3>1. PICK x : x # c
      <4>1. \E x : x # c
        <5>1. {} # {{}}
          OBVIOUS
        <5> QED
          BY <5>1
      <4> QED
        BY <4>1
    <3> QED
      BY <1>1, <3>1
  <2> QED
    BY <1>3, <2>1
<1> DEFINE key == ScoreKey(all, rrf)
           list == Retrieval!ByScore(all, rrf)
           size == Cardinality(all)
<1>5. Sorts(list, all, key)
  <2>1. \A c \in all : rrf[c] \in Int
    BY <1>4
  <2> QED
    BY <1>2, <2>1, ByScoreSorts
<1>6. /\ size \in Nat /\ list \in [1..size -> all]
      /\ \A i, j \in 1..size : i < j => Precedes(key[list[i]], key[list[j]])
  BY <1>5 DEF Sorts
<1>7. /\ r.fused \in Seq(all)
      /\ \A i \in 1..Len(r.fused) : i \in 1..size /\ r.fused[i] = list[i]
  <2>1. r.fused = Retrieval!Cut(list, m)
    OBVIOUS
  <2> HIDE DEF list, size
  <2>2. Begins(Retrieval!Cut(list, m), list, size, all)
    BY <1>6, CutBegins
  <2> QED
    BY <2>1, <2>2 DEF Begins
<1> SUFFICES ASSUME NEW i \in DOMAIN r.fused, NEW j \in DOMAIN r.fused, i < j
             PROVE  Ahead(r.dense, r.fused[i], r.fused[j]) \/ Ahead(r.lexical, r.fused[i], r.fused[j])
  BY WordsAgree DEF Retrieval!FusionFair, IsAhead
<1> DEFINE a == r.fused[i]
           b == r.fused[j]
<1>8. a \in all /\ b \in all /\ Precedes(key[a], key[b])
  <2>2. i \in 1..Len(r.fused) /\ j \in 1..Len(r.fused)
    <3>1. DOMAIN r.fused = 1..Len(r.fused)
      BY <1>7
    <3> QED
      BY <3>1
  <2>1. i \in 1..size /\ j \in 1..size /\ a = list[i] /\ b = list[j]
    BY <1>7, <2>2
  <2> HIDE DEF a, b, list, key, size
  <2> QED
    BY <1>6, <2>1
<1> HIDE DEF a, b, list, size
<1>9. rrf[b] < rrf[a] \/ (rrf[b] = rrf[a] /\ a < b)
  <2>1. all \subseteq Int /\ \A c \in all : rrf[c] \in Int
    BY <1>2, <1>4
  <2> QED
    BY <1>8, <2>1, ScoresFall
<1>10. a # b /\ rrf[a] >= rrf[b]
  <2>1. a \in Int /\ b \in Int /\ rrf[a] \in Int /\ rrf[b] \in Int
    BY <1>2, <1>4, <1>8
  <2>2. rrf[b] < rrf[a] => a # b
    BY <2>1
  <2> QED
    BY <1>9, <2>1, <2>2
<1> DEFINE d1 == Votes(dense, a)
           d2 == Votes(dense, b)
           l1 == Votes(lexical, a)
           l2 == Votes(lexical, b)
<1>11. /\ d1 \in Nat /\ d2 \in Nat
       /\ d2 < d1 => Ahead(dense, a, b)
       /\ d2 = d1 => a \notin Range(dense) /\ b \notin Range(dense)
  BY <1>1, <1>10
<1>12. /\ l1 \in Nat /\ l2 \in Nat
       /\ l2 < l1 => Ahead(lexical, a, b)
       /\ l2 = l1 => a \notin Range(lexical) /\ b \notin Range(lexical)
  BY <1>1, <1>10
<1>13. d1 + l1 >= d2 + l2
  BY <1>3, <1>8, <1>10
<1>14. a \in Range(dense) \/ a \in Range(lexical)
  BY <1>8
<1> HIDE DEF d1, d2, l1, l2, Ahead, dense, lexical, Votes
<1>15. d2 < d1 \/ l2 < l1
  <2>1. ~ (d2 = d1 /\ l2 = l1)
    BY <1>11, <1>12, <1>14
  <2>2. d1 \in Nat /\ d2 \in Nat /\ l1 \in Nat /\ l2 \in Nat
    BY <1>11, <1>12
  <2> QED
    BY <1>13, <2>1, <2>2
<1>16. Ahead(dense, a, b) \/ Ahead(lexical, a, b)
  BY <1>11, <1>12, <1>15
<1> QED
  BY <1>16 DEF a, b, dense, lexical

-----------------------------------------------------------------------------
(* Ranking *)

\* The scores that order the results, and their keys.
Adjusts(query, chunks, blended) ==
    [c \in DOMAIN blended |-> Retrieval!Adjusted(query, chunks[c], blended[c])]
RankKey(query, chunks, blended) ==
    [c \in DOMAIN blended |->
        <<-Adjusts(query, chunks, blended)[c], -blended[c], chunks[c].document, chunks[c].index, c>>]

IsBlend(blended, chunks) ==
    DOMAIN blended \subseteq DOMAIN chunks /\ \A c \in DOMAIN blended : IsScore(blended[c])

LEMMA AdjustsNear ==
    ASSUME NEW W, NEW query \in TextOf(W), NEW chunks \in Seq(ChunkOf(W)),
           NEW blended, IsBlend(blended, chunks), NEW c \in DOMAIN blended
    PROVE  Near(Adjusts(query, chunks, blended)[c], blended[c]) /\ IsScore(blended[c])
<1>1. c \in DOMAIN chunks /\ IsScore(blended[c])
  BY DEF IsBlend
<1>2. Adjusts(query, chunks, blended)[c] = Retrieval!Adjusted(query, chunks[c], blended[c])
  BY DEF Adjusts
<1> QED
  BY <1>1, <1>2, AdjustedNear

LEMMA RankedSorts ==
    ASSUME NEW W, NEW query \in TextOf(W), NEW chunks \in Seq(ChunkOf(W)),
           NEW blended, IsBlend(blended, chunks)
    PROVE  \E order : /\ Sorts(order, DOMAIN blended, RankKey(query, chunks, blended))
                      /\ Retrieval!Ranked(query, chunks, blended) =
                            [i \in DOMAIN order |->
                                [chunk |-> order[i], score |-> Adjusts(query, chunks, blended)[order[i]]]]
<1> DEFINE D == DOMAIN blended
           key == RankKey(query, chunks, blended)
           order == Retrieval!SortedBy(D, key)
<1>1. IsFiniteSet(D)
  BY DomainFinite, FS_Subset DEF IsBlend
<1>2. \A c \in D : /\ Adjusts(query, chunks, blended)[c] \in Int /\ blended[c] \in Int
                   /\ chunks[c].document \in Int /\ chunks[c].index \in Int /\ c \in Int
  <2> TAKE c \in D
  <2>1. c \in DOMAIN chunks
    BY DEF IsBlend
  <2>2. Adjusts(query, chunks, blended)[c] \in Nat /\ blended[c] \in 0..1000
    BY AdjustsNear DEF Near, IsScore
  <2>5. Adjusts(query, chunks, blended)[c] \in Int /\ blended[c] \in Int
    <3> DEFINE u == Adjusts(query, chunks, blended)[c]
               x == blended[c]
    <3>1. u \in Nat /\ x \in 0..1000
      BY <2>2
    <3> HIDE DEF u, x
    <3>2. u \in Int /\ x \in Int
      BY <3>1
    <3> QED
      BY <3>2 DEF u, x
  <2>3. chunks[c].document \in Int /\ chunks[c].index \in Int
    BY <2>1, ChunkParts
  <2>4. c \in Int
    BY <2>1
  <2> QED
    BY <2>3, <2>4, <2>5
<1>3. key = [c \in D |-> <<-Adjusts(query, chunks, blended)[c], -blended[c],
                            chunks[c].document, chunks[c].index, c>>]
  BY DEF RankKey
<1>4. key \in [D -> [1..5 -> Int]] /\ D \subseteq D
  <2>1. \A p, q, s, t, u \in Int : <<p, q, s, t, u>> \in [1..5 -> Int]
    OBVIOUS
  <2>2. \A c \in D : key[c] \in [1..5 -> Int]
    <3> TAKE c \in D
    <3>1. -Adjusts(query, chunks, blended)[c] \in Int /\ -blended[c] \in Int
      BY <1>2
    <3> DEFINE p == -Adjusts(query, chunks, blended)[c]
               q == -blended[c]
               s == chunks[c].document
               t == chunks[c].index
    <3>2. key[c] = <<p, q, s, t, c>>
      BY <1>3
    <3>3. p \in Int /\ q \in Int /\ s \in Int /\ t \in Int /\ c \in Int
      BY <1>2, <3>1
    <3>4. <<p, q, s, t, c>> \in [1..5 -> Int]
      <4> HIDE DEF p, q, s, t
      <4> QED
        BY <2>1, <3>3
    <3> HIDE DEF p, q, s, t, key
    <3> QED
      BY <3>2, <3>4
  <2>3. key = [c \in D |-> key[c]]
    BY <1>3
  <2> HIDE DEF key, D
  <2> QED
    BY <2>2, <2>3
<1>5. \A i, j \in D : key[i] = key[j] => i = j
  <2>1. \A c \in D : key[c][5] = c
    BY <1>3
  <2> QED
    BY <2>1
<1>6. Retrieval!Ranked(query, chunks, blended) =
        [i \in DOMAIN order |-> [chunk |-> order[i], score |-> Adjusts(query, chunks, blended)[order[i]]]]
  BY DEF Retrieval!Ranked, RankKey, Adjusts
<1> HIDE DEF key, D
<1>7. SortsSo(order, D, key)
  BY SortedSo
<1>8. Sorts(order, D, key)
  <2> HIDE DEF order
  <2> QED
    BY <1>1, <1>4, <1>5, <1>7, SortedBySorts
<1> QED
  BY <1>6, <1>8 DEF key, D

LEMMA NearScores ==
    ASSUME NEW x, NEW y, NEW u, NEW v,
           IsScore(x), IsScore(y), Near(u, x), Near(v, y), v <= u
    PROVE  y - x <= 280
BY DEF IsScore, Near

\* Retrieval: what bonuses and penalties take out of the order of the blended scores was near.
THEOREM NoLeapfrogHolds ==
    ASSUME NEW W, NEW query \in TextOf(W), NEW chunks \in Seq(ChunkOf(W)),
           NEW blended, IsBlend(blended, chunks), NEW k \in Nat,
           NEW r, r.blended = blended,
           r.results = Retrieval!Cut(Retrieval!Ranked(query, chunks, blended), k)
    PROVE  Retrieval!NoLeapfrog(r)
<1> DEFINE D == DOMAIN blended
           key == RankKey(query, chunks, blended)
           adj == Adjusts(query, chunks, blended)
           Result == [chunk : D, score : {adj[c] : c \in D}]
           size == Cardinality(D)
<1>1. PICK order : /\ Sorts(order, D, key)
                   /\ Retrieval!Ranked(query, chunks, blended) =
                         [i \in DOMAIN order |-> [chunk |-> order[i], score |-> adj[order[i]]]]
  BY RankedSorts
<1>2. /\ size \in Nat /\ order \in [1..size -> D]
      /\ \A i, j \in 1..size : i < j => Precedes(key[order[i]], key[order[j]])
  BY <1>1 DEF Sorts
<1> DEFINE list == [i \in 1..size |-> [chunk |-> order[i], score |-> adj[order[i]]]]
<1>3. Retrieval!Ranked(query, chunks, blended) = list
  BY <1>1, <1>2
<1>4. list \in [1..size -> Result] /\ \A i \in 1..size : list[i].chunk = order[i]
  BY <1>2
<1> HIDE DEF list, Result, size, key
<1>5. Begins(r.results, list, size, Result)
  BY <1>2, <1>3, <1>4, CutBegins
<1> SUFFICES ASSUME NEW i \in DOMAIN r.results, NEW j \in DOMAIN r.results, i < j
             PROVE  blended[r.results[j].chunk] - blended[r.results[i].chunk] <= 280
  BY DEF Retrieval!NoLeapfrog, Retrieval!MaxBonus, Retrieval!MaxPenalty
<1> DEFINE a == order[i]
           b == order[j]
<1>6. /\ i \in 1..size /\ j \in 1..size
      /\ r.results[i] = list[i] /\ r.results[j] = list[j]
  <2>1. DOMAIN r.results = 1..Len(r.results)
    BY <1>5 DEF Begins
  <2> QED
    BY <1>5, <2>1 DEF Begins
<1>7. r.results[i].chunk = a /\ r.results[j].chunk = b
  BY <1>4, <1>6
<1>8. a \in D /\ b \in D /\ Precedes(key[a], key[b])
  BY <1>2, <1>6
<1> HIDE DEF a, b
<1>9. adj[b] <= adj[a]
  <2>1. /\ key[a] = <<-adj[a], -blended[a], chunks[a].document, chunks[a].index, a>>
        /\ key[b] = <<-adj[b], -blended[b], chunks[b].document, chunks[b].index, b>>
    BY <1>8 DEF key, RankKey
  <2>2. adj[a] \in Nat /\ adj[b] \in Nat
    BY <1>8, AdjustsNear DEF Near
  <2>3. DOMAIN key[a] = 1..5 /\ key[a][1] = -adj[a] /\ key[b][1] = -adj[b]
    BY <2>1
  <2> HIDE DEF adj, key
  <2>4. PICK n \in DOMAIN key[a] : key[a][n] < key[b][n] /\ \A m \in 1..n - 1 : key[a][m] = key[b][m]
    BY <1>8 DEF Precedes
  <2>5. CASE n = 1
    BY <2>2, <2>3, <2>4, <2>5
  <2>6. CASE n # 1
    <3>1. 1 \in 1..n - 1
      BY <2>3, <2>6
    <3>2. key[a][1] = key[b][1]
      BY <2>4, <3>1
    <3> QED
      BY <2>2, <2>3, <3>2
  <2> QED
    BY <2>5, <2>6
<1> DEFINE x == blended[a]
           y == blended[b]
           u == adj[a]
           v == adj[b]
<1>10. Near(u, x) /\ IsScore(x)
  BY <1>8, AdjustsNear
<1>11. Near(v, y) /\ IsScore(y)
  BY <1>8, AdjustsNear
<1>12. v <= u /\ blended[r.results[j].chunk] = y /\ blended[r.results[i].chunk] = x
  BY <1>7, <1>9
<1> HIDE DEF x, y, u, v
<1>13. y - x <= 280
  BY <1>10, <1>11, <1>12, NearScores
<1> QED
  BY <1>12, <1>13

-----------------------------------------------------------------------------
(* The lexical index *)

LinesOf(chunks, c) == Retrieval!Lines(chunks[c])

\* A piece of the lines of a text: from one of them, or from the first, to another or none.
IsSpan(span, lines) == span[1] \in Nat \ {0} /\ span[2] \in Nat /\ span[2] <= Len(lines)

LEMMA SegmentParts ==
    ASSUME NEW W, NEW lines \in TextOf(W)
    PROVE  /\ IsFiniteSet(Retrieval!Segments(lines))
           /\ \A s \in Retrieval!Segments(lines) : IsSpan(s, lines)
           /\ <<1, Len(lines)>> \in Retrieval!Segments(lines)
<1> DEFINE starts == {1} \cup {i \in DOMAIN lines : lines[i].question}
           Ends(s) == {Len(lines)} \cup {t - 1 : t \in {t \in starts : t > s}}
           ends(s) == Retrieval!Min(Ends(s))
           span == [s \in starts |-> <<s, ends(s)>>]
<1>1. Len(lines) \in Nat /\ DOMAIN lines = 1..Len(lines)
  BY DEF TextOf
<1>2. starts \subseteq Nat \ {0}
  BY <1>1
<1>3. IsFiniteSet(starts)
  <2>1. {i \in DOMAIN lines : lines[i].question} \subseteq DOMAIN lines
    OBVIOUS
  <2>2. IsFiniteSet(DOMAIN lines)
    BY <1>1, FS_Interval
  <2>4. IsFiniteSet({1})
    BY FS_Singleton
  <2>3. IsFiniteSet({i \in DOMAIN lines : lines[i].question})
    BY <2>1, <2>2, FS_Subset
  <2> QED
    BY <2>3, <2>4, FS_Union
<1>4. Retrieval!Segments(lines) = {span[s] : s \in starts} \cup {<<1, Len(lines)>>}
  BY DEF Retrieval!Segments
<1>5. ASSUME NEW s \in starts
      PROVE  ends(s) \in Nat /\ ends(s) <= Len(lines)
  <2>1. Ends(s) \in SUBSET Nat /\ Len(lines) \in Ends(s)
    BY <1>1, <1>2
  <2> HIDE DEF Ends, starts
  <2>2. PICK m \in Ends(s) : \A x \in Ends(s) : m <= x
    BY <2>1, LeastNumber
  <2>3. Retrieval!Min(Ends(s)) \in Ends(s) /\ \A x \in Ends(s) : Retrieval!Min(Ends(s)) <= x
    BY <2>2 DEF Retrieval!Min
  <2> QED
    BY <2>1, <2>3
<1> HIDE DEF starts, ends
<1>6. \A s \in starts : span[s][1] = s /\ span[s][2] = ends(s)
  OBVIOUS
<1>7. \A s \in starts : IsSpan(span[s], lines)
  BY <1>2, <1>5, <1>6 DEF IsSpan
<1>8. IsSpan(<<1, Len(lines)>>, lines)
  BY <1>1 DEF IsSpan
<1> HIDE DEF span
<1>9. IsFiniteSet({span[s] : s \in starts})
  BY <1>3, ImageFinite
<1>10. IsFiniteSet(Retrieval!Segments(lines))
  <2>1. IsFiniteSet({<<1, Len(lines)>>})
    BY FS_Singleton
  <2> QED
    BY <1>4, <1>9, <2>1, FS_Union
<1> QED
  BY <1>4, <1>7, <1>8, <1>10

\* What the index has: whole chunks among them.
IsItem(item, chunks) ==
    item.chunk \in DOMAIN chunks /\ chunks[item.chunk].known
      /\ IsSpan(item.span, LinesOf(chunks, item.chunk))
WholeOf(chunks, c) == [chunk |-> c, span |-> <<1, Len(LinesOf(chunks, c))>>]

LEMMA IndexParts ==
    ASSUME NEW W, NEW chunks \in Seq(ChunkOf(W))
    PROVE  /\ IsFiniteSet(Retrieval!Index(chunks))
           /\ \A item \in Retrieval!Index(chunks) : IsItem(item, chunks)
           /\ \A c \in DOMAIN chunks :
                 chunks[c].known => WholeOf(chunks, c) \in Retrieval!Index(chunks)
<1> DEFINE live == {c \in DOMAIN chunks : chunks[c].known}
           Of(c) == {[chunk |-> c, span |-> s] : s \in Retrieval!Segments(LinesOf(chunks, c))}
           own == [c \in live |-> Of(c)]
<1>1. Retrieval!Index(chunks) = UNION {own[c] : c \in live}
  <2>1. Retrieval!Index(chunks) = UNION {Of(c) : c \in live}
    BY DEF Retrieval!Index, LinesOf
  <2> HIDE DEF Of, live
  <2>2. {Of(c) : c \in live} = {own[c] : c \in live}
    OBVIOUS
  <2> QED
    BY <2>1, <2>2
<1>2. IsFiniteSet(live)
  <2>1. live \subseteq DOMAIN chunks
    OBVIOUS
  <2> HIDE DEF live
  <2> QED
    BY <2>1, DomainFinite, FS_Subset
<1>3. \A c \in live : LinesOf(chunks, c) \in TextOf(W)
  BY ChunkParts DEF LinesOf
<1>4. ASSUME NEW c \in live
      PROVE  /\ IsFiniteSet(own[c])
             /\ \A item \in own[c] : IsItem(item, chunks)
             /\ WholeOf(chunks, c) \in own[c]
  <2> DEFINE segments == Retrieval!Segments(LinesOf(chunks, c))
             item == [s \in segments |-> [chunk |-> c, span |-> s]]
  <2>1. /\ IsFiniteSet(segments) /\ \A s \in segments : IsSpan(s, LinesOf(chunks, c))
        /\ <<1, Len(LinesOf(chunks, c))>> \in segments
    BY <1>3, SegmentParts
  <2>2. own[c] = {item[s] : s \in segments}
    OBVIOUS
  <2>3. WholeOf(chunks, c) \in own[c]
    BY <2>1 DEF WholeOf
  <2>4. \A s \in segments : item[s].chunk = c /\ item[s].span = s
    OBVIOUS
  <2>5. c \in DOMAIN chunks /\ chunks[c].known
    OBVIOUS
  <2> HIDE DEF segments, item, own, live
  <2>6. \A i \in own[c] : IsItem(i, chunks)
    BY <2>1, <2>2, <2>4, <2>5 DEF IsItem
  <2>7. IsFiniteSet(own[c])
    BY <2>1, <2>2, ImageFinite
  <2> QED
    BY <2>3, <2>6, <2>7
<1> HIDE DEF own
<1>5. IsFiniteSet(Retrieval!Index(chunks))
  BY <1>1, <1>2, <1>4, UnionFinite
<1>6. \A c \in DOMAIN chunks : chunks[c].known => c \in live
  OBVIOUS
<1> HIDE DEF live
<1> QED
  BY <1>1, <1>4, <1>5, <1>6

\* The places of a piece hold the words of its chunk; those of the whole hold them all.
PlacesOf(chunks, item) == Retrieval!Places(chunks, item)

LEMMA PlaceParts ==
    ASSUME NEW W, NEW chunks \in Seq(ChunkOf(W)), NEW item, IsItem(item, chunks)
    PROVE  /\ IsFiniteSet(PlacesOf(chunks, item))
           /\ \A p \in PlacesOf(chunks, item) :
                 /\ p[1] \in DOMAIN LinesOf(chunks, item.chunk)
                 /\ p[2] \in DOMAIN LinesOf(chunks, item.chunk)[p[1]].words
<1> DEFINE lines == LinesOf(chunks, item.chunk)
           rows == item.span[1]..item.span[2]
           Of(i) == {<<i, j>> : j \in DOMAIN lines[i].words}
           own == [i \in rows |-> Of(i)]
<1>1. lines \in TextOf(W)
  BY ChunkParts DEF IsItem, LinesOf
<1>2. item.span[1] \in Nat \ {0} /\ item.span[2] \in Nat /\ item.span[2] <= Len(lines)
  BY DEF IsItem, IsSpan
<1>3. rows \subseteq DOMAIN lines /\ IsFiniteSet(rows)
  <2>1. DOMAIN lines = 1..Len(lines) /\ Len(lines) \in Nat
    BY <1>1 DEF TextOf
  <2> DEFINE a == item.span[1]
             b == item.span[2]
             l == Len(lines)
  <2>2. a \in Nat \ {0} /\ b \in Nat /\ b <= l /\ l \in Nat
    BY <1>2, <2>1
  <2> HIDE DEF a, b, l
  <2>3. a..b \subseteq 1..l
    BY <2>2
  <2>4. IsFiniteSet(a..b)
    BY <2>2, FS_Interval
  <2> QED
    BY <2>1, <2>3, <2>4 DEF a, b, l
<1>4. PlacesOf(chunks, item) = UNION {own[i] : i \in rows}
  BY DEF PlacesOf, Retrieval!Places, LinesOf
<1> HIDE DEF lines, rows
<1>5. ASSUME NEW i \in rows
      PROVE  /\ IsFiniteSet(own[i])
             /\ \A p \in own[i] : p[1] = i /\ p[2] \in DOMAIN lines[i].words
  <2> DEFINE words == lines[i].words
             place == [j \in DOMAIN words |-> <<i, j>>]
  <2>1. words \in Seq(W)
    <3>1. lines[i] \in LineOf(W)
      BY <1>1, <1>3 DEF TextOf
    <3> QED
      BY <3>1, WordsOfLine
  <2>2. own[i] = {place[j] : j \in DOMAIN words}
    OBVIOUS
  <2>3. \A p \in own[i] : p[1] = i /\ p[2] \in DOMAIN lines[i].words
    OBVIOUS
  <2> HIDE DEF words, place, own
  <2>4. IsFiniteSet(own[i])
    BY <2>1, <2>2, DomainFinite, ImageFinite
  <2> QED
    BY <2>3, <2>4
<1> HIDE DEF own
<1>6. IsFiniteSet(PlacesOf(chunks, item))
  BY <1>3, <1>4, <1>5, UnionFinite
<1>7. \A p \in PlacesOf(chunks, item) : p[1] \in DOMAIN lines /\ p[2] \in DOMAIN lines[p[1]].words
  BY <1>3, <1>4, <1>5
<1> QED
  BY <1>6, <1>7 DEF lines

WordsAt(chunks, item, word) == Retrieval!Occurrences(chunks, item, word)
AllWords(chunks, c) == Retrieval!Tokens(LinesOf(chunks, c))

LEMMA WordsFound ==
    ASSUME NEW W, NEW chunks \in Seq(ChunkOf(W)), NEW item, IsItem(item, chunks), NEW word
    PROVE  /\ WordsAt(chunks, item, word) \subseteq PlacesOf(chunks, item)
           /\ WordsAt(chunks, item, word) # {} => word \in AllWords(chunks, item.chunk)
           /\ item = WholeOf(chunks, item.chunk) /\ word \in AllWords(chunks, item.chunk)
                => WordsAt(chunks, item, word) # {}
<1> DEFINE lines == LinesOf(chunks, item.chunk)
<1>1. WordsAt(chunks, item, word) = {p \in PlacesOf(chunks, item) : lines[p[1]].words[p[2]] = word}
  BY DEF WordsAt, PlacesOf, Retrieval!Occurrences, LinesOf
<1>2. \A w : w \in AllWords(chunks, item.chunk)
               <=> \E i \in DOMAIN lines : \E j \in DOMAIN lines[i].words : lines[i].words[j] = w
  BY DEF AllWords, Retrieval!Tokens, Retrieval!Range
<1>3. WordsAt(chunks, item, word) # {} => word \in AllWords(chunks, item.chunk)
  <2> HIDE DEF lines
  <2>1. \A p \in PlacesOf(chunks, item) : p[1] \in DOMAIN lines /\ p[2] \in DOMAIN lines[p[1]].words
    BY PlaceParts DEF lines
  <2> QED
    BY <1>1, <1>2, <2>1
<1>4. ASSUME item = WholeOf(chunks, item.chunk), word \in AllWords(chunks, item.chunk)
      PROVE  WordsAt(chunks, item, word) # {}
  <2>1. PICK i \in DOMAIN lines : \E j \in DOMAIN lines[i].words : lines[i].words[j] = word
    BY <1>2, <1>4
  <2>2. PICK j \in DOMAIN lines[i].words : lines[i].words[j] = word
    BY <2>1
  <2>3. lines \in TextOf(W)
    BY ChunkParts DEF IsItem, LinesOf
  <2>4. item.span[1] = 1 /\ item.span[2] = Len(lines)
    <3>1. item.span = <<1, Len(lines)>>
      BY <1>4 DEF WholeOf
    <3> QED
      BY <3>1
  <2>5. i \in item.span[1]..item.span[2]
    BY <2>3, <2>4 DEF TextOf
  <2>6. PlacesOf(chunks, item) =
          UNION {{<<k, l>> : l \in DOMAIN lines[k].words} : k \in item.span[1]..item.span[2]}
    BY DEF PlacesOf, Retrieval!Places, LinesOf
  <2> HIDE DEF lines
  <2>7. <<i, j>> \in PlacesOf(chunks, item)
    BY <2>2, <2>5, <2>6
  <2>8. <<i, j>>[1] = i /\ <<i, j>>[2] = j
    OBVIOUS
  <2> QED
    BY <1>1, <2>2, <2>7, <2>8
<1> QED
  BY <1>1, <1>3, <1>4

\* Logarithms of at most 12 pieces: what a word counts is never nothing.
LEMMA LnRow ==
    /\ Retrieval!Ln[1] = 0 /\ Retrieval!Ln[3] = 1099 /\ Retrieval!Ln[5] = 1609
    /\ Retrieval!Ln[7] = 1946 /\ Retrieval!Ln[9] = 2197 /\ Retrieval!Ln[11] = 2398
    /\ Retrieval!Ln[13] = 2565 /\ Retrieval!Ln[15] = 2708 /\ Retrieval!Ln[17] = 2833
    /\ Retrieval!Ln[19] = 2944 /\ Retrieval!Ln[21] = 3045 /\ Retrieval!Ln[23] = 3135
    /\ Retrieval!Ln[25] = 3219
    /\ Retrieval!Ln[4] = 1386 /\ Retrieval!Ln[6] = 1792 /\ Retrieval!Ln[8] = 2079
    /\ Retrieval!Ln[10] = 2303 /\ Retrieval!Ln[12] = 2485 /\ Retrieval!Ln[14] = 2639
    /\ Retrieval!Ln[16] = 2773 /\ Retrieval!Ln[18] = 2890 /\ Retrieval!Ln[20] = 2996
    /\ Retrieval!Ln[22] = 3091 /\ Retrieval!Ln[24] = 3178 /\ Retrieval!Ln[26] = 3258
BY SMT DEF Retrieval!Ln

\* Of a number of pieces, and of those that have the word.
IsShare(size, df) == size \in 1..12 /\ df \in 1..size

LEMMA IdfBounds ==
    ASSUME NEW size, NEW df, IsShare(size, df)
    PROVE  Retrieval!Idf(size, df) \in Nat /\ Retrieval!Idf(size, df) >= 39
<1> DEFINE ln == Retrieval!Ln
<1>1. size \in 1..12 /\ df \in 1..12 /\ df <= size
  BY DEF IsShare
<1>2. Retrieval!Idf(size, df) = ln[2 * (size + 1)] - ln[2 * df + 1]
  BY DEF Retrieval!Idf
<1> DEFINE most == ln[2 * (size + 1)]
           part == ln[2 * df + 1]
<1>3. \/ (size = 1 /\ most = 1386) \/ (size = 2 /\ most = 1792) \/ (size = 3 /\ most = 2079)
      \/ (size = 4 /\ most = 2303) \/ (size = 5 /\ most = 2485) \/ (size = 6 /\ most = 2639)
      \/ (size = 7 /\ most = 2773) \/ (size = 8 /\ most = 2890) \/ (size = 9 /\ most = 2996)
      \/ (size = 10 /\ most = 3091) \/ (size = 11 /\ most = 3178) \/ (size = 12 /\ most = 3258)
  <2> HIDE DEF ln
  <2> QED
    BY <1>1, LnRow DEF ln
<1>4. \/ (df = 1 /\ part = 1099) \/ (df = 2 /\ part = 1609) \/ (df = 3 /\ part = 1946)
      \/ (df = 4 /\ part = 2197) \/ (df = 5 /\ part = 2398) \/ (df = 6 /\ part = 2565)
      \/ (df = 7 /\ part = 2708) \/ (df = 8 /\ part = 2833) \/ (df = 9 /\ part = 2944)
      \/ (df = 10 /\ part = 3045) \/ (df = 11 /\ part = 3135) \/ (df = 12 /\ part = 3219)
  <2> HIDE DEF ln
  <2> QED
    BY <1>1, LnRow DEF ln
<1> HIDE DEF most, part
<1>5. most - part \in Nat /\ most - part >= 39
  BY <1>1, <1>3, <1>4
<1> QED
  BY <1>2, <1>5 DEF most, part

\* The number of a word in a piece, of times it occurs there, lengths and pieces.
IsCount(tf, idf, total, length, size) ==
    /\ tf \in Nat \ {0} /\ idf \in Nat /\ idf >= 39 /\ total \in Nat /\ length \in Nat
    /\ tf <= length /\ length <= total /\ size \in 1..12

LEMMA TermNumber ==
    ASSUME NEW tf, NEW idf, NEW total, NEW length, NEW size, IsCount(tf, idf, total, length, size)
    PROVE  LET term == (idf * 20 * tf * total) \div (8 * tf * total + 3 * total + 9 * length * size)
           IN  term \in Nat /\ term > 0
<1> DEFINE x == tf * total
           y == length * size
           z == idf * x
           n == idf * 20 * tf * total
           d == 8 * tf * total + 3 * total + 9 * length * size
<1>1. /\ tf \in Nat \ {0} /\ idf \in Nat /\ idf >= 39 /\ total \in Nat /\ length \in Nat
      /\ tf <= length /\ length <= total /\ size \in 1..12
  BY DEF IsCount
<1>2. x \in Nat /\ x >= total /\ total > 0
  <2>1. PICK e \in Nat : tf = e + 1
    <3>1. tf - 1 \in Nat /\ tf = (tf - 1) + 1
      BY <1>1
    <3> QED
      BY <3>1
  <2>2. x = e * total + total /\ e * total \in Nat
    BY <1>1, <2>1
  <2> HIDE DEF x
  <2>3. x \in Nat /\ x >= total
    <3> DEFINE v == e * total
    <3>1. x = v + total /\ v \in Nat
      BY <2>2
    <3> HIDE DEF v
    <3> QED
      BY <1>1, <3>1
  <2> QED
    BY <1>1, <2>3
<1>3. y \in Nat /\ y <= 12 * total
  <2>1. \A s \in 1..12 : length * s \in Nat /\ length * s <= 12 * length
    BY <1>1
  <2>2. y \in Nat /\ y <= 12 * length
    BY <1>1, <2>1
  <2> HIDE DEF y
  <2> QED
    BY <1>1, <2>2
<1>4. z \in Nat /\ z >= 39 * x
  <2>1. PICK e \in Nat : idf = 39 + e
    <3>1. idf - 39 \in Nat /\ idf = 39 + (idf - 39)
      BY <1>1
    <3> QED
      BY <3>1
  <2> HIDE DEF x
  <2>2. z = 39 * x + e * x /\ e * x \in Nat
    BY <1>2, <2>1
  <2> DEFINE v == e * x
  <2>3. z = 39 * x + v /\ v \in Nat
    BY <2>2
  <2> HIDE DEF v, z
  <2> QED
    BY <1>2, <2>3
<1>5. n = 20 * z
  BY <1>1
<1>6. d = 8 * x + 3 * total + 9 * y
  BY <1>1
<1> HIDE DEF x, y, z, n, d
<1>7. n \in Nat /\ d \in Nat \ {0} /\ 1 * d <= n
  BY <1>1, <1>2, <1>3, <1>4, <1>5, <1>6
<1>8. n \div d >= 1 /\ n \div d \in Nat
  BY <1>7, AtLeastTimes
<1> QED
  BY <1>8 DEF n, d

LengthOf(chunks, item) == Cardinality(PlacesOf(chunks, item))
TermOf(chunks, index, item, word) == Retrieval!Term(chunks, index, item, word)
IsIndex(index, chunks) ==
    IsFiniteSet(index) /\ Cardinality(index) <= 12 /\ \A item \in index : IsItem(item, chunks)

LEMMA SumsAgree ==
    \A f : Retrieval!SumFunction(f) = SumFunction(f)
BY DEF Retrieval!SumFunction, Retrieval!SumFunctionOnSet, Retrieval!FoldFunctionOnSet,
       Retrieval!MapThenFoldSet, SumFunction, SumFunctionOnSet, FoldFunctionOnSet, MapThenFoldSet

\* A word counts for something in the pieces that have it, and in no other.
LEMMA TermTells ==
    ASSUME NEW W, NEW chunks \in Seq(ChunkOf(W)), NEW index, IsIndex(index, chunks),
           NEW item \in index, NEW word
    PROVE  /\ TermOf(chunks, index, item, word) \in Nat
           /\ TermOf(chunks, index, item, word) > 0 <=> WordsAt(chunks, item, word) # {}
<1> DEFINE size == Cardinality(index)
           lengths == [d \in index |-> LengthOf(chunks, d)]
           total == SumFunction(lengths)
           having == {d \in index : WordsAt(chunks, d, word) # {}}
           df == Cardinality(having)
           tf == Cardinality(WordsAt(chunks, item, word))
           length == LengthOf(chunks, item)
           idf == Retrieval!Idf(size, df)
           term == TermOf(chunks, index, item, word)
<1>1. term = IF tf = 0 THEN 0
             ELSE (idf * 20 * tf * total) \div (8 * tf * total + 3 * total + 9 * length * size)
  BY CountsAgree, SumsAgree DEF TermOf, Retrieval!Term, LengthOf, PlacesOf, WordsAt
<1>2. /\ IsFiniteSet(index) /\ size \in Nat /\ size <= 12 /\ \A d \in index : IsItem(d, chunks)
  BY FS_CardinalityType DEF IsIndex
<1>3. \A d \in index : IsFiniteSet(PlacesOf(chunks, d)) /\ LengthOf(chunks, d) \in Nat
  BY <1>2, PlaceParts, FS_CardinalityType DEF LengthOf
<1>4. /\ WordsAt(chunks, item, word) \subseteq PlacesOf(chunks, item)
      /\ IsFiniteSet(WordsAt(chunks, item, word))
  <2>1. WordsAt(chunks, item, word) \subseteq PlacesOf(chunks, item)
    BY <1>2, WordsFound
  <2> QED
    BY <1>3, <2>1, FS_Subset
<1>5. tf \in Nat /\ tf <= length /\ (tf = 0 <=> WordsAt(chunks, item, word) = {})
  <2>1. IsFiniteSet(PlacesOf(chunks, item))
    BY <1>3
  <2>2. tf <= length
    BY <1>4, <2>1, FS_Subset DEF LengthOf
  <2> QED
    BY <1>4, <2>2, FS_CardinalityType, FS_EmptySet
<1>6. length \in Nat /\ total \in Int /\ total >= length
  <2>1. length \in Nat
    BY <1>3
  <2>2. lengths \in [index -> Int] /\ lengths[item] = length /\ \A d \in index : lengths[d] \in Nat
    BY <1>3
  <2> DEFINE C == {item}
  <2>3. Cardinality(C) = 1 /\ C \in SUBSET index /\ \A d \in C : d = item
    BY FS_Singleton
  <2> HIDE DEF lengths, length, C
  <2>4. \A d \in index : lengths[d] >= IF d \in C THEN length ELSE 0
    BY <2>1, <2>2, <2>3
  <2>5. SumFunction(lengths) \in Int /\ SumFunction(lengths) >= length * Cardinality(C)
    BY <1>2, <2>1, <2>2, <2>3, <2>4, SumAtLeast
  <2>6. length * Cardinality(C) = length
    BY <2>1, <2>3
  <2> QED
    BY <2>1, <2>5, <2>6
<1>7. CASE WordsAt(chunks, item, word) = {}
  BY <1>1, <1>5, <1>7
<1>8. CASE WordsAt(chunks, item, word) # {}
  <2>1. IsShare(size, df)
    <3>1. having \subseteq index /\ item \in having
      BY <1>8
    <3> HIDE DEF having
    <3>2. IsFiniteSet(having) /\ df \in Nat /\ df <= size /\ df # 0
      BY <1>2, <3>1, FS_Subset, FS_CardinalityType, FS_EmptySet
    <3> HIDE DEF df, size
    <3> QED
      BY <1>2, <3>2 DEF IsShare
  <2>2. idf \in Nat /\ idf >= 39 /\ size \in 1..12
    BY <2>1, IdfBounds DEF IsShare
  <2> HIDE DEF size, total, df, tf, length, idf, term
  <2>3. IsCount(tf, idf, total, length, size)
    BY <1>5, <1>6, <1>8, <2>2 DEF IsCount
  <2>4. term \in Nat /\ term > 0
    BY <1>1, <1>5, <1>8, <2>3, TermNumber
  <2> QED
    BY <1>8, <2>4 DEF term
<1> QED
  BY <1>7, <1>8

OkapiOf(chunks, index, item, words) == Retrieval!Okapi(chunks, index, item, words)

\* A piece scores if it has a word that is asked for.
LEMMA OkapiTells ==
    ASSUME NEW W, NEW chunks \in Seq(ChunkOf(W)), NEW index, IsIndex(index, chunks),
           NEW item \in index, NEW words \in Seq(W)
    PROVE  /\ OkapiOf(chunks, index, item, words) \in Nat
           /\ OkapiOf(chunks, index, item, words) > 0
                <=> \E i \in DOMAIN words : WordsAt(chunks, item, words[i]) # {}
<1> DEFINE D == DOMAIN words
           terms == [i \in D |-> TermOf(chunks, index, item, words[i])]
           sum == SumFunction(terms)
<1>1. OkapiOf(chunks, index, item, words) = sum
  BY SumsAgree DEF OkapiOf, Retrieval!Okapi, TermOf
<1>2. IsFiniteSet(D)
  BY DomainFinite
<1>3. \A i \in D : /\ terms[i] \in Nat
                   /\ terms[i] > 0 <=> WordsAt(chunks, item, words[i]) # {}
  BY TermTells
<1>4. terms \in [D -> Int]
  BY <1>3
<1> HIDE DEF terms, D
<1>5. sum \in Int /\ sum >= 0
  <2> DEFINE C == {}
  <2>1. C \in SUBSET D /\ Cardinality(C) = 0
    BY FS_EmptySet
  <2>2. \A i \in D : terms[i] >= IF i \in C THEN 0 ELSE 0
    BY <1>3
  <2> HIDE DEF C
  <2>3. sum \in Int /\ sum >= 0 * Cardinality(C)
    BY <1>2, <1>4, <2>1, <2>2, SumAtLeast
  <2> QED
    BY <2>1, <2>3
<1>6. ASSUME NEW i \in D, WordsAt(chunks, item, words[i]) # {}
      PROVE  sum > 0
  <2> DEFINE C == {i}
  <2>1. C \in SUBSET D /\ Cardinality(C) = 1 /\ \A j \in C : j = i
    BY FS_Singleton
  <2>4. terms[i] \in Nat /\ terms[i] > 0
    BY <1>3, <1>6
  <2>2. \A j \in D : terms[j] >= IF j \in C THEN 1 ELSE 0
    BY <1>3, <2>1, <2>4
  <2> HIDE DEF C
  <2>3. sum \in Int /\ sum >= 1 * Cardinality(C)
    BY <1>2, <1>4, <2>1, <2>2, SumAtLeast
  <2> QED
    BY <1>5, <2>1, <2>3
<1>7. ASSUME \A i \in D : WordsAt(chunks, item, words[i]) = {}
      PROVE  ~ (sum > 0)
  <2> DEFINE C == {}
  <2>1. C \in SUBSET D /\ Cardinality(C) = 0
    BY FS_EmptySet
  <2>4. ASSUME NEW i \in D
        PROVE  terms[i] \in Nat /\ ~ (terms[i] > 0)
    BY <1>3, <1>7
  <2>2. \A i \in D : terms[i] <= IF i \in C THEN 0 ELSE 0
    BY <2>4
  <2> HIDE DEF C
  <2>3. sum \in Int /\ sum <= 0 * Cardinality(C)
    BY <1>2, <1>4, <2>1, <2>2, SumAtMost
  <2> QED
    BY <2>1, <2>3
<1> HIDE DEF sum
<1>8. sum \in Nat
  BY <1>5
<1> QED
  BY <1>1, <1>6, <1>7, <1>8 DEF D

\* A chunk scores if the index knows it and it has a word that is asked for.
LEMMA ScoresTell ==
    ASSUME NEW W, NEW query \in TextOf(W), Len(query) = 1, NEW chunks \in Seq(ChunkOf(W)),
           Cardinality(Retrieval!Index(chunks)) <= 12, NEW c \in DOMAIN chunks
    PROVE  /\ Retrieval!LexicalScores(query, chunks)[c] \in Nat
           /\ Retrieval!LexicalScores(query, chunks)[c] > 0
                <=> chunks[c].known /\ AllWords(chunks, c) \cap Retrieval!Tokens(query) # {}
<1> DEFINE index == Retrieval!Index(chunks)
           words == query[1].words
           own == {d \in index : d.chunk = c}
           S == {0} \cup {OkapiOf(chunks, index, d, words) : d \in own}
           score == Retrieval!LexicalScores(query, chunks)[c]
<1>1. score = Retrieval!Max(S)
  BY DEF Retrieval!LexicalScores, Retrieval!WordsOf, OkapiOf
<1>2. IsIndex(index, chunks) /\ (chunks[c].known => WholeOf(chunks, c) \in index)
  BY IndexParts DEF IsIndex
<1>3. words \in Seq(W) /\ Retrieval!Tokens(query) = {words[i] : i \in DOMAIN words}
  <2>1. DOMAIN query = {1} /\ query[1] \in LineOf(W)
    <3> DEFINE L == LineOf(W)
    <3>1. query \in Seq(L)
      BY DEF TextOf
    <3> HIDE DEF L
    <3>2. DOMAIN query = 1..1 /\ query[1] \in L
      BY <3>1
    <3>3. 1..1 = {1}
      OBVIOUS
    <3> QED
      BY <3>2, <3>3 DEF L
  <2>2. Retrieval!Tokens(query) = UNION {Retrieval!Range(query[i].words) : i \in {1}}
    BY <2>1 DEF Retrieval!Tokens
  <2>3. Retrieval!Tokens(query) = Retrieval!Range(words)
    BY <2>2
  <2>4. Retrieval!Range(words) = {words[i] : i \in DOMAIN words}
    BY DEF Retrieval!Range
  <2> QED
    BY <2>1, <2>3, <2>4, WordsOfLine
<1> HIDE DEF words, index, score
<1>4. \A d \in index :
         /\ OkapiOf(chunks, index, d, words) \in Nat
         /\ OkapiOf(chunks, index, d, words) > 0
              <=> \E i \in DOMAIN words : WordsAt(chunks, d, words[i]) # {}
  BY <1>2, <1>3, OkapiTells
<1>5. S \in SUBSET Nat /\ S # {}
  BY <1>4
<1>6. IsFiniteSet(S)
  <2> DEFINE f == [d \in own |-> OkapiOf(chunks, index, d, words)]
             T == {f[d] : d \in own}
  <2>1. own \subseteq index /\ IsFiniteSet(index)
    BY <1>2 DEF IsIndex
  <2> HIDE DEF own
  <2>2. IsFiniteSet(own)
    BY <2>1, FS_Subset
  <2> HIDE DEF f
  <2>3. IsFiniteSet(T)
    BY <2>2, ImageFinite
  <2>4. S = {0} \cup T
    BY DEF f
  <2>5. IsFiniteSet({0})
    BY FS_Singleton
  <2> HIDE DEF T, S
  <2> QED
    BY <2>3, <2>4, <2>5, FS_Union
<1>7. score \in S /\ \A x \in S : x <= score
  <2> HIDE DEF S
  <2>1. Evidence!Max(S) \in S /\ (\A x \in S : x <= Evidence!Max(S)) /\ Retrieval!Max(S) = Evidence!Max(S)
    BY <1>5, <1>6, MaxIs
  <2> QED
    BY <1>1, <2>1
<1>8. score \in Nat
  BY <1>5, <1>7
<1>9. ASSUME score > 0
      PROVE  chunks[c].known /\ AllWords(chunks, c) \cap Retrieval!Tokens(query) # {}
  <2>1. PICK d \in own : score = OkapiOf(chunks, index, d, words)
    BY <1>7, <1>9
  <2>2. d \in index /\ d.chunk = c
    OBVIOUS
  <2>3. IsItem(d, chunks)
    BY <1>2, <2>2 DEF IsIndex
  <2>4. PICK i \in DOMAIN words : WordsAt(chunks, d, words[i]) # {}
    BY <1>4, <1>9, <2>1, <2>2
  <2>5. words[i] \in AllWords(chunks, c)
    BY <2>2, <2>3, <2>4, WordsFound
  <2> QED
    BY <1>3, <2>2, <2>3, <2>5 DEF IsItem
<1>10. ASSUME chunks[c].known, AllWords(chunks, c) \cap Retrieval!Tokens(query) # {}
       PROVE  score > 0
  <2> DEFINE d == WholeOf(chunks, c)
  <2>1. d \in index /\ d.chunk = c /\ d = WholeOf(chunks, d.chunk)
    BY <1>2, <1>10 DEF WholeOf
  <2>2. PICK i \in DOMAIN words : words[i] \in AllWords(chunks, c)
    BY <1>3, <1>10
  <2>3. IsItem(d, chunks)
    BY <1>2, <2>1 DEF IsIndex
  <2> HIDE DEF d
  <2>4. WordsAt(chunks, d, words[i]) # {}
    BY <2>1, <2>2, <2>3, WordsFound
  <2>5. OkapiOf(chunks, index, d, words) > 0 /\ OkapiOf(chunks, index, d, words) \in Nat
    BY <1>4, <2>1, <2>4
  <2>6. OkapiOf(chunks, index, d, words) \in S
    BY <2>1
  <2>7. OkapiOf(chunks, index, d, words) <= score
    <3> HIDE DEF S
    <3> QED
      BY <1>7, <2>6
  <2> QED
    BY <1>8, <2>5, <2>7
<1> QED
  BY <1>8, <1>9, <1>10 DEF score

\* The list of ByScore, and its beginning.
IsListOf(list, ids) ==
    list \in Seq(ids) /\ Once(list) /\ Len(list) = Cardinality(ids) /\ Range(list) = ids
IsCutOf(cut, ids, m) ==
    cut \in Seq(ids) /\ Once(cut) /\ Len(cut) <= m /\ (Cardinality(ids) <= m => Range(cut) = ids)

LEMMA ScoredList ==
    ASSUME NEW n \in Nat, NEW ids \in SUBSET (1..n), NEW score, \A c \in ids : score[c] \in Int,
           NEW m \in Nat
    PROVE  /\ IsFiniteSet(ids) /\ Cardinality(ids) \in Nat
           /\ IsListOf(Retrieval!ByScore(ids, score), ids)
           /\ IsCutOf(Retrieval!Cut(Retrieval!ByScore(ids, score), m), ids, m)
<1> DEFINE list == Retrieval!ByScore(ids, score)
           size == Cardinality(ids)
           cut == Retrieval!Cut(list, m)
<1>1. IsFiniteSet(ids) /\ Sorts(list, ids, ScoreKey(ids, score))
  BY ByScoreSorts
<1>2. /\ size \in Nat /\ list \in [1..size -> ids]
      /\ \A x \in ids : \E k \in 1..size : list[k] = x
      /\ \A i, j \in 1..size : list[i] = list[j] => i = j
  BY <1>1 DEF Sorts
<1> HIDE DEF list, size
<1>3. list \in Seq(ids) /\ Len(list) = size /\ DOMAIN list = 1..size
  BY <1>2
<1>4. Once(list) /\ Range(list) = ids
  <2>1. Once(list)
    BY <1>2, <1>3 DEF Once
  <2>2. \A k \in DOMAIN list : list[k] \in ids
    BY <1>2, <1>3
  <2>3. \A x \in ids : \E k \in DOMAIN list : list[k] = x
    BY <1>2, <1>3
  <2>4. Range(list) = ids
    BY <2>2, <2>3 DEF Range
  <2> QED
    BY <2>1, <2>4
<1>5. Begins(cut, list, size, ids) /\ Len(cut) <= m
  BY <1>2, CutBegins
<1>6. size <= m => cut = list
  <2>1. Retrieval!Min({m, size}) = IF m <= size THEN m ELSE size
    BY <1>2, LeastOfTwo
  <2>2. cut = SubSeq(list, 1, Retrieval!Min({m, size}))
    BY <1>3 DEF Retrieval!Cut
  <2>3. SubSeq(list, 1, size) = list
    BY <1>2, <1>3
  <2>4. size <= m => Retrieval!Min({m, size}) = size
    BY <1>2, <2>1
  <2> QED
    BY <2>2, <2>3, <2>4
<1> HIDE DEF cut
<1>7. Once(cut) /\ cut \in Seq(ids)
  <2>1. cut \in Seq(ids) /\ \A i \in 1..Len(cut) : i \in 1..size /\ cut[i] = list[i]
    BY <1>5 DEF Begins
  <2>2. DOMAIN cut = 1..Len(cut)
    BY <2>1
  <2> QED
    BY <1>2, <2>1, <2>2 DEF Once
<1> QED
  BY <1>1, <1>2, <1>3, <1>4, <1>5, <1>6, <1>7 DEF list, size, cut, IsListOf, IsCutOf

LEMMA SequencesOfMore ==
    ASSUME NEW S, NEW T, S \subseteq T, NEW s \in Seq(S)
    PROVE  s \in Seq(T)
<1>1. s \in [1..Len(s) -> S] /\ Len(s) \in Nat
  OBVIOUS
<1>2. s \in [1..Len(s) -> T]
  BY <1>1
<1> QED
  BY <1>1, <1>2

LEMMA UpTo ==
    ASSUME NEW n \in Nat
    PROVE  IsFiniteSet(1..n) /\ Cardinality(1..n) = n
<1>1. n \in Int /\ 1 \in Int
  OBVIOUS
<1>2. IsFiniteSet(1..n) /\ Cardinality(1..n) = IF 1 > n THEN 0 ELSE n - 1 + 1
  BY <1>1, FS_Interval
<1>3. Cardinality(1..n) = n
  BY <1>1, <1>2
<1> QED
  BY <1>2, <1>3

\* No list without repetition is longer than what it is made of.
LEMMA RangeSmall ==
    ASSUME NEW S, NEW list \in Seq(S)
    PROVE  /\ Range(list) \subseteq S /\ IsFiniteSet(Range(list))
           /\ Cardinality(Range(list)) \in Nat /\ Cardinality(Range(list)) <= Len(list)
<1>1. Range(list) \subseteq S /\ list \in Surjection(1..Len(list), Range(list)) /\ Len(list) \in Nat
  BY DEF Range, Surjection
<1>2. IsFiniteSet(1..Len(list)) /\ Cardinality(1..Len(list)) = Len(list)
  BY <1>1, UpTo
<1>3. IsFiniteSet(Range(list)) /\ Cardinality(Range(list)) <= Cardinality(1..Len(list))
  BY <1>1, <1>2, FS_Surjection
<1> QED
  BY <1>1, <1>2, <1>3, FS_CardinalityType

\* Boosts keep numbers numbers.
LEMMA BoostsNumbers ==
    ASSUME NEW query, NEW chunks, NEW scores, NEW c \in DOMAIN chunks, scores[c] \in Int
    PROVE  Retrieval!Boosted(query, chunks, scores)[c] \in Int
<1> DEFINE f == Retrieval!Factors(query, chunks[c])
           By(score, factor) == (score * factor) \div 100
<1>1. /\ f[1] \in Nat /\ f[2] \in Nat /\ f[3] \in Nat /\ f[4] \in Nat
      /\ f[5] \in Nat /\ f[6] \in Nat /\ f[7] \in Nat
  BY DEF Retrieval!Factors
<1>2. Retrieval!Boosted(query, chunks, scores)[c] =
        By(By(By(By(By(By(By(scores[c], f[1]), f[2]), f[3]), f[4]), f[5]), f[6]), f[7])
  BY DEF Retrieval!Boosted
<1>3. \A s \in Int : \A t \in Nat : By(s, t) \in Int
  OBVIOUS
<1> HIDE DEF f, By
<1> QED
  BY <1>1, <1>2, <1>3

LEMMA VotePositive ==
    ASSUME NEW n \in Nat, NEW list, IsChannel(list, n), NEW c
    PROVE  Retrieval!Vote(list, c) \in Nat /\ (c \in Range(list) => Retrieval!Vote(list, c) > 0)
<1> DEFINE rank == Retrieval!Rank(list, c)
<1>1. /\ c \in Range(list) => rank \in Ranks
      /\ Retrieval!Vote(list, c) = IF c \in Range(list) THEN VoteAt(rank) ELSE 0
  BY RankIs
<1>2. \A u \in Ranks : VoteAt(u) \in Nat /\ VoteAt(u) > 0
  BY VotesFall
<1> HIDE DEF rank
<1> QED
  BY <1>1, <1>2

LEMMA BlendBounds ==
    ASSUME NEW cosine \in Int, NEW rrf \in Int, NEW best \in Nat \ {0}
    PROVE  IsScore(Retrieval!Blend(cosine, rrf, best))
<1> DEFINE x == (72 * cosine + (28 * 1000 * rrf) \div best) \div 100
           y == Retrieval!Min({1000, x})
<1>1. (28 * 1000 * rrf) \div best \in Int
  OBVIOUS
<1>2. x \in Int
  <2> DEFINE z == (28 * 1000 * rrf) \div best
  <2>1. z \in Int
    BY <1>1
  <2> HIDE DEF z
  <2>2. (72 * cosine + z) \div 100 \in Int
    BY <2>1
  <2> QED
    BY <2>2 DEF z
<1>3. Retrieval!Blend(cosine, rrf, best) = Retrieval!Max({0, y})
  BY DEF Retrieval!Blend
<1> HIDE DEF x
<1>4. y = IF 1000 <= x THEN 1000 ELSE x
  BY <1>2, LeastOfTwo
<1> HIDE DEF y
<1>5. y \in Int /\ y <= 1000
  BY <1>2, <1>4
<1>6. Retrieval!Max({0, y}) = IF 0 >= y THEN 0 ELSE y
  BY <1>5, GreatestOfTwo
<1> QED
  BY <1>3, <1>5, <1>6 DEF IsScore

\* Retrieval: of every query of one line over chunks whose index the table of logarithms
\* covers, and whatever the scores of the vectors.
THEOREM RetrieveSoundHolds ==
    ASSUME NEW W, NEW query \in TextOf(W), Len(query) = 1, NEW chunks \in Seq(ChunkOf(W)),
           Cardinality(Retrieval!Index(chunks)) <= 12, NEW topK \in Int
    PROVE  LET r == Retrieval!Retrieve(query, chunks, topK)
           IN  /\ Retrieval!CommonWordsFound(query, chunks, r)
               /\ Retrieval!FusionFair(r) /\ Retrieval!NoLeapfrog(r)
<1> DEFINE n == Len(chunks)
           k == Retrieval!Max({1, Retrieval!Min({topK, MaxTopK})})
           m == Retrieval!Max({k, Cap})
           live == {c \in DOMAIN chunks : chunks[c].live}
           cosine == [c \in DOMAIN chunks |-> IF chunks[c].live THEN chunks[c].cosine ELSE 0]
           dense == Retrieval!Cut(Retrieval!ByScore(live, cosine), Pool)
           scores == Retrieval!LexicalScores(query, chunks)
           hits == {c \in DOMAIN scores : scores[c] > 0}
           raw == Retrieval!Cut(Retrieval!ByScore(hits, scores), Pool)
           boosted == Retrieval!Boosted(query, chunks, scores)
           lexical == Retrieval!ByScore(Range(raw), boosted)
           all == Range(dense) \cup Range(lexical)
           rrf == [c \in all |-> Retrieval!Rrf(dense, lexical, c)]
           fused == Retrieval!Cut(Retrieval!ByScore(all, rrf), m)
           best == Retrieval!Max({rrf[c] : c \in all})
           blended == [c \in Range(fused) |-> Retrieval!Blend(cosine[c], rrf[c], best)]
           results == Retrieval!Cut(Retrieval!Ranked(query, chunks, blended), k)
           r == Retrieval!Retrieve(query, chunks, topK)
<1>1. r = IF live = {}
          THEN [dense |-> <<>>, lexical |-> <<>>, fused |-> <<>>, blended |-> <<>>, results |-> <<>>]
          ELSE [dense |-> dense, lexical |-> lexical, fused |-> fused, blended |-> blended,
                results |-> results]
  BY DEF Retrieval!Retrieve, Retrieval!Search, Retrieval!Range, Range
<1>2. CASE live = {}
  <2>1. r.dense = <<>> /\ r.fused = <<>> /\ r.results = <<>>
    BY <1>1, <1>2
  <2> HIDE DEF r
  <2> QED
    BY <2>1 DEF r, Retrieval!CommonWordsFound, Retrieval!FusionFair, Retrieval!NoLeapfrog
<1>3. CASE live # {}
  <2>1. /\ r.dense = dense /\ r.lexical = lexical /\ r.fused = fused
        /\ r.blended = blended /\ r.results = results
    <3> HIDE DEF dense, lexical, fused, blended, results, r
    <3> QED
      BY <1>1, <1>3
  <2>2. n \in Nat /\ DOMAIN chunks = 1..n /\ DOMAIN scores = DOMAIN chunks
    BY DEF Retrieval!LexicalScores
  <2>3. Pool \in Nat /\ Pool <= 900 /\ Cap \in Nat /\ MaxTopK \in Nat \ {0}
    BY RetrievalAssumption DEF RetrievalAssumption
  <2>4. k \in Nat /\ m \in Nat
    <3> DEFINE l == Retrieval!Min({topK, MaxTopK})
    <3>1. l \in Int
      BY <2>3, LeastOfTwo
    <3> HIDE DEF l
    <3>2. Retrieval!Max({1, l}) = IF 1 >= l THEN 1 ELSE l
      BY <3>1, GreatestOfTwo
    <3>3. k \in Nat
      BY <3>1, <3>2 DEF l
    <3> HIDE DEF k
    <3>4. k \in Int /\ Cap \in Int
      BY <2>3, <3>3
    <3>5. m = IF k >= Cap THEN k ELSE Cap
      BY <3>4, GreatestOfTwo
    <3> QED
      BY <2>3, <3>3, <3>5
  <2>5. live \in SUBSET (1..n) /\ \A c \in live : cosine[c] \in Int
    <3>1. \A c \in live : c \in DOMAIN chunks /\ cosine[c] = chunks[c].cosine
      OBVIOUS
    <3> QED
      BY <2>2, <3>1, ChunkParts
  <2>6. hits \in SUBSET (1..n) /\ (\A c \in hits : scores[c] \in Int)
          /\ hits = {c \in DOMAIN chunks : chunks[c].known
                       /\ AllWords(chunks, c) \cap Retrieval!Tokens(query) # {}}
    <3>1. \A c \in DOMAIN chunks :
             /\ scores[c] \in Nat
             /\ scores[c] > 0
                   <=> chunks[c].known /\ AllWords(chunks, c) \cap Retrieval!Tokens(query) # {}
      BY ScoresTell
    <3> HIDE DEF scores, n
    <3> QED
      BY <2>2, <3>1
  <2> HIDE DEF scores, hits, live, cosine, n, k, m
  <2>7. /\ dense \in Seq(live) /\ Once(dense) /\ Len(dense) <= Pool
    BY <2>2, <2>3, <2>5, ScoredList DEF IsCutOf
  <2>8. /\ raw \in Seq(hits) /\ Len(raw) <= Pool
        /\ IsFiniteSet(hits) /\ Cardinality(hits) \in Nat
        /\ Cardinality(hits) <= Pool => Range(raw) = hits
    <3>1. hits \in SUBSET (1..n) /\ \A c \in hits : scores[c] \in Int
      BY <2>6
    <3>2. IsFiniteSet(hits) /\ Cardinality(hits) \in Nat /\ IsCutOf(raw, hits, Pool)
      BY <2>2, <2>3, <3>1, ScoredList
    <3> QED
      BY <3>2 DEF IsCutOf
  <2> HIDE DEF dense, raw
  <2>9. /\ Range(raw) \in SUBSET (1..n) /\ Cardinality(Range(raw)) \in Nat
        /\ Cardinality(Range(raw)) <= Pool
    <3>1. /\ Range(raw) \subseteq hits /\ Cardinality(Range(raw)) \in Nat
          /\ Cardinality(Range(raw)) <= Len(raw)
      BY <2>8, RangeSmall
    <3>2. Len(raw) \in Nat
      BY <2>8
    <3> QED
      BY <2>3, <2>6, <2>8, <3>1, <3>2
  <2>10. \A c \in Range(raw) : boosted[c] \in Int
    <3> TAKE c \in Range(raw)
    <3>1. c \in hits
      BY <2>8, RangeSmall
    <3>2. c \in DOMAIN chunks /\ scores[c] \in Int
      BY <2>2, <2>6, <3>1
    <3> QED
      BY <3>2, BoostsNumbers
  <2> HIDE DEF boosted
  <2>11. /\ lexical \in Seq(Range(raw)) /\ Once(lexical) /\ Len(lexical) = Cardinality(Range(raw))
         /\ Range(lexical) = Range(raw)
    <3> DEFINE ids == Range(raw)
    <3>1. ids \in SUBSET (1..n) /\ \A c \in ids : boosted[c] \in Int
      BY <2>9, <2>10
    <3> HIDE DEF ids
    <3>2. IsListOf(Retrieval!ByScore(ids, boosted), ids)
      BY <2>2, <2>3, <3>1, ScoredList
    <3> QED
      BY <3>2 DEF ids, IsListOf
  <2> HIDE DEF lexical
  <2>12. IsChannel(dense, n) /\ IsChannel(lexical, n)
    <3>1. dense \in Seq(1..n) /\ lexical \in Seq(1..n)
      <4> DEFINE T == 1..n
      <4>1. live \subseteq T /\ Range(raw) \subseteq T
        BY <2>5, <2>9
      <4> HIDE DEF T
      <4>2. dense \in Seq(T) /\ lexical \in Seq(T)
        BY <2>7, <2>11, <4>1, SequencesOfMore
      <4> QED
        BY <4>2 DEF T
    <3>2. Len(dense) \in Nat /\ Len(dense) <= 900 /\ Len(lexical) <= 900
      BY <2>3, <2>7, <2>9, <2>11
    <3> QED
      BY <2>7, <2>11, <3>1, <3>2 DEF IsChannel
  <2>13. Retrieval!FusionFair(r)
    <3> HIDE DEF r, fused, rrf, all
    <3>1. IsChannel(r.dense, n) /\ IsChannel(r.lexical, n) /\ n \in Nat /\ m \in Nat
      BY <2>1, <2>2, <2>4, <2>12
    <3>2. all = Range(r.dense) \cup Range(r.lexical)
      BY <2>1 DEF all
    <3>3. rrf = [c \in all |-> Retrieval!Rrf(r.dense, r.lexical, c)]
      BY <2>1 DEF rrf
    <3>4. r.fused = Retrieval!Cut(Retrieval!ByScore(all, rrf), m)
      BY <2>1 DEF fused
    <3> QED
      BY <3>1, <3>2, <3>3, <3>4, FusionFairHolds
  <2>14. IsBlend(blended, chunks)
    <3>1. all \subseteq 1..n
      BY <2>2, <2>12, RangeSmall DEF IsChannel
    <3>2. \A c \in all : rrf[c] \in Nat /\ rrf[c] > 0
      <4> HIDE DEF all
      <4> SUFFICES ASSUME NEW c \in all PROVE rrf[c] \in Nat /\ rrf[c] > 0
        OBVIOUS
      <4> DEFINE d == Retrieval!Vote(dense, c)
                 l == Retrieval!Vote(lexical, c)
      <4>1. rrf[c] = d + l
        BY DEF Retrieval!Rrf
      <4>2. d \in Nat /\ (c \in Range(dense) => d > 0)
        BY <2>2, <2>12, VotePositive
      <4>3. l \in Nat /\ (c \in Range(lexical) => l > 0)
        BY <2>2, <2>12, VotePositive
      <4>4. c \in Range(dense) \/ c \in Range(lexical)
        BY DEF all
      <4> HIDE DEF d, l, rrf
      <4> QED
        BY <4>1, <4>2, <4>3, <4>4
    <3> HIDE DEF rrf
    <3> DEFINE values == {rrf[c] : c \in all}
    <3>3. values \in SUBSET Nat /\ IsFiniteSet(values)
      <4>1. IsFiniteSet(all)
        <5> DEFINE T == 1..n
        <5>2. 1 \in Int /\ n \in Int
          BY <2>2
        <5>3. IsFiniteSet(T)
          BY <5>2, FS_Interval
        <5>1. IsFiniteSet(T) /\ all \subseteq T
          BY <3>1, <5>3
        <5> HIDE DEF T, all
        <5> QED
          BY <5>1, FS_Subset
      <4> HIDE DEF all
      <4> QED
        BY <3>2, <4>1, ImageFinite
    <3>4. ASSUME NEW c \in all
          PROVE  best \in Nat \ {0}
      <4>1. values # {} /\ rrf[c] \in values
        OBVIOUS
      <4> HIDE DEF values, all
      <4>2. Retrieval!Max(values) \in values /\ \A x \in values : x <= Retrieval!Max(values)
        BY <3>3, <4>1, MaxIs
      <4>3. Retrieval!Max(values) \in Nat /\ rrf[c] <= Retrieval!Max(values) /\ rrf[c] \in Nat
              /\ rrf[c] > 0
        BY <3>2, <3>3, <4>1, <4>2
      <4>4. Retrieval!Max(values) \in Nat \ {0}
        BY <4>3
      <4> QED
        BY <4>4 DEF values
    <3>5. Range(fused) \subseteq all
      <4>1. all \in SUBSET (1..n) /\ \A c \in all : rrf[c] \in Int
        BY <3>1, <3>2
      <4> HIDE DEF all
      <4>2. IsCutOf(fused, all, m)
        BY <2>2, <2>4, <4>1, ScoredList
      <4> HIDE DEF fused
      <4> QED
        BY <4>2, RangeSmall DEF IsCutOf
    <3> HIDE DEF all, fused, best
    <3>6. ASSUME NEW c \in Range(fused)
          PROVE  c \in DOMAIN chunks /\ IsScore(blended[c])
      <4>1. c \in all /\ c \in DOMAIN chunks
        BY <2>2, <3>1, <3>5
      <4>2. cosine[c] \in Int
        <5>1. cosine[c] = IF chunks[c].live THEN chunks[c].cosine ELSE 0
          BY <4>1 DEF cosine
        <5> QED
          BY <4>1, <5>1, ChunkParts
      <4>3. rrf[c] \in Int /\ best \in Nat \ {0}
        BY <3>2, <3>4, <4>1
      <4>4. blended[c] = Retrieval!Blend(cosine[c], rrf[c], best)
        OBVIOUS
      <4> HIDE DEF blended
      <4> QED
        BY <4>1, <4>2, <4>3, <4>4, BlendBounds
    <3> QED
      BY <3>6 DEF IsBlend
  <2>15. Retrieval!NoLeapfrog(r)
    <3> HIDE DEF r, blended
    <3>1. r.blended = blended /\ r.results = Retrieval!Cut(Retrieval!Ranked(query, chunks, blended), k)
      BY <2>1
    <3> QED
      BY <2>4, <2>14, <3>1, NoLeapfrogHolds
  <2>16. Retrieval!CommonWordsFound(query, chunks, r)
    <3> SUFFICES ASSUME n <= Pool
                 PROVE  Range(r.lexical) = {c \in DOMAIN chunks : chunks[c].known
                          /\ Retrieval!Tokens(LinesOf(chunks, c)) \cap Retrieval!Tokens(query) # {}}
      BY WordsAgree DEF Retrieval!CommonWordsFound, LinesOf, n
    <3>1. Cardinality(hits) <= n
      <4> DEFINE T == 1..n
      <4>1. 1 \in Int /\ n \in Int
        BY <2>2
      <4>2. IsFiniteSet(T) /\ Cardinality(T) = n
        BY <2>2, <4>1, FS_Interval
      <4>3. hits \in SUBSET T
        BY <2>6
      <4> HIDE DEF T
      <4>4. Cardinality(hits) <= Cardinality(T)
        BY <4>2, <4>3, FS_Subset
      <4> QED
        BY <4>2, <4>4
    <3>2. Range(raw) = hits
      BY <2>2, <2>3, <2>8, <3>1
    <3> QED
      BY <2>1, <2>6, <2>11, <3>2 DEF AllWords
  <2> QED
    BY <2>13, <2>15, <2>16
<1> QED
  BY <1>2, <1>3

-----------------------------------------------------------------------------
(* The chunks that are tried *)

\* A piece of a text of three lines at most: from one of them, or the whole.
PieceAt(lines, x) ==
    IF x = 4 THEN <<1, Len(lines)>>
    ELSE <<x, Retrieval!Min({Len(lines)} \cup
                            {t - 1 : t \in {t \in {1} \cup {i \in DOMAIN lines : lines[i].question} :
                                            t > x}})>>

LEMMA SegmentsFew ==
    ASSUME NEW W, NEW lines \in TextOf(W), Len(lines) <= 3
    PROVE  Retrieval!Segments(lines) \subseteq {PieceAt(lines, x) : x \in 1..4}
<1> DEFINE starts == {1} \cup {i \in DOMAIN lines : lines[i].question}
           span(s) == <<s, Retrieval!Min({Len(lines)} \cup {t - 1 : t \in {t \in starts : t > s}})>>
<1>1. Retrieval!Segments(lines) = {span(s) : s \in starts} \cup {<<1, Len(lines)>>}
  BY DEF Retrieval!Segments
<1>2. \A s \in starts : s \in 1..3
  <2>1. DOMAIN lines = 1..Len(lines) /\ Len(lines) \in Nat
    BY DEF TextOf
  <2> QED
    BY <2>1
<1>3. \A s \in 1..3 : span(s) = PieceAt(lines, s)
  <2> TAKE s \in 1..3
  <2>1. s # 4
    OBVIOUS
  <2> QED
    BY <2>1 DEF PieceAt
<1>4. <<1, Len(lines)>> = PieceAt(lines, 4)
  BY DEF PieceAt
<1>5. 4 \in 1..4 /\ \A s \in 1..3 : s \in 1..4
  OBVIOUS
<1> HIDE DEF starts, span
<1>6. \A s \in starts : span(s) \in {PieceAt(lines, x) : x \in 1..4}
  BY <1>2, <1>3, <1>5
<1>7. <<1, Len(lines)>> \in {PieceAt(lines, x) : x \in 1..4}
  BY <1>4, <1>5
<1> QED
  BY <1>1, <1>6, <1>7

\* So few lines of so few chunks make twelve pieces at most.
LEMMA IndexSmall ==
    ASSUME NEW W, NEW chunks \in Seq(ChunkOf(W)), Len(chunks) <= 3,
           \A c \in DOMAIN chunks : Len(LinesOf(chunks, c)) <= 3
    PROVE  Cardinality(Retrieval!Index(chunks)) <= 12
<1> DEFINE P == (1..3) \X (1..4)
           item == [p \in P |-> [chunk |-> p[1], span |-> PieceAt(LinesOf(chunks, p[1]), p[2])]]
           Pieces == {item[p] : p \in P}
<1>1. IsFiniteSet(P) /\ Cardinality(P) = 12
  <2>3. IsFiniteSet(1..3) /\ Cardinality(1..3) = 3
    BY UpTo
  <2>4. IsFiniteSet(1..4) /\ Cardinality(1..4) = 4
    BY UpTo
  <2>1. IsFiniteSet(1..3) /\ Cardinality(1..3) = 3 /\ IsFiniteSet(1..4) /\ Cardinality(1..4) = 4
    BY <2>3, <2>4
  <2>2. IsFiniteSet((1..3) \X (1..4)) /\ Cardinality((1..3) \X (1..4)) = 3 * 4
    BY <2>1, FS_Product
  <2> QED
    BY <2>2
<1>2. \A c \in 1..3 : \A x \in 1..4 : [chunk |-> c, span |-> PieceAt(LinesOf(chunks, c), x)] \in Pieces
  <2> TAKE c \in 1..3
  <2> TAKE x \in 1..4
  <2>1. <<c, x>> \in P /\ item[<<c, x>>] = [chunk |-> c, span |-> PieceAt(LinesOf(chunks, c), x)]
    OBVIOUS
  <2> QED
    BY <2>1
<1> HIDE DEF P, item
<1>3. IsFiniteSet(Pieces) /\ Cardinality(Pieces) <= 12
  <2> HIDE DEF Pieces
  <2> DEFINE f == [p \in P |-> item[p]]
  <2>1. f \in Surjection(P, Pieces)
    BY DEF Pieces, Surjection
  <2> HIDE DEF f
  <2>2. IsFiniteSet(Pieces) /\ Cardinality(Pieces) <= Cardinality(P)
    BY <1>1, <2>1, FS_Surjection
  <2> QED
    BY <1>1, <2>2
<1> HIDE DEF Pieces
<1>4. \A c \in DOMAIN chunks : c \in 1..3 /\ LinesOf(chunks, c) \in TextOf(W)
  <2>1. DOMAIN chunks = 1..Len(chunks) /\ Len(chunks) \in Nat
    OBVIOUS
  <2>2. \A c \in DOMAIN chunks : LinesOf(chunks, c) \in TextOf(W)
    BY ChunkParts DEF LinesOf
  <2>3. \A c \in DOMAIN chunks : c \in 1..3
    BY <2>1
  <2> QED
    BY <2>2, <2>3
<1>5. ASSUME NEW i \in Retrieval!Index(chunks)
      PROVE  i \in Pieces
  <2>1. PICK c \in DOMAIN chunks : i \in {[chunk |-> c, span |-> s] :
                                          s \in Retrieval!Segments(LinesOf(chunks, c))}
    BY <1>5 DEF Retrieval!Index, LinesOf
  <2>2. PICK s \in Retrieval!Segments(LinesOf(chunks, c)) : i = [chunk |-> c, span |-> s]
    BY <2>1
  <2>3. PICK x \in 1..4 : s = PieceAt(LinesOf(chunks, c), x)
    BY <1>4, <2>2, SegmentsFew
  <2> QED
    BY <1>2, <1>4, <2>2, <2>3
<1>6. Retrieval!Index(chunks) \in SUBSET Pieces
  BY <1>5
<1>7. Cardinality(Retrieval!Index(chunks)) <= Cardinality(Pieces)
  BY <1>3, <1>6, FS_Subset
<1>8. Cardinality(Retrieval!Index(chunks)) \in Nat /\ Cardinality(Pieces) \in Nat
  BY <1>3, <1>6, FS_Subset, FS_CardinalityType
<1> QED
  BY <1>3, <1>7, <1>8

LEMMA TriedLines ==
    /\ \A b \in Bodies : b \in TextOf(TriedWords) /\ Len(b) <= 2
    /\ \A h \in Headings : h \in TextOf(TriedWords) /\ Len(h) <= 1
    /\ \A q \in Queries : q \in TextOf(TriedWords) /\ Len(q) = 1
<1>4. \A x, y : Len(<<>>) = 0 /\ Len(<<x>>) = 1 /\ Len(<<x, y>>) = 2
  OBVIOUS
<1>5. (\A n \in {0, 1, 2} : n <= 2) /\ (\A n \in {0, 1} : n <= 1)
  OBVIOUS
<1>1. \A b \in Bodies : Len(b) <= 2
  <2> SUFFICES ASSUME NEW b \in Bodies PROVE Len(b) <= 2
    OBVIOUS
  <2>1. \/ b = <<>> \/ (\E x : b = <<x>>) \/ (\E x, y : b = <<x, y>>)
    BY DEF Bodies
  <2>2. Len(b) = 0 \/ Len(b) = 1 \/ Len(b) = 2
    BY <1>4, <2>1
  <2> QED
    BY <1>5, <2>2
<1>2. \A h \in Headings : Len(h) <= 1
  <2> SUFFICES ASSUME NEW h \in Headings PROVE Len(h) <= 1
    OBVIOUS
  <2>1. h = <<>> \/ \E x : h = <<x>>
    BY DEF Headings
  <2>2. Len(h) = 0 \/ Len(h) = 1
    BY <1>4, <2>1
  <2> QED
    BY <1>5, <2>2
<1>3. \A q \in Queries : Len(q) = 1
  <2> TAKE q \in Queries
  <2>1. \E x : q = <<x>>
    BY DEF Queries
  <2> QED
    BY <1>4, <2>1
<1> QED
  BY <1>1, <1>2, <1>3, TriedTexts

LEMMA TriedCorpora ==
    ASSUME NEW chunks \in Corpora
    PROVE  /\ chunks \in Seq(ChunkOf(TriedWords)) /\ Len(chunks) <= 3
           /\ \A c \in DOMAIN chunks : Len(LinesOf(chunks, c)) <= 3
<1> DEFINE C == ChunkOf(TriedWords)
           Few == {c \in C : Len(Retrieval!Lines(c)) <= 3}
<1>1. ASSUME NEW b \in Bodies, NEW h \in Headings, NEW i \in Int, NEW c \in Int
      PROVE  \A l, k \in BOOLEAN : Chunk(b, h, i, c, l, k) \in Few
  <2>1. /\ b \in TextOf(TriedWords) /\ Len(b) <= 2
        /\ h \in TextOf(TriedWords) /\ Len(h) <= 1
    BY TriedLines
  <2>2. \A l, k \in BOOLEAN : Chunk(b, h, i, c, l, k) \in C
    BY <2>1 DEF Chunk, ChunkOf
  <2>3. \A l, k : Retrieval!Lines(Chunk(b, h, i, c, l, k)) = h \o b
    BY DEF Retrieval!Lines, Chunk
  <2>4. Len(h \o b) <= 3
    BY <2>1 DEF TextOf
  <2> HIDE DEF C
  <2> QED
    BY <2>2, <2>3, <2>4
<1> HIDE DEF C, Few
<1> DEFINE B == {f \in [1..3 -> Bodies] : f[3] \in {<<>>, f[1]}}
           K == {f \in [1..3 -> {200, 650}] : f[3] = 200}
           Three(b, h, c, l, k) ==
               <<Chunk(b[1], h, 1, c[1], TRUE, TRUE), Chunk(b[2], <<>>, 2, c[2], l, k),
                 Chunk(b[3], <<>>, 0, c[3], TRUE, TRUE)>>
<1>2. PICK b \in B, h \in Headings, c \in K, l \in BOOLEAN, k \in BOOLEAN :
         chunks = Three(b, h, c, l, k)
  <2>1. Corpora = {Three(b, h, c, l, k) :
                     b \in B, h \in Headings, c \in K, l \in BOOLEAN, k \in BOOLEAN}
    BY DEF Corpora
  <2> HIDE DEF B, K, Three
  <2> QED
    BY <2>1
<1>3. /\ b[1] \in Bodies /\ b[2] \in Bodies /\ b[3] \in Bodies /\ <<>> \in Headings
      /\ c[1] \in Int /\ c[2] \in Int /\ c[3] \in Int
  BY DEF Headings
<1> DEFINE x == Chunk(b[1], h, 1, c[1], TRUE, TRUE)
           y == Chunk(b[2], <<>>, 2, c[2], l, k)
           z == Chunk(b[3], <<>>, 0, c[3], TRUE, TRUE)
<1>4. x \in Few /\ y \in Few /\ z \in Few /\ chunks = <<x, y, z>>
  <2>1. chunks = <<x, y, z>>
    BY <1>2
  <2>3. x \in Few
    <3> DEFINE p == b[1]
               q == c[1]
               e == h
               n == 1
               s == TRUE
               u == TRUE
    <3>1. p \in Bodies /\ q \in Int /\ e \in Headings /\ n \in Int /\ s \in BOOLEAN /\ u \in BOOLEAN
      BY <1>2, <1>3
    <3> HIDE DEF p, q, e, n, s, u
    <3>2. Chunk(p, e, n, q, s, u) \in Few
      BY <1>1, <3>1
    <3> QED
      BY <3>2 DEF x, p, q, e, n, s, u
  <2>4. y \in Few
    <3> DEFINE p == b[2]
               q == c[2]
               e == <<>>
               n == 2
               s == l
               u == k
    <3>1. p \in Bodies /\ q \in Int /\ e \in Headings /\ n \in Int /\ s \in BOOLEAN /\ u \in BOOLEAN
      BY <1>2, <1>3
    <3> HIDE DEF p, q, e, n, s, u
    <3>2. Chunk(p, e, n, q, s, u) \in Few
      BY <1>1, <3>1
    <3> QED
      BY <3>2 DEF y, p, q, e, n, s, u
  <2>5. z \in Few
    <3> DEFINE p == b[3]
               q == c[3]
               e == <<>>
               n == 0
               s == TRUE
               u == TRUE
    <3>1. p \in Bodies /\ q \in Int /\ e \in Headings /\ n \in Int /\ s \in BOOLEAN /\ u \in BOOLEAN
      BY <1>2, <1>3
    <3> HIDE DEF p, q, e, n, s, u
    <3>2. Chunk(p, e, n, q, s, u) \in Few
      BY <1>1, <3>1
    <3> QED
      BY <3>2 DEF z, p, q, e, n, s, u
  <2> QED
    BY <2>1, <2>3, <2>4, <2>5
<1> HIDE DEF x, y, z
<1>5. chunks \in Seq(Few) /\ Len(chunks) = 3
  BY <1>4
<1>6. \A i \in DOMAIN chunks : chunks[i] \in Few
  <2>1. DOMAIN chunks = 1..3 /\ chunks[1] = x /\ chunks[2] = y /\ chunks[3] = z
    BY <1>4
  <2>2. \A i \in 1..3 : i = 1 \/ i = 2 \/ i = 3
    OBVIOUS
  <2> QED
    BY <1>4, <2>1, <2>2
<1>7. chunks \in Seq(C)
  <2>1. Few \subseteq C
    BY DEF Few
  <2> QED
    BY <1>5, <2>1, SequencesOfMore
<1> QED
  BY <1>5, <1>6, <1>7 DEF C, Few, LinesOf

\* Retrieval: so it is for those.
LEMMA TriedRetrieval ==
    ASSUME NEW i \in RetrievalInputs
    PROVE  LET r == Retrieval!Retrieve(i.query, i.chunks, i.topK)
           IN  /\ Retrieval!CommonWordsFound(i.query, i.chunks, r)
               /\ Retrieval!FusionFair(r) /\ Retrieval!NoLeapfrog(r)
<1>1. i.query \in Queries /\ i.chunks \in Corpora /\ i.topK \in Int
  BY DEF RetrievalInputs
<1>2. i.query \in TextOf(TriedWords) /\ Len(i.query) = 1
  BY <1>1, TriedLines
<1>3. i.chunks \in Seq(ChunkOf(TriedWords)) /\ Cardinality(Retrieval!Index(i.chunks)) <= 12
  BY <1>1, TriedCorpora, IndexSmall
<1> QED
  BY <1>1, <1>2, <1>3, RetrieveSoundHolds

-----------------------------------------------------------------------------
(* The chunk splitter *)

LEMMA AscendingLists ==
    ASSUME NEW S \in SUBSET Int, IsFiniteSet(S)
    PROVE  LET list == Text!Ascending(S)
           IN  /\ Cardinality(S) \in Nat
               /\ list \in [1..Cardinality(S) -> S]
               /\ \A x \in S : \E k \in 1..Cardinality(S) : list[k] = x
               /\ \A i, j \in 1..Cardinality(S) : i < j => list[i] < list[j]
<1> DEFINE list == Text!Ascending(S)
           R == {p \in S \X S : p[1] < p[2]}
           At(k) == CHOOSE a \in S : Cardinality({b \in S : b < a}) = k - 1
<1>1. list = [k \in 1..Cardinality(S) |-> At(k)]
  BY DEF Text!Ascending, Text!Cardinality, Cardinality
<1>2. IsOrder(R, S)
  BY DEF IsOrder
<1>3. \A x \in S : Behind(S, R, x) = {y \in S : y < x}
  BY DEF Behind
<1>4. IsRow(list, S, R)
  <2>1. list = [k \in 1..Cardinality(S) |-> list[k]]
    <3> HIDE DEF At, list
    <3> QED
      BY <1>1
  <2>2. ASSUME NEW k \in 1..Cardinality(S), NEW x \in S, Cardinality(Behind(S, R, x)) = k - 1
        PROVE  list[k] \in S /\ Cardinality(Behind(S, R, list[k])) = k - 1
    <3>1. Cardinality({y \in S : y < x}) = k - 1
      BY <1>3, <2>2
    <3>2. At(k) \in S /\ Cardinality({y \in S : y < At(k)}) = k - 1
      BY <3>1
    <3> HIDE DEF At, list, R
    <3> QED
      BY <1>1, <1>3, <3>2
  <2> HIDE DEF list, R
  <2> QED
    BY <2>1, <2>2 DEF IsRow
<1> HIDE DEF list, At
<1>5. /\ Cardinality(S) \in Nat
      /\ list \in [1..Cardinality(S) -> S]
      /\ \A x \in S : \E k \in 1..Cardinality(S) : list[k] = x
      /\ \A i, j \in 1..Cardinality(S) : i < j => <<list[i], list[j]>> \in R
  <2> HIDE DEF R
  <2> QED
    BY <1>2, <1>4, RowSorts
<1>6. \A i, j \in 1..Cardinality(S) : i < j => list[i] < list[j]
  BY <1>5
<1> QED
  BY <1>5, <1>6 DEF list

\* A list of intervals of 0 .. n - 1 that are not empty, in order.
SpansOf(n) == {s \in (0..n) \X (0..n) : s[1] < s[2]}
InOrder(list) == \A i, j \in DOMAIN list : i < j => list[i][2] <= list[j][1]
Covered(S, list) == \A p \in S : \E i \in DOMAIN list : list[i][1] <= p /\ p < list[i][2]

LEMMA EndIs ==
    ASSUME NEW n \in Nat, NEW S \in SUBSET (0..n - 1), NEW a \in S
    PROVE  /\ Text!EndOf(S, a) \in a + 1..n /\ Text!EndOf(S, a) \notin S
           /\ a..Text!EndOf(S, a) - 1 \subseteq S
<1> DEFINE Beyond == {b \in Nat : b > a /\ b \notin S}
           b == Text!EndOf(S, a)
<1>1. n \in Beyond
  OBVIOUS
<1>2. PICK m \in Beyond : \A b1 \in Beyond : m <= b1
  <2>1. Beyond \in SUBSET Nat /\ Beyond # {}
    BY <1>1
  <2> HIDE DEF Beyond
  <2> QED
    BY <2>1, LeastNumber
<1>3. a..m - 1 \subseteq S
  <2> SUFFICES ASSUME NEW p \in a..m - 1, p \notin S
               PROVE  FALSE
    OBVIOUS
  <2>1. p \in Beyond /\ p < m
    BY <1>2
  <2> QED
    BY <1>2, <2>1
<1>4. m \in {p + 1 : p \in S} /\ m > a /\ m \notin S
  <2>1. m - 1 \in S /\ (m - 1) + 1 = m
    BY <1>2, <1>3
  <2> QED
    BY <1>2, <2>1
<1>5. b \in {p + 1 : p \in S} /\ b > a /\ b \notin S /\ a..b - 1 \subseteq S
  BY <1>3, <1>4 DEF Text!EndOf
<1> HIDE DEF b
<1> QED
  BY <1>5 DEF b

LEMMA StretchesAre ==
    ASSUME NEW n \in Nat, NEW S \in SUBSET (0..n - 1)
    PROVE  LET list == Text!Stretches(S)
           IN  /\ list \in Seq(SpansOf(n)) /\ InOrder(list) /\ Covered(S, list)
               /\ \A i \in DOMAIN list : /\ list[i][1]..list[i][2] - 1 \subseteq S
                                          /\ list[i][1] - 1 \notin S /\ list[i][2] \notin S
<1> DEFINE A == {p \in S : p - 1 \notin S}
           starts == Text!Ascending(A)
           m == Cardinality(A)
           list == Text!Stretches(S)
<1>1. A \in SUBSET Int /\ IsFiniteSet(A)
  <2>1. A \in SUBSET (0..n - 1)
    OBVIOUS
  <2>2. IsFiniteSet(0..n - 1)
    <3>1. 0 \in Int /\ n - 1 \in Int
      OBVIOUS
    <3> QED
      BY <3>1, FS_Interval
  <2> QED
    BY <2>1, <2>2, FS_Subset
<1>2. /\ m \in Nat /\ starts \in [1..m -> A]
      /\ \A x \in A : \E k \in 1..m : starts[k] = x
      /\ \A i, j \in 1..m : i < j => starts[i] < starts[j]
  <2> HIDE DEF A
  <2> QED
    BY <1>1, AscendingLists
<1>3. list = [k \in 1..m |-> <<starts[k], Text!EndOf(S, starts[k])>>]
  <2>1. list = [k \in DOMAIN starts |-> <<starts[k], Text!EndOf(S, starts[k])>>]
    BY DEF Text!Stretches
  <2> HIDE DEF starts, m, list
  <2> QED
    BY <1>2, <2>1
<1>4. \A k \in 1..m : starts[k] \in S /\ starts[k] - 1 \notin S /\ starts[k] \in 0..n - 1
  BY <1>2
<1> HIDE DEF A, starts, m, list
<1>5. \A k \in 1..m : /\ list[k][1] = starts[k] /\ list[k][2] \in starts[k] + 1..n
                      /\ list[k][2] \notin S /\ starts[k]..list[k][2] - 1 \subseteq S
                      /\ list[k] = <<starts[k], list[k][2]>>
  BY <1>3, <1>4, EndIs
<1>6. \A k \in 1..m : list[k] \in SpansOf(n)
  <2> TAKE k \in 1..m
  <2>1. starts[k] \in 0..n /\ list[k][2] \in 0..n /\ starts[k] < list[k][2]
    BY <1>4, <1>5
  <2> QED
    BY <1>5, <2>1 DEF SpansOf
<1>7. list \in Seq(SpansOf(n)) /\ DOMAIN list = 1..m
  <2>1. list \in [1..m -> SpansOf(n)]
    BY <1>3, <1>6
  <2> QED
    BY <1>2, <2>1
<1>8. ASSUME NEW i \in 1..m, NEW j \in 1..m, i < j
      PROVE  list[i][2] <= list[j][1]
  <2> SUFFICES ASSUME list[j][1] < list[i][2]
               PROVE  FALSE
    BY <1>4, <1>5
  <2>1. starts[i] < starts[j] /\ starts[i] \in Int /\ starts[j] \in Int
    BY <1>2, <1>4, <1>8
  <2>2. starts[j] - 1 \in starts[i]..list[i][2] - 1
    BY <1>5, <2>1
  <2> QED
    BY <1>4, <1>5, <2>2
<1>9. ASSUME NEW p \in S
      PROVE  \E i \in 1..m : list[i][1] <= p /\ p < list[i][2]
  <2> DEFINE From == {a \in 0..p : a..p \subseteq S}
  <2>1. p \in From
    OBVIOUS
  <2>2. PICK a \in From : \A b \in From : a <= b
    <3>1. From \in SUBSET Nat /\ From # {}
      BY <2>1
    <3> HIDE DEF From
    <3> QED
      BY <3>1, LeastNumber
  <2>3. a \in S /\ a - 1 \notin S
    <3>1. a \in S
      BY <2>2
    <3>2. ASSUME a - 1 \in S
          PROVE  FALSE
      <4>1. a - 1 \in 0..p
        BY <2>2, <3>2
      <4>2. (a - 1)..p \subseteq S
        BY <2>2, <3>2
      <4>3. a - 1 \in From
        BY <4>1, <4>2
      <4> QED
        BY <2>2, <4>3
    <3> QED
      BY <3>1, <3>2
  <2>4. PICK k \in 1..m : starts[k] = a
    BY <1>2, <2>3 DEF A
  <2>5. p < list[k][2]
    <3> SUFFICES ASSUME list[k][2] <= p
                 PROVE  FALSE
      BY <1>5
    <3>1. list[k][2] \in a..p
      BY <1>5, <2>4
    <3> QED
      BY <1>5, <2>2, <3>1
  <2> QED
    BY <1>5, <2>2, <2>4, <2>5
<1> QED
  BY <1>4, <1>5, <1>7, <1>8, <1>9 DEF InOrder, Covered, list

\* The characters that are not white space.
Ink(text) == {p \in DOMAIN text : text[p] \notin Text!White}

LEMMA LeastAndGreatest ==
    ASSUME NEW S \in SUBSET Int, IsFiniteSet(S), S # {}
    PROVE  /\ Text!Max(S) \in S /\ \A x \in S : x <= Text!Max(S)
           /\ Text!Min(S) \in S /\ \A x \in S : Text!Min(S) <= x
<1> DEFINE list == Text!Ascending(S)
           m == Cardinality(S)
<1>1. /\ m \in Nat /\ list \in [1..m -> S]
      /\ \A x \in S : \E k \in 1..m : list[k] = x
      /\ \A i, j \in 1..m : i < j => list[i] < list[j]
  BY AscendingLists
<1> HIDE DEF list, m
<1>2. 1 \in 1..m /\ m \in 1..m
  <2>1. PICK k \in 1..m : TRUE
    BY <1>1
  <2> QED
    BY <1>1, <2>1
<1>3. \A k \in 1..m : list[1] <= list[k] /\ list[k] <= list[m]
  <2> TAKE k \in 1..m
  <2>1. list[1] \in Int /\ list[k] \in Int /\ list[m] \in Int
    BY <1>1, <1>2
  <2>2. k = 1 \/ list[1] < list[k]
    BY <1>1, <1>2
  <2>3. k = m \/ list[k] < list[m]
    BY <1>1, <1>2
  <2> QED
    BY <2>1, <2>2, <2>3
<1>4. \E y \in S : \A x \in S : y >= x
  <2>1. \A x \in S : list[m] >= x
    BY <1>1, <1>2, <1>3
  <2> QED
    BY <1>1, <1>2, <2>1
<1>5. \E y \in S : \A x \in S : y <= x
  BY <1>1, <1>2, <1>3
<1>6. Text!Max(S) \in S /\ \A x \in S : Text!Max(S) >= x
  BY <1>4 DEF Text!Max
<1>7. Text!Min(S) \in S /\ \A x \in S : Text!Min(S) <= x
  BY <1>5 DEF Text!Min
<1> QED
  BY <1>6, <1>7

LEMMA TrimIs ==
    ASSUME NEW n \in Nat, NEW C, NEW text \in [0..n - 1 -> C], NEW s \in 0..n, NEW e \in 0..n
    PROVE  LET t == Text!Trim(text, s, e)
           IN  /\ t \in (0..n) \X (0..n)
               /\ Ink(text) \cap (s..e - 1) = {} => t = <<e, e>>
               /\ Ink(text) \cap (s..e - 1) # {} =>
                     /\ s <= t[1] /\ t[1] < t[2] /\ t[2] <= e
                     /\ t[1] \in Ink(text) /\ t[2] - 1 \in Ink(text)
                     /\ \A p \in Ink(text) \cap (s..e - 1) : t[1] <= p /\ p < t[2]
<1> DEFINE inked == {p \in s..e - 1 : text[p] \notin Text!White}
           t == Text!Trim(text, s, e)
<1>1. inked = Ink(text) \cap (s..e - 1)
  BY DEF Ink
<1>2. t = IF inked = {} THEN <<e, e>> ELSE <<Text!Min(inked), Text!Max(inked) + 1>>
  BY DEF Text!Trim
<1>3. inked \in SUBSET (s..e - 1) /\ inked \in SUBSET Int /\ IsFiniteSet(inked)
  <2>1. inked \in SUBSET (s..e - 1) /\ s \in Int /\ e - 1 \in Int
    OBVIOUS
  <2>2. IsFiniteSet(s..e - 1)
    BY <2>1, FS_Interval
  <2> QED
    BY <2>1, <2>2, FS_Subset
<1> HIDE DEF inked, t
<1>4. CASE inked = {}
  BY <1>1, <1>2, <1>4 DEF t
<1>5. CASE inked # {}
  <2>1. /\ Text!Max(inked) \in inked /\ \A x \in inked : x <= Text!Max(inked)
        /\ Text!Min(inked) \in inked /\ \A x \in inked : Text!Min(inked) <= x
    BY <1>3, <1>5, LeastAndGreatest
  <2>2. t[1] = Text!Min(inked) /\ t[2] = Text!Max(inked) + 1 /\ t = <<t[1], t[2]>>
    BY <1>2, <1>5
  <2>3. t[1] \in s..e - 1 /\ t[2] - 1 \in s..e - 1 /\ t[1] \in inked /\ t[2] - 1 \in inked
    BY <1>3, <2>1, <2>2
  <2>4. \A p \in inked : t[1] <= p /\ p < t[2]
    BY <1>3, <2>1, <2>2
  <2>5. t[1] <= t[2] - 1
    BY <2>3, <2>4
  <2>6. t[1] \in 0..n /\ t[2] \in 0..n
    <3>1. \A p \in s..e - 1 : p \in 0..n /\ p + 1 \in 0..n /\ s <= p /\ p + 1 <= e
      OBVIOUS
    <3> DEFINE last == t[2] - 1
    <3>2. t[1] \in s..e - 1 /\ last \in s..e - 1 /\ t[2] \in Int
      BY <2>3, <1>3, <2>1, <2>2
    <3> HIDE DEF last
    <3>3. t[1] \in 0..n /\ last + 1 \in 0..n
      BY <3>1, <3>2
    <3> QED
      BY <3>2, <3>3 DEF last
  <2>7. t[1] \in Int /\ t[2] \in Int /\ s <= t[1] /\ t[1] < t[2] /\ t[2] <= e
    BY <2>3, <2>5, <2>6
  <2>8. t \in (0..n) \X (0..n)
    BY <2>2, <2>6
  <2>9. t[1] \in Ink(text) /\ t[2] - 1 \in Ink(text)
        /\ \A p \in Ink(text) \cap (s..e - 1) : t[1] <= p /\ p < t[2]
    BY <1>1, <2>3, <2>4
  <2> QED
    BY <1>1, <1>5, <2>7, <2>8, <2>9 DEF t
<1> QED
  BY <1>4, <1>5

LEMMA LinesAre ==
    ASSUME NEW n \in Nat, NEW C, NEW text \in [0..n - 1 -> C], NEW block \in SpansOf(n)
    PROVE  LET lines == Text!Lines(text, block)
           IN  /\ lines \in Seq(SpansOf(n)) /\ InOrder(lines)
               /\ Covered(Ink(text) \cap (block[1]..block[2] - 1), lines)
               /\ \A i \in DOMAIN lines :
                     /\ block[1] <= lines[i][1] /\ lines[i][2] <= block[2]
                     /\ \E p \in Ink(text) : lines[i][1] <= p /\ p < lines[i][2]
<1> DEFINE positions == block[1]..block[2] - 1
           SameLine(p, q) == \A r \in (p..q) \cup (q..p) : text[r] # "newline"
           S == {p \in positions : \E q \in positions : text[q] \notin Text!White /\ SameLine(p, q)}
           lines == Text!Lines(text, block)
<1>1. block[1] \in 0..n /\ block[2] \in 0..n /\ block[1] < block[2] /\ positions \subseteq 0..n - 1
  BY DEF SpansOf
<1>2. lines = Text!Stretches(S)
  BY DEF Text!Lines
<1>3. S \in SUBSET (0..n - 1) /\ S \subseteq positions
  BY <1>1
<1> HIDE DEF lines, S
<1>4. /\ lines \in Seq(SpansOf(n)) /\ InOrder(lines) /\ Covered(S, lines)
      /\ \A i \in DOMAIN lines : /\ lines[i][1]..lines[i][2] - 1 \subseteq S
                                 /\ lines[i][1] - 1 \notin S /\ lines[i][2] \notin S
  BY <1>2, <1>3, StretchesAre
<1>5. Ink(text) \cap positions \subseteq S
  <2> SUFFICES ASSUME NEW p \in Ink(text) \cap positions
               PROVE  p \in S
    OBVIOUS
  <2>1. p \in Int /\ p \in positions /\ text[p] \notin Text!White /\ text[p] # "newline"
    BY <1>1 DEF Ink, Text!White
  <2>2. SameLine(p, p)
    BY <2>1
  <2> QED
    BY <2>1, <2>2 DEF S
<1>6. \A i \in DOMAIN lines : /\ lines[i][1] \in 0..n /\ lines[i][2] \in 0..n
                              /\ lines[i][1] < lines[i][2]
  <2> SUFFICES ASSUME NEW i \in DOMAIN lines
               PROVE  /\ lines[i][1] \in 0..n /\ lines[i][2] \in 0..n
                      /\ lines[i][1] < lines[i][2]
    OBVIOUS
  <2>1. lines[i] \in SpansOf(n)
    BY <1>4
  <2> QED
    BY <2>1 DEF SpansOf
<1>7. ASSUME NEW i \in DOMAIN lines
      PROVE  /\ block[1] <= lines[i][1] /\ lines[i][2] <= block[2]
             /\ \E p \in Ink(text) : lines[i][1] <= p /\ p < lines[i][2]
  <2> DEFINE a == lines[i][1]
             b == lines[i][2]
  <2>1. /\ a \in Int /\ b \in Int /\ a < b /\ a \in S /\ b - 1 \in S
        /\ a..b - 1 \subseteq S /\ a - 1 \notin S /\ b \notin S
    <3>1. a \in Int /\ b \in Int /\ a < b
      BY <1>6
    <3>2. a..b - 1 \subseteq S /\ a - 1 \notin S /\ b \notin S
      BY <1>4
    <3> HIDE DEF a, b
    <3>3. a \in a..b - 1 /\ b - 1 \in a..b - 1
      BY <3>1
    <3> QED
      BY <3>1, <3>2, <3>3
  <2> HIDE DEF a, b
  <2>2. PICK q \in positions : text[q] \notin Text!White /\ SameLine(a, q)
    BY <2>1 DEF S
  <2>3. \A r \in (a..q) \cup (q..a) : r \in S
    <3> SUFFICES ASSUME NEW r \in (a..q) \cup (q..a)
                 PROVE  r \in S
      OBVIOUS
    <3>1. r \in positions
      BY <1>1, <1>3, <2>1
    <3>2. SameLine(r, q)
      BY <1>1, <2>1, <2>2
    <3> QED
      BY <2>2, <3>1, <3>2 DEF S
  <2>4. q \in Int
    BY <1>1
  <2>5. a <= q
    <3> SUFFICES ASSUME q < a
                 PROVE  FALSE
      BY <2>1, <2>4
    <3>1. a - 1 \in q..a
      BY <2>1, <2>4
    <3> QED
      BY <2>1, <2>3, <3>1
  <2>6. q < b
    <3> SUFFICES ASSUME b <= q
                 PROVE  FALSE
      BY <2>1, <2>4
    <3>1. b \in a..q
      BY <2>1, <2>4
    <3> QED
      BY <2>1, <2>3, <3>1
  <2>7. q \in Ink(text)
    BY <1>1, <2>2 DEF Ink
  <2>8. block[1] <= a /\ b <= block[2]
    BY <1>1, <1>3, <2>1
  <2> QED
    BY <2>5, <2>6, <2>7, <2>8 DEF a, b
<1>8. Covered(Ink(text) \cap positions, lines)
  BY <1>4, <1>5 DEF Covered
<1> QED
  BY <1>4, <1>7, <1>8 DEF lines

\* Units of a text, in order; those of its part from s to e.
KindsOfUnits == {"table", "list", "faq", "heading", "clause", "prose"}
UnitsOf(n) ==
    {u \in [start : 0..n, end : 0..n, kind : KindsOfUnits, paired : BOOLEAN] : u.start < u.end}
Follow(us) == \A i, j \in DOMAIN us : i < j => us[i].end <= us[j].start
Hold(S, us) == \A p \in S : \E i \in DOMAIN us : us[i].start <= p /\ p < us[i].end

AreUnits(us, text, n, s, e) ==
    /\ us \in Seq(UnitsOf(n)) /\ Follow(us)
    /\ \A i \in DOMAIN us : s <= us[i].start /\ us[i].end <= e
    /\ Hold(Ink(text) \cap (s..e - 1), us)

LEMMA UnitIs ==
    ASSUME NEW n \in Nat, NEW a \in 0..n, NEW b \in 0..n, a < b, NEW kind \in KindsOfUnits
    PROVE  LET u == Text!Unit(<<a, b>>, kind)
           IN  u \in UnitsOf(n) /\ u.start = a /\ u.end = b
BY DEF Text!Unit, UnitsOf

LEMMA KindIs == \A kinds : Text!Classify(kinds) \in KindsOfUnits
BY DEF Text!Classify, KindsOfUnits

LEMMA UnitsOfBlockAre ==
    ASSUME NEW n \in Nat, NEW C, NEW text \in [0..n - 1 -> C], NEW block \in SpansOf(n)
    PROVE  AreUnits(Text!UnitsOfBlock(text, block), text, n, block[1], block[2])
<1> DEFINE lines == Text!Lines(text, block)
           kinds == [i \in DOMAIN lines |-> Text!LineKind(text, lines[i])]
           titled == kinds[1] \in Text!Headings /\ \E i \in DOMAIN kinds : kinds[i] \notin Text!Items
           s == block[1]
           e == block[2]
           whole == Text!Trim(text, s, e)
           us == Text!UnitsOfBlock(text, block)
           head == Text!Trim(text, lines[1][1], lines[1][2])
           rest == Text!Trim(text, lines[2][1], whole[2])
           S == Ink(text) \cap (s..e - 1)
<1>1. s \in 0..n /\ e \in 0..n /\ s < e
  BY DEF SpansOf
<1>2. us = IF lines = <<>> THEN <<>>
           ELSE IF Len(lines) >= 2 /\ titled
           THEN <<Text!Unit(head, "heading"), Text!Unit(rest, Text!Classify(Tail(kinds)))>>
           ELSE <<Text!Unit(whole, Text!Classify(kinds))>>
  BY DEF Text!UnitsOfBlock
<1> HIDE DEF lines, kinds, titled, us, s, e
<1>3. /\ lines \in Seq(SpansOf(n)) /\ InOrder(lines) /\ Covered(S, lines)
      /\ \A i \in DOMAIN lines :
            /\ s <= lines[i][1] /\ lines[i][2] <= e
            /\ \E p \in Ink(text) : lines[i][1] <= p /\ p < lines[i][2]
  BY LinesAre DEF lines, s, e
<1>4. \A i \in DOMAIN lines : /\ lines[i][1] \in 0..n /\ lines[i][2] \in 0..n
                              /\ lines[i][1] < lines[i][2]
  <2> SUFFICES ASSUME NEW i \in DOMAIN lines
               PROVE  /\ lines[i][1] \in 0..n /\ lines[i][2] \in 0..n
                      /\ lines[i][1] < lines[i][2]
    OBVIOUS
  <2>1. lines[i] \in SpansOf(n)
    BY <1>3
  <2> QED
    BY <2>1 DEF SpansOf
<1>5. \A p \in Ink(text) : p \in 0..n - 1
  BY DEF Ink
<1>6. CASE lines = <<>>
  <2>1. us = <<>> /\ S = {}
    BY <1>2, <1>3, <1>6 DEF Covered
  <2>2. us \in Seq(UnitsOf(n)) /\ DOMAIN us = {}
    BY <2>1
  <2> QED
    BY <2>1, <2>2 DEF AreUnits, Follow, Hold, us, s, e
<1>7. CASE lines # <<>>
  <2>1. 1 \in DOMAIN lines
    BY <1>3, <1>7
  <2>2. \A i \in DOMAIN lines : \E p \in S : lines[i][1] <= p /\ p < lines[i][2]
    <3> TAKE i \in DOMAIN lines
    <3>1. PICK p \in Ink(text) : lines[i][1] <= p /\ p < lines[i][2]
      BY <1>3
    <3>2. p \in s..e - 1
      BY <1>1, <1>3, <1>4, <1>5, <3>1
    <3> QED
      BY <3>1, <3>2
  <2>3. S # {}
    BY <2>1, <2>2
  <2>4. /\ whole \in (0..n) \X (0..n) /\ s <= whole[1] /\ whole[1] < whole[2] /\ whole[2] <= e
        /\ \A p \in S : whole[1] <= p /\ p < whole[2]
    BY <1>1, <2>3, TrimIs
  <2>5. whole[1] \in 0..n /\ whole[2] \in 0..n /\ whole = <<whole[1], whole[2]>>
    BY <2>4
  <2> HIDE DEF whole
  <2>6. CASE Len(lines) >= 2 /\ titled
    <3> DEFINE u == Text!Unit(head, "heading")
               v == Text!Unit(rest, Text!Classify(Tail(kinds)))
               l == lines[2][1]
    <3>1. us = <<u, v>>
      BY <1>2, <1>7, <2>6
    <3>2. 2 \in DOMAIN lines /\ lines[1][2] <= l /\ l \in 0..n
      BY <1>3, <1>4, <2>1, <2>6 DEF InOrder
    <3>3. PICK p \in S : lines[1][1] <= p /\ p < lines[1][2]
      BY <2>1, <2>2
    <3>4. PICK q \in S : l <= q /\ q < lines[2][2]
      BY <2>2, <3>2
    <3> HIDE DEF l
    <3>5. lines[1][1] \in 0..n /\ lines[1][2] \in 0..n /\ s <= lines[1][1] /\ p \in Int /\ q \in Int
      BY <1>3, <1>4, <1>5, <2>1
    <3>6. p \in Ink(text) \cap (lines[1][1]..lines[1][2] - 1)
      BY <3>3, <3>5
    <3>7. /\ head \in (0..n) \X (0..n) /\ lines[1][1] <= head[1] /\ head[1] < head[2]
          /\ head[2] <= lines[1][2]
          /\ \A r \in Ink(text) \cap (lines[1][1]..lines[1][2] - 1) : head[1] <= r /\ r < head[2]
      BY <3>5, <3>6, TrimIs
    <3>8. q \in Ink(text) \cap (l..whole[2] - 1)
      BY <2>4, <2>5, <3>2, <3>4, <3>5
    <3>9. /\ rest \in (0..n) \X (0..n) /\ l <= rest[1] /\ rest[1] < rest[2] /\ rest[2] <= whole[2]
          /\ \A r \in Ink(text) \cap (l..whole[2] - 1) : rest[1] <= r /\ r < rest[2]
      BY <2>5, <3>2, <3>8, TrimIs DEF l
    <3>10. /\ head[1] \in 0..n /\ head[2] \in 0..n /\ head = <<head[1], head[2]>>
           /\ rest[1] \in 0..n /\ rest[2] \in 0..n /\ rest = <<rest[1], rest[2]>>
      BY <3>7, <3>9
    <3> HIDE DEF head, rest
    <3>11. u \in UnitsOf(n) /\ u.start = head[1] /\ u.end = head[2]
      BY <3>7, <3>10, UnitIs DEF KindsOfUnits
    <3>12. v \in UnitsOf(n) /\ v.start = rest[1] /\ v.end = rest[2]
      BY <3>9, <3>10, UnitIs, KindIs
    <3> HIDE DEF u, v
    <3>13. us \in Seq(UnitsOf(n)) /\ DOMAIN us = {1, 2} /\ us[1] = u /\ us[2] = v
      BY <3>1, <3>11, <3>12
    <3>14. head[2] <= rest[1] /\ s <= head[1] /\ s <= rest[1] /\ head[2] <= e /\ rest[2] <= e
      <4>1. lines[1][2] <= e
        BY <1>3, <2>1
      <4>2. /\ s \in Int /\ e \in Int /\ l \in Int /\ head[1] \in Int /\ head[2] \in Int
            /\ rest[1] \in Int /\ rest[2] \in Int /\ lines[1][1] \in Int /\ lines[1][2] \in Int
            /\ whole[2] \in Int
        BY <1>1, <2>5, <3>2, <3>5, <3>10
      <4>3. head[2] <= rest[1]
        BY <3>2, <3>7, <3>9, <4>2
      <4>4. s <= head[1]
        BY <3>5, <3>7, <4>2
      <4>5. head[2] <= e
        BY <3>7, <4>1, <4>2
      <4>6. rest[2] <= e
        BY <2>4, <3>9, <4>2
      <4>7. s <= rest[1]
        BY <3>7, <4>2, <4>3, <4>4
      <4> QED
        BY <4>3, <4>4, <4>5, <4>6, <4>7
    <3>15. Follow(us)
      BY <3>11, <3>12, <3>13, <3>14 DEF Follow
    <3>16. ASSUME NEW r \in S
           PROVE  \E i \in DOMAIN us : us[i].start <= r /\ r < us[i].end
      <4>1. r \in Int /\ r < whole[2]
        BY <1>5, <2>4
      <4>2. PICK i \in DOMAIN lines : lines[i][1] <= r /\ r < lines[i][2]
        BY <1>3 DEF Covered
      <4>3. CASE i = 1
        <5>1. head[1] <= r /\ r < head[2]
          BY <3>5, <3>7, <4>1, <4>2, <4>3
        <5> QED
          BY <3>11, <3>13, <5>1
      <4>4. CASE i # 1
        <5>1. l <= lines[i][1]
          <6>1. i = 2 \/ 2 < i
            BY <1>3, <4>4
          <6>2. 2 < i => lines[2][2] <= lines[i][1]
            BY <1>3, <3>2 DEF InOrder
          <6>3. l <= lines[2][2] /\ l \in Int /\ lines[2][2] \in Int /\ lines[i][1] \in Int
            BY <1>4, <3>2 DEF l
          <6> QED
            BY <6>1, <6>2, <6>3 DEF l
        <5>2. r \in l..whole[2] - 1
          BY <1>4, <2>5, <3>2, <4>1, <4>2, <5>1
        <5>3. rest[1] <= r /\ r < rest[2]
          BY <3>9, <5>2
        <5> QED
          BY <3>12, <3>13, <5>3
      <4> QED
        BY <4>3, <4>4
    <3>17. \A i \in DOMAIN us : s <= us[i].start /\ us[i].end <= e
      BY <3>11, <3>12, <3>13, <3>14
    <3> QED
      BY <3>13, <3>15, <3>16, <3>17 DEF AreUnits, Hold, us, s, e
  <2>7. CASE ~(Len(lines) >= 2 /\ titled)
    <3> DEFINE u == Text!Unit(whole, Text!Classify(kinds))
    <3>1. us = <<u>>
      BY <1>2, <1>7, <2>7
    <3>2. u \in UnitsOf(n) /\ u.start = whole[1] /\ u.end = whole[2]
      BY <2>4, <2>5, UnitIs, KindIs
    <3> HIDE DEF u
    <3>3. us \in Seq(UnitsOf(n)) /\ DOMAIN us = {1} /\ us[1] = u
      BY <3>1, <3>2
    <3>4. /\ Follow(us) /\ Hold(S, us)
          /\ \A i \in DOMAIN us : s <= us[i].start /\ us[i].end <= e
      BY <2>4, <3>2, <3>3 DEF Follow, Hold
    <3> QED
      BY <3>3, <3>4 DEF AreUnits, us, s, e
  <2> QED
    BY <2>6, <2>7
<1> QED
  BY <1>6, <1>7

-----------------------------------------------------------------------------
(* What is computed step by step *)

\* What holds at the beginning, and after each step if before it, holds to the end.
LEMMA StepByStep ==
    ASSUME NEW n \in Nat, NEW P, 0 \in P, \A i \in 1..n : i - 1 \in P => i \in P
    PROVE  \A i \in 0..n : i \in P
<1> DEFINE Bad == {i \in 0..n : i \notin P}
<1> SUFFICES ASSUME Bad # {} PROVE FALSE
  OBVIOUS
<1>1. PICK m \in Bad : \A i \in Bad : m <= i
  <2>1. Bad \in SUBSET Nat
    OBVIOUS
  <2> HIDE DEF Bad
  <2> QED
    BY <2>1, LeastNumber
<1>2. m \in 1..n /\ m - 1 \in 0..n /\ m - 1 \notin Bad
  BY <1>1
<1> QED
  BY <1>1, <1>2

\* A list of steps can be taken.
Takes(f, n, B, b0, G) ==
    f \in [0..n -> B] /\ f[0] = b0 /\ \A i \in 1..n : f[i] = G[i][f[i - 1]]

LEMMA StepsExist ==
    ASSUME NEW n \in Nat, NEW B, NEW b0 \in B, NEW G, \A i \in 1..n : \A b \in B : G[i][b] \in B
    PROVE  \E f : Takes(f, n, B, b0, G)
<1> DEFINE P == {k \in 0..n : \E f : Takes(f, k, B, b0, G)}
<1>1. 0 \in P
  <2> DEFINE f == [i \in 0..0 |-> b0]
  <2>1. Takes(f, 0, B, b0, G)
    BY DEF Takes
  <2>2. 0 \in 0..n
    OBVIOUS
  <2> HIDE DEF f
  <2> QED
    BY <2>1, <2>2
<1>2. ASSUME NEW m \in 1..n, m - 1 \in P
      PROVE  m \in P
  <2>1. PICK f : Takes(f, m - 1, B, b0, G)
    BY <1>2
  <2> DEFINE h == [i \in 0..m |-> IF i = m THEN G[m][f[m - 1]] ELSE f[i]]
  <2>2. f[m - 1] \in B /\ G[m][f[m - 1]] \in B
    BY <2>1 DEF Takes
  <2>3. h \in [0..m -> B] /\ h[m] = G[m][f[m - 1]] /\ \A i \in 0..m - 1 : h[i] = f[i]
    BY <2>1, <2>2 DEF Takes
  <2> HIDE DEF h
  <2>4. \A i \in 1..m : h[i] = G[i][h[i - 1]]
    <3> TAKE i \in 1..m
    <3>1. i - 1 \in 0..m - 1 /\ (i = m \/ i \in 1..m - 1)
      OBVIOUS
    <3> QED
      BY <2>1, <2>3, <3>1 DEF Takes
  <2>5. h[0] = b0
    BY <2>1, <2>3 DEF Takes
  <2>6. Takes(h, m, B, b0, G)
    BY <2>3, <2>4, <2>5 DEF Takes
  <2> QED
    BY <2>6
<1> HIDE DEF P
<1>3. n \in P
  <2>1. \A i \in 0..n : i \in P
    BY <1>1, <1>2, StepByStep
  <2> QED
    BY <2>1
<1> QED
  BY <1>3 DEF P

\* The lists of a list, one after the other.
Flattens(f, m, U, ss) ==
    /\ f \in [0..m -> Seq(U)] /\ f[0] = <<>> /\ Text!FlattenSeq(ss) = f[m]
    /\ \A i \in 1..m : f[i] = f[i - 1] \o ss[i]

LEMMA FlattenSteps ==
    ASSUME NEW U, NEW m \in Nat, NEW ss \in [1..m -> Seq(U)]
    PROVE  \E f : Flattens(f, m, U, ss)
<1> DEFINE Flat(F) == F = [i \in 1..m |-> IF i = 1 THEN ss[i] ELSE F[i - 1] \o ss[i]]
           F == CHOOSE F : Flat(F)
           B == Seq(U)
           G == [i \in 1..m |-> [b \in B |-> b \o ss[i]]]
<1>1. Len(ss) = m /\ ss \in Seq(Seq(U)) /\ \A i \in 1..m : ss[i] \in Seq(U)
  OBVIOUS
<1>2. Text!FlattenSeq(ss) = IF m = 0 THEN ss ELSE F[m]
  BY <1>1 DEF Text!FlattenSeq
<1>3. PICK f : f \in [0..m -> B] /\ f[0] = <<>> /\ \A i \in 1..m : f[i] = f[i - 1] \o ss[i]
  <2>1. \A i \in 1..m : \A b \in B : G[i][b] = b \o ss[i]
    OBVIOUS
  <2>2. \A i \in 1..m : \A b \in B : b \o ss[i] \in B
    BY <1>1
  <2>3. <<>> \in B
    OBVIOUS
  <2> HIDE DEF G, B
  <2>4. \A i \in 1..m : \A b \in B : G[i][b] \in B
    BY <2>1, <2>2
  <2>5. PICK f : Takes(f, m, B, <<>>, G)
    BY <2>3, <2>4, StepsExist
  <2>6. \A i \in 1..m : i - 1 \in 0..m
    OBVIOUS
  <2>7. \A i \in 1..m : f[i - 1] \in B /\ f[i] = G[i][f[i - 1]]
    BY <2>5, <2>6 DEF Takes
  <2>8. \A i \in 1..m : f[i] = f[i - 1] \o ss[i]
    BY <2>1, <2>7
  <2> QED
    BY <2>5, <2>8 DEF Takes
<1> HIDE DEF B
<1>4. CASE m = 0
  <2>1. ss = <<>>
    BY <1>1, <1>4
  <2>2. Flattens(f, m, U, ss)
    BY <1>2, <1>3, <1>4, <2>1 DEF Flattens, B
  <2> QED
    BY <2>2
<1>5. CASE m # 0
  <2>1. 1 \in 1..m /\ m \in 1..m
    BY <1>5
  <2>2. f[1] = ss[1]
    <3>1. f[1] = f[1 - 1] \o ss[1] /\ ss[1] \in Seq(U)
      BY <1>1, <1>3, <2>1
    <3>2. f[1 - 1] = <<>>
      BY <1>3
    <3> QED
      BY <3>1, <3>2
  <2> DEFINE h == [i \in 1..m |-> f[i]]
  <2>3. Flat(h)
    <3>1. \A i \in 1..m : i = 1 \/ i - 1 \in 1..m
      OBVIOUS
    <3> QED
      BY <1>3, <2>2, <3>1
  <2>4. Flat(F)
    <3> HIDE DEF Flat, h
    <3> QED
      BY <2>3
  <2> HIDE DEF F
  <2> DEFINE P == {i \in 0..m : i = 0 \/ F[i] = f[i]}
  <2>5. \A i \in 1..m : F[i] = IF i = 1 THEN ss[i] ELSE F[i - 1] \o ss[i]
    BY <2>4
  <2>6. ASSUME NEW i \in 1..m, i - 1 \in P
        PROVE  i \in P
    <3>1. CASE i = 1
      BY <2>2, <2>5, <3>1
    <3>2. CASE i # 1
      <4>1. F[i] = F[i - 1] \o ss[i]
        BY <2>5, <3>2
      <4>2. F[i - 1] = f[i - 1]
        BY <2>6, <3>2
      <4>3. f[i] = f[i - 1] \o ss[i]
        BY <1>3
      <4>4. F[i] = f[i]
        BY <4>1, <4>2, <4>3
      <4> QED
        BY <4>4
    <3> QED
      BY <3>1, <3>2
  <2>7. 0 \in P
    OBVIOUS
  <2> HIDE DEF P
  <2>8. m \in P
    <3>1. \A i \in 0..m : i \in P
      BY <2>6, <2>7, StepByStep
    <3> QED
      BY <3>1
  <2>9. F[m] = f[m]
    BY <1>5, <2>8 DEF P
  <2>10. Flattens(f, m, U, ss)
    BY <1>2, <1>3, <1>5, <2>9 DEF Flattens, B
  <2> QED
    BY <2>10
<1> QED
  BY <1>4, <1>5

\* What stands in the lists stands in the whole, and nothing else.
LEMMA FlattenHolds ==
    ASSUME NEW U, NEW m \in Nat, NEW ss \in [1..m -> Seq(U)]
    PROVE  /\ Text!FlattenSeq(ss) \in Seq(U)
           /\ \A i \in 1..m : Range(ss[i]) \subseteq Range(Text!FlattenSeq(ss))
           /\ \A x \in Range(Text!FlattenSeq(ss)) : \E i \in 1..m : x \in Range(ss[i])
<1>1. PICK f : Flattens(f, m, U, ss)
  BY FlattenSteps
<1> DEFINE P == {k \in 0..m : /\ \A i \in 1..k : Range(ss[i]) \subseteq Range(f[k])
                              /\ \A x \in Range(f[k]) : \E i \in 1..k : x \in Range(ss[i])}
<1>2. 0 \in P
  <2>1. Range(f[0]) = {}
    BY <1>1 DEF Flattens, Range
  <2> QED
    BY <2>1
<1>3. ASSUME NEW k \in 1..m, k - 1 \in P
      PROVE  k \in P
  <2>1. f[k - 1] \in Seq(U) /\ ss[k] \in Seq(U) /\ f[k] = f[k - 1] \o ss[k]
    <3>1. k - 1 \in 0..m
      OBVIOUS
    <3>2. f[k - 1] \in Seq(U)
      BY <1>1, <3>1 DEF Flattens
    <3>3. f[k] = f[k - 1] \o ss[k]
      BY <1>1 DEF Flattens
    <3> QED
      BY <3>2, <3>3
  <2>2. Range(f[k]) = Range(f[k - 1]) \cup Range(ss[k])
    BY <2>1, Concatenation
  <2>3. \A i \in 1..k : i = k \/ i \in 1..k - 1
    OBVIOUS
  <2>4. \A i \in 1..k : Range(ss[i]) \subseteq Range(f[k])
    BY <1>3, <2>2, <2>3
  <2>5. ASSUME NEW x \in Range(f[k])
        PROVE  \E i \in 1..k : x \in Range(ss[i])
    <3>1. CASE x \in Range(ss[k])
      BY <3>1
    <3>2. CASE x \in Range(f[k - 1])
      <4>1. PICK i \in 1..k - 1 : x \in Range(ss[i])
        BY <1>3, <3>2
      <4> QED
        BY <4>1
    <3> QED
      BY <2>2, <2>5, <3>1, <3>2
  <2> QED
    BY <2>4, <2>5
<1> HIDE DEF P
<1>4. m \in P
  <2>1. \A i \in 0..m : i \in P
    BY <1>2, <1>3, StepByStep
  <2> QED
    BY <2>1
<1>5. f[m] \in Seq(U) /\ Text!FlattenSeq(ss) = f[m]
  BY <1>1 DEF Flattens
<1> QED
  BY <1>4, <1>5 DEF P

-----------------------------------------------------------------------------
(* The units of a text *)

LEMMA BlocksAre ==
    ASSUME NEW n \in Nat, NEW C, NEW text \in [0..n - 1 -> C]
    PROVE  LET blocks == Text!Blocks(text)
           IN  blocks \in Seq(SpansOf(n)) /\ InOrder(blocks) /\ Covered(Ink(text), blocks)
<1> DEFINE S == (DOMAIN text) \ Text!Blank(text)
           blocks == Text!Blocks(text)
<1>1. DOMAIN text = 0..n - 1 /\ S \in SUBSET (0..n - 1)
  OBVIOUS
<1>2. \A p \in Text!Blank(text) : text[p] \in Text!White
  BY DEF Text!Blank
<1>3. blocks = Text!Stretches(S)
  BY DEF Text!Blocks
<1>4. Ink(text) \subseteq S
  BY <1>2 DEF Ink
<1> HIDE DEF S, blocks
<1>5. blocks \in Seq(SpansOf(n)) /\ InOrder(blocks) /\ Covered(S, blocks)
  BY <1>1, <1>3, StretchesAre
<1> QED
  BY <1>4, <1>5 DEF Covered, blocks

\* Two lists of units, of which the second goes on where the first ended.
LEMMA UnitsJoin ==
    ASSUME NEW n \in Nat, NEW s \in Int, NEW b \in Int, NEW c \in Int, NEW e \in Int,
           s <= b, b <= c, c <= e, NEW text, NEW us, NEW vs,
           AreUnits(us, text, n, s, b), AreUnits(vs, text, n, c, e),
           \A p \in Ink(text) : p \in Int /\ (p < c => p < b)
    PROVE  AreUnits(us \o vs, text, n, s, e)
<1> DEFINE ws == us \o vs
<1>1. us \in Seq(UnitsOf(n)) /\ vs \in Seq(UnitsOf(n))
  BY DEF AreUnits
<1>2. /\ ws \in Seq(UnitsOf(n)) /\ Len(ws) = Len(us) + Len(vs)
      /\ \A i \in 1..Len(us) : i \in 1..Len(ws) /\ ws[i] = us[i]
      /\ \A i \in 1..Len(vs) : Len(us) + i \in 1..Len(ws) /\ ws[Len(us) + i] = vs[i]
      /\ \A i \in 1..Len(ws) :
            i \in 1..Len(us) \/ (Len(us) < i /\ i - Len(us) \in 1..Len(vs)
                                   /\ ws[i] = vs[i - Len(us)])
  BY <1>1, Concatenation
<1>3. /\ Len(us) \in Nat /\ DOMAIN us = 1..Len(us) /\ Len(vs) \in Nat /\ DOMAIN vs = 1..Len(vs)
  BY <1>1
<1>4. DOMAIN ws = 1..Len(ws)
  BY <1>2
<1> HIDE DEF ws
<1>5. /\ \A i \in 1..Len(us) : us[i] \in UnitsOf(n)
      /\ \A i \in 1..Len(vs) : vs[i] \in UnitsOf(n)
  BY <1>1, <1>3
<1>6. /\ \A i \in 1..Len(us) : s <= us[i].start /\ us[i].end <= b
                               /\ us[i].start \in Int /\ us[i].end \in Int
      /\ \A i \in 1..Len(vs) : c <= vs[i].start /\ vs[i].end <= e
                               /\ vs[i].start \in Int /\ vs[i].end \in Int
  <2>1. \A u \in UnitsOf(n) : u.start \in Int /\ u.end \in Int
    BY DEF UnitsOf
  <2>2. \A i \in 1..Len(us) : s <= us[i].start /\ us[i].end <= b
    BY <1>3 DEF AreUnits
  <2>3. \A i \in 1..Len(vs) : c <= vs[i].start /\ vs[i].end <= e
    BY <1>3 DEF AreUnits
  <2> QED
    BY <1>5, <2>1, <2>2, <2>3
<1>7. Follow(ws)
  <2> SUFFICES ASSUME NEW i \in 1..Len(ws), NEW j \in 1..Len(ws), i < j
               PROVE  ws[i].end <= ws[j].start
    BY <1>4 DEF Follow
  <2>1. CASE i \in 1..Len(us) /\ j \in 1..Len(us)
    BY <1>2, <1>3, <2>1 DEF AreUnits, Follow
  <2>2. CASE i \in 1..Len(us) /\ j \notin 1..Len(us)
    <3>1. j - Len(us) \in 1..Len(vs) /\ ws[j] = vs[j - Len(us)] /\ ws[i] = us[i]
      BY <1>2, <2>2
    <3> DEFINE k == j - Len(us)
    <3>2. us[i].end <= b /\ us[i].end \in Int /\ c <= vs[k].start /\ vs[k].start \in Int
      BY <1>6, <2>2, <3>1
    <3>3. us[i].end <= vs[k].start
      <4> HIDE DEF k
      <4> QED
        BY <3>2
    <3> QED
      BY <3>1, <3>3
  <2>3. CASE i \notin 1..Len(us)
    <3>1. i - Len(us) \in 1..Len(vs) /\ ws[i] = vs[i - Len(us)] /\ Len(us) < i
      BY <1>2, <2>3
    <3>2. j \notin 1..Len(us)
      BY <1>3, <3>1
    <3>3. j - Len(us) \in 1..Len(vs) /\ ws[j] = vs[j - Len(us)]
      BY <1>2, <3>2
    <3>4. i - Len(us) < j - Len(us)
      BY <1>3
    <3> QED
      BY <1>3, <3>1, <3>3, <3>4 DEF AreUnits, Follow
  <2> QED
    BY <2>1, <2>2, <2>3
<1>8. \A i \in 1..Len(ws) : s <= ws[i].start /\ ws[i].end <= e
  <2> TAKE i \in 1..Len(ws)
  <2>1. CASE i \in 1..Len(us)
    <3>1. s <= us[i].start /\ us[i].end <= b /\ us[i].end \in Int /\ ws[i] = us[i]
      BY <1>2, <1>6, <2>1
    <3>2. us[i].end <= e
      BY <3>1
    <3> QED
      BY <3>1, <3>2
  <2>2. CASE i \notin 1..Len(us)
    <3> DEFINE k == i - Len(us)
    <3>1. k \in 1..Len(vs) /\ ws[i] = vs[k]
      BY <1>2, <2>2
    <3> HIDE DEF k
    <3>2. c <= vs[k].start /\ vs[k].start \in Int /\ vs[k].end <= e
      BY <1>6, <3>1
    <3>3. s <= vs[k].start
      BY <3>2
    <3> QED
      BY <3>1, <3>2, <3>3
  <2> QED
    BY <2>1, <2>2
<1>9. ASSUME NEW p \in Ink(text) \cap (s..e - 1)
      PROVE  \E i \in 1..Len(ws) : ws[i].start <= p /\ p < ws[i].end
  <2>1. p \in Ink(text) \cap (s..b - 1) \/ p \in Ink(text) \cap (c..e - 1)
    OBVIOUS
  <2>2. CASE p \in Ink(text) \cap (s..b - 1)
    <3>1. PICK i \in 1..Len(us) : us[i].start <= p /\ p < us[i].end
      BY <1>3, <2>2 DEF AreUnits, Hold
    <3> QED
      BY <1>2, <3>1
  <2>3. CASE p \in Ink(text) \cap (c..e - 1)
    <3>1. PICK i \in 1..Len(vs) : vs[i].start <= p /\ p < vs[i].end
      BY <1>3, <2>3 DEF AreUnits, Hold
    <3> QED
      BY <1>2, <3>1
  <2> QED
    BY <2>1, <2>2, <2>3
<1> QED
  BY <1>2, <1>4, <1>7, <1>8, <1>9 DEF AreUnits, Hold, ws

LEMMA ParagraphUnitsAre ==
    ASSUME NEW n \in Nat, NEW C, NEW text \in [0..n - 1 -> C]
    PROVE  AreUnits(Text!ParagraphUnits(text), text, n, 0, n)
<1> DEFINE blocks == Text!Blocks(text)
           m == Len(blocks)
           lists == [i \in 1..m |-> Text!UnitsOfBlock(text, blocks[i])]
           End(i) == IF i = 0 THEN 0 ELSE blocks[i][2]
<1>1. blocks \in Seq(SpansOf(n)) /\ InOrder(blocks) /\ Covered(Ink(text), blocks)
  BY BlocksAre
<1>2. m \in Nat /\ DOMAIN blocks = 1..m /\ \A i \in 1..m : blocks[i] \in SpansOf(n)
  BY <1>1
<1> HIDE DEF blocks, m
<1>3. \A i \in 1..m : /\ blocks[i][1] \in 0..n /\ blocks[i][2] \in 0..n
                      /\ blocks[i][1] < blocks[i][2]
  BY <1>2 DEF SpansOf
<1>4. \A i \in 1..m : AreUnits(lists[i], text, n, blocks[i][1], blocks[i][2])
  BY <1>2, UnitsOfBlockAre
<1>5. Text!ParagraphUnits(text) = Text!FlattenSeq(lists)
  BY <1>2 DEF Text!ParagraphUnits, blocks
<1>6. lists \in [1..m -> Seq(UnitsOf(n))]
  BY <1>4 DEF AreUnits
<1> HIDE DEF lists
<1>7. PICK f : Flattens(f, m, UnitsOf(n), lists)
  BY <1>2, <1>6, FlattenSteps
<1>8. \A p \in Ink(text) : p \in 0..n - 1
  BY DEF Ink
<1>9. \A i \in 0..m : End(i) \in 0..n
  BY <1>3
<1>10. ASSUME NEW i \in 1..m
       PROVE  End(i - 1) <= blocks[i][1] /\ \A p \in Ink(text) : p < blocks[i][1] => p < End(i - 1)
  <2>1. End(i - 1) <= blocks[i][1]
    <3>1. CASE i = 1
      BY <1>3, <3>1
    <3>2. CASE i # 1
      <4>1. i - 1 \in 1..m /\ i - 1 < i
        BY <1>2, <3>2
      <4> QED
        BY <1>1, <1>2, <4>1 DEF InOrder
    <3> QED
      BY <3>1, <3>2
  <2>2. ASSUME NEW p \in Ink(text), p < blocks[i][1]
        PROVE  p < End(i - 1)
    <3>1. PICK j \in 1..m : blocks[j][1] <= p /\ p < blocks[j][2]
      BY <1>1, <1>2 DEF Covered
    <3>2. j < i
      <4> SUFFICES ASSUME i <= j PROVE FALSE
        BY <1>2
      <4>1. i = j \/ blocks[i][2] <= blocks[j][1]
        BY <1>1, <1>2 DEF InOrder
      <4> QED
        BY <1>3, <1>8, <2>2, <3>1, <4>1
    <3>3. i - 1 \in 1..m /\ End(i - 1) = blocks[i - 1][2]
      BY <1>2, <3>2
    <3>4. j = i - 1 \/ blocks[j][2] <= blocks[i - 1][1]
      BY <1>1, <1>2, <3>2, <3>3 DEF InOrder
    <3>5. blocks[j][2] <= blocks[i - 1][2]
      BY <1>3, <3>3, <3>4
    <3> HIDE DEF End
    <3> QED
      BY <1>3, <1>8, <3>1, <3>3, <3>5
  <2> QED
    BY <2>1, <2>2
<1> DEFINE P == {i \in 0..m : AreUnits(f[i], text, n, 0, End(i))}
<1>11. 0 \in P
  <2>1. f[0] = <<>>
    BY <1>7 DEF Flattens
  <2>2. f[0] \in Seq(UnitsOf(n)) /\ DOMAIN f[0] = {}
    BY <2>1
  <2>3. Ink(text) \cap (0..0 - 1) = {}
    OBVIOUS
  <2>4. AreUnits(f[0], text, n, 0, 0)
    BY <2>2, <2>3 DEF AreUnits, Follow, Hold
  <2> QED
    BY <1>2, <2>4
<1>12. ASSUME NEW i \in 1..m, i - 1 \in P
       PROVE  i \in P
  <2>1. f[i] = f[i - 1] \o lists[i]
    BY <1>7 DEF Flattens
  <2>2. i - 1 \in 0..m /\ i \in 0..m
    BY <1>2
  <2>3. AreUnits(f[i - 1], text, n, 0, End(i - 1))
    BY <1>12
  <2>4. End(i) = blocks[i][2] /\ End(i - 1) \in 0..n
    BY <1>9, <2>2
  <2> HIDE DEF End
  <2>5. AreUnits(f[i - 1] \o lists[i], text, n, 0, blocks[i][2])
    <3> DEFINE a == End(i - 1)
               c == blocks[i][1]
               d == blocks[i][2]
    <3>1. 0 \in Int /\ a \in Int /\ c \in Int /\ d \in Int /\ 0 <= a /\ a <= c /\ c <= d
      BY <1>3, <1>10, <2>4
    <3>2. \A p \in Ink(text) : p \in Int /\ (p < c => p < a)
      BY <1>8, <1>10
    <3>3. AreUnits(f[i - 1], text, n, 0, a) /\ AreUnits(lists[i], text, n, c, d)
      BY <1>4, <2>3
    <3> HIDE DEF a, c, d
    <3>4. AreUnits(f[i - 1] \o lists[i], text, n, 0, d)
      BY <3>1, <3>2, <3>3, UnitsJoin
    <3> QED
      BY <3>4 DEF d
  <2>6. AreUnits(f[i], text, n, 0, End(i))
    BY <2>1, <2>4, <2>5
  <2> QED
    BY <2>2, <2>6
<1> HIDE DEF P
<1>13. m \in P
  <2>1. \A i \in 0..m : i \in P
    BY <1>2, <1>11, <1>12, StepByStep
  <2> QED
    BY <1>2, <2>1
<1>14. AreUnits(f[m], text, n, 0, End(m))
  BY <1>13 DEF P
<1>15. f[m] = Text!ParagraphUnits(text)
  BY <1>5, <1>7 DEF Flattens
<1>16. \A p \in Ink(text) : p < End(m)
  <2> SUFFICES ASSUME NEW p \in Ink(text)
               PROVE  p < End(m)
    OBVIOUS
  <2>1. PICK j \in 1..m : blocks[j][1] <= p /\ p < blocks[j][2]
    BY <1>1, <1>2 DEF Covered
  <2>2. m # 0 /\ m \in 1..m /\ (j = m \/ blocks[j][2] <= blocks[m][1])
    BY <1>1, <1>2 DEF InOrder
  <2> QED
    BY <1>3, <1>8, <2>1, <2>2
<1>17. End(m) \in 0..n
  BY <1>2, <1>9
<1> HIDE DEF End
<1> QED
  <2> DEFINE us == f[m]
             e == End(m)
  <2> HIDE DEF us, e
  <2>1. AreUnits(us, text, n, 0, e) /\ e \in 0..n /\ \A p \in Ink(text) : p \in 0..n - 1 /\ p < e
    BY <1>8, <1>14, <1>16, <1>17 DEF us, e
  <2>2. \A i \in DOMAIN us : us[i] \in UnitsOf(n)
    BY <2>1 DEF AreUnits
  <2>3. \A i \in DOMAIN us : 0 <= us[i].start /\ us[i].end <= n
    BY <2>2 DEF UnitsOf
  <2>4. Ink(text) \cap (0..n - 1) \subseteq Ink(text) \cap (0..e - 1)
    BY <2>1
  <2>5. AreUnits(us, text, n, 0, n)
    BY <2>1, <2>3, <2>4 DEF AreUnits, Hold
  <2> QED
    BY <1>15, <2>5 DEF us

\* Where the units before a place end: there is no ink between them and what follows.
EndAt(us, i) == IF i = 0 THEN 0 ELSE us[i].end

LEMMA UnitParts ==
    ASSUME NEW n \in Nat, NEW text, NEW us, AreUnits(us, text, n, 0, n),
           \A p \in Ink(text) : p \in 0..n - 1
    PROVE  /\ Len(us) \in Nat /\ DOMAIN us = 1..Len(us)
           /\ \A i \in 1..Len(us) :
                 /\ us[i] \in UnitsOf(n) /\ us[i].start \in 0..n /\ us[i].end \in 0..n
                 /\ us[i].start < us[i].end
           /\ \A i \in 0..Len(us) : EndAt(us, i) \in 0..n
           /\ \A i \in 1..Len(us) :
                 /\ EndAt(us, i - 1) <= us[i].start
                 /\ \A p \in Ink(text) : p < us[i].start => p < EndAt(us, i - 1)
           /\ \A p \in Ink(text) : p < EndAt(us, Len(us))
<1> DEFINE m == Len(us)
<1>1. us \in Seq(UnitsOf(n)) /\ Follow(us) /\ Hold(Ink(text), us)
  BY DEF AreUnits, Hold
<1>2. m \in Nat /\ DOMAIN us = 1..m /\ \A i \in 1..m : us[i] \in UnitsOf(n)
  BY <1>1
<1> HIDE DEF m
<1>3. \A i \in 1..m : /\ us[i].start \in 0..n /\ us[i].end \in 0..n
                      /\ us[i].start < us[i].end
  BY <1>2 DEF UnitsOf
<1>4. \A i \in 0..m : EndAt(us, i) \in 0..n
  BY <1>3 DEF EndAt
<1>5. \A p \in Ink(text) : \E j \in 1..m : us[j].start <= p /\ p < us[j].end
  BY <1>1, <1>2 DEF Hold
<1>6. \A i, j \in 1..m : i < j => us[i].end <= us[j].start
  BY <1>1, <1>2 DEF Follow
<1>7. ASSUME NEW i \in 1..m
      PROVE  EndAt(us, i - 1) <= us[i].start
  <2>1. CASE i = 1
    BY <1>3, <2>1 DEF EndAt
  <2>2. CASE i # 1
    <3>1. i - 1 \in 1..m /\ i - 1 < i
      BY <1>2, <2>2
    <3> QED
      BY <1>6, <3>1 DEF EndAt
  <2> QED
    BY <2>1, <2>2
<1>8. ASSUME NEW i \in 1..m, NEW p \in Ink(text), p < us[i].start
      PROVE  p < EndAt(us, i - 1)
  <2>1. PICK j \in 1..m : us[j].start <= p /\ p < us[j].end
    BY <1>5
  <2>2. j < i
    <3> SUFFICES ASSUME i <= j PROVE FALSE
      BY <1>2
    <3>1. i = j \/ us[i].end <= us[j].start
      BY <1>6
    <3>2. us[i].start <= us[j].start
      BY <1>3, <3>1
    <3> QED
      BY <1>3, <1>8, <2>1, <3>2
  <2>3. i - 1 \in 1..m /\ EndAt(us, i - 1) = us[i - 1].end
    BY <1>2, <2>2 DEF EndAt
  <2>4. j = i - 1 \/ us[j].end <= us[i - 1].start
    BY <1>6, <2>2, <2>3
  <2>5. us[j].end <= us[i - 1].end
    BY <1>3, <2>3, <2>4
  <2> QED
    BY <1>3, <2>1, <2>3, <2>5
<1>9. ASSUME NEW p \in Ink(text)
      PROVE  p < EndAt(us, m)
  <2>1. PICK j \in 1..m : us[j].start <= p /\ p < us[j].end
    BY <1>5
  <2>2. m \in 1..m /\ EndAt(us, m) = us[m].end /\ (j = m \/ us[j].end <= us[m].start)
    BY <1>2, <1>6 DEF EndAt
  <2>3. us[j].end <= us[m].end
    BY <1>3, <2>2
  <2> QED
    BY <1>3, <2>1, <2>2, <2>3
<1> QED
  BY <1>2, <1>3, <1>4, <1>7, <1>8, <1>9 DEF m

\* A unit that is added at the end, or to the last one.
RawUnits(n) == [start : 0..n, end : 0..n, kind : KindsOfUnits, paired : BOOLEAN]

LEMMA UnitAdded ==
    ASSUME NEW n \in Nat, NEW us \in Seq(RawUnits(n)), NEW u \in RawUnits(n)
    PROVE  LET vs == Text!AddUnit(us, u)
               m == Len(us)
           IN  /\ vs \in Seq(RawUnits(n))
               /\ \/ vs = us \o <<u>>
                  \/ /\ m \in 1..m /\ DOMAIN vs = 1..m
                     /\ vs[m].start = us[m].start /\ vs[m].end = u.end
                     /\ \A i \in 1..m : i # m => vs[i] = us[i]
<1> DEFINE vs == Text!AddUnit(us, u)
           m == Len(us)
           last == us[m]
           sameKind == u.kind \in {"list", "table"} /\ last.kind = u.kind
           answers == /\ last.kind = "faq" /\ ~ last.paired
                      /\ u.kind \in {"prose", "clause", "list", "table"}
                      /\ u.end - last.start <= MaxChars + TargetChars
           both == [start |-> last.start, end |-> u.end, kind |-> last.kind, paired |-> ~ sameKind]
<1>1. vs = IF us # <<>> /\ (sameKind \/ answers) THEN [us EXCEPT ![m] = both] ELSE Append(us, u)
  BY DEF Text!AddUnit
<1> HIDE DEF vs, answers
<1>2. CASE us # <<>> /\ (sameKind \/ answers)
  <2>1. m \in 1..m /\ DOMAIN us = 1..m /\ m \in Nat
    BY <1>2
  <2>2. last \in RawUnits(n)
    BY <2>1
  <2>3. sameKind \in BOOLEAN
    OBVIOUS
  <2> HIDE DEF sameKind
  <2>4. both \in RawUnits(n) /\ both.start = last.start /\ both.end = u.end
    <3> HIDE DEF last
    <3> QED
      BY <2>2, <2>3 DEF RawUnits
  <2> HIDE DEF both
  <2>5. vs = [us EXCEPT ![m] = both]
    BY <1>1, <1>2
  <2>6. vs \in Seq(RawUnits(n)) /\ DOMAIN vs = 1..m /\ vs[m] = both
        /\ \A i \in 1..m : i # m => vs[i] = us[i]
    <3>1. us \in [1..m -> RawUnits(n)]
      BY <2>1
    <3> HIDE DEF m
    <3>2. vs \in [1..m -> RawUnits(n)] /\ vs[m] = both /\ \A i \in 1..m : i # m => vs[i] = us[i]
      BY <2>1, <2>4, <2>5, <3>1
    <3> QED
      BY <2>1, <3>2
  <2> QED
    BY <2>1, <2>4, <2>6 DEF vs
<1>3. CASE ~(us # <<>> /\ (sameKind \/ answers))
  <2>1. vs = Append(us, u)
    BY <1>1, <1>3
  <2>2. vs \in Seq(RawUnits(n)) /\ vs = us \o <<u>>
    BY <2>1
  <2> QED
    BY <2>2 DEF vs
<1> QED
  BY <1>2, <1>3

LEMMA AddUnitKeeps ==
    ASSUME NEW n \in Nat, NEW text, NEW b \in 0..n, NEW us, AreUnits(us, text, n, 0, b),
           NEW u \in UnitsOf(n), b <= u.start,
           \A p \in Ink(text) : p \in 0..n - 1 /\ (p < u.start => p < b)
    PROVE  AreUnits(Text!AddUnit(us, u), text, n, 0, u.end)
<1> DEFINE vs == Text!AddUnit(us, u)
           m == Len(us)
<1>1. UnitsOf(n) \in SUBSET RawUnits(n)
  BY DEF UnitsOf, RawUnits
<1>2. us \in Seq(UnitsOf(n)) /\ us \in Seq(RawUnits(n)) /\ u \in RawUnits(n)
      /\ m \in Nat /\ DOMAIN us = 1..m
  BY <1>1 DEF AreUnits
<1>3. /\ vs \in Seq(RawUnits(n))
      /\ \/ vs = us \o <<u>>
         \/ /\ m \in 1..m /\ DOMAIN vs = 1..m
            /\ vs[m].start = us[m].start /\ vs[m].end = u.end
            /\ \A i \in 1..m : i # m => vs[i] = us[i]
  BY <1>2, UnitAdded
<1>4. u.start \in 0..n /\ u.end \in 0..n /\ u.start < u.end
  BY DEF UnitsOf
<1>5. \A i \in 1..m : /\ us[i] \in UnitsOf(n) /\ us[i].start \in 0..n /\ us[i].end \in 0..n
                      /\ us[i].start < us[i].end
  <2>1. \A i \in 1..m : us[i] \in UnitsOf(n)
    BY <1>2
  <2> QED
    BY <2>1 DEF UnitsOf
<1> HIDE DEF vs, m
<1>6. CASE vs = us \o <<u>>
  <2> DEFINE ws == <<u>>
             c == u.start
             e == u.end
  <2>1. ws \in Seq(UnitsOf(n)) /\ DOMAIN ws = {1} /\ ws[1] = u
    OBVIOUS
  <2> HIDE DEF ws
  <2>2. AreUnits(ws, text, n, c, e)
    <3>1. \A p \in Ink(text) \cap (c..e - 1) : c <= p /\ p < e
      BY <1>4
    <3> QED
      BY <1>4, <2>1, <3>1 DEF AreUnits, Follow, Hold
  <2>3. 0 \in Int /\ b \in Int /\ c \in Int /\ e \in Int /\ 0 <= b /\ b <= c /\ c <= e
    BY <1>4
  <2>4. \A p \in Ink(text) : p \in Int /\ (p < c => p < b)
    OBVIOUS
  <2> HIDE DEF c, e
  <2>5. AreUnits(us \o ws, text, n, 0, e)
    BY <2>2, <2>3, <2>4, UnitsJoin
  <2> QED
    BY <1>6, <2>5 DEF vs, ws, e
<1>7. CASE /\ m \in 1..m /\ DOMAIN vs = 1..m
           /\ vs[m].start = us[m].start /\ vs[m].end = u.end
           /\ \A i \in 1..m : i # m => vs[i] = us[i]
  <2>1. \A i \in 1..m : us[i].end <= b
    BY <1>2 DEF AreUnits
  <2>2. \A i \in 1..m : /\ vs[i].start = us[i].start
                        /\ i # m => vs[i].end = us[i].end
                        /\ vs[i].end \in 0..n /\ us[i].end <= vs[i].end
                        /\ vs[i].end <= u.end
    <3> TAKE i \in 1..m
    <3>1. CASE i = m
      BY <1>4, <1>5, <1>7, <2>1, <3>1
    <3>2. CASE i # m
      BY <1>4, <1>5, <1>7, <2>1, <3>2
    <3> QED
      BY <3>1, <3>2
  <2>3. vs \in Seq(UnitsOf(n))
    <3>1. \A i \in 1..m : vs[i] \in RawUnits(n)
      BY <1>3, <1>7
    <3>2. \A i \in 1..m : vs[i].start < vs[i].end
      BY <1>5, <2>2
    <3>3. \A i \in 1..m : vs[i] \in UnitsOf(n)
      BY <3>1, <3>2 DEF UnitsOf, RawUnits
    <3>4. Len(vs) = m
      BY <1>2, <1>3, <1>7
    <3> QED
      BY <1>3, <1>7, <3>3, <3>4
  <2>4. Follow(vs)
    <3> SUFFICES ASSUME NEW i \in 1..m, NEW j \in 1..m, i < j
                 PROVE  vs[i].end <= vs[j].start
      BY <1>7 DEF Follow
    <3>1. i # m
      BY <1>2
    <3>2. us[i].end <= us[j].start
      BY <1>2 DEF AreUnits, Follow
    <3> QED
      BY <2>2, <3>1, <3>2
  <2>5. \A i \in 1..m : 0 <= vs[i].start /\ vs[i].end <= u.end
    BY <1>5, <2>2
  <2>6. ASSUME NEW p \in Ink(text) \cap (0..u.end - 1)
        PROVE  \E i \in 1..m : vs[i].start <= p /\ p < vs[i].end
    <3>1. CASE p < b
      <4>1. PICK i \in 1..m : us[i].start <= p /\ p < us[i].end
        BY <1>2, <3>1 DEF AreUnits, Hold
      <4>2. vs[i].start <= p /\ p < vs[i].end
        BY <1>5, <2>2, <4>1
      <4> QED
        BY <4>2
    <3>2. CASE ~(p < b)
      <4>1. us[m].end <= b /\ us[m].start < us[m].end /\ us[m].start \in Int /\ us[m].end \in Int
        BY <1>5, <1>7, <2>1
      <4>2. vs[m].start <= p /\ p < vs[m].end
        BY <1>4, <1>7, <3>2, <4>1
      <4> QED
        BY <1>7, <4>2
    <3> QED
      BY <3>1, <3>2
  <2> QED
    BY <1>7, <2>3, <2>4, <2>5, <2>6 DEF AreUnits, Hold, vs
<1> QED
  BY <1>3, <1>6, <1>7

LEMMA CoalesceAre ==
    ASSUME NEW n \in Nat, NEW text, NEW us, AreUnits(us, text, n, 0, n),
           \A p \in Ink(text) : p \in 0..n - 1
    PROVE  AreUnits(Text!Coalesce(us), text, n, 0, n)
<1> DEFINE m == Len(us)
           Joins(f) == f = [i \in 0..m |-> IF i = 0 THEN <<>> ELSE Text!AddUnit(f[i - 1], us[i])]
           joined == CHOOSE f : Joins(f)
           B == Seq(RawUnits(n))
           G == [i \in 1..m |-> [b \in B |-> Text!AddUnit(b, us[i])]]
<1>1. Text!Coalesce(us) = joined[m]
  BY DEF Text!Coalesce
<1>2. /\ m \in Nat /\ DOMAIN us = 1..m
      /\ \A i \in 1..m :
            /\ us[i] \in UnitsOf(n) /\ us[i].start \in 0..n /\ us[i].end \in 0..n
            /\ us[i].start < us[i].end
      /\ \A i \in 0..m : EndAt(us, i) \in 0..n
      /\ \A i \in 1..m :
            /\ EndAt(us, i - 1) <= us[i].start
            /\ \A p \in Ink(text) : p < us[i].start => p < EndAt(us, i - 1)
      /\ \A p \in Ink(text) : p < EndAt(us, m)
  BY UnitParts
<1> HIDE DEF m
<1>3. Joins(joined)
  <2>1. \A i \in 1..m : us[i] \in RawUnits(n)
    BY <1>2 DEF UnitsOf, RawUnits
  <2>2. \A i \in 1..m : \A b \in B : Text!AddUnit(b, us[i]) \in B
    BY <2>1, UnitAdded
  <2>3. <<>> \in B
    OBVIOUS
  <2>4. \A i \in 1..m : \A b \in B : G[i][b] = Text!AddUnit(b, us[i])
    OBVIOUS
  <2> HIDE DEF G, B
  <2>5. \A i \in 1..m : \A b \in B : G[i][b] \in B
    BY <2>2, <2>4
  <2>6. PICK f : Takes(f, m, B, <<>>, G)
    BY <1>2, <2>3, <2>5, StepsExist
  <2>7. \A i \in 1..m : i - 1 \in 0..m
    BY <1>2
  <2>8. \A i \in 1..m : f[i] = Text!AddUnit(f[i - 1], us[i])
    BY <2>4, <2>6, <2>7 DEF Takes
  <2>9. f = [i \in 0..m |-> f[i]] /\ f[0] = <<>>
    BY <2>6 DEF Takes
  <2>10. \A i \in 0..m : i = 0 \/ i \in 1..m
    BY <1>2
  <2>11. Joins(f)
    BY <2>8, <2>9, <2>10
  <2> HIDE DEF Joins
  <2> QED
    BY <2>11
<1> HIDE DEF joined
<1> DEFINE P == {i \in 0..m : AreUnits(joined[i], text, n, 0, EndAt(us, i))}
<1>4. 0 \in P
  <2>1. joined[0] = <<>>
    BY <1>2, <1>3
  <2>2. joined[0] \in Seq(UnitsOf(n)) /\ DOMAIN joined[0] = {}
    BY <2>1
  <2>3. Ink(text) \cap (0..0 - 1) = {}
    OBVIOUS
  <2>4. AreUnits(joined[0], text, n, 0, 0)
    BY <2>2, <2>3 DEF AreUnits, Follow, Hold
  <2>5. EndAt(us, 0) = 0
    BY DEF EndAt
  <2> QED
    BY <1>2, <2>4, <2>5
<1>5. ASSUME NEW i \in 1..m, i - 1 \in P
      PROVE  i \in P
  <2>1. i \in 0..m /\ i # 0 /\ i - 1 \in 0..m
    BY <1>2
  <2>2. joined[i] = Text!AddUnit(joined[i - 1], us[i])
    BY <1>3, <2>1
  <2> DEFINE b == EndAt(us, i - 1)
             u == us[i]
             vs == joined[i - 1]
  <2>3. AreUnits(vs, text, n, 0, b)
    BY <1>5
  <2>4. b \in 0..n /\ u \in UnitsOf(n) /\ b <= u.start
    BY <1>2, <2>1
  <2>5. \A p \in Ink(text) : p \in 0..n - 1 /\ (p < u.start => p < b)
    BY <1>2
  <2>6. u.end = EndAt(us, i)
    BY <2>1 DEF EndAt
  <2> HIDE DEF b, u, vs
  <2>7. AreUnits(Text!AddUnit(vs, u), text, n, 0, u.end)
    BY <2>3, <2>4, <2>5, AddUnitKeeps
  <2> QED
    BY <2>1, <2>2, <2>6, <2>7 DEF u, vs
<1> HIDE DEF P
<1>6. m \in P
  <2>1. \A i \in 0..m : i \in P
    BY <1>2, <1>4, <1>5, StepByStep
  <2> QED
    BY <1>2, <2>1
<1> DEFINE vs == joined[m]
           e == EndAt(us, m)
<1>7. AreUnits(vs, text, n, 0, e) /\ e \in 0..n /\ \A p \in Ink(text) : p \in 0..n - 1 /\ p < e
  <2>1. e \in 0..n
    BY <1>2
  <2> QED
    BY <1>2, <1>6, <2>1 DEF P
<1> HIDE DEF vs, e
<1>8. \A i \in DOMAIN vs : vs[i] \in UnitsOf(n)
  BY <1>7 DEF AreUnits
<1>9. \A i \in DOMAIN vs : 0 <= vs[i].start /\ vs[i].end <= n
  BY <1>8 DEF UnitsOf
<1>10. Ink(text) \cap (0..n - 1) \subseteq Ink(text) \cap (0..e - 1)
  BY <1>7
<1>11. AreUnits(vs, text, n, 0, n)
  BY <1>7, <1>9, <1>10 DEF AreUnits, Hold
<1> QED
  BY <1>1, <1>11 DEF vs

-----------------------------------------------------------------------------
(* The parts of a long span *)

LEMMA BreaksInside ==
    ASSUME NEW text, NEW s \in Int, NEW e \in Int
    PROVE  Text!BreakOffsets(text, s, e) \in SUBSET (s..e)
<1> DEFINE Ends == {p \in s..e - 1 : text[p] = "stop"
                                      /\ (p + 1 = e \/ text[p + 1] \in Text!White)}
           Past(p) == CHOOSE q \in p + 1..e :
                         /\ \A r \in p + 1..q - 1 : text[r] = "space"
                         /\ q = e \/ text[q] # "space"
           Next1(p) == IF Past(p) < e /\ text[Past(p)] = "newline" THEN Past(p) + 1 ELSE Past(p)
<1>1. Text!BreakOffsets(text, s, e)
        = {Next1(p) : p \in Ends} \cup {p + 1 : p \in {p \in s..e - 1 : text[p] = "newline"}}
  BY DEF Text!BreakOffsets
<1>2. ASSUME NEW p \in s..e - 1
      PROVE  Past(p) \in p + 1..e
  <2> DEFINE Beyond == {k \in Nat : k \in 1..e - p /\ (p + k = e \/ text[p + k] # "space")}
  <2>1. e - p \in Beyond
    BY <1>2
  <2>2. PICK k \in Beyond : \A l \in Beyond : k <= l
    <3>1. Beyond \in SUBSET Nat /\ Beyond # {}
      BY <2>1
    <3> HIDE DEF Beyond
    <3> QED
      BY <3>1, LeastNumber
  <2> DEFINE q == p + k
  <2>3. q \in p + 1..e /\ (q = e \/ text[q] # "space")
    BY <2>2
  <2>4. \A r \in p + 1..q - 1 : text[r] = "space"
    <3> SUFFICES ASSUME NEW r \in p + 1..q - 1, text[r] # "space"
                 PROVE  FALSE
      OBVIOUS
    <3>1. r - p \in 1..e - p /\ p + (r - p) = r /\ r - p < k
      BY <2>2, <2>3
    <3>2. r - p \in Beyond
      BY <3>1
    <3> QED
      BY <2>2, <3>1, <3>2
  <2> HIDE DEF q
  <2> QED
    BY <2>3, <2>4
<1>3. \A p \in Ends : Next1(p) \in s..e
  <2> TAKE p \in Ends
  <2>1. p \in s..e - 1 /\ Past(p) \in p + 1..e
    BY <1>2
  <2> HIDE DEF Past
  <2> QED
    BY <2>1
<1>4. \A p \in s..e - 1 : p + 1 \in s..e
  OBVIOUS
<1> HIDE DEF Next1, Ends
<1> QED
  BY <1>1, <1>3, <1>4

LEMMA GreatestOf ==
    ASSUME NEW a \in Int, NEW b \in Int, NEW S \in SUBSET (a..b), S # {}
    PROVE  Text!Max(S) \in S /\ Text!Max(S) \in a..b
<1>1. S \in SUBSET Int
  OBVIOUS
<1>2. IsFiniteSet(S)
  <2>1. IsFiniteSet(a..b)
    BY FS_Interval
  <2> QED
    BY <2>1, FS_Subset
<1>3. Text!Max(S) \in S
  BY <1>1, <1>2, LeastAndGreatest
<1> QED
  BY <1>3

LEMMA BreakIs ==
    ASSUME SplitAssumption, NEW text, NEW breaks, NEW s \in Int, NEW e \in Int,
           breaks \in SUBSET (s..e), NEW cursor \in Int, s <= cursor, NEW preferList
    PROVE  Text!BreakAt(text, breaks, s, cursor, preferList) \in cursor + 1..cursor + MaxChars
<1> DEFINE hard == cursor + MaxChars
           floor == cursor + (MaxChars * (IF preferList THEN 5 ELSE 7)) \div 10
           chosen == Text!ChooseBreak(breaks, s, floor, hard)
           soft == Text!SoftBreak(text, cursor, floor, hard)
<1>1. Text!BreakAt(text, breaks, s, cursor, preferList) = IF chosen > cursor THEN chosen ELSE soft
  BY DEF Text!BreakAt
<1>2. MaxChars \in Nat \ {0} /\ hard \in Int /\ cursor < hard
  BY DEF SplitAssumption
<1> HIDE DEF hard, floor
<1>3. chosen = s \/ (chosen \in s..e /\ chosen <= hard)
  <2> DEFINE inWindow == {b \in breaks : floor <= b /\ b <= hard}
             earlier == {b \in breaks : s < b /\ b <= hard}
  <2>1. inWindow \in SUBSET (s..e) /\ earlier \in SUBSET (s..e)
    OBVIOUS
  <2>2. chosen = IF inWindow # {} THEN Text!Max(inWindow)
                 ELSE IF earlier # {} THEN Text!Max(earlier) ELSE s
    BY DEF Text!ChooseBreak
  <2>3. \A b \in inWindow \cup earlier : b <= hard
    OBVIOUS
  <2> HIDE DEF inWindow, earlier, chosen
  <2>4. CASE inWindow # {}
    <3>1. Text!Max(inWindow) \in inWindow /\ Text!Max(inWindow) \in s..e
      BY <2>1, <2>4, GreatestOf
    <3> QED
      BY <2>2, <2>3, <2>4, <3>1
  <2>5. CASE inWindow = {} /\ earlier # {}
    <3>1. Text!Max(earlier) \in earlier /\ Text!Max(earlier) \in s..e
      BY <2>1, <2>5, GreatestOf
    <3> QED
      BY <2>2, <2>3, <2>5, <3>1
  <2>6. CASE inWindow = {} /\ earlier = {}
    BY <2>2, <2>6
  <2> QED
    BY <2>4, <2>5, <2>6
<1>4. soft \in cursor + 1..hard
  <2> DEFINE At(class, from) == {p + 1 : p \in {p \in from..hard - 1 : text[p] = class /\ p > cursor}}
             found == IF At("space", floor) # {} THEN At("space", floor)
                      ELSE IF At("newline", cursor + 1) # {} THEN At("newline", cursor + 1)
                      ELSE At("space", cursor + 1)
  <2>1. soft = IF found = {} THEN hard ELSE Text!Max(found)
    BY DEF Text!SoftBreak
  <2>2. ASSUME NEW class, NEW from
        PROVE  At(class, from) \in SUBSET (cursor + 1..hard)
    <3> SUFFICES ASSUME NEW p \in from..hard - 1, p > cursor
                 PROVE  p + 1 \in cursor + 1..hard
      OBVIOUS
    <3> QED
      BY <1>2
  <2> HIDE DEF At, soft
  <2>3. found \in SUBSET (cursor + 1..hard)
    BY <2>2
  <2> HIDE DEF found
  <2>4. CASE found # {}
    <3> DEFINE a == cursor + 1
    <3>1. a \in Int /\ hard \in Int /\ found \in SUBSET (a..hard)
      BY <1>2, <2>3
    <3> HIDE DEF a
    <3>2. Text!Max(found) \in a..hard
      BY <2>4, <3>1, GreatestOf
    <3> QED
      BY <2>1, <2>4, <3>2 DEF a
  <2>5. CASE found = {}
    BY <1>2, <2>1, <2>5
  <2> QED
    BY <2>4, <2>5
<1> HIDE DEF chosen, soft
<1>5. CASE chosen > cursor
  <2>1. chosen # s /\ chosen \in s..e /\ chosen <= hard
    BY <1>3, <1>5
  <2> QED
    BY <1>1, <1>2, <1>5, <2>1 DEF hard
<1>6. CASE ~(chosen > cursor)
  BY <1>1, <1>4, <1>6 DEF hard
<1> QED
  BY <1>5, <1>6

\* What goes on from a place to a later one can be computed.
GoesOn(f, s, e, L, base, head, next) ==
    f = [c \in s..e |-> IF c \in L THEN base[c] ELSE head[c] \o f[next[c]]]

LEMMA ForwardExists ==
    ASSUME NEW s \in Int, NEW e \in Int, s <= e, NEW L, NEW base, NEW head, NEW next,
           \A c \in s..e : c \notin L => next[c] \in c + 1..e
    PROVE  \E f : GoesOn(f, s, e, L, base, head, next)
<1> DEFINE Step(c, f) == IF c \in L THEN base[c] ELSE head[c] \o f[next[c]]
           Goes(k, f) == f = [c \in e - k..e |-> Step(c, f)]
           P == {k \in 0..e - s : \E f : Goes(k, f)}
<1>1. 0 \in P
  <2>1. e \in L
    OBVIOUS
  <2>2. \A f : \A c \in e - 0..e : Step(c, f) = base[c]
    BY <2>1
  <2> DEFINE h == [c \in e - 0..e |-> base[c]]
  <2>3. Goes(0, h)
    <3> HIDE DEF Step
    <3> QED
      BY <2>2
  <2>4. 0 \in 0..e - s
    OBVIOUS
  <2> HIDE DEF Goes, h
  <2> QED
    BY <2>3, <2>4
<1>2. ASSUME NEW k \in 1..e - s, k - 1 \in P
      PROVE  k \in P
  <2>1. PICK f : Goes(k - 1, f)
    BY <1>2
  <2> DEFINE h == [c \in e - k..e |-> Step(c, f)]
  <2>2. ASSUME NEW c \in e - k..e
        PROVE  Step(c, f) = Step(c, h)
    <3>1. CASE c \in L
      BY <3>1
    <3>2. CASE c \notin L
      <4>1. next[c] \in c + 1..e
        BY <3>2
      <4> DEFINE d == next[c]
      <4>2. d \in e - (k - 1)..e /\ d \in e - k..e
        BY <4>1
      <4> HIDE DEF d
      <4>3. f[d] = Step(d, f) /\ h[d] = Step(d, f)
        <5> HIDE DEF Step
        <5> QED
          BY <2>1, <4>2
      <4>4. f[d] = h[d]
        BY <4>3
      <4> QED
        BY <3>2, <4>4 DEF d
    <3> QED
      BY <3>1, <3>2
  <2>3. Goes(k, h)
    <3> HIDE DEF Step
    <3> QED
      BY <2>2
  <2>4. k \in 0..e - s
    OBVIOUS
  <2> HIDE DEF Goes, h
  <2> QED
    BY <2>3, <2>4
<1>3. e - s \in P
  <2>1. e - s \in Nat
    OBVIOUS
  <2> HIDE DEF P
  <2>2. \A k \in 0..e - s : k \in P
    BY <1>1, <1>2, <2>1, StepByStep
  <2> QED
    BY <2>1, <2>2
<1>4. PICK f : Goes(e - s, f)
  BY <1>3
<1>5. e - (e - s) = s
  OBVIOUS
<1>6. f = [c \in s..e |-> Step(c, f)]
  <2> HIDE DEF Step
  <2> QED
    BY <1>4, <1>5
<1> QED
  BY <1>6 DEF GoesOn

\* The spans from c to e: none is too long, none of it is left out, and the last ends it.
Cuts(r, n, c, e) ==
    /\ r \in Seq(SpansOf(n)) /\ Len(r) \in 1..Len(r)
    /\ \A i \in 1..Len(r) :
          /\ c <= r[i][1] /\ r[i][1] <= r[Len(r)][1] /\ r[i][2] <= e
          /\ r[i][2] - r[i][1] <= MaxChars
    /\ r[Len(r)][2] = e
    /\ \A p \in c..e - 1 : \E i \in 1..Len(r) : r[i][1] <= p /\ p < r[i][2]

LEMMA OneCut ==
    ASSUME NEW n \in Nat, NEW c \in 0..n, NEW e \in 0..n, c < e, e - c <= MaxChars
    PROVE  Cuts(<<<<c, e>>>>, n, c, e)
<1> DEFINE r == <<<<c, e>>>>
<1>1. <<c, e>> \in SpansOf(n)
  BY DEF SpansOf
<1>2. r \in Seq(SpansOf(n)) /\ Len(r) = 1 /\ r[1] = <<c, e>> /\ r[1][1] = c /\ r[1][2] = e
  BY <1>1
<1> HIDE DEF r
<1>3. \A i \in 1..Len(r) : i = 1
  BY <1>2
<1>4. Cuts(r, n, c, e)
  BY <1>2, <1>3 DEF Cuts
<1> QED
  BY <1>4 DEF r

LEMMA Prefixed ==
    ASSUME NEW S, NEW x \in S, NEW r \in Seq(S)
    PROVE  LET q == <<x>> \o r
           IN  /\ q \in Seq(S) /\ Len(r) \in Nat /\ Len(q) = 1 + Len(r) /\ q[1] = x
               /\ \A i \in 1..Len(r) : 1 + i \in 1..Len(q) /\ q[1 + i] = r[i]
               /\ \A i \in 2..Len(q) : i - 1 \in 1..Len(r) /\ q[i] = r[i - 1]
<1> DEFINE q == <<x>> \o r
           m == Len(r)
<1>1. <<x>> \in Seq(S) /\ Len(<<x>>) = 1 /\ <<x>>[1] = x
  OBVIOUS
<1>2. q \in Seq(S) /\ Len(q) = 1 + m /\ m \in Nat
  OBVIOUS
<1>3. \A i \in 1..Len(q) : q[i] = IF i <= 1 THEN x ELSE r[i - 1]
  OBVIOUS
<1> HIDE DEF q, m
<1>4. \A i \in 1..m : 1 + i \in 1..Len(q) /\ ~(1 + i <= 1) /\ (1 + i) - 1 = i
  BY <1>2
<1>5. \A i \in 1..m : 1 + i \in 1..Len(q) /\ q[1 + i] = r[i]
  <2> TAKE i \in 1..m
  <2> DEFINE j == 1 + i
  <2>1. j \in 1..Len(q) /\ ~(j <= 1) /\ j - 1 = i
    BY <1>4
  <2> HIDE DEF j
  <2>2. q[j] = r[i]
    BY <1>3, <2>1
  <2> QED
    BY <2>1, <2>2 DEF j
<1>6. \A i \in 2..Len(q) : i - 1 \in 1..m /\ q[i] = r[i - 1]
  <2> TAKE i \in 2..Len(q)
  <2>1. i - 1 \in 1..m /\ i \in 1..Len(q) /\ ~(i <= 1)
    BY <1>2
  <2> QED
    BY <1>3, <2>1
<1>7. 1 \in 1..Len(q) /\ 1 <= 1
  BY <1>2
<1>8. q[1] = x
  BY <1>3, <1>7
<1> QED
  BY <1>2, <1>5, <1>6, <1>8 DEF q, m

LEMMA CutMore ==
    ASSUME NEW n \in Nat, NEW c \in 0..n, NEW b \in 0..n, NEW d \in 0..n, NEW e \in 0..n,
           c < d, d <= b, b < e, b - c <= MaxChars, NEW r, Cuts(r, n, d, e)
    PROVE  Cuts(<<<<c, b>>>> \o r, n, c, e)
<1> DEFINE first == <<c, b>>
           q == <<first>> \o r
           m == Len(r)
<1>1. first \in SpansOf(n) /\ first[1] = c /\ first[2] = b
  BY DEF SpansOf
<1>2. r \in Seq(SpansOf(n))
  BY DEF Cuts
<1>3. m \in 1..m /\ \A i \in 1..m : r[i] \in SpansOf(n)
  BY DEF Cuts
<1> HIDE DEF first
<1>4. /\ q \in Seq(SpansOf(n)) /\ m \in Nat /\ Len(q) = 1 + m /\ q[1] = first
      /\ \A i \in 1..m : 1 + i \in 1..Len(q) /\ q[1 + i] = r[i]
      /\ \A i \in 2..Len(q) : i - 1 \in 1..m /\ q[i] = r[i - 1]
  BY <1>1, <1>2, Prefixed
<1> HIDE DEF q, m
<1>5. q[1][1] = c /\ q[1][2] = b
  BY <1>1, <1>4
<1>6. q[Len(q)] = r[m] /\ Len(q) \in 1..Len(q)
  BY <1>3, <1>4
<1>7. \A i \in 1..m : r[i][1] \in 0..n /\ r[i][2] \in 0..n
  BY <1>3 DEF SpansOf
<1>8. /\ r[m][2] = e
      /\ \A i \in 1..m : /\ d <= r[i][1] /\ r[i][1] <= r[m][1] /\ r[i][2] <= e
                         /\ r[i][2] - r[i][1] <= MaxChars
      /\ \A p \in d..e - 1 : \E i \in 1..m : r[i][1] <= p /\ p < r[i][2]
  BY DEF Cuts, m
<1>9. \A i \in 1..Len(q) : /\ c <= q[i][1] /\ q[i][1] <= q[Len(q)][1] /\ q[i][2] <= e
                           /\ q[i][2] - q[i][1] <= MaxChars
  <2> TAKE i \in 1..Len(q)
  <2>1. CASE i = 1
    <3>1. d <= r[m][1] /\ r[m][1] \in Int
      BY <1>3, <1>7, <1>8
    <3> QED
      BY <1>5, <1>6, <2>1, <3>1
  <2>2. CASE i # 1
    <3>0. i \in 2..Len(q)
      BY <2>2
    <3>1. PICK j \in 1..m : q[i] = r[j]
      BY <1>4, <3>0
    <3>2. c <= r[j][1]
      BY <1>7, <1>8, <3>1
    <3> QED
      BY <1>6, <1>8, <3>1, <3>2
  <2> QED
    BY <2>1, <2>2
<1>10. ASSUME NEW p \in c..e - 1
       PROVE  \E i \in 1..Len(q) : q[i][1] <= p /\ p < q[i][2]
  <2>1. CASE p < b
    <3>1. 1 \in 1..Len(q)
      BY <1>3, <1>4
    <3>2. q[1][1] <= p /\ p < q[1][2]
      BY <1>5, <2>1
    <3> QED
      BY <3>1, <3>2
  <2>2. CASE ~(p < b)
    <3>1. p \in d..e - 1
      BY <2>2
    <3>2. PICK i \in 1..m : r[i][1] <= p /\ p < r[i][2]
      BY <1>8, <3>1
    <3>3. 1 + i \in 1..Len(q) /\ q[1 + i] = r[i]
      BY <1>4
    <3> QED
      BY <3>2, <3>3
  <2> QED
    BY <2>1, <2>2
<1>11. q[Len(q)][2] = e
  BY <1>6, <1>8
<1> QED
  BY <1>4, <1>6, <1>9, <1>10, <1>11 DEF Cuts, q, first

LEMMA SplitSpanCuts ==
    ASSUME SplitAssumption, NEW n \in Nat, NEW text, NEW s \in 0..n, NEW e \in 0..n, s < e,
           NEW preferList
    PROVE  Cuts(Text!SplitSpan(text, s, e, preferList), n, s, e)
<1> DEFINE breaks == Text!BreakOffsets(text, s, e)
           At(c) == Text!BreakAt(text, breaks, s, c, preferList)
           Part(c, f) == IF c + MaxChars >= e THEN <<<<c, e>>>>
                         ELSE <<<<c, At(c)>>>> \o f[Text!NextCursor(c, At(c))]
           Goes(f) == f = [c \in s..e |-> Part(c, f)]
           parts == CHOOSE f : Goes(f)
           L == {c \in s..e : c + MaxChars >= e}
           base == [c \in s..e |-> <<<<c, e>>>>]
           head == [c \in s..e |-> <<<<c, At(c)>>>>]
           next == [c \in s..e |-> Text!NextCursor(c, At(c))]
<1>1. MaxChars \in Nat \ {0} /\ Overlap \in Nat
  BY DEF SplitAssumption
<1>2. Text!SplitSpan(text, s, e, preferList)
        = IF e - s <= MaxChars THEN <<<<s, e>>>> ELSE parts[s]
  BY DEF Text!SplitSpan
<1>3. breaks \in SUBSET (s..e)
  BY BreaksInside
<1> HIDE DEF breaks, parts
<1>4. ASSUME NEW c \in s..e
      PROVE  At(c) \in c + 1..c + MaxChars
  <2>1. c \in Int /\ s \in Int /\ e \in Int /\ s <= c
    BY <1>4
  <2> QED
    BY <1>3, <2>1, BreakIs
<1> HIDE DEF At
<1>5. ASSUME NEW c \in s..e, c + MaxChars < e
      PROVE  Text!NextCursor(c, At(c)) \in c + 1..At(c)
  <2> DEFINE T == {At(c) - Overlap, c + 1}
  <2>1. At(c) \in Int /\ c + 1 <= At(c)
    BY <1>1, <1>4
  <2>2. PICK a \in Int : a <= At(c) - Overlap /\ a <= c + 1
    <3>1. At(c) - Overlap \in Int /\ c + 1 \in Int
      BY <1>1, <2>1
    <3>2. CASE At(c) - Overlap <= c + 1
      BY <3>1, <3>2
    <3>3. CASE ~(At(c) - Overlap <= c + 1)
      BY <3>1, <3>3
    <3> QED
      BY <3>2, <3>3
  <2> DEFINE b == At(c)
  <2>3. b \in Int /\ T \in SUBSET (a..b) /\ c + 1 \in T
    BY <1>1, <2>1, <2>2
  <2>4. Text!NextCursor(c, b) = Text!Max(T)
    BY DEF Text!NextCursor
  <2>5. T \in SUBSET Int /\ IsFiniteSet(T)
    <3>1. IsFiniteSet(a..b)
      BY <2>3, FS_Interval
    <3>2. T \in SUBSET Int
      BY <2>3
    <3> QED
      BY <2>3, <3>1, <3>2, FS_Subset
  <2> HIDE DEF T, b
  <2>6. \A x \in T : x <= Text!Max(T)
    BY <2>3, <2>5, LeastAndGreatest
  <2>7. Text!Max(T) \in a..b
    BY <2>3, GreatestOf
  <2> DEFINE y == Text!Max(T)
  <2>8. y \in Int /\ c + 1 <= y /\ y <= b
    BY <2>3, <2>6, <2>7
  <2> HIDE DEF y
  <2>9. y \in c + 1..b
    BY <2>3, <2>8
  <2> QED
    BY <2>4, <2>9 DEF y, b
<1>6. Goes(parts)
  <2>1. \A c \in s..e : c \notin L => next[c] \in c + 1..e
    <3> SUFFICES ASSUME NEW c \in s..e, c \notin L
                 PROVE  Text!NextCursor(c, At(c)) \in c + 1..e
      OBVIOUS
    <3>1. c + MaxChars < e
      BY <1>1
    <3> QED
      BY <1>1, <1>4, <1>5, <3>1
  <2>2. \A c \in s..e : /\ c \in L <=> c + MaxChars >= e
                        /\ base[c] = <<<<c, e>>>> /\ head[c] = <<<<c, At(c)>>>>
                        /\ next[c] = Text!NextCursor(c, At(c))
    OBVIOUS
  <2> HIDE DEF L, base, head, next
  <2>3. PICK f : GoesOn(f, s, e, L, base, head, next)
    <3>1. s \in Int /\ e \in Int /\ s <= e
      OBVIOUS
    <3> QED
      BY <2>1, <3>1, ForwardExists
  <2>4. \A c \in s..e : (IF c \in L THEN base[c] ELSE head[c] \o f[next[c]]) = Part(c, f)
    BY <2>2
  <2>5. Goes(f)
    <3> HIDE DEF Part
    <3> QED
      BY <2>3, <2>4 DEF GoesOn
  <2> HIDE DEF Goes
  <2> QED
    BY <2>5 DEF parts
<1> DEFINE P == {k \in 0..e - s - 1 : \A c \in s..e - 1 : e - 1 - k <= c => Cuts(parts[c], n, c, e)}
<1>7. ASSUME NEW c \in s..e - 1, \A d \in s..e - 1 : c < d => Cuts(parts[d], n, d, e)
      PROVE  Cuts(parts[c], n, c, e)
  <2>1. c \in s..e /\ c \in 0..n /\ c < e
    OBVIOUS
  <2>2. parts[c] = Part(c, parts)
    <3> HIDE DEF Part
    <3> QED
      BY <1>6, <2>1
  <2>3. CASE c + MaxChars >= e
    <3>1. parts[c] = <<<<c, e>>>> /\ e - c <= MaxChars
      BY <1>1, <2>2, <2>3
    <3> QED
      BY <2>1, <3>1, OneCut
  <2>4. CASE ~(c + MaxChars >= e)
    <3> DEFINE b == At(c)
               d == Text!NextCursor(c, b)
    <3>1. c + MaxChars < e
      BY <1>1, <2>4
    <3>2. b \in c + 1..c + MaxChars /\ d \in c + 1..b
      BY <1>4, <1>5, <2>1, <3>1
    <3>3. parts[c] = <<<<c, b>>>> \o parts[d]
      BY <2>2, <2>4
    <3> HIDE DEF b, d
    <3>4. b \in 0..n /\ d \in 0..n /\ c < d /\ d <= b /\ b < e /\ b - c <= MaxChars
      BY <1>1, <2>1, <3>1, <3>2
    <3>5. Cuts(parts[d], n, d, e)
      BY <1>7, <3>4
    <3> QED
      BY <2>1, <3>3, <3>4, <3>5, CutMore
  <2> QED
    BY <2>3, <2>4
<1>8. 0 \in P
  <2>1. ASSUME NEW c \in s..e - 1, e - 1 - 0 <= c
        PROVE  Cuts(parts[c], n, c, e)
    <3>1. \A d \in s..e - 1 : ~(c < d)
      BY <2>1
    <3> QED
      BY <1>7, <3>1
  <2> QED
    BY <2>1
<1>9. ASSUME NEW k \in 1..e - s - 1, k - 1 \in P
      PROVE  k \in P
  <2>1. ASSUME NEW c \in s..e - 1, e - 1 - k <= c
        PROVE  Cuts(parts[c], n, c, e)
    <3>1. \A d \in s..e - 1 : c < d => e - 1 - (k - 1) <= d
      BY <2>1
    <3> QED
      BY <1>7, <1>9, <3>1
  <2> QED
    BY <2>1
<1>10. e - s - 1 \in Nat
  OBVIOUS
<1>11. e - s - 1 \in P
  <2> HIDE DEF P
  <2>1. \A k \in 0..e - s - 1 : k \in P
    BY <1>8, <1>9, <1>10, StepByStep
  <2> QED
    BY <1>10, <2>1
<1>12. Cuts(parts[s], n, s, e)
  BY <1>11
<1>13. CASE e - s <= MaxChars
  BY <1>2, <1>13, OneCut
<1>14. CASE ~(e - s <= MaxChars)
  BY <1>2, <1>12, <1>14
<1> QED
  BY <1>13, <1>14

-----------------------------------------------------------------------------
(* The spans of a text *)

\* Spans that end by k, none too long, the last of them behind the others; and what they hold.
SpanList(a, n, k) ==
    /\ a \in Seq(SpansOf(n))
    /\ \A i \in 1..Len(a) : /\ a[i][2] <= k /\ a[i][2] - a[i][1] <= MaxChars
                            /\ a[i][1] <= a[Len(a)][1] /\ a[i][2] <= a[Len(a)][2]
Within(a, p) == \E i \in 1..Len(a) : a[i][1] <= p /\ p < a[i][2]

\* The ink before the end of the buffer is in a span, or else in the buffer.
Buffer(b, text, n) ==
    /\ SpanList(b.spans, n, b.start)
    /\ b.start \in 0..n /\ b.end \in 0..n /\ b.start <= b.end
    /\ \A p \in Ink(text) : p < b.end => Within(b.spans, p) \/ b.start <= p

LEMMA SpansWithin ==
    ASSUME NEW n \in Nat, NEW a \in Seq(SpansOf(n))
    PROVE  /\ Len(a) \in Nat
           /\ \A i \in 1..Len(a) : /\ a[i] \in SpansOf(n) /\ a[i][1] \in 0..n /\ a[i][2] \in 0..n
                                   /\ a[i][1] < a[i][2]
<1>1. Len(a) \in Nat /\ \A i \in 1..Len(a) : a[i] \in SpansOf(n)
  OBVIOUS
<1> QED
  BY <1>1 DEF SpansOf

LEMMA SpansJoined ==
    ASSUME NEW n \in Nat, NEW k \in 0..n, NEW e \in 0..n, k <= e,
           NEW a, SpanList(a, n, k), NEW r, Cuts(r, n, k, e)
    PROVE  /\ SpanList(a \o r, n, e)
           /\ \A p \in Int : Within(a, p) => Within(a \o r, p)
           /\ \A p \in k..e - 1 : Within(a \o r, p)
<1> DEFINE q == a \o r
           l == Len(a)
           m == Len(r)
<1>1. a \in Seq(SpansOf(n)) /\ r \in Seq(SpansOf(n)) /\ m \in 1..m
  BY DEF SpanList, Cuts
<1>2. /\ l \in Nat
      /\ \A i \in 1..l : a[i][1] \in 0..n /\ a[i][2] \in 0..n /\ a[i][1] < a[i][2]
  BY <1>1, SpansWithin
<1>3. /\ m \in Nat
      /\ \A i \in 1..m : r[i][1] \in 0..n /\ r[i][2] \in 0..n /\ r[i][1] < r[i][2]
  BY <1>1, SpansWithin
<1>4. q \in Seq(SpansOf(n)) /\ Len(q) = l + m
  BY <1>1
<1>5. \A i \in 1..Len(q) : q[i] = IF i <= l THEN a[i] ELSE r[i - l]
  <2>1. \A i \in 1..Len(a) + Len(r) : (a \o r)[i] = IF i <= Len(a) THEN a[i] ELSE r[i - Len(a)]
    BY <1>1
  <2> QED
    BY <1>4, <2>1
<1>6. \A i \in 1..l : /\ a[i][2] <= k /\ a[i][2] - a[i][1] <= MaxChars
  BY DEF SpanList
<1>7. /\ r[m][2] = e
      /\ \A i \in 1..m : /\ k <= r[i][1] /\ r[i][1] <= r[m][1] /\ r[i][2] <= e
                         /\ r[i][2] - r[i][1] <= MaxChars
      /\ \A p \in k..e - 1 : \E i \in 1..m : r[i][1] <= p /\ p < r[i][2]
  BY DEF Cuts
<1> HIDE DEF q, l, m
<1>8. \A i \in 1..l : i \in 1..Len(q) /\ q[i] = a[i]
  <2> TAKE i \in 1..l
  <2>1. i \in 1..Len(q) /\ i <= l
    BY <1>2, <1>3, <1>4
  <2> QED
    BY <1>5, <2>1
<1>9. \A i \in 1..m : l + i \in 1..Len(q) /\ q[l + i] = r[i]
  <2> TAKE i \in 1..m
  <2> DEFINE j == l + i
  <2>1. j \in 1..Len(q) /\ ~(j <= l) /\ j - l = i
    BY <1>2, <1>3, <1>4
  <2> HIDE DEF j
  <2>2. q[j] = r[i]
    BY <1>5, <2>1
  <2> QED
    BY <2>1, <2>2 DEF j
<1>10. q[Len(q)] = r[m]
  BY <1>1, <1>4, <1>9
<1>11. ASSUME NEW i \in 1..Len(q)
       PROVE  /\ q[i][2] <= e /\ q[i][2] - q[i][1] <= MaxChars
              /\ q[i][1] <= q[Len(q)][1] /\ q[i][2] <= q[Len(q)][2]
  <2>1. CASE i \in 1..l
    <3>1. q[i] = a[i] /\ k <= r[m][1]
      BY <1>1, <1>7, <1>8, <2>1
    <3> DEFINE x == a[i][1]
               y == a[i][2]
               z == r[m][1]
    <3>2. x \in Int /\ y \in Int /\ x < y /\ y <= k
      BY <1>2, <1>6, <2>1
    <3>3. z \in Int /\ k <= z /\ k \in Int /\ e \in Int /\ r[m][2] = e
      BY <1>1, <1>3, <1>7
    <3> HIDE DEF x, y, z
    <3>4. y <= e /\ x <= z
      BY <3>2, <3>3
    <3> QED
      BY <1>6, <1>10, <2>1, <3>1, <3>3, <3>4 DEF x, y, z
  <2>2. CASE i \notin 1..l
    <3>1. i - l \in 1..m /\ ~(i <= l)
      BY <1>2, <1>3, <1>4, <2>2
    <3>2. PICK j \in 1..m : q[i] = r[j]
      BY <1>5, <3>1
    <3> QED
      BY <1>7, <1>10, <3>2
  <2> QED
    BY <2>1, <2>2
<1>12. SpanList(q, n, e)
  BY <1>4, <1>11 DEF SpanList
<1>13. \A p \in Int : Within(a, p) => Within(q, p)
  BY <1>8 DEF Within, l
<1>14. \A p \in k..e - 1 : Within(q, p)
  <2> TAKE p \in k..e - 1
  <2>1. PICK i \in 1..m : r[i][1] <= p /\ p < r[i][2]
    BY <1>7
  <2>2. l + i \in 1..Len(q) /\ q[l + i] = r[i]
    BY <1>9
  <2> QED
    BY <2>1, <2>2 DEF Within
<1> QED
  BY <1>12, <1>13, <1>14 DEF q

LEMMA FlushKeeps ==
    ASSUME SplitAssumption, NEW n \in Nat, NEW text, NEW b, Buffer(b, text, n),
           \A p \in Ink(text) : p \in 0..n - 1
    PROVE  LET f == Text!Flush(text, b)
           IN  /\ Buffer(f, text, n) /\ f.start = b.end /\ f.end = b.end
               /\ SpanList(f.spans, n, b.end)
               /\ \A p \in Ink(text) : p < b.end => Within(f.spans, p)
<1> DEFINE f == Text!Flush(text, b)
           s == b.start
           e == b.end
           r == Text!SplitSpan(text, s, e, b.structured)
<1>1. f = IF s >= e THEN b
          ELSE [spans |-> b.spans \o r, start |-> e, end |-> e, structured |-> FALSE]
  BY DEF Text!Flush
<1>2. SpanList(b.spans, n, s) /\ s \in 0..n /\ e \in 0..n /\ s <= e
  BY DEF Buffer
<1>3. \A p \in Ink(text) : p \in Int /\ (p < e => Within(b.spans, p) \/ s <= p)
  BY DEF Buffer
<1>4. CASE s >= e
  <2>1. f = b /\ s = e
    BY <1>1, <1>2, <1>4
  <2>2. \A p \in Ink(text) : p < e => Within(b.spans, p)
    BY <1>2, <1>3, <2>1
  <2> HIDE DEF f
  <2> QED
    BY <1>2, <2>1, <2>2 DEF f
<1>5. CASE ~(s >= e)
  <2> DEFINE all == b.spans \o r
             g == [spans |-> all, start |-> e, end |-> e, structured |-> FALSE]
  <2>0. f = g
    BY <1>1, <1>5
  <2>1. f.spans = b.spans \o r /\ f.start = e /\ f.end = e
    <3>1. g.spans = all /\ g.start = e /\ g.end = e
      <4> HIDE DEF all, e
      <4> QED
        OBVIOUS
    <3> HIDE DEF f, g
    <3> QED
      BY <2>0, <3>1
  <2> HIDE DEF f
  <2>2. Cuts(r, n, s, e)
    <3>1. s < e
      BY <1>2, <1>5
    <3> HIDE DEF s, e
    <3> QED
      BY <1>2, <3>1, SplitSpanCuts DEF r
  <2> DEFINE a == b.spans
             q == a \o r
  <2>3. a = b.spans /\ q = f.spans
    BY <2>1
  <2> HIDE DEF s, e, r, a
  <2>4. SpanList(a, n, s)
    BY <1>2, <2>3
  <2>5. /\ SpanList(q, n, e)
        /\ \A p \in Int : Within(a, p) => Within(q, p)
        /\ \A p \in s..e - 1 : Within(q, p)
    BY <1>2, <2>2, <2>4, SpansJoined
  <2> HIDE DEF q
  <2>6. ASSUME NEW p \in Ink(text), p < e
        PROVE  Within(q, p)
    <3>1. CASE Within(a, p)
      BY <1>3, <2>5, <3>1
    <3>2. CASE s <= p
      <4>1. p \in s..e - 1
        BY <1>2, <1>3, <2>6, <3>2
      <4> QED
        BY <2>5, <4>1
    <3> QED
      BY <1>3, <2>3, <2>6, <3>1, <3>2
  <2>7. Buffer(f, text, n)
    BY <1>2, <2>1, <2>3, <2>5, <2>6 DEF Buffer
  <2> QED
    BY <2>1, <2>3, <2>5, <2>6, <2>7 DEF f, e
<1> QED
  BY <1>4, <1>5

LEMMA MergeKeeps ==
    ASSUME SplitAssumption, NEW n \in Nat, NEW text, NEW b, Buffer(b, text, n),
           NEW u, u.start \in 0..n, u.end \in 0..n, u.start < u.end, b.end <= u.start,
           \A p \in Ink(text) : p \in 0..n - 1 /\ (p < u.start => p < b.end)
    PROVE  LET c == Text!MergeUnit(text, b, u)
           IN  Buffer(c, text, n) /\ c.end = u.end
<1> DEFINE f == Text!Flush(text, b)
           fresh == [spans |-> f.spans, start |-> u.start, end |-> u.end,
                     structured |-> u.kind \in Text!Structured]
           wider == [spans |-> b.spans, start |-> b.start, end |-> u.end,
                     structured |-> b.structured \/ u.kind \in Text!Structured]
           c == Text!MergeUnit(text, b, u)
<1>1. c = fresh \/ c = wider \/ c = Text!Flush(text, fresh)
  BY DEF Text!MergeUnit
<1>2. SpanList(b.spans, n, b.start) /\ b.start \in 0..n /\ b.end \in 0..n /\ b.start <= b.end
  BY DEF Buffer
<1>3. \A p \in Ink(text) : p \in Int /\ (p < b.end => Within(b.spans, p) \/ b.start <= p)
  BY DEF Buffer
<1>4. SpanList(f.spans, n, b.end) /\ \A p \in Ink(text) : p < b.end => Within(f.spans, p)
  BY FlushKeeps
<1> HIDE DEF f, c
<1>5. /\ fresh.spans = f.spans /\ fresh.start = u.start /\ fresh.end = u.end
      /\ wider.spans = b.spans /\ wider.start = b.start /\ wider.end = u.end
  OBVIOUS
<1> HIDE DEF fresh, wider
<1>6. Buffer(fresh, text, n)
  <2> DEFINE a == f.spans
  <2>1. a \in Seq(SpansOf(n))
    BY <1>4 DEF SpanList
  <2>2. \A i \in 1..Len(a) : a[i][2] \in Int
    <3> HIDE DEF a
    <3>1. \A i \in 1..Len(a) : a[i][2] \in 0..n
      BY <2>1, SpansWithin
    <3> QED
      BY <3>1
  <2>3. SpanList(a, n, u.start)
    BY <1>2, <1>4, <2>2 DEF SpanList
  <2>4. \A p \in Ink(text) : p < u.end => Within(a, p) \/ u.start <= p
    BY <1>3, <1>4
  <2> QED
    BY <1>5, <2>3, <2>4 DEF Buffer
<1>7. CASE c = fresh
  BY <1>5, <1>6, <1>7 DEF c
<1>8. CASE c = wider
  <2>1. \A p \in Ink(text) : p < u.end => Within(b.spans, p) \/ b.start <= p
    BY <1>2, <1>3
  <2>2. b.start <= u.end
    BY <1>2
  <2>3. Buffer(wider, text, n)
    BY <1>2, <1>5, <2>1, <2>2 DEF Buffer
  <2> QED
    BY <1>5, <1>8, <2>3 DEF c
<1>9. CASE c = Text!Flush(text, fresh)
  <2>1. Buffer(c, text, n) /\ c.end = fresh.end
    BY <1>6, <1>9, FlushKeeps
  <2> QED
    BY <1>5, <2>1 DEF c
<1> QED
  BY <1>1, <1>7, <1>8, <1>9

LEMMA Beginning ==
    ASSUME NEW S, NEW a \in Seq(S), NEW k \in Nat, k <= Len(a)
    PROVE  LET r == SubSeq(a, 1, k)
           IN  r \in Seq(S) /\ Len(r) = k /\ \A i \in 1..k : r[i] = a[i]
<1> DEFINE r == SubSeq(a, 1, k)
<1>1. r \in Seq(S)
  OBVIOUS
<1>2. Len(r) = k
  OBVIOUS
<1>3. \A i \in 1..k : r[i] = a[i]
  OBVIOUS
<1> QED
  BY <1>1, <1>2, <1>3

\* Spans of which none is too long, and that hold all the ink.
SpansHold(spans, text, n) ==
    /\ spans \in Seq(SpansOf(n)) /\ \A i \in 1..Len(spans) : spans[i][2] - spans[i][1] <= MaxChars
    /\ \A p \in Ink(text) : Within(spans, p)

LEMMA TailJoined ==
    ASSUME NEW n \in Nat, NEW text, \A p \in Ink(text) : p \in 0..n - 1,
           NEW a, SpanList(a, n, n), \A p \in Ink(text) : Within(a, p)
    PROVE  SpansHold(Text!JoinShortTail(a), text, n)
<1> DEFINE m == Len(a)
           joined == <<a[m - 1][1], a[m][2]>>
           q == Append(SubSeq(a, 1, m - 2), joined)
           short == /\ m >= 2 /\ Text!Length(a[m]) < MinChars
                    /\ a[m][2] - a[m - 1][1] <= MaxChars
<1>1. Text!JoinShortTail(a) = IF short THEN q ELSE a
  BY DEF Text!JoinShortTail
<1>2. /\ a \in Seq(SpansOf(n)) /\ m \in Nat
      /\ \A i \in 1..m : a[i][1] \in 0..n /\ a[i][2] \in 0..n /\ a[i][1] < a[i][2]
  BY SpansWithin DEF SpanList
<1>3. \A i \in 1..m : /\ a[i][2] - a[i][1] <= MaxChars
                      /\ a[i][1] <= a[m][1] /\ a[i][2] <= a[m][2]
  BY DEF SpanList
<1>4. CASE ~short
  <2>1. Text!JoinShortTail(a) = a
    BY <1>1, <1>4
  <2> QED
    BY <1>2, <1>3, <2>1 DEF SpansHold
<1>5. CASE short
  <2>1. m >= 2 /\ a[m][2] - a[m - 1][1] <= MaxChars /\ Text!JoinShortTail(a) = q
    BY <1>1, <1>5
  <2>2. m - 1 \in 1..m /\ m \in 1..m /\ m - 2 \in Nat
    BY <1>2, <2>1
  <2>3. joined \in SpansOf(n)
    <3>1. /\ a[m - 1][1] \in 0..n /\ a[m][2] \in 0..n /\ a[m][1] \in 0..n
          /\ a[m - 1][1] <= a[m][1] /\ a[m][1] < a[m][2]
      BY <1>2, <1>3, <2>2
    <3>2. a[m - 1][1] < a[m][2]
      BY <3>1
    <3> QED
      BY <3>1, <3>2 DEF SpansOf
  <2>4. joined[1] = a[m - 1][1] /\ joined[2] = a[m][2]
    OBVIOUS
  <2> HIDE DEF joined
  <2>5. /\ q \in Seq(SpansOf(n)) /\ Len(q) = m - 1
        /\ \A i \in 1..m - 2 : q[i] = a[i]
        /\ q[m - 1] = joined
    <3> DEFINE rest == SubSeq(a, 1, m - 2)
    <3>1. rest \in Seq(SpansOf(n)) /\ Len(rest) = m - 2 /\ \A i \in 1..m - 2 : rest[i] = a[i]
      <4> DEFINE k == m - 2
      <4>1. a \in Seq(SpansOf(n)) /\ k \in Nat /\ k <= Len(a)
        BY <1>2, <2>2
      <4> HIDE DEF k
      <4> QED
        BY <4>1, Beginning DEF k
    <3> HIDE DEF rest
    <3>2. Append(rest, joined) \in Seq(SpansOf(n)) /\ Len(Append(rest, joined)) = (m - 2) + 1
      BY <2>3, <3>1
    <3>3. \A i \in 1..m - 2 : Append(rest, joined)[i] = rest[i]
      BY <1>2, <3>1
    <3>4. Append(rest, joined)[(m - 2) + 1] = joined
      BY <1>2, <3>1
    <3>5. (m - 2) + 1 = m - 1
      BY <1>2
    <3> QED
      BY <3>1, <3>2, <3>3, <3>4, <3>5 DEF rest
  <2> HIDE DEF q
  <2>6. \A i \in 1..Len(q) : i = m - 1 \/ (i \in 1..m - 2 /\ i \in 1..m)
    BY <1>2, <2>5
  <2>7. \A i \in 1..Len(q) : q[i][2] - q[i][1] <= MaxChars
    BY <1>3, <2>1, <2>4, <2>5, <2>6
  <2>8. ASSUME NEW p \in Ink(text)
        PROVE  Within(q, p)
    <3>1. PICK i \in 1..m : a[i][1] <= p /\ p < a[i][2]
      BY DEF Within
    <3>2. CASE i \in 1..m - 2
      <4>1. i \in 1..Len(q) /\ q[i] = a[i]
        BY <1>2, <2>5, <3>2
      <4> QED
        BY <3>1, <4>1 DEF Within
    <3>3. CASE i \notin 1..m - 2
      <4>1. i = m - 1 \/ i = m
        BY <1>2, <3>3
      <4>2. a[m - 1][1] <= a[i][1] /\ a[i][2] <= a[m][2]
        BY <1>2, <1>3, <2>2, <4>1
      <4>3. /\ a[i][1] \in Int /\ a[i][2] \in Int /\ a[m - 1][1] \in Int /\ a[m][2] \in Int
            /\ p \in Int
        BY <1>2, <2>2
      <4>4. joined[1] <= p /\ p < joined[2]
        BY <2>4, <3>1, <4>2, <4>3
      <4>5. m - 1 \in 1..Len(q) /\ q[m - 1] = joined
        BY <1>2, <2>2, <2>5
      <4> QED
        BY <4>4, <4>5 DEF Within
    <3> QED
      BY <3>2, <3>3
  <2> QED
    BY <2>1, <2>5, <2>7, <2>8 DEF SpansHold
<1> QED
  BY <1>4, <1>5

LEMMA UnitsMerged ==
    ASSUME SplitAssumption, NEW n \in Nat, NEW text, NEW us, AreUnits(us, text, n, 0, n),
           \A p \in Ink(text) : p \in 0..n - 1
    PROVE  SpansHold(Text!MergeUnits(text, us), text, n)
<1> DEFINE m == Len(us)
           first == [spans |-> <<>>, start |-> us[1].start, end |-> us[1].end,
                     structured |-> us[1].kind \in Text!Structured]
           Goes(k, f) == f = [i \in 1..k |-> IF i = 1 THEN first
                                             ELSE Text!MergeUnit(text, f[i - 1], us[i])]
           merged == CHOOSE f : Goes(m, f)
<1>1. Text!MergeUnits(text, us)
        = IF us = <<>> THEN <<>>
          ELSE Text!JoinShortTail(Text!Flush(text, merged[m]).spans)
  BY DEF Text!MergeUnits
<1>2. /\ m \in Nat
      /\ \A i \in 1..m :
            /\ us[i].start \in 0..n /\ us[i].end \in 0..n /\ us[i].start < us[i].end
            /\ EndAt(us, i - 1) <= us[i].start
            /\ \A p \in Ink(text) : p < us[i].start => p < EndAt(us, i - 1)
      /\ \A p \in Ink(text) : p < EndAt(us, m)
  BY UnitParts
<1>3. us = <<>> <=> m = 0
  BY DEF AreUnits
<1> HIDE DEF m, first
<1>4. CASE m = 0
  <2>1. Ink(text) = {}
    BY <1>2, <1>4 DEF EndAt
  <2>2. Text!MergeUnits(text, us) = <<>>
    BY <1>1, <1>3, <1>4
  <2>3. SpansHold(<<>>, text, n)
    BY <2>1 DEF SpansHold
  <2> QED
    BY <2>2, <2>3
<1>5. CASE m # 0
  <2>1. m - 1 \in Nat /\ m \in 1..m /\ 1 \in 1..m
    BY <1>2, <1>5
  <2> DEFINE E == {k \in 0..m - 1 : \E f : Goes(k + 1, f)}
  <2>2. 0 \in E
    <3> DEFINE f == [i \in 1..1 |-> first]
    <3>1. Goes(0 + 1, f)
      OBVIOUS
    <3>2. 0 \in 0..m - 1
      BY <2>1
    <3> HIDE DEF Goes, f
    <3> QED
      BY <3>1, <3>2
  <2>3. ASSUME NEW k \in 1..m - 1, k - 1 \in E
        PROVE  k \in E
    <3>1. k \in Int /\ 1 <= k /\ (k - 1) + 1 = k
      BY <2>1
    <3>2. PICK f : Goes(k, f)
      <4> HIDE DEF Goes
      <4> QED
        BY <2>3, <3>1
    <3> DEFINE Step(i, g) == IF i = 1 THEN first ELSE Text!MergeUnit(text, g[i - 1], us[i])
               h == [i \in 1..k + 1 |-> Step(i, f)]
    <3>3. ASSUME NEW i \in 1..k + 1
          PROVE  Step(i, f) = Step(i, h)
      <4>1. CASE i = 1
        BY <4>1
      <4>2. CASE i # 1
        <5> DEFINE j == i - 1
        <5>1. j \in 1..k /\ j \in 1..k + 1
          BY <3>1, <4>2
        <5> HIDE DEF j
        <5>2. f[j] = Step(j, f) /\ h[j] = Step(j, f)
          <6>1. f = [l \in 1..k |-> Step(l, f)]
            BY <3>2
          <6> HIDE DEF Step
          <6> QED
            BY <5>1, <6>1
        <5>3. f[j] = h[j]
          BY <5>2
        <5> QED
          BY <4>2, <5>3 DEF j
      <4> QED
        BY <4>1, <4>2
    <3>4. Goes(k + 1, h)
      <4>1. h = [i \in 1..k + 1 |-> Step(i, h)]
        <5> HIDE DEF Step
        <5> QED
          BY <3>3
      <4> HIDE DEF h
      <4> QED
        BY <4>1
    <3>5. k \in 0..m - 1
      BY <2>1
    <3> HIDE DEF Goes, h
    <3> QED
      BY <3>4, <3>5
  <2>4. Goes(m, merged)
    <3> HIDE DEF E
    <3>1. \A k \in 0..m - 1 : k \in E
      BY <2>1, <2>2, <2>3, StepByStep
    <3>2. m - 1 \in 0..m - 1 /\ (m - 1) + 1 = m
      BY <2>1
    <3>3. PICK f : Goes(m, f)
      <4> HIDE DEF Goes
      <4>1. \E f : Goes((m - 1) + 1, f)
        BY <3>1, <3>2 DEF E
      <4> QED
        BY <3>2, <4>1
    <3> HIDE DEF Goes
    <3> QED
      BY <3>3
  <2> HIDE DEF E, merged
  <2>5. merged[1] = first /\ \A i \in 2..m : merged[i] = Text!MergeUnit(text, merged[i - 1], us[i])
    <3>1. \A i \in 2..m : i \in 1..m /\ i # 1
      BY <2>1
    <3> QED
      BY <2>1, <2>4, <3>1
  <2> HIDE DEF Goes
  <2> DEFINE P == {k \in 0..m - 1 : /\ Buffer(merged[k + 1], text, n)
                                    /\ merged[k + 1].end = EndAt(us, k + 1)}
  <2>6. 0 \in P
    <3>1. first.spans = <<>> /\ first.start = us[1].start /\ first.end = us[1].end
      BY DEF first
    <3>2. SpanList(<<>>, n, us[1].start)
      BY DEF SpanList
    <3>3. \A p \in Ink(text) : us[1].start <= p
      <4>1. EndAt(us, 1 - 1) = 0
        BY DEF EndAt
      <4>2. us[1].start \in 0..n /\ \A p \in Ink(text) : p < us[1].start => p < 0
        BY <1>2, <2>1, <4>1
      <4> QED
        BY <4>2
    <3>4. Buffer(first, text, n)
      BY <1>2, <2>1, <3>1, <3>2, <3>3 DEF Buffer
    <3>5. EndAt(us, 1) = us[1].end /\ 0 \in 0..m - 1
      BY <2>1 DEF EndAt
    <3> QED
      BY <2>5, <3>1, <3>4, <3>5
  <2>7. ASSUME NEW k \in 1..m - 1, k - 1 \in P
        PROVE  k \in P
    <3> DEFINE i == k + 1
               b == merged[k]
               u == us[i]
    <3>1. i \in 2..m /\ i \in 1..m /\ i - 1 = k /\ (k - 1) + 1 = k /\ k \in 0..m - 1
      BY <2>1
    <3>2. merged[i] = Text!MergeUnit(text, b, u)
      BY <2>5, <3>1
    <3>3. Buffer(b, text, n) /\ b.end = EndAt(us, i - 1)
      BY <2>7, <3>1
    <3> HIDE DEF i
    <3>4. /\ u.start \in 0..n /\ u.end \in 0..n /\ u.start < u.end /\ b.end <= u.start
          /\ \A p \in Ink(text) : p \in 0..n - 1 /\ (p < u.start => p < b.end)
      BY <1>2, <3>1, <3>3
    <3>5. EndAt(us, i) = u.end
      BY <3>1 DEF EndAt
    <3> HIDE DEF b, u
    <3>6. Buffer(merged[i], text, n) /\ merged[i].end = u.end
      BY <3>2, <3>3, <3>4, MergeKeeps
    <3> QED
      BY <3>1, <3>5, <3>6 DEF i
  <2>8. Buffer(merged[m], text, n) /\ merged[m].end = EndAt(us, m)
    <3>1. m - 1 \in 0..m - 1 /\ (m - 1) + 1 = m
      BY <2>1
    <3>2. m - 1 \in P
      <4> HIDE DEF P
      <4>1. \A k \in 0..m - 1 : k \in P
        BY <2>1, <2>6, <2>7, StepByStep
      <4> QED
        BY <3>1, <4>1
    <3> QED
      BY <3>1, <3>2
  <2> DEFINE b == merged[m]
             a == Text!Flush(text, b).spans
  <2>9. SpanList(a, n, b.end) /\ \A p \in Ink(text) : p < b.end => Within(a, p)
    <3>1. Buffer(b, text, n)
      BY <2>8
    <3> HIDE DEF b
    <3> QED
      BY <3>1, FlushKeeps
  <2>10. b.end \in 0..n
    BY <2>8 DEF Buffer
  <2>11. \A p \in Ink(text) : Within(a, p)
    BY <1>2, <2>8, <2>9
  <2>12. Text!MergeUnits(text, us) = Text!JoinShortTail(a)
    BY <1>1, <1>3, <1>5
  <2> HIDE DEF a, b
  <2>13. SpanList(a, n, n)
    <3>1. \A i \in 1..Len(a) : a[i][2] \in 0..n /\ a[i][2] <= b.end
      BY <2>9, SpansWithin DEF SpanList
    <3>2. \A i \in 1..Len(a) : a[i][2] <= n
      BY <3>1
    <3> QED
      BY <2>9, <3>2 DEF SpanList
  <2>14. SpansHold(Text!JoinShortTail(a), text, n)
    BY <2>11, <2>13, TailJoined
  <2> QED
    BY <2>12, <2>14
<1> QED
  BY <1>4, <1>5

Trimmed(t, text, n, s, e) ==
    /\ t \in (0..n) \X (0..n)
    /\ Ink(text) \cap (s..e - 1) = {} => t = <<e, e>>
    /\ Ink(text) \cap (s..e - 1) # {} =>
          /\ s <= t[1] /\ t[1] < t[2] /\ t[2] <= e
          /\ t[1] \in Ink(text) /\ t[2] - 1 \in Ink(text)
          /\ \A p \in Ink(text) \cap (s..e - 1) : t[1] <= p /\ p < t[2]

LEMMA TrimTrims ==
    ASSUME NEW n \in Nat, NEW C, NEW text \in [0..n - 1 -> C], NEW s \in 0..n, NEW e \in 0..n
    PROVE  Trimmed(Text!Trim(text, s, e), text, n, s, e)
<1> DEFINE t == Text!Trim(text, s, e)
<1>1. /\ t \in (0..n) \X (0..n)
      /\ Ink(text) \cap (s..e - 1) = {} => t = <<e, e>>
      /\ Ink(text) \cap (s..e - 1) # {} =>
            /\ s <= t[1] /\ t[1] < t[2] /\ t[2] <= e
            /\ t[1] \in Ink(text) /\ t[2] - 1 \in Ink(text)
            /\ \A p \in Ink(text) \cap (s..e - 1) : t[1] <= p /\ p < t[2]
  BY TrimIs
<1> HIDE DEF t
<1>2. Trimmed(t, text, n, s, e)
  BY <1>1 DEF Trimmed
<1> QED
  BY <1>2 DEF t

\* Trimming what is trimmed changes nothing.
LEMMA TrimTwice ==
    ASSUME NEW n \in Nat, NEW C, NEW text \in [0..n - 1 -> C], NEW s \in 0..n, NEW e \in 0..n
    PROVE  LET t == Text!Trim(text, s, e)
           IN  t[1] < t[2] => Text!Trim(text, t[1], t[2]) = t
<1> DEFINE t == Text!Trim(text, s, e)
           a == t[1]
           b == t[2]
           u == Text!Trim(text, a, b)
<1> SUFFICES ASSUME a < b PROVE u = t
  OBVIOUS
<1>0. Trimmed(t, text, n, s, e)
  BY TrimTrims
<1> HIDE DEF t
<1>1. a \in 0..n /\ b \in 0..n /\ t = <<a, b>>
  BY <1>0 DEF Trimmed
<1>2. a \in Ink(text) /\ b - 1 \in Ink(text)
  <2>1. CASE Ink(text) \cap (s..e - 1) # {}
    BY <1>0, <2>1 DEF Trimmed
  <2>2. CASE Ink(text) \cap (s..e - 1) = {}
    <3>1. t = <<e, e>>
      BY <1>0, <2>2 DEF Trimmed
    <3> QED
      BY <3>1
  <2> QED
    BY <2>1, <2>2
<1> HIDE DEF a, b
<1>3. a \in Ink(text) \cap (a..b - 1) /\ b - 1 \in Ink(text) \cap (a..b - 1)
  BY <1>1, <1>2
<1>4. /\ u \in (0..n) \X (0..n) /\ a <= u[1] /\ u[2] <= b
      /\ \A p \in Ink(text) \cap (a..b - 1) : u[1] <= p /\ p < u[2]
  <2>1. Trimmed(u, text, n, a, b)
    BY <1>1, TrimTrims
  <2> HIDE DEF u
  <2> QED
    BY <1>3, <2>1 DEF Trimmed
<1> DEFINE c == b - 1
           x == u[1]
           y == u[2]
<1>5. x \in Int /\ y \in Int /\ a <= x /\ y <= b /\ u = <<x, y>>
  BY <1>4
<1>6. x <= a /\ x <= c /\ c < y
  BY <1>3, <1>4
<1> HIDE DEF x, y, u
<1>7. x = a /\ y = b
  BY <1>1, <1>5, <1>6
<1> QED
  BY <1>1, <1>5, <1>7 DEF u, t, a, b

\* For any text and any lengths, the chunks hold all the text that is not white, none of them
\* is too long, and none begins or ends with white space.
THEOREM SplitCoversText ==
    ASSUME SplitAssumption, NEW n \in Nat, NEW C, NEW text \in [0..n - 1 -> C]
    PROVE  Text!ChunksCover(text, Text!Split(text))
<1> DEFINE units == Text!Coalesce(Text!ParagraphUnits(text))
           spans == Text!MergeUnits(text, units)
           m == Len(spans)
           T(i) == Text!Trim(text, spans[i][1], spans[i][2])
           Chunk1(i) == [start |-> T(i)[1], end |-> T(i)[2],
                         heading |-> Text!HeadingCovering(units, T(i)[1], T(i)[2])]
           ss == [i \in 1..m |-> Text!ChunkOf(text, units, spans[i])]
           U == {Chunk1(i) : i \in 1..m}
           chunks == Text!Split(text)
<1>1. \A p \in Ink(text) : p \in 0..n - 1
  BY DEF Ink
<1>2. SpansHold(spans, text, n)
  <2>1. AreUnits(Text!ParagraphUnits(text), text, n, 0, n)
    BY ParagraphUnitsAre
  <2>2. AreUnits(units, text, n, 0, n)
    BY <1>1, <2>1, CoalesceAre
  <2> HIDE DEF units
  <2> QED
    BY <1>1, <2>2, UnitsMerged
<1>3. chunks = Text!FlattenSeq([i \in DOMAIN spans |-> Text!ChunkOf(text, units, spans[i])])
  BY DEF Text!Split
<1> HIDE DEF units, spans
<1>4. spans \in Seq(SpansOf(n)) /\ DOMAIN spans = 1..m
  BY <1>2 DEF SpansHold
<1>5. /\ m \in Nat
      /\ \A i \in 1..m : /\ spans[i][1] \in 0..n /\ spans[i][2] \in 0..n
                         /\ spans[i][1] < spans[i][2]
  BY <1>4, SpansWithin
<1>6. /\ \A i \in 1..m : spans[i][2] - spans[i][1] <= MaxChars
      /\ \A p \in Ink(text) : \E i \in 1..m : spans[i][1] <= p /\ p < spans[i][2]
  BY <1>2 DEF SpansHold, Within
<1>7. chunks = Text!FlattenSeq(ss)
  BY <1>3, <1>4
<1>8. \A i \in 1..m : Text!ChunkOf(text, units, spans[i])
                       = IF T(i)[1] >= T(i)[2] THEN <<>> ELSE <<Chunk1(i)>>
  BY DEF Text!ChunkOf
<1> HIDE DEF m, chunks
<1>9. \A i \in 1..m : /\ T(i)[1] \in 0..n /\ T(i)[2] \in 0..n /\ T(i) = <<T(i)[1], T(i)[2]>>
                      /\ T(i)[1] < T(i)[2] =>
                            /\ spans[i][1] <= T(i)[1] /\ T(i)[2] <= spans[i][2]
                            /\ Text!Trim(text, T(i)[1], T(i)[2]) = T(i)
  <2> TAKE i \in 1..m
  <2> DEFINE s == spans[i][1]
             e == spans[i][2]
             t == Text!Trim(text, s, e)
  <2>1. s \in 0..n /\ e \in 0..n
    BY <1>5
  <2> HIDE DEF s, e
  <2>2. /\ t \in (0..n) \X (0..n)
        /\ Ink(text) \cap (s..e - 1) = {} => t = <<e, e>>
        /\ Ink(text) \cap (s..e - 1) # {} => s <= t[1] /\ t[2] <= e
    <3>1. Trimmed(t, text, n, s, e)
      BY <2>1, TrimTrims
    <3> HIDE DEF t
    <3> QED
      BY <3>1 DEF Trimmed
  <2>3. t[1] < t[2] => Text!Trim(text, t[1], t[2]) = t
    BY <2>1, TrimTwice
  <2> HIDE DEF t
  <2>4. t[1] \in 0..n /\ t[2] \in 0..n /\ t = <<t[1], t[2]>>
    BY <2>2
  <2>5. t[1] < t[2] => s <= t[1] /\ t[2] <= e
    <3>1. CASE Ink(text) \cap (s..e - 1) = {}
      <4>1. t[1] = e /\ t[2] = e
        BY <2>2, <3>1
      <4> QED
        BY <2>1, <4>1
    <3> QED
      BY <2>2, <3>1
  <2> QED
    BY <2>3, <2>4, <2>5 DEF s, e, t
<1>10. \A p \in Ink(text) : \E i \in 1..m : T(i)[1] <= p /\ p < T(i)[2]
  <2> TAKE p \in Ink(text)
  <2>1. PICK i \in 1..m : spans[i][1] <= p /\ p < spans[i][2]
    BY <1>6
  <2> DEFINE s == spans[i][1]
             e == spans[i][2]
             t == Text!Trim(text, s, e)
  <2>2. s \in 0..n /\ e \in 0..n
    BY <1>5
  <2>3. p \in s..e - 1
    BY <1>1, <2>1, <2>2
  <2> HIDE DEF s, e
  <2>4. p \in Ink(text) \cap (s..e - 1)
    BY <2>3
  <2>5. t[1] <= p /\ p < t[2]
    <3>1. Trimmed(t, text, n, s, e)
      BY <2>2, TrimTrims
    <3> HIDE DEF t
    <3> QED
      BY <2>4, <3>1 DEF Trimmed
  <2> QED
    BY <2>5 DEF s, e, t
<1>11. \A i \in 1..m : Chunk1(i).start = T(i)[1] /\ Chunk1(i).end = T(i)[2]
  OBVIOUS
<1>12. \A i \in 1..m : ss[i] = IF T(i)[1] >= T(i)[2] THEN <<>> ELSE <<Chunk1(i)>>
  <2> HIDE DEF T, Chunk1
  <2> QED
    BY <1>8
<1> HIDE DEF T, Chunk1
<1>13. ss \in [1..m -> Seq(U)]
  <2>1. \A i \in 1..m : Chunk1(i) \in U
    OBVIOUS
  <2> HIDE DEF U
  <2>2. \A i \in 1..m : <<>> \in Seq(U) /\ <<Chunk1(i)>> \in Seq(U)
    BY <2>1
  <2>3. \A i \in 1..m : ss[i] \in Seq(U)
    BY <1>12, <2>2
  <2> QED
    BY <2>3
<1>14. ss = [i \in 1..m |-> ss[i]]
  OBVIOUS
<1> HIDE DEF U, ss
<1>15. /\ chunks \in Seq(U)
       /\ \A i \in 1..m : Range(ss[i]) \subseteq Range(chunks)
       /\ \A x \in Range(chunks) : \E i \in 1..m : x \in Range(ss[i])
  BY <1>5, <1>7, <1>13, FlattenHolds
<1>16. Range(<<>>) = {} /\ \A x : Range(<<x>>) = {x}
  BY DEF Range
<1>17. \A c \in Range(chunks) : \E i \in 1..m : T(i)[1] < T(i)[2] /\ c = Chunk1(i)
  <2> TAKE c \in Range(chunks)
  <2>1. PICK i \in 1..m : c \in Range(ss[i])
    BY <1>15
  <2>2. T(i)[1] \in Int /\ T(i)[2] \in Int
    BY <1>9
  <2>3. CASE T(i)[1] >= T(i)[2]
    BY <1>12, <1>16, <2>1, <2>3
  <2>4. CASE ~(T(i)[1] >= T(i)[2])
    <3>1. c = Chunk1(i)
      BY <1>12, <1>16, <2>1, <2>4
    <3> QED
      BY <2>2, <2>4, <3>1
  <2> QED
    BY <2>3, <2>4
<1>18. \A i \in 1..m : T(i)[1] < T(i)[2] => Chunk1(i) \in Range(chunks)
  <2> SUFFICES ASSUME NEW i \in 1..m, T(i)[1] < T(i)[2]
               PROVE  Chunk1(i) \in Range(chunks)
    OBVIOUS
  <2>1. ~(T(i)[1] >= T(i)[2])
    BY <1>9
  <2> QED
    BY <1>12, <1>15, <1>16, <2>1
<1>19. Text!ToSet(chunks) = Range(chunks)
  BY <1>15 DEF Text!ToSet, Range
<1>20. ASSUME NEW c \in Range(chunks)
       PROVE  /\ 0 < c.end - c.start /\ c.end - c.start <= MaxChars
              /\ <<c.start, c.end>> = Text!Trim(text, c.start, c.end)
  <2>1. PICK i \in 1..m : T(i)[1] < T(i)[2] /\ c = Chunk1(i)
    BY <1>17
  <2> DEFINE a == T(i)[1]
             b == T(i)[2]
  <2>2. c.start = a /\ c.end = b
    BY <1>11, <2>1
  <2>3. /\ a \in Int /\ b \in Int /\ a < b /\ spans[i][1] \in Int /\ spans[i][2] \in Int
        /\ spans[i][1] <= a /\ b <= spans[i][2] /\ spans[i][2] - spans[i][1] <= MaxChars
    BY <1>5, <1>6, <1>9, <2>1
  <2>4. Text!Trim(text, a, b) = <<a, b>>
    BY <1>9, <2>1
  <2> HIDE DEF a, b
  <2>5. MaxChars \in Int
    BY DEF SplitAssumption
  <2>6. 0 < b - a /\ b - a <= MaxChars
    BY <2>3, <2>5
  <2> QED
    BY <2>2, <2>4, <2>6
<1>21. ASSUME NEW p \in Ink(text)
       PROVE  \E c \in Range(chunks) : p \in c.start..c.end - 1
  <2>1. PICK i \in 1..m : T(i)[1] <= p /\ p < T(i)[2]
    BY <1>10
  <2> DEFINE a == T(i)[1]
             b == T(i)[2]
  <2>2. a \in Int /\ b \in Int /\ p \in Int
    BY <1>1, <1>9
  <2>3. Chunk1(i).start = a /\ Chunk1(i).end = b
    BY <1>11
  <2>4. a <= p /\ p < b
    BY <2>1
  <2>5. Chunk1(i) \in Range(chunks)
    <3>1. a < b
      <4> HIDE DEF a, b
      <4> QED
        BY <2>2, <2>4
    <3> QED
      BY <1>18, <3>1
  <2> HIDE DEF a, b
  <2>6. p \in a..b - 1
    BY <2>2, <2>4
  <2> QED
    BY <2>3, <2>5, <2>6
<1>22. {p \in DOMAIN text : text[p] \notin Text!White}
         \subseteq UNION {c.start..c.end - 1 : c \in Range(chunks)}
  <2>1. Ink(text) \subseteq UNION {c.start..c.end - 1 : c \in Range(chunks)}
    BY <1>21
  <2> QED
    BY <2>1 DEF Ink
<1>23. Text!ChunksCover(text, chunks)
  BY <1>19, <1>20, <1>22 DEF Text!ChunksCover
<1> QED
  BY <1>23 DEF chunks
=============================================================================
