---------------------------- MODULE TablesProofs ----------------------------
(***************************************************************************)
(* Proofs about the tables a query is answered from, for every data set    *)
(* and every choice of the parameters.  QueryDispatch: the rows computed   *)
(* in advance are the intersections, and answers match the query and are   *)
(* exact.  KMeans: an iteration of the team is a round of the sequential   *)
(* algorithm, and the lists it leaves hold the nearest points.             *)
(* LabelTables: the transposed matrix has the vectors of each label, its   *)
(* table finds the position of each, and rows act as sets of labels.       *)
(***************************************************************************)
EXTENDS QueryDispatch, KMeans, LabelTables, LeastNumber, FiniteSetTheorems

Members(s) == {s[k] : k \in DOMAIN s}
Distinct(s) == \A k, l \in DOMAIN s : s[k] = s[l] => k = l

\* R orders S without ties.
Orders(R, S) ==
    /\ \A x \in S : <<x, x>> \notin R
    /\ \A x, y, z \in S : <<x, y>> \in R /\ <<y, z>> \in R => <<x, z>> \in R
    /\ \A x, y \in S : x = y \/ <<x, y>> \in R \/ <<y, x>> \in R

Before(S, R, v) == {w \in S : <<w, v>> \in R}

\* Of two members the later one has more before it.
LEMMA BeforeGrows ==
  ASSUME NEW S, IsFiniteSet(S), NEW R, Orders(R, S), NEW v \in S, NEW w \in S, <<v, w>> \in R
  PROVE  Cardinality(Before(S, R, v)) < Cardinality(Before(S, R, w))
<1> DEFINE A == Before(S, R, v)
           C == Before(S, R, w)
<1>1. A \subseteq C /\ v \in C /\ v \notin A
  BY DEF Before, Orders
<1>2. IsFiniteSet(C)
  BY FS_Subset DEF Before
<1> HIDE DEF A, C
<1>3. /\ Cardinality(A) <= Cardinality(C) /\ (Cardinality(C) = Cardinality(A) => C = A)
      /\ IsFiniteSet(A)
  BY <1>1, <1>2, FS_Subset
<1>4. Cardinality(A) \in Nat /\ Cardinality(C) \in Nat
  BY <1>2, <1>3, FS_CardinalityType
<1>5. A # C
  BY <1>1
<1>6. Cardinality(A) < Cardinality(C)
  BY <1>3, <1>4, <1>5
<1>. QED
  BY <1>6 DEF A, C

\* Each number of members before it is taken by one member.
LEMMA RanksTaken ==
  ASSUME NEW S, IsFiniteSet(S), NEW R, Orders(R, S)
  PROVE  /\ Cardinality(S) \in Nat
         /\ \A v \in S : Cardinality(Before(S, R, v)) \in 0 .. Cardinality(S) - 1
         /\ \A v, w \in S : Cardinality(Before(S, R, v)) = Cardinality(Before(S, R, w)) => v = w
         /\ \A k \in 0 .. Cardinality(S) - 1 : \E v \in S : Cardinality(Before(S, R, v)) = k
<1> DEFINE n == Cardinality(S)
           rank == [v \in S |-> Cardinality(Before(S, R, v))]
<1>1. n \in Nat
  BY FS_CardinalityType
<1>2. ASSUME NEW v \in S PROVE Cardinality(Before(S, R, v)) \in 0 .. n - 1
  <2> DEFINE A == Before(S, R, v)
  <2>1. A \in SUBSET S /\ A # S
    BY DEF Before, Orders
  <2> HIDE DEF A
  <2>2. IsFiniteSet(A) /\ Cardinality(A) <= n /\ Cardinality(A) # n
    BY <2>1, FS_Subset
  <2>3. Cardinality(A) \in Nat
    BY <2>2, FS_CardinalityType
  <2>4. Cardinality(A) \in 0 .. n - 1
    BY <1>1, <2>2, <2>3
  <2>. QED
    BY <2>4 DEF A
<1>3. ASSUME NEW v \in S, NEW w \in S, Cardinality(Before(S, R, v)) = Cardinality(Before(S, R, w))
      PROVE  v = w
  <2>1. ASSUME NEW x \in S, NEW y \in S, <<x, y>> \in R
        PROVE  Cardinality(Before(S, R, x)) # Cardinality(Before(S, R, y))
    <3>1. Cardinality(Before(S, R, x)) < Cardinality(Before(S, R, y))
      BY <2>1, BeforeGrows
    <3>2. Cardinality(Before(S, R, x)) \in Nat /\ Cardinality(Before(S, R, y)) \in Nat
      BY <1>1, <1>2
    <3>. QED
      BY <3>1, <3>2
  <2>. QED
    BY <1>3, <2>1 DEF Orders
<1>4. rank \in Injection(S, 0 .. n - 1)
  <2>1. rank \in [S -> 0 .. n - 1]
    BY <1>2
  <2>2. \A a, b \in S : rank[a] = rank[b] => a = b
    BY <1>3
  <2> HIDE DEF rank
  <2>. QED
    BY <2>1, <2>2 DEF Injection, IsInjective
<1>5. IsFiniteSet(0 .. n - 1) /\ Cardinality(0 .. n - 1) = n
  <2>1. 0 \in Int /\ n - 1 \in Int
    BY <1>1
  <2>2. IsFiniteSet(0 .. n - 1) /\ Cardinality(0 .. n - 1) = IF 0 > n - 1 THEN 0 ELSE n - 1 - 0 + 1
    BY <2>1, FS_Interval
  <2>. QED
    BY <1>1, <2>2
<1>6. rank \in Surjection(S, 0 .. n - 1)
  <2> HIDE DEF rank
  <2>. QED
    BY <1>4, <1>5, FS_Injection
<1>7. \A k \in 0 .. n - 1 : \E v \in S : rank[v] = k
  BY <1>6 DEF Surjection
<1>. QED
  BY <1>1, <1>2, <1>3, <1>7

\* InOrder is an enumeration of S in the order R.
LEMMA InOrderFacts ==
  ASSUME NEW S, IsFiniteSet(S), NEW R, Orders(R, S)
  PROVE  /\ Cardinality(S) \in Nat /\ InOrder(S, R) \in [1 .. Cardinality(S) -> S]
         /\ \A v \in S : \E k \in 1 .. Cardinality(S) : InOrder(S, R)[k] = v
         /\ \A k, l \in 1 .. Cardinality(S) : k < l => <<InOrder(S, R)[k], InOrder(S, R)[l]>> \in R
         /\ \A k \in 1 .. Cardinality(S) : Cardinality(Before(S, R, InOrder(S, R)[k])) = k - 1
<1> DEFINE n == Cardinality(S)
           s == InOrder(S, R)
<1>1. /\ n \in Nat
      /\ \A v \in S : Cardinality(Before(S, R, v)) \in 0 .. n - 1
      /\ \A v, w \in S : Cardinality(Before(S, R, v)) = Cardinality(Before(S, R, w)) => v = w
      /\ \A k \in 0 .. n - 1 : \E v \in S : Cardinality(Before(S, R, v)) = k
  BY RanksTaken
<1>2. s = [k \in 1 .. n |-> CHOOSE v \in S : Cardinality(Before(S, R, v)) = k - 1]
  BY DEF InOrder, Before
<1> HIDE DEF s, n
<1>3. ASSUME NEW k \in 1 .. n
      PROVE  s[k] \in S /\ Cardinality(Before(S, R, s[k])) = k - 1
  <2>1. k - 1 \in 0 .. n - 1
    BY <1>1
  <2>2. \E v \in S : Cardinality(Before(S, R, v)) = k - 1
    BY <1>1, <2>1
  <2>. QED
    BY <1>2, <2>2
<1>4. s \in [1 .. n -> S]
  <2>1. DOMAIN s = 1 .. n /\ s = [k \in 1 .. n |-> s[k]]
    BY <1>2
  <2>. QED
    BY <1>3, <2>1
<1>5. ASSUME NEW v \in S PROVE \E k \in 1 .. n : s[k] = v
  <2>1. PICK r : r = Cardinality(Before(S, R, v))
    OBVIOUS
  <2>2. r \in 0 .. n - 1
    BY <1>1, <2>1
  <2>3. r + 1 \in 1 .. n /\ r + 1 - 1 = r
    BY <1>1, <2>2
  <2>4. PICK k : k = r + 1
    OBVIOUS
  <2>5. k \in 1 .. n /\ k - 1 = r
    BY <1>1, <2>2, <2>4
  <2>6. s[k] \in S /\ Cardinality(Before(S, R, s[k])) = r
    BY <1>3, <2>5
  <2>. QED
    BY <1>1, <2>1, <2>5, <2>6
<1>6. ASSUME NEW k \in 1 .. n, NEW l \in 1 .. n, k < l PROVE <<s[k], s[l]>> \in R
  <2>1. s[k] # s[l]
    BY <1>1, <1>3, <1>6
  <2>2. ASSUME <<s[l], s[k]>> \in R PROVE FALSE
    <3>1. Cardinality(Before(S, R, s[l])) < Cardinality(Before(S, R, s[k]))
      BY <1>3, <2>2, BeforeGrows
    <3>. QED
      BY <1>1, <1>3, <1>6, <3>1
  <2>. QED
    BY <1>3, <2>1, <2>2 DEF Orders
<1>. QED
  BY <1>1, <1>3, <1>4, <1>5, <1>6 DEF s, n

\* It is the only one.
LEMMA InOrderUnique ==
  ASSUME NEW S, IsFiniteSet(S), NEW R, Orders(R, S), NEW n \in Nat, NEW s \in [1 .. n -> S],
         \A v \in S : \E k \in 1 .. n : s[k] = v,
         \A k, l \in 1 .. n : k < l => <<s[k], s[l]>> \in R
  PROVE  s = InOrder(S, R) /\ n = Cardinality(S)
<1>0. ASSUME NEW k \in 1 .. n, NEW l \in 1 .. n, k < l
      PROVE  /\ <<s[k], s[l]>> \in R /\ <<s[l], s[k]>> \notin R /\ s[k] # s[l]
  <2>1. s[k] \in S /\ s[l] \in S /\ <<s[k], s[l]>> \in R
    BY <1>0
  <2>. QED
    BY <2>1 DEF Orders
<1>1. ASSUME NEW k \in 1 .. n, NEW l \in 1 .. n
      PROVE  (<<s[k], s[l]>> \in R <=> k < l) /\ (s[k] = s[l] => k = l)
  <2>1. k = l \/ k < l \/ l < k
    OBVIOUS
  <2>2. CASE k = l
    <3>1. s[k] \in S /\ <<s[k], s[k]>> \notin R /\ ~ (k < l)
      BY <2>2 DEF Orders
    <3>. QED
      BY <2>2, <3>1
  <2>3. CASE k < l
    BY <1>0, <2>3
  <2>4. CASE l < k
    <3>1. <<s[k], s[l]>> \notin R /\ s[k] # s[l] /\ ~ (k < l)
      BY <1>0, <2>4
    <3>. QED
      BY <3>1
  <2>. QED
    BY <2>1, <2>2, <2>3, <2>4
<1>2. \A k, l \in 1 .. n : s[k] = s[l] => k = l
  BY <1>1
<1>3. ASSUME NEW m \in 0 .. n, NEW T, \A v : v \in T <=> \E k \in 1 .. m : s[k] = v
      PROVE  Cardinality(T) = m
  <2> DEFINE f == [k \in 1 .. m |-> s[k]]
  <2>1. f \in [1 .. m -> T]
    BY <1>3
  <2>2. \A a, b \in 1 .. m : f[a] = f[b] => a = b
    BY <1>2
  <2>3. \A v \in T : \E a \in 1 .. m : f[a] = v
    BY <1>3
  <2> HIDE DEF f
  <2>4. f \in Injection(1 .. m, T) /\ f \in Surjection(1 .. m, T)
    BY <2>1, <2>2, <2>3 DEF Injection, IsInjective, Surjection
  <2>5. IsFiniteSet(1 .. m) /\ Cardinality(1 .. m) = m
    <3>1. 1 \in Int /\ m \in Int
      OBVIOUS
    <3>2. IsFiniteSet(1 .. m) /\ Cardinality(1 .. m) = IF 1 > m THEN 0 ELSE m - 1 + 1
      BY <3>1, FS_Interval
    <3>. QED
      BY <3>2
  <2>6. Cardinality(T) = Cardinality(1 .. m)
    BY <2>4, <2>5, FS_Surjection
  <2>. QED
    BY <2>5, <2>6
<1>4. n = Cardinality(S)
  <2>1. \A v : v \in S <=> \E k \in 1 .. n : s[k] = v
    OBVIOUS
  <2>. QED
    BY <1>3, <2>1
<1>5. ASSUME NEW k \in 1 .. n PROVE Cardinality(Before(S, R, s[k])) = k - 1
  <2> DEFINE T == Before(S, R, s[k])
  <2>1. \A v : v \in T <=> \E l \in 1 .. k - 1 : s[l] = v
    <3>1. ASSUME NEW v \in T PROVE \E l \in 1 .. k - 1 : s[l] = v
      <4>1. v \in S /\ <<v, s[k]>> \in R
        BY DEF Before
      <4>2. PICK l \in 1 .. n : s[l] = v
        BY <4>1
      <4>3. l < k
        BY <1>1, <4>1, <4>2
      <4>4. l \in 1 .. k - 1
        BY <4>3
      <4>. QED
        BY <4>2, <4>4
    <3>2. ASSUME NEW l \in 1 .. k - 1 PROVE s[l] \in T
      <4>1. l \in 1 .. n /\ l < k
        OBVIOUS
      <4>. QED
        BY <1>1, <4>1 DEF Before
    <3>. QED
      BY <3>1, <3>2
  <2>2. k - 1 \in 0 .. n
    OBVIOUS
  <2> HIDE DEF T
  <2>3. Cardinality(T) = k - 1
    BY <1>3, <2>1, <2>2
  <2>. QED
    BY <2>3 DEF T
<1>6. /\ InOrder(S, R) \in [1 .. n -> S]
      /\ \A k \in 1 .. n : Cardinality(Before(S, R, InOrder(S, R)[k])) = k - 1
  BY <1>4, InOrderFacts
<1>7. \A v, w \in S : Cardinality(Before(S, R, v)) = Cardinality(Before(S, R, w)) => v = w
  BY RanksTaken
<1>8. ASSUME NEW k \in 1 .. n PROVE s[k] = InOrder(S, R)[k]
  BY <1>5, <1>6, <1>7
<1>. QED
  BY <1>4, <1>6, <1>8

\* Numbers are in the order <.
LEMMA NumbersOrdered ==
  ASSUME NEW S \in SUBSET Int
  PROVE  Orders({p \in S \X S : p[1] < p[2]}, S)
BY DEF Orders

\* Ascending enumerates a set of numbers upwards.
LEMMA AscendingFacts ==
  ASSUME NEW S \in SUBSET Int, IsFiniteSet(S)
  PROVE  /\ Cardinality(S) \in Nat /\ Ascending(S) \in [1 .. Cardinality(S) -> S]
         /\ Ascending(S) \in Seq(S) /\ Len(Ascending(S)) = Cardinality(S)
         /\ DOMAIN Ascending(S) = 1 .. Cardinality(S)
         /\ \A v \in S : \E k \in 1 .. Cardinality(S) : Ascending(S)[k] = v
         /\ \A k, l \in 1 .. Cardinality(S) : k < l => Ascending(S)[k] < Ascending(S)[l]
         /\ Members(Ascending(S)) = S /\ Distinct(Ascending(S))
<1> DEFINE R == {p \in S \X S : p[1] < p[2]}
           n == Cardinality(S)
<1>1. Orders(R, S)
  BY NumbersOrdered
<1>2. \A x, y \in S : <<x, y>> \in R <=> x < y
  OBVIOUS
<1>3. PICK s : s = Ascending(S)
  OBVIOUS
<1>4. s = InOrder(S, R)
  BY <1>3 DEF Ascending
<1> HIDE DEF R
<1>5. /\ n \in Nat /\ s \in [1 .. n -> S]
      /\ \A v \in S : \E k \in 1 .. n : s[k] = v
      /\ \A k, l \in 1 .. n : k < l => <<s[k], s[l]>> \in R
  BY <1>1, <1>4, InOrderFacts
<1> HIDE DEF n
<1>6. \A k, l \in 1 .. n : k < l => s[k] < s[l]
  BY <1>2, <1>5
<1>7. s \in Seq(S) /\ Len(s) = n /\ DOMAIN s = 1 .. n
  BY <1>5
<1>8. Members(s) = S
  BY <1>5 DEF Members
<1>9. Distinct(s)
  <2>1. ASSUME NEW k \in 1 .. n, NEW l \in 1 .. n, s[k] = s[l] PROVE k = l
    <3>1. s[k] \in Int
      BY <1>5
    <3>2. k = l \/ k < l \/ l < k
      BY <1>5
    <3>. QED
      BY <1>6, <2>1, <3>1, <3>2
  <2>. QED
    BY <1>7, <2>1 DEF Distinct
<1>. QED
  BY <1>3, <1>5, <1>6, <1>7, <1>8, <1>9 DEF n

\* An upward enumeration is Ascending.
LEMMA AscendingUnique ==
  ASSUME NEW S \in SUBSET Int, IsFiniteSet(S), NEW n \in Nat, NEW s \in [1 .. n -> S],
         \A v \in S : \E k \in 1 .. n : s[k] = v,
         \A k, l \in 1 .. n : k < l => s[k] < s[l]
  PROVE  s = Ascending(S) /\ n = Cardinality(S)
<1>0. PICK f : f = s
  OBVIOUS
<1> DEFINE R == {p \in S \X S : p[1] < p[2]}
<1>1. Orders(R, S)
  BY NumbersOrdered
<1>2. \A k, l \in 1 .. n : k < l => <<f[k], f[l]>> \in R
  BY <1>0
<1>3. Ascending(S) = InOrder(S, R)
  BY DEF Ascending
<1> HIDE DEF R
<1>4. PICK U : U = S
  OBVIOUS
<1>5. /\ IsFiniteSet(U) /\ Orders(R, U) /\ f \in [1 .. n -> U]
      /\ \A v \in U : \E k \in 1 .. n : f[k] = v
  BY <1>0, <1>1, <1>4
<1>6. f = InOrder(U, R) /\ n = Cardinality(U)
  BY <1>2, <1>5, InOrderUnique
<1>. QED
  BY <1>0, <1>3, <1>4, <1>6

\* A scan of an upward row that takes the members of T goes up through those of both.
LEMMA OnlyAscending ==
  ASSUME NEW S \in SUBSET Int, IsFiniteSet(S), NEW T
  PROVE  Only(Ascending(S), T) = Ascending(S \cap T)
<1> DEFINE n == Cardinality(S)
           D == {k \in 1 .. n : Ascending(S)[k] \in T}
           m == Cardinality(D)
<1>1. PICK s : s = Ascending(S)
  OBVIOUS
<1>2. /\ n \in Nat /\ s \in [1 .. n -> S] /\ DOMAIN s = 1 .. n
      /\ \A v \in S : \E k \in 1 .. n : s[k] = v
      /\ \A k, l \in 1 .. n : k < l => s[k] < s[l]
  BY <1>1, AscendingFacts
<1> HIDE DEF n
<1>3. IsFiniteSet(1 .. n)
  BY <1>2, FS_Interval
<1>4. D \in SUBSET Int /\ IsFiniteSet(D) /\ D \subseteq 1 .. n
  <2>1. D \in SUBSET (1 .. n) /\ 1 .. n \subseteq Int
    OBVIOUS
  <2> HIDE DEF D
  <2>2. IsFiniteSet(D)
    BY <1>3, <2>1, FS_Subset
  <2>. QED
    BY <2>1, <2>2
<1>5. D = {k \in DOMAIN s : s[k] \in T}
  BY <1>1, <1>2
<1> HIDE DEF D
<1>6. PICK pos : pos = Ascending(D)
  OBVIOUS
<1>7. /\ m \in Nat /\ pos \in [1 .. m -> D] /\ DOMAIN pos = 1 .. m
      /\ \A k \in D : \E l \in 1 .. m : pos[l] = k
      /\ \A k, l \in 1 .. m : k < l => pos[k] < pos[l]
  BY <1>4, <1>6, AscendingFacts
<1> HIDE DEF m
<1>8. Only(s, T) = [l \in 1 .. m |-> s[pos[l]]]
  BY <1>5, <1>6, <1>7 DEF Only
<1>9. PICK r : r = [l \in 1 .. m |-> s[pos[l]]]
  OBVIOUS
<1>10. \A l \in 1 .. m : pos[l] \in 1 .. n /\ s[pos[l]] \in S \cap T
  BY <1>2, <1>4, <1>5, <1>7
<1>11. r \in [1 .. m -> S \cap T]
  BY <1>9, <1>10
<1>12. \A v \in S \cap T : \E l \in 1 .. m : r[l] = v
  <2>1. SUFFICES ASSUME NEW v \in S \cap T PROVE \E l \in 1 .. m : r[l] = v
    OBVIOUS
  <2>2. PICK k \in 1 .. n : s[k] = v
    BY <1>2
  <2>3. k \in D
    BY <1>2, <1>5, <2>2
  <2>4. PICK l \in 1 .. m : pos[l] = k
    BY <1>7, <2>3
  <2>. QED
    BY <1>9, <2>2, <2>4
<1>13. \A k, l \in 1 .. m : k < l => r[k] < r[l]
  BY <1>2, <1>7, <1>9, <1>10
<1>14. S \cap T \in SUBSET Int /\ IsFiniteSet(S \cap T)
  BY FS_Subset
<1>15. r = Ascending(S \cap T)
  <2>1. PICK U : U = S \cap T
    OBVIOUS
  <2>2. /\ U \in SUBSET Int /\ IsFiniteSet(U) /\ m \in Nat /\ r \in [1 .. m -> U]
        /\ \A v \in U : \E l \in 1 .. m : r[l] = v
    BY <1>7, <1>11, <1>12, <1>14, <2>1
  <2>3. r = Ascending(U)
    BY <1>13, <2>2, AscendingUnique
  <2>. QED
    BY <2>1, <2>3
<1>. QED
  BY <1>1, <1>8, <1>9, <1>15
-----------------------------------------------------------------------------
(* The inductive invariant. *)

\* The pairs of big labels, and those whose row has been computed.
Pairs == {p \in (DOMAIN big) \X (DOMAIN big) : p[1] < p[2]}
Done == {p \in Pairs : p[1] < i \/ (phase = "pairs" /\ p[1] = i /\ p[2] < j)}

\* The row of two big labels: their vectors, or the value that says it is too large.
PairRow(x, y) == LET both == Group(big[x]) \cap Group(big[y])
               IN  IF Cardinality(both) > cutoff[1] THEN TooLarge ELSE Ascending(both)

DataInv ==
    /\ filters \in [V -> SUBSET Labels] /\ member \in [V -> Clusters]
    /\ cutoff \in Nat \X Nat /\ numClusters \in Nat
    /\ phase \in {"bits", "pairs", "idle", "scan", "cluster", "answered"}

RowsInv ==
    /\ precomp \in Seq(Seq(Int)) /\ Len(precomp) = Cardinality(Done)
    /\ \A p \in Done : precomp[Pos(p[1], p[2])] = PairRow(p[1], p[2])

OfflineInv ==
    /\ i \in 1 .. Len(big) + 1
    /\ phase = "bits" => bits = {}
    /\ phase = "pairs" => /\ i <= Len(big) /\ j \in i + 1 .. Len(big) + 1
                          /\ bits = Group(big[i])
    /\ phase \notin {"bits", "pairs"} => i = Len(big) + 1
    /\ bits \subseteq V
    /\ RowsInv

Asked == phase \in {"scan", "cluster", "answered"}

\* The vectors of the answer that the search has come to.
Reached == IF case = "ivf" THEN {v \in Matching : \E k \in 1 .. clusters : member[v] = NearestFirst[k]}
                           ELSE Matching

\* b holds the K nearest vectors of S.
BestOf(b, S) ==
    /\ b \in [1 .. K -> Int \X Int]
    /\ \A k \in 1 .. K : b[k] = Sentinel \/ \E v \in S : b[k] = <<Distance[v], v>>
    /\ \A k, l \in 1 .. K : k < l => Below(b[k], b[l]) \/ (b[k] = Sentinel /\ b[l] = Sentinel)
    /\ \A v \in S : (\E k \in 1 .. K : b[k] = <<Distance[v], v>>) \/ b[K][1] <= Distance[v]

QueryInv ==
    /\ case \in {"", "brute", "brute2", "precomp", "ivf"}
    /\ Asked => /\ case # ""
                /\ case = "brute" => \E a \in Labels : query = <<a>>
                /\ case # "brute" => \E a, b \in Labels : query = <<a, b>>

SearchInv ==
    /\ Asked => /\ Distinct(todo) /\ Members(todo) \subseteq Reached
                /\ BestOf(best, Reached \ Members(todo))
    /\ todo \in Seq(V) /\ best \in [1 .. K -> Int \X Int]
    /\ phase \in {"cluster", "answered"} => todo = <<>>
    /\ phase = "answered" => results = [k \in 1 .. K |-> best[k][2]]

ClusterInv ==
    /\ clusters \in 0 .. Cardinality(Clusters)
    /\ Asked /\ case = "ivf" =>
          /\ near = [k \in 1 .. Cardinality(Clusters) - clusters |-> NearestFirst[clusters + k]]
          /\ clusters <= 1 \/ clusters <= numClusters
          /\ phase = "answered" => near = <<>> \/ (clusters > 0 /\ clusters >= numClusters)
    /\ phase = "cluster" => case = "ivf"

DispatchInv == DataInv /\ OfflineInv /\ QueryInv /\ SearchInv /\ ClusterInv
-----------------------------------------------------------------------------
(* The list of the K best. *)

\* The order of the entries: by distance, then by vector.
LEMMA BelowFacts ==
  ASSUME NEW p \in Int \X Int, NEW q \in Int \X Int, NEW r \in Int \X Int
  PROVE  /\ p = q \/ Below(p, q) \/ Below(q, p)
         /\ Below(p, q) => ~ Below(q, p) /\ p # q /\ p[1] <= q[1]
         /\ Below(p, q) /\ Below(q, r) => Below(p, r)
<1>1. /\ p[1] \in Int /\ p[2] \in Int /\ q[1] \in Int /\ q[2] \in Int /\ r[1] \in Int /\ r[2] \in Int
      /\ (p[1] = q[1] /\ p[2] = q[2] => p = q)
  OBVIOUS
<1>. QED
  BY <1>1 DEF Below

\* A set of positions with every position before one of its own is a beginning.
LEMMA Beginning ==
  ASSUME NEW n \in Nat, NEW P \in SUBSET (1 .. n), \A k, l \in 1 .. n : k < l /\ l \in P => k \in P
  PROVE  Cardinality(P) \in 0 .. n /\ P = 1 .. Cardinality(P)
<1> DEFINE Q == {k \in 1 .. n + 1 : k \notin P}
<1>1. n + 1 \in Q /\ Q \in SUBSET Nat
  OBVIOUS
<1>2. PICK m \in Q : \A k \in Q : m <= k
  BY <1>1, LeastNat
<1>3. m - 1 \in 0 .. n /\ P = 1 .. m - 1
  <2>0. m \in 1 .. n + 1 /\ m \notin P
    BY <1>2
  <2>1. ASSUME NEW k \in P PROVE k \in 1 .. m - 1
    <3>1. k \in 1 .. n /\ k # m /\ ~ (m < k)
      BY <2>0
    <3>. QED
      BY <2>0, <3>1
  <2>2. ASSUME NEW k \in 1 .. m - 1 PROVE k \in P
    <3>1. k \in 1 .. n + 1 /\ ~ (m <= k)
      BY <2>0
    <3>. QED
      BY <1>2, <3>1
  <2>3. P = 1 .. m - 1
    <3>1. \A k : k \in P <=> k \in 1 .. m - 1
      BY <2>1, <2>2
    <3>2. PICK T : T = 1 .. m - 1
      OBVIOUS
    <3>3. P = T
      BY <3>1, <3>2, Zenon
    <3>. QED
      BY <3>2, <3>3
  <2>. QED
    BY <2>0, <2>3
<1>4. Cardinality(1 .. m - 1) = m - 1
  <2>1. 1 \in Int /\ m - 1 \in Int
    OBVIOUS
  <2>2. Cardinality(1 .. m - 1) = IF 1 > m - 1 THEN 0 ELSE m - 1 - 1 + 1
    BY <2>1, FS_Interval
  <2>. QED
    BY <1>3, <2>2
<1>. QED
  BY <1>3, <1>4

\* An empty search has found the nearest of no vector.
LEMMA NothingFound == BestOf(NoneYet, {}) /\ NoneYet \in [1 .. K -> Int \X Int]
<1>1. Sentinel \in Int \X Int
  BY DispatchAssumption DEF Sentinel
<1>. QED
  BY <1>1 DEF BestOf, NoneYet

\* A list with the K nearest of S has, when v was considered, the K nearest of S and v.
LEMMA ConsiderKeepsBest ==
  ASSUME NEW S \in SUBSET V, NEW v \in V, v \notin S, NEW b, BestOf(b, S)
  PROVE  BestOf(Consider(b, v), S \cup {v})
<1>1. /\ K \in Nat \ {0} /\ Far \in Nat /\ Distance \in [V -> Nat]
      /\ \A w \in V : Distance[w] < Far /\ w \in Int /\ Distance[w] \in Int
      /\ Sentinel \in Int \X Int /\ Sentinel[1] = Far
  BY DispatchAssumption DEF Sentinel, V
<1>2. PICK new : new = <<Distance[v], v>>
  OBVIOUS
<1>3. new \in Int \X Int /\ new[1] = Distance[v] /\ new[1] < Far
  BY <1>1, <1>2
<1>4. /\ b \in [1 .. K -> Int \X Int]
      /\ \A k \in 1 .. K : b[k] = Sentinel \/ \E w \in S : b[k] = <<Distance[w], w>>
      /\ \A k, l \in 1 .. K : k < l => Below(b[k], b[l]) \/ (b[k] = Sentinel /\ b[l] = Sentinel)
      /\ \A w \in S : (\E k \in 1 .. K : b[k] = <<Distance[w], w>>) \/ b[K][1] <= Distance[w]
  BY DEF BestOf
<1>5. \A k \in 1 .. K : b[k] \in Int \X Int /\ b[k][1] \in Int
  BY <1>4
<1>6. CASE ~ (Distance[v] < b[K][1])
  <2>1. Consider(b, v) = b
    BY <1>6 DEF Consider
  <2>2. K \in 1 .. K
    BY <1>1
  <2>3. b[K][1] <= Distance[v]
    BY <1>1, <1>5, <1>6, <2>2
  <2>. QED
    BY <1>4, <2>1, <2>3 DEF BestOf
<1>7. CASE Distance[v] < b[K][1]
  <2>1. PICK P : P = {k \in 1 .. K - 1 : Below(b[k], new)}
    OBVIOUS
  <2>2. ASSUME NEW k \in 1 .. K - 1, NEW l \in 1 .. K - 1, k < l, l \in P PROVE k \in P
    <3>1. Below(b[l], new) /\ k \in 1 .. K /\ l \in 1 .. K
      BY <1>1, <2>1, <2>2
    <3>2. b[l] # Sentinel
      BY <1>1, <1>3, <3>1 DEF Below
    <3>3. Below(b[k], b[l])
      BY <1>4, <2>2, <3>1, <3>2
    <3>4. Below(b[k], new)
      BY <1>3, <1>5, <3>1, <3>3, BelowFacts
    <3>. QED
      BY <2>1, <3>4
  <2>3. PICK c : c = Cardinality(P)
    OBVIOUS
  <2>4. c \in 0 .. K - 1 /\ P = 1 .. c
    <3>1. K - 1 \in Nat /\ P \in SUBSET (1 .. K - 1)
      BY <1>1, <2>1
    <3>. QED
      BY <2>2, <2>3, <3>1, Beginning
  <2>5. PICK n : n = Consider(b, v)
    OBVIOUS
  <2>6. n = [k \in 1 .. K |-> IF k < c + 1 THEN b[k] ELSE IF k = c + 1 THEN new ELSE b[k - 1]]
    <3>1. 1 + c = c + 1
      BY <2>4
    <3>. QED
      BY <1>2, <1>7, <2>1, <2>3, <2>5, <3>1 DEF Consider
  <2>7. \A k \in 1 .. K : k < c + 1 => n[k] = b[k] /\ Below(b[k], new)
    <3>1. SUFFICES ASSUME NEW k \in 1 .. K, k < c + 1 PROVE n[k] = b[k] /\ k \in P
      BY <2>1
    <3>. QED
      BY <2>4, <2>6, <3>1
  <2>8. c + 1 \in 1 .. K /\ n[c + 1] = new
    BY <1>1, <2>4, <2>6
  <2>9. ASSUME NEW k \in 1 .. K, k > c + 1
        PROVE  n[k] = b[k - 1] /\ k - 1 \in 1 .. K /\ k - 1 > c
    <3>1. ~ (k < c + 1) /\ k # c + 1 /\ k - 1 \in 1 .. K /\ k - 1 > c
      BY <1>1, <2>4, <2>9
    <3>. QED
      BY <2>6, <3>1
  <2>10. ASSUME NEW k \in 1 .. K, k > c PROVE Below(new, b[k])
    <3>1. ~ Below(b[k], new)
      <4>1. CASE k = K
        BY <1>1, <1>3, <1>5, <1>7, <4>1 DEF Below
      <4>2. CASE k # K
        <5>1. k \in 1 .. K - 1 /\ k \notin P
          BY <1>1, <2>4, <2>10, <4>2
        <5>. QED
          BY <2>1, <5>1
      <4>. QED
        BY <4>1, <4>2
    <3>2. b[k] # new
      <4>1. b[k] # Sentinel => b[k] # new
        BY <1>2, <1>4
      <4>2. Sentinel # new
        BY <1>1, <1>3
      <4>. QED
        BY <4>1, <4>2
    <3>. QED
      BY <1>3, <1>5, <3>1, <3>2, BelowFacts
  <2>11. ASSUME NEW k \in 1 .. K
         PROVE  \/ k < c + 1 /\ n[k] = b[k] /\ Below(b[k], new)
                \/ k = c + 1 /\ n[k] = new
                \/ k > c + 1 /\ \E m \in 1 .. K : m = k - 1 /\ m > c /\ n[k] = b[m]
    <3>1. k < c + 1 \/ k = c + 1 \/ k > c + 1
      BY <2>4
    <3>. QED
      BY <2>7, <2>8, <2>9, <3>1
  <2>12. n \in [1 .. K -> Int \X Int]
    <3>1. \A k \in 1 .. K : n[k] \in Int \X Int
      BY <1>3, <1>5, <2>11
    <3>2. n = [k \in 1 .. K |-> n[k]]
      BY <2>6
    <3>. QED
      BY <3>1, <3>2
  <2>13. \A k \in 1 .. K : n[k] = Sentinel \/ \E w \in S \cup {v} : n[k] = <<Distance[w], w>>
    BY <1>2, <1>4, <2>11
  <2>14. ASSUME NEW k \in 1 .. K, NEW l \in 1 .. K, k < l
         PROVE  Below(n[k], n[l]) \/ (n[k] = Sentinel /\ n[l] = Sentinel)
    <3>1. CASE l < c + 1
      <4>1. k < c + 1
        BY <2>4, <2>14, <3>1
      <4>. QED
        BY <1>4, <2>7, <2>14, <3>1, <4>1
    <3>2. CASE l = c + 1
      BY <2>7, <2>8, <2>14, <3>2
    <3>3. CASE l > c + 1
      <4>1. PICK m \in 1 .. K : m = l - 1 /\ m > c /\ n[l] = b[m]
        BY <2>4, <2>9, <3>3
      <4>2. Below(new, b[m])
        BY <2>10, <4>1
      <4>3. CASE k < c + 1
        <5>1. n[k] = b[k] /\ Below(b[k], new)
          BY <2>7, <4>3
        <5>. QED
          BY <1>3, <1>5, <4>1, <4>2, <5>1, BelowFacts
      <4>4. CASE k = c + 1
        BY <2>8, <4>1, <4>2, <4>4
      <4>5. CASE k > c + 1
        <5>1. PICK h \in 1 .. K : h = k - 1 /\ n[k] = b[h]
          BY <2>4, <2>9, <4>5
        <5>2. h < m
          BY <2>14, <4>1, <5>1
        <5>. QED
          BY <1>4, <4>1, <5>1, <5>2
      <4>. QED
        BY <2>4, <4>3, <4>4, <4>5
    <3>. QED
      BY <2>4, <3>1, <3>2, <3>3
  <2>15. K \in 1 .. K /\ n[K][1] <= b[K][1]
    <3>1. K \in 1 .. K
      BY <1>1
    <3>2. CASE K = c + 1
      <4>1. n[K] = new /\ b[K][1] \in Int
        BY <1>5, <2>8, <3>1, <3>2
      <4>. QED
        BY <1>1, <1>3, <1>7, <3>1, <4>1
    <3>3. CASE K > c + 1
      <4>1. n[K] = b[K - 1] /\ K - 1 \in 1 .. K /\ K - 1 < K
        BY <1>1, <2>9, <3>1, <3>3
      <4>2. PICK m \in 1 .. K : m = K - 1 /\ n[K] = b[m] /\ m < K
        BY <4>1
      <4>3. Below(b[m], b[K]) \/ b[m] = b[K]
        BY <1>4, <3>1, <4>2
      <4>4. b[m] \in Int \X Int /\ b[K] \in Int \X Int
        BY <1>5, <3>1
      <4>. QED
        BY <3>1, <4>2, <4>3, <4>4, BelowFacts
    <3>. QED
      BY <1>1, <2>4, <3>1, <3>2, <3>3
  <2>16. ASSUME NEW w \in S \cup {v}
         PROVE  (\E k \in 1 .. K : n[k] = <<Distance[w], w>>) \/ n[K][1] <= Distance[w]
    <3>1. CASE w = v
      BY <1>2, <2>8, <3>1
    <3>2. CASE w # v
      <4>0. w \in S /\ Distance[w] \in Int /\ n[K][1] \in Int /\ b[K][1] \in Int
        BY <1>1, <1>5, <2>12, <2>15, <3>2
      <4>1. CASE b[K][1] <= Distance[w]
        BY <2>15, <4>0, <4>1
      <4>2. CASE \E k \in 1 .. K : b[k] = <<Distance[w], w>>
        <5>1. PICK k \in 1 .. K : b[k] = <<Distance[w], w>>
          BY <4>2
        <5>2. CASE k < c + 1
          BY <2>7, <5>1, <5>2
        <5>3. CASE ~ (k < c + 1) /\ k < K
          <6>0. k + 1 \in 1 .. K
            BY <1>1, <5>3
          <6>1. PICK m \in 1 .. K : m = k + 1
            BY <6>0
          <6>2. m > c + 1 /\ m - 1 = k
            BY <2>4, <5>3, <6>1
          <6>3. n[m] = b[k]
            BY <2>9, <6>1, <6>2
          <6>. QED
            BY <5>1, <6>3
        <5>4. CASE k = K
          <6>1. b[K][1] = Distance[w]
            BY <5>1, <5>4
          <6>. QED
            BY <2>15, <4>0, <6>1
        <5>. QED
          BY <1>1, <5>2, <5>3, <5>4
      <4>. QED
        BY <1>4, <4>0, <4>1, <4>2
    <3>. QED
      BY <3>1, <3>2
  <2>. QED
    BY <2>5, <2>12, <2>13, <2>14, <2>16 DEF BestOf
<1>. QED
  BY <1>6, <1>7
-----------------------------------------------------------------------------
(* The offline loops. *)

\* Groups are finite sets of vectors, and vectors are numbers.
LEMMA GroupFacts ==
         /\ V \in SUBSET Int /\ IsFiniteSet(V) /\ -1 \notin V
         /\ \A S \in SUBSET V : S \in SUBSET Int /\ IsFiniteSet(S) /\ Cardinality(S) \in Nat
         /\ \A f : Group(f) \in SUBSET V /\ Size(f) \in Nat
<1>1. V \in SUBSET Int /\ -1 \notin V
  BY DispatchAssumption DEF V
<1>2. IsFiniteSet(V)
  <2>1. 0 \in Int /\ N - 1 \in Int
    BY DispatchAssumption
  <2>. QED
    BY <2>1, FS_Interval DEF V
<1>3. ASSUME NEW S \in SUBSET V
      PROVE  S \in SUBSET Int /\ IsFiniteSet(S) /\ Cardinality(S) \in Nat
  <2>1. IsFiniteSet(S)
    BY <1>2, FS_Subset
  <2>2. Cardinality(S) \in Nat
    BY <2>1, FS_CardinalityType
  <2>. QED
    BY <1>1, <2>1, <2>2
<1>4. \A f : Group(f) \in SUBSET V
  BY DEF Group
<1>. QED
  BY <1>1, <1>2, <1>3, <1>4 DEF Size

\* big is the labels over the cut-off, each once.
LEMMA BigFacts ==
         /\ Len(big) \in Nat /\ DOMAIN big = 1 .. Len(big)
         /\ \A k \in 1 .. Len(big) : big[k] \in Labels /\ Size(big[k]) > BigCutoff
         /\ \A f \in Labels : Size(f) > BigCutoff => ibig(f) \in 1 .. Len(big) /\ big[ibig(f)] = f
<1> DEFINE B == {f \in Labels : Size(f) > BigCutoff}
<1>0. Labels \subseteq Int /\ IsFiniteSet(Labels)
  BY DispatchAssumption
<1>1. B \in SUBSET Int /\ B \in SUBSET Labels /\ IsFiniteSet(Labels)
  BY <1>0
<1>2. \A f : f \in B <=> f \in Labels /\ Size(f) > BigCutoff
  OBVIOUS
<1>3. big = Ascending(B)
  BY DEF big
<1> HIDE DEF B
<1>4. IsFiniteSet(B)
  BY <1>1, FS_Subset
<1>5. PICK s : s = Ascending(B)
  OBVIOUS
<1>6. /\ Cardinality(B) \in Nat /\ s \in [1 .. Cardinality(B) -> B]
      /\ Len(s) = Cardinality(B) /\ DOMAIN s = 1 .. Cardinality(B)
      /\ \A f \in B : \E k \in 1 .. Cardinality(B) : s[k] = f
  BY <1>1, <1>4, <1>5, AscendingFacts
<1>7. ASSUME NEW f \in B PROVE ibig(f) \in DOMAIN s /\ s[ibig(f)] = f
  <2>1. \E k \in DOMAIN s : s[k] = f
    BY <1>6
  <2>. QED
    BY <1>3, <1>5, <2>1 DEF ibig
<1>. QED
  BY <1>2, <1>3, <1>5, <1>6, <1>7

\* A row is a sequence of numbers.
LEMMA RowFacts ==
  ASSUME NEW S \in SUBSET V, NEW T
  PROVE  /\ Ascending(S) \in Seq(V) /\ Members(Ascending(S)) = S /\ Distinct(Ascending(S))
         /\ Len(Ascending(S)) = Cardinality(S) /\ Ascending(S) \in Seq(Int)
         /\ Only(Ascending(S), T) = Ascending(S \cap T)
         /\ Ascending(S) # TooLarge
<1>1. S \in SUBSET Int /\ IsFiniteSet(S) /\ V \in SUBSET Int /\ -1 \notin V /\ Cardinality(S) \in Nat
  BY GroupFacts
<1>2. PICK s : s = Ascending(S)
  OBVIOUS
<1>3. /\ s \in [1 .. Cardinality(S) -> S] /\ Len(s) = Cardinality(S)
      /\ Members(s) = S /\ Distinct(s)
  BY <1>1, <1>2, AscendingFacts
<1>4. Only(s, T) = Ascending(S \cap T)
  BY <1>1, <1>2, OnlyAscending
<1>5. PICK n : n = Cardinality(S)
  OBVIOUS
<1>6. n \in Nat /\ s \in [1 .. n -> V] /\ s \in [1 .. n -> Int]
  BY <1>1, <1>3, <1>5
<1>7. s \in Seq(V) /\ s \in Seq(Int)
  BY <1>6
<1>8. s # TooLarge
  <2>1. ASSUME s = TooLarge PROVE FALSE
    <3>1. 1 \in DOMAIN s /\ s[1] = -1
      BY <2>1 DEF TooLarge
    <3>2. s[1] \in V
      BY <1>6, <3>1
    <3>. QED
      BY <1>1, <3>1, <3>2
  <2>. QED
    BY <2>1
<1>. QED
  BY <1>2, <1>3, <1>4, <1>7, <1>8

\* What depends on the data alone stays.
LEMMA DataKept ==
  ASSUME UNCHANGED data
  PROVE  /\ filters' = filters /\ member' = member /\ cutoff' = cutoff /\ numClusters' = numClusters
         /\ big' = big /\ Pairs' = Pairs
         /\ \A f : Group(f)' = Group(f)
         /\ \A x, y : PairRow(x, y)' = PairRow(x, y)
         /\ \A x, y : Pos(x, y)' = Pos(x, y)
<1>1. filters' = filters /\ member' = member /\ cutoff' = cutoff /\ numClusters' = numClusters
  BY DEF data
<1>2. \A f : Group(f)' = Group(f)
  BY <1>1 DEF Group
<1>3. big' = big
  BY <1>2 DEF big, Size
<1>. QED
  BY <1>1, <1>2, <1>3 DEF Pairs, PairRow, Pos

\* The pairs numbered before a pair.
PairsBefore(a, b) == {p \in Pairs : p[1] < a \/ (p[1] = a /\ p[2] < b)}

LEMMA PairsFacts ==
         /\ \A S \in SUBSET Pairs : IsFiniteSet(S) /\ Cardinality(S) \in Nat
         /\ \A a, b : PairsBefore(a, b) \in SUBSET Pairs /\ Pos(a, b) = 1 + Cardinality(PairsBefore(a, b))
<1>1. PICK D : D = DOMAIN big
  OBVIOUS
<1>2. IsFiniteSet(D)
  <2>1. D = 1 .. Len(big) /\ Len(big) \in Int /\ 1 \in Int
    BY <1>1, BigFacts
  <2>. QED
    BY <2>1, FS_Interval
<1>3. IsFiniteSet(D \X D)
  BY <1>2, FS_Product
<1>4. Pairs \in SUBSET (D \X D)
  BY <1>1 DEF Pairs
<1>5. ASSUME NEW S \in SUBSET Pairs PROVE IsFiniteSet(S) /\ Cardinality(S) \in Nat
  <2>1. PICK U : U = D \X D
    OBVIOUS
  <2>2. IsFiniteSet(U) /\ S \in SUBSET U
    BY <1>3, <1>4, <2>1
  <2>3. IsFiniteSet(S)
    BY <2>2, FS_Subset
  <2>. QED
    BY <2>3, FS_CardinalityType
<1>6. ASSUME NEW a, NEW b
      PROVE  PairsBefore(a, b) \in SUBSET Pairs /\ Pos(a, b) = 1 + Cardinality(PairsBefore(a, b))
  <2>1. PICK X : X = {p \in D \X D : p[1] < p[2] /\ (p[1] < a \/ (p[1] = a /\ p[2] < b))}
    OBVIOUS
  <2>2. Pos(a, b) = 1 + Cardinality(X)
    BY <1>1, <2>1 DEF Pos
  <2>3. PairsBefore(a, b) = X
    BY <1>1, <2>1 DEF PairsBefore, Pairs
  <2>. QED
    BY <2>2, <2>3 DEF PairsBefore
<1>. QED
  BY <1>5, <1>6

\* The place of a computed row is within precomp.
LEMMA PlaceOfDone ==
  ASSUME NEW X \in SUBSET Pairs, NEW p \in X, PairsBefore(p[1], p[2]) \subseteq X
  PROVE  Pos(p[1], p[2]) \in 1 .. Cardinality(X)
<1>1. PICK Y : Y = PairsBefore(p[1], p[2])
  OBVIOUS
<1>2. p[1] \in 1 .. Len(big) /\ p[2] \in 1 .. Len(big) /\ Len(big) \in Nat
  BY BigFacts DEF Pairs
<1>3. Y \in SUBSET X /\ p \notin Y
  BY <1>1, <1>2 DEF PairsBefore
<1>4. /\ Pos(p[1], p[2]) = 1 + Cardinality(Y)
      /\ IsFiniteSet(X) /\ Cardinality(X) \in Nat /\ Y \in SUBSET Pairs
  BY <1>1, PairsFacts
<1>5. Cardinality(Y) \in Nat
  BY <1>4, PairsFacts
<1>6. Cardinality(Y) <= Cardinality(X) /\ (Cardinality(Y) = Cardinality(X) => Y = X)
  BY <1>3, <1>4, FS_Subset
<1>7. Y # X
  BY <1>3
<1>. QED
  BY <1>4, <1>5, <1>6, <1>7

\* With a row computed, all rows before it are.
LEMMA DoneIsPrefix ==
  ASSUME DataInv, OfflineInv, NEW p \in Done
  PROVE  PairsBefore(p[1], p[2]) \subseteq Done
<1>1. /\ i \in Int /\ (phase = "pairs" => j \in Int) /\ Done \in SUBSET Pairs
      /\ \A q \in Pairs : q[1] \in Int /\ q[2] \in Int
  BY BigFacts DEF OfflineInv, Done, Pairs
<1>2. p \in Pairs /\ (p[1] < i \/ (phase = "pairs" /\ p[1] = i /\ p[2] < j))
  BY DEF Done
<1>3. SUFFICES ASSUME NEW q \in Pairs, q[1] < p[1] \/ (q[1] = p[1] /\ q[2] < p[2])
               PROVE  q[1] < i \/ (phase = "pairs" /\ q[1] = i /\ q[2] < j)
  BY DEF PairsBefore, Done
<1>4. p[1] \in Int /\ p[2] \in Int /\ q[1] \in Int /\ q[2] \in Int
  BY <1>1, <1>2
<1>. QED
  BY <1>1, <1>2, <1>3, <1>4

\* A step that computes no row and moves to where as many are done keeps them.
LEMMA RowsKept ==
  ASSUME OfflineInv, UNCHANGED data, precomp' = precomp, Done' = Done
  PROVE  RowsInv'
<1>1. /\ precomp \in Seq(Seq(Int)) /\ Len(precomp) = Cardinality(Done)
      /\ \A p \in Done : precomp[Pos(p[1], p[2])] = PairRow(p[1], p[2])
  BY DEF OfflineInv, RowsInv
<1>2. /\ \A x, y : Pos(x, y)' = Pos(x, y)
      /\ \A x, y : PairRow(x, y)' = PairRow(x, y)
  BY DataKept
<1>. QED
  BY <1>1, <1>2 DEF RowsInv

LEMMA SetBitsKeepsRows ==
  ASSUME DataInv, OfflineInv, SetBits
  PROVE  OfflineInv'
<1>1. /\ phase = "bits" /\ i <= Len(big) /\ bits' = bits \cup Group(big[i])
      /\ j' = i + 1 /\ phase' = "pairs" /\ UNCHANGED data /\ i' = i /\ precomp' = precomp
  BY DEF SetBits
<1>2. /\ big' = big /\ Pairs' = Pairs /\ \A f : Group(f)' = Group(f)
  BY <1>1, DataKept
<1>3. i \in 1 .. Len(big) + 1 /\ bits = {} /\ Len(big) \in Nat
  BY <1>1, BigFacts DEF OfflineInv
<1>4. Done' = Done
  <2>1. \A q \in Pairs : q[1] \in Int /\ q[2] \in Int /\ q[1] < q[2]
    BY BigFacts DEF Pairs
  <2>2. Done = {q \in Pairs : q[1] < i}
    BY <1>1 DEF Done
  <2>3. Done' = {q \in Pairs : q[1] < i \/ (q[1] = i /\ q[2] < i + 1)}
    BY <1>1, <1>2 DEF Done
  <2>4. \A q \in Pairs : q[1] < i \/ (q[1] = i /\ q[2] < i + 1) <=> q[1] < i
    BY <1>3, <2>1
  <2>. QED
    BY <2>2, <2>3, <2>4
<1>5. RowsInv'
  BY <1>1, <1>4, RowsKept
<1>6. i' \in 1 .. Len(big') + 1 /\ i' <= Len(big') /\ j' \in i' + 1 .. Len(big') + 1
  BY <1>1, <1>2, <1>3
<1>7. bits' = Group(big[i]) /\ bits' = Group(big[i])' /\ bits' \subseteq V
  <2>1. bits' = Group(big[i])
    BY <1>1, <1>3
  <2>2. Group(big[i])' = Group(big[i])
    BY <1>1, <1>2 DEF Group
  <2>. QED
    BY <2>1, <2>2 DEF Group
<1>. QED
  BY <1>1, <1>5, <1>6, <1>7 DEF OfflineInv

LEMMA ClearBitsKeepsRows ==
  ASSUME DataInv, OfflineInv, ClearBits
  PROVE  OfflineInv'
<1>1. /\ phase = "pairs" /\ j > Len(big)
      /\ bits' = {v \in bits : \A w \in Group(big[i]) : v \div WordSize # w \div WordSize}
      /\ i' = i + 1 /\ phase' = "bits" /\ UNCHANGED data /\ precomp' = precomp
  BY DEF ClearBits
<1>2. /\ big' = big /\ Pairs' = Pairs /\ \A f : Group(f)' = Group(f)
  BY <1>1, DataKept
<1>3. /\ i \in 1 .. Len(big) + 1 /\ i <= Len(big) /\ j \in i + 1 .. Len(big) + 1
      /\ bits = Group(big[i]) /\ Len(big) \in Nat
  BY <1>1, BigFacts DEF OfflineInv
<1>4. Done' = Done
  <2>1. \A q \in Pairs : q[1] \in 1 .. Len(big) /\ q[2] \in 1 .. Len(big)
    BY BigFacts DEF Pairs
  <2>2. Done = {q \in Pairs : q[1] < i \/ (q[1] = i /\ q[2] < j)}
    BY <1>1 DEF Done
  <2>3. Done' = {q \in Pairs : q[1] < i + 1}
    BY <1>1, <1>2 DEF Done
  <2>4. j = Len(big) + 1
    BY <1>1, <1>3
  <2>5. \A q \in Pairs : q[1] < i \/ (q[1] = i /\ q[2] < j) <=> q[1] < i + 1
    BY <1>3, <2>1, <2>4
  <2>. QED
    BY <2>2, <2>3, <2>5
<1>5. RowsInv'
  BY <1>1, <1>4, RowsKept
<1>6. i' \in 1 .. Len(big') + 1
  BY <1>1, <1>2, <1>3
<1>7. bits' = {}
  BY <1>1, <1>3
<1>. QED
  BY <1>1, <1>5, <1>6, <1>7 DEF OfflineInv

\* A step that leaves the offline state alone, once the rows are there, keeps them.
LEMMA RowsStay ==
  ASSUME OfflineInv, UNCHANGED <<data, offline>>,
         phase = phase' \/ (i = Len(big) + 1 /\ phase' \notin {"bits", "pairs"} /\ phase # "pairs")
  PROVE  OfflineInv'
<1>1. UNCHANGED data /\ precomp' = precomp /\ i' = i /\ j' = j /\ bits' = bits
  BY DEF offline
<1>2. /\ big' = big /\ Pairs' = Pairs /\ \A f : Group(f)' = Group(f)
  BY <1>1, DataKept
<1>3. Done' = Done
  BY <1>1, <1>2 DEF Done
<1>4. RowsInv'
  BY <1>1, <1>3, RowsKept
<1>5. Group(big[i])' = Group(big[i])
  BY <1>1, <1>2 DEF Group
<1>. QED
  BY <1>1, <1>2, <1>4, <1>5 DEF OfflineInv

LEMMA IntersectKeepsRows ==
  ASSUME DataInv, OfflineInv, Intersect
  PROVE  OfflineInv'
<1>1. /\ phase = "pairs" /\ j <= Len(big) /\ j' = j + 1 /\ UNCHANGED data
      /\ phase' = phase /\ i' = i /\ bits' = bits
  BY DEF Intersect
<1>2. /\ big' = big /\ Pairs' = Pairs /\ \A f : Group(f)' = Group(f)
      /\ \A x, y : PairRow(x, y)' = PairRow(x, y)
      /\ \A x, y : Pos(x, y)' = Pos(x, y)
  BY <1>1, DataKept
<1>3. /\ i \in 1 .. Len(big) + 1 /\ i <= Len(big) /\ j \in i + 1 .. Len(big) + 1
      /\ bits = Group(big[i]) /\ Len(big) \in Nat /\ bits \subseteq V
  BY <1>1, BigFacts DEF OfflineInv
<1>4. PICK prow : prow = PairRow(i, j)
  OBVIOUS
<1>5. prow \in Seq(Int) /\ precomp' = Append(precomp, prow)
  <2>1. PICK both : both = Group(big[i]) \cap Group(big[j])
    OBVIOUS
  <2>2. both \in SUBSET V /\ both = Group(big[j]) \cap bits /\ Group(big[j]) \in SUBSET V
    BY <1>3, <2>1, GroupFacts
  <2>3. Only(Row(big[j]), bits) = Ascending(both)
    BY <2>2, RowFacts DEF Row
  <2>4. Len(Ascending(both)) = Cardinality(both) /\ Ascending(both) \in Seq(Int)
    BY <2>2, RowFacts
  <2>5. prow = IF Cardinality(both) > cutoff[1] THEN TooLarge ELSE Ascending(both)
    BY <1>4, <2>1 DEF PairRow
  <2>6. TooLarge \in Seq(Int)
    BY DEF TooLarge
  <2>. QED
    BY <2>3, <2>4, <2>5, <2>6 DEF Intersect
<1>6. PICK p : p = <<i, j>>
  OBVIOUS
<1>7. p \in Pairs /\ p[1] = i /\ p[2] = j
  <2>1. i \in DOMAIN big /\ j \in DOMAIN big /\ i < j
    BY <1>1, <1>3, BigFacts
  <2>. QED
    BY <1>6, <2>1 DEF Pairs
<1>8. PICK D : D = Done
  OBVIOUS
<1>9. D \in SUBSET Pairs /\ p \notin D /\ Done' = D \cup {p} /\ D = PairsBefore(i, j)
  <2>1. \A q \in Pairs : q[1] \in 1 .. Len(big) /\ q[2] \in 1 .. Len(big)
    BY BigFacts DEF Pairs
  <2>2. D = {q \in Pairs : q[1] < i \/ (q[1] = i /\ q[2] < j)}
    BY <1>1, <1>8 DEF Done
  <2>3. Done' = {q \in Pairs : q[1] < i \/ (q[1] = i /\ q[2] < j + 1)}
    BY <1>1, <1>2 DEF Done
  <2>4. p \notin D
    BY <1>3, <1>7, <2>2
  <2>5. \A q \in Pairs : q[1] < i \/ (q[1] = i /\ q[2] < j + 1) <=> (q[1] < i \/ (q[1] = i /\ q[2] < j)) \/ q = p
    <3>1. SUFFICES ASSUME NEW q \in Pairs
                   PROVE  q[1] < i \/ (q[1] = i /\ q[2] < j + 1) <=> (q[1] < i \/ (q[1] = i /\ q[2] < j)) \/ q = p
      OBVIOUS
    <3>2. q = p <=> q[1] = i /\ q[2] = j
      BY <1>6 DEF Pairs
    <3>. QED
      BY <1>3, <2>1, <3>2
  <2>6. Done' = D \cup {p}
    BY <1>7, <2>2, <2>3, <2>5
  <2>. QED
    BY <2>2, <2>4, <2>6 DEF PairsBefore
<1>10. /\ IsFiniteSet(D) /\ Cardinality(D) \in Nat /\ Pos(i, j) = Cardinality(D) + 1
  BY <1>9, PairsFacts
<1>11. /\ precomp \in Seq(Seq(Int)) /\ Len(precomp) = Cardinality(D)
       /\ \A q \in D : precomp[Pos(q[1], q[2])] = PairRow(q[1], q[2])
  BY <1>8 DEF OfflineInv, RowsInv
<1>12. Cardinality(Done') = Cardinality(D) + 1
  BY <1>9, <1>10, FS_AddElement
<1>13. /\ precomp' \in Seq(Seq(Int)) /\ Len(precomp') = Cardinality(Done')
       /\ precomp'[Cardinality(D) + 1] = prow
       /\ \A k \in 1 .. Cardinality(D) : precomp'[k] = precomp[k]
  BY <1>5, <1>10, <1>11, <1>12
<1>13a. PICK E : E = Done'
  OBVIOUS
<1>14. ASSUME NEW q \in E PROVE precomp'[Pos(q[1], q[2])'] = PairRow(q[1], q[2])'
  <2>1. Pos(q[1], q[2])' = Pos(q[1], q[2]) /\ PairRow(q[1], q[2])' = PairRow(q[1], q[2])
    BY <1>2
  <2>2. CASE q = p
    BY <1>4, <1>7, <1>10, <1>13, <2>1, <2>2
  <2>3. CASE q # p
    <3>1. q \in Done
      BY <1>8, <1>9, <1>13a, <2>3
    <3>2. PairsBefore(q[1], q[2]) \subseteq Done
      BY <3>1, DoneIsPrefix
    <3>3. Pos(q[1], q[2]) \in 1 .. Cardinality(D)
      BY <1>8, <1>9, <3>1, <3>2, PlaceOfDone
    <3>. QED
      BY <1>8, <1>11, <1>13, <2>1, <3>1, <3>3
  <2>. QED
    BY <2>2, <2>3
<1>15. i' \in 1 .. Len(big') + 1 /\ i' <= Len(big') /\ j' \in i' + 1 .. Len(big') + 1
  BY <1>1, <1>2, <1>3
<1>16. bits' = Group(big[i])' /\ bits' \subseteq V
  <2>1. Group(big[i])' = Group(big[i])
    BY <1>1, <1>2 DEF Group
  <2>. QED
    BY <1>1, <1>3, <2>1
<1>17. RowsInv'
  BY <1>13, <1>14, <1>13a DEF RowsInv
<1>. QED
  BY <1>1, <1>15, <1>16, <1>17 DEF OfflineInv
-----------------------------------------------------------------------------
(* Answering a query. *)

\* The clusters are visited from the nearest centroid on, each once.
LEMMA NearestFacts ==
         /\ Cardinality(Clusters) \in Nat /\ NearestFirst \in [1 .. Cardinality(Clusters) -> Clusters]
         /\ \A c \in Clusters : \E k \in 1 .. Cardinality(Clusters) : NearestFirst[k] = c
         /\ \A k, l \in 1 .. Cardinality(Clusters) : NearestFirst[k] = NearestFirst[l] => k = l
         /\ \A k \in 1 .. Cardinality(Clusters) :
               Cardinality({d \in Clusters : <<d, NearestFirst[k]>> \in Nearer}) = k - 1
         /\ \A c \in Clusters : IsFiniteSet({d \in Clusters : <<d, c>> \in Nearer})
<1>1. Clusters \subseteq Int /\ IsFiniteSet(Clusters) /\ CentroidDist \in [Clusters -> Int]
  BY DispatchAssumption
<1>2. Orders(Nearer, Clusters)
  <2>1. \A c \in Clusters : <<CentroidDist[c], c>> \in Int \X Int
    BY <1>1
  <2>2. \A c, d \in Clusters : <<c, d>> \in Nearer <=> Below(<<CentroidDist[c], c>>, <<CentroidDist[d], d>>)
    BY DEF Nearer
  <2>3. \A c, d \in Clusters : <<CentroidDist[c], c>> = <<CentroidDist[d], d>> => c = d
    OBVIOUS
  <2>4. ASSUME NEW c \in Clusters PROVE <<c, c>> \notin Nearer
    BY <2>1, <2>2, BelowFacts
  <2>5. ASSUME NEW c \in Clusters, NEW d \in Clusters, NEW e \in Clusters,
               <<c, d>> \in Nearer, <<d, e>> \in Nearer
        PROVE  <<c, e>> \in Nearer
    BY <2>1, <2>2, <2>5, BelowFacts
  <2>6. ASSUME NEW c \in Clusters, NEW d \in Clusters
        PROVE  c = d \/ <<c, d>> \in Nearer \/ <<d, c>> \in Nearer
    BY <2>1, <2>2, <2>3, BelowFacts
  <2>. QED
    BY <2>4, <2>5, <2>6 DEF Orders
<1>3. PICK n : n = Cardinality(Clusters)
  OBVIOUS
<1>4. PICK s : s = NearestFirst
  OBVIOUS
<1>5. s = InOrder(Clusters, Nearer)
  BY <1>4 DEF NearestFirst
<1>6. /\ n \in Nat /\ s \in [1 .. n -> Clusters]
      /\ \A c \in Clusters : \E k \in 1 .. n : s[k] = c
      /\ \A k, l \in 1 .. n : k < l => <<s[k], s[l]>> \in Nearer
      /\ \A k \in 1 .. n : Cardinality(Before(Clusters, Nearer, s[k])) = k - 1
  BY <1>1, <1>2, <1>3, <1>5, InOrderFacts
<1>7. ASSUME NEW k \in 1 .. n, NEW l \in 1 .. n, s[k] = s[l] PROVE k = l
  <2>1. Cardinality(Before(Clusters, Nearer, s[k])) = k - 1 /\ Cardinality(Before(Clusters, Nearer, s[l])) = l - 1
    BY <1>6
  <2>2. k - 1 = l - 1
    BY <1>7, <2>1
  <2>. QED
    BY <2>2
<1>8. \A k \in 1 .. n : Cardinality({d \in Clusters : <<d, s[k]>> \in Nearer}) = k - 1
  BY <1>6 DEF Before
<1>9. \A c \in Clusters : IsFiniteSet({d \in Clusters : <<d, c>> \in Nearer})
  BY <1>1, FS_Subset
<1>. QED
  BY <1>3, <1>4, <1>6, <1>7, <1>8, <1>9

\* The vectors of an answer are those of the query's labels.
LEMMA MatchingFacts ==
  /\ Matching \in SUBSET V
  /\ \A a : query = <<a>> => Matching = Group(a)
  /\ \A a, b : query = <<a, b>> => Matching = Group(a) \cap Group(b)
<1>1. Matching \in SUBSET V
  BY DEF Matching
<1>2. ASSUME NEW a, query = <<a>> PROVE Matching = Group(a)
  BY <1>2 DEF Matching, Group
<1>3. ASSUME NEW a, NEW b, query = <<a, b>> PROVE Matching = Group(a) \cap Group(b)
  <2>1. DOMAIN query = {1, 2} /\ query[1] = a /\ query[2] = b
    BY <1>3
  <2>. QED
    BY <2>1 DEF Matching, Group
<1>. QED
  BY <1>1, <1>2, <1>3

\* Whichever way a label is tested, the vectors that have it are its group.
LEMMA HavingIsGroup ==
  ASSUME NEW f
  PROVE  Having(f) = Group(f)
BY DEF Having, Has, Group

\* While no query is asked the answering state stays as it was.
LEMMA RestKept ==
  ASSUME DispatchInv, Answering, UNCHANGED data, phase' \in {"bits", "pairs", "idle"}
  PROVE  DataInv' /\ QueryInv' /\ SearchInv' /\ ClusterInv'
<1>1. ~ Asked' /\ phase' \notin {"cluster", "answered"}
  BY DEF Asked
<1>2. DataInv'
  BY DEF DispatchInv, DataInv, data
<1>3. QueryInv'
  BY <1>1 DEF DispatchInv, QueryInv, Answering
<1>4. SearchInv'
  BY <1>1 DEF DispatchInv, SearchInv, Answering
<1>5. ClusterInv'
  BY <1>1 DEF DispatchInv, ClusterInv, Answering
<1>. QED
  BY <1>2, <1>3, <1>4, <1>5

\* A scan of all matching vectors starts with none reached.
LEMMA ScanStarts ==
  ASSUME case' \in {"brute", "brute2", "precomp"}, phase' = "scan",
         best' = NoneYet, clusters' = 0, NEW S \in SUBSET V, S = Matching', todo' = Ascending(S)
  PROVE  SearchInv' /\ ClusterInv'
<1>1. todo' \in Seq(V) /\ Members(todo') = S /\ Distinct(todo')
  BY RowFacts
<1>2. Reached' = S
  BY DEF Reached
<1>3. Reached' \ Members(todo') = {}
  BY <1>1, <1>2
<1>4. BestOf(best', Reached' \ Members(todo')) /\ best' \in [1 .. K -> Int \X Int]
  BY <1>3, NothingFound
<1>5. SearchInv'
  BY <1>1, <1>2, <1>4 DEF SearchInv
<1>6. ClusterInv'
  BY NearestFacts DEF ClusterInv
<1>. QED
  BY <1>5, <1>6

\* A query of one label starts.
LEMMA AskOneStarts ==
  ASSUME DispatchInv, AskOne
  PROVE  DispatchInv'
<1>1. /\ phase \in {"idle", "answered"} /\ best' = NoneYet /\ clusters' = 0
      /\ UNCHANGED <<data, offline>>
  BY DEF AskOne, Take
<1>2. PICK a \in Labels : query' = <<a>> /\ Scan("brute", Row(a))
  BY DEF AskOne
<1>3. case' = "brute" /\ todo' = Row(a) /\ phase' = "scan"
  BY <1>2 DEF Scan
<1>4. PICK S : S = Group(a)
  OBVIOUS
<1>5. S \in SUBSET V /\ Group(a)' = S
  BY <1>1, <1>4, DataKept, GroupFacts
<1>6. Matching' = S
  <2>1. Matching' = Group(a)'
    <3>1. DOMAIN query' = {1} /\ query'[1] = a
      BY <1>2
    <3>. QED
      BY <3>1 DEF Matching, Group
  <2>. QED
    BY <1>5, <2>1
<1>7. SearchInv' /\ ClusterInv'
  BY <1>1, <1>3, <1>4, <1>5, <1>6, ScanStarts DEF Row
<1>8. QueryInv'
  BY <1>2, <1>3 DEF QueryInv
<1>9. DataInv'
  BY <1>1, <1>3 DEF DispatchInv, DataInv, data
<1>10. OfflineInv'
  <2>1. i = Len(big) + 1 /\ phase # "pairs" /\ phase' \notin {"bits", "pairs"}
    BY <1>1, <1>3 DEF DispatchInv, OfflineInv
  <2>. QED
    BY <1>1, <2>1, RowsStay DEF DispatchInv
<1>. QED
  BY <1>7, <1>8, <1>9, <1>10 DEF DispatchInv

\* The row of two big labels, whichever comes first.
LEMMA RowOfBoth ==
  ASSUME DispatchInv, phase \notin {"bits", "pairs"},
         NEW a \in Labels, NEW b \in Labels, a # b, Size(a) > BigCutoff, Size(b) > BigCutoff,
         NEW lo, lo = IF ibig(a) < ibig(b) THEN ibig(a) ELSE ibig(b),
         NEW prow, prow = precomp[Pos(lo, ibig(a) + ibig(b) - lo)], prow # TooLarge
  PROVE  prow = Ascending(Group(a) \cap Group(b))
<1>1. PICK x, y : x = ibig(a) /\ y = ibig(b)
  OBVIOUS
<1>2. /\ x \in 1 .. Len(big) /\ big[x] = a /\ y \in 1 .. Len(big) /\ big[y] = b
      /\ Len(big) \in Nat /\ DOMAIN big = 1 .. Len(big)
  BY <1>1, BigFacts
<1>3. PICK hi : hi = x + y - lo
  OBVIOUS
<1>4. /\ lo \in 1 .. Len(big) /\ hi \in 1 .. Len(big) /\ lo < hi
      /\ (lo = x /\ hi = y) \/ (lo = y /\ hi = x)
  <2>1. x # y
    BY <1>2
  <2>2. CASE x < y
    BY <1>1, <1>2, <1>3, <2>2
  <2>3. CASE y < x
    BY <1>1, <1>2, <1>3, <2>3
  <2>. QED
    BY <1>2, <2>1, <2>2, <2>3
<1>5. <<lo, hi>> \in Done
  <2>1. i = Len(big) + 1
    BY DEF DispatchInv, OfflineInv
  <2>2. <<lo, hi>> \in Pairs
    BY <1>2, <1>4 DEF Pairs
  <2>3. lo < i
    BY <1>2, <1>4, <2>1
  <2>. QED
    BY <2>2, <2>3 DEF Done
<1>6. precomp[Pos(lo, hi)] = PairRow(lo, hi)
  BY <1>5 DEF DispatchInv, OfflineInv, RowsInv
<1>7. prow = PairRow(lo, hi)
  BY <1>1, <1>3, <1>6
<1>8. Group(big[lo]) \cap Group(big[hi]) = Group(a) \cap Group(b)
  BY <1>2, <1>4
<1>. QED
  BY <1>7, <1>8 DEF PairRow

\* A query of two labels starts.
LEMMA AskTwoStarts ==
  ASSUME DispatchInv, AskTwo
  PROVE  DispatchInv'
<1>1. /\ phase \in {"idle", "answered"} /\ best' = NoneYet /\ clusters' = 0
      /\ UNCHANGED <<data, offline>>
  BY DEF AskTwo, Take
<1>2. PICK x \in Labels, y \in Labels :
        LET q == Ordered(x, y)
            a == q[1]
            b == q[2]
            lo == IF ibig(a) < ibig(b) THEN ibig(a) ELSE ibig(b)
            prow == precomp[Pos(lo, ibig(a) + ibig(b) - lo)]
        IN  /\ x # y /\ query' = q
            /\ \/ /\ Size(a) <= BigCutoff
                  /\ Scan("brute2", Only(Row(a), Having(b)))
               \/ /\ Size(a) > BigCutoff /\ UsePrecomp(prow)
                  /\ Scan("precomp", prow)
               \/ /\ Size(a) > BigCutoff /\ ~ UsePrecomp(prow)
                  /\ case' = "ivf" /\ todo' = <<>> /\ phase' = "cluster"
                  /\ near' = NearestFirst
  BY DEF AskTwo
<1>3. PICK a, b : /\ a = Ordered(x, y)[1] /\ b = Ordered(x, y)[2]
  OBVIOUS
<1>4. /\ Ordered(x, y) = <<a, b>> /\ a \in Labels /\ b \in Labels /\ a # b
      /\ Size(a) <= Size(b) /\ Size(a) \in Int /\ Size(b) \in Int
  <2>1. Size(x) \in Int /\ Size(y) \in Int
    BY GroupFacts
  <2>2. CASE Smaller(y, x)
    <3>1. Ordered(x, y) = <<y, x>> /\ Size(y) <= Size(x)
      BY <2>1, <2>2 DEF Ordered, Smaller
    <3>. QED
      BY <1>2, <1>3, <2>1, <3>1
  <2>3. CASE ~ Smaller(y, x)
    <3>1. Ordered(x, y) = <<x, y>> /\ Size(x) <= Size(y)
      BY <2>1, <2>3 DEF Ordered, Smaller
    <3>. QED
      BY <1>2, <1>3, <2>1, <3>1
  <2>. QED
    BY <2>2, <2>3
<1>5. PICK lo : lo = IF ibig(a) < ibig(b) THEN ibig(a) ELSE ibig(b)
  OBVIOUS
<1>6. PICK prow : prow = precomp[Pos(lo, ibig(a) + ibig(b) - lo)]
  OBVIOUS
<1>7. /\ query' = <<a, b>>
      /\ \/ /\ Size(a) <= BigCutoff
            /\ Scan("brute2", Only(Row(a), Having(b)))
         \/ /\ Size(a) > BigCutoff /\ UsePrecomp(prow)
            /\ Scan("precomp", prow)
         \/ /\ case' = "ivf" /\ todo' = <<>> /\ phase' = "cluster"
            /\ near' = NearestFirst
  BY <1>2, <1>3, <1>4, <1>5, <1>6
<1>8. PICK S : S = Group(a) \cap Group(b)
  OBVIOUS
<1>9. S \in SUBSET V /\ Group(a) \in SUBSET V /\ Group(a)' = Group(a) /\ Group(b)' = Group(b)
  BY <1>1, <1>8, DataKept, GroupFacts
<1>10. Matching' = S
  <2>1. DOMAIN query' = {1, 2} /\ query'[1] = a /\ query'[2] = b
    BY <1>7
  <2>2. Matching' = Group(a)' \cap Group(b)'
    BY <2>1 DEF Matching, Group
  <2>. QED
    BY <1>8, <1>9, <2>2
<1>11. /\ case' \in {"brute2", "precomp", "ivf"} /\ phase' \in {"scan", "cluster"}
       /\ SearchInv' /\ ClusterInv'
  <2>1. CASE Scan("brute2", Only(Row(a), Having(b)))
    <3>1. case' = "brute2" /\ phase' = "scan" /\ todo' = Only(Row(a), Group(b))
      BY <2>1, HavingIsGroup DEF Scan
    <3>2. todo' = Ascending(S)
      BY <1>8, <1>9, <3>1, RowFacts DEF Row
    <3>. QED
      BY <1>1, <1>9, <1>10, <3>1, <3>2, ScanStarts
  <2>2. CASE Size(a) > BigCutoff /\ UsePrecomp(prow) /\ Scan("precomp", prow)
    <3>1. case' = "precomp" /\ phase' = "scan" /\ todo' = prow /\ prow # TooLarge
      BY <2>2 DEF Scan, UsePrecomp
    <3>2. Size(b) > BigCutoff
      <4>1. BigCutoff \in Int
        BY DispatchAssumption
      <4>. QED
        BY <1>4, <2>2, <4>1
    <3>3. prow = Ascending(S)
      <4>1. phase \notin {"bits", "pairs"}
        BY <1>1
      <4>. QED
        BY <1>4, <1>5, <1>6, <1>8, <2>2, <3>1, <3>2, <4>1, RowOfBoth
    <3>. QED
      BY <1>1, <1>9, <1>10, <3>1, <3>3, ScanStarts
  <2>3. CASE case' = "ivf" /\ todo' = <<>> /\ phase' = "cluster" /\ near' = NearestFirst
    <3>1. Reached' = {}
      <4>1. 1 .. clusters' = {}
        BY <1>1
      <4>. QED
        BY <2>3, <4>1 DEF Reached
    <3>2. Members(todo') = {} /\ Distinct(todo') /\ todo' \in Seq(V)
      BY <2>3 DEF Members, Distinct
    <3>3. Reached' \ Members(todo') = {}
      BY <3>1
    <3>4. BestOf(best', Reached' \ Members(todo')) /\ best' \in [1 .. K -> Int \X Int]
      BY <1>1, <3>3, NothingFound
    <3>5. SearchInv'
      BY <2>3, <3>2, <3>4 DEF SearchInv
    <3>6. near' = [k \in 1 .. Cardinality(Clusters) - clusters' |-> NearestFirst[clusters' + k]]
      <4>1. PICK n : n = Cardinality(Clusters)
        OBVIOUS
      <4>2. PICK s : s = NearestFirst
        OBVIOUS
      <4>3. n \in Nat /\ s \in [1 .. n -> Clusters]
        BY <4>1, <4>2, NearestFacts
      <4>4. s = [k \in 1 .. n - 0 |-> s[0 + k]]
        BY <4>3
      <4>. QED
        BY <1>1, <2>3, <4>1, <4>2, <4>4
    <3>7. ClusterInv'
      BY <1>1, <2>3, <3>6, NearestFacts DEF ClusterInv
    <3>. QED
      BY <2>3, <3>5, <3>7
  <2>. QED
    BY <1>7, <2>1, <2>2, <2>3
<1>12. QueryInv'
  BY <1>4, <1>7, <1>11 DEF QueryInv
<1>13. DataInv'
  BY <1>1, <1>11 DEF DispatchInv, DataInv, data
<1>14. OfflineInv'
  <2>1. i = Len(big) + 1 /\ phase # "pairs" /\ phase' \notin {"bits", "pairs"}
    BY <1>1, <1>11 DEF DispatchInv, OfflineInv
  <2>. QED
    BY <1>1, <2>1, RowsStay DEF DispatchInv
<1>. QED
  BY <1>11, <1>12, <1>13, <1>14 DEF DispatchInv

\* A step of the search leaves the query, the data and the rows.
LEMMA SearchKeeps ==
  ASSUME DispatchInv, UNCHANGED <<data, offline, query, case>>,
         phase \in {"scan", "cluster"}, phase' \in {"scan", "cluster", "answered"}
  PROVE  /\ DataInv' /\ OfflineInv' /\ QueryInv' /\ Matching' = Matching /\ Asked /\ Asked'
         /\ member' = member /\ numClusters' = numClusters
<1>1. Asked /\ Asked'
  BY DEF Asked
<1>2. DataInv'
  BY DEF DispatchInv, DataInv, data
<1>3. QueryInv'
  BY <1>1 DEF DispatchInv, QueryInv
<1>4. Matching' = Matching
  BY DEF Matching, data
<1>5. OfflineInv'
  <2>1. i = Len(big) + 1 /\ phase # "pairs" /\ phase' \notin {"bits", "pairs"}
    BY DEF DispatchInv, OfflineInv
  <2>. QED
    BY <2>1, RowsStay DEF DispatchInv
<1>. QED
  BY <1>1, <1>2, <1>3, <1>4, <1>5 DEF data

\* The next cluster's vectors come to those reached.
LEMMA NextClusterSteps ==
  ASSUME DispatchInv, NextCluster
  PROVE  DispatchInv'
<1>1. /\ phase = "cluster" /\ near # <<>> /\ (clusters = 0 \/ clusters < numClusters)
      /\ near' = Tail(near) /\ clusters' = clusters + 1 /\ phase' = "scan"
      /\ UNCHANGED <<data, offline, query, case>> /\ best' = best
      /\ todo' = Only(Row(query[1]), {v \in Having(query[2]) : member[v] = Head(near)})
  BY DEF NextCluster
<1>2. /\ DataInv' /\ OfflineInv' /\ QueryInv' /\ Matching' = Matching /\ Asked /\ Asked'
      /\ member' = member /\ numClusters' = numClusters
  BY <1>1, SearchKeeps
<1>3. PICK s, n : s = NearestFirst /\ n = Cardinality(Clusters)
  OBVIOUS
<1>4. /\ n \in Nat /\ s \in [1 .. n -> Clusters]
      /\ \A k, l \in 1 .. n : s[k] = s[l] => k = l
  BY <1>3, NearestFacts
<1>5. /\ case = "ivf" /\ clusters \in 0 .. n /\ numClusters \in Nat
      /\ near = [k \in 1 .. n - clusters |-> s[clusters + k]]
      /\ todo = <<>> /\ BestOf(best, Reached \ Members(todo)) /\ best \in [1 .. K -> Int \X Int]
  BY <1>1, <1>2, <1>3 DEF DispatchInv, ClusterInv, SearchInv, DataInv
<1>6. clusters + 1 \in 1 .. n
  <2>1. ASSUME clusters = n PROVE near = <<>>
    <3>1. near = [k \in 1 .. 0 |-> s[clusters + k]]
      BY <1>4, <1>5, <2>1
    <3>2. near \in Seq(Clusters) /\ Len(near) = 0
      BY <3>1
    <3>. QED
      BY <3>2
  <2>. QED
    BY <1>1, <1>4, <1>5, <2>1
<1>7. PICK c : c = s[clusters + 1]
  OBVIOUS
<1>8. /\ Head(near) = c
      /\ near' = [k \in 1 .. n - (clusters + 1) |-> s[clusters + 1 + k]]
  <2>1. PICK r : r = n - clusters
    OBVIOUS
  <2>2. r \in Nat \ {0} /\ n - (clusters + 1) = r - 1
    BY <1>4, <1>5, <1>6, <2>1
  <2>3. PICK f : f = [k \in 1 .. r |-> s[clusters + k]]
    OBVIOUS
  <2>4. near = f /\ f \in Seq(Clusters) /\ Len(f) = r
    BY <1>4, <1>5, <2>1, <2>2, <2>3
  <2>5. f[1] = c /\ Head(f) = f[1]
    BY <1>7, <2>2, <2>3, <2>4
  <2>6. Tail(f) = [k \in 1 .. r - 1 |-> f[k + 1]]
    <3>1. f # <<>>
      BY <1>1, <2>4
    <3>2. /\ Tail(f) \in Seq(Clusters) /\ Len(Tail(f)) = r - 1
          /\ \A k \in 1 .. r - 1 : Tail(f)[k] = f[k + 1]
      BY <2>2, <2>4, <3>1
    <3>3. PICK g : g = Tail(f)
      OBVIOUS
    <3>4. g \in Seq(Clusters) /\ Len(g) = r - 1
      BY <3>2, <3>3
    <3>5. DOMAIN g = 1 .. r - 1 /\ g \in [1 .. r - 1 -> Clusters]
      BY <2>2, <3>4
    <3>. QED
      BY <3>2, <3>3, <3>5
  <2>7. ASSUME NEW k \in 1 .. r - 1 PROVE f[k + 1] = s[clusters + 1 + k]
    <3>1. k + 1 \in 1 .. r /\ clusters + (k + 1) = clusters + 1 + k
      BY <1>5, <2>2
    <3>. QED
      BY <2>3, <3>1
  <2>8. Tail(f) = [k \in 1 .. r - 1 |-> s[clusters + 1 + k]]
    BY <2>6, <2>7
  <2>. QED
    BY <1>1, <2>2, <2>4, <2>5, <2>8
<1>9. PICK a \in Labels, b \in Labels : query = <<a, b>>
  BY <1>2, <1>5 DEF DispatchInv, QueryInv
<1>10. Matching = Group(a) \cap Group(b) /\ Group(a) \in SUBSET V /\ Matching \in SUBSET V
  BY <1>9, MatchingFacts, GroupFacts
<1>11. PICK S : S = {v \in Matching : member[v] = c}
  OBVIOUS
<1>12. S \in SUBSET V /\ S \subseteq Matching
  BY <1>10, <1>11
<1>13. todo' = Ascending(S)
  <2>1. PICK T : T = {v \in Group(b) : member[v] = c}
    OBVIOUS
  <2>2. Having(query[2]) = Group(b) /\ query[1] = a
    BY <1>9, HavingIsGroup
  <2>3. todo' = Only(Row(a), T)
    BY <1>1, <1>8, <2>1, <2>2
  <2>4. S = Group(a) \cap T
    BY <1>10, <1>11, <2>1
  <2>. QED
    BY <1>10, <2>3, <2>4, RowFacts DEF Row
<1>14. todo' \in Seq(V) /\ Members(todo') = S /\ Distinct(todo')
  BY <1>12, <1>13, RowFacts
<1>15. Reached = {v \in Matching : \E k \in 1 .. clusters : member[v] = s[k]}
  BY <1>3, <1>5 DEF Reached
<1>16. Reached' = {v \in Matching : \E k \in 1 .. clusters + 1 : member[v] = s[k]}
  BY <1>1, <1>2, <1>3, <1>5 DEF Reached
<1>17. \A k \in 1 .. clusters : s[k] # c /\ k \in 1 .. n
  BY <1>4, <1>5, <1>6, <1>7
<1>18. Reached' = Reached \cup S /\ Reached \cap S = {}
  <2>1. ASSUME NEW v
        PROVE  (\E k \in 1 .. clusters + 1 : member[v] = s[k])
                 <=> (\E k \in 1 .. clusters : member[v] = s[k]) \/ member[v] = c
    <3>1. \A k : k \in 1 .. clusters + 1 <=> k \in 1 .. clusters \/ k = clusters + 1
      BY <1>5
    <3>. QED
      BY <1>7, <3>1
  <2>2. Reached' = Reached \cup S
    BY <1>11, <1>15, <1>16, <2>1
  <2>3. Reached \cap S = {}
    BY <1>11, <1>15, <1>17
  <2>. QED
    BY <2>2, <2>3
<1>19. BestOf(best', Reached' \ Members(todo'))
  <2>1. Members(todo) = {}
    BY <1>5 DEF Members
  <2>2. Reached \ Members(todo) = Reached
    BY <2>1
  <2>3. Reached' \ Members(todo') = Reached
    BY <1>14, <1>18
  <2>. QED
    BY <1>1, <1>5, <2>2, <2>3
<1>20. SearchInv'
  BY <1>1, <1>5, <1>14, <1>18, <1>19 DEF SearchInv
<1>21. ClusterInv'
  <2>1. clusters' \in 0 .. n /\ (clusters' <= 1 \/ clusters' <= numClusters')
    BY <1>1, <1>2, <1>4, <1>5, <1>6
  <2>2. near' = [k \in 1 .. n - clusters' |-> s[clusters' + k]]
    BY <1>1, <1>8
  <2>. QED
    BY <1>1, <1>3, <2>1, <2>2 DEF ClusterInv
<1>. QED
  BY <1>2, <1>20, <1>21 DEF DispatchInv

\* One vector of the scan is considered.
LEMMA StepSteps ==
  ASSUME DispatchInv, Step
  PROVE  DispatchInv'
<1>1. /\ phase = "scan" /\ phase' = "scan" /\ todo # <<>>
      /\ best' = Consider(best, Head(todo)) /\ todo' = Tail(todo)
      /\ UNCHANGED <<data, offline, query, case>> /\ near' = near /\ clusters' = clusters
  BY DEF Step
<1>2. /\ DataInv' /\ OfflineInv' /\ QueryInv' /\ Matching' = Matching /\ Asked /\ Asked'
      /\ member' = member /\ numClusters' = numClusters
  BY <1>1, SearchKeeps
<1>3. PICK t : t = todo
  OBVIOUS
<1>4. PICK b : b = best
  OBVIOUS
<1>5. /\ t \in Seq(V) /\ t # <<>> /\ Distinct(t) /\ Members(t) \subseteq Reached
      /\ BestOf(b, Reached \ Members(t))
  BY <1>1, <1>2, <1>3, <1>4 DEF DispatchInv, SearchInv
<1>6. PICK v : v = t[1]
  OBVIOUS
<1>7. PICK u : u = Tail(t)
  OBVIOUS
<1>8. /\ Len(t) \in Nat \ {0} /\ t \in [1 .. Len(t) -> V] /\ v \in V /\ Head(t) = v
      /\ u \in Seq(V) /\ DOMAIN u = 1 .. Len(t) - 1 /\ \A k \in 1 .. Len(t) - 1 : u[k] = t[k + 1]
  BY <1>5, <1>6, <1>7
<1>9. Distinct(u)
  <2>1. ASSUME NEW k \in 1 .. Len(t) - 1, NEW l \in 1 .. Len(t) - 1, u[k] = u[l] PROVE k = l
    <3>1. k + 1 \in DOMAIN t /\ l + 1 \in DOMAIN t /\ t[k + 1] = t[l + 1]
      BY <1>8, <2>1
    <3>2. k + 1 = l + 1
      BY <1>5, <3>1 DEF Distinct
    <3>. QED
      BY <3>2
  <2>. QED
    BY <1>8, <2>1 DEF Distinct
<1>10. Members(u) = Members(t) \ {v} /\ v \in Members(t)
  <2>1. ASSUME NEW k \in 1 .. Len(t) - 1 PROVE u[k] \in Members(t) /\ u[k] # v
    <3>1. k + 1 \in DOMAIN t /\ 1 \in DOMAIN t /\ k + 1 # 1 /\ u[k] = t[k + 1]
      BY <1>8
    <3>2. t[k + 1] # t[1]
      BY <1>5, <3>1 DEF Distinct
    <3>. QED
      BY <1>6, <3>1, <3>2 DEF Members
  <2>2. ASSUME NEW w \in Members(t), w # v PROVE w \in Members(u)
    <3>1. PICK k \in 1 .. Len(t) : t[k] = w
      BY <1>8 DEF Members
    <3>2. PICK l : l = k - 1
      OBVIOUS
    <3>3. l \in 1 .. Len(t) - 1 /\ l + 1 = k
      BY <1>6, <1>8, <2>2, <3>1, <3>2
    <3>4. u[l] = w
      BY <1>8, <3>1, <3>3
    <3>. QED
      BY <1>8, <3>3, <3>4 DEF Members
  <2>3. 1 \in DOMAIN t
    BY <1>8
  <2>4. v \in Members(t)
    BY <1>6, <2>3 DEF Members
  <2>5. \A w \in Members(u) : w \in Members(t) /\ w # v
    BY <1>8, <2>1 DEF Members
  <2>. QED
    BY <2>2, <2>4, <2>5
<1>11. Reached' = Reached /\ Reached \in SUBSET V
  <2>1. NearestFirst' = NearestFirst
    BY DEF NearestFirst, Nearer, InOrder, Below
  <2>. QED
    BY <1>1, <1>2, <2>1, MatchingFacts DEF Reached
<1>12. BestOf(Consider(b, v), Reached \ Members(u))
  <2>1. PICK S : S = Reached \ Members(t)
    OBVIOUS
  <2>2. S \in SUBSET V /\ v \notin S /\ BestOf(b, S)
    BY <1>5, <1>10, <1>11, <2>1
  <2>3. BestOf(Consider(b, v), S \cup {v})
    BY <1>8, <2>2, ConsiderKeepsBest
  <2>4. Reached \ Members(u) = S \cup {v}
    BY <1>5, <1>10, <2>1
  <2>. QED
    BY <2>3, <2>4
<1>13. best' = Consider(b, v) /\ todo' = u
  BY <1>1, <1>3, <1>4, <1>7, <1>8
<1>14. SearchInv'
  <2>1. best' \in [1 .. K -> Int \X Int]
    BY <1>12, <1>13 DEF BestOf
  <2>2. BestOf(best', Reached' \ Members(todo')) /\ Members(todo') \subseteq Reached' /\ Distinct(todo')
    BY <1>5, <1>9, <1>10, <1>11, <1>12, <1>13
  <2>3. todo' \in Seq(V)
    BY <1>8, <1>13
  <2>. QED
    BY <1>1, <2>1, <2>2, <2>3 DEF SearchInv
<1>15. ClusterInv'
  BY <1>1, <1>2 DEF DispatchInv, ClusterInv
<1>. QED
  BY <1>2, <1>14, <1>15 DEF DispatchInv

LEMMA ScanDoneSteps ==
  ASSUME DispatchInv, ScanDone
  PROVE  DispatchInv'
<1>1. /\ phase = "scan" /\ todo = <<>> /\ case = "ivf" /\ phase' = "cluster"
      /\ UNCHANGED <<data, offline, query, case>>
      /\ todo' = todo /\ best' = best /\ near' = near /\ clusters' = clusters
  BY DEF ScanDone, Answering
<1>2. /\ DataInv' /\ OfflineInv' /\ QueryInv' /\ Matching' = Matching /\ Asked /\ Asked'
      /\ member' = member /\ numClusters' = numClusters
  BY <1>1, SearchKeeps
<1>3. Reached' = Reached
  BY <1>1, <1>2 DEF Reached
<1>4. SearchInv'
  BY <1>1, <1>2, <1>3 DEF DispatchInv, SearchInv
<1>5. ClusterInv'
  BY <1>1, <1>2 DEF DispatchInv, ClusterInv
<1>. QED
  BY <1>2, <1>4, <1>5 DEF DispatchInv

LEMMA ReportSteps ==
  ASSUME DispatchInv, Report
  PROVE  DispatchInv'
<1>1. /\ \/ phase = "scan" /\ todo = <<>> /\ case # "ivf"
         \/ phase = "cluster" /\ (near = <<>> \/ (clusters > 0 /\ clusters >= numClusters))
      /\ phase' = "answered" /\ UNCHANGED <<data, offline, query, case>>
      /\ todo' = todo /\ best' = best /\ near' = near /\ clusters' = clusters
      /\ results' = [k \in 1 .. K |-> best[k][2]]
  BY DEF Report
<1>2. phase \in {"scan", "cluster"}
  BY <1>1
<1>3. /\ DataInv' /\ OfflineInv' /\ QueryInv' /\ Matching' = Matching /\ Asked /\ Asked'
      /\ member' = member /\ numClusters' = numClusters
  BY <1>1, <1>2, SearchKeeps
<1>4. Reached' = Reached
  BY <1>1, <1>3 DEF Reached
<1>5. todo = <<>>
  BY <1>1 DEF DispatchInv, SearchInv
<1>6. SearchInv'
  BY <1>1, <1>3, <1>4, <1>5 DEF DispatchInv, SearchInv
<1>7. ClusterInv'
  BY <1>1, <1>3 DEF DispatchInv, ClusterInv
<1>. QED
  BY <1>3, <1>6, <1>7 DEF DispatchInv

\* The offline loops start with nothing done.
LEMMA InitiallyNothingDone ==
  ASSUME DispatchInit
  PROVE  DispatchInv
<1>1. /\ filters \in [V -> SUBSET Labels] /\ member \in [V -> Clusters]
      /\ cutoff \in Nat \X Nat /\ numClusters \in Nat
  <2>1. /\ FilterChoices \subseteq [V -> SUBSET Labels] /\ MemberChoices \subseteq [V -> Clusters]
        /\ CutoffChoices \subseteq Nat \X Nat /\ WidthChoices \subseteq Nat
    BY DispatchAssumption
  <2>. QED
    BY <2>1 DEF DispatchInit
<1>2. DataInv
  BY <1>1 DEF DataInv, DispatchInit
<1>3. ~ Asked /\ phase = "bits"
  BY DEF DispatchInit, Asked
<1>4. i = 1 /\ bits = {} /\ precomp = <<>>
  BY DEF DispatchInit
<1>5. case = "" /\ todo = <<>> /\ best = NoneYet /\ clusters = 0
  BY DEF DispatchInit
<1>6. Done = {}
  <2>1. \A p \in Pairs : p[1] \in 1 .. Len(big)
    BY BigFacts DEF Pairs
  <2>. QED
    BY <1>3, <1>4, <2>1 DEF Done
<1>7. RowsInv
  <2>1. Cardinality({}) = 0 /\ Len(<<>>) = 0 /\ <<>> \in Seq(Seq(Int))
    BY FS_EmptySet
  <2>. QED
    BY <1>4, <1>6, <2>1 DEF RowsInv
<1>8. OfflineInv
  <2>1. Len(big) \in Nat
    BY BigFacts
  <2>. QED
    BY <1>3, <1>4, <1>7, <2>1 DEF OfflineInv
<1>9. QueryInv
  BY <1>3, <1>5 DEF QueryInv
<1>10. SearchInv
  <2>1. NoneYet \in [1 .. K -> Int \X Int]
    BY NothingFound
  <2>2. phase \notin {"cluster", "answered"} /\ <<>> \in Seq(V)
    BY <1>3
  <2>. QED
    BY <1>3, <1>5, <2>1, <2>2 DEF SearchInv
<1>11. ClusterInv
  <2>1. Cardinality(Clusters) \in Nat
    BY NearestFacts
  <2>2. clusters \in 0 .. Cardinality(Clusters)
    <3>1. 0 \in 0 .. Cardinality(Clusters)
      BY <2>1
    <3>. QED
      BY <1>5, <3>1
  <2>3. phase # "cluster"
    BY <1>3
  <2>. QED
    BY <1>3, <2>2, <2>3 DEF ClusterInv
<1>. QED
  BY <1>2, <1>8, <1>9, <1>10, <1>11 DEF DispatchInv

\* The inductive invariant holds: offline, as many rows are computed as pairs are done and
\* each at its place; while a query is answered, the list holds the nearest vectors scanned.
THEOREM DispatchInvHolds == DispatchSpec => []DispatchInv
<1>1. DispatchInit => DispatchInv
  BY InitiallyNothingDone
<1>2. DispatchInv /\ [DispatchNext]_dispatchVars => DispatchInv'
  <2>1. SUFFICES ASSUME DispatchInv, [DispatchNext]_dispatchVars PROVE DispatchInv'
    OBVIOUS
  <2>2. CASE SetBits
    <3>1. Answering /\ UNCHANGED data /\ phase' = "pairs"
      BY <2>2 DEF SetBits
    <3>. QED
      BY <2>1, <2>2, <3>1, RestKept, SetBitsKeepsRows DEF DispatchInv
  <2>3. CASE Intersect
    <3>1. Answering /\ UNCHANGED data /\ phase' = "pairs"
      BY <2>3 DEF Intersect
    <3>. QED
      BY <2>1, <2>3, <3>1, RestKept, IntersectKeepsRows DEF DispatchInv
  <2>4. CASE ClearBits
    <3>1. Answering /\ UNCHANGED data /\ phase' = "bits"
      BY <2>4 DEF ClearBits
    <3>. QED
      BY <2>1, <2>4, <3>1, RestKept, ClearBitsKeepsRows DEF DispatchInv
  <2>5. CASE Load
    <3>1. /\ Answering /\ UNCHANGED <<data, offline>> /\ phase' = "idle"
          /\ phase = "bits" /\ i > Len(big)
      BY <2>5 DEF Load
    <3>2. i = Len(big) + 1
      BY <2>1, <3>1, BigFacts DEF DispatchInv, OfflineInv
    <3>3. OfflineInv'
      BY <2>1, <3>1, <3>2, RowsStay DEF DispatchInv
    <3>. QED
      BY <2>1, <3>1, <3>3, RestKept DEF DispatchInv
  <2>6. CASE AskOne
    BY <2>1, <2>6, AskOneStarts
  <2>7. CASE AskTwo
    BY <2>1, <2>7, AskTwoStarts
  <2>8. CASE NextCluster
    BY <2>1, <2>8, NextClusterSteps
  <2>9. CASE Step
    BY <2>1, <2>9, StepSteps
  <2>10. CASE ScanDone
    BY <2>1, <2>10, ScanDoneSteps
  <2>11. CASE Report
    BY <2>1, <2>11, ReportSteps
  <2>12. CASE UNCHANGED dispatchVars
    <3>1. /\ UNCHANGED <<data, offline>> /\ phase' = phase
          /\ UNCHANGED <<query, case, todo, best, near, clusters, results>>
      BY <2>12 DEF dispatchVars
    <3>2. OfflineInv'
      BY <2>1, <3>1, RowsStay DEF DispatchInv
    <3>3. DataInv' /\ member' = member /\ numClusters' = numClusters /\ Matching' = Matching
      BY <2>1, <3>1 DEF DispatchInv, DataInv, data, Matching
    <3>4. Reached' = Reached /\ Asked' = Asked
      BY <3>1, <3>3 DEF Reached, Asked
    <3>5. QueryInv' /\ SearchInv' /\ ClusterInv'
      BY <2>1, <3>1, <3>3, <3>4 DEF DispatchInv, QueryInv, SearchInv, ClusterInv
    <3>. QED
      BY <3>2, <3>3, <3>5 DEF DispatchInv
  <2>. QED
    BY <2>1, <2>2, <2>3, <2>4, <2>5, <2>6, <2>7, <2>8, <2>9, <2>10, <2>11, <2>12 DEF DispatchNext
<1>. QED
  BY <1>1, <1>2, PTL DEF DispatchSpec
-----------------------------------------------------------------------------
(* What the invariant says of rows and answers. *)

\* There are n (n - 1) / 2 pairs of n labels.
LEMMA NumberOfPairs == Cardinality(Pairs) = (Len(big) * (Len(big) - 1)) \div 2
<1>1. PICK n : n = Len(big)
  OBVIOUS
<1>2. PICK D : D = DOMAIN big
  OBVIOUS
<1>3. n \in Nat /\ D = 1 .. n
  BY <1>1, <1>2, BigFacts
<1>4. PICK U, W, Q : U = Pairs /\ W = {p \in D \X D : p[2] < p[1]} /\ Q = {p \in D \X D : p[1] = p[2]}
  OBVIOUS
<1>5. U = {p \in D \X D : p[1] < p[2]}
  BY <1>2, <1>4 DEF Pairs
<1>6. IsFiniteSet(D) /\ Cardinality(D) = n
  <2>1. 1 \in Int /\ n \in Int
    BY <1>3
  <2>2. IsFiniteSet(D) /\ Cardinality(D) = IF 1 > n THEN 0 ELSE n - 1 + 1
    BY <1>3, <2>1, FS_Interval
  <2>. QED
    BY <1>3, <2>2
<1>7. PICK A : A = D \X D
  OBVIOUS
<1>8. IsFiniteSet(A) /\ Cardinality(A) = n * n
  BY <1>6, <1>7, FS_Product
<1>9. U \in SUBSET A /\ W \in SUBSET A /\ Q \in SUBSET A
  BY <1>4, <1>5, <1>7
<1>10. /\ IsFiniteSet(U) /\ IsFiniteSet(W) /\ IsFiniteSet(Q)
       /\ Cardinality(U) \in Nat /\ Cardinality(W) \in Nat /\ Cardinality(Q) \in Nat
  <2>1. IsFiniteSet(U) /\ IsFiniteSet(W) /\ IsFiniteSet(Q)
    BY <1>8, <1>9, FS_Subset
  <2>. QED
    BY <2>1, FS_CardinalityType
<1>11. Cardinality(U) = Cardinality(W)
  <2>1. PICK f : f = [p \in U |-> <<p[2], p[1]>>]
    OBVIOUS
  <2>2. \A p \in U : f[p] \in W
    BY <1>4, <1>5, <2>1
  <2>3. f \in [U -> W]
    BY <2>1, <2>2
  <2>4. ASSUME NEW p \in U, NEW q \in U, f[p] = f[q] PROVE p = q
    <3>1. p[1] = q[1] /\ p[2] = q[2] /\ p = <<p[1], p[2]>> /\ q = <<q[1], q[2]>>
      BY <1>5, <2>1, <2>4
    <3>. QED
      BY <3>1
  <2>5. ASSUME NEW p \in W PROVE \E q \in U : f[q] = p
    <3>1. PICK q : q = <<p[2], p[1]>>
      OBVIOUS
    <3>2. q \in U /\ p = <<p[1], p[2]>>
      BY <1>4, <1>5, <3>1
    <3>3. f[q] = p
      BY <2>1, <3>1, <3>2
    <3>. QED
      BY <3>2, <3>3
  <2>6. f \in Injection(U, W) /\ f \in Surjection(U, W)
    BY <2>3, <2>4, <2>5 DEF Injection, IsInjective, Surjection
  <2>. QED
    BY <1>10, <2>6, FS_Surjection
<1>12. Cardinality(Q) = n
  <2>1. PICK f : f = [k \in D |-> <<k, k>>]
    OBVIOUS
  <2>2. f \in [D -> Q] /\ \A k, l \in D : f[k] = f[l] => k = l
    BY <1>4, <2>1
  <2>3. ASSUME NEW p \in Q PROVE \E k \in D : f[k] = p
    <3>1. p[1] \in D /\ p = <<p[1], p[1]>>
      BY <1>4
    <3>2. f[p[1]] = p
      BY <2>1, <3>1
    <3>. QED
      BY <3>1, <3>2
  <2>4. f \in Injection(D, Q) /\ f \in Surjection(D, Q)
    BY <2>2, <2>3 DEF Injection, IsInjective, Surjection
  <2>5. Cardinality(D) = Cardinality(Q)
    BY <1>6, <2>4, FS_Surjection
  <2>. QED
    BY <1>6, <2>5
<1>13. U \cap W = {} /\ (U \cup W) \cap Q = {} /\ (U \cup W) \cup Q = A
  <2>1. \A p \in A : p[1] \in Int /\ p[2] \in Int
    BY <1>3, <1>7
  <2>2. \A p : p \in U <=> p \in A /\ p[1] < p[2]
    BY <1>5, <1>7
  <2>3. \A p : p \in W <=> p \in A /\ p[2] < p[1]
    BY <1>4, <1>7
  <2>4. \A p : p \in Q <=> p \in A /\ p[1] = p[2]
    BY <1>4, <1>7
  <2>5. \A p \in A : (p \in U \/ p \in W \/ p \in Q) /\ ~ (p \in U /\ p \in W)
                      /\ ~ (p \in U /\ p \in Q) /\ ~ (p \in W /\ p \in Q)
    BY <2>1, <2>2, <2>3, <2>4
  <2>. QED
    BY <1>9, <2>5
<1>14. Cardinality(U) + Cardinality(W) + Cardinality(Q) = n * n
  <2>1. PICK X : X = U \cup W
    OBVIOUS
  <2>2. /\ IsFiniteSet(X)
        /\ Cardinality(X) = Cardinality(U) + Cardinality(W) - Cardinality(U \cap W)
    BY <1>10, <2>1, FS_Union
  <2>3. Cardinality(X \cup Q) = Cardinality(X) + Cardinality(Q) - Cardinality(X \cap Q)
    BY <1>10, <2>2, FS_Union
  <2>4. Cardinality(U \cap W) = 0 /\ Cardinality(X \cap Q) = 0 /\ X \cup Q = A
    BY <1>13, <2>1, FS_EmptySet
  <2>5. Cardinality(X) = Cardinality(U) + Cardinality(W)
    BY <1>10, <2>2, <2>4
  <2>6. Cardinality(X) \in Nat
    BY <1>10, <2>5
  <2>7. Cardinality(A) = Cardinality(X) + Cardinality(Q)
    BY <1>10, <2>3, <2>4, <2>6
  <2>. QED
    BY <1>8, <2>5, <2>7
<1>15. PICK m, s : m = Cardinality(U) /\ s = n * n
  OBVIOUS
<1>16. m \in Nat /\ 2 * m = s - n /\ n * (n - 1) = s - n
  <2>1. m + m + n = s
    BY <1>11, <1>12, <1>14, <1>15
  <2>2. n * (n - 1) = n * n - n /\ s \in Nat
    BY <1>3, <1>15
  <2>. QED
    BY <1>3, <1>10, <1>15, <2>1, <2>2
<1>17. m = (n * (n - 1)) \div 2
  <2>1. PICK w : w = n * (n - 1)
    OBVIOUS
  <2>2. m \in Nat /\ w = 2 * m
    BY <1>16, <2>1
  <2>3. m = w \div 2
    BY <2>2
  <2>. QED
    BY <2>1, <2>3
<1>. QED
  BY <1>1, <1>4, <1>15, <1>17

\* Every row computed in advance is the whole intersection of its pair, found where the
\* query looks for it, whatever the labels and the cut-offs (build_multifilter_index).
THEOREM RowsHold == DispatchSpec => []RowsAreIntersections
<1>1. DispatchInv => RowsAreIntersections
  <2>1. SUFFICES ASSUME DispatchInv, phase \notin {"bits", "pairs"}
                 PROVE  /\ Len(precomp) = (Len(big) * (Len(big) - 1)) \div 2
                        /\ \A x, y \in DOMAIN big : x < y => precomp[Pos(x, y)] = PairRow(x, y)
    BY DEF RowsAreIntersections, PairRow
  <2>2. i = Len(big) + 1 /\ Len(big) \in Nat /\ DOMAIN big = 1 .. Len(big)
    BY <2>1, BigFacts DEF DispatchInv, OfflineInv
  <2>3. Done = Pairs
    <3>1. \A p \in Pairs : p[1] < i
      BY <2>2 DEF Pairs
    <3>. QED
      BY <3>1 DEF Done
  <2>4. /\ Len(precomp) = Cardinality(Pairs)
        /\ \A p \in Pairs : precomp[Pos(p[1], p[2])] = PairRow(p[1], p[2])
    BY <2>1, <2>3 DEF DispatchInv, OfflineInv, RowsInv
  <2>5. ASSUME NEW x \in DOMAIN big, NEW y \in DOMAIN big, x < y
        PROVE  precomp[Pos(x, y)] = PairRow(x, y)
    <3>1. <<x, y>> \in Pairs
      BY <2>5 DEF Pairs
    <3>. QED
      BY <2>4, <3>1
  <2>. QED
    BY <2>4, <2>5, NumberOfPairs
<1>2. DispatchSpec => []DispatchInv
  BY DispatchInvHolds
<1>. QED
  BY <1>1, <1>2, PTL

\* What is reported is the nearest of those reached, nearest first.
LEMMA AnswerFacts ==
  ASSUME DispatchInv, phase = "answered"
  PROVE  /\ BestOf(best, Reached) /\ results = [k \in 1 .. K |-> best[k][2]]
         /\ Reached \in SUBSET V /\ Reached \subseteq Matching
         /\ \A k \in 1 .. K : best[k] = Sentinel <=> results[k] = -1
         /\ \A k \in 1 .. K : results[k] # -1 => results[k] \in Reached /\ best[k] = <<Distance[results[k]], results[k]>>
         /\ \A v \in V : Distance[v] \in Nat /\ Distance[v] < Far /\ v # -1
         /\ Far \in Nat
<1>1. /\ BestOf(best, Reached \ Members(todo)) /\ todo = <<>>
      /\ results = [k \in 1 .. K |-> best[k][2]]
  BY DEF DispatchInv, SearchInv, Asked
<1>2. Members(todo) = {}
  BY <1>1 DEF Members
<1>3. Reached \ Members(todo) = Reached
  BY <1>2
<1>4. BestOf(best, Reached)
  BY <1>1, <1>3
<1>5. Reached \in SUBSET V /\ Reached \subseteq Matching
  BY MatchingFacts DEF Reached
<1>6. /\ \A v \in V : Distance[v] \in Nat /\ Distance[v] < Far /\ v # -1
      /\ Far \in Nat /\ Sentinel[2] = -1
  BY GroupFacts, DispatchAssumption DEF Sentinel
<1>7. ASSUME NEW k \in 1 .. K
      PROVE  /\ best[k] = Sentinel <=> results[k] = -1
             /\ results[k] # -1 => results[k] \in Reached /\ best[k] = <<Distance[results[k]], results[k]>>
  <2>1. best[k] = Sentinel \/ \E v \in Reached : best[k] = <<Distance[v], v>>
    BY <1>4 DEF BestOf
  <2>2. results[k] = best[k][2]
    BY <1>1
  <2>3. CASE best[k] = Sentinel
    BY <1>6, <2>2, <2>3
  <2>4. CASE \E v \in Reached : best[k] = <<Distance[v], v>>
    <3>1. PICK v \in Reached : best[k] = <<Distance[v], v>>
      BY <2>4
    <3>2. results[k] = v /\ v # -1
      BY <1>5, <1>6, <2>2, <3>1
    <3>3. best[k] # Sentinel
      BY <1>6, <2>2, <3>2
    <3>. QED
      BY <3>1, <3>2, <3>3
  <2>. QED
    BY <2>1, <2>3, <2>4
<1>. QED
  BY <1>1, <1>4, <1>5, <1>6, <1>7

\* The order of the reported places.
LEMMA AnswerOrdered ==
  ASSUME DispatchInv, phase = "answered",
         NEW k \in 1 .. K, NEW l \in 1 .. K, k < l
  PROVE  /\ results[k] = -1 => results[l] = -1
         /\ results[l] # -1 => /\ results[l] # results[k] /\ results[k] # -1
                               /\ Distance[results[k]] <= Distance[results[l]]
<1>1. /\ BestOf(best, Reached) /\ Reached \in SUBSET V
      /\ \A m \in 1 .. K : best[m] = Sentinel <=> results[m] = -1
      /\ \A m \in 1 .. K : results[m] # -1 => results[m] \in Reached /\ best[m] = <<Distance[results[m]], results[m]>>
      /\ \A v \in V : Distance[v] \in Nat /\ Distance[v] < Far /\ v # -1
      /\ Far \in Nat
  BY AnswerFacts
<1>2. Below(best[k], best[l]) \/ (best[k] = Sentinel /\ best[l] = Sentinel)
  BY <1>1 DEF BestOf
<1>3. results[k] = -1 => results[l] = -1
  <2>1. SUFFICES ASSUME results[k] = -1, results[l] # -1 PROVE FALSE
    OBVIOUS
  <2>2. best[k] = Sentinel /\ best[l] # Sentinel
    BY <1>1, <2>1
  <2>3. Below(Sentinel, best[l])
    BY <1>2, <2>2
  <2>4. PICK v \in V : v = results[l] /\ best[l] = <<Distance[v], v>>
    BY <1>1, <2>1
  <2>5. Distance[v] \in Nat /\ Distance[v] < Far
    BY <1>1
  <2>6. PICK d : d = Distance[v]
    OBVIOUS
  <2>7. Far < d \/ Far = d
    BY <2>3, <2>4, <2>6 DEF Below, Sentinel
  <2>. QED
    BY <1>1, <2>5, <2>6, <2>7
<1>4. ASSUME results[l] # -1
      PROVE  /\ results[l] # results[k] /\ results[k] # -1
             /\ Distance[results[k]] <= Distance[results[l]]
  <2>1. results[k] # -1
    BY <1>3, <1>4
  <2>2. PICK u \in V : u = results[k] /\ best[k] = <<Distance[u], u>>
    BY <1>1, <2>1
  <2>3. PICK v \in V : v = results[l] /\ best[l] = <<Distance[v], v>>
    BY <1>1, <1>4
  <2>4. best[l] # Sentinel
    BY <1>1, <1>4
  <2>5. Below(<<Distance[u], u>>, <<Distance[v], v>>)
    BY <1>2, <2>2, <2>3, <2>4
  <2>6. Distance[u] \in Int /\ Distance[v] \in Int /\ u \in Int /\ v \in Int
    BY <1>1, GroupFacts
  <2>7. Distance[u] <= Distance[v] /\ u # v
    BY <2>5, <2>6 DEF Below
  <2>. QED
    BY <2>1, <2>2, <2>3, <2>7
<1>. QED
  BY <1>3, <1>4

\* Every reported vector carries all the query's labels, once, nearest first, whichever way
\* the query was answered (run_hybrid_query, process_filter_query).
THEOREM AnswersMatchAlways == DispatchSpec => []AnswersMatch
<1>1. DispatchInv => AnswersMatch
  <2>1. SUFFICES ASSUME DispatchInv, phase = "answered"
                 PROVE  /\ Reported \subseteq Matching
                        /\ \A k \in 2 .. K : /\ results[k - 1] = -1 => results[k] = -1
                                             /\ results[k] # -1 => /\ results[k] # results[k - 1]
                                                                   /\ Distance[results[k - 1]] <= Distance[results[k]]
    BY DEF AnswersMatch
  <2>2. K \in Nat
    BY DispatchAssumption
  <2>3. Reported \subseteq Matching
    <3>1. DOMAIN results = 1 .. K
      BY <2>1, AnswerFacts
    <3>2. \A k \in 1 .. K : results[k] # -1 => results[k] \in Matching
      BY <2>1, AnswerFacts
    <3>. QED
      BY <3>1, <3>2 DEF Reported
  <2>4. ASSUME NEW k \in 2 .. K
        PROVE  /\ results[k - 1] = -1 => results[k] = -1
               /\ results[k] # -1 => /\ results[k] # results[k - 1]
                                     /\ Distance[results[k - 1]] <= Distance[results[k]]
    <3>1. PICK h \in 1 .. K : h = k - 1
      BY <2>2
    <3>2. k \in 1 .. K /\ h < k
      BY <2>2, <3>1
    <3>. QED
      BY <2>1, <3>1, <3>2, AnswerOrdered
  <2>. QED
    BY <2>3, <2>4
<1>2. DispatchSpec => []DispatchInv
  BY DispatchInvHolds
<1>. QED
  BY <1>1, <1>2, PTL

\* When an answer is reported the clusters visited are the nearest numClusters, at least one.
LEMMA ReachedIsEligible ==
  ASSUME DispatchInv, phase = "answered"
  PROVE  Reached = {v \in Matching : case = "ivf" => member[v] \in Visited}
<1>1. CASE case # "ivf"
  BY <1>1 DEF Reached
<1>2. CASE case = "ivf"
  <2>1. PICK s, n : s = NearestFirst /\ n = Cardinality(Clusters)
    OBVIOUS
  <2>2. /\ n \in Nat /\ s \in [1 .. n -> Clusters]
        /\ \A c \in Clusters : \E k \in 1 .. n : s[k] = c
        /\ \A k, l \in 1 .. n : s[k] = s[l] => k = l
        /\ \A k \in 1 .. n : Cardinality({d \in Clusters : <<d, s[k]>> \in Nearer}) = k - 1
        /\ \A c \in Clusters : IsFiniteSet({d \in Clusters : <<d, c>> \in Nearer})
    BY <2>1, NearestFacts
  <2>3. /\ clusters \in 0 .. n /\ (clusters <= 1 \/ clusters <= numClusters)
        /\ near = [k \in 1 .. n - clusters |-> s[clusters + k]]
        /\ near = <<>> \/ (clusters > 0 /\ clusters >= numClusters)
        /\ numClusters \in Nat /\ member \in [V -> Clusters]
    BY <1>2, <2>1 DEF DispatchInv, ClusterInv, DataInv, Asked
  <2>4. clusters = n \/ (clusters > 0 /\ clusters >= numClusters)
    <3>1. ASSUME near = <<>> PROVE clusters = n
      <4>1. PICK r : r = n - clusters
        OBVIOUS
      <4>2. near = [k \in 1 .. r |-> s[clusters + k]] /\ r \in Nat
        BY <2>2, <2>3, <4>1
      <4>3. DOMAIN near = {} /\ DOMAIN near = 1 .. r
        BY <3>1, <4>2
      <4>4. r = 0
        BY <4>2, <4>3
      <4>. QED
        BY <2>2, <2>3, <4>1, <4>4
    <3>. QED
      BY <2>3, <3>1
  <2>5. ASSUME NEW k \in 1 .. n PROVE s[k] \in Visited <=> k <= clusters
    <3>1. PICK T : T = {d \in Clusters : <<d, s[k]>> \in Nearer}
      OBVIOUS
    <3>2. Cardinality(T) = k - 1 /\ IsFiniteSet(T) /\ s[k] \in Clusters
      BY <2>2, <3>1
    <3>3. T = {} <=> k = 1
      <4>1. Cardinality(T) = 0 <=> T = {}
        BY <3>2, FS_EmptySet
      <4>. QED
        BY <3>2, <4>1
    <3>4. s[k] \in Visited <=> T = {} \/ Cardinality(T) < numClusters
      BY <3>1, <3>2 DEF Visited
    <3>5. s[k] \in Visited <=> k = 1 \/ k - 1 < numClusters
      BY <3>2, <3>3, <3>4
    <3>6. k <= clusters <=> k = 1 \/ k - 1 < numClusters
      BY <2>2, <2>3, <2>4
    <3>. QED
      BY <3>5, <3>6
  <2>6. ASSUME NEW v \in Matching
        PROVE  (\E k \in 1 .. clusters : member[v] = s[k]) <=> member[v] \in Visited
    <3>1. member[v] \in Clusters
      BY <2>3, MatchingFacts
    <3>2. PICK m \in 1 .. n : s[m] = member[v]
      BY <2>2, <3>1
    <3>3. member[v] \in Visited <=> m <= clusters
      BY <2>5, <3>2
    <3>4. ASSUME NEW k \in 1 .. clusters, member[v] = s[k] PROVE m <= clusters
      <4>1. k \in 1 .. n
        BY <2>2, <2>3
      <4>2. k = m
        BY <2>2, <3>2, <3>4, <4>1
      <4>. QED
        BY <2>3, <4>2
    <3>5. ASSUME m <= clusters PROVE \E k \in 1 .. clusters : member[v] = s[k]
      <4>1. m \in 1 .. clusters
        BY <2>3, <3>5
      <4>. QED
        BY <3>2, <4>1
    <3>. QED
      BY <3>3, <3>4, <3>5
  <2>7. Reached = {v \in Matching : \E k \in 1 .. clusters : member[v] = s[k]}
    BY <1>2, <2>1 DEF Reached
  <2>. QED
    BY <1>2, <2>6, <2>7
<1>. QED
  BY <1>1, <1>2

\* Answers are exact among the eligible vectors: K of them or all, and none nearer is missed
\* (the list of sentinels, the brute-force scan, the row and the visited clusters).
THEOREM AnswersExactAlways == DispatchSpec => []AnswersExact
<1>1. DispatchInv => AnswersExact
  <2>1. SUFFICES ASSUME DispatchInv, phase = "answered"
                 PROVE  /\ Reported \subseteq Reached
                        /\ Cardinality(Reported) = IF Cardinality(Reached) < K THEN Cardinality(Reached) ELSE K
                        /\ \A v \in Reached \ Reported, r \in Reported : Distance[r] <= Distance[v]
    BY ReachedIsEligible DEF AnswersExact
  <2>2. PICK S : S = Reached
    OBVIOUS
  <2>3. /\ BestOf(best, S) /\ results = [k \in 1 .. K |-> best[k][2]] /\ S \in SUBSET V
        /\ \A k \in 1 .. K : best[k] = Sentinel <=> results[k] = -1
        /\ \A k \in 1 .. K : results[k] # -1 => results[k] \in S /\ best[k] = <<Distance[results[k]], results[k]>>
        /\ \A v \in V : Distance[v] \in Nat /\ Distance[v] < Far /\ v # -1
        /\ Far \in Nat
    BY <2>1, <2>2, AnswerFacts
  <2>4. K \in Nat \ {0} /\ K \in 1 .. K /\ DOMAIN results = 1 .. K
    BY <2>3, DispatchAssumption
  <2>5. PICK T : T = Reported
    OBVIOUS
  <2>6. \A v : v \in T <=> v # -1 /\ \E k \in 1 .. K : results[k] = v
    BY <2>4, <2>5 DEF Reported
  <2>7. T \in SUBSET S /\ IsFiniteSet(S) /\ Cardinality(S) \in Nat
    BY <2>3, <2>6, GroupFacts
  <2>8. IsFiniteSet(T) /\ Cardinality(T) <= Cardinality(S) /\ Cardinality(T) \in Nat
    <3>1. IsFiniteSet(T) /\ Cardinality(T) <= Cardinality(S)
      BY <2>7, FS_Subset
    <3>. QED
      BY <3>1, FS_CardinalityType
  <2>9. \A k, l \in 1 .. K : results[k] = results[l] /\ results[k] # -1 => k = l
    <3>1. ASSUME NEW k \in 1 .. K, NEW l \in 1 .. K, results[k] = results[l], results[k] # -1, k < l
          PROVE  FALSE
      BY <2>1, <3>1, AnswerOrdered
    <3>2. \A k, l \in 1 .. K : k = l \/ k < l \/ l < k
      BY <2>4
    <3>. QED
      BY <3>1, <3>2
  <2>10. IsFiniteSet(1 .. K) /\ Cardinality(1 .. K) = K
    <3>1. 1 \in Int /\ K \in Int
      BY <2>4
    <3>2. IsFiniteSet(1 .. K) /\ Cardinality(1 .. K) = IF 1 > K THEN 0 ELSE K - 1 + 1
      BY <3>1, FS_Interval
    <3>. QED
      BY <2>4, <3>2
  <2>11. ASSUME NEW v \in S, v \notin T PROVE best[K][1] <= Distance[v]
    <3>1. (\E k \in 1 .. K : best[k] = <<Distance[v], v>>) \/ best[K][1] <= Distance[v]
      BY <2>3 DEF BestOf
    <3>2. ASSUME NEW k \in 1 .. K, best[k] = <<Distance[v], v>> PROVE v \in T
      <4>1. results[k] = v /\ v # -1
        BY <2>3, <3>2
      <4>. QED
        BY <2>6, <4>1
    <3>. QED
      BY <2>11, <3>1, <3>2
  <2>12. Cardinality(T) = IF Cardinality(S) < K THEN Cardinality(S) ELSE K
    <3>1. CASE best[K] = Sentinel
      <4>1. T = S
        <5>1. ASSUME NEW v \in S, v \notin T PROVE FALSE
          <6>1. best[K][1] = Far
            BY <3>1 DEF Sentinel
          <6>. QED
            BY <2>3, <2>11, <5>1, <6>1
        <5>. QED
          BY <2>7, <5>1
      <4>2. PICK f : f = [v \in T |-> CHOOSE k \in 1 .. K : results[k] = v]
        OBVIOUS
      <4>3. \A v \in T : f[v] \in 1 .. K /\ results[f[v]] = v
        BY <2>6, <4>2
      <4>4. f \in [T -> 1 .. K] /\ \A u, v \in T : f[u] = f[v] => u = v
        <5>1. DOMAIN f = T /\ f = [v \in T |-> f[v]]
          BY <4>2
        <5>. QED
          BY <4>3, <5>1
      <4>5. f \in Injection(T, 1 .. K)
        BY <4>4 DEF Injection, IsInjective
      <4>6. Cardinality(T) <= K
        BY <2>10, <4>5, FS_Injection
      <4>. QED
        BY <2>4, <2>8, <4>1, <4>6
    <3>2. CASE best[K] # Sentinel
      <4>1. \A k \in 1 .. K : results[k] # -1
        <5>1. ASSUME NEW k \in 1 .. K, results[k] = -1 PROVE FALSE
          <6>1. results[K] # -1
            BY <2>3, <2>4, <3>2
          <6>2. k < K
            BY <2>4, <5>1, <6>1
          <6>. QED
            BY <2>1, <2>4, <5>1, <6>1, <6>2, AnswerOrdered
        <5>. QED
          BY <5>1
      <4>2. results \in [1 .. K -> T]
        <5>1. \A k \in 1 .. K : results[k] \in T
          BY <2>6, <4>1
        <5>2. results = [k \in 1 .. K |-> results[k]]
          BY <2>3
        <5>. QED
          BY <5>1, <5>2
      <4>3. /\ \A k, l \in 1 .. K : results[k] = results[l] => k = l
            /\ \A v \in T : \E k \in 1 .. K : results[k] = v
        BY <2>6, <2>9, <4>1
      <4>4. results \in Injection(1 .. K, T) /\ results \in Surjection(1 .. K, T)
        BY <4>2, <4>3 DEF Injection, IsInjective, Surjection
      <4>5. Cardinality(1 .. K) = Cardinality(T)
        BY <2>10, <4>4, FS_Surjection
      <4>. QED
        BY <2>4, <2>7, <2>8, <2>10, <4>5
    <3>. QED
      BY <3>1, <3>2
  <2>13. ASSUME NEW v \in S, v \notin T, NEW r \in T PROVE Distance[r] <= Distance[v]
    <3>1. PICK k \in 1 .. K : results[k] = r /\ best[k] = <<Distance[r], r>>
      BY <2>3, <2>6
    <3>2. Distance[r] \in Int /\ Distance[v] \in Int /\ best[k][1] = Distance[r] /\ best[K][1] \in Int
      BY <2>3, <2>4, <2>7, <3>1 DEF BestOf
    <3>3. best[k][1] <= best[K][1]
      <4>1. k = K \/ k < K
        BY <2>4
      <4>2. CASE k < K
        <5>1. best[k] # Sentinel
          BY <2>3, <2>6, <3>1
        <5>2. Below(best[k], best[K])
          BY <2>3, <2>4, <4>2, <5>1 DEF BestOf
        <5>. QED
          BY <3>2, <5>2 DEF Below
      <4>. QED
        BY <3>2, <4>1, <4>2
    <3>4. best[K][1] <= Distance[v]
      BY <2>11, <2>13
    <3>. QED
      BY <3>2, <3>3, <3>4
  <2>. QED
    BY <2>2, <2>5, <2>7, <2>12, <2>13
<1>2. DispatchSpec => []DispatchInv
  BY DispatchInvHolds
<1>. QED
  BY <1>1, <1>2, PTL

\* The variables keep their types.
THEOREM DispatchTypeCorrect == DispatchSpec => []DispatchTypeOK
<1>1. DispatchInv => DispatchTypeOK
  <2>1. SUFFICES ASSUME DispatchInv PROVE DispatchTypeOK
    OBVIOUS
  <2>2. K \in Nat /\ best \in [1 .. K -> Int \X Int]
    BY <2>1, DispatchAssumption DEF DispatchInv, SearchInv
  <2>3. Len(best) = K
    BY <2>2
  <2>. QED
    BY <2>1, <2>3 DEF DispatchTypeOK, DispatchInv, DataInv, OfflineInv, QueryInv, SearchInv, ClusterInv
<1>2. DispatchSpec => []DispatchInv
  BY DispatchInvHolds
<1>. QED
  BY <1>1, <1>2, PTL
-----------------------------------------------------------------------------
(***************************************************************************)
(* KMeans.                                                                 *)
(***************************************************************************)
In(c) == {pt \in Points : membership[pt] = c}
Ones == [pt \in Points |-> 1]
Gain(pts, value, n) == IF n \in pts THEN value[n] ELSE 0
UpTo(pts, value, n) == SumTo([pt \in Points |-> Gain(pts, value, pt)], n)

\* The points a thread has passed are in the nearest clusters.
PassedInv == \A t \in Threads : \A pt \in ChunkStart(t) .. at[t] - 1 : membership[pt] = NearestTo(centroids, pt)

\* The arrays of a thread have what it has passed since its chunk began.
PartialsInv ==
    \A t \in Threads, c \in ClusterIds :
        /\ partialLen[t][c] + UpTo(Assigned(c), Ones, ChunkStart(t)) = UpTo(Assigned(c), Ones, at[t])
        /\ partialSum[t][c] + UpTo(Assigned(c), points, ChunkStart(t)) = UpTo(Assigned(c), points, at[t])

\* As long as an iteration moves no point, the centroids are the means of their clusters.
SettledInv == iter > 0 /\ delta = 0 => \A c \in ClusterIds : centroids[c] = Mean(In(c), c)

RoundInv == round = "assign" => iter < MaxIter /\ PassedInv /\ PartialsInv /\ SettledInv

EndInv ==
    /\ round # "assign" /\ 1 < iter /\ iter < MaxIter =>
          \A pt \in Points : membership[pt] = NearestTo(centroids, pt)
    /\ round = "built" => \A c \in ClusterIds : ivf[c] \in Seq(In(c))

KMeansInv == KMeansTypeOK /\ RoundInv /\ EndInv
-----------------------------------------------------------------------------
\* The loop of SumTo, as a function on the number of turns.
Summed(x, n, s) == s = [k \in 0 .. n |-> IF k = 0 THEN 0 ELSE s[k - 1] + x[k - 1]]

LEMMA SumExists ==
  ASSUME NEW x, NEW n \in Nat
  PROVE  \E s : Summed(x, n, s)
<1> DEFINE T == {m \in Nat : \E s : Summed(x, m, s)}
<1>1. 0 \in T
  <2>1. Summed(x, 0, [k \in 0 .. 0 |-> 0])
    BY DEF Summed
  <2>. QED
    BY <2>1
<1>2. ASSUME NEW m \in 1 .. n, m - 1 \in T PROVE m \in T
  <2>1. PICK s : Summed(x, m - 1, s)
    BY <1>2
  <2> DEFINE g == [k \in 0 .. m |-> IF k = m THEN s[m - 1] + x[m - 1] ELSE s[k]]
  <2>2. \A k \in 0 .. m - 1 : s[k] = IF k = 0 THEN 0 ELSE s[k - 1] + x[k - 1]
    BY <2>1 DEF Summed
  <2>3. \A k \in 0 .. m - 1 : g[k] = s[k]
    OBVIOUS
  <2>4. \A k \in 0 .. m : g[k] = IF k = 0 THEN 0 ELSE g[k - 1] + x[k - 1]
    <3>1. SUFFICES ASSUME NEW k \in 0 .. m PROVE g[k] = IF k = 0 THEN 0 ELSE g[k - 1] + x[k - 1]
      OBVIOUS
    <3>2. CASE k = m
      <4>1. k # 0 /\ k - 1 \in 0 .. m - 1 /\ g[k - 1] = s[m - 1] /\ g[k] = s[m - 1] + x[m - 1]
        BY <2>3, <3>2
      <4>. QED
        BY <3>2, <4>1
    <3>3. CASE k # m
      <4>1. k \in 0 .. m - 1 /\ g[k] = s[k] /\ (k # 0 => k - 1 \in 0 .. m - 1 /\ g[k - 1] = s[k - 1])
        BY <2>3, <3>3
      <4>. QED
        BY <2>2, <4>1
    <3>. QED
      BY <3>2, <3>3
  <2>5. g = [k \in 0 .. m |-> g[k]]
    OBVIOUS
  <2> HIDE DEF g
  <2>6. Summed(x, m, g)
    BY <2>4, <2>5 DEF Summed
  <2>. QED
    BY <2>6
<1> HIDE DEF T
<1>3. n \in T
  BY <1>1, <1>2, CountUpTo
<1>. QED
  BY <1>3 DEF T

\* One turn more adds one number; the sums of two rows with the same numbers are the same.
LEMMA SumFacts ==
  ASSUME NEW x, NEW n \in Nat, \A k \in 0 .. n - 1 : x[k] \in Nat
  PROVE  /\ SumTo(x, 0) = 0
         /\ \A k \in 1 .. n : SumTo(x, k) = SumTo(x, k - 1) + x[k - 1]
         /\ \A k \in 0 .. n : SumTo(x, k) \in Nat
<1>1. PICK s : Summed(x, n, s)
  BY SumExists
<1>2. \A k \in 0 .. n : s[k] = IF k = 0 THEN 0 ELSE s[k - 1] + x[k - 1]
  BY <1>1 DEF Summed
<1>3. ASSUME NEW m \in 0 .. n PROVE SumTo(x, m) = s[m]
  <2>1. \E t : Summed(x, m, t)
    BY SumExists
  <2> DEFINE t == CHOOSE t : Summed(x, m, t)
  <2>2. Summed(x, m, t)
    BY <2>1
  <2>3. SumTo(x, m) = t[m]
    BY DEF SumTo, Summed
  <2> HIDE DEF t
  <2>4. \A k \in 0 .. m : t[k] = IF k = 0 THEN 0 ELSE t[k - 1] + x[k - 1]
    BY <2>2 DEF Summed
  <2> DEFINE T == {k \in Nat : k <= m => t[k] = s[k]}
  <2>5. 0 \in T
    BY <1>2, <2>4
  <2>6. ASSUME NEW k \in 1 .. m, k - 1 \in T PROVE k \in T
    <3>1. k \in 0 .. m /\ k \in 0 .. n /\ k # 0 /\ t[k - 1] = s[k - 1]
      BY <2>6
    <3>. QED
      BY <1>2, <2>4, <3>1
  <2> HIDE DEF T
  <2>7. m \in T
    BY <2>5, <2>6, CountUpTo
  <2>. QED
    BY <2>3, <2>7 DEF T
<1>4. SumTo(x, 0) = 0
  BY <1>2, <1>3
<1>5. ASSUME NEW k \in 1 .. n PROVE SumTo(x, k) = SumTo(x, k - 1) + x[k - 1]
  <2>1. k \in 0 .. n /\ k - 1 \in 0 .. n /\ k # 0
    OBVIOUS
  <2>2. SumTo(x, k) = s[k] /\ SumTo(x, k - 1) = s[k - 1]
    BY <1>3, <2>1
  <2>. QED
    BY <1>2, <2>1, <2>2
<1> DEFINE N0 == {k \in Nat : k <= n => SumTo(x, k) \in Nat}
<1>6. 0 \in N0
  BY <1>4
<1>7. ASSUME NEW k \in 1 .. n, k - 1 \in N0 PROVE k \in N0
  <2>1. SumTo(x, k - 1) \in Nat /\ x[k - 1] \in Nat /\ SumTo(x, k) = SumTo(x, k - 1) + x[k - 1]
    BY <1>5, <1>7
  <2>. QED
    BY <2>1
<1>8. \A k \in 0 .. n : k \in N0
  <2> HIDE DEF N0
  <2>. QED
    BY <1>6, <1>7, CountUp
<1>. QED
  BY <1>4, <1>5, <1>8

LEMMA SameSums ==
  ASSUME NEW x, NEW y, NEW n \in Nat, \A k \in 0 .. n - 1 : x[k] \in Nat /\ x[k] = y[k]
  PROVE  SumTo(x, n) = SumTo(y, n)
<1>1. /\ SumTo(x, 0) = 0 /\ SumTo(y, 0) = 0
      /\ \A k \in 1 .. n : SumTo(x, k) = SumTo(x, k - 1) + x[k - 1]
      /\ \A k \in 1 .. n : SumTo(y, k) = SumTo(y, k - 1) + y[k - 1]
  BY SumFacts
<1> DEFINE T == {k \in Nat : k <= n => SumTo(x, k) = SumTo(y, k)}
<1>2. 0 \in T
  BY <1>1
<1>3. ASSUME NEW k \in 1 .. n, k - 1 \in T PROVE k \in T
  <2>1. k - 1 \in 0 .. n - 1 /\ SumTo(x, k - 1) = SumTo(y, k - 1)
    BY <1>3
  <2>. QED
    BY <1>1, <2>1
<1> HIDE DEF T
<1>4. n \in T
  BY <1>2, <1>3, CountUpTo
<1>. QED
  BY <1>4 DEF T

\* The values of the points of a set before point n.
LEMMA UpToFacts ==
  ASSUME NEW pts, NEW value \in [Points -> Nat]
  PROVE  /\ UpTo(pts, value, 0) = 0
         /\ \A n \in 0 .. NumPoints : UpTo(pts, value, n) \in Nat
         /\ \A n \in Points : UpTo(pts, value, n + 1) =
                                 UpTo(pts, value, n) + Gain(pts, value, n)
<1> DEFINE x == [pt \in Points |-> Gain(pts, value, pt)]
<1>1. Points = 0 .. NumPoints - 1 /\ NumPoints \in Nat
  BY KMeansAssumption DEF Points
<1>2. \A k \in 0 .. NumPoints - 1 : x[k] \in Nat /\ x[k] = Gain(pts, value, k)
  BY <1>1 DEF Gain
<1>3. \A n : UpTo(pts, value, n) = SumTo(x, n)
  BY DEF UpTo
<1> HIDE DEF x
<1>4. /\ SumTo(x, 0) = 0
      /\ \A k \in 1 .. NumPoints : SumTo(x, k) = SumTo(x, k - 1) + x[k - 1]
      /\ \A k \in 0 .. NumPoints : SumTo(x, k) \in Nat
  BY <1>1, <1>2, SumFacts
<1>5. ASSUME NEW n \in Points PROVE SumTo(x, n + 1) = SumTo(x, n) + x[n]
  <2>1. n + 1 \in 1 .. NumPoints /\ n + 1 - 1 = n
    BY <1>1
  <2>2. SumTo(x, n + 1) = SumTo(x, n + 1 - 1) + x[n + 1 - 1]
    BY <1>1, <1>4, <2>1
  <2>. QED
    BY <1>1, <2>1, <2>2
<1>. QED
  BY <1>1, <1>2, <1>3, <1>4, <1>5

\* Counting the points of a set one by one.
LEMMA OnesCount ==
  ASSUME NEW pts \in SUBSET Points
  PROVE  Sum(pts, Ones) = Cardinality(pts)
<1>1. Points = 0 .. NumPoints - 1 /\ NumPoints \in Nat /\ Ones \in [Points -> Nat] /\ \A n \in Points : Ones[n] = 1
  BY KMeansAssumption DEF Points, Ones
<1>2. /\ UpTo(pts, Ones, 0) = 0
      /\ \A n \in Points : UpTo(pts, Ones, n + 1) = UpTo(pts, Ones, n) + Gain(pts, Ones, n)
  BY <1>1, UpToFacts
<1> DEFINE P(n) == pts \cap 0 .. n - 1
           T == {n \in Nat : n <= NumPoints => IsFiniteSet(P(n)) /\ UpTo(pts, Ones, n) = Cardinality(P(n))}
<1>3. 0 \in T
  <2>1. P(0) = {}
    OBVIOUS
  <2>. QED
    BY <1>2, <2>1, FS_EmptySet
<1>4. ASSUME NEW n \in 1 .. NumPoints, n - 1 \in T PROVE n \in T
  <2> DEFINE A == P(n - 1)
  <2>1. n - 1 \in Points /\ n - 1 + 1 = n /\ n - 1 \notin A
    BY <1>1
  <2>2. IsFiniteSet(A) /\ UpTo(pts, Ones, n - 1) = Cardinality(A)
    BY <1>1, <1>4
  <2>3. UpTo(pts, Ones, n) = UpTo(pts, Ones, n - 1) + IF n - 1 \in pts THEN 1 ELSE 0
    BY <1>1, <1>2, <2>1 DEF Gain
  <2>4. P(n) = IF n - 1 \in pts THEN A \cup {n - 1} ELSE A
    <3>1. 0 .. n - 1 = (0 .. n - 1 - 1) \cup {n - 1}
      OBVIOUS
    <3>. QED
      BY <3>1
  <2> HIDE DEF A
  <2>5. /\ IsFiniteSet(A \cup {n - 1}) /\ Cardinality(A \cup {n - 1}) = Cardinality(A) + 1
        /\ Cardinality(A) \in Nat
    BY <2>1, <2>2, FS_AddElement, FS_CardinalityType
  <2>6. IsFiniteSet(P(n)) /\ UpTo(pts, Ones, n) = Cardinality(P(n))
    <3>1. CASE n - 1 \in pts
      <4>1. P(n) = A \cup {n - 1} /\ UpTo(pts, Ones, n) = Cardinality(A) + 1
        BY <2>2, <2>3, <2>4, <3>1
      <4>. QED
        BY <2>5, <4>1
    <3>2. CASE n - 1 \notin pts
      <4>1. P(n) = A /\ UpTo(pts, Ones, n) = Cardinality(A) + 0
        BY <2>2, <2>3, <2>4, <3>2
      <4>. QED
        BY <2>2, <2>5, <4>1
    <3>. QED
      BY <3>1, <3>2
  <2>. QED
    BY <2>6
<1> HIDE DEF T
<1>5. NumPoints \in T
  BY <1>1, <1>3, <1>4, CountUpTo
<1>6. P(NumPoints) = pts
  BY <1>1
<1>7. Sum(pts, Ones) = UpTo(pts, Ones, NumPoints)
  BY DEF Sum, UpTo, Gain
<1>8. UpTo(pts, Ones, NumPoints) = Cardinality(P(NumPoints))
  BY <1>1, <1>5 DEF T
<1>. QED
  BY <1>6, <1>7, <1>8

LEMMA Divided ==
  ASSUME NEW a \in Nat, NEW b \in Nat \ {0}
  PROVE  /\ a \div b \in Nat /\ a % b \in 0 .. b - 1
         /\ a = b * (a \div b) + (a % b)
OBVIOUS

LEMMA Products ==
  ASSUME NEW a \in Nat, NEW b \in Nat, NEW s \in Nat, a <= b
  PROVE  a * s \in Nat /\ b * s \in Nat /\ a * s <= b * s /\ (a + 1) * s = a * s + s
OBVIOUS

\* The chunks of the threads are the points, one after the other.
LEMMA Chunks ==
  /\ ChunkStart(0) = 0 /\ ChunkEnd(NumThreads - 1) = NumPoints
  /\ \A t \in Threads : /\ ChunkStart(t) \in Nat /\ ChunkEnd(t) \in Nat
                        /\ ChunkStart(t) <= ChunkEnd(t) /\ ChunkEnd(t) <= NumPoints
                        /\ t # NumThreads - 1 => t + 1 \in Threads /\ ChunkEnd(t) = ChunkStart(t + 1)
<1> DEFINE short == NumPoints \div NumThreads
           spare == NumPoints % NumThreads
<1>1. /\ NumPoints \in Nat /\ NumThreads \in Nat \ {0} /\ Threads = 0 .. NumThreads - 1
      /\ 0 \in Threads /\ NumThreads - 1 \in Threads
  BY KMeansAssumption DEF Threads
<1>2. short \in Nat /\ spare \in 0 .. NumThreads - 1 /\ NumPoints = NumThreads * short + spare
  BY <1>1, Divided
<1>3. \A t : ChunkStart(t) = t * short + IF t < spare THEN t ELSE spare
  BY DEF ChunkStart
<1>4. \A t : ChunkEnd(t) = IF t = NumThreads - 1 THEN NumPoints ELSE ChunkStart(t + 1)
  BY DEF ChunkEnd
<1> HIDE DEF short, spare
<1>5. ASSUME NEW t \in Threads
      PROVE  /\ ChunkStart(t) \in Nat /\ ChunkStart(t) <= NumPoints
             /\ t # NumThreads - 1 => t + 1 \in Threads /\ ChunkStart(t) <= ChunkStart(t + 1)
  <2>1. t \in Nat /\ t <= NumThreads /\ NumThreads \in Nat /\ spare \in Nat
    BY <1>1, <1>2
  <2>2. t * short \in Nat /\ t * short <= NumThreads * short /\ NumThreads * short \in Nat
    BY <1>2, <2>1, Products
  <2>3. (t + 1) * short = t * short + short
    BY <1>2, <2>1, Products
  <2> DEFINE p == t * short
             r == (t + 1) * short
             w == NumThreads * short
  <2>4. p \in Nat /\ w \in Nat /\ p <= w /\ r = p + short /\ NumPoints = w + spare
    BY <1>2, <2>2, <2>3
  <2>5. /\ ChunkStart(t) = p + IF t < spare THEN t ELSE spare
        /\ ChunkStart(t + 1) = r + IF t + 1 < spare THEN t + 1 ELSE spare
    BY <1>3
  <2> HIDE DEF p, r, w
  <2>. QED
    BY <1>1, <1>2, <2>1, <2>4, <2>5
<1>6. ChunkStart(0) = 0
  <2>1. 0 * short = 0
    BY <1>2
  <2>. QED
    BY <1>2, <1>3, <2>1
<1>. QED
  BY <1>1, <1>4, <1>5, <1>6

\* Every point is in the chunk of a thread.
LEMMA ChunksCover == \A pt \in Points : \E t \in Threads : pt \in ChunkStart(t) .. ChunkEnd(t) - 1
<1> SUFFICES ASSUME NEW pt \in Points PROVE \E t \in Threads : pt \in ChunkStart(t) .. ChunkEnd(t) - 1
  OBVIOUS
<1>1. pt \in 0 .. NumPoints - 1 /\ NumThreads \in Nat \ {0} /\ Threads = 0 .. NumThreads - 1
  BY KMeansAssumption DEF Points, Threads
<1> DEFINE T == {t \in Threads : pt < ChunkEnd(t)}
<1>2. T \in SUBSET Nat /\ NumThreads - 1 \in T
  BY <1>1, Chunks
<1>3. PICK t \in T : \A u \in T : t <= u
  BY <1>2, LeastNat
<1>4. ChunkStart(t) <= pt
  <2>1. CASE t = 0
    BY <1>1, <2>1, Chunks
  <2>2. CASE t # 0
    <3>1. t - 1 \in Threads /\ t - 1 # NumThreads - 1 /\ ~ (t <= t - 1) /\ t - 1 + 1 = t
      BY <1>1, <2>2
    <3>2. ~ (pt < ChunkEnd(t - 1))
      BY <1>3, <3>1
    <3>3. ChunkEnd(t - 1) = ChunkStart(t - 1 + 1) /\ ChunkEnd(t - 1) \in Nat
      BY <3>1, Chunks
    <3>. QED
      BY <1>1, <3>1, <3>2, <3>3
  <2>. QED
    BY <2>1, <2>2
<1>5. t \in Threads /\ pt < ChunkEnd(t) /\ ChunkStart(t) \in Nat /\ ChunkEnd(t) \in Nat
  BY Chunks
<1>. QED
  BY <1>1, <1>4, <1>5

\* The sum of what the threads found in their chunks is that of all points.
LEMMA Telescope ==
  ASSUME NEW x \in [Threads -> Nat], NEW s,
         \A n \in 0 .. NumPoints : s[n] \in Nat, s[0] = 0,
         \A t \in Threads : x[t] + s[ChunkStart(t)] = s[ChunkEnd(t)]
  PROVE  SumTo(x, NumThreads) = s[NumPoints]
<1>1. NumPoints \in Nat /\ NumThreads \in Nat \ {0} /\ Threads = 0 .. NumThreads - 1
  BY KMeansAssumption DEF Threads
<1>2. \A k \in 0 .. NumThreads - 1 : x[k] \in Nat
  BY <1>1
<1>3. /\ SumTo(x, 0) = 0
      /\ \A k \in 1 .. NumThreads : SumTo(x, k) = SumTo(x, k - 1) + x[k - 1]
      /\ \A k \in 0 .. NumThreads : SumTo(x, k) \in Nat
  BY <1>1, <1>2, SumFacts
<1> DEFINE before(k) == IF k = NumThreads THEN s[NumPoints] ELSE s[ChunkStart(k)]
           T == {k \in Nat : k <= NumThreads => SumTo(x, k) = before(k)}
<1>4. 0 \in T
  BY <1>1, <1>3, Chunks
<1>5. ASSUME NEW k \in 1 .. NumThreads, k - 1 \in T PROVE k \in T
  <2> DEFINE t == k - 1
  <2>1. t \in Threads /\ t # NumThreads /\ t <= NumThreads /\ t + 1 = k
    BY <1>1
  <2>2. SumTo(x, t) = s[ChunkStart(t)] /\ SumTo(x, k) = SumTo(x, t) + x[t]
    BY <1>1, <1>3, <1>5, <2>1
  <2>3. s[ChunkEnd(t)] = before(k)
    BY <1>1, <2>1, Chunks
  <2>4. x[t] + s[ChunkStart(t)] = s[ChunkEnd(t)]
    BY <2>1
  <2>5. s[ChunkStart(t)] \in Nat /\ x[t] \in Nat
    <3>1. ChunkStart(t) \in 0 .. NumPoints
      BY <1>1, <2>1, Chunks
    <3>. QED
      BY <2>1, <3>1
  <2> HIDE DEF t
  <2>6. SumTo(x, k) = before(k)
    BY <2>2, <2>3, <2>4, <2>5
  <2>. QED
    BY <2>6
<1> HIDE DEF T
<1>6. NumThreads \in T
  BY <1>1, <1>4, <1>5, CountUpTo
<1>. QED
  BY <1>1, <1>6 DEF T

LEMMA ClusterCount ==
  NumClusters \in Nat \ {0} /\ NumClusters <= NumPoints /\ ClusterIds \subseteq Points /\ 0 \in ClusterIds
<1>1. NumPoints \in Nat \ {0} /\ ClusterSize \in Nat \ {0}
  BY KMeansAssumption
<1> DEFINE a == NumPoints + ClusterSize - 1
           n == a \div ClusterSize
           r == a % ClusterSize
<1>2. a \in Nat
  BY <1>1
<1>3. n \in Nat /\ r \in 0 .. ClusterSize - 1 /\ a = ClusterSize * n + r
  BY <1>1, <1>2, Divided
<1>4. n # 0
  <2>1. n = 0 => ClusterSize * n = 0
    BY <1>1
  <2>2. n = 0 => a = r
    BY <1>3, <2>1
  <2>. QED
    BY <1>1, <1>3, <2>2
<1>5. n <= NumPoints
  <2>1. SUFFICES ASSUME NumPoints + 1 <= n PROVE FALSE
    BY <1>1, <1>3
  <2>2. (NumPoints + 1) * ClusterSize <= n * ClusterSize /\ n * ClusterSize = ClusterSize * n
        /\ (NumPoints + 1) * ClusterSize = NumPoints * ClusterSize + ClusterSize
        /\ NumPoints * ClusterSize \in Nat /\ n * ClusterSize \in Nat
    BY <1>1, <1>3, <2>1, Products
  <2>3. 1 * NumPoints <= ClusterSize * NumPoints /\ 1 * NumPoints = NumPoints
        /\ ClusterSize * NumPoints = NumPoints * ClusterSize
    BY <1>1, Products
  <2> DEFINE p == NumPoints * ClusterSize
             w == n * ClusterSize
  <2>4. p \in Nat /\ w \in Nat /\ p + ClusterSize <= w /\ NumPoints <= p /\ a = w + r
    BY <1>3, <2>2, <2>3
  <2> HIDE DEF p, w, n, r
  <2>. QED
    BY <1>1, <1>3, <2>4
<1>. QED
  BY <1>1, <1>3, <1>4, <1>5 DEF NumClusters, ClusterIds, Points
-----------------------------------------------------------------------------
\* The least of the numbers that points of a set are at.
LEMMA NearestCentroid ==
  ASSUME points \in [Points -> Nat], NEW cs \in [ClusterIds -> Nat], NEW pt \in Points
  PROVE  /\ NearestTo(cs, pt) \in ClusterIds
         /\ \A d \in ClusterIds : DistTo(pt, cs[NearestTo(cs, pt)]) <= DistTo(pt, cs[d])
<1> DEFINE dist == [c \in ClusterIds |-> DistTo(pt, cs[c])]
<1>1. ClusterIds \subseteq Nat /\ 0 \in ClusterIds
  BY ClusterCount DEF ClusterIds
<1>2. ASSUME NEW c \in ClusterIds PROVE DistTo(pt, cs[c]) \in Nat
  <2> DEFINE e == points[pt] - cs[c]
  <2>1. e \in Int
    OBVIOUS
  <2> HIDE DEF e
  <2>2. e * e \in Nat
    BY <2>1
  <2>. QED
    BY <2>2 DEF e, DistTo
<1> DEFINE D == {DistTo(pt, cs[c]) : c \in ClusterIds}
<1>3. D \in SUBSET Nat /\ D # {}
  BY <1>1, <1>2
<1>4. PICK m \in D : \A n \in D : m <= n
  BY <1>3, LeastNat
<1> DEFINE C == {c \in ClusterIds : DistTo(pt, cs[c]) = m}
<1>5. C \in SUBSET Nat /\ C # {}
  BY <1>1, <1>4
<1>6. PICK c \in C : \A d \in C : c <= d
  BY <1>5, LeastNat
<1>7. \A d \in ClusterIds : m <= DistTo(pt, cs[d]) /\ DistTo(pt, cs[d]) \in Nat
  BY <1>2, <1>4
<1>8. \A d \in ClusterIds : \/ DistTo(pt, cs[c]) < DistTo(pt, cs[d])
                            \/ DistTo(pt, cs[c]) = DistTo(pt, cs[d]) /\ c <= d
  BY <1>3, <1>6, <1>7
<1>9. c \in ClusterIds
  OBVIOUS
<1> DEFINE n == NearestTo(cs, pt)
<1>10. /\ n \in ClusterIds
       /\ \A d \in ClusterIds : \/ DistTo(pt, cs[n]) < DistTo(pt, cs[d])
                                \/ DistTo(pt, cs[n]) = DistTo(pt, cs[d]) /\ n <= d
  BY <1>8, <1>9 DEF NearestTo
<1>. QED
  BY <1>2, <1>10

\* The list of a cluster has its points.
LEMMA Posted == \A c : Posting(c) \in Seq(In(c))
<1> SUFFICES ASSUME NEW c PROVE Posting(c) \in Seq(In(c))
  OBVIOUS
<1>1. NumPoints \in Nat /\ Points = 0 .. NumPoints - 1
  BY KMeansAssumption DEF Points
<1> DEFINE Turn(s, n) == IF membership[n - 1] = c THEN Append(s, n - 1) ELSE s
           Loop(n, g) == g = [k \in 0 .. n |-> IF k = 0 THEN <<>> ELSE Turn(g[k - 1], k)]
           T == {n \in Nat : \E g : Loop(n, g)}
<1>2. 0 \in T
  <2>1. Loop(0, [k \in 0 .. 0 |-> <<>>])
    OBVIOUS
  <2>. QED
    BY <2>1
<1>3. ASSUME NEW n \in 1 .. NumPoints, n - 1 \in T PROVE n \in T
  <2>1. PICK s : Loop(n - 1, s)
    BY <1>3
  <2> DEFINE g == [k \in 0 .. n |-> IF k = n THEN Turn(s[n - 1], n) ELSE s[k]]
  <2> HIDE DEF Turn
  <2>2. \A k \in 0 .. n - 1 : s[k] = IF k = 0 THEN <<>> ELSE Turn(s[k - 1], k)
    BY <2>1
  <2>3. \A k \in 0 .. n : g[k] = IF k = 0 THEN <<>> ELSE Turn(g[k - 1], k)
    <3>1. SUFFICES ASSUME NEW k \in 0 .. n PROVE g[k] = IF k = 0 THEN <<>> ELSE Turn(g[k - 1], k)
      OBVIOUS
    <3>2. CASE k = n
      <4>1. k # 0 /\ g[k - 1] = s[n - 1] /\ g[k] = Turn(s[n - 1], n)
        BY <3>2
      <4>. QED
        BY <3>2, <4>1
    <3>3. CASE k # n
      <4>1. k \in 0 .. n - 1 /\ g[k] = s[k] /\ (k # 0 => g[k - 1] = s[k - 1])
        BY <3>3
      <4>. QED
        BY <2>2, <4>1
    <3>. QED
      BY <3>2, <3>3
  <2>4. g = [k \in 0 .. n |-> g[k]]
    OBVIOUS
  <2> HIDE DEF g
  <2>5. Loop(n, g)
    BY <2>3, <2>4
  <2>. QED
    BY <2>5
<1>4. NumPoints \in T
  <2> HIDE DEF T
  <2>. QED
    BY <1>1, <1>2, <1>3, CountUpTo
<1> DEFINE g == CHOOSE g : Loop(NumPoints, g)
<1>5. Loop(NumPoints, g)
  BY <1>4
<1>6. Posting(c) = g[NumPoints]
  BY DEF Posting
<1> HIDE DEF g
<1>7. \A k \in 0 .. NumPoints : g[k] = IF k = 0 THEN <<>> ELSE Turn(g[k - 1], k)
  BY <1>5
<1> HIDE DEF Loop, T, Turn
<1> DEFINE U == {k \in Nat : k <= NumPoints => g[k] \in Seq(In(c))}
<1>8. 0 \in U
  <2>1. g[0] = <<>>
    BY <1>1, <1>7
  <2>2. <<>> \in Seq(In(c))
    OBVIOUS
  <2>. QED
    BY <2>1, <2>2
<1>9. ASSUME NEW k \in 1 .. NumPoints, k - 1 \in U PROVE k \in U
  <2>1. g[k] = Turn(g[k - 1], k) /\ g[k - 1] \in Seq(In(c)) /\ k - 1 \in Points
    BY <1>1, <1>7, <1>9
  <2>2. membership[k - 1] = c => k - 1 \in In(c)
    BY <2>1 DEF In
  <2>3. g[k] \in Seq(In(c))
    <3>1. CASE membership[k - 1] = c
      <4>1. g[k] = Append(g[k - 1], k - 1)
        BY <2>1, <3>1 DEF Turn
      <4>. QED
        BY <2>1, <2>2, <3>1, <4>1
    <3>2. CASE membership[k - 1] # c
      BY <2>1, <3>2 DEF Turn
    <3>. QED
      BY <3>1, <3>2
  <2>. QED
    BY <2>3
<1>10. NumPoints \in U
  <2> HIDE DEF U
  <2>. QED
    BY <1>1, <1>8, <1>9, CountUpTo
<1>. QED
  BY <1>1, <1>6, <1>10
-----------------------------------------------------------------------------
LEMMA KMeansConstants ==
  /\ NumPoints \in Nat \ {0} /\ Points = 0 .. NumPoints - 1 /\ MaxIter \in Nat \ {0}
  /\ ClusterIds \subseteq Points /\ 0 \in ClusterIds /\ ClusterIds \subseteq Nat
  /\ NumThreads \in Nat \ {0} /\ Threads = 0 .. NumThreads - 1
BY KMeansAssumption, ClusterCount DEF Points, Threads

LEMMA MeanNat ==
  ASSUME KMeansTypeOK, NEW pts \in SUBSET Points, NEW c \in ClusterIds
  PROVE  Mean(pts, c) \in Nat
<1>1. CASE pts = {}
  BY <1>1 DEF Mean, KMeansTypeOK
<1>2. CASE pts # {}
  <2>1. IsFiniteSet(Points)
    BY KMeansConstants, FS_Interval
  <2>2. IsFiniteSet(pts)
    BY <2>1, FS_Subset
  <2>3. Cardinality(pts) \in Nat \ {0}
    BY <1>2, <2>2, FS_CardinalityType, FS_EmptySet
  <2>4. Sum(pts, points) \in Nat
    <3>1. Sum(pts, points) = UpTo(pts, points, NumPoints)
      BY DEF Sum, UpTo, Gain
    <3>2. points \in [Points -> Nat]
      BY DEF KMeansTypeOK
    <3>3. \A n \in 0 .. NumPoints : UpTo(pts, points, n) \in Nat
      BY <3>2, UpToFacts
    <3>. QED
      BY <3>1, <3>3, KMeansConstants
  <2>5. Mean(pts, c) = Sum(pts, points) \div Cardinality(pts)
    BY <1>2 DEF Mean
  <2>. QED
    BY <2>3, <2>4, <2>5, Divided
<1>. QED
  BY <1>1, <1>2

LEMMA InitKMeansInv == KMeansInit => KMeansInv
<1> SUFFICES ASSUME KMeansInit PROVE KMeansInv
  OBVIOUS
<1>1. points \in [Points -> Nat]
  BY KMeansAssumption DEF KMeansInit
<1>2. KMeansTypeOK
  BY <1>1, KMeansConstants, Chunks DEF KMeansInit, KMeansTypeOK, Zero
<1>3. PassedInv
  BY KMeansConstants, Chunks DEF KMeansInit, PassedInv
<1>4. PartialsInv
  <2>1. SUFFICES ASSUME NEW t \in Threads, NEW c \in ClusterIds
                 PROVE  /\ 0 + UpTo(Assigned(c), Ones, ChunkStart(t)) = UpTo(Assigned(c), Ones, ChunkStart(t))
                        /\ 0 + UpTo(Assigned(c), points, ChunkStart(t)) = UpTo(Assigned(c), points, ChunkStart(t))
    BY DEF PartialsInv, KMeansInit, Zero
  <2>2. ChunkStart(t) \in 0 .. NumPoints
    BY KMeansConstants, Chunks
  <2>3. Ones \in [Points -> Nat]
    BY DEF Ones
  <2>4. \A n \in 0 .. NumPoints : UpTo(Assigned(c), Ones, n) \in Nat
    BY <2>3, UpToFacts
  <2>5. \A n \in 0 .. NumPoints : UpTo(Assigned(c), points, n) \in Nat
    BY <1>1, UpToFacts
  <2>. QED
    BY <2>2, <2>4, <2>5
<1>. QED
  BY <1>2, <1>3, <1>4, KMeansConstants DEF KMeansInit, KMeansInv, RoundInv, SettledInv, EndInv

\* What the main thread finds when the team has joined is a round of all points.
LEMMA Reduced ==
  ASSUME KMeansInv, Joined
  PROVE  /\ \A pt \in Points : membership[pt] = NearestTo(centroids, pt)
         /\ NewCentroids = [c \in ClusterIds |-> Mean(Assigned(c), c)]
         /\ \A c \in ClusterIds : In(c) = Assigned(c)
<1>1. /\ KMeansTypeOK /\ PassedInv /\ PartialsInv /\ \A t \in Threads : at[t] = ChunkEnd(t)
  BY DEF Joined, KMeansInv, RoundInv
<1>2. ASSUME NEW pt \in Points PROVE membership[pt] = NearestTo(centroids, pt)
  <2>1. PICK t \in Threads : pt \in ChunkStart(t) .. ChunkEnd(t) - 1
    BY ChunksCover
  <2>. QED
    BY <1>1, <2>1 DEF PassedInv
<1>3. ASSUME NEW c \in ClusterIds PROVE In(c) = Assigned(c)
  BY <1>2 DEF In, Assigned
<1>4. ASSUME NEW c \in ClusterIds
      PROVE  /\ Total(partialLen, c) = Cardinality(Assigned(c))
             /\ Total(partialSum, c) = Sum(Assigned(c), points)
  <2> DEFINE A == Assigned(c)
  <2>0. Ones \in [Points -> Nat] /\ points \in [Points -> Nat]
    BY <1>1 DEF Ones, KMeansTypeOK
  <2>1. ASSUME NEW value \in [Points -> Nat], NEW x \in [Threads -> Nat],
               \A t \in Threads : x[t] + UpTo(A, value, ChunkStart(t)) = UpTo(A, value, ChunkEnd(t))
        PROVE  SumTo(x, NumThreads) = UpTo(A, value, NumPoints)
    <3> DEFINE s == [n \in 0 .. NumPoints |-> UpTo(A, value, n)]
    <3>1. (\A n \in 0 .. NumPoints : s[n] \in Nat) /\ s[0] = 0
      <4> HIDE DEF A
      <4>1. UpTo(A, value, 0) = 0 /\ \A n \in 0 .. NumPoints : UpTo(A, value, n) \in Nat
        BY UpToFacts
      <4>. QED
        BY <4>1, KMeansConstants
    <3>2. \A t \in Threads : x[t] + s[ChunkStart(t)] = s[ChunkEnd(t)]
      BY <2>1, KMeansConstants, Chunks
    <3>3. s[NumPoints] = UpTo(A, value, NumPoints)
      BY KMeansConstants
    <3> HIDE DEF s, A
    <3>4. SumTo(x, NumThreads) = s[NumPoints]
      BY <3>1, <3>2, Telescope
    <3>. QED
      BY <3>3, <3>4
  <2> DEFINE x == [t \in Threads |-> partialLen[t][c]]
             y == [t \in Threads |-> partialSum[t][c]]
  <2>2. x \in [Threads -> Nat] /\ y \in [Threads -> Nat]
    BY <1>1 DEF KMeansTypeOK
  <2>3. \A t \in Threads : /\ x[t] + UpTo(A, Ones, ChunkStart(t)) = UpTo(A, Ones, ChunkEnd(t))
                           /\ y[t] + UpTo(A, points, ChunkStart(t)) = UpTo(A, points, ChunkEnd(t))
    BY <1>1 DEF PartialsInv
  <2>4. Total(partialLen, c) = SumTo(x, NumThreads) /\ Total(partialSum, c) = SumTo(y, NumThreads)
    BY DEF Total
  <2>5. A \in SUBSET Points
    BY DEF Assigned
  <2> HIDE DEF x, y, A
  <2>6. SumTo(x, NumThreads) = UpTo(A, Ones, NumPoints) /\ SumTo(y, NumThreads) = UpTo(A, points, NumPoints)
    BY <2>0, <2>1, <2>2, <2>3
  <2>7. UpTo(A, Ones, NumPoints) = Cardinality(A)
    <3>1. Sum(A, Ones) = UpTo(A, Ones, NumPoints)
      BY DEF Sum, UpTo, Gain
    <3>. QED
      BY <2>5, <3>1, OnesCount
  <2>8. UpTo(A, points, NumPoints) = Sum(A, points)
    BY DEF Sum, UpTo, Gain
  <2>. QED
    BY <2>4, <2>6, <2>7, <2>8 DEF A
<1>5. ASSUME NEW c \in ClusterIds
      PROVE  Mean(Assigned(c), c) = IF Total(partialLen, c) > 0
                                    THEN Total(partialSum, c) \div Total(partialLen, c)
                                    ELSE centroids[c]
  <2> DEFINE A == Assigned(c)
  <2>1. IsFiniteSet(A)
    <3>1. IsFiniteSet(Points) /\ A \in SUBSET Points
      BY KMeansConstants, FS_Interval DEF Assigned
    <3>. QED
      BY <3>1, FS_Subset
  <2> HIDE DEF A
  <2>2. Cardinality(A) \in Nat /\ (Cardinality(A) = 0 <=> A = {})
    BY <2>1, FS_CardinalityType, FS_EmptySet
  <2>3. Total(partialLen, c) = Cardinality(A) /\ Total(partialSum, c) = Sum(A, points)
    BY <1>4 DEF A
  <2>4. Cardinality(A) > 0 <=> A # {}
    BY <2>2
  <2>5. Mean(A, c) = IF A = {} THEN centroids[c] ELSE Sum(A, points) \div Cardinality(A)
    BY DEF Mean
  <2>6. CASE A = {}
    BY <2>3, <2>4, <2>5, <2>6 DEF A
  <2>7. CASE A # {}
    BY <2>3, <2>4, <2>5, <2>7 DEF A
  <2>. QED
    BY <2>6, <2>7
<1>6. NewCentroids = [c \in ClusterIds |-> Mean(Assigned(c), c)]
  BY <1>5 DEF NewCentroids
<1>. QED
  BY <1>2, <1>3, <1>6
-----------------------------------------------------------------------------
\* What only the data and the centroids determine.
LEMMA SameRound ==
  ASSUME UNCHANGED <<points, centroids>>
  PROVE  /\ \A pt : NearestTo(centroids, pt)' = NearestTo(centroids, pt)
         /\ \A c : Assigned(c)' = Assigned(c)
<1>1. \A pt, c : DistTo(pt, c)' = DistTo(pt, c)
  BY DEF DistTo
<1>2. \A pt : NearestTo(centroids, pt)' = NearestTo(centroids, pt)
  BY <1>1 DEF NearestTo
<1>. QED
  BY <1>2 DEF Assigned

LEMMA AssignKMeansInv ==
  ASSUME KMeansInv, NEW t \in Threads, Assign(t)
  PROVE  KMeansInv'
<1> DEFINE pt == at[t]
           index == NearestTo(centroids, pt)
<1>1. KMeansTypeOK /\ iter < MaxIter /\ PassedInv /\ PartialsInv /\ SettledInv /\ round = "assign"
  BY DEF KMeansInv, RoundInv, Assign
<1>2. /\ pt < ChunkEnd(t)
      /\ delta' = delta + (IF membership[pt] # index THEN 1 ELSE 0)
      /\ membership' = [membership EXCEPT ![pt] = index]
      /\ partialLen' = [partialLen EXCEPT ![t][index] = @ + 1]
      /\ partialSum' = [partialSum EXCEPT ![t][index] = @ + points[pt]]
      /\ at' = [at EXCEPT ![t] = pt + 1]
      /\ UNCHANGED <<points, centroids, iter, round, ivf>>
  BY DEF Assign
<1>3. /\ pt \in Points /\ pt \in Nat /\ points \in [Points -> Nat] /\ points[pt] \in Nat
      /\ pt \in ChunkStart(t) .. ChunkEnd(t) - 1
      /\ ChunkStart(t) \in Nat /\ ChunkEnd(t) \in Nat /\ ChunkEnd(t) <= NumPoints
  <2>1. ChunkStart(t) \in Nat /\ ChunkEnd(t) \in Nat /\ ChunkEnd(t) <= NumPoints /\ NumPoints \in Nat
    BY KMeansConstants, Chunks
  <2>2. pt \in Nat /\ pt \in ChunkStart(t) .. ChunkEnd(t) /\ points \in [Points -> Nat]
    BY <1>1 DEF KMeansTypeOK
  <2>3. pt \in ChunkStart(t) .. ChunkEnd(t) - 1 /\ pt \in 0 .. NumPoints - 1
    BY <1>2, <2>1, <2>2
  <2>. QED
    BY <2>1, <2>2, <2>3, KMeansConstants
<1>4. index \in ClusterIds
  BY <1>1, <1>3, NearestCentroid DEF KMeansTypeOK
<1>5. /\ \A p : NearestTo(centroids, p)' = NearestTo(centroids, p)
      /\ \A c : Assigned(c)' = Assigned(c)
  BY <1>2, SameRound
<1>6. at'[t] = pt + 1 /\ \A u \in Threads : u # t => at'[u] = at[u]
  BY <1>1, <1>2 DEF KMeansTypeOK
<1>7. membership'[pt] = index /\ \A p \in Points : p # pt => membership'[p] = membership[p]
  BY <1>1, <1>2, <1>3 DEF KMeansTypeOK
<1> HIDE DEF index
<1>8. KMeansTypeOK'
  <2>1. membership' \in [Points -> ClusterIds] /\ delta' \in Nat
    <3>1. membership' \in [Points -> ClusterIds]
      BY <1>1, <1>2, <1>4 DEF KMeansTypeOK
    <3>2. delta' = delta \/ delta' = delta + 1
      BY <1>1, <1>2 DEF KMeansTypeOK
    <3>. QED
      BY <1>1, <3>1, <3>2 DEF KMeansTypeOK
  <2>2. /\ partialLen' \in [Threads -> [ClusterIds -> Nat]]
        /\ partialSum' \in [Threads -> [ClusterIds -> Nat]]
    BY <1>1, <1>2, <1>3, <1>4 DEF KMeansTypeOK
  <2>3. at' \in [Threads -> Nat]
    BY <1>1, <1>2, <1>3 DEF KMeansTypeOK
  <2>4. \A u \in Threads : at'[u] \in ChunkStart(u) .. ChunkEnd(u)
    BY <1>1, <1>3, <1>6 DEF KMeansTypeOK
  <2>. QED
    BY <1>1, <1>2, <2>1, <2>2, <2>3, <2>4 DEF KMeansTypeOK
<1>9. PassedInv'
  <2>1. SUFFICES ASSUME NEW u \in Threads, NEW p \in ChunkStart(u) .. at'[u] - 1
                 PROVE  membership'[p] = NearestTo(centroids, p)
    BY <1>5 DEF PassedInv
  <2>2. p \in Points /\ (p # pt => p \in ChunkStart(u) .. at[u] - 1)
    <3>1. ChunkStart(u) \in Nat /\ ChunkEnd(u) \in Nat /\ ChunkEnd(u) <= NumPoints /\ NumPoints \in Nat
      BY KMeansConstants, Chunks
    <3>2. at[u] \in ChunkStart(u) .. ChunkEnd(u)
      BY <1>1 DEF KMeansTypeOK
    <3>3. at'[u] = (IF u = t THEN pt + 1 ELSE at[u]) /\ (u = t => at[u] = pt /\ pt + 1 <= ChunkEnd(u))
      BY <1>2, <1>3, <1>6
    <3>4. p \in 0 .. NumPoints - 1 /\ (p # pt => p \in ChunkStart(u) .. at[u] - 1)
      BY <1>3, <3>1, <3>2, <3>3
    <3>. QED
      BY <3>4, KMeansConstants
  <2>. QED
    BY <1>1, <1>7, <2>2 DEF PassedInv, index
<1>10. PartialsInv'
  <2>1. SUFFICES ASSUME NEW u \in Threads, NEW c \in ClusterIds
                 PROVE  /\ partialLen'[u][c] + UpTo(Assigned(c), Ones, ChunkStart(u)) = UpTo(Assigned(c), Ones, at'[u])
                        /\ partialSum'[u][c] + UpTo(Assigned(c), points, ChunkStart(u)) = UpTo(Assigned(c), points, at'[u])
    BY <1>2, <1>5 DEF PartialsInv
  <2> DEFINE A == Assigned(c)
  <2>2. /\ partialLen[u][c] + UpTo(A, Ones, ChunkStart(u)) = UpTo(A, Ones, at[u])
        /\ partialSum[u][c] + UpTo(A, points, ChunkStart(u)) = UpTo(A, points, at[u])
    BY <1>1 DEF PartialsInv
  <2>3. CASE u # t
    <3>1. partialLen'[u] = partialLen[u] /\ partialSum'[u] = partialSum[u] /\ at'[u] = at[u]
      BY <1>1, <1>2, <1>6, <2>3 DEF KMeansTypeOK
    <3>. QED
      BY <2>2, <3>1
  <2>4. CASE u = t
    <3>1. /\ partialLen'[t][c] = partialLen[t][c] + IF c = index THEN 1 ELSE 0
          /\ partialSum'[t][c] = partialSum[t][c] + IF c = index THEN points[pt] ELSE 0
          /\ partialLen[t][c] \in Nat /\ partialSum[t][c] \in Nat
      BY <1>1, <1>2, <1>3, <1>4 DEF KMeansTypeOK
    <3>2. pt \in A <=> c = index
      BY <1>3 DEF Assigned, index
    <3>3. Ones \in [Points -> Nat] /\ Ones[pt] = 1
      BY <1>3 DEF Ones
    <3> HIDE DEF A
    <3>4. /\ UpTo(A, Ones, pt + 1) = UpTo(A, Ones, pt) + Gain(A, Ones, pt)
          /\ \A n \in 0 .. NumPoints : UpTo(A, Ones, n) \in Nat
      BY <1>3, <3>3, UpToFacts
    <3>5. /\ UpTo(A, points, pt + 1) = UpTo(A, points, pt) + Gain(A, points, pt)
          /\ \A n \in 0 .. NumPoints : UpTo(A, points, n) \in Nat
      BY <1>3, UpToFacts
    <3>6. Gain(A, Ones, pt) = (IF c = index THEN 1 ELSE 0) /\ Gain(A, points, pt) = IF c = index THEN points[pt] ELSE 0
      BY <3>2, <3>3 DEF Gain
    <3>7. pt \in 0 .. NumPoints /\ ChunkStart(t) \in 0 .. NumPoints
      BY <1>3, KMeansConstants
    <3> DEFINE a == UpTo(A, Ones, pt)
               b == UpTo(A, Ones, ChunkStart(t))
               d == UpTo(A, points, pt)
               e == UpTo(A, points, ChunkStart(t))
    <3>8. a \in Nat /\ b \in Nat /\ d \in Nat /\ e \in Nat
      BY <3>4, <3>5, <3>7
    <3>9. partialLen[t][c] + b = a /\ partialSum[t][c] + e = d
      BY <2>2, <2>4
    <3>10. UpTo(A, Ones, pt + 1) = a + (IF c = index THEN 1 ELSE 0)
           /\ UpTo(A, points, pt + 1) = d + (IF c = index THEN points[pt] ELSE 0)
      BY <3>4, <3>5, <3>6
    <3> HIDE DEF a, b, d, e
    <3>11. /\ partialLen'[t][c] + b = UpTo(A, Ones, pt + 1)
           /\ partialSum'[t][c] + e = UpTo(A, points, pt + 1)
      BY <1>3, <3>1, <3>8, <3>9, <3>10
    <3>. QED
      BY <1>6, <2>4, <3>11 DEF A, b, e
  <2>. QED
    BY <2>3, <2>4
<1>11. SettledInv'
  <2>1. SUFFICES ASSUME iter > 0, delta' = 0, NEW c \in ClusterIds PROVE centroids[c] = Mean(In(c), c)'
    BY <1>2 DEF SettledInv
  <2>2. delta = 0 /\ membership[pt] = index
    BY <1>1, <1>2, <2>1 DEF KMeansTypeOK
  <2>3. membership' = membership
    BY <1>1, <1>2, <1>3, <2>2 DEF KMeansTypeOK
  <2>4. In(c)' = In(c)
    BY <2>3 DEF In
  <2>5. Mean(In(c), c)' = Mean(In(c), c)
    BY <1>2, <2>4 DEF Mean
  <2>. QED
    BY <1>1, <2>1, <2>2, <2>5 DEF SettledInv
<1>. QED
  BY <1>1, <1>2, <1>8, <1>9, <1>10, <1>11 DEF KMeansInv, RoundInv, EndInv

LEMMA ReduceKMeansInv ==
  ASSUME KMeansInv, Reduce
  PROVE  KMeansInv'
<1>1. /\ Joined /\ centroids' = NewCentroids /\ partialLen' = Zero /\ partialSum' = Zero
      /\ iter' = iter + 1 /\ delta' = 0 /\ at' = [t \in Threads |-> ChunkStart(t)]
      /\ round' = IF delta <= 0 \/ iter + 1 = MaxIter THEN "clustered" ELSE "assign"
      /\ UNCHANGED <<points, membership, ivf>>
  BY DEF Reduce, NextIteration
<1>2. KMeansTypeOK /\ iter < MaxIter /\ SettledInv /\ round = "assign"
  BY <1>1 DEF Joined, KMeansInv, RoundInv
<1>3. /\ \A pt \in Points : membership[pt] = NearestTo(centroids, pt)
      /\ centroids' = [c \in ClusterIds |-> Mean(Assigned(c), c)]
      /\ \A c \in ClusterIds : In(c) = Assigned(c)
  BY <1>1, Reduced
<1>4. \A c \in ClusterIds : Assigned(c) \in SUBSET Points /\ Mean(Assigned(c), c) \in Nat
  BY <1>2, MeanNat DEF Assigned
<1>5. KMeansTypeOK'
  <2>1. centroids' \in [ClusterIds -> Nat]
    BY <1>3, <1>4
  <2>2. iter' \in 0 .. MaxIter
    BY <1>1, <1>2, KMeansConstants DEF KMeansTypeOK
  <2>. QED
    BY <1>1, <1>2, <2>1, <2>2, KMeansConstants, Chunks DEF KMeansTypeOK, Zero
<1>6. PassedInv'
  BY <1>1, KMeansConstants, Chunks DEF PassedInv
<1>7. PartialsInv'
  <2>1. SUFFICES ASSUME NEW u \in Threads, NEW c \in ClusterIds
                 PROVE  /\ 0 + UpTo(Assigned(c)', Ones, ChunkStart(u)) = UpTo(Assigned(c)', Ones, ChunkStart(u))
                        /\ 0 + UpTo(Assigned(c)', points', ChunkStart(u)) = UpTo(Assigned(c)', points', ChunkStart(u))
    BY <1>1 DEF PartialsInv, Zero
  <2>2. ChunkStart(u) \in 0 .. NumPoints
    BY KMeansConstants, Chunks
  <2>3. Ones \in [Points -> Nat] /\ points' \in [Points -> Nat]
    BY <1>5 DEF Ones, KMeansTypeOK
  <2> DEFINE A == Assigned(c)'
             d == points'
  <2> HIDE DEF A, d
  <2>4. \A n \in 0 .. NumPoints : UpTo(A, Ones, n) \in Nat
    BY <2>3, UpToFacts
  <2>5. \A n \in 0 .. NumPoints : UpTo(A, d, n) \in Nat
    BY <2>3, UpToFacts DEF d
  <2>. QED
    BY <2>2, <2>4, <2>5 DEF A, d
<1>8. \A c \in ClusterIds : In(c)' = In(c) /\ centroids'[c] = Mean(In(c), c)
  BY <1>1, <1>3 DEF In
<1>9. \A c \in ClusterIds : centroids'[c] = Mean(In(c), c)'
  BY <1>1, <1>8 DEF Mean
<1>10. ASSUME round' # "assign", 1 < iter', iter' < MaxIter, NEW pt \in Points
       PROVE  membership'[pt] = NearestTo(centroids, pt)'
  <2>1. delta = 0 /\ iter > 0
    BY <1>1, <1>2, <1>10 DEF KMeansTypeOK
  <2>2. \A c \in ClusterIds : centroids[c] = Mean(Assigned(c), c)
    BY <1>2, <1>3, <2>1 DEF SettledInv
  <2>3. centroids' = centroids
    BY <1>2, <1>3, <2>2 DEF KMeansTypeOK
  <2>4. \A p : NearestTo(centroids, p)' = NearestTo(centroids, p)
    BY <1>1, <2>3, SameRound
  <2>. QED
    BY <1>1, <1>3, <2>4
<1>11. iter' < MaxIter \/ round' = "clustered"
  BY <1>1, <1>2, KMeansConstants DEF KMeansTypeOK
<1>12. RoundInv'
  BY <1>6, <1>7, <1>9, <1>11 DEF RoundInv, SettledInv
<1>13. EndInv'
  BY <1>1, <1>10 DEF EndInv
<1>. QED
  BY <1>5, <1>12, <1>13 DEF KMeansInv

LEMMA ListsKMeansInv ==
  ASSUME KMeansInv, BuildLists
  PROVE  KMeansInv'
<1>1. /\ round = "clustered" /\ round' = "built" /\ ivf' = [c \in ClusterIds |-> Posting(c)]
      /\ UNCHANGED <<points, centroids, membership, iter, delta, at, partialLen, partialSum>>
  BY DEF BuildLists, partials
<1>2. \A p : NearestTo(centroids, p)' = NearestTo(centroids, p)
  BY <1>1, SameRound
<1>3. \A c \in ClusterIds : ivf'[c] \in Seq(In(c)) /\ In(c)' = In(c)
  BY <1>1, Posted DEF In
<1>. QED
  BY <1>1, <1>2, <1>3 DEF KMeansInv, KMeansTypeOK, RoundInv, EndInv

LEMMA StutterKMeansInv ==
  ASSUME KMeansInv, UNCHANGED kmeansVars
  PROVE  KMeansInv'
<1>1. UNCHANGED <<points, centroids, membership, iter, delta, at, partialLen, partialSum, round, ivf>>
  BY DEF kmeansVars, partials
<1>2. (\A p : NearestTo(centroids, p)' = NearestTo(centroids, p)) /\ (\A c : Assigned(c)' = Assigned(c))
  BY <1>1, SameRound
<1>3. \A c : In(c)' = In(c)
  BY <1>1 DEF In
<1>4. \A c : Mean(In(c), c)' = Mean(In(c), c)
  BY <1>1, <1>3 DEF Mean
<1>5. KMeansTypeOK' /\ EndInv'
  BY <1>1, <1>2, <1>3 DEF KMeansInv, KMeansTypeOK, EndInv
<1>6. RoundInv'
  BY <1>1, <1>2, <1>4 DEF KMeansInv, RoundInv, PassedInv, PartialsInv, SettledInv
<1>. QED
  BY <1>5, <1>6 DEF KMeansInv

\* The inductive invariant of the clustering of ivf.hpp.
THEOREM KMeansInvHolds == KMeansSpec => []KMeansInv
<1>1. KMeansInv /\ [KMeansNext]_kmeansVars => KMeansInv'
  BY AssignKMeansInv, ReduceKMeansInv, ListsKMeansInv, StutterKMeansInv DEF KMeansNext
<1>. QED
  BY <1>1, InitKMeansInv, PTL DEF KMeansSpec

\* However the threads of ivf.hpp:49 interleave, an iteration is a round of the sequential
\* algorithm: no point is summed twice or left out, and nothing is carried over.
THEOREM RoundsSequential == KMeansSpec => RoundsAreSequential
<1>1. ASSUME KMeansInv, [KMeansNext]_kmeansVars, iter' # iter
      PROVE  /\ centroids' = [c \in ClusterIds |-> Mean(Assigned(c), c)]
             /\ \A pt \in Points : membership'[pt] = NearestTo(centroids, pt)
  <2>1. Reduce
    BY <1>1 DEF KMeansNext, Assign, BuildLists, kmeansVars
  <2>2. Joined /\ centroids' = NewCentroids /\ membership' = membership
    BY <2>1 DEF Reduce, NextIteration
  <2>. QED
    BY <1>1, <2>2, Reduced
<1>. QED
  BY <1>1, KMeansInvHolds, PTL DEF KMeansSpec, RoundsAreSequential

\* When the loop of ivf.hpp:45 settled after its first iteration, every point is in the
\* list of a centroid nearest to it.
THEOREM ListsNearest == KMeansSpec => []ListsHoldNearest
<1>1. ASSUME KMeansInv PROVE ListsHoldNearest
  <2>1. SUFFICES ASSUME round = "built", 1 < iter, iter < MaxIter, NEW c \in ClusterIds,
                        NEW k \in DOMAIN ivf[c], NEW d \in ClusterIds
                 PROVE  DistTo(ivf[c][k], centroids[c]) <= DistTo(ivf[c][k], centroids[d])
    BY DEF ListsHoldNearest
  <2>2. ivf[c] \in Seq(In(c)) /\ \A pt \in Points : membership[pt] = NearestTo(centroids, pt)
    BY <1>1, <2>1 DEF KMeansInv, EndInv
  <2>3. ivf[c][k] \in In(c)
    BY <2>2
  <2>4. ivf[c][k] \in Points /\ c = NearestTo(centroids, ivf[c][k])
    BY <2>2, <2>3 DEF In
  <2>. QED
    BY <1>1, <2>4, NearestCentroid DEF KMeansInv, KMeansTypeOK
<1>. QED
  BY <1>1, KMeansInvHolds, PTL

\* The type invariant of KMeans.
THEOREM KMeansTypeCorrect == KMeansSpec => []KMeansTypeOK
<1>1. KMeansInv => KMeansTypeOK
  BY DEF KMeansInv
<1>. QED
  BY <1>1, KMeansInvHolds, PTL
-----------------------------------------------------------------------------
(* The label tables. *)

-----------------------------------------------------------------------------
(* The label tables.                                                       *)

\* Among numbers: how many of S are smaller tells its members apart and takes all values.
LEMMA Ranked ==
  ASSUME NEW S \in SUBSET Int, IsFiniteSet(S)
  PROVE  /\ Cardinality(S) \in Nat
         /\ \A x \in S : Cardinality(SmallerIn(S, x)) \in 0 .. Cardinality(S) - 1
         /\ \A x, y \in S : Cardinality(SmallerIn(S, x)) = Cardinality(SmallerIn(S, y)) => x = y
         /\ \A k \in 0 .. Cardinality(S) - 1 : \E x \in S : Cardinality(SmallerIn(S, x)) = k
         /\ \A x, y \in S : x < y => Cardinality(SmallerIn(S, x)) < Cardinality(SmallerIn(S, y))
<1>0. PICK R : R = {p \in S \X S : p[1] < p[2]}
  OBVIOUS
<1>1. Orders(R, S)
  BY <1>0, NumbersOrdered
<1>2. \A x \in S : Before(S, R, x) = SmallerIn(S, x)
  BY <1>0 DEF Before, SmallerIn
<1>3. \A x, y \in S : x < y => <<x, y>> \in R
  BY <1>0
<1>4. \A x, y \in S : x < y => Cardinality(SmallerIn(S, x)) < Cardinality(SmallerIn(S, y))
  <2>1. SUFFICES ASSUME NEW x \in S, NEW y \in S, x < y
                 PROVE  Cardinality(SmallerIn(S, x)) < Cardinality(SmallerIn(S, y))
    OBVIOUS
  <2>2. Cardinality(Before(S, R, x)) < Cardinality(Before(S, R, y))
    BY <1>1, <1>3, <2>1, BeforeGrows
  <2>. QED
    BY <1>2, <2>2
<1>5. /\ Cardinality(S) \in Nat
      /\ \A v \in S : Cardinality(Before(S, R, v)) \in 0 .. Cardinality(S) - 1
      /\ \A v, w \in S : Cardinality(Before(S, R, v)) = Cardinality(Before(S, R, w)) => v = w
      /\ \A k \in 0 .. Cardinality(S) - 1 : \E v \in S : Cardinality(Before(S, R, v)) = k
  <2> HIDE <1>0
  <2>. QED
    BY <1>1, RanksTaken
<1>. QED
  BY <1>2, <1>4, <1>5

\* A sorted row has each member at the place its rank says.
LEMMA SortedFacts ==
  ASSUME NEW S \in SUBSET Int, IsFiniteSet(S)
  PROVE  /\ Sorted(S) \in Seq(S) /\ Len(Sorted(S)) = Cardinality(S)
         /\ Members(Sorted(S)) = S /\ Distinct(Sorted(S))
         /\ \A x \in S : Sorted(S)[Cardinality(SmallerIn(S, x)) + 1] = x
<1> DEFINE n == Cardinality(S)
           rank(x) == Cardinality(SmallerIn(S, x))
<1>1. /\ n \in Nat /\ \A x \in S : rank(x) \in 0 .. n - 1
      /\ \A x, y \in S : rank(x) = rank(y) => x = y
      /\ \A k \in 0 .. n - 1 : \E x \in S : rank(x) = k
  BY Ranked
<1>2. PICK s : s = Sorted(S)
  OBVIOUS
<1>3. s = [k \in 1 .. n |-> CHOOSE x \in S : rank(x) = k - 1]
  BY <1>2 DEF Sorted
<1> HIDE DEF n, rank
<1>4. ASSUME NEW k \in 1 .. n PROVE s[k] \in S /\ rank(s[k]) = k - 1
  <2>1. k - 1 \in 0 .. n - 1
    BY <1>1
  <2>2. \E x \in S : rank(x) = k - 1
    BY <1>1, <2>1
  <2>. QED
    BY <1>3, <2>2
<1>5. s \in [1 .. n -> S]
  <2>1. s = [k \in 1 .. n |-> s[k]]
    BY <1>3
  <2>. QED
    BY <1>4, <2>1
<1>6. s \in Seq(S) /\ Len(s) = n /\ DOMAIN s = 1 .. n
  BY <1>1, <1>5
<1>7. ASSUME NEW x \in S PROVE rank(x) + 1 \in 1 .. n /\ s[rank(x) + 1] = x
  <2>1. rank(x) \in 0 .. n - 1
    BY <1>1
  <2>2. rank(x) + 1 \in 1 .. n /\ rank(x) + 1 - 1 = rank(x)
    BY <1>1, <2>1
  <2>3. PICK k : k = rank(x) + 1
    OBVIOUS
  <2>4. s[k] \in S /\ rank(s[k]) = rank(x)
    BY <1>1, <1>4, <2>1, <2>2, <2>3
  <2>. QED
    BY <1>1, <2>2, <2>3, <2>4
<1>8. Members(s) = S
  BY <1>4, <1>6, <1>7 DEF Members
<1>9. Distinct(s)
  <2>1. SUFFICES ASSUME NEW k \in 1 .. n, NEW l \in 1 .. n, s[k] = s[l] PROVE k = l
    BY <1>6 DEF Distinct
  <2>2. k - 1 = l - 1
    BY <1>4, <2>1
  <2>. QED
    BY <1>1, <2>2
<1>. QED
  BY <1>2, <1>6, <1>7, <1>8, <1>9 DEF n, rank

Climbs(s) == \A k, l \in DOMAIN s : k < l => s[k] < s[l]

\* A sorted row climbs.
LEMMA SortedClimbs ==
  ASSUME NEW S \in SUBSET Int, IsFiniteSet(S)
  PROVE  Climbs(Sorted(S))
<1> DEFINE n == Cardinality(S)
           rank(x) == Cardinality(SmallerIn(S, x))
<1>1. /\ n \in Nat /\ \A x \in S : rank(x) \in 0 .. n - 1
      /\ \A k \in 0 .. n - 1 : \E x \in S : rank(x) = k
      /\ \A x, y \in S : x < y => rank(x) < rank(y)
  BY Ranked
<1>2. PICK s : s = Sorted(S)
  OBVIOUS
<1>3. s = [k \in 1 .. n |-> CHOOSE x \in S : rank(x) = k - 1]
  BY <1>2 DEF Sorted
<1> HIDE DEF n, rank
<1>4. ASSUME NEW k \in 1 .. n PROVE s[k] \in S /\ rank(s[k]) = k - 1
  <2>1. k - 1 \in 0 .. n - 1
    BY <1>1
  <2>2. \E x \in S : rank(x) = k - 1
    BY <1>1, <2>1
  <2>. QED
    BY <1>3, <2>2
<1>5. ASSUME NEW k \in 1 .. n, NEW l \in 1 .. n, k < l PROVE s[k] < s[l]
  <2>1. s[k] \in S /\ s[l] \in S /\ rank(s[k]) = k - 1 /\ rank(s[l]) = l - 1
    BY <1>4
  <2>2. s[k] \in Int /\ s[l] \in Int
    BY <2>1
  <2>3. ~ (l - 1 < k - 1) /\ l - 1 # k - 1
    BY <1>1, <1>5
  <2>4. ~ (s[l] < s[k]) /\ s[l] # s[k]
    BY <1>1, <2>1, <2>3
  <2>. QED
    BY <2>2, <2>4
<1>6. Climbs(s)
  BY <1>3, <1>5 DEF Climbs
<1>. QED
  BY <1>2, <1>6

\* ... and is the only row that has.
LEMMA SortedIs ==
  ASSUME NEW S \in SUBSET Int, IsFiniteSet(S), NEW s, s = [k \in 1 .. Cardinality(S) |-> s[k]],
         \A x \in S : s[Cardinality(SmallerIn(S, x)) + 1] = x
  PROVE  s = Sorted(S)
<1> DEFINE n == Cardinality(S)
           rank(x) == Cardinality(SmallerIn(S, x))
<1>1. /\ n \in Nat /\ \A x \in S : rank(x) \in 0 .. n - 1
      /\ \A x, y \in S : rank(x) = rank(y) => x = y
      /\ \A k \in 0 .. n - 1 : \E x \in S : rank(x) = k
  BY Ranked
<1>2. Sorted(S) = [k \in 1 .. n |-> CHOOSE x \in S : rank(x) = k - 1]
  BY DEF Sorted
<1>3. \A x \in S : s[rank(x) + 1] = x
  OBVIOUS
<1> HIDE DEF n, rank
<1>4. ASSUME NEW k \in 1 .. n PROVE s[k] = CHOOSE x \in S : rank(x) = k - 1
  <2>1. k - 1 \in 0 .. n - 1 /\ (k - 1) + 1 = k
    BY <1>1
  <2>2. PICK x \in S : rank(x) = k - 1
    BY <1>1, <2>1
  <2>3. (CHOOSE y \in S : rank(y) = k - 1) = x
    BY <1>1, <2>2
  <2>. QED
    BY <1>3, <2>1, <2>2, <2>3
<1>5. s = [k \in 1 .. n |-> s[k]]
  BY DEF n
<1>. QED
  BY <1>2, <1>4, <1>5

\* Past x there is one more if x is a member.
LEMMA RankOfNext ==
  ASSUME NEW S \in SUBSET Int, IsFiniteSet(S), NEW x \in Int
  PROVE  /\ Cardinality(SmallerIn(S, x)) \in Nat
         /\ Cardinality(SmallerIn(S, x + 1)) =
                IF x \in S THEN Cardinality(SmallerIn(S, x)) + 1 ELSE Cardinality(SmallerIn(S, x))
<1> DEFINE A == SmallerIn(S, x)
<1>1. A \in SUBSET S /\ x \notin A
  BY DEF SmallerIn
<1>2. SmallerIn(S, x + 1) = IF x \in S THEN A \cup {x} ELSE A
  <2>1. \A y \in S : y < x + 1 <=> y < x \/ y = x
    OBVIOUS
  <2>2. SmallerIn(S, x + 1) = {y \in S : y < x \/ y = x}
    BY <2>1 DEF SmallerIn
  <2>. QED
    BY <2>2 DEF SmallerIn
<1> HIDE DEF A
<1>3. IsFiniteSet(A)
  BY <1>1, FS_Subset
<1>4. Cardinality(A \cup {x}) = Cardinality(A) + 1 /\ Cardinality(A) \in Nat
  BY <1>1, <1>3, FS_AddElement, FS_CardinalityType
<1>. QED
  BY <1>2, <1>4 DEF A

\* The ones of the matrix, and where the slice of a label begins.
Cells == {c \in Rows \X Cols : c[2] \in Carries(c[1])}
StartOf(f) == Cardinality({c \in Cells : c[2] < f})
Rank(f, w) == Cardinality(SmallerIn(Carrying(f), w))

RowsAre == DOMAIN rows = Rows /\ \A v \in Rows : rows[v] \in Seq(Cols) /\ Distinct(rows[v])

LEMMA TablesConstants ==
  /\ NumRows \in Nat /\ NumCols \in Nat /\ NumRows > 0 /\ NumCols > 0
  /\ Rows = 0 .. NumRows - 1 /\ Cols = 0 .. NumCols - 1
  /\ IsFiniteSet(Rows) /\ IsFiniteSet(Cols) /\ Cardinality(Rows) = NumRows
<1>1. NumRows \in Nat /\ NumCols \in Nat /\ NumRows > 0 /\ NumCols > 0
  BY LabelTablesAssumption
<1>2. IsFiniteSet(0 .. NumCols - 1)
  <2>1. 0 \in Int /\ NumCols - 1 \in Int
    BY <1>1
  <2>. QED
    BY <2>1, FS_Interval
<1>3. IsFiniteSet(0 .. NumRows - 1) /\ Cardinality(0 .. NumRows - 1) = NumRows
  <2>1. 0 \in Int /\ NumRows - 1 \in Int
    BY <1>1
  <2>2. Cardinality(0 .. NumRows - 1) = IF 0 > NumRows - 1 THEN 0 ELSE NumRows - 1 - 0 + 1
    BY <2>1, FS_Interval
  <2>. QED
    BY <1>1, <2>1, <2>2, FS_Interval
<1>. QED
  BY <1>1, <1>2, <1>3 DEF Rows, Cols

\* Sets as large as each other.
LEMMA SameSize ==
  ASSUME NEW S, IsFiniteSet(S), NEW T, NEW g \in [S -> T],
         \A x, y \in S : g[x] = g[y] => x = y, \A z \in T : \E x \in S : g[x] = z
  PROVE  IsFiniteSet(T) /\ Cardinality(T) = Cardinality(S)
<1>1. g \in Injection(S, T) /\ g \in Surjection(S, T)
  BY DEF Injection, IsInjective, Surjection
<1>2. ExistsBijection(S, T)
  BY <1>1 DEF ExistsBijection, Bijection
<1>. QED
  BY <1>2, FS_Bijection

LEMMA CarryingFinite ==
  ASSUME NEW f
  PROVE  /\ Carrying(f) \in SUBSET Rows /\ Carrying(f) \in SUBSET Int /\ IsFiniteSet(Carrying(f))
         /\ Cardinality(Carrying(f)) \in 0 .. NumRows
<1>1. Carrying(f) \in SUBSET Rows
  BY DEF Carrying
<1>2. Carrying(f) \in SUBSET Int
  BY <1>1, TablesConstants
<1>3. IsFiniteSet(Carrying(f)) /\ Cardinality(Carrying(f)) <= NumRows
  BY <1>1, TablesConstants, FS_Subset
<1>4. Cardinality(Carrying(f)) \in Nat
  BY <1>3, FS_CardinalityType
<1>. QED
  BY <1>1, <1>2, <1>3, <1>4, TablesConstants

LEMMA CellsFinite ==
  ASSUME NEW T \in SUBSET Cells
  PROVE  IsFiniteSet(T) /\ Cardinality(T) \in Nat
<1>1. IsFiniteSet(Rows \X Cols)
  BY TablesConstants, FS_Product
<1>2. T \in SUBSET (Rows \X Cols)
  BY DEF Cells
<1>3. IsFiniteSet(T)
  BY <1>1, <1>2, FS_Subset
<1>. QED
  BY <1>3, FS_CardinalityType

\* The slices follow one another and end with the ones of the matrix.
LEMMA SlicesFollow ==
  ASSUME RowsAre
  PROVE  /\ StartOf(0) = 0 /\ StartOf(NumCols) = Cardinality(Cells)
         /\ \A f \in Nat : StartOf(f) \in Nat /\ StartOf(f + 1) = StartOf(f) + Cardinality(Carrying(f))
         /\ \A f, g \in Nat : f <= g => StartOf(f) <= StartOf(g)
         /\ Carrying(NumCols) = {}
<1> DEFINE Left(f) == {c \in Cells : c[2] < f}
           At(f) == {c \in Cells : c[2] = f}
<1>1. \A f \in Nat : Left(f) \in SUBSET Cells /\ At(f) \in SUBSET Cells
  OBVIOUS
<1>2. \A f \in Nat : IsFiniteSet(Left(f)) /\ Cardinality(Left(f)) \in Nat /\ IsFiniteSet(At(f))
  <2>1. SUFFICES ASSUME NEW f \in Nat
                 PROVE  IsFiniteSet(Left(f)) /\ Cardinality(Left(f)) \in Nat /\ IsFiniteSet(At(f))
    OBVIOUS
  <2> HIDE DEF Left, At
  <2>. QED
    BY <1>1, CellsFinite
<1>3. \A c \in Cells : c[2] \in Cols /\ c[1] \in Rows /\ c = <<c[1], c[2]>> /\ c[2] \in Carries(c[1])
  BY DEF Cells
<1>4. \A v \in Rows : Carries(v) \subseteq Cols
  BY DEF Carries, RowsAre
<1>5. ASSUME NEW f \in Nat PROVE Cardinality(At(f)) = Cardinality(Carrying(f))
  <2> DEFINE g == [w \in Carrying(f) |-> <<w, f>>]
  <2>1. \A w \in Carrying(f) : <<w, f>> \in At(f)
    BY <1>4 DEF Carrying, Cells
  <2>2. g \in [Carrying(f) -> At(f)]
    BY <2>1
  <2>3. \A x, y \in Carrying(f) : g[x] = g[y] => x = y
    OBVIOUS
  <2>4. ASSUME NEW c \in At(f) PROVE \E x \in Carrying(f) : g[x] = c
    <3>1. c \in Cells /\ c[2] = f
      OBVIOUS
    <3>2. c = <<c[1], f>> /\ c[1] \in Rows /\ f \in Carries(c[1])
      BY <1>3, <3>1
    <3>3. c[1] \in Carrying(f)
      BY <3>2 DEF Carrying
    <3>. QED
      BY <3>2, <3>3
  <2> HIDE DEF g, At
  <2>. QED
    BY <2>2, <2>3, <2>4, CarryingFinite, SameSize
<1>6. ASSUME NEW f \in Nat PROVE Cardinality(Left(f + 1)) = Cardinality(Left(f)) + Cardinality(Carrying(f))
  <2>1. Left(f + 1) = Left(f) \cup At(f) /\ Left(f) \cap At(f) = {}
    <3>1. \A c \in Cells : c[2] \in Nat
      BY <1>3, TablesConstants
    <3>2. \A c \in Cells : (c[2] < f + 1 <=> c[2] < f \/ c[2] = f) /\ ~ (c[2] < f /\ c[2] = f)
      BY <3>1
    <3>. QED
      BY <3>2
  <2>2. IsFiniteSet(Left(f)) /\ IsFiniteSet(At(f)) /\ Cardinality(Left(f)) \in Nat
    BY <1>2
  <2>3. Cardinality(At(f)) = Cardinality(Carrying(f)) /\ Cardinality(Carrying(f)) \in Nat
    BY <1>5, CarryingFinite
  <2> HIDE DEF Left, At
  <2>4. Cardinality(Left(f) \cup At(f)) = Cardinality(Left(f)) + Cardinality(At(f)) - Cardinality(Left(f) \cap At(f))
    BY <2>2, FS_Union
  <2>5. Cardinality(Left(f) \cap At(f)) = 0
    BY <2>1, FS_EmptySet
  <2>6. Cardinality(Left(f + 1)) = Cardinality(Left(f) \cup At(f))
    BY <2>1
  <2>. QED
    BY <2>2, <2>3, <2>4, <2>5, <2>6
<1>7. Left(0) = {} /\ Left(NumCols) = Cells
  <2>1. \A c \in Cells : c[2] \in 0 .. NumCols - 1
    BY <1>3, TablesConstants
  <2>2. \A c \in Cells : ~ (c[2] < 0) /\ c[2] < NumCols
    BY <2>1, TablesConstants
  <2>. QED
    BY <2>2
<1>8. ASSUME NEW f \in Nat, NEW g \in Nat, f <= g PROVE Cardinality(Left(f)) <= Cardinality(Left(g))
  <2>1. \A c \in Cells : c[2] \in Nat
    BY <1>3, TablesConstants
  <2>2. Left(f) \in SUBSET Left(g)
    BY <1>8, <2>1
  <2>3. IsFiniteSet(Left(g))
    BY <1>2
  <2> HIDE DEF Left
  <2>. QED
    BY <2>2, <2>3, FS_Subset
<1>9. Carrying(NumCols) = {}
  BY <1>4, TablesConstants DEF Carrying
<1>10. \A f : StartOf(f) = Cardinality(Left(f))
  BY DEF StartOf
<1> HIDE DEF Left, At
<1>. QED
  BY <1>2, <1>6, <1>7, <1>8, <1>9, <1>10, FS_EmptySet

\* The end of the rows is the number of ones.
LEMMA NnzIs ==
  ASSUME RowsAre
  PROVE  Nnz = StartOf(NumCols) /\ Nnz \in Nat
<1>1. NumRows \in Nat /\ Rows = 0 .. NumRows - 1
  BY TablesConstants
<1>2. \A v \in Rows : Len(rows[v]) \in Nat
  BY DEF RowsAre
<1> DEFINE F == [p \in (1 .. NumRows) \X Nat |-> p[2] + Len(rows[p[1] - 1])]
<1>3. F \in [(1 .. NumRows) \X Nat -> Nat] /\ \A k \in 1 .. NumRows, x \in Nat : F[<<k, x>>] = x + Len(rows[k - 1])
  <2>1. \A p \in (1 .. NumRows) \X Nat : p[2] \in Nat /\ p[1] - 1 \in Rows
    BY <1>1
  <2>2. \A p \in (1 .. NumRows) \X Nat : p[2] + Len(rows[p[1] - 1]) \in Nat
    BY <1>2, <2>1
  <2>. QED
    BY <2>2
<1> HIDE DEF F
<1>4. PICK g \in [0 .. NumRows -> Nat] : Loops(g, NumRows, 0, F)
  <2>1. 0 \in Nat
    OBVIOUS
  <2>. QED
    BY <1>1, <1>3, <2>1, LoopExists
<1>5. g[0] = 0 /\ \A k \in 1 .. NumRows : g[k] = g[k - 1] + Len(rows[k - 1])
  <2>1. \A k \in 1 .. NumRows : g[k - 1] \in Nat
    BY <1>1
  <2>. QED
    BY <1>3, <1>4, <2>1 DEF Loops
<1> DEFINE Rec(h) == h = [v \in 0 .. NumRows |-> IF v = 0 THEN 0 ELSE h[v - 1] + Len(rows[v - 1])]
<1>6. Rec(g)
  <2>1. \A v \in 0 .. NumRows : g[v] = IF v = 0 THEN 0 ELSE g[v - 1] + Len(rows[v - 1])
    BY <1>1, <1>5
  <2>2. g = [v \in 0 .. NumRows |-> g[v]]
    OBVIOUS
  <2>. QED
    BY <2>1, <2>2
<1>7. Rec(RowPtr)
  <2>1. RowPtr = CHOOSE h : Rec(h)
    BY DEF RowPtr
  <2> HIDE DEF Rec
  <2>. QED
    BY <1>6, <2>1
<1>8. RowPtr[0] = 0 /\ \A v \in 1 .. NumRows : RowPtr[v] = RowPtr[v - 1] + Len(rows[v - 1])
  <2>1. \A v \in 0 .. NumRows : RowPtr[v] = IF v = 0 THEN 0 ELSE RowPtr[v - 1] + Len(rows[v - 1])
    BY <1>7
  <2>2. 0 \in 0 .. NumRows /\ \A v \in 1 .. NumRows : v \in 0 .. NumRows /\ v # 0
    BY <1>1
  <2>. QED
    BY <2>1, <2>2
<1> HIDE DEF Rec
<1> DEFINE Above(v) == {c \in Cells : c[1] < v}
           At(v) == {c \in Cells : c[1] = v}
<1>9. \A c \in Cells : c[2] \in Cols /\ c[1] \in Rows /\ c[1] \in Nat /\ c = <<c[1], c[2]>> /\ c[2] \in Carries(c[1])
  BY <1>1 DEF Cells
<1>10. \A v \in Nat : Above(v) \in SUBSET Cells /\ At(v) \in SUBSET Cells
  OBVIOUS
<1>11. \A v \in Nat : IsFiniteSet(Above(v)) /\ Cardinality(Above(v)) \in Nat /\ IsFiniteSet(At(v))
  <2>1. SUFFICES ASSUME NEW v \in Nat
                 PROVE  IsFiniteSet(Above(v)) /\ Cardinality(Above(v)) \in Nat /\ IsFiniteSet(At(v))
    OBVIOUS
  <2> HIDE DEF Above, At
  <2>. QED
    BY <1>10, CellsFinite
<1>12. ASSUME NEW v \in Rows PROVE Cardinality(At(v)) = Len(rows[v])
  <2> DEFINE n == Len(rows[v])
             h == [k \in 1 .. n |-> <<v, rows[v][k]>>]
  <2>1. rows[v] \in Seq(Cols) /\ Distinct(rows[v]) /\ DOMAIN rows[v] = 1 .. n /\ n \in Nat
    BY DEF RowsAre
  <2>2. \A k \in 1 .. n : <<v, rows[v][k]>> \in At(v)
    BY <2>1 DEF Cells, Carries
  <2>3. h \in [1 .. n -> At(v)]
    BY <2>2
  <2>4. \A k, l \in 1 .. n : h[k] = h[l] => k = l
    BY <2>1 DEF Distinct
  <2>5. ASSUME NEW c \in At(v) PROVE \E k \in 1 .. n : h[k] = c
    <3>1. c \in Cells /\ c[1] = v
      OBVIOUS
    <3>2. c = <<v, c[2]>> /\ c[2] \in Carries(v)
      BY <1>9, <3>1
    <3>3. PICK k \in DOMAIN rows[v] : rows[v][k] = c[2]
      BY <3>2 DEF Carries
    <3>. QED
      BY <2>1, <3>2, <3>3
  <2>6. IsFiniteSet(1 .. n) /\ Cardinality(1 .. n) = n
    <3>1. 1 \in Int /\ n \in Int
      BY <2>1
    <3>2. IsFiniteSet(1 .. n) /\ Cardinality(1 .. n) = IF 1 > n THEN 0 ELSE n - 1 + 1
      BY <3>1, FS_Interval
    <3>. QED
      BY <2>1, <3>2
  <2> HIDE DEF h, At
  <2>7. Cardinality(At(v)) = Cardinality(1 .. n)
    BY <2>3, <2>4, <2>5, <2>6, SameSize
  <2>. QED
    BY <2>6, <2>7
<1> DEFINE T == {v \in Nat : v <= NumRows => RowPtr[v] = Cardinality(Above(v))}
<1>13. 0 \in T
  <2>1. Above(0) = {}
    BY <1>9
  <2> HIDE DEF Above
  <2>2. Cardinality(Above(0)) = 0
    BY <2>1, FS_EmptySet
  <2>. QED
    BY <1>8, <2>2
<1>14. ASSUME NEW k \in 1 .. NumRows, k - 1 \in T PROVE k \in T
  <2>1. PICK v \in Rows : v = k - 1 /\ v \in Nat /\ v + 1 = k /\ v <= NumRows
    BY <1>1
  <2>0. v \in T
    BY <1>14, <2>1
  <2>2. Above(k) = Above(v) \cup At(v) /\ Above(v) \cap At(v) = {}
    <3>1. \A c \in Cells : (c[1] < k <=> c[1] < v \/ c[1] = v) /\ ~ (c[1] < v /\ c[1] = v)
      BY <1>9, <2>1
    <3>. QED
      BY <3>1
  <2>3. IsFiniteSet(Above(v)) /\ IsFiniteSet(At(v)) /\ Cardinality(Above(v)) \in Nat
    BY <1>11, <2>1
  <2>4. Cardinality(At(v)) = Len(rows[v]) /\ Len(rows[v]) \in Nat
    BY <1>2, <1>12
  <2>5. RowPtr[v] = Cardinality(Above(v)) /\ RowPtr[k] = RowPtr[v] + Len(rows[v])
    BY <1>8, <2>0, <2>1
  <2> HIDE DEF Above, At
  <2>6. Cardinality(Above(v) \cup At(v)) = Cardinality(Above(v)) + Cardinality(At(v)) - Cardinality(Above(v) \cap At(v))
    BY <2>3, FS_Union
  <2>7. Cardinality(Above(v) \cap At(v)) = 0
    BY <2>2, FS_EmptySet
  <2>8. Cardinality(Above(k)) = Cardinality(Above(v) \cup At(v))
    BY <2>2
  <2>9. RowPtr[k] = Cardinality(Above(k))
    BY <2>3, <2>4, <2>5, <2>6, <2>7, <2>8
  <2>. QED
    BY <2>9
<1>15. Above(NumRows) = Cells
  <2>1. \A c \in Cells : c[1] < NumRows
    BY <1>1, <1>9
  <2>. QED
    BY <2>1
<1> HIDE DEF T
<1>16. NumRows \in T
  BY <1>1, <1>13, <1>14, CountUpTo
<1> USE DEF T
<1> HIDE DEF Above
<1>17. RowPtr[NumRows] = Cardinality(Cells)
  BY <1>1, <1>15, <1>16
<1>18. Cardinality(Cells) \in Nat /\ StartOf(NumCols) = Cardinality(Cells)
  BY CellsFinite, SlicesFollow
<1>. QED
  BY <1>17, <1>18 DEF Nnz

\* What a sequence has from a place on.
Rest(s, l) == {s[k] : k \in l .. Len(s)}

LEMMA RestFacts ==
  ASSUME NEW s \in Seq(Int), Climbs(s), NEW l \in 1 .. Len(s) + 1
  PROVE  /\ IsFiniteSet(Rest(s, l)) /\ Rest(s, l) \in SUBSET Int
         /\ l > Len(s) => Rest(s, l) = {}
         /\ l <= Len(s) => /\ s[l] \in Int /\ Rest(s, l) = {s[l]} \cup Rest(s, l + 1)
                           /\ \A x \in Rest(s, l + 1) : s[l] < x
         /\ Rest(s, 1) = Members(s)
<1>1. Len(s) \in Nat /\ DOMAIN s = 1 .. Len(s) /\ \A k \in 1 .. Len(s) : s[k] \in Int
  OBVIOUS
<1>2. Rest(s, l) \in SUBSET Int /\ Rest(s, l) \in SUBSET Members(s) /\ Rest(s, 1) = Members(s)
  BY <1>1 DEF Rest, Members
<1>3. IsFiniteSet(Members(s))
  <2> DEFINE g == [k \in 1 .. Len(s) |-> s[k]]
  <2>1. g \in Surjection(1 .. Len(s), Members(s))
    BY <1>1 DEF Members, Surjection
  <2>2. IsFiniteSet(1 .. Len(s))
    <3>1. 1 \in Int /\ Len(s) \in Int
      BY <1>1
    <3>. QED
      BY <3>1, FS_Interval
  <2> HIDE DEF g
  <2>. QED
    BY <2>1, <2>2, FS_Surjection
<1>4. IsFiniteSet(Rest(s, l))
  BY <1>2, <1>3, FS_Subset
<1>5. l > Len(s) => Rest(s, l) = {}
  BY <1>1 DEF Rest
<1>6. ASSUME l <= Len(s)
      PROVE  s[l] \in Int /\ Rest(s, l) = {s[l]} \cup Rest(s, l + 1) /\ \A x \in Rest(s, l + 1) : s[l] < x
  <2>1. l \in 1 .. Len(s) /\ \A k \in l .. Len(s) : k = l \/ k \in l + 1 .. Len(s)
    BY <1>1, <1>6
  <2>2. \A k \in l + 1 .. Len(s) : k \in l .. Len(s) /\ k \in 1 .. Len(s) /\ l < k
    BY <1>1, <2>1
  <2>3. l \in l .. Len(s)
    BY <1>1, <1>6
  <2>4. Rest(s, l) = {s[l]} \cup Rest(s, l + 1)
    BY <2>1, <2>2, <2>3 DEF Rest
  <2>5. \A x \in Rest(s, l + 1) : s[l] < x
    BY <1>1, <2>1, <2>2 DEF Rest, Climbs
  <2>. QED
    BY <1>1, <2>1, <2>4, <2>5
<1>. QED
  BY <1>2, <1>4, <1>5, <1>6

\* The places of a merge, and what Merged computes from them.
MergePlaces(a, b) == (1 .. Len(a) + 1) \X (1 .. Len(b) + 1)
MergeFrom(a, b, h) ==
    [place \in (1 .. Len(a) + 1) \X (1 .. Len(b) + 1) |->
       LET l == place[1]
           r == place[2]
       IN  IF l > Len(a) \/ r > Len(b) THEN 0
           ELSE (IF a[l] = b[r] THEN 1 ELSE 0)
                + h[<<IF a[l] <= b[r] THEN l + 1 ELSE l, IF b[r] <= a[l] THEN r + 1 ELSE r>>]]

\* The next places of a merge, and how much of both rows is left.
Onward(a, b, place) == <<IF a[place[1]] <= b[place[2]] THEN place[1] + 1 ELSE place[1], IF b[place[2]] <= a[place[1]] THEN place[2] + 1 ELSE place[2]>>
Ahead(a, b, place) == (Len(a) + 1 - place[1]) + (Len(b) + 1 - place[2])
AtEnd(a, b, place) == place[1] > Len(a) \/ place[2] > Len(b)

LEMMA MergeOnward ==
  ASSUME NEW a \in Seq(Int), NEW b \in Seq(Int), NEW place \in MergePlaces(a, b)
  PROVE  /\ Ahead(a, b, place) \in 0 .. Len(a) + Len(b)
         /\ ~ AtEnd(a, b, place) => /\ place[1] \in 1 .. Len(a) /\ place[2] \in 1 .. Len(b)
                                 /\ Onward(a, b, place) \in MergePlaces(a, b)
                                 /\ Ahead(a, b, Onward(a, b, place)) < Ahead(a, b, place)
<1>1. PICK l \in 1 .. Len(a) + 1, r \in 1 .. Len(b) + 1 : place = <<l, r>>
  BY DEF MergePlaces
<1>2. Len(a) \in Nat /\ Len(b) \in Nat /\ place[1] = l /\ place[2] = r
  BY <1>1
<1>3. Ahead(a, b, place) = (Len(a) + 1 - l) + (Len(b) + 1 - r) /\ Ahead(a, b, place) \in 0 .. Len(a) + Len(b)
  BY <1>2 DEF Ahead
<1>4. ASSUME ~ AtEnd(a, b, place)
      PROVE  /\ l \in 1 .. Len(a) /\ r \in 1 .. Len(b)
             /\ Onward(a, b, place) \in MergePlaces(a, b)
             /\ Ahead(a, b, Onward(a, b, place)) < Ahead(a, b, place)
  <2>1. l \in 1 .. Len(a) /\ r \in 1 .. Len(b)
    BY <1>2, <1>4 DEF AtEnd
  <2>2. a[l] \in Int /\ b[r] \in Int
    BY <2>1
  <2> DEFINE x == IF a[l] <= b[r] THEN l + 1 ELSE l
             y == IF b[r] <= a[l] THEN r + 1 ELSE r
  <2>3. Onward(a, b, place) = <<x, y>>
    BY <1>2 DEF Onward
  <2>4. x \in l .. l + 1 /\ y \in r .. r + 1 /\ (x = l + 1 \/ y = r + 1)
    BY <2>1, <2>2
  <2> HIDE DEF x, y
  <2>5. x \in 1 .. Len(a) + 1 /\ y \in 1 .. Len(b) + 1
    BY <2>1, <2>4
  <2>6. Onward(a, b, place) \in MergePlaces(a, b)
    BY <2>3, <2>5 DEF MergePlaces
  <2>7. Ahead(a, b, Onward(a, b, place)) = (Len(a) + 1 - x) + (Len(b) + 1 - y)
    BY <2>3 DEF Ahead
  <2>. QED
    BY <1>2, <1>3, <2>1, <2>4, <2>6, <2>7
<1>. QED
  BY <1>2, <1>3, <1>4

\* What both rows have from a place on: counted from what they have from the next places on.
Both(a, b, place) == Rest(a, place[1]) \cap Rest(b, place[2])

LEMMA BothCounted ==
  ASSUME NEW a \in Seq(Int), NEW b \in Seq(Int), Climbs(a), Climbs(b), NEW place \in MergePlaces(a, b)
  PROVE  Cardinality(Both(a, b, place)) =
           IF AtEnd(a, b, place) THEN 0
           ELSE (IF a[place[1]] = b[place[2]] THEN 1 ELSE 0) + Cardinality(Both(a, b, Onward(a, b, place)))
<1>1. PICK l \in 1 .. Len(a) + 1, r \in 1 .. Len(b) + 1 : place = <<l, r>>
  BY DEF MergePlaces
<1>2. Len(a) \in Nat /\ Len(b) \in Nat /\ place[1] = l /\ place[2] = r
  BY <1>1
<1>3. Both(a, b, place) = Rest(a, l) \cap Rest(b, r)
  BY <1>2 DEF Both
<1>4. CASE AtEnd(a, b, place)
  <2>1. l > Len(a) \/ r > Len(b)
    BY <1>2, <1>4 DEF AtEnd
  <2>2. Both(a, b, place) = {}
    BY <1>3, <2>1, RestFacts
  <2>. QED
    BY <1>4, <2>2, FS_EmptySet
<1>5. CASE ~ AtEnd(a, b, place)
  <2>1. l \in 1 .. Len(a) /\ r \in 1 .. Len(b) /\ l + 1 \in 1 .. Len(a) + 1 /\ r + 1 \in 1 .. Len(b) + 1
    BY <1>2, <1>5 DEF AtEnd
  <2>2. PICK x, y, A, B : x = a[l] /\ y = b[r] /\ A = Rest(a, l + 1) /\ B = Rest(b, r + 1)
    OBVIOUS
  <2>3. /\ x \in Int /\ A \in SUBSET Int /\ IsFiniteSet(A)
        /\ Rest(a, l) = {x} \cup A /\ \A z \in A : x < z
    <3>1. l <= Len(a)
      BY <1>2, <2>1
    <3>2. a[l] \in Int /\ Rest(a, l) = {a[l]} \cup Rest(a, l + 1) /\ \A z \in Rest(a, l + 1) : a[l] < z
      BY <3>1, RestFacts
    <3>3. IsFiniteSet(Rest(a, l + 1)) /\ Rest(a, l + 1) \in SUBSET Int
      BY <2>1, RestFacts
    <3>. QED
      BY <2>2, <3>2, <3>3
  <2>4. /\ y \in Int /\ B \in SUBSET Int /\ IsFiniteSet(B)
        /\ Rest(b, r) = {y} \cup B /\ \A z \in B : y < z
    <3>1. r <= Len(b)
      BY <1>2, <2>1
    <3>2. b[r] \in Int /\ Rest(b, r) = {b[r]} \cup Rest(b, r + 1) /\ \A z \in Rest(b, r + 1) : b[r] < z
      BY <3>1, RestFacts
    <3>3. IsFiniteSet(Rest(b, r + 1)) /\ Rest(b, r + 1) \in SUBSET Int
      BY <2>1, RestFacts
    <3>. QED
      BY <2>2, <3>2, <3>3
  <2>5. Onward(a, b, place) = <<IF x <= y THEN l + 1 ELSE l, IF y <= x THEN r + 1 ELSE r>>
    BY <1>2, <2>2 DEF Onward
  <2>6. CASE x = y
    <3>1. Both(a, b, Onward(a, b, place)) = A \cap B
      BY <2>2, <2>3, <2>4, <2>5, <2>6 DEF Both
    <3>2. Both(a, b, place) = (A \cap B) \cup {x} /\ x \notin A \cap B
      BY <1>3, <2>3, <2>4, <2>6
    <3>3. IsFiniteSet(A \cap B)
      BY <2>3, FS_Intersection
    <3>4. Cardinality((A \cap B) \cup {x}) = Cardinality(A \cap B) + 1 /\ Cardinality(A \cap B) \in Nat
      BY <3>2, <3>3, FS_AddElement, FS_CardinalityType
    <3>. QED
      BY <1>2, <1>5, <2>2, <2>6, <3>1, <3>2, <3>4
  <2>7. CASE x < y
    <3>1. Both(a, b, Onward(a, b, place)) = A \cap Rest(b, r)
      BY <2>2, <2>3, <2>4, <2>5, <2>7 DEF Both
    <3>2. \A z \in Rest(b, r) : z \in Int /\ (z = y \/ y < z)
      BY <2>4
    <3>3. x \notin Rest(b, r)
      BY <2>3, <2>4, <2>7, <3>2
    <3>4. Both(a, b, place) = A \cap Rest(b, r)
      BY <1>3, <2>3, <3>3
    <3>5. IsFiniteSet(A \cap Rest(b, r))
      BY <2>3, FS_Intersection
    <3>6. Cardinality(A \cap Rest(b, r)) \in Nat
      BY <3>5, FS_CardinalityType
    <3>. QED
      BY <1>2, <1>5, <2>2, <2>3, <2>4, <2>7, <3>1, <3>4, <3>6
  <2>8. CASE y < x
    <3>1. Both(a, b, Onward(a, b, place)) = Rest(a, l) \cap B
      BY <2>2, <2>3, <2>4, <2>5, <2>8 DEF Both
    <3>2. \A z \in Rest(a, l) : z \in Int /\ (z = x \/ x < z)
      BY <2>3
    <3>3. y \notin Rest(a, l)
      BY <2>3, <2>4, <2>8, <3>2
    <3>4. Both(a, b, place) = Rest(a, l) \cap B
      BY <1>3, <2>4, <3>3
    <3>5. IsFiniteSet(Rest(a, l) \cap B)
      BY <2>4, FS_Intersection
    <3>6. Cardinality(Rest(a, l) \cap B) \in Nat
      BY <3>5, FS_CardinalityType
    <3>. QED
      BY <1>2, <1>5, <2>2, <2>3, <2>4, <2>8, <3>1, <3>4, <3>6
  <2>. QED
    BY <2>3, <2>4, <2>6, <2>7, <2>8
<1>. QED
  BY <1>4, <1>5

\* Merging counts the common elements of two climbing rows: the counts solve the
\* recursion of Merged, and nothing else does.
LEMMA MergedCounts ==
  ASSUME NEW a \in Seq(Int), NEW b \in Seq(Int), Climbs(a), Climbs(b)
  PROVE  Merged(a, b) = Cardinality(Members(a) \cap Members(b))
<1> DEFINE D == MergePlaces(a, b)
           c == [place \in D |-> Cardinality(Both(a, b, place))]
           n == Len(a) + Len(b)
<1>1. n \in Nat /\ \A place \in D : Ahead(a, b, place) \in 0 .. n
  BY MergeOnward
<1>2. ASSUME NEW h
      PROVE  /\ MergeFrom(a, b, h) = [place \in D |-> MergeFrom(a, b, h)[place]]
             /\ \A place \in D : MergeFrom(a, b, h)[place] =
                  IF AtEnd(a, b, place) THEN 0
                  ELSE (IF a[place[1]] = b[place[2]] THEN 1 ELSE 0) + h[Onward(a, b, place)]
  BY DEF MergeFrom, MergePlaces, AtEnd, Onward
<1>3. \A place \in D : ~ AtEnd(a, b, place) => /\ Onward(a, b, place) \in D
                                               /\ Ahead(a, b, Onward(a, b, place)) < Ahead(a, b, place)
  BY MergeOnward
<1>4. \A place \in D : c[place] = Cardinality(Both(a, b, place))
  OBVIOUS
<1>5. c = [place \in D |-> c[place]]
  OBVIOUS
<1> HIDE DEF D, c, n
<1>6. \A place \in D : c[place] = IF AtEnd(a, b, place) THEN 0
                                  ELSE (IF a[place[1]] = b[place[2]] THEN 1 ELSE 0) + c[Onward(a, b, place)]
  BY <1>3, <1>4, BothCounted DEF D
<1>7. c = MergeFrom(a, b, c)
  <2>1. \A place \in D : MergeFrom(a, b, c)[place] = c[place]
    BY <1>2, <1>6
  <2>. QED
    BY <1>2, <1>5, <2>1
<1>8. ASSUME NEW h, h = MergeFrom(a, b, h) PROVE \A place \in D : h[place] = c[place]
  <2> DEFINE T == {k \in Nat : \A place \in D : Ahead(a, b, place) <= k => h[place] = c[place]}
  <2>1. \A place \in D : h[place] = IF AtEnd(a, b, place) THEN 0
                                    ELSE (IF a[place[1]] = b[place[2]] THEN 1 ELSE 0) + h[Onward(a, b, place)]
    BY <1>2, <1>8
  <2>2. ASSUME NEW k \in Nat, \A place \in D : Ahead(a, b, place) < k => h[place] = c[place]
        PROVE  k \in T
    <3>1. SUFFICES ASSUME NEW place \in D, Ahead(a, b, place) <= k PROVE h[place] = c[place]
      OBVIOUS
    <3>2. ~ AtEnd(a, b, place) => h[Onward(a, b, place)] = c[Onward(a, b, place)]
      <4>1. SUFFICES ASSUME ~ AtEnd(a, b, place) PROVE h[Onward(a, b, place)] = c[Onward(a, b, place)]
        OBVIOUS
      <4>2. Onward(a, b, place) \in D /\ Ahead(a, b, Onward(a, b, place)) < Ahead(a, b, place)
        BY <1>3, <4>1
      <4>3. Ahead(a, b, Onward(a, b, place)) < k
        BY <1>1, <3>1, <4>2
      <4>. QED
        BY <2>2, <4>2, <4>3
    <3>. QED
      BY <1>6, <2>1, <3>2
  <2>3. 0 \in T
    <3>1. \A place \in D : ~ (Ahead(a, b, place) < 0)
      BY <1>1
    <3>. QED
      BY <2>2, <3>1
  <2>4. ASSUME NEW k \in 1 .. n, k - 1 \in T PROVE k \in T
    <3>1. k \in Nat /\ \A place \in D : Ahead(a, b, place) < k => Ahead(a, b, place) <= k - 1
      BY <1>1
    <3>2. \A place \in D : Ahead(a, b, place) < k => h[place] = c[place]
      BY <2>4, <3>1
    <3>. QED
      BY <2>2, <3>1, <3>2
  <2> HIDE DEF T
  <2>5. n \in T
    BY <1>1, <2>3, <2>4, CountUpTo
  <2>. QED
    BY <1>1, <2>5 DEF T
<1>9. PICK m : m = CHOOSE h : h = MergeFrom(a, b, h)
  OBVIOUS
<1>10. m = MergeFrom(a, b, m)
  BY <1>7, <1>9
<1>11. Merged(a, b) = m[<<1, 1>>]
  <2>1. Merged(a, b) = (CHOOSE h : h = MergeFrom(a, b, h))[<<1, 1>>]
    BY DEF Merged, MergeFrom
  <2>. QED
    BY <1>9, <2>1
<1>12. 1 \in 1 .. Len(a) + 1 /\ 1 \in 1 .. Len(b) + 1
  OBVIOUS
<1>13. <<1, 1>> \in D /\ Both(a, b, <<1, 1>>) = Members(a) \cap Members(b)
  BY <1>12, RestFacts DEF D, MergePlaces, Both
<1>. QED
  BY <1>4, <1>8, <1>10, <1>11, <1>13

\* The spans of a search by halving, and what Contains computes from them.
Spans(s) == (1 .. Len(s) + 1) \X (0 .. Len(s))
Within(s, x, span) == \E k \in span[1] .. span[2] : s[k] = x
SearchFrom(s, x, h) ==
    [place \in (1 .. Len(s) + 1) \X (0 .. Len(s)) |->
       LET l == place[1]
           r == place[2]
           m == (l + r) \div 2
       IN  l <= r /\ \/ s[m] = x
                     \/ s[m] < x /\ h[<<m + 1, r>>]
                     \/ s[m] > x /\ h[<<l, m - 1>>]]

\* One halving: the element is in the middle or in the half that can have it.
LEMMA Halving ==
  ASSUME NEW s \in Seq(Int), Climbs(s), NEW x \in Int,
         NEW l \in 1 .. Len(s) + 1, NEW r \in 0 .. Len(s), l <= r, NEW m, m = (l + r) \div 2
  PROVE  /\ <<m + 1, r>> \in Spans(s) /\ <<l, m - 1>> \in Spans(s)
         /\ m \in Int /\ s[m] \in Int /\ r - (m + 1) < r - l /\ (m - 1) - l < r - l
         /\ Within(s, x, <<l, r>>) <=> \/ s[m] = x
                                       \/ s[m] < x /\ Within(s, x, <<m + 1, r>>)
                                       \/ s[m] > x /\ Within(s, x, <<l, m - 1>>)
<1>1. Len(s) \in Nat /\ DOMAIN s = 1 .. Len(s) /\ \A k \in 1 .. Len(s) : s[k] \in Int
  OBVIOUS
<1>2. m \in l .. r /\ m \in 1 .. Len(s) /\ m + 1 \in 1 .. Len(s) + 1 /\ m - 1 \in 0 .. Len(s)
  BY <1>1
<1>3. <<m + 1, r>> \in Spans(s) /\ <<l, m - 1>> \in Spans(s)
  BY <1>2 DEF Spans
<1>4. s[m] \in Int /\ r - (m + 1) < r - l /\ (m - 1) - l < r - l
  BY <1>1, <1>2
<1>5. \A k \in l .. r : k \in 1 .. Len(s) /\ (k = m \/ k \in l .. m - 1 \/ k \in m + 1 .. r)
  BY <1>1, <1>2
<1>6. \A k \in l .. m - 1 : k \in l .. r /\ k < m
  BY <1>1, <1>2
<1>7. \A k \in m + 1 .. r : k \in l .. r /\ m < k
  BY <1>1, <1>2
<1>8. \A k \in l .. r : s[k] \in Int /\ (k < m => s[k] < s[m]) /\ (m < k => s[m] < s[k])
  BY <1>1, <1>2, <1>5 DEF Climbs
<1>9. ASSUME NEW k \in l .. r, s[k] = x
      PROVE  \/ s[m] = x
             \/ s[m] < x /\ \E y \in m + 1 .. r : s[y] = x
             \/ s[m] > x /\ \E y \in l .. m - 1 : s[y] = x
  BY <1>4, <1>5, <1>6, <1>7, <1>8, <1>9
<1>10. Within(s, x, <<l, r>>) => \/ s[m] = x
                                 \/ s[m] < x /\ Within(s, x, <<m + 1, r>>)
                                 \/ s[m] > x /\ Within(s, x, <<l, m - 1>>)
  BY <1>9 DEF Within
<1>11. (s[m] = x \/ Within(s, x, <<m + 1, r>>) \/ Within(s, x, <<l, m - 1>>)) => Within(s, x, <<l, r>>)
  BY <1>2, <1>6, <1>7 DEF Within
<1>. QED
  BY <1>2, <1>3, <1>4, <1>10, <1>11

\* Halving finds the elements of a climbing row, as the scan of a short one does.
LEMMA ContainsFinds ==
  ASSUME NEW s \in Seq(Int), Climbs(s), NEW x \in Int
  PROVE  Contains(s, x) <=> x \in Members(s)
<1> DEFINE D == Spans(s)
           c == [place \in D |-> Within(s, x, place)]
<1>1. Len(s) \in Nat /\ DOMAIN s = 1 .. Len(s)
  OBVIOUS
<1>2. \A place \in D : \E l \in 1 .. Len(s) + 1, r \in 0 .. Len(s) : place = <<l, r>>
  BY DEF Spans
<1>3. ASSUME NEW h
      PROVE  /\ SearchFrom(s, x, h) = [place \in D |-> SearchFrom(s, x, h)[place]]
             /\ \A place \in D : SearchFrom(s, x, h)[place] \in BOOLEAN
             /\ \A l \in 1 .. Len(s) + 1, r \in 0 .. Len(s) : \A m \in {(l + r) \div 2} :
                  SearchFrom(s, x, h)[<<l, r>>] <=> (l <= r /\ \/ s[m] = x
                                                               \/ s[m] < x /\ h[<<m + 1, r>>]
                                                               \/ s[m] > x /\ h[<<l, m - 1>>])
  BY DEF SearchFrom, Spans
<1>4. c = [place \in D |-> c[place]] /\ \A place \in D : c[place] \in BOOLEAN /\ (c[place] <=> Within(s, x, place))
  BY DEF Within
<1>5. \A l \in 1 .. Len(s) + 1, r \in 0 .. Len(s) : <<l, r>> \in D
  BY DEF Spans
<1>6. \A l \in 1 .. Len(s) + 1, r \in 0 .. Len(s) : ~ (l <= r) => ~ Within(s, x, <<l, r>>)
  BY <1>1 DEF Within
<1> HIDE DEF c, D
<1>7. c = SearchFrom(s, x, c)
  <2>1. ASSUME NEW l \in 1 .. Len(s) + 1, NEW r \in 0 .. Len(s)
        PROVE  SearchFrom(s, x, c)[<<l, r>>] = c[<<l, r>>]
    <3>0. (l + r) \div 2 \in {(l + r) \div 2}
      OBVIOUS
    <3>1. PICK m : m = (l + r) \div 2
      OBVIOUS
    <3>2. SearchFrom(s, x, c)[<<l, r>>] <=> (l <= r /\ \/ s[m] = x
                                                       \/ s[m] < x /\ c[<<m + 1, r>>]
                                                       \/ s[m] > x /\ c[<<l, m - 1>>])
      BY <1>3, <3>1
    <3>3. c[<<l, r>>] <=> Within(s, x, <<l, r>>)
      BY <1>4, <1>5
    <3>4. ASSUME l <= r PROVE SearchFrom(s, x, c)[<<l, r>>] <=> c[<<l, r>>]
      <4>0. <<m + 1, r>> \in Spans(s) /\ <<l, m - 1>> \in Spans(s)
        <5>1. m \in l .. r
          BY <3>1, <3>4
        <5>2. m + 1 \in 1 .. Len(s) + 1 /\ m - 1 \in 0 .. Len(s)
          BY <1>1, <5>1
        <5>. QED
          BY <5>2 DEF Spans
      <4>1. /\ c[<<m + 1, r>>] <=> Within(s, x, <<m + 1, r>>)
            /\ c[<<l, m - 1>>] <=> Within(s, x, <<l, m - 1>>)
        BY <1>4, <4>0 DEF D
      <4>2. Within(s, x, <<l, r>>) <=> \/ s[m] = x
                                       \/ s[m] < x /\ Within(s, x, <<m + 1, r>>)
                                       \/ s[m] > x /\ Within(s, x, <<l, m - 1>>)
        BY <3>1, <3>4, Halving
      <4>. QED
        BY <3>2, <3>3, <3>4, <4>1, <4>2, Zenon
    <3>5. ASSUME ~ (l <= r) PROVE SearchFrom(s, x, c)[<<l, r>>] <=> c[<<l, r>>]
      BY <1>6, <3>2, <3>3, <3>5
    <3>6. SearchFrom(s, x, c)[<<l, r>>] <=> c[<<l, r>>]
      BY <3>4, <3>5
    <3>. QED
      BY <1>3, <1>4, <1>5, <3>6
  <2>2. \A place \in D : SearchFrom(s, x, c)[place] = c[place]
    BY <1>2, <2>1
  <2>. QED
    BY <1>3, <1>4, <2>2
<1>8. ASSUME NEW h, h = SearchFrom(s, x, h)
      PROVE  \A l \in 1 .. Len(s) + 1, r \in 0 .. Len(s) : h[<<l, r>>] <=> Within(s, x, <<l, r>>)
  <2>0. ASSUME NEW l \in 1 .. Len(s) + 1, NEW r \in 0 .. Len(s), NEW m, m = (l + r) \div 2
        PROVE  h[<<l, r>>] <=> (l <= r /\ \/ s[m] = x
                                          \/ s[m] < x /\ h[<<m + 1, r>>]
                                          \/ s[m] > x /\ h[<<l, m - 1>>])
    <3>1. SearchFrom(s, x, h)[<<l, r>>] <=> (l <= r /\ \/ s[m] = x
                                                       \/ s[m] < x /\ h[<<m + 1, r>>]
                                                       \/ s[m] > x /\ h[<<l, m - 1>>])
      BY <1>3, <2>0
    <3>2. h[<<l, r>>] = SearchFrom(s, x, h)[<<l, r>>]
      BY <1>8, Zenon
    <3>. QED
      BY <3>1, <3>2, Zenon
  <2> DEFINE T == {k \in Nat : \A l \in 1 .. Len(s) + 1, r \in 0 .. Len(s) :
                                 r - l < k => (h[<<l, r>>] <=> Within(s, x, <<l, r>>))}
  <2>1. 0 \in T
    <3>1. \A l \in 1 .. Len(s) + 1, r \in 0 .. Len(s) : r - l < 0 => ~ (l <= r)
      BY <1>1
    <3>2. \A l \in 1 .. Len(s) + 1, r \in 0 .. Len(s) : ~ (l <= r) => ~ h[<<l, r>>]
      BY <2>0
    <3>. QED
      BY <1>6, <3>1, <3>2
  <2>2. ASSUME NEW k \in 1 .. Len(s) + 1, k - 1 \in T PROVE k \in T
    <3>1. SUFFICES ASSUME NEW l \in 1 .. Len(s) + 1, NEW r \in 0 .. Len(s), r - l < k
                   PROVE  h[<<l, r>>] <=> Within(s, x, <<l, r>>)
      BY <1>1
    <3>2. PICK m : m = (l + r) \div 2
      OBVIOUS
    <3>3. h[<<l, r>>] <=> (l <= r /\ \/ s[m] = x
                                     \/ s[m] < x /\ h[<<m + 1, r>>]
                                     \/ s[m] > x /\ h[<<l, m - 1>>])
      BY <2>0, <3>2
    <3>4. CASE l <= r
      <4>1. /\ m + 1 \in 1 .. Len(s) + 1 /\ m - 1 \in 0 .. Len(s)
            /\ r - (m + 1) < k - 1 /\ (m - 1) - l < k - 1
        <5>1. m \in l .. r
          BY <3>2, <3>4
        <5>. QED
          BY <1>1, <3>1, <5>1
      <4>2. /\ h[<<m + 1, r>>] <=> Within(s, x, <<m + 1, r>>)
            /\ h[<<l, m - 1>>] <=> Within(s, x, <<l, m - 1>>)
        BY <2>2, <4>1
      <4>3. Within(s, x, <<l, r>>) <=> \/ s[m] = x
                                       \/ s[m] < x /\ Within(s, x, <<m + 1, r>>)
                                       \/ s[m] > x /\ Within(s, x, <<l, m - 1>>)
        BY <3>2, <3>4, Halving
      <4>. QED
        BY <3>3, <3>4, <4>2, <4>3, Zenon
    <3>5. CASE ~ (l <= r)
      BY <1>6, <3>3, <3>5
    <3>. QED
      BY <3>4, <3>5
  <2> HIDE DEF T
  <2>3. Len(s) + 1 \in Nat
    BY <1>1
  <2>4. Len(s) + 1 \in T
    BY <2>1, <2>2, <2>3, CountUpTo
  <2>5. \A l \in 1 .. Len(s) + 1, r \in 0 .. Len(s) : r - l < Len(s) + 1
    BY <1>1
  <2>. QED
    BY <2>4, <2>5 DEF T
<1>9. PICK h : h = CHOOSE g : g = SearchFrom(s, x, g)
  OBVIOUS
<1>10. h = SearchFrom(s, x, h)
  BY <1>7, <1>9
<1>11. Within(s, x, <<1, Len(s)>>) <=> x \in Members(s)
  BY <1>1 DEF Within, Members
<1>12. h[<<1, Len(s)>>] <=> x \in Members(s)
  <2>1. 1 \in 1 .. Len(s) + 1 /\ Len(s) \in 0 .. Len(s)
    BY <1>1
  <2>. QED
    BY <1>8, <1>10, <1>11, <2>1
<1>13. (\E k \in DOMAIN s : s[k] = x) <=> x \in Members(s)
  BY DEF Members
<1>14. Contains(s, x) = IF Len(s) > LinearMax THEN h[<<1, Len(s)>>] ELSE \E k \in DOMAIN s : s[k] = x
  <2>1. Contains(s, x) = IF Len(s) > LinearMax THEN (CHOOSE g : g = SearchFrom(s, x, g))[<<1, Len(s)>>]
                         ELSE \E k \in DOMAIN s : s[k] = x
    BY DEF Contains, SearchFrom
  <2>. QED
    BY <1>9, <2>1
<1>. QED
  BY <1>12, <1>13, <1>14

\* Every vector's row acts as the set of its labels once the rows are sorted.
LEMMA RowsAsSets ==
  ASSUME RowsAre, NEW u \in Rows, NEW v \in Rows, NEW f \in Cols, Climbs(rows[u]), Climbs(rows[v])
  PROVE  /\ Merged(rows[u], rows[v]) = Cardinality(Carries(u) \cap Carries(v))
         /\ Contains(rows[v], f) <=> f \in Carries(v)
<1>1. Cols \subseteq Int
  BY TablesConstants
<1>2. ASSUME NEW w \in Rows PROVE rows[w] \in Seq(Int)
  <2>1. PICK s : s = rows[w]
    OBVIOUS
  <2>2. s \in [1 .. Len(s) -> Cols] /\ Len(s) \in Nat
    BY <2>1 DEF RowsAre
  <2>3. s \in [1 .. Len(s) -> Int]
    BY <1>1, <2>2
  <2>4. s \in Seq(Int)
    BY <2>2, <2>3
  <2>. QED
    BY <2>1, <2>4
<1>3. Members(rows[u]) = Carries(u) /\ Members(rows[v]) = Carries(v)
  BY DEF Members, Carries
<1>4. f \in Int
  BY <1>1
<1>. QED
  BY <1>2, <1>3, <1>4, MergedCounts, ContainsFinds

\* The powers of two that a table's size is taken from.
LEMMA PowersGrow ==
  /\ Pow2[0] = 1 /\ \A k \in 0 .. NumRows + 1 : Pow2[k + 1] = 2 * Pow2[k]
  /\ \A k \in 0 .. NumRows + 2 : Pow2[k] \in Nat /\ Pow2[k] > k
<1> DEFINE n == NumRows + 2
           F == [p \in (1 .. n) \X Nat |-> 2 * p[2]]
<1>1. n \in Nat /\ NumRows \in Nat
  BY TablesConstants
<1>2. F \in [(1 .. n) \X Nat -> Nat] /\ \A k \in 1 .. n, x \in Nat : F[<<k, x>>] = 2 * x
  OBVIOUS
<1>3. \A v \in 0 .. NumRows + 2 : v \in 0 .. n
  OBVIOUS
<1> HIDE DEF F
<1>4. PICK g \in [0 .. n -> Nat] : Loops(g, n, 1, F)
  <2>1. 1 \in Nat
    OBVIOUS
  <2> HIDE DEF n
  <2>. QED
    BY <1>1, <1>2, <2>1, LoopExists
<1>5. g[0] = 1 /\ \A k \in 1 .. n : g[k] = 2 * g[k - 1]
  <2>1. \A k \in 1 .. n : g[k - 1] \in Nat
    BY <1>1
  <2>. QED
    BY <1>2, <1>4, <2>1 DEF Loops
<1> DEFINE Rec(h) == h = [k \in 0 .. NumRows + 2 |-> IF k = 0 THEN 1 ELSE 2 * h[k - 1]]
<1>6. Rec(g)
  <2>1. \A k \in 0 .. n : g[k] = IF k = 0 THEN 1 ELSE 2 * g[k - 1]
    BY <1>1, <1>5
  <2>2. g = [k \in 0 .. n |-> g[k]]
    OBVIOUS
  <2>. QED
    BY <2>1, <2>2
<1>7. Rec(Pow2)
  <2>1. Pow2 = CHOOSE h : Rec(h)
    BY DEF Pow2
  <2> HIDE DEF Rec
  <2>. QED
    BY <1>6, <2>1
<1>8. \A k \in 0 .. n : Pow2[k] = IF k = 0 THEN 1 ELSE 2 * Pow2[k - 1]
  BY <1>7
<1> HIDE DEF Rec
<1>9. Pow2[0] = 1
  <2>1. 0 \in 0 .. n
    BY <1>1
  <2>. QED
    BY <1>8, <2>1
<1>10. ASSUME NEW k \in 0 .. NumRows + 1 PROVE Pow2[k + 1] = 2 * Pow2[k]
  <2>1. k + 1 \in 0 .. n /\ k + 1 # 0 /\ (k + 1) - 1 = k
    BY <1>1
  <2>. QED
    BY <1>8, <2>1
<1> DEFINE T == {k \in Nat : k <= n => Pow2[k] \in Nat /\ Pow2[k] > k}
<1>11. 0 \in T
  BY <1>9
<1>12. ASSUME NEW k \in 1 .. n, k - 1 \in T PROVE k \in T
  <2>1. PICK prior \in 0 .. NumRows + 1 : prior = k - 1 /\ prior \in Nat /\ prior + 1 = k /\ prior <= n
    BY <1>1
  <2>2. prior \in T
    BY <1>12, <2>1
  <2>3. Pow2[prior] \in Nat /\ Pow2[prior] > prior /\ Pow2[k] = 2 * Pow2[prior]
    BY <1>10, <2>1, <2>2
  <2>4. Pow2[k] \in Nat /\ Pow2[k] > k
    BY <2>1, <2>3
  <2>. QED
    BY <2>4
<1> HIDE DEF T
<1>13. \A k \in 0 .. n : k \in T
  BY <1>1, <1>11, <1>12, CountUp
<1>14. \A k \in 0 .. n : Pow2[k] \in Nat /\ Pow2[k] > k
  BY <1>1, <1>13 DEF T
<1>. QED
  BY <1>9, <1>10, <1>14

\* A table has more slots than vectors.
LEMMA LgFacts ==
  ASSUME NEW n \in 1 .. NumRows
  PROVE  Pow2[Lg(n) + 2] \in Nat /\ Pow2[Lg(n) + 2] > n
<1>1. NumRows \in Nat /\ n \in Nat /\ n > 0
  BY TablesConstants
<1>2. /\ Pow2[0] = 1 /\ \A k \in 0 .. NumRows + 1 : Pow2[k + 1] = 2 * Pow2[k]
      /\ \A k \in 0 .. NumRows + 2 : Pow2[k] \in Nat /\ Pow2[k] > k
  BY PowersGrow
<1> DEFINE T == {e \in 0 .. n : n < Pow2[e + 1]}
<1>3. n \in T
  <2>1. n + 1 \in 0 .. NumRows + 2
    BY <1>1
  <2>2. Pow2[n + 1] > n + 1 /\ Pow2[n + 1] \in Nat
    BY <1>2, <2>1
  <2>. QED
    BY <1>1, <2>2
<1>4. T \in SUBSET Nat /\ T # {}
  BY <1>3
<1>5. PICK e \in T : \A k \in T : e <= k
  <2> HIDE DEF T
  <2>. QED
    BY <1>4, LeastNat
<1>6. Pow2[e] <= n
  <2>1. CASE e = 0
    BY <1>1, <1>2, <2>1
  <2>2. CASE e # 0
    <3>1. e - 1 \in 0 .. n /\ ~ (e <= e - 1) /\ (e - 1) + 1 = e /\ e \in 0 .. NumRows + 2
      BY <1>1, <2>2
    <3>2. ~ (n < Pow2[e])
      BY <1>5, <3>1
    <3>. QED
      BY <1>1, <1>2, <3>1, <3>2
  <2>. QED
    BY <2>1, <2>2
<1>7. \E x \in 0 .. n : Pow2[x] <= n /\ n < Pow2[x + 1]
  BY <1>6
<1>8. Lg(n) \in 0 .. n /\ n < Pow2[Lg(n) + 1]
  <2>1. Lg(n) = CHOOSE x \in 0 .. n : Pow2[x] <= n /\ n < Pow2[x + 1]
    BY DEF Lg
  <2>. QED
    BY <1>7, <2>1
<1>9. PICK x : x = Lg(n)
  OBVIOUS
<1>10. x \in 0 .. NumRows /\ x + 1 \in 0 .. NumRows + 1 /\ (x + 1) + 1 = x + 2 /\ x + 2 \in 0 .. NumRows + 2
       /\ x + 1 \in 0 .. NumRows + 2
  BY <1>1, <1>8, <1>9
<1>11. Pow2[x + 2] = 2 * Pow2[x + 1] /\ Pow2[x + 1] \in Nat /\ Pow2[x + 2] \in Nat
  BY <1>2, <1>10
<1>. QED
  BY <1>1, <1>8, <1>9, <1>11

\* The probes of a vector are slots, and come by every slot.
LEMMA ProbesReach ==
  ASSUME NEW C \in Nat, C > 0, NEW v \in Nat
  PROVE  /\ \A d \in Nat : ((v % C) + d) % C \in 0 .. C - 1
         /\ \A h \in 0 .. C - 1 : \E d \in 0 .. C - 1 : ((v % C) + d) % C = h
<1>1. PICK s : s = v % C
  OBVIOUS
<1>2. s \in 0 .. C - 1
  BY <1>1
<1>3. \A d \in Nat : (s + d) % C \in 0 .. C - 1
  BY <1>2
<1>4. ASSUME NEW h \in 0 .. C - 1 PROVE \E d \in 0 .. C - 1 : (s + d) % C = h
  <2>1. h % C = h /\ (h + C) % C = h
    OBVIOUS
  <2>2. CASE s <= h
    <3>1. h - s \in 0 .. C - 1 /\ s + (h - s) = h
      BY <1>2, <2>2
    <3>. QED
      BY <2>1, <3>1
  <2>3. CASE ~ (s <= h)
    <3>1. h + C - s \in 0 .. C - 1 /\ s + (h + C - s) = h + C
      BY <1>2, <2>3
    <3>. QED
      BY <2>1, <3>1
  <2>. QED
    BY <2>2, <2>3
<1>. QED
  BY <1>1, <1>3, <1>4

\* A table t with C slots for the first n vectors of the group s: each is met before any
\* free slot, place the only slot that has its position.
ProbeIn(C, v, d) == ((v % C) + d) % C
Holds(t, C, s, n) ==
    /\ t \in [0 .. C - 1 -> -1 .. n - 1]
    /\ \A g, h \in 0 .. C - 1 : t[g] = t[h] /\ t[g] # -1 => g = h
    /\ \A p \in 0 .. n - 1 : \E d \in 0 .. C - 1 :
         /\ t[ProbeIn(C, s[p + 1], d)] = p
         /\ \A e \in 0 .. d - 1 : t[ProbeIn(C, s[p + 1], e)] # -1

LEMMA ProbesIn ==
  ASSUME NEW C \in Nat, C > 0, NEW v \in Nat
  PROVE  /\ \A d \in Nat : ProbeIn(C, v, d) \in 0 .. C - 1
         /\ \A h \in 0 .. C - 1 : \E d \in 0 .. C - 1 : ProbeIn(C, v, d) = h
BY ProbesReach DEF ProbeIn

\* Fewer vectors than slots: one slot is free.
LEMMA SomeFree ==
  ASSUME NEW C \in Nat, NEW n \in Nat, n < C, NEW s, NEW t, Holds(t, C, s, n)
  PROVE  \E h \in 0 .. C - 1 : t[h] = -1
<1>1. SUFFICES ASSUME \A h \in 0 .. C - 1 : t[h] # -1 PROVE FALSE
  OBVIOUS
<1>2. t \in [0 .. C - 1 -> -1 .. n - 1] /\ \A g, h \in 0 .. C - 1 : t[g] = t[h] => g = h
  BY <1>1 DEF Holds
<1>3. t \in Injection(0 .. C - 1, 0 .. n - 1)
  <2>1. \A h \in 0 .. C - 1 : t[h] \in 0 .. n - 1
    BY <1>1, <1>2
  <2>2. t \in [0 .. C - 1 -> 0 .. n - 1]
    BY <1>2, <2>1
  <2>. QED
    BY <1>2, <2>2 DEF Injection, IsInjective
<1>4. /\ IsFiniteSet(0 .. n - 1) /\ Cardinality(0 .. n - 1) = n
      /\ Cardinality(0 .. C - 1) = C
  <2>1. 0 \in Int /\ n - 1 \in Int /\ C - 1 \in Int
    OBVIOUS
  <2>2. /\ IsFiniteSet(0 .. n - 1) /\ Cardinality(0 .. n - 1) = IF 0 > n - 1 THEN 0 ELSE n - 1 - 0 + 1
        /\ Cardinality(0 .. C - 1) = IF 0 > C - 1 THEN 0 ELSE C - 1 - 0 + 1
    BY <2>1, FS_Interval
  <2>. QED
    BY <2>2
<1>5. Cardinality(0 .. C - 1) <= Cardinality(0 .. n - 1)
  BY <1>3, <1>4, FS_Injection
<1>. QED
  BY <1>4, <1>5

LEMMA InsertHolds ==
  ASSUME NEW C \in Nat, NEW n \in Nat, n < C, NEW s, s[n + 1] \in Nat, NEW t, Holds(t, C, s, n)
  PROVE  LET free == {d \in 0 .. C - 1 : t[ProbeIn(C, s[n + 1], d)] = -1}
             d == CHOOSE d \in free : \A e \in free : d <= e
         IN  Holds([t EXCEPT ![ProbeIn(C, s[n + 1], d)] = n], C, s, n + 1)
<1> DEFINE v == s[n + 1]
           free == {d \in 0 .. C - 1 : t[ProbeIn(C, v, d)] = -1}
<1>1. PICK h \in 0 .. C - 1 : t[h] = -1
  BY SomeFree
<1>2. v \in Nat /\ C > 0
  OBVIOUS
<1> HIDE DEF v
<1>3. /\ \A d \in Nat : ProbeIn(C, v, d) \in 0 .. C - 1
      /\ \A x \in 0 .. C - 1 : \E d \in 0 .. C - 1 : ProbeIn(C, v, d) = x
  BY <1>2, ProbesIn
<1>4. free # {} /\ free \in SUBSET Nat
  BY <1>1, <1>3
<1>5. \E d \in free : \A e \in free : d <= e
  <2> HIDE DEF free
  <2>. QED
    BY <1>4, LeastNat
<1>6. PICK d : d = CHOOSE x \in free : \A e \in free : x <= e
  OBVIOUS
<1>7. d \in free /\ \A e \in free : d <= e
  BY <1>5, <1>6
<1>8. PICK x : x = ProbeIn(C, v, d)
  OBVIOUS
<1>9. d \in 0 .. C - 1 /\ x \in 0 .. C - 1 /\ t[x] = -1
  BY <1>3, <1>7, <1>8
<1>10. \A e \in 0 .. d - 1 : t[ProbeIn(C, v, e)] # -1
  <2>1. SUFFICES ASSUME NEW e \in 0 .. d - 1, t[ProbeIn(C, v, e)] = -1 PROVE FALSE
    OBVIOUS
  <2>2. e \in 0 .. C - 1
    BY <1>9
  <2>3. d <= e
    BY <1>7, <2>1, <2>2
  <2>. QED
    BY <1>9, <2>3
<1> HIDE DEF free
<1> DEFINE u == [t EXCEPT ![x] = n]
<1>11. /\ t \in [0 .. C - 1 -> -1 .. n - 1]
       /\ \A g, k \in 0 .. C - 1 : t[g] = t[k] /\ t[g] # -1 => g = k
       /\ \A p \in 0 .. n - 1 : \E e \in 0 .. C - 1 :
            /\ t[ProbeIn(C, s[p + 1], e)] = p
            /\ \A c \in 0 .. e - 1 : t[ProbeIn(C, s[p + 1], c)] # -1
  BY DEF Holds
<1>12. /\ u \in [0 .. C - 1 -> -1 .. n]
       /\ u[x] = n /\ \A g \in 0 .. C - 1 : g # x => u[g] = t[g]
       /\ \A g : g \notin 0 .. C - 1 => u[g] = t[g]
  <2>1. \A g \in 0 .. C - 1 : t[g] \in -1 .. n
    BY <1>11
  <2>2. t \in [0 .. C - 1 -> -1 .. n] /\ n \in -1 .. n
    BY <1>11, <2>1
  <2>3. \A g : g \notin 0 .. C - 1 => u[g] = t[g]
    <3>1. DOMAIN t = 0 .. C - 1 /\ DOMAIN u = 0 .. C - 1
      BY <1>11
    <3>. QED
      BY <1>9, <3>1
  <2>. QED
    BY <1>9, <2>2, <2>3
<1> HIDE DEF u
<1>13. \A g, k \in 0 .. C - 1 : u[g] = u[k] /\ u[g] # -1 => g = k
  <2>1. \A g \in 0 .. C - 1 : t[g] # n
    BY <1>11
  <2>. QED
    BY <1>9, <1>11, <1>12, <2>1
<1>14. ASSUME NEW p \in 0 .. n
       PROVE  \E e \in 0 .. C - 1 : /\ u[ProbeIn(C, s[p + 1], e)] = p
                                    /\ \A c \in 0 .. e - 1 : u[ProbeIn(C, s[p + 1], c)] # -1
  <2>1. \A g : t[g] # -1 => u[g] # -1
    BY <1>9, <1>12
  <2>2. CASE p = n
    <3>1. s[p + 1] = v
      BY <2>2 DEF v
    <3>. QED
      BY <1>8, <1>9, <1>10, <1>12, <2>1, <2>2, <3>1
  <2>3. CASE p # n
    <3>1. p \in 0 .. n - 1 /\ p # -1
      BY <2>3
    <3>2. PICK e \in 0 .. C - 1 : /\ t[ProbeIn(C, s[p + 1], e)] = p
                                  /\ \A c \in 0 .. e - 1 : t[ProbeIn(C, s[p + 1], c)] # -1
      BY <1>11, <3>1
    <3>3. u[ProbeIn(C, s[p + 1], e)] = p
      BY <1>9, <1>12, <3>1, <3>2
    <3>. QED
      BY <2>1, <3>2, <3>3
  <2>. QED
    BY <2>2, <2>3
<1>15. Holds(u, C, s, n + 1)
  <2>1. (n + 1) - 1 = n
    OBVIOUS
  <2>. QED
    BY <1>12, <1>13, <1>14, <2>1 DEF Holds
<1>. QED
  BY <1>6, <1>8, <1>15 DEF v, free, u

StopsIn(t, C, s, v) == {d \in 0 .. C - 1 : LET p == t[ProbeIn(C, v, d)] IN p = -1 \/ s[p + 1] = v}
LookupIn(t, C, s, v) ==
    t[ProbeIn(C, v, CHOOSE d \in StopsIn(t, C, s, v) : \A e \in StopsIn(t, C, s, v) : d <= e)]

\* Probing in a full table ends place the vector, or place a free slot if it is not there.
LEMMA LookupFinds ==
  ASSUME NEW C \in Nat, NEW s \in Seq(Nat), Distinct(s), Len(s) < C, NEW t, Holds(t, C, s, Len(s)), NEW v \in Nat
  PROVE  /\ v \notin Members(s) => LookupIn(t, C, s, v) = -1
         /\ \A k \in 1 .. Len(s) : s[k] = v => LookupIn(t, C, s, v) = k - 1
<1> DEFINE place(d) == t[ProbeIn(C, v, d)]
           stops == {d \in 0 .. C - 1 : place(d) = -1 \/ s[place(d) + 1] = v}
           n == Len(s)
<1>1. n \in Nat /\ n < C /\ C > 0 /\ DOMAIN s = 1 .. n
  OBVIOUS
<1> HIDE DEF n
<1>2. /\ \A d \in Nat : ProbeIn(C, v, d) \in 0 .. C - 1
      /\ \A x \in 0 .. C - 1 : \E d \in 0 .. C - 1 : ProbeIn(C, v, d) = x
  BY <1>1, ProbesIn
<1>3. /\ t \in [0 .. C - 1 -> -1 .. n - 1]
      /\ \A p \in 0 .. n - 1 : \E d \in 0 .. C - 1 :
           /\ t[ProbeIn(C, s[p + 1], d)] = p
           /\ \A e \in 0 .. d - 1 : t[ProbeIn(C, s[p + 1], e)] # -1
  BY DEF Holds, n
<1>4. PICK h \in 0 .. C - 1 : t[h] = -1
  BY <1>1, SomeFree DEF n
<1>5. stops \in SUBSET Nat /\ stops # {}
  <2>1. PICK d \in 0 .. C - 1 : ProbeIn(C, v, d) = h
    BY <1>2
  <2>2. d \in stops
    BY <1>4, <2>1
  <2>3. \A x \in 0 .. C - 1 : x \in Nat
    OBVIOUS
  <2>. QED
    BY <2>2, <2>3
<1>6. PICK d : d = CHOOSE x \in stops : \A e \in stops : x <= e
  OBVIOUS
<1>7. d \in stops /\ \A e \in stops : d <= e
  <2>1. \E x \in stops : \A e \in stops : x <= e
    <3> HIDE DEF stops
    <3>. QED
      BY <1>5, LeastNat
  <2> HIDE DEF stops
  <2>. QED
    BY <1>6, <2>1
<1>8. d \in 0 .. C - 1 /\ place(d) \in -1 .. n - 1 /\ (place(d) = -1 \/ s[place(d) + 1] = v)
  <2>1. d \in 0 .. C - 1 /\ (place(d) = -1 \/ s[place(d) + 1] = v)
    BY <1>7
  <2>3. d \in Nat
    BY <2>1
  <2>2. ProbeIn(C, v, d) \in 0 .. C - 1
    BY <1>2, <2>3
  <2>. QED
    BY <1>3, <2>1, <2>2
<1>9. v \notin Members(s) => place(d) = -1
  <2>1. place(d) # -1 => place(d) + 1 \in 1 .. n
    BY <1>1, <1>8
  <2>. QED
    BY <1>1, <1>8, <2>1 DEF Members
<1>10. ASSUME NEW k \in 1 .. n, s[k] = v PROVE place(d) = k - 1
  <2>1. k - 1 \in 0 .. n - 1 /\ (k - 1) + 1 = k
    BY <1>1
  <2>0. PICK p \in 0 .. n - 1 : p = k - 1 /\ s[p + 1] = v
    BY <1>10, <2>1
  <2>2. PICK e \in 0 .. C - 1 : /\ t[ProbeIn(C, v, e)] = k - 1
                                /\ \A c \in 0 .. e - 1 : t[ProbeIn(C, v, c)] # -1
    <3>1. PICK e \in 0 .. C - 1 : /\ t[ProbeIn(C, s[p + 1], e)] = p
                                  /\ \A c \in 0 .. e - 1 : t[ProbeIn(C, s[p + 1], c)] # -1
      BY <1>3
    <3>. QED
      BY <2>0, <3>1
  <2>3. e \in stops
    BY <1>10, <2>1, <2>2
  <2>4. d <= e
    BY <1>7, <2>3
  <2>5. place(d) # -1
    BY <1>8, <2>1, <2>2, <2>4
  <2>6. s[place(d) + 1] = s[k] /\ place(d) + 1 \in 1 .. n
    BY <1>1, <1>8, <1>10, <2>5
  <2>7. place(d) + 1 = k
    BY <1>1, <2>6 DEF Distinct
  <2>. QED
    BY <1>8, <2>1, <2>7
<1>11. stops = StopsIn(t, C, s, v)
  BY DEF StopsIn
<1> HIDE DEF stops
<1>12. LookupIn(t, C, s, v) = place(d)
  BY <1>6, <1>11 DEF LookupIn
<1>. QED
  BY <1>9, <1>10, <1>12 DEF n

MatrixInv ==
    /\ stage \in {"load", "count", "sum", "place", "insert", "ready"} /\ label \in 0 .. NumCols
    /\ RowsAre /\ DOMAIN seen = Cols
    /\ stage # "load" => \A v \in Rows : Climbs(rows[v])

IndptrInv ==
    /\ indptr \in [0 .. NumCols -> Nat]
    /\ stage = "load" => row = 0
    /\ stage = "count" => row = 0
    /\ stage = "sum" =>
         /\ row \in 0 .. NumCols
         /\ \A f \in 0 .. NumCols : indptr[f] = IF f <= row THEN StartOf(f + 1) ELSE Cardinality(Carrying(f))
    /\ stage = "place" =>
         /\ row \in -1 .. NumRows - 1
         /\ \A f \in 0 .. NumCols : indptr[f] = StartOf(f) + Rank(f, row + 1)
    /\ stage \in {"insert", "ready"} => \A f \in 0 .. NumCols : indptr[f] = StartOf(f)

IndicesInv ==
    /\ stage \in {"load", "count"} => indices = <<>>
    /\ stage \in {"sum", "place", "insert", "ready"} => indices \in [0 .. StartOf(NumCols) - 1 -> Rows \cup {-1}]
    /\ stage = "place" => \A f \in Cols : \A w \in Carrying(f) : row < w => indices[StartOf(f) + Rank(f, w)] = w
    /\ stage \in {"insert", "ready"} => \A f \in Cols : \A w \in Carrying(f) : indices[StartOf(f) + Rank(f, w)] = w

Filled(f) == IF f = label - 1 THEN row ELSE Len(RowOf(f))
HashInv ==
    /\ stage \in {"load", "count", "sum", "place"} => label = 0
    /\ stage \in {"insert", "ready"} => label > 0 /\ row \in 0 .. Len(RowOf(label - 1))
    /\ stage = "ready" => label = NumCols /\ row = Len(RowOf(label - 1))
    /\ stage \in {"insert", "ready"} => \A f \in 0 .. label - 1 :
          Carrying(f) # {} => Holds(seen[f], Capacity(f), RowOf(f), Filled(f))

TablesInv == MatrixInv /\ IndptrInv /\ IndicesInv /\ HashInv

\* The transposed matrix is complete.
Sliced ==
    /\ \A f \in 0 .. NumCols : indptr[f] = StartOf(f)
    /\ \A f \in Cols : \A w \in Carrying(f) : indices[StartOf(f) + Rank(f, w)] = w

LEMMA Transposes ==
  ASSUME TablesInv
  PROVE  /\ stage \in {"insert", "ready"} => Sliced
         /\ stage = "place" /\ row < 0 => Sliced
<1>1. stage \in {"insert", "ready"} => Sliced
  BY DEF TablesInv, IndptrInv, IndicesInv, Sliced
<1>2. ASSUME stage = "place", row < 0 PROVE Sliced
  <2>1. row = -1 /\ \A f \in 0 .. NumCols : indptr[f] = StartOf(f) + Rank(f, row + 1)
    BY <1>2, TablesConstants DEF TablesInv, IndptrInv
  <2>2. ASSUME NEW f \in 0 .. NumCols PROVE indptr[f] = StartOf(f)
    <3>1. SmallerIn(Carrying(f), 0) = {}
      <4>1. \A w \in Carrying(f) : ~ (w < 0)
        BY CarryingFinite, TablesConstants
      <4>. QED
        BY <4>1 DEF SmallerIn
    <3>2. Rank(f, row + 1) = 0
      BY <2>1, <3>1, FS_EmptySet DEF Rank
    <3>3. StartOf(f) \in Nat
      <4>1. f \in Nat /\ RowsAre
        BY TablesConstants DEF TablesInv, MatrixInv
      <4>. QED
        BY <4>1, SlicesFollow
    <3>. QED
      BY <2>1, <3>2, <3>3
  <2>3. \A f \in Cols : \A w \in Carrying(f) : row < w
    BY <2>1, CarryingFinite, TablesConstants
  <2>4. \A f \in Cols : \A w \in Carrying(f) : indices[StartOf(f) + Rank(f, w)] = w
    BY <1>2, <2>3 DEF TablesInv, IndicesInv
  <2>. QED
    BY <2>2, <2>4 DEF Sliced
<1>. QED
  BY <1>1, <1>2

\* Then the slice of a label is the sorted row of the vectors that carry it.
LEMMA SlicesSorted ==
  ASSUME RowsAre, Sliced, NEW f \in Cols
  PROVE  /\ RowOf(f) = Sorted(Carrying(f)) /\ RowOf(f) \in Seq(Nat) /\ Len(RowOf(f)) = Cardinality(Carrying(f))
         /\ Members(RowOf(f)) = Carrying(f) /\ Distinct(RowOf(f)) /\ Len(RowOf(f)) \in 0 .. NumRows
         /\ \A w \in Carrying(f) : Rank(f, w) + 1 \in 1 .. Len(RowOf(f)) /\ RowOf(f)[Rank(f, w) + 1] = w
         /\ RowOf(f) = <<>> <=> Carrying(f) = {}
         /\ Carrying(f) # {} => Capacity(f) \in Nat /\ Len(RowOf(f)) < Capacity(f)
<1> DEFINE S == Carrying(f)
           n == Cardinality(S)
<1>1. S \in SUBSET Rows /\ S \in SUBSET Int /\ IsFiniteSet(S) /\ n \in 0 .. NumRows
  BY CarryingFinite
<1>2. f \in Nat /\ f \in 0 .. NumCols /\ f + 1 \in 0 .. NumCols
  BY TablesConstants
<1>3. StartOf(f) \in Nat /\ StartOf(f + 1) = StartOf(f) + n
  BY <1>2, SlicesFollow
<1>4. indptr[f] = StartOf(f) /\ indptr[f + 1] = StartOf(f) + n
  BY <1>2, <1>3 DEF Sliced
<1>5. \A w \in S : Rank(f, w) \in 0 .. n - 1 /\ indices[StartOf(f) + Rank(f, w)] = w
  <2>1. \A w \in S : Cardinality(SmallerIn(S, w)) \in 0 .. n - 1
    BY <1>1, Ranked
  <2>. QED
    BY <2>1 DEF Sliced, Rank
<1> HIDE DEF n
<1>6. indptr[f + 1] - indptr[f] = n /\ n \in Nat /\ indptr[f] = StartOf(f)
  BY <1>1, <1>3, <1>4
<1>7. RowOf(f) = [k \in 1 .. n |-> indices[StartOf(f) + k - 1]]
  BY <1>6 DEF RowOf
<1>8. ASSUME NEW w \in S PROVE Rank(f, w) + 1 \in 1 .. n /\ RowOf(f)[Rank(f, w) + 1] = w
  <2>1. Rank(f, w) \in 0 .. n - 1 /\ indices[StartOf(f) + Rank(f, w)] = w
    BY <1>5
  <2>2. Rank(f, w) + 1 \in 1 .. n /\ StartOf(f) + (Rank(f, w) + 1) - 1 = StartOf(f) + Rank(f, w)
    BY <1>3, <1>6, <2>1
  <2>. QED
    BY <1>7, <2>1, <2>2
<1>9. RowOf(f) = Sorted(S)
  <2>1. PICK s : s = RowOf(f)
    OBVIOUS
  <2>2. s = [k \in 1 .. Cardinality(S) |-> s[k]]
    BY <1>7, <2>1 DEF n
  <2>3. \A w \in S : s[Cardinality(SmallerIn(S, w)) + 1] = w
    BY <1>8, <2>1 DEF Rank
  <2>4. s = Sorted(S)
    BY <1>1, <2>2, <2>3, SortedIs
  <2>. QED
    BY <2>1, <2>4
<1>10. RowOf(f) \in Seq(S) /\ Len(RowOf(f)) = n /\ Members(RowOf(f)) = S /\ Distinct(RowOf(f))
  BY <1>1, <1>9, SortedFacts DEF n
<1>11. RowOf(f) \in Seq(Nat)
  <2>1. S \subseteq Nat
    BY <1>1, TablesConstants
  <2>. QED
    BY <1>10, <2>1
<1>12. RowOf(f) = <<>> <=> S = {}
  <2>1. n = 0 <=> S = {}
    BY <1>1, FS_EmptySet DEF n
  <2>2. RowOf(f) = <<>> <=> n = 0
    BY <1>6, <1>10, <1>11
  <2>. QED
    BY <2>1, <2>2
<1>13. S # {} => Capacity(f) \in Nat /\ n < Capacity(f)
  <2>1. SUFFICES ASSUME S # {} PROVE Capacity(f) \in Nat /\ n < Capacity(f)
    OBVIOUS
  <2>2. n \in 1 .. NumRows
    BY <1>1, <2>1, FS_EmptySet, TablesConstants DEF n
  <2>3. Capacity(f) = Pow2[Lg(n) + 2]
    BY <1>10 DEF Capacity
  <2>. QED
    BY <1>6, <2>2, <2>3, LgFacts
<1>. QED
  BY <1>1, <1>8, <1>9, <1>10, <1>11, <1>12, <1>13 DEF n

\* What only the rows determine stays while they do.
LEMMA SameMatrix ==
  ASSUME UNCHANGED rows
  PROVE  /\ \A f : Carrying(f)' = Carrying(f) /\ StartOf(f)' = StartOf(f)
         /\ \A f, w : Rank(f, w)' = Rank(f, w)
         /\ RowsAre => RowsAre'
<1>1. \A v : Carries(v)' = Carries(v)
  BY DEF Carries
<1>2. \A f : Carrying(f)' = Carrying(f)
  BY <1>1 DEF Carrying
<1>3. Cells' = Cells
  BY <1>1 DEF Cells
<1>. QED
  BY <1>2, <1>3 DEF StartOf, Rank, RowsAre

LEMMA SameSlices ==
  ASSUME UNCHANGED <<indptr, indices>>
  PROVE  \A f : RowOf(f)' = RowOf(f) /\ Capacity(f)' = Capacity(f)
<1>1. \A f : RowOf(f)' = RowOf(f)
  BY DEF RowOf
<1>. QED
  BY <1>1 DEF Capacity

LEMMA InitTablesInv == TablesInit => TablesInv
<1>1. SUFFICES ASSUME TablesInit PROVE TablesInv
  OBVIOUS
<1>2. RowsAre
  BY <1>1, LabelTablesAssumption DEF TablesInit, RowsAre, Distinct
<1>3. MatrixInv
  BY <1>1, <1>2, TablesConstants DEF TablesInit, MatrixInv
<1>4. IndptrInv /\ IndicesInv /\ HashInv
  BY <1>1 DEF TablesInit, IndptrInv, IndicesInv, HashInv
<1>. QED
  BY <1>3, <1>4 DEF TablesInv

LEMMA LoadTablesInv == TablesInv /\ LoadRows => TablesInv'
<1>1. SUFFICES ASSUME TablesInv, LoadRows PROVE TablesInv'
  OBVIOUS
<1>2. /\ stage = "load" /\ stage' = "count" /\ UNCHANGED <<indptr, indices, seen, row, label>>
      /\ rows' = [v \in Rows |-> Sorted(Carries(v))]
  BY <1>1 DEF LoadRows
<1>3. ASSUME NEW v \in Rows PROVE rows'[v] \in Seq(Cols) /\ Distinct(rows'[v]) /\ Climbs(rows'[v])
  <2>1. Carries(v) \subseteq Cols /\ Cols \subseteq Int /\ IsFiniteSet(Cols)
    BY <1>1, TablesConstants DEF Carries, TablesInv, MatrixInv, RowsAre
  <2>2. PICK S : S = Carries(v)
    OBVIOUS
  <2>3. S \in SUBSET Int /\ S \in SUBSET Cols /\ IsFiniteSet(S)
    BY <2>1, <2>2, FS_Subset
  <2>4. Sorted(S) \in Seq(S) /\ Distinct(Sorted(S)) /\ Climbs(Sorted(S))
    BY <2>3, SortedFacts, SortedClimbs
  <2>5. Sorted(S) \in Seq(Cols)
    <3>1. PICK s : s = Sorted(S)
      OBVIOUS
    <3>2. s \in [1 .. Len(s) -> S] /\ Len(s) \in Nat
      BY <2>4, <3>1
    <3>3. S \subseteq Cols
      BY <2>3
    <3>4. s \in [1 .. Len(s) -> Cols]
      BY <3>2, <3>3
    <3>5. s \in Seq(Cols)
      BY <3>2, <3>4
    <3>. QED
      BY <3>1, <3>5
  <2>. QED
    BY <1>2, <2>2, <2>4, <2>5
<1>4. RowsAre'
  BY <1>2, <1>3 DEF RowsAre
<1>5. MatrixInv'
  BY <1>1, <1>2, <1>3, <1>4 DEF TablesInv, MatrixInv
<1>6. IndptrInv' /\ IndicesInv' /\ HashInv'
  BY <1>1, <1>2 DEF TablesInv, IndptrInv, IndicesInv, HashInv
<1>. QED
  BY <1>5, <1>6 DEF TablesInv

LEMMA CountTablesInv == TablesInv /\ Count => TablesInv'
<1>1. SUFFICES ASSUME TablesInv, Count PROVE TablesInv'
  OBVIOUS
<1>2. /\ stage = "count" /\ stage' = "sum" /\ row' = 0 /\ UNCHANGED <<rows, seen, label>>
      /\ indptr' = [f \in 0 .. NumCols |-> Cardinality(Carrying(f))]
      /\ indices' = [k \in 0 .. Nnz - 1 |-> -1]
  BY <1>1 DEF Count
<1>3. RowsAre /\ MatrixInv /\ HashInv
  BY <1>1 DEF TablesInv, MatrixInv
<1>4. /\ \A f : Carrying(f)' = Carrying(f) /\ StartOf(f)' = StartOf(f)
      /\ RowsAre'
  BY <1>2, <1>3, SameMatrix
<1>5. Nnz = StartOf(NumCols) /\ Nnz \in Nat
  BY <1>3, NnzIs
<1>6. MatrixInv'
  BY <1>2, <1>3, <1>4 DEF MatrixInv
<1>7. IndptrInv'
  <2>1. \A f \in 0 .. NumCols : Cardinality(Carrying(f)) \in Nat
    BY CarryingFinite
  <2>2. indptr' \in [0 .. NumCols -> Nat]
    BY <1>2, <2>1
  <2>3. row' \in 0 .. NumCols
    BY <1>2, TablesConstants
  <2>4. ASSUME NEW f \in 0 .. NumCols
        PROVE  indptr'[f] = IF f <= row' THEN StartOf(f + 1)' ELSE Cardinality(Carrying(f))'
    <3>1. indptr'[f] = Cardinality(Carrying(f)) /\ Cardinality(Carrying(f)) \in Nat
      BY <1>2, <2>1
    <3>2. f <= 0 => f = 0 /\ StartOf(f + 1) = Cardinality(Carrying(f))
      <4>1. 0 \in Nat /\ 0 + 1 = 1
        OBVIOUS
      <4>2. StartOf(0) = 0 /\ StartOf(0 + 1) = StartOf(0) + Cardinality(Carrying(0))
        BY <1>3, <4>1, SlicesFollow
      <4>3. f <= 0 => f = 0
        OBVIOUS
      <4>. QED
        BY <2>1, <3>1, <4>2, <4>3
    <3>. QED
      BY <1>2, <1>4, <3>1, <3>2
  <2>. QED
    BY <1>2, <2>2, <2>3, <2>4 DEF IndptrInv
<1>8. IndicesInv'
  <2>1. indices' \in [0 .. StartOf(NumCols)' - 1 -> Rows \cup {-1}]
    BY <1>2, <1>4, <1>5
  <2>. QED
    BY <1>2, <2>1 DEF IndicesInv
<1>9. HashInv'
  BY <1>2, <1>3 DEF HashInv
<1>. QED
  BY <1>6, <1>7, <1>8, <1>9 DEF TablesInv

LEMMA SumTablesInv == TablesInv /\ PrefixSum => TablesInv'
<1>1. SUFFICES ASSUME TablesInv, PrefixSum PROVE TablesInv'
  OBVIOUS
<1>2. stage = "sum" /\ UNCHANGED <<rows, indices, seen, label>>
  BY <1>1 DEF PrefixSum
<1>3. RowsAre /\ MatrixInv /\ HashInv /\ IndicesInv
  BY <1>1 DEF TablesInv, MatrixInv
<1>4. /\ \A f : Carrying(f)' = Carrying(f) /\ StartOf(f)' = StartOf(f)
      /\ \A f, w : Rank(f, w)' = Rank(f, w)
      /\ RowsAre'
  BY <1>2, <1>3, SameMatrix
<1>5. /\ indptr \in [0 .. NumCols -> Nat] /\ row \in 0 .. NumCols
      /\ \A f \in 0 .. NumCols : indptr[f] = IF f <= row THEN StartOf(f + 1) ELSE Cardinality(Carrying(f))
  BY <1>1, <1>2 DEF TablesInv, IndptrInv
<1>6. /\ \A f \in 0 .. NumCols : StartOf(f) \in Nat /\ StartOf(f + 1) = StartOf(f) + Cardinality(Carrying(f))
      /\ NumCols \in Nat /\ NumRows \in Nat
  <2>1. \A f \in 0 .. NumCols : f \in Nat
    OBVIOUS
  <2>. QED
    BY <1>3, <2>1, SlicesFollow, TablesConstants
<1>7. CASE row < NumCols
  <2>1. indptr' = [indptr EXCEPT ![row + 1] = @ + indptr[row]] /\ row' = row + 1 /\ stage' = "sum"
    BY <1>1, <1>7 DEF PrefixSum
  <2>2. row + 1 \in 0 .. NumCols /\ row \in 0 .. NumCols /\ ~ (row + 1 <= row)
    BY <1>5, <1>6, <1>7
  <2>3. indptr[row] = StartOf(row + 1) /\ indptr[row + 1] = Cardinality(Carrying(row + 1))
    BY <1>5, <2>2
  <2>4. indptr[row] \in Nat /\ indptr[row + 1] \in Nat
    BY <1>5, <2>2
  <2>5. StartOf((row + 1) + 1) = StartOf(row + 1) + Cardinality(Carrying(row + 1))
    BY <1>6, <2>2
  <2>6. indptr'[row + 1] = StartOf((row + 1) + 1) /\ \A f \in 0 .. NumCols : f # row + 1 => indptr'[f] = indptr[f]
    BY <1>5, <2>1, <2>2, <2>3, <2>4, <2>5
  <2>7. indptr' \in [0 .. NumCols -> Nat]
    BY <1>5, <2>1, <2>2, <2>4
  <2>8. ASSUME NEW f \in 0 .. NumCols
        PROVE  indptr'[f] = IF f <= row' THEN StartOf(f + 1)' ELSE Cardinality(Carrying(f))'
    <3>1. CASE f = row + 1
      BY <1>4, <2>1, <2>2, <2>6, <3>1
    <3>2. CASE f # row + 1
      <4>1. f <= row + 1 <=> f <= row
        BY <1>5, <3>2
      <4>. QED
        BY <1>4, <1>5, <2>1, <2>6, <3>2, <4>1
    <3>. QED
      BY <3>1, <3>2
  <2>9. IndptrInv'
    BY <2>1, <2>2, <2>7, <2>8 DEF IndptrInv
  <2>10. IndicesInv'
    BY <1>2, <1>3, <1>4, <2>1 DEF IndicesInv
  <2>11. MatrixInv' /\ HashInv'
    BY <1>2, <1>3, <1>4, <2>1 DEF MatrixInv, HashInv
  <2>. QED
    BY <2>9, <2>10, <2>11 DEF TablesInv
<1>8. CASE ~ (row < NumCols)
  <2>1. row' = NumRows - 1 /\ stage' = "place" /\ UNCHANGED indptr
    BY <1>1, <1>8 DEF PrefixSum
  <2>2. row = NumCols
    BY <1>5, <1>6, <1>8
  <2>3. row' + 1 = NumRows /\ row' \in -1 .. NumRows - 1
    BY <1>6, <2>1
  <2>4. ASSUME NEW f \in 0 .. NumCols PROVE indptr'[f] = StartOf(f)' + Rank(f, row + 1)'
    <3>1. SmallerIn(Carrying(f), NumRows) = Carrying(f)
      <4>1. \A w \in Carrying(f) : w < NumRows
        BY CarryingFinite, TablesConstants
      <4>. QED
        BY <4>1 DEF SmallerIn
    <3>2. Rank(f, NumRows) = Cardinality(Carrying(f))
      BY <3>1 DEF Rank
    <3>3. indptr[f] = StartOf(f + 1)
      BY <1>5, <2>2
    <3>4. Rank(f, NumRows)' = Rank(f, NumRows)
      BY <1>4
    <3>5. Rank(f, row + 1)' = Rank(f, NumRows)'
      <4>1. (row + 1)' = NumRows
        BY <2>3
      <4>. QED
        BY <4>1 DEF Rank
    <3>. QED
      BY <1>4, <1>6, <2>1, <3>2, <3>3, <3>4, <3>5
  <2>5. IndptrInv'
    BY <1>5, <2>1, <2>3, <2>4 DEF IndptrInv
  <2>6. IndicesInv'
    <3>1. indices' \in [0 .. StartOf(NumCols)' - 1 -> Rows \cup {-1}]
      BY <1>2, <1>3, <1>4 DEF IndicesInv
    <3>2. \A f \in Cols : \A w \in Carrying(f) : ~ (row' < w)
      BY <2>1, CarryingFinite, TablesConstants
    <3>. QED
      BY <1>4, <2>1, <3>1, <3>2 DEF IndicesInv
  <2>7. MatrixInv' /\ HashInv'
    BY <1>2, <1>3, <1>4, <2>1 DEF MatrixInv, HashInv
  <2>. QED
    BY <2>5, <2>6, <2>7 DEF TablesInv
<1>. QED
  BY <1>7, <1>8

\* Each one of the matrix has its own place in the transposed one.
LEMMA SlotsApart ==
  ASSUME RowsAre
  PROVE  /\ \A f \in Cols : \A w \in Carrying(f) :
              StartOf(f) + Rank(f, w) \in 0 .. StartOf(NumCols) - 1
         /\ \A f, g \in Cols : \A w \in Carrying(f), x \in Carrying(g) :
              StartOf(f) + Rank(f, w) = StartOf(g) + Rank(g, x) => f = g /\ w = x
<1>1. /\ \A f \in Nat : StartOf(f) \in Nat /\ StartOf(f + 1) = StartOf(f) + Cardinality(Carrying(f))
      /\ \A f, g \in Nat : f <= g => StartOf(f) <= StartOf(g)
  BY SlicesFollow
<1>2. \A f \in Cols : f \in Nat /\ f + 1 \in Nat /\ f + 1 <= NumCols /\ NumCols \in Nat
  BY TablesConstants
<1>3. \A f \in Cols : \A w \in Carrying(f) : Rank(f, w) \in 0 .. Cardinality(Carrying(f)) - 1
  <2>1. SUFFICES ASSUME NEW f \in Cols PROVE \A w \in Carrying(f) : Rank(f, w) \in 0 .. Cardinality(Carrying(f)) - 1
    OBVIOUS
  <2>. QED
    BY CarryingFinite, Ranked DEF Rank
<1>4. ASSUME NEW f \in Cols, NEW w \in Carrying(f)
      PROVE  /\ StartOf(f) + Rank(f, w) \in Nat /\ StartOf(f) <= StartOf(f) + Rank(f, w)
             /\ StartOf(f) + Rank(f, w) < StartOf(f + 1)
  <2>1. StartOf(f) \in Nat /\ StartOf(f + 1) = StartOf(f) + Cardinality(Carrying(f))
    BY <1>1, <1>2
  <2>2. Rank(f, w) \in 0 .. Cardinality(Carrying(f)) - 1 /\ Cardinality(Carrying(f)) \in Nat
    BY <1>3, CarryingFinite
  <2>. QED
    BY <2>1, <2>2
<1>5. ASSUME NEW f \in Cols, NEW w \in Carrying(f) PROVE StartOf(f) + Rank(f, w) \in 0 .. StartOf(NumCols) - 1
  <2>1. StartOf(f + 1) <= StartOf(NumCols) /\ StartOf(f + 1) \in Nat /\ StartOf(NumCols) \in Nat
    BY <1>1, <1>2
  <2>. QED
    BY <1>4, <2>1
<1>6. ASSUME NEW f \in Cols, NEW g \in Cols, NEW w \in Carrying(f), NEW x \in Carrying(g), f < g
      PROVE  StartOf(f) + Rank(f, w) < StartOf(g) + Rank(g, x)
  <2>1. f + 1 <= g
    BY <1>2, <1>6
  <2>2. StartOf(f + 1) <= StartOf(g) /\ StartOf(f + 1) \in Nat /\ StartOf(g) \in Nat
    BY <1>1, <1>2, <2>1
  <2>3. StartOf(f) + Rank(f, w) < StartOf(f + 1) /\ StartOf(f) + Rank(f, w) \in Nat
    BY <1>4
  <2>4. StartOf(g) <= StartOf(g) + Rank(g, x) /\ StartOf(g) + Rank(g, x) \in Nat
    BY <1>4
  <2>. QED
    BY <2>2, <2>3, <2>4
<1>7. ASSUME NEW f \in Cols, NEW g \in Cols, NEW w \in Carrying(f), NEW x \in Carrying(g),
             StartOf(f) + Rank(f, w) = StartOf(g) + Rank(g, x)
      PROVE  f = g /\ w = x
  <2>1. StartOf(f) + Rank(f, w) \in Nat /\ StartOf(g) + Rank(g, x) \in Nat
    BY <1>4
  <2>2. ~ (f < g) /\ ~ (g < f)
    BY <1>6, <1>7, <2>1
  <2>3. f = g
    BY <1>2, <2>2
  <2>4. StartOf(f) \in Nat /\ Rank(f, w) \in Int /\ Rank(f, x) \in Int
    BY <1>1, <1>2, <1>3, <2>3, CarryingFinite
  <2>5. Rank(f, w) = Rank(f, x)
    BY <1>7, <2>3, <2>4
  <2>6. w = x
    BY <2>3, <2>5, CarryingFinite, Ranked DEF Rank
  <2>. QED
    BY <2>3, <2>6
<1>. QED
  BY <1>5, <1>7

LEMMA PlaceTablesInv == TablesInv /\ PlaceRow => TablesInv'
<1>1. SUFFICES ASSUME TablesInv, PlaceRow PROVE TablesInv'
  OBVIOUS
<1>2. /\ stage = "place" /\ row >= 0 /\ row' = row - 1 /\ UNCHANGED <<rows, seen, stage, label>>
      /\ indptr' = [f \in 0 .. NumCols |-> IF f \in Carries(row) THEN indptr[f] - 1 ELSE indptr[f]]
      /\ indices' = [k \in DOMAIN indices |-> IF \E f \in Carries(row) : k = indptr[f] - 1 THEN row ELSE indices[k]]
  BY <1>1 DEF PlaceRow
<1>3. RowsAre /\ MatrixInv /\ HashInv /\ IndicesInv
  BY <1>1 DEF TablesInv, MatrixInv
<1>4. /\ \A f : Carrying(f)' = Carrying(f) /\ StartOf(f)' = StartOf(f)
      /\ \A f, w : Rank(f, w)' = Rank(f, w)
      /\ RowsAre'
  BY <1>2, <1>3, SameMatrix
<1>5. /\ indptr \in [0 .. NumCols -> Nat] /\ row \in -1 .. NumRows - 1
      /\ \A f \in 0 .. NumCols : indptr[f] = StartOf(f) + Rank(f, row + 1)
  BY <1>1, <1>2 DEF TablesInv, IndptrInv
<1>6. /\ indices \in [0 .. StartOf(NumCols) - 1 -> Rows \cup {-1}]
      /\ \A f \in Cols : \A w \in Carrying(f) : row < w => indices[StartOf(f) + Rank(f, w)] = w
  BY <1>2, <1>3 DEF IndicesInv
<1>7. row \in Rows /\ row \in Int /\ row' \in -1 .. NumRows - 1
  BY <1>2, <1>5, TablesConstants
<1>8. \A f : f \in Carries(row) <=> row \in Carrying(f)
  BY <1>7 DEF Carrying
<1>9. ASSUME NEW f \in 0 .. NumCols
      PROVE  /\ Rank(f, row) \in Nat /\ StartOf(f) \in Nat
             /\ Rank(f, row + 1) = IF row \in Carrying(f) THEN Rank(f, row) + 1 ELSE Rank(f, row)
  <2>1. f \in Nat
    BY TablesConstants
  <2>2. StartOf(f) \in Nat
    BY <1>3, <2>1, SlicesFollow
  <2>3. /\ Cardinality(SmallerIn(Carrying(f), row)) \in Nat
        /\ Cardinality(SmallerIn(Carrying(f), row + 1)) =
             IF row \in Carrying(f) THEN Cardinality(SmallerIn(Carrying(f), row)) + 1
             ELSE Cardinality(SmallerIn(Carrying(f), row))
    BY <1>7, CarryingFinite, RankOfNext
  <2>. QED
    BY <2>2, <2>3 DEF Rank
<1>10. \A f \in 0 .. NumCols : indptr'[f] = StartOf(f) + Rank(f, row)
  <2>1. SUFFICES ASSUME NEW f \in 0 .. NumCols PROVE indptr'[f] = StartOf(f) + Rank(f, row)
    OBVIOUS
  <2>2. indptr'[f] = IF row \in Carrying(f) THEN indptr[f] - 1 ELSE indptr[f]
    BY <1>2, <1>8
  <2>. QED
    BY <1>5, <1>9, <2>2
<1>11. IndptrInv'
  <2>1. \A f \in 0 .. NumCols : StartOf(f) + Rank(f, row) \in Nat
    BY <1>9
  <2>2. indptr' \in [0 .. NumCols -> Nat]
    BY <1>2, <1>10, <2>1
  <2>3. \A f \in 0 .. NumCols : Rank(f, row + 1)' = Rank(f, row)
    <3>1. SUFFICES ASSUME NEW f \in 0 .. NumCols PROVE Rank(f, row + 1)' = Rank(f, row)
      OBVIOUS
    <3>2. (row + 1)' = row
      BY <1>2, <1>7
    <3>. QED
      BY <1>4, <3>2 DEF Rank
  <2>. QED
    BY <1>2, <1>4, <1>7, <1>10, <2>2, <2>3 DEF IndptrInv
<1>12. \A f \in Carries(row) : f \in Cols /\ indptr[f] - 1 = StartOf(f) + Rank(f, row)
  <2>1. SUFFICES ASSUME NEW f \in Carries(row) PROVE f \in Cols /\ indptr[f] - 1 = StartOf(f) + Rank(f, row)
    OBVIOUS
  <2>2. f \in Cols
    BY <1>3, <1>7 DEF Carries, RowsAre
  <2>3. f \in 0 .. NumCols /\ row \in Carrying(f)
    BY <1>8, <2>2, TablesConstants
  <2>. QED
    BY <1>5, <1>9, <2>2, <2>3
<1>13. indices' \in [0 .. StartOf(NumCols) - 1 -> Rows \cup {-1}]
  BY <1>2, <1>6, <1>7
<1>14. ASSUME NEW f \in Cols, NEW w \in Carrying(f), row' < w
       PROVE  indices'[StartOf(f) + Rank(f, w)] = w
  <2> DEFINE k == StartOf(f) + Rank(f, w)
  <2>1. k \in 0 .. StartOf(NumCols) - 1
    BY <1>3, SlotsApart
  <2>2. indices'[k] = IF \E g \in Carries(row) : k = indptr[g] - 1 THEN row ELSE indices[k]
    BY <1>2, <1>6, <2>1
  <2>3. w \in Int
    BY CarryingFinite
  <2>4. CASE w = row
    <3>1. f \in Carries(row)
      BY <1>8, <2>4
    <3>2. k = indptr[f] - 1
      BY <1>12, <2>4, <3>1
    <3>. QED
      BY <2>2, <2>4, <3>1, <3>2
  <2>5. CASE w # row
    <3>1. row < w
      BY <1>2, <1>7, <1>14, <2>3, <2>5
    <3>2. ASSUME NEW g \in Carries(row), k = indptr[g] - 1 PROVE FALSE
      <4>1. g \in Cols /\ row \in Carrying(g) /\ k = StartOf(g) + Rank(g, row)
        BY <1>8, <1>12, <3>2
      <4>2. w = row
        BY <1>3, <4>1, SlotsApart
      <4>. QED
        BY <2>5, <4>2
    <3>3. indices'[k] = indices[k]
      BY <2>2, <3>2
    <3>. QED
      BY <1>6, <3>1, <3>3
  <2>. QED
    BY <2>4, <2>5
<1>15. IndicesInv'
  BY <1>2, <1>4, <1>13, <1>14 DEF IndicesInv
<1>16. MatrixInv' /\ HashInv'
  BY <1>2, <1>3, <1>4 DEF MatrixInv, HashInv
<1>. QED
  BY <1>11, <1>15, <1>16 DEF TablesInv

LEMMA StartTablesInv == TablesInv /\ StartTable => TablesInv'
<1>1. SUFFICES ASSUME TablesInv, StartTable PROVE TablesInv'
  OBVIOUS
<1>2. /\ (stage = "place" /\ row < 0) \/ (stage = "insert" /\ row >= Len(RowOf(label - 1)))
      /\ label < NumCols /\ label' = label + 1 /\ row' = 0 /\ stage' = "insert"
      /\ seen' = [seen EXCEPT ![label] = IF RowOf(label) = <<>> THEN <<>>
                                         ELSE [h \in 0 .. Capacity(label) - 1 |-> -1]]
      /\ UNCHANGED <<rows, indptr, indices>>
  BY <1>1 DEF StartTable
<1>3. RowsAre /\ MatrixInv /\ HashInv /\ IndicesInv /\ IndptrInv
  BY <1>1 DEF TablesInv, MatrixInv
<1>4. /\ \A f : Carrying(f)' = Carrying(f) /\ StartOf(f)' = StartOf(f)
      /\ \A f, w : Rank(f, w)' = Rank(f, w)
      /\ RowsAre'
  BY <1>2, <1>3, SameMatrix
<1>5. \A f : RowOf(f)' = RowOf(f) /\ Capacity(f)' = Capacity(f)
  BY <1>2, SameSlices
<1>6. Sliced
  BY <1>1, <1>2, Transposes
<1>7. label \in 0 .. NumCols - 1 /\ label \in Cols /\ NumCols \in Nat /\ label' - 1 = label /\ label' \in 1 .. NumCols
  BY <1>2, <1>3, TablesConstants DEF MatrixInv
<1>8. MatrixInv'
  BY <1>2, <1>3, <1>4, <1>7 DEF MatrixInv
<1>9. IndptrInv'
  BY <1>2, <1>3, <1>4, <1>6 DEF IndptrInv, Sliced
<1>10. IndicesInv'
  <2>1. indices' \in [0 .. StartOf(NumCols)' - 1 -> Rows \cup {-1}]
    BY <1>2, <1>3, <1>4 DEF IndicesInv
  <2>. QED
    BY <1>2, <1>4, <1>6, <2>1 DEF IndicesInv, Sliced
<1>11. HashInv'
  <2>1. Len(RowOf(label)) \in Nat
    BY <1>3, <1>6, <1>7, SlicesSorted
  <2>2. row' \in 0 .. Len(RowOf(label - 1))'
    <3>1. RowOf(label - 1)' = RowOf(label)
      <4>1. (label - 1)' = label
        BY <1>7
      <4>. QED
        BY <1>2, <4>1 DEF RowOf
    <3>. QED
      BY <1>2, <2>1, <3>1
  <2>3. ASSUME NEW f \in 0 .. label' - 1, Carrying(f)' # {}
        PROVE  Holds(seen[f]', Capacity(f)', RowOf(f)', Filled(f)')
    <3>1. f \in Cols /\ f \in 0 .. label /\ Carrying(f) # {} /\ DOMAIN seen = Cols
      <4>1. f \in 0 .. label
        BY <1>7
      <4>2. f \in Cols
        BY <1>7, <4>1, TablesConstants
      <4>3. Carrying(f) # {}
        BY <1>4, <2>3
      <4>. QED
        BY <1>3, <4>1, <4>2, <4>3 DEF MatrixInv
    <3>2. Filled(f)' = IF f = label THEN 0 ELSE Len(RowOf(f))
      BY <1>2, <1>5, <1>7 DEF Filled
    <3>3. CASE f = label
      <4>1. RowOf(f) # <<>> /\ Capacity(f) \in Nat
        BY <1>3, <1>6, <3>1, SlicesSorted
      <4>2. seen[f]' = [h \in 0 .. Capacity(f) - 1 |-> -1]
        BY <1>2, <3>1, <3>3, <4>1
      <4>3. Holds([h \in 0 .. Capacity(f) - 1 |-> -1], Capacity(f), RowOf(f), 0)
        BY <4>1 DEF Holds
      <4>. QED
        BY <1>5, <3>2, <3>3, <4>2, <4>3
    <3>4. CASE f # label
      <4>1. stage = "insert" /\ f \in 0 .. label - 1
        BY <1>2, <1>3, <1>7, <3>1, <3>4 DEF HashInv
      <4>2. Holds(seen[f], Capacity(f), RowOf(f), Filled(f))
        BY <1>3, <3>1, <4>1 DEF HashInv
      <4>3. Filled(f) = Len(RowOf(f))
        <5>1. CASE f = label - 1
          <6>1. row \in 0 .. Len(RowOf(f)) /\ row >= Len(RowOf(f))
            BY <1>2, <1>3, <4>1, <5>1 DEF HashInv
          <6>2. Len(RowOf(f)) \in Nat
            BY <1>3, <1>6, <3>1, SlicesSorted
          <6>. QED
            BY <5>1, <6>1, <6>2 DEF Filled
        <5>. QED
          BY <5>1 DEF Filled
      <4>4. seen[f]' = seen[f]
        BY <1>2, <3>1, <3>4
      <4>. QED
        BY <1>5, <3>2, <3>4, <4>2, <4>3, <4>4
    <3>. QED
      BY <3>3, <3>4
  <2>4. (\A f \in 0 .. label - 1 : Carrying(f) # {} => Holds(seen[f], Capacity(f), RowOf(f), Filled(f)))'
    BY <2>3
  <2>5. label' > 0 /\ stage' = "insert"
    BY <1>2, <1>7
  <2>. QED
    BY <2>2, <2>4, <2>5 DEF HashInv
<1>. QED
  BY <1>8, <1>9, <1>10, <1>11 DEF TablesInv

LEMMA InsertTablesInv == TablesInv /\ Insert => TablesInv'
<1>1. SUFFICES ASSUME TablesInv, Insert PROVE TablesInv'
  OBVIOUS
<1> DEFINE f == label - 1
           v == RowOf(f)[row + 1]
           place == CHOOSE d \in FreeProbes(f, v) : \A e \in FreeProbes(f, v) : d <= e
<1>2. /\ stage = "insert" /\ row < Len(RowOf(f)) /\ row' = row + 1
      /\ seen' = [seen EXCEPT ![f][Probe(f, v, place)] = row]
      /\ UNCHANGED <<rows, indptr, indices, stage, label>>
  BY <1>1 DEF Insert
<1>3. RowsAre /\ MatrixInv /\ HashInv /\ IndicesInv /\ IndptrInv
  BY <1>1 DEF TablesInv, MatrixInv
<1>4. /\ \A g : Carrying(g)' = Carrying(g) /\ StartOf(g)' = StartOf(g)
      /\ \A g, w : Rank(g, w)' = Rank(g, w)
      /\ RowsAre'
  BY <1>2, <1>3, SameMatrix
<1>5. \A g : RowOf(g)' = RowOf(g) /\ Capacity(g)' = Capacity(g)
  BY <1>2, SameSlices
<1>6. Sliced
  BY <1>1, <1>2, Transposes
<1>7. label \in 1 .. NumCols /\ f \in Cols /\ row \in 0 .. Len(RowOf(f)) /\ DOMAIN seen = Cols
  BY <1>2, <1>3, TablesConstants DEF MatrixInv, HashInv
<1>8. /\ RowOf(f) \in Seq(Nat) /\ Len(RowOf(f)) \in Nat
      /\ Carrying(f) # {} /\ Capacity(f) \in Nat /\ Len(RowOf(f)) < Capacity(f)
  <2>1. /\ RowOf(f) \in Seq(Nat) /\ (RowOf(f) = <<>> <=> Carrying(f) = {})
        /\ (Carrying(f) # {} => Capacity(f) \in Nat /\ Len(RowOf(f)) < Capacity(f))
    BY <1>3, <1>6, <1>7, SlicesSorted
  <2>2. Len(RowOf(f)) \in Nat /\ RowOf(f) # <<>>
    BY <1>2, <1>7, <2>1
  <2>. QED
    BY <2>1, <2>2
<1>9. MatrixInv'
  BY <1>2, <1>3, <1>4 DEF MatrixInv
<1>10. IndptrInv'
  BY <1>2, <1>3, <1>4, <1>6 DEF IndptrInv, Sliced
<1>11. IndicesInv'
  <2>1. indices' \in [0 .. StartOf(NumCols)' - 1 -> Rows \cup {-1}]
    BY <1>2, <1>3, <1>4 DEF IndicesInv
  <2>. QED
    BY <1>2, <1>4, <1>6, <2>1 DEF IndicesInv, Sliced
<1>12. row \in Nat /\ row < Capacity(f) /\ row + 1 \in 1 .. Len(RowOf(f)) /\ v \in Nat
  <2>1. row \in Nat /\ row < Capacity(f) /\ row + 1 \in 1 .. Len(RowOf(f))
    BY <1>2, <1>7, <1>8
  <2>. QED
    BY <1>8, <2>1
<1>13. Holds(seen'[f], Capacity(f), RowOf(f), row + 1)
  <2>1. Filled(f) = row
    BY DEF Filled
  <2>2. Holds(seen[f], Capacity(f), RowOf(f), row)
    BY <1>2, <1>3, <1>7, <1>8, <2>1 DEF HashInv
  <2>3. PICK t : t = seen[f]
    OBVIOUS
  <2>4. PICK C : C = Capacity(f)
    OBVIOUS
  <2>5. PICK s : s = RowOf(f)
    OBVIOUS
  <2> DEFINE free == {d \in 0 .. C - 1 : t[ProbeIn(C, s[row + 1], d)] = -1}
             x == ProbeIn(C, s[row + 1], CHOOSE d \in free : \A e \in free : d <= e)
  <2>6. Holds([t EXCEPT ![x] = row], C, s, row + 1)
    <3>1. C \in Nat /\ row \in Nat /\ row < C /\ s[row + 1] \in Nat /\ Holds(t, C, s, row)
      BY <1>8, <1>12, <2>2, <2>3, <2>4, <2>5
    <3>. QED
      BY <3>1, InsertHolds
  <2>7. free = FreeProbes(f, v)
    BY <2>3, <2>4, <2>5 DEF FreeProbes, Probe, ProbeIn, GetHash
  <2>8. x = Probe(f, v, place)
    <3>1. x = ProbeIn(C, s[row + 1], place)
      BY <2>7
    <3>. QED
      BY <2>4, <2>5, <3>1 DEF Probe, ProbeIn, GetHash
  <2> HIDE DEF free, x, place
  <2>9. seen'[f] = [t EXCEPT ![x] = row]
    BY <1>2, <1>7, <2>3, <2>8
  <2>. QED
    BY <2>4, <2>5, <2>6, <2>9
<1> HIDE DEF place, v
<1>14. HashInv'
  <2>1. f' = f /\ \A g : Filled(g)' = IF g = f THEN row + 1 ELSE Len(RowOf(g))
    BY <1>2, <1>5 DEF Filled
  <2>2. row' \in 0 .. Len(RowOf(f))
    BY <1>2, <1>7, <1>8
  <2>3. ASSUME NEW g \in 0 .. label - 1, Carrying(g)' # {}
        PROVE  Holds(seen[g]', Capacity(g)', RowOf(g)', Filled(g)')
    <3>1. CASE g = f
      BY <1>5, <1>13, <2>1, <3>1
    <3>2. CASE g # f
      <4>1. Filled(g) = Len(RowOf(g)) /\ Filled(g)' = Len(RowOf(g)) /\ Carrying(g) # {}
        BY <1>4, <2>1, <2>3, <3>2 DEF Filled
      <4>2. Holds(seen[g], Capacity(g), RowOf(g), Filled(g))
        BY <1>2, <1>3, <4>1 DEF HashInv
      <4>3. seen[g]' = seen[g]
        BY <1>2, <3>2
      <4>. QED
        BY <1>5, <4>1, <4>2, <4>3
    <3>. QED
      BY <3>1, <3>2
  <2>4. row' \in 0 .. Len(RowOf(label - 1))'
    BY <1>2, <1>5, <2>1, <2>2
  <2>5. label' = label /\ label > 0 /\ stage' = "insert"
    BY <1>2, <1>7
  <2>. QED
    BY <2>3, <2>4, <2>5 DEF HashInv
<1>. QED
  BY <1>9, <1>10, <1>11, <1>14 DEF TablesInv

LEMMA FinishTablesInv == TablesInv /\ Finish => TablesInv'
<1>1. SUFFICES ASSUME TablesInv, Finish PROVE TablesInv'
  OBVIOUS
<1>2. /\ stage = "insert" /\ label = NumCols /\ row >= Len(RowOf(label - 1)) /\ stage' = "ready"
      /\ UNCHANGED <<rows, indptr, indices, seen, row, label>>
  BY <1>1 DEF Finish
<1>3. RowsAre /\ MatrixInv /\ HashInv /\ IndicesInv /\ IndptrInv
  BY <1>1 DEF TablesInv, MatrixInv
<1>4. /\ \A g : Carrying(g)' = Carrying(g) /\ StartOf(g)' = StartOf(g)
      /\ \A g, w : Rank(g, w)' = Rank(g, w)
      /\ RowsAre'
  BY <1>2, <1>3, SameMatrix
<1>5. \A g : RowOf(g)' = RowOf(g) /\ Capacity(g)' = Capacity(g) /\ Filled(g)' = Filled(g)
  BY <1>2, SameSlices DEF Filled
<1>6. MatrixInv' /\ IndptrInv' /\ IndicesInv'
  BY <1>2, <1>3, <1>4 DEF MatrixInv, IndptrInv, IndicesInv
<1>7. row = Len(RowOf(label - 1))
  <2>1. label - 1 \in Cols /\ Sliced
    BY <1>1, <1>2, Transposes, TablesConstants
  <2>2. Len(RowOf(label - 1)) \in 0 .. NumRows
    BY <1>3, <2>1, SlicesSorted
  <2>3. row \in 0 .. Len(RowOf(label - 1))
    BY <1>2, <1>3 DEF HashInv
  <2>. QED
    BY <1>2, <2>2, <2>3
<1>8. HashInv'
  BY <1>2, <1>3, <1>4, <1>5, <1>7 DEF HashInv
<1>. QED
  BY <1>6, <1>8 DEF TablesInv

LEMMA StutterTablesInv == TablesInv /\ UNCHANGED tableVars => TablesInv'
<1>1. SUFFICES ASSUME TablesInv, UNCHANGED tableVars PROVE TablesInv'
  OBVIOUS
<1>2. UNCHANGED rows /\ UNCHANGED indptr /\ UNCHANGED indices /\ UNCHANGED seen
      /\ UNCHANGED stage /\ UNCHANGED row /\ UNCHANGED label
  BY <1>1 DEF tableVars
<1>3. RowsAre /\ MatrixInv /\ HashInv /\ IndicesInv /\ IndptrInv
  BY <1>1 DEF TablesInv, MatrixInv
<1>4. /\ \A g : Carrying(g)' = Carrying(g) /\ StartOf(g)' = StartOf(g)
      /\ \A g, w : Rank(g, w)' = Rank(g, w)
      /\ RowsAre'
  BY <1>2, <1>3, SameMatrix
<1>5. \A g : RowOf(g)' = RowOf(g) /\ Capacity(g)' = Capacity(g) /\ Filled(g)' = Filled(g)
  BY <1>2, SameSlices DEF Filled
<1>6. MatrixInv' /\ IndptrInv' /\ IndicesInv' /\ HashInv'
  BY <1>2, <1>3, <1>4, <1>5 DEF MatrixInv, IndptrInv, IndicesInv, HashInv
<1>. QED
  BY <1>6 DEF TablesInv

(***************************************************************************)
(* The inductive invariant of the tables: in every pass of transpose the   *)
(* offsets count what the pass has to count, the rows placed are in their  *)
(* places, and between the first slot of a vector and its own no slot of a *)
(* hash_subgroup is free.                                                  *)
(***************************************************************************)
THEOREM TablesInvHolds == TablesSpec => []TablesInv
<1>1. TablesInit => TablesInv
  BY InitTablesInv
<1>2. TablesInv /\ [TablesNext]_tableVars => TablesInv'
  BY LoadTablesInv, CountTablesInv, SumTablesInv, PlaceTablesInv, StartTablesInv, InsertTablesInv, FinishTablesInv,
     StutterTablesInv DEF TablesNext
<1>. QED
  BY <1>1, <1>2, PTL DEF TablesSpec

(***************************************************************************)
(* For every label matrix and every number of vectors and labels:          *)
(* transpose's slices are the groups in ascending order, and               *)
(* hash_subgroup::pos finds the place of every vector of a label and       *)
(* answers -1 for every other, however probes collide or wrap around.      *)
(***************************************************************************)
THEOREM PositionsAlwaysFound == TablesSpec => []PositionsFound
<1>1. TablesInv => PositionsFound
  <2>1. SUFFICES ASSUME TablesInv PROVE PositionsFound
    OBVIOUS
  <2>2. RowsAre /\ MatrixInv /\ HashInv /\ IndicesInv /\ IndptrInv
    BY <2>1 DEF TablesInv, MatrixInv
  <2>3. ASSUME Transposed PROVE TablesTypeOK /\ SlicesAreGroups
    <3>1. Sliced /\ stage \in {"place", "insert", "ready"}
      BY <2>1, <2>3, Transposes DEF Transposed
    <3>2. /\ NumCols \in Nat /\ NumRows \in Nat /\ 0 \in 0 .. NumCols /\ NumCols \in 0 .. NumCols
          /\ \A f \in 0 .. NumCols : f \in Nat /\ f <= NumCols
      BY TablesConstants
    <3>3. /\ StartOf(0) = 0 /\ Nnz = StartOf(NumCols) /\ Nnz \in Nat
          /\ \A f \in 0 .. NumCols : StartOf(f) \in 0 .. Nnz
      <4>1. Nnz = StartOf(NumCols) /\ Nnz \in Nat
        BY <2>2, NnzIs
      <4>2. \A f \in 0 .. NumCols : StartOf(f) \in Nat /\ StartOf(f) <= StartOf(NumCols)
        BY <2>2, <3>2, SlicesFollow
      <4>. QED
        BY <2>2, <4>1, <4>2, SlicesFollow
    <3>4. SlicesAreGroups
      <4>1. \A f \in Cols : RowOf(f) = Sorted(Carrying(f))
        BY <2>2, <3>1, SlicesSorted
      <4>. QED
        BY <3>1, <3>2, <3>3, <4>1 DEF SlicesAreGroups, Sliced
    <3>5. row \in -1 .. NumRows + NumCols /\ label \in 0 .. NumCols
      <4>1. CASE stage = "place"
        BY <2>2, <3>2, <4>1 DEF IndptrInv, MatrixInv
      <4>2. CASE stage # "place"
        <5>1. label - 1 \in Cols /\ row \in 0 .. Len(RowOf(label - 1))
          BY <2>2, <3>1, <4>2, TablesConstants DEF HashInv, MatrixInv
        <5>2. Len(RowOf(label - 1)) \in 0 .. NumRows
          BY <2>2, <3>1, <5>1, SlicesSorted
        <5>. QED
          BY <2>2, <3>2, <5>1, <5>2 DEF MatrixInv
      <4>. QED
        BY <4>1, <4>2
    <3>6. indptr \in [0 .. NumCols -> 0 .. Nnz]
      <4>1. indptr \in [0 .. NumCols -> Nat] /\ \A f \in 0 .. NumCols : indptr[f] \in 0 .. Nnz
        BY <2>2, <3>1, <3>3 DEF IndptrInv, Sliced
      <4>. QED
        BY <4>1
    <3>7. \A k \in DOMAIN indices : indices[k] \in Rows \cup {-1}
      BY <2>2, <3>1 DEF IndicesInv
    <3>8. \A v \in Rows : rows[v] \in Seq(Cols)
      BY <2>2 DEF RowsAre
    <3>. QED
      BY <3>4, <3>5, <3>6, <3>7, <3>8 DEF TablesTypeOK
  <2>4. ASSUME stage = "ready", NEW f \in Cols, NEW v \in Rows, Carrying(f) # {}
        PROVE  PosIn(f, v) = IF v \in Carrying(f) THEN Cardinality(SmallerIn(Carrying(f), v)) ELSE -1
    <3>1. Sliced
      BY <2>1, <2>4, Transposes
    <3>2. PICK s : s = RowOf(f)
      OBVIOUS
    <3>3. PICK t : t = seen[f]
      OBVIOUS
    <3>4. PICK C : C = Capacity(f)
      OBVIOUS
    <3>5. /\ s \in Seq(Nat) /\ Members(s) = Carrying(f) /\ Distinct(s) /\ C \in Nat /\ Len(s) < C
          /\ \A w \in Carrying(f) : Rank(f, w) + 1 \in 1 .. Len(s) /\ s[Rank(f, w) + 1] = w
      BY <2>2, <2>4, <3>1, <3>2, <3>4, SlicesSorted
    <3>6. Holds(t, C, s, Len(s))
      <4>1. label = NumCols /\ row = Len(RowOf(label - 1)) /\ f \in 0 .. label - 1
        BY <2>2, <2>4, TablesConstants DEF HashInv
      <4>2. Filled(f) = Len(RowOf(f))
        BY <4>1 DEF Filled
      <4>. QED
        BY <2>2, <2>4, <3>2, <3>3, <3>4, <4>1, <4>2 DEF HashInv
    <3>7. v \in Nat
      BY TablesConstants
    <3> DEFINE r == LookupIn(t, C, s, v)
    <3>8. (v \notin Members(s) => r = -1) /\ \A k \in 1 .. Len(s) : s[k] = v => r = k - 1
      BY <3>5, <3>6, <3>7, LookupFinds
    <3>9. PosIn(f, v) = r
      <4>1. StopsIn(t, C, s, v) = Stops(f, v)
        BY <3>2, <3>3, <3>4 DEF StopsIn, Stops, Probe, ProbeIn, GetHash
      <4>2. r = t[ProbeIn(C, v, CHOOSE d \in Stops(f, v) : \A e \in Stops(f, v) : d <= e)]
        BY <4>1 DEF LookupIn
      <4>. QED
        BY <3>3, <3>4, <4>2 DEF PosIn, Probe, ProbeIn, GetHash
    <3> HIDE DEF r
    <3>10. CASE v \in Carrying(f)
      <4>1. r = (Rank(f, v) + 1) - 1 /\ Rank(f, v) + 1 \in 1 .. Len(s)
        BY <3>5, <3>8, <3>10
      <4>2. Rank(f, v) \in Nat
        <5>1. IsFiniteSet(SmallerIn(Carrying(f), v))
          <6>1. SmallerIn(Carrying(f), v) \in SUBSET Carrying(f)
            BY DEF SmallerIn
          <6>. QED
            BY <6>1, CarryingFinite, FS_Subset
        <5>. QED
          BY <5>1, FS_CardinalityType DEF Rank
      <4>. QED
        BY <3>9, <3>10, <4>1, <4>2 DEF Rank
    <3>11. CASE v \notin Carrying(f)
      BY <3>5, <3>8, <3>9, <3>11
    <3>. QED
      BY <3>10, <3>11
  <2>. QED
    BY <2>3, <2>4 DEF PositionsFound
<1>. QED
  BY <1>1, TablesInvHolds, PTL

\* ... and a row acts as the set of its labels: a merge counts the common labels of two
\* vectors, and a label is found if the vector has it.
THEOREM RowsAlwaysActAsSets == TablesSpec => []RowsActAsSets
<1>1. TablesInv => RowsActAsSets
  <2>1. SUFFICES ASSUME TablesInv, stage = "ready"
                 PROVE  /\ \A u, v \in Rows : Merged(rows[u], rows[v]) = Cardinality(Carries(u) \cap Carries(v))
                        /\ \A v \in Rows, f \in Cols : Contains(rows[v], f) <=> f \in Carries(v)
    BY DEF RowsActAsSets
  <2>2. RowsAre /\ \A v \in Rows : Climbs(rows[v])
    BY <2>1 DEF TablesInv, MatrixInv
  <2>3. 0 \in Cols
    BY TablesConstants
  <2>. QED
    BY <2>2, <2>3, RowsAsSets
<1>. QED
  BY <1>1, TablesInvHolds, PTL
=============================================================================
