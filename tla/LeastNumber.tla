---------------------------- MODULE LeastNumber ----------------------------
(***************************************************************************)
(* The least-number principle for sets of naturals, in a form without an   *)
(* operator parameter.  The proofs use it for what would otherwise need    *)
(* induction: a least counterexample, or the first position of a scan.     *)
(***************************************************************************)
EXTENDS Integers, WellFoundedInduction, TLAPS

\* Every non-empty set of naturals has a least element: the scans of pqueue.hpp stop.
LEMMA LeastNat ==
  ASSUME NEW T \in SUBSET Nat, T # {}
  PROVE  \E m \in T : \A k \in T : m <= k
<1> DEFINE R == OpToRel(<, Nat)
<1>1. IsWellFoundedOn(R, Nat)
  BY NatLessThanWellFounded
<1>2. \A a, b \in Nat : <<a, b>> \in R <=> a < b
  BY DEF OpToRel
<1> HIDE DEF R
<1>3. PICK m \in T : \A k \in T : ~ (<<k, m>> \in R)
  BY <1>1, WFMin
<1>4. ASSUME NEW k \in T
      PROVE  m <= k
  <2>1. k \in Nat /\ m \in Nat
    OBVIOUS
  <2>2. ~ (k < m)
    BY <1>2, <1>3, <2>1
  <2>. QED
    BY <2>1, <2>2
<1>. QED
  BY <1>4

\* Counting up: a set with 0 that has the next number too, up to n, has all up to n.
LEMMA CountUp ==
  ASSUME NEW n \in Nat, NEW T, 0 \in T, \A k \in 1 .. n : k - 1 \in T => k \in T
  PROVE  \A k \in 0 .. n : k \in T
<1> DEFINE U == {k \in 0 .. n : k \notin T}
<1>1. SUFFICES ASSUME U # {} PROVE FALSE
  OBVIOUS
<1>2. U \in SUBSET Nat
  OBVIOUS
<1>3. PICK m \in U : \A k \in U : m <= k
  BY <1>1, <1>2, LeastNat
<1>4. m \in 1 .. n /\ m - 1 \in 0 .. n /\ ~ (m <= m - 1)
  OBVIOUS
<1>5. m - 1 \in T
  BY <1>3, <1>4
<1>. QED
  BY <1>3, <1>4, <1>5

\* ... in particular n: the result of a loop of n turns.
LEMMA CountUpTo ==
  ASSUME NEW n \in Nat, NEW T, 0 \in T, \A k \in 1 .. n : k - 1 \in T => k \in T
  PROVE  n \in T
<1>1. \A k \in 0 .. n : k \in T
  BY CountUp
<1>. QED
  BY <1>1

\* A loop that starts with a and in turn k makes F[<<k, v>>] of what it has, v.
Loops(g, n, a, F) == g[0] = a /\ \A k \in 1 .. n : g[k] = F[<<k, g[k - 1]>>]

\* The recursive function that such a loop is exists, and stays within S.
LEMMA LoopExists ==
  ASSUME NEW n \in Nat, NEW S, NEW a \in S, NEW F \in [(1 .. n) \X S -> S]
  PROVE  \E g \in [0 .. n -> S] : Loops(g, n, a, F)
<1> DEFINE T == {m \in Nat : m <= n => \E g \in [0 .. m -> S] : Loops(g, m, a, F)}
<1>1. 0 \in T
  <2>1. [k \in 0 .. 0 |-> a] \in [0 .. 0 -> S] /\ Loops([k \in 0 .. 0 |-> a], 0, a, F)
    BY DEF Loops
  <2>. QED
    BY <2>1
<1>2. ASSUME NEW m \in 1 .. n, m - 1 \in T PROVE m \in T
  <2>1. PICK f \in [0 .. m - 1 -> S] : Loops(f, m - 1, a, F)
    BY <1>2
  <2> DEFINE g == [k \in 0 .. m |-> IF k = m THEN F[<<m, f[m - 1]>>] ELSE f[k]]
  <2>2. F[<<m, f[m - 1]>>] \in S
    BY <2>1
  <2>3. g \in [0 .. m -> S] /\ g[m] = F[<<m, f[m - 1]>>] /\ \A k \in 0 .. m - 1 : g[k] = f[k]
    BY <2>1, <2>2
  <2> HIDE DEF g
  <2>4. g[0] = a
    BY <2>1, <2>3 DEF Loops
  <2>5. ASSUME NEW k \in 1 .. m PROVE g[k] = F[<<k, g[k - 1]>>]
    <3>1. k - 1 \in 0 .. m - 1 /\ (k # m => k \in 0 .. m - 1 /\ k \in 1 .. m - 1)
      OBVIOUS
    <3>2. CASE k = m
      BY <2>3, <3>1, <3>2
    <3>3. CASE k # m
      BY <2>1, <2>3, <3>1, <3>3 DEF Loops
    <3>. QED
      BY <3>2, <3>3
  <2>6. Loops(g, m, a, F)
    BY <2>4, <2>5 DEF Loops
  <2>. QED
    BY <2>3, <2>6
<1> HIDE DEF T
<1>3. n \in T
  BY <1>1, <1>2, CountUpTo
<1>. QED
  BY <1>3 DEF T

\* ... and so does the one that never ends.
Recurs(g, a, F) == g[0] = a /\ \A k \in Nat \ {0} : g[k] = F[<<k, g[k - 1]>>]

LEMMA RecursionExists ==
  ASSUME NEW S, NEW a \in S, NEW F \in [Nat \X S -> S]
  PROVE  \E g \in [Nat -> S] : Recurs(g, a, F)
<1>0. \A k \in Nat \ {0}, v \in S : F[<<k, v>>] \in S
  OBVIOUS
<1> DEFINE H(n) == {h \in [0 .. n -> S] : Loops(h, n, a, F)}
           g == [n \in Nat |-> (CHOOSE h : h \in H(n))[n]]
<1>1. ASSUME NEW n \in Nat PROVE \E h : h \in H(n)
  <2> DEFINE G == [p \in (1 .. n) \X S |-> F[p]]
  <2>1. \A k \in 1 .. n, v \in S : F[<<k, v>>] \in S
    <3>1. \A k \in 1 .. n : k \in Nat \ {0}
      OBVIOUS
    <3>. QED
      BY <1>0, <3>1, Zenon
  <2>2. G \in [(1 .. n) \X S -> S] /\ \A k \in 1 .. n, v \in S : G[<<k, v>>] = F[<<k, v>>]
    BY <2>1
  <2> HIDE DEF G
  <2>3. PICK h \in [0 .. n -> S] : Loops(h, n, a, G)
    BY <2>2, LoopExists
  <2>4. \A k \in 1 .. n : h[k - 1] \in S
    BY <2>3
  <2>5. Loops(h, n, a, F)
    BY <2>2, <2>3, <2>4 DEF Loops
  <2>. QED
    BY <2>5
<1>2. ASSUME NEW n \in Nat, NEW h \in H(n), NEW m \in 0 .. n, NEW k \in H(m)
      PROVE  h[m] = k[m]
  <2> DEFINE T == {x \in Nat : x <= m => h[x] = k[x]}
  <2>1. /\ h[0] = a /\ k[0] = a
        /\ \A x \in 1 .. n : h[x] = F[<<x, h[x - 1]>>]
        /\ \A x \in 1 .. m : k[x] = F[<<x, k[x - 1]>>]
    BY DEF Loops
  <2>2. 0 \in T
    BY <2>1
  <2>3. ASSUME NEW x \in 1 .. m, x - 1 \in T PROVE x \in T
    <3>1. x \in 1 .. n /\ x - 1 <= m /\ x - 1 \in Nat
      OBVIOUS
    <3>2. h[x - 1] = k[x - 1]
      BY <2>3, <3>1
    <3>3. h[x] = F[<<x, h[x - 1]>>] /\ k[x] = F[<<x, k[x - 1]>>]
      BY <2>1, <3>1
    <3>4. h[x] = k[x] /\ x \in Nat
      BY <3>2, <3>3
    <3>. QED
      BY <3>4
  <2> HIDE DEF T, H
  <2>4. m \in T
    BY <2>2, <2>3, CountUpTo
  <2>. QED
    BY <2>4 DEF T
<1>3. ASSUME NEW n \in Nat PROVE (CHOOSE h : h \in H(n)) \in H(n)
  <2> HIDE DEF H
  <2>. QED
    BY <1>1
<1>4. \A n \in Nat : g[n] = (CHOOSE h : h \in H(n))[n]
  OBVIOUS
<1>5. g[0] = a
  <2>1. \A h \in H(0) : h[0] = a
    BY DEF Loops
  <2> HIDE DEF H, g
  <2>. QED
    BY <1>3, <1>4, <2>1
<1>6. ASSUME NEW n \in Nat \ {0} PROVE g[n] = F[<<n, g[n - 1]>>]
  <2>1. n - 1 \in Nat /\ n - 1 \in 0 .. n /\ n \in 1 .. n
    OBVIOUS
  <2>2. PICK h : h = CHOOSE x : x \in H(n)
    OBVIOUS
  <2>3. PICK k : k = CHOOSE x : x \in H(n - 1)
    OBVIOUS
  <2>4. \A x \in H(n) : x[n] = F[<<n, x[n - 1]>>]
    BY <2>1 DEF Loops
  <2> HIDE DEF H, g
  <2>5. h \in H(n) /\ k \in H(n - 1)
    BY <1>3, <2>1, <2>2, <2>3
  <2>6. h[n - 1] = k[n - 1]
    BY <1>2, <2>1, <2>5
  <2>7. g[n] = h[n] /\ g[n - 1] = k[n - 1]
    BY <1>4, <2>1, <2>2, <2>3
  <2>. QED
    BY <2>4, <2>5, <2>6, <2>7
<1>7. ASSUME NEW n \in Nat PROVE g[n] \in S
  <2>1. \A h \in H(n) : h[n] \in S
    OBVIOUS
  <2> HIDE DEF H, g
  <2>. QED
    BY <1>3, <1>4, <2>1
<1>8. g \in [Nat -> S]
  <2>1. g = [n \in Nat |-> g[n]]
    OBVIOUS
  <2> HIDE DEF g
  <2>. QED
    BY <1>7, <2>1
<1> HIDE DEF g
<1>. QED
  BY <1>5, <1>6, <1>8 DEF Recurs

\* The powers of two.
LEMMA PowersExist ==
  ASSUME NEW P, P = CHOOSE h : h = [k \in Nat |-> IF k = 0 THEN 1 ELSE 2 * h[k - 1]]
  PROVE  /\ P[0] = 1 /\ \A k \in Nat : P[k + 1] = 2 * P[k]
         /\ \A k \in Nat : P[k] \in Nat /\ P[k] > k
<1> DEFINE F == [p \in Nat \X Nat |-> 2 * p[2]]
           Rec(h) == h = [k \in Nat |-> IF k = 0 THEN 1 ELSE 2 * h[k - 1]]
<1>1. /\ F \in [Nat \X Nat -> Nat]
      /\ \A k \in Nat \ {0}, x \in Nat : F[<<k, x>>] = 2 * x
  OBVIOUS
<1> HIDE DEF F
<1>2. PICK g \in [Nat -> Nat] : g[0] = 1 /\ \A k \in Nat \ {0} : g[k] = F[<<k, g[k - 1]>>]
  <2>1. 1 \in Nat
    OBVIOUS
  <2>2. \E g \in [Nat -> Nat] : Recurs(g, 1, F)
    BY <1>1, <2>1, RecursionExists
  <2>. QED
    BY <2>2 DEF Recurs
<1>3. \A k \in Nat : g[k] = IF k = 0 THEN 1 ELSE 2 * g[k - 1]
  <2>1. \A k \in Nat \ {0} : k - 1 \in Nat /\ g[k - 1] \in Nat
    OBVIOUS
  <2>2. \A k \in Nat \ {0} : g[k] = 2 * g[k - 1]
    BY <1>1, <1>2, <2>1, Zenon
  <2>. QED
    BY <1>2, <2>2
<1>4. Rec(g)
  <2>1. g = [k \in Nat |-> g[k]]
    OBVIOUS
  <2>. QED
    BY <1>3, <2>1
<1>5. Rec(P)
  <2> HIDE DEF Rec
  <2>1. P = CHOOSE h : Rec(h)
    BY DEF Rec
  <2>. QED
    BY <1>4, <2>1
<1>6. \A k \in Nat : P[k] = IF k = 0 THEN 1 ELSE 2 * P[k - 1]
  BY <1>5
<1> HIDE DEF Rec
<1>7. P[0] = 1
  BY <1>6
<1>8. ASSUME NEW k \in Nat PROVE P[k + 1] = 2 * P[k]
  <2>1. k + 1 \in Nat /\ k + 1 # 0 /\ (k + 1) - 1 = k
    OBVIOUS
  <2>. QED
    BY <1>6, <2>1
<1>9. ASSUME NEW n \in Nat PROVE P[n] \in Nat /\ P[n] > n
  <2> DEFINE T == {k \in Nat : P[k] \in Nat /\ P[k] > k}
  <2>1. 0 \in T
    BY <1>7
  <2>2. ASSUME NEW k \in 1 .. n, k - 1 \in T PROVE k \in T
    <3>1. k - 1 \in Nat /\ (k - 1) + 1 = k /\ k \in Nat
      OBVIOUS
    <3>2. P[k] = 2 * P[k - 1] /\ P[k - 1] \in Nat /\ P[k - 1] > k - 1
      BY <1>8, <2>2, <3>1
    <3>3. P[k] \in Nat /\ P[k] > k
      BY <3>1, <3>2
    <3>. QED
      BY <3>1, <3>3
  <2> HIDE DEF T
  <2>3. n \in T
    BY <2>1, <2>2, CountUpTo
  <2>. QED
    BY <2>3 DEF T
<1>. QED
  BY <1>7, <1>8, <1>9

\* Every positive number has a logarithm, rounded down.
LEMMA LogarithmExists ==
  ASSUME NEW P, P[0] = 1, \A k \in Nat : P[k + 1] = 2 * P[k], \A k \in Nat : P[k] \in Nat /\ P[k] > k,
         NEW n \in Nat \ {0}
  PROVE  \E e \in 0 .. n : P[e] <= n /\ n < P[e + 1]
<1> DEFINE T == {e \in 0 .. n : n < P[e + 1]}
<1>1. n \in T
  <2>1. n + 1 \in Nat
    OBVIOUS
  <2>2. P[n + 1] > n + 1 /\ P[n + 1] \in Nat
    BY <2>1
  <2>. QED
    BY <2>2
<1>2. T \in SUBSET Nat /\ T # {}
  <2>1. \A e \in 0 .. n : e \in Nat
    OBVIOUS
  <2>. QED
    BY <1>1, <2>1
<1>3. PICK e \in T : \A k \in T : e <= k
  <2> HIDE DEF T
  <2>. QED
    BY <1>2, LeastNat
<1>4. P[e] <= n
  <2>1. CASE e = 0
    BY <2>1
  <2>2. CASE e # 0
    <3>1. e - 1 \in 0 .. n /\ ~ (e <= e - 1) /\ (e - 1) + 1 = e /\ e \in Nat
      BY <2>2
    <3>2. ~ (n < P[e])
      BY <1>3, <3>1
    <3>3. P[e] \in Nat
      BY <3>1
    <3>. QED
      BY <3>2, <3>3
  <2>. QED
    BY <2>1, <2>2
<1>. QED
  BY <1>4

LEMMA PowersMonotone ==
  ASSUME NEW P, \A k \in Nat : P[k + 1] = 2 * P[k], \A k \in Nat : P[k] \in Nat
  PROVE  \A k, l \in Nat : k <= l => P[k] <= P[l]
<1>1. SUFFICES ASSUME NEW k \in Nat, NEW l \in Nat, k <= l PROVE P[k] <= P[l]
  OBVIOUS
<1> DEFINE T == {x \in Nat : P[k] <= P[k + x]}
<1>2. 0 \in T
  <2>1. k + 0 = k /\ P[k] \in Nat
    OBVIOUS
  <2>. QED
    BY <2>1
<1>3. ASSUME NEW x \in 1 .. l - k, x - 1 \in T PROVE x \in T
  <2>1. k + (x - 1) \in Nat /\ (k + (x - 1)) + 1 = k + x /\ x \in Nat
    OBVIOUS
  <2>2. P[k + x] = 2 * P[k + (x - 1)] /\ P[k + (x - 1)] \in Nat /\ P[k] \in Nat /\ P[k] <= P[k + (x - 1)]
    BY <1>3, <2>1
  <2>3. P[k] <= P[k + x]
    BY <2>2
  <2>. QED
    BY <2>1, <2>3
<1> HIDE DEF T
<1>4. l - k \in Nat
  BY <1>1
<1>5. l - k \in T
  BY <1>2, <1>3, <1>4, CountUpTo
<1>6. k + (l - k) = l
  OBVIOUS
<1>. QED
  BY <1>5, <1>6 DEF T
=============================================================================
