------------------------- MODULE HybridBuildProofs -------------------------
(***************************************************************************)
(* Safety of HybridBuild, for every number of vectors, assignment of       *)
(* labels, insertion order, distances, degrees, beam width and schedule.   *)
(*                                                                         *)
(* The first part is about its operators: what the loops over edge lists   *)
(* return, for lists of any length.  A loop is a recursive function on the *)
(* number of turns; that such a function exists, and what holds of its     *)
(* values, is shown by counting up the turns.                              *)
(*                                                                         *)
(* The second part is the invariant of the construction.  The last part is *)
(* about BuildReference: an insertion among others does, turn by turn,     *)
(* what it would do alone.                                                 *)
(***************************************************************************)
EXTENDS BuildReference, FiniteSetTheorems, LeastNumber

\* The queue's lemmas, with any vector as a candidate.
QP == INSTANCE PQueueProofs WITH Vid <- V, DistOf <- [v \in V |-> 0], pushed <- {}, opened <- {}

\* The fields of an edge of `single'.
LEMMA PairFields ==
  ASSUME NEW A, NEW B, NEW e \in A \X B
  PROVE  e = <<e[1], e[2]>> /\ e[1] \in A /\ e[2] \in B /\ DOMAIN e = 1 .. 2 /\ Len(e) = 2
OBVIOUS

\* The fields of an edge of `shared'.
LEMMA TripleFields ==
  ASSUME NEW A, NEW B, NEW C, NEW e \in A \X B \X C
  PROVE  /\ e = <<e[1], e[2], e[3]>> /\ e[1] \in A /\ e[2] \in B /\ e[3] \in C
         /\ DOMAIN e = 1 .. 3 /\ Len(e) = 3
OBVIOUS

\* The lexicographic order of the entries is strict and total.
StrictOrder(E) ==
    /\ \A a, b \in E : a # b => Before(a, b) \/ Before(b, a)
    /\ \A a \in E : ~ Before(a, a)
    /\ \A a, b, c \in E : Before(a, b) /\ Before(b, c) => Before(a, c)

\* The entries of a list of `single' are totally ordered.
LEMMA PairsOrdered == \A E \in SUBSET (Nat \X V) : StrictOrder(E)
<1> SUFFICES ASSUME NEW E \in SUBSET (Nat \X V) PROVE StrictOrder(E)
  OBVIOUS
<1>0. V \subseteq Nat
  BY BuildAssumption DEF V
<1>1. ASSUME NEW e \in E
      PROVE  e[1] \in Nat /\ e[2] \in Nat /\ e = <<e[1], e[2]>> /\ DOMAIN e = 1 .. 2
  <2>1. e \in Nat \X V
    OBVIOUS
  <2>2. e[1] \in Nat /\ e[2] \in V /\ e = <<e[1], e[2]>> /\ DOMAIN e = 1 .. 2
    BY <2>1, PairFields
  <2>. QED
    BY <1>0, <2>2
<1>2. ASSUME NEW e \in E, NEW d \in E
      PROVE  Before(e, d) <=> e[1] < d[1] \/ (e[1] = d[1] /\ e[2] < d[2])
  <2>1. DOMAIN e = 1 .. 2
    BY <1>1
  <2>2. Before(e, d) <=> \E k \in 1 .. 2 : e[k] < d[k] /\ \A j \in 1 .. k - 1 : e[j] = d[j]
    BY <2>1 DEF Before
  <2>. QED
    BY <2>2
<1>. QED
  BY <1>1, <1>2 DEF StrictOrder

\* The entries of a list of `shared' are totally ordered.
LEMMA TriplesOrdered == \A E \in SUBSET (Nat \X Nat \X V) : StrictOrder(E)
<1> SUFFICES ASSUME NEW E \in SUBSET (Nat \X Nat \X V) PROVE StrictOrder(E)
  OBVIOUS
<1>0. V \subseteq Nat
  BY BuildAssumption DEF V
<1>1. ASSUME NEW e \in E
      PROVE  /\ e[1] \in Nat /\ e[2] \in Nat /\ e[3] \in Nat
             /\ e = <<e[1], e[2], e[3]>> /\ DOMAIN e = 1 .. 3
  <2>1. e \in Nat \X Nat \X V
    OBVIOUS
  <2>2. /\ e[1] \in Nat /\ e[2] \in Nat /\ e[3] \in V
        /\ e = <<e[1], e[2], e[3]>> /\ DOMAIN e = 1 .. 3
    BY <2>1, TripleFields
  <2>. QED
    BY <1>0, <2>2
<1>2. ASSUME NEW e \in E, NEW d \in E
      PROVE  Before(e, d) <=> \/ e[1] < d[1]
                              \/ e[1] = d[1] /\ e[2] < d[2]
                              \/ e[1] = d[1] /\ e[2] = d[2] /\ e[3] < d[3]
  <2>1. DOMAIN e = 1 .. 3
    BY <1>1
  <2>2. Before(e, d) <=> \E k \in 1 .. 3 : e[k] < d[k] /\ \A j \in 1 .. k - 1 : e[j] = d[j]
    BY <2>1 DEF Before
  <2>. QED
    BY <2>2
<1>. QED
  BY <1>1, <1>2 DEF StrictOrder

\* sort() yields a list of the same length and of entries of the list: no two positions
\* have the same place, so every place is taken.
LEMMA SortedFacts ==
  ASSUME NEW E, StrictOrder(E), NEW list \in Seq(E)
  PROVE  Sorted(list) \in Seq(E) /\ Len(Sorted(list)) = Len(list)
<1> DEFINE n == Len(list)
           Under(i) == {j \in 1 .. n : Before(list[j], list[i]) \/ (list[j] = list[i] /\ j <= i)}
<1>1. n \in Nat /\ DOMAIN list = 1 .. n /\ \A i \in 1 .. n : list[i] \in E
  OBVIOUS
<1> HIDE DEF n
<1>2. \A i \in 1 .. n : PlaceOf(list, i) = Cardinality(Under(i))
  BY <1>1 DEF PlaceOf
<1>3. IsFiniteSet(1 .. n) /\ Cardinality(1 .. n) = n
  BY <1>1, FS_Interval
<1>4. ASSUME NEW i \in 1 .. n
      PROVE  IsFiniteSet(Under(i)) /\ Cardinality(Under(i)) \in 1 .. n
  <2>1. Under(i) \in SUBSET (1 .. n) /\ i \in Under(i)
    BY <1>1
  <2> HIDE DEF Under
  <2>2. IsFiniteSet(Under(i)) /\ Cardinality(Under(i)) <= n
    BY <1>3, <2>1, FS_Subset
  <2>3. Cardinality(Under(i)) \in Nat /\ Cardinality(Under(i)) # 0
    BY <2>1, <2>2, FS_CardinalityType, FS_EmptySet
  <2>. QED
    BY <1>1, <2>2, <2>3
<1>5. ASSUME NEW i \in 1 .. n, NEW j \in 1 .. n, i # j,
             Before(list[i], list[j]) \/ (list[i] = list[j] /\ i < j)
      PROVE  Cardinality(Under(i)) # Cardinality(Under(j))
  <2>1. list[i] \in E /\ list[j] \in E
    BY <1>1
  <2>2. Under(i) \subseteq Under(j)
    <3>1. SUFFICES ASSUME NEW k \in 1 .. n, Before(list[k], list[i]) \/ (list[k] = list[i] /\ k <= i)
                   PROVE  Before(list[k], list[j]) \/ (list[k] = list[j] /\ k <= j)
      OBVIOUS
    <3>2. list[k] \in E
      BY <1>1
    <3>3. CASE Before(list[k], list[i])
      BY <1>5, <2>1, <3>2, <3>3 DEF StrictOrder
    <3>4. CASE list[k] = list[i] /\ k <= i
      BY <1>1, <1>5, <3>4
    <3>. QED
      BY <3>1, <3>3, <3>4
  <2>3. j \in Under(j)
    BY <1>1
  <2>4. j \notin Under(i)
    <3>1. SUFFICES ASSUME Before(list[j], list[i]) \/ (list[j] = list[i] /\ j <= i) PROVE FALSE
      OBVIOUS
    <3>2. CASE Before(list[j], list[i])
      BY <1>5, <2>1, <3>2 DEF StrictOrder
    <3>3. CASE list[j] = list[i] /\ j <= i
      BY <1>1, <1>5, <2>1, <3>3 DEF StrictOrder
    <3>. QED
      BY <3>1, <3>2, <3>3
  <2>5. IsFiniteSet(Under(j))
    BY <1>4
  <2> HIDE DEF Under
  <2>. QED
    BY <2>2, <2>3, <2>4, <2>5, FS_Subset
<1>6. \A i, j \in 1 .. n : i # j => Cardinality(Under(i)) # Cardinality(Under(j))
  <2> SUFFICES ASSUME NEW i \in 1 .. n, NEW j \in 1 .. n, i # j
               PROVE  Cardinality(Under(i)) # Cardinality(Under(j))
    OBVIOUS
  <2>1. \/ Before(list[i], list[j]) \/ (list[i] = list[j] /\ i < j)
        \/ Before(list[j], list[i]) \/ (list[j] = list[i] /\ j < i)
    BY <1>1 DEF StrictOrder
  <2> HIDE DEF Under
  <2>. QED
    BY <1>5, <2>1
<1> DEFINE place == [i \in 1 .. n |-> Cardinality(Under(i))]
<1>7. place \in Injection(1 .. n, 1 .. n)
  <2> HIDE DEF Under
  <2>. QED
    BY <1>4, <1>6 DEF Injection, IsInjective
<1>8. place \in Surjection(1 .. n, 1 .. n)
  <2> HIDE DEF place
  <2>. QED
    BY <1>3, <1>7, FS_Injection
<1>9. \A k \in 1 .. n : \E i \in 1 .. n : PlaceOf(list, i) = k
  <2> HIDE DEF Under
  <2>. QED
    BY <1>2, <1>8 DEF Surjection
<1>10. \A k \in 1 .. n : (CHOOSE i \in 1 .. n : PlaceOf(list, i) = k) \in 1 .. n
  BY <1>9
<1>11. Sorted(list) = [k \in 1 .. n |-> list[CHOOSE i \in 1 .. n : PlaceOf(list, i) = k]]
  BY <1>1 DEF Sorted
<1>12. Sorted(list) \in [1 .. n -> E]
  BY <1>1, <1>10, <1>11
<1>. QED
  BY <1>1, <1>12 DEF n
-----------------------------------------------------------------------------
\* A pass of prune_shared and prune_single keeps entries of the candidates only, and no
\* more than the bound.
LEMMA PassFacts ==
  ASSUME NEW E, NEW cand \in Seq(E), NEW kept \in Seq(E), NEW bound \in Nat, Len(kept) <= bound,
         NEW others, NEW num, NEW den
  PROVE  /\ Pass(cand, bound, others, num, den, kept) \in Seq(E)
         /\ Len(Pass(cand, bound, others, num, den, kept)) <= bound
<1> DEFINE Turn(ks, e) ==
             IF \/ Len(ks) = bound
                \/ \E w \in others \cup Ends(ks) : num * Dist[w][Target(e)] <= den * e[1]
             THEN ks ELSE Append(ks, e)
           n == Len(cand)
           taken[k \in 0 .. Len(cand)] == IF k = 0 THEN kept ELSE Turn(taken[k - 1], cand[k])
<1>1. Pass(cand, bound, others, num, den, kept) = taken[n]
  BY DEF Pass
<1> HIDE DEF Turn
<1>0. n \in Nat /\ \A k \in 1 .. n : cand[k] \in E
  OBVIOUS
<1>2. \E g : g = [k \in 0 .. n |-> IF k = 0 THEN kept ELSE Turn(g[k - 1], cand[k])]
  <2> DEFINE Rec(g, m) == g = [k \in 0 .. m |-> IF k = 0 THEN kept ELSE Turn(g[k - 1], cand[k])]
             T == {m \in 0 .. n : \E g : Rec(g, m)}
  <2> HIDE DEF n
  <2>1. 0 \in T
    <3>1. Rec([k \in 0 .. 0 |-> kept], 0)
      OBVIOUS
    <3> HIDE DEF Rec
    <3>. QED
      BY <1>0, <3>1
  <2>2. ASSUME NEW m \in 1 .. n, m - 1 \in T PROVE m \in T
    <3>1. PICK g : Rec(g, m - 1)
      BY <2>2
    <3> DEFINE h == [k \in 0 .. m |-> IF k = m THEN Turn(g[m - 1], cand[m]) ELSE g[k]]
    <3>2. Rec(h, m)
      BY <1>0, <3>1
    <3> HIDE DEF Rec, h
    <3>. QED
      BY <1>0, <3>2
  <2>3. \A m \in 1 .. n : m - 1 \in T => m \in T
    BY <2>2
  <2> HIDE DEF T
  <2>4. n \in T
    BY <1>0, <2>1, <2>3, CountUpTo
  <2>. QED
    BY <2>4 DEF T
<1>3. \A k \in 0 .. n : taken[k] = IF k = 0 THEN kept ELSE Turn(taken[k - 1], cand[k])
  BY <1>2
<1> HIDE DEF taken, n
<1>4. ASSUME NEW ks \in Seq(E), Len(ks) <= bound, NEW e \in E
      PROVE  Turn(ks, e) \in Seq(E) /\ Len(Turn(ks, e)) <= bound
  BY <1>4 DEF Turn
<1> DEFINE T == {k \in 0 .. n : taken[k] \in Seq(E) /\ Len(taken[k]) <= bound}
<1>5. 0 \in T
  BY <1>0, <1>3
<1>6. ASSUME NEW k \in 1 .. n, k - 1 \in T PROVE k \in T
  <2>1. taken[k] = Turn(taken[k - 1], cand[k])
    BY <1>0, <1>3
  <2>2. taken[k - 1] \in Seq(E) /\ Len(taken[k - 1]) <= bound /\ cand[k] \in E
    BY <1>0, <1>6
  <2>3. taken[k] \in Seq(E) /\ Len(taken[k]) <= bound
    BY <1>4, <2>1, <2>2
  <2>. QED
    BY <1>0, <2>3
<1> HIDE DEF T
<1>7. n \in T
  BY <1>0, <1>5, <1>6, CountUpTo
<1>. QED
  BY <1>1, <1>7 DEF T

\* prune_shared and prune_single leave entries of the list only, no more than the degree.
LEMMA PruneFacts ==
  ASSUME NEW E, StrictOrder(E), NEW list \in Seq(E), NEW bound \in Nat, NEW others
  PROVE  /\ PruneTo(list, bound, others) \in Seq(E)
         /\ Len(PruneTo(list, bound, others)) <= bound
<1> DEFINE cand == Sorted(list)
           once == Pass(cand, bound, others, 1, 1, <<>>)
           twice == Pass(cand, bound, others, AlphaNum, AlphaDen, once)
<1>1. PruneTo(list, bound, others) = IF Len(list) <= bound THEN list ELSE twice
  BY DEF PruneTo
<1>2. cand \in Seq(E)
  BY SortedFacts
<1>3. <<>> \in Seq(E) /\ Len(<<>>) <= bound
  OBVIOUS
<1> HIDE DEF cand
<1>4. once \in Seq(E) /\ Len(once) <= bound
  BY <1>2, <1>3, PassFacts
<1> HIDE DEF once
<1>5. twice \in Seq(E) /\ Len(twice) <= bound
  BY <1>2, <1>4, PassFacts
<1> HIDE DEF twice
<1>. QED
  BY <1>1, <1>5

\* The vectors a scan finds new are ends of entries it does not pass over.
LEMMA FreshFacts ==
  ASSUME NEW X, NEW filter, NEW ok, NEW list, Len(list) \in Nat,
         \A k \in 1 .. Len(list) : k \in ok => Target(list[k]) \in X
  PROVE  Fresh(filter, list, ok).new \in Seq(X)
<1> DEFINE Turn(r, k) ==
             IF k \in ok /\ ~ Contains(r.filter, Target(list[k]))
             THEN [filter |-> Remember(r.filter, Target(list[k])),
                   new |-> Append(r.new, Target(list[k]))]
             ELSE r
           n == Len(list)
           none == [filter |-> filter, new |-> <<>>]
           seen[k \in 0 .. Len(list)] == IF k = 0 THEN none ELSE Turn(seen[k - 1], k)
<1>1. Fresh(filter, list, ok) = seen[n]
  BY DEF Fresh
<1> HIDE DEF Turn
<1>2. n \in Nat /\ \A k \in 1 .. n : k \in ok => Target(list[k]) \in X
  OBVIOUS
<1>3. \E g : g = [k \in 0 .. n |-> IF k = 0 THEN none ELSE Turn(g[k - 1], k)]
  <2> DEFINE Rec(g, m) == g = [k \in 0 .. m |-> IF k = 0 THEN none ELSE Turn(g[k - 1], k)]
             T == {m \in 0 .. n : \E g : Rec(g, m)}
  <2> HIDE DEF n, none
  <2>1. 0 \in T
    <3>1. Rec([k \in 0 .. 0 |-> none], 0)
      OBVIOUS
    <3> HIDE DEF Rec
    <3>. QED
      BY <1>2, <3>1
  <2>2. ASSUME NEW m \in 1 .. n, m - 1 \in T PROVE m \in T
    <3>1. PICK g : Rec(g, m - 1)
      BY <2>2
    <3> DEFINE h == [k \in 0 .. m |-> IF k = m THEN Turn(g[m - 1], m) ELSE g[k]]
    <3>2. Rec(h, m)
      BY <1>2, <3>1
    <3> HIDE DEF Rec, h
    <3>. QED
      BY <1>2, <3>2
  <2>3. \A m \in 1 .. n : m - 1 \in T => m \in T
    BY <2>2
  <2> HIDE DEF T
  <2>4. n \in T
    BY <1>2, <2>1, <2>3, CountUpTo
  <2>. QED
    BY <2>4 DEF T
<1>4. \A k \in 0 .. n : seen[k] = IF k = 0 THEN none ELSE Turn(seen[k - 1], k)
  BY <1>3
<1> HIDE DEF seen, n
<1>5. ASSUME NEW r, r.new \in Seq(X), NEW k \in 1 .. n
      PROVE  Turn(r, k).new \in Seq(X)
  BY <1>2, <1>5 DEF Turn
<1> DEFINE T == {k \in 0 .. n : seen[k].new \in Seq(X)}
<1>6. 0 \in T
  <2>1. seen[0] = none
    BY <1>2, <1>4
  <2>2. seen[0].new \in Seq(X)
    BY <2>1
  <2>. QED
    BY <1>2, <2>2
<1>7. ASSUME NEW k \in 1 .. n, k - 1 \in T PROVE k \in T
  <2>1. seen[k] = Turn(seen[k - 1], k)
    BY <1>2, <1>4
  <2>2. seen[k - 1].new \in Seq(X)
    BY <1>7
  <2>3. seen[k].new \in Seq(X)
    BY <1>5, <2>1, <2>2
  <2>. QED
    BY <1>2, <2>3
<1> HIDE DEF T
<1>8. n \in T
  BY <1>2, <1>6, <1>7, CountUpTo
<1>. QED
  BY <1>1, <1>8 DEF T

\* The edge that Turned makes of an edge to v.
Bent(e, u) == [e EXCEPT ![Len(e)] = u]

\* Reversing the edges of u puts on the list of v what leads to v, and nothing if none does.
LEMMA TurnedFacts ==
  ASSUME NEW E, NEW F, NEW v, NEW u, NEW list \in Seq(E),
         \A e \in E : Target(e) = v => Bent(e, u) \in F
  PROVE  /\ Turned(list, v, u) \in Seq(F)
         /\ v \notin Ends(list) => Turned(list, v, u) = <<>>
<1> DEFINE Turn(b, e) == IF Target(e) = v THEN Append(b, Bent(e, u)) ELSE b
           n == Len(list)
           back[k \in 0 .. Len(list)] == IF k = 0 THEN <<>> ELSE Turn(back[k - 1], list[k])
<1>1. Turned(list, v, u) = back[n]
  BY DEF Turned, Bent
<1> HIDE DEF Turn
<1>2. n \in Nat /\ DOMAIN list = 1 .. n /\ \A k \in 1 .. n : list[k] \in E
  OBVIOUS
<1>3. \E g : g = [k \in 0 .. n |-> IF k = 0 THEN <<>> ELSE Turn(g[k - 1], list[k])]
  <2> DEFINE Rec(g, m) == g = [k \in 0 .. m |-> IF k = 0 THEN <<>> ELSE Turn(g[k - 1], list[k])]
             T == {m \in 0 .. n : \E g : Rec(g, m)}
  <2> HIDE DEF n
  <2>1. 0 \in T
    <3>1. Rec([k \in 0 .. 0 |-> <<>>], 0)
      OBVIOUS
    <3> HIDE DEF Rec
    <3>. QED
      BY <1>2, <3>1
  <2>2. ASSUME NEW m \in 1 .. n, m - 1 \in T PROVE m \in T
    <3>1. PICK g : Rec(g, m - 1)
      BY <2>2
    <3> DEFINE h == [k \in 0 .. m |-> IF k = m THEN Turn(g[m - 1], list[m]) ELSE g[k]]
    <3>2. Rec(h, m)
      BY <1>2, <3>1
    <3> HIDE DEF Rec, h
    <3>. QED
      BY <1>2, <3>2
  <2>3. \A m \in 1 .. n : m - 1 \in T => m \in T
    BY <2>2
  <2> HIDE DEF T
  <2>4. n \in T
    BY <1>2, <2>1, <2>3, CountUpTo
  <2>. QED
    BY <2>4 DEF T
<1>4. \A k \in 0 .. n : back[k] = IF k = 0 THEN <<>> ELSE Turn(back[k - 1], list[k])
  BY <1>3
<1> HIDE DEF back, n
<1> DEFINE Good(b) == b \in Seq(F) /\ (v \notin Ends(list) => b = <<>>)
           T == {k \in 0 .. n : Good(back[k])}
<1>5. ASSUME NEW b, Good(b), NEW k \in 1 .. n
      PROVE  Good(Turn(b, list[k]))
  <2>1. CASE Target(list[k]) = v
    <3>1. Turn(b, list[k]) = Append(b, Bent(list[k], u))
      BY <2>1 DEF Turn
    <3>2. Bent(list[k], u) \in F
      BY <1>2, <2>1
    <3>3. v \in Ends(list)
      BY <1>2, <2>1 DEF Ends
    <3>. QED
      BY <1>5, <3>1, <3>2, <3>3
  <2>2. CASE Target(list[k]) # v
    BY <1>5, <2>2 DEF Turn
  <2>. QED
    BY <2>1, <2>2
<1>6. 0 \in T
  <2>1. back[0] = <<>>
    BY <1>2, <1>4
  <2>2. Good(back[0])
    BY <2>1
  <2> HIDE DEF Good
  <2>. QED
    BY <1>2, <2>2
<1>7. ASSUME NEW k \in 1 .. n, k - 1 \in T PROVE k \in T
  <2>1. back[k] = Turn(back[k - 1], list[k])
    BY <1>2, <1>4
  <2>2. Good(back[k - 1])
    BY <1>7
  <2> HIDE DEF Good
  <2>3. Good(back[k])
    BY <1>5, <2>1, <2>2
  <2>. QED
    BY <1>2, <2>3
<1> HIDE DEF T
<1>8. n \in T
  BY <1>2, <1>6, <1>7, CountUpTo
<1>. QED
  BY <1>1, <1>8 DEF T
-----------------------------------------------------------------------------
\* A beam whose cursors are within it and whose entries are in X.
BeamOver(b, X) ==
    /\ b \in QP!QueueType /\ b.next_idx <= b.size /\ b.next_idx2 <= b.size
    /\ \A i \in Live(b) : b.slot[i].vid \in X

\* What the lemmas about the queue assume of its constants.
LEMMA QueuePremises == QP!LAssumption /\ QP!DistAssumption
  BY LAssumption DEF QP!LAssumption, QP!DistAssumption

\* The queue operators of HybridBuild are those the queue's lemmas are about.
LEMMA SameQueue ==
  /\ QP!NewQueue = NewQueue /\ QP!Slots = Slots /\ QP!Blank = Blank
  /\ \A x, l, v, d : QP!InsertAt(x, l, v, d) = InsertAt(x, l, v, d)
  /\ \A x, v, d : QP!Push(x, v, d) = Push(x, v, d)
  /\ \A x : QP!SetFrontExpanded(x) = SetFrontExpanded(x)
<1>1. QP!NewQueue = NewQueue /\ QP!Slots = Slots /\ QP!Blank = Blank
  BY DEF QP!NewQueue, NewQueue, QP!Slots, Slots, QP!Blank, Blank
<1>2. \A x, d : QP!LowerBound(x, d) = LowerBound(x, d)
  BY DEF QP!LowerBound, LowerBound, QP!IsLowerBound, IsLowerBound
<1>3. \A x, l, v, d : QP!InsertAt(x, l, v, d) = InsertAt(x, l, v, d)
  BY <1>1 DEF QP!InsertAt, InsertAt, QP!Shifted, Shifted
<1>4. \A x : QP!TailDist(x) = TailDist(x)
  BY DEF QP!TailDist, TailDist
<1>5. \A x, v, d : QP!Push(x, v, d) = Push(x, v, d)
  BY <1>2, <1>3, <1>4 DEF QP!Push, Push
<1>6. \A s, n, i : QP!FirstUnexpanded(s, n, i) = FirstUnexpanded(s, n, i)
  BY DEF QP!FirstUnexpanded, FirstUnexpanded
<1>7. \A x : QP!SetFrontExpanded(x) = SetFrontExpanded(x)
  BY <1>6 DEF QP!SetFrontExpanded, SetFrontExpanded
<1>. QED
  BY <1>1, <1>3, <1>5, <1>7

\* A new beam is empty.
LEMMA NewBeam == BeamOver(NewQueue, {})
<1>1. L \in Nat \ {0}
  BY LAssumption
<1>2. NewQueue = [slot |-> [i \in Slots |-> Blank], size |-> 0, next_idx |-> 0, next_idx2 |-> 0]
  BY DEF NewQueue
<1>3. Blank \in QP!Entry
  BY DEF Blank, QP!Entry
<1>4. NewQueue \in QP!QueueType
  BY <1>1, <1>2, <1>3, SameQueue DEF QP!QueueType
<1>. QED
  BY <1>2, <1>4 DEF BeamOver, Live

\* A push puts no other vector in the beam than the one pushed.
LEMMA PushOver ==
  ASSUME NEW X \in SUBSET V, NEW b, BeamOver(b, X), NEW v \in X, NEW d \in Nat
  PROVE  BeamOver(Push(b, v, d), X)
<1>1. /\ b \in QP!QueueType /\ b.next_idx <= b.size /\ b.next_idx2 <= b.size
      /\ b.size \in 0 .. L /\ b.next_idx \in 0 .. L /\ b.next_idx2 \in 0 .. L /\ L \in Nat \ {0}
      /\ \A i \in 0 .. b.size - 1 : b.slot[i].vid \in X
  BY LAssumption DEF BeamOver, QP!QueueType, Live
<1>2. CASE Push(b, v, d) = b
  BY <1>2
<1>3. ASSUME NEW loc \in 0 .. b.size, loc < L, Push(b, v, d) = InsertAt(b, loc, v, d)
      PROVE  BeamOver(Push(b, v, d), X)
  <2> DEFINE y == InsertAt(b, loc, v, d)
  <2>1. /\ y \in QP!QueueType
        /\ y.size = IF b.size < L THEN b.size + 1 ELSE b.size
        /\ y.slot[loc] = [vid |-> v, dist |-> d, expanded |-> FALSE]
        /\ \A i \in 0 .. loc - 1 : y.slot[i] = b.slot[i]
        /\ \A i \in loc + 1 .. y.size - 1 : i - 1 \in 0 .. b.size - 1 /\ y.slot[i] = b.slot[i - 1]
    BY <1>1, <1>3, QueuePremises, SameQueue, QP!InsertFields
  <2>2. /\ y.next_idx = IF loc <= b.next_idx THEN loc ELSE b.next_idx
        /\ y.next_idx2 = IF loc <= b.next_idx
                         THEN IF b.next_idx = y.size THEN y.size ELSE b.next_idx + 1
                         ELSE IF loc <= b.next_idx2 THEN loc ELSE b.next_idx2
    BY <1>1 DEF InsertAt
  <2> HIDE DEF y
  <2>3. y.next_idx <= y.size /\ y.next_idx2 <= y.size
    BY <1>1, <1>3, <2>1, <2>2
  <2>4. ASSUME NEW i \in 0 .. y.size - 1 PROVE y.slot[i].vid \in X
    <3>1. CASE i < loc
      BY <1>1, <1>3, <2>1, <3>1
    <3>2. CASE i = loc
      BY <2>1, <3>2
    <3>3. CASE i > loc
      BY <1>1, <1>3, <2>1, <3>3
    <3>. QED
      BY <1>1, <2>1, <3>1, <3>2, <3>3
  <2>. QED
    BY <1>3, <2>1, <2>3, <2>4 DEF BeamOver, Live, y
<1>. QED
  BY <1>1, <1>2, <1>3, QueuePremises, SameQueue, QP!PushCases

\* Expanding moves no entry; the front is one of them.
LEMMA ExpandOver ==
  ASSUME NEW X, NEW b, BeamOver(b, X), HasUnexpanded(b)
  PROVE  BeamOver(SetFrontExpanded(b), X) /\ b.slot[b.next_idx].vid \in X
<1>1. /\ b \in QP!QueueType /\ b.next_idx <= b.size /\ b.next_idx2 <= b.size
      /\ b.size \in 0 .. L /\ b.next_idx \in 0 .. L /\ b.next_idx2 \in 0 .. L /\ L \in Nat \ {0}
      /\ b.slot \in [Slots -> QP!Entry] /\ Slots = 0 .. L
      /\ \A i \in 0 .. b.size - 1 : b.slot[i].vid \in X
  BY LAssumption, SameQueue DEF BeamOver, QP!QueueType, Live, Slots
<1>2. b.slot[b.next_idx].vid \in X
  BY <1>1 DEF HasUnexpanded
<1> DEFINE y == SetFrontExpanded(b)
<1>3. /\ y \in QP!QueueType /\ y.size = b.size /\ y.next_idx = b.next_idx2
      /\ y.slot[b.next_idx] = [b.slot[b.next_idx] EXCEPT !.expanded = TRUE]
      /\ \A i \in Slots \ {b.next_idx} : y.slot[i] = b.slot[i]
      /\ y.next_idx2 <= b.size
  BY <1>1, QueuePremises, SameQueue, QP!ExpandFields DEF QP!QueueType
<1> HIDE DEF y
<1>4. ASSUME NEW i \in 0 .. b.size - 1 PROVE y.slot[i].vid \in X
  <2>1. CASE i = b.next_idx
    BY <1>1, <1>2, <1>3, <2>1, SMTT(30) DEF QP!Entry
  <2>2. CASE i # b.next_idx
    BY <1>1, <1>3, <2>2
  <2>. QED
    BY <2>1, <2>2
<1>. QED
  BY <1>1, <1>2, <1>3, <1>4 DEF BeamOver, Live, y

\* Offering candidates of X to a beam over X gives a beam over X.
LEMMA OfferedFacts ==
  ASSUME NEW X \in SUBSET V, NEW beam, BeamOver(beam, X), NEW ins \in V, NEW vs \in Seq(X)
  PROVE  BeamOver(Offered(beam, ins, vs), X)
<1> DEFINE Turn(b, v) ==
             IF b.size < L \/ Dist[v][ins] < TailDist(b) THEN Push(b, v, Dist[v][ins]) ELSE b
           n == Len(vs)
           after[k \in 0 .. Len(vs)] == IF k = 0 THEN beam ELSE Turn(after[k - 1], vs[k])
<1>1. Offered(beam, ins, vs) = after[n]
  BY DEF Offered
<1> HIDE DEF Turn
<1>2. n \in Nat /\ \A k \in 1 .. n : vs[k] \in X
  OBVIOUS
<1>3. \E g : g = [k \in 0 .. n |-> IF k = 0 THEN beam ELSE Turn(g[k - 1], vs[k])]
  <2> DEFINE Rec(g, m) == g = [k \in 0 .. m |-> IF k = 0 THEN beam ELSE Turn(g[k - 1], vs[k])]
             T == {m \in 0 .. n : \E g : Rec(g, m)}
  <2> HIDE DEF n
  <2>1. 0 \in T
    <3>1. Rec([k \in 0 .. 0 |-> beam], 0)
      OBVIOUS
    <3> HIDE DEF Rec
    <3>. QED
      BY <1>2, <3>1
  <2>2. ASSUME NEW m \in 1 .. n, m - 1 \in T PROVE m \in T
    <3>1. PICK g : Rec(g, m - 1)
      BY <2>2
    <3> DEFINE h == [k \in 0 .. m |-> IF k = m THEN Turn(g[m - 1], vs[m]) ELSE g[k]]
    <3>2. Rec(h, m)
      BY <1>2, <3>1
    <3> HIDE DEF Rec, h
    <3>. QED
      BY <1>2, <3>2
  <2>3. \A m \in 1 .. n : m - 1 \in T => m \in T
    BY <2>2
  <2> HIDE DEF T
  <2>4. n \in T
    BY <1>2, <2>1, <2>3, CountUpTo
  <2>. QED
    BY <2>4 DEF T
<1>4. \A k \in 0 .. n : after[k] = IF k = 0 THEN beam ELSE Turn(after[k - 1], vs[k])
  BY <1>3
<1> HIDE DEF after, n
<1>5. ASSUME NEW b, BeamOver(b, X), NEW v \in X
      PROVE  BeamOver(Turn(b, v), X)
  <2>1. Dist[v][ins] \in Nat
    BY BuildAssumption
  <2>. QED
    BY <1>5, <2>1, PushOver DEF Turn
<1> DEFINE T == {k \in 0 .. n : BeamOver(after[k], X)}
<1>6. 0 \in T
  BY <1>2, <1>4
<1>7. ASSUME NEW k \in 1 .. n, k - 1 \in T PROVE k \in T
  <2>1. after[k] = Turn(after[k - 1], vs[k])
    BY <1>2, <1>4
  <2>2. BeamOver(after[k - 1], X)
    BY <1>7
  <2>3. BeamOver(after[k], X)
    BY <1>2, <1>5, <2>1, <2>2
  <2>. QED
    BY <1>2, <2>3
<1> HIDE DEF T
<1>8. n \in T
  BY <1>2, <1>6, <1>7, CountUpTo
<1>. QED
  BY <1>1, <1>8 DEF T
-----------------------------------------------------------------------------
(* The inductive invariant and its proof. *)

\* The insertion order enumerates the vectors; a label's first vector is its first carrier.
IndexInv ==
    /\ filters \in [V -> SUBSET Labels]
    /\ order \in [V -> V] /\ \A i, j \in V : order[i] = order[j] => i = j
    /\ initVertex \in [Big -> V]
    /\ \A f \in Big : /\ f \in filters[initVertex[f]]
                      /\ \A v \in Group(f) : Place(initVertex[f]) <= Place(v)

\* The lists to prune wait from the turns of the reverse loop to the end of the batch.
ProgressInv ==
    /\ start \in 1 .. N /\ phase \in {"insert", "reverse", "prune", "built"}
    /\ phase = "reverse" => reversed \in start .. BatchEnd
    /\ phase = "built" => start = N
    /\ updShared \in SUBSET V /\ updSingle \in SUBSET (Big \X V)
    /\ phase \in {"insert", "built"} => updShared = {} /\ updSingle = {}

\* Where the edges of v may lead: nowhere before it is inserted; to earlier vectors
\* while it is, and until its list is reversed; to all vectors inserted so far then.
Limit == IF phase = "insert" THEN start ELSE BatchEnd
Forward(v) == \/ phase = "insert" /\ start <= Place(v)
              \/ phase = "reverse" /\ reversed <= Place(v)
MayLead(v) ==
    {u \in V : Place(v) < BatchEnd /\ Place(u) < IF Forward(v) THEN Place(v) ELSE Limit}

\* An overlap stored in a list is that of the two ends; an edge of a label's graph joins carriers.
SharedEdges(v) == {e \in Nat \X Nat \X V : e[2] = Overlap(v, e[3]) /\ e[3] \in MayLead(v)}
SingleEdges(f, v) ==
    {e \in Nat \X V : f \in Big /\ f \in filters[v] /\ f \in filters[e[2]] /\ e[2] \in MayLead(v)}

ListInv ==
    /\ DOMAIN shared = V /\ \A v \in V : shared[v] \in Seq(SharedEdges(v))
    /\ DOMAIN single = Labels
    /\ \A f \in Labels : /\ DOMAIN single[f] = V
                         /\ \A v \in V : single[f][v] \in Seq(SingleEdges(f, v))

\* The vertices a search may meet: carriers of earlier batches, or the label's first vector.
KnownTo(ins) == {u \in V : /\ label[ins] \in filters[u]
                           /\ Place(u) < start \/ u = initVertex[label[ins]]}

Searching == {"expand", "readSingle", "readShared"}

TaskOK(v) ==
    /\ left[v] \subseteq BigOf(v)
    /\ BeamOver(q[v], KnownTo(v))
    /\ pc[v] \in Searching =>
          Running(v) /\ label[v] \in BigOf(v) /\ initVertex[label[v]] # v
    /\ pc[v] \in {"readSingle", "readShared"} => at[v] \in KnownTo(v)
    /\ pc[v] = "readShared" => keep[v] \in Seq(KnownTo(v))

TaskInv ==
    /\ pc \in [V -> Searching \cup {"label", "done"}]
    /\ DOMAIN left = V /\ DOMAIN label = V /\ DOMAIN q = V
    /\ DOMAIN at = V /\ DOMAIN keep = V
    /\ \A v \in V : TaskOK(v)

\* Lists over their degree are those being written and those still to be pruned.
DegreeInv ==
    \A v \in V :
        /\ \/ Len(shared[v]) <= SharedD
           \/ IF phase = "insert" THEN v \in Batch /\ pc[v] \in Searching ELSE v \in updShared
        /\ \A f \in Labels :
              \/ Len(single[f][v]) <= D[f]
              \/ IF phase = "insert" THEN v \in Batch /\ pc[v] # "done" ELSE <<f, v>> \in updSingle

BuildInv == IndexInv /\ ProgressInv /\ ListInv /\ TaskInv /\ DegreeInv
-----------------------------------------------------------------------------
\* The vectors are finitely many numbers; distances and degrees are numbers.
LEMMA Constants ==
  /\ N \in Nat \ {0} /\ V = 0 .. N - 1 /\ V \in SUBSET Nat
  /\ IsFiniteSet(V) /\ Cardinality(V) = N /\ IsFiniteSet(Labels)
  /\ Dist \in [V -> [V -> Nat]] /\ D \in [Labels -> Nat \ {0}] /\ SharedD \in Nat
  /\ BigCutoff \in Nat /\ OverlapMax \in Nat /\ BatchDiv \in Nat \ {0}
  /\ L \in Nat \ {0}
<1>1. N \in Nat \ {0} /\ V = 0 .. N - 1
  BY BuildAssumption DEF V
<1>2. IsFiniteSet(0 .. N - 1) /\ Cardinality(0 .. N - 1) = N
  BY <1>1, FS_Interval
<1>. QED
  BY <1>1, <1>2, BuildAssumption, LAssumption

\* Every vector has its place in the insertion order, and every place a vector.
LEMMA Places ==
  ASSUME order \in [V -> V], \A i, j \in V : order[i] = order[j] => i = j
  PROVE  /\ \A v \in V : Place(v) \in V /\ order[Place(v)] = v
         /\ \A i \in V : Place(order[i]) = i
         /\ \A u, v \in V : Place(u) = Place(v) => u = v
<1>1. order \in Injection(V, V)
  BY DEF Injection, IsInjective
<1>2. order \in Surjection(V, V)
  BY <1>1, Constants, FS_Injection
<1>3. \A v \in V : \E i \in V : order[i] = v
  BY <1>2 DEF Surjection
<1>4. \A v \in V : Place(v) \in V /\ order[Place(v)] = v
  BY <1>3 DEF Place
<1>. QED
  BY <1>4

\* A batch ends no earlier than it starts, and with the last vector at the latest.
LEMMA BatchEnds == \A s \in 1 .. N : LowerOf(LowerOf(2 * s, s + BatchBound), N) \in s .. N
<1>1. \A n \in Nat, d \in Nat \ {0} : n \div d \in Nat
  OBVIOUS
<1>2. BatchBound \in Nat
  BY <1>1, Constants DEF BatchBound
<1>. QED
  BY <1>2, Constants DEF LowerOf

\* A batch is the part of the insertion order from start to BatchEnd.
LEMMA Batches ==
  ASSUME IndexInv, start \in 1 .. N
  PROVE  /\ BatchEnd \in start .. N
         /\ \A v \in V : v \in Batch <=> start <= Place(v) /\ Place(v) < BatchEnd
<1>1. BatchEnd \in start .. N
  BY BatchEnds DEF BatchEnd
<1>2. start .. BatchEnd - 1 \in SUBSET V
  BY <1>1, Constants
<1>3. /\ \A v \in V : Place(v) \in V /\ order[Place(v)] = v
      /\ \A i \in V : Place(order[i]) = i
  BY Places DEF IndexInv
<1>4. ASSUME NEW v \in V
      PROVE  v \in Batch <=> start <= Place(v) /\ Place(v) < BatchEnd
  <2>1. v \in Batch <=> \E i \in start .. BatchEnd - 1 : v = order[i]
    BY DEF Batch
  <2>2. ASSUME NEW i \in start .. BatchEnd - 1, v = order[i]
        PROVE  start <= Place(v) /\ Place(v) < BatchEnd
    <3>1. Place(v) = i
      BY <1>2, <1>3, <2>2
    <3>. QED
      BY <1>1, <3>1
  <2>3. ASSUME start <= Place(v), Place(v) < BatchEnd PROVE v \in Batch
    <3>1. Place(v) \in start .. BatchEnd - 1
      BY <1>1, <1>3, <2>3, Constants
    <3>. QED
      BY <1>3, <2>1, <3>1
  <2>. QED
    BY <2>1, <2>2, <2>3
<1>. QED
  BY <1>1, <1>4

\* The overlap is the same from both ends; if it is all of u's labels, the other end has
\* them all, whether or not the stored overlap was cut off at OverlapMax.
LEMMA Overlaps ==
  ASSUME filters \in [V -> SUBSET Labels], NEW u \in V, NEW w \in V
  PROVE  /\ Overlap(u, w) \in Nat /\ Overlap(u, w) = Overlap(w, u)
         /\ Overlap(u, w) = Cardinality(filters[u]) => filters[u] \subseteq filters[w]
<1> DEFINE both == filters[u] \cap filters[w]
<1>1. filters[u] \in SUBSET Labels /\ filters[w] \in SUBSET Labels
  OBVIOUS
<1>2. IsFiniteSet(filters[u])
  BY <1>1, Constants, FS_Subset
<1>3. /\ IsFiniteSet(both) /\ Cardinality(both) <= Cardinality(filters[u])
      /\ Cardinality(both) = Cardinality(filters[u]) => both = filters[u]
  BY <1>2, FS_Subset
<1>4. Cardinality(both) \in Nat /\ Cardinality(filters[u]) \in Nat
  BY <1>2, <1>3, FS_CardinalityType
<1>5. both = filters[w] \cap filters[u]
  OBVIOUS
<1>6. Overlap(u, w) = LowerOf(Cardinality(both), OverlapMax) /\ Overlap(w, u) = Overlap(u, w)
  BY <1>5 DEF Overlap
<1> HIDE DEF both
<1>7. Overlap(u, w) \in Nat /\ Overlap(u, w) <= Cardinality(both)
  BY <1>4, <1>6, Constants DEF LowerOf
<1>8. Overlap(u, w) = Cardinality(filters[u]) => both = filters[u]
  BY <1>3, <1>4, <1>7
<1>. QED
  BY <1>6, <1>7, <1>8 DEF both

\* init_vertex finds a carrier of the label, and none is earlier in the insertion order.
LEMMA FirstCarriers ==
  ASSUME order \in [V -> V], \A i, j \in V : order[i] = order[j] => i = j,
         NEW f \in Big
  PROVE  /\ FirstCarrier(f) \in Group(f)
         /\ \A v \in Group(f) : Place(FirstCarrier(f)) <= Place(v)
<1>1. Group(f) \in SUBSET V
  BY DEF Group
<1>2. Group(f) # {}
  <2>1. Cardinality(Group(f)) > BigCutoff
    BY DEF Big
  <2>2. Cardinality({}) = 0
    BY FS_EmptySet
  <2>3. ~ (0 > BigCutoff)
    BY Constants
  <2>. QED
    BY <2>1, <2>2, <2>3
<1> DEFINE C == {i \in V : order[i] \in Group(f)}
           Least(i) == order[i] \in Group(f) /\ \A j \in 0 .. i - 1 : order[j] \notin Group(f)
<1>3. C # {} /\ C \in SUBSET Nat
  <2>1. PICK v \in Group(f) : TRUE
    BY <1>2
  <2>2. Place(v) \in V /\ order[Place(v)] = v
    BY <1>1, <2>1, Places
  <2>3. Place(v) \in C
    BY <2>1, <2>2
  <2>4. V \in SUBSET Nat
    BY Constants
  <2>. QED
    BY <2>3, <2>4
<1> HIDE DEF C
<1>4. PICK m \in C : \A k \in C : m <= k
  BY <1>3, LeastNat
<1>5. m \in V /\ Least(m)
  <2>1. m \in V /\ order[m] \in Group(f)
    BY DEF C
  <2>2. ASSUME NEW j \in 0 .. m - 1 PROVE order[j] \notin Group(f)
    <3>1. j \in V /\ ~ (m <= j)
      BY <2>1, Constants
    <3>. QED
      BY <1>4, <3>1 DEF C
  <2>. QED
    BY <2>1, <2>2
<1> DEFINE i == CHOOSE x \in V : Least(x)
<1>6. i \in V /\ Least(i)
  BY <1>5
<1>7. FirstCarrier(f) = order[i]
  BY DEF FirstCarrier
<1> HIDE DEF i
<1>8. ASSUME NEW v \in Group(f) PROVE Place(order[i]) <= Place(v)
  <2>1. Place(order[i]) = i /\ Place(v) \in V /\ order[Place(v)] = v
    BY <1>1, <1>6, Places
  <2>2. Place(v) \notin 0 .. i - 1
    BY <1>6, <2>1
  <2>. QED
    BY <1>6, <2>1, <2>2, Constants
<1>. QED
  BY <1>6, <1>7, <1>8

\* A beam over a set of vectors is one over any larger set.
LEMMA BeamWider ==
  ASSUME NEW b, NEW X, NEW Y, X \subseteq Y, BeamOver(b, X)
  PROVE  BeamOver(b, Y)
BY DEF BeamOver

\* A list of entries of a set is one of entries of any larger set.
LEMMA SeqWider ==
  ASSUME NEW X, NEW Y, X \subseteq Y, NEW s \in Seq(X)
  PROVE  s \in Seq(Y)
<1>1. Len(s) \in Nat /\ s \in [1 .. Len(s) -> X]
  OBVIOUS
<1>2. s \in [1 .. Len(s) -> Y]
  BY <1>1
<1>. QED
  BY <1>1, <1>2

\* Labels, insertion order and first vectors never change, nor does what they define.
LEMMA SameIndex ==
  ASSUME index' = index
  PROVE  /\ filters' = filters /\ order' = order /\ initVertex' = initVertex
         /\ IndexInv => IndexInv'
         /\ Big' = Big
         /\ \A v : Place(v)' = Place(v)
         /\ \A v : BigOf(v)' = BigOf(v)
         /\ \A u, v : Overlap(u, v)' = Overlap(u, v)
<1>1. filters' = filters /\ order' = order /\ initVertex' = initVertex
  BY DEF index
<1>2. \A f : Group(f)' = Group(f)
  BY <1>1 DEF Group
<1>3. Big' = Big
  BY <1>2 DEF Big
<1>4. \A v : Place(v)' = Place(v)
  BY <1>1 DEF Place
<1>5. \A v : BigOf(v)' = BigOf(v)
  BY <1>1 DEF BigOf
<1>6. \A u, v : Overlap(u, v)' = Overlap(u, v)
  BY <1>1 DEF Overlap
<1>7. IndexInv => IndexInv'
  BY <1>1, <1>2, <1>3, <1>4 DEF IndexInv
<1>. QED
  BY <1>1, <1>3, <1>4, <1>5, <1>6, <1>7

\* Tasks change neither the batch nor where edges may lead.
LEMMA SamePhase ==
  ASSUME KeepsPhase
  PROVE  /\ index' = index /\ start' = start /\ phase' = phase /\ reversed' = reversed
         /\ updShared' = updShared /\ updSingle' = updSingle
         /\ BatchEnd' = BatchEnd /\ Batch' = Batch
         /\ \A v : Running(v)' = Running(v)
         /\ \A v : SharedEdges(v)' = SharedEdges(v)
         /\ \A f, v : SingleEdges(f, v)' = SingleEdges(f, v)
<1>1. /\ index' = index /\ start' = start /\ phase' = phase /\ reversed' = reversed
      /\ updShared' = updShared /\ updSingle' = updSingle
  BY DEF KeepsPhase
<1>2. BatchEnd' = BatchEnd
  BY <1>1 DEF BatchEnd, BatchBound
<1>3. Batch' = Batch /\ \A v : Running(v)' = Running(v)
  BY <1>1, <1>2, SameIndex DEF Batch, Running
<1>4. \A v : Forward(v)' = Forward(v)
  BY <1>1, SameIndex DEF Forward
<1>5. Limit' = Limit
  BY <1>1, <1>2 DEF Limit
<1>6. \A v : MayLead(v)' = MayLead(v)
  BY <1>1, <1>2, <1>4, <1>5, SameIndex DEF MayLead
<1>7. \A v : SharedEdges(v)' = SharedEdges(v)
  BY <1>1, <1>6, SameIndex DEF SharedEdges
<1>8. \A f, v : SingleEdges(f, v)' = SingleEdges(f, v)
  BY <1>1, <1>6, SameIndex DEF SingleEdges
<1>. QED
  BY <1>1, <1>2, <1>3, <1>7, <1>8

\* What may stand in a list may stand in it later if where it may lead only grows.
LEMMA EdgesWider ==
  ASSUME index' = index, NEW v, MayLead(v) \subseteq MayLead(v)'
  PROVE  /\ SharedEdges(v) \subseteq SharedEdges(v)'
         /\ \A f : SingleEdges(f, v) \subseteq SingleEdges(f, v)'
BY SameIndex DEF SharedEdges, SingleEdges

\* The invariant holds when the build starts.
LEMMA InitBuildInv == Init => BuildInv
<1> SUFFICES ASSUME Init PROVE BuildInv
  OBVIOUS
<1> USE DEF Init
<1>1. /\ filters \in [V -> SUBSET Labels]
      /\ order \in [V -> V] /\ \A i, j \in V : order[i] = order[j] => i = j
  BY BuildAssumption
<1>2. IndexInv
  <2>1. \A f \in Big : initVertex[f] = FirstCarrier(f)
    OBVIOUS
  <2>2. DOMAIN initVertex = Big /\ initVertex = [f \in Big |-> initVertex[f]]
    OBVIOUS
  <2>3. ASSUME NEW f \in Big
        PROVE  /\ initVertex[f] \in V /\ f \in filters[initVertex[f]]
               /\ \A v \in Group(f) : Place(initVertex[f]) <= Place(v)
    <3>1. /\ FirstCarrier(f) \in Group(f)
          /\ \A v \in Group(f) : Place(FirstCarrier(f)) <= Place(v)
      BY <1>1, FirstCarriers
    <3>2. FirstCarrier(f) \in V /\ f \in filters[FirstCarrier(f)]
      BY <3>1 DEF Group
    <3>. QED
      BY <2>1, <3>1, <3>2
  <2>. QED
    BY <1>1, <2>2, <2>3 DEF IndexInv
<1>3. ProgressInv
  BY Constants DEF ProgressInv
<1>4. ListInv
  <2>1. \A S : <<>> \in Seq(S)
    OBVIOUS
  <2>. QED
    BY <2>1 DEF ListInv
<1>5. TaskInv
  <2>1. ASSUME NEW v \in V PROVE BeamOver(q[v], KnownTo(v))
    BY NewBeam, BeamWider
  <2>2. \A v \in V : left[v] \subseteq BigOf(v)
    OBVIOUS
  <2>. QED
    BY <2>1, <2>2 DEF TaskInv, TaskOK, Searching
<1>6. DegreeInv
  <2>1. Len(<<>>) = 0
    OBVIOUS
  <2>2. \A v \in V : Len(shared[v]) <= SharedD /\ \A f \in Labels : Len(single[f][v]) <= D[f]
    BY <2>1, Constants
  <2>. QED
    BY <2>2 DEF DegreeInv
<1>. QED
  BY <1>2, <1>3, <1>4, <1>5, <1>6 DEF BuildInv
-----------------------------------------------------------------------------
\* A search may go on to every end that carries the label.  The lists of the label's
\* first vector, while that is still being inserted, have none: nothing before it carries
\* the label.
LEMMA KnownEnds ==
  ASSUME IndexInv, start \in 1 .. N, phase = "insert",
         NEW ins \in V, label[ins] \in Big, NEW w \in KnownTo(ins)
  PROVE  /\ \A u \in MayLead(w) : label[ins] \in filters[u] => Place(w) < start /\ u \in KnownTo(ins)
         /\ start <= Place(w) => w = initVertex[label[ins]]
<1>1. /\ w \in V /\ label[ins] \in filters[w]
      /\ Place(w) < start \/ w = initVertex[label[ins]]
  BY DEF KnownTo
<1>2. \A v \in V : Place(v) \in Nat
  <2>1. \A v \in V : Place(v) \in V
    BY Places DEF IndexInv
  <2>2. V \in SUBSET Nat
    BY Constants
  <2>. QED
    BY <2>1, <2>2
<1>3. ASSUME NEW u \in MayLead(w), label[ins] \in filters[u]
      PROVE  Place(w) < start /\ u \in KnownTo(ins)
  <2>1. u \in V /\ Place(u) < IF start <= Place(w) THEN Place(w) ELSE start
    BY DEF MayLead, Forward, Limit
  <2>2. CASE start <= Place(w)
    <3>1. w = initVertex[label[ins]] /\ Place(u) < Place(w)
      BY <1>1, <1>2, <2>1, <2>2
    <3>2. u \in Group(label[ins])
      BY <1>3, <2>1 DEF Group
    <3>3. Place(w) <= Place(u)
      BY <3>1, <3>2 DEF IndexInv
    <3>. QED
      BY <1>1, <1>2, <2>1, <3>1, <3>3
  <2>3. CASE ~ (start <= Place(w))
    <3>1. Place(u) < start /\ Place(w) < start
      BY <1>1, <1>2, <2>1, <2>3
    <3>2. u \in KnownTo(ins)
      BY <1>3, <2>1, <3>1 DEF KnownTo
    <3>. QED
      BY <3>1, <3>2
  <2>. QED
    BY <2>2, <2>3
<1>. QED
  BY <1>1, <1>2, <1>3

\* An entry that passes the label test on the list of a carrier leads to a carrier: full
\* overlap with a carrier's labels includes the label.
LEMMA PassesToCarrier ==
  ASSUME filters \in [V -> SUBSET Labels], NEW f, NEW w \in V, f \in filters[w],
         NEW e \in SharedEdges(w), Passes(f, w, e)
  PROVE  Target(e) \in MayLead(w) /\ f \in filters[Target(e)]
<1>1. /\ e \in Nat \X Nat \X V /\ e[2] = Overlap(w, e[3])
      /\ e[3] \in MayLead(w)
  BY DEF SharedEdges
<1>2. Target(e) = e[3] /\ e[3] \in V
  BY <1>1, TripleFields DEF Target
<1>3. CASE e[2] = Cardinality(filters[w])
  <2>1. \A x \in V : Overlap(w, x) = Cardinality(filters[w]) => filters[w] \subseteq filters[x]
    BY Overlaps
  <2>2. Overlap(w, e[3]) = Cardinality(filters[w])
    BY <1>1, <1>3
  <2>3. filters[w] \subseteq filters[e[3]]
    BY <1>2, <2>1, <2>2
  <2>. QED
    BY <1>1, <1>2, <2>3
<1>4. CASE f \in filters[Target(e)]
  BY <1>1, <1>2, <1>4
<1>. QED
  BY <1>3, <1>4 DEF Passes

\* A step that changes the control and the lists of one vector's task only.
Alone(ins) ==
    /\ pc' \in [V -> Searching \cup {"label", "done"}]
    /\ DOMAIN left' = V /\ DOMAIN label' = V /\ DOMAIN q' = V
    /\ DOMAIN at' = V /\ DOMAIN keep' = V /\ DOMAIN shared' = V
    /\ DOMAIN single' = Labels /\ \A f \in Labels : DOMAIN single'[f] = V
    /\ \A v \in V \ {ins} :
         /\ pc'[v] = pc[v] /\ left'[v] = left[v] /\ label'[v] = label[v] /\ q'[v] = q[v]
         /\ at'[v] = at[v] /\ keep'[v] = keep[v] /\ shared'[v] = shared[v]
         /\ \A f \in Labels : single'[f][v] = single[f][v]

\* What a step of a task must respect for the invariant to go on: its own part of it.
LEMMA TaskStep ==
  ASSUME BuildInv, NEW ins \in V, Running(ins), KeepsPhase, Alone(ins), TaskOK(ins)',
         shared'[ins] \in Seq(SharedEdges(ins)),
         \A f \in Labels : single'[f][ins] \in Seq(SingleEdges(f, ins)),
         Len(shared'[ins]) <= SharedD \/ pc'[ins] \in Searching,
         pc'[ins] # "done" \/ \A f \in Labels : Len(single'[f][ins]) <= D[f]
  PROVE  BuildInv'
<1>1. /\ index' = index /\ start' = start /\ phase' = phase /\ reversed' = reversed
      /\ updShared' = updShared /\ updSingle' = updSingle
      /\ BatchEnd' = BatchEnd /\ Batch' = Batch
  BY SamePhase
<1>2. IndexInv'
  BY <1>1, SameIndex DEF BuildInv
<1>3. ProgressInv'
  BY <1>1, SameIndex DEF BuildInv, ProgressInv
<1>4. ListInv'
  <2>1. ASSUME NEW v \in V PROVE (shared[v] \in Seq(SharedEdges(v)))'
    <3>1. (Seq(SharedEdges(v)))' = Seq(SharedEdges(v))
      BY SamePhase
    <3>2. shared'[v] \in Seq(SharedEdges(v))
      BY DEF Alone, BuildInv, ListInv
    <3>. QED
      BY <3>1, <3>2
  <2>2. ASSUME NEW f \in Labels, NEW v \in V PROVE (single[f][v] \in Seq(SingleEdges(f, v)))'
    <3>1. (Seq(SingleEdges(f, v)))' = Seq(SingleEdges(f, v))
      BY SamePhase
    <3>2. single'[f][v] \in Seq(SingleEdges(f, v))
      BY DEF Alone, BuildInv, ListInv
    <3>. QED
      BY <3>1, <3>2
  <2>. QED
    BY <2>1, <2>2 DEF Alone, ListInv
<1>5. TaskInv'
  <2>1. ASSUME NEW v \in V \ {ins} PROVE TaskOK(v)'
    <3>1. TaskOK(v)
      BY DEF BuildInv, TaskInv
    <3>2. KnownTo(v)' = KnownTo(v)
      BY <1>1, SameIndex DEF KnownTo, Alone
    <3>3. BigOf(v)' = BigOf(v) /\ Running(v)' = Running(v) /\ initVertex' = initVertex
      BY <1>1, SameIndex, SamePhase
    <3>4. /\ pc'[v] = pc[v] /\ left'[v] = left[v] /\ label'[v] = label[v] /\ q'[v] = q[v]
          /\ at'[v] = at[v] /\ keep'[v] = keep[v]
      BY DEF Alone
    <3>5. BeamOver(q[v], KnownTo(v))' = BeamOver(q[v], KnownTo(v))
      BY <3>2, <3>4 DEF BeamOver, Live
    <3>. QED
      BY <3>1, <3>2, <3>3, <3>4, <3>5 DEF TaskOK
  <2>. QED
    BY <2>1 DEF Alone, TaskInv
<1>6. DegreeInv'
  BY <1>1 DEF BuildInv, DegreeInv, Alone, Running
<1>. QED
  BY <1>2, <1>3, <1>4, <1>5, <1>6 DEF BuildInv

\* prune_shared leaves no entry that was not on the list, and no more than the degree.
LEMMA PrunedSharedFacts ==
  ASSUME NEW v \in V, NEW list \in Seq(SharedEdges(v))
  PROVE  PrunedShared(list) \in Seq(SharedEdges(v)) /\ Len(PrunedShared(list)) <= SharedD
<1>1. StrictOrder(SharedEdges(v))
  BY TriplesOrdered DEF SharedEdges
<1>2. SharedD \in Nat
  BY Constants
<1>. QED
  BY <1>1, <1>2, PruneFacts DEF PrunedShared

\* prune_single likewise.
LEMMA PrunedSingleFacts ==
  ASSUME NEW f \in Labels, NEW v \in V, NEW list \in Seq(SingleEdges(f, v))
  PROVE  PrunedSingle(f, v, list) \in Seq(SingleEdges(f, v)) /\ Len(PrunedSingle(f, v, list)) <= D[f]
<1> DEFINE others == {Target(shared[v][i]) : i \in {k \in DOMAIN shared[v] : Passes(f, v, shared[v][k])}}
<1>1. StrictOrder(SingleEdges(f, v))
  BY PairsOrdered DEF SingleEdges
<1>2. D[f] \in Nat
  BY Constants
<1>3. PrunedSingle(f, v, list) = PruneTo(list, D[f], others)
  BY DEF PrunedSingle
<1> HIDE DEF others
<1>. QED
  BY <1>1, <1>2, <1>3, PruneFacts

\* A task that is not searching has its beam only to keep.
LEMMA IdleTaskOK ==
  ASSUME NEW ins, TaskOK(ins), KeepsPhase, label' = label, q' = q, left' = left,
         pc'[ins] \notin Searching
  PROVE  TaskOK(ins)'
<1>1. KnownTo(ins)' = KnownTo(ins) /\ BigOf(ins)' = BigOf(ins)
  <2>1. index' = index /\ start' = start
    BY SamePhase
  <2>. QED
    BY <2>1, SameIndex DEF KnownTo
<1>2. BeamOver(q[ins], KnownTo(ins))'
  BY <1>1 DEF BeamOver, Live, TaskOK
<1>. QED
  BY <1>1, <1>2 DEF TaskOK, Searching
-----------------------------------------------------------------------------
\* A label is one of the vector's and has a first vector, a carrier.
LEMMA BigLabels ==
  ASSUME IndexInv, NEW ins \in V, NEW f \in BigOf(ins)
  PROVE  f \in Big /\ f \in Labels /\ f \in filters[ins] /\ initVertex[f] \in Group(f)
<1>1. f \in filters[ins] /\ f \in DOMAIN initVertex /\ DOMAIN initVertex = Big
  BY DEF BigOf, IndexInv
<1>. QED
  BY <1>1 DEF IndexInv, Big, Group

\* StartLabel: a search starts at the first vector of one of the big labels of ins.
LEMMA StartLabelKeeps ==
  ASSUME BuildInv, NEW ins \in V, StartLabel(ins)
  PROVE  BuildInv'
<1>1. PICK f \in left[ins] :
        /\ initVertex[f] # ins
        /\ label' = [label EXCEPT ![ins] = f]
        /\ left' = [left EXCEPT ![ins] = {g \in @ : g > f}]
        /\ q' = [q EXCEPT ![ins] = Push(NewQueue, initVertex[f], Dist[initVertex[f]][ins])]
  BY DEF StartLabel
<1>2. /\ Running(ins) /\ pc' = [pc EXCEPT ![ins] = "expand"] /\ KeepsPhase
      /\ single' = single /\ shared' = shared /\ at' = at /\ keep' = keep
  BY DEF StartLabel, Goto
<1>3. TaskInv /\ ListInv /\ IndexInv /\ TaskOK(ins)
  BY DEF BuildInv, TaskInv
<1>4. Alone(ins)
  BY <1>1, <1>2, <1>3 DEF Alone, TaskInv, ListInv, Searching
<1>5. TaskOK(ins)'
  <2>1. /\ pc'[ins] = "expand" /\ label'[ins] = f /\ left'[ins] \subseteq left[ins]
        /\ q'[ins] = Push(NewQueue, initVertex[f], Dist[initVertex[f]][ins])
    BY <1>1, <1>2, <1>3 DEF TaskInv
  <2>2. f \in BigOf(ins) /\ left[ins] \subseteq BigOf(ins)
    BY <1>3 DEF TaskOK
  <2>3. f \in Big /\ initVertex[f] \in Group(f)
    BY <1>3, <2>2, BigLabels
  <2>4. initVertex[f] \in V /\ f \in filters[initVertex[f]]
    BY <2>3 DEF Group
  <2>5. index' = index /\ Running(ins)'
    BY <1>2, SamePhase
  <2>6. BigOf(ins)' = BigOf(ins) /\ initVertex' = initVertex /\ filters' = filters
    BY <2>5, SameIndex
  <2> DEFINE K == KnownTo(ins)'
  <2>7. initVertex[f] \in K /\ K \in SUBSET V
    BY <2>1, <2>4, <2>6 DEF KnownTo
  <2> HIDE DEF K
  <2>8. BeamOver(NewQueue, K)
    BY NewBeam, BeamWider
  <2>9. Dist[initVertex[f]][ins] \in Nat
    BY <2>4, Constants
  <2>10. BeamOver(q'[ins], K)
    BY <2>1, <2>7, <2>8, <2>9, PushOver
  <2>11. BeamOver(q[ins], KnownTo(ins))'
    BY <2>10 DEF K, BeamOver, Live
  <2>. QED
    BY <1>1, <2>1, <2>2, <2>5, <2>6, <2>11 DEF TaskOK
<1>6. /\ shared'[ins] \in Seq(SharedEdges(ins))
      /\ \A f_1 \in Labels : single'[f_1][ins] \in Seq(SingleEdges(f_1, ins))
  BY <1>2, <1>3 DEF ListInv
<1>7. pc'[ins] \in Searching /\ pc'[ins] # "done"
  BY <1>2, <1>3 DEF TaskInv, Searching
<1>. QED
  BY <1>2, <1>4, <1>5, <1>6, <1>7, TaskStep

\* Expand: the front of the beam is earlier in the insertion order than ins, and carries
\* the label, so both new edges may stand where they are put.
LEMMA ExpandKeeps ==
  ASSUME BuildInv, NEW ins \in V, Expand(ins)
  PROVE  BuildInv'
<1> DEFINE f == label[ins]
           u == q[ins].slot[q[ins].next_idx].vid
           d == q[ins].slot[q[ins].next_idx].dist
           overlap == Overlap(ins, u)
<1>1. /\ shared' = IF overlap >= MinShared
                   THEN [shared EXCEPT ![ins] = Append(@, <<d, overlap, u>>)]
                   ELSE shared
      /\ single' = [single EXCEPT ![f][ins] = Append(@, <<d, u>>)]
      /\ at' = [at EXCEPT ![ins] = u]
  BY DEF Expand
<1>2. /\ Running(ins) /\ pc[ins] = "expand" /\ pc' = [pc EXCEPT ![ins] = "readSingle"]
      /\ KeepsPhase /\ HasUnexpanded(q[ins])
      /\ q' = [q EXCEPT ![ins] = SetFrontExpanded(@)]
      /\ keep' = [keep EXCEPT ![ins] = <<>>] /\ left' = left /\ label' = label
  BY DEF Expand, Goto
<1>3. /\ TaskInv /\ ListInv /\ IndexInv /\ TaskOK(ins)
      /\ start \in 1 .. N /\ phase = "insert" /\ ins \in Batch
  BY <1>2 DEF BuildInv, TaskInv, ProgressInv, Running
<1>4. /\ left[ins] \subseteq BigOf(ins)
      /\ f \in BigOf(ins) /\ initVertex[f] # ins /\ BeamOver(q[ins], KnownTo(ins))
  BY <1>2, <1>3 DEF TaskOK, Searching
<1>5. /\ BeamOver(SetFrontExpanded(q[ins]), KnownTo(ins)) /\ u \in KnownTo(ins)
      /\ d \in Nat
  <2>1. BeamOver(SetFrontExpanded(q[ins]), KnownTo(ins)) /\ u \in KnownTo(ins)
    BY <1>2, <1>4, ExpandOver
  <2>2. q[ins].next_idx \in 0 .. L /\ q[ins].slot \in [0 .. L -> QP!Entry]
    BY <1>4, SameQueue DEF BeamOver, QP!QueueType, Slots
  <2>3. d \in Nat
    BY <2>2 DEF QP!Entry
  <2>. QED
    BY <2>1, <2>3
<1>6. f \in Big /\ f \in Labels /\ f \in filters[ins] /\ initVertex[f] \in Group(f)
  BY <1>3, <1>4, BigLabels
<1>7. u \in V /\ f \in filters[u] /\ u \in MayLead(ins)
  <2>1. u \in V /\ f \in filters[u] /\ (Place(u) < start \/ u = initVertex[f])
    BY <1>5 DEF KnownTo
  <2>2. start <= Place(ins) /\ Place(ins) < BatchEnd
    BY <1>3, Batches
  <2>3. /\ Place(u) \in Nat /\ Place(ins) \in Nat
        /\ u # ins => Place(u) # Place(ins)
    <3>1. /\ Place(u) \in V /\ Place(ins) \in V
          /\ u # ins => Place(u) # Place(ins)
      BY <1>3, <2>1, Places DEF IndexInv
    <3>2. V \in SUBSET Nat
      BY Constants
    <3>. QED
      BY <3>1, <3>2
  <2>4. CASE Place(u) < start
    BY <1>3, <2>1, <2>2, <2>3, <2>4 DEF MayLead, Forward
  <2>5. CASE u = initVertex[f]
    <3>1. ins \in Group(f)
      BY <1>6 DEF Group
    <3>2. Place(u) <= Place(ins) /\ u # ins
      BY <1>3, <1>4, <1>6, <2>5, <3>1 DEF IndexInv
    <3>. QED
      BY <1>3, <2>1, <2>2, <2>3, <3>2 DEF MayLead, Forward
  <2>. QED
    BY <2>1, <2>4, <2>5
<1> HIDE DEF f, u, d
<1>8. shared'[ins] \in Seq(SharedEdges(ins)) /\ DOMAIN shared' = V
  <2>1. shared[ins] \in Seq(SharedEdges(ins)) /\ DOMAIN shared = V
    BY <1>3 DEF ListInv
  <2>2. overlap \in Nat
    BY <1>3, <1>7, Overlaps DEF IndexInv
  <2>3. <<d, overlap, u>> \in SharedEdges(ins)
    BY <1>5, <1>7, <2>2 DEF SharedEdges
  <2> HIDE DEF overlap
  <2>. QED
    BY <1>1, <2>1, <2>3
<1>9. \A g \in Labels : single'[g][ins] \in Seq(SingleEdges(g, ins)) /\ DOMAIN single'[g] = V
  <2>1. ASSUME NEW g \in Labels
        PROVE  single[g][ins] \in Seq(SingleEdges(g, ins)) /\ DOMAIN single[g] = V /\ g \in DOMAIN single
    BY <1>3 DEF ListInv
  <2>2. <<d, u>> \in SingleEdges(f, ins)
    BY <1>5, <1>6, <1>7 DEF SingleEdges
  <2>. QED
    BY <1>1, <1>6, <2>1, <2>2
<1>10. Alone(ins)
  <2>1. \A v \in V \ {ins} : shared'[v] = shared[v] /\ \A g \in Labels : single'[g][v] = single[g][v]
    BY <1>1, <1>3, <1>6 DEF ListInv
  <2>2. DOMAIN single' = Labels
    BY <1>1, <1>3 DEF ListInv
  <2>3. pc' \in [V -> Searching \cup {"label", "done"}]
    BY <1>2, <1>3 DEF TaskInv, Searching
  <2>4. /\ DOMAIN left' = V /\ DOMAIN label' = V /\ DOMAIN q' = V /\ DOMAIN at' = V /\ DOMAIN keep' = V
        /\ \A v \in V \ {ins} : /\ pc'[v] = pc[v] /\ left'[v] = left[v] /\ label'[v] = label[v]
                                /\ q'[v] = q[v] /\ at'[v] = at[v] /\ keep'[v] = keep[v]
    BY <1>1, <1>2, <1>3 DEF TaskInv
  <2>. QED
    BY <1>8, <1>9, <2>1, <2>2, <2>3, <2>4 DEF Alone
<1>11. pc'[ins] = "readSingle"
  BY <1>2, <1>3 DEF TaskInv
<1>12. TaskOK(ins)'
  <2>1. KnownTo(ins)' = KnownTo(ins) /\ BigOf(ins)' = BigOf(ins) /\ Running(ins)' /\ initVertex' = initVertex
    <3>1. index' = index /\ start' = start /\ Running(ins)'
      BY <1>2, SamePhase
    <3>. QED
      BY <1>2, <3>1, SameIndex DEF KnownTo
  <2>2. q'[ins] = SetFrontExpanded(q[ins]) /\ at'[ins] = u
    BY <1>1, <1>2, <1>3 DEF TaskInv
  <2>3. BeamOver(q[ins], KnownTo(ins))'
    BY <1>5, <2>1, <2>2 DEF BeamOver, Live
  <2>. QED
    BY <1>2, <1>4, <1>5, <1>11, <2>1, <2>2, <2>3 DEF TaskOK, Searching, f
<1>. QED
  BY <1>2, <1>8, <1>9, <1>10, <1>11, <1>12, TaskStep DEF Searching

\* ReadSingle: the new candidates carry the label and are of earlier batches.
LEMMA ReadSingleKeeps ==
  ASSUME BuildInv, NEW ins \in V, ReadSingle(ins)
  PROVE  BuildInv'
<1> DEFINE f == label[ins]
           list == single[f][at[ins]]
           r == Fresh(visited[ins], list, DOMAIN list)
<1>1. /\ Running(ins) /\ pc[ins] = "readSingle" /\ pc' = [pc EXCEPT ![ins] = "readShared"]
      /\ KeepsPhase /\ keep' = [keep EXCEPT ![ins] = r.new]
      /\ single' = single /\ shared' = shared /\ left' = left /\ label' = label
      /\ q' = q /\ at' = at
  BY DEF ReadSingle, Goto
<1>2. /\ TaskInv /\ ListInv /\ IndexInv /\ TaskOK(ins)
      /\ start \in 1 .. N /\ phase = "insert"
  BY <1>1 DEF BuildInv, TaskInv, ProgressInv, Running
<1>3. /\ left[ins] \subseteq BigOf(ins) /\ f \in BigOf(ins) /\ initVertex[f] # ins
      /\ BeamOver(q[ins], KnownTo(ins)) /\ at[ins] \in KnownTo(ins)
  BY <1>1, <1>2 DEF TaskOK, Searching
<1>4. f \in Big /\ f \in Labels /\ at[ins] \in V
  BY <1>2, <1>3, BigLabels DEF KnownTo
<1>5. r.new \in Seq(KnownTo(ins))
  <2>1. list \in Seq(SingleEdges(f, at[ins]))
    BY <1>2, <1>4 DEF ListInv
  <2>2. ASSUME NEW e \in SingleEdges(f, at[ins]) PROVE Target(e) \in KnownTo(ins)
    <3>1. e \in Nat \X V /\ f \in filters[e[2]] /\ e[2] \in MayLead(at[ins])
      BY DEF SingleEdges
    <3>2. Target(e) = e[2]
      BY <3>1, PairFields DEF Target
    <3>. QED
      BY <1>2, <1>3, <1>4, <3>1, <3>2, KnownEnds
  <2>3. Len(list) \in Nat /\ \A k \in 1 .. Len(list) : list[k] \in SingleEdges(f, at[ins])
    BY <2>1
  <2>4. \A k \in 1 .. Len(list) : Target(list[k]) \in KnownTo(ins)
    BY <2>2, <2>3
  <2> HIDE DEF list
  <2>. QED
    BY <2>3, <2>4, FreshFacts
<1> HIDE DEF r
<1>6. Alone(ins)
  BY <1>1, <1>2 DEF Alone, TaskInv, ListInv, Searching
<1>7. TaskOK(ins)'
  <2>1. KnownTo(ins)' = KnownTo(ins) /\ BigOf(ins)' = BigOf(ins) /\ Running(ins)' /\ initVertex' = initVertex
    <3>1. index' = index /\ start' = start /\ Running(ins)'
      BY <1>1, SamePhase
    <3>. QED
      BY <1>1, <3>1, SameIndex DEF KnownTo
  <2>2. BeamOver(q[ins], KnownTo(ins))'
    BY <1>1, <1>3, <2>1 DEF BeamOver, Live
  <2>3. keep'[ins] = r.new
    BY <1>1, <1>2 DEF TaskInv
  <2>. QED
    BY <1>1, <1>3, <1>5, <2>1, <2>2, <2>3 DEF TaskOK
<1>8. pc'[ins] = "readShared"
  BY <1>1, <1>2 DEF TaskInv
<1>9. /\ shared'[ins] \in Seq(SharedEdges(ins))
      /\ \A g \in Labels : single'[g][ins] \in Seq(SingleEdges(g, ins))
  BY <1>1, <1>2 DEF ListInv
<1>. QED
  BY <1>1, <1>6, <1>7, <1>8, <1>9, TaskStep DEF Searching

\* ReadSharedAndOffer: whatever prefix of the list it sees, what passes the label test
\* carries the label and is of an earlier batch.
LEMMA ReadSharedKeeps ==
  ASSUME BuildInv, NEW ins \in V, ReadSharedAndOffer(ins)
  PROVE  BuildInv'
<1> DEFINE f == label[ins]
           list == shared[at[ins]]
           ok(n) == {k \in 1 .. n : Passes(f, at[ins], list[k])}
           r(n) == Fresh(visited[ins], list, ok(n))
<1>1. /\ Running(ins) /\ pc[ins] = "readShared" /\ pc' = [pc EXCEPT ![ins] = "expand"]
      /\ KeepsPhase /\ keep' = [keep EXCEPT ![ins] = <<>>]
      /\ single' = single /\ shared' = shared /\ left' = left /\ label' = label /\ at' = at
  BY DEF ReadSharedAndOffer, Goto
<1>2. PICK n : q' = [q EXCEPT ![ins] = Offered(@, ins, keep[ins] \o r(n).new)]
  BY DEF ReadSharedAndOffer
<1>3. /\ TaskInv /\ ListInv /\ IndexInv /\ TaskOK(ins)
      /\ start \in 1 .. N /\ phase = "insert"
  BY <1>1 DEF BuildInv, TaskInv, ProgressInv, Running
<1>4. /\ left[ins] \subseteq BigOf(ins) /\ f \in BigOf(ins) /\ initVertex[f] # ins
      /\ BeamOver(q[ins], KnownTo(ins)) /\ at[ins] \in KnownTo(ins)
      /\ keep[ins] \in Seq(KnownTo(ins))
  BY <1>1, <1>3 DEF TaskOK, Searching
<1>5. f \in Big /\ at[ins] \in V /\ f \in filters[at[ins]]
  BY <1>3, <1>4, BigLabels DEF KnownTo
<1>6. r(n).new \in Seq(KnownTo(ins))
  <2>1. list \in Seq(SharedEdges(at[ins]))
    BY <1>3, <1>5 DEF ListInv
  <2>2. Len(list) \in Nat /\ \A k \in 1 .. Len(list) : list[k] \in SharedEdges(at[ins])
    BY <2>1
  <2>3. ASSUME NEW e \in SharedEdges(at[ins]), Passes(f, at[ins], e) PROVE Target(e) \in KnownTo(ins)
    <3>1. filters \in [V -> SUBSET Labels]
      BY <1>3 DEF IndexInv
    <3>2. Target(e) \in MayLead(at[ins]) /\ f \in filters[Target(e)]
      BY <1>5, <2>3, <3>1, PassesToCarrier
    <3>. QED
      BY <1>3, <1>4, <1>5, <3>2, KnownEnds
  <2>4. \A k \in 1 .. Len(list) : k \in ok(n) => Target(list[k]) \in KnownTo(ins)
    BY <2>2, <2>3
  <2> HIDE DEF list, ok
  <2>. QED
    BY <2>2, <2>4, FreshFacts
<1>7. BeamOver(Offered(q[ins], ins, keep[ins] \o r(n).new), KnownTo(ins))
  <2> HIDE DEF r
  <2>1. keep[ins] \o r(n).new \in Seq(KnownTo(ins))
    BY <1>4, <1>6
  <2>2. KnownTo(ins) \in SUBSET V
    BY DEF KnownTo
  <2>. QED
    BY <1>4, <2>1, <2>2, OfferedFacts
<1> DEFINE beam == Offered(q[ins], ins, keep[ins] \o r(n).new)
<1>8. q'[ins] = beam
  BY <1>2, <1>3 DEF TaskInv
<1>9. Alone(ins)
  BY <1>1, <1>2, <1>3 DEF Alone, TaskInv, ListInv, Searching
<1> HIDE DEF beam, r
<1>10. pc'[ins] = "expand"
  BY <1>1, <1>3 DEF TaskInv
<1>11. TaskOK(ins)'
  <2>1. KnownTo(ins)' = KnownTo(ins) /\ BigOf(ins)' = BigOf(ins) /\ Running(ins)' /\ initVertex' = initVertex
    <3>1. index' = index /\ start' = start /\ Running(ins)'
      BY <1>1, SamePhase
    <3>. QED
      BY <1>1, <3>1, SameIndex DEF KnownTo
  <2>2. BeamOver(q[ins], KnownTo(ins))'
    BY <1>7, <1>8, <2>1 DEF BeamOver, Live, beam
  <2>. QED
    BY <1>1, <1>4, <1>10, <2>1, <2>2 DEF TaskOK
<1>12. /\ shared'[ins] \in Seq(SharedEdges(ins))
      /\ \A g \in Labels : single'[g][ins] \in Seq(SingleEdges(g, ins))
  BY <1>1, <1>3 DEF ListInv
<1>. QED
  BY <1>1, <1>9, <1>10, <1>11, <1>12, TaskStep DEF Searching

\* EndLabel: prune_shared keeps edges of the list, no more than the degree.
LEMMA EndLabelKeeps ==
  ASSUME BuildInv, NEW ins \in V, EndLabel(ins)
  PROVE  BuildInv'
<1>1. /\ Running(ins) /\ pc[ins] = "expand" /\ pc' = [pc EXCEPT ![ins] = "label"]
      /\ KeepsPhase /\ shared' = [shared EXCEPT ![ins] = PrunedShared(@)]
      /\ single' = single /\ left' = left /\ label' = label /\ q' = q /\ at' = at /\ keep' = keep
  BY DEF EndLabel, Goto
<1>2. TaskInv /\ ListInv /\ IndexInv /\ TaskOK(ins)
  BY DEF BuildInv, TaskInv
<1>3. /\ PrunedShared(shared[ins]) \in Seq(SharedEdges(ins))
      /\ Len(PrunedShared(shared[ins])) <= SharedD
  BY <1>2, PrunedSharedFacts DEF ListInv
<1>4. shared'[ins] = PrunedShared(shared[ins])
  BY <1>1, <1>2 DEF ListInv
<1>5. Alone(ins)
  BY <1>1, <1>2 DEF Alone, TaskInv, ListInv, Searching
<1>6. pc'[ins] = "label"
  BY <1>1, <1>2 DEF TaskInv
<1>7. TaskOK(ins)'
  BY <1>1, <1>2, <1>6, IdleTaskOK DEF Searching
<1>8. \A g \in Labels : single'[g][ins] \in Seq(SingleEdges(g, ins))
  BY <1>1, <1>2 DEF ListInv
<1>. QED
  BY <1>1, <1>3, <1>4, <1>5, <1>6, <1>7, <1>8, TaskStep

\* EndTask: every list of the vector in a group of its own is pruned, and it has no other.
LEMMA EndTaskKeeps ==
  ASSUME BuildInv, NEW ins \in V, EndTask(ins)
  PROVE  BuildInv'
<1>1. /\ Running(ins) /\ pc[ins] = "label" /\ pc' = [pc EXCEPT ![ins] = "done"]
      /\ KeepsPhase /\ shared' = shared
      /\ single' = [f \in Labels |->
            IF f \in BigOf(ins) THEN [single[f] EXCEPT ![ins] = PrunedSingle(f, ins, @)] ELSE single[f]]
      /\ left' = left /\ label' = label /\ q' = q /\ at' = at /\ keep' = keep
  BY DEF EndTask, Goto
<1>2. /\ TaskInv /\ ListInv /\ IndexInv /\ TaskOK(ins) /\ DegreeInv /\ phase = "insert"
  BY <1>1 DEF BuildInv, TaskInv, Running
<1>3. ASSUME NEW f \in Labels
      PROVE  single'[f][ins] \in Seq(SingleEdges(f, ins)) /\ Len(single'[f][ins]) <= D[f]
  <2>1. single[f][ins] \in Seq(SingleEdges(f, ins)) /\ DOMAIN single[f] = V
    BY <1>2 DEF ListInv
  <2>2. CASE f \in BigOf(ins)
    <3>1. single'[f][ins] = PrunedSingle(f, ins, single[f][ins])
      BY <1>1, <2>1, <2>2
    <3>. QED
      BY <2>1, <3>1, PrunedSingleFacts
  <2>3. CASE f \notin BigOf(ins)
    <3>1. single'[f][ins] = single[f][ins]
      BY <1>1, <2>3
    <3>2. f \notin Big \/ f \notin filters[ins]
      BY <1>2, <2>3 DEF BigOf, IndexInv
    <3>3. SingleEdges(f, ins) = {}
      BY <3>2 DEF SingleEdges
    <3>4. single[f][ins] = <<>>
      BY <2>1, <3>3
    <3>. QED
      BY <2>1, <3>1, <3>4, Constants
  <2>. QED
    BY <2>2, <2>3
<1>4. shared'[ins] \in Seq(SharedEdges(ins)) /\ Len(shared'[ins]) <= SharedD
  <2>1. shared[ins] \in Seq(SharedEdges(ins))
    BY <1>2 DEF ListInv
  <2>2. pc[ins] \notin Searching
    BY <1>1 DEF Searching
  <2>. QED
    BY <1>1, <1>2, <2>1, <2>2 DEF DegreeInv
<1>5. Alone(ins)
  BY <1>1, <1>2 DEF Alone, TaskInv, ListInv, Searching
<1>6. pc'[ins] = "done"
  BY <1>1, <1>2 DEF TaskInv
<1>7. TaskOK(ins)'
  BY <1>1, <1>2, <1>6, IdleTaskOK DEF Searching
<1>. QED
  BY <1>1, <1>3, <1>4, <1>5, <1>7, TaskStep
-----------------------------------------------------------------------------
\* Lists that do not change stay as they must be if where they may lead only grows.
LEMMA ListsKept ==
  ASSUME ListInv, index' = index, shared' = shared, single' = single,
         \A v \in V : MayLead(v) \subseteq MayLead(v)'
  PROVE  ListInv'
<1>1. ASSUME NEW v \in V PROVE (shared[v] \in Seq(SharedEdges(v)))'
  <2>1. SharedEdges(v) \subseteq SharedEdges(v)'
    BY EdgesWider
  <2>2. shared[v] \in Seq(SharedEdges(v)')
    BY <2>1, SeqWider DEF ListInv
  <2>. QED
    BY <2>2
<1>2. ASSUME NEW f \in Labels, NEW v \in V PROVE (single[f][v] \in Seq(SingleEdges(f, v)))'
  <2>1. SingleEdges(f, v) \subseteq SingleEdges(f, v)'
    BY EdgesWider
  <2>2. single[f][v] \in Seq(SingleEdges(f, v)')
    BY <2>1, SeqWider DEF ListInv
  <2>. QED
    BY <2>2
<1>. QED
  BY <1>1, <1>2 DEF ListInv

\* Between the searches of two batches, tasks only keep their beams, of vertices that
\* every later search knows too.
LEMMA TasksKept ==
  ASSUME IndexInv, TaskInv, index' = index, tasks' = tasks,
         start \in Nat, start' \in Nat, start <= start', \A v \in V : pc[v] \notin Searching
  PROVE  TaskInv'
<1>1. /\ pc' = pc /\ left' = left /\ label' = label /\ q' = q /\ at' = at /\ keep' = keep
  BY DEF tasks
<1>2. ASSUME NEW v \in V PROVE TaskOK(v)'
  <2>1. TaskOK(v)
    BY DEF TaskInv
  <2>2. KnownTo(v) \subseteq KnownTo(v)'
    <3>1. SUFFICES ASSUME NEW u \in KnownTo(v) PROVE u \in KnownTo(v)'
      OBVIOUS
    <3>2. u \in V /\ Place(u) \in Nat
      <4>1. u \in V
        BY DEF KnownTo
      <4>. QED
        BY <4>1, Places, Constants DEF IndexInv
    <3>3. Place(u) < start => Place(u) < start'
      BY <3>2
    <3>. QED
      BY <1>1, <3>2, <3>3, SameIndex DEF KnownTo
  <2>3. BeamOver(q[v], KnownTo(v)')
    BY <2>1, <2>2, BeamWider DEF TaskOK
  <2>4. BeamOver(q[v], KnownTo(v))'
    BY <1>1, <2>3 DEF BeamOver, Live
  <2>5. BigOf(v)' = BigOf(v)
    BY SameIndex
  <2>. QED
    BY <1>1, <2>1, <2>4, <2>5 DEF TaskOK, Searching
<1>. QED
  BY <1>1, <1>2 DEF TaskInv

\* After the barrier no task is searching.
LEMMA NoneSearching ==
  ASSUME BuildInv, phase # "insert" \/ \A v \in Batch : pc[v] = "done"
  PROVE  \A v \in V : pc[v] \notin Searching
BY DEF BuildInv, TaskInv, TaskOK, Running, Searching

\* JoinTasks: earlier vectors may now get edges to the batch.
LEMMA JoinTasksKeeps ==
  ASSUME BuildInv, JoinTasks
  PROVE  BuildInv'
<1>1. /\ phase = "insert" /\ start < N /\ \A v \in Batch : pc[v] = "done"
      /\ phase' = "reverse" /\ reversed' = start
      /\ index' = index /\ start' = start /\ single' = single /\ shared' = shared
      /\ tasks' = tasks /\ updShared' = updShared /\ updSingle' = updSingle
  BY DEF JoinTasks
<1>2. IndexInv /\ ProgressInv /\ ListInv /\ TaskInv /\ DegreeInv /\ start \in 1 .. N
  BY DEF BuildInv, ProgressInv
<1>3. BatchEnd' = BatchEnd /\ BatchEnd \in start .. N
  BY <1>1, <1>2, Batches DEF BatchEnd, BatchBound
<1>4. IndexInv' /\ Big' = Big
  BY <1>1, <1>2, SameIndex
<1>5. ProgressInv'
  <2>1. start \in start .. BatchEnd
    BY <1>2, <1>3
  <2>. QED
    BY <1>1, <1>2, <1>3, <1>4, <2>1 DEF ProgressInv
<1>6. ListInv'
  <2>1. ASSUME NEW v \in V, NEW u \in MayLead(v) PROVE u \in MayLead(v)'
    <3>1. u \in V /\ Place(u) \in Nat /\ Place(v) \in Nat
      BY <1>2, Places, Constants DEF IndexInv, MayLead
    <3>2. Forward(v)' <=> Forward(v)
      BY <1>1, SameIndex DEF Forward
    <3>. QED
      BY <1>1, <1>2, <1>3, <3>1, <3>2, SameIndex DEF MayLead, Limit
  <2>. QED
    BY <1>1, <1>2, <2>1, ListsKept
<1>7. TaskInv'
  <2>1. start \in Nat /\ start <= start'
    BY <1>1, <1>2
  <2>. QED
    BY <1>1, <1>2, <2>1, NoneSearching, TasksKept
<1>8. DegreeInv'
  BY <1>1, <1>2 DEF DegreeInv, Searching, ProgressInv
<1>. QED
  BY <1>4, <1>5, <1>6, <1>7, <1>8 DEF BuildInv

\* ReverseDone: every list of the batch has been reversed.
LEMMA ReverseDoneKeeps ==
  ASSUME BuildInv, ReverseDone
  PROVE  BuildInv'
<1>1. /\ phase = "reverse" /\ reversed = BatchEnd /\ phase' = "prune"
      /\ index' = index /\ start' = start /\ single' = single /\ shared' = shared
      /\ tasks' = tasks /\ reversed' = reversed /\ updShared' = updShared /\ updSingle' = updSingle
  BY DEF ReverseDone
<1>2. IndexInv /\ ProgressInv /\ ListInv /\ TaskInv /\ DegreeInv /\ start \in 1 .. N
  BY DEF BuildInv, ProgressInv
<1>3. BatchEnd' = BatchEnd /\ BatchEnd \in start .. N
  BY <1>1, <1>2, Batches DEF BatchEnd, BatchBound
<1>4. IndexInv' /\ Big' = Big
  BY <1>1, <1>2, SameIndex
<1>5. ProgressInv'
  BY <1>1, <1>2, <1>4 DEF ProgressInv
<1>6. ListInv'
  <2>1. ASSUME NEW v \in V, NEW u \in MayLead(v) PROVE u \in MayLead(v)'
    <3>1. u \in V /\ Place(u) \in Nat /\ Place(v) \in Nat
      BY <1>2, Places, Constants DEF IndexInv, MayLead
    <3>2. ~ Forward(v) /\ ~ Forward(v)'
      BY <1>1, <1>2, <1>3, <3>1 DEF Forward, MayLead
    <3>. QED
      BY <1>1, <1>3, <3>1, <3>2, SameIndex DEF MayLead, Limit
  <2>. QED
    BY <1>1, <1>2, <2>1, ListsKept
<1>7. TaskInv'
  <2>1. start \in Nat /\ start <= start'
    BY <1>1, <1>2
  <2>. QED
    BY <1>1, <1>2, <2>1, NoneSearching, TasksKept
<1>8. DegreeInv'
  BY <1>1, <1>2 DEF DegreeInv
<1>. QED
  BY <1>4, <1>5, <1>6, <1>7, <1>8 DEF BuildInv

\* NextBatch: nothing is left to prune, and the lists of the next batch are still empty.
LEMMA NextBatchKeeps ==
  ASSUME BuildInv, NextBatch
  PROVE  BuildInv'
<1>1. /\ phase = "prune" /\ updShared = {} /\ updSingle = {}
      /\ start' = BatchEnd /\ phase' = "insert"
      /\ index' = index /\ single' = single /\ shared' = shared
      /\ tasks' = tasks /\ updShared' = updShared /\ updSingle' = updSingle
  BY DEF NextBatch
<1>2. IndexInv /\ ProgressInv /\ ListInv /\ TaskInv /\ DegreeInv /\ start \in 1 .. N
  BY DEF BuildInv, ProgressInv
<1>3. IndexInv' /\ Big' = Big
  BY <1>1, <1>2, SameIndex
<1>4. BatchEnd \in start .. N /\ start' \in 1 .. N
  BY <1>1, <1>2, Batches
<1>5. BatchEnd' \in start' .. N
  <2>1. BatchEnd' = LowerOf(LowerOf(2 * start', start' + BatchBound), N)
    BY DEF BatchEnd, BatchBound, LowerOf
  <2>. QED
    BY <1>4, <2>1, BatchEnds
<1>6. ProgressInv'
  BY <1>1, <1>2, <1>3, <1>4 DEF ProgressInv
<1>7. ListInv'
  <2>1. ASSUME NEW v \in V, NEW u \in MayLead(v) PROVE u \in MayLead(v)'
    <3>1. u \in V /\ Place(u) \in Nat /\ Place(v) \in Nat
      BY <1>2, Places, Constants DEF IndexInv, MayLead
    <3>2. Place(v) < BatchEnd /\ Place(u) < BatchEnd
      BY <1>1 DEF MayLead, Forward, Limit
    <3>3. Place(v)' = Place(v) /\ Place(u)' = Place(u)
      BY <1>1, SameIndex
    <3>4. ~ Forward(v)' /\ Place(v) < BatchEnd'
      BY <1>1, <1>2, <1>4, <1>5, <3>1, <3>2, <3>3 DEF Forward
    <3>. QED
      BY <1>1, <3>1, <3>2, <3>3, <3>4 DEF MayLead, Limit
  <2>. QED
    BY <1>1, <1>2, <2>1, ListsKept
<1>8. TaskInv'
  <2>1. start \in Nat /\ start' \in Nat /\ start <= start'
    BY <1>1, <1>2, <1>4
  <2>. QED
    BY <1>1, <1>2, <2>1, NoneSearching, TasksKept
<1>9. DegreeInv'
  BY <1>1, <1>2 DEF DegreeInv
<1>. QED
  BY <1>3, <1>6, <1>7, <1>8, <1>9 DEF BuildInv

\* Assemble: all vectors are inserted, so no task is left and no list is being written.
LEMMA AssembleKeeps ==
  ASSUME BuildInv, Assemble
  PROVE  BuildInv'
<1>1. /\ phase = "insert" /\ start >= N /\ phase' = "built"
      /\ index' = index /\ start' = start /\ single' = single /\ shared' = shared
      /\ tasks' = tasks /\ reversed' = reversed /\ updShared' = updShared /\ updSingle' = updSingle
  BY DEF Assemble
<1>2. IndexInv /\ ProgressInv /\ ListInv /\ TaskInv /\ DegreeInv /\ start \in 1 .. N
  BY DEF BuildInv, ProgressInv
<1>3. BatchEnd' = BatchEnd /\ BatchEnd = N /\ start = N
  <2>1. BatchEnd \in start .. N
    BY <1>2, Batches
  <2>. QED
    BY <1>1, <1>2, <2>1, Constants DEF BatchEnd, BatchBound
<1>4. IndexInv' /\ Big' = Big
  BY <1>1, <1>2, SameIndex
<1>5. ProgressInv'
  BY <1>1, <1>2, <1>3, <1>4 DEF ProgressInv
<1>6. \A v \in V : Place(v) \in 0 .. N - 1
  BY <1>2, Places, Constants DEF IndexInv
<1>7. \A v \in V : v \notin Batch
  BY <1>2, <1>3, <1>6, Batches, Constants
<1>8. ListInv'
  <2>1. ASSUME NEW v \in V, NEW u \in MayLead(v) PROVE u \in MayLead(v)'
    <3>1. u \in V /\ Place(u) < N /\ Place(v) < N
      <4>1. u \in V
        BY DEF MayLead
      <4>2. Place(u) \in 0 .. N - 1 /\ Place(v) \in 0 .. N - 1
        BY <1>6, <4>1
      <4>3. N \in Nat
        BY Constants
      <4>. QED
        BY <4>1, <4>2, <4>3
    <3>. QED
      BY <1>1, <1>3, <3>1, SameIndex DEF MayLead, Limit, Forward
  <2>. QED
    BY <1>1, <1>2, <2>1, ListsKept
<1>9. TaskInv'
  <2>1. start \in Nat /\ start <= start'
    BY <1>1, <1>2
  <2>2. \A v \in V : pc[v] \notin Searching
    BY <1>2, <1>7 DEF TaskInv, TaskOK, Running
  <2>. QED
    BY <1>1, <1>2, <2>1, <2>2, TasksKept
<1>10. DegreeInv'
  BY <1>1, <1>2, <1>7 DEF DegreeInv
<1>. QED
  BY <1>4, <1>5, <1>8, <1>9, <1>10 DEF BuildInv

\* In the phases after the barrier only the lists change: what is left of the invariant.
LEMMA ListStep ==
  ASSUME BuildInv, phase # "insert", phase' = phase, index' = index, start' = start, tasks' = tasks
  PROVE  /\ IndexInv' /\ TaskInv' /\ Big' = Big /\ BatchEnd' = BatchEnd
         /\ \A v : BigOf(v)' = BigOf(v)
<1>1. IndexInv /\ TaskInv /\ start \in Nat /\ start <= start'
  BY DEF BuildInv, ProgressInv
<1>2. TaskInv'
  BY <1>1, NoneSearching, TasksKept
<1>3. BatchEnd' = BatchEnd
  BY DEF BatchEnd, BatchBound
<1>. QED
  BY <1>1, <1>2, <1>3, SameIndex

\* The edges turned round by Reverse may stand where they are put: the list walked leads
\* to vectors before u only, and those may lead to all of the batch now.
LEMMA TurnedEdges ==
  ASSUME BuildInv, Reverse, NEW u, u = order[reversed], NEW v \in V
  PROVE  /\ u \in V
         /\ \A x \in V : MayLead(x) \subseteq MayLead(x)'
         /\ \A e \in SharedEdges(u) : Target(e) = v => Bent(e, u) \in SharedEdges(v)'
         /\ \A f, e : e \in SingleEdges(f, u) /\ Target(e) = v =>
               Bent(e, u) \in SingleEdges(f, v)'
<1>1. /\ phase = "reverse" /\ reversed < BatchEnd /\ reversed' = reversed + 1
      /\ index' = index /\ start' = start /\ phase' = phase
  BY DEF Reverse
<1>2. IndexInv /\ start \in 1 .. N /\ reversed \in start .. BatchEnd
  BY <1>1 DEF BuildInv, ProgressInv
<1>3. BatchEnd' = BatchEnd /\ BatchEnd \in start .. N
  BY <1>1, <1>2, Batches DEF BatchEnd, BatchBound
<1>4. reversed \in V
  BY <1>1, <1>2, <1>3, Constants
<1>5. u \in V /\ Place(u) = reversed /\ \A x \in V : Place(x) \in Nat
  BY <1>2, <1>4, Places, Constants DEF IndexInv
<1>6. ASSUME NEW x \in V, NEW y \in MayLead(x) PROVE y \in MayLead(x)'
  <2>1. /\ y \in V /\ Place(x) < BatchEnd
        /\ Place(y) < IF reversed <= Place(x) THEN Place(x) ELSE BatchEnd
    BY <1>1 DEF MayLead, Forward, Limit
  <2>2. Place(x) \in Nat /\ Place(y) \in Nat
    BY <1>5, <2>1
  <2>3. Place(y) < IF reversed + 1 <= Place(x) THEN Place(x) ELSE BatchEnd
    BY <1>2, <1>3, <2>1, <2>2
  <2>. QED
    BY <1>1, <1>3, <2>1, <2>3, SameIndex DEF MayLead, Forward, Limit
<1>7. ASSUME v \in MayLead(u) PROVE u \in MayLead(v)'
  <2>1. Place(v) < reversed
    BY <1>1, <1>5, <1>7, <1>2 DEF MayLead, Forward
  <2>2. ~ (reversed + 1 <= Place(v)) /\ Place(v) < BatchEnd
    BY <1>1, <1>2, <1>3, <1>5, <2>1
  <2>. QED
    BY <1>1, <1>3, <1>5, <2>2, SameIndex DEF MayLead, Forward, Limit
<1>8. ASSUME NEW e \in SharedEdges(u), Target(e) = v
      PROVE  Bent(e, u) \in SharedEdges(v)'
  <2>1. e \in Nat \X Nat \X V /\ e[2] = Overlap(u, e[3]) /\ e[3] \in MayLead(u)
    BY DEF SharedEdges
  <2>2. e = <<e[1], e[2], e[3]>> /\ e[1] \in Nat /\ e[2] \in Nat /\ Len(e) = 3
    BY <2>1, TripleFields
  <2>3. e[3] = v
    BY <1>8, <2>2 DEF Target
  <2>4. Bent(e, u) = <<e[1], e[2], u>>
    BY <2>2 DEF Bent
  <2>5. e[2] = Overlap(v, u)
    BY <1>2, <1>5, <2>1, <2>3, Overlaps DEF IndexInv
  <2>6. <<e[1], e[2], u>> \in SharedEdges(v)'
    BY <1>1, <1>5, <1>7, <2>1, <2>2, <2>3, <2>5, SameIndex DEF SharedEdges
  <2>. QED
    BY <2>4, <2>6
<1>9. ASSUME NEW f, NEW e \in SingleEdges(f, u), Target(e) = v
      PROVE  Bent(e, u) \in SingleEdges(f, v)'
  <2>1. /\ e \in Nat \X V /\ f \in Big /\ f \in filters[u] /\ f \in filters[e[2]]
        /\ e[2] \in MayLead(u)
    BY DEF SingleEdges
  <2>2. e = <<e[1], e[2]>> /\ e[1] \in Nat /\ Len(e) = 2
    BY <2>1, PairFields
  <2>3. e[2] = v
    BY <1>9, <2>2 DEF Target
  <2>4. Bent(e, u) = <<e[1], u>>
    BY <2>2 DEF Bent
  <2>5. <<e[1], u>> \in SingleEdges(f, v)'
    BY <1>1, <1>5, <1>7, <2>1, <2>2, <2>3, SameIndex DEF SingleEdges
  <2>. QED
    BY <2>4, <2>5
<1>. QED
  BY <1>5, <1>6, <1>8, <1>9

\* Reverse: lists that grow are put on the list of those to prune.
LEMMA ReverseKeeps ==
  ASSUME BuildInv, Reverse
  PROVE  BuildInv'
<1> DEFINE u == order[reversed]
<1>1. /\ phase = "reverse" /\ reversed < BatchEnd /\ reversed' = reversed + 1
      /\ single' = [f \in Labels |-> IF f \in BigOf(u)
            THEN [v \in V |-> single[f][v] \o Turned(single[f][u], v, u)] ELSE single[f]]
      /\ shared' = [v \in V |-> shared[v] \o Turned(shared[u], v, u)]
      /\ updSingle' = updSingle \cup UNION {{f} \X Ends(single[f][u]) : f \in BigOf(u)}
      /\ updShared' = updShared \cup Ends(shared[u])
      /\ index' = index /\ start' = start /\ phase' = phase /\ tasks' = tasks
  BY DEF Reverse
<1>2. IndexInv /\ ProgressInv /\ ListInv /\ DegreeInv
  BY DEF BuildInv
<1>3. IndexInv' /\ TaskInv' /\ Big' = Big /\ BatchEnd' = BatchEnd
  BY <1>1, ListStep
<1>4. /\ u \in V
      /\ \A x \in V : MayLead(x) \subseteq MayLead(x)'
  BY TurnedEdges, Constants
<1>5. \A v \in V : \A e \in SharedEdges(u) :
        Target(e) = v => Bent(e, u) \in SharedEdges(v)'
  BY TurnedEdges
<1>6. \A v \in V : \A f, e : e \in SingleEdges(f, u) /\ Target(e) = v =>
        Bent(e, u) \in SingleEdges(f, v)'
  BY TurnedEdges
<1> HIDE DEF u
<1>7. \A f \in BigOf(u) : f \in Big /\ f \in Labels
  BY <1>2, <1>4, BigLabels
<1>8. ASSUME NEW v \in V
      PROVE  /\ shared'[v] \in Seq(SharedEdges(v)')
             /\ v \notin Ends(shared[u]) => shared'[v] = shared[v]
  <2> DEFINE E == SharedEdges(u)
             F == SharedEdges(v)'
             more == Turned(shared[u], v, u)
  <2>1. shared[u] \in Seq(E) /\ shared[v] \in Seq(SharedEdges(v))
    BY <1>2, <1>4 DEF ListInv
  <2>2. \A e \in E : Target(e) = v => Bent(e, u) \in F
    BY <1>5
  <2>3. SharedEdges(v) \subseteq F
    BY <1>1, <1>4, EdgesWider
  <2> HIDE DEF E, F
  <2>4. more \in Seq(F) /\ (v \notin Ends(shared[u]) => more = <<>>)
    BY <2>1, <2>2, TurnedFacts
  <2>5. shared[v] \in Seq(F)
    BY <2>1, <2>3, SeqWider
  <2>6. shared'[v] = shared[v] \o more
    BY <1>1
  <2> HIDE DEF more
  <2>7. shared'[v] \in Seq(F) /\ (v \notin Ends(shared[u]) => shared'[v] = shared[v])
    BY <2>4, <2>5, <2>6
  <2>. QED
    BY <2>7 DEF F
<1>9. ASSUME NEW f \in Labels, NEW v \in V
      PROVE  /\ single'[f][v] \in Seq(SingleEdges(f, v)')
             /\ DOMAIN single'[f] = V
             /\ ~ (f \in BigOf(u) /\ v \in Ends(single[f][u])) => single'[f][v] = single[f][v]
  <2> DEFINE E == SingleEdges(f, u)
             F == SingleEdges(f, v)'
             list == single[f][u]
             more == Turned(list, v, u)
  <2>1. /\ list \in Seq(E) /\ single[f][v] \in Seq(SingleEdges(f, v))
        /\ DOMAIN single[f] = V
    BY <1>2, <1>4 DEF ListInv
  <2>2. \A e \in E : Target(e) = v => Bent(e, u) \in F
    BY <1>6
  <2>3. SingleEdges(f, v) \subseteq F
    BY <1>1, <1>4, EdgesWider
  <2> HIDE DEF E, F, list
  <2>4. list \in Seq(E)
    BY <2>1
  <2>5. more \in Seq(F) /\ (v \notin Ends(list) => more = <<>>)
    BY <2>2, <2>4, TurnedFacts
  <2>6. single[f][v] \in Seq(F)
    BY <2>1, <2>3, SeqWider
  <2>7. CASE f \in BigOf(u)
    <3>1. DOMAIN single'[f] = V /\ single'[f][v] = single[f][v] \o more
      BY <1>1, <2>7 DEF list
    <3> HIDE DEF more
    <3>2. single'[f][v] \in Seq(F) /\ (v \notin Ends(list) => single'[f][v] = single[f][v])
      BY <2>5, <2>6, <3>1
    <3>. QED
      BY <2>7, <3>1, <3>2 DEF F, list
  <2>8. CASE f \notin BigOf(u)
    <3>1. single'[f] = single[f]
      BY <1>1, <2>8
    <3>2. single'[f][v] \in Seq(F)
      BY <2>6, <3>1
    <3>. QED
      BY <2>1, <2>8, <3>1, <3>2 DEF F, list
  <2>. QED
    BY <2>7, <2>8 DEF F, list
<1>10. ListInv'
  <2>1. DOMAIN shared' = V /\ DOMAIN single' = Labels
    BY <1>1
  <2>2. \A v \in V : (shared[v] \in Seq(SharedEdges(v)))'
    BY <1>8
  <2>3. \A f \in Labels : DOMAIN single'[f] = V /\ \A v \in V : (single[f][v] \in Seq(SingleEdges(f, v)))'
    BY <1>4, <1>9
  <2>. QED
    BY <2>1, <2>2, <2>3 DEF ListInv
<1>11. ProgressInv'
  <2>1. reversed' \in start .. BatchEnd
    BY <1>1, <1>2, <1>3, Batches DEF ProgressInv
  <2>2. updShared' \in SUBSET V
    <3>1. shared[u] \in Seq(SharedEdges(u))
      BY <1>2, <1>4 DEF ListInv
    <3>2. \A e \in SharedEdges(u) : Target(e) \in V
      BY TripleFields DEF SharedEdges, Target
    <3>3. Ends(shared[u]) \in SUBSET V
      BY <3>1, <3>2 DEF Ends
    <3>. QED
      BY <1>1, <1>2, <3>3 DEF ProgressInv
  <2>3. updSingle' \in SUBSET (Big \X V)
    <3>1. ASSUME NEW f \in BigOf(u) PROVE {f} \X Ends(single[f][u]) \in SUBSET (Big \X V)
      <4>1. single[f][u] \in Seq(SingleEdges(f, u))
        BY <1>2, <1>4, <1>7 DEF ListInv
      <4>2. \A e \in SingleEdges(f, u) : Target(e) \in V
        BY PairFields DEF SingleEdges, Target
      <4>3. Ends(single[f][u]) \in SUBSET V
        BY <4>1, <4>2 DEF Ends
      <4>. QED
        BY <1>7, <4>3
    <3>. QED
      BY <1>1, <1>2, <3>1 DEF ProgressInv
  <2>. QED
    BY <1>1, <1>2, <1>3, <2>1, <2>2, <2>3 DEF ProgressInv
<1>12. DegreeInv'
  <2>1. ASSUME NEW v \in V PROVE Len(shared'[v]) <= SharedD \/ v \in updShared'
    BY <1>1, <1>2, <1>8 DEF DegreeInv
  <2>2. ASSUME NEW v \in V, NEW f \in Labels
        PROVE  Len(single'[f][v]) <= D[f] \/ <<f, v>> \in updSingle'
    <3>1. CASE f \in BigOf(u) /\ v \in Ends(single[f][u])
      <4>1. <<f, v>> \in {f} \X Ends(single[f][u])
        BY <3>1
      <4>. QED
        BY <1>1, <3>1, <4>1
    <3>2. CASE ~ (f \in BigOf(u) /\ v \in Ends(single[f][u]))
      BY <1>1, <1>2, <1>9, <3>2 DEF DegreeInv
    <3>. QED
      BY <3>1, <3>2
  <2>. QED
    BY <1>1, <2>1, <2>2 DEF DegreeInv
<1>. QED
  BY <1>3, <1>10, <1>11, <1>12 DEF BuildInv

\* Where edges may lead does not change while lists are pruned.
LEMMA PruneStep ==
  ASSUME BuildInv, phase = "prune", phase' = phase, index' = index, start' = start, tasks' = tasks
  PROVE  /\ \A v : SharedEdges(v)' = SharedEdges(v)
         /\ \A f, v : SingleEdges(f, v)' = SingleEdges(f, v)
<1>1. BatchEnd' = BatchEnd
  BY ListStep
<1>2. \A v : MayLead(v)' = MayLead(v)
  BY <1>1, SameIndex DEF MayLead, Forward, Limit
<1>. QED
  BY <1>2, SameIndex DEF SharedEdges, SingleEdges

\* PruneOneShared: a list is taken off the list of those to prune when it is pruned.
LEMMA PruneOneSharedKeeps ==
  ASSUME BuildInv, PruneOneShared
  PROVE  BuildInv'
<1>1. /\ phase = "prune" /\ phase' = phase /\ index' = index /\ start' = start /\ tasks' = tasks
      /\ single' = single /\ updSingle' = updSingle
  BY DEF PruneOneShared
<1>2. PICK w \in updShared : /\ shared' = [shared EXCEPT ![w] = PrunedShared(@)]
                             /\ updShared' = updShared \ {w}
  BY DEF PruneOneShared
<1>3. ProgressInv /\ ListInv /\ DegreeInv /\ w \in V
  BY <1>2 DEF BuildInv, ProgressInv
<1>4. IndexInv' /\ TaskInv' /\ Big' = Big
  BY <1>1, ListStep
<1>5. PrunedShared(shared[w]) \in Seq(SharedEdges(w)) /\ Len(PrunedShared(shared[w])) <= SharedD
  BY <1>3, PrunedSharedFacts DEF ListInv
<1>6. \A v \in V : shared'[v] = IF v = w THEN PrunedShared(shared[w]) ELSE shared[v]
  BY <1>2, <1>3 DEF ListInv
<1>7. ListInv'
  <2>1. \A v \in V : shared'[v] \in Seq(SharedEdges(v))
    BY <1>3, <1>5, <1>6 DEF ListInv
  <2>2. \A v \in V : (shared[v] \in Seq(SharedEdges(v)))'
    BY <1>1, <2>1, PruneStep
  <2>3. \A f \in Labels : \A v \in V : (single[f][v] \in Seq(SingleEdges(f, v)))'
    BY <1>1, <1>3, PruneStep DEF ListInv
  <2>4. DOMAIN shared' = V
    BY <1>2, <1>3 DEF ListInv
  <2>. QED
    BY <1>1, <1>3, <2>2, <2>3, <2>4 DEF ListInv
<1>8. ProgressInv'
  BY <1>1, <1>2, <1>3, <1>4 DEF ProgressInv
<1>9. DegreeInv'
  BY <1>1, <1>2, <1>3, <1>5, <1>6 DEF DegreeInv
<1>. QED
  BY <1>4, <1>7, <1>8, <1>9 DEF BuildInv

\* PruneOneSingle likewise.
LEMMA PruneOneSingleKeeps ==
  ASSUME BuildInv, PruneOneSingle
  PROVE  BuildInv'
<1>1. /\ phase = "prune" /\ phase' = phase /\ index' = index /\ start' = start /\ tasks' = tasks
      /\ shared' = shared /\ updShared' = updShared
  BY DEF PruneOneSingle
<1>2. PICK fv \in updSingle :
        /\ single' = [single EXCEPT ![fv[1]][fv[2]] = PrunedSingle(fv[1], fv[2], @)]
        /\ updSingle' = updSingle \ {fv}
  BY DEF PruneOneSingle
<1>3. ProgressInv /\ ListInv /\ DegreeInv
  BY DEF BuildInv
<1> DEFINE g == fv[1]
           w == fv[2]
           pruned == PrunedSingle(g, w, single[g][w])
<1>4. g \in Labels /\ w \in V /\ fv = <<g, w>>
  <2>1. fv \in Big \X V
    BY <1>3 DEF ProgressInv
  <2>. QED
    BY <2>1 DEF Big
<1>5. IndexInv' /\ TaskInv' /\ Big' = Big
  BY <1>1, ListStep
<1>6. pruned \in Seq(SingleEdges(g, w)) /\ Len(pruned) <= D[g]
  <2>1. single[g][w] \in Seq(SingleEdges(g, w))
    BY <1>3, <1>4 DEF ListInv
  <2> HIDE DEF g, w
  <2>. QED
    BY <1>4, <2>1, PrunedSingleFacts
<1>7. /\ DOMAIN single' = Labels
      /\ \A f \in Labels : DOMAIN single'[f] = V
      /\ \A f \in Labels, v \in V :
           single'[f][v] = IF f = g /\ v = w THEN pruned ELSE single[f][v]
  <2>1. DOMAIN single = Labels /\ \A f \in Labels : DOMAIN single[f] = V
    BY <1>3 DEF ListInv
  <2>2. single' = [single EXCEPT ![g][w] = pruned]
    BY <1>2
  <2> HIDE DEF g, w, pruned
  <2>. QED
    BY <1>4, <2>1, <2>2
<1> HIDE DEF g, w, pruned
<1>8. ListInv'
  <2>1. \A f \in Labels : \A v \in V : single'[f][v] \in Seq(SingleEdges(f, v))
    BY <1>3, <1>6, <1>7 DEF ListInv
  <2>2. \A f \in Labels : \A v \in V : (single[f][v] \in Seq(SingleEdges(f, v)))'
    BY <1>1, <2>1, PruneStep
  <2>3. \A v \in V : (shared[v] \in Seq(SharedEdges(v)))'
    BY <1>1, <1>3, PruneStep DEF ListInv
  <2>. QED
    BY <1>1, <1>3, <1>7, <2>2, <2>3 DEF ListInv
<1>9. ProgressInv'
  BY <1>1, <1>2, <1>3, <1>5 DEF ProgressInv
<1>10. DegreeInv'
  BY <1>1, <1>2, <1>3, <1>4, <1>6, <1>7 DEF DegreeInv
<1>. QED
  BY <1>5, <1>8, <1>9, <1>10 DEF BuildInv
-----------------------------------------------------------------------------
\* Every step keeps the invariant.
LEMMA BuildInvStep == BuildInv /\ [Next]_vars => BuildInv'
<1> SUFFICES ASSUME BuildInv, [Next]_vars PROVE BuildInv'
  OBVIOUS
<1>1. CASE JoinTasks
  BY <1>1, JoinTasksKeeps
<1>2. CASE Reverse
  BY <1>2, ReverseKeeps
<1>3. CASE ReverseDone
  BY <1>3, ReverseDoneKeeps
<1>4. CASE PruneOneShared
  BY <1>4, PruneOneSharedKeeps
<1>5. CASE PruneOneSingle
  BY <1>5, PruneOneSingleKeeps
<1>6. CASE NextBatch
  BY <1>6, NextBatchKeeps
<1>7. CASE Assemble
  BY <1>7, AssembleKeeps
<1>8. ASSUME NEW ins \in V, Task(ins) PROVE BuildInv'
  <2>1. CASE StartLabel(ins)
    BY <2>1, StartLabelKeeps
  <2>2. CASE Expand(ins)
    BY <2>2, ExpandKeeps
  <2>3. CASE ReadSingle(ins)
    BY <2>3, ReadSingleKeeps
  <2>4. CASE ReadSharedAndOffer(ins)
    BY <2>4, ReadSharedKeeps
  <2>5. CASE EndLabel(ins)
    BY <2>5, EndLabelKeeps
  <2>6. CASE EndTask(ins)
    BY <2>6, EndTaskKeeps
  <2>. QED
    BY <1>8, <2>1, <2>2, <2>3, <2>4, <2>5, <2>6 DEF Task
<1>9. CASE UNCHANGED vars
  <2>1. /\ index' = index /\ start' = start /\ phase' = phase /\ single' = single /\ shared' = shared
        /\ tasks' = tasks /\ reversed' = reversed /\ updShared' = updShared /\ updSingle' = updSingle
    BY <1>9 DEF vars
  <2>2. /\ pc' = pc /\ left' = left /\ label' = label /\ q' = q /\ at' = at /\ keep' = keep
    BY <2>1 DEF tasks
  <2>3. KeepsPhase \/ graphs' # graphs
    BY <2>1 DEF KeepsPhase
  <2>4. graphs' = graphs
    BY <1>9 DEF vars
  <2>5. /\ IndexInv' /\ Big' = Big /\ BatchEnd' = BatchEnd /\ Batch' = Batch
        /\ \A v : Running(v)' = Running(v)
        /\ \A v : SharedEdges(v)' = SharedEdges(v)
        /\ \A f, v : SingleEdges(f, v)' = SingleEdges(f, v)
    BY <2>1, <2>3, <2>4, SamePhase, SameIndex DEF BuildInv
  <2>6. ProgressInv'
    BY <2>1, <2>5 DEF BuildInv, ProgressInv
  <2>7. ListInv'
    BY <2>1, <2>5 DEF BuildInv, ListInv
  <2>8. TaskInv'
    <3>1. ASSUME NEW v \in V PROVE TaskOK(v)'
      <4>1. KnownTo(v)' = KnownTo(v) /\ BigOf(v)' = BigOf(v) /\ initVertex' = initVertex
        BY <2>1, <2>2, SameIndex DEF KnownTo
      <4>2. BeamOver(q[v], KnownTo(v))' = BeamOver(q[v], KnownTo(v))
        BY <2>2, <4>1 DEF BeamOver, Live
      <4>. QED
        BY <2>2, <2>5, <4>1, <4>2 DEF BuildInv, TaskInv, TaskOK
    <3>. QED
      BY <2>2, <3>1 DEF BuildInv, TaskInv
  <2>9. DegreeInv'
    BY <2>1, <2>2, <2>5 DEF BuildInv, DegreeInv
  <2>. QED
    BY <2>5, <2>6, <2>7, <2>8, <2>9 DEF BuildInv
<1>. QED
  BY <1>1, <1>2, <1>3, <1>4, <1>5, <1>6, <1>7, <1>8, <1>9 DEF Next, Coordinator

\* The state of the build is always as BuildInv says: the places, the batch, the lists,
\* the searches and the degrees fit together.
THEOREM BuildInvHolds == Spec => []BuildInv
<1>. QED
  BY InitBuildInv, BuildInvStep, PTL DEF Spec

\* The ends of a list are where its vector's edges may lead.
LEMMA EndsMayLead ==
  ASSUME ListInv, NEW v \in V
  PROVE  /\ \A u \in Ends(shared[v]) : u \in MayLead(v)
         /\ \A f \in Labels : \A u \in Ends(single[f][v]) :
               u \in MayLead(v) /\ f \in filters[v] /\ f \in filters[u]
<1>1. ASSUME NEW u \in Ends(shared[v]) PROVE u \in MayLead(v)
  <2>1. shared[v] \in Seq(SharedEdges(v))
    BY DEF ListInv
  <2>2. PICK k \in DOMAIN shared[v] : u = Target(shared[v][k])
    BY DEF Ends
  <2>3. shared[v][k] \in SharedEdges(v)
    BY <2>1
  <2>4. shared[v][k] \in Nat \X Nat \X V /\ shared[v][k][3] \in MayLead(v)
    BY <2>3 DEF SharedEdges
  <2>. QED
    BY <2>2, <2>4, TripleFields DEF Target
<1>2. ASSUME NEW f \in Labels, NEW u \in Ends(single[f][v])
      PROVE  u \in MayLead(v) /\ f \in filters[v] /\ f \in filters[u]
  <2>1. single[f][v] \in Seq(SingleEdges(f, v))
    BY DEF ListInv
  <2>2. PICK k \in DOMAIN single[f][v] : u = Target(single[f][v][k])
    BY DEF Ends
  <2>3. single[f][v][k] \in SingleEdges(f, v)
    BY <2>1
  <2>4. /\ single[f][v][k] \in Nat \X V /\ single[f][v][k][2] \in MayLead(v)
        /\ f \in filters[v] /\ f \in filters[single[f][v][k][2]]
    BY <2>3 DEF SingleEdges
  <2>. QED
    BY <2>2, <2>4, PairFields DEF Target
<1>. QED
  BY <1>1, <1>2

\* Searches, lists and positions stay within the group of the label: every vertex on a
\* beam and both ends of an edge of a label's graph carry the label, for any label sets,
\* any saturation of the overlaps and any schedule of the tasks.
THEOREM SearchesStayInGroup == Spec => []StaysInGroup
<1>1. BuildInv => StaysInGroup
  <2> SUFFICES ASSUME BuildInv PROVE StaysInGroup
    OBVIOUS
  <2>1. IndexInv /\ ProgressInv /\ ListInv /\ TaskInv
    BY DEF BuildInv
  <2>2. ASSUME NEW v \in V
        PROVE  /\ q[v].size \in 0 .. L
               /\ \A i \in Live(q[v]) : /\ q[v].slot[i].vid \in V
                                        /\ label[v] \in filters[q[v].slot[i].vid]
    <3>1. BeamOver(q[v], KnownTo(v))
      BY <2>1 DEF TaskInv, TaskOK
    <3>. QED
      BY <3>1 DEF BeamOver, KnownTo, QP!QueueType
  <2>3. TypeOK
    <3>1. ASSUME NEW v \in V PROVE left[v] \subseteq Labels
      BY <2>1 DEF TaskInv, TaskOK, BigOf, IndexInv
    <3>2. ASSUME NEW v \in V, NEW k \in DOMAIN shared[v] PROVE shared[v][k] \in Nat \X Nat \X V
      <4>1. shared[v] \in Seq(SharedEdges(v))
        BY <2>1 DEF ListInv
      <4>2. shared[v][k] \in SharedEdges(v)
        BY <4>1
      <4>. QED
        BY <4>2 DEF SharedEdges
    <3>3. ASSUME NEW f \in Labels, NEW v \in V, NEW k \in DOMAIN single[f][v]
          PROVE  single[f][v][k] \in Nat \X V
      <4>1. single[f][v] \in Seq(SingleEdges(f, v))
        BY <2>1 DEF ListInv
      <4>2. single[f][v][k] \in SingleEdges(f, v)
        BY <4>1
      <4>. QED
        BY <4>2 DEF SingleEdges
    <3>4. \A v \in V : pc[v] \in {"label", "expand", "readSingle", "readShared", "done"}
      BY <2>1 DEF TaskInv, Searching
    <3>. QED
      BY <2>1, <2>2, <3>1, <3>2, <3>3, <3>4 DEF TypeOK, IndexInv, ProgressInv
  <2>4. ASSUME NEW f \in Big, NEW v \in V, single[f][v] # <<>>
        PROVE  f \in filters[v] /\ \A u \in Ends(single[f][v]) : f \in filters[u]
    <3>1. f \in Labels
      BY DEF Big
    <3>2. single[f][v] \in Seq(SingleEdges(f, v))
      BY <2>1, <3>1 DEF ListInv
    <3>3. 1 \in DOMAIN single[f][v]
      BY <2>4, <3>2
    <3>4. Target(single[f][v][1]) \in Ends(single[f][v])
      BY <3>3 DEF Ends
    <3>. QED
      BY <2>1, <3>1, <3>4, EndsMayLead
  <2>. QED
    BY <2>2, <2>3, <2>4 DEF StaysInGroup
<1>. QED
  BY <1>1, BuildInvHolds, PTL

\* The one unsynchronised read of the parallel loop changes nothing: it happens only at
\* the first vector of the label searched, whose list has nothing for that label yet.
THEOREM BuildRacesAreBenign == Spec => []RacesAreBenign
<1>1. BuildInv => RacesAreBenign
  <2> SUFFICES ASSUME BuildInv, NEW r \in V, NEW w \in V, r # w, Running(r), Writing(w), at[r] = w,
                      pc[r] \in {"readSingle", "readShared"}
               PROVE  /\ initVertex[label[r]] = w /\ single[label[r]][w] = <<>>
                      /\ \A k \in DOMAIN shared[w] : ~ Passes(label[r], w, shared[w][k])
    BY DEF RacesAreBenign
  <2>1. /\ IndexInv /\ ListInv /\ start \in 1 .. N /\ TaskOK(r)
        /\ phase = "insert" /\ w \in Batch
    BY DEF BuildInv, TaskInv, ProgressInv, Writing, Running
  <2>2. label[r] \in BigOf(r) /\ w \in KnownTo(r)
    BY <2>1 DEF TaskOK, Searching
  <2>3. label[r] \in Big /\ label[r] \in Labels /\ label[r] \in filters[w]
    BY <2>1, <2>2, BigLabels DEF KnownTo
  <2>4. start <= Place(w) /\ Place(w) \in Nat
    BY <2>1, Batches, Places, Constants DEF IndexInv
  <2>5. \A u \in MayLead(w) : label[r] \notin filters[u]
    BY <2>1, <2>2, <2>3, <2>4, KnownEnds
  <2>6. initVertex[label[r]] = w
    BY <2>1, <2>2, <2>3, <2>4, KnownEnds
  <2>7. single[label[r]][w] = <<>>
    <3>1. SingleEdges(label[r], w) = {}
      BY <2>5 DEF SingleEdges
    <3>2. single[label[r]][w] \in Seq(SingleEdges(label[r], w))
      BY <2>1, <2>3 DEF ListInv
    <3>. QED
      BY <3>1, <3>2
  <2>8. ASSUME NEW k \in DOMAIN shared[w], Passes(label[r], w, shared[w][k]) PROVE FALSE
    <3>1. shared[w] \in Seq(SharedEdges(w))
      BY <2>1 DEF ListInv
    <3>2. shared[w][k] \in SharedEdges(w)
      BY <3>1
    <3>. QED
      BY <2>1, <2>3, <2>5, <2>8, <3>2, PassesToCarrier DEF IndexInv
  <2>. QED
    BY <2>6, <2>7, <2>8
<1>. QED
  BY <1>1, BuildInvHolds, PTL

\* The reverse loop walks lists it does not append to, and reverses no edge twice.
THEOREM OnlyForwardEdgesReversed == Spec => []ReversesForwardEdgesOnly
<1>1. BuildInv => ReversesForwardEdgesOnly
  <2> SUFFICES ASSUME BuildInv, phase \in {"insert", "reverse"}, NEW v \in Batch,
                      phase = "insert" \/ Place(v) >= reversed,
                      NEW u \in Ends(shared[v]) \cup UNION {Ends(single[f][v]) : f \in Labels}
               PROVE  Place(u) < Place(v)
    BY DEF ReversesForwardEdgesOnly
  <2>1. IndexInv /\ ListInv /\ start \in 1 .. N /\ (phase = "reverse" => reversed \in start .. BatchEnd)
    BY DEF BuildInv, ProgressInv
  <2>2. BatchEnd \in start .. N /\ start .. BatchEnd - 1 \in SUBSET V
    BY <2>1, Batches, Constants
  <2>3. v \in V
    BY <2>1, <2>2 DEF Batch, IndexInv
  <2>4. start <= Place(v) /\ Place(v) \in Nat
    BY <2>1, <2>3, Batches, Places, Constants DEF IndexInv
  <2>5. Forward(v)
    BY <2>1, <2>2, <2>4 DEF Forward
  <2>6. u \in MayLead(v)
    BY <2>1, <2>3, EndsMayLead
  <2>. QED
    BY <2>5, <2>6 DEF MayLead
<1>. QED
  BY <1>1, BuildInvHolds, PTL

\* The degrees asserted before the arrays are filled are respected, and so are those of
\* every vector between two batches.
THEOREM ListsWithinDegree == Spec => []DegreesBounded
<1>1. BuildInv => DegreesBounded
  <2> SUFFICES ASSUME BuildInv, phase \in {"insert", "built"}, NEW v \in V, start >= N \/ v \notin Batch
               PROVE  Len(shared[v]) <= SharedD /\ \A f \in Labels : Len(single[f][v]) <= D[f]
    BY DEF DegreesBounded
  <2>1. IndexInv /\ ProgressInv /\ DegreeInv /\ start \in 1 .. N
    BY DEF BuildInv, ProgressInv
  <2>2. v \notin Batch
    <3>1. BatchEnd \in start .. N /\ (v \in Batch <=> start <= Place(v) /\ Place(v) < BatchEnd)
      BY <2>1, Batches
    <3>2. Place(v) \in 0 .. N - 1
      BY <2>1, Places, Constants DEF IndexInv
    <3>. QED
      BY <2>1, <3>1, <3>2, Constants
  <2>. QED
    BY <2>1, <2>2 DEF DegreeInv, ProgressInv
<1>. QED
  BY <1>1, BuildInvHolds, PTL
-----------------------------------------------------------------------------
(* The insertions compared with those that run alone. *)

\* The task of v as a state of an insertion that runs alone.
TaskState(v, stage, filter) ==
    [stage |-> stage, left |-> left[v], label |-> label[v], beam |-> q[v], filter |-> filter,
     shared |-> shared[v], single |-> [f \in Labels |-> single[f][v]]]

\* Between Expand and the end of the turn the insertion that runs alone is one turn
\* behind: the front is already linked, and its neighbours are being collected.
InTurn(v) ==
    /\ lone[v].stage = "expand" /\ HasUnexpanded(lone[v].beam) /\ at[v] = Front(lone[v].beam).vid
    /\ Linked(v, lone[v]) = TaskState(v, "expand", lone[v].filter)
    /\ pc[v] = "readSingle" => visited[v] = lone[v].filter
    /\ pc[v] = "readShared" => LET one == FromSingle(lone[v].filter, label[v], at[v])
                               IN  visited[v] = one.filter /\ keep[v] = one.new

AsAlone(v) ==
    IF pc[v] \in {"readSingle", "readShared"} THEN InTurn(v)
    ELSE lone[v] = TaskState(v, pc[v], visited[v])

\* While tasks run, the lists of earlier vectors are those the batch started from, and
\* those of the batch and of later vectors were empty then.
BaseInv ==
    phase = "insert" =>
        \A v \in V :
            /\ base.shared[v] = IF Place(v) < start THEN shared[v] ELSE <<>>
            /\ \A f \in Labels : base.single[f][v] = IF Place(v) < start THEN single[f][v] ELSE <<>>

LoneInv ==
    /\ DOMAIN lone = V /\ DOMAIN visited = V
    /\ \A v \in V : Limit <= Place(v) => AsAlone(v)

ReferenceInv == BaseInv /\ LoneInv

\* Scanning a list of which every entry is passed over finds nothing.
LEMMA FreshNothing ==
  ASSUME NEW filter, NEW list, Len(list) \in Nat, NEW ok, \A k \in 1 .. Len(list) : k \notin ok
  PROVE  Fresh(filter, list, ok) = [filter |-> filter, new |-> <<>>]
<1> DEFINE Turn(r, k) ==
             IF k \in ok /\ ~ Contains(r.filter, Target(list[k]))
             THEN [filter |-> Remember(r.filter, Target(list[k])),
                   new |-> Append(r.new, Target(list[k]))]
             ELSE r
           n == Len(list)
           none == [filter |-> filter, new |-> <<>>]
           seen[k \in 0 .. Len(list)] == IF k = 0 THEN none ELSE Turn(seen[k - 1], k)
           still == [k \in 0 .. Len(list) |-> none]
<1>1. Fresh(filter, list, ok) = seen[n]
  BY DEF Fresh
<1>2. n \in Nat /\ \A k \in 1 .. n : \A r : Turn(r, k) = r
  OBVIOUS
<1> HIDE DEF Turn, none
<1>3. still = [k \in 0 .. Len(list) |-> IF k = 0 THEN none ELSE Turn(still[k - 1], k)]
  BY <1>2
<1>4. \A k \in 0 .. n : seen[k] = IF k = 0 THEN none ELSE Turn(seen[k - 1], k)
  BY <1>3
<1> HIDE DEF seen, still, n
<1> DEFINE T == {k \in 0 .. n : seen[k] = none}
<1>5. 0 \in T
  BY <1>2, <1>4
<1>6. ASSUME NEW k \in 1 .. n, k - 1 \in T PROVE k \in T
  <2>1. k \in 0 .. n /\ k # 0 /\ seen[k - 1] = none
    BY <1>2, <1>6
  <2>2. seen[k] = none
    BY <1>2, <1>4, <2>1
  <2>. QED
    BY <2>1, <2>2
<1> HIDE DEF T
<1>7. n \in T
  BY <1>2, <1>5, <1>6, CountUpTo
<1>. QED
  BY <1>1, <1>7 DEF T, none

\* On the list of a carrier, the label test passes the edges to carriers and no others.
LEMMA PassesCarriers ==
  ASSUME filters \in [V -> SUBSET Labels], NEW f, NEW w \in V, f \in filters[w],
         NEW list \in Seq(SharedEdges(w))
  PROVE  \A k \in DOMAIN list : Passes(f, w, list[k]) <=> f \in filters[Target(list[k])]
<1>1. ASSUME NEW k \in DOMAIN list PROVE Passes(f, w, list[k]) <=> f \in filters[Target(list[k])]
  <2>1. list[k] \in SharedEdges(w)
    OBVIOUS
  <2>. QED
    BY <2>1, PassesToCarrier DEF Passes
<1>. QED
  BY <1>1

\* What does not change in a step in which the labels, the order and base do not.
LEMMA SameLone ==
  ASSUME index' = index, base' = base
  PROVE  /\ \A v, l : Linked(v, l)' = Linked(v, l)
         /\ \A filter, f, u : FromSingle(filter, f, u)' = FromSingle(filter, f, u)
<1>1. \A v, l : Linked(v, l)' = Linked(v, l)
  BY SameIndex DEF Linked, Front
<1>2. \A filter, f, u : FromSingle(filter, f, u)' = FromSingle(filter, f, u)
  BY DEF FromSingle
<1>. QED
  BY <1>1, <1>2

\* A step of one task leaves the insertions of the others as they were.
LEMMA OthersAsAlone ==
  ASSUME index' = index, base' = base, NEW v \in V, AsAlone(v),
         pc'[v] = pc[v], left'[v] = left[v], label'[v] = label[v], q'[v] = q[v],
         at'[v] = at[v], keep'[v] = keep[v], visited'[v] = visited[v], lone'[v] = lone[v],
         shared'[v] = shared[v], \A f \in Labels : single'[f][v] = single[f][v]
  PROVE  AsAlone(v)'
<1>1. \A stage, filter : TaskState(v, stage, filter)' = TaskState(v, stage, filter)
  BY DEF TaskState
<1>2. InTurn(v) => InTurn(v)'
  <2>1. Linked(v, lone[v])' = Linked(v, lone[v])
    BY SameLone
  <2>2. TaskState(v, "expand", lone[v].filter)' = TaskState(v, "expand", lone[v].filter)
    BY <1>1
  <2>3. FromSingle(lone[v].filter, label[v], at[v])' = FromSingle(lone[v].filter, label[v], at[v])
    BY SameLone
  <2>. QED
    BY <2>1, <2>2, <2>3 DEF InTurn
<1>3. TaskState(v, pc[v], visited[v])' = TaskState(v, pc[v], visited[v])
  BY <1>1
<1>. QED
  BY <1>2, <1>3 DEF AsAlone

\* What a step of a task must respect: only its own insertion is to be looked at.
LEMMA ReferenceTaskStep ==
  ASSUME BuildInv, ReferenceInv, NEW ins \in V, Running(ins), KeepsPhase, Alone(ins), base' = base,
         DOMAIN visited' = V, \A v \in V \ {ins} : visited'[v] = visited[v],
         DOMAIN lone' = V, \A v \in V \ {ins} : lone'[v] = lone[v],
         AsAlone(ins)'
  PROVE  ReferenceInv'
<1>1. /\ index' = index /\ start' = start /\ phase' = phase /\ BatchEnd' = BatchEnd
      /\ \A v : Place(v)' = Place(v)
  BY SamePhase, SameIndex
<1>2. phase = "insert" /\ start <= Place(ins)
  <2>1. IndexInv /\ start \in 1 .. N
    BY DEF BuildInv, ProgressInv
  <2>. QED
    BY <2>1, Batches DEF Running
<1>3. Place(ins) \in Nat /\ start \in Nat
  BY Places, Constants DEF BuildInv, IndexInv, ProgressInv
<1>4. BaseInv'
  <2>1. ASSUME NEW v \in V, Place(v) < start
        PROVE  shared'[v] = shared[v] /\ \A f \in Labels : single'[f][v] = single[f][v]
    <3>1. v # ins
      BY <1>2, <1>3, <2>1
    <3>. QED
      BY <3>1 DEF Alone
  <2>2. ASSUME NEW v \in V
        PROVE  /\ base.shared[v] = IF Place(v) < start THEN shared'[v] ELSE <<>>
               /\ \A f \in Labels : base.single[f][v] = IF Place(v) < start THEN single'[f][v] ELSE <<>>
    BY <1>2, <2>1 DEF ReferenceInv, BaseInv
  <2>. QED
    BY <1>1, <2>2 DEF BaseInv
<1>5. LoneInv'
  <2>1. ASSUME NEW v \in V \ {ins}, Limit <= Place(v) PROVE AsAlone(v)'
    <3>1. AsAlone(v)
      BY <2>1 DEF ReferenceInv, LoneInv
    <3>2. /\ pc'[v] = pc[v] /\ left'[v] = left[v] /\ label'[v] = label[v] /\ q'[v] = q[v]
          /\ at'[v] = at[v] /\ keep'[v] = keep[v] /\ shared'[v] = shared[v]
          /\ \A f \in Labels : single'[f][v] = single[f][v]
          /\ visited'[v] = visited[v] /\ lone'[v] = lone[v]
      BY DEF Alone
    <3>. QED
      BY <1>1, <3>1, <3>2, OthersAsAlone
  <2>2. Limit' = Limit
    BY <1>1 DEF Limit
  <2>. QED
    BY <1>1, <2>1, <2>2 DEF LoneInv
<1>. QED
  BY <1>4, <1>5 DEF ReferenceInv

\* A running task has come as far as its insertion alone.
LEMMA RunningAsAlone ==
  ASSUME BuildInv, ReferenceInv, NEW ins \in V, Running(ins)
  PROVE  /\ AsAlone(ins) /\ phase = "insert" /\ start <= Place(ins)
         /\ TaskInv /\ ListInv /\ IndexInv /\ TaskOK(ins) /\ BaseInv
         /\ DOMAIN lone = V /\ DOMAIN visited = V
<1>1. phase = "insert" /\ ins \in Batch
  BY DEF Running
<1>2. /\ TaskInv /\ ListInv /\ IndexInv /\ TaskOK(ins) /\ BaseInv /\ LoneInv /\ start \in 1 .. N
  BY DEF BuildInv, ReferenceInv, TaskInv, ProgressInv
<1>3. start <= Place(ins) /\ Limit <= Place(ins)
  BY <1>1, <1>2, Batches DEF Limit
<1>. QED
  BY <1>1, <1>2, <1>3 DEF LoneInv

\* StartLabel: the label that the task takes next is the one that the insertion alone does.
LEMMA StartLabelAsAlone ==
  ASSUME BuildInv, ReferenceInv, NEW ins \in V, StartLabel(ins),
         base' = base, lone' = [lone EXCEPT ![ins] = LoneStep(ins, @)]
  PROVE  ReferenceInv'
<1> DEFINE l == lone[ins]
           filterOf(f) == Remember(NewFilter(LowerOf(L * L, Cardinality(Group(f)))), initVertex[f])
           beamOf(f) == Push(NewQueue, initVertex[f], Dist[initVertex[f]][ins])
<1>1. /\ Running(ins) /\ pc[ins] = "label" /\ pc' = [pc EXCEPT ![ins] = "expand"] /\ KeepsPhase
      /\ single' = single /\ shared' = shared /\ at' = at /\ keep' = keep
  BY DEF StartLabel, Goto
<1>2. PICK f \in left[ins] :
        /\ initVertex[f] # ins
        /\ \A g \in left[ins] : g < f => initVertex[g] = ins
        /\ label' = [label EXCEPT ![ins] = f]
        /\ left' = [left EXCEPT ![ins] = {g \in @ : g > f}]
        /\ q' = [q EXCEPT ![ins] = beamOf(f)]
        /\ visited' = [visited EXCEPT ![ins] = filterOf(f)]
  BY DEF StartLabel
<1>3. /\ AsAlone(ins) /\ TaskInv /\ ListInv /\ IndexInv /\ TaskOK(ins)
      /\ DOMAIN lone = V /\ DOMAIN visited = V
  BY <1>1, RunningAsAlone
<1>4. l = TaskState(ins, "label", visited[ins])
  BY <1>1, <1>3 DEF AsAlone
<1>5. left[ins] \subseteq Nat
  BY <1>3, BuildAssumption DEF TaskOK, BigOf, IndexInv, Big
<1>6. f \in ToSearch(ins, l) /\ \A g \in ToSearch(ins, l) : f <= g
  BY <1>2, <1>4, <1>5 DEF ToSearch, TaskState
<1>7. (CHOOSE x \in ToSearch(ins, l) : \A g \in ToSearch(ins, l) : x <= g) = f
  <2>1. \A x \in ToSearch(ins, l) : x \in Nat
    BY <1>4, <1>5 DEF ToSearch, TaskState
  <2>2. \A x \in ToSearch(ins, l) : (\A g \in ToSearch(ins, l) : x <= g) => x = f
    BY <1>6, <2>1
  <2>. QED
    BY <1>6, <2>2
<1>8. LoneStep(ins, l) =
        [stage |-> "expand", left |-> {g \in left[ins] : g > f}, label |-> f, beam |-> beamOf(f),
         filter |-> filterOf(f), shared |-> shared[ins], single |-> [g \in Labels |-> single[g][ins]]]
  <2>1. LoneStep(ins, l) = StartSearch(ins, l)
    BY <1>4, <1>6 DEF LoneStep, TaskState
  <2> HIDE DEF l, beamOf, filterOf
  <2>2. StartSearch(ins, l) = [l EXCEPT !.stage = "expand", !.left = {g \in @ : g > f}, !.label = f,
                                        !.beam = beamOf(f), !.filter = filterOf(f)]
    BY <1>7, Zenon DEF StartSearch, beamOf, filterOf
  <2>. QED
    BY <1>4, <2>1, <2>2 DEF TaskState
<1> HIDE DEF beamOf, filterOf
<1>9. AsAlone(ins)'
  <2>1. pc'[ins] = "expand" /\ lone'[ins] = LoneStep(ins, l)
    BY <1>1, <1>3 DEF TaskInv
  <2>2. /\ left'[ins] = {g \in left[ins] : g > f} /\ label'[ins] = f /\ q'[ins] = beamOf(f)
        /\ visited'[ins] = filterOf(f) /\ shared'[ins] = shared[ins]
        /\ \A g \in Labels : single'[g][ins] = single[g][ins]
    BY <1>1, <1>2, <1>3 DEF TaskInv
  <2>. QED
    BY <1>8, <2>1, <2>2 DEF AsAlone, TaskState
<1>10. Alone(ins)
  BY <1>1, <1>2, <1>3 DEF Alone, TaskInv, ListInv, Searching
<1>. QED
  BY <1>1, <1>2, <1>3, <1>9, <1>10, ReferenceTaskStep

\* Expand: the task and the insertion alone link the same vertex.
LEMMA ExpandAsAlone ==
  ASSUME BuildInv, ReferenceInv, NEW ins \in V, Expand(ins), UNCHANGED <<base, lone>>
  PROVE  ReferenceInv'
<1> DEFINE l == lone[ins]
           f == label[ins]
           u == q[ins].slot[q[ins].next_idx].vid
           d == q[ins].slot[q[ins].next_idx].dist
           sharedThen == IF Overlap(ins, u) >= MinShared
                         THEN Append(shared[ins], <<d, Overlap(ins, u), u>>) ELSE shared[ins]
           singleThen(g) == IF g = f THEN Append(single[f][ins], <<d, u>>) ELSE single[g][ins]
<1>1. /\ shared' = IF Overlap(ins, u) >= MinShared
                   THEN [shared EXCEPT ![ins] = Append(@, <<d, Overlap(ins, u), u>>)]
                   ELSE shared
      /\ single' = [single EXCEPT ![f][ins] = Append(@, <<d, u>>)]
      /\ at' = [at EXCEPT ![ins] = u]
  BY DEF Expand
<1>2. /\ Running(ins) /\ pc[ins] = "expand" /\ pc' = [pc EXCEPT ![ins] = "readSingle"]
      /\ KeepsPhase /\ HasUnexpanded(q[ins])
      /\ q' = [q EXCEPT ![ins] = SetFrontExpanded(@)]
      /\ keep' = [keep EXCEPT ![ins] = <<>>] /\ left' = left /\ label' = label /\ visited' = visited
  BY DEF Expand, Goto
<1>3. /\ AsAlone(ins) /\ TaskInv /\ ListInv /\ IndexInv /\ TaskOK(ins)
      /\ DOMAIN lone = V /\ DOMAIN visited = V
  BY <1>2, RunningAsAlone
<1>4. l = TaskState(ins, "expand", visited[ins])
  BY <1>2, <1>3 DEF AsAlone
<1>5. f \in Labels
  <2>1. f \in BigOf(ins)
    BY <1>2, <1>3 DEF TaskOK, Searching
  <2>. QED
    BY <1>3, <2>1, BigLabels
<1> HIDE DEF f
<1>6. Linked(ins, l) =
        [stage |-> "expand", left |-> left[ins], label |-> f, beam |-> SetFrontExpanded(q[ins]),
         filter |-> visited[ins], shared |-> sharedThen, single |-> [g \in Labels |-> singleThen(g)]]
  <2>1. l.beam = q[ins] /\ l.label = f /\ Front(l.beam).vid = u /\ Front(l.beam).dist = d
    BY <1>4 DEF TaskState, Front, f
  <2> HIDE DEF l, u, d
  <2>2. Linked(ins, l) =
          [l EXCEPT !.shared = IF Overlap(ins, u) >= MinShared
                               THEN Append(@, <<d, Overlap(ins, u), u>>) ELSE @,
                    !.single[f] = Append(@, <<d, u>>),
                    !.beam = SetFrontExpanded(@)]
    BY <2>1, Zenon DEF Linked
  <2>3. /\ l = [stage |-> "expand", left |-> left[ins], label |-> f, beam |-> q[ins],
                 filter |-> visited[ins], shared |-> shared[ins], single |-> [g \in Labels |-> single[g][ins]]]
        /\ l.shared = shared[ins] /\ l.single = [g \in Labels |-> single[g][ins]]
    BY <1>4 DEF TaskState, f
  <2>4. [l.single EXCEPT ![f] = Append(@, <<d, u>>)] = [g \in Labels |-> singleThen(g)]
    BY <1>5, <2>3
  <2>5. Linked(ins, l) = [l EXCEPT !.shared = sharedThen,
                                   !.single = [l.single EXCEPT ![f] = Append(@, <<d, u>>)],
                                   !.beam = SetFrontExpanded(q[ins])]
    BY <2>1, <2>2, <2>3
  <2> HIDE DEF sharedThen, singleThen
  <2>. QED
    BY <2>3, <2>4, <2>5
<1>7. /\ shared'[ins] = sharedThen /\ DOMAIN shared' = V
      /\ \A v \in V \ {ins} : shared'[v] = shared[v]
  BY <1>1, <1>3 DEF ListInv
<1>8. /\ \A g \in Labels : single'[g][ins] = singleThen(g)
      /\ DOMAIN single' = Labels
      /\ \A g \in Labels : DOMAIN single'[g] = V /\ \A v \in V \ {ins} : single'[g][v] = single[g][v]
  BY <1>1, <1>3, <1>5 DEF ListInv
<1>9. at'[ins] = u /\ q'[ins] = SetFrontExpanded(q[ins]) /\ pc'[ins] = "readSingle"
  BY <1>1, <1>2, <1>3 DEF TaskInv
<1> HIDE DEF sharedThen, singleThen
<1>10. Alone(ins)
  <2>1. pc' \in [V -> Searching \cup {"label", "done"}]
    BY <1>2, <1>3 DEF TaskInv, Searching
  <2>2. /\ DOMAIN left' = V /\ DOMAIN label' = V /\ DOMAIN q' = V /\ DOMAIN at' = V /\ DOMAIN keep' = V
        /\ \A v \in V \ {ins} : /\ pc'[v] = pc[v] /\ left'[v] = left[v] /\ label'[v] = label[v]
                                /\ q'[v] = q[v] /\ at'[v] = at[v] /\ keep'[v] = keep[v]
    BY <1>1, <1>2, <1>3 DEF TaskInv
  <2>. QED
    BY <1>7, <1>8, <2>1, <2>2 DEF Alone
<1>11. AsAlone(ins)'
  <2>1. lone'[ins] = l /\ l.stage = "expand" /\ l.filter = visited[ins] /\ l.beam = q[ins]
    BY <1>4 DEF TaskState
  <2>2. (Linked(ins, lone[ins]))' = Linked(ins, l)
    BY <1>2, SamePhase, SameLone
  <2>3. TaskState(ins, "expand", lone[ins].filter)' =
          [stage |-> "expand", left |-> left[ins], label |-> f, beam |-> SetFrontExpanded(q[ins]),
           filter |-> visited[ins], shared |-> sharedThen, single |-> [g \in Labels |-> singleThen(g)]]
    BY <1>2, <1>7, <1>8, <1>9, <2>1 DEF TaskState, f
  <2>4. InTurn(ins)'
    BY <1>2, <1>6, <1>9, <2>1, <2>2, <2>3 DEF InTurn, Front
  <2>. QED
    BY <1>9, <2>4 DEF AsAlone
<1>. QED
  BY <1>2, <1>3, <1>10, <1>11, ReferenceTaskStep

\* The lists a search reads.  Those of an earlier vector are those the batch started from.
\* Those of the label's first vector, when it is of the batch, had nothing for the label
\* then and have nothing now, whether or not its task has ended.
LEMMA SettledLists ==
  ASSUME BuildInv, ReferenceInv, NEW ins \in V, Running(ins), pc[ins] \in {"readSingle", "readShared"}
  PROVE  /\ at[ins] \in V /\ label[ins] \in Labels /\ label[ins] \in filters[at[ins]]
         /\ shared[at[ins]] \in Seq(SharedEdges(at[ins]))
         /\ single[label[ins]][at[ins]] = base.single[label[ins]][at[ins]]
         /\ \/ ~ Writing(at[ins]) /\ shared[at[ins]] = base.shared[at[ins]]
            \/ /\ base.shared[at[ins]] = <<>>
               /\ \A k \in DOMAIN shared[at[ins]] : label[ins] \notin filters[Target(shared[at[ins]][k])]
<1> DEFINE f == label[ins]
           w == at[ins]
<1>1. /\ phase = "insert" /\ TaskInv /\ ListInv /\ IndexInv /\ TaskOK(ins) /\ BaseInv /\ start \in 1 .. N
  BY RunningAsAlone DEF BuildInv, ProgressInv
<1>2. f \in BigOf(ins) /\ w \in KnownTo(ins)
  BY <1>1 DEF TaskOK, Searching
<1>3. f \in Big /\ f \in Labels /\ w \in V /\ f \in filters[w]
  BY <1>1, <1>2, BigLabels DEF KnownTo
<1>4. single[f][w] \in Seq(SingleEdges(f, w)) /\ shared[w] \in Seq(SharedEdges(w))
  BY <1>1, <1>3 DEF ListInv
<1>5. Place(w) \in Nat /\ start \in Nat
  <2>1. Place(w) \in V
    BY <1>1, <1>3, Places DEF IndexInv
  <2>. QED
    BY <1>1, <2>1, Constants
<1>6. CASE Place(w) < start
  <2>1. w \notin Batch
    BY <1>1, <1>3, <1>5, <1>6, Batches
  <2>2. ~ Writing(w)
    BY <2>1 DEF Writing, Running
  <2>3. base.shared[w] = shared[w] /\ base.single[f][w] = single[f][w]
    BY <1>1, <1>3, <1>6 DEF BaseInv
  <2>. QED
    BY <1>3, <1>4, <2>2, <2>3
<1>7. CASE ~ (Place(w) < start)
  <2>1. base.shared[w] = <<>> /\ base.single[f][w] = <<>>
    BY <1>1, <1>3, <1>7 DEF BaseInv
  <2>2. \A u \in MayLead(w) : f \notin filters[u]
    BY <1>1, <1>2, <1>3, <1>5, <1>7, KnownEnds
  <2>3. SingleEdges(f, w) = {}
    BY <2>2 DEF SingleEdges
  <2>4. single[f][w] = <<>>
    BY <1>4, <2>3
  <2>5. ASSUME NEW k \in DOMAIN shared[w] PROVE f \notin filters[Target(shared[w][k])]
    <3>1. shared[w][k] \in SharedEdges(w)
      BY <1>4
    <3>2. shared[w][k] \in Nat \X Nat \X V /\ shared[w][k][3] \in MayLead(w)
      BY <3>1 DEF SharedEdges
    <3>3. Target(shared[w][k]) = shared[w][k][3]
      BY <3>2, TripleFields DEF Target
    <3>. QED
      BY <2>2, <3>2, <3>3
  <2>. QED
    BY <1>3, <1>4, <2>1, <2>4, <2>5
<1>. QED
  BY <1>6, <1>7

\* ReadSingle: the task reads the list the insertion alone reads.
LEMMA ReadSingleAsAlone ==
  ASSUME BuildInv, ReferenceInv, NEW ins \in V, ReadSingle(ins), UNCHANGED <<base, lone>>
  PROVE  ReferenceInv'
<1> DEFINE r == Fresh(visited[ins], single[label[ins]][at[ins]], DOMAIN single[label[ins]][at[ins]])
<1>1. /\ Running(ins) /\ pc[ins] = "readSingle" /\ pc' = [pc EXCEPT ![ins] = "readShared"]
      /\ KeepsPhase /\ keep' = [keep EXCEPT ![ins] = r.new] /\ visited' = [visited EXCEPT ![ins] = r.filter]
      /\ single' = single /\ shared' = shared /\ left' = left /\ label' = label
      /\ q' = q /\ at' = at
  BY DEF ReadSingle, Goto
<1>2. /\ AsAlone(ins) /\ TaskInv /\ ListInv /\ IndexInv /\ TaskOK(ins)
      /\ DOMAIN lone = V /\ DOMAIN visited = V
  BY <1>1, RunningAsAlone
<1>3. InTurn(ins) /\ visited[ins] = lone[ins].filter
  BY <1>1, <1>2 DEF AsAlone, InTurn
<1>4. single[label[ins]][at[ins]] = base.single[label[ins]][at[ins]]
  BY <1>1, SettledLists
<1>5. r = FromSingle(lone[ins].filter, label[ins], at[ins])
  BY <1>3, <1>4 DEF FromSingle
<1> HIDE DEF r
<1>6. pc'[ins] = "readShared" /\ visited'[ins] = r.filter /\ keep'[ins] = r.new
  BY <1>1, <1>2 DEF TaskInv
<1>7. AsAlone(ins)'
  <2>1. (Linked(ins, lone[ins]))' = Linked(ins, lone[ins])
    BY <1>1, SamePhase, SameLone
  <2>2. FromSingle(lone[ins].filter, label[ins], at[ins])' = FromSingle(lone[ins].filter, label[ins], at[ins])
    BY <1>1, SamePhase, SameLone
  <2>3. TaskState(ins, "expand", lone[ins].filter)' = TaskState(ins, "expand", lone[ins].filter)
    BY <1>1 DEF TaskState
  <2>4. InTurn(ins)'
    BY <1>1, <1>3, <1>5, <1>6, <2>1, <2>2, <2>3 DEF InTurn
  <2>. QED
    BY <1>6, <2>4 DEF AsAlone
<1>8. Alone(ins)
  BY <1>1, <1>2 DEF Alone, TaskInv, ListInv, Searching
<1>. QED
  BY <1>1, <1>2, <1>7, <1>8, ReferenceTaskStep

\* ReadSharedAndOffer: the task offers its beam what the insertion alone offers.
LEMMA ReadSharedAsAlone ==
  ASSUME BuildInv, ReferenceInv, NEW ins \in V, ReadSharedAndOffer(ins),
         base' = base, lone' = [lone EXCEPT ![ins] = LoneStep(ins, @)]
  PROVE  ReferenceInv'
<1> DEFINE l == lone[ins]
           f == label[ins]
           w == at[ins]
           list == shared[w]
           ok(n) == {k \in 1 .. n : Passes(f, w, list[k])}
           r(n) == Fresh(visited[ins], list, ok(n))
<1>1. /\ Running(ins) /\ pc[ins] = "readShared" /\ pc' = [pc EXCEPT ![ins] = "expand"]
      /\ KeepsPhase /\ keep' = [keep EXCEPT ![ins] = <<>>]
      /\ single' = single /\ shared' = shared /\ left' = left /\ label' = label /\ at' = at
  BY DEF ReadSharedAndOffer, Goto
<1>2. PICK n \in IF Writing(w) THEN 0 .. Len(list) ELSE {Len(list)} :
        /\ visited' = [visited EXCEPT ![ins] = r(n).filter]
        /\ q' = [q EXCEPT ![ins] = Offered(@, ins, keep[ins] \o r(n).new)]
  BY DEF ReadSharedAndOffer
<1>3. /\ AsAlone(ins) /\ TaskInv /\ ListInv /\ IndexInv /\ TaskOK(ins)
      /\ DOMAIN lone = V /\ DOMAIN visited = V
  BY <1>1, RunningAsAlone
<1>4. InTurn(ins)
  BY <1>1, <1>3 DEF AsAlone
<1>5. /\ w \in V /\ f \in filters[w] /\ list \in Seq(SharedEdges(w))
      /\ \/ ~ Writing(w) /\ list = base.shared[w]
         \/ base.shared[w] = <<>> /\ \A k \in DOMAIN list : f \notin filters[Target(list[k])]
  BY <1>1, SettledLists
<1>6. /\ Len(list) \in Nat /\ DOMAIN list = 1 .. Len(list) /\ n \in 0 .. Len(list)
      /\ \A k \in 1 .. Len(list) : Passes(f, w, list[k]) <=> f \in filters[Target(list[k])]
  <2>1. Len(list) \in Nat /\ DOMAIN list = 1 .. Len(list)
    BY <1>5
  <2>2. \A k \in DOMAIN list : Passes(f, w, list[k]) <=> f \in filters[Target(list[k])]
    BY <1>3, <1>5, PassesCarriers DEF IndexInv
  <2>. QED
    BY <1>2, <2>1, <2>2
<1>7. r(n) = FromShared(visited[ins], f, w)
  <2>1. CASE ~ Writing(w) /\ list = base.shared[w]
    <3>1. n = Len(list)
      BY <1>2, <2>1
    <3>2. ok(n) = {k \in DOMAIN list : f \in filters[Target(list[k])]}
      BY <1>6, <3>1
    <3>. QED
      BY <2>1, <3>2 DEF FromShared
  <2>2. CASE base.shared[w] = <<>> /\ \A k \in DOMAIN list : f \notin filters[Target(list[k])]
    <3>1. \A k \in 1 .. Len(list) : k \notin ok(n)
      BY <1>6, <2>2
    <3>2. r(n) = [filter |-> visited[ins], new |-> <<>>]
      <4> HIDE DEF list, ok
      <4>. QED
        BY <1>6, <3>1, FreshNothing
    <3>3. Len(<<>>) = 0 /\ \A k \in 1 .. Len(<<>>) : FALSE
      OBVIOUS
    <3>4. \A S : Fresh(visited[ins], <<>>, S) = [filter |-> visited[ins], new |-> <<>>]
      BY <3>3, FreshNothing
    <3>5. FromShared(visited[ins], f, w) = [filter |-> visited[ins], new |-> <<>>]
      BY <2>2, <3>4 DEF FromShared
    <3>. QED
      BY <3>2, <3>5
  <2>. QED
    BY <1>5, <2>1, <2>2
<1> DEFINE one == FromSingle(l.filter, f, w)
           both == FromShared(one.filter, f, w)
           beam == Offered(q[ins], ins, one.new \o both.new)
<1>8. visited[ins] = one.filter /\ keep[ins] = one.new
  BY <1>1, <1>4 DEF InTurn
<1>9. r(n) = both
  BY <1>7, <1>8
<1> HIDE DEF r
<1>10. /\ visited'[ins] = both.filter /\ q'[ins] = beam /\ pc'[ins] = "expand"
  BY <1>1, <1>2, <1>3, <1>8, <1>9 DEF TaskInv
<1>11. LoneStep(ins, l) =
         [stage |-> "expand", left |-> left[ins], label |-> f, beam |-> beam, filter |-> both.filter,
          shared |-> shared[ins], single |-> [g \in Labels |-> single[g][ins]]]
  <2> DEFINE m == TaskState(ins, "expand", l.filter)
  <2>1. l.stage = "expand" /\ HasUnexpanded(l.beam) /\ Front(l.beam).vid = w /\ Linked(ins, l) = m
    BY <1>4 DEF InTurn
  <2>2. LoneStep(ins, l) = Followed(ins, m, w)
    BY <2>1 DEF LoneStep
  <2>3. m = [stage |-> "expand", left |-> left[ins], label |-> f, beam |-> q[ins], filter |-> l.filter,
             shared |-> shared[ins], single |-> [g \in Labels |-> single[g][ins]]]
    BY DEF TaskState
  <2>4. m.filter = l.filter /\ m.label = f /\ m.beam = q[ins]
    BY <2>3
  <2> HIDE DEF m, f, w
  <2>5. Followed(ins, m, w) = [m EXCEPT !.filter = both.filter, !.beam = beam]
    BY <2>4 DEF Followed
  <2> HIDE DEF beam, both
  <2>. QED
    BY <2>2, <2>3, <2>5
<1> HIDE DEF one, both, beam
<1>12. AsAlone(ins)'
  <2>1. lone'[ins] = LoneStep(ins, l)
    BY <1>3
  <2>. QED
    BY <1>1, <1>10, <1>11, <2>1 DEF AsAlone, TaskState
<1>13. Alone(ins)
  BY <1>1, <1>2, <1>3 DEF Alone, TaskInv, ListInv, Searching
<1>. QED
  BY <1>1, <1>2, <1>3, <1>12, <1>13, ReferenceTaskStep

\* EndLabel: the searches end together, and the shared lists are pruned alike.
LEMMA EndLabelAsAlone ==
  ASSUME BuildInv, ReferenceInv, NEW ins \in V, EndLabel(ins),
         base' = base, lone' = [lone EXCEPT ![ins] = LoneStep(ins, @)]
  PROVE  ReferenceInv'
<1>1. /\ Running(ins) /\ pc[ins] = "expand" /\ pc' = [pc EXCEPT ![ins] = "label"]
      /\ KeepsPhase /\ ~ HasUnexpanded(q[ins]) /\ shared' = [shared EXCEPT ![ins] = PrunedShared(@)]
      /\ single' = single /\ left' = left /\ label' = label /\ q' = q /\ at' = at /\ keep' = keep
      /\ visited' = visited
  BY DEF EndLabel, Goto
<1>2. /\ AsAlone(ins) /\ TaskInv /\ ListInv
      /\ DOMAIN lone = V /\ DOMAIN visited = V
  BY <1>1, RunningAsAlone
<1> DEFINE l == lone[ins]
<1>3. l = TaskState(ins, "expand", visited[ins])
  BY <1>1, <1>2 DEF AsAlone
<1>4. LoneStep(ins, l) =
        [stage |-> "label", left |-> left[ins], label |-> label[ins], beam |-> q[ins],
         filter |-> visited[ins], shared |-> PrunedShared(shared[ins]),
         single |-> [g \in Labels |-> single[g][ins]]]
  <2>1. l.stage = "expand" /\ l.beam = q[ins]
    BY <1>3 DEF TaskState
  <2>2. LoneStep(ins, l) = [l EXCEPT !.stage = "label", !.shared = PrunedShared(@)]
    BY <1>1, <2>1 DEF LoneStep
  <2>3. /\ l = [stage |-> "expand", left |-> left[ins], label |-> label[ins], beam |-> q[ins],
                 filter |-> visited[ins], shared |-> shared[ins], single |-> [g \in Labels |-> single[g][ins]]]
        /\ l.shared = shared[ins]
    BY <1>3 DEF TaskState
  <2> HIDE DEF l
  <2>. QED
    BY <2>2, <2>3
<1>5. pc'[ins] = "label" /\ shared'[ins] = PrunedShared(shared[ins]) /\ lone'[ins] = LoneStep(ins, l)
  BY <1>1, <1>2 DEF TaskInv, ListInv
<1>6. AsAlone(ins)'
  BY <1>1, <1>4, <1>5 DEF AsAlone, TaskState
<1>7. Alone(ins)
  BY <1>1, <1>2 DEF Alone, TaskInv, ListInv, Searching
<1>. QED
  BY <1>1, <1>2, <1>6, <1>7, ReferenceTaskStep

\* EndTask: the labels run out together; the label test passes over the same vectors.
LEMMA EndTaskAsAlone ==
  ASSUME BuildInv, ReferenceInv, NEW ins \in V, EndTask(ins),
         base' = base, lone' = [lone EXCEPT ![ins] = LoneStep(ins, @)]
  PROVE  ReferenceInv'
<1> DEFINE l == lone[ins]
           carriers(f) == {u \in Ends(shared[ins]) : f \in filters[u]}
           singleThen(f) == IF f \in BigOf(ins) THEN PruneTo(single[f][ins], D[f], carriers(f)) ELSE single[f][ins]
<1>1. /\ Running(ins) /\ pc[ins] = "label" /\ pc' = [pc EXCEPT ![ins] = "done"]
      /\ KeepsPhase /\ shared' = shared
      /\ \A f \in left[ins] : initVertex[f] = ins
      /\ single' = [f \in Labels |->
            IF f \in BigOf(ins) THEN [single[f] EXCEPT ![ins] = PrunedSingle(f, ins, @)] ELSE single[f]]
      /\ left' = left /\ label' = label /\ q' = q /\ at' = at /\ keep' = keep /\ visited' = visited
  BY DEF EndTask, Goto
<1>2. /\ AsAlone(ins) /\ TaskInv /\ ListInv /\ IndexInv
      /\ DOMAIN lone = V /\ DOMAIN visited = V
  BY <1>1, RunningAsAlone
<1>3. l = TaskState(ins, "label", visited[ins])
  BY <1>1, <1>2 DEF AsAlone
<1>4. ASSUME NEW f \in BigOf(ins), NEW list
      PROVE  PrunedSingle(f, ins, list) = PruneTo(list, D[f], carriers(f))
  <2>1. f \in filters[ins] /\ filters \in [V -> SUBSET Labels] /\ shared[ins] \in Seq(SharedEdges(ins))
    BY <1>2 DEF BigOf, IndexInv, ListInv
  <2>2. \A k \in DOMAIN shared[ins] :
          Passes(f, ins, shared[ins][k]) <=> f \in filters[Target(shared[ins][k])]
    BY <2>1, PassesCarriers
  <2>3. {Target(shared[ins][i]) : i \in {k \in DOMAIN shared[ins] : Passes(f, ins, shared[ins][k])}}
          = carriers(f)
    BY <2>2 DEF Ends
  <2>. QED
    BY <2>3 DEF PrunedSingle
<1>5. LoneStep(ins, l) =
        [stage |-> "done", left |-> left[ins], label |-> label[ins], beam |-> q[ins],
         filter |-> visited[ins], shared |-> shared[ins], single |-> [f \in Labels |-> singleThen(f)]]
  <2>1. /\ l = [stage |-> "label", left |-> left[ins], label |-> label[ins], beam |-> q[ins],
                filter |-> visited[ins], shared |-> shared[ins], single |-> [f \in Labels |-> single[f][ins]]]
        /\ l.stage = "label" /\ l.left = left[ins] /\ l.shared = shared[ins]
        /\ l.single = [f \in Labels |-> single[f][ins]]
    BY <1>3 DEF TaskState
  <2>2. ToSearch(ins, l) = {}
    BY <1>1, <2>1 DEF ToSearch
  <2>3. LoneStep(ins, l) =
          [l EXCEPT !.stage = "done",
                    !.single = [f \in Labels |-> IF f \in BigOf(ins) THEN PrunedFor(f, l) ELSE @[f]]]
    BY <2>1, <2>2 DEF LoneStep
  <2> HIDE DEF l
  <2>4. [f \in Labels |-> IF f \in BigOf(ins) THEN PrunedFor(f, l) ELSE l.single[f]]
          = [f \in Labels |-> singleThen(f)]
    BY <2>1 DEF PrunedFor
  <2> HIDE DEF singleThen
  <2>. QED
    BY <2>1, <2>3, <2>4
<1>6. /\ DOMAIN single' = Labels
      /\ \A f \in Labels : /\ DOMAIN single'[f] = V /\ single'[f][ins] = singleThen(f)
                           /\ \A v \in V \ {ins} : single'[f][v] = single[f][v]
  <2>1. ASSUME NEW f \in Labels
        PROVE  /\ DOMAIN single'[f] = V /\ single'[f][ins] = singleThen(f)
               /\ \A v \in V \ {ins} : single'[f][v] = single[f][v]
    <3>1. DOMAIN single[f] = V
      BY <1>2 DEF ListInv
    <3>2. single'[f] = IF f \in BigOf(ins)
                       THEN [single[f] EXCEPT ![ins] = PrunedSingle(f, ins, @)] ELSE single[f]
      BY <1>1
    <3>3. CASE f \in BigOf(ins)
      <4>1. PrunedSingle(f, ins, single[f][ins]) = singleThen(f)
        BY <1>4, <3>3
      <4> HIDE DEF singleThen
      <4>. QED
        BY <3>1, <3>2, <3>3, <4>1
    <3>4. CASE f \notin BigOf(ins)
      BY <3>1, <3>2, <3>4
    <3>. QED
      BY <3>3, <3>4
  <2>. QED
    BY <1>1, <2>1
<1>7. pc'[ins] = "done" /\ lone'[ins] = LoneStep(ins, l)
  BY <1>1, <1>2 DEF TaskInv
<1> HIDE DEF singleThen
<1>8. AsAlone(ins)'
  BY <1>1, <1>5, <1>6, <1>7 DEF AsAlone, TaskState
<1>9. Alone(ins)
  BY <1>1, <1>2, <1>6 DEF Alone, TaskInv, ListInv, Searching
<1>. QED
  BY <1>1, <1>2, <1>8, <1>9, ReferenceTaskStep

\* Vectors of later batches have no edges yet.
LEMMA NotYetLinked ==
  BuildInv => \A v \in V : BatchEnd <= Place(v) =>
                 shared[v] = <<>> /\ \A f \in Labels : single[f][v] = <<>>
<1> SUFFICES ASSUME BuildInv, NEW v \in V, BatchEnd <= Place(v)
             PROVE  shared[v] = <<>> /\ \A f \in Labels : single[f][v] = <<>>
  OBVIOUS
<1>1. ~ (Place(v) < BatchEnd)
  <2>1. Place(v) \in V /\ BatchEnd \in start .. N /\ start \in 1 .. N
    BY Places, Batches DEF BuildInv, IndexInv, ProgressInv
  <2>2. Place(v) \in Nat /\ BatchEnd \in Nat
    BY <2>1, Constants
  <2>. QED
    BY <2>2
<1>2. SharedEdges(v) = {} /\ \A f \in Labels : SingleEdges(f, v) = {}
  BY <1>1 DEF MayLead, SharedEdges, SingleEdges
<1>3. shared[v] \in Seq(SharedEdges(v)) /\ \A f \in Labels : single[f][v] \in Seq(SingleEdges(f, v))
  BY DEF BuildInv, ListInv
<1>. QED
  BY <1>2, <1>3

\* Between two loops of tasks, the insertions to come stay as they are at their start.
LEMMA CoordinatorAsAlone ==
  ASSUME BuildInv, BuildInv', ReferenceInv, Coordinator,
         base' = IF phase' = "insert" THEN Lists ELSE base, lone' = lone
  PROVE  ReferenceInv'
<1>1. /\ index' = index /\ tasks' = tasks
      /\ phase # "insert" \/ start >= N \/ \A v \in Batch : pc[v] = "done"
      /\ \/ phase' # "insert" /\ start' = start
         \/ phase' = "insert" /\ start' = BatchEnd /\ single' = single /\ shared' = shared
  BY DEF Coordinator, JoinTasks, Reverse, ReverseDone, PruneOneShared, PruneOneSingle, NextBatch, Assemble
<1>2. /\ IndexInv /\ ProgressInv /\ ListInv /\ TaskInv /\ start \in 1 .. N /\ LoneInv
      /\ BatchEnd \in start .. N /\ \A v : Place(v)' = Place(v)
  <2>1. /\ IndexInv /\ ProgressInv /\ ListInv /\ TaskInv /\ start \in 1 .. N /\ LoneInv
    BY DEF BuildInv, ProgressInv, ReferenceInv
  <2>. QED
    BY <1>1, <2>1, Batches, SameIndex
<1>3. \A v \in V : Place(v) \in 0 .. N - 1
  BY <1>2, Places, Constants DEF IndexInv
<1>4. \A v \in V : pc[v] \notin Searching
  <2>1. CASE phase # "insert" \/ \A v \in Batch : pc[v] = "done"
    BY <2>1, NoneSearching
  <2>2. CASE start >= N
    <3>1. \A v \in V : v \notin Batch
      BY <1>2, <1>3, <2>2, Batches, Constants
    <3>. QED
      BY <1>2, <3>1 DEF TaskInv, TaskOK, Running
  <2>. QED
    BY <1>1, <2>1, <2>2
<1>5. Limit' = BatchEnd /\ (phase' # "insert" => BatchEnd' = BatchEnd)
  BY <1>1 DEF Limit, BatchEnd, BatchBound
<1>6. BuildInv' => (\A v \in V : BatchEnd <= Place(v) =>
                       shared[v] = <<>> /\ \A f \in Labels : single[f][v] = <<>>)'
  BY NotYetLinked, PTL
<1>7. ASSUME NEW v \in V, BatchEnd <= Place(v)
      PROVE  /\ shared'[v] = shared[v] /\ shared[v] = <<>>
             /\ \A f \in Labels : single'[f][v] = single[f][v] /\ single[f][v] = <<>>
  <2>1. shared[v] = <<>> /\ \A f \in Labels : single[f][v] = <<>>
    BY <1>7, NotYetLinked
  <2>2. CASE phase' # "insert"
    <3>1. shared'[v] = <<>> /\ \A f \in Labels : single'[f][v] = <<>>
      BY <1>2, <1>5, <1>6, <1>7, <2>2
    <3>. QED
      BY <2>1, <3>1
  <2>3. CASE single' = single /\ shared' = shared
    BY <2>1, <2>3
  <2>. QED
    BY <1>1, <2>2, <2>3
<1>8. ASSUME NEW v \in V, BatchEnd <= Place(v) PROVE AsAlone(v)'
  <2>1. Limit <= Place(v)
    BY <1>2, <1>3, <1>8 DEF Limit
  <2>2. lone[v] = TaskState(v, pc[v], visited[v])
    BY <1>2, <1>4, <2>1 DEF LoneInv, AsAlone, Searching
  <2>3. pc' = pc /\ left' = left /\ label' = label /\ q' = q /\ visited' = visited
    BY <1>1 DEF tasks
  <2>4. TaskState(v, pc[v], visited[v])' = TaskState(v, pc[v], visited[v])
    BY <1>7, <1>8, <2>3 DEF TaskState
  <2>. QED
    BY <1>4, <2>2, <2>3, <2>4 DEF AsAlone, Searching
<1>9. LoneInv'
  BY <1>1, <1>2, <1>5, <1>8 DEF LoneInv, tasks
<1>10. BaseInv'
  <2>1. CASE phase' # "insert"
    BY <2>1 DEF BaseInv
  <2>2. CASE phase' = "insert"
    <3>1. /\ start' = BatchEnd /\ single' = single /\ shared' = shared
          /\ base'.shared = shared /\ base'.single = single
      BY <1>1, <2>2 DEF Lists
    <3>2. \A v \in V : Place(v) < BatchEnd \/ BatchEnd <= Place(v)
      BY <1>2, <1>3
    <3>3. ASSUME NEW v \in V
          PROVE  /\ shared[v] = IF Place(v) < BatchEnd THEN shared[v] ELSE <<>>
                 /\ \A f \in Labels : single[f][v] = IF Place(v) < BatchEnd THEN single[f][v] ELSE <<>>
      BY <1>7, <3>2
    <3>. QED
      BY <1>2, <3>1, <3>3 DEF BaseInv
  <2>. QED
    BY <2>1, <2>2
<1>. QED
  BY <1>9, <1>10 DEF ReferenceInv

\* Both start with nothing done.
LEMMA InitReferenceInv == ReferenceInit => BuildInv /\ ReferenceInv
<1> SUFFICES ASSUME ReferenceInit PROVE BuildInv /\ ReferenceInv
  OBVIOUS
<1>1. Init /\ base = Lists /\ lone = [v \in V |-> LoneStart(v)]
  BY DEF ReferenceInit
<1>2. BuildInv
  BY <1>1, InitBuildInv
<1>3. BaseInv
  BY <1>1 DEF BaseInv, Lists, Init
<1>4. LoneInv
  <2>1. ASSUME NEW v \in V PROVE AsAlone(v)
    <3>1. pc[v] = "label" /\ lone[v] = LoneStart(v)
      BY <1>1 DEF Init
    <3>2. LoneStart(v) = TaskState(v, "label", visited[v])
      BY <1>1 DEF Init, LoneStart, TaskState
    <3>. QED
      BY <3>1, <3>2 DEF AsAlone
  <2>. QED
    BY <1>1, <2>1 DEF LoneInv, Init
<1>. QED
  BY <1>2, <1>3, <1>4 DEF ReferenceInv

\* The steps of the extended specification are steps of HybridBuild.
LEMMA ReferenceStepIsStep == [ReferenceNext]_refVars => [Next]_vars
BY DEF ReferenceNext, BeginsTurn, EndsTurn, refVars, Next, Task

\* Every step keeps the tasks as far as the insertions alone.
LEMMA ReferenceInvStep ==
  BuildInv /\ ReferenceInv /\ [ReferenceNext]_refVars => BuildInv' /\ ReferenceInv'
<1> SUFFICES ASSUME BuildInv, ReferenceInv, [ReferenceNext]_refVars PROVE BuildInv' /\ ReferenceInv'
  OBVIOUS
<1>1. BuildInv'
  BY ReferenceStepIsStep, BuildInvStep
<1>2. CASE Coordinator /\ base' = (IF phase' = "insert" THEN Lists ELSE base) /\ lone' = lone
  BY <1>1, <1>2, CoordinatorAsAlone
<1>3. ASSUME NEW ins \in V, BeginsTurn(ins), UNCHANGED <<base, lone>>
      PROVE  ReferenceInv'
  BY <1>3, ExpandAsAlone, ReadSingleAsAlone DEF BeginsTurn
<1>4. ASSUME NEW ins \in V, EndsTurn(ins), base' = base,
             lone' = [lone EXCEPT ![ins] = LoneStep(ins, @)]
      PROVE  ReferenceInv'
  <2>1. CASE StartLabel(ins)
    BY <1>4, <2>1, StartLabelAsAlone
  <2>2. CASE ReadSharedAndOffer(ins)
    BY <1>4, <2>2, ReadSharedAsAlone
  <2>3. CASE EndLabel(ins)
    BY <1>4, <2>3, EndLabelAsAlone
  <2>4. CASE EndTask(ins)
    BY <1>4, <2>4, EndTaskAsAlone
  <2>. QED
    BY <1>4, <2>1, <2>2, <2>3, <2>4 DEF EndsTurn
<1>5. CASE UNCHANGED refVars
  <2>1. /\ index' = index /\ start' = start /\ phase' = phase /\ single' = single /\ shared' = shared
        /\ tasks' = tasks /\ base' = base /\ lone' = lone
    BY <1>5 DEF refVars, vars
  <2>2. /\ pc' = pc /\ left' = left /\ label' = label /\ q' = q /\ visited' = visited
        /\ at' = at /\ keep' = keep
    BY <2>1 DEF tasks
  <2>3. Limit' = Limit /\ \A v : Place(v)' = Place(v)
    BY <2>1, SameIndex DEF Limit, BatchEnd, BatchBound
  <2>4. BaseInv'
    BY <2>1, <2>3 DEF ReferenceInv, BaseInv
  <2>5. ASSUME NEW v \in V, Limit <= Place(v) PROVE AsAlone(v)'
    BY <2>1, <2>2, <2>5, OthersAsAlone DEF ReferenceInv, LoneInv
  <2>6. LoneInv'
    BY <2>1, <2>2, <2>3, <2>5 DEF ReferenceInv, LoneInv
  <2>. QED
    BY <1>1, <2>4, <2>6 DEF ReferenceInv
<1>. QED
  BY <1>1, <1>2, <1>3, <1>4, <1>5 DEF ReferenceNext

\* At every moment each task of a batch is where the insertion of its vector alone is, or
\* in the turn that the latter is about to make.
THEOREM ReferenceInvHolds == ReferenceSpec => [](BuildInv /\ ReferenceInv)
<1>. QED
  BY InitReferenceInv, ReferenceInvStep, PTL DEF ReferenceSpec

\* Parallel insertion is deterministic: whatever the schedule, a task that has ended has
\* given its vector the lists that inserting it alone gives.
THEOREM InsertionsAsIfAlone == ReferenceSpec => []InsertsAsIfAlone
<1>1. BuildInv /\ ReferenceInv => InsertsAsIfAlone
  <2> SUFFICES ASSUME BuildInv, ReferenceInv, NEW v \in V, Running(v), pc[v] = "done"
               PROVE  /\ lone[v].stage = "done" /\ shared[v] = lone[v].shared
                      /\ \A f \in Labels : single[f][v] = lone[v].single[f]
    BY DEF InsertsAsIfAlone, Running
  <2>1. AsAlone(v)
    BY RunningAsAlone
  <2>2. lone[v] = TaskState(v, "done", visited[v])
    BY <2>1 DEF AsAlone
  <2>. QED
    BY <2>2 DEF TaskState
<1>. QED
  BY <1>1, ReferenceInvHolds, PTL
=============================================================================
