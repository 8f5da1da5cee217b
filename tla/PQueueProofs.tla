---------------------------- MODULE PQueueProofs ----------------------------
(***************************************************************************)
(* Proofs about PQueueSpec, for every width L, every set of candidates and *)
(* every assignment of distances.                                          *)
(***************************************************************************)
EXTENDS PQueueSpec, LeastNumber, FiniteSetTheorems

QueueType == [slot : [Slots -> Entry], size : 0 .. L, next_idx : 0 .. L, next_idx2 : 0 .. L]

-----------------------------------------------------------------------------
\* std::lower_bound returns a position of the queue that meets its post-condition.
LEMMA LowerBoundFound ==
  ASSUME NEW x \in QueueType, NEW d \in Nat
  PROVE  LowerBound(x, d) \in 0 .. x.size /\ IsLowerBound(x, d, LowerBound(x, d))
<1> DEFINE T == {i \in 0 .. x.size : i < x.size => d <= x.slot[i].dist}
<1>1. x.size \in Nat /\ x.size <= L /\ L \in Nat
  BY LAssumption DEF QueueType
<1>2. \A i \in 0 .. x.size : x.slot[i].dist \in Nat
  BY <1>1 DEF QueueType, Slots, Entry
<1>3. T \in SUBSET Nat /\ x.size \in T
  BY <1>1
<1>4. PICK m \in T : \A k \in T : m <= k
  BY <1>3, LeastNat
<1>5. m \in 0 .. x.size /\ (m < x.size => d <= x.slot[m].dist)
  OBVIOUS
<1>6. ASSUME NEW i \in 0 .. m - 1
      PROVE  x.slot[i].dist < d
  <2>1. i \in 0 .. x.size /\ ~ (m <= i)
    BY <1>1, <1>5
  <2>2. i \notin T
    BY <1>4, <2>1
  <2>. QED
    BY <1>2, <2>1, <2>2
<1>7. IsLowerBound(x, d, m)
  BY <1>5, <1>6 DEF IsLowerBound
<1>. QED
  BY <1>5, <1>7 DEF LowerBound

\* The scan of set_front_expanded stops, at the first unexpanded entry or at the end.
LEMMA FirstUnexpandedFound ==
  ASSUME NEW s, NEW n \in Nat, NEW i \in 0 .. n
  PROVE  LET j == FirstUnexpanded(s, n, i) IN
         /\ j \in i .. n
         /\ j < n => ~ s[j].expanded
         /\ \A k \in i .. j - 1 : s[k].expanded
<1> DEFINE T == {j \in i .. n : j < n => ~ s[j].expanded}
<1>1. T \in SUBSET Nat /\ n \in T
  OBVIOUS
<1>2. PICK m \in T : \A k \in T : m <= k
  BY <1>1, LeastNat
<1>3. m \in i .. n /\ (m < n => ~ s[m].expanded)
  OBVIOUS
<1>4. ASSUME NEW k \in i .. m - 1
      PROVE  s[k].expanded
  <2>1. k \in i .. n /\ ~ (m <= k)
    BY <1>3
  <2>2. k \notin T
    BY <1>2, <2>1
  <2>. QED
    BY <2>1, <2>2
<1>. QED
  BY <1>3, <1>4 DEF FirstUnexpanded

-----------------------------------------------------------------------------
\* A push leaves the queue alone or inserts at the lower bound, never in the spill slot.
LEMMA PushCases ==
  ASSUME NEW x \in QueueType, NEW v, NEW d \in Nat
  PROVE  \/ /\ Push(x, v, d) = x
            /\ \/ x.size = L /\ d > TailDist(x)
               \/ \E i \in 0 .. x.size - 1 : x.slot[i].vid = v
         \/ \E loc \in 0 .. x.size :
               /\ loc < L
               /\ IsLowerBound(x, d, loc)
               /\ ~ (loc < x.size /\ x.slot[loc].vid = v)
               /\ Push(x, v, d) = InsertAt(x, loc, v, d)
<1> DEFINE loc == LowerBound(x, d)
<1>1. loc \in 0 .. x.size /\ IsLowerBound(x, d, loc)
  BY LowerBoundFound
<1>2. x.size \in 0 .. L /\ L \in Nat \ {0}
  BY LAssumption DEF QueueType
<1> HIDE DEF loc
<1>3. CASE \/ x.size = L /\ d > TailDist(x)
           \/ loc < x.size /\ x.slot[loc].vid = v
  <2>1. Push(x, v, d) = x
    BY <1>3 DEF Push, loc
  <2>2. \/ x.size = L /\ d > TailDist(x)
        \/ \E i \in 0 .. x.size - 1 : x.slot[i].vid = v
    BY <1>1, <1>2, <1>3
  <2>. QED
    BY <2>1, <2>2
<1>4. CASE ~ (\/ x.size = L /\ d > TailDist(x)
              \/ loc < x.size /\ x.slot[loc].vid = v)
  <2>1. Push(x, v, d) = InsertAt(x, loc, v, d)
    BY <1>4 DEF Push, loc
  <2>2. loc < L
    <3>1. SUFFICES ASSUME loc = L PROVE FALSE
      BY <1>1, <1>2
    <3>2. x.size = L /\ L - 1 \in 0 .. loc - 1
      BY <1>1, <1>2, <3>1
    <3>3. x.slot[L - 1].dist < d
      BY <1>1, <3>2 DEF IsLowerBound
    <3>4. x.slot[L - 1].dist \in Nat
      BY <1>2 DEF QueueType, Slots, Entry
    <3>. QED
      BY <1>2, <1>4, <3>2, <3>3, <3>4 DEF TailDist
  <2>. QED
    BY <1>1, <1>4, <2>1, <2>2
<1>. QED
  BY <1>3, <1>4

\* The fields after an insertion, position by position.
LEMMA InsertFields ==
  ASSUME NEW x \in QueueType, NEW v \in Vid, NEW d \in Nat,
         NEW loc \in 0 .. x.size, loc < L, x.next_idx <= x.size
  PROVE  LET y == InsertAt(x, loc, v, d) IN
         /\ y \in QueueType
         /\ y.size = IF x.size < L THEN x.size + 1 ELSE x.size
         /\ y.slot[loc] = [vid |-> v, dist |-> d, expanded |-> FALSE]
         /\ \A i \in 0 .. loc - 1 : y.slot[i] = x.slot[i]
         /\ \A i \in loc + 1 .. y.size - 1 : i - 1 \in 0 .. x.size - 1 /\ y.slot[i] = x.slot[i - 1]
<1> DEFINE y == InsertAt(x, loc, v, d)
<1>1. /\ x.size \in 0 .. L /\ x.next_idx \in 0 .. L /\ x.next_idx2 \in 0 .. L
      /\ x.slot \in [Slots -> Entry] /\ L \in Nat \ {0}
  BY LAssumption DEF QueueType
<1>2. y.size = (IF x.size < L THEN x.size + 1 ELSE x.size) /\ y.size \in 0 .. L
  BY <1>1 DEF InsertAt
<1>3. y.slot = Shifted(x, loc, v, d)
  BY DEF InsertAt
<1>4. [vid |-> v, dist |-> d, expanded |-> FALSE] \in Entry
  BY DEF Entry
<1>5. y.slot \in [Slots -> Entry]
  <2> DEFINE shifted(i) == CASE i = loc -> [vid |-> v, dist |-> d, expanded |-> FALSE]
                             [] loc < i /\ i <= x.size -> x.slot[i - 1]
                             [] OTHER -> x.slot[i]
  <2>1. ASSUME NEW i \in Slots PROVE shifted(i) \in Entry
    <3>1. CASE i = loc
      BY <1>4, <3>1
    <3>2. CASE loc < i /\ i <= x.size
      <4>1. i - 1 \in Slots
        BY <1>1, <3>2 DEF Slots
      <4>2. i # loc
        BY <1>1, <3>2 DEF Slots
      <4>. QED
        BY <1>1, <3>2, <4>1, <4>2
    <3>3. CASE i # loc /\ ~ (loc < i /\ i <= x.size)
      BY <1>1, <2>1, <3>3
    <3>. QED
      BY <3>1, <3>2, <3>3
  <2>2. y.slot = [i \in Slots |-> shifted(i)]
    BY <1>3 DEF Shifted
  <2> HIDE DEF shifted, y
  <2>. QED
    BY <2>1, <2>2
<1>6. y.slot[loc] = [vid |-> v, dist |-> d, expanded |-> FALSE]
  BY <1>1, <1>3 DEF Shifted, Slots
<1>7. \A i \in 0 .. loc - 1 : y.slot[i] = x.slot[i]
  BY <1>1, <1>3 DEF Shifted, Slots
<1>8. \A i \in loc + 1 .. y.size - 1 : i - 1 \in 0 .. x.size - 1 /\ y.slot[i] = x.slot[i - 1]
  BY <1>1, <1>2, <1>3 DEF Shifted, Slots
<1>9. y.next_idx \in 0 .. L /\ y.next_idx2 \in 0 .. L
  BY <1>1, <1>2 DEF InsertAt
<1>10. y = [slot |-> y.slot, size |-> y.size, next_idx |-> y.next_idx, next_idx2 |-> y.next_idx2]
  BY DEF InsertAt
<1>11. y \in QueueType
  BY <1>2, <1>5, <1>9, <1>10 DEF QueueType
<1>. QED
  BY <1>2, <1>6, <1>7, <1>8, <1>11

\* The fields after set_front_expanded.
LEMMA ExpandFields ==
  ASSUME NEW x \in QueueType, x.next_idx2 <= x.size
  PROVE  LET y == SetFrontExpanded(x)
             from == IF x.next_idx2 < x.size THEN x.next_idx2 + 1 ELSE x.next_idx2
         IN
         /\ y \in QueueType
         /\ y.size = x.size /\ y.next_idx = x.next_idx2
         /\ y.slot[x.next_idx] = [x.slot[x.next_idx] EXCEPT !.expanded = TRUE]
         /\ \A i \in Slots \ {x.next_idx} : y.slot[i] = x.slot[i]
         /\ y.next_idx2 \in from .. x.size
         /\ y.next_idx2 < x.size => ~ y.slot[y.next_idx2].expanded
         /\ \A k \in from .. y.next_idx2 - 1 : y.slot[k].expanded
<1> DEFINE y == SetFrontExpanded(x)
           from == IF x.next_idx2 < x.size THEN x.next_idx2 + 1 ELSE x.next_idx2
           marked == [x.slot EXCEPT ![x.next_idx].expanded = TRUE]
<1>1. /\ x.size \in 0 .. L /\ x.next_idx \in Slots /\ x.next_idx2 \in 0 .. L
      /\ x.slot \in [Slots -> Entry] /\ L \in Nat \ {0}
  BY LAssumption DEF QueueType, Slots
<1>2. from \in 0 .. x.size
  BY <1>1
<1>3. marked \in [Slots -> Entry]
  BY <1>1 DEF Entry
<1>4. /\ y.slot = marked /\ y.size = x.size /\ y.next_idx = x.next_idx2
      /\ y.next_idx2 = FirstUnexpanded(marked, x.size, from)
  BY DEF SetFrontExpanded
<1>5. y = [slot |-> y.slot, size |-> y.size, next_idx |-> y.next_idx, next_idx2 |-> y.next_idx2]
  BY DEF SetFrontExpanded
<1> HIDE DEF from, y, marked
<1>6. /\ y.next_idx2 \in from .. x.size
      /\ y.next_idx2 < x.size => ~ y.slot[y.next_idx2].expanded
      /\ \A k \in from .. y.next_idx2 - 1 : y.slot[k].expanded
  <2>1. x.size \in Nat
    BY <1>1
  <2> DEFINE j == FirstUnexpanded(marked, x.size, from)
  <2>2. /\ j \in from .. x.size
        /\ j < x.size => ~ marked[j].expanded
        /\ \A k \in from .. j - 1 : marked[k].expanded
    BY <1>2, <2>1, FirstUnexpandedFound
  <2>. QED
    BY <1>4, <2>2
<1>7. y \in QueueType
  BY <1>1, <1>2, <1>3, <1>4, <1>5, <1>6 DEF QueueType
<1>8. /\ y.slot[x.next_idx] = [x.slot[x.next_idx] EXCEPT !.expanded = TRUE]
      /\ \A i \in Slots \ {x.next_idx} : y.slot[i] = x.slot[i]
  BY <1>1, <1>4 DEF marked
<1>. QED
  BY <1>4, <1>6, <1>7, <1>8 DEF y, from

-----------------------------------------------------------------------------
\* The inductive invariant: the type, the documented cursor invariant and the order.
QueueInv == TypeOK /\ CursorsAtTwoNearestOpen /\ SortedByDistance

\* The constructor establishes the invariant.
LEMMA InitQueueInv == Init => QueueInv
<1> SUFFICES ASSUME Init PROVE QueueInv
  OBVIOUS
<1>1. L \in Nat \ {0}
  BY LAssumption
<1>2. /\ q = [slot |-> [i \in Slots |-> Blank], size |-> 0, next_idx |-> 0, next_idx2 |-> 0]
      /\ pushed = {} /\ opened = {}
  BY DEF Init, NewQueue
<1>3. Blank \in Entry
  BY DEF Blank, Entry
<1>4. TypeOK
  BY <1>1, <1>2, <1>3 DEF TypeOK
<1>5. CursorsAtTwoNearestOpen /\ SortedByDistance
  BY <1>2 DEF CursorsAtTwoNearestOpen, SortedByDistance, Live
<1>. QED
  BY <1>4, <1>5 DEF QueueInv

\* A push repairs both cursors, wherever it lands relative to them.
LEMMA InsertKeepsCursors ==
  ASSUME QueueInv, NEW v \in Vid, NEW d \in Nat,
         NEW loc \in 0 .. q.size, loc < L, q' = InsertAt(q, loc, v, d)
  PROVE  CursorsAtTwoNearestOpen'
<1>1. q \in QueueType /\ q.next_idx <= q.size
  BY DEF QueueInv, TypeOK, QueueType, CursorsAtTwoNearestOpen
<1>2. /\ q'.size = IF q.size < L THEN q.size + 1 ELSE q.size
      /\ q'.slot[loc] = [vid |-> v, dist |-> d, expanded |-> FALSE]
      /\ \A i \in 0 .. loc - 1 : q'.slot[i] = q.slot[i]
      /\ \A i \in loc + 1 .. q'.size - 1 :
            i - 1 \in 0 .. q.size - 1 /\ q'.slot[i] = q.slot[i - 1]
  BY <1>1, InsertFields
<1>3. /\ q'.next_idx = IF loc <= q.next_idx THEN loc ELSE q.next_idx
      /\ q'.next_idx2 = IF loc <= q.next_idx
                           THEN IF q.next_idx = q'.size THEN q'.size ELSE q.next_idx + 1
                           ELSE IF loc <= q.next_idx2 THEN loc ELSE q.next_idx2
  BY <1>1 DEF InsertAt, QueueType
<1>4. /\ q.size \in 0 .. L /\ q.next_idx \in 0 .. L /\ q.next_idx2 \in 0 .. L /\ L \in Nat \ {0}
      /\ q.next_idx <= q.next_idx2 /\ q.next_idx2 <= q.size
      /\ q.next_idx < q.size => ~ q.slot[q.next_idx].expanded /\ q.next_idx < q.next_idx2
      /\ q.next_idx2 < q.size => ~ q.slot[q.next_idx2].expanded
      /\ \A i \in 0 .. q.size - 1 :
            ~ q.slot[i].expanded => i \in {q.next_idx, q.next_idx2} \/ q.next_idx2 < i
  BY <1>1, LAssumption DEF QueueInv, CursorsAtTwoNearestOpen, QueueType, Live, Open
<1>5. q'.next_idx <= q'.next_idx2 /\ q'.next_idx2 <= q'.size
  BY <1>2, <1>3, <1>4
<1>6. q'.next_idx < q'.size => ~ q'.slot[q'.next_idx].expanded /\ q'.next_idx < q'.next_idx2
  BY <1>2, <1>3, <1>4
<1>7. q'.next_idx2 < q'.size => ~ q'.slot[q'.next_idx2].expanded
  BY <1>2, <1>3, <1>4
<1>8. ASSUME NEW i \in 0 .. q'.size - 1, ~ q'.slot[i].expanded
      PROVE  i \in {q'.next_idx, q'.next_idx2} \/ q'.next_idx2 < i
  <2>1. CASE i = loc
    BY <1>2, <1>3, <1>4, <2>1
  <2>2. CASE i < loc
    BY <1>2, <1>3, <1>4, <1>8, <2>2
  <2>3. CASE i > loc
    <3>1. i - 1 \in 0 .. q.size - 1 /\ ~ q.slot[i - 1].expanded
      BY <1>2, <1>4, <1>8, <2>3
    <3>. QED
      BY <1>2, <1>3, <1>4, <2>3, <3>1
  <2>. QED
    BY <1>4, <2>1, <2>2, <2>3
<1>. QED
  BY <1>5, <1>6, <1>7, <1>8 DEF CursorsAtTwoNearestOpen, Live, Open

\* An insertion at the lower bound keeps the entries sorted, with their own distances.
LEMMA InsertKeepsOrder ==
  ASSUME QueueInv, NEW v \in Vid, NEW loc \in 0 .. q.size, loc < L,
         IsLowerBound(q, DistOf[v], loc), q' = InsertAt(q, loc, v, DistOf[v])
  PROVE  SortedByDistance'
<1> DEFINE d == DistOf[v]
<1>1. q \in QueueType /\ q.next_idx <= q.size /\ d \in Nat
  BY DistAssumption DEF QueueInv, TypeOK, QueueType, CursorsAtTwoNearestOpen
<1>2. /\ q'.size = IF q.size < L THEN q.size + 1 ELSE q.size
      /\ q'.slot[loc] = [vid |-> v, dist |-> d, expanded |-> FALSE]
      /\ \A i \in 0 .. loc - 1 : q'.slot[i] = q.slot[i]
      /\ \A i \in loc + 1 .. q'.size - 1 :
            i - 1 \in 0 .. q.size - 1 /\ q'.slot[i] = q.slot[i - 1]
  BY <1>1, InsertFields
<1>3. /\ q.size \in 0 .. L /\ L \in Nat \ {0}
      /\ \A i \in 0 .. q.size - 1 : q.slot[i].dist \in Nat
      /\ \A i, j \in 0 .. q.size - 1 : i < j => q.slot[i].dist <= q.slot[j].dist
      /\ \A i \in 0 .. q.size - 1 : q.slot[i].vid \in Vid /\ q.slot[i].dist = DistOf[q.slot[i].vid]
  BY <1>1, LAssumption, SMTT(30) DEF QueueInv, SortedByDistance, QueueType, Live, Slots, Entry
<1>4. /\ \A i \in 0 .. loc - 1 : q.slot[i].dist < d
      /\ \A i \in loc .. q.size - 1 : d <= q.slot[i].dist
  BY <1>1, <1>3 DEF IsLowerBound
<1> HIDE DEF d
<1>5. ASSUME NEW i \in 0 .. q'.size - 1
      PROVE  /\ i < loc => q'.slot[i] = q.slot[i] /\ i \in 0 .. q.size - 1
             /\ i = loc => q'.slot[i].dist = d /\ q'.slot[i].vid = v
             /\ i > loc => q'.slot[i] = q.slot[i - 1] /\ i - 1 \in loc .. q.size - 1
  BY <1>2, <1>3
<1>6. ASSUME NEW i \in 0 .. q'.size - 1, NEW j \in 0 .. q'.size - 1, i < j
      PROVE  q'.slot[i].dist <= q'.slot[j].dist
  <2>1. CASE j < loc
    BY <1>3, <1>5, <1>6, <2>1
  <2>2. CASE j = loc
    BY <1>1, <1>3, <1>4, <1>5, <1>6, <2>2
  <2>3. CASE j > loc
    <3>1. CASE i < loc
      BY <1>1, <1>3, <1>4, <1>5, <1>6, <2>3, <3>1
    <3>2. CASE i = loc
      BY <1>1, <1>3, <1>4, <1>5, <1>6, <2>3, <3>2
    <3>3. CASE i > loc
      <4>1. i - 1 \in 0 .. q.size - 1 /\ j - 1 \in 0 .. q.size - 1 /\ i - 1 < j - 1
        BY <1>3, <1>5, <1>6, <2>3, <3>3
      <4>. QED
        BY <1>3, <1>5, <2>3, <3>3, <4>1
    <3>. QED
      BY <1>3, <3>1, <3>2, <3>3
  <2>. QED
    BY <1>3, <2>1, <2>2, <2>3
<1>7. ASSUME NEW i \in 0 .. q'.size - 1
      PROVE  q'.slot[i].vid \in Vid /\ q'.slot[i].dist = DistOf[q'.slot[i].vid]
  BY <1>3, <1>5 DEF d
<1>. QED
  BY <1>6, <1>7 DEF SortedByDistance, Live

\* Any push preserves the inductive invariant.
LEMMA PushKeepsQueueInv ==
  ASSUME QueueInv, PushAny
  PROVE  QueueInv'
<1>1. PICK v \in Vid : /\ q' = Push(q, v, DistOf[v])
                       /\ pushed' = pushed \cup {v}
                       /\ UNCHANGED opened
  BY DEF PushAny
<1>2. /\ q \in QueueType /\ q.next_idx <= q.size /\ DistOf[v] \in Nat
      /\ pushed' \in SUBSET Vid /\ opened' \in SUBSET Vid
  BY <1>1, DistAssumption DEF QueueInv, TypeOK, QueueType, CursorsAtTwoNearestOpen
<1>3. CASE q' = q
  BY <1>2, <1>3 DEF QueueInv, TypeOK, CursorsAtTwoNearestOpen, SortedByDistance, Live, Open
<1>4. CASE q' # q
  <2>1. PICK loc \in 0 .. q.size : /\ loc < L
                                   /\ IsLowerBound(q, DistOf[v], loc)
                                   /\ q' = InsertAt(q, loc, v, DistOf[v])
    BY <1>1, <1>2, <1>4, PushCases
  <2>2. q' \in QueueType
    BY <1>2, <2>1, InsertFields
  <2>3. TypeOK'
    BY <1>2, <2>2 DEF TypeOK, QueueType
  <2>4. CursorsAtTwoNearestOpen'
    BY <1>2, <2>1, InsertKeepsCursors
  <2>5. SortedByDistance'
    BY <2>1, InsertKeepsOrder
  <2>. QED
    BY <2>3, <2>4, <2>5 DEF QueueInv
<1>. QED
  BY <1>3, <1>4

\* Expanding the front moves both cursors on and disturbs no distance.
LEMMA ExpandKeepsQueueInv ==
  ASSUME QueueInv, ExpandFront
  PROVE  QueueInv'
<1> DEFINE from == IF q.next_idx2 < q.size THEN q.next_idx2 + 1 ELSE q.next_idx2
<1>1. q' = SetFrontExpanded(q) /\ q.next_idx < q.size
  BY DEF ExpandFront, HasUnexpanded
<1>2. q \in QueueType /\ q.next_idx <= q.next_idx2 /\ q.next_idx2 <= q.size
  BY DEF QueueInv, TypeOK, QueueType, CursorsAtTwoNearestOpen
<1>3. /\ q' \in QueueType
      /\ q'.size = q.size /\ q'.next_idx = q.next_idx2
      /\ q'.slot[q.next_idx] = [q.slot[q.next_idx] EXCEPT !.expanded = TRUE]
      /\ \A i \in Slots \ {q.next_idx} : q'.slot[i] = q.slot[i]
      /\ q'.next_idx2 \in from .. q.size
      /\ q'.next_idx2 < q.size => ~ q'.slot[q'.next_idx2].expanded
      /\ \A k \in from .. q'.next_idx2 - 1 : q'.slot[k].expanded
  BY <1>1, <1>2, ExpandFields
<1>4. /\ q.size \in 0 .. L /\ q.next_idx \in 0 .. L /\ q.next_idx2 \in 0 .. L /\ L \in Nat \ {0}
      /\ q.slot \in [Slots -> Entry] /\ Slots = 0 .. L
      /\ q.next_idx < q.next_idx2
      /\ q.next_idx2 < q.size => ~ q.slot[q.next_idx2].expanded
      /\ \A i \in 0 .. q.size - 1 :
            ~ q.slot[i].expanded => i \in {q.next_idx, q.next_idx2} \/ q.next_idx2 < i
  BY <1>1, <1>2, LAssumption
     DEF QueueInv, CursorsAtTwoNearestOpen, QueueType, Live, Open, Slots
<1>5. \A i \in 0 .. q.size - 1 :
         /\ q'.slot[i].vid = q.slot[i].vid /\ q'.slot[i].dist = q.slot[i].dist
         /\ q'.slot[i].expanded = IF i = q.next_idx THEN TRUE ELSE q.slot[i].expanded
  <2>1. q.slot[q.next_idx] = [vid |-> q.slot[q.next_idx].vid, dist |-> q.slot[q.next_idx].dist,
                              expanded |-> q.slot[q.next_idx].expanded]
    BY <1>4 DEF Entry
  <2>2. /\ q'.slot[q.next_idx].vid = q.slot[q.next_idx].vid
        /\ q'.slot[q.next_idx].dist = q.slot[q.next_idx].dist
        /\ q'.slot[q.next_idx].expanded = TRUE
    BY <1>3, <2>1
  <2>3. \A i \in 0 .. q.size - 1 : i # q.next_idx => q'.slot[i] = q.slot[i]
    BY <1>3, <1>4
  <2>. QED
    BY <2>2, <2>3
<1>6. TypeOK'
  <2>1. q.slot[q.next_idx].vid \in Vid
    BY <1>1, <1>4 DEF QueueInv, SortedByDistance, Live
  <2>2. opened' \in SUBSET Vid /\ pushed' \in SUBSET Vid
    BY <2>1 DEF ExpandFront, QueueInv, TypeOK
  <2>. QED
    BY <1>3, <2>2 DEF TypeOK, QueueType
<1>7. SortedByDistance'
  BY <1>3, <1>5, ZenonT(30) DEF QueueInv, SortedByDistance, Live
<1>8. CursorsAtTwoNearestOpen'
  <2>1. /\ q'.next_idx <= q'.next_idx2 /\ q'.next_idx2 <= q'.size
        /\ q'.next_idx < q'.size =>
              ~ q'.slot[q'.next_idx].expanded /\ q'.next_idx < q'.next_idx2
        /\ q'.next_idx2 < q'.size => ~ q'.slot[q'.next_idx2].expanded
    BY <1>3, <1>4, <1>5
  <2>2. ASSUME NEW i \in 0 .. q'.size - 1, ~ q'.slot[i].expanded
        PROVE  i \in {q'.next_idx, q'.next_idx2} \/ q'.next_idx2 < i
    <3>1. i # q.next_idx /\ ~ q.slot[i].expanded
      BY <1>3, <1>5, <2>2
    <3>2. i = q.next_idx2 \/ q.next_idx2 < i
      BY <1>3, <1>4, <3>1
    <3>3. i \notin from .. q'.next_idx2 - 1
      BY <1>3, <2>2
    <3>. QED
      BY <1>3, <1>4, <3>2, <3>3
  <2>. QED
    BY <2>1, <2>2 DEF CursorsAtTwoNearestOpen, Live, Open
<1>. QED
  BY <1>6, <1>7, <1>8 DEF QueueInv

\* Each step keeps the invariant.
LEMMA NextQueueInv ==
  ASSUME QueueInv, [Next]_vars
  PROVE  QueueInv'
<1>1. CASE PushAny
  BY <1>1, PushKeepsQueueInv
<1>2. CASE ExpandFront
  BY <1>2, ExpandKeepsQueueInv
<1>3. CASE UNCHANGED vars
  BY <1>3 DEF vars, QueueInv, TypeOK, CursorsAtTwoNearestOpen, SortedByDistance, Live, Open
<1>. QED
  BY <1>1, <1>2, <1>3 DEF Next

(***************************************************************************)
(* The three facts of the inductive argument, put together: for every      *)
(* width, candidate set and distances, the fields stay within the arrays   *)
(* that new_pqueue_t (pqueue.hpp:227) allocates, the invariant documented  *)
(* at pqueue.hpp:232 always holds, and the entries stay sorted.            *)
(***************************************************************************)
THEOREM QueueInvHolds == Spec => []QueueInv
<1>1. QueueInv /\ [Next]_vars => QueueInv'
  BY NextQueueInv
<1>. QED
  BY <1>1, InitQueueInv, PTL DEF Spec

\* Type correctness of new_pqueue_t: no field leaves the allocated arrays.
THEOREM QueueTypeCorrect == Spec => []TypeOK
<1>1. QueueInv => TypeOK
  BY DEF QueueInv
<1>. QED
  BY <1>1, QueueInvHolds, PTL

\* The documented cursor invariant of new_pqueue_t holds for every width.
THEOREM CursorsCorrect == Spec => []CursorsAtTwoNearestOpen
<1>1. QueueInv => CursorsAtTwoNearestOpen
  BY DEF QueueInv
<1>. QED
  BY <1>1, QueueInvHolds, PTL

\* The queue of new_pqueue_t is always sorted, each entry with its own distance.
THEOREM OrderCorrect == Spec => []SortedByDistance
<1>1. QueueInv => SortedByDistance
  BY DEF QueueInv
<1>. QED
  BY <1>1, QueueInvHolds, PTL

-----------------------------------------------------------------------------
\* What was pushed and opened, and where the queue's entries come from.
HistoryInv == /\ IsFiniteSet(pushed) /\ opened \subseteq pushed
              /\ \A i \in Live(q) : q.slot[i].vid \in pushed

\* A push opens nothing and inserts at most the candidate pushed.
LEMMA PushKeepsHistory ==
  ASSUME QueueInv, HistoryInv, PushAny
  PROVE  HistoryInv'
<1>1. PICK v \in Vid : /\ q' = Push(q, v, DistOf[v])
                       /\ pushed' = pushed \cup {v} /\ opened' = opened
  BY DEF PushAny
<1>2. q \in QueueType /\ q.next_idx <= q.size /\ DistOf[v] \in Nat
  BY DistAssumption DEF QueueInv, TypeOK, QueueType, CursorsAtTwoNearestOpen
<1>3. \A i \in Live(q)' : q'.slot[i].vid \in pushed'
  <2>1. CASE q' = q
    BY <1>1, <2>1 DEF HistoryInv, Live
  <2>2. CASE q' # q
    <3>1. PICK loc \in 0 .. q.size : /\ loc < L
                                     /\ q' = InsertAt(q, loc, v, DistOf[v])
      BY <1>1, <1>2, <2>2, PushCases
    <3>2. /\ q'.slot[loc] = [vid |-> v, dist |-> DistOf[v], expanded |-> FALSE]
          /\ \A i \in 0 .. loc - 1 : q'.slot[i] = q.slot[i]
          /\ \A i \in loc + 1 .. q'.size - 1 :
                i - 1 \in 0 .. q.size - 1 /\ q'.slot[i] = q.slot[i - 1]
          /\ q'.size \in Nat /\ q.size \in Nat
      BY <1>2, <3>1, InsertFields DEF QueueType
    <3>3. ASSUME NEW i \in 0 .. q'.size - 1 PROVE q'.slot[i].vid \in pushed'
      <4>1. CASE i = loc
        BY <1>1, <3>2, <4>1
      <4>2. CASE i \in 0 .. loc - 1
        <5>1. i \in 0 .. q.size - 1
          BY <3>2, <4>2
        <5>. QED
          BY <1>1, <3>2, <4>2, <5>1 DEF HistoryInv, Live
      <4>3. CASE i \in loc + 1 .. q'.size - 1
        BY <1>1, <3>2, <4>3 DEF HistoryInv, Live
      <4>. QED
        BY <3>2, <4>1, <4>2, <4>3
    <3>. QED
      BY <3>3 DEF Live
  <2>. QED
    BY <2>1, <2>2
<1>. QED
  BY <1>1, <1>3, FS_AddElement DEF HistoryInv

\* An expansion opens a candidate of the queue and moves none.
LEMMA ExpandKeepsHistory ==
  ASSUME QueueInv, HistoryInv, ExpandFront
  PROVE  HistoryInv'
<1>1. q \in QueueType /\ q.next_idx2 <= q.size /\ q' = SetFrontExpanded(q)
  BY DEF QueueInv, TypeOK, QueueType, CursorsAtTwoNearestOpen, ExpandFront
<1>2. /\ q'.size = q.size
      /\ q'.slot[q.next_idx] = [q.slot[q.next_idx] EXCEPT !.expanded = TRUE]
      /\ \A i \in Slots \ {q.next_idx} : q'.slot[i] = q.slot[i]
  BY <1>1, ExpandFields
<1>3. q.next_idx \in 0 .. q.size - 1 /\ q.size \in 0 .. L /\ L \in Nat
  BY <1>1, LAssumption DEF ExpandFront, HasUnexpanded, QueueType
<1>4. \A i \in 0 .. q.size - 1 : q.slot[i] \in Entry
  BY <1>1, <1>3 DEF QueueType, Slots
<1>5. \A i \in 0 .. q.size - 1 : q'.slot[i].vid = q.slot[i].vid
  BY <1>2, <1>3, <1>4 DEF Entry, Slots
<1>6. \A i \in 0 .. q.size - 1 : q.slot[i].vid \in pushed
  BY DEF HistoryInv, Live
<1>7. pushed' = pushed /\ opened' = opened \cup {q.slot[q.next_idx].vid}
  BY DEF ExpandFront
<1>8. Live(q)' = 0 .. q.size - 1
  BY <1>2 DEF Live
<1>. QED
  BY <1>3, <1>5, <1>6, <1>7, <1>8 DEF HistoryInv

\* While the distances pushed are distinct, push's look at the one position that
\* lower_bound returns (pqueue.hpp:286) is enough to keep the identifiers distinct.
LEMMA PushKeepsDistinct ==
  ASSUME QueueInv, HistoryInv, NoDuplicateIds, PushAny, DistinctPushed'
  PROVE  NoDuplicateIds'
<1>1. PICK v \in Vid : q' = Push(q, v, DistOf[v]) /\ pushed' = pushed \cup {v}
  BY DEF PushAny
<1>2. q \in QueueType /\ q.next_idx <= q.size /\ DistOf[v] \in Nat
  BY DistAssumption DEF QueueInv, TypeOK, QueueType, CursorsAtTwoNearestOpen
<1>3. CASE q' = q
  BY <1>3 DEF NoDuplicateIds, Live
<1>4. CASE q' # q
  <2>1. PICK loc \in 0 .. q.size :
           /\ loc < L
           /\ IsLowerBound(q, DistOf[v], loc)
           /\ ~ (loc < q.size /\ q.slot[loc].vid = v)
           /\ q' = InsertAt(q, loc, v, DistOf[v])
    BY <1>1, <1>2, <1>4, PushCases
  <2>2. /\ q'.size = IF q.size < L THEN q.size + 1 ELSE q.size
        /\ q'.slot[loc] = [vid |-> v, dist |-> DistOf[v], expanded |-> FALSE]
        /\ \A i \in 0 .. loc - 1 : q'.slot[i] = q.slot[i]
        /\ \A i \in loc + 1 .. q'.size - 1 :
              i - 1 \in 0 .. q.size - 1 /\ q'.slot[i] = q.slot[i - 1]
    BY <1>2, <2>1, InsertFields
  <2>3. /\ q.size \in 0 .. L /\ L \in Nat \ {0}
        /\ \A i, j \in 0 .. q.size - 1 : i < j => q.slot[i].dist <= q.slot[j].dist
        /\ \A i \in 0 .. q.size - 1 : q.slot[i].vid \in Vid /\ q.slot[i].dist = DistOf[q.slot[i].vid]
        /\ \A i \in 0 .. q.size - 1 : q.slot[i].dist \in Nat
        /\ \A i, j \in 0 .. q.size - 1 : q.slot[i].vid = q.slot[j].vid => i = j
    BY <1>2, LAssumption
       DEF QueueInv, SortedByDistance, QueueType, Live, NoDuplicateIds, Slots, Entry
  <2>4. ASSUME NEW i \in 0 .. q.size - 1, q.slot[i].vid = v PROVE FALSE
    <3>1. q.slot[i].dist = DistOf[v]
      BY <2>3, <2>4
    <3>2. loc <= i
      BY <2>3, <2>1, <1>2, <3>1 DEF IsLowerBound
    <3>3. loc < q.size /\ DistOf[v] <= q.slot[loc].dist /\ q.slot[loc].dist <= DistOf[v]
      BY <2>1, <2>3, <3>1, <3>2 DEF IsLowerBound
    <3>4. DistOf[q.slot[loc].vid] = DistOf[v] /\ q.slot[loc].vid \in Vid
      BY <1>2, <2>1, <2>3, <3>3
    <3>5. q.slot[loc].vid \in pushed' /\ v \in pushed'
      <4>1. loc \in Live(q)
        BY <2>1, <2>3, <3>3 DEF Live
      <4>. QED
        BY <1>1, <4>1 DEF HistoryInv
    <3>. QED
      BY <2>1, <3>3, <3>4, <3>5 DEF DistinctPushed
  <2>5. ASSUME NEW i \in 0 .. q'.size - 1
        PROVE  /\ i < loc => q'.slot[i].vid = q.slot[i].vid /\ i \in 0 .. q.size - 1
               /\ i = loc => q'.slot[i].vid = v
               /\ i > loc => q'.slot[i].vid = q.slot[i - 1].vid /\ i - 1 \in 0 .. q.size - 1
    BY <2>1, <2>2, <2>3
  <2>6. ASSUME NEW i \in 0 .. q'.size - 1, NEW j \in 0 .. q'.size - 1,
               q'.slot[i].vid = q'.slot[j].vid, i < j
        PROVE  FALSE
    <3>1. CASE j = loc
      BY <2>3, <2>4, <2>5, <2>6, <3>1
    <3>2. CASE i = loc
      BY <2>3, <2>4, <2>5, <2>6, <3>2
    <3>3. CASE j < loc
      BY <2>3, <2>5, <2>6, <3>3
    <3>4. CASE i < loc /\ j > loc
      BY <2>3, <2>5, <2>6, <3>4
    <3>5. CASE i > loc
      BY <2>3, <2>5, <2>6, <3>5
    <3>. QED
      BY <2>3, <3>1, <3>2, <3>3, <3>4, <3>5
  <2>7. \A i, j \in 0 .. q'.size - 1 : i = j \/ i < j \/ j < i
    BY <2>2, <2>3
  <2>. QED
    BY <2>6, <2>7 DEF NoDuplicateIds, Live
<1>. QED
  BY <1>3, <1>4

\* An expansion changes a flag only.
LEMMA ExpandKeepsDistinct ==
  ASSUME QueueInv, NoDuplicateIds, ExpandFront
  PROVE  NoDuplicateIds'
<1>1. q \in QueueType /\ q.next_idx2 <= q.size /\ q' = SetFrontExpanded(q)
  BY DEF QueueInv, TypeOK, QueueType, CursorsAtTwoNearestOpen, ExpandFront
<1>2. /\ q'.size = q.size
      /\ q'.slot[q.next_idx] = [q.slot[q.next_idx] EXCEPT !.expanded = TRUE]
      /\ \A i \in Slots \ {q.next_idx} : q'.slot[i] = q.slot[i]
  BY <1>1, ExpandFields
<1>3. \A i \in 0 .. q.size - 1 : q'.slot[i].vid = q.slot[i].vid
  <2>1. q.slot[q.next_idx] \in Entry /\ q.size \in 0 .. L /\ L \in Nat /\ Slots = 0 .. L
    BY <1>1, LAssumption DEF QueueType, Slots
  <2>. QED
    BY <1>2, <2>1 DEF Entry
<1>. QED
  BY <1>2, <1>3 DEF NoDuplicateIds, Live
-----------------------------------------------------------------------------
(***************************************************************************)
(* What the queue keeps while the distances pushed are distinct: every     *)
(* candidate pushed is in the queue, once, or farther than the tail of a   *)
(* full queue, and the flags tell which were opened.                       *)
(***************************************************************************)
Kept == {q.slot[i].vid : i \in Live(q)}

BeamInv ==
    /\ NoDuplicateIds
    /\ \A i \in Live(q) : Open(i) <=> q.slot[i].vid \notin opened
    /\ \A v \in pushed : v \in Kept \/ (q.size = L /\ TailDist(q) < DistOf[v])

\* The positions of the queue, by what is known of them; distances increase strictly.
LEMMA QueueFacts ==
  ASSUME DistinctPushed, QueueInv, HistoryInv, NoDuplicateIds
  PROVE  /\ q \in QueueType /\ q.size \in 0 .. L /\ L \in Nat \ {0} /\ Live(q) = 0 .. q.size - 1
         /\ q.next_idx \in 0 .. q.size /\ q.next_idx2 \in 0 .. q.size
         /\ \A i \in 0 .. q.size - 1 : /\ q.slot[i].dist \in Nat /\ q.slot[i].vid \in Vid
                                       /\ q.slot[i].dist = DistOf[q.slot[i].vid]
         /\ \A i, j \in 0 .. q.size - 1 : i < j => q.slot[i].dist < q.slot[j].dist
         /\ \A i, j \in 0 .. q.size - 1 : q.slot[i].vid = q.slot[j].vid => i = j
<1>1. /\ q \in QueueType /\ q.size \in 0 .. L /\ L \in Nat \ {0} /\ Live(q) = 0 .. q.size - 1
      /\ q.next_idx \in 0 .. q.size /\ q.next_idx2 \in 0 .. q.size
  BY LAssumption DEF QueueInv, TypeOK, QueueType, Live, CursorsAtTwoNearestOpen
<1>2. \A i \in 0 .. q.size - 1 : /\ q.slot[i].dist \in Nat /\ q.slot[i].vid \in Vid
                                 /\ q.slot[i].dist = DistOf[q.slot[i].vid]
  <2>1. ASSUME NEW i \in 0 .. q.size - 1 PROVE q.slot[i] \in Entry
    <3>1. i \in Slots
      BY <1>1 DEF Slots
    <3>. QED
      BY <1>1, <3>1 DEF QueueType
  <2>2. \A i \in 0 .. q.size - 1 : q.slot[i].vid \in Vid /\ q.slot[i].dist = DistOf[q.slot[i].vid]
    BY <1>1 DEF QueueInv, SortedByDistance
  <2>. QED
    BY <2>1, <2>2 DEF Entry
<1>3. \A i, j \in 0 .. q.size - 1 : q.slot[i].vid = q.slot[j].vid => i = j
  BY <1>1 DEF NoDuplicateIds
<1>4. ASSUME NEW i \in 0 .. q.size - 1, NEW j \in 0 .. q.size - 1, i < j
      PROVE  q.slot[i].dist < q.slot[j].dist
  <2>1. q.slot[i].dist <= q.slot[j].dist
    BY <1>1, <1>4 DEF QueueInv, SortedByDistance
  <2>2. q.slot[i].dist # q.slot[j].dist
    <3>1. SUFFICES ASSUME q.slot[i].dist = q.slot[j].dist PROVE FALSE
      OBVIOUS
    <3>2. q.slot[i].vid = q.slot[j].vid
      BY <1>1, <3>1 DEF DistinctPushed, HistoryInv, QueueInv, SortedByDistance
    <3>. QED
      BY <1>3, <1>4, <3>2
  <2>. QED
    BY <1>2, <2>1, <2>2
<1>. QED
  BY <1>1, <1>2, <1>3, <1>4

\* A push drops only what is farther than the tail it leaves.
LEMMA PushKeepsBeam ==
  ASSUME QueueInv, HistoryInv, BeamInv, PushAny, DistinctPushed'
  PROVE  BeamInv'
<1>1. PICK v \in Vid : /\ q' = Push(q, v, DistOf[v])
                       /\ pushed' = pushed \cup {v} /\ opened' = opened
  BY DEF PushAny
<1>2. /\ q \in QueueType /\ q.size \in 0 .. L /\ L \in Nat \ {0} /\ Live(q) = 0 .. q.size - 1
      /\ q.next_idx <= q.size
      /\ \A i \in 0 .. q.size - 1 : /\ q.slot[i].dist \in Nat /\ q.slot[i].vid \in Vid
                                    /\ q.slot[i].dist = DistOf[q.slot[i].vid]
      /\ \A i, j \in 0 .. q.size - 1 : i < j => q.slot[i].dist < q.slot[j].dist
      /\ DistOf[v] \in Nat
  <2>1. DistinctPushed /\ NoDuplicateIds
    BY <1>1 DEF DistinctPushed, BeamInv
  <2>. QED
    BY <2>1, QueueFacts, DistAssumption, SMTT(30)
<1>3. NoDuplicateIds'
  BY PushKeepsDistinct DEF BeamInv
<1>4. CASE q' = q /\ ((q.size = L /\ DistOf[v] > TailDist(q)) \/ \E i \in 0 .. q.size - 1 : q.slot[i].vid = v)
  <2>1. Kept' = Kept /\ Live(q)' = Live(q) /\ \A i : Open(i)' <=> Open(i)
    BY <1>4 DEF Kept, Live, Open
  <2>2. \A i \in Live(q) : Open(i) <=> q'.slot[i].vid \notin opened'
    BY <1>1, <1>4 DEF BeamInv
  <2>3. v \in Kept \/ (q'.size = L /\ TailDist(q') < DistOf[v])
    <3>1. CASE q.size = L /\ DistOf[v] > TailDist(q)
      <4>1. TailDist(q) \in Nat
        BY <1>2, <3>1 DEF TailDist
      <4>. QED
        BY <1>2, <1>4, <3>1, <4>1
    <3>2. CASE \E i \in 0 .. q.size - 1 : q.slot[i].vid = v
      BY <1>2, <3>2 DEF Kept
    <3>. QED
      BY <1>4, <3>1, <3>2
  <2>4. \A w \in pushed' : w \in Kept \/ (q'.size = L /\ TailDist(q') < DistOf[w])
    BY <1>1, <1>4, <2>3 DEF BeamInv
  <2>. QED
    BY <1>3, <2>1, <2>2, <2>4 DEF BeamInv
<1>5. ASSUME NEW loc \in 0 .. q.size, loc < L, IsLowerBound(q, DistOf[v], loc),
             ~ (loc < q.size /\ q.slot[loc].vid = v), q' = InsertAt(q, loc, v, DistOf[v])
      PROVE  BeamInv'
  <2>1. /\ q'.size = IF q.size < L THEN q.size + 1 ELSE q.size
        /\ q'.slot[loc] = [vid |-> v, dist |-> DistOf[v], expanded |-> FALSE]
        /\ \A i \in 0 .. loc - 1 : q'.slot[i] = q.slot[i]
        /\ \A i \in loc + 1 .. q'.size - 1 :
              i - 1 \in 0 .. q.size - 1 /\ q'.slot[i] = q.slot[i - 1]
    BY <1>2, <1>5, InsertFields, SMTT(30)
  <2>2. \A i \in loc .. q.size - 1 : DistOf[v] < q.slot[i].dist
    <3>1. ASSUME loc < q.size PROVE DistOf[v] < q.slot[loc].dist
      <4>1. loc \in 0 .. q.size - 1 /\ DistOf[v] <= q.slot[loc].dist
        BY <1>2, <1>5, <3>1 DEF IsLowerBound
      <4>2. q.slot[loc].vid \in pushed' /\ v \in pushed'
        BY <1>1, <1>2, <4>1 DEF HistoryInv
      <4>3. q.slot[loc].dist # DistOf[v]
        BY <1>2, <1>5, <3>1, <4>1, <4>2 DEF DistinctPushed
      <4>. QED
        BY <1>2, <4>1, <4>3
    <3>2. ASSUME NEW i \in loc .. q.size - 1 PROVE DistOf[v] < q.slot[i].dist
      <4>1. loc < q.size /\ loc \in 0 .. q.size - 1 /\ i \in 0 .. q.size - 1 /\ (i = loc \/ loc < i)
        BY <1>2
      <4>. QED
        BY <1>2, <3>1, <4>1
    <3>. QED
      BY <3>2
  <2>3. q.size = L => DistOf[v] < TailDist(q) /\ L - 1 \in loc .. q.size - 1
    BY <1>2, <1>5, <2>2 DEF TailDist
  <2>4. v \notin Kept
    <3>1. \A i \in 0 .. loc - 1 : q.slot[i].dist < DistOf[v]
      BY <1>5 DEF IsLowerBound
    <3>2. \A i \in 0 .. q.size - 1 : i \in 0 .. loc - 1 \/ i \in loc .. q.size - 1
      BY <1>2
    <3>. QED
      BY <1>2, <2>2, <3>1, <3>2 DEF Kept
  <2>5. v \notin pushed
    <3>1. SUFFICES ASSUME v \in pushed PROVE FALSE
      OBVIOUS
    <3>2. q.size = L /\ TailDist(q) < DistOf[v] /\ TailDist(q) \in Nat
      BY <1>2, <2>4, <3>1 DEF BeamInv, TailDist
    <3>. QED
      BY <1>2, <2>3, <3>2
  <2>6. v \notin opened
    BY <2>5 DEF HistoryInv
  <2>7. Live(q') = 0 .. q'.size - 1 /\ Live(q)' = Live(q') /\ q'.size \in 1 .. L /\ loc \in 0 .. q'.size - 1
    BY <1>2, <1>5, <2>1 DEF Live
  <2>8. ASSUME NEW i \in 0 .. q'.size - 1
        PROVE  ~ q'.slot[i].expanded <=> q'.slot[i].vid \notin opened'
    <3>1. CASE i = loc
      BY <1>1, <2>1, <2>6, <3>1
    <3>2. CASE i \in 0 .. loc - 1
      <4>1. i \in 0 .. q.size - 1 /\ q'.slot[i] = q.slot[i]
        BY <1>2, <2>1, <3>2
      <4>. QED
        BY <1>1, <1>2, <4>1 DEF BeamInv, Open
    <3>3. CASE i \in loc + 1 .. q'.size - 1
      <4>1. i - 1 \in 0 .. q.size - 1 /\ q'.slot[i] = q.slot[i - 1]
        BY <2>1, <3>3
      <4>. QED
        BY <1>1, <1>2, <4>1 DEF BeamInv, Open
    <3>. QED
      BY <2>7, <3>1, <3>2, <3>3
  <2>9. v \in Kept'
    BY <2>1, <2>7 DEF Kept
  <2>10. ASSUME q.size = L
         PROVE  q'.size = L /\ TailDist(q') < TailDist(q)
    <3>1. q'.size = L /\ TailDist(q') = q'.slot[L - 1].dist /\ TailDist(q) = q.slot[L - 1].dist
      BY <1>2, <2>1, <2>10 DEF TailDist
    <3>2. CASE loc = L - 1
      BY <2>1, <2>3, <2>10, <3>1, <3>2
    <3>3. CASE loc # L - 1
      <4>1. L - 1 \in loc + 1 .. q'.size - 1 /\ L - 1 - 1 \in 0 .. q.size - 1
            /\ L - 1 \in 0 .. q.size - 1 /\ L - 1 - 1 < L - 1
        BY <1>2, <1>5, <2>10, <3>1, <3>3
      <4>2. q'.slot[L - 1] = q.slot[L - 1 - 1]
        BY <2>1, <4>1
      <4>. QED
        BY <1>2, <3>1, <4>1, <4>2
    <3>. QED
      BY <3>2, <3>3
  <2>11. ASSUME NEW i \in 0 .. q.size - 1
         PROVE  \/ q.slot[i].vid \in Kept'
                \/ q'.size = L /\ TailDist(q') < DistOf[q.slot[i].vid]
    <3>1. CASE i \in 0 .. loc - 1
      <4>1. q'.slot[i] = q.slot[i] /\ i \in 0 .. q'.size - 1
        <5>1. loc \in Nat /\ q'.size \in Nat /\ loc <= q'.size - 1
          BY <1>2, <2>7
        <5>2. i \in 0 .. q'.size - 1
          BY <3>1, <5>1
        <5>. QED
          BY <2>1, <3>1, <5>2
      <4>. QED
        BY <2>7, <4>1 DEF Kept
    <3>2. CASE i \in loc .. q.size - 1 /\ i + 1 < q'.size
      <4>1. i + 1 \in loc + 1 .. q'.size - 1 /\ i + 1 - 1 = i /\ i + 1 \in 0 .. q'.size - 1
        <5>1. loc \in Nat /\ q'.size \in Nat /\ i \in Nat /\ loc <= i
          BY <1>2, <2>7, <3>2
        <5>. QED
          BY <3>2, <5>1
      <4>2. q'.slot[i + 1] = q.slot[i]
        BY <2>1, <4>1
      <4>. QED
        BY <2>7, <4>1, <4>2 DEF Kept
    <3>3. CASE i \in loc .. q.size - 1 /\ i + 1 >= q'.size
      <4>1. q.size = L /\ i = L - 1
        BY <1>2, <2>1, <3>3
      <4>2. TailDist(q) = DistOf[q.slot[i].vid]
        BY <1>2, <4>1 DEF TailDist
      <4>. QED
        BY <2>10, <4>1, <4>2
    <3>. QED
      BY <1>2, <2>7, <3>1, <3>2, <3>3
  <2>12. ASSUME NEW u \in pushed'
         PROVE  u \in Kept' \/ (q'.size = L /\ TailDist(q') < DistOf[u])
    <3>1. CASE u = v
      BY <2>9, <3>1
    <3>2. CASE u \in Kept
      <4>1. PICK i \in 0 .. q.size - 1 : u = q.slot[i].vid
        BY <1>2, <3>2 DEF Kept
      <4>. QED
        BY <2>11, <4>1
    <3>3. CASE u \in pushed /\ u \notin Kept
      <4>1. q.size = L /\ TailDist(q) < DistOf[u]
        BY <3>3 DEF BeamInv
      <4>2. TailDist(q) \in Nat /\ DistOf[u] \in Nat
        BY <1>2, <3>3, <4>1, DistAssumption DEF TailDist, QueueInv, TypeOK
      <4>3. TailDist(q') \in Nat
        <5>1. q' \in QueueType
          BY <1>2, <1>5, InsertFields
        <5>2. q'.size - 1 \in Slots
          BY <1>2, <2>7 DEF Slots
        <5>3. q'.slot[q'.size - 1] \in Entry
          BY <5>1, <5>2 DEF QueueType
        <5>. QED
          BY <5>3 DEF TailDist, Entry
      <4>. QED
        BY <2>10, <4>1, <4>2, <4>3
    <3>. QED
      BY <1>1, <3>1, <3>2, <3>3
  <2>13. \A i \in Live(q)' : Open(i)' <=> q'.slot[i].vid \notin opened'
    BY <2>7, <2>8 DEF Open
  <2>. QED
    BY <1>3, <2>12, <2>13 DEF BeamInv
<1>. QED
  BY <1>1, <1>2, <1>4, <1>5, PushCases

\* Expanding the front marks the one entry of its candidate.
LEMMA ExpandKeepsBeam ==
  ASSUME QueueInv, HistoryInv, BeamInv, ExpandFront, DistinctPushed
  PROVE  BeamInv'
<1>1. /\ q \in QueueType /\ q.size \in 0 .. L /\ L \in Nat \ {0} /\ Live(q) = 0 .. q.size - 1
      /\ q.next_idx2 <= q.size /\ q.next_idx \in 0 .. q.size - 1
      /\ \A i, j \in 0 .. q.size - 1 : q.slot[i].vid = q.slot[j].vid => i = j
      /\ \A i \in 0 .. q.size - 1 : q.slot[i].vid \in Vid /\ q.slot[i] \in Entry
      /\ q' = SetFrontExpanded(q) /\ pushed' = pushed
      /\ opened' = opened \cup {q.slot[q.next_idx].vid}
  <2>1. /\ q \in QueueType /\ q.size \in 0 .. L /\ L \in Nat \ {0} /\ Live(q) = 0 .. q.size - 1
        /\ q.next_idx2 \in 0 .. q.size /\ q.next_idx \in 0 .. q.size
        /\ \A i, j \in 0 .. q.size - 1 : q.slot[i].vid = q.slot[j].vid => i = j
        /\ \A i \in 0 .. q.size - 1 : q.slot[i].vid \in Vid
    BY QueueFacts DEF BeamInv
  <2>2. \A i \in 0 .. q.size - 1 : q.slot[i] \in Entry
    BY <2>1 DEF QueueType, Slots
  <2>. QED
    BY <2>1, <2>2 DEF ExpandFront, HasUnexpanded
<1>2. PICK f : f = q.next_idx
  OBVIOUS
<1>3. /\ q'.size = q.size
      /\ q'.slot[f] = [q.slot[f] EXCEPT !.expanded = TRUE]
      /\ \A i \in Slots \ {f} : q'.slot[i] = q.slot[i]
  BY <1>1, <1>2, ExpandFields
<1>4. /\ q'.slot[f].vid = q.slot[f].vid /\ q'.slot[f].dist = q.slot[f].dist /\ q'.slot[f].expanded = TRUE
      /\ \A i \in 0 .. q.size - 1 : i # f => q'.slot[i] = q.slot[i]
      /\ f \in 0 .. q.size - 1
  BY <1>1, <1>2, <1>3 DEF Entry, Slots
<1>5. \A i \in 0 .. q.size - 1 : q'.slot[i].vid = q.slot[i].vid /\ q'.slot[i].dist = q.slot[i].dist
  BY <1>4
<1>6. Live(q)' = 0 .. q.size - 1 /\ Kept' = Kept
  <2>1. Live(q)' = 0 .. q.size - 1
    BY <1>3 DEF Live
  <2>. QED
    BY <1>1, <1>5, <2>1 DEF Kept
<1>7. q.size = L => TailDist(q)' = TailDist(q)
  BY <1>1, <1>3, <1>5 DEF TailDist
<1>8. ASSUME NEW i \in 0 .. q.size - 1
      PROVE  ~ q'.slot[i].expanded <=> q'.slot[i].vid \notin opened'
  <2>1. ~ q.slot[i].expanded <=> q.slot[i].vid \notin opened
    BY <1>1 DEF BeamInv, Open
  <2>2. CASE i = f
    BY <1>1, <1>2, <1>4, <2>1, <2>2
  <2>3. CASE i # f
    <3>1. q.slot[i].vid # q.slot[f].vid
      BY <1>1, <1>4, <2>3
    <3>. QED
      BY <1>1, <1>2, <1>4, <2>1, <2>3, <3>1
  <2>. QED
    BY <2>2, <2>3
<1>9. NoDuplicateIds'
  BY ExpandKeepsDistinct DEF BeamInv
<1>10. \A u \in pushed : u \in Kept' \/ (q'.size = L /\ TailDist(q') < DistOf[u])
  BY <1>3, <1>6, <1>7 DEF BeamInv
<1>. QED
  BY <1>1, <1>6, <1>8, <1>9, <1>10 DEF BeamInv, Open

(***************************************************************************)
(* Every candidate pushed is in the queue or farther than its tail, as     *)
(* long as no two candidates pushed are equally far.                       *)
(***************************************************************************)
THEOREM BeamInvHolds == Spec => [](QueueInv /\ HistoryInv /\ (DistinctPushed => BeamInv))
<1> DEFINE Inv == HistoryInv /\ (DistinctPushed => BeamInv)
<1>1. Init => Inv
  BY FS_EmptySet DEF Init, NewQueue, HistoryInv, BeamInv, NoDuplicateIds, Live
<1>2. QueueInv /\ Inv /\ [Next]_vars => Inv'
  <2> SUFFICES ASSUME QueueInv, Inv, [Next]_vars PROVE Inv'
    OBVIOUS
  <2>1. CASE PushAny
    <3>1. DistinctPushed' => DistinctPushed
      BY <2>1 DEF PushAny, DistinctPushed
    <3>. QED
      BY <2>1, <3>1, PushKeepsHistory, PushKeepsBeam
  <2>2. CASE ExpandFront
    <3>1. DistinctPushed' => DistinctPushed
      BY <2>2 DEF ExpandFront, DistinctPushed
    <3>. QED
      BY <2>2, <3>1, ExpandKeepsHistory, ExpandKeepsBeam
  <2>3. CASE UNCHANGED vars
    BY <2>3 DEF vars, HistoryInv, BeamInv, NoDuplicateIds, DistinctPushed, Live, Open, Kept
  <2>. QED
    BY <2>1, <2>2, <2>3 DEF Next
<1>. QED
  BY <1>1, <1>2, QueueInvHolds, PTL DEF Spec

(***************************************************************************)
(* With distinct distances push's test for a duplicate (pqueue.hpp:286) is *)
(* enough: no candidate is ever queued twice.                              *)
(***************************************************************************)
THEOREM NoDuplicatesWhenDistinct ==
  ASSUME DistinctDistances
  PROVE  Spec => []NoDuplicateIds
<1>1. QueueInv /\ HistoryInv /\ (DistinctPushed => BeamInv) => NoDuplicateIds
  BY DEF QueueInv, TypeOK, DistinctDistances, DistinctPushed, BeamInv
<1>. QED
  BY <1>1, BeamInvHolds, PTL

\* So the queue holds the L nearest of all pushed.
LEMMA KeptAreNearest ==
  ASSUME DistinctPushed, QueueInv, HistoryInv, BeamInv
  PROVE  Kept = Nearest(pushed)
<1>1. /\ q.size \in 0 .. L /\ L \in Nat \ {0} /\ Live(q) = 0 .. q.size - 1
      /\ \A i \in 0 .. q.size - 1 : /\ q.slot[i].dist \in Nat /\ q.slot[i].vid \in Vid
                                    /\ q.slot[i].dist = DistOf[q.slot[i].vid]
      /\ \A i, j \in 0 .. q.size - 1 : i < j => q.slot[i].dist < q.slot[j].dist
      /\ \A i, j \in 0 .. q.size - 1 : q.slot[i].vid = q.slot[j].vid => i = j
  BY QueueFacts DEF BeamInv
<1>2. /\ IsFiniteSet(pushed) /\ pushed \subseteq Vid
      /\ \A i \in 0 .. q.size - 1 : q.slot[i].vid \in pushed
      /\ \A v \in pushed : v \in Kept \/ (q.size = L /\ TailDist(q) < DistOf[v])
  BY <1>1 DEF HistoryInv, BeamInv, QueueInv, TypeOK
<1>3. \A v \in pushed : DistOf[v] \in Nat
  BY <1>2, DistAssumption
<1>4. ASSUME NEW v \in Kept PROVE v \in Nearest(pushed)
  <2>1. PICK i \in 0 .. q.size - 1 : v = q.slot[i].vid
    BY <1>1 DEF Kept
  <2> DEFINE W == {w \in pushed : DistOf[w] < DistOf[v]}
             place == [j \in 0 .. i - 1 |-> q.slot[j].vid]
  <2>2. \A w \in W : \E j \in 0 .. i - 1 : w = q.slot[j].vid
    <3>1. SUFFICES ASSUME NEW w \in pushed, DistOf[w] < DistOf[v]
                   PROVE  \E j \in 0 .. i - 1 : w = q.slot[j].vid
      OBVIOUS
    <3>2. q.slot[i].dist = DistOf[v] /\ DistOf[v] \in Nat /\ DistOf[w] \in Nat
      BY <1>1, <1>2, <1>3, <2>1
    <3>3. w \in Kept
      <4>1. SUFFICES ASSUME q.size = L, TailDist(q) < DistOf[w] PROVE FALSE
        BY <1>2, <3>1
      <4>2. L - 1 \in 0 .. q.size - 1 /\ TailDist(q) = q.slot[L - 1].dist /\ (i = L - 1 \/ i < L - 1)
        BY <1>1, <4>1 DEF TailDist
      <4>3. q.slot[i].dist <= q.slot[L - 1].dist /\ q.slot[L - 1].dist \in Nat
        BY <1>1, <2>1, <4>2
      <4>. QED
        BY <3>1, <3>2, <4>1, <4>2, <4>3
    <3>4. PICK j \in 0 .. q.size - 1 : w = q.slot[j].vid
      BY <1>1, <3>3 DEF Kept
    <3>5. j < i
      <4>1. q.slot[j].dist = DistOf[w]
        BY <1>1, <3>4
      <4>2. j = i \/ i < j \/ j < i
        BY <1>1
      <4>. QED
        BY <1>1, <3>1, <3>2, <4>1, <4>2
    <3>. QED
      BY <3>4, <3>5
  <2>3. IsFiniteSet(W)
    BY <1>2, FS_Subset
  <2>4. Cardinality(W) <= i
    <3> DEFINE at == [w \in W |-> CHOOSE j \in 0 .. i - 1 : w = q.slot[j].vid]
    <3>1. \A w \in W : at[w] \in 0 .. i - 1 /\ w = q.slot[at[w]].vid
      BY <2>2
    <3>2. at \in [W -> 0 .. i - 1]
      BY <3>1
    <3>3. at \in Injection(W, 0 .. i - 1)
      <4>1. \A a, b \in W : at[a] = at[b] => a = b
        <5> HIDE DEF at, W
        <5>. QED
          BY <3>1
      <4> HIDE DEF at, W
      <4>. QED
        BY <3>2, <4>1 DEF Injection, IsInjective
    <3>4. IsFiniteSet(0 .. i - 1) /\ Cardinality(0 .. i - 1) = i
      <4>1. 0 \in Int /\ i - 1 \in Int
        BY <1>1
      <4>2. /\ IsFiniteSet(0 .. i - 1)
            /\ Cardinality(0 .. i - 1) = IF 0 > i - 1 THEN 0 ELSE i - 1 - 0 + 1
        BY <4>1, FS_Interval
      <4>. QED
        BY <1>1, <4>2
    <3> HIDE DEF at, W
    <3>. QED
      BY <3>3, <3>4, FS_Injection
  <2>5. Cardinality(W) \in Nat
    BY <2>3, FS_CardinalityType
  <2>6. v \in pushed
    BY <1>2, <2>1
  <2>7. Cardinality(W) < L
    BY <1>1, <2>4, <2>5
  <2>. QED
    BY <2>6, <2>7 DEF Nearest
<1>5. ASSUME NEW v \in Nearest(pushed) PROVE v \in Kept
  <2> DEFINE W == {w \in pushed : DistOf[w] < DistOf[v]}
             place == [j \in 0 .. L - 1 |-> q.slot[j].vid]
  <2>1. v \in pushed /\ Cardinality(W) < L
    BY DEF Nearest
  <2>2. SUFFICES ASSUME v \notin Kept PROVE FALSE
    OBVIOUS
  <2>3. q.size = L /\ TailDist(q) < DistOf[v] /\ DistOf[v] \in Nat
    BY <1>2, <1>3, <2>1, <2>2
  <2>4. ASSUME NEW j \in 0 .. L - 1 PROVE q.slot[j].vid \in W
    <3>1. /\ L - 1 \in 0 .. q.size - 1 /\ j \in 0 .. q.size - 1 /\ (j = L - 1 \/ j < L - 1)
          /\ TailDist(q) = q.slot[L - 1].dist
      BY <1>1, <2>3 DEF TailDist
    <3>2. q.slot[j].dist <= q.slot[L - 1].dist
      BY <1>1, <3>1
    <3>3. q.slot[j].vid \in pushed /\ DistOf[q.slot[j].vid] = q.slot[j].dist
          /\ q.slot[j].dist \in Nat /\ q.slot[L - 1].dist \in Nat
      BY <1>1, <1>2, <3>1
    <3>. QED
      BY <2>3, <3>1, <3>2, <3>3
  <2>5. IsFiniteSet(W)
    BY <1>2, FS_Subset
  <2>6. place \in Injection(0 .. L - 1, W)
    <3>1. place \in [0 .. L - 1 -> W]
      BY <2>4
    <3>2. \A i, j \in 0 .. L - 1 : place[i] = place[j] => i = j
      BY <1>1, <2>3
    <3> HIDE DEF W
    <3>. QED
      BY <3>1, <3>2 DEF Injection, IsInjective
  <2>7. Cardinality(0 .. L - 1) = L
    <3>1. 0 \in Int /\ L - 1 \in Int
      BY <1>1
    <3>2. Cardinality(0 .. L - 1) = IF 0 > L - 1 THEN 0 ELSE L - 1 - 0 + 1
      BY <3>1, FS_Interval
    <3>. QED
      BY <1>1, <3>2
  <2>8. Cardinality(0 .. L - 1) <= Cardinality(W)
    <3> HIDE DEF W, place
    <3>. QED
      BY <2>5, <2>6, FS_Injection
  <2>9. Cardinality(W) \in Nat
    BY <2>5, FS_CardinalityType
  <2>. QED
    BY <1>1, <2>1, <2>7, <2>8, <2>9
<1>. QED
  BY <1>4, <1>5 DEF Nearest

(***************************************************************************)
(* The beam is lossless: new_pqueue_t is always in order, and as long as   *)
(* no two candidates are equally far it holds exactly the L nearest of all *)
(* ever pushed, each once, and its flags tell which of them were expanded, *)
(* however pushes, duplicates and evictions were interleaved.              *)
(***************************************************************************)
THEOREM NearestKept == Spec => []HoldsTheNearest
<1>1. QueueInv /\ HistoryInv /\ (DistinctPushed => BeamInv) => HoldsTheNearest
  <2>1. SUFFICES ASSUME QueueInv, HistoryInv, DistinctPushed => BeamInv PROVE HoldsTheNearest
    OBVIOUS
  <2>2. DistinctPushed => Kept = Nearest(pushed)
    BY <2>1, KeptAreNearest
  <2>. QED
    BY <2>1, <2>2 DEF HoldsTheNearest, Kept, BeamInv, QueueInv
<1>. QED
  BY <1>1, BeamInvHolds, PTL

\* The front is the nearest of the beam that was not expanded.
LEMMA ExpandIsOfBeam ==
  ASSUME DistinctPushed, QueueInv, HistoryInv, BeamInv, ExpandFront
  PROVE  B!Expand
<1>1. /\ q.size \in 0 .. L /\ L \in Nat \ {0} /\ Live(q) = 0 .. q.size - 1
      /\ \A i \in 0 .. q.size - 1 : /\ q.slot[i].dist \in Nat /\ q.slot[i].vid \in Vid
                                    /\ q.slot[i].dist = DistOf[q.slot[i].vid]
      /\ \A i, j \in 0 .. q.size - 1 : i < j => q.slot[i].dist < q.slot[j].dist
  BY QueueFacts DEF BeamInv
<1>2. PICK f \in 0 .. q.size - 1 : f = q.next_idx /\ Open(f)
  <2>1. q.next_idx \in 0 .. q.size - 1 /\ Open(q.next_idx)
    BY <1>1, QueueFacts DEF BeamInv, ExpandFront, HasUnexpanded, QueueInv, CursorsAtTwoNearestOpen
  <2>. QED
    BY <2>1
<1>3. \A i \in 0 .. q.size - 1 : Open(i) => f <= i
  BY <1>1, <1>2, QueueFacts DEF BeamInv, QueueInv, CursorsAtTwoNearestOpen
<1>4. PICK v : v = q.slot[f].vid
  OBVIOUS
<1>5. B!InBeam = Kept
  <2>1. Kept = Nearest(pushed)
    BY KeptAreNearest
  <2>2. \A u : {w \in pushed : B!Nearer(w, u)} = {w \in pushed : DistOf[w] < DistOf[u]}
    BY DEF B!Nearer
  <2>3. ASSUME NEW S PROVE B!Cardinality(S) = Cardinality(S)
    BY Zenon DEF B!Cardinality, Cardinality
  <2>4. \A u : u \in B!InBeam <=> u \in Nearest(pushed)
    BY <2>2, <2>3 DEF B!InBeam, Nearest
  <2>. QED
    BY <2>1, <2>4
<1>6. v \in Kept \ opened /\ opened' = opened \cup {v} /\ pushed' = pushed /\ v \in Vid
  BY <1>1, <1>2, <1>4 DEF Kept, BeamInv, ExpandFront
<1>7. ASSUME NEW w \in Kept \ opened PROVE ~ (DistOf[w] < DistOf[v])
  <2>1. PICK i \in 0 .. q.size - 1 : w = q.slot[i].vid /\ Open(i)
    BY <1>1 DEF Kept, BeamInv
  <2>2. i = f \/ f < i
    BY <1>1, <1>2, <1>3, <2>1
  <2>. QED
    BY <1>1, <1>2, <1>4, <2>1, <2>2
<1>. QED
  BY <1>5, <1>6, <1>7 DEF B!Expand, B!Nearer

(***************************************************************************)
(* As long as no two candidates are equally far, new_pqueue_t implements   *)
(* the abstract beam, in which there are no positions, cursors or          *)
(* evictions: of all candidates seen, each expansion is of the nearest of  *)
(* the L nearest that was not expanded before.                             *)
(***************************************************************************)
THEOREM BeamImplemented == Spec => ImplementsBeam
<1>1. Init => B!Init
  BY DEF Init, B!Init
<1>2. QueueInv /\ HistoryInv /\ (DistinctPushed => BeamInv) /\ [Next]_vars
        => [DistinctPushed' => B!Next]_<<pushed, opened>>
  <2> SUFFICES ASSUME QueueInv, HistoryInv, DistinctPushed => BeamInv, [Next]_vars
               PROVE  [DistinctPushed' => B!Next]_<<pushed, opened>>
    OBVIOUS
  <2>1. CASE PushAny
    BY <2>1 DEF PushAny, B!Next, B!See
  <2>2. CASE ExpandFront
    <3>1. DistinctPushed' => DistinctPushed
      BY <2>2 DEF ExpandFront, DistinctPushed
    <3>. QED
      BY <2>2, <3>1, ExpandIsOfBeam DEF B!Next
  <2>3. CASE UNCHANGED vars
    BY <2>3 DEF vars
  <2>. QED
    BY <2>1, <2>2, <2>3 DEF Next
<1>. QED
  BY <1>1, <1>2, BeamInvHolds, PTL DEF Spec, ImplementsBeam

\* So with distinct distances the queue is a refinement of Beam.
THEOREM BeamImplementedWhenDistinct ==
  ASSUME DistinctDistances
  PROVE  Spec => B!Spec
<1>1. QueueInv /\ [Next]_vars => DistinctPushed'
  BY NextQueueInv DEF QueueInv, TypeOK, DistinctDistances, DistinctPushed
<1>2. [DistinctPushed' => B!Next]_<<pushed, opened>> /\ DistinctPushed'
        => [B!Next]_<<pushed, opened>>
  OBVIOUS
<1>. QED
  BY <1>1, <1>2, QueueInvHolds, BeamImplemented, PTL DEF Spec, ImplementsBeam, B!Spec
=============================================================================
